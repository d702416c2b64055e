---------------------------- MODULE MCHttpServer ----------------------------
(* Small instances of the web server for TLC.                               *)
EXTENDS HttpServer, TLC

CONSTANT c1   \* the client that talks most

MCOneFd    == {5}
MCFds      == {5, 6}
MCThreeFds == {5, 6, 7}

MCOneEach == [c \in Clients |-> 1]
MCTalk    == [c \in Clients |-> IF c = c1 THEN 3 ELSE 1]

\* Clients and workers are interchangeable (safety only).
Symmetry == Permutations(Clients) \cup Permutations(Workers)
=============================================================================
