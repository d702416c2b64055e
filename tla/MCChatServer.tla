----------------------------- MODULE MCChatServer -----------------------------
(* Small chat rooms for TLC.                                                *)
EXTENDS ChatServer, TLC

\* The clients are interchangeable as long as all may do the same (safety only).
Symmetry == Permutations(Clients)
=============================================================================
