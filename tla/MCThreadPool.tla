----------------------------- MODULE MCThreadPool -----------------------------
(* Small pools for TLC: two workers, two appending threads, four calls.     *)
EXTENDS ThreadPool

CONSTANTS r1, r2, r3, r4

MCRequests == {r1, r2, r3, r4}
MCNullRequests == {r4}

=============================================================================
