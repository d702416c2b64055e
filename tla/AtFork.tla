--------------------------------- MODULE AtFork ---------------------------------
(***************************************************************************)
(* 14/14-3thread_atfork.c: the process forks while another thread may hold *)
(* the mutex, without pthread_atfork (line 32 is a comment).  The child    *)
(* has a copy of the mutex as it was, and not the thread that holds it.    *)
(***************************************************************************)
VARIABLES
  mutex,     \* in the parent: "free", or locked by "another"
  copy,      \* in the child: "none", "free", "locked by another", "locked by child"
  another,   \* the thread: "starts", "sleeps", "end"
  main,      \* "sleep", "unlock", "wait", "join", "exit"
  child,     \* "none", "lock", "unlock", "exit"
  atFork     \* the mutex when fork was called

vars == << mutex, copy, another, main, child, atFork >>

Init ==
  /\ mutex = "free" /\ copy = "none" /\ atFork = "none"
  /\ another = "starts" /\ main = "sleep" /\ child = "none"

Lock ==
  /\ another = "starts" /\ mutex = "free"
  /\ mutex' = "another" /\ another' = "sleeps"
  /\ UNCHANGED << copy, main, child, atFork >>

\* pthread_mutex_unlock sets the mutex free, locked or not.
Unlock ==
  /\ another = "sleeps"
  /\ mutex' = "free" /\ another' = "end"
  /\ UNCHANGED << copy, main, child, atFork >>

\* sleep(1) orders nothing.
Fork ==
  /\ main = "sleep"
  /\ main' = "unlock" /\ child' = "lock"
  /\ copy' = (IF mutex = "free" THEN "free" ELSE "locked by another") /\ atFork' = mutex
  /\ UNCHANGED << mutex, another >>

ForkFails ==
  /\ main = "sleep"
  /\ main' = "join"
  /\ UNCHANGED << mutex, copy, another, child, atFork >>

ChildLocks ==
  /\ child = "lock" /\ copy = "free"
  /\ copy' = "locked by child" /\ child' = "unlock"
  /\ UNCHANGED << mutex, another, main, atFork >>

ChildUnlocks ==
  /\ child = "unlock"
  /\ copy' = "free" /\ child' = "exit"
  /\ UNCHANGED << mutex, another, main, atFork >>

\* Line 51: main has never locked it.
MainUnlocks ==
  /\ main = "unlock"
  /\ mutex' = "free" /\ main' = "wait"
  /\ UNCHANGED << copy, another, child, atFork >>

Wait ==
  /\ main = "wait" /\ child = "exit"
  /\ main' = "join"
  /\ UNCHANGED << mutex, copy, another, child, atFork >>

\* pthread_join; the mutex and the process end.
Join ==
  /\ main = "join" /\ another = "end"
  /\ main' = "exit"
  /\ UNCHANGED << mutex, copy, another, child, atFork >>

Next ==
  Lock \/ Unlock \/ Fork \/ ForkFails \/ ChildLocks \/ ChildUnlocks \/ MainUnlocks \/ Wait \/ Join

Spec == Init /\ [][Next]_vars

-----------------------------------------------------------------------------
\* None of the three threads can go on: it has ended, or waits.
Stuck ==
  /\ another = "end" \/ (another = "starts" /\ mutex # "free")
  /\ main = "exit" \/ (main = "wait" /\ child # "exit") \/ (main = "join" /\ another # "end")
  /\ child \in {"none", "exit"} \/ (child = "lock" /\ copy # "free")

\* Both processes come to their end, unless the fork met the mutex locked: then
\* the child waits for a thread it does not have, and the parent for the child
\* (lines 34, 44, 52), even though the parent's mutex is free again.
EndsUnlessForkedLocked ==
  Stuck =>
    \/ main = "exit" /\ child \in {"none", "exit"}
    \/ atFork = "another" /\ child = "lock" /\ main = "wait" /\ another = "end" /\ mutex = "free"
=============================================================================
