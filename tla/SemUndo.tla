-------------------------------- MODULE SemUndo --------------------------------
(***************************************************************************)
(* 13/13-3sem.cpp: a parent and its child take turns with a System V       *)
(* semaphore.  Every operation is made with SEM_UNDO: what a process has   *)
(* done to the semaphore is undone when it ends, however it ends.          *)
(***************************************************************************)
EXTENDS Integers, FiniteSets

Processes == {"parent", "child"}

VARIABLES
  sem,       \* its value, or Removed
  undo,      \* what the kernel adds to it when a process ends
  pc         \* "none", "down", "up", "exit", "wait", "ended"; the parent begins at "fork"

vars == << sem, undo, pc >>

Removed == 99

Init == sem = 1 /\ undo = [p \in Processes |-> 0] /\ pc = [p \in Processes |-> IF p = "parent" THEN "fork" ELSE "none"]

Fork == pc["parent"] = "fork" /\ pc' = [p \in Processes |-> "down"] /\ UNCHANGED << sem, undo >>

\* The semaphore stays behind.
ForkFails ==
  pc["parent"] = "fork" /\ pc' = [pc EXCEPT !["parent"] = "ended"] /\ UNCHANGED << sem, undo >>

\* semop fails on a semaphore that is no more, and nobody looks.
Pv(p, op) ==
  IF sem = Removed THEN UNCHANGED << sem, undo >>
  ELSE sem + op >= 0 /\ sem' = sem + op /\ undo' = [undo EXCEPT ![p] = @ - op]

Down(p) == pc[p] = "down" /\ Pv(p, -1) /\ pc' = [pc EXCEPT ![p] = "up"]

Up(p) ==
  /\ pc[p] = "up" /\ Pv(p, 1)
  /\ pc' = [pc EXCEPT ![p] = IF p = "parent" THEN "wait" ELSE "exit"]

Ended(p) ==
  /\ pc' = [pc EXCEPT ![p] = "ended"]
  /\ sem' = (IF sem = Removed THEN sem ELSE sem + undo[p]) /\ undo' = [undo EXCEPT ![p] = 0]

ChildExits == pc["child"] = "exit" /\ Ended("child")

\* waitpid, and IPC_RMID.
ParentExits ==
  /\ pc["parent"] = "wait" /\ pc["child"] = "ended"
  /\ pc' = [pc EXCEPT !["parent"] = "ended"] /\ sem' = Removed
  /\ UNCHANGED undo

\* A process is killed.
Crash(p) == pc[p] \in {"fork", "down", "up", "exit", "wait"} /\ Ended(p)

Next ==
  Fork \/ ForkFails \/ ChildExits \/ ParentExits \/ \E p \in Processes : Down(p) \/ Up(p) \/ Crash(p)

Spec == Init /\ [][Next]_vars

-----------------------------------------------------------------------------
Holders == {p \in Processes : pc[p] = "up"}

\* As long as there is a semaphore its value is one less for each holder, so one
\* at most holds it, and a holder that is killed gives it back: whoever waits for
\* it waits for a holder (pv, lines 15-22).
SemCountsHolders == sem # Removed => sem >= 0 /\ sem + Cardinality(Holders) = 1
=============================================================================
