------------------------------- MODULE JobQueue -------------------------------
(***************************************************************************)
(* What the thread pool promises to the threads that append to it, with    *)
(* no lock, no semaphore and no program counter: a bounded FIFO of jobs.   *)
(* A job offered is accepted while there is room and turned away only when *)
(* there is none; jobs are taken in the order of their acceptance, each by *)
(* one server, each once.                                                  *)
(***************************************************************************)
EXTENDS Naturals, Sequences

CONSTANTS Servers, Jobs, Skipped, Capacity, None

VARIABLES
  offers,      \* jobs not accepted or turned away yet
  waiting,     \* accepted jobs, oldest first
  turnedAway,  \* jobs refused because the queue was full
  serving,     \* the job each server holds, or None
  done         \* jobs served (a skipped job is served by doing nothing)

jobVars == << offers, waiting, turnedAway, serving, done >>

Init ==
  /\ offers = Jobs
  /\ waiting = <<>>
  /\ turnedAway = {}
  /\ serving = [s \in Servers |-> None]
  /\ done = {}

Accept(j) ==
  /\ j \in offers
  /\ Len(waiting) < Capacity
  /\ offers' = offers \ {j}
  /\ waiting' = Append(waiting, j)
  /\ UNCHANGED << turnedAway, serving, done >>

TurnAway(j) ==
  /\ j \in offers
  /\ Len(waiting) = Capacity
  /\ offers' = offers \ {j}
  /\ turnedAway' = turnedAway \cup {j}
  /\ UNCHANGED << waiting, serving, done >>

Take(s) ==
  /\ serving[s] = None
  /\ waiting # <<>>
  /\ serving' = [serving EXCEPT ![s] = Head(waiting)]
  /\ waiting' = Tail(waiting)
  /\ UNCHANGED << offers, turnedAway, done >>

Serve(s) ==
  /\ serving[s] # None
  /\ done' = done \cup ({serving[s]} \ Skipped)
  /\ serving' = [serving EXCEPT ![s] = None]
  /\ UNCHANGED << offers, waiting, turnedAway >>

Next ==
  \/ \E j \in Jobs : Accept(j) \/ TurnAway(j)
  \/ \E s \in Servers : Take(s) \/ Serve(s)

Spec == Init /\ [][Next]_jobVars
=============================================================================
