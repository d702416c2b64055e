------------------------------ MODULE TimerQueue ------------------------------
(***************************************************************************)
(* What a timer container promises, with no array and no heap: of the      *)
(* queued timers the one that expires first is chosen, its callback runs   *)
(* (unless it was cancelled) once, and it is the one that is removed then, *)
(* whatever the callback has added in between.                             *)
(***************************************************************************)
EXTENDS Naturals

CONSTANTS Timers, NULL

VARIABLES
  queued,   \* the timers in the container
  expire,   \* their expiry
  chosen,   \* the timer being dealt with, or NULL
  called    \* the timers whose callback has run

queueVars == << queued, expire, chosen, called >>

First(t) == t \in queued /\ \A s \in queued : expire[t] <= expire[s]

Init == queued \subseteq Timers /\ chosen = NULL /\ called = {}

\* A timer outside the container may be given another expiry.
Make ==
  /\ \A t \in queued : expire'[t] = expire[t]
  /\ UNCHANGED << queued, chosen, called >>

Add(t) ==
  /\ t \notin queued
  /\ queued' = queued \cup {t}
  /\ UNCHANGED << expire, chosen, called >>

Choose(t) ==
  /\ First(t)
  /\ chosen = NULL /\ chosen' = t
  /\ t \notin called
  /\ called' \in {called, called \cup {t}}
  /\ UNCHANGED << queued, expire >>

Remove(t) ==
  /\ First(t)
  /\ chosen \in {NULL, t} /\ chosen' = NULL
  /\ queued' = queued \ {t}
  /\ UNCHANGED << expire, called >>

Next == Make \/ \E t \in Timers : Add(t) \/ Choose(t) \/ Remove(t)

Spec == Init /\ [][Next]_queueVars
=============================================================================
