------------------------------ MODULE MutualLock ------------------------------
(***************************************************************************)
(* 14/14-1mutual_lock.c: main takes mutex_a and then mutex_b, the other    *)
(* thread mutex_b and then mutex_a.  The two run the same statements with  *)
(* a and b swapped, so each has its first and its second.                  *)
(***************************************************************************)
EXTENDS Naturals

Threads == {"main", "another"}
First(t) == IF t = "main" THEN "a" ELSE "b"
Second(t) == IF t = "main" THEN "b" ELSE "a"

VARIABLES
  mutex,     \* who holds mutex_a and mutex_b, or "free"
  val,       \* a and b
  pc         \* the next statement of each thread

vars == << mutex, val, pc >>

Init ==
  /\ mutex = [m \in {"a", "b"} |-> "free"] /\ val = [m \in {"a", "b"} |-> 0]
  /\ pc = [t \in Threads |-> "lock first"]

Goes(t, from, to) == pc[t] = from /\ pc' = [pc EXCEPT ![t] = to]
Locks(t, m) == mutex[m] = "free" /\ mutex' = [mutex EXCEPT ![m] = t]
Unlocks(m) == mutex' = [mutex EXCEPT ![m] = "free"]

LockFirst(t) ==
  /\ Goes(t, "lock first", "increment") /\ Locks(t, First(t))
  /\ UNCHANGED val

Increment(t) ==
  /\ Goes(t, "increment", "lock second") /\ val' = [val EXCEPT ![First(t)] = @ + 1]
  /\ UNCHANGED mutex

LockSecond(t) ==
  /\ Goes(t, "lock second", "add") /\ Locks(t, Second(t))
  /\ UNCHANGED val

\* a += b++
Add(t) ==
  /\ Goes(t, "add", "unlock second")
  /\ val' = [val EXCEPT ![First(t)] = @ + val[Second(t)], ![Second(t)] = @ + 1]
  /\ UNCHANGED mutex

UnlockSecond(t) ==
  /\ Goes(t, "unlock second", "unlock first") /\ Unlocks(Second(t))
  /\ UNCHANGED val

UnlockFirst(t) ==
  /\ Goes(t, "unlock first", "end") /\ Unlocks(First(t))
  /\ UNCHANGED val

\* pthread_join, and the end of the process.
Join == pc["another"] = "end" /\ Goes("main", "end", "joined") /\ UNCHANGED << mutex, val >>

Step(t) == LockFirst(t) \/ Increment(t) \/ LockSecond(t) \/ Add(t) \/ UnlockSecond(t) \/ UnlockFirst(t)

Next == Join \/ \E t \in Threads : Step(t)

Spec == Init /\ [][Next]_vars

-----------------------------------------------------------------------------
Stuck(t) ==
  pc[t] \in {"lock first", "lock second"}
    /\ mutex[IF pc[t] = "lock first" THEN First(t) ELSE Second(t)] # "free"

\* The program ends with 2 in one variable and 3 in the other, whoever was first,
\* or with each thread waiting for the mutex the other one has (lines 12-16, 31-35),
\* and in no other way.
EndsInOrderOrEmbrace ==
  (\A t \in Threads : Stuck(t) \/ pc[t] \in {"end", "joined"}) =>
    \/ \A t \in Threads : pc[t] = "lock second" /\ mutex[First(t)] = t
    \/ pc["another"] = "end" /\ {val["a"], val["b"]} = {2, 3}
=============================================================================
