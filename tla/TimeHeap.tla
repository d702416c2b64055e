------------------------------- MODULE TimeHeap -------------------------------
(***************************************************************************)
(* The time heap of 11/11-6time_heap.h: a binary heap of timers in an      *)
(* array that doubles when it is full.  The loops of add_timer and         *)
(* percolate_down are modelled one iteration at a time, with the hole and  *)
(* the timer in hand as state, because tick calls callbacks, and callbacks *)
(* may add and cancel timers, in the middle of its own loop.               *)
(***************************************************************************)
EXTENDS Integers, FiniteSets

CONSTANTS
  Timers,            \* the heap_timer objects of a run
  MaxCapacity,       \* bound: the capacity a heap is constructed with
  MaxTime,           \* bound: the clock stops there
  MaxDelay,          \* bound: the longest delay
  NULL

ASSUME CapacityAssumption == MaxCapacity \in Nat \ {0}
ASSUME TimeAssumption == MaxTime \in Nat /\ MaxDelay \in Nat
ASSUME NullAssumption == NULL \notin Timers

VARIABLES
  array, capacity, cur_size,
  expire,     \* the expiry of each timer
  cb_func,    \* the timers whose cb_func is not NULL
  life,       \* each timer: "none", "made", "queued", "deleted"
  now,        \* time(NULL)
  cur,        \* tick's copy of it
  tmp,        \* the timer tick is looking at
  pc,         \* "build", "idle", "up", "down", "tick", "callback", "pop", "again"
  return,     \* where the loop under way returns to
  hole, temp, \* the loop's hole, and the timer it is finding a place for
  built,      \* the constructor has made a heap of the entries from built on
  called      \* the timers whose callback has been called

arrayVars == << array, capacity, cur_size >>
timerVars == << expire, cb_func, life, called >>
loopVars  == << return, hole, temp, built >>
tickVars == << cur, tmp >>
vars == << arrayVars, timerVars, loopVars, now, tickVars, pc >>

Queued == {t \in Timers : life[t] = "queued"}
Slots == 0..(cur_size - 1)
Parent(k) == (k - 1) \div 2
IsParent(p, k) == k = 2 * p + 1 \/ k = 2 * p + 2
Expiry(k) == expire[array[k]]

-----------------------------------------------------------------------------
(* The constructors                                                         *)

InitRest ==
  /\ now = 0 /\ cur = 0 /\ tmp = NULL
  /\ return = "idle" /\ hole = 0 /\ temp = NULL
  /\ called = {}

\* time_heap( cap ): an empty heap.
InitEmpty ==
  /\ capacity \in 1..MaxCapacity
  /\ array = [k \in 0..(capacity - 1) |-> NULL]
  /\ cur_size = 0
  /\ expire = [t \in Timers |-> 0]
  /\ cb_func = {}
  /\ life = [t \in Timers |-> "none"]
  /\ pc = "idle" /\ built = 0

\* time_heap( init_array, size, capacity ): the timers as they come, to be
\* made into a heap from entry (size-1)/2 down.  With capacity < size it
\* throws and there is no heap.
InitFromArray ==
  /\ capacity \in 1..MaxCapacity
  /\ cur_size \in 1..capacity
  /\ array \in [0..(capacity - 1) -> Timers \cup {NULL}]
  /\ \A k \in 0..(capacity - 1) : array[k] = NULL <=> k >= cur_size
  /\ \A j, k \in Slots : array[j] = array[k] => j = k
  /\ expire \in [Timers -> 0..MaxDelay]
  /\ life = [t \in Timers |-> IF \E k \in Slots : array[k] = t THEN "queued" ELSE "none"]
  /\ cb_func = Queued
  /\ pc = "build" /\ built = (cur_size - 1) \div 2 + 1

Init == InitRest /\ (InitEmpty \/ InitFromArray)

\* One turn of the constructor's loop, or its end.
Build ==
  /\ pc = "build" /\ built > 0
  /\ pc' = "down" /\ return' = "build"
  /\ hole' = built - 1 /\ temp' = array[built - 1]
  /\ built' = built - 1
  /\ UNCHANGED << arrayVars, timerVars, now, tickVars >>

BuildDone ==
  /\ pc = "build" /\ built = 0
  /\ pc' = "idle"
  /\ UNCHANGED << arrayVars, timerVars, loopVars, now, tickVars >>

-----------------------------------------------------------------------------
(* The program around the heap, and its callbacks                           *)

Clock ==
  /\ now < MaxTime
  /\ now' = now + 1
  /\ UNCHANGED << arrayVars, timerVars, loopVars, tickVars, pc >>

\* Where the program's own code runs: outside the heap, or in a callback.
InProgram == pc \in {"idle", "callback"}

\* heap_timer( delay )
NewTimer(t) ==
  /\ InProgram
  /\ life[t] = "none"
  /\ \E delay \in 0..MaxDelay : expire' = [expire EXCEPT ![t] = now + delay]
  /\ cb_func' = cb_func \cup {t}
  /\ life' = [life EXCEPT ![t] = "made"]
  /\ UNCHANGED << arrayVars, loopVars, now, tickVars, pc, called >>

\* Mutant: the copy stops one timer short.
Resized_Short ==
  [k \in 0..(2 * capacity - 1) |-> IF k < cur_size - 1 THEN array[k] ELSE NULL]

\* resize: twice the capacity, the rest NULL.
Resized ==
  [k \in 0..(2 * capacity - 1) |-> IF k \in Slots THEN array[k] ELSE NULL]

\* Assumed of the program: a callback adds timers that expire no earlier than
\* the tick that called it, as heap_timer( delay ) makes them while time(NULL)
\* does not step back.
CallbackAddsLater(t) == pc = "callback" => expire[t] >= cur

AddTimer(t) ==
  /\ InProgram
  /\ life[t] = "made"
  /\ CallbackAddsLater(t)
  /\ IF cur_size >= capacity
     THEN array' = Resized /\ capacity' = 2 * capacity
     ELSE UNCHANGED << array, capacity >>
  /\ hole' = cur_size
  /\ cur_size' = cur_size + 1
  /\ temp' = t
  /\ life' = [life EXCEPT ![t] = "queued"]
  /\ pc' = "up" /\ return' = pc
  /\ UNCHANGED << expire, cb_func, called, built, now, tickVars >>

\* Mutant: a timer rises past a parent that expires at the same time.
Up_PastEqual ==
  /\ pc = "up"
  /\ hole > 0 /\ Expiry(Parent(hole)) >= expire[temp]
  /\ array' = [array EXCEPT ![hole] = array[Parent(hole)]]
  /\ hole' = Parent(hole)
  /\ UNCHANGED << capacity, cur_size, timerVars, return, temp, built, now, tickVars, pc >>

\* A turn of add_timer's loop: the parent expires later and moves down.
Up ==
  /\ pc = "up"
  /\ hole > 0 /\ Expiry(Parent(hole)) > expire[temp]
  /\ array' = [array EXCEPT ![hole] = array[Parent(hole)]]
  /\ hole' = Parent(hole)
  /\ UNCHANGED << capacity, cur_size, timerVars, return, temp, built, now, tickVars, pc >>

UpDone ==
  /\ pc = "up"
  /\ hole > 0 => Expiry(Parent(hole)) <= expire[temp]
  /\ array' = [array EXCEPT ![hole] = temp]
  /\ pc' = return
  /\ UNCHANGED << capacity, cur_size, timerVars, loopVars, now, tickVars >>

\* del_timer: lazy, the timer stays where it is.
DelTimer(t) ==
  /\ InProgram
  /\ life[t] = "queued"
  /\ cb_func' = cb_func \ {t}
  /\ UNCHANGED << arrayVars, loopVars, expire, life, called, now, tickVars, pc >>

-----------------------------------------------------------------------------
(* pop_timer and percolate_down                                             *)

\* The last timer goes to the root.  When it was the root, the array keeps a
\* pointer to a deleted timer in entry 0.
PopTimer(from, to) ==
  /\ pc = from
  /\ cur_size > 0
  /\ life' = [life EXCEPT ![array[0]] = "deleted"]
  /\ array' = [array EXCEPT ![0] = array[cur_size - 1]]
  /\ cur_size' = cur_size - 1
  /\ hole' = 0 /\ temp' = array[cur_size - 1]
  /\ pc' = "down" /\ return' = to
  /\ UNCHANGED << capacity, expire, cb_func, called, built, now, tickVars >>

\* The child that expires first.
Child ==
  LET child == 2 * hole + 1
  IN  IF child < cur_size - 1 /\ Expiry(child + 1) < Expiry(child)
      THEN child + 1 ELSE child
MustSink == 2 * hole + 1 <= cur_size - 1 /\ Expiry(Child) < expire[temp]

Down ==
  /\ pc = "down" /\ MustSink
  /\ array' = [array EXCEPT ![hole] = array[Child]]
  /\ hole' = Child
  /\ UNCHANGED << capacity, cur_size, timerVars, return, temp, built, now, tickVars, pc >>

DownDone ==
  /\ pc = "down" /\ ~MustSink
  /\ array' = [array EXCEPT ![hole] = temp]
  /\ pc' = return
  /\ UNCHANGED << capacity, cur_size, timerVars, loopVars, now, tickVars >>

-----------------------------------------------------------------------------
(* tick                                                                     *)

TickStart ==
  /\ pc = "idle"
  /\ tmp' = array[0] /\ cur' = now
  /\ pc' = "tick"
  /\ UNCHANGED << arrayVars, timerVars, loopVars, now >>

\* Mutant: a timer is due only after its time.
Due_Late == cur_size > 0 /\ tmp # NULL /\ expire[tmp] < cur

\* tmp is looked at only while the heap is not empty: of an empty heap, entry
\* 0 is NULL or a pointer to a deleted timer.
Due == cur_size > 0 /\ tmp # NULL /\ expire[tmp] <= cur

TickCall ==
  /\ pc = "tick" /\ Due
  /\ array[0] \in cb_func
  /\ called' = called \cup {array[0]}
  /\ pc' = "callback"
  /\ UNCHANGED << arrayVars, loopVars, expire, cb_func, life, now, tickVars >>

\* A cancelled timer is only removed.
TickSkip ==
  /\ pc = "tick" /\ Due
  /\ array[0] \notin cb_func
  /\ pc' = "pop"
  /\ UNCHANGED << arrayVars, timerVars, loopVars, now, tickVars >>

CallbackReturns ==
  /\ pc = "callback"
  /\ pc' = "pop"
  /\ UNCHANGED << arrayVars, timerVars, loopVars, now, tickVars >>

\* Line 160, once pop_timer has returned.
TickAgain ==
  /\ pc = "again"
  /\ tmp' = array[0]
  /\ pc' = "tick"
  /\ UNCHANGED << arrayVars, timerVars, loopVars, now, cur >>

TickEnd ==
  /\ pc = "tick" /\ ~Due
  /\ pc' = "idle"
  /\ UNCHANGED << arrayVars, timerVars, loopVars, now, tickVars >>

-----------------------------------------------------------------------------
HeapStep ==
  \/ Build \/ BuildDone \/ Up \/ UpDone \/ Down \/ DownDone
  \/ TickCall \/ TickSkip \/ CallbackReturns \/ TickEnd \/ TickAgain
  \/ PopTimer("pop", "again")

ProgramStep ==
  \/ \E t \in Timers : NewTimer(t) \/ AddTimer(t) \/ DelTimer(t)
  \/ TickStart \/ PopTimer("idle", "idle") \/ Clock

Next == HeapStep \/ ProgramStep

Spec == Init /\ [][Next]_vars

-----------------------------------------------------------------------------
TypeOK ==
  /\ capacity \in Nat \ {0}
  /\ cur_size \in 0..capacity
  /\ array \in [0..(capacity - 1) -> Timers \cup {NULL}]
  /\ expire \in [Timers -> Nat]
  /\ cb_func \subseteq Timers
  /\ life \in [Timers -> {"none", "made", "queued", "deleted"}]
  /\ now \in Nat /\ cur \in Nat
  /\ pc \in {"build", "idle", "up", "down", "tick", "callback", "pop", "again"}
  /\ return \in {"build", "idle", "again", "callback"}
  /\ hole \in Nat /\ built \in Nat
  /\ {temp, tmp} \subseteq Timers \cup {NULL}
  /\ called \subseteq Timers

\* What the heap holds: the timer in hand counts as being in the hole.
InMotion == pc \in {"up", "down"}
Held(k) == IF InMotion /\ k = hole THEN temp ELSE array[k]

\* No timer is lost, doubled, or used after delete, at any point of any loop:
\* the entries below cur_size are the queued timers, each once.
NothingLost ==
  /\ \A k \in Slots : Held(k) \in Queued
  /\ \A t \in Queued : \E k \in Slots : Held(k) = t
  /\ \A j, k \in Slots : Held(j) = Held(k) => j = k

\* Between the loops the array is a heap, also while a callback runs that has
\* added timers.
HeapOrder ==
  pc \notin {"up", "down", "build"} =>
    \A p, k \in Slots : IsParent(p, k) => Expiry(p) <= Expiry(k)

\* A tick that ends leaves no timer behind that was due when it started.
TickDrains ==
  [][TickEnd => \A t \in Queued : expire[t] > cur]_vars

\* The heap implements the queue of timers: the timer tick calls and the timer
\* it then removes are the same, the one that expires first, and each callback
\* runs at most once.
TQ == INSTANCE TimerQueue WITH
        queued <- Queued,
        chosen <- IF pc \in {"callback", "pop"} \/ (pc = "up" /\ return = "callback")
                  THEN tmp ELSE NULL

ImplementsTimerQueue == TQ!Spec
=============================================================================
