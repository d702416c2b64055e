---------------------------- MODULE TimeHeapProofs ----------------------------
(***************************************************************************)
(* Theorems about the time heap, for any timers, delays and capacities:    *)
(* through every iteration of every loop no timer is lost or doubled, no   *)
(* deleted timer is in use, the array is a heap between the loops, and the *)
(* heap implements the queue of timers: its root expires first, and no     *)
(* callback, whatever it adds or cancels, makes tick remove another timer  *)
(* than the one it called.                                                 *)
(***************************************************************************)
EXTENDS TimeHeap, LeastNatural, TLAPS

-----------------------------------------------------------------------------
(* The arithmetic of the heap.                                              *)

LEMMA ParentOf ==
  ASSUME NEW k \in Nat, k > 0
  PROVE  Parent(k) \in Nat /\ Parent(k) < k /\ IsParent(Parent(k), k)
  BY DEF Parent, IsParent

LEMMA ParentIsUnique ==
  ASSUME NEW k \in Nat, NEW p \in Nat, NEW q \in Nat, IsParent(p, k), IsParent(q, k)
  PROVE  p = q
  BY DEF IsParent

LEMMA ParentIsBelow ==
  ASSUME NEW k \in Nat, NEW p \in Nat, IsParent(p, k)
  PROVE  p < k
  BY DEF IsParent

-----------------------------------------------------------------------------
(* The inductive invariant.                                                 *)

\* Where a loop stands, and what is certain there about the heap's size.
Position ==
  /\ pc = "up"   => /\ hole \in Slots /\ temp \in Timers
                    /\ return \in {"idle", "callback"}
  /\ pc = "down" => /\ hole \in Slots \/ (hole = 0 /\ cur_size = 0)
                    /\ temp \in Timers /\ hole >= built
                    /\ return \in {"idle", "again", "build"}
  /\ pc = "build" => built <= cur_size
  /\ pc \in {"callback", "pop"} => cur_size > 0
  /\ ~(pc = "build" \/ (pc = "down" /\ return = "build")) => built = 0

\* With the timer in hand taken to be in the hole: the entries from built on
\* are in heap order, except where the loop under way is still comparing (a
\* hole that rises against its parent, one that sinks against its children).
PartialOrder ==
  \A p, k \in Slots :
    /\ IsParent(p, k) /\ p >= built
    /\ ~(pc = "up" /\ k = hole) /\ ~(pc = "down" /\ p = hole)
    => expire[Held(p)] <= expire[Held(k)]

\* Across the hole, its parent and its children are in order.
AcrossHole ==
  InMotion =>
    \A g, k \in Slots :
      IsParent(g, hole) /\ IsParent(hole, k) /\ g >= built
        => expire[Held(g)] <= expire[Held(k)]

HeapInv == TypeOK /\ Position /\ NothingLost /\ PartialOrder /\ AcrossHole

-----------------------------------------------------------------------------
(* Types and positions.                                                     *)

LEMMA TypeInit == Init => TypeOK /\ Position
<1> SUFFICES ASSUME Init PROVE TypeOK /\ Position
  OBVIOUS
<1> USE CapacityAssumption, TimeAssumption, NullAssumption DEF Init, InitRest
<1>1. CASE InitEmpty
  BY <1>1 DEF InitEmpty, TypeOK, Position, Slots
<1>2. CASE InitFromArray
  <2>1. built \in Nat /\ built <= cur_size
    BY <1>2 DEF InitFromArray
  <2>2. cb_func \subseteq Timers
    BY <1>2 DEF InitFromArray, Queued
  <2>3. life \in [Timers -> {"none", "made", "queued", "deleted"}]
    BY <1>2 DEF InitFromArray
  <2>4. expire \in [Timers -> Nat]
    BY <1>2 DEF InitFromArray
  <2> QED BY <1>2, <2>1, <2>2, <2>3, <2>4 DEF InitFromArray, TypeOK, Position
<1> QED BY <1>1, <1>2

LEMMA TypeNext == HeapInv /\ [Next]_vars => TypeOK' /\ Position'
<1> SUFFICES ASSUME HeapInv, [Next]_vars PROVE TypeOK' /\ Position'
  OBVIOUS
<1> USE CapacityAssumption, TimeAssumption, NullAssumption
<1>0. TypeOK /\ Position
  BY DEF HeapInv
<1>e. cur_size > 0 /\ pc \notin {"up", "down"} => array[0] \in Timers
  BY <1>0 DEF HeapInv, NothingLost, Held, InMotion, Queued, Slots, TypeOK
<1>l. cur_size > 0 /\ pc \notin {"up", "down"} => array[cur_size - 1] \in Timers
  BY <1>0 DEF HeapInv, NothingLost, Held, InMotion, Queued, Slots, TypeOK
<1> USE DEF TypeOK, Position, Slots, arrayVars, timerVars, loopVars, tickVars
<1>1. CASE Build
  <2>1. array[built - 1] \in Timers
    BY <1>1, <1>0 DEF Build, HeapInv, NothingLost, Held, InMotion, Queued
  <2> QED BY <1>1, <1>0, <2>1 DEF Build
<1>2. CASE BuildDone    BY <1>2, <1>0 DEF BuildDone
<1>3. CASE Clock        BY <1>3, <1>0 DEF Clock
<1>4. ASSUME NEW t \in Timers, NewTimer(t) PROVE TypeOK' /\ Position'
  BY <1>4, <1>0 DEF NewTimer, InProgram
<1>5. ASSUME NEW t \in Timers, AddTimer(t) PROVE TypeOK' /\ Position'
  <2>1. CASE cur_size >= capacity
    BY <1>5, <1>0, <2>1 DEF AddTimer, InProgram, Resized
  <2>2. CASE ~(cur_size >= capacity)
    BY <1>5, <1>0, <2>2 DEF AddTimer, InProgram
  <2> QED BY <2>1, <2>2
<1>6. CASE Up
  <2>1. Parent(hole) \in Nat /\ Parent(hole) < hole
    BY <1>6, <1>0, ParentOf DEF Up
  <2> QED BY <1>6, <1>0, <2>1 DEF Up
<1>7. CASE UpDone       BY <1>7, <1>0 DEF UpDone
<1>8. ASSUME NEW t \in Timers, DelTimer(t) PROVE TypeOK' /\ Position'
  BY <1>8, <1>0 DEF DelTimer, InProgram
<1>9. ASSUME NEW from \in {"idle", "pop"}, NEW to \in {"idle", "again"}, PopTimer(from, to)
      PROVE  TypeOK' /\ Position'
  BY <1>9, <1>0, <1>e, <1>l DEF PopTimer
<1>10. CASE Down
  <2>1. Child \in Slots /\ Child > hole
    BY <1>10, <1>0 DEF Down, MustSink, Child
  <2> QED BY <1>10, <1>0, <2>1 DEF Down
<1>11. CASE DownDone
  BY <1>11, <1>0 DEF DownDone
<1>12. CASE TickStart   BY <1>12, <1>0 DEF TickStart
<1>13. CASE TickCall    BY <1>13, <1>0, <1>e DEF TickCall, Due
<1>14. CASE TickSkip    BY <1>14, <1>0 DEF TickSkip, Due
<1>15. CASE CallbackReturns BY <1>15, <1>0 DEF CallbackReturns
<1>16. CASE TickAgain   BY <1>16, <1>0 DEF TickAgain
<1>17. CASE TickEnd     BY <1>17, <1>0 DEF TickEnd
<1>18. CASE UNCHANGED vars BY <1>18, <1>0 DEF vars
<1> QED
  BY <1>1, <1>2, <1>3, <1>4, <1>5, <1>6, <1>7, <1>8, <1>9, <1>10, <1>11, <1>12,
     <1>13, <1>14, <1>15, <1>16, <1>17, <1>18
  DEF Next, HeapStep, ProgramStep

-----------------------------------------------------------------------------
(* No timer is lost.                                                        *)

LEMMA NothingLostInit == Init => NothingLost
<1> SUFFICES ASSUME Init PROVE NothingLost
  OBVIOUS
<1>1. CASE InitEmpty
  BY <1>1 DEF InitEmpty, NothingLost, Slots, Queued
<1>2. CASE InitFromArray
  BY <1>2, NullAssumption DEF InitFromArray, NothingLost, Slots, Queued, Held, InMotion
<1> QED BY <1>1, <1>2 DEF Init

\* A step that moves no timer.
LEMMA NothingMoved ==
  ASSUME NothingLost, Slots' = Slots, Queued' = Queued,
         \A k \in Slots : Held(k)' = Held(k)
  PROVE  NothingLost'
  BY DEF NothingLost

LEMMA NothingLostNext == HeapInv /\ [Next]_vars => NothingLost'
<1> SUFFICES ASSUME HeapInv, [Next]_vars PROVE NothingLost'
  OBVIOUS
<1>0. TypeOK /\ Position /\ NothingLost
  BY DEF HeapInv
<1> USE DEF arrayVars, timerVars, loopVars, tickVars
<1>1. CASE Build
  <2>1. \A k \in Slots : Held(k)' = Held(k)
    BY <1>1, <1>0 DEF Build, Held, InMotion
  <2> QED BY <1>0, <1>1, <2>1, NothingMoved DEF Build, Slots, Queued
<1>2. CASE \/ BuildDone \/ Clock \/ TickStart \/ TickCall \/ TickSkip
           \/ CallbackReturns \/ TickAgain \/ TickEnd \/ UNCHANGED vars
  <2>1. Slots' = Slots /\ Queued' = Queued
    BY <1>2 DEF BuildDone, Clock, TickStart, TickCall, TickSkip, CallbackReturns,
       TickAgain, TickEnd, vars, Slots, Queued
  <2>2. array' = array /\ hole' = hole /\ temp' = temp /\ InMotion' = InMotion
    BY <1>2 DEF BuildDone, Clock, TickStart, TickCall, TickSkip, CallbackReturns,
       TickAgain, TickEnd, vars, InMotion
  <2> QED BY <1>0, <2>1, <2>2, NothingMoved DEF Held
<1>3. ASSUME NEW t \in Timers, NewTimer(t) \/ DelTimer(t) PROVE NothingLost'
  <2>1. Queued' = Queued
    BY <1>3, <1>0 DEF NewTimer, DelTimer, Queued, TypeOK
  <2>2. Slots' = Slots /\ \A k \in Slots : Held(k)' = Held(k)
    BY <1>3 DEF NewTimer, DelTimer, Slots, Held, InMotion
  <2> QED BY <1>0, <2>1, <2>2, NothingMoved
<1>4. ASSUME NEW t \in Timers, AddTimer(t) PROVE NothingLost'
  <2>1. Queued' = Queued \cup {t} /\ t \notin Queued
    BY <1>4, <1>0 DEF AddTimer, Queued, TypeOK
  <2>n. cur_size \in Nat
    BY <1>0 DEF TypeOK
  <2>0. PICK n \in Nat : n = cur_size
    BY <2>n, Zenon
  <2>2. Slots' = Slots \cup {n} /\ n \notin Slots
    BY <2>0, <1>4, <1>0 DEF AddTimer, Slots, TypeOK
  <2>3. \A k \in Slots : Held(k)' = Held(k)
    <3>1. \A k \in Slots : array'[k] = array[k]
      BY <1>4, <1>0 DEF AddTimer, Resized, Slots, TypeOK
    <3> QED BY <2>0, <3>1, <2>2, <1>4 DEF AddTimer, InProgram, Held, InMotion
  <2>4. Held(n)' = t
    BY <2>0, <1>4 DEF AddTimer, Held, InMotion
  <2>5. \A k \in Slots' : Held(k)' \in Queued'
    BY <1>0, <2>1, <2>2, <2>3, <2>4 DEF NothingLost
  <2>6. \A u \in Queued' : \E k \in Slots' : Held(k)' = u
    BY <1>0, <2>1, <2>2, <2>3, <2>4 DEF NothingLost
  <2>7. \A j, k \in Slots' : Held(j)' = Held(k)' => j = k
    BY <1>0, <2>1, <2>2, <2>3, <2>4 DEF NothingLost
  <2> QED BY <2>5, <2>6, <2>7 DEF NothingLost
<1>5. CASE Up
  \* The parent and the timer in hand change places.
  <2>1. /\ Parent(hole) \in Slots /\ hole \in Slots /\ Parent(hole) # hole
    BY <1>5, <1>0, ParentOf DEF Up, Position, Slots, TypeOK
  <2>2. /\ Slots' = Slots /\ Queued' = Queued
    BY <1>5 DEF Up, Slots, Queued
  <2>3. \A k \in Slots : Held(k)' = IF k = Parent(hole) THEN Held(hole)
                                    ELSE IF k = hole THEN Held(Parent(hole))
                                    ELSE Held(k)
    BY <1>5, <1>0, <2>1 DEF Up, Held, InMotion, TypeOK, Slots
  <2> QED BY <1>0, <2>1, <2>2, <2>3 DEF NothingLost
<1>6. CASE Down
  \* The child and the timer in hand change places.
  <2>1. Child \in Slots /\ hole \in Slots /\ Child # hole
    BY <1>6, <1>0 DEF Down, MustSink, Child, Position, Slots, TypeOK
  <2>2. /\ Slots' = Slots /\ Queued' = Queued
    BY <1>6 DEF Down, Slots, Queued
  <2>3. \A k \in Slots : Held(k)' = IF k = Child THEN Held(hole)
                                    ELSE IF k = hole THEN Held(Child)
                                    ELSE Held(k)
    BY <1>6, <1>0, <2>1 DEF Down, Held, InMotion, TypeOK, Slots
  <2> QED BY <1>0, <2>1, <2>2, <2>3 DEF NothingLost
<1>7. CASE UpDone \/ DownDone
  <2>1. \A k \in Slots : Held(k)' = Held(k)
    <3>1. return \notin {"up", "down"}
      BY <1>7, <1>0 DEF UpDone, DownDone, Position
    <3> QED BY <1>7, <1>0, <3>1 DEF UpDone, DownDone, Held, InMotion, TypeOK, Slots, Position
  <2> QED BY <1>0, <1>7, <2>1, NothingMoved DEF UpDone, DownDone, Slots, Queued
<1>8. ASSUME NEW from \in {"idle", "pop"}, NEW to \in {"idle", "again"}, PopTimer(from, to)
      PROVE  NothingLost'
  <2> DEFINE last == cur_size - 1
  <2>1. /\ cur_size \in Nat /\ last \in Slots /\ 0 \in Slots
        /\ Slots' = Slots \ {last} /\ cur_size' = last
    BY <1>8, <1>0 DEF PopTimer, Slots, TypeOK
  <2>2. \A k \in Slots : Held(k) = array[k]
    BY <1>8 DEF PopTimer, Held, InMotion
  <2>3. Queued' = Queued \ {array[0]}
    BY <1>8, <1>0, <2>1, <2>2 DEF PopTimer, Queued, TypeOK, NothingLost
  <2>4. \A k \in Slots' : Held(k)' = IF k = 0 THEN array[last] ELSE array[k]
    BY <1>8, <1>0, <2>1 DEF PopTimer, Held, InMotion, TypeOK, Slots
  <2>5. last = 0 => Slots' = {}
    BY <2>1, <1>0 DEF Slots, TypeOK
  <2>6. \A k \in Slots' : Held(k)' \in Queued'
    BY <1>0, <2>1, <2>2, <2>3, <2>4, <2>5 DEF NothingLost
  <2>7. \A u \in Queued' : \E k \in Slots' : Held(k)' = u
    <3> SUFFICES ASSUME NEW u \in Queued' PROVE \E k \in Slots' : Held(k)' = u
      OBVIOUS
    <3>1. PICK k \in Slots : array[k] = u
      BY <1>0, <2>2, <2>3 DEF NothingLost
    <3>2. k # 0
      BY <3>1, <2>3
    <3>3. CASE k = last
      BY <3>1, <3>2, <3>3, <2>1, <2>4, <2>5
    <3>4. CASE k # last
      BY <3>1, <3>2, <3>4, <2>1, <2>4
    <3> QED BY <3>3, <3>4
  <2>8. \A j, k \in Slots' : Held(j)' = Held(k)' => j = k
    BY <1>0, <2>1, <2>2, <2>4 DEF NothingLost
  <2> QED BY <2>6, <2>7, <2>8 DEF NothingLost
<1> QED
  BY <1>1, <1>2, <1>3, <1>4, <1>5, <1>6, <1>7, <1>8 DEF Next, HeapStep, ProgramStep

-----------------------------------------------------------------------------
(* The heap order, through the loops.                                       *)

LEMMA OrderInit == Init => PartialOrder /\ AcrossHole
<1> SUFFICES ASSUME Init PROVE PartialOrder /\ AcrossHole
  OBVIOUS
<1>1. CASE InitEmpty
  BY <1>1 DEF InitEmpty, PartialOrder, AcrossHole, Slots, InMotion
<1>2. CASE InitFromArray
  \* No entry from built on has a child.
  <2>1. capacity \in Nat /\ cur_size \in Nat /\ built = (cur_size - 1) \div 2 + 1
    BY <1>2, CapacityAssumption DEF InitFromArray
  <2>2. \A p, k \in Slots : IsParent(p, k) => ~(p >= built)
    BY <2>1 DEF Slots, IsParent
  <2> QED BY <1>2, <2>2 DEF InitFromArray, PartialOrder, AcrossHole, InMotion
<1> QED BY <1>1, <1>2 DEF Init

LEMMA OrderNext == HeapInv /\ [Next]_vars => PartialOrder' /\ AcrossHole'
<1> SUFFICES ASSUME HeapInv, [Next]_vars PROVE PartialOrder' /\ AcrossHole'
  OBVIOUS
<1>0. TypeOK /\ Position /\ NothingLost /\ PartialOrder /\ AcrossHole
  BY DEF HeapInv
<1>t. /\ cur_size \in Nat /\ hole \in Nat /\ built \in Nat /\ Slots \subseteq Nat
      /\ expire \in [Timers -> Nat]
      /\ \A k \in Slots : Held(k) \in Timers /\ expire[Held(k)] \in Nat
  BY <1>0 DEF TypeOK, Slots, NothingLost, Queued
<1> USE DEF arrayVars, timerVars, loopVars, tickVars
<1>1. CASE Build
  <2>1. hole' = built - 1 /\ built' = built - 1 /\ Slots' = Slots
        /\ \A k \in Slots : Held(k)' = Held(k)
    BY <1>1, <1>0 DEF Build, Held, InMotion, Slots
  <2>2. PartialOrder'
    BY <1>1, <1>0, <1>t, <2>1 DEF Build, PartialOrder
  <2>3. AcrossHole'
    BY <1>1, <1>t, <2>1, ParentIsBelow DEF Build, AcrossHole
  <2> QED BY <2>2, <2>3
<1>2. CASE \/ BuildDone \/ Clock \/ TickStart \/ TickCall \/ TickSkip
           \/ CallbackReturns \/ TickAgain \/ TickEnd \/ UNCHANGED vars
  <2>1. Slots' = Slots /\ expire' = expire /\ built' = built
    BY <1>2 DEF BuildDone, Clock, TickStart, TickCall, TickSkip, CallbackReturns,
       TickAgain, TickEnd, vars, Slots
  <2>2. /\ array' = array /\ hole' = hole /\ temp' = temp /\ InMotion' = InMotion
        /\ (pc' = "up") = (pc = "up") /\ (pc' = "down") = (pc = "down")
    BY <1>2 DEF BuildDone, Clock, TickStart, TickCall, TickSkip, CallbackReturns,
       TickAgain, TickEnd, vars, InMotion
  <2> QED BY <1>0, <2>1, <2>2 DEF PartialOrder, AcrossHole, Held
<1>3. ASSUME NEW t \in Timers, NewTimer(t) \/ DelTimer(t)
      PROVE  PartialOrder' /\ AcrossHole'
  <2>1. \A k \in Slots : expire'[Held(k)] = expire[Held(k)]
    BY <1>3, <1>0, <1>t DEF NewTimer, DelTimer, NothingLost, Queued
  <2>2. /\ Slots' = Slots /\ built' = built /\ pc' = pc /\ pc \notin {"up", "down"}
        /\ \A k \in Slots : Held(k)' = Held(k)
    BY <1>3 DEF NewTimer, DelTimer, Slots, Held, InMotion, InProgram
  <2> QED BY <1>0, <2>1, <2>2 DEF PartialOrder, AcrossHole, InMotion
<1>4. ASSUME NEW t \in Timers, AddTimer(t) PROVE PartialOrder' /\ AcrossHole'
  \* The new slot is the hole: it has no child, and its parent is yet to be
  \* compared.
  <2>n. cur_size \in Nat
    BY <1>t
  <2>0. PICK n \in Nat : n = cur_size
    BY <2>n, Zenon
  <2>1. /\ Slots' = Slots \cup {n} /\ hole' = n /\ pc' = "up"
        /\ built' = built /\ built = 0 /\ expire' = expire
        /\ pc \notin {"up", "down"}
    BY <2>0, <1>4, <1>0 DEF AddTimer, InProgram, Slots, TypeOK, Position
  <2>2. \A k \in Slots : Held(k)' = Held(k) /\ k < n
    <3>1. \A k \in Slots : array'[k] = array[k] /\ k < n
      BY <2>0, <1>4, <1>0 DEF AddTimer, Resized, Slots, TypeOK
    <3> QED BY <3>1, <2>1 DEF Held, InMotion
  <2>3. \A k \in Slots' : k \in Nat /\ ~IsParent(n, k)
    BY <2>1, <2>2, <1>t, ParentIsBelow
  <2>4. PartialOrder'
    BY <1>0, <2>1, <2>2, <2>3 DEF PartialOrder
  <2>5. AcrossHole'
    BY <2>1, <2>3 DEF AcrossHole
  <2> QED BY <2>4, <2>5
<1>5. CASE UpDone
  <2>1. /\ pc = "up" /\ hole \in Slots /\ built = 0 /\ built' = built
        /\ pc' \notin {"up", "down"} /\ Slots' = Slots /\ expire' = expire
    BY <1>5, <1>0 DEF UpDone, Position, Slots
  <2>2. \A k \in Slots : Held(k)' = Held(k)
    BY <1>5, <1>0, <2>1 DEF UpDone, Held, InMotion, TypeOK, Slots
  <2>3. \A p \in Slots : IsParent(p, hole) => expire[Held(p)] <= expire[Held(hole)]
    <3> SUFFICES ASSUME NEW p \in Slots, IsParent(p, hole)
                 PROVE  expire[Held(p)] <= expire[Held(hole)]
      OBVIOUS
    <3>1. hole > 0 /\ p < hole /\ p = Parent(hole)
      BY <1>t, ParentIsBelow, ParentOf, ParentIsUnique
    <3>2. Held(p) = array[p] /\ Held(hole) = temp
      BY <3>1, <2>1, <1>t DEF Held, InMotion
    <3> QED BY <1>5, <3>1, <3>2 DEF UpDone, Expiry
  <2>4. PartialOrder'
    BY <1>0, <2>1, <2>2, <2>3 DEF PartialOrder
  <2> QED BY <2>1, <2>4 DEF AcrossHole, InMotion
<1>6. CASE DownDone
  <2>1. /\ pc = "down" /\ built' = built /\ expire' = expire
        /\ pc' \notin {"up", "down"} /\ Slots' = Slots
        /\ hole \in Slots \/ Slots = {}
    BY <1>6, <1>0 DEF DownDone, Position, Slots, TypeOK
  <2>2. \A k \in Slots : Held(k)' = Held(k)
    BY <1>6, <1>0, <2>1 DEF DownDone, Held, InMotion, TypeOK, Slots
  <2>3. \A k \in Slots : IsParent(hole, k) => expire[temp] <= expire[Held(k)]
    <3> SUFFICES ASSUME NEW k \in Slots, IsParent(hole, k)
                 PROVE  expire[temp] <= expire[Held(k)]
      OBVIOUS
    <3>1. k > hole /\ Held(k) = array[k] /\ temp \in Timers
      BY <2>1, <1>0, <1>t, ParentIsBelow DEF Held, InMotion, Position
    <3>2. Child \in Slots /\ Child > hole /\ Expiry(Child) <= Expiry(k)
      <4>1. \A j \in Slots : j > hole => Expiry(j) \in Nat
        BY <2>1, <1>t DEF Held, InMotion, Expiry
      <4> QED BY <1>t, <4>1, <3>1 DEF Child, IsParent, Slots
    <3>3. expire[temp] <= Expiry(Child)
      <4>1. ~(Expiry(Child) < expire[temp])
        BY <1>6, <1>t, <3>1 DEF DownDone, MustSink, IsParent, Slots
      <4>2. Expiry(Child) \in Nat /\ expire[temp] \in Nat
        BY <3>1, <3>2, <2>1, <1>t DEF Held, InMotion, Expiry
      <4> QED BY <4>1, <4>2
    <3>4. Expiry(k) \in Nat /\ Expiry(Child) \in Nat /\ expire[temp] \in Nat
      BY <3>1, <3>2, <2>1, <1>t DEF Held, InMotion, Expiry
    <3> QED BY <3>1, <3>2, <3>3, <3>4 DEF Expiry
  <2>4. hole \in Slots => Held(hole) = temp
    BY <2>1 DEF Held, InMotion
  <2>5. PartialOrder'
    BY <1>0, <2>1, <2>2, <2>3, <2>4 DEF PartialOrder
  <2> QED BY <2>1, <2>5 DEF AcrossHole, InMotion
<1>7. CASE Up
  <2>n. hole \in Nat /\ hole > 0 /\ Parent(hole) \in Nat
    BY <1>7, <1>t, ParentOf DEF Up
  <2>0. PICK h \in Nat, q \in Nat : h = hole /\ q = Parent(hole)
    BY <2>n, Zenon
  <2>1. /\ h \in Slots /\ q \in Slots /\ q < h /\ IsParent(q, h)
        /\ temp \in Timers /\ built = 0
    BY <2>0, <2>n, <1>7, <1>0, <1>t, ParentOf DEF Up, Position, Slots
  <2>2. /\ pc = "up" /\ pc' = "up" /\ hole' = q /\ built' = 0
        /\ Slots' = Slots /\ expire' = expire
    BY <2>0, <2>1, <1>7 DEF Up, Slots
  <2>3. \A k \in Slots : Held(k)' = IF k = q THEN temp
                                    ELSE IF k = h THEN Held(q) ELSE Held(k)
    BY <2>0, <2>1, <2>2, <1>7, <1>0 DEF Up, Held, InMotion, TypeOK, Slots
  <2>4. expire[temp] < expire[Held(q)]
    BY <2>0, <2>1, <2>2, <1>7 DEF Up, Held, InMotion, Expiry
  <2>5. \A p, k \in Slots : IsParent(p, k) /\ k # h => expire[Held(p)] <= expire[Held(k)]
    BY <1>0, <2>0, <2>1, <2>2, <1>t DEF PartialOrder
  <2>6. \A k \in Slots : IsParent(h, k) => expire[Held(q)] <= expire[Held(k)]
    BY <1>0, <2>0, <2>1, <2>2, <1>t DEF AcrossHole, InMotion
  <2>7. \A p \in Slots : IsParent(p, h) => p = q
    BY <2>1, <1>t, ParentIsUnique
  <2>8. \A p, k \in Slots : IsParent(p, k) => p \in Nat /\ k \in Nat /\ p < k
    BY <1>t, ParentIsBelow
  <2>9. temp \in Timers /\ expire[temp] \in Nat
    BY <2>1, <1>t
  <2>10. \A p, k \in Slots : IsParent(p, k) /\ k # q => expire[Held(p)'] <= expire[Held(k)']
    <3> SUFFICES ASSUME NEW p \in Slots, NEW k \in Slots, IsParent(p, k), k # q
                 PROVE  expire[Held(p)'] <= expire[Held(k)']
      OBVIOUS
    <3>1. CASE k = h
      BY <3>1, <2>1, <2>3, <2>4, <2>7, <2>9, <1>t
    <3>2. CASE k # h /\ p = q
      BY <3>2, <2>1, <2>3, <2>4, <2>5, <2>9, <1>t
    <3>3. CASE k # h /\ p = h
      BY <3>3, <2>1, <2>3, <2>6, <2>8, <2>9, <1>t
    <3>4. CASE k # h /\ p # h /\ p # q
      BY <3>4, <2>3, <2>5
    <3> QED BY <3>1, <3>2, <3>3, <3>4
  <2>11. PartialOrder'
    BY <2>2, <2>10 DEF PartialOrder
  <2>12. \A g, k \in Slots : IsParent(g, q) /\ IsParent(q, k)
                              => expire[Held(g)'] <= expire[Held(k)']
    <3> SUFFICES ASSUME NEW g \in Slots, NEW k \in Slots, IsParent(g, q), IsParent(q, k)
                 PROVE  expire[Held(g)'] <= expire[Held(k)']
      OBVIOUS
    <3>1. g < q /\ q < k /\ g # h
      BY <2>1, <2>8
    <3>2. expire[Held(g)] <= expire[Held(q)]
      BY <2>1, <2>5
    <3>3. k # h => expire[Held(q)] <= expire[Held(k)]
      BY <2>1, <2>5
    <3>4. CASE k = h
      BY <3>1, <3>2, <3>4, <2>1, <2>3
    <3>5. CASE k # h
      BY <3>1, <3>2, <3>3, <3>5, <2>1, <2>3, <2>8, <1>t
    <3> QED BY <3>4, <3>5
  <2>13. AcrossHole'
    BY <2>2, <2>12 DEF AcrossHole
  <2> QED BY <2>11, <2>13
<1>8. CASE Down
  <2>n. hole \in Nat /\ Child \in Nat
    BY <1>8, <1>t DEF Down, MustSink, Child
  <2>0. PICK h \in Nat, c \in Nat : h = hole /\ c = Child
    BY <2>n, Zenon
  <2>1. /\ h \in Slots /\ c \in Slots /\ h < c /\ IsParent(h, c)
        /\ temp \in Timers /\ built <= h
    BY <2>0, <2>n, <1>8, <1>0, <1>t DEF Down, MustSink, Child, IsParent, Position, Slots
  <2>2. /\ pc = "down" /\ pc' = "down" /\ hole' = c /\ built' = built
        /\ Slots' = Slots /\ expire' = expire
    BY <2>0, <2>1, <1>8 DEF Down, Slots
  <2>3. \A k \in Slots : Held(k)' = IF k = c THEN temp
                                    ELSE IF k = h THEN Held(c) ELSE Held(k)
    BY <2>0, <2>1, <2>2, <1>8, <1>0 DEF Down, Held, InMotion, TypeOK, Slots
  <2>4. expire[Held(c)] < expire[temp]
    BY <2>0, <2>1, <2>2, <1>8 DEF Down, MustSink, Held, InMotion, Expiry
  <2>5. \A p, k \in Slots : IsParent(p, k) /\ p >= built /\ p # h
                             => expire[Held(p)] <= expire[Held(k)]
    BY <1>0, <2>0, <2>1, <2>2, <1>t DEF PartialOrder
  <2>6. \A g, k \in Slots : IsParent(g, h) /\ IsParent(h, k) /\ g >= built
                             => expire[Held(g)] <= expire[Held(k)]
    BY <1>0, <2>0, <2>1, <2>2, <1>t DEF AcrossHole, InMotion
  <2>7. \A k \in Slots : IsParent(h, k) => expire[Held(c)] <= expire[Held(k)]
    <3> SUFFICES ASSUME NEW k \in Slots, IsParent(h, k)
                 PROVE  expire[Held(c)] <= expire[Held(k)]
      OBVIOUS
    <3>1. \A j \in Slots : j > h => Expiry(j) = expire[Held(j)] /\ Expiry(j) \in Nat
      BY <2>0, <2>2, <1>t DEF Held, InMotion, Expiry
    <3>2. Expiry(c) <= Expiry(k)
      BY <2>0, <2>1, <3>1, <1>t DEF Child, IsParent, Slots
    <3>3. k > h
      BY <1>t, ParentIsBelow
    <3> QED BY <3>1, <3>2, <3>3, <2>1
  <2>8. \A p, k \in Slots : IsParent(p, k) => p \in Nat /\ k \in Nat /\ p < k
    BY <1>t, ParentIsBelow
  <2>9. temp \in Timers /\ expire[temp] \in Nat
    BY <2>1, <1>t
  <2>u. \A p \in Slots : IsParent(p, c) => p = h
    BY <2>1, <1>t, ParentIsUnique
  <2>10. \A p, k \in Slots : IsParent(p, k) /\ p >= built /\ p # c
                              => expire[Held(p)'] <= expire[Held(k)']
    <3> SUFFICES ASSUME NEW p \in Slots, NEW k \in Slots, IsParent(p, k), p >= built, p # c
                 PROVE  expire[Held(p)'] <= expire[Held(k)']
      OBVIOUS
    <3>1. CASE k = c
      BY <3>1, <2>1, <2>3, <2>4, <2>u, <2>9, <1>t
    <3>2. CASE k = h
      BY <3>2, <2>1, <2>3, <2>6, <2>8, <1>t
    <3>3. CASE k # c /\ k # h /\ p = h
      BY <3>3, <2>1, <2>3, <2>7
    <3>4. CASE k # c /\ k # h /\ p # h
      BY <3>4, <2>3, <2>5
    <3> QED BY <3>1, <3>2, <3>3, <3>4
  <2>11. PartialOrder'
    BY <2>2, <2>10 DEF PartialOrder
  <2>12. \A g, k \in Slots : IsParent(g, c) /\ IsParent(c, k) /\ g >= built
                              => expire[Held(g)'] <= expire[Held(k)']
    <3> SUFFICES ASSUME NEW g \in Slots, NEW k \in Slots, IsParent(g, c), IsParent(c, k)
                 PROVE  expire[Held(g)'] <= expire[Held(k)']
      OBVIOUS
    <3>1. g = h /\ c < k /\ h < c /\ c >= built /\ c # h
      BY <2>1, <2>8, <2>u, <1>t
    <3>2. expire[Held(c)] <= expire[Held(k)]
      BY <3>1, <2>1, <2>5
    <3> QED BY <3>1, <3>2, <2>1, <2>3, <2>8
  <2>13. AcrossHole'
    BY <2>2, <2>12 DEF AcrossHole
  <2> QED BY <2>11, <2>13
<1>9. ASSUME NEW from \in {"idle", "pop"}, NEW to \in {"idle", "again"}, PopTimer(from, to)
      PROVE  PartialOrder' /\ AcrossHole'
  <2>1. /\ pc \notin {"up", "down"} /\ pc' = "down" /\ hole' = 0 /\ built' = built
        /\ expire' = expire /\ Slots' \subseteq Slots
    BY <1>9, <1>t DEF PopTimer, Slots
  <2>2. \A k \in Slots' : k # 0 => Held(k)' = Held(k)
    BY <1>9, <1>0, <2>1 DEF PopTimer, Held, InMotion, TypeOK, Slots
  <2>3. \A p, k \in Slots : IsParent(p, k) => k # 0
    BY <1>t DEF IsParent
  <2>4. PartialOrder'
    BY <1>0, <2>1, <2>2, <2>3 DEF PartialOrder
  <2>5. AcrossHole'
    BY <2>1, <1>t DEF AcrossHole, IsParent
  <2> QED BY <2>4, <2>5
<1> QED
  BY <1>1, <1>2, <1>3, <1>4, <1>5, <1>6, <1>7, <1>8, <1>9 DEF Next, HeapStep, ProgramStep

-----------------------------------------------------------------------------
(* The theorems.                                                            *)

THEOREM HeapInvariant == Spec => []HeapInv
<1>1. Init => HeapInv
  BY TypeInit, NothingLostInit, OrderInit DEF HeapInv
<1>2. HeapInv /\ [Next]_vars => HeapInv'
  BY TypeNext, NothingLostNext, OrderNext DEF HeapInv
<1> QED BY <1>1, <1>2, PTL DEF Spec

\* Every variable keeps its type; every index is within the array.
THEOREM HeapTypeCorrect == Spec => []TypeOK
<1>1. HeapInv => TypeOK
  BY DEF HeapInv
<1> QED BY <1>1, HeapInvariant, PTL

\* The entries of the heap are the queued timers, each once, and none of them
\* has been deleted.
THEOREM NoTimerIsLost == Spec => []NothingLost
<1>1. HeapInv => NothingLost
  BY DEF HeapInv
<1> QED BY <1>1, HeapInvariant, PTL

\* Between the loops no timer expires before its parent.
LEMMA OrderedBetweenLoops == HeapInv => HeapOrder
<1> SUFFICES ASSUME HeapInv, pc \notin {"up", "down", "build"},
                    NEW p \in Slots, NEW k \in Slots, IsParent(p, k)
             PROVE  Expiry(p) <= Expiry(k)
  BY DEF HeapOrder
<1>1. built = 0 /\ p >= 0
  BY DEF HeapInv, Position, TypeOK, Slots
<1>2. Held(p) = array[p] /\ Held(k) = array[k]
  BY DEF Held, InMotion
<1> QED BY <1>1, <1>2 DEF HeapInv, PartialOrder, Expiry

\* Between the loops no timer expires before its parent.
THEOREM ArrayIsHeap == Spec => []HeapOrder
<1> QED BY OrderedBetweenLoops, HeapInvariant, PTL

-----------------------------------------------------------------------------
(* The root of a heap expires first.                                        *)

LEMMA RootIsFirst ==
  ASSUME HeapInv, pc \notin {"up", "down", "build"}, cur_size > 0
  PROVE  TQ!First(array[0])
<1>0. /\ cur_size \in Nat /\ expire \in [Timers -> Nat] /\ Queued \subseteq Timers
      /\ \A k \in Slots : array[k] \in Queued
      /\ \A t \in Queued : \E k \in Slots : array[k] = t
  BY DEF HeapInv, TypeOK, NothingLost, Held, InMotion, Queued
<1>1. HeapOrder
  BY OrderedBetweenLoops
<1> DEFINE Early == {k \in Slots : Expiry(k) < Expiry(0)}
<1>2. Early = {}
  <2> SUFFICES ASSUME Early # {} PROVE FALSE
    OBVIOUS
  <2>1. Early \subseteq Nat
    BY <1>0 DEF Slots
  <2>2. PICK k \in Early : \A j \in Early : k <= j
    BY <2>1, LeastExists
  <2>3. k \in Nat /\ k \in Slots /\ k > 0 /\ Expiry(k) < Expiry(0)
    BY <1>0, <2>1, <2>2 DEF Slots, Expiry
  <2>4. Parent(k) \in Nat /\ Parent(k) < k /\ IsParent(Parent(k), k)
    BY <2>3, ParentOf
  <2>5. Parent(k) \in Slots
    BY <1>0, <2>3, <2>4 DEF Slots
  <2>6. Expiry(Parent(k)) <= Expiry(k)
    BY <1>1, <2>3, <2>4, <2>5 DEF HeapOrder
  <2>7. Parent(k) \notin Early
    BY <2>2, <2>3, <2>4
  <2>8. Expiry(Parent(k)) \in Nat /\ Expiry(k) \in Nat /\ Expiry(0) \in Nat
    BY <1>0, <2>3, <2>5 DEF Expiry, Slots
  <2> QED BY <2>3, <2>5, <2>6, <2>7, <2>8
<1>3. \A t \in Queued : expire[array[0]] <= expire[t]
  <2> TAKE t \in Queued
  <2>1. PICK k \in Slots : array[k] = t
    BY <1>0
  <2>2. 0 \in Slots /\ ~(Expiry(k) < Expiry(0))
    BY <1>0, <1>2 DEF Slots
  <2> QED BY <1>0, <2>1, <2>2 DEF Expiry
<1>4. array[0] \in Queued
  BY <1>0 DEF Slots
<1> QED BY <1>3, <1>4 DEF TQ!First

-----------------------------------------------------------------------------
(* What tick is dealing with.                                               *)

\* From the call of a callback to the removal of its timer, a timer that the
\* callback adds included.
Choosing == pc \in {"callback", "pop"} \/ (pc = "up" /\ return = "callback")

TickInv ==
  /\ pc = "tick" /\ cur_size > 0 => tmp = array[0]
  /\ Choosing => cur_size > 0 /\ tmp = Held(0) /\ tmp \in Queued /\ expire[tmp] <= cur
  /\ pc = "up" /\ return = "callback" => hole # 0 /\ expire[temp] >= cur
  /\ \A t \in called : life[t] = "deleted" \/ (Choosing /\ t = tmp)

LEMMA TickInvInit == Init => TickInv
  BY DEF Init, InitRest, InitEmpty, InitFromArray, TickInv, Choosing

LEMMA TickInvNext == HeapInv /\ HeapInv' /\ TickInv /\ [Next]_vars => TickInv'
<1> SUFFICES ASSUME HeapInv, HeapInv', TickInv, [Next]_vars PROVE TickInv'
  OBVIOUS
<1>0. TypeOK /\ Position /\ NothingLost /\ Queued \subseteq Timers
  BY DEF HeapInv, Queued
<1>e. cur_size > 0 /\ pc \notin {"up", "down"} => array[0] \in Queued
  BY <1>0 DEF NothingLost, Held, InMotion, Slots, TypeOK
<1> USE DEF arrayVars, timerVars, loopVars, tickVars
<1>1. CASE Build \/ BuildDone
  BY <1>1 DEF Build, BuildDone, TickInv, Choosing
<1>2. CASE Clock
  BY <1>2 DEF Clock, TickInv, Choosing, Held, InMotion, Queued
<1>3. ASSUME NEW t \in Timers, NewTimer(t) PROVE TickInv'
  <2>1. \A s \in Timers : s # t => expire'[s] = expire[s] /\ life'[s] = life[s]
    BY <1>0, <1>3 DEF NewTimer, TypeOK
  <2>2. Queued' = Queued /\ t \notin Queued
    BY <1>0, <1>3 DEF NewTimer, Queued, TypeOK
  <2>3. t \notin called
    BY <1>3, <2>2 DEF NewTimer, TickInv
  <2>4. \A s \in called : life'[s] = life[s]
    BY <1>0, <2>1, <2>3 DEF TypeOK
  <2> QED BY <1>0, <1>3, <2>1, <2>2, <2>4 DEF NewTimer, InProgram, TickInv, Choosing, Held, InMotion
<1>4. ASSUME NEW t \in Timers, AddTimer(t) PROVE TickInv'
  <2>1. \A s \in Timers : s # t => life'[s] = life[s]
    BY <1>0, <1>4 DEF AddTimer, TypeOK
  <2>2. Queued \subseteq Queued' /\ t \notin Queued
    BY <1>0, <1>4, <2>1 DEF AddTimer, Queued
  <2>3. t \notin called
    BY <1>4, <2>2 DEF AddTimer, TickInv
  <2>4. \A s \in called : life'[s] = life[s]
    BY <1>0, <2>1, <2>3 DEF TypeOK
  <2>5. Choosing' <=> Choosing
    BY <1>4 DEF AddTimer, InProgram, Choosing
  <2>6. pc = "callback" => cur_size > 0 /\ cur_size \in Nat /\ array'[0] = array[0]
    BY <1>0, <1>4 DEF AddTimer, Resized, Slots, TypeOK, Position
  <2>7. Choosing => /\ hole' # 0 /\ expire'[temp'] >= cur' /\ Held(0)' = Held(0)
                    /\ cur_size' > 0 /\ tmp' = tmp /\ expire' = expire /\ cur' = cur
    BY <1>4, <2>6 DEF AddTimer, InProgram, CallbackAddsLater, Choosing, Held, InMotion
  <2> QED BY <1>4, <2>2, <2>4, <2>5, <2>7 DEF AddTimer, InProgram, TickInv, Choosing
<1>5. ASSUME NEW t \in Timers, DelTimer(t) PROVE TickInv'
  BY <1>5 DEF DelTimer, TickInv, Choosing, Held, InMotion, Queued
<1>6. CASE Up
  <2>1. Parent(hole) \in Nat /\ hole \in Nat /\ hole # 0
    BY <1>0, <1>6, ParentOf DEF Up, TypeOK
  <2>2. Choosing => hole' # 0
    <3> SUFFICES ASSUME Choosing, Parent(hole) = 0 PROVE FALSE
      BY <1>6 DEF Up
    <3>1. Held(0) = array[0] /\ return = "callback"
      BY <1>6, <2>1 DEF Up, Held, Choosing
    <3>2. expire[array[0]] <= cur /\ cur <= expire[temp] /\ array[0] \in Queued
      BY <1>6, <3>1 DEF Up, TickInv
    <3>3. expire[array[0]] > expire[temp]
      BY <1>6 DEF Up, Expiry
    <3>4. expire[array[0]] \in Nat /\ expire[temp] \in Nat /\ cur \in Nat
      BY <1>0, <1>6, <3>2 DEF Up, Position, TypeOK
    <3> QED BY <3>2, <3>3, <3>4
  <2>3. Choosing => Held(0)' = Held(0)
    BY <1>0, <1>6, <2>1, <2>2 DEF Up, Held, InMotion, TypeOK
  <2> QED BY <1>6, <2>2, <2>3 DEF Up, TickInv, Choosing, Queued
<1>7. CASE UpDone
  <2>1. return = "callback" => Held(0)' = Held(0)
    BY <1>0, <1>7 DEF UpDone, TickInv, Choosing, Held, InMotion, TypeOK
  <2>2. Choosing' <=> Choosing
    BY <1>0, <1>7 DEF UpDone, Choosing, Position
  <2> QED BY <1>0, <1>7, <2>1, <2>2 DEF UpDone, TickInv, Choosing, Queued, Position
<1>8. CASE Down
  BY <1>8 DEF Down, TickInv, Choosing, Queued
<1>9. CASE DownDone
  BY <1>0, <1>9 DEF DownDone, TickInv, Choosing, Queued, Position
<1>10. ASSUME NEW from \in {"idle", "pop"}, NEW to \in {"idle", "again"}, PopTimer(from, to)
       PROVE  TickInv'
  <2>1. life' = [life EXCEPT ![array[0]] = "deleted"] /\ array[0] \in Timers
    BY <1>0, <1>e, <1>10 DEF PopTimer
  <2>2. Choosing => tmp = array[0]
    BY <1>10 DEF PopTimer, TickInv, Held, InMotion
  <2>3. \A t \in called : life'[t] = "deleted"
    BY <1>0, <2>1, <2>2 DEF TickInv, TypeOK
  <2> QED BY <1>10, <2>3 DEF PopTimer, TickInv, Choosing
<1>11. CASE TickStart \/ TickAgain
  BY <1>11 DEF TickStart, TickAgain, TickInv, Choosing
<1>12. CASE TickCall \/ TickSkip
  <2>1. cur_size > 0 /\ tmp = array[0] /\ tmp \in Queued /\ expire[tmp] <= cur
    BY <1>e, <1>12 DEF TickCall, TickSkip, Due, TickInv
  <2> QED BY <1>12, <2>1 DEF TickCall, TickSkip, TickInv, Choosing, Held, InMotion, Queued
<1>13. CASE CallbackReturns \/ TickEnd
  BY <1>13 DEF CallbackReturns, TickEnd, TickInv, Choosing, Held, InMotion, Queued
<1>14. CASE UNCHANGED vars
  BY <1>14 DEF vars, TickInv, Choosing, Held, InMotion, Queued
<1> QED BY <1>1, <1>2, <1>3, <1>4, <1>5, <1>6, <1>7, <1>8, <1>9, <1>10, <1>11,
           <1>12, <1>13, <1>14 DEF Next, HeapStep, ProgramStep

-----------------------------------------------------------------------------
(* A tick that ends leaves nothing that is due.                             *)

LEMMA TickDrainsNow ==
  HeapInv /\ TickInv /\ TickEnd => \A t \in Queued : expire[t] > cur
<1> SUFFICES ASSUME HeapInv, TickInv, TickEnd, NEW t \in Queued PROVE expire[t] > cur
  OBVIOUS
<1>0. /\ cur_size \in Nat /\ expire \in [Timers -> Nat] /\ cur \in Nat /\ t \in Timers
      /\ \A k \in Slots : array[k] \in Queued
      /\ \E k \in Slots : array[k] = t
  BY DEF HeapInv, TypeOK, NothingLost, Held, InMotion, TickEnd, Queued
<1>1. cur_size > 0
  BY <1>0 DEF Slots
<1>2. tmp = array[0] /\ tmp \in Queued
  BY <1>0, <1>1 DEF TickInv, TickEnd, Slots
<1>3. expire[tmp] <= expire[t]
  BY <1>1, <1>2, RootIsFirst DEF TickEnd, TQ!First
<1>4. tmp \in Timers /\ tmp # NULL
  BY <1>2, NullAssumption DEF Queued
<1>5. ~(expire[tmp] <= cur)
  BY <1>1, <1>4 DEF TickEnd, Due
<1> QED BY <1>0, <1>3, <1>4, <1>5

THEOREM TickInvariant == Spec => []TickInv
<1> QED BY TickInvInit, TickInvNext, HeapInvariant, PTL DEF Spec

\* A tick that ends leaves no timer behind that was due when it started, for
\* any number of timers and whatever the callbacks did.
THEOREM TickLeavesNothingDue == Spec => TickDrains
<1>1. HeapInv /\ TickInv => [TickEnd => \A t \in Queued : expire[t] > cur]_vars
  BY TickDrainsNow
<1> QED BY <1>1, HeapInvariant, TickInvariant, PTL DEF TickDrains

-----------------------------------------------------------------------------
(* The refinement                                                           *)

Chosen == IF Choosing THEN tmp ELSE NULL

\* The refinement mapping of TimeHeap, with its parts named.
LEMMA Mapping ==
  /\ TQ!Init <=> Queued \subseteq Timers /\ Chosen = NULL /\ called = {}
  /\ TQ!Make <=> /\ \A t \in Queued : expire'[t] = expire[t]
                 /\ UNCHANGED << Queued, Chosen, called >>
  /\ \A t : TQ!Add(t) <=> /\ t \notin Queued /\ Queued' = Queued \cup {t}
                          /\ UNCHANGED << expire, Chosen, called >>
  /\ \A t : TQ!Choose(t) <=> /\ TQ!First(t)
                             /\ Chosen = NULL /\ Chosen' = t
                             /\ t \notin called
                             /\ called' \in {called, called \cup {t}}
                             /\ UNCHANGED << Queued, expire >>
  /\ \A t : TQ!Remove(t) <=> /\ TQ!First(t)
                             /\ Chosen \in {NULL, t} /\ Chosen' = NULL
                             /\ Queued' = Queued \ {t}
                             /\ UNCHANGED << expire, called >>
  /\ UNCHANGED << Queued, expire, Chosen, called >> => UNCHANGED TQ!queueVars
  BY DEF TQ!Init, TQ!Make, TQ!Add, TQ!Choose, TQ!Remove, TQ!queueVars, Chosen, Choosing

LEMMA TimerQueueInit == Init => TQ!Init
<1> SUFFICES ASSUME Init PROVE Queued \subseteq Timers /\ Chosen = NULL /\ called = {}
  BY Mapping
<1> QED BY DEF Init, InitRest, InitEmpty, InitFromArray, Queued, Chosen, Choosing

LEMMA TimerQueueNext ==
  HeapInv /\ TickInv /\ [Next]_vars => [TQ!Next]_(TQ!queueVars)
<1> SUFFICES ASSUME HeapInv, TickInv, [Next]_vars PROVE [TQ!Next]_(TQ!queueVars)
  OBVIOUS
<1>0. TypeOK /\ Position /\ NothingLost /\ Queued \subseteq Timers
  BY DEF HeapInv, Queued
<1>e. cur_size > 0 /\ pc \notin {"up", "down"} => array[0] \in Queued
  BY <1>0 DEF NothingLost, Held, InMotion, Slots, TypeOK
<1> DEFINE Silent == UNCHANGED << Queued, expire, Chosen, called >>
<1>s. Silent => [TQ!Next]_(TQ!queueVars)
  BY Mapping
<1> USE DEF arrayVars, timerVars, loopVars, tickVars
\* The loops, the clock and the cancellation of a timer do not show.
<1>1. CASE Build \/ BuildDone \/ Clock \/ Up \/ Down \/ TickStart \/ TickAgain
           \/ TickEnd \/ CallbackReturns \/ UNCHANGED vars
  <2>1. Silent
    BY <1>1 DEF Build, BuildDone, Clock, Up, Down, TickStart, TickAgain, TickEnd,
       CallbackReturns, vars, Queued, Chosen, Choosing
  <2> QED BY <2>1, <1>s
<1>2. CASE UpDone \/ DownDone
  <2>1. Silent
    BY <1>0, <1>2 DEF UpDone, DownDone, Position, Queued, Chosen, Choosing
  <2> QED BY <2>1, <1>s
<1>3. ASSUME NEW t \in Timers, DelTimer(t) PROVE [TQ!Next]_(TQ!queueVars)
  <2>1. Silent
    BY <1>3 DEF DelTimer, Queued, Chosen, Choosing
  <2> QED BY <2>1, <1>s
<1>4. ASSUME NEW t \in Timers, NewTimer(t) PROVE [TQ!Next]_(TQ!queueVars)
  <2>1. Queued' = Queued /\ t \notin Queued
    BY <1>0, <1>4 DEF NewTimer, Queued, TypeOK
  <2>2. \A s \in Queued : expire'[s] = expire[s]
    BY <1>0, <1>4, <2>1 DEF NewTimer, TypeOK
  <2>3. UNCHANGED << Chosen, called >>
    BY <1>4 DEF NewTimer, Chosen, Choosing
  <2>4. TQ!Make
    BY <2>1, <2>2, <2>3, Mapping
  <2> QED BY <2>4 DEF TQ!Next
<1>5. ASSUME NEW t \in Timers, AddTimer(t) PROVE [TQ!Next]_(TQ!queueVars)
  <2>1. t \notin Queued /\ Queued' = Queued \cup {t}
    BY <1>0, <1>5 DEF AddTimer, Queued, TypeOK
  <2>2. UNCHANGED << expire, Chosen, called >>
    BY <1>5 DEF AddTimer, InProgram, Chosen, Choosing
  <2>3. TQ!Add(t)
    BY <2>1, <2>2, Mapping
  <2> QED BY <2>3 DEF TQ!Next
<1>6. ASSUME NEW from \in {"idle", "pop"}, NEW to \in {"idle", "again"}, PopTimer(from, to)
      PROVE  [TQ!Next]_(TQ!queueVars)
  <2>1. TQ!First(array[0]) /\ array[0] \in Queued
    BY <1>e, <1>6, RootIsFirst DEF PopTimer
  <2>2. Queued' = Queued \ {array[0]}
    BY <1>0, <1>6, <2>1 DEF PopTimer, Queued, TypeOK
  <2>3. Chosen \in {NULL, array[0]} /\ Chosen' = NULL
    BY <1>6 DEF PopTimer, TickInv, Chosen, Choosing, Held, InMotion
  <2>4. TQ!Remove(array[0])
    BY <1>6, <2>1, <2>2, <2>3, Mapping DEF PopTimer
  <2> QED BY <1>0, <2>1, <2>4 DEF TQ!Next
\* tick takes up the root: it calls it, or finds it cancelled.
<1>7. CASE TickCall \/ TickSkip
  <2>1. TQ!First(array[0]) /\ array[0] \in Queued /\ tmp = array[0]
    BY <1>e, <1>7, RootIsFirst DEF TickCall, TickSkip, Due, TickInv
  <2>2. array[0] \notin called
    BY <2>1, <1>7 DEF TickInv, Choosing, TickCall, TickSkip, Queued
  <2>3. Chosen = NULL /\ Chosen' = array[0]
    BY <1>7, <2>1 DEF TickCall, TickSkip, Chosen, Choosing
  <2>4. UNCHANGED << Queued, expire >> /\ called' \in {called, called \cup {array[0]}}
    BY <1>7 DEF TickCall, TickSkip, Queued
  <2>5. TQ!Choose(array[0])
    BY <2>1, <2>2, <2>3, <2>4, Mapping
  <2> QED BY <1>0, <2>1, <2>5 DEF TQ!Next
<1> QED BY <1>1, <1>2, <1>3, <1>4, <1>5, <1>6, <1>7 DEF Next, HeapStep, ProgramStep

\* Every behaviour of the heap is one of a queue of timers: the timer tick calls
\* is the earliest, it is the one that is removed then, and it is called once.
THEOREM HeapImplementsTimerQueue == Spec => ImplementsTimerQueue
<1>1. Init => TQ!Init
  BY TimerQueueInit
<1>2. HeapInv /\ TickInv /\ [Next]_vars => [TQ!Next]_(TQ!queueVars)
  BY TimerQueueNext
<1> QED BY <1>1, <1>2, HeapInvariant, TickInvariant, PTL
        DEF Spec, ImplementsTimerQueue, TQ!Spec
=============================================================================
