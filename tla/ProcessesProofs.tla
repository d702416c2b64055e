---------------------------- MODULE ProcessesProofs ----------------------------
(***************************************************************************)
(* What holds of the programs of MCProcesses for any values of their       *)
(* constants.  As in ProgramsProofs, what is inductive for a program is an *)
(* invariant of every behaviour.                                           *)
(***************************************************************************)
EXTENDS MCProcesses, FiniteSetTheorems, SequenceTheorems, LeastNatural, TLAPS

-----------------------------------------------------------------------------
(* Sums                                                                     *)

\* What SumFunction takes first of a set.
Pick(s) == CHOOSE x \in s : TRUE

\* g gives the sums of f over the sets of its arguments.
Sums(f, g) ==
  g = [s \in SUBSET DOMAIN f |-> IF s = {} THEN 0 ELSE f[Pick(s)] + g[s \ {Pick(s)}]]

LEMMA Picked == ASSUME NEW s, s # {} PROVE Pick(s) \in s
BY Zenon DEF Pick

LEMMA SumIsSums == ASSUME NEW f PROVE SumFunction(f) = (CHOOSE g : Sums(f, g))[DOMAIN f]
BY DEF SumFunction, SumFunctionOnSet, FoldFunctionOnSet, MapThenFoldSet, Sums, Pick

LEMMA OneLess ==
  ASSUME NEW D, IsFiniteSet(D), NEW s \in SUBSET D, s # {}
  PROVE  /\ s \ {Pick(s)} \in SUBSET D /\ Pick(s) \in D /\ Cardinality(s) \in Nat
         /\ Cardinality(s) # 0 /\ Cardinality(s \ {Pick(s)}) = Cardinality(s) - 1
BY Picked, FS_Subset, FS_RemoveElement, FS_EmptySet, FS_CardinalityType

\* Induction over the subsets of a finite set, in the order of Pick.
LEMMA NoneIsBad ==
  ASSUME NEW D, IsFiniteSet(D), NEW B \in SUBSET SUBSET D,
         \A s \in B : s # {} /\ s \ {Pick(s)} \in B
  PROVE  B = {}
<1> SUFFICES ASSUME B # {} PROVE FALSE
  OBVIOUS
<1> DEFINE Sizes == {Cardinality(s) : s \in B}
<1>1. Sizes \subseteq Nat /\ Sizes # {}
  <2>1. \A s \in B : Cardinality(s) \in Nat
    BY FS_Subset, FS_CardinalityType
  <2> QED BY <2>1
<1>2. PICK k \in Sizes : \A j \in Sizes : k <= j
  <2> HIDE DEF Sizes
  <2> QED BY <1>1, LeastExists
<1>3. PICK s \in B : k = Cardinality(s)
  BY <1>2
<1>4. Cardinality(s \ {Pick(s)}) \in Sizes
  BY <1>3
<1>5. Cardinality(s \ {Pick(s)}) = Cardinality(s) - 1 /\ Cardinality(s) \in Nat
  BY OneLess
<1> QED BY <1>2, <1>3, <1>4, <1>5

\* A function whose values can be summed.
Summable(f) == IsFiniteSet(DOMAIN f) /\ \A x \in DOMAIN f : f[x] \in Int

LEMMA SumsExist == ASSUME NEW f, Summable(f) PROVE \E g : Sums(f, g)
<1> DEFINE D == DOMAIN f
           Step(g) == [s \in SUBSET D |-> IF s = {} THEN 0 ELSE f[Pick(s)] + g[s \ {Pick(s)}]]
           UpTo(n, g) == \A s \in SUBSET D : Cardinality(s) <= n => g[s] = Step(g)[s]
           Short == {n \in Nat : \A g : ~ UpTo(n, g)}
<1>1. IsFiniteSet(D)
  BY DEF Summable
<1>2. Short = {}
  <2> SUFFICES ASSUME Short # {} PROVE FALSE
    OBVIOUS
  <2>1. PICK n \in Short : \A j \in Short : n <= j
    <3>1. Short \subseteq Nat
      OBVIOUS
    <3> HIDE DEF Short
    <3> QED BY <3>1, LeastExists
  <2>2. n # 0
    <3>1. \A s \in SUBSET D : Cardinality(s) <= 0 => s = {}
      <4> SUFFICES ASSUME NEW s \in SUBSET D, Cardinality(s) <= 0, s # {} PROVE FALSE
        OBVIOUS
      <4>1. Cardinality(s) \in Nat /\ Cardinality(s) # 0
        BY <1>1, OneLess
      <4> QED BY <4>1
    <3>2. UpTo(0, [s \in SUBSET D |-> 0])
      BY <3>1
    <3> QED BY <2>1, <3>2
  <2>3. n - 1 \in Nat /\ n - 1 \notin Short
    <3>1. n \in Nat
      OBVIOUS
    <3>2. \A j \in Short : n <= j
      BY <2>1
    <3> HIDE DEF Short
    <3> QED BY <2>2, <3>1, <3>2
  <2>4. PICK g : UpTo(n - 1, g)
    BY <2>3
  <2>5. UpTo(n, Step(g))
    <3> SUFFICES ASSUME NEW s \in SUBSET D, Cardinality(s) <= n PROVE Step(g)[s] = Step(Step(g))[s]
      OBVIOUS
    <3>1. CASE s = {}
      BY <3>1
    <3>2. CASE s # {}
      <4>1. s \ {Pick(s)} \in SUBSET D /\ Cardinality(s \ {Pick(s)}) <= n - 1
        <5>1. /\ s \ {Pick(s)} \in SUBSET D /\ Cardinality(s) \in Nat
              /\ Cardinality(s \ {Pick(s)}) = Cardinality(s) - 1
          BY <1>1, <3>2, OneLess
        <5>2. n \in Nat
          OBVIOUS
        <5> QED BY <5>1, <5>2
      <4>2. g[s \ {Pick(s)}] = Step(g)[s \ {Pick(s)}]
        BY <2>4, <4>1
      <4> QED BY <3>2, <4>2
    <3> QED BY <3>1, <3>2
  <2> QED BY <2>1, <2>5
<1>3. Cardinality(D) \in Nat
  BY <1>1, FS_CardinalityType
<1>4. PICK g : UpTo(Cardinality(D), g)
  <2>1. Cardinality(D) \notin Short
    BY <1>2
  <2> HIDE DEF UpTo
  <2> QED BY <1>3, <2>1
<1>5. Step(g) = Step(Step(g))
  <2> SUFFICES ASSUME NEW s \in SUBSET D, s # {} PROVE g[s \ {Pick(s)}] = Step(g)[s \ {Pick(s)}]
    OBVIOUS
  <2>1. s \ {Pick(s)} \in SUBSET D /\ Cardinality(s \ {Pick(s)}) <= Cardinality(D)
    BY <1>1, OneLess, FS_Subset
  <2> QED BY <1>4, <2>1
<1> QED BY <1>5 DEF Sums

\* The sums that SumFunction computes.
SumsOf(f) == CHOOSE g : Sums(f, g)

LEMMA SumsAre ==
  ASSUME NEW f, Summable(f)
  PROVE  /\ SumFunction(f) = SumsOf(f)[DOMAIN f]
         /\ \A s \in SUBSET DOMAIN f :
              SumsOf(f)[s] = IF s = {} THEN 0 ELSE f[Pick(s)] + SumsOf(f)[s \ {Pick(s)}]
<1>1. Sums(f, SumsOf(f))
  BY SumsExist DEF SumsOf
<1>2. SumFunction(f) = SumsOf(f)[DOMAIN f]
  BY SumIsSums DEF SumsOf
<1> QED BY <1>1, <1>2 DEF Sums

LEMMA SumsAreInt ==
  ASSUME NEW f, Summable(f)
  PROVE  \A s \in SUBSET DOMAIN f : SumsOf(f)[s] \in Int
<1> DEFINE B == {s \in SUBSET DOMAIN f : SumsOf(f)[s] \notin Int}
<1>1. \A s \in B : s # {} /\ s \ {Pick(s)} \in B
  <2> SUFFICES ASSUME NEW s \in B PROVE s # {} /\ s \ {Pick(s)} \in B
    OBVIOUS
  <2>1. s # {}
    BY SumsAre
  <2>2. f[Pick(s)] \in Int /\ s \ {Pick(s)} \in SUBSET DOMAIN f
    BY <2>1, OneLess DEF Summable
  <2>3. SumsOf(f)[s] = f[Pick(s)] + SumsOf(f)[s \ {Pick(s)}]
    BY <2>1, SumsAre
  <2> QED BY <2>1, <2>2, <2>3
<1>2. B = {}
  <2> HIDE DEF B
  <2>1. B \in SUBSET SUBSET DOMAIN f /\ IsFiniteSet(DOMAIN f)
    BY DEF B, Summable
  <2> QED BY <1>1, <2>1, NoneIsBad
<1> QED BY <1>2

\* A function with nowhere a smaller value has no smaller sum.
LEMMA SumGrows ==
  ASSUME NEW f, NEW h, Summable(f), Summable(h), DOMAIN h = DOMAIN f,
         \A x \in DOMAIN f : f[x] <= h[x]
  PROVE  SumFunction(f) \in Int /\ SumFunction(h) \in Int /\ SumFunction(f) <= SumFunction(h)
<1> DEFINE B == {s \in SUBSET DOMAIN f : ~ SumsOf(f)[s] <= SumsOf(h)[s]}
<1>1. \A s \in B : s # {} /\ s \ {Pick(s)} \in B
  <2> SUFFICES ASSUME NEW s \in B PROVE s # {} /\ s \ {Pick(s)} \in B
    OBVIOUS
  <2>1. s # {}
    <3>1. {} \in SUBSET DOMAIN f /\ {} \in SUBSET DOMAIN h
      OBVIOUS
    <3>2. SumsOf(f)[{}] = 0 /\ SumsOf(h)[{}] = 0
      BY <3>1, SumsAre
    <3> QED BY <3>2
  <2>2. f[Pick(s)] \in Int /\ h[Pick(s)] \in Int /\ f[Pick(s)] <= h[Pick(s)] /\ s \ {Pick(s)} \in SUBSET DOMAIN f
    BY <2>1, OneLess DEF Summable
  <2>3. /\ SumsOf(f)[s] = f[Pick(s)] + SumsOf(f)[s \ {Pick(s)}]
        /\ SumsOf(h)[s] = h[Pick(s)] + SumsOf(h)[s \ {Pick(s)}]
    BY <2>1, SumsAre
  <2>4. SumsOf(f)[s \ {Pick(s)}] \in Int /\ SumsOf(h)[s \ {Pick(s)}] \in Int
    BY <2>2, SumsAreInt
  <2> QED BY <2>1, <2>2, <2>3, <2>4
<1>2. B = {}
  <2> HIDE DEF B
  <2>1. B \in SUBSET SUBSET DOMAIN f /\ IsFiniteSet(DOMAIN f)
    BY DEF B, Summable
  <2> QED BY <1>1, <2>1, NoneIsBad
<1> QED BY <1>2, SumsAre, SumsAreInt

\* A function that differs in one value differs in its sum by as much.
LEMMA SumChanges ==
  ASSUME NEW f, NEW h, Summable(f), Summable(h), DOMAIN h = DOMAIN f, NEW i \in DOMAIN f,
         \A x \in DOMAIN f : x # i => h[x] = f[x]
  PROVE  /\ SumFunction(f) \in Int /\ SumFunction(h) \in Int
         /\ SumFunction(h) = SumFunction(f) + h[i] - f[i]
<1> DEFINE Change(s) == IF i \in s THEN h[i] - f[i] ELSE 0
           B == {s \in SUBSET DOMAIN f : SumsOf(h)[s] # SumsOf(f)[s] + Change(s)}
<1>1. \A s \in B : s # {} /\ s \ {Pick(s)} \in B
  <2> SUFFICES ASSUME NEW s \in B PROVE s # {} /\ s \ {Pick(s)} \in B
    OBVIOUS
  <2>1. s # {}
    <3>1. {} \in SUBSET DOMAIN f /\ {} \in SUBSET DOMAIN h
      OBVIOUS
    <3>2. SumsOf(f)[{}] = 0 /\ SumsOf(h)[{}] = 0
      BY <3>1, SumsAre
    <3> QED BY <3>2
  <2>2. /\ f[Pick(s)] \in Int /\ h[Pick(s)] \in Int /\ f[i] \in Int /\ h[i] \in Int
        /\ s \ {Pick(s)} \in SUBSET DOMAIN f /\ Pick(s) \in DOMAIN f /\ Pick(s) \in s
    BY <2>1, OneLess, Picked DEF Summable
  <2>3. /\ SumsOf(f)[s] = f[Pick(s)] + SumsOf(f)[s \ {Pick(s)}]
        /\ SumsOf(h)[s] = h[Pick(s)] + SumsOf(h)[s \ {Pick(s)}]
    BY <2>1, SumsAre
  <2>4. SumsOf(f)[s \ {Pick(s)}] \in Int /\ SumsOf(h)[s \ {Pick(s)}] \in Int
    BY <2>2, SumsAreInt
  <2>5. Change(s) = IF Pick(s) = i THEN h[i] - f[i] ELSE Change(s \ {Pick(s)})
    BY <2>2
  <2>6. Pick(s) = i => Change(s \ {Pick(s)}) = 0
    OBVIOUS
  <2>7. Pick(s) # i => h[Pick(s)] = f[Pick(s)]
    BY <2>2
  <2>8. Change(s \ {Pick(s)}) \in Int
    BY <2>2
  <2>9. SumsOf(h)[s] # SumsOf(f)[s] + Change(s)
    OBVIOUS
  <2>10. SumsOf(h)[s \ {Pick(s)}] # SumsOf(f)[s \ {Pick(s)}] + Change(s \ {Pick(s)})
    <3> HIDE DEF Change, B
    <3> QED BY <2>2, <2>3, <2>4, <2>5, <2>6, <2>7, <2>8, <2>9
  <2> QED BY <2>1, <2>2, <2>10
<1>2. B = {}
  <2> HIDE DEF B
  <2>1. B \in SUBSET SUBSET DOMAIN f /\ IsFiniteSet(DOMAIN f)
    BY DEF B, Summable
  <2> QED BY <1>1, <2>1, NoneIsBad
<1>3. SumsOf(h)[DOMAIN f] = SumsOf(f)[DOMAIN f] + (h[i] - f[i])
  BY <1>2
<1>4. h[i] \in Int /\ f[i] \in Int
  BY DEF Summable
<1>5. SumFunction(f) \in Int /\ SumFunction(h) \in Int /\ SumFunction(h) = SumFunction(f) + (h[i] - f[i])
  BY <1>3, SumsAre, SumsAreInt
<1> QED BY <1>4, <1>5

\* Nothing but zeros adds up to zero.
LEMMA SumOfZeros ==
  ASSUME NEW f, IsFiniteSet(DOMAIN f), \A x \in DOMAIN f : f[x] = 0
  PROVE  SumFunction(f) = 0
<1> DEFINE B == {s \in SUBSET DOMAIN f : SumsOf(f)[s] # 0}
<1>1. Summable(f)
  BY DEF Summable
<1>2. \A s \in B : s # {} /\ s \ {Pick(s)} \in B
  <2> SUFFICES ASSUME NEW s \in B PROVE s # {} /\ s \ {Pick(s)} \in B
    OBVIOUS
  <2>1. s # {}
    BY <1>1, SumsAre
  <2>2. s \ {Pick(s)} \in SUBSET DOMAIN f /\ f[Pick(s)] = 0
    BY <2>1, OneLess
  <2>3. SumsOf(f)[s] = f[Pick(s)] + SumsOf(f)[s \ {Pick(s)}]
    BY <1>1, <2>1, SumsAre
  <2> QED BY <2>1, <2>2, <2>3
<1>3. B = {}
  <2> HIDE DEF B
  <2>1. B \in SUBSET SUBSET DOMAIN f
    BY DEF B
  <2> QED BY <1>2, <2>1, NoneIsBad
<1> QED BY <1>1, <1>3, SumsAre

\* None of the values of a function without negative values exceeds its sum.
LEMMA SumCovers ==
  ASSUME NEW f, Summable(f), \A x \in DOMAIN f : f[x] >= 0
  PROVE  SumFunction(f) \in Nat /\ \A i \in DOMAIN f : SumFunction(f) >= f[i]
<1> DEFINE zero == [x \in DOMAIN f |-> 0]
<1>1. Summable(zero) /\ DOMAIN zero = DOMAIN f
  BY DEF Summable
<1>2. SumFunction(zero) = 0
  BY <1>1, SumOfZeros DEF Summable
<1>3. SumFunction(f) \in Int /\ 0 <= SumFunction(f)
  <2> HIDE DEF zero
  <2> QED BY <1>1, <1>2, SumGrows DEF zero
<1>4. ASSUME NEW i \in DOMAIN f PROVE SumFunction(f) >= f[i]
  <2> DEFINE but == [f EXCEPT ![i] = 0]
             only == [x \in DOMAIN f |-> IF x = i THEN f[i] ELSE 0]
  <2>1. Summable(only) /\ DOMAIN only = DOMAIN f /\ f[i] \in Int
    BY DEF Summable
  <2>2. SumFunction(only) = SumFunction(zero) + only[i] - zero[i]
    <3>1. \A x \in DOMAIN zero : x # i => only[x] = zero[x]
      OBVIOUS
    <3> HIDE DEF only, zero
    <3> QED BY <1>1, <2>1, <3>1, SumChanges
  <2>3. SumFunction(only) = f[i]
    BY <1>2, <2>1, <2>2
  <2>4. \A x \in DOMAIN only : only[x] <= f[x]
    BY <2>1 DEF Summable
  <2>5. SumFunction(only) <= SumFunction(f)
    <3> HIDE DEF only
    <3> QED BY <2>1, <2>4, SumGrows
  <2> QED BY <1>3, <2>1, <2>3, <2>5
<1> QED BY <1>3, <1>4

-----------------------------------------------------------------------------
(* OneShot                                                                  *)

LEMMA ShotSteps == MCSpec => Shot!Init /\ [][Shot!Next]_shotVars
<1>1. MCInit => Shot!Init
  BY DEF MCInit
<1>2. [MCNext]_<< program, vars, cgiVars, shotVars, lockVars, forkVars, semVars, connectVars >>
        => [Shot!Next]_shotVars
  BY DEF MCNext, Keep
<1> QED BY <1>1, <1>2, PTL DEF MCSpec

ShotTypes ==
  /\ armed \subseteq Fds /\ shot_events \subseteq Fds \cup {listenfd}
  /\ abandoned \subseteq Fds /\ fds_for_new_worker \in Fds \cup {Garbage}
  /\ thread \in [Shot!Threads -> [pc : {"none", "start", "recv", "reset_oneshot", "done"},
                                  sockfd : Fds \cup {Garbage, None}, meant : Fds \cup {None}]]
  /\ DOMAIN conn = Fds /\ edge \in BOOLEAN /\ overtaken \in BOOLEAN /\ shot_backlog \in Seq(Clients)

\* A report of the listening socket, now or to come, has a connection behind it.
EdgeHasConn == Len(shot_backlog) >= (IF edge THEN 1 ELSE 0) + (IF listenfd \in shot_events THEN 1 ELSE 0)

\* A thread at work on a descriptor, or about to be.
Active(t) == t \in Shot!Threads /\ thread[t].pc \notin {"none", "done"}
Kept(f) == f \in armed \/ f \in shot_events \/ \E t \in Shot!Threads : Active(t) /\ Shot!Of(t) = f

\* No two that keep the same descriptor.
KeptOnce ==
  /\ armed \cap shot_events = {}
  /\ \A t \in Shot!Threads : Active(t) =>
       /\ Shot!Of(t) \in Fds /\ Shot!Of(t) \notin armed /\ Shot!Of(t) \notin shot_events
       /\ \A u \in Shot!Threads : Active(u) /\ u # t => Shot!Of(u) # Shot!Of(t)

\* And what is kept is what is open and was not abandoned.
KeptIsOpen ==
  /\ abandoned \subseteq Shot!Open
  /\ \A f \in Fds : Kept(f) <=> f \in Shot!Open \ abandoned

ShotInv == ShotTypes /\ EdgeHasConn /\ (~ overtaken => KeptOnce /\ KeptIsOpen)

LEMMA ShotConstants == Fds \subseteq Nat /\ listenfd \notin Fds /\ Garbage \notin Fds /\ None \notin Fds
                       /\ None \notin Clients
  BY ShotAssumption DEF Shot!FdsAssumption

LEMMA ShotInit == Shot!Init => ShotInv
<1> SUFFICES ASSUME Shot!Init PROVE ShotInv
  OBVIOUS
<1>1. ShotTypes
  <2>1. fds_for_new_worker \in Fds \cup {Garbage} /\ DOMAIN conn = Fds /\ armed = {} /\ shot_events = {}
        /\ abandoned = {} /\ edge = FALSE /\ overtaken = FALSE
    BY DEF Shot!Init
  <2>2. thread = [t \in Shot!Threads |-> [pc |-> "none", sockfd |-> None, meant |-> None]]
    BY DEF Shot!Init
  <2>3. shot_backlog \in Seq(Clients)
    <3>1. shot_backlog = <<>>
      BY DEF Shot!Init
    <3> QED BY <3>1
  <2> QED BY <2>1, <2>2, <2>3 DEF ShotTypes
<1>2. EdgeHasConn
  <2>1. shot_backlog = <<>> /\ edge = FALSE /\ shot_events = {}
    BY DEF Shot!Init
  <2>2. Len(shot_backlog) = 0
    BY <2>1
  <2> QED BY <2>1, <2>2 DEF EdgeHasConn
<1>3. KeptOnce /\ KeptIsOpen
  BY DEF Shot!Init, KeptOnce, KeptIsOpen, Kept, Active, Shot!Open
<1> QED BY <1>1, <1>2, <1>3 DEF ShotInv

\* What KeptOnce and KeptIsOpen speak of.
LEMMA SameKeepers ==
  ASSUME ShotInv, UNCHANGED << armed, shot_events, thread, conn, abandoned, overtaken >>
  PROVE  ~ overtaken' => KeptOnce' /\ KeptIsOpen'
BY DEF ShotInv, KeptOnce, KeptIsOpen, Kept, Active, Shot!Open, Shot!Of

LEMMA ShotClient ==
  ASSUME ShotInv, NEW c \in Clients, Shot!Connect(c) \/ Shot!Say(c) \/ Shot!Leave(c)
  PROVE  ShotInv'
<1>1. UNCHANGED << armed, shot_events, fds_for_new_worker, thread, conn, abandoned, overtaken >>
  BY DEF Shot!Connect, Shot!Say, Shot!Leave, Shot!mainVars
<1>2. CASE Shot!Connect(c)
  <2>1. edge' = TRUE /\ shot_backlog' = Append(shot_backlog, c)
    BY <1>2 DEF Shot!Connect
  <2>2. shot_backlog' \in Seq(Clients) /\ Len(shot_backlog') = Len(shot_backlog) + 1 /\ Len(shot_backlog) \in Nat
    BY <2>1 DEF ShotInv, ShotTypes
  <2> QED BY <1>1, <2>1, <2>2, SameKeepers DEF ShotInv, ShotTypes, EdgeHasConn
<1>3. CASE Shot!Say(c) \/ Shot!Leave(c)
  BY <1>1, <1>3, SameKeepers DEF ShotInv, ShotTypes, EdgeHasConn, Shot!Say, Shot!Leave, Shot!mainVars
<1> QED BY <1>2, <1>3

LEMMA ShotWait == ASSUME ShotInv, Shot!EpollWait PROVE ShotInv'
<1>1. shot_events = {} /\ shot_events' = Shot!Ready /\ armed' = armed \ Shot!Ready /\ edge' = FALSE
      /\ UNCHANGED << fds_for_new_worker, thread, conn, abandoned, overtaken, shot_backlog >>
  BY DEF Shot!EpollWait
<1>2. Shot!Ready \subseteq armed \cup {listenfd} /\ (listenfd \in Shot!Ready => edge)
  BY ShotConstants DEF Shot!Ready, ShotInv, ShotTypes
<1>3. ShotTypes'
  BY <1>1, <1>2 DEF ShotInv, ShotTypes
<1>4. EdgeHasConn'
  BY <1>1, <1>2 DEF ShotInv, ShotTypes, EdgeHasConn
<1>5. ASSUME ~ overtaken PROVE KeptOnce' /\ KeptIsOpen'
  <2>1. KeptOnce /\ KeptIsOpen
    BY <1>5 DEF ShotInv
  <2>2. \A f \in Fds : f \in armed <=> f \in armed' \/ f \in shot_events'
    BY <1>1, <1>2, ShotConstants
  <2>3. KeptOnce'
    BY <1>1, <2>1, <2>2, ShotConstants DEF KeptOnce, Active, Shot!Of
  <2>4. \A f \in Fds : Kept(f)' <=> Kept(f)
    BY <1>1, <2>2 DEF Kept, Active, Shot!Of
  <2> QED BY <1>1, <2>1, <2>3, <2>4 DEF KeptIsOpen, Shot!Open
<1> QED BY <1>1, <1>3, <1>4, <1>5 DEF ShotInv

LEMMA ShotAccept == ASSUME ShotInv, Shot!Accept \/ Shot!AcceptFails PROVE ShotInv'
<1>1. /\ listenfd \in shot_events /\ shot_events' = shot_events \ {listenfd}
      /\ fds_for_new_worker' \in {fds_for_new_worker, Garbage}
      /\ UNCHANGED << thread, abandoned, overtaken, edge >>
  BY DEF Shot!Accept, Shot!AcceptFails, Shot!Listening
<1>2. \A f \in Fds : f \in shot_events' <=> f \in shot_events
  BY <1>1, ShotConstants
<1>3. CASE Shot!AcceptFails
  <2>1. UNCHANGED << conn, armed, shot_backlog >>
    BY <1>3 DEF Shot!AcceptFails
  <2>2. ShotTypes' /\ EdgeHasConn'
    BY <1>1, <2>1 DEF ShotInv, ShotTypes, EdgeHasConn
  <2>3. ASSUME ~ overtaken PROVE KeptOnce' /\ KeptIsOpen'
    BY <1>1, <1>2, <2>1, <2>3, ShotConstants
       DEF ShotInv, ShotTypes, KeptOnce, KeptIsOpen, Kept, Active, Shot!Open, Shot!Of
  <2> QED BY <1>1, <2>2, <2>3 DEF ShotInv
<1>4. CASE Shot!Accept
  <2>1. PICK f \in Fds \ Shot!Open :
          conn' = [conn EXCEPT ![f] = Head(shot_backlog)] /\ armed' = armed \cup {f}
    BY <1>4 DEF Shot!Accept
  <2>2. shot_backlog' = Tail(shot_backlog)
    BY <1>4 DEF Shot!Accept
  <2>3. shot_backlog \in Seq(Clients) /\ Len(shot_backlog) \in Nat /\ shot_backlog # <<>>
    BY <1>1 DEF ShotInv, ShotTypes, EdgeHasConn
  <2>4. Head(shot_backlog) \in Clients /\ shot_backlog' \in Seq(Clients)
        /\ Len(shot_backlog') = Len(shot_backlog) - 1
    BY <2>2, <2>3
  <2>5. ShotTypes'
    BY <1>1, <2>1, <2>4 DEF ShotInv, ShotTypes
  <2>6. EdgeHasConn'
    BY <1>1, <2>3, <2>4 DEF ShotInv, ShotTypes, EdgeHasConn
  <2>7. ASSUME ~ overtaken PROVE KeptOnce' /\ KeptIsOpen'
    <3>1. KeptOnce /\ KeptIsOpen /\ ~ Kept(f)
      BY <2>1, <2>7 DEF ShotInv, KeptIsOpen
    <3>2. Shot!Open' = Shot!Open \cup {f}
      BY <2>1, <2>4, ShotConstants DEF Shot!Open, ShotInv, ShotTypes
    <3>3. KeptOnce'
      BY <1>1, <1>2, <2>1, <3>1 DEF KeptOnce, Kept, Active, Shot!Of
    <3>4. \A g \in Fds : Kept(g)' <=> (Kept(g) \/ g = f)
      BY <1>1, <1>2, <2>1 DEF Kept, Active, Shot!Of
    <3> QED BY <1>1, <2>1, <3>1, <3>2, <3>3, <3>4 DEF KeptIsOpen
  <2> QED BY <1>1, <2>5, <2>6, <2>7 DEF ShotInv
<1> QED BY <1>3, <1>4

LEMMA ShotCreate == ASSUME ShotInv, NEW f \in Fds, Shot!Create(f) \/ Shot!CreateFails(f) PROVE ShotInv'
<1>1. /\ f \in shot_events /\ f # listenfd /\ shot_events' = shot_events \ {f} /\ fds_for_new_worker' = f
      /\ UNCHANGED << edge, armed, shot_backlog, conn, overtaken >>
  BY DEF Shot!Create, Shot!CreateFails, Shot!NewWorker
<1>2. EdgeHasConn'
  BY <1>1 DEF ShotInv, EdgeHasConn
<1>3. CASE Shot!CreateFails(f)
  <2>1. abandoned' = abandoned \cup {f} /\ UNCHANGED thread
    BY <1>3 DEF Shot!CreateFails
  <2>2. ShotTypes'
    BY <1>1, <2>1 DEF ShotInv, ShotTypes
  <2>3. ASSUME ~ overtaken PROVE KeptOnce' /\ KeptIsOpen'
    <3>1. KeptOnce /\ KeptIsOpen /\ f \in Shot!Open
      BY <1>1, <2>3 DEF ShotInv, KeptIsOpen, Kept
    <3>2. \A g \in Fds : Kept(g)' <=> (Kept(g) /\ g # f)
      BY <1>1, <2>1, <3>1 DEF Kept, KeptOnce, Active, Shot!Of
    <3>3. KeptOnce'
      BY <1>1, <2>1, <3>1 DEF KeptOnce, Active, Shot!Of
    <3> QED BY <1>1, <2>1, <3>1, <3>2, <3>3 DEF KeptIsOpen, Shot!Open
  <2> QED BY <1>1, <1>2, <2>2, <2>3 DEF ShotInv
<1>4. CASE Shot!Create(f)
  <2>1. PICK t \in Shot!Threads :
          /\ thread[t].pc = "none"
          /\ thread' = [thread EXCEPT ![t] = [pc |-> "start", sockfd |-> None, meant |-> f]]
    BY <1>4 DEF Shot!Create
  <2>2. UNCHANGED abandoned
    BY <1>4 DEF Shot!Create
  <2>3. ShotTypes'
    BY <1>1, <2>1, <2>2 DEF ShotInv, ShotTypes
  <2>4. \A u \in Shot!Threads :
          /\ u # t => Active(u)' = Active(u) /\ Shot!Of(u)' = Shot!Of(u)
          /\ ~ Active(t) /\ Active(t)' /\ Shot!Of(t)' = f
    BY <2>1 DEF ShotInv, ShotTypes, Active, Shot!Of
  <2>5. ASSUME ~ overtaken PROVE KeptOnce' /\ KeptIsOpen'
    <3>1. KeptOnce /\ KeptIsOpen
      BY <2>5 DEF ShotInv
    <3>2. KeptOnce'
      BY <1>1, <2>4, <3>1 DEF KeptOnce
    <3>3. \A g \in Fds : Kept(g)' <=> Kept(g)
      BY <1>1, <2>4 DEF Kept
    <3> QED BY <1>1, <2>2, <3>1, <3>2, <3>3 DEF KeptIsOpen, Shot!Open
  <2> QED BY <1>1, <1>2, <2>3, <2>5 DEF ShotInv
<1> QED BY <1>3, <1>4

\* A thread that stays active, on the descriptor it had.
LEMMA ShotGoesOn ==
  ASSUME ShotInv, NEW t \in Shot!Threads, Shot!ReadArgument(t) \/ Shot!Recv(t) \/ Shot!RecvFails(t) \/ Shot!RecvAgain(t)
  PROVE  ShotInv'
<1>1. UNCHANGED << shot_events, edge, fds_for_new_worker, armed, shot_backlog, conn, abandoned >>
  BY DEF Shot!ReadArgument, Shot!Recv, Shot!RecvFails, Shot!RecvAgain, Shot!mainVars
<1>2. ShotTypes'
  <2>1. overtaken' \in BOOLEAN
    BY DEF ShotInv, ShotTypes, Shot!ReadArgument, Shot!Recv, Shot!RecvFails, Shot!RecvAgain
  <2>2. thread' \in [Shot!Threads -> [pc : {"none", "start", "recv", "reset_oneshot", "done"},
                                     sockfd : Fds \cup {Garbage, None}, meant : Fds \cup {None}]]
    BY DEF ShotInv, ShotTypes, Shot!ReadArgument, Shot!Recv, Shot!RecvFails, Shot!RecvAgain, Shot!Goes
  <2> QED BY <1>1, <2>1, <2>2 DEF ShotInv, ShotTypes
<1>3. ASSUME ~ overtaken'
      PROVE  ~ overtaken /\ \A u \in Shot!Threads : Active(u)' = Active(u) /\ (Active(u) => Shot!Of(u)' = Shot!Of(u))
  <2>1. CASE Shot!ReadArgument(t)
    <3>1. overtaken' = (overtaken \/ fds_for_new_worker # thread[t].meant)
      BY <2>1 DEF Shot!ReadArgument
    <3>2. ~ overtaken /\ fds_for_new_worker = thread[t].meant
      BY <1>3, <3>1
    <3>3. thread' = [thread EXCEPT ![t].pc = "recv", ![t].sockfd = fds_for_new_worker] /\ thread[t].pc = "start"
      BY <2>1 DEF Shot!ReadArgument
    <3> QED BY <3>2, <3>3 DEF ShotInv, ShotTypes, Active, Shot!Of
  <2>2. CASE Shot!Recv(t) \/ Shot!RecvFails(t)
    <3>1. UNCHANGED << thread, overtaken >>
      BY <2>2 DEF Shot!Recv, Shot!RecvFails
    <3> QED BY <1>3, <3>1 DEF Active, Shot!Of
  <2>3. CASE Shot!RecvAgain(t)
    <3>1. /\ thread[t].pc = "recv" /\ overtaken' = overtaken
          /\ thread' = [thread EXCEPT ![t].pc = "reset_oneshot"]
      BY <2>3 DEF Shot!RecvAgain, Shot!Receives, Shot!Goes
    <3> QED BY <1>3, <3>1 DEF ShotInv, ShotTypes, Active, Shot!Of
  <2> QED BY <2>1, <2>2, <2>3
<1>4. ASSUME ~ overtaken' PROVE KeptOnce' /\ KeptIsOpen'
  <2>1. KeptOnce /\ KeptIsOpen
    BY <1>3, <1>4 DEF ShotInv
  <2>2. KeptOnce'
    BY <1>1, <1>3, <1>4, <2>1 DEF KeptOnce
  <2>3. \A f \in Fds : Kept(f)' <=> Kept(f)
    BY <1>1, <1>3, <1>4 DEF Kept
  <2> QED BY <1>1, <2>1, <2>2, <2>3 DEF KeptIsOpen, Shot!Open
<1> QED BY <1>1, <1>2, <1>4 DEF ShotInv, EdgeHasConn

\* A thread that ends closes its connection, or leaves it to the registration.
LEMMA ShotEnds ==
  ASSUME ShotInv, NEW t \in Shot!Threads, Shot!RecvEnd(t) \/ Shot!ResetOneshot(t)
  PROVE  ShotInv'
<1> DEFINE f == thread[t].sockfd
<1>1. /\ UNCHANGED << shot_events, edge, fds_for_new_worker, shot_backlog, abandoned, overtaken >>
      /\ thread' = [thread EXCEPT ![t].pc = "done"]
      /\ Active(t) /\ Shot!Of(t) = f
  BY DEF Shot!RecvEnd, Shot!ResetOneshot, Shot!Receives, Shot!mainVars, Shot!Goes, Active, Shot!Of
<1>2. \A u \in Shot!Threads :
        /\ u # t => Active(u)' = Active(u) /\ Shot!Of(u)' = Shot!Of(u)
        /\ ~ Active(t)'
  BY <1>1 DEF ShotInv, ShotTypes, Active, Shot!Of
<1>3. CASE Shot!RecvEnd(t)
  <2>1. f \in Shot!Open /\ conn' = [conn EXCEPT ![f] = None] /\ armed' = armed \ {f}
    BY <1>3 DEF Shot!RecvEnd, Shot!Receives
  <2>2. ShotTypes'
    BY <1>1, <2>1 DEF ShotInv, ShotTypes
  <2>3. ASSUME ~ overtaken PROVE KeptOnce' /\ KeptIsOpen'
    <3>1. KeptOnce /\ KeptIsOpen /\ f \in Fds
      BY <2>1, <2>3 DEF ShotInv, Shot!Open
    <3>2. KeptOnce'
      BY <1>1, <1>2, <2>1, <3>1 DEF KeptOnce
    <3>3. \A g \in Fds : Kept(g)' <=> (Kept(g) /\ g # f)
      BY <1>1, <1>2, <2>1, <3>1 DEF Kept, KeptOnce
    <3>4. Shot!Open' = Shot!Open \ {f}
      BY <2>1, ShotConstants DEF Shot!Open, ShotInv, ShotTypes
    <3>5. f \notin abandoned
      BY <1>1, <3>1 DEF KeptIsOpen, Kept
    <3> QED BY <1>1, <3>1, <3>2, <3>3, <3>4, <3>5 DEF KeptIsOpen
  <2> QED BY <1>1, <2>2, <2>3 DEF ShotInv, EdgeHasConn
<1>4. CASE Shot!ResetOneshot(t)
  <2>1. armed' = armed \cup ({f} \cap Shot!Open) /\ conn' = conn
    BY <1>4 DEF Shot!ResetOneshot
  <2>2. ShotTypes'
    BY <1>1, <2>1 DEF ShotInv, ShotTypes, Shot!Open
  <2>3. ASSUME ~ overtaken PROVE KeptOnce' /\ KeptIsOpen'
    <3>1. KeptOnce /\ KeptIsOpen /\ f \in Fds /\ f \in Shot!Open
      BY <1>1, <2>3 DEF ShotInv, KeptOnce, KeptIsOpen, Kept
    <3>2. KeptOnce'
      BY <1>1, <1>2, <2>1, <3>1 DEF KeptOnce
    <3>3. \A g \in Fds : Kept(g)' <=> Kept(g)
      BY <1>1, <1>2, <2>1, <3>1 DEF Kept
    <3> QED BY <1>1, <2>1, <3>1, <3>2, <3>3 DEF KeptIsOpen, Shot!Open
  <2> QED BY <1>1, <2>2, <2>3 DEF ShotInv, EdgeHasConn
<1> QED BY <1>3, <1>4

LEMMA ShotNext == ASSUME ShotInv, [Shot!Next]_shotVars PROVE ShotInv'
<1>1. CASE UNCHANGED shotVars
  BY <1>1, SameKeepers DEF ShotInv, ShotTypes, EdgeHasConn, shotVars
<1>2. ASSUME NEW t \in Shot!Threads, Shot!Worker(t) PROVE ShotInv'
  BY <1>2, ShotGoesOn, ShotEnds DEF Shot!Worker
<1> QED BY <1>1, <1>2, ShotWait, ShotAccept, ShotCreate, ShotClient DEF Shot!Next

THEOREM ShotInvariant == MCSpec => []ShotInv
<1> QED BY ShotInit, ShotNext, ShotSteps, PTL

\* Tagged sets of which one has an element and the others none.
LEMMA OneOrNone ==
  ASSUME ShotInv, ~ overtaken, NEW f \in Fds
  PROVE  Shot!Cardinality(Shot!Keepers(f)) = IF f \in Shot!Open \ abandoned THEN 1 ELSE 0
<1>1. /\ KeptOnce /\ (Kept(f) <=> f \in Shot!Open \ abandoned)
  BY DEF ShotInv, KeptIsOpen
<1>2. \A S : Shot!Cardinality(S) = Cardinality(S)
  BY DEF Shot!Cardinality, Cardinality, Shot!IsFiniteSet, IsFiniteSet
<1>3. CASE ~ Kept(f)
  <2>1. Shot!Keepers(f) = {}
    BY <1>3 DEF Kept, Active, Shot!Keepers, Shot!At
  <2> QED BY <1>1, <1>2, <1>3, <2>1, FS_EmptySet
<1>4. CASE Kept(f)
  <2>1. \E k : Shot!Keepers(f) = {k}
    <3>1. CASE f \in armed
      <4>1. Shot!Keepers(f) = {<< "armed", f >>}
        BY <1>1, <3>1 DEF KeptOnce, Active, Shot!Keepers, Shot!At
      <4> QED BY <4>1
    <3>2. CASE f \in shot_events
      <4>1. Shot!Keepers(f) = {<< "event", f >>}
        BY <1>1, <3>2 DEF KeptOnce, Active, Shot!Keepers, Shot!At
      <4> QED BY <4>1
    <3>3. ASSUME NEW t \in Shot!Threads, Active(t), Shot!Of(t) = f PROVE \E k : Shot!Keepers(f) = {k}
      <4>1. Shot!At(f) = {t} /\ f \notin armed /\ f \notin shot_events
        BY <1>1, <3>3 DEF KeptOnce, Active, Shot!At
      <4>2. Shot!Keepers(f) = {<< "thread", t >>}
        BY <4>1 DEF Shot!Keepers
      <4> QED BY <4>2
    <3> QED BY <1>4, <3>1, <3>2, <3>3 DEF Kept
  <2> QED BY <1>1, <1>2, <1>4, <2>1, FS_Singleton
<1> QED BY <1>3, <1>4

\* While no thread is overtaken, an open connection has one keeper or was abandoned,
\* and a closed one has none (OneShot).
THEOREM EachHasOneKeeper == MCSpec => []OneKeeper
<1>1. ShotInv => OneKeeper
  BY OneOrNone DEF OneKeeper, Shot!OneKeeper
<1> QED BY <1>1, ShotInvariant, PTL

-----------------------------------------------------------------------------
(* PoolCgi                                                                  *)

Text == Seq({Name, Ghost, End})

CgiTypes ==
  /\ cgi_parent \in {"fork", "loop", "stopped", "killed"} /\ cgi_forked \in 0 .. PROCESS_COUNT
  /\ pid \in [Cgi!Idx -> {"none", "some"}] /\ sub_process_counter \in Cgi!Idx
  /\ cgi_child \in [Cgi!Idx -> {"none", "start", "loop", "dead", "reaped"}]
  /\ at \in [Cgi!Idx -> {"test", "gap", "wait"}]
  /\ notices \in [Cgi!Idx -> Nat] /\ chld \in [Cgi!Idx -> BOOLEAN]
  /\ cgi_cedges \in [Cgi!Idx -> SUBSET (Conns \cup {"pipe"})]
  /\ cgi_cevents \in [Cgi!Idx -> SUBSET (Conns \cup {"pipe"})]
  /\ cgi_backlog \in Seq(Conns) /\ holder \in [Conns -> Cgi!Idx \cup {Cgi!Nobody, Cgi!Closed}]
  /\ coming \in [Conns -> Text] /\ inbox \in [Conns -> Text] /\ buf \in [Conns -> Text]
  /\ peer \in [Conns -> {"open", "closed"}]
  /\ cgi \in [Conns -> {"none", "runs", "zombie", "gone"}] /\ owner \in [Conns -> Cgi!Idx]

\* Who has been forked, who may hold a connection, and what waits to be accepted.
ForkedInOrder == \A i \in Cgi!Idx : i >= cgi_forked => cgi_child[i] = "none"
HeldByLive == \A c \in Conns : holder[c] \in Cgi!Idx => cgi_child[holder[c]] = "loop"
Queued ==
  \A k \in DOMAIN cgi_backlog :
    /\ holder[cgi_backlog[k]] = Cgi!Nobody
    /\ \A j \in DOMAIN cgi_backlog : j # k => cgi_backlog[j] # cgi_backlog[k]

\* What a child holds and has no report of, now or to come, has nothing to tell;
\* and it does not go to wait with a report it has not handled.
AllReported ==
  \A c \in Conns : \A i \in Cgi!Idx :
    holder[c] = i /\ c \notin cgi_cedges[i] /\ c \notin cgi_cevents[i] => inbox[c] = <<>> /\ peer[c] = "open"
HandledFirst == \A i \in Cgi!Idx : at[i] # "test" => cgi_cevents[i] = {}

\* What is still open has not ended its line, and fits.
Unfinished ==
  \A c \in Conns : Len(buf[c]) < BUFFER_SIZE /\ (holder[c] # Cgi!Closed => ~ Cgi!EndsLine(buf[c]))

\* A program was started for a line that named it, by a child that is told of its end.
OwnProgram(c) ==
  cgi[c] # "none" =>
    /\ holder[c] = Cgi!Closed /\ Cgi!Exists(buf[c]) /\ cgi_child[owner[c]] # "none"
    /\ cgi[c] = "zombie" => ~ Cgi!Live(owner[c]) \/ chld[owner[c]]
OwnPrograms == \A c \in Conns : OwnProgram(c)

CgiKept == HeldByLive /\ Queued /\ AllReported /\ HandledFirst /\ Unfinished
CgiInv == CgiTypes /\ ForkedInOrder /\ CgiKept /\ OwnPrograms

LEMMA CgiConstants ==
  /\ PROCESS_COUNT \in Nat /\ PROCESS_COUNT > 0 /\ BUFFER_SIZE \in Nat /\ BUFFER_SIZE > 0 /\ "pipe" \notin Conns
  /\ \A r \in Requests : r \in Text
  /\ Cgi!Nobody \notin Cgi!Idx /\ Cgi!Closed \notin Cgi!Idx /\ Cgi!Nobody # Cgi!Closed
  /\ Cgi!Idx \subseteq Nat /\ \A i \in Cgi!Idx : i < PROCESS_COUNT
  /\ \A i \in Nat : i < PROCESS_COUNT => i \in Cgi!Idx
BY CgiAssumption DEF Cgi!CgiAssumption, Cgi!Idx, Cgi!Nobody, Cgi!Closed, Text

LEMMA CgiSteps == MCSpec => Cgi!Init /\ [][Cgi!Next]_cgiVars
<1>1. MCInit => Cgi!Init
  BY DEF MCInit
<1>2. [MCNext]_<< program, vars, cgiVars, shotVars, lockVars, forkVars, semVars, connectVars >>
        => [Cgi!Next]_cgiVars
  BY DEF MCNext, Keep
<1> QED BY <1>1, <1>2, PTL DEF MCSpec

LEMMA CgiInit == Cgi!Init => CgiInv
<1> SUFFICES ASSUME Cgi!Init PROVE CgiInv
  OBVIOUS
<1>1. <<>> \in Text /\ <<>> \in Seq(Conns) /\ Len(<<>>) = 0 /\ DOMAIN <<>> = {}
  BY DEF Text
<1>2. CgiTypes
  BY <1>1, CgiConstants DEF Cgi!Init, CgiTypes
<1>3. ForkedInOrder
  BY DEF Cgi!Init, ForkedInOrder
<1>4. HeldByLive /\ Queued /\ AllReported /\ HandledFirst
  BY <1>1, CgiConstants DEF Cgi!Init, HeldByLive, Queued, AllReported, HandledFirst
<1>5. Unfinished /\ OwnPrograms
  BY <1>1, CgiConstants DEF Cgi!Init, Unfinished, OwnPrograms, OwnProgram, Cgi!EndsLine
<1> QED BY <1>2, <1>3, <1>4, <1>5 DEF CgiInv, CgiKept

\* Steps of the parent that no child sees.
LEMMA CgiParentAlone ==
  ASSUME CgiInv,
         Cgi!ParentSetup \/ Cgi!SigHandler \/ Cgi!ParentWait \/ Cgi!ParentStop \/ Cgi!ReadSignals
  PROVE  CgiInv'
<1>1. UNCHANGED << cgi_forked, pid, sub_process_counter, cgi_child, at, notices, chld, cgi_cedges, cgi_cevents,
                   cgi_backlog, holder, coming, inbox, buf, peer, cgi, owner >>
  BY DEF Cgi!ParentSetup, Cgi!SigHandler, Cgi!ParentWait, Cgi!ParentStop, Cgi!ReadSignals, Cgi!parentVars,
         Cgi!childVars, Cgi!connVars, Cgi!cgiVars
<1>2. cgi_parent' \in {cgi_parent, "loop", "stopped"}
  BY DEF Cgi!ParentSetup, Cgi!SigHandler, Cgi!ParentWait, Cgi!ParentStop, Cgi!ReadSignals, Cgi!parentVars
<1> QED BY <1>1, <1>2 DEF CgiInv, CgiTypes, ForkedInOrder, CgiKept, HeldByLive, Queued, AllReported, HandledFirst,
         Unfinished, OwnPrograms, OwnProgram, Cgi!Live

\* What the children hold is kept by a step after which whoever does not end has the
\* reports it had.
LEMMA CgiHolds ==
  ASSUME CgiInv, UNCHANGED << cgi_backlog, inbox, buf, peer >>, NEW S,
         \A c \in Conns : holder'[c] = IF holder[c] \in S THEN Cgi!Closed ELSE holder[c],
         Cgi!Nobody \notin S,
         \A i \in Cgi!Idx :
           /\ cgi_child[i] = "loop" /\ i \notin S => cgi_child'[i] = "loop"
           /\ cgi_child[i] = "loop" =>
                (cgi_cedges[i] \cup cgi_cevents[i]) \ {"pipe"} \subseteq cgi_cedges'[i] \cup cgi_cevents'[i]
           /\ at'[i] # "test" => cgi_cevents'[i] = {}
  PROVE  CgiKept'
<1>1. HeldByLive'
  <2> SUFFICES ASSUME NEW c \in Conns, holder'[c] \in Cgi!Idx PROVE cgi_child'[holder'[c]] = "loop"
    BY DEF HeldByLive
  <2>1. holder'[c] = holder[c] /\ holder[c] \notin S
    BY CgiConstants
  <2>2. cgi_child[holder[c]] = "loop"
    BY <2>1 DEF CgiInv, CgiKept, HeldByLive
  <2> QED BY <2>1, <2>2
<1>2. Queued'
  <2>1. \A k \in DOMAIN cgi_backlog : cgi_backlog[k] \in Conns
    BY DEF CgiInv, CgiTypes
  <2> QED BY <2>1, CgiConstants DEF CgiInv, CgiKept, Queued
<1>3. AllReported'
  <2> SUFFICES ASSUME NEW c \in Conns, NEW i \in Cgi!Idx, holder'[c] = i, c \notin cgi_cedges'[i], c \notin cgi_cevents'[i]
               PROVE  inbox[c] = <<>> /\ peer[c] = "open"
    BY DEF AllReported
  <2>1. holder[c] = i /\ cgi_child[i] = "loop" /\ c # "pipe"
    BY CgiConstants DEF CgiInv, CgiKept, HeldByLive
  <2> QED BY <2>1 DEF CgiInv, CgiKept, AllReported
<1>4. HandledFirst' /\ Unfinished'
  BY DEF CgiInv, CgiKept, HandledFirst, Unfinished
<1> QED BY <1>1, <1>2, <1>3, <1>4 DEF CgiKept

\* A program stays what it was.
LEMMA CgiProgramStays ==
  ASSUME CgiInv, NEW c \in Conns, UNCHANGED << cgi[c], owner[c], buf[c] >>,
         holder[c] = Cgi!Closed => holder'[c] = Cgi!Closed,
         \A i \in Cgi!Idx :
           /\ cgi_child[i] # "none" => cgi_child'[i] # "none" /\ (cgi_child'[i] \in {"start", "loop"} => Cgi!Live(i))
           /\ chld[i] => chld'[i]
  PROVE  OwnProgram(c)'
BY DEF CgiInv, CgiTypes, OwnPrograms, OwnProgram, Cgi!Live

LEMMA CgiFork == ASSUME CgiInv, Cgi!Fork \/ Cgi!ForkFails PROVE CgiInv'
<1>1. UNCHANGED << cgi_parent, sub_process_counter, at, notices, chld, cgi_cedges, cgi_cevents, cgi_backlog, holder,
                   coming, inbox, buf, peer, cgi, owner >>
  BY DEF Cgi!Fork, Cgi!ForkFails, Cgi!childVars, Cgi!connVars, Cgi!cgiVars
<1>2. /\ cgi_forked \in Cgi!Idx /\ cgi_forked' = cgi_forked + 1
      /\ pid' = pid \/ pid' = [pid EXCEPT ![cgi_forked] = "some"]
      /\ cgi_child' = cgi_child \/ cgi_child' = [cgi_child EXCEPT ![cgi_forked] = "start"]
  BY DEF Cgi!Fork, Cgi!ForkFails, Cgi!childVars
<1>3. cgi_child[cgi_forked] = "none" /\ \A i \in Cgi!Idx : i # cgi_forked => cgi_child'[i] = cgi_child[i]
  BY <1>2, CgiConstants DEF CgiInv, ForkedInOrder, CgiTypes
<1>4. CgiTypes' /\ ForkedInOrder'
  <2>1. cgi_forked' \in 0 .. PROCESS_COUNT
    BY <1>2, CgiConstants
  <2>2. pid' \in [Cgi!Idx -> {"none", "some"}] /\ cgi_child' \in [Cgi!Idx -> {"none", "start", "loop", "dead", "reaped"}]
    BY <1>2 DEF CgiInv, CgiTypes
  <2>3. ForkedInOrder'
    <3> SUFFICES ASSUME NEW i \in Cgi!Idx, i >= cgi_forked' PROVE cgi_child'[i] = "none"
      BY DEF ForkedInOrder
    <3>1. i >= cgi_forked /\ i # cgi_forked
      BY <1>2, CgiConstants
    <3> QED BY <1>3, <3>1 DEF CgiInv, ForkedInOrder
  <2> QED BY <1>1, <2>1, <2>2, <2>3 DEF CgiInv, CgiTypes
<1>5. CgiKept'
  BY <1>1, <1>3, CgiHolds, CgiConstants DEF CgiInv, CgiKept, HandledFirst
<1>6. OwnPrograms'
  BY <1>1, <1>3, CgiProgramStays DEF OwnPrograms, Cgi!Live
<1> QED BY <1>4, <1>5, <1>6 DEF CgiInv

LEMMA CgiDispatch == ASSUME CgiInv, Cgi!Dispatch PROVE CgiInv'
<1>1. UNCHANGED << cgi_parent, cgi_forked, pid, cgi_child, at, chld, cgi_cevents, cgi_backlog, holder,
                   coming, inbox, buf, peer, cgi, owner >>
  BY DEF Cgi!Dispatch, Cgi!childVars, Cgi!connVars, Cgi!cgiVars
<1>2. sub_process_counter' \in Cgi!Idx
  <2>1. sub_process_counter' = (sub_process_counter + 1) % PROCESS_COUNT
    BY DEF Cgi!Dispatch
  <2> QED BY <2>1, CgiConstants DEF CgiInv, CgiTypes
<1>3. notices' \in [Cgi!Idx -> Nat]
  BY DEF Cgi!Dispatch, CgiInv, CgiTypes
<1>4. /\ cgi_cedges' \in [Cgi!Idx -> SUBSET (Conns \cup {"pipe"})]
      /\ \A i \in Cgi!Idx : cgi_cedges[i] \subseteq cgi_cedges'[i]
  BY DEF Cgi!Dispatch, CgiInv, CgiTypes
<1>5. CgiTypes' /\ ForkedInOrder'
  BY <1>1, <1>2, <1>3, <1>4 DEF CgiInv, CgiTypes, ForkedInOrder
<1>6. CgiKept'
  BY <1>1, <1>4, CgiHolds, CgiConstants DEF CgiInv, CgiKept, HandledFirst
<1>7. OwnPrograms'
  BY <1>1, CgiProgramStays DEF OwnPrograms, Cgi!Live
<1> QED BY <1>5, <1>6, <1>7 DEF CgiInv

\* What Programs does to the programs it ends.
LEMMA CgiEnded ==
  ASSUME CgiInv, NEW S, Cgi!Programs(S), UNCHANGED << owner, buf >>,
         \A c \in Conns : c \in S => cgi[c] = "runs",
         \A c \in Conns : holder[c] = Cgi!Closed => holder'[c] = Cgi!Closed,
         \A i \in Cgi!Idx :
           cgi_child[i] # "none" => cgi_child'[i] # "none" /\ (cgi_child'[i] \in {"start", "loop"} => Cgi!Live(i))
  PROVE  /\ OwnPrograms'
         /\ chld' \in [Cgi!Idx -> BOOLEAN] /\ cgi' \in [Conns -> {"none", "runs", "zombie", "gone"}]
<1>1. /\ cgi' = [c \in Conns |-> IF c \notin S THEN cgi[c] ELSE IF Cgi!Live(owner[c]) THEN "zombie" ELSE "gone"]
      /\ chld' = [i \in Cgi!Idx |-> chld[i] \/ (Cgi!Live(i) /\ \E c \in S : owner[c] = i)]
  BY DEF Cgi!Programs
<1>2. chld' \in [Cgi!Idx -> BOOLEAN] /\ cgi' \in [Conns -> {"none", "runs", "zombie", "gone"}]
  BY <1>1 DEF CgiInv, CgiTypes
<1>3. \A i \in Cgi!Idx : chld[i] => chld'[i]
  BY <1>1
<1>4. ASSUME NEW c \in Conns PROVE OwnProgram(c)'
  <2>1. CASE c \notin S
    BY <1>1, <1>3, <2>1, CgiProgramStays
  <2>2. CASE c \in S
    <3>1. cgi[c] = "runs" /\ owner[c] \in Cgi!Idx
      BY <2>2 DEF CgiInv, CgiTypes
    <3>2. /\ holder[c] = Cgi!Closed /\ Cgi!Exists(buf[c]) /\ cgi_child[owner[c]] # "none"
      BY <3>1 DEF CgiInv, OwnPrograms, OwnProgram
    <3>3. Cgi!Live(owner[c]) => chld'[owner[c]]
      BY <1>1, <2>2, <3>1
    <3> QED BY <3>1, <3>2, <3>3 DEF OwnProgram, Cgi!Live
  <2> QED BY <2>1, <2>2
<1> QED BY <1>2, <1>4 DEF OwnPrograms

LEMMA CgiProgramEnds == ASSUME CgiInv, NEW c \in Conns, Cgi!ProgramEnds(c) PROVE CgiInv'
<1>1. /\ cgi[c] = "runs" /\ Cgi!Programs({c})
      /\ UNCHANGED << cgi_parent, cgi_forked, pid, sub_process_counter, cgi_child, at, notices, cgi_cedges, cgi_cevents,
                      cgi_backlog, holder, coming, inbox, buf, peer, owner >>
  BY DEF Cgi!ProgramEnds, Cgi!parentVars, Cgi!connVars
<1>2. /\ OwnPrograms'
      /\ chld' \in [Cgi!Idx -> BOOLEAN] /\ cgi' \in [Conns -> {"none", "runs", "zombie", "gone"}]
  BY <1>1, CgiEnded DEF Cgi!Live
<1>3. CgiTypes' /\ ForkedInOrder'
  BY <1>1, <1>2 DEF CgiInv, CgiTypes, ForkedInOrder
<1>4. CgiKept'
  BY <1>1, CgiHolds, CgiConstants DEF CgiInv, CgiKept, HandledFirst
<1> QED BY <1>2, <1>3, <1>4 DEF CgiInv

LEMMA CgiWithEof ==
  ASSUME CgiInv, cgi_cedges' = Cgi!WithEof
  PROVE  /\ cgi_cedges' \in [Cgi!Idx -> SUBSET (Conns \cup {"pipe"})]
         /\ \A i \in Cgi!Idx : cgi_cedges[i] \subseteq cgi_cedges'[i]
BY DEF CgiInv, CgiTypes, Cgi!WithEof

LEMMA CgiTerminate == ASSUME CgiInv, Cgi!Terminate PROVE CgiInv'
<1>1. UNCHANGED << cgi_forked, pid, sub_process_counter, cgi_child, at, notices, chld, cgi_cevents, cgi_backlog, holder,
                   coming, inbox, buf, peer, cgi, owner >>
  BY DEF Cgi!Terminate, Cgi!childVars, Cgi!connVars, Cgi!cgiVars
<1>2. cgi_parent' \in {cgi_parent, "killed"} /\ (cgi_cedges' = cgi_cedges \/ cgi_cedges' = Cgi!WithEof)
  BY DEF Cgi!Terminate
<1>3. /\ cgi_cedges' \in [Cgi!Idx -> SUBSET (Conns \cup {"pipe"})]
      /\ \A i \in Cgi!Idx : cgi_cedges[i] \subseteq cgi_cedges'[i]
  BY <1>2, CgiWithEof DEF CgiInv, CgiTypes
<1>4. CgiTypes' /\ ForkedInOrder'
  BY <1>1, <1>2, <1>3 DEF CgiInv, CgiTypes, ForkedInOrder
<1>5. CgiKept'
  BY <1>1, <1>3, CgiHolds, CgiConstants DEF CgiInv, CgiKept, HandledFirst
<1>6. OwnPrograms'
  BY <1>1, CgiProgramStays DEF OwnPrograms, Cgi!Live
<1> QED BY <1>4, <1>5, <1>6 DEF CgiInv

\* Children that end.
LEMMA CgiEnd ==
  ASSUME CgiInv, NEW S \in SUBSET Cgi!Idx, Cgi!ChildrenEnd(S), \A i \in S : cgi_child[i] # "none",
         UNCHANGED << cgi_forked, at, cgi_cevents, cgi_backlog, inbox, buf, peer >>,
         \A i \in Cgi!Idx : cgi_cedges[i] \subseteq cgi_cedges'[i]
  PROVE  /\ cgi_child' \in [Cgi!Idx -> {"none", "start", "loop", "dead", "reaped"}]
         /\ holder' \in [Conns -> Cgi!Idx \cup {Cgi!Nobody, Cgi!Closed}]
         /\ ForkedInOrder' /\ CgiKept'
         /\ \A c \in Conns : holder[c] = Cgi!Closed => holder'[c] = Cgi!Closed
         /\ \A i \in Cgi!Idx :
              cgi_child[i] # "none" => cgi_child'[i] # "none" /\ (cgi_child'[i] \in {"start", "loop"} => Cgi!Live(i))
<1>1. /\ cgi_child' = [i \in Cgi!Idx |-> IF i \in S THEN "dead" ELSE cgi_child[i]]
      /\ holder' = [c \in Conns |-> IF holder[c] \in S THEN Cgi!Closed ELSE holder[c]]
  BY DEF Cgi!ChildrenEnd
<1>2. /\ cgi_child' \in [Cgi!Idx -> {"none", "start", "loop", "dead", "reaped"}]
      /\ holder' \in [Conns -> Cgi!Idx \cup {Cgi!Nobody, Cgi!Closed}]
  BY <1>1 DEF CgiInv, CgiTypes
<1>3. ForkedInOrder'
  BY <1>1 DEF CgiInv, ForkedInOrder
<1>4. CgiKept'
  BY <1>1, CgiHolds, CgiConstants DEF CgiInv, CgiKept, HandledFirst
<1>5. \A c \in Conns : holder[c] = Cgi!Closed => holder'[c] = Cgi!Closed
  BY <1>1
<1>6. \A i \in Cgi!Idx :
        cgi_child[i] # "none" => cgi_child'[i] # "none" /\ (cgi_child'[i] \in {"start", "loop"} => Cgi!Live(i))
  BY <1>1 DEF Cgi!Live
<1> QED BY <1>2, <1>3, <1>4, <1>5, <1>6

LEMMA CgiChildEnds == ASSUME CgiInv, NEW i \in Cgi!Idx, Cgi!Crash(i) \/ Cgi!Exit(i) PROVE CgiInv'
<1>1. /\ Cgi!ChildrenEnd({i}) /\ cgi_cedges' = Cgi!WithEof /\ cgi_child[i] # "none"
      /\ UNCHANGED << cgi_parent, cgi_forked, pid, sub_process_counter, at, notices, chld, cgi_cevents, cgi_backlog,
                      coming, inbox, buf, peer, cgi, owner >>
  BY DEF Cgi!Crash, Cgi!Exit, Cgi!connVars, Cgi!cgiVars, Cgi!Live
<1>2. /\ cgi_cedges' \in [Cgi!Idx -> SUBSET (Conns \cup {"pipe"})]
      /\ \A j \in Cgi!Idx : cgi_cedges[j] \subseteq cgi_cedges'[j]
  BY <1>1, CgiWithEof
<1>3. /\ cgi_child' \in [Cgi!Idx -> {"none", "start", "loop", "dead", "reaped"}]
      /\ holder' \in [Conns -> Cgi!Idx \cup {Cgi!Nobody, Cgi!Closed}]
      /\ ForkedInOrder' /\ CgiKept'
      /\ \A c \in Conns : holder[c] = Cgi!Closed => holder'[c] = Cgi!Closed
      /\ \A j \in Cgi!Idx :
           cgi_child[j] # "none" => cgi_child'[j] # "none" /\ (cgi_child'[j] \in {"start", "loop"} => Cgi!Live(j))
  <2> DEFINE S == {i}
  <2>1. S \in SUBSET Cgi!Idx /\ Cgi!ChildrenEnd(S) /\ \A j \in S : cgi_child[j] # "none"
    BY <1>1
  <2> HIDE DEF S
  <2> QED BY <1>1, <1>2, <2>1, CgiEnd
<1>4. CgiTypes'
  BY <1>1, <1>2, <1>3 DEF CgiInv, CgiTypes
<1>5. OwnPrograms'
  BY <1>1, <1>3, CgiProgramStays DEF OwnPrograms
<1> QED BY <1>3, <1>4, <1>5 DEF CgiInv

LEMMA CgiKillChildren == ASSUME CgiInv, Cgi!KillChildren PROVE CgiInv'
<1> DEFINE S == {i \in Cgi!Idx : Cgi!Told(i) /\ cgi_child[i] = "start"}
           P == IF Cgi!KillsAll THEN {c \in Conns : cgi[c] = "runs"} ELSE {}
<1>1. /\ Cgi!ChildrenEnd(S) /\ Cgi!Programs(P)
      /\ UNCHANGED << cgi_parent, cgi_forked, pid, sub_process_counter, at, notices, cgi_cedges, cgi_cevents,
                      cgi_backlog, coming, inbox, buf, peer, owner >>
  BY DEF Cgi!KillChildren, Cgi!connVars
<1>2. S \in SUBSET Cgi!Idx /\ (\A i \in S : cgi_child[i] # "none") /\ \A c \in Conns : c \in P => cgi[c] = "runs"
  OBVIOUS
<1> HIDE DEF S, P
<1>3. /\ cgi_child' \in [Cgi!Idx -> {"none", "start", "loop", "dead", "reaped"}]
      /\ holder' \in [Conns -> Cgi!Idx \cup {Cgi!Nobody, Cgi!Closed}]
      /\ ForkedInOrder' /\ CgiKept'
      /\ \A c \in Conns : holder[c] = Cgi!Closed => holder'[c] = Cgi!Closed
      /\ \A j \in Cgi!Idx :
           cgi_child[j] # "none" => cgi_child'[j] # "none" /\ (cgi_child'[j] \in {"start", "loop"} => Cgi!Live(j))
  BY <1>1, <1>2, CgiEnd
<1>4. OwnPrograms' /\ chld' \in [Cgi!Idx -> BOOLEAN] /\ cgi' \in [Conns -> {"none", "runs", "zombie", "gone"}]
  BY <1>1, <1>2, <1>3, CgiEnded
<1>5. CgiTypes'
  BY <1>1, <1>3, <1>4 DEF CgiInv, CgiTypes
<1> QED BY <1>3, <1>4, <1>5 DEF CgiInv

LEMMA CgiReap == ASSUME CgiInv, Cgi!Reap PROVE CgiInv'
<1>1. /\ cgi_child' = [i \in Cgi!Idx |-> IF cgi_child[i] = "dead" THEN "reaped" ELSE cgi_child[i]]
      /\ pid' = [i \in Cgi!Idx |-> IF cgi_child[i] = "dead" THEN "none" ELSE pid[i]]
      /\ UNCHANGED << cgi_parent, cgi_forked, sub_process_counter, at, notices, chld, cgi_cedges, cgi_cevents,
                      cgi_backlog, holder, coming, inbox, buf, peer, cgi, owner >>
  BY DEF Cgi!Reap, Cgi!connVars, Cgi!cgiVars
<1>2. CgiTypes' /\ ForkedInOrder'
  BY <1>1 DEF CgiInv, CgiTypes, ForkedInOrder
<1>3. CgiKept'
  BY <1>1, CgiHolds, CgiConstants DEF CgiInv, CgiKept, HandledFirst
<1>4. OwnPrograms'
  BY <1>1, CgiProgramStays DEF OwnPrograms, Cgi!Live
<1> QED BY <1>2, <1>3, <1>4 DEF CgiInv

\* A child that goes round its loop.
LEMMA CgiChildLoops ==
  ASSUME CgiInv, NEW i \in Cgi!Idx,
         Cgi!ChildSetup(i) \/ Cgi!Test(i) \/ Cgi!Blocks(i) \/ Cgi!EpollWait(i) \/ Cgi!TermHandler(i) \/ Cgi!PipeEmpty(i)
  PROVE  CgiInv'
<1>1. UNCHANGED << cgi_parent, cgi_forked, pid, sub_process_counter, notices, chld, cgi_backlog, holder,
                   coming, inbox, buf, peer, cgi, owner >>
  BY DEF Cgi!ChildSetup, Cgi!Test, Cgi!Blocks, Cgi!EpollWait, Cgi!TermHandler, Cgi!PipeEmpty, Cgi!parentVars,
         Cgi!connVars, Cgi!cgiVars
<1>2. /\ cgi_child' = cgi_child \/ (cgi_child[i] = "start" /\ cgi_child' = [cgi_child EXCEPT ![i] = "loop"])
      /\ at' \in [Cgi!Idx -> {"test", "gap", "wait"}]
      /\ cgi_cedges' \in [Cgi!Idx -> SUBSET (Conns \cup {"pipe"})]
      /\ cgi_cevents' \in [Cgi!Idx -> SUBSET (Conns \cup {"pipe"})]
      /\ \A j \in Cgi!Idx :
           /\ at'[j] # "test" => cgi_cevents'[j] = {}
           /\ cgi_child[j] = "loop" =>
                (cgi_cedges[j] \cup cgi_cevents[j]) \ {"pipe"} \subseteq cgi_cedges'[j] \cup cgi_cevents'[j]
  <2>1. CASE Cgi!ChildSetup(i)
    BY <2>1 DEF Cgi!ChildSetup, CgiInv, CgiTypes, CgiKept, HandledFirst
  <2>2. CASE Cgi!Test(i) \/ Cgi!Blocks(i) \/ Cgi!TermHandler(i)
    BY ZenonT(30), <2>2 DEF Cgi!Test, Cgi!Blocks, Cgi!TermHandler, Cgi!Interrupts, CgiInv, CgiTypes, CgiKept, HandledFirst
  <2>3. CASE Cgi!EpollWait(i)
    BY <2>3 DEF Cgi!EpollWait, CgiInv, CgiTypes, CgiKept, HandledFirst
  <2>4. CASE Cgi!PipeEmpty(i)
    BY <2>4 DEF Cgi!PipeEmpty, Cgi!ChildHandles, Cgi!Done, CgiInv, CgiTypes, CgiKept, HandledFirst
  <2> QED BY <2>1, <2>2, <2>3, <2>4
<1>3. CgiTypes' /\ ForkedInOrder'
  BY ZenonT(30), <1>1, <1>2 DEF CgiInv, CgiTypes, ForkedInOrder
<1>4. CgiKept'
  <2>1. \A j \in Cgi!Idx : cgi_child[j] = "loop" => cgi_child'[j] = "loop"
    BY <1>2 DEF CgiInv, CgiTypes
  <2> QED BY <1>1, <1>2, <2>1, CgiHolds, CgiConstants
<1>5. OwnPrograms'
  BY <1>1, <1>2, CgiProgramStays DEF OwnPrograms, Cgi!Live, CgiInv, CgiTypes
<1> QED BY <1>3, <1>4, <1>5 DEF CgiInv

LEMMA CgiChildReaps == ASSUME CgiInv, NEW i \in Cgi!Idx, Cgi!ChildHandler(i) PROVE CgiInv'
<1>1. /\ UNCHANGED << cgi_parent, cgi_forked, pid, sub_process_counter, cgi_child, notices, cgi_cedges, cgi_cevents,
                      cgi_backlog, holder, coming, inbox, buf, peer, owner >>
      /\ chld' = [chld EXCEPT ![i] = FALSE]
      /\ cgi' = [c \in Conns |-> IF cgi[c] = "zombie" /\ owner[c] = i THEN "gone" ELSE cgi[c]]
      /\ at' = [at EXCEPT ![i] = IF @ = "wait" THEN "test" ELSE @]
  BY DEF Cgi!ChildHandler, Cgi!Interrupts, Cgi!parentVars, Cgi!connVars
<1>2. CgiTypes' /\ ForkedInOrder'
  BY <1>1 DEF CgiInv, CgiTypes, ForkedInOrder
<1>3. CgiKept'
  <2>1. \A j \in Cgi!Idx : at'[j] # "test" => cgi_cevents'[j] = {}
    BY <1>1 DEF CgiInv, CgiTypes, CgiKept, HandledFirst
  <2> QED BY <1>1, <2>1, CgiHolds, CgiConstants
<1>4. ASSUME NEW c \in Conns PROVE OwnProgram(c)'
  BY <1>1 DEF CgiInv, CgiTypes, OwnPrograms, OwnProgram, Cgi!Live
<1> QED BY <1>2, <1>3, <1>4 DEF CgiInv, OwnPrograms

\* One accept: what the connection holds already is reported.
LEMMA CgiAccept == ASSUME CgiInv, NEW i \in Cgi!Idx, Cgi!Accept(i) PROVE CgiInv'
<1>1. /\ UNCHANGED << cgi_parent, cgi_forked, pid, sub_process_counter, cgi_child, at, chld,
                      coming, inbox, buf, peer, cgi, owner >>
      /\ cgi_child[i] = "loop" /\ at[i] = "test" /\ notices[i] > 0
      /\ notices' = [notices EXCEPT ![i] = @ - 1] /\ cgi_cevents' = [cgi_cevents EXCEPT ![i] = @ \ {"pipe"}]
  BY DEF Cgi!Accept, Cgi!ChildHandles, Cgi!Done, Cgi!parentVars, Cgi!childVars, Cgi!connVars, Cgi!cgiVars
<1>2. /\ notices' \in [Cgi!Idx -> Nat]
      /\ cgi_cevents' \in [Cgi!Idx -> SUBSET (Conns \cup {"pipe"})]
      /\ \A j \in Cgi!Idx : /\ at'[j] # "test" => cgi_cevents'[j] = {}
                            /\ cgi_cevents[j] \ {"pipe"} \subseteq cgi_cevents'[j]
  BY <1>1 DEF CgiInv, CgiTypes, CgiKept, HandledFirst
<1>3. CASE cgi_backlog = <<>>
  <2>1. UNCHANGED << cgi_backlog, holder, cgi_cedges >>
    BY <1>3 DEF Cgi!Accept
  <2>2. CgiTypes' /\ ForkedInOrder'
    BY <1>1, <1>2, <2>1 DEF CgiInv, CgiTypes, ForkedInOrder
  <2>3. CgiKept'
    BY <1>1, <1>2, <2>1, CgiHolds, CgiConstants
  <2>4. OwnPrograms'
    BY <1>1, <2>1, CgiProgramStays DEF OwnPrograms, Cgi!Live
  <2> QED BY <2>2, <2>3, <2>4 DEF CgiInv
<1>4. CASE cgi_backlog # <<>>
  <2> DEFINE c == Head(cgi_backlog)
  <2>1. /\ cgi_backlog' = Tail(cgi_backlog) /\ holder' = [holder EXCEPT ![c] = i]
        /\ cgi_cedges' = IF inbox[c] # <<>> \/ peer[c] = "closed"
                         THEN [cgi_cedges EXCEPT ![i] = @ \cup {c}] ELSE cgi_cedges
    BY <1>4 DEF Cgi!Accept
  <2>2. /\ cgi_backlog \in Seq(Conns) /\ c \in Conns /\ c = cgi_backlog[1] /\ 1 \in DOMAIN cgi_backlog
        /\ cgi_backlog' \in Seq(Conns)
        /\ \A k \in DOMAIN cgi_backlog' : k + 1 \in DOMAIN cgi_backlog /\ cgi_backlog'[k] = cgi_backlog[k + 1]
                                          /\ k \in Nat /\ k > 0
    <3>1. cgi_backlog \in Seq(Conns)
      BY DEF CgiInv, CgiTypes
    <3> QED BY <1>4, <2>1, <3>1
  <2>3. holder[c] = Cgi!Nobody /\ \A k \in DOMAIN cgi_backlog' : cgi_backlog'[k] # c
    BY <2>2 DEF CgiInv, CgiKept, Queued
  <2>4. CgiTypes' /\ ForkedInOrder'
    BY <1>1, <1>2, <2>1, <2>2 DEF CgiInv, CgiTypes, ForkedInOrder
  <2>5. HeldByLive'
    BY <1>1, <2>1, <2>2 DEF CgiInv, CgiTypes, CgiKept, HeldByLive
  <2>6. Queued'
    <3> SUFFICES ASSUME NEW k \in DOMAIN cgi_backlog'
                 PROVE  /\ holder'[cgi_backlog'[k]] = Cgi!Nobody
                        /\ \A j \in DOMAIN cgi_backlog' : j # k => cgi_backlog'[j] # cgi_backlog'[k]
      BY DEF Queued
    <3>1. cgi_backlog'[k] \in Conns /\ cgi_backlog'[k] = cgi_backlog[k + 1] /\ k + 1 \in DOMAIN cgi_backlog
      BY <2>2
    <3>2. holder'[cgi_backlog'[k]] = Cgi!Nobody
      BY <2>1, <2>3, <3>1 DEF CgiInv, CgiTypes, CgiKept, Queued
    <3>3. ASSUME NEW j \in DOMAIN cgi_backlog', j # k PROVE cgi_backlog'[j] # cgi_backlog'[k]
      <4>1. j + 1 \in DOMAIN cgi_backlog /\ cgi_backlog'[j] = cgi_backlog[j + 1] /\ j + 1 # k + 1
        BY <2>2, <3>3
      <4> QED BY <3>1, <4>1 DEF CgiInv, CgiKept, Queued
    <3> QED BY <3>2, <3>3
  <2>7. AllReported'
    <3> SUFFICES ASSUME NEW d \in Conns, NEW j \in Cgi!Idx, holder'[d] = j, d \notin cgi_cedges'[j], d \notin cgi_cevents'[j]
                 PROVE  inbox[d] = <<>> /\ peer[d] = "open"
      BY <1>1 DEF AllReported
    <3>1. CASE d = c
      <4>1. j = i
        BY <2>1, <2>2, <3>1 DEF CgiInv, CgiTypes
      <4> QED BY <2>1, <2>2, <3>1, <4>1 DEF CgiInv, CgiTypes
    <3>2. CASE d # c
      <4>1. holder[d] = j /\ d \notin cgi_cedges[j] /\ d \notin cgi_cevents[j]
        BY <1>2, <2>1, <2>2, <3>2, CgiConstants DEF CgiInv, CgiTypes
      <4> QED BY <4>1 DEF CgiInv, CgiKept, AllReported
    <3> QED BY <3>1, <3>2
  <2>8. HandledFirst' /\ Unfinished'
    <3>1. \A d \in Conns : holder'[d] # Cgi!Closed => holder[d] # Cgi!Closed
      BY <2>1, <2>3, CgiConstants DEF CgiInv, CgiTypes
    <3> QED BY <1>1, <1>2, <3>1 DEF CgiInv, CgiKept, HandledFirst, Unfinished
  <2>9. OwnPrograms'
    <3>1. \A d \in Conns : holder[d] = Cgi!Closed => holder'[d] = Cgi!Closed
      BY <2>1, <2>3, CgiConstants DEF CgiInv, CgiTypes
    <3> QED BY <1>1, <3>1, CgiProgramStays DEF OwnPrograms, Cgi!Live
  <2> QED BY <2>4, <2>5, <2>6, <2>7, <2>8, <2>9 DEF CgiInv, CgiKept
<1> QED BY <1>3, <1>4

-----------------------------------------------------------------------------
\* The clients: what comes, and the end, is reported to whoever holds the connection.
LEMMA CgiConnect == ASSUME CgiInv, NEW c \in Conns, Cgi!Connect(c) PROVE CgiInv'
<1>1. /\ UNCHANGED << cgi_parent, cgi_forked, pid, sub_process_counter, cgi_child, at, notices, chld, cgi_cedges,
                      cgi_cevents, holder, inbox, buf, cgi, owner >>
      /\ Cgi!New(c) /\ peer' = [peer EXCEPT ![c] = "open"] /\ cgi_backlog' = Append(cgi_backlog, c)
  BY DEF Cgi!Connect, Cgi!parentVars, Cgi!childVars, Cgi!cgiVars
<1>2. coming' \in [Conns -> Text]
  <2>1. PICK r \in Requests : coming' = [coming EXCEPT ![c] = r]
    BY DEF Cgi!Connect
  <2> QED BY <2>1, CgiConstants DEF CgiInv, CgiTypes
<1>3. holder[c] = Cgi!Nobody /\ \A k \in DOMAIN cgi_backlog : cgi_backlog[k] # c
  BY <1>1 DEF Cgi!New
<1>4. cgi_backlog \in Seq(Conns) /\ cgi_backlog' \in Seq(Conns) /\ Len(cgi_backlog') = Len(cgi_backlog) + 1
      /\ (\A k \in DOMAIN cgi_backlog : cgi_backlog'[k] = cgi_backlog[k]) /\ cgi_backlog'[Len(cgi_backlog) + 1] = c
      /\ \A k \in DOMAIN cgi_backlog' : k \in DOMAIN cgi_backlog \/ k = Len(cgi_backlog) + 1
  <2>1. cgi_backlog \in Seq(Conns)
    BY DEF CgiInv, CgiTypes
  <2> QED BY <1>1, <2>1
<1>5. CgiTypes' /\ ForkedInOrder'
  BY <1>1, <1>2, <1>4 DEF CgiInv, CgiTypes, ForkedInOrder
<1>6. Queued'
  <2>1. \A k \in DOMAIN cgi_backlog' : holder[cgi_backlog'[k]] = Cgi!Nobody
    BY <1>3, <1>4 DEF CgiInv, CgiKept, Queued
  <2>2. ASSUME NEW k \in DOMAIN cgi_backlog', NEW j \in DOMAIN cgi_backlog', j # k
        PROVE  cgi_backlog'[j] # cgi_backlog'[k]
    <3>1. CASE k \in DOMAIN cgi_backlog /\ j \in DOMAIN cgi_backlog
      BY <1>4, <2>2, <3>1 DEF CgiInv, CgiKept, Queued
    <3>2. CASE ~ (k \in DOMAIN cgi_backlog /\ j \in DOMAIN cgi_backlog)
      BY <1>3, <1>4, <2>2, <3>2
    <3> QED BY <3>1, <3>2
  <2> QED BY <1>1, <2>1, <2>2 DEF Queued
<1>7. HeldByLive' /\ HandledFirst' /\ Unfinished'
  BY <1>1 DEF CgiInv, CgiKept, HeldByLive, HandledFirst, Unfinished
<1>8. AllReported'
  <2> SUFFICES ASSUME NEW d \in Conns, NEW j \in Cgi!Idx, holder[d] = j, d \notin cgi_cedges[j], d \notin cgi_cevents[j]
               PROVE  inbox[d] = <<>> /\ peer'[d] = "open"
    BY <1>1 DEF AllReported
  <2>1. d # c
    BY <1>3, CgiConstants
  <2> QED BY <1>1, <2>1 DEF CgiInv, CgiTypes, CgiKept, AllReported
<1>9. OwnPrograms'
  BY <1>1, CgiProgramStays DEF OwnPrograms, Cgi!Live
<1> QED BY <1>5, <1>6, <1>7, <1>8, <1>9 DEF CgiInv, CgiKept

LEMMA CgiTells == ASSUME CgiInv, NEW c \in Conns, Cgi!Arrive(c) \/ Cgi!HangUp(c) PROVE CgiInv'
<1>1. /\ UNCHANGED << cgi_parent, cgi_forked, pid, sub_process_counter, cgi_child, at, notices, chld,
                      cgi_cevents, cgi_backlog, holder, buf, cgi, owner >>
      /\ cgi_cedges' = [i \in Cgi!Idx |-> IF holder[c] = i THEN cgi_cedges[i] \cup {c} ELSE cgi_cedges[i]]
  BY DEF Cgi!Arrive, Cgi!HangUp, Cgi!Reported, Cgi!parentVars, Cgi!childVars, Cgi!cgiVars
<1>2. coming' \in [Conns -> Text] /\ inbox' \in [Conns -> Text] /\ peer' \in [Conns -> {"open", "closed"}]
      /\ \A d \in Conns : d # c => inbox'[d] = inbox[d] /\ peer'[d] = peer[d]
  <2>1. CASE Cgi!Arrive(c)
    <3>1. PICK n \in 1 .. Len(coming[c]) :
            /\ inbox' = [inbox EXCEPT ![c] = @ \o SubSeq(coming[c], 1, n)]
            /\ coming' = [coming EXCEPT ![c] = SubSeq(@, n + 1, Len(@))]
      BY <2>1 DEF Cgi!Arrive
    <3>2. coming[c] \in Text /\ inbox[c] \in Text
      BY DEF CgiInv, CgiTypes
    <3>3. SubSeq(coming[c], 1, n) \in Text /\ SubSeq(coming[c], n + 1, Len(coming[c])) \in Text
      BY <3>2 DEF Text
    <3>4. inbox[c] \o SubSeq(coming[c], 1, n) \in Text
      BY <3>2, <3>3 DEF Text
    <3>5. peer' = peer
      BY <2>1 DEF Cgi!Arrive
    <3> QED BY <3>1, <3>3, <3>4, <3>5 DEF CgiInv, CgiTypes
  <2>2. CASE Cgi!HangUp(c)
    BY <2>2 DEF Cgi!HangUp, CgiInv, CgiTypes
  <2> QED BY <2>1, <2>2
<1>3. CgiTypes' /\ ForkedInOrder'
  BY <1>1, <1>2 DEF CgiInv, CgiTypes, ForkedInOrder
<1>4. HeldByLive' /\ Queued' /\ HandledFirst' /\ Unfinished'
  BY <1>1 DEF CgiInv, CgiKept, HeldByLive, Queued, HandledFirst, Unfinished
<1>5. AllReported'
  BY <1>1, <1>2 DEF CgiInv, CgiKept, AllReported
<1>6. OwnPrograms'
  BY <1>1, CgiProgramStays DEF OwnPrograms, Cgi!Live
<1> QED BY <1>3, <1>4, <1>5, <1>6 DEF CgiInv, CgiKept

-----------------------------------------------------------------------------
\* A child reads.
LEMMA CgiReads ==
  ASSUME CgiInv, NEW i \in Cgi!Idx, NEW c \in Conns, Cgi!Reads(i, c)
  PROVE  /\ cgi_child[i] = "loop" /\ at[i] = "test" /\ c \in cgi_cevents[i] /\ holder[c] = i
         /\ buf[c] \in Text /\ Len(buf[c]) < BUFFER_SIZE /\ cgi[c] = "none"
         /\ inbox[c] \in Text /\ c # "pipe"
BY CgiConstants DEF Cgi!Reads, Cgi!ChildHandles, CgiInv, CgiTypes, CgiKept, Unfinished, OwnPrograms, OwnProgram

\* What recv takes goes to the end of the buffer, as far as there is room.
LEMMA CgiTaken ==
  ASSUME CgiInv, NEW i \in Cgi!Idx, NEW c \in Conns, Cgi!Recv(i, c)
  PROVE  /\ Cgi!Reads(i, c) /\ Cgi!Read(c) \in Text /\ Len(Cgi!Read(c)) < BUFFER_SIZE
         /\ buf' = [buf EXCEPT ![c] = Cgi!Read(c)]
         /\ inbox' \in [Conns -> Text] /\ \A d \in Conns : d # c => inbox'[d] = inbox[d]
         /\ UNCHANGED << cgi_parent, cgi_forked, pid, sub_process_counter, notices, cgi_backlog, coming, peer >>
<1>1. /\ Cgi!Reads(i, c) /\ Cgi!Taken(c) > 0 /\ buf' = [buf EXCEPT ![c] = Cgi!Read(c)]
      /\ inbox' = [inbox EXCEPT ![c] = SubSeq(@, Cgi!Taken(c) + 1, Len(@))]
      /\ UNCHANGED << cgi_parent, cgi_forked, pid, sub_process_counter, notices, cgi_backlog, coming, peer >>
  BY DEF Cgi!Recv, Cgi!parentVars
<1>2. buf[c] \in Text /\ inbox[c] \in Text /\ Len(buf[c]) < BUFFER_SIZE
  BY <1>1, CgiReads
<1>3. Len(buf[c]) \in Nat /\ Len(inbox[c]) \in Nat /\ BUFFER_SIZE \in Nat
  BY <1>2, CgiConstants DEF Text
<1>4. Cgi!Taken(c) \in Nat /\ Cgi!Taken(c) <= Len(inbox[c]) /\ Cgi!Taken(c) <= BUFFER_SIZE - 1 - Len(buf[c])
  <2> DEFINE has == Len(buf[c])
             more == Len(inbox[c])
  <2>1. has \in Nat /\ more \in Nat /\ BUFFER_SIZE \in Nat /\ has < BUFFER_SIZE
    BY <1>2, <1>3
  <2>2. Cgi!Taken(c) = IF more <= BUFFER_SIZE - 1 - has THEN more ELSE BUFFER_SIZE - 1 - has
    BY DEF Cgi!Taken, Cgi!Room
  <2> HIDE DEF has, more
  <2>3. Cgi!Taken(c) \in Nat /\ Cgi!Taken(c) <= more /\ Cgi!Taken(c) <= BUFFER_SIZE - 1 - has
    BY <2>1, <2>2
  <2> QED BY <2>3 DEF has, more
<1>5. /\ SubSeq(inbox[c], 1, Cgi!Taken(c)) \in Text /\ Len(SubSeq(inbox[c], 1, Cgi!Taken(c))) = Cgi!Taken(c)
      /\ SubSeq(inbox[c], Cgi!Taken(c) + 1, Len(inbox[c])) \in Text
  BY <1>2, <1>3, <1>4 DEF Text
<1>6. Cgi!Read(c) \in Text /\ Len(Cgi!Read(c)) = Len(buf[c]) + Cgi!Taken(c)
  BY <1>2, <1>5 DEF Text, Cgi!Read
<1>7. Len(Cgi!Read(c)) < BUFFER_SIZE
  <2> DEFINE has == Len(buf[c])
             all == Len(Cgi!Read(c))
             t == Cgi!Taken(c)
  <2>1. has \in Nat /\ BUFFER_SIZE \in Nat /\ t \in Nat /\ t <= BUFFER_SIZE - 1 - has /\ all = has + t
    BY <1>3, <1>4, <1>6
  <2> HIDE DEF has, all, t
  <2>2. all < BUFFER_SIZE
    BY <2>1
  <2> QED BY <2>2 DEF all
<1>8. inbox' \in [Conns -> Text] /\ \A d \in Conns : d # c => inbox'[d] = inbox[d]
  BY <1>1, <1>5 DEF CgiInv, CgiTypes
<1> QED BY <1>1, <1>6, <1>7, <1>8

LEMMA CgiRecvAgain == ASSUME CgiInv, NEW i \in Cgi!Idx, NEW c \in Conns, Cgi!RecvAgain(i, c) PROVE CgiInv'
<1>1. /\ UNCHANGED << cgi_parent, cgi_forked, pid, sub_process_counter, cgi_child, at, notices, chld, cgi_cedges,
                      cgi_backlog, holder, coming, inbox, buf, peer, cgi, owner >>
      /\ inbox[c] = <<>> /\ peer[c] = "open" /\ Cgi!Reads(i, c)
      /\ cgi_cevents' = [cgi_cevents EXCEPT ![i] = @ \ {c}]
  BY DEF Cgi!RecvAgain, Cgi!Done, Cgi!parentVars, Cgi!childVars, Cgi!connVars, Cgi!cgiVars
<1>2. CgiTypes' /\ ForkedInOrder'
  BY <1>1 DEF CgiInv, CgiTypes, ForkedInOrder
<1>3. HeldByLive' /\ Queued' /\ HandledFirst' /\ Unfinished'
  BY <1>1 DEF CgiInv, CgiTypes, CgiKept, HeldByLive, Queued, HandledFirst, Unfinished
<1>4. AllReported'
  BY <1>1 DEF CgiInv, CgiTypes, CgiKept, AllReported
<1>5. OwnPrograms'
  BY <1>1, CgiProgramStays DEF OwnPrograms, Cgi!Live
<1> QED BY <1>2, <1>3, <1>4, <1>5 DEF CgiInv, CgiKept

LEMMA CgiRecvPart == ASSUME CgiInv, NEW i \in Cgi!Idx, NEW c \in Conns, Cgi!RecvPart(i, c) PROVE CgiInv'
<1>1. /\ Cgi!Recv(i, c) /\ ~ Cgi!EndsLine(Cgi!Read(c))
      /\ UNCHANGED << cgi_child, at, chld, cgi_cevents, cgi_cedges, holder, cgi, owner >>
  BY DEF Cgi!RecvPart, Cgi!childVars, Cgi!cgiVars
<1>2. /\ Cgi!Reads(i, c) /\ Cgi!Read(c) \in Text /\ Len(Cgi!Read(c)) < BUFFER_SIZE
      /\ buf' = [buf EXCEPT ![c] = Cgi!Read(c)]
      /\ inbox' \in [Conns -> Text] /\ \A d \in Conns : d # c => inbox'[d] = inbox[d]
      /\ UNCHANGED << cgi_parent, cgi_forked, pid, sub_process_counter, notices, cgi_backlog, coming, peer >>
  BY <1>1, CgiTaken
<1>3. /\ c \in cgi_cevents[i] /\ holder[c] = i /\ cgi[c] = "none"
  BY <1>2, CgiReads
<1>4. CgiTypes' /\ ForkedInOrder'
  BY <1>1, <1>2 DEF CgiInv, CgiTypes, ForkedInOrder
<1>5. HeldByLive' /\ Queued' /\ HandledFirst'
  BY <1>1, <1>2 DEF CgiInv, CgiKept, HeldByLive, Queued, HandledFirst
<1>6. Unfinished'
  <2>1. \A d \in Conns : buf'[d] = IF d = c THEN Cgi!Read(c) ELSE buf[d]
    BY <1>2 DEF CgiInv, CgiTypes
  <2> QED BY <1>1, <1>2, <2>1 DEF CgiInv, CgiKept, Unfinished
<1>7. AllReported'
  BY <1>1, <1>2, <1>3 DEF CgiInv, CgiKept, AllReported
<1>8. ASSUME NEW d \in Conns PROVE OwnProgram(d)'
  <2>1. CASE d = c
    BY <1>1, <1>3, <2>1 DEF OwnProgram
  <2>2. CASE d # c
    <3>1. buf'[d] = buf[d]
      BY <1>2, <2>2 DEF CgiInv, CgiTypes
    <3> QED BY <1>1, <3>1, CgiProgramStays DEF Cgi!Live
  <2> QED BY <2>1, <2>2
<1> QED BY <1>4, <1>5, <1>6, <1>7, <1>8 DEF CgiInv, CgiKept, OwnPrograms

\* A connection that is closed: what its child had of it is gone.
LEMMA CgiClose ==
  ASSUME CgiInv, NEW i \in Cgi!Idx, NEW c \in Conns, Cgi!Reads(i, c), Cgi!Close(i, c),
         UNCHANGED << cgi_parent, cgi_forked, pid, sub_process_counter, cgi_child, at, notices, chld, cgi_backlog,
                      coming, peer >>,
         buf' \in [Conns -> Text], inbox' \in [Conns -> Text], Len(buf'[c]) < BUFFER_SIZE,
         \A d \in Conns : d # c => buf'[d] = buf[d] /\ inbox'[d] = inbox[d] /\ cgi'[d] = cgi[d] /\ owner'[d] = owner[d],
         cgi' \in [Conns -> {"none", "runs", "zombie", "gone"}], owner' \in [Conns -> Cgi!Idx],
         cgi'[c] = "none" \/ (cgi'[c] = "runs" /\ owner'[c] = i /\ Cgi!Exists(buf'[c]))
  PROVE  CgiInv'
<1>1. /\ holder' = [holder EXCEPT ![c] = Cgi!Closed] /\ cgi_cedges' = [cgi_cedges EXCEPT ![i] = @ \ {c}]
      /\ cgi_cevents' = [cgi_cevents EXCEPT ![i] = @ \ {c}]
  BY DEF Cgi!Close, Cgi!Done
<1>2. cgi_child[i] = "loop" /\ at[i] = "test" /\ holder[c] = i
  BY CgiReads
<1>3. CgiTypes' /\ ForkedInOrder'
  BY <1>1 DEF CgiInv, CgiTypes, ForkedInOrder
<1>4. HeldByLive'
  BY <1>1, CgiConstants DEF CgiInv, CgiTypes, CgiKept, HeldByLive
<1>5. Queued'
  <2>1. \A k \in DOMAIN cgi_backlog : cgi_backlog[k] \in Conns
    BY DEF CgiInv, CgiTypes
  <2>2. \A k \in DOMAIN cgi_backlog : cgi_backlog[k] # c
    BY <1>2, CgiConstants DEF CgiInv, CgiKept, Queued
  <2> QED BY <1>1, <2>1, <2>2 DEF CgiInv, CgiTypes, CgiKept, Queued
<1>6. HandledFirst'
  BY <1>1 DEF CgiInv, CgiTypes, CgiKept, HandledFirst
<1>7. Unfinished'
  <2> SUFFICES ASSUME NEW d \in Conns
               PROVE  Len(buf'[d]) < BUFFER_SIZE /\ (holder'[d] # Cgi!Closed => ~ Cgi!EndsLine(buf'[d]))
    BY DEF Unfinished
  <2>1. CASE d = c
    BY <1>1, <2>1 DEF CgiInv, CgiTypes
  <2>2. CASE d # c
    BY <1>1, <2>2 DEF CgiInv, CgiTypes, CgiKept, Unfinished
  <2> QED BY <2>1, <2>2
<1>8. AllReported'
  <2> SUFFICES ASSUME NEW d \in Conns, NEW j \in Cgi!Idx, holder'[d] = j, d \notin cgi_cedges'[j], d \notin cgi_cevents'[j]
               PROVE  inbox'[d] = <<>> /\ peer[d] = "open"
    BY DEF AllReported
  <2>1. d # c
    BY <1>1, CgiConstants DEF CgiInv, CgiTypes
  <2>2. holder[d] = j /\ d \notin cgi_cedges[j] /\ d \notin cgi_cevents[j] /\ inbox'[d] = inbox[d]
    BY <1>1, <2>1 DEF CgiInv, CgiTypes
  <2> QED BY <2>2 DEF CgiInv, CgiKept, AllReported
<1>9. ASSUME NEW d \in Conns PROVE OwnProgram(d)'
  <2>1. CASE d = c
    <3>1. holder'[c] = Cgi!Closed
      BY <1>1 DEF CgiInv, CgiTypes
    <3> QED BY <1>2, <2>1, <3>1 DEF OwnProgram
  <2>2. CASE d # c
    <3>1. holder'[d] = holder[d]
      BY <1>1, <2>2 DEF CgiInv, CgiTypes
    <3> QED BY <2>2, <3>1, CgiProgramStays DEF Cgi!Live
  <2> QED BY <2>1, <2>2
<1> QED BY <1>3, <1>4, <1>5, <1>6, <1>7, <1>8, <1>9 DEF CgiInv, CgiKept, OwnPrograms

LEMMA CgiReadCloses ==
  ASSUME CgiInv, NEW i \in Cgi!Idx, NEW c \in Conns,
         Cgi!RecvNothing(i, c) \/ Cgi!RecvGhost(i, c) \/ Cgi!RecvName(i, c) \/ Cgi!RecvForkFails(i, c)
  PROVE  CgiInv'
<1>1. CASE Cgi!RecvNothing(i, c)
  <2>1. /\ Cgi!Reads(i, c) /\ Cgi!Close(i, c)
        /\ UNCHANGED << cgi_parent, cgi_forked, pid, sub_process_counter, cgi_child, at, notices, chld, cgi_backlog,
                        coming, inbox, buf, peer, cgi, owner >>
    BY <1>1 DEF Cgi!RecvNothing, Cgi!parentVars, Cgi!childVars, Cgi!connVars, Cgi!cgiVars
  <2>2. cgi[c] = "none" /\ Len(buf[c]) < BUFFER_SIZE
    BY <2>1, CgiReads
  <2>3. /\ buf' \in [Conns -> Text] /\ inbox' \in [Conns -> Text] /\ owner' \in [Conns -> Cgi!Idx]
        /\ cgi' \in [Conns -> {"none", "runs", "zombie", "gone"}]
        /\ cgi'[c] = "none" /\ Len(buf'[c]) < BUFFER_SIZE
    BY <2>1, <2>2 DEF CgiInv, CgiTypes
  <2>4. \A d \in Conns : d # c => buf'[d] = buf[d] /\ inbox'[d] = inbox[d] /\ cgi'[d] = cgi[d] /\ owner'[d] = owner[d]
    BY <2>1
  <2>5. UNCHANGED << cgi_parent, cgi_forked, pid, sub_process_counter, cgi_child, at, notices, chld, cgi_backlog,
                     coming, peer >>
    BY <2>1
  <2> QED BY <2>1, <2>3, <2>4, <2>5, CgiClose
<1>2. CASE Cgi!RecvGhost(i, c) \/ Cgi!RecvName(i, c) \/ Cgi!RecvForkFails(i, c)
  <2>1. /\ Cgi!Recv(i, c) /\ Cgi!Close(i, c) /\ UNCHANGED << cgi_child, at, chld >>
        /\ \/ UNCHANGED << cgi, owner >>
           \/ /\ Cgi!Exists(Cgi!Read(c))
              /\ cgi' = [cgi EXCEPT ![c] = "runs"] /\ owner' = [owner EXCEPT ![c] = i]
    BY <1>2 DEF Cgi!RecvGhost, Cgi!RecvName, Cgi!RecvForkFails, Cgi!childVars, Cgi!cgiVars
  <2>2. /\ Cgi!Reads(i, c) /\ Cgi!Read(c) \in Text /\ Len(Cgi!Read(c)) < BUFFER_SIZE
        /\ buf' = [buf EXCEPT ![c] = Cgi!Read(c)]
        /\ inbox' \in [Conns -> Text] /\ \A d \in Conns : d # c => inbox'[d] = inbox[d]
        /\ UNCHANGED << cgi_parent, cgi_forked, pid, sub_process_counter, notices, cgi_backlog, coming, peer >>
    BY <2>1, CgiTaken
  <2>3. buf' \in [Conns -> Text] /\ buf'[c] = Cgi!Read(c) /\ \A d \in Conns : d # c => buf'[d] = buf[d]
    BY <2>2 DEF CgiInv, CgiTypes
  <2>4. cgi[c] = "none"
    BY <2>2, CgiReads
  <2>5. /\ cgi' \in [Conns -> {"none", "runs", "zombie", "gone"}] /\ owner' \in [Conns -> Cgi!Idx]
        /\ \A d \in Conns : d # c => cgi'[d] = cgi[d] /\ owner'[d] = owner[d]
        /\ cgi'[c] = "none" \/ (cgi'[c] = "runs" /\ owner'[c] = i /\ Cgi!Exists(buf'[c]))
    <3>1. cgi \in [Conns -> {"none", "runs", "zombie", "gone"}] /\ owner \in [Conns -> Cgi!Idx]
      BY DEF CgiInv, CgiTypes
    <3>2. CASE UNCHANGED << cgi, owner >>
      BY <2>4, <3>1, <3>2
    <3>3. CASE /\ Cgi!Exists(Cgi!Read(c))
               /\ cgi' = [cgi EXCEPT ![c] = "runs"] /\ owner' = [owner EXCEPT ![c] = i]
      <4>1. cgi'[c] = "runs" /\ owner'[c] = i
        BY <3>1, <3>3
      <4>2. Cgi!Exists(buf'[c])
        BY <2>3, <3>3
      <4> QED BY <3>1, <3>3, <4>1, <4>2
    <3> QED BY <2>1, <3>2, <3>3
  <2>6. Len(buf'[c]) < BUFFER_SIZE
    BY <2>2, <2>3
  <2> QED BY <2>1, <2>2, <2>3, <2>5, <2>6, CgiClose
<1> QED BY <1>1, <1>2

-----------------------------------------------------------------------------
LEMMA CgiNext == ASSUME CgiInv, [Cgi!Next]_cgiVars PROVE CgiInv'
<1>1. CASE UNCHANGED cgiVars
  BY <1>1 DEF cgiVars, CgiInv, CgiTypes, ForkedInOrder, CgiKept, HeldByLive, Queued, AllReported, HandledFirst,
              Unfinished, OwnPrograms, OwnProgram, Cgi!Live
<1>2. CASE Cgi!World
  BY <1>2, CgiTerminate, CgiConnect, CgiTells, CgiProgramEnds DEF Cgi!World
<1>3. CASE Cgi!ParentStep
  BY <1>3, CgiFork, CgiParentAlone, CgiDispatch, CgiReap, CgiKillChildren DEF Cgi!ParentStep
<1>4. ASSUME NEW i \in Cgi!Idx, Cgi!ChildStep(i) \/ Cgi!Crash(i) PROVE CgiInv'
  <2>1. ASSUME NEW c \in Conns, Cgi!ReadStep(i, c) PROVE CgiInv'
    BY <2>1, CgiRecvAgain, CgiRecvPart, CgiReadCloses DEF Cgi!ReadStep
  <2> QED BY <1>4, <2>1, CgiChildLoops, CgiChildReaps, CgiChildEnds, CgiAccept DEF Cgi!ChildStep
<1> QED BY <1>1, <1>2, <1>3, <1>4 DEF Cgi!Next

THEOREM CgiInvariant == MCSpec => []CgiInv
<1> QED BY CgiInit, CgiNext, CgiSteps, PTL

\* A child of PoolCgi waits with nothing unread that no report will lead it to, and
\* with no line or connection ended (NothingLeftUnread).
THEOREM EveryReportIsReadOut == MCSpec => []NothingLeftUnread
<1>1. CgiInv => NothingLeftUnread
  BY DEF CgiInv, CgiKept, AllReported, HandledFirst, Unfinished, NothingLeftUnread, Cgi!NothingLeftUnread,
         Cgi!Idx, Cgi!Closed
<1> QED BY <1>1, CgiInvariant, PTL

-----------------------------------------------------------------------------
(* ProcessPool                                                              *)

PoolInv == TypeOK /\ m_pid \in [Idx -> Int]

LEMMA PoolSteps == MCSpec => Init /\ [][Next]_vars
<1>1. MCInit => Init
  BY DEF MCInit
<1>2. [MCNext]_<< program, vars, cgiVars, shotVars, lockVars, forkVars, semVars, connectVars >> => [Next]_vars
  BY DEF MCNext, Keep
<1> QED BY <1>1, <1>2, PTL DEF MCSpec

LEMMA PoolConstants ==
  /\ m_process_number \in Nat /\ m_process_number > 0 /\ MaxConns \in Nat /\ MaxTerms \in Nat /\ MaxCrashes \in Nat
  /\ Idx \subseteq Nat /\ 0 \in Idx /\ NoPid \in Int /\ \A i \in Idx : Pid(i) \in Int /\ i + 1 <= m_process_number
BY NumberAssumption, BoundsAssumption DEF Idx, NoPid, Pid

LEMMA PoolInit == Init => PoolInv
<1> SUFFICES ASSUME Init PROVE PoolInv
  OBVIOUS
<1>1. <<>> \in Seq({"CHLD", "TERM"})
  OBVIOUS
<1>2. /\ sigpipe \in Seq({"CHLD", "TERM"}) /\ signals \in Seq({"CHLD", "TERM"})
  BY <1>1 DEF Init
<1> QED BY <1>2, PoolConstants DEF Init, PoolInv, TypeOK

LEMMA PoolSignals ==
  ASSUME PoolInv
  PROVE  /\ \A s \in {"CHLD", "TERM"} : Append(sigpipe, s) \in Seq({"CHLD", "TERM"})
         /\ signals # <<>> => Head(signals) \in {"CHLD", "TERM"} /\ Tail(signals) \in Seq({"CHLD", "TERM"})
         /\ <<>> \in Seq({"CHLD", "TERM"})
<1>1. sigpipe \in Seq({"CHLD", "TERM"}) /\ signals \in Seq({"CHLD", "TERM"})
  BY DEF PoolInv, TypeOK
<1> QED BY <1>1

LEMMA PoolWorld ==
  ASSUME PoolInv, Connect \/ Terminate \/ \E i \in Idx : Crash(i)
  PROVE  PoolInv'
<1>1. CASE Connect
  <2>1. /\ UNCHANGED << parent, forked, m_pid, counter, m_stop, events, signals, signalVars, childVars, pipe, cedges,
                       terms, crashes >>
        /\ arrived < MaxConns /\ arrived' = arrived + 1 /\ backlog' = backlog + 1
    BY <1>1 DEF Connect, parentVars
  <2>2. edges' \subseteq {"listen", "sig"}
    BY <1>1 DEF PoolInv, TypeOK, Connect
  <2>3. arrived' \in 0 .. MaxConns /\ backlog' \in Nat
    BY <2>1, PoolConstants DEF PoolInv, TypeOK
  <2> QED BY <2>1, <2>2, <2>3 DEF PoolInv, TypeOK, signalVars, childVars
<1>2. CASE Terminate
  <2>1. /\ UNCHANGED << forked, m_pid, counter, m_stop, events, signals, sigpipe, childVars, pipe, edges, backlog,
                       arrived, crashes >>
        /\ terms < MaxTerms /\ terms' = terms + 1
    BY <1>2 DEF Terminate
  <2>2. parent' \in {parent, "killed"} /\ pending' \subseteq pending \cup {"TERM"}
    BY <1>2 DEF Terminate
  <2>3. cedges' \in [Idx -> SUBSET {"pipe", "sig"}]
    <3>1. cedges' = cedges \/ cedges' = [i \in Idx |-> IF i \in Orphans(parent', child)
                                                    THEN cedges[i] \cup {"pipe"} ELSE cedges[i]]
      BY <1>2 DEF Terminate
    <3>2. cedges \in [Idx -> SUBSET {"pipe", "sig"}]
      BY DEF PoolInv, TypeOK
    <3>3. \A i \in Idx : cedges[i] \subseteq {"pipe", "sig"} /\ cedges[i] \cup {"pipe"} \subseteq {"pipe", "sig"}
      BY <3>2
    <3> QED BY <3>1, <3>2, <3>3
  <2>4. terms' \in 0 .. MaxTerms
    BY <2>1, PoolConstants DEF PoolInv, TypeOK
  <2> QED BY <2>1, <2>2, <2>3, <2>4 DEF PoolInv, TypeOK, childVars
<1>3. ASSUME NEW i \in Idx, Crash(i) PROVE PoolInv'
  <2>1. /\ UNCHANGED << parentVars, sigpipe, csig, cevents, cstop, pipe, edges, backlog, arrived, terms >>
        /\ crashes < MaxCrashes /\ crashes' = crashes + 1 /\ pending' \subseteq pending \cup {"CHLD"}
        /\ child' = [child EXCEPT ![i] = "dead"]
    BY <1>3 DEF Crash, SigChld
  <2>2. cedges' \in [Idx -> SUBSET {"pipe", "sig"}]
    BY <1>3 DEF Crash, PoolInv, TypeOK
  <2>3. child' \in [Idx -> {"none", "start", "loop", "dead", "reaped"}]
    BY <2>1 DEF PoolInv, TypeOK
  <2>4. crashes' \in 0 .. MaxCrashes
    BY <2>1, PoolConstants DEF PoolInv, TypeOK
  <2> QED BY <2>1, <2>2, <2>3, <2>4 DEF PoolInv, TypeOK, parentVars
<1> QED BY <1>1, <1>2, <1>3

LEMMA PoolParent == ASSUME PoolInv, ParentStep PROVE PoolInv'
<1>1. CASE Fork
  <2>1. /\ UNCHANGED << parent, counter, m_stop, events, signals, signalVars, csig, cevents, cstop, pipe, edges,
                       cedges, backlog, worldVars >>
        /\ forked \in Idx /\ forked' = forked + 1 /\ child' = [child EXCEPT ![forked] = "start"]
        /\ m_pid' = [m_pid EXCEPT ![forked] = Pid(forked)]
    BY <1>1 DEF Fork
  <2>2. forked' \in 0 .. m_process_number
    BY <2>1, PoolConstants
  <2>3. child' \in [Idx -> {"none", "start", "loop", "dead", "reaped"}]
    BY <2>1 DEF PoolInv, TypeOK
  <2>4. m_pid' \in [Idx -> Int] /\ \A i \in Idx : m_pid'[i] \in {NoPid, Pid(i)}
    BY <2>1, PoolConstants DEF PoolInv, TypeOK
  <2> QED BY <2>1, <2>2, <2>3, <2>4 DEF PoolInv, TypeOK, signalVars, worldVars
<1>2. CASE ParentSetup \/ ParentWait \/ ParentStop
  BY <1>2, PoolConstants DEF PoolInv, TypeOK, ParentSetup, ParentWait, ParentStop, signalVars, childVars, worldVars
<1>3. CASE ParentHandler
  BY <1>3, PoolSignals DEF PoolInv, TypeOK, ParentHandler, parentVars, childVars, worldVars
<1>4. CASE Dispatch
  <2>1. PICK i \in Idx :
          /\ counter' = After(i) /\ pipe' = IF Live(i) THEN [pipe EXCEPT ![i] = @ + 1] ELSE pipe
          /\ cedges' = IF child[i] = "loop" THEN [cedges EXCEPT ![i] = @ \cup {"pipe"}] ELSE cedges
    BY <1>4 DEF Dispatch
  <2>2. After(i) \in Idx
    <3>1. i + 1 \in Nat /\ m_process_number \in Nat /\ m_process_number > 0
      BY PoolConstants
    <3> QED BY <3>1 DEF After, Idx
  <2>3. pipe' \in [Idx -> Nat] /\ cedges' \in [Idx -> SUBSET {"pipe", "sig"}]
    BY <2>1 DEF PoolInv, TypeOK
  <2>4. /\ events' = events \ {"listen"}
        /\ UNCHANGED << parent, forked, m_pid, m_stop, signals, signalVars, childVars, edges, backlog, worldVars >>
    BY <1>4 DEF Dispatch
  <2> QED BY <2>1, <2>2, <2>3, <2>4 DEF PoolInv, TypeOK, signalVars, childVars, worldVars
<1>5. CASE DispatchNobody
  BY <1>5 DEF PoolInv, TypeOK, DispatchNobody, signalVars, childVars, worldVars
<1>6. CASE ReadSignals
  BY <1>6, PoolSignals DEF PoolInv, TypeOK, ReadSignals, childVars, worldVars
<1>7. CASE Reap
  BY <1>7, PoolSignals, PoolConstants DEF PoolInv, TypeOK, Reap, Handling, signalVars, worldVars
<1>8. CASE KillChildren
  BY <1>8, PoolSignals DEF PoolInv, TypeOK, KillChildren, Handling, SigChld, worldVars
<1> QED BY <1>1, <1>2, <1>3, <1>4, <1>5, <1>6, <1>7, <1>8 DEF ParentStep

LEMMA PoolChild == ASSUME PoolInv, NEW i \in Idx, ChildStep(i) PROVE PoolInv'
<1>1. CASE ChildSetup(i)
  BY <1>1 DEF PoolInv, TypeOK, ChildSetup, parentVars, signalVars, worldVars
<1>2. CASE ChildHandler(i) \/ ChildWait(i)
  <2>1. UNCHANGED << parentVars, signalVars, child, cstop, pipe, edges, backlog, worldVars >>
    BY <1>2 DEF ChildHandler, ChildWait
  <2>2. csig' \in [Idx -> {"none", "pending", "byte"}]
    BY ZenonT(30), <1>2 DEF ChildHandler, ChildWait, PoolInv, TypeOK
  <2>3. cedges' \in [Idx -> SUBSET {"pipe", "sig"}] /\ cevents' \in [Idx -> SUBSET {"pipe", "sig"}]
    <3>1. cedges \in [Idx -> SUBSET {"pipe", "sig"}] /\ cevents \in [Idx -> SUBSET {"pipe", "sig"}]
      BY DEF PoolInv, TypeOK
    <3>2. CASE ChildHandler(i)
      <4>1. cedges[i] \cup {"sig"} \in SUBSET {"pipe", "sig"}
        BY <3>1
      <4> QED BY <3>1, <3>2, <4>1 DEF ChildHandler
    <3>3. CASE ChildWait(i)
      BY <3>1, <3>3 DEF ChildWait
    <3> QED BY <1>2, <3>2, <3>3
  <2> QED BY <2>1, <2>2, <2>3 DEF PoolInv, TypeOK, parentVars, signalVars, worldVars
<1>3. CASE ChildAccept(i)
  <2>1. /\ UNCHANGED << parentVars, signalVars, child, csig, cstop, edges, cedges, worldVars >>
        /\ cevents' = [cevents EXCEPT ![i] = @ \ {"pipe"}] /\ pipe[i] > 0 /\ pipe' = [pipe EXCEPT ![i] = @ - 1]
        /\ backlog' = IF backlog > 0 THEN backlog - 1 ELSE backlog
    BY <1>3 DEF ChildAccept, ChildHandles
  <2>2. cevents' \in [Idx -> SUBSET {"pipe", "sig"}] /\ pipe' \in [Idx -> Nat] /\ backlog' \in Nat
    BY <2>1 DEF PoolInv, TypeOK
  <2> QED BY <2>1, <2>2 DEF PoolInv, TypeOK, parentVars, signalVars, worldVars
<1>4. CASE ChildEof(i) \/ ChildSignal(i)
  <2>1. UNCHANGED << parentVars, signalVars, child, pipe, edges, cedges, backlog, worldVars >>
    BY <1>4 DEF ChildEof, ChildSignal
  <2>2. \E x \in {"pipe", "sig"} : cevents' = [cevents EXCEPT ![i] = @ \ {x}]
    BY <1>4 DEF ChildEof, ChildSignal, ChildHandles
  <2>3. cevents' \in [Idx -> SUBSET {"pipe", "sig"}]
    BY <2>2 DEF PoolInv, TypeOK
  <2>4. cstop' \in [Idx -> BOOLEAN] /\ csig' \in [Idx -> {"none", "pending", "byte"}]
    BY <1>4 DEF ChildEof, ChildSignal, PoolInv, TypeOK
  <2> QED BY <2>1, <2>3, <2>4 DEF PoolInv, TypeOK, parentVars, signalVars, worldVars
<1>5. CASE ChildExit(i)
  BY <1>5 DEF PoolInv, TypeOK, ChildExit, SigChld, parentVars, worldVars
<1> QED BY <1>1, <1>2, <1>3, <1>4, <1>5 DEF ChildStep

THEOREM PoolInvariant == MCSpec => []PoolInv
<1>1. ASSUME PoolInv, UNCHANGED vars PROVE PoolInv'
  BY <1>1 DEF PoolInv, TypeOK, vars, parentVars, signalVars, childVars, worldVars
<1>2. PoolInv /\ [Next]_vars => PoolInv'
  BY <1>1, PoolWorld, PoolParent, PoolChild DEF Next
<1> QED BY <1>2, PoolInit, PoolSteps, PTL

-----------------------------------------------------------------------------
(* What the processes of a pool add up to.                                  *)

LEMMA SumNat ==
  ASSUME NEW D, IsFiniteSet(D), NEW f \in [D -> Nat]
  PROVE  SumFunction(f) \in Nat /\ \A i \in D : f[i] <= SumFunction(f)
<1>1. Summable(f) /\ DOMAIN f = D /\ \A x \in DOMAIN f : f[x] >= 0
  BY DEF Summable
<1> QED BY <1>1, SumCovers

LEMMA SumUp ==
  ASSUME NEW D, IsFiniteSet(D), NEW f \in [D -> Nat], NEW h \in [D -> Nat], \A i \in D : f[i] <= h[i]
  PROVE  SumFunction(f) <= SumFunction(h)
<1>1. Summable(f) /\ Summable(h) /\ DOMAIN f = D /\ DOMAIN h = D
  BY DEF Summable
<1> QED BY <1>1, SumGrows

LEMMA SumAt ==
  ASSUME NEW D, IsFiniteSet(D), NEW f \in [D -> Nat], NEW h \in [D -> Nat], NEW i \in D,
         \A x \in D : x # i => h[x] = f[x]
  PROVE  SumFunction(h) = SumFunction(f) + h[i] - f[i]
<1>1. Summable(f) /\ Summable(h) /\ DOMAIN f = D /\ DOMAIN h = D
  BY DEF Summable
<1> QED BY <1>1, SumChanges

-----------------------------------------------------------------------------
(* ProcessPool: notifications and connections                               *)

\* The table of pids holds those that have been forked and not reaped.
PidsMatch == \A i \in Idx : m_pid[i] # NoPid <=> child[i] \in {"start", "loop", "dead"}

\* Nobody is notified before the last fork, and the parent stops behind the last child.
InOrder ==
  /\ \A i \in Idx : child[i] = "none" => i >= forked
  /\ parent = "fork" => edges = {} /\ events = {} /\ \A i \in Idx : pipe[i] = 0
  /\ parent \in {"loop", "stopped"} => forked = m_process_number
  /\ m_stop => parent \in {"loop", "stopped"} /\ \A i \in Idx : m_pid[i] = NoPid
  /\ parent = "stopped" => m_stop

PoolBooks == PidsMatch /\ InOrder

LEMMA PoolBooksInit == Init => PoolBooks
BY PoolConstants DEF Init, PoolBooks, PidsMatch, InOrder

LEMMA PoolBooksNext ==
  ASSUME PoolInv, PoolBooks, [Next]_vars
  PROVE  PoolBooks'
<1> USE DEF PoolBooks, PidsMatch, InOrder
<1>1. CASE UNCHANGED vars
  BY <1>1 DEF vars, parentVars, childVars
<1>2. CASE Fork
  <2>1. /\ UNCHANGED << parent, m_stop, events, pipe, edges >> /\ parent = "fork"
        /\ forked \in Idx /\ forked' = forked + 1 /\ child' = [child EXCEPT ![forked] = "start"]
        /\ m_pid' = [m_pid EXCEPT ![forked] = Pid(forked)]
    BY <1>2 DEF Fork
  <2>2. Pid(forked) # NoPid
    BY <2>1, PoolConstants DEF Pid, NoPid
  <2>3. \A i \in Idx : i >= forked /\ i # forked => i >= forked'
    BY <2>1, PoolConstants
  <2>4. \A i \in Idx : child'[i] = (IF i = forked THEN "start" ELSE child[i])
                       /\ m_pid'[i] = (IF i = forked THEN Pid(forked) ELSE m_pid[i])
    BY <2>1 DEF PoolInv, TypeOK
  <2> QED BY <2>1, <2>2, <2>3, <2>4
<1>3. CASE ParentSetup \/ ParentWait \/ ParentStop \/ ParentHandler \/ DispatchNobody \/ ReadSignals \/ Connect
  BY <1>3 DEF ParentSetup, ParentWait, ParentStop, ParentHandler, DispatchNobody, ReadSignals, Connect, Handles,
              parentVars, childVars
<1>4. CASE Dispatch
  BY <1>4 DEF Dispatch, Handles, childVars
<1>5. CASE Terminate
  BY <1>5 DEF Terminate, childVars
<1>6. CASE Reap
  <2>1. /\ parent = "loop" /\ UNCHANGED << parent, forked, events, pipe, edges >>
        /\ child' = [i \in Idx |-> IF i \in Dead THEN "reaped" ELSE child[i]]
        /\ m_pid' = [i \in Idx |-> IF i \in Dead THEN NoPid ELSE m_pid[i]]
        /\ m_stop' = \A i \in Idx : m_pid'[i] = NoPid
    BY <1>6 DEF Reap, Handling
  <2>2. \A i \in Idx : child'[i] # "none" \/ child[i] = "none"
    BY <2>1
  <2>3. PidsMatch'
    BY <2>1 DEF Dead
  <2> QED BY <2>1, <2>2, <2>3
<1>7. ASSUME NEW S \in SUBSET Idx, child' = [i \in Idx |-> IF i \in S THEN "dead" ELSE child[i]],
             \A i \in S : child[i] \in {"start", "loop"}, UNCHANGED << parent, m_pid, forked, m_stop, events, pipe, edges >>
      PROVE  PoolBooks'
  BY <1>7
<1>8. CASE KillChildren
  <2>1. child' = [i \in Idx |-> IF i \in {j \in Idx : m_pid[j] # NoPid /\ child[j] = "start"} THEN "dead" ELSE child[i]]
        /\ UNCHANGED << parent, m_pid, forked, m_stop, events, pipe, edges >>
    BY <1>8 DEF KillChildren
  <2> QED BY <1>7, <2>1
<1>9. ASSUME NEW i \in Idx, Crash(i) \/ ChildExit(i) PROVE PoolBooks'
  <2>1. /\ child' = [child EXCEPT ![i] = "dead"] /\ child[i] \in {"start", "loop"}
        /\ UNCHANGED << parent, m_pid, forked, m_stop, events, pipe, edges >>
    BY <1>9 DEF Crash, ChildExit, Live, parentVars
  <2>2. child' = [j \in Idx |-> IF j \in {i} THEN "dead" ELSE child[j]]
    BY <2>1 DEF PoolInv, TypeOK
  <2> QED BY <1>7, <2>1, <2>2
<1>10. ASSUME NEW i \in Idx, ChildSetup(i) PROVE PoolBooks'
  <2>1. /\ child[i] = "start" /\ child' = [child EXCEPT ![i] = "loop"]
        /\ UNCHANGED << parent, m_pid, forked, m_stop, events, pipe, edges >>
    BY <1>10 DEF ChildSetup, parentVars
  <2>2. \A j \in Idx : child'[j] = IF j = i THEN "loop" ELSE child[j]
    BY <2>1 DEF PoolInv, TypeOK
  <2> QED BY <2>1, <2>2
<1>11. ASSUME NEW i \in Idx, ChildHandler(i) \/ ChildWait(i) \/ ChildEof(i) \/ ChildSignal(i) PROVE PoolBooks'
  BY <1>11 DEF ChildHandler, ChildWait, ChildEof, ChildSignal, parentVars
<1>12. ASSUME NEW i \in Idx, ChildAccept(i) PROVE PoolBooks'
  <2>1. parent # "fork" /\ UNCHANGED << parentVars, child, edges >>
    BY <1>12 DEF ChildAccept, PoolInv, TypeOK
  <2> QED BY <2>1 DEF parentVars
<1> QED BY <1>1, <1>2, <1>3, <1>4, <1>5, <1>6, <1>8, <1>9, <1>10, <1>11, <1>12 DEF Next, ParentStep, ChildStep

LEMMA PoolSums ==
  /\ IsFiniteSet(Idx)
  /\ PoolInv  => Notified \in [Idx -> Nat] /\ Reports \in [Idx -> Nat] /\ AtParent \in Nat /\ backlog \in Nat
  /\ PoolInv' => Notified' \in [Idx -> Nat] /\ Reports' \in [Idx -> Nat] /\ AtParent' \in Nat /\ backlog' \in Nat
<1>1. IsFiniteSet(Idx)
  BY PoolConstants, FS_Interval DEF Idx
<1>2. ASSUME PoolInv PROVE Notified \in [Idx -> Nat] /\ Reports \in [Idx -> Nat] /\ AtParent \in Nat /\ backlog \in Nat
  <2>1. Notified \in [Idx -> Nat] /\ backlog \in Nat
    BY <1>2 DEF PoolInv, TypeOK, Notified
  <2>2. AtParent \in Nat /\ \A i \in Idx : Told(i) \in Nat
    BY DEF AtParent, One, Told
  <2>3. Reports \in [Idx -> Nat]
    BY <2>1, <2>2 DEF Reports
  <2> QED BY <2>1, <2>2, <2>3
<1>3. ASSUME PoolInv' PROVE Notified' \in [Idx -> Nat] /\ Reports' \in [Idx -> Nat] /\ AtParent' \in Nat /\ backlog' \in Nat
  <2>1. Notified' \in [Idx -> Nat] /\ backlog' \in Nat
    BY <1>3 DEF PoolInv, TypeOK, Notified, Live
  <2>2. AtParent' \in Nat /\ \A i \in Idx : Told(i)' \in Nat
    BY DEF AtParent, One, Told
  <2>3. Reports' \in [Idx -> Nat]
    BY <2>1, <2>2 DEF Reports
  <2> QED BY <2>1, <2>2, <2>3
<1> QED BY <1>1, <1>2, <1>3

\* Why a step may pass over a connection.
Excused ==
  \/ parent # "loop"
  \/ backlog' > backlog /\ "listen" \in edges
  \/ \E i \in Idx : pipe'[i] > pipe[i] /\ ("pipe" \in cedges[i] \/ child[i] = "start")
  \/ \E i \in Idx : Live(i) /\ child'[i] = "dead"
  \/ "listen" \in events \ events' /\ \E i \in Idx : child[i] = "dead"
  \/ "listen" \in events \ events' /\ \A i \in Idx : m_pid[i] = NoPid

Matched == NotifiedHaveConns' /\ (Unheard' > Unheard => Excused)

\* The arithmetic of both pools: n is notified, a at the parent, c in the backlog.
LEMMA NoMoreNotified ==
  \A n, m, a, b, c, d \in Nat : n + a <= c /\ m <= n /\ b - a <= d - c => m + b <= d
OBVIOUS
LEMMA NoLessHeard ==
  \A r, q, a, b, c, d \in Nat : r <= q /\ b - a >= d - c => ~ (d - b - q > c - a - r)
OBVIOUS

\* Steps that notify nobody and leave no child with less to be told.
LEMMA PoolAsBefore ==
  ASSUME PoolInv, PoolInv', NotifiedHaveConns, AtParent' - AtParent <= backlog' - backlog,
         \A i \in Idx : Notified'[i] <= Notified[i],
         Excused \/ (AtParent' - AtParent >= backlog' - backlog /\ \A i \in Idx : Reports[i] <= Reports'[i])
  PROVE  Matched
<1> DEFINE n == SumFunction(Notified)
           m == SumFunction(Notified')
           r == SumFunction(Reports)
           q == SumFunction(Reports')
<1>1. n \in Nat /\ m \in Nat /\ r \in Nat /\ q \in Nat
  BY PoolSums, SumNat
<1>2. m <= n
  BY PoolSums, SumUp
<1>3. (\A i \in Idx : Reports[i] <= Reports'[i]) => r <= q
  BY PoolSums, SumUp
<1>4. AtParent \in Nat /\ AtParent' \in Nat /\ backlog \in Nat /\ backlog' \in Nat
  BY PoolSums
<1>5. NotifiedHaveConns'
  <2>1. n + AtParent <= backlog
    BY DEF NotifiedHaveConns
  <2>2. m + AtParent' <= backlog'
    <3> HIDE DEF n, m
    <3> QED BY <1>1, <1>2, <1>4, <2>1, NoMoreNotified
  <2> QED BY <2>2 DEF NotifiedHaveConns
<1>6. ASSUME ~ Excused PROVE ~ (Unheard' > Unheard)
  <2>1. r <= q /\ AtParent' - AtParent >= backlog' - backlog
    BY <1>3, <1>6
  <2>2. Unheard = backlog - AtParent - r /\ Unheard' = backlog' - AtParent' - q
    BY DEF Unheard
  <2> HIDE DEF r, q
  <2> QED BY <1>1, <1>4, <2>1, <2>2, NoLessHeard
<1> QED BY <1>5, <1>6 DEF Matched

\* A step of one child.
LEMMA PoolOfOne ==
  ASSUME PoolInv, PoolInv', NotifiedHaveConns, NEW i \in Idx,
         \A j \in Idx : j # i => Notified'[j] = Notified[j] /\ Reports'[j] = Reports[j],
         AtParent' - AtParent + Notified'[i] - Notified[i] <= backlog' - backlog,
         Excused \/ AtParent' - AtParent + Reports'[i] - Reports[i] >= backlog' - backlog
  PROVE  Matched
<1> DEFINE n == SumFunction(Notified)
           m == SumFunction(Notified')
           r == SumFunction(Reports)
           q == SumFunction(Reports')
<1>1. n \in Nat /\ m \in Nat /\ r \in Nat /\ q \in Nat
  BY PoolSums, SumNat
<1>2. m = n + Notified'[i] - Notified[i]
  BY PoolSums, SumAt
<1>3. q = r + Reports'[i] - Reports[i]
  BY PoolSums, SumAt
<1>4. /\ AtParent \in Nat /\ AtParent' \in Nat /\ backlog \in Nat /\ backlog' \in Nat
      /\ Notified[i] \in Nat /\ Notified'[i] \in Nat /\ Reports[i] \in Nat /\ Reports'[i] \in Nat
  BY PoolSums
<1>5. NotifiedHaveConns'
  <2>1. n + AtParent <= backlog
    BY DEF NotifiedHaveConns
  <2>2. m + AtParent' <= backlog'
    <3> HIDE DEF n, m
    <3> QED BY <1>1, <1>2, <1>4, <2>1
  <2> QED BY <2>2 DEF NotifiedHaveConns
<1>6. ASSUME ~ Excused PROVE ~ (Unheard' > Unheard)
  <2>1. Unheard = backlog - AtParent - r /\ Unheard' = backlog' - AtParent' - q
    BY DEF Unheard
  <2> HIDE DEF r, q
  <2> QED BY <1>1, <1>3, <1>4, <1>6, <2>1
<1> QED BY <1>5, <1>6 DEF Matched

LEMMA PoolSame ==
  ASSUME PoolInv, UNCHANGED << child, pipe >>
  PROVE  /\ Notified' = Notified
         /\ \A i \in Idx : Told(i) <= Told(i)' => Reports[i] <= Reports'[i]
         /\ UNCHANGED << cedges, cevents >> => Reports' = Reports
<1>1. Notified' = Notified
  BY DEF Notified, Live
<1>2. \A i \in Idx : Told(i) \in Nat /\ Told(i)' \in Nat
  BY DEF Told, One
<1>3. ASSUME NEW i \in Idx, Told(i) <= Told(i)' PROVE Reports[i] <= Reports'[i]
  <2>1. Notified[i] \in Nat
    BY PoolSums
  <2>2. Reports'[i] = IF Notified[i] < Told(i)' THEN Notified[i] ELSE Told(i)'
    BY <1>1 DEF Reports
  <2> QED BY <1>2, <1>3, <2>1, <2>2 DEF Reports
<1>4. UNCHANGED << cedges, cevents >> => Reports' = Reports
  BY <1>1 DEF Reports, Told
<1> QED BY <1>1, <1>3, <1>4

LEMMA PoolParentMatches ==
  ASSUME PoolInv, PoolInv', PoolBooks, NotifiedHaveConns, ParentStep
  PROVE  Matched
<1>1. CASE ParentHandler \/ ParentWait \/ ParentStop \/ ReadSignals
  <2>1. UNCHANGED << child, pipe, cedges, cevents, backlog >>
    BY <1>1 DEF ParentHandler, ParentWait, ParentStop, ReadSignals, childVars
  <2>2. AtParent' = AtParent
    BY <1>1 DEF ParentHandler, ParentWait, ParentStop, ReadSignals, Handles, AtParent, One, parentVars
  <2>3. AtParent \in Nat /\ backlog \in Nat /\ \A i \in Idx : Notified[i] \in Nat /\ Reports[i] \in Nat
    BY PoolSums
  <2> QED BY <2>1, <2>2, <2>3, PoolSame, PoolAsBefore
<1>2. CASE Fork
  <2>1. /\ UNCHANGED << parent, events, pipe, edges, backlog >> /\ parent = "fork"
    BY <1>2 DEF Fork
  <2>2. \A i \in Idx : Notified'[i] = 0
    BY <2>1 DEF Notified, PoolBooks, InOrder, Live
  <2>3. AtParent' = AtParent /\ Excused
    BY <2>1 DEF AtParent, Excused
  <2>4. AtParent \in Nat /\ backlog \in Nat /\ \A i \in Idx : Notified[i] \in Nat
    BY PoolSums
  <2> QED BY <2>1, <2>2, <2>3, <2>4, PoolAsBefore
<1>3. CASE ParentSetup
  <2>1. /\ UNCHANGED << child, pipe, backlog, events >> /\ parent = "fork"
        /\ edges' = IF backlog > 0 THEN {"listen"} ELSE {}
    BY <1>3 DEF ParentSetup, childVars
  <2>2. \A i \in Idx : Notified'[i] = 0
    BY <2>1 DEF Notified, PoolBooks, InOrder, Live
  <2>3. SumFunction(Notified') = 0
    BY <2>2, PoolSums, SumOfZeros
  <2>4. AtParent' <= backlog' /\ AtParent' \in Nat
    BY <2>1 DEF AtParent, One, PoolBooks, InOrder, PoolInv, TypeOK
  <2>5. NotifiedHaveConns'
    BY <2>3, <2>4 DEF NotifiedHaveConns
  <2> QED BY <2>1, <2>5 DEF Matched, Excused
<1>4. CASE DispatchNobody
  <2>1. /\ UNCHANGED << child, pipe, cedges, cevents, backlog, edges >> /\ events' = {}
        /\ "listen" \in events /\ \A i \in Idx : m_pid[i] = NoPid
    BY <1>4 DEF DispatchNobody, Handles, childVars
  <2>2. AtParent' = AtParent - 1 /\ Excused
    BY <2>1 DEF AtParent, One, Excused
  <2>3. AtParent \in Nat /\ backlog \in Nat /\ \A i \in Idx : Notified[i] \in Nat
    BY PoolSums
  <2> QED BY <2>1, <2>2, <2>3, PoolSame, PoolAsBefore
<1>5. CASE Reap
  <2>1. /\ UNCHANGED << pipe, cedges, cevents, backlog, edges, events >>
        /\ child' = [i \in Idx |-> IF i \in Dead THEN "reaped" ELSE child[i]]
    BY <1>5 DEF Reap
  <2>2. \A i \in Idx : /\ Live(i)' = Live(i)
                       /\ Live(i) => child'[i] = child[i]
    BY <2>1 DEF Live, Dead
  <2>3. Notified' = Notified
    BY <2>1, <2>2 DEF Notified
  <2>4. \A i \in Idx : Reports'[i] = Reports[i]
    <3> SUFFICES ASSUME NEW i \in Idx PROVE Reports'[i] = Reports[i]
      OBVIOUS
    <3>1. CASE Live(i)
      BY <2>1, <2>2, <2>3, <3>1 DEF Reports, Told
    <3>2. CASE ~ Live(i)
      <4>1. Notified[i] = 0 /\ Told(i) \in Nat /\ Told(i)' \in Nat
        BY <3>2 DEF Notified, Told, One
      <4> QED BY <2>3, <4>1 DEF Reports
    <3> QED BY <3>1, <3>2
  <2>5. AtParent' = AtParent
    BY <2>1 DEF AtParent
  <2>6. AtParent \in Nat /\ backlog \in Nat /\ \A i \in Idx : Notified[i] \in Nat /\ Reports[i] \in Nat
    BY PoolSums
  <2> QED BY <2>1, <2>3, <2>4, <2>5, <2>6, PoolAsBefore
<1>6. CASE KillChildren
  <2> DEFINE S == {i \in Idx : m_pid[i] # NoPid /\ child[i] = "start"}
  <2>1. /\ UNCHANGED << pipe, cedges, cevents, backlog, edges, events >>
        /\ child' = [i \in Idx |-> IF i \in S THEN "dead" ELSE child[i]]
    BY <1>6 DEF KillChildren
  <2>2. AtParent' = AtParent
    BY <2>1 DEF AtParent
  <2>3. AtParent \in Nat /\ backlog \in Nat /\ \A i \in Idx : Notified[i] \in Nat /\ Reports[i] \in Nat
    BY PoolSums
  <2>4. \A i \in Idx : Notified'[i] <= Notified[i]
    BY <2>1, <2>3 DEF Notified, Live
  <2>5. CASE S = {}
    <3>1. child' = child
      BY <2>1, <2>5 DEF PoolInv, TypeOK
    <3> QED BY <2>1, <2>2, <2>3, <2>4, <3>1, PoolSame, PoolAsBefore
  <2>6. CASE S # {}
    <3>1. Excused
      BY <2>1, <2>6 DEF Excused, Live
    <3> QED BY <2>1, <2>2, <2>3, <2>4, <3>1, PoolAsBefore
  <2> QED BY <2>5, <2>6
<1>7. CASE Dispatch
  <2>1. PICK i \in Idx :
          /\ Chosen(i) /\ pipe' = IF Live(i) THEN [pipe EXCEPT ![i] = @ + 1] ELSE pipe
          /\ cedges' = IF child[i] = "loop" THEN [cedges EXCEPT ![i] = @ \cup {"pipe"}] ELSE cedges
    BY <1>7 DEF Dispatch
  <2>2. /\ UNCHANGED << child, cevents, backlog, edges >> /\ "listen" \in events /\ events' = events \ {"listen"}
    BY <1>7 DEF Dispatch, Handles, childVars
  <2>3. AtParent' = AtParent - 1
    BY <2>2 DEF AtParent, One
  <2>4. AtParent \in Nat /\ backlog \in Nat /\ \A j \in Idx : Notified[j] \in Nat /\ Reports[j] \in Nat
    BY PoolSums
  <2>5. CASE ~ Live(i)
    <3>1. child[i] = "dead"
      BY <2>1, <2>5 DEF Chosen, PoolBooks, PidsMatch, Live
    <3>2. pipe' = pipe /\ Excused
      BY <2>1, <2>2, <2>5, <3>1 DEF Excused
    <3> QED BY <2>2, <2>3, <2>4, <3>2, PoolSame, PoolAsBefore
  <2>6. CASE Live(i)
    <3>1. pipe' = [pipe EXCEPT ![i] = @ + 1] /\ pipe[i] \in Nat /\ DOMAIN pipe = Idx
      BY <2>1, <2>6 DEF PoolInv, TypeOK
    <3>2. \A j \in Idx : Notified'[j] = IF j = i THEN Notified[i] + 1 ELSE Notified[j]
      BY <2>2, <2>6, <3>1 DEF Notified, Live
    <3>3. \A j \in Idx : j # i => Reports'[j] = Reports[j]
      <4> SUFFICES ASSUME NEW j \in Idx, j # i PROVE Reports'[j] = Reports[j]
        OBVIOUS
      <4>1. cedges'[j] = cedges[j]
        BY <2>1 DEF PoolInv, TypeOK
      <4> QED BY <2>2, <3>2, <4>1 DEF Reports, Told
    <3>4. Excused \/ Reports'[i] = Reports[i] + 1
      <4> SUFFICES ASSUME ~ Excused PROVE Reports'[i] = Reports[i] + 1
        OBVIOUS
      <4>1. "pipe" \notin cedges[i] /\ child[i] # "start"
        BY <3>1 DEF Excused
      <4>2. child[i] = "loop" /\ "pipe" \in cedges'[i]
        BY <2>1, <2>6, <4>1 DEF Live, PoolInv, TypeOK
      <4>3. Told(i)' = Told(i) + 1 /\ Told(i) \in Nat
        BY <2>2, <4>1, <4>2 DEF Told, One
      <4>4. Notified'[i] = Notified[i] + 1 /\ Notified[i] \in Nat
        BY <2>4, <3>2
      <4> QED BY <4>3, <4>4 DEF Reports
    <3>5. /\ AtParent' - AtParent + Notified'[i] - Notified[i] <= backlog' - backlog
          /\ Excused \/ AtParent' - AtParent + Reports'[i] - Reports[i] >= backlog' - backlog
      BY <2>2, <2>3, <2>4, <3>2, <3>4
    <3> QED BY <3>2, <3>3, <3>5, PoolOfOne
  <2> QED BY <2>5, <2>6
<1> QED BY <1>1, <1>2, <1>3, <1>4, <1>5, <1>6, <1>7 DEF ParentStep

LEMMA PoolChildMatches ==
  ASSUME PoolInv, PoolInv', NotifiedHaveConns, NEW i \in Idx, ChildStep(i) \/ Crash(i)
  PROVE  Matched
<1>0. AtParent \in Nat /\ backlog \in Nat /\ \A j \in Idx : Notified[j] \in Nat /\ Reports[j] \in Nat
  BY PoolSums
<1> DEFINE Typed == /\ pipe \in [Idx -> Nat] /\ cedges \in [Idx -> SUBSET {"pipe", "sig"}]
                    /\ child \in [Idx -> {"none", "start", "loop", "dead", "reaped"}]
                    /\ cevents \in [Idx -> SUBSET {"pipe", "sig"}]
<1>t. Typed
  BY DEF PoolInv, TypeOK
<1>1. CASE ChildSetup(i)
  <2>1. /\ UNCHANGED << pipe, cevents, backlog, edges, events >> /\ child[i] = "start"
        /\ child' = [child EXCEPT ![i] = "loop"]
        /\ cedges' = [cedges EXCEPT ![i] =
                        IF pipe[i] > 0 \/ i \in Orphans(parent, child') THEN {"pipe"} ELSE {}]
    BY <1>1 DEF ChildSetup, parentVars
  <2>2. AtParent' = AtParent
    BY <2>1 DEF AtParent
  <2>3. \A j \in Idx : Live(j)' = Live(j)
    BY <1>t, <2>1 DEF Live
  <2>4. Notified' = Notified
    BY <2>1, <2>3 DEF Notified
  <2>5. \A j \in Idx : j # i => Reports'[j] = Reports[j]
    <3> SUFFICES ASSUME NEW j \in Idx, j # i PROVE Reports'[j] = Reports[j]
      OBVIOUS
    <3>1. cedges'[j] = cedges[j] /\ child'[j] = child[j]
      BY <1>t, <2>1
    <3> QED BY <2>1, <2>4, <3>1 DEF Reports, Told
  <2>6. Reports'[i] >= Reports[i]
    <3>1. Notified[i] = pipe[i] /\ pipe[i] \in Nat /\ Told(i) = 1
      BY <1>t, <2>1 DEF Notified, Live, Told
    <3>2. child'[i] = "loop" /\ (pipe[i] > 0 => "pipe" \in cedges'[i])
      BY <1>t, <2>1
    <3>3. Told(i)' \in Nat /\ (pipe[i] > 0 => Told(i)' >= 1)
      BY <3>2 DEF Told, One
    <3>4. Reports'[i] = IF pipe[i] < Told(i)' THEN pipe[i] ELSE Told(i)'
      BY <2>4, <3>1 DEF Reports
    <3>5. Reports[i] = IF pipe[i] < 1 THEN pipe[i] ELSE 1
      BY <3>1 DEF Reports
    <3> QED BY <3>1, <3>3, <3>4, <3>5
  <2>7. Reports'[i] \in Nat
    BY PoolSums
  <2> QED BY <1>0, <2>1, <2>2, <2>4, <2>5, <2>6, <2>7, PoolOfOne
<1>2. CASE ChildHandler(i) \/ ChildWait(i) \/ ChildSignal(i)
  <2>1. UNCHANGED << child, pipe, backlog, edges, events >>
    BY <1>2 DEF ChildHandler, ChildWait, ChildSignal, parentVars
  <2>2. AtParent' = AtParent
    BY <2>1 DEF AtParent
  <2>3. \A j \in Idx : /\ "pipe" \in cedges'[j] \/ "pipe" \in cevents'[j] <=> "pipe" \in cedges[j] \/ "pipe" \in cevents[j]
                       /\ "pipe" \in cedges'[j] /\ "pipe" \in cevents'[j] <=> "pipe" \in cedges[j] /\ "pipe" \in cevents[j]
    <3>1. CASE ChildHandler(i)
      <4>1. cevents' = cevents /\ cedges' = [cedges EXCEPT ![i] = @ \cup {"sig"}]
        BY <3>1 DEF ChildHandler
      <4> QED BY <1>t, <4>1
    <3>2. CASE ChildWait(i)
      <4>1. /\ cevents[i] = {} /\ cevents' = [cevents EXCEPT ![i] = cedges[i]]
            /\ cedges' = [cedges EXCEPT ![i] = {}]
        BY <3>2 DEF ChildWait
      <4> QED BY <1>t, <4>1
    <3>3. CASE ChildSignal(i)
      <4>1. cedges' = cedges /\ cevents' = [cevents EXCEPT ![i] = @ \ {"sig"}]
        BY <3>3 DEF ChildSignal, ChildHandles
      <4> QED BY <1>t, <4>1
    <3> QED BY <1>2, <3>1, <3>2, <3>3
  <2>4. \A j \in Idx : Told(j)' = Told(j) /\ Told(j) \in Nat
    BY <2>1, <2>3 DEF Told, One
  <2> QED BY <1>0, <2>1, <2>2, <2>4, PoolSame, PoolAsBefore
<1>3. CASE ChildEof(i)
  <2>1. /\ UNCHANGED << child, pipe, cedges, backlog, edges, events >> /\ pipe[i] = 0
        /\ cevents' = [cevents EXCEPT ![i] = @ \ {"pipe"}]
    BY <1>3 DEF ChildEof, ChildHandles, parentVars
  <2>2. AtParent' = AtParent
    BY <2>1 DEF AtParent
  <2>3. Notified' = Notified /\ Notified[i] = 0
    BY <2>1, PoolSame DEF Notified
  <2>4. \A j \in Idx : Reports'[j] = Reports[j]
    <3> SUFFICES ASSUME NEW j \in Idx PROVE Reports'[j] = Reports[j]
      OBVIOUS
    <3>1. CASE j = i
      <4>1. Told(i) \in Nat /\ Told(i)' \in Nat
        BY DEF Told, One
      <4> QED BY <2>3, <3>1, <4>1 DEF Reports
    <3>2. CASE j # i
      <4>1. cevents'[j] = cevents[j]
        BY <1>t, <2>1, <3>2
      <4> QED BY <2>1, <2>3, <4>1 DEF Reports, Told
    <3> QED BY <3>1, <3>2
  <2> QED BY <1>0, <2>1, <2>2, <2>3, <2>4, PoolAsBefore
<1>4. CASE ChildAccept(i)
  <2>1. /\ UNCHANGED << child, cedges, edges, events >> /\ pipe[i] > 0 /\ child[i] = "loop"
        /\ "pipe" \in cevents[i] /\ cevents' = [cevents EXCEPT ![i] = @ \ {"pipe"}]
        /\ pipe' = [pipe EXCEPT ![i] = @ - 1] /\ backlog' = IF backlog > 0 THEN backlog - 1 ELSE backlog
    BY <1>4 DEF ChildAccept, ChildHandles, parentVars
  <2>2. AtParent' = AtParent
    BY <2>1 DEF AtParent
  <2>3. \A j \in Idx : Notified'[j] = IF j = i THEN pipe[i] - 1 ELSE Notified[j]
    BY <1>t, <2>1 DEF Notified, Live
  <2>4. Notified[i] = pipe[i] /\ pipe[i] \in Nat
    BY <1>t, <2>1 DEF Notified, Live
  <2>5. backlog > 0
    <3>1. SumFunction(Notified) \in Nat /\ Notified[i] <= SumFunction(Notified)
      BY PoolSums, SumNat
    <3> QED BY <1>0, <2>1, <2>4, <3>1 DEF NotifiedHaveConns
  <2>6. \A j \in Idx : j # i => Reports'[j] = Reports[j]
    <3> SUFFICES ASSUME NEW j \in Idx, j # i PROVE Reports'[j] = Reports[j]
      OBVIOUS
    <3>1. cevents'[j] = cevents[j]
      BY <1>t, <2>1
    <3> QED BY <2>1, <2>3, <3>1 DEF Reports, Told
  <2>7. Reports'[i] = Reports[i] - 1
    <3>1. cevents'[i] = cevents[i] \ {"pipe"}
      BY <1>t, <2>1
    <3>2. Told(i) \in Nat /\ Told(i) >= 1 /\ Told(i)' = Told(i) - 1
      BY <2>1, <3>1 DEF Told, One
    <3> QED BY <2>1, <2>3, <2>4, <3>2 DEF Reports
  <2> QED BY <1>0, <2>1, <2>2, <2>3, <2>4, <2>5, <2>6, <2>7, PoolOfOne
<1>5. CASE ChildExit(i) \/ Crash(i)
  <2>1. /\ UNCHANGED << pipe, backlog, edges, events >> /\ Live(i) /\ child' = [child EXCEPT ![i] = "dead"]
    BY <1>5 DEF ChildExit, Crash, Live, parentVars
  <2>2. AtParent' = AtParent /\ child'[i] = "dead"
    BY <1>t, <2>1 DEF AtParent
  <2>3. Excused
    BY <2>1, <2>2 DEF Excused
  <2>4. \A j \in Idx : Notified'[j] <= Notified[j]
    BY <1>t, <1>0, <2>1 DEF Notified, Live
  <2> QED BY <1>0, <2>1, <2>2, <2>3, <2>4, PoolAsBefore
<1> QED BY <1>1, <1>2, <1>3, <1>4, <1>5 DEF ChildStep

LEMMA PoolMatches ==
  ASSUME PoolInv, PoolInv', PoolBooks, NotifiedHaveConns, [Next]_vars
  PROVE  Matched
<1>0. AtParent \in Nat /\ backlog \in Nat /\ \A j \in Idx : Notified[j] \in Nat /\ Reports[j] \in Nat
  BY PoolSums
<1>1. CASE UNCHANGED vars
  <2>1. UNCHANGED << child, pipe, cedges, cevents, edges, events, backlog >>
    BY <1>1 DEF vars, parentVars, childVars
  <2>2. AtParent' = AtParent
    BY <2>1 DEF AtParent
  <2> QED BY <1>0, <2>1, <2>2, PoolSame, PoolAsBefore
<1>2. CASE Connect
  <2>1. /\ UNCHANGED << child, pipe, cedges, cevents, events >> /\ backlog' = backlog + 1
        /\ edges' = IF parent = "loop" THEN edges \cup {"listen"} ELSE edges
    BY <1>2 DEF Connect, parentVars, childVars
  <2>2. Excused \/ AtParent' = AtParent + 1
    BY <1>0, <2>1 DEF Excused, AtParent, One
  <2>3. AtParent' \in {AtParent, AtParent + 1}
    BY <1>0, <2>1 DEF AtParent, One
  <2>4. Notified' = Notified /\ Reports' = Reports
    BY <2>1, PoolSame
  <2>5. AtParent' - AtParent <= backlog' - backlog
    <3>1. AtParent' = AtParent => AtParent' - AtParent <= backlog' - backlog
      BY <1>0, <2>1
    <3>2. AtParent' = AtParent + 1 => AtParent' - AtParent <= backlog' - backlog
      BY <1>0, <2>1
    <3> QED BY <2>3, <3>1, <3>2
  <2>6. \A i \in Idx : Notified'[i] <= Notified[i] /\ Reports[i] <= Reports'[i]
    BY <1>0, <2>4
  <2>7. Excused \/ AtParent' - AtParent >= backlog' - backlog
    BY <1>0, <2>1, <2>2
  <2> QED BY <2>5, <2>6, <2>7, PoolAsBefore
<1>3. CASE Terminate
  <2>1. UNCHANGED << child, pipe, cevents, edges, events, backlog >> /\ (parent = "loop" => cedges' = cedges)
    BY <1>3 DEF Terminate, childVars
  <2>2. AtParent' = AtParent
    BY <2>1 DEF AtParent
  <2>3. parent # "loop" => Excused
    BY DEF Excused
  <2> QED BY <1>0, <2>1, <2>2, <2>3, PoolSame, PoolAsBefore
<1> QED BY <1>1, <1>2, <1>3, PoolParentMatches, PoolChildMatches DEF Next

LEMMA PoolNotifications ==
  MCSpec => [](PoolInv /\ PoolBooks /\ NotifiedHaveConns) /\ PassedOverByMergeOrDeath
<1>1. Init => PoolBooks /\ NotifiedHaveConns
  <2> SUFFICES ASSUME Init PROVE NotifiedHaveConns
    BY PoolBooksInit
  <2>1. \A i \in Idx : Notified[i] = 0
    BY DEF Init, Notified, Live
  <2>2. SumFunction(Notified) = 0
    BY <2>1, PoolSums, PoolInit, SumOfZeros
  <2>3. AtParent = 0 /\ backlog = 0
    BY DEF Init, AtParent, One
  <2> QED BY <2>2, <2>3 DEF NotifiedHaveConns
<1>2. PoolInv /\ PoolInv' /\ PoolBooks /\ NotifiedHaveConns /\ [Next]_vars
        => PoolBooks' /\ NotifiedHaveConns' /\ [Unheard' > Unheard => Excused]_vars
  BY PoolBooksNext, PoolMatches DEF Matched
<1> QED BY <1>1, <1>2, PoolSteps, PoolInvariant, PTL DEF PassedOverByMergeOrDeath, Excused

\* A child is in the table until it is reaped, and the parent stops when none is there.
LEMMA PoolLast == PoolInv /\ PoolBooks => LastToLeave
BY PoolConstants DEF PoolInv, TypeOK, PoolBooks, PidsMatch, InOrder, LastToLeave, Idx

-----------------------------------------------------------------------------
(* PoolCgi: notifications and connections                                   *)

CgiPidsMatch == \A i \in Cgi!Idx : pid[i] = "some" <=> cgi_child[i] \in {"start", "loop", "dead"}
CgiInOrder ==
  /\ cgi_parent = "fork" => cgi_edges = {} /\ cgi_events = {} /\ \A i \in Cgi!Idx : notices[i] = 0
  /\ stop_server => cgi_parent \in {"loop", "stopped"} /\ \A i \in Cgi!Idx : pid[i] = "none"
  /\ cgi_parent = "stopped" => stop_server
CgiBooks == CgiPidsMatch /\ CgiInOrder

LEMMA CgiBooksInit == Cgi!Init => CgiBooks
BY DEF Cgi!Init, CgiBooks, CgiPidsMatch, CgiInOrder

LEMMA CgiBooksParent == ASSUME CgiInv, CgiBooks, Cgi!ParentStep PROVE CgiBooks'
<1> USE DEF CgiBooks, CgiPidsMatch, CgiInOrder
<1>1. CASE Cgi!Fork
  <2>1. /\ UNCHANGED << cgi_parent, stop_server, cgi_events, notices, cgi_edges >> /\ cgi_parent = "fork"
        /\ cgi_forked \in Cgi!Idx /\ cgi_child' = [cgi_child EXCEPT ![cgi_forked] = "start"]
        /\ pid' = [pid EXCEPT ![cgi_forked] = "some"]
    BY <1>1 DEF Cgi!Fork
  <2>2. \A i \in Cgi!Idx : /\ cgi_child'[i] = (IF i = cgi_forked THEN "start" ELSE cgi_child[i])
                           /\ pid'[i] = (IF i = cgi_forked THEN "some" ELSE pid[i])
    BY <2>1 DEF CgiInv, CgiTypes
  <2> QED BY <2>1, <2>2
<1>2. CASE Cgi!ForkFails \/ Cgi!ParentSetup \/ Cgi!SigHandler \/ Cgi!ParentWait \/ Cgi!ParentStop \/ Cgi!ReadSignals
  BY <1>2 DEF Cgi!ForkFails, Cgi!ParentSetup, Cgi!SigHandler, Cgi!ParentWait, Cgi!ParentStop, Cgi!ReadSignals,
              Cgi!RoundDone, Cgi!Handles, Cgi!parentVars, Cgi!childVars
<1>3. CASE Cgi!Dispatch
  BY <1>3 DEF Cgi!Dispatch, Cgi!Handles, Cgi!childVars
<1>4. CASE Cgi!Reap
  BY <1>4 DEF Cgi!Reap, Cgi!Handling
<1>5. CASE Cgi!KillChildren
  BY <1>5 DEF Cgi!KillChildren, Cgi!ChildrenEnd
<1> QED BY <1>1, <1>2, <1>3, <1>4, <1>5 DEF Cgi!ParentStep

LEMMA CgiBooksNext == ASSUME CgiInv, CgiBooks, [Cgi!Next]_cgiVars PROVE CgiBooks'
<1> USE DEF CgiBooks, CgiPidsMatch, CgiInOrder
<1>1. CASE UNCHANGED cgiVars
  BY <1>1 DEF cgiVars
<1>2. CASE Cgi!World
  <2>1. CASE Cgi!Terminate
    <3>1. UNCHANGED << pid, stop_server, cgi_events, notices, cgi_edges, cgi_child >>
      BY <2>1 DEF Cgi!Terminate, Cgi!childVars
    <3>2. cgi_parent' = cgi_parent \/ (cgi_parent' = "killed" /\ cgi_parent = "fork")
      BY <2>1 DEF Cgi!Terminate
    <3> QED BY <3>1, <3>2
  <2>2. ASSUME NEW c \in Conns, Cgi!Connect(c) \/ Cgi!Arrive(c) \/ Cgi!HangUp(c) \/ Cgi!ProgramEnds(c)
        PROVE  CgiBooks'
    <3>1. UNCHANGED << cgi_parent, pid, stop_server, cgi_events, notices, cgi_child >>
      BY <2>2 DEF Cgi!Connect, Cgi!Arrive, Cgi!HangUp, Cgi!ProgramEnds, Cgi!parentVars, Cgi!childVars
    <3>2. cgi_parent = "fork" => cgi_edges' = cgi_edges
      BY <2>2 DEF Cgi!Connect, Cgi!Arrive, Cgi!HangUp, Cgi!ProgramEnds
    <3> QED BY <3>1, <3>2
  <2> QED BY <1>2, <2>1, <2>2 DEF Cgi!World
<1>3. CASE Cgi!ParentStep
  BY <1>3, CgiBooksParent
<1>4. ASSUME NEW i \in Cgi!Idx, Cgi!Crash(i) \/ Cgi!Exit(i) PROVE CgiBooks'
  <2>1. cgi_child[i] \in {"start", "loop"} /\ \A j \in Cgi!Idx : cgi_child'[j] = IF j = i THEN "dead" ELSE cgi_child[j]
    BY <1>4 DEF Cgi!Crash, Cgi!Exit, Cgi!Live, Cgi!ChildrenEnd
  <2>2. UNCHANGED << cgi_parent, pid, stop_server, cgi_events, cgi_edges, notices >>
    BY <1>4 DEF Cgi!Crash, Cgi!Exit
  <2> QED BY <2>1, <2>2
<1>5. ASSUME NEW i \in Cgi!Idx, Cgi!ChildSetup(i) PROVE CgiBooks'
  <2>1. cgi_child[i] = "start" /\ \A j \in Cgi!Idx : cgi_child'[j] = IF j = i THEN "loop" ELSE cgi_child[j]
    BY <1>5 DEF Cgi!ChildSetup, CgiInv, CgiTypes
  <2>2. UNCHANGED << cgi_parent, pid, stop_server, cgi_events, cgi_edges, notices >>
    BY <1>5 DEF Cgi!ChildSetup, Cgi!parentVars
  <2> QED BY <2>1, <2>2
<1>6. ASSUME NEW i \in Cgi!Idx, Cgi!ChildStep(i) \/ Cgi!Crash(i) PROVE CgiBooks'
  <2>1. CASE Cgi!Test(i) \/ Cgi!Blocks(i) \/ Cgi!EpollWait(i) \/ Cgi!TermHandler(i) \/ Cgi!ChildHandler(i) \/ Cgi!PipeEmpty(i)
    BY <2>1 DEF Cgi!Test, Cgi!Blocks, Cgi!EpollWait, Cgi!TermHandler, Cgi!ChildHandler, Cgi!PipeEmpty, Cgi!parentVars
  <2>2. CASE Cgi!Accept(i)
    <3>1. UNCHANGED << cgi_parent, pid, stop_server, cgi_events, cgi_edges, cgi_child >> /\ cgi_parent # "fork"
      BY <2>2 DEF Cgi!Accept, Cgi!parentVars, Cgi!childVars, CgiInv, CgiTypes
    <3> QED BY <3>1
  <2>3. ASSUME NEW c \in Conns, Cgi!ReadStep(i, c) PROVE CgiBooks'
    BY <2>3 DEF Cgi!ReadStep, Cgi!RecvAgain, Cgi!RecvNothing, Cgi!RecvPart, Cgi!RecvGhost, Cgi!RecvName,
                Cgi!RecvForkFails, Cgi!Recv, Cgi!parentVars, Cgi!childVars
  <2> QED BY <1>4, <1>5, <1>6, <2>1, <2>2, <2>3 DEF Cgi!ChildStep
<1> QED BY <1>1, <1>2, <1>3, <1>6 DEF Cgi!Next

LEMMA CgiSumFunction == ASSUME NEW f PROVE Cgi!SumFunction(f) = SumFunction(f)
BY DEF Cgi!SumFunction, Cgi!SumFunctionOnSet, Cgi!FoldFunctionOnSet, Cgi!MapThenFoldSet,
       SumFunction, SumFunctionOnSet, FoldFunctionOnSet, MapThenFoldSet

LEMMA CgiSums ==
  /\ IsFiniteSet(Cgi!Idx)
  /\ CgiInv  => /\ Cgi!Notified \in [Cgi!Idx -> Nat] /\ Cgi!Reports \in [Cgi!Idx -> Nat]
                /\ Cgi!AtParent \in Nat /\ Len(cgi_backlog) \in Nat
  /\ CgiInv' => /\ Cgi!Notified' \in [Cgi!Idx -> Nat] /\ Cgi!Reports' \in [Cgi!Idx -> Nat]
                /\ Cgi!AtParent' \in Nat /\ Len(cgi_backlog') \in Nat
<1>1. IsFiniteSet(Cgi!Idx)
  BY CgiConstants, FS_Interval DEF Cgi!Idx
<1>2. ASSUME CgiInv
      PROVE  /\ Cgi!Notified \in [Cgi!Idx -> Nat] /\ Cgi!Reports \in [Cgi!Idx -> Nat]
             /\ Cgi!AtParent \in Nat /\ Len(cgi_backlog) \in Nat
  <2>1. Cgi!Notified \in [Cgi!Idx -> Nat] /\ Len(cgi_backlog) \in Nat
    BY <1>2 DEF CgiInv, CgiTypes, Cgi!Notified
  <2>2. Cgi!AtParent \in Nat /\ \A i \in Cgi!Idx : Cgi!Coming(i) \in Nat
    BY DEF Cgi!AtParent, Cgi!One, Cgi!Coming
  <2>3. Cgi!Reports \in [Cgi!Idx -> Nat]
    BY <2>1, <2>2 DEF Cgi!Reports
  <2> QED BY <2>1, <2>2, <2>3
<1>3. ASSUME CgiInv'
      PROVE  /\ Cgi!Notified' \in [Cgi!Idx -> Nat] /\ Cgi!Reports' \in [Cgi!Idx -> Nat]
             /\ Cgi!AtParent' \in Nat /\ Len(cgi_backlog') \in Nat
  <2>1. Cgi!Notified' \in [Cgi!Idx -> Nat] /\ Len(cgi_backlog') \in Nat
    BY <1>3 DEF CgiInv, CgiTypes, Cgi!Notified, Cgi!Live
  <2>2. Cgi!AtParent' \in Nat /\ \A i \in Cgi!Idx : Cgi!Coming(i)' \in Nat
    BY DEF Cgi!AtParent, Cgi!One, Cgi!Coming
  <2>3. Cgi!Reports' \in [Cgi!Idx -> Nat]
    BY <2>1, <2>2 DEF Cgi!Reports
  <2> QED BY <2>1, <2>2, <2>3
<1> QED BY <1>1, <1>2, <1>3

CgiExcused ==
  \/ cgi_parent # "loop"
  \/ Len(cgi_backlog') > Len(cgi_backlog) /\ "listen" \in cgi_edges
  \/ \E i \in Cgi!Idx : notices'[i] > notices[i] /\ ("pipe" \in cgi_cedges[i] \/ cgi_child[i] = "start")
  \/ \E i \in Cgi!Idx : Cgi!Live(i) /\ cgi_child'[i] = "dead"
  \/ "listen" \in cgi_events \ cgi_events' /\ ~ Cgi!Live(sub_process_counter)

CgiMatched == Cgi!NotifiedHaveConns' /\ (Cgi!Unheard' > Cgi!Unheard => CgiExcused)

\* Steps that notify nobody and leave no child with less to be told.
LEMMA CgiAsBefore ==
  ASSUME CgiInv, CgiInv', Cgi!NotifiedHaveConns,
         Cgi!AtParent' - Cgi!AtParent <= Len(cgi_backlog') - Len(cgi_backlog),
         \A i \in Cgi!Idx : Cgi!Notified'[i] <= Cgi!Notified[i],
         CgiExcused \/ (/\ Cgi!AtParent' - Cgi!AtParent >= Len(cgi_backlog') - Len(cgi_backlog)
                        /\ \A i \in Cgi!Idx : Cgi!Reports[i] <= Cgi!Reports'[i])
  PROVE  CgiMatched
<1> DEFINE n == SumFunction(Cgi!Notified)
           m == SumFunction(Cgi!Notified')
           r == SumFunction(Cgi!Reports)
           q == SumFunction(Cgi!Reports')
<1>1. n \in Nat /\ m \in Nat /\ r \in Nat /\ q \in Nat
  BY CgiSums, SumNat
<1>2. m <= n
  BY CgiSums, SumUp
<1>3. (\A i \in Cgi!Idx : Cgi!Reports[i] <= Cgi!Reports'[i]) => r <= q
  BY CgiSums, SumUp
<1>4. Cgi!AtParent \in Nat /\ Cgi!AtParent' \in Nat /\ Len(cgi_backlog) \in Nat /\ Len(cgi_backlog') \in Nat
  BY CgiSums
<1>5. Cgi!NotifiedHaveConns'
  <2>1. n + Cgi!AtParent <= Len(cgi_backlog)
    BY CgiSumFunction DEF Cgi!NotifiedHaveConns
  <2>2. m + Cgi!AtParent' <= Len(cgi_backlog')
    <3> HIDE DEF n, m
    <3> QED BY <1>1, <1>2, <1>4, <2>1, NoMoreNotified
  <2> QED BY <2>2, CgiSumFunction DEF Cgi!NotifiedHaveConns
<1>6. ASSUME ~ CgiExcused PROVE ~ (Cgi!Unheard' > Cgi!Unheard)
  <2>1. r <= q /\ Cgi!AtParent' - Cgi!AtParent >= Len(cgi_backlog') - Len(cgi_backlog)
    BY <1>3, <1>6
  <2>2. /\ Cgi!Unheard = Len(cgi_backlog) - Cgi!AtParent - r
        /\ Cgi!Unheard' = Len(cgi_backlog') - Cgi!AtParent' - q
    BY CgiSumFunction DEF Cgi!Unheard
  <2> HIDE DEF r, q
  <2> QED BY <1>1, <1>4, <2>1, <2>2, NoLessHeard
<1> QED BY <1>5, <1>6 DEF CgiMatched

LEMMA OneNotified ==
  \A n, m, a, b, c, d, x, y \in Nat : m = n + y - x /\ n + a <= c /\ b - a + y - x <= d - c => m + b <= d
OBVIOUS
LEMMA OneHeard ==
  \A r, q, a, b, c, d, x, y \in Nat : q = r + y - x /\ b - a + y - x >= d - c => ~ (d - b - q > c - a - r)
OBVIOUS

\* A step of one child.
LEMMA CgiOfOne ==
  ASSUME CgiInv, CgiInv', Cgi!NotifiedHaveConns, NEW i \in Cgi!Idx,
         \A j \in Cgi!Idx : j # i => Cgi!Notified'[j] = Cgi!Notified[j] /\ Cgi!Reports'[j] = Cgi!Reports[j],
         Cgi!AtParent' - Cgi!AtParent + Cgi!Notified'[i] - Cgi!Notified[i] <= Len(cgi_backlog') - Len(cgi_backlog),
         \/ CgiExcused
         \/ Cgi!AtParent' - Cgi!AtParent + Cgi!Reports'[i] - Cgi!Reports[i] >= Len(cgi_backlog') - Len(cgi_backlog)
  PROVE  CgiMatched
<1> DEFINE n == SumFunction(Cgi!Notified)
           m == SumFunction(Cgi!Notified')
           r == SumFunction(Cgi!Reports)
           q == SumFunction(Cgi!Reports')
<1>1. n \in Nat /\ m \in Nat /\ r \in Nat /\ q \in Nat
  BY CgiSums, SumNat
<1>2. m = n + Cgi!Notified'[i] - Cgi!Notified[i]
  <2>1. Cgi!Notified \in [Cgi!Idx -> Nat] /\ Cgi!Notified' \in [Cgi!Idx -> Nat] /\ IsFiniteSet(Cgi!Idx)
    BY CgiSums
  <2> QED BY <2>1, SumAt
<1>3. q = r + Cgi!Reports'[i] - Cgi!Reports[i]
  <2>1. Cgi!Reports \in [Cgi!Idx -> Nat] /\ Cgi!Reports' \in [Cgi!Idx -> Nat] /\ IsFiniteSet(Cgi!Idx)
    BY CgiSums
  <2> QED BY <2>1, SumAt
<1>4. /\ Cgi!AtParent \in Nat /\ Cgi!AtParent' \in Nat /\ Len(cgi_backlog) \in Nat /\ Len(cgi_backlog') \in Nat
      /\ Cgi!Notified[i] \in Nat /\ Cgi!Notified'[i] \in Nat /\ Cgi!Reports[i] \in Nat /\ Cgi!Reports'[i] \in Nat
  BY CgiSums
<1>5. Cgi!NotifiedHaveConns'
  <2>1. n + Cgi!AtParent <= Len(cgi_backlog)
    BY CgiSumFunction DEF Cgi!NotifiedHaveConns
  <2>2. m + Cgi!AtParent' <= Len(cgi_backlog')
    <3> DEFINE x == Cgi!Notified[i]
               y == Cgi!Notified'[i]
               a == Cgi!AtParent
               b == Cgi!AtParent'
               c == Len(cgi_backlog)
               d == Len(cgi_backlog')
    <3>1. n \in Nat /\ m \in Nat /\ a \in Nat /\ b \in Nat /\ c \in Nat /\ d \in Nat /\ x \in Nat /\ y \in Nat
      BY <1>1, <1>4
    <3>2. m = n + y - x /\ n + a <= c /\ b - a + y - x <= d - c
      BY <1>2, <2>1
    <3> HIDE DEF n, m, a, b, c, d, x, y
    <3>3. m + b <= d
      BY ONLY <3>1, <3>2, OneNotified
    <3> QED BY <3>3 DEF b, d
  <2> QED BY <2>2, CgiSumFunction DEF Cgi!NotifiedHaveConns
<1>6. ASSUME ~ CgiExcused PROVE ~ (Cgi!Unheard' > Cgi!Unheard)
  <2>1. /\ Cgi!Unheard = Len(cgi_backlog) - Cgi!AtParent - r
        /\ Cgi!Unheard' = Len(cgi_backlog') - Cgi!AtParent' - q
    BY CgiSumFunction DEF Cgi!Unheard
  <2> HIDE DEF r, q
  <2> QED BY <1>1, <1>3, <1>4, <1>6, <2>1, OneHeard
<1> QED BY <1>5, <1>6 DEF CgiMatched

\* Steps that change no notification.
LEMMA CgiSame ==
  ASSUME CgiInv, UNCHANGED << cgi_child, notices >>
  PROVE  /\ Cgi!Notified' = Cgi!Notified
         /\ \A i \in Cgi!Idx : Cgi!Coming(i) <= Cgi!Coming(i)' => Cgi!Reports[i] <= Cgi!Reports'[i]
         /\ \A i \in Cgi!Idx : Cgi!Coming(i)' = Cgi!Coming(i) => Cgi!Reports'[i] = Cgi!Reports[i]
<1>1. Cgi!Notified' = Cgi!Notified
  BY DEF Cgi!Notified, Cgi!Live
<1>2. \A i \in Cgi!Idx : Cgi!Coming(i) \in Nat /\ Cgi!Coming(i)' \in Nat
  BY DEF Cgi!Coming, Cgi!One
<1>3. ASSUME NEW i \in Cgi!Idx
      PROVE  /\ Cgi!Coming(i) <= Cgi!Coming(i)' => Cgi!Reports[i] <= Cgi!Reports'[i]
             /\ Cgi!Coming(i)' = Cgi!Coming(i) => Cgi!Reports'[i] = Cgi!Reports[i]
  <2>1. Cgi!Notified[i] \in Nat
    BY CgiSums
  <2>2. Cgi!Reports'[i] = IF Cgi!Notified[i] < Cgi!Coming(i)' THEN Cgi!Notified[i] ELSE Cgi!Coming(i)'
    BY <1>1 DEF Cgi!Reports
  <2> QED BY <1>2, <2>1, <2>2 DEF Cgi!Reports
<1> QED BY <1>1, <1>3

\* A step that leaves every notification, its reports and the connections as they were.
LEMMA CgiNoNews ==
  ASSUME CgiInv, CgiInv', Cgi!NotifiedHaveConns, UNCHANGED << cgi_child, notices, cgi_backlog, cgi_edges, cgi_events >>,
         \/ CgiExcused
         \/ \A i \in Cgi!Idx :
              /\ "pipe" \in cgi_cedges'[i] <=> "pipe" \in cgi_cedges[i]
              /\ "pipe" \in cgi_cevents'[i] <=> "pipe" \in cgi_cevents[i]
  PROVE  CgiMatched
<1>1. Cgi!AtParent' = Cgi!AtParent
  BY DEF Cgi!AtParent
<1>2. /\ Cgi!AtParent \in Nat /\ Len(cgi_backlog) \in Nat
      /\ \A i \in Cgi!Idx : Cgi!Notified[i] \in Nat /\ Cgi!Reports[i] \in Nat
  BY CgiSums
<1>3. CgiExcused \/ \A i \in Cgi!Idx : Cgi!Coming(i)' = Cgi!Coming(i)
  BY DEF Cgi!Coming, Cgi!One
<1> QED BY <1>1, <1>2, <1>3, CgiSame, CgiAsBefore

LEMMA CgiParentMatches ==
  ASSUME CgiInv, CgiInv', CgiBooks, Cgi!NotifiedHaveConns, Cgi!ParentStep
  PROVE  CgiMatched
<1>0. /\ Cgi!AtParent \in Nat /\ Len(cgi_backlog) \in Nat
      /\ \A j \in Cgi!Idx : Cgi!Notified[j] \in Nat /\ Cgi!Reports[j] \in Nat
  BY CgiSums
<1>1. CASE Cgi!SigHandler \/ Cgi!ParentWait \/ Cgi!ParentStop \/ Cgi!ReadSignals
  <2>1. UNCHANGED << cgi_child, notices, cgi_cedges, cgi_cevents, cgi_backlog >>
    BY <1>1 DEF Cgi!SigHandler, Cgi!ParentWait, Cgi!ParentStop, Cgi!ReadSignals, Cgi!childVars
  <2>2. Cgi!AtParent' = Cgi!AtParent
    BY <1>1 DEF Cgi!SigHandler, Cgi!ParentWait, Cgi!ParentStop, Cgi!ReadSignals, Cgi!Handles, Cgi!RoundDone,
                Cgi!AtParent, Cgi!One, Cgi!parentVars
  <2>3. \A i \in Cgi!Idx : Cgi!Coming(i)' = Cgi!Coming(i)
    BY <2>1 DEF Cgi!Coming
  <2> QED BY <1>0, <2>1, <2>2, <2>3, CgiSame, CgiAsBefore
<1>2. CASE Cgi!Fork \/ Cgi!ForkFails
  <2>1. UNCHANGED << cgi_parent, cgi_events, notices, cgi_edges, cgi_backlog >> /\ cgi_parent = "fork"
    BY <1>2 DEF Cgi!Fork, Cgi!ForkFails
  <2>2. \A i \in Cgi!Idx : Cgi!Notified'[i] = 0
    BY <2>1 DEF Cgi!Notified, CgiBooks, CgiInOrder, Cgi!Live
  <2>3. Cgi!AtParent' = Cgi!AtParent /\ CgiExcused
    BY <2>1 DEF Cgi!AtParent, CgiExcused
  <2> QED BY <1>0, <2>1, <2>2, <2>3, CgiAsBefore
<1>3. CASE Cgi!ParentSetup
  <2>1. /\ UNCHANGED << cgi_child, notices, cgi_backlog, cgi_events >> /\ cgi_parent = "fork"
        /\ cgi_edges' = IF cgi_backlog # <<>> THEN {"listen"} ELSE {}
    BY <1>3 DEF Cgi!ParentSetup, Cgi!childVars
  <2>2. \A i \in Cgi!Idx : Cgi!Notified'[i] = 0
    BY <2>1 DEF Cgi!Notified, CgiBooks, CgiInOrder, Cgi!Live
  <2>3. SumFunction(Cgi!Notified') = 0
    BY <2>2, CgiSums, SumOfZeros
  <2>4. Cgi!AtParent' <= Len(cgi_backlog') /\ Cgi!AtParent' \in Nat
    <3>1. cgi_backlog # <<>> => Len(cgi_backlog) >= 1
      BY <1>0, EmptySeq DEF CgiInv, CgiTypes
    <3>2. Cgi!AtParent' = IF cgi_backlog # <<>> THEN 1 ELSE 0
      BY <2>1 DEF Cgi!AtParent, Cgi!One, CgiBooks, CgiInOrder
    <3> QED BY <1>0, <2>1, <3>1, <3>2
  <2>5. Cgi!NotifiedHaveConns'
    BY <2>3, <2>4, CgiSumFunction DEF Cgi!NotifiedHaveConns
  <2> QED BY <2>1, <2>5 DEF CgiMatched, CgiExcused
<1>4. CASE Cgi!Reap
  <2>1. /\ UNCHANGED << notices, cgi_cedges, cgi_cevents, cgi_backlog, cgi_edges, cgi_events >>
        /\ cgi_child' = [i \in Cgi!Idx |-> IF cgi_child[i] = "dead" THEN "reaped" ELSE cgi_child[i]]
    BY <1>4 DEF Cgi!Reap
  <2>2. \A i \in Cgi!Idx : /\ Cgi!Live(i)' = Cgi!Live(i)
                           /\ Cgi!Live(i) => cgi_child'[i] = cgi_child[i]
    BY <2>1 DEF Cgi!Live
  <2>3. Cgi!Notified' = Cgi!Notified
    BY <2>1, <2>2 DEF Cgi!Notified
  <2>4. \A i \in Cgi!Idx : Cgi!Reports'[i] = Cgi!Reports[i]
    <3> SUFFICES ASSUME NEW i \in Cgi!Idx PROVE Cgi!Reports'[i] = Cgi!Reports[i]
      OBVIOUS
    <3>1. CASE Cgi!Live(i)
      BY <2>1, <2>2, <2>3, <3>1 DEF Cgi!Reports, Cgi!Coming
    <3>2. CASE ~ Cgi!Live(i)
      <4>1. Cgi!Notified[i] = 0 /\ Cgi!Coming(i) \in Nat /\ Cgi!Coming(i)' \in Nat
        BY <3>2 DEF Cgi!Notified, Cgi!Coming, Cgi!One
      <4> QED BY <2>3, <4>1 DEF Cgi!Reports
    <3> QED BY <3>1, <3>2
  <2>5. Cgi!AtParent' = Cgi!AtParent
    BY <2>1 DEF Cgi!AtParent
  <2> QED BY <1>0, <2>1, <2>3, <2>4, <2>5, CgiAsBefore
<1>5. CASE Cgi!KillChildren
  <2> DEFINE S == {i \in Cgi!Idx : Cgi!Told(i) /\ cgi_child[i] = "start"}
  <2>1. /\ UNCHANGED << notices, cgi_cedges, cgi_cevents, cgi_backlog, cgi_edges, cgi_events >>
        /\ cgi_child' = [i \in Cgi!Idx |-> IF i \in S THEN "dead" ELSE cgi_child[i]]
    BY <1>5 DEF Cgi!KillChildren, Cgi!ChildrenEnd
  <2>2. Cgi!AtParent' = Cgi!AtParent
    BY <2>1 DEF Cgi!AtParent
  <2>3. CASE S = {}
    <3>1. cgi_child' = cgi_child
      BY <2>1, <2>3 DEF CgiInv, CgiTypes
    <3> QED BY <2>1, <3>1, CgiNoNews
  <2>4. CASE S # {}
    <3>1. CgiExcused
      BY <2>1, <2>4 DEF CgiExcused, Cgi!Live
    <3>2. \A i \in Cgi!Idx : Cgi!Notified'[i] <= Cgi!Notified[i]
      BY <1>0, <2>1 DEF Cgi!Notified, Cgi!Live
    <3> QED BY <1>0, <2>1, <2>2, <3>1, <3>2, CgiAsBefore
  <2> QED BY <2>3, <2>4
<1>6. CASE Cgi!Dispatch
  <2>i. PICK i \in Cgi!Idx : i = sub_process_counter
    BY DEF CgiInv, CgiTypes
  <2>1. /\ notices' = IF Cgi!Live(i) THEN [notices EXCEPT ![i] = @ + 1] ELSE notices
        /\ cgi_cedges' = IF cgi_child[i] = "loop" THEN [cgi_cedges EXCEPT ![i] = @ \cup {"pipe"}] ELSE cgi_cedges
    BY <1>6, <2>i DEF Cgi!Dispatch
  <2>2. /\ UNCHANGED << cgi_child, cgi_cevents, cgi_backlog, cgi_edges >>
        /\ "listen" \in cgi_events /\ cgi_events' = cgi_events \ {"listen"}
    BY <1>6 DEF Cgi!Dispatch, Cgi!Handles, Cgi!childVars
  <2>3. Cgi!AtParent' = Cgi!AtParent - 1
    BY <2>2 DEF Cgi!AtParent, Cgi!One
  <2>4. CASE ~ Cgi!Live(i)
    <3>1. notices' = notices /\ CgiExcused
      BY <2>i, <2>1, <2>2, <2>4 DEF CgiExcused
    <3> QED BY <1>0, <2>2, <2>3, <3>1, CgiSame, CgiAsBefore
  <2>5. CASE Cgi!Live(i)
    <3>1. notices' = [notices EXCEPT ![i] = @ + 1] /\ notices[i] \in Nat /\ DOMAIN notices = Cgi!Idx
      BY <2>1, <2>5 DEF CgiInv, CgiTypes
    <3>2. \A j \in Cgi!Idx : Cgi!Notified'[j] = IF j = i THEN Cgi!Notified[i] + 1 ELSE Cgi!Notified[j]
      BY <2>1, <2>2, <2>5, <3>1 DEF Cgi!Notified, Cgi!Live
    <3>3. \A j \in Cgi!Idx : j # i => Cgi!Reports'[j] = Cgi!Reports[j]
      <4> SUFFICES ASSUME NEW j \in Cgi!Idx, j # i PROVE Cgi!Reports'[j] = Cgi!Reports[j]
        OBVIOUS
      <4>1. cgi_cedges'[j] = cgi_cedges[j]
        BY <2>1 DEF CgiInv, CgiTypes
      <4> QED BY <2>2, <3>2, <4>1 DEF Cgi!Reports, Cgi!Coming
    <3>4. CgiExcused \/ Cgi!Reports'[i] = Cgi!Reports[i] + 1
      <4> SUFFICES ASSUME ~ CgiExcused PROVE Cgi!Reports'[i] = Cgi!Reports[i] + 1
        OBVIOUS
      <4>1. "pipe" \notin cgi_cedges[i] /\ cgi_child[i] # "start"
        BY <2>1, <3>1 DEF CgiExcused
      <4>2. cgi_child[i] = "loop" /\ "pipe" \in cgi_cedges'[i]
        BY <2>1, <2>5, <4>1 DEF Cgi!Live, CgiInv, CgiTypes
      <4>3. Cgi!Coming(i)' = Cgi!Coming(i) + 1 /\ Cgi!Coming(i) \in Nat
        BY <2>2, <4>1, <4>2 DEF Cgi!Coming, Cgi!One
      <4>4. Cgi!Notified'[i] = Cgi!Notified[i] + 1 /\ Cgi!Notified[i] \in Nat
        BY <1>0, <2>1, <3>2
      <4>5. /\ Cgi!Reports'[i] = IF Cgi!Notified'[i] < Cgi!Coming(i)' THEN Cgi!Notified'[i] ELSE Cgi!Coming(i)'
            /\ Cgi!Reports[i] = IF Cgi!Notified[i] < Cgi!Coming(i) THEN Cgi!Notified[i] ELSE Cgi!Coming(i)
        BY <2>1 DEF Cgi!Reports
      <4> QED BY <4>3, <4>4, <4>5
    <3>5. /\ Cgi!AtParent' - Cgi!AtParent + Cgi!Notified'[i] - Cgi!Notified[i] <= Len(cgi_backlog') - Len(cgi_backlog)
          /\ CgiExcused \/ Cgi!AtParent' - Cgi!AtParent + Cgi!Reports'[i] - Cgi!Reports[i]
                             >= Len(cgi_backlog') - Len(cgi_backlog)
      <4>1. Cgi!Notified[i] \in Nat /\ Cgi!Reports[i] \in Nat /\ Cgi!Notified'[i] = Cgi!Notified[i] + 1
        BY <1>0, <2>1, <3>2
      <4> QED BY <1>0, <2>2, <2>3, <3>4, <4>1
    <3> QED BY <2>1, <3>2, <3>3, <3>5, CgiOfOne
  <2> QED BY <2>4, <2>5
<1> QED BY <1>1, <1>2, <1>3, <1>4, <1>5, <1>6 DEF Cgi!ParentStep

LEMMA CgiWorldMatches ==
  ASSUME CgiInv, CgiInv', CgiBooks, Cgi!NotifiedHaveConns, Cgi!World
  PROVE  CgiMatched
<1>0. /\ Cgi!AtParent \in Nat /\ Len(cgi_backlog) \in Nat
      /\ \A j \in Cgi!Idx : Cgi!Notified[j] \in Nat /\ Cgi!Reports[j] \in Nat
  BY CgiSums
<1>1. CASE Cgi!Terminate
  <2>1. /\ UNCHANGED << cgi_child, notices, cgi_backlog, cgi_edges, cgi_events, cgi_cevents >>
        /\ cgi_parent = "loop" => cgi_cedges' = cgi_cedges
    BY <1>1 DEF Cgi!Terminate, Cgi!childVars
  <2>2. cgi_parent # "loop" => CgiExcused
    BY DEF CgiExcused
  <2> QED BY <2>1, <2>2, CgiNoNews
<1>2. ASSUME NEW c \in Conns, Cgi!Arrive(c) \/ Cgi!HangUp(c) PROVE CgiMatched
  <2>1. UNCHANGED << cgi_child, notices, cgi_backlog, cgi_edges, cgi_events, cgi_cevents >> /\ Cgi!Reported(c)
    BY <1>2 DEF Cgi!Arrive, Cgi!HangUp, Cgi!childVars, Cgi!parentVars
  <2>2. \A i \in Cgi!Idx : "pipe" \in cgi_cedges'[i] <=> "pipe" \in cgi_cedges[i]
    BY <2>1, CgiConstants DEF Cgi!Reported
  <2> QED BY <2>1, <2>2, CgiNoNews
<1>3. ASSUME NEW c \in Conns, Cgi!ProgramEnds(c) PROVE CgiMatched
  <2>1. UNCHANGED << cgi_child, notices, cgi_backlog, cgi_edges, cgi_events, cgi_cevents, cgi_cedges >>
    BY <1>3 DEF Cgi!ProgramEnds, Cgi!parentVars
  <2> QED BY <2>1, CgiNoNews
<1>4. ASSUME NEW c \in Conns, Cgi!Connect(c) PROVE CgiMatched
  <2>1. /\ UNCHANGED << cgi_child, notices, cgi_cedges, cgi_cevents, cgi_events >> /\ cgi_backlog' = Append(cgi_backlog, c)
        /\ cgi_edges' = IF cgi_parent = "loop" THEN cgi_edges \cup {"listen"} ELSE cgi_edges
    BY <1>4 DEF Cgi!Connect, Cgi!parentVars, Cgi!childVars
  <2>2. Len(cgi_backlog') = Len(cgi_backlog) + 1
    BY <2>1 DEF CgiInv, CgiTypes
  <2>3. CgiExcused \/ Cgi!AtParent' = Cgi!AtParent + 1
    BY <1>0, <2>1, <2>2 DEF CgiExcused, Cgi!AtParent, Cgi!One
  <2>4. Cgi!AtParent' \in {Cgi!AtParent, Cgi!AtParent + 1}
    BY <1>0, <2>1 DEF Cgi!AtParent, Cgi!One
  <2>5. Cgi!AtParent' - Cgi!AtParent <= Len(cgi_backlog') - Len(cgi_backlog)
    <3>1. Cgi!AtParent' = Cgi!AtParent => Cgi!AtParent' - Cgi!AtParent <= Len(cgi_backlog') - Len(cgi_backlog)
      BY <1>0, <2>2
    <3>2. Cgi!AtParent' = Cgi!AtParent + 1 => Cgi!AtParent' - Cgi!AtParent <= Len(cgi_backlog') - Len(cgi_backlog)
      BY <1>0, <2>2
    <3> QED BY <2>4, <3>1, <3>2
  <2>6. \A i \in Cgi!Idx : Cgi!Coming(i)' = Cgi!Coming(i)
    BY <2>1 DEF Cgi!Coming
  <2>7. \A i \in Cgi!Idx : Cgi!Notified'[i] <= Cgi!Notified[i] /\ Cgi!Reports[i] <= Cgi!Reports'[i]
    BY <1>0, <2>1, <2>6, CgiSame
  <2>8. CgiExcused \/ Cgi!AtParent' - Cgi!AtParent >= Len(cgi_backlog') - Len(cgi_backlog)
    BY <1>0, <2>2, <2>3
  <2> QED BY <2>5, <2>7, <2>8, CgiAsBefore
<1> QED BY <1>1, <1>2, <1>3, <1>4 DEF Cgi!World

LEMMA CgiChildMatches ==
  ASSUME CgiInv, CgiInv', Cgi!NotifiedHaveConns, NEW i \in Cgi!Idx, Cgi!ChildStep(i) \/ Cgi!Crash(i)
  PROVE  CgiMatched
<1>0. /\ Cgi!AtParent \in Nat /\ Len(cgi_backlog) \in Nat
      /\ \A j \in Cgi!Idx : Cgi!Notified[j] \in Nat /\ Cgi!Reports[j] \in Nat
  BY CgiSums
<1> DEFINE Typed == /\ notices \in [Cgi!Idx -> Nat] /\ cgi_cedges \in [Cgi!Idx -> SUBSET (Conns \cup {"pipe"})]
                    /\ cgi_child \in [Cgi!Idx -> {"none", "start", "loop", "dead", "reaped"}]
                    /\ cgi_cevents \in [Cgi!Idx -> SUBSET (Conns \cup {"pipe"})]
<1>t. Typed
  BY DEF CgiInv, CgiTypes
<1>1. CASE Cgi!ChildSetup(i)
  <2>1. /\ UNCHANGED << notices, cgi_cevents, cgi_backlog, cgi_edges, cgi_events >> /\ cgi_child[i] = "start"
        /\ cgi_child' = [cgi_child EXCEPT ![i] = "loop"]
        /\ cgi_cedges' = [cgi_cedges EXCEPT ![i] =
                            IF notices[i] > 0 \/ Cgi!Orphan(i, cgi_parent, cgi_child') THEN {"pipe"} ELSE {}]
    BY <1>1 DEF Cgi!ChildSetup, Cgi!parentVars
  <2>2. Cgi!AtParent' = Cgi!AtParent
    BY <2>1 DEF Cgi!AtParent
  <2>3. \A j \in Cgi!Idx : Cgi!Live(j)' = Cgi!Live(j)
    BY <1>t, <2>1 DEF Cgi!Live
  <2>4. Cgi!Notified' = Cgi!Notified
    BY <2>1, <2>3 DEF Cgi!Notified
  <2>5. \A j \in Cgi!Idx : j # i => Cgi!Reports'[j] = Cgi!Reports[j]
    <3> SUFFICES ASSUME NEW j \in Cgi!Idx, j # i PROVE Cgi!Reports'[j] = Cgi!Reports[j]
      OBVIOUS
    <3>1. cgi_cedges'[j] = cgi_cedges[j] /\ cgi_child'[j] = cgi_child[j]
      BY <1>t, <2>1
    <3> QED BY <2>1, <2>4, <3>1 DEF Cgi!Reports, Cgi!Coming
  <2>6. Cgi!Reports'[i] >= Cgi!Reports[i]
    <3>1. Cgi!Notified[i] = notices[i] /\ notices[i] \in Nat /\ Cgi!Coming(i) = 1
      BY <1>t, <2>1 DEF Cgi!Notified, Cgi!Live, Cgi!Coming
    <3>2. cgi_child'[i] = "loop" /\ (notices[i] > 0 => "pipe" \in cgi_cedges'[i])
      BY <1>t, <2>1
    <3>3. Cgi!Coming(i)' \in Nat /\ (notices[i] > 0 => Cgi!Coming(i)' >= 1)
      BY <3>2 DEF Cgi!Coming, Cgi!One
    <3>4. Cgi!Reports'[i] = IF notices[i] < Cgi!Coming(i)' THEN notices[i] ELSE Cgi!Coming(i)'
      BY <2>4, <3>1 DEF Cgi!Reports
    <3>5. Cgi!Reports[i] = IF notices[i] < 1 THEN notices[i] ELSE 1
      BY <3>1 DEF Cgi!Reports
    <3> QED BY <3>1, <3>3, <3>4, <3>5
  <2>7. \A j \in Cgi!Idx : Cgi!Reports[j] <= Cgi!Reports'[j]
    BY <1>0, <2>5, <2>6
  <2> QED BY <1>0, <2>1, <2>2, <2>4, <2>7, CgiAsBefore
<1>2. CASE Cgi!Exit(i) \/ Cgi!Crash(i)
  <2>1. /\ UNCHANGED << notices, cgi_cevents, cgi_backlog, cgi_edges, cgi_events >> /\ Cgi!Live(i)
        /\ \A j \in Cgi!Idx : cgi_child'[j] = IF j = i THEN "dead" ELSE cgi_child[j]
    BY <1>2 DEF Cgi!Exit, Cgi!Crash, Cgi!ChildrenEnd, Cgi!Live
  <2>2. Cgi!AtParent' = Cgi!AtParent /\ CgiExcused
    BY <2>1 DEF Cgi!AtParent, CgiExcused
  <2>3. \A j \in Cgi!Idx : Cgi!Notified'[j] <= Cgi!Notified[j]
    BY <1>t, <1>0, <2>1 DEF Cgi!Notified, Cgi!Live
  <2> QED BY <1>0, <2>1, <2>2, <2>3, CgiAsBefore
<1>3. CASE Cgi!Test(i) \/ Cgi!Blocks(i) \/ Cgi!TermHandler(i) \/ Cgi!ChildHandler(i)
  <2>1. UNCHANGED << cgi_child, notices, cgi_backlog, cgi_edges, cgi_events, cgi_cevents, cgi_cedges >>
    BY <1>3 DEF Cgi!Test, Cgi!Blocks, Cgi!TermHandler, Cgi!ChildHandler, Cgi!parentVars
  <2> QED BY <2>1, CgiNoNews
<1>4. CASE Cgi!EpollWait(i)
  <2>1. /\ UNCHANGED << cgi_child, notices, cgi_backlog, cgi_edges, cgi_events >>
        /\ cgi_cevents' = [cgi_cevents EXCEPT ![i] = cgi_cedges[i]] /\ cgi_cedges' = [cgi_cedges EXCEPT ![i] = {}]
    BY <1>4 DEF Cgi!EpollWait, Cgi!parentVars
  <2>2. cgi_cevents[i] = {}
    BY <1>4 DEF Cgi!EpollWait, CgiInv, CgiKept, HandledFirst
  <2>3. Cgi!AtParent' = Cgi!AtParent
    BY <2>1 DEF Cgi!AtParent
  <2>4. \A j \in Cgi!Idx : Cgi!Coming(j)' = Cgi!Coming(j)
    BY <1>t, <2>1, <2>2 DEF Cgi!Coming, Cgi!One
  <2> QED BY <1>0, <2>1, <2>3, <2>4, CgiSame, CgiAsBefore
<1>5. CASE Cgi!PipeEmpty(i)
  <2>1. /\ UNCHANGED << cgi_child, notices, cgi_cedges, cgi_backlog, cgi_edges, cgi_events >> /\ notices[i] = 0
        /\ cgi_cevents' = [cgi_cevents EXCEPT ![i] = @ \ {"pipe"}]
    BY <1>5 DEF Cgi!PipeEmpty, Cgi!Done, Cgi!parentVars
  <2>2. Cgi!AtParent' = Cgi!AtParent
    BY <2>1 DEF Cgi!AtParent
  <2>3. Cgi!Notified' = Cgi!Notified /\ Cgi!Notified[i] = 0
    BY <2>1, CgiSame DEF Cgi!Notified
  <2>4. \A j \in Cgi!Idx : Cgi!Reports'[j] = Cgi!Reports[j]
    <3> SUFFICES ASSUME NEW j \in Cgi!Idx PROVE Cgi!Reports'[j] = Cgi!Reports[j]
      OBVIOUS
    <3>1. CASE j = i
      <4>1. Cgi!Coming(i) \in Nat /\ Cgi!Coming(i)' \in Nat
        BY DEF Cgi!Coming, Cgi!One
      <4> QED BY <2>3, <3>1, <4>1 DEF Cgi!Reports
    <3>2. CASE j # i
      <4>1. cgi_cevents'[j] = cgi_cevents[j]
        BY <1>t, <2>1, <3>2
      <4> QED BY <2>1, <2>3, <4>1 DEF Cgi!Reports, Cgi!Coming
    <3> QED BY <3>1, <3>2
  <2> QED BY <1>0, <2>1, <2>2, <2>3, <2>4, CgiAsBefore
<1>6. CASE Cgi!Accept(i)
  <2>1. /\ UNCHANGED << cgi_child, cgi_edges, cgi_events >> /\ notices[i] > 0 /\ cgi_child[i] = "loop"
        /\ "pipe" \in cgi_cevents[i] /\ cgi_cevents' = [cgi_cevents EXCEPT ![i] = @ \ {"pipe"}]
        /\ notices' = [notices EXCEPT ![i] = @ - 1]
    BY <1>6 DEF Cgi!Accept, Cgi!Done, Cgi!ChildHandles, Cgi!parentVars, Cgi!childVars
  <2>2. Cgi!AtParent' = Cgi!AtParent
    BY <2>1 DEF Cgi!AtParent
  <2>3. \A j \in Cgi!Idx : Cgi!Notified'[j] = IF j = i THEN notices[i] - 1 ELSE Cgi!Notified[j]
    BY <1>t, <2>1 DEF Cgi!Notified, Cgi!Live
  <2>4. Cgi!Notified[i] = notices[i] /\ notices[i] \in Nat
    BY <1>t, <2>1 DEF Cgi!Notified, Cgi!Live
  <2>5. Len(cgi_backlog) > 0
    <3>1. SumFunction(Cgi!Notified) \in Nat /\ Cgi!Notified[i] <= SumFunction(Cgi!Notified)
      BY CgiSums, SumNat
    <3>2. SumFunction(Cgi!Notified) + Cgi!AtParent <= Len(cgi_backlog)
      BY CgiSumFunction DEF Cgi!NotifiedHaveConns
    <3> QED BY <1>0, <2>1, <2>4, <3>1, <3>2
  <2>6. cgi_backlog \in Seq(Conns) /\ cgi_backlog # <<>>
    BY <2>5 DEF CgiInv, CgiTypes
  <2>7. Len(cgi_backlog') = Len(cgi_backlog) - 1
    <3>1. cgi_backlog' = Tail(cgi_backlog)
      BY <1>6, <2>6 DEF Cgi!Accept
    <3> QED BY <2>6, <3>1
  <2>8. \A j \in Cgi!Idx : "pipe" \in cgi_cedges'[j] <=> "pipe" \in cgi_cedges[j]
    <3>1. Head(cgi_backlog) # "pipe"
      BY <2>6, CgiConstants
    <3>2. cgi_cedges' = cgi_cedges \/ cgi_cedges' = [cgi_cedges EXCEPT ![i] = @ \cup {Head(cgi_backlog)}]
      BY <1>6, <2>6 DEF Cgi!Accept
    <3> QED BY <1>t, <3>1, <3>2
  <2>9. \A j \in Cgi!Idx : j # i => Cgi!Reports'[j] = Cgi!Reports[j]
    <3> SUFFICES ASSUME NEW j \in Cgi!Idx, j # i PROVE Cgi!Reports'[j] = Cgi!Reports[j]
      OBVIOUS
    <3>1. cgi_cevents'[j] = cgi_cevents[j]
      BY <1>t, <2>1
    <3>2. Cgi!Coming(j)' = Cgi!Coming(j)
      BY <2>1, <2>8, <3>1 DEF Cgi!Coming, Cgi!One
    <3> QED BY <2>3, <3>2 DEF Cgi!Reports
  <2>10. Cgi!Reports'[i] = Cgi!Reports[i] - 1
    <3>1. cgi_cevents'[i] = cgi_cevents[i] \ {"pipe"}
      BY <1>t, <2>1
    <3>2. Cgi!Coming(i) \in Nat /\ Cgi!Coming(i) >= 1 /\ Cgi!Coming(i)' = Cgi!Coming(i) - 1
      BY <2>1, <2>8, <3>1 DEF Cgi!Coming, Cgi!One
    <3> QED BY <2>1, <2>3, <2>4, <3>2 DEF Cgi!Reports
  <2>11. /\ Cgi!AtParent' - Cgi!AtParent + Cgi!Notified'[i] - Cgi!Notified[i] <= Len(cgi_backlog') - Len(cgi_backlog)
         /\ Cgi!AtParent' - Cgi!AtParent + Cgi!Reports'[i] - Cgi!Reports[i] >= Len(cgi_backlog') - Len(cgi_backlog)
    BY <1>0, <2>2, <2>3, <2>4, <2>7, <2>10
  <2> QED BY <2>3, <2>9, <2>11, CgiOfOne
<1>7. ASSUME NEW c \in Conns, Cgi!ReadStep(i, c) PROVE CgiMatched
  <2>1. UNCHANGED << cgi_child, notices, cgi_backlog, cgi_edges, cgi_events >>
    BY <1>7 DEF Cgi!ReadStep, Cgi!RecvAgain, Cgi!RecvNothing, Cgi!RecvPart, Cgi!RecvGhost, Cgi!RecvName,
                Cgi!RecvForkFails, Cgi!Recv, Cgi!parentVars, Cgi!childVars
  <2>2. /\ cgi_cedges' = cgi_cedges \/ cgi_cedges' = [cgi_cedges EXCEPT ![i] = @ \ {c}]
        /\ cgi_cevents' = cgi_cevents \/ cgi_cevents' = [cgi_cevents EXCEPT ![i] = @ \ {c}]
    BY <1>7 DEF Cgi!ReadStep, Cgi!RecvAgain, Cgi!RecvNothing, Cgi!RecvPart, Cgi!RecvGhost, Cgi!RecvName,
                Cgi!RecvForkFails, Cgi!Close, Cgi!Done
  <2>3. c # "pipe"
    BY CgiConstants
  <2>4. \A j \in Cgi!Idx : /\ "pipe" \in cgi_cedges'[j] <=> "pipe" \in cgi_cedges[j]
                           /\ "pipe" \in cgi_cevents'[j] <=> "pipe" \in cgi_cevents[j]
    BY <1>t, <2>2, <2>3
  <2> QED BY <2>1, <2>4, CgiNoNews
<1> QED BY <1>1, <1>2, <1>3, <1>4, <1>5, <1>6, <1>7 DEF Cgi!ChildStep

LEMMA CgiNotifications ==
  MCSpec => [](CgiInv /\ CgiBooks /\ Cgi!NotifiedHaveConns) /\ Cgi!PassedOverByMergeOrDeath
<1>1. Cgi!Init => CgiBooks /\ Cgi!NotifiedHaveConns
  <2> SUFFICES ASSUME Cgi!Init PROVE Cgi!NotifiedHaveConns
    BY CgiBooksInit
  <2>1. \A i \in Cgi!Idx : Cgi!Notified[i] = 0
    BY DEF Cgi!Init, Cgi!Notified, Cgi!Live
  <2>2. SumFunction(Cgi!Notified) = 0
    BY <2>1, CgiSums, CgiInit, SumOfZeros
  <2>3. Cgi!AtParent = 0 /\ Len(cgi_backlog) = 0
    BY DEF Cgi!Init, Cgi!AtParent, Cgi!One
  <2> QED BY <2>2, <2>3, CgiSumFunction DEF Cgi!NotifiedHaveConns
<1>2. CgiInv /\ CgiInv' /\ CgiBooks /\ Cgi!NotifiedHaveConns /\ [Cgi!Next]_cgiVars
        => CgiBooks' /\ Cgi!NotifiedHaveConns' /\ [Cgi!Unheard' > Cgi!Unheard => CgiExcused]_(Cgi!vars)
  <2> SUFFICES ASSUME CgiInv, CgiInv', CgiBooks, Cgi!NotifiedHaveConns, [Cgi!Next]_cgiVars PROVE CgiMatched
    BY CgiBooksNext DEF CgiMatched
  <2>1. CASE UNCHANGED cgiVars
    <3>1. UNCHANGED << cgi_child, notices, cgi_backlog, cgi_edges, cgi_events, cgi_cevents, cgi_cedges >>
      BY <2>1 DEF cgiVars
    <3> QED BY <3>1, CgiNoNews
  <2> QED BY <2>1, CgiWorldMatches, CgiParentMatches, CgiChildMatches DEF Cgi!Next
<1> QED BY <1>1, <1>2, CgiSteps, CgiInvariant, PTL DEF Cgi!PassedOverByMergeOrDeath, CgiExcused

\* A child is in the table until it is reaped, and the parent stops when none is there.
LEMMA CgiLast == CgiInv /\ CgiBooks => Cgi!LastToLeave
BY DEF CgiInv, CgiTypes, CgiBooks, CgiPidsMatch, CgiInOrder, Cgi!LastToLeave

-----------------------------------------------------------------------------
\* In both pools there is a connection for every notification, and a connection is
\* passed over only when it came early, when reports merge or when a child is dead or
\* gone: for any number of children, connections and signals (NotificationsMatchConns).
THEOREM EveryNotificationHasItsConn == MCSpec => NotificationsMatchConns
BY PoolNotifications, CgiNotifications, PTL DEF NotificationsMatchConns

-----------------------------------------------------------------------------
\* Both pools keep their types: among them, in PoolCgi, that a connection is held by a
\* child that is there, that what was read fits its buffer, and that a program runs for
\* a line that named it and is reaped by the child that forked it (TypesOK).
THEOREM PoolsKeepTypes == MCSpec => []TypesOK
<1>1. CgiInv => Cgi!TypeOK
  BY DEF CgiInv, CgiTypes, CgiKept, HeldByLive, Unfinished, OwnPrograms, OwnProgram, Cgi!TypeOK, Cgi!Live
<1>2. PoolInv /\ CgiInv => TypesOK
  BY <1>1 DEF PoolInv, TypesOK
<1> QED BY <1>2, PoolInvariant, CgiInvariant, PTL

-----------------------------------------------------------------------------
(* Connect                                                                  *)

\* Where the call is says what it has done to its socket so far.
ConnectAt ==
  /\ ret = "none" \/ connect_pc = "done"
  /\ connect_pc = "start" => sock = "none" /\ link = "none"
  /\ connect_pc \in {"connect", "select", "selected"} => sock = "open" /\ link # "none"
  /\ connect_pc = "selected" => link \in {"up", "failed", "lost"}
  /\ connect_pc = "connect" => block = (how = "timeout_connect")
ConnectInv == ConnectAt /\ Connects!ReturnsWhatItSays

LEMMA ConnectNext == ASSUME ConnectInv, [Connects!Next]_connectVars PROVE ConnectInv'
<1> USE DEF ConnectInv, ConnectAt, Connects!ReturnsWhatItSays
<1>1. CASE UNCHANGED connectVars
  BY <1>1 DEF connectVars
<1>2. CASE Connects!Call
  BY <1>2 DEF Connects!Call
<1>3. CASE Connects!Connected
  BY <1>3 DEF Connects!Connected, Connects!Return
<1>4. CASE Connects!BlockingConnect
  BY <1>4 DEF Connects!BlockingConnect, Connects!Return
<1>5. CASE Connects!Select
  BY <1>5 DEF Connects!Select, Connects!Writable, Connects!CloseAndFail, Connects!Return
<1>6. CASE Connects!SocketError
  <2>1. connect_pc = "selected" /\ connect_pc' = "done" /\ UNCHANGED << how, junk, link, waited >>
    BY <1>6 DEF Connects!SocketError, Connects!CloseAndFail, Connects!Return
  <2>2. CASE link = "up"
    <3>1. block' /\ ret' = "sockfd" /\ sock' = sock
      BY <1>6, <2>2 DEF Connects!SocketError, Connects!Return
    <3> QED BY <2>1, <2>2, <3>1
  <2>3. CASE link # "up"
    <3>1. ret' = "-1"
      BY <1>6, <2>3 DEF Connects!SocketError, Connects!CloseAndFail, Connects!Return
    <3>2. link \in {"failed", "lost"}
      BY <2>1, <2>3
    <3> QED BY <2>1, <3>1, <3>2
  <2> QED BY <2>2, <2>3
<1>7. CASE Connects!Network \/ Connects!Clock
  BY <1>7 DEF Connects!Network, Connects!Clock
<1> QED BY <1>1, <1>2, <1>3, <1>4, <1>5, <1>6, <1>7 DEF Connects!Next

\* A socket that is returned is connected and blocks, and a failure has its cause, for
\* every time to connect in (Connect).
THEOREM EveryReturnHasItsCause == MCSpec => []Connects!ReturnsWhatItSays
<1>1. MCInit => ConnectInv
  BY DEF MCInit, Connects!Init, ConnectInv, ConnectAt, Connects!ReturnsWhatItSays
<1>2. [MCNext]_<< program, vars, cgiVars, shotVars, lockVars, forkVars, semVars, connectVars >>
        => [Connects!Next]_connectVars
  BY DEF MCNext, Keep
<1>3. ConnectInv => Connects!ReturnsWhatItSays
  BY DEF ConnectInv
<1> QED BY <1>1, <1>2, <1>3, ConnectNext, PTL DEF MCSpec
-----------------------------------------------------------------------------
(* MutualLock                                                               *)

\* Who holds what, and what the variables are worth by how far the threads are.
Increments == {"lock second", "add", "unlock second", "unlock first", "end", "joined"}
HasAdded == {"unlock second", "unlock first", "end", "joined"}
Other(t) == IF t = "main" THEN "another" ELSE "main"
LockTypes ==
  /\ lock_pc \in [Locks!Threads -> Increments \cup {"lock first", "increment"}] /\ lock_pc["another"] # "joined"
  /\ lock_mutex \in [{"a", "b"} -> {"free", "main", "another"}] /\ val \in [{"a", "b"} -> Nat]
LockHolds ==
  \A t \in Locks!Threads :
    /\ lock_mutex[Locks!First(t)] = t <=> lock_pc[t] \notin {"lock first", "end", "joined"}
    /\ lock_mutex[Locks!Second(t)] = t <=> lock_pc[t] \in {"add", "unlock second"}
Counted(t) == IF lock_pc[t] \in Increments THEN 1 ELSE 0
LockValues ==
  /\ \A t \in Locks!Threads :
       lock_pc[Other(t)] \notin HasAdded =>
         IF lock_pc[t] \in HasAdded
         THEN val[Locks!First(t)] = 1 /\ val[Locks!Second(t)] = 1 + Counted(Other(t))
         ELSE val[Locks!First(t)] = Counted(t)
  /\ (\A t \in Locks!Threads : lock_pc[t] \in HasAdded) => {val["a"], val["b"]} = {2, 3}
LockInv == LockTypes /\ LockHolds /\ LockValues

LEMMA LockNames ==
  /\ Locks!Threads = {"main", "another"}
  /\ Locks!First("main") = "a" /\ Locks!Second("main") = "b"
  /\ Locks!First("another") = "b" /\ Locks!Second("another") = "a"
  /\ Other("main") = "another" /\ Other("another") = "main"
BY DEF Locks!Threads, Locks!First, Locks!Second, Other

LEMMA LockInit == Locks!Init => LockInv
<1> SUFFICES ASSUME Locks!Init PROVE LockInv
  OBVIOUS
<1>1. LockTypes
  BY DEF Locks!Init, LockTypes, Increments, Locks!Threads
<1>2. LockHolds /\ LockValues
  BY LockNames DEF Locks!Init, LockHolds, LockValues, HasAdded, Increments, Counted
<1> QED BY <1>1, <1>2 DEF LockInv

\* A statement of one thread: what it does to its mutexes and variables.
LEMMA LockStep ==
  ASSUME LockInv, NEW t \in Locks!Threads, Locks!Step(t)
  PROVE  LockInv'
<1> DEFINE o == Other(t)
           x == Locks!First(t)
           y == Locks!Second(t)
<1>n. /\ Locks!Threads = {t, o} /\ {"a", "b"} = {x, y} /\ x # y /\ t # o
      /\ Locks!First(o) = y /\ Locks!Second(o) = x /\ Other(o) = t
      /\ t \in {"main", "another"} /\ o \in {"main", "another"} /\ x \in {"a", "b"} /\ y \in {"a", "b"}
  BY LockNames
<1>t. /\ lock_pc[t] \in Increments \cup {"lock first", "increment"} /\ lock_pc[o] \in Increments \cup {"lock first", "increment"}
      /\ lock_mutex[x] \in {"free", t, o} /\ lock_mutex[y] \in {"free", t, o}
  BY <1>n DEF LockInv, LockTypes
<1>w. val[x] \in Nat /\ val[y] \in Nat
  BY <1>n DEF LockInv, LockTypes
<1>h. /\ lock_mutex[x] = t <=> lock_pc[t] \notin {"lock first", "end", "joined"}
      /\ lock_mutex[y] = t <=> lock_pc[t] \in {"add", "unlock second"}
      /\ lock_mutex[y] = o <=> lock_pc[o] \notin {"lock first", "end", "joined"}
      /\ lock_mutex[x] = o <=> lock_pc[o] \in {"add", "unlock second"}
  BY <1>n DEF LockInv, LockHolds
<1>v. /\ lock_pc[o] \notin HasAdded => IF lock_pc[t] \in HasAdded THEN val[x] = 1 /\ val[y] = 1 + Counted(o)
                                                                 ELSE val[x] = Counted(t)
      /\ lock_pc[t] \notin HasAdded => IF lock_pc[o] \in HasAdded THEN val[y] = 1 /\ val[x] = 1 + Counted(t)
                                                                 ELSE val[y] = Counted(o)
      /\ lock_pc[t] \in HasAdded /\ lock_pc[o] \in HasAdded => {val[x], val[y]} = {2, 3}
  BY <1>n DEF LockInv, LockValues
<1>u. /\ lock_pc[t] \notin HasAdded /\ lock_pc[o] \notin HasAdded => val[x] = Counted(t) /\ val[y] = Counted(o)
      /\ lock_pc[t] \notin HasAdded /\ lock_pc[o] \in HasAdded => val[y] = 1 /\ val[x] = 1 + Counted(t)
  BY <1>v
<1>1. lock_pc'[o] = lock_pc[o] /\ lock_pc'[t] \in Increments \cup {"lock first", "increment"} /\ lock_pc'[t] # "joined"
  BY <1>n DEF LockInv, LockTypes, Locks!Step, Locks!LockFirst, Locks!Increment, Locks!LockSecond, Locks!Add,
              Locks!UnlockSecond, Locks!UnlockFirst, Locks!Goes, Increments
<1>2. SUFFICES
        /\ LockTypes'
        /\ lock_mutex'[x] = t <=> lock_pc'[t] \notin {"lock first", "end", "joined"}
        /\ lock_mutex'[y] = t <=> lock_pc'[t] \in {"add", "unlock second"}
        /\ lock_mutex'[y] = o <=> lock_pc'[o] \notin {"lock first", "end", "joined"}
        /\ lock_mutex'[x] = o <=> lock_pc'[o] \in {"add", "unlock second"}
        /\ lock_pc'[o] \notin HasAdded => IF lock_pc'[t] \in HasAdded THEN val'[x] = 1 /\ val'[y] = 1 + Counted(o)'
                                                                     ELSE val'[x] = Counted(t)'
        /\ lock_pc'[t] \notin HasAdded => IF lock_pc'[o] \in HasAdded THEN val'[y] = 1 /\ val'[x] = 1 + Counted(t)'
                                                                     ELSE val'[y] = Counted(o)'
        /\ lock_pc'[t] \in HasAdded /\ lock_pc'[o] \in HasAdded => {val'[x], val'[y]} = {2, 3}
  <2>1. {val'["a"], val'["b"]} = {val'[x], val'[y]}
    BY <1>n
  <2>2. LockHolds'
    BY <1>n DEF LockHolds
  <2>3. ASSUME NEW s \in Locks!Threads, lock_pc'[Other(s)] \notin HasAdded
        PROVE  IF lock_pc'[s] \in HasAdded
               THEN val'[Locks!First(s)] = 1 /\ val'[Locks!Second(s)] = 1 + Counted(Other(s))'
               ELSE val'[Locks!First(s)] = Counted(s)'
    <3>1. CASE s = t
      BY <2>3, <3>1
    <3>2. CASE s = o
      <4>1. Counted(Other(s))' = Counted(t)' /\ Counted(s)' = Counted(o)'
        BY <1>n, <3>2 DEF Counted
      <4> QED BY <1>n, <2>3, <3>2, <4>1
    <3> QED BY <1>n, <3>1, <3>2
  <2>4. LockValues'
    BY <1>n, <2>1, <2>3 DEF LockValues
  <2> QED BY <2>2, <2>4 DEF LockInv
<1>3. LockTypes'
  <2>1. lock_pc' \in [Locks!Threads -> Increments \cup {"lock first", "increment"}] /\ lock_pc'["another"] # "joined"
    <3>1. lock_pc' = [lock_pc EXCEPT ![t] = lock_pc'[t]]
      BY DEF LockInv, LockTypes, Locks!Step, Locks!LockFirst, Locks!Increment, Locks!LockSecond, Locks!Add,
             Locks!UnlockSecond, Locks!UnlockFirst, Locks!Goes
    <3> QED BY <1>n, <1>1, <3>1 DEF LockInv, LockTypes
  <2>2. lock_mutex' \in [{"a", "b"} -> {"free", "main", "another"}]
    BY <1>n DEF LockInv, LockTypes, Locks!Step, Locks!LockFirst, Locks!Increment, Locks!LockSecond, Locks!Add,
                Locks!UnlockSecond, Locks!UnlockFirst, Locks!Locks, Locks!Unlocks
  <2>3. val' \in [{"a", "b"} -> Nat]
    <3>1. CASE val' = val
      BY <3>1 DEF LockInv, LockTypes
    <3>2. CASE Locks!Increment(t)
      <4>1. val' = [m \in {"a", "b"} |-> IF m = x THEN val[x] + 1 ELSE val[m]]
        BY <1>n, <3>2 DEF LockInv, LockTypes, Locks!Increment
      <4>2. \A m \in {"a", "b"} : val[m] \in Nat
        BY DEF LockInv, LockTypes
      <4> QED BY <1>w, <4>1, <4>2
    <3>3. CASE Locks!Add(t)
      <4>1. val' = [m \in {"a", "b"} |-> IF m = x THEN val[x] + val[y] ELSE val[y] + 1]
        BY <1>n, <3>3 DEF LockInv, LockTypes, Locks!Add
      <4> QED BY <1>w, <4>1
    <3> QED BY <3>1, <3>2, <3>3 DEF Locks!Step, Locks!LockFirst, Locks!LockSecond, Locks!UnlockSecond, Locks!UnlockFirst
  <2> QED BY <2>1, <2>2, <2>3 DEF LockTypes
<1> DEFINE Moves(from, to) == lock_pc[t] = from /\ lock_pc'[t] = to
<1>4. \A from, to : Locks!Goes(t, from, to) => Moves(from, to)
  BY DEF Locks!Goes, LockInv, LockTypes
<1>5. CASE Locks!LockFirst(t)
  <2>1. Moves("lock first", "increment") /\ lock_mutex[x] = "free" /\ lock_mutex'[x] = t /\ lock_mutex'[y] = lock_mutex[y]
        /\ val' = val
    BY <1>5, <1>n, <1>4 DEF Locks!LockFirst, Locks!Locks, LockInv, LockTypes
  <2> HIDE DEF x, y, o
  <2> QED BY <1>n, <1>t, <1>h, <1>v, <1>1, <1>3, <2>1 DEF HasAdded, Increments, Counted
<1>6. CASE Locks!Increment(t)
  <2>v. val'[x] = val[x] + 1 /\ val'[y] = val[y]
    BY <1>6, <1>n DEF Locks!Increment, LockInv, LockTypes
  <2>1. Moves("increment", "lock second") /\ lock_mutex' = lock_mutex
    BY <1>6, <1>n, <1>4 DEF Locks!Increment, LockInv, LockTypes
  <2>2. Counted(t) = 0 /\ Counted(t)' = 1 /\ lock_pc[t] \notin HasAdded /\ lock_pc'[t] \notin HasAdded
    BY <2>1 DEF Counted, Increments, HasAdded
  <2>3. Counted(o)' = Counted(o) /\ (lock_pc'[o] \in HasAdded <=> lock_pc[o] \in HasAdded)
    BY <1>1 DEF Counted
  <2>4. /\ lock_pc[o] \notin HasAdded => val'[x] = Counted(t)' /\ val'[y] = Counted(o)'
        /\ lock_pc[o] \in HasAdded => val'[y] = 1 /\ val'[x] = 1 + Counted(t)'
    <3>1. lock_pc[o] \notin HasAdded => val[x] = 0 /\ val[y] = Counted(o)
      BY <1>u, <2>2
    <3>2. lock_pc[o] \in HasAdded => val[x] = 1 /\ val[y] = 1
      BY <1>u, <2>2
    <3>3. lock_pc[o] \notin HasAdded => val'[x] = 1 /\ val'[y] = Counted(o)
      BY <2>v, <3>1
    <3>4. lock_pc[o] \in HasAdded => val'[x] = 2 /\ val'[y] = 1
      BY <2>v, <3>2
    <3> QED BY <2>2, <2>3, <3>3, <3>4
  <2>5. /\ lock_mutex'[x] = t <=> lock_pc'[t] \notin {"lock first", "end", "joined"}
        /\ lock_mutex'[y] = t <=> lock_pc'[t] \in {"add", "unlock second"}
        /\ lock_mutex'[y] = o <=> lock_pc'[o] \notin {"lock first", "end", "joined"}
        /\ lock_mutex'[x] = o <=> lock_pc'[o] \in {"add", "unlock second"}
    BY <1>h, <1>1, <2>1
  <2> HIDE DEF x, y, o
  <2> QED BY <1>3, <2>2, <2>3, <2>4, <2>5
<1>7. CASE Locks!LockSecond(t)
  <2>1. Moves("lock second", "add") /\ lock_mutex[y] = "free" /\ lock_mutex'[y] = t /\ lock_mutex'[x] = lock_mutex[x]
        /\ val' = val
    BY <1>7, <1>n, <1>4 DEF Locks!LockSecond, Locks!Locks, LockInv, LockTypes
  <2> HIDE DEF x, y, o
  <2> QED BY <1>n, <1>t, <1>h, <1>v, <1>1, <1>3, <2>1 DEF HasAdded, Increments, Counted
<1>8. CASE Locks!Add(t)
  <2>v. val'[x] = val[x] + val[y] /\ val'[y] = val[y] + 1
    BY <1>8, <1>n DEF Locks!Add, LockInv, LockTypes
  <2>1. Moves("add", "unlock second") /\ lock_mutex' = lock_mutex
    BY <1>8, <1>n, <1>4 DEF Locks!Add, LockInv, LockTypes
  <2>2. lock_pc[o] \in {"lock first", "end", "joined"}
    BY <1>n, <1>t, <1>h, <2>1 DEF Increments
  <2>3. Counted(t) = 1 /\ Counted(t)' = 1 /\ lock_pc[t] \notin HasAdded /\ lock_pc'[t] \in HasAdded
    BY <2>1 DEF Counted, Increments, HasAdded
  <2>4. Counted(o)' = Counted(o) /\ (lock_pc'[o] \in HasAdded <=> lock_pc[o] \in HasAdded)
    BY <1>1 DEF Counted
  <2>5. lock_pc[o] \notin HasAdded => val'[x] = 1 /\ val'[y] = 1 + Counted(o)'
    <3>1. lock_pc[o] \notin HasAdded => Counted(o) = 0
      BY <2>2 DEF Counted, Increments, HasAdded
    <3>2. lock_pc[o] \notin HasAdded => val[x] = 1 /\ val[y] = 0
      BY <1>u, <2>3, <3>1
    <3>3. lock_pc[o] \notin HasAdded => val'[x] = 1 /\ val'[y] = 1
      BY <2>v, <3>2
    <3> QED BY <2>4, <3>1, <3>3
  <2>6. lock_pc[o] \in HasAdded => val'[x] = 3 /\ val'[y] = 2
    <3>1. lock_pc[o] \in HasAdded => val[x] = 2 /\ val[y] = 1
      BY <1>u, <2>3
    <3> QED BY <2>v, <3>1
  <2>7. /\ lock_mutex'[x] = t <=> lock_pc'[t] \notin {"lock first", "end", "joined"}
        /\ lock_mutex'[y] = t <=> lock_pc'[t] \in {"add", "unlock second"}
        /\ lock_mutex'[y] = o <=> lock_pc'[o] \notin {"lock first", "end", "joined"}
        /\ lock_mutex'[x] = o <=> lock_pc'[o] \in {"add", "unlock second"}
    BY <1>h, <1>1, <2>1
  <2> HIDE DEF x, y, o
  <2> QED BY <1>3, <2>3, <2>4, <2>5, <2>6, <2>7
<1>9. CASE Locks!UnlockSecond(t)
  <2>1. Moves("unlock second", "unlock first") /\ lock_mutex'[y] = "free" /\ lock_mutex'[x] = lock_mutex[x] /\ val' = val
    BY <1>9, <1>n, <1>4 DEF Locks!UnlockSecond, Locks!Unlocks, LockInv, LockTypes
  <2> HIDE DEF x, y, o
  <2> QED BY <1>n, <1>t, <1>h, <1>v, <1>1, <1>3, <2>1 DEF HasAdded, Increments, Counted
<1>10. CASE Locks!UnlockFirst(t)
  <2>1. Moves("unlock first", "end") /\ lock_mutex'[x] = "free" /\ lock_mutex'[y] = lock_mutex[y] /\ val' = val
    BY <1>10, <1>n, <1>4 DEF Locks!UnlockFirst, Locks!Unlocks, LockInv, LockTypes
  <2> HIDE DEF x, y, o
  <2> QED BY <1>n, <1>t, <1>h, <1>v, <1>1, <1>3, <2>1 DEF HasAdded, Increments, Counted
<1> QED BY <1>5, <1>6, <1>7, <1>8, <1>9, <1>10 DEF Locks!Step

LEMMA LockNext == ASSUME LockInv, [Locks!Next]_lockVars PROVE LockInv'
<1>1. CASE UNCHANGED lockVars
  BY <1>1 DEF lockVars, LockInv, LockTypes, LockHolds, LockValues, Counted
<1>2. CASE Locks!Join
  <2>1. /\ lock_pc["another"] = "end" /\ lock_pc["main"] = "end" /\ lock_pc' = [lock_pc EXCEPT !["main"] = "joined"]
        /\ UNCHANGED << lock_mutex, val >>
    BY <1>2 DEF Locks!Join, Locks!Goes
  <2>2. lock_pc'["main"] = "joined" /\ lock_pc'["another"] = "end"
    BY <2>1, LockNames DEF LockInv, LockTypes
  <2>3. LockTypes'
    BY <2>1, <2>2, LockNames DEF LockInv, LockTypes, Increments
  <2>4. LockHolds'
    BY <2>1, <2>2, LockNames DEF LockInv, LockHolds
  <2>5. LockValues'
    BY <2>1, <2>2, LockNames DEF LockInv, LockValues, HasAdded
  <2> QED BY <2>3, <2>4, <2>5 DEF LockInv
<1> QED BY <1>1, <1>2, LockStep DEF Locks!Next

LEMMA LockEnds == LockInv => Locks!EndsInOrderOrEmbrace
<1> SUFFICES ASSUME LockInv, \A t \in Locks!Threads : Locks!Stuck(t) \/ lock_pc[t] \in {"end", "joined"}
             PROVE  \/ \A t \in Locks!Threads : lock_pc[t] = "lock second" /\ lock_mutex[Locks!First(t)] = t
                    \/ lock_pc["another"] = "end" /\ {val["a"], val["b"]} = {2, 3}
  BY DEF Locks!EndsInOrderOrEmbrace
<1>1. ASSUME NEW t \in Locks!Threads, NEW o \in Locks!Threads, t # o, lock_pc[t] \notin {"end", "joined"}
      PROVE  lock_pc[t] = "lock second" /\ lock_pc[o] = "lock second"
  <2>1. /\ Locks!First(t) = Locks!Second(o) /\ Locks!First(o) = Locks!Second(t) /\ Locks!Threads = {t, o}
        /\ lock_mutex[Locks!First(t)] \in {"free", t, o} /\ lock_mutex[Locks!Second(t)] \in {"free", t, o}
    BY <1>1, LockNames DEF LockInv, LockTypes
  <2>2. lock_pc[o] \in {"lock first", "lock second", "end", "joined"}
    BY DEF Locks!Stuck
  <2>3. CASE lock_pc[t] = "lock first"
    BY <1>1, <2>1, <2>2, <2>3 DEF Locks!Stuck, LockInv, LockHolds
  <2>4. CASE lock_pc[t] = "lock second"
    BY <1>1, <2>1, <2>2, <2>4 DEF Locks!Stuck, LockInv, LockHolds
  <2> QED BY <1>1, <2>3, <2>4 DEF Locks!Stuck
<1>2. CASE \A t \in Locks!Threads : lock_pc[t] \in {"end", "joined"}
  BY <1>2, LockNames DEF LockInv, LockTypes, LockValues, HasAdded
<1>3. CASE \E t \in Locks!Threads : lock_pc[t] \notin {"end", "joined"}
  <2>1. \A t \in Locks!Threads : lock_pc[t] = "lock second"
    BY <1>1, <1>3, LockNames
  <2> QED BY <2>1 DEF LockInv, LockHolds
<1> QED BY <1>2, <1>3

-----------------------------------------------------------------------------
(* AtFork                                                                   *)

ForkInv ==
  /\ mutex \in {"free", "another"} /\ another \in {"starts", "sleeps", "end"}
  /\ mutex = "another" => another = "sleeps"
  /\ main \in {"unlock", "wait"} => fork_child # "none"
  /\ main = "sleep" => fork_child = "none"
  /\ main \in {"join", "exit"} => fork_child \in {"none", "exit"}
  /\ main = "exit" => another = "end"
  /\ fork_child = "lock" => (copy # "free" => atFork = "another")

LEMMA ForkNext == ASSUME ForkInv, [Forks!Next]_forkVars PROVE ForkInv'
<1> USE DEF ForkInv
<1>1. CASE UNCHANGED forkVars
  BY <1>1 DEF forkVars
<1>2. CASE Forks!Lock \/ Forks!Unlock
  BY <1>2 DEF Forks!Lock, Forks!Unlock
<1>3. CASE Forks!Fork \/ Forks!ForkFails
  BY <1>3 DEF Forks!Fork, Forks!ForkFails
<1>4. CASE Forks!ChildLocks \/ Forks!ChildUnlocks
  BY <1>4 DEF Forks!ChildLocks, Forks!ChildUnlocks
<1>5. CASE Forks!MainUnlocks \/ Forks!Wait \/ Forks!Join
  BY <1>5 DEF Forks!MainUnlocks, Forks!Wait, Forks!Join
<1> QED BY <1>1, <1>2, <1>3, <1>4, <1>5 DEF Forks!Next

LEMMA ForkEnds == ForkInv => Forks!EndsUnlessForkedLocked
BY DEF ForkInv, Forks!EndsUnlessForkedLocked, Forks!Stuck

-----------------------------------------------------------------------------
(* SemUndo                                                                  *)

UpBy(p) == IF sem_pc[p] = "up" THEN 1 ELSE 0
SemInv ==
  /\ sem \in Int /\ undo \in [Sem!Processes -> Int]
  /\ sem_pc \in [Sem!Processes -> {"fork", "none", "down", "up", "exit", "wait", "ended"}]
  /\ sem_pc["parent"] = "fork" => sem_pc["child"] = "none"
  /\ sem # Sem!Removed =>
       /\ sem \in {0, 1} /\ sem + UpBy("parent") + UpBy("child") = 1
       /\ \A p \in Sem!Processes : undo[p] = UpBy(p)

LEMMA SemInit == Sem!Init => SemInv
BY DEF Sem!Init, SemInv, Sem!Processes, Sem!Removed, UpBy

LEMMA SemNext == ASSUME SemInv, [Sem!Next]_semVars PROVE SemInv'
<1> USE DEF Sem!Processes
<1>1. CASE UNCHANGED semVars
  BY <1>1 DEF semVars, SemInv, UpBy
<1>2. CASE Sem!Fork
  BY <1>2 DEF Sem!Fork, SemInv, UpBy
<1>3. CASE Sem!ForkFails
  BY <1>3 DEF Sem!ForkFails, SemInv, UpBy
<1>4. CASE Sem!ParentExits
  BY <1>4 DEF Sem!ParentExits, SemInv, UpBy, Sem!Removed
<1>5. ASSUME NEW p \in Sem!Processes, Sem!Down(p) PROVE SemInv'
  BY <1>5 DEF Sem!Down, Sem!Pv, SemInv, UpBy, Sem!Removed
<1>6. ASSUME NEW p \in Sem!Processes, Sem!Up(p) PROVE SemInv'
  BY <1>6 DEF Sem!Up, Sem!Pv, SemInv, UpBy, Sem!Removed
<1>7. ASSUME NEW p \in Sem!Processes, Sem!Ended(p), sem_pc[p] # "none" PROVE SemInv'
  <2>1. /\ sem' \in Int /\ (sem = Sem!Removed => sem' = sem) /\ (sem # Sem!Removed => sem' = sem + undo[p])
        /\ undo' \in [Sem!Processes -> Int] /\ \A q \in Sem!Processes : undo'[q] = IF q = p THEN 0 ELSE undo[q]
    BY <1>7 DEF Sem!Ended, SemInv
  <2>2. /\ sem_pc' \in [Sem!Processes -> {"fork", "none", "down", "up", "exit", "wait", "ended"}]
        /\ \A q \in Sem!Processes : sem_pc'[q] = IF q = p THEN "ended" ELSE sem_pc[q]
        /\ sem_pc'["parent"] = "fork" => sem_pc'["child"] = "none"
    BY <1>7 DEF Sem!Ended, SemInv
  <2>3. \A q \in Sem!Processes : UpBy(q)' = IF q = p THEN 0 ELSE UpBy(q)
    BY <2>2 DEF UpBy
  <2>4. ASSUME sem # Sem!Removed
        PROVE  /\ sem' \in {0, 1} /\ sem' + UpBy("parent")' + UpBy("child")' = 1
               /\ \A q \in Sem!Processes : undo'[q] = UpBy(q)'
    <3>1. /\ sem \in {0, 1} /\ sem + UpBy("parent") + UpBy("child") = 1 /\ undo[p] = UpBy(p)
          /\ UpBy("parent") \in {0, 1} /\ UpBy("child") \in {0, 1}
          /\ \A q \in Sem!Processes : undo[q] = UpBy(q)
      BY <2>4 DEF SemInv, UpBy
    <3>2. \A q \in Sem!Processes : undo'[q] = UpBy(q)'
      BY <2>1, <2>3, <3>1
    <3> QED BY <2>1, <2>3, <2>4, <3>1, <3>2
  <2>5. sem' # Sem!Removed => sem # Sem!Removed
    BY <2>1
  <2> QED BY <2>1, <2>2, <2>4, <2>5 DEF SemInv
<1> QED BY <1>1, <1>2, <1>3, <1>4, <1>5, <1>6, <1>7 DEF Sem!Next, Sem!ChildExits, Sem!Crash

LEMMA SemCardinality == ASSUME NEW S PROVE Sem!Cardinality(S) = Cardinality(S)
BY DEF Sem!Cardinality, Cardinality

LEMMA SemCounts == SemInv => Sem!SemCountsHolders
<1> SUFFICES ASSUME SemInv, sem # Sem!Removed PROVE sem >= 0 /\ sem + Cardinality(Sem!Holders) = 1
  BY SemCardinality DEF Sem!SemCountsHolders
<1>1. sem \in {0, 1} /\ sem + UpBy("parent") + UpBy("child") = 1
  BY DEF SemInv
<1>2. CASE sem = 1
  <2>1. Sem!Holders = {}
    BY <1>1, <1>2 DEF UpBy, Sem!Holders, Sem!Processes
  <2> QED BY <1>2, <2>1, FS_EmptySet
<1>3. CASE sem = 0
  <2>1. PICK p \in Sem!Processes : Sem!Holders = {p}
    BY <1>1, <1>3 DEF UpBy, Sem!Holders, Sem!Processes
  <2> QED
    <3>1. Cardinality({p}) = 1
      BY FS_Singleton
    <3> QED BY <1>3, <2>1, <3>1
<1> QED BY <1>1, <1>2, <1>3

-----------------------------------------------------------------------------
LEMMA ShortSteps ==
  MCSpec => /\ Locks!Init /\ [][Locks!Next]_lockVars
            /\ Forks!Init /\ [][Forks!Next]_forkVars
            /\ Sem!Init /\ [][Sem!Next]_semVars
<1>1. MCInit => Locks!Init /\ Forks!Init /\ Sem!Init
  BY DEF MCInit
<1>2. [MCNext]_<< program, vars, cgiVars, shotVars, lockVars, forkVars, semVars, connectVars >>
        => [Locks!Next]_lockVars /\ [Forks!Next]_forkVars /\ [Sem!Next]_semVars
  BY DEF MCNext, Keep
<1> QED BY <1>1, <1>2, PTL DEF MCSpec

\* Each program ends as it is there to show, for any number of children, connections
\* and signals of the pools and any time to connect in: the pools after their children,
\* the two threads in order or in an embrace, the fork unless it met the mutex locked,
\* the semaphore counting who holds it, the connection with its cause (EndsAsShown).
THEOREM EveryProgramEndsAsShown == MCSpec => []EndsAsShown
<1>1. Locks!Init => LockInv
  BY LockInit
<1>2. Forks!Init => ForkInv
  BY DEF Forks!Init, ForkInv
<1>3. Sem!Init => SemInv
  BY SemInit
<1>4. LockInv /\ [Locks!Next]_lockVars => LockInv'
  BY LockNext
<1>5. ForkInv /\ [Forks!Next]_forkVars => ForkInv'
  BY ForkNext
<1>6. SemInv /\ [Sem!Next]_semVars => SemInv'
  BY SemNext
<1>7. MCSpec => [](LockInv /\ ForkInv /\ SemInv)
  BY <1>1, <1>2, <1>3, <1>4, <1>5, <1>6, ShortSteps, PTL
<1>8. /\ PoolInv /\ PoolBooks => LastToLeave
      /\ CgiInv /\ CgiBooks => Cgi!LastToLeave
      /\ LockInv => Locks!EndsInOrderOrEmbrace
      /\ ForkInv => Forks!EndsUnlessForkedLocked
      /\ SemInv => Sem!SemCountsHolders
  BY PoolLast, CgiLast, LockEnds, ForkEnds, SemCounts
<1> QED BY <1>7, <1>8, PoolNotifications, CgiNotifications, EveryReturnHasItsCause, PTL DEF EndsAsShown
================================================================================
