--------------------------- MODULE ThreadPoolProofs ---------------------------
(***************************************************************************)
(* Theorems about the thread pool, for any number of workers, callers and  *)
(* requests, any max_requests and any number of interrupted waits.         *)
(***************************************************************************)
EXTENDS ThreadPool, FiniteSetTheorems, TLAPS

-----------------------------------------------------------------------------
(* The inductive invariant.                                                 *)

\* A thread carries a request exactly where its code has one in hand.
Carrying ==
  /\ \A c \in Callers : local[c] # None <=> pc[c] \in {"lock", "test", "push", "refuse"}
  /\ \A w \in Workers : local[w] # None <=> pc[w] \in {"unlockQ", "process"}

\* What a thread has found out about the queue under the lock is still true
\* when it acts on it.
DecisionStillTrue ==
  /\ \A c \in Callers : /\ pc[c] = "push"   => Len(m_workqueue) <= MaxRequests
                        /\ pc[c] = "refuse" => Len(m_workqueue) = MaxRequests + 1
  /\ \A w \in Workers : /\ pc[w] = "front"  => m_workqueue # <<>>
                        /\ pc[w] = "giveUp" => m_workqueue = <<>>

LockInv ==
  /\ TypeOK
  /\ MutualExclusion
  /\ Carrying
  /\ DecisionStillTrue
  /\ QueueBound

LEMMA Disjoint == \A w \in Workers, c \in Callers : w # c
  BY CallersAssumption

LEMMA LockInvInit == Init => LockInv
<1> SUFFICES ASSUME Init PROVE LockInv
  OBVIOUS
<1>1. pc \in [Threads -> {"none", "idle"}] /\ local \in [Threads -> {None}]
  BY DEF Init
<1>2. /\ \A w \in Workers : pc[w] = "none" /\ local[w] = None
      /\ \A c \in Callers : pc[c] = "idle" /\ local[c] = None
  BY Disjoint DEF Init, Threads
<1>3. TypeOK
  <2>1. m_workqueue \in Seq(Requests) /\ m_queuestat \in Nat
    BY DEF Init
  <2>2. interrupts \in 0..MaxInterrupts
    BY MaxInterruptsAssumption DEF Init
  <2>3. pc \in [Threads -> WorkerPoints \cup CallerPoints]
    BY <1>1 DEF WorkerPoints, CallerPoints
  <2>4. /\ \A w \in Workers : pc[w] \in WorkerPoints
        /\ \A c \in Callers : pc[c] \in CallerPoints
    BY <1>2 DEF WorkerPoints, CallerPoints
  <2>5. local \in [Threads -> Requests \cup {None}]
    BY <1>1
  <2> QED BY <2>1, <2>2, <2>3, <2>4, <2>5 DEF Init, TypeOK
<1>4. MutualExclusion
  BY <1>2, NoneAssumption DEF Init, MutualExclusion, Critical, InAppend, InRun, Threads
<1>5. Carrying /\ DecisionStillTrue
  BY <1>2 DEF Carrying, DecisionStillTrue
<1>6. QueueBound
  BY MaxRequestsAssumption DEF Init, QueueBound
<1> QED BY <1>3, <1>4, <1>5, <1>6 DEF LockInv

LEMMA LockInvNext == LockInv /\ [Next]_vars => LockInv'
<1> SUFFICES ASSUME LockInv, [Next]_vars PROVE LockInv'
  OBVIOUS
<1> USE NoneAssumption, MaxInterruptsAssumption, MaxRequestsAssumption, Disjoint
<1> USE DEF LockInv, TypeOK, MutualExclusion, Carrying, DecisionStillTrue,
            QueueBound, Threads, WorkerPoints, CallerPoints, Critical,
            InAppend, InRun, Goto
<1>1. CASE MainStep
  <2>1. ASSUME NEW w \in Workers, CreateThread(w) PROVE LockInv'
    BY <2>1 DEF CreateThread
  <2>2. CASE CreateFails BY <2>2 DEF CreateFails
  <2>3. CASE Destroy     BY <2>3 DEF Destroy
  <2>4. CASE Exit        BY <2>4 DEF Exit
  <2> QED BY <1>1, <2>1, <2>2, <2>3, <2>4 DEF MainStep
<1>2. ASSUME NEW c \in Callers, AppendCall(c) \/ AppendStep(c) PROVE LockInv'
  <2>1. CASE AppendCall(c)   BY <2>1 DEF AppendCall
  <2>2. CASE AppendLock(c)   BY <2>2 DEF AppendLock, Acquire
  <2>3. CASE AppendTest(c)   BY <2>3 DEF AppendTest, QueueFull
  <2>4. CASE AppendRefuse(c) BY <2>4 DEF AppendRefuse
  <2>5. CASE AppendPush(c)   BY <2>5 DEF AppendPush
  <2>6. CASE AppendUnlock(c) BY <2>6 DEF AppendUnlock
  <2>7. CASE AppendPost(c)   BY <2>7 DEF AppendPost
  <2> QED BY <1>2, <2>1, <2>2, <2>3, <2>4, <2>5, <2>6, <2>7 DEF AppendStep
<1>3. ASSUME NEW w \in Workers, RunStep(w) \/ RunWaitInterrupted(w) PROVE LockInv'
  <2>1. CASE RunWhile(w)           BY <2>1 DEF RunWhile
  <2>2. CASE RunWait(w)            BY <2>2 DEF RunWait
  <2>3. CASE RunLock(w)            BY <2>3 DEF RunLock, Acquire
  <2>4. CASE RunGiveUp(w)          BY <2>4 DEF RunGiveUp
  <2>5. CASE RunPopFront(w)        BY <2>5 DEF RunPopFront
  <2>6. CASE RunUnlock(w)          BY <2>6 DEF RunUnlock
  <2>7. CASE RunProcess(w)         BY <2>7 DEF RunProcess
  <2>8. CASE RunWaitInterrupted(w) BY <2>8 DEF RunWaitInterrupted
  <2> QED BY <1>3, <2>1, <2>2, <2>3, <2>4, <2>5, <2>6, <2>7, <2>8 DEF RunStep
<1>4. CASE UNCHANGED vars
  BY <1>4 DEF vars
<1> QED BY <1>1, <1>2, <1>3, <1>4 DEF Next

THEOREM LockInvariant == Spec => []LockInv
<1>1. Init => LockInv
  BY LockInvInit
<1>2. LockInv /\ [Next]_vars => LockInv'
  BY LockInvNext
<1> QED BY <1>1, <1>2, PTL DEF Spec

\* Every variable keeps its type.
THEOREM TypeCorrect == Spec => []TypeOK
<1>1. LockInv => TypeOK
  BY DEF LockInv
<1> QED BY <1>1, LockInvariant, PTL

\* m_queuelocker is a lock: no two threads are between a lock and its unlock.
THEOREM QueueIsLocked == Spec => []MutualExclusion
<1>1. LockInv => MutualExclusion
  BY DEF LockInv
<1> QED BY <1>1, LockInvariant, PTL

\* The queue never holds more than max_requests + 1 requests.
THEOREM QueueIsBounded == Spec => []QueueBound
<1>1. LockInv => QueueBound
  BY DEF LockInv
<1> QED BY <1>1, LockInvariant, PTL

-----------------------------------------------------------------------------
(* No wakeup is lost and none is wasted: the tokens of the semaphore, the   *)
(* posts under way and the workers under way balance the queue.             *)

LEMMA WakeTypes ==
  TypeOK => /\ IsFiniteSet(Posting) /\ Cardinality(Posting) \in Nat
            /\ IsFiniteSet(Woken)   /\ Cardinality(Woken) \in Nat
            /\ m_queuestat \in Nat /\ interrupts \in Nat
            /\ Len(m_workqueue) \in Nat
  BY FS_Subset, FS_CardinalityType, CallersAssumption, WorkersAssumption,
     MaxInterruptsAssumption
  DEF TypeOK, Posting, Woken

LEMMA WakeInvNext == LockInv /\ LockInv' /\ WakeupsMatch /\ [Next]_vars => WakeupsMatch'
<1> SUFFICES ASSUME LockInv, LockInv', WakeupsMatch, [Next]_vars PROVE WakeupsMatch'
  OBVIOUS
<1> USE DEF WakeupsMatch, NoLostWakeup, NoWastedWakeup, Wakeups
<1>0. /\ TypeOK /\ TypeOK'
      /\ IsFiniteSet(Posting) /\ IsFiniteSet(Woken)
      /\ Cardinality(Posting) \in Nat /\ Cardinality(Woken) \in Nat
      /\ m_queuestat \in Nat /\ interrupts \in Nat /\ Len(m_workqueue) \in Nat
  BY WakeTypes DEF LockInv
<1> DEFINE Same == /\ UNCHANGED << m_workqueue, m_queuestat, interrupts >>
                   /\ Posting' = Posting /\ Woken' = Woken
<1>s. Same => WakeupsMatch'
  OBVIOUS
<1> HIDE DEF WakeupsMatch, NoLostWakeup, NoWastedWakeup, Wakeups
<1>p. /\ pc \in [Threads -> WorkerPoints \cup CallerPoints]
      /\ Callers \subseteq Threads /\ Workers \subseteq Threads
  BY <1>0 DEF TypeOK, Threads
<1>e. \A c \in Callers : c \notin Workers
  BY Disjoint
<1>1. CASE MainStep
  <2>1. Same
    BY <1>1, <1>p, <1>e DEF MainStep, CreateThread, CreateFails, Destroy, Exit,
       Goto, Posting, Woken
  <2> QED BY <2>1, <1>s
<1>4. CASE UNCHANGED vars
  <2>1. Same
    BY <1>4 DEF vars, Posting, Woken
  <2> QED BY <2>1, <1>s
<1>2. ASSUME NEW c \in Callers, AppendCall(c) \/ AppendStep(c) PROVE WakeupsMatch'
  <2>1. CASE AppendCall(c) \/ AppendLock(c) \/ AppendTest(c) \/ AppendRefuse(c)
                \/ AppendUnlock(c)
    <3>1. Same
      BY <2>1, <1>p, <1>e DEF AppendCall, AppendLock, AppendTest, AppendRefuse,
         AppendUnlock, Acquire, Goto, Posting, Woken
    <3> QED BY <3>1, <1>s
  <2>2. CASE AppendPush(c)
    \* One more request, one more post to come.
    <3>1. c \notin Posting /\ Posting' = Posting \cup {c} /\ Woken' = Woken
      BY <2>2, <1>p, <1>e DEF AppendPush, Goto, Posting, Woken
    <3>2. Cardinality(Posting') = Cardinality(Posting) + 1
      BY <3>1, <1>0, FS_AddElement
    <3>3. Len(m_workqueue') = Len(m_workqueue) + 1
      BY <2>2, <1>0 DEF AppendPush, TypeOK
    <3> QED BY <3>1, <3>2, <3>3, <2>2, <1>0
        DEF AppendPush, WakeupsMatch, NoLostWakeup, NoWastedWakeup, Wakeups
  <2>3. CASE AppendPost(c)
    \* The post to come turns into a token.
    <3>1. c \in Posting /\ Posting' = Posting \ {c} /\ Woken' = Woken
      BY <2>3, <1>p, <1>e DEF AppendPost, Goto, Posting, Woken
    <3>2. Cardinality(Posting') = Cardinality(Posting) - 1
      BY <3>1, <1>0, FS_RemoveElement
    <3> QED BY <3>1, <3>2, <2>3, <1>0
        DEF AppendPost, WakeupsMatch, NoLostWakeup, NoWastedWakeup, Wakeups
  <2> QED BY <1>2, <2>1, <2>2, <2>3 DEF AppendStep
<1>3. ASSUME NEW w \in Workers, RunStep(w) \/ RunWaitInterrupted(w) PROVE WakeupsMatch'
  <2>1. CASE RunWhile(w) \/ RunLock(w) \/ RunUnlock(w) \/ RunProcess(w)
    <3>1. Same
      BY <2>1, <1>p, <1>e DEF RunWhile, RunLock, RunUnlock, RunProcess,
         Acquire, Goto, Posting, Woken
    <3> QED BY <3>1, <1>s
  <2>2. CASE RunWait(w)
    \* A token turns into a worker under way.
    <3>1. w \notin Woken /\ Woken' = Woken \cup {w} /\ Posting' = Posting
      BY <2>2, <1>p, <1>e DEF RunWait, Goto, Posting, Woken
    <3>2. Cardinality(Woken') = Cardinality(Woken) + 1
      BY <3>1, <1>0, FS_AddElement
    <3> QED BY <3>1, <3>2, <2>2, <1>0
        DEF RunWait, WakeupsMatch, NoLostWakeup, NoWastedWakeup, Wakeups
  <2>3. CASE RunWaitInterrupted(w)
    \* A worker under way that no token paid for.
    <3>1. w \notin Woken /\ Woken' = Woken \cup {w} /\ Posting' = Posting
      BY <2>3, <1>p, <1>e DEF RunWaitInterrupted, Goto, Posting, Woken
    <3>2. Cardinality(Woken') = Cardinality(Woken) + 1
      BY <3>1, <1>0, FS_AddElement
    <3> QED BY <3>1, <3>2, <2>3, <1>0
        DEF RunWaitInterrupted, WakeupsMatch, NoLostWakeup, NoWastedWakeup, Wakeups
  <2>4. CASE RunGiveUp(w)
    \* One worker under way less, and it has seen the queue empty.
    <3>1. w \in Woken /\ Woken' = Woken \ {w} /\ Posting' = Posting
      BY <2>4, <1>p, <1>e DEF RunGiveUp, Goto, Posting, Woken
    <3>2. Cardinality(Woken') = Cardinality(Woken) - 1 /\ Cardinality(Woken') \in Nat
      BY <3>1, <1>0, FS_RemoveElement, FS_CardinalityType
    <3>3. Len(m_workqueue) = 0
      BY <2>4 DEF RunGiveUp, Goto, LockInv, DecisionStillTrue
    <3> QED BY <3>1, <3>2, <3>3, <2>4, <1>0
        DEF RunGiveUp, WakeupsMatch, NoLostWakeup, NoWastedWakeup, Wakeups
  <2>5. CASE RunPopFront(w)
    \* One worker under way less, and one request less.
    <3>1. w \in Woken /\ Woken' = Woken \ {w} /\ Posting' = Posting
      BY <2>5, <1>p, <1>e DEF RunPopFront, Goto, Posting, Woken
    <3>2. Cardinality(Woken') = Cardinality(Woken) - 1
      BY <3>1, <1>0, FS_RemoveElement
    <3>3. Len(m_workqueue') = Len(m_workqueue) - 1
      BY <2>5, <1>0 DEF RunPopFront, Goto, LockInv, DecisionStillTrue, TypeOK
    <3> QED BY <3>1, <3>2, <3>3, <2>5, <1>0
        DEF RunPopFront, WakeupsMatch, NoLostWakeup, NoWastedWakeup, Wakeups
  <2> QED BY <1>3, <2>1, <2>2, <2>3, <2>4, <2>5 DEF RunStep
<1> QED BY <1>1, <1>2, <1>3, <1>4 DEF Next

LEMMA WakeInvInit == Init => WakeupsMatch
<1> SUFFICES ASSUME Init PROVE WakeupsMatch
  OBVIOUS
<1>1. Posting = {} /\ Woken = {}
  BY Disjoint DEF Init, Posting, Woken, Threads
<1>2. Cardinality(Posting) = 0 /\ Cardinality(Woken) = 0
  BY <1>1, FS_EmptySet
<1> QED BY <1>2 DEF Init, WakeupsMatch, NoLostWakeup, NoWastedWakeup, Wakeups

\* A queued request always has a wakeup on its way, although append posts
\* after unlocking and run never looks at what wait() returned; and no wakeup
\* is wasted: only an interrupted wait makes a worker find the queue empty.
THEOREM WakeupsAreMatched == Spec => []WakeupsMatch
<1> QED BY LockInvariant, WakeInvInit, WakeInvNext, PTL DEF Spec

-----------------------------------------------------------------------------
(* The pool implements JobQueue.                                            *)

\* A request is in the hands of at most one caller, and no longer unused then.
CarriedOnce ==
  /\ \A c \in Callers : local[c] \notin unused
  /\ \A c, d \in Callers : local[c] = local[d] /\ local[c] # None => c = d

LEMMA CarriedOnceInit == Init => CarriedOnce
  BY NoneAssumption DEF Init, CarriedOnce, Threads

LEMMA CarriedOnceNext == LockInv /\ CarriedOnce /\ [Next]_vars => CarriedOnce'
<1> SUFFICES ASSUME LockInv, CarriedOnce, [Next]_vars PROVE CarriedOnce'
  OBVIOUS
<1>0. /\ local \in [Threads -> Requests \cup {None}] /\ unused \subseteq Requests
      /\ None \notin Requests /\ Callers \subseteq Threads /\ Workers \subseteq Threads
      /\ \A w \in Workers, c \in Callers : w # c
  BY NoneAssumption, Disjoint DEF LockInv, TypeOK, Threads
<1>1. CASE MainStep
  BY <1>1 DEF MainStep, CreateThread, CreateFails, Destroy, Exit, CarriedOnce
<1>2. ASSUME NEW c \in Callers, AppendCall(c) \/ AppendStep(c) PROVE CarriedOnce'
  <2>1. CASE AppendCall(c)
    BY <2>1, <1>0 DEF AppendCall, CarriedOnce
  <2>2. CASE AppendRefuse(c)
    BY <2>2, <1>0 DEF AppendRefuse, CarriedOnce
  <2>3. CASE AppendPush(c)
    BY <2>3, <1>0 DEF AppendPush, CarriedOnce
  <2>4. CASE AppendLock(c) \/ AppendTest(c) \/ AppendUnlock(c) \/ AppendPost(c)
    BY <2>4 DEF AppendLock, AppendTest, AppendUnlock, AppendPost, CarriedOnce
  <2> QED BY <1>2, <2>1, <2>2, <2>3, <2>4 DEF AppendStep
<1>3. ASSUME NEW w \in Workers, RunStep(w) \/ RunWaitInterrupted(w) PROVE CarriedOnce'
  <2>1. unused' = unused /\ \A c \in Callers : local'[c] = local[c]
    BY <1>3, <1>0 DEF RunStep, RunWaitInterrupted, RunWhile, RunWait, RunLock,
       RunGiveUp, RunPopFront, RunUnlock, RunProcess
  <2> QED BY <2>1 DEF CarriedOnce
<1>4. CASE UNCHANGED vars
  BY <1>4 DEF vars, CarriedOnce
<1> QED BY <1>1, <1>2, <1>3, <1>4 DEF Next

LEMMA RefinementInit == Init => JQ!Init
<1> SUFFICES ASSUME Init PROVE JQ!Init
  OBVIOUS
<1>1. \A t \in Threads : local[t] = None
  BY DEF Init
<1>2. {local[c] : c \in Callers} \ {None} = {}
  BY <1>1 DEF Threads
<1>3. [w \in Workers |-> local[w]] = [w \in Workers |-> None]
  BY <1>1 DEF Threads
<1> QED BY <1>2, <1>3 DEF Init, JQ!Init, Offers

LEMMA RefinementNext ==
  LockInv /\ CarriedOnce /\ [Next]_vars => [JQ!Next]_(JQ!jobVars)
<1> SUFFICES ASSUME LockInv, CarriedOnce, [Next]_vars PROVE [JQ!Next]_(JQ!jobVars)
  OBVIOUS
<1>0. /\ local \in [Threads -> Requests \cup {None}] /\ unused \subseteq Requests
      /\ None \notin Requests /\ Callers \subseteq Threads /\ Workers \subseteq Threads
      /\ \A w \in Workers, c \in Callers : w # c
  BY NoneAssumption, Disjoint DEF LockInv, TypeOK, Threads
<1> DEFINE Serving == [w \in Workers |-> local[w]]
<1> DEFINE Silent == UNCHANGED << Offers, m_workqueue, refused, Serving, finished >>
<1>s. Silent => UNCHANGED JQ!jobVars
  BY DEF JQ!jobVars
<1>1. CASE MainStep
  <2>1. Silent
    BY <1>1 DEF MainStep, CreateThread, CreateFails, Destroy, Exit, Offers
  <2> QED BY <2>1, <1>s
<1>4. CASE UNCHANGED vars
  <2>1. Silent
    BY <1>4 DEF vars, Offers
  <2> QED BY <2>1, <1>s
<1>2. ASSUME NEW c \in Callers, AppendCall(c) \/ AppendStep(c)
      PROVE  [JQ!Next]_(JQ!jobVars)
  <2>1. CASE AppendCall(c)
    \* The request moves from the unused ones into the caller's hands.
    <3>1. local[c] = None
      BY <2>1 DEF AppendCall, Goto, LockInv, Carrying
    <3>2. PICK r \in unused : /\ local' = [local EXCEPT ![c] = r]
                              /\ unused' = unused \ {r}
      BY <2>1 DEF AppendCall
    <3>3. Serving' = Serving
      BY <3>2, <1>0
    <3>4. Offers' = Offers
      <4>1. \A x \in Callers : local'[x] = IF x = c THEN r ELSE local[x]
        BY <3>2, <1>0
      <4>2. r # None
        BY <1>0
      <4> QED BY <3>1, <3>2, <4>1, <4>2 DEF Offers
    <3>5. Silent
      BY <3>3, <3>4, <2>1 DEF AppendCall
    <3> QED BY <3>5, <1>s
  <2>2. CASE AppendLock(c) \/ AppendTest(c) \/ AppendUnlock(c) \/ AppendPost(c)
    <3>1. Silent
      BY <2>2 DEF AppendLock, AppendTest, AppendUnlock, AppendPost, Offers
    <3> QED BY <3>1, <1>s
  <2>3. ASSUME AppendRefuse(c) \/ AppendPush(c)
        PROVE  /\ local[c] \in Offers /\ local[c] \in Requests
               /\ Offers' = Offers \ {local[c]} /\ Serving' = Serving
    \* The request leaves the caller's hands, and was in nobody else's.
    <3>1. local[c] # None
      BY <2>3 DEF AppendRefuse, AppendPush, Goto, LockInv, Carrying
    <3>2. local' = [local EXCEPT ![c] = None] /\ unused' = unused
      BY <2>3 DEF AppendRefuse, AppendPush
    <3>3. \A x \in Callers : local'[x] = IF x = c THEN None ELSE local[x]
      BY <3>2, <1>0
    <3>4. \A x \in Callers : x # c => local[x] # local[c]
      BY <3>1 DEF CarriedOnce
    <3>5. Offers' = Offers \ {local[c]}
      BY <3>1, <3>2, <3>3, <3>4 DEF Offers, CarriedOnce
    <3>6. Serving' = Serving
      BY <3>2, <1>0
    <3> QED BY <3>1, <3>5, <3>6, <1>0 DEF Offers
  <2>4. CASE AppendRefuse(c)
    <3>1. Len(m_workqueue) = MaxRequests + 1
      BY <2>4 DEF AppendRefuse, Goto, LockInv, DecisionStillTrue
    <3>2. JQ!TurnAway(local[c])
      BY <3>1, <2>3, <2>4 DEF JQ!TurnAway, AppendRefuse
    <3> QED BY <3>2, <2>3, <2>4 DEF JQ!Next
  <2>5. CASE AppendPush(c)
    <3>1. Len(m_workqueue) < MaxRequests + 1
      BY <2>5, MaxRequestsAssumption
      DEF AppendPush, Goto, LockInv, DecisionStillTrue, TypeOK
    <3>2. JQ!Accept(local[c])
      BY <3>1, <2>3, <2>5 DEF JQ!Accept, AppendPush
    <3> QED BY <3>2, <2>3, <2>5 DEF JQ!Next
  <2> QED BY <1>2, <2>1, <2>2, <2>4, <2>5 DEF AppendStep
<1>3. ASSUME NEW w \in Workers, RunStep(w) \/ RunWaitInterrupted(w)
      PROVE  [JQ!Next]_(JQ!jobVars)
  <2>0. local' # local => Offers' = Offers
    <3>1. unused' = unused /\ \A c \in Callers : local'[c] = local[c]
      BY <1>3, <1>0 DEF RunStep, RunWaitInterrupted, RunWhile, RunWait, RunLock,
         RunGiveUp, RunPopFront, RunUnlock, RunProcess
    <3> QED BY <3>1 DEF Offers
  <2>1. CASE RunWhile(w) \/ RunWait(w) \/ RunLock(w) \/ RunGiveUp(w) \/ RunUnlock(w)
                \/ RunWaitInterrupted(w)
    <3>1. Silent
      BY <2>1 DEF RunWhile, RunWait, RunLock, RunGiveUp, RunUnlock,
         RunWaitInterrupted, Offers
    <3> QED BY <3>1, <1>s
  <2>2. CASE RunPopFront(w)
    <3>1. local[w] = None /\ m_workqueue # <<>>
      BY <2>2 DEF RunPopFront, Goto, LockInv, Carrying, DecisionStillTrue
    <3>2. Serving' = [Serving EXCEPT ![w] = Head(m_workqueue)]
      BY <2>2, <1>0 DEF RunPopFront
    <3>3. local'[w] # local[w]
      <4>1. Head(m_workqueue) \in Requests
        BY <3>1 DEF LockInv, TypeOK
      <4> QED BY <4>1, <3>1, <2>2, <1>0 DEF RunPopFront
    <3>4. JQ!Take(w)
      BY <2>0, <3>1, <3>2, <3>3, <2>2 DEF JQ!Take, RunPopFront
    <3> QED BY <3>4 DEF JQ!Next
  <2>3. CASE RunProcess(w)
    <3>1. local[w] # None
      BY <2>3 DEF RunProcess, Goto, LockInv, Carrying
    <3>2. Serving' = [Serving EXCEPT ![w] = None]
      BY <2>3, <1>0 DEF RunProcess
    <3>3. local'[w] # local[w]
      BY <3>1, <2>3, <1>0 DEF RunProcess
    <3>4. finished' = finished \cup ({local[w]} \ NullRequests)
      BY <2>3 DEF RunProcess
    <3>5. JQ!Serve(w)
      BY <2>0, <3>1, <3>2, <3>3, <3>4, <2>3 DEF JQ!Serve, RunProcess
    <3> QED BY <3>5 DEF JQ!Next
  <2> QED BY <1>3, <2>1, <2>2, <2>3 DEF RunStep
<1> QED BY <1>1, <1>2, <1>3, <1>4 DEF Next

\* Every behaviour of the pool is, to its callers, one of the bounded FIFO:
\* no request is lost, served twice, served out of order, or refused while
\* there is room.
THEOREM PoolImplementsJobQueue == Spec => ImplementsJobQueue
<1>1. Init => JQ!Init
  BY RefinementInit
<1>2. LockInv /\ CarriedOnce /\ [Next]_vars => [JQ!Next]_(JQ!jobVars)
  BY RefinementNext
<1> QED BY <1>1, <1>2, LockInvariant, CarriedOnceInit, CarriedOnceNext, PTL
        DEF Spec, JQ!Spec, ImplementsJobQueue
=============================================================================
