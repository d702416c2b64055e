------------------------------ MODULE ThreadPool ------------------------------
(***************************************************************************)
(* The thread pool of the web server: 15/15-3threadpool.h over the         *)
(* semaphore and the lock of 14/14-2locker.h, with the life the server     *)
(* gives it (15/15-6main.cpp builds it, appends to it, and deletes it on   *)
(* its way out of main).                                                   *)
(*                                                                         *)
(* A pool is a queue of requests, a mutex over the queue, a counting       *)
(* semaphore that is posted AFTER the mutex is released, and detached      *)
(* worker threads.  Each step of a thread is one access to shared state.   *)
(***************************************************************************)
EXTENDS Naturals, Sequences, FiniteSets

CONSTANTS
  Workers,        \* the thread_number threads the constructor creates
  Callers,        \* the threads that call append
  Requests,       \* the calls of append in a run, one element per call
  NullRequests,   \* those of them whose T* argument is NULL
  MaxRequests,    \* max_requests
  MaxInterrupts,  \* bound: how often sem_wait may fail with EINTR
  None            \* "no request", "no thread"

ASSUME WorkersAssumption == IsFiniteSet(Workers) /\ Workers # {}
ASSUME CallersAssumption == IsFiniteSet(Callers) /\ Workers \cap Callers = {}
ASSUME RequestsAssumption == NullRequests \subseteq Requests
ASSUME MaxRequestsAssumption == MaxRequests \in Nat \ {0}
ASSUME MaxInterruptsAssumption == MaxInterrupts \in Nat
ASSUME NoneAssumption == None \notin Workers \cup Callers \cup Requests

Threads == Workers \cup Callers

VARIABLES
  life,        \* "building", "ready", "deleted" (inside the destructor), "exited"
  m_stop,      \* the flag run() polls
  m_workqueue, \* the std::list of requests
  m_queuestat, \* the value of the semaphore
  lockOwner,   \* the thread that holds m_queuelocker, or None
  pc,          \* where each thread stands
  local,       \* the request a thread carries: append's argument, run's local
  interrupts,  \* sem_wait calls that failed with EINTR so far
  unused,      \* the calls of append not made yet
  refused,     \* append returned false
  finished     \* process() has returned

vars == << life, m_stop, m_workqueue, m_queuestat, lockOwner, pc, local,
           interrupts, unused, refused, finished >>

\* Control points at which a thread owns m_queuelocker.
InAppend == {"test", "push", "unlock", "refuse"}
InRun    == {"front", "unlockQ", "giveUp"}
Critical == InAppend \cup InRun

WorkerPoints == {"none", "while", "wait", "lockQ", "process", "ended"} \cup InRun
CallerPoints == {"idle", "lock", "post"} \cup InAppend

Init ==
  /\ life = "building"
  /\ m_stop = FALSE
  /\ m_workqueue = <<>>
  /\ m_queuestat = 0
  /\ lockOwner = None
  /\ pc = [t \in Threads |-> IF t \in Workers THEN "none" ELSE "idle"]
  /\ local = [t \in Threads |-> None]
  /\ interrupts = 0
  /\ unused = Requests
  /\ refused = {}
  /\ finished = {}

Goto(t, from, to) == pc[t] = from /\ pc' = [pc EXCEPT ![t] = to]
Running == life # "exited"

-----------------------------------------------------------------------------
(* The constructor.  A worker runs as soon as pthread_create returns, while *)
(* the constructor is still creating the others.                            *)

CreateThread(w) ==
  /\ life = "building"
  /\ Goto(w, "none", "while")
  /\ life' = IF \A v \in Workers \ {w} : pc[v] # "none" THEN "ready" ELSE life
  /\ UNCHANGED << m_stop, m_workqueue, m_queuestat, lockOwner, local,
                  interrupts, unused, refused, finished >>

\* pthread_create or pthread_detach fails: the constructor throws, main
\* catches and returns 1, and the process takes the threads made so far along.
CreateFails ==
  /\ life = "building"
  /\ \E w \in Workers : pc[w] = "none"
  /\ life' = "exited"
  /\ UNCHANGED << m_stop, m_workqueue, m_queuestat, lockOwner, pc, local,
                  interrupts, unused, refused, finished >>

\* main leaves its loop, where no append is under way, and deletes the pool:
\* m_stop is set, and nobody posts the semaphore.
Destroy ==
  /\ life = "ready"
  /\ \A c \in Callers : pc[c] = "idle"
  /\ life' = "deleted"
  /\ m_stop' = TRUE
  /\ UNCHANGED << m_workqueue, m_queuestat, lockOwner, pc, local,
                  interrupts, unused, refused, finished >>

\* main returns: the process ends, and the detached workers with it.
Exit ==
  /\ life = "deleted"
  /\ life' = "exited"
  /\ UNCHANGED << m_stop, m_workqueue, m_queuestat, lockOwner, pc, local,
                  interrupts, unused, refused, finished >>

-----------------------------------------------------------------------------
(* The lock: pthread_mutex_lock blocks until the mutex is free.             *)

Acquire(t, from, to) ==
  /\ Running
  /\ lockOwner = None
  /\ Goto(t, from, to)
  /\ lockOwner' = t

-----------------------------------------------------------------------------
(* append, called by thread c                                               *)

AppendCall(c) ==
  /\ life = "ready"
  /\ Goto(c, "idle", "lock")
  /\ \E r \in unused : /\ local' = [local EXCEPT ![c] = r]
                       /\ unused' = unused \ {r}
  /\ UNCHANGED << life, m_stop, m_workqueue, m_queuestat, lockOwner,
                  interrupts, refused, finished >>

AppendLock(c) ==
  /\ Acquire(c, "lock", "test")
  /\ UNCHANGED << life, m_stop, m_workqueue, m_queuestat, local,
                  interrupts, unused, refused, finished >>

\* Mutant: the test lets two requests over the limit in.
QueueFull_OffByOne == Len(m_workqueue) > MaxRequests + 1

QueueFull == Len(m_workqueue) > MaxRequests

AppendTest(c) ==
  /\ Running
  /\ Goto(c, "test", IF QueueFull THEN "refuse" ELSE "push")
  /\ UNCHANGED << life, m_stop, m_workqueue, m_queuestat, lockOwner, local,
                  interrupts, unused, refused, finished >>

AppendRefuse(c) ==
  /\ Running
  /\ Goto(c, "refuse", "idle")
  /\ lockOwner' = None
  /\ refused' = refused \cup {local[c]}
  /\ local' = [local EXCEPT ![c] = None]
  /\ UNCHANGED << life, m_stop, m_workqueue, m_queuestat, interrupts, unused,
                  finished >>

AppendPush(c) ==
  /\ Running
  /\ Goto(c, "push", "unlock")
  /\ m_workqueue' = Append(m_workqueue, local[c])
  /\ local' = [local EXCEPT ![c] = None]
  /\ UNCHANGED << life, m_stop, m_queuestat, lockOwner, interrupts, unused,
                  refused, finished >>

AppendUnlock(c) ==
  /\ Running
  /\ Goto(c, "unlock", "post")
  /\ lockOwner' = None
  /\ UNCHANGED << life, m_stop, m_workqueue, m_queuestat, local,
                  interrupts, unused, refused, finished >>

\* Mutant: a binary semaphore in the place of the counting one.
AppendPost_Binary(c) ==
  /\ Running
  /\ Goto(c, "post", "idle")
  /\ m_queuestat' = 1
  /\ UNCHANGED << life, m_stop, m_workqueue, lockOwner, local,
                  interrupts, unused, refused, finished >>

AppendPost(c) ==
  /\ Running
  /\ Goto(c, "post", "idle")
  /\ m_queuestat' = m_queuestat + 1
  /\ UNCHANGED << life, m_stop, m_workqueue, lockOwner, local,
                  interrupts, unused, refused, finished >>

-----------------------------------------------------------------------------
(* run, in worker w                                                         *)

\* Mutant: the loop does not look at m_stop.
RunWhile_Forever(w) ==
  /\ Running
  /\ Goto(w, "while", "wait")
  /\ UNCHANGED << life, m_stop, m_workqueue, m_queuestat, lockOwner, local,
                  interrupts, unused, refused, finished >>

RunWhile(w) ==
  /\ Running
  /\ Goto(w, "while", IF m_stop THEN "ended" ELSE "wait")
  /\ UNCHANGED << life, m_stop, m_workqueue, m_queuestat, lockOwner, local,
                  interrupts, unused, refused, finished >>

RunWait(w) ==
  /\ Running
  /\ m_queuestat > 0
  /\ Goto(w, "wait", "lockQ")
  /\ m_queuestat' = m_queuestat - 1
  /\ UNCHANGED << life, m_stop, m_workqueue, lockOwner, local,
                  interrupts, unused, refused, finished >>

\* sem_wait fails with EINTR; run ignores what wait() returns and goes on as
\* if it had been given a token.
RunWaitInterrupted(w) ==
  /\ Running
  /\ interrupts < MaxInterrupts
  /\ Goto(w, "wait", "lockQ")
  /\ interrupts' = interrupts + 1
  /\ UNCHANGED << life, m_stop, m_workqueue, m_queuestat, lockOwner, local,
                  unused, refused, finished >>

RunLock(w) ==
  /\ Acquire(w, "lockQ", IF m_workqueue = <<>> THEN "giveUp" ELSE "front")
  /\ UNCHANGED << life, m_stop, m_workqueue, m_queuestat, local,
                  interrupts, unused, refused, finished >>

\* Mutant: continue without the unlock.
RunGiveUp_KeepsLock(w) ==
  /\ Running
  /\ Goto(w, "giveUp", "while")
  /\ UNCHANGED << life, m_stop, m_workqueue, m_queuestat, lockOwner, local,
                  interrupts, unused, refused, finished >>

\* Somebody else took the request: unlock and continue.
RunGiveUp(w) ==
  /\ Running
  /\ Goto(w, "giveUp", "while")
  /\ lockOwner' = None
  /\ UNCHANGED << life, m_stop, m_workqueue, m_queuestat, local,
                  interrupts, unused, refused, finished >>

RunPopFront(w) ==
  /\ Running
  /\ Goto(w, "front", "unlockQ")
  /\ local' = [local EXCEPT ![w] = Head(m_workqueue)]
  /\ m_workqueue' = Tail(m_workqueue)
  /\ UNCHANGED << life, m_stop, m_queuestat, lockOwner,
                  interrupts, unused, refused, finished >>

RunUnlock(w) ==
  /\ Running
  /\ Goto(w, "unlockQ", "process")
  /\ lockOwner' = None
  /\ UNCHANGED << life, m_stop, m_workqueue, m_queuestat, local,
                  interrupts, unused, refused, finished >>

\* A NULL request is skipped, any other is processed; then the loop goes on.
RunProcess(w) ==
  /\ Running
  /\ Goto(w, "process", "while")
  /\ finished' = IF local[w] \in NullRequests THEN finished
                 ELSE finished \cup {local[w]}
  /\ local' = [local EXCEPT ![w] = None]
  /\ UNCHANGED << life, m_stop, m_workqueue, m_queuestat, lockOwner,
                  interrupts, unused, refused >>

-----------------------------------------------------------------------------
AppendStep(c) ==
  \/ AppendLock(c)   \/ AppendTest(c)   \/ AppendRefuse(c)
  \/ AppendPush(c)   \/ AppendUnlock(c) \/ AppendPost(c)

RunStep(w) ==
  \/ RunWhile(w)     \/ RunWait(w)      \/ RunLock(w)   \/ RunGiveUp(w)
  \/ RunPopFront(w)  \/ RunUnlock(w)    \/ RunProcess(w)

MainStep == (\E w \in Workers : CreateThread(w)) \/ CreateFails \/ Destroy \/ Exit

Next ==
  \/ MainStep
  \/ \E c \in Callers : AppendCall(c) \/ AppendStep(c)
  \/ \E w \in Workers : RunStep(w) \/ RunWaitInterrupted(w)

Spec == Init /\ [][Next]_vars

\* Every thread that can take a step of its own eventually does: the system
\* schedules all of them, and process() returns.  Weak fairness is enough for
\* the mutex too: a thread waits for it behind at most one acquisition per
\* token and per append.  Nothing forces a call of append, the end of main, a
\* failure or an EINTR.
Fairness ==
  /\ WF_vars(\E w \in Workers : CreateThread(w))
  /\ \A c \in Callers : WF_vars(AppendStep(c))
  /\ \A w \in Workers : WF_vars(RunStep(w))

FairSpec == Spec /\ Fairness

-----------------------------------------------------------------------------
TypeOK ==
  /\ life \in {"building", "ready", "deleted", "exited"}
  /\ m_stop \in BOOLEAN
  /\ m_workqueue \in Seq(Requests)
  /\ m_queuestat \in Nat
  /\ lockOwner \in Threads \cup {None}
  /\ pc \in [Threads -> WorkerPoints \cup CallerPoints]
  /\ \A w \in Workers : pc[w] \in WorkerPoints
  /\ \A c \in Callers : pc[c] \in CallerPoints
  /\ local \in [Threads -> Requests \cup {None}]
  /\ interrupts \in 0..MaxInterrupts
  /\ unused \subseteq Requests
  /\ refused \subseteq Requests
  /\ finished \subseteq Requests

\* m_queuelocker protects the queue: only its owner stands between a lock and
\* the matching unlock of append or run, so no two threads do.
MutualExclusion ==
  \A t \in Threads : pc[t] \in Critical <=> lockOwner = t

\* Calls of append that have pushed and not yet posted.
Posting == {c \in Callers : pc[c] \in {"unlock", "post"}}
\* Workers that are past the semaphore and have not yet looked at the queue.
Woken == {w \in Workers : pc[w] \in {"lockQ", "front", "giveUp"}}
\* What will still bring a worker to the queue.
Wakeups == m_queuestat + Cardinality(Posting) + Cardinality(Woken)

\* No lost wakeup.  append posts after it has unlocked and run ignores what
\* wait() returns; still every queued request is matched by a token, by a post
\* about to happen, or by a worker about to look.
NoLostWakeup == Len(m_workqueue) <= Wakeups

\* The other direction: a worker comes to an empty queue only when a sem_wait
\* was interrupted; without EINTR the branch of lines 100-104 is never taken.
NoWastedWakeup == Wakeups <= Len(m_workqueue) + interrupts

\* Both: the semaphore, whose value append and run change at other moments than
\* the queue, counts the queue (append 80-81, run 98-104).
WakeupsMatch == NoLostWakeup /\ NoWastedWakeup

\* What the test of line 74 really promises: size() > m_max_requests lets one
\* more request in than m_max_requests, and never two, with any callers.
QueueBound == Len(m_workqueue) <= MaxRequests + 1

\* Every call of append comes to an end: its request is refused, or processed
\* (or skipped when it is NULL), unless the pool is deleted first.  Nobody keeps
\* the lock for ever and no token is missing.
Answered(r) ==
  \/ r \in refused \cup finished
  \/ r \in NullRequests /\ (\A t \in Threads : local[t] # r)
                        /\ (\A i \in 1 .. Len(m_workqueue) : m_workqueue[i] # r)
CallIsAnswered ==
  \A r \in Requests : r \notin unused ~> (Answered(r) \/ life # "ready")

\* After delete pool a worker ends when it next comes to the head of its loop,
\* for the flag is all it is told (67): whoever is not asleep in sem_wait ends,
\* unless the process ends first; a sleeper may never wake.
StopEndsTheAwake ==
  \A w \in Workers : m_stop /\ pc[w] # "wait" ~> pc[w] = "ended" \/ life = "exited"

-----------------------------------------------------------------------------
\* The pool implements the bounded queue of jobs its callers think of.
Offers == unused \cup ({local[c] : c \in Callers} \ {None})

JQ == INSTANCE JobQueue WITH
        Servers <- Workers, Jobs <- Requests, Skipped <- NullRequests,
        Capacity <- MaxRequests + 1,
        offers <- Offers, waiting <- m_workqueue, turnedAway <- refused,
        serving <- [w \in Workers |-> local[w]], done <- finished

ImplementsJobQueue == JQ!Spec
=============================================================================
