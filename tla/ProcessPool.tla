------------------------------ MODULE ProcessPool ------------------------------
(***************************************************************************)
(* The process pool of 15/15-1processpool.h: a parent that hands out        *)
(* notifications of new connections, round robin, over one socket pair per *)
(* child, and children that accept from the listening socket they share.   *)
(* Signals become bytes of a pipe in every process.                        *)
(*                                                                         *)
(* All descriptors are edge-triggered: a report comes when data arrives,   *)
(* once, however much there is to read.  What a child does with an         *)
(* accepted connection (T::process) is the application's.                  *)
(***************************************************************************)
EXTENDS Integers, Sequences, FiniteSetsExt

CONSTANTS
  m_process_number,
  MaxConns,    \* bound: connections made to the server
  MaxTerms,    \* bound: SIGTERMs (or SIGINTs) sent to the parent
  MaxCrashes   \* bound: children that die of themselves

ASSUME NumberAssumption == m_process_number \in Nat \ {0}
ASSUME BoundsAssumption == {MaxConns, MaxTerms, MaxCrashes} \subseteq Nat

Idx == 0 .. m_process_number - 1
Pid(i) == i + 1
NoPid == -1

VARIABLES
  \* The parent.
  parent,      \* "fork", "loop", "stopped"; "killed" by a signal before its setup
  forked,      \* how many children the constructor has made
  m_pid,       \* m_sub_process[i].m_pid
  counter,     \* sub_process_counter
  m_stop,
  pending,     \* signals whose handler has not run yet: one of each kind
  sigpipe,     \* the bytes its handler has written
  events,      \* what epoll_wait returned and the loop has not handled yet
  signals,     \* the bytes of the buffer still to be handled
  \* The children.
  child,       \* "none", "start", "loop", "dead", "reaped"
  pipe,        \* notifications in the socket pair of each
  csig,        \* SIGTERM on its way to m_stop: "none", "pending", "byte"
  cevents,
  cstop,
  \* The kernel and the world outside.
  edges,       \* the parent's descriptors with a report to come: "listen", "sig"
  cedges,      \* the same for each child: "pipe", "sig"
  backlog,     \* connections not accepted yet
  arrived,     \* connections made so far
  terms, crashes

parentVars == << parent, forked, m_pid, counter, m_stop, events, signals >>
signalVars == << pending, sigpipe >>
childVars  == << child, csig, cevents, cstop >>
worldVars  == << arrived, terms, crashes >>
vars == << parentVars, signalVars, childVars, pipe, edges, cedges, backlog, worldVars >>

Init ==
  /\ parent = "fork" /\ forked = 0
  /\ m_pid = [i \in Idx |-> NoPid]
  /\ counter = 0
  /\ m_stop = FALSE
  /\ pending = {} /\ sigpipe = <<>>
  /\ events = {} /\ signals = <<>>
  /\ child = [i \in Idx |-> "none"]
  /\ pipe = [i \in Idx |-> 0]
  /\ csig = [i \in Idx |-> "none"]
  /\ cevents = [i \in Idx |-> {}]
  /\ cstop = [i \in Idx |-> FALSE]
  /\ edges = {} /\ cedges = [i \in Idx |-> {}]
  /\ backlog = 0 /\ arrived = 0
  /\ terms = 0 /\ crashes = 0

Live(i) == child[i] \in {"start", "loop"}

\* The socket pair of a child reads as closed when the parent is gone and so
\* are the children forked later, which inherited the parent's end.
Orphans(p, c) ==
  {i \in Idx : /\ p = "killed" /\ c[i] = "loop"
               /\ \A j \in Idx : j > i => c[j] \in {"none", "dead", "reaped"}}

-----------------------------------------------------------------------------
(* The kernel: a child that dies raises SIGCHLD, which the parent ignores   *)
(* until setup_sig_pipe has installed its handler.                          *)

SigChld == pending' = IF parent = "loop" THEN pending \cup {"CHLD"} ELSE pending

Connect ==
  /\ arrived < MaxConns
  /\ arrived' = arrived + 1
  /\ backlog' = backlog + 1
  /\ edges' = IF parent = "loop" THEN edges \cup {"listen"} ELSE edges
  /\ UNCHANGED << parentVars, signalVars, childVars, pipe, cedges, terms, crashes >>

\* Somebody sends SIGTERM to the parent.  Before the handler is installed it
\* kills.
Terminate ==
  /\ terms < MaxTerms
  /\ parent \in {"fork", "loop"}
  /\ terms' = terms + 1
  /\ IF parent = "loop"
       THEN /\ pending' = pending \cup {"TERM"}
            /\ UNCHANGED << parent, cedges >>
       ELSE /\ parent' = "killed"
            /\ cedges' = [i \in Idx |-> IF i \in Orphans(parent', child)
                                        THEN cedges[i] \cup {"pipe"} ELSE cedges[i]]
            /\ UNCHANGED pending
  /\ UNCHANGED << forked, m_pid, counter, m_stop, events, signals, sigpipe, childVars,
                  pipe, edges, backlog, arrived, crashes >>

Crash(i) ==
  /\ crashes < MaxCrashes
  /\ Live(i)
  /\ crashes' = crashes + 1
  /\ child' = [child EXCEPT ![i] = "dead"]
  /\ cedges' = [j \in Idx |-> IF j \in Orphans(parent, child') \ Orphans(parent, child)
                              THEN cedges[j] \cup {"pipe"} ELSE cedges[j]]
  /\ SigChld
  /\ UNCHANGED << parentVars, sigpipe, csig, cevents, cstop, pipe, edges,
                  backlog, arrived, terms >>

-----------------------------------------------------------------------------
(* The constructor and setup_sig_pipe                                       *)

Fork ==
  /\ parent = "fork"
  /\ forked \in Idx
  /\ forked' = forked + 1
  /\ child' = [child EXCEPT ![forked] = "start"]
  /\ m_pid' = [m_pid EXCEPT ![forked] = Pid(forked)]
  /\ UNCHANGED << parent, counter, m_stop, events, signals, signalVars, csig, cevents,
                  cstop, pipe, edges, cedges, backlog, worldVars >>

\* addfd reports at once what is there already.
ParentSetup ==
  /\ parent = "fork"
  /\ forked = m_process_number
  /\ parent' = "loop"
  /\ edges' = IF backlog > 0 THEN {"listen"} ELSE {}
  /\ UNCHANGED << forked, m_pid, counter, m_stop, events, signals, signalVars, childVars,
                  pipe, cedges, backlog, worldVars >>

ChildSetup(i) ==
  /\ child[i] = "start"
  /\ child' = [child EXCEPT ![i] = "loop"]
  /\ cedges' = [cedges EXCEPT ![i] =
                  IF pipe[i] > 0 \/ i \in Orphans(parent, child') THEN {"pipe"} ELSE {}]
  /\ UNCHANGED << parentVars, signalVars, csig, cevents, cstop, pipe, edges, backlog,
                  worldVars >>

-----------------------------------------------------------------------------
(* sig_handler                                                              *)

ParentHandler ==
  /\ parent = "loop"
  /\ \E s \in pending : /\ sigpipe' = Append(sigpipe, s)
                        /\ pending' = pending \ {s}
  /\ edges' = edges \cup {"sig"}
  /\ UNCHANGED << parentVars, childVars, pipe, cedges, backlog, worldVars >>

ChildHandler(i) ==
  /\ child[i] = "loop"
  /\ csig[i] = "pending"
  /\ csig' = [csig EXCEPT ![i] = "byte"]
  /\ cedges' = [cedges EXCEPT ![i] = @ \cup {"sig"}]
  /\ UNCHANGED << parentVars, signalVars, child, cevents, cstop, pipe, edges,
                  backlog, worldVars >>

-----------------------------------------------------------------------------
(* run_parent                                                               *)

ParentWait ==
  /\ parent = "loop" /\ ~m_stop
  /\ events = {} /\ signals = <<>>
  /\ edges # {}
  /\ events' = edges
  /\ edges' = {}
  /\ UNCHANGED << parent, forked, m_pid, counter, m_stop, signals, signalVars, childVars,
                  pipe, cedges, backlog, worldVars >>

ParentStop ==
  /\ parent = "loop" /\ m_stop
  /\ events = {} /\ signals = <<>>
  /\ parent' = "stopped"
  /\ UNCHANGED << forked, m_pid, counter, m_stop, events, signals, signalVars, childVars,
                  pipe, edges, cedges, backlog, worldVars >>

Handles(x) == parent = "loop" /\ signals = <<>> /\ x \in events

\* Mutant: the counter runs off the end of the table.
After_NoWrap(i) == i + 1

After(i) == (i + 1) % m_process_number

\* Mutant: the counter alone decides, as in 15-2pool_cgi.cpp.
Chosen_Counter(i) == i = counter /\ \E j \in Idx : m_pid[j] # NoPid

\* The do loop of 307-316: the first child from the counter on that is there.
Distance(i) == (i - counter) % m_process_number
Chosen(i) == /\ m_pid[i] # NoPid
             /\ \A j \in Idx : m_pid[j] # NoPid => Distance(i) <= Distance(j)

\* The end of a child that is dead and not reaped is closed: send fails, and
\* the result is not looked at.
Dispatch ==
  /\ Handles("listen")
  /\ \E i \in Idx :
       /\ Chosen(i)
       /\ counter' = After(i)
       /\ pipe' = IF Live(i) THEN [pipe EXCEPT ![i] = @ + 1] ELSE pipe
       /\ cedges' = IF child[i] = "loop" THEN [cedges EXCEPT ![i] = @ \cup {"pipe"}] ELSE cedges
  /\ events' = events \ {"listen"}
  /\ UNCHANGED << parent, forked, m_pid, m_stop, signals, signalVars, childVars, edges,
                  backlog, worldVars >>

\* No child is left: stop, without a look at the other events.
DispatchNobody ==
  /\ Handles("listen")
  /\ \A i \in Idx : m_pid[i] = NoPid
  /\ m_stop' = TRUE
  /\ events' = {}
  /\ UNCHANGED << parent, forked, m_pid, counter, signals, signalVars, childVars,
                  pipe, edges, cedges, backlog, worldVars >>

ReadSignals ==
  /\ Handles("sig")
  /\ events' = events \ {"sig"}
  /\ signals' = sigpipe
  /\ sigpipe' = <<>>
  /\ UNCHANGED << parent, forked, m_pid, counter, m_stop, pending, childVars, pipe,
                  edges, cedges, backlog, worldVars >>

Handling(s) ==
  /\ parent = "loop"
  /\ signals # <<>> /\ Head(signals) = s
  /\ signals' = Tail(signals)

\* SIGCHLD: waitpid until there is nobody to reap; stop when no child is left.
Dead == {i \in Idx : child[i] = "dead"}
Reap ==
  /\ Handling("CHLD")
  /\ child' = [i \in Idx |-> IF i \in Dead THEN "reaped" ELSE child[i]]
  /\ m_pid' = [i \in Idx |-> IF i \in Dead THEN NoPid ELSE m_pid[i]]
  /\ m_stop' = \A i \in Idx : m_pid'[i] = NoPid
  /\ UNCHANGED << parent, forked, counter, events, signalVars, csig, cevents, cstop,
                  pipe, edges, cedges, backlog, worldVars >>

\* Mutant: the last child is left out of the loop.
KillChildren_NotLast ==
  /\ Handling("TERM")
  /\ LET told == {i \in Idx : m_pid[i] # NoPid /\ i < m_process_number - 1}
         killed == {i \in told : child[i] = "start"} IN
       /\ child' = [i \in Idx |-> IF i \in killed THEN "dead" ELSE child[i]]
       /\ IF killed = {} THEN UNCHANGED pending ELSE SigChld
       /\ csig' = [i \in Idx |-> IF i \in told /\ child[i] = "loop" /\ csig[i] = "none"
                                 THEN "pending" ELSE csig[i]]
  /\ UNCHANGED << parent, forked, m_pid, counter, m_stop, events, sigpipe, cevents, cstop,
                  pipe, edges, cedges, backlog, worldVars >>

\* SIGTERM, SIGINT: pass it on.  A child that has no handler yet dies of it.
KillChildren ==
  /\ Handling("TERM")
  /\ LET killed == {i \in Idx : m_pid[i] # NoPid /\ child[i] = "start"} IN
       /\ child' = [i \in Idx |-> IF i \in killed THEN "dead" ELSE child[i]]
       /\ IF killed = {} THEN UNCHANGED pending ELSE SigChld
  /\ csig' = [i \in Idx |-> IF m_pid[i] # NoPid /\ child[i] = "loop" /\ csig[i] = "none"
                            THEN "pending" ELSE csig[i]]
  /\ UNCHANGED << parent, forked, m_pid, counter, m_stop, events, sigpipe, cevents, cstop,
                  pipe, edges, cedges, backlog, worldVars >>

-----------------------------------------------------------------------------
(* run_child                                                                *)

ChildWait(i) ==
  /\ child[i] = "loop" /\ ~cstop[i]
  /\ cevents[i] = {} /\ cedges[i] # {}
  /\ cevents' = [cevents EXCEPT ![i] = cedges[i]]
  /\ cedges' = [cedges EXCEPT ![i] = {}]
  /\ UNCHANGED << parentVars, signalVars, child, csig, cstop, pipe, edges, backlog,
                  worldVars >>

ChildHandles(i, x) ==
  /\ child[i] = "loop"
  /\ x \in cevents[i]
  /\ cevents' = [cevents EXCEPT ![i] = @ \ {x}]

\* One recv and one accept per report, whatever the pipe holds.
ChildAccept(i) ==
  /\ ChildHandles(i, "pipe")
  /\ pipe[i] > 0
  /\ pipe' = [pipe EXCEPT ![i] = @ - 1]
  /\ backlog' = IF backlog > 0 THEN backlog - 1 ELSE backlog
  /\ UNCHANGED << parentVars, signalVars, child, csig, cstop, edges, cedges,
                  worldVars >>

\* recv returns 0: the other end is closed.  The child goes on.
ChildEof(i) ==
  /\ ChildHandles(i, "pipe")
  /\ pipe[i] = 0
  /\ UNCHANGED << parentVars, signalVars, child, csig, cstop, pipe, edges, cedges,
                  backlog, worldVars >>

ChildSignal(i) ==
  /\ ChildHandles(i, "sig")
  /\ cstop' = [cstop EXCEPT ![i] = TRUE]
  /\ csig' = [csig EXCEPT ![i] = "none"]
  /\ UNCHANGED << parentVars, signalVars, child, pipe, edges, cedges, backlog,
                  worldVars >>

\* The rest of the events is handled first; what is left in the pipe is lost.
ChildExit(i) ==
  /\ child[i] = "loop" /\ cstop[i] /\ cevents[i] = {}
  /\ child' = [child EXCEPT ![i] = "dead"]
  /\ SigChld
  /\ UNCHANGED << parentVars, sigpipe, csig, cevents, cstop, pipe, edges, cedges,
                  backlog, worldVars >>

-----------------------------------------------------------------------------
ParentStep ==
  \/ Fork \/ ParentSetup \/ ParentHandler \/ ParentWait \/ ParentStop
  \/ Dispatch \/ DispatchNobody \/ ReadSignals \/ Reap \/ KillChildren

ChildStep(i) ==
  \/ ChildSetup(i) \/ ChildHandler(i) \/ ChildWait(i)
  \/ ChildAccept(i) \/ ChildEof(i) \/ ChildSignal(i) \/ ChildExit(i)

Next ==
  \/ ParentStep
  \/ \E i \in Idx : ChildStep(i) \/ Crash(i)
  \/ Connect \/ Terminate

Spec == Init /\ [][Next]_vars

\* The processes are scheduled, handlers run, and T::process returns.
FairSpec == Spec /\ WF_vars(ParentStep) /\ \A i \in Idx : WF_vars(ChildStep(i))

-----------------------------------------------------------------------------
(* Properties                                                               *)

TypeOK ==
  /\ parent \in {"fork", "loop", "stopped", "killed"}
  /\ forked \in 0 .. m_process_number
  /\ \A i \in Idx : m_pid[i] \in {NoPid, Pid(i)}
  /\ counter \in Idx /\ m_stop \in BOOLEAN
  /\ pending \subseteq {"CHLD", "TERM"}
  /\ sigpipe \in Seq({"CHLD", "TERM"}) /\ signals \in Seq({"CHLD", "TERM"})
  /\ events \subseteq {"listen", "sig"} /\ edges \subseteq {"listen", "sig"}
  /\ child \in [Idx -> {"none", "start", "loop", "dead", "reaped"}]
  /\ pipe \in [Idx -> Nat]
  /\ csig \in [Idx -> {"none", "pending", "byte"}]
  /\ cevents \in [Idx -> SUBSET {"pipe", "sig"}]
  /\ cedges \in [Idx -> SUBSET {"pipe", "sig"}]
  /\ cstop \in [Idx -> BOOLEAN]
  /\ backlog \in Nat /\ arrived \in 0 .. MaxConns
  /\ terms \in 0 .. MaxTerms /\ crashes \in 0 .. MaxCrashes

\* A notification stands for a connection nobody has accepted yet: children
\* that share the listening socket never take each other's connection, so no
\* accept of a notified child comes back empty (213-218).
One(b) == IF b THEN 1 ELSE 0
AtParent == One("listen" \in edges) + One("listen" \in events)
Notified == [i \in Idx |-> IF Live(i) THEN pipe[i] ELSE 0]
NotifiedHaveConns == SumFunction(Notified) + AtParent <= backlog

\* The notifications of a child that it will still be told of.
Told(i) == IF child[i] = "start" THEN 1 ELSE One("pipe" \in cedges[i]) + One("pipe" \in cevents[i])
Reports == [i \in Idx |-> IF Notified[i] < Told(i) THEN Notified[i] ELSE Told(i)]
\* The connections no report will lead to.
Unheard == backlog - AtParent - SumFunction(Reports)

\* A connection is passed over in these cases only: it came before the parent
\* listened, or met the report of another one, its notification did so in the
\* pipe of its child (204), its child died, or it was handed out while a child
\* was dead and not reaped yet, or none was left: one that has been reaped is
\* not sent any (307-316).
PassedOverByMergeOrDeath ==
  [][Unheard' > Unheard =>
       \/ parent # "loop"
       \/ backlog' > backlog /\ "listen" \in edges
       \/ \E i \in Idx : pipe'[i] > pipe[i] /\ ("pipe" \in cedges[i] \/ child[i] = "start")
       \/ \E i \in Idx : Live(i) /\ child'[i] = "dead"
       \/ "listen" \in events \ events' /\ \E i \in Idx : child[i] = "dead"
       \/ "listen" \in events \ events' /\ \A i \in Idx : m_pid[i] = NoPid]_vars

\* The parent leaves its loop after every child has been reaped, none before
\* (315, 344-359).
LastToLeave == parent = "stopped" => \A i \in Idx : child[i] = "reaped"

\* SIGCHLDs merge while one is pending, and children may die before there is a
\* handler: once one has been raised, everybody dead is reaped (344-359).
DeathNoticed == "CHLD" \in pending ~> Dead = {}

\* A SIGTERM to a parent that has a child left takes the whole pool down.
TermStops ==
  ("TERM" \in pending /\ \E i \in Idx : Live(i))
    ~> parent = "stopped" /\ \A i \in Idx : child[i] = "reaped"
=============================================================================
