-------------------------------- MODULE PoolCgi --------------------------------
(***************************************************************************)
(* The CGI server of 15/15-2pool_cgi.cpp: a parent that hands out          *)
(* notifications round robin, dead children included; children that accept *)
(* from the shared listening socket, read a file name that ends a line,    *)
(* and fork a program for it.  A child's signal handlers only set a flag   *)
(* and reap.                                                               *)
(*                                                                         *)
(* All descriptors are edge-triggered.  A request is made of Name (a file  *)
(* that exists), Ghost (any other text) and End (CR LF).                   *)
(***************************************************************************)
EXTENDS Integers, Sequences, FiniteSetsExt

CONSTANTS
  PROCESS_COUNT,
  Conns,         \* the connections that clients make
  Requests,      \* what a client may send: a set of sequences
  Name, Ghost, End,
  BUFFER_SIZE,
  MaxTerms,      \* bound: SIGTERMs (or SIGINTs) sent to the parent
  MaxFailures    \* bound: children that die of themselves, forks that fail

Idx == 0 .. PROCESS_COUNT - 1
Nobody == -1
Closed == -2

CgiAssumption ==
  /\ PROCESS_COUNT \in Nat \ {0} /\ BUFFER_SIZE \in Nat \ {0} /\ "pipe" \notin Conns
  /\ \A r \in Requests : r \in Seq({Name, Ghost, End})

VARIABLES
  \* The parent.
  parent,      \* "fork", "loop", "stopped"; "killed" before it has its handlers
  forked,      \* how often main has called fork
  pid,         \* sub_process[i].pid: "none" (-1) or "some"
  sub_process_counter, stop_server,
  pending,     \* signals whose handler has not run yet
  sigpipe,     \* the bytes its handler has written
  events,      \* reported and not handled yet
  signals,     \* the bytes of the buffer still to be handled
  \* The children.
  child,       \* "none", "start", "loop", "dead", "reaped"
  at,          \* "test" (handling events, then while), "gap", "wait" (in epoll_wait)
  stop_child,
  term, chld,  \* SIGTERM and SIGCHLD pending
  notices,     \* notifications in the socket pair
  cevents,
  missed,      \* SIGTERM was handled in the gap between while and epoll_wait
  \* The kernel and the world outside.
  edges,       \* the parent's reports to come: "listen", "sig"
  cedges,      \* each child's: "pipe", and its connections
  backlog,     \* connections not accepted yet
  holder,      \* of a connection: Nobody, a child, or Closed
  coming,      \* what its client has still to send
  inbox,       \* what has arrived
  buf,         \* users[connfd].buf up to read_idx
  peer,        \* "open", "closed": the client's end
  cgi,     \* its program: "none", "runs", "zombie", "gone"
  owner,       \* the child that forked it
  terms, failures

parentVars == << parent, forked, pid, sub_process_counter, stop_server, events, signals >>
signalVars == << pending, sigpipe >>
childVars  == << child, at, stop_child, term, chld, missed >>
connVars   == << coming, inbox, buf, peer >>
cgiVars    == << cgi, owner >>
vars == << parentVars, signalVars, childVars, notices, cevents, edges, cedges, backlog, holder,
           connVars, cgiVars, terms, failures >>

Init ==
  /\ parent = "fork" /\ forked = 0
  /\ pid = [i \in Idx |-> "none"]
  /\ sub_process_counter = 0 /\ stop_server = FALSE
  /\ pending = {} /\ sigpipe = <<>> /\ events = {} /\ signals = <<>>
  /\ child = [i \in Idx |-> "none"] /\ at = [i \in Idx |-> "test"]
  /\ stop_child = [i \in Idx |-> FALSE] /\ missed = [i \in Idx |-> FALSE]
  /\ term = [i \in Idx |-> FALSE] /\ chld = [i \in Idx |-> FALSE]
  /\ notices = [i \in Idx |-> 0] /\ cevents = [i \in Idx |-> {}]
  /\ edges = {} /\ cedges = [i \in Idx |-> {}]
  /\ backlog = <<>> /\ holder = [c \in Conns |-> Nobody]
  /\ coming = [c \in Conns |-> <<>>] /\ inbox = [c \in Conns |-> <<>>]
  /\ buf = [c \in Conns |-> <<>>] /\ peer = [c \in Conns |-> "closed"]
  /\ cgi = [c \in Conns |-> "none"] /\ owner = [c \in Conns |-> 0]
  /\ terms = 0 /\ failures = 0

Live(i) == child[i] \in {"start", "loop"}

\* A socket pair reads as closed when the parent is gone and so are the
\* children forked later, which inherited the parent's end.
Orphan(i, p, ch) ==
  p = "killed" /\ ch[i] = "loop" /\ \A j \in Idx : j > i => ch[j] \in {"none", "dead", "reaped"}
\* The reports this makes.
WithEof ==
  [i \in Idx |-> IF Orphan(i, parent', child') /\ ~ Orphan(i, parent, child)
                 THEN cedges[i] \cup {"pipe"} ELSE cedges[i]]

-----------------------------------------------------------------------------
(* The world outside                                                        *)

New(c) == holder[c] = Nobody /\ c \notin {backlog[k] : k \in DOMAIN backlog}

\* A client connects; its request comes in pieces.
Connect(c) ==
  /\ New(c) /\ peer[c] = "closed"
  /\ peer' = [peer EXCEPT ![c] = "open"]
  /\ \E r \in Requests : coming' = [coming EXCEPT ![c] = r]
  /\ backlog' = Append(backlog, c)
  /\ edges' = IF parent = "loop" THEN edges \cup {"listen"} ELSE edges
  /\ UNCHANGED << parentVars, signalVars, childVars, notices, cevents, cedges, holder, inbox,
                  buf, cgiVars, terms, failures >>

Reported(c) ==
  cedges' = [i \in Idx |-> IF holder[c] = i THEN cedges[i] \cup {c} ELSE cedges[i]]

Arrive(c) ==
  /\ holder[c] # Closed /\ coming[c] # <<>>
  /\ \E n \in 1 .. Len(coming[c]) :
       /\ inbox' = [inbox EXCEPT ![c] = @ \o SubSeq(coming[c], 1, n)]
       /\ coming' = [coming EXCEPT ![c] = SubSeq(@, n + 1, Len(@))]
  /\ Reported(c)
  /\ UNCHANGED << parentVars, signalVars, childVars, notices, cevents, edges, backlog, holder,
                  buf, peer, cgiVars, terms, failures >>

HangUp(c) ==
  /\ holder[c] # Closed /\ peer[c] = "open" /\ coming[c] = <<>>
  /\ peer' = [peer EXCEPT ![c] = "closed"]
  /\ Reported(c)
  /\ UNCHANGED << parentVars, signalVars, childVars, notices, cevents, edges, backlog, holder,
                  coming, inbox, buf, cgiVars, terms, failures >>

Terminate ==
  /\ terms < MaxTerms /\ parent \in {"fork", "loop"}
  /\ terms' = terms + 1
  /\ IF parent = "loop"
     THEN pending' = pending \cup {"TERM"} /\ UNCHANGED << parent, cedges >>
     ELSE parent' = "killed" /\ UNCHANGED << pending, child >> /\ cedges' = WithEof
  /\ UNCHANGED << forked, pid, sub_process_counter, stop_server, events, signals, sigpipe,
                  childVars, notices, cevents, edges, backlog, holder, connVars, cgiVars,
                  failures >>

\* Children that end: their connections close, and the parent is told.
ChildrenEnd(S) ==
  /\ child' = [i \in Idx |-> IF i \in S THEN "dead" ELSE child[i]]
  /\ holder' = [c \in Conns |-> IF holder[c] \in S THEN Closed ELSE holder[c]]
  /\ pending' = IF parent = "loop" /\ S # {} THEN pending \cup {"CHLD"} ELSE pending

Crash(i) ==
  /\ failures < MaxFailures /\ Live(i)
  /\ failures' = failures + 1
  /\ ChildrenEnd({i}) /\ UNCHANGED parent /\ cedges' = WithEof
  /\ UNCHANGED << forked, pid, sub_process_counter, stop_server, events, signals, sigpipe, at,
                  stop_child, term, chld, missed, notices, cevents, edges, backlog, connVars,
                  cgiVars, terms >>

\* The programs that end: SIGCHLD goes to the child that forked them, or init reaps.
Programs(S) ==
  /\ cgi' = [c \in Conns |-> IF c \notin S THEN cgi[c]
                                 ELSE IF Live(owner[c]) THEN "zombie" ELSE "gone"]
  /\ chld' = [i \in Idx |-> chld[i] \/ (Live(i) /\ \E c \in S : owner[c] = i)]

ProgramEnds(c) ==
  /\ cgi[c] = "runs"
  /\ Programs({c})
  /\ UNCHANGED << parentVars, signalVars, child, at, stop_child, term, missed, notices, cevents,
                  edges, cedges, backlog, holder, connVars, owner, terms, failures >>

-----------------------------------------------------------------------------
(* main: the forks, and the setup of the loops                              *)

Fork ==
  /\ parent = "fork" /\ forked \in Idx
  /\ forked' = forked + 1
  /\ child' = [child EXCEPT ![forked] = "start"]
  /\ pid' = [pid EXCEPT ![forked] = "some"]
  /\ UNCHANGED << parent, sub_process_counter, stop_server, events, signals, signalVars, at,
                  stop_child, term, chld, missed, notices, cevents, edges, cedges, backlog,
                  holder, connVars, cgiVars, terms, failures >>

ForkFails ==
  /\ parent = "fork" /\ forked \in Idx /\ failures < MaxFailures
  /\ forked' = forked + 1 /\ failures' = failures + 1
  /\ UNCHANGED << parent, pid, sub_process_counter, stop_server, events, signals, signalVars,
                  childVars, notices, cevents, edges, cedges, backlog, holder, connVars,
                  cgiVars, terms >>

ParentSetup ==
  /\ parent = "fork" /\ forked = PROCESS_COUNT
  /\ parent' = "loop"
  /\ edges' = IF backlog # <<>> THEN {"listen"} ELSE {}
  /\ UNCHANGED << forked, pid, sub_process_counter, stop_server, events, signals, signalVars,
                  childVars, notices, cevents, cedges, backlog, holder, connVars, cgiVars,
                  terms, failures >>

ChildSetup(i) ==
  /\ child[i] = "start"
  /\ child' = [child EXCEPT ![i] = "loop"]
  /\ cedges' = [cedges EXCEPT ![i] =
                  IF notices[i] > 0 \/ Orphan(i, parent, child') THEN {"pipe"} ELSE {}]
  /\ UNCHANGED << parentVars, signalVars, at, stop_child, term, chld, missed, notices, cevents,
                  edges, backlog, holder, connVars, cgiVars, terms, failures >>

-----------------------------------------------------------------------------
(* main: the parent's loop                                                  *)

SigHandler ==
  /\ parent = "loop"
  /\ \E s \in pending : sigpipe' = Append(sigpipe, s) /\ pending' = pending \ {s}
  /\ edges' = edges \cup {"sig"}
  /\ UNCHANGED << parentVars, childVars, notices, cevents, cedges, backlog, holder, connVars,
                  cgiVars, terms, failures >>

RoundDone == parent = "loop" /\ events = {} /\ signals = <<>>

ParentWait ==
  /\ RoundDone /\ ~ stop_server /\ edges # {}
  /\ events' = edges /\ edges' = {}
  /\ UNCHANGED << parent, forked, pid, sub_process_counter, stop_server, signals, signalVars,
                  childVars, notices, cevents, cedges, backlog, holder, connVars, cgiVars,
                  terms, failures >>

ParentStop ==
  /\ RoundDone /\ stop_server
  /\ parent' = "stopped"
  /\ UNCHANGED << forked, pid, sub_process_counter, stop_server, events, signals, signalVars,
                  childVars, notices, cevents, edges, cedges, backlog, holder, connVars,
                  cgiVars, terms, failures >>

Handles(x) == parent = "loop" /\ signals = <<>> /\ x \in events /\ events' = events \ {x}

\* Whoever is next gets the notification, there or not.
Dispatch ==
  /\ Handles("listen")
  /\ sub_process_counter' = (sub_process_counter + 1) % PROCESS_COUNT
  /\ LET i == sub_process_counter IN
       /\ notices' = IF Live(i) THEN [notices EXCEPT ![i] = @ + 1] ELSE notices
       /\ cedges' = IF child[i] = "loop" THEN [cedges EXCEPT ![i] = @ \cup {"pipe"}] ELSE cedges
  /\ UNCHANGED << parent, forked, pid, stop_server, signals, signalVars, childVars, cevents,
                  edges, backlog, holder, connVars, cgiVars, terms, failures >>

ReadSignals ==
  /\ Handles("sig")
  /\ signals' = sigpipe /\ sigpipe' = <<>>
  /\ UNCHANGED << parent, forked, pid, sub_process_counter, stop_server, pending, childVars,
                  notices, cevents, edges, cedges, backlog, holder, connVars, cgiVars, terms,
                  failures >>

Handling(s) == parent = "loop" /\ signals # <<>> /\ Head(signals) = s /\ signals' = Tail(signals)

Reap ==
  /\ Handling("CHLD")
  /\ child' = [i \in Idx |-> IF child[i] = "dead" THEN "reaped" ELSE child[i]]
  /\ pid' = [i \in Idx |-> IF child[i] = "dead" THEN "none" ELSE pid[i]]
  /\ stop_server' = \A i \in Idx : pid'[i] = "none"
  /\ UNCHANGED << parent, forked, sub_process_counter, events, signalVars, at, stop_child, term,
                  chld, missed, notices, cevents, edges, cedges, backlog, holder, connVars,
                  cgiVars, terms, failures >>

\* kill(-1) goes to every process there is: to the programs as well.  A child
\* without a handler dies.
KillsAll == \E i \in Idx : pid[i] = "none"
Told(i) == Live(i) /\ (pid[i] = "some" \/ KillsAll)
KillChildren ==
  /\ Handling("TERM")
  /\ ChildrenEnd({i \in Idx : Told(i) /\ child[i] = "start"})
  /\ term' = [i \in Idx |-> term[i] \/ (Told(i) /\ child[i] = "loop")]
  /\ Programs(IF KillsAll THEN {c \in Conns : cgi[c] = "runs"} ELSE {})
  /\ UNCHANGED << parent, forked, pid, sub_process_counter, stop_server, events, sigpipe, at,
                  stop_child, missed, notices, cevents, edges, cedges, backlog, connVars, owner,
                  terms, failures >>

-----------------------------------------------------------------------------
(* run_child: its loop and its handlers                                     *)

Test(i) ==
  /\ child[i] = "loop" /\ at[i] = "test" /\ cevents[i] = {} /\ ~ stop_child[i]
  /\ at' = [at EXCEPT ![i] = "gap"]
  /\ UNCHANGED << parentVars, signalVars, child, stop_child, term, chld, missed, notices, cevents,
                  edges, cedges, backlog, holder, connVars, cgiVars, terms, failures >>

Exit(i) ==
  /\ child[i] = "loop" /\ at[i] = "test" /\ cevents[i] = {} /\ stop_child[i]
  /\ ChildrenEnd({i}) /\ UNCHANGED parent /\ cedges' = WithEof
  /\ UNCHANGED << forked, pid, sub_process_counter, stop_server, events, signals, sigpipe, at,
                  stop_child, term, chld, missed, notices, cevents, edges, backlog, connVars,
                  cgiVars, terms, failures >>

Blocks(i) ==
  /\ child[i] = "loop" /\ at[i] = "gap"
  /\ at' = [at EXCEPT ![i] = "wait"]
  /\ UNCHANGED << parentVars, signalVars, child, stop_child, term, chld, missed, notices, cevents,
                  edges, cedges, backlog, holder, connVars, cgiVars, terms, failures >>

EpollWait(i) ==
  /\ child[i] = "loop" /\ at[i] = "wait" /\ cedges[i] # {}
  /\ at' = [at EXCEPT ![i] = "test"]
  /\ cevents' = [cevents EXCEPT ![i] = cedges[i]]
  /\ cedges' = [cedges EXCEPT ![i] = {}]
  /\ UNCHANGED << parentVars, signalVars, child, stop_child, term, chld, missed, notices,
                  edges, backlog, holder, connVars, cgiVars, terms, failures >>

\* Any handler ends epoll_wait (EINTR), SA_RESTART or not.
Interrupts(i) == at' = [at EXCEPT ![i] = IF @ = "wait" THEN "test" ELSE @]

TermHandler(i) ==
  /\ child[i] = "loop" /\ term[i]
  /\ term' = [term EXCEPT ![i] = FALSE]
  /\ stop_child' = [stop_child EXCEPT ![i] = TRUE]
  /\ Interrupts(i)
  /\ missed' = [missed EXCEPT ![i] = @ \/ at[i] = "gap"]
  /\ UNCHANGED << parentVars, signalVars, child, chld, notices, cevents, edges, cedges, backlog,
                  holder, connVars, cgiVars, terms, failures >>

ChildHandler(i) ==
  /\ child[i] = "loop" /\ chld[i]
  /\ chld' = [chld EXCEPT ![i] = FALSE]
  /\ cgi' = [c \in Conns |-> IF cgi[c] = "zombie" /\ owner[c] = i THEN "gone"
                                 ELSE cgi[c]]
  /\ Interrupts(i)
  /\ UNCHANGED << parentVars, signalVars, child, stop_child, term, missed, notices, cevents, edges,
                  cedges, backlog, holder, connVars, owner, terms, failures >>

-----------------------------------------------------------------------------
(* run_child: its events                                                    *)

ChildHandles(i, x) == child[i] = "loop" /\ at[i] = "test" /\ x \in cevents[i]
Done(i, x) == cevents' = [cevents EXCEPT ![i] = @ \ {x}]

\* One recv, one accept; addfd reports what the connection already holds.
Accept(i) ==
  /\ ChildHandles(i, "pipe") /\ notices[i] > 0
  /\ notices' = [notices EXCEPT ![i] = @ - 1]
  /\ IF backlog = <<>> THEN UNCHANGED << backlog, holder, cedges >>
     ELSE LET c == Head(backlog) IN
       /\ backlog' = Tail(backlog)
       /\ holder' = [holder EXCEPT ![c] = i]
       /\ cedges' = IF inbox[c] # <<>> \/ peer[c] = "closed"
                    THEN [cedges EXCEPT ![i] = @ \cup {c}] ELSE cedges
  /\ Done(i, "pipe")
  /\ UNCHANGED << parentVars, signalVars, childVars, edges, connVars, cgiVars, terms, failures >>

\* The pipe has nothing (an earlier recv took it), or it is closed.
PipeEmpty(i) ==
  /\ ChildHandles(i, "pipe") /\ notices[i] = 0
  /\ stop_child' = [stop_child EXCEPT ![i] = @ \/ Orphan(i, parent, child)]
  /\ Done(i, "pipe")
  /\ UNCHANGED << parentVars, signalVars, child, at, term, chld, missed, notices, edges, cedges,
                  backlog, holder, connVars, cgiVars, terms, failures >>

Reads(i, c) == ChildHandles(i, c) /\ holder[c] = i
Room(c) == BUFFER_SIZE - 1 - Len(buf[c])
Taken(c) == IF Len(inbox[c]) <= Room(c) THEN Len(inbox[c]) ELSE Room(c)
Read(c) == buf[c] \o SubSeq(inbox[c], 1, Taken(c))
EndsLine(s) == s # <<>> /\ s[Len(s)] = End

Close(i, c) ==
  /\ holder' = [holder EXCEPT ![c] = Closed]
  /\ cedges' = [cedges EXCEPT ![i] = @ \ {c}]
  /\ Done(i, c)

\* EAGAIN, for a full buffer as well if there is nothing more.
RecvAgain(i, c) ==
  /\ Reads(i, c) /\ inbox[c] = <<>> /\ peer[c] = "open"
  /\ Done(i, c)
  /\ UNCHANGED << parentVars, signalVars, childVars, notices, edges, cedges, backlog, holder,
                  connVars, cgiVars, terms, failures >>

\* The client is gone, or the buffer is full and a recv of 0 bytes returns 0.
RecvNothing(i, c) ==
  /\ Reads(i, c)
  /\ Room(c) = 0 \/ (inbox[c] = <<>> /\ peer[c] = "closed")
  /\ Close(i, c)
  /\ UNCHANGED << parentVars, signalVars, childVars, notices, edges, backlog, connVars, cgiVars,
                  terms, failures >>

Recv(i, c) ==
  /\ Reads(i, c) /\ Taken(c) > 0
  /\ buf' = [buf EXCEPT ![c] = Read(c)]
  /\ inbox' = [inbox EXCEPT ![c] = SubSeq(@, Taken(c) + 1, Len(@))]
  /\ UNCHANGED << parentVars, signalVars, notices, edges, backlog, coming, peer, terms >>

\* Mutant: one recv per report.
RecvPart_Once(i, c) ==
  /\ Recv(i, c) /\ ~ EndsLine(Read(c))
  /\ Done(i, c)
  /\ UNCHANGED << childVars, cedges, holder, cgiVars, failures >>

RecvPart(i, c) ==
  /\ Recv(i, c) /\ ~ EndsLine(Read(c))
  /\ UNCHANGED << childVars, cevents, cedges, holder, cgiVars, failures >>

Exists(s) == s = << Name, End >>

RecvGhost(i, c) ==
  /\ Recv(i, c) /\ EndsLine(Read(c)) /\ ~ Exists(Read(c))
  /\ Close(i, c)
  /\ UNCHANGED << childVars, cgiVars, failures >>

RecvName(i, c) ==
  /\ Recv(i, c) /\ Exists(Read(c))
  /\ cgi' = [cgi EXCEPT ![c] = "runs"] /\ owner' = [owner EXCEPT ![c] = i]
  /\ Close(i, c)
  /\ UNCHANGED << childVars, failures >>

RecvForkFails(i, c) ==
  /\ Recv(i, c) /\ Exists(Read(c))
  /\ failures < MaxFailures /\ failures' = failures + 1
  /\ Close(i, c)
  /\ UNCHANGED << childVars, cgiVars >>

-----------------------------------------------------------------------------
World == Terminate \/ \E c \in Conns : Connect(c) \/ Arrive(c) \/ HangUp(c) \/ ProgramEnds(c)

ParentStep ==
  \/ Fork \/ ForkFails \/ ParentSetup \/ SigHandler \/ ParentWait \/ ParentStop
  \/ Dispatch \/ ReadSignals \/ Reap \/ KillChildren

ReadStep(i, c) ==
  RecvAgain(i, c) \/ RecvNothing(i, c) \/ RecvPart(i, c) \/ RecvGhost(i, c) \/ RecvName(i, c)
    \/ RecvForkFails(i, c)

ChildStep(i) ==
  \/ ChildSetup(i) \/ Test(i) \/ Exit(i) \/ Blocks(i) \/ EpollWait(i)
  \/ TermHandler(i) \/ ChildHandler(i) \/ Accept(i) \/ PipeEmpty(i)
  \/ \E c \in Conns : ReadStep(i, c)

Next == World \/ ParentStep \/ \E i \in Idx : ChildStep(i) \/ Crash(i)

Spec == Init /\ [][Next]_vars

\* The children are scheduled and their handlers run.
FairSpec == Spec /\ \A i \in Idx : WF_vars(ChildStep(i))

-----------------------------------------------------------------------------
(* Properties                                                               *)

TypeOK ==
  /\ parent \in {"fork", "loop", "stopped", "killed"} /\ forked \in 0 .. PROCESS_COUNT
  /\ pid \in [Idx -> {"none", "some"}] /\ sub_process_counter \in Idx
  /\ child \in [Idx -> {"none", "start", "loop", "dead", "reaped"}]
  /\ at \in [Idx -> {"test", "gap", "wait"}]
  /\ notices \in [Idx -> Nat] /\ \A i \in Idx : cedges[i] \subseteq Conns \cup {"pipe"}
  /\ \A c \in Conns :
       /\ holder[c] \in Idx \cup {Nobody, Closed}
       /\ holder[c] \in Idx => Live(holder[c])
       /\ Len(buf[c]) < BUFFER_SIZE
       /\ cgi[c] # "none" => holder[c] = Closed /\ Exists(buf[c])
       /\ cgi[c] = "zombie" => ~ Live(owner[c]) \/ chld[owner[c]]

\* Before a child waits it has read all there was to read of each of its
\* connections (a report comes once, 162-219), and none that it keeps has
\* ended a line or the connection.
NothingLeftUnread ==
  \A i \in Idx : \A c \in Conns :
    child[i] = "loop" /\ at[i] # "test" /\ holder[c] = i /\ c \notin cedges[i] =>
      inbox[c] = <<>> /\ peer[c] = "open" /\ ~ EndsLine(buf[c])

\* A notification stands for a connection nobody has accepted yet (131-138).
One(b) == IF b THEN 1 ELSE 0
AtParent == One("listen" \in edges) + One("listen" \in events)
Notified == [i \in Idx |-> IF Live(i) THEN notices[i] ELSE 0]
NotifiedHaveConns == SumFunction(Notified) + AtParent <= Len(backlog)

\* The notifications of a child that it will still be told of, and the
\* connections no report will lead to.
Coming(i) == IF child[i] = "start" THEN 1 ELSE One("pipe" \in cedges[i]) + One("pipe" \in cevents[i])
Reports == [i \in Idx |-> IF Notified[i] < Coming(i) THEN Notified[i] ELSE Coming(i)]
Unheard == Len(backlog) - AtParent - SumFunction(Reports)

\* A connection is passed over in these cases only: it came before the parent
\* listened, or met the report of another one, its notification did so in the
\* pipe of its child (131), or its child died, or the parent, who asks
\* nobody, gave it to one that was not there (316).
PassedOverByMergeOrDeath ==
  [][Unheard' > Unheard =>
       \/ parent # "loop"
       \/ Len(backlog') > Len(backlog) /\ "listen" \in edges
       \/ \E i \in Idx : notices'[i] > notices[i] /\ ("pipe" \in cedges[i] \/ child[i] = "start")
       \/ \E i \in Idx : Live(i) /\ child'[i] = "dead"
       \/ "listen" \in events \ events' /\ ~ Live(sub_process_counter)]_vars

\* The parent leaves its loop when no child is left that it could reap.
LastToLeave == parent = "stopped" => \A i \in Idx : child[i] \in {"none", "reaped"}

\* A child that is sent SIGTERM ends, unless the handler ran between the test of
\* stop_child and epoll_wait (116-118); and then it does with the next report.
Unaware(i) == missed[i] /\ at[i] # "test" /\ cedges[i] = {}
TermReaches ==
  \A i \in Idx :
    child[i] = "loop" /\ (term[i] \/ (stop_child[i] /\ cedges[i] # {}))
      ~> child[i] \in {"dead", "reaped"} \/ Unaware(i)
=============================================================================
