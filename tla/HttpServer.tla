------------------------------ MODULE HttpServer ------------------------------
(***************************************************************************)
(* The web server of chapter 15: the main loop of 15/15-6main.cpp over the *)
(* http_conn objects of 15/15-5http_conn.cpp, with the thread pool seen    *)
(* through what JobQueue says of it (a bounded FIFO of connections).       *)
(*                                                                         *)
(* An http_conn has no lock.  It belongs to the main thread or to one      *)
(* worker by the EPOLLONESHOT registration of its descriptor alone: a      *)
(* reported event disarms the registration, modfd arms it again.           *)
(*                                                                         *)
(* Requests are tokens: what tells them apart is how process_read and      *)
(* process_write end.  A full-size transfer is the business of another     *)
(* model; here writev sends the answer, or stalls, or fails.               *)
(***************************************************************************)
EXTENDS Integers, Sequences, FiniteSets

CONSTANTS
  Clients,        \* the connections made to the server, one element each
  Fds,            \* the descriptors accept can return
  Workers,        \* the threads of the pool
  Kinds,          \* what clients send: a subset of AllKinds
  MaxSends,       \* bound: tokens each client sends
  MaxStalls,      \* bound: how often writev ends in EAGAIN
  MaxFd,          \* MAX_FD
  MaxRequests,    \* max_requests of the pool
  ReadBufferSize, \* READ_BUFFER_SIZE, in tokens
  Listen,         \* the listening descriptor
  None

\* "part" : bytes that do not complete a request;  "badline": a line with a
\* stray \r or \n;  "page": a request answered by a file or by a 4xx page;
\* "empty": one for a file of size 0.
AllKinds == {"part", "badline", "page", "empty"}

NoFd == -1

Refs   == Clients \X Nat                   \* << c, i >>: the i-th token of c

ASSUME FdsAssumption == Fds \subseteq Nat /\ IsFiniteSet(Fds) /\ Listen \notin Fds
ASSUME KindsAssumption == Kinds \subseteq AllKinds
ASSUME BoundsAssumption ==
  /\ {MaxStalls, MaxFd, MaxRequests, ReadBufferSize} \subseteq Nat
  /\ MaxSends \in [Clients -> Nat]
ASSUME WorkersAssumption == IsFiniteSet(Workers) /\ None \notin Workers
ASSUME NoneAssumption == None \notin Clients \cup Fds /\ None \notin Refs

\* keep: a "Connection: keep-alive" line was read before the answer.
Tokens == {t \in [kind : Kinds, keep : BOOLEAN] : t.keep => t.kind = "page"}

VARIABLES
  \* The clients, and the kernel between them and the server.
  fresh,       \* clients that have not connected yet
  sent,        \* what each client has sent, in order
  taken,       \* how much of it recv has returned
  hup,         \* clients that have closed their side
  answered,    \* what each client was answered: the tokens answered
  backlog,     \* connections not accepted yet
  listenEdge,  \* a connection has arrived since the last report on listenfd
  conn,        \* the connection under each descriptor
  reg,         \* its registration: "none", "off" (one shot used), "in", "out"
  stalls,      \* writev calls that ended in EAGAIN
  \* The server.
  users,       \* the http_conn objects
  m_user_count,
  queue,       \* m_workqueue of the pool
  dropped,     \* connections whose append the pool refused
  events,      \* what epoll_wait returned and the loop has not handled yet
  mainPc,      \* "loop", or in the ++ or -- of m_user_count: "inc", "dec"
  wpc,         \* where each worker stands
  wfd,         \* the object it works on
  wreq,        \* the request process_read has found there
  load         \* the count each thread has loaded and not stored yet

client  == << fresh, sent, hup >>
kernel  == << backlog, listenEdge, conn, reg >>
traffic == << taken, answered, stalls >>
pool    == << queue, dropped >>
main    == << events, mainPc >>
worker  == << wpc, wfd, wreq >>
count   == << m_user_count, load >>
vars    == << client, kernel, traffic, users, pool, main, worker, count >>

MainThread == None                         \* its index in load

InitUser(fd) == [m_sockfd |-> fd, read_buf |-> <<>>, answer |-> None]

Init ==
  /\ fresh = Clients
  /\ sent = [c \in Clients |-> <<>>]
  /\ hup = {}
  /\ backlog = <<>>
  /\ listenEdge = FALSE
  /\ conn = [f \in Fds |-> None]
  /\ reg = [f \in Fds |-> "none"]
  /\ taken = [c \in Clients |-> 0]
  /\ answered = [c \in Clients |-> <<>>]
  /\ stalls = 0
  /\ users = [f \in Fds |-> InitUser(NoFd)]
  /\ queue = <<>>
  /\ dropped = {}
  /\ events = [x \in Fds \cup {Listen} |-> "none"]
  /\ mainPc = "loop"
  /\ wpc = [w \in Workers |-> "idle"]
  /\ wfd = [w \in Workers |-> None]
  /\ wreq = [w \in Workers |-> None]
  /\ m_user_count = 0
  /\ load = [t \in Workers \cup {MainThread} |-> 0]

Token(r)  == sent[r[1]][r[2]]
Unread(c) == [i \in 1 .. Len(sent[c]) - taken[c] |-> << c, taken[c] + i >>]
Alive(c)  == (\E f \in Fds : conn[f] = c) \/ (\E i \in DOMAIN backlog : backlog[i] = c)

-----------------------------------------------------------------------------
(* The clients: connecting, sending and closing in any order.               *)

Connect(c) ==
  /\ c \in fresh
  /\ fresh' = fresh \ {c}
  /\ backlog' = Append(backlog, c)
  /\ listenEdge' = TRUE
  /\ UNCHANGED << sent, hup, conn, reg, traffic, users, pool, main, worker, count >>

Send(c) ==
  /\ Alive(c) /\ c \notin hup
  /\ Len(sent[c]) < MaxSends[c]
  /\ \E t \in Tokens : sent' = [sent EXCEPT ![c] = Append(@, t)]
  /\ UNCHANGED << fresh, hup, kernel, traffic, users, pool, main, worker, count >>

HangUp(c) ==
  /\ Alive(c) /\ c \notin hup
  /\ hup' = hup \cup {c}
  /\ UNCHANGED << fresh, sent, kernel, traffic, users, pool, main, worker, count >>

-----------------------------------------------------------------------------
(* epoll: addfd, removefd and modfd on the descriptor an object holds.      *)

\* epoll_ctl(MOD) fails, and nobody looks, unless the descriptor is registered.
Modfd(s, ev) == IF s = NoFd \/ reg[s] = "none" THEN reg ELSE [reg EXCEPT ![s] = ev]

Removefd(s) == /\ conn' = [conn EXCEPT ![s] = None]
               /\ reg'  = [reg  EXCEPT ![s] = "none"]

\* What an armed registration reports, in the order in which the loop tests
\* the flags.  EPOLLRDHUP is always asked for.
Flag(f) ==
  CASE reg[f] \notin {"in", "out"}                -> "none"
    [] OTHER ->
       CASE conn[f] \in hup                       -> "hup"
         [] reg[f] = "in" /\ Unread(conn[f]) # <<>> -> "in"
         [] reg[f] = "out"                        -> "out"
         [] OTHER                                 -> "none"

\* Mutant: EPOLLONESHOT is forgotten, the registration stays armed.
EpollWait_StaysArmed ==
  LET ready == {f \in Fds : Flag(f) # "none"} IN
  /\ mainPc = "loop"
  /\ \A x \in DOMAIN events : events[x] = "none"
  /\ ready # {} \/ listenEdge
  /\ events' = [x \in DOMAIN events |->
                  IF x = Listen THEN (IF listenEdge THEN "in" ELSE "none") ELSE Flag(x)]
  /\ listenEdge' = FALSE
  /\ UNCHANGED << client, backlog, conn, reg, traffic, users, pool, mainPc, worker, count >>

EpollWait ==
  LET ready == {f \in Fds : Flag(f) # "none"} IN
  /\ mainPc = "loop"
  /\ \A x \in DOMAIN events : events[x] = "none"
  /\ ready # {} \/ listenEdge
  /\ events' = [x \in DOMAIN events |->
                  IF x = Listen THEN (IF listenEdge THEN "in" ELSE "none") ELSE Flag(x)]
  /\ reg' = [f \in Fds |-> IF f \in ready THEN "off" ELSE reg[f]]
  /\ listenEdge' = FALSE
  /\ UNCHANGED << client, backlog, conn, traffic, users, pool, mainPc, worker, count >>

\* The loop comes to the entry of x, which carries the flag ev.
Handle(x, ev) ==
  /\ mainPc = "loop"
  /\ events[x] = ev
  /\ events' = [events EXCEPT ![x] = "none"]

-----------------------------------------------------------------------------
(* accept: one connection per report on the edge-triggered listenfd.        *)

FreeFds == {f \in Fds : conn[f] = None}

\* accept fails when no descriptor is left.
AcceptFails ==
  /\ Handle(Listen, "in")
  /\ FreeFds = {}
  /\ UNCHANGED << client, kernel, traffic, users, pool, mainPc, worker, count >>

\* show_error: the connection is closed at once.
AcceptBusy ==
  /\ Handle(Listen, "in")
  /\ FreeFds # {}
  /\ m_user_count >= MaxFd
  /\ backlog' = Tail(backlog)
  /\ UNCHANGED << client, listenEdge, conn, reg, traffic, users, pool, mainPc, worker, count >>

\* init(sockfd, address): addfd, the first half of m_user_count++, and init().
AcceptInit ==
  /\ Handle(Listen, "in")
  /\ m_user_count < MaxFd
  /\ \E f \in FreeFds :
       /\ \A g \in FreeFds : f <= g
       /\ conn' = [conn EXCEPT ![f] = Head(backlog)]
       /\ reg' = [reg EXCEPT ![f] = "in"]
       /\ users' = [users EXCEPT ![f] = InitUser(f)]
  /\ backlog' = Tail(backlog)
  /\ load' = [load EXCEPT ![MainThread] = m_user_count]
  /\ mainPc' = "inc"
  /\ UNCHANGED << client, listenEdge, traffic, pool, worker, m_user_count >>

MainCount ==
  /\ mainPc \in {"inc", "dec"}
  /\ m_user_count' = IF mainPc = "inc" THEN load[MainThread] + 1 ELSE load[MainThread] - 1
  /\ mainPc' = "loop"
  /\ UNCHANGED << client, kernel, traffic, users, pool, events, worker, load >>

-----------------------------------------------------------------------------
(* close_conn in the main thread, up to the load of m_user_count--.         *)

\* Mutant: m_user_count-- is forgotten.
CloseConn_NoCount(f) ==
  LET s == users[f].m_sockfd IN
  /\ UNCHANGED << mainPc, load >>
  /\ IF s = NoFd
       THEN UNCHANGED << conn, reg, users >>
       ELSE /\ Removefd(s)
            /\ users' = [users EXCEPT ![f].m_sockfd = NoFd]

\* Mutant: real_close is false, and nothing happens.
CloseConn_NotReal(f) == UNCHANGED << conn, reg, users, mainPc, load >>

CloseConn(f) ==
  LET s == users[f].m_sockfd IN
  IF s = NoFd
    THEN UNCHANGED << conn, reg, users, mainPc, load >>
    ELSE /\ Removefd(s)
         /\ users' = [users EXCEPT ![f].m_sockfd = NoFd]
         /\ load' = [load EXCEPT ![MainThread] = m_user_count]
         /\ mainPc' = "dec"

CloseOnHup(f) ==
  /\ Handle(f, "hup")
  /\ CloseConn(f)
  /\ UNCHANGED << client, backlog, listenEdge, traffic, pool, worker, m_user_count >>

-----------------------------------------------------------------------------
(* EPOLLIN: read() until EAGAIN, then append to the pool.                   *)

\* The connection the object reaches through m_sockfd: none when that is -1.
Peer(f) == IF users[f].m_sockfd = NoFd THEN None ELSE conn[users[f].m_sockfd]

\* A bad descriptor, end of file, or a buffer that is full: recv is asked for
\* 0 bytes, and returns 0 if there is more, or else 0 or EAGAIN.
ReadMayFail(f) ==
  IF Peer(f) \in hup \cup {None} THEN TRUE
  ELSE Len(users[f].read_buf) + Len(Unread(Peer(f))) >= ReadBufferSize
ReadMayPass(f) ==
  /\ Peer(f) \notin hup \cup {None}
  /\ Len(users[f].read_buf) < ReadBufferSize
  /\ Len(users[f].read_buf) + Len(Unread(Peer(f))) <= ReadBufferSize

ReadCloses(f) ==
  /\ Handle(f, "in")
  /\ ReadMayFail(f)
  /\ CloseConn(f)
  /\ UNCHANGED << client, backlog, listenEdge, traffic, pool, worker, m_user_count >>

\* The pool takes the object while its queue is not over the limit; the loop
\* ignores a refusal.
PoolAppend(f) ==
  IF Len(queue) > MaxRequests
    THEN dropped' = dropped \cup {conn[f]} /\ queue' = queue
    ELSE queue' = Append(queue, f) /\ dropped' = dropped

ReadAppends(f) ==
  LET c == Peer(f) IN
  /\ Handle(f, "in")
  /\ ReadMayPass(f)
  /\ users' = [users EXCEPT ![f].read_buf = @ \o Unread(c)]
  /\ taken' = [taken EXCEPT ![c] = Len(sent[c])]
  /\ PoolAppend(f)
  /\ UNCHANGED << client, kernel, answered, stalls, mainPc, worker, count >>

-----------------------------------------------------------------------------
(* EPOLLOUT: write().                                                       *)

\* init() without arguments.
Cleared(u) == [u EXCEPT !.read_buf = <<>>, !.answer = None]

\* bytes_to_send == 0
WriteNothing(f) ==
  /\ Handle(f, "out")
  /\ users[f].answer = None
  /\ reg' = Modfd(users[f].m_sockfd, "in")
  /\ users' = [users EXCEPT ![f] = Cleared(@)]
  /\ UNCHANGED << client, backlog, listenEdge, conn, traffic, pool, mainPc, worker, count >>

\* EAGAIN: the same answer is tried again when the socket has room.
WriteStalls(f) ==
  /\ Handle(f, "out")
  /\ users[f].answer # None /\ Peer(f) # None
  /\ stalls < MaxStalls
  /\ stalls' = stalls + 1
  /\ reg' = Modfd(users[f].m_sockfd, "out")
  /\ UNCHANGED << client, backlog, listenEdge, conn, taken, answered, users, pool,
                  mainPc, worker, count >>

WriteFails(f) ==
  /\ Handle(f, "out")
  /\ users[f].answer # None
  /\ Peer(f) \in hup \cup {None}
  /\ CloseConn(f)
  /\ UNCHANGED << client, backlog, listenEdge, traffic, pool, worker, m_user_count >>

\* The answer is out: keep the connection for the next request, or close it.
Answer(f) ==
  /\ Handle(f, "out")
  /\ users[f].answer # None /\ Peer(f) # None
  /\ answered' = [answered EXCEPT ![Peer(f)] = Append(@, users[f].answer)]

\* Mutant: init() is forgotten between two requests.
WriteKeeps_NoInit(f) ==
  /\ Answer(f)
  /\ Token(users[f].answer).keep
  /\ reg' = Modfd(users[f].m_sockfd, "in")
  /\ UNCHANGED << client, backlog, listenEdge, conn, taken, stalls, users, pool, mainPc,
                  worker, count >>

\* Mutant: the registration is not armed again after a keep-alive answer.
WriteKeeps_NoRearm(f) ==
  /\ Answer(f)
  /\ Token(users[f].answer).keep
  /\ users' = [users EXCEPT ![f] = Cleared(@)]
  /\ UNCHANGED << client, backlog, listenEdge, conn, reg, taken, stalls, pool, mainPc,
                  worker, count >>

WriteKeeps(f) ==
  /\ Answer(f)
  /\ Token(users[f].answer).keep
  /\ users' = [users EXCEPT ![f] = Cleared(@)]
  /\ reg' = Modfd(users[f].m_sockfd, "in")
  /\ UNCHANGED << client, backlog, listenEdge, conn, taken, stalls, pool, mainPc,
                  worker, count >>

\* Mutant: m_linger is not looked at.
WriteCloses_Always(f) ==
  /\ Answer(f)
  /\ CloseConn(f)
  /\ UNCHANGED << client, backlog, listenEdge, taken, stalls, pool, worker,
                  m_user_count >>

WriteCloses(f) ==
  /\ Answer(f)
  /\ ~Token(users[f].answer).keep
  /\ CloseConn(f)
  /\ UNCHANGED << client, backlog, listenEdge, taken, stalls, pool, worker,
                  m_user_count >>

-----------------------------------------------------------------------------
(* process(), in worker w.                                                  *)

Take(w) ==
  /\ wpc[w] = "idle"
  /\ queue # <<>>
  /\ wpc' = [wpc EXCEPT ![w] = "process"]
  /\ wfd' = [wfd EXCEPT ![w] = Head(queue)]
  /\ queue' = Tail(queue)
  /\ UNCHANGED << client, kernel, traffic, users, dropped, main, wreq, count >>

\* process_read: the first token that ends a line badly or completes a
\* request.  LINE_BAD leaves the loop, and the function returns NO_REQUEST.
Ends(buf) == {i \in DOMAIN buf : Token(buf[i]).kind # "part"}

ProcessReadIncomplete(w) ==
  /\ wpc[w] = "process"
  /\ LET ends == Ends(users[wfd[w]].read_buf) IN
       \A i \in ends : (\A j \in ends : i <= j)
                         => Token(users[wfd[w]].read_buf[i]).kind = "badline"
  /\ wpc' = [wpc EXCEPT ![w] = "rearmIn"]
  /\ UNCHANGED << client, kernel, traffic, users, pool, main, wfd, wreq, count >>

ProcessReadRequest(w) ==
  /\ wpc[w] = "process"
  /\ LET buf == users[wfd[w]].read_buf IN
     \E i \in Ends(buf) :
       /\ \A j \in Ends(buf) : i <= j
       /\ Token(buf[i]).kind # "badline"
       /\ wreq' = [wreq EXCEPT ![w] = buf[i]]
  /\ wpc' = [wpc EXCEPT ![w] = "write"]
  /\ UNCHANGED << client, kernel, traffic, users, pool, main, wfd, count >>

\* process_write: the answer is in m_write_buf and m_iv.  For an empty file
\* it falls into its default case and returns false.
ProcessWrite(w) ==
  /\ wpc[w] = "write"
  /\ users' = [users EXCEPT ![wfd[w]].answer = wreq[w]]
  /\ wpc' = [wpc EXCEPT ![w] = IF Token(wreq[w]).kind = "empty" THEN "close" ELSE "rearmOut"]
  /\ wreq' = [wreq EXCEPT ![w] = None]
  /\ UNCHANGED << client, kernel, traffic, pool, main, wfd, count >>

\* Mutant: process returns without modfd when the request is incomplete.
Rearm_OnlyAnswers(w) ==
  /\ wpc[w] \in {"rearmIn", "rearmOut"}
  /\ reg' = IF wpc[w] = "rearmIn" THEN reg ELSE Modfd(users[wfd[w]].m_sockfd, "out")
  /\ wpc' = [wpc EXCEPT ![w] = "idle"]
  /\ wfd' = [wfd EXCEPT ![w] = None]
  /\ UNCHANGED << client, backlog, listenEdge, conn, traffic, users, pool, main, wreq, count >>

\* Mutant: the answer is ready and the registration waits for input.
Rearm_AlwaysIn(w) ==
  /\ wpc[w] \in {"rearmIn", "rearmOut"}
  /\ reg' = Modfd(users[wfd[w]].m_sockfd, "in")
  /\ wpc' = [wpc EXCEPT ![w] = "idle"]
  /\ wfd' = [wfd EXCEPT ![w] = None]
  /\ UNCHANGED << client, backlog, listenEdge, conn, traffic, users, pool, main, wreq, count >>

\* The last statement of process: modfd, on whatever m_sockfd is by then.
Rearm(w) ==
  /\ wpc[w] \in {"rearmIn", "rearmOut"}
  /\ reg' = Modfd(users[wfd[w]].m_sockfd, IF wpc[w] = "rearmIn" THEN "in" ELSE "out")
  /\ wpc' = [wpc EXCEPT ![w] = "idle"]
  /\ wfd' = [wfd EXCEPT ![w] = None]
  /\ UNCHANGED << client, backlog, listenEdge, conn, traffic, users, pool, main, wreq, count >>

\* close_conn in a worker, statement by statement, since the main thread may
\* accept a connection on the same descriptor as soon as it is closed.
Goto(w, from, to) == wpc[w] = from /\ wpc' = [wpc EXCEPT ![w] = to]

WorkerRemovefd(w) ==
  LET s == users[wfd[w]].m_sockfd IN
  /\ wpc[w] = "close"
  /\ IF s = NoFd
       THEN Goto(w, "close", "rearmOut") /\ UNCHANGED << conn, reg >>
       ELSE Goto(w, "close", "forget") /\ Removefd(s)
  /\ UNCHANGED << client, backlog, listenEdge, traffic, users, pool, main, wfd, wreq, count >>

WorkerForget(w) ==
  /\ Goto(w, "forget", "load")
  /\ users' = [users EXCEPT ![wfd[w]].m_sockfd = NoFd]
  /\ UNCHANGED << client, kernel, traffic, pool, main, wfd, wreq, count >>

WorkerLoad(w) ==
  /\ Goto(w, "load", "store")
  /\ load' = [load EXCEPT ![w] = m_user_count]
  /\ UNCHANGED << client, kernel, traffic, users, pool, main, wfd, wreq, m_user_count >>

WorkerStore(w) ==
  /\ Goto(w, "store", "rearmOut")
  /\ m_user_count' = load[w] - 1
  /\ UNCHANGED << client, kernel, traffic, users, pool, main, wfd, wreq, load >>

-----------------------------------------------------------------------------
MainStep ==
  \/ EpollWait \/ AcceptFails \/ AcceptBusy \/ AcceptInit \/ MainCount
  \/ \E f \in Fds :
       \/ CloseOnHup(f) \/ ReadCloses(f) \/ ReadAppends(f)
       \/ WriteNothing(f) \/ WriteStalls(f) \/ WriteFails(f)
       \/ WriteKeeps(f) \/ WriteCloses(f)

WorkerStep(w) ==
  \/ Take(w) \/ ProcessReadIncomplete(w) \/ ProcessReadRequest(w) \/ ProcessWrite(w) \/ Rearm(w)
  \/ WorkerRemovefd(w) \/ WorkerForget(w) \/ WorkerLoad(w) \/ WorkerStore(w)

ClientStep(c) == Connect(c) \/ Send(c) \/ HangUp(c)

Next ==
  \/ MainStep
  \/ \E w \in Workers : WorkerStep(w)
  \/ \E c \in Clients : ClientStep(c)

Spec == Init /\ [][Next]_vars

\* The threads run; the clients do as they please.
Fairness == WF_vars(MainStep) /\ \A w \in Workers : WF_vars(WorkerStep(w))
FairSpec == Spec /\ Fairness

-----------------------------------------------------------------------------
(* Properties                                                               *)

\* The ways in which somebody may come to work on the object of f: an armed
\* registration, an event not handled yet, an entry of the queue, a worker.
Claims(f) ==
  (IF reg[f] \in {"in", "out"} THEN 1 ELSE 0)
  + (IF events[f] # "none" THEN 1 ELSE 0)
  + Cardinality({i \in DOMAIN queue : queue[i] = f})
  + Cardinality({w \in Workers : wfd[w] = f})

\* One owner (http_conn has no lock: main.cpp 128-132, process 534-550): at no
\* time can two threads, or one thread twice, get at the same connection.
OneOwner == \A f \in Fds : Claims(f) <= 1

\* No connection is forgotten (modfd on every way out of process and write):
\* an open connection is armed, reported, queued or in a worker's hands,
\* unless the pool refused it.
NotStranded ==
  \A f \in Fds : conn[f] # None /\ conn[f] \notin dropped => Claims(f) >= 1

\* The only way to lose a connection, besides a refusal, is to overwrite the
\* m_sockfd of its object (58, in a worker that closes late).
StrandedByForget ==
  \A f \in Fds : conn[f] \notin dropped \cup {None} /\ users[f].m_sockfd = f
                 => Claims(f) >= 1

\* What m_user_count should be: the open connections, those that are counted
\* not yet, and those that are closed and counted still.
Open == {f \in Fds : conn[f] # None}
Owed ==
  Cardinality(Open) - (IF mainPc = "inc" THEN 1 ELSE 0) + (IF mainPc = "dec" THEN 1 ELSE 0)
  + Cardinality({w \in Workers : wpc[w] \in {"forget", "load", "store"}})

Storing(t) == IF t = MainThread THEN mainPc \in {"inc", "dec"} ELSE wpc[t] = "store"

\* A close of what is closed already, by another thread.
ClosesAgain ==
  /\ conn' = conn
  /\ \/ mainPc = "loop" /\ mainPc' = "dec"
     \/ \E w \in Workers : wpc[w] = "close" /\ wpc'[w] = "forget"

\* Every close and every accept counts once (59, 73): m_user_count goes wrong
\* only when a thread stores a count over one that another stored since it
\* loaded, or when two threads close one connection (57, before 58).
CountWrongByRaceOnly ==
  [][m_user_count' - Owed' # m_user_count - Owed =>
       \/ \E t \in DOMAIN load : Storing(t) /\ ~Storing(t)' /\ load[t] # m_user_count
       \/ ClosesAgain]_vars

\* Every answer goes to the client that asked, answers come in the order of
\* the requests, and none is given twice (keep-alive reuses the buffers).
OwnAnswers ==
  \A c \in Clients : \A i \in DOMAIN answered[c] :
    /\ answered[c][i][1] = c
    /\ \A j \in 1 .. i - 1 : answered[c][j][2] < answered[c][i][2]

\* A connection is closed for a reason only: the client hung up, its last
\* answer was not a keep-alive one, it overran the read buffer, or it asked
\* for an empty file.
ClosedForCause ==
  [][\A f \in Fds : conn[f] # None /\ conn'[f] # conn[f] =>
       LET c == conn[f] IN
       \/ c \in hup
       \/ answered'[c] # answered[c] /\ ~Token(users[f].answer).keep
       \/ Len(users[f].read_buf) + Len(Unread(c)) >= ReadBufferSize
       \/ \E i \in DOMAIN sent[c] : sent[c][i].kind = "empty"]_vars

\* The first request of an accepted connection is answered, or the connection
\* is closed, or the pool refused it.
HasRequest(c) == \E i \in DOMAIN sent[c] :
  /\ sent[c][i].kind = "page"
  /\ \A j \in 1 .. i - 1 : sent[c][j].kind = "part"
Accepted(c) == \E f \in Fds : conn[f] = c

FirstRequestAnswered ==
  \A c \in Clients :
    Accepted(c) /\ HasRequest(c) ~> answered[c] # <<>> \/ ~Accepted(c) \/ c \in dropped

\* A client that hangs up is noticed, and its connection closed, unless the
\* pool refused it.
HangUpNoticed ==
  \A c \in Clients : Accepted(c) /\ c \in hup ~> ~Accepted(c) \/ c \in dropped
=============================================================================
