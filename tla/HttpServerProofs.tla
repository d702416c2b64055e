--------------------------- MODULE HttpServerProofs ---------------------------
(***************************************************************************)
(* What holds of the web server for any clients, descriptors and workers.  *)
(* With every kind of request: a connection is lost only with the m_sockfd *)
(* of its object (StrandedByForget), and the count of users goes wrong by  *)
(* a race only (CountWrongByRaceOnly).  When nobody asks for an empty      *)
(* file, so that only the main thread closes: an object has one owner      *)
(* (OneOwner), no connection is forgotten (NotStranded), answers go in     *)
(* order to whoever asked (OwnAnswers), and a connection is closed for a   *)
(* cause (ClosedForCause).                                                 *)
(***************************************************************************)
EXTENDS HttpServer, FiniteSetTheorems, TLAPS

-----------------------------------------------------------------------------
(* The inductive invariants.                                                *)

ObjectType == [m_sockfd : Fds \cup {NoFd}, read_buf : Seq(Refs), answer : Refs \cup {None}]
WorkerPc == {"idle", "process", "write", "close", "forget", "load", "store", "rearmIn", "rearmOut"}

KernelTypes ==
  /\ fresh \subseteq Clients
  /\ sent \in [Clients -> Seq(Tokens)]
  /\ taken \in [Clients -> Nat]
  /\ answered \in [Clients -> Seq(Refs)]
  /\ backlog \in Seq(Clients)
  /\ listenEdge \in BOOLEAN
  /\ conn \in [Fds -> Clients \cup {None}]
  /\ reg \in [Fds -> {"none", "off", "in", "out"}]

ServerTypes ==
  /\ users \in [Fds -> ObjectType]
  /\ m_user_count \in Int
  /\ queue \in Seq(Fds)
  /\ events \in [Fds \cup {Listen} -> {"none", "in", "out", "hup"}]
  /\ mainPc \in {"loop", "inc", "dec"}
  /\ wpc \in [Workers -> WorkerPc]
  /\ wfd \in [Workers -> Fds \cup {None}]
  /\ wreq \in [Workers -> Refs \cup {None}]
  /\ load \in [Workers \cup {MainThread} -> Int]

TypeOK == KernelTypes /\ ServerTypes

\* An object knows its own descriptor or none; a descriptor is registered while
\* it is open; a worker that is not idle has an object, and a request between
\* process_read and process_write.
OwnFd ==
  /\ \A f \in Fds : users[f].m_sockfd \in {f, NoFd}
  /\ \A f \in Fds : conn[f] # None <=> reg[f] # "none"
  /\ \A w \in Workers : wfd[w] = None <=> wpc[w] = "idle"
  /\ \A w \in Workers : wpc[w] = "write" <=> wreq[w] # None

\* A report on the listening socket, handled or not, has a connection behind it.
Arrivals == Len(backlog) >= (IF listenEdge THEN 1 ELSE 0) + (IF events[Listen] = "in" THEN 1 ELSE 0)

\* The ways to come to the object of f.
Armed(f)    == reg[f] \in {"in", "out"}
Reported(f) == events[f] # "none"
Queued(f)   == \E n \in DOMAIN queue : queue[n] = f
Held(f)     == \E w \in Workers : wfd[w] = f

\* An open connection whose object knows it has an owner to come.
Attended ==
  \A f \in Fds : conn[f] \notin dropped \cup {None} /\ users[f].m_sockfd = f
                 => Armed(f) \/ Reported(f) \/ Queued(f) \/ Held(f)

ServerInv == TypeOK /\ OwnFd /\ Arrivals /\ Attended

-----------------------------------------------------------------------------
\* When nobody asks for an empty file, no worker closes.
NoWorkerCloses == \A w \in Workers : wpc[w] \notin {"close", "forget", "load", "store"}

\* What is in hand was sent and read.
IsRead(r) == r[2] \in 1 .. taken[r[1]]
Reads ==
  /\ \A c \in Clients : taken[c] <= Len(sent[c])
  /\ \A f \in Fds : \A n \in DOMAIN users[f].read_buf : IsRead(users[f].read_buf[n])
  /\ \A f \in Fds : users[f].answer # None => IsRead(users[f].answer)
  /\ \A w \in Workers : wreq[w] # None => IsRead(wreq[w])

\* At most one way to an object, and none but to that of an open connection.
OneWay ==
  /\ \A f \in Fds : Armed(f) => ~Reported(f) /\ ~Queued(f) /\ ~Held(f)
  /\ \A f \in Fds : Reported(f) => ~Queued(f) /\ ~Held(f)
  /\ \A f \in Fds : Queued(f) => ~Held(f)
  /\ \A m, n \in DOMAIN queue : queue[m] = queue[n] => m = n
  /\ \A v, w \in Workers : wfd[v] = wfd[w] /\ wfd[v] # None => v = w
  /\ \A f \in Fds : Reported(f) \/ Queued(f) \/ Held(f) => conn[f] # None
  /\ \A f \in Fds : conn[f] # None <=> users[f].m_sockfd = f

OwnerInv == ServerInv /\ NoWorkerCloses /\ Reads /\ OneWay

-----------------------------------------------------------------------------
\* A client is in one place.
OnePlace ==
  /\ \A f, g \in Fds : conn[f] # None /\ conn[f] = conn[g] => f = g
  /\ \A f \in Fds : conn[f] \notin fresh
  /\ \A n \in DOMAIN backlog : backlog[n] \notin fresh /\ \A f \in Fds : conn[f] # backlog[n]
  /\ \A m, n \in DOMAIN backlog : backlog[m] = backlog[n] => m = n

In(buf, r) == \E n \in DOMAIN buf : buf[n] = r

\* The buffer of an open connection has requests of its own client, later than
\* those answered; the request in hand is one of them, the answer to one of them.
OwnRequests ==
  \A f \in Fds : conn[f] # None =>
    /\ \A n \in DOMAIN users[f].read_buf :
         LET r == users[f].read_buf[n] IN
         /\ r[1] = conn[f]
         /\ \A m \in DOMAIN answered[conn[f]] : answered[conn[f]][m][2] < r[2]
    /\ users[f].answer # None => In(users[f].read_buf, users[f].answer)
    /\ \A w \in Workers : wfd[w] = f /\ wreq[w] # None => In(users[f].read_buf, wreq[w])

AnsweredWereRead ==
  \A c \in Clients : \A m \in DOMAIN answered[c] : answered[c][m][2] <= taken[c]

HupIsKnown == \A f \in Fds : events[f] = "hup" => conn[f] \in hup

AnswersInv == OwnerInv /\ OnePlace /\ OwnRequests /\ AnsweredWereRead /\ HupIsKnown /\ OwnAnswers

-----------------------------------------------------------------------------
(* Lemmas about the operators.                                              *)

\* The constants, as the proofs use them.
LEMMA ConstantFacts ==
  /\ \A f \in Fds : f \in Nat /\ f # NoFd /\ f # None /\ f # Listen
  /\ IsFiniteSet(Fds) /\ IsFiniteSet(Workers)
  /\ None \notin Workers /\ None \notin Fds /\ None \notin Clients /\ None \notin Refs
  /\ NoFd \notin Fds
BY FdsAssumption, WorkersAssumption, NoneAssumption DEF NoFd

LEMMA ObjectFields ==
  ASSUME TypeOK, NEW f \in Fds
  PROVE  /\ users[f] \in ObjectType
         /\ users[f].m_sockfd \in Fds \cup {NoFd}
         /\ users[f].read_buf \in Seq(Refs)
         /\ users[f].answer \in Refs \cup {None}
BY DEF TypeOK, ServerTypes, ObjectType

\* modfd changes the registration of the object's own descriptor at most, and
\* that only when it is open.
LEMMA ModfdOwn ==
  ASSUME TypeOK, OwnFd, NEW f \in Fds, NEW ev \in {"in", "out"}
  PROVE  LET r == Modfd(users[f].m_sockfd, ev) IN
         /\ r \in [Fds -> {"none", "off", "in", "out"}]
         /\ \A g \in Fds : g # f => r[g] = reg[g]
         /\ r[f] = "none" <=> reg[f] = "none"
         /\ users[f].m_sockfd = f /\ reg[f] # "none" => r[f] = ev
         /\ users[f].m_sockfd # f => r = reg
         /\ r[f] \in {reg[f], ev}
BY ConstantFacts DEF TypeOK, KernelTypes, OwnFd, Modfd

LEMMA InitUserType == \A f \in Fds \cup {NoFd} : InitUser(f) \in ObjectType
<1>1. <<>> \in Seq(Refs)
  OBVIOUS
<1> QED BY <1>1 DEF InitUser, ObjectType

LEMMA ClearedType ==
  ASSUME NEW u \in ObjectType
  PROVE  /\ Cleared(u) \in ObjectType
         /\ Cleared(u).m_sockfd = u.m_sockfd
         /\ Cleared(u).read_buf = <<>>
         /\ Cleared(u).answer = None
<1>1. <<>> \in Seq(Refs)
  OBVIOUS
<1> QED BY <1>1 DEF Cleared, ObjectType

\* What close_conn does in the main thread: the descriptor it closes is the
\* object's own.
LEMMA CloseEffect ==
  ASSUME TypeOK, OwnFd, NEW f \in Fds, CloseConn(f)
  PROVE  \/ users[f].m_sockfd = NoFd /\ UNCHANGED << conn, reg, users, mainPc, load >>
         \/ /\ users[f].m_sockfd = f
            /\ conn' = [conn EXCEPT ![f] = None]
            /\ reg' = [reg EXCEPT ![f] = "none"]
            /\ users' = [users EXCEPT ![f].m_sockfd = NoFd]
            /\ load' = [load EXCEPT ![MainThread] = m_user_count]
            /\ mainPc' = "dec"
BY DEF CloseConn, Removefd, OwnFd

LEMMA CloseTypes ==
  ASSUME TypeOK, OwnFd, NEW f \in Fds, CloseConn(f)
  PROVE  /\ conn' \in [Fds -> Clients \cup {None}]
         /\ reg' \in [Fds -> {"none", "off", "in", "out"}]
         /\ users' \in [Fds -> ObjectType]
         /\ load' \in [Workers \cup {MainThread} -> Int]
         /\ mainPc' \in {"loop", "inc", "dec"}
         /\ \A g \in Fds : /\ users'[g].m_sockfd \in {g, NoFd}
                           /\ conn'[g] # None <=> reg'[g] # "none"
         /\ \A g \in Fds : g # f => conn'[g] = conn[g] /\ reg'[g] = reg[g] /\ users'[g] = users[g]
         /\ users'[f].m_sockfd = NoFd
         /\ users'[f].read_buf = users[f].read_buf /\ users'[f].answer = users[f].answer
<1>1. CASE users[f].m_sockfd = NoFd /\ UNCHANGED << conn, reg, users, mainPc, load >>
  BY <1>1, ConstantFacts DEF TypeOK, KernelTypes, ServerTypes, OwnFd
<1>2. CASE /\ users[f].m_sockfd = f
           /\ conn' = [conn EXCEPT ![f] = None]
           /\ reg' = [reg EXCEPT ![f] = "none"]
           /\ users' = [users EXCEPT ![f].m_sockfd = NoFd]
           /\ load' = [load EXCEPT ![MainThread] = m_user_count]
           /\ mainPc' = "dec"
  <2>1. /\ users' \in [Fds -> ObjectType]
        /\ users'[f].m_sockfd = NoFd
        /\ users'[f].read_buf = users[f].read_buf /\ users'[f].answer = users[f].answer
        /\ \A g \in Fds : g # f => users'[g] = users[g]
    BY <1>2 DEF TypeOK, ServerTypes, ObjectType
  <2> QED BY <1>2, <2>1, ConstantFacts DEF TypeOK, KernelTypes, ServerTypes, OwnFd
<1> QED BY <1>1, <1>2, CloseEffect

\* Adding an entry at the end of a queue, and taking the one at its head.
LEMMA AppendEntry ==
  ASSUME NEW S, NEW q \in Seq(S), NEW x \in S
  PROVE  /\ Append(q, x) \in Seq(S)
         /\ Len(Append(q, x)) = Len(q) + 1
         /\ DOMAIN q = 1 .. Len(q) /\ Len(q) \in Nat
         /\ DOMAIN Append(q, x) = DOMAIN q \cup {Len(q) + 1}
         /\ \A n \in DOMAIN q : Append(q, x)[n] = q[n]
         /\ Append(q, x)[Len(q) + 1] = x
OBVIOUS

LEMMA TailEntry ==
  ASSUME NEW S, NEW q \in Seq(S), q # <<>>
  PROVE  /\ Tail(q) \in Seq(S) /\ Head(q) \in S
         /\ Len(Tail(q)) = Len(q) - 1
         /\ DOMAIN q = 1 .. Len(q) /\ Len(q) \in Nat \ {0}
         /\ Head(q) = q[1]
         /\ \A n \in DOMAIN q : n # 1 => n - 1 \in DOMAIN Tail(q) /\ Tail(q)[n - 1] = q[n]
         /\ \A n \in DOMAIN Tail(q) : n + 1 \in DOMAIN q /\ Tail(q)[n] = q[n + 1]
OBVIOUS

LEMMA UnreadType ==
  ASSUME TypeOK, NEW c \in Clients
  PROVE  /\ Unread(c) \in Seq(Refs)
         /\ \A n \in DOMAIN Unread(c) : Unread(c)[n] = << c, taken[c] + n >>
         /\ DOMAIN Unread(c) = 1 .. Len(sent[c]) - taken[c]
<1>1. Len(sent[c]) \in Nat /\ taken[c] \in Nat
  BY DEF TypeOK, KernelTypes
<1>2. \A n \in 1 .. Len(sent[c]) - taken[c] : << c, taken[c] + n >> \in Refs
  BY <1>1 DEF Refs
<1>3. CASE Len(sent[c]) - taken[c] \in Nat
  BY <1>2, <1>3 DEF Unread
<1>4. CASE Len(sent[c]) - taken[c] \notin Nat
  <2>1. 1 .. Len(sent[c]) - taken[c] = 1 .. 0
    BY <1>1, <1>4
  <2>2. Unread(c) = [i \in 1 .. 0 |-> << c, taken[c] + i >>]
    BY <2>1 DEF Unread
  <2>3. [i \in 1 .. 0 |-> << c, taken[c] + i >>] \in Seq(Refs)
    BY <1>2, <2>1
  <2> QED BY <2>1, <2>2, <2>3
<1> QED BY <1>3, <1>4

LEMMA TokenType == \A t \in Tokens : t.kind \in Kinds /\ t.keep \in BOOLEAN
BY DEF Tokens

-----------------------------------------------------------------------------
(* ServerInv holds at the start, and the clients keep it.                   *)

LEMMA InitServer == ASSUME Init PROVE ServerInv
<1>1. TypeOK
  <2>1. KernelTypes
    <3>1. <<>> \in Seq(Tokens) /\ <<>> \in Seq(Refs) /\ <<>> \in Seq(Clients)
      OBVIOUS
    <3> QED BY <3>1 DEF Init, KernelTypes
  <2>2. users \in [Fds -> ObjectType]
    BY InitUserType DEF Init
  <2>3. ServerTypes
    BY <2>2 DEF Init, ServerTypes, WorkerPc
  <2> QED BY <2>1, <2>3 DEF TypeOK
<1>2. OwnFd
  BY DEF Init, OwnFd, InitUser
<1>3. Arrivals
  <2>1. backlog = <<>> /\ listenEdge = FALSE /\ events[Listen] = "none"
    BY DEF Init
  <2> QED BY <2>1 DEF Arrivals
<1>4. Attended
  BY DEF Init, Attended
<1> QED BY <1>1, <1>2, <1>3, <1>4 DEF ServerInv

\* What the clients do does not reach the objects.
LEMMA ClientServer ==
  ASSUME ServerInv, NEW c \in Clients, ClientStep(c)
  PROVE  ServerInv'
<1> USE DEF ServerInv
<1>1. CASE Connect(c)
  <2>1. backlog' \in Seq(Clients) /\ Len(backlog') = Len(backlog) + 1
    BY <1>1, AppendEntry DEF TypeOK, KernelTypes, Connect
  <2>2. TypeOK'
    BY <1>1, <2>1 DEF TypeOK, KernelTypes, ServerTypes, Connect, traffic, pool, main, worker, count
  <2>3. Arrivals'
    BY <1>1, <2>1 DEF Arrivals, Connect, main, TypeOK, KernelTypes
  <2>4. OwnFd' /\ Attended'
    BY <1>1 DEF OwnFd, Attended, Armed, Reported, Queued, Held, Connect, traffic, pool, main, worker, count
  <2> QED BY <2>2, <2>3, <2>4
<1>2. CASE Send(c)
  <2>1. sent' \in [Clients -> Seq(Tokens)]
    BY <1>2 DEF TypeOK, KernelTypes, Send
  <2>2. TypeOK'
    BY <1>2, <2>1 DEF TypeOK, KernelTypes, ServerTypes, Send, kernel, traffic, pool, main, worker, count
  <2>3. OwnFd' /\ Attended' /\ Arrivals'
    BY <1>2 DEF OwnFd, Arrivals, Attended, Armed, Reported, Queued, Held, Send, kernel, traffic, pool,
                main, worker, count
  <2> QED BY <2>2, <2>3
<1>3. CASE HangUp(c)
  <2>1. TypeOK'
    BY <1>3 DEF TypeOK, KernelTypes, ServerTypes, HangUp, kernel, traffic, pool, main, worker, count
  <2>2. OwnFd' /\ Attended' /\ Arrivals'
    BY <1>3 DEF OwnFd, Arrivals, Attended, Armed, Reported, Queued, Held, HangUp, kernel, traffic, pool,
                main, worker, count
  <2> QED BY <2>1, <2>2
<1> QED BY <1>1, <1>2, <1>3 DEF ClientStep

-----------------------------------------------------------------------------
(* ServerInv: epoll, accept and the count.                                  *)

LEMMA FlagValues ==
  ASSUME NEW f \in Fds
  PROVE  /\ Flag(f) \in {"none", "in", "out", "hup"}
         /\ Flag(f) # "none" => Armed(f)
BY DEF Flag, Armed

LEMMA EpollWaitServer == ASSUME ServerInv, EpollWait PROVE ServerInv'
<1> USE DEF ServerInv
<1>1. /\ \A x \in Fds \cup {Listen} : events[x] = "none"
      /\ events' = [x \in Fds \cup {Listen} |->
                      IF x = Listen THEN (IF listenEdge THEN "in" ELSE "none") ELSE Flag(x)]
  BY DEF EpollWait, TypeOK, ServerTypes
<1>2. /\ events' \in [Fds \cup {Listen} -> {"none", "in", "out", "hup"}]
      /\ \A f \in Fds : events'[f] = Flag(f)
      /\ events'[Listen] = (IF listenEdge THEN "in" ELSE "none")
  BY <1>1, FlagValues, ConstantFacts
<1>3. /\ reg' \in [Fds -> {"none", "off", "in", "out"}]
      /\ \A f \in Fds : reg'[f] = IF Flag(f) # "none" THEN "off" ELSE reg[f]
  BY DEF EpollWait, TypeOK, KernelTypes
<1>4. TypeOK'
  BY <1>2, <1>3 DEF EpollWait, TypeOK, KernelTypes, ServerTypes, client, traffic, pool, worker, count
<1>5. OwnFd'
  BY <1>3, FlagValues DEF EpollWait, OwnFd, Armed, worker
<1>6. Arrivals'
  BY <1>1, <1>2 DEF EpollWait, Arrivals, TypeOK, KernelTypes
<1>7. Attended'
  BY <1>1, <1>2, <1>3, FlagValues DEF EpollWait, Attended, Armed, Reported, Queued, Held, pool, worker
<1> QED BY <1>4, <1>5, <1>6, <1>7

\* An entry of events is handled once.
LEMMA HandleEffect ==
  ASSUME TypeOK, NEW x \in Fds \cup {Listen}, NEW ev \in {"in", "out", "hup"}, Handle(x, ev)
  PROVE  /\ events[x] = ev /\ events'[x] = "none"
         /\ \A y \in Fds \cup {Listen} : y # x => events'[y] = events[y]
         /\ events' \in [Fds \cup {Listen} -> {"none", "in", "out", "hup"}]
BY DEF Handle, TypeOK, ServerTypes

LEMMA HandleArrivals ==
  ASSUME TypeOK, Arrivals, NEW f \in Fds, NEW ev \in {"in", "out", "hup"}, Handle(f, ev),
         UNCHANGED << backlog, listenEdge >>
  PROVE  Arrivals'
BY HandleEffect, ConstantFacts DEF Arrivals

LEMMA AcceptServer ==
  ASSUME ServerInv, AcceptFails \/ AcceptBusy \/ AcceptInit
  PROVE  ServerInv'
<1> USE DEF ServerInv
<1>1. Handle(Listen, "in")
  BY DEF AcceptFails, AcceptBusy, AcceptInit
<1>2. /\ events[Listen] = "in" /\ events'[Listen] = "none"
      /\ \A y \in Fds : events'[y] = events[y]
      /\ events' \in [Fds \cup {Listen} -> {"none", "in", "out", "hup"}]
  BY <1>1, HandleEffect, ConstantFacts
<1>3. backlog # <<>>
  BY <1>2 DEF Arrivals, TypeOK, KernelTypes
<1>4. Tail(backlog) \in Seq(Clients) /\ Head(backlog) \in Clients /\ Len(Tail(backlog)) = Len(backlog) - 1
  BY <1>3, TailEntry DEF TypeOK, KernelTypes
<1>5. CASE AcceptFails
  <2>1. TypeOK'
    BY <1>2, <1>5 DEF TypeOK, KernelTypes, ServerTypes, AcceptFails, client, kernel, traffic, pool, worker,
                      count
  <2>2. Arrivals'
    BY <1>2, <1>5 DEF Arrivals, AcceptFails, kernel, TypeOK, KernelTypes
  <2>3. OwnFd' /\ Attended'
    BY <1>2, <1>5 DEF OwnFd, Attended, Armed, Reported, Queued, Held, AcceptFails, kernel, pool, worker
  <2> QED BY <2>1, <2>2, <2>3
<1>6. CASE AcceptBusy
  <2>1. TypeOK'
    BY <1>2, <1>4, <1>6 DEF TypeOK, KernelTypes, ServerTypes, AcceptBusy, client, traffic, pool, worker,
                            count
  <2>2. Arrivals'
    BY <1>2, <1>4, <1>6 DEF Arrivals, AcceptBusy, TypeOK, KernelTypes
  <2>3. OwnFd' /\ Attended'
    BY <1>2, <1>6 DEF OwnFd, Attended, Armed, Reported, Queued, Held, AcceptBusy, pool, worker
  <2> QED BY <2>1, <2>2, <2>3
<1>7. CASE AcceptInit
  <2>1. PICK f \in FreeFds : /\ conn' = [conn EXCEPT ![f] = Head(backlog)]
                             /\ reg' = [reg EXCEPT ![f] = "in"]
                             /\ users' = [users EXCEPT ![f] = InitUser(f)]
    BY <1>7 DEF AcceptInit
  <2>2. /\ f \in Fds /\ conn[f] = None
        /\ conn'[f] = Head(backlog) /\ reg'[f] = "in" /\ users'[f] = InitUser(f)
        /\ \A g \in Fds : g # f => conn'[g] = conn[g] /\ reg'[g] = reg[g] /\ users'[g] = users[g]
        /\ conn' \in [Fds -> Clients \cup {None}]
        /\ reg' \in [Fds -> {"none", "off", "in", "out"}]
        /\ users' \in [Fds -> ObjectType]
    BY <1>4, <2>1, InitUserType DEF FreeFds, TypeOK, KernelTypes, ServerTypes
  <2>3. TypeOK'
    BY <1>2, <1>4, <1>7, <2>2 DEF TypeOK, KernelTypes, ServerTypes, AcceptInit, client, traffic, pool,
                                  worker, MainThread
  <2>4. Arrivals'
    BY <1>2, <1>4, <1>7 DEF Arrivals, AcceptInit, TypeOK, KernelTypes
  <2>5. OwnFd'
    BY <1>4, <1>7, <2>2, ConstantFacts DEF OwnFd, AcceptInit, InitUser, worker
  <2>6. Attended'
    BY <1>2, <1>7, <2>2 DEF Attended, Armed, Reported, Queued, Held, AcceptInit, pool, worker
  <2> QED BY <2>3, <2>4, <2>5, <2>6
<1> QED BY <1>5, <1>6, <1>7

LEMMA MainCountServer == ASSUME ServerInv, MainCount PROVE ServerInv'
<1> USE DEF ServerInv
<1>1. load[MainThread] \in Int
  BY DEF TypeOK, ServerTypes, MainThread
<1>2. TypeOK'
  BY <1>1 DEF TypeOK, KernelTypes, ServerTypes, MainCount, client, kernel, traffic, pool, worker
<1>3. OwnFd' /\ Arrivals' /\ Attended'
  BY DEF OwnFd, Arrivals, Attended, Armed, Reported, Queued, Held, MainCount, kernel, pool, worker
<1> QED BY <1>2, <1>3

-----------------------------------------------------------------------------
(* ServerInv: the entries of the descriptors.                               *)

LEMMA PeerOwn ==
  ASSUME TypeOK, OwnFd, NEW f \in Fds, Peer(f) # None
  PROVE  users[f].m_sockfd = f /\ Peer(f) = conn[f] /\ Peer(f) \in Clients
BY DEF Peer, OwnFd, TypeOK, KernelTypes

\* Every close in the main thread; what else a close does is named by UNCHANGED.
LEMMA CloseServer ==
  ASSUME ServerInv, NEW f \in Fds, NEW ev \in {"in", "out", "hup"}, Handle(f, ev), CloseConn(f),
         answered' \in [Clients -> Seq(Refs)],
         UNCHANGED << client, backlog, listenEdge, taken, stalls, pool, worker, m_user_count >>
  PROVE  ServerInv'
<1> USE DEF ServerInv
<1>1. /\ events' \in [Fds \cup {Listen} -> {"none", "in", "out", "hup"}]
      /\ \A g \in Fds : g # f => events'[g] = events[g]
  BY HandleEffect
<1>2. TypeOK'
  BY <1>1, CloseTypes DEF TypeOK, KernelTypes, ServerTypes, client, pool, worker
<1>3. OwnFd'
  BY CloseTypes DEF OwnFd, worker
<1>4. Arrivals'
  BY HandleArrivals
<1>5. Attended'
  <2>1. \A g \in Fds : g # f => conn'[g] = conn[g] /\ reg'[g] = reg[g] /\ users'[g] = users[g]
    BY CloseTypes
  <2>2. users'[f].m_sockfd # f
    BY CloseTypes, ConstantFacts
  <2> QED BY <1>1, <2>1, <2>2 DEF Attended, Armed, Reported, Queued, Held, pool, worker
<1> QED BY <1>2, <1>3, <1>4, <1>5

\* What one client was answered grows by an answer of the object.
LEMMA AnswerTypes ==
  ASSUME TypeOK, OwnFd, NEW f \in Fds, Answer(f)
  PROVE  /\ answered' \in [Clients -> Seq(Refs)]
         /\ users[f].answer \in Refs
         /\ Handle(f, "out")
         /\ Peer(f) \in Clients /\ Peer(f) = conn[f] /\ users[f].m_sockfd = f
         /\ answered'[conn[f]] = Append(answered[conn[f]], users[f].answer)
         /\ \A c \in Clients : c # conn[f] => answered'[c] = answered[c]
<1>1. Handle(f, "out") /\ users[f].answer \in Refs
  BY ObjectFields DEF Answer
<1>2. Peer(f) \in Clients /\ Peer(f) = conn[f] /\ users[f].m_sockfd = f
  BY PeerOwn DEF Answer
<1>3. Append(answered[conn[f]], users[f].answer) \in Seq(Refs)
  BY <1>1, <1>2, AppendEntry DEF TypeOK, KernelTypes
<1> QED BY <1>1, <1>2, <1>3 DEF Answer, TypeOK, KernelTypes

LEMMA ClosesServer ==
  ASSUME ServerInv, NEW f \in Fds,
         CloseOnHup(f) \/ ReadCloses(f) \/ WriteFails(f) \/ WriteCloses(f)
  PROVE  ServerInv'
<1>1. TypeOK /\ OwnFd /\ answered \in [Clients -> Seq(Refs)]
  BY DEF ServerInv, TypeOK, KernelTypes
<1>2. CASE CloseOnHup(f)
  BY <1>1, <1>2, CloseServer DEF CloseOnHup, traffic
<1>3. CASE ReadCloses(f)
  BY <1>1, <1>3, CloseServer DEF ReadCloses, traffic
<1>4. CASE WriteFails(f)
  BY <1>1, <1>4, CloseServer DEF WriteFails, traffic
<1>5. CASE WriteCloses(f)
  <2>1. Answer(f)
    BY <1>5 DEF WriteCloses
  <2> QED BY <1>1, <1>5, <2>1, AnswerTypes, CloseServer DEF WriteCloses
<1> QED BY <1>2, <1>3, <1>4, <1>5

\* What read() leaves: the unread tokens of its client at the end of the buffer.
LEMMA ReadEffect ==
  ASSUME TypeOK, OwnFd, NEW f \in Fds, ReadAppends(f)
  PROVE  /\ Handle(f, "in")
         /\ conn[f] \in Clients /\ users[f].m_sockfd = f
         /\ users' \in [Fds -> ObjectType]
         /\ \A g \in Fds : g # f => users'[g] = users[g]
         /\ users'[f].m_sockfd = f /\ users'[f].answer = users[f].answer
         /\ users'[f].read_buf = users[f].read_buf \o Unread(conn[f])
         /\ taken' = [taken EXCEPT ![conn[f]] = Len(sent[conn[f]])]
<1>1. Handle(f, "in") /\ Peer(f) # None
  BY DEF ReadAppends, ReadMayPass
<1>2. conn[f] \in Clients /\ users[f].m_sockfd = f /\ Peer(f) = conn[f]
  BY <1>1, PeerOwn
<1>3. Unread(conn[f]) \in Seq(Refs) /\ users[f].read_buf \in Seq(Refs)
  BY <1>2, UnreadType, ObjectFields
<1>4. users[f].read_buf \o Unread(conn[f]) \in Seq(Refs)
  BY <1>3
<1>5. users' = [users EXCEPT ![f].read_buf = users[f].read_buf \o Unread(conn[f])]
  BY <1>2 DEF ReadAppends
<1>6. /\ users' \in [Fds -> ObjectType]
      /\ \A g \in Fds : g # f => users'[g] = users[g]
      /\ users'[f].m_sockfd = users[f].m_sockfd /\ users'[f].answer = users[f].answer
      /\ users'[f].read_buf = users[f].read_buf \o Unread(conn[f])
  BY <1>4, <1>5 DEF TypeOK, ServerTypes, ObjectType
<1>7. taken' = [taken EXCEPT ![conn[f]] = Len(sent[conn[f]])]
  BY <1>2 DEF ReadAppends
<1> QED BY <1>1, <1>2, <1>6, <1>7

LEMMA PoolEffect ==
  ASSUME TypeOK, NEW f \in Fds, PoolAppend(f)
  PROVE  \/ dropped' = dropped \cup {conn[f]} /\ queue' = queue
         \/ dropped' = dropped /\ queue' = Append(queue, f)
BY DEF PoolAppend

LEMMA ReadAppendsServer == ASSUME ServerInv, NEW f \in Fds, ReadAppends(f) PROVE ServerInv'
<1> USE DEF ServerInv
<1>h. Handle(f, "in") /\ TypeOK /\ OwnFd
  BY ReadEffect
<1>c. conn[f] \in Clients /\ taken' = [taken EXCEPT ![conn[f]] = Len(sent[conn[f]])]
  BY ReadEffect
<1>1. /\ events' \in [Fds \cup {Listen} -> {"none", "in", "out", "hup"}]
      /\ \A g \in Fds : g # f => events'[g] = events[g]
  BY <1>h, HandleEffect
<1>2. queue \in Seq(Fds)
  BY DEF TypeOK, ServerTypes
<1>3. PoolAppend(f)
  BY DEF ReadAppends
<1>4. /\ Append(queue, f) \in Seq(Fds)
      /\ DOMAIN Append(queue, f) = DOMAIN queue \cup {Len(queue) + 1}
      /\ \A n \in DOMAIN queue : Append(queue, f)[n] = queue[n]
      /\ Append(queue, f)[Len(queue) + 1] = f
  BY <1>2, AppendEntry
<1>5. queue' \in Seq(Fds)
  BY <1>2, <1>3, <1>4, PoolEffect
<1>6. taken' \in [Clients -> Nat]
  BY <1>c DEF TypeOK, KernelTypes
<1>7. TypeOK'
  BY <1>1, <1>5, <1>6, ReadEffect DEF TypeOK, KernelTypes, ServerTypes, ReadAppends, client, kernel,
                                      worker, count
<1>8. OwnFd'
  BY ReadEffect DEF OwnFd, ReadAppends, kernel, worker
<1>9. Arrivals'
  BY ReadEffect, HandleArrivals DEF ReadAppends, kernel
<1>10. Attended'
  <2>1. SUFFICES ASSUME NEW g \in Fds, conn'[g] \notin dropped' \cup {None}, users'[g].m_sockfd = g
                 PROVE  Armed(g)' \/ Reported(g)' \/ Queued(g)' \/ Held(g)'
    BY DEF Attended
  <2>2. /\ conn' = conn /\ reg' = reg /\ wfd' = wfd
        /\ conn[g] \notin dropped \cup {None} /\ users[g].m_sockfd = g
    BY <2>1, <1>3, PoolEffect, ReadEffect DEF ReadAppends, kernel, worker
  <2>3. Queued(g) => Queued(g)'
    BY <1>3, <1>4, PoolEffect DEF Queued
  <2>4. CASE g = f
    <3>1. queue' = Append(queue, f)
      BY <1>3, <2>1, <2>2, <2>4, PoolEffect
    <3> QED BY <1>4, <2>4, <3>1 DEF Queued
  <2>5. CASE g # f
    BY <1>1, <2>2, <2>3, <2>5 DEF Attended, Armed, Reported, Held
  <2> QED BY <2>4, <2>5
<1> QED BY <1>7, <1>8, <1>9, <1>10

\* Every write that ends with modfd on the object's own descriptor.
LEMMA WriteArmsServer ==
  ASSUME ServerInv, NEW f \in Fds, Handle(f, "out"), NEW ev \in {"in", "out"},
         reg' = Modfd(users[f].m_sockfd, ev),
         users' \in [Fds -> ObjectType],
         \A g \in Fds : users'[g].m_sockfd = users[g].m_sockfd,
         answered' \in [Clients -> Seq(Refs)],
         UNCHANGED << client, backlog, listenEdge, conn, taken, pool, mainPc, worker, count >>
  PROVE  ServerInv'
<1> USE DEF ServerInv
<1>1. /\ events' \in [Fds \cup {Listen} -> {"none", "in", "out", "hup"}]
      /\ \A g \in Fds : g # f => events'[g] = events[g]
  BY HandleEffect
<1>2. TypeOK'
  BY <1>1, ModfdOwn DEF TypeOK, KernelTypes, ServerTypes, client, pool, worker, count
<1>3. OwnFd'
  <2>1. \A g \in Fds : reg'[g] = "none" <=> reg[g] = "none"
    BY ModfdOwn
  <2> QED BY <2>1 DEF OwnFd, worker
<1>4. Arrivals'
  BY HandleArrivals
<1>5. Attended'
  <2>1. \A g \in Fds : g # f => reg'[g] = reg[g]
    BY ModfdOwn
  <2>2. users[f].m_sockfd = f /\ conn[f] # None => reg'[f] = ev
    BY ModfdOwn DEF OwnFd
  <2> QED BY <1>1, <2>1, <2>2 DEF Attended, Armed, Reported, Queued, Held, pool, worker
<1> QED BY <1>2, <1>3, <1>4, <1>5

LEMMA ClearedUsers ==
  ASSUME TypeOK, NEW f \in Fds, users' = [users EXCEPT ![f] = Cleared(@)]
  PROVE  /\ users' \in [Fds -> ObjectType]
         /\ \A g \in Fds : g # f => users'[g] = users[g]
         /\ \A g \in Fds : users'[g].m_sockfd = users[g].m_sockfd
         /\ users'[f].read_buf = <<>> /\ users'[f].answer = None
<1>1. users[f] \in ObjectType /\ users'[f] = Cleared(users[f])
  BY ObjectFields DEF TypeOK, ServerTypes
<1> QED BY <1>1, ClearedType DEF TypeOK, ServerTypes

LEMMA WritesServer ==
  ASSUME ServerInv, NEW f \in Fds, WriteNothing(f) \/ WriteStalls(f) \/ WriteKeeps(f)
  PROVE  ServerInv'
<1>1. TypeOK /\ OwnFd /\ answered \in [Clients -> Seq(Refs)] /\ users \in [Fds -> ObjectType]
  BY DEF ServerInv, TypeOK, KernelTypes, ServerTypes
<1>2. CASE WriteNothing(f)
  BY <1>1, <1>2, ClearedUsers, WriteArmsServer DEF WriteNothing, traffic
<1>3. CASE WriteStalls(f)
  BY <1>1, <1>3, WriteArmsServer DEF WriteStalls
<1>4. CASE WriteKeeps(f)
  <2>1. Answer(f)
    BY <1>4 DEF WriteKeeps
  <2> QED BY <1>1, <1>4, <2>1, AnswerTypes, ClearedUsers, WriteArmsServer DEF WriteKeeps
<1> QED BY <1>2, <1>3, <1>4

-----------------------------------------------------------------------------
(* ServerInv: the workers.                                                  *)

\* A worker past Take has the object of a descriptor.
LEMMA HeldObject ==
  ASSUME TypeOK, OwnFd, NEW w \in Workers, wpc[w] # "idle"
  PROVE  /\ wfd[w] \in Fds
         /\ users[wfd[w]].m_sockfd \in {wfd[w], NoFd}
         /\ Held(wfd[w])
BY DEF TypeOK, ServerTypes, OwnFd, Held

LEMMA TakeServer == ASSUME ServerInv, NEW w \in Workers, Take(w) PROVE ServerInv'
<1> USE DEF ServerInv
<1>1. queue \in Seq(Fds) /\ queue # <<>> /\ queue' = Tail(queue)
  BY DEF TypeOK, ServerTypes, Take
<1>2. /\ Tail(queue) \in Seq(Fds) /\ Head(queue) \in Fds
      /\ Head(queue) = queue[1]
      /\ \A n \in DOMAIN queue : n # 1 => n - 1 \in DOMAIN Tail(queue) /\ Tail(queue)[n - 1] = queue[n]
  BY <1>1, TailEntry
<1>3. /\ wpc' \in [Workers -> WorkerPc] /\ wfd' \in [Workers -> Fds \cup {None}]
      /\ wfd[w] = None /\ wfd'[w] = Head(queue) /\ wpc'[w] = "process"
      /\ \A v \in Workers : v # w => wfd'[v] = wfd[v] /\ wpc'[v] = wpc[v]
  BY <1>2 DEF Take, TypeOK, ServerTypes, OwnFd, WorkerPc
<1>4. TypeOK'
  BY <1>1, <1>2, <1>3 DEF TypeOK, KernelTypes, ServerTypes, Take, client, kernel, traffic, main, count
<1>5. OwnFd'
  BY <1>2, <1>3, ConstantFacts DEF OwnFd, Take, kernel
<1>6. Arrivals'
  BY DEF Arrivals, Take, kernel, main
<1>7. Attended'
  <2>1. \A f \in Fds : Queued(f) => Queued(f)' \/ Held(f)'
    BY <1>1, <1>2, <1>3 DEF Queued, Held
  <2>2. \A f \in Fds : Held(f) => Held(f)'
    BY <1>3, ConstantFacts DEF Held
  <2> QED BY <2>1, <2>2 DEF Attended, Armed, Reported, Take, kernel, main
<1> QED BY <1>4, <1>5, <1>6, <1>7

\* The request process_read finds is one of the buffer.
LEMMA RequestFound ==
  ASSUME TypeOK, OwnFd, NEW w \in Workers, ProcessReadRequest(w)
  PROVE  /\ wpc[w] = "process"
         /\ \E n \in DOMAIN users[wfd[w]].read_buf :
              wreq' = [wreq EXCEPT ![w] = users[wfd[w]].read_buf[n]]
         /\ wreq'[w] \in Refs
         /\ wreq' \in [Workers -> Refs \cup {None}]
<1>1. wpc[w] = "process"
  BY DEF ProcessReadRequest
<1>2. users[wfd[w]].read_buf \in Seq(Refs)
  BY <1>1, HeldObject, ObjectFields
<1>3. PICK n \in DOMAIN users[wfd[w]].read_buf :
        wreq' = [wreq EXCEPT ![w] = users[wfd[w]].read_buf[n]]
  BY DEF ProcessReadRequest, Ends
<1>4. users[wfd[w]].read_buf[n] \in Refs
  BY <1>2
<1> QED BY <1>1, <1>3, <1>4 DEF TypeOK, ServerTypes

LEMMA ProcessReadServer ==
  ASSUME ServerInv, NEW w \in Workers, ProcessReadIncomplete(w) \/ ProcessReadRequest(w)
  PROVE  ServerInv'
<1> USE DEF ServerInv
<1>1. CASE ProcessReadIncomplete(w)
  <2>1. TypeOK'
    BY <1>1 DEF ProcessReadIncomplete, TypeOK, KernelTypes, ServerTypes, WorkerPc, client, kernel, traffic,
                pool, main, count
  <2>2. OwnFd'
    BY <1>1 DEF OwnFd, ProcessReadIncomplete, kernel, TypeOK, ServerTypes
  <2>3. Arrivals' /\ Attended'
    BY <1>1 DEF ProcessReadIncomplete, Arrivals, Attended, Armed, Reported, Queued, Held, kernel, pool, main
  <2> QED BY <2>1, <2>2, <2>3
<1>2. CASE ProcessReadRequest(w)
  <2>1. wpc[w] = "process" /\ wreq'[w] \in Refs /\ wreq' \in [Workers -> Refs \cup {None}]
    BY <1>2, RequestFound
  <2>2. TypeOK'
    BY <1>2, <2>1 DEF ProcessReadRequest, TypeOK, KernelTypes, ServerTypes, WorkerPc, client, kernel,
                      traffic, pool, main, count
  <2>3. \A v \in Workers : v # w => wreq'[v] = wreq[v] /\ wpc'[v] = wpc[v]
    BY <1>2 DEF ProcessReadRequest, TypeOK, ServerTypes
  <2>4. OwnFd'
    BY <1>2, <2>1, <2>3, ConstantFacts DEF OwnFd, ProcessReadRequest, kernel, TypeOK, ServerTypes
  <2>5. Arrivals' /\ Attended'
    BY <1>2 DEF ProcessReadRequest, Arrivals, Attended, Armed, Reported, Queued, Held, kernel, pool, main
  <2> QED BY <2>2, <2>4, <2>5
<1> QED BY <1>1, <1>2

\* process_write leaves everything of the objects but one answer.
LEMMA AnswerReady ==
  ASSUME TypeOK, OwnFd, NEW w \in Workers, ProcessWrite(w)
  PROVE  /\ wpc[w] = "write" /\ wfd[w] \in Fds /\ wreq[w] \in Refs
         /\ users' \in [Fds -> ObjectType]
         /\ \A g \in Fds : g # wfd[w] => users'[g] = users[g]
         /\ \A g \in Fds : /\ users'[g].m_sockfd = users[g].m_sockfd
                           /\ users'[g].read_buf = users[g].read_buf
         /\ users'[wfd[w]].answer = wreq[w]
<1>1. wpc[w] = "write" /\ wreq[w] \in Refs
  BY DEF ProcessWrite, OwnFd, TypeOK, ServerTypes
<1>2. wfd[w] \in Fds
  BY <1>1, HeldObject
<1>3. users' = [users EXCEPT ![wfd[w]].answer = wreq[w]]
  BY DEF ProcessWrite
<1> QED BY <1>1, <1>2, <1>3 DEF TypeOK, ServerTypes, ObjectType

LEMMA ProcessWriteServer == ASSUME ServerInv, NEW w \in Workers, ProcessWrite(w) PROVE ServerInv'
<1> USE DEF ServerInv
<1>1. /\ wpc[w] = "write" /\ wfd[w] \in Fds
      /\ users' \in [Fds -> ObjectType]
      /\ \A g \in Fds : users'[g].m_sockfd = users[g].m_sockfd
  BY AnswerReady
<1>2. /\ wpc' \in [Workers -> WorkerPc] /\ wreq' \in [Workers -> Refs \cup {None}]
      /\ wpc'[w] \in {"close", "rearmOut"}
      /\ \A v \in Workers : v # w => wreq'[v] = wreq[v] /\ wpc'[v] = wpc[v]
  BY DEF ProcessWrite, TypeOK, ServerTypes, WorkerPc
<1>3. TypeOK'
  BY <1>1, <1>2 DEF ProcessWrite, TypeOK, KernelTypes, ServerTypes, client, kernel, traffic, pool, main,
                    count
<1>4. OwnFd'
  BY <1>1, <1>2 DEF OwnFd, ProcessWrite, kernel
<1>5. Arrivals' /\ Attended'
  BY <1>1 DEF ProcessWrite, Arrivals, Attended, Armed, Reported, Queued, Held, kernel, pool, main
<1> QED BY <1>3, <1>4, <1>5

LEMMA RearmServer == ASSUME ServerInv, NEW w \in Workers, Rearm(w) PROVE ServerInv'
<1> USE DEF ServerInv
<1>1. PICK ev \in {"in", "out"} : reg' = Modfd(users[wfd[w]].m_sockfd, ev)
  BY DEF Rearm
<1>2. wfd[w] \in Fds
  BY HeldObject DEF Rearm
<1>3. /\ reg' \in [Fds -> {"none", "off", "in", "out"}]
      /\ \A g \in Fds : g # wfd[w] => reg'[g] = reg[g]
      /\ \A g \in Fds : reg'[g] = "none" <=> reg[g] = "none"
      /\ users[wfd[w]].m_sockfd = wfd[w] /\ conn[wfd[w]] # None => reg'[wfd[w]] = ev
  BY <1>1, <1>2, ModfdOwn DEF OwnFd
<1>4. /\ wpc' \in [Workers -> WorkerPc] /\ wfd' \in [Workers -> Fds \cup {None}]
      /\ wpc'[w] = "idle" /\ wfd'[w] = None
      /\ \A v \in Workers : v # w => wfd'[v] = wfd[v] /\ wpc'[v] = wpc[v]
  BY DEF Rearm, TypeOK, ServerTypes, WorkerPc
<1>5. TypeOK'
  BY <1>3, <1>4 DEF Rearm, TypeOK, KernelTypes, ServerTypes, client, traffic, pool, main, count
<1>6. OwnFd'
  BY <1>3, <1>4 DEF OwnFd, Rearm
<1>7. Arrivals'
  BY DEF Arrivals, Rearm, main
<1>8. Attended'
  <2>1. SUFFICES ASSUME NEW g \in Fds, conn'[g] \notin dropped' \cup {None}, users'[g].m_sockfd = g
                 PROVE  Armed(g)' \/ Reported(g)' \/ Queued(g)' \/ Held(g)'
    BY DEF Attended
  <2>2. /\ conn[g] \notin dropped \cup {None} /\ users[g].m_sockfd = g
        /\ events' = events /\ queue' = queue
    BY <2>1 DEF Rearm, pool, main
  <2>3. CASE g = wfd[w]
    BY <1>3, <2>2, <2>3 DEF Armed
  <2>4. CASE g # wfd[w]
    <3>1. Held(g) => Held(g)'
      BY <1>4, <2>4 DEF Held
    <3> QED BY <1>3, <2>2, <2>4, <3>1 DEF Attended, Armed, Reported, Queued
  <2> QED BY <2>3, <2>4
<1> QED BY <1>5, <1>6, <1>7, <1>8

\* close_conn in a worker.
LEMMA GotoEffect ==
  ASSUME TypeOK, NEW w \in Workers, NEW from, NEW to \in WorkerPc, Goto(w, from, to)
  PROVE  /\ wpc' \in [Workers -> WorkerPc]
         /\ wpc[w] = from /\ wpc'[w] = to
         /\ \A v \in Workers : v # w => wpc'[v] = wpc[v]
BY DEF Goto, TypeOK, ServerTypes

LEMMA WorkerClosesServer ==
  ASSUME ServerInv, NEW w \in Workers,
         WorkerRemovefd(w) \/ WorkerForget(w) \/ WorkerLoad(w) \/ WorkerStore(w)
  PROVE  ServerInv'
<1> USE DEF ServerInv
<1>0. {"forget", "load", "store", "rearmOut"} \subseteq WorkerPc
  BY DEF WorkerPc
<1>1. CASE WorkerRemovefd(w)
  <2>1. /\ wpc[w] = "close" /\ wfd[w] \in Fds /\ users[wfd[w]].m_sockfd \in {wfd[w], NoFd}
        /\ Held(wfd[w])
    BY <1>1, HeldObject DEF WorkerRemovefd
  <2>2. PICK to \in {"rearmOut", "forget"} : Goto(w, "close", to)
    BY <1>1 DEF WorkerRemovefd
  <2>3. /\ wpc' \in [Workers -> WorkerPc] /\ wpc'[w] = to
        /\ \A v \in Workers : v # w => wpc'[v] = wpc[v]
    BY <1>0, <2>2, GotoEffect
  <2>4. /\ conn' \in [Fds -> Clients \cup {None}]
        /\ reg' \in [Fds -> {"none", "off", "in", "out"}]
        /\ \A g \in Fds : conn'[g] # None <=> reg'[g] # "none"
        /\ \A g \in Fds : g # wfd[w] => conn'[g] = conn[g] /\ reg'[g] = reg[g]
    BY ZenonT(30), <1>1, <2>1 DEF WorkerRemovefd, Removefd, TypeOK, KernelTypes, OwnFd
  <2>5. TypeOK'
    BY <1>1, <2>3, <2>4 DEF WorkerRemovefd, TypeOK, KernelTypes, ServerTypes, client, traffic, pool, main,
                            count
  <2>6. OwnFd'
    BY <1>1, <2>1, <2>3, <2>4 DEF WorkerRemovefd, OwnFd
  <2>7. Arrivals'
    BY <1>1 DEF WorkerRemovefd, Arrivals, main
  <2>8. Attended'
    BY <1>1, <2>1, <2>4 DEF WorkerRemovefd, Attended, Armed, Reported, Queued, Held, pool, main
  <2> QED BY <2>5, <2>6, <2>7, <2>8
<1>2. CASE WorkerForget(w)
  <2>1. wpc[w] = "forget" /\ wfd[w] \in Fds
    BY <1>2, HeldObject DEF WorkerForget, Goto
  <2>2. /\ wpc' \in [Workers -> WorkerPc] /\ wpc'[w] = "load"
        /\ \A v \in Workers : v # w => wpc'[v] = wpc[v]
    BY <1>0, <1>2, GotoEffect DEF WorkerForget
  <2>3. /\ users' \in [Fds -> ObjectType]
        /\ users'[wfd[w]].m_sockfd = NoFd
        /\ \A g \in Fds : g # wfd[w] => users'[g] = users[g]
    BY <1>2, <2>1 DEF WorkerForget, TypeOK, ServerTypes, ObjectType
  <2>4. TypeOK'
    BY <1>2, <2>2, <2>3 DEF WorkerForget, TypeOK, KernelTypes, ServerTypes, client, kernel, traffic, pool,
                            main, count
  <2>5. OwnFd'
    BY <1>2, <2>1, <2>2, <2>3 DEF WorkerForget, OwnFd, kernel
  <2>6. Arrivals'
    BY <1>2 DEF WorkerForget, Arrivals, kernel, main
  <2>7. Attended'
    BY <1>2, <2>1, <2>3, ConstantFacts DEF WorkerForget, Attended, Armed, Reported, Queued, Held, kernel,
                                           pool, main
  <2> QED BY <2>4, <2>5, <2>6, <2>7
<1>3. CASE WorkerLoad(w) \/ WorkerStore(w)
  <2>1. PICK to \in {"store", "rearmOut"}, from \in {"load", "store"} : Goto(w, from, to)
    BY <1>3 DEF WorkerLoad, WorkerStore
  <2>2. /\ wpc' \in [Workers -> WorkerPc] /\ wpc'[w] = to /\ wpc[w] = from
        /\ \A v \in Workers : v # w => wpc'[v] = wpc[v]
    BY <1>0, <2>1, GotoEffect
  <2>3. load' \in [Workers \cup {MainThread} -> Int] /\ m_user_count' \in Int
    BY <1>3 DEF WorkerLoad, WorkerStore, TypeOK, ServerTypes
  <2>4. UNCHANGED << client, kernel, traffic, users, pool, main, wfd, wreq >>
    BY <1>3 DEF WorkerLoad, WorkerStore
  <2>5. TypeOK'
    BY <2>2, <2>3, <2>4 DEF TypeOK, KernelTypes, ServerTypes, client, kernel, traffic, pool, main
  <2>6. OwnFd'
    BY <2>2, <2>4 DEF OwnFd, kernel
  <2>7. Arrivals' /\ Attended'
    BY <2>4 DEF Arrivals, Attended, Armed, Reported, Queued, Held, kernel, pool, main
  <2> QED BY <2>5, <2>6, <2>7
<1> QED BY <1>1, <1>2, <1>3

-----------------------------------------------------------------------------
(* ServerInv always holds; what follows from it.                            *)

LEMMA StutterServer == ASSUME ServerInv, UNCHANGED vars PROVE ServerInv'
<1>1. UNCHANGED << client, kernel, traffic, users, pool, main, worker, count >>
  BY DEF vars
<1>2. KernelTypes' /\ ServerTypes'
  BY <1>1 DEF ServerInv, TypeOK, KernelTypes, ServerTypes, client, kernel, traffic, pool, main, worker, count
<1>3. OwnFd' /\ Arrivals' /\ Attended'
  BY <1>1 DEF ServerInv, OwnFd, Arrivals, Attended, Armed, Reported, Queued, Held, kernel, pool, main,
              worker, count
<1> QED BY <1>2, <1>3 DEF ServerInv, TypeOK

LEMMA NextServer == ASSUME ServerInv, [Next]_vars PROVE ServerInv'
<1>1. CASE EpollWait
  BY <1>1, EpollWaitServer
<1>2. CASE AcceptFails \/ AcceptBusy \/ AcceptInit
  BY <1>2, AcceptServer
<1>3. CASE MainCount
  BY <1>3, MainCountServer
<1>4. ASSUME NEW f \in Fds, CloseOnHup(f) \/ ReadCloses(f) \/ WriteFails(f) \/ WriteCloses(f)
      PROVE  ServerInv'
  BY <1>4, ClosesServer
<1>5. ASSUME NEW f \in Fds, ReadAppends(f) PROVE ServerInv'
  BY <1>5, ReadAppendsServer
<1>6. ASSUME NEW f \in Fds, WriteNothing(f) \/ WriteStalls(f) \/ WriteKeeps(f) PROVE ServerInv'
  BY <1>6, WritesServer
<1>7. ASSUME NEW w \in Workers, WorkerStep(w) PROVE ServerInv'
  BY <1>7, TakeServer, ProcessReadServer, ProcessWriteServer, RearmServer, WorkerClosesServer
     DEF WorkerStep
<1>8. ASSUME NEW c \in Clients, ClientStep(c) PROVE ServerInv'
  BY <1>8, ClientServer
<1>9. CASE UNCHANGED vars
  BY <1>9, StutterServer
<1> QED BY <1>1, <1>2, <1>3, <1>4, <1>5, <1>6, <1>7, <1>8, <1>9 DEF Next, MainStep

\* The types of the server's state, and what the objects know, always hold.
THEOREM ServerTypeCorrect == Spec => []ServerInv
<1>1. Init => ServerInv
  BY InitServer
<1>2. ServerInv /\ [Next]_vars => ServerInv'
  BY NextServer
<1> QED BY <1>1, <1>2, PTL DEF Spec

\* The parts of Claims are naturals, each at least 1 where there is such a way.
LEMMA ClaimParts ==
  ASSUME TypeOK, NEW f \in Fds
  PROVE  /\ Cardinality({n \in DOMAIN queue : queue[n] = f}) \in Nat
         /\ Cardinality({w \in Workers : wfd[w] = f}) \in Nat
         /\ Queued(f) => Cardinality({n \in DOMAIN queue : queue[n] = f}) >= 1
         /\ Held(f) => Cardinality({w \in Workers : wfd[w] = f}) >= 1
<1> DEFINE QS == {n \in DOMAIN queue : queue[n] = f}
           WS == {w \in Workers : wfd[w] = f}
<1>1. DOMAIN queue = 1 .. Len(queue) /\ Len(queue) \in Nat
  BY DEF TypeOK, ServerTypes
<1>2. IsFiniteSet(DOMAIN queue)
  BY <1>1, FS_Interval
<1>3. IsFiniteSet(QS) /\ IsFiniteSet(WS)
  BY <1>2, ConstantFacts, FS_Subset
<1>4. Cardinality(QS) \in Nat /\ Cardinality(WS) \in Nat
  BY <1>3, FS_CardinalityType
<1>5. Queued(f) => QS # {}
  BY DEF Queued
<1>6. Held(f) => WS # {}
  BY DEF Held
<1>7. (QS # {} => Cardinality(QS) # 0) /\ (WS # {} => Cardinality(WS) # 0)
  BY <1>3, FS_EmptySet
<1> HIDE DEF QS, WS
<1>8. (Queued(f) => Cardinality(QS) >= 1) /\ (Held(f) => Cardinality(WS) >= 1)
  BY <1>4, <1>5, <1>6, <1>7
<1> QED BY <1>4, <1>8 DEF QS, WS

LEMMA SomeClaim ==
  ASSUME TypeOK, NEW f \in Fds, Armed(f) \/ Reported(f) \/ Queued(f) \/ Held(f)
  PROVE  Claims(f) >= 1
<1> DEFINE Q == Cardinality({n \in DOMAIN queue : queue[n] = f})
           W == Cardinality({w \in Workers : wfd[w] = f})
           A == IF reg[f] \in {"in", "out"} THEN 1 ELSE 0
           E == IF events[f] # "none" THEN 1 ELSE 0
<1>1. /\ Q \in Nat /\ W \in Nat
      /\ Queued(f) => Q >= 1
      /\ Held(f) => W >= 1
  BY ClaimParts
<1>2. /\ A \in Nat /\ E \in Nat
      /\ Armed(f) => A = 1
      /\ Reported(f) => E = 1
  BY DEF Armed, Reported
<1>3. Claims(f) = A + E + Q + W
  BY DEF Claims
<1> HIDE DEF Q, W, A, E
<1> QED BY <1>1, <1>2, <1>3

\* A connection is lost only when the pool refuses it or a worker that closes
\* late forgets the m_sockfd of its object (http_conn.cpp 58).
THEOREM LostWithItsObject == Spec => []StrandedByForget
<1>1. ServerInv => StrandedByForget
  BY SomeClaim DEF ServerInv, Attended, StrandedByForget
<1> QED BY <1>1, ServerTypeCorrect, PTL

-----------------------------------------------------------------------------
(* OwnerInv: nobody asks for an empty file.                                 *)

LEMMA InitOwner == ASSUME Init PROVE OwnerInv
<1>1. NoWorkerCloses
  BY DEF Init, NoWorkerCloses
<1>2. Reads
  BY DEF Init, Reads, InitUser
<1>3. OneWay
  BY ConstantFacts DEF Init, OneWay, Armed, Reported, Queued, Held, InitUser
<1> QED BY <1>1, <1>2, <1>3, InitServer DEF OwnerInv

\* A token that was read is one the client sent.
LEMMA ReadWasSent ==
  ASSUME TypeOK, Reads, NEW r \in Refs, IsRead(r)
  PROVE  Token(r) \in Tokens /\ r[2] \in DOMAIN sent[r[1]] /\ r[1] \in Clients
<1>1. r[1] \in Clients /\ r[2] \in Nat
  BY DEF Refs
<1>2. sent[r[1]] \in Seq(Tokens) /\ taken[r[1]] \in Nat /\ taken[r[1]] <= Len(sent[r[1]])
  BY <1>1 DEF TypeOK, KernelTypes, Reads
<1>3. r[2] \in 1 .. Len(sent[r[1]])
  BY <1>1, <1>2 DEF IsRead
<1> QED BY <1>1, <1>2, <1>3 DEF Token

\* Buffers, answers and requests that stay or are dropped are still read.
LEMMA ReadsStay ==
  ASSUME TypeOK, Reads, taken' = taken,
         \A c \in Clients : Len(sent[c]) <= Len(sent'[c]) /\ Len(sent'[c]) \in Nat,
         \A f \in Fds : users'[f].read_buf \in {users[f].read_buf, <<>>},
         \A f \in Fds : users'[f].answer \in {users[f].answer, None},
         \A w \in Workers : wreq'[w] \in {wreq[w], None}
  PROVE  Reads'
<1>1. \A c \in Clients : taken'[c] <= Len(sent'[c])
  BY DEF Reads, TypeOK, KernelTypes
<1>2. \A f \in Fds : \A n \in DOMAIN users'[f].read_buf :
         users'[f].read_buf[n][2] \in 1 .. taken'[users'[f].read_buf[n][1]]
  BY DEF Reads, IsRead
<1>3. \A f \in Fds : users'[f].answer # None => users'[f].answer[2] \in 1 .. taken'[users'[f].answer[1]]
  BY DEF Reads, IsRead
<1>4. \A w \in Workers : wreq'[w] # None => wreq'[w][2] \in 1 .. taken'[wreq'[w][1]]
  BY DEF Reads, IsRead
<1> QED BY <1>1, <1>2, <1>3, <1>4 DEF Reads, IsRead

LEMMA SentLengths == ASSUME TypeOK PROVE \A c \in Clients : Len(sent[c]) \in Nat
BY DEF TypeOK, KernelTypes

\* What reaches no object leaves the ways to it.
LEMMA WaysStay ==
  ASSUME OneWay, UNCHANGED << conn, reg, events, queue, wfd >>,
         \A f \in Fds : users'[f].m_sockfd = users[f].m_sockfd
  PROVE  OneWay'
BY DEF OneWay, Armed, Reported, Queued, Held

LEMMA ClientOwner ==
  ASSUME OwnerInv, NEW c \in Clients, ClientStep(c)
  PROVE  NoWorkerCloses' /\ Reads' /\ OneWay'
<1> USE DEF OwnerInv, ServerInv
<1>1. UNCHANGED << conn, reg, traffic, users, pool, main, worker >>
  BY DEF ClientStep, Connect, Send, HangUp, kernel
<1>2. NoWorkerCloses' /\ OneWay'
  BY <1>1, WaysStay DEF NoWorkerCloses, pool, main, worker
<1>3. \A d \in Clients : Len(sent[d]) <= Len(sent'[d]) /\ Len(sent'[d]) \in Nat
  <2>1. CASE sent' = sent
    BY <2>1, SentLengths
  <2>2. CASE Send(c)
    <3>1. PICK t \in Tokens : sent' = [sent EXCEPT ![c] = Append(@, t)]
      BY <2>2 DEF Send
    <3>2. sent[c] \in Seq(Tokens) /\ sent'[c] = Append(sent[c], t)
      BY <3>1 DEF TypeOK, KernelTypes
    <3>3. Len(sent'[c]) = Len(sent[c]) + 1 /\ Len(sent[c]) \in Nat
      BY <3>2, AppendEntry
    <3>4. \A d \in Clients : d # c => sent'[d] = sent[d]
      BY <3>1 DEF TypeOK, KernelTypes
    <3> QED BY <3>3, <3>4, SentLengths
  <2> QED BY <2>1, <2>2 DEF ClientStep, Connect, HangUp
<1>4. Reads'
  BY <1>1, <1>3, ReadsStay DEF traffic, worker
<1> QED BY <1>2, <1>4

LEMMA EpollWaitOwner ==
  ASSUME OwnerInv, EpollWait
  PROVE  NoWorkerCloses' /\ Reads' /\ OneWay'
<1> USE DEF OwnerInv, ServerInv
<1>1. NoWorkerCloses'
  BY DEF EpollWait, NoWorkerCloses, worker
<1>2. Reads'
  BY ReadsStay, SentLengths DEF EpollWait, client, traffic, worker
<1>3. OneWay'
  <2>1. \A x \in Fds \cup {Listen} : events[x] = "none"
    BY DEF EpollWait, TypeOK, ServerTypes
  <2>2. \A f \in Fds : events'[f] = Flag(f)
    BY ConstantFacts DEF EpollWait, TypeOK, ServerTypes
  <2>3. \A f \in Fds : reg'[f] = IF Flag(f) # "none" THEN "off" ELSE reg[f]
    BY DEF EpollWait, TypeOK, KernelTypes
  <2>4. UNCHANGED << conn, users, queue, wfd >>
    BY DEF EpollWait, pool, worker
  <2>5. \A f \in Fds : Armed(f)' <=> Armed(f) /\ Flag(f) = "none"
    BY <2>3, FlagValues DEF Armed
  <2>6. \A f \in Fds : Reported(f)' <=> Flag(f) # "none"
    BY <2>2 DEF Reported
  <2>7. \A f \in Fds : (Queued(f)' <=> Queued(f)) /\ (Held(f)' <=> Held(f))
    BY <2>4 DEF Queued, Held
  <2>8. \A f \in Fds : Flag(f) # "none" => Armed(f) /\ conn[f] # None
    BY FlagValues DEF Armed, OwnFd
  <2> QED BY <2>4, <2>5, <2>6, <2>7, <2>8 DEF OneWay
<1> QED BY <1>1, <1>2, <1>3

LEMMA AcceptOwner ==
  ASSUME OwnerInv, AcceptFails \/ AcceptBusy \/ AcceptInit
  PROVE  NoWorkerCloses' /\ Reads' /\ OneWay'
<1> USE DEF OwnerInv, ServerInv
<1>1. /\ events[Listen] = "in"
      /\ \A y \in Fds : events'[y] = events[y]
  BY HandleEffect, ConstantFacts DEF AcceptFails, AcceptBusy, AcceptInit
<1>2. NoWorkerCloses'
  BY DEF AcceptFails, AcceptBusy, AcceptInit, NoWorkerCloses, worker
<1>3. CASE AcceptFails \/ AcceptBusy
  <2>1. UNCHANGED << client, conn, reg, traffic, users, queue, worker >>
    BY <1>3 DEF AcceptFails, AcceptBusy, kernel, pool
  <2>2. Reads'
    BY <2>1, ReadsStay, SentLengths DEF client, traffic, worker
  <2>3. OneWay'
    BY <1>1, <2>1 DEF OneWay, Armed, Reported, Queued, Held, worker
  <2> QED BY <1>2, <2>2, <2>3
<1>4. CASE AcceptInit
  <2>1. PICK f \in FreeFds : /\ conn' = [conn EXCEPT ![f] = Head(backlog)]
                             /\ reg' = [reg EXCEPT ![f] = "in"]
                             /\ users' = [users EXCEPT ![f] = InitUser(f)]
    BY <1>4 DEF AcceptInit
  <2>2. backlog # <<>>
    BY <1>1 DEF Arrivals, TypeOK, KernelTypes
  <2>3. Head(backlog) # None
    BY <2>2, TailEntry, ConstantFacts DEF TypeOK, KernelTypes
  <2>4. /\ f \in Fds /\ conn[f] = None
        /\ conn'[f] # None /\ reg'[f] = "in" /\ users'[f] = InitUser(f)
        /\ \A g \in Fds : g # f => conn'[g] = conn[g] /\ reg'[g] = reg[g] /\ users'[g] = users[g]
    BY <2>1, <2>3 DEF FreeFds, TypeOK, KernelTypes, ServerTypes
  <2>5. UNCHANGED << client, traffic, queue, worker >>
    BY <1>4 DEF AcceptInit, pool
  <2>6. Reads'
    BY <2>4, <2>5, ReadsStay, SentLengths DEF client, traffic, worker, InitUser
  <2>7. OneWay'
    BY <1>1, <2>4, <2>5 DEF OneWay, Armed, Reported, Queued, Held, worker, InitUser
  <2> QED BY <1>2, <2>6, <2>7
<1> QED BY <1>3, <1>4

LEMMA MainCountOwner ==
  ASSUME OwnerInv, MainCount
  PROVE  NoWorkerCloses' /\ Reads' /\ OneWay'
<1> USE DEF OwnerInv, ServerInv
<1>1. UNCHANGED << client, kernel, traffic, users, pool, events, worker >>
  BY DEF MainCount
<1>2. Reads'
  BY <1>1, ReadsStay, SentLengths DEF client, traffic, worker
<1>3. NoWorkerCloses' /\ OneWay'
  BY <1>1, WaysStay DEF NoWorkerCloses, kernel, pool, worker
<1> QED BY <1>2, <1>3

\* A close in the main thread takes the last way to the object with it.
LEMMA CloseOwner ==
  ASSUME OwnerInv, NEW f \in Fds, NEW ev \in {"in", "out", "hup"}, Handle(f, ev), CloseConn(f),
         UNCHANGED << client, taken, pool, worker >>
  PROVE  /\ NoWorkerCloses' /\ Reads' /\ OneWay'
         /\ users[f].m_sockfd = f /\ conn[f] # None
<1> USE DEF OwnerInv, ServerInv
<1>1. /\ events[f] = ev /\ events'[f] = "none"
      /\ \A g \in Fds : g # f => events'[g] = events[g]
  BY HandleEffect
<1>2. /\ \A g \in Fds : g # f => conn'[g] = conn[g] /\ reg'[g] = reg[g] /\ users'[g] = users[g]
      /\ users'[f].m_sockfd = NoFd
      /\ users'[f].read_buf = users[f].read_buf /\ users'[f].answer = users[f].answer
  BY CloseTypes
<1>3. Reported(f)
  BY <1>1 DEF Reported
<1>4. conn[f] # None /\ users[f].m_sockfd = f
  BY <1>3 DEF OneWay
<1>5. conn'[f] = None /\ reg'[f] = "none"
  BY <1>4, ConstantFacts, CloseEffect DEF TypeOK, KernelTypes
<1>6. Reads'
  BY <1>2, ReadsStay, SentLengths DEF client, worker
<1>7. OneWay'
  <2>1. ~Queued(f) /\ ~Held(f)
    BY <1>3 DEF OneWay
  <2> QED BY <1>1, <1>2, <1>5, <2>1, ConstantFacts DEF OneWay, Armed, Reported, Queued, Held, pool, worker
<1>8. NoWorkerCloses'
  BY DEF NoWorkerCloses, worker
<1> QED BY <1>4, <1>6, <1>7, <1>8

LEMMA ClosesOwner ==
  ASSUME OwnerInv, NEW f \in Fds,
         CloseOnHup(f) \/ ReadCloses(f) \/ WriteFails(f) \/ WriteCloses(f)
  PROVE  NoWorkerCloses' /\ Reads' /\ OneWay'
<1>1. CASE CloseOnHup(f)
  BY <1>1, CloseOwner DEF CloseOnHup, traffic
<1>2. CASE ReadCloses(f)
  BY <1>2, CloseOwner DEF ReadCloses, traffic
<1>3. CASE WriteFails(f)
  BY <1>3, CloseOwner DEF WriteFails, traffic
<1>4. CASE WriteCloses(f)
  BY <1>4, CloseOwner DEF WriteCloses, Answer
<1> QED BY <1>1, <1>2, <1>3, <1>4

\* What recv returns is in the buffer, and counted as taken.
LEMMA UnreadIsRead ==
  ASSUME TypeOK, Reads, NEW c \in Clients, taken' = [taken EXCEPT ![c] = Len(sent[c])]
  PROVE  /\ \A d \in Clients : taken[d] <= taken'[d]
         /\ taken'[c] = Len(sent[c])
         /\ \A n \in DOMAIN Unread(c) : /\ Unread(c)[n][1] = c
                                        /\ Unread(c)[n][2] \in taken[c] + 1 .. taken'[c]
<1>1. Len(sent[c]) \in Nat /\ taken \in [Clients -> Nat] /\ taken[c] \in Nat
  BY DEF TypeOK, KernelTypes
<1>2. taken'[c] = Len(sent[c]) /\ \A d \in Clients : taken[d] <= taken'[d]
  BY <1>1 DEF Reads
<1> QED BY <1>1, <1>2, UnreadType

\* An entry of two buffers put together is an entry of one of them.
LEMMA ConcatEntry ==
  ASSUME NEW S, NEW p \in Seq(S), NEW q \in Seq(S)
  PROVE  /\ p \o q \in Seq(S)
         /\ \A n \in DOMAIN (p \o q) :
              \/ n \in DOMAIN p /\ (p \o q)[n] = p[n]
              \/ n - Len(p) \in DOMAIN q /\ (p \o q)[n] = q[n - Len(p)]
         /\ \A n \in DOMAIN p : n \in DOMAIN (p \o q) /\ (p \o q)[n] = p[n]
OBVIOUS

LEMMA ReadAppendsOwner ==
  ASSUME OwnerInv, NEW f \in Fds, ReadAppends(f)
  PROVE  NoWorkerCloses' /\ Reads' /\ OneWay'
<1> USE DEF OwnerInv, ServerInv
<1> DEFINE c == conn[f]
<1>1. /\ Handle(f, "in") /\ c \in Clients /\ users[f].m_sockfd = f
      /\ \A g \in Fds : g # f => users'[g] = users[g]
      /\ users'[f].m_sockfd = f /\ users'[f].answer = users[f].answer
      /\ users'[f].read_buf = users[f].read_buf \o Unread(c)
      /\ taken' = [taken EXCEPT ![c] = Len(sent[c])]
  BY ReadEffect
<1>2. UNCHANGED << client, conn, reg, worker >>
  BY DEF ReadAppends, kernel
<1>3. NoWorkerCloses'
  BY <1>2 DEF NoWorkerCloses, worker
<1>4. Reads'
  <2>1. /\ \A d \in Clients : taken[d] <= taken'[d]
        /\ taken'[c] = Len(sent[c])
        /\ \A n \in DOMAIN Unread(c) : /\ Unread(c)[n][1] = c
                                       /\ Unread(c)[n][2] \in taken[c] + 1 .. taken'[c]
    BY <1>1, UnreadIsRead
  <2>2. taken \in [Clients -> Nat] /\ taken' \in [Clients -> Nat]
    BY <1>1, SentLengths DEF TypeOK, KernelTypes
  <2>3. \A d \in Clients : taken'[d] <= Len(sent'[d])
    BY <1>1, <1>2 DEF Reads, TypeOK, KernelTypes, client
  <2>4. \A r \in Refs : IsRead(r) => r[2] \in 1 .. taken'[r[1]]
    BY <2>1, <2>2 DEF IsRead, Refs
  <2>5. ASSUME NEW g \in Fds, NEW n \in DOMAIN users'[g].read_buf
        PROVE  users'[g].read_buf[n][2] \in 1 .. taken'[users'[g].read_buf[n][1]]
    <3>1. \A h \in Fds : users[h].read_buf \in Seq(Refs)
      BY ObjectFields
    <3>2. CASE g # f
      <4>1. users[g].read_buf[n] \in Refs /\ IsRead(users[g].read_buf[n])
        BY <1>1, <2>5, <3>1, <3>2 DEF Reads
      <4> QED BY <1>1, <2>4, <3>2, <4>1
    <3>3. CASE g = f
      <4>1. Unread(c) \in Seq(Refs)
        BY <1>1, UnreadType
      <4>2. \/ n \in DOMAIN users[f].read_buf /\ users'[f].read_buf[n] = users[f].read_buf[n]
            \/ \E m \in DOMAIN Unread(c) : users'[f].read_buf[n] = Unread(c)[m]
        <5>1. users[f].read_buf \in Seq(Refs)
          BY <3>1
        <5>2. \A m \in DOMAIN (users[f].read_buf \o Unread(c)) :
                 \/ m \in DOMAIN users[f].read_buf
                    /\ (users[f].read_buf \o Unread(c))[m] = users[f].read_buf[m]
                 \/ \E k \in DOMAIN Unread(c) : (users[f].read_buf \o Unread(c))[m] = Unread(c)[k]
          <6> HIDE DEF c
          <6> QED BY <4>1, <5>1, ConcatEntry
        <5> QED BY <1>1, <2>5, <3>3, <5>2
      <4>3. CASE n \in DOMAIN users[f].read_buf /\ users'[f].read_buf[n] = users[f].read_buf[n]
        <5>1. users[f].read_buf[n] \in Refs /\ IsRead(users[f].read_buf[n])
          BY <3>1, <4>3 DEF Reads
        <5> QED BY <2>4, <3>3, <4>3, <5>1
      <4>4. CASE \E m \in DOMAIN Unread(c) : users'[f].read_buf[n] = Unread(c)[m]
        <5>1. PICK m \in DOMAIN Unread(c) : users'[f].read_buf[n] = Unread(c)[m]
          BY <4>4
        <5>2. Unread(c)[m][1] = c /\ Unread(c)[m][2] \in taken[c] + 1 .. taken'[c]
          BY <2>1
        <5>3. taken[c] \in Nat /\ taken'[c] \in Nat
          BY <1>1, <2>2
        <5> QED BY <3>3, <5>1, <5>2, <5>3
      <4> QED BY <4>2, <4>3, <4>4
    <3> QED BY <3>2, <3>3
  <2>6. ASSUME NEW g \in Fds, users'[g].answer # None
        PROVE  users'[g].answer[2] \in 1 .. taken'[users'[g].answer[1]]
    <3>1. users'[g].answer = users[g].answer
      BY <1>1
    <3>2. users[g].answer \in Refs /\ IsRead(users[g].answer)
      BY <2>6, <3>1, ObjectFields DEF Reads
    <3> QED BY <2>4, <3>1, <3>2
  <2>7. ASSUME NEW w \in Workers, wreq'[w] # None
        PROVE  wreq'[w][2] \in 1 .. taken'[wreq'[w][1]]
    <3>1. wreq'[w] = wreq[w] /\ wreq[w] \in Refs /\ IsRead(wreq[w])
      BY <1>2, <2>7 DEF Reads, worker, TypeOK, ServerTypes
    <3> QED BY <2>4, <3>1
  <2> QED BY <2>3, <2>5, <2>6, <2>7 DEF Reads, IsRead
<1>5. OneWay'
  <2>1. events[f] = "in" /\ events'[f] = "none" /\ \A g \in Fds : g # f => events'[g] = events[g]
    BY <1>1, HandleEffect
  <2>2. Reported(f) /\ ~Queued(f) /\ ~Held(f) /\ ~Armed(f)
    BY <2>1 DEF OneWay, Reported
  <2>3. queue' = queue \/ queue' = Append(queue, f)
    BY PoolEffect DEF ReadAppends
  <2>4. /\ DOMAIN Append(queue, f) = DOMAIN queue \cup {Len(queue) + 1}
        /\ \A n \in DOMAIN queue : Append(queue, f)[n] = queue[n]
        /\ Append(queue, f)[Len(queue) + 1] = f
    BY AppendEntry DEF TypeOK, ServerTypes
  <2>5. \A g \in Fds : g # f => (Queued(g)' <=> Queued(g))
    BY <2>3, <2>4 DEF Queued
  <2>6. \A m, n \in DOMAIN queue' : queue'[m] = queue'[n] => m = n
    BY <2>2, <2>3, <2>4 DEF OneWay, Queued
  <2>7. \A g \in Fds : /\ Armed(g)' <=> Armed(g)
                       /\ Held(g)' <=> Held(g)
                       /\ g # f => (Reported(g)' <=> Reported(g))
                       /\ users'[g].m_sockfd = users[g].m_sockfd
    BY <1>1, <1>2, <2>1 DEF Armed, Held, Reported, worker
  <2>8. ~Reported(f)'
    BY <2>1 DEF Reported
  <2>9. wfd' = wfd /\ conn' = conn /\ conn[f] # None
    BY <1>1, <1>2, ConstantFacts DEF worker
  <2> QED BY <2>2, <2>5, <2>6, <2>7, <2>8, <2>9 DEF OneWay
<1> QED BY <1>3, <1>4, <1>5

\* A write that ends with modfd: the report has become a registration.
LEMMA WriteArmsOwner ==
  ASSUME OwnerInv, NEW f \in Fds, Handle(f, "out"), NEW ev \in {"in", "out"},
         reg' = Modfd(users[f].m_sockfd, ev),
         \A g \in Fds : /\ users'[g].m_sockfd = users[g].m_sockfd
                        /\ users'[g].read_buf \in {users[g].read_buf, <<>>}
                        /\ users'[g].answer \in {users[g].answer, None},
         UNCHANGED << client, conn, taken, pool, worker >>
  PROVE  NoWorkerCloses' /\ Reads' /\ OneWay'
<1> USE DEF OwnerInv, ServerInv
<1>1. events[f] = "out" /\ events'[f] = "none" /\ \A g \in Fds : g # f => events'[g] = events[g]
  BY HandleEffect
<1>2. Reported(f) /\ ~Queued(f) /\ ~Held(f) /\ ~Armed(f)
  BY <1>1 DEF OneWay, Reported
<1>3. \A g \in Fds : g # f => reg'[g] = reg[g]
  BY ModfdOwn
<1>4. NoWorkerCloses' /\ Reads'
  BY ReadsStay, SentLengths DEF NoWorkerCloses, worker, client
<1>5. OneWay'
  BY <1>1, <1>2, <1>3 DEF OneWay, Armed, Reported, Queued, Held, pool, worker
<1> QED BY <1>4, <1>5

LEMMA WritesOwner ==
  ASSUME OwnerInv, NEW f \in Fds, WriteNothing(f) \/ WriteStalls(f) \/ WriteKeeps(f)
  PROVE  NoWorkerCloses' /\ Reads' /\ OneWay'
<1>1. TypeOK
  BY DEF OwnerInv, ServerInv
<1>2. CASE WriteNothing(f) \/ WriteKeeps(f)
  <2>1. users' = [users EXCEPT ![f] = Cleared(@)]
    BY <1>2 DEF WriteNothing, WriteKeeps
  <2>2. \A g \in Fds : /\ users'[g].m_sockfd = users[g].m_sockfd
                       /\ users'[g].read_buf \in {users[g].read_buf, <<>>}
                       /\ users'[g].answer \in {users[g].answer, None}
    BY <1>1, <2>1, ClearedUsers
  <2> QED BY <1>2, <2>2, WriteArmsOwner DEF WriteNothing, WriteKeeps, Answer, traffic
<1>3. CASE WriteStalls(f)
  BY <1>3, WriteArmsOwner DEF WriteStalls
<1> QED BY <1>2, <1>3

LEMMA TakeOwner ==
  ASSUME OwnerInv, NEW w \in Workers, Take(w)
  PROVE  NoWorkerCloses' /\ Reads' /\ OneWay'
<1> USE DEF OwnerInv, ServerInv
<1>1. /\ queue \in Seq(Fds) /\ queue # <<>> /\ queue' = Tail(queue)
      /\ UNCHANGED << client, conn, reg, traffic, users, events, wreq >>
  BY DEF TypeOK, ServerTypes, Take, kernel, main
<1>2. /\ Head(queue) \in Fds
      /\ Head(queue) = queue[1] /\ 1 \in DOMAIN queue /\ DOMAIN queue = 1 .. Len(queue)
      /\ DOMAIN queue' \subseteq Nat \ {0}
      /\ \A n \in DOMAIN queue : n # 1 => n - 1 \in DOMAIN queue' /\ queue'[n - 1] = queue[n]
      /\ \A n \in DOMAIN queue' : n + 1 \in DOMAIN queue /\ queue'[n] = queue[n + 1]
  BY <1>1, TailEntry
<1>3. /\ wfd[w] = None /\ wfd'[w] = Head(queue) /\ wpc'[w] = "process"
      /\ \A v \in Workers : v # w => wfd'[v] = wfd[v] /\ wpc'[v] = wpc[v]
  BY DEF Take, TypeOK, ServerTypes, OwnFd
<1>4. NoWorkerCloses'
  BY <1>3 DEF NoWorkerCloses
<1>5. Reads'
  BY <1>1, ReadsStay, SentLengths DEF client, traffic
<1>6. OneWay'
  <2>0. PICK h \in Fds : h = Head(queue)
    BY <1>2
  <2>1. Queued(h)
    BY <1>2, <2>0 DEF Queued
  <2>2. ~Queued(h)' /\ Held(h)'
    <3>1. \A n \in DOMAIN queue' : queue'[n] # h
      <4>1. \A n \in DOMAIN queue' : n + 1 \in DOMAIN queue /\ n + 1 # 1
        BY <1>2
      <4>2. \A m \in DOMAIN queue : queue[m] = queue[1] => m = 1
        BY <1>2 DEF OneWay
      <4> QED BY <1>2, <2>0, <4>1, <4>2
    <3> QED BY <1>3, <2>0, <3>1 DEF Queued, Held
  <2>3. \A g \in Fds : g # h => (Queued(g)' => Queued(g)) /\ (Held(g)' => Held(g))
    BY <1>2, <1>3, <2>0, ConstantFacts DEF Queued, Held
  <2>4. \A g \in Fds : (Armed(g)' <=> Armed(g)) /\ (Reported(g)' <=> Reported(g))
    BY <1>1 DEF Armed, Reported
  <2>5. \A m, n \in DOMAIN queue' : queue'[m] = queue'[n] => m = n
    BY <1>2 DEF OneWay
  <2>6. \A u, v \in Workers : wfd'[u] = wfd'[v] /\ wfd'[u] # None => u = v
    <3>1. ~Held(h)
      BY <1>2, <2>1 DEF OneWay
    <3>2. \A v \in Workers : v # w => wfd'[v] = wfd[v] /\ wfd[v] # h
      BY <1>3, <3>1 DEF Held
    <3> QED BY <1>3, <2>0, <3>2 DEF OneWay
  <2>7. ~Armed(h) /\ ~Reported(h) /\ conn[h] # None
    BY <1>2, <2>1 DEF OneWay
  <2> QED BY <1>1, <2>2, <2>3, <2>4, <2>5, <2>6, <2>7 DEF OneWay
<1> QED BY <1>4, <1>5, <1>6

LEMMA ProcessReadOwner ==
  ASSUME OwnerInv, NEW w \in Workers, ProcessReadIncomplete(w) \/ ProcessReadRequest(w)
  PROVE  NoWorkerCloses' /\ Reads' /\ OneWay'
<1> USE DEF OwnerInv, ServerInv
<1>1. UNCHANGED << client, kernel, traffic, users, pool, main, wfd >>
  BY DEF ProcessReadIncomplete, ProcessReadRequest
<1>2. OneWay'
  BY <1>1, WaysStay DEF kernel, pool, main
<1>3. NoWorkerCloses'
  BY DEF ProcessReadIncomplete, ProcessReadRequest, NoWorkerCloses, TypeOK, ServerTypes
<1>4. CASE ProcessReadIncomplete(w)
  <2>1. Reads'
    BY <1>1, <1>4, ReadsStay, SentLengths DEF client, traffic, ProcessReadIncomplete
  <2> QED BY <1>2, <1>3, <2>1
<1>5. CASE ProcessReadRequest(w)
  <2>1. wfd[w] \in Fds
    BY <1>5, RequestFound, HeldObject
  <2>2. PICK n \in DOMAIN users[wfd[w]].read_buf :
          wreq' = [wreq EXCEPT ![w] = users[wfd[w]].read_buf[n]]
    BY <1>5, RequestFound
  <2>3. IsRead(users[wfd[w]].read_buf[n])
    BY <2>1 DEF Reads
  <2>4. \A v \in Workers : wreq'[v] # None => wreq'[v][2] \in 1 .. taken[wreq'[v][1]]
    BY <2>2, <2>3 DEF Reads, IsRead, TypeOK, ServerTypes
  <2>5. Reads'
    BY <1>1, <2>4 DEF Reads, IsRead, client, traffic
  <2> QED BY <1>2, <1>3, <2>5
<1> QED BY <1>4, <1>5

\* With no request for an empty file the answer is always sent.
LEMMA ProcessWriteOwner ==
  ASSUME "empty" \notin Kinds, OwnerInv, NEW w \in Workers, ProcessWrite(w)
  PROVE  NoWorkerCloses' /\ Reads' /\ OneWay'
<1> USE DEF OwnerInv, ServerInv
<1>1. UNCHANGED << client, kernel, traffic, pool, main, wfd >>
  BY DEF ProcessWrite
<1>2. /\ wpc[w] = "write" /\ wfd[w] \in Fds /\ wreq[w] \in Refs
      /\ \A g \in Fds : g # wfd[w] => users'[g] = users[g]
      /\ \A g \in Fds : /\ users'[g].m_sockfd = users[g].m_sockfd
                        /\ users'[g].read_buf = users[g].read_buf
      /\ users'[wfd[w]].answer = wreq[w]
  BY AnswerReady
<1>3. OneWay'
  BY <1>1, <1>2, WaysStay DEF kernel, pool, main
<1>4. IsRead(wreq[w])
  BY <1>2, ConstantFacts DEF Reads
<1>5. NoWorkerCloses'
  <2>1. Token(wreq[w]).kind # "empty"
    BY <1>2, <1>4, ReadWasSent, TokenType
  <2> QED BY <2>1 DEF ProcessWrite, NoWorkerCloses, TypeOK, ServerTypes
<1>6. Reads'
  <2>1. \A g \in Fds : users'[g].answer # None => users'[g].answer[2] \in 1 .. taken[users'[g].answer[1]]
    BY <1>2, <1>4 DEF Reads, IsRead
  <2>2. \A v \in Workers : wreq'[v] \in {wreq[v], None}
    BY DEF ProcessWrite, TypeOK, ServerTypes
  <2>3. \A v \in Workers : wreq'[v] # None => wreq'[v][2] \in 1 .. taken[wreq'[v][1]]
    BY <2>2 DEF Reads, IsRead
  <2> QED BY <1>1, <1>2, <2>1, <2>3 DEF Reads, IsRead, client, traffic
<1> QED BY <1>3, <1>5, <1>6

LEMMA RearmOwner ==
  ASSUME OwnerInv, NEW w \in Workers, Rearm(w)
  PROVE  NoWorkerCloses' /\ Reads' /\ OneWay'
<1> USE DEF OwnerInv, ServerInv
<1>1. PICK ev \in {"in", "out"} : reg' = Modfd(users[wfd[w]].m_sockfd, ev)
  BY DEF Rearm
<1>2. wfd[w] \in Fds /\ Held(wfd[w])
  BY HeldObject DEF Rearm
<1>3. \A g \in Fds : g # wfd[w] => reg'[g] = reg[g]
  BY <1>1, <1>2, ModfdOwn
<1>4. /\ wpc'[w] = "idle" /\ wfd'[w] = None
      /\ \A v \in Workers : v # w => wfd'[v] = wfd[v] /\ wpc'[v] = wpc[v]
      /\ UNCHANGED << client, conn, traffic, users, queue, events, wreq >>
  BY DEF Rearm, TypeOK, ServerTypes, pool, main
<1>5. NoWorkerCloses'
  BY <1>4 DEF NoWorkerCloses
<1>6. Reads'
  BY <1>4, ReadsStay, SentLengths DEF client, traffic
<1>7. OneWay'
  <2>0. PICK h \in Fds : h = wfd[w]
    BY <1>2
  <2>1. ~Reported(h) /\ ~Queued(h) /\ conn[h] # None
    BY <1>2, <2>0 DEF OneWay
  <2>2. ~Held(h)'
    BY <1>4, <2>0, ConstantFacts DEF OneWay, Held
  <2>3. \A g \in Fds : g # h => (Held(g)' => Held(g)) /\ (Armed(g)' <=> Armed(g))
    BY <1>3, <1>4, <2>0, ConstantFacts DEF Held, Armed
  <2>4. \A g \in Fds : (Queued(g)' <=> Queued(g)) /\ (Reported(g)' <=> Reported(g))
    BY <1>4 DEF Queued, Reported
  <2>5. \A u, v \in Workers : wfd'[u] = wfd'[v] /\ wfd'[u] # None => u = v
    BY <1>4 DEF OneWay
  <2> QED BY <1>4, <2>1, <2>2, <2>3, <2>4, <2>5 DEF OneWay
<1> QED BY <1>5, <1>6, <1>7

LEMMA StutterOwner ==
  ASSUME OwnerInv, UNCHANGED vars
  PROVE  NoWorkerCloses' /\ Reads' /\ OneWay'
<1> USE DEF OwnerInv, ServerInv
<1>1. UNCHANGED << client, kernel, traffic, users, pool, main, worker, count >>
  BY DEF vars
<1>2. Reads'
  BY <1>1, ReadsStay, SentLengths DEF client, traffic, worker
<1> QED BY <1>1, <1>2, WaysStay DEF NoWorkerCloses, kernel, pool, main, worker

LEMMA NextOwner ==
  ASSUME "empty" \notin Kinds, OwnerInv, [Next]_vars
  PROVE  OwnerInv'
<1> DEFINE Goal == NoWorkerCloses' /\ Reads' /\ OneWay'
<1> SUFFICES Goal
  BY NextServer DEF OwnerInv
<1>1. CASE EpollWait
  BY <1>1, EpollWaitOwner
<1>2. CASE AcceptFails \/ AcceptBusy \/ AcceptInit
  BY <1>2, AcceptOwner
<1>3. CASE MainCount
  BY <1>3, MainCountOwner
<1>4. ASSUME NEW f \in Fds, CloseOnHup(f) \/ ReadCloses(f) \/ WriteFails(f) \/ WriteCloses(f)
      PROVE  Goal
  BY <1>4, ClosesOwner
<1>5. ASSUME NEW f \in Fds, ReadAppends(f) PROVE Goal
  BY <1>5, ReadAppendsOwner
<1>6. ASSUME NEW f \in Fds, WriteNothing(f) \/ WriteStalls(f) \/ WriteKeeps(f) PROVE Goal
  BY <1>6, WritesOwner
<1>7. ASSUME NEW w \in Workers, WorkerStep(w) PROVE Goal
  <2>1. ~WorkerRemovefd(w) /\ ~WorkerForget(w) /\ ~WorkerLoad(w) /\ ~WorkerStore(w)
    BY DEF OwnerInv, NoWorkerCloses, WorkerRemovefd, WorkerForget, WorkerLoad, WorkerStore, Goto
  <2> QED BY <1>7, <2>1, TakeOwner, ProcessReadOwner, ProcessWriteOwner, RearmOwner DEF WorkerStep
<1>8. ASSUME NEW c \in Clients, ClientStep(c) PROVE Goal
  BY <1>8, ClientOwner
<1>9. CASE UNCHANGED vars
  BY <1>9, StutterOwner
<1> HIDE DEF Goal
<1> QED BY <1>1, <1>2, <1>3, <1>4, <1>5, <1>6, <1>7, <1>8, <1>9 DEF Next, MainStep

\* With no request for an empty file only the main thread closes, and there is
\* at most one way to an object.
THEOREM OneWayToAnObject ==
  ASSUME "empty" \notin Kinds
  PROVE  Spec => []OwnerInv
<1>1. Init => OwnerInv
  BY InitOwner
<1>2. OwnerInv /\ [Next]_vars => OwnerInv'
  BY NextOwner
<1> QED BY <1>1, <1>2, PTL DEF Spec

\* At most one entry of the queue and one worker.
LEMMA ClaimsAtMostOne ==
  ASSUME OwnerInv, NEW f \in Fds
  PROVE  /\ Cardinality({n \in DOMAIN queue : queue[n] = f}) = (IF Queued(f) THEN 1 ELSE 0)
         /\ Cardinality({w \in Workers : wfd[w] = f}) = (IF Held(f) THEN 1 ELSE 0)
<1> DEFINE QS == {n \in DOMAIN queue : queue[n] = f}
           WS == {w \in Workers : wfd[w] = f}
<1>1. \A m, n \in QS : m = n
  BY DEF OwnerInv, OneWay
<1>2. \A v, w \in WS : v = w
  BY ConstantFacts DEF OwnerInv, OneWay
<1>3. (QS = {} <=> ~Queued(f)) /\ (WS = {} <=> ~Held(f))
  BY DEF Queued, Held
<1> HIDE DEF QS, WS
<1>4. (QS # {} => \E x \in QS : QS = {x}) /\ (WS # {} => \E x \in WS : WS = {x})
  BY <1>1, <1>2
<1>5. /\ QS = {} => Cardinality(QS) = 0
      /\ WS = {} => Cardinality(WS) = 0
  BY FS_EmptySet
<1>6. /\ QS # {} => Cardinality(QS) = 1
      /\ WS # {} => Cardinality(WS) = 1
  BY <1>4, FS_Singleton
<1>7. Cardinality(QS) = (IF Queued(f) THEN 1 ELSE 0) /\ Cardinality(WS) = (IF Held(f) THEN 1 ELSE 0)
  BY <1>3, <1>5, <1>6
<1> QED BY <1>7 DEF QS, WS

LEMMA ClaimsCounted ==
  ASSUME OwnerInv, NEW f \in Fds
  PROVE  Claims(f) = (IF Armed(f) \/ Reported(f) \/ Queued(f) \/ Held(f) THEN 1 ELSE 0)
<1> DEFINE Q == Cardinality({n \in DOMAIN queue : queue[n] = f})
           W == Cardinality({w \in Workers : wfd[w] = f})
<1>1. Q = (IF Queued(f) THEN 1 ELSE 0) /\ W = (IF Held(f) THEN 1 ELSE 0)
  BY ClaimsAtMostOne
<1>2. Claims(f) = (IF Armed(f) THEN 1 ELSE 0) + (IF Reported(f) THEN 1 ELSE 0) + Q + W
  BY DEF Claims, Armed, Reported
<1>3. /\ Armed(f) => ~Reported(f) /\ ~Queued(f) /\ ~Held(f)
      /\ Reported(f) => ~Queued(f) /\ ~Held(f)
      /\ Queued(f) => ~Held(f)
  BY DEF OwnerInv, OneWay
<1> HIDE DEF Q, W
<1> QED BY <1>1, <1>2, <1>3

\* An http_conn has no lock, and never two owners: one thread at a time can get
\* at a connection, and only once (main.cpp 128-132, http_conn.cpp 534-550).
THEOREM OneOwnerAtATime ==
  ASSUME "empty" \notin Kinds
  PROVE  Spec => []OneOwner
<1>1. OwnerInv => OneOwner
  BY ClaimsCounted DEF OneOwner
<1> QED BY <1>1, OneWayToAnObject, PTL

\* No open connection is forgotten, unless the pool refused it: every way out of
\* process and write arms the registration again or closes.
THEOREM NoneIsForgotten ==
  ASSUME "empty" \notin Kinds
  PROVE  Spec => []NotStranded
<1>1. OwnerInv => NotStranded
  <2>1. SUFFICES ASSUME OwnerInv, NEW f \in Fds, conn[f] # None, conn[f] \notin dropped
                 PROVE  Claims(f) >= 1
    BY DEF NotStranded
  <2>2. users[f].m_sockfd = f
    BY <2>1 DEF OwnerInv, OneWay
  <2>3. Armed(f) \/ Reported(f) \/ Queued(f) \/ Held(f)
    BY <2>1, <2>2 DEF OwnerInv, ServerInv, Attended
  <2> QED BY <2>1, <2>3, SomeClaim DEF OwnerInv, ServerInv
<1> QED BY <1>1, OneWayToAnObject, PTL

-----------------------------------------------------------------------------
(* AnswersInv: whose requests are where.                                    *)

LEMMA InitAnswers == ASSUME Init PROVE AnswersInv
<1>1. OnePlace /\ OwnRequests /\ AnsweredWereRead /\ HupIsKnown /\ OwnAnswers
  BY ConstantFacts DEF Init, OnePlace, OwnRequests, AnsweredWereRead, HupIsKnown, OwnAnswers
<1> QED BY <1>1, InitOwner DEF AnswersInv

\* A step that answers nothing, reads nothing and finds no request.
LEMMA QuietAnswers ==
  ASSUME AnswersInv, UNCHANGED << fresh, taken, answered, backlog >>,
         \A f \in Fds : /\ conn'[f] \in {conn[f], None}
                        /\ users'[f].read_buf = users[f].read_buf
                        /\ users'[f].answer = users[f].answer,
         \A w \in Workers : /\ wreq'[w] \in {wreq[w], None}
                            /\ wreq'[w] # None => wfd'[w] = wfd[w]
  PROVE  OnePlace' /\ OwnRequests' /\ AnsweredWereRead' /\ OwnAnswers'
<1> USE DEF AnswersInv
<1>1. fresh \subseteq Clients /\ backlog \in Seq(Clients)
  BY DEF OwnerInv, ServerInv, TypeOK, KernelTypes
<1>2. OnePlace'
  <2>1. \A n \in DOMAIN backlog : backlog[n] # None
    BY <1>1, ConstantFacts
  <2> QED BY <1>1, <2>1, ConstantFacts DEF OnePlace
<1>3. OwnRequests'
  BY DEF OwnRequests, In
<1>4. AnsweredWereRead' /\ OwnAnswers'
  BY DEF AnsweredWereRead, OwnAnswers
<1> QED BY <1>2, <1>3, <1>4

\* No new report of a hang-up, and none for a connection that is gone.
LEMMA HupStays ==
  ASSUME HupIsKnown, hup \subseteq hup',
         \A f \in Fds : events'[f] = "hup" => events[f] = "hup" /\ conn'[f] = conn[f]
  PROVE  HupIsKnown'
BY DEF HupIsKnown

\* In the queue and in the hands of a worker that took it from there are no
\* requests yet.
LEMMA RequestInHand ==
  ASSUME OwnFd, NEW w \in Workers, wpc[w] # "write"
  PROVE  wreq[w] = None
BY DEF OwnFd

LEMMA ClientAnswers ==
  ASSUME AnswersInv, NEW c \in Clients, ClientStep(c)
  PROVE  OnePlace' /\ OwnRequests' /\ AnsweredWereRead' /\ HupIsKnown' /\ OwnAnswers'
<1> USE DEF AnswersInv
<1>1. UNCHANGED << conn, reg, traffic, users, pool, main, worker >> /\ hup \subseteq hup'
  BY DEF ClientStep, Connect, Send, HangUp, kernel
<1>2. HupIsKnown'
  BY <1>1, HupStays DEF main
<1>3. CASE Send(c) \/ HangUp(c)
  <2>1. UNCHANGED << fresh, backlog >>
    BY <1>3 DEF Send, HangUp, kernel
  <2> QED BY <1>1, <1>2, <2>1, QuietAnswers DEF traffic, worker
<1>4. CASE Connect(c)
  <2>1. /\ DOMAIN backlog' = DOMAIN backlog \cup {Len(backlog) + 1}
        /\ \A n \in DOMAIN backlog : backlog'[n] = backlog[n]
        /\ backlog'[Len(backlog) + 1] = c
    BY <1>4, AppendEntry DEF Connect, OwnerInv, ServerInv, TypeOK, KernelTypes
  <2>2. c \in fresh /\ fresh' = fresh \ {c} /\ conn' = conn
    BY <1>4 DEF Connect
  <2>3. OnePlace'
    <3>1. \A n \in DOMAIN backlog : backlog[n] # c
      BY <2>2 DEF OnePlace
    <3>2. \A f \in Fds : conn[f] # c
      BY <2>2 DEF OnePlace
    <3>3. \A m, n \in DOMAIN backlog' : backlog'[m] = backlog'[n] => m = n
      BY <2>1, <3>1 DEF OnePlace
    <3>4. \A n \in DOMAIN backlog' : backlog'[n] \notin fresh' /\ \A f \in Fds : conn'[f] # backlog'[n]
      BY <2>1, <2>2, <3>2 DEF OnePlace
    <3> QED BY <2>2, <3>3, <3>4 DEF OnePlace
  <2>4. OwnRequests' /\ AnsweredWereRead' /\ OwnAnswers'
    BY <1>1 DEF OwnRequests, In, AnsweredWereRead, OwnAnswers, traffic, worker
  <2> QED BY <1>2, <2>3, <2>4
<1> QED BY <1>3, <1>4 DEF ClientStep

LEMMA EpollWaitAnswers ==
  ASSUME AnswersInv, EpollWait
  PROVE  OnePlace' /\ OwnRequests' /\ AnsweredWereRead' /\ HupIsKnown' /\ OwnAnswers'
<1> USE DEF AnswersInv
<1>1. UNCHANGED << client, backlog, conn, traffic, users, worker >>
  BY DEF EpollWait
<1>2. \A f \in Fds : events'[f] = Flag(f)
  BY ConstantFacts DEF EpollWait, OwnerInv, ServerInv, TypeOK, ServerTypes
<1>3. \A f \in Fds : Flag(f) = "hup" => conn[f] \in hup
  BY DEF Flag
<1>4. HupIsKnown'
  BY <1>1, <1>2, <1>3 DEF HupIsKnown, client
<1>5. OnePlace' /\ OwnRequests' /\ AnsweredWereRead' /\ OwnAnswers'
  BY <1>1, QuietAnswers DEF client, traffic, worker
<1> QED BY <1>4, <1>5

LEMMA AcceptAnswers ==
  ASSUME AnswersInv, AcceptFails \/ AcceptBusy \/ AcceptInit
  PROVE  OnePlace' /\ OwnRequests' /\ AnsweredWereRead' /\ HupIsKnown' /\ OwnAnswers'
<1> USE DEF AnswersInv, OwnerInv, ServerInv
<1>1. /\ events[Listen] = "in"
      /\ \A y \in Fds : events'[y] = events[y]
  BY HandleEffect, ConstantFacts DEF AcceptFails, AcceptBusy, AcceptInit
<1>2. UNCHANGED << client, traffic, worker >>
  BY DEF AcceptFails, AcceptBusy, AcceptInit
<1>3. CASE AcceptFails
  <2>1. UNCHANGED << backlog, conn, users >>
    BY <1>3 DEF AcceptFails, kernel
  <2> QED BY <1>1, <1>2, <2>1, QuietAnswers, HupStays DEF client, traffic, worker
<1>4. backlog \in Seq(Clients) /\ backlog # <<>>
  BY <1>1 DEF Arrivals, TypeOK, KernelTypes
<1>5. /\ Head(backlog) \in Clients /\ Head(backlog) = backlog[1] /\ 1 \in DOMAIN backlog
      /\ DOMAIN Tail(backlog) \subseteq Nat \ {0}
      /\ \A n \in DOMAIN Tail(backlog) : n + 1 \in DOMAIN backlog /\ Tail(backlog)[n] = backlog[n + 1]
  BY <1>4, TailEntry
<1>6. \A n \in DOMAIN Tail(backlog) :
        /\ Tail(backlog)[n] \notin fresh
        /\ Tail(backlog)[n] # Head(backlog)
        /\ \A f \in Fds : conn[f] # Tail(backlog)[n]
  <2>1. TAKE n \in DOMAIN Tail(backlog)
  <2>2. n + 1 \in DOMAIN backlog /\ n + 1 # 1 /\ Tail(backlog)[n] = backlog[n + 1]
    BY <1>5
  <2>3. backlog[n + 1] # backlog[1]
    BY <1>5, <2>2 DEF OnePlace
  <2> QED BY <1>5, <2>2, <2>3 DEF OnePlace
<1>7. \A m, n \in DOMAIN Tail(backlog) : Tail(backlog)[m] = Tail(backlog)[n] => m = n
  <2>1. TAKE m, n \in DOMAIN Tail(backlog)
  <2>2. /\ m + 1 \in DOMAIN backlog /\ Tail(backlog)[m] = backlog[m + 1] /\ m \in Nat
        /\ n + 1 \in DOMAIN backlog /\ Tail(backlog)[n] = backlog[n + 1] /\ n \in Nat
    BY <1>5
  <2>3. backlog[m + 1] = backlog[n + 1] => m + 1 = n + 1
    BY <2>2 DEF OnePlace
  <2> QED BY <2>2, <2>3
<1>8. CASE AcceptBusy
  <2>1. UNCHANGED << conn, users >> /\ backlog' = Tail(backlog)
    BY <1>8 DEF AcceptBusy
  <2>2. OnePlace'
    BY <1>2, <1>6, <1>7, <2>1 DEF OnePlace, client
  <2>3. OwnRequests' /\ AnsweredWereRead' /\ OwnAnswers'
    BY <1>2, <2>1 DEF OwnRequests, In, AnsweredWereRead, OwnAnswers, traffic, worker
  <2> QED BY <1>1, <1>2, <2>1, <2>2, <2>3, HupStays DEF client
<1>9. CASE AcceptInit
  <2>1. PICK f \in FreeFds : /\ conn' = [conn EXCEPT ![f] = Head(backlog)]
                             /\ reg' = [reg EXCEPT ![f] = "in"]
                             /\ users' = [users EXCEPT ![f] = InitUser(f)]
    BY <1>9 DEF AcceptInit
  <2>2. /\ f \in Fds /\ conn[f] = None
        /\ conn'[f] = Head(backlog) /\ users'[f] = InitUser(f)
        /\ \A g \in Fds : g # f => conn'[g] = conn[g] /\ users'[g] = users[g]
    BY <2>1 DEF FreeFds, TypeOK, KernelTypes, ServerTypes
  <2>3. backlog' = Tail(backlog)
    BY <1>9 DEF AcceptInit
  <2>4. OnePlace'
    <3>1. /\ Head(backlog) \notin fresh
          /\ \A g \in Fds : conn[g] # Head(backlog)
      BY <1>5 DEF OnePlace
    <3>2. \A g, h \in Fds : conn'[g] # None /\ conn'[g] = conn'[h] => g = h
      BY <2>2, <3>1 DEF OnePlace
    <3>3. \A g \in Fds : conn'[g] \notin fresh'
      BY <1>2, <2>2, <3>1 DEF OnePlace, client
    <3>4. \A n \in DOMAIN backlog' : backlog'[n] \notin fresh' /\ \A g \in Fds : conn'[g] # backlog'[n]
      BY <1>2, <1>6, <2>2, <2>3 DEF client
    <3> QED BY <1>7, <2>3, <3>2, <3>3, <3>4 DEF OnePlace
  <2>5. ~Held(f) /\ ~Reported(f)
    BY <2>2 DEF OneWay
  <2>6. OwnRequests'
    <3>1. users'[f].read_buf = <<>> /\ users'[f].answer = None
      BY <2>2 DEF InitUser
    <3>2. \A w \in Workers : wfd'[w] # f
      BY <1>2, <2>5 DEF Held, worker
    <3>3. wfd' = wfd /\ wreq' = wreq /\ answered' = answered
      BY <1>2 DEF worker, traffic
    <3> QED BY SMTT(30), <2>2, <3>1, <3>2, <3>3 DEF OwnRequests, In
  <2>7. AnsweredWereRead' /\ OwnAnswers'
    BY <1>2 DEF AnsweredWereRead, OwnAnswers, traffic
  <2>8. HupIsKnown'
    BY <1>1, <1>2, <2>2, <2>5 DEF HupIsKnown, Reported, client
  <2> QED BY <2>4, <2>6, <2>7, <2>8
<1> QED BY <1>3, <1>8, <1>9

LEMMA MainCountAnswers ==
  ASSUME AnswersInv, MainCount
  PROVE  OnePlace' /\ OwnRequests' /\ AnsweredWereRead' /\ HupIsKnown' /\ OwnAnswers'
<1>1. UNCHANGED << client, kernel, traffic, users, events, worker >>
  BY DEF MainCount
<1> QED BY <1>1, QuietAnswers, HupStays DEF AnswersInv, client, kernel, traffic, worker

\* The answer that goes out is to a request of its client, later than those
\* answered before.
LEMMA AnswerOwn ==
  ASSUME AnswersInv, NEW f \in Fds, Answer(f)
  PROVE  /\ users[f].answer \in Refs /\ conn[f] \in Clients
         /\ users[f].answer[1] = conn[f]
         /\ users[f].answer[2] \in Nat /\ users[f].answer[2] <= taken[conn[f]]
         /\ \A m \in DOMAIN answered[conn[f]] : answered[conn[f]][m][2] < users[f].answer[2]
<1> USE DEF AnswersInv, OwnerInv, ServerInv
<1>1. /\ users[f].answer \in Refs /\ users[f].answer # None
      /\ conn[f] \in Clients /\ conn[f] # None
  BY AnswerTypes, ConstantFacts
<1>2. In(users[f].read_buf, users[f].answer)
  BY <1>1 DEF OwnRequests
<1>3. PICK n \in DOMAIN users[f].read_buf : users[f].read_buf[n] = users[f].answer
  BY <1>2 DEF In
<1>4. /\ users[f].answer[1] = conn[f]
      /\ \A m \in DOMAIN answered[conn[f]] : answered[conn[f]][m][2] < users[f].answer[2]
  BY <1>1, <1>3 DEF OwnRequests
<1>5. IsRead(users[f].answer)
  BY <1>1 DEF Reads
<1>6. taken[conn[f]] \in Nat /\ users[f].answer[2] \in Nat
  BY <1>1 DEF TypeOK, KernelTypes, Refs
<1> QED BY <1>1, <1>4, <1>5, <1>6 DEF IsRead

LEMMA AnswerInOrder ==
  ASSUME AnswersInv, NEW f \in Fds, Answer(f), taken' = taken
  PROVE  AnsweredWereRead' /\ OwnAnswers'
<1> USE DEF AnswersInv, OwnerInv, ServerInv
<1> DEFINE r == users[f].answer
<1>1. PICK c \in Clients : c = conn[f]
  BY AnswerOwn
<1>2. /\ r[1] = c /\ r[2] <= taken[c] /\ r \in Refs /\ r[2] \in Nat
      /\ \A m \in DOMAIN answered[c] : answered[c][m][2] < r[2]
  BY <1>1, AnswerOwn
<1>3. /\ answered'[c] = Append(answered[c], r)
      /\ \A d \in Clients : d # c => answered'[d] = answered[d]
  BY <1>1, AnswerTypes
<1>4. answered[c] \in Seq(Refs)
  BY DEF TypeOK, KernelTypes
<1>5. /\ DOMAIN answered[c] = 1 .. Len(answered[c]) /\ Len(answered[c]) \in Nat
      /\ DOMAIN answered'[c] = DOMAIN answered[c] \cup {Len(answered[c]) + 1}
      /\ \A n \in DOMAIN answered[c] : answered'[c][n] = answered[c][n]
      /\ answered'[c][Len(answered[c]) + 1] = r
  <2> HIDE DEF r
  <2> QED BY <1>2, <1>3, <1>4, AppendEntry
<1> HIDE DEF r
<1>6. AnsweredWereRead'
  BY SMTT(30), <1>2, <1>3, <1>5 DEF AnsweredWereRead
<1>7. OwnAnswers'
  <2>1. SUFFICES ASSUME NEW d \in Clients, NEW i \in DOMAIN answered'[d]
                 PROVE  /\ answered'[d][i][1] = d
                        /\ \A j \in 1 .. i - 1 : answered'[d][j][2] < answered'[d][i][2]
    BY DEF OwnAnswers
  <2>2. CASE d # c
    BY <1>3, <2>2 DEF OwnAnswers
  <2>3. CASE d = c /\ i \in DOMAIN answered[c]
    <3>1. \A j \in 1 .. i - 1 : j \in DOMAIN answered[c]
      BY <1>5, <2>3
    <3> QED BY <1>5, <2>3, <3>1 DEF OwnAnswers
  <2>4. CASE d = c /\ i = Len(answered[c]) + 1
    <3>1. \A j \in 1 .. i - 1 : j \in DOMAIN answered[c]
      BY <1>5, <2>4
    <3> QED BY <1>2, <1>5, <2>4, <3>1
  <2> QED BY <1>5, <2>1, <2>2, <2>3, <2>4
<1> QED BY <1>6, <1>7

\* Closing a descriptor takes its requests out of the game.
LEMMA CloseAnswers ==
  ASSUME AnswersInv, NEW f \in Fds, NEW ev \in {"in", "out", "hup"}, Handle(f, ev), CloseConn(f),
         UNCHANGED << client, backlog, taken, pool, worker >>
  PROVE  /\ OnePlace' /\ HupIsKnown'
         /\ answered' = answered => OwnRequests' /\ AnsweredWereRead' /\ OwnAnswers'
         /\ Answer(f) => OwnRequests'
<1> USE DEF AnswersInv, OwnerInv, ServerInv
<1>1. /\ events'[f] = "none"
      /\ \A g \in Fds : g # f => events'[g] = events[g]
  BY HandleEffect
<1>2. /\ \A g \in Fds : g # f => conn'[g] = conn[g] /\ users'[g] = users[g]
      /\ users'[f].read_buf = users[f].read_buf /\ users'[f].answer = users[f].answer
  BY CloseTypes
<1>3. conn'[f] = None /\ conn[f] # None
  <2>1. users[f].m_sockfd = f /\ conn[f] # None
    BY CloseOwner
  <2>2. conn' = [conn EXCEPT ![f] = None]
    BY <2>1, CloseEffect, ConstantFacts
  <2> QED BY <2>1, <2>2 DEF TypeOK, KernelTypes
<1>4. HupIsKnown'
  BY <1>1, <1>2, HupStays DEF client
<1>5. OnePlace'
  <2>1. fresh \subseteq Clients /\ \A n \in DOMAIN backlog : backlog[n] # None
    BY ConstantFacts DEF TypeOK, KernelTypes
  <2>2. \A g \in Fds : conn'[g] \in {conn[g], None}
    BY <1>2, <1>3
  <2> QED BY <2>1, <2>2, ConstantFacts DEF OnePlace, client
<1>6. CASE answered' = answered
  <2>1. \A g \in Fds : /\ conn'[g] \in {conn[g], None}
                       /\ users'[g].read_buf = users[g].read_buf
                       /\ users'[g].answer = users[g].answer
    BY <1>2, <1>3
  <2>2. OwnRequests' /\ AnsweredWereRead' /\ OwnAnswers'
    BY <1>6, <2>1, QuietAnswers DEF client, worker
  <2> QED BY <1>4, <1>5, <2>2 DEF OwnRequests
<1>7. CASE Answer(f)
  <2>1. OwnRequests'
    <3>1. \A c \in Clients : c # conn[f] => answered'[c] = answered[c]
      BY <1>7, AnswerTypes
    <3>2. \A g \in Fds : conn'[g] # None => /\ g # f /\ conn'[g] = conn[g] /\ users'[g] = users[g]
                                            /\ conn[g] \in Clients /\ conn[g] # conn[f]
      BY <1>2, <1>3 DEF OnePlace, TypeOK, KernelTypes
    <3>3. wfd' = wfd /\ wreq' = wreq
      BY DEF worker
    <3> QED BY SMTT(30), <3>1, <3>2, <3>3 DEF OwnRequests, In
  <2>2. answered' # answered
    <3>1. PICK c \in Clients : c = conn[f]
      BY <1>7, AnswerOwn
    <3>2. answered[c] \in Seq(Refs) /\ users[f].answer \in Refs
      BY <1>7, AnswerOwn DEF TypeOK, KernelTypes
    <3>3. answered'[c] = Append(answered[c], users[f].answer)
      BY <1>7, <3>1, AnswerTypes
    <3>4. Len(answered'[c]) = Len(answered[c]) + 1 /\ Len(answered[c]) \in Nat
      BY <3>2, <3>3, AppendEntry
    <3> QED BY <3>4
  <2> QED BY <1>4, <1>5, <2>1, <2>2
<1> QED BY <1>4, <1>5, <1>6, <1>7

LEMMA ClosesAnswers ==
  ASSUME AnswersInv, NEW f \in Fds,
         CloseOnHup(f) \/ ReadCloses(f) \/ WriteFails(f) \/ WriteCloses(f)
  PROVE  OnePlace' /\ OwnRequests' /\ AnsweredWereRead' /\ HupIsKnown' /\ OwnAnswers'
<1>1. CASE CloseOnHup(f)
  BY <1>1, CloseAnswers DEF CloseOnHup, traffic
<1>2. CASE ReadCloses(f)
  BY <1>2, CloseAnswers DEF ReadCloses, traffic
<1>3. CASE WriteFails(f)
  BY <1>3, CloseAnswers DEF WriteFails, traffic
<1>4. CASE WriteCloses(f)
  <2>1. Answer(f) /\ Handle(f, "out") /\ CloseConn(f)
    BY <1>4 DEF WriteCloses, Answer
  <2>2. UNCHANGED << client, backlog, taken, pool, worker >>
    BY <1>4 DEF WriteCloses
  <2>3. AnsweredWereRead' /\ OwnAnswers'
    BY <2>1, <2>2, AnswerInOrder
  <2> QED BY <2>1, <2>2, <2>3, CloseAnswers
<1> QED BY <1>1, <1>2, <1>3, <1>4

\* What is read is later than what was read before, and so than what was answered.
LEMMA ReadAppendsAnswers ==
  ASSUME AnswersInv, NEW f \in Fds, ReadAppends(f)
  PROVE  OnePlace' /\ OwnRequests' /\ AnsweredWereRead' /\ HupIsKnown' /\ OwnAnswers'
<1> USE DEF AnswersInv, OwnerInv, ServerInv
<1>1. /\ Handle(f, "in") /\ conn[f] \in Clients
      /\ \A g \in Fds : g # f => users'[g] = users[g]
      /\ users'[f].answer = users[f].answer
      /\ users'[f].read_buf = users[f].read_buf \o Unread(conn[f])
      /\ taken' = [taken EXCEPT ![conn[f]] = Len(sent[conn[f]])]
  BY ReadEffect
<1>2. UNCHANGED << client, kernel, answered, worker >>
  BY DEF ReadAppends
<1>3. PICK c \in Clients : c = conn[f]
  BY <1>1
<1>4. /\ \A d \in Clients : taken[d] <= taken'[d]
      /\ \A n \in DOMAIN Unread(c) : /\ Unread(c)[n][1] = c
                                     /\ Unread(c)[n][2] \in taken[c] + 1 .. taken'[c]
  BY <1>1, <1>3, UnreadIsRead
<1>5. /\ taken \in [Clients -> Nat] /\ taken' \in [Clients -> Nat]
      /\ answered \in [Clients -> Seq(Refs)]
  BY <1>1, SentLengths DEF TypeOK, KernelTypes
<1>6. OnePlace' /\ HupIsKnown'
  <2>1. HupIsKnown'
    BY <1>1, <1>2, HandleEffect, HupStays DEF client, kernel
  <2> QED BY <1>2, <2>1 DEF OnePlace, client, kernel
<1>7. AnsweredWereRead'
  <2>1. \A d \in Clients : \A m \in DOMAIN answered[d] : answered[d][m] \in Refs /\ answered[d][m][2] \in Nat
    BY <1>5 DEF Refs
  <2> QED BY <1>2, <1>4, <1>5, <2>1 DEF AnsweredWereRead
<1>8. OwnAnswers'
  BY <1>2 DEF OwnAnswers
<1>9. OwnRequests'
  <2>1. users[f].read_buf \in Seq(Refs) /\ Unread(c) \in Seq(Refs)
    BY ObjectFields, UnreadType
  <2>2. /\ \A n \in DOMAIN users'[f].read_buf :
              \/ \E m \in DOMAIN users[f].read_buf : users'[f].read_buf[n] = users[f].read_buf[m]
              \/ \E m \in DOMAIN Unread(c) : users'[f].read_buf[n] = Unread(c)[m]
        /\ \A n \in DOMAIN users[f].read_buf :
              n \in DOMAIN users'[f].read_buf /\ users'[f].read_buf[n] = users[f].read_buf[n]
    <3>1. users'[f].read_buf = users[f].read_buf \o Unread(c)
      BY <1>1, <1>3
    <3>2. /\ \A n \in DOMAIN (users[f].read_buf \o Unread(c)) :
               \/ /\ n \in DOMAIN users[f].read_buf
                  /\ (users[f].read_buf \o Unread(c))[n] = users[f].read_buf[n]
               \/ \E m \in DOMAIN Unread(c) : (users[f].read_buf \o Unread(c))[n] = Unread(c)[m]
          /\ \A n \in DOMAIN users[f].read_buf :
               /\ n \in DOMAIN (users[f].read_buf \o Unread(c))
               /\ (users[f].read_buf \o Unread(c))[n] = users[f].read_buf[n]
      BY <2>1, ConcatEntry
    <3> QED BY <3>1, <3>2
  <2>3. \A r \in Refs : In(users[f].read_buf, r) => In(users'[f].read_buf, r)
    BY <2>2 DEF In
  <2>4. \A n \in DOMAIN Unread(c) : \A m \in DOMAIN answered[c] : answered[c][m][2] < Unread(c)[n][2]
    <3>1. SUFFICES ASSUME NEW n \in DOMAIN Unread(c), NEW m \in DOMAIN answered[c]
                   PROVE  answered[c][m][2] < Unread(c)[n][2]
      OBVIOUS
    <3>2. answered[c][m] \in Refs /\ answered[c][m][2] \in Nat /\ answered[c][m][2] <= taken[c]
      BY <1>5 DEF AnsweredWereRead, Refs
    <3>3. Unread(c)[n][2] \in taken[c] + 1 .. taken'[c] /\ taken[c] \in Nat /\ taken'[c] \in Nat
      BY <1>4, <1>5
    <3> QED BY <3>2, <3>3
  <2>5. conn' = conn /\ answered' = answered /\ wfd' = wfd /\ wreq' = wreq
    BY <1>2 DEF kernel, worker
  <2>6. \A n \in DOMAIN users'[f].read_buf :
          /\ users'[f].read_buf[n][1] = c
          /\ \A m \in DOMAIN answered[c] : answered[c][m][2] < users'[f].read_buf[n][2]
    <3>1. c # None
      BY ConstantFacts
    <3>2. \A m \in DOMAIN users[f].read_buf :
            /\ users[f].read_buf[m][1] = c
            /\ \A k \in DOMAIN answered[c] : answered[c][k][2] < users[f].read_buf[m][2]
      BY <1>3, <3>1 DEF OwnRequests
    <3>3. \A m \in DOMAIN Unread(c) : Unread(c)[m][1] = c
      BY <1>4
    <3>4. SUFFICES ASSUME NEW n \in DOMAIN users'[f].read_buf
                   PROVE  /\ users'[f].read_buf[n][1] = c
                          /\ \A m \in DOMAIN answered[c] :
                               answered[c][m][2] < users'[f].read_buf[n][2]
      OBVIOUS
    <3>5. CASE \E m \in DOMAIN users[f].read_buf : users'[f].read_buf[n] = users[f].read_buf[m]
      BY <3>2, <3>5
    <3>6. CASE \E m \in DOMAIN Unread(c) : users'[f].read_buf[n] = Unread(c)[m]
      BY <2>4, <3>3, <3>6
    <3> QED BY <2>2, <3>5, <3>6
  <2>7. /\ users[f].answer # None => In(users'[f].read_buf, users[f].answer)
        /\ \A w \in Workers : wfd[w] = f /\ wreq[w] # None => In(users'[f].read_buf, wreq[w])
    <3>1. c # None
      BY ConstantFacts
    <3>2. users[f].answer # None => users[f].answer \in Refs
      BY ObjectFields
    <3>3. \A w \in Workers : wreq[w] # None => wreq[w] \in Refs
      BY DEF TypeOK, ServerTypes
    <3> QED BY <1>3, <2>3, <3>1, <3>2, <3>3 DEF OwnRequests
  <2>8. SUFFICES ASSUME NEW g \in Fds, conn'[g] # None
                 PROVE  /\ \A n \in DOMAIN users'[g].read_buf :
                             LET r == users'[g].read_buf[n] IN
                             /\ r[1] = conn'[g]
                             /\ \A m \in DOMAIN answered'[conn'[g]] : answered'[conn'[g]][m][2] < r[2]
                        /\ users'[g].answer # None => In(users'[g].read_buf, users'[g].answer)
                        /\ \A w \in Workers :
                             wfd'[w] = g /\ wreq'[w] # None => In(users'[g].read_buf, wreq'[w])
    BY DEF OwnRequests, In
  <2>9. CASE g = f
    BY <1>1, <1>3, <2>5, <2>6, <2>7, <2>9
  <2>10. CASE g # f
    BY <1>1, <2>5, <2>8, <2>10 DEF OwnRequests
  <2> QED BY <2>9, <2>10
<1> QED BY <1>6, <1>7, <1>8, <1>9

LEMMA WritesAnswers ==
  ASSUME AnswersInv, NEW f \in Fds, WriteNothing(f) \/ WriteStalls(f) \/ WriteKeeps(f)
  PROVE  OnePlace' /\ OwnRequests' /\ AnsweredWereRead' /\ HupIsKnown' /\ OwnAnswers'
<1> USE DEF AnswersInv, OwnerInv, ServerInv
<1>1. UNCHANGED << client, conn, backlog, taken, worker >> /\ Handle(f, "out")
  BY DEF WriteNothing, WriteStalls, WriteKeeps, Answer, traffic
<1>2. HupIsKnown'
  BY <1>1, HandleEffect, HupStays DEF client
<1>3. CASE WriteStalls(f)
  <2>1. UNCHANGED << users, answered >>
    BY <1>3 DEF WriteStalls
  <2> QED BY <1>1, <1>2, <2>1, QuietAnswers DEF client, worker
<1>4. CASE WriteNothing(f) \/ WriteKeeps(f)
  <2>1. users' = [users EXCEPT ![f] = Cleared(@)]
    BY <1>4 DEF WriteNothing, WriteKeeps
  <2>2. /\ \A g \in Fds : g # f => users'[g] = users[g]
        /\ users'[f].read_buf = <<>> /\ users'[f].answer = None
    BY <2>1, ClearedUsers
  <2>3. \A w \in Workers : wfd[w] # f
    <3>1. Reported(f)
      BY <1>1, HandleEffect DEF Reported
    <3> QED BY <3>1 DEF OneWay, Held
  <2>4. \A g \in Fds : g # f /\ conn[g] # None => answered'[conn[g]] = answered[conn[g]]
    <3>1. CASE WriteNothing(f)
      BY <3>1 DEF WriteNothing, traffic
    <3>2. CASE WriteKeeps(f)
      <4>1. Answer(f)
        BY <3>2 DEF WriteKeeps
      <4>2. \A c \in Clients : c # conn[f] => answered'[c] = answered[c]
        BY <4>1, AnswerTypes
      <4>3. \A g \in Fds : g # f /\ conn[g] # None => conn[g] \in Clients /\ conn[g] # conn[f]
        BY DEF OnePlace, TypeOK, KernelTypes
      <4> QED BY <4>2, <4>3
    <3> QED BY <1>4, <3>1, <3>2
  <2>5. OwnRequests'
    BY SMTT(30), <1>1, <2>2, <2>3, <2>4 DEF OwnRequests, In, worker
  <2>6. OnePlace'
    BY <1>1 DEF OnePlace, client
  <2>7. AnsweredWereRead' /\ OwnAnswers'
    <3>1. CASE WriteNothing(f)
      BY <1>1, <3>1 DEF WriteNothing, traffic, AnsweredWereRead, OwnAnswers
    <3>2. CASE WriteKeeps(f)
      BY <1>1, <3>2, AnswerInOrder DEF WriteKeeps
    <3> QED BY <1>4, <3>1, <3>2
  <2> QED BY <1>2, <2>5, <2>6, <2>7
<1> QED BY <1>3, <1>4

\* A worker that takes an object or gives it back has no request in hand.
LEMMA PassAnswers ==
  ASSUME AnswersInv, NEW w \in Workers, Take(w) \/ ProcessReadIncomplete(w) \/ Rearm(w)
  PROVE  OnePlace' /\ OwnRequests' /\ AnsweredWereRead' /\ HupIsKnown' /\ OwnAnswers'
<1> USE DEF AnswersInv, OwnerInv, ServerInv
<1>1. UNCHANGED << client, backlog, conn, traffic, users, events, wreq >>
  BY DEF Take, ProcessReadIncomplete, Rearm, kernel, main
<1>2. wpc[w] # "write"
  BY DEF Take, ProcessReadIncomplete, Rearm
<1>3. wreq[w] = None
  BY <1>2, RequestInHand
<1>4. \A v \in Workers : v # w => wfd'[v] = wfd[v]
  BY DEF Take, ProcessReadIncomplete, Rearm, TypeOK, ServerTypes
<1> QED BY <1>1, <1>3, <1>4, QuietAnswers, HupStays DEF client, traffic

\* A request that is found is of the buffer it was found in.
LEMMA RequestAnswers ==
  ASSUME AnswersInv, NEW w \in Workers, ProcessReadRequest(w)
  PROVE  OnePlace' /\ OwnRequests' /\ AnsweredWereRead' /\ HupIsKnown' /\ OwnAnswers'
<1> USE DEF AnswersInv, OwnerInv, ServerInv
<1>1. UNCHANGED << client, kernel, traffic, users, main, wfd >>
  BY DEF ProcessReadRequest
<1>2. OnePlace' /\ AnsweredWereRead' /\ HupIsKnown' /\ OwnAnswers'
  BY <1>1 DEF OnePlace, AnsweredWereRead, HupIsKnown, OwnAnswers, client, kernel, traffic, main
<1>3. PICK n \in DOMAIN users[wfd[w]].read_buf : wreq' = [wreq EXCEPT ![w] = users[wfd[w]].read_buf[n]]
  BY RequestFound
<1>4. wreq'[w] = users[wfd[w]].read_buf[n] /\ \A v \in Workers : v # w => wreq'[v] = wreq[v]
  BY <1>3 DEF TypeOK, ServerTypes
<1>5. OwnRequests'
  BY <1>1, <1>4 DEF OwnRequests, In, kernel, traffic
<1> QED BY <1>2, <1>5

LEMMA ProcessWriteAnswers ==
  ASSUME AnswersInv, NEW w \in Workers, ProcessWrite(w)
  PROVE  OnePlace' /\ OwnRequests' /\ AnsweredWereRead' /\ HupIsKnown' /\ OwnAnswers'
<1> USE DEF AnswersInv, OwnerInv, ServerInv
<1>1. UNCHANGED << client, kernel, traffic, main, wfd >>
  BY DEF ProcessWrite
<1>2. OnePlace' /\ AnsweredWereRead' /\ HupIsKnown' /\ OwnAnswers'
  BY <1>1 DEF OnePlace, AnsweredWereRead, HupIsKnown, OwnAnswers, client, kernel, traffic, main
<1>3. /\ wfd[w] \in Fds /\ wreq[w] # None
      /\ \A g \in Fds : g # wfd[w] => users'[g] = users[g]
      /\ \A g \in Fds : users'[g].read_buf = users[g].read_buf
      /\ users'[wfd[w]].answer = wreq[w]
  BY AnswerReady, ConstantFacts
<1>4. \A v \in Workers : wreq'[v] \in {wreq[v], None}
  BY DEF ProcessWrite, TypeOK, ServerTypes
<1>5. OwnRequests'
  BY SMTT(30), <1>1, <1>3, <1>4 DEF OwnRequests, In, kernel, traffic
<1> QED BY <1>2, <1>5

LEMMA NextAnswers ==
  ASSUME "empty" \notin Kinds, AnswersInv, [Next]_vars
  PROVE  AnswersInv'
<1> DEFINE Goal == OnePlace' /\ OwnRequests' /\ AnsweredWereRead' /\ HupIsKnown' /\ OwnAnswers'
<1> SUFFICES Goal
  BY NextOwner DEF AnswersInv
<1>1. CASE EpollWait
  BY <1>1, EpollWaitAnswers
<1>2. CASE AcceptFails \/ AcceptBusy \/ AcceptInit
  BY <1>2, AcceptAnswers
<1>3. CASE MainCount
  BY <1>3, MainCountAnswers
<1>4. ASSUME NEW f \in Fds, CloseOnHup(f) \/ ReadCloses(f) \/ WriteFails(f) \/ WriteCloses(f)
      PROVE  Goal
  BY <1>4, ClosesAnswers
<1>5. ASSUME NEW f \in Fds, ReadAppends(f) PROVE Goal
  BY <1>5, ReadAppendsAnswers
<1>6. ASSUME NEW f \in Fds, WriteNothing(f) \/ WriteStalls(f) \/ WriteKeeps(f) PROVE Goal
  BY <1>6, WritesAnswers
<1>7. ASSUME NEW w \in Workers, WorkerStep(w) PROVE Goal
  <2>1. ~WorkerRemovefd(w) /\ ~WorkerForget(w) /\ ~WorkerLoad(w) /\ ~WorkerStore(w)
    BY DEF AnswersInv, OwnerInv, NoWorkerCloses, WorkerRemovefd, WorkerForget, WorkerLoad, WorkerStore, Goto
  <2> QED BY <1>7, <2>1, PassAnswers, RequestAnswers, ProcessWriteAnswers DEF WorkerStep
<1>8. ASSUME NEW c \in Clients, ClientStep(c) PROVE Goal
  BY <1>8, ClientAnswers
<1>9. CASE UNCHANGED vars
  <2>1. UNCHANGED << client, kernel, traffic, users, main, worker >>
    BY <1>9 DEF vars
  <2> QED BY <2>1, QuietAnswers, HupStays DEF AnswersInv, client, kernel, traffic, main, worker
<1> HIDE DEF Goal
<1> QED BY <1>1, <1>2, <1>3, <1>4, <1>5, <1>6, <1>7, <1>8, <1>9 DEF Next, MainStep

LEMMA AnswersAlways ==
  ASSUME "empty" \notin Kinds
  PROVE  Spec => []AnswersInv
<1>1. Init => AnswersInv
  BY InitAnswers
<1>2. AnswersInv /\ [Next]_vars => AnswersInv'
  BY NextAnswers
<1> QED BY <1>1, <1>2, PTL DEF Spec

\* Every answer goes to the client that asked, in the order of the requests, and
\* once: what keep-alive leaves in the buffers reaches nobody else.
THEOREM AnswersAreOwn ==
  ASSUME "empty" \notin Kinds
  PROVE  Spec => []OwnAnswers
<1>1. AnswersInv => OwnAnswers
  BY DEF AnswersInv
<1> QED BY <1>1, AnswersAlways, PTL

-----------------------------------------------------------------------------
(* Why a connection is closed.                                              *)

\* The one connection a step of the main thread closes is that of the entry it
\* handles.
LEMMA CauseOfClose ==
  ASSUME AnswersInv, NEW f \in Fds,
         CloseOnHup(f) \/ ReadCloses(f) \/ WriteFails(f) \/ WriteCloses(f)
  PROVE  /\ \A g \in Fds : g # f => conn'[g] = conn[g]
         /\ \/ conn[f] \in hup
            \/ answered'[conn[f]] # answered[conn[f]] /\ ~Token(users[f].answer).keep
            \/ Len(users[f].read_buf) + Len(Unread(conn[f])) >= ReadBufferSize
<1> USE DEF AnswersInv, OwnerInv, ServerInv
<1>1. PICK ev \in {"in", "out", "hup"} : Handle(f, ev)
  BY DEF CloseOnHup, ReadCloses, WriteFails, WriteCloses, Answer
<1>2. \A g \in Fds : g # f => conn'[g] = conn[g]
  BY CloseTypes DEF CloseOnHup, ReadCloses, WriteFails, WriteCloses
<1>3. events[f] = ev /\ Reported(f)
  BY <1>1, HandleEffect DEF Reported
<1>4. conn[f] # None /\ users[f].m_sockfd = f /\ Peer(f) = conn[f]
  <2>1. conn[f] # None /\ users[f].m_sockfd = f
    BY <1>3 DEF OneWay
  <2> QED BY <2>1, ConstantFacts DEF Peer
<1>5. CASE CloseOnHup(f)
  <2>1. events[f] = "hup"
    BY <1>5, HandleEffect DEF CloseOnHup
  <2> QED BY <1>2, <2>1 DEF HupIsKnown
<1>6. CASE ReadCloses(f)
  BY <1>2, <1>4, <1>6 DEF ReadCloses, ReadMayFail
<1>7. CASE WriteFails(f)
  BY <1>2, <1>4, <1>7 DEF WriteFails
<1>8. CASE WriteCloses(f)
  <2>1. Answer(f) /\ ~Token(users[f].answer).keep
    BY <1>8 DEF WriteCloses
  <2>2. PICK c \in Clients : c = conn[f]
    BY <2>1, AnswerOwn
  <2>3. answered[c] \in Seq(Refs) /\ users[f].answer \in Refs
    BY <2>1, AnswerOwn DEF TypeOK, KernelTypes
  <2>4. answered'[c] = Append(answered[c], users[f].answer)
    BY <2>1, <2>2, AnswerTypes
  <2>5. Len(answered'[c]) = Len(answered[c]) + 1 /\ Len(answered[c]) \in Nat
    BY <2>3, <2>4, AppendEntry
  <2>6. answered'[c] # answered[c]
    BY <2>5
  <2> QED BY <1>2, <2>1, <2>2, <2>6
<1> QED BY <1>5, <1>6, <1>7, <1>8

\* Nothing else closes a connection while no worker does.
LEMMA OnlyThoseClose ==
  ASSUME AnswersInv, [Next]_vars, NEW g \in Fds, conn[g] # None, conn'[g] # conn[g]
  PROVE  \E f \in Fds : CloseOnHup(f) \/ ReadCloses(f) \/ WriteFails(f) \/ WriteCloses(f)
<1> USE DEF AnswersInv, OwnerInv, ServerInv
<1>1. CASE EpollWait \/ AcceptFails \/ AcceptBusy \/ MainCount \/ UNCHANGED vars
  BY <1>1 DEF EpollWait, AcceptFails, AcceptBusy, MainCount, vars, kernel
<1>2. CASE AcceptInit
  BY <1>2 DEF AcceptInit, FreeFds, TypeOK, KernelTypes
<1>3. ASSUME NEW f \in Fds, ReadAppends(f) \/ WriteNothing(f) \/ WriteStalls(f) \/ WriteKeeps(f)
      PROVE  FALSE
  BY <1>3 DEF ReadAppends, WriteNothing, WriteStalls, WriteKeeps, kernel
<1>4. ASSUME NEW w \in Workers, WorkerStep(w) PROVE FALSE
  <2>1. ~WorkerRemovefd(w) /\ ~WorkerForget(w) /\ ~WorkerLoad(w) /\ ~WorkerStore(w)
    BY DEF NoWorkerCloses, WorkerRemovefd, WorkerForget, WorkerLoad, WorkerStore, Goto
  <2> QED BY <1>4, <2>1
       DEF WorkerStep, Take, ProcessReadIncomplete, ProcessReadRequest, ProcessWrite, Rearm, kernel
<1>5. ASSUME NEW c \in Clients, ClientStep(c) PROVE FALSE
  BY <1>5 DEF ClientStep, Connect, Send, HangUp, kernel
<1> QED BY <1>1, <1>2, <1>3, <1>4, <1>5 DEF Next, MainStep

\* A connection is closed because the client hung up, or had its last answer, or
\* overran the read buffer; never in the middle of a keep-alive conversation.
THEOREM ClosedForACause ==
  ASSUME "empty" \notin Kinds
  PROVE  Spec => ClosedForCause
<1> DEFINE Cause ==
      \A f \in Fds : conn[f] # None /\ conn'[f] # conn[f] =>
         LET c == conn[f] IN
         \/ c \in hup
         \/ answered'[c] # answered[c] /\ ~Token(users[f].answer).keep
         \/ Len(users[f].read_buf) + Len(Unread(c)) >= ReadBufferSize
         \/ \E i \in DOMAIN sent[c] : sent[c][i].kind = "empty"
<1>1. AnswersInv /\ [Next]_vars => [Cause]_vars
  <2>1. SUFFICES ASSUME AnswersInv, [Next]_vars, NEW g \in Fds, conn[g] # None, conn'[g] # conn[g]
                 PROVE  \/ conn[g] \in hup
                        \/ answered'[conn[g]] # answered[conn[g]] /\ ~Token(users[g].answer).keep
                        \/ Len(users[g].read_buf) + Len(Unread(conn[g])) >= ReadBufferSize
    OBVIOUS
  <2>2. PICK f \in Fds : CloseOnHup(f) \/ ReadCloses(f) \/ WriteFails(f) \/ WriteCloses(f)
    BY <2>1, OnlyThoseClose
  <2>3. g = f
    BY <2>1, <2>2, CauseOfClose
  <2> QED BY <2>1, <2>2, <2>3, CauseOfClose
<1>2. Spec => [][Cause]_vars
  <2> HIDE DEF Cause
  <2> QED BY <1>1, AnswersAlways, PTL DEF Spec
<1> QED BY <1>2 DEF ClosedForCause

-----------------------------------------------------------------------------
(* The count of users.                                                      *)

\* The workers that have closed a descriptor and not counted it yet.
Closing == {w \in Workers : wpc[w] \in {"forget", "load", "store"}}

LEMMA CountedSets ==
  ASSUME TypeOK
  PROVE  /\ IsFiniteSet(Open) /\ Cardinality(Open) \in Nat
         /\ IsFiniteSet(Closing) /\ Cardinality(Closing) \in Nat
<1>1. IsFiniteSet(Open) /\ IsFiniteSet(Closing)
  BY ConstantFacts, FS_Subset DEF Open, Closing
<1> QED BY <1>1, FS_CardinalityType

LEMMA OwedSum ==
  Owed = Cardinality(Open) - (IF mainPc = "inc" THEN 1 ELSE 0) + (IF mainPc = "dec" THEN 1 ELSE 0)
         + Cardinality(Closing)
BY DEF Owed, Closing

LEMMA OwedSumNext ==
  Owed' = Cardinality(Open') - (IF mainPc' = "inc" THEN 1 ELSE 0) + (IF mainPc' = "dec" THEN 1 ELSE 0)
          + Cardinality(Closing')
BY DEF Owed, Closing, Open

\* What touches neither side leaves the difference.
LEMMA CountStays ==
  ASSUME UNCHANGED << m_user_count, conn, mainPc >>, Closing' = Closing
  PROVE  m_user_count' - Owed' = m_user_count - Owed
<1>1. Open' = Open
  BY DEF Open
<1> QED BY <1>1, OwedSum, OwedSumNext

LEMMA AcceptCounts ==
  ASSUME ServerInv, AcceptInit
  PROVE  m_user_count' - Owed' = m_user_count - Owed
<1> USE DEF ServerInv
<1>1. mainPc = "loop" /\ mainPc' = "inc" /\ m_user_count' = m_user_count /\ Closing' = Closing
  BY DEF AcceptInit, Handle, Closing, worker
<1>2. backlog # <<>>
  BY HandleEffect DEF AcceptInit, Arrivals, TypeOK, KernelTypes
<1>3. Head(backlog) # None
  BY <1>2, TailEntry, ConstantFacts DEF TypeOK, KernelTypes
<1>4. PICK f \in FreeFds : conn' = [conn EXCEPT ![f] = Head(backlog)]
  BY DEF AcceptInit
<1>5. f \notin Open /\ Open' = Open \cup {f}
  BY <1>3, <1>4 DEF Open, FreeFds, TypeOK, KernelTypes
<1>6. Cardinality(Open') = Cardinality(Open) + 1
  BY <1>5, CountedSets, FS_AddElement
<1>7. m_user_count \in Int
  BY DEF TypeOK, ServerTypes
<1> QED BY <1>1, <1>6, <1>7, CountedSets, OwedSum, OwedSumNext

\* The other half of ++ or -- is right if nobody has stored in between.
LEMMA MainCounts ==
  ASSUME ServerInv, MainCount
  PROVE  \/ m_user_count' - Owed' = m_user_count - Owed
         \/ Storing(MainThread) /\ ~Storing(MainThread)' /\ load[MainThread] # m_user_count
<1> USE DEF ServerInv
<1>1. conn' = conn /\ Closing' = Closing /\ mainPc' = "loop"
  BY DEF MainCount, kernel, worker, Closing
<1>2. Open' = Open
  BY <1>1 DEF Open
<1>3. Storing(MainThread) /\ ~Storing(MainThread)'
  BY <1>1 DEF Storing, MainCount
<1>4. CASE load[MainThread] = m_user_count
  <2>1. m_user_count \in Int
    BY DEF TypeOK, ServerTypes
  <2>2. \/ mainPc = "inc" /\ m_user_count' = m_user_count + 1
        \/ mainPc = "dec" /\ m_user_count' = m_user_count - 1
    BY <1>4, <2>1 DEF MainCount
  <2> QED BY <1>1, <1>2, <2>1, <2>2, CountedSets, OwedSum, OwedSumNext
<1> QED BY <1>3, <1>4

\* A close in the main thread owes one less and has one more to count, unless
\* the connection was closed already.
LEMMA CloseCounts ==
  ASSUME ServerInv, NEW f \in Fds, mainPc = "loop", CloseConn(f), UNCHANGED << m_user_count, worker >>
  PROVE  m_user_count' - Owed' = m_user_count - Owed \/ ClosesAgain
<1> USE DEF ServerInv
<1>1. Closing' = Closing
  BY DEF Closing, worker
<1>2. CASE UNCHANGED << conn, mainPc >>
  BY <1>1, <1>2, CountStays
<1>3. CASE conn' = [conn EXCEPT ![f] = None] /\ mainPc' = "dec"
  <2>1. CASE conn[f] = None
    <3>1. conn' = conn
      BY <1>3, <2>1 DEF TypeOK, KernelTypes
    <3> QED BY <1>3, <3>1 DEF ClosesAgain
  <2>2. CASE conn[f] # None
    <3>1. f \in Open /\ Open' = Open \ {f}
      BY <1>3, <2>2 DEF Open, TypeOK, KernelTypes
    <3>2. Cardinality(Open') = Cardinality(Open) - 1
      BY <3>1, CountedSets, FS_RemoveElement
    <3>3. m_user_count \in Int
      BY DEF TypeOK, ServerTypes
    <3> QED BY <1>1, <1>3, <3>2, <3>3, CountedSets, OwedSum, OwedSumNext
  <2> QED BY <2>1, <2>2
<1> QED BY <1>2, <1>3, CloseEffect

LEMMA WorkerRemoveCounts ==
  ASSUME ServerInv, NEW w \in Workers, WorkerRemovefd(w)
  PROVE  m_user_count' - Owed' = m_user_count - Owed \/ ClosesAgain
<1> USE DEF ServerInv
<1>1. UNCHANGED << m_user_count, mainPc >> /\ wpc[w] = "close" /\ wpc \in [Workers -> WorkerPc]
  BY DEF WorkerRemovefd, main, count, TypeOK, ServerTypes
<1>2. CASE Goto(w, "close", "rearmOut") /\ UNCHANGED << conn, reg >>
  <2>1. Closing' = Closing
    BY <1>1, <1>2 DEF Closing, Goto
  <2> QED BY <1>1, <1>2, <2>1, CountStays
<1>3. CASE Goto(w, "close", "forget") /\ Removefd(users[wfd[w]].m_sockfd) /\ users[wfd[w]].m_sockfd # NoFd
  <2>1. PICK f \in Fds : f = wfd[w] /\ conn' = [conn EXCEPT ![f] = None]
    BY <1>1, <1>3, HeldObject DEF Removefd
  <2>2. wpc'[w] = "forget" /\ w \notin Closing /\ Closing' = Closing \cup {w}
    BY <1>1, <1>3 DEF Closing, Goto
  <2>3. CASE conn[f] = None
    <3>1. conn' = conn
      BY <2>1, <2>3 DEF TypeOK, KernelTypes
    <3> QED BY <1>1, <2>2, <3>1 DEF ClosesAgain
  <2>4. CASE conn[f] # None
    <3>1. f \in Open /\ Open' = Open \ {f}
      BY <2>1, <2>4 DEF Open, TypeOK, KernelTypes
    <3>2. Cardinality(Open') = Cardinality(Open) - 1
      BY <3>1, CountedSets, FS_RemoveElement
    <3>3. Cardinality(Closing') = Cardinality(Closing) + 1
      BY <2>2, CountedSets, FS_AddElement
    <3>4. m_user_count \in Int
      BY DEF TypeOK, ServerTypes
    <3> QED BY <1>1, <3>2, <3>3, <3>4, CountedSets, OwedSum, OwedSumNext
  <2> QED BY <2>3, <2>4
<1> QED BY <1>2, <1>3 DEF WorkerRemovefd

LEMMA WorkerStores ==
  ASSUME ServerInv, NEW w \in Workers, WorkerStore(w)
  PROVE  \/ m_user_count' - Owed' = m_user_count - Owed
         \/ Storing(w) /\ ~Storing(w)' /\ load[w] # m_user_count
<1> USE DEF ServerInv
<1>1. /\ UNCHANGED << conn, mainPc >> /\ m_user_count' = load[w] - 1
      /\ wpc[w] = "store" /\ wpc' = [wpc EXCEPT ![w] = "rearmOut"] /\ wpc \in [Workers -> WorkerPc]
  BY DEF WorkerStore, Goto, kernel, main, TypeOK, ServerTypes
<1>2. w # MainThread
  BY ConstantFacts DEF MainThread
<1>3. Storing(w) /\ ~Storing(w)'
  BY <1>1, <1>2 DEF Storing
<1>4. w \in Closing /\ Closing' = Closing \ {w}
  BY <1>1 DEF Closing
<1>5. Cardinality(Closing') = Cardinality(Closing) - 1
  BY <1>4, CountedSets, FS_RemoveElement
<1>6. Open' = Open
  BY <1>1 DEF Open
<1>7. CASE load[w] = m_user_count
  <2>1. m_user_count \in Int
    BY DEF TypeOK, ServerTypes
  <2> QED BY <1>1, <1>5, <1>6, <1>7, <2>1, CountedSets, OwedSum, OwedSumNext
<1> QED BY <1>3, <1>7

\* m_user_count goes wrong in one of two ways only: a thread stores over what
\* another has stored since it loaded, or two threads close one connection
\* (http_conn.cpp 57-59, 73).
THEOREM CountGoesWrongByRace == Spec => CountWrongByRaceOnly
<1> DEFINE Race == \/ \E t \in DOMAIN load : Storing(t) /\ ~Storing(t)' /\ load[t] # m_user_count
                   \/ ClosesAgain
           Right == m_user_count' - Owed' # m_user_count - Owed => Race
<1>1. ServerInv /\ [Next]_vars => [Right]_vars
  <2> SUFFICES ASSUME ServerInv, [Next]_vars PROVE m_user_count' - Owed' = m_user_count - Owed \/ Race
    OBVIOUS
  <2>1. DOMAIN load = Workers \cup {MainThread} /\ wpc \in [Workers -> WorkerPc]
    BY DEF ServerInv, TypeOK, ServerTypes
  <2>2. CASE UNCHANGED << m_user_count, conn, mainPc, wpc >>
    <3>1. Closing' = Closing
      BY <2>2 DEF Closing
    <3> QED BY <2>2, <3>1, CountStays
  <2>3. CASE EpollWait \/ AcceptFails \/ AcceptBusy \/ UNCHANGED vars
    BY <2>2, <2>3 DEF EpollWait, AcceptFails, AcceptBusy, vars, kernel, main, worker, count
  <2>4. CASE AcceptInit
    BY <2>4, AcceptCounts
  <2>5. CASE MainCount
    BY <2>1, <2>5, MainCounts
  <2>6. ASSUME NEW f \in Fds, CloseOnHup(f) \/ ReadCloses(f) \/ WriteFails(f) \/ WriteCloses(f)
        PROVE  m_user_count' - Owed' = m_user_count - Owed \/ Race
    BY <2>6, CloseCounts DEF CloseOnHup, ReadCloses, WriteFails, WriteCloses, Answer, Handle
  <2>7. ASSUME NEW f \in Fds, ReadAppends(f) \/ WriteNothing(f) \/ WriteStalls(f) \/ WriteKeeps(f)
        PROVE  m_user_count' - Owed' = m_user_count - Owed \/ Race
    BY <2>2, <2>7 DEF ReadAppends, WriteNothing, WriteStalls, WriteKeeps, kernel, worker, count
  <2>8. ASSUME NEW w \in Workers,
               \/ Take(w) \/ ProcessReadIncomplete(w) \/ ProcessReadRequest(w) \/ ProcessWrite(w)
               \/ Rearm(w) \/ WorkerForget(w) \/ WorkerLoad(w)
        PROVE  m_user_count' - Owed' = m_user_count - Owed \/ Race
    <3>1. UNCHANGED << m_user_count, conn, mainPc >>
      BY <2>8 DEF Take, ProcessReadIncomplete, ProcessReadRequest, ProcessWrite, Rearm, WorkerForget,
                  WorkerLoad, kernel, main, count
    <3>2. PICK to \in WorkerPc : wpc' = [wpc EXCEPT ![w] = to] /\ (wpc[w] \in {"forget", "load", "store"}
                                                     <=> to \in {"forget", "load", "store"})
      BY <2>8 DEF Take, ProcessReadIncomplete, ProcessReadRequest, ProcessWrite, Rearm, WorkerForget,
                  WorkerLoad, Goto, WorkerPc
    <3>3. Closing' = Closing
      BY <2>1, <3>2 DEF Closing
    <3> QED BY <3>1, <3>3, CountStays
  <2>9. ASSUME NEW w \in Workers, WorkerRemovefd(w)
        PROVE  m_user_count' - Owed' = m_user_count - Owed \/ Race
    BY <2>9, WorkerRemoveCounts
  <2>10. ASSUME NEW w \in Workers, WorkerStore(w)
         PROVE  m_user_count' - Owed' = m_user_count - Owed \/ Race
    BY <2>1, <2>10, WorkerStores
  <2>11. ASSUME NEW c \in Clients, ClientStep(c)
         PROVE  m_user_count' - Owed' = m_user_count - Owed \/ Race
    BY <2>2, <2>11 DEF ClientStep, Connect, Send, HangUp, kernel, main, worker, count
  <2> HIDE DEF Race
  <2> QED BY <2>3, <2>4, <2>5, <2>6, <2>7, <2>8, <2>9, <2>10, <2>11 DEF Next, MainStep, WorkerStep
<1>2. Spec => [][Right]_vars
  <2> HIDE DEF Right
  <2> QED BY <1>1, ServerTypeCorrect, PTL DEF Spec
<1> QED BY <1>2 DEF CountWrongByRaceOnly
=============================================================================
