------------------------------ MODULE EchoServers ------------------------------
(***************************************************************************)
(* Four loops of chapter 9 on one thread: lt and et of 9/9-3mtlt.cpp       *)
(* (which print what they read; main runs lt, et is its alternative) and   *)
(* the TCP and UDP echo servers 9/9.8multi_port.cpp and 9/mymulti_port.cpp. *)
(*                                                                         *)
(* The clients act between any two calls of the server.  What a buffer     *)
(* holds is the set of those who wrote the bytes.                          *)
(***************************************************************************)
EXTENDS Naturals, Sequences, FiniteSets

CONSTANTS
  Clients, Fds,      \* the connections of a run, the descriptors the process may have for them
  MAX_CONNECTION,    \* of mymulti_port
  MaxSaid,           \* bound: how many pieces a client sends
  Sizes,             \* of a piece: "part" of the buffer, or "full"
  listenfd, udpfd, Udp, Beyond, None   \* Udp: who sends datagrams; Beyond: the memory behind a buffer

FdsAssumption ==
  /\ IsFiniteSet(Fds) /\ Fds \subseteq Nat /\ Fds # {} /\ Sizes \subseteq {"part", "full"}
  /\ listenfd # udpfd /\ {listenfd, udpfd} \cap Fds = {} /\ None \notin Clients

VARIABLES
  server,            \* "lt", "et", "multi_port", "mymulti_port"
  pc,                \* "wait", "recv", "send", "killed"
  sockfd,            \* the connection being read
  events, failed,    \* what epoll_wait returned and is not handled yet; with EPOLLERR
  edges,             \* edge-triggered descriptors with an edge not reported yet
  buff, filled,      \* whose bytes it holds, and whether recv filled it
  n_connect,
  conn, backlog, datagram,      \* the kernel's side: connections, and at most one datagram
  peer, unread, said,           \* the clients' ends
  got,               \* whose bytes each client was sent back
  merged             \* edges of the listening socket without an accept of their own

loopVars == << server, sockfd, events, failed >>
bufVars == << buff, filled >>
peerVars == << peer, unread, said >>
vars == << loopVars, pc, edges, bufVars, n_connect, conn, backlog, datagram, peerVars, got, merged >>

Echoes == server \in {"multi_port", "mymulti_port"}
Et(f) == server = "et" \/ (server = "lt" /\ f = listenfd)

Init ==
  /\ server \in {"lt", "et", "multi_port", "mymulti_port"}
  /\ pc = "wait" /\ sockfd = None /\ events = {} /\ failed = {} /\ edges = {}
  /\ buff = {} /\ filled = FALSE /\ n_connect = 0
  /\ conn = [f \in Fds |-> None] /\ backlog = <<>> /\ datagram = "none"
  /\ peer = [c \in Clients |-> "new"] /\ unread = [c \in Clients |-> <<>>]
  /\ said = [c \in Clients |-> 0] /\ got = [c \in Clients \cup {Udp} |-> {}]
  /\ merged = 0

Open == {f \in Fds : conn[f] # None}

-----------------------------------------------------------------------------
(* The clients.  A reset leaves an error on the socket until it is fetched; *)
(* then the peer is "dead".                                                 *)

Edge(c) == edges' = edges \cup {f \in Fds : conn[f] = c /\ Et(f)}

Connect(c) ==
  /\ peer[c] = "new" /\ peer' = [peer EXCEPT ![c] = "open"]
  /\ backlog' = Append(backlog, c)
  /\ edges' = IF Et(listenfd) THEN edges \cup {listenfd} ELSE edges
  /\ merged' = IF listenfd \in edges THEN merged + 1 ELSE merged
  /\ UNCHANGED << loopVars, pc, bufVars, n_connect, conn, datagram, unread, said, got >>

Say(c) ==
  /\ peer[c] = "open" /\ said[c] < MaxSaid
  /\ \E size \in Sizes :
       /\ size = "full" => server = "mymulti_port"    \* nowhere else does it matter
       /\ unread' = [unread EXCEPT ![c] = Append(@, size)]
  /\ said' = [said EXCEPT ![c] = @ + 1] /\ Edge(c)
  /\ UNCHANGED << loopVars, pc, bufVars, n_connect, conn, backlog, datagram, peer, got, merged >>

Leave(c) ==
  /\ peer[c] = "open"
  /\ \E how \in {"shut", "reset"} : peer' = [peer EXCEPT ![c] = how]
  /\ Edge(c)
  /\ UNCHANGED << loopVars, pc, bufVars, n_connect, conn, backlog, datagram, unread, said, got, merged >>

SendDatagram ==
  /\ Echoes /\ datagram = "none" /\ datagram' \in {"text", "empty"}
  /\ UNCHANGED << loopVars, pc, edges, bufVars, n_connect, conn, backlog, peerVars, got, merged >>

-----------------------------------------------------------------------------
(* epoll_wait, and the listening socket                                     *)

Readable(f) ==
  IF f = listenfd THEN backlog # <<>>
  ELSE IF f = udpfd THEN datagram # "none"
  ELSE f \in Open /\ (unread[conn[f]] # <<>> \/ peer[conn[f]] # "open")
Ready == {f \in Fds \cup {listenfd, udpfd} : IF Et(f) THEN f \in edges ELSE Readable(f)}

EpollWait ==
  /\ pc = "wait" /\ events = {} /\ Ready # {}
  /\ events' = Ready /\ edges' = edges \ Ready
  /\ failed' = {f \in Open : peer[conn[f]] = "reset"}
  /\ UNCHANGED << server, sockfd, pc, bufVars, n_connect, conn, backlog, datagram, peerVars, got, merged >>

Event(f) == pc = "wait" /\ f \in events /\ UNCHANGED << server, failed >>
Handled(f) == events' = events \ {f} /\ UNCHANGED sockfd
Emptied == buff' = {} /\ filled' = FALSE

\* A new registration reports what has come before it.
Accept ==
  /\ Event(listenfd) /\ Handled(listenfd)
  /\ server = "mymulti_port" => n_connect < MAX_CONNECTION
  /\ \E f \in Fds \ Open :
       /\ \A g \in Fds \ Open : f <= g
       /\ conn' = [conn EXCEPT ![f] = Head(backlog)]
       /\ edges' = IF Et(f) /\ (unread[Head(backlog)] # <<>> \/ peer[Head(backlog)] # "open")
                   THEN edges \cup {f} ELSE edges
  /\ backlog' = Tail(backlog)
  /\ n_connect' = IF server = "mymulti_port" THEN n_connect + 1 ELSE n_connect
  /\ UNCHANGED << pc, bufVars, datagram, peerVars, got, merged >>

Refuse ==
  /\ Event(listenfd) /\ Handled(listenfd)
  /\ server = "mymulti_port" /\ n_connect >= MAX_CONNECTION /\ Open # Fds
  /\ peer' = [peer EXCEPT ![Head(backlog)] = "gone"] /\ backlog' = Tail(backlog)
  /\ UNCHANGED << pc, edges, bufVars, n_connect, conn, datagram, unread, said, got, merged >>

\* No descriptor is left.  addfd is given -1; mymulti_port leaves the round.
AcceptFails ==
  /\ Event(listenfd) /\ Open = Fds
  /\ events' = IF server = "mymulti_port" THEN {} ELSE events \ {listenfd}
  /\ merged' = IF Et(listenfd) THEN merged + 1 ELSE merged
  /\ UNCHANGED << sockfd, pc, edges, bufVars, n_connect, conn, backlog, datagram, peerVars, got >>

-----------------------------------------------------------------------------
(* UDP: the whole buffer goes back, used or not                             *)

RecvFrom ==
  /\ Event(udpfd) /\ Handled(udpfd)
  /\ datagram' = "none"
  /\ got' = [got EXCEPT ![Udp] = IF datagram = "text" THEN @ \cup buff \cup {Udp} ELSE @]
  /\ Emptied
  /\ UNCHANGED << pc, edges, n_connect, conn, backlog, peerVars, merged >>

-----------------------------------------------------------------------------
(* TCP                                                                      *)

Close(f) == conn' = [conn EXCEPT ![f] = None] /\ edges' = edges \ {f}
Counted == n_connect' = IF server = "mymulti_port" THEN n_connect - 1 ELSE n_connect
Done == pc' = "wait"

\* mymulti_port closes on EPOLLERR; the others look at EPOLLIN, which is there too.
Failed(f) ==
  /\ Event(f) /\ Handled(f) /\ server = "mymulti_port" /\ f \in failed
  /\ Close(f) /\ Counted
  /\ UNCHANGED << pc, bufVars, backlog, datagram, peerVars, got, merged >>

Input(f) ==
  /\ Event(f) /\ f \in Fds /\ ~ (server = "mymulti_port" /\ f \in failed)
  /\ events' = events \ {f} /\ sockfd' = f /\ pc' = "recv"
  /\ UNCHANGED << edges, bufVars, n_connect, conn, backlog, datagram, peerVars, got, merged >>

Me == conn[sockfd]
Recving == pc = "recv" /\ UNCHANGED << loopVars, backlog, datagram, said, got, merged >>

\* A memset comes before each recv, except in mymulti_port, where one comes after.
Filled ==
  IF server = "mymulti_port" THEN buff \cup {Me} ELSE IF server = "multi_port" THEN {Me} ELSE {}

\* Mutant: et reads once per event.
Recv_Once ==
  /\ Recving /\ unread[Me] # <<>>
  /\ unread' = [unread EXCEPT ![Me] = Tail(@)]
  /\ buff' = Filled
  /\ filled' = (Head(unread[Me]) = "full")
  /\ pc' = IF Echoes THEN "send" ELSE "wait"
  /\ UNCHANGED << edges, n_connect, conn, peer >>

Recv ==
  /\ Recving /\ unread[Me] # <<>>
  /\ unread' = [unread EXCEPT ![Me] = Tail(@)]
  /\ buff' = Filled
  /\ filled' = (Head(unread[Me]) = "full")
  /\ pc' = IF Echoes THEN "send" ELSE IF server = "et" THEN "recv" ELSE "wait"
  /\ UNCHANGED << edges, n_connect, conn, peer >>

\* et and multi_port leave their inner loop on EAGAIN.
RecvAgain ==
  /\ Recving /\ unread[Me] = <<>> /\ peer[Me] = "open" /\ server \in {"et", "multi_port"}
  /\ Done /\ Emptied
  /\ UNCHANGED << edges, n_connect, conn, peer, unread >>

\* In et and multi_port recv and close are called once more, on a closed descriptor.
RecvEnd ==
  /\ Recving /\ unread[Me] = <<>> /\ peer[Me] \in {"shut", "dead"}
  /\ Close(sockfd) /\ Counted /\ Done /\ Emptied
  /\ UNCHANGED << peer, unread >>

\* The error of a reset; mymulti_port leaves the socket as it is.
RecvFails ==
  /\ Recving /\ unread[Me] = <<>> /\ peer[Me] = "reset"
  /\ peer' = [peer EXCEPT ![Me] = "dead"]
  /\ IF server = "mymulti_port" THEN UNCHANGED << conn, edges >> ELSE Close(sockfd)
  /\ Done /\ Emptied
  /\ UNCHANGED << n_connect, unread >>

Sending == pc = "send" /\ UNCHANGED << loopVars, edges, n_connect, conn, backlog, datagram, unread, said, merged >>

\* Mutant: no memset at the end.
Sent_NoMemset ==
  /\ pc' = IF server = "multi_port" THEN "recv" ELSE "wait"
  /\ UNCHANGED bufVars

Sent ==
  /\ pc' = IF server = "multi_port" THEN "recv" ELSE "wait"
  /\ IF server = "multi_port" THEN UNCHANGED bufVars ELSE Emptied

\* multi_port sends what recv has returned; mymulti_port sends up to the first 0,
\* which is not in a buffer that recv has filled.  A peer that has closed may
\* answer with a reset.
Send ==
  /\ Sending /\ peer[Me] \in {"open", "shut"}
  /\ \E over \in IF server = "mymulti_port" /\ filled THEN {{}, {Beyond}} ELSE {{}} :
       got' = [got EXCEPT ![Me] = @ \cup buff \cup over]
  /\ peer' \in {peer} \cup (IF peer[Me] = "shut" THEN {[peer EXCEPT ![Me] = "dead"]} ELSE {})
  /\ Sent

SendFails ==
  /\ Sending /\ peer[Me] = "reset"
  /\ peer' = [peer EXCEPT ![Me] = "dead"]
  /\ Sent /\ UNCHANGED got

\* SIGPIPE, which neither server ignores.
SendKills ==
  /\ Sending /\ peer[Me] = "dead"
  /\ pc' = "killed"
  /\ UNCHANGED << bufVars, peer, got >>

-----------------------------------------------------------------------------
Next ==
  \/ EpollWait \/ Accept \/ Refuse \/ AcceptFails \/ RecvFrom
  \/ \E f \in Fds : Failed(f) \/ Input(f)
  \/ Recv \/ RecvAgain \/ RecvEnd \/ RecvFails \/ Send \/ SendFails \/ SendKills
  \/ SendDatagram \/ \E c \in Clients : Connect(c) \/ Say(c) \/ Leave(c)

Spec == Init /\ [][Next]_vars

-----------------------------------------------------------------------------
\* A loop that waits has nothing left to do: no input unread (et reads until
\* EAGAIN, lines 87-109), no hang-up unnoticed, mymulti_port's count is the number
\* of its connections (103, 137, 154), and the backlog is empty; the edge-triggered
\* listening socket of 9-3mtlt (147) strands as many connections as had no accept
\* of their own, having come in one edge or met the limit of descriptors.
WaitsWithNothingLeft ==
  pc = "wait" /\ events = {} /\ Ready = {} =>
    /\ \A f \in Open : unread[conn[f]] = <<>> /\ peer[conn[f]] = "open"
    /\ server = "mymulti_port" => n_connect = Cardinality(Open)
    /\ Len(backlog) <= IF Et(listenfd) THEN merged ELSE 0

\* Nobody is sent what others said, though mymulti_port has one buffer for all
\* connections and for UDP (117-125, 142-161), only, perhaps, what lies behind that
\* buffer, if it has filled it (145).
EchoIsOwn == \A c \in DOMAIN got : got[c] \subseteq {c, Beyond}
=============================================================================
