-------------------------------- MODULE OneShot --------------------------------
(***************************************************************************)
(* The echo server of 9/9-4oneshot.cpp: every event of a connection starts *)
(* a thread, which reads until recv would block and then arms the one-shot *)
(* registration again.  The thread's argument is a local of the loop's     *)
(* body: what the thread reads there is whatever the loop has left by then.*)
(*                                                                         *)
(* epoll_wait fails on a signal only, and the program handles none.        *)
(***************************************************************************)
EXTENDS Naturals, Sequences, FiniteSets

CONSTANTS
  Clients, Fds,   \* the connections of a run, the descriptors the process may have for them
  MaxThreads,     \* what it may create: no thread is joined or detached, so none is ever given back
  MaxSaid,        \* bound: how many pieces a client sends
  listenfd, Garbage, None

Threads == 1 .. MaxThreads

FdsAssumption ==
  Fds \subseteq Nat /\ Fds # {} /\ {listenfd, Garbage, None} \cap Fds = {} /\ None \notin Clients

VARIABLES
  armed,               \* the connections whose one-shot registration is armed
  events,              \* what epoll_wait returned and the loop has not handled
  edge, backlog,       \* the listening socket, edge-triggered
  fds_for_new_worker,  \* the sockfd in the loop's local
  thread,              \* each thread: where it is, its sockfd, and the one it was created for
  conn,                \* the client behind a descriptor
  peer, unread, said,  \* the clients' ends
  abandoned,           \* connections whose thread could not be created
  overtaken            \* a thread read its argument when it was no longer its own

mainVars == << events, edge, fds_for_new_worker >>
peerVars == << peer, unread, said >>
vars == << mainVars, armed, backlog, thread, conn, peerVars, abandoned, overtaken >>

Init ==
  /\ armed = {} /\ events = {} /\ edge = FALSE /\ backlog = <<>>
  /\ fds_for_new_worker = Garbage
  /\ thread = [t \in Threads |-> [pc |-> "none", sockfd |-> None, meant |-> None]]
  /\ conn = [f \in Fds |-> None]
  /\ peer = [c \in Clients |-> "new"] /\ unread = [c \in Clients |-> 0] /\ said = unread
  /\ abandoned = {} /\ overtaken = FALSE

Open == {f \in Fds : conn[f] # None}

-----------------------------------------------------------------------------
(* The clients                                                              *)

Connect(c) ==
  /\ peer[c] = "new" /\ peer' = [peer EXCEPT ![c] = "open"]
  /\ backlog' = Append(backlog, c) /\ edge' = TRUE
  /\ UNCHANGED << events, fds_for_new_worker, armed, thread, conn, unread, said, abandoned, overtaken >>

Say(c) ==
  /\ peer[c] = "open" /\ said[c] < MaxSaid
  /\ said' = [said EXCEPT ![c] = @ + 1] /\ unread' = [unread EXCEPT ![c] = @ + 1]
  /\ UNCHANGED << mainVars, armed, backlog, thread, conn, peer, abandoned, overtaken >>

Leave(c) ==
  /\ peer[c] = "open"
  /\ \E how \in {"shut", "reset"} : peer' = [peer EXCEPT ![c] = how]
  /\ UNCHANGED << mainVars, armed, backlog, thread, conn, unread, said, abandoned, overtaken >>

-----------------------------------------------------------------------------
(* The loop of main                                                         *)

Readable(f) == unread[conn[f]] > 0 \/ peer[conn[f]] # "open"
Ready == {f \in armed : Readable(f)} \cup (IF edge THEN {listenfd} ELSE {})

EpollWait ==
  /\ events = {} /\ Ready # {}
  /\ events' = Ready /\ armed' = armed \ Ready /\ edge' = FALSE
  /\ UNCHANGED << fds_for_new_worker, backlog, thread, conn, peerVars, abandoned, overtaken >>

\* The locals of this branch may lie where those of the other one lay.
Listening ==
  /\ listenfd \in events /\ events' = events \ {listenfd}
  /\ fds_for_new_worker' \in {fds_for_new_worker, Garbage}

Accept ==
  /\ Listening
  /\ \E f \in Fds \ Open :
       /\ \A g \in Fds \ Open : f <= g
       /\ conn' = [conn EXCEPT ![f] = Head(backlog)] /\ armed' = armed \cup {f}
  /\ backlog' = Tail(backlog)
  /\ UNCHANGED << edge, thread, peerVars, abandoned, overtaken >>

\* No descriptor is left: addfd is given -1.
AcceptFails ==
  /\ Listening /\ Open = Fds
  /\ UNCHANGED << edge, armed, backlog, thread, conn, peerVars, abandoned, overtaken >>

NewWorker(f) == f \in events \ {listenfd} /\ events' = events \ {f} /\ fds_for_new_worker' = f

Create(f) ==
  /\ NewWorker(f)
  /\ \E t \in Threads :
       /\ thread[t].pc = "none" /\ \A u \in Threads : u < t => thread[u].pc # "none"
       /\ thread' = [thread EXCEPT ![t] = [pc |-> "start", sockfd |-> None, meant |-> f]]
  /\ UNCHANGED << edge, armed, backlog, conn, peerVars, abandoned, overtaken >>

\* Nobody looks at what pthread_create returns.
CreateFails(f) ==
  /\ NewWorker(f)
  /\ \A t \in Threads : thread[t].pc # "none"
  /\ abandoned' = abandoned \cup {f}
  /\ UNCHANGED << edge, armed, backlog, thread, conn, peerVars, overtaken >>

-----------------------------------------------------------------------------
(* A thread                                                                 *)

Goes(t, pc) == thread' = [thread EXCEPT ![t].pc = pc]

ReadArgument(t) ==
  /\ thread[t].pc = "start"
  /\ thread' = [thread EXCEPT ![t].pc = "recv", ![t].sockfd = fds_for_new_worker]
  /\ overtaken' = (overtaken \/ fds_for_new_worker # thread[t].meant)
  /\ UNCHANGED << mainVars, armed, backlog, conn, peerVars, abandoned >>

\* On a descriptor that is not open recv fails, again and again.
Receives(t) == thread[t].pc = "recv" /\ thread[t].sockfd \in Open
From(t) == conn[thread[t].sockfd]

Recv(t) ==
  /\ Receives(t) /\ unread[From(t)] > 0
  /\ unread' = [unread EXCEPT ![From(t)] = @ - 1]
  /\ UNCHANGED << mainVars, armed, backlog, thread, conn, peer, said, abandoned, overtaken >>

\* recv reports the reset, not as EAGAIN, and the loop goes on.
RecvFails(t) ==
  /\ Receives(t) /\ unread[From(t)] = 0 /\ peer[From(t)] = "reset"
  /\ peer' = [peer EXCEPT ![From(t)] = "shut"]
  /\ UNCHANGED << mainVars, armed, backlog, thread, conn, unread, said, abandoned, overtaken >>

RecvEnd(t) ==
  /\ Receives(t) /\ unread[From(t)] = 0 /\ peer[From(t)] = "shut"
  /\ conn' = [conn EXCEPT ![thread[t].sockfd] = None]
  /\ armed' = armed \ {thread[t].sockfd}
  /\ Goes(t, "done")
  /\ UNCHANGED << mainVars, backlog, peerVars, abandoned, overtaken >>

RecvAgain(t) ==
  /\ Receives(t) /\ unread[From(t)] = 0 /\ peer[From(t)] = "open"
  /\ Goes(t, "reset_oneshot")
  /\ UNCHANGED << mainVars, armed, backlog, conn, peerVars, abandoned, overtaken >>

\* Mutant: no break.
ResetOneshot_GoesOn(t) ==
  /\ thread[t].pc = "reset_oneshot"
  /\ armed' = armed \cup ({thread[t].sockfd} \cap Open)
  /\ Goes(t, "recv")
  /\ UNCHANGED << mainVars, backlog, conn, peerVars, abandoned, overtaken >>

ResetOneshot(t) ==
  /\ thread[t].pc = "reset_oneshot"
  /\ armed' = armed \cup ({thread[t].sockfd} \cap Open)
  /\ Goes(t, "done")
  /\ UNCHANGED << mainVars, backlog, conn, peerVars, abandoned, overtaken >>

-----------------------------------------------------------------------------
Worker(t) == ReadArgument(t) \/ Recv(t) \/ RecvFails(t) \/ RecvEnd(t) \/ RecvAgain(t) \/ ResetOneshot(t)

Next ==
  \/ EpollWait \/ Accept \/ AcceptFails
  \/ \E f \in Fds : Create(f) \/ CreateFails(f)
  \/ \E t \in Threads : Worker(t)
  \/ \E c \in Clients : Connect(c) \/ Say(c) \/ Leave(c)

Spec == Init /\ [][Next]_vars

-----------------------------------------------------------------------------
Of(t) == IF thread[t].pc = "start" THEN thread[t].meant ELSE thread[t].sockfd
At(f) == {t \in Threads : thread[t].pc \notin {"none", "done"} /\ Of(t) = f}
Keepers(f) == (({"armed"} \X (armed \cap {f})) \cup ({"event"} \X (events \cap {f}))) \cup ({"thread"} \X At(f))

\* As long as every thread reads its argument before the loop has gone on to
\* write another there, an open connection has one keeper, its armed registration,
\* an event or a thread (lines 36-39, 70-75), or none at all when its thread could
\* not be created (142); and a closed one has none, so no thread meets the next
\* connection on its descriptor.
OneKeeper ==
  ~ overtaken =>
    \A f \in Fds : Cardinality(Keepers(f)) = IF f \in Open \ abandoned THEN 1 ELSE 0
=============================================================================
