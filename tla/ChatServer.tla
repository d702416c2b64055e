------------------------------ MODULE ChatServer ------------------------------
(***************************************************************************)
(* The chat room of 9/9.7smalltalk_server.cpp: one thread, one poll loop.  *)
(* What a client says is read into users[fd].buf, and every other client   *)
(* gets a POINTER to that buffer, users[g].write_buf, to send from when its *)
(* socket is next writable.  A client that leaves is replaced in the       *)
(* pollfd table by the last one.                                           *)
(*                                                                         *)
(* The kernel's side (sockets, backlog, descriptors) and the clients run   *)
(* between any two iterations of the loop.                                 *)
(***************************************************************************)
EXTENDS Naturals, Sequences, FiniteSets

CONSTANTS
  Clients,      \* the connections of a run, each made once
  Leavers,      \* those that may close or reset their end
  SlowReaders,  \* those whose socket is not always writable
  USER_LIMIT,   \* the size of the room
  MaxSaid,      \* bound: how many messages a client sends
  MayFail,      \* whether poll and accept may fail
  Junk,         \* what memory holds that nobody has written
  Blank,        \* an empty buffer, after memset
  NULL,         \* the null pointer
  None          \* no client, no descriptor

ASSUME ClientsAssumption ==
  /\ IsFiniteSet(Clients) /\ Leavers \subseteq Clients
  /\ SlowReaders \subseteq Clients /\ None \notin Clients
ASSUME LimitsAssumption ==
  /\ USER_LIMIT \in Nat \ {0} /\ MaxSaid \in Nat /\ MayFail \in BOOLEAN

\* Descriptor 0 stands for listenfd; at most one connection more than the
\* room holds is open at a time.
listenfd == 0
Fds == 1..(USER_LIMIT + 1)

Messages == Clients \X (1..MaxSaid)

\* What nobody has said is no message, and the null pointer points nowhere.
ASSUME MemoryAssumption ==
  /\ Junk \notin Messages \cup Fds /\ Blank \notin Messages \cup {Junk}
  /\ NULL \notin Fds

AllEvents == {"IN", "OUT", "RDHUP", "ERR"}

VARIABLES
  fds,           \* the pollfd table, entries 0..USER_LIMIT
  users,         \* client_data by descriptor; write_buf points to users[f].buf
  user_counter,
  i,             \* the loop index
  pc,            \* "poll", "loop", "stopped"
  conn,          \* the client behind each open descriptor, or None
  backlog,       \* connections not accepted yet
  end,           \* each client's end: "new", "open", "shut", "reset", "gone"
  inbox,         \* sent by the client and not read by the server
  said,          \* how many messages each client has sent
  received,      \* what each client has been sent, in order
  examined       \* descriptors this round of the loop has looked at

serverVars == << fds, users, user_counter, i, pc, conn, examined >>
kernelVars == << backlog, end, inbox, said, received >>
vars == << serverVars, kernelVars >>

Entry(fd, ev) == [fd |-> fd, events |-> ev, revents |-> {}]
Free == Entry(None, {})

Init ==
  /\ fds = [k \in 0..USER_LIMIT |-> IF k = 0 THEN Entry(listenfd, {"IN", "ERR"}) ELSE Free]
  /\ users = [f \in Fds |-> [write_buf |-> Junk, buf |-> Junk]]
  /\ user_counter = 0
  /\ i = 0
  /\ pc = "poll"
  /\ conn = [f \in Fds |-> None]
  /\ examined = {}
  /\ backlog = <<>>
  /\ end = [c \in Clients |-> "new"]
  /\ inbox = [c \in Clients |-> <<>>]
  /\ said = [c \in Clients |-> 0]
  /\ received = [c \in Clients |-> <<>>]

-----------------------------------------------------------------------------
(* The clients.                                                             *)

Connect(c) ==
  /\ end[c] = "new"
  /\ end' = [end EXCEPT ![c] = "open"]
  /\ backlog' = Append(backlog, c)
  /\ UNCHANGED << serverVars, inbox, said, received >>

Say(c) ==
  /\ end[c] = "open"
  /\ said[c] < MaxSaid
  /\ said' = [said EXCEPT ![c] = @ + 1]
  /\ inbox' = [inbox EXCEPT ![c] = Append(@, << c, said[c] + 1 >>)]
  /\ UNCHANGED << serverVars, backlog, end, received >>

\* The client closes its end (a FIN), or resets the connection (an RST, which
\* leaves an error on the server's socket until somebody fetches it).
Leave(c) ==
  /\ c \in Leavers
  /\ end[c] = "open"
  /\ \E how \in {"shut", "reset"} : end' = [end EXCEPT ![c] = how]
  /\ UNCHANGED << serverVars, backlog, inbox, said, received >>

-----------------------------------------------------------------------------
(* poll                                                                     *)

\* What the kernel reports for client c, of the events asked for; an error is
\* reported always.  A reset whose error has been fetched looks like a close.
Reported(c, asked, writable) ==
  (IF end[c] = "reset" THEN {"ERR"} ELSE {})
  \cup (asked \cap ((IF inbox[c] # <<>> \/ end[c] # "open" THEN {"IN"} ELSE {})
                    \cup (IF end[c] # "open" THEN {"RDHUP"} ELSE {})
                    \cup (IF c \in writable THEN {"OUT"} ELSE {})))

Poll ==
  /\ pc = "poll"
  /\ \E stalled \in SUBSET SlowReaders :
       LET revents(k) ==
             IF k = 0 THEN IF backlog # <<>> THEN {"IN"} ELSE {}
             ELSE Reported(conn[fds[k].fd], fds[k].events, Clients \ stalled)
       IN  /\ \E k \in 0..user_counter : revents(k) # {}
           /\ fds' = [k \in 0..USER_LIMIT |->
                        IF k <= user_counter THEN [fds[k] EXCEPT !.revents = revents(k)]
                        ELSE fds[k]]
  /\ i' = 0
  /\ pc' = "loop"
  /\ examined' = {}
  /\ UNCHANGED << users, user_counter, conn, kernelVars >>

PollFails ==
  /\ MayFail /\ pc = "poll"
  /\ pc' = "stopped"
  /\ UNCHANGED << fds, users, user_counter, i, conn, examined, kernelVars >>

\* The loop goes on to the next entry; a test at the top of each iteration.
Looking == pc = "loop" /\ i <= user_counter
Next_i == i' = i + 1 /\ examined' = examined \cup {fds[i].fd}

EndOfRound ==
  /\ pc = "loop" /\ i > user_counter
  /\ pc' = "poll"
  /\ UNCHANGED << fds, users, user_counter, i, conn, examined, kernelVars >>

-----------------------------------------------------------------------------
(* The listening socket                                                     *)

Listening == Looking /\ fds[i].fd = listenfd /\ "IN" \in fds[i].revents
LowestFree == CHOOSE f \in Fds : conn[f] = None /\ \A g \in Fds : conn[g] = None => f <= g

AcceptFails ==
  /\ MayFail /\ Listening
  /\ Next_i
  /\ UNCHANGED << fds, users, user_counter, pc, conn, kernelVars >>

\* The room is full: the connection is told so and closed at once.
AcceptRefuse ==
  /\ Listening
  /\ user_counter >= USER_LIMIT
  /\ end' = [end EXCEPT ![Head(backlog)] = "gone"]
  /\ backlog' = Tail(backlog)
  /\ Next_i
  /\ UNCHANGED << fds, users, user_counter, pc, conn, inbox, said, received >>

Accept_With(events) ==
  /\ Listening
  /\ user_counter < USER_LIMIT
  /\ LET connfd == LowestFree
     IN  /\ conn' = [conn EXCEPT ![connfd] = Head(backlog)]
         /\ fds' = [fds EXCEPT ![user_counter + 1] = Entry(connfd, events)]
  /\ backlog' = Tail(backlog)
  /\ user_counter' = user_counter + 1
  /\ Next_i
  /\ UNCHANGED << users, pc, end, inbox, said, received >>

\* Mutants: a new client is watched for output, or not for a hang-up.
Accept_WatchesOutput == Accept_With(AllEvents)
Accept_NoHangUp == Accept_With({"IN", "ERR"})

\* users[connfd] keeps whatever the descriptor's last owner left in it.
Accept ==
  /\ Listening
  /\ user_counter < USER_LIMIT
  /\ LET connfd == LowestFree
     IN  /\ conn' = [conn EXCEPT ![connfd] = Head(backlog)]
         /\ fds' = [fds EXCEPT ![user_counter + 1] = Entry(connfd, {"IN", "RDHUP", "ERR"})]
  /\ backlog' = Tail(backlog)
  /\ user_counter' = user_counter + 1
  /\ Next_i
  /\ UNCHANGED << users, pc, end, inbox, said, received >>

-----------------------------------------------------------------------------
(* A client's socket                                                        *)

Me == conn[fds[i].fd]
Serving(event) == Looking /\ fds[i].fd # listenfd /\ event \in fds[i].revents

\* getsockopt(SO_ERROR) fetches the error and clears it.
Error ==
  /\ Serving("ERR")
  /\ end' = [end EXCEPT ![Me] = IF @ = "reset" THEN "shut" ELSE @]
  /\ Next_i
  /\ UNCHANGED << fds, users, user_counter, pc, conn, backlog, inbox, said, received >>

Remove_With(u, table, next) ==
  LET left == fds[i].fd
      last == fds[user_counter].fd
  IN  /\ users' = [u EXCEPT ![left] = u[last]]
      /\ conn' = [conn EXCEPT ![left] = None]
      /\ fds' = table
      /\ i' = next
      /\ examined' = examined \cup {left}
      /\ user_counter' = user_counter - 1
      /\ end' = [end EXCEPT ![Me] = "gone"]

\* Mutants: the last entry is not moved; i-- is forgotten.
Remove_NoMove(u) == Remove_With(u, fds, i)
Remove_NoStepBack(u) == Remove_With(u, [fds EXCEPT ![i] = fds[user_counter]], i + 1)

\* Lines 139-143 and 157-161: close, copy the last client's record over the
\* record of the one that left, move the last entry here and look at it next.
\* u is the table of records at that point.
Remove(u) ==
  LET left == fds[i].fd
      last == fds[user_counter].fd
  IN  /\ users' = [u EXCEPT ![left] = u[last]]
      /\ conn' = [conn EXCEPT ![left] = None]
      /\ fds' = [fds EXCEPT ![i] = fds[user_counter]]
      /\ i' = i
      /\ examined' = examined \cup {left}
      /\ user_counter' = user_counter - 1
      /\ end' = [end EXCEPT ![Me] = "gone"]

HangUp ==
  /\ Serving("RDHUP") /\ "ERR" \notin fds[i].revents
  /\ Remove(users)
  /\ UNCHANGED << pc, backlog, inbox, said, received >>

Reading == Serving("IN") /\ fds[i].revents \cap {"ERR", "RDHUP"} = {}
Cleared == [users EXCEPT ![fds[i].fd].buf = Blank]

\* recv meets a reset that came after poll had answered.
RecvFails ==
  /\ Reading
  /\ end[Me] = "reset"
  /\ Remove(Cleared)
  /\ UNCHANGED << pc, backlog, inbox, said, received >>

\* recv returns the oldest message; every other client in the room is to be
\* written to, from this buffer.  Line 179 means to stop listening to POLLIN,
\* but |= ~POLLIN sets every other event and clears none.  With no message
\* left recv returns 0 and only the memset has happened.
Recv ==
  /\ Reading
  /\ LET connfd == fds[i].fd
         others == IF inbox[Me] = <<>> THEN {}
                   ELSE {k \in 1..user_counter : fds[k].fd # connfd}
         otherFds == {fds[k].fd : k \in others}
     IN  /\ users' = [f \in Fds |->
                        IF f \in otherFds THEN [users[f] EXCEPT !.write_buf = connfd]
                        ELSE IF f = connfd /\ inbox[Me] # <<>>
                        THEN [users[f] EXCEPT !.buf = Head(inbox[Me])]
                        ELSE Cleared[f]]
         /\ fds' = [k \in 0..USER_LIMIT |->
                      IF k \in others
                      THEN [fds[k] EXCEPT !.events = @ \cup (AllEvents \ {"IN"}) \cup {"OUT"}]
                      ELSE fds[k]]
  /\ inbox' = [inbox EXCEPT ![Me] = IF @ = <<>> THEN @ ELSE Tail(@)]
  /\ Next_i
  /\ UNCHANGED << user_counter, pc, conn, backlog, end, said, received >>

Writing == Serving("OUT") /\ fds[i].revents \cap {"ERR", "RDHUP", "IN"} = {}

NothingToWrite ==
  /\ Writing
  /\ users[fds[i].fd].write_buf = NULL
  /\ Next_i
  /\ UNCHANGED << fds, users, user_counter, pc, conn, kernelVars >>

\* Mutant: write_buf is not reset.
Send_KeepsPointer ==
  /\ Writing
  /\ users[fds[i].fd].write_buf # NULL
  /\ LET from == users[fds[i].fd].write_buf
         what == IF from \in Fds THEN users[from].buf ELSE Junk
     IN  received' = IF end[Me] = "open" /\ what # Blank /\ Len(received[Me]) < 4
                     THEN [received EXCEPT ![Me] = Append(@, what)] ELSE received
  /\ fds' = [fds EXCEPT ![i].events = @ \cup (AllEvents \ {"OUT"}) \cup {"IN"}]
  /\ Next_i
  /\ UNCHANGED << users, user_counter, pc, conn, backlog, end, inbox, said >>

\* What send sends is whatever the buffer holds now (nothing after a memset);
\* a peer that has gone gets nothing, and nobody looks at send's result.
\* Line 195 means to stop listening to POLLOUT, and clears nothing either.
Send ==
  /\ Writing
  /\ users[fds[i].fd].write_buf # NULL
  /\ LET connfd == fds[i].fd
         from == users[connfd].write_buf
         what == IF from \in Fds THEN users[from].buf ELSE Junk
     IN  /\ received' = IF end[Me] = "open" /\ what # Blank
                        THEN [received EXCEPT ![Me] = Append(@, what)] ELSE received
         /\ users' = [users EXCEPT ![connfd].write_buf = NULL]
  /\ fds' = [fds EXCEPT ![i].events = @ \cup (AllEvents \ {"OUT"}) \cup {"IN"}]
  /\ Next_i
  /\ UNCHANGED << user_counter, pc, conn, backlog, end, inbox, said >>

\* None of the branches: no event for this entry.
Nothing ==
  /\ Looking
  /\ IF i = 0 THEN "IN" \notin fds[i].revents ELSE fds[i].revents = {}
  /\ Next_i
  /\ UNCHANGED << fds, users, user_counter, pc, conn, kernelVars >>

-----------------------------------------------------------------------------
ServerStep ==
  \/ Poll \/ PollFails \/ EndOfRound
  \/ AcceptFails \/ AcceptRefuse \/ Accept
  \/ Error \/ HangUp \/ RecvFails \/ Recv
  \/ NothingToWrite \/ Send \/ Nothing

ClientStep == \E c \in Clients : Connect(c) \/ Say(c) \/ Leave(c)

Next == ServerStep \/ ClientStep

Spec == Init /\ [][Next]_vars

\* The loop runs as long as poll has something to report; the clients owe
\* nobody anything.
FairSpec == Spec /\ WF_vars(ServerStep)

-----------------------------------------------------------------------------
Seated == 1..user_counter

\* The table of the first user_counter entries holds every open descriptor
\* exactly once: swapping with the last entry neither leaks a descriptor nor
\* leaves a closed one to be polled.
TableIsRoom ==
  /\ {fds[k].fd : k \in Seated} = {f \in Fds : conn[f] # None}
  /\ \A k, l \in Seated : k # l => fds[k].fd # fds[l].fd

\* One round of the loop looks once at every entry poll reported, although
\* entries move under the index (the i-- of lines 142 and 160).
EachEntryOnce ==
  /\ Looking => fds[i].fd \notin examined
  /\ pc = "loop" /\ i > user_counter =>
       \A k \in Seated : fds[k].revents # {} => fds[k].fd \in examined

\* Accept does not reset users[connfd]: whoever is watched for POLLOUT still
\* has had its write_buf set since it joined, so no stray pointer is sent from.
WriteBufIsSet ==
  \A k \in Seated : "OUT" \in fds[k].events =>
     users[fds[k].fd].write_buf \in Fds \cup {NULL}

\* Comment of lines 22-25: what is written to a client was read from another
\* client, so nobody is sent a message of its own.
NotOwnWords ==
  \A c \in Clients : \A n \in 1..Len(received[c]) :
     received[c][n] \notin {<< c, k >> : k \in 1..MaxSaid}

\* While nobody leaves, a client gets the messages of others only, those of each
\* in order and none twice, though it may miss some: a buffer is read from when
\* the reader is writable, and may have been overwritten by then.
OthersInOrder ==
  \A c \in Clients : \A m, n \in 1..Len(received[c]) :
     /\ received[c][m] \in Messages /\ received[c][m][1] # c
     /\ m < n /\ received[c][m][1] = received[c][n][1]
        => received[c][m][2] < received[c][n][2]

\* Comment of lines 195-196: once the data is written the client is watched
\* for input and not for output.
AfterSendOnlyInput == [][Send => "OUT" \notin fds'[i].events]_vars

\* A client that has closed or reset is taken out of the room, however busy
\* the others keep the loop.
LeaversLeave ==
  \A c \in Clients : end[c] \in {"shut", "reset"} ~> end[c] = "gone"

\* A pointer set for a client of the room is used or the client leaves: input,
\* which comes first in the chain of else-ifs, does not shut output out for
\* ever while clients say finitely much.
Pending(f) ==
  /\ users[f].write_buf \in Fds
  /\ \E k \in Seated : fds[k].fd = f /\ "OUT" \in fds[k].events
PendingIsSent == \A f \in Fds : Pending(f) ~> ~Pending(f)
=============================================================================
