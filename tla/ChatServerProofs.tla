--------------------------- MODULE ChatServerProofs ---------------------------
(***************************************************************************)
(* What holds of a chat room of any size, with any clients: the table is   *)
(* the room (TableIsRoom), a round looks once at every entry               *)
(* (EachEntryOnce), no stray pointer is sent from (WriteBufIsSet), and     *)
(* while nobody leaves everyone hears the others in order (OthersInOrder). *)
(***************************************************************************)
EXTENDS ChatServer, FiniteSetTheorems, LeastNatural, TLAPS

-----------------------------------------------------------------------------
(* The inductive invariant.                                                 *)

EntryType == [fd : Fds \cup {listenfd, None}, events : SUBSET AllEvents, revents : SUBSET AllEvents]
UserType  == [write_buf : Fds \cup {NULL, Junk}, buf : Messages \cup {Junk, Blank}]

ServerTypes ==
  /\ fds \in [0..USER_LIMIT -> EntryType]
  /\ users \in [Fds -> UserType]
  /\ user_counter \in 0..USER_LIMIT
  /\ i \in 0..(USER_LIMIT + 1)
  /\ pc \in {"poll", "loop", "stopped"}
  /\ conn \in [Fds -> Clients \cup {None}]

KernelTypes ==
  /\ backlog \in Seq(Clients)
  /\ end \in [Clients -> {"new", "open", "shut", "reset", "gone"}]
  /\ inbox \in [Clients -> Seq(Messages)]
  /\ said \in [Clients -> 0..MaxSaid]
  /\ received \in [Clients -> Seq(Messages \cup {Junk})]

TypeOK == ServerTypes /\ KernelTypes

\* Entry 0 is the listening socket; the others are the open descriptors, each
\* of them once.
Room ==
  /\ fds[0].fd = listenfd
  /\ \A k \in Seated : fds[k].fd \in Fds /\ conn[fds[k].fd] \in Clients
  /\ \A f \in Fds : conn[f] # None => \E k \in Seated : fds[k].fd = f
  /\ \A k, l \in Seated : fds[k].fd = fds[l].fd => k = l

\* The entries that this round has looked at are those below the index.
Round ==
  pc = "loop" =>
    /\ i <= user_counter + 1
    /\ i = 0 => examined = {}
    /\ \A k \in 0..user_counter : fds[k].fd \in examined <=> k < i

\* A connection reported stays in the backlog until it is accepted.
Arrived == pc = "loop" /\ i = 0 /\ "IN" \in fds[0].revents => backlog # <<>>

RoomInv == TypeOK /\ Room /\ Round /\ Arrived /\ WriteBufIsSet

-----------------------------------------------------------------------------
\* While nobody leaves, every client has one place, and poll has no hang-up and
\* no error to report.
OnePlace ==
  /\ \A c \in Clients : end[c] \in {"new", "open", "gone"}
  /\ \A f \in Fds : conn[f] \in Clients => end[conn[f]] = "open"
  /\ \A f, g \in Fds : conn[f] \in Clients /\ conn[f] = conn[g] => f = g
  /\ \A m \in DOMAIN backlog : end[backlog[m]] = "open" /\ \A f \in Fds : conn[f] # backlog[m]
  /\ \A m, n \in DOMAIN backlog : backlog[m] = backlog[n] => m = n
  /\ \A k \in Seated : fds[k].revents \cap {"ERR", "RDHUP"} = {}

\* How many messages of c the server has read.
Read(c) == said[c] - Len(inbox[c])

\* The inbox of a client holds what it has said and the server has not read.
InboxInOrder ==
  \A c \in Clients :
    /\ Read(c) \in Nat
    /\ \A n \in DOMAIN inbox[c] : inbox[c][n] = << c, Read(c) + n >>

\* A buffer holds the last message read; a pointer is to another's buffer, and
\* that has been read into; what poll reports was asked for.
Buffers ==
  /\ \A f \in Fds : users[f].buf \in Messages =>
       conn[f] \in Clients /\ users[f].buf = << conn[f], Read(conn[f]) >>
  /\ \A f \in Fds : users[f].write_buf \in Fds =>
       users[f].write_buf # f /\ users[users[f].write_buf].buf # Junk
  /\ \A f \in Fds : conn[f] = None => users[f].write_buf = Junk
  /\ \A k \in Seated : "OUT" \in fds[k].revents => "OUT" \in fds[k].events

\* What a client has received was read from others, and a message it has yet to
\* be sent is later than those of the same sender that it has received.
Heard ==
  \A c \in Clients : \A m \in DOMAIN received[c] :
    /\ received[c][m] \in Messages
    /\ received[c][m][1] # c
    /\ received[c][m][2] <= Read(received[c][m][1])
NextIsLater ==
  \A f, g \in Fds :
    conn[f] \in Clients /\ users[f].write_buf = g /\ users[g].buf \in Messages =>
      \A m \in DOMAIN received[conn[f]] :
        received[conn[f]][m][1] = users[g].buf[1] => received[conn[f]][m][2] < users[g].buf[2]

WordsInv == InboxInOrder /\ Buffers /\ Heard /\ NextIsLater /\ OthersInOrder

QuietInv == RoomInv /\ OnePlace /\ WordsInv

-----------------------------------------------------------------------------
(* Where the loop stands.                                                   *)

\* An iteration that has an entry before it looks at that entry, and knows which.
LEMMA AtListening ==
  ASSUME RoomInv, Listening
  PROVE  i = 0 /\ pc = "loop" /\ backlog # <<>> /\ Head(backlog) \in Clients
         /\ Tail(backlog) \in Seq(Clients)
<1>1. i = 0 /\ pc = "loop"
  BY DEF RoomInv, TypeOK, ServerTypes, Room, Listening, Looking, listenfd, Fds, Seated
<1>2. backlog # <<>>  BY <1>1 DEF RoomInv, Arrived, Listening
<1> QED  BY <1>1, <1>2 DEF RoomInv, TypeOK, KernelTypes

LEMMA AtClient ==
  ASSUME RoomInv, Looking, fds[i].fd # listenfd
  PROVE  i \in Seated /\ fds[i].fd \in Fds /\ Me \in Clients /\ pc = "loop"
BY DEF RoomInv, TypeOK, ServerTypes, Room, Looking, Seated, Me

\* A room with a seat left has a descriptor left, and accept takes the lowest.
LEMMA LowestFreeIsFree ==
  ASSUME RoomInv, user_counter < USER_LIMIT
  PROVE  LowestFree \in Fds /\ conn[LowestFree] = None
<1> DEFINE Free1 == {f \in Fds : conn[f] = None}
           place == [f \in Fds |-> CHOOSE k \in Seated : fds[k].fd = f]
<1>1. Free1 # {}
  <2> SUFFICES ASSUME \A f \in Fds : conn[f] # None  PROVE FALSE  OBVIOUS
  <2>1. \A f \in Fds : \E k \in Seated : fds[k].fd = f  BY DEF RoomInv, Room
  <2>2. place \in [Fds -> Seated] /\ \A f \in Fds : fds[place[f]].fd = f  BY <2>1
  <2>3. user_counter \in Nat /\ USER_LIMIT \in Nat
    BY LimitsAssumption DEF RoomInv, TypeOK, ServerTypes
  <2>4. /\ IsFiniteSet(Fds) /\ Cardinality(Fds) = USER_LIMIT + 1
        /\ IsFiniteSet(Seated) /\ Cardinality(Seated) = user_counter
    BY <2>3, FS_Interval DEF Fds, Seated
  <2>5. PICK f, g \in Fds : f # g /\ place[f] = place[g]
    <3>1. Cardinality(Seated) < Cardinality(Fds)  BY <2>3, <2>4
    <3> HIDE DEF place
    <3> QED  BY <2>2, <2>4, <3>1, FS_PigeonHole
  <2> QED  BY <2>2, <2>5
<1>2. Free1 \subseteq Nat  BY DEF Fds
<1>3. PICK f \in Free1 : \A g \in Free1 : f <= g
  <2> HIDE DEF Free1
  <2> QED  BY <1>1, <1>2, LeastExists
<1>4. \E f0 \in Fds : conn[f0] = None /\ \A g \in Fds : conn[g] = None => f0 <= g
  BY <1>3
<1> QED  BY <1>4 DEF LowestFree

-----------------------------------------------------------------------------
(* Steps that leave the seats alone.                                        *)

SameSeats ==
  /\ \A k \in 0..USER_LIMIT : fds'[k].fd = fds[k].fd
  /\ user_counter' = user_counter /\ conn' = conn

LEMMA RoomKept ==
  ASSUME RoomInv, SameSeats
  PROVE  Room'
BY LimitsAssumption DEF RoomInv, TypeOK, ServerTypes, Room, Seated, SameSeats

\* The loop goes on to the next entry.
LEMMA RoundAdvances ==
  ASSUME RoomInv, Looking, Next_i, SameSeats, pc' = pc
  PROVE  Round' /\ Arrived'
<1>1. user_counter \in 0..USER_LIMIT /\ i \in Nat /\ USER_LIMIT \in Nat
  BY LimitsAssumption DEF RoomInv, TypeOK, ServerTypes
<1>2. pc = "loop" /\ i <= user_counter  BY DEF Looking
<1>3. i' = i + 1 /\ examined' = examined \cup {fds[i].fd}  BY DEF Next_i
<1>4. \A k \in 0..user_counter : fds[k].fd \in examined <=> k < i
  BY <1>2 DEF RoomInv, Round
<1>5. \A k \in 0..user_counter : fds[k].fd = fds[i].fd => k = i
  BY <1>1, <1>2 DEF RoomInv, Room, Seated, Fds, listenfd
<1>6. ASSUME NEW k \in 0..user_counter
      PROVE  fds'[k].fd \in examined' <=> k < i'
  <2>1. fds'[k].fd = fds[k].fd  BY <1>1 DEF SameSeats
  <2> QED  BY <1>1, <1>3, <1>4, <1>5, <2>1
<1> QED  BY <1>1, <1>2, <1>3, <1>6 DEF Round, Arrived, SameSeats

\* The write buffers stay set if no write_buf changes and no entry comes to be
\* watched for output.
LEMMA WriteBufKept ==
  ASSUME RoomInv, SameSeats,
         \A f \in Fds : users'[f].write_buf = users[f].write_buf,
         \A k \in Seated : "OUT" \in fds'[k].events => "OUT" \in fds[k].events
  PROVE  WriteBufIsSet'
BY LimitsAssumption DEF RoomInv, TypeOK, ServerTypes, Room, Seated, SameSeats, WriteBufIsSet

\* The steps that change neither the table nor the records.
LEMMA StepPassive ==
  ASSUME RoomInv,
         AcceptFails \/ AcceptRefuse \/ Error \/ NothingToWrite \/ Nothing
  PROVE  RoomInv'
<1>1. Looking /\ Next_i /\ UNCHANGED << fds, users, user_counter, pc, conn >>
  BY DEF AcceptFails, AcceptRefuse, Error, NothingToWrite, Nothing, Listening, Serving, Writing
<1>2. SameSeats  BY <1>1 DEF SameSeats
<1>3. Room' /\ Round' /\ Arrived'  BY <1>1, <1>2, RoomKept, RoundAdvances
<1>4. WriteBufIsSet'  BY <1>1, <1>2, WriteBufKept
<1>5. ServerTypes'
  BY <1>1, LimitsAssumption DEF RoomInv, TypeOK, ServerTypes, Looking, Next_i
<1>6. KernelTypes'
  <2>1. CASE AcceptRefuse
    <3>1. Listening  BY <2>1 DEF AcceptRefuse
    <3>2. Tail(backlog) \in Seq(Clients)  BY <3>1, AtListening
    <3> QED  BY <2>1, <3>2 DEF RoomInv, TypeOK, KernelTypes, AcceptRefuse
  <2>2. CASE Error
    BY <2>2 DEF RoomInv, TypeOK, KernelTypes, Error
  <2>3. CASE AcceptFails \/ NothingToWrite \/ Nothing
    BY <2>3 DEF RoomInv, TypeOK, KernelTypes, AcceptFails, NothingToWrite, Nothing, kernelVars
  <2> QED  BY <2>1, <2>2, <2>3
<1> QED  BY <1>3, <1>4, <1>5, <1>6 DEF RoomInv, TypeOK

LEMMA StepPoll == RoomInv /\ Poll => RoomInv'
<1> SUFFICES ASSUME RoomInv, Poll  PROVE RoomInv'  OBVIOUS
<1>1. /\ i' = 0 /\ pc' = "loop" /\ examined' = {}
      /\ UNCHANGED << users, user_counter, conn, kernelVars >>
  BY DEF Poll
<1> DEFINE revents(k, ready) ==
      IF k = 0 THEN IF backlog # <<>> THEN {"IN"} ELSE {}
      ELSE Reported(conn[fds[k].fd], fds[k].events, ready)
<1>2. PICK stalled \in SUBSET SlowReaders :
        fds' = [k \in 0..USER_LIMIT |->
                  IF k <= user_counter
                  THEN [fds[k] EXCEPT !.revents = revents(k, Clients \ stalled)]
                  ELSE fds[k]]
  BY Zenon DEF Poll
<1>3. \A k \in 0..USER_LIMIT : revents(k, Clients \ stalled) \in SUBSET AllEvents
  <2>1. \A k \in 0..USER_LIMIT : fds[k].events \in SUBSET AllEvents
    BY DEF RoomInv, TypeOK, ServerTypes, EntryType
  <2> QED  BY <2>1 DEF Reported, AllEvents
<1> HIDE DEF revents
<1>4. fds' \in [0..USER_LIMIT -> EntryType]
  BY ZenonT(30), <1>2, <1>3 DEF RoomInv, TypeOK, ServerTypes, EntryType
<1>5. \A k \in 0..USER_LIMIT : fds'[k].fd = fds[k].fd /\ fds'[k].events = fds[k].events
  BY <1>2 DEF RoomInv, TypeOK, ServerTypes, EntryType
<1>6. SameSeats  BY <1>1, <1>5 DEF SameSeats
<1>7. ServerTypes' /\ KernelTypes'
  BY <1>1, <1>4, LimitsAssumption DEF RoomInv, TypeOK, ServerTypes, KernelTypes, kernelVars
<1>8. Round'
  BY <1>1, LimitsAssumption DEF RoomInv, TypeOK, ServerTypes, Round
<1>9. Arrived'
  <2>1. fds'[0].revents = revents(0, Clients \ stalled)
    BY <1>2, LimitsAssumption DEF RoomInv, TypeOK, ServerTypes, EntryType
  <2> QED  BY <1>1, <2>1 DEF Arrived, revents, kernelVars
<1>10. WriteBufIsSet'
  <2>1. \A k \in Seated : k \in 0..USER_LIMIT
    BY LimitsAssumption DEF RoomInv, TypeOK, ServerTypes, Seated
  <2> QED  BY <1>1, <1>5, <1>6, <2>1, WriteBufKept
<1> QED  BY <1>6, <1>7, <1>8, <1>9, <1>10, RoomKept DEF RoomInv, TypeOK

\* Steps of the loop between two rounds, and of the clients.
LEMMA StepBetween ==
  ASSUME RoomInv, PollFails \/ EndOfRound
  PROVE  RoomInv'
<1>1. pc' \in {"poll", "stopped"} /\ UNCHANGED << fds, users, user_counter, i, conn, examined, kernelVars >>
  BY DEF PollFails, EndOfRound
<1>2. SameSeats  BY <1>1 DEF SameSeats
<1> QED
  BY <1>1, <1>2, RoomKept, WriteBufKept
  DEF RoomInv, TypeOK, ServerTypes, KernelTypes, kernelVars, Round, Arrived

LEMMA StepClient ==
  ASSUME RoomInv, NEW c \in Clients, Connect(c) \/ Say(c) \/ Leave(c)
  PROVE  RoomInv'
<1>1. UNCHANGED serverVars
  BY DEF Connect, Say, Leave
<1>2. SameSeats  BY <1>1 DEF SameSeats, serverVars
<1>3. KernelTypes' /\ (backlog # <<>> => backlog' # <<>>)
  <2>1. CASE Connect(c)
    <3>1. backlog' = Append(backlog, c) /\ backlog' \in Seq(Clients) /\ backlog' # <<>>
      BY SMTT(30), <2>1 DEF RoomInv, TypeOK, KernelTypes, Connect
    <3> QED  BY <2>1, <3>1 DEF RoomInv, TypeOK, KernelTypes, Connect
  <2>2. CASE Say(c)
    <3>1. << c, said[c] + 1 >> \in Messages /\ said[c] + 1 \in 0..MaxSaid
      BY <2>2, LimitsAssumption DEF RoomInv, TypeOK, KernelTypes, Say, Messages
    <3>2. inbox' \in [Clients -> Seq(Messages)]
      BY <2>2, <3>1 DEF RoomInv, TypeOK, KernelTypes, Say
    <3> QED  BY <2>2, <3>1, <3>2 DEF RoomInv, TypeOK, KernelTypes, Say
  <2>3. CASE Leave(c)  BY <2>3 DEF RoomInv, TypeOK, KernelTypes, Leave
  <2> QED  BY <2>1, <2>2, <2>3
<1> QED
  BY <1>1, <1>2, <1>3, RoomKept, WriteBufKept
  DEF RoomInv, TypeOK, ServerTypes, serverVars, Round, Arrived

-----------------------------------------------------------------------------
(* Joining and leaving.                                                     *)

LEMMA StepAccept == RoomInv /\ Accept => RoomInv'
<1> SUFFICES ASSUME RoomInv, Accept  PROVE RoomInv'  OBVIOUS
<1> DEFINE connfd == LowestFree
           seat   == user_counter + 1
<1>1. /\ user_counter < USER_LIMIT /\ user_counter' = seat
      /\ conn' = [conn EXCEPT ![connfd] = Head(backlog)]
      /\ fds' = [fds EXCEPT ![seat] = Entry(connfd, {"IN", "RDHUP", "ERR"})]
      /\ backlog' = Tail(backlog) /\ Next_i
      /\ UNCHANGED << users, pc, end, inbox, said, received >>
  BY DEF Accept
<1>2. i = 0 /\ pc = "loop" /\ Head(backlog) \in Clients /\ Tail(backlog) \in Seq(Clients)
  BY AtListening DEF Accept
<1>3. connfd \in Fds /\ conn[connfd] = None  BY <1>1, LowestFreeIsFree
<1> HIDE DEF connfd
<1>4. user_counter \in 0..USER_LIMIT /\ USER_LIMIT \in Nat /\ seat \in 1..USER_LIMIT
  BY <1>1, LimitsAssumption DEF RoomInv, TypeOK, ServerTypes
<1>5. /\ fds'[seat] = Entry(connfd, {"IN", "RDHUP", "ERR"})
      /\ \A k \in 0..USER_LIMIT : k # seat => fds'[k] = fds[k]
  BY <1>1, <1>4 DEF RoomInv, TypeOK, ServerTypes
<1>6. /\ conn'[connfd] = Head(backlog)
      /\ \A f \in Fds : f # connfd => conn'[f] = conn[f]
  BY <1>1, <1>3 DEF RoomInv, TypeOK, ServerTypes
<1> HIDE DEF seat
<1>7. ServerTypes' /\ KernelTypes'
  <2>1. Entry(connfd, {"IN", "RDHUP", "ERR"}) \in EntryType
    BY <1>3 DEF Entry, EntryType, AllEvents
  <2>2. fds' \in [0..USER_LIMIT -> EntryType]
    BY <1>1, <2>1 DEF RoomInv, TypeOK, ServerTypes
  <2>3. conn' \in [Fds -> Clients \cup {None}]
    BY <1>1, <1>2 DEF RoomInv, TypeOK, ServerTypes
  <2>4. user_counter' \in 0..USER_LIMIT /\ i' \in 0..(USER_LIMIT + 1)
    BY <1>1, <1>2, <1>4 DEF Next_i
  <2> QED
    BY <1>1, <1>2, <2>2, <2>3, <2>4 DEF RoomInv, TypeOK, ServerTypes, KernelTypes
<1>8. Seated' = Seated \cup {seat} /\ seat \notin Seated
  BY <1>1, <1>4 DEF Seated, seat
<1>9. \A k \in Seated : k \in 0..USER_LIMIT /\ fds[k].fd # connfd
  BY <1>3, <1>4, ClientsAssumption DEF RoomInv, Room, Seated
<1>10. Room'
  <2>1. fds'[0].fd = listenfd  BY <1>4, <1>5 DEF RoomInv, Room
  <2>2. \A k \in Seated' : fds'[k].fd \in Fds /\ conn'[fds'[k].fd] \in Clients
    BY <1>2, <1>3, <1>5, <1>6, <1>8, <1>9 DEF RoomInv, Room, Entry
  <2>3. \A f \in Fds : conn'[f] # None => \E k \in Seated' : fds'[k].fd = f
    BY <1>5, <1>6, <1>8, <1>9 DEF RoomInv, Room, Entry
  <2>4. \A k, l \in Seated' : fds'[k].fd = fds'[l].fd => k = l
    BY <1>5, <1>8, <1>9 DEF RoomInv, Room, Entry
  <2> QED  BY <2>1, <2>2, <2>3, <2>4 DEF Room
<1>11. Round' /\ Arrived'
  <2>1. i' = 1 /\ examined' = {listenfd} /\ pc' = "loop"
    BY <1>1, <1>2 DEF Next_i, RoomInv, Room, Round
  <2>2. \A k \in Seated : fds[k].fd # listenfd
    BY DEF RoomInv, Room, Fds, listenfd
  <2>3. \A k \in Seated' : fds'[k].fd # listenfd
    BY <1>3, <1>5, <1>8, <1>9, <2>2 DEF Entry, Fds, listenfd
  <2>4. user_counter' \in Nat /\ fds'[0].fd = listenfd
    BY <1>1, <1>4, <1>10 DEF Room
  <2>5. ASSUME NEW k \in 0..user_counter'  PROVE fds'[k].fd \in examined' <=> k < i'
    <3>1. CASE k = 0  BY <2>1, <2>4, <3>1
    <3>2. CASE k # 0
      <4>1. k \in Seated' /\ ~(k < 1)  BY <2>4, <3>2 DEF Seated
      <4> QED  BY <2>1, <2>3, <4>1
    <3> QED  BY <3>1, <3>2
  <2>6. i' <= user_counter' + 1 /\ i' # 0
    <3>1. user_counter' = user_counter + 1  BY <1>1 DEF seat
    <3> QED  BY <1>4, <2>1, <3>1
  <2> QED  BY <2>1, <2>5, <2>6 DEF Round, Arrived
<1>12. WriteBufIsSet'
  BY <1>1, <1>5, <1>8, <1>9 DEF RoomInv, WriteBufIsSet, Entry
<1> QED  BY <1>7, <1>10, <1>11, <1>12 DEF RoomInv, TypeOK

\* A client that leaves, u being the records after what came before.
LEMMA StepRemove ==
  ASSUME RoomInv, Looking, fds[i].fd # listenfd,
         NEW u \in [Fds -> UserType], \A f \in Fds : u[f].write_buf = users[f].write_buf,
         Remove(u), UNCHANGED << pc, backlog, inbox, said, received >>
  PROVE  RoomInv'
<1> DEFINE left == fds[i].fd
           last == fds[user_counter].fd
<1>1. /\ users' = [u EXCEPT ![left] = u[last]]
      /\ conn' = [conn EXCEPT ![left] = None]
      /\ fds' = [fds EXCEPT ![i] = fds[user_counter]]
      /\ i' = i /\ examined' = examined \cup {left}
      /\ user_counter' = user_counter - 1
      /\ end' = [end EXCEPT ![Me] = "gone"]
  BY DEF Remove
<1>2. i \in Seated /\ left \in Fds /\ Me \in Clients /\ pc = "loop"  BY AtClient
<1>3. /\ USER_LIMIT \in Nat /\ user_counter \in 1..USER_LIMIT /\ user_counter \in Seated
      /\ Seated' = Seated \ {user_counter}
      /\ \A k \in Seated : k \in 1..USER_LIMIT
  BY <1>1, <1>2, LimitsAssumption DEF RoomInv, TypeOK, ServerTypes, Seated
<1>4. last \in Fds  BY <1>3 DEF RoomInv, Room
<1>5. \A k \in 0..USER_LIMIT : fds'[k] = IF k = i THEN fds[user_counter] ELSE fds[k]
  BY <1>1 DEF RoomInv, TypeOK, ServerTypes
<1>6. \A f \in Fds : conn'[f] = IF f = left THEN None ELSE conn[f]
  BY <1>1 DEF RoomInv, TypeOK, ServerTypes
<1>7. \A f \in Fds : users'[f].write_buf =
                       IF f = left THEN users[last].write_buf ELSE users[f].write_buf
  BY <1>1, <1>4
<1>8. \A k, l \in Seated : fds[k].fd = fds[l].fd => k = l  BY DEF RoomInv, Room
<1> HIDE DEF left, last
<1>9. ServerTypes' /\ KernelTypes'
  <2>1. fds' \in [0..USER_LIMIT -> EntryType]
    BY <1>1, <1>3 DEF RoomInv, TypeOK, ServerTypes
  <2>2. users' \in [Fds -> UserType]  BY <1>1, <1>4
  <2>3. conn' \in [Fds -> Clients \cup {None}]  BY <1>1 DEF RoomInv, TypeOK, ServerTypes
  <2>4. end' \in [Clients -> {"new", "open", "shut", "reset", "gone"}]
    BY <1>1 DEF RoomInv, TypeOK, KernelTypes
  <2> QED
    BY <1>1, <1>3, <2>1, <2>2, <2>3, <2>4 DEF RoomInv, TypeOK, ServerTypes, KernelTypes
<1>10. \A k \in Seated' : /\ k \in Seated /\ k # user_counter /\ k \in 0..USER_LIMIT
                          /\ fds'[k].fd # left
  BY <1>2, <1>3, <1>5, <1>8 DEF left, Seated
<1>11. Room'
  <2>1. fds'[0].fd = listenfd  BY <1>2, <1>3, <1>5 DEF RoomInv, Room, Seated
  <2>2. \A k \in Seated' : fds'[k].fd \in Fds /\ conn'[fds'[k].fd] \in Clients
    BY <1>3, <1>5, <1>6, <1>10 DEF RoomInv, Room
  <2>3. ASSUME NEW f \in Fds, conn'[f] # None  PROVE \E k \in Seated' : fds'[k].fd = f
    <3>1. f # left /\ conn[f] # None  BY <1>6, <2>3
    <3>2. PICK k \in Seated : fds[k].fd = f  BY <3>1 DEF RoomInv, Room
    <3>3. k # i  BY <3>1, <3>2 DEF left
    <3>4. CASE k = user_counter
      <4>1. i \in Seated'  BY <1>2, <1>3, <3>3, <3>4
      <4> QED  BY <1>5, <1>10, <3>2, <3>4, <4>1
    <3>5. CASE k # user_counter
      <4>1. k \in Seated'  BY <1>3, <3>5
      <4> QED  BY <1>5, <1>10, <3>2, <3>3, <4>1
    <3> QED  BY <3>4, <3>5
  <2>4. ASSUME NEW k \in Seated', NEW l \in Seated', fds'[k].fd = fds'[l].fd  PROVE k = l
    BY <1>3, <1>5, <1>8, <1>10, <2>4
  <2> QED  BY <2>1, <2>2, <2>3, <2>4 DEF Room
<1>12. Round' /\ Arrived'
  <2>1. i \in 1..user_counter /\ user_counter \in Nat  BY <1>2, <1>3 DEF Seated
  <2>2. \A k \in 0..user_counter : fds[k].fd \in examined <=> k < i
    BY <1>2 DEF RoomInv, Round
  <2>3. ASSUME NEW k \in 0..user_counter'  PROVE fds'[k].fd \in examined' <=> k < i'
    <3>1. k \in 0..user_counter /\ k # user_counter /\ k \in 0..USER_LIMIT
      BY <1>1, <1>3
    <3>2. fds'[k].fd # left
      BY <1>2, <1>10, <1>11, <2>1, <3>1 DEF Seated, Room, Fds, listenfd
    <3>3. fds'[k].fd \in examined' <=> fds'[k].fd \in examined  BY <1>1, <3>2
    <3>4. CASE k = i
      <4>1. user_counter \in 0..user_counter  BY <2>1
      <4>2. fds'[k].fd \notin examined  BY <1>5, <2>1, <2>2, <3>1, <3>4, <4>1
      <4> QED  BY <1>1, <2>1, <3>3, <3>4, <4>2
    <3>5. CASE k # i
      BY <1>1, <1>5, <2>2, <3>1, <3>3, <3>5
    <3> QED  BY <3>4, <3>5
  <2> QED  BY <1>1, <1>2, <2>1, <2>3 DEF Round, Arrived
<1>13. WriteBufIsSet'
  <2> SUFFICES ASSUME NEW k \in Seated', "OUT" \in fds'[k].events
               PROVE  users'[fds'[k].fd].write_buf \in Fds \cup {NULL}
    BY DEF WriteBufIsSet
  <2>1. \A l \in Seated : "OUT" \in fds[l].events =>
          users[fds[l].fd].write_buf \in Fds \cup {NULL}
    BY DEF RoomInv, WriteBufIsSet
  <2>2. PICK l \in Seated : fds'[k] = fds[l]  BY <1>3, <1>5, <1>10
  <2>3. fds[l].fd \in Fds /\ fds[l].fd # left  BY <1>10, <2>2 DEF RoomInv, Room
  <2> QED  BY <1>7, <2>1, <2>2, <2>3
<1> QED  BY <1>9, <1>11, <1>12, <1>13 DEF RoomInv, TypeOK

LEMMA StepLeave ==
  ASSUME RoomInv, HangUp \/ RecvFails
  PROVE  RoomInv'
<1>1. users \in [Fds -> UserType]  BY DEF RoomInv, TypeOK, ServerTypes
<1>2. CASE HangUp
  <2>1. /\ Looking /\ fds[i].fd # listenfd /\ Remove(users)
        /\ UNCHANGED << pc, backlog, inbox, said, received >>
    BY <1>2 DEF HangUp, Serving
  <2> QED  BY <1>1, <2>1, StepRemove
<1>3. CASE RecvFails
  <2>1. /\ Looking /\ fds[i].fd # listenfd /\ Remove(Cleared)
        /\ UNCHANGED << pc, backlog, inbox, said, received >>
    BY <1>3 DEF RecvFails, Reading, Serving
  <2>2. Cleared \in [Fds -> UserType] /\ \A f \in Fds : Cleared[f].write_buf = users[f].write_buf
    BY <1>1 DEF Cleared, UserType
  <2> QED  BY <2>1, <2>2, StepRemove
<1> QED  BY <1>2, <1>3

-----------------------------------------------------------------------------
(* Reading and writing.                                                     *)

LEMMA StepRecv == RoomInv /\ Recv => RoomInv'
<1> SUFFICES ASSUME RoomInv, Recv  PROVE RoomInv'  OBVIOUS
<1> DEFINE connfd == fds[i].fd
           others == IF inbox[Me] = <<>> THEN {} ELSE {k \in 1..user_counter : fds[k].fd # connfd}
           otherFds == {fds[k].fd : k \in others}
<1>1. /\ users' = [f \in Fds |->
                     IF f \in otherFds THEN [users[f] EXCEPT !.write_buf = connfd]
                     ELSE IF f = connfd /\ inbox[Me] # <<>>
                     THEN [users[f] EXCEPT !.buf = Head(inbox[Me])]
                     ELSE Cleared[f]]
      /\ fds' = [k \in 0..USER_LIMIT |->
                   IF k \in others
                   THEN [fds[k] EXCEPT !.events = @ \cup (AllEvents \ {"IN"}) \cup {"OUT"}]
                   ELSE fds[k]]
      /\ inbox' = [inbox EXCEPT ![Me] = IF @ = <<>> THEN @ ELSE Tail(@)]
      /\ Looking /\ fds[i].fd # listenfd /\ Next_i
      /\ UNCHANGED << user_counter, pc, conn, backlog, end, said, received >>
  BY DEF Recv, Reading, Serving
<1>2. i \in Seated /\ connfd \in Fds /\ Me \in Clients /\ pc = "loop"  BY <1>1, AtClient
<1>3. inbox[Me] \in Seq(Messages)  BY <1>2 DEF RoomInv, TypeOK, KernelTypes
<1>4. Cleared \in [Fds -> UserType] /\ \A f \in Fds : Cleared[f].write_buf = users[f].write_buf
  BY DEF RoomInv, TypeOK, ServerTypes, Cleared, UserType
<1>5. others \subseteq Seated /\ Seated \subseteq 0..USER_LIMIT
  BY LimitsAssumption DEF Seated, RoomInv, TypeOK, ServerTypes
<1> HIDE DEF connfd, others
<1>6. otherFds \subseteq Fds  BY <1>5 DEF RoomInv, Room
<1> HIDE DEF otherFds
<1>7. \A f \in Fds : users[f] \in UserType  BY DEF RoomInv, TypeOK, ServerTypes
<1>8. \A k \in 0..USER_LIMIT :
        /\ fds[k] \in EntryType /\ fds'[k].fd = fds[k].fd
        /\ fds'[k].events = IF k \in others THEN fds[k].events \cup (AllEvents \ {"IN"}) \cup {"OUT"}
                            ELSE fds[k].events
  BY <1>1, <1>5 DEF RoomInv, TypeOK, ServerTypes, EntryType
<1>9. ServerTypes'
  <2>1. fds' \in [0..USER_LIMIT -> EntryType]
    BY <1>1 DEF RoomInv, TypeOK, ServerTypes, EntryType, AllEvents
  <2>2. \A f \in Fds : [users[f] EXCEPT !.write_buf = connfd] \in UserType
    BY <1>2, <1>7 DEF UserType
  <2>3. inbox[Me] # <<>> => \A f \in Fds : [users[f] EXCEPT !.buf = Head(inbox[Me])] \in UserType
    BY <1>3, <1>7 DEF UserType
  <2>4. users' \in [Fds -> UserType]  BY <1>1, <1>4, <2>2, <2>3
  <2>5. i' \in 0..(USER_LIMIT + 1)
    BY <1>1, LimitsAssumption DEF RoomInv, TypeOK, ServerTypes, Looking, Next_i
  <2> QED  BY <1>1, <2>1, <2>4, <2>5 DEF RoomInv, TypeOK, ServerTypes
<1>10. KernelTypes'
  <2>1. inbox' \in [Clients -> Seq(Messages)]
    BY <1>1, <1>2, <1>3 DEF RoomInv, TypeOK, KernelTypes
  <2> QED  BY <1>1, <2>1 DEF RoomInv, TypeOK, KernelTypes
<1>11. SameSeats  BY <1>1, <1>8 DEF SameSeats
<1>12. Room' /\ Round' /\ Arrived'  BY <1>1, <1>11, RoomKept, RoundAdvances
<1>13. WriteBufIsSet'
  <2> SUFFICES ASSUME NEW k \in Seated, "OUT" \in fds'[k].events
               PROVE  users'[fds[k].fd].write_buf \in Fds \cup {NULL}
    BY <1>1, <1>5, <1>8 DEF WriteBufIsSet, Seated
  <2>1. fds[k].fd \in Fds  BY DEF RoomInv, Room
  <2>2. CASE k \in others
    <3>1. fds[k].fd \in otherFds  BY <2>2 DEF otherFds
    <3>2. users'[fds[k].fd].write_buf = connfd  BY <1>1, <1>7, <2>1, <3>1 DEF UserType
    <3> QED  BY <1>2, <3>2
  <2>3. CASE k \notin others
    <3>1. "OUT" \in fds[k].events  BY <1>5, <1>8, <2>3
    <3>2. users'[fds[k].fd].write_buf \in {connfd, users[fds[k].fd].write_buf}
      BY <1>1, <1>4, <1>7, <2>1 DEF UserType
    <3> QED  BY <1>2, <3>1, <3>2 DEF RoomInv, WriteBufIsSet
  <2> QED  BY <2>2, <2>3
<1> QED  BY <1>9, <1>10, <1>12, <1>13 DEF RoomInv, TypeOK

LEMMA StepSend == RoomInv /\ Send => RoomInv'
<1> SUFFICES ASSUME RoomInv, Send  PROVE RoomInv'  OBVIOUS
<1> DEFINE connfd == fds[i].fd
           from == users[connfd].write_buf
           what == IF from \in Fds THEN users[from].buf ELSE Junk
<1>1. /\ received' = IF end[Me] = "open" /\ what # Blank
                     THEN [received EXCEPT ![Me] = Append(@, what)] ELSE received
      /\ users' = [users EXCEPT ![connfd].write_buf = NULL]
      /\ fds' = [fds EXCEPT ![i].events = @ \cup (AllEvents \ {"OUT"}) \cup {"IN"}]
      /\ Looking /\ fds[i].fd # listenfd /\ Next_i
      /\ UNCHANGED << user_counter, pc, conn, backlog, end, inbox, said >>
  BY DEF Send, Writing, Serving
<1>2. i \in Seated /\ connfd \in Fds /\ Me \in Clients /\ pc = "loop"  BY <1>1, AtClient
<1>3. Seated \subseteq 0..USER_LIMIT
  BY LimitsAssumption DEF Seated, RoomInv, TypeOK, ServerTypes
<1>4. what \in Messages \cup {Junk, Blank}
  BY DEF RoomInv, TypeOK, ServerTypes, UserType
<1> HIDE DEF connfd, from, what
<1>5. \A k \in 0..USER_LIMIT :
        /\ fds[k] \in EntryType /\ fds'[k].fd = fds[k].fd
        /\ fds'[k].events = IF k = i THEN fds[k].events \cup (AllEvents \ {"OUT"}) \cup {"IN"}
                            ELSE fds[k].events
  BY <1>1, <1>2, <1>3 DEF RoomInv, TypeOK, ServerTypes, EntryType
<1>6. \A f \in Fds : users'[f].write_buf = IF f = connfd THEN NULL ELSE users[f].write_buf
  BY <1>1 DEF RoomInv, TypeOK, ServerTypes, UserType
<1>7. ServerTypes'
  <2>1. fds' \in [0..USER_LIMIT -> EntryType]
    BY <1>1, <1>2, <1>3 DEF RoomInv, TypeOK, ServerTypes, EntryType, AllEvents
  <2>2. users' \in [Fds -> UserType]
    BY <1>1 DEF RoomInv, TypeOK, ServerTypes, UserType
  <2>3. i' \in 0..(USER_LIMIT + 1)
    BY <1>1, LimitsAssumption DEF RoomInv, TypeOK, ServerTypes, Looking, Next_i
  <2> QED  BY <1>1, <2>1, <2>2, <2>3 DEF RoomInv, TypeOK, ServerTypes
<1>8. KernelTypes'
  <2>1. received[Me] \in Seq(Messages \cup {Junk})  BY <1>2 DEF RoomInv, TypeOK, KernelTypes
  <2>2. what # Blank => Append(received[Me], what) \in Seq(Messages \cup {Junk})
    BY <1>4, <2>1
  <2>3. received' \in [Clients -> Seq(Messages \cup {Junk})]
    BY <1>1, <2>2 DEF RoomInv, TypeOK, KernelTypes
  <2> QED  BY <1>1, <2>3 DEF RoomInv, TypeOK, KernelTypes
<1>9. SameSeats  BY <1>1, <1>5 DEF SameSeats
<1>10. Room' /\ Round' /\ Arrived'  BY <1>1, <1>9, RoomKept, RoundAdvances
<1>11. WriteBufIsSet'
  <2> SUFFICES ASSUME NEW k \in Seated, "OUT" \in fds'[k].events
               PROVE  users'[fds[k].fd].write_buf \in Fds \cup {NULL}
    BY <1>1, <1>3, <1>5 DEF WriteBufIsSet, Seated
  <2>1. fds[k].fd \in Fds  BY DEF RoomInv, Room
  <2>2. k # i => "OUT" \in fds[k].events  BY <1>3, <1>5
  <2>3. k = i => fds[k].fd = connfd  BY DEF connfd
  <2> QED  BY <1>6, <2>1, <2>2, <2>3 DEF RoomInv, WriteBufIsSet
<1> QED  BY <1>7, <1>8, <1>10, <1>11 DEF RoomInv, TypeOK

-----------------------------------------------------------------------------
LEMMA RoomInit == Init => RoomInv
<1> SUFFICES ASSUME Init  PROVE RoomInv  OBVIOUS
<1>1. TypeOK
  <2>1. fds \in [0..USER_LIMIT -> EntryType]
    BY LimitsAssumption DEF Init, Entry, Free, EntryType, AllEvents
  <2> QED
    BY <2>1, LimitsAssumption DEF Init, TypeOK, ServerTypes, KernelTypes, UserType
<1>2. fds[0].fd = listenfd /\ Seated = {} /\ pc = "poll" /\ \A f \in Fds : conn[f] = None
  BY LimitsAssumption DEF Init, Entry, Free, Seated
<1> QED  BY <1>1, <1>2 DEF RoomInv, Room, Round, Arrived, WriteBufIsSet

LEMMA RoomNext == RoomInv /\ [Next]_vars => RoomInv'
<1> SUFFICES ASSUME RoomInv, [Next]_vars  PROVE RoomInv'  OBVIOUS
<1>1. CASE AcceptFails \/ AcceptRefuse \/ Error \/ NothingToWrite \/ Nothing
  BY <1>1, StepPassive
<1>2. CASE Poll  BY <1>2, StepPoll
<1>3. CASE PollFails \/ EndOfRound  BY <1>3, StepBetween
<1>4. CASE Accept  BY <1>4, StepAccept
<1>5. CASE HangUp \/ RecvFails  BY <1>5, StepLeave
<1>6. CASE Recv  BY <1>6, StepRecv
<1>7. CASE Send  BY <1>7, StepSend
<1>8. CASE ClientStep  BY <1>8, StepClient DEF ClientStep
<1>9. CASE UNCHANGED vars
  <2>1. SameSeats  BY <1>9 DEF vars, serverVars, SameSeats
  <2> QED
    BY <1>9, <2>1, RoomKept, WriteBufKept
    DEF vars, serverVars, kernelVars, RoomInv, TypeOK, ServerTypes, KernelTypes, Round, Arrived
<1> QED
  BY <1>1, <1>2, <1>3, <1>4, <1>5, <1>6, <1>7, <1>8, <1>9 DEF Next, ServerStep

LEMMA RoomInvariant == Spec => []RoomInv
BY RoomInit, RoomNext, PTL DEF Spec

\* The table holds every open descriptor once, in a room of any size: the swap
\* with the last entry (lines 139-143, 157-161) neither leaks a descriptor nor
\* leaves a closed one to be polled.
THEOREM TableIsTheRoom == Spec => []TableIsRoom
<1>1. RoomInv => TableIsRoom
  BY ClientsAssumption DEF RoomInv, Room, TableIsRoom
<1> QED  BY <1>1, RoomInvariant, PTL

\* A round of the loop looks once at every entry that poll reported, although
\* entries move under the index.
THEOREM EveryEntryOnce == Spec => []EachEntryOnce
<1>1. RoomInv => EachEntryOnce
  <2> SUFFICES ASSUME RoomInv  PROVE EachEntryOnce  OBVIOUS
  <2>1. user_counter \in Nat /\ i \in Nat
    BY LimitsAssumption DEF RoomInv, TypeOK, ServerTypes
  <2>2. pc = "loop" => \A k \in 0..user_counter : fds[k].fd \in examined <=> k < i
    BY DEF RoomInv, Round
  <2> QED  BY <2>1, <2>2 DEF EachEntryOnce, Looking, Seated
<1> QED  BY <1>1, RoomInvariant, PTL

\* Nobody is watched for output whose write_buf is a stray pointer, whatever the
\* descriptor's last owner left in its record.
THEOREM NoStrayPointer == Spec => []WriteBufIsSet
<1>1. RoomInv => WriteBufIsSet  BY DEF RoomInv
<1> QED  BY <1>1, RoomInvariant, PTL

-----------------------------------------------------------------------------
(* While nobody leaves: the steps that say, read and send nothing.          *)

\* Nothing of what the words depend on changes, but that a client may join and
\* that entries are reported again.
LEMMA WordsKept ==
  ASSUME WordsInv, UNCHANGED << users, inbox, said, received >>,
         \A f \in Fds : conn'[f] = conn[f] \/ (conn[f] = None /\ conn'[f] \in Clients),
         \A k \in Seated' : "OUT" \in fds'[k].revents => "OUT" \in fds'[k].events
  PROVE  WordsInv'
<1>1. \A c \in Clients : Read(c)' = Read(c)  BY DEF Read
<1>2. InboxInOrder'  BY <1>1 DEF WordsInv, InboxInOrder, Read
<1>3. Heard'  BY DEF WordsInv, Heard, Read
<1>4. OthersInOrder'  BY DEF WordsInv, OthersInOrder
<1>5. \A f \in Fds : conn[f] \in Clients => conn'[f] = conn[f]  BY ClientsAssumption
<1>6. \A f \in Fds : conn'[f] = None => conn[f] = None  BY ClientsAssumption
<1>7. Buffers'
  <2>1. ASSUME NEW f \in Fds, users[f].buf \in Messages
        PROVE  conn'[f] \in Clients /\ users[f].buf = << conn'[f], Read(conn'[f]) >>
    BY <1>5, <2>1 DEF WordsInv, Buffers
  <2> QED  BY <1>6, <2>1 DEF WordsInv, Buffers, Read
<1>8. NextIsLater'
  <2> SUFFICES ASSUME NEW f \in Fds, NEW g \in Fds, conn'[f] \in Clients,
                      users[f].write_buf = g, users[g].buf \in Messages,
                      NEW m \in DOMAIN received[conn'[f]],
                      received[conn'[f]][m][1] = users[g].buf[1]
               PROVE  received[conn'[f]][m][2] < users[g].buf[2]
    BY DEF NextIsLater
  <2>1. conn[f] # None  BY MemoryAssumption DEF WordsInv, Buffers
  <2>2. conn'[f] = conn[f]  BY <2>1
  <2> QED  BY <2>2 DEF WordsInv, NextIsLater
<1> QED  BY <1>2, <1>3, <1>4, <1>7, <1>8 DEF WordsInv

LEMMA QuietPoll == QuietInv /\ Poll => OnePlace' /\ WordsInv'
<1> SUFFICES ASSUME QuietInv, Poll  PROVE OnePlace' /\ WordsInv'  OBVIOUS
<1>1. UNCHANGED << users, user_counter, conn, kernelVars >>  BY DEF Poll
<1> DEFINE revents(k, ready) ==
      IF k = 0 THEN IF backlog # <<>> THEN {"IN"} ELSE {}
      ELSE Reported(conn[fds[k].fd], fds[k].events, ready)
<1>2. PICK stalled \in SUBSET SlowReaders :
        fds' = [k \in 0..USER_LIMIT |->
                  IF k <= user_counter
                  THEN [fds[k] EXCEPT !.revents = revents(k, Clients \ stalled)]
                  ELSE fds[k]]
  BY Zenon DEF Poll
<1>3. ASSUME NEW k \in Seated
      PROVE  fds'[k].revents = Reported(conn[fds[k].fd], fds[k].events, Clients \ stalled)
             /\ fds'[k].events = fds[k].events
  <2>1. k \in 0..USER_LIMIT /\ k <= user_counter /\ k # 0
    BY LimitsAssumption DEF QuietInv, RoomInv, TypeOK, ServerTypes, Seated
  <2>2. fds[k] \in EntryType  BY <2>1 DEF QuietInv, RoomInv, TypeOK, ServerTypes
  <2>3. fds'[k] = [fds[k] EXCEPT !.revents = revents(k, Clients \ stalled)]
    BY <1>2, <2>1
  <2>4. revents(k, Clients \ stalled) = Reported(conn[fds[k].fd], fds[k].events, Clients \ stalled)
    BY <2>1
  <2> HIDE DEF revents
  <2> QED  BY <2>2, <2>3, <2>4 DEF EntryType
<1>4. \A k \in Seated : conn[fds[k].fd] \in Clients /\ end[conn[fds[k].fd]] = "open"
  BY DEF QuietInv, RoomInv, Room, OnePlace
<1>5. Seated' = Seated  BY <1>1 DEF Seated
<1>6. \A k \in Seated' : "OUT" \in fds'[k].revents => "OUT" \in fds'[k].events
  BY <1>3, <1>4, <1>5 DEF Reported
<1>7. \A k \in Seated' : fds'[k].revents \cap {"ERR", "RDHUP"} = {}
  BY <1>3, <1>4, <1>5 DEF Reported
<1>8. OnePlace'  BY <1>1, <1>7 DEF QuietInv, OnePlace, kernelVars
<1>9. WordsInv'
  BY <1>1, <1>6, WordsKept DEF QuietInv, kernelVars
<1> QED  BY <1>8, <1>9

LEMMA QuietPassive ==
  ASSUME QuietInv,
         PollFails \/ EndOfRound \/ AcceptFails \/ NothingToWrite \/ Nothing \/ UNCHANGED vars
  PROVE  OnePlace' /\ WordsInv'
<1>1. UNCHANGED << fds, users, user_counter, conn, kernelVars >>
  BY DEF PollFails, EndOfRound, AcceptFails, NothingToWrite, Nothing, vars, serverVars
<1>2. Seated' = Seated  BY <1>1 DEF Seated
<1>3. OnePlace'  BY <1>1, <1>2 DEF QuietInv, OnePlace, kernelVars
<1>4. \A k \in Seated' : "OUT" \in fds'[k].revents => "OUT" \in fds'[k].events
  BY <1>1, <1>2 DEF QuietInv, WordsInv, Buffers
<1> QED  BY <1>1, <1>3, <1>4, WordsKept DEF QuietInv, kernelVars

\* Clients of the backlog, the first taken away.
LEMMA RestOfBacklog ==
  ASSUME QuietInv, backlog # <<>>
  PROVE  LET rest == Tail(backlog) IN
         /\ Head(backlog) \in Clients /\ end[Head(backlog)] = "open"
         /\ \A f \in Fds : conn[f] # Head(backlog)
         /\ \A m \in DOMAIN rest : /\ rest[m] \in Clients /\ end[rest[m]] = "open"
                                   /\ rest[m] # Head(backlog)
                                   /\ \A f \in Fds : conn[f] # rest[m]
         /\ \A m, n \in DOMAIN rest : rest[m] = rest[n] => m = n
<1> DEFINE rest == Tail(backlog)
<1>1. backlog \in Seq(Clients)  BY DEF QuietInv, RoomInv, TypeOK, KernelTypes
<1>2. rest \in Seq(Clients) /\ Len(rest) = Len(backlog) - 1 /\ Len(backlog) \in Nat \ {0}
  BY <1>1
<1>3. \A m \in DOMAIN rest : m \in Nat /\ m + 1 \in DOMAIN backlog /\ rest[m] = backlog[m + 1]
                             /\ rest[m] \in Clients
  BY <1>1, <1>2
<1>4. 1 \in DOMAIN backlog /\ Head(backlog) = backlog[1] /\ Head(backlog) \in Clients
  BY <1>1, <1>2
<1> HIDE DEF rest
<1>5. \A m, n \in DOMAIN backlog : backlog[m] = backlog[n] => m = n
  BY DEF QuietInv, OnePlace
<1>6. \A m \in DOMAIN backlog : end[backlog[m]] = "open" /\ \A f \in Fds : conn[f] # backlog[m]
  BY DEF QuietInv, OnePlace
<1>7. ASSUME NEW m \in DOMAIN rest, NEW n \in DOMAIN rest, rest[m] = rest[n]  PROVE m = n
  <2>1. m + 1 = n + 1  BY <1>3, <1>5, <1>7
  <2> QED  BY <1>3, <2>1
<1>8. \A m \in DOMAIN rest : m + 1 # 1  BY <1>2, <1>3 DEF rest
<1>9. ASSUME NEW m \in DOMAIN rest  PROVE rest[m] # Head(backlog)
  BY <1>3, <1>4, <1>5, <1>8
<1> QED  BY <1>3, <1>4, <1>6, <1>7, <1>9 DEF rest

LEMMA QuietRefuse == QuietInv /\ AcceptRefuse => OnePlace' /\ WordsInv'
<1> SUFFICES ASSUME QuietInv, AcceptRefuse  PROVE OnePlace' /\ WordsInv'  OBVIOUS
<1>1. /\ end' = [end EXCEPT ![Head(backlog)] = "gone"] /\ backlog' = Tail(backlog)
      /\ UNCHANGED << fds, users, user_counter, conn, inbox, said, received >>
  BY DEF AcceptRefuse
<1>2. backlog # <<>>  BY AtListening DEF AcceptRefuse, QuietInv
<1>3. Seated' = Seated  BY <1>1 DEF Seated
<1>4. \A c \in Clients : end'[c] = IF c = Head(backlog) THEN "gone" ELSE end[c]
  BY <1>1 DEF QuietInv, RoomInv, TypeOK, KernelTypes
<1>5. OnePlace'  BY <1>1, <1>2, <1>3, <1>4, RestOfBacklog DEF QuietInv, OnePlace
<1>6. \A k \in Seated' : "OUT" \in fds'[k].revents => "OUT" \in fds'[k].events
  BY <1>1, <1>3 DEF QuietInv, WordsInv, Buffers
<1> QED  BY <1>1, <1>5, <1>6, WordsKept DEF QuietInv

LEMMA QuietAccept == QuietInv /\ Accept => OnePlace' /\ WordsInv'
<1> SUFFICES ASSUME QuietInv, Accept  PROVE OnePlace' /\ WordsInv'  OBVIOUS
<1> DEFINE connfd == LowestFree
           seat   == user_counter + 1
<1>1. /\ user_counter < USER_LIMIT /\ user_counter' = seat
      /\ conn' = [conn EXCEPT ![connfd] = Head(backlog)]
      /\ fds' = [fds EXCEPT ![seat] = Entry(connfd, {"IN", "RDHUP", "ERR"})]
      /\ backlog' = Tail(backlog)
      /\ UNCHANGED << users, end, inbox, said, received >>
  BY DEF Accept
<1>2. backlog # <<>>  BY AtListening DEF Accept, QuietInv
<1>3. connfd \in Fds /\ conn[connfd] = None  BY <1>1, LowestFreeIsFree DEF QuietInv
<1> HIDE DEF connfd
<1>4. \A f \in Fds : conn'[f] = IF f = connfd THEN Head(backlog) ELSE conn[f]
  BY <1>1, <1>3 DEF QuietInv, RoomInv, TypeOK, ServerTypes
<1>5. /\ seat \in 0..USER_LIMIT /\ Seated' = Seated \cup {seat}
      /\ \A k \in Seated : k # seat /\ k \in 0..USER_LIMIT
  BY <1>1, LimitsAssumption DEF QuietInv, RoomInv, TypeOK, ServerTypes, Seated
<1> HIDE DEF seat
<1>6. fds'[seat].revents = {} /\ \A k \in Seated : fds'[k] = fds[k]
  BY <1>1, <1>5 DEF QuietInv, RoomInv, TypeOK, ServerTypes, Entry
<1>7. \A k \in Seated' : fds'[k].revents \cap {"ERR", "RDHUP"} = {}
  BY <1>5, <1>6 DEF QuietInv, OnePlace
<1>8. OnePlace'
  BY <1>1, <1>2, <1>4, <1>7, RestOfBacklog DEF QuietInv, OnePlace
<1>9. \A k \in Seated' : "OUT" \in fds'[k].revents => "OUT" \in fds'[k].events
  BY <1>5, <1>6 DEF QuietInv, WordsInv, Buffers
<1> QED  BY <1>1, <1>2, <1>3, <1>4, <1>8, <1>9, RestOfBacklog, WordsKept DEF QuietInv

LEMMA QuietConnect ==
  ASSUME QuietInv, NEW c \in Clients, Connect(c)
  PROVE  OnePlace' /\ WordsInv'
<1>1. /\ end[c] = "new" /\ end' = [end EXCEPT ![c] = "open"] /\ backlog' = Append(backlog, c)
      /\ UNCHANGED << fds, users, user_counter, conn, inbox, said, received >>
  BY DEF Connect, serverVars
<1>2. Seated' = Seated  BY <1>1 DEF Seated
<1>3. \A d \in Clients : end'[d] = IF d = c THEN "open" ELSE end[d]
  BY <1>1 DEF QuietInv, RoomInv, TypeOK, KernelTypes
<1>4. backlog \in Seq(Clients)  BY DEF QuietInv, RoomInv, TypeOK, KernelTypes
<1> DEFINE new == Len(backlog) + 1
<1>5. /\ DOMAIN backlog' = DOMAIN backlog \cup {new} /\ new \notin DOMAIN backlog
      /\ backlog'[new] = c
      /\ \A m \in DOMAIN backlog : backlog'[m] = backlog[m] /\ backlog[m] \in Clients
  BY <1>1, <1>4
<1> HIDE DEF new
<1>6. \A m \in DOMAIN backlog : end[backlog[m]] = "open" /\ \A f \in Fds : conn[f] # backlog[m]
  BY DEF QuietInv, OnePlace
<1>7. \A f \in Fds : conn[f] # c  BY <1>1 DEF QuietInv, OnePlace
<1>8. OnePlace'
  <2>1. \A m \in DOMAIN backlog' :
          end'[backlog'[m]] = "open" /\ \A f \in Fds : conn[f] # backlog'[m]
    BY <1>3, <1>5, <1>6, <1>7
  <2>2. \A m, n \in DOMAIN backlog' : backlog'[m] = backlog'[n] => m = n
    BY <1>1, <1>5, <1>6 DEF QuietInv, OnePlace
  <2>3. \A f \in Fds : conn[f] \in Clients => end'[conn[f]] = "open"
    BY <1>3 DEF QuietInv, OnePlace
  <2>4. \A d \in Clients : end'[d] \in {"new", "open", "gone"}
    BY <1>3 DEF QuietInv, OnePlace
  <2> QED  BY <1>1, <1>2, <2>1, <2>2, <2>3, <2>4 DEF QuietInv, OnePlace
<1>9. \A k \in Seated' : "OUT" \in fds'[k].revents => "OUT" \in fds'[k].events
  BY <1>1, <1>2 DEF QuietInv, WordsInv, Buffers
<1> QED  BY <1>1, <1>8, <1>9, WordsKept DEF QuietInv

-----------------------------------------------------------------------------
(* While nobody leaves: saying, reading and sending.                        *)

LEMMA QuietSay ==
  ASSUME QuietInv, NEW c \in Clients, Say(c)
  PROVE  OnePlace' /\ WordsInv'
<1>1. /\ said' = [said EXCEPT ![c] = @ + 1]
      /\ inbox' = [inbox EXCEPT ![c] = Append(@, << c, said[c] + 1 >>)]
      /\ UNCHANGED << fds, users, user_counter, conn, backlog, end, received >>
  BY DEF Say, serverVars
<1> DEFINE After(d) == said'[d] - Len(inbox'[d])
<1>2. Seated' = Seated  BY <1>1 DEF Seated
<1>3. OnePlace'  BY <1>1, <1>2 DEF QuietInv, OnePlace
<1>4. \A d \in Clients : inbox[d] \in Seq(Messages) /\ said[d] \in Nat /\ Read(d) \in Int
                         /\ Len(inbox[d]) \in Nat
  BY LimitsAssumption DEF QuietInv, RoomInv, TypeOK, KernelTypes, Read
<1>5. ASSUME NEW d \in Clients  PROVE After(d) = Read(d)
  <2>1. CASE d # c
    BY <1>1, <2>1 DEF QuietInv, RoomInv, TypeOK, KernelTypes, Read
  <2>2. CASE d = c
    <3>1. said'[c] = said[c] + 1 /\ inbox'[c] = Append(inbox[c], << c, said[c] + 1 >>)
      BY <1>1 DEF QuietInv, RoomInv, TypeOK, KernelTypes
    <3>2. Len(inbox'[c]) = Len(inbox[c]) + 1  BY <1>4, <3>1
    <3> QED  BY <1>4, <2>2, <3>1, <3>2 DEF Read
  <2> QED  BY <2>1, <2>2
<1> HIDE DEF After
<1>6. InboxInOrder'
  <2> SUFFICES ASSUME NEW d \in Clients
               PROVE  Read(d) \in Nat /\ \A n \in DOMAIN inbox'[d] : inbox'[d][n] = << d, Read(d) + n >>
    BY <1>5 DEF InboxInOrder, Read, After
  <2>1. Read(d) \in Nat /\ \A n \in DOMAIN inbox[d] : inbox[d][n] = << d, Read(d) + n >>
    BY DEF QuietInv, WordsInv, InboxInOrder
  <2>2. CASE d # c
    <3>1. inbox'[d] = inbox[d]  BY <1>1, <2>2 DEF QuietInv, RoomInv, TypeOK, KernelTypes
    <3> QED  BY <2>1, <3>1
  <2>3. CASE d = c
    <3>1. inbox'[c] = Append(inbox[c], << c, said[c] + 1 >>)
      BY <1>1 DEF QuietInv, RoomInv, TypeOK, KernelTypes
    <3>2. said[c] + 1 = Read(c) + (Len(inbox[c]) + 1)  BY <1>4 DEF Read
    <3>3. DOMAIN inbox'[c] = DOMAIN inbox[c] \cup {Len(inbox[c]) + 1}
          /\ inbox'[c][Len(inbox[c]) + 1] = << c, said[c] + 1 >>
          /\ \A n \in DOMAIN inbox[c] : inbox'[c][n] = inbox[c][n]
      BY <1>4, <3>1
    <3> QED  BY <2>1, <2>3, <3>2, <3>3
  <2> QED  BY <2>2, <2>3
<1>7. Buffers'
  <2>1. \A f \in Fds : users[f].buf \in Messages =>
          conn[f] \in Clients /\ users[f].buf = << conn[f], After(conn[f]) >>
    BY <1>5 DEF QuietInv, WordsInv, Buffers
  <2> QED  BY <1>1, <1>2, <2>1 DEF QuietInv, WordsInv, Buffers, Read, After
<1>8. Heard'
  <2> SUFFICES ASSUME NEW d \in Clients, NEW m \in DOMAIN received[d]
               PROVE  /\ received[d][m] \in Messages /\ received[d][m][1] # d
                      /\ received[d][m][2] <= After(received[d][m][1])
    BY <1>1 DEF Heard, Read, After
  <2>1. /\ received[d][m] \in Messages /\ received[d][m][1] # d
        /\ received[d][m][2] <= Read(received[d][m][1])
    BY DEF QuietInv, WordsInv, Heard
  <2>2. received[d][m][1] \in Clients  BY <2>1 DEF Messages
  <2> QED  BY <1>5, <2>1, <2>2
<1>9. NextIsLater' /\ OthersInOrder'
  BY <1>1 DEF QuietInv, WordsInv, NextIsLater, OthersInOrder
<1> QED  BY <1>3, <1>6, <1>7, <1>8, <1>9 DEF WordsInv

LEMMA QuietRecv == QuietInv /\ Recv => OnePlace' /\ WordsInv'
<1> SUFFICES ASSUME QuietInv, Recv  PROVE OnePlace' /\ WordsInv'  OBVIOUS
<1> DEFINE connfd == fds[i].fd
           others == IF inbox[Me] = <<>> THEN {} ELSE {k \in 1..user_counter : fds[k].fd # connfd}
           otherFds == {fds[k].fd : k \in others}
           d == Me
           After(c) == said'[c] - Len(inbox'[c])
<1>1. /\ users' = [f \in Fds |->
                     IF f \in otherFds THEN [users[f] EXCEPT !.write_buf = connfd]
                     ELSE IF f = connfd /\ inbox[d] # <<>>
                     THEN [users[f] EXCEPT !.buf = Head(inbox[d])]
                     ELSE Cleared[f]]
      /\ fds' = [k \in 0..USER_LIMIT |->
                   IF k \in others
                   THEN [fds[k] EXCEPT !.events = @ \cup (AllEvents \ {"IN"}) \cup {"OUT"}]
                   ELSE fds[k]]
      /\ inbox' = [inbox EXCEPT ![d] = IF @ = <<>> THEN @ ELSE Tail(@)]
      /\ Looking /\ fds[i].fd # listenfd
      /\ UNCHANGED << user_counter, pc, conn, backlog, end, said, received >>
  BY DEF Recv, Reading, Serving
<1>2. i \in Seated /\ connfd \in Fds /\ d \in Clients  BY <1>1, AtClient DEF QuietInv
<1>3. d = conn[connfd]  BY DEF Me
<1> HIDE DEF d, After
<1>4. Cleared = [users EXCEPT ![connfd].buf = Blank]  BY DEF Cleared
<1>5. others \subseteq Seated /\ Seated \subseteq 0..USER_LIMIT
  BY LimitsAssumption DEF Seated, QuietInv, RoomInv, TypeOK, ServerTypes
<1>6. connfd \notin otherFds /\ (inbox[d] = <<>> => otherFds = {})  BY DEF d
<1> HIDE DEF connfd, others
<1>7. otherFds \subseteq Fds  BY <1>5 DEF QuietInv, RoomInv, Room
<1> HIDE DEF otherFds
<1>8. \A f \in Fds : users[f] \in UserType  BY DEF QuietInv, RoomInv, TypeOK, ServerTypes
\* The records.
<1>9. ASSUME NEW f \in Fds
      PROVE  /\ users'[f].write_buf = IF f \in otherFds THEN connfd ELSE users[f].write_buf
             /\ users'[f].buf = IF f # connfd THEN users[f].buf
                                ELSE IF inbox[d] = <<>> THEN Blank ELSE Head(inbox[d])
  BY <1>1, <1>2, <1>4, <1>6, <1>8 DEF QuietInv, RoomInv, TypeOK, ServerTypes, UserType
\* The inboxes.
<1>10. \A c \in Clients : /\ inbox[c] \in Seq(Messages) /\ said[c] \in Nat
                          /\ Read(c) \in Nat
                          /\ \A n \in DOMAIN inbox[c] : inbox[c][n] = << c, Read(c) + n >>
  BY LimitsAssumption
  DEF QuietInv, RoomInv, TypeOK, KernelTypes, WordsInv, InboxInOrder
<1>11. /\ inbox'[d] = IF inbox[d] = <<>> THEN <<>> ELSE Tail(inbox[d])
       /\ \A c \in Clients : c # d => inbox'[c] = inbox[c]
  BY <1>1, <1>2 DEF QuietInv, RoomInv, TypeOK, KernelTypes
<1>12. \A c \in Clients : c # d => After(c) = Read(c)
  BY <1>1, <1>11 DEF Read, After
<1>13. After(d) = IF inbox[d] = <<>> THEN Read(d) ELSE Read(d) + 1
  <2>1. CASE inbox[d] = <<>>  BY <1>1, <1>11, <2>1 DEF Read, After
  <2>2. CASE inbox[d] # <<>>
    <3>1. inbox[d] \in Seq(Messages) /\ Len(inbox[d]) \in Nat /\ said[d] \in Nat
      BY <1>2, <1>10
    <3>2. Len(Tail(inbox[d])) = Len(inbox[d]) - 1  BY <2>2, <3>1
    <3>3. inbox'[d] = Tail(inbox[d])  BY <1>11, <2>2
    <3>4. After(d) = said[d] - (Len(inbox[d]) - 1)  BY <1>1, <3>2, <3>3 DEF After
    <3> QED  BY <2>2, <3>1, <3>4 DEF Read
  <2> QED  BY <2>1, <2>2
<1>14. inbox[d] # <<>> => Head(inbox[d]) = << d, Read(d) + 1 >> /\ Head(inbox[d]) \in Messages
  <2> SUFFICES ASSUME inbox[d] # <<>>
               PROVE  Head(inbox[d]) = << d, Read(d) + 1 >> /\ Head(inbox[d]) \in Messages
    OBVIOUS
  <2>1. inbox[d] \in Seq(Messages)  BY <1>2, <1>10
  <2>2. 1 \in DOMAIN inbox[d] /\ Head(inbox[d]) = inbox[d][1] /\ Head(inbox[d]) \in Messages
    BY <2>1
  <2> QED  BY <1>2, <1>10, <2>2
<1>15. InboxInOrder'
  <2> SUFFICES ASSUME NEW c \in Clients
               PROVE  After(c) \in Nat /\ \A n \in DOMAIN inbox'[c] : inbox'[c][n] = << c, After(c) + n >>
    BY DEF InboxInOrder, Read, After
  <2>1. CASE c # d  BY <1>10, <1>11, <1>12, <2>1
  <2>2. CASE c = d /\ inbox[d] = <<>>  BY <1>2, <1>10, <1>11, <1>13, <2>2
  <2>3. CASE c = d /\ inbox[d] # <<>>
    <3>1. inbox'[d] = Tail(inbox[d]) /\ After(d) = Read(d) + 1  BY <1>11, <1>13, <2>3
    <3>2. inbox[d] \in Seq(Messages) /\ Len(inbox[d]) \in Nat \ {0} /\ Read(d) \in Nat
      BY <1>2, <1>10, <2>3
    <3>3. \A n \in DOMAIN Tail(inbox[d]) :
            n \in Nat /\ n + 1 \in DOMAIN inbox[d] /\ Tail(inbox[d])[n] = inbox[d][n + 1]
      BY <2>3, <3>2
    <3>4. \A n \in DOMAIN inbox[d] : inbox[d][n] = << d, Read(d) + n >>  BY <1>2, <1>10
    <3>5. \A n \in DOMAIN Tail(inbox[d]) : Tail(inbox[d])[n] = << d, Read(d) + 1 + n >>
      BY <3>2, <3>3, <3>4
    <3> QED  BY <2>3, <3>1, <3>2, <3>5
  <2> QED  BY <2>1, <2>2, <2>3
<1>16. \A f, g \in Fds : conn[f] \in Clients /\ conn[f] = conn[g] => f = g
  BY DEF QuietInv, OnePlace
<1>17. Buffers'
  <2>1. ASSUME NEW f \in Fds, users'[f].buf \in Messages
        PROVE  conn[f] \in Clients /\ users'[f].buf = << conn[f], After(conn[f]) >>
    <3>1. CASE f = connfd
      BY <1>2, <1>3, <1>9, <1>13, <1>14, <2>1, <3>1, MemoryAssumption
    <3>2. CASE f # connfd
      <4>1. users'[f].buf = users[f].buf  BY <1>9, <3>2
      <4>2. conn[f] \in Clients /\ users[f].buf = << conn[f], Read(conn[f]) >>
        BY <2>1, <4>1 DEF QuietInv, WordsInv, Buffers
      <4>3. conn[f] # d  BY <1>2, <1>3, <1>16, <3>2, <4>2
      <4> QED  BY <1>12, <4>1, <4>2, <4>3
    <3> QED  BY <3>1, <3>2
  <2>2. ASSUME NEW f \in Fds, users'[f].write_buf \in Fds
        PROVE  users'[f].write_buf # f /\ users'[users'[f].write_buf].buf # Junk
    <3>1. connfd \in Fds => users'[connfd].buf # Junk
      BY <1>9, <1>14, MemoryAssumption
    <3>2. CASE f \in otherFds  BY <1>2, <1>6, <1>9, <2>2, <3>1, <3>2
    <3>3. CASE f \notin otherFds
      <4>1. users'[f].write_buf = users[f].write_buf  BY <1>9, <3>3
      <4>2. users[f].write_buf # f /\ users[users[f].write_buf].buf # Junk
        BY <2>2, <4>1 DEF QuietInv, WordsInv, Buffers
      <4> QED  BY <1>9, <2>2, <3>1, <4>1, <4>2
    <3> QED  BY <3>2, <3>3
  <2>3. ASSUME NEW f \in Fds, conn[f] = None  PROVE users'[f].write_buf = Junk
    <3>1. f \notin otherFds
      BY <1>5, <2>3, ClientsAssumption DEF otherFds, QuietInv, RoomInv, Room
    <3> QED  BY <1>9, <2>3, <3>1 DEF QuietInv, WordsInv, Buffers
  <2>4. ASSUME NEW k \in Seated', "OUT" \in fds'[k].revents  PROVE "OUT" \in fds'[k].events
    <3>1. k \in Seated /\ k \in 0..USER_LIMIT  BY <1>1, <1>5 DEF Seated
    <3>2. fds[k] \in EntryType  BY <3>1 DEF QuietInv, RoomInv, TypeOK, ServerTypes
    <3>3. fds'[k].revents = fds[k].revents /\ fds[k].events \subseteq fds'[k].events
      BY <1>1, <3>1, <3>2 DEF EntryType
    <3> QED  BY <2>4, <3>1, <3>3 DEF QuietInv, WordsInv, Buffers
  <2> QED  BY <1>1, <2>1, <2>2, <2>3, <2>4 DEF Buffers, Read, After
<1>18. \A c \in Clients : Read(c) <= After(c)  BY <1>10, <1>12, <1>13
<1>19. \A c \in Clients : \A m \in DOMAIN received[c] :
         /\ received[c][m] \in Messages /\ received[c][m][1] # c
         /\ received[c][m][1] \in Clients /\ received[c][m][2] \in Nat
         /\ received[c][m][2] <= Read(received[c][m][1])
  BY DEF QuietInv, WordsInv, Heard, Messages
<1>20. Heard'
  <2> SUFFICES ASSUME NEW c \in Clients, NEW m \in DOMAIN received[c]
               PROVE  received[c][m][2] <= After(received[c][m][1])
    BY <1>1, <1>19 DEF Heard, Read, After
  <2> DEFINE e == received[c][m][1]
  <2>1. e \in Clients /\ received[c][m][2] \in Nat /\ received[c][m][2] <= Read(e)
    BY <1>19
  <2>2. Read(e) <= After(e) /\ Read(e) \in Nat /\ After(e) \in Nat
    BY <1>10, <1>15, <1>18, <2>1 DEF InboxInOrder, Read, After
  <2> QED  BY <2>1, <2>2
<1>21. NextIsLater'
  <2> SUFFICES ASSUME NEW f \in Fds, NEW g \in Fds, conn[f] \in Clients,
                      users'[f].write_buf = g, users'[g].buf \in Messages,
                      NEW m \in DOMAIN received[conn[f]],
                      received[conn[f]][m][1] = users'[g].buf[1]
               PROVE  received[conn[f]][m][2] < users'[g].buf[2]
    BY <1>1 DEF NextIsLater
  <2>1. CASE g = connfd
    <3>1. users'[g].buf = << d, Read(d) + 1 >>
      BY <1>9, <1>14, <2>1, MemoryAssumption
    <3> QED  BY <1>2, <1>10, <1>19, <3>1
  <2>2. CASE g # connfd
    <3>1. users[f].write_buf = g /\ users'[g].buf = users[g].buf  BY <1>9, <2>2
    <3> QED  BY <3>1 DEF QuietInv, WordsInv, NextIsLater
  <2> QED  BY <2>1, <2>2
<1>22. OthersInOrder'  BY <1>1 DEF QuietInv, WordsInv, OthersInOrder
<1>23. OnePlace'
  <2>1. ASSUME NEW k \in Seated'  PROVE fds'[k].revents \cap {"ERR", "RDHUP"} = {}
    <3>1. k \in Seated /\ k \in 0..USER_LIMIT  BY <1>1, <1>5 DEF Seated
    <3>2. fds[k] \in EntryType  BY <3>1 DEF QuietInv, RoomInv, TypeOK, ServerTypes
    <3>3. fds'[k].revents = fds[k].revents  BY <1>1, <3>1, <3>2 DEF EntryType
    <3> QED  BY <3>1, <3>3 DEF QuietInv, OnePlace
  <2> QED  BY <1>1, <2>1 DEF QuietInv, OnePlace
<1> QED  BY <1>15, <1>17, <1>20, <1>21, <1>22, <1>23 DEF WordsInv

LEMMA QuietSend == QuietInv /\ Send => OnePlace' /\ WordsInv'
<1> SUFFICES ASSUME QuietInv, Send  PROVE OnePlace' /\ WordsInv'  OBVIOUS
<1> DEFINE connfd == fds[i].fd
           from == users[connfd].write_buf
           what == IF from \in Fds THEN users[from].buf ELSE Junk
           c == Me
<1>1. /\ received' = IF end[c] = "open" /\ what # Blank
                     THEN [received EXCEPT ![c] = Append(@, what)] ELSE received
      /\ users' = [users EXCEPT ![connfd].write_buf = NULL]
      /\ fds' = [fds EXCEPT ![i].events = @ \cup (AllEvents \ {"OUT"}) \cup {"IN"}]
      /\ from # NULL /\ "OUT" \in fds[i].revents
      /\ Looking /\ fds[i].fd # listenfd
      /\ UNCHANGED << user_counter, pc, conn, backlog, end, inbox, said >>
  BY DEF Send, Writing, Serving
<1>2. i \in Seated /\ connfd \in Fds /\ c \in Clients  BY <1>1, AtClient DEF QuietInv
<1>3. c = conn[connfd]  BY DEF Me
<1>4. from \in Fds
  BY <1>1, <1>2 DEF QuietInv, RoomInv, WriteBufIsSet, WordsInv, Buffers
<1>5. what = users[from].buf /\ what # Junk /\ from # connfd /\ what \in Messages \cup {Blank}
  <2>1. users[from] \in UserType  BY <1>4 DEF QuietInv, RoomInv, TypeOK, ServerTypes
  <2> QED  BY <1>2, <1>4, <2>1 DEF QuietInv, WordsInv, Buffers, UserType
<1>6. Seated \subseteq 0..USER_LIMIT
  BY LimitsAssumption DEF Seated, QuietInv, RoomInv, TypeOK, ServerTypes
<1> HIDE DEF connfd, from, what, c
<1>7. \A f \in Fds : /\ users'[f].buf = users[f].buf
                     /\ users'[f].write_buf = IF f = connfd THEN NULL ELSE users[f].write_buf
  BY <1>1 DEF QuietInv, RoomInv, TypeOK, ServerTypes, UserType
<1>8. \A k \in Seated : fds'[k].revents = fds[k].revents /\ ("OUT" \in fds[k].events => "OUT" \in fds'[k].events)
  BY <1>1, <1>2, <1>6 DEF QuietInv, RoomInv, TypeOK, ServerTypes, EntryType
<1>9. Seated' = Seated  BY <1>1 DEF Seated
<1>10. OnePlace'  BY <1>1, <1>8, <1>9 DEF QuietInv, OnePlace
<1>11. InboxInOrder'  BY <1>1 DEF QuietInv, WordsInv, InboxInOrder, Read
<1>12. Buffers'
  <2>1. ASSUME NEW f \in Fds, users'[f].write_buf \in Fds
        PROVE  users'[f].write_buf # f /\ users'[users'[f].write_buf].buf # Junk
    <3>1. users'[f].write_buf = users[f].write_buf  BY <1>7, <2>1, MemoryAssumption
    <3> QED  BY <1>7, <2>1, <3>1 DEF QuietInv, WordsInv, Buffers
  <2>2. ASSUME NEW f \in Fds, conn[f] = None  PROVE users'[f].write_buf = Junk
    <3>1. f # connfd  BY <1>2, <1>3, <2>2, ClientsAssumption
    <3> QED  BY <1>7, <2>2, <3>1 DEF QuietInv, WordsInv, Buffers
  <2>3. \A f \in Fds : users'[f].buf \in Messages =>
          conn[f] \in Clients /\ users'[f].buf = << conn[f], Read(conn[f]) >>
    BY <1>7 DEF QuietInv, WordsInv, Buffers
  <2> QED  BY <1>1, <1>8, <1>9, <2>1, <2>2, <2>3 DEF QuietInv, WordsInv, Buffers, Read
<1>13. CASE what = Blank
  <2>1. received' = received  BY <1>1, <1>13
  <2>2. Heard' /\ OthersInOrder'
    BY <1>1, <2>1 DEF QuietInv, WordsInv, Heard, OthersInOrder, Read
  <2>3. NextIsLater'
    <3> SUFFICES ASSUME NEW f \in Fds, NEW g \in Fds, conn[f] \in Clients,
                        users'[f].write_buf = g, users'[g].buf \in Messages,
                        NEW m \in DOMAIN received[conn[f]],
                        received[conn[f]][m][1] = users'[g].buf[1]
                 PROVE  received[conn[f]][m][2] < users'[g].buf[2]
      BY <1>1, <2>1 DEF NextIsLater
    <3>1. f # connfd  BY <1>7, MemoryAssumption
    <3> QED  BY <1>7, <3>1 DEF QuietInv, WordsInv, NextIsLater
  <2> QED  BY <1>10, <1>11, <1>12, <2>2, <2>3 DEF WordsInv
<1>14. CASE what # Blank
  <2> DEFINE d == conn[from]
             new == Len(received[c]) + 1
  <2>1. d \in Clients /\ what \in Messages /\ what = << d, Read(d) >> /\ Read(d) \in Nat
    BY <1>4, <1>5, <1>14 DEF QuietInv, WordsInv, Buffers, InboxInOrder
  <2>2. d # c  BY <1>2, <1>3, <1>4, <1>5 DEF QuietInv, OnePlace
  <2> HIDE DEF d
  <2>3. received[c] \in Seq(Messages \cup {Junk})
    BY <1>2 DEF QuietInv, RoomInv, TypeOK, KernelTypes
  <2>4. /\ received'[c] = Append(received[c], what)
        /\ \A e \in Clients : e # c => received'[e] = received[e]
    <3>1. end[c] = "open"  BY <1>2, <1>3 DEF QuietInv, OnePlace
    <3> QED  BY <1>1, <1>2, <1>14, <3>1 DEF QuietInv, RoomInv, TypeOK, KernelTypes
  <2>5. /\ DOMAIN received'[c] = DOMAIN received[c] \cup {new}
        /\ new \in Nat /\ \A m \in DOMAIN received[c] : m \in Nat /\ m < new
        /\ received'[c][new] = what
        /\ \A m \in DOMAIN received[c] : received'[c][m] = received[c][m]
    BY <2>3, <2>4
  <2> HIDE DEF new
  <2>6. \A m \in DOMAIN received[c] : received[c][m][1] = d => received[c][m][2] < Read(d)
    <3>1. users[connfd].write_buf = from  BY DEF from
    <3>2. users[from].buf \in Messages /\ users[from].buf[1] = d /\ users[from].buf[2] = Read(d)
      BY <1>5, <2>1
    <3>3. NextIsLater  BY DEF QuietInv, WordsInv
    <3>4. \A m \in DOMAIN received[conn[connfd]] :
            received[conn[connfd]][m][1] = users[from].buf[1] =>
              received[conn[connfd]][m][2] < users[from].buf[2]
      BY <1>2, <1>3, <1>4, <3>1, <3>2, <3>3 DEF NextIsLater
    <3> QED  BY <1>3, <3>2, <3>4
  <2>7. \A e \in Clients : \A m \in DOMAIN received[e] :
          /\ received[e][m] \in Messages /\ received[e][m][1] # e
          /\ received[e][m][2] <= Read(received[e][m][1])
    BY DEF QuietInv, WordsInv, Heard
  <2>8. ASSUME NEW e \in Clients, NEW m \in DOMAIN received'[e]
        PROVE  /\ received'[e][m] \in Messages /\ received'[e][m][1] # e
               /\ received'[e][m][2] <= Read(received'[e][m][1])
    <3>1. CASE e # c  BY <2>4, <2>7, <2>8, <3>1
    <3>2. CASE e = c /\ m = new  BY <2>1, <2>2, <2>5, <3>2
    <3>3. CASE e = c /\ m # new  BY <2>5, <2>7, <2>8, <3>3
    <3> QED  BY <3>1, <3>2, <3>3
  <2>9. Heard'  BY <1>1, <2>8 DEF Heard, Read
  <2>10. NextIsLater'
    <3> SUFFICES ASSUME NEW f \in Fds, NEW g \in Fds, conn[f] \in Clients,
                        users'[f].write_buf = g, users'[g].buf \in Messages,
                        NEW m \in DOMAIN received'[conn[f]],
                        received'[conn[f]][m][1] = users'[g].buf[1]
                 PROVE  received'[conn[f]][m][2] < users'[g].buf[2]
      BY SMTT(30), <1>1 DEF NextIsLater
    <3>1. f # connfd  BY <1>7, MemoryAssumption
    <3>2. conn[f] # c  BY <1>2, <1>3, <3>1 DEF QuietInv, OnePlace
    <3>3. received'[conn[f]] = received[conn[f]]  BY <2>4, <3>2
    <3> QED  BY <1>7, <3>1, <3>3 DEF QuietInv, WordsInv, NextIsLater
  <2>11. \A e \in Clients : received[e] \in Seq(Messages \cup {Junk}) /\ DOMAIN received[e] = 1..Len(received[e])
    BY DEF QuietInv, RoomInv, TypeOK, KernelTypes
  <2>12. \A e \in Clients : \A m, n \in DOMAIN received[e] :
           m < n /\ received[e][m][1] = received[e][n][1] => received[e][m][2] < received[e][n][2]
    BY <2>11 DEF QuietInv, WordsInv, OthersInOrder
  <2>13. ASSUME NEW e \in Clients, NEW m \in DOMAIN received'[e], NEW n \in DOMAIN received'[e],
                m < n, received'[e][m][1] = received'[e][n][1]
         PROVE  received'[e][m][2] < received'[e][n][2]
    <3>1. CASE e # c  BY <2>4, <2>12, <2>13, <3>1
    <3>2. CASE e = c
      <4>1. m # new /\ m \in DOMAIN received[c] /\ received'[c][m] = received[c][m]
        BY <2>5, <2>13, <3>2
      <4>2. CASE n = new
        <5>1. received'[c][n] = << d, Read(d) >>  BY <2>1, <2>5, <4>2
        <5> QED  BY <2>6, <2>13, <3>2, <4>1, <5>1
      <4>3. CASE n # new
        <5>1. n \in DOMAIN received[c] /\ received'[c][n] = received[c][n]
          BY <2>5, <2>13, <3>2, <4>3
        <5> QED  BY <2>12, <2>13, <3>2, <4>1, <5>1
      <4> QED  BY <4>2, <4>3
    <3> QED  BY <3>1, <3>2
  <2>14. \A e \in Clients : DOMAIN received'[e] = 1..Len(received'[e])
    <3>1. received'[c] \in Seq(Messages \cup {Junk})  BY <2>1, <2>3, <2>4
    <3> QED  BY <2>4, <2>11, <3>1
  <2>15. OthersInOrder'
    <3> SUFFICES ASSUME NEW e \in Clients, NEW m \in 1..Len(received'[e]), NEW n \in 1..Len(received'[e])
                 PROVE  /\ received'[e][m] \in Messages /\ received'[e][m][1] # e
                        /\ m < n /\ received'[e][m][1] = received'[e][n][1]
                           => received'[e][m][2] < received'[e][n][2]
      BY DEF OthersInOrder
    <3> QED  BY <2>8, <2>13, <2>14
  <2> QED  BY <1>10, <1>11, <1>12, <2>9, <2>10, <2>15 DEF WordsInv
<1> QED  BY <1>13, <1>14

\* A hang-up or an error is never found.
LEMMA NobodyLeaves ==
  ASSUME Leavers = {}, QuietInv, Next
  PROVE  ~(Error \/ HangUp \/ RecvFails \/ \E c \in Clients : Leave(c))
<1>1. ASSUME Looking, fds[i].fd # listenfd
      PROVE  fds[i].revents \cap {"ERR", "RDHUP"} = {} /\ end[Me] = "open"
  BY <1>1, AtClient DEF QuietInv, OnePlace, Me
<1> QED  BY <1>1 DEF Error, HangUp, RecvFails, Reading, Serving, Leave

LEMMA QuietInit == Init => QuietInv
<1> SUFFICES ASSUME Init  PROVE QuietInv  OBVIOUS
<1>1. RoomInv  BY RoomInit
<1>2. /\ Seated = {} /\ backlog = <<>>
      /\ \A c \in Clients : inbox[c] = <<>> /\ said[c] = 0 /\ received[c] = <<>> /\ end[c] = "new"
      /\ \A f \in Fds : conn[f] = None /\ users[f].write_buf = Junk /\ users[f].buf = Junk
  BY LimitsAssumption DEF Init, Seated
<1>3. OnePlace  BY <1>2, ClientsAssumption DEF OnePlace
<1>4. InboxInOrder  BY <1>2 DEF InboxInOrder, Read
<1>5. Buffers  BY <1>2, MemoryAssumption DEF Buffers
<1>6. Heard /\ NextIsLater /\ OthersInOrder  BY <1>2 DEF Heard, NextIsLater, OthersInOrder
<1> QED  BY <1>1, <1>3, <1>4, <1>5, <1>6 DEF QuietInv, WordsInv

LEMMA QuietNext == Leavers = {} /\ QuietInv /\ [Next]_vars => QuietInv'
<1> SUFFICES ASSUME Leavers = {}, QuietInv, [Next]_vars  PROVE QuietInv'  OBVIOUS
<1>1. RoomInv'  BY RoomNext DEF QuietInv
<1>2. OnePlace' /\ WordsInv'
  <2>1. CASE Poll  BY <2>1, QuietPoll
  <2>2. CASE PollFails \/ EndOfRound \/ AcceptFails \/ NothingToWrite \/ Nothing \/ UNCHANGED vars
    BY <2>2, QuietPassive
  <2>3. CASE AcceptRefuse  BY <2>3, QuietRefuse
  <2>4. CASE Accept  BY <2>4, QuietAccept
  <2>5. CASE Recv  BY <2>5, QuietRecv
  <2>6. CASE Send  BY <2>6, QuietSend
  <2>7. CASE Error \/ HangUp \/ RecvFails
    BY <2>7, NobodyLeaves DEF Next, ServerStep
  <2>8. CASE ClientStep
    <3>1. PICK c \in Clients : Connect(c) \/ Say(c) \/ Leave(c)  BY <2>8 DEF ClientStep
    <3>2. ~Leave(c)  BY <2>8, NobodyLeaves DEF Next
    <3> QED  BY <3>1, <3>2, QuietConnect, QuietSay
  <2> QED
    BY <2>1, <2>2, <2>3, <2>4, <2>5, <2>6, <2>7, <2>8 DEF Next, ServerStep
<1> QED  BY <1>1, <1>2 DEF QuietInv

\* While nobody leaves, a client gets the messages of others only, those of each
\* in order and none twice, although all of them are sent from buffers that are
\* overwritten meanwhile.
THEOREM OthersAreHeardInOrder == ASSUME Leavers = {}  PROVE Spec => []OthersInOrder
<1>1. Init => QuietInv  BY QuietInit
<1>2. QuietInv /\ [Next]_vars => QuietInv'  BY QuietNext
<1>3. QuietInv => OthersInOrder  BY DEF QuietInv, WordsInv
<1> QED  BY <1>1, <1>2, <1>3, PTL DEF Spec

=============================================================================
