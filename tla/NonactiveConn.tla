----------------------------- MODULE NonactiveConn -----------------------------
(***************************************************************************)
(* The server of 11/11-3nonactive_conn.cpp, which closes connections that  *)
(* have been idle for three time slots: one loop, a self-pipe for signals, *)
(* an alarm that is armed again after each tick, and a list of timers.     *)
(*                                                                         *)
(* Only differences of times matter, so the clock is modelled by the time  *)
(* that is left to the alarm and to each timer.  The timer list itself     *)
(* (lst_timer.h) is not in the repository.                                 *)
(***************************************************************************)
EXTENDS Naturals, Sequences, FiniteSets

CONSTANTS
  Clients,     \* the connections of a run, each made once; also their timers
  Fds,         \* the descriptors accept can return
  TIMESLOT,
  MaxSends,    \* bound: what a client sends
  listenfd, pipefd,
  NULL

Idle == 3 * TIMESLOT   \* the life of a connection nothing is heard of

\* What is assumed of the constants.
FdsAssumption ==
  /\ IsFiniteSet(Fds) /\ Fds \subseteq Nat
  /\ IsFiniteSet(Clients) /\ Cardinality(Clients) <= Cardinality(Fds)
NamesAssumption == {listenfd, pipefd} \cap Fds = {} /\ listenfd # pipefd /\ NULL \notin Clients
TimeslotAssumption == TIMESLOT \in Nat \ {0} /\ MaxSends \in Nat

VARIABLES
  \* The clients and the kernel.
  fresh, unread, sends, hup,
  backlog,
  conn,       \* the connection under each descriptor
  edges,      \* descriptors with a report to come (all are edge-triggered)
  alarm,      \* the time left to SIGALRM; 0 when none is armed
  pipe,       \* signals in the self-pipe
  \* The server.
  users,      \* users[fd].timer: a pointer, which nobody clears
  timer_lst,  \* the timers in the list
  expire,     \* the time left to each timer
  user_data,  \* the descriptor a timer is for
  events,     \* reported and not handled yet
  timeout, stop_server,
  at,         \* "loop", "stopped"
  quiet       \* the time since each connection was accepted or read from

client == << fresh, unread, sends, hup >>
kernel == << backlog, conn, edges >>
timers == << users, timer_lst, expire, user_data, quiet >>
flags  == << timeout, stop_server >>
vars   == << client, kernel, alarm, pipe, timers, events, flags, at >>

Init ==
  /\ fresh = Clients /\ hup = {}
  /\ unread = [c \in Clients |-> 0] /\ sends = [c \in Clients |-> 0]
  /\ backlog = <<>>
  /\ conn = [f \in Fds |-> NULL]
  /\ edges = {}
  /\ alarm = TIMESLOT
  /\ pipe = {}
  /\ users = [f \in Fds |-> NULL]
  /\ timer_lst = {}
  /\ expire = [c \in Clients |-> 0]
  /\ user_data = [c \in Clients |-> NULL]
  /\ events = {}
  /\ timeout = FALSE /\ stop_server = FALSE
  /\ at = "loop"
  /\ quiet = [c \in Clients |-> 0]

Open == {f \in Fds : conn[f] # NULL}
Under(c) == {f \in Fds : conn[f] = c}

-----------------------------------------------------------------------------
(* The world outside                                                        *)

Connect(c) ==
  /\ c \in fresh /\ fresh' = fresh \ {c}
  /\ backlog' = Append(backlog, c)
  /\ edges' = edges \cup {listenfd}
  /\ UNCHANGED << unread, sends, hup, conn, alarm, pipe, timers, events, flags, at >>

\* Everything a client sends between two reads fits BUFFER_SIZE - 1.
Send(c) ==
  /\ c \notin fresh \cup hup /\ sends[c] < MaxSends
  /\ sends' = [sends EXCEPT ![c] = @ + 1]
  /\ unread' = [unread EXCEPT ![c] = @ + 1]
  /\ edges' = edges \cup Under(c)
  /\ UNCHANGED << fresh, hup, backlog, conn, alarm, pipe, timers, events, flags, at >>

HangUp(c) ==
  /\ c \notin fresh \cup hup
  /\ hup' = hup \cup {c}
  /\ edges' = edges \cup Under(c)
  /\ UNCHANGED << fresh, unread, sends, backlog, conn, alarm, pipe, timers, events, flags, at >>

Less(n) == IF n = 0 THEN 0 ELSE n - 1

\* A unit of time passes; when the alarm is due, sig_handler writes to the pipe.
Clock ==
  /\ alarm' = Less(alarm)
  /\ expire' = [c \in Clients |-> Less(expire[c])]
  /\ quiet' = [c \in Clients |-> IF quiet[c] < Idle THEN quiet[c] + 1 ELSE Idle]
  /\ IF alarm = 1
       THEN pipe' = pipe \cup {"SIGALRM"} /\ edges' = edges \cup {pipefd}
       ELSE UNCHANGED << pipe, edges >>
  /\ UNCHANGED << client, backlog, conn, users, timer_lst, user_data, events, flags, at >>

Terminate ==
  /\ "SIGTERM" \notin pipe /\ ~stop_server
  /\ pipe' = pipe \cup {"SIGTERM"}
  /\ edges' = edges \cup {pipefd}
  /\ UNCHANGED << client, backlog, conn, alarm, timers, events, flags, at >>

-----------------------------------------------------------------------------
(* The main loop                                                            *)

EpollWait ==
  /\ at = "loop" /\ events = {} /\ ~timeout /\ ~stop_server
  /\ edges # {}
  /\ events' = edges
  /\ edges' = {}
  /\ UNCHANGED << client, backlog, conn, alarm, pipe, timers, flags, at >>

Handles(fd) == fd \in events /\ events' = events \ {fd}

LowestFree(f) == f \notin Open /\ \A g \in Fds : g < f => g \in Open

Accept ==
  /\ Handles(listenfd)
  /\ \E f \in Fds : LET c == Head(backlog) IN
       /\ LowestFree(f)
       /\ backlog' = Tail(backlog)
       /\ conn' = [conn EXCEPT ![f] = c]
       /\ edges' = IF unread[c] > 0 \/ c \in hup THEN edges \cup {f} ELSE edges
       /\ user_data' = [user_data EXCEPT ![c] = f]
       /\ expire' = [expire EXCEPT ![c] = Idle]
       /\ users' = [users EXCEPT ![f] = c]
       /\ timer_lst' = timer_lst \cup {c}
       /\ quiet' = [quiet EXCEPT ![c] = 0]
  /\ UNCHANGED << client, alarm, pipe, flags, at >>

\* The switch of 180-183 has no break after SIGTERM and needs none.
Signals ==
  /\ Handles(pipefd)
  /\ timeout' = (timeout \/ "SIGALRM" \in pipe)
  /\ stop_server' = (stop_server \/ "SIGTERM" \in pipe)
  /\ pipe' = {}
  /\ UNCHANGED << client, kernel, alarm, timers, at >>

\* cb_func for a set of timers: close ends the connections, whatever
\* epoll_ctl makes of a descriptor that is not an epoll instance.
Closed(C) ==
  LET gone == {user_data[c] : c \in C} IN
    /\ conn' = [f \in Fds |-> IF f \in gone THEN NULL ELSE conn[f]]
    /\ edges' = edges \ gone

\* Mutant: the timer is left in the list.
Drop_KeepsTimer(f) ==
  /\ Closed({users[f]})
  /\ UNCHANGED << timer_lst >>

\* users[fd].timer, which is never NULL here, goes with the connection.
Drop(f) ==
  /\ Closed({users[f]})
  /\ timer_lst' = timer_lst \ {users[f]}

RecvFails ==
  /\ \E f \in Open : Handles(f) /\ conn[f] \in hup /\ Drop(f)
  /\ UNCHANGED << client, backlog, alarm, pipe, users, expire, user_data, quiet, flags, at >>

RecvNothing ==
  /\ \E f \in Open : Handles(f) /\ unread[conn[f]] = 0 /\ conn[f] \in hup /\ Drop(f)
  /\ UNCHANGED << client, backlog, alarm, pipe, users, expire, user_data, quiet, flags, at >>

RecvAgain ==
  /\ \E f \in Open : Handles(f) /\ unread[conn[f]] = 0 /\ conn[f] \notin hup
  /\ UNCHANGED << client, kernel, alarm, pipe, timers, flags, at >>

\* Mutant: the timer is given a slot too much.
RecvData_Later ==
  /\ \E f \in Open :
       /\ Handles(f) /\ unread[conn[f]] > 0
       /\ unread' = [unread EXCEPT ![conn[f]] = 0]
       /\ expire' = [expire EXCEPT ![users[f]] = Idle + TIMESLOT]
       /\ quiet' = [quiet EXCEPT ![conn[f]] = 0]
  /\ UNCHANGED << fresh, sends, hup, kernel, alarm, pipe, users, timer_lst, user_data, flags, at >>

\* Mutant: the timer is not adjusted.
RecvData_NoAdjust ==
  /\ \E f \in Open :
       /\ Handles(f) /\ unread[conn[f]] > 0
       /\ unread' = [unread EXCEPT ![conn[f]] = 0]
       /\ quiet' = [quiet EXCEPT ![conn[f]] = 0]
  /\ UNCHANGED << fresh, sends, hup, kernel, alarm, pipe, users, timer_lst, expire, user_data, flags, at >>

\* A hang-up behind the data is not reported again: only the timer ends it.
RecvData ==
  /\ \E f \in Open :
       /\ Handles(f) /\ unread[conn[f]] > 0
       /\ unread' = [unread EXCEPT ![conn[f]] = 0]
       /\ expire' = [expire EXCEPT ![users[f]] = Idle]
       /\ quiet' = [quiet EXCEPT ![conn[f]] = 0]
  /\ UNCHANGED << fresh, sends, hup, kernel, alarm, pipe, users, timer_lst, user_data, flags, at >>

Due == {c \in timer_lst : expire[c] = 0}

\* Mutant: the alarm is armed again only while there are timers.
TimerHandler_AlarmIfTimers ==
  /\ at = "loop" /\ events = {} /\ timeout
  /\ Closed(Due)
  /\ timer_lst' = timer_lst \ Due
  /\ alarm' = IF timer_lst' = {} THEN alarm ELSE TIMESLOT
  /\ timeout' = FALSE
  /\ UNCHANGED << client, backlog, pipe, users, expire, user_data, quiet, events, stop_server, at >>

TimerHandler ==
  /\ at = "loop" /\ events = {} /\ timeout
  /\ Closed(Due)
  /\ timer_lst' = timer_lst \ Due
  /\ alarm' = TIMESLOT
  /\ timeout' = FALSE
  /\ UNCHANGED << client, backlog, pipe, users, expire, user_data, quiet, events, stop_server, at >>

Leave ==
  /\ at = "loop" /\ events = {} /\ ~timeout /\ stop_server
  /\ at' = "stopped"
  /\ UNCHANGED << client, kernel, alarm, pipe, timers, events, flags >>

-----------------------------------------------------------------------------
Loop ==
  \/ EpollWait \/ Accept \/ Signals \/ RecvFails \/ RecvNothing \/ RecvAgain \/ RecvData
  \/ TimerHandler \/ Leave

Next ==
  \/ \E c \in Clients : Connect(c) \/ Send(c) \/ HangUp(c)
  \/ Clock \/ Terminate
  \/ Loop

Spec == Init /\ [][Next]_vars

\* Time goes on and the loop is scheduled.
FairSpec == Spec /\ WF_vars(Clock) /\ WF_vars(Loop)

-----------------------------------------------------------------------------
(* Properties                                                               *)

TypeOK ==
  /\ fresh \subseteq Clients /\ hup \subseteq Clients
  /\ unread \in [Clients -> 0 .. MaxSends] /\ sends \in [Clients -> 0 .. MaxSends]
  /\ backlog \in Seq(Clients)
  /\ conn \in [Fds -> Clients \cup {NULL}]
  /\ edges \subseteq Fds \cup {listenfd, pipefd} /\ events \subseteq Fds \cup {listenfd, pipefd}
  /\ alarm \in 0 .. TIMESLOT
  /\ pipe \subseteq {"SIGALRM", "SIGTERM"}
  /\ users \in [Fds -> Clients \cup {NULL}]
  /\ timer_lst \subseteq Clients
  /\ expire \in [Clients -> 0 .. Idle] /\ quiet \in [Clients -> 0 .. Idle]
  /\ user_data \in [Clients -> Fds \cup {NULL}]
  /\ timeout \in BOOLEAN /\ stop_server \in BOOLEAN /\ at \in {"loop", "stopped"}

\* Every open connection has its own timer in the list, and no timer there is
\* for a connection that was closed: its descriptor may be another's by now
\* (accept 145-152, both closing branches 194-212, tick).
TimerPerConnection ==
  /\ timer_lst = {conn[f] : f \in Open}
  /\ \A f \in Open : users[f] = conn[f] /\ user_data[conn[f]] = f

\* A connection is closed for a hang-up, or after three slots without input
\* (216-222), whatever else is in the round that ends with the tick.
ClosedWhenIdle ==
  [][\A f \in Open : conn'[f] # conn[f] => conn[f] \in hup \/ quiet[conn[f]] = Idle]_vars

\* In the end every connection is closed, also one whose hang-up came together
\* with data and is not reported any more, unless the server is stopped.
IdleIsClosed ==
  \A c \in Clients : Under(c) # {} ~> Under(c) = {} \/ at = "stopped"
=============================================================================
