-------------------------------- MODULE UniEvent --------------------------------
(***************************************************************************)
(* The unified event source of 10/10.1unievent.cpp: the handler of a       *)
(* signal writes its number into a socket pair, and the loop, waiting for  *)
(* connections as well, reads the numbers there.  Everything is            *)
(* edge-triggered, one accept is made per event, and what connections send *)
(* is not read.  recv takes 1024 bytes, more than the pair ever holds.     *)
(***************************************************************************)
EXTENDS Naturals, Sequences

CONSTANTS
  PIPE_SIZE,             \* what fits into the socket pair
  MaxSignals, MaxConns,  \* bounds
  listenfd, pipefd

PipeAssumption == PIPE_SIZE \in 1 .. 1024

Stops == {"SIGTERM", "SIGINT"}
Signals == Stops \cup {"SIGHUP", "SIGCHLD", "SIGQUIT"}

VARIABLES
  pipe,            \* the signals in it
  edges, events,   \* descriptors with an edge not reported; reported and not handled
  stop_server, pc, \* "loop", "close" (the loop is over), "closed" (pipefd[1] is), "ended"
  backlog, conns,  \* connections not accepted, and all there were
  raised, told,    \* the number of signals; one of those that stop it went into the pair
  merged           \* connections that met an edge of another

loopVars == << events, stop_server, pc >>
connVars == << backlog, conns, merged >>
vars == << pipe, edges, loopVars, connVars, raised, told >>

Init ==
  /\ pipe = <<>> /\ edges = {} /\ events = {} /\ stop_server = FALSE /\ pc = "loop"
  /\ backlog = 0 /\ conns = 0 /\ merged = 0 /\ raised = 0 /\ told = FALSE

Connect ==
  /\ pc = "loop" /\ conns < MaxConns
  /\ conns' = conns + 1 /\ backlog' = backlog + 1
  /\ edges' = edges \cup {listenfd}
  /\ merged' = IF listenfd \in edges THEN merged + 1 ELSE merged
  /\ UNCHANGED << pipe, loopVars, raised, told >>

\* sig_handler runs at any point; send does not block, and nobody looks at its
\* result, which is EAGAIN when the pair is full and EBADF once it is closed.
Handler ==
  /\ pc # "ended" /\ raised < MaxSignals
  /\ raised' = raised + 1
  /\ \E sig \in Signals :
       IF pc # "closed" /\ Len(pipe) < PIPE_SIZE
       THEN /\ pipe' = Append(pipe, sig) /\ edges' = edges \cup {pipefd}
            /\ told' = (told \/ sig \in Stops)
       ELSE UNCHANGED << pipe, edges, told >>
  /\ UNCHANGED << loopVars, connVars >>

-----------------------------------------------------------------------------
Waiting == pc = "loop" /\ events = {} /\ ~ stop_server

\* A signal interrupts the call with EINTR: the round has no event then.
EpollWait ==
  /\ Waiting /\ edges # {}
  /\ events' = edges /\ edges' = {}
  /\ UNCHANGED << pipe, stop_server, pc, connVars, raised, told >>

Handling(f) == f \in events /\ events' = events \ {f}

Accept ==
  /\ Handling(listenfd)
  /\ backlog' = backlog - 1
  /\ UNCHANGED << pipe, edges, stop_server, pc, conns, merged, raised, told >>

\* All there are; SIGHUP and SIGCHLD are passed over, SIGQUIT is in no case.
RecvSignals ==
  /\ Handling(pipefd) /\ pipe # <<>>
  /\ pipe' = <<>>
  /\ stop_server' = (stop_server \/ \E n \in DOMAIN pipe : pipe[n] \in Stops)
  /\ UNCHANGED << edges, pc, connVars, raised, told >>

\* The signal of this edge was read with the ones before it.
RecvNothing ==
  /\ Handling(pipefd) /\ pipe = <<>>
  /\ UNCHANGED << pipe, edges, stop_server, pc, connVars, raised, told >>

LoopEnds ==
  /\ pc = "loop" /\ events = {} /\ stop_server
  /\ pc' = "close"
  /\ UNCHANGED << pipe, edges, events, stop_server, connVars, raised, told >>

\* pipefd[1], then pipefd[0]: a handler that runs in between gets no SIGPIPE.
Close ==
  /\ \/ pc = "close" /\ pc' = "closed"
     \/ pc = "closed" /\ pc' = "ended"
  /\ UNCHANGED << pipe, edges, events, stop_server, connVars, raised, told >>

Next ==
  \/ Connect \/ Handler
  \/ EpollWait \/ Accept \/ RecvSignals \/ RecvNothing \/ LoopEnds \/ Close

Spec == Init /\ [][Next]_vars

-----------------------------------------------------------------------------
\* A loop that waits has read every signal that found room in the pair, and none
\* of them was to stop it (lines 139-163: one recv takes all of an edge, and what
\* comes later makes an edge of its own); it strands as many connections as came
\* in an edge of another (129-135).
SignalsAreRead ==
  Waiting /\ edges = {} => pipe = <<>> /\ ~ told /\ backlog <= merged
=============================================================================
