------------------------------ MODULE MCPrograms ------------------------------
(* The programs of one process and one thread, each on its own: a behaviour *)
(* runs one of them, and the others stay where they start.  The stress      *)
(* client runs with the http_conn that serves it.                           *)
EXTENDS Naturals, Sequences, FiniteSets

VARIABLE program

-----------------------------------------------------------------------------
(* HttpParser                                                               *)

CONSTANTS BUFFER_SIZE, MaxPiece, CR, LF, Request, Text, Nul
VARIABLES buffer, checked_index, start_line, checkstate, step, answer, received
parserVars == << buffer, checked_index, start_line, checkstate, step, answer, received >>
Parser == INSTANCE HttpParser

ASSUME ParserAssumption == Parser!SizeAssumption /\ Parser!CharsAssumption

-----------------------------------------------------------------------------
(* NonactiveConn                                                            *)

CONSTANTS Clients, Fds, TIMESLOT, MaxSends, listenfd, pipefd, NULL
VARIABLES fresh, unread, sends, hup, backlog, conn, edges, alarm, pipe, users, timer_lst,
          expire, user_data, events, timeout, stop_server, at, quiet
closerVars == << fresh, unread, sends, hup, backlog, conn, edges, alarm, pipe, users, timer_lst,
                 expire, user_data, events, timeout, stop_server, at, quiet >>
Closer == INSTANCE NonactiveConn

MCFds == {5, 6}

ASSUME CloserAssumption ==
  Closer!FdsAssumption /\ Closer!NamesAssumption /\ Closer!TimeslotAssumption

-----------------------------------------------------------------------------
(* HttpConn and StressClient                                                *)

CONSTANTS KeepAlive, Length, Page, EmptyFile, Missing, Secret, Directory, CONTENT_LENGTH,
          READ_BUFFER_SIZE, WRITE_BUFFER_SIZE, Messages, NoMap, MaxConns, MaxSaid, MaxShort
VARIABLES m_sockfd, m_read_buf, m_checked_idx, m_start_line, m_check_state, m_url,
          m_content_length, m_linger, m_write_idx, m_iv, m_file_address, m_file_stat,
          line_status, ret, have_send, armed, phase, coming, said, got, conns, mapped, hungUp,
          stream, answers, shorts
connVars == << m_sockfd, m_read_buf, m_checked_idx, m_start_line, m_check_state, m_url,
               m_content_length, m_linger, m_write_idx, m_iv, m_file_address, m_file_stat,
               line_status, ret, have_send, armed, phase, coming, said, got, conns, mapped,
               hungUp, stream, answers, shorts >>
VARIABLES want, seen, split
stressVars == << want, seen, split >>
Conn == INSTANCE StressClient    \* HttpConn with the client of its connection

\* Every outcome of do_request, with and without keep-alive; contents of which
\* one has a line end; no request line, no line, a stray CR, a stray LF.
MCMessages ==
  { << Page, CR, LF, CR, LF >>,
    << Page, CR, LF, KeepAlive, CR, LF, CR, LF >>,
    << Secret, CR, LF, Text, CR, LF, CR, LF >>,
    << Missing, CR, LF, KeepAlive, CR, LF, CR, LF >>,
    << Directory, CR, LF, CR, LF >>,
    << EmptyFile, CR, LF, KeepAlive, CR, LF, CR, LF >>,
    << Page, CR, LF, Length, CR, LF, KeepAlive, CR, LF, CR, LF, Text, Text, Text >>,
    << Page, CR, LF, Length, CR, LF, CR, LF, CR, LF, Text >>,
    << Text, CR, LF, CR, LF >>, << CR, LF >>,
    << Page, CR, LF, Text, CR, CR, LF >>, << Page, LF >> }

ASSUME ConnAssumption ==
  Conn!MessagesAssumption /\ Conn!SizesAssumption /\ Conn!ClientAssumption

-----------------------------------------------------------------------------
(* EchoServers                                                              *)

CONSTANTS MAX_CONNECTION, Sizes, udpfd, Udp, Beyond, None
VARIABLES server, pc, sockfd, echo_events, failed, echo_edges, buff, filled, n_connect, echo_conn,
          echo_backlog, datagram, peer, echo_unread, echo_said, echo_got, merged
Echo == INSTANCE EchoServers WITH
          MaxSaid <- 1,    \* one piece from each client
          events <- echo_events, edges <- echo_edges, conn <- echo_conn,
          backlog <- echo_backlog, unread <- echo_unread, said <- echo_said, got <- echo_got
echoVars == << server, pc, sockfd, echo_events, failed, echo_edges, buff, filled, n_connect,
               echo_conn, echo_backlog, datagram, peer, echo_unread, echo_said, echo_got, merged >>

ASSUME EchoAssumption == Echo!FdsAssumption

-----------------------------------------------------------------------------
(* UniEvent, ChatClient and IoTimer                                         *)

CONSTANTS PIPE_SIZE, MaxSignals, MaxTyped, MaxSent, TIMEOUT, Ticks, MaxOutside
VARIABLES uni_pipe, uni_edges, uni_events, uni_stop, uni_pc, uni_backlog, uni_conns, raised, told,
          uni_merged
VARIABLES chat_at, revents, typed, eof, lines, chat_pipe, shown, chat_sent, closed, chat_said
VARIABLES doing, frac, left, crossed, waiting, since, outside
Uni == INSTANCE UniEvent WITH
         pipe <- uni_pipe, edges <- uni_edges, events <- uni_events, stop_server <- uni_stop,
         pc <- uni_pc, backlog <- uni_backlog, conns <- uni_conns, merged <- uni_merged
Chat == INSTANCE ChatClient WITH
          at <- chat_at, pipe <- chat_pipe, sent <- chat_sent, said <- chat_said
Timer == INSTANCE IoTimer
uniVars   == << uni_pipe, uni_edges, uni_events, uni_stop, uni_pc, uni_backlog, uni_conns, raised,
                told, uni_merged >>
chatVars  == << chat_at, revents, typed, eof, lines, chat_pipe, shown, chat_sent, closed,
                chat_said >>
timerVars == << doing, frac, left, crossed, waiting, since, outside >>

ASSUME UniAssumption == Uni!PipeAssumption
ASSUME TimerAssumption == Timer!TimerAssumption

-----------------------------------------------------------------------------
Programs == {"HttpParser", "NonactiveConn", "HttpConn", "StressClient", "EchoServers", "UniEvent",
             "ChatClient", "IoTimer"}

vars == << program, parserVars, closerVars, connVars, stressVars, echoVars, uniVars, chatVars,
           timerVars >>

\* What the programs other than p keep.
Keep(p) ==
  /\ program = p /\ UNCHANGED program
  /\ p # "HttpParser" => UNCHANGED parserVars
  /\ p # "NonactiveConn" => UNCHANGED closerVars
  /\ p \notin {"HttpConn", "StressClient"} => UNCHANGED connVars
  /\ p # "StressClient" => UNCHANGED stressVars
  /\ p # "EchoServers" => UNCHANGED echoVars
  /\ p # "UniEvent" => UNCHANGED uniVars
  /\ p # "ChatClient" => UNCHANGED chatVars
  /\ p # "IoTimer" => UNCHANGED timerVars

Init ==
  /\ program \in Programs
  /\ Parser!Init /\ Closer!Init /\ Conn!StressInit /\ Echo!Init /\ Uni!Init /\ Chat!Init
  /\ Timer!Init
  /\ program # "EchoServers" => server = "lt"           \* one start for the others
  /\ program # "IoTimer" => frac = 0

Next ==
  \/ Keep("HttpParser")    /\ Parser!Next
  \/ Keep("NonactiveConn") /\ Closer!Next
  \/ Keep("HttpConn")      /\ Conn!Next
  \/ Keep("StressClient")  /\ Conn!StressNext
  \/ Keep("EchoServers")   /\ Echo!Next
  \/ Keep("UniEvent")      /\ Uni!Next
  \/ Keep("ChatClient")    /\ Chat!Next
  \/ Keep("IoTimer")       /\ Timer!Next

Spec == Init /\ [][Next]_vars

FairSpec ==
  /\ Spec
  /\ WF_closerVars(program = "NonactiveConn" /\ Closer!Loop)
  /\ WF_closerVars(program = "NonactiveConn" /\ Closer!Clock)
  /\ WF_chatVars(program = "ChatClient" /\ Chat!ClientStep)

-----------------------------------------------------------------------------
\* Every program keeps its types (the types of each module).
TypeOK ==
  /\ program = "HttpParser" => Parser!TypeOK
  /\ program = "NonactiveConn" => Closer!TypeOK
  /\ program = "HttpConn" => Conn!TypeOK

\* The properties of HttpParser.
CutsDoNotMatter == program = "HttpParser" => Parser!CutsDoNotMatter

\* The properties of NonactiveConn.
TimerPerConnection == Closer!TimerPerConnection
ClosedWhenIdle     == Closer!ClosedWhenIdle
IdleIsClosed       == program = "NonactiveConn" => Closer!IdleIsClosed

\* The properties of HttpConn.
VerdictOnRequest == program = "HttpConn" => Conn!VerdictOnRequest
AnswersWhole     == Conn!AnswersWhole
MappingsEnd      == Conn!MappingsEnd

\* The property of StressClient.
PagePerRequest == program = "StressClient" => Conn!PagePerRequest

\* The properties of EchoServers and UniEvent.
WaitsWithNothingLeft ==
  /\ program = "EchoServers" => Echo!WaitsWithNothingLeft
  /\ program = "UniEvent" => Uni!SignalsAreRead
EchoIsOwn == Echo!EchoIsOwn

\* The properties of ChatClient and IoTimer.
HangUpEndsClient == program = "ChatClient" => Chat!HangUpEndsClient
OnTime           == Timer!OnTime
=============================================================================
