------------------------------ MODULE ChatClient ------------------------------
(***************************************************************************)
(* The chat client 9/9.6smalltalk_client.cpp: one thread polls its         *)
(* standard input and its socket; a pipe takes what is typed to the socket *)
(* without copying it.  Text is counted in lines.                          *)
(*                                                                         *)
(* The server's side is four variables: what it has sent, whether it has   *)
(* closed, what it was sent, and whether this end is closed.               *)
(***************************************************************************)
EXTENDS Naturals

CONSTANT MaxTyped    \* bound: how many lines the user types

VARIABLES
  at,          \* "poll", "loop", "stdin", "splice", "left" (the loop is over)
  revents,     \* of the last poll: "RDHUP", "IN", and "STDIN" for POLLIN of fds[0]
  typed, eof,  \* lines typed and not read, and whether the input has ended
  lines,       \* how many were typed
  pipe,        \* lines in the pipe
  shown,       \* how much of what was sent has been printed
  sent, closed, said

clientVars == << at, revents, typed, eof, lines, pipe, shown >>
socketVars == << sent, closed, said >>
vars == << clientVars, socketVars >>

ClientInit ==
  /\ at = "poll" /\ revents = {} /\ typed = 0 /\ eof = FALSE /\ lines = 0 /\ pipe = 0 /\ shown = 0

Type ==
  /\ ~ eof /\ lines < MaxTyped
  /\ typed' = typed + 1 /\ lines' = lines + 1
  /\ UNCHANGED << at, revents, eof, pipe, shown, socketVars >>

EndInput == ~ eof /\ eof' = TRUE /\ UNCHANGED << at, revents, typed, lines, pipe, shown, socketVars >>

\* Mutant: POLLRDHUP is not asked for.
Ready_NoHangUp ==
  (IF closed \/ shown < sent THEN {"IN"} ELSE {}) \cup (IF typed > 0 \/ eof THEN {"STDIN"} ELSE {})

\* A closed peer makes the socket readable as well.
Ready ==
  (IF closed THEN {"RDHUP", "IN"} ELSE IF shown < sent THEN {"IN"} ELSE {})
  \cup (IF typed > 0 \/ eof THEN {"STDIN"} ELSE {})

Poll ==
  /\ at = "poll" /\ Ready # {}
  /\ at' = "loop" /\ revents' = Ready
  /\ UNCHANGED << typed, eof, lines, pipe, shown, socketVars >>

PollFails ==
  /\ at = "poll" /\ at' = "left"
  /\ UNCHANGED << revents, typed, eof, lines, pipe, shown, socketVars >>

\* What the server sent before it closed is not printed.
HangUp ==
  /\ at = "loop" /\ "RDHUP" \in revents
  /\ at' = "left"
  /\ UNCHANGED << revents, typed, eof, lines, pipe, shown, socketVars >>

\* One recv of 63 bytes, of which nobody looks at the result.
Recv ==
  /\ at = "loop" /\ "IN" \in revents /\ "RDHUP" \notin revents
  /\ at' = "stdin"
  /\ shown' \in IF shown = sent THEN {shown} ELSE shown + 1 .. sent
  /\ UNCHANGED << revents, typed, eof, lines, pipe, socketVars >>

NoInput ==
  /\ at = "loop" /\ revents \cap {"RDHUP", "IN"} = {}
  /\ at' = "stdin"
  /\ UNCHANGED << revents, typed, eof, lines, pipe, shown, socketVars >>

NothingTyped ==
  /\ at = "stdin" /\ "STDIN" \notin revents
  /\ at' = "poll"
  /\ UNCHANGED << revents, typed, eof, lines, pipe, shown, socketVars >>

\* From standard input to the pipe; at the end of the input that is nothing.
SpliceIn ==
  /\ at = "stdin" /\ "STDIN" \in revents
  /\ at' = "splice" /\ pipe' = pipe + typed /\ typed' = 0
  /\ UNCHANGED << revents, eof, lines, shown, socketVars >>

\* From the pipe to the socket; the call waits while the pipe is empty.
SpliceOut ==
  /\ at = "splice" /\ pipe > 0
  /\ at' = "poll" /\ said' = said + pipe /\ pipe' = 0
  /\ UNCHANGED << revents, typed, eof, lines, shown, sent, closed >>

\* A reset has come: what was typed stays in the pipe.
SpliceFails ==
  /\ at = "splice" /\ pipe > 0 /\ closed
  /\ at' = "poll"
  /\ UNCHANGED << revents, typed, eof, lines, pipe, shown, socketVars >>

ClientStep ==
  \/ Poll \/ HangUp \/ Recv \/ NoInput \/ NothingTyped \/ SpliceIn \/ SpliceOut \/ SpliceFails

-----------------------------------------------------------------------------
(* The client with any server that sends finitely much                      *)

CONSTANT MaxSent

Init == ClientInit /\ sent = 0 /\ closed = FALSE /\ said = 0

ServerSends ==
  /\ ~ closed /\ sent < MaxSent /\ sent' = sent + 1 /\ UNCHANGED << clientVars, closed, said >>
ServerCloses == ~ closed /\ closed' = TRUE /\ UNCHANGED << clientVars, sent, said >>

Next == ClientStep \/ Type \/ EndInput \/ PollFails \/ ServerSends \/ ServerCloses

\* The client's thread runs as long as it is not waiting.
Spec == Init /\ [][Next]_vars /\ WF_vars(ClientStep)

-----------------------------------------------------------------------------
\* Once the server has closed, the client leaves its loop, unless its input has
\* ended: then the second splice of line 85 waits for ever on the empty pipe, and
\* the hang-up of line 69 is never looked at.
HangUpEndsClient == closed ~> at = "left" \/ (eof /\ at = "splice")
=============================================================================
