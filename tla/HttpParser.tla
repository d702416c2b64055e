------------------------------ MODULE HttpParser ------------------------------
(***************************************************************************)
(* The request parser of 8/8-3httpparser.cpp: recv appends to one buffer,  *)
(* parse_content takes the lines that are complete, and a request may be   *)
(* cut anywhere between two calls of recv.                                 *)
(*                                                                         *)
(* A character is CR, LF, or stands for a piece of text without either:    *)
(* Request for a request line that parse_requestline accepts, Text for any *)
(* other.                                                                  *)
(***************************************************************************)
EXTENDS Naturals, Sequences

CONSTANTS
  BUFFER_SIZE,
  MaxPiece,    \* bound: what one recv returns
  CR, LF, Request, Text,
  Nul          \* what parse_line writes over the end of a line

Chars == {CR, LF, Request, Text}

\* What is assumed of the constants.
SizeAssumption  == BUFFER_SIZE \in Nat /\ MaxPiece \in Nat
CharsAssumption == Nul \notin Chars /\ CR # LF /\ {CR, LF} \cap {Request, Text} = {}

VARIABLES
  buffer,          \* its first read_index characters
  checked_index,
  start_line,
  checkstate,      \* "REQUESTLINE", "HEADER"
  step,            \* "recv", "parse_content", "closed"
  answer,          \* what was sent: "none", "correct", "wrong"
  received         \* everything recv has returned, as it came

vars == << buffer, checked_index, start_line, checkstate, step, answer, received >>

read_index == Len(buffer)

Init ==
  /\ buffer = <<>>
  /\ checked_index = 0 /\ start_line = 0
  /\ checkstate = "REQUESTLINE"
  /\ step = "recv" /\ answer = "none"
  /\ received = <<>>

-----------------------------------------------------------------------------
(* The receive loop                                                         *)

Recv ==
  /\ step = "recv"
  /\ \E n \in 1 .. MaxPiece : \E piece \in [1 .. n -> Chars] :
       /\ n <= BUFFER_SIZE - read_index
       /\ buffer' = buffer \o piece
       /\ received' = received \o piece
  /\ step' = "parse_content"
  /\ UNCHANGED << checked_index, start_line, checkstate, answer >>

\* An error, the end of the connection, or no room left: recv is asked for 0
\* bytes and returns 0.  Nothing is sent.
RecvEnds ==
  /\ step = "recv"
  /\ step' = "closed"
  /\ UNCHANGED << buffer, checked_index, start_line, checkstate, answer, received >>

Answered(a) == step' = "closed" /\ answer' = a

-----------------------------------------------------------------------------
(* parse_line                                                               *)

\* Character i of buffer, counted from 0 as in the code.
Char(i) == buffer[i + 1]

\* Where the loop of parse_line stops; read_index when it runs to its end.
Breaks == {i \in checked_index .. read_index - 1 : Char(i) \in {CR, LF}}
Stop == IF Breaks = {} THEN read_index
        ELSE CHOOSE i \in Breaks : \A j \in Breaks : i <= j

\* Mutant: a CR at the end of what has arrived is taken for a stray one.
LineStatus_NotPatient ==
  IF Stop = read_index THEN "OPEN"
  ELSE IF Char(Stop) = CR /\ Stop + 1 < read_index /\ Char(Stop + 1) = LF THEN "OK"
  ELSE "BAD"

\* 38-47 asks for a CR before the LF, and the loop never leaves one behind.
LateLF(i) == i > 1 /\ Char(i - 1) = CR
LineStatus ==
  IF Stop = read_index THEN "OPEN"
  ELSE IF Char(Stop) = CR
    THEN IF Stop + 1 = read_index THEN "OPEN"
         ELSE IF Char(Stop + 1) = LF THEN "OK" ELSE "BAD"
    ELSE IF LateLF(Stop) THEN "OK" ELSE "BAD"

\* The end of the line is overwritten; checked_index is left behind it.
LineEnd == IF Char(Stop) = CR THEN << Stop, Stop + 1 >> ELSE << Stop - 1, Stop >>
Cut == [i \in 1 .. read_index |->
          IF i - 1 \in {LineEnd[1], LineEnd[2]} THEN Nul ELSE buffer[i]]
Line == SubSeq(buffer, start_line + 1, LineEnd[1])

-----------------------------------------------------------------------------
(* parse_content, one line at a time                                        *)

TakeLine ==
  /\ step = "parse_content" /\ LineStatus = "OK"
  /\ buffer' = Cut
  /\ checked_index' = LineEnd[2] + 1
  /\ start_line' = checked_index'
  /\ UNCHANGED received

RequestLine ==
  /\ TakeLine /\ checkstate = "REQUESTLINE"
  /\ Line = << Request >>
  /\ checkstate' = "HEADER"
  /\ UNCHANGED << step, answer >>

BadRequestLine ==
  /\ TakeLine /\ checkstate = "REQUESTLINE"
  /\ Line # << Request >>
  /\ Answered("wrong")
  /\ UNCHANGED checkstate

\* Every header is accepted.
Header ==
  /\ TakeLine /\ checkstate = "HEADER"
  /\ Line # <<>>
  /\ UNCHANGED << checkstate, step, answer >>

EmptyLine ==
  /\ TakeLine /\ checkstate = "HEADER"
  /\ Line = <<>>
  /\ Answered("correct")
  /\ UNCHANGED checkstate

LineOpen ==
  /\ step = "parse_content" /\ LineStatus = "OPEN"
  /\ checked_index' = Stop
  /\ step' = "recv"
  /\ UNCHANGED << buffer, start_line, checkstate, answer, received >>

LineBad ==
  /\ step = "parse_content" /\ LineStatus = "BAD"
  /\ checked_index' = Stop
  /\ Answered("wrong")
  /\ UNCHANGED << buffer, start_line, checkstate, received >>

-----------------------------------------------------------------------------
ParseContent == RequestLine \/ BadRequestLine \/ Header \/ EmptyLine \/ LineOpen \/ LineBad

Next == Recv \/ RecvEnds \/ ParseContent

Spec == Init /\ [][Next]_vars

-----------------------------------------------------------------------------
(* Properties                                                               *)

TypeOK ==
  /\ buffer \in Seq(Chars \cup {Nul}) /\ read_index <= BUFFER_SIZE
  /\ start_line <= checked_index /\ checked_index <= read_index
  /\ checkstate \in {"REQUESTLINE", "HEADER"}
  /\ step \in {"recv", "parse_content", "closed"}
  /\ answer \in {"none", "correct", "wrong"}
  /\ received \in Seq(Chars) /\ Len(received) = read_index

\* The verdict on a request seen as a whole: the earliest of a stray CR or LF,
\* the end of a first line that is no request line, and an empty line.
Ends(s)  == {k \in 2 .. Len(s) : s[k - 1] = CR /\ s[k] = LF}
Stray(s) == {k \in 2 .. Len(s) : s[k - 1] = CR /\ s[k] # LF}
              \cup {k \in 1 .. Len(s) : s[k] = LF /\ k \notin Ends(s)}
First(S, k) == k \in S /\ \A j \in S : k <= j
WrongAt(s) == Stray(s) \cup {k \in Ends(s) : First(Ends(s), k) /\ SubSeq(s, 1, k - 2) # << Request >>}
CorrectAt(s) == {k \in Ends(s) : k - 2 \in Ends(s)}
Verdict(s) ==
  IF WrongAt(s) \cup CorrectAt(s) = {} THEN "none"
  ELSE LET k == CHOOSE k \in WrongAt(s) \cup CorrectAt(s) :
                  First(WrongAt(s) \cup CorrectAt(s), k)
       IN IF k \in WrongAt(s) THEN "wrong" ELSE "correct"

\* However the request was cut into pieces, what is answered is the verdict on
\* all that was received, and no verdict is overlooked (parse_line 18-50 with
\* the four indexes of main).
CutsDoNotMatter == step # "parse_content" => answer = Verdict(received)
=============================================================================
