--------------------------- MODULE HttpParserProofs ---------------------------
(***************************************************************************)
(* The answer of the request parser depends on what was received and not   *)
(* on how it was cut into pieces, for buffers and pieces of every size.    *)
(*                                                                         *)
(* Positions in received are counted from 1, as in Ends, Stray and Verdict: *)
(* what parse_line has passed are the positions 1 .. checked_index.        *)
(***************************************************************************)
EXTENDS HttpParser, LeastNatural, SequenceTheorems

Decisions(s) == WrongAt(s) \cup CorrectAt(s)
NoBreak(i, j) == \A k \in i .. j : received[k] \notin {CR, LF}

-----------------------------------------------------------------------------
(* The verdict                                                              *)

\* Only one line is << Request >>.
LEMMA RequestAlone ==
  ASSUME NEW s, NEW a \in Nat, NEW b \in Nat, NEW S, \A i \in a + 1 .. b : s[i] \in S
  PROVE  /\ SubSeq(s, a + 1, b) = << Request >> <=> b = a + 1 /\ s[b] = Request
         /\ SubSeq(s, a + 1, b) = <<>> <=> b <= a
<1> DEFINE t == SubSeq(s, a + 1, b)
<1>1. /\ t \in Seq(S)
      /\ Len(t) = IF a + 1 <= b THEN b - a ELSE 0
      /\ \A i \in 1 .. b - a : t[i] = s[a + i]
  <2>1. \A i \in a + 1 .. b : s[i] \in S
    OBVIOUS
  <2>2. /\ t \in Seq(S)
        /\ Len(t) = IF a + 1 <= b THEN b - (a + 1) + 1 ELSE 0
        /\ \A i \in 1 .. b - (a + 1) + 1 : t[i] = s[(a + 1) + i - 1]
    BY <2>1, SubSeqProperties, a + 1 \in Int, b \in Int
  <2> QED BY <2>2
<1> HIDE DEF t
<1>2. ASSUME t = << Request >> PROVE b = a + 1 /\ s[b] = Request
  BY <1>1, <1>2
<1>3. ASSUME b = a + 1, s[b] = Request PROVE t = << Request >>
  <2>1. Len(t) = 1 /\ t[1] = Request
    BY <1>1, <1>3
  <2>2. << Request >> \in Seq(S \cup {Request}) /\ t \in Seq(S \cup {Request})
    BY <1>1
  <2> QED BY <2>1, <2>2, SeqEqual
<1>4. t = <<>> <=> b <= a
  BY <1>1, EmptySeq
<1> QED BY <1>2, <1>3, <1>4 DEF t

\* The end of a first line, and whether it was a request line.
LEMMA WrongFirstLine ==
  ASSUME NEW s \in Seq(Chars), NEW k \in Ends(s)
  PROVE  k \in WrongAt(s) <=> k \in Stray(s) \/ (First(Ends(s), k) /\ ~(k = 3 /\ s[1] = Request))
<1>1. k \in 2 .. Len(s) /\ \A i \in 0 + 1 .. k - 2 : s[i] \in Chars
  BY DEF Ends
<1>2. 0 \in Nat /\ k - 2 \in Nat
  BY <1>1
<1>3. SubSeq(s, 0 + 1, k - 2) = << Request >> <=> k - 2 = 0 + 1 /\ s[k - 2] = Request
  <2> DEFINE b == k - 2
  <2>1. b \in Nat /\ \A i \in 0 + 1 .. b : s[i] \in Chars
    BY <1>1, <1>2
  <2> HIDE DEF b
  <2>2. SubSeq(s, 0 + 1, b) = << Request >> <=> b = 0 + 1 /\ s[b] = Request
    BY <1>2, <2>1, RequestAlone
  <2> QED BY <2>2 DEF b
<1> QED BY <1>1, <1>3 DEF WrongAt

\* No position decides: no verdict.
LEMMA VerdictNone ==
  ASSUME NEW s, Decisions(s) = {} PROVE Verdict(s) = "none"
  BY DEF Verdict, Decisions

\* The earliest position that decides gives the verdict.
LEMMA VerdictFirst ==
  ASSUME NEW s \in Seq(Chars), NEW k, First(Decisions(s), k)
  PROVE  Verdict(s) = IF k \in WrongAt(s) THEN "wrong" ELSE "correct"
<1>0. Ends(s) \subseteq Nat /\ Stray(s) \subseteq Nat
  BY DEF Ends, Stray
<1>1. Decisions(s) \subseteq Nat /\ Decisions(s) # {}
  BY <1>0 DEF Decisions, First, WrongAt, CorrectAt
<1>2. (CHOOSE j \in Decisions(s) : First(Decisions(s), j)) = k
  BY <1>1 DEF First
<1> QED BY <1>1, <1>2 DEF Verdict, Decisions

\* What a position decides does not depend on what comes after it.
LEMMA DecidedByPrefix ==
  ASSUME NEW s \in Seq(Chars), NEW t \in Seq(Chars), Len(s) <= Len(t),
         \A k \in 1 .. Len(s) : t[k] = s[k], NEW k \in 1 .. Len(s)
  PROVE  /\ k \in Ends(t) <=> k \in Ends(s)
         /\ k \in Decisions(t) <=> k \in Decisions(s)
<1>1. \A j \in 1 .. Len(s) : j \in Ends(t) <=> j \in Ends(s)
  BY SMTT(30) DEF Ends
<1>2. k \in Stray(t) <=> k \in Stray(s)
  BY <1>1 DEF Stray
<1>3. k \in CorrectAt(t) <=> k \in CorrectAt(s)
  BY <1>1 DEF CorrectAt, Ends
<1>4. k \in Ends(s) => (First(Ends(t), k) <=> First(Ends(s), k))
  <2>1. /\ Ends(s) \subseteq 1 .. Len(s)
        /\ Ends(t) \subseteq Nat /\ \A j \in Ends(t) : j >= 1
        /\ Len(s) \in Nat
    BY DEF Ends
  <2>2. \A j \in Ends(t) : j \in Ends(s) \/ k <= j
    BY <1>1, <2>1
  <2> QED BY <1>1, <2>1, <2>2 DEF First
<1>5. k \in WrongAt(t) <=> k \in WrongAt(s)
  <2>1. CASE k \in Ends(s)
    <3>1. t[1] = s[1]
      BY <2>1 DEF Ends
    <3> QED BY <1>1, <1>2, <1>4, <2>1, <3>1, WrongFirstLine
  <2>2. CASE k \notin Ends(s)
    BY <1>1, <1>2, <2>2 DEF WrongAt
  <2> QED BY <2>1, <2>2
<1> QED BY <1>1, <1>3, <1>5 DEF Decisions

-----------------------------------------------------------------------------
(* The invariant                                                            *)

Types ==
  /\ buffer \in Seq(Chars \cup {Nul}) /\ received \in Seq(Chars)
  /\ Len(received) = Len(buffer) /\ Len(buffer) <= BUFFER_SIZE
  /\ start_line \in Nat /\ checked_index \in Nat
  /\ start_line <= checked_index /\ checked_index <= Len(buffer)
  /\ checkstate \in {"REQUESTLINE", "HEADER"}
  /\ step \in {"recv", "parse_content", "closed"}
  /\ answer \in {"none", "correct", "wrong"}

\* While the parser runs: the buffer holds what was received from start_line
\* on; the lines before it are over, their last character overwritten; nothing
\* that was passed ends a line or decides.
Scanned ==
  /\ answer = "none"
  /\ \A k \in start_line + 1 .. Len(buffer) : buffer[k] = received[k]
  /\ start_line # 0 => start_line \in Ends(received) /\ buffer[start_line] = Nul
  /\ IF checkstate = "REQUESTLINE" THEN start_line = 0
     ELSE start_line # 0 /\ 3 \in Ends(received) /\ received[1] = Request
  /\ NoBreak(start_line + 1, checked_index)
  /\ \A k \in 1 .. checked_index : k \notin Decisions(received)

\* More is asked for when everything was passed, except a CR at the end.
AllPassed ==
  \/ checked_index = Len(received)
  \/ checked_index = Len(received) - 1 /\ received[Len(received)] = CR

ParserInv ==
  /\ Types
  /\ step # "closed" => Scanned
  /\ step = "recv" => AllPassed
  /\ step = "closed" => answer = Verdict(received)

-----------------------------------------------------------------------------
(* Where parse_line stops                                                   *)

\* The loop stops at the first CR or LF, or at the end.
LEMMA StopIs ==
  ASSUME Types, Scanned
  PROVE  /\ Stop \in Nat /\ checked_index <= Stop /\ Stop <= Len(buffer)
         /\ NoBreak(start_line + 1, Stop)
         /\ Stop < Len(buffer) => received[Stop + 1] \in {CR, LF}
         /\ \A i \in start_line .. Len(buffer) - 1 : Char(i) = received[i + 1]
<1>1. \A i \in start_line .. Len(buffer) - 1 : Char(i) = received[i + 1]
  BY DEF Types, Scanned, Char
<1>2. Len(buffer) \in Nat /\ Breaks \subseteq checked_index .. Len(buffer) - 1
  BY DEF Types, Breaks, read_index
<1>3. CASE Breaks = {}
  <2>1. Stop = Len(buffer)
    BY <1>3 DEF Stop, read_index
  <2>2. \A i \in checked_index .. Len(buffer) - 1 : received[i + 1] \notin {CR, LF}
    <3> TAKE i \in checked_index .. Len(buffer) - 1
    <3>1. i \in start_line .. Len(buffer) - 1
      BY <1>2 DEF Types
    <3>2. i \notin Breaks
      BY <1>3
    <3> QED BY <1>1, <3>1, <3>2 DEF Breaks, read_index
  <2>3. \A k \in checked_index + 1 .. Len(buffer) : received[k] \notin {CR, LF}
    <3> TAKE k \in checked_index + 1 .. Len(buffer)
    <3>1. k - 1 \in checked_index .. Len(buffer) - 1 /\ (k - 1) + 1 = k
      BY <1>2 DEF Types
    <3> QED BY <2>2, <3>1
  <2> QED BY <1>1, <1>2, <2>1, <2>3 DEF Types, Scanned, NoBreak
<1>4. CASE Breaks # {}
  <2>1. Breaks \subseteq Nat
    BY <1>2 DEF Types
  <2>2. \E i \in Breaks : \A j \in Breaks : i <= j
    BY <1>4, <2>1, LeastExists
  <2>3. Stop \in Breaks /\ \A j \in Breaks : Stop <= j
    BY <1>4, <2>2 DEF Stop
  <2>4. \A i \in checked_index .. Stop - 1 : received[i + 1] \notin {CR, LF}
    <3> TAKE i \in checked_index .. Stop - 1
    <3>1. i \in checked_index .. Len(buffer) - 1 /\ i < Stop /\ i \in start_line .. Len(buffer) - 1
      BY <1>2, <2>1, <2>3 DEF Types
    <3>2. i \notin Breaks
      BY <2>1, <2>3, <3>1
    <3> QED BY <1>1, <3>1, <3>2 DEF Breaks, read_index
  <2>5. \A k \in checked_index + 1 .. Stop : received[k] \notin {CR, LF}
    <3> TAKE k \in checked_index + 1 .. Stop
    <3>1. k - 1 \in checked_index .. Stop - 1 /\ (k - 1) + 1 = k
      BY <2>1, <2>3 DEF Types
    <3> QED BY <2>4, <3>1
  <2>6. Stop \in checked_index .. Len(buffer) - 1 /\ Char(Stop) \in {CR, LF}
    BY <2>3 DEF Breaks, read_index
  <2> QED BY <1>1, <1>2, <2>1, <2>3, <2>5, <2>6 DEF Types, Scanned, NoBreak
<1> QED BY <1>3, <1>4

\* Nothing before the stop ends a line or decides, and a CR there does not.
LEMMA BeforeStop ==
  ASSUME CharsAssumption, Types, Scanned
  PROVE  /\ \A k \in 2 .. Len(received) : k \in start_line + 1 .. Stop + 1 => received[k - 1] # CR
         /\ \A k \in Ends(received) : k <= start_line \/ Stop + 2 <= k
         /\ \A k \in Decisions(received) :
              Stop + 1 <= k /\ (received[Stop + 1] = CR => Stop + 2 <= k)
<1>0. /\ Stop \in Nat /\ checked_index <= Stop /\ Stop <= Len(buffer)
      /\ NoBreak(start_line + 1, Stop)
  BY StopIs
<1>1. \A k \in 2 .. Len(received) : k \in start_line + 1 .. Stop + 1 => received[k - 1] # CR
  <2> SUFFICES ASSUME NEW k \in 2 .. Len(received), k \in start_line + 1 .. Stop + 1
               PROVE  received[k - 1] # CR
    OBVIOUS
  <2>1. CASE k - 1 = start_line
    BY <2>1 DEF Scanned, Types, Ends, CharsAssumption
  <2>2. CASE k - 1 # start_line
    <3>1. k - 1 \in start_line + 1 .. Stop
      BY <1>0, <2>2 DEF Types
    <3> QED BY <1>0, <3>1 DEF NoBreak
  <2> QED BY <2>1, <2>2
<1>2. \A k \in Ends(received) : k <= start_line \/ Stop + 2 <= k
  <2> SUFFICES ASSUME NEW k \in Ends(received), ~(k <= start_line), ~(Stop + 2 <= k)
               PROVE  FALSE
    OBVIOUS
  <2>1. k \in 2 .. Len(received) /\ received[k - 1] = CR
    BY DEF Ends
  <2>2. k \in start_line + 1 .. Stop + 1
    BY <1>0, <2>1 DEF Types
  <2> QED BY <1>1, <2>1, <2>2
<1>3. ASSUME NEW k \in Decisions(received)
      PROVE  Stop + 1 <= k /\ (received[Stop + 1] = CR => Stop + 2 <= k)
  <2>1. k \in 1 .. Len(received) /\ (k \in Stray(received) \/ k \in Ends(received))
    BY DEF Decisions, WrongAt, CorrectAt, Stray, Ends
  <2>2. checked_index < k
    BY <2>1 DEF Scanned, Types
  <2>3. CASE k \in Ends(received)
    BY <1>0, <1>2, <2>1, <2>2, <2>3 DEF Types
  <2>4. CASE k \in Stray(received) /\ ~(Stop + 2 <= k)
    <3>1. k \in start_line + 1 .. Stop + 1
      BY <1>0, <2>1, <2>2, <2>4 DEF Types
    <3>2. received[k] = LF
      BY <1>1, <2>4, <3>1 DEF Stray
    <3>3. k \notin start_line + 1 .. Stop
      BY <1>0, <3>2 DEF NoBreak
    <3>4. k = Stop + 1
      BY <1>0, <3>1, <3>3 DEF Types
    <3> QED BY <1>0, <3>2, <3>4 DEF CharsAssumption
  <2>5. CASE Stop + 2 <= k
    BY <1>0, <2>1, <2>5
  <2> QED BY <2>1, <2>3, <2>4, <2>5
<1> QED BY <1>1, <1>2, <1>3

\* The branch for an LF whose CR was passed before (40-45) is never taken.
LEMMA NeverLate ==
  ASSUME CharsAssumption, Types, Scanned, Stop < Len(buffer) PROVE ~LateLF(Stop)
<1>0. /\ Stop \in Nat /\ checked_index <= Stop
      /\ NoBreak(start_line + 1, Stop)
  BY StopIs
<1> SUFFICES ASSUME Stop > 1, buffer[(Stop - 1) + 1] = CR PROVE FALSE
  BY DEF LateLF, Char
<1>1. buffer[Stop] = CR
  BY <1>0
<1>2. CASE Stop = start_line
  BY <1>0, <1>1, <1>2 DEF Scanned, Types, CharsAssumption, Chars
<1>3. CASE Stop # start_line
  <2>1. Stop \in start_line + 1 .. Stop /\ Stop \in start_line + 1 .. Len(buffer)
    BY <1>0, <1>3 DEF Types
  <2>2. received[Stop] = CR
    BY <1>1, <2>1 DEF Scanned
  <2> QED BY <1>0, <2>1, <2>2 DEF NoBreak
<1> QED BY <1>2, <1>3

\* What the three results of parse_line mean.
LEMMA StatusMeans ==
  ASSUME CharsAssumption, Types, Scanned
  PROVE  /\ LineStatus = "OK" =>
              /\ Stop + 1 < Len(buffer)
              /\ received[Stop + 1] = CR /\ Stop + 2 \in Ends(received)
              /\ LineEnd = << Stop, Stop + 1 >>
         /\ LineStatus = "OPEN" =>
              \/ Stop = Len(buffer)
              \/ Stop + 1 = Len(buffer) /\ received[Stop + 1] = CR
         /\ LineStatus = "BAD" =>
              \/ Stop + 2 \in Stray(received) /\ received[Stop + 1] = CR
              \/ Stop + 1 \in Stray(received) /\ received[Stop + 1] # CR
<1>0. /\ Stop \in Nat /\ checked_index <= Stop /\ Stop <= Len(buffer) /\ Len(buffer) \in Nat
      /\ Stop < Len(buffer) => received[Stop + 1] \in {CR, LF}
      /\ Stop < Len(buffer) => Char(Stop) = received[Stop + 1]
      /\ Stop + 1 < Len(buffer) => Char(Stop + 1) = received[Stop + 2]
  BY StopIs DEF Types
<1>1. CASE Stop = Len(buffer)
  BY <1>0, <1>1 DEF LineStatus, read_index
<1>2. CASE Stop < Len(buffer) /\ received[Stop + 1] = CR
  <2>1. CASE Stop + 1 = Len(buffer)
    BY <1>0, <1>2, <2>1 DEF LineStatus, read_index
  <2>2. CASE Stop + 1 < Len(buffer)
    <3>1. Stop + 2 \in 2 .. Len(received) /\ received[(Stop + 2) - 1] = CR
      BY <1>0, <1>2, <2>2 DEF Types
    <3>2. LineEnd = << Stop, Stop + 1 >>
      BY <1>0, <1>2 DEF LineEnd
    <3>3. CASE received[Stop + 2] = LF
      BY <1>0, <1>2, <2>2, <3>1, <3>2, <3>3 DEF LineStatus, read_index, Ends
    <3>4. CASE received[Stop + 2] # LF
      BY <1>0, <1>2, <2>2, <3>1, <3>2, <3>4 DEF LineStatus, read_index, Stray
    <3> QED BY <3>3, <3>4
  <2> QED BY <1>0, <1>2, <2>1, <2>2
<1>3. CASE Stop < Len(buffer) /\ received[Stop + 1] # CR
  <2>1. LineStatus = "BAD"
    BY <1>0, <1>3, NeverLate DEF LineStatus, read_index
  <2>2. Stop + 1 \in 1 .. Len(received) /\ received[Stop + 1] = LF
    BY <1>0, <1>3 DEF Types
  <2>3. Stop + 1 \notin Ends(received)
    BY <1>0, <1>3, BeforeStop DEF Types
  <2> QED BY <1>3, <2>1, <2>2, <2>3 DEF Stray
<1> QED BY <1>0, <1>1, <1>2, <1>3

-----------------------------------------------------------------------------
(* The invariant holds                                                      *)

LEMMA InvInit == SizeAssumption /\ Init => ParserInv
<1> SUFFICES ASSUME SizeAssumption, Init PROVE ParserInv
  OBVIOUS
<1>1. Types
  BY DEF SizeAssumption, Init, Types
<1>2. AllPassed /\ Scanned
  BY DEF Init, Scanned, NoBreak, AllPassed
<1> QED BY <1>1, <1>2 DEF Init, ParserInv

\* At a call of recv nothing is decided yet.
LEMMA UndecidedAtRecv ==
  ASSUME CharsAssumption, Types, Scanned, AllPassed PROVE Decisions(received) = {}
<1>1. Decisions(received) \subseteq 1 .. Len(received) /\ Len(received) \in Nat
  BY DEF Decisions, WrongAt, CorrectAt, Stray, Ends
<1>2. CASE checked_index = Len(received)
  BY <1>1, <1>2 DEF Scanned
<1>3. CASE checked_index = Len(received) - 1 /\ received[Len(received)] = CR
  <2>1. Stop \in Nat /\ checked_index <= Stop /\ NoBreak(start_line + 1, Stop)
    BY StopIs
  <2>2. Stop + 1 <= Len(received)
    <3>1. CASE Stop = Len(received)
      <4>1. Len(received) \in start_line + 1 .. Stop
        BY <1>1, <1>3, <3>1 DEF Types
      <4> QED BY <1>3, <2>1, <4>1 DEF NoBreak
    <3>2. Stop <= Len(received)
      BY StopIs DEF Types
    <3> QED BY <1>1, <2>1, <3>1, <3>2
  <2>3. Stop + 1 = Len(received)
    BY <1>1, <1>3, <2>1, <2>2 DEF Types
  <2>4. \A k \in Decisions(received) : Stop + 2 <= k
    BY <1>3, <2>3, BeforeStop
  <2> QED BY <1>1, <2>1, <2>3, <2>4
<1> QED BY <1>2, <1>3 DEF AllPassed

\* An answer given for the earliest decision is the verdict.
LEMMA AnswerIsVerdict ==
  ASSUME CharsAssumption, Types, Scanned, NEW a,
         step' = "closed", answer' = a, UNCHANGED received, Types',
         NEW k \in Decisions(received),
         k = Stop + 1 \/ (k = Stop + 2 /\ received[Stop + 1] = CR),
         a = IF k \in WrongAt(received) THEN "wrong" ELSE "correct"
  PROVE  ParserInv'
<1>1. \A j \in Decisions(received) : k <= j
  BY BeforeStop, StopIs
<1>2. Verdict(received) = a
  BY <1>1, VerdictFirst DEF First, Types
<1> QED BY <1>2 DEF ParserInv

LEMMA RecvInv == SizeAssumption /\ ParserInv /\ Recv => ParserInv'
<1> SUFFICES ASSUME SizeAssumption, ParserInv, Recv PROVE ParserInv'
  OBVIOUS
<1>1. Types /\ Scanned /\ step = "recv"
  BY DEF ParserInv, Recv
<1>2. PICK n \in 1 .. MaxPiece : \E piece \in [1 .. n -> Chars] :
        n <= BUFFER_SIZE - read_index /\ buffer' = buffer \o piece /\ received' = received \o piece
  BY DEF Recv
<1>3. PICK piece \in Seq(Chars) :
        /\ Len(buffer) + Len(piece) <= BUFFER_SIZE
        /\ buffer' = buffer \o piece /\ received' = received \o piece
  <2>1. n \in Nat /\ Len(buffer) \in Nat /\ BUFFER_SIZE \in Nat
    BY <1>1 DEF SizeAssumption, Types
  <2>2. \A p \in [1 .. n -> Chars] : p \in Seq(Chars) /\ Len(p) = n
    BY <2>1
  <2>3. n <= BUFFER_SIZE - read_index => Len(buffer) + n <= BUFFER_SIZE
    BY <2>1 DEF read_index
  <2> QED BY <1>2, <2>2, <2>3
<1>4. /\ received' \in Seq(Chars) /\ Len(received') = Len(received) + Len(piece)
      /\ \A k \in 1 .. Len(received) + Len(piece) : received'[k] =
            IF k <= Len(received) THEN received[k] ELSE piece[k - Len(received)]
  BY <1>1, <1>3, ConcatProperties DEF Types
<1>5. /\ buffer' \in Seq(Chars \cup {Nul}) /\ Len(buffer') = Len(buffer) + Len(piece)
      /\ \A k \in 1 .. Len(buffer) + Len(piece) : buffer'[k] =
            IF k <= Len(buffer) THEN buffer[k] ELSE piece[k - Len(buffer)]
  <2>1. piece \in Seq(Chars \cup {Nul})
    BY <1>3
  <2> QED BY <1>1, <1>3, <2>1, ConcatProperties DEF Types
<1>6. /\ UNCHANGED << checked_index, start_line, checkstate, answer >>
      /\ step' = "parse_content" /\ Len(piece) \in Nat /\ Len(buffer) \in Nat
  BY <1>1, <1>3 DEF Recv, Types
<1>7. Types'
  BY <1>1, <1>3, <1>4, <1>5, <1>6 DEF Types
<1>8. \A k \in 1 .. Len(received) :
        /\ received'[k] = received[k]
        /\ k \in Ends(received)' <=> k \in Ends(received)
        /\ k \in Decisions(received)' <=> k \in Decisions(received)
  <2>1. Len(received) <= Len(received') /\ \A k \in 1 .. Len(received) : received'[k] = received[k]
    BY <1>1, <1>4, <1>6 DEF Types
  <2>2. \A k \in 1 .. Len(received) :
        /\ k \in Ends(received') <=> k \in Ends(received)
        /\ k \in Decisions(received') <=> k \in Decisions(received)
    BY <1>1, <1>4, <2>1, DecidedByPrefix DEF Types
  <2> QED BY <2>1, <2>2
<1>9. Scanned'
  <2>1. \A k \in start_line + 1 .. Len(buffer') : buffer'[k] = received'[k]
    <3> TAKE k \in start_line + 1 .. Len(buffer')
    <3>1. k \in 1 .. Len(buffer) + Len(piece)
      BY <1>1, <1>5, <1>6 DEF Types
    <3>2. CASE k <= Len(buffer)
      <4>1. buffer'[k] = buffer[k] /\ received'[k] = received[k]
        BY <1>1, <1>4, <1>5, <3>1, <3>2 DEF Types
      <4>2. buffer[k] = received[k]
        BY <1>1, <1>6, <3>1, <3>2 DEF Types, Scanned
      <4> QED BY <4>1, <4>2
    <3>3. CASE ~(k <= Len(buffer))
      BY <1>1, <1>4, <1>5, <3>1, <3>3 DEF Types
    <3> QED BY <3>2, <3>3
  <2>2. start_line # 0 => start_line \in Ends(received)' /\ buffer'[start_line] = Nul
    BY <1>1, <1>5, <1>6, <1>8 DEF Types, Scanned
  <2>3. 3 \in Ends(received) => 3 \in Ends(received)' /\ received'[1] = received[1]
    <3>1. 3 \in Ends(received) => 3 \in 1 .. Len(received) /\ 1 \in 1 .. Len(received)
      BY DEF Ends
    <3> QED BY <1>8, <3>1
  <2>4. NoBreak(start_line + 1, checked_index)'
    BY <1>1, <1>6, <1>8 DEF Types, Scanned, NoBreak
  <2>5. \A k \in 1 .. checked_index : k \notin Decisions(received)'
    BY <1>1, <1>6, <1>8 DEF Types, Scanned
  <2> QED BY <1>1, <1>6, <2>1, <2>2, <2>3, <2>4, <2>5 DEF Scanned
<1> QED BY <1>6, <1>7, <1>9 DEF ParserInv

LEMMA RecvEndsInv == CharsAssumption /\ ParserInv /\ RecvEnds => ParserInv'
<1> SUFFICES ASSUME CharsAssumption, ParserInv, RecvEnds PROVE ParserInv'
  OBVIOUS
<1>1. Types /\ Scanned /\ AllPassed /\ answer = "none"
  BY DEF ParserInv, RecvEnds, Scanned
<1>2. Verdict(received) = "none"
  BY <1>1, UndecidedAtRecv, VerdictNone
<1>3. Types'
  BY <1>1 DEF RecvEnds, Types
<1> QED BY <1>1, <1>2, <1>3 DEF RecvEnds, ParserInv

-----------------------------------------------------------------------------
(* parse_content                                                            *)

\* A line taken: what it was, and what the indexes and the buffer are after it.
LEMMA TakeLineIs ==
  ASSUME CharsAssumption, Types, Scanned, TakeLine
  PROVE  /\ Stop \in Nat /\ start_line <= Stop /\ Stop + 2 <= Len(buffer)
         /\ received[Stop + 1] = CR /\ Stop + 2 \in Ends(received)
         /\ Line = SubSeq(buffer, start_line + 1, Stop)
         /\ checked_index' = Stop + 2 /\ start_line' = Stop + 2 /\ UNCHANGED received
         /\ buffer' \in Seq(Chars \cup {Nul}) /\ Len(buffer') = Len(buffer)
         /\ buffer'[Stop + 2] = Nul
         /\ \A k \in Stop + 3 .. Len(buffer) : buffer'[k] = received[k]
<1>1. /\ Stop + 1 < Len(buffer) /\ received[Stop + 1] = CR /\ Stop + 2 \in Ends(received)
      /\ LineEnd = << Stop, Stop + 1 >>
  BY StatusMeans DEF TakeLine
<1>2. Stop \in Nat /\ checked_index <= Stop /\ Len(buffer) \in Nat
  BY StopIs DEF Types
<1>3. LineEnd[1] = Stop /\ LineEnd[2] = Stop + 1
  BY <1>1
<1>4. buffer' = [i \in 1 .. Len(buffer) |-> IF i - 1 \in {Stop, Stop + 1} THEN Nul ELSE buffer[i]]
  BY <1>3 DEF TakeLine, Cut, read_index
<1>5. \A i \in 1 .. Len(buffer) : buffer[i] \in Chars \cup {Nul}
  BY DEF Types
<1>6. buffer' \in [1 .. Len(buffer) -> Chars \cup {Nul}]
  BY <1>4, <1>5
<1>7. buffer' \in Seq(Chars \cup {Nul}) /\ Len(buffer') = Len(buffer)
  BY <1>2, <1>6
<1>8. buffer'[Stop + 2] = Nul
  BY <1>1, <1>2, <1>4
<1>9. \A k \in Stop + 3 .. Len(buffer) : buffer'[k] = received[k]
  <2> TAKE k \in Stop + 3 .. Len(buffer)
  <2>1. k \in 1 .. Len(buffer) /\ k \in start_line + 1 .. Len(buffer) /\ k - 1 \notin {Stop, Stop + 1}
    BY <1>2 DEF Types
  <2> QED BY <1>4, <2>1 DEF Scanned
<1>10. Line = SubSeq(buffer, start_line + 1, Stop)
  BY <1>3 DEF Line
<1>11. checked_index' = Stop + 2 /\ start_line' = Stop + 2 /\ UNCHANGED received
  BY <1>2, <1>3 DEF TakeLine
<1> QED BY <1>1, <1>2, <1>7, <1>8, <1>9, <1>10, <1>11 DEF Types

\* The line ends the request line or is a header: the parser goes on.
LEMMA GoesOnAfterLine ==
  ASSUME CharsAssumption, Types, Scanned, TakeLine, step = "parse_content",
         UNCHANGED << step, answer >>, checkstate' = "HEADER",
         Stop + 2 \notin Decisions(received), 3 \in Ends(received), received[1] = Request
  PROVE  ParserInv'
<1>1. /\ Stop \in Nat /\ Stop + 2 <= Len(buffer)
      /\ received[Stop + 1] = CR /\ Stop + 2 \in Ends(received)
      /\ checked_index' = Stop + 2 /\ start_line' = Stop + 2 /\ UNCHANGED received
      /\ buffer' \in Seq(Chars \cup {Nul}) /\ Len(buffer') = Len(buffer)
      /\ buffer'[Stop + 2] = Nul
      /\ \A k \in Stop + 3 .. Len(buffer) : buffer'[k] = received[k]
  BY TakeLineIs
<1>2. Types'
  BY <1>1 DEF Types
<1>3. \A k \in 1 .. Stop + 2 : k \notin Decisions(received)
  <2> SUFFICES ASSUME NEW k \in 1 .. Stop + 2, k \in Decisions(received) PROVE FALSE
    OBVIOUS
  <2>1. Stop + 2 <= k
    BY <1>1, BeforeStop
  <2> QED BY <1>1, <2>1
<1>4. Scanned'
  <2>1. NoBreak(start_line + 1, checked_index)'
    BY <1>1 DEF NoBreak
  <2>2. \A k \in 1 .. checked_index' : k \notin Decisions(received)'
    BY <1>1, <1>3
  <2>3. \A k \in start_line' + 1 .. Len(buffer') : buffer'[k] = received'[k]
    BY <1>1
  <2> QED BY <1>1, <2>1, <2>2, <2>3 DEF Scanned
<1> QED BY <1>2, <1>4 DEF ParserInv

LEMMA LineInv ==
  ASSUME CharsAssumption, ParserInv, RequestLine \/ BadRequestLine \/ Header \/ EmptyLine
  PROVE  ParserInv'
<1>1. Types /\ Scanned /\ TakeLine /\ step = "parse_content"
  BY DEF ParserInv, RequestLine, BadRequestLine, Header, EmptyLine, TakeLine
<1>2. /\ Stop \in Nat /\ start_line <= Stop /\ Stop + 2 <= Len(buffer)
      /\ received[Stop + 1] = CR /\ Stop + 2 \in Ends(received)
      /\ Line = SubSeq(buffer, start_line + 1, Stop)
      /\ checked_index' = Stop + 2 /\ start_line' = Stop + 2 /\ UNCHANGED received
      /\ buffer' \in Seq(Chars \cup {Nul}) /\ Len(buffer') = Len(buffer)
  BY <1>1, TakeLineIs
<1>3. \A i \in start_line + 1 .. Stop : buffer[i] \in Chars \cup {Nul} /\ buffer[i] = received[i]
  BY <1>1, <1>2 DEF Types, Scanned
<1>4. /\ Line = << Request >> <=> Stop = start_line + 1 /\ received[Stop] = Request
      /\ Line = <<>> <=> Stop <= start_line
  <2>1. /\ SubSeq(buffer, start_line + 1, Stop) = << Request >>
             <=> Stop = start_line + 1 /\ buffer[Stop] = Request
        /\ SubSeq(buffer, start_line + 1, Stop) = <<>> <=> Stop <= start_line
    BY <1>1, <1>2, <1>3, RequestAlone DEF Types
  <2> QED BY <1>2, <1>3, <2>1
<1>5. Stop + 2 \notin Stray(received)
  BY <1>1, <1>2 DEF Stray, Ends, Types
<1>6. \A k \in Ends(received) : k <= start_line \/ Stop + 2 <= k
  BY <1>1, BeforeStop
<1>7. Stop + 2 \in WrongAt(received)
         <=> First(Ends(received), Stop + 2) /\ ~(Stop + 2 = 3 /\ received[1] = Request)
  BY <1>1, <1>2, <1>5, WrongFirstLine DEF Types
<1>8. Stop + 2 \in CorrectAt(received) <=> Stop \in Ends(received)
  BY <1>2 DEF CorrectAt
<1>9. start_line = 0 => First(Ends(received), Stop + 2)
  <2>1. \A k \in Ends(received) : k \in Nat /\ k >= 2
    BY <1>1 DEF Ends, Types
  <2> QED BY <1>2, <1>6, <2>1 DEF First
<1>10. start_line # 0 => start_line \in Ends(received) /\ ~First(Ends(received), Stop + 2)
  BY <1>1, <1>2 DEF Scanned, First, Types
<1>11. Stop \in Ends(received) => Stop = start_line
  BY <1>1, <1>2, <1>6 DEF Types
<1>12. ASSUME step' = "closed", checkstate' \in {"REQUESTLINE", "HEADER"},
              answer' \in {"wrong", "correct"}, Stop + 2 \in Decisions(received),
              answer' = "wrong" <=> Stop + 2 \in WrongAt(received)
       PROVE  ParserInv'
  <2>1. Types'
    BY <1>1, <1>2, <1>12 DEF Types
  <2>2. answer' = IF Stop + 2 \in WrongAt(received) THEN "wrong" ELSE "correct"
    BY <1>12
  <2> QED BY <1>1, <1>2, <1>12, <2>1, <2>2, AnswerIsVerdict
<1>13. CASE RequestLine
  <2>1. start_line = 0 /\ Stop = 1 /\ received[1] = Request
    BY <1>1, <1>4, <1>13 DEF RequestLine, Scanned
  <2>2. Stop + 2 \notin Decisions(received)
    <3>1. 1 \notin Ends(received)
      BY DEF Ends
    <3> QED BY <1>7, <1>8, <2>1, <3>1 DEF Decisions
  <2>3. 3 \in Ends(received)
    BY <1>2, <2>1
  <2> QED BY <1>1, <1>13, <2>1, <2>2, <2>3, GoesOnAfterLine DEF RequestLine
<1>14. CASE BadRequestLine
  <2>1. start_line = 0 /\ ~(Stop = 1 /\ received[1] = Request)
    BY <1>1, <1>4, <1>14 DEF BadRequestLine, Scanned
  <2>2. Stop + 2 \in WrongAt(received)
    BY <1>2, <1>7, <1>9, <2>1
  <2> QED BY <1>1, <1>12, <1>14, <2>2 DEF BadRequestLine, Answered, Decisions, Types
<1>15. CASE Header
  <2>1. start_line # 0 /\ start_line < Stop /\ 3 \in Ends(received) /\ received[1] = Request
    BY <1>1, <1>2, <1>4, <1>15 DEF Header, Scanned, Types
  <2>2. Stop + 2 \notin Decisions(received)
    BY <1>1, <1>2, <1>7, <1>8, <1>10, <1>11, <2>1 DEF Decisions, Types
  <2> QED BY <1>1, <1>15, <2>1, <2>2, GoesOnAfterLine DEF Header
<1>16. CASE EmptyLine
  <2>1. start_line # 0 /\ Stop = start_line
    BY SMTT(30), <1>1, <1>2, <1>4, <1>16 DEF EmptyLine, Scanned, Types
  <2>2. Stop + 2 \in CorrectAt(received) /\ Stop + 2 \notin WrongAt(received)
    BY <1>7, <1>8, <1>10, <2>1
  <2> QED BY <1>1, <1>12, <1>16, <2>2 DEF EmptyLine, Answered, Decisions, Types
<1> QED BY <1>13, <1>14, <1>15, <1>16

LEMMA OpenInv ==
  ASSUME CharsAssumption, ParserInv, LineOpen PROVE ParserInv'
<1>1. Types /\ Scanned
  BY DEF ParserInv, LineOpen
<1>2. /\ Stop \in Nat /\ checked_index <= Stop /\ Stop <= Len(buffer)
      /\ NoBreak(start_line + 1, Stop)
  BY <1>1, StopIs
<1>3. /\ checked_index' = Stop /\ step' = "recv"
      /\ UNCHANGED << buffer, start_line, checkstate, answer, received >>
  BY DEF LineOpen
<1>4. Types'
  BY <1>1, <1>2, <1>3 DEF Types
<1>5. \A k \in 1 .. Stop : k \notin Decisions(received)
  BY <1>1, <1>2, BeforeStop
<1>6. Scanned'
  BY <1>1, <1>2, <1>3, <1>5 DEF Scanned, NoBreak, Decisions
<1>7. Stop = Len(buffer) \/ (Stop + 1 = Len(buffer) /\ received[Stop + 1] = CR)
  BY <1>1, StatusMeans DEF LineOpen
<1>8. AllPassed'
  BY <1>1, <1>2, <1>3, <1>7 DEF AllPassed, Types
<1> QED BY <1>3, <1>4, <1>6, <1>8 DEF ParserInv

LEMMA BadInv ==
  ASSUME CharsAssumption, ParserInv, LineBad PROVE ParserInv'
<1>1. Types /\ Scanned
  BY DEF ParserInv, LineBad
<1>2. Stop \in Nat /\ checked_index <= Stop /\ Stop <= Len(buffer)
  BY <1>1, StopIs
<1>3. /\ checked_index' = Stop /\ step' = "closed" /\ answer' = "wrong"
      /\ UNCHANGED << buffer, start_line, checkstate, received >>
  BY DEF LineBad, Answered
<1>4. Types'
  BY <1>1, <1>2, <1>3 DEF Types
<1>5. PICK k \in Stray(received) : k = Stop + 1 \/ (k = Stop + 2 /\ received[Stop + 1] = CR)
  BY <1>1, StatusMeans DEF LineBad
<1>6. k \in WrongAt(received) /\ k \in Decisions(received)
  BY <1>5 DEF WrongAt, Decisions
<1> QED BY <1>1, <1>3, <1>4, <1>5, <1>6, AnswerIsVerdict

LEMMA InvNext == SizeAssumption /\ CharsAssumption /\ ParserInv /\ [Next]_vars => ParserInv'
<1> SUFFICES ASSUME SizeAssumption, CharsAssumption, ParserInv, [Next]_vars PROVE ParserInv'
  OBVIOUS
<1>1. CASE UNCHANGED vars
  <2>1. UNCHANGED << buffer, checked_index, start_line, checkstate, step, answer, received >>
    BY <1>1 DEF vars
  <2>2. Types => Types'
    BY <2>1 DEF Types
  <2>3. Scanned => Scanned'
    BY <2>1 DEF Scanned, NoBreak
  <2>4. AllPassed => AllPassed'
    BY <2>1 DEF AllPassed
  <2> QED BY <2>1, <2>2, <2>3, <2>4 DEF ParserInv
<1>2. CASE Next
  BY <1>2, RecvInv, RecvEndsInv, LineInv, OpenInv, BadInv DEF Next, ParseContent
<1> QED BY <1>1, <1>2

-----------------------------------------------------------------------------
(* The theorems                                                             *)

THEOREM ParserInvariant ==
  ASSUME SizeAssumption, CharsAssumption PROVE Spec => []ParserInv
<1> QED BY InvInit, InvNext, PTL DEF Spec

\* The indexes of the parser stay in order and within the buffer.
THEOREM ParserTypeCorrect ==
  ASSUME SizeAssumption, CharsAssumption PROVE Spec => []TypeOK
<1>1. ParserInv => TypeOK
  BY DEF ParserInv, Types, TypeOK, read_index
<1> QED BY <1>1, ParserInvariant, PTL

\* However the request was cut into pieces, what is answered is the verdict on
\* all that was received, for every buffer and every size of piece.
THEOREM AnswerIgnoresCuts ==
  ASSUME SizeAssumption, CharsAssumption PROVE Spec => []CutsDoNotMatter
<1>1. ParserInv => CutsDoNotMatter
  <2> SUFFICES ASSUME ParserInv, step # "parse_content" PROVE answer = Verdict(received)
    BY DEF CutsDoNotMatter
  <2>1. CASE step = "closed"
    BY <2>1 DEF ParserInv
  <2>2. CASE step = "recv"
    BY <2>2, UndecidedAtRecv, VerdictNone DEF ParserInv, Scanned
  <2> QED BY <2>1, <2>2 DEF ParserInv, Types
<1> QED BY <1>1, ParserInvariant, PTL
=============================================================================
