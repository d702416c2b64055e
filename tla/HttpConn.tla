------------------------------- MODULE HttpConn -------------------------------
(***************************************************************************)
(* One object of users[] (15/15-5http_conn.cpp): what it makes of the      *)
(* bytes of a request and how many bytes of the answer leave, over the     *)
(* connections that use the object one after another.                      *)
(*                                                                         *)
(* The one-shot registration gives the object one owner at a time          *)
(* (OneOwner of HttpServer), so its calls are a sequence: read, process,   *)
(* write.  A character is CR, LF, or a piece of text without either.       *)
(***************************************************************************)
EXTENDS Naturals, Sequences

CONSTANTS
  CR, LF, Nul,
  KeepAlive,          \* the header "Connection: keep-alive"
  Length,             \* the header "Content-Length", with the value CONTENT_LENGTH
  Page, EmptyFile,    \* request lines for a file of some bytes, and of none,
  Missing, Secret,    \* for a file that is not there, or that others may not read
  Directory,          \* and for a directory; any other text is no request line
  CONTENT_LENGTH,
  READ_BUFFER_SIZE, WRITE_BUFFER_SIZE,
  Messages,           \* what a client may send: a set of sequences of characters
  NoMap,              \* m_file_address = 0
  MaxConns, MaxSaid, MaxShort    \* bounds: connections, messages, writev cut short

Paths == {Page, EmptyFile, Missing, Secret, Directory}

MessagesAssumption ==
  /\ \A m \in Messages : m \in Seq({m[i] : i \in DOMAIN m}) /\ \A i \in DOMAIN m : m[i] # Nul
  /\ CR # LF /\ {CR, LF, KeepAlive, Length} \cap Paths = {} /\ {Nul, Length} \cap {CR, LF} = {}
  /\ CONTENT_LENGTH \in Nat \ {0}

VARIABLES
  m_sockfd,           \* "open" or "closed" (-1)
  m_read_buf,         \* its first m_read_idx characters
  m_checked_idx, m_start_line,
  m_check_state,      \* "REQUESTLINE", "HEADER", "CONTENT"
  m_url,              \* a member of Paths, or Nul
  m_content_length, m_linger,
  m_write_idx,
  m_iv,               \* the lengths of what writev is given: the buffer, then the file
  m_file_address,     \* NoMap, a mapping, or MapFailed
  m_file_stat,        \* the file stat was last successful for
  line_status, ret,   \* locals of process_read and process
  have_send,          \* bytes_have_send of write
  armed,              \* the registration: "in", "out", "spent"
  phase,              \* the call under way: "main" (none), "process_read", "process_write", "write"
  \* around the object
  coming,             \* sent by the client, not yet received
  said,               \* the number of messages so far
  got,           \* what recv returned since the buffer was cleared
  conns,              \* the number of this connection
  mapped,             \* the mappings of the process
  hungUp,             \* the connections whose client hung up
  stream,             \* what the client got: how many bytes from each call of writev
  answers,            \* what it was to get: how many bytes for each request
  shorts              \* the calls of writev that took less than they were given

parseVars == << m_read_buf, m_checked_idx, m_start_line, m_check_state, m_url,
                m_content_length, m_linger, got >>
fileVars  == << m_file_address, m_file_stat, mapped >>
writeVars == << m_write_idx, m_iv >>
localVars == << line_status, ret, have_send >>
peerVars  == << coming, said, conns, hungUp >>
outVars   == << stream, answers, shorts >>
vars == << m_sockfd, parseVars, fileVars, writeVars, localVars, armed, phase, peerVars, outVars >>

m_read_idx == Len(m_read_buf)

\* The sizes that matter: a status line, the other headers, an error text, a file.
StatusLen == 1
HeadersLen == 2
FormLen == 2

\* The headers fit the buffer for what is written (a text may not).
SizesAssumption ==
  /\ READ_BUFFER_SIZE \in Nat /\ WRITE_BUFFER_SIZE \in Nat
  /\ StatusLen + HeadersLen < WRITE_BUFFER_SIZE - 1

st_size(file) == CASE file = Page -> 3 [] file = EmptyFile -> 0 [] OTHER -> 1

Total(iv) == IF Len(iv) = 1 THEN iv[1] ELSE iv[1] + iv[2]

\* mmap of no bytes fails.
MapFailed == [file |-> EmptyFile, conn |-> 0]

-----------------------------------------------------------------------------
(* The life of a connection                                                 *)

\* Mutant: what was written stays.
Cleared_KeepsWriteIdx ==
  /\ m_check_state' = "REQUESTLINE" /\ m_linger' = FALSE
  /\ m_url' = Nul /\ m_content_length' = 0
  /\ m_start_line' = 0 /\ m_checked_idx' = 0 /\ m_read_buf' = <<>>
  /\ got' = <<>>
  /\ UNCHANGED m_write_idx

\* init(); it leaves the file and m_iv as they are.
Cleared ==
  /\ m_check_state' = "REQUESTLINE" /\ m_linger' = FALSE
  /\ m_url' = Nul /\ m_content_length' = 0
  /\ m_start_line' = 0 /\ m_checked_idx' = 0 /\ m_read_buf' = <<>>
  /\ got' = <<>>
  /\ m_write_idx' = 0

Init ==
  /\ m_sockfd = "closed"
  /\ m_check_state = "REQUESTLINE" /\ m_linger = FALSE
  /\ m_url = Nul /\ m_content_length = 0
  /\ m_start_line = 0 /\ m_checked_idx = 0 /\ m_read_buf = <<>> /\ got = <<>>
  /\ m_write_idx = 0 /\ m_iv = << 0 >>
  /\ m_file_address = NoMap /\ m_file_stat = EmptyFile /\ mapped = {}
  /\ line_status = "OK" /\ ret = "NO_REQUEST" /\ have_send = 0
  /\ armed = "spent" /\ phase = "main"
  /\ coming = <<>> /\ said = 0 /\ conns = 0 /\ hungUp = {}
  /\ stream = <<>> /\ answers = <<>> /\ shorts = 0

\* A client connects, and init(sockfd, addr) takes the object for it.
Accept ==
  /\ m_sockfd = "closed" /\ phase = "main" /\ conns < MaxConns
  /\ m_sockfd' = "open" /\ conns' = conns + 1
  /\ Cleared /\ armed' = "in"
  /\ stream' = <<>> /\ answers' = <<>> /\ shorts' = 0
  /\ UNCHANGED << m_iv, fileVars, localVars, phase, coming, said, hungUp >>

Say ==
  /\ m_sockfd = "open" /\ said < MaxSaid
  /\ \E m \in Messages : coming' = coming \o m
  /\ said' = said + 1
  /\ UNCHANGED << m_sockfd, parseVars, fileVars, writeVars, localVars, armed, phase,
                  conns, hungUp, outVars >>

\* close_conn: what the client had under way is gone.
Closed == m_sockfd' = "closed" /\ armed' = "spent" /\ phase' = "main" /\ coming' = <<>>

\* The client hangs up; the registration reports it if it is not spent.
CloseOnHup ==
  /\ m_sockfd = "open" /\ phase = "main" /\ armed # "spent"
  /\ Closed
  /\ hungUp' = hungUp \cup {conns}
  /\ UNCHANGED << parseVars, fileVars, writeVars, localVars, said, conns, outVars >>

-----------------------------------------------------------------------------
(* read                                                                     *)

CanRead == m_sockfd = "open" /\ phase = "main" /\ armed = "in" /\ coming # <<>>

\* recv until it would block; the request goes to a worker, which calls process.
Read ==
  /\ CanRead
  /\ \E n \in 1 .. Len(coming) :
       /\ m_read_idx + n <= READ_BUFFER_SIZE
       /\ m_read_buf' = m_read_buf \o SubSeq(coming, 1, n)
       /\ got' = got \o SubSeq(coming, 1, n)
       /\ coming' = SubSeq(coming, n + 1, Len(coming))
  /\ armed' = "spent" /\ phase' = "process_read"
  /\ line_status' = "OK"
  /\ UNCHANGED << m_sockfd, m_checked_idx, m_start_line, m_check_state, m_url,
                  m_content_length, m_linger, fileVars, writeVars, ret, have_send,
                  said, conns, hungUp, outVars >>

\* The buffer is full: recv is asked for 0 bytes and returns 0 (or, with nothing
\* more to receive, EAGAIN: then read returns false the next time).
ReadFills ==
  /\ CanRead /\ m_read_idx + Len(coming) >= READ_BUFFER_SIZE
  /\ Closed
  /\ UNCHANGED << parseVars, fileVars, writeVars, localVars, said, conns, hungUp, outVars >>

-----------------------------------------------------------------------------
(* process_read                                                             *)

Char(i) == m_read_buf[i + 1]
Breaks == {i \in m_checked_idx .. m_read_idx - 1 : Char(i) \in {CR, LF}}
Stop == IF Breaks = {} THEN m_read_idx
        ELSE CHOOSE i \in Breaks : \A j \in Breaks : i <= j

\* parse_line: what it returns, and the two characters it overwrites.
ParseLine ==
  IF Stop = m_read_idx THEN "OPEN"
  ELSE IF Char(Stop) = CR
    THEN IF Stop + 1 = m_read_idx THEN "OPEN"
         ELSE IF Char(Stop + 1) = LF THEN "OK" ELSE "BAD"
    ELSE IF Stop > 1 /\ Char(Stop - 1) = CR THEN "OK" ELSE "BAD"
LineEnd == IF Char(Stop) = CR THEN Stop ELSE Stop - 1
Cut == [i \in 1 .. m_read_idx |-> IF i \in {LineEnd + 1, LineEnd + 2} THEN Nul ELSE m_read_buf[i]]
Line == SubSeq(m_read_buf, m_start_line + 1, LineEnd)

\* The first half of the loop's condition: parse_line is not called.
TakesContent == m_check_state = "CONTENT" /\ line_status = "OK"

\* The condition holds because of parse_line.
TakeLine ==
  /\ phase = "process_read" /\ ~ TakesContent /\ ParseLine = "OK"
  /\ m_read_buf' = Cut
  /\ m_checked_idx' = LineEnd + 2 /\ m_start_line' = m_checked_idx'
  /\ line_status' = "OK"
  /\ UNCHANGED << m_sockfd, got, writeVars, have_send, armed, peerVars, outVars >>

Answers(code) == ret' = code /\ phase' = "process_write"
LoopsOn == phase' = "process_read" /\ UNCHANGED << ret, fileVars >>

\* do_request: the file is mapped for good when it can be, even when it is empty.
Lookup(file) ==
  CASE file = Missing -> "NO_RESOURCE" [] file = Secret -> "FORBIDDEN_REQUEST"
    [] file = Directory -> "BAD_REQUEST" [] OTHER -> "FILE_REQUEST"
Mapping(file) == [file |-> file, conn |-> conns]
Mmap(file) ==
  IF st_size(file) = 0
  THEN m_file_address' = MapFailed /\ UNCHANGED mapped
  ELSE m_file_address' = Mapping(file) /\ mapped' = mapped \cup {Mapping(file)}
DoRequest ==
  /\ Answers(Lookup(m_url))
  /\ IF m_url = Missing THEN UNCHANGED m_file_stat ELSE m_file_stat' = m_url
  /\ IF Lookup(m_url) = "FILE_REQUEST" THEN Mmap(m_url)
     ELSE UNCHANGED << m_file_address, mapped >>

ParseRequestLine ==
  /\ TakeLine /\ m_check_state = "REQUESTLINE"
  /\ \E file \in Paths : Line = << file >> /\ m_url' = file
  /\ m_check_state' = "HEADER"
  /\ LoopsOn
  /\ UNCHANGED << m_content_length, m_linger >>

BadRequestLine ==
  /\ TakeLine /\ m_check_state = "REQUESTLINE"
  /\ \A file \in Paths : Line # << file >>
  /\ Answers("BAD_REQUEST")
  /\ UNCHANGED << m_check_state, m_url, m_content_length, m_linger, fileVars >>

ParseHeader ==
  /\ TakeLine /\ m_check_state = "HEADER" /\ Line # <<>>
  /\ m_linger' = (m_linger \/ Line = << KeepAlive >>)
  /\ m_content_length' = IF Line = << Length >> THEN CONTENT_LENGTH ELSE m_content_length
  /\ LoopsOn
  /\ UNCHANGED << m_check_state, m_url >>

HeadersEnd ==
  /\ TakeLine /\ m_check_state = "HEADER" /\ Line = <<>>
  /\ IF m_content_length # 0
     THEN m_check_state' = "CONTENT" /\ LoopsOn
     ELSE DoRequest /\ UNCHANGED m_check_state
  /\ UNCHANGED << m_url, m_content_length, m_linger >>

\* parse_content, after the loop has (or has not) called parse_line on the content.
\* Mutant: one character of the content too few will do.
HasContent_OffByOne(checked) == m_read_idx + 1 >= m_content_length + checked
HasContent(checked) == m_read_idx >= m_content_length + checked
ParseContent(checked) ==
  IF HasContent(checked) THEN DoRequest /\ line_status' = "OK"
  ELSE line_status' = "OPEN" /\ LoopsOn

Content ==
  /\ phase = "process_read" /\ TakesContent
  /\ m_start_line' = m_checked_idx
  /\ ParseContent(m_checked_idx)
  /\ UNCHANGED << m_sockfd, m_read_buf, m_checked_idx, m_check_state, m_url, m_content_length,
                  m_linger, got, writeVars, have_send, armed, peerVars, outVars >>

\* A line end in the middle of a content that is not complete.
ContentLine ==
  /\ phase = "process_read" /\ m_check_state = "CONTENT" /\ ~ TakesContent /\ ParseLine = "OK"
  /\ m_read_buf' = Cut
  /\ m_checked_idx' = LineEnd + 2 /\ m_start_line' = m_checked_idx'
  /\ ParseContent(LineEnd + 2)
  /\ UNCHANGED << m_sockfd, m_check_state, m_url, m_content_length,
                  m_linger, got, writeVars, have_send, armed, peerVars, outVars >>

\* NO_REQUEST, for a line that is bad as for one that is open: wait for more.
NoRequest ==
  /\ phase = "process_read" /\ ~ TakesContent /\ ParseLine # "OK"
  /\ m_checked_idx' = Stop /\ line_status' = ParseLine
  /\ phase' = "main" /\ armed' = "in"
  /\ UNCHANGED << m_sockfd, m_read_buf, m_start_line, m_check_state, m_url, m_content_length,
                  m_linger, got, fileVars, writeVars, ret, have_send, peerVars, outVars >>

-----------------------------------------------------------------------------
(* process_write                                                            *)

\* add_response: it adds what fits and says nothing, to callers that ignore it.
Added(idx, len) ==
  IF idx < WRITE_BUFFER_SIZE /\ len < WRITE_BUFFER_SIZE - 1 - idx THEN idx + len ELSE idx
Headed == Added(Added(m_write_idx, StatusLen), HeadersLen)

\* What the answer to this request should be.
Due(code) == StatusLen + HeadersLen +
             IF code = "FILE_REQUEST" THEN st_size(m_file_stat) ELSE FormLen

ReadyToWrite(idx, iv) ==
  /\ m_write_idx' = idx /\ m_iv' = iv
  /\ answers' = Append(answers, Due(ret))
  /\ phase' = "main" /\ armed' = "out"
  /\ UNCHANGED << m_sockfd, coming >>

WriteFile ==
  /\ phase = "process_write" /\ ret = "FILE_REQUEST" /\ st_size(m_file_stat) # 0
  /\ ReadyToWrite(Headed, << Headed, st_size(m_file_stat) >>)
  /\ UNCHANGED << parseVars, fileVars, localVars, said, conns, hungUp, stream, shorts >>

WriteError ==
  /\ phase = "process_write" /\ ret # "FILE_REQUEST"
  /\ Added(Headed, FormLen) # Headed
  /\ ReadyToWrite(Added(Headed, FormLen), << Added(Headed, FormLen) >>)
  /\ UNCHANGED << parseVars, fileVars, localVars, said, conns, hungUp, stream, shorts >>

\* The text does not fit, or the file is empty (that case falls through to the
\* default): process closes the connection, and its modfd finds no descriptor.
WriteRefuses ==
  /\ phase = "process_write"
  /\ IF ret = "FILE_REQUEST" THEN st_size(m_file_stat) = 0 ELSE Added(Headed, FormLen) = Headed
  /\ m_write_idx' = Added(Headed, FormLen)
  /\ Closed
  /\ UNCHANGED << parseVars, fileVars, m_iv, localVars, said, conns, hungUp, outVars >>

-----------------------------------------------------------------------------
(* write                                                                    *)

\* munmap with the size of the file stat saw last (a page, or nothing at all).
Unmap ==
  /\ m_file_address' = NoMap
  /\ mapped' = IF st_size(m_file_stat) = 0 THEN mapped ELSE mapped \ {m_file_address}
  /\ UNCHANGED m_file_stat

WriteStarts ==
  /\ m_sockfd = "open" /\ phase = "main" /\ armed = "out"
  /\ phase' = "write" /\ have_send' = 0 /\ armed' = "spent"
  /\ UNCHANGED << m_sockfd, parseVars, fileVars, writeVars, line_status, ret, peerVars, outVars >>

\* bytes_to_send counts the buffer only, and down while bytes_have_send counts up.
Enough(n) == m_write_idx - (have_send + n) <= have_send + n

Sent(n) ==
  /\ phase = "write" /\ n \in 1 .. Total(m_iv)
  /\ n < Total(m_iv) => shorts < MaxShort
  /\ shorts' = IF n < Total(m_iv) THEN shorts + 1 ELSE shorts
  /\ stream' = Append(stream, n)
  /\ have_send' = have_send + n
  /\ UNCHANGED << m_iv, line_status, ret, said, conns, hungUp, answers >>

\* The next round of the loop hands writev the same m_iv.
WritesOn ==
  /\ \E n \in 1 .. Total(m_iv) : Sent(n) /\ ~ Enough(n)
  /\ UNCHANGED << m_sockfd, parseVars, fileVars, m_write_idx, armed, phase, coming >>

WriteKeeps ==
  /\ \E n \in 1 .. Total(m_iv) : Sent(n) /\ Enough(n)
  /\ m_linger
  /\ Unmap /\ Cleared
  /\ armed' = "in" /\ phase' = "main"
  /\ UNCHANGED << m_sockfd, coming >>

WriteCloses ==
  /\ \E n \in 1 .. Total(m_iv) : Sent(n) /\ Enough(n)
  /\ ~ m_linger
  /\ Unmap /\ Closed
  /\ UNCHANGED << parseVars, m_write_idx >>

\* EAGAIN: the next call of write starts from the first byte.
WriteStalls ==
  /\ phase = "write"
  /\ armed' = "out" /\ phase' = "main"
  /\ UNCHANGED << m_sockfd, parseVars, fileVars, writeVars, localVars, peerVars, outVars >>

\* Mutant: the mapping is left behind.
WriteFails_KeepsMapping ==
  /\ phase = "write"
  /\ Closed
  /\ UNCHANGED << parseVars, fileVars, writeVars, localVars, said, conns, hungUp, outVars >>

WriteFails ==
  /\ phase = "write"
  /\ Unmap /\ Closed
  /\ UNCHANGED << parseVars, writeVars, localVars, said, conns, hungUp, outVars >>

-----------------------------------------------------------------------------
ProcessRead == ParseRequestLine \/ BadRequestLine \/ ParseHeader \/ HeadersEnd
                 \/ Content \/ ContentLine \/ NoRequest
ProcessWrite == WriteFile \/ WriteError \/ WriteRefuses
Write == WriteStarts \/ WritesOn \/ WriteKeeps \/ WriteCloses \/ WriteStalls \/ WriteFails

Next == Accept \/ Say \/ CloseOnHup \/ Read \/ ReadFills \/ ProcessRead \/ ProcessWrite \/ Write

Spec == Init /\ [][Next]_vars

-----------------------------------------------------------------------------
(* Properties                                                               *)

TypeOK ==
  /\ m_sockfd \in {"open", "closed"} /\ armed \in {"in", "out", "spent"}
  /\ phase \in {"main", "process_read", "process_write", "write"}
  /\ m_sockfd = "closed" => phase = "main" /\ armed = "spent"
  /\ m_read_idx <= READ_BUFFER_SIZE /\ Len(got) = m_read_idx
  /\ m_start_line <= m_checked_idx /\ m_checked_idx <= m_read_idx
  /\ m_check_state \in {"REQUESTLINE", "HEADER", "CONTENT"}
  /\ m_url \in Paths \cup {Nul} /\ m_content_length \in {0, CONTENT_LENGTH}
  /\ m_write_idx < WRITE_BUFFER_SIZE /\ Len(m_iv) \in {1, 2}
  /\ \A m \in mapped : m.file = Page /\ m.conn \in 1 .. conns
  /\ m_file_address \in mapped \cup {NoMap, MapFailed}

\* What a request deserves, seen as a whole: nothing while its head is not
\* complete, or for good when a stray CR or LF comes before the head's end.
Ends(s)  == {k \in 2 .. Len(s) : s[k - 1] = CR /\ s[k] = LF}
Stray(s) == {k \in 2 .. Len(s) : s[k - 1] = CR /\ s[k] # LF}
              \cup {k \in 1 .. Len(s) : s[k] = LF /\ k \notin Ends(s)}
First(S, k) == k \in S /\ \A j \in S : k <= j
NoPath(s, k) == First(Ends(s), k) /\ \A file \in Paths : SubSeq(s, 1, k - 2) # << file >>
HeadEnd(s, k) == First({j \in Ends(s) : j - 2 \in Ends(s) \/ NoPath(s, j)}, k)
BodyLength(s, k) ==
  IF \E i, j \in Ends(s) : j < k /\ SubSeq(s, i + 1, j - 2) = << Length >>
  THEN CONTENT_LENGTH ELSE 0
Deserves(s, k) ==
  IF NoPath(s, k) THEN "BAD_REQUEST"
  ELSE IF Len(s) >= k + BodyLength(s, k) THEN Lookup(s[1]) ELSE "NO_REQUEST"
Verdict(s) ==
  IF \E k \in Ends(s) : HeadEnd(s, k) /\ \A j \in Stray(s) : j > k
  THEN Deserves(s, CHOOSE k \in Ends(s) : HeadEnd(s, k))
  ELSE "NO_REQUEST"

\* parse_line has walked into the content: the length is counted from there on.
ContentPassed == m_check_state = "CONTENT" /\ ~ HeadEnd(got, m_checked_idx)

\* However a request is cut into pieces, it is answered what it deserves as a
\* whole, never early, and overlooked only when a piece ended inside its content
\* (process_read 267-322: the loop's second condition, after parse_content has
\* said NO_REQUEST, lets parse_line move m_checked_idx over the content).
VerdictOnRequest ==
  /\ phase = "process_write" => ret = Verdict(got)
  /\ armed = "in" => Verdict(got) = "NO_REQUEST" \/ ContentPassed

\* As long as writev takes all it is given, a client gets for each request the
\* whole answer, once, in order, the last one perhaps not yet (write 359-403
\* counts the bytes of the buffer only; m_write_idx is reset by init alone).
AnswersWhole ==
  shorts = 0 =>
    \/ stream = answers
    \/ Len(answers) = Len(stream) + 1 /\ SubSeq(answers, 1, Len(stream)) = stream

\* While a file is being answered it is mapped, and stat has not looked at
\* another since (munmap takes its size); a mapping outlives its answer only
\* if the client hung up before the answer was written (350-357, 361-383; close_conn
\* does not unmap, and an object's next connection overwrites m_file_address).
MappingsEnd ==
  /\ (armed = "out" \/ phase = "write") /\ Len(m_iv) = 2 =>
       m_file_address = Mapping(m_file_stat)
  /\ \A m \in mapped :
       \/ m.conn \in hungUp
       \/ /\ m = Mapping(m_file_stat) /\ m = m_file_address
          /\ phase \in {"process_write", "write"} \/ armed = "out"
=============================================================================
