----------------------------- MODULE StressClient -----------------------------
(***************************************************************************)
(* A connection of the stress client 16/16-4stress_client.cpp with the     *)
(* http_conn that serves it: the client writes the same request for ever,  *)
(* each time something of an answer has come.  The request asks for a page *)
(* and to keep the connection, and 12 x's follow the empty line that ends  *)
(* it (two characters of text here).                                       *)
(***************************************************************************)
EXTENDS HttpConn

CONSTANT Text   \* what is not a line of its own

VARIABLES
  want,      \* what the client's registration waits for: "none", "in", "out", "closed"
  seen,      \* how much of stream it has read
  split      \* a recv of the server ended between the head of a request and its last x

clientVars == << want, seen, split >>

request == << Page, CR, LF, KeepAlive, CR, LF, CR, LF, Text, Text >>
HeadLen == 8

ClientAssumption ==
  /\ {KeepAlive, Text} \cap {CR, LF, Length} = {} /\ Text \notin Paths
  /\ Page \notin {EmptyFile, Missing, Secret, Directory}

StressInit == Init /\ want = "none" /\ seen = 0 /\ split = FALSE

-----------------------------------------------------------------------------
(* The client                                                               *)

StartConn == Accept /\ want = "none" /\ want' = "out" /\ UNCHANGED << seen, split >>

Sends(n) ==
  /\ want = "out" /\ m_sockfd = "open" /\ said < MaxSaid
  /\ coming' = coming \o SubSeq(request, 1, n) /\ said' = said + 1
  /\ UNCHANGED << m_sockfd, parseVars, fileVars, writeVars, localVars, armed, phase, conns, hungUp, outVars >>

\* Mutant: write_nbytes calls send once.
WriteNBytes_Once ==
  /\ \E n \in 1 .. Len(request) : Sends(n)
  /\ want' = "in" /\ UNCHANGED << seen, split >>

\* write_nbytes loops until the whole request is in the socket.
WriteNBytes == Sends(Len(request)) /\ want' = "in" /\ UNCHANGED << seen, split >>

\* EAGAIN half-way is a failure as any other: the connection is closed.
WriteNBytesFails ==
  /\ \E n \in 0 .. Len(request) - 1 : Sends(n)
  /\ want' = "closed" /\ UNCHANGED << seen, split >>

\* The server has closed: the first bytes are taken, or send fails.
WriteLate ==
  /\ want = "out" /\ m_sockfd = "closed"
  /\ want' \in {"in", "closed"}
  /\ UNCHANGED << vars, seen, split >>

\* One recv, whatever it returns of the answer, then the next request.
ReadOnce ==
  /\ want = "in" /\ seen < Len(stream)
  /\ seen' \in seen + 1 .. Len(stream) /\ want' = "out"
  /\ UNCHANGED << vars, split >>

ReadEnd ==
  /\ want = "in" /\ seen = Len(stream) /\ m_sockfd = "closed"
  /\ want' = "closed"
  /\ UNCHANGED << vars, seen, split >>

-----------------------------------------------------------------------------
(* The server, and the hang-up of a client that has closed                  *)

ServerReads ==
  /\ Read
  /\ split' = (split \/ Len(m_read_buf') \in HeadLen .. Len(request) - 1)
  /\ UNCHANGED << want, seen >>

Serves ==
  /\ ReadFills \/ ProcessRead \/ ProcessWrite \/ Write \/ (want = "closed" /\ CloseOnHup)
  /\ UNCHANGED clientVars

StressNext ==
  \/ StartConn \/ WriteNBytes \/ WriteNBytesFails \/ WriteLate \/ ReadOnce \/ ReadEnd
  \/ ServerReads \/ Serves

StressSpec == StressInit /\ [][StressNext]_<< vars, clientVars >>

-----------------------------------------------------------------------------
\* While the writes of the server are not cut short, every whole request is
\* answered with its page, though the x's belong to no request, if no recv of the
\* server ends before the last x: init (lines 78-95 of 15-5http_conn.cpp) drops what
\* was read with the answered request, and x's that come later begin the next one.
\* And neither waits for the other: a client that waits for input has an answer to
\* come, or one to read.
PagePerRequest ==
  shorts = 0 =>
    /\ phase = "process_write" /\ ~ split /\ want # "closed" => ret = "FILE_REQUEST"
    /\ want = "in" /\ m_sockfd = "open" /\ phase = "main" /\ armed = "in" /\ coming = <<>>
         => seen < Len(stream)
=============================================================================
