-------------------------------- MODULE Connect --------------------------------
(***************************************************************************)
(* The two ways to connect within a time: unblock_connect                  *)
(* (9-5unblockconnect.cpp) makes the socket non-blocking, selects on its   *)
(* being writable and asks for SO_ERROR; timeout_connect                   *)
(* (11-1connect_timeout.cpp) sets SO_SNDTIMEO and blocks in connect.       *)
(* writefds is set at one bit and never cleared: which of the bits below   *)
(* sockfd are on is what the stack holds.  A bit of an open descriptor     *)
(* makes select return for it, a bit of no descriptor makes it fail.       *)
(***************************************************************************)
EXTENDS Naturals

CONSTANTS Time  \* the time to connect in, in ticks

VARIABLES
  how,    \* the function that is called
  pc,     \* where it is
  ret,    \* what it returned
  sock,   \* sockfd: "none" before it is made, "open", "closed"
  block,  \* sockfd blocks
  junk,   \* the other bits of writefds: "clear", "writable" or "bad"
  link,   \* the connection: "none", "going", "up", "failed", or "lost" once up
  waited  \* ticks since connect was called

connectVars == << how, pc, ret, sock, block, junk, link, waited >>

-----------------------------------------------------------------------------
Init ==
  /\ how \in {"unblock_connect", "timeout_connect"}
  /\ pc = "start" /\ ret = "none" /\ sock = "none" /\ block = TRUE
  /\ junk \in IF how = "unblock_connect" THEN {"clear", "writable", "bad"} ELSE {"clear"}
  /\ link = "none" /\ waited = 0

Return(value) == ret' = value /\ pc' = "done"
CloseAndFail  == sock' = "closed" /\ Return("-1")

\* socket() and connect(): the socket is made non-blocking by the one function
\* and given a time by the other.
Call ==
  /\ pc = "start"
  /\ sock' = "open" /\ block' = (how = "timeout_connect")
  /\ link' = "going" /\ pc' = "connect"
  /\ UNCHANGED << how, ret, junk, waited >>

\* The non-blocking connect returns at once: with a connection, whose socket
\* is made blocking again; with EINPROGRESS; or with another error, and then
\* the socket is left open.
Connected ==
  /\ pc = "connect" /\ how = "unblock_connect"
  /\ \/ link = "up" /\ block' = TRUE /\ Return("sockfd")
     \/ link = "failed" /\ Return("-1") /\ UNCHANGED block
     \/ link = "going" /\ pc' = "select" /\ UNCHANGED << ret, block >>
  /\ UNCHANGED << how, sock, junk, link, waited >>

\* The blocking connect returns with a connection, an error or EINPROGRESS
\* when its time is over; the socket is left open after either failure.
BlockingConnect ==
  /\ pc = "connect" /\ how = "timeout_connect"
  /\ \/ link \in {"up", "lost"} /\ Return("sockfd")
     \/ link = "failed" /\ Return("-1")
     \/ link = "going" /\ waited = Time /\ Return("-1")
  /\ UNCHANGED << how, sock, block, junk, link, waited >>

Writable == link \in {"up", "failed", "lost"}

\* select returns: with an error or no descriptor (time out), with sockfd
\* writable, or for another descriptor ("no events on sockfd found").
Select ==
  /\ pc = "select"
  /\ \/ /\ junk = "bad" \/ (junk = "clear" /\ ~Writable /\ waited = Time)
        /\ CloseAndFail
     \/ /\ junk # "bad" /\ Writable
        /\ pc' = "selected" /\ UNCHANGED << ret, sock >>
     \/ /\ junk = "writable" /\ ~Writable
        /\ CloseAndFail
  /\ UNCHANGED << how, block, junk, link, waited >>

\* Mutant: taking a writable socket for a connected one.
SocketError_Unasked ==
  /\ pc = "selected"
  /\ block' = TRUE /\ Return("sockfd")
  /\ UNCHANGED << how, sock, junk, link, waited >>

\* getsockopt(SO_ERROR): an error closes the socket; without one it is made
\* blocking again and returned.
SocketError ==
  /\ pc = "selected"
  /\ IF link = "up"
     THEN block' = TRUE /\ Return("sockfd") /\ UNCHANGED sock
     ELSE CloseAndFail /\ UNCHANGED block
  /\ UNCHANGED << how, junk, link, waited >>

\* The network: the connection is made or refused, and one that is made may
\* be lost; the clock runs while the call waits.
Network ==
  /\ \/ link = "going" /\ sock = "open" /\ link' \in {"up", "failed"}
     \/ link = "up" /\ link' = "lost"
  /\ UNCHANGED << how, pc, ret, sock, block, junk, waited >>

Clock ==
  /\ pc \in {"connect", "select"} /\ waited < Time
  /\ waited' = waited + 1
  /\ UNCHANGED << how, pc, ret, sock, block, junk, link >>

Next == Call \/ Connected \/ BlockingConnect \/ Select \/ SocketError \/ Network \/ Clock

Spec == Init /\ [][Next]_connectVars

-----------------------------------------------------------------------------
\* A socket that is returned has been connected and blocks; and a call that
\* fails has a cause: the connection failed or was lost, the time is over, or
\* the bits nobody cleared (the comment above unblock_connect, lines 24-25).
ReturnsWhatItSays ==
  /\ ret = "sockfd" => link \in {"up", "lost"} /\ sock = "open" /\ block
  /\ ret = "-1" => link \in {"failed", "lost"} \/ waited = Time \/ junk # "clear"
=============================================================================
