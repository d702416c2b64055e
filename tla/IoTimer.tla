-------------------------------- MODULE IoTimer --------------------------------
(***************************************************************************)
(* The loop of 11-4io_timer.cpp, which does timed work every TIMEOUT with  *)
(* epoll_wait's own time-out.  time() counts whole seconds and is read     *)
(* before the wait and after it, never after the connections are handled.  *)
(* A second is Ticks ticks of the real clock.                              *)
(***************************************************************************)
EXTENDS Integers

CONSTANTS
  TIMEOUT,     \* the period, in seconds (5000 ms in the code)
  Ticks,       \* ticks in a second
  MaxOutside   \* bound: second boundaries that pass outside the waits of a period

TimerAssumption == TIMEOUT \in Nat \ {0} /\ Ticks \in Nat \ {0} /\ MaxOutside \in Nat

VARIABLES
  doing,    \* "top" of the loop, "waiting" in epoll_wait, "handling" connections
  frac,     \* ticks of the present second that have passed
  left,     \* timeout, in seconds
  crossed,  \* second boundaries since start was read: end - start
  waiting,  \* ticks since epoll_wait was called
  since,    \* ticks since the timed work was last done
  outside   \* second boundaries that passed outside the waits since then

ioTimerVars == << doing, frac, left, crossed, waiting, since, outside >>

Init ==
  /\ doing = "top" /\ left = TIMEOUT /\ frac \in 0 .. Ticks - 1
  /\ crossed = 0 /\ waiting = 0 /\ since = 0 /\ outside = 0

Expired == waiting >= left * Ticks

\* Real time passes.  A wait that has run out is no wait: the process has yet
\* to be scheduled.
Clock ==
  LET boundary == IF frac = Ticks - 1 THEN 1 ELSE 0
      idle     == doing = "waiting" /\ ~Expired
  IN /\ idle \/ outside + boundary <= MaxOutside
     /\ frac' = (frac + 1) % Ticks
     /\ crossed' = crossed + boundary
     /\ waiting' = IF doing = "waiting" THEN waiting + 1 ELSE waiting
     /\ outside' = IF idle THEN outside ELSE outside + boundary
     /\ since' = since + 1
     /\ UNCHANGED << doing, left >>

\* start = time(NULL), and epoll_wait is called.
Wait ==
  /\ doing = "top" /\ doing' = "waiting"
  /\ crossed' = 0 /\ waiting' = 0
  /\ UNCHANGED << frac, left, since, outside >>

\* The timed work is done and the period starts anew.
TimedWork == left' = TIMEOUT /\ since' = 0 /\ outside' = 0

\* epoll_wait returns 0.
TimedOut ==
  /\ doing = "waiting" /\ Expired
  /\ TimedWork /\ doing' = "top"
  /\ UNCHANGED << frac, crossed, waiting >>

\* Mutant: not taking the time of the wait from timeout.
Ready_Whole ==
  /\ doing = "waiting" /\ doing' = "handling"
  /\ UNCHANGED << frac, crossed, waiting, left, since, outside >>

\* epoll_wait returns with events or EINTR: what the clock says the wait took
\* is taken from timeout, and what is left may be nothing.
Ready ==
  /\ doing = "waiting" /\ doing' = "handling"
  /\ IF left - crossed <= 0
     THEN TimedWork
     ELSE left' = left - crossed /\ UNCHANGED << since, outside >>
  /\ UNCHANGED << frac, crossed, waiting >>

Handled == doing = "handling" /\ doing' = "top" /\ UNCHANGED << frac, left, crossed, waiting, since, outside >>

Next == Clock \/ Wait \/ TimedOut \/ Ready \/ Handled

Spec == Init /\ [][Next]_ioTimerVars

-----------------------------------------------------------------------------
\* Between two rounds of timed work more than TIMEOUT - 1 seconds pass, and at
\* most TIMEOUT + 1 and the seconds that the waits do not see: time() truncates
\* (line 26), and the handling of connections is not counted (the TODO of
\* lines 24-25).
OnTime ==
  [][since' < since =>
       /\ since > (TIMEOUT - 1) * Ticks
       /\ since <= (TIMEOUT + outside + 1) * Ticks]_ioTimerVars
=============================================================================
