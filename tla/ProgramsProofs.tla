----------------------------- MODULE ProgramsProofs -----------------------------
(***************************************************************************)
(* What holds of the programs of MCPrograms for any values of their        *)
(* constants.  A behaviour runs one program while the variables of the     *)
(* others stay as they are, so what is inductive for a program is an       *)
(* invariant of every behaviour.                                           *)
(***************************************************************************)
EXTENDS MCPrograms, Integers, FiniteSetTheorems, SequenceTheorems, LeastNatural, TLAPS

-----------------------------------------------------------------------------
(* The behaviours of each program                                           *)

\* Adding an entry at the end of a queue, and taking the one at its head.
LEMMA AppendEntry ==
  ASSUME NEW S, NEW q \in Seq(S), NEW x \in S
  PROVE  /\ Append(q, x) \in Seq(S)
         /\ Len(Append(q, x)) = Len(q) + 1
         /\ DOMAIN q = 1 .. Len(q) /\ Len(q) \in Nat
         /\ DOMAIN Append(q, x) = DOMAIN q \cup {Len(q) + 1}
         /\ \A n \in DOMAIN q : Append(q, x)[n] = q[n]
         /\ Append(q, x)[Len(q) + 1] = x
OBVIOUS

LEMMA TailEntry ==
  ASSUME NEW S, NEW q \in Seq(S), q # <<>>
  PROVE  /\ Tail(q) \in Seq(S) /\ Head(q) \in S
         /\ Len(Tail(q)) = Len(q) - 1
         /\ DOMAIN q = 1 .. Len(q) /\ Len(q) \in Nat \ {0}
         /\ Head(q) = q[1]
         /\ \A n \in DOMAIN q : n # 1 => n - 1 \in DOMAIN Tail(q) /\ Tail(q)[n - 1] = q[n]
         /\ \A n \in DOMAIN Tail(q) : n + 1 \in DOMAIN q /\ Tail(q)[n] = q[n + 1]
OBVIOUS

\* The poll loop of IoTimer.
LEMMA TimerSteps == Spec => Timer!Init /\ [][Timer!Next]_timerVars
<1>1. Init => Timer!Init
  BY DEF Init
<1>2. [Next]_vars => [Timer!Next]_timerVars
  BY DEF Next, Keep, vars
<1> QED BY <1>1, <1>2, PTL DEF Spec

-----------------------------------------------------------------------------
(* IoTimer.  With N the second boundaries since the timed work was last     *)
(* done, since is N * Ticks + frac less the frac of then, which is below    *)
(* Ticks; and the loop knows N but for the boundaries outside its waits.    *)

TimerTypes ==
  /\ doing \in {"top", "waiting", "handling"}
  /\ frac \in 0 .. Ticks - 1 /\ left \in 1 .. TIMEOUT
  /\ crossed \in Nat /\ waiting \in Nat /\ since \in Nat /\ outside \in Nat

\* The boundaries that the loop has taken from timeout or is about to.
Seen == TIMEOUT - left + (IF doing = "waiting" THEN crossed ELSE 0)

\* What has passed is no less than what the loop has seen, up to a second.
AtLeast == Seen * Ticks + frac - (Ticks - 1) <= since

\* And no more than that and what passed outside the waits; of a wait that has
\* run out, the whole of timeout has been seen.
AtMost ==
  since <= ((IF doing = "waiting" /\ Timer!Expired THEN TIMEOUT ELSE Seen) + outside) * Ticks + frac

\* The same of the wait itself.
WaitSpan ==
  doing = "waiting" =>
    crossed * Ticks + frac - (Ticks - 1) <= waiting /\ waiting <= crossed * Ticks + frac

TimerInv == TimerTypes /\ AtLeast /\ AtMost /\ WaitSpan

LEMMA TimerConstants == TIMEOUT \in Nat \ {0} /\ Ticks \in Nat \ {0}
  BY TimerAssumption DEF Timer!TimerAssumption

\* A product is monotone in its first factor, and distributes over a sum.
LEMMA TimesLess ==
  ASSUME NEW a \in Int, NEW b \in Int, a * Ticks < b * Ticks
  PROVE  a < b
<1>1. Ticks \in Nat /\ Ticks > 0  BY TimerConstants
<1>2. SUFFICES ASSUME a >= b  PROVE FALSE  OBVIOUS
<1>3. (a - b) * Ticks >= 0  BY <1>1, <1>2
<1>4. (a - b) * Ticks = a * Ticks - b * Ticks  BY <1>1
<1> QED  BY <1>1, <1>3, <1>4

LEMMA TimesPlus ==
  ASSUME NEW a \in Int, NEW b \in Int
  PROVE  (a + b) * Ticks = a * Ticks + b * Ticks
BY TimerConstants

LEMMA TimesLeq ==
  ASSUME NEW a \in Int, NEW b \in Int, a <= b
  PROVE  a * Ticks <= b * Ticks
<1>1. Ticks \in Nat  BY TimerConstants
<1>2. (b - a) * Ticks >= 0  BY <1>1
<1>3. (b - a) * Ticks = b * Ticks - a * Ticks  BY <1>1
<1> QED  BY <1>1, <1>2, <1>3

\* The next value of frac: one more, or 0 after the last tick of a second.
LEMMA NextTick ==
  ASSUME frac \in 0 .. Ticks - 1
  PROVE  (frac + 1) % Ticks = IF frac = Ticks - 1 THEN 0 ELSE frac + 1
BY TimerConstants


(* A wait that has run out has seen timeout go by, and one that has not, no *)
(* more than that.                                                          *)

LEMMA ExpiredSawIt ==
  ASSUME TimerTypes, WaitSpan, doing = "waiting", Timer!Expired
  PROVE  left <= crossed
<1>1. Ticks \in Nat \ {0}  BY TimerConstants
<1>2. left * Ticks < (crossed + 1) * Ticks
  <2>1. (crossed + 1) * Ticks = crossed * Ticks + 1 * Ticks  BY TimesPlus DEF TimerTypes
  <2> DEFINE p == left * Ticks  q == crossed * Ticks
  <2>2. p \in Int /\ q \in Int  BY <1>1 DEF TimerTypes
  <2>3. p <= waiting /\ waiting <= q + frac /\ frac < Ticks  BY <1>1 DEF TimerTypes, WaitSpan, Timer!Expired
  <2> HIDE DEF p, q
  <2>4. p < q + Ticks  BY <1>1, <2>2, <2>3 DEF TimerTypes
  <2> QED  BY <1>1, <2>1, <2>4 DEF p, q
<1>3. left < crossed + 1  BY <1>2, TimesLess DEF TimerTypes
<1> QED  BY <1>3 DEF TimerTypes

\* A wait of w ticks that counts c boundaries, and has yet to run past timeout l,
\* has seen no more than timeout.
LEMMA SawLess ==
  ASSUME NEW c \in Nat, NEW l \in Nat, NEW w \in Nat, NEW f \in Nat,
         c * Ticks + f - (Ticks - 1) <= w, w <= l * Ticks
  PROVE  c <= l
<1>1. Ticks \in Nat \ {0}  BY TimerConstants
<1> DEFINE p == l * Ticks  q == c * Ticks
<1>2. p \in Int /\ q \in Int  BY <1>1
<1>3. q + f - (Ticks - 1) <= w /\ w <= p  OBVIOUS
<1>4. (l + 1) * Ticks = p + Ticks
  <2>1. (l + 1) * Ticks = l * Ticks + 1 * Ticks  BY TimesPlus
  <2> QED  BY <1>1, <2>1
<1>5. q < p + Ticks
  <2> HIDE DEF p, q
  <2> QED  BY <1>1, <1>2, <1>3
<1>6. c * Ticks < (l + 1) * Ticks  BY <1>4, <1>5
<1>7. c < l + 1  BY <1>6, TimesLess
<1> QED  BY <1>7


(* TimerInv is inductive: a step for each action.                           *)

LEMMA TimerInit == Timer!Init => TimerInv
<1> SUFFICES ASSUME Timer!Init  PROVE TimerInv  OBVIOUS
<1>1. TimerTypes  BY TimerConstants DEF Timer!Init, TimerTypes
<1>2. Seen = 0 /\ outside = 0 /\ since = 0 /\ doing = "top"
  BY TimerConstants DEF Timer!Init, Seen
<1> QED  BY <1>1, <1>2, TimerConstants DEF TimerTypes, TimerInv, AtLeast, AtMost, WaitSpan

\* A tick moves frac, and the boundary if there is one: whatever count of seconds
\* goes up with the boundary, its ticks and frac go up by one.
LEMMA TickCounts ==
  ASSUME TimerTypes, Timer!Clock, NEW n \in Int
  PROVE  LET b == IF frac = Ticks - 1 THEN 1 ELSE 0
         IN  (n + b) * Ticks + frac' = n * Ticks + frac + 1
<1>1. Ticks \in Nat \ {0} /\ frac \in 0 .. Ticks - 1  BY TimerConstants DEF TimerTypes
<1>2. frac' = IF frac = Ticks - 1 THEN 0 ELSE frac + 1  BY <1>1, NextTick DEF Timer!Clock
<1>3. (n + 1) * Ticks = n * Ticks + Ticks
  <2>1. (n + 1) * Ticks = n * Ticks + 1 * Ticks  BY TimesPlus
  <2> QED  BY <2>1, <1>1
<1>4. n * Ticks \in Int  BY <1>1
<1> QED  BY <1>1, <1>2, <1>3, <1>4

LEMMA TimerClock == TimerInv /\ Timer!Clock => TimerInv'
<1> SUFFICES ASSUME TimerInv, Timer!Clock  PROVE TimerInv'  OBVIOUS
<1> DEFINE b == IF frac = Ticks - 1 THEN 1 ELSE 0
           idle == doing = "waiting" /\ ~Timer!Expired
<1>1. TimerTypes /\ Ticks \in Nat \ {0} /\ TIMEOUT \in Nat \ {0}
  BY TimerConstants DEF TimerInv
<1>2. /\ doing' = doing /\ left' = left /\ since' = since + 1
      /\ crossed' = crossed + b
      /\ waiting' = IF doing = "waiting" THEN waiting + 1 ELSE waiting
      /\ outside' = IF idle THEN outside ELSE outside + b
  BY DEF Timer!Clock
<1>3. b \in {0, 1}  OBVIOUS
<1>4. frac' \in 0 .. Ticks - 1  BY <1>1, NextTick DEF Timer!Clock, TimerTypes
<1>5. TimerTypes'  BY <1>1, <1>2, <1>3, <1>4 DEF TimerTypes
<1>6. \A n \in Int : (n + b) * Ticks + frac' = n * Ticks + frac + 1
  BY <1>1, TickCounts
<1>7. Seen \in Int /\ Seen' = IF doing = "waiting" THEN Seen + b ELSE Seen
  BY <1>1, <1>2, <1>3 DEF Seen, TimerTypes
<1> HIDE DEF b, idle
<1>8. AtLeast'
  <2>1. (Seen + b) * Ticks + frac' = Seen * Ticks + frac + 1  BY <1>6, <1>7
  <2>2. Seen' * Ticks <= (Seen + b) * Ticks  BY <1>3, <1>7, TimesLeq
  <2>3. Seen * Ticks + frac - (Ticks - 1) <= since  BY DEF TimerInv, AtLeast
  <2>4. Seen * Ticks \in Int /\ Seen' * Ticks \in Int /\ (Seen + b) * Ticks \in Int
    BY <1>1, <1>3, <1>7
  <2>5. Seen' * Ticks + frac' - (Ticks - 1) <= since + 1
    BY <1>1, <1>4, <2>1, <2>2, <2>3, <2>4 DEF TimerTypes
  <2> QED  BY <1>1, <1>2, <2>5, TimerConstants DEF AtLeast
<1>9. WaitSpan'
  <2> SUFFICES ASSUME doing = "waiting"  PROVE WaitSpan'  BY <1>2 DEF WaitSpan
  <2>1. (crossed + b) * Ticks + frac' = crossed * Ticks + frac + 1  BY <1>1, <1>6 DEF TimerTypes
  <2>2. crossed * Ticks + frac - (Ticks - 1) <= waiting /\ waiting <= crossed * Ticks + frac
    BY DEF TimerInv, WaitSpan
  <2>3. crossed * Ticks \in Int /\ crossed' * Ticks \in Int  BY <1>1, <1>5 DEF TimerTypes
  <2>4. crossed' * Ticks + frac' = crossed * Ticks + frac + 1  BY <1>2, <2>1
  <2>5. waiting' = waiting + 1  BY <1>2
  <2>6. /\ crossed' * Ticks + frac' - (Ticks - 1) <= waiting'
        /\ waiting' <= crossed' * Ticks + frac'
    BY <1>1, <1>4, <2>2, <2>3, <2>4, <2>5 DEF TimerTypes
  <2> QED  BY <2>6 DEF WaitSpan
<1>10. AtMost'
  <2> DEFINE g == IF doing = "waiting" /\ Timer!Expired THEN TIMEOUT ELSE Seen
  <2>1. g \in Int /\ outside \in Nat  BY <1>1, <1>7 DEF TimerTypes
  <2>2. since <= (g + outside) * Ticks + frac  BY DEF TimerInv, AtMost
  <2>3. (g + outside + b) * Ticks + frac' = (g + outside) * Ticks + frac + 1
    BY <1>6, <2>1
  <2> DEFINE h == IF doing' = "waiting" /\ Timer!Expired' THEN TIMEOUT ELSE Seen'
  <2>4. g + outside + b <= h + outside'
    <3>1. CASE ~idle
      <4>1. outside' = outside + b  BY <1>2, <3>1
      <4>2. h >= g
        <5>1. CASE doing = "waiting"
          <6>1. Timer!Expired'
            <7>1. waiting >= left * Ticks  BY <3>1, <5>1 DEF idle, Timer!Expired
            <7>2. left * Ticks \in Int  BY <1>1 DEF TimerTypes
            <7>3. waiting' >= left' * Ticks  BY <1>1, <1>2, <5>1, <7>1, <7>2 DEF TimerTypes
            <7> QED  BY <7>3, <1>1, TimerConstants DEF Timer!Expired
          <6> QED  BY <1>1, <1>2, <3>1, <5>1, <6>1 DEF idle
        <5>2. CASE doing # "waiting"
          BY <1>2, <1>7, <5>2
        <5> QED  BY <5>1, <5>2
      <4>3. h \in Int  BY <1>1, <1>3, <1>7
      <4> HIDE DEF g, h
      <4> QED  BY <1>3, <2>1, <4>1, <4>2, <4>3
    <3>2. CASE idle
      <4>1. outside' = outside /\ doing = "waiting" /\ doing' = "waiting" /\ ~Timer!Expired
        BY <1>2, <3>2 DEF idle
      <4>2. g = Seen /\ Seen' = Seen + b  BY <1>7, <4>1
      <4>3. h >= Seen'
        <5>1. CASE ~Timer!Expired'
          BY <1>3, <1>7, <4>1, <5>1
        <5>2. CASE Timer!Expired'
          <6>1. waiting' <= left' * Ticks
            <7>1. ~(waiting >= left * Ticks)  BY <4>1 DEF Timer!Expired
            <7>2. left * Ticks \in Int  BY <1>1 DEF TimerTypes
            <7> QED  BY <1>1, <1>2, <4>1, <7>1, <7>2 DEF TimerTypes
          <6>2. crossed' <= left'
            <7> HIDE DEF g, h
            <7>1. crossed' * Ticks + frac' - (Ticks - 1) <= waiting'  BY <1>9, <4>1 DEF WaitSpan
            <7>2. crossed' \in Nat /\ left' \in Nat /\ waiting' \in Nat /\ frac' \in Nat
              BY <1>1, <1>5 DEF TimerTypes
            <7> QED  BY <6>1, <7>1, <7>2, SawLess
          <6>3. Seen' <= TIMEOUT
            <7>1. Seen' = TIMEOUT - left' + crossed'  BY <4>1 DEF Seen
            <7>2. crossed' \in Nat /\ left' \in Nat  BY <1>1, <1>5 DEF TimerTypes
            <7> HIDE DEF g, h
            <7>3. \A c, l, t \in Nat : c <= l => t - l + c <= t  OBVIOUS
            <7> QED  BY <1>1, <6>2, <7>1, <7>2, <7>3
          <6> QED  BY <4>1, <5>2, <6>3
        <5> QED  BY <5>1, <5>2
      <4>4. h \in Int  BY <1>1, <1>3, <1>7
      <4> HIDE DEF g, h
      <4> QED  BY <1>3, <1>7, <2>1, <4>1, <4>2, <4>3, <4>4
    <3> QED  BY <3>1, <3>2
  <2>5. h \in Int /\ outside' \in Nat  BY <1>1, <1>3, <1>5, <1>7 DEF TimerTypes
  <2> HIDE DEF g, h
  <2>6. (g + outside + b) * Ticks <= (h + outside') * Ticks
    <3>1. g + outside + b \in Int /\ h + outside' \in Int  BY <1>3, <2>1, <2>5
    <3> QED  BY <2>4, <3>1, TimesLeq
  <2>7. /\ (g + outside + b) * Ticks \in Int /\ (h + outside') * Ticks \in Int
        /\ (g + outside) * Ticks \in Int
    BY <1>1, <1>3, <2>1, <2>5
  <2>8. since + 1 <= (h + outside') * Ticks + frac'
    BY <1>1, <1>4, <2>2, <2>3, <2>6, <2>7 DEF TimerTypes
  <2> QED  BY <1>2, <2>8 DEF AtMost, h
<1> QED  BY <1>5, <1>8, <1>9, <1>10 DEF TimerInv

LEMMA TimerWait == TimerInv /\ Timer!Wait => TimerInv'
<1> SUFFICES ASSUME TimerInv, Timer!Wait  PROVE TimerInv'  OBVIOUS
<1>1. TimerTypes /\ Ticks \in Nat \ {0} /\ TIMEOUT \in Nat \ {0}
  BY TimerConstants DEF TimerInv
<1>2. /\ doing = "top" /\ doing' = "waiting" /\ crossed' = 0 /\ waiting' = 0
      /\ frac' = frac /\ left' = left /\ since' = since /\ outside' = outside
  BY DEF Timer!Wait
<1>3. TimerTypes'  BY <1>1, <1>2 DEF TimerTypes
<1>4. Seen' = Seen  BY <1>1, <1>2 DEF Seen, TimerTypes
<1>5. AtLeast'  BY <1>2, <1>4 DEF TimerInv, AtLeast
<1>6. ~Timer!Expired'
  <2>1. 1 * Ticks <= left * Ticks  BY <1>1, TimesLeq DEF TimerTypes
  <2>2. left * Ticks \in Int  BY <1>1 DEF TimerTypes
  <2>3. left' * Ticks > 0 /\ left' * Ticks \in Int  BY <1>1, <1>2, <2>1, <2>2
  <2> QED  BY <1>2, <2>3 DEF Timer!Expired
<1>7. AtMost'  BY <1>2, <1>4, <1>6 DEF TimerInv, AtMost
<1>8. WaitSpan'
  <2>1. crossed' * Ticks = 0  BY <1>1, <1>2
  <2> QED  BY <1>1, <1>2, <1>3, <2>1 DEF WaitSpan, TimerTypes
<1> QED  BY <1>3, <1>5, <1>7, <1>8 DEF TimerInv

\* The timed work leaves nothing seen and nothing passed.
LEMMA TimerWork ==
  TimerInv /\ Timer!TimedWork /\ frac' = frac /\ crossed' = crossed
    /\ waiting' = waiting /\ doing' \in {"top", "handling"} => TimerInv'
<1> SUFFICES ASSUME TimerInv, Timer!TimedWork, frac' = frac, crossed' = crossed,
                    waiting' = waiting, doing' \in {"top", "handling"}
             PROVE  TimerInv'
  OBVIOUS
<1>1. TimerTypes /\ Ticks \in Nat \ {0} /\ TIMEOUT \in Nat \ {0}
  BY TimerConstants DEF TimerInv
<1>2. left' = TIMEOUT /\ since' = 0 /\ outside' = 0  BY DEF Timer!TimedWork
<1>3. TimerTypes'  BY <1>1, <1>2 DEF TimerTypes
<1>4. Seen' = 0  BY <1>1, <1>2 DEF Seen
<1>5. Seen' * Ticks = 0 /\ (Seen' + outside') * Ticks = 0  BY <1>1, <1>2, <1>4
<1>6. AtLeast' /\ AtMost'  BY <1>1, <1>2, <1>3, <1>5 DEF AtLeast, AtMost, TimerTypes
<1>7. WaitSpan'  BY DEF WaitSpan
<1> QED  BY <1>3, <1>6, <1>7 DEF TimerInv

LEMMA TimerReady == TimerInv /\ Timer!Ready => TimerInv'
<1> SUFFICES ASSUME TimerInv, Timer!Ready  PROVE TimerInv'  OBVIOUS
<1>1. TimerTypes /\ Ticks \in Nat \ {0} /\ TIMEOUT \in Nat \ {0}
  BY TimerConstants DEF TimerInv
<1>2. /\ doing = "waiting" /\ doing' = "handling"
      /\ frac' = frac /\ crossed' = crossed /\ waiting' = waiting
  BY DEF Timer!Ready
<1>3. CASE left - crossed <= 0
  BY <1>2, <1>3, TimerWork DEF Timer!Ready
<1>4. CASE ~(left - crossed <= 0)
  <2>1. left' = left - crossed /\ since' = since /\ outside' = outside
    BY <1>4 DEF Timer!Ready
  <2>2. TimerTypes'  BY <1>1, <1>2, <1>4, <2>1 DEF TimerTypes
  <2>3. Seen' = Seen  BY <1>1, <1>2, <2>1 DEF Seen, TimerTypes
  <2>4. ~Timer!Expired
    <3> SUFFICES ASSUME Timer!Expired  PROVE FALSE  OBVIOUS
    <3>1. left <= crossed  BY <1>1, <1>2, ExpiredSawIt DEF TimerInv
    <3> QED  BY <1>1, <1>4, <3>1 DEF TimerTypes
  <2>5. AtLeast'  BY <1>2, <2>1, <2>3 DEF TimerInv, AtLeast
  <2>6. AtMost'  BY <1>2, <2>1, <2>3, <2>4 DEF TimerInv, AtMost
  <2>7. WaitSpan'  BY <1>2 DEF WaitSpan
  <2> QED  BY <2>2, <2>5, <2>6, <2>7 DEF TimerInv
<1> QED  BY <1>3, <1>4

LEMMA TimerHandled == TimerInv /\ Timer!Handled => TimerInv'
<1> SUFFICES ASSUME TimerInv, Timer!Handled  PROVE TimerInv'  OBVIOUS
<1>1. TimerTypes  BY DEF TimerInv
<1>2. /\ doing = "handling" /\ doing' = "top" /\ frac' = frac /\ left' = left
      /\ crossed' = crossed /\ waiting' = waiting /\ since' = since /\ outside' = outside
  BY DEF Timer!Handled
<1>3. TimerTypes'  BY <1>1, <1>2 DEF TimerTypes
<1>4. Seen' = Seen  BY <1>2 DEF Seen
<1>5. AtLeast' /\ AtMost' /\ WaitSpan'
  BY <1>2, <1>4 DEF TimerInv, AtLeast, AtMost, WaitSpan
<1> QED  BY <1>3, <1>5 DEF TimerInv

LEMMA TimerNext == TimerInv /\ [Timer!Next]_timerVars => TimerInv'
<1> SUFFICES ASSUME TimerInv, [Timer!Next]_timerVars  PROVE TimerInv'
  OBVIOUS
<1>1. CASE Timer!Clock  BY <1>1, TimerClock
<1>2. CASE Timer!Wait  BY <1>2, TimerWait
<1>3. CASE Timer!TimedOut  BY <1>3, TimerWork DEF Timer!TimedOut
<1>4. CASE Timer!Ready  BY <1>4, TimerReady
<1>5. CASE Timer!Handled  BY <1>5, TimerHandled
<1>6. CASE UNCHANGED timerVars
  BY <1>6 DEF TimerInv, TimerTypes, AtLeast, AtMost, WaitSpan, Seen, Timer!Expired, timerVars
<1> QED  BY <1>1, <1>2, <1>3, <1>4, <1>5, <1>6 DEF Timer!Next

\* The loop's count of the seconds is never far from the time that has passed.
THEOREM TimerInvariant == Spec => []TimerInv
<1>1. Timer!Init => TimerInv  BY TimerInit
<1>2. TimerInv /\ [Timer!Next]_timerVars => TimerInv'  BY TimerNext
<1> QED  BY <1>1, <1>2, TimerSteps, PTL

\* The seconds that the loop has seen when it does the timed work: the whole of
\* the period at least, and no more unless the wait has run out.
LEMMA SeenAtWork ==
  ASSUME TimerInv, doing = "waiting",
         Timer!Expired \/ left <= crossed
  PROVE  /\ Seen >= TIMEOUT
         /\ ~Timer!Expired => Seen <= TIMEOUT
<1>1. TimerTypes /\ WaitSpan /\ Ticks \in Nat \ {0} /\ TIMEOUT \in Nat \ {0}
  BY TimerConstants DEF TimerInv
<1>2. left <= crossed  BY <1>1, ExpiredSawIt
<1>3. Seen = TIMEOUT - left + crossed  BY DEF Seen
<1>4. ASSUME ~Timer!Expired  PROVE crossed <= left
  <2>1. crossed * Ticks + frac - (Ticks - 1) <= waiting  BY <1>1 DEF WaitSpan
  <2>2. waiting <= left * Ticks
    <3>1. left * Ticks \in Int  BY <1>1 DEF TimerTypes
    <3> QED  BY <1>1, <1>4, <3>1 DEF TimerTypes, Timer!Expired
  <2>3. crossed \in Nat /\ left \in Nat /\ waiting \in Nat /\ frac \in Nat
    BY <1>1 DEF TimerTypes
  <2> QED  BY <2>1, <2>2, <2>3, SawLess
<1>5. crossed \in Int /\ left \in Int  BY <1>1 DEF TimerTypes
<1> QED  BY <1>1, <1>2, <1>3, <1>4, <1>5

\* The timed work is done no sooner than a second before its time, and no later
\* than a second after it and the seconds outside the waits.
THEOREM TimedWorkOnTime == Spec => OnTime
<1> DEFINE Due ==
      since' < since =>
        /\ since > (TIMEOUT - 1) * Ticks
        /\ since <= (TIMEOUT + outside + 1) * Ticks
<1>1. ASSUME TimerInv, [Timer!Next]_timerVars  PROVE Due
  <2> SUFFICES ASSUME since' < since
               PROVE  /\ since > (TIMEOUT - 1) * Ticks
                      /\ since <= (TIMEOUT + outside + 1) * Ticks
    OBVIOUS
  <2>1. TimerTypes /\ Ticks \in Nat \ {0} /\ TIMEOUT \in Nat \ {0}
    BY <1>1, TimerConstants DEF TimerInv
  <2>2. doing = "waiting" /\ (Timer!Expired \/ left <= crossed)
    <3>1. Timer!TimedOut \/ Timer!Ready
      BY <1>1, <2>1 DEF Timer!Next, Timer!Clock, Timer!Wait, Timer!Handled, timerVars, TimerTypes
    <3>2. Timer!Ready => left - crossed <= 0  BY <2>1 DEF Timer!Ready, TimerTypes
    <3> QED  BY <2>1, <3>1, <3>2 DEF Timer!TimedOut, Timer!Ready, TimerTypes
  <2>3. Seen >= TIMEOUT /\ (~Timer!Expired => Seen <= TIMEOUT)  BY <1>1, <2>2, SeenAtWork
  <2>4. Seen \in Int  BY <2>1 DEF Seen, TimerTypes
  <2>5. since > (TIMEOUT - 1) * Ticks
    <3>1. TIMEOUT * Ticks <= Seen * Ticks  BY <2>1, <2>3, <2>4, TimesLeq
    <3>2. (TIMEOUT - 1 + 1) * Ticks = (TIMEOUT - 1) * Ticks + 1 * Ticks  BY <2>1, TimesPlus
    <3>3. (TIMEOUT - 1 + 1) * Ticks = TIMEOUT * Ticks  BY <2>1
    <3>4. Seen * Ticks + frac - (Ticks - 1) <= since  BY <1>1 DEF TimerInv, AtLeast
    <3>5. TIMEOUT * Ticks \in Int /\ (TIMEOUT - 1) * Ticks \in Int /\ Seen * Ticks \in Int
      BY <2>1, <2>4
    <3> QED  BY <2>1, <3>1, <3>2, <3>3, <3>4, <3>5 DEF TimerTypes
  <2>6. since <= (TIMEOUT + outside + 1) * Ticks
    <3> DEFINE g == IF doing = "waiting" /\ Timer!Expired THEN TIMEOUT ELSE Seen
    <3>1. g \in Int /\ g <= TIMEOUT /\ outside \in Nat  BY <2>1, <2>2, <2>3, <2>4 DEF TimerTypes
    <3>2. since <= (g + outside) * Ticks + frac  BY <1>1 DEF TimerInv, AtMost
    <3> HIDE DEF g
    <3>3. (g + outside) * Ticks <= (TIMEOUT + outside) * Ticks  BY <2>1, <3>1, TimesLeq
    <3>4. (TIMEOUT + outside + 1) * Ticks = (TIMEOUT + outside) * Ticks + 1 * Ticks
      BY <2>1, <3>1, TimesPlus
    <3>5. (g + outside) * Ticks \in Int /\ (TIMEOUT + outside) * Ticks \in Int
      BY <2>1, <3>1
    <3> QED  BY <2>1, <3>2, <3>3, <3>4, <3>5 DEF TimerTypes
  <2> QED  BY <2>5, <2>6
<1>2. TimerInv /\ [Timer!Next]_timerVars => [Due]_timerVars  BY <1>1
<1> QED  BY <1>2, TimerInvariant, TimerSteps, PTL DEF OnTime, Timer!OnTime, Timer!ioTimerVars, timerVars


-----------------------------------------------------------------------------
(* NonactiveConn                                                            *)

LEMMA CloserSteps == Spec => Closer!Init /\ [][Closer!Next]_closerVars
<1>1. Init => Closer!Init
  BY DEF Init
<1>2. [Next]_vars => [Closer!Next]_closerVars
  BY DEF Next, Keep, vars
<1> QED BY <1>1, <1>2, PTL DEF Spec

\* A client is at one place: not connected yet, waiting to be accepted, or under
\* one descriptor (no two, since user_data tells which).
ClientAtOnePlace ==
  /\ \A f \in Fds : conn[f] \notin fresh
  /\ \A n \in DOMAIN backlog : backlog[n] \notin fresh /\ \A f \in Fds : conn[f] # backlog[n]
  /\ \A m, n \in DOMAIN backlog : backlog[m] = backlog[n] => m = n

\* An edge of the listening socket, reported or to come, has a connection behind it.
EdgesHaveConns ==
  Len(backlog) >= (IF listenfd \in edges THEN 1 ELSE 0) + (IF listenfd \in events THEN 1 ELSE 0)

\* A timer has no less time left than the connection has to be quiet yet.
Timely == \A c \in timer_lst : quiet[c] + expire[c] >= Closer!Idle

UnreadWasSent == \A c \in Clients : unread[c] <= sends[c]

CloserInv ==
  Closer!TypeOK /\ TimerPerConnection /\ ClientAtOnePlace /\ EdgesHaveConns /\ Timely /\ UnreadWasSent

LEMMA CloserConstants ==
  /\ Fds \subseteq Nat /\ NULL \notin Clients /\ listenfd # pipefd
  /\ listenfd \notin Fds /\ pipefd \notin Fds
  /\ TIMESLOT \in Nat \ {0} /\ MaxSends \in Nat /\ Closer!Idle \in Nat \ {0}
  BY CloserAssumption DEF Closer!FdsAssumption, Closer!NamesAssumption, Closer!TimeslotAssumption,
                          Closer!Idle

LEMMA CloserInit == Closer!Init => CloserInv
<1> SUFFICES ASSUME Closer!Init PROVE CloserInv
  OBVIOUS
<1>1. Closer!TypeOK
  <2>1. 0 \in 0 .. MaxSends /\ 0 \in 0 .. Closer!Idle /\ TIMESLOT \in 0 .. TIMESLOT
    BY CloserConstants
  <2>2. <<>> \in Seq(Clients)
    OBVIOUS
  <2> HIDE DEF Closer!Idle
  <2>3. fresh \subseteq Clients /\ hup \subseteq Clients /\ backlog \in Seq(Clients) /\ alarm \in 0 .. TIMESLOT
    BY <2>1, <2>2 DEF Closer!Init
  <2>4. /\ unread \in [Clients -> 0 .. MaxSends] /\ sends \in [Clients -> 0 .. MaxSends]
        /\ expire \in [Clients -> 0 .. Closer!Idle] /\ quiet \in [Clients -> 0 .. Closer!Idle]
    BY <2>1 DEF Closer!Init
  <2> QED BY <2>3, <2>4 DEF Closer!Init, Closer!TypeOK
<1>2. TimerPerConnection
  BY DEF Closer!Init, TimerPerConnection, Closer!TimerPerConnection, Closer!Open
<1>3. ClientAtOnePlace /\ EdgesHaveConns /\ Timely /\ UnreadWasSent
  BY CloserConstants DEF Closer!Init, ClientAtOnePlace, EdgesHaveConns, Timely, UnreadWasSent
<1> QED BY <1>1, <1>2, <1>3 DEF CloserInv

\* Most steps leave the connections and their timers alone.
LEMMA SameConns ==
  ASSUME CloserInv, UNCHANGED << conn, users, user_data, timer_lst, fresh, backlog >>
  PROVE  TimerPerConnection' /\ ClientAtOnePlace'
  BY DEF CloserInv, TimerPerConnection, Closer!TimerPerConnection, Closer!Open, ClientAtOnePlace

LEMMA CloserConnect == ASSUME CloserInv, NEW c \in Clients, Closer!Connect(c) PROVE CloserInv'
<1> USE DEF CloserInv, Closer!Connect
<1>1. Closer!TypeOK'
  BY DEF Closer!TypeOK, Closer!flags, Closer!timers
<1>2. TimerPerConnection'
  BY DEF TimerPerConnection, Closer!TimerPerConnection, Closer!Open, Closer!timers
<1>3. backlog \in Seq(Clients) /\ backlog' = Append(backlog, c)
  BY DEF Closer!TypeOK
<1>4. ClientAtOnePlace'
  <2>1. /\ DOMAIN backlog' = DOMAIN backlog \cup {Len(backlog) + 1}
        /\ \A n \in DOMAIN backlog : backlog'[n] = backlog[n]
        /\ backlog'[Len(backlog) + 1] = c
    BY <1>3, AppendEntry
  <2>2. \A n \in DOMAIN backlog : backlog[n] # c
    BY DEF ClientAtOnePlace
  <2>3. conn' = conn /\ \A f \in Fds : conn[f] # c
    BY DEF ClientAtOnePlace
  <2> QED BY <2>1, <2>2, <2>3 DEF ClientAtOnePlace
<1>5. EdgesHaveConns'
  BY <1>3 DEF EdgesHaveConns
<1>6. Timely' /\ UnreadWasSent'
  BY DEF Timely, UnreadWasSent, Closer!timers, Closer!Idle
<1> QED BY <1>1, <1>2, <1>4, <1>5, <1>6

LEMMA CloserSend == ASSUME CloserInv, NEW c \in Clients, Closer!Send(c) PROVE CloserInv'
<1> USE DEF CloserInv, Closer!Send
<1>1. /\ unread' = [unread EXCEPT ![c] = @ + 1] /\ sends' = [sends EXCEPT ![c] = @ + 1]
      /\ sends[c] < MaxSends /\ unread[c] \in 0 .. MaxSends /\ sends[c] \in 0 .. MaxSends
      /\ unread[c] <= sends[c]
  BY DEF Closer!TypeOK, UnreadWasSent
<1>2. Closer!TypeOK'
  <2>1. sends[c] + 1 \in 0 .. MaxSends /\ unread[c] + 1 \in 0 .. MaxSends
    BY <1>1, CloserConstants
  <2>2. unread' \in [Clients -> 0 .. MaxSends] /\ sends' \in [Clients -> 0 .. MaxSends]
    BY <1>1, <2>1 DEF Closer!TypeOK
  <2>3. edges' \subseteq Fds \cup {listenfd, pipefd}
    BY DEF Closer!TypeOK, Closer!Under
  <2> QED BY <2>2, <2>3 DEF Closer!TypeOK, Closer!flags, Closer!timers
<1>3. UnreadWasSent'
  BY <1>1 DEF UnreadWasSent, Closer!TypeOK
<1>4. EdgesHaveConns'
  BY CloserConstants DEF EdgesHaveConns, Closer!Under
<1>5. Timely' /\ TimerPerConnection' /\ ClientAtOnePlace'
  BY SameConns DEF Timely, Closer!timers, Closer!Idle
<1> QED BY <1>2, <1>3, <1>4, <1>5

LEMMA CloserHangUp == ASSUME CloserInv, NEW c \in Clients, Closer!HangUp(c) PROVE CloserInv'
<1> USE DEF CloserInv, Closer!HangUp
<1>1. Closer!TypeOK'
  BY DEF Closer!TypeOK, Closer!Under, Closer!flags, Closer!timers
<1>2. EdgesHaveConns'
  BY CloserConstants DEF EdgesHaveConns, Closer!Under
<1>3. Timely' /\ UnreadWasSent' /\ TimerPerConnection' /\ ClientAtOnePlace'
  BY SameConns DEF Timely, UnreadWasSent, Closer!timers, Closer!Idle
<1> QED BY <1>1, <1>2, <1>3

\* A tick takes from what is left to a timer what it adds to the quiet of its
\* connection.
LEMMA CloserClock == ASSUME CloserInv, Closer!Clock PROVE CloserInv'
<1> USE DEF CloserInv, Closer!Clock
<1>1. \A n \in Nat : Closer!Less(n) = IF n = 0 THEN 0 ELSE n - 1
  BY DEF Closer!Less
<1>2. /\ alarm \in 0 .. TIMESLOT /\ expire \in [Clients -> 0 .. Closer!Idle]
      /\ quiet \in [Clients -> 0 .. Closer!Idle] /\ timer_lst \subseteq Clients
  BY DEF Closer!TypeOK
<1> HIDE DEF Closer!Idle
<1>3. alarm' \in 0 .. TIMESLOT
  BY <1>1, <1>2, CloserConstants
<1>4. /\ expire' \in [Clients -> 0 .. Closer!Idle]
      /\ \A c \in Clients : expire'[c] = IF expire[c] = 0 THEN 0 ELSE expire[c] - 1
  <2>1. \A c \in Clients : expire[c] \in 0 .. Closer!Idle /\ expire[c] \in Nat
    BY <1>2, CloserConstants
  <2>2. \A c \in Clients : Closer!Less(expire[c]) \in 0 .. Closer!Idle
    BY <1>1, <2>1, CloserConstants
  <2> QED BY <1>1, <2>1, <2>2
<1>5. /\ quiet' \in [Clients -> 0 .. Closer!Idle]
      /\ \A c \in Clients : quiet'[c] = IF quiet[c] < Closer!Idle THEN quiet[c] + 1 ELSE Closer!Idle
  BY <1>2, CloserConstants
<1>6. /\ pipe' \subseteq {"SIGALRM", "SIGTERM"} /\ edges' \subseteq Fds \cup {listenfd, pipefd}
      /\ listenfd \in edges' <=> listenfd \in edges
  BY CloserConstants DEF Closer!TypeOK
<1>7. Closer!TypeOK'
  BY <1>3, <1>4, <1>5, <1>6 DEF Closer!TypeOK, Closer!client, Closer!flags
<1>8. Timely'
  BY <1>2, <1>4, <1>5, CloserConstants DEF Timely
<1>9. EdgesHaveConns' /\ UnreadWasSent'
  BY <1>6 DEF EdgesHaveConns, UnreadWasSent, Closer!client
<1>10. TimerPerConnection' /\ ClientAtOnePlace'
  BY SameConns DEF Closer!client
<1> QED BY <1>7, <1>8, <1>9, <1>10

LEMMA CloserTerminate == ASSUME CloserInv, Closer!Terminate PROVE CloserInv'
<1> USE DEF CloserInv, Closer!Terminate
<1>1. Closer!TypeOK'
  BY DEF Closer!TypeOK, Closer!client, Closer!flags, Closer!timers
<1>2. EdgesHaveConns'
  BY CloserConstants DEF EdgesHaveConns
<1>3. Timely' /\ UnreadWasSent' /\ TimerPerConnection' /\ ClientAtOnePlace'
  BY SameConns DEF Timely, UnreadWasSent, Closer!client, Closer!timers, Closer!Idle
<1> QED BY <1>1, <1>2, <1>3

LEMMA CloserEpollWait == ASSUME CloserInv, Closer!EpollWait PROVE CloserInv'
<1> USE DEF CloserInv, Closer!EpollWait
<1>1. Closer!TypeOK'
  BY DEF Closer!TypeOK, Closer!client, Closer!flags, Closer!timers
<1>2. EdgesHaveConns'
  BY DEF EdgesHaveConns
<1>3. Timely' /\ UnreadWasSent' /\ TimerPerConnection' /\ ClientAtOnePlace'
  BY SameConns DEF Timely, UnreadWasSent, Closer!client, Closer!timers, Closer!Idle
<1> QED BY <1>1, <1>2, <1>3

\* The client accepted had no connection and no timer, and gets both, the timer
\* with all its time.
LEMMA CloserAccept == ASSUME CloserInv, Closer!Accept PROVE CloserInv'
<1> USE DEF CloserInv, Closer!Accept
<1>1. /\ backlog \in Seq(Clients) /\ backlog # <<>>
      /\ Len(Tail(backlog)) = Len(backlog) - 1 /\ Tail(backlog) \in Seq(Clients)
      /\ Head(backlog) \in Clients
  <2>1. backlog \in Seq(Clients)
    BY DEF Closer!TypeOK
  <2>2. Len(backlog) >= 1
    BY <2>1 DEF EdgesHaveConns, Closer!Handles
  <2>3. backlog # <<>>
    BY <2>1, <2>2
  <2> QED BY <2>1, <2>3, TailEntry
<1> DEFINE c == Head(backlog)
<1>2. PICK f \in Fds :
        /\ conn[f] = NULL /\ backlog' = Tail(backlog)
        /\ conn' = [conn EXCEPT ![f] = c]
        /\ edges' = IF unread[c] > 0 \/ c \in hup THEN edges \cup {f} ELSE edges
        /\ user_data' = [user_data EXCEPT ![c] = f]
        /\ expire' = [expire EXCEPT ![c] = Closer!Idle]
        /\ users' = [users EXCEPT ![f] = c]
        /\ timer_lst' = timer_lst \cup {c}
        /\ quiet' = [quiet EXCEPT ![c] = 0]
  BY DEF Closer!LowestFree, Closer!Open
<1>3. \A g \in Fds : conn[g] # c
  <2>1. 1 \in DOMAIN backlog /\ c = backlog[1]
    BY <1>1
  <2> QED BY <2>1 DEF ClientAtOnePlace
<1> HIDE DEF c
<1>4. Closer!TypeOK'
  <2>1. 0 \in 0 .. Closer!Idle /\ Closer!Idle \in 0 .. Closer!Idle
    BY CloserConstants
  <2>2. c \in Clients
    BY <1>1 DEF c
  <2>3. events' \subseteq Fds \cup {listenfd, pipefd}
    BY DEF Closer!Handles, Closer!TypeOK
  <2> HIDE DEF Closer!Idle
  <2> QED BY <1>1, <1>2, <2>1, <2>2, <2>3 DEF Closer!TypeOK, Closer!client, Closer!flags
<1>5. TimerPerConnection'
  <2>1. \A g \in Fds : conn'[g] = IF g = f THEN c ELSE conn[g]
    BY <1>2 DEF Closer!TypeOK
  <2>2. c \in Clients /\ c # NULL
    BY <1>1, CloserConstants DEF c
  <2>3. /\ Closer!Open' = Closer!Open \cup {f} /\ f \notin Closer!Open
        /\ \A g \in Closer!Open : conn[g] # c
    BY <1>2, <1>3, <2>1, <2>2 DEF Closer!Open
  <2>4. timer_lst' = {conn'[g] : g \in Closer!Open'}
    BY <1>2, <2>1, <2>3 DEF TimerPerConnection, Closer!TimerPerConnection, Closer!Open
  <2>5. \A g \in Closer!Open' : users'[g] = conn'[g] /\ user_data'[conn'[g]] = g
    <3> SUFFICES ASSUME NEW g \in Closer!Open' PROVE users'[g] = conn'[g] /\ user_data'[conn'[g]] = g
      OBVIOUS
    <3>1. CASE g = f
      BY <1>2, <2>1, <2>2, <3>1 DEF Closer!TypeOK
    <3>2. CASE g # f
      <4>1. g \in Closer!Open /\ g \in Fds /\ conn[g] \in Clients /\ conn[g] # c /\ conn'[g] = conn[g]
        BY <2>1, <2>3, <3>2 DEF Closer!Open, Closer!TypeOK
      <4>2. users[g] = conn[g] /\ user_data[conn[g]] = g
        BY <4>1 DEF TimerPerConnection, Closer!TimerPerConnection
      <4>3. users'[g] = users[g] /\ user_data'[conn[g]] = user_data[conn[g]]
        BY <1>2, <3>2, <4>1 DEF Closer!TypeOK
      <4> QED BY <4>1, <4>2, <4>3
    <3> QED BY <3>1, <3>2
  <2> QED BY <2>4, <2>5 DEF TimerPerConnection, Closer!TimerPerConnection
<1>6. ClientAtOnePlace'
  <2>1. /\ \A n \in DOMAIN backlog' : n + 1 \in DOMAIN backlog /\ backlog'[n] = backlog[n + 1]
        /\ DOMAIN backlog' \subseteq Nat \ {0} /\ 1 \in DOMAIN backlog /\ c = backlog[1]
    BY <1>1, <1>2, TailEntry DEF c
  <2>2. \A g \in Fds : conn'[g] = IF g = f THEN c ELSE conn[g]
    BY <1>2 DEF Closer!TypeOK
  <2>3. fresh' = fresh
    BY DEF Closer!client
  <2>4. \A m, n \in DOMAIN backlog' : backlog'[m] = backlog'[n] => m = n
    BY <2>1 DEF ClientAtOnePlace
  <2>5. \A n \in DOMAIN backlog' : backlog'[n] # c
    BY <2>1 DEF ClientAtOnePlace
  <2> QED BY <2>1, <2>2, <2>3, <2>4, <2>5 DEF ClientAtOnePlace
<1>7. EdgesHaveConns'
  <2>1. Len(backlog') = Len(backlog) - 1 /\ Len(backlog) \in Nat
    BY <1>1, <1>2
  <2>2. listenfd \in edges' <=> listenfd \in edges
    BY <1>2, CloserConstants
  <2>3. listenfd \in events /\ listenfd \notin events'
    BY DEF Closer!Handles
  <2> QED BY <2>1, <2>2, <2>3 DEF EdgesHaveConns
<1>8. Timely'
  <2>1. c \in Clients /\ timer_lst \subseteq Clients
    BY <1>1 DEF c, Closer!TypeOK
  <2>2. /\ expire'[c] = Closer!Idle /\ quiet'[c] = 0
        /\ \A d \in timer_lst : d # c => expire'[d] = expire[d] /\ quiet'[d] = quiet[d]
    BY <1>2, <2>1 DEF Closer!TypeOK
  <2>3. Closer!Idle' = Closer!Idle
    BY DEF Closer!Idle
  <2> HIDE DEF Closer!Idle
  <2>4. 0 + Closer!Idle >= Closer!Idle
    BY CloserConstants
  <2> QED BY <1>2, <2>2, <2>3, <2>4 DEF Timely
<1>9. UnreadWasSent'
  BY DEF UnreadWasSent, Closer!client
<1> QED BY <1>4, <1>5, <1>6, <1>7, <1>8, <1>9

LEMMA CloserSignals == ASSUME CloserInv, Closer!Signals PROVE CloserInv'
<1> USE DEF CloserInv, Closer!Signals
<1>1. Closer!TypeOK'
  BY DEF Closer!TypeOK, Closer!client, Closer!kernel, Closer!timers, Closer!Handles
<1>2. EdgesHaveConns'
  BY CloserConstants DEF EdgesHaveConns, Closer!kernel, Closer!Handles
<1>3. Timely' /\ UnreadWasSent' /\ TimerPerConnection' /\ ClientAtOnePlace'
  BY SameConns DEF Timely, UnreadWasSent, Closer!client, Closer!kernel, Closer!timers, Closer!Idle
<1> QED BY <1>1, <1>2, <1>3

\* Closing the connections of some timers of the list closes those and no other.
LEMMA ClosedEffect ==
  ASSUME CloserInv, NEW C \in SUBSET timer_lst, Closer!Closed(C)
  PROVE  \A f \in Fds : conn'[f] = IF conn[f] \in C THEN NULL ELSE conn[f]
<1>1. NULL \notin C
  BY CloserConstants DEF CloserInv, Closer!TypeOK
<1> SUFFICES ASSUME NEW f \in Fds PROVE conn'[f] = IF conn[f] \in C THEN NULL ELSE conn[f]
  OBVIOUS
<1>2. conn'[f] = IF f \in {user_data[c] : c \in C} THEN NULL ELSE conn[f]
  BY DEF Closer!Closed
<1>3. ASSUME conn[f] # NULL, NEW c \in C, f = user_data[c] PROVE conn[f] = c
  <2>1. PICK g \in Closer!Open : c = conn[g]
    BY DEF CloserInv, TimerPerConnection, Closer!TimerPerConnection
  <2>2. g = f
    BY <1>3, <2>1 DEF CloserInv, TimerPerConnection, Closer!TimerPerConnection
  <2> QED BY <2>1, <2>2
<1>4. ASSUME conn[f] # NULL, conn[f] \in C PROVE user_data[conn[f]] = f
  BY <1>4 DEF CloserInv, TimerPerConnection, Closer!TimerPerConnection, Closer!Open
<1> QED BY <1>1, <1>2, <1>3, <1>4

LEMMA CloserClosed ==
  ASSUME CloserInv, NEW C \in SUBSET timer_lst, Closer!Closed(C), timer_lst' = timer_lst \ C,
         UNCHANGED << Closer!client, backlog, users, user_data, expire, quiet >>,
         events' \subseteq events
  PROVE  /\ TimerPerConnection' /\ ClientAtOnePlace' /\ EdgesHaveConns' /\ Timely' /\ UnreadWasSent'
         /\ conn' \in [Fds -> Clients \cup {NULL}] /\ timer_lst' \subseteq Clients
         /\ edges' \subseteq Fds \cup {listenfd, pipefd} /\ events' \subseteq Fds \cup {listenfd, pipefd}
<1> USE DEF CloserInv
<1>1. \A f \in Fds : conn'[f] = IF conn[f] \in C THEN NULL ELSE conn[f]
  BY ClosedEffect
<1>2. /\ conn' \in [Fds -> Clients \cup {NULL}] /\ timer_lst' \subseteq Clients
      /\ edges' \subseteq edges /\ edges' \subseteq Fds \cup {listenfd, pipefd}
      /\ events' \subseteq Fds \cup {listenfd, pipefd}
  BY DEF Closer!Closed, Closer!TypeOK
<1>3. Closer!Open' = {f \in Closer!Open : conn[f] \notin C}
  BY <1>1, CloserConstants DEF Closer!Open, Closer!TypeOK
<1>4. TimerPerConnection'
  <2>1. \A f \in Closer!Open' : f \in Closer!Open /\ conn'[f] = conn[f]
    BY <1>1, <1>3 DEF Closer!Open
  <2>2. timer_lst' = {conn'[f] : f \in Closer!Open'}
    BY <1>3, <2>1 DEF TimerPerConnection, Closer!TimerPerConnection
  <2> QED BY <2>1, <2>2 DEF TimerPerConnection, Closer!TimerPerConnection
<1>5. ClientAtOnePlace'
  <2>1. fresh' = fresh /\ backlog' = backlog
    BY DEF Closer!client
  <2>2. /\ NULL \notin fresh
        /\ \A n \in DOMAIN backlog : backlog[n] # NULL
    <3>1. fresh \subseteq Clients /\ backlog \in Seq(Clients)
      BY DEF Closer!TypeOK
    <3> QED BY <3>1, CloserConstants
  <2> QED BY <1>1, <2>1, <2>2 DEF ClientAtOnePlace
<1>6. EdgesHaveConns'
  <2>1. Len(backlog) \in Nat
    BY DEF Closer!TypeOK
  <2> QED BY <1>2, <2>1 DEF EdgesHaveConns
<1>7. Timely' /\ UnreadWasSent'
  BY DEF Timely, UnreadWasSent, Closer!client, Closer!Idle
<1> QED BY <1>2, <1>4, <1>5, <1>6, <1>7

\* A hang-up ends the connection and its timer.
LEMMA CloserHungUp ==
  ASSUME CloserInv, Closer!RecvFails \/ Closer!RecvNothing PROVE CloserInv'
<1>1. PICK f \in Closer!Open : Closer!Handles(f) /\ Closer!Drop(f)
  BY DEF Closer!RecvFails, Closer!RecvNothing
<1>2. UNCHANGED << Closer!client, backlog, alarm, pipe, users, expire, user_data, quiet,
                   Closer!flags, at >>
  BY DEF Closer!RecvFails, Closer!RecvNothing
<1>3. {users[f]} \subseteq timer_lst
  BY DEF CloserInv, TimerPerConnection, Closer!TimerPerConnection
<1>4. Closer!Closed({users[f]}) /\ timer_lst' = timer_lst \ {users[f]} /\ events' \subseteq events
  BY <1>1 DEF Closer!Drop, Closer!Handles
<1>5. /\ TimerPerConnection' /\ ClientAtOnePlace' /\ EdgesHaveConns' /\ Timely' /\ UnreadWasSent'
      /\ conn' \in [Fds -> Clients \cup {NULL}] /\ timer_lst' \subseteq Clients
      /\ edges' \subseteq Fds \cup {listenfd, pipefd} /\ events' \subseteq Fds \cup {listenfd, pipefd}
  BY <1>2, <1>3, <1>4, CloserClosed
<1>6. Closer!TypeOK'
  BY <1>2, <1>5 DEF CloserInv, Closer!TypeOK, Closer!client, Closer!flags
<1> QED BY <1>5, <1>6 DEF CloserInv

LEMMA CloserTick == ASSUME CloserInv, Closer!TimerHandler PROVE CloserInv'
<1> USE DEF Closer!TimerHandler
<1>1. Closer!Due \subseteq timer_lst
  BY DEF Closer!Due
<1>2. /\ TimerPerConnection' /\ ClientAtOnePlace' /\ EdgesHaveConns' /\ Timely' /\ UnreadWasSent'
      /\ conn' \in [Fds -> Clients \cup {NULL}] /\ timer_lst' \subseteq Clients
      /\ edges' \subseteq Fds \cup {listenfd, pipefd} /\ events' \subseteq Fds \cup {listenfd, pipefd}
  BY <1>1, CloserClosed
<1>3. Closer!TypeOK'
  <2>1. alarm' \in 0 .. TIMESLOT
    BY CloserConstants
  <2> QED BY <1>2, <2>1 DEF CloserInv, Closer!TypeOK, Closer!client
<1> QED BY <1>2, <1>3 DEF CloserInv

LEMMA CloserRecvAgain == ASSUME CloserInv, Closer!RecvAgain PROVE CloserInv'
<1> USE DEF CloserInv, Closer!RecvAgain
<1>1. Closer!TypeOK'
  BY DEF Closer!TypeOK, Closer!client, Closer!kernel, Closer!timers, Closer!flags, Closer!Handles
<1>2. EdgesHaveConns'
  BY CloserConstants DEF EdgesHaveConns, Closer!kernel, Closer!Handles, Closer!Open
<1>3. Timely' /\ UnreadWasSent' /\ TimerPerConnection' /\ ClientAtOnePlace'
  BY SameConns DEF Timely, UnreadWasSent, Closer!client, Closer!kernel, Closer!timers, Closer!Idle
<1> QED BY <1>1, <1>2, <1>3

\* Input gives the connection's own timer, and no other, all its time again.
LEMMA CloserRecvData == ASSUME CloserInv, Closer!RecvData PROVE CloserInv'
<1> USE DEF CloserInv, Closer!RecvData
<1>1. PICK f \in Closer!Open :
        /\ Closer!Handles(f) /\ users[f] = conn[f]
        /\ unread' = [unread EXCEPT ![conn[f]] = 0]
        /\ expire' = [expire EXCEPT ![conn[f]] = Closer!Idle]
        /\ quiet' = [quiet EXCEPT ![conn[f]] = 0]
  BY DEF TimerPerConnection, Closer!TimerPerConnection
<1>2. conn[f] \in Clients /\ f \in Fds
  BY DEF Closer!Open, Closer!TypeOK
<1>3. 0 \in 0 .. Closer!Idle /\ Closer!Idle \in 0 .. Closer!Idle /\ 0 \in 0 .. MaxSends
  BY CloserConstants
<1> HIDE DEF Closer!Idle
<1>4. Closer!TypeOK'
  <2>1. events' \subseteq Fds \cup {listenfd, pipefd}
    BY <1>1 DEF Closer!Handles, Closer!TypeOK
  <2> QED BY <1>1, <1>2, <1>3, <2>1 DEF Closer!TypeOK, Closer!kernel, Closer!flags
<1>5. EdgesHaveConns'
  BY <1>1, <1>2, CloserConstants DEF EdgesHaveConns, Closer!kernel, Closer!Handles
<1>6. TimerPerConnection' /\ ClientAtOnePlace'
  BY SameConns DEF Closer!kernel
<1>7. Timely'
  <2>1. Closer!Idle' = Closer!Idle /\ 0 + Closer!Idle >= Closer!Idle
    BY CloserConstants DEF Closer!Idle
  <2>2. timer_lst \subseteq Clients /\ timer_lst' = timer_lst
    BY DEF Closer!TypeOK
  <2> QED BY <1>1, <1>2, <2>1, <2>2 DEF Timely, Closer!TypeOK
<1>8. UnreadWasSent'
  <2>1. \A c \in Clients : sends[c] \in Nat
    BY CloserConstants DEF Closer!TypeOK
  <2> QED BY <1>1, <1>2, <2>1 DEF UnreadWasSent, Closer!TypeOK
<1> QED BY <1>4, <1>5, <1>6, <1>7, <1>8

LEMMA CloserLeave == ASSUME CloserInv, Closer!Leave \/ UNCHANGED closerVars PROVE CloserInv'
<1> USE DEF CloserInv, Closer!Leave, closerVars
<1>1. Closer!TypeOK'
  BY DEF Closer!TypeOK, Closer!client, Closer!kernel, Closer!timers, Closer!flags
<1>2. EdgesHaveConns'
  BY CloserConstants DEF EdgesHaveConns, Closer!kernel
<1>3. Timely' /\ UnreadWasSent' /\ TimerPerConnection' /\ ClientAtOnePlace'
  BY SameConns DEF Timely, UnreadWasSent, Closer!client, Closer!kernel, Closer!timers, Closer!Idle
<1> QED BY <1>1, <1>2, <1>3

LEMMA CloserNext == ASSUME CloserInv, [Closer!Next]_closerVars PROVE CloserInv'
<1>1. CASE \E c \in Clients : Closer!Connect(c) \/ Closer!Send(c) \/ Closer!HangUp(c)
  BY <1>1, CloserConnect, CloserSend, CloserHangUp
<1>2. CASE Closer!Clock \/ Closer!Terminate
  BY <1>2, CloserClock, CloserTerminate
<1>3. CASE Closer!Loop
  BY <1>3, CloserEpollWait, CloserAccept, CloserSignals, CloserHungUp, CloserRecvAgain,
     CloserRecvData, CloserTick, CloserLeave DEF Closer!Loop
<1>4. CASE UNCHANGED closerVars
  BY <1>4, CloserLeave
<1> QED BY <1>1, <1>2, <1>3, <1>4 DEF Closer!Next

THEOREM CloserInvariant == Spec => []CloserInv
<1> QED BY CloserInit, CloserNext, CloserSteps, PTL

\* Every open connection has its own timer in the list, and no timer there is for
\* a connection that was closed (NonactiveConn).
THEOREM EveryConnectionHasItsTimer == Spec => []TimerPerConnection
<1>1. CloserInv => TimerPerConnection
  BY DEF CloserInv
<1> QED BY <1>1, CloserInvariant, PTL

\* A connection is closed for a hang-up, or after three slots without input
\* (NonactiveConn).
THEOREM OnlyIdleIsClosed == Spec => ClosedWhenIdle
<1> DEFINE ForCause == \A f \in Closer!Open : conn'[f] # conn[f] =>
                         conn[f] \in hup \/ quiet[conn[f]] = Closer!Idle
<1>1. ASSUME CloserInv, [Closer!Next]_closerVars PROVE ForCause
  <2>0. SUFFICES ASSUME NEW f \in Closer!Open, conn'[f] # conn[f]
                 PROVE  conn[f] \in hup \/ quiet[conn[f]] = Closer!Idle
    OBVIOUS
  <2>1. f \in Fds /\ conn[f] # NULL /\ conn[f] \in timer_lst
    BY <1>1 DEF Closer!Open, CloserInv, TimerPerConnection, Closer!TimerPerConnection
  <2>2. CASE Closer!RecvFails \/ Closer!RecvNothing
    <3>1. PICK g \in Closer!Open : conn[g] \in hup /\ Closer!Drop(g)
      BY <2>2 DEF Closer!RecvFails, Closer!RecvNothing
    <3>2. users[g] = conn[g] /\ conn[g] \in timer_lst
      BY <1>1 DEF CloserInv, TimerPerConnection, Closer!TimerPerConnection
    <3>3. conn[f] \in {users[g]}
      BY <1>1, <2>0, <2>1, <3>1, <3>2, ClosedEffect DEF Closer!Drop
    <3> QED BY <3>1, <3>2, <3>3
  <2>3. CASE Closer!TimerHandler
    <3>1. conn[f] \in Closer!Due
      <4>1. Closer!Due \in SUBSET timer_lst
        BY DEF Closer!Due
      <4> QED BY <1>1, <2>0, <2>1, <2>3, <4>1, ClosedEffect DEF Closer!TimerHandler
    <3>2. /\ expire[conn[f]] = 0 /\ quiet[conn[f]] + expire[conn[f]] >= Closer!Idle
          /\ quiet[conn[f]] \in 0 .. Closer!Idle
      BY <1>1, <2>1, <3>1 DEF Closer!Due, CloserInv, Timely, Closer!TypeOK
    <3> HIDE DEF Closer!Idle
    <3> QED BY <3>2, CloserConstants
  <2>4. CASE Closer!Accept
    BY <2>0, <2>1, <2>4, <1>1 DEF Closer!Accept, Closer!LowestFree, CloserInv, Closer!TypeOK
  <2>5. CASE conn' = conn
    BY <2>0, <2>5
  <2> QED BY <1>1, <2>2, <2>3, <2>4, <2>5
       DEF Closer!Next, Closer!Loop, closerVars, Closer!Connect, Closer!Send, Closer!HangUp, Closer!Clock,
           Closer!Terminate, Closer!EpollWait, Closer!Signals, Closer!RecvAgain, Closer!RecvData,
           Closer!Leave, Closer!kernel
<1>2. CloserInv /\ [Closer!Next]_closerVars => [ForCause]_(Closer!vars)
  BY <1>1 DEF Closer!vars, Closer!client, Closer!kernel, Closer!timers, Closer!flags, closerVars
<1> QED BY <1>2, CloserInvariant, CloserSteps, PTL DEF ClosedWhenIdle, Closer!ClosedWhenIdle


-----------------------------------------------------------------------------
(* UniEvent                                                                 *)

LEMMA UniSteps == Spec => Uni!Init /\ [][Uni!Next]_uniVars
<1>1. Init => Uni!Init
  BY DEF Init
<1>2. [Next]_vars => [Uni!Next]_uniVars
  BY DEF Next, Keep, vars
<1> QED BY <1>1, <1>2, PTL DEF Spec

\* What is in the pair has an edge, and a signal that is to stop the loop has
\* stopped it or is in the pair.
SignalsPending ==
  /\ uni_pipe \in Seq(Uni!Signals)
  /\ uni_pipe # <<>> => pipefd \in uni_edges \cup uni_events
  /\ told => uni_stop \/ \E n \in DOMAIN uni_pipe : uni_pipe[n] \in Uni!Stops

\* A connection is stranded when it met an edge of another that was not reported yet.
ConnsPending ==
  /\ uni_backlog \in Int /\ uni_merged \in Int
  /\ uni_backlog <= uni_merged + (IF listenfd \in uni_edges THEN 1 ELSE 0)
                               + (IF listenfd \in uni_events THEN 1 ELSE 0)

UniInv == SignalsPending /\ ConnsPending

LEMMA UniHandler == ASSUME UniInv, Uni!Handler PROVE UniInv'
<1> USE DEF UniInv, Uni!Handler, Uni!loopVars, Uni!connVars
<1>1. PICK sig \in Uni!Signals :
        IF uni_pc # "closed" /\ Len(uni_pipe) < PIPE_SIZE
        THEN /\ uni_pipe' = Append(uni_pipe, sig) /\ uni_edges' = uni_edges \cup {pipefd}
             /\ told' = (told \/ sig \in Uni!Stops)
        ELSE UNCHANGED << uni_pipe, uni_edges, told >>
  OBVIOUS
<1>2. ConnsPending'
  BY <1>1, CloserConstants DEF ConnsPending
<1>3. CASE uni_pc # "closed" /\ Len(uni_pipe) < PIPE_SIZE
  <2>1. /\ uni_pipe' = Append(uni_pipe, sig) /\ uni_edges' = uni_edges \cup {pipefd}
        /\ told' = (told \/ sig \in Uni!Stops) /\ uni_pipe \in Seq(Uni!Signals)
    BY <1>1, <1>3 DEF SignalsPending
  <2>2. /\ uni_pipe' \in Seq(Uni!Signals)
        /\ DOMAIN uni_pipe' = DOMAIN uni_pipe \cup {Len(uni_pipe) + 1}
        /\ \A n \in DOMAIN uni_pipe : uni_pipe'[n] = uni_pipe[n]
        /\ uni_pipe'[Len(uni_pipe) + 1] = sig
    BY <2>1, AppendEntry
  <2>3. told' => uni_stop' \/ \E n \in DOMAIN uni_pipe' : uni_pipe'[n] \in Uni!Stops
    BY <2>1, <2>2 DEF SignalsPending
  <2> QED BY <1>2, <2>1, <2>2, <2>3 DEF SignalsPending
<1>4. CASE ~(uni_pc # "closed" /\ Len(uni_pipe) < PIPE_SIZE)
  BY <1>1, <1>2, <1>4 DEF SignalsPending
<1> QED BY <1>3, <1>4

LEMMA UniNext == ASSUME UniInv, [Uni!Next]_uniVars PROVE UniInv'
<1> USE DEF UniInv
<1>1. CASE Uni!Connect
  <2>1. ConnsPending'
    BY <1>1 DEF ConnsPending, Uni!Connect, Uni!loopVars
  <2>2. SignalsPending'
    BY <1>1 DEF SignalsPending, Uni!Connect, Uni!loopVars
  <2> QED BY <2>1, <2>2
<1>2. CASE Uni!Handler
  BY <1>2, UniHandler
<1>3. CASE Uni!EpollWait
  BY <1>3 DEF SignalsPending, ConnsPending, Uni!EpollWait, Uni!connVars, Uni!Waiting
<1>4. CASE Uni!Accept
  <2>1. ConnsPending'
    BY <1>4 DEF ConnsPending, Uni!Accept, Uni!Handling
  <2>2. SignalsPending'
    BY <1>4, CloserConstants DEF SignalsPending, Uni!Accept, Uni!Handling
  <2> QED BY <2>1, <2>2
<1>5. CASE Uni!RecvSignals
  <2>1. ConnsPending'
    BY <1>5, CloserConstants DEF ConnsPending, Uni!RecvSignals, Uni!Handling, Uni!connVars
  <2>2. <<>> \in Seq(Uni!Signals)
    OBVIOUS
  <2>3. SignalsPending'
    BY <1>5, <2>2 DEF SignalsPending, Uni!RecvSignals, Uni!Handling
  <2> QED BY <2>1, <2>3
<1>6. CASE Uni!RecvNothing
  BY <1>6, CloserConstants DEF SignalsPending, ConnsPending, Uni!RecvNothing, Uni!Handling, Uni!connVars
<1>7. CASE Uni!LoopEnds \/ Uni!Close \/ UNCHANGED uniVars
  BY <1>7 DEF SignalsPending, ConnsPending, Uni!LoopEnds, Uni!Close, Uni!connVars, uniVars
<1> QED BY <1>1, <1>2, <1>3, <1>4, <1>5, <1>6, <1>7 DEF Uni!Next

\* A loop that waits has read every signal in the pair, and none of them was to
\* stop it; it strands as many connections as came in an edge of another (UniEvent).
THEOREM EverySignalIsRead == Spec => []Uni!SignalsAreRead
<1>1. Uni!Init => UniInv
  BY DEF Uni!Init, UniInv, SignalsPending, ConnsPending
<1>2. UniInv => Uni!SignalsAreRead
  BY DEF UniInv, SignalsPending, ConnsPending, Uni!SignalsAreRead, Uni!Waiting
<1> QED BY <1>1, <1>2, UniNext, UniSteps, PTL

-----------------------------------------------------------------------------
(* EchoServers                                                              *)

LEMMA EchoSteps == Spec => Echo!Init /\ [][Echo!Next]_echoVars
<1>1. Init => Echo!Init
  BY DEF Init
<1>2. [Next]_vars => [Echo!Next]_echoVars
  BY DEF Next, Keep, vars
<1> QED BY <1>1, <1>2, PTL DEF Spec

EchoTypes ==
  /\ server \in {"lt", "et", "multi_port", "mymulti_port"}
  /\ pc \in {"wait", "recv", "send", "killed"}
  /\ echo_conn \in [Fds -> Clients \cup {None}]
  /\ echo_edges \subseteq Echo!Open \cup {listenfd}
  /\ echo_events \subseteq Echo!Open \cup {listenfd, udpfd}
  /\ echo_backlog \in Seq(Clients)
  /\ peer \in [Clients -> {"new", "open", "shut", "reset", "dead", "gone"}]
  /\ echo_unread \in [Clients -> Seq(Sizes)]
  /\ merged \in Nat /\ n_connect \in Int

\* The connection in hand is open and its event is handled, and nobody else's
\* bytes are in the buffer.
BufferIsOwn ==
  /\ pc = "wait" => buff = {}
  /\ pc \in {"recv", "send"} => sockfd \in Echo!Open \ echo_events /\ buff \subseteq {echo_conn[sockfd]}

\* What has come to a connection of et has an edge, an event, or recv at work on it.
HasInput(f) == echo_unread[echo_conn[f]] # <<>> \/ peer[echo_conn[f]] # "open"
InputPending ==
  server = "et" =>
    \A f \in Echo!Open :
      HasInput(f) => f \in echo_edges \cup echo_events \/ (pc = "recv" /\ f = sockfd)

\* Edges and events of the listening socket have connections behind them, and if
\* it is edge-triggered there are no more of these but for the merged ones.
Reports == (IF listenfd \in echo_edges THEN 1 ELSE 0) + (IF listenfd \in echo_events THEN 1 ELSE 0)
BacklogPending ==
  /\ Len(echo_backlog) >= Reports
  /\ Echo!Et(listenfd) => Len(echo_backlog) <= merged + Reports

ConnsCounted == server = "mymulti_port" => n_connect = Cardinality(Echo!Open)

EchoInv ==
  EchoTypes /\ BufferIsOwn /\ InputPending /\ BacklogPending /\ ConnsCounted /\ EchoIsOwn

LEMMA EchoConstants ==
  /\ IsFiniteSet(Fds) /\ Fds \subseteq Nat
  /\ listenfd # udpfd /\ listenfd \notin Fds /\ udpfd \notin Fds /\ None \notin Clients
  BY EchoAssumption DEF Echo!FdsAssumption, Echo!IsFiniteSet, IsFiniteSet

LEMMA EchoCardinality == Echo!Cardinality(Echo!Open) = Cardinality(Echo!Open)
  BY DEF Echo!Cardinality, Cardinality

LEMMA OpenFinite == IsFiniteSet(Echo!Open) /\ Cardinality(Echo!Open) \in Nat
<1>1. Echo!Open \subseteq Fds
  BY DEF Echo!Open
<1> QED BY <1>1, EchoConstants, FS_Subset, FS_CardinalityType

LEMMA EchoInit == Echo!Init => EchoInv
<1> SUFFICES ASSUME Echo!Init PROVE EchoInv
  OBVIOUS
<1>1. Echo!Open = {}
  BY DEF Echo!Init, Echo!Open
<1>2. <<>> \in Seq(Clients) /\ <<>> \in Seq(Sizes) /\ Len(<<>>) = 0
  OBVIOUS
<1>3. EchoTypes
  BY <1>2 DEF Echo!Init, EchoTypes
<1>4. ConnsCounted
  BY <1>1, FS_EmptySet DEF ConnsCounted, Echo!Init
<1>5. BufferIsOwn /\ InputPending /\ EchoIsOwn
  BY <1>1 DEF BufferIsOwn, InputPending, EchoIsOwn, Echo!EchoIsOwn, Echo!Init
<1>6. BacklogPending
  BY <1>2 DEF BacklogPending, Reports, Echo!Init
<1> QED BY <1>3, <1>4, <1>5, <1>6 DEF EchoInv

\* Steps outside the server: what comes to a connection of et makes an edge.
LEMMA EchoClient ==
  ASSUME EchoInv, NEW c \in Clients, Echo!Connect(c) \/ Echo!Say(c) \/ Echo!Leave(c)
  PROVE  EchoInv'
<1> USE DEF EchoInv
<1>1. /\ UNCHANGED << server, sockfd, echo_events, failed, pc, buff, filled, n_connect, echo_conn, echo_got >>
      /\ Echo!Open' = Echo!Open
  BY DEF Echo!Connect, Echo!Say, Echo!Leave, Echo!loopVars, Echo!bufVars, Echo!Open
<1>2. BufferIsOwn' /\ EchoIsOwn' /\ ConnsCounted'
  BY <1>1 DEF BufferIsOwn, EchoIsOwn, Echo!EchoIsOwn, ConnsCounted
<1>3. CASE Echo!Connect(c)
  <2>1. /\ echo_backlog' \in Seq(Clients) /\ Len(echo_backlog') = Len(echo_backlog) + 1
        /\ Len(echo_backlog) \in Nat
    BY <1>3, AppendEntry DEF Echo!Connect, EchoTypes
  <2>2. /\ echo_edges' = IF Echo!Et(listenfd) THEN echo_edges \cup {listenfd} ELSE echo_edges
        /\ merged' = IF listenfd \in echo_edges THEN merged + 1 ELSE merged
        /\ peer[c] = "new" /\ peer' = [peer EXCEPT ![c] = "open"] /\ echo_unread' = echo_unread
    BY <1>3 DEF Echo!Connect
  <2>3. EchoTypes'
    BY <1>1, <2>1, <2>2 DEF EchoTypes
  <2>4. InputPending'
    BY <1>1, <2>2 DEF InputPending, HasInput, EchoTypes, Echo!Open
  <2>5. BacklogPending'
    BY <1>1, <2>1, <2>2 DEF BacklogPending, Reports, Echo!Et, EchoTypes
  <2> QED BY <1>2, <2>3, <2>4, <2>5
<1>4. CASE Echo!Say(c) \/ Echo!Leave(c)
  <2>1. /\ echo_backlog' = echo_backlog /\ merged' = merged
        /\ echo_edges' = echo_edges \cup {f \in Fds : echo_conn[f] = c /\ Echo!Et(f)}
        /\ \A d \in Clients : d # c => echo_unread'[d] = echo_unread[d] /\ peer'[d] = peer[d]
    BY <1>4 DEF Echo!Say, Echo!Leave, Echo!Edge, EchoTypes
  <2>2. echo_unread' \in [Clients -> Seq(Sizes)] /\ peer' \in [Clients -> {"new", "open", "shut", "reset", "dead", "gone"}]
    <3>1. CASE Echo!Say(c)
      <4>1. PICK size \in Sizes : echo_unread' = [echo_unread EXCEPT ![c] = Append(@, size)]
        BY <3>1 DEF Echo!Say
      <4>2. Append(echo_unread[c], size) \in Seq(Sizes)
        BY AppendEntry DEF EchoTypes
      <4> QED BY <3>1, <4>1, <4>2 DEF Echo!Say, EchoTypes
    <3>2. CASE Echo!Leave(c)
      BY <3>2 DEF Echo!Leave, EchoTypes
    <3> QED BY <1>4, <3>1, <3>2
  <2>3. EchoTypes'
    BY <1>1, <2>1, <2>2, EchoConstants DEF EchoTypes, Echo!Open
  <2>4. InputPending'
    BY <1>1, <2>1 DEF InputPending, HasInput, EchoTypes, Echo!Open, Echo!Et
  <2>5. BacklogPending'
    BY <1>1, <2>1, EchoConstants DEF BacklogPending, Reports, Echo!Et, EchoTypes
  <2> QED BY <1>2, <2>3, <2>4, <2>5
<1> QED BY <1>3, <1>4

LEMMA EchoEpollWait == ASSUME EchoInv, Echo!EpollWait PROVE EchoInv'
<1> USE DEF EchoInv, Echo!EpollWait
<1>1. /\ pc = "wait" /\ echo_events = {} /\ echo_events' = Echo!Ready /\ echo_edges' = echo_edges \ Echo!Ready
      /\ UNCHANGED << server, sockfd, pc, buff, filled, n_connect, echo_conn, echo_backlog, peer, echo_unread, echo_got, merged >>
      /\ Echo!Open' = Echo!Open
  BY DEF Echo!bufVars, Echo!peerVars, Echo!Open
<1>2. \A f \in Echo!Ready : f \in echo_edges \/ f \in Echo!Open \/ f \in {listenfd, udpfd}
  BY DEF Echo!Ready, Echo!Readable
<1>3. EchoTypes'
  BY <1>1, <1>2 DEF EchoTypes
<1>4. BufferIsOwn' /\ EchoIsOwn' /\ ConnsCounted'
  BY <1>1 DEF BufferIsOwn, EchoIsOwn, Echo!EchoIsOwn, ConnsCounted
<1>5. InputPending'
  BY <1>1 DEF InputPending, HasInput
<1>6. BacklogPending'
  <2>1. Len(echo_backlog) \in Nat /\ (echo_backlog # <<>> => Len(echo_backlog) >= 1)
    BY DEF EchoTypes
  <2>2. CASE Echo!Et(listenfd)
    <3>1. listenfd \in Echo!Ready <=> listenfd \in echo_edges
      BY <2>2 DEF Echo!Ready
    <3>2. Reports' = Reports
      BY <1>1, <3>1 DEF Reports
    <3> QED BY <1>1, <3>2 DEF BacklogPending, Echo!Et
  <2>3. CASE ~Echo!Et(listenfd)
    <3>1. listenfd \in Echo!Ready => echo_backlog # <<>>
      BY <2>3 DEF Echo!Ready, Echo!Readable
    <3>2. CASE listenfd \in Echo!Ready
      BY <1>1, <2>1, <2>3, <3>1, <3>2 DEF BacklogPending, Reports, Echo!Et
    <3>3. CASE listenfd \notin Echo!Ready
      BY <1>1, <2>1, <2>3, <3>3 DEF BacklogPending, Reports, Echo!Et
    <3> QED BY <3>2, <3>3
  <2> QED BY <2>2, <2>3
<1> QED BY <1>3, <1>4, <1>5, <1>6

\* An event of the listening socket has a connection to accept or to refuse.
LEMMA EventHasConn ==
  ASSUME EchoInv, listenfd \in echo_events
  PROVE  /\ echo_backlog # <<>> /\ Head(echo_backlog) \in Clients
         /\ Tail(echo_backlog) \in Seq(Clients)
         /\ Len(Tail(echo_backlog)) = Len(echo_backlog) - 1 /\ Len(echo_backlog) \in Nat
<1>1. echo_backlog \in Seq(Clients)
  BY DEF EchoInv, EchoTypes
<1>2. Len(echo_backlog) >= 1 /\ Len(echo_backlog) \in Nat
  BY <1>1 DEF EchoInv, BacklogPending, Reports
<1>3. echo_backlog # <<>>
  BY <1>2
<1> QED BY <1>1, <1>2, <1>3, TailEntry

LEMMA EchoAccept == ASSUME EchoInv, Echo!Accept PROVE EchoInv'
<1> USE DEF EchoInv
<1>1. PICK f \in Fds \ Echo!Open :
        /\ echo_conn' = [echo_conn EXCEPT ![f] = Head(echo_backlog)]
        /\ echo_edges' = IF Echo!Et(f) /\ (echo_unread[Head(echo_backlog)] # <<>> \/ peer[Head(echo_backlog)] # "open")
                         THEN echo_edges \cup {f} ELSE echo_edges
  BY DEF Echo!Accept
<1>2. /\ pc = "wait" /\ listenfd \in echo_events /\ echo_events' = echo_events \ {listenfd}
      /\ echo_backlog' = Tail(echo_backlog)
      /\ n_connect' = IF server = "mymulti_port" THEN n_connect + 1 ELSE n_connect
      /\ UNCHANGED << server, sockfd, pc, buff, filled, peer, echo_unread, echo_got, merged >>
  BY DEF Echo!Accept, Echo!Event, Echo!Handled, Echo!bufVars, Echo!peerVars
<1> DEFINE c == Head(echo_backlog)
<1>3. /\ c \in Clients /\ Tail(echo_backlog) \in Seq(Clients)
      /\ Len(Tail(echo_backlog)) = Len(echo_backlog) - 1 /\ Len(echo_backlog) \in Nat
  BY <1>2, EventHasConn
<1> HIDE DEF c
<1>4. \A g \in Fds : echo_conn'[g] = IF g = f THEN Head(echo_backlog) ELSE echo_conn[g]
  BY <1>1 DEF EchoTypes
<1>5. Echo!Open' = Echo!Open \cup {f}
  BY <1>1, <1>3, <1>4, EchoConstants DEF Echo!Open, c
<1>6. EchoTypes'
  BY <1>1, <1>2, <1>3, <1>5 DEF EchoTypes, c
<1>7. BufferIsOwn' /\ EchoIsOwn'
  BY <1>2 DEF BufferIsOwn, EchoIsOwn, Echo!EchoIsOwn
<1>8. InputPending'
  <2> SUFFICES ASSUME server = "et", NEW g \in Echo!Open', HasInput(g)'
               PROVE  g \in echo_edges' \cup echo_events'
    BY <1>2 DEF InputPending
  <2>1. CASE g = f
    BY <1>1, <1>2, <1>4, <2>1 DEF HasInput, Echo!Et
  <2>2. CASE g # f
    <3>1. g \in Echo!Open /\ HasInput(g)
      BY <1>2, <1>4, <1>5, <2>2 DEF HasInput, Echo!Open
    <3>2. g \in echo_edges \cup echo_events
      BY <1>2, <3>1 DEF InputPending
    <3> QED BY <1>1, <1>2, <3>1, <3>2, EchoConstants DEF Echo!Open
  <2> QED BY <2>1, <2>2
<1>9. BacklogPending'
  <2>1. f # listenfd
    BY EchoConstants
  <2>2. listenfd \in echo_edges' <=> listenfd \in echo_edges
    BY <1>1, <2>1
  <2>3. Echo!Et(listenfd)' = Echo!Et(listenfd)
    BY <1>2 DEF Echo!Et
  <2> QED BY <1>2, <1>3, <2>2, <2>3 DEF BacklogPending, Reports, EchoTypes
<1>10. ConnsCounted'
  <2>1. Cardinality(Echo!Open \cup {f}) = Cardinality(Echo!Open) + 1
    BY OpenFinite, FS_AddElement
  <2> QED BY <1>2, <1>5, <2>1 DEF ConnsCounted
<1> QED BY <1>6, <1>7, <1>8, <1>9, <1>10

LEMMA EchoRefuse == ASSUME EchoInv, Echo!Refuse PROVE EchoInv'
<1> USE DEF EchoInv
<1>1. /\ pc = "wait" /\ listenfd \in echo_events /\ echo_events' = echo_events \ {listenfd}
      /\ server = "mymulti_port"
      /\ peer' = [peer EXCEPT ![Head(echo_backlog)] = "gone"] /\ echo_backlog' = Tail(echo_backlog)
      /\ UNCHANGED << server, sockfd, pc, echo_edges, buff, filled, n_connect, echo_conn, echo_unread, echo_got, merged >>
      /\ Echo!Open' = Echo!Open
  BY DEF Echo!Refuse, Echo!Event, Echo!Handled, Echo!bufVars, Echo!Open
<1>2. /\ Head(echo_backlog) \in Clients /\ Tail(echo_backlog) \in Seq(Clients)
      /\ Len(Tail(echo_backlog)) = Len(echo_backlog) - 1 /\ Len(echo_backlog) \in Nat
  BY <1>1, EventHasConn
<1>3. EchoTypes'
  BY <1>1, <1>2 DEF EchoTypes
<1>4. BufferIsOwn' /\ EchoIsOwn' /\ ConnsCounted' /\ InputPending'
  BY <1>1 DEF BufferIsOwn, EchoIsOwn, Echo!EchoIsOwn, ConnsCounted, InputPending
<1>5. BacklogPending'
  BY <1>1, <1>2 DEF BacklogPending, Reports, Echo!Et
<1> QED BY <1>3, <1>4, <1>5

\* In mymulti_port, which leaves the round, the listening socket is no Et one.
LEMMA EchoAcceptFails == ASSUME EchoInv, Echo!AcceptFails PROVE EchoInv'
<1> USE DEF EchoInv
<1>1. /\ pc = "wait" /\ listenfd \in echo_events
      /\ echo_events' = IF server = "mymulti_port" THEN {} ELSE echo_events \ {listenfd}
      /\ merged' = IF Echo!Et(listenfd) THEN merged + 1 ELSE merged
      /\ UNCHANGED << server, sockfd, pc, echo_edges, buff, filled, n_connect, echo_conn, echo_backlog, peer,
                      echo_unread, echo_got >>
      /\ Echo!Open' = Echo!Open
  BY DEF Echo!AcceptFails, Echo!Event, Echo!bufVars, Echo!peerVars, Echo!Open
<1>2. Len(echo_backlog) \in Nat
  BY DEF EchoTypes
<1>3. EchoTypes'
  BY <1>1 DEF EchoTypes
<1>4. BufferIsOwn' /\ EchoIsOwn' /\ ConnsCounted'
  BY <1>1 DEF BufferIsOwn, EchoIsOwn, Echo!EchoIsOwn, ConnsCounted
<1>5. InputPending'
  BY <1>1, EchoConstants DEF InputPending, HasInput, Echo!Open
<1>6. BacklogPending'
  BY <1>1, <1>2 DEF BacklogPending, Reports, Echo!Et, EchoTypes
<1> QED BY <1>3, <1>4, <1>5, <1>6

\* The buffer that goes back with a datagram is empty but for the datagram.
LEMMA EchoDatagram == ASSUME EchoInv, Echo!RecvFrom \/ Echo!SendDatagram PROVE EchoInv'
<1> USE DEF EchoInv
<1>1. /\ UNCHANGED << server, sockfd, pc, echo_edges, n_connect, echo_conn, echo_backlog, peer, echo_unread, merged >>
      /\ echo_events' \in {echo_events, echo_events \ {udpfd}}
      /\ Echo!Open' = Echo!Open
  BY DEF Echo!RecvFrom, Echo!SendDatagram, Echo!Event, Echo!Handled, Echo!loopVars, Echo!peerVars, Echo!Open
<1>2. EchoTypes'
  BY <1>1 DEF EchoTypes
<1>3. ConnsCounted' /\ InputPending' /\ BacklogPending'
  BY <1>1, EchoConstants DEF ConnsCounted, InputPending, HasInput, Echo!Open, BacklogPending, Reports, Echo!Et
<1>4. CASE Echo!RecvFrom
  <2>1. /\ pc = "wait" /\ buff = {} /\ buff' = {}
        /\ echo_got' = [echo_got EXCEPT ![Udp] = IF datagram = "text" THEN @ \cup buff \cup {Udp} ELSE @]
    BY <1>4 DEF Echo!RecvFrom, Echo!Event, Echo!Emptied, BufferIsOwn
  <2>2. EchoIsOwn'
    BY <2>1 DEF EchoIsOwn, Echo!EchoIsOwn
  <2> QED BY <1>1, <1>2, <1>3, <2>1, <2>2 DEF BufferIsOwn
<1>5. CASE Echo!SendDatagram
  <2>1. UNCHANGED << buff, echo_events, echo_got >>
    BY <1>5 DEF Echo!SendDatagram, Echo!loopVars, Echo!bufVars
  <2> QED BY <1>1, <1>2, <1>3, <2>1 DEF BufferIsOwn, EchoIsOwn, Echo!EchoIsOwn
<1> QED BY <1>4, <1>5

LEMMA EchoInput == ASSUME EchoInv, NEW f \in Fds, Echo!Input(f) PROVE EchoInv'
<1> USE DEF EchoInv
<1>1. /\ pc = "wait" /\ f \in echo_events /\ echo_events' = echo_events \ {f}
      /\ sockfd' = f /\ pc' = "recv" /\ buff = {}
      /\ UNCHANGED << server, echo_edges, buff, filled, n_connect, echo_conn, echo_backlog, peer, echo_unread, echo_got, merged >>
      /\ Echo!Open' = Echo!Open
  BY DEF Echo!Input, Echo!Event, Echo!bufVars, Echo!peerVars, Echo!Open, BufferIsOwn
<1>2. f \in Echo!Open
  BY <1>1, EchoConstants DEF EchoTypes
<1>3. EchoTypes'
  BY <1>1 DEF EchoTypes
<1>4. BufferIsOwn' /\ EchoIsOwn' /\ ConnsCounted'
  BY <1>1, <1>2 DEF BufferIsOwn, EchoIsOwn, Echo!EchoIsOwn, ConnsCounted
<1>5. InputPending'
  BY <1>1 DEF InputPending, HasInput
<1>6. BacklogPending'
  BY <1>1, EchoConstants DEF BacklogPending, Reports, Echo!Et
<1> QED BY <1>3, <1>4, <1>5, <1>6

\* Closing an open connection that has no event left.
LEMMA CloseKeeps ==
  ASSUME EchoInv, NEW f \in Echo!Open, Echo!Close(f), echo_events' \subseteq echo_events \ {f},
         listenfd \in echo_events' <=> listenfd \in echo_events,
         Echo!Counted, UNCHANGED << server, echo_backlog, merged, echo_unread >>,
         server = "et" => \A g \in Echo!Open \ {f} :
           (g \in echo_events => g \in echo_events') /\ peer'[echo_conn[g]] \in {peer[echo_conn[g]], "dead"}
             /\ (peer'[echo_conn[g]] = "dead" => peer[echo_conn[g]] # "open") /\ ~(pc = "recv" /\ g = sockfd)
  PROVE  /\ InputPending' /\ BacklogPending' /\ ConnsCounted'
         /\ Echo!Open' = Echo!Open \ {f} /\ echo_conn' \in [Fds -> Clients \cup {None}]
         /\ echo_edges' \subseteq Echo!Open' \cup {listenfd} /\ n_connect' \in Int
         /\ echo_events' \subseteq Echo!Open' \cup {listenfd, udpfd}
<1> USE DEF EchoInv
<1>0. f \in Fds
  BY DEF Echo!Open
<1>1. /\ echo_conn' \in [Fds -> Clients \cup {None}] /\ echo_edges' = echo_edges \ {f}
      /\ \A g \in Fds : echo_conn'[g] = IF g = f THEN None ELSE echo_conn[g]
  BY <1>0 DEF Echo!Close, EchoTypes
<1>2. Echo!Open' = Echo!Open \ {f}
  BY <1>1 DEF Echo!Open
<1>3. echo_edges' \subseteq Echo!Open' \cup {listenfd} /\ echo_events' \subseteq Echo!Open' \cup {listenfd, udpfd}
  BY <1>1, <1>2 DEF EchoTypes
<1>4. InputPending'
  <2> SUFFICES ASSUME server = "et", NEW g \in Echo!Open', HasInput(g)' PROVE g \in echo_edges' \cup echo_events'
    BY DEF InputPending
  <2>1. g \in Echo!Open /\ g # f /\ g \in Fds /\ echo_conn'[g] = echo_conn[g]
    BY <1>1, <1>2 DEF Echo!Open
  <2>2. HasInput(g) /\ ~(pc = "recv" /\ g = sockfd)
    BY <2>1 DEF HasInput
  <2> QED BY <1>1, <2>1, <2>2 DEF InputPending
<1>5. BacklogPending'
  BY <1>0, <1>1, EchoConstants DEF BacklogPending, Reports, Echo!Et
<1>6. ConnsCounted' /\ n_connect' \in Int
  <2>1. Cardinality(Echo!Open \ {f}) = Cardinality(Echo!Open) - 1
    BY OpenFinite, FS_RemoveElement
  <2> QED BY <1>2, <2>1 DEF ConnsCounted, Echo!Counted, EchoTypes
<1> QED BY <1>1, <1>2, <1>3, <1>4, <1>5, <1>6

LEMMA EchoFailed == ASSUME EchoInv, NEW f \in Fds, Echo!Failed(f) PROVE EchoInv'
<1> USE DEF EchoInv
<1>1. /\ pc = "wait" /\ f \in echo_events /\ echo_events' = echo_events \ {f}
      /\ server = "mymulti_port" /\ Echo!Close(f) /\ Echo!Counted
      /\ UNCHANGED << server, sockfd, pc, buff, filled, echo_backlog, peer, echo_unread, echo_got, merged >>
  BY DEF Echo!Failed, Echo!Event, Echo!Handled, Echo!bufVars, Echo!peerVars
<1>2. f \in Echo!Open /\ f # listenfd
  BY <1>1, EchoConstants DEF EchoTypes
<1>3. /\ InputPending' /\ BacklogPending' /\ ConnsCounted'
      /\ echo_conn' \in [Fds -> Clients \cup {None}]
      /\ echo_edges' \subseteq Echo!Open' \cup {listenfd} /\ n_connect' \in Int
      /\ echo_events' \subseteq Echo!Open' \cup {listenfd, udpfd}
  <2>1. (listenfd \in echo_events' <=> listenfd \in echo_events) /\ server # "et"
    BY <1>1, <1>2
  <2> QED BY <1>1, <1>2, <2>1, CloseKeeps
<1>4. EchoTypes'
  BY <1>1, <1>3 DEF EchoTypes
<1>5. BufferIsOwn' /\ EchoIsOwn'
  BY <1>1 DEF BufferIsOwn, EchoIsOwn, Echo!EchoIsOwn
<1> QED BY <1>3, <1>4, <1>5

LEMMA EchoRecv == ASSUME EchoInv, Echo!Recv PROVE EchoInv'
<1> USE DEF EchoInv
<1>1. /\ pc = "recv" /\ echo_unread' = [echo_unread EXCEPT ![Echo!Me] = Tail(@)] /\ echo_unread[Echo!Me] # <<>>
      /\ buff' = Echo!Filled
      /\ pc' = IF Echo!Echoes THEN "send" ELSE IF server = "et" THEN "recv" ELSE "wait"
      /\ UNCHANGED << server, sockfd, echo_events, echo_backlog, echo_got, merged, echo_edges, n_connect, echo_conn, peer >>
      /\ Echo!Open' = Echo!Open
  BY DEF Echo!Recv, Echo!Recving, Echo!loopVars, Echo!Open
<1>2. sockfd \in Echo!Open \ echo_events /\ buff \subseteq {Echo!Me} /\ Echo!Me \in Clients
  BY <1>1 DEF BufferIsOwn, Echo!Me, Echo!Open, EchoTypes
<1>3. echo_unread' \in [Clients -> Seq(Sizes)]
  <2>1. Tail(echo_unread[Echo!Me]) \in Seq(Sizes)
    BY <1>1, <1>2, TailEntry DEF EchoTypes
  <2> QED BY <1>1, <2>1 DEF EchoTypes
<1>4. EchoTypes'
  BY <1>1, <1>3 DEF EchoTypes
<1>5. BufferIsOwn'
  <2>1. Echo!Filled \subseteq {Echo!Me} /\ (server \in {"lt", "et"} => Echo!Filled = {})
    BY <1>2 DEF Echo!Filled
  <2>2. (pc' = "wait" => server = "lt") /\ echo_conn'[sockfd'] = Echo!Me
    BY <1>1 DEF Echo!Echoes, EchoTypes, Echo!Me
  <2> QED BY <1>1, <1>2, <2>1, <2>2 DEF BufferIsOwn
<1>6. InputPending'
  <2> SUFFICES ASSUME server = "et", NEW f \in Echo!Open, HasInput(f)' PROVE f \in echo_edges \cup echo_events \/ f = sockfd
    BY <1>1 DEF InputPending, Echo!Echoes
  <2>1. CASE echo_conn[f] = Echo!Me
    BY <1>1, <2>1 DEF InputPending, HasInput
  <2>2. CASE echo_conn[f] # Echo!Me
    <3>1. echo_conn[f] \in Clients
      BY DEF Echo!Open, EchoTypes
    <3>2. HasInput(f)
      BY <1>1, <2>2, <3>1 DEF HasInput, EchoTypes
    <3> QED BY <1>1, <3>2 DEF InputPending
  <2> QED BY <2>1, <2>2
<1>7. BacklogPending' /\ ConnsCounted' /\ EchoIsOwn'
  BY <1>1 DEF BacklogPending, Reports, Echo!Et, ConnsCounted, EchoIsOwn, Echo!EchoIsOwn
<1> QED BY <1>4, <1>5, <1>6, <1>7

\* et leaves its inner loop when nothing is left of the connection it read.
LEMMA EchoRecvAgain == ASSUME EchoInv, Echo!RecvAgain PROVE EchoInv'
<1> USE DEF EchoInv
<1>1. /\ pc = "recv" /\ pc' = "wait" /\ buff' = {} /\ echo_unread[Echo!Me] = <<>> /\ peer[Echo!Me] = "open"
      /\ UNCHANGED << server, sockfd, echo_events, echo_backlog, echo_got, merged, echo_edges, n_connect, echo_conn, peer, echo_unread >>
      /\ Echo!Open' = Echo!Open
  BY DEF Echo!RecvAgain, Echo!Recving, Echo!Done, Echo!Emptied, Echo!loopVars, Echo!Open
<1>2. EchoTypes' /\ BufferIsOwn'
  BY <1>1 DEF EchoTypes, BufferIsOwn
<1>3. InputPending'
  BY <1>1 DEF InputPending, HasInput, Echo!Me
<1>4. BacklogPending' /\ ConnsCounted' /\ EchoIsOwn'
  BY <1>1 DEF BacklogPending, Reports, Echo!Et, ConnsCounted, EchoIsOwn, Echo!EchoIsOwn
<1> QED BY <1>2, <1>3, <1>4

LEMMA EchoRecvCloses == ASSUME EchoInv, Echo!RecvEnd \/ Echo!RecvFails PROVE EchoInv'
<1> USE DEF EchoInv
<1>1. /\ pc = "recv" /\ pc' = "wait" /\ buff' = {}
      /\ peer' = peer \/ (peer[Echo!Me] = "reset" /\ peer' = [peer EXCEPT ![Echo!Me] = "dead"])
      /\ UNCHANGED << server, sockfd, echo_events, echo_backlog, echo_got, merged, echo_unread >>
  BY DEF Echo!RecvEnd, Echo!RecvFails, Echo!Recving, Echo!Done, Echo!Emptied, Echo!loopVars
<1>2. sockfd \in Echo!Open \ echo_events /\ Echo!Me \in Clients
  BY <1>1 DEF BufferIsOwn, Echo!Me, Echo!Open, EchoTypes
<1>3. peer' \in [Clients -> {"new", "open", "shut", "reset", "dead", "gone"}]
  BY <1>1 DEF EchoTypes
<1>4. BufferIsOwn' /\ EchoIsOwn'
  BY <1>1 DEF BufferIsOwn, EchoIsOwn, Echo!EchoIsOwn
<1>5. CASE Echo!Close(sockfd) /\ Echo!Counted
  <2>1. \A g \in Echo!Open \ {sockfd} :
          /\ g \in echo_events => g \in echo_events'
          /\ peer'[echo_conn[g]] \in {peer[echo_conn[g]], "dead"}
          /\ peer'[echo_conn[g]] = "dead" => peer[echo_conn[g]] # "open"
          /\ ~(pc = "recv" /\ g = sockfd)
    <3> SUFFICES ASSUME NEW g \in Echo!Open \ {sockfd}
                 PROVE  /\ peer'[echo_conn[g]] \in {peer[echo_conn[g]], "dead"}
                        /\ peer'[echo_conn[g]] = "dead" => peer[echo_conn[g]] # "open"
      BY <1>1
    <3>1. echo_conn[g] \in Clients
      BY DEF Echo!Open, EchoTypes
    <3>2. CASE peer' = peer
      BY <3>2
    <3>3. CASE peer[Echo!Me] = "reset" /\ peer' = [peer EXCEPT ![Echo!Me] = "dead"]
      BY <1>2, <3>1, <3>3 DEF EchoTypes
    <3> QED BY <1>1, <3>2, <3>3
  <2>2. /\ InputPending' /\ BacklogPending' /\ ConnsCounted'
        /\ echo_conn' \in [Fds -> Clients \cup {None}]
        /\ echo_edges' \subseteq Echo!Open' \cup {listenfd} /\ n_connect' \in Int
        /\ echo_events' \subseteq Echo!Open' \cup {listenfd, udpfd}
    BY <1>1, <1>2, <1>5, <2>1, CloseKeeps
  <2>3. EchoTypes'
    BY <1>1, <1>3, <2>2 DEF EchoTypes
  <2> QED BY <1>4, <2>2, <2>3
<1>6. CASE server = "mymulti_port" /\ UNCHANGED << echo_conn, echo_edges, n_connect >>
  <2>1. Echo!Open' = Echo!Open
    BY <1>6 DEF Echo!Open
  <2>2. EchoTypes'
    BY <1>1, <1>3, <1>6, <2>1 DEF EchoTypes
  <2>3. InputPending' /\ BacklogPending' /\ ConnsCounted'
    BY <1>1, <1>6, <2>1 DEF InputPending, BacklogPending, Reports, Echo!Et, ConnsCounted
  <2> QED BY <1>4, <2>2, <2>3
<1> QED BY <1>5, <1>6 DEF Echo!RecvEnd, Echo!RecvFails, Echo!Counted

\* What is sent to a connection is in the buffer that it filled.
LEMMA EchoSend == ASSUME EchoInv, Echo!Send \/ Echo!SendFails \/ Echo!SendKills PROVE EchoInv'
<1> USE DEF EchoInv
<1>1. /\ pc = "send" /\ Echo!Me \in Clients /\ sockfd \in Echo!Open \ echo_events /\ buff \subseteq {Echo!Me}
      /\ UNCHANGED << server, sockfd, echo_events, echo_edges, n_connect, echo_conn, echo_backlog, echo_unread, merged >>
      /\ Echo!Open' = Echo!Open
  BY DEF Echo!Send, Echo!SendFails, Echo!SendKills, Echo!Sending, Echo!loopVars, Echo!Open, BufferIsOwn, Echo!Me, EchoTypes
<1>2. /\ pc' = "killed" \/ (pc' = "wait" /\ buff' = {}) \/ (pc' = "recv" /\ buff' = buff)
      /\ peer' \in {peer, [peer EXCEPT ![Echo!Me] = "dead"]}
      /\ peer' # peer => peer[Echo!Me] # "open"
  BY DEF Echo!Send, Echo!SendFails, Echo!SendKills, Echo!Sent, Echo!Emptied, Echo!bufVars
<1>3. EchoTypes' /\ BufferIsOwn'
  BY <1>1, <1>2 DEF EchoTypes, BufferIsOwn, Echo!Me
<1>4. InputPending'
  <2> SUFFICES ASSUME server = "et", NEW f \in Echo!Open, HasInput(f)' PROVE f \in echo_edges \cup echo_events
    BY <1>1 DEF InputPending
  <2>1. echo_conn[f] \in Clients
    BY DEF Echo!Open, EchoTypes
  <2>2. HasInput(f)
    BY <1>1, <1>2, <2>1 DEF HasInput, EchoTypes
  <2> QED BY <1>1, <2>2 DEF InputPending
<1>5. BacklogPending' /\ ConnsCounted'
  BY <1>1 DEF BacklogPending, Reports, Echo!Et, ConnsCounted
<1>6. EchoIsOwn'
  <2>1. CASE Echo!Send
    <3>1. PICK over \in {{}, {Beyond}} : echo_got' = [echo_got EXCEPT ![Echo!Me] = @ \cup buff \cup over]
      BY <2>1 DEF Echo!Send
    <3> QED BY <1>1, <3>1 DEF EchoIsOwn, Echo!EchoIsOwn
  <2>2. CASE Echo!SendFails \/ Echo!SendKills
    BY <2>2 DEF Echo!SendFails, Echo!SendKills, EchoIsOwn, Echo!EchoIsOwn
  <2> QED BY <2>1, <2>2
<1> QED BY <1>3, <1>4, <1>5, <1>6

LEMMA EchoNext == ASSUME EchoInv, [Echo!Next]_echoVars PROVE EchoInv'
<1>1. CASE Echo!EpollWait \/ Echo!Accept \/ Echo!Refuse \/ Echo!AcceptFails \/ Echo!RecvFrom \/ Echo!SendDatagram
  BY <1>1, EchoEpollWait, EchoAccept, EchoRefuse, EchoAcceptFails, EchoDatagram
<1>2. CASE \E f \in Fds : Echo!Failed(f) \/ Echo!Input(f)
  BY <1>2, EchoFailed, EchoInput
<1>3. CASE Echo!Recv \/ Echo!RecvAgain \/ Echo!RecvEnd \/ Echo!RecvFails
  BY <1>3, EchoRecv, EchoRecvAgain, EchoRecvCloses
<1>4. CASE Echo!Send \/ Echo!SendFails \/ Echo!SendKills
  BY <1>4, EchoSend
<1>5. CASE \E c \in Clients : Echo!Connect(c) \/ Echo!Say(c) \/ Echo!Leave(c)
  BY <1>5, EchoClient
<1>6. CASE UNCHANGED echoVars
  BY <1>6 DEF EchoInv, EchoTypes, BufferIsOwn, InputPending, HasInput, BacklogPending, Reports, Echo!Et,
              ConnsCounted, EchoIsOwn, Echo!EchoIsOwn, Echo!Open, echoVars
<1> QED BY <1>1, <1>2, <1>3, <1>4, <1>5, <1>6 DEF Echo!Next

THEOREM EchoInvariant == Spec => []EchoInv
<1> QED BY EchoInit, EchoNext, EchoSteps, PTL

\* Nobody is sent what others said, only, perhaps, what lies behind the one buffer of
\* mymulti_port (EchoServers).
THEOREM EveryEchoIsOwn == Spec => []EchoIsOwn
<1>1. EchoInv => EchoIsOwn
  BY DEF EchoInv
<1> QED BY <1>1, EchoInvariant, PTL

LEMMA EchoWaits == ASSUME EchoInv PROVE Echo!WaitsWithNothingLeft
<1> SUFFICES ASSUME pc = "wait", echo_events = {}, Echo!Ready = {}
             PROVE  /\ \A f \in Echo!Open : ~HasInput(f)
                    /\ server = "mymulti_port" => n_connect = Cardinality(Echo!Open)
                    /\ Len(echo_backlog) <= IF Echo!Et(listenfd) THEN merged ELSE 0
  BY EchoCardinality DEF Echo!WaitsWithNothingLeft, HasInput
<1> USE DEF EchoInv
<1>1. ASSUME NEW f \in Echo!Open PROVE ~HasInput(f)
  <2>1. f \in Fds /\ f # listenfd /\ f # udpfd
    BY EchoConstants DEF Echo!Open
  <2>2. CASE server = "et"
    BY <2>1, <2>2 DEF Echo!Ready, Echo!Et, InputPending
  <2>3. CASE server # "et"
    BY <2>1, <2>3 DEF Echo!Ready, Echo!Et, Echo!Readable, HasInput
  <2> QED BY <2>2, <2>3
<1>2. Len(echo_backlog) <= IF Echo!Et(listenfd) THEN merged ELSE 0
  <2>1. CASE Echo!Et(listenfd)
    <3>1. listenfd \notin echo_edges
      BY <2>1 DEF Echo!Ready
    <3> QED BY <2>1, <3>1 DEF BacklogPending, Reports, EchoTypes
  <2>2. CASE ~Echo!Et(listenfd)
    BY <2>2 DEF Echo!Ready, Echo!Readable
  <2> QED BY <2>1, <2>2
<1> QED BY <1>1, <1>2 DEF ConnsCounted

\* A loop that waits has nothing left to do: no input, no hang-up, no signal, and no
\* connection but those stranded behind another's edge (EchoServers, UniEvent).
THEOREM NothingLeftToWaitFor == Spec => []WaitsWithNothingLeft
<1>1. EchoInv /\ Uni!SignalsAreRead => WaitsWithNothingLeft
  BY EchoWaits DEF WaitsWithNothingLeft
<1> QED BY <1>1, EchoInvariant, EverySignalIsRead, PTL

-----------------------------------------------------------------------------
(* HttpParser: what HttpParserProofs has proved                             *)

Proved == INSTANCE HttpParserProofs

LEMMA ParserSteps == Spec => Parser!Init /\ [][Parser!Next]_parserVars
<1>1. Init => Parser!Init
  BY DEF Init
<1>2. [Next]_vars => [Parser!Next]_parserVars
  BY DEF Next, Keep, vars
<1> QED BY <1>1, <1>2, PTL DEF Spec

\* The module under its two names.
LEMMA SameLine ==
  /\ Parser!Stop = Proved!Stop
  /\ Parser!LineStatus = Proved!LineStatus
  /\ Parser!LineEnd = Proved!LineEnd
BY DEF Parser!Stop, Parser!Breaks, Parser!Char, Parser!LineStatus, Parser!LateLF, Parser!LineEnd,
       Parser!read_index, Proved!Stop, Proved!Breaks, Proved!Char, Proved!LineStatus, Proved!LateLF,
       Proved!LineEnd, Proved!read_index

LEMMA SameParser ==
  /\ Parser!Init => Proved!Init
  /\ [Parser!Next]_parserVars => [Proved!Next]_(Proved!vars)
<1>1. Parser!Init => Proved!Init
  BY DEF Parser!Init, Proved!Init
<1>2. Parser!Recv => Proved!Recv
  BY DEF Parser!Recv, Proved!Recv, Parser!read_index, Proved!read_index, Parser!Chars, Proved!Chars
<1>3. Parser!RecvEnds => Proved!RecvEnds
  BY DEF Parser!RecvEnds, Proved!RecvEnds
<1>4. (Parser!TakeLine => Proved!TakeLine) /\ Parser!Line = Proved!Line
  BY SameLine
     DEF Parser!TakeLine, Proved!TakeLine, Parser!Cut, Proved!Cut, Parser!Line, Proved!Line,
         Parser!read_index, Proved!read_index
<1>5. Parser!ParseContent => Proved!ParseContent
  BY <1>4, SameLine
     DEF Parser!ParseContent, Proved!ParseContent, Parser!RequestLine, Proved!RequestLine,
         Parser!BadRequestLine, Proved!BadRequestLine, Parser!Header, Proved!Header,
         Parser!EmptyLine, Proved!EmptyLine, Parser!LineOpen, Proved!LineOpen,
         Parser!LineBad, Proved!LineBad, Parser!Answered, Proved!Answered
<1> QED BY <1>1, <1>2, <1>3, <1>5 DEF Parser!Next, Proved!Next, parserVars, Proved!vars

LEMMA SameVerdict == Parser!CutsDoNotMatter <=> Proved!CutsDoNotMatter
BY DEF Parser!CutsDoNotMatter, Proved!CutsDoNotMatter, Parser!Verdict, Proved!Verdict,
       Parser!WrongAt, Proved!WrongAt, Parser!CorrectAt, Proved!CorrectAt, Parser!First, Proved!First,
       Parser!Ends, Proved!Ends, Parser!Stray, Proved!Stray

LEMMA ParserConstants == Proved!SizeAssumption /\ Proved!CharsAssumption
BY ParserAssumption
   DEF Parser!SizeAssumption, Proved!SizeAssumption, Parser!CharsAssumption, Proved!CharsAssumption,
       Parser!Chars, Proved!Chars

LEMMA ProvedParser == Spec => Proved!Spec
<1> QED BY ParserSteps, SameParser, PTL DEF Proved!Spec

\* However a request is cut into pieces, the parser answers what it deserves as a
\* whole (HttpParser).
THEOREM CutsNeverMatter == Spec => []CutsDoNotMatter
<1>1. Proved!Spec => []Proved!CutsDoNotMatter
  BY ParserConstants, Proved!AnswerIgnoresCuts
<1>2. Proved!CutsDoNotMatter => CutsDoNotMatter
  BY SameVerdict DEF CutsDoNotMatter
<1> QED BY <1>1, <1>2, ProvedParser, PTL

-----------------------------------------------------------------------------
(* HttpConn, by itself and with the client of StressClient                  *)

\* Something is sent to the object.
Comes ==
  /\ m_sockfd = "open" /\ \E m \in Messages \cup {SubSeq(Conn!request, 1, n) : n \in 0 .. 10} : coming' = coming \o m
  /\ UNCHANGED << m_sockfd, Conn!parseVars, Conn!fileVars, Conn!writeVars, Conn!localVars, armed, phase,
                  conns, hungUp, Conn!outVars >>

ServerNext ==
  Conn!Accept \/ Conn!CloseOnHup \/ Conn!Read \/ Conn!ReadFills \/ Conn!ProcessRead \/ Conn!ProcessWrite
    \/ Conn!Write

LEMMA ConnSteps == Spec => Conn!Init /\ [][ServerNext \/ Comes]_connVars
<1>1. Init => Conn!Init
  BY DEF Init, Conn!StressInit
<1>2. Conn!Say => Comes
  BY DEF Conn!Say, Comes
<1>3. \A n \in 0 .. Len(Conn!request) : Conn!Sends(n) => Comes
  <2> SUFFICES ASSUME NEW n \in 0 .. Len(Conn!request), Conn!Sends(n) PROVE Comes
    OBVIOUS
  <2>1. n \in 0 .. 10
    BY DEF Conn!request
  <2> QED BY <2>1 DEF Conn!Sends, Comes
<1>4. Conn!WriteNBytes \/ Conn!WriteNBytesFails => Comes
  BY <1>3 DEF Conn!WriteNBytes, Conn!WriteNBytesFails, Conn!request
<1>5. Conn!WriteLate \/ Conn!ReadOnce \/ Conn!ReadEnd => UNCHANGED connVars
  BY DEF Conn!WriteLate, Conn!ReadOnce, Conn!ReadEnd, Conn!vars, Conn!parseVars, Conn!fileVars,
         Conn!writeVars, Conn!localVars, Conn!peerVars, Conn!outVars, connVars
<1>6. Conn!StartConn \/ Conn!ServerReads \/ Conn!Serves => ServerNext
  BY DEF Conn!StartConn, Conn!ServerReads, Conn!Serves, ServerNext
<1>7. [Next]_vars => [ServerNext \/ Comes]_connVars
  BY <1>2, <1>4, <1>5, <1>6 DEF Next, Keep, vars, Conn!Next, Conn!StressNext, ServerNext
<1> QED BY <1>1, <1>7, PTL DEF Spec

\* One call at a time, and none on an object that is closed or that waits.
OneCall ==
  /\ phase \in {"main", "process_read", "process_write", "write"}
  /\ armed \in {"in", "out", "spent"} /\ m_sockfd \in {"open", "closed"}
  /\ m_sockfd = "closed" => phase = "main"
  /\ phase # "main" \/ m_sockfd = "closed" => armed = "spent"

\* The file of an answer is mapped from do_request on.
FileMapped ==
  /\ phase = "process_write" /\ ret = "FILE_REQUEST" /\ Conn!st_size(m_file_stat) # 0 =>
       m_file_address = Conn!Mapping(m_file_stat)
  /\ (armed = "out" \/ phase = "write") /\ Len(m_iv) = 2 =>
       m_file_address = Conn!Mapping(m_file_stat)

\* Any other mapping is one that a client left behind.
Answering ==
  /\ m_sockfd = "open"
  /\ armed = "out" \/ phase = "write" \/ (phase = "process_write" /\ ret = "FILE_REQUEST")
OnlyOneMapped ==
  \A m \in mapped :
    \/ m.conn \in hungUp
    \/ /\ m = Conn!Mapping(m_file_stat) /\ m = m_file_address
       /\ Conn!st_size(m_file_stat) # 0 /\ Answering

MappedInv == OneCall /\ FileMapped /\ OnlyOneMapped

LEMMA MappedOpens == ASSUME MappedInv, Conn!Accept \/ Comes PROVE MappedInv'
<1>1. CASE Conn!Accept
  BY <1>1 DEF MappedInv, OneCall, FileMapped, OnlyOneMapped, Answering, Conn!Accept, Conn!Mapping, Conn!fileVars,
              Conn!localVars
<1>2. CASE Comes
  BY <1>2 DEF MappedInv, OneCall, FileMapped, OnlyOneMapped, Answering, Comes, Conn!Mapping, Conn!fileVars,
              Conn!localVars, Conn!writeVars
<1> QED BY <1>1, <1>2

LEMMA MappedReads == ASSUME MappedInv, Conn!CloseOnHup \/ Conn!Read \/ Conn!ReadFills PROVE MappedInv'
<1>1. CASE Conn!CloseOnHup
  BY <1>1 DEF MappedInv, OneCall, FileMapped, OnlyOneMapped, Answering, Conn!CloseOnHup, Conn!Closed,
              Conn!Mapping, Conn!fileVars, Conn!localVars, Conn!writeVars
<1>2. CASE Conn!Read
  BY <1>2 DEF MappedInv, OneCall, FileMapped, OnlyOneMapped, Answering, Conn!Read, Conn!CanRead,
              Conn!Mapping, Conn!fileVars, Conn!writeVars
<1>3. CASE Conn!ReadFills
  BY <1>3 DEF MappedInv, OneCall, FileMapped, OnlyOneMapped, Answering, Conn!ReadFills, Conn!CanRead, Conn!Closed,
              Conn!Mapping, Conn!fileVars, Conn!localVars, Conn!writeVars
<1> QED BY <1>1, <1>2, <1>3

\* What a step of process_read leaves alone, and what it may do to the file.
LEMMA ReadStep ==
  ASSUME Conn!ProcessRead
  PROVE  /\ phase = "process_read" /\ UNCHANGED << m_sockfd, Conn!writeVars, have_send, Conn!peerVars, Conn!outVars >>
         /\ \/ phase' \in {"process_read", "main"} /\ ret' = ret /\ UNCHANGED Conn!fileVars
            \/ Conn!Answers("BAD_REQUEST") /\ UNCHANGED Conn!fileVars
            \/ Conn!DoRequest
         /\ armed' = IF phase' = "main" THEN "in" ELSE armed
<1> USE DEF Conn!LoopsOn, Conn!Answers, Conn!DoRequest
<1>1. CASE Conn!ParseRequestLine \/ Conn!BadRequestLine
  BY <1>1 DEF Conn!ParseRequestLine, Conn!BadRequestLine, Conn!TakeLine
<1>2. CASE Conn!ParseHeader \/ Conn!HeadersEnd
  BY <1>2 DEF Conn!ParseHeader, Conn!HeadersEnd, Conn!TakeLine
<1>3. CASE Conn!Content \/ Conn!ContentLine
  BY <1>3 DEF Conn!Content, Conn!ContentLine, Conn!ParseContent
<1>4. CASE Conn!NoRequest
  BY <1>4 DEF Conn!NoRequest
<1> QED BY <1>1, <1>2, <1>3, <1>4 DEF Conn!ProcessRead

LEMMA MappedProcessRead == ASSUME MappedInv, Conn!ProcessRead PROVE MappedInv'
<1>1. \A m \in mapped : m.conn \in hungUp
  BY ReadStep DEF MappedInv, OneCall, OnlyOneMapped, Answering
<1>2. CASE ~ Conn!DoRequest
  BY <1>1, <1>2, ReadStep
     DEF MappedInv, OneCall, FileMapped, OnlyOneMapped, Conn!Answers, Conn!fileVars, Conn!writeVars, Conn!peerVars
<1>3. CASE Conn!DoRequest
  <2>1. OneCall'
    BY <1>3, ReadStep DEF MappedInv, OneCall, Conn!DoRequest, Conn!Answers
  <2>2. CASE Conn!Lookup(m_url) # "FILE_REQUEST"
    BY <1>1, <1>3, <2>1, <2>2, ReadStep
       DEF MappedInv, OneCall, FileMapped, OnlyOneMapped, Conn!DoRequest, Conn!Answers, Conn!peerVars
  <2>3. CASE Conn!Lookup(m_url) = "FILE_REQUEST"
    <3>1. m_url # Missing
      BY <2>3 DEF Conn!Lookup
    <3>2. m_file_stat' = m_url /\ Conn!Mmap(m_url) /\ phase' = "process_write" /\ ret' = "FILE_REQUEST"
      BY <1>3, <2>3, <3>1 DEF Conn!DoRequest, Conn!Answers
    <3>3. hungUp' = hungUp /\ m_sockfd' = "open" /\ conns' = conns
      BY ReadStep DEF MappedInv, OneCall, Conn!peerVars
    <3> QED BY <1>1, <2>1, <3>2, <3>3
            DEF OneCall, MappedInv, FileMapped, OnlyOneMapped, Answering, Conn!Mmap, Conn!Mapping
  <2> QED BY <2>2, <2>3
<1> QED BY <1>2, <1>3

LEMMA MappedProcessWrite == ASSUME MappedInv, Conn!ProcessWrite PROVE MappedInv'
<1>1. CASE Conn!WriteFile
  BY <1>1 DEF MappedInv, OneCall, FileMapped, OnlyOneMapped, Answering, Conn!WriteFile, Conn!ReadyToWrite,
              Conn!Mapping, Conn!fileVars, Conn!localVars
<1>2. CASE Conn!WriteError
  BY <1>2 DEF MappedInv, OneCall, FileMapped, OnlyOneMapped, Answering, Conn!WriteError, Conn!ReadyToWrite,
              Conn!Mapping, Conn!fileVars, Conn!localVars
<1>3. CASE Conn!WriteRefuses
  BY <1>3 DEF MappedInv, OneCall, FileMapped, OnlyOneMapped, Answering, Conn!WriteRefuses, Conn!Closed,
              Conn!Mapping, Conn!fileVars, Conn!localVars
<1> QED BY <1>1, <1>2, <1>3 DEF Conn!ProcessWrite

LEMMA MappedWrite == ASSUME MappedInv, Conn!Write PROVE MappedInv'
<1>1. CASE Conn!WriteStarts
  BY <1>1 DEF MappedInv, OneCall, FileMapped, OnlyOneMapped, Answering, Conn!WriteStarts,
              Conn!Mapping, Conn!fileVars, Conn!writeVars, Conn!peerVars
<1>2. CASE Conn!WritesOn
  BY <1>2 DEF MappedInv, OneCall, FileMapped, OnlyOneMapped, Answering, Conn!WritesOn, Conn!Sent,
              Conn!Mapping, Conn!fileVars
<1>3. CASE Conn!WriteStalls
  BY <1>3 DEF MappedInv, OneCall, FileMapped, OnlyOneMapped, Answering, Conn!WriteStalls,
              Conn!Mapping, Conn!fileVars, Conn!writeVars, Conn!localVars, Conn!peerVars
<1>4. CASE Conn!WriteKeeps \/ Conn!WriteCloses \/ Conn!WriteFails
  <2>1. Conn!Unmap /\ UNCHANGED << conns, hungUp >>
    BY <1>4 DEF Conn!WriteKeeps, Conn!WriteCloses, Conn!WriteFails, Conn!Sent, Conn!peerVars
  <2>2. \A m \in mapped' : m.conn \in hungUp'
    BY <2>1 DEF Conn!Unmap, MappedInv, OnlyOneMapped
  <2>3. OneCall' /\ phase' = "main" /\ armed' # "out"
    BY <1>4 DEF MappedInv, OneCall, Conn!WriteKeeps, Conn!WriteCloses, Conn!WriteFails, Conn!Sent, Conn!Closed
  <2> QED BY <2>2, <2>3 DEF MappedInv, FileMapped, OnlyOneMapped
<1> QED BY <1>1, <1>2, <1>3, <1>4 DEF Conn!Write

LEMMA MappedInit == Conn!Init => MappedInv
BY DEF Conn!Init, MappedInv, OneCall, FileMapped, OnlyOneMapped

LEMMA MappedNext == ASSUME MappedInv, [ServerNext \/ Comes]_connVars PROVE MappedInv'
<1>1. CASE UNCHANGED connVars
  BY <1>1 DEF MappedInv, OneCall, FileMapped, OnlyOneMapped, Answering, Conn!Mapping, connVars
<1> QED BY <1>1, MappedOpens, MappedReads, MappedProcessRead, MappedProcessWrite, MappedWrite DEF ServerNext

\* A file stays mapped while it is being answered, and no longer unless the client
\* hung up (HttpConn).
THEOREM EveryMappingEnds == Spec => []MappingsEnd
<1>1. MappedInv => MappingsEnd
  BY DEF MappedInv, FileMapped, OnlyOneMapped, Answering, OneCall, MappingsEnd, Conn!MappingsEnd
<1> QED BY <1>1, MappedInit, MappedNext, ConnSteps, PTL

\* While nothing is written m_write_idx is 0, and a client has got all its answers;
\* the answer that is being written is the next one it is to get.
AnswerTypes ==
  /\ shorts \in Nat /\ have_send \in Nat /\ stream \in Seq(Nat) /\ answers \in Seq(Nat)
  /\ m_write_idx \in 0 .. WRITE_BUFFER_SIZE - 1
Unanswered ==
  phase \in {"process_read", "process_write"} \/ armed = "in" =>
    m_write_idx = 0 /\ (shorts = 0 => stream = answers)
BeingAnswered ==
  armed = "out" \/ phase = "write" =>
    /\ Conn!Total(m_iv) \in Nat /\ m_write_idx <= Conn!Total(m_iv)
    /\ shorts = 0 => answers = Append(stream, Conn!Total(m_iv))
AtMostOneDue == shorts = 0 => stream = answers \/ \E n \in Nat : answers = Append(stream, n)

AnswersInv == OneCall /\ AnswerTypes /\ Unanswered /\ BeingAnswered /\ AtMostOneDue

LEMMA ConnConstants ==
  /\ READ_BUFFER_SIZE \in Nat /\ WRITE_BUFFER_SIZE \in Nat /\ 3 < WRITE_BUFFER_SIZE - 1
  /\ CONTENT_LENGTH \in Nat \ {0}
  /\ \A file : Conn!st_size(file) \in Nat
<1>1. \A file : Conn!st_size(file) \in Nat
  <2> TAKE file
  <2> QED BY DEF Conn!st_size
<1> QED BY <1>1, ConnAssumption
        DEF Conn!MessagesAssumption, Conn!SizesAssumption, Conn!StatusLen, Conn!HeadersLen

LEMMA AnswersInit == Conn!Init => AnswersInv
<1> SUFFICES ASSUME Conn!Init PROVE AnswersInv
  OBVIOUS
<1>1. AnswerTypes
  BY ConnConstants DEF Conn!Init, AnswerTypes
<1> QED BY <1>1 DEF Conn!Init, AnswersInv, OneCall, Unanswered, BeingAnswered, AtMostOneDue

LEMMA AnswersOpens == ASSUME AnswersInv, Conn!Accept \/ Comes PROVE AnswersInv'
<1>1. CASE Conn!Accept
  <2>1. AnswerTypes'
    BY <1>1, ConnConstants DEF AnswersInv, AnswerTypes, Conn!Accept, Conn!Cleared, Conn!localVars
  <2> QED BY <1>1, <2>1
          DEF AnswersInv, OneCall, Unanswered, BeingAnswered, AtMostOneDue, Conn!Accept, Conn!Cleared
<1>2. CASE Comes
  BY <1>2 DEF AnswersInv, AnswerTypes, OneCall, Unanswered, BeingAnswered, AtMostOneDue, Comes, Conn!Total,
              Conn!writeVars, Conn!localVars, Conn!outVars
<1> QED BY <1>1, <1>2

LEMMA AnswersReads == ASSUME AnswersInv, Conn!CloseOnHup \/ Conn!Read \/ Conn!ReadFills PROVE AnswersInv'
BY DEF AnswersInv, AnswerTypes, OneCall, Unanswered, BeingAnswered, AtMostOneDue, Conn!CloseOnHup, Conn!Read,
       Conn!ReadFills, Conn!CanRead, Conn!Closed, Conn!Total, Conn!writeVars, Conn!localVars, Conn!outVars

LEMMA AnswersProcessRead == ASSUME AnswersInv, Conn!ProcessRead PROVE AnswersInv'
<1>1. phase' \in {"process_read", "process_write", "main"}
  BY ReadStep DEF Conn!DoRequest, Conn!Answers
<1> QED BY <1>1, ReadStep
        DEF AnswersInv, AnswerTypes, OneCall, Unanswered, BeingAnswered, AtMostOneDue, Conn!Total, Conn!writeVars,
            Conn!outVars

\* What process_write puts into the buffer.
LEMMA WhatIsAdded ==
  ASSUME m_write_idx = 0
  PROVE  /\ Conn!Headed = 3
         /\ Conn!Added(3, Conn!FormLen) \in {3, 5} /\ Conn!Added(3, Conn!FormLen) < WRITE_BUFFER_SIZE
         /\ Conn!Due(ret) = 3 + (IF ret = "FILE_REQUEST" THEN Conn!st_size(m_file_stat) ELSE 2)
<1>1. Conn!Added(0, Conn!StatusLen) = 1 /\ Conn!Added(1, Conn!HeadersLen) = 3
  BY ConnConstants DEF Conn!Added, Conn!StatusLen, Conn!HeadersLen
<1>2. Conn!Headed = 3
  BY <1>1 DEF Conn!Headed
<1> QED BY <1>2, ConnConstants DEF Conn!Added, Conn!FormLen, Conn!Due, Conn!StatusLen, Conn!HeadersLen

LEMMA AnswersProcessWrite == ASSUME AnswersInv, Conn!ProcessWrite PROVE AnswersInv'
<1>1. m_write_idx = 0 /\ (shorts = 0 => stream = answers) /\ phase = "process_write"
  BY DEF AnswersInv, Unanswered, Conn!ProcessWrite, Conn!WriteFile, Conn!WriteError, Conn!WriteRefuses
<1>2. CASE Conn!WriteFile \/ Conn!WriteError
  <2>1. PICK n \in Nat : /\ Conn!Total(m_iv') = n /\ answers' = Append(answers, n)
                         /\ m_write_idx' \in 0 .. WRITE_BUFFER_SIZE - 1 /\ m_write_idx' <= n
    <3>1. CASE Conn!WriteFile
      <4>1. m_iv' = << 3, Conn!st_size(m_file_stat) >> /\ m_write_idx' = 3
            /\ answers' = Append(answers, 3 + Conn!st_size(m_file_stat))
        BY <1>1, <3>1, WhatIsAdded DEF Conn!WriteFile, Conn!ReadyToWrite
      <4>2. Len(m_iv') = 2 /\ m_iv'[1] = 3 /\ m_iv'[2] = Conn!st_size(m_file_stat)
        BY <4>1
      <4> QED BY <4>1, <4>2, ConnConstants DEF Conn!Total
    <3>2. CASE Conn!WriteError
      <4>1. m_iv' = << 5 >> /\ m_write_idx' = 5 /\ answers' = Append(answers, 5) /\ 5 < WRITE_BUFFER_SIZE
        BY <1>1, <3>2, WhatIsAdded DEF Conn!WriteError, Conn!ReadyToWrite
      <4>2. Len(m_iv') = 1 /\ m_iv'[1] = 5
        BY <4>1
      <4> QED BY <4>1, <4>2, ConnConstants DEF Conn!Total
    <3> QED BY <1>2, <3>1, <3>2
  <2>2. /\ phase' = "main" /\ armed' = "out" /\ UNCHANGED << m_sockfd, shorts, have_send, stream >>
    BY <1>2 DEF Conn!WriteFile, Conn!WriteError, Conn!ReadyToWrite, Conn!localVars
  <2>3. AnswerTypes'
    BY <2>1, <2>2, AppendEntry DEF AnswersInv, AnswerTypes
  <2>4. m_sockfd = "open" /\ OneCall'
    BY <1>1, <2>2 DEF AnswersInv, OneCall
  <2> QED BY <1>1, <2>1, <2>2, <2>3, <2>4 DEF AnswersInv, Unanswered, BeingAnswered, AtMostOneDue, AnswerTypes, Conn!Total
<1>3. CASE Conn!WriteRefuses
  <2>1. m_write_idx' \in 0 .. WRITE_BUFFER_SIZE - 1
    BY <1>1, <1>3, WhatIsAdded, ConnConstants DEF Conn!WriteRefuses
  <2> QED BY <1>3, <2>1
          DEF AnswersInv, AnswerTypes, OneCall, Unanswered, BeingAnswered, AtMostOneDue, Conn!WriteRefuses,
              Conn!Closed, Conn!localVars, Conn!outVars
<1> QED BY <1>2, <1>3 DEF Conn!ProcessWrite

\* A round of the loop of write: the whole answer at once, or one writev cut short.
LEMMA SentAll ==
  ASSUME AnswersInv, NEW n \in 1 .. Conn!Total(m_iv), Conn!Sent(n)
  PROVE  /\ Conn!Total(m_iv) \in Nat /\ n \in Nat /\ have_send' \in Nat /\ shorts' \in Nat
         /\ stream' \in Seq(Nat) /\ answers' = answers /\ m_iv' = m_iv /\ answers \in Seq(Nat)
         /\ shorts' = 0 => stream' = answers /\ Conn!Enough(n)
<1>1. Conn!Total(m_iv) \in Nat /\ m_write_idx <= Conn!Total(m_iv) /\ m_write_idx \in Nat
      /\ (shorts = 0 => answers = Append(stream, Conn!Total(m_iv)))
  BY DEF AnswersInv, AnswerTypes, BeingAnswered, Conn!Sent
<1>2. n \in Nat /\ have_send \in Nat /\ shorts \in Nat /\ stream \in Seq(Nat)
  BY <1>1 DEF AnswersInv, AnswerTypes
<1>3. Append(stream, n) \in Seq(Nat)
  BY <1>2, AppendEntry
<1>4. shorts' = 0 => n = Conn!Total(m_iv) /\ shorts = 0
  BY <1>1, <1>2 DEF Conn!Sent
<1>5. n = Conn!Total(m_iv) => Conn!Enough(n)
  BY <1>1, <1>2 DEF Conn!Enough
<1> QED BY <1>1, <1>2, <1>3, <1>4, <1>5 DEF Conn!Sent, AnswersInv, AnswerTypes

LEMMA AnswersWrite == ASSUME AnswersInv, Conn!Write PROVE AnswersInv'
<1>1. CASE Conn!WriteStarts \/ Conn!WriteStalls \/ Conn!WriteFails
  <2>1. UNCHANGED << Conn!writeVars, Conn!outVars >> /\ have_send' \in {0, have_send}
    BY <1>1 DEF Conn!WriteStarts, Conn!WriteStalls, Conn!WriteFails, Conn!localVars
  <2>2. OneCall' /\ phase' \in {"main", "write"} /\ armed' \in {"out", "spent"} /\ (armed = "out" \/ phase = "write")
    BY <1>1 DEF AnswersInv, OneCall, Conn!WriteStarts, Conn!WriteStalls, Conn!WriteFails, Conn!Closed
  <2> QED BY <2>1, <2>2
          DEF AnswersInv, AnswerTypes, Unanswered, BeingAnswered, AtMostOneDue, Conn!Total, Conn!writeVars, Conn!outVars
<1>2. CASE Conn!WritesOn
  <2>1. PICK n \in 1 .. Conn!Total(m_iv) : Conn!Sent(n) /\ ~ Conn!Enough(n)
    BY <1>2 DEF Conn!WritesOn
  <2>2. shorts' # 0
    BY <2>1, SentAll
  <2> QED BY <1>2, <2>1, <2>2, SentAll
          DEF AnswersInv, AnswerTypes, OneCall, Unanswered, BeingAnswered, AtMostOneDue, Conn!WritesOn, Conn!Sent,
              Conn!Total
<1>3. CASE Conn!WriteKeeps \/ Conn!WriteCloses
  <2>1. PICK n \in 1 .. Conn!Total(m_iv) : Conn!Sent(n) /\ Conn!Enough(n)
    BY <1>3 DEF Conn!WriteKeeps, Conn!WriteCloses
  <2>2. /\ phase' = "main" /\ m_sockfd' \in {"open", "closed"} /\ armed' \in {"in", "spent"}
        /\ armed' = "in" => m_write_idx' = 0
        /\ m_write_idx' \in {0, m_write_idx}
        /\ m_sockfd' = "closed" => armed' = "spent"
    BY <1>3, <2>1 DEF Conn!WriteKeeps, Conn!WriteCloses, Conn!Closed, Conn!Cleared, AnswersInv, OneCall, Conn!Sent
  <2>3. 0 \in 0 .. WRITE_BUFFER_SIZE - 1
    BY ConnConstants
  <2>4. stream' \in Seq(Nat) /\ (shorts' = 0 => stream' = answers') /\ answers' \in Seq(Nat)
        /\ shorts' \in Nat /\ have_send' \in Nat
    BY <2>1, SentAll
  <2> QED BY <2>2, <2>3, <2>4 DEF AnswersInv, AnswerTypes, OneCall, Unanswered, BeingAnswered, AtMostOneDue
<1> QED BY <1>1, <1>2, <1>3 DEF Conn!Write

LEMMA AnswersNext == ASSUME AnswersInv, [ServerNext \/ Comes]_connVars PROVE AnswersInv'
<1>1. CASE UNCHANGED connVars
  BY <1>1 DEF AnswersInv, AnswerTypes, OneCall, Unanswered, BeingAnswered, AtMostOneDue, Conn!Total, connVars
<1> QED BY <1>1, AnswersOpens, AnswersReads, AnswersProcessRead, AnswersProcessWrite, AnswersWrite DEF ServerNext

LEMMA AppendPrefix ==
  ASSUME NEW s \in Seq(Nat), NEW n \in Nat
  PROVE  Len(Append(s, n)) = Len(s) + 1 /\ SubSeq(Append(s, n), 1, Len(s)) = s
OBVIOUS

\* As long as writev takes all it is given, a client gets each answer whole, once and
\* in order (HttpConn).
THEOREM EveryAnswerIsWhole == Spec => []AnswersWhole
<1>1. AnswersInv => AnswersWhole
  BY AppendPrefix DEF AnswersInv, AtMostOneDue, AnswerTypes, AnswersWhole, Conn!AnswersWhole
<1> QED BY <1>1, AnswersInit, AnswersNext, ConnSteps, PTL

\* The indexes of the parser, and what a path and a mapping can be.
ConnChars == (UNION {{m[i] : i \in DOMAIN m} : m \in Messages}) \cup {Nul, Page, CR, LF, KeepAlive, Text}

Indexes ==
  /\ m_read_buf \in Seq(ConnChars) /\ got \in Seq(ConnChars) /\ coming \in Seq(ConnChars)
  /\ Len(m_read_buf) <= READ_BUFFER_SIZE /\ Len(got) = Len(m_read_buf)
  /\ m_start_line \in Nat /\ m_checked_idx \in Nat
  /\ m_start_line <= m_checked_idx /\ m_checked_idx <= Len(m_read_buf)
Requested ==
  /\ m_check_state \in {"REQUESTLINE", "HEADER", "CONTENT"}
  /\ m_url \in Conn!Paths \cup {Nul}
  /\ m_check_state # "REQUESTLINE" => m_url \in Conn!Paths
  /\ m_content_length \in {0, CONTENT_LENGTH}
Files ==
  /\ Len(m_iv) \in {1, 2} /\ conns \in Nat
  /\ \A m \in mapped : m.file = Page /\ m.conn \in 1 .. conns
  /\ m_file_address \in mapped \cup {NoMap, Conn!MapFailed}
  /\ m_sockfd = "open" => conns # 0

ConnTypes == OneCall /\ AnswerTypes /\ Indexes /\ Requested /\ Files

LEMMA ConnSubSeq ==
  ASSUME NEW s \in Seq(ConnChars), NEW i \in Nat \ {0}, NEW j \in 0 .. Len(s)
  PROVE  SubSeq(s, i, j) \in Seq(ConnChars) /\ Len(SubSeq(s, i, j)) = IF i <= j THEN j - i + 1 ELSE 0
<1>1. i \in Int /\ j \in Int /\ \A k \in i .. j : s[k] \in ConnChars
  OBVIOUS
<1> QED BY <1>1

LEMMA WhatComes ==
  \A m \in Messages \cup {SubSeq(Conn!request, 1, n) : n \in 0 .. 10} : m \in Seq(ConnChars)
<1>1. ASSUME NEW m \in Messages PROVE m \in Seq(ConnChars)
  <2>1. m \in Seq({m[i] : i \in DOMAIN m}) /\ {m[i] : i \in DOMAIN m} \subseteq ConnChars
    BY ConnAssumption DEF Conn!MessagesAssumption, ConnChars
  <2> QED BY <2>1
<1>2. Conn!request \in Seq(ConnChars) /\ Len(Conn!request) = 10
  BY DEF Conn!request, ConnChars
<1>3. ASSUME NEW n \in 0 .. 10 PROVE SubSeq(Conn!request, 1, n) \in Seq(ConnChars)
  <2>1. n \in 0 .. Len(Conn!request) /\ 1 \in Nat \ {0}
    BY <1>2
  <2> QED BY <1>2, <2>1, ConnSubSeq
<1> QED BY <1>1, <1>3

LEMMA TypesInit == Conn!Init => ConnTypes
<1> SUFFICES ASSUME Conn!Init PROVE ConnTypes
  OBVIOUS
<1>1. OneCall /\ AnswerTypes
  BY AnswersInit DEF AnswersInv
<1>2. Indexes
  BY ConnConstants DEF Conn!Init, Indexes
<1> QED BY <1>1, <1>2 DEF Conn!Init, ConnTypes, Requested, Files

\* init() clears all that the parser has.
LEMMA ClearedTypes ==
  ASSUME ConnTypes, Conn!Cleared, coming' = coming
  PROVE  Indexes' /\ Requested'
BY ConnConstants DEF ConnTypes, Indexes, Requested, Conn!Cleared, Conn!Paths

LEMMA SameRequest ==
  ASSUME ConnTypes, UNCHANGED Conn!parseVars, coming' \in Seq(ConnChars) \cup {coming, <<>>}
  PROVE  Indexes' /\ Requested'
<1>1. coming' \in Seq(ConnChars)
  <2>1. <<>> \in Seq(ConnChars)
    OBVIOUS
  <2> QED BY <2>1 DEF ConnTypes, Indexes
<1> QED BY <1>1 DEF ConnTypes, Indexes, Requested, Conn!parseVars, Conn!Paths

LEMMA TypesOpens == ASSUME ConnTypes, Conn!Accept \/ Comes PROVE Indexes' /\ Requested' /\ Files'
<1>1. CASE Conn!Accept
  <2>1. Files'
    BY <1>1 DEF ConnTypes, Files, Conn!Accept, Conn!fileVars, Conn!MapFailed
  <2> QED BY <1>1, <2>1, ClearedTypes, SMTT(30) DEF Conn!Accept
<1>2. CASE Comes
  <2>1. coming' \in Seq(ConnChars)
    BY <1>2, WhatComes DEF Comes, ConnTypes, Indexes
  <2>2. Files'
    BY <1>2 DEF ConnTypes, Files, Comes, Conn!fileVars, Conn!writeVars, Conn!MapFailed
  <2> QED BY <1>2, <2>1, <2>2, SameRequest DEF Comes
<1> QED BY <1>1, <1>2

LEMMA TypesReads ==
  ASSUME ConnTypes, Conn!CloseOnHup \/ Conn!Read \/ Conn!ReadFills
  PROVE  Indexes' /\ Requested' /\ Files'
<1>1. Files'
  BY DEF ConnTypes, Files, Conn!CloseOnHup, Conn!Read, Conn!CanRead, Conn!ReadFills, Conn!Closed, Conn!fileVars, Conn!writeVars,
         Conn!MapFailed
<1>2. CASE Conn!CloseOnHup \/ Conn!ReadFills
  <2>1. UNCHANGED Conn!parseVars /\ coming' \in {coming, <<>>}
    BY <1>2 DEF Conn!CloseOnHup, Conn!ReadFills, Conn!Closed
  <2> QED BY <1>1, <2>1, SameRequest
<1>3. CASE Conn!Read
  <2>1. PICK n \in 1 .. Len(coming) :
          /\ Conn!m_read_idx + n <= READ_BUFFER_SIZE
          /\ m_read_buf' = m_read_buf \o SubSeq(coming, 1, n)
          /\ got' = got \o SubSeq(coming, 1, n)
          /\ coming' = SubSeq(coming, n + 1, Len(coming))
    BY <1>3 DEF Conn!Read
  <2>2. coming \in Seq(ConnChars) /\ m_read_buf \in Seq(ConnChars) /\ got \in Seq(ConnChars) /\ n \in Nat
    BY DEF ConnTypes, Indexes
  <2>3. /\ SubSeq(coming, 1, n) \in Seq(ConnChars) /\ Len(SubSeq(coming, 1, n)) = n
        /\ SubSeq(coming, n + 1, Len(coming)) \in Seq(ConnChars)
    BY <2>2, ConnSubSeq
  <2>4. /\ m_read_buf' \in Seq(ConnChars) /\ Len(m_read_buf') = Len(m_read_buf) + n
        /\ got' \in Seq(ConnChars) /\ Len(got') = Len(got) + n
    BY <2>1, <2>2, <2>3, ConcatProperties
  <2>5. UNCHANGED << m_start_line, m_checked_idx >>
    BY <1>3 DEF Conn!Read
  <2>6. Indexes'
    BY <2>1, <2>2, <2>3, <2>4, <2>5 DEF Conn!m_read_idx, ConnTypes, Indexes
  <2> QED BY <1>1, <1>3, <2>6 DEF ConnTypes, Requested, Conn!Read, Conn!Paths
<1> QED BY <1>2, <1>3

\* Where parse_line stops: at the first CR or LF, or at the end.
LEMMA ConnStop ==
  ASSUME Indexes
  PROVE  /\ Conn!Stop \in Nat /\ m_checked_idx <= Conn!Stop /\ Conn!Stop <= Len(m_read_buf)
<1>1. Len(m_read_buf) \in Nat /\ Conn!Breaks \subseteq m_checked_idx .. Len(m_read_buf) - 1
  BY DEF Indexes, Conn!Breaks, Conn!m_read_idx
<1>2. CASE Conn!Breaks = {}
  BY <1>1, <1>2 DEF Indexes, Conn!Stop, Conn!m_read_idx
<1>3. CASE Conn!Breaks # {}
  <2>1. Conn!Breaks \subseteq Nat
    BY <1>1 DEF Indexes
  <2>2. \E i \in Conn!Breaks : \A j \in Conn!Breaks : i <= j
    BY <1>3, <2>1, LeastExists
  <2>3. Conn!Stop \in Conn!Breaks
    BY <1>3, <2>2 DEF Conn!Stop
  <2> QED BY <1>1, <2>1, <2>3
<1> QED BY <1>2, <1>3

\* A line that is complete ends inside what was read.
LEMMA LineTaken ==
  ASSUME Indexes, Conn!ParseLine = "OK"
  PROVE  /\ Conn!LineEnd + 2 \in Nat /\ Conn!LineEnd + 2 <= Len(m_read_buf)
         /\ Conn!Cut \in Seq(ConnChars) /\ Len(Conn!Cut) = Len(m_read_buf)
<1>1. Conn!Stop \in Nat /\ Conn!Stop < Len(m_read_buf) /\ Len(m_read_buf) \in Nat
  BY ConnStop DEF Indexes, Conn!ParseLine, Conn!m_read_idx
<1>2. Conn!Char(Conn!Stop) = CR => Conn!Stop + 1 < Len(m_read_buf)
  BY <1>1 DEF Conn!ParseLine, Conn!m_read_idx
<1>3. Nul \in ConnChars
  BY DEF ConnChars
<1>4. Conn!Cut \in Seq(ConnChars) /\ Len(Conn!Cut) = Len(m_read_buf)
  BY <1>1, <1>3 DEF Indexes, Conn!Cut, Conn!m_read_idx
<1> QED BY <1>1, <1>2, <1>4 DEF Conn!LineEnd

LEMMA TypesProcessRead == ASSUME ConnTypes, Conn!ProcessRead PROVE Indexes' /\ Requested' /\ Files'
<1>1. UNCHANGED << m_sockfd, coming, conns, m_iv >>
  BY ReadStep DEF Conn!peerVars, Conn!writeVars
<1>2. Indexes' /\ UNCHANGED got
  <2>1. CASE Conn!TakeLine \/ Conn!ContentLine
    <3>1. Conn!ParseLine = "OK" /\ m_read_buf' = Conn!Cut /\ m_checked_idx' = Conn!LineEnd + 2
          /\ m_start_line' = m_checked_idx' /\ got' = got
      BY <2>1 DEF Conn!TakeLine, Conn!ContentLine
    <3> QED BY <1>1, <3>1, LineTaken DEF ConnTypes, Indexes
  <2>2. CASE Conn!Content
    BY <1>1, <2>2 DEF Conn!Content, ConnTypes, Indexes
  <2>3. CASE Conn!NoRequest
    BY <1>1, <2>3, ConnStop DEF Conn!NoRequest, ConnTypes, Indexes
  <2> QED BY <2>1, <2>2, <2>3
          DEF Conn!ProcessRead, Conn!ParseRequestLine, Conn!BadRequestLine, Conn!ParseHeader, Conn!HeadersEnd
<1>3. Requested'
  <2>1. CASE Conn!ParseRequestLine \/ Conn!BadRequestLine
    BY <2>1 DEF ConnTypes, Requested, Conn!ParseRequestLine, Conn!BadRequestLine, Conn!Paths
  <2>2. CASE Conn!ParseHeader \/ Conn!HeadersEnd
    BY <2>2 DEF ConnTypes, Requested, Conn!ParseHeader, Conn!HeadersEnd, Conn!Paths
  <2>3. CASE Conn!Content \/ Conn!ContentLine \/ Conn!NoRequest
    BY <2>3 DEF ConnTypes, Requested, Conn!Content, Conn!ContentLine, Conn!NoRequest, Conn!Paths
  <2> QED BY <2>1, <2>2, <2>3 DEF Conn!ProcessRead
<1>4. Files'
  <2>1. CASE UNCHANGED Conn!fileVars
    BY <1>1, <2>1 DEF ConnTypes, Files, Conn!fileVars, Conn!MapFailed
  <2>2. CASE ~ UNCHANGED Conn!fileVars
    <3> Conn!DoRequest
      BY <2>2, ReadStep
    <3>1. m_url \in Conn!Paths /\ m_sockfd = "open"
      <4>1. m_check_state # "REQUESTLINE"
        BY <2>2 DEF Conn!ProcessRead, Conn!ParseRequestLine, Conn!BadRequestLine, Conn!ParseHeader,
                    Conn!HeadersEnd, Conn!Content, Conn!ContentLine, Conn!NoRequest, Conn!TakesContent,
                    Conn!LoopsOn
      <4> QED BY <4>1, ReadStep DEF ConnTypes, Requested, OneCall
    <3>2. CASE UNCHANGED << m_file_address, mapped >>
      BY <1>1, <3>2 DEF ConnTypes, Files, Conn!MapFailed
    <3>3. CASE Conn!Mmap(m_url) /\ Conn!Lookup(m_url) = "FILE_REQUEST"
      <4>1. m_url \in {Page, EmptyFile}
        BY <3>1, <3>3 DEF Conn!Paths, Conn!Lookup
      <4>2. Conn!st_size(m_url) # 0 => m_url = Page
        BY <4>1 DEF Conn!st_size
      <4> QED BY <1>1, <3>1, <3>3, <4>2 DEF ConnTypes, Files, Conn!Mmap, Conn!Mapping, Conn!MapFailed
    <3> QED BY <2>2, <3>2, <3>3 DEF Conn!DoRequest
  <2> QED BY <2>1, <2>2
<1> QED BY <1>2, <1>3, <1>4

LEMMA TypesProcessWrite == ASSUME ConnTypes, Conn!ProcessWrite PROVE Indexes' /\ Requested' /\ Files'
<1>1. UNCHANGED Conn!parseVars /\ coming' \in {coming, <<>>}
  BY DEF Conn!ProcessWrite, Conn!WriteFile, Conn!WriteError, Conn!WriteRefuses, Conn!ReadyToWrite, Conn!Closed
<1>2. Files'
  <2>1. Len(m_iv') \in {1, 2}
    BY DEF ConnTypes, Files, Conn!ProcessWrite, Conn!WriteFile, Conn!WriteError, Conn!WriteRefuses, Conn!ReadyToWrite
  <2>2. UNCHANGED << Conn!fileVars, conns >> /\ (m_sockfd' = m_sockfd \/ m_sockfd' = "closed")
    BY DEF Conn!ProcessWrite, Conn!WriteFile, Conn!WriteError, Conn!WriteRefuses, Conn!ReadyToWrite, Conn!Closed
  <2> QED BY <2>1, <2>2 DEF ConnTypes, Files, Conn!fileVars, Conn!MapFailed
<1> QED BY <1>1, <1>2, SameRequest

LEMMA TypesWrite == ASSUME ConnTypes, Conn!Write PROVE Indexes' /\ Requested' /\ Files'
<1>1. Files'
  <2>1. UNCHANGED << m_iv, conns >> /\ (m_sockfd' = m_sockfd \/ m_sockfd' = "closed")
    BY DEF Conn!Write, Conn!WriteStarts, Conn!WritesOn, Conn!WriteKeeps, Conn!WriteCloses, Conn!WriteStalls,
           Conn!WriteFails, Conn!Sent, Conn!Closed, Conn!writeVars, Conn!peerVars
  <2>2. UNCHANGED Conn!fileVars \/ Conn!Unmap
    BY DEF Conn!Write, Conn!WriteStarts, Conn!WritesOn, Conn!WriteKeeps, Conn!WriteCloses, Conn!WriteStalls,
           Conn!WriteFails
  <2> QED BY <2>1, <2>2 DEF ConnTypes, Files, Conn!Unmap, Conn!fileVars, Conn!MapFailed
<1>2. CASE Conn!WriteKeeps
  BY <1>1, <1>2, ClearedTypes DEF Conn!WriteKeeps
<1>3. CASE ~ Conn!WriteKeeps
  <2>1. UNCHANGED Conn!parseVars /\ coming' \in {coming, <<>>}
    BY <1>3 DEF Conn!Write, Conn!WriteStarts, Conn!WritesOn, Conn!WriteCloses, Conn!WriteStalls,
           Conn!WriteFails, Conn!Closed, Conn!peerVars
  <2> QED BY <1>1, <2>1, SameRequest
<1> QED BY <1>2, <1>3

LEMMA TypesNext == ASSUME ConnTypes, AnswersInv, [ServerNext \/ Comes]_connVars PROVE ConnTypes'
<1>1. OneCall' /\ AnswerTypes'
  BY AnswersNext DEF AnswersInv
<1>2. CASE UNCHANGED connVars
  BY <1>1, <1>2 DEF ConnTypes, Indexes, Requested, Files, Conn!Paths, Conn!MapFailed, connVars
<1> QED BY <1>1, <1>2, TypesOpens, TypesReads, TypesProcessRead, TypesProcessWrite, TypesWrite DEF ServerNext, ConnTypes

THEOREM ConnInvariant == Spec => [](ConnTypes /\ AnswersInv)
<1> QED BY AnswersInit, AnswersNext, TypesInit, TypesNext, ConnSteps, PTL

-----------------------------------------------------------------------------
(* What a request deserves                                                  *)

\* parse_line or parse_content will look at the buffer again.
Parsing == phase = "process_read" \/ armed = "in"

\* What of the buffer parse_line has yet to look at is as it came, and what it has
\* passed last is no line end, nor half of one.
AsReceived ==
  /\ \A i \in m_start_line + 1 .. Len(got) : m_read_buf[i] = got[i]
  /\ m_checked_idx # 0 => m_read_buf[m_checked_idx] \notin {CR, LF}

\* The header that gives the length is one of the lines that end by n.
Lengthy(s, n) == \E i \in Conn!Ends(s) : i + 3 \in Conn!Ends(s) /\ i + 3 <= n /\ s[i + 1] = Length

\* Before the content: the lines taken are all there are up to the index, and
\* none of them ends the head.
InHead ==
  m_check_state # "CONTENT" =>
    /\ \A j \in Conn!Stray(got) : j > m_checked_idx
    /\ \A k \in Conn!Ends(got) : k <= m_start_line \/ k > m_checked_idx
    /\ \A j \in Conn!Ends(got) : j <= m_start_line => j - 2 \notin Conn!Ends(got)
    /\ m_content_length = IF Lengthy(got, m_start_line) THEN CONTENT_LENGTH ELSE 0
    /\ IF m_check_state = "REQUESTLINE" THEN m_start_line = 0
       ELSE /\ m_start_line \in Conn!Ends(got) /\ Conn!First(Conn!Ends(got), 3)
            /\ got[1] = m_url

\* In the content: where the head ended, and what it said.
HeadAt(h) ==
  /\ h \in Conn!Ends(got) /\ Conn!HeadEnd(got, h) /\ ~ Conn!NoPath(got, h)
  /\ \A j \in Conn!Stray(got) : j > h
  /\ h <= m_checked_idx /\ got[1] = m_url
  /\ Lengthy(got, h - 1)
  /\ phase = "process_read" /\ line_status # "OK" /\ m_checked_idx = h
       => Len(got) < h + CONTENT_LENGTH
InContent ==
  m_check_state = "CONTENT" =>
    m_content_length = CONTENT_LENGTH /\ \E h \in 1 .. m_checked_idx : HeadAt(h)

ReqInv == (Parsing => AsReceived /\ InHead /\ InContent) /\ Conn!VerdictOnRequest

LEMMA Breakers == CR # LF /\ Nul \notin {CR, LF} /\ Length \notin {CR, LF}
BY ConnAssumption DEF Conn!MessagesAssumption

\* Sequences that agree from one place to another have the same there.
LEMMA SubSeqAgrees ==
  ASSUME NEW S, NEW s \in Seq(S), NEW u \in Seq(S), NEW i \in Nat, NEW j \in Nat,
         j <= Len(s), j <= Len(u), \A n \in i + 1 .. j : s[n] = u[n]
  PROVE  SubSeq(s, i + 1, j) = SubSeq(u, i + 1, j)
<1>1. \A n \in i + 1 .. j : s[n] \in S /\ u[n] \in S
  OBVIOUS
<1> DEFINE a == SubSeq(s, i + 1, j)  d == SubSeq(u, i + 1, j)
<1>2. /\ a \in Seq(S) /\ Len(a) = (IF i + 1 <= j THEN j - (i + 1) + 1 ELSE 0)
      /\ \A n \in 1 .. j - (i + 1) + 1 : a[n] = s[i + 1 + n - 1]
  BY <1>1, SubSeqProperties
<1>3. /\ d \in Seq(S) /\ Len(d) = (IF i + 1 <= j THEN j - (i + 1) + 1 ELSE 0)
      /\ \A n \in 1 .. j - (i + 1) + 1 : d[n] = u[i + 1 + n - 1]
  BY <1>1, SubSeqProperties
<1>4. ASSUME NEW n \in 1 .. Len(a) PROVE a[n] = d[n]
  <2>1. n \in 1 .. j - (i + 1) + 1 /\ i + 1 + n - 1 \in i + 1 .. j
    BY <1>2
  <2> QED BY <1>2, <1>3, <2>1
<1> QED BY <1>2, <1>3, <1>4, SeqEqual

\* What parse_line has before it is as received.
LEMMA StopAt ==
  ASSUME ConnTypes, AsReceived
  PROVE  /\ Conn!Stop \in Nat /\ m_checked_idx <= Conn!Stop /\ Conn!Stop <= Len(got)
         /\ \A i \in m_checked_idx + 1 .. Conn!Stop : got[i] \notin {CR, LF}
         /\ Conn!Stop < Len(got) => got[Conn!Stop + 1] \in {CR, LF}
         /\ \A i \in m_checked_idx .. Len(got) - 1 : Conn!Char(i) = got[i + 1]
<1>1. /\ Conn!Stop \in Nat /\ m_checked_idx <= Conn!Stop /\ Conn!Stop <= Len(m_read_buf)
      /\ Len(m_read_buf) = Len(got) /\ Len(got) \in Nat /\ m_checked_idx \in Nat /\ m_start_line \in Nat
      /\ m_start_line <= m_checked_idx
  BY ConnStop DEF ConnTypes, Indexes
<1>2. ASSUME NEW i \in m_checked_idx .. Len(got) - 1 PROVE Conn!Char(i) = got[i + 1]
  <2>1. i + 1 \in m_start_line + 1 .. Len(got)
    BY <1>1
  <2> QED BY <2>1 DEF AsReceived, Conn!Char
<1>3. Conn!Breaks = {i \in m_checked_idx .. Len(got) - 1 : got[i + 1] \in {CR, LF}}
  BY <1>1, <1>2 DEF Conn!Breaks, Conn!m_read_idx
<1>4. CASE Conn!Breaks = {}
  <2>1. Conn!Stop = Len(got)
    BY <1>1, <1>4 DEF Conn!Stop, Conn!m_read_idx
  <2>2. ASSUME NEW i \in m_checked_idx + 1 .. Len(got) PROVE got[i] \notin {CR, LF}
    <3>1. i - 1 \in m_checked_idx .. Len(got) - 1 /\ (i - 1) + 1 = i
      BY <1>1
    <3> QED BY <1>3, <1>4, <3>1
  <2> QED BY <1>1, <1>2, <2>1, <2>2
<1>5. CASE Conn!Breaks # {}
  <2>1. Conn!Breaks \subseteq Nat
    BY <1>1, <1>3
  <2>2. \E i \in Conn!Breaks : \A j \in Conn!Breaks : i <= j
    BY <1>5, <2>1, LeastExists
  <2>3. Conn!Stop \in Conn!Breaks /\ \A j \in Conn!Breaks : Conn!Stop <= j
    BY <1>5, <2>2 DEF Conn!Stop
  <2>4. ASSUME NEW i \in m_checked_idx + 1 .. Conn!Stop PROVE got[i] \notin {CR, LF}
    <3>1. i - 1 \in m_checked_idx .. Len(got) - 1 /\ (i - 1) + 1 = i /\ ~ Conn!Stop <= i - 1
      BY <1>1
    <3> QED BY <1>3, <2>3, <3>1
  <2> QED BY <1>1, <1>2, <1>3, <2>3, <2>4
<1> QED BY <1>4, <1>5

\* A line is taken up to where a CR and an LF first come, and with it the index.
LEMMA LineOk ==
  ASSUME ConnTypes, AsReceived, Conn!ParseLine = "OK"
  PROVE  LET k == Conn!LineEnd + 2 IN
         /\ k \in Conn!Ends(got) /\ m_checked_idx + 2 <= k /\ k <= Len(got) /\ k \in Nat
         /\ \A i \in m_checked_idx + 1 .. k - 2 : got[i] \notin {CR, LF}
         /\ \A i \in k + 1 .. Len(got) : Conn!Cut[i] = got[i]
         /\ Conn!Cut[k] = Nul
         /\ Conn!Line = SubSeq(got, m_start_line + 1, k - 2)
<1> DEFINE k == Conn!LineEnd + 2
<1>1. /\ Len(got) \in Nat /\ m_checked_idx \in Nat /\ Conn!Stop \in Nat /\ Len(m_read_buf) = Len(got)
      /\ m_start_line \in Nat /\ m_start_line <= m_checked_idx
      /\ m_checked_idx <= Conn!Stop /\ Conn!Stop < Len(got)
  BY StopAt DEF ConnTypes, Indexes, Conn!ParseLine, Conn!m_read_idx
<1>2. Conn!Char(Conn!Stop) = got[Conn!Stop + 1]
  BY <1>1, StopAt
<1>3. Conn!Char(Conn!Stop) = CR
  <2> SUFFICES ASSUME Conn!Char(Conn!Stop) # CR PROVE FALSE
    OBVIOUS
  <2>1. Conn!Stop > 1 /\ Conn!Char(Conn!Stop - 1) = CR
    BY <1>1 DEF Conn!ParseLine, Conn!m_read_idx
  <2>2. m_read_buf[Conn!Stop] = CR
    <3>1. (Conn!Stop - 1) + 1 = Conn!Stop
      BY <1>1
    <3> QED BY <2>1, <3>1 DEF Conn!Char
  <2>3. CASE Conn!Stop = m_checked_idx
    BY <2>1, <2>2, <2>3, <1>1 DEF AsReceived
  <2>4. CASE Conn!Stop # m_checked_idx
    <3>1. Conn!Stop \in m_checked_idx + 1 .. Conn!Stop /\ Conn!Stop \in m_start_line + 1 .. Len(got)
      BY <1>1, <2>4
    <3> QED BY <2>2, <3>1, StopAt DEF AsReceived
  <2> QED BY <2>3, <2>4
<1>4. Conn!Stop + 1 < Len(got) /\ Conn!Char(Conn!Stop + 1) = LF
  BY <1>1, <1>3 DEF Conn!ParseLine, Conn!m_read_idx
<1>5. Conn!Char(Conn!Stop + 1) = got[Conn!Stop + 2]
  <2>1. Conn!Stop + 1 \in m_checked_idx .. Len(got) - 1 /\ (Conn!Stop + 1) + 1 = Conn!Stop + 2
    BY <1>1, <1>4
  <2> QED BY <2>1, StopAt
<1>6. k = Conn!Stop + 2 /\ Conn!LineEnd = Conn!Stop /\ k \in Nat /\ k - 2 = Conn!LineEnd
  BY <1>1, <1>3 DEF Conn!LineEnd
<1> HIDE DEF k
<1>7. k \in Conn!Ends(got) /\ k <= Len(got) /\ k \in Nat /\ m_checked_idx + 2 <= k
  <2>1. k \in 2 .. Len(got) /\ k - 1 = Conn!Stop + 1 /\ k = Conn!Stop + 2
    BY <1>1, <1>4, <1>6
  <2>2. got[k - 1] = CR /\ got[k] = LF
    BY <1>2, <1>3, <1>4, <1>5, <2>1
  <2> QED BY <1>1, <2>1, <2>2 DEF Conn!Ends
<1>8. \A i \in m_checked_idx + 1 .. k - 2 : got[i] \notin {CR, LF}
  BY <1>1, <1>6, StopAt
<1>9. (\A i \in k + 1 .. Len(got) : Conn!Cut[i] = got[i]) /\ Conn!Cut[k] = Nul
  <2>1. Conn!Cut = [i \in 1 .. Len(got) |-> IF i \in {k - 1, k} THEN Nul ELSE m_read_buf[i]]
    BY <1>1, <1>6 DEF Conn!Cut, Conn!m_read_idx
  <2>2. k \in 1 .. Len(got)
    BY <1>1, <1>7
  <2>3. ASSUME NEW i \in k + 1 .. Len(got) PROVE Conn!Cut[i] = got[i]
    <3>1. i \in 1 .. Len(got) /\ i \notin {k - 1, k} /\ i \in m_start_line + 1 .. Len(got)
      BY <1>1, <1>7
    <3> QED BY <2>1, <3>1 DEF AsReceived
  <2> QED BY <2>1, <2>2, <2>3
<1>10. Conn!Line = SubSeq(got, m_start_line + 1, k - 2)
  <2>1. \A i \in m_start_line + 1 .. k - 2 : m_read_buf[i] = got[i]
    <3> TAKE i \in m_start_line + 1 .. k - 2
    <3>1. i \in m_start_line + 1 .. Len(got)
      BY <1>1, <1>7
    <3> QED BY <3>1 DEF AsReceived
  <2>2. Conn!Line = SubSeq(m_read_buf, m_start_line + 1, k - 2)
    BY <1>6 DEF Conn!Line
  <2>3. got \in Seq(ConnChars) /\ m_read_buf \in Seq(ConnChars) /\ k - 2 \in Nat /\ k - 2 <= Len(got)
    BY <1>1, <1>6, <1>7 DEF ConnTypes, Indexes
  <2> QED BY <1>1, <2>1, <2>2, <2>3, SubSeqAgrees
<1> QED BY <1>7, <1>8, <1>9, <1>10 DEF k
\* A part of a sequence that is one word.
LEMMA OneWord ==
  ASSUME NEW s \in Seq(ConnChars), NEW i \in Nat \ {0}, NEW j \in Nat, j <= Len(s)
  PROVE  /\ j = i => SubSeq(s, i, j) = << s[j] >>
         /\ \A v : SubSeq(s, i, j) = << v >> => j = i
<1>1. \A n \in i .. j : s[n] \in ConnChars
  OBVIOUS
<1> DEFINE a == SubSeq(s, i, j)
<1>2. /\ a \in Seq(ConnChars) /\ Len(a) = (IF i <= j THEN j - i + 1 ELSE 0)
      /\ \A n \in 1 .. j - i + 1 : a[n] = s[i + n - 1]
  BY <1>1, SubSeqProperties
<1> HIDE DEF a
<1>3. ASSUME j = i PROVE a = << s[j] >>
  <2>1. 1 \in 1 .. j - i + 1 /\ i + 1 - 1 = j
    BY <1>3
  <2>2. Len(a) = 1 /\ a[1] = s[j] /\ s[j] \in ConnChars
    BY <1>1, <1>2, <1>3, <2>1
  <2>3. << s[j] >> \in Seq(ConnChars) /\ Len(<< s[j] >>) = 1 /\ << s[j] >>[1] = s[j]
    BY <2>2
  <2>4. \A n \in 1 .. Len(a) : n = 1
    BY <2>2
  <2>5. \A n \in 1 .. Len(a) : a[n] = << s[j] >>[n]
    BY <2>2, <2>3, <2>4
  <2> QED BY <1>2, <2>2, <2>3, <2>5, SeqEqual
<1>4. ASSUME NEW v, a = << v >> PROVE j = i
  <2>1. Len(a) = 1
    BY <1>4
  <2>2. i \in Int /\ j \in Int
    OBVIOUS
  <2>3. CASE i <= j
    <3>1. Len(a) = j - i + 1
      BY <1>2, <2>3
    <3>2. j - i + 1 = 1
      BY <2>1, <3>1
    <3> QED BY <2>2, <3>2
  <2>4. CASE ~ i <= j
    BY <1>2, <2>1, <2>2, <2>4
  <2> QED BY <2>3, <2>4
<1> QED BY <1>3, <1>4 DEF a

LEMMA EndsAre ==
  ASSUME NEW s \in Seq(ConnChars)
  PROVE  /\ Conn!Ends(s) \subseteq Nat
         /\ \A k \in Conn!Ends(s) : k >= 2 /\ k <= Len(s) /\ s[k - 1] = CR /\ s[k] = LF /\ k - 2 \in Nat
BY DEF Conn!Ends

LEMMA Words ==
  ASSUME NEW s \in Seq(ConnChars)
  PROVE  /\ \A k \in Conn!Ends(s) :
              Conn!NoPath(s, k) <=> Conn!First(Conn!Ends(s), k) /\ (k = 3 => s[1] \notin Conn!Paths)
         /\ \A k \in Nat : Conn!BodyLength(s, k) = IF Lengthy(s, k - 1) THEN CONTENT_LENGTH ELSE 0
<1>1. ASSUME NEW k \in Conn!Ends(s) PROVE Conn!NoPath(s, k) <=> Conn!First(Conn!Ends(s), k) /\ (k = 3 => s[1] \notin Conn!Paths)
  <2>1. k \in Nat /\ k - 2 \in Nat /\ k - 2 <= Len(s) /\ 1 \in Nat \ {0}
    BY EndsAre
  <2>2. /\ k - 2 = 1 => SubSeq(s, 1, k - 2) = << s[k - 2] >>
        /\ \A v : SubSeq(s, 1, k - 2) = << v >> => k - 2 = 1
    BY <2>1, OneWord, SMTT(30)
  <2>3. CASE k = 3
    <3>1. k - 2 = 1
      BY <2>3
    <3>2. SubSeq(s, 1, k - 2) = << s[1] >>
      BY <2>2, <3>1
    <3>3. (\A file \in Conn!Paths : SubSeq(s, 1, k - 2) # << file >>) <=> s[1] \notin Conn!Paths
      BY <3>2
    <3> QED BY <2>3, <3>3 DEF Conn!NoPath
  <2>4. CASE k # 3
    <3>1. k - 2 # 1
      BY <2>1, <2>4
    <3> QED BY <2>2, <2>4, <3>1 DEF Conn!NoPath
  <2> QED BY <2>3, <2>4
<1>2. ASSUME NEW k \in Nat PROVE Conn!BodyLength(s, k) = IF Lengthy(s, k - 1) THEN CONTENT_LENGTH ELSE 0
  <2>1. ASSUME NEW i \in Conn!Ends(s), NEW j \in Conn!Ends(s)
        PROVE  SubSeq(s, i + 1, j - 2) = << Length >> <=> j = i + 3 /\ s[i + 1] = Length
    <3>1. i \in Nat /\ j \in Nat /\ j - 2 \in Nat /\ j - 2 <= Len(s) /\ i + 1 \in Nat \ {0}
      BY EndsAre
    <3>2. /\ j - 2 = i + 1 => SubSeq(s, i + 1, j - 2) = << s[j - 2] >>
          /\ \A v : SubSeq(s, i + 1, j - 2) = << v >> => j - 2 = i + 1
      BY <3>1, OneWord
    <3>3. SubSeq(s, i + 1, j - 2) = << Length >> => j - 2 = i + 1
      BY <3>2
    <3>4. j = i + 3 <=> j - 2 = i + 1
      BY <3>1
    <3>5. CASE j - 2 = i + 1
      <4>1. SubSeq(s, i + 1, j - 2) = << s[i + 1] >>
        BY <3>2, <3>5
      <4> QED BY <3>4, <3>5, <4>1
    <3> QED BY <3>3, <3>4, <3>5
  <2>2. (\E i, j \in Conn!Ends(s) : j < k /\ SubSeq(s, i + 1, j - 2) = << Length >>) <=> Lengthy(s, k - 1)
    <3>1. ASSUME NEW i \in Conn!Ends(s), NEW j \in Conn!Ends(s), j < k, SubSeq(s, i + 1, j - 2) = << Length >>
          PROVE  Lengthy(s, k - 1)
      <4>1. j = i + 3 /\ s[i + 1] = Length /\ j <= k - 1
        BY <2>1, <3>1, EndsAre
      <4> QED BY <4>1 DEF Lengthy
    <3>2. ASSUME NEW i \in Conn!Ends(s), i + 3 \in Conn!Ends(s), i + 3 <= k - 1, s[i + 1] = Length
          PROVE  \E j \in Conn!Ends(s) : j < k /\ SubSeq(s, i + 1, j - 2) = << Length >>
      <4>1. i + 3 < k
        BY <3>2, EndsAre
      <4> QED BY <2>1, <3>2, <4>1
    <3> QED BY <3>1, <3>2 DEF Lengthy
  <2> QED BY <2>2 DEF Conn!BodyLength
<1> QED BY <1>1, <1>2

\* After the index c a line end or a stray character comes only with the next CR or LF.
LEMMA NextBreak ==
  ASSUME NEW s \in Seq(ConnChars), NEW c \in Nat, NEW p \in Nat, c <= p, p <= Len(s),
         c # 0 => s[c] # CR, \A i \in c + 1 .. p : s[i] \notin {CR, LF}
  PROVE  /\ \A j \in Conn!Ends(s) : j <= c \/ j >= p + 2
         /\ \A j \in Conn!Stray(s) : j <= c \/ j > p
         /\ p + 2 \in Conn!Ends(s) => \A j \in Conn!Stray(s) : j <= c \/ j > p + 2
<1>1. ASSUME NEW j \in 1 .. Len(s), s[j] \in {CR, LF}, j > c PROVE j > p
  <2>1. j \in Nat
    OBVIOUS
  <2> QED BY <1>1, <2>1
<1>2. ASSUME NEW j \in 2 .. Len(s), s[j - 1] = CR, j > c PROVE j - 1 > p
  <2>1. j - 1 # c
    BY <1>2
  <2>2. j - 1 \in 1 .. Len(s) /\ j - 1 > c
    BY <1>2, <2>1
  <2> QED BY <1>1, <1>2, <2>2
<1>3. ASSUME NEW j \in Conn!Ends(s), ~ j <= c PROVE j >= p + 2
  <2>1. j \in 2 .. Len(s) /\ s[j - 1] = CR /\ j > c
    BY <1>3 DEF Conn!Ends
  <2> QED BY <1>2, <2>1
<1>4. ASSUME NEW j \in Conn!Stray(s), ~ j <= c PROVE j > p /\ (p + 2 \in Conn!Ends(s) => j > p + 2)
  <2>1. j \in 1 .. Len(s) /\ j > c
    BY <1>4 DEF Conn!Stray
  <2>2. CASE j \in 2 .. Len(s) /\ s[j - 1] = CR /\ s[j] # LF
    <3>1. j - 1 > p
      BY <1>2, <2>1, <2>2
    <3>2. p + 2 \in Conn!Ends(s) => j # p + 2
      BY <2>2, EndsAre
    <3> QED BY <2>1, <3>1, <3>2
  <2>3. CASE s[j] = LF /\ j \notin Conn!Ends(s)
    <3>1. j > p
      BY <1>1, <2>1, <2>3
    <3>2. p + 2 \in Conn!Ends(s) => s[p + 1] = CR /\ j # p + 2
      <4>1. (p + 2) - 1 = p + 1
        OBVIOUS
      <4> QED BY <2>3, <4>1, EndsAre
    <3>3. j # p + 1 \/ p + 2 \notin Conn!Ends(s)
      BY <2>3, <3>2, Breakers
    <3> QED BY <2>1, <3>1, <3>2, <3>3
  <2> QED BY <2>2, <2>3, <1>4 DEF Conn!Stray
<1> QED BY <1>3, <1>4
\* There is one place where the head of a text ends.
LEMMA OneHeadEnd ==
  ASSUME NEW s \in Seq(ConnChars), NEW h, Conn!HeadEnd(s, h)
  PROVE  /\ h \in Conn!Ends(s)
         /\ \A k : Conn!HeadEnd(s, k) => k = h
         /\ (\A j \in Conn!Stray(s) : j > h) => Conn!Verdict(s) = Conn!Deserves(s, h)
<1>1. h \in Conn!Ends(s)
  BY DEF Conn!HeadEnd, Conn!First
<1>2. ASSUME NEW k, Conn!HeadEnd(s, k) PROVE k = h
  <2>1. k \in Nat /\ h \in Nat
    BY <1>1, <1>2, EndsAre DEF Conn!HeadEnd, Conn!First
  <2>2. k <= h /\ h <= k
    BY <1>2 DEF Conn!HeadEnd, Conn!First
  <2> QED BY <2>1, <2>2
<1>3. ASSUME \A j \in Conn!Stray(s) : j > h PROVE Conn!Verdict(s) = Conn!Deserves(s, h)
  <2>1. (CHOOSE k \in Conn!Ends(s) : Conn!HeadEnd(s, k)) = h
    BY <1>1, <1>2
  <2> QED BY <1>1, <1>3, <2>1 DEF Conn!Verdict
<1> QED BY <1>1, <1>2, <1>3

\* Before the content the last character passed is no CR, and no head has ended.
LEMMA HeadSoFar ==
  ASSUME ConnTypes, AsReceived, InHead, m_check_state # "CONTENT"
  PROVE  /\ m_checked_idx # 0 => got[m_checked_idx] # CR
         /\ \A j \in Conn!Ends(got) : j <= m_start_line => ~ Conn!NoPath(got, j) /\ ~ Conn!HeadEnd(got, j)
         /\ got \in Seq(ConnChars) /\ m_start_line \in Nat /\ m_checked_idx \in Nat /\ m_start_line <= m_checked_idx
         /\ m_checked_idx <= Len(got) /\ Len(got) \in Nat
<1>1. /\ got \in Seq(ConnChars) /\ m_start_line \in Nat /\ m_checked_idx \in Nat /\ m_start_line <= m_checked_idx
      /\ m_checked_idx <= Len(got) /\ Len(got) \in Nat
  BY DEF ConnTypes, Indexes
<1>2. ASSUME m_checked_idx # 0 PROVE got[m_checked_idx] # CR
  <2>1. CASE m_checked_idx = m_start_line
    <3>1. m_start_line \in Conn!Ends(got)
      BY <1>2, <2>1 DEF InHead
    <3>2. got[m_start_line] = LF
      BY <1>1, <3>1, EndsAre
    <3> QED BY <2>1, <3>2, Breakers
  <2>2. CASE m_checked_idx # m_start_line
    <3>1. m_checked_idx \in m_start_line + 1 .. Len(got)
      BY <1>1, <2>2
    <3> QED BY <1>2, <3>1 DEF AsReceived
  <2> QED BY <2>1, <2>2
<1>3. ASSUME NEW j \in Conn!Ends(got), j <= m_start_line PROVE ~ Conn!NoPath(got, j)
  <2>1. m_check_state = "HEADER"
    BY <1>1, <1>3, EndsAre DEF InHead, ConnTypes, Requested
  <2>2. Conn!First(Conn!Ends(got), 3) /\ got[1] \in Conn!Paths
    BY <2>1 DEF InHead, ConnTypes, Requested
  <2>3. Conn!First(Conn!Ends(got), j) => j = 3
    <3>1. j \in Nat
      BY <1>1, EndsAre
    <3> QED BY <2>2, <3>1 DEF Conn!First
  <2> QED BY <1>1, <2>2, <2>3, Words
<1>4. ASSUME NEW j \in Conn!Ends(got), j <= m_start_line PROVE ~ Conn!HeadEnd(got, j)
  BY <1>3, <1>4 DEF InHead, Conn!HeadEnd, Conn!First
<1> QED BY <1>1, <1>2, <1>3, <1>4

\* A line that is taken before the content: it is the next, and what ends the head.
LEMMA NextLine ==
  ASSUME ConnTypes, AsReceived, InHead, m_check_state # "CONTENT", Conn!ParseLine = "OK"
  PROVE  LET k == Conn!LineEnd + 2 IN
         /\ \A j \in Conn!Ends(got) : j <= m_start_line \/ j >= k
         /\ \A j \in Conn!Stray(got) : j > k
         /\ k \in Conn!Ends(got) /\ k \in Nat /\ m_start_line + 2 <= k
         /\ Conn!HeadEnd(got, k) <=> k - 2 \in Conn!Ends(got) \/ Conn!NoPath(got, k)
         /\ k - 2 \in Conn!Ends(got) <=> m_start_line # 0 /\ k = m_start_line + 2
<1> DEFINE k == Conn!LineEnd + 2
<1>1. /\ k \in Conn!Ends(got) /\ m_checked_idx + 2 <= k /\ k <= Len(got) /\ k \in Nat
      /\ \A i \in m_checked_idx + 1 .. k - 2 : got[i] \notin {CR, LF}
  BY LineOk
<1> HIDE DEF k
<1>2. /\ m_checked_idx # 0 => got[m_checked_idx] # CR
      /\ got \in Seq(ConnChars) /\ m_start_line \in Nat /\ m_checked_idx \in Nat /\ m_start_line <= m_checked_idx
  BY HeadSoFar
<1>3. k - 2 \in Nat /\ m_checked_idx <= k - 2 /\ k - 2 <= Len(got) /\ (k - 2) + 2 = k
  BY <1>1, <1>2, EndsAre
<1>4. /\ \A j \in Conn!Ends(got) : j <= m_checked_idx \/ j >= (k - 2) + 2
      /\ (k - 2) + 2 \in Conn!Ends(got) => \A j \in Conn!Stray(got) : j <= m_checked_idx \/ j > (k - 2) + 2
  <2> DEFINE p == k - 2
  <2>1. p \in Nat /\ m_checked_idx <= p /\ p <= Len(got) /\ \A i \in m_checked_idx + 1 .. p : got[i] \notin {CR, LF}
    BY <1>1, <1>3
  <2> HIDE DEF p
  <2>2. /\ \A j \in Conn!Ends(got) : j <= m_checked_idx \/ j >= p + 2
        /\ p + 2 \in Conn!Ends(got) => \A j \in Conn!Stray(got) : j <= m_checked_idx \/ j > p + 2
    BY <1>2, <2>1, NextBreak
  <2> QED BY <2>2 DEF p
<1>5. \A j \in Conn!Ends(got) : j <= m_start_line \/ j >= k
  <2> TAKE j \in Conn!Ends(got)
  <2>1. j \in Nat /\ (j <= m_checked_idx \/ j >= k) /\ (j <= m_start_line \/ j > m_checked_idx)
    BY <1>2, <1>3, <1>4, EndsAre DEF InHead
  <2> QED BY <1>1, <1>2, <2>1
<1>6. \A j \in Conn!Stray(got) : j > k
  <2> TAKE j \in Conn!Stray(got)
  <2>1. j \in Nat /\ (j <= m_checked_idx \/ j > k) /\ j > m_checked_idx
    BY <1>1, <1>2, <1>3, <1>4 DEF InHead, Conn!Stray
  <2> QED BY <1>1, <1>2, <2>1
<1>7. m_start_line + 2 <= k
  BY <1>1, <1>2
<1>8. Conn!HeadEnd(got, k) <=> k - 2 \in Conn!Ends(got) \/ Conn!NoPath(got, k)
  <2>1. ASSUME NEW j \in Conn!Ends(got), j - 2 \in Conn!Ends(got) \/ Conn!NoPath(got, j) PROVE k <= j
    <3>1. ~ j <= m_start_line
      BY <2>1, HeadSoFar DEF InHead
    <3> QED BY <1>5, <3>1
  <2> QED BY <1>1, <2>1 DEF Conn!HeadEnd, Conn!First
<1>9. k - 2 \in Conn!Ends(got) <=> m_start_line # 0 /\ k = m_start_line + 2
  <2>1. ASSUME k - 2 \in Conn!Ends(got) PROVE m_start_line # 0 /\ k = m_start_line + 2
    <3>1. ~ (k - 2 >= k) /\ k - 2 >= 2
      BY <1>1, <1>2, <2>1, EndsAre
    <3>2. k - 2 <= m_start_line
      BY <1>5, <2>1, <3>1
    <3> QED BY <1>1, <1>2, <1>7, <3>1, <3>2
  <2>2. ASSUME m_start_line # 0, k = m_start_line + 2 PROVE k - 2 \in Conn!Ends(got)
    <3>1. m_start_line \in Conn!Ends(got)
      BY <2>2 DEF InHead
    <3>2. k - 2 = m_start_line
      BY <1>2, <2>2
    <3> QED BY <3>1, <3>2
  <2> QED BY <2>1, <2>2
<1> QED BY <1>1, <1>5, <1>6, <1>7, <1>8, <1>9 DEF k
\* The answer when a line is taken that ends the head.
LEMMA HeadIsAnswered ==
  ASSUME ConnTypes, NEW h, Conn!HeadEnd(got, h), ~ Conn!NoPath(got, h), \A j \in Conn!Stray(got) : j > h,
         Len(got) >= h + Conn!BodyLength(got, h), got[1] = m_url
  PROVE  Conn!Verdict(got) = Conn!Lookup(m_url)
<1>1. got \in Seq(ConnChars)
  BY DEF ConnTypes, Indexes
<1> QED BY <1>1, OneHeadEnd DEF Conn!Deserves

\* In the middle of process_read nothing is armed and nothing is answered yet.
LEMMA InProcessRead ==
  ASSUME ConnTypes, ReqInv, phase = "process_read"
  PROVE  AsReceived /\ InHead /\ InContent /\ armed = "spent"
BY DEF ConnTypes, OneCall, ReqInv, Parsing

\* What is before parse_line when a line has been taken is as received.
LEMMA TakenAsReceived ==
  ASSUME ConnTypes, AsReceived, Conn!ParseLine = "OK", m_read_buf' = Conn!Cut, m_checked_idx' = Conn!LineEnd + 2,
         m_start_line' = m_checked_idx', got' = got
  PROVE  AsReceived'
BY LineOk, Breakers DEF AsReceived

LEMMA ReqRequestLine ==
  ASSUME ConnTypes, ReqInv, Conn!ParseRequestLine \/ Conn!BadRequestLine
  PROVE  ReqInv'
<1> DEFINE k == Conn!LineEnd + 2
<1>1. /\ phase = "process_read" /\ Conn!ParseLine = "OK" /\ m_check_state = "REQUESTLINE" /\ got' = got
      /\ m_checked_idx' = k /\ m_start_line' = k /\ AsReceived' /\ armed' = armed
  <2>1. Conn!TakeLine
    BY DEF Conn!ParseRequestLine, Conn!BadRequestLine
  <2>2. phase = "process_read"
    BY <2>1 DEF Conn!TakeLine
  <2> QED BY <2>1, <2>2, InProcessRead, TakenAsReceived DEF Conn!TakeLine, Conn!ParseRequestLine, Conn!BadRequestLine
<1>2. InHead /\ AsReceived /\ armed = "spent" /\ m_start_line = 0
  BY <1>1, InProcessRead DEF InHead
<1>3. /\ \A j \in Conn!Ends(got) : j <= 0 \/ j >= k
      /\ \A j \in Conn!Stray(got) : j > k
      /\ k \in Conn!Ends(got) /\ k \in Nat
      /\ Conn!HeadEnd(got, k) <=> k - 2 \in Conn!Ends(got) \/ Conn!NoPath(got, k)
      /\ k - 2 \notin Conn!Ends(got)
  BY <1>1, <1>2, NextLine
<1>4. Conn!Line = SubSeq(got, 1, k - 2) /\ got \in Seq(ConnChars)
  <2>1. Conn!Line = SubSeq(got, m_start_line + 1, k - 2)
    BY <1>1, <1>2, LineOk
  <2>2. m_start_line + 1 = 1
    BY <1>2
  <2> QED BY <2>1, <2>2 DEF ConnTypes, Indexes
<1> HIDE DEF k
<1>5. Conn!First(Conn!Ends(got), k)
  <2>1. \A j \in Conn!Ends(got) : k <= j
    <3> TAKE j \in Conn!Ends(got)
    <3>1. j \in Nat /\ j >= 2
      BY <1>4, EndsAre
    <3> QED BY <1>3, <3>1
  <2> QED BY <1>3, <2>1 DEF Conn!First
<1>6. CASE Conn!ParseRequestLine
  <2>1. PICK file \in Conn!Paths : Conn!Line = << file >> /\ m_url' = file
    BY <1>6 DEF Conn!ParseRequestLine
  <2>2. k = 3 /\ got[1] = file
    <3>1. k - 2 \in Nat /\ k - 2 <= Len(got) /\ 1 \in Nat \ {0}
      BY <1>3, <1>4, EndsAre
    <3>2. /\ k - 2 = 1 => SubSeq(got, 1, k - 2) = << got[k - 2] >>
          /\ \A v : SubSeq(got, 1, k - 2) = << v >> => k - 2 = 1
      <4> DEFINE e == k - 2
      <4>1. e \in Nat /\ e <= Len(got) /\ got \in Seq(ConnChars)
        BY <1>4, <3>1
      <4> HIDE DEF e
      <4>2. (e = 1 => SubSeq(got, 1, e) = << got[e] >>) /\ \A v : SubSeq(got, 1, e) = << v >> => e = 1
        BY <3>1, <4>1, OneWord, SMTT(30)
      <4> QED BY <4>2 DEF e
    <3>3. k - 2 = 1
      BY <1>4, <2>1, <3>2
    <3>4. << got[1] >> = << file >>
      BY <1>4, <2>1, <3>2, <3>3
    <3> QED BY <1>3, <3>3, <3>4
  <2>3. m_check_state' = "HEADER" /\ phase' = "process_read" /\ m_content_length' = m_content_length
    BY <1>6 DEF Conn!ParseRequestLine, Conn!LoopsOn
  <2>4. InHead'
    <3>1. ~ Lengthy(got, k) /\ ~ Lengthy(got, 0)
      <4>1. ASSUME NEW i \in Conn!Ends(got), i + 3 \in Conn!Ends(got), i + 3 <= k PROVE FALSE
        <5>1. i \in Nat /\ k <= i
          BY <1>4, <1>5, <4>1, EndsAre DEF Conn!First
        <5> QED BY <1>3, <4>1, <5>1
      <4>2. ASSUME NEW i \in Conn!Ends(got), i + 3 <= 0 PROVE FALSE
        <5>1. i \in Nat
          BY <1>4, EndsAre
        <5> QED BY <4>2, <5>1
      <4> QED BY <4>1, <4>2 DEF Lengthy
    <3>2. m_content_length' = 0
      BY <1>1, <1>2, <2>3, <3>1 DEF InHead
    <3>3. \A j \in Conn!Ends(got) : j <= k => j - 2 \notin Conn!Ends(got)
      <4> SUFFICES ASSUME NEW j \in Conn!Ends(got), j <= k, j - 2 \in Conn!Ends(got) PROVE FALSE
        OBVIOUS
      <4>1. j \in Nat /\ k <= j
        BY <1>4, <1>5, EndsAre DEF Conn!First
      <4> QED BY <1>3, <4>1
    <3>4. \A j \in Conn!Ends(got) : j <= k \/ j > k
      <4> TAKE j \in Conn!Ends(got)
      <4>1. j \in Nat
        BY <1>4, EndsAre
      <4> QED BY <1>3, <4>1
    <3> QED BY <1>1, <1>3, <1>5, <2>1, <2>2, <2>3, <3>1, <3>2, <3>3, <3>4
            DEF InHead, Conn!Ends, Conn!Stray, Conn!First, Lengthy
  <2> QED BY <1>1, <1>2, <2>3, <2>4 DEF ReqInv, Parsing, InContent, Conn!VerdictOnRequest
<1>7. CASE Conn!BadRequestLine
  <2>1. Conn!NoPath(got, k)
    BY <1>4, <1>5, <1>7 DEF Conn!BadRequestLine, Conn!NoPath
  <2>2. Conn!Verdict(got) = "BAD_REQUEST"
    BY <1>3, <1>4, <2>1, OneHeadEnd DEF Conn!Deserves
  <2>3. ret' = "BAD_REQUEST" /\ phase' = "process_write"
    BY <1>7 DEF Conn!BadRequestLine, Conn!Answers
  <2>4. Conn!Verdict(got)' = Conn!Verdict(got)
    BY <1>1 DEF Conn!Verdict, Conn!Deserves, Conn!HeadEnd, Conn!NoPath, Conn!Ends, Conn!Stray, Conn!First, Conn!BodyLength
  <2> QED BY <1>1, <1>2, <2>2, <2>3, <2>4 DEF ReqInv, Parsing, Conn!VerdictOnRequest
<1> QED BY <1>6, <1>7
\* What the answered request deserves is a matter of what was received.
LEMMA SameText ==
  ASSUME got' = got
  PROVE  /\ Conn!Verdict(got)' = Conn!Verdict(got) /\ Conn!Ends(got)' = Conn!Ends(got)
         /\ Conn!Stray(got)' = Conn!Stray(got)
         /\ \A n : Lengthy(got, n)' = Lengthy(got, n) /\ Conn!HeadEnd(got, n)' = Conn!HeadEnd(got, n)
                   /\ Conn!NoPath(got, n)' = Conn!NoPath(got, n)
                   /\ Conn!First(Conn!Ends(got), n)' = Conn!First(Conn!Ends(got), n)
BY DEF Conn!Verdict, Conn!Deserves, Conn!HeadEnd, Conn!NoPath, Conn!Ends, Conn!Stray, Conn!First, Conn!BodyLength, Lengthy

\* A header that gives the length is the line just taken, or it came before.
LEMMA LengthLine ==
  ASSUME NEW s \in Seq(ConnChars), NEW t \in Conn!Ends(s), NEW k \in Conn!Ends(s), t + 2 <= k,
         \A j \in Conn!Ends(s) : j <= t \/ j >= k
  PROVE  Lengthy(s, k) <=> Lengthy(s, t) \/ SubSeq(s, t + 1, k - 2) = << Length >>
<1>1. t \in Nat /\ k \in Nat /\ k - 2 \in Nat /\ k - 2 <= Len(s) /\ t + 1 \in Nat \ {0} /\ s[t] = LF
  BY EndsAre, SMTT(30)
<1>2. /\ k - 2 = t + 1 => SubSeq(s, t + 1, k - 2) = << s[k - 2] >>
      /\ \A v : SubSeq(s, t + 1, k - 2) = << v >> => k - 2 = t + 1
  <2>1. PICK e \in Nat : e = k - 2
    BY <1>1
  <2>2. PICK f \in Nat \ {0} : f = t + 1
    BY <1>1
  <2>3. e <= Len(s)
    BY <1>1, <2>1
  <2>4. (e = f => SubSeq(s, f, e) = << s[e] >>) /\ \A v : SubSeq(s, f, e) = << v >> => e = f
    BY <2>3, OneWord, SMTT(30)
  <2> QED BY <2>1, <2>2, <2>4
<1>3. ASSUME NEW i \in Conn!Ends(s), i + 3 \in Conn!Ends(s), i + 3 <= k, s[i + 1] = Length
      PROVE  Lengthy(s, t) \/ SubSeq(s, t + 1, k - 2) = << Length >>
  <2>1. i \in Nat
    BY EndsAre
  <2>2. CASE i + 3 <= t
    BY <1>3, <2>2 DEF Lengthy
  <2>3. CASE ~ i + 3 <= t
    <3>1. i + 3 = k
      BY <1>1, <1>3, <2>1, <2>3
    <3>2. i <= t
      BY <1>1, <2>1, <3>1
    <3>3. i # t => t = i + 1
      BY <1>1, <2>1, <3>1, <3>2
    <3>4. i = t
      BY <1>1, <1>3, <3>3, Breakers
    <3>5. k - 2 = t + 1
      BY <1>1, <2>1, <3>1, <3>4
    <3>6. SubSeq(s, t + 1, k - 2) = << s[k - 2] >> /\ s[k - 2] = Length
      BY <1>2, <1>3, <3>4, <3>5
    <3> QED BY <3>6
  <2> QED BY <2>2, <2>3
<1>4. ASSUME SubSeq(s, t + 1, k - 2) = << Length >> PROVE Lengthy(s, k)
  <2>1. k - 2 = t + 1
    BY <1>2, <1>4
  <2>2. << s[k - 2] >> = << Length >>
    BY <1>2, <1>4, <2>1
  <2>3. s[t + 1] = Length /\ t + 3 = k
    BY <1>1, <2>1, <2>2
  <2> QED BY <1>1, <2>3 DEF Lengthy
<1>5. ASSUME Lengthy(s, t) PROVE Lengthy(s, k)
  <2>1. PICK i \in Conn!Ends(s) : i + 3 \in Conn!Ends(s) /\ i + 3 <= t /\ s[i + 1] = Length
    BY <1>5 DEF Lengthy
  <2>2. i + 3 <= k
    BY <1>1, <2>1, EndsAre
  <2> QED BY <2>1, <2>2 DEF Lengthy
<1> QED BY <1>3, <1>4, <1>5 DEF Lengthy

\* What was given of the length before the line just taken.
LEMMA LengthBefore ==
  ASSUME NEW s \in Seq(ConnChars), NEW t \in Conn!Ends(s), NEW k \in Conn!Ends(s), t < k,
         \A j \in Conn!Ends(s) : j <= t \/ j >= k
  PROVE  Lengthy(s, k - 1) <=> Lengthy(s, t)
<1>1. t \in Nat /\ k \in Nat
  BY EndsAre
<1>2. ASSUME NEW i \in Conn!Ends(s), i + 3 \in Conn!Ends(s)
      PROVE  i + 3 <= k - 1 <=> i + 3 <= t
  <2>1. i \in Nat /\ (i + 3 <= t \/ i + 3 >= k)
    BY <1>2, EndsAre
  <2> QED BY <1>1, <2>1
<1> QED BY <1>2 DEF Lengthy

LEMMA ReqHeader ==
  ASSUME ConnTypes, ReqInv, Conn!ParseHeader \/ Conn!HeadersEnd
  PROVE  ReqInv'
<1> DEFINE k == Conn!LineEnd + 2
           t == m_start_line
<1>1. /\ phase = "process_read" /\ Conn!ParseLine = "OK" /\ m_check_state = "HEADER" /\ got' = got
      /\ m_checked_idx' = k /\ m_start_line' = k /\ AsReceived' /\ armed' = armed /\ line_status' = "OK"
      /\ m_url' = m_url
  <2>1. Conn!TakeLine
    BY DEF Conn!ParseHeader, Conn!HeadersEnd
  <2>2. phase = "process_read"
    BY <2>1 DEF Conn!TakeLine
  <2> QED BY <2>1, <2>2, InProcessRead, TakenAsReceived DEF Conn!TakeLine, Conn!ParseHeader, Conn!HeadersEnd
<1>2. InHead /\ AsReceived /\ armed = "spent" /\ t \in Conn!Ends(got) /\ got[1] = m_url
      /\ Conn!First(Conn!Ends(got), 3)
  BY <1>1, InProcessRead DEF InHead
<1>3. /\ \A j \in Conn!Ends(got) : j <= t \/ j >= k
      /\ \A j \in Conn!Stray(got) : j > k
      /\ k \in Conn!Ends(got) /\ k \in Nat /\ t + 2 <= k
      /\ Conn!HeadEnd(got, k) <=> k - 2 \in Conn!Ends(got) \/ Conn!NoPath(got, k)
      /\ k - 2 \in Conn!Ends(got) <=> t # 0 /\ k = t + 2
  BY <1>1, <1>2, NextLine
<1>4. /\ Conn!Line = SubSeq(got, t + 1, k - 2) /\ got \in Seq(ConnChars) /\ m_url \in Conn!Paths
      /\ t \in Nat /\ t >= 2
  <2>1. Conn!Line = SubSeq(got, t + 1, k - 2)
    BY <1>1, <1>2, LineOk
  <2>2. got \in Seq(ConnChars) /\ m_url \in Conn!Paths
    BY <1>1 DEF ConnTypes, Indexes, Requested
  <2> QED BY <1>2, <2>1, <2>2, EndsAre
<1> HIDE DEF k, t
<1>5. ~ Conn!NoPath(got, k)
  <2>1. Conn!First(Conn!Ends(got), k) => k = 3
    BY <1>2, <1>3 DEF Conn!First
  <2> QED BY <1>2, <1>3, <1>4, <2>1, Words
<1>6. m_content_length = IF Lengthy(got, t) THEN CONTENT_LENGTH ELSE 0
  BY <1>1, <1>2 DEF InHead, t
<1>7. Conn!Line = <<>> <=> k = t + 2
  <2> DEFINE e == k - 2  f == t + 1
  <2>1. e \in Nat /\ f \in Nat \ {0} /\ e + 1 >= f /\ e <= Len(got)
    BY <1>3, <1>4, EndsAre
  <2> HIDE DEF e, f
  <2>2. \A n \in f .. e : got[n] \in ConnChars
    BY <1>4, <2>1
  <2>3. Len(SubSeq(got, f, e)) = IF f <= e THEN e - f + 1 ELSE 0
    BY <2>1, <2>2, SubSeqProperties
  <2>4. SubSeq(got, f, e) = <<>> <=> e + 1 = f
    <3> DEFINE q == SubSeq(got, f, e)
    <3>1. q \in Seq(ConnChars)
      BY <2>1, <2>2, SubSeqProperties
    <3>2. q = <<>> <=> Len(q) = 0
      <4> HIDE DEF q
      <4> QED BY <3>1
    <3>3. Len(q) = 0 <=> e + 1 = f
      BY <2>1, <2>3
    <3> QED BY <3>2, <3>3
  <2>5. e + 1 = f <=> k = t + 2
    BY <1>3, <1>4 DEF e, f
  <2> QED BY <1>4, <2>4, <2>5 DEF e, f
<1>8. CASE Conn!ParseHeader
  <2>1. /\ Conn!Line # <<>> /\ m_check_state' = "HEADER" /\ phase' = "process_read"
        /\ m_content_length' = IF Conn!Line = << Length >> THEN CONTENT_LENGTH ELSE m_content_length
    BY <1>1, <1>8 DEF Conn!ParseHeader, Conn!LoopsOn
  <2>2. m_content_length' = IF Lengthy(got, k) THEN CONTENT_LENGTH ELSE 0
    BY <1>2, <1>3, <1>4, <1>6, <2>1, LengthLine
  <2>3. \A j \in Conn!Ends(got) : j <= k => j - 2 \notin Conn!Ends(got)
    <3> SUFFICES ASSUME NEW j \in Conn!Ends(got), j <= k PROVE j - 2 \notin Conn!Ends(got)
      OBVIOUS
    <3>1. j \in Nat
      BY <1>4, EndsAre
    <3>2. CASE j <= t
      BY <1>1, <1>2, <3>2 DEF InHead, t
    <3>3. CASE ~ j <= t
      <4>1. j = k
        BY <1>3, <3>1, <3>3
      <4> QED BY <1>3, <1>7, <2>1, <4>1
    <3> QED BY <3>2, <3>3
  <2>4. \A j \in Conn!Ends(got) : j <= k \/ j > k
    <3> TAKE j \in Conn!Ends(got)
    <3>1. j \in Nat
      BY <1>4, EndsAre
    <3> QED BY <1>3, <3>1
  <2>5. InHead'
    BY <1>1, <1>2, <1>3, <2>1, <2>2, <2>3, <2>4 DEF InHead, Conn!Ends, Conn!Stray, Conn!First, Lengthy
  <2> QED BY <1>1, <1>2, <2>1, <2>5 DEF ReqInv, Parsing, InContent, Conn!VerdictOnRequest
<1>9. CASE Conn!HeadersEnd
  <2>1. k = t + 2 /\ Conn!HeadEnd(got, k)
    <3>1. Conn!Line = <<>>
      BY <1>9 DEF Conn!HeadersEnd
    <3> QED BY <1>3, <1>4, <1>7, <3>1
  <2>2. Lengthy(got, k - 1) <=> Lengthy(got, t)
    <3>1. t < k
      BY <1>3, <1>4
    <3> QED BY <1>2, <1>3, <1>4, <3>1, LengthBefore
  <2>3. CASE m_content_length # 0
    <3>1. m_check_state' = "CONTENT" /\ phase' = "process_read" /\ m_content_length' = m_content_length
      BY <1>9, <2>3 DEF Conn!HeadersEnd, Conn!LoopsOn
    <3>2. Lengthy(got, k - 1) /\ m_content_length = CONTENT_LENGTH
      BY <1>6, <2>2, <2>3
    <3>3. PICK h \in Nat : h = k
      BY <1>3
    <3>4. HeadAt(h)'
      BY <1>1, <1>2, <1>3, <1>5, <2>1, <3>2, <3>3, SameText DEF HeadAt
    <3>5. InContent'
      <4>1. h \in 1 .. m_checked_idx'
        BY <1>1, <1>3, <1>4, <3>3
      <4> QED BY <3>1, <3>2, <3>4, <4>1, ConnConstants DEF InContent
    <3> QED BY <1>1, <1>2, <3>1, <3>5 DEF ReqInv, Parsing, InHead, Conn!VerdictOnRequest
  <2>4. CASE m_content_length = 0
    <3>1. phase' = "process_write" /\ ret' = Conn!Lookup(m_url)
      BY <1>9, <2>4 DEF Conn!HeadersEnd, Conn!DoRequest, Conn!Answers
    <3>2. ~ Lengthy(got, k - 1)
      BY <1>6, <2>2, <2>4, ConnConstants
    <3>3. Conn!BodyLength(got, k) = 0 /\ Len(got) >= k + 0
      BY <1>3, <1>4, <3>2, Words, EndsAre
    <3>4. Conn!Verdict(got) = Conn!Lookup(m_url)
      BY <1>2, <1>3, <1>5, <2>1, <3>3, HeadIsAnswered
    <3>5. ret' = Conn!Verdict(got)'
      BY <1>1, <3>1, <3>4, SameText
    <3> QED BY <1>1, <1>2, <3>1, <3>5 DEF ReqInv, Parsing, Conn!VerdictOnRequest
  <2> QED BY <2>3, <2>4
<1> QED BY <1>8, <1>9
\* In the content: what is answered once there is enough, and until then.
LEMMA ContentIsAnswered ==
  ASSUME ConnTypes, m_check_state = "CONTENT", NEW h \in Nat, HeadAt(h)
  PROVE  /\ Len(got) >= h + CONTENT_LENGTH => Conn!Verdict(got) = Conn!Lookup(m_url)
         /\ Len(got) < h + CONTENT_LENGTH => Conn!Verdict(got) = "NO_REQUEST"
<1>1. got \in Seq(ConnChars)
  BY DEF ConnTypes, Indexes
<1>2. Conn!BodyLength(got, h) = CONTENT_LENGTH
  BY <1>1, Words DEF HeadAt
<1>3. Conn!Verdict(got) = Conn!Deserves(got, h) /\ got[1] = m_url /\ ~ Conn!NoPath(got, h)
  BY <1>1, OneHeadEnd DEF HeadAt
<1> QED BY <1>1, <1>2, <1>3, ConnConstants DEF Conn!Deserves

\* One turn of parse_content, from what has been passed.
LEMMA ContentTurn ==
  ASSUME ConnTypes, m_check_state = "CONTENT", m_check_state' = m_check_state, m_content_length' = m_content_length,
         m_url' = m_url, got' = got, armed = "spent", armed' = armed, AsReceived',
         NEW h \in 1 .. m_checked_idx, HeadAt(h), m_content_length = CONTENT_LENGTH,
         NEW n \in Nat, m_checked_idx <= n, m_checked_idx' = n, Conn!ParseContent(n)
  PROVE  ReqInv'
<1>1. got \in Seq(ConnChars) /\ Len(m_read_buf) = Len(got) /\ m_checked_idx \in Nat /\ h \in Nat /\ h <= n
  BY DEF ConnTypes, Indexes
<1>2. CASE Conn!HasContent(n)
  <2>1. Len(got) >= h + CONTENT_LENGTH
    BY <1>1, <1>2, ConnConstants DEF Conn!HasContent, Conn!m_read_idx
  <2>2. Conn!Verdict(got) = Conn!Lookup(m_url)
    BY <1>1, <2>1, ContentIsAnswered
  <2>3. phase' = "process_write" /\ ret' = Conn!Lookup(m_url)
    BY <1>2 DEF Conn!ParseContent, Conn!DoRequest, Conn!Answers
  <2> QED BY <2>2, <2>3, SameText DEF ReqInv, Parsing, Conn!VerdictOnRequest
<1>3. CASE ~ Conn!HasContent(n)
  <2>1. Len(got) < n + CONTENT_LENGTH
    BY <1>1, <1>3, ConnConstants DEF Conn!HasContent, Conn!m_read_idx
  <2>2. phase' = "process_read"
    BY <1>3 DEF Conn!ParseContent, Conn!LoopsOn
  <2>3. HeadAt(h)'
    BY <1>1, <2>1, SameText DEF HeadAt
  <2>4. InContent'
    <3>1. h \in 1 .. m_checked_idx'
      BY <1>1
    <3> QED BY <2>3, <3>1, ConnConstants DEF InContent
  <2> QED BY <2>2, <2>4 DEF ReqInv, Parsing, InHead, Conn!VerdictOnRequest
<1> QED BY <1>2, <1>3

LEMMA ReqContent ==
  ASSUME ConnTypes, ReqInv, Conn!Content \/ Conn!ContentLine
  PROVE  ReqInv'
<1>1. phase = "process_read" /\ m_check_state = "CONTENT" /\ armed' = armed
      /\ UNCHANGED << m_check_state, m_content_length, m_url, got >>
  BY DEF Conn!Content, Conn!ContentLine, Conn!TakesContent
<1>2. AsReceived /\ InContent /\ armed = "spent"
  BY <1>1, InProcessRead
<1>3. PICK h \in 1 .. m_checked_idx : HeadAt(h)
  BY <1>1, <1>2 DEF InContent
<1>4. m_content_length = CONTENT_LENGTH /\ m_checked_idx \in Nat
  BY <1>1, <1>2 DEF InContent, ConnTypes, Indexes
<1>5. CASE Conn!Content
  <2>1. PICK n \in Nat : n = m_checked_idx
    BY <1>4
  <2>2. Conn!ParseContent(n) /\ m_checked_idx' = n /\ m_start_line' = m_checked_idx /\ m_read_buf' = m_read_buf
    BY <1>5, <2>1 DEF Conn!Content
  <2>3. AsReceived'
    <3>1. ASSUME NEW i \in m_start_line' + 1 .. Len(got) PROVE i \in m_start_line + 1 .. Len(got)
      BY <2>2 DEF ConnTypes, Indexes
    <3> QED BY <1>1, <1>2, <2>1, <2>2, <3>1 DEF AsReceived
  <2>4. m_checked_idx <= n
    BY <1>4, <2>1
  <2> QED BY <1>1, <1>2, <1>3, <1>4, <2>2, <2>3, <2>4, ContentTurn
<1>6. CASE Conn!ContentLine
  <2>1. Conn!ParseLine = "OK" /\ m_read_buf' = Conn!Cut /\ m_checked_idx' = Conn!LineEnd + 2
        /\ m_start_line' = m_checked_idx' /\ Conn!ParseContent(Conn!LineEnd + 2)
    BY <1>6 DEF Conn!ContentLine
  <2>2. AsReceived'
    BY <1>1, <1>2, <2>1, TakenAsReceived
  <2>3. Conn!LineEnd + 2 \in Nat /\ m_checked_idx + 2 <= Conn!LineEnd + 2
    BY <1>2, <2>1, LineOk
  <2>4. PICK n \in Nat : n = Conn!LineEnd + 2
    BY <2>3
  <2>5. m_checked_idx <= n
    BY <1>4, <2>3, <2>4
  <2> QED BY <1>1, <1>2, <1>3, <1>4, <2>1, <2>2, <2>4, <2>5, ContentTurn
<1> QED BY <1>5, <1>6

\* When parse_line has no line, the text deserves no answer yet, or never.
LEMMA NoLine ==
  ASSUME ConnTypes, AsReceived, InHead, m_check_state # "CONTENT", Conn!ParseLine # "OK"
  PROVE  /\ \A j \in Conn!Stray(got) : j > Conn!Stop
         /\ \A k \in Conn!Ends(got) : k <= m_start_line \/ k > Conn!Stop
         /\ Conn!Verdict(got) = "NO_REQUEST"
<1> DEFINE p == Conn!Stop
<1>1. /\ p \in Nat /\ m_checked_idx <= p /\ p <= Len(got) /\ \A i \in m_checked_idx + 1 .. p : got[i] \notin {CR, LF}
      /\ p < Len(got) => got[p + 1] \in {CR, LF}
  BY StopAt
<1>2. /\ m_checked_idx # 0 => got[m_checked_idx] # CR
      /\ got \in Seq(ConnChars) /\ m_start_line \in Nat /\ m_checked_idx \in Nat /\ m_start_line <= m_checked_idx
      /\ Len(got) \in Nat
      /\ \A j \in Conn!Ends(got) : j <= m_start_line => ~ Conn!HeadEnd(got, j)
  BY HeadSoFar
<1>3. p < Len(got) /\ got[p + 1] = CR /\ p + 1 < Len(got) => got[p + 2] # LF
  <2> SUFFICES ASSUME p < Len(got), got[p + 1] = CR, p + 1 < Len(got) PROVE got[p + 2] # LF
    OBVIOUS
  <2>1. p \in m_checked_idx .. Len(got) - 1 /\ p + 1 \in m_checked_idx .. Len(got) - 1 /\ (p + 1) + 1 = p + 2
    BY <1>1, <1>2
  <2>2. Conn!Char(p) = got[p + 1] /\ Conn!Char(p + 1) = got[p + 2]
    BY <2>1, StopAt
  <2>3. Conn!m_read_idx = Len(got)
    BY DEF Conn!m_read_idx, ConnTypes, Indexes
  <2>4. Conn!Stop # Conn!m_read_idx /\ Conn!Char(Conn!Stop) = CR /\ Conn!Stop + 1 # Conn!m_read_idx
    BY <1>1, <1>2, <2>2, <2>3
  <2> QED BY <2>2, <2>4 DEF Conn!ParseLine
<1> HIDE DEF p
<1>4. /\ \A j \in Conn!Ends(got) : j <= m_checked_idx \/ j >= p + 2
      /\ \A j \in Conn!Stray(got) : j <= m_checked_idx \/ j > p
  BY <1>1, <1>2, NextBreak
<1>5. \A j \in Conn!Stray(got) : j > p
  <2> TAKE j \in Conn!Stray(got)
  <2>1. j \in Nat /\ j > m_checked_idx
    BY <1>2 DEF InHead, Conn!Stray
  <2> QED BY <1>2, <1>4, <2>1
<1>6. \A k \in Conn!Ends(got) : k \in Nat /\ (k <= m_start_line \/ k >= p + 2)
  <2> TAKE k \in Conn!Ends(got)
  <2>1. k \in Nat /\ (k <= m_start_line \/ k > m_checked_idx)
    BY <1>2, EndsAre DEF InHead
  <2> QED BY <1>2, <1>4, <2>1
<1>7. ASSUME NEW k \in Conn!Ends(got), Conn!HeadEnd(got, k) PROVE \E j \in Conn!Stray(got) : ~ j > k
  <2>1. k \in Nat /\ k >= p + 2 /\ k <= Len(got) /\ p < Len(got) /\ p + 1 < Len(got)
    <3>1. ~ k <= m_start_line
      BY <1>2, <1>7
    <3> QED BY <1>1, <1>2, <1>6, <3>1, EndsAre
  <2>2. CASE got[p + 1] = CR
    <3>1. got[p + 2] # LF
      BY <1>3, <2>1, <2>2
    <3>2. p + 2 \in Conn!Stray(got)
      <4>1. p + 2 \in 2 .. Len(got) /\ (p + 2) - 1 = p + 1
        BY <1>1, <1>2, <2>1
      <4> QED BY <2>2, <3>1, <4>1 DEF Conn!Stray
    <3>3. ~ p + 2 > k
      BY <1>1, <2>1
    <3> QED BY <3>2, <3>3
  <2>3. CASE got[p + 1] # CR
    <3>1. got[p + 1] = LF
      BY <1>1, <2>1, <2>3
    <3>2. p + 1 \notin Conn!Ends(got)
      <4> SUFFICES ASSUME p + 1 \in Conn!Ends(got) PROVE FALSE
        OBVIOUS
      <4>1. p + 1 <= m_start_line \/ p + 1 >= p + 2
        BY <1>6
      <4> QED BY <1>1, <1>2, <4>1
    <3>3. p + 1 \in Conn!Stray(got)
      <4>1. p + 1 \in 1 .. Len(got)
        BY <1>1, <1>2, <2>1
      <4> QED BY <3>1, <3>2, <4>1 DEF Conn!Stray
    <3>4. ~ p + 1 > k
      BY <1>1, <2>1
    <3> QED BY <3>3, <3>4
  <2> QED BY <2>2, <2>3
<1>8. \A k \in Conn!Ends(got) : k <= m_start_line \/ k > p
  BY <1>1, <1>6
<1>9. Conn!Verdict(got) = "NO_REQUEST"
  BY <1>7 DEF Conn!Verdict
<1> QED BY <1>5, <1>8, <1>9 DEF p

LEMMA ReqNoRequest == ASSUME ConnTypes, ReqInv, Conn!NoRequest PROVE ReqInv'
<1>1. /\ phase = "process_read" /\ ~ Conn!TakesContent /\ Conn!ParseLine # "OK" /\ phase' = "main"
      /\ m_checked_idx' = Conn!Stop
      /\ UNCHANGED << m_read_buf, m_start_line, m_check_state, m_url, m_content_length, got >>
  BY DEF Conn!NoRequest
<1>2. AsReceived /\ InHead /\ InContent
  BY <1>1, InProcessRead
<1>3. /\ Conn!Stop \in Nat /\ m_checked_idx <= Conn!Stop /\ Conn!Stop <= Len(got) /\ m_checked_idx \in Nat
      /\ m_start_line \in Nat /\ m_start_line <= m_checked_idx /\ got \in Seq(ConnChars)
      /\ \A i \in m_checked_idx + 1 .. Conn!Stop : got[i] \notin {CR, LF}
  BY <1>2, StopAt DEF ConnTypes, Indexes
<1>4. AsReceived'
  <2>1. ASSUME Conn!Stop # 0 PROVE m_read_buf[Conn!Stop] \notin {CR, LF}
    <3>1. CASE Conn!Stop = m_checked_idx
      BY <1>2, <2>1, <3>1 DEF AsReceived
    <3>2. CASE Conn!Stop # m_checked_idx
      <4>1. Conn!Stop \in m_checked_idx + 1 .. Conn!Stop /\ Conn!Stop \in m_start_line + 1 .. Len(got)
        BY <1>3, <3>2
      <4> QED BY <1>2, <1>3, <4>1 DEF AsReceived
    <3> QED BY <3>1, <3>2
  <2> QED BY <1>1, <1>2, <2>1 DEF AsReceived
<1>5. CASE m_check_state # "CONTENT"
  <2>1. /\ \A j \in Conn!Stray(got) : j > Conn!Stop
        /\ \A k \in Conn!Ends(got) : k <= m_start_line \/ k > Conn!Stop
        /\ Conn!Verdict(got) = "NO_REQUEST"
    BY <1>1, <1>2, <1>5, NoLine
  <2>2. InHead'
    BY <1>1, <1>2, <1>5, <2>1, SameText DEF InHead, Lengthy, Conn!Ends, Conn!First
  <2> QED BY <1>1, <1>4, <1>5, <2>1, <2>2, SameText DEF ReqInv, InContent, Conn!VerdictOnRequest
<1>6. CASE m_check_state = "CONTENT"
  <2>1. PICK h \in 1 .. m_checked_idx : HeadAt(h)
    BY <1>2, <1>6 DEF InContent
  <2>2. h \in Nat /\ h \in 1 .. Conn!Stop /\ h <= Conn!Stop
    BY <1>3
  <2>3. HeadAt(h)'
    BY <1>1, <2>1, <2>2, SameText DEF HeadAt
  <2>4. InContent'
    BY <1>1, <1>2, <1>6, <2>2, <2>3 DEF InContent
  <2>5. Conn!HeadEnd(got, Conn!Stop) => Conn!Verdict(got) = "NO_REQUEST"
    <3> SUFFICES ASSUME Conn!HeadEnd(got, Conn!Stop) PROVE Conn!Verdict(got) = "NO_REQUEST"
      OBVIOUS
    <3>1. Conn!Stop = h
      BY <1>3, <2>1, OneHeadEnd DEF HeadAt
    <3>2. m_checked_idx = h
      BY <1>3, <2>2, <3>1
    <3>3. Len(got) < h + CONTENT_LENGTH
      BY <1>1, <1>6, <2>1, <3>2 DEF HeadAt, Conn!TakesContent
    <3> QED BY <1>6, <2>1, <2>2, <3>3, ContentIsAnswered
  <2>6. Conn!VerdictOnRequest'
    <3>1. PICK n \in Nat : n = Conn!Stop
      BY <1>3
    <3>2. Conn!HeadEnd(got, n)' <=> Conn!HeadEnd(got, n)
      BY <1>1, SameText
    <3> QED BY <1>1, <1>6, <2>5, <3>1, <3>2, SameText DEF Conn!VerdictOnRequest, Conn!ContentPassed
  <2> QED BY <1>1, <1>4, <1>6, <2>4, <2>6 DEF ReqInv, InHead
<1> QED BY <1>5, <1>6
\* More text leaves as it is what its beginning says.
LEMMA Longer ==
  ASSUME NEW s \in Seq(ConnChars), NEW x \in Seq(ConnChars), NEW u \in Seq(ConnChars), u = s \o x
  PROVE  /\ Len(s) \in Nat /\ Len(u) \in Nat /\ Len(s) <= Len(u) /\ \A n \in 1 .. Len(s) : u[n] = s[n]
         /\ \A k \in Nat : k <= Len(s) =>
              /\ k \in Conn!Ends(u) <=> k \in Conn!Ends(s)
              /\ k \in Conn!Stray(u) <=> k \in Conn!Stray(s)
              /\ Conn!First(Conn!Ends(u), k) <=> Conn!First(Conn!Ends(s), k)
              /\ Lengthy(u, k) <=> Lengthy(s, k)
         /\ \A k \in Conn!Ends(s) :
              /\ Conn!NoPath(u, k) <=> Conn!NoPath(s, k)
              /\ Conn!HeadEnd(u, k) <=> Conn!HeadEnd(s, k)
<1>1. Len(s) \in Nat /\ Len(u) \in Nat /\ Len(s) <= Len(u) /\ \A n \in 1 .. Len(s) : u[n] = s[n]
  BY ConcatProperties
<1>2. \A k \in Nat : k <= Len(s) => (k \in Conn!Ends(u) <=> k \in Conn!Ends(s))
  <2> SUFFICES ASSUME NEW k \in Nat, k <= Len(s) PROVE k \in Conn!Ends(u) <=> k \in Conn!Ends(s)
    OBVIOUS
  <2>1. k \in 2 .. Len(s) => u[k - 1] = s[k - 1] /\ u[k] = s[k]
    <3> SUFFICES ASSUME k \in 2 .. Len(s) PROVE u[k - 1] = s[k - 1] /\ u[k] = s[k]
      OBVIOUS
    <3>1. k - 1 \in 1 .. Len(s) /\ k \in 1 .. Len(s)
      BY <1>1
    <3> QED BY <1>1, <3>1
  <2>2. k \in 2 .. Len(u) <=> k \in 2 .. Len(s)
    BY <1>1
  <2> QED BY <2>1, <2>2 DEF Conn!Ends
<1>3. \A k \in Nat : k <= Len(s) => (k \in Conn!Stray(u) <=> k \in Conn!Stray(s))
  <2> SUFFICES ASSUME NEW k \in Nat, k <= Len(s) PROVE k \in Conn!Stray(u) <=> k \in Conn!Stray(s)
    OBVIOUS
  <2>1. (k \in 2 .. Len(u) <=> k \in 2 .. Len(s)) /\ (k \in 1 .. Len(u) <=> k \in 1 .. Len(s))
    BY <1>1
  <2>2. k \in 2 .. Len(s) => u[k - 1] = s[k - 1] /\ u[k] = s[k]
    <3> SUFFICES ASSUME k \in 2 .. Len(s) PROVE u[k - 1] = s[k - 1] /\ u[k] = s[k]
      OBVIOUS
    <3>1. k - 1 \in 1 .. Len(s) /\ k \in 1 .. Len(s)
      BY <1>1
    <3> QED BY <1>1, <3>1
  <2>3. k \in 1 .. Len(s) => u[k] = s[k]
    BY <1>1
  <2> QED BY <1>2, <2>1, <2>2, <2>3 DEF Conn!Stray
<1>4. \A k \in Conn!Ends(s) : k \in Nat /\ k <= Len(s) /\ k \in Conn!Ends(u)
  BY <1>2, EndsAre
<1>5. \A k \in Conn!Ends(u) : k \in Nat /\ k >= 2
  BY EndsAre
<1>6. \A k \in Nat : k <= Len(s) => (Conn!First(Conn!Ends(u), k) <=> Conn!First(Conn!Ends(s), k))
  <2> SUFFICES ASSUME NEW k \in Nat, k <= Len(s)
               PROVE  Conn!First(Conn!Ends(u), k) <=> Conn!First(Conn!Ends(s), k)
    OBVIOUS
  <2>1. ASSUME NEW j \in Conn!Ends(u), j \notin Conn!Ends(s) PROVE k <= j
    <3>1. j \in Nat /\ ~ j <= Len(s)
      BY <1>2, <1>5, <2>1
    <3> QED BY <1>1, <3>1
  <2> QED BY <1>2, <1>4, <2>1 DEF Conn!First
<1>7. \A k \in Nat : k <= Len(s) => (Lengthy(u, k) <=> Lengthy(s, k))
  <2> SUFFICES ASSUME NEW k \in Nat, k <= Len(s) PROVE Lengthy(u, k) <=> Lengthy(s, k)
    OBVIOUS
  <2>1. ASSUME NEW i \in Nat, i + 3 <= k
        PROVE  /\ i \in Conn!Ends(u) <=> i \in Conn!Ends(s)
               /\ i + 3 \in Conn!Ends(u) <=> i + 3 \in Conn!Ends(s)
               /\ u[i + 1] = s[i + 1]
    <3>1. i <= Len(s) /\ i + 3 \in Nat /\ i + 3 <= Len(s) /\ i + 1 \in 1 .. Len(s)
      BY <1>1, <2>1
    <3> QED BY <1>1, <1>2, <3>1
  <2> QED BY <1>4, <1>5, <2>1 DEF Lengthy
<1>8. ASSUME NEW k \in Conn!Ends(s) PROVE Conn!NoPath(u, k) <=> Conn!NoPath(s, k)
  <2>1. 1 \in 1 .. Len(s)
    BY <1>1, <1>4, <1>5
  <2>2. u[1] = s[1]
    BY <1>1, <2>1
  <2> QED BY <1>4, <1>6, <2>2, Words
<1>9. ASSUME NEW k \in Conn!Ends(s) PROVE Conn!HeadEnd(u, k) <=> Conn!HeadEnd(s, k)
  <2>1. ASSUME NEW j \in Conn!Ends(s)
        PROVE  (j - 2 \in Conn!Ends(u) \/ Conn!NoPath(u, j)) <=> (j - 2 \in Conn!Ends(s) \/ Conn!NoPath(s, j))
    <3>1. j - 2 \in Nat /\ j - 2 <= Len(s)
      BY <1>1, <1>4, EndsAre
    <3> QED BY <1>2, <1>8, <3>1
  <2>2. ASSUME NEW j \in Conn!Ends(u), j \notin Conn!Ends(s) PROVE k <= j
    <3>1. j \in Nat /\ ~ j <= Len(s) /\ k \in Nat /\ k <= Len(s)
      BY <1>2, <1>4, <1>5, <2>2
    <3> QED BY <1>1, <3>1
  <2> QED BY <1>4, <2>1, <2>2 DEF Conn!HeadEnd, Conn!First
<1> QED BY <1>1, <1>2, <1>3, <1>6, <1>7, <1>8, <1>9

LEMMA ReqRead == ASSUME ConnTypes, ConnTypes', ReqInv, Conn!Read PROVE ReqInv'
<1>1. /\ armed = "in" /\ phase' = "process_read" /\ armed' = "spent" /\ line_status' = "OK"
      /\ UNCHANGED << m_checked_idx, m_start_line, m_check_state, m_url, m_content_length >>
  BY DEF Conn!Read, Conn!CanRead
<1>2. AsReceived /\ InHead /\ InContent
  BY <1>1 DEF ReqInv, Parsing
<1>3. PICK x : x \in Seq(ConnChars) /\ got' = got \o x /\ m_read_buf' = m_read_buf \o x
  <2>1. PICK n \in 1 .. Len(coming) :
          /\ m_read_buf' = m_read_buf \o SubSeq(coming, 1, n)
          /\ got' = got \o SubSeq(coming, 1, n)
    BY DEF Conn!Read
  <2>2. SubSeq(coming, 1, n) \in Seq(ConnChars)
    <3>1. coming \in Seq(ConnChars) /\ n \in 0 .. Len(coming) /\ 1 \in Nat \ {0}
      BY DEF ConnTypes, Indexes
    <3> QED BY <3>1, ConnSubSeq
  <2> QED BY <2>1, <2>2
<1>4. /\ got \in Seq(ConnChars) /\ m_read_buf \in Seq(ConnChars) /\ Len(m_read_buf) = Len(got) /\ Len(got) \in Nat
      /\ m_start_line \in Nat /\ m_checked_idx \in Nat /\ m_start_line <= m_checked_idx /\ m_checked_idx <= Len(got)
      /\ got' \in Seq(ConnChars)
  BY DEF ConnTypes, Indexes
<1>5. /\ Len(got') \in Nat /\ Len(got) <= Len(got') /\ \A n \in 1 .. Len(got) : got'[n] = got[n]
      /\ \A k \in Nat : k <= Len(got) =>
           /\ k \in Conn!Ends(got') <=> k \in Conn!Ends(got)
           /\ k \in Conn!Stray(got') <=> k \in Conn!Stray(got)
           /\ Conn!First(Conn!Ends(got'), k) <=> Conn!First(Conn!Ends(got), k)
           /\ Lengthy(got', k) <=> Lengthy(got, k)
      /\ \A k \in Conn!Ends(got) :
           /\ Conn!NoPath(got', k) <=> Conn!NoPath(got, k)
           /\ Conn!HeadEnd(got', k) <=> Conn!HeadEnd(got, k)
  <2> DEFINE Agrees(s, u) ==
          /\ Len(u) \in Nat /\ Len(s) <= Len(u) /\ \A n \in 1 .. Len(s) : u[n] = s[n]
          /\ \A k \in Nat : k <= Len(s) =>
               /\ k \in Conn!Ends(u) <=> k \in Conn!Ends(s)
               /\ k \in Conn!Stray(u) <=> k \in Conn!Stray(s)
               /\ Conn!First(Conn!Ends(u), k) <=> Conn!First(Conn!Ends(s), k)
               /\ Lengthy(u, k) <=> Lengthy(s, k)
          /\ \A k \in Conn!Ends(s) :
               /\ Conn!NoPath(u, k) <=> Conn!NoPath(s, k)
               /\ Conn!HeadEnd(u, k) <=> Conn!HeadEnd(s, k)
  <2>1. ASSUME NEW s \in Seq(ConnChars), NEW u \in Seq(ConnChars), u = s \o x PROVE Agrees(s, u)
    BY <1>3, <2>1, Longer, ZenonT(30)
  <2> HIDE DEF Agrees
  <2>2. Agrees(got, got')
    BY <1>3, <1>4, <2>1
  <2> QED BY <2>2 DEF Agrees
<1>6. AsReceived'
  <2>1. Len(got') = Len(got) + Len(x) /\ Len(x) \in Nat
        /\ \A i \in 1 .. Len(got) + Len(x) : got'[i] = IF i <= Len(got) THEN got[i] ELSE x[i - Len(got)]
    BY <1>3, <1>4, ConcatProperties
  <2>2. \A i \in 1 .. Len(got) + Len(x) : m_read_buf'[i] = IF i <= Len(got) THEN m_read_buf[i] ELSE x[i - Len(got)]
    BY <1>3, <1>4, ConcatProperties
  <2>3. ASSUME NEW i \in m_start_line + 1 .. Len(got') PROVE m_read_buf'[i] = got'[i]
    <3>1. i \in 1 .. Len(got) + Len(x) /\ (i <= Len(got) => i \in m_start_line + 1 .. Len(got))
      BY <1>4, <2>1
    <3> QED BY <1>2, <2>1, <2>2, <3>1 DEF AsReceived
  <2>4. m_checked_idx # 0 => m_read_buf'[m_checked_idx] = m_read_buf[m_checked_idx]
    <3> SUFFICES ASSUME m_checked_idx # 0 PROVE m_read_buf'[m_checked_idx] = m_read_buf[m_checked_idx]
      OBVIOUS
    <3>1. m_checked_idx \in 1 .. Len(got) + Len(x)
      BY <1>4, <2>1
    <3> QED BY <1>4, <2>2, <3>1
  <2> QED BY <1>1, <1>2, <2>3, <2>4 DEF AsReceived
<1>7. InHead'
  <2> SUFFICES ASSUME m_check_state # "CONTENT" PROVE InHead'
    BY <1>1 DEF InHead
  <2>1. \A j \in Conn!Stray(got') : j > m_checked_idx
    <3> TAKE j \in Conn!Stray(got')
    <3>1. j \in Nat
      BY <1>5 DEF Conn!Stray
    <3>2. j <= Len(got) => j > m_checked_idx
      BY <1>2, <1>5, <3>1 DEF InHead
    <3> QED BY <1>4, <3>1, <3>2
  <2>2. \A k \in Conn!Ends(got') : k <= m_start_line \/ k > m_checked_idx
    <3> TAKE k \in Conn!Ends(got')
    <3>1. k \in Nat
      BY <1>4, EndsAre
    <3>2. k <= Len(got) => k <= m_start_line \/ k > m_checked_idx
      BY <1>2, <1>5, <3>1 DEF InHead
    <3> QED BY <1>4, <3>1, <3>2
  <2>3. \A j \in Conn!Ends(got') : j <= m_start_line => j - 2 \notin Conn!Ends(got')
    <3> SUFFICES ASSUME NEW j \in Conn!Ends(got'), j <= m_start_line, j - 2 \in Conn!Ends(got') PROVE FALSE
      OBVIOUS
    <3>1. j \in Nat /\ j - 2 \in Nat /\ j <= Len(got) /\ j - 2 <= Len(got)
      BY <1>4, EndsAre
    <3> QED BY <1>2, <1>5, <3>1 DEF InHead
  <2>4. Lengthy(got', m_start_line) <=> Lengthy(got, m_start_line)
    <3>1. m_start_line <= Len(got)
      BY <1>4
    <3> QED BY <1>4, <1>5, <3>1
  <2>5. m_check_state # "REQUESTLINE" =>
          m_start_line \in Conn!Ends(got') /\ Conn!First(Conn!Ends(got'), 3) /\ got'[1] = m_url
    <3> SUFFICES ASSUME m_check_state # "REQUESTLINE"
                 PROVE  m_start_line \in Conn!Ends(got') /\ Conn!First(Conn!Ends(got'), 3) /\ got'[1] = m_url
      OBVIOUS
    <3>1. m_start_line \in Conn!Ends(got) /\ Conn!First(Conn!Ends(got), 3) /\ got[1] = m_url
      BY <1>2 DEF InHead
    <3>2. 3 \in Conn!Ends(got)
      BY <3>1 DEF Conn!First
    <3>3. 3 \in Nat /\ 3 <= Len(got) /\ m_start_line <= Len(got)
      BY <1>4, <3>2, EndsAre
    <3>4. 1 \in 1 .. Len(got)
      BY <1>4, <3>3
    <3> QED BY <1>4, <1>5, <3>1, <3>3, <3>4
  <2> QED BY <1>1, <1>2, <2>1, <2>2, <2>3, <2>4, <2>5 DEF InHead, Conn!Ends, Conn!Stray, Conn!First, Lengthy
<1>8. InContent'
  <2> SUFFICES ASSUME m_check_state = "CONTENT" PROVE InContent'
    BY <1>1 DEF InContent
  <2>1. m_content_length = CONTENT_LENGTH
    BY <1>2 DEF InContent
  <2>2. PICK h \in 1 .. m_checked_idx : HeadAt(h)
    BY <1>2 DEF InContent
  <2>3. h \in Nat /\ h <= Len(got) /\ h - 1 \in Nat /\ h - 1 <= Len(got) /\ 1 \in 1 .. Len(got) /\ h \in Conn!Ends(got)
    BY <1>4, <2>2 DEF HeadAt
  <2>4. \A j \in Conn!Stray(got') : j > h
    <3> TAKE j \in Conn!Stray(got')
    <3>1. j \in Nat
      BY <1>5 DEF Conn!Stray
    <3>2. j <= Len(got) => j > h
      BY <1>5, <2>2, <3>1 DEF HeadAt
    <3> QED BY <1>4, <2>3, <3>1, <3>2
  <2>5. /\ h \in Conn!Ends(got') /\ Conn!HeadEnd(got', h) /\ ~ Conn!NoPath(got', h) /\ got'[1] = m_url
        /\ Lengthy(got', h - 1)
    BY <1>5, <2>2, <2>3 DEF HeadAt
  <2>6. HeadAt(h)'
    BY <1>1, <2>2, <2>4, <2>5
       DEF HeadAt, Conn!Ends, Conn!Stray, Conn!First, Lengthy, Conn!HeadEnd, Conn!NoPath
  <2> QED BY <1>1, <2>1, <2>6, ConnConstants DEF InContent
<1> QED BY <1>1, <1>6, <1>7, <1>8 DEF ReqInv, Conn!VerdictOnRequest
\* Where no parse is under way, or nothing it has has changed.
LEMMA ReqCleared == ASSUME Conn!Cleared, phase' = "main" PROVE ReqInv'
<1>1. /\ m_start_line' = 0 /\ m_checked_idx' = 0 /\ got' = <<>> /\ m_check_state' = "REQUESTLINE"
      /\ m_content_length' = 0
  BY DEF Conn!Cleared
<1>2. Conn!Ends(<<>>) = {} /\ Conn!Stray(<<>>) = {}
  BY DEF Conn!Ends, Conn!Stray
<1>3. ~ Lengthy(got, m_start_line)' /\ Conn!Ends(got') = {} /\ Conn!Stray(got') = {}
  BY <1>1, <1>2 DEF Lengthy, Conn!Ends
<1>4. AsReceived'
  BY <1>1 DEF AsReceived
<1>5. InHead' /\ InContent'
  BY <1>1, <1>3 DEF InHead, InContent, Conn!Ends, Conn!Stray
<1>6. Conn!Verdict(got)' = "NO_REQUEST"
  BY <1>3 DEF Conn!Verdict, Conn!Ends
<1> QED BY <1>4, <1>5, <1>6 DEF ReqInv, Conn!VerdictOnRequest

LEMMA NotParsing ==
  ASSUME phase' \in {"main", "write"}, armed' # "in"
  PROVE  ReqInv'
BY DEF ReqInv, Parsing, Conn!VerdictOnRequest

LEMMA ReqSame ==
  ASSUME ReqInv, UNCHANGED << Conn!parseVars, line_status, phase, ret, armed >>
  PROVE  ReqInv'
<1>1. UNCHANGED << m_read_buf, m_checked_idx, m_start_line, m_check_state, m_url, m_content_length, got,
                   line_status, phase, ret, armed >>
  BY DEF Conn!parseVars
<1>2. PICK n : n = m_checked_idx
  OBVIOUS
<1>4. Conn!VerdictOnRequest'
  BY <1>1, <1>2, SameText DEF ReqInv, Conn!VerdictOnRequest, Conn!ContentPassed
<1>5. Parsing => AsReceived' /\ InHead'
  <2>1. Parsing => AsReceived'
    BY <1>1 DEF ReqInv, AsReceived
  <2>2. Parsing => InHead'
    BY <1>1, SameText DEF ReqInv, InHead, Lengthy, Conn!Ends, Conn!First
  <2> QED BY <2>1, <2>2
<1>6. Parsing => InContent'
  <2>1. \A h : HeadAt(h) => HeadAt(h)'
    <3> SUFFICES ASSUME NEW h, HeadAt(h) PROVE HeadAt(h)'
      OBVIOUS
    <3>1. Lengthy(got, h - 1)'
      BY <1>1 DEF HeadAt, Lengthy, Conn!Ends
    <3> QED BY <1>1, <3>1, SameText DEF HeadAt
  <2> QED BY <1>1, <2>1 DEF ReqInv, InContent
<1> QED BY <1>1, <1>4, <1>5, <1>6 DEF ReqInv, Parsing

LEMMA ReqInit == Conn!Init => ReqInv
BY DEF Conn!Init, ReqInv, Parsing, Conn!VerdictOnRequest

LEMMA ReqWrite == ASSUME ConnTypes, ReqInv, Conn!Write PROVE ReqInv'
<1>1. CASE Conn!WriteKeeps
  BY <1>1, ReqCleared DEF Conn!WriteKeeps
<1>2. CASE Conn!WritesOn
  <2>1. phase = "write" /\ UNCHANGED << Conn!parseVars, line_status, phase, ret, armed >>
    BY <1>2 DEF Conn!WritesOn, Conn!Sent
  <2> QED BY <2>1, ReqSame
<1>3. CASE Conn!WriteStarts \/ Conn!WriteCloses \/ Conn!WriteStalls \/ Conn!WriteFails
  BY <1>3, NotParsing DEF Conn!WriteStarts, Conn!WriteCloses, Conn!WriteStalls, Conn!WriteFails, Conn!Closed
<1> QED BY <1>1, <1>2, <1>3 DEF Conn!Write

LEMMA ReqNext == ASSUME ConnTypes, ConnTypes', ReqInv, [ServerNext \/ Comes]_connVars PROVE ReqInv'
<1>1. CASE UNCHANGED connVars
  BY <1>1, ReqSame DEF connVars, Conn!parseVars
<1>2. CASE Conn!Accept
  BY <1>2, ReqCleared DEF Conn!Accept
<1>3. CASE Comes
  BY <1>3, ReqSame DEF Comes, Conn!localVars
<1>4. CASE Conn!CloseOnHup \/ Conn!ReadFills
  BY <1>4, NotParsing DEF Conn!CloseOnHup, Conn!ReadFills, Conn!Closed
<1>5. CASE Conn!ProcessRead
  BY <1>5, ReqRequestLine, ReqHeader, ReqContent, ReqNoRequest DEF Conn!ProcessRead
<1>6. CASE Conn!ProcessWrite
  BY <1>6, NotParsing DEF Conn!ProcessWrite, Conn!WriteFile, Conn!WriteError, Conn!WriteRefuses, Conn!ReadyToWrite,
     Conn!Closed
<1> QED BY <1>1, <1>2, <1>3, <1>4, <1>5, <1>6, ReqRead, ReqWrite DEF ServerNext

THEOREM RequestInvariant == Spec => []ReqInv
<1>1. (ConnTypes /\ AnswersInv) /\ (ConnTypes /\ AnswersInv)' /\ ReqInv /\ [ServerNext \/ Comes]_connVars => ReqInv'
  BY ReqNext
<1> QED BY <1>1, ReqInit, ConnInvariant, ConnSteps, PTL

\* However its bytes are cut into pieces a request is answered what it deserves as a
\* whole, and is overlooked only when parse_line has walked into its content (HttpConn).
THEOREM EveryRequestIsJudged == Spec => []VerdictOnRequest
<1>1. ReqInv => VerdictOnRequest
  BY DEF ReqInv, VerdictOnRequest
<1> QED BY <1>1, RequestInvariant, PTL

-----------------------------------------------------------------------------
(* StressClient                                                             *)

LEMMA ClientChars ==
  /\ CR # LF /\ {Page, KeepAlive, Text} \cap {CR, LF} = {} /\ Length \notin {Page, KeepAlive, Text, CR, LF}
  /\ Page \in Conn!Paths /\ Text \notin Conn!Paths /\ Conn!Lookup(Page) = "FILE_REQUEST"
BY ConnAssumption DEF Conn!MessagesAssumption, Conn!ClientAssumption, Conn!Paths, Conn!Lookup

\* The x's that are left of earlier requests.
Ahead == {<<>>, << Text >>, << Text, Text >>}

LEMMA Joined ==
  \A s, u \in Seq(ConnChars) :
    /\ s \o u \in Seq(ConnChars) /\ Len(s \o u) = Len(s) + Len(u)
    /\ \A i \in 1 .. Len(s) + Len(u) : (s \o u)[i] = IF i <= Len(s) THEN s[i] ELSE u[i - Len(s)]
BY ConcatProperties, SMT

LEMMA RequestIs ==
  /\ Conn!request \in Seq(ConnChars) /\ Len(Conn!request) = 10
  /\ Conn!request[1] = Page /\ Conn!request[4] = KeepAlive
  /\ Conn!request[2] = CR /\ Conn!request[5] = CR /\ Conn!request[7] = CR
  /\ Conn!request[3] = LF /\ Conn!request[6] = LF /\ Conn!request[8] = LF
  /\ Conn!request[9] = Text /\ Conn!request[10] = Text
BY DEF Conn!request, ConnChars

LEMMA RequestChars ==
  ASSUME NEW x \in Ahead
  PROVE  /\ x \in Seq(ConnChars) /\ Conn!request \in Seq(ConnChars) /\ x \o Conn!request \in Seq(ConnChars)
         /\ Len(x) \in 0 .. 2 /\ Len(x \o Conn!request) = Len(x) + 10
         /\ \A i \in 1 .. Len(x) : x[i] = Text /\ (x \o Conn!request)[i] = Text
         /\ \A i \in 1 .. 10 : (x \o Conn!request)[Len(x) + i] = Conn!request[i]
<1>1. x \in Seq(ConnChars) /\ Len(x) \in 0 .. 2 /\ \A i \in 1 .. Len(x) : x[i] = Text
  <2>1. Text \in ConnChars
    BY DEF ConnChars
  <2>2. CASE x = <<>>
    BY <2>2
  <2>3. CASE x = << Text >>
    BY <2>1, <2>3
  <2>4. CASE x = << Text, Text >>
    BY <2>1, <2>4
  <2> QED BY <2>2, <2>3, <2>4 DEF Ahead
<1> DEFINE c == Conn!request
<1>2. c \in Seq(ConnChars) /\ Len(c) = 10
  BY RequestIs
<1> HIDE DEF c
<1>3. /\ x \o c \in Seq(ConnChars) /\ Len(x \o c) = Len(x) + 10
      /\ \A i \in 1 .. Len(x) + 10 : (x \o c)[i] = IF i <= Len(x) THEN x[i] ELSE c[i - Len(x)]
  <2>1. x \in Seq(ConnChars) /\ c \in Seq(ConnChars)
    BY <1>1, <1>2
  <2>2. /\ x \o c \in Seq(ConnChars) /\ Len(x \o c) = Len(x) + Len(c)
        /\ \A i \in 1 .. Len(x) + Len(c) : (x \o c)[i] = IF i <= Len(x) THEN x[i] ELSE c[i - Len(x)]
    BY <2>1, Joined
  <2>3. Len(c) = 10
    BY <1>2
  <2> QED BY <2>2, <2>3
<1>4. ASSUME NEW i \in 1 .. 10 PROVE (x \o c)[Len(x) + i] = c[i]
  <2>1. Len(x) + i \in 1 .. Len(x) + 10 /\ ~ Len(x) + i <= Len(x) /\ Len(x) + i - Len(x) = i
    BY <1>1
  <2> QED BY <1>3, <2>1
<1>5. ASSUME NEW i \in 1 .. Len(x) PROVE (x \o c)[i] = Text
  <2>1. i \in 1 .. Len(x) + 10 /\ i <= Len(x)
    BY <1>1
  <2> QED BY <1>1, <1>3, <2>1
<1> QED BY <1>1, <1>2, <1>3, <1>4, <1>5 DEF c

LEMMA Beginning ==
  ASSUME NEW s \in Seq(ConnChars), NEW y \in Seq(ConnChars), NEW w, s \o y = w
  PROVE  /\ w \in Seq(ConnChars) /\ Len(s) \in Nat /\ Len(y) \in Nat /\ Len(w) = Len(s) + Len(y)
         /\ \A i \in 1 .. Len(s) : s[i] = w[i]
<1>1. /\ w \in Seq(ConnChars) /\ Len(w) = Len(s) + Len(y)
      /\ \A i \in 1 .. Len(s) + Len(y) : w[i] = IF i <= Len(s) THEN s[i] ELSE y[i - Len(s)]
  BY ConcatProperties
<1> QED BY <1>1

\* Nothing but x's: nothing to answer.
LEMMA OnlyText ==
  ASSUME NEW s \in Seq(ConnChars), NEW y \in Seq(ConnChars), s \o y \in Ahead
  PROVE  Conn!Verdict(s) = "NO_REQUEST"
<1>1. \A i \in 1 .. Len(s) : s[i] = Text
  <2>1. PICK w \in Ahead : s \o y = w
    OBVIOUS
  <2>2. Len(s) \in Nat /\ Len(s) <= Len(w) /\ \A i \in 1 .. Len(s) : s[i] = w[i]
    BY <2>1, Beginning
  <2>3. Len(w) \in Nat /\ \A i \in 1 .. Len(w) : w[i] = Text
    BY RequestChars
  <2> QED BY <2>2, <2>3
<1>2. Conn!Ends(s) = {}
  <2>1. ASSUME NEW k \in Conn!Ends(s) PROVE FALSE
    <3>1. k \in 1 .. Len(s) /\ s[k] = LF
      BY <2>1 DEF Conn!Ends
    <3> QED BY <1>1, <3>1, ClientChars
  <2> QED BY <2>1
<1> QED BY <1>2 DEF Conn!Verdict

\* The length of a content is in no header of the client.
LEMMA NoLength ==
  ASSUME NEW s \in Seq(ConnChars), NEW y \in Seq(ConnChars), NEW x \in Ahead, s \o y = x \o Conn!request, NEW n
  PROVE  ~ Lengthy(s, n)
<1>1. ASSUME NEW i \in 1 .. Len(x) + 10 PROVE (x \o Conn!request)[i] # Length
  <2>1. CASE i <= Len(x)
    <3>1. i \in 1 .. Len(x)
      BY <2>1, RequestChars
    <3> QED BY <3>1, RequestChars, ClientChars
  <2>2. CASE ~ i <= Len(x)
    <3>1. PICK m \in 1 .. 10 : i = Len(x) + m
      <4>1. Len(x) \in Nat
        BY RequestChars
      <4>2. i - Len(x) \in 1 .. 10 /\ i = Len(x) + (i - Len(x))
        BY <2>2, <4>1, SMTT(30)
      <4> QED BY <4>2
    <3>2. Conn!request[m] \in {Page, CR, LF, KeepAlive, Text}
      BY DEF Conn!request
    <3> QED BY <3>1, <3>2, RequestChars, ClientChars
  <2> QED BY <2>1, <2>2
<1>2. /\ Len(s) \in Nat /\ Len(s) <= Len(x) + 10
      /\ \A i \in 1 .. Len(s) : s[i] = (x \o Conn!request)[i]
  <2>1. Len(x \o Conn!request) = Len(x) + 10
    BY RequestChars
  <2> QED BY <2>1, Beginning
<1>3. ASSUME NEW i \in Conn!Ends(s), i + 3 \in Conn!Ends(s) PROVE s[i + 1] # Length
  <2>1. i \in Nat /\ i + 3 <= Len(s)
    BY <1>3, EndsAre
  <2>2. i + 1 \in 1 .. Len(s) /\ i + 1 \in 1 .. Len(x) + 10
    BY <1>2, <2>1
  <2> QED BY <1>1, <1>2, <2>2
<1> QED BY <1>3 DEF Lengthy
\* Where the line ends of the request are.
LEMMA LineFeeds ==
  \A k \in 1 .. 10 : /\ Conn!request[k] = LF => k \in {3, 6, 8}
                     /\ Conn!request[k] = CR => k \in {2, 5, 7}
<1> SUFFICES ASSUME NEW k \in 1 .. 10
             PROVE  /\ Conn!request[k] = LF => k \in {3, 6, 8}
                    /\ Conn!request[k] = CR => k \in {2, 5, 7}
  OBVIOUS
<1>1. k \in {1, 4, 9, 10} \/ k \in {2, 5, 7} \/ k \in {3, 6, 8}
  OBVIOUS
<1>2. CASE k \in {1, 4, 9, 10}
  BY <1>2, ClientChars, RequestIs
<1>3. CASE k \in {2, 5, 7}
  BY <1>3, ClientChars, RequestIs
<1>4. CASE k \in {3, 6, 8}
  BY <1>4, ClientChars, RequestIs
<1> QED BY <1>1, <1>2, <1>3, <1>4

\* The first request, or as much of it as there is.
LEMMA FirstRequest ==
  ASSUME NEW s \in Seq(ConnChars), NEW y \in Seq(ConnChars), s \o y = Conn!request
  PROVE  Conn!Verdict(s) = IF Len(s) >= 8 THEN "FILE_REQUEST" ELSE "NO_REQUEST"
<1>1. Len(s) \in Nat /\ Len(s) <= 10 /\ \A i \in 1 .. Len(s) : s[i] = Conn!request[i]
  <2> DEFINE w == Conn!request
  <2>1. Len(w) = 10
    BY RequestIs
  <2> HIDE DEF w
  <2>2. s \o y = w
    BY DEF w
  <2>3. \A i \in 1 .. Len(s) : s[i] = w[i]
    BY <2>2, Beginning
  <2>4. Len(s) \in Nat /\ Len(y) \in Nat /\ Len(s) + Len(y) = 10
    <3>1. Len(s) \in Nat /\ Len(y) \in Nat /\ Len(w) = Len(s) + Len(y)
      BY <2>2, Beginning, ZenonT(30)
    <3> QED BY <2>1, <3>1
  <2>5. Len(s) <= 10
    BY <2>4
  <2> QED BY <2>3, <2>4, <2>5 DEF w
<1>2. \A k \in Nat : k \in Conn!Ends(s) <=> k \in {3, 6, 8} /\ k <= Len(s)
  <2> SUFFICES ASSUME NEW k \in Nat PROVE k \in Conn!Ends(s) <=> k \in {3, 6, 8} /\ k <= Len(s)
    OBVIOUS
  <2>1. k \in 2 .. Len(s) => s[k - 1] = Conn!request[k - 1] /\ s[k] = Conn!request[k]
    <3> SUFFICES ASSUME k \in 2 .. Len(s) PROVE s[k - 1] = Conn!request[k - 1] /\ s[k] = Conn!request[k]
      OBVIOUS
    <3>1. k - 1 \in 1 .. Len(s) /\ k \in 1 .. Len(s)
      BY <1>1
    <3> QED BY <1>1, <3>1
  <2>2. k \in 2 .. 10 => (Conn!request[k - 1] = CR /\ Conn!request[k] = LF <=> k \in {3, 6, 8})
    BY ClientChars DEF Conn!request
  <2> QED BY <1>1, <2>1, <2>2 DEF Conn!Ends
<1>3. Conn!Stray(s) = {}
  <2> SUFFICES ASSUME NEW k \in Conn!Stray(s) PROVE FALSE
    OBVIOUS
  <2>1. k \in Nat /\ k \in 1 .. Len(s) /\ s[k] = Conn!request[k]
    BY <1>1 DEF Conn!Stray
  <2>2. CASE s[k] = LF
    <3>1. k \in {3, 6, 8}
      BY <1>1, <2>1, <2>2, LineFeeds
    <3>2. k \in Conn!Ends(s)
      BY <1>1, <1>2, <2>1, <3>1
    <3> QED BY <2>2, <3>2 DEF Conn!Stray
  <2>3. CASE s[k] # LF
    <3>1. k \in 2 .. Len(s) /\ s[k - 1] = CR
      BY <2>3 DEF Conn!Stray
    <3>2. k - 1 \in 1 .. Len(s) /\ k - 1 \in 1 .. 10
      BY <1>1, <3>1, SMTT(30)
    <3>3. k - 1 \in {2, 5, 7}
      BY <1>1, <3>1, <3>2, LineFeeds
    <3>4. k \in {3, 6, 8}
      BY <2>1, <3>3
    <3>5. k \in Conn!Ends(s)
      BY <1>2, <2>1, <3>4
    <3> QED BY <2>3, <3>5, EndsAre
  <2> QED BY <2>2, <2>3
<1>4. ASSUME NEW k \in Conn!Ends(s) PROVE ~ Conn!NoPath(s, k)
  <2>1. k \in Nat /\ k \in {3, 6, 8} /\ k <= Len(s)
    BY <1>2, EndsAre
  <2>2. 3 \in Conn!Ends(s)
    BY <1>1, <1>2, <2>1
  <2>3. s[1] \in Conn!Paths
    <3>1. 1 \in 1 .. Len(s)
      BY <1>1, <2>1
    <3> QED BY <1>1, <3>1, ClientChars, RequestIs
  <2> QED BY <2>1, <2>2, <2>3, Words DEF Conn!First
<1>5. CASE Len(s) >= 8
  <2>1. Conn!HeadEnd(s, 8)
    <3>1. 8 \in Conn!Ends(s) /\ 8 - 2 \in Conn!Ends(s)
      <4>1. 8 \in Conn!Ends(s) /\ 6 \in Conn!Ends(s)
        BY <1>1, <1>2, <1>5
      <4> QED BY <4>1
    <3>2. ASSUME NEW j \in Conn!Ends(s), j - 2 \in Conn!Ends(s) \/ Conn!NoPath(s, j) PROVE 8 <= j
      <4>1. j \in {3, 6, 8} /\ j - 2 \in {3, 6, 8}
        BY <1>2, <1>4, <3>2, EndsAre
      <4> QED BY <4>1
    <3> QED BY <3>1, <3>2 DEF Conn!HeadEnd, Conn!First
  <2>2. Conn!Verdict(s) = Conn!Deserves(s, 8) /\ ~ Conn!NoPath(s, 8)
    BY <1>3, <1>4, <2>1, OneHeadEnd
  <2>3. Conn!BodyLength(s, 8) = 0
    <3>1. <<>> \in Ahead /\ <<>> \o Conn!request = Conn!request
      BY RequestChars, ConcatEmptySeq DEF Ahead
    <3>2. ~ Lengthy(s, 8 - 1)
      BY <3>1, NoLength
    <3> QED BY <3>2, Words
  <2>4. s[1] = Page
    <3>1. 1 \in 1 .. Len(s)
      BY <1>1, <1>5
    <3> QED BY <1>1, <3>1 DEF Conn!request
  <2> QED BY <1>1, <1>5, <2>2, <2>3, <2>4, ClientChars DEF Conn!Deserves
<1>6. CASE ~ Len(s) >= 8
  <2>1. ASSUME NEW k \in Conn!Ends(s) PROVE ~ Conn!HeadEnd(s, k)
    <3>1. k \in {3, 6} /\ k - 2 \in Nat
      BY <1>1, <1>2, <1>6, EndsAre
    <3>2. k - 2 \notin Conn!Ends(s)
      BY <1>2, <3>1
    <3> QED BY <1>4, <3>2 DEF Conn!HeadEnd, Conn!First
  <2> QED BY <1>6, <2>1 DEF Conn!Verdict
<1> QED BY <1>5, <1>6

\* A request with x's before it is no request.
LEMMA LaterRequest ==
  ASSUME NEW x \in Ahead, x # <<>>
  PROVE  Conn!Verdict(x \o Conn!request) = "BAD_REQUEST"
<1>1. PICK w \in Seq(ConnChars) : w = x \o Conn!request
  BY RequestChars
<1>2. PICK l \in {1, 2} : l = Len(x)
  <2>1. Len(x) # 0
    BY RequestChars, EmptySeq
  <2>2. Len(x) \in {1, 2}
    BY <2>1, RequestChars
  <2> QED BY <2>2
<1>3. /\ Len(w) = l + 10 /\ \A i \in 1 .. l : w[i] = Text
      /\ w[l + 1] = Page /\ w[l + 2] = CR /\ w[l + 3] = LF
  <2>1. \A i \in 1 .. 10 : w[l + i] = Conn!request[i]
    BY <1>1, <1>2, RequestChars
  <2>2. Conn!request[1] = Page /\ Conn!request[2] = CR /\ Conn!request[3] = LF
    BY DEF Conn!request
  <2>3. 1 \in 1 .. 10 /\ 2 \in 1 .. 10 /\ 3 \in 1 .. 10
    OBVIOUS
  <2>4. Len(w) = l + 10 /\ \A i \in 1 .. l : w[i] = Text
    BY <1>1, <1>2, RequestChars
  <2> QED BY <2>1, <2>2, <2>3, <2>4
<1>4. \A i \in 1 .. l + 2 : w[i] # LF /\ (w[i] = CR => i = l + 2)
  <2> SUFFICES ASSUME NEW i \in 1 .. l + 2 PROVE w[i] # LF /\ (w[i] = CR => i = l + 2)
    OBVIOUS
  <2>1. i \in 1 .. l \/ i = l + 1 \/ i = l + 2
    OBVIOUS
  <2> QED BY <1>3, <2>1, ClientChars
<1>5. l + 3 \in Conn!Ends(w) /\ \A j \in Conn!Ends(w) : l + 3 <= j
  <2>1. l + 3 \in 2 .. Len(w) /\ l + 3 - 1 = l + 2
    BY <1>3
  <2>2. l + 3 \in Conn!Ends(w)
    BY <1>3, <2>1 DEF Conn!Ends
  <2>3. ASSUME NEW j \in Conn!Ends(w) PROVE l + 3 <= j
    <3>1. j \in Nat /\ j >= 2 /\ w[j] = LF
      BY EndsAre
    <3> QED BY <1>4, <3>1
  <2> QED BY <2>2, <2>3
<1>6. Conn!NoPath(w, l + 3)
  <2>1. l + 3 # 3
    OBVIOUS
  <2> QED BY <1>5, <2>1, Words DEF Conn!First
<1>7. Conn!HeadEnd(w, l + 3)
  BY <1>5, <1>6 DEF Conn!HeadEnd, Conn!First
<1>8. ASSUME NEW j \in Conn!Stray(w) PROVE j > l + 3
  <2>1. j \in 1 .. Len(w) /\ (w[j] = LF => j \notin Conn!Ends(w))
        /\ (w[j] # LF => j \in 2 .. Len(w) /\ w[j - 1] = CR)
    BY DEF Conn!Stray, Conn!Ends
  <2>2. CASE w[j] = LF
    <3>1. j # l + 3
      BY <1>5, <2>1, <2>2
    <3> QED BY <1>3, <1>4, <2>1, <2>2, <3>1
  <2>3. CASE w[j] # LF
    <3> SUFFICES ASSUME j <= l + 3 PROVE FALSE
      BY <1>3, <2>1
    <3>1. j - 1 \in 1 .. l + 2
      BY <1>3, <2>1, <2>3
    <3>2. j - 1 = l + 2
      BY <1>4, <2>1, <2>3, <3>1
    <3>3. j = l + 3
      BY <2>1, <3>2
    <3> QED BY <1>3, <2>3, <3>3
  <2> QED BY <2>2, <2>3
<1> QED BY <1>1, <1>6, <1>7, <1>8, OneHeadEnd DEF Conn!Deserves

LEMMA Together == \A t, u, v \in Seq(ConnChars) : (t \o u) \o v = t \o (u \o v)
BY ConcatAssociative, SMTT(30)

\* recv moves the boundary between what has come and what is to come.
LEMMA TakenOver ==
  ASSUME NEW s \in Seq(ConnChars), NEW c \in Seq(ConnChars), NEW n \in 1 .. Len(c)
  PROVE  (s \o SubSeq(c, 1, n)) \o SubSeq(c, n + 1, Len(c)) = s \o c
<1>1. /\ Len(c) \in Nat /\ 1 \in Nat \ {0} /\ n + 1 \in Nat \ {0} /\ n \in 0 .. Len(c) /\ Len(c) \in 0 .. Len(c)
      /\ 1 \in 1 .. Len(c) + 1 /\ n \in 1 - 1 .. Len(c) /\ Len(c) \in n .. Len(c)
  OBVIOUS
<1>2. SubSeq(c, 1, n) \in Seq(ConnChars) /\ SubSeq(c, n + 1, Len(c)) \in Seq(ConnChars)
  BY <1>1, ConnSubSeq
<1>3. SubSeq(c, 1, n) \o SubSeq(c, n + 1, Len(c)) = SubSeq(c, 1, Len(c))
  BY <1>1, ConcatAdjacentSubSeq
<1>4. SubSeq(c, 1, Len(c)) = c
  BY SubSeqFull
<1>5. (s \o SubSeq(c, 1, n)) \o SubSeq(c, n + 1, Len(c)) = s \o (SubSeq(c, 1, n) \o SubSeq(c, n + 1, Len(c)))
  BY <1>2, Together
<1> QED BY <1>3, <1>4, <1>5, Zenon

\* A connection is kept for a text that begins with a path only.
Lingers == m_linger => got # <<>> /\ got[1] \in Conn!Paths

LEMMA LingersNext ==
  ASSUME ConnTypes, ReqInv, Lingers, [ServerNext \/ Comes]_connVars
  PROVE  Lingers'
<1>1. CASE UNCHANGED << m_linger, got >>
  BY <1>1 DEF Lingers, Conn!Paths
<1>2. CASE Conn!Cleared
  BY <1>2 DEF Conn!Cleared, Lingers
<1>3. CASE Conn!Read
  <2> SUFFICES ASSUME m_linger PROVE got' # <<>> /\ got'[1] \in Conn!Paths
    BY <1>3 DEF Conn!Read, Lingers, Conn!Paths
  <2>1. got \in Seq(ConnChars) /\ coming \in Seq(ConnChars) /\ got # <<>> /\ got[1] \in Conn!Paths
    BY DEF Lingers, ConnTypes, Indexes
  <2>2. PICK n \in 1 .. Len(coming) : got' = got \o SubSeq(coming, 1, n)
    BY <1>3 DEF Conn!Read
  <2>3. SubSeq(coming, 1, n) \in Seq(ConnChars)
    <3>1. n \in 0 .. Len(coming) /\ 1 \in Nat \ {0}
      OBVIOUS
    <3> QED BY <2>1, <3>1, ConnSubSeq
  <2>4. 1 \in 1 .. Len(got) /\ Len(got) \in Nat
    BY <2>1
  <2>5. got'[1] = got[1] /\ Len(got') # 0
    BY <2>1, <2>2, <2>3, <2>4
  <2> QED BY <2>1, <2>5
<1>4. CASE Conn!ParseHeader
  <2>1. phase = "process_read" /\ m_check_state = "HEADER" /\ got' = got
    BY <1>4 DEF Conn!ParseHeader, Conn!TakeLine
  <2>2. Conn!First(Conn!Ends(got), 3) /\ got[1] = m_url /\ m_url \in Conn!Paths
    BY <2>1 DEF ReqInv, Parsing, InHead, ConnTypes, Requested
  <2>3. got # <<>>
    BY <2>2 DEF Conn!First, Conn!Ends
  <2> QED BY <2>1, <2>2, <2>3 DEF Lingers, Conn!Paths
<1>5. CASE Conn!ProcessRead /\ ~ Conn!ParseHeader
  BY <1>1, <1>5 DEF Conn!ProcessRead, Conn!ParseRequestLine, Conn!BadRequestLine, Conn!HeadersEnd, Conn!Content,
     Conn!ContentLine, Conn!NoRequest, Conn!TakeLine
<1>6. CASE Conn!CloseOnHup \/ Conn!ReadFills \/ Conn!ProcessWrite \/ Comes
  BY <1>1, <1>6 DEF Conn!CloseOnHup, Conn!ReadFills, Conn!ProcessWrite, Conn!WriteFile, Conn!WriteError,
     Conn!WriteRefuses, Comes, Conn!parseVars
<1>7. CASE Conn!Write
  BY <1>1, <1>2, <1>7 DEF Conn!Write, Conn!WriteStarts, Conn!WritesOn, Conn!WriteKeeps, Conn!WriteCloses,
     Conn!WriteStalls, Conn!WriteFails, Conn!parseVars
<1>8. CASE Conn!Accept
  BY <1>2, <1>8 DEF Conn!Accept
<1> QED BY <1>1, <1>3, <1>4, <1>5, <1>6, <1>7, <1>8 DEF ServerNext, connVars

THEOREM LingersInvariant == Spec => []Lingers
<1>1. Conn!Init => Lingers
  BY DEF Conn!Init, Lingers
<1>2. (ConnTypes /\ AnswersInv) /\ ReqInv /\ Lingers /\ [ServerNext \/ Comes]_connVars => Lingers'
  BY LingersNext
<1> QED BY <1>1, <1>2, ConnInvariant, RequestInvariant, ConnSteps, PTL
\* The client has not started, or is one of three.
Started ==
  /\ want \in {"none", "in", "out", "closed"} /\ seen \in Nat
  /\ want = "none" => m_sockfd = "closed" /\ ~ split /\ seen = 0
  /\ m_sockfd = "closed" => coming = <<>>

\* Nothing is due: what is on its way are x's of earlier requests, and there are none
\* unless a recv has cut them off.
NothingDue ==
  /\ Parsing /\ got \o coming \in Ahead /\ (~ split => got \o coming = <<>>)
  /\ Len(stream) = IF want = "in" THEN seen + 1 ELSE seen

\* The client waits for the answer to what is on its way, the last request.
RequestDue ==
  /\ want = "in" /\ Len(stream) = seen
  /\ \E x \in Ahead :
       /\ got \o coming = x \o Conn!request
       /\ ~ split => x = <<>> /\ Len(got) \notin {8, 9}
  /\ Parsing \/ Conn!Verdict(got) # "NO_REQUEST"

Serving == shorts = 0 /\ m_sockfd = "open" /\ want \in {"in", "out"} => NothingDue \/ RequestDue

ClientInv == Started /\ Serving

ClientStep ==
  /\ program' = program
  /\ program = "StressClient" => Conn!StressNext \/ UNCHANGED << connVars, stressVars >>

LEMMA ClientSteps == Spec => Conn!StressInit /\ [][ClientStep]_vars
<1>1. Init => Conn!StressInit
  BY DEF Init
<1>2. [Next]_vars => ClientStep
  <2>1. CASE UNCHANGED vars
    BY <2>1 DEF vars, ClientStep
  <2>2. CASE Next
    BY <2>2 DEF Next, Keep, ClientStep
  <2> QED BY <2>1, <2>2
<1> QED BY <1>1, <1>2, PTL DEF Spec

LEMMA ClientInit == Conn!StressInit => ClientInv
BY DEF Conn!StressInit, Conn!Init, ClientInv, Started, Serving

\* The server goes on with what it has.
LEMMA ClientGoesOn ==
  ASSUME ConnTypes, ClientInv, UNCHANGED << m_sockfd, coming, got, want, seen, split >>,
         shorts' = 0 => shorts = 0 /\ stream' = stream,
         Parsing => Parsing' \/ Conn!Verdict(got) # "NO_REQUEST"
  PROVE  ClientInv'
<1>1. Started'
  BY DEF ClientInv, Started
<1>2. Serving'
  <2> SUFFICES ASSUME shorts' = 0, m_sockfd' = "open", want' \in {"in", "out"} PROVE NothingDue' \/ RequestDue'
    BY DEF Serving
  <2>1. got \in Seq(ConnChars) /\ coming \in Seq(ConnChars)
    BY DEF ConnTypes, Indexes
  <2>2. CASE NothingDue
    <3>1. Conn!Verdict(got) = "NO_REQUEST"
      BY <2>1, <2>2, OnlyText DEF NothingDue
    <3>2. Parsing'
      BY <2>2, <3>1 DEF NothingDue
    <3> QED BY <2>2, <3>2 DEF NothingDue, Ahead
  <2>3. CASE RequestDue
    <3>1. Parsing' \/ Conn!Verdict(got)' # "NO_REQUEST"
      BY <2>3, SameText DEF RequestDue
    <3> QED BY <2>3, <3>1 DEF RequestDue, Ahead, Conn!request
  <2> QED BY <2>2, <2>3 DEF ClientInv, Serving
<1> QED BY <1>1, <1>2 DEF ClientInv

LEMMA ClientServerCloses ==
  ASSUME ClientInv, m_sockfd = "open", m_sockfd' = "closed", coming' = <<>>, UNCHANGED stressVars
  PROVE  ClientInv'
BY DEF ClientInv, Started, Serving, stressVars

LEMMA ClientRead == ASSUME ConnTypes, ConnTypes', ClientInv, Conn!ServerReads PROVE ClientInv'
<1>1. /\ got \in Seq(ConnChars) /\ coming \in Seq(ConnChars) /\ Len(m_read_buf') = Len(got')
      /\ UNCHANGED << m_sockfd, want, seen, stream, shorts >> /\ m_sockfd = "open" /\ phase' = "process_read"
  BY DEF ConnTypes, Indexes, Conn!ServerReads, Conn!Read, Conn!CanRead, Conn!outVars
<1>2. got' \o coming' = got \o coming
  <2>1. PICK n \in 1 .. Len(coming) :
          got' = got \o SubSeq(coming, 1, n) /\ coming' = SubSeq(coming, n + 1, Len(coming))
    BY DEF Conn!ServerReads, Conn!Read
  <2> QED BY <1>1, <2>1, TakenOver
<1>3. ~ split' => ~ split /\ Len(got') \notin {8, 9}
  <2>1. split' = (split \/ Len(m_read_buf') \in 8 .. Len(Conn!request) - 1)
    BY DEF Conn!ServerReads, Conn!HeadLen
  <2>2. Len(Conn!request) - 1 = 9
    BY RequestIs
  <2>3. 8 \in 8 .. 9 /\ 9 \in 8 .. 9
    OBVIOUS
  <2> QED BY <1>1, <2>1, <2>2, <2>3
<1>4. Parsing'
  BY <1>1 DEF Parsing
<1>5. Started'
  BY <1>1 DEF ClientInv, Started
<1>6. Serving'
  <2> SUFFICES ASSUME shorts' = 0, m_sockfd' = "open", want' \in {"in", "out"} PROVE NothingDue' \/ RequestDue'
    BY DEF Serving
  <2>1. CASE NothingDue
    BY <1>1, <1>2, <1>3, <1>4, <2>1 DEF NothingDue, Ahead
  <2>2. CASE RequestDue
    BY <1>1, <1>2, <1>3, <1>4, <2>2 DEF RequestDue, Ahead, Conn!request
  <2> QED BY <1>1, <2>1, <2>2 DEF ClientInv, Serving
<1> QED BY <1>5, <1>6 DEF ClientInv
\* What is left once the first request has been answered.
LEMMA LeftBehind ==
  ASSUME NEW s \in Seq(ConnChars), NEW y \in Seq(ConnChars), s \o y = Conn!request, Len(s) >= 8
  PROVE  y \in Ahead /\ (Len(s) \notin {8, 9} => y = <<>>)
<1>1. Len(s) \in Nat /\ Len(y) \in Nat /\ Len(s) + Len(y) = 10
  <2> DEFINE w == Conn!request
  <2>1. s \o y = w /\ Len(w) = 10
    BY RequestIs
  <2> HIDE DEF w
  <2>2. Len(s) \in Nat /\ Len(y) \in Nat /\ Len(w) = Len(s) + Len(y)
    BY <2>1, Beginning, ZenonT(30)
  <2> QED BY <2>1, <2>2
<1>2. Len(s) \in {8, 9, 10} /\ Len(y) = 10 - Len(s) /\ Len(y) \in {0, 1, 2} /\ (Len(y) = 2 => Len(s) = 8)
  <2>1. \A a, b \in Nat : a >= 8 /\ a + b = 10 => a \in {8, 9, 10} /\ b = 10 - a /\ b \in {0, 1, 2} /\ (b = 2 => a = 8)
    OBVIOUS
  <2> QED BY <1>1, <2>1
<1>3. ASSUME NEW i \in 1 .. Len(y) PROVE y[i] = Text
  <2>1. (s \o y)[Len(s) + i] = y[i]
    <3>1. Len(s) + i \in 1 .. Len(s) + Len(y) /\ ~ Len(s) + i <= Len(s) /\ Len(s) + i - Len(s) = i
      BY <1>1
    <3>2. (s \o y)[Len(s) + i] = IF Len(s) + i <= Len(s) THEN s[Len(s) + i] ELSE y[Len(s) + i - Len(s)]
      BY <3>1, Joined
    <3> QED BY <3>1, <3>2
  <2>2. Len(s) + i \in {9, 10}
    BY <1>2
  <2> QED BY <2>1, <2>2, RequestIs
<1>4. CASE Len(y) = 0
  <2>1. y = <<>>
    BY <1>4
  <2> QED BY <2>1 DEF Ahead
<1>5. CASE Len(y) = 1
  <2>1. y[1] = Text
    BY <1>3, <1>5
  <2>2. y = << Text >>
    BY <1>5, <2>1
  <2> QED BY <1>2, <1>5, <2>2 DEF Ahead
<1>6. CASE Len(y) = 2
  <2>1. y[1] = Text /\ y[2] = Text
    BY <1>3, <1>6
  <2>2. y = << Text, Text >>
    BY <1>6, <2>1
  <2>3. y \in Ahead
    BY <2>2 DEF Ahead
  <2>4. Len(s) = 8
    BY <1>2, <1>6
  <2> QED BY <2>3, <2>4
<1> QED BY <1>2, <1>4, <1>5, <1>6

LEMMA ClientKept == ASSUME ConnTypes, ClientInv, Lingers, UNCHANGED stressVars, Conn!WriteKeeps PROVE ClientInv'
<1>1. PICK n \in 1 .. Conn!Total(m_iv) : Conn!Sent(n)
  BY DEF Conn!WriteKeeps
<1>2. /\ phase = "write" /\ UNCHANGED << m_sockfd, want, seen, split, coming >> /\ got' = <<>> /\ m_linger
      /\ armed' = "in" /\ stream' = Append(stream, n) /\ (shorts' = 0 => shorts = 0)
  BY <1>1 DEF Conn!WriteKeeps, Conn!Sent, Conn!Cleared, stressVars, ConnTypes, AnswerTypes
<1>3. Started'
  BY <1>2 DEF ClientInv, Started
<1>4. Serving'
  <2> SUFFICES ASSUME shorts' = 0, m_sockfd' = "open", want' \in {"in", "out"} PROVE NothingDue'
    BY DEF Serving
  <2>1. RequestDue
    <3>1. ~ Parsing
      BY <1>2 DEF Parsing, ConnTypes, OneCall
    <3> QED BY <1>2, <3>1 DEF ClientInv, Serving, NothingDue
  <2>2. got \in Seq(ConnChars) /\ coming \in Seq(ConnChars) /\ got # <<>> /\ got[1] \in Conn!Paths
    BY <1>2 DEF ConnTypes, Indexes, Lingers
  <2>3. PICK x \in Ahead : got \o coming = x \o Conn!request /\ (~ split => x = <<>> /\ Len(got) \notin {8, 9})
    BY <2>1 DEF RequestDue
  <2>4. x = <<>>
    <3> SUFFICES ASSUME x # <<>> PROVE FALSE
      OBVIOUS
    <3>1. 1 \in 1 .. Len(x)
      BY RequestChars, EmptySeq
    <3>2. (x \o Conn!request)[1] = Text
      BY <3>1, RequestChars
    <3>3. 1 \in 1 .. Len(got)
      BY <2>2
    <3>4. got[1] = (x \o Conn!request)[1]
      BY <2>2, <2>3, <3>3, Beginning
    <3> QED BY <2>2, <3>2, <3>4, ClientChars
  <2>5. got \o coming = Conn!request
    BY <2>3, <2>4, RequestIs, ConcatEmptySeq
  <2>6. Len(got) >= 8
    <3>1. Conn!Verdict(got) # "NO_REQUEST"
      BY <1>2, <2>1 DEF RequestDue, Parsing, ConnTypes, OneCall
    <3> QED BY <2>2, <2>5, <3>1, FirstRequest
  <2>7. coming \in Ahead /\ (~ split => coming = <<>>)
    BY <2>2, <2>3, <2>5, <2>6, LeftBehind
  <2>8. got' \o coming' = coming
    BY <1>2, <2>2, ConcatEmptySeq
  <2>9. Len(stream') = seen' + 1 /\ want' = "in"
    BY <1>2, <2>1 DEF RequestDue, ConnTypes, AnswerTypes
  <2> QED BY <1>2, <2>7, <2>8, <2>9 DEF NothingDue, Ahead, Parsing
<1> QED BY <1>3, <1>4 DEF ClientInv

LEMMA ClientStarts == ASSUME ClientInv, Conn!StartConn PROVE ClientInv'
<1>1. /\ want' = "out" /\ seen' = 0 /\ ~ split' /\ m_sockfd' = "open" /\ coming' = <<>> /\ got' = <<>> /\ armed' = "in"
      /\ stream' = <<>>
  BY DEF Conn!StartConn, Conn!Accept, Conn!Cleared, ClientInv, Started
<1>2. Started'
  BY <1>1 DEF Started
<1>3. NothingDue'
  <2>1. got' \o coming' = <<>> /\ Len(stream') = 0
    BY <1>1
  <2> QED BY <1>1, <2>1 DEF NothingDue, Ahead, Parsing
<1> QED BY <1>2, <1>3 DEF ClientInv, Serving

LEMMA ClientWrites == ASSUME ConnTypes, ClientInv, Conn!WriteNBytes PROVE ClientInv'
<1>1. /\ want = "out" /\ want' = "in" /\ m_sockfd = "open"
      /\ UNCHANGED << m_sockfd, got, stream, shorts, seen, split, armed, phase >>
  BY DEF Conn!WriteNBytes, Conn!Sends, Conn!parseVars, Conn!outVars
<1>2. coming' = coming \o Conn!request
  <2>1. SubSeq(Conn!request, 1, Len(Conn!request)) = Conn!request
    BY RequestIs, SubSeqFull
  <2> QED BY <2>1 DEF Conn!WriteNBytes, Conn!Sends
<1>3. Started'
  BY <1>1 DEF ClientInv, Started
<1>4. Serving'
  <2> SUFFICES ASSUME shorts = 0 PROVE RequestDue'
    BY <1>1 DEF Serving
  <2>1. NothingDue
    BY <1>1 DEF ClientInv, Serving, RequestDue
  <2>2. got \in Seq(ConnChars) /\ coming \in Seq(ConnChars)
    BY DEF ConnTypes, Indexes
  <2>3. PICK x \in Ahead : got \o coming = x /\ (~ split => x = <<>>)
    BY <2>1 DEF NothingDue
  <2>4. got' \o coming' = x \o Conn!request
    BY <1>1, <1>2, <2>2, <2>3, RequestIs, Together
  <2>5. Len(got') \notin {8, 9}
    <3>1. Len(got) \in Nat /\ Len(got) <= Len(x)
      BY <2>2, <2>3, Beginning
    <3>2. Len(x) \in 0 .. 2
      BY RequestChars
    <3>3. \A a \in Nat, b \in 0 .. 2 : a <= b => a \notin {8, 9}
      OBVIOUS
    <3>4. Len(got) \notin {8, 9}
      BY <3>1, <3>2, <3>3
    <3> QED BY <1>1, <3>4
  <2>6. Parsing'
    BY <1>1, <2>1 DEF NothingDue, Parsing
  <2> QED BY <1>1, <2>1, <2>3, <2>4, <2>5, <2>6 DEF RequestDue, NothingDue, Ahead, Conn!request
<1> QED BY <1>3, <1>4 DEF ClientInv

\* The client's other steps.
LEMMA ClientReads ==
  ASSUME ConnTypes, ClientInv, Conn!WriteNBytesFails \/ Conn!WriteLate \/ Conn!ReadOnce \/ Conn!ReadEnd
  PROVE  ClientInv'
<1>1. CASE Conn!WriteNBytesFails
  BY <1>1 DEF Conn!WriteNBytesFails, Conn!Sends, ClientInv, Started, Serving
<1>2. CASE Conn!WriteLate
  BY <1>2 DEF Conn!WriteLate, Conn!vars, Conn!peerVars, ClientInv, Started, Serving
<1>3. CASE Conn!ReadEnd
  BY <1>3 DEF Conn!ReadEnd, Conn!vars, Conn!peerVars, ClientInv, Started, Serving
<1>4. CASE Conn!ReadOnce
  <2>1. /\ want = "in" /\ want' = "out" /\ seen < Len(stream) /\ seen' \in seen + 1 .. Len(stream)
        /\ UNCHANGED << m_sockfd, coming, got, stream, shorts, split, armed, phase >>
    BY <1>4 DEF Conn!ReadOnce, Conn!vars, Conn!peerVars, Conn!parseVars, Conn!outVars
  <2>2. seen \in Nat /\ Len(stream) \in Nat
    BY DEF ClientInv, Started, ConnTypes, AnswerTypes
  <2>3. Started'
    BY <2>1, <2>2 DEF ClientInv, Started
  <2>4. Serving'
    <3> SUFFICES ASSUME shorts = 0, m_sockfd = "open" PROVE NothingDue'
      BY <2>1 DEF Serving
    <3>1. NothingDue
      BY <2>1, <2>2 DEF ClientInv, Serving, RequestDue
    <3>2. seen' = Len(stream)
      BY <2>1, <2>2, <3>1 DEF NothingDue
    <3> QED BY <2>1, <3>1, <3>2 DEF NothingDue, Ahead, Parsing
  <2> QED BY <2>3, <2>4 DEF ClientInv
<1> QED BY <1>1, <1>2, <1>3, <1>4
LEMMA ClientProcessRead == ASSUME ConnTypes, ReqInv', ClientInv, Conn!ProcessRead, UNCHANGED stressVars PROVE ClientInv'
<1>1. UNCHANGED << m_sockfd, coming, got, shorts, stream >>
  BY DEF Conn!ProcessRead, Conn!ParseRequestLine, Conn!BadRequestLine, Conn!ParseHeader, Conn!HeadersEnd,
     Conn!Content, Conn!ContentLine, Conn!NoRequest, Conn!TakeLine, Conn!peerVars, Conn!outVars
<1>2. \/ phase' = "process_read" \/ armed' = "in"
      \/ phase' = "process_write" /\ ret' # "NO_REQUEST"
  BY DEF Conn!ProcessRead, Conn!ParseRequestLine, Conn!BadRequestLine, Conn!ParseHeader, Conn!HeadersEnd,
     Conn!Content, Conn!ContentLine, Conn!NoRequest, Conn!ParseContent, Conn!DoRequest, Conn!Answers, Conn!LoopsOn,
     Conn!Lookup
<1>3. Parsing' \/ Conn!Verdict(got) # "NO_REQUEST"
  <2>1. phase' = "process_write" => ret' = Conn!Verdict(got)'
    BY DEF ReqInv, Conn!VerdictOnRequest
  <2> QED BY <1>1, <1>2, <2>1, SameText DEF Parsing
<1> QED BY <1>1, <1>3, ClientGoesOn DEF stressVars

LEMMA ClientWritten ==
  ASSUME ConnTypes, AnswersInv, Lingers, ClientInv, Conn!ProcessWrite \/ Conn!Write, UNCHANGED stressVars
  PROVE  ClientInv'
<1>1. m_sockfd = "open" /\ ~ Parsing
  BY DEF Conn!ProcessWrite, Conn!WriteFile, Conn!WriteError, Conn!WriteRefuses, Conn!Write, Conn!WriteStarts,
     Conn!WritesOn, Conn!WriteKeeps, Conn!WriteCloses, Conn!WriteStalls, Conn!WriteFails, Conn!Sent, Parsing,
     ConnTypes, OneCall
<1>2. CASE Conn!WriteFile \/ Conn!WriteError \/ Conn!WriteStarts \/ Conn!WriteStalls
  <2>1. UNCHANGED << m_sockfd, coming, got, want, seen, split, shorts, stream >>
    BY <1>2 DEF Conn!WriteFile, Conn!WriteError, Conn!WriteStarts, Conn!WriteStalls, Conn!ReadyToWrite,
       Conn!parseVars, Conn!peerVars, Conn!outVars, stressVars
  <2> QED BY <1>1, <2>1, ClientGoesOn
<1>3. CASE Conn!WriteRefuses \/ Conn!WriteCloses \/ Conn!WriteFails
  <2>1. m_sockfd' = "closed" /\ coming' = <<>>
    BY <1>3 DEF Conn!WriteRefuses, Conn!WriteCloses, Conn!WriteFails, Conn!Closed
  <2> QED BY <1>1, <2>1, ClientServerCloses
<1>4. CASE Conn!WritesOn
  <2>1. PICK n \in 1 .. Conn!Total(m_iv) : Conn!Sent(n) /\ ~ Conn!Enough(n)
    BY <1>4 DEF Conn!WritesOn
  <2>2. UNCHANGED << m_sockfd, coming, got, want, seen, split >> /\ phase = "write"
    BY <1>4, <2>1 DEF Conn!WritesOn, Conn!Sent, Conn!parseVars, stressVars
  <2>3. shorts' # 0
    <3>1. /\ Conn!Total(m_iv) \in Nat /\ m_write_idx <= Conn!Total(m_iv) /\ m_write_idx \in Nat /\ have_send \in Nat
          /\ shorts \in Nat
      BY <2>2, ConnConstants DEF AnswersInv, BeingAnswered, AnswerTypes
    <3>2. n < Conn!Total(m_iv)
      BY <2>1, <3>1 DEF Conn!Enough
    <3> QED BY <2>1, <3>1, <3>2 DEF Conn!Sent
  <2> QED BY <1>1, <2>2, <2>3, ClientGoesOn
<1>5. CASE Conn!WriteKeeps
  BY <1>5, ClientKept
<1> QED BY <1>2, <1>3, <1>4, <1>5 DEF Conn!ProcessWrite, Conn!Write

LEMMA ClientNext ==
  ASSUME ConnTypes, ConnTypes', AnswersInv, ReqInv', Lingers, ClientInv,
         Conn!StressNext \/ UNCHANGED << connVars, stressVars >>
  PROVE  ClientInv'
<1>1. CASE UNCHANGED << connVars, stressVars >>
  BY <1>1, ClientGoesOn DEF connVars, stressVars, Parsing
<1>2. CASE Conn!Serves
  <2>1. UNCHANGED stressVars
    BY <1>2 DEF Conn!Serves, Conn!clientVars, stressVars
  <2>2. CASE Conn!ReadFills \/ Conn!CloseOnHup
    BY <2>1, <2>2, ClientServerCloses DEF Conn!ReadFills, Conn!CanRead, Conn!CloseOnHup, Conn!Closed
  <2> QED BY <1>2, <2>1, <2>2, ClientProcessRead, ClientWritten DEF Conn!Serves
<1> QED BY <1>1, <1>2, ClientStarts, ClientWrites, ClientReads, ClientRead DEF Conn!StressNext

LEMMA ClientIsServed ==
  ASSUME ConnTypes, ReqInv, ClientInv
  PROVE  Conn!PagePerRequest
<1>1. got \in Seq(ConnChars) /\ coming \in Seq(ConnChars)
  BY DEF ConnTypes, Indexes
<1>2. ASSUME shorts = 0, phase = "process_write", ~ split, want # "closed" PROVE ret = "FILE_REQUEST"
  <2>1. m_sockfd = "open" /\ ~ Parsing
    BY <1>2 DEF ConnTypes, OneCall, Parsing
  <2>2. RequestDue
    BY <1>2, <2>1 DEF ClientInv, Started, Serving, NothingDue
  <2>3. got \o coming = Conn!request
    <3>1. got \o coming = <<>> \o Conn!request
      BY <1>2, <2>2 DEF RequestDue
    <3> QED BY <3>1, RequestIs, ConcatEmptySeq
  <2>4. Conn!Verdict(got) = "FILE_REQUEST"
    BY <1>1, <2>1, <2>2, <2>3, FirstRequest DEF RequestDue
  <2> QED BY <1>2, <2>4 DEF ReqInv, Conn!VerdictOnRequest
<1>3. ASSUME shorts = 0, want = "in", m_sockfd = "open", armed = "in", coming = <<>>, ~ seen < Len(stream) PROVE FALSE
  <2>1. seen \in Nat /\ Len(stream) \in Nat
    BY DEF ClientInv, Started, ConnTypes, AnswerTypes
  <2>2. RequestDue
    BY <1>3, <2>1 DEF ClientInv, Serving, NothingDue
  <2>3. PICK x \in Ahead : got = x \o Conn!request /\ got \o coming = x \o Conn!request
    <3>1. got \o coming = got
      BY <1>1, <1>3, ConcatEmptySeq
    <3> QED BY <2>2, <3>1 DEF RequestDue
  <2>4. Conn!Verdict(got) # "NO_REQUEST"
    <3>1. CASE x = <<>>
      <4>1. got = Conn!request /\ got \o coming = Conn!request
        BY <2>3, <3>1, RequestIs, ConcatEmptySeq
      <4>2. Len(got) >= 8
        BY <4>1, RequestIs
      <4> QED BY <1>1, <4>1, <4>2, FirstRequest
    <3>2. CASE x # <<>>
      BY <2>3, <3>2, LaterRequest
    <3> QED BY <3>1, <3>2
  <2>5. m_check_state = "CONTENT"
    BY <1>3, <2>4 DEF ReqInv, Conn!VerdictOnRequest, Conn!ContentPassed
  <2>6. PICK h : HeadAt(h)
    BY <1>3, <2>5 DEF ReqInv, Parsing, InContent
  <2> QED BY <1>1, <2>3, <2>6, NoLength DEF HeadAt
<1> QED BY <1>2, <1>3 DEF Conn!PagePerRequest

\* As long as writev takes all it is given, each request of the stress client gets its
\* page if no recv cuts its x's off, and client and server never wait for one another
\* (StressClient).
THEOREM EveryRequestHasItsPage == Spec => []PagePerRequest
<1> DEFINE Known == (ConnTypes /\ AnswersInv) /\ ReqInv /\ Lingers
           Inv   == program = "StressClient" => ClientInv
<1>1. Conn!StressInit => Inv
  BY ClientInit
<1>2. Known /\ Known' /\ Inv /\ [ClientStep]_vars => Inv'
  <2> SUFFICES ASSUME Known, Known', Inv, [ClientStep]_vars, program' = "StressClient" PROVE ClientInv'
    OBVIOUS
  <2>1. program = "StressClient" /\ (Conn!StressNext \/ UNCHANGED << connVars, stressVars >>)
    BY DEF ClientStep, vars
  <2> QED BY <2>1, ClientNext
<1>3. Known /\ Inv => PagePerRequest
  BY ClientIsServed DEF PagePerRequest
<1>4. Spec => []Known
  BY ConnInvariant, RequestInvariant, LingersInvariant, PTL
<1> QED BY <1>1, <1>2, <1>3, <1>4, ClientSteps, PTL

-----------------------------------------------------------------------------
(* The types of the three larger programs                                   *)

LEMMA SameTypes == Parser!TypeOK <=> Proved!TypeOK
BY DEF Parser!TypeOK, Proved!TypeOK, Parser!read_index, Proved!read_index, Parser!Chars, Proved!Chars

\* The parsers' indexes stay in order and within their buffers, the closer's timers
\* and descriptors are what they should be, and only files that can be mapped are.
THEOREM TypesAreKept == Spec => []TypeOK
<1>1. Spec => []Proved!TypeOK
  BY ParserConstants, Proved!ParserTypeCorrect, ProvedParser
<1>2. CloserInv => Closer!TypeOK
  BY DEF CloserInv
<1>3. ConnTypes => Conn!TypeOK
  BY ConnConstants
     DEF ConnTypes, OneCall, AnswerTypes, Indexes, Requested, Files, Conn!TypeOK, Conn!m_read_idx
<1>4. Proved!TypeOK /\ CloserInv /\ ConnTypes => TypeOK
  BY <1>2, <1>3, SameTypes DEF TypeOK
<1> QED BY <1>1, <1>4, CloserInvariant, ConnInvariant, PTL
=============================================================================
