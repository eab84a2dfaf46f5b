--------------------------- MODULE ThrottleProofs ---------------------------
(***************************************************************************)
(* The bound throttle.ts claims on what a window sees, for every limit,    *)
(* window length and number of restarts.  The strengthening: what has been *)
(* acquired in the current window is what restarts have forgotten, a limit *)
(* each at most, and what the counter still knows.                         *)
(***************************************************************************)
EXTENDS Throttle, TLAPS

IInv ==
    /\ now \in Nat
    /\ windowStart \in Int
    /\ count \in 0..Limit
    /\ {acquired, restarts, previous, previousRestarts} \subseteq Nat
    /\ windowStart <= WindowStart(now)
    /\ acquired <= restarts * Limit + CountNow
    /\ previous <= (previousRestarts + 1) * Limit

(* Windows are aligned: their starts are naturals and do not decrease. *)
LEMMA WindowStartNat ==
    ASSUME NEW t \in Nat
    PROVE  WindowStart(t) \in Nat
BY ThrottleAssumption DEF WindowStart

LEMMA WindowStartMonotone ==
    ASSUME NEW t \in Nat
    PROVE  WindowStart(t) <= WindowStart(t + 1)
<1>1. t \div Window \in Nat /\ (t + 1) \div Window \in Nat
  BY ThrottleAssumption
<1>2. t \div Window <= (t + 1) \div Window
  BY ThrottleAssumption
<1> QED BY <1>1, <1>2, ThrottleAssumption DEF WindowStart

(* A restart leaves a whole limit behind. *)
LEMMA OneMoreLimit ==
    ASSUME NEW k \in Nat
    PROVE  k * Limit \in Nat /\ (k + 1) * Limit = k * Limit + Limit
BY ThrottleAssumption

LEMMA InitIInv == Init => IInv
BY ThrottleAssumption, WindowStartNat DEF Init, IInv, WindowStart, CountNow, NoWindow

LEMMA NextIInv == IInv /\ [Next]_vars => IInv'
<1> SUFFICES ASSUME IInv, [Next]_vars PROVE IInv'
  OBVIOUS
<1> USE ThrottleAssumption DEF IInv
<1>1. /\ Limit \in Nat /\ WindowStart(now) \in Nat
      /\ CountNow \in 0..Limit
      /\ restarts * Limit \in Nat
      /\ (restarts + 1) * Limit = restarts * Limit + Limit
  BY WindowStartNat, OneMoreLimit DEF CountNow
<1>2. CASE Acquire
  <2>1. now' = now /\ windowStart' = WindowStart(now) /\ count' = CountNow + 1
        /\ acquired' = acquired + 1 /\ CountNow < Limit
        /\ UNCHANGED <<restarts, previous, previousRestarts>>
    BY <1>2 DEF Acquire
  <2>2. WindowStart(now)' = WindowStart(now)
    BY <2>1 DEF WindowStart
  <2>3. CountNow' = CountNow + 1
    BY <2>1, <2>2 DEF CountNow
  <2> QED BY <1>1, <2>1, <2>2, <2>3
<1>3. CASE Throttled
  <2>1. now' = now /\ windowStart' = WindowStart(now) /\ count' = CountNow
        /\ UNCHANGED history
    BY <1>3 DEF Throttled
  <2>2. WindowStart(now)' = WindowStart(now)
    BY <2>1 DEF WindowStart
  <2>3. CountNow' = CountNow
    BY <2>1, <2>2 DEF CountNow
  <2> QED BY <1>1, <2>1, <2>2, <2>3 DEF history
<1>4. CASE RestartSender
  <2>1. now' = now /\ windowStart' = NoWindow /\ count' = 0
        /\ restarts' = restarts + 1
        /\ UNCHANGED <<acquired, previous, previousRestarts>>
    BY <1>4 DEF RestartSender
  <2>2. WindowStart(now)' = WindowStart(now)
    BY <2>1 DEF WindowStart
  <2>3. CountNow' = 0
    BY <2>1, <2>2, <1>1 DEF CountNow, NoWindow
  <2> QED BY <1>1, <2>1, <2>2, <2>3 DEF NoWindow
<1>5. CASE ClockTick
  <2>1. now' = now + 1 /\ UNCHANGED throttle
    BY <1>5 DEF ClockTick
  <2>2. WindowStart(now)' = WindowStart(now + 1)
    BY <2>1 DEF WindowStart
  <2>3. WindowStart(now) <= WindowStart(now + 1) /\ WindowStart(now + 1) \in Nat
    BY WindowStartMonotone, WindowStartNat
  <2>4. CASE WindowStart(now + 1) = WindowStart(now)
    <3>1. UNCHANGED history
      BY <1>5, <2>4 DEF ClockTick
    <3>2. CountNow' = CountNow
      BY <2>1, <2>2, <2>4 DEF CountNow, throttle
    <3> QED BY <1>1, <2>1, <2>2, <2>3, <2>4, <3>1, <3>2 DEF history, throttle
  <2>5. CASE WindowStart(now + 1) # WindowStart(now)
    <3>1. /\ previous' = acquired /\ previousRestarts' = restarts
          /\ acquired' = 0 /\ restarts' = 0
      BY <1>5, <2>5 DEF ClockTick
    <3>2. CountNow' = 0
      BY <1>1, <2>1, <2>2, <2>3, <2>5 DEF CountNow, throttle
    <3> QED BY <1>1, <2>1, <2>2, <2>3, <3>1, <3>2 DEF throttle
  <2> QED BY <2>4, <2>5
<1>6. CASE UNCHANGED <<now, throttle, history>>
  <2>1. CountNow' = CountNow /\ WindowStart(now)' = WindowStart(now)
    BY <1>6 DEF CountNow, WindowStart, throttle
  <2> QED BY <1>6, <2>1 DEF throttle, history
<1>7. ASSUME Wake \/ ArriveFirst \/ ArriveLater \/ Acked \/ RateLimited \/ Lose
             \/ RestartReceiver \/ UNCHANGED vars
      PROVE  UNCHANGED <<now, throttle, history>>
  BY <1>7 DEF Wake, ArriveFirst, ArriveLater, Acked, RateLimited, Lose, RestartReceiver, vars
<1> QED BY <1>2, <1>3, <1>4, <1>5, <1>6, <1>7 DEF Next

LEMMA IInvBound == IInv => SendRateBound
<1> SUFFICES ASSUME IInv PROVE SendRateBound
  OBVIOUS
<1>1. restarts * Limit \in Nat /\ (restarts + 1) * Limit = restarts * Limit + Limit
  BY OneMoreLimit DEF IInv
<1>2. CountNow <= Limit /\ CountNow \in Nat
  BY ThrottleAssumption DEF IInv, CountNow
<1> QED BY <1>1, <1>2, ThrottleAssumption DEF IInv, SendRateBound

(* Every behaviour of the sender keeps the bound, whatever the receiver,    *)
(* the skew of the clocks and the number of restarts (throttle.ts:6-10).    *)
THEOREM SendRateBounded == Spec => []SendRateBound
BY InitIInv, NextIInv, IInvBound, PTL DEF Spec
-----------------------------------------------------------------------------
(* What the end of a pause promises, for the pause of the throttle and for  *)
(* that of a 429: the window that refused the request is over by then, on   *)
(* the clock of the one who counts.                                         *)
ServerWindowOver(t) == serverWindow = NoWindow \/ serverWindow + Window <= t + Skew

WaitInv ==
    /\ {now, wakeAt, retryAfter} \subseteq Nat
    /\ {windowStart, serverWindow} \subseteq Int
    /\ waitedFor = "throttle" =>
          /\ pc = "sleeping" => windowStart + Window <= wakeAt
          /\ pc = "ready" => windowStart + Window <= now
    /\ waitedFor = "retry_after" =>
          /\ pc = "sleeping" => ServerWindowOver(wakeAt)
          /\ pc \in {"ready", "inflight"} => ServerWindowOver(now)
    /\ pc = "refused" => serverWindow + Window <= now + Skew + retryAfter * Second

LEMMA DivisionBounds ==
    ASSUME NEW a \in Int, NEW b \in Nat \ {0}
    PROVE  /\ a \div b \in Int
           /\ (a \div b) * b <= a
           /\ a < (a \div b) * b + b
OBVIOUS

LEMMA WindowContains ==
    ASSUME NEW t \in Nat
    PROVE  WindowStart(t) \in Nat /\ t < WindowStart(t) + Window
<1>1. Window \in Nat \ {0} /\ t \in Int /\ WindowStart(t) \in Nat
  BY WindowStartNat, ThrottleAssumption
<1>2. t < (t \div Window) * Window + Window
  BY <1>1, DivisionBounds
<1> QED BY <1>1, <1>2 DEF WindowStart

LEMMA CeilDivCovers ==
    ASSUME NEW a \in Int, NEW b \in Nat \ {0}
    PROVE  CeilDiv(a, b) \in Int /\ a <= CeilDiv(a, b) * b
<1> DEFINE c == a + b - 1
           q == c \div b
<1>1. c \in Int /\ b \in Int
  OBVIOUS
<1>2. q \in Int /\ c < q * b + b
  BY <1>1, DivisionBounds
<1> HIDE DEF q
<1>3. q * b \in Int
  BY <1>1, <1>2
<1>4. a <= q * b
  BY <1>1, <1>2, <1>3
<1> QED BY <1>2, <1>4 DEF q, CeilDiv

(* Retry-After reaches the end of the receiver's window. *)
LEMMA RetryAfterCovers ==
    ASSUME now \in Nat
    PROVE  /\ RetryAfterSec \in Nat \ {0}
           /\ RetryAfterSec * Second \in Nat
           /\ ServerWindowNow + Window <= now + Skew + RetryAfterSec * Second
<1> DEFINE a == ServerWindowNow + Window - ServerNow
           c == CeilDiv(a, Second)
<1>1. ServerNow \in Nat /\ ServerNow = now + Skew /\ Second \in Nat \ {0} /\ Window \in Nat
  BY ThrottleAssumption DEF ServerNow
<1>2. ServerWindowNow \in Nat /\ ServerNow < ServerWindowNow + Window
  BY <1>1, WindowContains DEF ServerWindowNow
<1>3. a \in Int /\ a > 0
  BY <1>1, <1>2
<1>4. c \in Int /\ a <= c * Second
  BY <1>1, <1>3, CeilDivCovers
<1> HIDE DEF c
<1>5. c > 0
  <2>1. CASE c <= 0
    <3>1. c * Second <= 0
      BY <1>1, <1>4, <2>1
    <3> QED BY <1>1, <1>3, <1>4, <3>1
  <2> QED BY <1>4, <2>1
<1>6. RetryAfterSec = c
  BY <1>4, <1>5 DEF RetryAfterSec, MaxOf, c
<1>7. c * Second \in Nat
  BY <1>1, <1>4, <1>5
<1> QED BY <1>1, <1>2, <1>4, <1>5, <1>6, <1>7

LEMMA WaitInit == Init => WaitInv
BY ThrottleAssumption DEF Init, WaitInv, NoWindow

LEMMA WaitNext == WaitInv /\ [Next]_vars => WaitInv'
<1> SUFFICES ASSUME WaitInv, [Next]_vars PROVE WaitInv'
  OBVIOUS
<1>0. /\ now \in Nat /\ wakeAt \in Nat /\ retryAfter \in Nat /\ windowStart \in Int
      /\ serverWindow \in Int /\ Window \in Nat \ {0} /\ Second \in Nat \ {0} /\ Skew \in Nat
      /\ WindowStart(now) \in Nat /\ NoWindow \in Int /\ retryAfter * Second \in Nat
      /\ ServerWindowNow \in Nat
  <2>1. now + Skew \in Nat
    BY ThrottleAssumption DEF WaitInv
  <2> QED BY <2>1, ThrottleAssumption, WindowStartNat DEF WaitInv, NoWindow, ServerWindowNow, ServerNow
<1>1. CASE Acquire
  <2>1. /\ UNCHANGED <<now, serverWindow, wakeAt, retryAfter, waitedFor>>
        /\ pc = "ready" /\ pc' = "inflight" /\ windowStart' = WindowStart(now)
    BY <1>1 DEF Acquire, store
  <2> QED BY <1>0, <2>1 DEF WaitInv, ServerWindowOver
<1>2. CASE Throttled
  <2>1. /\ UNCHANGED <<now, serverWindow, retryAfter>> /\ pc' = "sleeping"
        /\ waitedFor' = "throttle" /\ windowStart' = WindowStart(now)
        /\ wakeAt' = now + (WindowStart(now) + Window - now)
    BY <1>2 DEF Throttled, Wait, store
  <2>2. wakeAt' = WindowStart(now) + Window /\ wakeAt' \in Nat
    BY <1>0, <2>1
  <2> QED BY <1>0, <2>1, <2>2 DEF WaitInv
<1>3. CASE Wake
  <2>1. /\ UNCHANGED <<now, windowStart, serverWindow, wakeAt, retryAfter, waitedFor>>
        /\ pc = "sleeping" /\ pc' = "ready" /\ now >= wakeAt
    BY <1>3 DEF Wake, store, throttle
  <2> QED BY <1>0, <2>1 DEF WaitInv, ServerWindowOver
<1>4. CASE ArriveFirst
  <2>1. /\ UNCHANGED <<now, windowStart, wakeAt, retryAfter, waitedFor>>
        /\ pc' = "allowed" /\ serverWindow' = ServerWindowNow
    BY <1>4 DEF ArriveFirst, throttle
  <2> QED BY <1>0, <2>1 DEF WaitInv
<1>5. CASE ArriveLater
  <2>1. /\ UNCHANGED <<now, windowStart, serverWindow, wakeAt, waitedFor>>
        /\ serverWindow = ServerWindowNow
        /\ \/ pc' = "allowed" /\ retryAfter' = retryAfter
           \/ pc' = "refused" /\ retryAfter' = RetryAfterSec
    BY <1>5 DEF ArriveLater, throttle
  <2> QED BY <1>0, <2>1, RetryAfterCovers DEF WaitInv
<1>6. CASE RateLimited
  <2>1. PICK jitter \in 0..(Second - 1) :
           wakeAt' = now + MaxOf(1, retryAfter) * Second + jitter
    BY <1>6 DEF RateLimited
  <2>2. /\ UNCHANGED <<now, windowStart, serverWindow, retryAfter>>
        /\ pc = "refused" /\ pc' = "sleeping" /\ waitedFor' = "retry_after"
    BY <1>6 DEF RateLimited, throttle, store
  <2>3. /\ MaxOf(1, retryAfter) * Second \in Nat
        /\ retryAfter * Second <= MaxOf(1, retryAfter) * Second
    <3>1. CASE retryAfter <= 1
      <4>1. retryAfter \in {0, 1} /\ MaxOf(1, retryAfter) = 1
        BY <1>0, <3>1 DEF MaxOf
      <4> QED BY <1>0, <4>1
    <3>2. CASE retryAfter > 1
      <4>1. MaxOf(1, retryAfter) = retryAfter
        BY <1>0, <3>2 DEF MaxOf
      <4> QED BY <1>0, <4>1
    <3> QED BY <1>0, <3>1, <3>2
  <2> DEFINE m == MaxOf(1, retryAfter) * Second
             n == retryAfter * Second
  <2>4. serverWindow + Window <= now + Skew + n
    BY <2>2 DEF WaitInv
  <2>5. jitter \in Nat /\ wakeAt' = now + m + jitter /\ m \in Nat /\ n \in Nat /\ n <= m
    BY <1>0, <2>1, <2>3
  <2> HIDE DEF m, n
  <2>6. wakeAt' \in Nat /\ serverWindow + Window <= wakeAt' + Skew
    BY <1>0, <2>4, <2>5
  <2> QED BY <1>0, <2>2, <2>6 DEF WaitInv, ServerWindowOver
<1>7. CASE Acked \/ Lose \/ RestartSender
  <2>1. /\ UNCHANGED <<now, serverWindow, wakeAt, retryAfter>>
        /\ windowStart' \in {windowStart, NoWindow}
        /\ pc' = "ready" /\ waitedFor' = "none"
    BY <1>7 DEF Acked, Lose, RestartSender, throttle, store
  <2> QED BY <1>0, <2>1 DEF WaitInv
<1>8. CASE RestartReceiver
  <2>1. /\ UNCHANGED <<now, windowStart, wakeAt, retryAfter>> /\ serverWindow' = NoWindow
        /\ \/ pc' = "ready" /\ waitedFor' = "none"
           \/ pc' = pc /\ waitedFor' = waitedFor /\ pc \notin {"inflight", "allowed", "refused"}
    BY <1>8 DEF RestartReceiver, throttle
  <2> QED BY <1>0, <2>1 DEF WaitInv, ServerWindowOver
<1>9. CASE ClockTick
  <2>1. /\ now' = now + 1
        /\ UNCHANGED <<windowStart, serverWindow, pc, wakeAt, retryAfter, waitedFor>>
    BY <1>9 DEF ClockTick, throttle, store
  <2> DEFINE n == retryAfter * Second
  <2>2. n' = n
    BY <2>1
  <2>3. pc = "refused" => serverWindow + Window <= now + 1 + Skew + n
    <3>1. pc = "refused" => serverWindow + Window <= now + Skew + n
      BY DEF WaitInv
    <3>2. n \in Nat
      BY <1>0
    <3> HIDE DEF n
    <3> QED BY <1>0, <3>1, <3>2
  <2> HIDE DEF n
  <2> QED BY <1>0, <2>1, <2>2, <2>3 DEF WaitInv, ServerWindowOver, n
<1>10. CASE UNCHANGED vars
  BY <1>10 DEF WaitInv, ServerWindowOver, vars, throttle, store
<1> QED BY <1>1, <1>2, <1>3, <1>4, <1>5, <1>6, <1>7, <1>8, <1>9, <1>10 DEF Next

(* The time tryAcquire() returns reaches the next window, whose counter is  *)
(* empty: the send loop is never put to sleep twice for one slot.           *)
THEOREM ThrottleWaitSuffices == Spec => ThrottleWaitIsEnough
<1>1. ASSUME WaitInv, [Next]_vars, pc = "ready", waitedFor = "throttle"
      PROVE  pc' # "sleeping"
  <2>1. windowStart + Window <= now /\ now \in Nat /\ windowStart \in Int
    BY <1>1 DEF WaitInv
  <2>2. WindowStart(now) # windowStart
    BY <2>1, WindowContains, ThrottleAssumption
  <2>3. ~Throttled
    BY <2>2, ThrottleAssumption DEF Throttled, CountNow
  <2> QED BY <1>1, <2>3 DEF Next, Acquire, Wake, ArriveFirst, ArriveLater, Acked, RateLimited,
                           Lose, RestartSender, RestartReceiver, ClockTick, vars
<1>2. WaitInv /\ [Next]_vars =>
         [pc = "ready" /\ waitedFor = "throttle" => pc' # "sleeping"]_vars
  BY <1>1
<1> QED BY <1>2, WaitInit, WaitNext, PTL DEF Spec, ThrottleWaitIsEnough

(* Whatever the skew of the clocks: the request after a pause that honours  *)
(* Retry-After opens a new window of the receiver and is let in.            *)
THEOREM RetryAfterSuffices == Spec => RetryAfterIsEnough
<1>1. ASSUME WaitInv, [Next]_vars, pc = "inflight", waitedFor = "retry_after"
      PROVE  pc' # "refused"
  <2>1. ServerWindowOver(now) /\ now \in Nat /\ serverWindow \in Int
    BY <1>1 DEF WaitInv
  <2>2. now + Skew \in Nat
    BY <2>1, ThrottleAssumption
  <2>3. serverWindow # ServerWindowNow
    BY <2>1, <2>2, WindowContains, ThrottleAssumption
       DEF ServerWindowOver, ServerWindowNow, ServerNow, NoWindow
  <2>4. ~ArriveLater
    BY <2>3 DEF ArriveLater
  <2> QED BY <1>1, <2>4 DEF Next, Acquire, Throttled, Wake, ArriveFirst, Acked, RateLimited,
                           Lose, RestartSender, RestartReceiver, ClockTick, vars
<1>2. WaitInv /\ [Next]_vars =>
         [pc = "inflight" /\ waitedFor = "retry_after" => pc' # "refused"]_vars
  BY <1>1
<1> QED BY <1>2, WaitInit, WaitNext, PTL DEF Spec, RetryAfterIsEnough
-----------------------------------------------------------------------------
(* The conditions under which the sender's limit keeps the receiver's: the  *)
(* receiver allows twice as much, a request is given up within a window,    *)
(* and the receiver's window begins with the sender's or late enough in it  *)
(* for the requests of the sender's last window to be over.                 *)
Headroom ==
    /\ 2 * Limit <= ServerLimit
    /\ RequestTimeout <= Window
    /\ \A t \in Nat :
         LET begin == WindowStart(t + Skew) - Skew
         IN  begin > WindowStart(t) => begin >= WindowStart(t) + RequestTimeout

ServerBegin == ServerWindowNow - Skew

(* The requests the receiver has counted in its window, and the one that is *)
(* on its way to it. *)
Counted == serverCount + (IF pc = "inflight" THEN 1 ELSE 0)

(* They were posted in the sender's window in which the receiver's began,   *)
(* or after it.                                                             *)
CountedInv ==
    /\ {now, since, serverCount} \subseteq Nat
    /\ serverWindow \in Int
    /\ serverWindow <= ServerWindowNow
    /\ pc = "inflight" =>
         /\ since <= now /\ now <= since + RequestTimeout
         /\ since >= WindowStart(now) => acquired >= 1
         /\ since < WindowStart(now) => previous >= 1
    /\ serverWindow = ServerWindowNow =>
         /\ Counted <= acquired + previous
         /\ ServerBegin > WindowStart(now) => Counted <= acquired

(* A number of windows is a multiple in one way only. *)
LEMMA MultiplesApart ==
    ASSUME NEW a \in Int, NEW b \in Int, NEW w \in Nat \ {0}, a < b
    PROVE  a * w + w <= b * w
<1>1. a + 1 <= b
  OBVIOUS
<1>2. (a + 1) * w <= b * w
  BY <1>1
<1>3. (a + 1) * w = a * w + w
  OBVIOUS
<1> QED BY <1>2, <1>3

(* The next window begins a whole window later. *)
LEMMA WindowsApart ==
    ASSUME NEW s \in Nat, NEW t \in Nat, WindowStart(s) < WindowStart(t)
    PROVE  WindowStart(s) + Window <= WindowStart(t)
<1> DEFINE a == s \div Window
           b == t \div Window
<1>1. a \in Int /\ b \in Int /\ Window \in Nat \ {0}
  BY ThrottleAssumption
<1>2. WindowStart(s) = a * Window /\ WindowStart(t) = b * Window
  BY DEF WindowStart
<1> HIDE DEF a, b
<1>3. a < b
  <2>1. CASE b <= a
    <3>1. b * Window <= a * Window
      BY <1>1, <2>1
    <3>2. a * Window \in Int /\ b * Window \in Int
      BY <1>1
    <3> QED BY <1>2, <3>1, <3>2
  <2> QED BY <1>1, <2>1
<1> QED BY <1>1, <1>2, <1>3, MultiplesApart

(* A window begins at its start. *)
LEMMA WindowStartBelow ==
    ASSUME NEW t \in Nat
    PROVE  WindowStart(t) <= t
BY ThrottleAssumption, DivisionBounds DEF WindowStart

(* Where now is in the windows of both clocks. *)
LEMMA WindowsNow ==
    ASSUME now \in Nat
    PROVE  /\ WindowStart(now) \in Nat /\ ServerWindowNow \in Nat
           /\ WindowStart(now) <= now /\ now < WindowStart(now) + Window
           /\ ServerWindowNow <= now + Skew /\ now + Skew < ServerWindowNow + Window
<1>1. now + Skew \in Nat
  BY ThrottleAssumption
<1> QED BY <1>1, WindowContains, WindowStartBelow DEF ServerWindowNow, ServerNow

LEMMA CountedInit == Init => CountedInv
<1> SUFFICES ASSUME Init PROVE CountedInv
  OBVIOUS
<1>1. ServerWindowNow \in Nat
  BY WindowsNow DEF Init
<1> QED BY <1>1 DEF Init, CountedInv, NoWindow

(* The first request of a window was not posted before the sender's window  *)
(* in which it begins. *)
LEMMA ArriveFirstCounted ==
    ASSUME Headroom, IInv, CountedInv, ArriveFirst
    PROVE  CountedInv'
<1> USE ThrottleAssumption
<1>1. /\ UNCHANGED <<now, since, acquired, previous>> /\ pc = "inflight" /\ pc' = "allowed"
      /\ serverWindow' = ServerWindowNow /\ serverCount' = 1
  BY DEF ArriveFirst, history
<1>2. ServerWindowNow' = ServerWindowNow /\ WindowStart(now)' = WindowStart(now) /\ Counted' = 1
  BY <1>1 DEF ServerWindowNow, ServerNow, WindowStart, Counted
<1>3. /\ {now, since, acquired, previous} \subseteq Nat /\ now <= since + RequestTimeout
      /\ since >= WindowStart(now) => acquired >= 1
      /\ since < WindowStart(now) => previous >= 1
  BY <1>1 DEF IInv, CountedInv
<1>4. ASSUME ServerBegin > WindowStart(now) PROVE acquired >= 1
  <2>1. ServerBegin >= WindowStart(now) + RequestTimeout
    BY <1>3, <1>4 DEF Headroom, ServerBegin, ServerWindowNow, ServerNow
  <2>2. ServerBegin <= now /\ ServerBegin \in Int /\ WindowStart(now) \in Nat
    BY <1>3, WindowsNow DEF ServerBegin
  <2> QED BY <1>3, <2>1, <2>2
<1>5. ServerBegin' = ServerBegin
  BY <1>2 DEF ServerBegin
<1>6. WindowStart(now) \in Nat /\ ServerWindowNow \in Nat
  BY <1>3, WindowsNow
<1> QED BY <1>1, <1>2, <1>3, <1>4, <1>5, <1>6 DEF CountedInv

LEMMA ClockTickCounted ==
    ASSUME Headroom, IInv, CountedInv, ClockTick
    PROVE  CountedInv'
<1> USE ThrottleAssumption
<1> DEFINE cur == WindowStart(now)
           next == WindowStart(now + 1)
<1>1. /\ now' = now + 1 /\ UNCHANGED <<pc, since, serverWindow, serverCount>>
      /\ pc = "inflight" => now < since + RequestTimeout
      /\ {now, since, acquired, previous, serverCount} \subseteq Nat /\ serverWindow \in Int
  BY DEF ClockTick, store, IInv, CountedInv
<1>2. /\ cur \in Nat /\ cur <= now /\ now < cur + Window
      /\ ServerWindowNow \in Nat /\ ServerWindowNow <= now + Skew
      /\ now + Skew < ServerWindowNow + Window
  BY <1>1, WindowsNow
<1>3. /\ next \in Nat /\ next <= now + 1 /\ cur <= next
      /\ next = cur \/ cur + Window <= next
  <2>1. now \in Nat /\ now + 1 \in Nat
    BY <1>1
  <2>2. next \in Nat /\ next <= now + 1 /\ cur <= next
    BY <2>1, WindowStartNat, WindowStartBelow, WindowStartMonotone
  <2>3. cur < next => cur + Window <= next
    BY <2>1, WindowsApart
  <2> HIDE DEF cur, next
  <2> QED BY <1>2, <2>2, <2>3
<1>4. WindowStart(now)' = next /\ Counted' = Counted /\ Counted \in Nat
  BY <1>1 DEF WindowStart, Counted
<1>5. /\ ServerWindowNow' \in Nat /\ ServerWindowNow <= ServerWindowNow'
      /\ now + 1 + Skew < ServerWindowNow' + Window
  <2>1. now + Skew \in Nat /\ now + Skew + 1 \in Nat /\ now + Skew + 1 = now + 1 + Skew
    BY <1>1
  <2>2. ServerWindowNow = WindowStart(now + Skew) /\ ServerWindowNow' = WindowStart(now + Skew + 1)
    BY <1>1, <2>1 DEF ServerWindowNow, ServerNow, WindowStart
  <2> QED BY <2>1, <2>2, WindowStartMonotone, WindowStartNat, WindowContains
<1>6. ServerBegin' = ServerWindowNow' - Skew /\ ServerBegin = ServerWindowNow - Skew
  BY DEF ServerBegin
<1>7. serverWindow = ServerWindowNow' => serverWindow = ServerWindowNow /\ ServerBegin' = ServerBegin
  BY <1>1, <1>2, <1>5, <1>6 DEF CountedInv
<1>8. CASE next = cur
  <2>1. UNCHANGED <<acquired, previous>>
    BY <1>8 DEF ClockTick, history
  <2>2. serverWindow' <= ServerWindowNow'
    BY <1>1, <1>2, <1>5 DEF CountedInv
  <2>3. pc' = "inflight" =>
           /\ since' <= now' /\ now' <= since' + RequestTimeout
           /\ since' >= WindowStart(now)' => acquired' >= 1
           /\ since' < WindowStart(now)' => previous' >= 1
    BY <1>1, <1>4, <1>8, <2>1 DEF CountedInv
  <2>4. serverWindow' = ServerWindowNow' =>
           /\ Counted' <= acquired' + previous'
           /\ ServerBegin' > WindowStart(now)' => Counted' <= acquired'
    BY <1>1, <1>4, <1>7, <1>8, <2>1 DEF CountedInv
  <2> QED BY <1>1, <2>2, <2>3, <2>4 DEF CountedInv
<1>9. CASE cur + Window <= next
  <2>1. previous' = acquired /\ acquired' = 0 /\ next = now + 1
    <3>1. next # cur
      BY <1>2, <1>3, <1>9
    <3>2. next > now
      BY <1>1, <1>2, <1>3, <1>9
    <3> QED BY <1>1, <1>3, <3>1, <3>2 DEF ClockTick
  <2>2. serverWindow' <= ServerWindowNow'
    BY <1>1, <1>2, <1>5 DEF CountedInv
  <2>3. ASSUME pc' = "inflight"
        PROVE  /\ since' <= now' /\ now' <= since' + RequestTimeout
               /\ since' < WindowStart(now)' /\ previous' >= 1
    <3>1. since <= now /\ now + 1 <= since + RequestTimeout
      BY <1>1, <2>3 DEF CountedInv
    <3>2. since >= cur
      BY <1>1, <1>2, <1>9, <2>1, <3>1 DEF Headroom
    <3> QED BY <1>1, <1>4, <2>1, <2>3, <3>1, <3>2 DEF CountedInv
  <2>4. ASSUME serverWindow' = ServerWindowNow'
        PROVE  /\ Counted' <= acquired' + previous'
               /\ ~(ServerBegin' > WindowStart(now)')
    <3>1. serverWindow = ServerWindowNow /\ ServerBegin' = ServerBegin
      BY <1>1, <1>7, <2>4
    <3>2. ServerBegin > cur /\ ServerBegin <= now
      BY <1>1, <1>2, <1>5, <1>6, <1>9, <2>1, <3>1
    <3>3. Counted <= acquired
      BY <3>1, <3>2 DEF CountedInv
    <3> QED BY <1>1, <1>4, <1>6, <1>2, <2>1, <3>1, <3>2, <3>3
  <2> QED BY <1>1, <1>4, <2>1, <2>2, <2>3, <2>4 DEF CountedInv
<1> QED BY <1>3, <1>8, <1>9

LEMMA CountedNext ==
    ASSUME Headroom, IInv, CountedInv, [Next]_vars
    PROVE  CountedInv'
<1> USE ThrottleAssumption
<1>0. /\ {now, since, acquired, previous, serverCount} \subseteq Nat /\ serverWindow \in Int
      /\ WindowStart(now) \in Nat /\ WindowStart(now) <= now /\ ServerWindowNow \in Nat
  BY WindowsNow DEF IInv, CountedInv
<1>1. ASSUME now' = now
      PROVE  /\ WindowStart(now)' = WindowStart(now)
             /\ ServerWindowNow' = ServerWindowNow /\ ServerBegin' = ServerBegin
  BY <1>1 DEF WindowStart, ServerWindowNow, ServerNow, ServerBegin
<1>2. CASE Acquire
  <2>1. /\ UNCHANGED <<now, serverWindow, serverCount, previous>>
        /\ pc = "ready" /\ pc' = "inflight" /\ since' = now /\ acquired' = acquired + 1
    BY <1>2 DEF Acquire, store
  <2>2. Counted' = Counted + 1 /\ Counted \in Nat
    BY <1>0, <2>1 DEF Counted
  <2> QED BY <1>0, <1>1, <2>1, <2>2 DEF CountedInv
<1>3. CASE ArriveLater
  <2>1. /\ UNCHANGED <<now, since, serverWindow, acquired, previous>>
        /\ pc = "inflight" /\ pc' # "inflight" /\ serverCount' = serverCount + 1
    BY <1>3 DEF ArriveLater, history
  <2>2. Counted' = Counted
    BY <1>0, <2>1 DEF Counted
  <2> QED BY <1>0, <1>1, <2>1, <2>2 DEF CountedInv
<1>4. CASE RestartReceiver
  <2>1. /\ UNCHANGED <<now, since, acquired, previous>>
        /\ pc' # "inflight" /\ serverWindow' = NoWindow /\ serverCount' = 0
    BY <1>4 DEF RestartReceiver, history
  <2> QED BY <1>0, <1>1, <2>1 DEF CountedInv, NoWindow
<1>5. CASE Throttled \/ Wake \/ Acked \/ RateLimited \/ Lose \/ RestartSender
  <2>1. /\ UNCHANGED <<now, since, serverWindow, serverCount, acquired, previous>>
        /\ pc' # "inflight"
    BY <1>5 DEF Throttled, Wake, Acked, RateLimited, Lose, RestartSender, store, history
  <2>2. Counted' <= Counted /\ Counted \in Nat /\ Counted' \in Nat
    BY <1>0, <2>1 DEF Counted
  <2> QED BY <1>0, <1>1, <2>1, <2>2 DEF CountedInv
<1>6. CASE UNCHANGED vars
  <2>1. UNCHANGED <<now, since, serverWindow, serverCount, acquired, previous, pc>>
    BY <1>6 DEF vars, store, history
  <2>2. Counted' = Counted
    BY <2>1 DEF Counted
  <2> QED BY <1>0, <1>1, <2>1, <2>2 DEF CountedInv
<1> QED BY <1>2, <1>3, <1>4, <1>5, <1>6, ArriveFirstCounted, ClockTickCounted DEF Next

(* With this headroom a 429 takes a restart of the sender, as the guard     *)
(* promises (rate-limit.guard.ts:24-25), whatever the receiver does.        *)
THEOREM RefusalTakesRestart == Headroom => (Spec => RefusedOnlyAfterRestart)
<1> SUFFICES ASSUME Headroom PROVE Spec => RefusedOnlyAfterRestart
  OBVIOUS
<1>1. ASSUME IInv, CountedInv, [Next]_vars, pc = "inflight", pc' = "refused"
      PROVE  restarts + previousRestarts > 0
  <2>1. serverWindow = ServerWindowNow /\ serverCount + 1 > ServerLimit
    BY <1>1, ThrottleAssumption DEF CountedInv, Next, Acquire, Throttled, Wake, ArriveFirst,
       ArriveLater, Acked, RateLimited, Lose, RestartSender, RestartReceiver, ClockTick, vars
  <2>2. serverCount + 1 <= acquired + previous
    BY <1>1, <2>1 DEF CountedInv, Counted
  <2>3. CASE restarts = 0 /\ previousRestarts = 0
    <3>1. acquired <= Limit /\ previous <= Limit
      BY <1>1, <2>3, IInvBound, ThrottleAssumption DEF SendRateBound
    <3> QED BY <1>1, <2>1, <2>2, <3>1, ThrottleAssumption DEF Headroom, IInv, CountedInv
  <2> QED BY <1>1, <2>3 DEF IInv
<1>2. IInv /\ CountedInv /\ [Next]_vars =>
         [pc = "inflight" /\ pc' = "refused" => restarts + previousRestarts > 0]_vars
  BY <1>1
<1>3. IInv /\ CountedInv /\ [Next]_vars => CountedInv'
  BY CountedNext
<1> QED BY <1>2, <1>3, InitIInv, NextIInv, CountedInit, PTL DEF Spec, RefusedOnlyAfterRestart
-----------------------------------------------------------------------------
(* The invariants above hold the numbers; what is left are the positions of *)
(* the send loop and the windows. *)
PlaceOK ==
    /\ windowStart \in Nat \cup {NoWindow}
    /\ serverWindow \in Nat \cup {NoWindow}
    /\ serverCount \in Nat /\ since \in Nat
    /\ pc \in {"ready", "sleeping", "inflight", "allowed", "refused"}
    /\ waitedFor \in {"none", "throttle", "retry_after"}

LEMMA PlaceNext == IInv /\ PlaceOK /\ [Next]_vars => PlaceOK'
<1> SUFFICES ASSUME IInv, PlaceOK, [Next]_vars PROVE PlaceOK'
  OBVIOUS
<1>1. now \in Nat /\ WindowStart(now) \in Nat /\ ServerWindowNow \in Nat
  BY WindowsNow DEF IInv
<1>2. /\ windowStart' \in {windowStart, WindowStart(now), NoWindow}
      /\ serverWindow' \in {serverWindow, ServerWindowNow, NoWindow}
      /\ serverCount' \in {serverCount, serverCount + 1, 0, 1}
      /\ since' \in {since, now}
  BY DEF Next, Acquire, Throttled, Wake, ArriveFirst, ArriveLater, Acked, RateLimited, Lose,
         RestartSender, RestartReceiver, ClockTick, vars, throttle, store
<1>3. /\ pc' \in {pc, "ready", "sleeping", "inflight", "allowed", "refused"}
      /\ waitedFor' \in {waitedFor, "none", "throttle", "retry_after"}
  BY DEF Next, Acquire, Throttled, Wake, ArriveFirst, ArriveLater, Acked, RateLimited, Lose,
         RestartSender, RestartReceiver, ClockTick, vars
<1> QED BY <1>1, <1>2, <1>3 DEF PlaceOK

(* Every variable keeps its type; no counter of the throttle passes Limit.  *)
THEOREM ThrottleTypeCorrect == Spec => []TypeOK
<1>1. Init => PlaceOK
  BY DEF Init, PlaceOK
<1>2. IInv /\ WaitInv /\ PlaceOK => TypeOK
  BY DEF IInv, WaitInv, PlaceOK, TypeOK
<1> QED BY <1>1, <1>2, PlaceNext, InitIInv, NextIInv, WaitInit, WaitNext, PTL DEF Spec
=============================================================================
