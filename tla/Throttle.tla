------------------------------ MODULE Throttle ------------------------------
(***************************************************************************)
(* The two rate limits of one key: FixedWindowThrottle of the sender and   *)
(* RateLimitStore of the receiver, each a counter of the current epoch-    *)
(* aligned window of its own clock, both kept in memory only; and what the *)
(* sender does of the receiver's 429.                                      *)
(*                                                                         *)
(* Time is counted in ticks; the receiver's clock is Skew ticks ahead.     *)
(* Clocks do not run backwards.  One request is in flight at most and one  *)
(* given up after RequestTimeout does not arrive any more.                 *)
(***************************************************************************)
EXTENDS Integers

CONSTANTS
    Limit,           \* requests per window of the sender (60)
    ServerLimit,     \* and of the receiver (120)
    Window,          \* windowMs
    Second,          \* the unit of Retry-After
    RequestTimeout,  \* REQUEST_TIMEOUT_MS
    Skew,
    MaxNow, MaxRestarts  \* bounds of the model

ASSUME ThrottleAssumption ==
    /\ {Limit, ServerLimit, Window, Second, RequestTimeout} \subseteq Nat \ {0}
    /\ {Skew, MaxNow, MaxRestarts} \subseteq Nat

VARIABLES
    now,
    windowStart, count,         \* FixedWindowThrottle
    serverWindow, serverCount,  \* RateLimitStore; NoWindow without an entry
    pc,                         \* of the send loop
    since,                      \* when the request in flight was posted
    wakeAt,                     \* end of the pause
    retryAfter,                 \* of the 429 under way, in seconds
    waitedFor,                  \* history: what the last pause was for
    acquired, restarts,         \* history: slots given and starts of the sender ...
    previous, previousRestarts  \* ... in this aligned window and the one before

throttle == <<windowStart, count>>
store == <<serverWindow, serverCount>>
history == <<acquired, restarts, previous, previousRestarts>>
vars == <<now, throttle, store, pc, since, wakeAt, retryAfter, waitedFor, history>>

NoWindow == -1
WindowStart(t) == (t \div Window) * Window

MaxOf(a, b) == IF a >= b THEN a ELSE b
CeilDiv(a, b) == (a + b - 1) \div b
-----------------------------------------------------------------------------
(***************************************************************************)
(* FixedWindowThrottle.                                                    *)
(***************************************************************************)
(* Faulty variant: the counter is not reset by a new window. *)
CountNowUnreset == count

(* The counter once the window has been brought up to date. *)
CountNow == IF WindowStart(now) = windowStart THEN count ELSE 0

(* Faulty variant: one slot too many. *)
AcquireOneMore ==
    /\ pc = "ready"
    /\ CountNow <= Limit
    /\ windowStart' = WindowStart(now)
    /\ count' = CountNow + 1
    /\ acquired' = acquired + 1
    /\ pc' = "inflight"
    /\ since' = now
    /\ UNCHANGED <<now, store, wakeAt, retryAfter, waitedFor, restarts, previous,
                   previousRestarts>>

(* tryAcquire() returns 0: the batch is posted. *)
Acquire ==
    /\ pc = "ready"
    /\ CountNow < Limit
    /\ windowStart' = WindowStart(now)
    /\ count' = CountNow + 1
    /\ acquired' = acquired + 1
    /\ pc' = "inflight"
    /\ since' = now
    /\ UNCHANGED <<now, store, wakeAt, retryAfter, waitedFor, restarts, previous,
                   previousRestarts>>

Wait == WindowStart(now) + Window - now

(* tryAcquire() returns the time to the next window: the loop sleeps. *)
Throttled ==
    /\ pc = "ready"
    /\ CountNow >= Limit
    /\ windowStart' = WindowStart(now)
    /\ count' = CountNow
    /\ pc' = "sleeping"
    /\ wakeAt' = now + Wait
    /\ waitedFor' = "throttle"
    /\ UNCHANGED <<now, store, since, retryAfter, history>>

(* sleep() is over. *)
Wake ==
    /\ pc = "sleeping"
    /\ now >= wakeAt
    /\ pc' = "ready"
    /\ UNCHANGED <<now, throttle, store, since, wakeAt, retryAfter, waitedFor, history>>
-----------------------------------------------------------------------------
(***************************************************************************)
(* RateLimitStore.consume(), on the receiver's clock.                      *)
(***************************************************************************)
ServerNow == now + Skew
ServerWindowNow == WindowStart(ServerNow)

(* Faulty variant: the seconds are cut off. *)
RetryAfterSecCut == MaxOf(1, (ServerWindowNow + Window - ServerNow) \div Second)

RetryAfterSec == MaxOf(1, CeilDiv(ServerWindowNow + Window - ServerNow, Second))

(* The first request of a window replaces the entry of the key. *)
ArriveFirst ==
    /\ pc = "inflight"
    /\ serverWindow # ServerWindowNow
    /\ serverWindow' = ServerWindowNow
    /\ serverCount' = 1
    /\ pc' = "allowed"
    /\ UNCHANGED <<now, throttle, since, wakeAt, retryAfter, waitedFor, history>>

(* A later one is counted, the refused ones too. *)
ArriveLater ==
    /\ pc = "inflight"
    /\ serverWindow = ServerWindowNow
    /\ serverCount' = serverCount + 1
    /\ IF serverCount + 1 <= ServerLimit
       THEN pc' = "allowed" /\ UNCHANGED retryAfter
       ELSE pc' = "refused" /\ retryAfter' = RetryAfterSec
    /\ UNCHANGED <<now, throttle, serverWindow, since, wakeAt, waitedFor, history>>
-----------------------------------------------------------------------------
(* A 200: the loop goes on at once. *)
Acked ==
    /\ pc = "allowed"
    /\ pc' = "ready"
    /\ waitedFor' = "none"
    /\ UNCHANGED <<now, throttle, store, since, wakeAt, retryAfter, history>>

(* A 429: rateLimitedDelayMs(), Retry-After and a jitter below a second. *)
RateLimited ==
    /\ pc = "refused"
    /\ pc' = "sleeping"
    /\ \E jitter \in 0..(Second - 1) :
        wakeAt' = now + MaxOf(1, retryAfter) * Second + jitter
    /\ waitedFor' = "retry_after"
    /\ UNCHANGED <<now, throttle, store, since, retryAfter, history>>

(* The request or its answer is lost; the pause of the backoff is whatever  *)
(* time passes until the next slot is taken.                                *)
Lose ==
    /\ pc \in {"inflight", "allowed", "refused"}
    /\ pc' = "ready"
    /\ waitedFor' = "none"
    /\ UNCHANGED <<now, throttle, store, since, wakeAt, retryAfter, history>>

(* The sender is killed and started again: a new, empty throttle. *)
RestartSender ==
    /\ restarts + previousRestarts < MaxRestarts
    /\ windowStart' = NoWindow
    /\ count' = 0
    /\ pc' = "ready"
    /\ waitedFor' = "none"
    /\ restarts' = restarts + 1
    /\ UNCHANGED <<now, store, since, wakeAt, retryAfter, acquired, previous, previousRestarts>>

RestartReceiver ==
    /\ serverWindow # NoWindow
    /\ serverWindow' = NoWindow
    /\ serverCount' = 0
    /\ pc' = IF pc \in {"inflight", "allowed", "refused"} THEN "ready" ELSE pc
    /\ waitedFor' = IF pc' # pc THEN "none" ELSE waitedFor
    /\ UNCHANGED <<now, throttle, since, wakeAt, retryAfter, history>>

ClockTick ==
    /\ now < MaxNow
    /\ pc \in {"inflight", "allowed", "refused"} => now < since + RequestTimeout
    /\ now' = now + 1
    /\ IF WindowStart(now + 1) = WindowStart(now)
       THEN UNCHANGED history
       ELSE /\ previous' = acquired /\ previousRestarts' = restarts
            /\ acquired' = 0 /\ restarts' = 0
    /\ UNCHANGED <<throttle, store, pc, since, wakeAt, retryAfter, waitedFor>>
-----------------------------------------------------------------------------
Init ==
    /\ now = 0
    /\ windowStart = NoWindow /\ count = 0
    /\ serverWindow = NoWindow /\ serverCount = 0
    /\ pc = "ready"
    /\ since = 0 /\ wakeAt = 0 /\ retryAfter = 0
    /\ waitedFor = "none"
    /\ acquired = 0 /\ restarts = 0 /\ previous = 0 /\ previousRestarts = 0

Next ==
    \/ Acquire \/ Throttled \/ Wake
    \/ ArriveFirst \/ ArriveLater
    \/ Acked \/ RateLimited \/ Lose
    \/ RestartSender \/ RestartReceiver \/ ClockTick

Spec == Init /\ [][Next]_vars
-----------------------------------------------------------------------------
(***************************************************************************)
(* Properties.                                                             *)
(***************************************************************************)
(* Every variable has its type. *)
TypeOK ==
    /\ now \in Nat
    /\ windowStart \in Nat \cup {NoWindow}
    /\ count \in 0..Limit
    /\ serverWindow \in Nat \cup {NoWindow}
    /\ serverCount \in Nat
    /\ pc \in {"ready", "sleeping", "inflight", "allowed", "refused"}
    /\ {since, wakeAt, retryAfter} \subseteq Nat
    /\ waitedFor \in {"none", "throttle", "retry_after"}
    /\ {acquired, restarts, previous, previousRestarts} \subseteq Nat

(* The claims of throttle.ts:6-10: an aligned window sees Limit requests,   *)
(* (k+1) Limit with k restarts of the sender in it; a shorter span meets    *)
(* two windows at most.                                                     *)
SendRateBound ==
    /\ acquired <= (restarts + 1) * Limit
    /\ previous <= (previousRestarts + 1) * Limit

(* After the pause the throttle asked for, the next try gets a slot: the    *)
(* loop never sleeps twice for one batch.                                   *)
ThrottleWaitIsEnough ==
    [][pc = "ready" /\ waitedFor = "throttle" => pc' # "sleeping"]_vars

(* After Retry-After and the jitter the next request is not refused, though *)
(* the sender knows neither the receiver's window nor its clock.            *)
RetryAfterIsEnough ==
    [][pc = "inflight" /\ waitedFor = "retry_after" => pc' # "refused"]_vars

(* The 429 is a last resort (rate-limit.guard.ts:24-25): it takes a restart *)
(* of the sender to be refused.  A window of the receiver meets two of the  *)
(* sender's, and twice Limit is what it allows; the request in flight when  *)
(* it begins must belong to one of these two, so the window may not begin   *)
(* within RequestTimeout of the sender's.                                   *)
RefusedOnlyAfterRestart ==
    [][pc = "inflight" /\ pc' = "refused" => restarts + previousRestarts > 0]_vars
=============================================================================
