------------------------------ MODULE RateLimiter ------------------------------
(* The process-local limiter of log-in, password, clock and event requests   *)
(* (core/rate_limit.py).  hit has no await: it is one step of the event      *)
(* loop.  Buckets are emptied of old hits only when their key comes again.   *)
EXTENDS Integers, Sequences

CONSTANTS ClientKeys, Limits, Window, LastInstant

ASSUME WindowAssumption == Window \in Nat \ {0} /\ LastInstant \in Nat
ASSUME LimitsAssumption == Limits \in [ClientKeys -> Nat \ {0}]

VARIABLES
  instant,         \* time.monotonic()
  bucket,          \* _hits: a deque of instants for each key
  verdict          \* whether the key's last request raised TooManyRequestsError

limiterVars == <<instant, bucket, verdict>>

LimiterInit ==
  /\ instant = 0
  /\ bucket = [k \in ClientKeys |-> << >>]
  /\ verdict = [k \in ClientKeys |-> "none"]

\* Mutant of Stale: a hit exactly as old as the window is dropped.
StaleAtWindow(t, cutoff) == t <= cutoff
Stale(t, cutoff) == t < cutoff

\* The while loop: hits go from the left until one is not stale.
Evict(times, cutoff) ==
  LET fresh == {i \in DOMAIN times : ~Stale(times[i], cutoff)}
      first == IF fresh = {} THEN Len(times) + 1
               ELSE CHOOSE i \in fresh : \A j \in fresh : i <= j
  IN  SubSeq(times, first, Len(times))

\* A refused request leaves no hit behind.
hit(k) ==
  LET left == Evict(bucket[k], instant - Window)
  IN  /\ \/ /\ Len(left) >= Limits[k]
            /\ bucket' = [bucket EXCEPT ![k] = left]
            /\ verdict' = [verdict EXCEPT ![k] = "too many requests"]
         \/ /\ Len(left) < Limits[k]
            /\ bucket' = [bucket EXCEPT ![k] = Append(left, instant)]
            /\ verdict' = [verdict EXCEPT ![k] = "ok"]
      /\ UNCHANGED instant

TimePasses ==
  /\ \E t \in (instant + 1)..LastInstant : instant' = t
  /\ UNCHANGED <<bucket, verdict>>

LimiterNext == TimePasses \/ \E k \in ClientKeys : hit(k)

LimiterSpec == LimiterInit /\ [][LimiterNext]_limiterVars

-------------------------------------------------------------------------------
\* However late a bucket is emptied, and whatever was refused in between, a
\* request passes exactly when the window that ends with it has room: the
\* lazily emptied deques implement the sliding window.
Sliding == INSTANCE SlidingWindow WITH
             recent <- [k \in ClientKeys |-> Evict(bucket[k], instant - Window)]
LimitsByWindow == Sliding!WindowSpec
===============================================================================
