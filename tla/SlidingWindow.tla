----------------------------- MODULE SlidingWindow -----------------------------
(* What the rate limiter promises of each key, told from the definition of a *)
(* sliding window: a request is let through exactly when fewer than its      *)
(* limit were let through during the window that ends with it.               *)
EXTENDS Integers, Sequences

CONSTANTS
  ClientKeys,      \* address and endpoint
  Limits,          \* Limits[k]: requests let through per window
  Window,          \* window_seconds
  LastInstant      \* bound: the clock stops

VARIABLES
  instant,         \* time.monotonic()
  recent,          \* the requests of the window that ends now, by their instants
  verdict          \* the answer each key got last

windowVars == <<instant, recent, verdict>>

\* Both ends belong to the window.  Instants are recorded in their order: those
\* too old are the first ones.
Within(times, now) ==
  LET old == CHOOSE n \in 0..Len(times) :
               \A i \in DOMAIN times : times[i] < now - Window <=> i <= n
  IN  SubSeq(times, old + 1, Len(times))

WindowInit ==
  /\ instant = 0
  /\ recent = [k \in ClientKeys |-> << >>]
  /\ verdict = [k \in ClientKeys |-> "none"]

Answer(k, v) == verdict' = [verdict EXCEPT ![k] = v]

LetThrough(k) ==
  /\ Len(recent[k]) < Limits[k]
  /\ recent' = [recent EXCEPT ![k] = Append(@, instant)]
  /\ Answer(k, "ok")
  /\ UNCHANGED instant

TurnAway(k) ==
  /\ Len(recent[k]) >= Limits[k]
  /\ Answer(k, "too many requests")
  /\ UNCHANGED <<instant, recent>>

Pass ==
  /\ \E t \in (instant + 1)..LastInstant : instant' = t
  /\ recent' = [k \in ClientKeys |-> Within(recent[k], instant')]
  /\ UNCHANGED verdict

WindowSpec ==
  /\ WindowInit
  /\ [][Pass \/ \E k \in ClientKeys : LetThrough(k) \/ TurnAway(k)]_windowVars
===============================================================================
