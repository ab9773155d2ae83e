----------------------------- MODULE RateLimiter -----------------------------
(***************************************************************************)
(* The token bucket which every API call of the fan-out passes through     *)
(* (sentinel/agent/ratelimit.py). Tokens are counted in quanta, Q to a     *)
(* token, of which Gain flow in per unit of time: the rate is Gain / Q.    *)
(***************************************************************************)
EXTENDS Naturals, Sequences

CONSTANTS Threads,
          Capacity,   \* burst: tokens in a full bucket
          Q, Gain,    \* quanta per token, quanta gained per unit of time
          MaxTime,    \* bound on the clock
          MaxCalls    \* bound on the calls of each thread

ASSUME RateAssumption == /\ Capacity \in Nat \ {0}
                         /\ Q \in Nat \ {0}
                         /\ Gain \in Nat \ {0}
                         /\ MaxTime \in Nat
                         /\ MaxCalls \in Nat

VARIABLES
  clock,
  tokens, last,    \* _tokens in quanta, _last
  stage, wake,        \* per thread: where it is, until when it sleeps
  calls,           \* per thread: calls of acquire so far
  grants           \* history: the times at which acquire returned

bucket == <<tokens, last>>
rateVars == <<clock, bucket, stage, wake, calls, grants>>

RateTypeOK ==
  /\ clock \in Nat
  /\ tokens \in 0..(Capacity * Q)
  /\ last \in 0..clock
  /\ stage \in [Threads -> {"idle", "trying", "sleeping"}]
  /\ wake \in [Threads -> Nat]
  /\ calls \in [Threads -> Nat]
  /\ grants \in Seq(Nat)

RateInit ==
  /\ clock = 0
  /\ tokens = Capacity * Q /\ last = 0
  /\ stage = [t \in Threads |-> "idle"]
  /\ wake = [t \in Threads |-> 0]
  /\ calls = [t \in Threads |-> 0]
  /\ grants = <<>>
-----------------------------------------------------------------------------
Lesser(a, b) == IF a < b THEN a ELSE b

(* The bucket at time now. *)
Refilled(now) == Lesser(Capacity * Q, tokens + (now - last) * Gain)

(* The whole time until a token has flowed in, rounded up. *)
WaitFor(level) == ((Q - level) + (Gain - 1)) \div Gain

Acquire(t) ==
  /\ stage[t] = "idle"
  /\ calls[t] < MaxCalls
  /\ calls' = [calls EXCEPT ![t] = @ + 1]
  /\ stage' = [stage EXCEPT ![t] = "trying"]
  /\ UNCHANGED <<clock, bucket, wake, grants>>

(* Slip for Grant: the token is granted but not taken. *)
GrantForFree(t) ==
  /\ stage[t] = "trying"
  /\ Refilled(clock) >= Q
  /\ tokens' = Refilled(clock)
  /\ last' = clock
  /\ stage' = [stage EXCEPT ![t] = "idle"]
  /\ grants' = Append(grants, clock)
  /\ UNCHANGED <<clock, wake, calls>>

(* Under the lock: read the clock, refill, and take a token or go to sleep. *)
Grant(t) ==
  /\ stage[t] = "trying"
  /\ Refilled(clock) >= Q
  /\ tokens' = Refilled(clock) - Q
  /\ last' = clock
  /\ stage' = [stage EXCEPT ![t] = "idle"]
  /\ grants' = Append(grants, clock)
  /\ UNCHANGED <<clock, wake, calls>>

Sleep(t) ==
  /\ stage[t] = "trying"
  /\ Refilled(clock) < Q
  /\ tokens' = Refilled(clock)
  /\ last' = clock
  /\ stage' = [stage EXCEPT ![t] = "sleeping"]
  /\ wake' = [wake EXCEPT ![t] = clock + WaitFor(Refilled(clock))]
  /\ UNCHANGED <<clock, calls, grants>>

(* Slip for Wake: a wake-up that comes late is missed. *)
WakeOnTime(t) ==
  /\ stage[t] = "sleeping"
  /\ clock = wake[t]
  /\ stage' = [stage EXCEPT ![t] = "trying"]
  /\ UNCHANGED <<clock, bucket, wake, calls, grants>>

Wake(t) ==
  /\ stage[t] = "sleeping"
  /\ clock >= wake[t]
  /\ stage' = [stage EXCEPT ![t] = "trying"]
  /\ UNCHANGED <<clock, bucket, wake, calls, grants>>

(* Time goes on until the last sleeper is due. *)
Tick ==
  /\ clock < MaxTime \/ \E t \in Threads : stage[t] = "sleeping" /\ clock < wake[t]
  /\ clock' = clock + 1
  /\ UNCHANGED <<bucket, stage, wake, calls, grants>>

ThreadStep(t) == Grant(t) \/ Sleep(t) \/ Wake(t)

RateNext == (\E t \in Threads : Acquire(t) \/ ThreadStep(t)) \/ Tick

RateSpec == RateInit /\ [][RateNext]_rateVars

FairRateSpec == RateSpec /\ WF_rateVars(Tick) /\ \A t \in Threads : WF_rateVars(ThreadStep(t))
-----------------------------------------------------------------------------
(* "The fan-out cannot burst past a configured requests-per-second ceiling": *)
(* in no window of time are more calls let through than the burst and what   *)
(* flowed in during that window (ratelimit.py:3-5).                          *)
Ceiling ==
  \A i, j \in 1..Len(grants) :
    i <= j => (j - i + 1) * Q <= Capacity * Q + (grants[j] - grants[i]) * Gain

(* Nobody waits for ever: every call of acquire returns.                     *)
EveryCallReturns == \A t \in Threads : stage[t] # "idle" ~> stage[t] = "idle"
=============================================================================
