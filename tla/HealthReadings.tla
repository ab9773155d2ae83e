--------------------------- MODULE HealthReadings ---------------------------
(***************************************************************************)
(* How a run decides that its remediation worked: the executor reads the   *)
(* service's badness before and after the operation, the recovery loop     *)
(* polls it, and every reading goes through the query cache of the         *)
(* NerdGraph client (sentinel/actions/live_executor.py, machine.py         *)
(* _decide_and_execute, sentinel/newrelic/client.py nrql).                 *)
(***************************************************************************)
EXTENDS Naturals

CONSTANTS CacheTTL,     \* cache_ttl_s
          Settle,       \* settle_s
          PollEvery,    \* _RECOVERY_POLL_S
          Polls,        \* _RECOVERY_POLLS
          HealLag,      \* longest time from the operation to a low reading
          MaxDelays,    \* bound on the time that passes outside the sleeps
          MaxGaps       \* bound on queries answered with no rows

ASSUME HealthBounds == /\ CacheTTL \in Nat
                       /\ Settle \in Nat
                       /\ PollEvery \in Nat
                       /\ Polls \in Nat
                       /\ HealLag \in Nat
                       /\ MaxDelays \in Nat
                       /\ MaxGaps \in Nat

VARIABLES
  time, delays, gaps,
  cached, cachedAt,   \* the health query's entry in the cache
  at, wake, polled,   \* where the thread is, until when it sleeps, its polls
  before, after,      \* readings of the executor's outcome
  seenLow,            \* the recovered of the outcome, then of the loop
  effective,          \* the operation does remove the fault
  healsAt,            \* when the world's badness is low again
  opAt, sampledAt     \* history: time of the operation, of the sample `after` shows

health == <<time, delays, gaps, cached, cachedAt, at, wake, polled, before, after,
            seenLow, effective, healsAt, opAt, sampledAt>>

Readings == {"none", "high", "low"}   \* "none": no row, the value is None
Unasked  == "unasked"                 \* no entry in the cache yet

HealthTypeOK ==
  /\ time \in Nat /\ delays \in 0..MaxDelays /\ gaps \in 0..MaxGaps
  /\ cached \in Readings \cup {Unasked} /\ cachedAt \in Nat
  /\ at \in {"before", "operate", "settle", "after", "recover", "poll", "end"}
  /\ wake \in Nat /\ polled \in 0..Polls
  /\ before \in Readings /\ after \in Readings
  /\ seenLow \in BOOLEAN /\ effective \in BOOLEAN
  /\ healsAt \in Nat /\ opAt \in Nat /\ sampledAt \in Nat

HealthInit ==
  /\ time = 0 /\ delays = 0 /\ gaps = 0
  /\ cached = Unasked /\ cachedAt = 0
  /\ at = "before" /\ wake = 0 /\ polled = 0
  /\ before = "none" /\ after = "none" /\ seenLow = FALSE
  /\ effective \in BOOLEAN
  /\ healsAt = 0 /\ opAt = 0 /\ sampledAt = 0
-----------------------------------------------------------------------------
(* The badness of the service as the backend reports it now. *)
World == IF at \in {"before", "operate"} \/ ~effective \/ time < healsAt
           THEN "high" ELSE "low"

Fresh == cached # Unasked /\ time - cachedAt < CacheTTL

(* nrql(): a young enough answer is given again, else the backend is asked. *)
(* An answer without rows is an answer, and is kept like any other.         *)
Query(reading) ==
  IF Fresh
    THEN reading = cached /\ UNCHANGED <<cached, cachedAt, gaps>>
    ELSE /\ \/ reading = World /\ UNCHANGED gaps
            \/ reading = "none" /\ gaps < MaxGaps /\ gaps' = gaps + 1
         /\ cached' = reading
         /\ cachedAt' = time

(* Slip for IsRecovered: no reading counts as a good one. *)
NotBad(reading) == reading # "high"

IsRecovered(reading) == reading = "low"

Before ==
  /\ at = "before" /\ at' = "operate"
  /\ \E reading \in Readings : Query(reading) /\ before' = reading
  /\ UNCHANGED <<time, delays, wake, polled, after, seenLow, effective,
                 healsAt, opAt, sampledAt>>

(* The operation, then the settle window. *)
Operate ==
  /\ at = "operate" /\ at' = "settle"
  /\ opAt' = time
  /\ wake' = time + Settle
  /\ \E lag \in 0..HealLag : healsAt' = time + lag
  /\ UNCHANGED <<time, delays, gaps, cached, cachedAt, polled, before, after,
                 seenLow, effective, sampledAt>>

(* The operation raises: a failed outcome, with nothing healed.             *)
OperateFails ==
  /\ at = "operate" /\ at' = "recover"
  /\ effective' = FALSE
  /\ UNCHANGED <<time, delays, gaps, cached, cachedAt, wake, polled, before, after,
                 seenLow, healsAt, opAt, sampledAt>>

After ==
  /\ at = "settle" /\ time >= wake /\ at' = "recover"
  /\ \E reading \in Readings : /\ Query(reading)
                               /\ after' = reading
                               /\ seenLow' = IsRecovered(reading)
  /\ sampledAt' = cachedAt'
  /\ UNCHANGED <<time, delays, wake, polled, before, effective, healsAt, opAt>>

(* The recovery loop: sleep, read, and stop once the badness is low. *)
RecoveryLoop ==
  /\ at = "recover"
  /\ IF seenLow \/ polled = Polls
       THEN at' = "end" /\ UNCHANGED <<wake, polled>>
       ELSE at' = "poll" /\ polled' = polled + 1 /\ wake' = time + PollEvery
  /\ UNCHANGED <<time, delays, gaps, cached, cachedAt, before, after, seenLow,
                 effective, healsAt, opAt, sampledAt>>

Poll ==
  /\ at = "poll" /\ time >= wake /\ at' = "recover"
  /\ \E reading \in Readings : Query(reading) /\ seenLow' = IsRecovered(reading)
  /\ UNCHANGED <<time, delays, wake, polled, before, after, effective,
                 healsAt, opAt, sampledAt>>

(* Time passes in the sleeps, and now and then elsewhere. *)
TimePasses ==
  /\ time' = time + 1
  /\ IF at \in {"settle", "poll"} /\ time < wake
       THEN UNCHANGED delays
       ELSE at # "end" /\ delays < MaxDelays /\ delays' = delays + 1
  /\ UNCHANGED <<gaps, cached, cachedAt, at, wake, polled, before, after, seenLow,
                 effective, healsAt, opAt, sampledAt>>

HealthNext == Before \/ Operate \/ OperateFails \/ After \/ RecoveryLoop \/ Poll \/ TimePasses

HealthSpec == HealthInit /\ [][HealthNext]_health
-----------------------------------------------------------------------------
(* A run never reports a recovery that did not take place, however old the   *)
(* readings it goes by (machine.py:346-369).                                 *)
RecoveryIsReal == seenLow => effective /\ time >= healsAt

(* The recovery loop outlasts the cache: an operation that heals the service *)
(* within HealLag is recognised before the loop gives up (machine.py:34-35,  *)
(* client.py:62).                                                            *)
RecoveryIsNoticed == at = "end" /\ effective /\ gaps = 0 => seenLow

(* "An honest before/after" (live_executor.py:12-13): the second reading was *)
(* taken after the operation.                                                *)
HonestAfter == at = "end" => sampledAt >= opAt

(* The recovery loop tells a recovery exactly when there is one              *)
(* (machine.py:350-369).                                                     *)
RecoveryIsTold == RecoveryIsReal /\ RecoveryIsNoticed
=============================================================================
