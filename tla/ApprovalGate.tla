---------------------------- MODULE ApprovalGate ----------------------------
(***************************************************************************)
(* The gate in front of every remediation: proposals journaled by a        *)
(* finished run, the decision handler shared by the Slack and the web      *)
(* surfaces, and execute_approved (sentinel/actions).                      *)
(*                                                                         *)
(* A handler is one thread inside handle_decision or execute_approved. Its *)
(* steps are the accesses to the journal file, the clock and the executor, *)
(* in program order. No lock spans two of them. Serialized = TRUE is the   *)
(* Socket Mode listener, which runs one handler after the other;           *)
(* Serialized = FALSE is the HTTP surface, which starts a thread per       *)
(* click, or a listener and a server sharing one journal file.             *)
(***************************************************************************)
EXTENDS Naturals, Sequences, ApprovalJournal

CONSTANTS Actions,      \* ids of remediations
          Stray,        \* ids on old cards, unknown to this journal
          Handlers,     \* threads that may be inside the handler at once
          Serialized,   \* TRUE: one decision is handled at a time
          TTL,          \* how long a proposal may be approved
          MaxTime,      \* bound on the clock
          MaxClicks,    \* bound on decisions and triggers received
          MaxPosts,     \* bound on `posted` lines per action (Slack, web)
          MaxCrashes    \* bound on process deaths

ASSUME StrayAssumption == Stray \subseteq Actions
ASSUME SerializedAssumption == Serialized \in BOOLEAN
ASSUME BoundsAssumption == /\ TTL \in Nat
                           /\ MaxTime \in Nat
                           /\ MaxClicks \in Nat
                           /\ MaxPosts \in Nat
                           /\ MaxCrashes \in Nat

VARIABLES
  clock,      \* time.time()
  journal,    \* the lines of the journal file
  status,     \* fold() of those lines, per action
  expires,    \* expires_at of the proposal
  posts,      \* `posted` lines written so far, per action
  pc, req, now, \* per handler: where it is, what it serves, the time it read
  clicks, crashes,
  \* History, read by the properties only:
  ran,        \* calls of executor.execute, per action
  altered,    \* actions executed with content other than the approved one
  verdict,    \* the first human decision on record, per action
  decidedAt   \* when that decision was recorded

proposal == <<expires, posts>>
handler  == <<pc, req, now>>
record   == <<journal, status>>
history  == <<ran, altered, verdict, decidedAt>>
vars == <<clock, record, proposal, handler, clicks, crashes, history>>

Steps == {"idle", "decide", "approve", "gate", "check", "expire",
          "nearmiss", "start", "execute", "record"}
Verbs == {"approve", "deny", "trigger"}
Requests == [act : Actions, verb : Verbs, same : BOOLEAN]
Lines == [kind : EventKinds, id : Actions, ok : BOOLEAN]

TypeOK ==
  /\ clock \in 0..MaxTime
  /\ journal \in Seq(Lines)
  /\ status \in [Actions -> Statuses]
  /\ expires \in [Actions -> Nat]
  /\ posts \in [Actions -> 0..MaxPosts]
  /\ pc \in [Handlers -> Steps]
  /\ req \in [Handlers -> Requests]
  /\ now \in [Handlers -> 0..MaxTime]
  /\ clicks \in 0..MaxClicks
  /\ crashes \in 0..MaxCrashes
  /\ ran \in [Actions -> Nat]
  /\ altered \in SUBSET Actions
  /\ verdict \in [Actions -> {"none", "approved", "denied"}]
  /\ decidedAt \in [Actions -> 0..MaxTime]

Init ==
  /\ clock = 0
  /\ journal = <<>>
  /\ status = [a \in Actions |-> "absent"]
  /\ expires = [a \in Actions |-> 0]
  /\ posts = [a \in Actions |-> 0]
  /\ pc = [h \in Handlers |-> "idle"]
  /\ req \in {[h \in Handlers |-> [act |-> a, verb |-> "approve", same |-> TRUE]] :
                a \in Actions}
  /\ now = [h \in Handlers |-> 0]
  /\ clicks = 0
  /\ crashes = 0
  /\ ran = [a \in Actions |-> 0]
  /\ altered = {}
  /\ verdict = [a \in Actions |-> "none"]
  /\ decidedAt = [a \in Actions |-> 0]
-----------------------------------------------------------------------------

(* append(): one line at the end of the file, and what it does to the fold. *)
WriteLine(a, kind, ok) ==
  /\ journal' = Append(journal, [kind |-> kind, id |-> a, ok |-> ok])
  /\ status'  = [status EXCEPT ![a] = FoldStep(@, kind, ok)]

(* A decision line; the first one for an action is remembered. *)
WriteDecision(a, kind) ==
  /\ WriteLine(a, kind, TRUE)
  /\ IF verdict[a] = "none"
       THEN /\ verdict'   = [verdict EXCEPT ![a] = kind]
            /\ decidedAt' = [decidedAt EXCEPT ![a] = clock]
       ELSE UNCHANGED <<verdict, decidedAt>>
  /\ UNCHANGED <<ran, altered>>

(* Handler h moves from one of its program points to another. *)
Goto(h, from, to) == /\ pc[h] = from
                     /\ pc' = [pc EXCEPT ![h] = to]
                     /\ UNCHANGED <<req, clicks, crashes, clock, proposal>>

InFlight == {h \in Handlers : pc[h] # "idle"}
-----------------------------------------------------------------------------
(* propose_from_result / demo_b.inject: an action enters the journal. Its   *)
(* id is a fresh uuid, so an id is proposed once.                           *)
Propose(a) ==
  /\ a \notin Stray
  /\ status[a] = "absent"
  /\ WriteLine(a, "proposed", TRUE)
  /\ expires' = [expires EXCEPT ![a] = clock + TTL]
  /\ UNCHANGED <<clock, posts, handler, clicks, crashes, history>>

(* The `posted` line is written after the card is out, so a click may be    *)
(* handled before it.                                                       *)
Posted(a) ==
  /\ status[a] # "absent"
  /\ posts[a] < MaxPosts
  /\ posts' = [posts EXCEPT ![a] = @ + 1]
  /\ WriteLine(a, "posted", TRUE)
  /\ UNCHANGED <<clock, expires, handler, clicks, crashes, history>>

(* A request reaches a free handler: a click on a card (again, or redelivered *)
(* by Slack), or, once a decision is on record, a direct call of              *)
(* execute_approved, whose action object may differ from the approved one.    *)
Receive(h, r) ==
  /\ pc[h] = "idle"
  /\ Serialized => InFlight = {}
  /\ clicks < MaxClicks
  /\ r.act \in Stray \/ status[r.act] # "absent"
  /\ IF r.verb = "trigger" THEN verdict[r.act] # "none" ELSE r.same
  /\ clicks' = clicks + 1
  /\ pc'  = [pc EXCEPT ![h] = IF r.verb = "trigger" THEN "gate" ELSE "decide"]
  /\ req' = [req EXCEPT ![h] = r]
  /\ UNCHANGED <<clock, record, proposal, now, crashes, history>>

(* handle_decision, deny: no look at the state, the fold decides. *)
DecideDeny(h) ==
  /\ req[h].verb = "deny"
  /\ Goto(h, "decide", "idle")
  /\ WriteDecision(req[h].act, "denied")
  /\ UNCHANGED now

(* handle_decision, approve: state_of, which is None for an unknown id. *)
DecideApprove(h) ==
  /\ req[h].verb = "approve"
  /\ Goto(h, "decide", IF status[req[h].act] = "absent" THEN "idle" ELSE "approve")
  /\ UNCHANGED <<record, now, history>>

Approve(h) ==
  /\ Goto(h, "approve", "gate")
  /\ WriteDecision(req[h].act, "approved")
  /\ UNCHANGED now

(* execute_approved reads the clock before it reads the journal. *)
ReadClock(h) ==
  /\ Goto(h, "gate", "check")
  /\ now' = [now EXCEPT ![h] = clock]
  /\ UNCHANGED <<record, history>>

(* Slips for Gate: the fold or the expiry is not looked at, or an expired    *)
(* approval is dropped without a line.                                      *)
GateAnyStatus(h) ==
  IF now[h] > expires[req[h].act] THEN "expire"
  ELSE IF ~req[h].same THEN "nearmiss" ELSE "start"
GateNoExpiry(h) ==
  IF status[req[h].act] # "approved" THEN "idle"
  ELSE IF ~req[h].same THEN "nearmiss" ELSE "start"
GateSilentExpiry(h) ==
  IF status[req[h].act] # "approved" \/ now[h] > expires[req[h].act] THEN "idle"
  ELSE IF ~req[h].same THEN "nearmiss" ELSE "start"

(* Where the checks of execute_approved lead a handler. *)
Gate(h) ==
  LET a == req[h].act
  IN  IF status[a] # "approved"    THEN "idle"
      ELSE IF now[h] > expires[a]  THEN "expire"
      ELSE IF ~req[h].same         THEN "nearmiss"
      ELSE "start"

Check(h) ==
  /\ Goto(h, "check", Gate(h))
  /\ UNCHANGED <<record, now, history>>

Expire(h) ==
  /\ Goto(h, "expire", "idle")
  /\ WriteLine(req[h].act, "expired", TRUE)
  /\ UNCHANGED <<now, history>>

NearMiss(h) ==
  /\ Goto(h, "nearmiss", "idle")
  /\ WriteLine(req[h].act, "near_miss", TRUE)
  /\ UNCHANGED <<now, history>>

(* Slip for Start: the operation runs before the approval is consumed. *)
StartUnrecorded(h) ==
  /\ Goto(h, "start", "execute")
  /\ UNCHANGED <<record, now, history>>

(* The approval is consumed before the operation runs. *)
Start(h) ==
  /\ Goto(h, "start", "execute")
  /\ WriteLine(req[h].act, "execute_started", TRUE)
  /\ UNCHANGED <<now, history>>

(* executor.execute: it performs the operation and does not raise. *)
Execute(h) ==
  /\ Goto(h, "execute", "record")
  /\ ran' = [ran EXCEPT ![req[h].act] = @ + 1]
  /\ altered' = IF req[h].same THEN altered ELSE altered \cup {req[h].act}
  /\ UNCHANGED <<record, now, verdict, decidedAt>>

(* The outcome's ok field is the operation's. *)
Record(h) ==
  /\ Goto(h, "record", "idle")
  /\ \E ok \in BOOLEAN : WriteLine(req[h].act, "execute_result", ok)
  /\ UNCHANGED <<now, history>>

(* A process dies with the handlers it runs; the journal file survives. *)
Crash(dead) ==
  /\ crashes < MaxCrashes
  /\ dead # {}
  /\ crashes' = crashes + 1
  /\ pc' = [h \in Handlers |-> IF h \in dead THEN "idle" ELSE pc[h]]
  /\ UNCHANGED <<clock, record, proposal, req, now, clicks, history>>

Tick ==
  /\ clock < MaxTime
  /\ clock' = clock + 1
  /\ UNCHANGED <<record, proposal, handler, clicks, crashes, history>>

HandlerStep(h) ==
  \/ DecideDeny(h) \/ DecideApprove(h) \/ Approve(h)
  \/ ReadClock(h) \/ Check(h) \/ Expire(h) \/ NearMiss(h)
  \/ Start(h) \/ Execute(h) \/ Record(h)

Next ==
  \/ \E a \in Actions : Propose(a) \/ Posted(a)
  \/ \E h \in Handlers : \E r \in Requests : Receive(h, r)
  \/ \E h \in Handlers : HandlerStep(h)
  \/ \E dead \in SUBSET InFlight : Crash(dead)
  \/ Tick

Spec == Init /\ [][Next]_vars

(* A handler thread keeps running until it returns. *)
FairSpec == Spec /\ \A h \in Handlers : WF_vars(HandlerStep(h))
-----------------------------------------------------------------------------
(* fold() over the whole file, as state_of computes it on every call. *)
Fold(a) ==
  LET f[n \in 0..Len(journal)] ==
        IF n = 0 THEN "absent"
        ELSE IF journal[n].id = a
               THEN FoldStep(f[n - 1], journal[n].kind, journal[n].ok)
               ELSE f[n - 1]
  IN  f[Len(journal)]

(* A remediation is performed at most once however often it is approved,    *)
(* redelivered or retried, and across process deaths (gate.py:38-40).        *)
SingleUse == \A a \in Actions : ran[a] <= 1

(* An operation that ran had been approved, whatever the order in which      *)
(* handlers were scheduled: before anybody denied it, before the proposal's  *)
(* expiry though the clock is read before the journal is (gate.py:49-52),    *)
(* and with the content that was executed (gate.py:54-59).                   *)
ExecutedAsApproved ==
  /\ \A a \in Actions : ran[a] > 0 => verdict[a] = "approved" /\ decidedAt[a] <= expires[a]
  /\ altered = {}

(* The audit record and the world agree: an action recorded as finished was  *)
(* performed, and one that was performed is recorded as consumed, never as   *)
(* denied, expired or still open (report.py counts by status).               *)
AuditMatchesWorld ==
  \A a \in Actions : /\ status[a] \in {"done", "failed"} => ran[a] > 0
                     /\ ran[a] > 0 => status[a] \in Consumed

(* A settled action stays settled: late or repeated lines of other handlers  *)
(* (a `posted` after the click, a second approval) never reopen it.          *)
NeverReopened ==
  [][\A a \in Actions : /\ status[a] \in Terminal => status'[a] = status[a]
                        /\ status[a] \notin Open \cup {"absent"} =>
                             status'[a] \notin Open]_vars

(* An approval does not linger: the handler that recorded it drives the      *)
(* action to an outcome or to its expiry, unless its process dies.           *)
ApprovedIsResolved ==
  \A a \in Actions :
    status[a] = "approved" ~> status[a] \in {"done", "failed", "expired"} \/ crashes > 0

(* With decisions handled one at a time the gate implements the contract.    *)
Contract == INSTANCE ApprovalContract WITH state <- status
ImplementsContract == Contract!Spec
=============================================================================
