------------------------------- MODULE LiveLab -------------------------------
(***************************************************************************)
(* The live dashboard's backend over many runs: the registry that lets one *)
(* run at a time hold the lab, the runs one after the other, replays that  *)
(* take the same slot, the clear-fault endpoint, and deaths of the server  *)
(* process, which take the daemon thread of the run with them              *)
(* (sentinel/api/livelab/router.py, around LiveRun).                       *)
(***************************************************************************)
EXTENDS LiveRun

CONSTANTS Starters,     \* router threads inside start_live or start_replay
          MaxRuns,      \* bound on live runs started
          MaxReplays,   \* bound on replays started
          MaxClears,    \* bound on clear-fault calls
          MaxDeaths     \* bound on deaths of the server process

ASSUME LiveLabBounds == /\ MaxRuns \in Nat
                        /\ MaxReplays \in Nat
                        /\ MaxClears \in Nat
                        /\ MaxDeaths \in Nat

VARIABLES
  lock,          \* holder of Registry._lock, or "free"
  spc,           \* per starter: "idle", "waiting", "checking", "starting"
  replaying,     \* replay threads that are alive
  runs, replays, clears, deaths,
  overlap        \* history: two runs have held the lab at once

registry == <<lock, spc, replaying, runs, replays, clears, deaths, overlap>>
labVars  == <<vars, registry>>

Free == "free"

ASSUME FreeAssumption == Free \notin Starters

LabTypeOK ==
  /\ TypeOK
  /\ lock \in Starters \cup {Free}
  /\ spc \in [Starters -> {"idle", "waiting", "checking", "starting"}]
  /\ replaying \in 0..MaxReplays
  /\ runs \in 0..MaxRuns /\ replays \in 0..MaxReplays
  /\ clears \in 0..MaxClears /\ deaths \in 0..MaxDeaths
  /\ overlap \in BOOLEAN

(* No run has been started: the state of a run that is over. The lab may    *)
(* bear a fault that an earlier process left behind.                        *)
LabInit ==
  /\ \E t \in Targets : /\ pc = "exited" /\ phase = "done" /\ target = t
                        /\ fault \in {{}, {t}}
  /\ polls = 0 /\ recovered = FALSE
  /\ abort = FALSE /\ ready = FALSE /\ decision = "none"
  /\ jstatus = "absent" /\ expires = 0 /\ deadline = 0 /\ shown = "none"
  /\ clock = 0 /\ failures = 0
  /\ cpc = [c \in Clients |-> "idle"]
  /\ cverb = [c \in Clients |-> "approved"]
  /\ requests = 0
  /\ ran = 0 /\ abortedEarly = FALSE /\ dirty = FALSE
  /\ lock = Free /\ spc = [s \in Starters |-> "idle"] /\ replaying = 0
  /\ runs = 0 /\ replays = 0 /\ clears = 0 /\ deaths = 0
  /\ overlap = FALSE

(* Registry.active: some thread of this process is alive. *)
Active == pc # "exited" \/ replaying > 0

(* A starter goes from one of its points to another. *)
Starter(s, from, to) == spc[s] = from /\ spc' = [spc EXCEPT ![s] = to]

Call(s) ==
  /\ Starter(s, "idle", "waiting")
  /\ UNCHANGED <<vars, lock, replaying, runs, replays, clears, deaths, overlap>>

(* Slip for Acquire: start_live and start_replay without the lock. *)
AcquireNothing(s) ==
  /\ Starter(s, "waiting", "checking")
  /\ UNCHANGED <<vars, lock, replaying, runs, replays, clears, deaths, overlap>>

Acquire(s) ==
  /\ lock = Free
  /\ lock' = s
  /\ Starter(s, "waiting", "checking")
  /\ UNCHANGED <<vars, replaying, runs, replays, clears, deaths, overlap>>

(* Slip for CheckActive: the refusal returns with the lock still held. *)
CheckActiveKeepsLock(s) ==
  /\ Starter(s, "checking", IF Active THEN "idle" ELSE "starting")
  /\ UNCHANGED <<vars, lock, replaying, runs, replays, clears, deaths, overlap>>

(* active() under the lock: 409 while a run is alive. *)
CheckActive(s) ==
  /\ Starter(s, "checking", IF Active THEN "idle" ELSE "starting")
  /\ lock' = IF Active THEN Free ELSE lock
  /\ UNCHANGED <<vars, replaying, runs, replays, clears, deaths, overlap>>

(* The run is constructed, registered and started before the lock is let    *)
(* go. Request threads of an earlier run only touch that run's own object.  *)
StartLive(s, t) ==
  /\ runs < MaxRuns
  /\ Starter(s, "starting", "idle")
  /\ lock' = Free
  /\ overlap' = (overlap \/ Active)
  /\ runs' = runs + 1
  /\ pc' = "preflight" /\ phase' = "preflight" /\ target' = t
  /\ polls' = 0 /\ recovered' = FALSE
  /\ abort' = FALSE /\ ready' = FALSE /\ decision' = "none"
  /\ jstatus' = "absent" /\ expires' = 0 /\ deadline' = 0 /\ shown' = "none"
  /\ clock' = 0
  /\ ran' = 0 /\ abortedEarly' = FALSE /\ dirty' = FALSE
  /\ cpc' = [c \in Clients |-> "idle"]
  /\ UNCHANGED <<lab, cverb, requests, replaying, replays, clears, deaths>>

StartReplay(s) ==
  /\ replays < MaxReplays
  /\ Starter(s, "starting", "idle")
  /\ lock' = Free
  /\ overlap' = (overlap \/ Active)
  /\ replays' = replays + 1
  /\ replaying' = replaying + 1
  /\ UNCHANGED <<vars, runs, clears, deaths>>

(* start_replay raises for an unknown journal; the lock is released.        *)
StartFails(s) ==
  /\ Starter(s, "starting", "idle")
  /\ lock' = Free
  /\ UNCHANGED <<vars, replaying, runs, replays, clears, deaths, overlap>>

ReplayEnds ==
  /\ replaying > 0
  /\ replaying' = replaying - 1
  /\ UNCHANGED <<vars, lock, spc, runs, replays, clears, deaths, overlap>>

(* The clear-fault endpoint consults no lock and no run. *)
ClearFault(t) ==
  /\ clears < MaxClears
  /\ clears' = clears + 1
  /\ fault' = IF SweepsAll THEN {} ELSE fault \ {t}
  /\ UNCHANGED <<run, control, action, failures, clock, clients, history,
                 lock, spc, replaying, runs, replays, deaths, overlap>>

(* The process dies: a daemon thread runs no finally block, and the new     *)
(* process starts with an empty registry.                                   *)
Death ==
  /\ deaths < MaxDeaths
  /\ deaths' = deaths + 1
  /\ pc' = "exited"
  /\ lock' = Free
  /\ spc' = [s \in Starters |-> "idle"]
  /\ replaying' = 0
  /\ cpc' = [c \in Clients |-> "idle"]
  /\ UNCHANGED <<phase, target, polls, recovered, control, action, lab, clock,
                 cverb, requests, history, runs, replays, clears, overlap>>

StarterStep(s) == \/ Acquire(s) \/ CheckActive(s) \/ StartFails(s)
                  \/ StartReplay(s) \/ \E t \in Targets : StartLive(s, t)

LabNext ==
  \/ RunNext /\ UNCHANGED registry
  \/ \E s \in Starters : Call(s) \/ StarterStep(s)
  \/ ReplayEnds
  \/ \E t \in Targets : ClearFault(t)
  \/ Death

LabSpec == LabInit /\ [][LabNext]_labVars

LabFairSpec ==
  /\ LabSpec
  /\ WF_labVars(ThreadStep /\ UNCHANGED registry)
  /\ WF_labVars(Tick /\ UNCHANGED registry)
  /\ WF_labVars(ReplayEnds)
  /\ \A s \in Starters : WF_labVars(StarterStep(s))
-----------------------------------------------------------------------------
(* One run at a time holds the lab, whatever requests to start one arrive    *)
(* together (router.py:91-92, 114-135).                                      *)
SingleFlight == ~overlap /\ replaying <= 1 /\ ~(pc # "exited" /\ replaying > 0)

(* The baseline window of a run is clean of every earlier run's fault, even  *)
(* of one whose process died with its fault active (machine.py:183).         *)
BaselineClean == ~dirty

(* A fault that nobody's death or failed clean-up left behind is under the   *)
(* control of a run that is still alive and will sweep it.                   *)
FaultIsOwned ==
  (deaths = 0 /\ failures = 0 /\ runs > 0) => (fault # {} => pc # "exited")

(* The slot is never lost: a run or replay gives it back, and a starter      *)
(* which holds the lock lets it go.                                          *)
SlotIsFreed == []<>(~Active) /\ []<>(lock = Free)
=============================================================================
