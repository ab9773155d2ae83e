--------------------------- MODULE AgentFanoutProofs ---------------------------
(***************************************************************************)
(* What holds of a manager and the investigators it fans out to, for any   *)
(* number of services, slots of the API, budgets and iterations.           *)
(*                                                                         *)
(* Most of it is local: a loop step replaces the state of one agent by one *)
(* of which the same can be said (LoopStepIsLocal). What relates agents is *)
(* that a service which is not idle has a job, and that jobs are held only *)
(* while the manager waits in its pool.                                    *)
(*                                                                         *)
(* Their calls pass through one limiter, whose ceiling holds for every     *)
(* capacity, rate and number of threads: since a grant, tokens spent and   *)
(* tokens left never exceed a full bucket and what has flowed in.          *)
(***************************************************************************)
EXTENDS Integers, AgentFanout, RateLimiter, TLAPS

Pcs == {"idle", "call", "flight", "tools", "join", "stopped", "raised", "back"}

AgentState ==
  [pc : Pcs, iter : Nat, tries : Nat, uses : Nat, done : BOOLEAN, output : Nat,
   calls : Nat, terminal : {None} \cup FindingInputs \cup ReportInputs, stop : Stops]

TypeOK ==
  /\ agent \in [Agents -> AgentState]
  /\ job \in [Services -> {None, "service", "change"}]
  /\ findings \in Nat /\ rejected \in Nat

(* The output is within its budget whenever the model is asked again, and a *)
(* pool is opened only with a call to spare.                                *)
WithinBudget(a, st) ==
  /\ st.calls <= ToolBudget(a) /\ (st.pc = "join" => st.calls < ToolBudget(a))
  /\ st.output <= OutputBudget + MaxTokens
  /\ st.pc \in {"call", "flight"} => st.output <= OutputBudget

(* The mark of an accepted report is there exactly when a report is.        *)
Marked(st) ==
  /\ st.pc \in {"call", "flight"} => st.terminal = None
  /\ st.pc \in {"tools", "join"} => (st.done <=> st.terminal # None)
  /\ st.pc = "stopped" => (st.stop = "reported" <=> st.terminal # None)

(* What an investigator for a service has accepted, the validator does too. *)
Acceptable(a, st) ==
  a \in Services /\ job[a] = "service" =>
    st.terminal = None \/ ~FindingRejected(st.terminal)

AgentOK(a, st) == /\ st \in AgentState
                  /\ WithinBudget(a, st) /\ Marked(st) /\ Acceptable(a, st)

(* Who runs was given a job.                                                *)
RunsOnJob == \A s \in Services : agent[s].pc = "idle" \/ job[s] # None

IInv ==
  /\ TypeOK
  /\ \A a \in Agents : AgentOK(a, agent[a])
  /\ rejected = 0
  /\ NoInvestigatorOutlives /\ RunsOnJob

LEMMA BudgetsAreNat ==
  /\ OutputBudget \in Nat /\ MaxTokens \in Nat
  /\ \A a : ToolBudget(a) \in Nat
  /\ Manager \in Agents /\ Services \subseteq Agents /\ Manager \notin Services
BY AgentAssumption DEF ToolBudget, Agents

(* A new loop and a resting one have nothing in them.                       *)
LEMMA FreshIsOK ==
  /\ \A a : AgentOK(a, Fresh)
  /\ \A a, pc : pc \in {"idle", "raised", "back"} => AgentOK(a, [Idle EXCEPT !.pc = pc])
  /\ \A a : AgentOK(a, Idle)
  /\ Fresh.pc = "call" /\ Idle.pc = "idle"
  /\ \A pc \in {"idle", "raised", "back"} : [Idle EXCEPT !.pc = pc].pc = pc
<1>1. /\ Fresh.pc = "call" /\ Fresh.calls = 0 /\ Fresh.output = 0 /\ Fresh.terminal = None
      /\ Fresh \in AgentState
  BY DEF Fresh, AgentState, Pcs, Stops
<1>2. \A a : AgentOK(a, Fresh)
  BY <1>1, BudgetsAreNat DEF AgentOK, WithinBudget, Marked, Acceptable
<1>3. ASSUME NEW a, NEW pc \in {"idle", "raised", "back"}
      PROVE  /\ AgentOK(a, [Fresh EXCEPT !.pc = pc]) /\ [Fresh EXCEPT !.pc = pc].pc = pc
             /\ [Idle EXCEPT !.pc = pc] = [Fresh EXCEPT !.pc = pc]
  <2> DEFINE st == [Fresh EXCEPT !.pc = pc]
  <2>1. st.pc = pc /\ st.calls = 0 /\ st.output = 0 /\ st.terminal = None /\ st \in AgentState
    BY <1>1 DEF AgentState, Pcs
  <2>2. AgentOK(a, st)
    BY <2>1, BudgetsAreNat DEF AgentOK, WithinBudget, Marked, Acceptable
  <2>3. [Idle EXCEPT !.pc = pc] = st
    BY <1>1 DEF Idle, AgentState
  <2> QED BY <2>1, <2>2, <2>3
<1>4. Idle.pc = "idle" /\ \A a : AgentOK(a, Idle)
  BY <1>3 DEF Idle
<1> QED BY <1>1, <1>2, <1>3, <1>4

LEMMA InitOK == Init => IInv
<1> SUFFICES ASSUME Init PROVE IInv
  OBVIOUS
<1>1. \A a \in Agents : AgentOK(a, agent[a])
  BY FreshIsOK DEF Init
<1>2. TypeOK
  BY <1>1 DEF Init, TypeOK, AgentOK
<1>3. NoInvestigatorOutlives /\ RunsOnJob
  BY FreshIsOK, BudgetsAreNat DEF Init, NoInvestigatorOutlives, RunsOnJob
<1> QED BY <1>1, <1>2, <1>3 DEF Init, IInv

(* A step of a loop is taken by an agent that is neither idle nor in its    *)
(* pool, and leaves one that is neither, of which the same can be said.     *)
LEMMA LoopStepIsLocal ==
  ASSUME IInv, NEW a \in Agents, LoopStep(a)
  PROVE  /\ agent[a].pc \in {"call", "flight", "tools"}
         /\ agent' = [agent EXCEPT ![a] = agent'[a]]
         /\ UNCHANGED shared
         /\ AgentOK(a, agent'[a]) /\ agent'[a].pc \notin {"join"}
<1> DEFINE st == agent[a]
<1>0. AgentOK(a, st) /\ agent \in [Agents -> AgentState]
  BY DEF IInv, TypeOK
<1> USE <1>0, BudgetsAreNat
<1>1. CASE Call(a)
  <2>1. agent'[a] = [st EXCEPT !.pc = "flight", !.tries = @ + 1]
    BY <1>1 DEF Call
  <2> QED BY <1>1, <2>1
          DEF Call, AgentOK, AgentState, Pcs, WithinBudget, Marked, Acceptable
<1>2. CASE CallFails(a)
  <2>1. \/ agent'[a] = [st EXCEPT !.pc = "call"]
        \/ agent'[a] = [Idle EXCEPT !.pc = "raised"]
    BY <1>2 DEF CallFails
  <2>2. st.pc = "flight" /\ agent' = [agent EXCEPT ![a] = agent'[a]] /\ UNCHANGED shared
    BY <1>2 DEF CallFails
  <2>3. CASE agent'[a] = [st EXCEPT !.pc = "call"]
    BY <2>2, <2>3 DEF AgentOK, AgentState, Pcs, WithinBudget, Marked, Acceptable
  <2>4. CASE agent'[a] = [Idle EXCEPT !.pc = "raised"]
    BY <2>2, <2>4, FreshIsOK
  <2> QED BY <2>1, <2>3, <2>4
<1>3. CASE \E n \in 0..MaxTokens : Answer(a, n)
  <2>1. PICK n \in 0..MaxTokens : Answer(a, n)
    BY <1>3
  <2>2. agent'[a] = [st EXCEPT !.pc = "stopped", !.stop = "end_turn", !.output = @ + n]
    BY <2>1 DEF Answer
  <2>3. /\ st.pc = "flight" /\ UNCHANGED shared
        /\ agent' = [agent EXCEPT ![a] = agent'[a]]
    BY <2>1 DEF Answer
  <2>4. agent'[a] \in AgentState
    <3>1. st \in AgentState /\ st.output + n \in Nat
      BY DEF AgentOK, AgentState
    <3>2. PICK out \in Nat : out = st.output + n
      BY <3>1
    <3>3. agent'[a] = [st EXCEPT !.pc = "stopped", !.stop = "end_turn", !.output = out]
      BY <2>2, <3>2
    <3> QED BY <3>1, <3>3 DEF AgentState, Pcs, Stops
  <2>5. /\ agent'[a].pc = "stopped" /\ agent'[a].stop = "end_turn" /\ agent'[a].calls = st.calls
        /\ agent'[a].output = st.output + n /\ agent'[a].terminal = st.terminal
    BY <2>2 DEF AgentOK, AgentState
  <2>6. WithinBudget(a, agent'[a])
    BY <2>3, <2>5 DEF AgentOK, AgentState, WithinBudget
  <2>7. Marked(agent'[a]) /\ Acceptable(a, agent'[a])
    BY <2>3, <2>5 DEF AgentOK, Marked, Acceptable
  <2> QED BY <2>3, <2>4, <2>5, <2>6, <2>7 DEF AgentOK
<1>4. CASE \E n \in 0..MaxTokens : AnswerWithTools(a, n)
  <2>1. PICK n \in 0..MaxTokens : AnswerWithTools(a, n)
    BY <1>4
  <2>2. agent'[a] = [st EXCEPT !.pc = "tools", !.output = @ + n, !.tries = 0,
                               !.uses = 0, !.done = FALSE]
    BY <2>1 DEF AnswerWithTools
  <2>3. /\ st.pc = "flight" /\ UNCHANGED shared
        /\ agent' = [agent EXCEPT ![a] = agent'[a]]
    BY <2>1 DEF AnswerWithTools
  <2>4. agent'[a] \in AgentState
    <3>1. st \in AgentState /\ st.output + n \in Nat
      BY DEF AgentOK, AgentState
    <3>2. PICK out \in Nat : out = st.output + n
      BY <3>1
    <3>3. PICK mid \in AgentState : mid = [st EXCEPT !.pc = "tools", !.output = out, !.tries = 0]
      BY <3>1 DEF AgentState, Pcs
    <3>4. PICK zeroed \in AgentState : zeroed = [mid EXCEPT !.uses = 0]
      BY DEF AgentState
    <3>5. agent'[a] = [zeroed EXCEPT !.done = FALSE]
      BY <2>2, <3>2, <3>3, <3>4
    <3> QED BY <3>5 DEF AgentState
  <2>5. /\ agent'[a].pc = "tools" /\ agent'[a].done = FALSE /\ agent'[a].calls = st.calls
        /\ agent'[a].output = st.output + n /\ agent'[a].terminal = st.terminal
    BY <2>2 DEF AgentOK, AgentState
  <2>6. WithinBudget(a, agent'[a])
    BY <2>3, <2>5 DEF AgentOK, AgentState, WithinBudget
  <2>7. Marked(agent'[a]) /\ Acceptable(a, agent'[a])
    BY <2>3, <2>5 DEF AgentOK, Marked, Acceptable
  <2> QED BY <2>3, <2>4, <2>5, <2>6, <2>7 DEF AgentOK
<1>5. CASE Denied(a)
  <2>1. agent'[a] = [st EXCEPT !.uses = @ + 1]
    BY <1>5 DEF Denied
  <2> QED BY <1>5, <2>1
          DEF Denied, NextUse, AgentOK, AgentState, Pcs, WithinBudget, Marked, Acceptable
<1>6. CASE Dispatch(a)
  <2>1. agent'[a] = [st EXCEPT !.uses = @ + 1, !.calls = @ + 1] /\ st.calls < ToolBudget(a)
    BY <1>6 DEF Dispatch, OverBudget, AgentOK, AgentState
  <2> QED BY <1>6, <2>1
          DEF Dispatch, NextUse, AgentOK, AgentState, Pcs, WithinBudget, Marked, Acceptable
<1>7. CASE \E i \in Inputs(a) : Report(a, i)
  <2>1. PICK i \in Inputs(a) : Report(a, i)
    BY <1>7
  <2>2. /\ st.pc = "tools" /\ UNCHANGED shared
        /\ agent' = [agent EXCEPT ![a] = agent'[a]]
    BY <2>1 DEF Report, NextUse
  <2>3. i # None /\ i \in FindingInputs \cup ReportInputs
    BY NoneAssumption DEF Inputs
  <2>4. CASE Gated(a, i) \/ ~SchemaOK(a, i)
    <3>1. agent'[a] = [st EXCEPT !.uses = @ + 1]
      BY <2>1, <2>4 DEF Report, AgentOK, AgentState
    <3> QED BY <2>2, <3>1 DEF AgentOK, AgentState, Pcs, WithinBudget, Marked, Acceptable
  <2>5. CASE ~(Gated(a, i) \/ ~SchemaOK(a, i))
    <3>1. agent'[a] = [st EXCEPT !.uses = @ + 1, !.terminal = i, !.done = TRUE]
      BY <2>1, <2>5 DEF Report
    <3>2. a \in Services /\ job[a] = "service" => ~FindingRejected(i)
      <4> SUFFICES ASSUME a \in Services, job[a] = "service" PROVE ~FindingRejected(i)
        OBVIOUS
      <4>1. a # Manager
        OBVIOUS
      <4> QED BY <2>5, <4>1 DEF Gated, SchemaOK, finding_issues, FindingRejected
    <3>3. agent'[a] \in AgentState /\ WithinBudget(a, agent'[a]) /\ Marked(agent'[a])
      <4>1. agent'[a] \in AgentState
        <5>1. st \in AgentState /\ st.uses + 1 \in Nat
          BY DEF AgentOK, AgentState
        <5>2. PICK uses \in Nat : uses = st.uses + 1
          BY <5>1
        <5>3. agent'[a] = [st EXCEPT !.uses = uses, !.terminal = i, !.done = TRUE]
          BY <3>1, <5>2
        <5> QED BY <2>3, <5>1, <5>3 DEF AgentState
      <4>2. /\ agent'[a].pc = "tools" /\ agent'[a].done = TRUE /\ agent'[a].calls = st.calls
            /\ agent'[a].output = st.output /\ agent'[a].terminal = i
        BY <2>2, <3>1 DEF AgentOK, AgentState
      <4>3. WithinBudget(a, agent'[a])
        BY <2>2, <4>2 DEF AgentOK, WithinBudget
      <4>4. Marked(agent'[a])
        BY <2>3, <4>2 DEF Marked
      <4> QED BY <4>1, <4>3, <4>4
    <3>4. Acceptable(a, agent'[a])
      BY <3>1, <3>2 DEF Acceptable, AgentOK, AgentState
    <3> QED BY <2>2, <3>1, <3>3, <3>4 DEF AgentOK, AgentState
  <2> QED BY <2>4, <2>5
<1>8. CASE EndTurn(a)
  <2>a. PICK next \in Nat : next = st.iter + 1
    BY DEF AgentOK, AgentState
  <2> DEFINE again == [st EXCEPT !.pc = "call", !.iter = next, !.uses = 0]
             stopped == [st EXCEPT !.pc = "stopped", !.stop = Ends(a), !.uses = 0]
  <2>0. /\ st.pc = "tools" /\ UNCHANGED shared
        /\ \/ Ends(a) = "max_iters" /\ agent' = [agent EXCEPT ![a] = again]
           \/ agent' = [agent EXCEPT ![a] = stopped]
    <3>1. CASE Ends(a) = "max_iters" /\ st.iter < MaxIters(a)
      BY <1>8, <2>a, <3>1 DEF EndTurn
    <3>2. CASE ~(Ends(a) = "max_iters" /\ st.iter < MaxIters(a))
      BY <1>8, <3>2 DEF EndTurn
    <3> QED BY <3>1, <3>2
  <2>1. /\ st.pc = "tools" /\ UNCHANGED shared
        /\ agent' = [agent EXCEPT ![a] = agent'[a]]
        /\ (Ends(a) = "max_iters" /\ agent'[a] = again) \/ agent'[a] = stopped
    BY <2>0
  <2>2. /\ Ends(a) \in Stops /\ (Ends(a) = "reported" <=> st.done)
        /\ (Ends(a) = "max_iters" => (st.output <= OutputBudget /\ ~st.done))
    BY DEF Ends, Stops, AgentOK, AgentState
  <2>3. CASE Ends(a) = "max_iters" /\ agent'[a] = again
    <3>1. again \in AgentState
      BY <2>a DEF AgentOK, AgentState, Pcs
    <3>2. /\ again.pc = "call" /\ again.calls = st.calls
          /\ again.output = st.output /\ again.terminal = st.terminal
      BY DEF AgentOK, AgentState
    <3>3. WithinBudget(a, again)
      BY <2>1, <2>2, <2>3, <3>2 DEF AgentOK, WithinBudget
    <3>4. Marked(again) /\ Acceptable(a, again)
      BY <2>1, <2>2, <2>3, <3>2 DEF AgentOK, Marked, Acceptable
    <3> QED BY <2>1, <2>3, <3>1, <3>2, <3>3, <3>4 DEF AgentOK
  <2>4. CASE agent'[a] = stopped
    <3>1. stopped \in AgentState
      BY <2>2 DEF AgentOK, AgentState, Pcs
    <3>2. /\ stopped.pc = "stopped" /\ stopped.stop = Ends(a) /\ stopped.calls = st.calls
          /\ stopped.output = st.output /\ stopped.terminal = st.terminal
      BY DEF AgentOK, AgentState
    <3>3. WithinBudget(a, stopped)
      BY <2>1, <3>2 DEF AgentOK, WithinBudget
    <3>4. Marked(stopped) /\ Acceptable(a, stopped)
      BY <2>1, <2>2, <3>2 DEF AgentOK, Marked, Acceptable
    <3> QED BY <2>1, <2>4, <3>1, <3>2, <3>3, <3>4 DEF AgentOK
  <2> QED BY <2>1, <2>3, <2>4
<1> QED BY <1>1, <1>2, <1>3, <1>4, <1>5, <1>6, <1>7, <1>8 DEF LoopStep

LEMMA StepOK == IInv /\ [Next]_vars => IInv'
<1> SUFFICES ASSUME IInv, [Next]_vars PROVE IInv'
  OBVIOUS
<1>0. /\ \A a \in Agents : AgentOK(a, agent[a])
      /\ agent \in [Agents -> AgentState] /\ job \in [Services -> {None, "service", "change"}]
      /\ findings \in Nat /\ rejected = 0
  BY DEF IInv, TypeOK
<1> USE <1>0, BudgetsAreNat
<1>1. CASE \E a \in Agents : LoopStep(a)
  <2>1. PICK a \in Agents : LoopStep(a)
    BY <1>1
  <2>2. /\ agent[a].pc \in {"call", "flight", "tools"}
        /\ agent' = [agent EXCEPT ![a] = agent'[a]]
        /\ UNCHANGED shared
        /\ AgentOK(a, agent'[a]) /\ agent'[a].pc # "join"
    BY <2>1, LoopStepIsLocal
  <2>3. agent' \in [Agents -> AgentState] /\ \A b \in Agents \ {a} : agent'[b] = agent[b]
    BY <2>2 DEF AgentOK
  <2>4. \A b \in Agents : AgentOK(b, agent'[b])
    BY <2>2, <2>3
  <2>5. \A b \in Agents : AgentOK(b, agent[b])'
    BY <2>2, <2>4 DEF AgentOK, Acceptable, shared, WithinBudget, Marked
  <2>6. NoInvestigatorOutlives'
    BY <2>2, <2>3 DEF IInv, NoInvestigatorOutlives
  <2>7. RunsOnJob'
    BY <2>2, <2>3 DEF IInv, RunsOnJob, shared
  <2> QED BY <2>2, <2>3, <2>5, <2>6, <2>7 DEF IInv, TypeOK, shared
<1>2. CASE \E s \in Services : Collected(s)
  <2>1. PICK s \in Services : Collected(s)
    BY <1>2
  <2>2. /\ agent' = [agent EXCEPT ![s] = [Idle EXCEPT !.pc = "back"]] /\ UNCHANGED job
        /\ agent[s].pc = "stopped"
    BY <2>1 DEF Collected
  <2>3. job[s] = "service" => ~FindingRejected(Finding(s))
    BY DEF AgentOK, Acceptable, Finding, NoFinding, FindingRejected
  <2>4. rejected' = 0 /\ findings' \in Nat
    BY <2>1, <2>3 DEF Collected
  <2>5. \A b \in Agents : AgentOK(b, agent'[b])
    BY <2>2, FreshIsOK
  <2>6. \A b \in Agents : AgentOK(b, agent[b])'
    BY <2>2, <2>5 DEF AgentOK, Acceptable, WithinBudget, Marked
  <2>7. NoInvestigatorOutlives'
    BY <2>2 DEF IInv, NoInvestigatorOutlives
  <2>8. RunsOnJob'
    BY <2>2 DEF IInv, RunsOnJob
  <2>9. agent' \in [Agents -> AgentState]
    BY <2>2, <2>5 DEF AgentOK
  <2> QED BY <2>2, <2>4, <2>6, <2>7, <2>8, <2>9 DEF IInv, TypeOK
<1>3. CASE \E S \in SUBSET Services, kind \in {"service", "change"} : FanOut(S, kind)
  <2>1. PICK S \in SUBSET Services, kind \in {"service", "change"} : FanOut(S, kind)
    BY <1>3
  <2>2. /\ agent[Manager].pc = "tools" /\ agent[Manager].calls < ToolBudget(Manager)
        /\ UNCHANGED <<findings, rejected>>
    BY <2>1 DEF FanOut, NextUse, OverBudget, AgentOK, AgentState
  <2>3. /\ \A s \in S : agent'[s] = Fresh /\ job'[s] = kind
        /\ \A s \in Services \ S : agent'[s] = agent[s] /\ job'[s] = job[s]
        /\ agent'[Manager] = [agent[Manager] EXCEPT !.pc = "join"]
        /\ agent' = [a \in Agents |-> agent'[a]]
        /\ job' = [s \in Services |-> job'[s]]
    BY <2>1 DEF FanOut
  <2>4. \A s \in Services : agent[s].pc = "idle"
    BY <2>2 DEF IInv, NoInvestigatorOutlives
  <2>5. AgentOK(Manager, agent[Manager])'
    BY <2>2, <2>3 DEF AgentOK, AgentState, Pcs, WithinBudget, Marked, Acceptable
  <2>6. \A s \in S : AgentOK(s, agent[s])'
    <3>1. \A s \in S : AgentOK(s, Fresh)
      BY FreshIsOK
    <3> QED BY <2>3, <3>1 DEF AgentOK, Acceptable, WithinBudget, Marked, Fresh
  <2>7. \A s \in Services \ S : AgentOK(s, agent[s])'
    BY <2>3 DEF AgentOK, Acceptable, WithinBudget, Marked
  <2>8. \A b \in Agents : AgentOK(b, agent[b])'
    BY <2>5, <2>6, <2>7 DEF Agents
  <2>9. TypeOK'
    BY <2>2, <2>3, <2>8 DEF TypeOK, AgentOK
  <2>10. NoInvestigatorOutlives'
    BY <2>3 DEF NoInvestigatorOutlives, AgentState
  <2>11. RunsOnJob'
    BY <2>3, <2>4, NoneAssumption DEF RunsOnJob
  <2> QED BY <2>2, <2>8, <2>9, <2>10, <2>11 DEF IInv
<1>4. CASE Join
  <2>1. /\ agent[Manager].pc = "join" /\ UNCHANGED <<findings, rejected>>
        /\ \A s \in Services : job[s] = None \/ Over(s)
    BY <1>4 DEF Join, Rejoined, Spawned
  <2>2. /\ \A s \in Services : /\ agent'[s] = IF Over(s) THEN Idle ELSE agent[s]
                               /\ job'[s] = IF Over(s) THEN None ELSE job[s]
        /\ agent'[Manager] = [agent[Manager] EXCEPT !.pc = "tools", !.uses = @ + 1, !.calls = @ + 1]
        /\ agent' = [a \in Agents |-> agent'[a]]
        /\ job' = [s \in Services |-> job'[s]]
    BY <1>4 DEF Join, Rejoined
  <2>3. \A s \in Services : agent'[s].pc = "idle" /\ AgentOK(s, agent'[s])
    BY <2>1, <2>2, FreshIsOK DEF IInv, RunsOnJob
  <2>4. AgentOK(Manager, agent[Manager])'
    <3> DEFINE st == agent[Manager]
    <3>1. st \in AgentState /\ st.calls + 1 <= ToolBudget(Manager)
      BY <2>1 DEF AgentOK, AgentState, WithinBudget
    <3>2. agent'[Manager] \in AgentState
      <4>1. st.uses + 1 \in Nat /\ st.calls + 1 \in Nat
        BY <3>1 DEF AgentState
      <4>2. PICK uses, dispatched \in Nat : uses = st.uses + 1 /\ dispatched = st.calls + 1
        BY <4>1
      <4>3. agent'[Manager] = [st EXCEPT !.pc = "tools", !.uses = uses, !.calls = dispatched]
        BY <2>2, <4>2
      <4> QED BY <3>1, <4>3 DEF AgentState, Pcs
    <3>3. /\ agent'[Manager].pc = "tools" /\ agent'[Manager].calls = st.calls + 1
          /\ agent'[Manager].output = st.output /\ agent'[Manager].done = st.done
          /\ agent'[Manager].terminal = st.terminal
      BY <2>2, <3>1 DEF AgentState
    <3>4. WithinBudget(Manager, agent'[Manager])
      BY <3>1, <3>3 DEF AgentOK, WithinBudget
    <3>5. Marked(agent'[Manager])
      BY <2>1, <3>3 DEF AgentOK, Marked
    <3> QED BY <3>2, <3>4, <3>5 DEF AgentOK, Acceptable, WithinBudget, Marked
  <2>5. \A s \in Services : AgentOK(s, agent[s])'
    BY <2>2, <2>3, NoneAssumption DEF AgentOK, Acceptable, WithinBudget, Marked
  <2>6. \A b \in Agents : AgentOK(b, agent[b])'
    BY <2>4, <2>5 DEF Agents
  <2>7. TypeOK'
    BY <2>1, <2>2, <2>6 DEF TypeOK, AgentOK
  <2>8. NoInvestigatorOutlives' /\ RunsOnJob'
    BY <2>3 DEF NoInvestigatorOutlives, RunsOnJob
  <2> QED BY <2>1, <2>6, <2>7, <2>8 DEF IInv
<1>5. CASE UNCHANGED vars
  BY <1>5 DEF vars, IInv, TypeOK, AgentOK, Acceptable, WithinBudget, Marked,
              NoInvestigatorOutlives, RunsOnJob
<1> QED BY <1>1, <1>2, <1>3, <1>4, <1>5 DEF Next

(* The state of the manager, its investigators and their jobs is well typed, *)
(* TypeOK, in every reachable state.                                         *)
THEOREM TypeCorrect == Spec => []TypeOK
<1>1. IInv => TypeOK
  BY DEF IInv
<1> QED BY InitOK, StepOK, <1>1, PTL DEF Spec

(* BudgetsHold: no agent dispatches more tools than its budget or overdraws  *)
(* its output by more than one turn, whatever the hooks deny and the models  *)
(* ask for (loop.py:227-242, hooks.py).                                      *)
THEOREM BudgetsAlwaysHold == Spec => []BudgetsHold
<1>1. IInv => BudgetsHold
  BY DEF IInv, AgentOK, WithinBudget, BudgetsHold
<1> QED BY InitOK, StepOK, <1>1, PTL DEF Spec

(* ReportsAreFinal: an accepted report ends its loop with the turn it came   *)
(* in, and the manager's validator never rejects what a loop accepted, so    *)
(* that the retry it could ask for is never due (loop.py:191-230,            *)
(* manager.py:104-130).                                                      *)
THEOREM ReportsStayFinal == Spec => []ReportsAreFinal
<1>1. IInv => ReportsAreFinal
  BY DEF IInv, AgentOK, Marked, ReportsAreFinal, ReportEndsLoop, NothingRejected
<1> QED BY InitOK, StepOK, <1>1, PTL DEF Spec

(* NoInvestigatorOutlives: while the manager reasons or reports none of its  *)
(* investigators runs, whichever of them raised (manager.py:132-160).        *)
THEOREM InvestigatorsEndFirst == Spec => []NoInvestigatorOutlives
<1>1. IInv => NoInvestigatorOutlives
  BY DEF IInv
<1> QED BY InitOK, StepOK, <1>1, PTL DEF Spec
-----------------------------------------------------------------------------
(* What the bucket still holds counts against every window that is open.   *)
Budget ==
  \A i \in 1..Len(grants) :
    /\ grants[i] <= last
    /\ (Len(grants) - i + 1) * Q + tokens <= Capacity * Q + (last - grants[i]) * Gain

(* A refilled bucket is no fuller than its brim and gains at most the flow. *)
LEMMA RefillBounds ==
  ASSUME RateTypeOK
  PROVE  /\ Refilled(clock) \in 0..(Capacity * Q)
         /\ Refilled(clock) <= tokens + (clock - last) * Gain
         /\ (clock - last) * Gain \in Nat
<1>1. /\ Capacity * Q \in Nat /\ clock - last \in Nat /\ tokens \in Nat
      BY RateAssumption DEF RateTypeOK
<1>2. (clock - last) * Gain \in Nat
  BY <1>1, RateAssumption
<1> QED BY <1>1, <1>2 DEF Refilled, Lesser

(* Two adjoining stretches of time let in what the whole of it does.        *)
LEMMA FlowAdds ==
  ASSUME NEW a \in Nat, NEW b \in Nat, NEW c \in Nat, NEW g \in Nat, a <= b, b <= c
  PROVE  (b - a) * g + (c - b) * g = (c - a) * g
  OBVIOUS

(* The waiting time of a thread is a length of time.                        *)
LEMMA WaitIsTime ==
  ASSUME NEW level \in Nat, level < Q
  PROVE  WaitFor(level) \in Nat
<1>1. (Q - level) + (Gain - 1) \in Nat
  BY RateAssumption
<1> QED BY <1>1, RateAssumption DEF WaitFor

(* The type invariant of the limiter, RateTypeOK, in every reachable state.     *)
THEOREM RateTypeCorrect == RateSpec => []RateTypeOK
<1>1. RateInit => RateTypeOK
  BY RateAssumption DEF RateInit, RateTypeOK
<1>2. RateTypeOK /\ [RateNext]_rateVars => RateTypeOK'
  <2> SUFFICES ASSUME RateTypeOK, [RateNext]_rateVars PROVE RateTypeOK'
    OBVIOUS
  <2> USE RateAssumption
  <2>1. ASSUME NEW t \in Threads, Acquire(t) PROVE RateTypeOK'
    BY <2>1 DEF Acquire, RateTypeOK, bucket
  <2>2. ASSUME NEW t \in Threads, Grant(t) PROVE RateTypeOK'
    <3>1. tokens' \in 0..(Capacity * Q)
      BY <2>2, RefillBounds DEF Grant, RateTypeOK
    <3>2. /\ clock' = clock /\ last' = clock /\ grants' = Append(grants, clock)
          /\ UNCHANGED <<wake, calls>>
          /\ stage' = [stage EXCEPT ![t] = "idle"]
      BY <2>2 DEF Grant
    <3> QED BY <3>1, <3>2 DEF RateTypeOK
  <2>3. ASSUME NEW t \in Threads, Sleep(t) PROVE RateTypeOK'
    <3>1. tokens' \in 0..(Capacity * Q) /\ Refilled(clock) < Q /\ Refilled(clock) \in Nat
      BY <2>3, RefillBounds DEF Sleep, RateTypeOK
    <3>2. WaitFor(Refilled(clock)) \in Nat
      BY <3>1, WaitIsTime
    <3>3. clock + WaitFor(Refilled(clock)) \in Nat
      BY <3>2 DEF RateTypeOK
    <3>4. wake' \in [Threads -> Nat]
      BY <2>3, <3>3 DEF Sleep, RateTypeOK
    <3> QED BY <2>3, <3>1, <3>4 DEF Sleep, RateTypeOK
  <2>4. ASSUME NEW t \in Threads, Wake(t) PROVE RateTypeOK'
    BY <2>4 DEF Wake, RateTypeOK, bucket
  <2>5. CASE Tick
    BY <2>5 DEF Tick, RateTypeOK, bucket
  <2>6. CASE UNCHANGED rateVars
    BY <2>6 DEF rateVars, bucket, RateTypeOK
  <2> QED BY <2>1, <2>2, <2>3, <2>4, <2>5, <2>6 DEF RateNext, ThreadStep
<1> QED BY <1>1, <1>2, PTL DEF RateSpec

(* The bucket's budget survives a refill at the present time.               *)
LEMMA BudgetRefilled ==
  ASSUME RateTypeOK, Budget, NEW i \in 1..Len(grants)
  PROVE  /\ grants[i] <= clock
         /\ (Len(grants) - i + 1) * Q + Refilled(clock)
              <= Capacity * Q + (clock - grants[i]) * Gain
<1> DEFINE n == (Len(grants) - i + 1) * Q
           g == grants[i]
<1>1. /\ g \in Nat /\ last \in Nat /\ clock \in Nat /\ g <= last /\ last <= clock
      /\ tokens \in Nat /\ Len(grants) \in Nat /\ i \in Nat /\ i <= Len(grants)
  BY DEF RateTypeOK, Budget
<1>2. n \in Nat /\ Capacity * Q \in Nat /\ Gain \in Nat
  <2>1. Len(grants) - i + 1 \in Nat
    BY <1>1
  <2> QED BY <2>1, RateAssumption
<1>3. n + tokens <= Capacity * Q + (last - g) * Gain
  BY DEF Budget
<1>4. Refilled(clock) \in Nat /\ Refilled(clock) <= tokens + (clock - last) * Gain
  BY RefillBounds
<1>5. (last - g) * Gain + (clock - last) * Gain = (clock - g) * Gain
  BY <1>1, <1>2, FlowAdds
<1>6. (last - g) * Gain \in Int /\ (clock - last) * Gain \in Int /\ (clock - g) * Gain \in Int
  BY <1>1, <1>2
<1> HIDE DEF n, g
<1>7. n + Refilled(clock) <= Capacity * Q + (clock - g) * Gain
  BY <1>1, <1>2, <1>3, <1>4, <1>5, <1>6
<1> QED BY <1>1, <1>7 DEF n, g

(* In no window of time are more calls let through than the burst and the   *)
(* inflow of that window (the limiter's ceiling).                           *)
THEOREM CeilingHolds == RateSpec => []Ceiling
<1>1. RateInit => Budget /\ Ceiling
  BY DEF RateInit, Budget, Ceiling
<1>2. RateTypeOK /\ Budget /\ Ceiling /\ RateTypeOK' /\ [RateNext]_rateVars => Budget' /\ Ceiling'
  <2> SUFFICES ASSUME RateTypeOK, Budget, Ceiling, RateTypeOK', [RateNext]_rateVars
               PROVE  Budget' /\ Ceiling'
    OBVIOUS
  <2>1. ASSUME NEW t \in Threads, Grant(t) PROVE Budget' /\ Ceiling'
    <3> DEFINE m == Len(grants)
    <3>1. /\ m \in Nat /\ Len(grants') = m + 1 /\ grants'[m + 1] = clock
          /\ \A i \in 1..m : grants'[i] = grants[i]
          /\ last' = clock /\ tokens' = Refilled(clock) - Q /\ tokens' \in Nat
          /\ clock \in Nat
      BY <2>1 DEF Grant, RateTypeOK
    <3>2. Refilled(clock) \in Nat /\ Refilled(clock) <= Capacity * Q
          /\ Q \in Nat /\ Q > 0 /\ Capacity * Q \in Nat /\ Gain \in Nat
      BY RefillBounds, RateAssumption
    <3>3. ASSUME NEW i \in 1..(m + 1)
          PROVE  /\ grants'[i] <= clock
                 /\ (m + 1 - i + 1) * Q + tokens'
                      <= Capacity * Q + (clock - grants'[i]) * Gain
      <4>1. CASE i = m + 1
        <5>1. (m + 1 - i + 1) * Q = Q /\ (clock - grants'[i]) * Gain = 0
          BY <3>1, <3>2, <4>1
        <5> QED BY <3>1, <3>2, <4>1, <5>1
      <4>2. CASE i \in 1..m
        <5>1. /\ grants[i] <= clock
              /\ (m - i + 1) * Q + Refilled(clock)
                   <= Capacity * Q + (clock - grants[i]) * Gain
          BY <4>2, BudgetRefilled
        <5>2. (m + 1 - i + 1) * Q = (m - i + 1) * Q + Q /\ (m - i + 1) * Q \in Int
          BY <3>1, <3>2, <4>2
        <5>3. grants'[i] = grants[i] /\ grants[i] \in Nat
          <6>1. grants'[i] = grants[i]
            BY <3>1, <4>2
          <6>2. grants \in Seq(Nat) /\ i \in 1..Len(grants)
            BY <4>2 DEF RateTypeOK
          <6> HIDE DEF m
          <6> QED BY <6>1, <6>2
        <5>4. (clock - grants[i]) * Gain \in Int
          BY <3>1, <3>2, <5>3
        <5> HIDE DEF m
        <5> QED BY <3>1, <3>2, <5>1, <5>2, <5>3, <5>4
      <4> QED BY <3>1, <4>1, <4>2
    <3>4. Budget'
      <4> SUFFICES ASSUME NEW i \in 1..Len(grants')
                   PROVE  /\ grants'[i] <= last'
                          /\ (Len(grants') - i + 1) * Q + tokens'
                               <= Capacity * Q + (last' - grants'[i]) * Gain
        BY DEF Budget
      <4> QED BY <3>1, <3>3
    <3>5. Ceiling'
      <4> SUFFICES ASSUME NEW i \in 1..(m + 1), NEW j \in 1..(m + 1), i <= j
                   PROVE  (j - i + 1) * Q <= Capacity * Q + (grants'[j] - grants'[i]) * Gain
        BY <3>1 DEF Ceiling
      <4>1. CASE j = m + 1
        <5>1. /\ (m + 1 - i + 1) * Q + tokens'
                   <= Capacity * Q + (clock - grants'[i]) * Gain
          BY <3>3
        <5>2. (m + 1 - i + 1) * Q \in Int
          BY <3>1, <3>2
        <5>3. grants'[i] \in Nat
          BY <3>1 DEF RateTypeOK
        <5>4. (clock - grants'[i]) * Gain \in Int
          BY <3>1, <3>2, <5>3
        <5>5. grants'[j] = clock
          BY <3>1, <4>1
        <5> HIDE DEF m
        <5> QED BY <3>1, <3>2, <4>1, <5>1, <5>2, <5>4, <5>5
      <4>2. CASE j \in 1..m
        <5>1. i \in 1..m
          BY <4>2, <3>1
        <5> QED BY <3>1, <4>2, <5>1 DEF Ceiling
      <4> QED BY <3>1, <4>1, <4>2
    <3> QED BY <3>4, <3>5
  <2>2. ASSUME NEW t \in Threads, Sleep(t) PROVE Budget' /\ Ceiling'
    <3>1. grants' = grants /\ last' = clock /\ tokens' = Refilled(clock)
      BY <2>2 DEF Sleep
    <3>2. Budget'
      BY <3>1, BudgetRefilled DEF Budget
    <3> QED BY <3>1, <3>2 DEF Ceiling
  <2>3. CASE UNCHANGED <<bucket, grants>>
    BY <2>3 DEF bucket, Budget, Ceiling
  <2> QED BY <2>1, <2>2, <2>3 DEF RateNext, ThreadStep, Acquire, Wake, Tick, rateVars
<1> QED BY <1>1, <1>2, RateTypeCorrect, PTL DEF RateSpec
=============================================================================
