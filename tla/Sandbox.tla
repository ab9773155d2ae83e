------------------------------- MODULE Sandbox -------------------------------
(***************************************************************************)
(* The code agent's sandbox: the host's executor (sandbox/executor.py), the *)
(* kernel at the other end of the channel (runtime.py), and the proxied    *)
(* tool calls which the host answers while an exec runs (rpc.py).          *)
(* Runs are numbered; run 0 of the watchdog is the handshake.              *)
(***************************************************************************)
EXTENDS Naturals, Sequences

CONSTANTS MaxRuns,     \* bound on the calls of run()
          ToolBudget,  \* max_tool_calls of the inner context
          ToolsRaise   \* whether a tool can raise anything but ToolError

ASSUME SandboxAssumption ==
  MaxRuns \in Nat /\ ToolBudget \in Nat /\ ToolsRaise \in BOOLEAN

VARIABLES
  backend,            \* "local" or "docker"
  pc, n,              \* the host: where it is, how many runs it began
  answer,             \* per run: the ExecResult, or that run() raised
  kernel,             \* the kernel: where it is, and the run it executes
  toKernel, toHost,   \* the two directions of the channel
  watchdog, timedOut, \* docker: a timer per run, and the flag they share
  calls               \* tool_calls of the inner context

host == <<pc, n, answer>>
channel == <<toKernel, toHost>>
timers == <<watchdog, timedOut>>
vars == <<backend, host, kernel, channel, timers, calls>>

Runs == 1..MaxRuns
NoAnswer == [kind |-> "none", of |-> 0]
Result(m) == [kind |-> "result", of |-> m]
Failure(k) == [kind |-> k, of |-> 0]   \* "timeout", "exited", "raised"
Msg(type, m) == [type |-> type, run |-> m]
Dead == kernel.pc = "dead"

Init ==
  /\ backend \in {"local", "docker"}
  /\ pc = "off" /\ n = 0
  /\ answer = [m \in Runs |-> NoAnswer]
  /\ kernel = [pc |-> "dead", run |-> 0]
  /\ toKernel = <<>> /\ toHost = <<>>
  /\ watchdog = [m \in 0..MaxRuns |-> "unarmed"]
  /\ timedOut = FALSE
  /\ calls = 0
-----------------------------------------------------------------------------
(* The host. Arming sets the flag back; cancelling comes too late for a    *)
(* timer that has already looked whether it was cancelled.                 *)
Arm(m) == IF backend = "docker"
          THEN watchdog' = [watchdog EXCEPT ![m] = "armed"] /\ timedOut' = FALSE
          ELSE UNCHANGED timers
Cancel(m) == /\ watchdog' = [watchdog EXCEPT ![m] = IF @ = "armed" THEN "cancelled" ELSE @]
             /\ UNCHANGED timedOut

Kill == kernel' = [kernel EXCEPT !.pc = "dead"] /\ toKernel' = <<>>

Start ==
  /\ pc = "off"
  /\ pc' = "starting"
  /\ kernel' = [kernel EXCEPT !.pc = "serve"]
  /\ toKernel' = <<Msg("init", 0)>>
  /\ Arm(0)
  /\ UNCHANGED <<backend, n, answer, toHost, calls>>

Started ==
  /\ pc = "starting"
  /\ toHost # <<>>
  /\ toHost' = Tail(toHost)
  /\ pc' = "idle"
  /\ Cancel(0)
  /\ UNCHANGED <<backend, n, answer, kernel, toKernel, calls>>

(* No kernel, or none in time: start() raises and close() follows. *)
StartFails ==
  /\ pc = "starting"
  /\ toHost = <<>>
  /\ Dead \/ backend = "local"
  /\ pc' = "failed"
  /\ Cancel(0)
  /\ UNCHANGED <<backend, n, answer, kernel, channel, calls>>

(* run(): the exec is sent. A dead local kernel shows at once; the pipe of  *)
(* a dead container may still take the message.                             *)
Run ==
  /\ pc = "idle"
  /\ n < MaxRuns
  /\ ~Dead \/ backend = "docker"
  /\ n' = n + 1
  /\ pc' = "pump"
  /\ toKernel' = IF Dead THEN toKernel ELSE Append(toKernel, Msg("exec", n + 1))
  /\ Arm(n + 1)
  /\ UNCHANGED <<backend, answer, kernel, toHost, calls>>

RunOnDead ==
  /\ pc = "idle"
  /\ n < MaxRuns
  /\ Dead
  /\ n' = n + 1
  /\ answer' = [answer EXCEPT ![n + 1] = Failure("raised")]
  /\ UNCHANGED <<backend, pc, kernel, channel, timers, calls>>

Answered(a) == pc' = "idle" /\ answer' = [answer EXCEPT ![n] = a] /\ Cancel(n)

Received(type) == pc = "pump" /\ toHost # <<>> /\ Head(toHost).type = type /\ toHost' = Tail(toHost)

(* handle(): denied, unknown or over the budget; or dispatched and counted. *)
Reply ==
  /\ Received("rpc")
  /\ ~Dead
  /\ toKernel' = Append(toKernel, Msg("rpc_result", 0))
  /\ calls' \in {calls} \cup (IF calls < ToolBudget THEN {calls + 1} ELSE {})
  /\ UNCHANGED <<backend, host, kernel, timers>>

(* The answer has nobody to go to, or the tool raised: so does run(). *)
ReplyFails ==
  /\ Received("rpc")
  /\ Dead \/ (ToolsRaise /\ calls < ToolBudget)
  /\ Answered(Failure("raised"))
  /\ UNCHANGED <<backend, n, kernel, toKernel, calls>>

Finished ==
  /\ Received("exec_result")
  /\ Answered(IF timedOut THEN Failure("timeout") ELSE Result(Head(toHost).run))
  /\ UNCHANGED <<backend, n, kernel, toKernel, calls>>

EndOfFile ==
  /\ pc = "pump"
  /\ toHost = <<>> /\ Dead
  /\ Answered(Failure(IF timedOut THEN "timeout" ELSE "exited"))
  /\ UNCHANGED <<backend, n, kernel, channel, calls>>

(* The socket's time limit, per message, and then the end of the process.  *)
SocketTimeout ==
  /\ backend = "local"
  /\ pc = "pump"
  /\ toHost = <<>> /\ ~Dead
  /\ pc' = "terminating"
  /\ UNCHANGED <<backend, n, answer, kernel, channel, timers, calls>>

(* Slip for Terminated: the process is left to finish. *)
TerminatedLater ==
  /\ pc = "terminating"
  /\ Answered(Failure("timeout"))
  /\ UNCHANGED <<backend, n, kernel, channel, calls>>

Terminated ==
  /\ pc = "terminating"
  /\ Kill
  /\ Answered(Failure("timeout"))
  /\ UNCHANGED <<backend, n, toHost, calls>>

Close ==
  /\ pc \in {"idle", "failed"}
  /\ pc' = "closed"
  /\ Kill
  /\ UNCHANGED <<backend, n, answer, toHost, timers, calls>>
-----------------------------------------------------------------------------
(* A watchdog: it looks whether it was cancelled, sets the flag, kills.    *)
Expire(m) ==
  /\ watchdog[m] = "armed"
  /\ watchdog' = [watchdog EXCEPT ![m] = "firing"]
  /\ UNCHANGED <<backend, host, kernel, channel, timedOut, calls>>

Flag(m) ==
  /\ watchdog[m] = "firing"
  /\ watchdog' = [watchdog EXCEPT ![m] = "flagged"]
  /\ timedOut' = TRUE
  /\ UNCHANGED <<backend, host, kernel, channel, calls>>

(* Slip for KillContainer: only the client of docker is ended. *)
KillNothing(m) ==
  /\ watchdog[m] = "flagged"
  /\ watchdog' = [watchdog EXCEPT ![m] = "fired"]
  /\ UNCHANGED <<backend, host, kernel, channel, timedOut, calls>>

KillContainer(m) ==
  /\ watchdog[m] = "flagged"
  /\ watchdog' = [watchdog EXCEPT ![m] = "fired"]
  /\ Kill
  /\ UNCHANGED <<backend, host, toHost, timedOut, calls>>
-----------------------------------------------------------------------------
(* The kernel: _serve takes a message, runs the client's source or an exec. *)
Serve ==
  /\ kernel.pc = "serve"
  /\ toKernel # <<>>
  /\ toKernel' = Tail(toKernel)
  /\ IF Head(toKernel).type = "exec"
     THEN /\ kernel' = [pc |-> "user", run |-> Head(toKernel).run]
          /\ UNCHANGED toHost
     ELSE /\ toHost' = Append(toHost, Msg("init_ok", 0))
          /\ UNCHANGED kernel
  /\ UNCHANGED <<backend, host, timers, calls>>

(* The code calls a tool and waits for whatever comes next; what is no      *)
(* answer is an error that the code may catch.                              *)
UserCalls ==
  /\ kernel.pc = "user"
  /\ kernel' = [kernel EXCEPT !.pc = "rpc"]
  /\ toHost' = Append(toHost, Msg("rpc", kernel.run))
  /\ UNCHANGED <<backend, host, toKernel, timers, calls>>

CallReturns ==
  /\ kernel.pc = "rpc"
  /\ toKernel # <<>>
  /\ toKernel' = Tail(toKernel)
  /\ kernel' = [kernel EXCEPT !.pc = "user"]
  /\ UNCHANGED <<backend, host, toHost, timers, calls>>

UserEnds ==
  /\ kernel.pc = "user"
  /\ kernel' = [kernel EXCEPT !.pc = "serve"]
  /\ toHost' = Append(toHost, Msg("exec_result", kernel.run))
  /\ UNCHANGED <<backend, host, toKernel, timers, calls>>

(* The code leaves with SystemExit or is out of memory; or the client's    *)
(* source fails.                                                           *)
KernelDies ==
  /\ ~Dead
  /\ Kill
  /\ UNCHANGED <<backend, host, toHost, timers, calls>>

Host == \/ Start \/ Started \/ StartFails \/ Reply \/ ReplyFails \/ Finished
        \/ EndOfFile \/ SocketTimeout \/ Terminated
Watchdog == \E m \in 0..MaxRuns : Expire(m) \/ Flag(m) \/ KillContainer(m)
Kernel == Serve \/ CallReturns

Next == \/ Host \/ Run \/ RunOnDead \/ Close
        \/ Watchdog
        \/ Kernel \/ UserCalls \/ UserEnds \/ KernelDies

(* The host and the timers keep running; nothing is owed by the user's code. *)
Spec == /\ Init /\ [][Next]_vars
        /\ WF_vars(Host) /\ WF_vars(Kernel)
        /\ \A m \in 0..MaxRuns : WF_vars(Expire(m) \/ Flag(m) \/ KillContainer(m))
-----------------------------------------------------------------------------
(* What run() hands to the model as the output of its code is the output of *)
(* that code: no answer of an earlier run is left over in the channel, after *)
(* timeouts, deaths and late watchdogs (executor.py, _pump).                *)
OwnAnswer == \A m \in Runs : answer[m].kind = "result" => answer[m].of = m

(* In a container every run() returns, whatever the code does, a loop of   *)
(* tool calls included; and code reported as timed out does not stay alive *)
(* (executor.py: a watchdog kills the container).                          *)
RunsAreBounded ==
  /\ (backend = "docker" /\ pc = "pump") ~> (pc # "pump")
  /\ \A m \in Runs : (answer[m].kind = "timeout") ~> Dead
=============================================================================
