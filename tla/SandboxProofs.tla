---------------------------- MODULE SandboxProofs ----------------------------
(***************************************************************************)
(* The output a run hands to the model is that of its own code, for any    *)
(* number of runs and any budget of tool calls, in both backends, as long  *)
(* as tools raise nothing but ToolError (Sandbox_runs with ToolsRaise =    *)
(* TRUE finds the mix-up that follows when they do).                       *)
(*                                                                         *)
(* The invariant says what may be on its way where the host is: while a    *)
(* run is pumped the channel and the kernel hold one token between them,   *)
(* and that token is the run's; between runs they hold none, but for what  *)
(* a local kernel wrote before it was terminated, which nobody reads.      *)
(***************************************************************************)
EXTENDS Sandbox, TLAPS

(* The handshake: the client's source is with the kernel, or answered.      *)
Handshake ==
  \/ Dead /\ toKernel = <<>> /\ toHost \in {<<>>, <<Msg("init_ok", 0)>>}
  \/ /\ kernel.pc = "serve"
     /\ \/ toKernel = <<Msg("init", 0)>> /\ toHost = <<>>
        \/ toKernel = <<>> /\ toHost = <<Msg("init_ok", 0)>>

(* The one token of run m: sent, executed, in a tool call, or answered; or  *)
(* lost with the kernel.                                                    *)
Token(m) ==
  \/ Dead /\ toKernel = <<>> /\ toHost \in {<<>>, <<Msg("rpc", m)>>, <<Msg("exec_result", m)>>}
  \/ kernel.pc = "serve" /\ toKernel = <<Msg("exec", m)>> /\ toHost = <<>>
  \/ kernel.pc = "user" /\ kernel.run = m /\ toKernel = <<>> /\ toHost = <<>>
  \/ kernel.pc = "rpc" /\ kernel.run = m /\ toKernel = <<>> /\ toHost = <<Msg("rpc", m)>>
  \/ kernel.pc = "rpc" /\ kernel.run = m /\ toKernel = <<Msg("rpc_result", 0)>> /\ toHost = <<>>
  \/ kernel.pc = "serve" /\ toKernel = <<>> /\ toHost = <<Msg("exec_result", m)>>

Quiet ==
  \/ Dead /\ toKernel = <<>> /\ (backend = "docker" => toHost = <<>>)
  \/ kernel.pc = "serve" /\ toKernel = <<>> /\ toHost = <<>>

KernelIs == /\ kernel = [pc |-> kernel.pc, run |-> kernel.run]
            /\ kernel.pc \in {"dead", "serve", "user", "rpc"}

IInv ==
  /\ pc \in {"off", "starting", "idle", "pump", "terminating", "failed", "closed"}
  /\ n \in 0..MaxRuns /\ DOMAIN answer = Runs
  /\ KernelIs
  /\ pc = "off" => Dead /\ toKernel = <<>> /\ toHost = <<>>
  /\ pc = "starting" => Handshake
  /\ pc = "idle" => Quiet
  /\ pc = "pump" => n # 0 /\ Token(n)
  /\ pc = "terminating" => n # 0 /\ backend = "local"
  /\ OwnAnswer
-----------------------------------------------------------------------------
(* A direction of the channel with one message on it, taken or put there. *)
LEMMA OneMessage ==
  ASSUME NEW message
  PROVE  /\ <<message>> # <<>> /\ Head(<<message>>) = message /\ Tail(<<message>>) = <<>>
         /\ Append(<<>>, message) = <<message>>
  OBVIOUS

LEMMA KillOK ==
  ASSUME IInv, Kill
  PROVE  Dead' /\ toKernel' = <<>> /\ KernelIs'
  BY DEF IInv, Kill, Dead, KernelIs

(* Where the kernel dies, whatever was on its way to the host stays so. *)
LEMMA DeathIsQuiet ==
  ASSUME IInv, Dead', toKernel' = <<>>, UNCHANGED <<toHost, backend>>
  PROVE  /\ Handshake => Handshake'
         /\ Quiet => Quiet'
         /\ \A m : Token(m) => Token(m)'
<1>1. Handshake => Handshake'
  BY DEF Handshake, Dead
<1>2. Quiet => Quiet'
  BY DEF Quiet, Dead
<1>3. ASSUME NEW m, Token(m)
      PROVE  Token(m)'
  BY <1>3 DEF Token, Dead
<1> QED
  BY <1>1, <1>2, <1>3

LEMMA AnsweredOK ==
  ASSUME IInv, n # 0, NEW a, Answered(a), a.kind = "result" => a.of = n
  PROVE  pc' = "idle" /\ OwnAnswer' /\ DOMAIN answer' = Runs
  BY DEF IInv, Answered, OwnAnswer, Runs

LEMMA InitOK == Init => IInv
  BY SandboxAssumption DEF Init, IInv, KernelIs, Dead, OwnAnswer, NoAnswer, Runs

(* The host's steps. *)
LEMMA HostOK ==
  ASSUME IInv, ~ToolsRaise, Host \/ Run \/ RunOnDead \/ Close
  PROVE  IInv'
<1> USE SandboxAssumption
<1>0. /\ n \in 0..MaxRuns /\ DOMAIN answer = Runs /\ OwnAnswer
      /\ KernelIs
  BY DEF IInv, KernelIs
<1>1. CASE Start
  BY <1>0, <1>1 DEF Start, IInv, KernelIs, Handshake, Dead, OwnAnswer
<1>2. CASE Started
  <2>1. Handshake /\ toHost # <<>>
    BY <1>2 DEF Started, IInv, KernelIs
  <2>2. toHost = <<Msg("init_ok", 0)>> /\ toKernel = <<>> /\ (Dead \/ kernel.pc = "serve")
    BY <2>1 DEF Handshake
  <2>3. toHost' = <<>> /\ kernel' = kernel /\ toKernel' = toKernel
    BY <1>2, <2>2, OneMessage DEF Started
  <2>4. Quiet'
    BY <2>2, <2>3 DEF Quiet, Dead
  <2> QED
    BY <1>0, <1>2, <2>4 DEF Started, IInv, KernelIs, OwnAnswer
<1>3. CASE StartFails
  BY <1>0, <1>3 DEF StartFails, IInv, KernelIs, OwnAnswer
<1>4. CASE Reply
  <2>1. Token(n) /\ n # 0 /\ ~Dead /\ pc = "pump" /\ toHost # <<>> /\ Head(toHost).type = "rpc"
    BY <1>4 DEF Reply, Received, IInv, KernelIs
  <2>2. toHost = <<Msg("rpc", n)>> /\ toKernel = <<>> /\ kernel.pc = "rpc" /\ kernel.run = n
    BY <2>1, OneMessage DEF Token, Msg
  <2>3. /\ toHost' = <<>> /\ toKernel' = <<Msg("rpc_result", 0)>>
        /\ UNCHANGED <<pc, n, answer, kernel, backend>>
    BY <1>4, <2>2, OneMessage DEF Reply, Received, host
  <2>4. Token(n)'
    BY <2>2, <2>3 DEF Token
  <2> QED
    BY <1>0, <2>1, <2>3, <2>4 DEF IInv, KernelIs, OwnAnswer
<1>5. CASE ReplyFails
  <2>1. Token(n) /\ n # 0 /\ Dead /\ toHost # <<>>
    BY <1>5 DEF ReplyFails, Received, IInv, KernelIs
  <2>2. toKernel = <<>> /\ Tail(toHost) = <<>>
    BY <2>1, OneMessage DEF Token, Dead
  <2>3. Quiet'
    BY <1>5, <2>1, <2>2 DEF ReplyFails, Received, Quiet, Dead
  <2>4. pc' = "idle" /\ OwnAnswer' /\ DOMAIN answer' = Runs
    BY <1>5, <2>1, AnsweredOK DEF ReplyFails, Failure
  <2> QED
    BY <1>0, <1>5, <2>3, <2>4 DEF ReplyFails, IInv, KernelIs
<1>6. CASE Finished
  <2>1. Token(n) /\ n # 0 /\ toHost # <<>> /\ Head(toHost).type = "exec_result"
    BY <1>6 DEF Finished, Received, IInv, KernelIs
  <2>2. /\ toHost = <<Msg("exec_result", n)>> /\ toKernel = <<>>
        /\ Dead \/ kernel.pc = "serve"
    BY <2>1, OneMessage DEF Token, Msg
  <2>3. Head(toHost).run = n /\ Tail(toHost) = <<>>
    BY <2>2, OneMessage DEF Msg
  <2>4. Quiet'
    BY <1>6, <2>2, <2>3 DEF Finished, Received, Quiet, Dead
  <2>5. pc' = "idle" /\ OwnAnswer' /\ DOMAIN answer' = Runs
    BY <1>6, <2>1, <2>3, AnsweredOK DEF Finished, Failure, Result
  <2> QED
    BY <1>0, <1>6, <2>4, <2>5 DEF Finished, IInv, KernelIs
<1>7. CASE EndOfFile
  <2>1. Token(n) /\ n # 0 /\ Dead /\ toHost = <<>>
    BY <1>7 DEF EndOfFile, IInv, KernelIs
  <2>2. Quiet'
    BY <1>7, <2>1 DEF EndOfFile, channel, Token, Quiet, Dead
  <2>3. pc' = "idle" /\ OwnAnswer' /\ DOMAIN answer' = Runs
    BY <1>7, <2>1, AnsweredOK DEF EndOfFile, Failure
  <2> QED
    BY <1>0, <1>7, <2>2, <2>3 DEF EndOfFile, IInv, KernelIs
<1>8. CASE SocketTimeout
  BY <1>0, <1>8 DEF SocketTimeout, IInv, KernelIs, OwnAnswer
<1>9. CASE Terminated
  <2>1. Dead' /\ toKernel' = <<>> /\ KernelIs'
    BY <1>9, KillOK DEF Terminated
  <2>2. backend = "local" /\ n # 0
    BY <1>9 DEF Terminated, IInv, KernelIs
  <2>3. Quiet'
    BY <1>9, <2>1, <2>2 DEF Terminated, Quiet
  <2>4. pc' = "idle" /\ OwnAnswer' /\ DOMAIN answer' = Runs
    BY <1>9, <2>2, AnsweredOK DEF Terminated, Failure
  <2> QED
    BY <1>0, <1>9, <2>1, <2>3, <2>4 DEF Terminated, IInv, KernelIs
<1>10. CASE Run
  <2>1. Quiet /\ n + 1 \in 1..MaxRuns /\ (~Dead \/ backend = "docker")
    BY <1>0, <1>10 DEF Run, IInv, KernelIs
  <2>2. /\ toHost = <<>> /\ toKernel = <<>> /\ (Dead \/ kernel.pc = "serve")
    BY <2>1 DEF Quiet, Dead
  <2>3. /\ pc' = "pump" /\ n' = n + 1 /\ UNCHANGED <<backend, answer, kernel, toHost>>
        /\ toKernel' = IF Dead THEN <<>> ELSE <<Msg("exec", n + 1)>>
    BY <1>10, <2>2, OneMessage DEF Run
  <2>4. n' # 0 /\ Token(n)'
    BY <1>0, <2>2, <2>3 DEF Token, Dead
  <2> QED
    BY <1>0, <2>1, <2>3, <2>4 DEF IInv, KernelIs, OwnAnswer
<1>11. CASE RunOnDead
  <2>1. /\ n + 1 \in Runs /\ n' = n + 1 /\ n' \in 0..MaxRuns /\ pc = "idle" /\ pc' = "idle"
        /\ answer' = [answer EXCEPT ![n + 1] = Failure("raised")]
        /\ UNCHANGED <<backend, kernel, toKernel, toHost>>
    BY <1>0, <1>11 DEF RunOnDead, Runs, channel
  <2>2. OwnAnswer' /\ DOMAIN answer' = Runs
    BY <1>0, <2>1 DEF OwnAnswer, Failure
  <2>3. Quiet'
    BY <2>1 DEF IInv, KernelIs, Quiet, Dead
  <2> QED
    BY <1>0, <2>1, <2>2, <2>3 DEF IInv, KernelIs
<1>12. CASE Close
  BY <1>0, <1>12, KillOK DEF Close, IInv, KernelIs, OwnAnswer
<1> QED
  BY <1>1, <1>2, <1>3, <1>4, <1>5, <1>6, <1>7, <1>8, <1>9, <1>10, <1>11, <1>12 DEF Host

(* A watchdog fires, or the kernel dies by itself. *)
LEMMA DeathOK ==
  ASSUME IInv, Watchdog \/ KernelDies
  PROVE  IInv'
<1>1. /\ UNCHANGED <<backend, pc, n, answer, toHost>>
      /\ UNCHANGED <<kernel, toKernel>> \/ Kill
  BY DEF Watchdog, Expire, Flag, KillContainer, KernelDies, host, channel
<1>2. CASE UNCHANGED <<kernel, toKernel>>
  <2>1. /\ Handshake => Handshake'
        /\ Quiet => Quiet'
        /\ Token(n) => Token(n)'
    BY <1>1, <1>2 DEF Handshake, Quiet, Token, Dead
  <2> QED
    BY <1>1, <1>2, <2>1 DEF IInv, KernelIs, OwnAnswer, Dead
<1>3. CASE Kill
  <2>1. Dead' /\ toKernel' = <<>> /\ KernelIs'
    BY <1>3, KillOK
  <2>2. /\ Handshake => Handshake'
        /\ Quiet => Quiet'
        /\ \A m : Token(m) => Token(m)'
    BY <1>1, <2>1, DeathIsQuiet
  <2>3. Token(n) => Token(n)'
    BY <1>1, <2>2 DEF Token, Dead
  <2> QED
    BY <1>1, <2>1, <2>2, <2>3 DEF IInv, KernelIs, OwnAnswer
<1> QED
  BY <1>1, <1>2, <1>3

(* The kernel's steps move the token on, and there is none between runs. *)
LEMMA KernelOK ==
  ASSUME IInv, Kernel \/ UserCalls \/ UserEnds
  PROVE  IInv'
<1>0. KernelIs /\ n \in 0..MaxRuns /\ DOMAIN answer = Runs
  BY DEF IInv
<1>1. /\ UNCHANGED <<backend, pc, n, answer>> /\ ~Dead
      /\ KernelIs'
  BY <1>0 DEF Kernel, Serve, UserCalls, UserEnds, CallReturns, host, Dead, KernelIs
<1>2. CASE pc = "starting"
  <2>1. kernel.pc = "serve"
    BY <1>1, <1>2 DEF IInv, Handshake
  <2>2. Serve
    BY <2>1 DEF Kernel, CallReturns, UserCalls, UserEnds
  <2>3. toKernel = <<Msg("init", 0)>> /\ toHost = <<>>
    BY <1>1, <1>2, <2>2 DEF IInv, Handshake, Serve
  <2>4. toKernel' = <<>> /\ toHost' = <<Msg("init_ok", 0)>> /\ kernel' = kernel
    BY <2>2, <2>3, OneMessage DEF Serve, Msg
  <2>5. Handshake'
    BY <2>1, <2>4 DEF Handshake
  <2> QED
    BY <1>0, <1>1, <1>2, <2>5 DEF IInv, OwnAnswer
<1>3. CASE pc = "idle"
  <2>1. kernel.pc = "serve" /\ toKernel = <<>>
    BY <1>1, <1>3 DEF IInv, Quiet
  <2> QED
    BY <2>1 DEF Kernel, Serve, CallReturns, UserCalls, UserEnds
<1>4. CASE pc = "pump"
  <2>1. Token(n) /\ n # 0
    BY <1>4 DEF IInv
  <2>2. ASSUME Serve
        PROVE  Token(n)'
    <3>1. kernel.pc = "serve" /\ toKernel = <<Msg("exec", n)>> /\ toHost = <<>>
      BY <2>1, <2>2 DEF Token, Serve, Dead
    <3>2. kernel' = [pc |-> "user", run |-> n] /\ toKernel' = <<>> /\ toHost' = <<>>
      BY <2>2, <3>1, OneMessage DEF Serve, Msg
    <3> QED
      BY <1>1, <3>2 DEF Token
  <2>3. ASSUME CallReturns
        PROVE  Token(n)'
    <3>1. kernel.pc = "rpc" /\ kernel.run = n /\ toKernel = <<Msg("rpc_result", 0)>> /\ toHost = <<>>
      BY <2>1, <2>3 DEF Token, CallReturns, Dead
    <3>2. kernel'.pc = "user" /\ kernel'.run = n /\ toKernel' = <<>> /\ toHost' = <<>>
      BY <1>0, <2>3, <3>1, OneMessage DEF CallReturns, KernelIs
    <3> QED
      BY <1>1, <3>2 DEF Token
  <2>4. ASSUME UserCalls
        PROVE  Token(n)'
    <3>1. kernel.run = n /\ toKernel = <<>> /\ toHost = <<>>
      BY <2>1, <2>4 DEF Token, UserCalls, Dead
    <3>2. /\ kernel'.pc = "rpc" /\ kernel'.run = n /\ toKernel' = <<>>
          /\ toHost' = <<Msg("rpc", n)>>
      BY <1>0, <2>4, <3>1, OneMessage DEF UserCalls, KernelIs
    <3> QED
      BY <1>1, <3>2 DEF Token
  <2>5. ASSUME UserEnds
        PROVE  Token(n)'
    <3>1. kernel.run = n /\ toKernel = <<>> /\ toHost = <<>>
      BY <2>1, <2>5 DEF Token, UserEnds, Dead
    <3>2. kernel'.pc = "serve" /\ toKernel' = <<>> /\ toHost' = <<Msg("exec_result", n)>>
      BY <1>0, <2>5, <3>1, OneMessage DEF UserEnds, KernelIs
    <3> QED
      BY <1>1, <3>2 DEF Token
  <2>6. Token(n)'
    BY <2>2, <2>3, <2>4, <2>5 DEF Kernel
  <2> QED
    BY <1>0, <1>1, <1>4, <2>1, <2>6 DEF IInv, OwnAnswer
<1>5. CASE pc \notin {"starting", "idle", "pump"}
  <2>1. pc # "off"
    BY <1>1 DEF IInv
  <2> QED
    BY <1>0, <1>1, <1>5, <2>1 DEF IInv, OwnAnswer
<1> QED
  BY <1>2, <1>3, <1>4, <1>5

LEMMA StepOK == ~ToolsRaise /\ IInv /\ [Next]_vars => IInv'
<1> SUFFICES ASSUME ~ToolsRaise, IInv, [Next]_vars
             PROVE  IInv'
  OBVIOUS
<1>1. CASE Host \/ Run \/ RunOnDead \/ Close
  BY <1>1, HostOK
<1>2. CASE Watchdog \/ KernelDies
  BY <1>2, DeathOK
<1>3. CASE Kernel \/ UserCalls \/ UserEnds
  BY <1>3, KernelOK
<1>4. CASE UNCHANGED vars
  <2>1. UNCHANGED <<backend, pc, n, answer, kernel, toKernel, toHost>>
    BY <1>4 DEF vars, host, channel
  <2> QED
    BY <2>1 DEF IInv, KernelIs, OwnAnswer, Handshake, Quiet, Token, Dead
<1> QED
  BY <1>1, <1>2, <1>3, <1>4 DEF Next

(* OwnAnswer: what run() returns as the output of its code is the output of  *)
(* that code, whatever times out, dies or fires late (executor.py, _pump).   *)
THEOREM AnswersAreOwn ==
  ASSUME ~ToolsRaise
  PROVE  Spec => []OwnAnswer
<1>1. IInv => OwnAnswer
  BY DEF IInv
<1>2. IInv /\ [Next]_vars => IInv'
  BY StepOK
<1> QED
  BY <1>1, <1>2, InitOK, PTL DEF Spec
=============================================================================
