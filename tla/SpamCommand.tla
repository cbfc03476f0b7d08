---------------------------- MODULE SpamCommand ----------------------------
(***************************************************************************)
(* The subcommand spam (crates/cli/src/main.rs, run()): the command of     *)
(* SpamCli, and one spam_rpc of its scenario (SpamRpc), which the command  *)
(* only sees return or fail.                                               *)
(***************************************************************************)
EXTENDS SpamCli, SpamRpc

CONSTANT Parts      \* the parts of the instance: "command", "rpc"

VARIABLE part       \* the part that runs; the other stays in its first state

allVars == <<part, vars, rpcVars>>

SpamInit ==
    /\ part \in Parts
    /\ CliInit
    /\ IF part = "rpc" THEN RpcInit ELSE RpcStart(CHOOSE s \in Setups : s.backlog = 0)

Commanding(step) == part = "command" /\ step /\ UNCHANGED <<part, rpcVars>>

Executing(step) == part = "rpc" /\ step /\ UNCHANGED <<part, vars>>

SpamNext == Commanding(Next) \/ Executing(RpcNext)

\* The fairness of SpamCli and SpamRpc.
SpamFairness ==
    /\ WF_allVars(Commanding(Command)) /\ WF_allVars(Commanding(Sweeper))
    /\ WF_allVars(Commanding(FundCaller))
    /\ \A n \in Attempts, k \in DOMAIN Recipients : WF_allVars(Commanding(FundTask(n, k)))
    /\ WF_allVars(Executing(Main)) /\ WF_allVars(Executing(BatchTaskEnds))
    /\ WF_allVars(Executing(FcuPoll)) /\ WF_allVars(Executing(FcuAdvanced))
    /\ \A i \in Positions : WF_allVars(Executing(SendingTask(i)))

SpamSpec == SpamInit /\ [][SpamNext]_allVars /\ SpamFairness
=============================================================================
