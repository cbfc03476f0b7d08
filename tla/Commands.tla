------------------------------ MODULE Commands ------------------------------
(***************************************************************************)
(* The program's subcommands (crates/cli/src/main.rs, run()) other than    *)
(* spam and server: replay and the engine provider (EngineChain), report,  *)
(* rpc, admin, setup and the library's initialize (SetupTasks), campaign,  *)
(* what every invocation does to the data directory (Storage, "db"), and   *)
(* the run database as the tasks of one process share it (RunDb, "tasks"). *)
(* rpc is followed by a report of its run.                                 *)
(***************************************************************************)
EXTENDS EngineChain, Reclaim, Storage, SetupTasks, Campaign, RunDb

CONSTANTS Subs,         \* the subcommands of the instance
          AdminRuns     \* the contents of the run database when admin is called

VARIABLE sub            \* the subcommand

commandVars == <<sub, engineVars, reportVars, rpcVars, reclaimVars, storageVars, setupVars, campaignVars, dbVars>>

\* What a subcommand does not use stays in its first state.
CommandsInit ==
  /\ sub \in Subs
  /\ IF sub = "replay" THEN EngineInit ELSE EngineStart(2, 2)
  /\ CASE sub = "report" -> ReportInit
       [] sub = "admin" -> \E db \in AdminRuns : ReportStart(db, "none")
       [] OTHER -> ReportStart(<<>>, "none")
  /\ RpcInit
  /\ IF sub = "admin" THEN ReclaimInit ELSE ReclaimIdle
  /\ IF sub = "db" THEN StorageInit ELSE StorageStart(FALSE, FirstUse)
  /\ IF sub = "setup" THEN SetupInit ELSE SetupStart(NoJob, 1, {})
  /\ IF sub = "campaign" THEN CampaignInit ELSE CampaignStart(NoCampaignFile, NoOptions)
  /\ IF sub = "tasks" THEN RunDbInit ELSE RunDbStart(CHOOSE s \in Setups : TRUE)

Replaying(step) ==
  /\ sub = "replay" /\ step
  /\ UNCHANGED <<sub, reportVars, rpcVars, reclaimVars, storageVars, setupVars, campaignVars, dbVars>>

Reporting(step) ==
  /\ sub = "report" \/ (sub = "rpc" /\ rq.at = "ok")
  /\ step
  /\ UNCHANGED <<sub, engineVars, rpcVars, reclaimVars, storageVars, setupVars, campaignVars, dbVars>>

Spamming(step) ==
  /\ sub = "rpc" /\ step
  /\ UNCHANGED <<sub, engineVars, reclaimVars, storageVars, setupVars, campaignVars, dbVars>>

Reclaiming(step) ==
  /\ sub = "admin" /\ step
  /\ UNCHANGED <<sub, engineVars, reportVars, rpcVars, storageVars, setupVars, campaignVars, dbVars>>

Storing(step) ==
  /\ sub = "db" /\ step
  /\ UNCHANGED <<sub, engineVars, reportVars, rpcVars, reclaimVars, setupVars, campaignVars, dbVars>>

SettingUp(step) ==
  /\ sub = "setup" /\ step
  /\ UNCHANGED <<sub, engineVars, reportVars, rpcVars, reclaimVars, storageVars, campaignVars, dbVars>>

Campaigning(step) ==
  /\ sub = "campaign" /\ step
  /\ UNCHANGED <<sub, engineVars, reportVars, rpcVars, reclaimVars, storageVars, setupVars, dbVars>>

Recording(step) ==
  /\ sub = "tasks" /\ step
  /\ UNCHANGED <<sub, engineVars, reportVars, rpcVars, reclaimVars, storageVars, setupVars, campaignVars>>

CommandsNext ==
  \/ Replaying(EngineNext)
  \/ Reporting(ReportNext)
  \/ Spamming(RpcNext)
  \/ Reclaiming(ReclaimNext)
  \/ Storing(StorageNext)
  \/ SettingUp(SetupNext)
  \/ Campaigning(CampaignNext)
  \/ Recording(RunDbNext)

\* Some task of the command that can go on does, the node answers what it is asked,
\* and it does not sync forever.  Transactions need not be mined.
CommandsFairness ==
  /\ WF_commandVars(\/ Replaying(Advance \/ ReplayStep)
                    \/ Reporting(ReportStep)
                    \/ Spamming(RpcStep)
                    \/ Reclaiming(ReclaimStep)
                    \/ SettingUp(~SetupEnded /\ SetupStep)
                    \/ Campaigning(CampaignStep)
                    \/ Recording(\E c \in Clients : DbStep(c)))
  /\ WF_commandVars(Replaying(EndSync))

CommandsSpec == CommandsInit /\ [][CommandsNext]_commandVars /\ CommandsFairness
-----------------------------------------------------------------------------
(* Properties *)

\* A command has begun and not ended.
Busy ==
  \/ adv.at \notin {"idle", "panic"}
  \/ rep.at \in {"fetch", "fcu", "payload"}
  \/ rpt.at \notin {"idle", "ok", "err", "panic"}
  \/ rq.at \notin {"idle", "ok", "err", "panic"}
  \/ rc.at \notin {"idle", "ok", "err"}
  \/ sub = "setup" /\ ~SetupEnded
  \/ sub = "campaign" /\ ~CampaignEnded
  \/ \E c \in Clients : call[c].op # NoCall

\* Commands end: the loops that wait for a node that syncs (valid_payload.rs), the
\* tasks that fetch blocks and traces into a bounded channel (block_trace.rs), the
\* requests of an rpc run, the accounts of a reclaim, the chained setup tasks with
\* their permits, a stage at its barrier, and database calls that wait for the pool.
CommandsEnd == Busy ~> ~Busy
=============================================================================
