------------------------------ MODULE SpamRuns ------------------------------
(***************************************************************************)
(* Contender::spam (crates/core/src/orchestrator.rs) driving one TxActor   *)
(* through consecutive runs, as the library and the JSON-RPC server do.    *)
(* Every step of the driver is a call on TxActorHandle; actor, flush loops,*)
(* callbacks and chain behave as in TxActor.                               *)
(***************************************************************************)
EXTENDS TxActor

VARIABLES
    drv,             \* where Contender::spam is
    run,             \* id of the latest run inserted
    parentCancelled  \* the token given to TestScenario::new was cancelled

drvVars == <<drv, run, parentCancelled>>
allVars == <<vars, drvVars>>

DrvInit ==
    /\ Init
    /\ drv = "Idle"
    /\ run = 0
    /\ parentCancelled = FALSE

Move(from, to) ==
    /\ drv = from
    /\ drv' = to
    /\ UNCHANGED <<run, parentCancelled>>

\* prepare_for_run: nothing to do while the token is fresh; otherwise a new
\* token, detached from the parent's, and a new flush loop.
PrepareForRun(from, to) ==
    IF ~cancelled[gen] THEN Move(from, to) /\ UNCHANGED vars
    ELSE IF status # "Running" THEN Move(from, "Failed") /\ UNCHANGED vars
    ELSE Move(from, to) /\ RestartFlush

InsertRun ==
    /\ drv = "Prepared"
    /\ run + 1 \in Runs
    /\ drv' = "Inserted"
    /\ run' = run + 1
    /\ UNCHANGED <<parentCancelled, vars>>

\* insert_run or get_block_number fails: spam returns, the token untouched.
SpamFailsEarly ==
    /\ \/ Move("Prepared", "Idle")
       \/ Move("Inserted", "Idle")
    /\ UNCHANGED vars

GetBlockNumber == Move("Inserted", "HaveBlock") /\ ReadStartBlock

InitActorCtx == Move("HaveBlock", "Spamming") /\ InitCtx(run, startBlock)

SpamSend(t) ==
    /\ drv = "Spamming"
    /\ SendTx(t)
    /\ UNCHANGED <<drv, run, parentCancelled>>

\* spam_rpc returned, or the external token was cancelled first; the flush
\* loop is told that sending is done.  Callbacks may still be on their way.
SpamEnds == Move("Spamming", "AwaitFlush") /\ CancelFlush(gen)

AwaitFlush ==
    /\ loop[gen].pc = "Done"
    /\ Move("AwaitFlush", "Flushed")
    /\ UNCHANGED vars

\* The library calls spam again at once, and so does the server under
\* run_forever; otherwise the server clears the cache first.
RunAgain == Move("Returned", "Idle") /\ UNCHANGED vars

ClearAfterRun == Move("Returned", "Clearing") /\ AskActor([op |-> "ClearCache"])

ClearAnswered ==
    /\ ask \in {"answered", "failed"}
    /\ Move("Clearing", "Idle")
    /\ UNCHANGED vars

\* The scenario is shut down, or dropped with its handles.
Shutdown == Move("Idle", "Stopped") /\ Stop

\* Only the first token is a child of the parent's.
CancelParent ==
    /\ ~parentCancelled
    /\ parentCancelled' = TRUE
    /\ CancelFlush(1)
    /\ UNCHANGED <<drv, run>>

\* A transaction the node rejected is one that no block ever includes.
Mine == \E included \in SUBSET Txs : MineBlock(included)

DriverStep ==
    \/ PrepareForRun("Idle", "Prepared") \/ InsertRun \/ SpamFailsEarly \/ GetBlockNumber
    \/ InitActorCtx \/ (\E t \in Txs : SpamSend(t)) \/ SpamEnds \/ AwaitFlush
    \/ PrepareForRun("Flushed", "Returned") \/ RunAgain \/ ClearAfterRun \/ ClearAnswered
    \/ Shutdown \/ CancelParent

SystemStep ==
    /\ \/ ActorStep
       \/ \E g \in Gens : FlushStep(g)
       \/ \E t \in Txs : CallbackStep(t)
       \/ Mine
       \/ \E t \in Txs, fb \in FbIndices : HandleFlashblockMark(t, fb)
    /\ UNCHANGED drvVars

\* The scenario is stopped and every task has ended.
Terminated ==
    /\ drv = "Stopped"
    /\ status # "Running"
    /\ \A g \in Gens : loop[g].pc \in {"Done", "NotSpawned"}
    /\ UNCHANGED allVars

DrvNext == DriverStep \/ SystemStep \/ Terminated

DrvSpec == DrvInit /\ [][DrvNext]_allVars

-----------------------------------------------------------------------------
(* Properties *)

\* Over all runs and flush loops a transaction gets one row: a new loop starts
\* only after the old one has ended and its last removal has been handled, or
\* before the old one was ever given a run.
LoggedOnce == \A r, s \in db : r.tx = s.tx => r = s /\ ~r.again
=============================================================================
