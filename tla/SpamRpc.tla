------------------------------- MODULE SpamRpc -------------------------------
(***************************************************************************)
(* Spammer::spam_rpc of crates/core/src/spammer/spammer_trait.rs around    *)
(* the batches of SpamBatch: the forkchoice loop it spawns, the callback's *)
(* on_batch_sent (crates/core/src/spammer/tx_callback.rs) and the external *)
(* cancellation of Contender::spam.  What advance_chain does is            *)
(* EngineChain's business: here it returns or fails.                       *)
(***************************************************************************)
EXTENDS SpamBatch

VARIABLES
    phase,        \* position in spam_rpc
    batchTask,    \* on_batch_sent task: "none" or "advancing"
    fcuLoop,      \* the spawned loop: "none", "poll", "sleep", "advancing", "ok", "err"
    doneSending, doneFcuLoop,    \* SpamRunContext
    result        \* "none", "ok", "err" or "cancelled"

flags == <<doneSending, doneFcuLoop>>
rpcVars == <<batchVars, phase, batchTask, fcuLoop, flags, result>>

RpcStart(config) ==
    /\ BatchStart(config)
    /\ phase = "start"
    /\ batchTask = "none" /\ fcuLoop = "none"
    /\ doneSending = FALSE /\ doneFcuLoop = FALSE
    /\ result = "none"

RpcInit == \E config \in Setups : RpcStart(config)

RpcReturn(r) == phase' = "returned" /\ result' = r

Fails(f) == f \in Faults /\ RpcReturn("err")

-----------------------------------------------------------------------------
(* spam_rpc *)

MutantSpawnFcu ==
    /\ phase = "start"
    /\ fcuLoop' = "poll"
    /\ phase' = "generate"
    /\ UNCHANGED <<batchVars, batchTask, flags, result>>

SpawnFcu ==
    /\ phase = "start"
    /\ fcuLoop' = IF setup.auth THEN "poll" ELSE "ok"
    /\ phase' = "generate"
    /\ UNCHANGED <<batchVars, batchTask, flags, result>>

\* get_spam_tx_chunks and on_spam
Generate ==
    /\ phase = "generate"
    /\ \/ phase' = "execute" /\ UNCHANGED result
       \/ Fails("generate")
    /\ UNCHANGED <<batchVars, batchTask, fcuLoop, flags>>

\* execute_spammer, whose steps are those of SpamBatch.
ExecuteSpammer ==
    /\ phase = "execute"
    /\ Trigger \/ PrepareBatch \/ AwaitSend \/ AwaitError \/ (Collect /\ batchTask = "none")
    /\ UNCHANGED <<phase, batchTask, fcuLoop, flags, result>>

\* on_batch_sent, once the tasks of the batch have been awaited.
OnBatchSent ==
    /\ phase = "execute"
    /\ TasksAwaited
    /\ batchTask' = IF setup.fcu /\ setup.auth THEN "advancing" ELSE "none"
    /\ UNCHANGED <<phase, fcuLoop, flags, result>>

\* Its advance_chain returns, or fails and ends execute_spammer with its error.
\* Without a spam_rpc that awaits it the task ends on its own.
BatchTaskEnds ==
    /\ batchTask = "advancing"
    /\ batchTask' = "none"
    /\ \/ UNCHANGED exec
       \/ "advance" \in Faults /\ exec' = "error"
    /\ UNCHANGED <<setup, tick, nonces, due, adder, batch, silent, awaited, chans, isCancelled,
                   phase, fcuLoop, flags, result>>

ExecuteFails ==
    /\ phase = "execute" /\ exec = "error"
    /\ RpcReturn("err")
    /\ UNCHANGED <<batchVars, batchTask, fcuLoop, flags>>

DoneSending ==
    /\ phase = "execute" /\ exec = "done"
    /\ doneSending' = TRUE
    /\ phase' = "awaitFcu"
    /\ UNCHANGED <<batchVars, batchTask, fcuLoop, doneFcuLoop, result>>

AwaitFcu ==
    /\ phase = "awaitFcu"
    /\ \/ fcuLoop = "ok" /\ phase' = "metrics" /\ doneFcuLoop' = TRUE /\ UNCHANGED result
       \/ fcuLoop = "err" /\ RpcReturn("err") /\ UNCHANGED doneFcuLoop
    /\ UNCHANGED <<batchVars, batchTask, fcuLoop, doneSending>>

\* Latency metrics are stored and nonces synced.
Metrics ==
    /\ phase = "metrics"
    /\ RpcReturn("ok") \/ Fails("metrics")
    /\ UNCHANGED <<batchVars, batchTask, fcuLoop, flags>>

\* Contender::spam drops the future; spawned tasks go on.
ExternalCancel ==
    /\ "external" \in Faults
    /\ phase # "returned"
    /\ RpcReturn("cancelled")
    /\ exec' = "error"
    /\ UNCHANGED <<setup, tick, nonces, due, adder, batch, silent, awaited, chans, isCancelled,
                   batchTask, fcuLoop, flags>>

-----------------------------------------------------------------------------
(* The spawned tasks *)

MutantFcuPoll ==
    /\ fcuLoop \in {"poll", "sleep"}
    /\ fcuLoop' = IF doneFcuLoop THEN "ok" ELSE IF exec = "batchSent" THEN "advancing" ELSE "sleep"
    /\ UNCHANGED <<batchVars, phase, batchTask, flags, result>>

FcuPoll ==
    /\ fcuLoop \in {"poll", "sleep"}
    /\ fcuLoop' = IF doneFcuLoop THEN "ok" ELSE IF doneSending THEN "advancing" ELSE "sleep"
    /\ UNCHANGED <<batchVars, phase, batchTask, flags, result>>

\* advance_chain returned.
FcuAdvanced ==
    /\ fcuLoop = "advancing"
    /\ \/ fcuLoop' = "poll" /\ UNCHANGED doneFcuLoop
       \/ "advance" \in Faults /\ fcuLoop' = "err" /\ doneFcuLoop' = TRUE
    /\ UNCHANGED <<batchVars, phase, batchTask, doneSending, result>>

SendingTask(i) ==
    /\ i \in DOMAIN batch
    /\ PayloadTask(i)
    /\ UNCHANGED <<phase, batchTask, fcuLoop, flags, result>>

OtherTask ==
    /\ Cancel \/ \E i \in DOMAIN batch : SendTxRetried(i)
    /\ UNCHANGED <<phase, batchTask, fcuLoop, flags, result>>

-----------------------------------------------------------------------------

Main ==
    \/ SpawnFcu \/ Generate \/ ExecuteSpammer \/ OnBatchSent \/ ExecuteFails \/ DoneSending
    \/ AwaitFcu \/ Metrics

Positions == 1 .. Max({s.size : s \in Setups})

RpcNext ==
    \/ Main \/ ExternalCancel \/ BatchTaskEnds \/ FcuPoll \/ FcuAdvanced \/ OtherTask
    \/ \E i \in Positions : SendingTask(i)

\* Triggers arrive, tasks are polled, and requests are answered.
RpcFairness ==
    /\ WF_rpcVars(Main) /\ WF_rpcVars(BatchTaskEnds)
    /\ WF_rpcVars(FcuPoll) /\ WF_rpcVars(FcuAdvanced)
    /\ \A i \in Positions : WF_rpcVars(SendingTask(i))

RpcSpec == RpcInit /\ [][RpcNext]_rpcVars /\ RpcFairness

-----------------------------------------------------------------------------
(* Properties *)

\* The chain is advanced by one caller at a time: the forkchoice loop starts
\* only when no on_batch_sent task is left, also after a failure or an external
\* cancellation that leaves both tasks behind.
OneProducer == ~(fcuLoop = "advancing" /\ batchTask = "advancing")

\* execute_spammer ends: no task waits for ever on a full channel that is only
\* read after the task has been awaited.
SendingEnds == phase = "execute" ~> exec \in {"done", "error"}

\* spam_rpc returns.
Returns == <>(phase = "returned")

\* spam_rpc returns when there is no engine, and when the engine's failure ends
\* the forkchoice loop.
ReturnsWithoutEngine ==
    (~setup.auth \/ fcuLoop = "err") /\ phase # "start" ~> phase = "returned"
=============================================================================
