------------------------------ MODULE SpamBatch ------------------------------
(***************************************************************************)
(* TestScenario::execute_spammer of crates/core/src/test_scenario.rs:      *)
(* prepare a batch, send it from spawned tasks, and at the next trigger    *)
(* collect it and correct nonces and gas price from what the tasks         *)
(* reported over bounded channels.  SpamRpc runs it.                       *)
(***************************************************************************)
EXTENDS Integers, Sequences, FiniteSets, FiniteSetsExt, TLC

CONSTANTS
    Setups,      \* configurations of a run, one of which is chosen at the start
    Ticks,       \* triggers of the run
    Bumps        \* gas bumps a node's answer can lead to

BatchFaults == {"price", "other", "retry", "lost", "bundle", "estimate", "cancel"}

RpcFaults == {"generate", "advance", "metrics", "external"}

\* accounts: senders; kinds: payloads sent; size: payloads of a batch; rpc:
\* rpc_batch_size, where 0 sends every payload in a task of its own; backlog:
\* transactions an earlier run may have left in the node's pool; auth: the
\* scenario has an auth_provider; fcu: the callback advances the chain.
ASSUME BatchAssumption ==
    /\ Ticks \in Nat /\ Bumps \subseteq Nat
    /\ \A s \in Setups :
          /\ s.size \in Nat \ {0} /\ s.rpc \in Nat /\ s.backlog \in Nat
          /\ s.kinds \subseteq {"tx", "bundle"} /\ s.faults \subseteq BatchFaults \cup RpcFaults
          /\ s.auth \in BOOLEAN /\ s.fcu \in BOOLEAN

VARIABLES
    setup,     \* the run's configuration
    exec,      \* in execute_spammer; "error" once it failed or was dropped
    tick,
    nonces,    \* [Senders -> TestScenario::nonces]
    due,       \* [Senders -> the nonce the node accepts next]
    adder,     \* ctx.gas_price_adder
    batch,     \* the pending batch: a sequence of payloads, <<>> if none
    silent,    \* its tasks whose answer never arrives (json-rpc batch)
    awaited,   \* tasks collect_pending_batch has awaited
    gas, shift, success, errors,    \* contents of its channels
    isCancelled

chans == <<gas, shift, success, errors>>
batchVars == <<setup, exec, tick, nonces, due, adder, batch, silent, awaited, chans, isCancelled>>

Senders   == setup.accounts
Kinds     == setup.kinds
BatchSize == setup.size
RpcBatch  == setup.rpc
Faults    == setup.faults

BatchStart(config) ==
    /\ setup = config
    /\ exec = "trigger" /\ tick = 0
    /\ nonces = [a \in Senders |-> 0]
    /\ due \in [Senders -> 0 .. setup.backlog]
    /\ adder = 0
    /\ batch = <<>> /\ silent = {} /\ awaited = 0
    /\ gas = <<>> /\ shift = <<>> /\ success = 0 /\ errors = 0
    /\ isCancelled = FALSE

-----------------------------------------------------------------------------
(* Tasks of a batch *)

ShouldBatchRpc == RpcBatch > 0 /\ \A i \in DOMAIN batch : batch[i].kind = "tx"

TaskOf(i) == IF ShouldBatchRpc THEN ((i - 1) \div RpcBatch) + 1 ELSE i

Ended == {"done", "failed"}

NumTasks == IF batch = <<>> THEN 0 ELSE TaskOf(Len(batch))

TaskDone(k) == \A i \in DOMAIN batch : TaskOf(i) = k => batch[i].st \in Ended

-----------------------------------------------------------------------------
(* execute_spammer *)

\* cursor.next(): the previous batch is collected before the next is prepared,
\* the last one when the cursor is depleted.
Trigger ==
    /\ exec = "trigger"
    /\ exec' = IF batch # <<>> THEN "collect" ELSE IF tick < Ticks THEN "prepare" ELSE "done"
    /\ awaited' = 0
    /\ UNCHANGED <<setup, tick, nonces, due, adder, batch, silent, chans, isCancelled>>

\* prepare_tx_request: the i-th payload takes the nonces after those of the
\* same sender's earlier payloads.
Size(req) == IF req.kind = "bundle" THEN 2 ELSE 1

NoncesTaken(reqs, n, a) ==
    MapThenSumSet(LAMBDA i : IF reqs[i].from = a THEN Size(reqs[i]) ELSE 0, 1 .. n)

Payload(reqs, i) ==
    [kind |-> reqs[i].kind, from |-> reqs[i].from, st |-> "sending",
     nonce |-> nonces[reqs[i].from] + NoncesTaken(reqs, i - 1, reqs[i].from)]

\* Requests of a bundle carry no nonce when execute_spam sorts the payloads.
SortKey(p) == IF p.kind = "bundle" THEN -1 ELSE p.nonce

ByNonce(s) == SortSeq(s, LAMBDA p, q : SortKey(p) < SortKey(q))

Requests == [1 .. BatchSize -> [kind : Kinds, from : Senders]]

PrepareAndSend(reqs) ==
    /\ exec = "prepare"
    /\ nonces' = [a \in Senders |-> nonces[a] + NoncesTaken(reqs, BatchSize, a)]
    /\ batch' = ByNonce([i \in 1 .. BatchSize |-> Payload(reqs, i)])
    /\ silent' \in SUBSET IF "lost" \in Faults /\ RpcBatch > 0 THEN 1 .. BatchSize ELSE {}
    /\ gas' = <<>> /\ shift' = <<>> /\ success' = 0 /\ errors' = 0
    /\ tick' = tick + 1
    /\ exec' = "trigger"
    /\ UNCHANGED <<setup, due, adder, awaited, isCancelled>>

\* Gas estimation fails for payload n: its nonces and the earlier ones' are gone.
PrepareFails(reqs, n) ==
    /\ exec = "prepare"
    /\ "estimate" \in Faults
    /\ nonces' = [a \in Senders |-> nonces[a] + NoncesTaken(reqs, n, a)]
    /\ exec' = "error"
    /\ UNCHANGED <<setup, tick, due, adder, batch, silent, awaited, chans, isCancelled>>

-----------------------------------------------------------------------------
(* The spawned tasks: execute_spam and handle_tx_outcome *)

\* Entries of one json-rpc batch are handled in order.
Turn(i) ==
    /\ batch[i].st = "sending"
    /\ \A j \in 1 .. i - 1 : TaskOf(j) = TaskOf(i) => batch[j].st \in Ended

Finish(i) == batch' = [batch EXCEPT ![i].st = "done"]

\* The answer to a json-rpc batch is lost; a synchronous send is cancelled.
Unheard(i) == (ShouldBatchRpc /\ TaskOf(i) \in silent) \/ isCancelled

\* The node's answers to a transaction.
Accepted(p) == p.nonce = due[p.from]

Answers(p) ==
    (IF Accepted(p) THEN {"ok"} ELSE {})
    \cup (IF p.nonce < due[p.from] THEN {"nonce too low", "already known"} ELSE {})
    \cup (IF p.nonce > due[p.from] THEN {"nonce too high"} ELSE {})
    \cup (IF "price" \in Faults /\ p.nonce < due[p.from] THEN {"replacement underpriced"} ELSE {})
    \cup (IF "other" \in Faults THEN {"other"} ELSE {})

MutantShift(answer) == IF answer = "nonce too low" THEN <<1>> ELSE <<>>

Shift(answer) ==
    CASE answer = "nonce too low"  -> <<1>>
      [] answer = "nonce too high" -> <<-1>>
      [] OTHER                     -> <<>>

MutantGasCapacity == Len(batch) - 1

GasCapacity == Len(batch)

ShiftCapacity == BatchSize

\* Senders wait for room; the collector awaits the senders before it receives.
HandleTxOutcome(p, answer) ==
    /\ \/ answer # "replacement underpriced" /\ UNCHANGED gas
       \/ /\ answer = "replacement underpriced"
          /\ Len(gas) < GasCapacity
          /\ \E bump \in Bumps : gas' = Append(gas, bump)
    /\ Shift(answer) # <<>> => Len(shift) < ShiftCapacity
    /\ shift' = IF Shift(answer) = <<>> THEN shift
                ELSE Append(shift, <<p.from, Shift(answer)[1]>>)
    /\ success' = IF answer = "ok" THEN success + 1 ELSE success

SendTx(i) ==
    /\ Turn(i)
    /\ batch[i].kind = "tx"
    /\ ~(ShouldBatchRpc /\ TaskOf(i) \in silent)
    /\ \E answer \in Answers(batch[i]) :
          /\ batch' = [batch EXCEPT ![i].st = answer]
          /\ due' = IF answer = "ok" THEN [due EXCEPT ![batch[i].from] = @ + 1] ELSE due
    /\ UNCHANGED <<setup, exec, tick, nonces, adder, silent, awaited, chans, isCancelled>>

ReportTx(i) ==
    /\ batch[i].st \notin Ended \cup {"sending"}
    /\ HandleTxOutcome(batch[i], batch[i].st)
    /\ Finish(i)
    /\ UNCHANGED <<setup, exec, tick, nonces, due, adder, silent, awaited, errors, isCancelled>>

\* The first attempt reached the node and its answer was lost: retry_once
\* sends the same transaction again.
SendTxRetried(i) ==
    /\ "retry" \in Faults
    /\ Turn(i)
    /\ batch[i].kind = "tx"
    /\ Accepted(batch[i])
    /\ due' = [due EXCEPT ![batch[i].from] = @ + 1]
    /\ UNCHANGED <<setup, exec, tick, nonces, adder, batch, silent, awaited, chans, isCancelled>>

\* The task returns without any outcome; the node may have handled the
\* transaction.
SendLost(i) ==
    /\ Turn(i)
    /\ batch[i].kind = "tx"
    /\ Unheard(i)
    /\ due' \in {due} \cup (IF Accepted(batch[i]) THEN {[due EXCEPT ![batch[i].from] = @ + 1]} ELSE {})
    /\ Finish(i)
    /\ UNCHANGED <<setup, exec, tick, nonces, adder, silent, awaited, chans, isCancelled>>

ErrorCapacity == 1

\* A bundle reports one success, or an error in a channel with one slot.
SendBundle(i) ==
    LET p == batch[i] IN
    /\ Turn(i)
    /\ p.kind = "bundle"
    /\ \/ /\ success' = success + 1
          /\ due' = IF Accepted(p) THEN [due EXCEPT ![p.from] = @ + 2] ELSE due
          /\ Finish(i)
          /\ UNCHANGED errors
       \/ /\ "bundle" \in Faults
          /\ errors < ErrorCapacity \/ exec = "error"
          /\ errors' = IF exec = "error" THEN errors ELSE errors + 1
          /\ batch' = [batch EXCEPT ![i].st = "failed"]
          /\ UNCHANGED <<success, due>>
    /\ UNCHANGED <<setup, exec, tick, nonces, adder, silent, awaited, gas, shift, isCancelled>>

Cancel ==
    /\ "cancel" \in Faults /\ ~isCancelled
    /\ isCancelled' = TRUE
    /\ UNCHANGED <<setup, exec, tick, nonces, due, adder, batch, silent, awaited, chans>>

-----------------------------------------------------------------------------
(* collect_pending_batch *)

AwaitSend ==
    /\ exec = "collect"
    /\ awaited < NumTasks
    /\ TaskDone(awaited + 1)
    /\ awaited' = awaited + 1
    /\ UNCHANGED <<setup, exec, tick, nonces, due, adder, batch, silent, chans, isCancelled>>

AwaitError ==
    /\ exec = "collect"
    /\ awaited < NumTasks
    /\ errors > 0
    /\ exec' = "error"
    /\ UNCHANGED <<setup, tick, nonces, due, adder, batch, silent, awaited, chans, isCancelled>>

Raise(start, a, g) == IF a >= g + start THEN a ELSE a + g

\* The bumps in the order they were received.
Raised ==
    MapThenFoldSet(LAMBDA g, a : Raise(adder, a, g), adder, LAMBDA i : gas[i], Max, DOMAIN gas)

Decayed(a) == IF a > 0 THEN a - (a \div 10) ELSE a

ShiftOf(a) == MapThenSumSet(LAMBDA i : IF shift[i][1] = a THEN shift[i][2] ELSE 0, DOMAIN shift)

Corrected(a) == IF nonces[a] + ShiftOf(a) < 0 THEN 0 ELSE nonces[a] + ShiftOf(a)

\* All tasks awaited, or cancelled; then on_batch_sent is called and awaited.
TasksAwaited ==
    /\ exec = "collect"
    /\ awaited = NumTasks \/ isCancelled
    /\ exec' = "batchSent"
    /\ UNCHANGED <<setup, tick, nonces, due, adder, batch, silent, awaited, chans, isCancelled>>

\* The tasks that were not awaited go on unheard, and one of their transactions
\* may still land.
Collect ==
    /\ exec = "batchSent"
    /\ adder' = IF success = Len(batch) THEN Decayed(Raised) ELSE Raised
    /\ nonces' = [a \in Senders |-> Corrected(a)]
    /\ batch' = <<>> /\ silent' = {} /\ awaited' = 0
    /\ gas' = <<>> /\ shift' = <<>> /\ success' = 0 /\ errors' = 0
    /\ exec' = IF tick < Ticks THEN "prepare" ELSE "done"
    /\ due' \in {due} \cup
         {[due EXCEPT ![batch[i].from] = @ + 1] :
             i \in {j \in DOMAIN batch : batch[j].st = "sending" /\ Accepted(batch[j])}}
    /\ UNCHANGED <<setup, tick, isCancelled>>

-----------------------------------------------------------------------------

PayloadTask(i) == SendTx(i) \/ ReportTx(i) \/ SendLost(i) \/ SendBundle(i)

PrepareBatch ==
    \E reqs \in Requests :
       PrepareAndSend(reqs) \/ \E n \in 1 .. BatchSize : PrepareFails(reqs, n)

-----------------------------------------------------------------------------
(* Properties *)

\* Transactions of one sender race to the node, which rejects the ones that
\* overtake; the corrections of the collected batch bring the sender's nonce
\* back to the one the node accepts next, before the next batch is prepared.
\* Only the races are repaired: with a backlog, bundles or a repeated send a
\* nonce that was rejected as too low is moved on once too often.
CorrectionExact ==
    /\ setup.backlog = 0 /\ Kinds = {"tx"} /\ Faults \cap BatchFaults = {}
    /\ exec \in {"prepare", "done"} /\ batch = <<>>
    => nonces = due
=============================================================================
