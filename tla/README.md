# Contender: a TLA+ model

Contender sends transactions to an Ethereum node, follows what becomes of them,
keeps a log of every run and reports on it. This directory holds TLA+ modules
translated from its Rust source, TLC configurations that check them on small
instances, and TLAPS proofs about the modules that stand at its centre: the
actor and the runs that drive it, the session server and its log streams, setup
and funding, `spam_rpc`, the run database and the data directory. Paths below are relative to `src/crates/`.

## 1. The system

| Part | State | Operations | What makes it hard |
|---|---|---|---|
| **TxActor** (`core/src/spammer/tx_actor.rs`) | cache of pending transactions, buffered flashblock marks, context (run id, target block), message queues | seven messages, two flush requests, flashblock marks, stop, restart of the flush loop | a message handler and a polling loop exchange snapshots and removals over channels; inserts, receipts and RPC calls fail between two awaits |
| **Callbacks** (`tx_callback.rs`) | one task per sent transaction | queue `SentRunTx` and await the answer, or be cancelled | detached: they may outlive the run that sent the transaction |
| **Contender::spam** (`orchestrator.rs`, `prepare_for_run` in `test_scenario.rs`) | cancel token, run id | prepare, insert run, init context, spam, await flush, prepare again | a new flush loop must not overlap an old one |
| **Session server** (`cli/src/server/rpc_server/server.rs`, `sessions.rs`) | sessions behind one `RwLock`, a contender that is taken out while in use | add, spam, stop, remove, fund | check and take are two critical sections; tasks run unlocked in between |
| **Log streams** (`log_layer.rs`, `sse.rs`, `sessions.rs`) | registry of broadcast senders, subscriber tasks | route a line, subscribe, lag, cancel | bounded channels, clients that stall, locks taken with `try_*` |
| **Batches** (`test_scenario.rs`) | nonces, gas price adder, the pending batch, four bounded channels | prepare, send (single, batched, bundle), report, collect | the tasks race to the node; corrections are applied one trigger later |
| **spam_rpc** (`spammer_trait.rs`) | flags `done_sending`, `done_fcu`, spawned forkchoice loop | spawn, execute, stop, return | two producers of blocks; waiting on a loop that waits on a flag |
| **Generator and agents** (`core/src/generator/`, `agent_controller.rs`) | placeholder map, named transactions in the database, agent pools | senders, templates, fuzzing, the plans of `load_txs` | contracts are looked up by name in a table that others write to |
| **Setup** (`cli/src/commands/setup.rs`, `initialize` in `orchestrator.rs`, `test_scenario.rs`) | tracked nonces, tasks chained per sender, a semaphore, a simulation | fund, estimate, deploy, set up, await, cancel | chained tasks that hold permits; an error of one step of several; detached tasks |
| **spam command** (`cli/src/commands/spam.rs`) | attempts, forkchoice loop, funding channel, CTRL-C | initialise with retries, loop, sweep balances, dump | a signal nobody is waiting for; a channel of capacity one |
| **Funding** (`cli/src/util/utils.rs`) | nonces of the payer, concurrent payments | read balances, pay, watch | a second attempt meets the payments of the first |
| **Campaign** (`testfile/src/campaign.rs`, `cli/src/commands/campaign.rs`) | rates of a mix, seeds, stage tasks, runs | resolve the file, set up, stages, report | rounding; a barrier with timeouts and aborts; seeds computed in two places |
| **Run database** (`sqlite_db/src/db.rs`) | tables, a pool of connections, one writer | the inserting methods | several statements per call, each on whichever connection is free |
| **Engine provider** (`engine_provider/src/`) | the node's chain as driven by the Engine API | `advance_chain`, `replay_chain_segment` | loops that wait for a syncing node; failure between two calls |
| **Report** (`report/src/`) | range of runs, blocks and traces, cache file, charts | `report`, `report_campaign` | tasks that answer in any order into bounded channels; rows with missing columns |
| **rpc command** (`cli/src/commands/rpc.rs`) | interval, tasks in flight, histogram | one request per tick, join, store | missed ticks, late answers |
| **admin reclaim-eth** (`cli/src/commands/admin.rs`) | accounts of the pools, the node's balances | read balance, price and nonce, send | the node mines and moves its price between two calls |
| **Data directory** (`cli/src/main.rs`, `util/utils.rs`, `commands/db.rs`) | legacy and current directory, seed file, database with its write-ahead log, backup | migrate, create tables, read or create the seed, drop, reset, export, import | invocations that overlap or are killed between two steps; files copied while the database is open |
| Flashblocks listener, builder, bundles, default scenarios, test files | | | not modelled: section 9 |

They interact along one line. A command (`spam`, `campaign`, or a request to the
session server) finds its data directory and seed, funds accounts, deploys and
sets up contracts, inserts a run in the database and calls `spam_rpc`. `spam_rpc`
sends batches; every transaction sent spawns a callback that hands it to the
TxActor. The flush loop matches the cache against the receipts of new blocks and
writes rows. With an engine attached, `spam_rpc` or the callback also makes the
node produce those blocks. Reports read the rows; `reclaim-eth` derives the
accounts again from the seed.

## 2. Modules

| Module | Models | Composes |
|---|---|---|
| `RunLog` | what the actor promises its callers: the abstract specification | |
| `TxActor` | actor, flush loops, handle, callbacks, chain | instantiates `RunLog` under a refinement mapping |
| `SpamRuns` | `Contender::spam` over consecutive runs | extends `TxActor` |
| `SessionServer` | sessions, spam requests, their tasks | |
| `LogRouter` | log lines from threads to clients | |
| `Server` | the subcommand `server` | extends `SessionServer`, `LogRouter` |
| `SpamBatch` | `execute_spammer` | |
| `SpamRpc` | `spam_rpc`, forkchoice loop, `on_batch_sent` | extends `SpamBatch` |
| `Funding` | `fund_accounts` | |
| `SpamCli` | the `spam` command | extends `Funding` |
| `SpamCommand` | the subcommand `spam` with one `spam_rpc` of it | extends `SpamCli`, `SpamRpc` |
| `Agents` | pools and accounts of a scenario, as functions | |
| `Generator` | templates, fuzzing and the plans of `load_txs`, as functions | extends `Agents` |
| `SetupTasks` | `setup`, `initialize`, deployment, setup transactions, the spam plan | extends `Generator` |
| `CampaignRates` | `CampaignConfig`: validation, stages, distribution of rates | |
| `Campaign` | `run_campaign`, `execute_stage` | extends `CampaignRates` |
| `ReportCharts` | data of the charts, latency buckets, as functions | |
| `Report` | `report`, `report_campaign` | extends `ReportCharts` |
| `RpcSpam` | `run_rpc_spam`, whose run is then reported | extends `Report` |
| `Reclaim` | `admin reclaim-eth` | extends `Agents`, `RpcSpam` |
| `Storage` | data directory, seed file, `db` commands | |
| `RunDb` | writing methods of `SqliteDb` over the connection pool | |
| `EngineChain` | `advance_chain`, `replay_chain_segment` | |
| `Commands` | the subcommands other than `spam` and `server` | extends `EngineChain`, `Reclaim`, `Storage`, `SetupTasks`, `Campaign`, `RunDb` |
| `TxActorProofs`, `TxActorChannels`, `TxActorRows` | proofs about `TxActor`, the last also about `SpamRuns` | extend `TxActor`, one another, `SpamRuns` |
| `ServerProofs` | proofs about `LogRouter` and `SessionServer` | extends both |
| `SpamCliProofs` | proofs about `SpamCli` and `SpamRpc` | extends both |
| `SetupProofs`, `RunDbProofs`, `StorageProofs` | proofs about `SetupTasks`, `RunDb`, `Storage` | extend that module |

`MC...` modules give the constants their values. `PROJECT.json` maps each
definition to the lines it translates. A definition named `Mutant...` stands
before the one it varies and is used by nothing else: it is the same step with a
plausible mistake in it, under which the property it is paired with in
`PROJECT.json` must fail.

Conventions. An action is what runs between two awaits, two critical sections of
a lock, or two statements, with every state change in it. A hash, an address, a
session id or a log line is an element of a small set or a number; timestamps,
gas values, signatures and texts are left out unless a property needs them. Code
outside the repository (the node, SQLite, tokio's channels) is modelled from its
use and marked external in the map.

## 3. How state and actions correspond to the code

**RunLog, TxActor.** `RunLog` has five variables: whether the actor serves, what
it ever acknowledged, what it holds, what has a row, what was given up on request.
`TxActor` maps its own state to them (`Log == INSTANCE RunLog WITH ...`): `held` is
the set of hashes of `cache`, `written` that of the rows of `db`. `cache`, `marks`,
`ctx`, `status` are the fields of `TxActor`; `api` is its message channel with
capacity `ApiBuf`; `fq[g]`, `reply[g]` and `cancelled[g]` are the flush channel,
the oneshot answer and the token of the `g`-th flush loop, whose locals are
`loop[g]`. `HandleX` is the handler of message `X`, complete with its answer on a
oneshot: when the requester is gone the handler errs, `run()` returns and the
actor is dropped (`ActorGone`). The flush loop is cut at its awaits: waiting for a
context (`Phase1Poll`, `Phase1Reply`), the poll of the block number
(`ReadBlockNumber`, `CompareBlocks`), the snapshot (`SnapshotReply`), one block
(`ScanBlock`, `ScanBlockFails`), removal of what was confirmed (`ConfirmBlock`,
`RefreshReply`) and the drain after cancellation (`DrainReply`) with its
stale-block limit. `db` is the table `run_txs`; `by` and `again` in a row are
history that tell rows apart. `dropped` and `excused` are history too.

**SpamRuns.** `drv` is the position in `Contender::spam`. Each driver step is a
call on the handle, so it is a conjunction with an action of `TxActor`.

**SessionServer.** `contender[s]` is the `Option<SessionContender>` of a session,
`token[s]` its `spam_cancel`. `pc[c]` follows a spam request through its check,
the take, the run, and its task's end by success, error or panic. The variable
`serial`, chosen at the start, says whether clients await each answer.

**LogRouter.** A line is its number in the broadcast channel. `OnEvent` takes the
read guard with `try_read`, `OnEventSend` sends and releases it. A subscriber task
has the `select!` of the code: line, lag, cancellation; a send to a full queue is
awaited inside its branch. Clients read or leave when they like, or never.

**Server, SpamCommand.** Each has two parts that share no state the model tells
apart. `part`, chosen at the start, says which one runs; the other stays in its
first state.

**SpamBatch, SpamRpc.** `batch` is the pending batch, `gas`, `shift`, `success`,
`errors` are the contents of its bounded channels, `due` is the nonce the node
accepts next. `exec` is the position of `execute_spammer`, `fcuLoop` that of the
spawned forkchoice loop. `setup`, chosen at the start, is the configuration of the run.

**Funding, SpamCli.** `cmd` is the position of the command, `pc` that of
`fund_accounts` inside an attempt. Payments of a failed attempt go on. `level` is
a balance as the sweep distinguishes it. `pressed` and `heard` separate a CTRL-C
from a `select!` that was waiting for it.

**Agents, Generator.** An account is the sum its key is made from: seed, the number
its pool's name spells, index. A text of a scenario is a sequence of words and
placeholders, a name a sequence of words, so that a label appended to a name and a
placeholder inside a text stay what they are. Each function returns a transaction,
an error or a panic, as the code does.

**SetupTasks.** `job` is the scenario with its agents, `cmd` the position in
`setup` or `initialize`, `phase` that in the scenario, `rows` the table
`named_txs`. `nextNonce` is the map `load_txs` keeps, `nonces` that of the
scenario. A task acquires a permit, estimates, sends, and awaits its receipt, in
the order of the code, and awaits its predecessor where the code does. `Timeout`
gives up a transaction that has no receipt, pooled or dropped. A CTRL-C makes
`setup` return Ok however far it is; a cancelled `initialize` errs (`Cancel`). The
simulation of the costs is one step that runs the same functions on a fork.
`spamPlan` is what `load_txs` gives for the spam steps afterwards.

**CampaignRates, Campaign.** The three passes of the distribution are three steps.
A product exactly half way between two integers may fall on either side, as its
floating-point value may. `setUp` records what the setup phase was called with,
`given` what the scenarios of the stage spam with; `dbRuns` counts the runs the
campaign has inserted. Which ids they get is `RunDb`'s business.

**RunDb.** `idle` is the stack of idle connections (r2d2 hands out the one
returned last), `rowid` what `last_insert_rowid()` gives on each of them, `writer`
the one that holds SQLite's write lock. A nested query takes a second connection
while the first is held.

**EngineChain.** A block is a number with a parent. `adv` and `rep` are the two
callers, cut at each Engine API request. The node answers VALID, SYNCING, ACCEPTED
for a block beside its canonical chain, or an error.

**ReportCharts, Report, RpcSpam.** `runs` is the database, `rpt` the locals of
`report()`, `camp` those of `report_campaign()`, which calls it run by run.
Fetching tasks end in any order, or fail; the channel is read after the join, as
in the code. A chart is the function from its buckets to their counts. `Timestamps`
are those of the node's blocks; the block time of an estimate is measured between
the first two after genesis (`GetBlockTime`). `clock`
counts ticks since the interval of the rpc command was made, `rq.sent` the
requests out; the difference is what is made up in a burst.

**Reclaim.** `eth` is the node, with at most one pending transaction per account
that an earlier run has left. Balance, price and nonce are read in three steps, and
the answer to a transfer that was sent may be lost. The pools given on the command
line are a sequence and may repeat.

**Storage.** `inv[p]` follows an invocation through the migration, `init_db` table
by table, the seed file and its subcommand; a file is absent, torn or has contents.
`db` is the database as its connections see it and `file` its main file: statements
go to the write-ahead log, and closing the last connection writes the log into the
file. `db export` and `db import` copy main files with the connections open. A log
that is written into a file it does not belong to leaves a `mixed` database.

**Commands.** `sub`, chosen at the start, is the subcommand of `run()`. A step is one
of that subcommand's module, with everything else unchanged.

## 4. Runs

Twelve runs; every property of a passing one has a mutant that breaks it.

| Run | Checks | Shows |
|---|---|---|
| `tx_actor` | `TypeOK` `Accounted` `RowsTruthful` `NoSilentSkip` `MarksApplied` `ImplementsRunLog` | Under any use of the handle: no acknowledged transaction is lost while the actor lives, rows name the right block and no loop writes one twice, the cursor skips no block unscanned, marks that arrive before their transaction are applied, and actor, loops and callbacks together implement `RunLog`. |
| `spam_runs` | `LoggedOnce`, no deadlock | Over consecutive runs with failures and cancellation at any step, a transaction gets one row. |
| `server` | `OneHolder` `ReadyIsUsable` `SerialStopReaches` `CancelEnds` `NoSilentGap` `RemovalEndsStreams` | A contender is never in two places; `Ready` means usable; stop reaches the run of clients that await answers, and ends it. A client that misses lines is told or cut off; removal ends every stream that is not stuck on a client that neither reads nor leaves. |
| `spam_command` | `OkMeansCovered` `SweepFollows` `HeardStops` `CorrectionExact` `OneProducer` `SendingEnds` `ReturnsWithoutEngine` | Funding covers every account; a batch is followed by a sweep; a heard CTRL-C ends the command. Nonces are repaired after races, one producer of blocks at a time, full channels do not deadlock, and without an engine `spam_rpc` returns. |
| `spam_rpc_fcu` | `Returns` (violated) | With an engine it does not: section 8. |
| `commands` | the twenty properties below | Every other subcommand keeps its promise, and ends. |
| `run_db_run_id` | `RunIdIsOwn` (violated) | Concurrent inserts of runs get each other's ids: section 8. |
| `report_rpc` | `MatchingRunsOnly` (violated) | A report mixes transactions of two RPCs: section 8. |
| `reclaim_rpc` | `ReclaimFindsRpc` (violated) | The RPC of a scenario's run is not found: section 8. |
| `setup_cancel` | `CancelStopsTasks` (violated) | Setup tasks outlive the cancelled `initialize`: section 8. |
| `setup_errors` | `SetupErrorsReported` (violated) | Setup succeeds although a transaction reverted: section 8. |
| `db_import` | `ImportIsGiven` (violated) | The log of the replaced database gets into the imported one: section 8. |

The properties of `commands`:

| Property | Of | Says |
|---|---|---|
| `OkMeansReplayed` | replay | A replay that returns Ok has executed the blocks of its range from the first on, each once and as children of one another. Whether the end belongs to the range is left open: section 8. |
| `NoReorg` | replay | `advance_chain` takes no block off the canonical chain, also after calls that failed half way. |
| `ReportAccounts` | report, rpc | No report of a range of runs that wrapped around; every block a transaction landed in is in the report; for runs without transactions the estimated blocks begin no later than the first run. |
| `ChartsSound` | report, rpc | Merged latencies rise and add up, quantiles are in order, the heatmap keeps the most read slots and all their reads, no chart's buckets lose a transaction. |
| `CampaignTotals` | report | Totals of a campaign are those of its stages, none fails that was not sent, its time covers every row; a run that lost rows is reported as incomplete; `BROWSER` is restored, also after an error. |
| `RpcCounts` | rpc | Each request is counted once, as success or error, also when made up in a burst or answered late; stored latencies are those of the answers. |
| `ReclaimSound` | admin | The printed total is what arrives, unless two pools share an account; it never counts what was not sent; every funded account is visited. |
| `SeedStable` | db | Invocations agree on one seed, wherever one is killed and, if there was a seed, when they overlap. |
| `TablesReady` | db | A subcommand finds all tables, unless an earlier invocation was killed, another runs beside it, or an import was mixed with a log. |
| `ImportSound` | db | With nothing in the log, the replaced database survives an import killed anywhere, and a successful one leaves the file it was given. |
| `NoncesMatch` | setup | A successful setup leaves the node's nonces, through failures of other steps. |
| `OkMeansSetUp` | setup | Success means that every setup transaction is mined and no task can still send, though only the last task of each sender is looked at. |
| `OwnContracts` | setup | A transaction refers to the contracts its own scenario deployed, not to rows that others left under the same names. |
| `SpamPlanSound` | setup | The plan has the length asked for up to one round, steps equally often, accounts in turn, fuzzed values in range. |
| `RatesSound` | campaign | Rates add up; what rounding serves is still served after the corrections. |
| `SpamAsSetUp` | campaign | A scenario spams with a seed and a number of accounts it was set up with. |
| `OwnSenders` | campaign | Scenarios that spam at the same time share no sender, and none spams while another of its mix is set up; a stage starts only after every run before it ended well, with one run in the database for each. |
| `IdsAgree` | tasks | One id per url, also under concurrent inserts; a lone client gets its own ids. |
| `PoolNeverWedged` | tasks | With fewer clients than connections somebody can go on. |
| `CommandsEnd` | all | A command that has begun ends: wait loops, bounded channels, permits, barrier, pool. |

All but `spam_runs` disable the deadlock check: commands and calls end, and a
bound such as `MaxBlock` stops the environment. `spam_runs` has an explicit
`Terminated` step for a stopped scenario, so a deadlock there would be real.

## 5. Bounds

* **`tx_actor`** (1.0 million states). Two transactions, three blocks, two flush
  loops, channel of one message, stale limit 2 (6 in the code), one buffered
  mark. The client is chosen at the start: *asks* uses the whole handle on one
  loop; *restarts* runs two loops that overlap; *waits* gives one loop three
  blocks, enough to scan a range, fall behind and reach the stale limit; *marks*
  overflows the buffer of marks, with no loop at work. The first three send one transaction, which
  meets itself in both queues, in a snapshot and in a removal; *marks* sends two.
  What is checked here for these clients is proved for all in section 7.
* **`spam_runs`** (2.2 million). One transaction, two runs, four flush loops: two
  runs with a restart each, and one after an early failure.
* **`server`** (0.2 million). *sessions*: one session and three requests, one of them forever: two
  race for the contender and a third comes after. Sessions share only the lock.
  *streams*: two sessions, one WebSocket and one SSE client, channels of
  capacity one: lag and a full queue are reached after two lines.
* **`spam_command`** (0.2 million). *rpc*: two ticks (a batch is corrected when the next is prepared), up
  to three payloads, four configurations: races of two accounts, every fault
  with single payloads, lost JSON-RPC batches, an engine that fails anywhere.
  *command*: three accounts, two permits, two attempts (the code makes
  three): the second is the one that meets leftovers. Nonces to 6 suffice for it.
* **`commands`** (0.55 million), by subcommand:
  * *replay*: three old blocks and two new ones, two syncs, message versions 2 and
    3, every start and end of a replay including one past the head.
  * *report*: a chain of six blocks, with a slot missed before block 3, and three
    databases. One is empty; one has a campaign of two stages, with a row that by
    the clock here is younger than its block, and a run of another RPC that lost
    rows; one has runs without transactions, before the missed slot, after it and
    in the chain's future. Every last run,
    with no, one and too many preceding runs. Two columns and two slots in the
    heatmap (100 in the code); one failure.
  * *rpc*: rates 0 and 3, durations 0 and 1, two ticks of lag.
  * *admin*: pools whose accounts overlap and pools whose accounts do not, a
    transaction left behind, one change of price; pools named on the command line,
    also one named twice.
  * *db*: three invocations and one kill on four directories: first use, a legacy
    one that can be renamed, one that cannot, an old version. Two invocations
    overlap on the second and the last of them and on one whose database was
    dropped.
  * *setup*: six jobs with one or two contracts and up to four setup
    transactions of two senders, three of them in one chain; one or two permits,
    so chains compete for them; rows of an earlier setup, another chain and
    another label in the database; plans of 1 and 5 requests for two steps.
  * *campaign*: every mix of up to three entries with shares to 3 and rates to 5,
    then a stage of the same name; the flags of the command with some of them; two
    repetitions; files that are refused.
  * *tasks*: two clients on three connections, one client with three calls, two
    clients that exhaust two connections with nested queries.

## 6. Fairness

Weak fairness is on steps of tokio tasks that are ready: the runtime polls woken
tasks, and requests to the node return or time out. Failures, CTRL-C, client
requests and other processes have none. Beyond that:

* `Server`, `SpamCommand` and `Commands` put the fairness of their parts on the
  parts' steps.
* `LogRouter` has weak fairness on the steps of a subscriber task and, apart, on its
  cancellation branch. Nothing is assumed of clients: `RemovalEndsStreams` excludes a
  task that waits for ever for one that neither reads nor leaves, see section 8.
* `SessionServer` assumes that `Contender::spam` returns once its token is
  cancelled. For its wait for the flush loop this rests on the stale limit, which
  counts blocks: on a chain that stands still with transactions pending, the wait
  lasts as long as the standstill.
* `Commands` has one weak fairness condition over all steps of the command that
  is running: some task that can go on does. No condition is put on mining: a setup
  transaction whose receipt never comes is ended by its timeout. An invocation of
  `Storage` is not among the busy ones: it may be killed at any step.
* `Commands` also assumes that the node does not sync for ever; the loops of
  `valid_payload.rs` have no limit of their own.
* `TxActor` and `SpamRuns` state safety only.

## 7. Proofs

Each theorem holds for every value of the constants that the named assumption of
its module allows. Of the twenty-three theorems nineteen state invariants and
one the refinement that runs check on small instances; two state the inductive
invariant of their module, and one that consecutive runs use the actor as its
specification allows. Inductive invariants were model-checked before they were
proved.

### The actor (`TxActor`)

`ConstantsAssumption`: `Txs` finite, run ids and bounds natural numbers, capacities
and limits at least one. So the theorems cover any number of transactions, blocks
and flush loops (also ones replaced while requests wait) and any client of the
handle. All are about `Spec`.

* **`TypeCorrect`: `[]TypeOK`** (`TxActorProofs`). `TypeOK` is not inductive: moving
  to the next block would leave `Blocks` if the loop were already past the end of
  its range. `TypeInv` adds `RangeOK`, that a loop working on a block is below the
  end of the range it read. The proof has a lemma per operator that builds loop
  locals (`EndOfRangeType`, `NextBlockType`, ...), one for well-typed heads of the
  queues, and one per group of actions.
* **`AccountedHolds`: `[]Accounted`** (`TxActorProofs`). The strengthening is
  `RemovalsRecorded`: whatever a loop is about to confirm, and whatever a
  `RemoveConfirmed` still in a queue names, has a row. Rows are never deleted
  (`LogGrows`), rows are inserted before `ConfirmBlock` queues the removal, so the
  only message by which a loop shrinks the cache names recorded transactions.
* **`MarksHold`: `[]MarksApplied`** (`TxActorProofs`). Every message but `SentRunTx`
  only takes from cache and buffer (`ActorForgets`); that one takes the mark of its
  transaction out of the buffer. The buffer's cap needs that it is finite.
* **`SkipsNothing`: `[]NoSilentSkip`** (`TxActorChannels`). The cursor moves to the
  block a `RemoveConfirmed` names, so `CursorInv` says of every block number on its
  way there that the blocks of the run before it were scanned: where a loop stands
  in its range, what it is about to confirm, what it was answered, what waits in
  its queue. A context set meanwhile may move the start of the run but not back
  before blocks that were never scanned, because contexts arrive in the order in
  which their start blocks were read (`StartsOrdered`).
* **`RowsHold`: `[]RowsTruthful`** (`TxActorRows`). That a
  block number in a row is the transaction's follows from one step. That no
  loop writes a transaction twice needs three facts about the channels. Flush
  loops are replaced in order, so the channel of a replaced loop stays closed
  (`ReceiversOrdered`). A loop has at most one request under way and waits for it
  (`OneRequest`). What a loop has written is neither in its snapshot nor in an
  answer on its way to it; it is in the cache only while the loop is still telling
  the actor to remove it (`NotAgain`), since `RemoveConfirmed` and the refresh
  after it go through the same queue in that order.
* **`Implementation`: `ImplementsRunLog`** (`TxActorProofs`). Every step is a
  step of `RunLog` under the mapping, or a stutter. It needs `RemovalsRecorded`,
  for `Forget` may only drop what is written, and `HeldAcked`, that what the actor
  holds, has answered with, or a loop works on was acknowledged, for `Write` may
  only write that. There is a lemma for each kind of abstract step (stutter, die,
  take, write, forget, dump, discard), and `LogStep` gives each action of the actor
  its kind.

So all that `tx_actor` checks is proved. Two theorems are about `DrvSpec`, the
actor as consecutive calls of `Contender::spam` drive it (both in `TxActorRows`):

* **`RunsDriveActor`: `DrvSpec => Spec`**. Each call the driver makes is one the
  handle offers, so the theorems above hold of it too.
* **`LoggedOnceHolds`: `[]LoggedOnce`**. `RowsTruthful` speaks of one loop; this one
  of all loops and runs together. `DriverInv` says where the driver is when the
  latest loop is cancelled or has ended. Every loop that was replaced had ended, or
  was replaced before the actor was given a run and so never scans (`OldLoops`).
  What such a loop has written left the cache before it ended, and the latest loop
  has seen no snapshot that still holds it (`Settled`). A transaction is pending
  once, also if its callback is answered late (`OnePending`).

### The session server, its log streams and setup

`SessionAssumption` only separates the requests from the value for none: any number
of sessions and requests. `LogAssumption`: capacities at least one, any number of
sessions, threads and subscribers. The theorems are about the `Spec` of the module;
they do not use its fairness. `JobsAssumption`: a job enters by `setup` or
`initialize` and has finitely many accounts and setup transactions; scenarios,
limits and sets of faults are otherwise arbitrary. The last two theorems are about
`SetupSpec`, the steps of `SetupNext` alone.

* **`OneHolderHolds`, `ReadyIsUsableHolds`, `SerialStopReachesHolds`**
  (`ServerProofs`), from one inductive invariant, session by session. A
  contender out of the cache belongs to the task that took it and there is one such
  task (`Placed`, `Alone`), which is why the check before the take need not hold the
  lock. A request passes the check only after the initialization has ended
  (`Unborn`); a removed session holds neither contender nor token (`Gone`).
  `SerialStopReaches` also needs `InTurn`: of clients that await each answer, no
  request has passed the check while another spams, so nobody overwrites the token.
* **`NoSilentGapHolds`** (`ServerProofs`). The invariant is about everything a
  subscriber task took from the broadcast channel: what its client got, what is in
  its bounded queue and the line in its hands. Over WebSocket these are consecutive
  lines (`NoHole`); over SSE they increase, and their number together with the
  skipped ones that were announced is the number of lines passed (`Counted`).
* **`SuccessIsSetUp`: `[]OkMeansSetUp`** (`SetupProofs`). Joining a sender's chain
  looks at its last task only; `JoinedInv` says that all tasks of a joined chain have
  ended. Nonces of a sender's transactions are distinct, and the node has passed a
  nonce only by mining its transaction (`Consumed`). So, since the last one is mined,
  all before it are (`Passed`), whatever became of their tasks.
* **`NoncesAreRight`: `[]NoncesMatch`** (`SetupProofs`). Nonces are tracked and
  never read back. From the time they are fetched until the first task is spawned
  they are the node's (`FetchedAgree`; not for the account from which `initialize`
  still pays). From then on an account's tracked nonce is the node's, or one more
  than the nonce of the last transaction spawned for it (`Reserved`). The node mines
  an account's transactions in the order of their nonces, so that the last one of
  each sender is mined is enough (`TasksInv`), and joining its chain found that.

### `spam_rpc`

`BatchAssumption`: numbers of payloads and triggers are natural numbers, kinds of
payloads and faults are those of the code. The theorem is about `RpcSpec` and uses
no fairness.

* **`OneProducerHolds`: `[]OneProducer`** (`SpamCliProofs`). The forkchoice loop
  advances the chain only after `done_sending`, which is stored when
  `execute_spammer` has returned. An `on_batch_sent` task is awaited before the next
  batch, so it is left behind only when `execute_spammer` fails or is dropped, and
  then nobody stores the flag (`ProducerInv`).

### The run database (`RunDb`)

`RunDbAssumption`: finitely many clients, at least one connection and one url, any
batch size, numbers of calls and selection of methods. The theorems are about
`RunDbSpec`.

* **`RunDbKeepsInv`: `[]DbInv`** (`RunDbProofs`), the inductive invariant. A call is
  only where its method leads, with as many connections as it holds there
  (`CallsInPlace`); every connection is idle or held (`NoneLost`), whatever
  statement fails; a url has one row, seen by whoever uses its id (`UrlsKnown`);
  and a client that is alone gets the connection of its last insert back from the
  top of the pool (`AloneExact`).
* **`IdsAlwaysAgree`: `[]IdsAgree`**, directly from the last two.
* **`PoolIsNeverWedged`: `[]PoolNeverWedged`**. If every client with a call held one
  connection and waited for its second, the function from connections to their
  holders would be injective into a smaller set; the proof is that pigeonhole
  argument on the sets of connections and clients.

### Funding (`SpamCli`)

`FundingAssumption`: finitely many accounts in a sequence, at least one attempt and
one permit, any bound on the payer's nonces. The theorem is about the `Spec` of
`SpamCli` without its fairness.

* **`FundingCovers`: `[]OkMeansCovered`** (`SpamCliProofs`). In the first call nobody else
  pays, so its tasks own the nonces from the one it read on, in the order of the
  accounts: a nonce is free until its task has used it, then holds that task's
  payment until that is mined (`Slot`, `OwnNonces`). Hence no task meets a foreign
  payment with its nonce, which it would take for its own and skip. Handles are
  awaited in order, and the call goes on only past tasks that have sent (`Sent`). Of
  later calls the property says nothing: section 8 lists what they do.

### The data directory (`Storage`)

`StorageAssumption`: invocations are numbered from 1 without gaps; the directories
found at the start have well-formed files and nothing in a log, the seed recorded as
found is the one that would be read, and a database of this version that has
`run_txs` has all tables. Any number of
invocations and kills, any overlap, any of those directories. The theorems are
about `StorageSpec`.

* **`StorageKeepsInv`: `[]StorageInv`** (`StorageProofs`), the inductive invariant,
  with a part for each of the three properties.
* **`SeedStays`: `[]SeedStable`**. Nobody is about to create a new directory while
  the legacy one is still to be moved (`Moved`). Whoever has a seed has what the
  file says, and whoever writes the file does so while nobody has a seed
  (`SeedUsed`); a file cut short by a kill is read as the same seed from then on
  (`AsRead`).
* **`TablesAreReady`: `[]TablesReady`**. Without overlap and kills a database without
  all tables is being created at this moment, and an invocation in `create_tables`
  has made the tables before its next one (`TablesInv`). Export and import carry
  completeness along.
* **`ImportIsSound`: `[]ImportSound`**. Outside `create_tables`, and after it once the
  connections are closed, the log holds nothing the main file lacks (`TablesInv`, with
  `Whole` and `MayLog`). So at each stage of an import that created no tables the old
  database is the one in use, the backup, or both, the given file is as it was, and
  closing the connections changes nothing (`ImportStage`). It is stated for the newest
  invocation if no earlier one was killed: a killed one leaves its log behind.

A step of `CommandsNext` that is of the database, the data directory or setup is a
step of `RunDbNext`, `StorageNext` or `SetupNext`; every other one leaves their
variables unchanged. So the theorems apply to the composition that the `commands`
run checks.

### Only model-checked

* Liveness (`CancelEnds`, `RemovalEndsStreams`, `SendingEnds`, `ReturnsWithoutEngine`,
  `HeardStops`, `SweepFollows`, `CommandsEnd`): fairness and `ENABLED` are outside the
  prover.
* What recursive functions and folds compute for every input is outside it as well,
  since that takes induction over data. These are checked on the inputs of section 5:
  plans, rates, charts, quantiles and totals (`SpamPlanSound`, `RatesSound`,
  `ChartsSound`, `ReportAccounts`, `CampaignTotals`, `RpcCounts`, `ReclaimSound`);
  the nonces of a batch, which are sums over its requests and corrections
  (`CorrectionExact`); the chain of blocks behind `NoReorg` and `OkMeansReplayed`,
  which follows parents to the genesis; and the stages and setups a campaign file
  unfolds to (`SpamAsSetUp`, `OwnSenders`).
* `OwnContracts` is about what templates are replaced by. Placeholder maps are built
  with `@@`, which the provers cannot expand.

## 8. Where code and text disagree

Seven disagreements are runs of their own, with a counterexample from TLC:

* `core/src/spammer/spammer_trait.rs:114` (`spam_rpc_fcu`). `spam_rpc` awaits the
  forkchoice loop and only afterwards stores `done_fcu`, the flag the loop polls to
  stop. With an engine attached it returns only when `advance_chain` fails, though
  the loop announces "FCU is done, stopping block production...".
* `sqlite_db/src/db.rs:357` (`run_db_run_id`). `insert_run` reads
  `last_insert_rowid()` on a connection taken anew from the pool, which under
  concurrent use may be another one. Its comment (`:338`) says it "returns the ID
  of the new row".
* `report/src/command.rs:133` (`report_rpc`). The transactions of every run of the
  range are collected before the runs are filtered by RPC URL. The help text
  (`cli/src/commands/contender_subcommand.rs:79`) says "Only runs with a RPC URL
  matching the last run will be included."
* `cli/src/commands/admin.rs:260` (`reclaim_rpc`). The RPC URL is looked up by the
  stem of the scenario's file name, while runs are stored under its path, so the
  default is used. The comment (`:88`) says "derived from scenario".
* `core/src/orchestrator.rs:602` (`setup_cancel`). A cancelled `initialize` drops its
  future, but the setup tasks were spawned detached and go on sending. The comment
  (`:590`) says "any in-progress tasks will be shutdown".
* `core/src/generator/trait.rs:485` (`setup_errors`). A setup task drops the result of
  the one it is chained to, and only the last task of each sender is looked at, so
  setup succeeds when an earlier transaction reverted. The comment (`:484`) says
  "Ignore errors from previous task - they'll be reported separately".
* `cli/src/commands/db.rs:64` (`db_import`). `run()` opens the database in WAL mode and,
  on first use, creates the tables before `import_db` overwrites the main file. Closing
  the connections then writes the log with the new tables into the imported file. The
  test (`:130`) verifies that the content is the one given, with no database open.

### Known disagreements without a run

The modules contain these behaviours; the properties are stated so that they say
what does hold beside them.

| Code | What it does | What is written |
|---|---|---|
| `core/src/spammer/tx_actor.rs:535` | Rows carry the run id read before a range of blocks, so a transaction of the run before or after may be filed under it. | `core/src/db/trait.rs:46` "Insert txs from a spam run" |
| `core/src/spammer/tx_actor.rs:570` | A block whose receipts or insert failed is logged and passed over: the request for a later block, or the end of the range, moves the cursor beyond it. | `:574` "Ensure we advance past all processed blocks." |
| `core/src/test_scenario.rs:496` | `prepare_for_run` installs a token detached from the parent's. | `:282` "the parent token can still cancel the child tasks if needed" |
| `core/src/test_scenario.rs:2054` | Callbacks are not awaited: the last may be cached after the flush loop ended. | `tx_actor.rs:797` "Waits until the flush loop has finished processing all receipts." |
| `cli/src/server/rpc_server/server.rs:343` | `clear_cache` after a run discards transactions that failed to send. | `tx_callback.rs:214` "Even when receipts are disabled, record txs that failed to send" |
| `server.rs:220` | Of two overlapping requests the one that loses overwrites `spam_cancel` and may leave the status `Spamming`. | `sessions.rs:74` "Per-spam-run token. [...] cancelled by `stop`"; `server.rs:375` "so the session always transitions out of Spamming" |
| `sessions.rs:239` | A failed `try_write` leaves a session without log routing. | `:238` "Register the broadcast sender in the log sinks" |
| `sse.rs:88` | A client that neither reads nor leaves keeps its task after removal. | `sessions.rs:71` "Cancelled when the session is removed, which terminates [...]" |
| `core/src/test_scenario.rs:2013` | A repeated send rejected as "nonce too low" moves the nonce on although the first send was accepted. | `:1581` "applies nonce/gas corrections" |
| `core/src/test_scenario.rs:907` | A skipped setup step has used up a tracked nonce that is never sent. | `generator/trait.rs:335` "updated nonce map" |
| `core/src/orchestrator.rs:626` | `initialize` funds the agents from the first user's account after that account's nonce was fetched; the tracked one is stale. | `generator/trait.rs:335` "updated nonce map" |
| `generator/trait.rs:478` | A sender's tasks are all spawned at once, only their results are awaited in order. | `:408` "Each sender's transactions run sequentially" |
| `generator/templater.rs:226` | A contract's placeholder in `value` is not looked up, and a value that does not parse after replacement is dropped without an error. | `docs/placeholders.md:6` "allowed in `to`, `args`, `from`, and `value`" |
| `generator/trait.rs:519` | Two calls that fuzz parameters of one name share the values, in the range of the later one. | `docs/creating_scenarios.md:253` "picks out the argument to inject by the name given in `signature`" |
| `cli/src/commands/setup.rs:175` | An error of deployment or setup leaves `is_done` unset: the task that advances the chain goes on until the process ends. | `:179` "stop advancing the chain" |
| `cli/src/commands/spam.rs:1021` | A CTRL-C pressed while no `select!` waits for it is lost. | `:930` "break if CTRL-C is received" |
| `cli/src/commands/spam.rs:96` | An account within 25% above `min_balance` triggers `fund_accounts`, which pays only accounts below `min_balance`. | `:897` "within 25% of min_balance" |
| `cli/src/util/utils.rs:246`, `:163` | A later attempt takes a pending payment with its nonce for its own, whoever it pays; or pays an account a second time. | `:138` "Funds given accounts if/when their balance is below the minimum"; `:864` "it should skip them" |
| `cli/src/util/utils.rs:410` | A legacy directory on another file system stays where it is, and a new seed is made. | `:385` "it is migrated to the new location" |
| `cli/src/main.rs:227` | Only `run_txs` is looked for: after a kill between two `CREATE TABLE` statements the later tables stay missing. | nothing; `TablesReady` excludes it |
| `cli/src/commands/rpc.rs:662` | The run of the rpc command is stored with its time in seconds, where other runs have milliseconds (`spam.rs:847`). | nothing; a report of such a run looks for blocks of 1970 |
| `report/src/block_trace.rs:61` | The blocks of runs without transactions are counted back from the latest by a block time measured once: every slot missed since moves the range back, and it may end before the last run. | nothing; `ReportAccounts` is about where it starts |
| `cli/src/commands/db.rs:59` | The backup of an import copies the main file without the log beside it, which a killed invocation leaves behind. | nothing; `ImportSound` excludes it |
| `engine_provider/src/auth_provider.rs:535` | The end of a replay is exclusive. | `cli/src/commands/replay.rs:23` "The last block to replay." |
| `testfile/src/campaign.rs:147`, `:163` | Defaults for rate and duration are required at `[spam]` even where every stage has its own. | `docs/campaigns.md:39` "Set once at `[spam]` or per stage" |
| `testfile/src/campaign.rs:213` | The last entry takes what is left, which may be 0: shares 1, 3, 1 at rate 3 give 1, 2, 0. | `:166` "Ensure mixes with share_pct > 0 get at least rate 1" |
| `cli/src/main.rs:211` | A CTRL-C during a campaign is heard in `main` as well, which drops the campaign before its report. | `cli/src/commands/campaign.rs:283`, where the report follows a CTRL-C |
| `cli/src/commands/campaign.rs:298` | The report covers the range from the first to the last run id, foreign runs included (run ids are not part of `Campaign`). | `docs/campaigns.md:113` "a report for all campaign runs" |
| `cli/src/commands/spam.rs:861` | Each scenario of a stage inserts a run of its own. | `docs/campaigns.md:111` "sharing a common `run_id`" |

Arithmetic at the edge is modelled as the build does it: `end_run_id -
preceding_runs` (`report/src/command.rs:130`), a report without blocks (`:269`), a
run newer than the latest block (`block_trace.rs:60`) and a scenario without spam
steps (`generator/trait.rs:507`) panic, or wrap in a release build where they only
underflow.

## 9. Not modelled, and the plan

Not modelled, and why:

* **Flashblocks listener** (`core/src/flashblocks.rs`): its marks are inputs
  of `TxActor`, in any order and number; preflight and reconnects are planned.
* **Orchestrator builder**: assigns fields; the typestate is the compiler's.
* **Bundles, Engine transport**: one request each, pure I/O; their outcomes are
  inputs of `SpamBatch` and `EngineChain`.
* **Default scenarios, test files, build script**: data, TOML and code generation
  without state.
* Of modelled parts: logging, argument parsing, CSV and HTML output, labels and
  averages of charts, blob sidecars, ABI encoding, the contents of a payload, queries
  that only print, replacement of a pending payment by a dearer one, the methods of
  the rpc command and their parameters. The spam
  command's argument checks and progress report, and the callbacks' tuple and `dyn`
  combinators, only forward or may fail as one step.

Next, in this order:

1. **Flashblocks listener**: preflight, reconnects and duplicated marks, composed
   with `TxActor`.
2. **Proofs**: `OwnContracts`, with placeholder maps that are extended by a definition
   of the project's own.
3. **Liveness of the flush loop**: with blocks arriving, a cancelled loop ends.
4. **One campaign over the whole stack**: `Campaign` with `RunDb` and `SpamRpc`
   inside it, instead of one step for a scenario's spamming.
