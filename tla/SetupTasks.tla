----------------------------- MODULE SetupTasks -----------------------------
(***************************************************************************)
(* Setting up a scenario: the setup command                                *)
(* (crates/cli/src/commands/setup.rs), Contender::initialize               *)
(* (crates/core/src/orchestrator.rs), and the deployment and setup         *)
(* transactions both run: load_txs with the Create and Setup plans         *)
(* (crates/core/src/generator/trait.rs) and the callbacks deploy_contracts *)
(* and run_setup give it (crates/core/src/test_scenario.rs).  The node     *)
(* mines a sender's transactions in nonce order.                           *)
(*                                                                         *)
(* A job has the entry ("setup" or "initialize"), the scenario, its agent  *)
(* specification, label and env, the rows of named_txs it finds, and       *)
(* whether setup advances the chain itself.                                *)
(***************************************************************************)
EXTENDS Generator

CONSTANTS
    Jobs,
    Funder,     \* the first user signer
    Limits,     \* values of SETUP_CONCURRENCY_LIMIT
    FaultSets,  \* the sets of faults a job may meet
    SpamCounts, \* numbers of transactions a spam plan is asked for
    MaxSetupTxs \* bound on the setup transactions of a job

FaultKinds == {"broke", "fund", "simulate", "cost", "engine", "deploy", "prepare", "skip", "reject", "revert"}

ASSUME SetupAssumption ==
    /\ Limits \subseteq Nat \ {0}
    /\ \A f \in FaultSets : f \subseteq FaultKinds
    /\ SpamCounts \subseteq Nat \ {0}

VARIABLES
    job,        \* the job, its agent store, setup transactions in order, and simulation
    cmd,        \* where the command is
    fcu,        \* the task that advances the chain: "none", "loop", "ok" or "err"
    isDone,
    phase,      \* of the scenario: "idle", "create", "setup", "await", "ok", "err", "panic"
    rows,       \* named_txs
    map,        \* placeholder_map of the plan
    created,    \* transactions of the create steps done
    called,     \* transactions of the setup steps whose task is spawned
    joined,     \* senders whose chain the caller has awaited
    nonces,     \* [accounts -> TestScenario::nonces]
    nextNonce,  \* [accounts -> load_txs's tracked nonce]
    next,       \* [accounts -> the node's next nonce]
    task,       \* [setup transactions -> state of its task]
    tx,         \* [setup transactions -> "none", "pooled", "landed" or "reverted"]
    spamPlan    \* the spam plan loaded after setup

setupVars == <<job, cmd, fcu, isDone, phase, rows, map, created, called, joined, nonces, nextNonce,
               next, task, tx, spamPlan>>

\* A setup transaction: its step, the account's index, and the sender if there is one.
SetupTxs(scenario, ctx) ==
    Concat([s \in DOMAIN scenario.setup |->
      LET indices == AccountIndices(scenario.setup[s], ctx.store)
          from(i) == SenderOf(scenario.setup[s], i, ctx)
      IN [k \in DOMAIN indices |->
            [step |-> scenario.setup[s], idx |-> indices[k],
             from |-> IF indices[k] >= 0 /\ from(indices[k]).ok THEN from(indices[k]).from ELSE -1]]])

CtxOf(j, chain, known) ==
    [rows |-> known, chain |-> chain, label |-> j.label, env |-> j.env, store |-> j.store, setcodeNonce |-> 0]

Here == CtxOf(job, "node", rows)

Deployed(j, name, chain, known) ==
    Append(known, [name |-> ScenarioDbKey(name, j.label), chain |-> chain,
                   address |-> <<"contract", Len(known) + 1>>])

\* The simulation knows the agents' accounts and one of its own, and the user's
\* only if the scenario has no agents.
Simulated(j, from) == from \in AllSigners(j.store) \/ (DOMAIN j.store = {} /\ from = Funder)

SimulateCreate(j, sim, step) ==
    LET r == CreateTx(step, sim.map, CtxOf(j, "simulation", sim.rows)) IN
    CASE ~sim.ok -> sim
      [] sim.ok /\ ~r.ok -> r
      [] sim.ok /\ r.ok /\ ~Simulated(j, r.tx.from) -> Panicked
      [] OTHER -> Done([map |-> r.map, rows |-> Deployed(j, step.name, "simulation", sim.rows)])

SimulateSetup(j, sim, t) ==
    LET r == SetupTx(t.step, t.idx, sim.map, CtxOf(j, "simulation", sim.rows)) IN
    IF ~sim.ok THEN sim
    ELSE IF t.idx >= 0 /\ r.ok /\ Simulated(j, t.from) THEN Done([map |-> r.map, rows |-> sim.rows])
    ELSE Failed

\* What the Create and Setup plans come to on a fork of the chain, which has an RPC
\* URL of its own and so names of its own.
Simulation(j) ==
    LET creates == FoldInOrder(LAMBDA sim, step : SimulateCreate(j, sim, step),
                               Done([map |-> j.env, rows |-> j.known]), j.create)
    IN IF creates.ok
       THEN FoldInOrder(LAMBDA sim, t : SimulateSetup(j, sim, t), [creates EXCEPT !.map = j.env], j.txs)
       ELSE creates

Prepared(j, limit, faults) ==
    LET store == BuildAgentStore(j.scenario, j.spec)
        prepared == [entry |-> j.entry, label |-> j.label, env |-> j.env, fcu |-> j.fcu, known |-> j.rows,
                     create |-> j.scenario.create, spam |-> j.scenario.spam, store |-> store,
                     txs |-> SetupTxs(j.scenario, [store |-> store, env |-> j.env]),
                     permits |-> limit, faults |-> faults]
    IN prepared @@ [simulation |-> Simulation(prepared)]

\* A job has one of the two entries and finitely many accounts and setup transactions.
ASSUME JobsAssumption ==
    \A j \in Jobs, limit \in Limits, faults \in FaultSets : \E p \in {Prepared(j, limit, faults)} :
      /\ p.entry \in {"setup", "initialize"}
      /\ Cardinality(AllSigners(p.store)) \in Nat /\ Len(p.txs) \in Nat

NoJob == [entry |-> "none", scenario |-> [create |-> <<>>, setup |-> <<>>, spam |-> <<>>],
          spec |-> [create |-> 0, setup |-> 0, spam |-> 0], label |-> <<>>, env |-> <<>>, fcu |-> FALSE,
          rows |-> <<>>]

Accounts == AllSigners(job.store) \cup {Funder}
Steps == 1 .. Len(job.txs)

SetupStart(j, limit, faults) ==
    /\ job = Prepared(j, limit, faults)
    /\ cmd = "start" /\ fcu = "none" /\ isDone = FALSE /\ phase = "idle"
    /\ rows = job.known /\ map = job.env /\ created = <<>> /\ called = <<>> /\ joined = {}
    /\ nonces = [a \in Accounts |-> 0]
    /\ nextNonce = nonces /\ next = nonces
    /\ task = [i \in Steps |-> "none"]
    /\ tx = [i \in Steps |-> "none"]
    /\ spamPlan = Failed

SetupInit == \E j \in Jobs, limit \in Limits, faults \in FaultSets : SetupStart(j, limit, faults)

scenarioVars == <<phase, rows, map, created, called, joined, nonces, nextNonce, next, task, tx, spamPlan>>
-----------------------------------------------------------------------------
(* The command up to deploy_contracts *)

Goto(c) == cmd' = c

\* setup(): the user's accounts have the minimum balance.
CheckAccounts ==
    /\ cmd = "start" /\ job.entry = "setup"
    /\ Goto("fund") \/ ("broke" \in job.faults /\ Goto("err"))
    /\ UNCHANGED <<job, fcu, isDone, scenarioVars>>

FundedCount == Cardinality(AllSigners(job.store))

\* fund_accounts, or fund_signers for each agent: the funder's nonce goes on.  setup
\* funds before the scenario is built, initialize afterwards.
FundAgents ==
    /\ cmd = "fund"
    /\ \/ /\ next' = [next EXCEPT ![Funder] = @ + FundedCount]
          /\ IF job.entry = "setup" THEN Goto("new") /\ UNCHANGED phase
             ELSE Goto("run") /\ phase' = "create"
       \/ /\ "fund" \in job.faults /\ Goto("err")
          /\ \E sent \in 0 .. FundedCount : next' = [next EXCEPT ![Funder] = @ + sent]
          /\ UNCHANGED phase
    /\ UNCHANGED <<job, fcu, isDone, rows, map, created, called, joined, nonces, nextNonce, task, tx, spamPlan>>

\* TestScenario::new: nonces of the user's and the agents' accounts are fetched.
NewScenario ==
    /\ cmd = IF job.entry = "setup" THEN "new" ELSE "start"
    /\ job.entry # "none"
    /\ Goto("simulate")
    /\ nonces' = next /\ nextNonce' = next
    /\ UNCHANGED <<job, fcu, isDone, phase, rows, map, created, called, joined, next, task, tx, spamPlan>>

\* estimate_setup_cost: the minimum balance must cover the cost of the simulation,
\* whose rows stay in the database.  setup() spawns the tasks.
EstimateSetupCost ==
    /\ cmd = "simulate"
    /\ \/ /\ job.simulation.ok
          /\ rows' = job.simulation.rows
          /\ IF job.entry = "setup"
             THEN Goto("run") /\ phase' = "create" /\ fcu' = IF job.fcu THEN "loop" ELSE "none"
             ELSE Goto("fund") /\ UNCHANGED <<phase, fcu>>
       \/ /\ ~job.simulation.ok \/ {"simulate", "cost"} \cap job.faults # {}
          /\ Goto(IF job.simulation.panic THEN "panic" ELSE "err")
          /\ UNCHANGED <<rows, phase, fcu>>
    /\ UNCHANGED <<job, isDone, map, created, called, joined, nonces, nextNonce, next, task, tx, spamPlan>>
-----------------------------------------------------------------------------
(* deploy_contracts: one step after the other.  initialize runs it in its own future, *)
(* setup() in a task that goes on whatever becomes of the command.                     *)

Running == job.entry = "setup" \/ cmd = "run"

Creating == Running /\ phase = "create" /\ Len(created) < Len(job.create)
Sendable(r) == r.ok /\ r.tx.from \in Accounts

\* The contract is deployed, visible and stored under its name.
CreateStep(r) ==
    /\ Sendable(r)
    /\ nextNonce[r.tx.from] = next[r.tx.from]
    /\ created' = Append(created, r.tx)
    /\ map' = r.map
    /\ rows' = Deployed(job, job.create[Len(created) + 1].name, "node", rows)
    /\ nextNonce' = [nextNonce EXCEPT ![r.tx.from] = @ + 1]
    /\ next' = [next EXCEPT ![r.tx.from] = @ + 1]
    /\ UNCHANGED <<job, cmd, fcu, isDone, phase, called, joined, nonces, task, tx, spamPlan>>

\* Estimation, sending, the receipt, the visibility of the code or the database
\* failed; the transaction is mined or not.  A nonce the node does not wait for fails.
DeployFails(r) ==
    /\ Sendable(r)
    /\ "deploy" \in job.faults \/ nextNonce[r.tx.from] # next[r.tx.from]
    /\ phase' = "err"
    /\ nextNonce' = [nextNonce EXCEPT ![r.tx.from] = @ + 1]
    /\ \/ UNCHANGED next
       \/ nextNonce[r.tx.from] = next[r.tx.from] /\ next' = [next EXCEPT ![r.tx.from] = @ + 1]
    /\ UNCHANGED <<job, cmd, fcu, isDone, rows, map, created, called, joined, nonces, task, tx, spamPlan>>

\* The step cannot be templated, or its sender has no wallet (a panic).
CreateFails(r) ==
    /\ ~Sendable(r) \/ "prepare" \in job.faults
    /\ phase' = IF Sendable(r) \/ (~r.ok /\ ~r.panic) THEN "err" ELSE "panic"
    /\ UNCHANGED <<job, cmd, fcu, isDone, rows, map, created, called, joined, nonces, nextNonce, next, task, tx,
                   spamPlan>>

CreateNext ==
    /\ Creating
    /\ \E ctx \in {Here} : \E r \in {CreateTx(job.create[Len(created) + 1], map, ctx)} :
         CreateStep(r) \/ DeployFails(r) \/ CreateFails(r)

\* The nonces are kept; run_setup's plan starts with a placeholder map of its own.
CreateDone ==
    /\ Running /\ phase = "create" /\ Len(created) = Len(job.create)
    /\ nonces' = nextNonce
    /\ map' = job.env
    /\ phase' = "setup"
    /\ UNCHANGED <<job, cmd, fcu, isDone, rows, created, called, joined, nextNonce, next, task, tx, spamPlan>>
-----------------------------------------------------------------------------
(* run_setup: the plan's loop *)

Planning == Running /\ phase = "setup" /\ Len(called) < Len(job.txs)
Planned == job.txs[Len(called) + 1]
Callable(r) == Planned.idx >= 0 /\ r.ok /\ Planned.from \in Accounts

\* on_setup_step spawns the task, which starts at once; what is chained to the
\* sender's previous task is only a second task that awaits both.
SpawnStep(r) ==
    /\ Callable(r)
    /\ called' = Append(called, [tx |-> r.tx, nonce |-> nextNonce[Planned.from]])
    /\ map' = r.map
    /\ task' = [task EXCEPT ![Len(called) + 1] = "queued"]
    /\ nextNonce' = [nextNonce EXCEPT ![Planned.from] = @ + 1]
    /\ UNCHANGED <<job, cmd, fcu, isDone, phase, rows, created, joined, nonces, next, tx, spamPlan>>

\* A placeholder, a pool or a signer is missing: the plan ends, its tasks go on.
SpawnFails(r) ==
    /\ ~Callable(r) \/ "prepare" \in job.faults
    /\ phase' = "err"
    /\ UNCHANGED <<job, cmd, fcu, isDone, rows, map, created, called, joined, nonces, nextNonce, next, task, tx,
                   spamPlan>>

SpawnNext ==
    /\ Planning
    /\ \E ctx \in {Here} : \E r \in {SetupTx(Planned.step, Planned.idx, map, ctx)} : SpawnStep(r) \/ SpawnFails(r)

SpawnDone ==
    /\ Running /\ phase = "setup" /\ Len(called) = Len(job.txs)
    /\ phase' = "await"
    /\ UNCHANGED <<job, cmd, fcu, isDone, rows, map, created, called, joined, nonces, nextNonce, next, task, tx,
                   spamPlan>>

TaskEnded == {"ok", "err"}
Senders == {job.txs[i].from : i \in Steps}
ChainOf(a) == {i \in Steps : job.txs[i].from = a}

MutantChainEnded(a) == task[Max(ChainOf(a))] \in TaskEnded

\* The chained task of a sender's last step has ended.
ChainEnded(a) == \A i \in ChainOf(a) : task[i] \in TaskEnded

\* The caller awaits the chains in the order of the senders' addresses, and sees
\* the result of the last task of each.
JoinChain(a) ==
    /\ Running /\ phase = "await"
    /\ a \in Senders \ joined
    /\ \A b \in Senders \ joined : a <= b
    /\ ChainEnded(a)
    /\ joined' = joined \cup {a}
    /\ phase' = IF task[Max(ChainOf(a))] = "err" THEN "err" ELSE phase
    /\ UNCHANGED <<job, cmd, fcu, isDone, rows, map, created, called, nonces, nextNonce, next, task, tx, spamPlan>>

MutantSetupDone ==
    /\ Running /\ phase = "await" /\ joined = Senders
    /\ phase' = "ok"
    /\ UNCHANGED <<job, cmd, fcu, isDone, rows, map, created, called, joined, nonces, nextNonce, next, task, tx,
                   spamPlan>>

SetupDone ==
    /\ Running /\ phase = "await" /\ joined = Senders
    /\ nonces' = nextNonce
    /\ phase' = "ok"
    /\ UNCHANGED <<job, cmd, fcu, isDone, rows, map, created, called, joined, nextNonce, next, task, tx, spamPlan>>
-----------------------------------------------------------------------------
(* The task of one setup transaction *)

taskRest == <<job, cmd, fcu, isDone, phase, rows, map, created, called, joined, nonces, nextNonce, spamPlan>>

Working == {i \in Steps : task[i] \in {"working", "waiting"}}

Acquire(i) ==
    /\ task[i] = "queued"
    /\ Cardinality(Working) < job.permits
    /\ task' = [task EXCEPT ![i] = "working"]
    /\ UNCHANGED <<taskRest, next, tx>>

\* Gas estimation failed: the step is skipped without an error.
SkipStep(i) ==
    /\ "skip" \in job.faults
    /\ task[i] = "working"
    /\ task' = [task EXCEPT ![i] = "ok"]
    /\ UNCHANGED <<taskRest, next, tx>>

SendStep(i) ==
    /\ task[i] = "working"
    /\ \/ /\ called[i].nonce >= next[job.txs[i].from]
          /\ task' = [task EXCEPT ![i] = "waiting"] /\ tx' = [tx EXCEPT ![i] = "pooled"]
       \/ /\ "reject" \in job.faults \/ called[i].nonce < next[job.txs[i].from]
          /\ task' = [task EXCEPT ![i] = "err"] /\ UNCHANGED tx
    /\ UNCHANGED <<taskRest, next>>

Mine(i) ==
    /\ tx[i] = "pooled"
    /\ called[i].nonce = next[job.txs[i].from]
    /\ next' = [next EXCEPT ![job.txs[i].from] = @ + 1]
    /\ tx' \in {[tx EXCEPT ![i] = "landed"]}
               \cup (IF "revert" \in job.faults THEN {[tx EXCEPT ![i] = "reverted"]} ELSE {})
    /\ UNCHANGED <<taskRest, task>>

Receipt(i) ==
    /\ task[i] = "waiting"
    /\ tx[i] \in {"landed", "reverted"}
    /\ task' = [task EXCEPT ![i] = IF tx[i] = "landed" THEN "ok" ELSE "err"]
    /\ UNCHANGED <<taskRest, next, tx>>

\* No receipt within 30 seconds: the transaction stays in the pool, or it is mined
\* and its receipt was lost.
Timeout(i) ==
    /\ task[i] = "waiting"
    /\ task' = [task EXCEPT ![i] = "err"]
    /\ UNCHANGED <<taskRest, next, tx>>
-----------------------------------------------------------------------------
(* The command's select *)

\* The setup task ends; an error leaves is_done FALSE.
StoreDone ==
    /\ job.entry = "setup" /\ phase = "ok" /\ ~isDone
    /\ isDone' = TRUE
    /\ UNCHANGED <<job, cmd, fcu, scenarioVars>>

\* advance_chain failed, or the loop has seen is_done.
FcuEnds ==
    /\ fcu = "loop"
    /\ \/ isDone /\ fcu' = "ok"
       \/ "engine" \in job.faults /\ fcu' = "err"
    /\ UNCHANGED <<job, cmd, isDone, scenarioVars>>

SetupEnded == cmd \in {"ok", "err", "panic", "cancelled", "spam"}
SetupTaskEnded == phase \in {"err", "panic"} \/ (phase = "ok" /\ (isDone \/ job.entry = "initialize"))

\* Whichever of the two tasks ends first decides.
CommandReturns ==
    /\ cmd = "run"
    /\ \/ SetupTaskEnded /\ Goto(IF phase = "ok" THEN "ok" ELSE "err")
       \/ fcu \in {"ok", "err"} /\ Goto(fcu)
    /\ UNCHANGED <<job, fcu, isDone, scenarioVars>>

\* Ctrl-C during setup(), which returns Ok however far setup is; the cancellation of
\* initialize, which returns an error.
Cancel ==
    /\ cmd = "run" \/ (job.entry = "initialize" /\ cmd \in {"simulate", "fund"})
    /\ Goto(IF job.entry = "setup" THEN "ok" ELSE "cancelled")
    /\ isDone' = (job.entry = "setup")
    /\ UNCHANGED <<job, fcu, scenarioVars>>

\* The spam command or Contender::spam loads its plan, after a setup that is
\* complete or was interrupted.
LoadSpam ==
    /\ cmd = "ok" /\ ~spamPlan.ok /\ ~spamPlan.panic
    /\ \E num \in SpamCounts :
         spamPlan' = [num |-> num, after |-> phase] @@ SpamPlan(job.spam, num, [Here EXCEPT !.store = job.store])
    /\ Goto("spam")
    /\ UNCHANGED <<job, fcu, isDone, phase, rows, map, created, called, joined, nonces, nextNonce, next, task, tx>>
-----------------------------------------------------------------------------

SetupAction ==
    \/ CheckAccounts \/ FundAgents \/ NewScenario \/ EstimateSetupCost
    \/ CreateNext \/ CreateDone \/ SpawnNext \/ SpawnDone \/ SetupDone
    \/ StoreDone \/ FcuEnds \/ CommandReturns

Task(i) == i \in Steps /\ (Acquire(i) \/ SkipStep(i) \/ SendStep(i) \/ Receipt(i) \/ Timeout(i))

AnyStep == 1 .. MaxSetupTxs
AnySender == UNION {{PoolNumber[p] + i : i \in 0..2} : p \in DOMAIN PoolNumber} \cup {Funder}

SetupStep ==
    \/ SetupAction
    \/ \E a \in AnySender : JoinChain(a)
    \/ \E i \in AnyStep : Task(i)

SetupNext == SetupStep \/ Cancel \/ LoadSpam \/ \E i \in AnyStep : i \in Steps /\ Mine(i)
-----------------------------------------------------------------------------
(* Properties *)

\* The nonce map left by a successful setup is the node's, through rejected,
\* reverted and timed out transactions of other positions in the chain.  A step
\* that is skipped has used up a nonce that is never sent, and initialize funds the
\* agents from the first user's account after it has fetched that account's nonce.
NoncesMatch ==
    phase = "ok" /\ "skip" \notin job.faults =>
      \A a \in Accounts : nonces[a] = next[a] \/ (a = Funder /\ job.entry = "initialize")

Mined(i) == tx[i] \in {"landed", "reverted"}

\* When run_setup returns Ok, every setup transaction is mined: none is lost, still
\* in the pool, or left to a task that could send it later, although the caller has
\* looked at the result of each sender's last task only (trait.rs, pending_per_sender).
\* A rejected or timed out transaction that is dropped holds up the nonces after it,
\* so that the last one cannot land.  Nothing is said of an earlier one that reverted
\* (SetupErrorsReported), of steps that are skipped, which use up a nonce, or of the
\* account initialize funds the agents from.
OkMeansSetUp ==
    phase = "ok" /\ "skip" \notin job.faults =>
      \A i \in Steps :
        /\ task[i] \in TaskEnded
        /\ job.txs[i].from # Funder \/ job.entry # "initialize" => Mined(i)

\* No error of a setup task is lost: the comment in load_txs says of the tasks whose
\* result the chain ignores that their errors will be reported separately.
SetupErrorsReported == phase = "ok" => \A i \in Steps : task[i] # "err"

\* Contracts this job has deployed.
Own(address) == \E i \in DOMAIN rows : i > Len(job.known) /\ rows[i].chain = "node" /\ rows[i].address = address
CreatedNames == {job.create[i].name : i \in DOMAIN job.create} \ DOMAIN job.env
Faithful(text, value) == (Len(text) = 1 /\ NamesIn(text) \cap CreatedNames # {}) => Own(value[1])
FaithfulCall(call, t) ==
    /\ Faithful(call.to, t.to)
    /\ \A a \in DOMAIN call.args : t.data # <<>> => Faithful(call.args[a], t.data[a])

\* Every transaction of a scenario refers to the contracts the scenario itself has
\* deployed, not to those an earlier setup, another label or the simulation has left
\* in the database under the same names; a spam plan does so if setup was complete.
OwnContracts ==
    /\ \A i \in DOMAIN created :
         /\ Faithful(job.create[i].code, created[i].data[1])
         /\ \A a \in DOMAIN job.create[i].args : Faithful(job.create[i].args[a], created[i].data[a + 1])
    /\ \A i \in DOMAIN called : FaithfulCall(job.txs[i].step, called[i].tx)
    /\ spamPlan.ok /\ spamPlan.after = "ok" =>
         LET per == Len(spamPlan.txs) \div Len(job.spam) IN
         \A k \in DOMAIN spamPlan.txs :
           LET calls == job.spam[((k - 1) \div per) + 1]
           IN \A c \in DOMAIN calls : FaithfulCall(calls[c], spamPlan.txs[k][c])

\* The transactions of one call of the spam steps, in order.
SentOf(s, c) ==
    LET per == Len(spamPlan.txs) \div Len(job.spam)
    IN [i \in 1..per |-> spamPlan.txs[(s - 1) * per + i][c]]

Spread(sent) ==
    LET senders == {sent[i].from : i \in DOMAIN sent}
        uses(a) == Cardinality({i \in DOMAIN sent : sent[i].from = a})
    IN \A a, b \in senders : uses(a) - uses(b) \in -1..1

FuzzNames == [s \in DOMAIN job.spam |-> [c \in DOMAIN job.spam[s] |-> {f.param : f \in Range(job.spam[s][c].fuzz)}]]
FuzzedOnce(name) ==
    Cardinality({p \in (DOMAIN job.spam) \X (1..2) :
                   p[2] \in DOMAIN job.spam[p[1]] /\ name \in FuzzNames[p[1]][p[2]]}) = 1

InRange(call, t) ==
    \A a \in DOMAIN call.args, f \in DOMAIN call.fuzz :
      (call.fuzz[f].param = call.params[a] /\ FuzzedOnce(call.params[a]))
        => t.data[a][1][2] >= call.fuzz[f].min /\ t.data[a][1][2] < call.fuzz[f].max

\* The spam plan has at least as many requests as asked for, every step equally
\* often and less than one more round; a pool's accounts take turns; and a fuzzed
\* argument is in the range its call gives, unless another call fuzzes a parameter
\* of that name (trait.rs, PlanType::Spam).
SpamPlanSound ==
    spamPlan.ok =>
      /\ Len(spamPlan.txs) \in spamPlan.num .. spamPlan.num + Len(job.spam) - 1
      /\ Len(spamPlan.txs) % Len(job.spam) = 0
      /\ \A s \in DOMAIN job.spam : \A c \in DOMAIN job.spam[s] :
           /\ Spread(SentOf(s, c))
           /\ \A i \in DOMAIN SentOf(s, c) : InRange(job.spam[s][c], SentOf(s, c)[i])

\* Once initialize is cancelled nothing more is sent: its documentation says that
\* tasks in progress are shut down.
CancelStopsTasks ==
    [][(cmd = "cancelled" /\ job.entry = "initialize")
         => \A i \in Steps : tx'[i] = "pooled" => tx[i] = "pooled"]_setupVars
=============================================================================
