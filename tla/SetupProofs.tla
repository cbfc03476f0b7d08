---------------------------- MODULE SetupProofs ----------------------------
(***************************************************************************)
(* Proofs that a run_setup that returns Ok has had every setup transaction *)
(* mined (OkMeansSetUp) and leaves the nonces of the node behind           *)
(* (NoncesMatch), for any scenario and any order in which its transactions *)
(* are sent, mined, reverted, rejected, and time out.                      *)
(*                                                                         *)
(* The nonces are tracked, never read back: they are right after setup     *)
(* only because the caller's last look at a sender is at the last of its   *)
(* transactions.  The invariant says that the tracked nonce is the node's  *)
(* until the first task is spawned, and from then on one more than the     *)
(* nonce of the last transaction spawned for the account, which the node   *)
(* mines only after all earlier ones.  No two transactions of an account   *)
(* have the same nonce, so those whose nonce the node has passed are mined.*)
(***************************************************************************)
EXTENDS SetupTasks, TLAPS

TaskStates == {"none", "queued", "working", "waiting", "ok", "err"}
TxStates == {"none", "pooled", "landed", "reverted"}

SetupTypeOK ==
    /\ job.entry \in {"setup", "initialize"} /\ FundedCount \in Nat /\ Len(job.txs) \in Nat
    /\ nonces \in [Accounts -> Nat] /\ nextNonce \in [Accounts -> Nat] /\ next \in [Accounts -> Nat]
    /\ task \in [Steps -> TaskStates]
    /\ tx \in [Steps -> TxStates]
    /\ \E S : called \in Seq(S)

\* The transactions whose task is spawned.
Spawned == 1 .. Len(called)
From(i) == job.txs[i].from

\* The accounts whose nonces are fetched after all payments of the job: all but the
\* one initialize funds the agents from.
Fetched == {a \in Accounts : a # Funder \/ job.entry # "initialize"}

\* Where the command is and where the scenario is.
CmdInv ==
    /\ cmd \in {"start", "fund", "new", "simulate"} => phase = "idle"
    /\ phase \in {"idle", "create"} => called = <<>>
    /\ phase \in {"idle", "create", "setup"} => joined = {}
    /\ phase \in {"await", "ok"} => Len(called) = Len(job.txs)

\* From the time the nonces are fetched until the first setup task is spawned, the
\* tracked nonces are the node's.
Tracking == cmd = "simulate" \/ phase = "create" \/ (cmd = "fund" /\ job.entry = "initialize")
FetchedAgree == Tracking => \A a \in Fetched : nextNonce[a] = next[a]

\* The last of the spawned transactions of account a.
IsLast(i, a) == i \in Spawned /\ From(i) = a /\ \A j \in Spawned : From(j) = a => j <= i

\* An account's nonces up to the tracked one belong to its spawned transactions.
Reserved ==
    phase \in {"setup", "await", "ok"} =>
      /\ \A i \in Spawned : called[i].nonce < nextNonce[From(i)]
      /\ \A a \in Fetched :
           /\ next[a] <= nextNonce[a]
           /\ nextNonce[a] = next[a] \/ \E i \in Spawned : IsLast(i, a) /\ called[i].nonce = nextNonce[a] - 1

\* What a task and its transaction have come to.
TasksInv ==
    /\ \A i \in Spawned : called[i].nonce \in Nat /\ From(i) \in Accounts
    /\ \A i \in Steps :
         /\ task[i] # "none" \/ tx[i] # "none" => i \in Spawned
         /\ tx[i] \in {"landed", "reverted"} => called[i].nonce < next[From(i)]
         /\ task[i] = "ok" /\ "skip" \notin job.faults => tx[i] = "landed"

\* The last of the transactions of account a.
IsTop(i, a) == \A j \in ChainOf(a) : j <= i

\* The chains the caller has awaited.
JoinedInv ==
    /\ joined \subseteq Senders
    /\ \A a \in joined :
         /\ ChainEnded(a)
         /\ phase \in {"await", "ok"} => \A i \in ChainOf(a) : IsTop(i, a) => task[i] # "err"
    /\ phase = "ok" => joined = Senders /\ nonces = nextNonce

\* The nonces are distinct, and the node has passed a nonce by mining its transaction.
Consumed ==
    /\ Spawned \subseteq Steps
    /\ \A i, j \in Spawned : From(i) = From(j) /\ called[i].nonce = called[j].nonce => i = j
    /\ \A i \in Spawned : From(i) \in Fetched /\ called[i].nonce < next[From(i)] => Mined(i)

SetupInv == SetupTypeOK /\ CmdInv /\ FetchedAgree /\ Reserved /\ TasksInv /\ JoinedInv /\ Consumed

-----------------------------------------------------------------------------
(* What stays *)

LEMMA Rigid ==
    ASSUME UNCHANGED job
    PROVE  /\ Accounts' = Accounts /\ Steps' = Steps /\ Senders' = Senders
           /\ FundedCount' = FundedCount /\ Fetched' = Fetched
           /\ \A a : ChainOf(a)' = ChainOf(a)
           /\ \A i : From(i)' = From(i)
BY Zenon DEF Accounts, Steps, Senders, FundedCount, Fetched, ChainOf, From

scene == <<job, called, joined, nonces, nextNonce, next, task, tx>>

\* A step that only moves the command, or ends the plan with an error.
LEMMA Frame ==
    ASSUME SetupInv, UNCHANGED scene, CmdInv', FetchedAgree',
           phase' = phase \/ phase' \notin {"setup", "await", "ok"}
    PROVE  SetupInv'
<1>0. /\ UNCHANGED <<job, called, joined, nonces, nextNonce, next, task, tx>>
      /\ SetupTypeOK /\ Reserved /\ TasksInv /\ JoinedInv /\ Consumed
  BY Zenon DEF SetupInv, scene
<1>1. /\ Accounts' = Accounts /\ Steps' = Steps /\ Senders' = Senders
      /\ FundedCount' = FundedCount /\ Fetched' = Fetched
      /\ \A a : ChainOf(a)' = ChainOf(a)
      /\ \A i : From(i)' = From(i)
  BY <1>0, Rigid, Zenon
<1>2. Spawned' = Spawned
  BY <1>0, Zenon DEF Spawned
<1>3. SetupTypeOK'
  BY <1>0, <1>1, Zenon DEF SetupTypeOK
<1>4. Reserved'
  BY <1>0, <1>1, <1>2, Zenon DEF Reserved, IsLast
<1>5. TasksInv'
  BY <1>0, <1>1, <1>2, Zenon DEF TasksInv
<1>6. JoinedInv'
  BY <1>0, <1>1, Zenon DEF JoinedInv, ChainEnded, IsTop
<1>7. Consumed'
  BY <1>0, <1>1, <1>2, Zenon DEF Consumed, Mined
<1> QED
  BY <1>3, <1>4, <1>5, <1>6, <1>7, Zenon DEF SetupInv

\* The command's own steps leave the scenario alone.
LEMMA FrameSteps ==
    ASSUME SetupInv,
           \/ CheckAccounts \/ EstimateSetupCost \/ StoreDone \/ FcuEnds \/ CommandReturns
           \/ Cancel \/ LoadSpam \/ UNCHANGED setupVars
    PROVE  SetupInv'
<1>0. CmdInv /\ FetchedAgree
  BY Zenon DEF SetupInv
<1>1. CASE CheckAccounts
  <2>1. UNCHANGED scene /\ UNCHANGED phase /\ cmd = "start" /\ job.entry = "setup"
        /\ cmd' \in {"fund", "err"}
    BY <1>1 DEF CheckAccounts, Goto, scene, scenarioVars
  <2>2. CmdInv' /\ FetchedAgree'
    BY <1>0, <2>1 DEF CmdInv, FetchedAgree, Tracking, Fetched, Accounts, scene
  <2> QED
    BY <2>1, <2>2, Frame, Zenon
<1>2. CASE EstimateSetupCost
  <2>1. /\ UNCHANGED scene /\ cmd = "simulate"
        /\ \/ cmd' = "run" /\ phase' = "create"
           \/ cmd' = "fund" /\ phase' = phase
           \/ cmd' \in {"panic", "err"} /\ phase' = phase
    BY <1>2 DEF EstimateSetupCost, Goto, scene
  <2>2. phase = "idle" /\ \A a \in Fetched : nextNonce[a] = next[a]
    BY <1>0, <2>1, Zenon DEF CmdInv, FetchedAgree, Tracking
  <2>3. UNCHANGED <<job, called, joined, nextNonce, next>> /\ Fetched' = Fetched
    BY <2>1, Rigid, Zenon DEF scene
  <2>4. FetchedAgree'
    BY <2>2, <2>3, Zenon DEF FetchedAgree
  <2>5. CmdInv'
    BY <1>0, <2>1, <2>2, <2>3 DEF CmdInv
  <2> QED
    BY <2>1, <2>2, <2>4, <2>5, Frame
<1>3. CASE StoreDone \/ FcuEnds \/ LoadSpam \/ CommandReturns \/ Cancel
  <2>1. /\ UNCHANGED scene /\ UNCHANGED phase
        /\ cmd' = cmd \/ cmd' \in {"ok", "err", "spam", "cancelled"}
    BY <1>3 DEF StoreDone, FcuEnds, LoadSpam, CommandReturns, Cancel, Goto, scene, scenarioVars
  <2>2. UNCHANGED <<job, called, joined, nextNonce, next>> /\ Fetched' = Fetched
    BY <2>1, Rigid, Zenon DEF scene
  <2>3. CmdInv'
    BY <1>0, <2>1, <2>2 DEF CmdInv
  <2>4. FetchedAgree'
    BY <1>0, <2>1, <2>2 DEF FetchedAgree, Tracking
  <2> QED
    BY <2>1, <2>3, <2>4, Frame, Zenon
<1>4. CASE UNCHANGED setupVars
  <2>1. UNCHANGED scene /\ UNCHANGED <<phase, cmd>>
    BY <1>4, Zenon DEF setupVars, scene
  <2>2. UNCHANGED <<job, called, joined, nextNonce, next>> /\ Fetched' = Fetched
    BY <2>1, Rigid, Zenon DEF scene
  <2>3. CmdInv' /\ FetchedAgree'
    BY <1>0, <2>1, <2>2, Zenon DEF CmdInv, FetchedAgree, Tracking
  <2> QED
    BY <2>1, <2>3, Frame, Zenon
<1> QED
  BY <1>1, <1>2, <1>3, <1>4, Zenon

-----------------------------------------------------------------------------
(* Before the tasks *)

\* Nothing is spawned yet, and the node may have mined more.
LEMMA Early ==
    ASSUME SetupInv, UNCHANGED <<job, called, joined, task, tx>>, called = <<>>, joined = {},
           nonces' \in [Accounts -> Nat], nextNonce' \in [Accounts -> Nat], next' \in [Accounts -> Nat],
           CmdInv', FetchedAgree', phase' \notin {"await", "ok"},
           phase' = "setup" => \A a \in Fetched : nextNonce'[a] = next'[a]
    PROVE  SetupInv'
<1>0. SetupTypeOK /\ TasksInv /\ Accounts' = Accounts /\ Steps' = Steps /\ Fetched' = Fetched /\ FundedCount' = FundedCount
  BY Rigid, Zenon DEF SetupInv
<1>1. Spawned = {} /\ Spawned' = {}
  BY DEF Spawned
<1>2. SetupTypeOK'
  BY <1>0, Zenon DEF SetupTypeOK
<1>3. TasksInv'
  <2>1. \A i \in Steps : task[i] = "none" /\ tx[i] = "none"
    BY <1>0, <1>1, Zenon DEF TasksInv
  <2>2. \A i \in Steps' : task'[i] = "none" /\ tx'[i] = "none"
    BY <1>0, <2>1, Zenon
  <2> QED
    BY <1>1, <2>2 DEF TasksInv
<1>4. Reserved'
  <2>1. \A a \in Fetched : a \in Accounts
    BY Zenon DEF Fetched
  <2>2. phase' = "setup" => \A a \in Fetched : nextNonce'[a] = next'[a] /\ next'[a] <= nextNonce'[a]
    BY <2>1
  <2> QED
    BY <1>0, <1>1, <2>2 DEF Reserved
<1>5. JoinedInv' /\ Consumed'
  BY <1>1 DEF JoinedInv, Consumed
<1> QED
  BY <1>2, <1>3, <1>4, <1>5, Zenon DEF SetupInv

\* The payments are the funder's only.
LEMMA FundAgentsStep ==
    ASSUME SetupInv, FundAgents
    PROVE  SetupInv'
<1>0. SetupTypeOK /\ CmdInv /\ FetchedAgree
  BY Zenon DEF SetupInv
<1>1. PICK n \in Nat : next' = [next EXCEPT ![Funder] = @ + n]
  BY <1>0 DEF FundAgents, SetupTypeOK
<1>2. /\ cmd = "fund" /\ UNCHANGED <<job, fcu, isDone, called, joined, nonces, nextNonce, task, tx>>
      /\ \/ job.entry = "setup" /\ cmd' = "new" /\ phase' = phase
         \/ job.entry # "setup" /\ cmd' = "run" /\ phase' = "create"
         \/ cmd' = "err" /\ phase' = phase
  BY Zenon DEF FundAgents, Goto
<1>3. phase = "idle" /\ called = <<>> /\ joined = {}
  BY <1>0, <1>2 DEF CmdInv
<1>4. next' \in [Accounts -> Nat] /\ \A a \in Accounts : a # Funder => next'[a] = next[a]
  <2>1. next \in [Accounts -> Nat] /\ Funder \in Accounts
    BY <1>0, Zenon DEF SetupTypeOK, Accounts
  <2>2. next[Funder] + n \in Nat
    BY <1>1, <2>1
  <2> QED
    BY <1>1, <2>1, <2>2, Zenon
<1>5. Fetched' = Fetched /\ nonces' \in [Accounts -> Nat] /\ nextNonce' \in [Accounts -> Nat]
  BY <1>0, <1>2, Rigid, Zenon DEF SetupTypeOK
<1>6. FetchedAgree'
  <2>1. CASE job.entry = "setup"
    BY <1>2, <1>3, <2>1 DEF FetchedAgree, Tracking
  <2>2. CASE job.entry = "initialize"
    <3>1. \A a \in Fetched : a # Funder /\ a \in Accounts
      BY <2>2, Zenon DEF Fetched
    <3>2. \A a \in Fetched : nextNonce[a] = next[a]
      BY <1>0, <1>2, <2>2, Zenon DEF FetchedAgree, Tracking
    <3> QED
      BY <1>2, <1>4, <1>5, <3>1, <3>2, Zenon DEF FetchedAgree
  <2> QED
    BY <1>0, <2>1, <2>2 DEF SetupTypeOK
<1>7. CmdInv'
  BY <1>0, <1>2, <1>3 DEF CmdInv
<1>8. phase' \notin {"await", "ok", "setup"}
  BY <1>2, <1>3
<1> QED
  BY <1>2, <1>3, <1>4, <1>5, <1>6, <1>7, <1>8, Early

\* The nonces are fetched.
LEMMA NewScenarioStep ==
    ASSUME SetupInv, NewScenario
    PROVE  SetupInv'
<1>0. SetupTypeOK /\ CmdInv
  BY Zenon DEF SetupInv
<1>1. /\ cmd \in {"new", "start"} /\ cmd' = "simulate" /\ nonces' = next /\ nextNonce' = next
      /\ UNCHANGED <<job, fcu, isDone, phase, called, joined, next, task, tx>>
  BY DEF NewScenario, Goto
<1>2. phase = "idle" /\ called = <<>> /\ joined = {}
  BY <1>0, <1>1 DEF CmdInv
<1>3. /\ nonces' \in [Accounts -> Nat] /\ nextNonce' \in [Accounts -> Nat] /\ next' \in [Accounts -> Nat]
  BY <1>0, <1>1, Zenon DEF SetupTypeOK
<1>4. FetchedAgree'
  BY <1>1, Zenon DEF FetchedAgree
<1>5. CmdInv'
  BY <1>0, <1>1, <1>2 DEF CmdInv
<1> QED
  BY <1>1, <1>2, <1>3, <1>4, <1>5, Early

\* A deployment takes one nonce, tracked and at the node; one that fails ends the plan.
LEMMA CreateNextStep ==
    ASSUME SetupInv, CreateNext
    PROVE  SetupInv'
<1>0. SetupTypeOK /\ CmdInv /\ FetchedAgree
  BY Zenon DEF SetupInv
<1>1. phase = "create" /\ \E r : CreateStep(r) \/ DeployFails(r) \/ CreateFails(r)
  BY Zenon DEF CreateNext, Creating
<1>2. PICK r : CreateStep(r) \/ DeployFails(r) \/ CreateFails(r)
  BY <1>1, Zenon
<1>3. called = <<>> /\ joined = {} /\ \A a \in Fetched : a \in Accounts /\ nextNonce[a] = next[a]
  BY <1>0, <1>1 DEF CmdInv, FetchedAgree, Tracking, Fetched
<1>4. UNCHANGED <<job, cmd, fcu, isDone, called, joined, nonces, task, tx>> /\ Fetched' = Fetched
  <2>1. UNCHANGED <<job, cmd, fcu, isDone, called, joined, nonces, task, tx>>
    BY <1>2, Zenon DEF CreateStep, DeployFails, CreateFails
  <2> QED
    BY <2>1, Rigid, Zenon
<1>5. CASE CreateStep(r)
  <2>1. /\ r.tx.from \in Accounts /\ phase' = phase
        /\ nextNonce' = [nextNonce EXCEPT ![r.tx.from] = @ + 1]
        /\ next' = [next EXCEPT ![r.tx.from] = @ + 1]
    BY <1>5, Zenon DEF CreateStep, Sendable
  <2>2. nextNonce' \in [Accounts -> Nat] /\ next' \in [Accounts -> Nat] /\ nonces' \in [Accounts -> Nat]
    BY <1>0, <1>4, <2>1 DEF SetupTypeOK
  <2>3. \A a \in Fetched : nextNonce'[a] = next'[a]
    BY <1>0, <1>3, <2>1 DEF SetupTypeOK
  <2>4. FetchedAgree'
    BY <1>4, <2>3, Zenon DEF FetchedAgree
  <2>5. CmdInv'
    BY <1>0, <1>4, <2>1, Zenon DEF CmdInv
  <2> QED
    BY <1>1, <1>3, <1>4, <2>1, <2>2, <2>4, <2>5, Early
<1>6. CASE DeployFails(r) \/ CreateFails(r)
  <2>1. phase' \in {"err", "panic"}
    BY <1>6 DEF DeployFails, CreateFails
  <2>2. nextNonce' \in [Accounts -> Nat] /\ next' \in [Accounts -> Nat] /\ nonces' \in [Accounts -> Nat]
    <3>1. nextNonce \in [Accounts -> Nat] /\ next \in [Accounts -> Nat] /\ nonces \in [Accounts -> Nat]
      BY <1>0, Zenon DEF SetupTypeOK
    <3>2. CASE CreateFails(r)
      BY <1>4, <3>1, <3>2, Zenon DEF CreateFails
    <3>3. CASE DeployFails(r)
      <4>1. /\ r.tx.from \in Accounts
            /\ nextNonce' = [nextNonce EXCEPT ![r.tx.from] = @ + 1]
            /\ next' = next \/ next' = [next EXCEPT ![r.tx.from] = @ + 1]
        BY <3>3, Zenon DEF DeployFails, Sendable
      <4> QED
        BY <1>4, <3>1, <4>1
    <3> QED
      BY <1>6, <3>2, <3>3, Zenon
  <2>3. cmd \notin {"start", "fund", "new", "simulate"}
    BY <1>0, <1>1 DEF CmdInv
  <2>4. FetchedAgree'
    BY <1>4, <2>1, <2>3 DEF FetchedAgree, Tracking
  <2>5. CmdInv'
    BY <1>0, <1>4, <2>1, <2>3 DEF CmdInv
  <2> QED
    BY <1>3, <1>4, <2>1, <2>2, <2>4, <2>5, Early, Zenon
<1> QED
  BY <1>2, <1>5, <1>6, Zenon

LEMMA CreateDoneStep ==
    ASSUME SetupInv, CreateDone
    PROVE  SetupInv'
<1>0. SetupTypeOK /\ CmdInv /\ FetchedAgree
  BY Zenon DEF SetupInv
<1>1. /\ phase = "create" /\ phase' = "setup" /\ nonces' = nextNonce
      /\ UNCHANGED <<job, cmd, fcu, isDone, called, joined, nextNonce, next, task, tx>>
  BY Zenon DEF CreateDone
<1>2. called = <<>> /\ joined = {} /\ \A a \in Fetched : nextNonce'[a] = next'[a]
  BY <1>0, <1>1 DEF CmdInv, FetchedAgree, Tracking
<1>3. /\ nonces' \in [Accounts -> Nat] /\ nextNonce' \in [Accounts -> Nat] /\ next' \in [Accounts -> Nat]
  BY <1>0, <1>1, Zenon DEF SetupTypeOK
<1>4. Fetched' = Fetched
  BY <1>1, Rigid, Zenon
<1>5. FetchedAgree'
  BY <1>2, <1>4, Zenon DEF FetchedAgree
<1>6. CmdInv'
  BY <1>0, <1>1, <1>2 DEF CmdInv
<1> QED
  BY <1>1, <1>2, <1>3, <1>5, <1>6, Early

-----------------------------------------------------------------------------
(* The plan of the setup transactions *)

\* A new transaction gets the tracked nonce and is its account's last.
LEMMA SpawnStepStep ==
    ASSUME SetupInv, Planning, NEW r, SpawnStep(r)
    PROVE  SetupInv'
<1>a. PICK n, p : n = Len(called) + 1 /\ p = Planned.from
  BY Zenon
<1>b. PICK x : x = [tx |-> r.tx, nonce |-> nextNonce[p]]
  BY Zenon
<1>0. SetupTypeOK /\ CmdInv /\ FetchedAgree /\ Reserved /\ TasksInv /\ JoinedInv /\ Consumed
  BY Zenon DEF SetupInv
<1>1. /\ phase = "setup" /\ p \in Accounts /\ p = From(n) /\ called' = Append(called, x)
      /\ task' = [task EXCEPT ![n] = "queued"] /\ nextNonce' = [nextNonce EXCEPT ![p] = @ + 1]
      /\ UNCHANGED <<job, cmd, fcu, isDone, phase, joined, nonces, next, tx>>
      /\ Len(called) < Len(job.txs)
  BY <1>a, <1>b, Zenon DEF Planning, SpawnStep, Callable, Planned, From
<1>2. x.nonce = nextNonce[p]
  BY <1>b
<1>3. PICK S : called \in Seq(S)
  BY <1>0, Zenon DEF SetupTypeOK
<1>4. /\ called' \in Seq(S \cup {x}) /\ Len(called') = n /\ n \in Nat /\ n >= 1 /\ Len(called) \in Nat
      /\ called'[n] = x /\ \A i \in 1 .. Len(called) : called'[i] = called[i]
  BY <1>a, <1>1, <1>3
<1>5. n \in Steps /\ Len(job.txs) \in Nat
  BY <1>a, <1>0, <1>1, <1>4 DEF SetupTypeOK, Steps
<1>6. Spawned' = Spawned \cup {n} /\ n \notin Spawned /\ \A i \in Spawned : i <= n
  BY <1>a, <1>4 DEF Spawned
<1>7. /\ Accounts' = Accounts /\ Steps' = Steps /\ Senders' = Senders
      /\ FundedCount' = FundedCount /\ Fetched' = Fetched
      /\ \A i : From(i)' = From(i)
  BY <1>1, Rigid, Zenon
<1>8. nextNonce \in [Accounts -> Nat] /\ next \in [Accounts -> Nat] /\ task \in [Steps -> TaskStates]
  BY <1>0, Zenon DEF SetupTypeOK
<1>9. /\ nextNonce' \in [Accounts -> Nat] /\ nextNonce'[p] = nextNonce[p] + 1
      /\ \A a \in Accounts : a # p => nextNonce'[a] = nextNonce[a]
      /\ \A a \in Accounts : nextNonce[a] <= nextNonce'[a]
  BY <1>1, <1>8
<1>10. /\ task' \in [Steps -> TaskStates] /\ task'[n] = "queued"
       /\ \A i \in Steps : i # n => task'[i] = task[i]
  BY <1>1, <1>5, <1>8 DEF TaskStates
<1>11. \A i \in Spawned : called'[i] = called[i]
  BY <1>4, Zenon DEF Spawned
<1>12. SetupTypeOK'
  BY <1>0, <1>1, <1>4, <1>7, <1>9, <1>10, Zenon DEF SetupTypeOK
<1>13. CmdInv' /\ FetchedAgree'
  <2>1. cmd \notin {"start", "fund", "new", "simulate"} /\ joined = {}
    BY <1>0, <1>1 DEF CmdInv
  <2>2. CmdInv'
    BY <1>0, <1>1, <2>1 DEF CmdInv
  <2> QED
    BY <1>1, <2>1, <2>2 DEF FetchedAgree, Tracking
<1>14. TasksInv'
  <2>1. ASSUME NEW i \in Spawned' PROVE called'[i].nonce \in Nat /\ From(i)' \in Accounts'
    <3>1. i \in Spawned \/ i = n
      BY <1>6, Zenon
    <3>2. called'[n].nonce \in Nat
      BY <1>1, <1>2, <1>4, <1>8
    <3> QED
      BY <1>0, <1>1, <1>7, <1>11, <3>1, <3>2, Zenon DEF TasksInv
  <2>2. ASSUME NEW i \in Steps
        PROVE  /\ task'[i] # "none" \/ tx'[i] # "none" => i \in Spawned'
               /\ tx'[i] \in {"landed", "reverted"} => called'[i].nonce < next'[From(i)']
               /\ task'[i] = "ok" /\ "skip" \notin job'.faults => tx'[i] = "landed"
    <3>1. CASE i = n
      <4>1. tx[n] = "none"
        BY <1>0, <1>5, <1>6, Zenon DEF TasksInv
      <4> QED
        BY <1>1, <1>6, <1>10, <3>1, <4>1
    <3>2. CASE i # n
      <4>1. task'[i] = task[i] /\ tx'[i] = tx[i] /\ next' = next /\ From(i)' = From(i) /\ job' = job
        BY <1>1, <1>7, <1>10, <3>2, Zenon
      <4>2. tx[i] \in {"landed", "reverted"} => i \in Spawned
        BY <1>0, Zenon DEF TasksInv
      <4> QED
        BY <1>0, <1>6, <1>11, <4>1, <4>2, Zenon DEF TasksInv
    <3> QED
      BY <3>1, <3>2, Zenon
  <2> QED
    BY <1>7, <2>1, <2>2, Zenon DEF TasksInv
<1>15. Reserved'
  <2>0. /\ \A i \in Spawned : called[i].nonce < nextNonce[From(i)]
        /\ \A a \in Fetched :
             /\ next[a] <= nextNonce[a]
             /\ nextNonce[a] = next[a] \/ \E i \in Spawned : IsLast(i, a) /\ called[i].nonce = nextNonce[a] - 1
    BY <1>0, <1>1 DEF Reserved
  <2>1. ASSUME NEW i \in Spawned' PROVE called'[i].nonce < nextNonce'[From(i)']
    <3>1. CASE i = n
      <4>1. called'[i].nonce = nextNonce[p] /\ nextNonce'[From(i)'] = nextNonce[p] + 1
        BY <1>1, <1>2, <1>4, <1>7, <1>9, <3>1, Zenon
      <4> QED
        BY <1>1, <1>8, <4>1
    <3>2. CASE i \in Spawned
      <4>1. called'[i] = called[i] /\ From(i)' = From(i) /\ From(i) \in Accounts /\ called[i].nonce \in Nat
        BY <1>0, <1>7, <1>11, <3>2, Zenon DEF TasksInv
      <4>2. called[i].nonce < nextNonce[From(i)] /\ nextNonce[From(i)] <= nextNonce'[From(i)]
        BY <1>9, <2>0, <3>2, <4>1, Zenon
      <4>3. nextNonce[From(i)] \in Nat /\ nextNonce'[From(i)] \in Nat
        BY <1>8, <1>9, <4>1, Zenon
      <4>4. called[i].nonce < nextNonce'[From(i)]
        BY <4>1, <4>2, <4>3
      <4> QED
        BY <4>1, <4>4, Zenon
    <3> QED
      BY <1>6, <3>1, <3>2, Zenon
  <2>2. ASSUME NEW a \in Fetched
        PROVE  /\ next'[a] <= nextNonce'[a]
               /\ nextNonce'[a] = next'[a] \/ \E i \in Spawned' : IsLast(i, a)' /\ called'[i].nonce = nextNonce'[a] - 1
    <3>0. a \in Accounts
      BY Zenon DEF Fetched
    <3>1. CASE a = p
      <4>1. next'[a] <= nextNonce'[a] /\ nextNonce'[a] - 1 = nextNonce[p]
        BY <1>1, <1>8, <1>9, <2>0, <3>0, <3>1
      <4>2. IsLast(n, p)'
        <5>1. \A j \in Spawned' : j <= n
          BY <1>4, <1>6
        <5> QED
          BY <1>1, <1>6, <1>7, <5>1 DEF IsLast
      <4> QED
        BY <1>2, <1>4, <1>6, <3>1, <4>1, <4>2, Zenon
    <3>2. CASE a # p
      <4>1. nextNonce'[a] = nextNonce[a] /\ next'[a] = next[a]
        BY <1>1, <1>9, <3>0, <3>2, Zenon
      <4>2. ASSUME NEW i \in Spawned, IsLast(i, a) PROVE IsLast(i, a)'
        BY <1>1, <1>6, <1>7, <3>2, <4>2 DEF IsLast
      <4> QED
        BY <1>6, <1>11, <2>0, <4>1, <4>2
    <3> QED
      BY <3>1, <3>2, Zenon
  <2> QED
    BY <1>7, <2>1, <2>2, Zenon DEF Reserved
<1>16. JoinedInv'
  <2>1. joined = {}
    BY <1>0, <1>1 DEF CmdInv
  <2> QED
    BY <1>1, <2>1 DEF JoinedInv
<1>17. Consumed'
  <2>0. \A i \in Spawned : From(i)' = From(i) /\ called'[i] = called[i] /\ tx'[i] = tx[i] /\ next' = next
    BY <1>1, <1>7, <1>11, Zenon
  <2>1. ASSUME NEW i \in Spawned, From(i) = p PROVE called'[i].nonce # called'[n].nonce
    <3>1. called[i].nonce < nextNonce[p] /\ called[i].nonce \in Nat
      BY <1>0, <1>1, <2>1 DEF Reserved, TasksInv
    <3>2. called'[i] = called[i] /\ called'[n].nonce = nextNonce[p] /\ nextNonce[p] \in Nat
      BY <1>1, <1>2, <1>4, <1>8, <2>0, Zenon
    <3> QED
      BY <3>1, <3>2
  <2>2. ASSUME NEW i \in Spawned', NEW j \in Spawned', From(i)' = From(j)', called'[i].nonce = called'[j].nonce
        PROVE  i = j
    <3>1. (i \in Spawned \/ i = n) /\ (j \in Spawned \/ j = n) /\ From(i) = From(j)
      BY <1>6, <1>7, <2>2, Zenon
    <3>2. CASE i \in Spawned /\ j \in Spawned
      BY <1>0, <2>0, <2>2, <3>1, <3>2, Zenon DEF Consumed
    <3> QED
      BY <1>1, <2>1, <2>2, <3>1, <3>2, Zenon
  <2>3. ASSUME NEW i \in Spawned', From(i)' \in Fetched', called'[i].nonce < next'[From(i)'] PROVE Mined(i)'
    <3>1. From(i) \in Fetched /\ called'[i].nonce < next[From(i)]
      BY <1>1, <1>7, <2>3, Zenon
    <3>2. CASE i = n
      <4>1. p \in Fetched /\ nextNonce[p] < next[p]
        BY <1>1, <1>2, <1>4, <3>1, <3>2, Zenon
      <4>2. next[p] <= nextNonce[p] /\ next[p] \in Nat /\ nextNonce[p] \in Nat
        BY <1>0, <1>1, <1>8, <4>1 DEF Reserved
      <4> QED
        BY <4>1, <4>2
    <3>3. CASE i \in Spawned
      BY <1>0, <1>1, <2>0, <3>1, <3>3, Zenon DEF Consumed, Mined
    <3> QED
      BY <1>6, <3>2, <3>3, Zenon
  <2>4. Spawned' \subseteq Steps'
    BY <1>0, <1>5, <1>6, <1>7, Zenon DEF Consumed
  <2> QED
    BY <2>2, <2>3, <2>4, Zenon DEF Consumed
<1> QED
  BY <1>12, <1>13, <1>14, <1>15, <1>16, <1>17, Zenon DEF SetupInv

LEMMA SpawnNextStep ==
    ASSUME SetupInv, SpawnNext
    PROVE  SetupInv'
<1>1. PICK r : Planning /\ (SpawnStep(r) \/ SpawnFails(r))
  BY Zenon DEF SpawnNext
<1>2. CASE SpawnFails(r)
  <2>0. CmdInv
    BY Zenon DEF SetupInv
  <2>1. UNCHANGED scene /\ phase = "setup" /\ phase' = "err" /\ UNCHANGED <<cmd, fcu, isDone>>
    BY <1>1, <1>2, Zenon DEF SpawnFails, Planning, scene
  <2>2. UNCHANGED <<job, called, joined>>
    BY <2>1, Zenon DEF scene
  <2>3. cmd \notin {"start", "fund", "new", "simulate"}
    BY <2>0, <2>1 DEF CmdInv
  <2>4. CmdInv'
    BY <2>0, <2>1, <2>2, <2>3 DEF CmdInv
  <2>5. FetchedAgree'
    BY <2>1, <2>3 DEF FetchedAgree, Tracking
  <2> QED
    BY <2>1, <2>4, <2>5, Frame
<1> QED
  BY <1>1, <1>2, SpawnStepStep, Zenon

\* The caller's steps once all tasks are spawned change no transaction.
LEMMA Late ==
    ASSUME SetupInv, UNCHANGED <<job, cmd, fcu, isDone, called, nextNonce, next, task, tx>>,
           phase \in {"setup", "await"}, phase' \in {"await", "ok", "err"},
           nonces' \in [Accounts -> Nat], Len(called) = Len(job.txs), JoinedInv'
    PROVE  SetupInv'
<1>0. SetupTypeOK /\ CmdInv /\ Reserved /\ TasksInv /\ Consumed
  BY Zenon DEF SetupInv
<1>1. /\ Accounts' = Accounts /\ Steps' = Steps /\ FundedCount' = FundedCount /\ Fetched' = Fetched
      /\ \A i : From(i)' = From(i)
  BY Rigid, Zenon
<1>2. Spawned' = Spawned
  BY Zenon DEF Spawned
<1>3. SetupTypeOK'
  BY <1>0, <1>1, Zenon DEF SetupTypeOK
<1>4. cmd \notin {"start", "fund", "new", "simulate"}
  BY <1>0 DEF CmdInv
<1>5. CmdInv' /\ FetchedAgree'
  BY <1>0, <1>4 DEF CmdInv, FetchedAgree, Tracking
<1>6. Reserved'
  BY <1>0, <1>1, <1>2 DEF Reserved, IsLast
<1>7. TasksInv'
  BY <1>0, <1>1, <1>2, Zenon DEF TasksInv
<1>8. Consumed'
  BY <1>0, <1>1, <1>2, Zenon DEF Consumed, Mined
<1> QED
  BY <1>3, <1>5, <1>6, <1>7, <1>8, Zenon DEF SetupInv

LEMMA SpawnDoneStep ==
    ASSUME SetupInv, SpawnDone
    PROVE  SetupInv'
<1>0. CmdInv /\ SetupTypeOK
  BY Zenon DEF SetupInv
<1>1. /\ UNCHANGED <<job, cmd, fcu, isDone, called, joined, nonces, nextNonce, next, task, tx>>
      /\ phase = "setup" /\ phase' = "await" /\ Len(called) = Len(job.txs)
  BY Zenon DEF SpawnDone
<1>2. joined' = {}
  BY <1>0, <1>1 DEF CmdInv
<1>3. JoinedInv'
  BY <1>1, <1>2 DEF JoinedInv
<1>4. nonces' \in [Accounts -> Nat]
  BY <1>0, <1>1, Zenon DEF SetupTypeOK
<1> QED
  BY <1>1, <1>3, <1>4, Late

\* The result the caller sees is that of the last of the sender's transactions.
LEMMA JoinChainStep ==
    ASSUME SetupInv, NEW a, JoinChain(a)
    PROVE  SetupInv'
<1>0. CmdInv /\ SetupTypeOK /\ JoinedInv
  BY Zenon DEF SetupInv
<1>1. /\ UNCHANGED <<job, cmd, fcu, isDone, called, nonces, nextNonce, next, task, tx>>
      /\ phase = "await" /\ joined' = joined \cup {a} /\ a \in Senders /\ ChainEnded(a)
      /\ phase' = IF task[Max(ChainOf(a))] = "err" THEN "err" ELSE phase
  BY Zenon DEF JoinChain
<1>2. Senders' = Senders /\ \A b : ChainOf(b)' = ChainOf(b)
  BY <1>1, Rigid, Zenon
<1>3. ASSUME NEW i \in ChainOf(a), IsTop(i, a) PROVE Max(ChainOf(a)) = i
  <2>1. ChainOf(a) \subseteq Int
    BY <1>0 DEF ChainOf, Steps, SetupTypeOK
  <2>2. \A y \in ChainOf(a) : i >= y
    BY <1>3, <2>1 DEF IsTop
  <2>3. Max(ChainOf(a)) \in ChainOf(a) /\ \A y \in ChainOf(a) : Max(ChainOf(a)) >= y
    BY <1>3, <2>2, Zenon DEF Max
  <2> QED
    BY <2>1, <2>2, <2>3
<1>4. phase' = "await" => \A i \in ChainOf(a) : IsTop(i, a) => task[i] # "err"
  BY <1>1, <1>3
<1>5. joined' \subseteq Senders'
  BY <1>0, <1>1, <1>2 DEF JoinedInv
<1>6. ASSUME NEW b \in joined'
      PROVE  /\ ChainEnded(b)'
             /\ phase' \in {"await", "ok"} => \A i \in ChainOf(b)' : IsTop(i, b)' => task'[i] # "err"
  <2>1. phase' \in {"await", "err"}
    BY <1>1
  <2>2. ChainEnded(b) /\ (phase' = "await" => \A i \in ChainOf(b) : IsTop(i, b) => task[i] # "err")
    <3>1. b = a \/ b \in joined
      BY <1>1, <1>6
    <3>2. CASE b \in joined
      BY <1>0, <1>1, <3>2 DEF JoinedInv
    <3> QED
      BY <1>1, <1>4, <3>1, <3>2, Zenon
  <2> QED
    BY <1>1, <1>2, <2>1, <2>2 DEF ChainEnded, IsTop
<1>7. phase' # "ok"
  BY <1>1
<1>8. JoinedInv'
  BY <1>5, <1>6, <1>7, Zenon DEF JoinedInv
<1>9. nonces' \in [Accounts -> Nat] /\ Len(called) = Len(job.txs) /\ phase' \in {"await", "err"}
  BY <1>0, <1>1 DEF SetupTypeOK, CmdInv
<1> QED
  BY <1>1, <1>8, <1>9, Late

LEMMA SetupDoneStep ==
    ASSUME SetupInv, SetupDone
    PROVE  SetupInv'
<1>0. CmdInv /\ SetupTypeOK /\ JoinedInv
  BY Zenon DEF SetupInv
<1>1. /\ UNCHANGED <<job, cmd, fcu, isDone, called, joined, nextNonce, next, task, tx>>
      /\ phase = "await" /\ phase' = "ok" /\ nonces' = nextNonce /\ joined = Senders
  BY Zenon DEF SetupDone
<1>2. Senders' = Senders /\ \A b : ChainOf(b)' = ChainOf(b)
  BY <1>1, Rigid, Zenon
<1>3. JoinedInv'
  BY <1>0, <1>1, <1>2 DEF JoinedInv, ChainEnded, IsTop
<1>4. nonces' \in [Accounts -> Nat] /\ Len(called) = Len(job.txs)
  BY <1>0, <1>1 DEF SetupTypeOK, CmdInv
<1> QED
  BY <1>1, <1>3, <1>4, Late

-----------------------------------------------------------------------------
(* The tasks and the node *)

\* A task that has not ended moves on: nobody has awaited it yet.
LEMMA TaskMoves ==
    ASSUME SetupInv, NEW i \in Steps, NEW v \in TaskStates, NEW w \in TxStates,
           UNCHANGED <<taskRest, next>>, task[i] \in {"queued", "working", "waiting"},
           task' = [task EXCEPT ![i] = v], tx' = [tx EXCEPT ![i] = w],
           w = tx[i] \/ (w = "pooled" /\ ~Mined(i)), v = "ok" => w = "landed" \/ "skip" \in job.faults
    PROVE  SetupInv'
<1>0. SetupTypeOK /\ CmdInv /\ FetchedAgree /\ Reserved /\ TasksInv /\ JoinedInv /\ Consumed
  BY Zenon DEF SetupInv
<1>1. UNCHANGED <<job, cmd, fcu, isDone, phase, called, joined, nonces, nextNonce, next>>
  BY Zenon DEF taskRest
<1>2. /\ Accounts' = Accounts /\ Steps' = Steps /\ Senders' = Senders
      /\ FundedCount' = FundedCount /\ Fetched' = Fetched
      /\ \A a : ChainOf(a)' = ChainOf(a)
      /\ \A j : From(j)' = From(j)
  BY <1>1, Rigid, Zenon
<1>3. Spawned' = Spawned
  BY <1>1, Zenon DEF Spawned
<1>4. /\ task' \in [Steps -> TaskStates] /\ task'[i] = v /\ \A j \in Steps : j # i => task'[j] = task[j]
      /\ tx' \in [Steps -> TxStates] /\ tx'[i] = w /\ \A j \in Steps : j # i => tx'[j] = tx[j]
  BY <1>0, Zenon DEF SetupTypeOK
<1>5. SetupTypeOK'
  BY <1>0, <1>1, <1>2, <1>4, Zenon DEF SetupTypeOK
<1>6. CmdInv' /\ FetchedAgree' /\ Reserved'
  <2>1. CmdInv'
    BY <1>0, <1>1, Zenon DEF CmdInv
  <2>2. FetchedAgree'
    BY <1>0, <1>1, <1>2, Zenon DEF FetchedAgree, Tracking
  <2>3. Reserved'
    BY <1>0, <1>1, <1>2, <1>3, Zenon DEF Reserved, IsLast
  <2> QED
    BY <2>1, <2>2, <2>3, Zenon
<1>7. TasksInv'
  <2>1. \A j \in Spawned' : called'[j].nonce \in Nat /\ From(j)' \in Accounts'
    BY <1>0, <1>1, <1>2, <1>3, Zenon DEF TasksInv
  <2>2. ASSUME NEW j \in Steps
        PROVE  /\ task'[j] # "none" \/ tx'[j] # "none" => j \in Spawned'
               /\ tx'[j] \in {"landed", "reverted"} => called'[j].nonce < next'[From(j)']
               /\ task'[j] = "ok" /\ "skip" \notin job'.faults => tx'[j] = "landed"
    <3>1. CASE j = i
      <4>1. i \in Spawned
        BY <1>0 DEF TasksInv
      <4>2. w \in {"landed", "reverted"} => w = tx[i]
        OBVIOUS
      <4>3. tx[i] \in {"landed", "reverted"} => called[i].nonce < next[From(i)]
        BY <1>0, Zenon DEF TasksInv
      <4> QED
        BY <1>1, <1>2, <1>3, <1>4, <3>1, <4>1, <4>2, <4>3, Zenon
    <3>2. CASE j # i
      BY <1>0, <1>1, <1>2, <1>3, <1>4, <3>2, Zenon DEF TasksInv
    <3> QED
      BY <3>1, <3>2, Zenon
  <2> QED
    BY <1>2, <2>1, <2>2, Zenon DEF TasksInv
<1>8. JoinedInv'
  <2>1. ASSUME NEW a \in joined
        PROVE  \A j \in ChainOf(a) : task'[j] = task[j]
    <3>1. \A j \in ChainOf(a) : j \in Steps /\ task[j] \in TaskEnded
      BY <1>0, <2>1, Zenon DEF JoinedInv, ChainEnded, ChainOf
    <3>2. task[i] \notin TaskEnded
      BY DEF TaskEnded
    <3> QED
      BY <1>4, <3>1, <3>2, Zenon
  <2>2. ASSUME NEW a \in joined
        PROVE  /\ ChainEnded(a)'
               /\ phase' \in {"await", "ok"} => \A j \in ChainOf(a)' : IsTop(j, a)' => task'[j] # "err"
    BY <1>0, <1>1, <1>2, <2>1, <2>2, Zenon DEF JoinedInv, ChainEnded, IsTop
  <2> QED
    BY <1>0, <1>1, <1>2, <2>2, Zenon DEF JoinedInv
<1>9. Consumed'
  <2>1. ASSUME NEW j \in Steps, Mined(j) PROVE Mined(j)'
    BY <1>4, <2>1 DEF Mined
  <2> QED
    BY <1>0, <1>1, <1>2, <1>3, <2>1, Zenon DEF Consumed
<1> QED
  BY <1>5, <1>6, <1>7, <1>8, <1>9, Zenon DEF SetupInv

LEMMA TaskStep ==
    ASSUME SetupInv, NEW i, Task(i)
    PROVE  SetupInv'
<1>0. SetupTypeOK /\ TasksInv /\ i \in Steps
  BY Zenon DEF SetupInv, Task
<1>1. task[i] \in TaskStates /\ tx[i] \in TxStates /\ tx = [tx EXCEPT ![i] = tx[i]]
  BY <1>0 DEF SetupTypeOK
<1>2. CASE Acquire(i) \/ SkipStep(i) \/ Receipt(i) \/ Timeout(i)
  <2>1. /\ UNCHANGED <<taskRest, next, tx>> /\ task[i] \in {"queued", "working", "waiting"}
        /\ \E v \in TaskStates :
             task' = [task EXCEPT ![i] = v] /\ (v = "ok" => tx[i] = "landed" \/ "skip" \in job.faults)
    BY <1>2 DEF Acquire, SkipStep, Receipt, Timeout, TaskStates
  <2>2. PICK v \in TaskStates :
             task' = [task EXCEPT ![i] = v] /\ (v = "ok" => tx[i] = "landed" \/ "skip" \in job.faults)
    BY <2>1, Zenon
  <2>3. UNCHANGED <<taskRest, next>> /\ tx' = [tx EXCEPT ![i] = tx[i]]
    BY <1>1, <2>1, Zenon
  <2>4. PICK w : w = tx[i]
    BY Zenon
  <2> QED
    BY <1>0, <1>1, <2>1, <2>2, <2>3, <2>4, TaskMoves, Zenon
<1>3. CASE SendStep(i)
  <2>1. UNCHANGED <<taskRest, next>> /\ task[i] = "working"
    BY <1>3, Zenon DEF SendStep
  <2>2. \/ /\ task' = [task EXCEPT ![i] = "waiting"] /\ tx' = [tx EXCEPT ![i] = "pooled"]
           /\ called[i].nonce >= next[From(i)]
        \/ task' = [task EXCEPT ![i] = "err"] /\ tx' = tx
    BY <1>3, Zenon DEF SendStep, From
  <2>3. CASE /\ task' = [task EXCEPT ![i] = "waiting"] /\ tx' = [tx EXCEPT ![i] = "pooled"]
             /\ called[i].nonce >= next[From(i)]
    <3>1. "waiting" \in TaskStates /\ "pooled" \in TxStates
      BY DEF TaskStates, TxStates
    <3>2. ASSUME Mined(i) PROVE FALSE
      <4>1. i \in Spawned /\ called[i].nonce < next[From(i)]
        BY <1>0, <3>2 DEF TasksInv, Mined
      <4>2. called[i].nonce \in Nat /\ next[From(i)] \in Nat
        BY <1>0, <4>1 DEF TasksInv, SetupTypeOK
      <4> QED
        BY <2>3, <4>1, <4>2
    <3> QED
      BY <1>0, <2>1, <2>3, <3>1, <3>2, TaskMoves, Zenon
  <2>4. CASE task' = [task EXCEPT ![i] = "err"] /\ tx' = tx
    <3>1. "err" \in TaskStates
      BY DEF TaskStates
    <3>2. PICK w : w = tx[i]
      BY Zenon
    <3>3. tx' = [tx EXCEPT ![i] = w]
      BY <1>1, <2>4, <3>2, Zenon
    <3> QED
      BY <1>0, <1>1, <2>1, <2>4, <3>1, <3>2, <3>3, TaskMoves, Zenon
  <2> QED
    BY <2>2, <2>3, <2>4, Zenon
<1> QED
  BY <1>2, <1>3, Zenon DEF Task

\* The node mines the transaction it waits for, which was spawned with that nonce.
LEMMA MineStep ==
    ASSUME SetupInv, NEW i \in Steps, Mine(i)
    PROVE  SetupInv'
<1>0. SetupTypeOK /\ CmdInv /\ FetchedAgree /\ Reserved /\ TasksInv /\ JoinedInv /\ Consumed
  BY Zenon DEF SetupInv
<1>a. PICK p : p = From(i)
  BY Zenon
<1>1. /\ UNCHANGED <<job, cmd, fcu, isDone, phase, called, joined, nonces, nextNonce, task>>
      /\ tx[i] = "pooled" /\ called[i].nonce = next[p] /\ next' = [next EXCEPT ![p] = @ + 1]
      /\ tx' = [tx EXCEPT ![i] = "landed"] \/ tx' = [tx EXCEPT ![i] = "reverted"]
  BY <1>a DEF Mine, taskRest, From
<1>2. /\ Accounts' = Accounts /\ Steps' = Steps /\ Senders' = Senders
      /\ FundedCount' = FundedCount /\ Fetched' = Fetched
      /\ \A a : ChainOf(a)' = ChainOf(a)
      /\ \A j : From(j)' = From(j)
  BY <1>1, Rigid, Zenon
<1>3. Spawned' = Spawned /\ i \in Spawned /\ p \in Accounts
  <2>1. i \in Spawned
    BY <1>0, <1>1 DEF TasksInv
  <2> QED
    BY <1>a, <1>0, <1>1, <2>1, Zenon DEF Spawned, TasksInv
<1>4. /\ tx' \in [Steps -> TxStates] /\ tx'[i] \in {"landed", "reverted"}
      /\ \A j \in Steps : j # i => tx'[j] = tx[j]
  BY <1>0, <1>1 DEF SetupTypeOK, TxStates
<1>5. next \in [Accounts -> Nat] /\ nextNonce \in [Accounts -> Nat]
  BY <1>0, Zenon DEF SetupTypeOK
<1>6. /\ next' \in [Accounts -> Nat] /\ next'[p] = next[p] + 1
      /\ \A a \in Accounts : a # p => next'[a] = next[a]
      /\ \A a \in Accounts : next[a] <= next'[a]
  BY <1>1, <1>3, <1>5
<1>7. SetupTypeOK'
  BY <1>0, <1>1, <1>2, <1>4, <1>6, Zenon DEF SetupTypeOK
<1>8. phase \notin {"idle", "create"}
  <2>1. called # <<>>
    BY <1>3 DEF Spawned
  <2> QED
    BY <1>0, <2>1 DEF CmdInv
<1>9. CmdInv' /\ FetchedAgree'
  <2>1. CmdInv'
    BY <1>0, <1>1, Zenon DEF CmdInv
  <2>2. cmd \notin {"simulate", "fund"}
    BY <1>0, <1>8 DEF CmdInv
  <2> QED
    BY <1>1, <1>8, <2>1, <2>2 DEF FetchedAgree, Tracking
<1>10. TasksInv'
  <2>1. \A j \in Spawned' : called'[j].nonce \in Nat /\ From(j)' \in Accounts'
    BY <1>0, <1>1, <1>2, <1>3, Zenon DEF TasksInv
  <2>2. ASSUME NEW j \in Steps
        PROVE  /\ task'[j] # "none" \/ tx'[j] # "none" => j \in Spawned'
               /\ tx'[j] \in {"landed", "reverted"} => called'[j].nonce < next'[From(j)']
               /\ task'[j] = "ok" /\ "skip" \notin job'.faults => tx'[j] = "landed"
    <3>1. CASE j = i
      <4>1. called'[i].nonce < next'[From(i)']
        BY <1>a, <1>1, <1>2, <1>3, <1>5, <1>6
      <4>2. ~(task[i] = "ok" /\ "skip" \notin job.faults)
        BY <1>0, <1>1 DEF TasksInv
      <4> QED
        BY <1>1, <1>3, <3>1, <4>1, <4>2, Zenon
    <3>2. CASE j # i
      <4>1. tx'[j] = tx[j] /\ task'[j] = task[j] /\ From(j)' = From(j) /\ called' = called /\ job' = job
        BY <1>1, <1>2, <1>4, <3>2, Zenon
      <4>2. ASSUME tx[j] \in {"landed", "reverted"} PROVE called[j].nonce < next'[From(j)]
        <5>1. j \in Spawned
          BY <1>0, <4>2 DEF TasksInv
        <5>2. called[j].nonce \in Nat /\ From(j) \in Accounts /\ called[j].nonce < next[From(j)]
          BY <1>0, <4>2, <5>1, Zenon DEF TasksInv
        <5>3. next[From(j)] <= next'[From(j)] /\ next[From(j)] \in Nat /\ next'[From(j)] \in Nat
          BY <1>5, <1>6, <5>2, Zenon
        <5> QED
          BY <5>2, <5>3
      <4> QED
        BY <1>0, <1>3, <4>1, <4>2, Zenon DEF TasksInv
    <3> QED
      BY <3>1, <3>2, Zenon
  <2> QED
    BY <1>2, <2>1, <2>2, Zenon DEF TasksInv
<1>11. Reserved'
  <2> SUFFICES ASSUME phase \in {"setup", "await", "ok"}
               PROVE  /\ \A j \in Spawned' : called'[j].nonce < nextNonce'[From(j)']
                      /\ \A a \in Fetched' :
                           /\ next'[a] <= nextNonce'[a]
                           /\ nextNonce'[a] = next'[a]
                              \/ \E j \in Spawned' : IsLast(j, a)' /\ called'[j].nonce = nextNonce'[a] - 1
    BY <1>1, Zenon DEF Reserved
  <2>1. /\ \A j \in Spawned : called[j].nonce < nextNonce[From(j)]
        /\ \A a \in Fetched :
             /\ next[a] <= nextNonce[a]
             /\ nextNonce[a] = next[a] \/ \E j \in Spawned : IsLast(j, a) /\ called[j].nonce = nextNonce[a] - 1
    BY <1>0, Zenon DEF Reserved
  <2>2. next[p] < nextNonce[p]
    BY <1>a, <1>1, <1>3, <2>1, Zenon
  <2>3. \A j, a : IsLast(j, a) => IsLast(j, a)'
    BY <1>2, <1>3, Zenon DEF IsLast
  <2>4. ASSUME NEW a \in Fetched
        PROVE  /\ next'[a] <= nextNonce[a]
               /\ nextNonce[a] = next'[a] \/ \E j \in Spawned : IsLast(j, a) /\ called[j].nonce = nextNonce[a] - 1
    <3>0. a \in Accounts
      BY Zenon DEF Fetched
    <3>1. CASE a = p
      <4>1. next'[a] <= nextNonce[a] /\ nextNonce[a] # next[a]
        BY <1>3, <1>5, <1>6, <2>2, <3>1
      <4> QED
        BY <2>1, <4>1, Zenon
    <3>2. CASE a # p
      BY <1>6, <2>1, <3>0, <3>2, Zenon
    <3> QED
      BY <3>1, <3>2, Zenon
  <2> QED
    BY <1>1, <1>2, <1>3, <2>1, <2>3, <2>4, Zenon
<1>12. JoinedInv'
  BY <1>0, <1>1, <1>2, Zenon DEF JoinedInv, ChainEnded, IsTop
<1>13. Consumed'
  <2>1. ASSUME NEW j \in Spawned, From(j) \in Fetched, called[j].nonce < next'[From(j)] PROVE Mined(j)'
    <3>0. j \in Steps /\ From(j) \in Accounts /\ called[j].nonce \in Nat
      BY <1>0, Zenon DEF Consumed, TasksInv
    <3>1. CASE j = i
      BY <1>4, <3>1, Zenon DEF Mined
    <3>2. CASE j # i
      <4>1. called[j].nonce < next[From(j)]
        <5>1. CASE From(j) # p
          BY <1>6, <2>1, <3>0, <5>1, Zenon
        <5>2. CASE From(j) = p
          <6>1. called[j].nonce # next[p]
            BY <1>a, <1>0, <1>1, <1>3, <3>2, <5>2, Zenon DEF Consumed
          <6>2. called[j].nonce < next[p] + 1 /\ next[p] \in Nat
            BY <1>3, <1>5, <1>6, <2>1, <5>2, Zenon
          <6> QED
            BY <3>0, <5>2, <6>1, <6>2
        <5> QED
          BY <5>1, <5>2, Zenon
      <4>2. Mined(j)
        BY <1>0, <2>1, <4>1, Zenon DEF Consumed
      <4> QED
        BY <1>4, <3>0, <3>2, <4>2, Zenon DEF Mined
    <3> QED
      BY <3>1, <3>2, Zenon
  <2> QED
    BY <1>0, <1>1, <1>2, <1>3, <2>1, Zenon DEF Consumed
<1> QED
  BY <1>7, <1>9, <1>10, <1>11, <1>12, <1>13, Zenon DEF SetupInv

-----------------------------------------------------------------------------
(* The theorems *)

LEMMA SetupInvInit == SetupInit => SetupInv
<1> SUFFICES ASSUME SetupInit PROVE SetupInv
  BY Zenon
<1>1. PICK j \in Jobs, limit \in Limits, faults \in FaultSets : SetupStart(j, limit, faults)
  BY Zenon DEF SetupInit
<1>2. job.entry \in {"setup", "initialize"} /\ FundedCount \in Nat /\ Len(job.txs) \in Nat
  <2>1. job = Prepared(j, limit, faults)
    BY <1>1, Zenon DEF SetupStart
  <2> QED
    BY <2>1, JobsAssumption DEF FundedCount
<1>3. /\ cmd = "start" /\ fcu = "none" /\ isDone = FALSE /\ phase = "idle" /\ called = <<>> /\ joined = {}
      /\ nonces = [a \in Accounts |-> 0] /\ nextNonce = nonces /\ next = nonces
      /\ task = [i \in Steps |-> "none"] /\ tx = [i \in Steps |-> "none"]
  BY <1>1, Zenon DEF SetupStart
<1>4. SetupTypeOK
  <2>1. called \in Seq({})
    BY <1>3
  <2> QED
    BY <1>2, <1>3, <2>1 DEF SetupTypeOK, TaskStates, TxStates
<1>5. Spawned = {}
  BY <1>3 DEF Spawned
<1>6. TasksInv /\ Consumed
  BY <1>3, <1>5 DEF TasksInv, Consumed
<1>7. CmdInv /\ FetchedAgree /\ Reserved /\ JoinedInv
  BY <1>3 DEF CmdInv, FetchedAgree, Tracking, Reserved, JoinedInv
<1> QED
  BY <1>4, <1>6, <1>7, Zenon DEF SetupInv

LEMMA SetupInvStep == SetupInv /\ [SetupNext]_setupVars => SetupInv'
<1> SUFFICES ASSUME SetupInv, [SetupNext]_setupVars PROVE SetupInv'
  BY Zenon
<1>1. CASE \/ CheckAccounts \/ EstimateSetupCost \/ StoreDone \/ FcuEnds \/ CommandReturns
           \/ Cancel \/ LoadSpam \/ UNCHANGED setupVars
  BY <1>1, FrameSteps, Zenon
<1>2. CASE SetupAction
  BY <1>1, <1>2, FundAgentsStep, NewScenarioStep, CreateNextStep, CreateDoneStep, SpawnNextStep, SpawnDoneStep,
     SetupDoneStep, Zenon DEF SetupAction
<1>3. CASE \E a \in AnySender : JoinChain(a)
  BY <1>3, JoinChainStep, Zenon
<1>4. CASE \E i \in AnyStep : Task(i)
  BY <1>4, TaskStep, Zenon
<1>5. CASE \E i \in AnyStep : i \in Steps /\ Mine(i)
  BY <1>5, MineStep, Zenon
<1> QED
  BY <1>1, <1>2, <1>3, <1>4, <1>5, Zenon DEF SetupNext, SetupStep

\* The setup command and initialize as they run on their own.
SetupSpec == SetupInit /\ [][SetupNext]_setupVars

LEMMA SetupKeepsInv == SetupSpec => []SetupInv
BY SetupInvInit, SetupInvStep, PTL DEF SetupSpec

\* When setup has succeeded and no step was skipped, the node has passed all nonces
\* that were tracked: the caller has seen the last transaction of every account land.
LEMMA Passed ==
    ASSUME SetupInv, phase = "ok", "skip" \notin job.faults, NEW a \in Fetched
    PROVE  nextNonce[a] = next[a] /\ Spawned = Steps
<1>0. SetupTypeOK /\ CmdInv /\ Reserved /\ TasksInv /\ JoinedInv
  BY Zenon DEF SetupInv
<1>1. joined = Senders /\ Len(called) = Len(job.txs) /\ a \in Accounts
  BY <1>0 DEF JoinedInv, CmdInv, Fetched
<1>2. Spawned = Steps
  BY <1>1, Zenon DEF Spawned, Steps
<1>3. /\ next[a] <= nextNonce[a]
      /\ nextNonce[a] = next[a] \/ \E i \in Spawned : IsLast(i, a) /\ called[i].nonce = nextNonce[a] - 1
  BY <1>0 DEF Reserved
<1>4. ASSUME NEW i \in Steps, IsLast(i, a), called[i].nonce = nextNonce[a] - 1
      PROVE  nextNonce[a] = next[a]
  <2>1. From(i) = a /\ i \in ChainOf(a) /\ a \in joined /\ IsTop(i, a)
    BY <1>1, <1>2, <1>4, Zenon DEF IsLast, IsTop, ChainOf, Senders, From
  <2>2. task[i] \in TaskEnded /\ task[i] # "err"
    BY <1>0, <2>1 DEF JoinedInv, ChainEnded
  <2>3. task[i] = "ok"
    BY <2>2 DEF TaskEnded
  <2>4. tx[i] = "landed"
    BY <1>0, <2>3, Zenon DEF TasksInv
  <2>5. called[i].nonce < next[a]
    BY <1>0, <2>1, <2>4 DEF TasksInv
  <2>6. next[a] \in Nat /\ nextNonce[a] \in Nat
    BY <1>0, <1>1, Zenon DEF SetupTypeOK
  <2> QED
    BY <1>3, <1>4, <2>5, <2>6
<1> QED
  BY <1>2, <1>3, <1>4, Zenon

\* When run_setup returns Ok, every setup transaction has been mined and no task is
\* left that could send one, whatever was rejected, timed out or reverted in between,
\* unless a step was skipped; the account initialize funds the agents from apart.
THEOREM SuccessIsSetUp == SetupSpec => []OkMeansSetUp
<1>1. SetupInv => OkMeansSetUp
  <2> SUFFICES ASSUME SetupInv, phase = "ok", "skip" \notin job.faults, NEW i \in Steps
               PROVE  /\ task[i] \in TaskEnded
                      /\ From(i) # Funder \/ job.entry # "initialize" => Mined(i)
    BY Zenon DEF OkMeansSetUp, From
  <2>0. CmdInv /\ Reserved /\ TasksInv /\ JoinedInv /\ Consumed
    BY Zenon DEF SetupInv
  <2>1. task[i] \in TaskEnded
    <3>1. From(i) \in joined /\ i \in ChainOf(From(i))
      BY <2>0, Zenon DEF JoinedInv, Senders, ChainOf, From
    <3> QED
      BY <2>0, <3>1, Zenon DEF JoinedInv, ChainEnded
  <2>2. ASSUME From(i) # Funder \/ job.entry # "initialize" PROVE Mined(i)
    <3>1. i \in Spawned
      <4>1. Len(called) = Len(job.txs)
        BY <2>0 DEF CmdInv
      <4> QED
        BY <4>1, Zenon DEF Spawned, Steps
    <3>2. From(i) \in Fetched
      BY <2>0, <2>2, <3>1, Zenon DEF Fetched, TasksInv
    <3>3. called[i].nonce < nextNonce[From(i)]
      BY <2>0, <3>1 DEF Reserved
    <3>4. nextNonce[From(i)] = next[From(i)]
      BY <3>2, Passed, Zenon
    <3> QED
      BY <2>0, <3>1, <3>2, <3>3, <3>4, Zenon DEF Consumed
  <2> QED
    BY <2>1, <2>2, Zenon
<1> QED
  BY <1>1, SetupKeepsInv, PTL

\* After a successful setup the nonces kept for the spam run are the node's, for
\* every account but the one initialize funds the agents from, unless a step was
\* skipped: rejected, reverted and timed out transactions of a sender show in the
\* result of its last one.
THEOREM NoncesAreRight == SetupSpec => []NoncesMatch
<1>1. SetupInv => NoncesMatch
  <2> SUFFICES ASSUME SetupInv, phase = "ok", "skip" \notin job.faults, NEW a \in Accounts,
                      ~(a = Funder /\ job.entry = "initialize")
               PROVE  nonces[a] = next[a]
    BY Zenon DEF NoncesMatch
  <2>1. a \in Fetched /\ nonces = nextNonce
    BY DEF Fetched, SetupInv, JoinedInv
  <2> QED
    BY <2>1, Passed, Zenon
<1> QED
  BY <1>1, SetupKeepsInv, PTL
=============================================================================
