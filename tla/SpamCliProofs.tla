--------------------------- MODULE SpamCliProofs ---------------------------
(***************************************************************************)
(* Proofs about the spam command: its funding (SpamCli) and the spam_rpc   *)
(* that it runs (SpamRpc).                                                 *)
(***************************************************************************)
EXTENDS SpamCli, SpamRpc, TLAPS

-----------------------------------------------------------------------------
(***************************************************************************)
(* A spam command whose first call of fund_accounts returns Ok             *)
(* has every account covered (OkMeansCovered), for any number of accounts, *)
(* attempts and permits, any bound on the nonces, and any order in which   *)
(* the payment tasks run, fail and are mined.                              *)
(*                                                                         *)
(* A call reads which accounts need a payment and the payer's nonce before *)
(* it spawns its tasks.  In the first call nothing else pays, so the tasks *)
(* own the nonces 0, 1, ... in the order of the accounts: nonce k - 1 is   *)
(* free until task k has used it, holds that task's payment until it is    *)
(* mined, and is never met again.  Hence no task can be answered "already  *)
(* known", which a later call takes for a payment of its own.              *)
(***************************************************************************)

TaskStates == {"queued", "sending", "sent", "skipped", "err"}

FundTypeOK ==
    /\ call \in 1 .. Calls /\ idx \in Nat /\ next \in Nat
    /\ base \in [1 .. Calls -> Nat]
    /\ need \in Seq(Accounts)
    /\ todo \in [1 .. Calls -> Seq(Accounts)]
    /\ task \in [1 .. Calls -> Seq(TaskStates)]
    /\ \A c \in 1 .. Calls : Len(task[c]) = Len(todo[c])
    /\ pool \in [Nonces -> Accounts \cup {"none"}]
    /\ paid \in [Accounts -> Nat]

\* Calls that have not been made have no tasks.
FutureIdle == \A c \in 1 .. Calls : c > call => task[c] = <<>>

\* Before the tasks of the first call are spawned the node knows of no payment, and
\* every account read so far needs one.
Untouched ==
    /\ task[1] = <<>> /\ next = 0
    /\ \A n \in Nonces : pool[n] = "none"
    /\ \A a \in Accounts : paid[a] = 0
    /\ Len(need) = idx /\ idx <= Len(Recipients)
    /\ \A k \in 1 .. idx : need[k] = Recipients[k]

\* What the node knows of the payment of task k of the first call.
Slot(k) ==
    /\ task[1][k] # "skipped"
    /\ task[1][k] = "sent" /\ k - 1 < next => paid[Recipients[k]] > 0
    /\ task[1][k] = "sent" /\ k - 1 >= next => k - 1 \in Nonces /\ pool[k - 1] = Recipients[k]
    /\ task[1][k] # "sent" => k - 1 >= next /\ (k - 1 \in Nonces => pool[k - 1] = "none")

\* The tasks of the first call own their nonces, and nobody uses one beyond them.
OwnNonces ==
    /\ todo[1] = Recipients /\ need = Recipients /\ base[1] = 0
    /\ Len(task[1]) = Len(Recipients)
    /\ \A k \in 1 .. Len(Recipients) : Slot(k)
    /\ \A n \in Nonces : n >= Len(Recipients) => pool[n] = "none"

\* Handles are awaited in order, and the call goes on past those that were sent.
Sent ==
    /\ pc = "tasks" => idx <= Len(Recipients) /\ \A k \in 1 .. idx : task[1][k] = "sent"
    /\ pc \in {"watch", "ok"} => \A k \in 1 .. Len(Recipients) : task[1][k] = "sent"

FundInv ==
    /\ FundTypeOK
    /\ FutureIdle
    /\ call = 1 /\ pc \in {"balances", "nonce"} => Untouched
    /\ call = 1 /\ pc = "nonce" => base[1] = 0 /\ idx = Len(Recipients)
    /\ call = 1 /\ pc \in {"tasks", "watch", "ok"} => OwnNonces /\ Sent

-----------------------------------------------------------------------------
(* Types *)

\* The steps of the command that touch the funding.
Forget ==
    /\ pc' = "returned" /\ call' = call /\ need' = <<>> /\ idx' = 0 /\ next' = 0
    /\ todo' = [c \in 1 .. Calls |-> <<>>] /\ task' = [c \in 1 .. Calls |-> <<>>]
    /\ base' = [c \in 1 .. Calls |-> 0]
    /\ pool' = [n \in Nonces |-> "none"] /\ paid' = [a \in Accounts |-> 0]

Asks == ReadBalance \/ ReadNonce \/ Spawn \/ EarlyError
Awaits == AwaitTask \/ TasksDone \/ WatchPayment \/ Return \/ Drop
Tasks == \E c \in 1 .. Calls : \E k \in DOMAIN task[c] : Acquire(c, k) \/ Pay(c, k)

\* Every step of the command is one of these for the funding.
LEMMA FundingSteps ==
    ASSUME [Next]_vars
    PROVE  Asks \/ Awaits \/ Tasks \/ Mine \/ CallAgain \/ Forget \/ UNCHANGED fundVars
<1>1. CASE UNCHANGED vars
  BY <1>1, Zenon DEF vars
<1>2. CASE InitFund
  BY <1>2 DEF InitFund, Forget
<1>3. CASE InitRetry \/ InitFails \/ SetupDone \/ Prepare \/ BatchEnds \/ SpamFails \/ TrySend \/ Dump
  BY <1>3, Zenon DEF InitRetry, InitFails, SetupDone, Prepare, BatchEnds, SpamFails, TrySend, Dump
<1>4. CASE Backoff
  BY <1>4, Zenon DEF Backoff
<1>5. CASE Sweeper
  BY <1>5, Zenon DEF Sweeper, SweepTake, Sweep, SweepAgain, SweepExit
<1>6. CASE CtrlC
  BY <1>6, Zenon DEF CtrlC, Awaits
<1>7. CASE FundCaller
  BY <1>7, Zenon DEF FundCaller, Caller, Asks, Awaits
<1>8. CASE FundMine
  BY <1>8, Zenon DEF FundMine
<1>9. CASE \E n \in Attempts : FcuExit(n)
  BY <1>9, Zenon DEF FcuExit
<1>10. CASE \E n \in Attempts, k \in DOMAIN Recipients : FundTask(n, k)
  BY <1>10, Zenon DEF FundTask, Task, Tasks, Attempts
<1> QED
  BY <1>1, <1>2, <1>3, <1>4, <1>5, <1>6, <1>7, <1>8, <1>9, <1>10, Zenon DEF Next, Command

LEMMA AnswerType == \A n : Answer(n) \in {"err", "skipped", "sent"}
BY DEF Answer

LEMMA FundTypeStep ==
    ASSUME FundTypeOK, FutureIdle,
           Asks \/ Awaits \/ Tasks \/ Mine \/ CallAgain \/ Forget \/ UNCHANGED fundVars
    PROVE  FundTypeOK' /\ FutureIdle'
<1> USE FundingAssumption
<1>1. CASE ReadBalance
  <2>1. Recipients[idx + 1] \in Accounts
    BY <1>1 DEF ReadBalance, FundTypeOK
  <2>2. need' \in Seq(Accounts)
    BY <1>1, <2>1 DEF ReadBalance, FundTypeOK
  <2>3. idx' \in Nat
    BY <1>1 DEF ReadBalance, FundTypeOK
  <2> QED
    BY <1>1, <2>2, <2>3, Zenon DEF ReadBalance, FundTypeOK, FutureIdle
<1>2. CASE ReadNonce
  BY <1>2, Zenon DEF ReadNonce, FundTypeOK, FutureIdle
<1>3. CASE Spawn
  <2>1. Len(need) \in Nat /\ [k \in 1 .. Len(need) |-> "queued"] \in Seq(TaskStates)
    BY DEF FundTypeOK, TaskStates
  <2>2. todo' \in [1 .. Calls -> Seq(Accounts)] /\ task' \in [1 .. Calls -> Seq(TaskStates)]
    BY <1>3, <2>1 DEF Spawn, FundTypeOK
  <2>3. \A c \in 1 .. Calls : c # call => task'[c] = task[c]
    BY <1>3 DEF Spawn, FundTypeOK
  <2>4. FutureIdle'
    BY <1>3, <2>3 DEF Spawn, FundTypeOK, FutureIdle
  <2>5. Len(task'[call]) = Len(need) /\ todo'[call] = need /\ call \in 1 .. Calls
    BY <1>3, <2>1 DEF Spawn, FundTypeOK
  <2>6. \A c \in 1 .. Calls : c # call => todo'[c] = todo[c]
    BY <1>3 DEF Spawn, FundTypeOK
  <2>7. \A c \in 1 .. Calls : Len(task'[c]) = Len(todo'[c])
    BY <2>3, <2>5, <2>6, Zenon DEF FundTypeOK
  <2> QED
    BY <1>3, <2>2, <2>4, <2>7, Zenon DEF Spawn, FundTypeOK
<1>4. CASE EarlyError \/ Return \/ Drop \/ UNCHANGED fundVars
  BY <1>4, Zenon DEF EarlyError, Return, Drop, FundTypeOK, FutureIdle, fundVars
<1>5. CASE AwaitTask \/ TasksDone \/ WatchPayment
  <2>1. idx' \in Nat
    BY <1>5 DEF AwaitTask, TasksDone, WatchPayment, FundTypeOK
  <2> QED
    BY <1>5, <2>1, Zenon DEF AwaitTask, TasksDone, WatchPayment, FundTypeOK, FutureIdle
<1>6. CASE Tasks
  <2>1. PICK c \in 1 .. Calls : \E k \in DOMAIN task[c] : Acquire(c, k) \/ Pay(c, k)
    BY <1>6, Zenon DEF Tasks
  <2>2. PICK k \in DOMAIN task[c] : Acquire(c, k) \/ Pay(c, k)
    BY <2>1, Zenon
  <2>3. PICK v \in TaskStates : task' = [task EXCEPT ![c][k] = v]
    BY <2>2, AnswerType DEF Acquire, Pay, TaskStates
  <2>4. task' \in [1 .. Calls -> Seq(TaskStates)]
    <3>1. task[c] \in Seq(TaskStates) /\ task \in [1 .. Calls -> Seq(TaskStates)]
      BY Zenon DEF FundTypeOK
    <3>2. [task[c] EXCEPT ![k] = v] \in Seq(TaskStates)
      BY <2>2, <3>1
    <3>3. task' = [task EXCEPT ![c] = [task[c] EXCEPT ![k] = v]]
      BY <2>3, Zenon
    <3> QED
      BY <3>1, <3>2, <3>3, Zenon
  <2>5. \A d \in 1 .. Calls : task[d] = <<>> => task'[d] = <<>>
    <3> SUFFICES ASSUME NEW d \in 1 .. Calls, task[d] = <<>> PROVE task'[d] = task[d]
      BY Zenon
    <3>1. d # c
      BY <2>2
    <3> QED
      BY <2>3, <3>1 DEF FundTypeOK
  <2>6. pool' \in [Nonces -> Accounts \cup {"none"}]
    <3>1. todo[c] \in Seq(Accounts) /\ Len(task[c]) = Len(todo[c]) /\ task[c] \in Seq(TaskStates)
      BY Zenon DEF FundTypeOK
    <3>2. todo[c][k] \in Accounts
      BY <3>1, <2>2
    <3> QED
      BY <2>2, <3>2, Zenon DEF FundTypeOK, Acquire, Pay
  <2>7. \A d \in 1 .. Calls : Len(task'[d]) = Len(task[d])
    BY <2>2, <2>3 DEF FundTypeOK
  <2>8. UNCHANGED <<call, need, idx, base, todo, next, paid>>
    BY <2>2, Zenon DEF Acquire, Pay
  <2> QED
    BY <2>4, <2>5, <2>6, <2>7, <2>8, Zenon DEF FundTypeOK, FutureIdle
<1>7. CASE Mine
  <2>1. pool[next] \in Accounts
    BY <1>7, Zenon DEF Mine, FundTypeOK
  <2>2. paid' \in [Accounts -> Nat]
    <3>1. paid \in [Accounts -> Nat] /\ paid[pool[next]] + 1 \in Nat
      BY <2>1 DEF FundTypeOK
    <3> QED
      BY <1>7, <3>1, Zenon DEF Mine
  <2>3. pool' \in [Nonces -> Accounts \cup {"none"}]
    BY <1>7, Zenon DEF Mine, FundTypeOK
  <2>4. next' \in Nat
    BY <1>7 DEF Mine, FundTypeOK
  <2> QED
    BY <1>7, <2>2, <2>3, <2>4, Zenon DEF Mine, FundTypeOK, FutureIdle
<1>8. CASE CallAgain
  <2>1. call' \in 1 .. Calls /\ \A c \in 1 .. Calls : c > call' => c > call
    BY <1>8 DEF CallAgain, FundTypeOK
  <2>2. need' \in Seq(Accounts) /\ idx' \in Nat
    BY <1>8 DEF CallAgain
  <2> QED
    BY <1>8, <2>1, <2>2, Zenon DEF CallAgain, FundTypeOK, FutureIdle
<1>9. CASE Forget
  <2>1. task' \in [1 .. Calls -> Seq(TaskStates)] /\ todo' \in [1 .. Calls -> Seq(Accounts)] /\ need' \in Seq(Accounts)
    BY <1>9 DEF Forget
  <2> QED
    BY <1>9, <2>1 DEF Forget, FundTypeOK, FutureIdle
<1> QED
  BY <1>1, <1>2, <1>3, <1>4, <1>5, <1>6, <1>7, <1>8, <1>9, Zenon DEF Asks, Awaits

-----------------------------------------------------------------------------
(* The first call *)

\* While balances are read every account turns out to need a payment, and the nonce
\* is that of a payer who has not paid yet: find_insufficient_balances and
\* get_transaction_count come before the tasks.
LEMMA AsksFirst ==
    ASSUME FundInv, Asks, call = 1
    PROVE  /\ pc' \in {"balances", "nonce"} => Untouched'
           /\ pc' = "nonce" => base'[1] = 0 /\ idx' = Len(Recipients)
           /\ pc' \in {"tasks", "watch", "ok"} => (OwnNonces /\ Sent)'
<1> USE FundingAssumption
<1>0. FundTypeOK /\ 1 \in 1 .. Calls /\ Len(Recipients) \in Nat
  BY DEF FundInv
<1>1. pc \in {"balances", "nonce"} /\ Untouched
  BY Zenon DEF FundInv, Asks, ReadBalance, ReadNonce, Spawn, EarlyError
<1>2. CASE ReadBalance
  <2>1. idx + 1 \in 1 .. Len(Recipients) /\ Recipients[idx + 1] \in Accounts
    BY <1>0, <1>2 DEF ReadBalance, FundTypeOK
  <2>2. /\ need' = Append(need, Recipients[idx + 1]) /\ idx' = idx + 1
        /\ need \in Seq(Accounts) /\ idx \in Nat /\ Len(need) = idx
        /\ \A k \in 1 .. idx : need[k] = Recipients[k]
    BY <1>0, <1>1, <1>2, <2>1, Zenon DEF ReadBalance, Untouched, FundTypeOK
  <2>3. Len(need') = idx' /\ idx' <= Len(Recipients)
    BY <2>1, <2>2
  <2>4. \A k \in 1 .. idx' : need'[k] = Recipients[k]
    BY <2>1, <2>2
  <2>5. Untouched'
    BY <1>1, <1>2, <2>3, <2>4, Zenon DEF ReadBalance, Untouched
  <2> QED
    BY <1>2, <2>5 DEF ReadBalance
<1>3. CASE ReadNonce
  <2>1. Untouched'
    BY <1>1, <1>3, Zenon DEF ReadNonce, Untouched
  <2> QED
    BY <1>0, <1>1, <1>3, <2>1 DEF ReadNonce, Untouched, FundTypeOK
<1>4. CASE Spawn
  <2>1. Len(need) = Len(Recipients) /\ base[1] = 0 /\ need \in Seq(Accounts)
    BY <1>0, <1>1, <1>4, Zenon DEF FundInv, Spawn, Untouched, FundTypeOK
  <2>2. need = Recipients
    <3>1. \A k \in 1 .. Len(Recipients) : need[k] = Recipients[k]
      BY <1>1, <2>1, Zenon DEF Untouched
    <3> QED
      BY <1>0, <2>1, <3>1
  <2>3. todo'[1] = Recipients /\ task'[1] = [k \in 1 .. Len(Recipients) |-> "queued"]
    BY <1>0, <1>4, <2>2 DEF Spawn, FundTypeOK
  <2>4. Len(task'[1]) = Len(Recipients) /\ \A k \in 1 .. Len(Recipients) : task'[1][k] = "queued"
    BY <1>0, <2>3
  <2>5. next' = 0 /\ pool' = pool /\ paid' = paid /\ base' = base /\ need' = need /\ idx' = 0 /\ pc' = "tasks"
    BY <1>1, <1>4, Zenon DEF Spawn, Untouched
  <2>6. \A k \in 1 .. Len(Recipients) : Slot(k)'
    BY <1>0, <1>1, <2>4, <2>5 DEF Slot, Untouched
  <2>7. OwnNonces'
    BY <1>1, <2>1, <2>2, <2>3, <2>4, <2>5, <2>6, Zenon DEF OwnNonces, Untouched
  <2>8. Sent'
    BY <1>0, <2>5 DEF Sent
  <2> QED
    BY <2>5, <2>7, <2>8
<1>5. CASE EarlyError
  BY <1>5 DEF EarlyError
<1> QED
  BY <1>2, <1>3, <1>4, <1>5, Zenon DEF Asks

\* Awaiting handles and payments changes nothing at the node, and goes on only past
\* a task that has sent its payment.
LEMMA AwaitsFirst ==
    ASSUME FundInv, Awaits, call = 1
    PROVE  /\ pc' \notin {"balances", "nonce"}
           /\ pc' \in {"tasks", "watch", "ok"} => (OwnNonces /\ Sent)'
<1> USE FundingAssumption
<1>0. FundTypeOK /\ 1 \in 1 .. Calls /\ Len(Recipients) \in Nat
  BY DEF FundInv
<1>1. UNCHANGED <<need, base, todo, task, next, pool, paid>>
  BY Zenon DEF Awaits, AwaitTask, TasksDone, WatchPayment, Return, Drop
<1>2. pc' \notin {"balances", "nonce"}
  BY DEF Awaits, AwaitTask, TasksDone, WatchPayment, Return, Drop
<1>3. ASSUME pc \in {"tasks", "watch", "ok"} PROVE OwnNonces'
  <2>1. OwnNonces
    BY <1>3, Zenon DEF FundInv
  <2> QED
    BY <1>1, <2>1, Zenon DEF OwnNonces, Slot
<1>4. ASSUME pc \in {"tasks", "watch", "ok"} PROVE pc' \in {"tasks", "watch", "ok"} => Sent'
  <2>1. OwnNonces /\ Sent
    BY <1>4, Zenon DEF FundInv
  <2>2. CASE AwaitTask
    <3>1. idx < Len(Recipients) /\ idx + 1 \in 1 .. Len(Recipients) /\ idx \in Nat
      BY <1>0, <2>1, <2>2 DEF AwaitTask, OwnNonces, FundTypeOK
    <3>2. pc' # "err" => task[1][idx + 1] = "sent"
      BY <2>1, <2>2, <3>1, Zenon DEF AwaitTask, OwnNonces, Slot
    <3>3. \A k \in 1 .. idx + 1 : k \in 1 .. idx \/ k = idx + 1
      BY <3>1
    <3>4. pc' # "err" => \A k \in 1 .. idx + 1 : task[1][k] = "sent"
      BY <2>1, <2>2, <3>2, <3>3, Zenon DEF AwaitTask, Sent
    <3> QED
      BY <1>1, <2>2, <3>1, <3>4 DEF AwaitTask, Sent
  <2>3. CASE TasksDone
    BY <1>0, <1>1, <2>1, <2>3, Zenon DEF TasksDone, Sent, OwnNonces
  <2>4. CASE WatchPayment \/ Return \/ Drop
    BY <1>1, <2>1, <2>4, <1>4, Zenon DEF WatchPayment, Return, Drop, Sent
  <2> QED
    BY <2>2, <2>3, <2>4, Zenon DEF Awaits
<1>5. pc' \in {"tasks", "watch", "ok"} => pc \in {"tasks", "watch", "ok"}
  BY DEF Awaits, AwaitTask, TasksDone, WatchPayment, Return, Drop
<1> QED
  BY <1>2, <1>3, <1>4, <1>5, Zenon

\* A task of the first call that reaches the node finds its nonce unused, so that
\* the answer is never that the payment is already known.
LEMMA TasksFirst ==
    ASSUME FundInv, Tasks, call = 1
    PROVE  /\ pc' = pc /\ pc \notin {"balances", "nonce"}
           /\ pc \in {"tasks", "watch", "ok"} => (OwnNonces /\ Sent)'
<1> USE FundingAssumption
<1>0. FundTypeOK /\ 1 \in 1 .. Calls /\ Len(Recipients) \in Nat
  BY DEF FundInv
<1>1. PICK c \in 1 .. Calls : \E k \in DOMAIN task[c] : Acquire(c, k) \/ Pay(c, k)
  BY Zenon DEF Tasks
<1>2. PICK k \in DOMAIN task[c] : Acquire(c, k) \/ Pay(c, k)
  BY <1>1, Zenon
<1>3. c = 1
  <2>1. task[c] # <<>>
    BY <1>2
  <2>2. ~(c > call)
    BY <2>1, Zenon DEF FundInv, FutureIdle
  <2> QED
    BY <1>0, <2>2
<1>4. pc' = pc /\ UNCHANGED <<need, idx, base, todo, next, paid>>
  BY <1>2 DEF Acquire, Pay
<1>5. task[1] # <<>> /\ pc \notin {"balances", "nonce"}
  <2>1. task[1] # <<>>
    BY <1>2, <1>3
  <2> QED
    BY <2>1, Zenon DEF FundInv, Untouched
<1>6. ASSUME pc \in {"tasks", "watch", "ok"} PROVE (OwnNonces /\ Sent)'
  <2>1. OwnNonces /\ Sent
    BY <1>6, Zenon DEF FundInv
  <2>2. task[1] \in Seq(TaskStates) /\ Len(task[1]) = Len(Recipients)
    BY <1>0, <2>1, Zenon DEF FundTypeOK, OwnNonces
  <2>3. k \in 1 .. Len(Recipients)
    BY <1>2, <1>3, <2>2
  <2>4. task[1][k] # "sent" /\ k - 1 >= next /\ (k - 1 \in Nonces => pool[k - 1] = "none")
    <3>1. task[1][k] # "sent"
      BY <1>2, <1>3 DEF Acquire, Pay
    <3> QED
      BY <2>1, <2>3, <3>1, Zenon DEF OwnNonces, Slot
  <2>5. \/ task' = [task EXCEPT ![1][k] = "sending"] /\ pool' = pool
        \/ task' = [task EXCEPT ![1][k] = "err"] /\ pool' = pool
        \/ /\ k - 1 \in Nonces
           /\ task' = [task EXCEPT ![1][k] = "sent"] /\ pool' = [pool EXCEPT ![k - 1] = Recipients[k]]
    <3>1. CASE Acquire(c, k)
      BY <1>3, <3>1, Zenon DEF Acquire
    <3>2. CASE Pay(c, k)
      <4>1. Nonce(c, k) = k - 1
        BY <1>3, <2>1, <2>3 DEF Nonce, OwnNonces
      <4>2. k - 1 \in Nonces
        BY <3>2, <4>1, Zenon DEF Pay
      <4>3. Answer(k - 1) = "sent"
        BY <1>0, <2>3, <2>4, <4>2 DEF Answer, FundTypeOK
      <4> QED
        BY <1>3, <2>1, <3>2, <4>1, <4>2, <4>3, Zenon DEF Pay, OwnNonces
    <3> QED
      BY <1>2, <3>1, <3>2, Zenon
  <2>6. \A j \in 1 .. Len(Recipients) : j # k => task'[1][j] = task[1][j]
    <3>1. 1 \in DOMAIN task /\ DOMAIN task[1] = 1 .. Len(Recipients)
      BY <1>0, <2>2 DEF FundTypeOK
    <3>2. \A v : task' = [task EXCEPT ![1][k] = v] => \A j \in 1 .. Len(Recipients) : j # k => task'[1][j] = task[1][j]
      BY <3>1
    <3> QED
      BY <2>5, <3>2, Zenon
  <2>7. \A n \in Nonces : n # k - 1 => pool'[n] = pool[n]
    BY <1>0, <2>5 DEF FundTypeOK
  <2>8. Slot(k)'
    <3>1. CASE task'[1][k] \in {"sending", "err"} /\ pool' = pool
      BY <1>4, <2>4, <3>1, Zenon DEF Slot
    <3>2. CASE /\ k - 1 \in Nonces
               /\ task'[1][k] = "sent" /\ pool'[k - 1] = Recipients[k]
      <4>1. ~(k - 1 < next)
        BY <1>0, <2>3, <2>4 DEF FundTypeOK
      <4> QED
        BY <1>4, <3>2, <4>1, Zenon DEF Slot
    <3>3. \A v : task' = [task EXCEPT ![1][k] = v] => task'[1][k] = v
      BY <1>0, <2>2, <2>3 DEF FundTypeOK
    <3>4. k - 1 \in Nonces /\ pool' = [pool EXCEPT ![k - 1] = Recipients[k]] => pool'[k - 1] = Recipients[k]
      BY <1>0 DEF FundTypeOK
    <3> QED
      BY <2>5, <3>1, <3>2, <3>3, <3>4, Zenon
  <2>9. ASSUME NEW j \in 1 .. Len(Recipients), j # k PROVE Slot(j)'
    <3>1. j - 1 # k - 1
      BY <2>3, <2>9
    <3>2. task'[1][j] = task[1][j] /\ (j - 1 \in Nonces => pool'[j - 1] = pool[j - 1])
      BY <2>6, <2>7, <2>9, <3>1, Zenon
    <3> QED
      BY <1>4, <2>1, <3>2, Zenon DEF OwnNonces, Slot
  <2>10. \A n \in Nonces : n >= Len(Recipients) => n # k - 1
    BY <1>0, <2>3 DEF Nonces
  <2>11. Len(task'[1]) = Len(Recipients)
    <3>1. \A v : task' = [task EXCEPT ![1][k] = v] => task'[1] = [task[1] EXCEPT ![k] = v]
      BY <1>0 DEF FundTypeOK
    <3>2. task[1] \in Seq(TaskStates) /\ Len(task[1]) = Len(Recipients)
      BY <1>0, <2>2 DEF FundTypeOK
    <3>3. \A z \in Seq(TaskStates) : \A v : Len([z EXCEPT ![k] = v]) = Len(z)
      OBVIOUS
    <3>4. \A v : task' = [task EXCEPT ![1][k] = v] => Len(task'[1]) = Len(Recipients)
      BY <3>1, <3>2, <3>3
    <3> QED
      BY <2>5, <3>4, Zenon
  <2>12. OwnNonces'
    BY <1>4, <2>1, <2>7, <2>8, <2>9, <2>10, <2>11, Zenon DEF OwnNonces
  <2>13. \A j \in 1 .. Len(Recipients) : task[1][j] = "sent" => task'[1][j] = "sent"
    BY <2>4, <2>6, Zenon
  <2>14. idx <= Len(Recipients) => \A j \in 1 .. idx : j \in 1 .. Len(Recipients)
    BY <1>0 DEF FundTypeOK
  <2>15. Sent'
    BY <1>4, <2>1, <2>13, <2>14, Zenon DEF Sent
  <2> QED
    BY <2>12, <2>15, Zenon
<1> QED
  BY <1>4, <1>5, <1>6, Zenon

\* What the node mines while the first call runs is the payment of one of its tasks.
LEMMA MineFirst ==
    ASSUME FundInv, Mine, call = 1
    PROVE  /\ pc' = pc /\ pc \notin {"balances", "nonce"}
           /\ pc \in {"tasks", "watch", "ok"} => (OwnNonces /\ Sent)'
<1> USE FundingAssumption
<1>0. FundTypeOK /\ 1 \in 1 .. Calls /\ Len(Recipients) \in Nat
  BY DEF FundInv
<1>1. pc' = pc /\ UNCHANGED <<need, idx, base, todo, task>> /\ next \in Nonces /\ pool[next] # "none"
  BY Zenon DEF Mine
<1>2. pc \notin {"balances", "nonce"}
  BY <1>1, Zenon DEF FundInv, Untouched
<1>3. ASSUME pc \in {"tasks", "watch", "ok"} PROVE (OwnNonces /\ Sent)'
  <2>1. OwnNonces /\ Sent
    BY <1>3, Zenon DEF FundInv
  <2>2. next + 1 \in 1 .. Len(Recipients) /\ (next + 1) - 1 = next
    <3>1. ~(next >= Len(Recipients))
      BY <1>1, <2>1, Zenon DEF OwnNonces
    <3> QED
      BY <1>0, <3>1 DEF FundTypeOK
  <2>3. task[1][next + 1] = "sent" /\ pool[next] = Recipients[next + 1]
    <3>1. next >= next
      BY <1>0 DEF FundTypeOK
    <3> QED
      BY <1>1, <2>1, <2>2, <3>1 DEF OwnNonces, Slot
  <2>4. Recipients[next + 1] \in Accounts
    BY <2>2
  <2>5. /\ \A a \in Accounts : paid[a] > 0 => paid'[a] > 0
        /\ paid'[Recipients[next + 1]] > 0
    <3>1. paid \in [Accounts -> Nat] /\ paid' = [paid EXCEPT ![Recipients[next + 1]] = @ + 1]
      BY <1>0, <2>3, Zenon DEF Mine, FundTypeOK
    <3> QED
      BY <2>4, <3>1
  <2>6. next' = next + 1 /\ \A n \in Nonces : (n # next => pool'[n] = pool[n]) /\ (n = next => pool'[n] = "none")
    BY <1>0 DEF Mine, FundTypeOK
  <2>7. ASSUME NEW k \in 1 .. Len(Recipients) PROVE Slot(k)'
    <3>0. Recipients[k] \in Accounts
      OBVIOUS
    <3>1. Slot(k) /\ Recipients[k] \in Accounts /\ task'[1][k] = task[1][k]
      BY <1>1, <2>1, <3>0, Zenon DEF OwnNonces
    <3>2. CASE k = next + 1
      <4>1. k - 1 < next' /\ ~(k - 1 >= next')
        BY <1>0, <2>6, <3>2 DEF FundTypeOK
      <4> QED
        BY <2>3, <2>5, <3>1, <3>2, <4>1, Zenon DEF Slot
    <3>3. CASE k # next + 1
      <4>1. /\ k - 1 # next
            /\ (k - 1 < next') <=> (k - 1 < next)
            /\ (k - 1 >= next') <=> (k - 1 >= next)
        BY <1>0, <2>6, <3>3 DEF FundTypeOK
      <4>2. k - 1 \in Nonces => pool'[k - 1] = pool[k - 1]
        BY <2>6, <4>1, Zenon
      <4> QED
        BY <2>5, <3>1, <4>1, <4>2, Zenon DEF Slot
    <3> QED
      BY <3>2, <3>3, Zenon
  <2>8. \A n \in Nonces : pool[n] = "none" => pool'[n] = "none"
    BY <2>6, Zenon
  <2>9. OwnNonces'
    BY <1>1, <2>1, <2>7, <2>8, Zenon DEF OwnNonces
  <2> QED
    BY <1>1, <2>1, <2>9, Zenon DEF Sent
<1> QED
  BY <1>1, <1>2, <1>3, Zenon

LEMMA FundInvStep == FundInv /\ [Next]_vars => FundInv'
<1> SUFFICES ASSUME FundInv, [Next]_vars PROVE FundInv'
  BY Zenon
<1>1. Asks \/ Awaits \/ Tasks \/ Mine \/ CallAgain \/ Forget \/ UNCHANGED fundVars
  BY FundingSteps, Zenon
<1>2. FundTypeOK' /\ FutureIdle'
  BY <1>1, FundTypeStep, Zenon DEF FundInv
<1> SUFFICES ASSUME call' = 1
             PROVE  /\ pc' \in {"balances", "nonce"} => Untouched'
                    /\ pc' = "nonce" => base'[1] = 0 /\ idx' = Len(Recipients)
                    /\ pc' \in {"tasks", "watch", "ok"} => (OwnNonces /\ Sent)'
  BY <1>2, Zenon DEF FundInv
<1>3. CASE UNCHANGED fundVars
  BY <1>3, Zenon DEF FundInv, fundVars, Untouched, OwnNonces, Slot, Sent
<1>4. CASE Forget
  BY <1>4 DEF Forget
<1>5. CASE CallAgain
  <2>1. call' # 1
    BY <1>5 DEF CallAgain, FundInv, FundTypeOK
  <2> QED
    BY <2>1
<1>6. ASSUME Asks \/ Awaits \/ Tasks \/ Mine PROVE call = 1
  BY <1>6, Zenon DEF Asks, ReadBalance, ReadNonce, Spawn, EarlyError, Awaits, AwaitTask, TasksDone,
     WatchPayment, Return, Drop, Tasks, Acquire, Pay, Mine
<1>7. CASE Asks
  BY <1>6, <1>7, AsksFirst, Zenon
<1>8. CASE Awaits
  BY <1>6, <1>8, AwaitsFirst
<1>9. CASE Tasks
  BY <1>6, <1>9, TasksFirst
<1>10. CASE Mine
  BY <1>6, <1>10, MineFirst
<1> QED
  BY <1>1, <1>3, <1>4, <1>5, <1>7, <1>8, <1>9, <1>10, Zenon

LEMMA FundInvInit == CliInit => FundInv
<1> SUFFICES ASSUME CliInit PROVE FundInv
  BY Zenon
<1> USE FundingAssumption
<1>1. call = 1 /\ pc = "balances" /\ need = <<>> /\ idx = 0 /\ next = 0
  BY Zenon DEF CliInit, Init
<1>2. /\ base \in [1 .. Calls -> Nat] /\ todo \in [1 .. Calls -> Seq(Accounts)]
      /\ task \in [1 .. Calls -> Seq(TaskStates)] /\ need \in Seq(Accounts)
      /\ pool \in [Nonces -> Accounts \cup {"none"}] /\ paid \in [Accounts -> Nat]
  BY DEF CliInit, Init
<1>3. /\ \A c \in 1 .. Calls : task[c] = <<>> /\ Len(task[c]) = Len(todo[c])
      /\ \A n \in Nonces : pool[n] = "none"
      /\ \A a \in Accounts : paid[a] = 0
  BY DEF CliInit, Init
<1>4. 1 \in 1 .. Calls /\ Len(Recipients) \in Nat /\ Len(need) = 0
  BY <1>1
<1>5. FundTypeOK
  BY <1>1, <1>2, <1>3, <1>4, Zenon DEF FundTypeOK
<1>6. Untouched
  BY <1>1, <1>3, <1>4 DEF Untouched
<1> QED
  BY <1>1, <1>3, <1>5, <1>6 DEF FundInv, FutureIdle

LEMMA Covered == FundInv => OkMeansCovered
<1> USE FundingAssumption
<1> SUFFICES ASSUME FundInv, call = 1, pc = "ok", NEW r \in Accounts, ~(paid[r] > 0)
             PROVE  \E n \in Nonces : pool[n] = r /\ \A m \in next .. n : pool[m] # "none"
  BY Zenon DEF OkMeansCovered
<1>1. OwnNonces /\ Sent /\ FundTypeOK /\ Len(Recipients) \in Nat
  BY DEF FundInv
<1>2. PICK k \in 1 .. Len(Recipients) : Recipients[k] = r
  BY DEF Accounts
<1>3. \A j \in 1 .. Len(Recipients) : task[1][j] = "sent" /\ Slot(j) /\ Recipients[j] # "none"
  <2>1. \A j \in 1 .. Len(Recipients) : Recipients[j] # "none"
    OBVIOUS
  <2> QED
    BY <1>1, <2>1 DEF Sent, OwnNonces
<1>4. ~(k - 1 < next)
  BY <1>2, <1>3, Zenon DEF Slot
<1>5. k - 1 >= next /\ next \in Nat
  BY <1>1, <1>4 DEF FundTypeOK
<1>6. k - 1 \in Nonces /\ pool[k - 1] = r
  BY <1>2, <1>3, <1>5, Zenon DEF Slot
<1>7. ASSUME NEW m \in next .. k - 1 PROVE pool[m] # "none"
  <2>1. m + 1 \in 1 .. Len(Recipients) /\ (m + 1) - 1 = m /\ m >= next
    BY <1>1, <1>5, <1>7
  <2>2. pool[(m + 1) - 1] = Recipients[m + 1]
    BY <1>3, <2>1 DEF Slot
  <2> QED
    BY <1>3, <2>1, <2>2
<1> QED
  BY <1>6, <1>7, Zenon

\* When the first call of fund_accounts returns Ok, every account has been paid or
\* has its payment in the node's pool with no missing nonce before it, although the
\* payments are sent by concurrent tasks in any order and any of them may fail.
THEOREM FundingCovers == Spec => []OkMeansCovered
<1>1. CliInit => FundInv
  BY FundInvInit
<1>2. FundInv /\ [Next]_vars => FundInv'
  BY FundInvStep
<1>3. FundInv => OkMeansCovered
  BY Covered
<1> QED
  BY <1>1, <1>2, <1>3, PTL DEF Spec

-----------------------------------------------------------------------------
(***************************************************************************)
(* spam_rpc's forkchoice loop and its on_batch_sent tasks never advance    *)
(* the chain together, for every configuration, number of triggers and set *)
(* of faults.                                                              *)
(*                                                                         *)
(* The loop waits for done_sending, and only execute_spammer's return sets *)
(* it; an on_batch_sent task is awaited before the next batch is prepared, *)
(* and outlives execute_spammer only when that fails or is dropped, after  *)
(* which nobody sets done_sending.                                         *)
(***************************************************************************)

\* Who advances the chain, and where spam_rpc is then.
ProducerInv ==
    /\ batchTask \in {"none", "advancing"}
    /\ batchTask = "advancing" => exec \in {"batchSent", "error"}
    /\ fcuLoop = "advancing" => doneSending
    /\ doneSending => batchTask = "none" /\ phase \in {"awaitFcu", "metrics", "returned"}

\* An on_batch_sent task is awaited before execute_spammer goes on.
LEMMA ExecuteWaits ==
  ASSUME ProducerInv, ExecuteSpammer
  PROVE  ProducerInv'
<1>1. batchTask' = batchTask /\ fcuLoop' = fcuLoop /\ doneSending' = doneSending /\ phase' = phase
  BY Zenon DEF ExecuteSpammer, flags
<1>2. exec = "batchSent" => batchTask = "none"
  <2>1. CASE Trigger BY <2>1, Zenon DEF Trigger
  <2>2. CASE PrepareBatch BY <2>2, Zenon DEF PrepareBatch, PrepareAndSend, PrepareFails
  <2>3. CASE AwaitSend BY <2>3, Zenon DEF AwaitSend
  <2>4. CASE AwaitError BY <2>4, Zenon DEF AwaitError
  <2>5. CASE Collect /\ batchTask = "none" BY <2>5, Zenon
  <2> QED BY <2>1, <2>2, <2>3, <2>4, <2>5, Zenon DEF ExecuteSpammer
<1>3. exec = "error" => FALSE
  <2>1. CASE Trigger BY <2>1, Zenon DEF Trigger
  <2>2. CASE PrepareBatch BY <2>2, Zenon DEF PrepareBatch, PrepareAndSend, PrepareFails
  <2>3. CASE AwaitSend BY <2>3, Zenon DEF AwaitSend
  <2>4. CASE AwaitError BY <2>4, Zenon DEF AwaitError
  <2>5. CASE Collect BY <2>5, Zenon DEF Collect
  <2> QED BY <2>1, <2>2, <2>3, <2>4, <2>5, Zenon DEF ExecuteSpammer
<1> QED BY <1>1, <1>2, <1>3, Zenon DEF ProducerInv

\* Steps of the node and of the tasks of a batch leave spam_rpc where it is.
LEMMA TasksKeep ==
  ASSUME ProducerInv, OtherTask \/ \E i \in Positions : SendingTask(i)
  PROVE  ProducerInv'
<1>1. batchTask' = batchTask /\ fcuLoop' = fcuLoop /\ doneSending' = doneSending /\ phase' = phase
  BY Zenon DEF OtherTask, SendingTask, flags
<1>2. exec' = exec
  <2>1. CASE OtherTask BY <2>1, Zenon DEF OtherTask, Cancel, SendTxRetried
  <2>2. CASE \E i \in Positions : SendingTask(i)
    BY <2>2, Zenon DEF SendingTask, PayloadTask, SendTx, ReportTx, SendLost, SendBundle
  <2> QED BY <2>1, <2>2, Zenon
<1> QED BY <1>1, <1>2, Zenon DEF ProducerInv

LEMMA ProducerStep ==
  ASSUME ProducerInv, [RpcNext]_rpcVars
  PROVE  ProducerInv'
<1>1. CASE SpawnFcu
  BY <1>1, Zenon DEF SpawnFcu, ProducerInv, batchVars, flags
<1>2. CASE Generate
  BY <1>2, Zenon DEF Generate, Fails, RpcReturn, ProducerInv, batchVars, flags
<1>3. CASE ExecuteSpammer
  BY <1>3, ExecuteWaits
<1>4. CASE OnBatchSent
  BY <1>4, Zenon DEF OnBatchSent, TasksAwaited, ProducerInv, flags
<1>5. CASE ExecuteFails
  BY <1>5, Zenon DEF ExecuteFails, RpcReturn, ProducerInv, batchVars, flags
<1>6. CASE DoneSending
  BY <1>6, Zenon DEF DoneSending, ProducerInv, batchVars
<1>7. CASE AwaitFcu
  BY <1>7, Zenon DEF AwaitFcu, RpcReturn, ProducerInv, batchVars
<1>8. CASE Metrics
  BY <1>8, Zenon DEF Metrics, Fails, RpcReturn, ProducerInv, batchVars, flags
<1>9. CASE ExternalCancel
  BY <1>9, Zenon DEF ExternalCancel, RpcReturn, ProducerInv, flags
<1>10. CASE BatchTaskEnds
  BY <1>10, Zenon DEF BatchTaskEnds, ProducerInv, flags
<1>11. CASE FcuPoll
  BY <1>11, Zenon DEF FcuPoll, ProducerInv, batchVars, flags
<1>12. CASE FcuAdvanced
  BY <1>12, Zenon DEF FcuAdvanced, ProducerInv, batchVars
<1>13. CASE OtherTask \/ \E i \in Positions : SendingTask(i)
  BY <1>13, TasksKeep
<1>14. CASE UNCHANGED rpcVars
  BY <1>14, Zenon DEF rpcVars, ProducerInv, batchVars, flags
<1> QED
  BY <1>1, <1>2, <1>3, <1>4, <1>5, <1>6, <1>7, <1>8, <1>9, <1>10, <1>11, <1>12, <1>13, <1>14, Zenon
     DEF RpcNext, Main

\* The forkchoice loop of spam_rpc and an on_batch_sent task never advance the chain
\* at the same time, also after failures and external cancellations that leave both
\* behind.
THEOREM OneProducerHolds == RpcSpec => []OneProducer
<1>1. RpcInit => ProducerInv
  BY Zenon DEF RpcInit, RpcStart, ProducerInv
<1>2. ProducerInv => OneProducer
  BY Zenon DEF ProducerInv, OneProducer
<1> QED
  BY <1>1, <1>2, ProducerStep, PTL DEF RpcSpec
=============================================================================
