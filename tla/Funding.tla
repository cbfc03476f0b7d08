------------------------------ MODULE Funding ------------------------------
(***************************************************************************)
(* fund_accounts (crates/cli/src/util/utils.rs): the accounts below the    *)
(* minimum balance are paid by concurrent tasks from one account, each     *)
(* with a nonce fixed beforehand, and the payments are then awaited.  A    *)
(* call may fail or be dropped; a later one starts from what it left.      *)
(* SpamCli is the caller.                                                  *)
(***************************************************************************)
EXTENDS Integers, Sequences, FiniteSets

CONSTANTS
    Recipients, \* sequence of the accounts, in the order of their addresses
    Calls,      \* bound on consecutive calls: the attempts of the caller
    Permits,    \* FUNDING_CONCURRENCY_LIMIT
    MaxNonce    \* bound on the payer's nonces

Accounts == {Recipients[k] : k \in DOMAIN Recipients}

ASSUME FundingAssumption ==
    /\ Recipients \in Seq(Accounts) /\ "none" \notin Accounts
    /\ Calls \in Nat \ {0} /\ Permits \in Nat \ {0} /\ MaxNonce \in Nat

VARIABLES
    call,       \* the current call
    pc,         \* "balances", "nonce", "tasks", "watch", "ok", "err"
    need,       \* insufficient_balances, sorted by address
    idx,        \* balances read, handles or payments awaited
    base,       \* [calls -> admin_nonce]
    todo,       \* [calls -> accounts its tasks pay, in order]
    task,       \* [calls -> states of its tasks]
    next,       \* the payer's next nonce at the node
    pool,       \* [nonces -> recipient of the pending payment, or "none"]
    paid        \* [accounts -> payments mined]

fundVars == <<call, pc, need, idx, base, todo, task, next, pool, paid>>

Nonces == 0 .. MaxNonce

Init ==
    /\ call = 1 /\ pc = "balances" /\ need = <<>> /\ idx = 0
    /\ base = [c \in 1 .. Calls |-> 0]
    /\ todo = [c \in 1 .. Calls |-> <<>>]
    /\ task = [c \in 1 .. Calls |-> <<>>]
    /\ next = 0
    /\ pool = [n \in Nonces |-> "none"]
    /\ paid = [r \in Accounts |-> 0]

-----------------------------------------------------------------------------
(* The caller *)

\* find_insufficient_balances: one request for each address.
ReadBalance ==
    /\ pc = "balances"
    /\ idx < Len(Recipients)
    /\ idx' = idx + 1
    /\ need' = IF paid[Recipients[idx + 1]] = 0 THEN Append(need, Recipients[idx + 1]) ELSE need
    /\ UNCHANGED <<call, pc, base, todo, task, next, pool, paid>>

\* The nonce, once all balances are known.
ReadNonce ==
    /\ pc = "balances"
    /\ idx = Len(Recipients)
    /\ base' = [base EXCEPT ![call] = next]
    /\ pc' = "nonce"
    /\ UNCHANGED <<call, need, idx, todo, task, next, pool, paid>>

Spawn ==
    /\ pc = "nonce"
    /\ todo' = [todo EXCEPT ![call] = need]
    /\ task' = [task EXCEPT ![call] = [k \in 1 .. Len(need) |-> "queued"]]
    /\ idx' = 0
    /\ pc' = "tasks"
    /\ UNCHANGED <<call, need, base, next, pool, paid>>

\* The payer cannot pay for all, or a request failed.
EarlyError ==
    /\ pc \in {"balances", "nonce"}
    /\ pc' = "err"
    /\ UNCHANGED <<call, need, idx, base, todo, task, next, pool, paid>>

\* The handles are awaited in order; an error leaves the others running.
AwaitTask ==
    /\ pc = "tasks"
    /\ idx < Len(need)
    /\ task[call][idx + 1] \in {"sent", "skipped", "err"}
    /\ idx' = idx + 1
    /\ pc' = IF task[call][idx + 1] = "err" THEN "err" ELSE pc
    /\ UNCHANGED <<call, need, base, todo, task, next, pool, paid>>

TasksDone ==
    /\ pc = "tasks"
    /\ idx = Len(need)
    /\ idx' = 0
    /\ pc' = "watch"
    /\ UNCHANGED <<call, need, base, todo, task, next, pool, paid>>

\* The next payment the call itself has sent is mined, or times out.
WatchPayment ==
    /\ pc = "watch"
    /\ idx < Len(need)
    /\ \/ /\ task[call][idx + 1] = "skipped" \/ next > base[call] + idx
          /\ idx' = idx + 1
          /\ UNCHANGED pc
       \/ /\ task[call][idx + 1] = "sent" /\ next <= base[call] + idx
          /\ pc' = "err"
          /\ UNCHANGED idx
    /\ UNCHANGED <<call, need, base, todo, task, next, pool, paid>>

Return ==
    /\ pc = "watch"
    /\ idx = Len(need)
    /\ pc' = "ok"
    /\ UNCHANGED <<call, need, idx, base, todo, task, next, pool, paid>>

\* The future is dropped; its tasks go on.
Drop ==
    /\ pc' = IF pc = "ok" THEN "ok" ELSE "err"
    /\ UNCHANGED <<call, need, idx, base, todo, task, next, pool, paid>>

CallAgain ==
    /\ pc \in {"ok", "err", "returned"}
    /\ call < Calls
    /\ call' = call + 1
    /\ pc' = "balances"
    /\ need' = <<>>
    /\ idx' = 0
    /\ UNCHANGED <<base, todo, task, next, pool, paid>>

-----------------------------------------------------------------------------
(* A task *)

Sending(c) == {k \in DOMAIN task[c] : task[c][k] = "sending"}

Acquire(c, k) ==
    /\ task[c][k] = "queued"
    /\ Cardinality(Sending(c)) < Permits
    /\ task' = [task EXCEPT ![c][k] = "sending"]
    /\ UNCHANGED <<call, pc, need, idx, base, todo, next, pool, paid>>

\* What the node answers to a payment with nonce n.
Answer(n) ==
    IF n < next THEN "err"
    ELSE IF pool[n] # "none" THEN "skipped"
    ELSE "sent"

MutantNonce(c, k) == base[c]

Nonce(c, k) == base[c] + k - 1

Pay(c, k) ==
    LET n == Nonce(c, k) IN
    /\ task[c][k] = "sending"
    /\ n \in Nonces
    /\ \/ /\ task' = [task EXCEPT ![c][k] = Answer(n)]
          /\ pool' = IF Answer(n) = "sent" THEN [pool EXCEPT ![n] = todo[c][k]] ELSE pool
       \/ /\ task' = [task EXCEPT ![c][k] = "err"]          \* transport error
          /\ UNCHANGED pool
    /\ UNCHANGED <<call, pc, need, idx, base, todo, next, paid>>

Mine ==
    /\ next \in Nonces
    /\ pool[next] # "none"
    /\ paid' = [paid EXCEPT ![pool[next]] = @ + 1]
    /\ pool' = [pool EXCEPT ![next] = "none"]
    /\ next' = next + 1
    /\ UNCHANGED <<call, pc, need, idx, base, todo, task>>

-----------------------------------------------------------------------------

Caller == ReadBalance \/ ReadNonce \/ Spawn \/ AwaitTask \/ TasksDone \/ WatchPayment \/ Return

Task(c, k) == k \in DOMAIN task[c] /\ (Acquire(c, k) \/ Pay(c, k))

-----------------------------------------------------------------------------
(* Properties *)

\* When the first call returns Ok, every account is paid or has a payment in
\* the node's pool that no missing nonce holds back.  A later call may take a
\* payment to another account, which an earlier call left in the pool, for its
\* own.
OkMeansCovered ==
    call = 1 /\ pc = "ok" => \A r \in Accounts :
        \/ paid[r] > 0
        \/ \E n \in Nonces : pool[n] = r /\ \A m \in next .. n : pool[m] # "none"
=============================================================================
