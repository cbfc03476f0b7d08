------------------------------ MODULE SpamCli ------------------------------
(***************************************************************************)
(* The spam command (crates/cli/src/commands/spam.rs): init_scenario and   *)
(* its retries, each with a call of fund_accounts (Funding), spam_inner    *)
(* with its loop over spam_rpc, the collection of results, CTRL-C, and the *)
(* task that refills the spammer accounts.                                 *)
(***************************************************************************)
EXTENDS Funding

CONSTANTS
    Forever,    \* --forever
    Engine      \* an engine provider advances the chain

ASSUME CliAssumption == Forever \in BOOLEAN /\ Engine \in BOOLEAN

VARIABLES
    cmd,        \* where the command is
    fcu,        \* attempts whose forkchoice loop is alive
    doneFcu,    \* attempts whose done_fcu is set
    pressed,    \* CTRL-C was pressed
    heard,      \* a select was waiting for it
    signal,     \* messages in the channel to the funding task
    sweeper,    \* "none", "idle", "sweeping", "swept" or "gone"
    owed,       \* a batch has ended and no sweep started since
    level       \* [Accounts -> balance: 0 below min_balance, 1 within 25%, 2 above]

cliVars == <<cmd, fcu, doneFcu, pressed, heard, signal, sweeper, owed, level>>
vars == <<fundVars, cliVars>>

Over == {"done", "aborted", "err"}

CliInit ==
    /\ Init
    /\ cmd = "init"
    /\ fcu = {} /\ doneFcu = {}
    /\ pressed = FALSE /\ heard = FALSE
    /\ signal = 0 /\ sweeper = "none" /\ owed = FALSE
    /\ level = [a \in Accounts |-> 0]

-----------------------------------------------------------------------------
(* init_scenario and the attempts in spam() *)

FundCaller ==
    /\ cmd = "init"
    /\ Caller \/ EarlyError
    /\ UNCHANGED cliVars

\* Tasks go on when their call has failed or was dropped.
FundTask(c, k) == Task(c, k) /\ UNCHANGED cliVars

FundMine == Mine /\ UNCHANGED cliVars

\* The accounts are funded and the forkchoice loop is spawned.  From here on
\* only the balances matter: what is left of the payments is forgotten.
InitFund ==
    /\ cmd = "init" /\ pc = "ok"
    /\ cmd' = "setup" /\ pc' = "returned"
    /\ fcu' = IF Engine THEN fcu \cup {call} ELSE fcu
    /\ level' \in {l \in [Accounts -> 0 .. 2] : \A a \in Accounts : paid[a] > 0 => l[a] > 0}
    /\ todo' = [c \in 1 .. Calls |-> <<>>] /\ task' = todo' /\ need' = <<>> /\ idx' = 0
    /\ base' = [c \in 1 .. Calls |-> 0] /\ next' = 0 /\ pool' = [n \in Nonces |-> "none"]
    /\ paid' = [a \in Accounts |-> 0]
    /\ UNCHANGED <<call, doneFcu, pressed, heard, signal, sweeper, owed>>

\* Transport errors are the recoverable ones; past the funding the callee wraps
\* every error.
InitRetry ==
    /\ cmd = "init" /\ pc = "err"
    /\ cmd' = IF call < Calls THEN "backoff" ELSE "err"
    /\ UNCHANGED <<fundVars, fcu, doneFcu, pressed, heard, signal, sweeper, owed, level>>

\* The sleep is in the select's handler, where nothing waits for CTRL-C.
Backoff ==
    /\ cmd = "backoff"
    /\ cmd' = "init"
    /\ CallAgain
    /\ UNCHANGED <<fcu, doneFcu, pressed, heard, signal, sweeper, owed, level>>

InitFails ==
    /\ (cmd = "init" /\ pc = "err") \/ cmd = "setup"
    /\ cmd' = "err"
    /\ UNCHANGED <<fundVars, fcu, doneFcu, pressed, heard, signal, sweeper, owed, level>>

SetupDone ==
    /\ cmd = "setup"
    /\ cmd' = "prepare"
    /\ doneFcu' = doneFcu \cup {call}
    /\ UNCHANGED <<fundVars, fcu, pressed, heard, signal, sweeper, owed, level>>

FcuExit(n) ==
    /\ n \in fcu \cap doneFcu
    /\ fcu' = fcu \ {n}
    /\ UNCHANGED <<fundVars, cmd, doneFcu, pressed, heard, signal, sweeper, owed, level>>

-----------------------------------------------------------------------------
(* spam_inner *)

\* insert_run, init_ctx, the background tasks; or one of them fails.
Prepare ==
    /\ cmd = "prepare"
    /\ \/ cmd' = "spam" /\ sweeper' = IF Forever THEN "idle" ELSE "none"
       \/ cmd' = "err" /\ UNCHANGED sweeper
    /\ UNCHANGED <<fundVars, fcu, doneFcu, pressed, heard, signal, owed, level>>

Drained == {l \in [Accounts -> 0 .. 2] : \A a \in Accounts : l[a] <= level[a]}

\* spam_rpc returned, or CTRL-C shut the scenario down.
MutantBatchEnds ==
    /\ cmd = "spam"
    /\ level' \in Drained
    /\ cmd' = IF ~Forever THEN "dump" ELSE "gap"
    /\ UNCHANGED <<fundVars, fcu, doneFcu, pressed, heard, signal, sweeper, owed>>

BatchEnds ==
    /\ cmd = "spam"
    /\ level' \in Drained
    /\ cmd' = IF ~Forever \/ heard THEN "dump" ELSE "gap"
    /\ UNCHANGED <<fundVars, fcu, doneFcu, pressed, heard, signal, sweeper, owed>>

SpamFails ==
    /\ cmd = "spam"
    /\ ~heard
    /\ cmd' = "err"
    /\ UNCHANGED <<fundVars, fcu, doneFcu, pressed, heard, signal, sweeper, owed, level>>

\* try_send on a channel of capacity one: a second signal is dropped.
TrySend ==
    /\ cmd = "gap"
    /\ cmd' = "spam"
    /\ owed' = TRUE
    /\ signal' = 1
    /\ UNCHANGED <<fundVars, fcu, doneFcu, pressed, heard, sweeper, level>>

\* dump_tx_cache ended, then shutdown; the background tasks are cancelled.
Dump ==
    /\ cmd = "dump"
    /\ cmd' = "done"
    /\ UNCHANGED <<fundVars, fcu, doneFcu, pressed, heard, signal, sweeper, owed, level>>

-----------------------------------------------------------------------------
(* CTRL-C: a listener only hears what comes while it waits *)

Listening == cmd \in {"init", "setup", "spam", "dump"}

CtrlC ==
    /\ ~pressed
    /\ cmd \notin Over
    /\ pressed' = TRUE
    /\ heard' = Listening
    /\ cmd' = CASE cmd \in {"init", "setup"} -> "aborted"
               [] cmd = "dump" -> "done"
               [] OTHER -> cmd
    /\ IF cmd = "init" THEN Drop ELSE UNCHANGED fundVars
    /\ UNCHANGED <<fcu, doneFcu, signal, sweeper, owed, level>>

-----------------------------------------------------------------------------
(* spawn_balance_checked_funding_task *)

SweepTake ==
    /\ sweeper = "idle"
    /\ cmd \notin Over
    /\ signal = 1
    /\ signal' = 0
    /\ owed' = FALSE
    /\ sweeper' = "sweeping"
    /\ UNCHANGED <<fundVars, cmd, fcu, doneFcu, pressed, heard, level>>

BelowThreshold == {a \in Accounts : level[a] < 2}

\* fund_accounts, called when an account is below 125% of the minimum, pays the
\* accounts below the minimum; it adds the minimum, to whatever they hold.
Funded ==
    {l \in [Accounts -> 0 .. 2] : \A a \in Accounts :
        IF level[a] = 0 THEN l[a] > 0 ELSE l[a] = level[a]}

MutantSweep ==
    /\ sweeper = "sweeping"
    /\ \/ level' \in Funded /\ sweeper' = "swept"
       \/ sweeper' = "gone" /\ UNCHANGED level
    /\ UNCHANGED <<fundVars, cmd, fcu, doneFcu, pressed, heard, signal, owed>>

Sweep ==
    /\ sweeper = "sweeping"
    /\ \/ /\ level' \in (IF BelowThreshold = {} THEN {level} ELSE Funded)
          /\ sweeper' = "swept"
       \/ sweeper' = "idle" /\ UNCHANGED level      \* a check or a transfer failed
    /\ UNCHANGED <<fundVars, cmd, fcu, doneFcu, pressed, heard, signal, owed>>

SweepAgain ==
    /\ sweeper = "swept"
    /\ sweeper' = "idle"
    /\ UNCHANGED <<fundVars, cmd, fcu, doneFcu, pressed, heard, signal, owed, level>>

SweepExit ==
    /\ sweeper = "idle"
    /\ cmd \in Over
    /\ sweeper' = "gone"
    /\ UNCHANGED <<fundVars, cmd, fcu, doneFcu, pressed, heard, signal, owed, level>>

-----------------------------------------------------------------------------

Command == InitFund \/ InitRetry \/ Backoff \/ InitFails \/ SetupDone \/ Prepare
           \/ BatchEnds \/ SpamFails \/ TrySend \/ Dump

Sweeper == SweepTake \/ Sweep \/ SweepAgain \/ SweepExit

Attempts == 1 .. Calls

Next ==
    \/ Command \/ Sweeper \/ CtrlC \/ FundCaller \/ FundMine
    \/ \E n \in Attempts : FcuExit(n)
    \/ \E n \in Attempts, k \in DOMAIN Recipients : FundTask(n, k)

\* The command's task and the spawned ones are polled, and requests return.
Fairness ==
    /\ WF_vars(Command) /\ WF_vars(Sweeper) /\ WF_vars(FundCaller)
    /\ \A n \in Attempts, k \in DOMAIN Recipients : WF_vars(FundTask(n, k))

Spec == CliInit /\ [][Next]_vars /\ Fairness

-----------------------------------------------------------------------------
(* Properties *)

\* Every batch that ends while spamming goes on is followed by a sweep of the
\* balances that starts after it, although the channel holds one signal.
SweepFollows == owed ~> (~owed \/ cmd \in Over)

\* A CTRL-C that is heard ends the command, also under --forever.
HeardStops == heard ~> cmd \in Over
=============================================================================
