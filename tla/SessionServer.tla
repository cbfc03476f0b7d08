---------------------------- MODULE SessionServer ----------------------------
(***************************************************************************)
(* The session server: crates/cli/src/server/rpc_server/server.rs and      *)
(* crates/cli/src/server/sessions.rs.  Sessions live in a cache behind one *)
(* RwLock.  An action is one critical section of that lock, or what a      *)
(* spawned task does between two of them; initialization, spamming and     *)
(* funding run outside the lock with the contender taken out.              *)
(***************************************************************************)
EXTENDS Integers, FiniteSets

CONSTANTS
    Ids,           \* session ids, each used once: gen_id draws from 2^32
    Calls,         \* spam requests
    Forever,       \* the spam requests with run_forever
    NoCall

ASSUME SessionAssumption ==
    /\ Forever \subseteq Calls
    /\ NoCall \notin Calls

VARIABLES
    live,       \* sessions in the cache
    used,       \* sessions ever added
    status,     \* [Ids -> SessionStatus]
    contender,  \* [Ids -> SessionContender, "None" while taken out]
    token,      \* [Ids -> spam_cancel: the request whose token it is]
    initTask,   \* [Ids -> task spawned by add_session]
    fundTask,   \* [Ids -> task spawned by fund_accounts]
    pc,         \* [Calls -> progress of the request and of its task]
    target,     \* [Calls -> session of the request]
    cancelled,  \* requests whose token is cancelled
    topUp,      \* [Calls -> run_funding_loop of the request]
    signal,     \* requests with a message in their funding channel
    serial      \* clients await the answer to spam before they send another

sessVars == <<live, used, status, contender, token>>
fixed == <<target, serial>>
callVars == <<pc, fixed, cancelled, topUp, signal>>
taskVars == <<initTask, fundTask>>
vars == <<sessVars, callVars, taskVars>>

Start(sessions, await) ==
    /\ live = {} /\ used = {}
    /\ status = [s \in Ids |-> "Initializing"]
    /\ contender = [s \in Ids |-> "None"]
    /\ token = [s \in Ids |-> NoCall]
    /\ initTask = [s \in Ids |-> "none"]
    /\ fundTask = [s \in Ids |-> "none"]
    /\ pc = [c \in Calls |-> "idle"]
    /\ target = sessions
    /\ cancelled = {} /\ signal = {}
    /\ topUp = [c \in Calls |-> "none"]
    /\ serial = await

Init == \E sessions \in [Calls -> Ids], await \in BOOLEAN : Start(sessions, await)

-----------------------------------------------------------------------------
(* add_session and the task it spawns *)

AddSession(s) ==
    /\ s \notin used
    /\ live' = live \cup {s}
    /\ used' = used \cup {s}
    /\ contender' = [contender EXCEPT ![s] = "Uninit"]
    /\ initTask' = [initTask EXCEPT ![s] = "spawned"]
    /\ UNCHANGED <<status, token, fundTask, callVars>>

\* take_uninitialized; a removed session has nothing left to take.
InitTake(s) ==
    /\ initTask[s] = "spawned"
    /\ initTask' = [initTask EXCEPT ![s] = IF contender[s] = "Uninit" THEN "running" ELSE "none"]
    /\ contender' = [contender EXCEPT ![s] = "None"]
    /\ UNCHANGED <<live, used, status, token, fundTask, callVars>>

MutantKeepInitialized(s) == UNCHANGED contender

\* The contender returns to its session, or is dropped with a removed one.
PutInitialized(s) ==
    contender' = IF s \in live THEN [contender EXCEPT ![s] = "Init"] ELSE contender

SetStatus(s, st) ==
    status' = IF s \in live THEN [status EXCEPT ![s] = st] ELSE status

InitDone(s) ==
    /\ initTask[s] = "running"
    /\ initTask' = [initTask EXCEPT ![s] = "none"]
    /\ \/ PutInitialized(s) /\ SetStatus(s, "Ready")
       \/ UNCHANGED contender /\ SetStatus(s, "Failed")
    /\ UNCHANGED <<live, used, token, fundTask, callVars>>

-----------------------------------------------------------------------------
(* spam *)

\* error_if_session_not_ready, under a read lock that is then released.
SpamCheck(c) ==
    LET s == target[c] IN
    /\ pc[c] = "idle"
    /\ s \in used
    /\ serial => \A d \in Calls : ~(target[d] = s /\ pc[d] = "checked")
    /\ pc' = [pc EXCEPT ![c] = IF s \in live /\ status[s] = "Ready" THEN "checked" ELSE "rejected"]
    /\ UNCHANGED <<sessVars, fixed, cancelled, topUp, signal, taskVars>>

MutantTakeInitialized(s) == UNCHANGED contender

TakeInitialized(s) ==
    contender' = IF contender[s] = "Init" THEN [contender EXCEPT ![s] = "None"] ELSE contender

MutantSetToken(s, c) == UNCHANGED token

SetToken(s, c) == token' = IF s \in live THEN [token EXCEPT ![s] = c] ELSE token

\* Status and token are overwritten before the contender is asked for.
SpamTake(c) ==
    LET s == target[c] IN
    /\ pc[c] = "checked"
    /\ SetStatus(s, "Spamming")
    /\ SetToken(s, c)
    /\ TakeInitialized(s)
    /\ pc' = [pc EXCEPT ![c] = IF contender[s] = "Init" THEN "taken" ELSE "rejected"]
    /\ UNCHANGED <<live, used, fixed, cancelled, topUp, signal, taskVars>>

\* The funding loop of a run_forever request, then the spam task.
SpamStart(c) ==
    /\ pc[c] = "taken"
    /\ pc' = [pc EXCEPT ![c] = "running"]
    /\ topUp' = IF c \in Forever /\ target[c] \in live
                THEN [topUp EXCEPT ![c] = "wait"] ELSE topUp
    /\ UNCHANGED <<sessVars, fixed, cancelled, signal, taskVars>>

MutantEndsSpam(c) == c \notin Forever

EndsSpam(c) == c \notin Forever \/ c \in cancelled

\* Contender::spam returned without error: leave the loop, or signal the
\* funding loop and spam again.
SpamReturns(c) ==
    /\ pc[c] = "running"
    /\ IF EndsSpam(c)
       THEN pc' = [pc EXCEPT ![c] = "ok"] /\ UNCHANGED signal
       ELSE UNCHANGED pc /\ signal' = IF topUp[c] \in {"wait", "fund"} THEN signal \cup {c} ELSE signal
    /\ UNCHANGED <<sessVars, fixed, cancelled, topUp, taskVars>>

SpamErrs(c) ==
    /\ pc[c] = "running"
    /\ pc' = [pc EXCEPT ![c] = "err"]
    /\ UNCHANGED <<sessVars, fixed, cancelled, topUp, signal, taskVars>>

ClearToken(s) == SetToken(s, NoCall)

\* Cache cleared, nonces synced, then the session is updated under the lock.
SpamFinish(c) ==
    LET s == target[c] IN
    /\ pc[c] \in {"ok", "err"}
    /\ pc' = [pc EXCEPT ![c] = "done"]
    /\ PutInitialized(s)
    /\ ClearToken(s)
    /\ SetStatus(s, IF pc[c] = "ok" THEN "Ready" ELSE "Failed")
    /\ UNCHANGED <<live, used, fixed, cancelled, topUp, signal, taskVars>>

\* catch_unwind: the contender is lost.
SpamPanics(c) ==
    LET s == target[c] IN
    /\ pc[c] \in {"running", "ok", "err"}
    /\ pc' = [pc EXCEPT ![c] = "done"]
    /\ ClearToken(s)
    /\ SetStatus(s, "Failed")
    /\ UNCHANGED <<live, used, contender, fixed, cancelled, topUp, signal, taskVars>>

-----------------------------------------------------------------------------
(* run_funding_loop *)

TopUpWake(c) ==
    /\ topUp[c] = "wait"
    /\ c \in signal
    /\ signal' = signal \ {c}
    /\ topUp' = [topUp EXCEPT ![c] = "fund"]
    /\ UNCHANGED <<sessVars, pc, fixed, cancelled, taskVars>>

TopUpDone(c) ==
    /\ topUp[c] = "fund"
    /\ topUp' = [topUp EXCEPT ![c] = "wait"]
    /\ UNCHANGED <<sessVars, pc, fixed, cancelled, signal, taskVars>>

\* The token is cancelled, or the sender is gone and the channel empty.
TopUpExit(c) ==
    /\ topUp[c] = "wait"
    /\ c \in cancelled \/ (pc[c] = "done" /\ c \notin signal)
    /\ topUp' = [topUp EXCEPT ![c] = "done"]
    /\ UNCHANGED <<sessVars, pc, fixed, cancelled, signal, taskVars>>

-----------------------------------------------------------------------------
(* stop, remove_session, fund_accounts *)

CancelToken(s) == cancelled' = cancelled \cup ({token[s]} \ {NoCall})

Stop(s) ==
    /\ s \in live
    /\ token[s] # NoCall
    /\ CancelToken(s)
    /\ UNCHANGED <<sessVars, pc, fixed, topUp, signal, taskVars>>

RemoveToken(s) == CancelToken(s)

RemoveSession(s) ==
    /\ s \in live
    /\ RemoveToken(s)
    /\ live' = live \ {s}
    /\ contender' = [contender EXCEPT ![s] = "None"]
    /\ token' = [token EXCEPT ![s] = NoCall]
    /\ UNCHANGED <<used, status, pc, fixed, topUp, signal, taskVars>>

\* One funding task of a session at a time.
FundAccounts(s) ==
    /\ s \in live
    /\ status[s] \in {"Ready", "Spamming"}
    /\ fundTask[s] = "none"
    /\ fundTask' = [fundTask EXCEPT ![s] = "running"]
    /\ UNCHANGED <<sessVars, callVars, initTask>>

\* Only a failure touches the session, whatever it is doing by then.
FundDone(s) ==
    /\ fundTask[s] = "running"
    /\ fundTask' = [fundTask EXCEPT ![s] = "none"]
    /\ UNCHANGED status \/ SetStatus(s, "Failed")
    /\ UNCHANGED <<live, used, contender, token, callVars, initTask>>

-----------------------------------------------------------------------------

SpamTask(c) == SpamTake(c) \/ SpamStart(c) \/ SpamReturns(c) \/ SpamFinish(c)

TopUpTask(c) == TopUpWake(c) \/ TopUpDone(c) \/ TopUpExit(c)

ClientStep ==
    \/ \E s \in Ids : AddSession(s) \/ Stop(s) \/ RemoveSession(s) \/ FundAccounts(s)
    \/ \E c \in Calls : SpamCheck(c)

Next ==
    \/ ClientStep
    \/ \E s \in Ids : InitTake(s) \/ InitDone(s) \/ FundDone(s)
    \/ \E c \in Calls : SpamTask(c) \/ SpamErrs(c) \/ SpamPanics(c) \/ TopUpTask(c)

\* Spawned tasks run: Contender::spam returns once its token is cancelled.
Fairness ==
    /\ \A s \in Ids : WF_vars(InitTake(s)) /\ WF_vars(InitDone(s)) /\ WF_vars(FundDone(s))
    /\ \A c \in Calls : WF_vars(SpamTask(c)) /\ WF_vars(TopUpExit(c)) /\ WF_vars(TopUpDone(c))

Spec == Init /\ [][Next]_vars /\ Fairness

-----------------------------------------------------------------------------
(* Properties *)

Spams(c, s) == target[c] = s /\ pc[c] \in {"taken", "running", "ok", "err"}

\* A session's contender is in one place: in the cache, with the initializing
\* task, or with one spam task.  Two requests that both passed the check do
\* not spam with the same contender, and a task that returns to a session
\* removed meanwhile puts nothing back.
OneHolder ==
    \A s \in Ids :
        /\ s \notin live => contender[s] = "None" /\ token[s] = NoCall
        /\ LET cached == {h \in {"cache"} : contender[s] # "None"}
               init   == {h \in {"init"} : initTask[s] = "running"}
               spam   == {c \in Calls : Spams(c, s)}
           IN Cardinality(cached) + Cardinality(init) + Cardinality(spam) <= 1

\* A session that reports Ready can spam: its contender is in the cache,
\* initialized, whatever checks, takes, failures and panics came before.
ReadyIsUsable == \A s \in live : status[s] = "Ready" => contender[s] = "Init"

\* For clients that await the answer to spam, stop and remove_session reach the
\* request that is spamming: the session's token is that request's.  With
\* overlapping requests the one that does not get the contender overwrites it.
SerialStopReaches ==
    serial => \A s \in live, c \in Calls : Spams(c, s) => token[s] = c

\* A stopped request ends and so does its funding loop, under run_forever too.
\* After remove_session no task of the session is left, whichever critical
\* section of initialization or spam the removal came between, for the clients
\* of SerialStopReaches.
CancelEnds ==
    /\ \A c \in Calls : c \in cancelled ~> pc[c] \in {"done", "rejected"} /\ topUp[c] \in {"none", "done"}
    /\ \A s \in Ids : serial /\ s \in used \ live ~>
          initTask[s] = "none" /\ \A c \in Calls : ~Spams(c, s)
=============================================================================
