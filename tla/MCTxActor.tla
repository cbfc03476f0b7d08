----------------------------- MODULE MCTxActor -----------------------------
(***************************************************************************)
(* TxActor for TLC, under four clients that each push one side of it to   *)
(* its limits.  The client is chosen at the start and never changes.       *)
(***************************************************************************)
EXTENDS TxActor

CONSTANTS t1, t2

Two == {t1, t2}

VARIABLE client

mcVars == <<vars, client>>

\* A client that never asks the actor anything, but restarts and cancels flush
\* loops at any moment, even while the previous one is still collecting; a
\* context it sets again starts at block 0.
Restarter ==
    \/ ActorStep
    \/ \E g \in Gens : FlushStep(g) \/ CancelFlush(g)
    \/ \E t \in Txs : CacheRunTx(t) \/ SendTx(t)
    \/ \E run \in Runs : InitCtx(run, startBlock)
    \/ RestartFlush
    \/ EnvStep

MCInit == Init /\ client \in {"asks", "restarts", "waits", "marks"}

\* One transaction, and no flashblocks.
Plain ==
    /\ cb'[t2] = "idle" /\ \A i \in DOMAIN api' : api'[i] # [op |-> "RemovedRunTx", tx |-> t2]
    /\ marks' = {} /\ \A p \in cache' : p.fb = 0

\* "asks" uses the whole API on one flush loop (on a shorter chain once it has
\* read a start block: "waits" has the longer one), "restarts" has two loops,
\* "waits" lets one loop work through a longer chain, and "marks" marks two
\* transactions while they come and go, without a flush loop at work.
MCNext ==
    /\ UNCHANGED client
    /\ \/ /\ client = "asks" /\ Next /\ gen' = 1 /\ Plain
          /\ head' <= (IF startBlock' = 0 THEN 2 ELSE 1)
       \/ client = "restarts" /\ Restarter /\ head' <= 2 /\ Plain
       \/ client = "waits" /\ (Restarter \/ ReadStartBlock) /\ gen' = 1 /\ Plain
       \/ client = "marks" /\ Next /\ UNCHANGED <<loopVars, head, ctx>>

MCSpec == MCInit /\ [][MCNext]_mcVars
=============================================================================
