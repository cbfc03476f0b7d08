------------------------------- MODULE TxActor -------------------------------
(***************************************************************************)
(* The pending-transaction actor of crates/core/src/spammer/tx_actor.rs:   *)
(* the message handler that owns the cache of sent transactions, the       *)
(* flush loop that matches receipts against that cache and writes the run  *)
(* log, and the handle through which callbacks and drivers talk to both.   *)
(*                                                                         *)
(* One action is one message handled by TxActor::run, or one stretch of    *)
(* flush_loop between two awaits, or one call on TxActorHandle.  The chain *)
(* and the callbacks are the environment: blocks appear at any time,       *)
(* receipts, RPC calls and inserts fail as far as Faults allows.  The      *)
(* callers are as general as the API permits, drivers (SpamRuns, SpamCli)  *)
(* restrict them.                                                          *)
(***************************************************************************)
EXTENDS Integers, Sequences, FiniteSets

CONSTANTS
    Txs,             \* transaction hashes
    Runs,            \* run ids
    MaxBlock,        \* bound on the chain's height
    MaxGen,          \* bound on the flush loops spawned by one handle
    MaxMarks,        \* MAX_PENDING_FLASHBLOCK_MARKS
    FbIndices,       \* flashblock indices, from 1
    StaleBlockLimit, \* STALE_BLOCK_LIMIT
    ApiBuf,          \* capacity of the API channel (bufsize)
    CallbackToken,   \* flush loop whose token also cancels callbacks, 0: none
    Faults           \* faults the environment injects: a subset of FaultKinds

FaultKinds == {"db", "receipt"}  \* inserts fail, single receipts are not found

ASSUME ConstantsAssumption ==
    /\ IsFiniteSet(Txs)
    /\ Runs \subseteq Nat
    /\ MaxBlock \in Nat
    /\ MaxGen \in Nat \ {0}
    /\ MaxMarks \in Nat
    /\ FbIndices \subseteq Nat \ {0}
    /\ StaleBlockLimit \in Nat \ {0}
    /\ ApiBuf \in Nat \ {0}
    /\ CallbackToken \in 0..MaxGen
    /\ Faults \subseteq FaultKinds

VARIABLES
    \* the chain, and the callback task of each transaction
    head,       \* number of the latest block
    minedIn,    \* [Txs -> block that includes the transaction, 0: none]
    cb,         \* [Txs -> progress of its on_tx_sent task]
    \* TxActor
    status,     \* ActorStatus, or "Failed" once run() returned an error
    api,        \* queue of TxActorMessage
    stopSig,    \* a signal waits in the stop channel
    cache,      \* pending transactions
    marks,      \* pending_flashblock_marks
    ctx,        \* ActorContext
    flushRx,    \* flush loop whose channel is the actor's flush_receiver
    \* flush loops, numbered by restart
    gen,        \* latest flush loop spawned
    loop,       \* [Gens -> locals of flush_loop]
    fq,         \* [Gens -> queue of FlushRequest]
    reply,      \* [Gens -> oneshot answer not yet read: empty or a singleton]
    cancelled,  \* [Gens -> the loop's cancel_token is cancelled]
    \* the run log and the driver's outstanding request
    db,         \* rows of run_txs
    ask,        \* state of the driver's request to the actor
    answer,     \* cache length last answered to the driver
    startBlock, \* block number last read by the driver
    \* history
    dropped,    \* transactions discarded through clear_cache / remove_cached_tx
    excused     \* mined transactions whose block was scanned without them

chainVars == <<head, minedIn>>
actorVars == <<status, api, stopSig, cache, marks, ctx, flushRx>>
loopVars  == <<gen, loop, fq, reply, cancelled>>
askVars   == <<ask, answer, startBlock>>
histVars  == <<dropped, excused>>
vars == <<chainVars, cb, actorVars, loopVars, db, askVars, histVars>>

Blocks == 0..MaxBlock
Gens   == 1..MaxGen
Maximum(a, b) == IF a > b THEN a ELSE b

-----------------------------------------------------------------------------
(* Data *)

PendingRunTx == [tx : Txs, fb : FbIndices \cup {0}]  \* fb = 0: no flashblock
ActorContext == [some : BOOLEAN, run : Runs \cup {0}, target : Blocks, start : Blocks]
NoCtx == [some |-> FALSE, run |-> 0, target |-> 0, start |-> 0]

TxActorMessage ==
         [op : {"SentRunTx", "RemovedRunTx"}, tx : Txs]
    \cup [op : {"InitCtx"}, run : Runs \cup {0}, block : Blocks]
    \cup [op : {"DumpCache"}, run : Runs \cup {0}]
    \cup [op : {"GetCacheLen", "ClearCache"}]
    \cup [op : {"ReplaceFlushReceiver"}, gen : Gens]

FlushRequest ==
         [op : {"GetSnapshot"}]
    \cup [op : {"RemoveConfirmed"}, txs : SUBSET Txs, block : Blocks]

Snapshot == [snap : SUBSET PendingRunTx, ctx : ActorContext]

\* A row of run_txs.  by is the flush loop that wrote it, 0 for dump_cache;
\* again tells a second row of the same transaction and writer from the first.
RunTx == [tx : Txs, run : Runs \cup {0}, block : Blocks, fb : FbIndices \cup {0},
          by : 0..MaxGen, again : BOOLEAN]

LoopPc == {"NotSpawned", "Phase1", "Phase1Wait", "Tick", "Compare", "DrainWait",
           "SnapWait", "Scan", "Confirm", "RefreshWait", "Done"}

UsizeMax == -1   \* the initial last_pending_count: no snapshot has this length

FlushLocals ==
    [pc : LoopPc, target : Blocks, newBlock : Blocks, run : Runs \cup {0}, bn : Blocks,
     start : Blocks, snap : SUBSET PendingRunTx, confirmed : SUBSET Txs,
     stale : Nat, last : Nat \cup {UsizeMax}]

\* Locals at the top of the loop: what a range of blocks needs is out of scope.
TopLocals(pc, target, stale, last) ==
    [pc |-> pc, target |-> target, newBlock |-> 0, run |-> 0, bn |-> 0, start |-> 0,
     snap |-> {}, confirmed |-> {}, stale |-> stale, last |-> last]

FreshLoop(pc) == TopLocals(pc, 0, 0, UsizeMax)

AtTop(l, pc) == TopLocals(pc, l.target, l.stale, l.last)

Hashes(pending) == {p.tx : p \in pending}
Recorded(t) == \E r \in db : r.tx = t

TypeOK ==
    /\ head \in Blocks
    /\ minedIn \in [Txs -> Blocks]
    /\ cb \in [Txs -> {"idle", "sent", "queued", "acked", "cancelled", "failed"}]
    /\ status \in {"Running", "ShutDown", "Failed"}
    /\ api \in Seq(TxActorMessage)
    /\ stopSig \in BOOLEAN
    /\ cache \subseteq PendingRunTx
    /\ marks \subseteq PendingRunTx
    /\ ctx \in ActorContext
    /\ flushRx \in Gens
    /\ gen \in Gens
    /\ loop \in [Gens -> FlushLocals]
    /\ fq \in [Gens -> Seq(FlushRequest)]
    /\ reply \in [Gens -> SUBSET Snapshot]
    /\ cancelled \in [Gens -> BOOLEAN]
    /\ db \subseteq RunTx
    /\ ask \in {"none", "pending", "answered", "dropped", "failed"}
    /\ answer \in Nat
    /\ startBlock \in Blocks
    /\ dropped \subseteq Txs
    /\ excused \subseteq Txs

\* TxActorHandle::new: actor and first flush loop spawned, nothing sent yet.
Init ==
    /\ head = 0
    /\ minedIn = [t \in Txs |-> 0]
    /\ cb = [t \in Txs |-> "idle"]
    /\ status = "Running"
    /\ api = <<>>
    /\ stopSig = FALSE
    /\ cache = {}
    /\ marks = {}
    /\ ctx = NoCtx
    /\ flushRx = 1
    /\ gen = 1
    /\ loop = [g \in Gens |-> FreshLoop(IF g = 1 THEN "Phase1" ELSE "NotSpawned")]
    /\ fq = [g \in Gens |-> <<>>]
    /\ reply = [g \in Gens |-> {}]
    /\ cancelled = [g \in Gens |-> FALSE]
    /\ db = {}
    /\ ask = "none"
    /\ answer = 0
    /\ startBlock = 0
    /\ dropped = {}
    /\ excused = {}

-----------------------------------------------------------------------------
(* TxActor: one action per message handled by run() *)

\* run() returned: the actor is dropped with its cache, its queues and the
\* oneshot senders in them, so every outstanding request fails.
ActorGone(how) ==
    /\ status' = how
    /\ api' = <<>>
    /\ stopSig' = FALSE
    /\ cache' = {}
    /\ marks' = {}
    /\ ctx' = NoCtx
    /\ fq' = [g \in Gens |-> <<>>]
    /\ ask' = IF ask = "pending" THEN "failed" ELSE ask

Message(op) ==
    /\ status = "Running"
    /\ api # <<>>
    /\ Head(api).op = op

\* The handler answers on the message's oneshot; when the requester has
\* dropped its end the handler returns an error and run() terminates.
AnswerRequest(left) ==
    IF ask = "pending"
    THEN /\ ask' = "answered"
         /\ api' = Tail(api)
         /\ cache' = left
         /\ UNCHANGED <<status, stopSig, marks, ctx, fq>>
    ELSE ActorGone("Failed")

HandleGetCacheLen ==
    /\ Message("GetCacheLen")
    /\ answer' = Cardinality(Hashes(cache))
    /\ AnswerRequest(cache)
    /\ UNCHANGED <<chainVars, cb, flushRx, gen, loop, reply, cancelled, db, startBlock, histVars>>

HandleInitCtx ==
    /\ Message("InitCtx")
    /\ ctx' = [some |-> TRUE, run |-> Head(api).run, target |-> Head(api).block,
               start |-> Head(api).block]
    /\ api' = Tail(api)
    /\ UNCHANGED <<chainVars, cb, status, stopSig, cache, marks, flushRx, loopVars, db,
                   askVars, histVars>>

MutantBufferedMark(t) == {k \in marks : k.tx = t /\ status # "Running"}

\* A buffered flashblock mark is moved to the transaction it belongs to.
BufferedMark(t) == {k \in marks : k.tx = t}

HandleSentRunTx ==
    /\ Message("SentRunTx")
    /\ LET t == Head(api).tx IN
       IF cb[t] = "queued"
       THEN /\ \E fb \in FbIndices \cup {0} :
                 /\ IF BufferedMark(t) = {} THEN fb = 0 ELSE [tx |-> t, fb |-> fb] \in marks
                 /\ cache' = {p \in cache : p.tx # t} \cup {[tx |-> t, fb |-> fb]}
            /\ marks' = marks \ BufferedMark(t)
            /\ cb' = [cb EXCEPT ![t] = "acked"]
            /\ api' = Tail(api)
            /\ UNCHANGED <<status, stopSig, ctx, fq, ask>>
       ELSE ActorGone("Failed") /\ UNCHANGED cb
    /\ UNCHANGED <<chainVars, flushRx, gen, loop, reply, cancelled, db, answer, startBlock,
                   histVars>>

MutantRemovedRunTx ==
    /\ Message("RemovedRunTx")
    /\ LET t == Head(api).tx IN
       IF t \in Hashes(cache)
       THEN /\ AnswerRequest(cache)
            /\ dropped' = dropped \cup {t}
       ELSE ActorGone("Failed") /\ UNCHANGED dropped
    /\ UNCHANGED <<chainVars, cb, flushRx, gen, loop, reply, cancelled, db, answer, startBlock,
                   excused>>

HandleRemovedRunTx ==
    /\ Message("RemovedRunTx")
    /\ LET t == Head(api).tx IN
       IF t \in Hashes(cache)
       THEN /\ AnswerRequest({p \in cache : p.tx # t})
            /\ dropped' = dropped \cup {t}
       ELSE ActorGone("Failed") /\ UNCHANGED dropped
    /\ UNCHANGED <<chainVars, cb, flushRx, gen, loop, reply, cancelled, db, answer, startBlock,
                   excused>>

\* insert_run_txs: one transaction, all rows or none.
Rows(pending, run, block, by) ==
    {[tx |-> p.tx, run |-> run, block |-> block, fb |-> p.fb, by |-> by,
      again |-> \E r \in db : r.tx = p.tx /\ r.by = by] : p \in pending}

\* dump_cache: rows without block, then the cache is cleared.  A failing
\* insert terminates the actor; so does an answer nobody waits for, but then
\* the rows are already written.
HandleDumpCache ==
    /\ Message("DumpCache")
    /\ \/ /\ db' = db \cup Rows(cache, Head(api).run, 0, 0)
          /\ AnswerRequest({})
       \/ /\ "db" \in Faults
          /\ ActorGone("Failed")
          /\ UNCHANGED db
    /\ UNCHANGED <<chainVars, cb, flushRx, gen, loop, reply, cancelled, answer, startBlock,
                   histVars>>

HandleClearCache ==
    /\ Message("ClearCache")
    /\ AnswerRequest({})
    /\ dropped' = dropped \cup Hashes(cache)
    /\ UNCHANGED <<chainVars, cb, flushRx, gen, loop, reply, cancelled, db, answer, startBlock,
                   excused>>

\* The previous receiver is dropped with the requests still in it.
HandleReplaceFlushReceiver ==
    /\ Message("ReplaceFlushReceiver")
    /\ fq' = [g \in Gens |-> IF g < Head(api).gen THEN <<>> ELSE fq[g]]
    /\ flushRx' = Head(api).gen
    /\ api' = Tail(api)
    /\ UNCHANGED <<chainVars, cb, status, stopSig, cache, marks, ctx, gen, loop, reply,
                   cancelled, db, askVars, histVars>>

\* The stop channel is a branch of its own: the signal may overtake messages.
HandleStop ==
    /\ status = "Running"
    /\ stopSig
    /\ ActorGone("ShutDown")
    /\ UNCHANGED <<chainVars, cb, flushRx, gen, loop, reply, cancelled, db, answer, startBlock,
                   histVars>>

Request(op) ==
    /\ status = "Running"
    /\ fq[flushRx] # <<>>
    /\ Head(fq[flushRx]).op = op

HandleGetSnapshot ==
    /\ Request("GetSnapshot")
    /\ reply' = [reply EXCEPT ![flushRx] = {[snap |-> cache, ctx |-> ctx]}]
    /\ fq' = [fq EXCEPT ![flushRx] = Tail(@)]
    /\ UNCHANGED <<chainVars, cb, actorVars, gen, loop, cancelled, db, askVars, histVars>>

\* Drops the confirmed transactions and their marks, evicts marks that are
\* too old (any of them: time is abstracted) and moves the cursor forward.
HandleRemoveConfirmed ==
    /\ Request("RemoveConfirmed")
    /\ LET req == Head(fq[flushRx]) IN
       /\ cache' = {p \in cache : p.tx \notin req.txs}
       /\ \E young \in SUBSET marks : marks' = {k \in young : k.tx \notin req.txs}
       /\ ctx' = IF ctx.some /\ req.block > ctx.target
                 THEN [ctx EXCEPT !.target = req.block] ELSE ctx
    /\ fq' = [fq EXCEPT ![flushRx] = Tail(@)]
    /\ UNCHANGED <<chainVars, cb, status, api, stopSig, flushRx, gen, loop, reply, cancelled,
                   db, askVars, histVars>>

\* A mark for any hash arrives on the flashblock channel: the first one is
\* kept, on the cached transaction or, below the cap, in the buffer.
HandleFlashblockMark(t, fb) ==
    /\ status = "Running"
    /\ IF t \in Hashes(cache)
       THEN /\ cache' = {IF p.tx = t /\ p.fb = 0 THEN [p EXCEPT !.fb = fb] ELSE p : p \in cache}
            /\ UNCHANGED marks
       ELSE /\ marks' = IF Cardinality(marks) >= MaxMarks \/ BufferedMark(t) # {}
                        THEN marks ELSE marks \cup {[tx |-> t, fb |-> fb]}
            /\ UNCHANGED cache
    /\ UNCHANGED <<chainVars, cb, status, api, stopSig, ctx, flushRx, loopVars, db, askVars,
                   histVars>>

-----------------------------------------------------------------------------
(* flush_loop: one action per stretch between two awaits *)

\* The other end of loop g's channel is gone: sends fail, replies are dropped.
Closed(g) == status # "Running" \/ g < flushRx

ReplyDropped(g) == Closed(g) /\ reply[g] = {}

\* Loop g moves to l, without touching channel, actor or log.
Goto(g, l) ==
    /\ loop' = [loop EXCEPT ![g] = l]
    /\ UNCHANGED <<chainVars, cb, actorVars, gen, fq, cancelled, db, askVars, histVars>>

\* Loop g sends requests and moves to l, or to failed when the channel is closed.
\* Its 64 slots never fill, and requests sent back to back are queued as one.
SendRequests(g, reqs, l, failed) ==
    /\ loop' = [loop EXCEPT ![g] = IF Closed(g) THEN failed ELSE l]
    /\ fq' = IF Closed(g) THEN fq ELSE [fq EXCEPT ![g] = @ \o reqs]
    /\ UNCHANGED <<chainVars, cb, actorVars, gen, reply, cancelled, db, askVars, histVars>>

GetSnapshot == <<[op |-> "GetSnapshot"]>>

Phase1Poll(g) ==
    /\ loop[g].pc = "Phase1"
    /\ SendRequests(g, GetSnapshot, FreshLoop("Phase1Wait"), FreshLoop("Done"))

\* cancel_token is not consulted while waiting for a context.
Phase1Reply(g) ==
    /\ loop[g].pc = "Phase1Wait"
    /\ \/ \E r \in reply[g] :
            Goto(g, IF r.ctx.some THEN [FreshLoop("Tick") EXCEPT !.target = r.ctx.target]
                                  ELSE FreshLoop("Phase1"))
       \/ ReplyDropped(g) /\ Goto(g, FreshLoop("Done"))
    /\ reply' = [reply EXCEPT ![g] = {}]

\* get_block_number; an error only means another tick.
ReadBlockNumber(g) ==
    /\ loop[g].pc = "Tick"
    /\ Goto(g, [loop[g] EXCEPT !.pc = "Compare", !.newBlock = head])
    /\ UNCHANGED reply

CompareBlocks(g) ==
    /\ loop[g].pc = "Compare"
    /\ LET l == loop[g] IN
       IF l.target < l.newBlock
       THEN SendRequests(g, GetSnapshot, [l EXCEPT !.pc = "SnapWait"], FreshLoop("Done"))
       ELSE IF cancelled[g]
       THEN SendRequests(g, GetSnapshot, [l EXCEPT !.pc = "DrainWait"], FreshLoop("Done"))
       ELSE Goto(g, AtTop(l, "Tick")) /\ UNCHANGED reply

DrainReply(g) ==
    /\ loop[g].pc = "DrainWait"
    /\ \/ \E r \in reply[g] :
            Goto(g, IF r.snap = {} THEN FreshLoop("Done") ELSE AtTop(loop[g], "Tick"))
       \/ ReplyDropped(g) /\ Goto(g, AtTop(loop[g], "Tick"))
    /\ reply' = [reply EXCEPT ![g] = {}]

\* The context is refreshed with the snapshot; the run id used for the whole
\* range of blocks is the one read here.
SnapshotReply(g) ==
    /\ loop[g].pc = "SnapWait"
    /\ \/ \E r \in reply[g] :
            LET l == [loop[g] EXCEPT !.target = r.ctx.target] IN
            Goto(g, IF ~r.ctx.some THEN AtTop(loop[g], "Tick")
                    ELSE IF l.target >= l.newBlock THEN AtTop(l, "Tick")
                    ELSE IF cancelled[g] /\ r.snap = {} THEN FreshLoop("Done")
                    ELSE [l EXCEPT !.pc = "Scan", !.snap = r.snap, !.run = r.ctx.run,
                                   !.bn = l.target, !.start = l.target])
       \/ ReplyDropped(g) /\ Goto(g, FreshLoop("Done"))
    /\ reply' = [reply EXCEPT ![g] = {}]

MutantEndOfRange(g, l) == AtTop([l EXCEPT !.target = l.newBlock + 1], "Tick")

\* After the range: advance past it, and when sending is done count the
\* blocks over which the number of pending transactions did not change.
EndOfRange(g, l) ==
    LET moved    == [l EXCEPT !.target = Maximum(l.target, l.newBlock)]
        pending  == Cardinality(Hashes(l.snap))
        tracked  == IF pending = l.last
                    THEN [moved EXCEPT !.stale = @ + Maximum(l.newBlock - l.start, 1)]
                    ELSE [moved EXCEPT !.stale = 0, !.last = pending]
    IN IF ~cancelled[g] \/ l.snap = {} THEN AtTop(moved, "Tick")
       ELSE IF tracked.stale >= StaleBlockLimit THEN AtTop(tracked, "Done")
       ELSE AtTop(tracked, "Tick")

InRange(l, bn) == bn < l.newBlock

NextBlock(g, l) ==
    IF InRange(l, l.bn + 1)
    THEN [l EXCEPT !.pc = "Scan", !.bn = l.bn + 1, !.confirmed = {}]
    ELSE EndOfRange(g, l)

\* process_block_receipts: the pending transactions with a receipt in block bn.
\* An individual receipt that is not found when block receipts are unavailable
\* is left out.
BlockTxs(bn) == {t \in Txs : minedIn[t] = bn /\ bn # 0}

Receipts(bn) ==
    IF "receipt" \in Faults THEN SUBSET BlockTxs(bn) ELSE {BlockTxs(bn)}

MutantConfirmed(l, receipts) == {p \in l.snap : minedIn[p.tx] # 0}

Confirmed(l, receipts) == {p \in l.snap : p.tx \in receipts}

\* The rows are written before the actor is told to forget the transactions.
ScanBlock(g) ==
    /\ loop[g].pc = "Scan"
    /\ \E receipts \in Receipts(loop[g].bn) :
         LET l == loop[g]
             c == Confirmed(l, receipts)
         IN /\ db' = db \cup Rows(c, l.run, l.bn, g)
            /\ loop' = [loop EXCEPT ![g] = [l EXCEPT !.pc = "Confirm", !.confirmed = Hashes(c)]]
            /\ excused' = excused \cup (BlockTxs(l.bn) \ Hashes(c))
    /\ UNCHANGED <<chainVars, cb, actorVars, gen, fq, reply, cancelled, askVars, dropped>>

\* A failing insert is logged; the loop goes on with the next block.
ScanBlockFails(g) ==
    /\ "db" \in Faults
    /\ loop[g].pc = "Scan"
    /\ Hashes(loop[g].snap) \cap BlockTxs(loop[g].bn) # {}
    /\ loop' = [loop EXCEPT ![g] = NextBlock(g, @)]
    /\ excused' = excused \cup BlockTxs(loop[g].bn)
    /\ UNCHANGED <<chainVars, cb, actorVars, gen, fq, reply, cancelled, db, askVars, dropped>>

MutantRemoveAll(l) ==
    <<[op |-> "RemoveConfirmed", txs |-> Hashes(l.snap), block |-> l.bn + 1],
      [op |-> "GetSnapshot"]>>

MutantSkipAhead(l) ==
    <<[op |-> "RemoveConfirmed", txs |-> l.confirmed, block |-> l.newBlock],
      [op |-> "GetSnapshot"]>>

MutantRefreshOnly(l) == <<[op |-> "GetSnapshot"]>>

ConfirmRequests(l) ==
    <<[op |-> "RemoveConfirmed", txs |-> l.confirmed, block |-> l.bn + 1],
      [op |-> "GetSnapshot"]>>

ConfirmBlock(g) ==
    /\ loop[g].pc = "Confirm"
    /\ SendRequests(g, ConfirmRequests(loop[g]), [loop[g] EXCEPT !.pc = "RefreshWait"],
                    FreshLoop("Done"))

RefreshReply(g) ==
    /\ loop[g].pc = "RefreshWait"
    /\ \/ \E r \in reply[g] :
            LET l == [loop[g] EXCEPT !.snap = r.snap, !.target = r.ctx.target] IN
            Goto(g, IF ~r.ctx.some THEN EndOfRange(g, loop[g])
                    ELSE IF r.snap # {} THEN NextBlock(g, l)
                    ELSE IF cancelled[g] THEN FreshLoop("Done")
                    ELSE EndOfRange(g, l))
       \/ ReplyDropped(g) /\ Goto(g, EndOfRange(g, loop[g]))
    /\ reply' = [reply EXCEPT ![g] = {}]

FlushStep(g) ==
    \/ Phase1Poll(g) \/ Phase1Reply(g) \/ ReadBlockNumber(g) \/ CompareBlocks(g)
    \/ DrainReply(g) \/ SnapshotReply(g) \/ ScanBlock(g) \/ ScanBlockFails(g)
    \/ ConfirmBlock(g) \/ RefreshReply(g)

-----------------------------------------------------------------------------
(* TxActorHandle, the callbacks that use it, and the chain *)

Enqueue(m) ==
    /\ status = "Running"
    /\ Len(api) < ApiBuf
    /\ api' = Append(api, m)

\* The spammer broadcasts t and spawns its on_tx_sent task.
SendTx(t) ==
    /\ cb[t] = "idle"
    /\ cb' = [cb EXCEPT ![t] = "sent"]
    /\ UNCHANGED <<chainVars, actorVars, loopVars, db, askVars, histVars>>

\* cache_run_tx: the callback queues its message, then waits for the answer.
CacheRunTx(t) ==
    /\ cb[t] = "sent"
    /\ \/ /\ Enqueue([op |-> "SentRunTx", tx |-> t])
          /\ cb' = [cb EXCEPT ![t] = "queued"]
       \/ /\ status # "Running"
          /\ cb' = [cb EXCEPT ![t] = "failed"]
          /\ UNCHANGED api
    /\ UNCHANGED <<chainVars, status, stopSig, cache, marks, ctx, flushRx, loopVars, db,
                   askVars, histVars>>

\* LogCallback selects between its cancel token and the answer: cancelling
\* drops the oneshot receiver, not the queued message.
CancelCallback(t) ==
    /\ CallbackToken # 0
    /\ cancelled[CallbackToken]
    /\ cb[t] \in {"sent", "queued"}
    /\ cb' = [cb EXCEPT ![t] = "cancelled"]
    /\ UNCHANGED <<chainVars, actorVars, loopVars, db, askVars, histVars>>

InitCtx(run, block) ==
    /\ Enqueue([op |-> "InitCtx", run |-> run, block |-> block])
    /\ UNCHANGED <<chainVars, cb, status, stopSig, cache, marks, ctx, flushRx, loopVars, db,
                   askVars, histVars>>

\* dump_cache, done_flushing, clear_cache, remove_cached_tx: queue a message
\* with a oneshot and wait for it.
AskActor(m) ==
    /\ ask \notin {"pending", "dropped"}
    /\ \/ Enqueue(m) /\ ask' = "pending"
       \/ status # "Running" /\ ask' = "failed" /\ UNCHANGED api
    /\ UNCHANGED <<chainVars, cb, status, stopSig, cache, marks, ctx, flushRx, loopVars, db,
                   answer, startBlock, histVars>>

\* The driver's future is dropped while it waits for an answer.
DropRequest ==
    /\ ask = "pending"
    /\ ask' = "dropped"
    /\ UNCHANGED <<chainVars, cb, actorVars, loopVars, db, answer, startBlock, histVars>>

\* stop(), or every handle was dropped.
Stop ==
    /\ status = "Running"
    /\ stopSig' = TRUE
    /\ UNCHANGED <<chainVars, cb, status, api, cache, marks, ctx, flushRx, loopVars, db,
                   askVars, histVars>>

CancelFlush(g) ==
    /\ g <= gen
    /\ cancelled' = [cancelled EXCEPT ![g] = TRUE]
    /\ UNCHANGED <<chainVars, cb, actorVars, gen, loop, fq, reply, db, askVars, histVars>>

\* restart_flush: the new loop runs at once, before the actor takes over its
\* receiver.
RestartFlush ==
    /\ gen < MaxGen
    /\ Enqueue([op |-> "ReplaceFlushReceiver", gen |-> gen + 1])
    /\ gen' = gen + 1
    /\ loop' = [loop EXCEPT ![gen + 1] = FreshLoop("Phase1")]
    /\ UNCHANGED <<chainVars, cb, status, stopSig, cache, marks, ctx, flushRx, fq, reply,
                   cancelled, db, askVars, histVars>>

\* The driver asks the node for the current block before init_ctx.
ReadStartBlock ==
    /\ startBlock' = head
    /\ UNCHANGED <<chainVars, cb, actorVars, loopVars, db, ask, answer, histVars>>

\* A block with any of the transactions broadcast and not yet included.
MineBlock(included) ==
    /\ head < MaxBlock
    /\ \A t \in included : cb[t] # "idle" /\ minedIn[t] = 0
    /\ head' = head + 1
    /\ minedIn' = [t \in Txs |-> IF t \in included THEN head + 1 ELSE minedIn[t]]
    /\ UNCHANGED <<cb, actorVars, loopVars, db, askVars, histVars>>

ActorStep ==
    \/ HandleGetCacheLen \/ HandleInitCtx \/ HandleSentRunTx \/ HandleRemovedRunTx
    \/ HandleDumpCache \/ HandleClearCache \/ HandleReplaceFlushReceiver \/ HandleStop
    \/ HandleGetSnapshot \/ HandleRemoveConfirmed

CallbackStep(t) == CacheRunTx(t) \/ CancelCallback(t)

ClientStep ==
    \/ \E t \in Txs : SendTx(t) \/ AskActor([op |-> "RemovedRunTx", tx |-> t])
    \/ ReadStartBlock
    \/ \E run \in Runs :
          InitCtx(run, startBlock) \/ AskActor([op |-> "DumpCache", run |-> run])
    \/ AskActor([op |-> "GetCacheLen"])
    \/ AskActor([op |-> "ClearCache"])
    \/ DropRequest
    \/ Stop
    \/ RestartFlush
    \/ \E g \in Gens : CancelFlush(g)

EnvStep ==
    \/ \E included \in SUBSET Txs : MineBlock(included)
    \/ \E t \in Txs, fb \in FbIndices : HandleFlashblockMark(t, fb)

Next ==
    \/ ActorStep
    \/ \E g \in Gens : FlushStep(g)
    \/ \E t \in Txs : CallbackStep(t)
    \/ ClientStep
    \/ EnvStep

Spec == Init /\ [][Next]_vars

-----------------------------------------------------------------------------
(* Properties *)

\* While the actor lives, a transaction whose callback was answered is pending
\* in the cache, has a row in the log, or was discarded by an explicit
\* clear_cache / remove_cached_tx: the flush loop may tell the actor to forget
\* only what it has already written.
Accounted ==
    status = "Running" =>
        \A t \in Txs : cb[t] = "acked" =>
            t \in Hashes(cache) \/ Recorded(t) \/ t \in dropped

\* A row with a block number names the block that really includes the
\* transaction, whichever snapshot and range the loop was working on, and no flush
\* loop writes a transaction twice: a block whose rows were inserted is not scanned
\* again by the same loop with a snapshot that still holds them, although the loop
\* re-reads cursor and cache from the actor all the time.
RowsTruthful ==
    \A r \in db : (r.block # 0 => minedIn[r.tx] = r.block) /\ (r.by # 0 => ~r.again)

\* The cursor moves past a block of the current run only after the block was
\* scanned: every transaction mined there is recorded, or was not in the
\* snapshot it was scanned with, or its receipt or insert failed.
NoSilentSkip ==
    \A t \in Txs :
        ctx.start <= minedIn[t] /\ minedIn[t] < ctx.target /\ minedIn[t] # 0 =>
            Recorded(t) \/ t \in excused

\* Whichever of mark and SentRunTx is handled first, a mark the actor holds is
\* on the cached transaction and never left behind in the buffer.
MarksApplied ==
    /\ \A k \in marks : k.tx \notin Hashes(cache)
    /\ Cardinality(marks) <= MaxMarks

Log == INSTANCE RunLog WITH
    alive     <- status = "Running",
    taken     <- {t \in Txs : cb[t] = "acked"},
    held      <- Hashes(cache),
    written   <- {r.tx : r \in db},
    discarded <- dropped

\* Actor, flush loops and callbacks together implement RunLog: every step takes,
\* writes, forgets what is written, dumps or discards, or changes none of it, and
\* a row is only ever written for a transaction whose callback was answered.
ImplementsRunLog == Log!Spec
=============================================================================
