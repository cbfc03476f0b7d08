---------------------------- MODULE TxActorProofs ----------------------------
(***************************************************************************)
(* Proofs about TxActor, for every number of transactions, runs, blocks    *)
(* and flush loops, every channel capacity and every set of faults.        *)
(***************************************************************************)
EXTENDS TxActor, TLAPS, FiniteSetTheorems

\* A loop that works on a block is inside the range it read.
RangeOK ==
    \A g \in Gens : loop[g].pc \in {"Scan", "Confirm", "RefreshWait"} =>
        loop[g].bn < loop[g].newBlock

TypeInv == TypeOK /\ RangeOK

-----------------------------------------------------------------------------
(* Operators *)

\* The number of pending transactions is a number: Txs is finite.
LEMMA PendingIsNat ==
    ASSUME NEW S \in SUBSET PendingRunTx
    PROVE  /\ Hashes(S) \in SUBSET Txs
           /\ Cardinality(Hashes(S)) \in Nat
<1>1. Hashes(S) \subseteq Txs
  BY DEF Hashes, PendingRunTx
<1>2. IsFiniteSet(Hashes(S))
  BY <1>1, FS_Subset, ConstantsAssumption
<1> QED
  BY <1>1, <1>2, FS_CardinalityType

\* The locals of a loop that starts or ends are well typed.
LEMMA FreshLoopType ==
    ASSUME NEW pc \in LoopPc
    PROVE  FreshLoop(pc) \in FlushLocals /\ FreshLoop(pc).pc = pc
BY ConstantsAssumption DEF FreshLoop, TopLocals, FlushLocals, UsizeMax, Blocks

LEMMA AtTopType ==
    ASSUME NEW l \in FlushLocals, NEW pc \in LoopPc
    PROVE  AtTop(l, pc) \in FlushLocals /\ AtTop(l, pc).pc = pc
BY ConstantsAssumption DEF AtTop, TopLocals, FlushLocals, Blocks

\* After a range the loop is back at the top, or done.
LEMMA EndOfRangeType ==
    ASSUME NEW g \in Gens, NEW l \in FlushLocals
    PROVE  EndOfRange(g, l) \in FlushLocals /\ EndOfRange(g, l).pc \in {"Tick", "Done"}
<1> DEFINE moved    == [l EXCEPT !.target = Maximum(l.target, l.newBlock)]
           pending  == Cardinality(Hashes(l.snap))
           waited   == [moved EXCEPT !.stale = @ + Maximum(l.newBlock - l.start, 1)]
           changed  == [moved EXCEPT !.stale = 0, !.last = pending]
           tracked  == IF pending = l.last THEN waited ELSE changed
<1>0. pending \in Nat
  BY PendingIsNat DEF FlushLocals
<1>1. moved \in FlushLocals
  <2>1. Maximum(l.target, l.newBlock) \in Blocks
    BY ConstantsAssumption DEF FlushLocals, Maximum, Blocks
  <2> QED
    BY <2>1 DEF FlushLocals
<1>2. waited \in FlushLocals
  <2>1. moved.stale + Maximum(l.newBlock - l.start, 1) \in Nat
    BY <1>1, ConstantsAssumption DEF FlushLocals, Maximum, Blocks
  <2> HIDE DEF moved
  <2> QED
    BY <1>1, <2>1 DEF FlushLocals
<1>3. changed \in FlushLocals
  BY <1>0, <1>1, Zenon DEF FlushLocals
<1>4. tracked \in FlushLocals
  BY <1>2, <1>3
<1>5. "Tick" \in LoopPc /\ "Done" \in LoopPc
  BY DEF LoopPc
<1>6. EndOfRange(g, l) \in {AtTop(moved, "Tick"), AtTop(tracked, "Done"), AtTop(tracked, "Tick")}
  BY DEF EndOfRange
<1> HIDE DEF moved, tracked
<1> QED
  BY <1>1, <1>4, <1>5, <1>6, AtTopType

LEMMA NextBlockType ==
    ASSUME NEW g \in Gens, NEW l \in FlushLocals
    PROVE  /\ NextBlock(g, l) \in FlushLocals
           /\ NextBlock(g, l).pc \in {"Scan", "Tick", "Done"}
           /\ NextBlock(g, l).pc = "Scan" => NextBlock(g, l).bn < NextBlock(g, l).newBlock
<1>1. CASE InRange(l, l.bn + 1)
  <2>1. l.bn + 1 \in Blocks /\ l.bn + 1 < l.newBlock
    BY <1>1, ConstantsAssumption DEF InRange, FlushLocals, Blocks
  <2>2. NextBlock(g, l) = [l EXCEPT !.pc = "Scan", !.bn = l.bn + 1, !.confirmed = {}]
    BY <1>1 DEF NextBlock
  <2> QED
    BY <2>1, <2>2, Zenon DEF FlushLocals, LoopPc
<1>2. CASE ~InRange(l, l.bn + 1)
  BY <1>2, EndOfRangeType DEF NextBlock
<1> QED
  BY <1>1, <1>2

\* What the type of a queued message says of its fields.
LEMMA MessageType ==
    ASSUME TypeOK, api # <<>>
    PROVE  /\ Tail(api) \in Seq(TxActorMessage)
           /\ Head(api).op \in {"SentRunTx", "RemovedRunTx"} => Head(api).tx \in Txs
           /\ Head(api).op = "InitCtx" => /\ Head(api).run \in Runs \cup {0}
                                          /\ Head(api).block \in Blocks
           /\ Head(api).op = "DumpCache" => Head(api).run \in Runs \cup {0}
           /\ Head(api).op = "ReplaceFlushReceiver" => Head(api).gen \in Gens
<1>1. Head(api) \in TxActorMessage /\ Tail(api) \in Seq(TxActorMessage)
  BY DEF TypeOK
<1> QED
  BY <1>1 DEF TxActorMessage

LEMMA RequestType ==
    ASSUME TypeOK, NEW g \in Gens, fq[g] # <<>>
    PROVE  /\ Head(fq[g]) \in FlushRequest
           /\ Tail(fq[g]) \in Seq(FlushRequest)
           /\ Head(fq[g]).op = "RemoveConfirmed" => /\ Head(fq[g]).txs \in SUBSET Txs
                                                    /\ Head(fq[g]).block \in Blocks
<1>1. fq[g] \in Seq(FlushRequest)
  BY DEF TypeOK
<1>2. Head(fq[g]) \in FlushRequest /\ Tail(fq[g]) \in Seq(FlushRequest)
  BY <1>1
<1> QED
  BY <1>2 DEF FlushRequest

LEMMA NoCtxType == NoCtx \in ActorContext
BY ConstantsAssumption DEF NoCtx, ActorContext, Blocks

\* The part of the state that a terminating actor leaves well typed.
LEMMA ActorGoneType ==
    ASSUME TypeOK, NEW how \in {"ShutDown", "Failed"}, ActorGone(how)
    PROVE  /\ status' \in {"Running", "ShutDown", "Failed"}
           /\ api' \in Seq(TxActorMessage)
           /\ stopSig' \in BOOLEAN
           /\ cache' \subseteq PendingRunTx
           /\ marks' \subseteq PendingRunTx
           /\ ctx' \in ActorContext
           /\ fq' \in [Gens -> Seq(FlushRequest)]
           /\ ask' \in {"none", "pending", "answered", "dropped", "failed"}
<1>1. NoCtx \in ActorContext
  BY NoCtxType
<1>2. <<>> \in Seq(TxActorMessage) /\ fq' \in [Gens -> Seq(FlushRequest)]
  BY DEF ActorGone
<1>3. ask' \in {"none", "pending", "answered", "dropped", "failed"}
  BY DEF ActorGone, TypeOK
<1> QED
  BY <1>1, <1>2, <1>3, Zenon DEF ActorGone

LEMMA AnswerRequestType ==
    ASSUME TypeOK, api # <<>>, NEW left \in SUBSET PendingRunTx, AnswerRequest(left)
    PROVE  /\ status' \in {"Running", "ShutDown", "Failed"}
           /\ api' \in Seq(TxActorMessage)
           /\ stopSig' \in BOOLEAN
           /\ cache' \subseteq PendingRunTx
           /\ marks' \subseteq PendingRunTx
           /\ ctx' \in ActorContext
           /\ fq' \in [Gens -> Seq(FlushRequest)]
           /\ ask' \in {"none", "pending", "answered", "dropped", "failed"}
<1>1. CASE ask = "pending"
  BY <1>1, MessageType, Zenon DEF AnswerRequest, TypeOK
<1>2. CASE ask # "pending"
  BY <1>2, ActorGoneType DEF AnswerRequest
<1> QED
  BY <1>1, <1>2

LEMMA RowsType ==
    ASSUME TypeOK, NEW S \in SUBSET PendingRunTx, NEW run \in Runs \cup {0},
           NEW block \in Blocks, NEW by \in 0..MaxGen
    PROVE  Rows(S, run, block, by) \subseteq RunTx
<1> DEFINE again(p) == \E r \in db : r.tx = p.tx /\ r.by = by
<1> SUFFICES ASSUME NEW p \in S
             PROVE  [tx |-> p.tx, run |-> run, block |-> block, fb |-> p.fb, by |-> by,
                     again |-> again(p)] \in RunTx
  BY DEF Rows
<1>1. again(p) \in BOOLEAN
  OBVIOUS
<1> HIDE DEF again
<1> QED
  BY <1>1 DEF RunTx, PendingRunTx

-----------------------------------------------------------------------------
(* Type correctness *)

LEMMA TypeInit == Init => TypeInv
<1> SUFFICES ASSUME Init PROVE TypeInv
  OBVIOUS
<1>1. NoCtx \in ActorContext /\ 0 \in Blocks /\ 1 \in Gens
  BY NoCtxType, ConstantsAssumption DEF Blocks, Gens
<1>2. loop \in [Gens -> FlushLocals]
  BY FreshLoopType DEF Init, LoopPc
<1>3. TypeOK
  <2>1. api \in Seq(TxActorMessage) /\ fq \in [Gens -> Seq(FlushRequest)]
    BY DEF Init
  <2>2. reply \in [Gens -> SUBSET Snapshot] /\ cancelled \in [Gens -> BOOLEAN]
    BY DEF Init
  <2> QED
    BY <1>1, <1>2, <2>1, <2>2, Zenon DEF Init, TypeOK
<1>4. RangeOK
  BY FreshLoopType DEF Init, RangeOK, LoopPc
<1> QED
  BY <1>3, <1>4 DEF TypeInv

LEMMA ActorType == TypeInv /\ ActorStep => TypeInv'
<1> SUFFICES ASSUME TypeInv, ActorStep PROVE TypeInv'
  OBVIOUS
<1> USE DEF TypeInv
<1>1. CASE HandleGetCacheLen
  <2>1. answer' \in Nat
    BY <1>1, PendingIsNat DEF HandleGetCacheLen, TypeOK
  <2>2. api # <<>> /\ cache \in SUBSET PendingRunTx /\ AnswerRequest(cache)
    BY <1>1 DEF HandleGetCacheLen, Message, TypeOK
  <2> QED
    BY <1>1, <2>1, <2>2, AnswerRequestType DEF HandleGetCacheLen, TypeOK, RangeOK, chainVars, histVars
<1>2. CASE HandleInitCtx
  BY <1>2, MessageType DEF HandleInitCtx, Message, TypeOK, RangeOK, ActorContext,
     chainVars, loopVars, askVars, histVars
<1>3. CASE HandleSentRunTx
  <2> DEFINE t == Head(api).tx
  <2>1. t \in Txs /\ api # <<>>
    BY <1>3, MessageType DEF HandleSentRunTx, Message
  <2>2. CASE cb[t] = "queued"
    <3>1. cache' \subseteq PendingRunTx
      <4>1. PICK fb \in FbIndices \cup {0} :
               cache' = {p \in cache : p.tx # t} \cup {[tx |-> t, fb |-> fb]}
        BY <1>3, <2>2, Zenon DEF HandleSentRunTx
      <4>2. [tx |-> t, fb |-> fb] \in PendingRunTx
        BY <2>1, Zenon DEF PendingRunTx
      <4> QED
        BY <4>1, <4>2 DEF TypeOK
    <3> QED
      BY <1>3, <2>1, <2>2, <3>1, MessageType, Zenon DEF HandleSentRunTx, TypeOK, RangeOK, chainVars, histVars
  <2>3. CASE cb[t] # "queued"
    BY <1>3, <2>1, <2>3, ActorGoneType DEF HandleSentRunTx, TypeOK, RangeOK, chainVars, histVars
  <2> QED
    BY <2>2, <2>3, Zenon
<1>4. CASE HandleRemovedRunTx
  <2> DEFINE t == Head(api).tx
  <2>1. t \in Txs /\ api # <<>>
    BY <1>4, MessageType, Zenon DEF HandleRemovedRunTx, Message
  <2>2. CASE t \in Hashes(cache)
    <3>1. {p \in cache : p.tx # t} \in SUBSET PendingRunTx
      BY Zenon DEF TypeOK
    <3> QED
      BY <1>4, <2>1, <2>2, <3>1, AnswerRequestType
      DEF HandleRemovedRunTx, TypeOK, RangeOK, chainVars
  <2>3. CASE t \notin Hashes(cache)
    BY <1>4, <2>1, <2>3, ActorGoneType, Zenon DEF HandleRemovedRunTx, TypeOK, RangeOK, chainVars
  <2> QED
    BY <2>2, <2>3, Zenon
<1>5. CASE HandleDumpCache
  <2>1. api # <<>> /\ Head(api).run \in Runs \cup {0}
    BY <1>5, MessageType DEF HandleDumpCache, Message
  <2>2. Rows(cache, Head(api).run, 0, 0) \subseteq RunTx
    <3>1. 0 \in Blocks /\ 0 \in 0..MaxGen /\ cache \in SUBSET PendingRunTx
      BY ConstantsAssumption DEF TypeOK, Blocks
    <3> QED
      BY <2>1, <3>1, RowsType
  <2> QED
    BY <1>5, <2>1, <2>2, AnswerRequestType, ActorGoneType
    DEF HandleDumpCache, TypeOK, RangeOK, chainVars, histVars
<1>6. CASE HandleClearCache
  <2>1. api # <<>> /\ Hashes(cache) \subseteq Txs
    BY <1>6, PendingIsNat, Zenon DEF HandleClearCache, Message, TypeOK
  <2> QED
    BY <1>6, <2>1, AnswerRequestType DEF HandleClearCache, TypeOK, RangeOK, chainVars
<1>7. CASE HandleReplaceFlushReceiver
  BY <1>7, MessageType DEF HandleReplaceFlushReceiver, Message, TypeOK, RangeOK, chainVars,
     askVars, histVars
<1>8. CASE HandleStop
  BY <1>8, ActorGoneType, Zenon DEF HandleStop, TypeOK, RangeOK, chainVars, histVars
<1>9. CASE HandleGetSnapshot
  BY <1>9, RequestType DEF HandleGetSnapshot, Request, TypeOK, RangeOK, Snapshot, chainVars,
     actorVars, askVars, histVars
<1>10. CASE HandleRemoveConfirmed
  <2>1. ctx' \in ActorContext
    BY <1>10, RequestType, Zenon DEF HandleRemoveConfirmed, Request, TypeOK, ActorContext
  <2> QED
    BY <1>10, <2>1, RequestType DEF HandleRemoveConfirmed, Request, TypeOK, RangeOK, chainVars,
       askVars, histVars
<1> QED
  BY <1>1, <1>2, <1>3, <1>4, <1>5, <1>6, <1>7, <1>8, <1>9, <1>10 DEF ActorStep

\* Locals a loop may move to.
GoodLocals(l) ==
    /\ l \in FlushLocals
    /\ l.pc \in {"Scan", "Confirm", "RefreshWait"} => l.bn < l.newBlock

LEMMA LoopMoveType ==
    ASSUME TypeInv, NEW g \in Gens, NEW l, GoodLocals(l), loop' = [loop EXCEPT ![g] = l]
    PROVE  loop' \in [Gens -> FlushLocals] /\ RangeOK'
BY DEF GoodLocals, TypeInv, TypeOK, RangeOK

LEMMA GotoType ==
    ASSUME TypeInv, NEW g \in Gens, NEW l, GoodLocals(l), Goto(g, l),
           reply' = reply \/ reply' = [reply EXCEPT ![g] = {}]
    PROVE  TypeInv'
<1>1. loop' \in [Gens -> FlushLocals] /\ RangeOK'
  BY LoopMoveType, Zenon DEF Goto
<1>2. reply' \in [Gens -> SUBSET Snapshot]
  BY Zenon DEF TypeInv, TypeOK
<1> QED
  BY <1>1, <1>2 DEF Goto, TypeInv, TypeOK, chainVars, actorVars, askVars, histVars

LEMMA SendRequestsType ==
    ASSUME TypeInv, NEW g \in Gens, NEW l, NEW failed, NEW reqs \in Seq(FlushRequest),
           GoodLocals(l), GoodLocals(failed), SendRequests(g, reqs, l, failed)
    PROVE  TypeInv'
<1>1. loop' \in [Gens -> FlushLocals] /\ RangeOK'
  BY LoopMoveType, Zenon DEF SendRequests
<1>2. fq' \in [Gens -> Seq(FlushRequest)]
  <2>1. fq[g] \o reqs \in Seq(FlushRequest)
    BY DEF TypeInv, TypeOK
  <2> QED
    BY <2>1 DEF SendRequests, TypeInv, TypeOK
<1> QED
  BY <1>1, <1>2 DEF SendRequests, TypeInv, TypeOK, chainVars, actorVars, askVars, histVars

LEMMA GoodFresh ==
    ASSUME NEW pc \in LoopPc \ {"Scan", "Confirm", "RefreshWait"}
    PROVE  GoodLocals(FreshLoop(pc)) /\ \A l \in FlushLocals : GoodLocals(AtTop(l, pc))
BY FreshLoopType, AtTopType DEF GoodLocals

LEMMA ReplyType ==
    ASSUME TypeInv, NEW g \in Gens, NEW r \in reply[g]
    PROVE  /\ r.snap \in SUBSET PendingRunTx
           /\ r.ctx.some \in BOOLEAN
           /\ r.ctx.run \in Runs \cup {0}
           /\ r.ctx.target \in Blocks
BY DEF TypeInv, TypeOK, Snapshot, ActorContext

LEMMA FlushType ==
    ASSUME TypeInv, NEW g \in Gens, FlushStep(g)
    PROVE  TypeInv'
<1> DEFINE l == loop[g]
<1>0. l \in FlushLocals /\ GoodLocals(l)
  BY DEF TypeInv, TypeOK, RangeOK, GoodLocals
<1>a. GetSnapshot \in Seq(FlushRequest)
  BY DEF GetSnapshot, FlushRequest
<1>b. GoodLocals(FreshLoop("Done")) /\ GoodLocals(FreshLoop("Phase1"))
      /\ GoodLocals(FreshLoop("Phase1Wait"))
  BY GoodFresh DEF LoopPc
<1>c. \A k \in FlushLocals : GoodLocals(AtTop(k, "Tick")) /\ GoodLocals(AtTop(k, "Done"))
  BY GoodFresh DEF LoopPc
<1>d. \A k \in FlushLocals : GoodLocals(EndOfRange(g, k)) /\ GoodLocals(NextBlock(g, k))
  BY EndOfRangeType, NextBlockType DEF GoodLocals
<1>1. CASE Phase1Poll(g)
  BY <1>1, <1>a, <1>b, SendRequestsType DEF Phase1Poll
<1>2. CASE Phase1Reply(g)
  <2>1. ASSUME NEW r \in reply[g]
        PROVE  GoodLocals([FreshLoop("Tick") EXCEPT !.target = r.ctx.target])
    <3>1. r.ctx.target \in Blocks
      BY ReplyType
    <3>2. FreshLoop("Tick") \in FlushLocals /\ FreshLoop("Tick").pc = "Tick"
      BY FreshLoopType DEF LoopPc
    <3> QED
      BY <3>1, <3>2 DEF GoodLocals, FlushLocals
  <2> QED
    BY <1>2, <1>b, <2>1, GotoType, Zenon DEF Phase1Reply
<1>3. CASE ReadBlockNumber(g)
  <2>1. GoodLocals([l EXCEPT !.pc = "Compare", !.newBlock = head])
    BY <1>0, Zenon DEF GoodLocals, TypeInv, TypeOK, FlushLocals, LoopPc
  <2> QED
    BY <1>3, <2>1, GotoType DEF ReadBlockNumber
<1>4. CASE CompareBlocks(g)
  <2>1. GoodLocals([l EXCEPT !.pc = "SnapWait"]) /\ GoodLocals([l EXCEPT !.pc = "DrainWait"])
    BY <1>0 DEF GoodLocals, FlushLocals, LoopPc
  <2> QED
    BY <1>4, <1>0, <1>a, <1>b, <1>c, <2>1, SendRequestsType, GotoType DEF CompareBlocks
<1>5. CASE DrainReply(g)
  BY <1>5, <1>0, <1>b, <1>c, GotoType, Zenon DEF DrainReply
<1>6. CASE SnapshotReply(g)
  <2>1. ASSUME NEW r \in reply[g]
        PROVE  LET k == [l EXCEPT !.target = r.ctx.target]
               IN  /\ k \in FlushLocals
                   /\ k.target < k.newBlock =>
                        GoodLocals([k EXCEPT !.pc = "Scan", !.snap = r.snap, !.run = r.ctx.run,
                                             !.bn = k.target, !.start = k.target])
    <3> DEFINE k == [l EXCEPT !.target = r.ctx.target]
    <3>1. k \in FlushLocals
      BY <1>0, ReplyType DEF FlushLocals
    <3> HIDE DEF k
    <3>2. ASSUME k.target < k.newBlock
          PROVE  GoodLocals([k EXCEPT !.pc = "Scan", !.snap = r.snap, !.run = r.ctx.run,
                                      !.bn = k.target, !.start = k.target])
      BY <3>1, <3>2, ReplyType, Zenon DEF GoodLocals, FlushLocals, LoopPc
    <3> QED
      BY <3>1, <3>2 DEF k
  <2>2. CASE ReplyDropped(g) /\ Goto(g, FreshLoop("Done"))
    BY <1>6, <1>b, <2>2, GotoType, Zenon DEF SnapshotReply
  <2>3. ASSUME NEW r \in reply[g],
               LET k == [l EXCEPT !.target = r.ctx.target] IN
               Goto(g, IF ~r.ctx.some THEN AtTop(l, "Tick")
                       ELSE IF k.target >= k.newBlock THEN AtTop(k, "Tick")
                       ELSE IF cancelled[g] /\ r.snap = {} THEN FreshLoop("Done")
                       ELSE [k EXCEPT !.pc = "Scan", !.snap = r.snap, !.run = r.ctx.run,
                                      !.bn = k.target, !.start = k.target])
        PROVE  TypeInv'
    <3> DEFINE k == [l EXCEPT !.target = r.ctx.target]
               scan == [k EXCEPT !.pc = "Scan", !.snap = r.snap, !.run = r.ctx.run,
                                 !.bn = k.target, !.start = k.target]
    <3>1. k \in FlushLocals /\ (k.target < k.newBlock => GoodLocals(scan))
      BY <2>1, Zenon
    <3>2. PICK n : Goto(g, n) /\ n \in {AtTop(l, "Tick"), AtTop(k, "Tick"), FreshLoop("Done"), scan}
                   /\ (n = scan => GoodLocals(scan) \/ n \in {AtTop(l, "Tick"), AtTop(k, "Tick"), FreshLoop("Done")})
      <4>1. k.target \in Nat /\ k.newBlock \in Nat
        BY <3>1, ConstantsAssumption DEF FlushLocals, Blocks
      <4> HIDE DEF k, scan
      <4> QED
        BY <2>3, <3>1, <4>1 DEF k, scan
    <3>3. GoodLocals(n)
      BY <1>0, <1>b, <1>c, <3>1, <3>2
    <3>4. reply' = [reply EXCEPT ![g] = {}]
      BY <1>6, Zenon DEF SnapshotReply
    <3> QED
      BY <3>2, <3>3, <3>4, GotoType, Zenon
  <2> QED
    BY <1>6, <2>2, <2>3, Zenon DEF SnapshotReply
<1>7. CASE ScanBlock(g)
  <2>1. PICK receipts \in Receipts(l.bn) :
          /\ db' = db \cup Rows(Confirmed(l, receipts), l.run, l.bn, g)
          /\ loop' = [loop EXCEPT ![g] = [l EXCEPT !.pc = "Confirm",
                                                   !.confirmed = Hashes(Confirmed(l, receipts))]]
          /\ excused' = excused \cup (BlockTxs(l.bn) \ Hashes(Confirmed(l, receipts)))
    BY <1>7, Zenon DEF ScanBlock
  <2>2. Confirmed(l, receipts) \in SUBSET PendingRunTx
    BY <1>0 DEF Confirmed, FlushLocals
  <2>3. Hashes(Confirmed(l, receipts)) \in SUBSET Txs
    BY <2>2, PendingIsNat
  <2>4. GoodLocals([l EXCEPT !.pc = "Confirm", !.confirmed = Hashes(Confirmed(l, receipts))])
    BY <1>0, <1>7, <2>3, Zenon DEF ScanBlock, GoodLocals, FlushLocals, LoopPc
  <2>5. loop' \in [Gens -> FlushLocals] /\ RangeOK'
    BY <2>1, <2>4, LoopMoveType, Zenon
  <2>6. Rows(Confirmed(l, receipts), l.run, l.bn, g) \subseteq RunTx
    <3>1. l.run \in Runs \cup {0} /\ l.bn \in Blocks /\ g \in 0..MaxGen
      BY <1>0, ConstantsAssumption DEF FlushLocals, Gens
    <3> QED
      BY <2>2, <3>1, RowsType DEF TypeInv
  <2>7. excused' \subseteq Txs
    BY <2>1 DEF TypeInv, TypeOK, BlockTxs
  <2> QED
    BY <1>7, <2>1, <2>5, <2>6, <2>7 DEF ScanBlock, TypeInv, TypeOK, chainVars, actorVars, askVars
<1>8. CASE ScanBlockFails(g)
  <2>1. loop' \in [Gens -> FlushLocals] /\ RangeOK'
    BY <1>8, <1>0, <1>d, LoopMoveType, Zenon DEF ScanBlockFails
  <2>2. excused' \subseteq Txs
    BY <1>8 DEF ScanBlockFails, TypeInv, TypeOK, BlockTxs
  <2> QED
    BY <1>8, <2>1, <2>2 DEF ScanBlockFails, TypeInv, TypeOK, chainVars, actorVars, askVars
<1>9. CASE ConfirmBlock(g)
  <2>1. l.confirmed \in SUBSET Txs /\ l.bn + 1 \in Blocks
    BY <1>9, <1>0, ConstantsAssumption DEF ConfirmBlock, GoodLocals, FlushLocals, Blocks
  <2>2. ConfirmRequests(l) \in Seq(FlushRequest)
    BY <2>1 DEF ConfirmRequests, FlushRequest
  <2>3. GoodLocals([l EXCEPT !.pc = "RefreshWait"])
    BY <1>9, <1>0 DEF ConfirmBlock, GoodLocals, FlushLocals, LoopPc
  <2> QED
    BY <1>9, <1>b, <2>2, <2>3, SendRequestsType DEF ConfirmBlock
<1>10. CASE RefreshReply(g)
  <2>1. ASSUME NEW r \in reply[g]
        PROVE  [l EXCEPT !.snap = r.snap, !.target = r.ctx.target] \in FlushLocals
    BY <1>0, ReplyType, Zenon DEF FlushLocals
  <2> QED
    BY <1>10, <1>0, <1>b, <1>d, <2>1, GotoType, Zenon DEF RefreshReply
<1> QED
  BY <1>1, <1>2, <1>3, <1>4, <1>5, <1>6, <1>7, <1>8, <1>9, <1>10 DEF FlushStep

LEMMA EnqueueType ==
    ASSUME TypeOK, NEW m \in TxActorMessage, Enqueue(m)
    PROVE  api' \in Seq(TxActorMessage)
BY DEF Enqueue, TypeOK

LEMMA AskActorType ==
    ASSUME TypeInv, NEW m \in TxActorMessage, AskActor(m)
    PROVE  TypeInv'
BY EnqueueType DEF AskActor, TypeInv, TypeOK, RangeOK, chainVars, loopVars, histVars

LEMMA CallbackType ==
    ASSUME TypeInv, NEW t \in Txs, CallbackStep(t)
    PROVE  TypeInv'
<1>1. CASE CacheRunTx(t)
  <2>1. [op |-> "SentRunTx", tx |-> t] \in TxActorMessage
    BY DEF TxActorMessage
  <2>2. api' \in Seq(TxActorMessage)
    BY <1>1, <2>1, EnqueueType DEF CacheRunTx, TypeInv, TypeOK
  <2> QED
    BY <1>1, <2>2, Zenon DEF CacheRunTx, TypeInv, TypeOK, RangeOK, chainVars, loopVars, askVars, histVars
<1>2. CASE CancelCallback(t)
  BY <1>2 DEF CancelCallback, TypeInv, TypeOK, RangeOK, chainVars, actorVars, loopVars, askVars,
     histVars
<1> QED
  BY <1>1, <1>2 DEF CallbackStep

LEMMA ClientType == TypeInv /\ ClientStep => TypeInv'
<1> SUFFICES ASSUME TypeInv, ClientStep PROVE TypeInv'
  OBVIOUS
<1>1. ASSUME NEW t \in Txs, SendTx(t) PROVE TypeInv'
  BY <1>1 DEF SendTx, TypeInv, TypeOK, RangeOK, chainVars, actorVars, loopVars, askVars, histVars
<1>2. ASSUME NEW t \in Txs, AskActor([op |-> "RemovedRunTx", tx |-> t]) PROVE TypeInv'
  <2>1. [op |-> "RemovedRunTx", tx |-> t] \in TxActorMessage
    BY DEF TxActorMessage
  <2> QED
    BY <1>2, <2>1, AskActorType
<1>3. CASE ReadStartBlock
  BY <1>3 DEF ReadStartBlock, TypeInv, TypeOK, RangeOK, chainVars, actorVars, loopVars, histVars
<1>4. ASSUME NEW run \in Runs, InitCtx(run, startBlock) PROVE TypeInv'
  <2>1. [op |-> "InitCtx", run |-> run, block |-> startBlock] \in TxActorMessage
    BY DEF TxActorMessage, TypeInv, TypeOK
  <2>2. api' \in Seq(TxActorMessage)
    BY <1>4, <2>1, EnqueueType DEF InitCtx, TypeInv
  <2> QED
    BY <1>4, <2>2, Zenon DEF InitCtx, TypeInv, TypeOK, RangeOK, chainVars, loopVars, askVars, histVars
<1>5. ASSUME NEW run \in Runs, AskActor([op |-> "DumpCache", run |-> run]) PROVE TypeInv'
  <2>1. [op |-> "DumpCache", run |-> run] \in TxActorMessage
    BY Zenon DEF TxActorMessage
  <2> QED
    BY <1>5, <2>1, AskActorType
<1>6. CASE AskActor([op |-> "GetCacheLen"]) \/ AskActor([op |-> "ClearCache"])
  <2>1. [op |-> "GetCacheLen"] \in TxActorMessage /\ [op |-> "ClearCache"] \in TxActorMessage
    BY DEF TxActorMessage
  <2> QED
    BY <1>6, <2>1, AskActorType, Zenon
<1>7. CASE DropRequest
  BY <1>7 DEF DropRequest, TypeInv, TypeOK, RangeOK, chainVars, actorVars, loopVars, histVars
<1>8. CASE Stop
  BY <1>8 DEF Stop, TypeInv, TypeOK, RangeOK, chainVars, loopVars, askVars, histVars
<1>9. CASE RestartFlush
  <2>1. gen + 1 \in Gens
    BY <1>9, ConstantsAssumption DEF RestartFlush, TypeInv, TypeOK, Gens
  <2>2. [op |-> "ReplaceFlushReceiver", gen |-> gen + 1] \in TxActorMessage
    BY <2>1 DEF TxActorMessage
  <2>3. api' \in Seq(TxActorMessage)
    BY <1>9, <2>2, EnqueueType DEF RestartFlush, TypeInv
  <2>4. loop' \in [Gens -> FlushLocals] /\ RangeOK'
    <3>1. GoodLocals(FreshLoop("Phase1"))
      BY GoodFresh, Zenon DEF LoopPc
    <3> QED
      BY <1>9, <2>1, <3>1, LoopMoveType, Zenon DEF RestartFlush
  <2> QED
    BY <1>9, <2>1, <2>3, <2>4 DEF RestartFlush, TypeInv, TypeOK, chainVars, askVars, histVars
<1>10. ASSUME NEW g \in Gens, CancelFlush(g) PROVE TypeInv'
  BY <1>10 DEF CancelFlush, TypeInv, TypeOK, RangeOK, chainVars, actorVars, askVars, histVars
<1> QED
  BY <1>1, <1>2, <1>3, <1>4, <1>5, <1>6, <1>7, <1>8, <1>9, <1>10, Zenon DEF ClientStep

LEMMA EnvType == TypeInv /\ EnvStep => TypeInv'
<1> SUFFICES ASSUME TypeInv, EnvStep PROVE TypeInv'
  OBVIOUS
<1>1. ASSUME NEW included \in SUBSET Txs, MineBlock(included) PROVE TypeInv'
  <2>1. head + 1 \in Blocks
    BY <1>1, ConstantsAssumption DEF MineBlock, TypeInv, TypeOK, Blocks
  <2> QED
    BY <1>1, <2>1 DEF MineBlock, TypeInv, TypeOK, RangeOK, actorVars, loopVars, askVars, histVars
<1>2. ASSUME NEW t \in Txs, NEW fb \in FbIndices, HandleFlashblockMark(t, fb) PROVE TypeInv'
  <2>1. [tx |-> t, fb |-> fb] \in PendingRunTx
    BY DEF PendingRunTx
  <2>2. \A p \in PendingRunTx : [p EXCEPT !.fb = fb] \in PendingRunTx
    BY DEF PendingRunTx
  <2>3. cache' \subseteq PendingRunTx /\ marks' \subseteq PendingRunTx
    BY <1>2, <2>1, <2>2 DEF HandleFlashblockMark, TypeInv, TypeOK
  <2> QED
    BY <1>2, <2>3 DEF HandleFlashblockMark, TypeInv, TypeOK, RangeOK, chainVars, loopVars, askVars,
       histVars
<1> QED
  BY <1>1, <1>2 DEF EnvStep

LEMMA TypeStep == TypeInv /\ [Next]_vars => TypeInv'
<1> SUFFICES ASSUME TypeInv, [Next]_vars PROVE TypeInv'
  OBVIOUS
<1>1. CASE UNCHANGED vars
  BY <1>1 DEF vars, TypeInv, TypeOK, RangeOK, chainVars, actorVars, loopVars, askVars, histVars
<1> QED
  BY <1>1, ActorType, FlushType, CallbackType, ClientType, EnvType DEF Next

LEMMA TypeInvHolds == Spec => []TypeInv
BY TypeInit, TypeStep, PTL DEF Spec

\* Every variable keeps its type: in particular the cursor update bn + 1 is a
\* block of the range the loop read, and a restarted loop has an index.
THEOREM TypeCorrect == Spec => []TypeOK
<1>1. TypeInv => TypeOK
  BY DEF TypeInv
<1> QED
  BY <1>1, TypeInvHolds, PTL

-----------------------------------------------------------------------------
(* Facts about steps *)

\* The log only grows.
LEMMA LogGrows ==
    ASSUME [Next]_vars
    PROVE  db \subseteq db' /\ \A t : Recorded(t) => Recorded(t)'
<1>1. db \subseteq db'
  <2>1. CASE ActorStep
    BY <2>1 DEF ActorStep, HandleGetCacheLen, HandleInitCtx, HandleSentRunTx, HandleRemovedRunTx,
       HandleDumpCache, HandleClearCache, HandleReplaceFlushReceiver, HandleStop,
       HandleGetSnapshot, HandleRemoveConfirmed
  <2>2. ASSUME NEW g \in Gens, FlushStep(g) PROVE db \subseteq db'
    BY <2>2, Zenon DEF FlushStep, Phase1Poll, Phase1Reply, ReadBlockNumber, CompareBlocks, DrainReply,
       SnapshotReply, ScanBlock, ScanBlockFails, ConfirmBlock, RefreshReply, SendRequests, Goto
  <2>3. ASSUME NEW t \in Txs, CallbackStep(t) PROVE db \subseteq db'
    BY <2>3 DEF CallbackStep, CacheRunTx, CancelCallback
  <2>4. CASE ClientStep
    BY <2>4, Zenon DEF ClientStep, SendTx, AskActor, ReadStartBlock, InitCtx, DropRequest, Stop,
       RestartFlush, CancelFlush
  <2>5. CASE EnvStep
    BY <2>5 DEF EnvStep, MineBlock, HandleFlashblockMark
  <2>6. CASE UNCHANGED vars
    BY <2>6 DEF vars
  <2> QED
    BY <2>1, <2>2, <2>3, <2>4, <2>5, <2>6, Zenon DEF Next
<1> QED
  BY <1>1 DEF Recorded

\* The actor only takes requests out of the flush queues and leaves the loops alone.
LEMMA ActorTakesRequests ==
    ASSUME TypeInv, ActorStep
    PROVE  /\ UNCHANGED <<loop, gen, head, minedIn>>
           /\ \A g \in Gens : \A i \in DOMAIN fq'[g] :
                 \E j \in DOMAIN fq[g] : fq'[g][i] = fq[g][j]
<1> USE DEF TypeInv
<1>1. UNCHANGED <<loop, gen, head, minedIn>>
  BY DEF ActorStep, HandleGetCacheLen, HandleInitCtx, HandleSentRunTx, HandleRemovedRunTx,
     HandleDumpCache, HandleClearCache, HandleReplaceFlushReceiver, HandleStop, HandleGetSnapshot,
     HandleRemoveConfirmed, chainVars, loopVars
<1>2. \/ fq' = fq
      \/ \A g \in Gens : fq'[g] = fq[g] \/ fq'[g] = <<>>
      \/ fq[flushRx] # <<>> /\ fq' = [fq EXCEPT ![flushRx] = Tail(@)]
  BY Zenon DEF ActorStep, HandleGetCacheLen, HandleInitCtx, HandleSentRunTx, HandleRemovedRunTx,
     HandleDumpCache, HandleClearCache, HandleReplaceFlushReceiver, HandleStop, HandleGetSnapshot,
     HandleRemoveConfirmed, loopVars, AnswerRequest, ActorGone, Request, TypeOK
<1>3. ASSUME NEW g \in Gens, NEW i \in DOMAIN fq'[g]
      PROVE  \E j \in DOMAIN fq[g] : fq'[g][i] = fq[g][j]
  <2>1. CASE fq'[g] = fq[g] \/ fq'[g] = <<>>
    BY <2>1
  <2>2. CASE fq[g] # <<>> /\ fq'[g] = Tail(fq[g])
    <3>1. fq[g] \in Seq(FlushRequest)
      BY Zenon DEF TypeOK
    <3>2. i + 1 \in DOMAIN fq[g] /\ fq'[g][i] = fq[g][i + 1]
      BY <2>2, <3>1
    <3> QED
      BY <3>2
  <2> QED
    BY <1>2, <2>1, <2>2 DEF TypeOK
<1> QED
  BY <1>1, <1>3, Zenon

\* What stands in a channel after one message, or two, have been queued.
LEMMA OneAppended ==
    ASSUME NEW S, NEW q \in Seq(S), NEW r, NEW p, p = q \o <<r>>, NEW i \in DOMAIN p
    PROVE  (\E j \in DOMAIN q : p[i] = q[j]) \/ p[i] = r
<1>1. i \in DOMAIN q \/ i = Len(q) + 1
  OBVIOUS
<1> QED
  BY <1>1

LEMMA TwoAppended ==
    ASSUME NEW S, NEW q \in Seq(S), NEW r, NEW s, NEW p, p = q \o <<r, s>>, NEW i \in DOMAIN p
    PROVE  (\E j \in DOMAIN q : p[i] = q[j]) \/ p[i] = r \/ p[i] = s
<1>1. i \in DOMAIN q \/ i = Len(q) + 1 \/ i = Len(q) + 2
  OBVIOUS
<1> QED
  BY <1>1

\* A loop tells the actor to forget confirmed transactions, or sends nothing
\* else than a snapshot request; the actor's own state is not touched.
LEMMA LoopSendsRequests ==
    ASSUME TypeInv, NEW g \in Gens, FlushStep(g)
    PROVE  /\ UNCHANGED <<cb, actorVars, dropped, head, minedIn, gen>>
           /\ \A h \in Gens : \A i \in DOMAIN fq'[h] :
                 \/ \E j \in DOMAIN fq[h] : fq'[h][i] = fq[h][j]
                 \/ fq'[h][i].op = "GetSnapshot"
                 \/ /\ h = g
                    /\ ConfirmBlock(g)
                    /\ fq'[h][i] = ConfirmRequests(loop[g])[1]
<1> USE DEF TypeInv
<1>1. UNCHANGED <<cb, actorVars, dropped, head, minedIn, gen>>
  BY Zenon DEF FlushStep, Phase1Poll, Phase1Reply, ReadBlockNumber, CompareBlocks, DrainReply,
     SnapshotReply, ScanBlock, ScanBlockFails, ConfirmBlock, RefreshReply, SendRequests, Goto,
     chainVars, histVars
<1>2. \/ fq' = fq
      \/ fq' = [fq EXCEPT ![g] = @ \o GetSnapshot]
      \/ ConfirmBlock(g) /\ fq' = [fq EXCEPT ![g] = @ \o ConfirmRequests(loop[g])]
  BY Zenon DEF FlushStep, Phase1Poll, Phase1Reply, ReadBlockNumber, CompareBlocks, DrainReply,
     SnapshotReply, ScanBlock, ScanBlockFails, ConfirmBlock, RefreshReply, SendRequests, Goto
<1>3. ASSUME NEW h \in Gens, NEW i \in DOMAIN fq'[h]
      PROVE  \/ \E j \in DOMAIN fq[h] : fq'[h][i] = fq[h][j]
             \/ fq'[h][i].op = "GetSnapshot"
             \/ h = g /\ ConfirmBlock(g) /\ fq'[h][i] = ConfirmRequests(loop[g])[1]
  <2>0. fq[h] \in Seq(FlushRequest)
    BY Zenon DEF TypeOK
  <2>1. CASE fq'[h] = fq[h]
    BY <2>1, Zenon
  <2>2. CASE h = g /\ fq'[h] = fq[h] \o GetSnapshot
    <3>1. \/ \E j \in DOMAIN fq[h] : fq'[h][i] = fq[h][j]
          \/ fq'[h][i] = [op |-> "GetSnapshot"]
      <4>1. fq'[h] = fq[h] \o <<[op |-> "GetSnapshot"]>>
        BY <2>2, Zenon DEF GetSnapshot
      <4> QED
        BY <2>0, <4>1, OneAppended
    <3> QED
      BY <3>1
  <2>3. CASE h = g /\ ConfirmBlock(g) /\ fq'[h] = fq[h] \o ConfirmRequests(loop[g])
    <3>1. PICK first : ConfirmRequests(loop[g]) = <<first, [op |-> "GetSnapshot"]>>
      BY Zenon DEF ConfirmRequests
    <3>2. \/ \E j \in DOMAIN fq[h] : fq'[h][i] = fq[h][j]
          \/ fq'[h][i] = first \/ fq'[h][i] = [op |-> "GetSnapshot"]
      <4>1. fq'[h] = fq[h] \o <<first, [op |-> "GetSnapshot"]>>
        BY <2>3, <3>1, Zenon
      <4> QED
        BY <2>0, <4>1, TwoAppended
    <3>3. ConfirmRequests(loop[g])[1] = first
      BY <3>1
    <3> QED
      BY <2>3, <3>2, <3>3
  <2> QED
    BY <1>2, <2>1, <2>2, <2>3, Zenon DEF TypeOK
<1> QED
  BY <1>1, <1>3

\* Callbacks and clients append to the API queue and start or cancel loops.
LEMMA OthersStep ==
    ASSUME TypeInv, ClientStep \/ \E t \in Txs : CallbackStep(t)
    PROVE  /\ UNCHANGED <<status, cache, marks, ctx, flushRx, fq, reply, db, dropped, excused,
                          head, minedIn>>
           /\ \A t \in Txs : cb'[t] = "acked" <=> cb[t] = "acked"
           /\ \A g \in Gens : loop'[g] = loop[g] \/ loop'[g] = FreshLoop("Phase1")
<1> USE DEF TypeInv
<1>1. ASSUME NEW t \in Txs, CallbackStep(t)
      PROVE  /\ UNCHANGED <<status, cache, marks, ctx, flushRx, fq, reply, db, dropped, excused,
                            head, minedIn, loop>>
             /\ \A u \in Txs : cb'[u] = "acked" <=> cb[u] = "acked"
  BY <1>1 DEF CallbackStep, CacheRunTx, CancelCallback, TypeOK, chainVars, actorVars, loopVars,
     histVars
<1>2. CASE ClientStep
  <2>1. ASSUME NEW t \in Txs, SendTx(t)
        PROVE  /\ UNCHANGED <<status, cache, marks, ctx, flushRx, fq, reply, db, dropped, excused,
                              head, minedIn, loop>>
               /\ \A u \in Txs : cb'[u] = "acked" <=> cb[u] = "acked"
    BY <2>1 DEF SendTx, TypeOK, chainVars, actorVars, loopVars, histVars
  <2>2. ASSUME NEW m, AskActor(m)
        PROVE  UNCHANGED <<status, cache, marks, ctx, flushRx, fq, reply, db, dropped, excused,
                           head, minedIn, loop, cb>>
    BY <2>2 DEF AskActor, chainVars, loopVars, histVars
  <2>3. ASSUME NEW run \in Runs, InitCtx(run, startBlock)
        PROVE  UNCHANGED <<status, cache, marks, ctx, flushRx, fq, reply, db, dropped, excused,
                           head, minedIn, loop, cb>>
    BY <2>3, Zenon DEF InitCtx, chainVars, loopVars, histVars
  <2>4. CASE ReadStartBlock \/ DropRequest \/ Stop \/ \E g \in Gens : CancelFlush(g)
    BY <2>4, Zenon DEF ReadStartBlock, DropRequest, Stop, CancelFlush, chainVars, actorVars, loopVars,
       histVars
  <2>5. CASE RestartFlush
    BY <2>5 DEF RestartFlush, TypeOK, chainVars, histVars
  <2> QED
    BY <1>2, <2>1, <2>2, <2>3, <2>4, <2>5, Zenon DEF ClientStep
<1> QED
  BY <1>1, <1>2, Zenon

\* Where a step of a loop leads.
LEMMA LoopMoves ==
    ASSUME TypeInv, NEW g \in Gens, FlushStep(g)
    PROVE  /\ \A h \in Gens \ {g} : /\ loop'[h] = loop[h]
                                    /\ fq'[h] = fq[h]
                                    /\ reply'[h] = reply[h]
           /\ loop'[g].pc = "Confirm" => ScanBlock(g)
           /\ loop'[g].pc = "RefreshWait" => ConfirmBlock(g)
           /\ loop'[g].pc = "Scan" => SnapshotReply(g) \/ ScanBlockFails(g) \/ RefreshReply(g)
<1> USE DEF TypeInv
<1> DEFINE l == loop[g]
           Away(k) == k.pc \notin {"Confirm", "RefreshWait", "Scan"}
<1>0. l \in FlushLocals
  BY Zenon DEF TypeOK
<1>1. \A h \in Gens \ {g} : loop'[h] = loop[h] /\ fq'[h] = fq[h] /\ reply'[h] = reply[h]
  BY Zenon DEF FlushStep, Phase1Poll, Phase1Reply, ReadBlockNumber, CompareBlocks, DrainReply,
     SnapshotReply, ScanBlock, ScanBlockFails, ConfirmBlock, RefreshReply, SendRequests, Goto,
     TypeOK
<1>a. Away(FreshLoop("Done")) /\ Away(FreshLoop("Phase1")) /\ Away(FreshLoop("Phase1Wait"))
  BY FreshLoopType DEF LoopPc
<1>b. \A k \in FlushLocals : Away(AtTop(k, "Tick")) /\ Away(AtTop(k, "Done"))
                             /\ Away(EndOfRange(g, k))
  BY AtTopType, EndOfRangeType DEF LoopPc
<1>c. \A k : loop' = [loop EXCEPT ![g] = k] => loop'[g] = k
  BY Zenon DEF TypeOK
<1>2. CASE Phase1Poll(g)
  BY <1>2, <1>1, <1>a, <1>c DEF Phase1Poll, SendRequests
<1>3. CASE Phase1Reply(g)
  <2>1. ASSUME NEW r \in reply[g]
        PROVE  Away([FreshLoop("Tick") EXCEPT !.target = r.ctx.target])
    BY FreshLoopType DEF LoopPc, FlushLocals
  <2> QED
    BY <1>3, <1>1, <1>a, <1>c, <2>1, Zenon DEF Phase1Reply, Goto
<1>4. CASE ReadBlockNumber(g)
  <2>1. Away([l EXCEPT !.pc = "Compare", !.newBlock = head])
    BY <1>0 DEF FlushLocals
  <2> QED
    BY <1>4, <1>1, <1>c, <2>1 DEF ReadBlockNumber, Goto
<1>5. CASE CompareBlocks(g)
  <2>1. Away([l EXCEPT !.pc = "SnapWait"]) /\ Away([l EXCEPT !.pc = "DrainWait"])
    BY <1>0 DEF FlushLocals
  <2> QED
    BY <1>5, <1>0, <1>1, <1>a, <1>b, <1>c, <2>1, Zenon DEF CompareBlocks, Goto, SendRequests
<1>6. CASE DrainReply(g)
  BY <1>6, <1>0, <1>1, <1>a, <1>b, <1>c, Zenon DEF DrainReply, Goto
<1>7. CASE SnapshotReply(g)
  <2>1. ASSUME NEW r \in reply[g]
        PROVE  LET k == [l EXCEPT !.target = r.ctx.target] IN
               /\ k \in FlushLocals
               /\ [k EXCEPT !.pc = "Scan", !.snap = r.snap, !.run = r.ctx.run,
                            !.bn = k.target, !.start = k.target].pc = "Scan"
    BY <1>0, ReplyType DEF FlushLocals
  <2>2. CASE Goto(g, FreshLoop("Done"))
    BY <2>2, <1>7, <1>1, <1>a, <1>c, Zenon DEF Goto
  <2>3. ASSUME NEW r \in reply[g],
               LET k == [l EXCEPT !.target = r.ctx.target] IN
               Goto(g, IF ~r.ctx.some THEN AtTop(l, "Tick")
                       ELSE IF k.target >= k.newBlock THEN AtTop(k, "Tick")
                       ELSE IF cancelled[g] /\ r.snap = {} THEN FreshLoop("Done")
                       ELSE [k EXCEPT !.pc = "Scan", !.snap = r.snap, !.run = r.ctx.run,
                                      !.bn = k.target, !.start = k.target])
        PROVE  loop'[g].pc \notin {"Confirm", "RefreshWait"}
    <3> DEFINE k == [l EXCEPT !.target = r.ctx.target]
               scan == [k EXCEPT !.pc = "Scan", !.snap = r.snap, !.run = r.ctx.run,
                                 !.bn = k.target, !.start = k.target]
    <3>1. k \in FlushLocals /\ scan.pc = "Scan"
      BY <2>1
    <3>2. loop'[g] \in {AtTop(l, "Tick"), AtTop(k, "Tick"), FreshLoop("Done"), scan}
      BY <2>3, <1>c DEF Goto
    <3> HIDE DEF k, scan
    <3> QED
      BY <1>0, <1>a, <1>b, <3>1, <3>2, Zenon
  <2> QED
    BY <1>7, <1>1, <2>2, <2>3, Zenon DEF SnapshotReply
<1>8. CASE ScanBlock(g)
  <2>1. PICK c : loop' = [loop EXCEPT ![g] = [l EXCEPT !.pc = "Confirm", !.confirmed = c]]
    BY <1>8, Zenon DEF ScanBlock
  <2>2. loop'[g].pc = "Confirm"
    BY <1>0, <1>c, <2>1, Zenon DEF FlushLocals
  <2> QED
    BY <1>8, <1>1, <2>2, Zenon
<1>9. CASE ScanBlockFails(g)
  BY <1>9, <1>0, <1>1, <1>c, NextBlockType, Zenon DEF ScanBlockFails
<1>10. CASE ConfirmBlock(g)
  <2>1. [l EXCEPT !.pc = "RefreshWait"].pc = "RefreshWait"
    BY <1>0 DEF FlushLocals
  <2> QED
    BY <1>10, <1>1, <1>a, <1>c, <2>1, Zenon DEF ConfirmBlock, SendRequests
<1>11. CASE RefreshReply(g)
  <2>1. ASSUME NEW r \in reply[g]
        PROVE  [l EXCEPT !.snap = r.snap, !.target = r.ctx.target] \in FlushLocals
    BY <1>0, ReplyType, Zenon DEF FlushLocals
  <2>2. PICK n : /\ Goto(g, n)
                 /\ \/ n \in {FreshLoop("Done"), EndOfRange(g, l)}
                    \/ \E k \in FlushLocals : n \in {EndOfRange(g, k), NextBlock(g, k)}
    BY <1>11, <2>1, Zenon DEF RefreshReply
  <2>3. n.pc \notin {"Confirm", "RefreshWait"}
    BY <1>0, <1>a, <1>b, <2>2, NextBlockType
  <2>4. loop'[g] = n
    BY <1>c, <2>2, Zenon DEF Goto
  <2> QED
    BY <1>11, <1>1, <2>3, <2>4, Zenon
<1> QED
  BY <1>2, <1>3, <1>4, <1>5, <1>6, <1>7, <1>8, <1>9, <1>10, <1>11, Zenon DEF FlushStep

-----------------------------------------------------------------------------
(* Nothing acknowledged is lost while the actor lives *)

\* What the actor is, or will be, told to forget is in the log.
RemovalsRecorded ==
    \A g \in Gens :
        /\ loop[g].pc = "Confirm" => \A t \in loop[g].confirmed : Recorded(t)
        /\ \A i \in DOMAIN fq[g] :
              fq[g][i].op = "RemoveConfirmed" => \A t \in fq[g][i].txs : Recorded(t)

\* insert_run_txs writes a row for each of its transactions, and no other.
LEMMA RowFor ==
    ASSUME NEW S, NEW run, NEW block, NEW by, NEW p \in S
    PROVE  \E r \in Rows(S, run, block, by) : r.tx = p.tx
<1> DEFINE again(q) == \E r \in db : r.tx = q.tx /\ r.by = by
           row(q) == [tx |-> q.tx, run |-> run, block |-> block, fb |-> q.fb, by |-> by,
                      again |-> again(q)]
<1>1. row(p) \in Rows(S, run, block, by)
  BY Zenon DEF Rows
<1>2. row(p).tx = p.tx
  <2> HIDE DEF again
  <2> QED
    OBVIOUS
<1> HIDE DEF row
<1> QED
  BY <1>1, <1>2, Zenon

LEMMA RowOf ==
    ASSUME NEW S, NEW run, NEW block, NEW by, NEW r \in Rows(S, run, block, by)
    PROVE  \E p \in S : r.tx = p.tx
<1> DEFINE again(p) == \E q \in db : q.tx = p.tx /\ q.by = by
           row(p) == [tx |-> p.tx, run |-> run, block |-> block, fb |-> p.fb, by |-> by,
                      again |-> again(p)]
<1>1. PICK p \in S : r = row(p)
  BY DEF Rows
<1>2. row(p).tx = p.tx
  <2> HIDE DEF again
  <2> QED
    OBVIOUS
<1> HIDE DEF row
<1> QED
  BY <1>1, <1>2, Zenon

\* A loop moves to "Confirm" with exactly the transactions it has just written.
LEMMA ConfirmedRecorded ==
    ASSUME TypeInv, NEW g \in Gens, ScanBlock(g)
    PROVE  \A t \in loop'[g].confirmed : Recorded(t)'
<1> DEFINE l == loop[g]
<1>1. PICK receipts \in Receipts(l.bn) :
        /\ db' = db \cup Rows(Confirmed(l, receipts), l.run, l.bn, g)
        /\ loop' = [loop EXCEPT ![g] = [l EXCEPT !.pc = "Confirm",
                                                 !.confirmed = Hashes(Confirmed(l, receipts))]]
  BY Zenon DEF ScanBlock
<1>2. loop'[g].confirmed = Hashes(Confirmed(l, receipts))
  BY <1>1 DEF TypeInv, TypeOK, FlushLocals
<1>3. ASSUME NEW p \in Confirmed(l, receipts) PROVE Recorded(p.tx)'
  <2>1. PICK r \in Rows(Confirmed(l, receipts), l.run, l.bn, g) : r.tx = p.tx
    BY <1>3, RowFor
  <2> QED
    BY <1>1, <2>1, Zenon DEF Recorded
<1> QED
  BY <1>2, <1>3 DEF Hashes

LEMMA RemovalsStep == TypeInv /\ RemovalsRecorded /\ [Next]_vars => RemovalsRecorded'
<1> SUFFICES ASSUME TypeInv, RemovalsRecorded, [Next]_vars PROVE RemovalsRecorded'
  OBVIOUS
<1>0. \A t : Recorded(t) => Recorded(t)'
  BY LogGrows, Zenon
<1>1. CASE ActorStep
  BY <1>0, <1>1, ActorTakesRequests DEF RemovalsRecorded
<1>2. ASSUME NEW g \in Gens, FlushStep(g) PROVE RemovalsRecorded'
  <2>1. ASSUME NEW h \in Gens, loop'[h].pc = "Confirm", NEW t \in loop'[h].confirmed
        PROVE  Recorded(t)'
    <3>1. CASE h # g
      BY <1>0, <1>2, <2>1, <3>1, LoopMoves, Zenon DEF RemovalsRecorded
    <3>2. CASE h = g
      BY <1>2, <2>1, <3>2, LoopMoves, ConfirmedRecorded, Zenon
    <3> QED
      BY <3>1, <3>2, Zenon
  <2>2. ASSUME NEW h \in Gens, NEW i \in DOMAIN fq'[h], fq'[h][i].op = "RemoveConfirmed",
               NEW t \in fq'[h][i].txs
        PROVE  Recorded(t)'
    <3>1. CASE \E j \in DOMAIN fq[h] : fq'[h][i] = fq[h][j]
      BY <1>0, <2>2, <3>1 DEF RemovalsRecorded
    <3>2. CASE h = g /\ ConfirmBlock(g) /\ fq'[h][i] = ConfirmRequests(loop[g])[1]
      <4>1. loop[g].pc = "Confirm" /\ t \in loop[g].confirmed
        BY <2>2, <3>2 DEF ConfirmBlock, ConfirmRequests
      <4> QED
        BY <1>0, <4>1 DEF RemovalsRecorded
    <3> QED
      BY <1>2, <2>2, <3>1, <3>2, LoopSendsRequests, Zenon
  <2> QED
    BY <2>1, <2>2 DEF RemovalsRecorded
<1>3. CASE ClientStep \/ \E t \in Txs : CallbackStep(t)
  <2>1. FreshLoop("Phase1").pc = "Phase1"
    BY FreshLoopType DEF LoopPc
  <2> QED
    BY <1>0, <1>3, <2>1, OthersStep DEF RemovalsRecorded
<1>4. CASE EnvStep
  BY <1>0, <1>4, Zenon DEF RemovalsRecorded, EnvStep, MineBlock, HandleFlashblockMark, loopVars
<1>5. CASE UNCHANGED vars
  BY <1>0, <1>5 DEF RemovalsRecorded, vars, loopVars
<1> QED
  BY <1>1, <1>2, <1>3, <1>4, <1>5 DEF Next

\* Flashblock marks do not change which transactions are pending.
LEMMA MarkKeepsHashes ==
    ASSUME NEW t \in Txs, NEW fb \in FbIndices, TypeInv, HandleFlashblockMark(t, fb)
    PROVE  Hashes(cache') = Hashes(cache)
<1> DEFINE mark(p) == IF p.tx = t /\ p.fb = 0 THEN [p EXCEPT !.fb = fb] ELSE p
<1>1. \A p \in cache : mark(p).tx = p.tx
  BY DEF TypeInv, TypeOK, PendingRunTx
<1>2. cache' = cache \/ cache' = {mark(p) : p \in cache}
  BY Zenon DEF HandleFlashblockMark
<1> HIDE DEF mark
<1> QED
  BY <1>1, <1>2 DEF Hashes

LEMMA AccountedStep ==
    TypeInv /\ RemovalsRecorded /\ Accounted /\ [Next]_vars => Accounted'
<1> SUFFICES ASSUME TypeInv, RemovalsRecorded, Accounted, [Next]_vars,
                    status' = "Running", NEW t \in Txs, cb'[t] = "acked"
             PROVE  t \in Hashes(cache') \/ Recorded(t)' \/ t \in dropped'
  BY Zenon DEF Accounted
<1> USE DEF TypeInv
<1>0. Recorded(t) => Recorded(t)'
  BY LogGrows
<1>g. ASSUME status = "Running", cb[t] = "acked"
      PROVE  t \in Hashes(cache) \/ Recorded(t) \/ t \in dropped
  BY <1>g DEF Accounted
<1>r. ~ActorGone("Failed") /\ ~ActorGone("ShutDown")
  BY Zenon DEF ActorGone
<1>1. CASE HandleGetCacheLen
  BY <1>0, <1>1, <1>g, <1>r, Zenon DEF HandleGetCacheLen, AnswerRequest, histVars, Message
<1>2. CASE HandleInitCtx
  BY <1>0, <1>2, <1>g DEF HandleInitCtx, histVars, Message
<1>3. CASE HandleSentRunTx
  <2> DEFINE u == Head(api).tx
  <2>1. PICK fb \in FbIndices \cup {0} :
          /\ cache' = {p \in cache : p.tx # u} \cup {[tx |-> u, fb |-> fb]}
          /\ cb' = [cb EXCEPT ![u] = "acked"]
    BY <1>3, <1>r, Zenon DEF HandleSentRunTx
  <2>2. u \in Hashes(cache') /\ (t \in Hashes(cache) /\ t # u => t \in Hashes(cache'))
    <3>1. [tx |-> u, fb |-> fb] \in cache' /\ [tx |-> u, fb |-> fb].tx = u
      BY <2>1, Zenon
    <3>2. \A p \in cache : p.tx # u => p \in cache'
      BY <2>1, Zenon
    <3> HIDE DEF u
    <3> QED
      BY <3>1, <3>2, Zenon DEF Hashes
  <2>3. t # u => cb[t] = "acked"
    BY <2>1, Zenon DEF TypeOK
  <2> QED
    BY <1>0, <1>3, <1>g, <2>2, <2>3, Zenon DEF HandleSentRunTx, Message, histVars
<1>4. CASE HandleRemovedRunTx
  <2>1. /\ cache' = {p \in cache : p.tx # Head(api).tx}
        /\ dropped' = dropped \cup {Head(api).tx}
    BY <1>4, <1>r DEF HandleRemovedRunTx, AnswerRequest
  <2> QED
    BY <1>0, <1>4, <1>g, <2>1, Zenon DEF HandleRemovedRunTx, Message, Hashes
<1>5. CASE HandleDumpCache
  <2>1. db' = db \cup Rows(cache, Head(api).run, 0, 0)
    BY <1>5, <1>r DEF HandleDumpCache
  <2>2. ASSUME t \in Hashes(cache) PROVE Recorded(t)'
    <3>1. PICK p \in cache : p.tx = t
      BY <2>2, Zenon DEF Hashes
    <3>2. PICK r \in Rows(cache, Head(api).run, 0, 0) : r.tx = p.tx
      BY RowFor
    <3> QED
      BY <2>1, <3>1, <3>2 DEF Recorded
  <2> QED
    BY <1>0, <1>5, <1>g, <2>2, Zenon DEF HandleDumpCache, Message, histVars
<1>6. CASE HandleClearCache
  BY <1>0, <1>6, <1>g, Zenon DEF HandleClearCache, Message
<1>7. CASE HandleReplaceFlushReceiver
  BY <1>0, <1>7, <1>g DEF HandleReplaceFlushReceiver, Message, histVars
<1>8. CASE HandleStop
  BY <1>8, <1>r, Zenon DEF HandleStop
<1>9. CASE HandleGetSnapshot
  BY <1>0, <1>9, <1>g DEF HandleGetSnapshot, Request, actorVars, histVars
<1>10. CASE HandleRemoveConfirmed
  <2> DEFINE req == Head(fq[flushRx])
  <2>1. cache' = {p \in cache : p.tx \notin req.txs}
    BY <1>10, Zenon DEF HandleRemoveConfirmed
  <2>2. \A x \in req.txs : Recorded(x)
    <3>1. fq[flushRx] \in Seq(FlushRequest) /\ fq[flushRx] # <<>> /\ req.op = "RemoveConfirmed"
      BY <1>10, Zenon DEF HandleRemoveConfirmed, Request, TypeOK
    <3>2. 1 \in DOMAIN fq[flushRx] /\ req = fq[flushRx][1]
      BY <3>1
    <3> QED
      BY <3>1, <3>2 DEF RemovalsRecorded, TypeOK
  <2> QED
    BY <1>0, <1>10, <1>g, <2>1, <2>2 DEF HandleRemoveConfirmed, Request, histVars, Hashes
<1>11. ASSUME NEW g \in Gens, FlushStep(g)
       PROVE  t \in Hashes(cache') \/ Recorded(t)' \/ t \in dropped'
  BY <1>0, <1>11, <1>g, LoopSendsRequests, Zenon DEF actorVars
<1>12. CASE ClientStep \/ \E u \in Txs : CallbackStep(u)
  BY <1>0, <1>12, <1>g, OthersStep, Zenon
<1>13. CASE EnvStep
  <2>1. ASSUME NEW included \in SUBSET Txs, MineBlock(included)
        PROVE  UNCHANGED <<status, cb, cache, dropped>>
    BY <2>1, Zenon DEF MineBlock, actorVars, histVars
  <2>2. ASSUME NEW u \in Txs, NEW fb \in FbIndices, HandleFlashblockMark(u, fb)
        PROVE  UNCHANGED <<status, cb, dropped>> /\ Hashes(cache') = Hashes(cache)
    BY <2>2, MarkKeepsHashes DEF HandleFlashblockMark, histVars
  <2> QED
    BY <1>0, <1>13, <1>g, <2>1, <2>2 DEF EnvStep
<1>14. CASE UNCHANGED vars
  BY <1>0, <1>14, <1>g DEF vars, actorVars, histVars
<1> QED
  BY <1>1, <1>2, <1>3, <1>4, <1>5, <1>6, <1>7, <1>8, <1>9, <1>10, <1>11, <1>12, <1>13, <1>14
  DEF Next, ActorStep

\* A new actor has not been asked to remove anything.
LEMMA RemovalsInit == Init => RemovalsRecorded
<1>1. Init => \A g \in Gens : loop[g].pc # "Confirm"
  BY FreshLoopType DEF Init, LoopPc
<1>2. Init => \A g \in Gens : fq[g] = <<>>
  BY Zenon DEF Init
<1>3. DOMAIN << >> = {}
  OBVIOUS
<1> QED
  BY <1>1, <1>2, <1>3, Zenon DEF RemovalsRecorded

\* While the actor lives no acknowledged transaction is lost: it is pending, in
\* the log, or was discarded on request.  RemoveConfirmed is the only way the
\* flush loop shrinks the cache, and by RemovalsRecorded it names recorded
\* transactions only.
THEOREM AccountedHolds == Spec => []Accounted
<1>1. Init => Accounted
  BY Zenon DEF Init, Accounted
<1> QED
  BY <1>1, TypeInvHolds, RemovalsInit, RemovalsStep, AccountedStep, PTL DEF Spec

-----------------------------------------------------------------------------
(* Flashblock marks *)

\* The buffer of marks is finite and capped, and holds none of a cached transaction.
MarksInv == IsFiniteSet(marks) /\ MarksApplied

\* Fewer marks and fewer pending transactions keep the marks in order.
LEMMA FewerMarks ==
    ASSUME MarksInv, marks' \subseteq marks, Hashes(cache') \subseteq Hashes(cache)
    PROVE  MarksInv'
<1>1. IsFiniteSet(marks') /\ Cardinality(marks') <= Cardinality(marks)
  BY FS_Subset DEF MarksInv
<1>2. Cardinality(marks) \in Nat /\ Cardinality(marks') \in Nat
  BY <1>1, FS_CardinalityType DEF MarksInv
<1> QED
  BY <1>1, <1>2, ConstantsAssumption DEF MarksInv, MarksApplied

\* What the actor's messages leave of cache and marks: a message that is not
\* SentRunTx only takes away.
LEMMA ActorForgets ==
    ASSUME TypeInv, ActorStep
    PROVE  HandleSentRunTx \/ (marks' \subseteq marks /\ cache' \subseteq cache)
<1>1. CASE HandleGetCacheLen \/ HandleRemovedRunTx \/ HandleDumpCache \/ HandleClearCache
  BY <1>1, Zenon DEF HandleGetCacheLen, HandleRemovedRunTx, HandleDumpCache, HandleClearCache,
     AnswerRequest, ActorGone
<1>2. CASE HandleStop \/ HandleInitCtx \/ HandleReplaceFlushReceiver \/ HandleGetSnapshot
  BY <1>2 DEF HandleStop, HandleInitCtx, HandleReplaceFlushReceiver, HandleGetSnapshot, ActorGone,
     actorVars
<1>3. CASE HandleRemoveConfirmed
  BY <1>3 DEF HandleRemoveConfirmed
<1> QED
  BY <1>1, <1>2, <1>3 DEF ActorStep

LEMMA MarksStep == TypeInv /\ MarksInv /\ [Next]_vars => MarksInv'
<1> SUFFICES ASSUME TypeInv, MarksInv, [Next]_vars PROVE MarksInv'
  OBVIOUS
<1>1. CASE ActorStep
  <2>1. CASE cache' \subseteq cache /\ marks' \subseteq marks
    BY <2>1, FewerMarks DEF Hashes
  <2>2. CASE HandleSentRunTx
    <3> DEFINE t == Head(api).tx
    <3>1. \/ cache' = {} /\ marks' = {}
          \/ /\ \E fb : cache' = {p \in cache : p.tx # t} \cup {[tx |-> t, fb |-> fb]}
             /\ marks' = marks \ BufferedMark(t)
      BY <2>2, Zenon DEF HandleSentRunTx, ActorGone
    <3>2. CASE cache' = {} /\ marks' = {}
      BY <3>2, <2>1
    <3>3. ASSUME NEW fb, cache' = {p \in cache : p.tx # t} \cup {[tx |-> t, fb |-> fb]},
                 marks' = marks \ BufferedMark(t)
          PROVE  MarksInv'
      <4>1. Hashes(cache') \subseteq Hashes(cache) \cup {t}
        <5>1. [tx |-> t, fb |-> fb].tx = t
          BY Zenon
        <5> HIDE DEF t
        <5> QED
          BY <3>3, <5>1 DEF Hashes
      <4>2. \A k \in marks' : k \in marks /\ k.tx # t
        BY <3>3 DEF BufferedMark
      <4>3. IsFiniteSet(marks') /\ Cardinality(marks') <= Cardinality(marks)
        BY <4>2, FS_Subset DEF MarksInv
      <4>4. Cardinality(marks) \in Nat /\ Cardinality(marks') \in Nat
        BY <4>3, FS_CardinalityType DEF MarksInv
      <4>5. Cardinality(marks') <= MaxMarks
        BY <4>3, <4>4, ConstantsAssumption DEF MarksInv, MarksApplied
      <4>6. \A k \in marks' : k.tx \notin Hashes(cache')
        BY <4>1, <4>2 DEF MarksInv, MarksApplied
      <4> QED
        BY <4>3, <4>5, <4>6, Zenon DEF MarksInv, MarksApplied
    <3> QED
      BY <3>1, <3>2, <3>3, Zenon
  <2> QED
    BY <1>1, <2>1, <2>2, ActorForgets
<1>2. ASSUME NEW t \in Txs, NEW fb \in FbIndices, HandleFlashblockMark(t, fb) PROVE MarksInv'
  <2>1. Hashes(cache') = Hashes(cache)
    BY <1>2, MarkKeepsHashes
  <2>2. CASE marks' = marks
    BY <2>1, <2>2, FewerMarks
  <2>3. CASE /\ t \notin Hashes(cache) /\ ~(Cardinality(marks) >= MaxMarks)
             /\ marks' = marks \cup {[tx |-> t, fb |-> fb]}
    <3>1. Cardinality(marks) \in Nat /\ Cardinality(marks) + 1 <= MaxMarks
      BY <2>3, FS_CardinalityType, ConstantsAssumption DEF MarksInv
    <3>2. IsFiniteSet(marks') /\ Cardinality(marks') <= Cardinality(marks) + 1
      <4>1. IsFiniteSet(marks)
        BY DEF MarksInv
      <4>2. PICK k : k = [tx |-> t, fb |-> fb]
        BY Zenon
      <4>3. marks' = marks \cup {k}
        BY <2>3, <4>2
      <4>4. /\ IsFiniteSet(marks \cup {k})
            /\ Cardinality(marks \cup {k}) =
                  IF k \in marks THEN Cardinality(marks) ELSE Cardinality(marks) + 1
        BY <4>1, FS_AddElement
      <4> QED
        BY <3>1, <4>3, <4>4
    <3>3. Cardinality(marks') \in Nat
      BY <3>2, FS_CardinalityType, Zenon
    <3>4. \A k \in marks' : k.tx \notin Hashes(cache)
      BY <2>3 DEF MarksInv, MarksApplied
    <3> QED
      BY <2>1, <3>1, <3>2, <3>3, <3>4, ConstantsAssumption DEF MarksInv, MarksApplied
  <2> QED
    BY <1>2, <2>2, <2>3 DEF HandleFlashblockMark
<1>3. ASSUME NEW included \in SUBSET Txs, MineBlock(included) PROVE MarksInv'
  BY <1>3, FewerMarks, Zenon DEF MineBlock, actorVars
<1>4. ASSUME NEW g \in Gens, FlushStep(g) PROVE MarksInv'
  BY <1>4, LoopSendsRequests, FewerMarks, Zenon DEF actorVars
<1>5. CASE ClientStep \/ \E t \in Txs : CallbackStep(t)
  BY <1>5, OthersStep, FewerMarks, Zenon
<1>6. CASE UNCHANGED vars
  BY <1>6, FewerMarks DEF vars, actorVars
<1> QED
  BY <1>1, <1>2, <1>3, <1>4, <1>5, <1>6 DEF Next, EnvStep

\* A flashblock mark never stays in the buffer beside the transaction it belongs
\* to, and the buffer stays within its cap, whatever the order in which marks,
\* SentRunTx and removals reach the actor.
THEOREM MarksHold == Spec => []MarksApplied
<1>1. Init => MarksInv
  <2>1. IsFiniteSet({}) /\ Cardinality({}) = 0
    BY FS_EmptySet
  <2> QED
    BY <2>1, ConstantsAssumption DEF Init, MarksInv, MarksApplied
<1>2. MarksInv => MarksApplied
  BY DEF MarksInv
<1> QED
  BY <1>1, <1>2, TypeInvHolds, MarksStep, PTL DEF Spec

-----------------------------------------------------------------------------
(* TxActor implements RunLog: a step of the actor, of a flush loop, of a callback  *)
(* or of a client is a step of the log, or changes nothing of it.                  *)

-----------------------------------------------------------------------------
(* Only acknowledged transactions are held or written *)

Acked == {t \in Txs : cb[t] = "acked"}

\* What the actor holds, has answered to a loop or a loop works on is
\* acknowledged.
HeldAcked ==
    /\ Hashes(cache) \subseteq Acked
    /\ \A g \in Gens :
          /\ Hashes(loop[g].snap) \subseteq Acked
          /\ \A r \in reply[g] : Hashes(r.snap) \subseteq Acked

\* An answer that was given is not taken back.
LEMMA AckedGrows ==
    ASSUME TypeInv, [Next]_vars
    PROVE  Acked \subseteq Acked'
<1> USE DEF TypeInv
<1>1. CASE ActorStep
  <2>1. CASE HandleSentRunTx
    BY <2>1, Zenon DEF HandleSentRunTx, Acked, TypeOK
  <2> QED
    BY <1>1, <2>1, Zenon DEF ActorStep, HandleGetCacheLen, HandleInitCtx, HandleRemovedRunTx,
       HandleDumpCache, HandleClearCache, HandleReplaceFlushReceiver, HandleStop,
       HandleGetSnapshot, HandleRemoveConfirmed, Acked
<1>2. ASSUME NEW g \in Gens, FlushStep(g) PROVE Acked \subseteq Acked'
  BY <1>2, LoopSendsRequests DEF Acked
<1>3. CASE ClientStep \/ \E t \in Txs : CallbackStep(t)
  BY <1>3, OthersStep, Zenon DEF Acked
<1>4. CASE EnvStep
  BY <1>4 DEF EnvStep, MineBlock, HandleFlashblockMark, Acked
<1>5. CASE UNCHANGED vars
  BY <1>5 DEF vars, Acked
<1> QED
  BY <1>1, <1>2, <1>3, <1>4, <1>5, Zenon DEF Next

\* At the top of its loop a flush loop has no snapshot.
LEMMA TopSnap ==
    ASSUME NEW g, NEW l, NEW pc
    PROVE  FreshLoop(pc).snap = {} /\ AtTop(l, pc).snap = {} /\ EndOfRange(g, l).snap = {}
<1>1. FreshLoop(pc).snap = {} /\ \A k, c : AtTop(k, c).snap = {}
  BY DEF FreshLoop, AtTop, TopLocals
<1>2. \E k, c : EndOfRange(g, l) = AtTop(k, c)
  BY DEF EndOfRange
<1> QED
  BY <1>1, <1>2, Zenon

\* A loop works on what it was answered.
LEMMA LoopSnap ==
    ASSUME TypeInv, NEW g \in Gens, FlushStep(g)
    PROVE  \/ loop'[g].snap = {}
           \/ loop'[g].snap = loop[g].snap /\ loop[g].pc \in {"Tick", "Compare", "Scan", "Confirm"}
           \/ \E r \in reply[g] : loop'[g].snap = r.snap
<1> USE DEF TypeInv
<1> DEFINE l == loop[g]
<1>0. l \in FlushLocals
  BY DEF TypeOK
<1>c. \A k : loop' = [loop EXCEPT ![g] = k] => loop'[g] = k
  BY DEF TypeOK
<1>n. \A k \in FlushLocals : NextBlock(g, k).snap \in {k.snap, {}}
  <2> SUFFICES ASSUME NEW k \in FlushLocals PROVE NextBlock(g, k).snap \in {k.snap, {}}
    BY Zenon
  <2>1. [k EXCEPT !.pc = "Scan", !.bn = k.bn + 1, !.confirmed = {}].snap = k.snap
    BY DEF FlushLocals
  <2> QED
    BY <2>1, TopSnap, Zenon DEF NextBlock
<1>1. CASE Phase1Poll(g)
  BY <1>1, <1>c, TopSnap, Zenon DEF Phase1Poll, SendRequests
<1>2. CASE Phase1Reply(g)
  <2>1. \A b : [FreshLoop("Tick") EXCEPT !.target = b].snap = {}
    BY DEF FreshLoop, TopLocals
  <2> QED
    BY <1>2, <1>c, <2>1, TopSnap, Zenon DEF Phase1Reply, Goto
<1>3. CASE ReadBlockNumber(g)
  <2>1. [l EXCEPT !.pc = "Compare", !.newBlock = head].snap = l.snap
    BY <1>0, Zenon DEF FlushLocals
  <2> QED
    BY <1>3, <1>c, <2>1 DEF ReadBlockNumber, Goto
<1>4. CASE CompareBlocks(g)
  <2>1. [l EXCEPT !.pc = "SnapWait"].snap = l.snap /\ [l EXCEPT !.pc = "DrainWait"].snap = l.snap
    BY <1>0 DEF FlushLocals
  <2>2. CASE l.target < l.newBlock
    BY <1>4, <1>c, <2>1, <2>2, TopSnap, Zenon DEF CompareBlocks, SendRequests
  <2>3. CASE ~(l.target < l.newBlock) /\ cancelled[g]
    BY <1>4, <1>c, <2>1, <2>3, TopSnap, Zenon DEF CompareBlocks, SendRequests
  <2>4. CASE ~(l.target < l.newBlock) /\ ~cancelled[g]
    <3>1. loop' = [loop EXCEPT ![g] = AtTop(l, "Tick")]
      BY <1>4, <2>4 DEF CompareBlocks, Goto
    <3>2. loop'[g] = AtTop(l, "Tick")
      BY <1>c, <3>1, Zenon
    <3> QED
      BY <3>2, TopSnap, Zenon
  <2> QED
    BY <2>2, <2>3, <2>4, Zenon
<1>5. CASE DrainReply(g)
  BY <1>5, <1>c, TopSnap, Zenon DEF DrainReply, Goto
<1>6. CASE SnapshotReply(g)
  <2> DEFINE k(r) == [l EXCEPT !.target = r.ctx.target]
             scan(r) == [k(r) EXCEPT !.pc = "Scan", !.snap = r.snap, !.run = r.ctx.run,
                                     !.bn = k(r).target, !.start = k(r).target]
  <2>1. \A r \in reply[g] : scan(r).snap = r.snap
    BY <1>0 DEF FlushLocals
  <2>2. PICK n : /\ Goto(g, n)
                 /\ \/ n = FreshLoop("Done")
                    \/ \E q : n = AtTop(q, "Tick")
                    \/ \E r \in reply[g] : n = scan(r)
    BY <1>6, Zenon DEF SnapshotReply
  <2> HIDE DEF scan
  <2>3. n.snap = {} \/ \E r \in reply[g] : n.snap = r.snap
    BY <2>1, <2>2, TopSnap
  <2> QED
    BY <1>c, <2>2, <2>3, Zenon DEF Goto
<1>7. CASE ScanBlock(g)
  <2>1. PICK c : loop' = [loop EXCEPT ![g] = [l EXCEPT !.pc = "Confirm", !.confirmed = c]]
    BY <1>7, Zenon DEF ScanBlock
  <2>2. [l EXCEPT !.pc = "Confirm", !.confirmed = c].snap = l.snap
    BY <1>0 DEF FlushLocals
  <2> QED
    BY <1>7, <1>c, <2>1, <2>2 DEF ScanBlock
<1>8. CASE ScanBlockFails(g)
  BY <1>8, <1>0, <1>c, <1>n, Zenon DEF ScanBlockFails
<1>9. CASE ConfirmBlock(g)
  <2>1. [l EXCEPT !.pc = "RefreshWait"].snap = l.snap
    BY <1>0 DEF FlushLocals
  <2> QED
    BY <1>9, <1>c, <2>1, TopSnap, Zenon DEF ConfirmBlock, SendRequests
<1>10. CASE RefreshReply(g)
  <2>1. ASSUME NEW r \in reply[g]
        PROVE  LET k == [l EXCEPT !.snap = r.snap, !.target = r.ctx.target]
               IN k \in FlushLocals /\ k.snap = r.snap
    BY <1>0, ReplyType, Zenon DEF FlushLocals
  <2>2. PICK n : /\ Goto(g, n)
                 /\ \/ n = FreshLoop("Done")
                    \/ \E k : n = EndOfRange(g, k)
                    \/ \E r \in reply[g], k \in FlushLocals : k.snap = r.snap /\ n = NextBlock(g, k)
    BY <1>10, <2>1, Zenon DEF RefreshReply
  <2>3. n.snap = {} \/ \E r \in reply[g] : n.snap = r.snap
    BY <1>n, <2>2, TopSnap, Zenon
  <2> QED
    BY <1>c, <2>2, <2>3, Zenon DEF Goto
<1> QED
  BY <1>1, <1>2, <1>3, <1>4, <1>5, <1>6, <1>7, <1>8, <1>9, <1>10, Zenon DEF FlushStep

\* What the actor does to the cache and to the answers it gives to loops.
LEMMA ActorHolds ==
    ASSUME TypeInv, ActorStep
    PROVE  /\ Hashes(cache') \subseteq Hashes(cache) \cup Acked'
           /\ \A g \in Gens : \A r \in reply'[g] : r \in reply[g] \/ r.snap = cache
<1> USE DEF TypeInv
<1>1. CASE HandleSentRunTx
  <2> DEFINE u == Head(api).tx
  <2>1. \/ cache' = {}
        \/ /\ \E fb : cache' = {p \in cache : p.tx # u} \cup {[tx |-> u, fb |-> fb]}
           /\ cb' = [cb EXCEPT ![u] = "acked"]
    BY <1>1, Zenon DEF HandleSentRunTx, ActorGone
  <2>2. u \in Txs
    BY <1>1, MessageType, Zenon DEF HandleSentRunTx, Message
  <2>3. \A fb : [tx |-> u, fb |-> fb].tx = u
    OBVIOUS
  <2>4. cb' = [cb EXCEPT ![u] = "acked"] => u \in Acked'
    BY <2>2, Zenon DEF Acked, TypeOK
  <2>5. reply' = reply
    BY <1>1, Zenon DEF HandleSentRunTx
  <2> HIDE DEF u
  <2> QED
    BY <2>1, <2>3, <2>4, <2>5 DEF Hashes
<1>2. CASE HandleGetSnapshot
  <2>1. reply' = [reply EXCEPT ![flushRx] = {[snap |-> cache, ctx |-> ctx]}] /\ cache' = cache
    BY <1>2 DEF HandleGetSnapshot, actorVars
  <2>2. [snap |-> cache, ctx |-> ctx].snap = cache
    OBVIOUS
  <2> QED
    BY <2>1, <2>2 DEF TypeOK
<1>3. CASE HandleInitCtx \/ HandleReplaceFlushReceiver \/ HandleStop \/ HandleRemoveConfirmed
  <2>1. reply' = reply /\ cache' \subseteq cache
    BY <1>3 DEF HandleInitCtx, HandleReplaceFlushReceiver, HandleStop, HandleRemoveConfirmed,
       ActorGone, loopVars
  <2> QED
    BY <2>1 DEF Hashes
<1>4. CASE HandleGetCacheLen \/ HandleRemovedRunTx \/ HandleDumpCache \/ HandleClearCache
  <2>1. reply' = reply
    BY <1>4, Zenon DEF HandleGetCacheLen, HandleRemovedRunTx, HandleDumpCache, HandleClearCache
  <2>2. cache' \subseteq cache
    BY <1>4, Zenon DEF HandleGetCacheLen, HandleRemovedRunTx, HandleDumpCache, HandleClearCache,
       AnswerRequest, ActorGone
  <2> QED
    BY <2>1, <2>2, Zenon DEF Hashes
<1> QED
  BY <1>1, <1>2, <1>3, <1>4, Zenon DEF ActorStep

\* A loop reads its answers and gives none.
LEMMA LoopReads ==
    ASSUME TypeInv, NEW g \in Gens, FlushStep(g)
    PROVE  reply' = reply \/ reply' = [reply EXCEPT ![g] = {}]
BY Zenon DEF FlushStep, Phase1Poll, Phase1Reply, ReadBlockNumber, CompareBlocks, DrainReply,
   SnapshotReply, ScanBlock, ScanBlockFails, ConfirmBlock, RefreshReply, SendRequests, Goto

LEMMA HeldAckedStep == TypeInv /\ HeldAcked /\ [Next]_vars => HeldAcked'
<1> SUFFICES ASSUME TypeInv, HeldAcked, [Next]_vars PROVE HeldAcked'
  OBVIOUS
<1>0. Acked \subseteq Acked'
  BY AckedGrows
<1>1. CASE ActorStep
  <2>1. UNCHANGED loop
    BY <1>1, ActorTakesRequests, Zenon
  <2> QED
    BY <1>0, <1>1, <2>1, ActorHolds, Zenon DEF HeldAcked
<1>2. ASSUME NEW g \in Gens, FlushStep(g) PROVE HeldAcked'
  <2>1. cache' = cache
    BY <1>2, LoopSendsRequests, Zenon DEF actorVars
  <2>2. \A h \in Gens : \A r \in reply'[h] : r \in reply[h]
    BY <1>2, LoopReads, Zenon DEF TypeInv, TypeOK
  <2>3. Hashes(loop'[g].snap) \subseteq Acked
    <3>1. Hashes({}) = {}
      BY DEF Hashes
    <3> QED
      BY <1>2, <3>1, LoopSnap, Zenon DEF HeldAcked
  <2>4. \A h \in Gens \ {g} : loop'[h] = loop[h]
    BY <1>2, LoopMoves, Zenon
  <2> QED
    BY <1>0, <2>1, <2>2, <2>3, <2>4, Zenon DEF HeldAcked
<1>3. CASE ClientStep \/ \E t \in Txs : CallbackStep(t)
  <2>1. Hashes(FreshLoop("Phase1").snap) = {}
    BY TopSnap, Zenon DEF Hashes
  <2> QED
    BY <1>0, <1>3, <2>1, OthersStep, Zenon DEF HeldAcked
<1>4. CASE EnvStep
  <2>1. Hashes(cache') = Hashes(cache)
    BY <1>4, MarkKeepsHashes, Zenon DEF EnvStep, MineBlock, actorVars
  <2>2. UNCHANGED <<loop, reply>>
    BY <1>4, Zenon DEF EnvStep, MineBlock, HandleFlashblockMark, loopVars
  <2> QED
    BY <1>0, <2>1, <2>2 DEF HeldAcked
<1>5. CASE UNCHANGED vars
  BY <1>0, <1>5, Zenon DEF HeldAcked, vars, actorVars, loopVars
<1> QED
  BY <1>1, <1>2, <1>3, <1>4, <1>5 DEF Next

-----------------------------------------------------------------------------
(* Steps of the log *)

Written == {r.tx : r \in db}

\* insert_run_txs adds the transactions it is given to those in the log.
LEMMA RowsWritten ==
    ASSUME NEW S, NEW run, NEW block, NEW by, db' = db \cup Rows(S, run, block, by)
    PROVE  Written' = Written \cup Hashes(S)
<1> DEFINE new == Rows(S, run, block, by)
<1>1. \A p \in S : \E r \in new : r.tx = p.tx
  BY RowFor
<1>2. \A r \in new : \E p \in S : r.tx = p.tx
  BY RowOf
<1>4. db' = db \cup new
  BY Zenon
<1> HIDE DEF new
<1>3. Hashes(S) = {r.tx : r \in new}
  BY <1>1, <1>2 DEF Hashes
<1>5. {r.tx : r \in db'} = {r.tx : r \in db} \cup {r.tx : r \in new}
  BY <1>4, Zenon
<1> QED
  BY <1>3, <1>5, Zenon DEF Written

LEMMA Stutters ==
    ASSUME status' = status, Acked' = Acked, Hashes(cache') = Hashes(cache), db' = db,
           dropped' = dropped
    PROVE  UNCHANGED Log!logVars
BY DEF Log!logVars, Acked

LEMMA Dies ==
    ASSUME status = "Running", status' # "Running", cache' = {}, Acked' = Acked, db' = db,
           dropped' = dropped
    PROVE  Log!Die
BY DEF Log!Die, Acked, Hashes

LEMMA Takes ==
    ASSUME NEW t \in Txs, status = "Running", status' = status, Acked' = Acked \cup {t},
           Hashes(cache') = Hashes(cache) \cup {t}, db' = db, dropped' = dropped
    PROVE  Log!Take(t)
BY Zenon DEF Log!Take, Acked

LEMMA Writes ==
    ASSUME NEW S \in SUBSET Txs, S \subseteq Acked, Written' = Written \cup S, status' = status,
           Acked' = Acked, cache' = cache, dropped' = dropped
    PROVE  Log!Write(S)
BY Zenon DEF Log!Write, Acked, Written

LEMMA Forgets ==
    ASSUME NEW S \in SUBSET Txs, S \subseteq Hashes(cache), S \subseteq Written,
           status = "Running", status' = status, Hashes(cache') = Hashes(cache) \ S,
           Acked' = Acked, db' = db, dropped' = dropped
    PROVE  Log!Forget(S)
BY Zenon DEF Log!Forget, Acked, Written

LEMMA Dumps ==
    ASSUME status = "Running", Written' = Written \cup Hashes(cache), cache' = {},
           Acked' = Acked, dropped' = dropped
    PROVE  Log!Dump
BY Zenon DEF Log!Dump, Log!LiveOr, Acked, Written, Hashes

LEMMA Discards ==
    ASSUME NEW S \in SUBSET Txs, S \subseteq Hashes(cache), status = "Running",
           \/ status' = "Running" /\ Hashes(cache') = Hashes(cache) \ S
           \/ status' # "Running" /\ cache' = {},
           dropped' = dropped \cup S, Acked' = Acked, db' = db
    PROVE  Log!Discard(S)
BY Zenon DEF Log!Discard, Log!LiveOr, Acked, Hashes

\* Every step is a step of the log: what the loop has the actor forget is written
\* by RemovalsRecorded, and what it writes is acknowledged by HeldAcked.
LEMMA LogStep ==
    TypeInv /\ RemovalsRecorded /\ HeldAcked /\ [Next]_vars => [Log!Next]_(Log!logVars)
<1> SUFFICES ASSUME TypeInv, RemovalsRecorded, HeldAcked, [Next]_vars
             PROVE  Log!Next \/ UNCHANGED Log!logVars
  OBVIOUS
<1> USE DEF TypeInv
<1>a. cb' = cb => Acked' = Acked
  BY DEF Acked
<1>b. Hashes(cache) \subseteq Txs /\ Hashes({}) = {}
  BY PendingIsNat, Zenon DEF TypeOK, Hashes
<1>d. ASSUME Message("GetCacheLen") \/ Message("SentRunTx") \/ Message("RemovedRunTx")
               \/ Message("DumpCache") \/ (status = "Running" /\ stopSig),
             ActorGone("Failed") \/ ActorGone("ShutDown"), UNCHANGED <<cb, db, dropped>>
      PROVE  Log!Next
  <2>1. status = "Running" /\ status' # "Running" /\ cache' = {}
    BY <1>d DEF Message, ActorGone
  <2> QED
    BY <1>a, <1>d, <2>1, Dies DEF Log!Next
<1>1. CASE HandleGetCacheLen
  <2>1. UNCHANGED <<cb, db, dropped>>
    BY <1>1 DEF HandleGetCacheLen, histVars
  <2>2. CASE ActorGone("Failed")
    BY <1>1, <1>d, <2>1, <2>2 DEF HandleGetCacheLen
  <2>3. CASE ~ActorGone("Failed")
    <3>1. status' = status /\ cache' = cache
      BY <1>1, <2>3 DEF HandleGetCacheLen, AnswerRequest
    <3> QED
      BY <1>a, <2>1, <3>1, Stutters
  <2> QED
    BY <2>2, <2>3
<1>2. CASE HandleInitCtx \/ HandleReplaceFlushReceiver \/ HandleGetSnapshot
  <2>1. UNCHANGED <<status, cb, cache, db, dropped>>
    BY <1>2 DEF HandleInitCtx, HandleReplaceFlushReceiver, HandleGetSnapshot, actorVars, histVars
  <2> QED
    BY <1>a, <2>1, Stutters, Zenon
<1>3. CASE HandleSentRunTx
  <2> DEFINE u == Head(api).tx
  <2>0. u \in Txs /\ status = "Running"
    BY <1>3, MessageType, Zenon DEF HandleSentRunTx, Message
  <2>1. UNCHANGED <<db, dropped>>
    BY <1>3, Zenon DEF HandleSentRunTx, histVars
  <2>2. CASE ActorGone("Failed") /\ UNCHANGED cb
    BY <1>3, <1>d, <2>1, <2>2, Zenon DEF HandleSentRunTx
  <2>3. CASE ~(ActorGone("Failed") /\ UNCHANGED cb)
    <3>1. PICK fb : /\ cache' = {p \in cache : p.tx # u} \cup {[tx |-> u, fb |-> fb]}
                    /\ cb' = [cb EXCEPT ![u] = "acked"]
                    /\ status' = status
      BY <1>3, <2>3, Zenon DEF HandleSentRunTx
    <3>2. Acked' = Acked \cup {u}
      BY <2>0, <3>1, Zenon DEF Acked, TypeOK
    <3>3. [tx |-> u, fb |-> fb].tx = u
      BY Zenon
    <3> HIDE DEF u
    <3>4. Hashes(cache') = Hashes(cache) \cup {u}
      BY <3>1, <3>3, Zenon DEF Hashes
    <3>5. PICK t \in Txs : t = u
      BY <2>0, Zenon
    <3>6. Log!Take(t)
      BY <2>0, <2>1, <3>1, <3>2, <3>4, <3>5, Takes
    <3> QED
      BY <3>6 DEF Log!Next
  <2> QED
    BY <2>2, <2>3
<1>4. CASE HandleRemovedRunTx
  <2> DEFINE u == Head(api).tx
  <2>1. UNCHANGED <<cb, db>> /\ status = "Running"
    BY <1>4, Zenon DEF HandleRemovedRunTx, Message
  <2>2. CASE u \notin Hashes(cache)
    BY <1>4, <1>d, <2>1, <2>2, Zenon DEF HandleRemovedRunTx
  <2>3. CASE u \in Hashes(cache)
    <3>1. dropped' = dropped \cup {u} /\ AnswerRequest({p \in cache : p.tx # u})
      BY <1>4, <2>3, Zenon DEF HandleRemovedRunTx
    <3>2. \/ status' = "Running" /\ cache' = {p \in cache : p.tx # u}
          \/ status' # "Running" /\ cache' = {}
      BY <2>1, <3>1, Zenon DEF AnswerRequest, ActorGone
    <3> HIDE DEF u
    <3>3. cache' = {p \in cache : p.tx # u} => Hashes(cache') = Hashes(cache) \ {u}
      BY DEF Hashes
    <3>4. Log!Discard({u})
      BY <1>a, <1>b, <2>1, <2>3, <3>1, <3>2, <3>3, Discards, Zenon
    <3> QED
      BY <1>b, <2>3, <3>4 DEF Log!Next
  <2> QED
    BY <2>2, <2>3
<1>5. CASE HandleDumpCache
  <2>1. UNCHANGED <<cb, dropped>> /\ status = "Running"
    BY <1>5 DEF HandleDumpCache, Message, histVars
  <2>2. CASE ActorGone("Failed") /\ UNCHANGED db
    BY <1>5, <1>d, <2>1, <2>2 DEF HandleDumpCache
  <2>3. CASE db' = db \cup Rows(cache, Head(api).run, 0, 0) /\ AnswerRequest({})
    <3>1. cache' = {}
      BY <2>3 DEF AnswerRequest, ActorGone
    <3>2. Written' = Written \cup Hashes(cache)
      BY <2>3, RowsWritten
    <3> QED
      BY <1>a, <2>1, <3>1, <3>2, Dumps DEF Log!Next
  <2> QED
    BY <1>5, <2>2, <2>3, Zenon DEF HandleDumpCache
<1>6. CASE HandleClearCache
  <2>1. UNCHANGED <<cb, db>> /\ status = "Running" /\ dropped' = dropped \cup Hashes(cache)
    BY <1>6 DEF HandleClearCache, Message
  <2>2. cache' = {}
    BY <1>6 DEF HandleClearCache, AnswerRequest, ActorGone
  <2>3. Hashes(cache') = Hashes(cache) \ Hashes(cache)
    BY <1>b, <2>2
  <2>4. Log!Discard(Hashes(cache))
    BY <1>a, <1>b, <2>1, <2>2, <2>3, Discards
  <2> QED
    BY <1>b, <2>4 DEF Log!Next
<1>7. CASE HandleStop
  BY <1>7, <1>d DEF HandleStop, histVars
<1>8. CASE HandleRemoveConfirmed
  <2> DEFINE req == Head(fq[flushRx])
             gone == Hashes(cache) \cap req.txs
  <2>1. UNCHANGED <<cb, db, dropped, status>> /\ status = "Running"
    BY <1>8 DEF HandleRemoveConfirmed, Request, histVars
  <2>2. cache' = {p \in cache : p.tx \notin req.txs}
    BY <1>8, Zenon DEF HandleRemoveConfirmed
  <2>3. \A t \in req.txs : Recorded(t)
    <3>1. fq[flushRx] \in Seq(FlushRequest) /\ fq[flushRx] # <<>> /\ req.op = "RemoveConfirmed"
      BY <1>8, Zenon DEF HandleRemoveConfirmed, Request, TypeOK
    <3>2. 1 \in DOMAIN fq[flushRx] /\ req = fq[flushRx][1]
      BY <3>1
    <3> QED
      BY <3>1, <3>2 DEF RemovalsRecorded, TypeOK
  <2>4. gone \subseteq Written
    BY <2>3 DEF Recorded, Written
  <2>5. Hashes(cache') = Hashes(cache) \ gone
    BY <2>2 DEF Hashes
  <2>6. Log!Forget(gone)
    <3> HIDE DEF gone
    <3>1. gone \subseteq Hashes(cache)
      BY DEF gone
    <3> QED
      BY <1>a, <1>b, <2>1, <2>4, <2>5, <3>1, Forgets
  <2> QED
    BY <1>b, <2>6 DEF Log!Next
<1>9. ASSUME NEW g \in Gens, FlushStep(g) PROVE Log!Next \/ UNCHANGED Log!logVars
  <2>1. UNCHANGED <<cb, status, cache, dropped>>
    BY <1>9, LoopSendsRequests DEF actorVars
  <2>2. CASE db' = db
    BY <1>a, <2>1, <2>2, Stutters
  <2>3. CASE ScanBlock(g)
    <3> DEFINE l == loop[g]
    <3>1. PICK receipts : db' = db \cup Rows(Confirmed(l, receipts), l.run, l.bn, g)
      BY <2>3 DEF ScanBlock
    <3>2. Written' = Written \cup Hashes(Confirmed(l, receipts))
      BY <3>1, RowsWritten
    <3>3. Hashes(Confirmed(l, receipts)) \subseteq Acked
      BY DEF HeldAcked, Confirmed, Hashes
    <3>4. Acked \subseteq Txs
      BY DEF Acked
    <3>5. PICK S \in SUBSET Txs : S = Hashes(Confirmed(l, receipts))
      BY <3>3, <3>4, Zenon
    <3>6. Log!Write(S)
      BY <1>a, <2>1, <3>2, <3>3, <3>5, Writes
    <3> QED
      BY <3>6 DEF Log!Next
  <2>4. db' = db \/ ScanBlock(g)
    BY <1>9, Zenon DEF FlushStep, Phase1Poll, Phase1Reply, ReadBlockNumber, CompareBlocks, DrainReply,
       SnapshotReply, ScanBlockFails, ConfirmBlock, RefreshReply, SendRequests, Goto
  <2> QED
    BY <2>2, <2>3, <2>4, Zenon
<1>10. CASE ClientStep \/ \E t \in Txs : CallbackStep(t)
  <2>1. Acked' = Acked
    BY <1>10, OthersStep, Zenon DEF Acked
  <2> QED
    BY <1>10, <2>1, OthersStep, Stutters, Zenon
<1>11. CASE EnvStep
  <2>1. Hashes(cache') = Hashes(cache)
    BY <1>11, MarkKeepsHashes DEF EnvStep, MineBlock, actorVars
  <2>2. UNCHANGED <<status, cb, db, dropped>>
    BY <1>11, Zenon DEF EnvStep, MineBlock, HandleFlashblockMark, actorVars, histVars
  <2> QED
    BY <1>a, <2>1, <2>2, Stutters, Zenon
<1>12. CASE UNCHANGED vars
  <2>1. UNCHANGED <<status, cb, cache, db, dropped>>
    BY <1>12 DEF vars, actorVars, histVars
  <2> QED
    BY <1>a, <2>1, Stutters
<1> QED
  BY <1>1, <1>2, <1>3, <1>4, <1>5, <1>6, <1>7, <1>8, <1>9, <1>10, <1>11, <1>12
  DEF Next, ActorStep

\* Actor, flush loops and callbacks together implement RunLog: what was
\* acknowledged is held until it is in the log or discarded on request, and
\* nothing else is ever written, whichever messages, snapshots and restarts of the
\* loop bring it about.
THEOREM Implementation == Spec => ImplementsRunLog
<1>1. Init => HeldAcked
  <2>1. Init => \A g \in Gens : loop[g].pc # "Confirm" /\ loop[g].snap = {}
    BY DEF Init, FreshLoop, TopLocals
  <2>2. Hashes({}) = {}
    BY DEF Hashes
  <2>3. Init => cache = {} /\ \A g \in Gens : fq[g] = <<>> /\ reply[g] = {}
    BY Zenon DEF Init
  <2> QED
    BY <2>1, <2>2, <2>3, Zenon DEF HeldAcked
<1>2. Init => Log!Init
  BY DEF Init, Log!Init, Hashes
<1> QED
  BY <1>1, <1>2, TypeInvHolds, RemovalsInit, RemovalsStep, HeldAckedStep, LogStep, PTL
  DEF Spec, ImplementsRunLog, Log!Spec
==============================================================================
