----------------------------- MODULE TxActorRows -----------------------------
(***************************************************************************)
(* The rows of the log are true, and no flush loop writes one twice; over  *)
(* several runs of Contender::spam a transaction has one row (SpamRuns).   *)
(***************************************************************************)
EXTENDS TxActorChannels, SpamRuns

\* The transactions that loop g has written.
WrittenBy(g) == {r.tx : r \in {q \in db : q.by = g}}

\* The actor has still to be told by loop g what that has just written.
Telling(g) ==
    \/ loop[g].pc = "Confirm"
    \/ loop[g].pc = "RefreshWait" /\ fq[g] = ConfirmRequests(loop[g])

\* No loop sees again what it has written, in its snapshot, in an answer, or in the
\* cache the next answer is made from.
Unseen(g) ==
    /\ loop[g].pc = "Scan" => Hashes(loop[g].snap) \cap WrittenBy(g) = {}
    /\ \A r \in reply[g] : Hashes(r.snap) \cap WrittenBy(g) = {}
    /\ ~Closed(g) => \A t \in Hashes(cache) \cap WrittenBy(g) : Telling(g) /\ t \in loop[g].confirmed

NotAgain == \A g \in Gens : Unseen(g)

-----------------------------------------------------------------------------
(* The rows *)

LEMMA RowFields ==
    ASSUME NEW S, NEW id, NEW block, NEW by, NEW r \in Rows(S, id, block, by)
    PROVE  r.block = block /\ r.by = by
  BY DEF Rows

\* A row is marked as a second one when there is a first.
LEMMA RowAgain ==
    ASSUME NEW S, NEW id, NEW block, NEW by, NEW r \in Rows(S, id, block, by)
    PROVE  \E p \in S : r.tx = p.tx /\ (r.again => \E q \in db : q.tx = p.tx /\ q.by = by)
<1> DEFINE again(p) == \E q \in db : q.tx = p.tx /\ q.by = by
           row(p) == [tx |-> p.tx, run |-> id, block |-> block, fb |-> p.fb, by |-> by,
                      again |-> again(p)]
<1>1. PICK p \in S : r = row(p)
  BY DEF Rows
<1>2. row(p).tx = p.tx /\ (row(p).again => again(p))
  <2> HIDE DEF again
  <2> QED
    OBVIOUS
<1> HIDE DEF row
<1> QED
  BY <1>1, <1>2

\* Rows of one writer leave what the others have written as it is.
LEMMA WrittenByGrows ==
    ASSUME NEW S, NEW id, NEW block, NEW by, db' = db \cup Rows(S, id, block, by)
    PROVE  /\ \A g : g # by => WrittenBy(g)' = WrittenBy(g)
           /\ WrittenBy(by)' = WrittenBy(by) \cup Hashes(S)
<1> DEFINE new == Rows(S, id, block, by)
<1>1. \A p \in S : \E r \in new : r.tx = p.tx
  BY RowFor
<1>2. \A r \in new : r.by = by /\ \E p \in S : r.tx = p.tx
  <2>1. \A r \in new : r.by = by
    BY RowFields
  <2> QED
    BY <2>1, RowOf
<1>3. db' = db \cup new
  OBVIOUS
<1> HIDE DEF new
<1>4. \A g : g # by => WrittenBy(g)' = WrittenBy(g)
  BY <1>2, <1>3 DEF WrittenBy
<1>5. WrittenBy(by)' = WrittenBy(by) \cup Hashes(S)
  BY <1>1, <1>2, <1>3 DEF WrittenBy, Hashes
<1> QED
  BY <1>4, <1>5

\* Only the loops' scans and a dump write rows.
LEMMA Writers ==
    ASSUME TypeInv, [Next]_vars
    PROVE  \/ db' = db
           \/ HandleDumpCache /\ db' = db \cup Rows(cache, Head(api).run, 0, 0)
           \/ \E g \in Gens : ScanBlock(g)
<1>1. CASE ActorStep
  BY <1>1, Zenon DEF ActorStep, HandleGetCacheLen, HandleInitCtx, HandleSentRunTx, HandleRemovedRunTx,
     HandleDumpCache, HandleClearCache, HandleReplaceFlushReceiver, HandleStop,
     HandleGetSnapshot, HandleRemoveConfirmed
<1>2. ASSUME NEW g \in Gens, FlushStep(g) PROVE db' = db \/ ScanBlock(g)
  BY <1>2, Zenon DEF FlushStep, Phase1Poll, Phase1Reply, ReadBlockNumber, CompareBlocks, DrainReply,
     SnapshotReply, ScanBlockFails, ConfirmBlock, RefreshReply, SendRequests, Goto
<1>3. CASE ClientStep \/ \E t \in Txs : CallbackStep(t)
  BY <1>3, OthersStep
<1>4. CASE EnvStep
  BY <1>4 DEF EnvStep, MineBlock, HandleFlashblockMark
<1>5. CASE UNCHANGED vars
  BY <1>5 DEF vars
<1> QED
  BY <1>1, <1>2, <1>3, <1>4, <1>5, Zenon DEF Next

\* What a scan finds, and the rows it adds.
LEMMA ScanWrites ==
    ASSUME TypeInv, NEW g \in Gens, ScanBlock(g)
    PROVE  \E c \in SUBSET loop[g].snap :
              /\ \A p \in c : p.tx \in Txs /\ minedIn[p.tx] = loop[g].bn
              /\ db' = db \cup Rows(c, loop[g].run, loop[g].bn, g)
              /\ loop'[g].pc = "Confirm" /\ loop'[g].confirmed = Hashes(c)
              /\ UNCHANGED <<fq, reply, cb, minedIn>>
<1> DEFINE l == loop[g]
<1>1. PICK receipts \in Receipts(l.bn) :
        /\ db' = db \cup Rows(Confirmed(l, receipts), l.run, l.bn, g)
        /\ loop' = [loop EXCEPT ![g] = [l EXCEPT !.pc = "Confirm",
                                                 !.confirmed = Hashes(Confirmed(l, receipts))]]
  BY Zenon DEF ScanBlock
<1>2. \A t \in receipts : t \in Txs /\ minedIn[t] = l.bn
  BY <1>1 DEF Receipts, BlockTxs
<1>3. l \in FlushLocals /\ loop \in [Gens -> FlushLocals]
  BY DEF TypeInv, TypeOK
<1>4. loop'[g].pc = "Confirm" /\ loop'[g].confirmed = Hashes(Confirmed(l, receipts))
  BY <1>1, <1>3 DEF FlushLocals
<1>5. Confirmed(l, receipts) \in SUBSET l.snap /\ \A p \in Confirmed(l, receipts) : p.tx \in receipts
  BY DEF Confirmed
<1>6. UNCHANGED <<fq, reply, cb, minedIn>>
  BY DEF ScanBlock, chainVars
<1> QED
  BY <1>1, <1>2, <1>4, <1>5, <1>6

WrittenAcked == Written \subseteq Acked

LEMMA WrittenAckedStep == TypeInv /\ HeldAcked /\ WrittenAcked /\ [Next]_vars => WrittenAcked'
<1> SUFFICES ASSUME TypeInv, HeldAcked, WrittenAcked, [Next]_vars PROVE WrittenAcked'
  OBVIOUS
<1>0. Acked \subseteq Acked'
  BY AckedGrows
<1>1. CASE db' = db
  BY <1>0, <1>1 DEF WrittenAcked, Written
<1>2. CASE db' = db \cup Rows(cache, Head(api).run, 0, 0)
  BY <1>0, <1>2, RowsWritten DEF WrittenAcked, HeldAcked
<1>3. ASSUME NEW g \in Gens, ScanBlock(g) PROVE WrittenAcked'
  <2>1. PICK c \in SUBSET loop[g].snap : db' = db \cup Rows(c, loop[g].run, loop[g].bn, g)
    BY <1>3, ScanWrites
  <2>2. Hashes(c) \subseteq Acked
    BY <2>1 DEF HeldAcked, Hashes
  <2> QED
    BY <1>0, <2>1, <2>2, RowsWritten DEF WrittenAcked
<1> QED
  BY <1>1, <1>2, <1>3, Writers

-----------------------------------------------------------------------------
(* No loop sees again what it has written *)

\* A loop cut off from the actor stays cut off.
LEMMA ClosedStays ==
    ASSUME TypeInv, ReceiversOrdered, [Next]_vars, NEW g \in Gens, ~Closed(g)'
    PROVE  ~Closed(g)
<1>0. flushRx \in Nat /\ g \in Nat /\ api \in Seq(TxActorMessage)
  BY Typed, Numbered, Zenon
<1>1. status' = "Running" /\ ~(g < flushRx')
  BY DEF Closed
<1>2. CASE ActorStep
  <2>1. status = "Running"
    BY <1>2, Zenon DEF ActorStep, HandleGetCacheLen, HandleInitCtx, HandleSentRunTx,
       HandleRemovedRunTx, HandleDumpCache, HandleClearCache, HandleReplaceFlushReceiver,
       HandleStop, HandleGetSnapshot, HandleRemoveConfirmed, Message, Request
  <2>2. CASE HandleReplaceFlushReceiver
    <3>1. /\ 1 \in DOMAIN api /\ api[1] = Head(api) /\ Head(api).op = "ReplaceFlushReceiver"
          /\ flushRx' = Head(api).gen
      BY <1>0, <2>2 DEF HandleReplaceFlushReceiver, Message
    <3>2. flushRx < flushRx' /\ flushRx' \in Nat
      <4>1. api[1] \in TxActorMessage /\ flushRx < api[1].gen
        BY <1>0, <3>1 DEF ReceiversOrdered
      <4>2. api[1].gen \in Nat
        BY <3>1, <4>1, ConstantsAssumption DEF TxActorMessage, Gens
      <4> QED
        BY <3>1, <4>1, <4>2
    <3> QED
      BY <1>0, <1>1, <2>1, <3>2 DEF Closed
  <2> QED
    BY <1>1, <1>2, <2>1, <2>2, ActorTakesMessage, Zenon DEF Closed
<1>3. CASE UNCHANGED <<status, flushRx>>
  BY <1>1, <1>3 DEF Closed
<1>4. ASSUME NEW h \in Gens, FlushStep(h) PROVE UNCHANGED <<status, flushRx>>
  BY <1>4, LoopSendsRequests DEF actorVars
<1>5. CASE ClientStep \/ \E t \in Txs : CallbackStep(t)
  BY <1>3, <1>5, OthersStep
<1>6. CASE EnvStep
  BY <1>3, <1>6 DEF EnvStep, MineBlock, HandleFlashblockMark, actorVars
<1>7. CASE UNCHANGED vars
  BY <1>3, <1>7 DEF vars, actorVars
<1> QED
  BY <1>2, <1>3, <1>4, <1>5, <1>6, <1>7 DEF Next

\* What is cached anew had not been acknowledged before.
LEMMA CachedAnew ==
    ASSUME TypeInv, ActorStep
    PROVE  \A t \in Hashes(cache') : t \in Hashes(cache) \/ t \notin Acked
<1> USE DEF TypeInv
<1>1. CASE HandleSentRunTx
  <2> DEFINE u == Head(api).tx
  <2>1. CASE cache' = {}
    BY <2>1 DEF Hashes
  <2>2. CASE cb[u] = "queued"
    <3>1. PICK fb : cache' = {p \in cache : p.tx # u} \cup {[tx |-> u, fb |-> fb]}
      BY <1>1, <2>2, Zenon DEF HandleSentRunTx
    <3>2. [tx |-> u, fb |-> fb].tx = u /\ u \notin Acked
      BY <2>2 DEF Acked
    <3> HIDE DEF u
    <3> QED
      BY <3>1, <3>2 DEF Hashes
  <2> QED
    BY <1>1, <2>1, <2>2 DEF HandleSentRunTx, ActorGone
<1>2. CASE ~HandleSentRunTx
  <2>1. cache' \subseteq cache
    BY <1>2, Zenon DEF ActorStep, HandleGetCacheLen, HandleInitCtx, HandleRemovedRunTx,
       HandleDumpCache, HandleClearCache, HandleReplaceFlushReceiver, HandleStop,
       HandleGetSnapshot, HandleRemoveConfirmed, AnswerRequest, ActorGone, actorVars
  <2> QED
    BY <2>1, Zenon DEF Hashes
<1> QED
  BY <1>1, <1>2

LEMMA UnseenByActor ==
    ASSUME TypeInv, ReceiversOrdered, OneRequest, HeldAcked, WrittenAcked, NotAgain, ActorStep,
           NEW g \in Gens
    PROVE  Unseen(g)'
<1> USE DEF TypeInv
<1>0. loop' = loop /\ Unseen(g) /\ flushRx \in Gens /\ Gens \subseteq Nat
  BY ActorTakesRequests, Typed, Numbered, Zenon DEF NotAgain
<1>1. WrittenBy(g)' = WrittenBy(g)
  <2>1. CASE db' = db
    BY <2>1 DEF WrittenBy
  <2>2. CASE db' = db \cup Rows(cache, Head(api).run, 0, 0)
    BY <1>0, <2>2, WrittenByGrows, ConstantsAssumption DEF Gens
  <2> QED
    BY <2>1, <2>2, Zenon DEF ActorStep, HandleGetCacheLen, HandleInitCtx, HandleSentRunTx,
       HandleRemovedRunTx, HandleDumpCache, HandleClearCache, HandleReplaceFlushReceiver,
       HandleStop, HandleGetSnapshot, HandleRemoveConfirmed
<1>2. WrittenBy(g) \subseteq Acked
  BY DEF WrittenAcked, Written, WrittenBy
<1>3. \A t \in Hashes(cache') \cap WrittenBy(g)' : t \in Hashes(cache) \cap WrittenBy(g)
  BY <1>1, <1>2, CachedAnew
<1>4. ~Closed(g)' => ~Closed(g)
  BY ClosedStays DEF Next
<1>5. ~Closed(g) => \A t \in Hashes(cache) \cap WrittenBy(g) : Telling(g) /\ t \in loop[g].confirmed
  BY <1>0 DEF Unseen
<1>6. \A r \in reply'[g] : Hashes(r.snap) \cap WrittenBy(g) = {}
  <2>1. CASE reply' = reply
    BY <1>0, <2>1 DEF Unseen
  <2>2. CASE HandleGetSnapshot /\ g = flushRx
    <3>1. /\ reply'[g] = {[snap |-> cache, ctx |-> ctx]} /\ ~Closed(g)
          /\ fq[g] # <<>> /\ Head(fq[g]).op = "GetSnapshot"
      BY <1>0, <2>2 DEF HandleGetSnapshot, Request, Closed, TypeOK
    <3>2. fq[g] # ConfirmRequests(loop[g])
      <4>1. \A l : Head(ConfirmRequests(l)).op = "RemoveConfirmed"
        BY DEF ConfirmRequests
      <4> QED
        BY <3>1, <4>1, Zenon
    <3>3. loop[g].pc \in Waits
      BY <3>1, <3>2 DEF OneRequest
    <3>4. ~Telling(g)
      BY <3>2, <3>3 DEF Telling, Waits
    <3> QED
      BY <1>5, <3>1, <3>4
  <2>3. CASE HandleGetSnapshot /\ g # flushRx
    <3>1. reply'[g] = reply[g]
      BY <2>3 DEF HandleGetSnapshot, TypeOK
    <3> QED
      BY <1>0, <3>1 DEF Unseen
  <2> QED
    BY <2>1, <2>2, <2>3, ActorChannels DEF HandleReplaceFlushReceiver, HandleRemoveConfirmed
<1>7. ASSUME ~Closed(g)', NEW t \in Hashes(cache') \cap WrittenBy(g)'
      PROVE  Telling(g)' /\ t \in loop'[g].confirmed
  <2>1. t \in Hashes(cache) \cap WrittenBy(g) /\ Telling(g) /\ t \in loop[g].confirmed
    BY <1>3, <1>4, <1>5, <1>7
  <2>2. CASE fq'[g] = fq[g]
    BY <1>0, <2>1, <2>2 DEF Telling
  <2>3. CASE loop[g].pc = "Confirm"
    BY <1>0, <2>1, <2>3 DEF Telling
  <2>4. ASSUME fq'[g] # fq[g], fq[g] = ConfirmRequests(loop[g]) PROVE FALSE
    <3>1. CASE fq' = [h \in Gens |-> <<>>] /\ status' # "Running"
      BY <1>7, <3>1 DEF Closed
    <3>2. CASE HandleReplaceFlushReceiver
      <4>1. fq'[g] = IF g < flushRx' THEN <<>> ELSE fq[g]
        BY <3>2 DEF HandleReplaceFlushReceiver
      <4> QED
        BY <1>7, <2>4, <4>1, Zenon DEF Closed
    <3>3. CASE HandleGetSnapshot
      <4>1. g = flushRx /\ Head(fq[g]).op = "GetSnapshot"
        BY <1>0, <2>4, <3>3 DEF HandleGetSnapshot, Request, TypeOK
      <4> QED
        BY <2>4, <4>1 DEF ConfirmRequests
    <3>4. CASE HandleRemoveConfirmed
      <4>1. g = flushRx /\ cache' = {p \in cache : p.tx \notin Head(fq[g]).txs}
        BY <1>0, <2>4, <3>4 DEF HandleRemoveConfirmed, TypeOK
      <4>2. Head(fq[g]).txs = loop[g].confirmed
        BY <2>4 DEF ConfirmRequests
      <4> QED
        BY <1>7, <2>1, <4>1, <4>2 DEF Hashes
    <3> QED
      BY <2>4, <3>1, <3>2, <3>3, <3>4, ActorChannels
  <2> QED
    BY <2>1, <2>2, <2>3, <2>4 DEF Telling
<1> QED
  BY <1>0, <1>1, <1>6, <1>7, Zenon DEF Unseen

\* A loop that has told the actor, or was cut off, sees a cache without its rows.
LEMMA UnseenByLoop ==
    ASSUME TypeInv, OneRequest, NotAgain, NEW g \in Gens, FlushStep(g)
    PROVE  Unseen(g)'
<1> USE DEF TypeInv
<1>0. /\ Unseen(g) /\ UNCHANGED <<cache, status, flushRx>> /\ (Closed(g)' <=> Closed(g))
  BY LoopSendsRequests, Zenon DEF NotAgain, actorVars, Closed
<1>1. \A r \in reply'[g] : r \in reply[g]
  BY LoopReads, Zenon DEF TypeOK
<1>2. CASE ScanBlock(g)
  <2>1. PICK c \in SUBSET loop[g].snap :
          /\ db' = db \cup Rows(c, loop[g].run, loop[g].bn, g)
          /\ loop'[g].pc = "Confirm" /\ loop'[g].confirmed = Hashes(c)
    BY <1>2, ScanWrites
  <2>2. WrittenBy(g)' = WrittenBy(g) \cup Hashes(c)
    BY <2>1, WrittenByGrows
  <2>3. loop[g].pc = "Scan" /\ reply[g] = {} /\ ~Telling(g)
    BY <1>2, Zenon DEF ScanBlock, OneRequest, Waits, Telling
  <2> QED
    BY <1>0, <1>1, <2>1, <2>2, <2>3, Zenon DEF Unseen, Telling
<1>3. CASE ~ScanBlock(g)
  <2>1. WrittenBy(g)' = WrittenBy(g)
    <3>1. db' = db
      BY <1>3, Zenon DEF FlushStep, Phase1Poll, Phase1Reply, ReadBlockNumber, CompareBlocks,
         DrainReply, SnapshotReply, ScanBlockFails, ConfirmBlock, RefreshReply, SendRequests, Goto
    <3> QED
      BY <3>1 DEF WrittenBy
  <2>2. \A r \in reply'[g] : Hashes(r.snap) \cap WrittenBy(g)' = {}
    BY <1>0, <1>1, <2>1, Zenon DEF Unseen
  <2>3. ASSUME loop'[g].pc = "Scan" PROVE Hashes(loop'[g].snap) \cap WrittenBy(g) = {}
    <3>1. loop[g].pc \in {"SnapWait", "Scan", "RefreshWait"}
      BY <2>3, LoopMoves, Zenon DEF SnapshotReply, ScanBlockFails, RefreshReply
    <3>2. CASE loop'[g].snap = {}
      BY <3>2, Zenon DEF Hashes
    <3>3. CASE loop'[g].snap = loop[g].snap /\ loop[g].pc = "Scan"
      BY <1>0, <3>3, Zenon DEF Unseen
    <3>4. CASE \E r \in reply[g] : loop'[g].snap = r.snap
      BY <1>0, <3>4, Zenon DEF Unseen
    <3> QED
      BY <3>1, <3>2, <3>3, <3>4, LoopSnap
  <2>4. ASSUME ~Closed(g), NEW t \in Hashes(cache) \cap WrittenBy(g)
        PROVE  Telling(g)' /\ t \in loop'[g].confirmed
    <3>1. Telling(g) /\ t \in loop[g].confirmed
      BY <1>0, <2>4 DEF Unseen
    <3>2. CASE loop[g].pc = "Confirm"
      <4>1. ConfirmBlock(g)
        BY <3>2 DEF FlushStep, Phase1Poll, Phase1Reply, ReadBlockNumber, CompareBlocks,
           DrainReply, SnapshotReply, ScanBlock, ScanBlockFails, RefreshReply
      <4>2. /\ fq' = [fq EXCEPT ![g] = @ \o ConfirmRequests(loop[g])]
            /\ loop'[g].pc = "RefreshWait" /\ loop'[g].confirmed = loop[g].confirmed
            /\ ConfirmRequests(loop'[g]) = ConfirmRequests(loop[g])
        <5>1. loop[g] \in FlushLocals /\ loop' = [loop EXCEPT ![g] = [loop[g] EXCEPT !.pc = "RefreshWait"]]
          BY <2>4, <4>1 DEF ConfirmBlock, SendRequests, TypeOK
        <5>2. /\ loop'[g].pc = "RefreshWait" /\ loop'[g].confirmed = loop[g].confirmed
              /\ loop'[g].bn = loop[g].bn
          BY <5>1 DEF TypeOK, FlushLocals
        <5> QED
          BY <2>4, <4>1, <5>2 DEF ConfirmBlock, SendRequests, ConfirmRequests
      <4>3. fq[g] = <<>>
        BY <3>2, Zenon DEF OneRequest, Waits
      <4>4. fq'[g] = ConfirmRequests(loop[g])
        BY <4>2, <4>3 DEF TypeOK, ConfirmRequests
      <4> QED
        BY <3>1, <4>2, <4>4 DEF Telling
    <3>3. CASE loop[g].pc = "RefreshWait" /\ fq[g] = ConfirmRequests(loop[g])
      <4>1. RefreshReply(g)
        BY <3>3 DEF FlushStep, Phase1Poll, Phase1Reply, ReadBlockNumber, CompareBlocks,
           DrainReply, SnapshotReply, ScanBlock, ScanBlockFails, ConfirmBlock
      <4>2. reply[g] # {}
        BY <2>4, <4>1, Zenon DEF RefreshReply, ReplyDropped
      <4>3. fq[g] # <<>>
        BY <3>3 DEF ConfirmRequests
      <4> QED
        BY <4>2, <4>3 DEF OneRequest
    <3> QED
      BY <3>1, <3>2, <3>3, Zenon DEF Telling
  <2> QED
    BY <1>0, <2>1, <2>2, <2>3, <2>4, Zenon DEF Unseen
<1> QED
  BY <1>2, <1>3

LEMMA NotAgainStep ==
    /\ TypeInv /\ ReceiversOrdered /\ OneRequest /\ HeldAcked /\ WrittenAcked /\ NotAgain
    /\ [Next]_vars
    => NotAgain'
<1> SUFFICES ASSUME TypeInv, ReceiversOrdered, OneRequest, HeldAcked, WrittenAcked, NotAgain,
                    [Next]_vars, NEW g \in Gens
             PROVE  Unseen(g)'
  BY DEF NotAgain
<1>0. Unseen(g)
  BY DEF NotAgain
<1>1. CASE ActorStep
  BY <1>1, UnseenByActor
<1>2. CASE FlushStep(g)
  BY <1>2, UnseenByLoop, Zenon
<1>3. ASSUME NEW h \in Gens \ {g}, FlushStep(h) PROVE Unseen(g)'
  <2>1. loop'[g] = loop[g] /\ fq'[g] = fq[g] /\ reply'[g] = reply[g]
    BY <1>3, LoopMoves
  <2>2. UNCHANGED <<cache, status, flushRx>>
    BY <1>3, LoopSendsRequests DEF actorVars
  <2>3. WrittenBy(g)' = WrittenBy(g)
    <3>1. CASE db' = db
      BY <3>1 DEF WrittenBy
    <3>2. CASE ScanBlock(h)
      <4>1. PICK c : db' = db \cup Rows(c, loop[h].run, loop[h].bn, h)
        BY <3>2, Zenon DEF ScanBlock
      <4> QED
        BY <1>3, <4>1, WrittenByGrows
    <3> QED
      BY <1>3, <3>1, <3>2, Zenon DEF FlushStep, Phase1Poll, Phase1Reply, ReadBlockNumber, CompareBlocks,
         DrainReply, SnapshotReply, ScanBlockFails, ConfirmBlock, RefreshReply, SendRequests, Goto
  <2> QED
    BY <1>0, <2>1, <2>2, <2>3 DEF Unseen, Telling, Closed
<1>4. ASSUME UNCHANGED <<status, flushRx, fq, reply, db>>, Hashes(cache') = Hashes(cache),
             loop'[g] = loop[g]
      PROVE  Unseen(g)'
  BY <1>0, <1>4 DEF Unseen, Telling, Closed, WrittenBy
<1>5. CASE ClientStep \/ \E t \in Txs : CallbackStep(t)
  <2>1. UNCHANGED <<status, cache, flushRx, fq, reply, db>>
    BY <1>5, OthersStep, Zenon
  <2>2. CASE loop'[g] = loop[g]
    BY <1>4, <2>1, <2>2, Zenon
  <2>3. CASE loop'[g] # loop[g]
    <3>1. loop'[g] = FreshLoop("Phase1") /\ gen < g
      <4>1. RestartFlush
        BY <1>5, <2>3, ClientLoops
      <4> QED
        BY <2>3, <4>1, Typed, Numbered DEF RestartFlush
    <3>2. FreshLoop("Phase1").pc = "Phase1"
      BY Zenon DEF FreshLoop, TopLocals
    <3>3. loop[g].pc = "NotSpawned"
      BY <3>1, Typed, Numbered DEF OneRequest
    <3> QED
      BY <1>0, <2>1, <3>1, <3>2, <3>3, Zenon DEF Unseen, Telling, Closed, WrittenBy
  <2> QED
    BY <2>2, <2>3, Zenon
<1>6. ASSUME NEW included \in SUBSET Txs, MineBlock(included) PROVE Unseen(g)'
  BY <1>4, <1>6, Zenon DEF MineBlock, actorVars, loopVars
<1>7. ASSUME NEW t \in Txs, NEW fb \in FbIndices, HandleFlashblockMark(t, fb) PROVE Unseen(g)'
  <2>1. Hashes(cache') = Hashes(cache)
    BY <1>7, MarkKeepsHashes
  <2> QED
    BY <1>4, <1>7, <2>1 DEF HandleFlashblockMark, loopVars
<1>8. CASE UNCHANGED vars
  BY <1>4, <1>8, Zenon DEF vars, actorVars, loopVars
<1> QED
  BY <1>1, <1>2, <1>3, <1>5, <1>6, <1>7, <1>8 DEF Next, EnvStep

-----------------------------------------------------------------------------
(* RowsTruthful *)

LEMMA RowsStep == TypeInv /\ NotAgain /\ RowsTruthful /\ [Next]_vars => RowsTruthful'
<1> SUFFICES ASSUME TypeInv, NotAgain, RowsTruthful, [Next]_vars, NEW r \in db'
             PROVE  (r.block # 0 => minedIn'[r.tx] = r.block) /\ (r.by # 0 => ~r.again)
  BY DEF RowsTruthful
<1> USE DEF TypeInv
<1>1. \A t \in Txs : minedIn[t] # 0 => minedIn'[t] = minedIn[t]
  <2>1. CASE ActorStep
    BY <2>1, ActorTakesRequests
  <2>2. ASSUME NEW g \in Gens, FlushStep(g) PROVE minedIn' = minedIn
    BY <2>2, LoopSendsRequests, Zenon
  <2>3. CASE ClientStep \/ \E t \in Txs : CallbackStep(t)
    BY <2>3, OthersStep
  <2>4. CASE EnvStep
    BY <2>4 DEF EnvStep, MineBlock, HandleFlashblockMark, chainVars, TypeOK
  <2>5. CASE UNCHANGED vars
    BY <2>5 DEF vars, chainVars
  <2> QED
    BY <2>1, <2>2, <2>3, <2>4, <2>5 DEF Next
<1>2. CASE r \in db
  <2>1. r.tx \in Txs
    BY <1>2 DEF TypeOK, RunTx
  <2> QED
    BY <1>1, <1>2, <2>1 DEF RowsTruthful
<1>3. CASE r \in Rows(cache, Head(api).run, 0, 0)
  BY <1>3, RowFields
<1>4. ASSUME NEW g \in Gens, ScanBlock(g), r \notin db
      PROVE  (r.block # 0 => minedIn'[r.tx] = r.block) /\ (r.by # 0 => ~r.again)
  <2>1. PICK c \in SUBSET loop[g].snap :
          /\ \A p \in c : p.tx \in Txs /\ minedIn[p.tx] = loop[g].bn
          /\ db' = db \cup Rows(c, loop[g].run, loop[g].bn, g)
          /\ minedIn' = minedIn
    BY <1>4, ScanWrites, Zenon
  <2>2. r \in Rows(c, loop[g].run, loop[g].bn, g)
    BY <1>4, <2>1
  <2>3. r.block = loop[g].bn
    BY <2>2, RowFields
  <2>4. PICK p \in c : r.tx = p.tx /\ (r.again => \E q \in db : q.tx = p.tx /\ q.by = g)
    BY <2>2, RowAgain
  <2>5. Hashes(loop[g].snap) \cap WrittenBy(g) = {}
    BY <1>4, Zenon DEF NotAgain, Unseen, ScanBlock
  <2>6. p.tx \notin WrittenBy(g)
    BY <2>1, <2>4, <2>5, Zenon DEF Hashes
  <2>7. ~r.again
    BY <2>4, <2>6 DEF WrittenBy
  <2> QED
    BY <2>1, <2>3, <2>4, <2>7, Zenon
<1> QED
  BY <1>2, <1>3, <1>4, Writers

RowsInv ==
    ReceiversOrdered /\ OneRequest /\ HeldAcked /\ WrittenAcked /\ NotAgain /\ RowsTruthful

LEMMA RowsInvHolds == Spec => []RowsInv
<1>1. Init => RowsInv
  <2> SUFFICES ASSUME Init PROVE RowsInv
    BY Zenon
  <2>1. \A g \in Gens : /\ fq[g] = <<>> /\ reply[g] = {} /\ loop[g].snap = {}
                        /\ loop[g].pc # "Scan" /\ ~(loop[g].pc \in Waits)
                        /\ g > gen => loop[g].pc = "NotSpawned"
    BY ConstantsAssumption DEF Init, FreshLoop, TopLocals, Waits, Gens
  <2>2. Hashes({}) = {} /\ db = {} /\ cache = {}
    BY DEF Init, Hashes
  <2>3. ReceiversOrdered
    BY DEF Init, ReceiversOrdered
  <2>4. OneRequest
    BY <2>1 DEF OneRequest
  <2>5. HeldAcked /\ WrittenAcked /\ NotAgain /\ RowsTruthful
    BY <2>1, <2>2, Zenon DEF HeldAcked, WrittenAcked, Written, NotAgain, Unseen, RowsTruthful
  <2> QED
    BY <2>3, <2>4, <2>5 DEF RowsInv
<1>2. TypeInv /\ RowsInv /\ [Next]_vars => RowsInv'
  BY ReceiversStep, OneRequestStep, HeldAckedStep, WrittenAckedStep, NotAgainStep, RowsStep
     DEF RowsInv
<1> QED
  BY <1>1, <1>2, TypeInvHolds, PTL DEF Spec

\* Whatever the snapshots, restarts and clients: a row with a block number names the
\* block that includes its transaction, and process_block_receipts of one flush loop
\* writes no transaction twice.
THEOREM RowsHold == Spec => []RowsTruthful
<1>1. RowsInv => RowsTruthful
  BY DEF RowsInv
<1> QED
  BY <1>1, RowsInvHolds, PTL

-----------------------------------------------------------------------------
(* Contender::spam uses the actor as TxActor allows, and gives a transaction one   *)
(* row over all its runs.                                                          *)

\* The actor has no run, and none is on its way to it.
Unused == ~ctx.some /\ \A i \in DOMAIN api : api[i].op # "InitCtx"

\* Loop g has ended or still waits for its first context.
Contextless(g) ==
    /\ loop[g].pc \in {"Phase1", "Phase1Wait", "Done"}
    /\ \A r \in reply[g] : ~r.ctx.some

\* The actor will have left loop g for a later one before it gets a context.
Replaced(g) ==
    \/ Closed(g)
    \/ /\ ~ctx.some
       /\ \E i \in DOMAIN api :
             /\ api[i].op = "ReplaceFlushReceiver" /\ g < api[i].gen
             /\ \A j \in DOMAIN api : j < i => api[j].op # "InitCtx"

\* The loops that the handle has replaced never scan again: they had ended, or the
\* parent's token was cancelled before the first run.
OldLoops == \A g \in Gens : g < gen => loop[g].pc = "Done" \/ (Contextless(g) /\ Replaced(g))

\* Where spam has not announced its run, or has returned.
Between == {"Idle", "Prepared", "Inserted", "HaveBlock", "Returned", "Clearing"}

\* prepare_for_run finds a cancelled token only where its loop has ended or was
\* never used.
DriverInv ==
    /\ drv \in {"Inserted", "HaveBlock"} => run \in Runs
    /\ drv \in Between => \/ gen = 1 /\ Unused /\ Contextless(1)
                          \/ gen > 1 /\ ~cancelled[gen]
    /\ drv \in {"AwaitFlush", "Flushed"} => cancelled[gen]
    /\ drv = "Flushed" => loop[gen].pc = "Done"
    /\ \A g \in Gens : g > gen => ~cancelled[g]
    /\ \A i \in DOMAIN api : api[i].op # "DumpCache"

\* A transaction is pending once.
OneEntry(S) == \A p, q \in S : p.tx = q.tx => p = q

OnePending ==
    /\ OneEntry(cache)
    /\ \A g \in Gens : OneEntry(loop[g].snap) /\ \A r \in reply[g] : OneEntry(r.snap)

\* What earlier loops have written is gone from the cache and from what the latest
\* loop has seen of it; the later loops have written nothing.
Settled ==
    /\ \A r \in db : r.by \in Gens /\ r.by <= gen
    /\ \A g \in Gens : g < gen => \A t \in WrittenBy(g) :
          /\ t \notin Hashes(cache)
          /\ loop[gen].pc = "Scan" => t \notin Hashes(loop[gen].snap)
          /\ \A r \in reply[gen] : t \notin Hashes(r.snap)

-----------------------------------------------------------------------------
(* The driver and the actor *)

\* Every call of the driver is one that the handle offers.
LEMMA DriverCalls ==
    ASSUME TypeInv, DriverInv, [DrvNext]_allVars
    PROVE  [Next]_vars
<1>0. gen \in Gens /\ 1 \in Gens
  BY Typed, Numbered, Zenon
<1>1. CASE DriverStep
  <2>1. CASE \E from, to : PrepareForRun(from, to)
    BY <2>1, Zenon DEF PrepareForRun, Next, ClientStep
  <2>2. CASE InsertRun \/ SpamFailsEarly \/ AwaitFlush \/ RunAgain \/ ClearAnswered
    BY <2>2, Zenon DEF InsertRun, SpamFailsEarly, AwaitFlush, RunAgain, ClearAnswered
  <2>3. CASE GetBlockNumber \/ Shutdown \/ ClearAfterRun
    BY <2>3, Zenon DEF GetBlockNumber, Shutdown, ClearAfterRun, Next, ClientStep
  <2>4. CASE InitActorCtx
    <3>1. run \in Runs
      BY <2>4, Zenon DEF InitActorCtx, Move, DriverInv
    <3> QED
      BY <2>4, <3>1, Zenon DEF InitActorCtx, Next, ClientStep
  <2>5. ASSUME NEW t \in Txs, SpamSend(t) PROVE Next
    BY <2>5, Zenon DEF SpamSend, Next, ClientStep
  <2>6. CASE SpamEnds \/ CancelParent
    BY <1>0, <2>6, Zenon DEF SpamEnds, CancelParent, Next, ClientStep
  <2> QED
    BY <1>1, <2>1, <2>2, <2>3, <2>4, <2>5, <2>6, Zenon DEF DriverStep
<1>2. CASE SystemStep
  BY <1>2, Zenon DEF SystemStep, Mine, Next, EnvStep
<1>3. CASE Terminated \/ UNCHANGED allVars
  BY <1>3, Zenon DEF Terminated, allVars
<1> QED
  BY <1>1, <1>2, <1>3, Zenon DEF DrvNext

-----------------------------------------------------------------------------
(* What a step moves *)

\* A loop that was spawned moves only by its own steps, and the token that ends it
\* is not taken back.
LEMMA LoopStays ==
    ASSUME TypeInv, [Next]_vars, NEW g \in Gens, g <= gen
    PROVE  loop'[g] = loop[g] \/ FlushStep(g)
<1>1. CASE ActorStep
  BY <1>1, ActorTakesRequests, Zenon
<1>2. ASSUME NEW h \in Gens, FlushStep(h) PROVE loop'[g] = loop[g] \/ FlushStep(g)
  BY <1>2, LoopMoves, Zenon
<1>3. CASE ClientStep \/ \E t \in Txs : CallbackStep(t)
  <2>1. CASE RestartFlush
    <3>1. loop' = [loop EXCEPT ![gen + 1] = FreshLoop("Phase1")] /\ g # gen + 1
      BY <2>1, Typed, Numbered DEF RestartFlush
    <3> QED
      BY <3>1, Zenon DEF TypeInv, TypeOK
  <2> QED
    BY <1>3, <2>1, ClientLoops, Zenon
<1>4. CASE EnvStep \/ UNCHANGED vars
  BY <1>4, Zenon DEF EnvStep, MineBlock, HandleFlashblockMark, loopVars, vars
<1> QED
  BY <1>1, <1>2, <1>3, <1>4, Zenon DEF Next

\* An answer reaches a loop only from the actor that holds its receiver.
LEMMA ReplyMoves ==
    ASSUME TypeInv, [Next]_vars, NEW g \in Gens
    PROVE  \/ reply'[g] \subseteq reply[g]
           \/ HandleGetSnapshot /\ g = flushRx /\ reply'[g] = {[snap |-> cache, ctx |-> ctx]}
<1>1. CASE ActorStep
  <2>1. CASE HandleGetSnapshot
    BY <2>1 DEF HandleGetSnapshot, TypeInv, TypeOK
  <2> QED
    BY <1>1, <2>1, ActorChannels, Zenon DEF HandleReplaceFlushReceiver, HandleRemoveConfirmed
<1>2. ASSUME NEW h \in Gens, FlushStep(h) PROVE reply'[g] \subseteq reply[g]
  <2>1. reply \in [Gens -> SUBSET Snapshot]
    BY Zenon DEF TypeInv, TypeOK
  <2> QED
    BY <1>2, <2>1, LoopReads
<1>3. CASE ClientStep \/ \E t \in Txs : CallbackStep(t)
  BY <1>3, OthersStep, Zenon
<1>4. CASE EnvStep \/ UNCHANGED vars
  BY <1>4, Zenon DEF EnvStep, MineBlock, HandleFlashblockMark, loopVars, vars
<1> QED
  BY <1>1, <1>2, <1>3, <1>4, Zenon DEF Next

LEMMA DoneStays ==
    ASSUME TypeInv, [Next]_vars, NEW g \in Gens, g <= gen, loop[g].pc = "Done"
    PROVE  loop'[g].pc = "Done"
<1>1. ~FlushStep(g)
  BY DEF FlushStep, Phase1Poll, Phase1Reply, ReadBlockNumber, CompareBlocks, DrainReply,
     SnapshotReply, ScanBlock, ScanBlockFails, ConfirmBlock, RefreshReply
<1> QED
  BY <1>1, LoopStays, Zenon

\* A loop without a context stays so while the actor has none for it.
LEMMA ContextlessStays ==
    ASSUME TypeInv, [Next]_vars, NEW g \in Gens, g <= gen, Contextless(g),
           Closed(g) \/ ~ctx.some
    PROVE  Contextless(g)'
<1>1. \A r \in reply'[g] : ~r.ctx.some
  <2>1. CASE HandleGetSnapshot /\ g = flushRx /\ reply'[g] = {[snap |-> cache, ctx |-> ctx]}
    <3>1. ~ctx.some
      <4>1. ~(g < flushRx)
        BY <2>1, ConstantsAssumption DEF Gens
      <4> QED
        BY <2>1, <4>1, Zenon DEF HandleGetSnapshot, Request, Closed
    <3>2. \A r \in {[snap |-> cache, ctx |-> ctx]} : r.ctx = ctx
      OBVIOUS
    <3>3. \A r \in reply'[g] : r.ctx = ctx
      BY <2>1, <3>2, Zenon
    <3> QED
      BY <3>1, <3>3, Zenon
  <2> QED
    BY <2>1, ReplyMoves, Zenon DEF Contextless
<1>2. loop'[g].pc \in {"Phase1", "Phase1Wait", "Done"}
  <2>1. CASE FlushStep(g)
    <3>1. Phase1Poll(g) \/ Phase1Reply(g)
      BY <2>1, Zenon DEF FlushStep, ReadBlockNumber, CompareBlocks, DrainReply, SnapshotReply,
         ScanBlock, ScanBlockFails, ConfirmBlock, RefreshReply, Contextless
    <3>2. \E pc \in {"Phase1", "Phase1Wait", "Done"} : loop' = [loop EXCEPT ![g] = FreshLoop(pc)]
      BY <3>1, Zenon DEF Phase1Poll, Phase1Reply, SendRequests, Goto, Contextless
    <3>3. loop \in [Gens -> FlushLocals]
      BY Zenon DEF TypeInv, TypeOK
    <3> QED
      BY <3>2, <3>3 DEF FreshLoop, TopLocals
  <2> QED
    BY <2>1, LoopStays, Zenon DEF Contextless
<1> QED
  BY <1>1, <1>2, Zenon DEF Contextless

-----------------------------------------------------------------------------
(* A transaction is pending once *)

LEMMA MarkKeepsEntries ==
    ASSUME NEW t \in Txs, NEW fb \in FbIndices, TypeInv, OneEntry(cache),
           HandleFlashblockMark(t, fb)
    PROVE  OneEntry(cache')
<1> DEFINE marked(p) == IF p.tx = t /\ p.fb = 0 THEN [p EXCEPT !.fb = fb] ELSE p
<1>1. \A p \in cache : marked(p).tx = p.tx
  BY DEF TypeInv, TypeOK, PendingRunTx
<1>2. cache' = cache \/ cache' = {marked(p) : p \in cache}
  BY Zenon DEF HandleFlashblockMark
<1> HIDE DEF marked
<1> QED
  BY <1>1, <1>2 DEF OneEntry

LEMMA OnePendingStep == TypeInv /\ OnePending /\ [Next]_vars => OnePending'
<1> SUFFICES ASSUME TypeInv, OnePending, [Next]_vars PROVE OnePending'
  OBVIOUS
<1>0. OneEntry({}) /\ OneEntry(cache)
  BY Zenon DEF OneEntry, OnePending
<1>1. OneEntry(cache')
  <2>1. CASE HandleSentRunTx
    <3> DEFINE u == Head(api).tx
    <3>1. PICK fb : cache' = {} \/ cache' = {p \in cache : p.tx # u} \cup {[tx |-> u, fb |-> fb]}
      BY <2>1, Zenon DEF HandleSentRunTx, ActorGone
    <3>2. [tx |-> u, fb |-> fb].tx = u
      OBVIOUS
    <3> HIDE DEF u
    <3> QED
      BY <1>0, <3>1, <3>2 DEF OneEntry
  <2>2. CASE cache' \subseteq cache
    BY <1>0, <2>2, Zenon DEF OneEntry
  <2>3. ASSUME NEW t \in Txs, NEW fb \in FbIndices, HandleFlashblockMark(t, fb)
        PROVE  OneEntry(cache')
    BY <1>0, <2>3, MarkKeepsEntries, Zenon
  <2>4. ASSUME NEW g \in Gens, FlushStep(g) PROVE cache' = cache
    BY <2>4, LoopSendsRequests, Zenon DEF actorVars
  <2>5. ASSUME NEW S \in SUBSET Txs, MineBlock(S) PROVE cache' = cache
    BY <2>5, Zenon DEF MineBlock, actorVars
  <2>6. UNCHANGED vars => cache' = cache
    BY Zenon DEF vars, actorVars
  <2> QED
    BY <2>1, <2>2, <2>3, <2>4, <2>5, <2>6, ActorForgets, OthersStep DEF Next, EnvStep
<1>2. ASSUME NEW g \in Gens, NEW r \in reply'[g] PROVE OneEntry(r.snap)
  BY <1>0, <1>2, ReplyMoves DEF OnePending
<1>3. ASSUME NEW g \in Gens PROVE OneEntry(loop'[g].snap)
  <2>1. CASE FlushStep(g)
    BY <1>0, <2>1, LoopSnap, Zenon DEF OnePending
  <2>2. CASE loop'[g] = loop[g]
    BY <2>2, Zenon DEF OnePending
  <2>3. CASE RestartFlush
    <3>1. loop' = [loop EXCEPT ![gen + 1] = FreshLoop("Phase1")]
      BY <2>3, Zenon DEF RestartFlush
    <3>2. loop'[g] \in {loop[g], FreshLoop("Phase1")}
      BY <3>1 DEF TypeInv, TypeOK
    <3> QED
      BY <1>0, <3>2, TopSnap, Zenon DEF OnePending
  <2>4. ASSUME NEW h \in Gens, FlushStep(h) PROVE loop'[g] = loop[g] \/ FlushStep(g)
    BY <2>4, LoopMoves, Zenon
  <2>5. CASE EnvStep \/ UNCHANGED vars
    BY <2>2, <2>5, Zenon DEF EnvStep, MineBlock, HandleFlashblockMark, loopVars, vars
  <2> QED
    BY <2>1, <2>2, <2>3, <2>4, <2>5, ActorTakesRequests, ClientLoops, Zenon DEF Next
<1> QED
  BY <1>1, <1>2, <1>3, Zenon DEF OnePending

-----------------------------------------------------------------------------
(* The loops that were replaced *)

\* The actor takes a message from the front, and a ReplaceFlushReceiver by moving on
\* to that receiver; otherwise it dies with its queue.
LEMMA ActorQueue ==
    ASSUME TypeInv, ActorStep
    PROVE  \/ status' # "Running" /\ ctx' = NoCtx /\ api' = <<>>
           \/ api' = api
           \/ /\ api # <<>> /\ api' = Tail(api)
              /\ Head(api).op = "ReplaceFlushReceiver" => HandleReplaceFlushReceiver
              /\ Head(api).op = "InitCtx" <=> HandleInitCtx
<1>1. CASE HandleGetCacheLen \/ HandleRemovedRunTx \/ HandleDumpCache \/ HandleClearCache
  BY <1>1, Zenon DEF HandleGetCacheLen, HandleRemovedRunTx, HandleDumpCache, HandleClearCache, HandleInitCtx,
     Message, AnswerRequest, ActorGone
<1>2. CASE HandleSentRunTx \/ HandleStop
  BY <1>2, Zenon DEF HandleSentRunTx, HandleStop, HandleInitCtx, Message, ActorGone
<1>3. CASE HandleInitCtx \/ HandleReplaceFlushReceiver
  BY <1>3, Zenon DEF HandleInitCtx, HandleReplaceFlushReceiver, Message
<1>4. CASE HandleGetSnapshot \/ HandleRemoveConfirmed
  BY <1>4, Zenon DEF HandleGetSnapshot, HandleRemoveConfirmed, actorVars
<1> QED
  BY <1>1, <1>2, <1>3, <1>4, Zenon DEF ActorStep

\* Without a context the actor gets one from an InitCtx only.
LEMMA StaysWithoutContext ==
    ASSUME TypeInv, [Next]_vars, ~ctx.some, ~HandleInitCtx
    PROVE  ~ctx'.some
<1>1. NoCtx.some = FALSE
  BY DEF NoCtx
<1>2. CASE ActorStep
  <2>1. HandleRemoveConfirmed => ctx' = ctx
    BY Zenon DEF HandleRemoveConfirmed
  <2> QED
    BY <1>1, <1>2, <2>1, CtxMoves, Zenon
<1>3. ASSUME NEW g \in Gens, FlushStep(g) PROVE ctx' = ctx
  BY <1>3, LoopSendsRequests, Zenon DEF actorVars
<1>4. CASE EnvStep \/ UNCHANGED vars
  BY <1>4, Zenon DEF EnvStep, MineBlock, HandleFlashblockMark, actorVars, vars
<1> QED
  BY <1>2, <1>3, <1>4, OthersStep, Zenon DEF Next

\* The queue grows at its end, or the actor takes from it.
LEMMA QueueMoves ==
    ASSUME [Next]_vars, TypeInv
    PROVE  ActorStep \/ api' = api \/ \E m : api' = Append(api, m)
<1>1. ASSUME NEW g \in Gens, FlushStep(g) PROVE api' = api
  BY <1>1, LoopSendsRequests, Zenon DEF actorVars
<1>2. CASE EnvStep \/ UNCHANGED vars
  BY <1>2, Zenon DEF EnvStep, MineBlock, HandleFlashblockMark, actorVars, vars
<1> QED
  BY <1>1, <1>2, ClientQueues, Zenon DEF Next, RestartFlush, Enqueue

LEMMA ReplacedStays ==
    ASSUME TypeInv, ReceiversOrdered, [Next]_vars, NEW g \in Gens, Replaced(g)
    PROVE  Replaced(g)'
<1>1. CASE Closed(g)
  BY <1>1, ClosedStays, Zenon DEF Replaced
<1>2. ASSUME ~ctx.some, NEW i \in DOMAIN api, api[i].op = "ReplaceFlushReceiver", g < api[i].gen,
             \A j \in DOMAIN api : j < i => api[j].op # "InitCtx"
      PROVE  Replaced(g)'
  <2>0. api \in Seq(TxActorMessage)
    BY Zenon DEF TypeInv, TypeOK
  <2>1. ~HandleInitCtx
    <3>1. HandleInitCtx => 1 \in DOMAIN api /\ api[1].op = "InitCtx" /\ (1 < i \/ i = 1)
      BY <2>0 DEF HandleInitCtx, Message
    <3> QED
      BY <1>2, <3>1
  <2>2. ~ctx'.some
    BY <1>2, <2>1, StaysWithoutContext, Zenon
  <2>3. CASE api' = api
    BY <1>2, <2>2, <2>3, Zenon DEF Replaced
  <2>4. ASSUME NEW m, api' = Append(api, m) PROVE Replaced(g)'
    <3>1. \A j \in DOMAIN api' : j < i \/ j = i => j \in DOMAIN api /\ api'[j] = api[j]
      BY <2>0, <2>4
    <3>2. i \in DOMAIN api'
      BY <2>0, <2>4
    <3> QED
      BY <1>2, <2>2, <3>1, <3>2, Zenon DEF Replaced
  <2>5. CASE ActorStep /\ status' # "Running"
    BY <2>5, Zenon DEF Replaced, Closed
  <2>6. ASSUME ActorStep, api # <<>>, api' = Tail(api),
               Head(api).op = "ReplaceFlushReceiver" => HandleReplaceFlushReceiver
        PROVE  Replaced(g)'
    <3>1. CASE i = 1
      <4>1. flushRx' = api[1].gen
        <5>1. HandleReplaceFlushReceiver => flushRx' = Head(api).gen
          BY Zenon DEF HandleReplaceFlushReceiver
        <5>2. Head(api) = api[1]
          BY <2>0, <2>6
        <5>3. api[1].op = "ReplaceFlushReceiver"
          BY <1>2, <3>1, Zenon
        <5> QED
          BY <2>6, <5>1, <5>2, <5>3, Zenon
      <4> QED
        BY <1>2, <3>1, <4>1, Zenon DEF Replaced, Closed
    <3>2. CASE i # 1
      <4>1. /\ i - 1 \in DOMAIN api' /\ api'[i - 1] = api[i]
            /\ \A j \in DOMAIN api' : j < i - 1 =>
                  j + 1 \in DOMAIN api /\ j + 1 < i /\ api'[j] = api[j + 1]
        BY <2>0, <2>6, <3>2
      <4> QED
        BY <1>2, <2>2, <4>1, Zenon DEF Replaced
    <3> QED
      BY <3>1, <3>2
  <2> QED
    BY <2>3, <2>4, <2>5, <2>6, QueueMoves, ActorQueue, Zenon
<1> QED
  BY <1>1, <1>2, Zenon DEF Replaced

-----------------------------------------------------------------------------
(* The driver *)

LEMMA SystemKeepsTokens ==
    ASSUME TypeInv, SystemStep
    PROVE  UNCHANGED <<gen, cancelled, drv, run>>
<1>1. ActorStep => UNCHANGED <<gen, cancelled>>
  BY Zenon DEF ActorStep, HandleGetCacheLen, HandleInitCtx, HandleSentRunTx, HandleRemovedRunTx,
     HandleDumpCache, HandleClearCache, HandleReplaceFlushReceiver, HandleStop,
     HandleGetSnapshot, HandleRemoveConfirmed, loopVars
<1>2. ASSUME NEW g \in Gens, FlushStep(g) PROVE UNCHANGED <<gen, cancelled>>
  BY <1>2, Zenon DEF FlushStep, Phase1Poll, Phase1Reply, ReadBlockNumber, CompareBlocks, DrainReply,
     SnapshotReply, ScanBlock, ScanBlockFails, ConfirmBlock, RefreshReply, SendRequests, Goto
<1>3. ASSUME NEW t \in Txs, CallbackStep(t) PROVE UNCHANGED <<gen, cancelled>>
  BY <1>3, Zenon DEF CallbackStep, CacheRunTx, CancelCallback, loopVars
<1>4. Mine \/ (\E t \in Txs, fb \in FbIndices : HandleFlashblockMark(t, fb))
      => UNCHANGED <<gen, cancelled>>
  BY Zenon DEF Mine, MineBlock, HandleFlashblockMark, loopVars
<1> QED
  BY <1>1, <1>2, <1>3, <1>4, Zenon DEF SystemStep, drvVars

\* Tokens are cancelled when a run has been sent, or by the parent; a new loop is
\* started where the token of the latest was found cancelled.
LEMMA DriverMoves ==
    ASSUME TypeInv, DriverInv, [DrvNext]_allVars
    PROVE  \/ /\ RestartFlush /\ cancelled[gen] /\ run' = run
              /\ \/ drv = "Idle" /\ drv' = "Prepared"
                 \/ drv = "Flushed" /\ drv' = "Returned"
           \/ SpamEnds
           \/ CancelParent
           \/ /\ UNCHANGED <<gen, cancelled>>
              /\ drv' \in Between => drv \in Between
              /\ drv' = "AwaitFlush" => drv = drv'
              /\ drv' = "Flushed" => drv = drv' \/ AwaitFlush
              /\ drv' \in {"Inserted", "HaveBlock"} => run' \in Runs
<1>1. CASE SystemStep \/ Terminated \/ UNCHANGED allVars
  <2>1. UNCHANGED <<gen, cancelled, drv, run>>
    BY <1>1, SystemKeepsTokens, Zenon DEF Terminated, allVars, vars, loopVars, drvVars
  <2> QED
    BY <2>1 DEF DriverInv
<1>2. CASE PrepareForRun("Idle", "Prepared") \/ PrepareForRun("Flushed", "Returned")
  <2>1. CASE cancelled[gen] /\ status = "Running"
    BY <1>2, <2>1 DEF PrepareForRun, Move
  <2>2. CASE ~(cancelled[gen] /\ status = "Running")
    <3>1. UNCHANGED <<gen, cancelled>>
      BY <1>2, <2>2, Zenon DEF PrepareForRun, vars, loopVars
    <3>2. \/ drv = "Idle" /\ drv' = "Prepared"
          \/ drv' = "Failed"
      BY <1>2, <2>2, Zenon DEF PrepareForRun, Move, DriverInv
    <3> QED
      BY <3>1, <3>2 DEF Between
  <2> QED
    BY <2>1, <2>2
<1>3. CASE InsertRun \/ SpamFailsEarly \/ RunAgain \/ AwaitFlush
  <2>1. UNCHANGED <<gen, cancelled>>
    BY <1>3, Zenon DEF InsertRun, SpamFailsEarly, RunAgain, AwaitFlush, vars, loopVars
  <2> QED
    BY <1>3, <2>1 DEF InsertRun, SpamFailsEarly, RunAgain, AwaitFlush, Move, Between
<1>4. CASE GetBlockNumber \/ InitActorCtx \/ ClearAfterRun \/ ClearAnswered \/ Shutdown
  <2>1. UNCHANGED <<gen, cancelled>>
    BY <1>4, Zenon DEF GetBlockNumber, InitActorCtx, ClearAfterRun, ClearAnswered, Shutdown,
       ReadStartBlock, InitCtx, AskActor, Stop, vars, loopVars
  <2> QED
    BY <1>4, <2>1 DEF GetBlockNumber, InitActorCtx, ClearAfterRun, ClearAnswered, Shutdown, Move,
       Between, DriverInv
<1>5. ASSUME NEW t \in Txs, SpamSend(t)
      PROVE  UNCHANGED <<gen, cancelled, drv, run>> /\ drv = "Spamming"
  BY <1>5, Zenon DEF SpamSend, SendTx, loopVars
<1>6. (\E t \in Txs : SpamSend(t)) =>
        /\ UNCHANGED <<gen, cancelled>>
        /\ drv' \notin Between /\ drv' \notin {"AwaitFlush", "Flushed", "Inserted", "HaveBlock"}
  BY <1>5 DEF Between
<1> QED
  BY <1>1, <1>2, <1>3, <1>4, <1>6, Zenon DEF DrvNext, DriverStep

\* The driver dumps no cache, and announces a run just before it sends.
LEMMA DriverQueues ==
    ASSUME TypeInv, [DrvNext]_allVars
    PROVE  \/ ActorStep
           \/ api' = api
           \/ \E m : /\ api' = Append(api, m) /\ m.op # "DumpCache"
                     /\ m.op = "InitCtx" => drv' = "Spamming"
<1>1. CASE SystemStep
  <2>1. ASSUME NEW t \in Txs, CacheRunTx(t)
        PROVE  api' = api \/ \E m : api' = Append(api, m) /\ m.op = "SentRunTx"
    BY <2>1 DEF CacheRunTx, Enqueue
  <2>2. ASSUME NEW g \in Gens, FlushStep(g) PROVE api' = api
    BY <2>2, LoopSendsRequests, Zenon DEF actorVars
  <2>3. CASE Mine \/ (\E t \in Txs, fb \in FbIndices : HandleFlashblockMark(t, fb))
             \/ (\E t \in Txs : CancelCallback(t))
    BY <2>3, Zenon DEF Mine, MineBlock, HandleFlashblockMark, CancelCallback, actorVars
  <2> QED
    BY <1>1, <2>1, <2>2, <2>3 DEF SystemStep, CallbackStep
<1>2. CASE \E from, to : PrepareForRun(from, to)
  <2>1. CASE RestartFlush
    BY <2>1 DEF RestartFlush, Enqueue
  <2> QED
    BY <1>2, <2>1, Zenon DEF PrepareForRun, vars, actorVars
<1>3. CASE InitActorCtx \/ ClearAfterRun
  BY <1>3 DEF InitActorCtx, ClearAfterRun, InitCtx, AskActor, Enqueue, Move
<1>4. CASE InsertRun \/ SpamFailsEarly \/ RunAgain \/ AwaitFlush \/ GetBlockNumber \/ ClearAnswered
           \/ Shutdown \/ SpamEnds \/ CancelParent \/ (\E t \in Txs : SpamSend(t)) \/ Terminated
           \/ UNCHANGED allVars
  BY <1>4, Zenon DEF InsertRun, SpamFailsEarly, RunAgain, AwaitFlush, GetBlockNumber, ClearAnswered,
     Shutdown, SpamEnds, CancelParent, SpamSend, Terminated, ReadStartBlock, Stop, CancelFlush,
     SendTx, allVars, vars, actorVars
<1> QED
  BY <1>1, <1>2, <1>3, <1>4, Zenon DEF DrvNext, DriverStep

\* A run is announced by InitActorCtx only.
LEMMA UnusedStays ==
    ASSUME TypeInv, [Next]_vars, [DrvNext]_allVars, Unused, drv' # "Spamming"
    PROVE  Unused'
<1>0. api \in Seq(TxActorMessage)
  BY Zenon DEF TypeInv, TypeOK
<1>1. ~HandleInitCtx
  BY <1>0 DEF HandleInitCtx, Message, Unused
<1>2. ~ctx'.some
  BY <1>1, StaysWithoutContext, Zenon DEF Unused
<1>3. \A i \in DOMAIN api' : api'[i].op # "InitCtx"
  <2>1. ASSUME NEW m, api' = Append(api, m), m.op # "InitCtx"
        PROVE  \A i \in DOMAIN api' : api'[i].op # "InitCtx"
    BY <1>0, <2>1 DEF Unused
  <2>2. CASE ActorStep
    BY <1>0, <2>2, ActorQueue DEF Unused
  <2> QED
    BY <2>1, <2>2, DriverQueues DEF Unused
<1> QED
  BY <1>2, <1>3, Zenon DEF Unused

LEMMA DriverInvStep == TypeInv /\ DriverInv /\ [DrvNext]_allVars => DriverInv'
<1> SUFFICES ASSUME TypeInv, DriverInv, [DrvNext]_allVars PROVE DriverInv'
  BY Zenon
<1>0. /\ [Next]_vars /\ gen \in Gens /\ 1 \in Gens /\ Gens \subseteq Nat
      /\ cancelled \in [Gens -> BOOLEAN]
  BY DriverCalls, Typed, Numbered, Zenon
<1>00. \A g \in Gens : g > gen => ~cancelled[g]
  BY Zenon DEF DriverInv
<1>1. \A i \in DOMAIN api' : api'[i].op # "DumpCache"
  <2>0. api \in Seq(TxActorMessage) /\ \A i \in DOMAIN api : api[i].op # "DumpCache"
    BY Zenon DEF TypeInv, TypeOK, DriverInv
  <2>1. ASSUME NEW m, api' = Append(api, m), m.op # "DumpCache"
        PROVE  \A i \in DOMAIN api' : api'[i].op # "DumpCache"
    BY <2>0, <2>1
  <2>2. CASE ActorStep
    BY <2>0, <2>2, ActorQueue
  <2> QED
    BY <2>0, <2>1, <2>2, DriverQueues, Zenon
<1>2. ASSUME drv' # "Spamming", gen' = gen, gen = 1, Unused, Contextless(1)
      PROVE  gen' = 1 /\ Unused' /\ Contextless(1)'
  <2>1. Unused'
    BY <1>0, <1>2, UnusedStays, Zenon
  <2>2. Contextless(1)'
    BY <1>0, <1>2, ContextlessStays DEF Unused
  <2> QED
    BY <1>2, <2>1, <2>2, Zenon
<1>3. CASE RestartFlush /\ cancelled[gen] /\ drv' \in {"Prepared", "Returned"}
  <2>1. gen' = gen + 1 /\ gen' \in Gens /\ cancelled' = cancelled
    BY <1>0, <1>3, ConstantsAssumption DEF RestartFlush, Gens
  <2>2. gen' > 1 /\ gen' > gen /\ \A g \in Gens : g > gen' => g > gen
    BY <1>0, <2>1, ConstantsAssumption DEF Gens
  <2>3. drv' \notin {"Inserted", "HaveBlock", "AwaitFlush", "Flushed"}
    BY <1>3
  <2> QED
    BY <1>1, <1>00, <2>1, <2>2, <2>3, Zenon DEF DriverInv
<1>4. CASE SpamEnds
  <2>1. drv' = "AwaitFlush" /\ gen' = gen /\ cancelled' = [cancelled EXCEPT ![gen] = TRUE]
    BY <1>4, Zenon DEF SpamEnds, Move, CancelFlush
  <2>2. cancelled'[gen'] /\ \A g \in Gens : g > gen' => ~cancelled'[g]
    BY <1>0, <1>00, <2>1
  <2>3. drv' \notin Between /\ drv' \notin {"Inserted", "HaveBlock", "Flushed"}
    BY <2>1 DEF Between
  <2> QED
    BY <1>1, <2>2, <2>3, Zenon DEF DriverInv
<1>5. CASE CancelParent
  <2>1. drv' = drv /\ run' = run /\ gen' = gen /\ cancelled' = [cancelled EXCEPT ![1] = TRUE]
    BY <1>5, Zenon DEF CancelParent, CancelFlush
  <2>2. /\ \A g \in Gens : g # 1 => cancelled'[g] = cancelled[g]
        /\ cancelled[gen] => cancelled'[gen]
    BY <1>0, <2>1
  <2>3. \A g \in Gens : g > gen' => g > gen /\ g # 1
    BY <1>0, <2>1 DEF Gens
  <2>4. drv' \in Between => \/ gen' = 1 /\ Unused' /\ Contextless(1)'
                            \/ gen' > 1 /\ ~cancelled'[gen']
    BY <1>0, <1>2, <2>1, <2>2 DEF DriverInv, Between
  <2>5. drv' = "Flushed" => loop'[gen'].pc = "Done"
    BY <1>0, <2>1, DoneStays DEF DriverInv
  <2> QED
    BY <1>1, <1>00, <2>1, <2>2, <2>3, <2>4, <2>5, Zenon DEF DriverInv
<1>6. ASSUME UNCHANGED <<gen, cancelled>>, drv' \in Between => drv \in Between,
             drv' = "AwaitFlush" => drv = drv', drv' = "Flushed" => drv = drv' \/ AwaitFlush,
             drv' \in {"Inserted", "HaveBlock"} => run' \in Runs
      PROVE  DriverInv'
  <2>1. drv' \in Between => \/ gen' = 1 /\ Unused' /\ Contextless(1)'
                            \/ gen' > 1 /\ ~cancelled'[gen']
    BY <1>0, <1>2, <1>6 DEF DriverInv, Between
  <2>2. AwaitFlush => loop[gen].pc = "Done" /\ drv = "AwaitFlush"
    BY Zenon DEF AwaitFlush, Move
  <2>3. drv' = "Flushed" => loop'[gen'].pc = "Done"
    BY <1>0, <1>6, <2>2, DoneStays DEF DriverInv
  <2>4. drv' \in {"AwaitFlush", "Flushed"} => cancelled'[gen']
    BY <1>6, <2>2 DEF DriverInv
  <2> QED
    BY <1>1, <1>6, <2>1, <2>3, <2>4, Zenon DEF DriverInv
<1> QED
  BY <1>3, <1>4, <1>5, <1>6, DriverMoves

LEMMA OldLoopsStep ==
    TypeInv /\ ReceiversOrdered /\ DriverInv /\ OldLoops /\ [DrvNext]_allVars => OldLoops'
<1> SUFFICES ASSUME TypeInv, ReceiversOrdered, DriverInv, OldLoops, [DrvNext]_allVars,
                    NEW g \in Gens, g < gen'
             PROVE  (loop[g].pc = "Done" \/ (Contextless(g) /\ Replaced(g)))'
  BY Zenon DEF OldLoops
<1>0. [Next]_vars /\ gen \in Nat /\ g \in Nat /\ api \in Seq(TxActorMessage)
  BY DriverCalls, Typed, Numbered, Zenon
<1>1. CASE g < gen
  <2>1. g <= gen /\ (loop[g].pc = "Done" \/ (Contextless(g) /\ Replaced(g)))
    BY <1>0, <1>1 DEF OldLoops
  <2>2. Replaced(g) => Closed(g) \/ ~ctx.some
    BY Zenon DEF Replaced
  <2> QED
    BY <1>0, <2>1, <2>2, DoneStays, ContextlessStays, ReplacedStays, Zenon
<1>2. CASE ~(g < gen)
  <2>1. RestartFlush /\ cancelled[gen] /\ (drv = "Idle" \/ drv = "Flushed")
    <3>1. gen' # gen
      BY <1>0, <1>2, Zenon
    <3> QED
      BY <3>1, DriverMoves, Zenon DEF SpamEnds, CancelParent, CancelFlush
  <2>2. g = gen /\ api' = Append(api, [op |-> "ReplaceFlushReceiver", gen |-> gen + 1]) /\ g <= gen
        /\ ctx' = ctx
    BY <1>0, <1>2, <2>1 DEF RestartFlush, Enqueue
  <2>3. CASE drv = "Flushed"
    BY <1>0, <2>2, <2>3, DoneStays, Zenon DEF DriverInv
  <2>4. CASE drv = "Idle"
    <3>1. Unused /\ Contextless(g)
      BY <2>1, <2>2, <2>4 DEF DriverInv, Between
    <3>2. Contextless(g)'
      BY <1>0, <2>2, <3>1, ContextlessStays, Zenon DEF Unused
    <3>3. /\ Len(api) + 1 \in DOMAIN api'
          /\ api'[Len(api) + 1] = [op |-> "ReplaceFlushReceiver", gen |-> gen + 1]
          /\ \A j \in DOMAIN api' : j < Len(api) + 1 => j \in DOMAIN api /\ api'[j] = api[j]
      BY <1>0, <2>2
    <3>4. Replaced(g)'
      <4>1. api'[Len(api) + 1].op = "ReplaceFlushReceiver" /\ g < api'[Len(api) + 1].gen
        BY <1>0, <2>2, <3>3
      <4>2. \A j \in DOMAIN api' : j < Len(api) + 1 => api'[j].op # "InitCtx"
        BY <3>1, <3>3, Zenon DEF Unused
      <4> QED
        BY <2>2, <3>1, <3>3, <4>1, <4>2, Zenon DEF Replaced, Unused
    <3> QED
      BY <3>2, <3>4, Zenon
  <2> QED
    BY <2>1, <2>3, <2>4, Zenon
<1> QED
  BY <1>1, <1>2

-----------------------------------------------------------------------------
(* What earlier loops have written *)

\* Only the latest loop scans.
LEMMA LatestScans ==
    ASSUME TypeInv, OneRequest, OldLoops, NEW g \in Gens, loop[g].pc = "Scan"
    PROVE  g = gen
<1>1. ~(g > gen) /\ ~(g < gen)
  BY DEF OneRequest, OldLoops, Contextless
<1> QED
  BY <1>1, Typed, Numbered

\* The rows added in a step are those of a scan by the latest loop.
LEMMA LatestWrites ==
    ASSUME TypeInv, OneRequest, DriverInv, OldLoops, [Next]_vars
    PROVE  \/ db' = db
           \/ /\ ScanBlock(gen) /\ loop[gen].pc = "Scan"
              /\ \E c \in SUBSET loop[gen].snap : db' = db \cup Rows(c, loop[gen].run, loop[gen].bn, gen)
<1>1. ~HandleDumpCache
  <2>1. api \in Seq(TxActorMessage) /\ \A i \in DOMAIN api : api[i].op # "DumpCache"
    BY Zenon DEF TypeInv, TypeOK, DriverInv
  <2> QED
    BY <2>1 DEF HandleDumpCache, Message
<1>2. ASSUME NEW g \in Gens, ScanBlock(g)
      PROVE  /\ g = gen /\ loop[g].pc = "Scan"
             /\ \E c \in SUBSET loop[g].snap : db' = db \cup Rows(c, loop[g].run, loop[g].bn, g)
  BY <1>2, LatestScans, ScanWrites, Zenon DEF ScanBlock
<1> QED
  BY <1>1, <1>2, Writers, Zenon

\* Nothing is cached again once it was acknowledged.
LEMMA CacheForgets ==
    ASSUME TypeInv, [Next]_vars, NEW t \in Acked, t \notin Hashes(cache)
    PROVE  t \notin Hashes(cache')
<1>1. CASE ActorStep
  BY <1>1, CachedAnew, Zenon
<1>2. ASSUME NEW g \in Gens, FlushStep(g) PROVE cache' = cache
  BY <1>2, LoopSendsRequests, Zenon DEF actorVars
<1>3. ASSUME NEW u \in Txs, NEW fb \in FbIndices, HandleFlashblockMark(u, fb)
      PROVE  Hashes(cache') = Hashes(cache)
  BY <1>3, MarkKeepsHashes, Zenon
<1>4. ASSUME NEW S \in SUBSET Txs, MineBlock(S) PROVE cache' = cache
  BY <1>4, Zenon DEF MineBlock, actorVars
<1>5. UNCHANGED vars => cache' = cache
  BY Zenon DEF vars, actorVars
<1> QED
  BY <1>1, <1>2, <1>3, <1>4, <1>5, OthersStep, Zenon DEF Next, EnvStep

LEMMA SettledStep ==
    ASSUME TypeInv, ReceiversOrdered, OneRequest, WrittenAcked, NotAgain, DriverInv, OldLoops,
           Settled, [DrvNext]_allVars
    PROVE  Settled'
<1>0. [Next]_vars /\ gen \in Gens /\ Gens \subseteq Nat /\ gen' \in {gen, gen + 1}
  <2>1. [Next]_vars
    BY DriverCalls, Zenon
  <2>2. gen' \in {gen, gen + 1}
    BY DriverMoves, Zenon DEF RestartFlush, SpamEnds, CancelParent, CancelFlush
  <2> QED
    BY <2>1, <2>2, Typed, Numbered, Zenon
<1>1. ASSUME NEW r \in db' PROVE r.by \in Gens /\ r.by <= gen'
  <2>1. r \in db \/ r.by = gen
    BY <1>0, LatestWrites, RowFields
  <2>2. r.by \in Gens /\ (r.by <= gen \/ r.by = gen)
    BY <1>0, <2>1, Zenon DEF Settled
  <2>3. \A n \in Nat : n <= gen \/ n = gen => n <= gen'
    BY <1>0
  <2> QED
    BY <1>0, <2>2, <2>3, Zenon
<1>2. \A g \in Gens : g < gen => WrittenBy(g)' = WrittenBy(g)
  <2>1. \A g \in Gens : g < gen => g # gen
    BY <1>0
  <2>2. ASSUME NEW c, db' = db \cup Rows(c, loop[gen].run, loop[gen].bn, gen)
        PROVE  \A g : g # gen => WrittenBy(g)' = WrittenBy(g)
    BY <2>2, WrittenByGrows
  <2>3. db' = db => \A g : WrittenBy(g)' = WrittenBy(g)
    BY Zenon DEF WrittenBy
  <2> QED
    BY <1>0, <2>1, <2>2, <2>3, LatestWrites, Zenon
<1>3. \A g : WrittenBy(g) \subseteq Acked
  BY Zenon DEF WrittenAcked, Written, WrittenBy
<1>4. ASSUME gen' = gen, NEW g \in Gens, g < gen, NEW t \in WrittenBy(g)
      PROVE  /\ t \notin Hashes(cache')
             /\ loop'[gen].pc = "Scan" => t \notin Hashes(loop'[gen].snap)
             /\ \A r \in reply'[gen] : t \notin Hashes(r.snap)
  <2>1. /\ t \notin Hashes(cache) /\ t \in Acked
        /\ loop[gen].pc = "Scan" => t \notin Hashes(loop[gen].snap)
        /\ \A r \in reply[gen] : t \notin Hashes(r.snap)
    BY <1>3, <1>4, Zenon DEF Settled
  <2>2. t \notin Hashes(cache')
    BY <1>0, <2>1, CacheForgets, Zenon
  <2>3. \A r \in reply'[gen] : t \notin Hashes(r.snap)
    <3>1. CASE reply'[gen] = {[snap |-> cache, ctx |-> ctx]}
      BY <2>1, <3>1
    <3> QED
      BY <1>0, <2>1, <3>1, ReplyMoves, Zenon
  <2>4. ASSUME loop'[gen].pc = "Scan" PROVE t \notin Hashes(loop'[gen].snap)
    <3>1. CASE loop'[gen] = loop[gen]
      BY <2>1, <2>4, <3>1, Zenon
    <3>2. CASE FlushStep(gen)
      <4>1. loop[gen].pc \in {"SnapWait", "Scan", "RefreshWait"}
        BY <1>0, <2>4, <3>2, LoopMoves, Zenon DEF SnapshotReply, ScanBlockFails, RefreshReply
      <4>2. CASE loop'[gen].snap = {}
        BY <4>2 DEF Hashes
      <4>3. CASE loop'[gen].snap = loop[gen].snap /\ loop[gen].pc = "Scan"
        BY <2>1, <4>3, Zenon
      <4>4. CASE \E r \in reply[gen] : loop'[gen].snap = r.snap
        BY <2>1, <4>4, Zenon
      <4> QED
        BY <1>0, <3>2, <4>1, <4>2, <4>3, <4>4, LoopSnap
    <3>3. gen <= gen
      BY <1>0
    <3> QED
      BY <1>0, <3>1, <3>2, <3>3, LoopStays, Zenon
  <2> QED
    BY <2>2, <2>3, <2>4, Zenon
<1>5. ASSUME gen' = gen + 1, NEW g \in Gens, g <= gen, NEW t \in WrittenBy(g)
      PROVE  /\ t \notin Hashes(cache') /\ loop'[gen'].pc # "Scan" /\ reply'[gen'] = {}
  <2>1. RestartFlush /\ (loop[gen].pc = "Done" \/ Contextless(gen))
    <3>1. gen' # gen
      BY <1>0, <1>5
    <3>2. RestartFlush /\ cancelled[gen] /\ (drv = "Idle" \/ drv = "Flushed")
      BY <3>1, DriverMoves, Zenon DEF SpamEnds, CancelParent, CancelFlush
    <3> QED
      BY <3>2 DEF DriverInv, Between
  <2>2. /\ UNCHANGED <<cache, reply>> /\ status = "Running" /\ gen + 1 \in Gens
        /\ loop' = [loop EXCEPT ![gen + 1] = FreshLoop("Phase1")] /\ loop \in [Gens -> FlushLocals]
    <3>1. gen < MaxGen => gen + 1 \in Gens
      BY <1>0, ConstantsAssumption DEF Gens
    <3> QED
      BY <2>1, <3>1, Typed, Zenon DEF RestartFlush, Enqueue
  <2>3. t \notin Hashes(cache)
    <3>1. CASE g < gen
      BY <1>5, <3>1, Zenon DEF Settled
    <3>2. CASE g = gen
      <4>1. ~Closed(gen)
        <5>1. flushRx <= gen /\ flushRx \in Gens /\ gen \in Gens
          BY Zenon DEF ReceiversOrdered, TypeInv, TypeOK
        <5>2. ~(gen < flushRx)
          BY <5>1, ConstantsAssumption DEF Gens
        <5> QED
          BY <2>2, <5>2, Zenon DEF Closed
      <4>2. ~Telling(gen)
        BY <2>1 DEF Telling, Contextless
      <4> QED
        BY <1>0, <1>5, <3>2, <4>1, <4>2, Zenon DEF NotAgain, Unseen
    <3>3. g < gen \/ g = gen
      BY <1>0, <1>5
    <3> QED
      BY <3>1, <3>2, <3>3, Zenon
  <2>4. loop'[gen'].pc = "Phase1"
    BY <1>5, <2>2 DEF FreshLoop, TopLocals
  <2>5. reply[gen'] = {}
    <3>0. gen' > gen /\ gen' \in Gens
      BY <1>0, <1>5, <2>2
    <3>1. loop[gen'].pc = "NotSpawned"
      BY <3>0, Zenon DEF OneRequest
    <3> QED
      BY <3>0, <3>1, Zenon DEF OneRequest, Waits
  <2> QED
    BY <2>2, <2>3, <2>4, <2>5, Zenon
<1>6. ASSUME gen' = gen + 1, NEW g \in Gens, g <= gen, NEW t \in WrittenBy(g)'
      PROVE  t \in WrittenBy(g)
  <2>1. db' = db
    <3>1. gen' # gen
      BY <1>0, <1>6
    <3>2. ~ScanBlock(gen)
      BY <3>1, Zenon DEF ScanBlock
    <3> QED
      BY <1>0, <3>2, LatestWrites, Zenon
  <2> QED
    BY <1>6, <2>1 DEF WrittenBy
<1>7. ASSUME NEW g \in Gens, g < gen', NEW t \in WrittenBy(g)'
      PROVE  /\ t \notin Hashes(cache')
             /\ loop'[gen'].pc = "Scan" => t \notin Hashes(loop'[gen'].snap)
             /\ \A r \in reply'[gen'] : t \notin Hashes(r.snap)
  <2>1. CASE gen' = gen
    BY <1>2, <1>4, <1>7, <2>1, Zenon
  <2>2. CASE gen' = gen + 1
    <3>1. g <= gen
      BY <1>0, <1>7, <2>2
    <3> QED
      BY <1>5, <1>6, <1>7, <2>2, <3>1, Zenon
  <2> QED
    BY <1>0, <2>1, <2>2
<1> QED
  BY <1>1, <1>7, Zenon DEF Settled

-----------------------------------------------------------------------------
(* LoggedOnce *)

\* One entry makes one row.
LEMMA OneRow ==
    ASSUME NEW S, OneEntry(S), NEW id, NEW block, NEW by,
           NEW r \in Rows(S, id, block, by), NEW s \in Rows(S, id, block, by), r.tx = s.tx
    PROVE  r = s
<1> DEFINE again(p) == \E q \in db : q.tx = p.tx /\ q.by = by
           row(p) == [tx |-> p.tx, run |-> id, block |-> block, fb |-> p.fb, by |-> by,
                      again |-> again(p)]
<1>1. PICK p \in S : r = row(p)
  BY Zenon DEF Rows
<1>2. PICK q \in S : s = row(q)
  BY DEF Rows
<1>3. row(p).tx = p.tx /\ row(q).tx = q.tx
  BY Zenon
<1> HIDE DEF row
<1> QED
  BY <1>1, <1>2, <1>3, Zenon DEF OneEntry

LEMMA LoggedOnceStep ==
    ASSUME TypeInv, OneRequest, NotAgain, DriverInv, OldLoops, OnePending, Settled, LoggedOnce,
           [Next]_vars
    PROVE  LoggedOnce'
<1>1. CASE db' = db
  BY <1>1, Zenon DEF LoggedOnce
<1>2. ASSUME loop[gen].pc = "Scan", NEW c \in SUBSET loop[gen].snap,
             db' = db \cup Rows(c, loop[gen].run, loop[gen].bn, gen)
      PROVE  LoggedOnce'
  <2> DEFINE new == Rows(c, loop[gen].run, loop[gen].bn, gen)
  <2>0. gen \in Gens /\ Gens \subseteq Nat
    BY Typed, Numbered, Zenon
  <2>1. ASSUME NEW p \in c, NEW q \in db PROVE p.tx # q.tx
    <3>1. p.tx \in Hashes(loop[gen].snap) /\ q.tx \in WrittenBy(q.by)
      BY <1>2, Zenon DEF Hashes, WrittenBy
    <3>2. CASE q.by = gen
      <4>1. Unseen(gen)
        BY <2>0, Zenon DEF NotAgain
      <4> QED
        BY <1>2, <3>1, <3>2, <4>1, Zenon DEF Unseen
    <3>3. CASE q.by \in Gens /\ q.by < gen
      BY <1>2, <3>1, <3>3, Zenon DEF Settled
    <3>4. q.by \in Gens /\ q.by <= gen
      BY Zenon DEF Settled
    <3>5. q.by = gen \/ q.by < gen
      <4>1. \A m, n \in Nat : m <= n => m = n \/ m < n
        OBVIOUS
      <4> QED
        BY <2>0, <3>4, <4>1, Zenon
    <3> QED
      BY <3>2, <3>3, <3>4, <3>5, Zenon
  <2>2. ASSUME NEW r \in new PROVE ~r.again /\ \A s \in db : r.tx # s.tx
    <3>1. PICK p \in c : r.tx = p.tx /\ (r.again => \E q \in db : q.tx = p.tx /\ q.by = gen)
      BY RowAgain
    <3> QED
      BY <2>1, <3>1, Zenon
  <2>3. \A r, s \in new : r.tx = s.tx => r = s
    <3>1. OneEntry(c)
      BY <2>0, Zenon DEF OnePending, OneEntry
    <3> QED
      BY <3>1, OneRow, Zenon
  <2> HIDE DEF new
  <2>4. db' = db \cup new
    BY <1>2, Zenon DEF new
  <2> QED
    BY <2>2, <2>3, <2>4, Zenon DEF LoggedOnce
<1> QED
  BY <1>1, <1>2, LatestWrites, Zenon

LEMMA DriverInit == DrvInit => DriverInv
<1> SUFFICES ASSUME DrvInit PROVE DriverInv
  OBVIOUS
<1>1. drv = "Idle" /\ gen = 1 /\ api = <<>> /\ ctx = NoCtx
  BY Zenon DEF DrvInit, Init
<1>2. /\ \A g \in Gens : ~cancelled[g] /\ reply[g] = {}
      /\ loop[1].pc = "Phase1"
  <2>1. /\ cancelled = [g \in Gens |-> FALSE] /\ reply = [g \in Gens |-> {}]
        /\ loop = [g \in Gens |-> FreshLoop(IF g = 1 THEN "Phase1" ELSE "NotSpawned")]
    BY Zenon DEF DrvInit, Init
  <2>2. 1 \in Gens
    BY ConstantsAssumption DEF Gens
  <2>3. FreshLoop("Phase1").pc = "Phase1"
    BY DEF FreshLoop, TopLocals
  <2> QED
    BY <2>1, <2>2, <2>3, Zenon
<1>3. Unused /\ Contextless(1)
  BY <1>1, <1>2, ConstantsAssumption DEF Unused, Contextless, NoCtx, Gens
<1> QED
  BY <1>1, <1>2, <1>3 DEF DriverInv

\* Contender::spam uses the actor as TxActor allows: what is proved of the actor for
\* any clients holds when consecutive runs drive it.
THEOREM RunsDriveActor == DrvSpec => Spec
<1> DEFINE Inv == TypeInv /\ DriverInv
<1>1. DrvInit => Init /\ Inv
  BY TypeInit, DriverInit DEF DrvInit
<1>2. Inv /\ [DrvNext]_allVars => [Next]_vars
  BY DriverCalls
<1>3. Inv /\ [DrvNext]_allVars => Inv'
  BY DriverCalls, TypeStep, DriverInvStep
<1> QED
  BY <1>1, <1>2, <1>3, PTL DEF DrvSpec, Spec

\* Over all runs, flush loops, restarts and cancellations of Contender::spam a
\* transaction gets one row: only the latest flush loop ever scans, and what an
\* earlier one has written left the cache before it ended.
THEOREM LoggedOnceHolds == DrvSpec => []LoggedOnce
<1> DEFINE Inv == DriverInv /\ OldLoops /\ OnePending /\ Settled /\ LoggedOnce
<1>1. DrvInit => Inv
  <2> SUFFICES ASSUME DrvInit PROVE Inv
    BY Zenon
  <2>1. Init /\ gen = 1 /\ db = {} /\ cache = {}
    BY Zenon DEF DrvInit, Init
  <2>2. \A g \in Gens : ~(g < gen) /\ reply[g] = {} /\ loop[g].snap = {}
    BY ConstantsAssumption DEF DrvInit, Init, FreshLoop, TopLocals, Gens
  <2>3. OldLoops /\ OnePending /\ Settled /\ LoggedOnce
    BY <2>1, <2>2, Zenon DEF OldLoops, OnePending, OneEntry, Settled, LoggedOnce
  <2> QED
    BY <2>3, DriverInit
<1>2. TypeInv /\ RowsInv /\ Inv /\ [DrvNext]_allVars => Inv'
  <2> SUFFICES ASSUME TypeInv, RowsInv, Inv, [DrvNext]_allVars PROVE Inv'
    BY Zenon
  <2>1. [Next]_vars
    BY DriverCalls
  <2>2. ReceiversOrdered /\ OneRequest /\ WrittenAcked /\ NotAgain
    BY DEF RowsInv
  <2> QED
    BY <2>1, <2>2, DriverInvStep, OldLoopsStep, OnePendingStep, SettledStep, LoggedOnceStep
<1> QED
  BY <1>1, <1>2, RunsDriveActor, TypeInvHolds, RowsInvHolds, PTL DEF DrvSpec
=============================================================================
