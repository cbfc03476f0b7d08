--------------------------- MODULE TxActorChannels ---------------------------
(***************************************************************************)
(* The channels between the actor and its flush loops: receivers are       *)
(* replaced in order, a loop has one request under way, and what travels   *)
(* through them never moves the actor's cursor past an unscanned block.    *)
(***************************************************************************)
EXTENDS TxActorProofs

\* Loop g has an answer to wait for.
Waits == {"Phase1Wait", "DrainWait", "SnapWait", "RefreshWait"}

\* A receiver that was replaced never comes back: the messages that replace it
\* are queued in the order the loops were spawned.
ReceiversOrdered ==
    /\ flushRx <= gen
    /\ \A i \in DOMAIN api : api[i].op = "ReplaceFlushReceiver" =>
          /\ flushRx < api[i].gen /\ api[i].gen <= gen
          /\ \A j \in DOMAIN api :
                j < i /\ api[j].op = "ReplaceFlushReceiver" => api[j].gen < api[i].gen

\* A loop asks one thing at a time and reads the answer before it goes on; what is
\* in a queue is dropped with its receiver.
OneRequest ==
    \A g \in Gens :
        /\ g > gen => loop[g].pc = "NotSpawned"
        /\ Closed(g) => fq[g] = <<>>
        /\ \/ fq[g] = <<>>
           \/ reply[g] = {} /\ fq[g] = GetSnapshot /\ loop[g].pc \in Waits
           \/ reply[g] = {} /\ fq[g] = ConfirmRequests(loop[g]) /\ loop[g].pc = "RefreshWait"
        /\ reply[g] # {} => loop[g].pc \in Waits

-----------------------------------------------------------------------------
(* Messages to the actor *)

\* Loops and blocks are numbered.
LEMMA Numbered == Gens \subseteq Nat /\ 1 \in Gens /\ Blocks \subseteq Nat
  BY ConstantsAssumption DEF Gens, Blocks

\* What the type invariant says of the channels and of the loops.
LEMMA Typed ==
    ASSUME TypeInv
    PROVE  /\ head \in Nat /\ startBlock \in Nat /\ api \in Seq(TxActorMessage)
           /\ flushRx \in Gens /\ flushRx \in Nat /\ gen \in Gens /\ gen \in Nat
           /\ loop \in [Gens -> FlushLocals] /\ fq \in [Gens -> Seq(FlushRequest)]
           /\ reply \in [Gens -> SUBSET Snapshot] /\ cancelled \in [Gens -> BOOLEAN]
  BY Numbered, Zenon DEF TypeInv, TypeOK

LEMMA ActorTakesMessage ==
    ASSUME TypeInv, ActorStep
    PROVE  /\ gen' = gen
           /\ api' \in {api, <<>>} \/ (api # <<>> /\ api' = Tail(api))
           /\ flushRx' = flushRx \/ HandleReplaceFlushReceiver
<1>1. CASE HandleGetCacheLen \/ HandleRemovedRunTx \/ HandleDumpCache \/ HandleClearCache
  BY <1>1, Zenon DEF HandleGetCacheLen, HandleRemovedRunTx, HandleDumpCache, HandleClearCache,
     AnswerRequest, ActorGone, Message
<1>2. CASE HandleSentRunTx \/ HandleStop
  BY <1>2, Zenon DEF HandleSentRunTx, HandleStop, ActorGone, Message
<1>3. CASE HandleInitCtx \/ HandleReplaceFlushReceiver \/ HandleGetSnapshot \/ HandleRemoveConfirmed
  BY <1>3 DEF HandleInitCtx, HandleReplaceFlushReceiver, HandleGetSnapshot, HandleRemoveConfirmed,
     Message, loopVars, actorVars
<1> QED
  BY <1>1, <1>2, <1>3, Zenon DEF ActorStep

\* Clients queue one message at a time, and a loop is spawned with one.
LEMMA ClientQueues ==
    ASSUME ClientStep \/ \E t \in Txs : CallbackStep(t)
    PROVE  /\ flushRx' = flushRx
           /\ \/ gen' = gen /\ api' = api
              \/ gen' = gen /\ \E m : m.op # "ReplaceFlushReceiver" /\ api' = Append(api, m)
              \/ RestartFlush
<1>1. ASSUME NEW t \in Txs, CallbackStep(t)
      PROVE  /\ flushRx' = flushRx /\ gen' = gen
             /\ api' = api \/ \E m : m.op # "ReplaceFlushReceiver" /\ api' = Append(api, m)
  BY <1>1 DEF CallbackStep, CacheRunTx, CancelCallback, Enqueue, actorVars, loopVars
<1>2. ASSUME NEW m, m.op # "ReplaceFlushReceiver", AskActor(m)
      PROVE  /\ flushRx' = flushRx /\ gen' = gen
             /\ api' = api \/ \E n : n.op # "ReplaceFlushReceiver" /\ api' = Append(api, n)
  BY <1>2 DEF AskActor, Enqueue, loopVars
<1>3. ASSUME NEW run \in Runs, InitCtx(run, startBlock)
      PROVE  /\ flushRx' = flushRx /\ gen' = gen
             /\ \E n : n.op # "ReplaceFlushReceiver" /\ api' = Append(api, n)
  BY <1>3 DEF InitCtx, Enqueue, loopVars
<1>4. ASSUME NEW t \in Txs, SendTx(t) PROVE UNCHANGED <<flushRx, gen, api>>
  BY <1>4 DEF SendTx, actorVars, loopVars
<1>5. CASE ReadStartBlock \/ DropRequest \/ Stop \/ \E g \in Gens : CancelFlush(g)
  BY <1>5 DEF ReadStartBlock, DropRequest, Stop, CancelFlush, actorVars, loopVars
<1>6. CASE RestartFlush
  BY <1>6 DEF RestartFlush
<1>7. /\ \A t \in Txs : [op |-> "RemovedRunTx", tx |-> t].op # "ReplaceFlushReceiver"
      /\ \A run \in Runs : [op |-> "DumpCache", run |-> run].op # "ReplaceFlushReceiver"
      /\ [op |-> "GetCacheLen"].op # "ReplaceFlushReceiver"
      /\ [op |-> "ClearCache"].op # "ReplaceFlushReceiver"
  OBVIOUS
<1> QED
  BY <1>1, <1>2, <1>3, <1>4, <1>5, <1>6, <1>7, Zenon DEF ClientStep

\* Only a restart touches the loops.
LEMMA ClientLoops ==
    ASSUME ClientStep \/ \E t \in Txs : CallbackStep(t), ~RestartFlush
    PROVE  loop' = loop
<1>1. ASSUME NEW t \in Txs, CallbackStep(t) PROVE loop' = loop
  BY <1>1 DEF CallbackStep, CacheRunTx, CancelCallback, loopVars
<1>2. ASSUME NEW m, AskActor(m) PROVE loop' = loop
  BY <1>2 DEF AskActor, loopVars
<1>3. ASSUME NEW run \in Runs, InitCtx(run, startBlock) PROVE loop' = loop
  BY <1>3 DEF InitCtx, loopVars
<1>4. ASSUME NEW t \in Txs, SendTx(t) PROVE loop' = loop
  BY <1>4 DEF SendTx, loopVars
<1>5. ASSUME ReadStartBlock \/ DropRequest \/ Stop \/ \E g \in Gens : CancelFlush(g)
      PROVE  loop' = loop
  BY <1>5 DEF ReadStartBlock, DropRequest, Stop, CancelFlush, loopVars
<1> QED
  BY <1>1, <1>2, <1>3, <1>4, <1>5, Zenon DEF ClientStep

LEMMA ReceiversStep == TypeInv /\ ReceiversOrdered /\ [Next]_vars => ReceiversOrdered'
<1> SUFFICES ASSUME TypeInv, ReceiversOrdered, [Next]_vars PROVE ReceiversOrdered'
  OBVIOUS
<1>0. api \in Seq(TxActorMessage) /\ flushRx \in Nat /\ gen \in Nat
  BY Typed, Zenon
<1>g. \A i \in DOMAIN api : api[i].op = "ReplaceFlushReceiver" => api[i].gen \in Nat
  <2>1. \A m \in TxActorMessage : m.op = "ReplaceFlushReceiver" => m.gen \in Nat
    BY ConstantsAssumption DEF TxActorMessage, Gens
  <2> QED
    BY <1>0, <2>1
<1>t. ASSUME api # <<>>, api' = Tail(api)
      PROVE  \A i \in DOMAIN api' : i + 1 \in DOMAIN api /\ api'[i] = api[i + 1] /\ i \in Nat
  BY <1>0, <1>t
<1>1. CASE UNCHANGED <<api, flushRx, gen>>
  BY <1>1 DEF ReceiversOrdered
<1>2. CASE ActorStep
  <2>1. CASE api' = <<>> /\ UNCHANGED <<flushRx, gen>>
    BY <2>1 DEF ReceiversOrdered
  <2>2. CASE api # <<>> /\ api' = Tail(api) /\ UNCHANGED <<flushRx, gen>>
    BY <1>0, <1>t, <2>2 DEF ReceiversOrdered
  <2>3. CASE HandleReplaceFlushReceiver
    <3>1. /\ api # <<>> /\ api' = Tail(api) /\ 1 \in DOMAIN api /\ Head(api) = api[1]
          /\ api[1].op = "ReplaceFlushReceiver" /\ flushRx' = api[1].gen /\ gen' = gen
      BY <1>0, <2>3 DEF HandleReplaceFlushReceiver, Message
    <3>2. \A i \in DOMAIN api' : 1 < i + 1
      BY <1>t, <3>1
    <3> QED
      BY <1>0, <1>g, <1>t, <3>1, <3>2 DEF ReceiversOrdered
  <2> QED
    BY <1>1, <1>2, <2>1, <2>2, <2>3, ActorTakesMessage
<1>3. ASSUME NEW m, api' = Append(api, m), flushRx' = flushRx,
             \/ gen' = gen /\ m.op # "ReplaceFlushReceiver"
             \/ gen' = gen + 1 /\ m.gen = gen + 1
      PROVE  ReceiversOrdered'
  <2>1. \A i \in DOMAIN api' : \/ i \in DOMAIN api /\ api'[i] = api[i]
                               \/ i = Len(api) + 1 /\ api'[i] = m
    BY <1>0, <1>3
  <2>2. Len(api) \in Nat /\ \A i \in DOMAIN api : i \in Nat /\ i <= Len(api)
    BY <1>0
  <2> QED
    BY <1>0, <1>3, <1>g, <2>1, <2>2 DEF ReceiversOrdered
<1>4. CASE ClientStep \/ \E t \in Txs : CallbackStep(t)
  <2>1. CASE RestartFlush
    <3>1. PICK m : m = [op |-> "ReplaceFlushReceiver", gen |-> gen + 1]
      BY Zenon
    <3>2. m.gen = gen + 1 /\ api' = Append(api, m) /\ gen' = gen + 1 /\ flushRx' = flushRx
      BY <2>1, <3>1 DEF RestartFlush, Enqueue
    <3> QED
      BY <1>3, <3>2
  <2> QED
    BY <1>1, <1>3, <1>4, <2>1, ClientQueues
<1>5. ASSUME NEW g \in Gens, FlushStep(g) PROVE ReceiversOrdered'
  BY <1>1, <1>5, LoopSendsRequests DEF actorVars
<1>6. CASE EnvStep
  BY <1>1, <1>6 DEF EnvStep, MineBlock, HandleFlashblockMark, actorVars, loopVars
<1>7. CASE UNCHANGED vars
  BY <1>1, <1>7 DEF vars, actorVars, loopVars
<1> QED
  BY <1>2, <1>4, <1>5, <1>6, <1>7 DEF Next

-----------------------------------------------------------------------------
(* Requests of the loops *)

LEMMA ActorChannels ==
    ASSUME TypeInv, ActorStep
    PROVE  \/ UNCHANGED <<fq, reply, status, flushRx>>
           \/ fq' = [g \in Gens |-> <<>>] /\ status' # "Running" /\ UNCHANGED <<reply, flushRx>>
           \/ HandleReplaceFlushReceiver \/ HandleGetSnapshot \/ HandleRemoveConfirmed
<1>1. CASE HandleGetCacheLen \/ HandleRemovedRunTx \/ HandleDumpCache \/ HandleClearCache
  BY <1>1, Zenon DEF HandleGetCacheLen, HandleRemovedRunTx, HandleDumpCache, HandleClearCache,
     AnswerRequest, ActorGone
<1>2. CASE HandleSentRunTx \/ HandleStop \/ HandleInitCtx
  BY <1>2 DEF HandleSentRunTx, HandleStop, HandleInitCtx, ActorGone, loopVars
<1> QED
  BY <1>1, <1>2, Zenon DEF ActorStep

LEMMA LoopChannels ==
    ASSUME TypeInv, NEW g \in Gens, FlushStep(g)
    PROVE  /\ loop[g].pc # "NotSpawned"
           /\ \/ fq' = fq /\ reply' = reply /\ loop[g].pc \notin Waits
              \/ /\ fq' = fq /\ reply' = [reply EXCEPT ![g] = {}]
                 /\ reply[g] # {} \/ ReplyDropped(g)
              \/ /\ fq' = [fq EXCEPT ![g] = @ \o GetSnapshot] /\ reply' = reply
                 /\ loop[g].pc \notin Waits /\ loop'[g].pc \in Waits /\ ~Closed(g)
              \/ /\ fq' = [fq EXCEPT ![g] = @ \o ConfirmRequests(loop[g])] /\ reply' = reply
                 /\ loop[g].pc = "Confirm" /\ loop'[g].pc = "RefreshWait" /\ ~Closed(g)
                 /\ loop'[g].confirmed = loop[g].confirmed
                 /\ ConfirmRequests(loop'[g]) = ConfirmRequests(loop[g])
<1> USE DEF TypeInv
<1>0. loop[g] \in FlushLocals
  BY Zenon DEF TypeOK
<1>c. \A k : loop' = [loop EXCEPT ![g] = k] => loop'[g] = k
  BY DEF TypeOK
<1>1. CASE Phase1Poll(g)
  <2>1. FreshLoop("Phase1Wait").pc = "Phase1Wait"
    BY DEF FreshLoop, TopLocals
  <2> QED
    BY <1>1, <1>c, <2>1, Zenon DEF Phase1Poll, SendRequests, Waits
<1>2. CASE Phase1Reply(g)
  BY <1>2 DEF Phase1Reply, Goto
<1>3. CASE ReadBlockNumber(g)
  BY <1>3 DEF ReadBlockNumber, Goto, Waits
<1>4. CASE CompareBlocks(g)
  <2>1. /\ [loop[g] EXCEPT !.pc = "SnapWait"].pc = "SnapWait"
        /\ [loop[g] EXCEPT !.pc = "DrainWait"].pc = "DrainWait"
    BY <1>0, Zenon DEF FlushLocals
  <2> QED
    BY <1>4, <1>c, <2>1, Zenon DEF CompareBlocks, SendRequests, Goto, Waits
<1>5. CASE DrainReply(g)
  BY <1>5 DEF DrainReply, Goto
<1>6. CASE SnapshotReply(g)
  BY <1>6, Zenon DEF SnapshotReply, Goto
<1>7. CASE ScanBlock(g) \/ ScanBlockFails(g)
  BY <1>7, Zenon DEF ScanBlock, ScanBlockFails, Waits
<1>8. CASE ConfirmBlock(g)
  <2> DEFINE k == [loop[g] EXCEPT !.pc = "RefreshWait"]
  <2>1. k.pc = "RefreshWait" /\ k.confirmed = loop[g].confirmed /\ k.bn = loop[g].bn
    BY <1>0 DEF FlushLocals
  <2>2. ~Closed(g) => loop'[g] = k
    BY <1>8, <1>c, Zenon DEF ConfirmBlock, SendRequests
  <2> HIDE DEF k
  <2> QED
    BY <1>8, <2>1, <2>2 DEF ConfirmBlock, SendRequests, ConfirmRequests, Waits
<1>9. CASE RefreshReply(g)
  BY <1>9, Zenon DEF RefreshReply, Goto
<1> QED
  BY <1>1, <1>2, <1>3, <1>4, <1>5, <1>6, <1>7, <1>8, <1>9, Zenon DEF FlushStep

\* Where a request of loop g stands.
Asks(g) ==
    /\ \/ fq[g] = <<>>
       \/ reply[g] = {} /\ fq[g] = GetSnapshot /\ loop[g].pc \in Waits
       \/ reply[g] = {} /\ fq[g] = ConfirmRequests(loop[g]) /\ loop[g].pc = "RefreshWait"
    /\ reply[g] # {} => loop[g].pc \in Waits

LEMMA OneRequestStep ==
    TypeInv /\ ReceiversOrdered /\ OneRequest /\ [Next]_vars => OneRequest'
<1> SUFFICES ASSUME TypeInv, ReceiversOrdered, OneRequest, [Next]_vars PROVE OneRequest'
  OBVIOUS
<1> USE DEF TypeInv
<1>0. /\ fq \in [Gens -> Seq(FlushRequest)] /\ reply \in [Gens -> SUBSET Snapshot]
      /\ loop \in [Gens -> FlushLocals] /\ flushRx \in Gens /\ gen \in Gens
      /\ Gens \subseteq Nat
  BY Typed, Numbered, Zenon
<1>1. \A g \in Gens : Asks(g) /\ (Closed(g) => fq[g] = <<>>)
                      /\ (g > gen => loop[g].pc = "NotSpawned")
  BY Zenon DEF OneRequest, Asks
<1>2. SUFFICES \A g \in Gens : Asks(g)' /\ (Closed(g)' => fq'[g] = <<>>)
                               /\ (g > gen' => loop'[g].pc = "NotSpawned")
  BY <1>2, Zenon DEF OneRequest, Asks
<1>3. CASE UNCHANGED <<fq, reply, loop, status, flushRx, gen>>
  BY <1>1, <1>3, Zenon DEF Asks, Closed
<1>4. CASE ActorStep
  <2>1. UNCHANGED <<loop, gen>>
    BY <1>4, ActorTakesRequests, Zenon
  <2>2. CASE fq' = [g \in Gens |-> <<>>] /\ status' # "Running" /\ UNCHANGED <<reply, flushRx>>
    BY <1>1, <2>1, <2>2, Zenon DEF Asks
  <2>3. CASE HandleReplaceFlushReceiver
    <3>1. /\ reply' = reply /\ status' = "Running"
          /\ \A g \in Gens : \/ fq'[g] = <<>>
                             \/ fq'[g] = fq[g] /\ ~(g < flushRx')
      BY <2>3, Zenon DEF HandleReplaceFlushReceiver, Message, loopVars
    <3> QED
      BY <1>1, <2>1, <3>1, Zenon DEF Asks, Closed
  <2>4. CASE HandleGetSnapshot
    <3>1. /\ fq' = [fq EXCEPT ![flushRx] = Tail(@)] /\ UNCHANGED <<status, flushRx>>
          /\ reply' = [reply EXCEPT ![flushRx] = {[snap |-> cache, ctx |-> ctx]}]
          /\ fq[flushRx] # <<>> /\ Head(fq[flushRx]).op = "GetSnapshot"
      BY <2>4, Zenon DEF HandleGetSnapshot, Request, actorVars
    <3>2. Head(ConfirmRequests(loop[flushRx])).op # "GetSnapshot" /\ Tail(GetSnapshot) = <<>>
      BY DEF ConfirmRequests, GetSnapshot
    <3>3. fq[flushRx] = GetSnapshot /\ loop[flushRx].pc \in Waits
      BY <1>0, <1>1, <3>1, <3>2 DEF Asks
    <3>4. fq'[flushRx] = <<>> /\ \A g \in Gens \ {flushRx} : fq'[g] = fq[g] /\ reply'[g] = reply[g]
      BY <1>0, <3>1, <3>2, <3>3, Zenon
    <3> QED
      BY <1>1, <2>1, <3>1, <3>3, <3>4, Zenon DEF Asks, Closed
  <2>5. CASE HandleRemoveConfirmed
    <3>1. /\ fq' = [fq EXCEPT ![flushRx] = Tail(@)] /\ UNCHANGED <<status, flushRx, reply>>
          /\ status = "Running"
          /\ fq[flushRx] # <<>> /\ Head(fq[flushRx]).op = "RemoveConfirmed"
      BY <2>5 DEF HandleRemoveConfirmed, Request
    <3>2. /\ Head(GetSnapshot).op # "RemoveConfirmed"
          /\ Tail(ConfirmRequests(loop[flushRx])) = GetSnapshot
      BY DEF ConfirmRequests, GetSnapshot
    <3>3. /\ fq[flushRx] = ConfirmRequests(loop[flushRx]) /\ loop[flushRx].pc \in Waits
          /\ reply[flushRx] = {}
      BY <1>0, <1>1, <3>1, <3>2 DEF Asks, Waits
    <3>4. fq'[flushRx] = GetSnapshot /\ \A g \in Gens \ {flushRx} : fq'[g] = fq[g]
      BY <1>0, <3>1, <3>2, <3>3, Zenon
    <3>5. ~Closed(flushRx)' /\ \A g \in Gens : Closed(g)' <=> Closed(g)
      BY <1>0, <3>1 DEF Closed
    <3> QED
      BY <1>1, <2>1, <3>1, <3>3, <3>4, <3>5 DEF Asks
  <2> QED
    BY <1>3, <1>4, <2>1, <2>2, <2>3, <2>4, <2>5, ActorChannels
<1>5. ASSUME NEW g \in Gens, FlushStep(g)
      PROVE  \A h \in Gens : Asks(h)' /\ (Closed(h)' => fq'[h] = <<>>)
                             /\ (h > gen' => loop'[h].pc = "NotSpawned")
  <2>1. UNCHANGED <<status, flushRx, gen>> /\ loop[g].pc # "NotSpawned" /\ ~(g > gen)
    BY <1>1, <1>5, LoopSendsRequests, LoopChannels, Zenon DEF actorVars
  <2>2. \A h \in Gens \ {g} : loop'[h] = loop[h] /\ fq'[h] = fq[h] /\ reply'[h] = reply[h]
    BY <1>5, LoopMoves
  <2>3. Asks(g)' /\ (Closed(g) => fq'[g] = <<>>)
    <3>1. CASE fq' = fq /\ reply' = reply /\ loop[g].pc \notin Waits
      BY <1>1, <3>1, Zenon DEF Asks, Waits
    <3>2. CASE /\ fq' = fq /\ reply' = [reply EXCEPT ![g] = {}]
               /\ reply[g] # {} \/ ReplyDropped(g)
      BY <1>0, <1>1, <3>2, Zenon DEF Asks, ReplyDropped
    <3>3. CASE /\ fq' = [fq EXCEPT ![g] = @ \o GetSnapshot] /\ reply' = reply
               /\ loop[g].pc \notin Waits /\ loop'[g].pc \in Waits /\ ~Closed(g)
      <4>1. fq[g] = <<>> /\ reply[g] = {}
        BY <1>1, <3>3 DEF Asks, Waits
      <4>2. fq'[g] = GetSnapshot
        BY <1>0, <3>3, <4>1 DEF GetSnapshot
      <4> QED
        BY <3>3, <4>1, <4>2, Zenon DEF Asks
    <3>4. CASE /\ fq' = [fq EXCEPT ![g] = @ \o ConfirmRequests(loop[g])] /\ reply' = reply
               /\ loop[g].pc = "Confirm" /\ loop'[g].pc = "RefreshWait" /\ ~Closed(g)
               /\ ConfirmRequests(loop'[g]) = ConfirmRequests(loop[g])
      <4>1. fq[g] = <<>> /\ reply[g] = {}
        BY <1>1, <3>4, Zenon DEF Asks, Waits
      <4>2. fq'[g] = ConfirmRequests(loop[g])
        BY <1>0, <3>4, <4>1 DEF ConfirmRequests
      <4> QED
        BY <3>4, <4>1, <4>2, Zenon DEF Asks
    <3> QED
      BY <1>5, <3>1, <3>2, <3>3, <3>4, LoopChannels, Zenon
  <2>4. \A h \in Gens : Closed(h)' <=> Closed(h)
    BY <2>1, Zenon DEF Closed
  <2>5. \A h \in Gens \ {g} : Asks(h)'
    BY <1>1, <2>2, Zenon DEF Asks
  <2> QED
    BY <1>1, <2>1, <2>2, <2>3, <2>4, <2>5
<1>6. CASE ClientStep \/ \E t \in Txs : CallbackStep(t)
  <2>1. UNCHANGED <<fq, reply, status, flushRx>>
    BY <1>6, OthersStep, Zenon
  <2>2. CASE RestartFlush
    <3>1. /\ gen' = gen + 1 /\ gen + 1 \in Gens
          /\ loop' = [loop EXCEPT ![gen + 1] = FreshLoop("Phase1")]
      BY <1>0, <2>2, ConstantsAssumption DEF RestartFlush, Gens
    <3>2. \A g \in Gens \ {gen + 1} : loop'[g] = loop[g]
      BY <1>0, <3>1
    <3>3. fq[gen + 1] = <<>> /\ reply[gen + 1] = {}
      <4>1. gen + 1 > gen
        BY <1>0
      <4>2. loop[gen + 1].pc = "NotSpawned" /\ Asks(gen + 1)
        BY <1>1, <3>1, <4>1, Zenon
      <4>3. "NotSpawned" \notin Waits /\ "NotSpawned" # "RefreshWait"
        BY DEF Waits
      <4> QED
        BY <4>2, <4>3, Zenon DEF Asks
    <3>4. \A g \in Gens : Asks(g)'
      BY <1>1, <2>1, <3>2, <3>3 DEF Asks
    <3>5. \A g \in Gens : g > gen' => g > gen /\ g # gen + 1
      BY <1>0, <3>1
    <3>6. \A g \in Gens : Closed(g)' => fq'[g] = <<>>
      BY <1>1, <2>1, Zenon DEF Closed
    <3> QED
      BY <1>1, <1>2, <3>2, <3>4, <3>5, <3>6, Zenon
  <2>3. CASE ~RestartFlush
    <3>1. loop' = loop
      BY <1>6, <2>3, ClientLoops
    <3> QED
      BY <1>3, <1>6, <2>1, <2>3, <3>1, ClientQueues
  <2> QED
    BY <2>2, <2>3
<1>7. CASE EnvStep
  BY <1>3, <1>7, Zenon DEF EnvStep, MineBlock, HandleFlashblockMark, actorVars, loopVars
<1>8. CASE UNCHANGED vars
  BY <1>3, <1>8, Zenon DEF vars, actorVars, loopVars
<1> QED
  BY <1>4, <1>5, <1>6, <1>7, <1>8 DEF Next

-----------------------------------------------------------------------------
(* The cursor does not pass a block that was not scanned *)

\* Every transaction mined in a block from lo up to hi is recorded or excused.
Covered(lo, hi) ==
    \A t \in Txs : lo <= minedIn[t] /\ minedIn[t] < hi /\ minedIn[t] # 0 =>
        Recorded(t) \/ t \in excused

\* The cursor may move to b: the blocks of the run before b were scanned.
Passed(b) == b <= head /\ Covered(ctx.start, b)

\* Contexts are set in the order in which their start blocks were read.
StartsOrdered ==
    /\ ctx.start <= startBlock
    /\ \A i \in DOMAIN api : api[i].op = "InitCtx" =>
          /\ ctx.start <= api[i].block /\ api[i].block <= startBlock
          /\ \A j \in DOMAIN api : j < i /\ api[j].op = "InitCtx" => api[j].block <= api[i].block

\* Where loop g is, where it was told to go on, and where it tells the actor to
\* move the cursor.
WorkPassed(g) ==
    /\ loop[g].pc = "Scan" => Passed(loop[g].bn)
    /\ loop[g].pc \in {"Confirm", "RefreshWait"} => Passed(loop[g].bn + 1)
    /\ \A r \in reply[g] : Passed(r.ctx.target)
    /\ \A i \in DOMAIN fq[g] : fq[g][i].op = "RemoveConfirmed" => Passed(fq[g][i].block)

CursorInv ==
    /\ startBlock <= head
    /\ \A g \in Gens : loop[g].newBlock <= head
    /\ Passed(ctx.target)
    /\ status = "Running" => StartsOrdered /\ \A g \in Gens : WorkPassed(g)

\* Blocks are added at the head, and what was scanned stays so.
LEMMA ChainGrows ==
    ASSUME TypeInv, [Next]_vars
    PROVE  /\ head <= head' /\ excused \subseteq excused'
           /\ \A t \in Txs : minedIn'[t] = minedIn[t] \/ minedIn'[t] = head + 1
<1>0. head \in Nat
  BY Typed, Zenon
<1>1. CASE UNCHANGED <<head, minedIn>> /\ excused \subseteq excused'
  BY <1>0, <1>1
<1>2. CASE ActorStep
  BY <1>1, <1>2, Zenon DEF ActorStep, HandleGetCacheLen, HandleInitCtx, HandleSentRunTx,
     HandleRemovedRunTx, HandleDumpCache, HandleClearCache, HandleReplaceFlushReceiver, HandleStop,
     HandleGetSnapshot, HandleRemoveConfirmed, chainVars, histVars
<1>3. ASSUME NEW g \in Gens, FlushStep(g)
      PROVE  UNCHANGED <<head, minedIn>> /\ excused \subseteq excused'
  BY <1>3, Zenon DEF FlushStep, Phase1Poll, Phase1Reply, ReadBlockNumber, CompareBlocks, DrainReply,
     SnapshotReply, ScanBlock, ScanBlockFails, ConfirmBlock, RefreshReply, SendRequests, Goto,
     chainVars, histVars
<1>4. CASE ClientStep \/ \E t \in Txs : CallbackStep(t)
  BY <1>1, <1>4, OthersStep
<1>5. ASSUME NEW included \in SUBSET Txs, MineBlock(included)
      PROVE  /\ head <= head' /\ excused \subseteq excused'
             /\ \A t \in Txs : minedIn'[t] = minedIn[t] \/ minedIn'[t] = head + 1
  BY <1>0, <1>5 DEF MineBlock, histVars
<1>6. ASSUME NEW t \in Txs, NEW fb \in FbIndices, HandleFlashblockMark(t, fb)
      PROVE  UNCHANGED <<head, minedIn, excused>>
  BY <1>6 DEF HandleFlashblockMark, chainVars, histVars
<1>7. CASE UNCHANGED vars
  BY <1>1, <1>7 DEF vars, chainVars, histVars
<1> QED
  BY <1>1, <1>2, <1>3, <1>4, <1>5, <1>6, <1>7, Zenon DEF Next, EnvStep

\* What may be passed may be passed later, unless an earlier run comes back.
LEMMA PassedStays ==
    ASSUME TypeInv, [Next]_vars, ctx.start <= ctx'.start, NEW b \in Nat, Passed(b)
    PROVE  Passed(b)'
<1>0. /\ head \in Nat /\ head' \in Nat /\ ctx.start \in Nat /\ ctx'.start \in Nat
      /\ \A t \in Txs : minedIn[t] \in Nat /\ minedIn'[t] \in Nat
  <2>1. TypeOK /\ TypeOK'
    BY TypeStep DEF TypeInv
  <2> QED
    BY <2>1, ConstantsAssumption DEF TypeOK, Blocks, ActorContext
<1>1. b <= head'
  BY <1>0, ChainGrows DEF Passed
<1>2. ASSUME NEW t \in Txs, ctx'.start <= minedIn'[t], minedIn'[t] < b, minedIn'[t] # 0
      PROVE  Recorded(t)' \/ t \in excused'
  <2>1. minedIn'[t] = minedIn[t]
    BY <1>0, <1>2, ChainGrows DEF Passed
  <2>2. Recorded(t) \/ t \in excused
    BY <1>0, <1>2, <2>1 DEF Passed, Covered
  <2> QED
    BY <2>2, LogGrows, ChainGrows
<1> QED
  BY <1>1, <1>2, Zenon DEF Passed, Covered

\* At the top of its loop a flush loop has no range.
LEMMA TopRange ==
    ASSUME NEW g, NEW l, NEW pc
    PROVE  /\ FreshLoop(pc).newBlock = 0 /\ AtTop(l, pc).newBlock = 0
           /\ EndOfRange(g, l).newBlock = 0
<1>1. FreshLoop(pc).newBlock = 0 /\ \A k, c : AtTop(k, c).newBlock = 0
  BY DEF FreshLoop, AtTop, TopLocals
<1>2. \E k, c : EndOfRange(g, l) = AtTop(k, c)
  BY DEF EndOfRange
<1> QED
  BY <1>1, <1>2, Zenon

\* The next block of a range is the one after this.
LEMMA NextBlockRange ==
    ASSUME NEW g \in Gens, NEW l \in FlushLocals
    PROVE  /\ NextBlock(g, l).newBlock \in {0, l.newBlock}
           /\ NextBlock(g, l).pc = "Scan" => NextBlock(g, l).bn = l.bn + 1
<1>1. CASE InRange(l, l.bn + 1)
  <2>1. NextBlock(g, l) = [l EXCEPT !.pc = "Scan", !.bn = l.bn + 1, !.confirmed = {}]
    BY <1>1 DEF NextBlock
  <2> QED
    BY <2>1 DEF FlushLocals
<1>2. CASE ~InRange(l, l.bn + 1)
  BY <1>2, TopRange, EndOfRangeType DEF NextBlock
<1> QED
  BY <1>1, <1>2

\* A loop goes on where it was told to, or with the block after the one it is
\* done with, up to the head it read.
LEMMA LoopCursor ==
    ASSUME TypeInv, NEW g \in Gens, FlushStep(g)
    PROVE  /\ loop'[g].newBlock \in {0, loop[g].newBlock, head}
           /\ loop'[g].pc = "Scan" =>
                 \/ \E r \in reply[g] : loop'[g].bn = r.ctx.target
                 \/ /\ loop'[g].bn = loop[g].bn + 1
                    /\ ScanBlockFails(g) \/ loop[g].pc = "RefreshWait"
           /\ loop'[g].pc \in {"Confirm", "RefreshWait"} => loop'[g].bn = loop[g].bn
<1> USE DEF TypeInv
<1> DEFINE l == loop[g]
           Top(k) == k.newBlock = 0 /\ k.pc \notin {"Confirm", "RefreshWait", "Scan"}
<1>0. l \in FlushLocals
  BY DEF TypeOK
<1>c. \A k : loop' = [loop EXCEPT ![g] = k] => loop'[g] = k
  BY Zenon DEF TypeOK
<1>a. /\ Top(FreshLoop("Done")) /\ Top(FreshLoop("Phase1")) /\ Top(FreshLoop("Phase1Wait"))
      /\ \A b : Top([FreshLoop("Tick") EXCEPT !.target = b])
      /\ \A k : Top(AtTop(k, "Tick")) /\ Top(AtTop(k, "Done"))
  BY DEF FreshLoop, AtTop, TopLocals
<1>b. \A k : Top(EndOfRange(g, k))
  <2>1. \A k : \E q : EndOfRange(g, k) \in {AtTop(q, "Tick"), AtTop(q, "Done")}
    BY Zenon DEF EndOfRange
  <2> QED
    BY <1>a, <2>1
<1>1. CASE Top(loop'[g])
  BY <1>1, Zenon
<1>2. CASE Phase1Poll(g) \/ Phase1Reply(g)
  <2>1. \E k : loop' = [loop EXCEPT ![g] = k] /\ Top(k)
    <3> HIDE DEF Top
    <3> QED
      BY <1>2, <1>a, Zenon DEF Phase1Poll, Phase1Reply, SendRequests, Goto
  <2>2. Top(loop'[g])
    BY <1>c, <2>1, Zenon
  <2> QED
    BY <1>1, <2>2
<1>3. CASE ReadBlockNumber(g)
  <2>1. LET k == [l EXCEPT !.pc = "Compare", !.newBlock = head]
        IN k.newBlock = head /\ k.pc = "Compare"
    BY <1>0, Zenon DEF FlushLocals
  <2> QED
    BY <1>3, <1>c, <2>1 DEF ReadBlockNumber, Goto
<1>4. CASE CompareBlocks(g)
  <2> DEFINE snap == [l EXCEPT !.pc = "SnapWait"]
             drain == [l EXCEPT !.pc = "DrainWait"]
  <2>1. /\ snap.newBlock = l.newBlock /\ snap.pc = "SnapWait"
        /\ drain.newBlock = l.newBlock /\ drain.pc = "DrainWait"
    BY <1>0 DEF FlushLocals
  <2>2. loop'[g] \in {snap, drain, FreshLoop("Done"), AtTop(l, "Tick")}
    BY <1>4, <1>c, Zenon DEF CompareBlocks, Goto, SendRequests
  <2> HIDE DEF snap, drain
  <2> QED
    BY <1>1, <1>a, <2>1, <2>2
<1>5. CASE DrainReply(g)
  <2>1. Top(loop'[g])
    BY <1>5, <1>a, <1>c DEF DrainReply, Goto
  <2> QED
    BY <1>1, <2>1
<1>6. CASE SnapshotReply(g)
  <2> DEFINE k(r) == [l EXCEPT !.target = r.ctx.target]
             scan(r) == [k(r) EXCEPT !.pc = "Scan", !.snap = r.snap, !.run = r.ctx.run,
                                     !.bn = k(r).target, !.start = k(r).target]
  <2>1. \A r \in reply[g] : /\ scan(r).newBlock = l.newBlock /\ scan(r).pc = "Scan"
                            /\ scan(r).bn = r.ctx.target
    BY <1>0 DEF FlushLocals
  <2>2. PICK n : /\ Goto(g, n)
                 /\ \/ n = FreshLoop("Done")
                    \/ \E q : n = AtTop(q, "Tick")
                    \/ \E r \in reply[g] : n = scan(r)
    BY <1>6, Zenon DEF SnapshotReply
  <2>3. loop'[g] = n
    BY <1>c, <2>2, Zenon DEF Goto
  <2> HIDE DEF scan
  <2> QED
    BY <1>1, <1>a, <2>1, <2>2, <2>3
<1>7. CASE ScanBlock(g)
  <2>1. PICK c : loop' = [loop EXCEPT ![g] = [l EXCEPT !.pc = "Confirm", !.confirmed = c]]
    BY <1>7, Zenon DEF ScanBlock
  <2>2. LET k == [l EXCEPT !.pc = "Confirm", !.confirmed = c]
        IN k.newBlock = l.newBlock /\ k.bn = l.bn /\ k.pc = "Confirm"
    BY <1>0, Zenon DEF FlushLocals
  <2> QED
    BY <1>c, <2>1, <2>2, Zenon
<1>8. CASE ScanBlockFails(g)
  <2>1. loop'[g] = NextBlock(g, l)
    BY <1>8, <1>c, Zenon DEF ScanBlockFails
  <2> QED
    BY <1>0, <1>8, <2>1, NextBlockRange, NextBlockType
<1>9. CASE ConfirmBlock(g)
  <2> DEFINE wait == [l EXCEPT !.pc = "RefreshWait"]
  <2>1. wait.newBlock = l.newBlock /\ wait.bn = l.bn /\ wait.pc = "RefreshWait"
    BY <1>0 DEF FlushLocals
  <2>2. loop'[g] \in {wait, FreshLoop("Done")}
    BY <1>9, <1>c, Zenon DEF ConfirmBlock, SendRequests
  <2> HIDE DEF wait
  <2> QED
    BY <1>1, <1>a, <2>1, <2>2
<1>10. CASE RefreshReply(g)
  <2> DEFINE k(r) == [l EXCEPT !.snap = r.snap, !.target = r.ctx.target]
  <2>1. \A r \in reply[g] : k(r) \in FlushLocals /\ k(r).newBlock = l.newBlock /\ k(r).bn = l.bn
    BY <1>0, ReplyType, Zenon DEF FlushLocals
  <2>2. PICK n : /\ Goto(g, n)
                 /\ \/ n = FreshLoop("Done")
                    \/ \E q : n = EndOfRange(g, q)
                    \/ \E r \in reply[g] : n = NextBlock(g, k(r))
    BY <1>10, Zenon DEF RefreshReply
  <2>3. loop'[g] = n /\ l.pc = "RefreshWait"
    BY <1>10, <1>c, <2>2, Zenon DEF Goto, RefreshReply
  <2> HIDE DEF k
  <2>4. ASSUME NEW r \in reply[g], n = NextBlock(g, k(r))
        PROVE  /\ n.newBlock \in {0, l.newBlock}
               /\ n.pc = "Scan" => n.bn = l.bn + 1
               /\ n.pc \notin {"Confirm", "RefreshWait"}
    BY <2>1, <2>4, NextBlockRange, NextBlockType
  <2> QED
    BY <1>1, <1>a, <1>b, <2>2, <2>3, <2>4
<1> QED
  BY <1>2, <1>3, <1>4, <1>5, <1>6, <1>7, <1>8, <1>9, <1>10, Zenon DEF FlushStep

\* The handlers that change the context.
LEMMA CtxMoves ==
    ASSUME TypeInv, ActorStep
    PROVE  \/ status' # "Running" /\ ctx' = NoCtx
           \/ ctx' = ctx
           \/ HandleInitCtx \/ HandleRemoveConfirmed
<1>1. CASE HandleGetCacheLen \/ HandleRemovedRunTx \/ HandleDumpCache \/ HandleClearCache
  BY <1>1, Zenon DEF HandleGetCacheLen, HandleRemovedRunTx, HandleDumpCache, HandleClearCache,
     AnswerRequest, ActorGone
<1>2. CASE HandleSentRunTx \/ HandleStop \/ HandleReplaceFlushReceiver \/ HandleGetSnapshot
  BY <1>2, Zenon DEF HandleSentRunTx, HandleStop, HandleReplaceFlushReceiver, HandleGetSnapshot,
     ActorGone, actorVars
<1> QED
  BY <1>1, <1>2 DEF ActorStep

\* Of the handlers only GetSnapshot answers a loop.
LEMMA ActorAnswers ==
    ASSUME TypeInv, ActorStep
    PROVE  \A g \in Gens : \A r \in reply'[g] : r \in reply[g] \/ (r.ctx = ctx /\ ctx' = ctx)
<1>1. CASE HandleGetSnapshot
  <2>1. reply' = [reply EXCEPT ![flushRx] = {[snap |-> cache, ctx |-> ctx]}] /\ ctx' = ctx
    BY <1>1, Zenon DEF HandleGetSnapshot, actorVars
  <2>2. [snap |-> cache, ctx |-> ctx].ctx = ctx
    BY Zenon
  <2> QED
    BY <2>1, <2>2, Zenon DEF TypeInv, TypeOK
<1>2. CASE HandleReplaceFlushReceiver \/ HandleRemoveConfirmed
  BY <1>2 DEF HandleReplaceFlushReceiver, HandleRemoveConfirmed
<1> QED
  BY <1>1, <1>2, ActorChannels, Zenon

\* Clients read the start block from the chain and set a context with the one
\* they read last.
LEMMA ClientStarts ==
    ASSUME ClientStep \/ \E t \in Txs : CallbackStep(t)
    PROVE  /\ startBlock' \in {startBlock, head}
           /\ \/ api' = api
              \/ /\ startBlock' = startBlock
                 /\ \E m : /\ api' = Append(api, m)
                           /\ m.op = "InitCtx" => m.block = startBlock
<1> DEFINE Queues == /\ startBlock' = startBlock
                     /\ \/ api' = api
                        \/ \E m : /\ api' = Append(api, m)
                                  /\ m.op = "InitCtx" => m.block = startBlock
<1>1. ASSUME NEW t \in Txs, CallbackStep(t) PROVE Queues
  <2>1. [op |-> "SentRunTx", tx |-> t].op # "InitCtx"
    OBVIOUS
  <2> QED
    BY <1>1, <2>1 DEF CallbackStep, CacheRunTx, CancelCallback, Enqueue, actorVars, askVars
<1>2. ASSUME NEW m, m.op # "InitCtx", AskActor(m) PROVE Queues
  BY <1>2, Zenon DEF AskActor, Enqueue
<1>3. ASSUME NEW run \in Runs, InitCtx(run, startBlock) PROVE Queues
  <2>1. [op |-> "InitCtx", run |-> run, block |-> startBlock].block = startBlock
    BY Zenon
  <2> QED
    BY <1>3, <2>1 DEF InitCtx, Enqueue, askVars
<1>4. ASSUME NEW t \in Txs, SendTx(t) PROVE Queues
  BY <1>4, Zenon DEF SendTx, actorVars, askVars
<1>5. CASE ReadStartBlock
  BY <1>5, Zenon DEF ReadStartBlock, actorVars
<1>6. ASSUME DropRequest \/ Stop \/ \E g \in Gens : CancelFlush(g) PROVE Queues
  BY <1>6, Zenon DEF DropRequest, Stop, CancelFlush, actorVars, askVars
<1>7. ASSUME RestartFlush PROVE Queues
  <2>1. [op |-> "ReplaceFlushReceiver", gen |-> gen + 1].op # "InitCtx"
    OBVIOUS
  <2> QED
    BY <1>7, <2>1 DEF RestartFlush, Enqueue, askVars
<1>8. /\ \A t \in Txs : [op |-> "RemovedRunTx", tx |-> t].op # "InitCtx"
      /\ \A run \in Runs : [op |-> "DumpCache", run |-> run].op # "InitCtx"
      /\ [op |-> "GetCacheLen"].op # "InitCtx" /\ [op |-> "ClearCache"].op # "InitCtx"
  OBVIOUS
<1>9. CASE Queues
  BY <1>9
<1> HIDE DEF Queues
<1> QED
  BY <1>1, <1>2, <1>3, <1>4, <1>5, <1>6, <1>7, <1>8, <1>9, Zenon DEF ClientStep

\* Nobody else touches the start block or queues a message.
LEMMA StartMoves ==
    ASSUME TypeInv, [Next]_vars
    PROVE  \/ ClientStep \/ \E t \in Txs : CallbackStep(t)
           \/ startBlock' = startBlock /\ (ActorStep \/ UNCHANGED <<api, ctx, status>>)
<1>1. CASE ActorStep
  BY <1>1, Zenon DEF ActorStep, HandleGetCacheLen, HandleInitCtx, HandleSentRunTx, HandleRemovedRunTx,
     HandleDumpCache, HandleClearCache, HandleReplaceFlushReceiver, HandleStop,
     HandleGetSnapshot, HandleRemoveConfirmed, askVars
<1>2. ASSUME NEW g \in Gens, FlushStep(g)
      PROVE  startBlock' = startBlock /\ UNCHANGED <<api, ctx, status>>
  BY <1>2, Zenon DEF FlushStep, Phase1Poll, Phase1Reply, ReadBlockNumber, CompareBlocks, DrainReply,
     SnapshotReply, ScanBlock, ScanBlockFails, ConfirmBlock, RefreshReply, SendRequests, Goto,
     actorVars, askVars
<1>3. CASE EnvStep
  BY <1>3 DEF EnvStep, MineBlock, HandleFlashblockMark, actorVars, askVars
<1>4. CASE UNCHANGED vars
  BY <1>4 DEF vars, actorVars, askVars
<1> QED
  BY <1>1, <1>2, <1>3, <1>4 DEF Next

\* A context that is set starts where the previous one did, or later.
LEMMA StartsStep ==
    ASSUME TypeInv, StartsOrdered, startBlock <= head, [Next]_vars, status' = "Running"
    PROVE  StartsOrdered' /\ ctx.start <= ctx'.start
<1>0. /\ api \in Seq(TxActorMessage) /\ startBlock \in Nat /\ head \in Nat /\ ctx.start \in Nat
      /\ ctx \in ActorContext
  BY ConstantsAssumption DEF TypeInv, TypeOK, Blocks, ActorContext
<1>b. \A i \in DOMAIN api : api[i].op = "InitCtx" => api[i].block \in Nat
  <2>1. \A m \in TxActorMessage : m.op = "InitCtx" => m.block \in Nat
    BY ConstantsAssumption DEF TxActorMessage, Blocks
  <2> QED
    BY <1>0, <2>1
<1>t. ASSUME api # <<>>, api' = Tail(api)
      PROVE  \A i \in DOMAIN api' : i + 1 \in DOMAIN api /\ api'[i] = api[i + 1] /\ i \in Nat
  BY <1>0, <1>t
<1>1. CASE UNCHANGED <<api, ctx, startBlock>>
  BY <1>0, <1>1 DEF StartsOrdered
<1>2. CASE ActorStep /\ startBlock' = startBlock
  <2>1. CASE HandleInitCtx
    <3>1. /\ api # <<>> /\ api' = Tail(api) /\ 1 \in DOMAIN api /\ Head(api) = api[1]
          /\ api[1].op = "InitCtx" /\ ctx'.start = api[1].block
      BY <1>0, <2>1 DEF HandleInitCtx, Message
    <3>2. \A i \in DOMAIN api' : 1 < i + 1
      BY <1>t, <3>1
    <3> QED
      BY <1>0, <1>2, <1>b, <1>t, <3>1, <3>2 DEF StartsOrdered
  <2>2. CASE ctx'.start = ctx.start
    <3>1. CASE api' = <<>>
      BY <1>0, <1>2, <2>2, <3>1 DEF StartsOrdered
    <3>2. CASE api # <<>> /\ api' = Tail(api)
      BY <1>0, <1>2, <1>t, <2>2, <3>2 DEF StartsOrdered
    <3>3. CASE api' = api
      BY <1>0, <1>2, <2>2, <3>3 DEF StartsOrdered
    <3> QED
      BY <1>2, <3>1, <3>2, <3>3, ActorTakesMessage, Zenon
  <2>3. CASE HandleRemoveConfirmed
    <3>1. \E b : ctx' \in {ctx, [ctx EXCEPT !.target = b]}
      BY <2>3, Zenon DEF HandleRemoveConfirmed
    <3>2. ctx'.start = ctx.start
      BY <1>0, <3>1, Zenon DEF ActorContext
    <3> QED
      BY <2>2, <3>2
  <2> QED
    BY <1>2, <2>1, <2>2, <2>3, CtxMoves, Zenon
<1>3. ASSUME NEW m, api' = Append(api, m), UNCHANGED <<ctx, startBlock>>,
             m.op = "InitCtx" => m.block = startBlock
      PROVE  StartsOrdered' /\ ctx.start <= ctx'.start
  <2>1. \A i \in DOMAIN api' : \/ i \in DOMAIN api /\ api'[i] = api[i]
                               \/ i = Len(api) + 1 /\ api'[i] = m
    BY <1>0, <1>3
  <2>2. Len(api) \in Nat /\ \A i \in DOMAIN api : i \in Nat /\ i <= Len(api)
    BY <1>0
  <2> QED
    BY <1>0, <1>3, <1>b, <2>1, <2>2 DEF StartsOrdered
<1>4. ASSUME UNCHANGED <<api, ctx>>, startBlock' = head
      PROVE  StartsOrdered' /\ ctx.start <= ctx'.start
  BY <1>0, <1>4, <1>b DEF StartsOrdered
<1>5. CASE ClientStep \/ \E t \in Txs : CallbackStep(t)
  <2>1. ctx' = ctx
    BY <1>5, OthersStep, Zenon
  <2> QED
    BY <1>1, <1>3, <1>4, <1>5, <2>1, ClientStarts, Zenon
<1> QED
  BY <1>1, <1>2, <1>5, StartMoves, Zenon

\* A scanned block may be passed: its transactions have rows or are excused.
LEMMA ScanPasses ==
    ASSUME TypeInv, NEW g \in Gens, ScanBlock(g) \/ ScanBlockFails(g), [Next]_vars,
           loop[g].newBlock <= head, NEW b, b = loop[g].bn, Passed(b)
    PROVE  Passed(b + 1)'
<1>0. /\ b \in Nat /\ b < loop[g].newBlock /\ loop[g].newBlock \in Nat /\ head \in Nat
      /\ \A t \in Txs : minedIn[t] \in Nat
  <2>1. TypeOK /\ loop[g].bn < loop[g].newBlock
    BY Zenon DEF TypeInv, RangeOK, ScanBlock, ScanBlockFails
  <2>2. loop[g] \in FlushLocals /\ Blocks \subseteq Nat
    BY <2>1, ConstantsAssumption DEF TypeOK, Blocks
  <2> QED
    BY <2>1, <2>2, Zenon DEF TypeOK, FlushLocals
<1>1. UNCHANGED <<head, minedIn, ctx>>
  BY Zenon DEF ScanBlock, ScanBlockFails, chainVars, actorVars
<1>2. ASSUME NEW t \in BlockTxs(b) PROVE Recorded(t)' \/ t \in excused'
  <2>1. CASE ScanBlock(g)
    <3>1. PICK c : db' = db \cup Rows(c, loop[g].run, b, g)
                   /\ excused' = excused \cup (BlockTxs(b) \ Hashes(c))
      BY <2>1, Zenon DEF ScanBlock
    <3>2. CASE t \in Hashes(c)
      <4>1. PICK p \in c : p.tx = t
        BY <3>2, Zenon DEF Hashes
      <4>2. \E r \in Rows(c, loop[g].run, b, g) : r.tx = t
        BY <4>1, RowFor
      <4> QED
        BY <3>1, <4>2, Zenon DEF Recorded
    <3> QED
      BY <1>2, <3>1, <3>2
  <2>2. CASE ScanBlockFails(g)
    BY <1>2, <2>2, Zenon DEF ScanBlockFails
  <2> QED
    BY <2>1, <2>2, Zenon
<1>3. ASSUME NEW t \in Txs, ctx.start <= minedIn[t], minedIn[t] < b + 1, minedIn[t] # 0
      PROVE  Recorded(t)' \/ t \in excused'
  <2>1. CASE minedIn[t] = b
    BY <1>2, <1>3, <2>1, Zenon DEF BlockTxs
  <2>2. CASE minedIn[t] < b
    <3>1. Recorded(t) \/ t \in excused
      BY <1>3, <2>2, Zenon DEF Passed, Covered
    <3> QED
      BY <3>1, LogGrows, ChainGrows, Zenon
  <2> QED
    BY <1>0, <1>3, <2>1, <2>2
<1>4. b + 1 <= head
  BY <1>0
<1> QED
  BY <1>1, <1>3, <1>4 DEF Passed, Covered

\* A request to move the cursor names a block.
LEMMA QueuedBlock ==
    ASSUME TypeOK, NEW g \in Gens, NEW i \in DOMAIN fq[g], fq[g][i].op = "RemoveConfirmed"
    PROVE  fq[g][i].block \in Blocks
<1>1. fq[g] \in Seq(FlushRequest)
  BY Zenon DEF TypeOK
<1>2. fq[g][i] \in FlushRequest
  BY <1>1
<1> QED
  BY <1>2, Zenon DEF FlushRequest

\* The actor hands out its cursor, and moves it only where a loop asked it to.
LEMMA ActorCursor ==
    ASSUME TypeInv, CursorInv, ActorStep, [Next]_vars, status' = "Running"
    PROVE  Passed(ctx.target)' /\ \A g \in Gens : WorkPassed(g)'
<1>0. TypeOK /\ TypeOK' /\ Blocks \subseteq Nat
  BY TypeStep, ConstantsAssumption DEF TypeInv, Blocks
<1>1. /\ status = "Running" /\ StartsOrdered /\ Passed(ctx.target)
      /\ \A g \in Gens : WorkPassed(g)
  BY Zenon DEF CursorInv, ActorStep, HandleGetCacheLen, HandleInitCtx, HandleSentRunTx,
     HandleRemovedRunTx, HandleDumpCache, HandleClearCache, HandleReplaceFlushReceiver, HandleStop,
     HandleGetSnapshot, HandleRemoveConfirmed, Message, Request
<1>2. ctx.start <= ctx'.start
  BY <1>1, StartsStep DEF CursorInv
<1>3. \A b \in Nat : Passed(b) => Passed(b)'
  BY <1>2, PassedStays
<1>4. ctx.target \in Nat /\ ctx'.target \in Nat
  BY <1>0, Zenon DEF TypeOK, ActorContext
<1>5. Passed(ctx.target)'
  <2>1. CASE ctx' = ctx
    BY <1>1, <1>3, <1>4, <2>1, Zenon DEF Passed
  <2>2. CASE HandleInitCtx
    <3>1. /\ ctx'.target = Head(api).block /\ ctx'.start = Head(api).block
          /\ 1 \in DOMAIN api /\ Head(api) = api[1] /\ api[1].op = "InitCtx"
          /\ head' = head /\ minedIn' = minedIn
      <4>1. /\ ctx' = [some |-> TRUE, run |-> Head(api).run, target |-> Head(api).block,
                       start |-> Head(api).block]
            /\ api # <<>> /\ Head(api).op = "InitCtx"
            /\ head' = head /\ minedIn' = minedIn
        BY <2>2, Zenon DEF HandleInitCtx, Message, chainVars
      <4>2. 1 \in DOMAIN api /\ Head(api) = api[1]
        <5>1. api \in Seq(TxActorMessage)
          BY <1>0, Zenon DEF TypeOK
        <5> QED
          BY <4>1, <5>1
      <4>3. ctx'.target = Head(api).block /\ ctx'.start = Head(api).block
        BY <4>1
      <4> QED
        BY <4>1, <4>2, <4>3, Zenon
    <3>2. Head(api).block <= startBlock /\ startBlock <= head /\ startBlock \in Nat /\ head \in Nat
      BY <1>0, <1>1, <3>1, Zenon DEF StartsOrdered, CursorInv, TypeOK
    <3>3. \A t \in Txs : minedIn'[t] \in Nat
      BY <1>0, Zenon DEF TypeOK
    <3> QED
      BY <1>4, <3>1, <3>2, <3>3 DEF Passed, Covered
  <2>3. CASE HandleRemoveConfirmed
    <3>1. PICK b : /\ \E i \in DOMAIN fq[flushRx] : /\ fq[flushRx][i].op = "RemoveConfirmed"
                                                    /\ fq[flushRx][i].block = b
                   /\ b \in Nat /\ ctx' \in {ctx, [ctx EXCEPT !.target = b]}
      <4>1. fq[flushRx] \in Seq(FlushRequest) /\ fq[flushRx] # <<>> /\ flushRx \in Gens
        BY <1>0, <2>3, Zenon DEF TypeOK, HandleRemoveConfirmed, Request
      <4>2. 1 \in DOMAIN fq[flushRx] /\ fq[flushRx][1] = Head(fq[flushRx])
        BY <4>1
      <4>3. Head(fq[flushRx]).op = "RemoveConfirmed" /\ Head(fq[flushRx]).block \in Nat
        BY <1>0, <2>3, <4>1, RequestType DEF HandleRemoveConfirmed, Request
      <4>4. ctx' \in {ctx, [ctx EXCEPT !.target = Head(fq[flushRx]).block]}
        BY <2>3, Zenon DEF HandleRemoveConfirmed
      <4> QED
        BY <4>2, <4>3, <4>4, Zenon
    <3>2. Passed(b)'
      BY <1>0, <1>1, <1>3, <3>1, Zenon DEF WorkPassed, TypeOK
    <3>3. CASE ctx' = [ctx EXCEPT !.target = b]
      <4>1. ctx'.target = b
        BY <1>0, <3>3, Zenon DEF TypeOK, ActorContext
      <4> QED
        BY <3>2, <4>1 DEF Passed
    <3> QED
      BY <2>1, <3>1, <3>3
  <2> QED
    BY <2>1, <2>2, <2>3, CtxMoves, Zenon
<1>6. ASSUME NEW g \in Gens PROVE WorkPassed(g)'
  <2>1. loop' = loop /\ loop[g].bn \in Nat
    BY <1>0, ActorTakesRequests, Zenon DEF TypeOK, FlushLocals
  <2>2. ASSUME NEW r \in reply'[g] PROVE Passed(r.ctx.target)'
    <3>1. CASE r \in reply[g]
      <4>1. r.ctx.target \in Nat
        BY <1>0, <3>1, ReplyType, Zenon
      <4> QED
        BY <1>1, <1>3, <3>1, <4>1 DEF WorkPassed
    <3>2. CASE r.ctx = ctx /\ ctx' = ctx
      BY <1>5, <3>2, Zenon
    <3> QED
      BY <3>1, <3>2, ActorAnswers, Zenon
  <2>3. ASSUME NEW i \in DOMAIN fq'[g], fq'[g][i].op = "RemoveConfirmed"
        PROVE  Passed(fq[g][i].block)'
    <3>1. PICK j \in DOMAIN fq[g] : fq'[g][i] = fq[g][j]
      BY ActorTakesRequests
    <3>2. Passed(fq[g][j].block) /\ fq[g][j].block \in Nat
      BY <1>0, <1>1, <2>3, <3>1, QueuedBlock, Zenon DEF WorkPassed
    <3>3. ASSUME NEW b \in Nat, b = fq[g][j].block PROVE Passed(b)'
      BY <1>3, <3>2, <3>3, Zenon
    <3> QED
      BY <3>1, <3>2, <3>3, Zenon
  <2> QED
    BY <1>1, <1>3, <2>1, <2>2, <2>3 DEF WorkPassed
<1> QED
  BY <1>5, <1>6, Zenon

\* A loop moves on past what it scanned, and tells the actor so.
LEMMA LoopPasses ==
    ASSUME TypeInv, CursorInv, NEW g \in Gens, FlushStep(g), [Next]_vars, status = "Running"
    PROVE  \A h \in Gens : WorkPassed(h)'
<1>0. TypeOK /\ Blocks \subseteq Nat
  BY ConstantsAssumption DEF TypeInv, Blocks
<1>1. /\ Passed(ctx.target) /\ loop[g].newBlock <= head
      /\ \A h \in Gens : WorkPassed(h)
  BY DEF CursorInv
<1>2. ctx' = ctx /\ ctx.start \in Nat
  BY <1>0, LoopSendsRequests, Zenon DEF actorVars, TypeOK, ActorContext
<1>3. \A b \in Nat : Passed(b) => Passed(b)'
  BY <1>2, PassedStays
<1>4. ASSUME NEW h \in Gens
      PROVE  \A r \in reply'[h] : Passed(r.ctx.target)'
  <2>1. \A r \in reply'[h] : r \in reply[h] /\ r.ctx.target \in Nat
    BY <1>0, LoopReads, ReplyType, Zenon DEF TypeOK
  <2> QED
    BY <1>1, <1>3, <2>1 DEF WorkPassed
<1>5. ASSUME NEW h \in Gens, NEW b, \/ loop[h].pc = "Scan" /\ b = loop[h].bn
                                    \/ /\ loop[h].pc \in {"Confirm", "RefreshWait"}
                                       /\ b = loop[h].bn + 1
      PROVE  Passed(b)'
  <2>1. loop[h].bn \in Nat
    BY <1>0, Zenon DEF TypeOK, FlushLocals
  <2> QED
    BY <1>1, <1>3, <1>5, <2>1 DEF WorkPassed
<1>6. ASSUME NEW h \in Gens, NEW i \in DOMAIN fq'[h], fq'[h][i].op = "RemoveConfirmed"
      PROVE  Passed(fq[h][i].block)'
  <2>1. CASE \E j \in DOMAIN fq[h] : fq'[h][i] = fq[h][j]
    <3>1. PICK j \in DOMAIN fq[h] : fq'[h][i] = fq[h][j]
      BY <2>1
    <3>2. Passed(fq[h][j].block) /\ fq[h][j].block \in Nat
      BY <1>0, <1>1, <1>6, <3>1, QueuedBlock, Zenon DEF WorkPassed
    <3>3. ASSUME NEW b \in Nat, b = fq[h][j].block PROVE Passed(b)'
      BY <1>3, <3>2, <3>3, Zenon
    <3> QED
      BY <3>1, <3>2, <3>3, Zenon
  <2>2. CASE h = g /\ ConfirmBlock(g) /\ fq'[h][i] = ConfirmRequests(loop[g])[1]
    <3>1. fq'[h][i].block = loop[g].bn + 1 /\ loop[g].pc = "Confirm"
      BY <2>2 DEF ConfirmRequests, ConfirmBlock
    <3>2. ASSUME NEW b, b = loop[g].bn + 1 PROVE Passed(b)'
      BY <1>5, <3>1, <3>2, Zenon
    <3> QED
      BY <3>1, <3>2
  <2> QED
    BY <1>6, <2>1, <2>2, LoopSendsRequests, Zenon
<1>7. ASSUME NEW b, b = loop[g].bn, loop'[g].pc \in {"Confirm", "RefreshWait"}
      PROVE  Passed(b + 1)' /\ loop'[g].bn = b
  <2>1. CASE ScanBlock(g)
    BY <1>1, <1>7, <2>1, ScanPasses, LoopCursor, Zenon DEF ScanBlock, WorkPassed
  <2>2. CASE ConfirmBlock(g)
    BY <1>5, <1>7, <2>2, LoopCursor, Zenon DEF ConfirmBlock
  <2> QED
    BY <1>7, <2>1, <2>2, LoopMoves
<1>8. ASSUME NEW b, b = loop'[g].bn, loop'[g].pc = "Scan"
      PROVE  Passed(b)'
  <2>1. CASE \E r \in reply[g] : b = r.ctx.target
    BY <1>0, <1>1, <1>3, <2>1, ReplyType, Zenon DEF WorkPassed
  <2>2. CASE b = loop[g].bn + 1 /\ loop[g].pc = "RefreshWait"
    BY <1>5, <2>2
  <2>3. CASE b = loop[g].bn + 1 /\ ScanBlockFails(g)
    <3>1. PICK c : c = loop[g].bn
      BY Zenon
    <3> QED
      BY <1>1, <2>3, <3>1, ScanPasses, Zenon DEF ScanBlockFails, WorkPassed
  <2> QED
    BY <1>8, <2>1, <2>2, <2>3, LoopCursor
<1>9. ASSUME NEW h \in Gens
      PROVE  /\ loop'[h].pc = "Scan" => Passed(loop[h].bn)'
             /\ loop'[h].pc \in {"Confirm", "RefreshWait"} => Passed(loop[h].bn + 1)'
  <2>1. CASE h = g
    BY <1>7, <1>8, <2>1, Zenon
  <2>2. CASE h # g
    <3>1. loop'[h] = loop[h]
      BY <2>2, LoopMoves, Zenon
    <3> QED
      BY <1>5, <3>1, Zenon
  <2> QED
    BY <2>1, <2>2, Zenon
<1> QED
  BY <1>4, <1>6, <1>9, Zenon DEF WorkPassed

\* Every step of actor, loops, clients and chain keeps the cursor behind the scans.
LEMMA CursorStep == TypeInv /\ CursorInv /\ [Next]_vars => CursorInv'
<1> SUFFICES ASSUME TypeInv, CursorInv, [Next]_vars PROVE CursorInv'
  OBVIOUS
<1>0. TypeOK /\ TypeOK' /\ Blocks \subseteq Nat
  BY TypeStep, ConstantsAssumption DEF TypeInv, Blocks
<1>1. startBlock' <= head'
  <2>1. startBlock' \in {startBlock, head}
    BY StartMoves, ClientStarts, Zenon
  <2> QED
    BY <1>0, <2>1, ChainGrows DEF CursorInv, TypeOK
<1>2. ASSUME NEW g \in Gens PROVE loop'[g].newBlock <= head'
  <2>1. loop'[g].newBlock \in {0, loop[g].newBlock, head}
    <3>1. CASE \E h \in Gens : FlushStep(h)
      BY <3>1, LoopCursor, LoopMoves, Zenon
    <3>2. CASE ClientStep \/ \E t \in Txs : CallbackStep(t)
      BY <3>2, OthersStep, TopRange, Zenon
    <3>3. CASE ActorStep
      BY <3>3, ActorTakesRequests, Zenon
    <3>4. CASE EnvStep \/ UNCHANGED vars
      BY <3>4, Zenon DEF EnvStep, MineBlock, HandleFlashblockMark, vars, loopVars
    <3> QED
      BY <3>1, <3>2, <3>3, <3>4, Zenon DEF Next
  <2>2. loop[g].newBlock \in Nat /\ head \in Nat /\ head' \in Nat
    BY <1>0, Zenon DEF TypeOK, FlushLocals
  <2> QED
    BY <2>1, <2>2, ChainGrows DEF CursorInv
<1>3. ASSUME UNCHANGED ctx PROVE \A b \in Nat : Passed(b) => Passed(b)'
  <2>1. ctx.start \in Nat
    BY <1>0, Zenon DEF TypeOK, ActorContext
  <2>2. ctx.start <= ctx'.start
    BY <1>3, <2>1
  <2> QED
    BY <2>2, PassedStays
<1>4. ASSUME UNCHANGED <<ctx, loop, reply, fq>>, status = "Running"
      PROVE  \A g \in Gens : WorkPassed(g)'
  <2>1. ASSUME NEW g \in Gens
        PROVE  /\ loop[g].bn \in Nat /\ \A r \in reply[g] : r.ctx.target \in Nat
               /\ \A i \in DOMAIN fq[g] : fq[g][i].op = "RemoveConfirmed" => fq[g][i].block \in Nat
    BY <1>0, ReplyType, QueuedBlock, Zenon DEF TypeOK, FlushLocals
  <2>2. ASSUME NEW g \in Gens PROVE WorkPassed(g)'
    <3>1. WorkPassed(g) /\ loop'[g] = loop[g] /\ reply'[g] = reply[g] /\ fq'[g] = fq[g]
      BY <1>4, <2>2, Zenon DEF CursorInv
    <3>2. loop[g].bn + 1 \in Nat
      BY <2>1
    <3> QED
      BY <1>3, <1>4, <2>1, <3>1, <3>2, Zenon DEF WorkPassed
  <2> QED
    BY <2>2, Zenon
<1>5. ASSUME UNCHANGED ctx PROVE Passed(ctx.target)'
  BY <1>0, <1>3, <1>5, Zenon DEF CursorInv, TypeOK, ActorContext
<1>6. Passed(ctx.target)' /\ (status' = "Running" => \A g \in Gens : WorkPassed(g)')
  <2>1. CASE ActorStep
    <3>1. CASE status' # "Running"
      <4>1. CASE ctx' = NoCtx
        <5>1. ctx'.target = 0 /\ head' \in Nat /\ \A t \in Txs : minedIn'[t] \in Nat
          BY <1>0, <4>1, Zenon DEF NoCtx, TypeOK
        <5> QED
          BY <3>1, <5>1 DEF Passed, Covered
      <4>2. ~HandleInitCtx /\ ~HandleRemoveConfirmed
        BY <3>1, Zenon DEF HandleInitCtx, HandleRemoveConfirmed, Message, Request
      <4> QED
        BY <1>5, <2>1, <3>1, <4>1, <4>2, CtxMoves
    <3> QED
      BY <2>1, <3>1, ActorCursor
  <2>2. ASSUME NEW g \in Gens, FlushStep(g)
        PROVE  Passed(ctx.target)' /\ (status' = "Running" => \A h \in Gens : WorkPassed(h)')
    <3>1. UNCHANGED <<ctx, status>>
      BY <2>2, LoopSendsRequests DEF actorVars
    <3> QED
      BY <1>5, <2>2, <3>1, LoopPasses, Zenon
  <2>3. CASE ClientStep \/ \E t \in Txs : CallbackStep(t)
    <3>1. UNCHANGED <<ctx, status, reply, fq>>
      BY <2>3, OthersStep, Zenon
    <3>2. ASSUME NEW g \in Gens, status' = "Running" PROVE WorkPassed(g)'
      <4>1. /\ loop[g].bn \in Nat /\ \A r \in reply[g] : r.ctx.target \in Nat
            /\ \A i \in DOMAIN fq[g] : fq[g][i].op = "RemoveConfirmed" => fq[g][i].block \in Nat
        BY <1>0, ReplyType, QueuedBlock, Zenon DEF TypeOK, FlushLocals
      <4>2. loop'[g] = loop[g] \/ loop'[g].pc = "Phase1"
        BY <2>3, OthersStep DEF FreshLoop, TopLocals
      <4>3. WorkPassed(g) /\ UNCHANGED ctx /\ reply'[g] = reply[g] /\ fq'[g] = fq[g]
        BY <3>1, <3>2, Zenon DEF CursorInv
      <4>4. loop[g].bn + 1 \in Nat
        BY <4>1
      <4>5. CASE loop'[g] = loop[g]
        BY <1>3, <4>1, <4>3, <4>4, <4>5, Zenon DEF WorkPassed
      <4>6. CASE loop'[g].pc = "Phase1"
        BY <1>3, <4>1, <4>3, <4>6, Zenon DEF WorkPassed
      <4> QED
        BY <4>2, <4>5, <4>6, Zenon
    <3> QED
      BY <1>5, <3>1, <3>2, Zenon
  <2>4. CASE EnvStep \/ UNCHANGED vars
    <3>1. UNCHANGED <<ctx, status, loop, reply, fq>>
      BY <2>4, Zenon DEF EnvStep, MineBlock, HandleFlashblockMark, vars, loopVars, actorVars
    <3> QED
      BY <1>4, <1>5, <3>1, Zenon
  <2> QED
    BY <2>1, <2>2, <2>3, <2>4 DEF Next
<1>7. status' = "Running" => StartsOrdered'
  <2>1. status' = "Running" => status = "Running"
    <3>1. CASE ActorStep
      BY <3>1 DEF ActorStep, HandleGetCacheLen, HandleInitCtx, HandleSentRunTx, HandleRemovedRunTx,
         HandleDumpCache, HandleClearCache, HandleReplaceFlushReceiver, HandleStop,
         HandleGetSnapshot, HandleRemoveConfirmed, Message, Request
    <3> QED
      BY <3>1, StartMoves, OthersStep, Zenon
  <2> QED
    BY <2>1, StartsStep, Zenon DEF CursorInv
<1> QED
  BY <1>1, <1>2, <1>6, <1>7 DEF CursorInv

\* In every reachable state, for all numbers of transactions, loops, restarts and
\* blocks, a block of the current run that lies before the cursor of the actor was
\* scanned: HandleRemoveConfirmed never moves target_block past a block whose
\* transactions have neither a row nor an excuse, whichever loop asked for it and
\* whichever context was set in between.
THEOREM SkipsNothing == Spec => []NoSilentSkip
<1>1. Init => CursorInv
  <2> SUFFICES ASSUME Init PROVE CursorInv
    BY Zenon
  <2>1. /\ startBlock = 0 /\ head = 0 /\ ctx.target = 0 /\ ctx.start = 0 /\ api = <<>>
        /\ \A t \in Txs : minedIn[t] = 0
        /\ \A g \in Gens : reply[g] = {} /\ fq[g] = <<>> /\ loop[g].newBlock = 0
                           /\ loop[g].pc \in {"Phase1", "NotSpawned"}
    BY Zenon DEF Init, NoCtx, FreshLoop, TopLocals
  <2>2. 0 <= 0 /\ DOMAIN << >> = {}
    OBVIOUS
  <2>3. Passed(ctx.target)
    BY <2>1, <2>2, Zenon DEF Passed, Covered
  <2>4. StartsOrdered
    BY <2>1, <2>2, Zenon DEF StartsOrdered
  <2>5. \A g \in Gens : WorkPassed(g)
    BY <2>1, <2>2, Zenon DEF WorkPassed
  <2> QED
    BY <2>1, <2>2, <2>3, <2>4, <2>5, Zenon DEF CursorInv
<1>2. CursorInv => NoSilentSkip
  BY DEF CursorInv, Passed, Covered, NoSilentSkip
<1> QED
  BY <1>1, <1>2, CursorStep, TypeInvHolds, PTL DEF Spec
=============================================================================
