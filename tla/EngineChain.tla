---------------------------- MODULE EngineChain ----------------------------
(***************************************************************************)
(* The engine provider (crates/engine_provider): advance_chain, which      *)
(* makes the node build and adopt one block, and replay_chain_segment,     *)
(* which sends a range of old blocks to the node again.  Both wrap the     *)
(* Engine API in the *_wait loops of valid_payload.rs, which repeat a call *)
(* until its answer is VALID or final.                                     *)
(*                                                                         *)
(* A block is a number; its parent is kept by the node.  The node answers  *)
(* SYNCING while it syncs or for a block it does not know, and may have    *)
(* built a block it then finds INVALID.                                    *)
(***************************************************************************)
EXTENDS Integers, Sequences, SequencesExt

CONSTANTS Versions,   \* EngineApiMessageVersion, as configured
          Length,     \* number of the node's latest block at the start
          MaxBlocks,  \* bound on the blocks
          MaxSyncs,   \* bound on how often the node starts to sync
          Ends,       \* values of end_block, NoBlock for None
          Faults      \* subset of {"transport", "invalid"}

ASSUME EngineAssumption ==
  /\ Versions \subseteq 1..4
  /\ Length \in Nat /\ MaxBlocks \in Nat /\ MaxSyncs \in Nat
  /\ Faults \subseteq {"transport", "invalid"}

VARIABLES version,    \* message_version
          era,        \* version of the payloads that old blocks convert to
          parent,     \* parent of each block after genesis, which is 0
          known,      \* the blocks the node has imported
          bad,        \* the blocks the node finds invalid
          head, final,
          syncing, syncs,
          adv,        \* the caller of advance_chain
          rep         \* the caller of replay_chain_segment

chain == <<parent, known, bad, head, final, syncing, syncs>>
engineVars == <<version, era, chain, adv, rep>>

NoBlock == -1
Blocks == 0..Len(parent)

\* The canonical chain up to block b, genesis left out.
Chain[b \in 0..MaxBlocks] ==
  IF b = 0 THEN <<>> ELSE Append(Chain[parent[b]], b)

Number(b) == Len(Chain[b])
Descends(b, a) == a = 0 \/ a \in ToSet(Chain[b])
BlockAt(n) == IF n = 0 THEN 0 ELSE Chain[head][n]

EngineStart(v, e) ==
  /\ version = v /\ era = e
  /\ parent = [b \in 1..Length |-> b - 1]
  /\ known = 0..Length /\ bad = {}
  /\ head = Length /\ final = 0
  /\ syncing = FALSE /\ syncs = 0
  /\ adv = [at |-> "idle", base |-> 0, block |-> 0]
  /\ rep = [at |-> "idle", start |-> 0, end |-> 0, blocks |-> <<>>, replayed |-> <<>>]

EngineInit == \E v \in Versions, e \in {2, 3} : EngineStart(v, e)
-----------------------------------------------------------------------------
\* The node.

StartSync ==
  /\ ~syncing /\ syncs < MaxSyncs
  /\ syncing' = TRUE /\ syncs' = syncs + 1
  /\ UNCHANGED <<version, era, parent, known, bad, head, final, adv, rep>>

EndSync ==
  /\ syncing /\ syncing' = FALSE
  /\ UNCHANGED <<version, era, parent, known, bad, head, final, syncs, adv, rep>>

\* The status a forkchoice update to h is answered with.  Moving to an ancestor
\* of the head is always allowed, and to another branch above final.
FcuStatus(h) ==
  IF syncing \/ h \notin known THEN "SYNCING"
  ELSE IF h \in bad THEN "INVALID"
  ELSE IF Descends(head, h) \/ Descends(h, final) THEN "VALID"
  ELSE "REFUSED"

\* The node may leave the head where it is when h is an ancestor of it.
Forkchoice(h, fin) ==
  \/ Descends(h, final) /\ head' = h /\ final' = fin
  \/ h # head /\ Descends(head, h) /\ UNCHANGED <<head, final>>

\* A block beside the canonical chain is only accepted.
PayloadStatus(b) ==
  IF syncing \/ parent[b] \notin known THEN "SYNCING"
  ELSE IF b \in bad THEN "INVALID"
  ELSE IF parent[b] = head \/ Descends(head, b) THEN "VALID" ELSE "ACCEPTED"
-----------------------------------------------------------------------------
\* The *_wait loops: what the caller makes of a status.

FcuOutcome(status) ==
  CASE status = "VALID" -> "ok"
    [] status = "INVALID" -> "panic"
    [] status = "SYNCING" /\ version >= 3 -> "retry"
    [] OTHER -> "err"

PayloadOutcome(v, status) ==
  CASE status = "VALID" -> "ok"
    [] status = "ACCEPTED" -> "retry"
    [] status = "SYNCING" /\ v <= 2 -> "retry"
    [] OTHER -> "err"
-----------------------------------------------------------------------------
\* advance_chain.

MutantReadLatest ==
  /\ adv.at = "idle" /\ Len(parent) < MaxBlocks
  /\ adv' = [adv EXCEPT !.at = "fcu", !.base = final]
  /\ UNCHANGED <<version, era, chain, rep>>

ReadLatest ==
  /\ adv.at = "idle" /\ Len(parent) < MaxBlocks
  /\ adv' = [adv EXCEPT !.at = "fcu", !.base = head]
  /\ UNCHANGED <<version, era, chain, rep>>

AdvanceEnds(outcome) ==
  adv' = [adv EXCEPT !.at = IF outcome = "panic" THEN "panic" ELSE "idle"]

\* First FCU: the same block as head, safe and finalized, with attributes.  An
\* answer without a payload id, for a head the node did not take, panics.
FcuBuild ==
  /\ adv.at = "fcu"
  /\ LET outcome == FcuOutcome(FcuStatus(adv.base)) IN
     \/ /\ outcome = "ok"
        /\ Forkchoice(adv.base, adv.base)
        /\ adv' = [adv EXCEPT !.at = IF head' = adv.base THEN "build" ELSE "panic"]
     \/ /\ outcome \in {"err", "panic"}
        /\ AdvanceEnds(outcome)
        /\ UNCHANGED <<head, final>>
  /\ UNCHANGED <<version, era, parent, known, bad, syncing, syncs, rep>>

\* The builder's block on the base, fetched after a pause.
GetPayload ==
  /\ adv.at = "build"
  /\ parent' = Append(parent, adv.base)
  /\ adv' = [adv EXCEPT !.at = "payload", !.block = Len(parent')]
  /\ bad' \in {bad} \cup IF "invalid" \in Faults THEN {bad \cup {Len(parent')}} ELSE {}
  /\ UNCHANGED <<version, era, known, head, final, syncing, syncs, rep>>

NewPayload ==
  /\ adv.at = "payload"
  /\ LET outcome == PayloadOutcome(version, PayloadStatus(adv.block)) IN
     \/ /\ outcome = "ok"
        /\ known' = known \cup {adv.block}
        /\ adv' = [adv EXCEPT !.at = "adopt"]
     \/ /\ outcome = "err"
        /\ AdvanceEnds(outcome)
        /\ UNCHANGED known
  /\ UNCHANGED <<version, era, parent, bad, head, final, syncing, syncs, rep>>

\* Second FCU: the new block becomes the head, its parent final.
FcuAdopt ==
  /\ adv.at = "adopt"
  /\ LET outcome == FcuOutcome(FcuStatus(adv.block)) IN
     \/ outcome = "ok" /\ Forkchoice(adv.block, adv.base)
     \/ outcome \in {"err", "panic"} /\ UNCHANGED <<head, final>>
  /\ AdvanceEnds(FcuOutcome(FcuStatus(adv.block)))
  /\ UNCHANGED <<version, era, parent, known, bad, syncing, syncs, rep>>

AdvanceFails ==
  /\ "transport" \in Faults /\ adv.at \notin {"idle", "panic"}
  /\ AdvanceEnds("err")
  /\ UNCHANGED <<version, era, chain, rep>>
-----------------------------------------------------------------------------
\* replay_chain_segment.

ReplayEnds(result) == rep' = [rep EXCEPT !.at = result]

\* The range check; None stands for the latest block.
Replay(start, end) ==
  /\ rep.at = "idle" /\ adv.at = "idle"
  /\ LET last == IF end = NoBlock THEN Number(head) ELSE end IN
     rep' = [rep EXCEPT !.start = start, !.end = last,
               !.at = IF start >= last \/ start < 1 THEN "err" ELSE "fetch"]
  /\ UNCHANGED <<version, era, chain, adv>>

MutantFetchNext == rep.start + Len(rep.blocks)

\* The number of the next block to fetch: the parent of start_block first.
FetchNext == rep.start - 1 + Len(rep.blocks)

Fetch ==
  /\ rep.at = "fetch"
  /\ IF FetchNext >= rep.end
     THEN rep' = [rep EXCEPT !.at = "fcu"]
     ELSE IF FetchNext <= Number(head)
     THEN rep' = [rep EXCEPT !.blocks = Append(@, BlockAt(FetchNext))]
     ELSE ReplayEnds("err")
  /\ UNCHANGED <<version, era, chain, adv>>

\* blocks.windows(2): the i-th window executes the block after its i-th.
Window == Len(rep.replayed) + 1

ReplayFcu ==
  /\ rep.at = "fcu"
  /\ IF Window = Len(rep.blocks)
     THEN ReplayEnds("ok") /\ UNCHANGED <<head, final>>
     ELSE LET outcome == FcuOutcome(FcuStatus(rep.blocks[Window + 1])) IN
          \/ /\ outcome = "ok"
             /\ Forkchoice(rep.blocks[Window + 1], rep.blocks[Window])
             /\ rep' = [rep EXCEPT !.at = "payload"]
          \/ /\ outcome \in {"err", "panic"}
             /\ ReplayEnds(outcome)
             /\ UNCHANGED <<head, final>>
  /\ UNCHANGED <<version, era, parent, known, bad, syncing, syncs, adv>>

\* block_to_payload makes payloads of version 2 or 3, whatever the FCU's.
ReplayPayload ==
  /\ rep.at = "payload"
  /\ LET block == rep.blocks[Window + 1]
         outcome == PayloadOutcome(era, PayloadStatus(block)) IN
     \/ /\ outcome = "ok"
        /\ rep' = [rep EXCEPT !.at = "fcu", !.replayed = Append(@, block)]
     \/ outcome = "err" /\ ReplayEnds("err")
  /\ UNCHANGED <<version, era, chain, adv>>

ReplayFails ==
  /\ "transport" \in Faults /\ rep.at \in {"fetch", "fcu", "payload"}
  /\ ReplayEnds("err")
  /\ UNCHANGED <<version, era, chain, adv>>
-----------------------------------------------------------------------------
Advance == FcuBuild \/ GetPayload \/ NewPayload \/ FcuAdopt
ReplayStep == Fetch \/ ReplayFcu \/ ReplayPayload

EngineNext ==
  \/ StartSync \/ EndSync
  \/ ReadLatest /\ rep.at = "idle"
  \/ Advance \/ AdvanceFails
  \/ \E start \in 0..Length, end \in Ends : Replay(start, end)
  \/ ReplayStep \/ ReplayFails

-----------------------------------------------------------------------------
\* advance_chain never takes a block off the canonical chain, also after calls
\* that failed between newPayload and the second FCU and left a block behind.
NoReorg == [][rep.at = "idle" => Descends(head', head)]_head

\* replay_chain_segment that returns Ok has executed the blocks of its range from
\* start_block on, each once and in the order of the chain, none outside the range
\* and none left out in it, though blocks of its loop are windows of two and the
\* first one fetched is the parent.  Whether `end_block` itself is to be replayed is
\* left open: the loop stops before it, the --to-block help calls it the last one.
OkMeansReplayed ==
  rep.at = "ok" =>
    LET n == Len(rep.replayed) IN
    /\ n \in {rep.end - rep.start, rep.end - rep.start + 1}
    /\ [i \in 1..n |-> Number(rep.replayed[i])] = [i \in 1..n |-> rep.start + i - 1]
    /\ \A i \in 2..n : parent[rep.replayed[i]] = rep.replayed[i - 1]
=============================================================================
