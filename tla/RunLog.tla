------------------------------- MODULE RunLog --------------------------------
(***************************************************************************)
(* What the pending-transaction actor promises its callers, whichever      *)
(* messages, snapshots and flush loops bring it about: a transaction it    *)
(* acknowledges is held until it is in the log or discarded on request.    *)
(* TxActor implements this specification.                                  *)
(***************************************************************************)
CONSTANT Txs

VARIABLES
    alive,      \* the actor serves requests
    taken,      \* transactions ever acknowledged
    held,       \* transactions kept for the log
    written,    \* transactions with a row in the log
    discarded   \* transactions given up because a caller asked for it

logVars == <<alive, taken, held, written, discarded>>

Init ==
    /\ alive = TRUE
    /\ taken = {}
    /\ held = {}
    /\ written = {}
    /\ discarded = {}

\* After a request that empties or shrinks the store the actor may stop at once:
\* nobody waits for its answer.
LiveOr(kept) == \/ alive' = TRUE /\ held' = kept
                \/ alive' = FALSE /\ held' = {}

Take(t) ==
    /\ alive
    /\ taken' = taken \cup {t}
    /\ held' = held \cup {t}
    /\ UNCHANGED <<alive, written, discarded>>

\* Rows appear for acknowledged transactions only, held any longer or not.
Write(S) ==
    /\ S \subseteq taken
    /\ written' = written \cup S
    /\ UNCHANGED <<alive, taken, held, discarded>>

\* Only what is in the log is forgotten.
Forget(S) ==
    /\ alive
    /\ S \subseteq held \cap written
    /\ held' = held \ S
    /\ UNCHANGED <<alive, taken, written, discarded>>

\* Everything held is written and forgotten in one step.
Dump ==
    /\ alive
    /\ written' = written \cup held
    /\ LiveOr({})
    /\ UNCHANGED <<taken, discarded>>

Discard(S) ==
    /\ alive
    /\ S \subseteq held
    /\ discarded' = discarded \cup S
    /\ LiveOr(held \ S)
    /\ UNCHANGED <<taken, written>>

Die ==
    /\ alive
    /\ alive' = FALSE
    /\ held' = {}
    /\ UNCHANGED <<taken, written, discarded>>

Next ==
    \/ \E t \in Txs : Take(t)
    \/ \E S \in SUBSET Txs : Write(S) \/ Forget(S) \/ Discard(S)
    \/ Dump
    \/ Die

Spec == Init /\ [][Next]_logVars
=============================================================================
