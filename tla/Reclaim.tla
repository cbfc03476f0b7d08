------------------------------- MODULE Reclaim -------------------------------
(***************************************************************************)
(* admin reclaim-eth (crates/cli/src/commands/admin.rs): the balance of    *)
(* every account of the pools, less the gas of the transfer, is sent to a  *)
(* recipient, account by account, and a call that fails ends the command.  *)
(* Meanwhile the node mines, also what an earlier run left in its pool,    *)
(* and changes its gas price.                                              *)
(*                                                                         *)
(* Amounts are in units of the gas of a transfer at price one.  The node   *)
(* is that of the RPC URL "A", where the scenario was run; it has no more  *)
(* than one pending transaction of an account, with its next nonce.        *)
(***************************************************************************)
EXTENDS Agents, RpcSpam

CONSTANTS Scenarios,      \* the scenarios, with the file each is read from
          Specs,          \* the AgentSpecs they were run with
          Counts,         \* --num-signers
          Chosen,         \* --from-pool: a sequence, which may repeat a pool
          Prices,         \* the gas prices of the node
          MaxPriceMoves,  \* bound on the changes of the price
          Left            \* what the run left the accounts with

VARIABLES ran,    \* [scenario, spec] of the run that funded the accounts
          eth,    \* the node
          rc      \* handle_reclaim_eth

reclaimVars == <<ran, eth, rc>>

NoTx == [kind |-> "none", value |-> 0, price |-> 0]
NoReclaim == [at |-> "idle", file |-> FALSE, rpc |-> "", chosen |-> <<>>, count |-> 0, url |-> "",
              pools |-> <<>>, signers |-> <<>>, balance |-> 0, price |-> 0, nonce |-> 0, total |-> 0,
              seen |-> {}]

Funded == AllSigners(BuildAgentStore(ran.scenario, ran.spec))

ReclaimIdle ==
  /\ ran = [scenario |-> CHOOSE s \in Scenarios : TRUE, spec |-> CHOOSE s \in Specs : TRUE]
  /\ rc = NoReclaim
  /\ eth = [balance |-> <<>>, nonce |-> <<>>, pending |-> <<>>, price |-> 0, moves |-> 0, got |-> 0]

\* The node after the run: some accounts have a transaction that is not mined.
ReclaimInit ==
  /\ ran \in [scenario : Scenarios, spec : Specs]
  /\ rc = NoReclaim
  /\ \E stuck \in SUBSET Funded :
       /\ Cardinality(stuck) <= 1
       /\ eth = [balance |-> [a \in Funded |-> Left], nonce |-> [a \in Funded |-> 0],
                 pending |-> [a \in Funded |-> IF a \in stuck
                    THEN [kind |-> "spam", value |-> 1, price |-> Min(Prices)] ELSE NoTx],
                 price |-> Min(Prices), moves |-> 0, got |-> 0]

BalanceOf(a) == IF rc.url = "A" /\ a \in DOMAIN eth.balance THEN eth.balance[a] ELSE 0
-----------------------------------------------------------------------------
(* The node *)

MineTx(a) ==
  /\ rc.at # "idle" /\ a \in DOMAIN eth.pending /\ eth.pending[a] # NoTx
  /\ LET tx == eth.pending[a] IN
     eth' = [eth EXCEPT !.balance[a] = @ - tx.value - tx.price, !.nonce[a] = @ + 1,
               !.pending[a] = NoTx, !.got = IF tx.kind = "transfer" THEN @ + tx.value ELSE @]
  /\ UNCHANGED <<ran, rc>>

MovePrice ==
  /\ rc.at # "idle" /\ eth.moves < MaxPriceMoves
  /\ \E price \in Prices \ {eth.price} : eth' = [eth EXCEPT !.price = price, !.moves = @ + 1]
  /\ UNCHANGED <<ran, rc>>

\* A transaction is refused if its nonce is used, it cannot be paid for, or
\* another one with the nonce pays as much.
Accepts(a, tx, nonce) ==
  /\ nonce = eth.nonce[a]
  /\ eth.balance[a] >= tx.value + tx.price
  /\ tx.price > eth.pending[a].price
-----------------------------------------------------------------------------
(* handle_reclaim_eth *)

DefaultPools == {"admin", "spammers"}

\* The pools given, as they are given, or every pool a step of the scenario file names.
ReclaimPools(file, chosen) ==
  IF chosen # <<>> THEN chosen
  ELSE IF file THEN SetToSeq(DefaultPools \cup GetCreatePools(ran.scenario)
                             \cup GetSetupPools(ran.scenario) \cup GetSpamPools(ran.scenario))
  ELSE <<"spammers">>

\* A file is its name and its extension.
FileStem(file) == <<file[1]>>
GetRpcUrlForScenario(name) ==
  LET ids == {i \in DOMAIN runs : runs[i].scenario = name}
  IN IF ids = {} THEN "localhost" ELSE runs[Max(ids)].rpc

\* rpc is --rpc, or "" if it is not given.
CallReclaim(file, rpc, chosen, count) ==
  /\ rc.at = "idle"
  /\ rc' = [NoReclaim EXCEPT !.at = "pool", !.file = file, !.rpc = rpc, !.chosen = chosen,
              !.count = count, !.pools = ReclaimPools(file, chosen),
              !.url = IF rpc # "" THEN rpc
                      ELSE IF file THEN GetRpcUrlForScenario(FileStem(ran.scenario.file))
                      ELSE "localhost"]
  /\ UNCHANGED <<ran, eth>>

\* The pools of a file come out of a hash set in any order.
NextPool(k) ==
  /\ rc.at = "pool" /\ k \in DOMAIN rc.pools
  /\ rc.chosen # <<>> => k = 1
  /\ rc' = [rc EXCEPT !.at = "balance", !.pools = RemoveAt(@, k), !.signers = SignerStore(rc.count, rc.pools[k])]
  /\ UNCHANGED <<ran, eth>>

\* On to the next account, or the next pool.
Visited(done) ==
  LET rest == Tail(rc.signers)
  IN [done EXCEPT !.signers = rest, !.seen = @ \cup {rc.signers[1]},
        !.at = IF rest # <<>> THEN "balance" ELSE IF rc.pools # <<>> THEN "pool" ELSE "ok"]

GetBalance ==
  /\ rc.at = "balance"
  /\ LET balance == BalanceOf(rc.signers[1]) IN
     rc' = IF balance = 0 THEN Visited(rc) ELSE [rc EXCEPT !.at = "price", !.balance = balance]
  /\ UNCHANGED <<ran, eth>>

GetGasPrice ==
  /\ rc.at = "price"
  /\ rc' = IF rc.balance <= eth.price THEN Visited(rc)
           ELSE [rc EXCEPT !.at = "nonce", !.price = eth.price]
  /\ UNCHANGED <<ran, eth>>

GetNonce ==
  /\ rc.at = "nonce"
  /\ rc' = [rc EXCEPT !.at = "send", !.nonce = eth.nonce[rc.signers[1]]]
  /\ UNCHANGED <<ran, eth>>

Transfer == [kind |-> "transfer", value |-> rc.balance - rc.price, price |-> rc.price]
Pending(a, tx) == [eth EXCEPT !.pending[a] = tx]

MutantSendTransfer ==
  /\ rc.at = "send"
  /\ rc' = Visited([rc EXCEPT !.total = @ + Transfer.value])
  /\ eth' = IF Accepts(rc.signers[1], Transfer, rc.nonce) THEN Pending(rc.signers[1], Transfer) ELSE eth
  /\ UNCHANGED ran

\* send_tx_envelope; the answer is the node's acceptance, nobody waits for the
\* transfer to be mined.
SendTransfer ==
  /\ rc.at = "send"
  /\ IF Accepts(rc.signers[1], Transfer, rc.nonce)
     THEN /\ eth' = Pending(rc.signers[1], Transfer)
          /\ rc' = Visited([rc EXCEPT !.total = @ + Transfer.value])
     ELSE rc' = [rc EXCEPT !.at = "err"] /\ UNCHANGED eth
  /\ UNCHANGED ran

\* A call gets no answer; a transfer may have been accepted.
ReclaimFails ==
  /\ rc.at \in {"balance", "price", "nonce", "send"}
  /\ rc' = [rc EXCEPT !.at = "err"]
  /\ \/ UNCHANGED eth
     \/ /\ rc.at = "send" /\ Accepts(rc.signers[1], Transfer, rc.nonce)
        /\ eth' = Pending(rc.signers[1], Transfer)
  /\ UNCHANGED ran

ReclaimStep ==
  \/ \E k \in 1 .. Cardinality(DOMAIN PoolNumber) : NextPool(k)
  \/ GetBalance \/ GetGasPrice \/ GetNonce \/ SendTransfer

AnyAccount == UNION {ToSet(SignerStore(Max(Counts), p)) : p \in DOMAIN PoolNumber}

ReclaimNext ==
  \/ \E file \in BOOLEAN, rpc \in {"", "A"}, chosen \in Chosen, count \in Counts :
       CallReclaim(file, rpc, chosen, count)
  \/ ReclaimStep \/ ReclaimFails
  \/ MovePrice \/ \E a \in AnyAccount : MineTx(a)
-----------------------------------------------------------------------------
(* Properties *)

TransfersPending ==
  MapThenSumSet(LAMBDA a : IF eth.pending[a].kind = "transfer" THEN eth.pending[a].value ELSE 0,
                DOMAIN eth.pending)

\* No account is visited twice: no pool is given twice, and no two pools share one.
PoolsDisjoint ==
  \E pools \in {ReclaimPools(rc.file, rc.chosen)} : \A j, k \in DOMAIN pools :
    j # k => ToSet(SignerStore(rc.count, pools[j])) \cap ToSet(SignerStore(rc.count, pools[k])) = {}

\* The total that reclaim-eth prints at its end is what the recipient gets once the
\* node has mined, although the command waits for no transfer, a transaction the run
\* left behind may be mined between any two of its calls, and the price may change:
\* unless two pools share an account, which then may be counted twice.  It never
\* counts what was not sent; a transfer whose answer is lost is sent and not counted.
\* Given the scenario file and as many accounts as any pool was run with, a
\* reclaim-eth that ends well has been to every account the run has funded.
ReclaimSound ==
  /\ PoolsDisjoint => rc.total <= eth.got + TransfersPending
  /\ rc.at = "ok" /\ PoolsDisjoint => rc.total = eth.got + TransfersPending
  /\ rc.at = "ok" /\ rc.file /\ rc.chosen = <<>> /\ (\A k \in DOMAIN ran.spec : rc.count >= ran.spec[k]) =>
       Funded \subseteq rc.seen

\* Without --rpc, a scenario file leads to the RPC URL its last run was sent to.
ReclaimFindsRpc ==
  LET ids == {i \in DOMAIN runs : runs[i].scenario = ran.scenario.file}
  IN rc.file /\ rc.rpc = "" /\ ids # {} => rc.url = runs[Max(ids)].rpc
=============================================================================
