------------------------------- MODULE Agents -------------------------------
(***************************************************************************)
(* The accounts of a scenario (crates/core/src/agent_controller.rs,        *)
(* generator/agent_pools.rs, generator/trait.rs).  Account i of a pool is  *)
(* made from the seed plus the number the pool's name spells plus i; an    *)
(* account stands here for that sum, and its address sorts like it.        *)
(*                                                                         *)
(* A scenario has create and setup steps and spam requests; a step names   *)
(* its pool, and a spam request is the sequence of its calls, several for  *)
(* a bundle.                                                               *)
(***************************************************************************)
EXTENDS Integers, Sequences, FiniteSets, FiniteSetsExt

\* op over the elements of s, starting with the first one.
FoldInOrder(op(_, _), base, s) ==
  MapThenFoldSet(LAMBDA x, y : op(y, x), base, LAMBDA i : s[i], Max, DOMAIN s)

Concat(ss) == FoldInOrder(LAMBDA s, t : s \o t, <<>>, ss)

CONSTANT PoolNumber   \* [pools -> the number of the name]

NoPool == "no pool"

ASSUME PoolAssumption == NoPool \notin DOMAIN PoolNumber

PoolsOf(steps) == {step.pool : step \in Range(steps)} \ {NoPool}
GetCreatePools(scenario) == PoolsOf(scenario.create)
GetSetupPools(scenario) == PoolsOf(scenario.setup)

GetSpamPools(scenario) == UNION {PoolsOf(scenario.spam[r]) : r \in DOMAIN scenario.spam}

\* SignerStore::new.
SignerStore(count, pool) == [i \in 1..count |-> PoolNumber[pool] + i - 1]

\* A pool has the most accounts any of its uses asks for, and the class of the
\* first use.
BuildAgentStore(scenario, spec) ==
  LET create == GetCreatePools(scenario)
      setup  == GetSetupPools(scenario)
      spam   == GetSpamPools(scenario)
      count(p) == Max({IF p \in create THEN spec.create ELSE 0,
                       IF p \in setup THEN spec.setup ELSE 0,
                       IF p \in spam THEN spec.spam ELSE 0})
  IN [p \in {q \in create \cup setup \cup spam : count(q) > 0} |->
        [signers |-> SignerStore(count(p), p),
         class   |-> IF p \in create THEN "deployer"
                     ELSE IF p \in setup THEN "setup sender" ELSE "spammer"]]

AllSigners(store) == UNION {Range(store[p].signers) : p \in DOMAIN store}
=============================================================================
