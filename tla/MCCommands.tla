----------------------------- MODULE MCCommands -----------------------------
(***************************************************************************)
(* Instances of Commands for TLC: run databases that hold complete and     *)
(* incomplete logs, runs without transactions and runs of two RPCs; data   *)
(* directories old and new; scenarios whose pools share accounts.          *)
(***************************************************************************)
EXTENDS Commands

CONSTANTS MaxShare, MixRates, c1, c2, u1, u2

TxRow(start, end, block, error) ==
  [start |-> start, end |-> end, block |-> block, error |-> error,
   fb |-> IF end = None THEN None ELSE end % 500, idx |-> IF end = None THEN None ELSE end % 3]
RunOf(rpc, ts, unit, campaign, name, count, txs) ==
  [rpc |-> rpc, ts |-> ts, dur |-> [unit |-> unit, value |-> 2], campaign |-> campaign,
   stage |-> name, tx_count |-> count, txs |-> txs, scenario |-> <<"simple", "toml">>,
   lat |-> IF txs = <<>> THEN <<>>
           ELSE [b \in 1..3 |-> [bound |-> 100 * b, count |-> IF b = 1 THEN Len(txs) ELSE Len(txs) + count]]]

\* A campaign of two stages, a row whose block is older than it by the clock here, then a
\* run of another RPC and campaign without all its rows.
MixedRuns ==
  <<RunOf("A", 3500, "seconds", 1, "s1", 2,
        <<TxRow(3500, 4500, 2, FALSE), TxRow(3600, 6000, 3, TRUE)>>),
    RunOf("A", 7000, "blocks", 1, "s2", 2, <<TxRow(7100, None, None, TRUE), TxRow(7200, 7000, 3, FALSE)>>),
    RunOf("B", 9000, "seconds", 3, "", 2, <<TxRow(9000, 9000, 2, FALSE)>>)>>
\* Runs that kept no transactions, one before the missed slot, one after it, one in
\* the future of the chain.
BareRuns ==
  <<RunOf("A", 3500, "seconds", 2, "s1", 1, <<>>), RunOf("A", 8000, "blocks", 2, "s1", 1, <<>>),
    RunOf("A", 15000, "seconds", None, "", 1, <<>>)>>
MCDatabases == {<<>>, MixedRuns, BareRuns}

\* A slot is missed before block 3.
MCTimestamps == [n \in 0..Latest |-> IF n <= 2 THEN 2 * n ELSE 2 * n + 2]
MCChainTxs == [n \in 0..Latest |-> CASE n = 1 -> {"a"} [] n = 2 -> {"b"} [] n = 3 -> {"c"} [] n = 4 -> {"d"} [] OTHER -> {}]
MCTraced == [t \in {"a", "b", "c", "d"} |->
  [gas |-> 21000,
   slots |-> CASE t = "a" -> <<1, 2>> [] t = "b" -> <<2, 2, 3>> [] t = "c" -> <<3>> [] OTHER -> <<>>]]
NoneOrId == {None} \cup 0..4
LatestOrId == {LATEST_CAMPAIGN, 1, 2, 3}
NoneOrNumber == {NoBlock} \cup 1..(Length + 1)

Files(db) == [NoFiles EXCEPT !.seed = Seed(7), !.db = db, !.file = db]
OldFiles == Files(FullDb(7))
Layout(legacy, dir, sameFs, found) == [legacy |-> legacy, dir |-> dir, sameFs |-> sameFs, found |-> found]
\* Nothing, a legacy directory that can or cannot be renamed, an old version, and
\* what db drop leaves.
Legacy(sameFs) == Layout(OldFiles, NoDir, sameFs, Seed(7))
OldVersion == Layout(NoDir, Files([FullDb(7) EXCEPT !.version = 5]), TRUE, Seed(7))
Dropped == Layout(NoDir, Files(NoFile), TRUE, Seed(7))
MCStarts ==
  [together : {FALSE}, layout : {FirstUse, Legacy(TRUE), Legacy(FALSE), OldVersion}]
  \cup [together : {TRUE}, layout : {Legacy(TRUE), OldVersion, Dropped}]

\* "pool0" and "pool1" spell numbers that follow each other.
MCPoolNumber == [spammers |-> 0, admin |-> 10, pool0 |-> 20, pool1 |-> 21]
PoolStep(pool) == [pool |-> pool]
MCScenarios ==
  {[file |-> <<"simple", "toml">>, create |-> <<PoolStep("admin")>>, setup |-> <<PoolStep(NoPool)>>,
    spam |-> <<<<PoolStep("spammers"), PoolStep("pool0")>>>>],
   [file |-> <<"simple", "toml">>, create |-> <<>>, setup |-> <<PoolStep("pool1")>>,
    spam |-> <<<<PoolStep("pool0")>>, <<PoolStep("pool1")>>>>]}
MCSpecs == {[create |-> 1, setup |-> 1, spam |-> 1], [create |-> 1, setup |-> 0, spam |-> 2]}
MCChosen == {<<>>, <<"pool0">>, <<"spammers", "spammers">>}
MCAdminRuns == {<<RunOf("A", 1000, "seconds", None, "", 1, <<>>)>>}
-----------------------------------------------------------------------------
(* Setup *)

MCParamSeed == [x |-> 1, y |-> 4]

CreateOf(name, pool, from, args) ==
  [name |-> name, pool |-> pool, from |-> from, code |-> <<<<"hex", name>>>>, args |-> args,
   params |-> IF args = <<>> THEN NoSignature ELSE [i \in DOMAIN args |-> "p"]]
CallOf(to, pool, from, all, args, params, value, fuzz) ==
  [to |-> to, pool |-> pool, from |-> from, all |-> all, args |-> args, params |-> params, value |-> value,
   fee |-> <<>>, auth |-> <<>>, fuzz |-> fuzz, kind |-> "call"]
Fuzz(param, min, max) == [param |-> param, value |-> "unset", fee |-> "unset", min |-> min, max |-> max]

To(name) == <<Key(name)>>
TheFunder == 99

\* Two contracts, the second given the first; setup calls of two accounts.
Token == <<"token">>
Router == <<"router">>
PairScenario ==
  [create |-> <<CreateOf(Token, "admin", <<>>, <<>>), CreateOf(Router, "admin", <<>>, <<To(Token)>>)>>,
   setup  |-> <<CallOf(To(Token), "admin", <<>>, FALSE, <<To(Router)>>, <<"to">>, <<>>, <<>>),
                CallOf(To(Router), "pool0", <<>>, TRUE, <<To(SENDER_KEY)>>, <<"who">>, <<>>, <<>>),
                CallOf(To(Token), "admin", <<>>, FALSE, <<To(Router)>>, <<"to">>, <<>>, <<>>)>>,
   spam   |-> <<<<CallOf(To(Router), "spammers", <<>>, FALSE, <<Wei(1), To(Token)>>, <<"x", "to">>, Wei(5), <<Fuzz("x", 2, 5)>>)>>,
                <<CallOf(To(Token), "pool0", <<>>, FALSE, <<Wei(1)>>, <<"y">>, <<>>, <<Fuzz("y", 1, 3)>>),
                  CallOf(To(Router), "spammers", <<>>, FALSE, <<>>, NoSignature, <<>>, <<>>)>>>>]
\* The same with the first user's account as a sender.
UserScenario ==
  [PairScenario EXCEPT !.create[1] = CreateOf(Token, NoPool, To(<<"me">>), <<>>), !.setup = <<>>]
OnlyUserScenario ==
  [create |-> <<CreateOf(Token, NoPool, To(<<"me">>), <<>>)>>,
   setup |-> <<CallOf(To(Token), NoPool, <<Account(TheFunder)>>, FALSE, <<>>, NoSignature, <<>>, <<>>)>>, spam |-> <<>>]
\* A contract nobody has deployed on the fork.
OldScenario == [PairScenario EXCEPT !.create = Tail(@)]

OldRows(label) ==
  <<[name |-> Token \o label, chain |-> "node", address |-> <<"contract", 1>>],
    [name |-> Token, chain |-> "old genesis", address |-> <<"contract", 2>>]>>
JobOf(entry, scenario, label, env, advances) ==
  [entry |-> entry, scenario |-> scenario,
   spec |-> [create |-> 1, setup |-> 1, spam |-> IF entry = "setup" THEN 1 ELSE 2], label |-> label,
   env |-> env, fcu |-> advances, rows |-> OldRows(label)]
Me == <<"me">> :> Account(TheFunder)
MCJobs ==
  {JobOf("setup", PairScenario, <<>>, <<>>, FALSE), JobOf("setup", OldScenario, <<>>, <<>>, FALSE),
   JobOf("setup", UserScenario, <<>>, Me, FALSE), JobOf("setup", OnlyUserScenario, <<>>, Me, TRUE),
   JobOf("initialize", [PairScenario EXCEPT !.setup = SubSeq(@, 1, 2)], <<"s1">>, <<>>, FALSE),
   JobOf("initialize", OnlyUserScenario, <<>>, Me, FALSE)}
MCFaults == {{"deploy", "reject", "revert", "cost", "fund"}, {"broke", "engine", "prepare", "skip"}}
Reverting == {{"revert"}}
-----------------------------------------------------------------------------
(* Campaigns *)

MixScenarios == <<"a.toml", "erc20", "b.toml">>
MCSpamLen == [scenario \in {"a.toml", "b.toml", "none.toml"} |->
  CASE scenario = "a.toml" -> 1 [] scenario = "b.toml" -> 2 [] OTHER -> 0]
MixOf(shares) == [i \in DOMAIN shares |-> [scenario |-> MixScenarios[i], share |-> shares[i]]]
StageOf(name, mix, r, duration) == [name |-> name, mix |-> mix, rate |-> r, duration |-> duration]
FileOf(seq, mix, r, duration) == [name |-> "campaign", stages |-> seq, mix |-> mix, rate |-> r, duration |-> duration]
One == <<[scenario |-> "a.toml", share |-> 1]>>
Shares == UNION {[1 .. n -> 0 .. MaxShare] : n \in 1 .. MaxMix}
\* Any mix and rate, then a stage of the same name with one scenario.
AnyThenOne ==
  {FileOf(<<StageOf("s1", MixOf(s), r, Unset), StageOf("s1", One, Unset, 2)>>, <<>>, 1, 1) : s \in Shares, r \in MixRates}
\* The shorthand, and files that are refused.
OtherFiles ==
  {FileOf(<<>>, <<One>>, 1, 1), FileOf(<<>>, <<One>>, 1, Unset), FileOf(<<>>, <<<<>>>>, 1, 1), FileOf(<<>>, <<>>, 1, 1),
   FileOf(<<StageOf("s1", One, 1, 1)>>, <<One>>, 1, 1), FileOf(<<StageOf("s1", <<>>, 1, 1)>>, <<>>, 1, 1),
   FileOf(<<StageOf("s1", <<[scenario |-> "none.toml", share |-> 1]>>, 1, 1)>>, <<>>, 1, 1)}
Flags(skip, override, timeouts) == [skipSetup |-> skip, override |-> override, accounts |-> Unset, timeouts |-> timeouts]
WithFlags(files, flags) == {[file |-> f, options |-> flags] : f \in files}
\* Every distribution of rates, and each flag with some.
SomeFiles ==
  OtherFiles \cup {f \in AnyThenOne : LET s1 == f.stages[1] IN
                     s1.rate = 4 /\ s1.mix[1].share = 1 /\ Len(s1.mix) <= 2}
MCCampaigned ==
  WithFlags(AnyThenOne \cup OtherFiles, Flags(FALSE, FALSE, TRUE))
  \cup WithFlags(SomeFiles, Flags(TRUE, FALSE, FALSE)) \cup WithFlags(SomeFiles, Flags(FALSE, TRUE, FALSE))
-----------------------------------------------------------------------------
(* The run database *)

\* Setup and reports share three connections; one client makes three calls;
\* two clients with nested queries share two connections.
Spare == [clients |-> {c1, c2}, urls |-> {u1, u2}, size |-> 3, calls |-> 1,
          ops |-> {"get_rpc_url_id", "insert_named_txs", "insert_latency_metrics"}]
Serial == [clients |-> {c1}, urls |-> {u1, u2}, size |-> 2, calls |-> 3,
           ops |-> {"insert_run", "insert_run_txs", "insert_replay_report"}]
Scarce == [clients |-> {c1, c2}, urls |-> {u1}, size |-> 2, calls |-> 2,
           ops |-> {"get_rpc_url_id", "insert_replay_report"}]
MCSetups == {Spare, Serial, Scarce}

\* Two scenarios of a campaign stage insert their runs.
TwoRuns == {[clients |-> {c1, c2}, urls |-> {u1}, size |-> 2, calls |-> 1,
             ops |-> {"insert_run", "insert_run_txs"}]}
=============================================================================
