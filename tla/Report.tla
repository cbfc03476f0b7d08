------------------------------- MODULE Report -------------------------------
(***************************************************************************)
(* The report command (crates/report/src/command.rs, block_trace.rs):      *)
(* report() for a range of runs, and report_campaign(), which calls it for *)
(* every run of a campaign and adds the runs up.  The blocks and traces    *)
(* come from tasks that answer in any order, or not at all, through a      *)
(* channel that is only read once all of them are done.                    *)
(*                                                                         *)
(* runs[i] is run i and what the database holds on it: rpc, ts (ms), dur,  *)
(* campaign, stage, tx_count, txs and lat (see ReportCharts).  The chain   *)
(* has the blocks 0..Latest, whose timestamps may skip slots.  A           *)
(* subtraction that would underflow panics in a debug build and wraps in a *)
(* release.                                                                *)
(***************************************************************************)
EXTENDS ReportCharts

CONSTANTS Databases,      \* the contents of the run database
          Lasts,          \* --last-run-id, None if it is not given
          PrecedingRuns,  \* --preceding-runs
          Campaigns,      \* --campaign
          Latest,
          Timestamps,     \* of the blocks, in seconds
          MaxBlock,       \* bound on the block numbers asked for
          MaxFaults,      \* bound on the tasks of a report that get no answer
          ChainTxs,       \* the transactions of each block
          Traced,         \* their [gas, slots]
          BLOCK_PADDING   \* 3 in the code

ASSUME ChainAssumption ==
  /\ Latest \in Nat /\ Timestamps \in [0..Latest -> Nat]
  /\ \A n \in 1..Latest : Timestamps[n - 1] < Timestamps[n]

VARIABLES runs,
          browser,   \* the variable BROWSER of the environment
          cache,     \* the file debug_trace.json
          rpt,       \* the call of report()
          camp       \* the call of report_campaign()

reportVars == <<runs, browser, cache, rpt, camp>>

\* The order of the blocks in the file is left out.
NoCache == [there |-> FALSE, blocks |-> {}, traces |-> {}]
NoReport == [at |-> "idle", start |-> 0, end |-> 0, skip |-> FALSE, todo |-> {},
             cap |-> 0, chan |-> <<>>, blocks |-> <<>>, failed |-> {}, cur |-> 0,
             traces |-> {}, untraced |-> {}, cached |-> FALSE, written |-> FALSE]
NoCampaign == [at |-> "idle", id |-> None, browser |-> "unset", todo |-> <<>>,
               overall |-> <<>>, stages |-> <<>>, incomplete |-> FALSE]

ReportStart(db, env) ==
  /\ runs = db
  /\ browser = env
  /\ cache = NoCache
  /\ rpt = NoReport
  /\ camp = NoCampaign

ReportInit == \E db \in Databases, env \in {"unset", "none", "set"} : ReportStart(db, env)

ReportOver == rpt.at \in {"ok", "err", "panic"}
\* The runs of the report, and all their transactions: of every RPC.
Ids == rpt.start..rpt.end
TxsOf(id) == IF id \in DOMAIN runs THEN runs[id].txs ELSE <<>>
AllTxs == FlattenSeq([k \in 1..rpt.end - rpt.start + 1 |-> TxsOf(rpt.start + k - 1)])
Landed(txs) == {t.block : t \in {u \in ToSet(txs) : u.block # None}}
TxHashes(n) == ChainTxs[n]
-----------------------------------------------------------------------------
(* report() *)

\* Stands for 2^64.
Wrap == 2^16

\* The checks and the range of the runs; one CSV file for each of them.
Started(last, preceding, skip) ==
  LET end == IF last = None THEN Len(runs) ELSE last
  IN IF runs = <<>> THEN {[NoReport EXCEPT !.at = "ok"]}
     ELSE IF end \notin DOMAIN runs THEN {[NoReport EXCEPT !.at = "err"]}
     ELSE {[NoReport EXCEPT !.at = "blocks", !.start = (end - preceding) % Wrap, !.end = end,
                            !.skip = skip]}
          \cup (IF preceding > end THEN {[NoReport EXCEPT !.at = "panic"]} ELSE {})

CallReport(last, preceding, skip) ==
  /\ rpt.at = "idle" /\ camp.at = "idle"
  /\ rpt' \in Started(last, preceding, skip)
  /\ UNCHANGED <<runs, browser, cache, camp>>

\* get_blocks, where one task for each block is spawned.
GetBlocks(from, to) ==
  rpt' = [rpt EXCEPT !.at = "fetch", !.todo = from..to, !.cap = to - from + 1]
Fails(how) == rpt' = [rpt EXCEPT !.at = how]

\* DEBUG_USEFILE.
LoadCache ==
  /\ rpt.at = "blocks"
  /\ rpt' = IF cache.there
            THEN [rpt EXCEPT !.at = "figures", !.cached = TRUE,
                   !.blocks = Ascending(cache.blocks), !.traces = cache.traces]
            ELSE [rpt EXCEPT !.at = "err"]
  /\ UNCHANGED <<runs, browser, cache, camp>>

\* get_block_data: the blocks from the first to the last with a transaction of
\* the runs, and some more on both sides.
GetBlockData ==
  /\ rpt.at = "blocks" /\ AllTxs # <<>>
  /\ LET landed == Landed(AllTxs) IN
     IF landed = {} THEN rpt' = [rpt EXCEPT !.at = "figures"]
     ELSE GetBlocks(Max({Min(landed) - BLOCK_PADDING, 0}), Max(landed) + BLOCK_PADDING)
  /\ UNCHANGED <<runs, browser, cache, camp>>

\* The distance of the first two blocks after genesis.
GetBlockTime == IF Latest >= 2 THEN Max({Timestamps[2] - Timestamps[1], 1}) ELSE 1

MutantEstimateRange(start, time) ==
  LET from == Max({Latest - (Timestamps[Latest] - start) \div GetBlockTime + 1, 0})
  IN <<from, from + time \div GetBlockTime>>

\* The blocks of a time span, by the distance of its start from the latest block.
EstimateRange(start, time) ==
  LET from == Max({Latest - (Timestamps[Latest] - start) \div GetBlockTime, 0})
  IN <<from, from + time \div GetBlockTime>>

Seconds(dur) == IF dur.unit = "blocks" THEN dur.value * GetBlockTime ELSE dur.value

\* estimate_block_data, for runs without transactions.
EstimateBlockData ==
  /\ rpt.at = "blocks" /\ AllTxs = <<>>
  /\ IF rpt.start \notin DOMAIN runs THEN Fails("err")
     ELSE LET start == runs[rpt.start].ts \div 1000
              time  == (runs[rpt.end].ts \div 1000) - start + Seconds(runs[rpt.end].dur)
              range == EstimateRange(start, time)
          IN \/ start <= Timestamps[Latest] /\ time >= 0 /\ GetBlocks(range[1], range[2])
             \/ start > Timestamps[Latest] /\ time >= 0 /\ GetBlocks(0, time \div GetBlockTime)
             \/ /\ start > Timestamps[Latest] \/ runs[rpt.end].ts < runs[rpt.start].ts
                /\ Fails("panic")
             \/ Fails("err")
  /\ UNCHANGED <<runs, browser, cache, camp>>

MutantFetchBlock(n) ==
  /\ rpt.at = "fetch" /\ n \in rpt.todo
  /\ \/ /\ n <= Latest /\ Len(rpt.chan) < rpt.cap - 1
        /\ rpt' = [rpt EXCEPT !.todo = @ \ {n}, !.chan = Append(@, n)]
     \/ n > Latest /\ rpt' = [rpt EXCEPT !.todo = @ \ {n}]
  /\ UNCHANGED <<runs, browser, cache, camp>>

\* The task of one block: it sends the block into the channel, has none to
\* send, or panics, which nobody notices.
FetchBlock(n) ==
  /\ rpt.at = "fetch" /\ n \in rpt.todo
  /\ \/ /\ n <= Latest /\ Len(rpt.chan) < rpt.cap
        /\ rpt' = [rpt EXCEPT !.todo = @ \ {n}, !.chan = Append(@, n)]
     \/ n > Latest /\ rpt' = [rpt EXCEPT !.todo = @ \ {n}]
     \/ /\ n <= Latest /\ Cardinality(rpt.failed) < MaxFaults
        /\ rpt' = [rpt EXCEPT !.todo = @ \ {n}, !.failed = @ \cup {n}]
  /\ UNCHANGED <<runs, browser, cache, camp>>

\* join_all; the channel is closed and read, and get_block_traces begins.
CollectBlocks ==
  /\ rpt.at = "fetch" /\ rpt.todo = {}
  /\ LET txs == UNION {TxHashes(n) : n \in ToSet(rpt.chan)}
         got == [rpt EXCEPT !.blocks = rpt.chan, !.chan = <<>>]
     IN rpt' = IF rpt.skip \/ txs = {} THEN [got EXCEPT !.at = "figures"]
               ELSE [got EXCEPT !.at = "traces", !.cap = Cardinality(txs), !.cur = 1,
                                !.todo = TxHashes(rpt.chan[1])]
  /\ UNCHANGED <<runs, browser, cache, camp>>

\* The task of one transaction; without a trace or a receipt it sends nothing.
TraceTx(tx) ==
  /\ rpt.at = "traces" /\ tx \in rpt.todo
  /\ \/ /\ Cardinality(rpt.traces) < rpt.cap
        /\ rpt' = [rpt EXCEPT !.todo = @ \ {tx}, !.traces = @ \cup {tx}]
     \/ /\ Cardinality(rpt.untraced) < MaxFaults
        /\ rpt' = [rpt EXCEPT !.todo = @ \ {tx}, !.untraced = @ \cup {tx}]
  /\ UNCHANGED <<runs, browser, cache, camp>>

\* The tasks of the next block are spawned when those of this one are done.
TraceNextBlock ==
  /\ rpt.at = "traces" /\ rpt.todo = {}
  /\ rpt' = IF rpt.cur = Len(rpt.blocks) THEN [rpt EXCEPT !.at = "figures"]
            ELSE [rpt EXCEPT !.cur = @ + 1, !.todo = TxHashes(rpt.blocks[rpt.cur + 1])]
  /\ UNCHANGED <<runs, browser, cache, camp>>

Trace(tx) == [block |-> CHOOSE n \in 0..Latest : tx \in TxHashes(n),
              gas |-> Traced[tx].gas, slots |-> Traced[tx].slots]
Traces == LET txs == SetToSeq(rpt.traces) IN [i \in DOMAIN txs |-> Trace(txs[i])]

Gas == Mapped(rpt.blocks, LAMBDA n : MapThenSumSet(LAMBDA tx : Traced[tx].gas, TxHashes(n)))

\* What the report says.
ReportMetadata ==
  [gas_quantiles |-> [q \in {50, 90, 95, 99} |-> GasQuantile(Gas, q)],
   total_txs   |-> Len(AllTxs),
   params      |-> {id \in Ids \cap DOMAIN runs : runs[id].rpc = runs[rpt.end].rpc},
   latency     |-> MergedLatency([k \in 1..rpt.end - rpt.start + 1 |->
                     IF rpt.start + k - 1 \in DOMAIN runs THEN runs[rpt.start + k - 1].lat ELSE <<>>])]

\* The figures, the cache file, the report file and the browser, which may fail
\* to open.  Without blocks the average block time divides by len - 1.
Figures ==
  /\ rpt.at = "figures"
  /\ \/ /\ cache' = [there |-> TRUE, blocks |-> ToSet(rpt.blocks), traces |-> rpt.traces]
        /\ \/ rpt' = [rpt EXCEPT !.at = "ok", !.written = TRUE]
           \/ browser # "none" /\ rpt' = [rpt EXCEPT !.at = "err", !.written = TRUE]
     \/ rpt.blocks = <<>> /\ Fails("panic") /\ UNCHANGED cache
  /\ UNCHANGED <<runs, browser, camp>>
-----------------------------------------------------------------------------
(* report_campaign() *)

LATEST_CAMPAIGN == 0
RunsOf(id) == {i \in DOMAIN runs : runs[i].campaign = id}
\* latest_campaign_id.
LatestCampaign ==
  LET in == {i \in DOMAIN runs : runs[i].campaign # None}
  IN IF in = {} THEN None ELSE runs[Max(in)].campaign

CallReportCampaign(arg) ==
  /\ rpt.at = "idle" /\ camp.at = "idle"
  /\ LET id == IF arg = LATEST_CAMPAIGN THEN LatestCampaign ELSE arg IN
     IF id = None \/ RunsOf(id) = {}
     THEN camp' = [NoCampaign EXCEPT !.at = "err", !.browser = browser] /\ UNCHANGED browser
     ELSE /\ camp' = [NoCampaign EXCEPT !.at = "runs", !.id = id, !.browser = browser,
                                        !.todo = Ascending(RunsOf(id))]
          /\ browser' = "none"
  /\ UNCHANGED <<runs, cache, rpt>>

CampaignRun(skip) ==
  /\ camp.at = "runs" /\ camp.todo # <<>> /\ rpt.at = "idle"
  /\ rpt' \in Started(camp.todo[1], 0, skip)
  /\ UNCHANGED <<runs, browser, cache, camp>>

LogsComplete(run) == run.txs # <<>> /\ Len(run.txs) >= run.tx_count

\* The counts and time bounds of a run, from its transactions if all are there.
RunFigures(run) ==
  IF LogsComplete(run)
  THEN [tx |-> Len(run.txs), errors |-> Count(run.txs, LAMBDA t : t.error),
        start |-> Min({t.start : t \in ToSet(run.txs)}),
        end |-> Max({IF t.end = None THEN t.start ELSE t.end : t \in ToSet(run.txs)})]
  ELSE [tx |-> run.tx_count, errors |-> 0, start |-> run.ts,
        end |-> run.ts + run.dur.value * 1000]

\* OverallAccumulator and StageAccumulator.
AddRun(acc, run) ==
  IF acc = <<>> THEN RunFigures(run)
  ELSE [tx |-> acc.tx + RunFigures(run).tx, errors |-> acc.errors + RunFigures(run).errors,
        start |-> Min({acc.start, RunFigures(run).start}),
        end |-> Max({acc.end, RunFigures(run).end})]

MutantCampaignAdd ==
  /\ camp.at = "runs" /\ ReportOver
  /\ LET run   == runs[camp.todo[1]]
         stage == <<run.stage, run.scenario>>
         known == DOMAIN camp.stages
     IN \/ /\ rpt.at = "ok"
           /\ camp' = [camp EXCEPT
                !.todo = Tail(@), !.overall = AddRun(@, run),
                !.stages = [k \in known \cup {stage} |->
                   IF k # stage THEN @[k] ELSE AddRun(IF k \in known THEN @[k] ELSE <<>>, run)],
                !.incomplete = @ \/ ~LogsComplete(run)]
           /\ UNCHANGED browser
        \/ rpt.at = "err" /\ camp' = [camp EXCEPT !.at = "err"] /\ UNCHANGED browser
        \/ rpt.at = "panic" /\ camp' = [camp EXCEPT !.at = "panic"] /\ UNCHANGED browser
  /\ rpt' = NoReport
  /\ UNCHANGED <<runs, cache>>

\* After the report of a run: its figures are added, or the loop ends with the
\* error, and the environment is put back first.
CampaignAdd ==
  /\ camp.at = "runs" /\ ReportOver
  /\ LET run   == runs[camp.todo[1]]
         stage == <<run.stage, run.scenario>>
         known == DOMAIN camp.stages
     IN \/ /\ rpt.at = "ok"
           /\ camp' = [camp EXCEPT
                !.todo = Tail(@), !.overall = AddRun(@, run),
                !.stages = [k \in known \cup {stage} |->
                   IF k # stage THEN @[k] ELSE AddRun(IF k \in known THEN @[k] ELSE <<>>, run)],
                !.incomplete = @ \/ ~LogsComplete(run)]
           /\ UNCHANGED browser
        \/ rpt.at = "err" /\ camp' = [camp EXCEPT !.at = "err"] /\ browser' = camp.browser
        \/ rpt.at = "panic" /\ camp' = [camp EXCEPT !.at = "panic"] /\ UNCHANGED browser
  /\ rpt' = NoReport
  /\ UNCHANGED <<runs, cache>>

\* The summary is written.
CampaignEnd ==
  /\ camp.at = "runs" /\ camp.todo = <<>>
  /\ camp' = [camp EXCEPT !.at = "ok"]
  /\ browser' = camp.browser
  /\ UNCHANGED <<runs, cache, rpt>>

ReportStep ==
  \/ GetBlockData \/ EstimateBlockData
  \/ \E n \in 0..MaxBlock : FetchBlock(n)
  \/ CollectBlocks \/ TraceNextBlock \/ Figures
  \/ \E tx \in DOMAIN Traced : TraceTx(tx)
  \/ \E skip \in BOOLEAN : CampaignRun(skip)
  \/ CampaignAdd \/ CampaignEnd

ReportNext ==
  \/ \E last \in Lasts, preceding \in PrecedingRuns, skip \in BOOLEAN :
       CallReport(last, preceding, skip)
  \/ \E arg \in Campaigns : CallReportCampaign(arg)
  \/ LoadCache \/ ReportStep
-----------------------------------------------------------------------------
(* Properties *)

Reported == rpt.written

\* No two blocks are closer than the first two: slots are missed later, not earlier.
Regular == \A n \in 1..Latest : Timestamps[n] - Timestamps[n - 1] >= GetBlockTime

\* The blocks estimated for runs without transactions start no later than the first
\* block of the first run.  They may end before the last one: every slot missed since
\* moves the range back.
EstimateStarts ==
  AllTxs = <<>> /\ Regular =>
    \A n \in 0..Latest : Timestamps[n] >= runs[rpt.start].ts \div 1000 =>
      \E m \in ToSet(rpt.blocks) \cup rpt.failed : m <= n

\* No report is written of a range of runs that wrapped around, for which there are
\* neither transactions nor runs (command.rs, start_run_id); a report has every block
\* its transactions landed in that the node gave out; and for runs without
\* transactions, where the block time is estimated from two blocks, the blocks from
\* the start of the first run on, if the chain was regular when it began.
ReportAccounts ==
  Reported /\ ~rpt.cached =>
    /\ rpt.start <= rpt.end
    /\ \A n \in Landed(AllTxs) : n <= Latest => n \in ToSet(rpt.blocks) \cup rpt.failed
    /\ EstimateStarts

\* The latencies of several runs add up, in buckets that still rise, so that no
\* count of LatencyChart underflows and the quantiles are in order.
LatencySound ==
  LET buckets == ReportMetadata.latency
      value(q) == EstimateQuantile(buckets, q)
      below(a, b) == (a.low - b.low) * a.den * b.den + a.num * b.den <= b.num * a.den
  IN /\ \A i \in 1..Len(buckets) - 1 : buckets[i].bound < buckets[i + 1].bound
     /\ \A i \in DOMAIN buckets : LatencyCounts(buckets)[i] >= 0
     /\ buckets # <<>> => Last(buckets).count =
          MapThenSumSet(LAMBDA id : IF id = 0 \/ runs[id].lat = <<>> THEN 0 ELSE Last(runs[id].lat).count, Ids)
     /\ below(value(50), value(90)) /\ below(value(90), value(99))

\* The heatmap has at most MAX_BLOCKS columns, which hold every read of the slots
\* that are kept, and no slot left out was read more often than one kept.
HeatMapSound ==
  LET map == HeatMap(Traces)
      all(s) == MapThenSumSet(LAMBDA n : Accesses(Traces, n, s), 0..Latest)
  IN /\ Len(map.blocks) <= MAX_BLOCKS /\ Len(map.slots) <= MAX_SLOTS
     /\ \A j \in DOMAIN map.slots : all(map.slots[j]) =
          MapThenSumSet(LAMBDA c : IF c[2] = j THEN map.matrix[c] ELSE 0, DOMAIN map.matrix)
     /\ \A c \in DOMAIN map.matrix : c[1] \in DOMAIN map.blocks
     /\ \A s \in UNION {ToSet(t.slots) : t \in ToSet(Traces)} \ ToSet(map.slots) :
          \A kept \in ToSet(map.slots) : all(s) <= all(kept)

\* A quantile of the gas used is that of a block, and of at least that share of them
\* no less.
GasSound ==
  rpt.blocks # <<>> => \A q \in DOMAIN ReportMetadata.gas_quantiles :
    LET value == ReportMetadata.gas_quantiles[q]
    IN /\ value \in ToSet(Gas)
       /\ 100 * Count(Gas, LAMBDA g : g <= value) >= q * Len(Gas)

\* The charts are true to the rows: latencies of several runs add up in order, the
\* heatmap's columns hold every read of the slots kept, the quantiles of the gas are
\* quantiles, every transaction that took time and ended is pending in some second of its chart, and no bucket of the other
\* charts loses one (crates/report/src/chart/).
ChartsSound ==
  Reported =>
    LET txs == AllTxs IN
    /\ LatencySound
    /\ HeatMapSound
    /\ GasSound
    /\ \A t \in ToSet(txs) : t.end # None /\ t.start < t.end =>
         \E s \in DOMAIN PendingTxs(txs) : s = t.end \div 1000 \/ s = (t.end - 1) \div 1000
    /\ SumFunction(TimeToInclusion(txs, 1000)) = Count(txs, LAMBDA t : t.end # None)
    /\ SumFunction(FlashblockTimeToInclusion(txs)) = Count(txs, LAMBDA t : t.fb # None)
    /\ SumFunction(FlashblockIndex(txs)) = Count(txs, LAMBDA t : t.idx # None)
    /\ SumFunction(TxGasUsed(Traces, 4000)) = Cardinality(rpt.traces)

\* A campaign's totals are those of its stages, no more of them failed than were
\* sent, it starts before and ends after every row of runs whose rows are all there,
\* a run without all its rows is reported as such, and the environment is as before,
\* also after an error.
CampaignTotals ==
  /\ camp.at = "ok" =>
       LET total(k) == [s \in DOMAIN camp.stages |-> camp.stages[s][k]]
       IN /\ camp.overall.tx = SumFunction(total("tx"))
          /\ camp.overall.errors = SumFunction(total("errors"))
          /\ camp.overall.errors <= camp.overall.tx
          /\ ~camp.incomplete =>
               /\ camp.overall.tx = MapThenSumSet(LAMBDA i : Len(runs[i].txs), RunsOf(camp.id))
               /\ \A i \in RunsOf(camp.id) : \A t \in ToSet(runs[i].txs) :
                    camp.overall.start <= t.start /\ t.end <= camp.overall.end
  /\ camp.at \in {"ok", "err"} => browser = camp.browser

\* Only runs with the RPC URL of the last run are part of the report.
MatchingRunsOnly ==
  Reported => ReportMetadata.total_txs = MapThenSumSet(LAMBDA id : Len(TxsOf(id)), ReportMetadata.params)
=============================================================================
