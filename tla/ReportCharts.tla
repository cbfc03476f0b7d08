---------------------------- MODULE ReportCharts ----------------------------
(***************************************************************************)
(* The figures and charts of a report (crates/report/src/chart, the        *)
(* buckets of crates/core/src/buckets.rs), as functions of the data that   *)
(* report() collects.  Labels are left out where no property is about      *)
(* them; a chart that counts values per bucket is the function from the    *)
(* buckets it keeps to their counts.                                       *)
(*                                                                         *)
(* A transaction row has start and end in ms, block, error, and the index  *)
(* and latency of its flashblock, None where the column is NULL.  A trace  *)
(* has the block of its receipt, the gas, and the slots its accounts read, *)
(* one entry for each account.                                             *)
(***************************************************************************)
EXTENDS Integers, Sequences, FiniteSets, SequencesExt

CONSTANTS MAX_BLOCKS, MAX_SLOTS  \* cells of the heatmap (100 in the code)

ASSUME ChartsAssumption == MAX_BLOCKS \in Nat \ {0} /\ MAX_SLOTS \in Nat \ {0}

None == -1
Ascending(S) ==
  [i \in 1..Cardinality(S) |-> CHOOSE x \in S : Cardinality({y \in S : y < x}) = i - 1]
Ceil(a, b) == (a + b - 1) \div b
Mapped(s, Op(_)) == [i \in DOMAIN s |-> Op(s[i])]
SumSeq(s) == FoldSeq(+, 0, s)
Count(s, Test(_)) == Len(SelectSeq(s, Test))

\* How many values fall into each bucket that has some, given the bucket of each value.
Buckets(indices) == [b \in ToSet(indices) |-> Count(indices, LAMBDA i : i = b)]

\* TimeToInclusionChart: a block's time may be before the start by the clock here.
InclusionTimes(txs) ==
  Mapped(SelectSeq(txs, LAMBDA t : t.end # None),
         LAMBDA t : IF t.end < t.start THEN 0 ELSE t.end - t.start)
TimeToInclusion(txs, size) == Buckets(Mapped(InclusionTimes(txs), LAMBDA ms : ms \div size))

\* FlashblockTimeToInclusionChart keeps the empty buckets between the first and
\* the last one, FlashblockIndexChart all from zero on.
Filled(buckets, from) ==
  [b \in from..Max(DOMAIN buckets) |-> IF b \in DOMAIN buckets THEN buckets[b] ELSE 0]
FlashblockTimeToInclusion(txs) ==
  LET buckets == Buckets(Mapped(SelectSeq(txs, LAMBDA t : t.fb # None), LAMBDA t : t.fb \div 100))
  IN IF buckets = <<>> THEN <<>> ELSE Filled(buckets, Min(DOMAIN buckets))
FlashblockIndex(txs) ==
  LET buckets == Buckets(Mapped(SelectSeq(txs, LAMBDA t : t.idx # None), LAMBDA t : t.idx))
  IN IF buckets = <<>> THEN <<>> ELSE Filled(buckets, 0)

TxGasUsed(traces, width) ==
  Buckets(Mapped(traces, LAMBDA t : (t.gas + (width - (t.gas % width))) \div width))

MutantPendingTxs(txs) ==
  LET first == Min({t.start \div 1000 : t \in ToSet(txs)})
      last  == Max({t.start \div 1000 : t \in ToSet(txs)})
  IN IF txs = <<>> THEN <<>>
     ELSE [s \in Max({first - 1, 0})..last |->
             Count(txs, LAMBDA t : t.start < (s + 1) * 1000 /\ (t.end = None \/ s * 1000 < t.end))]

\* PendingTxsChart: the transactions pending in each second.
PendingTxs(txs) ==
  LET first == Min({t.start \div 1000 : t \in ToSet(txs)})
      last  == Max({0} \cup {t.end \div 1000 : t \in {u \in ToSet(txs) : u.end # None}})
  IN IF txs = <<>> THEN <<>>
     ELSE [s \in Max({first - 1, 0})..last |->
             Count(txs, LAMBDA t : t.start < (s + 1) * 1000 /\ (t.end = None \/ s * 1000 < t.end))]
-----------------------------------------------------------------------------
(* HeatMapChart *)

\* How often the slot was read in the block.
Accesses(traces, block, slot) ==
  SumSeq(Mapped(SelectSeq(traces, LAMBDA t : t.block = block),
                LAMBDA t : Count(t.slots, LAMBDA s : s = slot)))

BlockBucketSize(n) == IF n > MAX_BLOCKS THEN Ceil(n, MAX_BLOCKS) ELSE 1

\* The slots kept, the most read ones if there are too many; the sort is stable,
\* so the lower one of two that are read as often comes first.
KeptSlots(slots, total) ==
  IF Len(slots) <= MAX_SLOTS THEN slots
  ELSE LET ranked == SetToSortSeq(ToSet(slots),
             LAMBDA s, t : total[s] > total[t] \/ (total[s] = total[t] /\ s < t))
       IN Ascending(ToSet(SubSeq(ranked, 1, MAX_SLOTS)))

HeatMap(traces) ==
  LET read    == SelectSeq(traces, LAMBDA t : t.slots # <<>>)
      blocks  == Ascending({t.block : t \in ToSet(read)})
      all     == UNION {ToSet(t.slots) : t \in ToSet(read)}
      total   == [s \in all |-> SumSeq(Mapped(blocks, LAMBDA b : Accesses(read, b, s)))]
      slots   == KeptSlots(Ascending(all), total)
      size    == BlockBucketSize(Len(blocks))
      bucket(i) == SubSeq(blocks, (i - 1) * size + 1, Min({i * size, Len(blocks)}))
      cells   == (1..Ceil(Len(blocks), size)) \X DOMAIN slots
      count   == [c \in cells |->
                    SumSeq(Mapped(bucket(c[1]), LAMBDA b : Accesses(read, b, slots[c[2]])))]
  IN [blocks |-> [i \in 1..Ceil(Len(blocks), size) |-> bucket(i)[1]],
      slots  |-> slots,
      matrix |-> [c \in {d \in cells : count[d] > 0} |-> count[c]]]
-----------------------------------------------------------------------------
(* Latency buckets: sequences of [bound, count], count cumulative *)

\* The counts of several runs, added up in the order the runs bring the bounds.
MergeBucket(merged, bucket) ==
  IF \E i \in DOMAIN merged : merged[i].bound = bucket.bound
  THEN Mapped(merged, LAMBDA m : IF m.bound = bucket.bound
                                 THEN [m EXCEPT !.count = @ + bucket.count] ELSE m)
  ELSE Append(merged, bucket)
MergedLatency(latencies) == FoldLeft(MergeBucket, <<>>, FlattenSeq(latencies))

\* estimate_quantile, in percent; [num, den] is the bound of the bucket below
\* plus num / den.
EstimateQuantile(buckets, quantile) ==
  IF buckets = <<>> THEN [low |-> 0, num |-> 0, den |-> 1]
  ELSE LET target == Ceil(quantile * Last(buckets).count, 100)
           hit    == Min({i \in DOMAIN buckets : buckets[i].count >= target})
           below  == IF hit = 1 THEN [bound |-> 0, count |-> 0] ELSE buckets[hit - 1]
       IN [low |-> below.bound,
           num |-> (buckets[hit].bound - below.bound) * (target - below.count),
           den |-> Max({buckets[hit].count - below.count, 1})]

\* LatencyChart: the requests in each bucket.
LatencyCounts(buckets) ==
  [i \in DOMAIN buckets |->
     buckets[i].count - IF i = 1 THEN 0 ELSE buckets[i - 1].count]

\* The index of a quantile of the sorted gas values, from one.
QuantileIndex(len, quantile) == Min({Max({Ceil(len * quantile, 100) - 1, 0}), len - 1}) + 1
GasQuantile(gas, quantile) ==
  IF gas = <<>> THEN 0 ELSE SortSeq(gas, <)[QuantileIndex(Len(gas), quantile)]
=============================================================================
