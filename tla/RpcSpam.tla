------------------------------- MODULE RpcSpam -------------------------------
(***************************************************************************)
(* The rpc command (crates/cli/src/commands/rpc.rs): one JSON-RPC request  *)
(* per tick of an interval, each in a task of its own; the answers are     *)
(* counted once all requests are out, and the run and the latencies that   *)
(* the transport layer observed (crates/core/src/provider.rs) are stored.  *)
(* The run is added to the database of Report.                             *)
(***************************************************************************)
EXTENDS Report

CONSTANTS Rates,      \* --rps
          Durations,  \* --duration
          MaxLag      \* bound on the ticks by which the loop falls behind

VARIABLES rq,         \* run_rpc_spam
          clock,      \* ticks since the interval was made
          observed    \* LATENCY_HIST for the method: [within, beyond] the top bucket

rpcVars == <<rq, clock, observed>>

NoRpc == [at |-> "idle", rps |-> 0, total |-> 0, sent |-> 0,
          open |-> 0, answered |-> 0, refused |-> 0, success |-> 0, errors |-> 0, id |-> 0]

RpcInit == rq = NoRpc /\ clock = 0 /\ observed = [within |-> 0, beyond |-> 0]

\* The interval of a rate of 0 panics.
RunRpcSpam(rps, duration) ==
  /\ rq.at = "idle"
  /\ rq' = [NoRpc EXCEPT !.at = IF rps = 0 THEN "panic" ELSE "send", !.rps = rps,
              !.total = rps * duration]
  /\ UNCHANGED <<clock, observed>>

PassTick ==
  /\ rq.at = "send" /\ clock < rq.sent + MaxLag
  /\ clock' = clock + 1
  /\ UNCHANGED <<rq, observed>>

\* The first tick is used up before the loop; ticks that were missed come at
\* once, one for each request.
SendRequest ==
  /\ rq.at = "send" /\ rq.sent < rq.total /\ rq.sent < clock
  /\ rq' = [rq EXCEPT !.sent = @ + 1, !.open = @ + 1]
  /\ UNCHANGED <<clock, observed>>

\* An answer, with a result or an error object, is observed with its latency; a
\* failed transport is not.
Answer ==
  /\ rq.open > 0
  /\ \/ /\ \/ rq' = [rq EXCEPT !.open = @ - 1, !.answered = @ + 1]
           \/ rq' = [rq EXCEPT !.open = @ - 1, !.refused = @ + 1]
        /\ \E where \in {"within", "beyond"} : observed' = [observed EXCEPT ![where] = @ + 1]
     \/ rq' = [rq EXCEPT !.open = @ - 1, !.refused = @ + 1] /\ UNCHANGED observed
  /\ UNCHANGED clock

SendDone ==
  /\ rq.at = "send" /\ rq.sent = rq.total
  /\ rq' = [rq EXCEPT !.at = "join"]
  /\ UNCHANGED <<clock, observed>>

MutantJoinNext ==
  /\ rq.at = "join"
  /\ \/ rq.answered > 0 /\ rq' = [rq EXCEPT !.answered = @ - 1, !.success = @ + 1]
     \/ rq.refused > 0 /\ rq' = [rq EXCEPT !.refused = @ - 1, !.errors = @ + 1, !.at = "save"]
     \/ rq.open + rq.answered + rq.refused = 0 /\ rq' = [rq EXCEPT !.at = "save"]
  /\ UNCHANGED <<clock, observed>>

\* join_next, until the set is empty.
JoinNext ==
  /\ rq.at = "join"
  /\ \/ rq.answered > 0 /\ rq' = [rq EXCEPT !.answered = @ - 1, !.success = @ + 1]
     \/ rq.refused > 0 /\ rq' = [rq EXCEPT !.refused = @ - 1, !.errors = @ + 1]
     \/ rq.open + rq.answered + rq.refused = 0 /\ rq' = [rq EXCEPT !.at = "save"]
  /\ UNCHANGED <<clock, observed>>

\* collect_latency_metrics: the cumulative counts of the finite buckets.
Latencies ==
  IF observed.within + observed.beyond = 0 THEN <<>>
  ELSE <<[bound |-> 100, count |-> observed.within], [bound |-> 500, count |-> observed.within]>>

\* insert_run, with the time in seconds, which the other commands store in
\* milliseconds.
InsertRun ==
  /\ rq.at = "save"
  /\ \/ /\ runs' = Append(runs, [rpc |-> "A", ts |-> Timestamps[Latest],
                     dur |-> [unit |-> "seconds", value |-> rq.total \div rq.rps],
                     campaign |-> None, stage |-> "", tx_count |-> 0, txs |-> <<>>, lat |-> <<>>,
                     scenario |-> <<"rpc:">>])
        /\ rq' = [rq EXCEPT !.at = "metrics", !.id = Len(runs')]
     \/ rq' = [rq EXCEPT !.at = "err"] /\ UNCHANGED runs
  /\ UNCHANGED <<clock, observed>>

\* insert_latency_metrics, a statement of its own; then the report of the run, which
\* may not be written.
InsertLatency ==
  /\ rq.at = "metrics"
  /\ \/ /\ runs' = [runs EXCEPT ![rq.id].lat = Latencies]
        /\ \E end \in {"ok", "err"} : rq' = [rq EXCEPT !.at = end]
     \/ rq' = [rq EXCEPT !.at = "err"] /\ UNCHANGED runs
  /\ UNCHANGED <<clock, observed>>

\* The figures of report_rpc.
RpcReportMetadata ==
  [total_requests |-> rq.total, success_count |-> rq.success, error_count |-> rq.errors,
   latency_quantiles |-> [q \in {50, 90, 99} |-> EstimateQuantile(runs[rq.id].lat, q)],
   latency_chart |-> LatencyCounts(runs[rq.id].lat)]

RpcStep ==
  \/ /\ PassTick \/ SendRequest \/ SendDone \/ Answer \/ JoinNext
     /\ UNCHANGED reportVars
  \/ /\ InsertRun \/ InsertLatency
     /\ UNCHANGED <<browser, cache, rpt, camp>>

RpcNext ==
  \/ /\ \E rps \in Rates, duration \in Durations : RunRpcSpam(rps, duration)
     /\ UNCHANGED reportVars
  \/ RpcStep
-----------------------------------------------------------------------------
(* Properties *)

\* All requests are counted, as a success or as an error, also those made up in a
\* burst or answered after the last tick, and none is observed twice: the counts of
\* the summary are those of the requests, and the latencies stored and charted those
\* of the answers that came within the largest bucket.
RpcCounts ==
  /\ rq.at \in {"save", "metrics", "ok"} =>
       /\ rq.success + rq.errors = rq.total
       /\ rq.success <= observed.within + observed.beyond
       /\ observed.within + observed.beyond <= rq.total
  /\ rq.at = "ok" /\ runs[rq.id].lat # <<>> =>
       SumSeq(RpcReportMetadata.latency_chart) = observed.within
=============================================================================
