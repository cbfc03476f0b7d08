--------------------------- MODULE CampaignRates ---------------------------
(***************************************************************************)
(* CampaignConfig (crates/testfile/src/campaign.rs): the campaign file is  *)
(* validated and resolved, the rate of each stage distributed over its     *)
(* mix.  The three passes of the code are three steps.  Shares are small   *)
(* integers; where rate * share / sum is exactly half way, the             *)
(* floating-point product may fall on either side.                         *)
(***************************************************************************)
EXTENDS Integers, Sequences, FiniteSets, SequencesExt

VARIABLES
    file,       \* the campaign file
    pass,       \* "read", "start", "first", "second", "ok" or "err"
    rates,      \* the rates of the stage that is being resolved
    resolved    \* the resolved stages

rateVars == <<file, pass, rates, resolved>>

Unset == -1

Resolving(f) == file = f /\ pass = "read" /\ rates = <<>> /\ resolved = <<>>

\* CampaignSpam::normalized_stages; `mix` is the shorthand, <<>> where absent.
NormalizedStages ==
    CASE file.stages # <<>> -> [ok |-> file.mix = <<>>, stages |-> file.stages]
      [] file.stages = <<>> /\ file.mix # <<>> ->
           [ok |-> file.mix[1] # <<>> /\ file.duration # Unset,
            stages |-> <<[name |-> "steady", duration |-> file.duration, rate |-> file.rate, mix |-> file.mix[1]]>>]
      [] OTHER -> [ok |-> FALSE, stages |-> <<>>]

Stages == NormalizedStages.stages

Valid ==
    /\ file.name # ""
    /\ NormalizedStages.ok
    /\ \A i \in DOMAIN Stages : Stages[i].mix # <<>> /\ (Stages[i].duration # Unset \/ file.duration # Unset)

\* CampaignConfig::from_file
FromFile ==
    /\ pass = "read"
    /\ pass' = IF Valid THEN "start" ELSE "err"
    /\ UNCHANGED <<file, rates, resolved>>

\* The stage that is being resolved.
Current == Stages[Len(resolved) + 1]
Or(own, default) == IF own = Unset THEN default ELSE own
Rate == Or(Current.rate, file.rate)
Size == Len(Current.mix)
Share(i) == Current.mix[i].share
Total(s) == FoldLeft(LAMBDA x, y : x + y, 0, s)
Sum == Total([i \in 1 .. Size |-> Share(i)])

NonZero == {i \in 1 .. Size : Share(i) > 0}

\* round(rate * share / sum), half way upwards.
Nearest(i) == (2 * Rate * Share(i) + Sum) \div (2 * Sum)

\* The entries exactly half way, whose product may fall short.
HalfWay == {i \in NonZero : (2 * Rate * Share(i) + Sum) % (2 * Sum) = 0}

\* The defaults are asked for even where the stage gives its own values.
FirstPass ==
    /\ pass = "start"
    /\ IF file.duration = Unset \/ Sum = 0 \/ file.rate = Unset
       THEN pass' = "err" /\ UNCHANGED rates
       ELSE /\ pass' = "first"
            /\ \E short \in SUBSET HalfWay :
                rates' = [i \in 1 .. Size |-> IF i \in short THEN Nearest(i) - 1 ELSE Nearest(i)]
    /\ UNCHANGED <<file, resolved>>

\* max_by_key over all entries but the last: the last of the largest.
Largest(r) ==
    CHOOSE i \in 1 .. Size - 1 : \A j \in 1 .. Size - 1 : r[j] <= r[i] /\ (r[j] = r[i] => j <= i)

MutantGiveOne(r, i) ==
    IF Size > 1 /\ r[Largest(r)] > 0
    THEN [r EXCEPT ![Largest(r)] = @ - 1, ![i] = 1]
    ELSE r

\* Entry i takes one from the largest, if that has more than one.
GiveOne(r, i) ==
    IF Size > 1 /\ r[Largest(r)] > 1
    THEN [r EXCEPT ![Largest(r)] = @ - 1, ![i] = 1]
    ELSE r

Starved == SelectSeq([i \in 1 .. Size |-> i], LAMBDA i : Share(i) > 0 /\ rates[i] = 0)

SecondPass ==
    /\ pass = "first"
    /\ rates' = IF Rate >= Cardinality(NonZero) THEN FoldLeft(GiveOne, rates, Starved) ELSE rates
    /\ pass' = "second"
    /\ UNCHANGED <<file, resolved>>

Assigned == Total(SubSeq(rates, 1, Size - 1))

\* The last entry gets what is left; on with the next stage.
ThirdPass ==
    /\ pass = "second"
    /\ IF Assigned > Rate
       THEN pass' = "err" /\ UNCHANGED <<rates, resolved>>
       ELSE /\ rates' = <<>>
            /\ pass' = IF Len(resolved) + 1 < Len(Stages) THEN "start" ELSE "ok"
            /\ resolved' = Append(resolved,
                 [name |-> Current.name, duration |-> Or(Current.duration, file.duration),
                  mix |-> [i \in 1 .. Size |->
                    [scenario |-> Current.mix[i].scenario,
                     rate |-> IF i = Size THEN Rate - Assigned ELSE rates[i]]]])
    /\ UNCHANGED file

ResolveStage == FromFile \/ FirstPass \/ SecondPass \/ ThirdPass

-----------------------------------------------------------------------------
(* Properties *)

Sound(rate, shares, given) ==
    LET size == Len(shares)
        sum == Total(shares)
        Surely(i) == 2 * rate * shares[i] >= sum + 1
    IN  /\ given \in [1 .. size -> 0 .. rate] /\ Total(given) = rate
        /\ \A i \in 1 .. size - 1 : (Surely(i) => given[i] > 0) /\ (shares[i] = 0 => given[i] = 0)

\* The rates of a resolved stage add up to the stage's rate.  The second pass
\* never takes an entry's last unit: what rounding serves is still served, and
\* entries without a share get nothing, the last one (which gets what is left)
\* excepted.
RatesSound ==
    \A k \in DOMAIN resolved :
        LET stage == Stages[k] IN
        Sound(Or(stage.rate, file.rate), [i \in DOMAIN stage.mix |-> stage.mix[i].share],
              [i \in DOMAIN stage.mix |-> resolved[k].mix[i].rate])
=============================================================================
