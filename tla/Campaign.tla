------------------------------ MODULE Campaign ------------------------------
(***************************************************************************)
(* run_campaign and execute_stage (crates/cli/src/commands/campaign.rs):   *)
(* the stages are resolved (CampaignRates), set up and executed one after  *)
(* the other, the scenarios of a stage's mix started together through a    *)
(* barrier.  The runs they insert are counted; the ids they are given,     *)
(* from which the report's range is taken, are RunDb's business.           *)
(***************************************************************************)
EXTENDS CampaignRates, FiniteSetsExt

CONSTANTS
    Campaigned, \* the campaign files, each with the flags skipSetup, override,
                \* accounts and whether it has a stage_timeout
    SpamLen,    \* [scenario files -> number of [[spam]] entries]
    Loops,      \* bound on the repetitions of --forever
    MaxMix      \* entries of a mix

ASSUME CampaignAssumption ==
    \A c \in Campaigned : {c.options.skipSetup, c.options.override, c.options.timeouts} \subseteq BOOLEAN

VARIABLES
    pc,         \* where run_campaign is
    options,    \* the flags of the campaign
    stages,     \* the resolved stages; of an entry's rate, what the campaign asks of it
    setUp,      \* what setup was called with
    loop,       \* repetitions started
    stage,      \* current stage
    given,      \* what the scenarios of the stage initialised so far spam with
    spam,       \* [scenarios of the stage -> state of its task]
    awaited,    \* handles awaited
    dbRuns      \* the runs of the campaign in the database

stageVars == <<given, spam, awaited>>
plan == <<options, stages, setUp, rateVars>>
campaignVars == <<pc, loop, stage, stageVars, dbRuns, plan>>

Mix == DOMAIN spam
CampaignEnded == pc \in {"done", "stopped", "err"}

\* The scenarios that are no builtins are read from files.
IsFile(scenario) == scenario \in DOMAIN SpamLen

NoCampaignFile == [name |-> "", stages |-> <<>>, mix |-> <<>>, rate |-> Unset, duration |-> Unset]

CampaignStart(f, o) ==
    /\ Resolving(f)
    /\ pc = "resolve" /\ options = o /\ stages = <<>> /\ setUp = <<>>
    /\ loop = 1 /\ stage = 1 /\ given = <<>> /\ spam = <<>> /\ awaited = 0 /\ dbRuns = 0

CampaignInit == \E c \in Campaigned : CampaignStart(c.file, c.options)

NoOptions == [skipSetup |-> FALSE, override |-> FALSE, accounts |-> Unset, timeouts |-> FALSE]

-----------------------------------------------------------------------------
(* The plan and the setup phase *)

Resolve ==
    /\ pc = "resolve"
    /\ ResolveStage
    /\ UNCHANGED <<pc, options, stages, setUp, loop, stage, stageVars, dbRuns>>

\* An entry without a rate is left out; too low a rate does not cover the
\* [[spam]] entries of a file within the stage's duration.
Load(s, entry) ==
    CASE entry.rate = 0 -> "none"
      [] IsFile(entry.scenario) /\ entry.rate * s.duration < SpamLen[entry.scenario] -> "short"
      [] OTHER -> "enough"

\* The stages are all resolved: validate_stage_rates.
Resolved ==
    /\ pc = "resolve" /\ pass = "ok"
    /\ stages' = [k \in DOMAIN resolved |->
         [name |-> resolved[k].name,
          mix |-> [i \in DOMAIN resolved[k].mix |->
            [scenario |-> resolved[k].mix[i].scenario, load |-> Load(resolved[k], resolved[k].mix[i])]]]]
    /\ pc' = IF \E k \in DOMAIN resolved : \E i \in DOMAIN resolved[k].mix :
                  LET entry == resolved[k].mix[i] IN
                  entry.rate > 0 /\ IsFile(entry.scenario)
                  /\ (SpamLen[entry.scenario] = 0 \/ Load(resolved[k], entry) = "short")
             THEN "err" ELSE "setup"
    /\ file' = NoCampaignFile /\ pass' = "read" /\ rates' = <<>> /\ resolved' = <<>>
    /\ UNCHANGED <<options, setUp, loop, stage, stageVars, dbRuns>>

ResolveFails ==
    /\ pc = "resolve" /\ pass = "err"
    /\ pc' = "err"
    /\ UNCHANGED <<loop, stage, stageVars, dbRuns, plan>>

\* The or of two hashes.
BumpSeed(base, text) == <<base, text>>
ScenarioSeed(k, index) == BumpSeed(BumpSeed("seed", stages[k].name), index)

\* filter(rate > 0) after enumerate: a scenario keeps its place in the mix.
ActiveScenarios(k) ==
    SelectSeq([i \in DOMAIN stages[k].mix |-> i - 1], LAMBDA i : stages[k].mix[i + 1].load # "none")

\* setup is called for the files of each stage in turn.
SetupCalls ==
    LET Of(k) == SelectSeq(ActiveScenarios(k), LAMBDA i : IsFile(stages[k].mix[i + 1].scenario))
        Args(k) == [n \in DOMAIN Of(k) |->
            [scenario |-> stages[k].mix[Of(k)[n] + 1].scenario, seed |-> ScenarioSeed(k, Of(k)[n]), accounts |-> Or(options.accounts, 10)]]
    IN  FlattenSeq([k \in DOMAIN stages |-> Args(k)])

SetupScenario ==
    /\ pc = "setup" /\ ~options.skipSetup
    /\ Len(setUp) < Len(SetupCalls)
    /\ \/ setUp' = Append(setUp, SetupCalls[Len(setUp) + 1]) /\ UNCHANGED pc
       \/ pc' = "err" /\ UNCHANGED setUp
    /\ UNCHANGED <<loop, stage, stageVars, dbRuns, options, stages, rateVars>>

\* --override-senders would share one sender among the entries of a mix.
Refused(s) == options.override /\ Len(stages[s].mix) > 1

\* The first stage, the next, or the first one again under --forever.
StartStage(s, l) ==
    /\ pc' = IF Refused(s) \/ ActiveScenarios(s) = <<>> THEN "err" ELSE "init"
    /\ stage' = s /\ loop' = l
    /\ given' = <<>> /\ awaited' = 0
    /\ spam' = [m \in DOMAIN ActiveScenarios(s) |-> "none"]
    /\ UNCHANGED <<dbRuns, plan>>

SetupPhaseDone ==
    /\ pc = "setup"
    /\ options.skipSetup \/ Len(setUp) = Len(SetupCalls)
    /\ StartStage(1, 1)

-----------------------------------------------------------------------------
(* execute_stage *)

MutantMixIndex(m) == m - 1

MixIndex(m) == ActiveScenarios(stage)[m]

\* Files were set up before; the number of accounts is that of spam's default.
PrepareScenario(m) ==
    LET entry == stages[stage].mix[ActiveScenarios(stage)[m] + 1] IN
    [scenario |-> entry.scenario, seed |-> ScenarioSeed(stage, MixIndex(m)), accounts |-> Or(options.accounts, 10),
     skipSetup |-> IF IsFile(entry.scenario) THEN TRUE ELSE options.skipSetup]

\* prepare_scenario and init_scenario, then the task is spawned and waits; one
\* that cannot be initialised ends the stage, the tasks spawned before stay at the
\* barrier.
InitMix ==
    LET m == Len(given) + 1 IN
    /\ pc = "init"
    /\ m \in Mix
    /\ \/ /\ given' = Append(given, PrepareScenario(m))
          /\ spam' = [spam EXCEPT ![m] = "waiting"]
          /\ UNCHANGED pc
       \/ pc' = "err" /\ UNCHANGED <<given, spam>>
    /\ UNCHANGED <<plan, loop, stage, awaited, dbRuns>>

AllSpawned ==
    /\ pc = "init"
    /\ Len(given) = Len(spam)
    /\ pc' = "await"
    /\ UNCHANGED <<plan, loop, stage, stageVars, dbRuns>>

\* Barrier::new(active_scenarios.len()): open once every scenario has come.
AtBarrier(m) == spam[m] = "waiting" /\ \A k \in Mix : spam[k] # "none"

\* spam_inner inserts the run, then spams.
SpamStarts(m) ==
    /\ AtBarrier(m)
    /\ dbRuns' = dbRuns + 1
    /\ spam' = [spam EXCEPT ![m] = "spamming"]
    /\ UNCHANGED <<pc, plan, loop, stage, given, awaited>>

\* It fails before it inserts the run or after.
SpamEnds(m) ==
    /\ \/ spam[m] = "spamming" /\ spam' = [spam EXCEPT ![m] = "ok"]
       \/ /\ AtBarrier(m) \/ spam[m] = "spamming"
          /\ spam' = [spam EXCEPT ![m] = "err"]
    /\ UNCHANGED <<pc, plan, loop, stage, given, awaited, dbRuns>>

\* The handles are awaited in order; an error ends the campaign.
AwaitMix ==
    LET m == awaited + 1 IN
    /\ pc = "await"
    /\ m \in Mix /\ spam[m] \in {"ok", "err"}
    /\ awaited' = m
    /\ pc' = IF spam[m] = "err" THEN "err" ELSE pc
    /\ UNCHANGED <<plan, loop, stage, given, spam, dbRuns>>

-----------------------------------------------------------------------------
(* run_campaign *)

MutantStageDone ==
    /\ pc = "await"
    /\ awaited > 0
    /\ pc' = "next"
    /\ UNCHANGED <<plan, loop, stage, stageVars, dbRuns>>

StageDone ==
    /\ pc = "await"
    /\ awaited = Len(spam)
    /\ pc' = "next"
    /\ UNCHANGED <<plan, loop, stage, stageVars, dbRuns>>

NextStage ==
    /\ pc = "next"
    /\ \/ stage < Len(stages) /\ StartStage(stage + 1, loop)
       \/ stage = Len(stages) /\ loop < Loops /\ StartStage(1, loop + 1)

CampaignDone ==
    /\ pc = "next"
    /\ stage = Len(stages) /\ loop = Loops
    /\ pc' = "report"
    /\ UNCHANGED <<plan, loop, stage, stageVars, dbRuns>>

\* The future of the stage is dropped.  It contains the run of a stage with one
\* scenario, while the spawned tasks of several go on.
DropStage == spam' = IF Len(spam) = 1 THEN <<"dropped">> ELSE spam

StageTimeout ==
    /\ options.timeouts
    /\ pc \in {"init", "await"}
    /\ pc' = "err"
    /\ DropStage
    /\ UNCHANGED <<plan, loop, stage, given, awaited, dbRuns>>

\* Both the loop of the stages and run() listen for CTRL-C; run() drops the
\* campaign, at once or when it waits next.
CtrlC ==
    /\ ~CampaignEnded
    /\ \/ pc' = "stopped"
       \/ pc \in {"init", "await", "next"} /\ pc' = "interrupted"
    /\ DropStage
    /\ UNCHANGED <<plan, loop, stage, given, awaited, dbRuns>>

ReportCampaign ==
    /\ pc \in {"report", "interrupted"}
    /\ pc' = IF pc = "report" THEN "done" ELSE "stopped"
    /\ UNCHANGED <<plan, loop, stage, stageVars, dbRuns>>

-----------------------------------------------------------------------------

CampaignMain ==
    \/ Resolve \/ Resolved \/ ResolveFails \/ SetupScenario \/ SetupPhaseDone
    \/ InitMix \/ AllSpawned \/ AwaitMix
    \/ StageDone \/ NextStage \/ CampaignDone \/ ReportCampaign

Spammer(m) == m \in Mix /\ (SpamStarts(m) \/ SpamEnds(m))

CampaignStep == CampaignMain \/ \E m \in 1 .. MaxMix : Spammer(m)

CampaignNext == CampaignStep \/ StageTimeout \/ CtrlC

-----------------------------------------------------------------------------
(* Properties *)

\* "This ensures setup creates accounts matching what spam expects": a scenario
\* file spams, without a setup of its own, with a seed and a number of accounts the
\* setup phase was called with for that file, whichever entries have no rate.
SpamAsSetUp ==
    ~options.skipSetup =>
        \A m \in DOMAIN given : IsFile(given[m].scenario) =>
            [scenario |-> given[m].scenario, seed |-> given[m].seed, accounts |-> given[m].accounts] \in ToSet(setUp)

SpamSenders(m) == IF options.override THEN "override" ELSE given[m].seed

\* Scenarios of the stages before this one, earlier repetitions included.
ScenariosBefore ==
    LET Active(k) == Len(ActiveScenarios(k))
    IN  (loop - 1) * MapThenSumSet(Active, DOMAIN stages) + MapThenSumSet(Active, 1 .. stage - 1)

\* Scenarios that spam at the same time never have senders in common, whose nonces
\* would conflict: neither a seed nor the sender of --override-senders.  None spams
\* while the accounts of another one of its mix are being set up and funded.  Stages
\* of one name, and repetitions, have the same seeds, but a stage is left for the next
\* only when every task of it has ended well, and each of them has inserted one run.
OwnSenders ==
    /\ \A m, n \in DOMAIN given : m # n => SpamSenders(m) # SpamSenders(n)
    /\ Len(given) < Len(spam) => \A m \in Mix : spam[m] \in {"none", "waiting", "dropped"}
    /\ pc \in {"next", "report", "done"} => \A m \in Mix : spam[m] = "ok"
    /\ pc = "init" /\ given = <<>> => dbRuns = ScenariosBefore
=============================================================================
