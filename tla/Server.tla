------------------------------- MODULE Server -------------------------------
(***************************************************************************)
(* The subcommand server (crates/cli/src/main.rs, run()): the sessions of  *)
(* SessionServer and their log streams of LogRouter.  The two only share   *)
(* the session cache, and each models what it reads of it.                 *)
(***************************************************************************)
EXTENDS SessionServer, LogRouter

CONSTANT Parts      \* the parts of the instance: "sessions", "streams"

VARIABLE part       \* the part that runs; the other stays in its first state

allVars == <<part, vars, routerVars>>

ServerInit ==
    /\ part \in Parts
    /\ IF part = "sessions" THEN Init ELSE Start(CHOOSE t \in [Calls -> Ids] : TRUE, TRUE)
    /\ RouterInit

Serving(step) == part = "sessions" /\ step /\ UNCHANGED <<part, routerVars>>

Streaming(step) == part = "streams" /\ step /\ UNCHANGED <<part, vars>>

ServerNext == Serving(Next) \/ Streaming(RouterNext)

\* The fairness of SessionServer and LogRouter.
ServerFairness ==
    /\ \A s \in Ids : /\ WF_allVars(Serving(InitTake(s)))
                      /\ WF_allVars(Serving(InitDone(s)))
                      /\ WF_allVars(Serving(FundDone(s)))
    /\ \A c \in Calls : /\ WF_allVars(Serving(SpamTask(c)))
                        /\ WF_allVars(Serving(TopUpExit(c)))
                        /\ WF_allVars(Serving(TopUpDone(c)))
    /\ \A t \in Threads : WF_allVars(Streaming(OnEventSend(t)))
    /\ \A x \in Subs : WF_allVars(Streaming(Task(x))) /\ WF_allVars(Streaming(Cancelled(x)))

ServerSpec == ServerInit /\ [][ServerNext]_allVars /\ ServerFairness
=============================================================================
