--------------------------- MODULE MCSpamCommand ---------------------------
(* Model-checking instances of SpamCommand. *)
EXTENDS SpamCommand

CONSTANTS a, b

Three == <<"a", "b", "c">>

WithEngine ==
    [accounts |-> {a}, kinds |-> {"tx"}, size |-> 1, rpc |-> 0, backlog |-> 0, faults |-> {},
     auth |-> TRUE, fcu |-> TRUE]

\* Senders whose transactions only race; everything that can fail, for single
\* payloads; json-rpc batches whose answers are lost; and a run with an engine
\* that can fail at every step of spam_rpc.
MCSetups == {
    [accounts |-> {a, b}, kinds |-> {"tx"}, size |-> 3, rpc |-> 0, backlog |-> 0, faults |-> {},
     auth |-> FALSE, fcu |-> FALSE],
    [accounts |-> {a}, kinds |-> {"tx", "bundle"}, size |-> 2, rpc |-> 1, backlog |-> 2,
     faults |-> BatchFaults, auth |-> FALSE, fcu |-> TRUE],
    [accounts |-> {a}, kinds |-> {"tx"}, size |-> 3, rpc |-> 2, backlog |-> 3,
     faults |-> {"price", "lost"}, auth |-> FALSE, fcu |-> FALSE],
    [WithEngine EXCEPT !.size = 2, !.kinds = {"tx", "bundle"},
                       !.faults = RpcFaults \cup {"bundle"}]}

EngineSetups == {WithEngine}
=============================================================================
