------------------------------ MODULE LogRouter ------------------------------
(***************************************************************************)
(* Per-session log streams: the tracing layer of                           *)
(* crates/cli/src/server/log_layer.rs, the registry of senders that        *)
(* crates/cli/src/server/sessions.rs keeps for it, and the subscriber      *)
(* tasks of rpc_server/server.rs (WebSocket) and sse.rs.  A log line is    *)
(* its number in the session's broadcast channel.                          *)
(***************************************************************************)
EXTENDS Integers, Sequences, FiniteSets

CONSTANTS
    Sessions,   \* sessions
    Threads,    \* threads that emit log events
    Subs,       \* subscribers
    Ws,         \* the subscribers over WebSocket; the others use SSE
    Cap,        \* capacity of the broadcast channel
    Out,        \* capacity of the queue to the client
    MaxLines    \* bound: [Sessions -> log lines]

ASSUME LogAssumption ==
    /\ Ws \subseteq Subs
    /\ Cap \in Nat \ {0} /\ Out \in Nat \ {0} /\ MaxLines \in [Sessions -> Nat]

VARIABLES
    open, added, \* sessions in the cache, sessions ever added
    sinks,      \* sessions registered in SessionLogSinks
    reading,    \* [Threads -> session whose event holds the read guard, or None]
    sent,       \* [Sessions -> lines sent to the broadcast channel]
    sub         \* [Subs -> the subscriber task]

routerVars == <<open, added, sinks, reading, sent, sub>>

None == "none"

\* first: where the subscription began; next: the receiver's position;
\* held: the line whose send to the client is awaited, 0 if none;
\* out: lines queued for the client; got: lines it has read; gone: it left.
Idle == [st |-> "none", id |-> None, first |-> 0, next |-> 0, held |-> 0,
         skipped |-> 0, out |-> <<>>, got |-> <<>>, gone |-> FALSE]

RouterInit ==
    /\ open = {} /\ added = {} /\ sinks = {}
    /\ reading = [t \in Threads |-> None]
    /\ sent = [s \in Sessions |-> 0]
    /\ sub = [x \in Subs |-> Idle]

-----------------------------------------------------------------------------
(* The registry: ContenderSessionCache::add_session and remove_session *)

TryWrite == \A t \in Threads : reading[t] = None

AddSink(s) ==
    /\ s \notin added
    /\ added' = added \cup {s}
    /\ open' = open \cup {s}
    /\ sinks' = IF TryWrite THEN sinks \cup {s} ELSE sinks
    /\ UNCHANGED <<reading, sent, sub>>

RemoveSink(s) ==
    /\ s \in open
    /\ open' = open \ {s}
    /\ sinks' = IF TryWrite THEN sinks \ {s} ELSE sinks
    /\ UNCHANGED <<added, reading, sent, sub>>

-----------------------------------------------------------------------------
(* SessionLogRouter::on_event *)

\* try_read fails only while add_session or remove_session writes, which is a
\* single step here; the line is then dropped, and nothing changes.
OnEvent(t, s) ==
    /\ reading[t] = None
    /\ s \in added
    /\ sent[s] + Cardinality({u \in Threads : reading[u] = s}) < MaxLines[s]
    /\ reading' = [reading EXCEPT ![t] = s]
    /\ UNCHANGED <<open, added, sinks, sent, sub>>

OnEventSend(t) ==
    LET s == reading[t] IN
    /\ s # None
    /\ reading' = [reading EXCEPT ![t] = None]
    /\ sent' = IF s \in sinks THEN [sent EXCEPT ![s] = @ + 1] ELSE sent
    /\ UNCHANGED <<open, added, sinks, sub>>

-----------------------------------------------------------------------------
(* subscribe_logs, logs_handler and their tasks *)

Subscribe(x, s) ==
    /\ sub[x].st = "none"
    /\ s \in open
    /\ sub' = [sub EXCEPT ![x] = [Idle EXCEPT !.st = "active", !.id = s,
                                              !.first = sent[s] + 1, !.next = sent[s] + 1]]
    /\ UNCHANGED <<open, added, sinks, reading, sent>>

Waits(x) == sub[x].st = "active" /\ sub[x].held = 0

Oldest(s) == sent[s] - Cap + 1

Lagged(x) == sub[x].next < Oldest(sub[x].id)

Recv(x) ==
    /\ Waits(x)
    /\ ~Lagged(x)
    /\ sub[x].next <= sent[sub[x].id]
    /\ sub' = [sub EXCEPT ![x].held = sub[x].next, ![x].next = @ + 1]
    /\ UNCHANGED <<open, added, sinks, reading, sent>>

Skip(x) == [sub EXCEPT ![x].next = Oldest(sub[x].id), ![x].skipped = @ + Oldest(sub[x].id) - sub[x].next]

MutantRecvLagged(x) ==
    /\ Waits(x)
    /\ Lagged(x)
    /\ sub' = Skip(x)
    /\ UNCHANGED <<open, added, sinks, reading, sent>>

\* The WebSocket task breaks on any error; the SSE task warns with the count.
RecvLagged(x) ==
    /\ Waits(x)
    /\ Lagged(x)
    /\ sub' = IF x \in Ws THEN [sub EXCEPT ![x].st = "ended"] ELSE Skip(x)
    /\ UNCHANGED <<open, added, sinks, reading, sent>>

Room(x) == Len(sub[x].out) < Out

\* The send is awaited inside the select! branch: while the client's queue is
\* full the task sees neither lines nor the cancelled token.
Deliver(x) ==
    /\ sub[x].st = "active"
    /\ sub[x].held # 0
    /\ sub[x].gone \/ Room(x)
    /\ sub' = IF sub[x].gone THEN [sub EXCEPT ![x].st = "ended"]
              ELSE [sub EXCEPT ![x].out = Append(@, sub[x].held), ![x].held = 0]
    /\ UNCHANGED <<open, added, sinks, reading, sent>>

MutantCancelled(x) ==
    /\ Waits(x)
    /\ sub[x].id \notin open
    /\ sub[x].next > sent[sub[x].id] /\ sub[x].id \notin sinks
    /\ sub' = [sub EXCEPT ![x].st = "ended"]
    /\ UNCHANGED <<open, added, sinks, reading, sent>>

Cancelled(x) ==
    /\ Waits(x)
    /\ sub[x].id \notin open
    /\ sub' = [sub EXCEPT ![x].st = "ended"]
    /\ UNCHANGED <<open, added, sinks, reading, sent>>

\* The client reads what was queued for it, or goes away.
ClientReads(x) ==
    /\ sub[x].out # <<>> /\ ~sub[x].gone
    /\ sub' = [sub EXCEPT ![x].out = Tail(@), ![x].got = Append(@, Head(sub[x].out))]
    /\ UNCHANGED <<open, added, sinks, reading, sent>>

ClientLeaves(x) ==
    /\ sub[x].st = "active" /\ ~sub[x].gone
    /\ sub' = [sub EXCEPT ![x].gone = TRUE]
    /\ UNCHANGED <<open, added, sinks, reading, sent>>

-----------------------------------------------------------------------------

Task(x) == Recv(x) \/ RecvLagged(x) \/ Deliver(x)

RouterNext ==
    \/ \E s \in Sessions : AddSink(s) \/ RemoveSink(s)
    \/ \E t \in Threads : OnEventSend(t) \/ \E s \in Sessions : OnEvent(t, s)
    \/ \E x \in Subs : Task(x) \/ Cancelled(x) \/ ClientReads(x) \/ ClientLeaves(x) \/ \E s \in Sessions : Subscribe(x, s)

\* Tasks and threads run; select! polls its branches in random order: a cancelled
\* token is not passed over for ever.  Nothing makes a client read or leave.
RouterFairness ==
    /\ \A t \in Threads : WF_routerVars(OnEventSend(t))
    /\ \A x \in Subs : WF_routerVars(Task(x)) /\ WF_routerVars(Cancelled(x))

RouterSpec == RouterInit /\ [][RouterNext]_routerVars /\ RouterFairness

-----------------------------------------------------------------------------
(* Properties *)

Received(x) == sub[x].got \o sub[x].out \o (IF sub[x].held = 0 THEN <<>> ELSE <<sub[x].held>>)

\* No line is missed unnoticed.  A WebSocket subscriber reads consecutive lines
\* from the one after it subscribed: when the channel overtakes it its stream
\* ends rather than continues after a hole.  An SSE subscriber reads lines in
\* order, and those it does not get are exactly those the lag warnings count.
NoSilentGap ==
    \A x \in Subs :
        LET r == Received(x) IN
        IF x \in Ws THEN \A i \in DOMAIN r : r[i] = sub[x].first + i - 1
        ELSE sub[x].st = "active" =>
            /\ \A i \in 1 .. Len(r) - 1 : r[i] < r[i + 1]
            /\ sub[x].next = sub[x].first + Len(r) + sub[x].skipped

\* The task waits for room in the queue of a client that neither reads nor leaves.
Stalled(x) == sub[x].st = "active" /\ sub[x].held # 0 /\ ~sub[x].gone /\ ~Room(x)

\* Removing a session ends its subscriber tasks, wherever in their select! loop
\* and however far behind the log they are, also when the session's sender stayed
\* behind in the registry.  The one exception is a task that waits for ever for a
\* client that neither reads nor leaves: it does not see the cancelled token.
RemovalEndsStreams ==
    \A x \in Subs : []<>~Stalled(x) =>
        (sub[x].st = "active" /\ sub[x].id \notin open ~> sub[x].st = "ended")
=============================================================================
