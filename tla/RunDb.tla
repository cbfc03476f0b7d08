------------------------------- MODULE RunDb -------------------------------
(***************************************************************************)
(* The run database (crates/sqlite_db/src/db.rs): concurrent calls of the  *)
(* DbOps methods that write, over a bounded pool of SQLite connections.    *)
(*                                                                         *)
(* A method takes a connection from the pool for each statement, or keeps  *)
(* one and takes a second one for a nested query.  A connection remembers  *)
(* the row id of its own last insert.  SQLite admits one writer at a time; *)
(* a transaction holds the write lock from its first insert to its end.    *)
(* Row ids are positions: no row is ever deleted.                          *)
(***************************************************************************)
EXTENDS Integers, Sequences, FiniteSets, Functions

CONSTANTS Setups,     \* the configurations: clients that share the SqliteDb,
                      \* (rpc_url, genesis_hash) pairs, methods that are
                      \* called, Pool::builder().max_size and a bound on calls
          BatchSize   \* rows of one insert_named_txs or insert_run_txs

DbMethods == {"insert_run", "get_rpc_url_id", "insert_named_txs", "insert_run_txs",
            "insert_latency_metrics", "insert_replay_report"}

ASSUME RunDbAssumption ==
  /\ BatchSize \in Nat \ {0}
  /\ Setups # {}
  /\ \A s \in Setups : /\ s.size \in Nat \ {0} /\ s.calls \in Nat /\ s.ops \subseteq DbMethods
                       /\ IsFiniteSet(s.clients) /\ s.urls # {}

VARIABLES setup,     \* the configuration of the process
          idle,      \* the idle connections, the one returned last at the end
          rowid,     \* last_insert_rowid() of each connection, 0 for none
          tables,    \* the committed rows of each table
          writer,    \* the connection with an open write transaction
          call,      \* where each client is in its call
          returned   \* the calls that returned Ok

dbVars == <<setup, idle, rowid, tables, writer, call, returned>>

Clients == UNION {s.clients : s \in Setups}
NoConn == 0
Conns == 1..setup.size
Tables == {"runs", "rpc_urls", "named_txs", "run_txs", "latency", "replay_reports"}
NoCall == "none"
Quiet == [op |-> NoCall, at |-> "idle", n |-> 0, url |-> CHOOSE u \in setup.urls : TRUE,
          waiting |-> FALSE, held |-> <<>>, batch |-> <<>>, id |-> 0]

\* The pool is a stack: the connection returned last is handed out first.  A call
\* drops what it holds in the reverse order of taking it.
Top(stack) == stack[Len(stack)]
Pop(stack) == SubSeq(stack, 1, Len(stack) - 1)
DropOrder(held) == [i \in 1..Len(held) |-> held[(Len(held) - i) + 1]]

RunDbStart(s) ==
  /\ setup = s
  /\ idle = [i \in Conns |-> i]
  /\ rowid = [k \in Conns |-> 0]
  /\ tables = [t \in Tables |-> <<>>]
  /\ writer = NoConn
  /\ call = [c \in Clients |-> Quiet]
  /\ returned = {}

RunDbInit == \E s \in Setups : RunDbStart(s)

\* The connection a statement of client c runs on: the one it took last.
Conn(c) == Top(call[c].held)

Row(c) == [by |-> c, n |-> call[c].n, url |-> call[c].url]

\* Go on at another place of the method, first waiting for a connection or not.
At(c, place, waiting, held) ==
  call' = [call EXCEPT ![c].at = place, ![c].waiting = waiting, ![c].held = held]

\* Leave the method: its connections go back to the pool in drop order.
Leave(c) ==
  /\ call' = [call EXCEPT ![c] = [Quiet EXCEPT !.n = call[c].n]]
  /\ idle' = idle \o DropOrder(call[c].held)
  /\ writer' = IF writer \in Range(call[c].held) THEN NoConn ELSE writer

Return(c, id) ==
  /\ Leave(c)
  /\ returned' = returned \cup {[op |-> call[c].op, row |-> Row(c), id |-> id]}

\* A committed insert by a single statement needs the write lock for a moment.
InsertInto(c, table) ==
  /\ writer = NoConn
  /\ tables' = [tables EXCEPT ![table] = Append(@, Row(c))]
  /\ rowid' = [rowid EXCEPT ![Conn(c)] = Len(tables[table]) + 1]

FirstStep(op) ==
  CASE op = "insert_run" -> "insert"
    [] op \in {"get_rpc_url_id", "insert_named_txs"} -> "url"
    [] op = "insert_replay_report" -> "count"
    [] OTHER -> "batch"

Call(c) ==
  /\ c \in setup.clients
  /\ call[c].op = NoCall /\ call[c].n < setup.calls
  /\ \E op \in setup.ops, u \in setup.urls :
       call' = [call EXCEPT ![c] = [Quiet EXCEPT !.op = op, !.at = FirstStep(op),
                                      !.n = call[c].n + 1, !.url = u, !.waiting = TRUE]]
  /\ UNCHANGED <<setup, idle, rowid, tables, writer, returned>>

\* The pool hands out the connection that was returned last.
GetPool(c) ==
  /\ call[c].waiting /\ idle # <<>>
  /\ At(c, call[c].at, FALSE, Append(call[c].held, Top(idle)))
  /\ idle' = Pop(idle)
  /\ UNCHANGED <<setup, rowid, tables, writer, returned>>

\* No connection within connection_timeout: the method returns the error.
PoolTimeout(c) ==
  /\ call[c].waiting /\ idle = <<>>
  /\ Leave(c)
  /\ UNCHANGED <<setup, rowid, tables, returned>>

Ready(c, place) == call[c].at = place /\ ~call[c].waiting

\* insert_run: the insert gives its connection back, and the row id is asked
\* from whatever connection the pool hands out next.
InsertRunRow(c) ==
  /\ Ready(c, "insert")
  /\ InsertInto(c, "runs")
  /\ At(c, "rowid", TRUE, <<>>)
  /\ idle' = Append(idle, Conn(c))
  /\ UNCHANGED <<setup, writer, returned>>

LastInsertRowid(c) ==
  /\ Ready(c, "rowid")
  /\ Return(c, rowid[Conn(c)])
  /\ UNCHANGED <<setup, rowid, tables>>

UrlIds(url) == {i \in DOMAIN tables["rpc_urls"] : tables["rpc_urls"][i].url = url}
FirstId(url) == CHOOSE i \in UrlIds(url) : \A j \in UrlIds(url) : i <= j

\* get_rpc_url_id: INSERT OR IGNORE on a connection that is kept ...
InsertUrl(c) ==
  /\ Ready(c, "url")
  /\ IF UrlIds(call[c].url) = {}
     THEN InsertInto(c, "rpc_urls")
     ELSE writer = NoConn /\ UNCHANGED <<rowid, tables>>
  /\ At(c, "url_id", TRUE, call[c].held)
  /\ UNCHANGED <<setup, idle, writer, returned>>

MutantSelectUrlId(c) ==
  /\ Ready(c, "url_id")
  /\ IF call[c].op = "get_rpc_url_id"
     THEN Return(c, rowid[Head(call[c].held)])
     ELSE /\ call' = [call EXCEPT ![c].at = "batch", ![c].waiting = TRUE,
                        ![c].held = <<>>, ![c].id = rowid[Head(call[c].held)]]
          /\ idle' = idle \o DropOrder(call[c].held)
          /\ UNCHANGED <<writer, returned>>
  /\ UNCHANGED <<setup, rowid, tables>>

MutantKeepConn(c) ==
  /\ Ready(c, "url_id")
  /\ LET id == FirstId(call[c].url) IN
     IF call[c].op = "get_rpc_url_id"
     THEN Return(c, id)
     ELSE /\ call' = [call EXCEPT ![c].at = "batch", ![c].waiting = TRUE, ![c].id = id]
          /\ UNCHANGED <<idle, writer, returned>>
  /\ UNCHANGED <<setup, rowid, tables>>

\* ... and a SELECT on a second one; insert_named_txs goes on with its batch.
SelectUrlId(c) ==
  /\ Ready(c, "url_id")
  /\ LET id == FirstId(call[c].url) IN
     IF call[c].op = "get_rpc_url_id"
     THEN Return(c, id)
     ELSE /\ call' = [call EXCEPT ![c].at = "batch", ![c].waiting = TRUE,
                        ![c].held = <<>>, ![c].id = id]
          /\ idle' = idle \o DropOrder(call[c].held)
          /\ UNCHANGED <<writer, returned>>
  /\ UNCHANGED <<setup, rowid, tables>>

BatchTable(op) ==
  CASE op = "insert_named_txs" -> "named_txs"
    [] op = "insert_run_txs" -> "run_txs"
    [] OTHER -> "latency"

\* A row of a transaction: the first one takes the write lock.
InsertRow(c) ==
  /\ Ready(c, "batch") /\ Len(call[c].batch) < BatchSize
  /\ writer \in {NoConn, Conn(c)}
  /\ writer' = Conn(c)
  /\ call' = [call EXCEPT ![c].batch = Append(@, Row(c))]
  /\ rowid' = [rowid EXCEPT ![Conn(c)] =
                 Len(tables[BatchTable(call[c].op)]) + Len(call[c].batch) + 1]
  /\ UNCHANGED <<setup, idle, tables, returned>>

Commit(c) ==
  /\ Ready(c, "batch") /\ Len(call[c].batch) = BatchSize
  /\ tables' = [tables EXCEPT ![BatchTable(call[c].op)] = @ \o call[c].batch]
  /\ Return(c, call[c].id)
  /\ UNCHANGED <<setup, rowid>>

\* insert_replay_report: the id is computed from a count taken on a second
\* connection while the first one is kept; see GetPool for the first one.
KeepConn(c) ==
  /\ Ready(c, "count") /\ Len(call[c].held) = 1
  /\ At(c, "count", TRUE, call[c].held)
  /\ UNCHANGED <<setup, idle, rowid, tables, writer, returned>>

NumReplayReports(c) ==
  /\ Ready(c, "count") /\ Len(call[c].held) = 2
  /\ call' = [call EXCEPT ![c].at = "report", ![c].held = Pop(@),
                          ![c].id = Len(tables["replay_reports"]) + 1]
  /\ idle' = Append(idle, Conn(c))
  /\ UNCHANGED <<setup, rowid, tables, writer, returned>>

InsertReport(c) ==
  /\ Ready(c, "report")
  /\ InsertInto(c, "replay_reports")
  /\ Return(c, call[c].id)
  /\ UNCHANGED setup

\* A statement fails (SQLITE_BUSY after busy_timeout, SQL or I/O error): `?`
\* returns the error, and dropping the transaction rolls it back.
StatementFails(c) ==
  /\ call[c].op # NoCall /\ ~call[c].waiting
  /\ Leave(c)
  /\ UNCHANGED <<setup, rowid, tables, returned>>

DbStep(c) ==
  \/ GetPool(c) \/ PoolTimeout(c)
  \/ InsertRunRow(c) \/ LastInsertRowid(c)
  \/ InsertUrl(c) \/ SelectUrlId(c)
  \/ InsertRow(c) \/ Commit(c)
  \/ KeepConn(c) \/ NumReplayReports(c) \/ InsertReport(c)

RunDbNext == \E c \in Clients : Call(c) \/ DbStep(c) \/ StatementFails(c)

\* The tasks of one process that share the database, which Commands runs as the
\* subcommand "tasks".
RunDbSpec == RunDbInit /\ [][RunDbNext]_dbVars
-----------------------------------------------------------------------------
\* The id that insert_run returns is that of the run it inserted, whatever
\* else was inserted between its two statements.
RunIdIsOwn ==
  \A r \in returned : r.op = "insert_run" =>
    /\ r.id \in DOMAIN tables["runs"]
    /\ tables["runs"][r.id] = r.row

\* get_rpc_url_id and insert_named_txs agree on one id per url and chain, also
\* when several clients insert the same url at once.  To a client that is alone,
\* as the replay command is, insert_run returns the id of its run and
\* insert_replay_report that of its report, whatever fails.
IdsAgree ==
  /\ \A r \in returned : r.op \in {"get_rpc_url_id", "insert_named_txs"} => UrlIds(r.row.url) = {r.id}
  /\ Cardinality(setup.clients) = 1 =>
       /\ RunIdIsOwn
       /\ \A r \in returned : r.op = "insert_replay_report" =>
            /\ r.id \in DOMAIN tables["replay_reports"]
            /\ tables["replay_reports"][r.id] = r.row

\* With fewer clients than connections an empty pool never leaves everyone
\* who has a connection waiting for another one.
PoolNeverWedged ==
  Cardinality(setup.clients) < setup.size /\ idle = <<>> => \E c \in Clients : call[c].held # <<>> /\ ~call[c].waiting
=============================================================================
