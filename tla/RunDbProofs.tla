---------------------------- MODULE RunDbProofs ----------------------------
(***************************************************************************)
(* The run database for any number of tasks, connections, urls and calls:  *)
(* the ids that its methods return agree, and nested queries never leave   *)
(* the pool empty with everyone waiting.  Both rest on one inductive       *)
(* invariant, DbInv, with one lemma per action.                            *)
(***************************************************************************)
EXTENDS RunDb, FiniteSetTheorems, TLAPS

\* The types.  Flag is BOOLEAN, named so that the provers take the flag of a
\* call for a plain value.
Urls == UNION {s.urls : s \in Setups}
Places == {"idle", "insert", "rowid", "url", "url_id", "batch", "count", "report"}
Flag == BOOLEAN
TableRow == [by : Clients, n : Nat, url : Urls]
Progress == [op : DbMethods \cup {NoCall}, at : Places, n : Nat, url : Urls, waiting : Flag,
             held : Seq(Conns), batch : Seq(TableRow), id : Nat]

DbTypeInv ==
  /\ setup \in Setups
  /\ idle \in Seq(Conns)
  /\ rowid \in [Conns -> Nat]
  /\ tables \in [Tables -> Seq(TableRow)]
  /\ writer \in Conns \cup {NoConn}
  /\ call \in [Clients -> Progress]
  /\ returned \subseteq [op : DbMethods, row : TableRow, id : Nat]

\* A call that waits is one connection short of what its place needs.
Needs(l, n) == IF l.waiting THEN Len(l.held) + 1 \in n ELSE Len(l.held) \in n

\* Where a method can be, and how many connections it has there.
InPlace(l) ==
  \/ l.op = NoCall /\ l.at = "idle" /\ ~l.waiting /\ l.held = <<>>
  \/ l.op = "insert_run" /\ l.at \in {"insert", "rowid"} /\ Needs(l, {1})
  \/ l.op \in {"get_rpc_url_id", "insert_named_txs"} /\ l.at = "url" /\ Needs(l, {1})
  \/ l.op \in {"get_rpc_url_id", "insert_named_txs"} /\ l.at = "url_id" /\ Needs(l, {2})
  \/ /\ l.op \in {"insert_named_txs", "insert_run_txs", "insert_latency_metrics"}
     /\ l.at = "batch" /\ Needs(l, {1})
  \/ l.op = "insert_replay_report" /\ l.at = "count" /\ Needs(l, {1, 2})
  \/ l.op = "insert_replay_report" /\ l.at = "report" /\ ~l.waiting /\ Len(l.held) = 1

\* Only the clients of the configuration call, and each call is in its place.
CallsInPlace ==
  \A c \in Clients : InPlace(call[c]) /\ (call[c].op # NoCall => c \in setup.clients)

\* No connection is lost.
NoneLost ==
  \A k \in Conns : k \in Range(idle) \/ \E c \in Clients : k \in Range(call[c].held)

\* A url has one row, which a call has seen before it goes on with its id.
UrlSeen(l) ==
  /\ l.at = "url_id" => UrlIds(l.url) # {}
  /\ l.op = "insert_named_txs" /\ l.at = "batch" => UrlIds(l.url) = {l.id}

\* An answered url id is the id of that one row.
UrlAnswered(r) ==
  r.op \in {"get_rpc_url_id", "insert_named_txs"} => UrlIds(r.row.url) = {r.id}

UrlsKnown ==
  /\ \A i, j \in DOMAIN tables["rpc_urls"] :
       tables["rpc_urls"][i].url = tables["rpc_urls"][j].url => i = j
  /\ \A c \in Clients : UrlSeen(call[c])
  /\ \A r \in returned : UrlAnswered(r)

\* The row with this id is the row of the call.
OwnRow(table, id, row) == id \in DOMAIN tables[table] /\ tables[table][id] = row

\* A client that is alone gets the connection of its last insert back, and no
\* report comes between its count and its insert.
InsertedLast(c) ==
  /\ call[c].at = "rowid" =>
       IF call[c].waiting
       THEN idle # <<>> /\ OwnRow("runs", rowid[Top(idle)], Row(c))
       ELSE OwnRow("runs", rowid[Conn(c)], Row(c))
  /\ call[c].at = "report" => call[c].id = Len(tables["replay_reports"]) + 1

\* An answered run or report id is that of the row the call inserted.
OwnAnswered(r) ==
  /\ r.op = "insert_run" => OwnRow("runs", r.id, r.row)
  /\ r.op = "insert_replay_report" => OwnRow("replay_reports", r.id, r.row)

AloneExact ==
  Cardinality(setup.clients) = 1 =>
    /\ \A c \in setup.clients : InsertedLast(c)
    /\ \A r \in returned : OwnAnswered(r)

\* The inductive invariant.
DbInv == DbTypeInv /\ CallsInPlace /\ NoneLost /\ UrlsKnown /\ AloneExact

-----------------------------------------------------------------------------
(* Connections and records *)

\* What the helpers on sequences do with connections.
LEMMA Pool ==
  ASSUME NEW S, NEW s \in Seq(S)
  PROVE  /\ DropOrder(s) \in Seq(S) /\ Range(DropOrder(s)) = Range(s)
         /\ s # <<>> => /\ Pop(s) \in Seq(S) /\ Top(s) \in S /\ Len(Pop(s)) = Len(s) - 1
                        /\ Range(s) = Range(Pop(s)) \cup {Top(s)}
<1>1. DropOrder(s) \in Seq(S) /\ Range(DropOrder(s)) = Range(s)
  <2>1. /\ Len(DropOrder(s)) = Len(s) /\ DOMAIN DropOrder(s) = 1..Len(s) /\ Len(s) \in Nat
        /\ DOMAIN s = 1..Len(s)
        /\ \A i \in 1..Len(s) : DropOrder(s)[i] = s[(Len(s) - i) + 1] /\ (Len(s) - i) + 1 \in 1..Len(s)
    BY DEF DropOrder
  <2>2. DropOrder(s) \in Seq(S)
    BY <2>1 DEF DropOrder
  <2>3. \A i \in 1..Len(s) : (Len(s) - ((Len(s) - i) + 1)) + 1 = i
    BY <2>1
  <2>4. \A i \in 1..Len(s) : \E j \in 1..Len(s) : DropOrder(s)[j] = s[i]
    BY <2>1, <2>3
  <2>5. Range(s) \subseteq Range(DropOrder(s))
    <3>1. DOMAIN DropOrder(s) = 1..Len(s) /\ DOMAIN s = 1..Len(s)
      BY <2>1
    <3> QED
      BY <2>4, <3>1, Zenon DEF Range
  <2>6. Range(DropOrder(s)) \subseteq Range(s)
    BY <2>1 DEF Range
  <2> QED
    BY <2>2, <2>5, <2>6, Zenon
<1>2. ASSUME s # <<>>
      PROVE  /\ Pop(s) \in Seq(S) /\ Top(s) \in S /\ Len(Pop(s)) = Len(s) - 1
             /\ Range(s) = Range(Pop(s)) \cup {Top(s)}
  <2>1. Len(s) \in Nat /\ Len(s) > 0 /\ DOMAIN s = 1..Len(s)
    BY <1>2
  <2>2. /\ Pop(s) \in Seq(S) /\ Len(Pop(s)) = Len(s) - 1
        /\ \A i \in 1..(Len(s) - 1) : Pop(s)[i] = s[i]
    BY <2>1 DEF Pop
  <2>3. Top(s) = s[Len(s)] /\ Top(s) \in S
    BY <2>1 DEF Top
  <2>4. DOMAIN Pop(s) = 1..(Len(s) - 1)
    BY <2>2
  <2> QED
    BY <2>1, <2>2, <2>3, <2>4 DEF Range
<1> QED
  BY <1>1, <1>2

\* Connections, and rows, that are added to a sequence.
LEMMA Joined ==
  ASSUME NEW S, NEW s \in Seq(S), NEW t \in Seq(S), NEW e \in S
  PROVE  /\ s \o t \in Seq(S) /\ Range(s \o t) = Range(s) \cup Range(t)
         /\ Append(s, e) \in Seq(S) /\ Range(Append(s, e)) = Range(s) \cup {e}
         /\ Len(Append(s, e)) = Len(s) + 1 /\ Top(Append(s, e)) = e
<1>1. /\ Len(s) \in Nat /\ Len(t) \in Nat
      /\ DOMAIN s = 1..Len(s) /\ DOMAIN t = 1..Len(t)
  OBVIOUS
<1>2. s \o t \in Seq(S) /\ Range(s \o t) = Range(s) \cup Range(t)
  <2>1. \A i \in 1..Len(t) : (s \o t)[Len(s) + i] = t[i] /\ Len(s) + i \in DOMAIN (s \o t)
    BY <1>1
  <2>2. \A i \in 1..Len(s) : (s \o t)[i] = s[i] /\ i \in DOMAIN (s \o t)
    BY <1>1
  <2>3. \A i \in DOMAIN (s \o t) : \/ i \in 1..Len(s)
                                  \/ \E j \in 1..Len(t) : i = Len(s) + j
    <3>1. ASSUME NEW i \in DOMAIN (s \o t), i \notin 1..Len(s)
          PROVE  i - Len(s) \in 1..Len(t) /\ i = Len(s) + (i - Len(s))
      BY <1>1, <3>1
    <3> QED
      BY <3>1
  <2>4. Range(s) \cup Range(t) \subseteq Range(s \o t)
    BY <1>1, <2>1, <2>2, Zenon DEF Range
  <2>5. Range(s \o t) \subseteq Range(s) \cup Range(t)
    BY <1>1, <2>1, <2>2, <2>3 DEF Range
  <2>6. s \o t \in Seq(S)
    OBVIOUS
  <2> QED
    BY <2>4, <2>5, <2>6
<1>3. /\ Append(s, e) \in Seq(S) /\ Len(Append(s, e)) = Len(s) + 1
      /\ Append(s, e)[Len(s) + 1] = e /\ \A i \in 1..Len(s) : Append(s, e)[i] = s[i]
      /\ DOMAIN Append(s, e) = 1..(Len(s) + 1)
  BY <1>1
<1>4. Range(Append(s, e)) = Range(s) \cup {e}
  <2>1. \A i \in DOMAIN Append(s, e) : i \in 1..Len(s) \/ i = Len(s) + 1
    BY <1>1, <1>3
  <2>2. Len(s) + 1 \in DOMAIN Append(s, e) /\ 1..Len(s) \subseteq DOMAIN Append(s, e)
    BY <1>1, <1>3
  <2> QED
    BY <1>3, <2>1, <2>2 DEF Range
<1> QED
  BY <1>2, <1>3, <1>4 DEF Top

\* Client c goes on like this, and nobody else moves.
Becomes(c, op, at, n, url, waiting, held, batch, id) ==
  /\ call' \in [Clients -> Progress]
  /\ \A d \in Clients \ {c} : call'[d] = call[d]
  /\ call'[c].op = op /\ call'[c].at = at /\ call'[c].n = n /\ call'[c].url = url
  /\ call'[c].waiting = waiting /\ call'[c].held = held
  /\ call'[c].batch = batch /\ call'[c].id = id

\* The locals of a client have their types.
LEMMA CallType ==
  ASSUME DbTypeInv, NEW c \in Clients
  PROVE  /\ call[c].op \in DbMethods \cup {NoCall} /\ call[c].at \in Places /\ call[c].n \in Nat
         /\ call[c].url \in Urls /\ call[c].waiting \in Flag /\ call[c].held \in Seq(Conns)
         /\ call[c].batch \in Seq(TableRow) /\ call[c].id \in Nat /\ Row(c) \in TableRow
BY Zenon DEF DbTypeInv, Progress, Row, TableRow

\* A client whose locals are replaced goes on with the new ones.
LEMMA Replaces ==
  ASSUME DbTypeInv, NEW c \in Clients, NEW l \in Progress, call' = [call EXCEPT ![c] = l]
  PROVE  Becomes(c, l.op, l.at, l.n, l.url, l.waiting, l.held, l.batch, l.id)
<1>1. call'[c] = l /\ call' \in [Clients -> Progress]
  BY DEF DbTypeInv
<1>2. \A d \in Clients \ {c} : call'[d] = call[d]
  BY DEF DbTypeInv
<1> QED
  BY <1>1, <1>2 DEF Becomes

\* A client that goes on at another place keeps the rest of its locals.
LEMMA AtBecomes ==
  ASSUME DbTypeInv, NEW c \in Clients, NEW at \in Places, NEW waiting \in Flag,
         NEW held \in Seq(Conns), At(c, at, waiting, held)
  PROVE  Becomes(c, call[c].op, at, call[c].n, call[c].url, waiting, held, call[c].batch,
                 call[c].id)
<1> DEFINE l == [call[c] EXCEPT !.at = at, !.waiting = waiting, !.held = held]
<1>1. call[c] \in Progress
  BY DEF DbTypeInv
<1>2. /\ l \in Progress
      /\ l.op = call[c].op /\ l.at = at /\ l.n = call[c].n /\ l.url = call[c].url
      /\ l.waiting = waiting /\ l.held = held /\ l.batch = call[c].batch /\ l.id = call[c].id
  BY <1>1, Zenon DEF Progress
<1>3. call' = [call EXCEPT ![c] = l]
  BY Zenon DEF At, DbTypeInv
<1> HIDE DEF l
<1> QED
  BY <1>2, <1>3, Replaces, Zenon DEF Becomes

\* The locals of a client without connection, batch or id.
Free(l, op, at, n, url, waiting) ==
  /\ l \in Progress /\ l.op = op /\ l.at = at /\ l.n = n /\ l.url = url
  /\ l.waiting = waiting /\ l.held = <<>> /\ l.batch = <<>> /\ l.id = 0

Resting(url, waiting) ==
  [op |-> NoCall, at |-> "idle", n |-> 0, url |-> url, waiting |-> waiting, held |-> <<>>,
   batch |-> <<>>, id |-> 0]

\* Locals that start a call, or end one.
LEMMA FreeFields ==
  ASSUME NEW url \in Urls, NEW f \in Flag
  PROVE  /\ Free(Resting(url, f), NoCall, "idle", 0, url, f)
         /\ \A n \in Nat : Free([Resting(url, f) EXCEPT !.n = n], NoCall, "idle", n, url, f)
         /\ \A op \in DbMethods, at \in Places, n \in Nat, u \in Urls, w \in Flag :
              Free([Resting(url, f) EXCEPT !.op = op, !.at = at, !.n = n, !.url = u, !.waiting = w],
                   op, at, n, u, w)
<1>0. /\ "idle" \in Places /\ NoCall \in DbMethods \cup {NoCall} /\ 0 \in Nat
      /\ <<>> \in Seq(Conns) /\ <<>> \in Seq(TableRow)
  BY DEF Places
<1>1. ASSUME NEW n \in Nat
      PROVE  Free([Resting(url, f) EXCEPT !.n = n], NoCall, "idle", n, url, f)
  <2> DEFINE l == [Resting(url, f) EXCEPT !.n = n]
  <2>1. l = [op |-> NoCall, at |-> "idle", n |-> n, url |-> url, waiting |-> f, held |-> <<>>,
             batch |-> <<>>, id |-> 0]
    BY DEF Resting
  <2> HIDE DEF l
  <2>2. l \in Progress
    BY <1>0, <2>1 DEF Progress
  <2> QED
    BY <2>1, <2>2 DEF Free, l
<1>2. ASSUME NEW op \in DbMethods, NEW at \in Places, NEW n \in Nat, NEW u \in Urls,
             NEW w \in Flag
      PROVE  Free([Resting(url, f) EXCEPT !.op = op, !.at = at, !.n = n, !.url = u, !.waiting = w],
                  op, at, n, u, w)
  <2> DEFINE l == [Resting(url, f) EXCEPT !.op = op, !.at = at, !.n = n, !.url = u, !.waiting = w]
  <2>0. Resting(url, f) \in Progress
    BY <1>0 DEF Resting, Progress
  <2>1. l.op = op /\ l.at = at /\ l.n = n /\ l.url = u /\ l.waiting = w
    BY <2>0 DEF Progress
  <2>2. l.held = <<>> /\ l.batch = <<>> /\ l.id = 0
    BY DEF Resting
  <2>3. l \in Progress
    BY <2>0, Zenon DEF Progress
  <2> HIDE DEF l
  <2>4. Free(l, op, at, n, u, w)
    BY <2>1, <2>2, <2>3 DEF Free
  <2> QED
    BY <2>4 DEF l
<1>3. Free(Resting(url, f), NoCall, "idle", 0, url, f)
  <2>1. Resting(url, f) \in Progress
    BY <1>0 DEF Resting, Progress
  <2> QED
    BY <2>1 DEF Resting, Free
<1> QED
  BY <1>1, <1>2, <1>3, Zenon

\* A client between two calls has the locals of nobody.
LEMMA QuietRests ==
  ASSUME DbTypeInv
  PROVE  \E u \in Urls : Quiet = Resting(u, FALSE)
<1>1. (CHOOSE v \in setup.urls : TRUE) \in Urls
  BY RunDbAssumption DEF DbTypeInv, Urls
<1> QED
  BY <1>1, Zenon DEF Quiet, Resting

\* A method that ends frees its client; one that begins waits for a connection.
LEMMA LeaveBecomes ==
  ASSUME DbTypeInv, NEW c \in Clients, Leave(c)
  PROVE  \E u \in Urls : Becomes(c, NoCall, "idle", call[c].n, u, FALSE, <<>>, <<>>, 0)
<1>1. PICK u \in Urls : Quiet = Resting(u, FALSE)
  BY QuietRests, Zenon
<1> DEFINE l == [Quiet EXCEPT !.n = call[c].n]
<1>2. FALSE \in Flag /\ call[c].n \in Nat
  BY CallType DEF Flag
<1>3. Free(l, NoCall, "idle", call[c].n, u, FALSE)
  BY <1>1, <1>2, FreeFields, Zenon
<1>4. call' = [call EXCEPT ![c] = l]
  BY DEF Leave
<1> HIDE DEF l
<1>5. Becomes(c, l.op, l.at, l.n, l.url, l.waiting, l.held, l.batch, l.id)
  BY <1>3, <1>4, Replaces, Zenon DEF Free
<1> QED
  BY <1>3, <1>5, Zenon DEF Free

\* A call that begins waits for its first connection.
LEMMA CallBecomes ==
  ASSUME DbTypeInv, NEW c \in Clients, Call(c)
  PROVE  \E op \in DbMethods, u \in Urls :
           Becomes(c, op, FirstStep(op), call[c].n + 1, u, TRUE, <<>>, <<>>, 0)
<1>1. PICK op \in setup.ops, u \in setup.urls :
        call' = [call EXCEPT ![c] = [Quiet EXCEPT !.op = op, !.at = FirstStep(op),
                                      !.n = call[c].n + 1, !.url = u, !.waiting = TRUE]]
  BY Zenon DEF Call
<1> DEFINE l == [Quiet EXCEPT !.op = op, !.at = FirstStep(op), !.n = call[c].n + 1, !.url = u,
                              !.waiting = TRUE]
<1>2. PICK v \in Urls : Quiet = Resting(v, FALSE)
  BY QuietRests, Zenon
<1>3. op \in DbMethods /\ u \in Urls /\ TRUE \in Flag /\ FALSE \in Flag
  BY RunDbAssumption DEF DbTypeInv, Urls, Flag
<1>4. FirstStep(op) \in Places /\ call[c].n + 1 \in Nat
  BY CallType DEF FirstStep, Places
<1>5. Free(l, op, FirstStep(op), call[c].n + 1, u, TRUE)
  BY <1>2, <1>3, <1>4, FreeFields, Zenon
<1>6. call' = [call EXCEPT ![c] = l]
  BY <1>1
<1> HIDE DEF l
<1>7. Becomes(c, l.op, l.at, l.n, l.url, l.waiting, l.held, l.batch, l.id)
  BY <1>5, <1>6, Replaces, Zenon DEF Free
<1> QED
  BY <1>3, <1>5, <1>7, Zenon DEF Free

\* Where client c goes on with its batch, or with its report.
LEMMA NextBecomes ==
  ASSUME DbTypeInv, NEW c \in Clients, NEW id \in Nat, NEW held \in Seq(Conns)
  PROVE  /\ call' = [call EXCEPT ![c].at = "batch", ![c].waiting = TRUE, ![c].held = <<>>,
                                 ![c].id = id]
            => Becomes(c, call[c].op, "batch", call[c].n, call[c].url, TRUE, <<>>, call[c].batch,
                       id)
         /\ call' = [call EXCEPT ![c].at = "report", ![c].held = held, ![c].id = id]
            => Becomes(c, call[c].op, "report", call[c].n, call[c].url, call[c].waiting, held,
                       call[c].batch, id)
<1>0. /\ call[c] \in Progress /\ "batch" \in Places /\ "report" \in Places
      /\ <<>> \in Seq(Conns) /\ TRUE \in Flag
  BY DEF DbTypeInv, Places, Flag
<1>1. ASSUME NEW w \in Flag,
             call' = [call EXCEPT ![c].at = "batch", ![c].waiting = w, ![c].held = <<>>,
                                  ![c].id = id]
      PROVE  Becomes(c, call[c].op, "batch", call[c].n, call[c].url, w, <<>>, call[c].batch, id)
  <2> DEFINE l == [call[c] EXCEPT !.at = "batch", !.waiting = w, !.held = <<>>, !.id = id]
  <2>1. /\ l \in Progress
        /\ l.op = call[c].op /\ l.at = "batch" /\ l.n = call[c].n /\ l.url = call[c].url
        /\ l.waiting = w /\ l.held = <<>> /\ l.batch = call[c].batch /\ l.id = id
    BY <1>0, Zenon DEF Progress
  <2>2. call' = [call EXCEPT ![c] = l]
    BY <1>1, Zenon DEF DbTypeInv
  <2> HIDE DEF l
  <2> QED
    BY <2>1, <2>2, Replaces, Zenon DEF Becomes
<1>2. ASSUME call' = [call EXCEPT ![c].at = "report", ![c].held = held, ![c].id = id]
      PROVE  Becomes(c, call[c].op, "report", call[c].n, call[c].url, call[c].waiting, held,
                     call[c].batch, id)
  <2> DEFINE l == [call[c] EXCEPT !.at = "report", !.held = held, !.id = id]
  <2>1. /\ l \in Progress
        /\ l.op = call[c].op /\ l.at = "report" /\ l.n = call[c].n /\ l.url = call[c].url
        /\ l.waiting = call[c].waiting /\ l.held = held /\ l.batch = call[c].batch /\ l.id = id
    BY <1>0, Zenon DEF Progress
  <2>2. call' = [call EXCEPT ![c] = l]
    BY <1>2, Zenon DEF DbTypeInv
  <2> HIDE DEF l
  <2> QED
    BY <2>1, <2>2, Replaces, Zenon DEF Becomes
<1> QED
  BY <1>0, <1>1, <1>2, Zenon

\* A row that is added to the batch changes nothing else of the call.
LEMMA BatchBecomes ==
  ASSUME DbTypeInv, NEW c \in Clients, NEW batch \in Seq(TableRow),
         call' = [call EXCEPT ![c].batch = batch]
  PROVE  Becomes(c, call[c].op, call[c].at, call[c].n, call[c].url, call[c].waiting,
                 call[c].held, batch, call[c].id)
<1> DEFINE l == [call[c] EXCEPT !.batch = batch]
<1>1. call[c] \in Progress
  BY DEF DbTypeInv
<1>2. /\ l \in Progress
      /\ l.op = call[c].op /\ l.at = call[c].at /\ l.n = call[c].n /\ l.url = call[c].url
      /\ l.waiting = call[c].waiting /\ l.held = call[c].held /\ l.batch = batch
      /\ l.id = call[c].id
  BY <1>1, Zenon DEF Progress
<1>3. call' = [call EXCEPT ![c] = l]
  BY DEF DbTypeInv
<1> HIDE DEF l
<1> QED
  BY <1>2, <1>3, Replaces, Zenon DEF Becomes

-----------------------------------------------------------------------------
(* What keeps each part of the invariant *)

\* Types: the setup never changes, so the pool's size does not.
LEMMA TypeKept ==
  ASSUME DbTypeInv, setup' = setup, idle' \in Seq(Conns), rowid' \in [Conns -> Nat],
         tables' \in [Tables -> Seq(TableRow)], writer' \in Conns \cup {NoConn},
         call' \in [Clients -> Progress],
         returned' \subseteq [op : DbMethods, row : TableRow, id : Nat]
  PROVE  DbTypeInv'
<1>1. Conns' = Conns
  BY DEF Conns
<1>2. Progress' = Progress
  BY <1>1 DEF Progress
<1> QED
  BY <1>1, <1>2 DEF DbTypeInv

\* Places: only the client that moves has to be looked at.
LEMMA PlacesKept ==
  ASSUME CallsInPlace, setup' = setup, NEW c \in Clients,
         \A d \in Clients \ {c} : call'[d] = call[d],
         InPlace(call'[c]), call'[c].op # NoCall => c \in setup.clients
  PROVE  CallsInPlace'
<1>1. ASSUME NEW d \in Clients
      PROVE  InPlace(call'[d]) /\ (call'[d].op # NoCall => d \in setup.clients)
  BY DEF CallsInPlace
<1> QED
  BY <1>1 DEF CallsInPlace

\* Connections: what the moving client gives up is idle again.
LEMMA NoneLostKept ==
  ASSUME NoneLost, setup' = setup, NEW c \in Clients,
         \A d \in Clients \ {c} : call'[d] = call[d],
         Range(idle) \cup Range(call[c].held) \subseteq Range(idle') \cup Range(call'[c].held)
  PROVE  NoneLost'
<1>1. Conns' = Conns
  BY DEF Conns
<1>2. ASSUME NEW k \in Conns
      PROVE  k \in Range(idle') \/ \E d \in Clients : k \in Range(call'[d].held)
  BY DEF NoneLost
<1> QED
  BY <1>1, <1>2 DEF NoneLost

\* Urls: nothing to show but for the moving client and its answer.
LEMMA UrlsKept ==
  ASSUME UrlsKnown, tables'["rpc_urls"] = tables["rpc_urls"], NEW c \in Clients,
         \A d \in Clients \ {c} : call'[d] = call[d],
         UrlSeen(call'[c]), \A r \in returned' : r \in returned \/ UrlAnswered(r)
  PROVE  UrlsKnown'
<1>1. \A u : UrlIds(u)' = UrlIds(u)
  BY DEF UrlIds
<1>2. \A d \in Clients : UrlSeen(call'[d])
  BY DEF UrlsKnown
<1>3. \A r \in returned' : UrlAnswered(r)'
  BY <1>1 DEF UrlsKnown, UrlAnswered
<1>4. \A d \in Clients : UrlSeen(call[d])'
  BY <1>1, <1>2 DEF UrlSeen
<1> QED
  BY <1>3, <1>4 DEF UrlsKnown

\* Rows are appended, and stay where they are.
TablesGrow ==
  \A t \in Tables : \A i \in DOMAIN tables[t] :
    i \in DOMAIN tables'[t] /\ tables'[t][i] = tables[t][i]

\* A client that is alone: rows stay, so its earlier answers stay exact.
LEMMA AloneKept ==
  ASSUME DbTypeInv, AloneExact, setup' = setup, NEW c \in setup.clients, TablesGrow,
         Cardinality(setup.clients) = 1 =>
           InsertedLast(c)' /\ \A r \in returned' : r \in returned \/ OwnAnswered(r)'
  PROVE  AloneExact'
<1> SUFFICES ASSUME Cardinality(setup.clients) = 1
             PROVE  /\ \A d \in setup.clients : InsertedLast(d)'
                    /\ \A r \in returned' : OwnAnswered(r)'
  BY DEF AloneExact
<1>1. setup.clients = {c}
  <2>1. IsFiniteSet(setup.clients)
    BY RunDbAssumption DEF DbTypeInv
  <2> QED
    BY <2>1, FS_Singleton
<1>2. \A r \in returned : OwnAnswered(r) => OwnAnswered(r)'
  <2>1. "runs" \in Tables /\ "replay_reports" \in Tables
    BY DEF Tables
  <2> QED
    BY <2>1 DEF OwnAnswered, OwnRow, TablesGrow
<1> QED
  BY <1>1, <1>2 DEF AloneExact

\* A client in a method has the connections it needs there.
LEMMA Acting ==
  ASSUME DbTypeInv, CallsInPlace, NEW c \in Clients, call[c].at # "idle" \/ call[c].op # NoCall
  PROVE  /\ c \in setup.clients /\ call[c].op \in DbMethods /\ InPlace(call[c])
         /\ ~call[c].waiting => call[c].held # <<>> /\ Conn(c) \in Conns
<1>1. /\ InPlace(call[c]) /\ call[c].op # NoCall /\ call[c].op \in DbMethods
      /\ c \in setup.clients
  BY CallType DEF CallsInPlace, InPlace, NoCall
<1>2. call[c].held \in Seq(Conns)
  BY CallType
<1>3. ASSUME ~call[c].waiting PROVE Len(call[c].held) # 0
  BY <1>1, <1>3 DEF InPlace, Needs
<1>4. ASSUME ~call[c].waiting PROVE call[c].held # <<>>
  BY <1>3, <1>4
<1> QED
  BY <1>1, <1>2, <1>4, Pool DEF Conn

\* Leaving a method gives back its connections and forgets the call.
LEMMA Leaves ==
  ASSUME DbInv, NEW c \in Clients, Leave(c), setup' = setup, c \in setup.clients,
         rowid' \in [Conns -> Nat], tables' \in [Tables -> Seq(TableRow)], TablesGrow,
         tables'["rpc_urls"] = tables["rpc_urls"],
         returned' \subseteq [op : DbMethods, row : TableRow, id : Nat],
         \A r \in returned' : r \in returned \/ UrlAnswered(r),
         Cardinality(setup.clients) = 1 => \A r \in returned' : r \in returned \/ OwnAnswered(r)'
  PROVE  DbInv'
<1> USE DEF DbInv
<1>1. PICK u \in Urls : Becomes(c, NoCall, "idle", call[c].n, u, FALSE, <<>>, <<>>, 0)
  BY LeaveBecomes, Zenon
<1>2. /\ call'[c].op = NoCall /\ call'[c].at = "idle" /\ call'[c].held = <<>>
      /\ ~call'[c].waiting /\ call' \in [Clients -> Progress]
      /\ \A d \in Clients \ {c} : call'[d] = call[d]
  BY <1>1, Zenon DEF Becomes
<1>3. call[c].held \in Seq(Conns) /\ idle \in Seq(Conns)
  BY CallType DEF DbTypeInv
<1>4. /\ DropOrder(call[c].held) \in Seq(Conns)
      /\ Range(DropOrder(call[c].held)) = Range(call[c].held)
  BY <1>3, Pool, Zenon
<1>5. idle' \in Seq(Conns) /\ Range(idle') = Range(idle) \cup Range(call[c].held)
  <2>1. idle' = idle \o DropOrder(call[c].held)
    BY DEF Leave
  <2>2. 1 \in Conns
    BY RunDbAssumption DEF Conns, DbTypeInv
  <2> QED
    BY <1>3, <1>4, <2>1, <2>2, Joined
<1>6. writer' \in Conns \cup {NoConn}
  BY DEF Leave, DbTypeInv
<1>7. DbTypeInv'
  BY <1>2, <1>5, <1>6, TypeKept
<1>8. CallsInPlace'
  BY <1>2, PlacesKept DEF InPlace
<1>9. NoneLost'
  BY <1>2, <1>5, NoneLostKept
<1>10. UrlsKnown'
  BY <1>2, UrlsKept DEF UrlSeen
<1>11. AloneExact'
  BY <1>2, AloneKept DEF InsertedLast
<1> QED
  BY <1>7, <1>8, <1>9, <1>10, <1>11

-----------------------------------------------------------------------------
(* The steps *)

\* No connection, or a statement that fails: the method returns an error.
LEMMA ErrorKeeps ==
  ASSUME DbInv, NEW c \in Clients, PoolTimeout(c) \/ StatementFails(c)
  PROVE  DbInv'
<1>1. /\ Leave(c) /\ UNCHANGED <<setup, rowid, tables, returned>>
      /\ call[c].waiting \/ call[c].op # NoCall
  BY DEF PoolTimeout, StatementFails
<1>2. call[c].waiting => call[c].at # "idle"
  BY DEF DbInv, CallsInPlace, InPlace
<1>3. c \in setup.clients
  BY <1>1, <1>2, Acting DEF DbInv
<1>4. TablesGrow
  BY <1>1 DEF TablesGrow
<1> QED
  BY <1>1, <1>3, <1>4, Leaves, Zenon DEF DbInv, DbTypeInv

\* A method that returns Ok, with an id that is right.
LEMMA ReturnKeeps ==
  ASSUME DbInv, NEW c \in Clients, NEW id \in Nat, Return(c, id), call[c].op # NoCall,
         setup' = setup, rowid' \in [Conns -> Nat], tables' \in [Tables -> Seq(TableRow)],
         TablesGrow, tables'["rpc_urls"] = tables["rpc_urls"],
         call[c].op \in {"get_rpc_url_id", "insert_named_txs"} => UrlIds(call[c].url) = {id},
         NEW row, row = Row(c),
         Cardinality(setup.clients) = 1 =>
           /\ call[c].op = "insert_run" => OwnRow("runs", id, row)'
           /\ call[c].op = "insert_replay_report" => OwnRow("replay_reports", id, row)'
  PROVE  DbInv'
<1>1. c \in setup.clients /\ call[c].op \in DbMethods /\ Row(c) \in TableRow
  BY Acting, CallType DEF DbInv
<1>2. PICK r : r = [op |-> call[c].op, row |-> row, id |-> id]
  BY Zenon
<1>3. /\ r.op = call[c].op /\ r.row = row /\ r.id = id /\ row.url = call[c].url
      /\ r \in [op : DbMethods, row : TableRow, id : Nat]
  BY <1>1, <1>2 DEF Row
<1>4. Leave(c) /\ returned' = returned \cup {r}
  BY <1>2 DEF Return
<1>5. returned' \subseteq [op : DbMethods, row : TableRow, id : Nat]
  BY <1>3, <1>4 DEF DbInv, DbTypeInv
<1>6. UrlAnswered(r)
  BY <1>3 DEF UrlAnswered
<1>7. Cardinality(setup.clients) = 1 => OwnAnswered(r)'
  BY <1>3 DEF OwnAnswered
<1> QED
  BY <1>1, <1>4, <1>5, <1>6, <1>7, Leaves

\* A call begins, with a connection to wait for.
LEMMA CallKeeps ==
  ASSUME DbInv, NEW c \in Clients, Call(c)
  PROVE  DbInv'
<1> USE DEF DbInv
<1>0. UNCHANGED <<setup, idle, rowid, tables, writer, returned>> /\ c \in setup.clients
  BY DEF Call
<1>1. PICK op \in DbMethods, u \in Urls :
        Becomes(c, op, FirstStep(op), call[c].n + 1, u, TRUE, <<>>, <<>>, 0)
  BY CallBecomes, Zenon
<1>2. /\ call'[c].op = op /\ call'[c].at = FirstStep(op) /\ call'[c].held = <<>>
      /\ call'[c].waiting /\ call' \in [Clients -> Progress]
      /\ \A d \in Clients \ {c} : call'[d] = call[d]
  BY <1>1, Zenon DEF Becomes
<1>3. call[c].held = <<>>
  BY DEF Call, CallsInPlace, InPlace, NoCall
<1>4. InPlace(call'[c]) /\ call'[c].at \notin {"url_id", "rowid", "report"}
  <2>1. Needs(call'[c], {1}) /\ Needs(call'[c], {1, 2})
    BY <1>2 DEF Needs
  <2> QED
    BY <1>2, <2>1 DEF InPlace, FirstStep, DbMethods
<1>5. UrlSeen(call'[c])
  <2>1. call'[c].op = "insert_named_txs" => call'[c].at # "batch"
    BY <1>2 DEF FirstStep
  <2> QED
    BY <1>4, <2>1 DEF UrlSeen
<1>6. DbTypeInv'
  BY <1>0, <1>2, TypeKept DEF DbTypeInv
<1>7. CallsInPlace'
  BY <1>0, <1>2, <1>4, PlacesKept
<1>8. NoneLost'
  BY <1>0, <1>2, <1>3, NoneLostKept
<1>9. UrlsKnown'
  BY <1>0, <1>2, <1>5, UrlsKept
<1>10. AloneExact'
  BY <1>0, <1>4, AloneKept DEF InsertedLast, TablesGrow
<1> QED
  BY <1>6, <1>7, <1>8, <1>9, <1>10

\* The pool hands out the connection that was returned last.
LEMMA GetPoolKeeps ==
  ASSUME DbInv, NEW c \in Clients, GetPool(c)
  PROVE  DbInv'
<1> USE DEF DbInv
<1> DEFINE k == Top(idle)
           held == Append(call[c].held, k)
<1>0. /\ UNCHANGED <<setup, rowid, tables, writer, returned>> /\ idle' = Pop(idle)
      /\ call[c].waiting /\ idle # <<>>
  BY DEF GetPool
<1>1. idle \in Seq(Conns) /\ call[c].held \in Seq(Conns) /\ call[c].at \in Places
  BY CallType DEF DbTypeInv
<1>2. /\ idle' \in Seq(Conns) /\ k \in Conns /\ Range(idle) = Range(idle') \cup {k}
  BY <1>0, <1>1, Pool
<1>3. /\ held \in Seq(Conns) /\ Range(held) = Range(call[c].held) \cup {k}
      /\ Len(held) = Len(call[c].held) + 1 /\ Top(held) = k
  BY <1>1, <1>2, Joined
<1> HIDE DEF held
<1>4. Becomes(c, call[c].op, call[c].at, call[c].n, call[c].url, FALSE, held, call[c].batch,
              call[c].id)
  <2>1. At(c, call[c].at, FALSE, held) /\ FALSE \in Flag
    BY Zenon DEF GetPool, held, Flag
  <2> QED
    BY <1>1, <1>3, <2>1, AtBecomes, Zenon
<1>5. /\ call'[c].op = call[c].op /\ call'[c].at = call[c].at /\ call'[c].held = held
      /\ ~call'[c].waiting /\ call' \in [Clients -> Progress] /\ call'[c].n = call[c].n
      /\ call'[c].url = call[c].url /\ call'[c].id = call[c].id
      /\ \A d \in Clients \ {c} : call'[d] = call[d]
  BY <1>4, Zenon DEF Becomes
<1>6. c \in setup.clients /\ call[c].at # "report"
  BY <1>0, Acting DEF CallsInPlace, InPlace
<1>7. InPlace(call'[c])
  <2>1. \A n : Needs(call[c], n) => Needs(call'[c], n)
    BY <1>0, <1>3, <1>5 DEF Needs
  <2>2. InPlace(call[c])
    BY DEF CallsInPlace
  <2> QED
    BY <1>0, <1>5, <2>1, <2>2 DEF InPlace
<1>8. DbTypeInv'
  BY <1>0, <1>2, <1>5, TypeKept DEF DbTypeInv
<1>9. CallsInPlace'
  BY <1>0, <1>5, <1>6, <1>7, PlacesKept
<1>10. NoneLost'
  BY <1>0, <1>2, <1>3, <1>5, NoneLostKept
<1>11. UrlsKnown'
  BY <1>0, <1>5, UrlsKept, Zenon DEF UrlSeen, UrlsKnown
<1>12. AloneExact'
  <2>1. Row(c)' = Row(c) /\ Conn(c)' = k
    BY <1>3, <1>5 DEF Row, Conn
  <2>2. ASSUME Cardinality(setup.clients) = 1 PROVE InsertedLast(c)'
    <3>1. call[c].at = "rowid" => OwnRow("runs", rowid[k], Row(c))
      BY <1>0, <1>6, <2>2 DEF AloneExact, InsertedLast
    <3> QED
      BY <1>0, <1>5, <1>6, <2>1, <3>1, Zenon DEF InsertedLast, OwnRow
  <2> QED
    BY <1>0, <1>6, <2>2, AloneKept DEF TablesGrow
<1> QED
  BY <1>8, <1>9, <1>10, <1>11, <1>12

\* A single statement appends the row of the call to one table.
LEMMA Inserts ==
  ASSUME DbTypeInv, NEW c \in Clients, NEW table \in Tables, InsertInto(c, table),
         Conn(c) \in Conns, NEW row, row = Row(c), NEW id, id = Len(tables[table]) + 1
  PROVE  /\ tables' \in [Tables -> Seq(TableRow)] /\ rowid' \in [Conns -> Nat]
         /\ TablesGrow /\ \A t \in Tables \ {table} : tables'[t] = tables[t]
         /\ tables'[table] = Append(tables[table], row)
         /\ rowid'[Conn(c)] = id /\ id \in Nat /\ OwnRow(table, id, row)'
<1>1. tables[table] \in Seq(TableRow) /\ row \in TableRow /\ Len(tables[table]) \in Nat
  BY CallType DEF DbTypeInv
<1>2. tables' = [tables EXCEPT ![table] = Append(@, row)]
  BY DEF InsertInto
<1>3. tables'[table] = Append(tables[table], row) /\ \A t \in Tables \ {table} : tables'[t] = tables[t]
  BY <1>2 DEF DbTypeInv
<1>4. /\ Append(tables[table], row) \in Seq(TableRow)
      /\ Len(Append(tables[table], row)) = Len(tables[table]) + 1
      /\ \A i \in DOMAIN tables[table] : /\ i \in DOMAIN Append(tables[table], row)
                                         /\ Append(tables[table], row)[i] = tables[table][i]
      /\ Len(tables[table]) + 1 \in DOMAIN Append(tables[table], row)
      /\ Append(tables[table], row)[Len(tables[table]) + 1] = row
  BY <1>1
<1>5. tables' \in [Tables -> Seq(TableRow)]
  BY <1>2, <1>4 DEF DbTypeInv
<1>6. TablesGrow
  BY <1>3, <1>4 DEF TablesGrow
<1>7. rowid' \in [Conns -> Nat] /\ rowid'[Conn(c)] = Len(tables[table]) + 1
  BY <1>1 DEF InsertInto, DbTypeInv
<1> QED
  BY <1>1, <1>3, <1>4, <1>5, <1>6, <1>7 DEF OwnRow

\* The insert of insert_run puts its connection where the pool takes the next from.
LEMMA InsertRunRowKeeps ==
  ASSUME DbInv, NEW c \in Clients, InsertRunRow(c)
  PROVE  DbInv'
<1> USE DEF DbInv
<1>k. PICK k, row, id : k = Conn(c) /\ row = Row(c) /\ id = Len(tables["runs"]) + 1
  OBVIOUS
<1>0. /\ UNCHANGED <<setup, writer, returned>> /\ idle' = Append(idle, k)
      /\ call[c].at = "insert" /\ ~call[c].waiting /\ InsertInto(c, "runs") /\ "runs" \in Tables
  BY <1>k, Zenon DEF InsertRunRow, Ready, Tables
<1>2. /\ c \in setup.clients /\ InPlace(call[c]) /\ call[c].held # <<>> /\ k \in Conns
      /\ call[c].held \in Seq(Conns) /\ idle \in Seq(Conns)
  BY <1>0, <1>k, Acting, CallType DEF DbTypeInv
<1>3. call[c].op = "insert_run" /\ Len(call[c].held) = 1
  BY <1>0, <1>2 DEF InPlace, Needs
<1>4. Range(call[c].held) = {k}
  BY <1>2, <1>3, <1>k DEF Range, Conn, Top
<1>5. idle' \in Seq(Conns) /\ Range(idle') = Range(idle) \cup {k} /\ Top(idle') = k /\ idle' # <<>>
  BY <1>0, <1>2, Joined
<1>6. /\ tables' \in [Tables -> Seq(TableRow)] /\ rowid' \in [Conns -> Nat] /\ TablesGrow
      /\ tables'["rpc_urls"] = tables["rpc_urls"] /\ OwnRow("runs", id, row)'
      /\ rowid'[k] = id
  <2>1. "rpc_urls" \in Tables \ {"runs"}
    BY DEF Tables
  <2> QED
    BY <1>0, <1>2, <1>k, <2>1, Inserts
<1>7. Becomes(c, call[c].op, "rowid", call[c].n, call[c].url, TRUE, <<>>, call[c].batch,
              call[c].id)
  <2>1. TRUE \in Flag /\ "rowid" \in Places /\ <<>> \in Seq(Conns)
    BY DEF Flag, Places
  <2>2. At(c, "rowid", TRUE, <<>>)
    BY Zenon DEF InsertRunRow
  <2> QED
    BY <2>1, <2>2, AtBecomes, Zenon
<1>8. /\ call'[c].op = call[c].op /\ call'[c].at = "rowid" /\ call'[c].held = <<>>
      /\ call'[c].waiting /\ call' \in [Clients -> Progress] /\ call'[c].n = call[c].n
      /\ call'[c].url = call[c].url /\ \A d \in Clients \ {c} : call'[d] = call[d]
  BY <1>7, Zenon DEF Becomes
<1>9. InPlace(call'[c])
  BY <1>3, <1>8 DEF InPlace, Needs
<1>10. DbTypeInv'
  BY <1>0, <1>5, <1>6, <1>8, TypeKept, Zenon DEF DbTypeInv
<1>11. CallsInPlace'
  BY <1>0, <1>2, <1>8, <1>9, PlacesKept
<1>12. NoneLost'
  BY <1>0, <1>4, <1>5, <1>8, NoneLostKept
<1>13. UrlsKnown'
  BY <1>0, <1>6, <1>8, UrlsKept, Zenon DEF UrlSeen
<1>14. AloneExact'
  <2>1. Row(c)' = row
    BY <1>8, <1>k DEF Row
  <2>2. InsertedLast(c)'
    BY <1>5, <1>6, <1>8, <2>1 DEF InsertedLast
  <2> QED
    BY <1>0, <1>2, <1>6, <2>2, AloneKept
<1> QED
  BY <1>10, <1>11, <1>12, <1>13, <1>14

\* The row id that insert_run reads is its own if nobody else inserts.
LEMMA LastInsertRowidKeeps ==
  ASSUME DbInv, NEW c \in Clients, LastInsertRowid(c)
  PROVE  DbInv'
<1> USE DEF DbInv
<1>0. /\ UNCHANGED <<setup, rowid, tables>> /\ Return(c, rowid[Conn(c)])
      /\ call[c].at = "rowid" /\ ~call[c].waiting
  BY DEF LastInsertRowid, Ready
<1>1. c \in setup.clients /\ InPlace(call[c]) /\ Conn(c) \in Conns
  BY <1>0, Acting, Zenon
<1>2. call[c].op = "insert_run" /\ rowid[Conn(c)] \in Nat
  BY <1>0, <1>1 DEF InPlace, DbTypeInv
<1>3. Cardinality(setup.clients) = 1 => OwnRow("runs", rowid[Conn(c)], Row(c))
  BY <1>0, <1>1 DEF AloneExact, InsertedLast
<1>4. PICK row, id : row = Row(c) /\ id = rowid[Conn(c)]
  OBVIOUS
<1>5. Cardinality(setup.clients) = 1 => OwnRow("runs", id, row)'
  BY <1>0, <1>3, <1>4 DEF OwnRow
<1>6. TablesGrow
  BY <1>0 DEF TablesGrow
<1>7. call[c].op \notin {NoCall, "get_rpc_url_id", "insert_named_txs", "insert_replay_report"}
  BY <1>2 DEF NoCall
<1>8. /\ Return(c, id) /\ id \in Nat /\ rowid' \in [Conns -> Nat]
      /\ tables' \in [Tables -> Seq(TableRow)] /\ tables'["rpc_urls"] = tables["rpc_urls"]
  BY <1>0, <1>2, <1>4 DEF DbTypeInv
<1> QED
  BY <1>0, <1>4, <1>5, <1>6, <1>7, <1>8, ReturnKeeps

\* A url is inserted once, whoever comes first.
LEMMA UrlInserted ==
  ASSUME UrlsKnown, NEW c \in Clients, NEW id, NEW row, row.url = call[c].url,
         \/ UrlIds(call[c].url) # {} /\ tables'["rpc_urls"] = tables["rpc_urls"]
         \/ /\ UrlIds(call[c].url) = {} /\ tables'["rpc_urls"] = Append(tables["rpc_urls"], row)
            /\ tables["rpc_urls"] \in Seq(TableRow) /\ row \in TableRow
            /\ id = Len(tables["rpc_urls"]) + 1,
         \A d \in Clients \ {c} : call'[d] = call[d], returned' = returned,
         call'[c].at = "url_id", call'[c].url = call[c].url
  PROVE  UrlsKnown'
<1> DEFINE rows == tables["rpc_urls"]
           url == call[c].url
<1>1. CASE UrlIds(url) # {} /\ tables'["rpc_urls"] = rows
  BY <1>1, UrlsKept DEF UrlSeen
<1>2. CASE /\ UrlIds(url) = {} /\ tables'["rpc_urls"] = Append(rows, row)
           /\ rows \in Seq(TableRow) /\ row \in TableRow /\ id = Len(rows) + 1
  <2>1. /\ DOMAIN tables'["rpc_urls"] = DOMAIN rows \cup {id} /\ id \notin DOMAIN rows
        /\ tables'["rpc_urls"][id] = row
        /\ \A i \in DOMAIN rows : tables'["rpc_urls"][i] = rows[i]
    BY <1>2
  <2>2. \A i \in DOMAIN rows : rows[i].url # url
    BY <1>2 DEF UrlIds
  <2>3. \A u : u # url => UrlIds(u)' = UrlIds(u)
    BY <2>1 DEF UrlIds
  <2>4. \A i, j \in DOMAIN tables'["rpc_urls"] :
          tables'["rpc_urls"][i].url = tables'["rpc_urls"][j].url => i = j
    BY <2>1, <2>2 DEF UrlsKnown
  <2>5. ASSUME NEW d \in Clients PROVE UrlSeen(call[d])'
    <3>1. CASE d = c
      <4>1. call'[c].url = row.url /\ id \in UrlIds(row.url)'
        BY <2>1 DEF UrlIds
      <4> QED
        BY <3>1, <4>1 DEF UrlSeen
    <3>2. CASE d # c
      BY <1>2, <2>3, <3>2, Zenon DEF UrlSeen, UrlsKnown
    <3> QED
      BY <3>1, <3>2
  <2>6. \A r \in returned' : UrlAnswered(r)'
    BY <1>2, <2>3, Zenon DEF UrlAnswered, UrlsKnown
  <2> QED
    BY <2>4, <2>5, <2>6 DEF UrlsKnown
<1> QED
  BY <1>1, <1>2

\* INSERT OR IGNORE finds the url or adds its only row.
LEMMA InsertUrlKeeps ==
  ASSUME DbInv, NEW c \in Clients, InsertUrl(c)
  PROVE  DbInv'
<1> USE DEF DbInv
<1>k. PICK row, id : row = Row(c) /\ id = Len(tables["rpc_urls"]) + 1
  OBVIOUS
<1>0. /\ UNCHANGED <<setup, idle, writer, returned>> /\ "rpc_urls" \in Tables
      /\ call[c].at = "url" /\ ~call[c].waiting
  BY DEF InsertUrl, Ready, Tables
<1>1. /\ c \in setup.clients /\ InPlace(call[c]) /\ Conn(c) \in Conns
      /\ call[c].held \in Seq(Conns) /\ row \in TableRow /\ row.url = call[c].url
  BY <1>0, <1>k, Acting, CallType DEF Row
<1>2. call[c].op \in {"get_rpc_url_id", "insert_named_txs"} /\ Len(call[c].held) = 1
  BY <1>0, <1>1 DEF InPlace, Needs
<1>3. \/ UrlIds(call[c].url) # {} /\ UNCHANGED <<rowid, tables>>
      \/ UrlIds(call[c].url) = {} /\ InsertInto(c, "rpc_urls")
  BY DEF InsertUrl
<1>4. /\ tables' \in [Tables -> Seq(TableRow)] /\ rowid' \in [Conns -> Nat] /\ TablesGrow
      /\ \/ UrlIds(call[c].url) # {} /\ tables'["rpc_urls"] = tables["rpc_urls"]
         \/ UrlIds(call[c].url) = {} /\ tables'["rpc_urls"] = Append(tables["rpc_urls"], row)
  <2>1. CASE UrlIds(call[c].url) # {} /\ UNCHANGED <<rowid, tables>>
    BY <2>1, Zenon DEF TablesGrow, DbTypeInv
  <2>2. CASE UrlIds(call[c].url) = {} /\ InsertInto(c, "rpc_urls")
    BY <1>0, <1>1, <1>k, <2>2, Inserts
  <2> QED
    BY <1>3, <2>1, <2>2
<1>5. Becomes(c, call[c].op, "url_id", call[c].n, call[c].url, TRUE, call[c].held, call[c].batch,
              call[c].id)
  <2>1. TRUE \in Flag /\ "url_id" \in Places
    BY DEF Flag, Places
  <2>2. At(c, "url_id", TRUE, call[c].held)
    BY Zenon DEF InsertUrl
  <2> QED
    BY <1>1, <2>1, <2>2, AtBecomes, Zenon
<1>6. /\ call'[c].op = call[c].op /\ call'[c].at = "url_id" /\ call'[c].held = call[c].held
      /\ call'[c].waiting /\ call' \in [Clients -> Progress]
      /\ call'[c].url = call[c].url /\ \A d \in Clients \ {c} : call'[d] = call[d]
  BY <1>5, Zenon DEF Becomes
<1>7. InPlace(call'[c])
  <2>1. Needs(call'[c], {2})
    <3>1. Len(call'[c].held) = 1
      BY <1>2, <1>6
    <3>2. Len(call'[c].held) + 1 = 2
      BY <3>1
    <3> QED
      BY <1>6, <3>2 DEF Needs
  <2> QED
    BY <1>2, <1>6, <2>1 DEF InPlace
<1>8. DbTypeInv'
  BY <1>0, <1>4, <1>6, TypeKept DEF DbTypeInv
<1>9. CallsInPlace'
  BY <1>0, <1>1, <1>6, <1>7, PlacesKept
<1>10. NoneLost'
  BY <1>0, <1>6, NoneLostKept
<1>11. UrlsKnown'
  <2>1. tables["rpc_urls"] \in Seq(TableRow)
    BY <1>0, Zenon DEF DbTypeInv
  <2> QED
    BY <1>0, <1>1, <1>4, <1>6, <1>k, <2>1, UrlInserted, Zenon
<1>12. AloneExact'
  BY <1>0, <1>1, <1>4, <1>6, AloneKept DEF InsertedLast
<1> QED
  BY <1>8, <1>9, <1>10, <1>11, <1>12

\* The select finds the one row of the url.
LEMMA SelectUrlIdKeeps ==
  ASSUME DbInv, NEW c \in Clients, SelectUrlId(c)
  PROVE  DbInv'
<1> USE DEF DbInv
<1>k. PICK row, id : row = Row(c) /\ id = FirstId(call[c].url)
  OBVIOUS
<1>0. UNCHANGED <<setup, rowid, tables>> /\ call[c].at = "url_id" /\ ~call[c].waiting
  BY Zenon DEF SelectUrlId, Ready
<1>1. /\ c \in setup.clients /\ InPlace(call[c])
      /\ call[c].held \in Seq(Conns) /\ idle \in Seq(Conns)
  BY <1>0, Acting, CallType DEF DbTypeInv
<1>2. call[c].op \in {"get_rpc_url_id", "insert_named_txs"}
  BY <1>0, <1>1 DEF InPlace
<1>3. UrlIds(call[c].url) = {id} /\ id \in Nat
  <2>1. tables["rpc_urls"] \in Seq(TableRow)
    BY DEF DbTypeInv, Tables
  <2>2. PICK i \in UrlIds(call[c].url) : TRUE
    BY <1>0 DEF UrlsKnown, UrlSeen
  <2>3. UrlIds(call[c].url) = {i} /\ i \in Nat
    BY <2>1, <2>2 DEF UrlIds, UrlsKnown
  <2>4. FirstId(call[c].url) = i
    BY <2>3 DEF FirstId
  <2> QED
    BY <1>k, <2>3, <2>4
<1>4. TablesGrow /\ tables'["rpc_urls"] = tables["rpc_urls"]
  BY <1>0 DEF TablesGrow
<1>5. CASE call[c].op = "get_rpc_url_id"
  <2>1. Return(c, id)
    BY <1>5, <1>k DEF SelectUrlId
  <2>2. call[c].op \notin {NoCall, "insert_run", "insert_replay_report"}
    BY <1>5 DEF NoCall
  <2>3. rowid' \in [Conns -> Nat] /\ tables' \in [Tables -> Seq(TableRow)]
    BY <1>0 DEF DbTypeInv
  <2> QED
    BY <1>0, <1>3, <1>4, <1>k, <2>1, <2>2, <2>3, ReturnKeeps
<1>6. CASE call[c].op # "get_rpc_url_id"
  <2>1. /\ idle' = idle \o DropOrder(call[c].held) /\ UNCHANGED <<writer, returned>>
        /\ call' = [call EXCEPT ![c].at = "batch", ![c].waiting = TRUE, ![c].held = <<>>,
                                ![c].id = id]
    BY <1>6, <1>k, Zenon DEF SelectUrlId
  <2>2. Becomes(c, call[c].op, "batch", call[c].n, call[c].url, TRUE, <<>>, call[c].batch, id)
    BY <1>1, <1>3, <2>1, NextBecomes, Zenon
  <2>3. /\ call'[c].op = call[c].op /\ call'[c].at = "batch" /\ call'[c].held = <<>>
        /\ call'[c].waiting /\ call' \in [Clients -> Progress] /\ call'[c].id = id
        /\ call'[c].url = call[c].url /\ \A d \in Clients \ {c} : call'[d] = call[d]
    BY <2>2, Zenon DEF Becomes
  <2>4. idle' \in Seq(Conns) /\ Range(idle') = Range(idle) \cup Range(call[c].held)
    <3>1. /\ DropOrder(call[c].held) \in Seq(Conns)
          /\ Range(DropOrder(call[c].held)) = Range(call[c].held)
      BY <1>1, Pool, Zenon
    <3>2. 1 \in Conns
      BY RunDbAssumption DEF Conns, DbTypeInv
    <3> QED
      BY <1>1, <2>1, <3>1, <3>2, Joined
  <2>5. InPlace(call'[c])
    BY <1>2, <1>6, <2>3 DEF InPlace, Needs
  <2>6. DbTypeInv'
    BY <1>0, <2>1, <2>3, <2>4, TypeKept DEF DbTypeInv
  <2>7. CallsInPlace'
    BY <1>0, <1>1, <2>3, <2>5, PlacesKept
  <2>8. NoneLost'
    BY <1>0, <2>3, <2>4, NoneLostKept
  <2>9. UrlsKnown'
    BY <1>3, <1>4, <2>1, <2>3, UrlsKept DEF UrlSeen
  <2>10. AloneExact'
    BY <1>0, <1>1, <1>4, <2>1, <2>3, AloneKept DEF InsertedLast
  <2> QED
    BY <2>6, <2>7, <2>8, <2>9, <2>10
<1> QED
  BY <1>5, <1>6

\* A row of a batch is not in the table before the commit.
LEMMA InsertRowKeeps ==
  ASSUME DbInv, NEW c \in Clients, InsertRow(c)
  PROVE  DbInv'
<1> USE DEF DbInv
<1>k. PICK batch : batch = Append(call[c].batch, Row(c))
  BY Zenon
<1>0. /\ UNCHANGED <<setup, idle, tables, returned>> /\ call[c].at = "batch" /\ ~call[c].waiting
      /\ writer' = Conn(c)
  BY Zenon DEF InsertRow, Ready
<1>1. c \in setup.clients /\ InPlace(call[c]) /\ Conn(c) \in Conns /\ batch \in Seq(TableRow)
  BY <1>0, <1>k, Acting, CallType
<1>2. Becomes(c, call[c].op, call[c].at, call[c].n, call[c].url, call[c].waiting,
              call[c].held, batch, call[c].id)
  <2>1. call' = [call EXCEPT ![c].batch = batch]
    BY <1>k DEF InsertRow
  <2> QED
    BY <1>1, <2>1, BatchBecomes, Zenon
<1>3. /\ call'[c].op = call[c].op /\ call'[c].at = call[c].at /\ call'[c].held = call[c].held
      /\ call'[c].waiting = call[c].waiting /\ call' \in [Clients -> Progress]
      /\ call'[c].url = call[c].url /\ call'[c].id = call[c].id
      /\ \A d \in Clients \ {c} : call'[d] = call[d]
  BY <1>2, Zenon DEF Becomes
<1>4. rowid' \in [Conns -> Nat]
  <2>1. Len(tables[BatchTable(call[c].op)]) \in Nat /\ Len(call[c].batch) \in Nat
    <3>1. tables[BatchTable(call[c].op)] \in Seq(TableRow)
      BY DEF BatchTable, Tables, DbTypeInv
    <3> QED
      BY <3>1, CallType
  <2>2. \A m, n \in Nat : m + n + 1 \in Nat
    OBVIOUS
  <2>3. Len(tables[BatchTable(call[c].op)]) + Len(call[c].batch) + 1 \in Nat
    BY <2>1, <2>2, Zenon
  <2> QED
    BY <2>3, Zenon DEF InsertRow, DbTypeInv
<1>5. InPlace(call'[c])
  BY <1>1, <1>3 DEF InPlace, Needs
<1>6. DbTypeInv'
  BY <1>0, <1>1, <1>3, <1>4, TypeKept, Zenon DEF DbTypeInv
<1>7. CallsInPlace'
  BY <1>0, <1>1, <1>3, <1>5, PlacesKept
<1>8. NoneLost'
  BY <1>0, <1>3, NoneLostKept
<1>9. UrlsKnown'
  BY <1>0, <1>3, UrlsKept, Zenon DEF UrlSeen, UrlsKnown
<1>10. AloneExact'
  BY <1>0, <1>1, <1>3, AloneKept DEF InsertedLast, TablesGrow
<1> QED
  BY <1>6, <1>7, <1>8, <1>9, <1>10

\* The commit appends the batch to its table, and the method returns.
LEMMA CommitKeeps ==
  ASSUME DbInv, NEW c \in Clients, Commit(c)
  PROVE  DbInv'
<1> USE DEF DbInv
<1>k. PICK row, id, t : row = Row(c) /\ id = call[c].id /\ t = BatchTable(call[c].op)
  OBVIOUS
<1>0. /\ UNCHANGED <<setup, rowid>> /\ call[c].at = "batch" /\ ~call[c].waiting
      /\ Return(c, id) /\ tables' = [tables EXCEPT ![t] = @ \o call[c].batch]
  BY <1>k, Zenon DEF Commit, Ready
<1>1. /\ c \in setup.clients /\ InPlace(call[c]) /\ call[c].batch \in Seq(TableRow) /\ id \in Nat
  BY <1>0, <1>k, Acting, CallType
<1>2. /\ call[c].op \in {"insert_named_txs", "insert_run_txs", "insert_latency_metrics"}
      /\ call[c].op # NoCall
  BY <1>0, <1>1 DEF InPlace, NoCall
<1>3. t \in Tables /\ t # "rpc_urls" /\ "rpc_urls" \in Tables
  BY <1>k DEF BatchTable, Tables
<1>4. /\ tables[t] \in Seq(TableRow) /\ tables'[t] = tables[t] \o call[c].batch
      /\ \A u \in Tables \ {t} : tables'[u] = tables[u]
  BY <1>0, <1>3 DEF DbTypeInv
<1>5. /\ tables[t] \o call[c].batch \in Seq(TableRow)
      /\ \A i \in DOMAIN tables[t] : /\ i \in DOMAIN (tables[t] \o call[c].batch)
                                     /\ (tables[t] \o call[c].batch)[i] = tables[t][i]
  <2> DEFINE s == tables[t]
             b == call[c].batch
  <2>1. s \in Seq(TableRow) /\ b \in Seq(TableRow)
    BY <1>1, <1>4
  <2> HIDE DEF s, b
  <2>2. /\ s \o b \in Seq(TableRow)
        /\ \A i \in DOMAIN s : i \in DOMAIN (s \o b) /\ (s \o b)[i] = s[i]
    BY <2>1
  <2> QED
    BY <2>2, Zenon DEF s, b
<1>6. tables' \in [Tables -> Seq(TableRow)] /\ TablesGrow
  <2>1. tables' \in [Tables -> Seq(TableRow)]
    BY <1>0, <1>5, Zenon DEF DbTypeInv
  <2> QED
    BY <1>4, <1>5, <2>1, Zenon DEF TablesGrow
<1>7. call[c].op \in {"get_rpc_url_id", "insert_named_txs"} => UrlIds(call[c].url) = {id}
  BY <1>0, <1>2, <1>k DEF UrlsKnown, UrlSeen
<1>8. call[c].op \notin {"insert_run", "insert_replay_report"} /\ rowid' \in [Conns -> Nat]
  BY <1>0, <1>2 DEF DbTypeInv
<1> QED
  BY <1>0, <1>1, <1>2, <1>3, <1>4, <1>6, <1>7, <1>8, <1>k, ReturnKeeps, Zenon

\* insert_replay_report keeps its connection and asks for a second one.
LEMMA KeepConnKeeps ==
  ASSUME DbInv, NEW c \in Clients, KeepConn(c)
  PROVE  DbInv'
<1> USE DEF DbInv
<1>0. /\ UNCHANGED <<setup, idle, rowid, tables, writer, returned>>
      /\ call[c].at = "count" /\ ~call[c].waiting /\ Len(call[c].held) = 1
  BY Zenon DEF KeepConn, Ready
<1>1. c \in setup.clients /\ InPlace(call[c]) /\ call[c].held \in Seq(Conns)
  BY <1>0, Acting, CallType
<1>2. Becomes(c, call[c].op, "count", call[c].n, call[c].url, TRUE, call[c].held, call[c].batch,
              call[c].id)
  <2>1. TRUE \in Flag /\ "count" \in Places
    BY DEF Flag, Places
  <2>2. At(c, "count", TRUE, call[c].held)
    BY Zenon DEF KeepConn
  <2> QED
    BY <1>1, <2>1, <2>2, AtBecomes, Zenon
<1>3. /\ call'[c].op = call[c].op /\ call'[c].at = "count" /\ call'[c].held = call[c].held
      /\ call'[c].waiting /\ call' \in [Clients -> Progress]
      /\ call'[c].url = call[c].url /\ \A d \in Clients \ {c} : call'[d] = call[d]
  BY <1>2, Zenon DEF Becomes
<1>4. call[c].op = "insert_replay_report"
  BY <1>0, <1>1 DEF InPlace
<1>5. InPlace(call'[c])
  <2>1. Len(call'[c].held) = 1
    BY <1>0, <1>3
  <2>2. Len(call'[c].held) + 1 = 2
    BY <2>1
  <2>3. Needs(call'[c], {1, 2})
    BY <1>3, <2>2 DEF Needs
  <2> QED
    BY <1>3, <1>4, <2>3 DEF InPlace
<1>6. DbTypeInv'
  BY <1>0, <1>3, TypeKept DEF DbTypeInv
<1>7. CallsInPlace'
  BY <1>0, <1>1, <1>3, <1>5, PlacesKept
<1>8. NoneLost'
  BY <1>0, <1>3, NoneLostKept
<1>9. UrlsKnown'
  BY <1>0, <1>3, UrlsKept, Zenon DEF UrlSeen
<1>10. AloneExact'
  BY <1>0, <1>1, <1>3, AloneKept DEF InsertedLast, TablesGrow
<1> QED
  BY <1>6, <1>7, <1>8, <1>9, <1>10

\* The count of a client that is alone is exact until its insert.
LEMMA NumReplayReportsKeeps ==
  ASSUME DbInv, NEW c \in Clients, NumReplayReports(c)
  PROVE  DbInv'
<1> USE DEF DbInv
<1>k. PICK k, held, id : k = Conn(c) /\ held = Pop(call[c].held)
                         /\ id = Len(tables["replay_reports"]) + 1
  OBVIOUS
<1>0. /\ UNCHANGED <<setup, rowid, tables, writer, returned>> /\ idle' = Append(idle, k)
      /\ call[c].at = "count" /\ ~call[c].waiting /\ Len(call[c].held) = 2
  BY <1>k DEF NumReplayReports, Ready
<1>1. /\ c \in setup.clients /\ InPlace(call[c]) /\ call[c].held \in Seq(Conns)
      /\ call[c].held # <<>> /\ k \in Conns /\ idle \in Seq(Conns)
  BY <1>0, <1>k, Acting, CallType, Zenon DEF DbTypeInv
<1>2. held \in Seq(Conns) /\ Len(held) = 1 /\ Range(call[c].held) = Range(held) \cup {k}
  <2>1. /\ held \in Seq(Conns) /\ Len(held) = Len(call[c].held) - 1
        /\ Range(call[c].held) = Range(held) \cup {k}
    BY <1>1, <1>k, Pool DEF Conn
  <2> QED
    BY <1>0, <2>1
<1>3. id \in Nat
  <2>1. tables["replay_reports"] \in Seq(TableRow)
    BY DEF DbTypeInv, Tables
  <2> QED
    BY <1>k, <2>1
<1>4. Becomes(c, call[c].op, "report", call[c].n, call[c].url, call[c].waiting, held,
              call[c].batch, id)
  <2>1. call' = [call EXCEPT ![c].at = "report", ![c].held = held, ![c].id = id]
    BY <1>k DEF NumReplayReports, DbTypeInv, Progress
  <2> QED
    BY <1>2, <1>3, <2>1, NextBecomes, Zenon
<1>5. /\ call'[c].op = call[c].op /\ call'[c].at = "report" /\ call'[c].held = held
      /\ call'[c].waiting = call[c].waiting /\ call' \in [Clients -> Progress]
      /\ call'[c].id = id /\ \A d \in Clients \ {c} : call'[d] = call[d]
  BY <1>4, Zenon DEF Becomes
<1>6. InPlace(call'[c])
  <2>1. call[c].op = "insert_replay_report"
    BY <1>0, <1>1, Zenon DEF InPlace
  <2> QED
    BY <1>0, <1>2, <1>5, <2>1 DEF InPlace
<1>7. idle' \in Seq(Conns) /\ Range(idle') = Range(idle) \cup {k}
  BY <1>0, <1>1, Joined
<1>8. DbTypeInv'
  BY <1>0, <1>5, <1>7, TypeKept, Zenon DEF DbTypeInv
<1>9. CallsInPlace'
  BY <1>0, <1>1, <1>5, <1>6, PlacesKept
<1>10. NoneLost'
  BY <1>0, <1>2, <1>5, <1>7, NoneLostKept
<1>11. UrlsKnown'
  BY <1>0, <1>5, UrlsKept, Zenon DEF UrlSeen
<1>12. AloneExact'
  BY <1>0, <1>1, <1>5, <1>k, AloneKept DEF InsertedLast, TablesGrow
<1> QED
  BY <1>8, <1>9, <1>10, <1>11, <1>12

\* The report gets the id that was counted, if nobody else inserts.
LEMMA InsertReportKeeps ==
  ASSUME DbInv, NEW c \in Clients, InsertReport(c)
  PROVE  DbInv'
<1> USE DEF DbInv
<1>k. PICK row, id, new : /\ row = Row(c) /\ id = call[c].id
                          /\ new = Len(tables["replay_reports"]) + 1
  OBVIOUS
<1>0. /\ setup' = setup /\ Return(c, id) /\ InsertInto(c, "replay_reports")
      /\ call[c].at = "report" /\ ~call[c].waiting
  BY <1>k, Zenon DEF InsertReport, Ready
<1>1. c \in setup.clients /\ InPlace(call[c]) /\ Conn(c) \in Conns /\ id \in Nat
  BY <1>0, <1>k, Acting, CallType, Zenon
<1>2. "replay_reports" \in Tables /\ "rpc_urls" \in Tables \ {"replay_reports"}
  BY Zenon DEF Tables
<1>3. /\ tables' \in [Tables -> Seq(TableRow)] /\ rowid' \in [Conns -> Nat] /\ TablesGrow
      /\ tables'["rpc_urls"] = tables["rpc_urls"] /\ OwnRow("replay_reports", new, row)'
  BY <1>0, <1>1, <1>2, <1>k, Inserts
<1>4. call[c].op = "insert_replay_report"
  BY <1>0, <1>1 DEF InPlace
<1>5. call[c].op \notin {NoCall, "get_rpc_url_id", "insert_named_txs", "insert_run"}
  BY <1>4, Zenon DEF NoCall
<1>6. Cardinality(setup.clients) = 1 => OwnRow("replay_reports", id, row)'
  BY <1>0, <1>1, <1>3, <1>k, Zenon DEF AloneExact, InsertedLast
<1> QED
  BY <1>0, <1>1, <1>3, <1>5, <1>6, <1>k, ReturnKeeps, Zenon

-----------------------------------------------------------------------------
(* The invariant, and the theorems *)

\* A new process has an idle pool, empty tables and no call.
LEMMA InitDbInv == RunDbInit => DbInv
<1> SUFFICES ASSUME RunDbInit PROVE DbInv
  OBVIOUS
<1>1. PICK s \in Setups : RunDbStart(s)
  BY Zenon DEF RunDbInit
<1>2. /\ setup \in Setups /\ setup.size \in Nat \ {0} /\ setup.urls # {}
  BY <1>1, RunDbAssumption DEF RunDbStart
<1>3. PICK u \in Urls : Quiet = Resting(u, FALSE)
  <2>1. (CHOOSE v \in setup.urls : TRUE) \in Urls
    BY <1>2 DEF Urls
  <2> QED
    BY <2>1, Zenon DEF Quiet, Resting
<1>4. Free(Quiet, NoCall, "idle", 0, u, FALSE)
  <2>1. FALSE \in Flag
    BY DEF Flag
  <2> QED
    BY <1>3, <2>1, FreeFields, Zenon
<1>5. /\ Quiet \in Progress /\ Quiet.op = NoCall /\ Quiet.at = "idle" /\ ~Quiet.waiting
      /\ Quiet.held = <<>>
  BY <1>4, Zenon DEF Free
<1>6. \A c \in Clients : call[c] = Quiet
  BY <1>1 DEF RunDbStart
<1>7. idle = [i \in Conns |-> i] /\ idle \in Seq(Conns) /\ DOMAIN idle = Conns
  BY <1>1, <1>2 DEF RunDbStart, Conns
<1>8. DbTypeInv
  <2>1. call \in [Clients -> Progress]
    BY <1>1, <1>5 DEF RunDbStart
  <2>2. /\ rowid \in [Conns -> Nat] /\ tables \in [Tables -> Seq(TableRow)]
        /\ writer \in Conns \cup {NoConn} /\ returned = {}
    BY <1>1 DEF RunDbStart
  <2> QED
    BY <1>2, <1>7, <2>1, <2>2 DEF DbTypeInv
<1>9. CallsInPlace
  BY <1>5, <1>6 DEF CallsInPlace, InPlace
<1>10. NoneLost
  BY <1>7 DEF NoneLost, Range
<1>11. UrlsKnown
  <2>1. tables["rpc_urls"] = <<>> /\ returned = {}
    BY <1>1 DEF RunDbStart, Tables
  <2> QED
    BY <1>5, <1>6, <2>1 DEF UrlsKnown, UrlSeen
<1>12. AloneExact
  <2>1. setup.clients \subseteq Clients /\ returned = {}
    BY <1>1, <1>2 DEF Clients, RunDbStart
  <2> QED
    BY <1>5, <1>6, <2>1 DEF AloneExact, InsertedLast
<1> QED
  BY <1>8, <1>9, <1>10, <1>11, <1>12 DEF DbInv

\* Every step of a task, or of nobody, keeps the invariant.
LEMMA NextDbInv == DbInv /\ [RunDbNext]_dbVars => DbInv'
<1> SUFFICES ASSUME DbInv, [RunDbNext]_dbVars PROVE DbInv'
  OBVIOUS
<1>1. ASSUME NEW c \in Clients, Call(c) \/ DbStep(c) \/ StatementFails(c) PROVE DbInv'
  BY <1>1, CallKeeps, GetPoolKeeps, ErrorKeeps, InsertRunRowKeeps, LastInsertRowidKeeps,
     InsertUrlKeeps, SelectUrlIdKeeps, InsertRowKeeps, CommitKeeps, KeepConnKeeps,
     NumReplayReportsKeeps, InsertReportKeeps DEF DbStep
<1>2. CASE UNCHANGED dbVars
  <2>1. \A u : UrlIds(u)' = UrlIds(u)
    BY <1>2, Zenon DEF UrlIds, dbVars
  <2>2. DbTypeInv' /\ CallsInPlace' /\ NoneLost'
    BY <1>2, Zenon DEF dbVars, DbInv, DbTypeInv, Progress, Conns, CallsInPlace, NoneLost
  <2>3. UrlsKnown'
    BY <1>2, <2>1, Zenon DEF dbVars, DbInv, UrlsKnown, UrlSeen, UrlAnswered
  <2>4. AloneExact'
    BY <1>2, Zenon DEF dbVars, DbInv, AloneExact, InsertedLast, OwnAnswered, OwnRow, Row, Conn
  <2> QED
    BY <2>2, <2>3, <2>4 DEF DbInv
<1> QED
  BY <1>1, <1>2 DEF RunDbNext

\* The inductive invariant holds: db.rs never loses a connection and never has
\* two rows for a url.
THEOREM RunDbKeepsInv == RunDbSpec => []DbInv
BY InitDbInv, NextDbInv, PTL DEF RunDbSpec

\* get_rpc_url_id and insert_named_txs give every client the one id of a url and
\* chain; to a client that is alone insert_run and insert_replay_report return the
\* ids of their rows, whatever statements fail or time out.
THEOREM IdsAlwaysAgree == RunDbSpec => []IdsAgree
<1>1. DbInv => IdsAgree
  BY DEF DbInv, UrlsKnown, UrlAnswered, AloneExact, OwnAnswered, OwnRow, IdsAgree, RunIdIsOwn
<1> QED
  BY <1>1, RunDbKeepsInv, PTL

\* A client that waits has at most one connection.  If all that have one wait,
\* connections are mapped one to one to clients, of which there are fewer.
LEMMA SomeoneCanGoOn ==
  ASSUME DbInv, idle = <<>>, Cardinality(setup.clients) < setup.size
  PROVE  \E c \in Clients : call[c].held # <<>> /\ ~call[c].waiting
<1> SUFFICES ASSUME \A c \in Clients : call[c].held # <<>> => call[c].waiting PROVE FALSE
  BY Zenon
<1>1. IsFiniteSet(setup.clients) /\ setup.size \in Nat /\ setup.clients \subseteq Clients
  <2>1. setup \in Setups
    BY Zenon DEF DbInv, DbTypeInv
  <2> QED
    BY <2>1, RunDbAssumption, Zenon DEF Clients
<1>2. ASSUME NEW c \in Clients, call[c].held # <<>>
      PROVE  Len(call[c].held) = 1 /\ c \in setup.clients
  <2>1. call[c].held \in Seq(Conns) /\ call[c].waiting
    BY <1>2, CallType, Zenon DEF DbInv
  <2>2. InPlace(call[c]) /\ call[c].op # NoCall /\ c \in setup.clients
    BY <1>2, <2>1 DEF DbInv, CallsInPlace, InPlace, NoCall
  <2>3. Len(call[c].held) \in Nat /\ Len(call[c].held) # 0
    BY <1>2, <2>1
  <2>4. Len(call[c].held) + 1 \in {1, 2}
    BY <2>1, <2>2 DEF InPlace, Needs
  <2>5. \A n \in Nat : n # 0 /\ n + 1 \in {1, 2} => n = 1
    OBVIOUS
  <2> QED
    BY <2>2, <2>3, <2>4, <2>5, Zenon
<1>3. \A k \in Conns : \E c \in Clients : k \in Range(call[c].held)
  <2>1. Range(idle) = {}
    BY DEF Range
  <2> QED
    BY <2>1 DEF DbInv, NoneLost
<1> DEFINE holder == [k \in Conns |-> CHOOSE c \in Clients : k \in Range(call[c].held)]
<1>4. \A k \in Conns : holder[k] \in Clients /\ k \in Range(call[holder[k]].held)
  BY <1>3
<1> HIDE DEF holder
<1>5. \A k \in Conns : holder[k] \in setup.clients /\ k = call[holder[k]].held[1]
  <2>1. ASSUME NEW k \in Conns PROVE holder[k] \in setup.clients /\ k = call[holder[k]].held[1]
    <3> DEFINE h == call[holder[k]].held
    <3>1. h \in Seq(Conns) /\ k \in Range(h)
      BY <1>4, CallType DEF DbInv
    <3>2. h # <<>>
      BY <3>1 DEF Range
    <3>3. Len(h) = 1 /\ holder[k] \in setup.clients
      BY <1>2, <1>4, <3>2
    <3> HIDE DEF h
    <3>4. k = h[1]
      BY <3>1, <3>3 DEF Range
    <3> QED
      BY <3>3, <3>4, Zenon DEF h
  <2> QED
    BY <2>1
<1>6. holder \in Injection(Conns, setup.clients)
  <2>1. holder \in [Conns -> setup.clients]
    BY <1>5, Zenon DEF holder
  <2>2. \A j, k \in Conns : holder[j] = holder[k] => j = k
    BY <1>5
  <2> QED
    BY <2>1, <2>2 DEF Injection, IsInjective
<1>7. Cardinality(Conns) <= Cardinality(setup.clients)
  BY <1>1, <1>6, FS_Injection DEF ExistsInjection
<1>8. Cardinality(Conns) = setup.size
  BY <1>1, FS_Interval DEF Conns
<1>9. Cardinality(setup.clients) \in Nat
  BY <1>1, FS_CardinalityType
<1> QED
  BY <1>1, <1>7, <1>8, <1>9

\* With fewer clients than Pool::builder().max_size connections, an empty pool
\* leaves someone with all the connections its statement needs: the nested queries
\* of get_rpc_url_id and insert_replay_report do not wedge it.
THEOREM PoolIsNeverWedged == RunDbSpec => []PoolNeverWedged
<1>1. DbInv => PoolNeverWedged
  BY SomeoneCanGoOn DEF PoolNeverWedged
<1> QED
  BY <1>1, RunDbKeepsInv, PTL
=============================================================================
