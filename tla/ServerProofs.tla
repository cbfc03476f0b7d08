---------------------------- MODULE ServerProofs ----------------------------
(***************************************************************************)
(* Proofs about the session server: the streams of a session's log         *)
(* (LogRouter), and who holds a session's contender (SessionServer).       *)
(***************************************************************************)
EXTENDS LogRouter, SessionServer, FiniteSetTheorems, TLAPS

-----------------------------------------------------------------------------
(***************************************************************************)
(* No subscriber of a session's log misses a line unnoticed, for any       *)
(* number of sessions, threads and subscribers and any capacities.         *)
(***************************************************************************)

\* Boolean fields, named so that the provers take them for plain values.
Flag == BOOLEAN

Stream == [st : {"none", "active", "ended"}, id : Sessions \cup {None}, first : Nat, next : Nat,
           held : Nat, skipped : Nat, out : Seq(Nat), got : Seq(Nat), gone : Flag]

RouterTypeInv ==
    /\ open \subseteq Sessions /\ added \subseteq Sessions
    /\ reading \in [Threads -> Sessions \cup {None}]
    /\ sent \in [Sessions -> Nat]
    /\ sub \in [Subs -> Stream]

\* An active task has a session, and its receiver is at a line: lines are
\* numbered from 1.
AtLine(q) == q.st = "active" => q.id \in Sessions /\ q.next >= 1

\* What a stream took from the channel, the line in its hands included.
Taken(q) == q.got \o q.out \o (IF q.held = 0 THEN <<>> ELSE <<q.held>>)

\* A stream over WebSocket took the lines from first to next without a hole.
NoHole(q) ==
    /\ q.next = q.first + Len(Taken(q))
    /\ \A i \in DOMAIN Taken(q) : Taken(q)[i] = q.first + i - 1

\* A stream over SSE took increasing lines, all before next, and counted the
\* others.
Counted(q) ==
    q.st = "active" =>
        /\ \A i \in DOMAIN Taken(q) : Taken(q)[i] < q.next
        /\ \A i \in 1 .. Len(Taken(q)) - 1 : Taken(q)[i] < Taken(q)[i + 1]
        /\ q.next = q.first + Len(Taken(q)) + q.skipped

\* What the stream of subscriber x promises, by its transport.
Promise(x, q) == IF x \in Ws THEN NoHole(q) ELSE Counted(q)

StreamInv(x) == AtLine(sub[x]) /\ Promise(x, sub[x])

\* The inductive invariant.
RouterInv == RouterTypeInv /\ \A x \in Subs : StreamInv(x)

-----------------------------------------------------------------------------
(* What a stream took, across the steps that move lines along it *)

\* A line moves from the channel to the task's hands, from there to the
\* client's queue, and from the queue to the client.
LEMMA LineMoves ==
    ASSUME NEW g \in Seq(Nat), NEW o \in Seq(Nat), NEW n \in Nat
    PROVE  /\ (g \o o) \o <<n>> = Append((g \o o) \o <<>>, n)
           /\ (g \o Append(o, n)) \o <<>> = (g \o o) \o <<n>>
           /\ o # <<>> => Append(g, Head(o)) \o Tail(o) = g \o o
  <1>1. (g \o o) \o <<n>> = Append((g \o o) \o <<>>, n)
    OBVIOUS
  <1>2. (g \o Append(o, n)) \o <<>> = (g \o o) \o <<n>>
    OBVIOUS
  <1>3. ASSUME o # <<>> PROVE Append(g, Head(o)) \o Tail(o) = g \o o
    <2>1. Head(o) \in Nat /\ Tail(o) \in Seq(Nat) /\ o = <<Head(o)>> \o Tail(o)
      BY <1>3
    <2>2. \A h \in Nat : \A r \in Seq(Nat) : Append(g, h) \o r = g \o (<<h>> \o r)
      OBVIOUS
    <2> QED  BY <2>1, <2>2, Zenon
  <1> QED  BY <1>1, <1>2, <1>3, Zenon

\* The lines of a stream are numbers.
LEMMA TakenType ==
    ASSUME NEW q \in Stream
    PROVE  /\ q.got \in Seq(Nat) /\ q.out \in Seq(Nat) /\ q.held \in Nat /\ q.next \in Nat
           /\ Taken(q) \in Seq(Nat)
  BY DEF Stream, Taken

\* Recv appends the receiver's line.
LEMMA RecvTakes ==
    ASSUME NEW q \in Stream, NEW r \in Stream, q.held = 0, q.next # 0,
           r.held = q.next, r.got = q.got, r.out = q.out
    PROVE  Taken(r) = Append(Taken(q), q.next)
  <1>1. Taken(q) = (q.got \o q.out) \o <<>> /\ Taken(r) = (q.got \o q.out) \o <<q.next>>
    BY Zenon DEF Taken
  <1>2. q.got \in Seq(Nat) /\ q.out \in Seq(Nat) /\ q.next \in Nat
    BY TakenType
  <1>3. (q.got \o q.out) \o <<q.next>> = Append((q.got \o q.out) \o <<>>, q.next)
    BY <1>2, LineMoves, Zenon
  <1> QED  BY <1>1, <1>3, Zenon

\* A delivered line only moves to the client's queue.
LEMMA DeliverKeeps ==
    ASSUME NEW q \in Stream, NEW r \in Stream, q.held # 0,
           r.held = 0, r.got = q.got, r.out = Append(q.out, q.held)
    PROVE  Taken(r) = Taken(q)
  <1>1. /\ Taken(q) = (q.got \o q.out) \o <<q.held>>
        /\ Taken(r) = (q.got \o Append(q.out, q.held)) \o <<>>
    BY Zenon DEF Taken
  <1>2. q.got \in Seq(Nat) /\ q.out \in Seq(Nat) /\ q.held \in Nat
    BY TakenType
  <1> QED  BY <1>1, <1>2, LineMoves, Zenon

\* A line the client reads only moves out of its queue.
LEMMA ReadKeeps ==
    ASSUME NEW q \in Stream, NEW r \in Stream, q.out # <<>>,
           r.held = q.held, r.got = Append(q.got, Head(q.out)), r.out = Tail(q.out)
    PROVE  Taken(r) = Taken(q)
  <1>1. r.got \o r.out = q.got \o q.out
    <2>1. q.got \in Seq(Nat) /\ q.out \in Seq(Nat) /\ 0 \in Nat
      BY TakenType
    <2>2. Append(q.got, Head(q.out)) \o Tail(q.out) = q.got \o q.out
      BY <2>1, LineMoves, Zenon
    <2> QED  BY <2>2, Zenon
  <1> QED  BY <1>1, Zenon DEF Taken

\* A stream that takes nothing keeps both promises.
LEMMA SameTaken ==
    ASSUME NEW q \in Stream, NEW r \in Stream, Taken(r) = Taken(q),
           r.first = q.first, r.next = q.next, r.skipped = q.skipped,
           r.st = q.st \/ r.st = "ended"
    PROVE  (NoHole(q) => NoHole(r)) /\ (Counted(q) => Counted(r))
  BY DEF NoHole, Counted

\* A stream that takes the receiver's line keeps both promises.
LEMMA NextTaken ==
    ASSUME NEW q \in Stream, NEW r \in Stream, Taken(r) = Append(Taken(q), q.next),
           r.first = q.first, r.next = q.next + 1, r.skipped = q.skipped, r.st = q.st
    PROVE  (NoHole(q) => NoHole(r)) /\ (Counted(q) => Counted(r))
  <1>1. /\ Taken(q) \in Seq(Nat) /\ q.next \in Nat /\ q.first \in Nat /\ q.skipped \in Nat
        /\ Taken(r) \in Seq(Nat)
    BY TakenType DEF Stream
  <1>2. /\ Len(Taken(r)) = Len(Taken(q)) + 1
        /\ \A i \in 1 .. Len(Taken(q)) : Taken(r)[i] = Taken(q)[i]
        /\ Taken(r)[Len(Taken(q)) + 1] = q.next
    BY <1>1
  <1>3. DOMAIN Taken(q) = 1 .. Len(Taken(q)) /\ DOMAIN Taken(r) = 1 .. Len(Taken(q)) + 1
    BY <1>1, <1>2
  <1>4. \A i \in DOMAIN Taken(q) : Taken(q)[i] \in Nat
    BY <1>1
  <1>5. NoHole(q) => NoHole(r)
    BY <1>1, <1>2, <1>3 DEF NoHole
  <1>6. ASSUME Counted(q), q.st = "active"
        PROVE  Counted(r)
    <2>1. /\ \A i \in 1 .. Len(Taken(q)) : Taken(q)[i] < q.next
          /\ \A i \in 1 .. Len(Taken(q)) - 1 : Taken(q)[i] < Taken(q)[i + 1]
          /\ q.next = q.first + Len(Taken(q)) + q.skipped
      BY <1>3, <1>6 DEF Counted
    <2>2. Len(Taken(q)) \in Nat
      BY <1>1
    <2>3. \A i \in DOMAIN Taken(r) : Taken(r)[i] < r.next
      BY <1>1, <1>2, <1>3, <1>4, <2>1, <2>2
    <2>4. \A i \in 1 .. Len(Taken(r)) - 1 : Taken(r)[i] < Taken(r)[i + 1]
      BY <1>1, <1>2, <1>3, <1>4, <2>1, <2>2
    <2>5. r.next = r.first + Len(Taken(r)) + r.skipped
      <3>1. q.next \in Nat /\ q.first \in Nat /\ q.skipped \in Nat
        BY <1>1
      <3>2. q.next = q.first + Len(Taken(q)) + q.skipped /\ Len(Taken(r)) = Len(Taken(q)) + 1
        BY <1>2, <2>1
      <3> QED  BY <3>1, <3>2, <2>2
    <2> QED  BY <2>3, <2>4, <2>5 DEF Counted
  <1>7. q.st # "active" => Counted(r)
    BY DEF Counted
  <1> QED  BY <1>5, <1>6, <1>7

\* A stream over SSE that skips overwritten lines counts them.
LEMMA SkipCounts ==
    ASSUME NEW q \in Stream, NEW r \in Stream, NEW to \in Nat, q.next < to,
           Taken(r) = Taken(q), r.first = q.first, r.next = to,
           r.skipped = q.skipped + to - q.next, r.st = q.st
    PROVE  Counted(q) => Counted(r)
  <1> SUFFICES ASSUME Counted(q), q.st = "active" PROVE Counted(r)
    BY DEF Counted
  <1>1. /\ Taken(q) \in Seq(Nat) /\ q.next \in Nat /\ q.first \in Nat /\ q.skipped \in Nat
        /\ Len(Taken(q)) \in Nat
    BY TakenType DEF Stream
  <1>2. /\ \A i \in DOMAIN Taken(q) : Taken(q)[i] \in Nat /\ Taken(q)[i] < q.next
        /\ \A i \in 1 .. Len(Taken(q)) - 1 : Taken(q)[i] < Taken(q)[i + 1]
        /\ q.next = q.first + Len(Taken(q)) + q.skipped
    <2>1. /\ \A i \in DOMAIN Taken(q) : Taken(q)[i] < q.next
          /\ \A i \in 1 .. Len(Taken(q)) - 1 : Taken(q)[i] < Taken(q)[i + 1]
          /\ q.next = q.first + Len(Taken(q)) + q.skipped
      BY Zenon DEF Counted
    <2>2. \A z \in Seq(Nat) : \A i \in DOMAIN z : z[i] \in Nat
      OBVIOUS
    <2> QED  BY <1>1, <2>1, <2>2, Zenon
  <1>3. \A i \in DOMAIN Taken(r) : Taken(r)[i] < r.next
    BY <1>1, <1>2
  <1>4. r.next = r.first + Len(Taken(r)) + r.skipped
    BY <1>1, <1>2
  <1> QED  BY <1>2, <1>3, <1>4 DEF Counted

-----------------------------------------------------------------------------
(* The invariant holds initially and every step keeps it. *)

\* A stream keeps its type when a flag is written to it.
LEMMA GoneType ==
    ASSUME NEW f \in Flag
    PROVE  /\ [st |-> "none", id |-> None, first |-> 0, next |-> 0, held |-> 0,
                skipped |-> 0, out |-> <<>>, got |-> <<>>, gone |-> f] \in Stream
           /\ \A q \in Stream : [q EXCEPT !.gone = f] \in Stream
  <1>1. [st |-> "none", id |-> None, first |-> 0, next |-> 0, held |-> 0,
         skipped |-> 0, out |-> <<>>, got |-> <<>>, gone |-> f] \in Stream
    BY DEF Stream
  <1>2. ASSUME NEW q \in Stream PROVE [q EXCEPT !.gone = f] \in Stream
    BY Zenon DEF Stream
  <1> QED  BY <1>1, <1>2, Zenon

\* A stream keeps its type when its other fields are written.
LEMMA FieldType ==
    ASSUME NEW q \in Stream
    PROVE  /\ \A s \in Sessions, n \in Nat : [q EXCEPT !.st = "active", !.id = s, !.first = n, !.next = n] \in Stream
           /\ \A n, m \in Nat : [q EXCEPT !.held = n, !.next = m] \in Stream
           /\ \A n, m \in Nat : [q EXCEPT !.next = n, !.skipped = m] \in Stream
           /\ \A o \in Seq(Nat), n \in Nat : [q EXCEPT !.out = o, !.held = n] \in Stream
           /\ \A o, g \in Seq(Nat) : [q EXCEPT !.out = o, !.got = g] \in Stream
           /\ [q EXCEPT !.st = "ended"] \in Stream
  <1>1. \A s \in Sessions, n \in Nat : [q EXCEPT !.st = "active", !.id = s, !.first = n, !.next = n] \in Stream
    BY Zenon DEF Stream
  <1>2. \A n, m \in Nat : [q EXCEPT !.held = n, !.next = m] \in Stream
    BY Zenon DEF Stream
  <1>3. \A n, m \in Nat : [q EXCEPT !.next = n, !.skipped = m] \in Stream
    BY Zenon DEF Stream
  <1>4. \A o \in Seq(Nat), n \in Nat : [q EXCEPT !.out = o, !.held = n] \in Stream
    BY Zenon DEF Stream
  <1>5. \A o, g \in Seq(Nat) : [q EXCEPT !.out = o, !.got = g] \in Stream
    BY Zenon DEF Stream
  <1>6. [q EXCEPT !.st = "ended"] \in Stream
    BY Zenon DEF Stream
  <1> QED  BY <1>1, <1>2, <1>3, <1>4, <1>5, <1>6, Zenon

\* A stream nobody has opened has the type of a stream.
LEMMA IdleType == Idle \in Stream
  <1>1. FALSE \in Flag
    BY Zenon DEF Flag
  <1> QED  BY <1>1, GoneType, Zenon DEF Idle

\* Nobody has subscribed to a new server.
LEMMA InitRouterInv == RouterInit => RouterInv
  <1> SUFFICES ASSUME RouterInit PROVE RouterInv
    OBVIOUS
  <1>1. Idle \in Stream
    BY IdleType
  <1>2. RouterTypeInv
    BY <1>1 DEF RouterInit, RouterTypeInv
  <1>3. Taken(Idle) = <<>> /\ Idle.next = 0 /\ Idle.first = 0 /\ Idle.st = "none"
    BY DEF Taken, Idle
  <1>4. AtLine(Idle) /\ NoHole(Idle) /\ Counted(Idle)
    BY <1>3 DEF AtLine, NoHole, Counted
  <1> QED  BY <1>2, <1>4 DEF RouterInit, RouterInv, StreamInv, Promise

\* A step of one stream that keeps its promise keeps the invariant.
LEMMA OneStream ==
    ASSUME RouterInv, NEW x \in Subs, NEW r \in Stream, sub' = [sub EXCEPT ![x] = r],
           UNCHANGED <<open, added, reading, sent>>, AtLine(r), Promise(x, r)
    PROVE  RouterInv'
  <1>1. RouterTypeInv'
    BY DEF RouterInv, RouterTypeInv
  <1>2. ASSUME NEW y \in Subs PROVE StreamInv(y)'
    <2>1. sub'[x] = r /\ (y # x => sub'[y] = sub[y])
      BY DEF RouterInv, RouterTypeInv
    <2> QED  BY <2>1 DEF RouterInv, StreamInv
  <1> QED  BY <1>1, <1>2 DEF RouterInv

\* The registry and the threads that emit events leave every stream alone.
LEMMA OthersIInv ==
    ASSUME RouterInv,
           \/ \E s \in Sessions : AddSink(s) \/ RemoveSink(s)
           \/ \E t \in Threads : OnEventSend(t) \/ \E s \in Sessions : OnEvent(t, s)
           \/ UNCHANGED routerVars
    PROVE  RouterInv'
  <1>1. sub' = sub
    BY Zenon DEF AddSink, RemoveSink, OnEventSend, OnEvent, routerVars
  <1>2. RouterTypeInv'
    <2>1. ASSUME NEW s \in Sessions, AddSink(s) \/ RemoveSink(s) PROVE RouterTypeInv'
      BY <2>1 DEF RouterInv, RouterTypeInv, AddSink, RemoveSink
    <2>2. ASSUME NEW t \in Threads, OnEventSend(t) PROVE RouterTypeInv'
      BY <2>2 DEF RouterInv, RouterTypeInv, OnEventSend
    <2>3. ASSUME NEW t \in Threads, NEW s \in Sessions, OnEvent(t, s) PROVE RouterTypeInv'
      BY <2>3 DEF RouterInv, RouterTypeInv, OnEvent
    <2>4. ASSUME UNCHANGED routerVars PROVE RouterTypeInv'
      BY <2>4 DEF RouterInv, RouterTypeInv, routerVars
    <2> QED  BY <2>1, <2>2, <2>3, <2>4
  <1> QED  BY <1>1, <1>2 DEF RouterInv, StreamInv

\* The stream of an active task, its fields and its invariant.
LEMMA StreamOf ==
    ASSUME RouterInv, NEW x \in Subs
    PROVE  sub[x] \in Stream /\ AtLine(sub[x]) /\ Promise(x, sub[x])
  BY DEF RouterInv, RouterTypeInv, StreamInv

\* A new subscription begins after the last line sent.
LEMMA SubscribeIInv ==
    ASSUME RouterInv, NEW x \in Subs, NEW s \in Sessions, Subscribe(x, s)
    PROVE  RouterInv'
  <1> DEFINE r == [Idle EXCEPT !.st = "active", !.id = s, !.first = sent[s] + 1, !.next = sent[s] + 1]
  <1>1. sent[s] \in Nat
    BY DEF RouterInv, RouterTypeInv
  <1>2. r.st = "active" /\ r.id = s /\ r.first = sent[s] + 1 /\ r.next = sent[s] + 1
    BY DEF Idle
  <1>3. r.got = <<>> /\ r.out = <<>> /\ r.held = 0 /\ r.skipped = 0
    BY DEF Idle
  <1>4. sub' = [sub EXCEPT ![x] = r] /\ UNCHANGED <<open, added, reading, sent>>
    BY DEF Subscribe
  <1>7. r \in Stream
    <2>1. sent[s] + 1 \in Nat
      BY <1>1
    <2> QED  BY <2>1, IdleType, FieldType, Zenon
  <1> HIDE DEF r
  <1>5. Taken(r) = <<>>
    BY <1>3 DEF Taken
  <1>6. AtLine(r) /\ Promise(x, r)
    BY <1>1, <1>2, <1>3, <1>5 DEF AtLine, Promise, NoHole, Counted
  <1> QED  BY <1>4, <1>6, <1>7, OneStream, Zenon

\* The receiver takes the line it is at.
LEMMA RecvIInv ==
    ASSUME RouterInv, NEW x \in Subs, Recv(x)
    PROVE  RouterInv'
  <1> DEFINE q == sub[x]
             r == [q EXCEPT !.held = q.next, !.next = q.next + 1]
  <1>1. q \in Stream /\ AtLine(q) /\ Promise(x, q)
    BY StreamOf
  <1>2. r \in Stream
    <2>1. q.next \in Nat /\ q.next + 1 \in Nat
      BY <1>1, TakenType
    <2> QED  BY <1>1, <2>1, FieldType, Zenon
  <1>3. /\ r.held = q.next /\ r.next = q.next + 1
        /\ r.got = q.got /\ r.out = q.out /\ r.first = q.first
        /\ r.skipped = q.skipped /\ r.st = q.st /\ r.id = q.id
    BY <1>1 DEF Stream
  <1>4. sub' = [sub EXCEPT ![x] = r] /\ UNCHANGED <<open, added, reading, sent>>
    BY Zenon DEF Recv, RouterInv, RouterTypeInv, Stream
  <1>5. q.st = "active" /\ q.held = 0 /\ q.next \in Nat
    BY <1>1 DEF Recv, Waits, Stream
  <1> HIDE DEF q, r
  <1>6. q.next # 0 /\ AtLine(r)
    BY <1>1, <1>3, <1>5 DEF AtLine
  <1>7. Taken(r) = Append(Taken(q), q.next)
    BY <1>1, <1>2, <1>3, <1>5, <1>6, RecvTakes
  <1>8. Promise(x, r)
    BY <1>1, <1>2, <1>3, <1>7, NextTaken DEF Promise
  <1> QED  BY <1>2, <1>4, <1>6, <1>8, OneStream, Zenon

\* A task that ends takes nothing more.
LEMMA EndsIInv ==
    ASSUME RouterInv, NEW x \in Subs, sub' = [sub EXCEPT ![x].st = "ended"],
           UNCHANGED <<open, added, reading, sent>>
    PROVE  RouterInv'
  <1> DEFINE q == sub[x]
             r == [q EXCEPT !.st = "ended"]
  <1>1. q \in Stream /\ AtLine(q) /\ Promise(x, q)
    BY StreamOf
  <1>2. r \in Stream
    BY <1>1, FieldType, Zenon
  <1>3. /\ r.st = "ended" /\ r.held = q.held /\ r.next = q.next
        /\ r.got = q.got /\ r.out = q.out /\ r.first = q.first /\ r.skipped = q.skipped
    BY <1>1 DEF Stream
  <1>4. sub' = [sub EXCEPT ![x] = r] /\ UNCHANGED <<open, added, reading, sent>>
    BY DEF RouterInv, RouterTypeInv, Stream
  <1> HIDE DEF q, r
  <1>5. Taken(r) = Taken(q)
    BY <1>3, Zenon DEF Taken
  <1>6. AtLine(r) /\ Promise(x, r)
    BY <1>1, <1>2, <1>3, <1>5, SameTaken DEF AtLine, Promise
  <1> QED  BY <1>2, <1>4, <1>6, OneStream, Zenon

\* An SSE task that lags skips to the oldest line left.
LEMMA SkipIInv ==
    ASSUME RouterInv, NEW x \in Subs, x \notin Ws, RecvLagged(x)
    PROVE  RouterInv'
  <1> DEFINE q == sub[x]
             r == [q EXCEPT !.next = Oldest(q.id), !.skipped = q.skipped + Oldest(q.id) - q.next]
  <1>1. q \in Stream /\ AtLine(q) /\ Promise(x, q)
    BY StreamOf
  <1>0. /\ Oldest(q.id) \in Int /\ q.next \in Nat /\ q.next < Oldest(q.id) /\ q.skipped \in Nat
        /\ q.st = "active"
    BY <1>1, LogAssumption DEF RecvLagged, Lagged, Waits, Oldest, AtLine, Stream, RouterInv, RouterTypeInv
  <1>2. r \in Stream
    <2>1. Oldest(q.id) \in Nat /\ q.skipped + Oldest(q.id) - q.next \in Nat
      BY <1>0
    <2> QED  BY <1>1, <2>1, FieldType, Zenon
  <1>3. /\ r.next = Oldest(q.id) /\ r.skipped = q.skipped + Oldest(q.id) - q.next
        /\ r.held = q.held /\ r.got = q.got /\ r.out = q.out /\ r.first = q.first
        /\ r.st = q.st /\ r.id = q.id
    BY <1>1 DEF Stream
  <1>4. sub' = [sub EXCEPT ![x] = r] /\ UNCHANGED <<open, added, reading, sent>>
    BY Zenon DEF RecvLagged, Skip, RouterInv, RouterTypeInv, Stream
  <1> HIDE DEF q, r
  <1>5. Taken(r) = Taken(q)
    BY <1>3, Zenon DEF Taken
  <1>6. AtLine(r)
    BY <1>0, <1>1, <1>3 DEF AtLine
  <1>7. Promise(x, r)
    BY <1>0, <1>1, <1>2, <1>3, <1>5, SkipCounts DEF Promise
  <1> QED  BY <1>2, <1>4, <1>6, <1>7, OneStream, Zenon

\* A line sent to the client is still one the stream took.
LEMMA DeliverIInv ==
    ASSUME RouterInv, NEW x \in Subs, ~sub[x].gone, Deliver(x)
    PROVE  RouterInv'
  <1> DEFINE q == sub[x]
             r == [q EXCEPT !.out = Append(q.out, q.held), !.held = 0]
  <1>1. q \in Stream /\ AtLine(q) /\ Promise(x, q)
    BY StreamOf
  <1>2. r \in Stream
    <2>1. Append(q.out, q.held) \in Seq(Nat) /\ 0 \in Nat
      BY <1>1, TakenType
    <2> QED  BY <1>1, <2>1, FieldType, Zenon
  <1>3. /\ r.out = Append(q.out, q.held) /\ r.held = 0
        /\ r.next = q.next /\ r.got = q.got /\ r.first = q.first /\ r.skipped = q.skipped
        /\ r.st = q.st /\ r.id = q.id
    BY <1>1 DEF Stream
  <1>4. sub' = [sub EXCEPT ![x] = r] /\ UNCHANGED <<open, added, reading, sent>>
    BY DEF Deliver, RouterInv, RouterTypeInv, Stream
  <1>5. q.held # 0
    BY DEF Deliver
  <1> HIDE DEF q, r
  <1>6. Taken(r) = Taken(q)
    BY <1>1, <1>2, <1>3, <1>5, DeliverKeeps
  <1>7. AtLine(r) /\ Promise(x, r)
    BY <1>1, <1>2, <1>3, <1>6, SameTaken DEF AtLine, Promise
  <1> QED  BY <1>2, <1>4, <1>7, OneStream, Zenon

\* A line the client reads is still one the stream took.
LEMMA ClientReadsIInv ==
    ASSUME RouterInv, NEW x \in Subs, ClientReads(x)
    PROVE  RouterInv'
  <1> DEFINE q == sub[x]
             r == [q EXCEPT !.out = Tail(q.out), !.got = Append(q.got, Head(q.out))]
  <1>1. q \in Stream /\ AtLine(q) /\ Promise(x, q)
    BY StreamOf
  <1>2. r \in Stream
    <2>1. q.out # <<>> /\ q.out \in Seq(Nat) /\ q.got \in Seq(Nat)
      BY <1>1, TakenType DEF ClientReads
    <2>2. Tail(q.out) \in Seq(Nat) /\ Append(q.got, Head(q.out)) \in Seq(Nat)
      BY <2>1
    <2> QED  BY <1>1, <2>2, FieldType, Zenon
  <1>3. /\ r.out = Tail(q.out) /\ r.got = Append(q.got, Head(q.out))
        /\ r.next = q.next /\ r.held = q.held /\ r.first = q.first /\ r.skipped = q.skipped
        /\ r.st = q.st /\ r.id = q.id
    BY <1>1 DEF Stream
  <1>4. sub' = [sub EXCEPT ![x] = r] /\ UNCHANGED <<open, added, reading, sent>>
    BY Zenon DEF ClientReads, RouterInv, RouterTypeInv, Stream
  <1>5. q.out # <<>>
    BY DEF ClientReads
  <1> HIDE DEF q, r
  <1>6. Taken(r) = Taken(q)
    BY <1>1, <1>2, <1>3, <1>5, ReadKeeps
  <1>7. AtLine(r) /\ Promise(x, r)
    BY <1>1, <1>2, <1>3, <1>6, SameTaken DEF AtLine, Promise
  <1> QED  BY <1>2, <1>4, <1>7, OneStream, Zenon

\* A client that leaves takes nothing back.
LEMMA ClientLeavesIInv ==
    ASSUME RouterInv, NEW x \in Subs, ClientLeaves(x)
    PROVE  RouterInv'
  <1> DEFINE q == sub[x]
             r == [q EXCEPT !.gone = TRUE]
  <1>1. q \in Stream /\ AtLine(q) /\ Promise(x, q)
    BY StreamOf
  <1>2. r \in Stream
    <2>1. TRUE \in Flag
      BY Zenon DEF Flag
    <2> QED  BY <1>1, <2>1, GoneType, Zenon
  <1>3. /\ r.out = q.out /\ r.got = q.got
        /\ r.next = q.next /\ r.held = q.held /\ r.first = q.first /\ r.skipped = q.skipped
        /\ r.st = q.st /\ r.id = q.id
    BY <1>1 DEF Stream
  <1>4. sub' = [sub EXCEPT ![x] = r] /\ UNCHANGED <<open, added, reading, sent>>
    BY DEF ClientLeaves, RouterInv, RouterTypeInv, Stream
  <1> HIDE DEF q, r
  <1>5. Taken(r) = Taken(q)
    BY <1>3, Zenon DEF Taken
  <1>6. AtLine(r) /\ Promise(x, r)
    BY <1>1, <1>2, <1>3, <1>5, SameTaken DEF AtLine, Promise
  <1> QED  BY <1>2, <1>4, <1>6, OneStream, Zenon

\* A step of the log streams, or of nobody, keeps the invariant.
LEMMA NextRouterInv == RouterInv /\ [RouterNext]_routerVars => RouterInv'
  <1> SUFFICES ASSUME RouterInv, [RouterNext]_routerVars PROVE RouterInv'
    OBVIOUS
  <1>1. ASSUME NEW x \in Subs, NEW s \in Sessions, Subscribe(x, s) PROVE RouterInv'
    BY <1>1, SubscribeIInv
  <1>2. ASSUME NEW x \in Subs, Recv(x) PROVE RouterInv'
    BY <1>2, RecvIInv
  <1>3. ASSUME NEW x \in Subs, RecvLagged(x) PROVE RouterInv'
    <2>1. CASE x \in Ws
      BY <1>3, <2>1, EndsIInv, Zenon DEF RecvLagged
    <2>2. CASE x \notin Ws
      BY <1>3, <2>2, SkipIInv
    <2> QED  BY <2>1, <2>2
  <1>4. ASSUME NEW x \in Subs, Deliver(x) PROVE RouterInv'
    <2>1. CASE sub[x].gone
      BY <1>4, <2>1, EndsIInv, Zenon DEF Deliver
    <2>2. CASE ~sub[x].gone
      BY <1>4, <2>2, DeliverIInv
    <2> QED  BY <2>1, <2>2
  <1>5. ASSUME NEW x \in Subs, Cancelled(x) PROVE RouterInv'
    BY <1>5, EndsIInv, Zenon DEF Cancelled
  <1>6. ASSUME NEW x \in Subs, ClientReads(x) \/ ClientLeaves(x) PROVE RouterInv'
    BY <1>6, ClientReadsIInv, ClientLeavesIInv
  <1> QED  BY <1>1, <1>2, <1>3, <1>4, <1>5, <1>6, OthersIInv DEF RouterNext, Task

\* No line of a session's log is missed unnoticed: a WebSocket subscriber reads
\* consecutive lines, an SSE subscriber is told how many it did not get, for any
\* speeds of the threads that log, the task and the client.
THEOREM NoSilentGapHolds == RouterSpec => []NoSilentGap
  <1>1. ASSUME RouterInv PROVE NoSilentGap
    <2>1. ASSUME NEW x \in Subs PROVE Received(x) = Taken(sub[x])
      BY DEF Received, Taken
    <2>2. ASSUME NEW x \in Subs, x \in Ws PROVE NoHole(sub[x])
      BY <1>1, <2>2 DEF RouterInv, StreamInv, Promise
    <2>3. ASSUME NEW x \in Subs, x \notin Ws PROVE Counted(sub[x])
      BY <1>1, <2>3 DEF RouterInv, StreamInv, Promise
    <2> QED  BY <2>1, <2>2, <2>3 DEF NoSilentGap, NoHole, Counted
  <1>2. RouterInv => NoSilentGap
    BY <1>1
  <1> QED  BY <1>2, InitRouterInv, NextRouterInv, PTL DEF RouterSpec

-----------------------------------------------------------------------------
(***************************************************************************)
(* The session server keeps its contenders apart for any number of         *)
(* sessions and of concurrent spam requests.  The three theorems at the    *)
(* end rest on one inductive invariant, IInv.                              *)
(***************************************************************************)

Statuses == {"Initializing", "Ready", "Spamming", "Failed"}

Holding == {"taken", "running", "ok", "err"}

\* Every variable has its type, and a session of the cache was once added.
TypeInv ==
    /\ live \subseteq used /\ used \subseteq Ids
    /\ status \in [Ids -> Statuses]
    /\ contender \in [Ids -> {"None", "Uninit", "Init"}]
    /\ token \in [Ids -> Calls \cup {NoCall}]
    /\ initTask \in [Ids -> {"none", "spawned", "running"}]
    /\ fundTask \in [Ids -> {"none", "running"}]
    /\ pc \in [Calls -> {"idle", "checked", "rejected", "done"} \cup Holding]
    /\ target \in [Calls -> Ids]

\* A session that is not in the cache holds nothing.
Gone(s) == s \notin live => contender[s] = "None" /\ token[s] = NoCall

\* Before it is added nothing has happened to a session; until its
\* initialization ends no request got past the check.
Unborn(s) ==
    /\ s \notin used => initTask[s] = "none" /\ status[s] = "Initializing"
    /\ s \notin used \/ initTask[s] # "none" =>
          /\ fundTask[s] = "none"
          /\ \A c \in Calls : target[c] = s => pc[c] \in {"idle", "rejected"}

\* An uninitialized contender waits for the task that will take it, and an
\* initialized one has no such task any more.
Placed(s) ==
    /\ contender[s] = "Uninit" => initTask[s] = "spawned"
    /\ initTask[s] # "none" => contender[s] # "Init" /\ status[s] = "Initializing"

\* At most one request holds the contender, and then it is not in the cache.
Alone(s) ==
    \A c \in Calls : Spams(c, s) =>
        contender[s] = "None" /\ \A d \in Calls : Spams(d, s) => d = c

ReadyHas(s) == s \in live /\ status[s] = "Ready" => contender[s] = "Init"

\* A serial client has one request past the check, and none passes it while
\* another spams: the token is always that of the spamming request.
InTurn(s) ==
    \A c \in Calls : target[c] = s =>
        /\ pc[c] = "checked" => \A d \in Calls : target[d] = s =>
              pc[d] \notin Holding /\ (pc[d] = "checked" => d = c)
        /\ s \in live /\ pc[c] \in Holding => token[s] = c

SessionInv(s) == Gone(s) /\ Unborn(s) /\ Placed(s) /\ Alone(s) /\ ReadyHas(s)

IInv ==
    /\ TypeInv
    /\ \A s \in Ids : SessionInv(s) /\ (serial => InTurn(s))

-----------------------------------------------------------------------------
(* The invariant holds initially and every step keeps it. *)

\* A new server has no session, and no request has been sent.
LEMMA InitIInv == Init => IInv
  BY SessionAssumption DEF Init, Start, IInv, TypeInv, Statuses, SessionInv, Gone, Unborn, Placed,
     Alone, ReadyHas, InTurn, Spams

\* The invariant does not speak of cancellations, of run_funding_loop or of its
\* signals: a step that changes nothing else keeps it.
LEMMA RestIInv ==
    ASSUME IInv, UNCHANGED <<sessVars, pc, fixed, taskVars>>
    PROVE  IInv'
  <1>1. /\ live' = live /\ used' = used /\ status' = status /\ contender' = contender
        /\ token' = token /\ pc' = pc /\ target' = target /\ serial' = serial
        /\ initTask' = initTask /\ fundTask' = fundTask
    BY Zenon DEF sessVars, fixed, taskVars
  <1>2. TypeInv'
    BY <1>1, Zenon DEF IInv, TypeInv
  <1>3. ASSUME NEW t \in Ids PROVE SessionInv(t)' /\ (serial => InTurn(t)')
    <2>1. SessionInv(t) /\ (serial => InTurn(t))
      BY Zenon DEF IInv
    <2>2. Gone(t)' /\ Unborn(t)'
      BY <1>1, <2>1 DEF SessionInv, Gone, Unborn
    <2>3. Placed(t)' /\ ReadyHas(t)'
      BY <1>1, <2>1 DEF SessionInv, Placed, ReadyHas
    <2>4. Alone(t)'
      BY <1>1, <2>1, Zenon DEF SessionInv, Alone, Spams
    <2>5. serial => InTurn(t)'
      BY <1>1, <2>1 DEF InTurn
    <2> QED  BY <2>2, <2>3, <2>4, <2>5, Zenon DEF SessionInv
  <1> QED  BY <1>1, <1>2, <1>3, Zenon DEF IInv

\* A session that is added (add_session) keeps the invariant.
LEMMA AddSessionIInv ==
    ASSUME IInv, NEW s \in Ids, AddSession(s)
    PROVE  IInv'
  <1>1. TypeInv'
    BY Zenon DEF IInv, TypeInv, AddSession, callVars, fixed
  <1>2. ASSUME NEW t \in Ids PROVE SessionInv(t)'
    <2>1. TypeInv /\ SessionInv(t)
      BY Zenon DEF IInv
    <2>2. Gone(t)'
      BY <2>1 DEF AddSession, callVars, fixed, TypeInv, SessionInv, Gone
    <2>3. Unborn(t)'
      BY <2>1 DEF AddSession, callVars, fixed, TypeInv, SessionInv, Unborn
    <2>4. Placed(t)' /\ ReadyHas(t)'
      BY <2>1 DEF AddSession, callVars, fixed, TypeInv, SessionInv, Unborn, Placed, ReadyHas
    <2>5. Alone(t)'
      BY <2>1 DEF AddSession, callVars, fixed, TypeInv, SessionInv, Unborn, Alone, Spams, Holding
    <2> QED  BY <2>2, <2>3, <2>4, <2>5, Zenon DEF SessionInv
  <1>3. ASSUME NEW t \in Ids, serial, InTurn(t) PROVE InTurn(t)'
    BY <1>1, <1>3, SessionAssumption DEF IInv, AddSession, callVars, fixed, SessionInv, Unborn,
       InTurn, Holding
  <1>4. serial' = serial
    BY DEF AddSession, callVars, fixed
  <1> QED  BY <1>1, <1>2, <1>3, <1>4, Zenon DEF IInv

\* The initializing task's take_uninitialized keeps the invariant.
LEMMA InitTakeIInv ==
    ASSUME IInv, NEW s \in Ids, InitTake(s)
    PROVE  IInv'
  <1>1. TypeInv'
    BY Zenon DEF IInv, TypeInv, InitTake, callVars, fixed
  <1>2. ASSUME NEW t \in Ids PROVE SessionInv(t)'
    <2>1. TypeInv /\ SessionInv(t)
      BY Zenon DEF IInv
    <2>2. Gone(t)'
      BY <2>1 DEF InitTake, callVars, fixed, TypeInv, SessionInv, Gone
    <2>3. Unborn(t)'
      BY <2>1 DEF InitTake, callVars, fixed, TypeInv, SessionInv, Unborn
    <2>4. Placed(t)' /\ ReadyHas(t)'
      BY <2>1 DEF InitTake, callVars, fixed, TypeInv, SessionInv, Unborn, Placed, ReadyHas
    <2>5. Alone(t)'
      BY <2>1 DEF InitTake, callVars, fixed, TypeInv, SessionInv, Alone, Spams
    <2> QED  BY <2>2, <2>3, <2>4, <2>5, Zenon DEF SessionInv
  <1>3. ASSUME NEW t \in Ids, serial, InTurn(t) PROVE InTurn(t)'
    BY <1>1, <1>3, SessionAssumption DEF InitTake, callVars, fixed, InTurn
  <1>4. serial' = serial
    BY DEF InitTake, callVars, fixed
  <1> QED  BY <1>1, <1>2, <1>3, <1>4, Zenon DEF IInv

\* The end of initialization keeps the invariant.
LEMMA InitDoneIInv ==
    ASSUME IInv, NEW s \in Ids, InitDone(s)
    PROVE  IInv'
  <1>1. TypeInv'
    BY Zenon DEF IInv, TypeInv, Statuses, InitDone, PutInitialized, SetStatus, callVars, fixed
  <1>2. ASSUME NEW t \in Ids PROVE SessionInv(t)'
    <2>1. TypeInv /\ SessionInv(t)
      BY Zenon DEF IInv
    <2>2. Gone(t)'
      BY <2>1 DEF InitDone, PutInitialized, SetStatus, callVars, fixed, TypeInv, SessionInv, Gone
    <2>3. Unborn(t)'
      BY <2>1 DEF InitDone, PutInitialized, SetStatus, callVars, fixed, TypeInv, SessionInv,
         Unborn
    <2>4. Placed(t)' /\ ReadyHas(t)'
      BY <2>1 DEF InitDone, PutInitialized, SetStatus, callVars, fixed, TypeInv, SessionInv,
         Unborn, Placed, ReadyHas
    <2>5. Alone(t)'
      BY <2>1 DEF InitDone, PutInitialized, SetStatus, callVars, fixed, TypeInv, SessionInv,
         Unborn, Alone, Spams, Holding
    <2> QED  BY <2>2, <2>3, <2>4, <2>5, Zenon DEF SessionInv
  <1>3. ASSUME NEW t \in Ids, serial, InTurn(t) PROVE InTurn(t)'
    BY <1>1, <1>3, SessionAssumption DEF InitDone, callVars, fixed, InTurn
  <1>4. serial' = serial
    BY DEF InitDone, callVars, fixed
  <1> QED  BY <1>1, <1>2, <1>3, <1>4, Zenon DEF IInv

\* Stop keeps the invariant.
LEMMA StopIInv ==
    ASSUME IInv, NEW s \in Ids, Stop(s)
    PROVE  IInv'
  BY RestIInv, Zenon DEF Stop

\* A session that is removed (remove_session) keeps the invariant.
LEMMA RemoveSessionIInv ==
    ASSUME IInv, NEW s \in Ids, RemoveSession(s)
    PROVE  IInv'
  <1>1. TypeInv'
    BY Zenon DEF IInv, TypeInv, RemoveSession, taskVars, fixed
  <1>2. ASSUME NEW t \in Ids PROVE SessionInv(t)'
    <2>1. TypeInv /\ SessionInv(t)
      BY Zenon DEF IInv
    <2>2. Gone(t)'
      BY <2>1 DEF RemoveSession, taskVars, fixed, TypeInv, SessionInv, Gone
    <2>3. Unborn(t)'
      BY <2>1 DEF RemoveSession, taskVars, fixed, TypeInv, SessionInv, Unborn
    <2>4. Placed(t)' /\ ReadyHas(t)'
      BY <2>1 DEF RemoveSession, taskVars, fixed, TypeInv, SessionInv, Unborn, Placed, ReadyHas
    <2>5. Alone(t)'
      BY <2>1 DEF RemoveSession, taskVars, fixed, TypeInv, SessionInv, Alone, Spams
    <2> QED  BY <2>2, <2>3, <2>4, <2>5, Zenon DEF SessionInv
  <1>3. ASSUME NEW t \in Ids, serial, InTurn(t) PROVE InTurn(t)'
    BY <1>1, <1>3, SessionAssumption DEF RemoveSession, fixed, InTurn
  <1>4. serial' = serial
    BY DEF RemoveSession, fixed
  <1> QED  BY <1>1, <1>2, <1>3, <1>4, Zenon DEF IInv

\* A task of fund_accounts keeps the invariant.
LEMMA FundAccountsIInv ==
    ASSUME IInv, NEW s \in Ids, FundAccounts(s)
    PROVE  IInv'
  <1>1. TypeInv'
    BY Zenon DEF IInv, TypeInv, FundAccounts, sessVars, callVars, fixed
  <1>2. ASSUME NEW t \in Ids PROVE SessionInv(t)'
    <2>1. TypeInv /\ SessionInv(t)
      BY Zenon DEF IInv
    <2>2. Gone(t)'
      BY <2>1 DEF FundAccounts, sessVars, callVars, fixed, TypeInv, SessionInv, Gone
    <2>3. Unborn(t)'
      BY <2>1 DEF FundAccounts, sessVars, callVars, fixed, TypeInv, SessionInv, Unborn, Placed
    <2>4. Placed(t)' /\ ReadyHas(t)'
      BY <2>1 DEF FundAccounts, sessVars, callVars, fixed, TypeInv, SessionInv, Unborn, Placed,
         ReadyHas
    <2>5. Alone(t)'
      BY <2>1 DEF FundAccounts, sessVars, callVars, fixed, TypeInv, SessionInv, Alone, Spams
    <2> QED  BY <2>2, <2>3, <2>4, <2>5, Zenon DEF SessionInv
  <1>3. ASSUME NEW t \in Ids, serial, InTurn(t) PROVE InTurn(t)'
    BY <1>1, <1>3, SessionAssumption DEF FundAccounts, sessVars, callVars, fixed, InTurn
  <1>4. serial' = serial
    BY DEF FundAccounts, callVars, fixed
  <1> QED  BY <1>1, <1>2, <1>3, <1>4, Zenon DEF IInv

\* The end of a funding task keeps the invariant.
LEMMA FundDoneIInv ==
    ASSUME IInv, NEW s \in Ids, FundDone(s)
    PROVE  IInv'
  <1>1. TypeInv'
    BY Zenon DEF IInv, TypeInv, Statuses, FundDone, SetStatus, callVars, fixed
  <1>2. ASSUME NEW t \in Ids PROVE SessionInv(t)'
    <2>1. TypeInv /\ SessionInv(t)
      BY Zenon DEF IInv
    <2>2. Gone(t)'
      BY <2>1 DEF FundDone, SetStatus, callVars, fixed, TypeInv, SessionInv, Gone
    <2>3. Unborn(t)'
      BY <2>1 DEF FundDone, SetStatus, callVars, fixed, TypeInv, SessionInv, Unborn
    <2>4. Placed(t)' /\ ReadyHas(t)'
      BY <2>1 DEF FundDone, SetStatus, callVars, fixed, TypeInv, SessionInv, Unborn, Placed,
         ReadyHas
    <2>5. Alone(t)'
      BY <2>1 DEF FundDone, SetStatus, callVars, fixed, TypeInv, SessionInv, Alone, Spams
    <2> QED  BY <2>2, <2>3, <2>4, <2>5, Zenon DEF SessionInv
  <1>3. ASSUME NEW t \in Ids, serial, InTurn(t) PROVE InTurn(t)'
    BY <1>1, <1>3, SessionAssumption DEF FundDone, callVars, fixed, InTurn
  <1>4. serial' = serial
    BY DEF FundDone, callVars, fixed
  <1> QED  BY <1>1, <1>2, <1>3, <1>4, Zenon DEF IInv

\* A request at error_if_session_not_ready keeps the invariant.
LEMMA SpamCheckIInv ==
    ASSUME IInv, NEW c \in Calls, SpamCheck(c)
    PROVE  IInv'
  <1>1. TypeInv'
    BY Zenon DEF IInv, TypeInv, SpamCheck, sessVars, taskVars, fixed
  <1>2. ASSUME NEW t \in Ids PROVE SessionInv(t)'
    <2>1. TypeInv /\ SessionInv(t)
      BY Zenon DEF IInv
    <2>2. Gone(t)'
      BY <2>1 DEF SpamCheck, sessVars, taskVars, fixed, TypeInv, SessionInv, Gone
    <2>3. Unborn(t)'
      BY <2>1 DEF SpamCheck, sessVars, taskVars, fixed, TypeInv, SessionInv, Unborn, Placed
    <2>4. Placed(t)' /\ ReadyHas(t)'
      BY <2>1 DEF SpamCheck, sessVars, taskVars, fixed, TypeInv, SessionInv, Unborn, Placed,
         ReadyHas
    <2>5. Alone(t)'
      <3>1. contender' = contender /\ target' = target
        BY Zenon DEF SpamCheck, sessVars, fixed
      <3>2. \A d \in Calls : pc'[d] \in Holding => pc[d] \in Holding
        <4>1. \A d \in Calls : d # c => pc'[d] = pc[d]
          BY <2>1 DEF SpamCheck, TypeInv
        <4>2. pc'[c] \in {"checked", "rejected"}
          BY <2>1 DEF SpamCheck, TypeInv
        <4>3. "checked" \notin Holding /\ "rejected" \notin Holding
          BY DEF Holding
        <4> QED  BY <4>1, <4>2, <4>3, Zenon
      <3> QED  BY <2>1, <3>1, <3>2, Zenon DEF SessionInv, Alone, Spams, Holding
    <2> QED  BY <2>2, <2>3, <2>4, <2>5, Zenon DEF SessionInv
  <1>3. ASSUME NEW t \in Ids, serial, InTurn(t) PROVE InTurn(t)'
    BY <1>1, <1>3, SessionAssumption DEF IInv, SpamCheck, sessVars, fixed, SessionInv, Alone,
       ReadyHas, InTurn, Spams, Holding
  <1>4. serial' = serial
    BY DEF SpamCheck, fixed
  <1> QED  BY <1>1, <1>2, <1>3, <1>4, Zenon DEF IInv

\* Taking the contender for spam keeps the invariant.
LEMMA SpamTakeIInv ==
    ASSUME IInv, NEW c \in Calls, SpamTake(c)
    PROVE  IInv'
  <1>1. TypeInv'
    BY Zenon DEF IInv, TypeInv, Statuses, Holding, SpamTake, SetStatus, SetToken, TakeInitialized,
       taskVars, fixed
  <1>2. ASSUME NEW t \in Ids PROVE SessionInv(t)'
    <2>1. TypeInv /\ SessionInv(t)
      BY Zenon DEF IInv
    <2>2. Gone(t)'
      BY <2>1 DEF SpamTake, SetStatus, SetToken, TakeInitialized, taskVars, fixed, TypeInv,
         SessionInv, Gone
    <2>3. Unborn(t)'
      BY <2>1 DEF SpamTake, SetStatus, SetToken, TakeInitialized, taskVars, fixed, TypeInv,
         SessionInv, Unborn
    <2>4. Placed(t)' /\ ReadyHas(t)'
      BY <2>1 DEF SpamTake, SetStatus, SetToken, TakeInitialized, taskVars, fixed, TypeInv,
         SessionInv, Unborn, Placed, ReadyHas
    <2>5. Alone(t)'
      BY <2>1 DEF SpamTake, SetStatus, SetToken, TakeInitialized, taskVars, fixed, TypeInv,
         SessionInv, Alone, Spams
    <2> QED  BY <2>2, <2>3, <2>4, <2>5, Zenon DEF SessionInv
  <1>3. ASSUME NEW t \in Ids, serial, InTurn(t) PROVE InTurn(t)'
    <2>1. /\ live' = live /\ target' = target /\ pc[c] = "checked"
          /\ \A d \in Calls : pc'[d] = IF d = c THEN pc'[c] ELSE pc[d]
          /\ pc'[c] # "checked"
      BY DEF IInv, TypeInv, SpamTake, fixed
    <2>2. t \in live => token'[t] = IF target[c] = t THEN c ELSE token[t]
      BY DEF IInv, TypeInv, SpamTake, SetToken
    <2>3. ASSUME NEW d \in Calls, target[d] = t, target[c] = t
          PROVE  pc[d] \notin Holding /\ (pc[d] = "checked" => d = c)
      BY <1>3, <2>1, <2>3, Zenon DEF InTurn
    <2>4. ASSUME NEW d \in Calls, target[d] = t, pc'[d] = "checked"
          PROVE  target[c] # t
      BY <2>1, <2>3, <2>4, Zenon
    <2>5. ASSUME NEW d \in Calls, target[d] = t, pc'[d] \in Holding, t \in live
          PROVE  token'[t] = d
      BY <1>3, <2>1, <2>2, <2>3, <2>5, Zenon DEF InTurn
    <2>6. ASSUME NEW d \in Calls, NEW e \in Calls, target[d] = t, target[e] = t,
                 pc'[d] = "checked"
          PROVE  pc'[e] \notin Holding /\ (pc'[e] = "checked" => e = d)
      BY <1>3, <2>1, <2>4, <2>6, Zenon DEF InTurn
    <2> QED  BY <2>1, <2>5, <2>6, Zenon DEF InTurn
  <1>4. serial' = serial
    BY DEF SpamTake, fixed
  <1> QED  BY <1>1, <1>2, <1>3, <1>4, Zenon DEF IInv

\* Starting the spam task keeps the invariant.
LEMMA SpamStartIInv ==
    ASSUME IInv, NEW c \in Calls, SpamStart(c)
    PROVE  IInv'
  <1>1. TypeInv'
    BY Zenon DEF IInv, TypeInv, Holding, SpamStart, sessVars, taskVars, fixed
  <1>2. ASSUME NEW t \in Ids PROVE SessionInv(t)'
    <2>1. TypeInv /\ SessionInv(t)
      BY Zenon DEF IInv
    <2>2. Gone(t)'
      BY <2>1 DEF SpamStart, sessVars, taskVars, fixed, TypeInv, SessionInv, Gone
    <2>3. Unborn(t)'
      BY <2>1 DEF SpamStart, sessVars, taskVars, fixed, TypeInv, SessionInv, Unborn
    <2>4. Placed(t)' /\ ReadyHas(t)'
      BY <2>1 DEF SpamStart, sessVars, taskVars, fixed, TypeInv, SessionInv, Unborn, Placed,
         ReadyHas
    <2>5. Alone(t)'
      BY <2>1 DEF SpamStart, sessVars, taskVars, fixed, TypeInv, SessionInv, Alone, Spams
    <2> QED  BY <2>2, <2>3, <2>4, <2>5, Zenon DEF SessionInv
  <1>3. ASSUME NEW t \in Ids, serial, InTurn(t) PROVE InTurn(t)'
    BY <1>1, <1>3, SessionAssumption DEF SpamStart, sessVars, fixed, InTurn, Holding
  <1>4. serial' = serial
    BY DEF SpamStart, fixed
  <1> QED  BY <1>1, <1>2, <1>3, <1>4, Zenon DEF IInv

\* A return of Contender::spam keeps the invariant.
LEMMA SpamReturnsIInv ==
    ASSUME IInv, NEW c \in Calls, SpamReturns(c)
    PROVE  IInv'
  <1>1. TypeInv'
    BY Zenon DEF IInv, TypeInv, Holding, SpamReturns, sessVars, taskVars, fixed
  <1>2. ASSUME NEW t \in Ids PROVE SessionInv(t)'
    <2>1. TypeInv /\ SessionInv(t)
      BY Zenon DEF IInv
    <2>2. Gone(t)'
      BY <2>1 DEF SpamReturns, sessVars, taskVars, fixed, TypeInv, SessionInv, Gone
    <2>3. Unborn(t)'
      BY <2>1 DEF SpamReturns, sessVars, taskVars, fixed, TypeInv, SessionInv, Unborn
    <2>4. Placed(t)' /\ ReadyHas(t)'
      BY <2>1 DEF SpamReturns, sessVars, taskVars, fixed, TypeInv, SessionInv, Unborn, Placed,
         ReadyHas
    <2>5. Alone(t)'
      BY <2>1 DEF SpamReturns, sessVars, taskVars, fixed, TypeInv, SessionInv, Alone, Spams
    <2> QED  BY <2>2, <2>3, <2>4, <2>5, Zenon DEF SessionInv
  <1>3. ASSUME NEW t \in Ids, serial, InTurn(t) PROVE InTurn(t)'
    BY <1>1, <1>3, SessionAssumption DEF TypeInv, SpamReturns, sessVars, fixed, InTurn, Holding
  <1>4. serial' = serial
    BY DEF SpamReturns, fixed
  <1> QED  BY <1>1, <1>2, <1>3, <1>4, Zenon DEF IInv

\* An error of Contender::spam keeps the invariant.
LEMMA SpamErrsIInv ==
    ASSUME IInv, NEW c \in Calls, SpamErrs(c)
    PROVE  IInv'
  <1>1. TypeInv'
    BY Zenon DEF IInv, TypeInv, Holding, SpamErrs, sessVars, taskVars, fixed
  <1>2. ASSUME NEW t \in Ids PROVE SessionInv(t)'
    <2>1. TypeInv /\ SessionInv(t)
      BY Zenon DEF IInv
    <2>2. Gone(t)'
      BY <2>1 DEF SpamErrs, sessVars, taskVars, fixed, TypeInv, SessionInv, Gone
    <2>3. Unborn(t)'
      BY <2>1 DEF SpamErrs, sessVars, taskVars, fixed, TypeInv, SessionInv, Unborn
    <2>4. Placed(t)' /\ ReadyHas(t)'
      BY <2>1 DEF SpamErrs, sessVars, taskVars, fixed, TypeInv, SessionInv, Unborn, Placed,
         ReadyHas
    <2>5. Alone(t)'
      BY <2>1 DEF SpamErrs, sessVars, taskVars, fixed, TypeInv, SessionInv, Alone, Spams
    <2> QED  BY <2>2, <2>3, <2>4, <2>5, Zenon DEF SessionInv
  <1>3. ASSUME NEW t \in Ids, serial, InTurn(t) PROVE InTurn(t)'
    BY <1>1, <1>3, SessionAssumption DEF SpamErrs, sessVars, fixed, InTurn, Holding
  <1>4. serial' = serial
    BY DEF SpamErrs, fixed
  <1> QED  BY <1>1, <1>2, <1>3, <1>4, Zenon DEF IInv

\* The update that ends a spam task keeps the invariant.
LEMMA SpamFinishIInv ==
    ASSUME IInv, NEW c \in Calls, SpamFinish(c)
    PROVE  IInv'
  <1>1. TypeInv'
    BY Zenon DEF IInv, TypeInv, Statuses, SpamFinish, PutInitialized, ClearToken, SetToken, SetStatus,
       taskVars, fixed
  <1>2. ASSUME NEW t \in Ids PROVE SessionInv(t)'
    <2>1. TypeInv /\ SessionInv(t)
      BY Zenon DEF IInv
    <2>2. Gone(t)'
      BY <2>1 DEF SpamFinish, PutInitialized, ClearToken, SetToken, SetStatus, taskVars, fixed,
         TypeInv, SessionInv, Gone
    <2>3. Unborn(t)'
      BY <2>1 DEF SpamFinish, PutInitialized, ClearToken, SetToken, SetStatus, taskVars, fixed,
         TypeInv, SessionInv, Unborn
    <2>4. Placed(t)' /\ ReadyHas(t)'
      BY <2>1 DEF SpamFinish, PutInitialized, ClearToken, SetToken, SetStatus, taskVars, fixed,
         TypeInv, SessionInv, Unborn, Placed, ReadyHas
    <2>5. Alone(t)'
      BY <2>1 DEF SpamFinish, PutInitialized, ClearToken, SetToken, SetStatus, taskVars, fixed,
         TypeInv, SessionInv, Alone, Spams
    <2> QED  BY <2>2, <2>3, <2>4, <2>5, Zenon DEF SessionInv
  <1>3. ASSUME NEW t \in Ids, serial, InTurn(t) PROVE InTurn(t)'
    <2>1. /\ live' = live /\ target' = target /\ pc[c] \in Holding
          /\ \A d \in Calls : pc'[d] = IF d = c THEN "done" ELSE pc[d]
          /\ "done" \notin Holding /\ "done" # "checked"
      BY DEF IInv, TypeInv, SpamFinish, fixed, Holding
    <2>2. t \in live /\ target[c] # t => token'[t] = token[t]
      BY DEF IInv, TypeInv, SpamFinish, ClearToken, SetToken
    <2>3. t \in live /\ target[c] = t => token[t] = c
      BY <1>3, <2>1, Zenon DEF InTurn
    <2>4. ASSUME t \in live, target[c] = t, NEW d \in Calls, target[d] = t, pc'[d] \in Holding
          PROVE  token'[t] = d
      BY <1>3, <2>1, <2>3, <2>4, Zenon DEF InTurn
    <2> QED  BY <1>3, <2>1, <2>2, <2>4, Zenon DEF InTurn
  <1>4. serial' = serial
    BY DEF SpamFinish, fixed
  <1> QED  BY <1>1, <1>2, <1>3, <1>4, Zenon DEF IInv

\* A panic of a spam task keeps the invariant.
LEMMA SpamPanicsIInv ==
    ASSUME IInv, NEW c \in Calls, SpamPanics(c)
    PROVE  IInv'
  <1>1. TypeInv'
    BY Zenon DEF IInv, TypeInv, Statuses, SpamPanics, ClearToken, SetToken, SetStatus, taskVars, fixed
  <1>2. ASSUME NEW t \in Ids PROVE SessionInv(t)'
    <2>1. SessionInv(t)
      BY Zenon DEF IInv
    <2>2. Gone(t)'
      BY <2>1, Zenon DEF IInv, TypeInv, SpamPanics, ClearToken, SetToken, SessionInv, Gone
    <2>3. Unborn(t)' /\ Placed(t)' /\ ReadyHas(t)'
      BY <2>1 DEF IInv, TypeInv, SpamPanics, SetStatus, taskVars, fixed, SessionInv,
         Unborn, Placed, ReadyHas
    <2>4. Alone(t)'
      BY <2>1 DEF IInv, TypeInv, SpamPanics, fixed, SessionInv, Alone, Spams
    <2> QED  BY <2>2, <2>3, <2>4, Zenon DEF SessionInv
  <1>3. ASSUME NEW t \in Ids, serial, InTurn(t) PROVE InTurn(t)'
    <2>1. /\ live' = live /\ target' = target /\ pc[c] \in Holding
          /\ \A d \in Calls : pc'[d] = IF d = c THEN "done" ELSE pc[d]
          /\ "done" \notin Holding /\ "done" # "checked"
      BY DEF IInv, TypeInv, SpamPanics, fixed, Holding
    <2>2. t \in live /\ target[c] # t => token'[t] = token[t]
      BY DEF IInv, TypeInv, SpamPanics, ClearToken, SetToken
    <2>3. t \in live /\ target[c] = t => token[t] = c
      BY <1>3, <2>1, Zenon DEF InTurn
    <2>4. ASSUME t \in live, target[c] = t, NEW d \in Calls, target[d] = t, pc'[d] \in Holding
          PROVE  token'[t] = d
      BY <1>3, <2>1, <2>3, <2>4, Zenon DEF InTurn
    <2> QED  BY <1>3, <2>1, <2>2, <2>4, Zenon DEF InTurn
  <1>4. serial' = serial
    BY DEF SpamPanics, fixed
  <1> QED  BY <1>1, <1>2, <1>3, <1>4, Zenon DEF IInv

\* A wake-up of run_funding_loop keeps the invariant.
LEMMA TopUpWakeIInv ==
    ASSUME IInv, NEW c \in Calls, TopUpWake(c)
    PROVE  IInv'
  BY RestIInv, Zenon DEF TopUpWake

\* A top-up of run_funding_loop keeps the invariant.
LEMMA TopUpDoneIInv ==
    ASSUME IInv, NEW c \in Calls, TopUpDone(c)
    PROVE  IInv'
  BY RestIInv, Zenon DEF TopUpDone

\* The exit of run_funding_loop keeps the invariant.
LEMMA TopUpExitIInv ==
    ASSUME IInv, NEW c \in Calls, TopUpExit(c)
    PROVE  IInv'
  BY RestIInv, Zenon DEF TopUpExit

\* A step of the server, or of nobody, keeps the invariant.
LEMMA NextIInv == IInv /\ [Next]_vars => IInv'
  <1> SUFFICES ASSUME IInv, [Next]_vars PROVE IInv'
    OBVIOUS
  <1>1. ASSUME NEW s \in Ids, AddSession(s) \/ Stop(s) \/ RemoveSession(s) \/ FundAccounts(s)
        PROVE  IInv'
    BY <1>1, AddSessionIInv, StopIInv, RemoveSessionIInv, FundAccountsIInv
  <1>2. ASSUME NEW s \in Ids, InitTake(s) \/ InitDone(s) \/ FundDone(s)
        PROVE  IInv'
    BY <1>2, InitTakeIInv, InitDoneIInv, FundDoneIInv
  <1>3. ASSUME NEW c \in Calls, SpamCheck(c) \/ SpamTask(c) \/ SpamErrs(c) \/ SpamPanics(c)
        PROVE  IInv'
    BY <1>3, SpamCheckIInv, SpamTakeIInv, SpamStartIInv, SpamReturnsIInv, SpamFinishIInv,
       SpamErrsIInv, SpamPanicsIInv DEF SpamTask
  <1>4. ASSUME NEW c \in Calls, TopUpTask(c)
        PROVE  IInv'
    BY <1>4, TopUpWakeIInv, TopUpDoneIInv, TopUpExitIInv DEF TopUpTask
  <1>5. ASSUME UNCHANGED vars
        PROVE  IInv'
    BY <1>5, RestIInv, Zenon DEF vars, callVars
  <1> QED  BY <1>1, <1>2, <1>3, <1>4, <1>5 DEF Next, ClientStep

\* The invariant holds in every state the server reaches.
LEMMA Invariance == Spec => []IInv
  <1> QED  BY InitIInv, NextIInv, PTL DEF Spec

-----------------------------------------------------------------------------
(* What the invariant says of the server *)

\* At most one element satisfies a condition that no two elements share.
LEMMA AtMostOne ==
    ASSUME NEW S, \A x, y \in S : x = y
    PROVE  IsFiniteSet(S) /\ Cardinality(S) \in 0 .. 1 /\ (Cardinality(S) = 1 => S # {})
  <1>1. CASE S = {}
    BY <1>1, FS_EmptySet
  <1>2. CASE S # {}
    <2>1. PICK x \in S : S = {x}
      BY <1>2
    <2> QED  BY <2>1, <1>2, FS_Singleton
  <1> QED  BY <1>1, <1>2

\* The contender of a session has one holder: the cache, the initializing task
\* or one spam task, whatever the interleaving of any number of requests with
\* remove_session, stop, failures and panics; a removed session holds nothing.
THEOREM OneHolderHolds == Spec => []OneHolder
  <1>1. IInv => OneHolder
    <2> SUFFICES ASSUME IInv, NEW s \in Ids
                 PROVE  /\ Gone(s)
                        /\ LET cached == {h \in {"cache"} : contender[s] # "None"}
                               init   == {h \in {"init"} : initTask[s] = "running"}
                               spam   == {c \in Calls : Spams(c, s)}
                           IN Cardinality(cached) + Cardinality(init) + Cardinality(spam) <= 1
      BY Zenon DEF OneHolder, Gone
    <2> DEFINE cached == {h \in {"cache"} : contender[s] # "None"}
               init   == {h \in {"init"} : initTask[s] = "running"}
               spam   == {c \in Calls : Spams(c, s)}
               One(S) == Cardinality(S) \in 0 .. 1 /\ (Cardinality(S) = 1 => S # {})
    <2>1. Gone(s) /\ Unborn(s) /\ Placed(s) /\ Alone(s) /\ TypeInv
      BY Zenon DEF IInv, SessionInv
    <2>2. One(cached) /\ One(init)
      BY AtMostOne
    <2>3. One(spam)
      BY <2>1, AtMostOne DEF Alone
    <2>4. \/ cached = {} /\ init = {}
          \/ cached = {} /\ spam = {}
          \/ init = {} /\ spam = {}
      BY <2>1 DEF Unborn, Placed, Alone, Spams, TypeInv
    <2> HIDE DEF cached, init, spam
    <2>5. Cardinality(cached) + Cardinality(init) + Cardinality(spam) <= 1
      BY <2>2, <2>3, <2>4
    <2> QED  BY <2>1, <2>5 DEF cached, init, spam
  <1> QED  BY <1>1, Invariance, PTL

\* A session that reports Ready has its initialized contender in the cache.
THEOREM ReadyIsUsableHolds == Spec => []ReadyIsUsable
  <1>1. IInv => ReadyIsUsable
    BY DEF IInv, TypeInv, SessionInv, ReadyHas, ReadyIsUsable
  <1> QED  BY <1>1, Invariance, PTL

\* stop and remove_session reach the spamming request of clients that await
\* the answer to spam: the token in the session is that request's.
THEOREM SerialStopReachesHolds == Spec => []SerialStopReaches
  <1>1. ASSUME TypeInv, \A s \in Ids : InTurn(s)
        PROVE  \A s \in live, c \in Calls : Spams(c, s) => token[s] = c
    BY <1>1 DEF TypeInv, InTurn, Spams
  <1>2. IInv => SerialStopReaches
    BY <1>1, Zenon DEF IInv, SerialStopReaches
  <1> QED  BY <1>2, Invariance, PTL
=============================================================================
