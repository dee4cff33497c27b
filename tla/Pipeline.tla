------------------------------- MODULE Pipeline -------------------------------
(***************************************************************************)
(* The ingest path from the UDP sockets to the consumers of flow records,  *)
(* and its start and stop: internal/receiver and the goroutines that       *)
(* StartAndServe of internal/server wires to it.                           *)
(*                                                                         *)
(* One read loop per listener moves datagrams, in pooled buffers, into one *)
(* bounded queue; one dispatcher moves them into a bounded shard per       *)
(* worker, by source address; each worker decodes, gives the buffer back,  *)
(* enriches and ingests.  Shutdown closes the stages from the sockets on.  *)
(*                                                                         *)
(* What decoding and ingesting do is the subject of other modules.  A      *)
(* datagram is a value with a source, a listener and whether the kernel    *)
(* truncated it.  The enrichment chain is one database reader.             *)
(*                                                                         *)
(* A definition marked "Mutant" is a plausible mistake in the definition   *)
(* that follows it; the specification uses none of them.                   *)
(***************************************************************************)
EXTENDS Naturals, Sequences, FiniteSets, SequencesExt

CONSTANTS
  Listeners, Workers, Exporters,
  Datagrams,
  Arrivals,      \* per listener, the datagrams its socket receives, in order
  SourceOf,      \* the exporter of a datagram
  Truncated,     \* the datagrams longer than a buffer
  ShardOf,       \* the worker an exporter's address hashes to
  BatchSize, QueueSize, ShardSize,
  Buffers,       \* as many as can be in use at once
  Readers,       \* the database readers start and reloads may open
  None

\* A datagram arrives at one socket.
ASSUME PipelineAssumption ==
  /\ Arrivals \in [Listeners -> Seq(Datagrams)]
  /\ \A k, l \in Listeners : Range(Arrivals[k]) \cap Range(Arrivals[l]) # {} => k = l
  /\ SourceOf \in [Datagrams -> Exporters]
  /\ Truncated \subseteq Datagrams
  /\ ShardOf \in [Exporters -> Workers]
  /\ {BatchSize, QueueSize, ShardSize} \subseteq Nat \ {0}
  /\ None \notin Datagrams \cup Buffers \cup Readers

VARIABLES
  socket,      \* per listener, what its socket has yet to hand over
  open,        \* the listeners whose socket is open
  loop,        \* per listener: the read loop
  queue, queueClosed,
  dispatcher,
  shard, shardsClosed,
  worker,
  pool,        \* the buffers put back
  issued,      \* the buffers ever made
  content,     \* what was last written into each buffer
  reader,      \* the database in force
  opened,      \* the readers ever opened
  closed,      \* the readers Close unmapped
  main,        \* StartAndServe
  decoded,     \* the datagrams decoded, in order
  consumed,    \* the datagrams whose records were ingested
  dropped      \* the datagrams counted as truncated or queue_full

stages == <<socket, open, loop, queue, queueClosed, dispatcher, shard, shardsClosed>>
bufs == <<pool, issued, content>>
database == <<reader, opened, closed>>
outcome == <<decoded, consumed, dropped>>
vars == <<stages, worker, bufs, database, main, outcome>>

-----------------------------------------------------------------------------
\* type Packet: a datagram in its buffer.
Packet == [id: Datagrams, buf: Buffers]
NoPacket == [id |-> None, buf |-> None]

\* A read loop: the buffers its reader holds ready, and the batch it enqueues.
LoopState ==
  [pc: {"read", "enqueue", "done"}, slots: BoundedSeq(Buffers, BatchSize),
   out: BoundedSeq(Packet, BatchSize)]

DispatcherState == [pc: {"take", "send", "done"}, pkt: Packet \cup {NoPacket}]

\* A worker looks up only while a database is in force.
WorkerState ==
  [pc: {"take", "done"}, pkt: {NoPacket}, db: {None}]
    \cup [pc: {"decode", "release", "enrich", "ingest"}, pkt: Packet, db: {None}]
    \cup [pc: {"lookup"}, pkt: Packet, db: Readers]

\* The worker a datagram goes to.  Mutant: the one with the shortest shard.
ShardByLoad(d) == CHOOSE w \in Workers : \A v \in Workers : Len(shard[w]) <= Len(shard[v])
ShardFor(d) == ShardOf[SourceOf[d]]

\* sync.Pool hands out any buffer put back, or a new one.
NewBuffer == IF issued = Buffers THEN {} ELSE {CHOOSE b \in Buffers : b \notin issued}

Put(b) == pool' = pool \cup {b} /\ UNCHANGED <<issued, content>>

-----------------------------------------------------------------------------
Init ==
  /\ socket = Arrivals
  /\ open = Listeners
  /\ loop = [l \in Listeners |-> [pc |-> "read", slots |-> <<>>, out |-> <<>>]]
  /\ queue = <<>>
  /\ queueClosed = FALSE
  /\ dispatcher = [pc |-> "take", pkt |-> NoPacket]
  /\ shard = [w \in Workers |-> <<>>]
  /\ shardsClosed = FALSE
  /\ worker = [w \in Workers |-> [pc |-> "take", pkt |-> NoPacket, db |-> None]]
  /\ pool = {}
  /\ issued = {}
  /\ content = [b \in Buffers |-> None]
  /\ reader \in Readers
  /\ opened = {reader}
  /\ closed = {}
  /\ main = "serving"
  /\ decoded = <<>>
  /\ consumed = {}
  /\ dropped = {}

\* The reader refills a slot from the pool before it reads.
Refill(l) ==
  /\ loop[l].pc = "read"
  /\ Len(loop[l].slots) < BatchSize
  /\ \E b \in pool \cup NewBuffer :
       /\ loop' = [loop EXCEPT ![l].slots = Append(@, b)]
       /\ pool' = pool \ {b}
       /\ issued' = issued \cup {b}
  /\ UNCHANGED <<socket, open, queue, queueClosed, dispatcher, shard, shardsClosed, worker,
                 content, database, main, outcome>>

\* A batch arrives: its buffers move into out, the rest stay in their slots.  A
\* read that fails leaves everything as it stood.
Read(l) ==
  /\ loop[l].pc = "read"
  /\ Len(loop[l].slots) = BatchSize
  /\ l \in open
  /\ \E n \in 1..BatchSize :
       LET out == [i \in 1..n |-> [id |-> socket[l][i], buf |-> loop[l].slots[i]]] IN
       /\ n <= Len(socket[l])
       /\ socket' = [socket EXCEPT ![l] = SubSeq(@, n + 1, Len(@))]
       /\ loop' = [loop EXCEPT ![l] = [pc |-> "enqueue", out |-> out,
                                       slots |-> SubSeq(@.slots, n + 1, BatchSize)]]
       /\ content' = [b \in Buffers |->
            IF \E i \in 1..n : out[i].buf = b
            THEN out[CHOOSE i \in 1..n : out[i].buf = b].id ELSE content[b]]
  /\ UNCHANGED <<open, queue, queueClosed, dispatcher, shard, shardsClosed, worker, pool, issued,
                 database, main, outcome>>

\* The socket was closed under the loop.
ReadClosed(l) ==
  /\ loop[l].pc = "read"
  /\ Len(loop[l].slots) = BatchSize
  /\ l \notin open
  /\ loop' = [loop EXCEPT ![l].pc = "done"]
  /\ UNCHANGED <<socket, open, queue, queueClosed, dispatcher, shard, shardsClosed, worker, bufs,
                 database, main, outcome>>

\* enqueue, for the next datagram of the batch: dropped if truncated or if the
\* queue is full, and never waited for.
\* Mutant: the buffer is put back whatever became of its datagram.
EnqueueAndPut(l) ==
  LET p == Head(loop[l].out) IN
  /\ loop[l].pc = "enqueue"
  /\ loop' = [loop EXCEPT ![l].out = Tail(@),
                          ![l].pc = IF Len(loop[l].out) = 1 THEN "read" ELSE @]
  /\ Put(p.buf)
  /\ IF p.id \in Truncated \/ Len(queue) = QueueSize
     THEN dropped' = dropped \cup {p.id} /\ UNCHANGED queue
     ELSE queue' = Append(queue, p) /\ UNCHANGED dropped
  /\ UNCHANGED <<socket, open, queueClosed, dispatcher, shard, shardsClosed, worker,
                 database, main, decoded, consumed>>

Enqueue(l) ==
  LET p == Head(loop[l].out) IN
  /\ loop[l].pc = "enqueue"
  /\ loop' = [loop EXCEPT ![l].out = Tail(@),
                          ![l].pc = IF Len(loop[l].out) = 1 THEN "read" ELSE @]
  /\ \/ /\ p.id \in Truncated \/ Len(queue) = QueueSize
        /\ Put(p.buf)
        /\ dropped' = dropped \cup {p.id}
        /\ UNCHANGED queue
     \/ /\ p.id \notin Truncated
        /\ Len(queue) < QueueSize
        /\ queue' = Append(queue, p)
        /\ UNCHANGED <<bufs, dropped>>
  /\ UNCHANGED <<socket, open, queueClosed, dispatcher, shard, shardsClosed, worker,
                 database, main, decoded, consumed>>

\* Serve, once the context ended: close the sockets, wait for the loops, close
\* the queue.
CloseConns ==
  /\ main = "stopping"
  /\ open # {}
  /\ open' = {}
  /\ UNCHANGED <<socket, loop, queue, queueClosed, dispatcher, shard, shardsClosed, worker, bufs,
                 database, main, outcome>>

CloseQueue ==
  /\ open = {}
  /\ \A l \in Listeners : loop[l].pc = "done"
  /\ ~queueClosed
  /\ queueClosed' = TRUE
  /\ UNCHANGED <<socket, open, loop, queue, dispatcher, shard, shardsClosed, worker, bufs,
                 database, main, outcome>>

-----------------------------------------------------------------------------
\* The goroutine of shardPackets.
Dispatch ==
  /\ dispatcher.pc = "take"
  /\ queue # <<>>
  /\ dispatcher' = [pc |-> "send", pkt |-> Head(queue)]
  /\ queue' = Tail(queue)
  /\ UNCHANGED <<socket, open, loop, queueClosed, shard, shardsClosed, worker, bufs,
                 database, main, outcome>>

\* The send to a shard blocks while the shard is full.
Send ==
  LET w == ShardFor(dispatcher.pkt.id) IN
  /\ dispatcher.pc = "send"
  /\ Len(shard[w]) < ShardSize
  /\ shard' = [shard EXCEPT ![w] = Append(@, dispatcher.pkt)]
  /\ dispatcher' = [pc |-> "take", pkt |-> NoPacket]
  /\ UNCHANGED <<socket, open, loop, queue, queueClosed, shardsClosed, worker, bufs,
                 database, main, outcome>>

\* Mutants: what the queue still holds is left; the shards are not closed.
CloseShardsUndrained ==
  /\ dispatcher.pc = "take"
  /\ queueClosed
  /\ dispatcher' = [dispatcher EXCEPT !.pc = "done"]
  /\ shardsClosed' = TRUE
  /\ UNCHANGED <<socket, open, loop, queue, queueClosed, shard, worker, bufs,
                 database, main, outcome>>
LeaveShardsOpen ==
  /\ dispatcher.pc = "take"
  /\ queue = <<>>
  /\ queueClosed
  /\ dispatcher' = [dispatcher EXCEPT !.pc = "done"]
  /\ UNCHANGED <<socket, open, loop, queue, queueClosed, shard, shardsClosed, worker, bufs,
                 database, main, outcome>>
CloseShards ==
  /\ dispatcher.pc = "take"
  /\ queue = <<>>
  /\ queueClosed
  /\ dispatcher' = [dispatcher EXCEPT !.pc = "done"]
  /\ shardsClosed' = TRUE
  /\ UNCHANGED <<socket, open, loop, queue, queueClosed, shard, worker, bufs,
                 database, main, outcome>>

-----------------------------------------------------------------------------
\* decodeLoop.
Go(w, pc) == worker' = [worker EXCEPT ![w].pc = pc]

Take(w) ==
  /\ worker[w].pc = "take"
  /\ shard[w] # <<>>
  /\ worker' = [worker EXCEPT ![w].pc = "decode", ![w].pkt = Head(shard[w])]
  /\ shard' = [shard EXCEPT ![w] = Tail(@)]
  /\ UNCHANGED <<socket, open, loop, queue, queueClosed, dispatcher, shardsClosed, bufs,
                 database, main, outcome>>

Decode(w) ==
  /\ worker[w].pc = "decode"
  /\ Go(w, "release")
  /\ decoded' = Append(decoded, worker[w].pkt.id)
  /\ UNCHANGED <<stages, bufs, database, main, consumed, dropped>>

Release(w) ==
  /\ worker[w].pc = "release"
  /\ Put(worker[w].pkt.buf)
  /\ Go(w, "enrich")
  /\ UNCHANGED <<stages, database, main, outcome>>

\* A lookup loads the reader in force, then reads from it.
LoadReader(w) ==
  /\ worker[w].pc = "enrich"
  /\ worker' = [worker EXCEPT ![w].pc = "lookup", ![w].db = reader]
  /\ UNCHANGED <<stages, bufs, database, main, outcome>>

LookUp(w) ==
  /\ worker[w].pc = "lookup"
  /\ worker' = [worker EXCEPT ![w].pc = "ingest", ![w].db = None]
  /\ UNCHANGED <<stages, bufs, database, main, outcome>>

Ingest(w) ==
  /\ worker[w].pc = "ingest"
  /\ worker' = [worker EXCEPT ![w].pc = "take", ![w].pkt = NoPacket]
  /\ consumed' = consumed \cup {worker[w].pkt.id}
  /\ UNCHANGED <<stages, bufs, database, main, decoded, dropped>>

ShardEnded(w) ==
  /\ worker[w].pc = "take"
  /\ shard[w] = <<>>
  /\ shardsClosed
  /\ Go(w, "done")
  /\ UNCHANGED <<stages, bufs, database, main, outcome>>

-----------------------------------------------------------------------------
\* A reload, from SIGHUP or the management endpoint, publishes a new reader and
\* drops the one in force; one that fails leaves it serving.
Reload ==
  /\ main # "exited"
  /\ \E r \in Readers \ opened : reader' = r /\ opened' = opened \cup {r}
  /\ UNCHANGED <<stages, worker, bufs, closed, main, outcome>>

\* A shutdown signal, or a server that failed, ends Run and the context.
Stop ==
  /\ main = "serving"
  /\ main' = "stopping"
  /\ UNCHANGED <<stages, worker, bufs, database, outcome>>

\* StartAndServe waits for the receiver and the decode workers.  The waits for
\* the aggregator, the domain sweep and the remote write are left out: these end
\* with the context, feed no stage and hold no database.
\* Mutant: for the receiver and the dispatcher alone.
AwaitReceiver ==
  /\ main = "stopping"
  /\ queueClosed
  /\ dispatcher.pc = "done"
  /\ main' = "drained"
  /\ UNCHANGED <<stages, worker, bufs, database, outcome>>
Await ==
  /\ main = "stopping"
  /\ queueClosed
  /\ dispatcher.pc = "done" /\ \A w \in Workers : worker[w].pc = "done"
  /\ main' = "drained"
  /\ UNCHANGED <<stages, worker, bufs, database, outcome>>

\* chain.Close, the deferred call that runs last.
CloseChain ==
  /\ main = "drained"
  /\ main' = "exited"
  /\ closed' = closed \cup {reader}
  /\ reader' = None
  /\ UNCHANGED <<stages, worker, bufs, opened, outcome>>

-----------------------------------------------------------------------------
ReadLoop(l) == Refill(l) \/ Read(l) \/ ReadClosed(l) \/ Enqueue(l)
Dispatcher == Dispatch \/ Send \/ CloseShards
DecodeLoop(w) ==
  Take(w) \/ Decode(w) \/ Release(w) \/ LoadReader(w) \/ LookUp(w) \/ Ingest(w) \/ ShardEnded(w)
Shutdown == CloseConns \/ CloseQueue \/ Await \/ CloseChain
Exited == main = "exited" /\ UNCHANGED vars

Next ==
  \/ \E l \in Listeners : ReadLoop(l)
  \/ Dispatcher
  \/ \E w \in Workers : DecodeLoop(w)
  \/ Reload
  \/ Stop
  \/ Shutdown
  \/ Exited

Spec == Init /\ [][Next]_vars

\* Every goroutine that can go on does; nothing makes the process stop.
FairSpec ==
  /\ Spec
  /\ \A l \in Listeners : WF_vars(ReadLoop(l))
  /\ WF_vars(Dispatcher)
  /\ \A w \in Workers : WF_vars(DecodeLoop(w))
  /\ WF_vars(Shutdown)

-----------------------------------------------------------------------------
Held(p) == IF p = NoPacket THEN <<>> ELSE <<p>>

\* The packets between the sockets and the decoder, the oldest of a worker first.
Undecoded(w) == (IF worker[w].pc = "decode" THEN Held(worker[w].pkt) ELSE <<>>) \o shard[w]
InHand(w) == IF worker[w].pc = "release" THEN {worker[w].pkt} ELSE {}
InFlight ==
  (UNION {Range(Undecoded(w)) \cup InHand(w) : w \in Workers})
    \cup Range(Held(dispatcher.pkt)) \cup Range(queue)
    \cup (UNION {Range(loop[l].out) : l \in Listeners})

\* Every variable holds a value of its type, the two queues within their bounds.
TypeOK ==
  /\ socket \in [Listeners -> Seq(Datagrams)]
  /\ open \subseteq Listeners
  /\ loop \in [Listeners -> LoopState]
  /\ queue \in BoundedSeq(Packet, QueueSize)
  /\ queueClosed \in BOOLEAN /\ shardsClosed \in BOOLEAN
  /\ dispatcher \in DispatcherState
  /\ shard \in [Workers -> BoundedSeq(Packet, ShardSize)]
  /\ worker \in [Workers -> WorkerState]
  /\ pool \subseteq Buffers /\ issued \subseteq Buffers
  /\ content \in [Buffers -> Datagrams \cup {None}]
  /\ reader \in Readers \cup {None}
  /\ opened \subseteq Readers /\ closed \subseteq Readers
  /\ main \in {"serving", "stopping", "drained", "exited"}
  /\ decoded \in Seq(Datagrams)
  /\ consumed \subseteq Datagrams /\ dropped \subseteq Datagrams

\* A packet's buffer still holds its datagram for as long as anything may read
\* it, and is neither in the pool nor in a reader's slot: it is put back once,
\* and by nobody who has handed it on.
BufferIntact ==
  \A p \in InFlight :
    /\ content[p.buf] = p.id
    /\ p.buf \notin pool
    /\ \A l \in Listeners : p.buf \notin Range(loop[l].slots)

\* One device's datagrams are decoded and ingested by one goroutine at a time,
\* which the tables, the template budgets and the sequences rely on.
OneWorkerPerDevice ==
  \A v, w \in Workers :
    worker[v].pkt.id # None /\ worker[w].pkt.id # None
      /\ SourceOf[worker[v].pkt.id] = SourceOf[worker[w].pkt.id] => v = w

\* When the process exits, whatever a listener counted as a packet was either
\* counted as dropped or has reached the consumers: the stages were closed from
\* the sockets on and each drained the one before it.
DrainedAtExit ==
  main = "exited" =>
    \A l \in Listeners :
      Range(Arrivals[l]) \ Range(socket[l]) \subseteq consumed \cup dropped

\* Nothing that is closed is used, however reloads and the shutdown fall: no
\* worker holds a database reader Close has unmapped, and nothing reaches a
\* closed queue or a closed shard, which would panic.
NothingClosedIsUsed ==
  /\ \A w \in Workers : worker[w].db \notin closed
  /\ queueClosed => \A l \in Listeners : loop[l].pc # "enqueue"
  /\ shardsClosed => dispatcher.pc # "send" /\ queue = <<>>

\* Per exporter and listener, the path delivers in order, each datagram once or
\* not at all.
Keys == Exporters \X Listeners
Stream(s) == {d \in Range(Arrivals[s[2]]) : SourceOf[d] = s[1]}
Picked(own, ids) ==
  LET picked[n \in 0..Len(ids)] ==
        IF n = 0 THEN <<>>
        ELSE IF ids[n] \in own THEN Append(picked[n - 1], ids[n]) ELSE picked[n - 1]
  IN picked[Len(ids)]
Of(s, ids) == Picked(Stream(s), ids)
IdsOf(packets) == [i \in DOMAIN packets |-> packets[i].id]
Line(s) ==
  IdsOf(Undecoded(ShardOf[s[1]]) \o Held(dispatcher.pkt) \o queue \o loop[s[2]].out)
    \o socket[s[2]]

S == INSTANCE Streams WITH
  Arriving <- [s \in Keys |-> Of(s, Arrivals[s[2]])],
  waiting <- [s \in Keys |-> Of(s, Line(s))],
  delivered <- [s \in Keys |-> Of(s, decoded)]
DeliversInOrder == S!Spec

\* A shutdown signal ends the process.
StopEnds == main = "stopping" ~> main = "exited"
=============================================================================
