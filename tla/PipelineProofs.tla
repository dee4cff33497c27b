---------------------------- MODULE PipelineProofs ----------------------------
(* Proofs about Pipeline, for any listeners, workers and exporters, any      *)
(* arrivals, and any sizes of the batch, the queue and the shards.           *)
EXTENDS Pipeline, SequenceTheorems, TLAPS

-----------------------------------------------------------------------------
(* Sequences. *)

\* t is s without its head, or with e at its end.
Pops(s, t) ==
  Len(s) > 0 /\ Len(t) = Len(s) - 1 /\ \A i \in 1..Len(t) : t[i] = s[i + 1]
Grows(s, t, e) ==
  Len(t) = Len(s) + 1 /\ t[Len(t)] = e /\ \A i \in 1..Len(s) : t[i] = s[i]

\* A bounded sequence is a sequence within the bound.
LEMMA BoundedSeqIs ==
  ASSUME NEW X, NEW n \in Nat, NEW s
  PROVE  s \in BoundedSeq(X, n) <=> s \in Seq(X) /\ Len(s) \in 0..n
  <1>1. ASSUME s \in BoundedSeq(X, n) PROVE s \in Seq(X) /\ Len(s) \in 0..n
    <2>1. PICK m \in 0..n : s \in [1..m -> X]
      BY <1>1 DEF BoundedSeq, SeqOf
    <2> QED
      BY <2>1, SeqDef
  <1>2. ASSUME s \in Seq(X), Len(s) \in 0..n PROVE s \in BoundedSeq(X, n)
    BY <1>2, LenProperties DEF BoundedSeq, SeqOf
  <1> QED
    BY <1>1, <1>2

\* Taking the head.
LEMMA PopFacts ==
  ASSUME NEW X, NEW s \in Seq(X), s # <<>>
  PROVE  /\ Pops(s, Tail(s)) /\ Tail(s) \in Seq(X)
         /\ Head(s) = s[1] /\ Head(s) \in X /\ Len(s) \in Nat /\ Len(Tail(s)) \in Nat
  BY HeadTailProperties, EmptySeq, LenProperties DEF Pops

\* Adding at the end.
LEMMA GrowFacts ==
  ASSUME NEW X, NEW s \in Seq(X), NEW e \in X
  PROVE  /\ Grows(s, Append(s, e), e) /\ Append(s, e) \in Seq(X)
         /\ Len(s) \in Nat /\ Len(Append(s, e)) \in Nat
  BY AppendProperties, LenProperties DEF Grows

-----------------------------------------------------------------------------
(* Types. *)

\* What the types of the variables say of their parts.
Parts ==
  /\ \A l \in Listeners :
       /\ loop[l].pc \in {"read", "enqueue", "done"}
       /\ loop[l].slots \in Seq(Buffers) /\ Len(loop[l].slots) \in 0..BatchSize
       /\ loop[l].out \in Seq(Packet) /\ Len(loop[l].out) \in 0..BatchSize
       /\ socket[l] \in Seq(Datagrams)
  /\ queue \in Seq(Packet) /\ Len(queue) \in 0..QueueSize
  /\ dispatcher.pc \in {"take", "send", "done"}
  /\ dispatcher.pkt \in Packet \cup {NoPacket}
  /\ \A w \in Workers :
       /\ shard[w] \in Seq(Packet) /\ Len(shard[w]) \in 0..ShardSize
       /\ \/ worker[w].pc \in {"take", "done"} /\ worker[w].pkt = NoPacket
             /\ worker[w].db = None
          \/ worker[w].pc \in {"decode", "release", "enrich", "ingest"}
             /\ worker[w].pkt \in Packet /\ worker[w].db = None
          \/ worker[w].pc = "lookup" /\ worker[w].pkt \in Packet /\ worker[w].db \in Readers

\* The sizes are counts, and a packet is not the absence of one.
LEMMA Sizes ==
  /\ BatchSize \in Nat \ {0} /\ QueueSize \in Nat \ {0} /\ ShardSize \in Nat \ {0}
  /\ NoPacket \notin Packet
  /\ \A p \in Packet : p.id \in Datagrams /\ p.buf \in Buffers /\ p.id # None
  /\ NoPacket.id = None
  BY PipelineAssumption DEF Packet, NoPacket

\* What TypeOK says in Parts' terms.
LEMMA TypeParts ==
  ASSUME TypeOK
  PROVE  Parts
  <1>1. ASSUME NEW l \in Listeners
        PROVE  /\ loop[l].pc \in {"read", "enqueue", "done"}
               /\ loop[l].slots \in Seq(Buffers) /\ Len(loop[l].slots) \in 0..BatchSize
               /\ loop[l].out \in Seq(Packet) /\ Len(loop[l].out) \in 0..BatchSize
               /\ socket[l] \in Seq(Datagrams)
    <2>1. /\ loop[l].pc \in {"read", "enqueue", "done"}
          /\ loop[l].slots \in BoundedSeq(Buffers, BatchSize)
          /\ loop[l].out \in BoundedSeq(Packet, BatchSize)
          /\ socket[l] \in Seq(Datagrams)
      BY DEF TypeOK, LoopState
    <2> QED
      BY <2>1, BoundedSeqIs, Sizes
  <1>2. queue \in Seq(Packet) /\ Len(queue) \in 0..QueueSize
    BY BoundedSeqIs, Sizes DEF TypeOK
  <1>3. dispatcher.pc \in {"take", "send", "done"} /\ dispatcher.pkt \in Packet \cup {NoPacket}
    BY DEF TypeOK, DispatcherState
  <1>4. ASSUME NEW w \in Workers
        PROVE  /\ shard[w] \in Seq(Packet) /\ Len(shard[w]) \in 0..ShardSize
               /\ \/ worker[w].pc \in {"take", "done"} /\ worker[w].pkt = NoPacket
                     /\ worker[w].db = None
                  \/ worker[w].pc \in {"decode", "release", "enrich", "ingest"}
                     /\ worker[w].pkt \in Packet /\ worker[w].db = None
                  \/ worker[w].pc = "lookup" /\ worker[w].pkt \in Packet
                     /\ worker[w].db \in Readers
    <2>1. shard[w] \in BoundedSeq(Packet, ShardSize) /\ worker[w] \in WorkerState
      BY DEF TypeOK
    <2>2. shard[w] \in Seq(Packet) /\ Len(shard[w]) \in 0..ShardSize
      BY <2>1, BoundedSeqIs, Sizes
    <2> QED
      BY <2>1, <2>2 DEF WorkerState
  <1> QED
    BY <1>1, <1>2, <1>3, <1>4 DEF Parts

-----------------------------------------------------------------------------
(* What each step does to the read loop or the worker that takes it. *)

LoopTurns(l, pc, slots, out) ==
  /\ loop' \in [Listeners -> LoopState]
  /\ \A k \in Listeners \ {l} : loop'[k] = loop[k]
  /\ loop'[l].pc = pc /\ loop'[l].slots = slots /\ loop'[l].out = out

WorkerTurns(w, pc, pkt, db) ==
  /\ worker' \in [Workers -> WorkerState]
  /\ \A v \in Workers \ {w} : worker'[v] = worker[v]
  /\ worker'[w].pc = pc /\ worker'[w].pkt = pkt /\ worker'[w].db = db

\* A loop given a new state turns to it.
LEMMA LoopTo ==
  ASSUME TypeOK, NEW l \in Listeners, NEW s \in LoopState, loop' = [loop EXCEPT ![l] = s]
  PROVE  LoopTurns(l, s.pc, s.slots, s.out)
  BY DEF LoopTurns, TypeOK

\* A slot is refilled.
LEMMA RefillTurns ==
  ASSUME TypeOK, NEW l \in Listeners, Refill(l)
  PROVE  \E b \in pool \cup NewBuffer :
           /\ b \in Buffers /\ LoopTurns(l, "read", Append(loop[l].slots, b), loop[l].out)
           /\ pool' = pool \ {b} /\ issued' = issued \cup {b}
           /\ Grows(loop[l].slots, Append(loop[l].slots, b), b)
  <1>1. PICK b \in pool \cup NewBuffer :
          /\ loop' = [loop EXCEPT ![l].slots = Append(@, b)]
          /\ pool' = pool \ {b} /\ issued' = issued \cup {b}
    BY DEF Refill
  <1>2. b \in Buffers
    <2>1. b \in NewBuffer => b \in Buffers
      <3>1. issued # Buffers => \E c \in Buffers : c \notin issued
        BY DEF TypeOK
      <3> QED
        BY <3>1 DEF NewBuffer
    <2> QED
      BY <2>1 DEF TypeOK
  <1>k. PICK slots : slots = loop[l].slots
    OBVIOUS
  <1>3. slots \in Seq(Buffers) /\ Len(slots) \in 0..BatchSize /\ Len(slots) < BatchSize
    BY <1>k, TypeParts DEF Parts, Refill
  <1>4. /\ Append(slots, b) \in Seq(Buffers) /\ Len(Append(slots, b)) \in 0..BatchSize
        /\ Grows(slots, Append(slots, b), b)
    BY <1>2, <1>3, GrowFacts, Sizes DEF Grows
  <1>5. Append(slots, b) \in BoundedSeq(Buffers, BatchSize)
    BY <1>4, BoundedSeqIs, Sizes
  <1> DEFINE s == [loop[l] EXCEPT !.slots = Append(slots, b)]
  <1>6. /\ s \in LoopState /\ s.pc = "read" /\ s.slots = Append(slots, b) /\ s.out = loop[l].out
    BY <1>5 DEF TypeOK, LoopState, Refill
  <1>7. loop' = [loop EXCEPT ![l] = s]
    BY <1>1, <1>k DEF TypeOK
  <1> HIDE DEF s
  <1>8. LoopTurns(l, "read", Append(slots, b), loop[l].out)
    BY <1>6, <1>7, LoopTo
  <1> QED
    BY <1>1, <1>2, <1>4, <1>8, <1>k

\* What a read moves: n datagrams of the socket, into the first n slots.
ReadMoves(l, n, out, slots) ==
  /\ n \in 1..BatchSize /\ n <= Len(socket[l]) /\ Len(loop[l].slots) = BatchSize
  /\ out \in Seq(Packet) /\ Len(out) = n
  /\ \A i \in 1..n : out[i].id = socket[l][i] /\ out[i].buf = loop[l].slots[i]
  /\ slots \in Seq(Buffers) /\ Len(slots) = BatchSize - n
  /\ \A i \in 1..Len(slots) : slots[i] = loop[l].slots[n + i]
  /\ LoopTurns(l, "enqueue", slots, out)
  /\ socket' \in [Listeners -> Seq(Datagrams)]
  /\ \A k \in Listeners \ {l} : socket'[k] = socket[k]
  /\ Len(socket'[l]) = Len(socket[l]) - n
  /\ \A i \in 1..Len(socket'[l]) : socket'[l][i] = socket[l][n + i]
  /\ content' \in [Buffers -> Datagrams \cup {None}]
  /\ \A b \in Buffers :
       \/ content'[b] = content[b] /\ \A i \in 1..n : out[i].buf # b
       \/ \E i \in 1..n : out[i].buf = b /\ content'[b] = out[i].id

\* Read does just that.
LEMMA ReadTurns ==
  ASSUME TypeOK, NEW l \in Listeners, Read(l)
  PROVE  \E n \in 1..BatchSize, out \in Seq(Packet), slots \in Seq(Buffers) :
           ReadMoves(l, n, out, slots)
  <1>k. PICK old, sock : old = loop[l].slots /\ sock = socket[l]
    OBVIOUS
  <1>0. PICK n \in 1..BatchSize :
          LET out == [i \in 1..n |-> [id |-> socket[l][i], buf |-> loop[l].slots[i]]] IN
          /\ n <= Len(socket[l])
          /\ socket' = [socket EXCEPT ![l] = SubSeq(@, n + 1, Len(@))]
          /\ loop' = [loop EXCEPT ![l] = [pc |-> "enqueue", out |-> out,
                                          slots |-> SubSeq(@.slots, n + 1, BatchSize)]]
          /\ content' = [b \in Buffers |->
               IF \E i \in 1..n : out[i].buf = b
               THEN out[CHOOSE i \in 1..n : out[i].buf = b].id ELSE content[b]]
    BY Zenon DEF Read
  <1> DEFINE out == [i \in 1..n |-> [id |-> socket[l][i], buf |-> loop[l].slots[i]]]
             at(b) == CHOOSE i \in 1..n : out[i].buf = b
  <1>o. out = [i \in 1..n |-> [id |-> sock[i], buf |-> old[i]]]
    BY <1>k
  <1>c. content' = [b \in Buffers |-> IF \E i \in 1..n : out[i].buf = b
                                       THEN out[at(b)].id ELSE content[b]]
    BY <1>0
  <1>a. \A b \in Buffers : (\E i \in 1..n : out[i].buf = b) =>
                            at(b) \in 1..n /\ out[at(b)].buf = b
    OBVIOUS
  <1>1. /\ n <= Len(sock)
        /\ socket' = [socket EXCEPT ![l] = SubSeq(sock, n + 1, Len(sock))]
        /\ loop' = [loop EXCEPT ![l] = [pc |-> "enqueue", out |-> out,
                                        slots |-> SubSeq(old, n + 1, BatchSize)]]
    BY <1>0, <1>k DEF TypeOK
  <1> HIDE DEF out, at
  <1>2. /\ old \in Seq(Buffers) /\ Len(old) = BatchSize /\ sock \in Seq(Datagrams)
        /\ BatchSize \in Nat /\ Len(sock) \in Nat
        /\ \A i \in 1..Len(old) : old[i] \in Buffers
        /\ \A i \in 1..Len(sock) : sock[i] \in Datagrams
    BY <1>k, TypeParts, Sizes, LenProperties, ElementOfSeq DEF Parts, Read
  <1>3. out \in Seq(Packet) /\ Len(out) = n /\ out \in BoundedSeq(Packet, BatchSize)
    <2>1. out \in [1..n -> Packet]
      BY <1>o, <1>1, <1>2 DEF Packet
    <2>2. n \in Nat /\ n \in 0..BatchSize
      BY <1>2
    <2>3. out \in Seq(Packet) /\ Len(out) = n
      BY <2>1, <2>2, SeqDef
    <2> QED
      BY <2>2, <2>3, BoundedSeqIs, <1>2
  <1>4. PICK slots : slots = SubSeq(old, n + 1, BatchSize)
    OBVIOUS
  <1>5. /\ slots \in Seq(Buffers) /\ Len(slots) = BatchSize - n
        /\ \A i \in 1..Len(slots) : slots[i] = old[n + i]
        /\ slots \in BoundedSeq(Buffers, BatchSize)
    <2>1. /\ slots \in Seq(Buffers)
          /\ Len(slots) = IF n + 1 <= BatchSize THEN BatchSize - (n + 1) + 1 ELSE 0
          /\ \A i \in 1..(BatchSize - (n + 1) + 1) : slots[i] = old[n + 1 + i - 1]
      BY <1>2, <1>4, SubSeqProperties
    <2>2. Len(slots) = BatchSize - n
      BY <1>2, <2>1
    <2>3. ASSUME NEW i \in 1..Len(slots) PROVE slots[i] = old[n + i]
      <3>1. i \in 1..(BatchSize - (n + 1) + 1) /\ n + 1 + i - 1 = n + i
        BY <1>2, <2>2
      <3> QED
        BY <2>1, <3>1
    <2> QED
      <3>1. Len(slots) \in 0..BatchSize
        BY <1>2, <2>2
      <3> QED
        BY <1>2, <2>1, <2>2, <2>3, <3>1, BoundedSeqIs
  <1>6. PICK rest : rest = SubSeq(sock, n + 1, Len(sock))
    OBVIOUS
  <1>7. /\ rest \in Seq(Datagrams) /\ Len(rest) = Len(sock) - n
        /\ \A i \in 1..Len(rest) : rest[i] = sock[n + i]
    <2>1. /\ rest \in Seq(Datagrams)
          /\ Len(rest) = IF n + 1 <= Len(sock) THEN Len(sock) - (n + 1) + 1 ELSE 0
          /\ \A i \in 1..(Len(sock) - (n + 1) + 1) : rest[i] = sock[n + 1 + i - 1]
      BY <1>2, <1>6, SubSeqProperties
    <2>2. Len(rest) = Len(sock) - n
      BY <1>1, <1>2, <2>1
    <2>3. ASSUME NEW i \in 1..Len(rest) PROVE rest[i] = sock[n + i]
      <3>1. i \in 1..(Len(sock) - (n + 1) + 1) /\ n + 1 + i - 1 = n + i
        BY <1>2, <2>2
      <3> QED
        BY <2>1, <3>1
    <2> QED
      BY <2>1, <2>2, <2>3
  <1> DEFINE s == [pc |-> "enqueue", out |-> out, slots |-> slots]
  <1>8. s \in LoopState
    BY <1>3, <1>5 DEF LoopState
  <1>9. LoopTurns(l, "enqueue", slots, out)
    BY <1>1, <1>4, <1>8, LoopTo
  <1>10. /\ socket' \in [Listeners -> Seq(Datagrams)] /\ socket'[l] = rest
         /\ \A k \in Listeners \ {l} : socket'[k] = socket[k]
    BY <1>1, <1>6, <1>7 DEF TypeOK
  <1>11. \A i \in 1..n : out[i].id = sock[i] /\ out[i].buf = old[i]
    BY <1>o
  <1>12. /\ content' \in [Buffers -> Datagrams \cup {None}]
         /\ \A b \in Buffers :
              \/ content'[b] = content[b] /\ \A i \in 1..n : out[i].buf # b
              \/ \E i \in 1..n : out[i].buf = b /\ content'[b] = out[i].id
    <2>1. \A i \in 1..n : out[i].id \in Datagrams
      BY <1>1, <1>2, <1>11
    <2>2. content \in [Buffers -> Datagrams \cup {None}]
      BY DEF TypeOK
    <2> QED
      BY <1>a, <1>c, <2>1, <2>2
  <1>13. ReadMoves(l, n, out, slots)
    BY <1>1, <1>2, <1>3, <1>5, <1>7, <1>9, <1>10, <1>11, <1>12, <1>k DEF ReadMoves
  <1> QED
    BY <1>3, <1>5, <1>13

\* The loop ends.
LEMMA ReadClosedTurns ==
  ASSUME TypeOK, NEW l \in Listeners, ReadClosed(l)
  PROVE  LoopTurns(l, "done", loop[l].slots, loop[l].out)
  <1> DEFINE s == [loop[l] EXCEPT !.pc = "done"]
  <1>1. /\ s \in LoopState /\ s.pc = "done" /\ s.slots = loop[l].slots /\ s.out = loop[l].out
    BY DEF TypeOK, LoopState
  <1>2. loop' = [loop EXCEPT ![l] = s]
    BY DEF ReadClosed, TypeOK
  <1> HIDE DEF s
  <1> QED
    BY <1>1, <1>2, LoopTo

\* Enqueueing takes the head of the batch, and reads on when that was the last.
LEMMA EnqueueTurns ==
  ASSUME TypeOK, NEW l \in Listeners, Enqueue(l), loop[l].out # <<>>
  PROVE  \E p \in Packet :
           /\ p = loop[l].out[1] /\ Pops(loop[l].out, Tail(loop[l].out))
           /\ LoopTurns(l, IF Len(loop[l].out) = 1 THEN "read" ELSE "enqueue",
                        loop[l].slots, Tail(loop[l].out))
           /\ \/ /\ p.id \in Truncated \/ Len(queue) = QueueSize
                 /\ Put(p.buf) /\ dropped' = dropped \cup {p.id} /\ queue' = queue
              \/ /\ p.id \notin Truncated /\ Len(queue) < QueueSize
                 /\ queue' = Append(queue, p) /\ Grows(queue, queue', p)
                 /\ queue' \in BoundedSeq(Packet, QueueSize)
                 /\ UNCHANGED <<pool, issued, content, dropped>>
  <1>k. PICK out, pc : /\ out = loop[l].out
                       /\ pc = IF Len(out) = 1 THEN "read" ELSE "enqueue"
    OBVIOUS
  <1>1. /\ out \in Seq(Packet) /\ Len(out) \in 0..BatchSize /\ loop[l].pc = "enqueue"
        /\ queue \in Seq(Packet) /\ Len(queue) \in 0..QueueSize
    BY <1>k, TypeParts DEF Parts, Enqueue
  <1>2. /\ Pops(out, Tail(out)) /\ Tail(out) \in Seq(Packet)
        /\ Head(out) = out[1] /\ Head(out) \in Packet
    BY <1>k, <1>1, PopFacts
  <1>3. Tail(out) \in BoundedSeq(Packet, BatchSize)
    <2>1. Len(Tail(out)) \in 0..BatchSize
      BY <1>1, <1>2, Sizes DEF Pops
    <2> QED
      BY <1>2, <2>1, BoundedSeqIs, Sizes
  <1>4. LoopTurns(l, pc, loop[l].slots, Tail(out))
    <2> DEFINE s == [loop[l] EXCEPT !.out = Tail(out)]
               t == [s EXCEPT !.pc = pc]
    <2>1. s \in LoopState /\ s.slots = loop[l].slots /\ s.out = Tail(out)
      BY <1>3 DEF TypeOK, LoopState
    <2>2. loop' = [loop EXCEPT ![l] = t]
      BY <1>1, <1>k DEF Enqueue, TypeOK
    <2> HIDE DEF s
    <2>3. t \in LoopState /\ t.slots = loop[l].slots /\ t.out = Tail(out) /\ t.pc = pc
      BY <1>k, <2>1 DEF LoopState
    <2> HIDE DEF t
    <2> QED
      BY <2>2, <2>3, LoopTo
  <1>5. PICK p \in Packet : p = Head(out)
    BY <1>2
  <1>6. \/ /\ p.id \in Truncated \/ Len(queue) = QueueSize
           /\ Put(p.buf) /\ dropped' = dropped \cup {p.id} /\ queue' = queue
        \/ /\ p.id \notin Truncated /\ Len(queue) < QueueSize
           /\ queue' = Append(queue, p)
           /\ UNCHANGED <<pool, issued, content, dropped>>
    BY <1>k, <1>5 DEF Enqueue, bufs
  <1>7. ASSUME Len(queue) < QueueSize, queue' = Append(queue, p)
        PROVE  Grows(queue, queue', p) /\ queue' \in BoundedSeq(Packet, QueueSize)
    <2>1. Grows(queue, queue', p) /\ queue' \in Seq(Packet)
      BY <1>1, <1>7, GrowFacts
    <2>2. Len(queue') \in 0..QueueSize
      BY <1>1, <1>7, <2>1, Sizes DEF Grows
    <2> QED
      BY <2>1, <2>2, BoundedSeqIs, Sizes
  <1> QED
    BY <1>2, <1>4, <1>5, <1>6, <1>7, <1>k

\* Taking from the queue.
LEMMA DispatchTurns ==
  ASSUME TypeOK, Dispatch
  PROVE  /\ queue[1] \in Packet /\ dispatcher'.pc = "send" /\ dispatcher'.pkt = queue[1]
         /\ dispatcher' \in DispatcherState
         /\ Pops(queue, queue') /\ queue' \in BoundedSeq(Packet, QueueSize)
  <1>1. queue \in Seq(Packet) /\ Len(queue) \in 0..QueueSize /\ queue # <<>>
    BY TypeParts DEF Parts, Dispatch
  <1>2. /\ Pops(queue, Tail(queue)) /\ Tail(queue) \in Seq(Packet)
        /\ Head(queue) = queue[1] /\ Head(queue) \in Packet
    BY <1>1, PopFacts
  <1>3. Tail(queue) \in BoundedSeq(Packet, QueueSize)
    <2>1. Len(Tail(queue)) \in 0..QueueSize
      BY <1>1, <1>2, Sizes DEF Pops
    <2> QED
      BY <1>2, <2>1, BoundedSeqIs, Sizes
  <1> QED
    BY <1>2, <1>3 DEF Dispatch, DispatcherState

\* Handing over to a shard.
LEMMA SendTurns ==
  ASSUME TypeOK, Send, dispatcher.pkt \in Packet, NEW w \in Workers,
         w = ShardFor(dispatcher.pkt.id)
  PROVE  /\ dispatcher'.pc = "take" /\ dispatcher'.pkt = NoPacket
         /\ dispatcher' \in DispatcherState
         /\ Grows(shard[w], shard'[w], dispatcher.pkt)
         /\ \A v \in Workers \ {w} : shard'[v] = shard[v]
         /\ shard' \in [Workers -> BoundedSeq(Packet, ShardSize)]
  <1>1. /\ shard[w] \in Seq(Packet) /\ Len(shard[w]) \in 0..ShardSize
        /\ Len(shard[w]) < ShardSize
    BY TypeParts DEF Parts, Send
  <1>k. PICK s \in Seq(Packet), p \in Packet : s = shard[w] /\ p = dispatcher.pkt
    BY <1>1
  <1>2. Grows(s, Append(s, p), p) /\ Append(s, p) \in Seq(Packet)
    BY <1>k, <1>1, GrowFacts
  <1>3. Append(s, p) \in BoundedSeq(Packet, ShardSize)
    <2>1. Len(Append(s, p)) \in 0..ShardSize
      BY <1>k, <1>1, <1>2, Sizes DEF Grows
    <2> QED
      BY <1>2, <2>1, BoundedSeqIs, Sizes
  <1>4. /\ shard'[w] = Append(s, p)
        /\ \A v \in Workers \ {w} : shard'[v] = shard[v]
        /\ shard' \in [Workers -> BoundedSeq(Packet, ShardSize)]
    BY <1>k, <1>3 DEF TypeOK, Send
  <1>5. /\ dispatcher'.pc = "take" /\ dispatcher'.pkt = NoPacket
        /\ dispatcher' \in DispatcherState
    BY DEF Send, DispatcherState
  <1> QED
    BY <1>k, <1>2, <1>4, <1>5

\* Each field of a worker's state, whatever the others are.
AnyWorker ==
  [pc: {"take", "decode", "release", "enrich", "lookup", "ingest", "done"},
   pkt: Packet \cup {NoPacket}, db: Readers \cup {None}]

\* Setting one field leaves the others.
LEMMA FieldSet ==
  ASSUME NEW s \in AnyWorker
  PROVE  /\ \A pc \in {"take", "decode", "release", "enrich", "lookup", "ingest", "done"} :
              LET t == [s EXCEPT !.pc = pc] IN
              t \in AnyWorker /\ t.pc = pc /\ t.pkt = s.pkt /\ t.db = s.db
         /\ \A p \in Packet \cup {NoPacket} :
              LET t == [s EXCEPT !.pkt = p] IN
              t \in AnyWorker /\ t.pc = s.pc /\ t.pkt = p /\ t.db = s.db
         /\ \A r \in Readers \cup {None} :
              LET t == [s EXCEPT !.db = r] IN
              t \in AnyWorker /\ t.pc = s.pc /\ t.pkt = s.pkt /\ t.db = r
  BY DEF AnyWorker

\* The combinations of fields a worker's state allows.
LEMMA WorkerStates ==
  ASSUME NEW s \in AnyWorker
  PROVE  s \in WorkerState <=>
           \/ s.pc \in {"take", "done"} /\ s.pkt = NoPacket /\ s.db = None
           \/ /\ s.pc \in {"decode", "release", "enrich", "ingest"}
              /\ s.pkt \in Packet /\ s.db = None
           \/ s.pc = "lookup" /\ s.pkt \in Packet /\ s.db \in Readers
  BY DEF AnyWorker, WorkerState

\* A worker given a new state turns to it.
LEMMA WorkerTo ==
  ASSUME TypeOK, NEW w \in Workers, NEW s \in AnyWorker, worker' = [worker EXCEPT ![w] = s],
         \/ s.pc \in {"take", "done"} /\ s.pkt = NoPacket /\ s.db = None
         \/ /\ s.pc \in {"decode", "release", "enrich", "ingest"}
            /\ s.pkt \in Packet /\ s.db = None
         \/ s.pc = "lookup" /\ s.pkt \in Packet /\ s.db \in Readers
  PROVE  WorkerTurns(w, s.pc, s.pkt, s.db)
  <1>1. s \in WorkerState
    BY WorkerStates
  <1> QED
    BY <1>1 DEF WorkerTurns, TypeOK

\* Moving on keeps the packet; only a look-up holds a reader.
LEMMA DecodeLoopTurns ==
  ASSUME TypeOK, NEW w \in Workers
  PROVE  /\ Decode(w) => WorkerTurns(w, "release", worker[w].pkt, None)
         /\ Release(w) => WorkerTurns(w, "enrich", worker[w].pkt, None)
         /\ LoadReader(w) /\ reader \in Readers =>
              WorkerTurns(w, "lookup", worker[w].pkt, reader)
         /\ LookUp(w) => WorkerTurns(w, "ingest", worker[w].pkt, None)
         /\ Ingest(w) => WorkerTurns(w, "take", NoPacket, None)
         /\ ShardEnded(w) => WorkerTurns(w, "done", NoPacket, None)
  <1>k. PICK s : s = worker[w]
    OBVIOUS
  <1>p. /\ s.pc \in {"take", "done"} => s.pkt = NoPacket /\ s.db = None
        /\ s.pc \in {"decode", "release", "enrich", "ingest"} => s.pkt \in Packet /\ s.db = None
        /\ s.pc = "lookup" => s.pkt \in Packet /\ s.db \in Readers
    BY <1>k, TypeParts DEF Parts
  <1>s. s \in AnyWorker
    BY <1>k DEF TypeOK, WorkerState, AnyWorker
  <1>1. ASSUME Decode(w)
        PROVE  WorkerTurns(w, "release", s.pkt, None)
    <2> DEFINE t == [s EXCEPT !.pc = "release"]
    <2>1. worker' = [worker EXCEPT ![w] = t]
      BY <1>1, <1>k DEF Decode, Go, TypeOK
    <2>2. t \in AnyWorker /\ t.pc = "release" /\ t.pkt = s.pkt /\ t.db = s.db
      BY <1>s, FieldSet
    <2> HIDE DEF t
    <2> QED
      BY <1>1, <1>k, <1>p, <2>1, <2>2, WorkerTo DEF Decode
  <1>2. ASSUME Release(w)
        PROVE  WorkerTurns(w, "enrich", s.pkt, None)
    <2> DEFINE t == [s EXCEPT !.pc = "enrich"]
    <2>1. worker' = [worker EXCEPT ![w] = t]
      BY <1>2, <1>k DEF Release, Go, TypeOK
    <2>2. t \in AnyWorker /\ t.pc = "enrich" /\ t.pkt = s.pkt /\ t.db = s.db
      BY <1>s, FieldSet
    <2> HIDE DEF t
    <2> QED
      BY <1>2, <1>k, <1>p, <2>1, <2>2, WorkerTo DEF Release
  <1>3. ASSUME LoadReader(w), reader \in Readers
        PROVE  WorkerTurns(w, "lookup", s.pkt, reader)
    <2>r. PICK r \in Readers : r = reader
      BY <1>3
    <2> DEFINE t == [s EXCEPT !.pc = "lookup"]
               u == [t EXCEPT !.db = r]
    <2>1. worker' = [worker EXCEPT ![w] = u]
      BY <1>3, <1>k, <2>r DEF LoadReader, TypeOK
    <2>2. t \in AnyWorker /\ t.pc = "lookup" /\ t.pkt = s.pkt /\ t.db = s.db
      BY <1>s, FieldSet
    <2> HIDE DEF t
    <2>3. /\ u \in AnyWorker /\ u.pc = "lookup"
          /\ u.pkt = s.pkt /\ u.db = r
      BY <2>2 DEF AnyWorker
    <2> HIDE DEF u
    <2> QED
      BY <1>3, <1>k, <1>p, <2>1, <2>3, <2>r, WorkerTo DEF LoadReader
  <1>4. ASSUME LookUp(w)
        PROVE  WorkerTurns(w, "ingest", s.pkt, None)
    <2> DEFINE t == [s EXCEPT !.pc = "ingest"]
               u == [t EXCEPT !.db = None]
    <2>1. worker' = [worker EXCEPT ![w] = u]
      BY <1>4, <1>k DEF LookUp, TypeOK
    <2>2. t \in AnyWorker /\ t.pc = "ingest" /\ t.pkt = s.pkt /\ t.db = s.db
      BY <1>s, FieldSet
    <2> HIDE DEF t
    <2>3. /\ u \in AnyWorker /\ u.pc = "ingest"
          /\ u.pkt = s.pkt /\ u.db = None
      BY <2>2 DEF AnyWorker
    <2> HIDE DEF u
    <2> QED
      BY <1>4, <1>k, <1>p, <2>1, <2>3, WorkerTo DEF LookUp
  <1>5. ASSUME Ingest(w)
        PROVE  WorkerTurns(w, "take", NoPacket, None)
    <2> DEFINE t == [s EXCEPT !.pc = "take"]
               u == [t EXCEPT !.pkt = NoPacket]
    <2>1. worker' = [worker EXCEPT ![w] = u]
      BY <1>5, <1>k DEF Ingest, TypeOK
    <2>2. t \in AnyWorker /\ t.pc = "take" /\ t.pkt = s.pkt /\ t.db = s.db
      BY <1>s, FieldSet
    <2> HIDE DEF t
    <2>3. /\ u \in AnyWorker /\ u.pc = "take"
          /\ u.pkt = NoPacket /\ u.db = s.db
      BY <2>2 DEF AnyWorker
    <2> HIDE DEF u
    <2> QED
      BY <1>5, <1>k, <1>p, <2>1, <2>3, WorkerTo DEF Ingest
  <1>6. ASSUME ShardEnded(w)
        PROVE  WorkerTurns(w, "done", NoPacket, None)
    <2> DEFINE t == [s EXCEPT !.pc = "done"]
    <2>1. worker' = [worker EXCEPT ![w] = t]
      BY <1>6, <1>k DEF ShardEnded, Go, TypeOK
    <2>2. t \in AnyWorker /\ t.pc = "done" /\ t.pkt = s.pkt /\ t.db = s.db
      BY <1>s, FieldSet
    <2> HIDE DEF t
    <2> QED
      BY <1>6, <1>k, <1>p, <2>1, <2>2, WorkerTo DEF ShardEnded
  <1> QED
    BY <1>k, <1>1, <1>2, <1>3, <1>4, <1>5, <1>6

\* Taking from a shard.
LEMMA TakeTurns ==
  ASSUME TypeOK, NEW w \in Workers, Take(w)
  PROVE  /\ shard[w][1] \in Packet /\ WorkerTurns(w, "decode", shard[w][1], None)
         /\ Pops(shard[w], shard'[w]) /\ \A v \in Workers \ {w} : shard'[v] = shard[v]
         /\ shard' \in [Workers -> BoundedSeq(Packet, ShardSize)]
  <1>k. PICK s : s = shard[w]
    OBVIOUS
  <1>1. s \in Seq(Packet) /\ Len(s) \in 0..ShardSize /\ s # <<>>
    BY <1>k, TypeParts DEF Parts, Take
  <1>2. /\ Pops(s, Tail(s)) /\ Tail(s) \in Seq(Packet)
        /\ Head(s) = s[1] /\ Head(s) \in Packet
    BY <1>1, PopFacts
  <1>3. Tail(s) \in BoundedSeq(Packet, ShardSize)
    <2>1. Len(Tail(s)) \in 0..ShardSize
      BY <1>1, <1>2, Sizes DEF Pops
    <2> QED
      BY <1>2, <2>1, BoundedSeqIs, Sizes
  <1>4. /\ shard'[w] = Tail(s) /\ \A v \in Workers \ {w} : shard'[v] = shard[v]
        /\ shard' \in [Workers -> BoundedSeq(Packet, ShardSize)]
    BY <1>k, <1>3 DEF Take, TypeOK
  <1>5. WorkerTurns(w, "decode", s[1], None)
    <2>1. worker[w] \in AnyWorker /\ worker[w].db = None
      BY TypeParts DEF TypeOK, Parts, WorkerState, AnyWorker, Take
    <2> DEFINE t == [worker[w] EXCEPT !.pc = "decode"]
               u == [t EXCEPT !.pkt = s[1]]
    <2>2. worker' = [worker EXCEPT ![w] = u]
      <3>1. worker' = [worker EXCEPT ![w].pc = "decode", ![w].pkt = s[1]]
        BY <1>k, <1>2 DEF Take
      <3> QED
        BY <3>1 DEF TypeOK
    <2>3. t \in AnyWorker /\ t.pc = "decode" /\ t.db = None
      BY <2>1 DEF AnyWorker
    <2> HIDE DEF t
    <2>4. u \in AnyWorker /\ u.pc = "decode" /\ u.pkt = s[1] /\ u.db = None
      BY <1>2, <2>3 DEF AnyWorker
    <2> HIDE DEF u
    <2> QED
      BY <1>2, <2>2, <2>4, WorkerTo
  <1> QED
    BY <1>k, <1>2, <1>4, <1>5

-----------------------------------------------------------------------------
(* The inductive invariant. *)

\* The stages close from the sockets on, each after the one before it and when
\* it has nothing left; the database closes last.
StagesOK ==
  /\ \A l \in Listeners : loop[l].pc = "enqueue" <=> loop[l].out # <<>>
  /\ dispatcher.pc = "send" <=> dispatcher.pkt \in Packet
  /\ queueClosed => \A l \in Listeners : loop[l].pc = "done"
  /\ dispatcher.pc = "done" <=> shardsClosed
  /\ shardsClosed => queueClosed /\ queue = <<>>
  /\ \A w \in Workers : worker[w].pc = "done" => shardsClosed /\ shard[w] = <<>>
  /\ main \in {"drained", "exited"} =>
       /\ queueClosed /\ dispatcher.pc = "done"
       /\ \A w \in Workers : worker[w].pc = "done"
  /\ main # "exited" => reader \in Readers /\ closed = {}

\* A worker has the packets of the exporters that hash to it.
RoutedOK ==
  \A w \in Workers :
    /\ \A i \in 1..Len(shard[w]) : ShardFor(shard[w][i].id) = w
    /\ worker[w].pkt \in Packet => ShardFor(worker[w].pkt.id) = w

\* A datagram read is consumed, dropped, or somewhere between.
InBatch(d) == \E l \in Listeners : \E i \in 1..Len(loop[l].out) : loop[l].out[i].id = d
InQueue(d) == \E i \in 1..Len(queue) : queue[i].id = d
InDispatch(d) == dispatcher.pkt.id = d
InShard(d) == \E w \in Workers : \E i \in 1..Len(shard[w]) : shard[w][i].id = d
InWork(d) == \E w \in Workers : worker[w].pkt.id = d

Arrived(d) ==
  \/ InBatch(d) \/ InQueue(d) \/ InDispatch(d) \/ InShard(d) \/ InWork(d)
  \/ d \in consumed \cup dropped

AccountedOK ==
  \A l \in Listeners : \A i \in 1..Len(Arrivals[l]) :
    \/ \E j \in 1..Len(socket[l]) : socket[l][j] = Arrivals[l][i]
    \/ Arrived(Arrivals[l][i])

\* Each buffer made is in one place: the pool, a reader's slot, or with the one
\* packet it holds, on its way to the decoder.  A placement says where each is:
\* at which stage, in whose hands, and how far from the head of the line.
At(place, b, stage, owner, pos) ==
  place.stage[b] = stage /\ place.owner[b] = owner /\ place.pos[b] = pos

Placed(place) ==
  /\ \A b \in Buffers : place.pos[b] \in Int
  /\ \A b \in Buffers \ issued : place.stage[b] = "unmade"
  /\ \A b \in pool : place.stage[b] = "pool"
  /\ \A l \in Listeners : \A i \in 1..Len(loop[l].slots) :
       At(place, loop[l].slots[i], "slot", l, i)
  /\ \A l \in Listeners : \A i \in 1..Len(loop[l].out) :
       At(place, loop[l].out[i].buf, "batch", l, i)
  /\ \A i \in 1..Len(queue) : At(place, queue[i].buf, "queue", None, i)
  /\ dispatcher.pc = "send" => At(place, dispatcher.pkt.buf, "send", None, 0)
  /\ \A w \in Workers : \A i \in 1..Len(shard[w]) :
       At(place, shard[w][i].buf, "shard", w, i)
  /\ \A w \in Workers : worker[w].pc \in {"decode", "release"} =>
       At(place, worker[w].pkt.buf, "decode", w, 0)

BuffersOK == \E place : Placed(place)

\* What every packet on its way says of its buffer.
Intact(p) == content[p.buf] = p.id

IntactOK ==
  /\ \A l \in Listeners : \A i \in 1..Len(loop[l].out) : Intact(loop[l].out[i])
  /\ \A i \in 1..Len(queue) : Intact(queue[i])
  /\ dispatcher.pc = "send" => Intact(dispatcher.pkt)
  /\ \A w \in Workers : \A i \in 1..Len(shard[w]) : Intact(shard[w][i])
  /\ \A w \in Workers : worker[w].pc \in {"decode", "release"} => Intact(worker[w].pkt)

Inv == TypeOK /\ StagesOK /\ RoutedOK /\ AccountedOK /\ BuffersOK /\ IntactOK

-----------------------------------------------------------------------------
(* Types, and the order in which the stages close. *)

\* No read loop breaks a type.
LEMMA ReadLoopTypeOK ==
  ASSUME TypeOK, StagesOK, NEW l \in Listeners, ReadLoop(l)
  PROVE  TypeOK'
  <1> USE DEF TypeOK
  <1>1. CASE Refill(l)
    <2>1. PICK b \in pool \cup NewBuffer :
            /\ b \in Buffers /\ LoopTurns(l, "read", Append(loop[l].slots, b), loop[l].out)
            /\ pool' = pool \ {b} /\ issued' = issued \cup {b}
      BY <1>1, RefillTurns
    <2> QED
      BY <1>1, <2>1 DEF Refill, LoopTurns, database, outcome
  <1>2. CASE Read(l)
    <2>1. PICK n \in 1..BatchSize, out \in Seq(Packet), slots \in Seq(Buffers) :
            ReadMoves(l, n, out, slots)
      BY <1>2, ReadTurns
    <2> QED
      BY <1>2, <2>1 DEF Read, ReadMoves, LoopTurns, database, outcome
  <1>3. CASE ReadClosed(l)
    <2>1. loop' \in [Listeners -> LoopState]
      BY <1>3, ReadClosedTurns DEF LoopTurns
    <2> QED
      BY <1>3, <2>1 DEF ReadClosed, bufs, database, outcome
  <1>4. CASE Enqueue(l)
    <2>1. PICK p \in Packet :
            /\ LoopTurns(l, IF Len(loop[l].out) = 1 THEN "read" ELSE "enqueue",
                         loop[l].slots, Tail(loop[l].out))
            /\ \/ Put(p.buf) /\ dropped' = dropped \cup {p.id} /\ queue' = queue
               \/ /\ queue' \in BoundedSeq(Packet, QueueSize)
                  /\ UNCHANGED <<pool, issued, content, dropped>>
      BY <1>4, EnqueueTurns DEF StagesOK, Enqueue
    <2>2. loop' \in [Listeners -> LoopState]
      BY <2>1 DEF LoopTurns
    <2>3. /\ queue' \in BoundedSeq(Packet, QueueSize)
          /\ pool' \subseteq Buffers /\ issued' = issued /\ content' = content
          /\ dropped' \subseteq Datagrams
      BY <2>1, Sizes DEF Put
    <2> QED
      BY <1>4, <2>2, <2>3 DEF Enqueue, database
  <1> QED
    BY <1>1, <1>2, <1>3, <1>4 DEF ReadLoop

\* No worker breaks a type.
LEMMA DecodeLoopTypeOK ==
  ASSUME TypeOK, StagesOK, NEW w \in Workers, DecodeLoop(w)
  PROVE  TypeOK'
  <1> USE DEF TypeOK
  <1>p. worker[w].pc \in {"decode", "release", "enrich", "ingest", "lookup"} =>
          /\ worker[w].pkt.id \in Datagrams /\ worker[w].pkt.buf \in Buffers
          /\ reader \in Readers
    BY TypeParts, Sizes DEF Parts, StagesOK
  <1>1. CASE Take(w)
    <2>1. worker' \in [Workers -> WorkerState]
          /\ shard' \in [Workers -> BoundedSeq(Packet, ShardSize)]
      BY <1>1, TakeTurns DEF WorkerTurns
    <2> QED
      BY <1>1, <2>1 DEF Take, bufs, database, outcome
  <1>2. CASE Decode(w)
    <2>1. worker' \in [Workers -> WorkerState]
      BY <1>2, DecodeLoopTurns DEF WorkerTurns
    <2>2. decoded' \in Seq(Datagrams)
      BY <1>p, <1>2, AppendProperties DEF Decode
    <2> QED
      BY <1>2, <2>1, <2>2 DEF Decode, stages, bufs, database
  <1>3. CASE Release(w)
    <2>1. worker' \in [Workers -> WorkerState]
      BY <1>3, DecodeLoopTurns DEF WorkerTurns
    <2> QED
      BY <1>p, <1>3, <2>1 DEF Release, Put, stages, database, outcome
  <1>4. CASE LoadReader(w) \/ LookUp(w) \/ ShardEnded(w)
    <2>1. worker' \in [Workers -> WorkerState]
      BY <1>p, <1>4, DecodeLoopTurns DEF WorkerTurns, LoadReader
    <2> QED
      BY <1>4, <2>1 DEF LoadReader, LookUp, ShardEnded, stages, bufs, database, outcome
  <1>5. CASE Ingest(w)
    <2>1. worker' \in [Workers -> WorkerState]
      BY <1>5, DecodeLoopTurns DEF WorkerTurns
    <2> QED
      BY <1>p, <1>5, <2>1 DEF Ingest, stages, bufs, database
  <1> QED
    BY <1>1, <1>2, <1>3, <1>4, <1>5 DEF DecodeLoop

\* No step breaks a type.
LEMMA NextTypeOK ==
  ASSUME TypeOK, StagesOK, [Next]_vars
  PROVE  TypeOK'
  <1> USE DEF TypeOK
  <1>1. CASE Dispatch
    BY <1>1, DispatchTurns DEF Dispatch, bufs, database, outcome
  <1>2. CASE Send
    <2>1. PICK p \in Packet : p = dispatcher.pkt
      BY <1>2 DEF Send, StagesOK
    <2>2. PICK w \in Workers : w = ShardFor(p.id)
      BY Sizes, PipelineAssumption DEF ShardFor
    <2>3. /\ dispatcher' \in DispatcherState
          /\ shard' \in [Workers -> BoundedSeq(Packet, ShardSize)]
      BY <1>2, <2>1, <2>2, SendTurns
    <2> QED
      BY <1>2, <2>3 DEF Send, bufs, database, outcome
  <1>3. CASE CloseShards
    <2>1. dispatcher' \in DispatcherState
      BY <1>3 DEF CloseShards, DispatcherState
    <2> QED
      BY <1>3, <2>1 DEF CloseShards, bufs, database, outcome
  <1>4. CASE CloseConns \/ CloseQueue
    BY <1>4 DEF CloseConns, CloseQueue, bufs, database, outcome
  <1>5. CASE Reload \/ Stop \/ Await
    BY <1>5 DEF Reload, Stop, Await, stages, bufs, database, outcome
  <1>6. CASE CloseChain
    <2>1. reader \in Readers
      BY <1>6 DEF CloseChain, StagesOK
    <2> QED
      BY <1>6, <2>1 DEF CloseChain, stages, bufs, outcome
  <1>7. CASE UNCHANGED vars
    BY <1>7 DEF vars, stages, bufs, database, outcome
  <1> QED
    BY <1>1, <1>2, <1>3, <1>4, <1>5, <1>6, <1>7, ReadLoopTypeOK, DecodeLoopTypeOK
    DEF Next, Dispatcher, Shutdown, Exited

\* No read loop runs once the queue is closed, so none disturbs the order.
LEMMA ReadLoopStagesOK ==
  ASSUME TypeOK, StagesOK, NEW l \in Listeners, ReadLoop(l)
  PROVE  StagesOK'
  <1>1. loop[l].pc # "done"
    BY DEF ReadLoop, Refill, Read, ReadClosed, Enqueue
  <1>2. ~queueClosed /\ ~shardsClosed /\ main \notin {"drained", "exited"}
    BY <1>1 DEF StagesOK
  <1>3. UNCHANGED <<queueClosed, dispatcher, shardsClosed, worker, shard, main, reader, closed>>
    BY DEF ReadLoop, Refill, Read, ReadClosed, Enqueue, database, outcome
  <1>4. /\ \A k \in Listeners \ {l} : loop'[k] = loop[k]
        /\ loop'[l].pc = "enqueue" <=> loop'[l].out # <<>>
    <2>1. CASE Refill(l)
      BY <2>1, RefillTurns DEF LoopTurns, StagesOK, Refill
    <2>2. CASE Read(l)
      <3>1. PICK n \in 1..BatchSize, out \in Seq(Packet), slots \in Seq(Buffers) :
              ReadMoves(l, n, out, slots)
        BY <2>2, ReadTurns
      <3>2. out # <<>>
        BY <3>1, Sizes DEF ReadMoves
      <3> QED
        BY <3>1, <3>2 DEF ReadMoves, LoopTurns
    <2>3. CASE ReadClosed(l)
      BY <2>3, ReadClosedTurns DEF LoopTurns, StagesOK, ReadClosed
    <2>4. CASE Enqueue(l)
      <3>1. LoopTurns(l, IF Len(loop[l].out) = 1 THEN "read" ELSE "enqueue",
                      loop[l].slots, Tail(loop[l].out))
            /\ Pops(loop[l].out, Tail(loop[l].out))
        BY <2>4, EnqueueTurns DEF Enqueue, StagesOK
      <3>2. loop[l].out \in Seq(Packet) /\ loop[l].out # <<>>
        BY <2>4, TypeParts DEF Parts, Enqueue, StagesOK
      <3>3. PICK n \in Nat : n = Len(loop[l].out)
        BY <3>2, LenProperties
      <3>4. Tail(loop[l].out) \in Seq(Packet) /\ Len(Tail(loop[l].out)) = n - 1
        BY <3>2, <3>3, PopFacts DEF Pops
      <3>5. Tail(loop[l].out) = <<>> <=> n = 1
        <4>1. PICK t \in Seq(Packet) : t = Tail(loop[l].out) /\ Len(t) = n - 1
          BY <3>4
        <4>2. t = <<>> => Len(t) = 0
          BY EmptySeq
        <4>3. t # <<>> => Len(t) # 0
          BY EmptySeq
        <4> QED
          BY <3>3, <4>1, <4>2, <4>3
      <3> QED
        BY <3>1, <3>3, <3>5 DEF LoopTurns
    <2> QED
      BY <2>1, <2>2, <2>3, <2>4 DEF ReadLoop
  <1> QED
    BY <1>2, <1>3, <1>4 DEF StagesOK

\* A worker ends only when its shard has, and nothing comes after that.
LEMMA DecodeLoopStagesOK ==
  ASSUME TypeOK, StagesOK, NEW w \in Workers, DecodeLoop(w)
  PROVE  StagesOK'
  <1>1. worker[w].pc # "done" /\ main \notin {"drained", "exited"} /\ reader \in Readers
    BY DEF DecodeLoop, Take, Decode, Release, LoadReader, LookUp, Ingest, ShardEnded, StagesOK
  <1>2. UNCHANGED <<loop, queue, queueClosed, dispatcher, shardsClosed, main, reader, closed>>
    BY DEF DecodeLoop, Take, Decode, Release, LoadReader, LookUp, Ingest, ShardEnded, stages,
           bufs, database, outcome
  <1>3. \A v \in Workers : worker'[v].pc = "done" => shardsClosed /\ shard'[v] = <<>>
    <2>1. CASE Take(w)
      BY <2>1, TakeTurns DEF WorkerTurns, StagesOK
    <2>2. CASE ShardEnded(w)
      <3>1. /\ WorkerTurns(w, "done", NoPacket, None)
            /\ shard' = shard /\ shard[w] = <<>> /\ shardsClosed
        BY <2>2, DecodeLoopTurns DEF ShardEnded, stages
      <3> QED
        BY <3>1 DEF WorkerTurns, StagesOK
    <2>3. CASE Decode(w) \/ Release(w) \/ LoadReader(w) \/ LookUp(w) \/ Ingest(w)
      <3>1. shard' = shard
        BY <2>3 DEF Decode, Release, LoadReader, LookUp, Ingest, stages
      <3>2. \E pc \in {"release", "enrich", "lookup", "ingest", "take"} : \E p, db :
              WorkerTurns(w, pc, p, db)
        BY <1>1, <2>3, DecodeLoopTurns
      <3> QED
        BY <3>1, <3>2 DEF WorkerTurns, StagesOK
    <2> QED
      BY <2>1, <2>2, <2>3 DEF DecodeLoop
  <1> QED
    BY <1>1, <1>2, <1>3 DEF StagesOK

\* No step closes a stage before what feeds it has ended.
LEMMA NextStagesOK ==
  ASSUME TypeOK, StagesOK, [Next]_vars
  PROVE  StagesOK'
  <1>d. NoPacket \notin Packet /\ dispatcher.pkt \in Packet \cup {NoPacket}
    BY Sizes, TypeParts DEF Parts
  <1>1. CASE Dispatch
    <2>1. dispatcher'.pc = "send" /\ dispatcher'.pkt \in Packet /\ ~shardsClosed
      BY <1>1, DispatchTurns DEF Dispatch, StagesOK
    <2>2. UNCHANGED <<loop, queueClosed, shard, shardsClosed, worker, main, reader, closed>>
      BY <1>1 DEF Dispatch, database
    <2> QED
      BY <2>1, <2>2 DEF StagesOK
  <1>2. CASE Send
    <2>0. PICK p \in Packet : p = dispatcher.pkt
      BY <1>2 DEF Send, StagesOK
    <2>w. PICK w \in Workers : w = ShardFor(p.id)
      BY Sizes, PipelineAssumption DEF ShardFor
    <2>1. dispatcher'.pc = "take" /\ dispatcher'.pkt = NoPacket
      BY <1>2, <2>0, <2>w, SendTurns
    <2>2. /\ UNCHANGED <<loop, queue, queueClosed, shardsClosed, worker, main, reader, closed>>
          /\ ~shardsClosed
      BY <1>2 DEF Send, database, StagesOK
    <2> QED
      BY <1>d, <2>1, <2>2 DEF StagesOK
  <1>3. CASE CloseShards
    <2>1. dispatcher'.pc = "done" /\ dispatcher'.pkt = dispatcher.pkt /\ dispatcher.pkt \notin Packet
      BY <1>3 DEF CloseShards, TypeOK, DispatcherState, StagesOK
    <2>2. /\ UNCHANGED <<loop, queue, queueClosed, shard, worker, main, reader, closed>>
          /\ queueClosed /\ queue = <<>> /\ shardsClosed'
      BY <1>3 DEF CloseShards, database
    <2> QED
      BY <2>1, <2>2 DEF StagesOK
  <1>4. CASE CloseConns \/ CloseQueue
    BY <1>4 DEF CloseConns, CloseQueue, database, StagesOK
  <1>5. CASE Reload \/ Stop \/ Await
    <2>1. UNCHANGED <<loop, queue, queueClosed, dispatcher, shard, shardsClosed, worker, closed>>
      BY <1>5 DEF Reload, Stop, Await, stages, database
    <2>2. CASE Reload
      <3>1. reader' \in Readers /\ main' = main
        BY <2>2 DEF Reload
      <3> QED
        BY <2>1, <3>1 DEF StagesOK
    <2>3. CASE Stop
      BY <2>1, <2>3 DEF Stop, StagesOK, database
    <2>4. CASE Await
      BY <2>1, <2>4 DEF Await, StagesOK, database
    <2> QED
      BY <1>5, <2>2, <2>3, <2>4
  <1>6. CASE CloseChain
    BY <1>6 DEF CloseChain, StagesOK, stages, bufs, outcome
  <1>7. CASE UNCHANGED vars
    BY <1>7 DEF vars, stages, bufs, database, outcome, StagesOK
  <1> QED
    BY <1>1, <1>2, <1>3, <1>4, <1>5, <1>6, <1>7, ReadLoopStagesOK, DecodeLoopStagesOK
    DEF Next, Dispatcher, Shutdown, Exited

-----------------------------------------------------------------------------
(* Whose packets a worker has. *)

\* A packet in hand or in a shard stays with its worker.
LEMMA NextRoutedOK ==
  ASSUME TypeOK, StagesOK, RoutedOK, [Next]_vars
  PROVE  RoutedOK'
  <1>n. NoPacket \notin Packet /\ \A w \in Workers : Len(shard[w]) \in Nat
    BY Sizes, TypeParts DEF Parts
  <1>f. \A p : ShardFor(p.id)' = ShardFor(p.id)
    BY DEF ShardFor
  <1>1. ASSUME NEW w \in Workers, Take(w) PROVE RoutedOK'
    <2>1. /\ shard[w][1] \in Packet /\ WorkerTurns(w, "decode", shard[w][1], None)
          /\ Pops(shard[w], shard'[w]) /\ \A v \in Workers \ {w} : shard'[v] = shard[v]
      BY <1>1, TakeTurns
    <2>2. 1 \in 1..Len(shard[w])
          /\ \A i \in 1..Len(shard'[w]) : i + 1 \in 1..Len(shard[w])
                                          /\ shard'[w][i] = shard[w][i + 1]
      BY <1>n, <2>1 DEF Pops
    <2>3. ShardFor(shard[w][1].id) = w
      BY <2>2 DEF RoutedOK
    <2>4. ASSUME NEW v \in Workers
          PROVE  /\ \A i \in 1..Len(shard'[v]) : ShardFor(shard'[v][i].id) = v
                 /\ worker'[v].pkt \in Packet => ShardFor(worker'[v].pkt.id) = v
      <3>1. CASE v = w
        BY <2>1, <2>2, <2>3, <3>1 DEF RoutedOK, WorkerTurns
      <3>2. CASE v # w
        BY <2>1, <3>2 DEF RoutedOK, WorkerTurns
      <3> QED
        BY <3>1, <3>2
    <2> QED
      BY <2>4 DEF RoutedOK, ShardFor
  <1>2. ASSUME NEW w \in Workers,
               Decode(w) \/ Release(w) \/ LoadReader(w) \/ LookUp(w) \/ Ingest(w) \/ ShardEnded(w)
        PROVE  RoutedOK'
    <2>1. shard' = shard
      BY <1>2 DEF Decode, Release, LoadReader, LookUp, Ingest, ShardEnded, stages
    <2>2. LoadReader(w) => reader \in Readers
      BY DEF LoadReader, StagesOK
    <2>3. \E pc, db : \E p \in {worker[w].pkt, NoPacket} : WorkerTurns(w, pc, p, db)
      BY <1>2, <2>2, DecodeLoopTurns
    <2>4. /\ \A v \in Workers \ {w} : worker'[v] = worker[v]
          /\ worker'[w].pkt = worker[w].pkt \/ worker'[w].pkt \notin Packet
      BY <1>n, <2>3 DEF WorkerTurns
    <2> QED
      BY <2>1, <2>4 DEF RoutedOK, ShardFor
  <1>3. CASE Send
    <2>0. PICK p \in Packet : p = dispatcher.pkt
      BY <1>3 DEF Send, StagesOK
    <2>w. PICK w \in Workers : w = ShardFor(p.id)
      BY Sizes, PipelineAssumption DEF ShardFor
    <2>1. Grows(shard[w], shard'[w], p) /\ \A v \in Workers \ {w} : shard'[v] = shard[v]
      BY <1>3, <2>0, <2>w, SendTurns
    <2>2. \A i \in 1..Len(shard'[w]) :
            \/ i \in 1..Len(shard[w]) /\ shard'[w][i] = shard[w][i]
            \/ shard'[w][i] = p
      BY <1>n, <2>1 DEF Grows
    <2>3. worker' = worker
      BY <1>3 DEF Send
    <2>4. \A v \in Workers : \A i \in 1..Len(shard[v]) : ShardOf[SourceOf[shard[v][i].id]] = v
      BY DEF RoutedOK, ShardFor
    <2>5. ShardOf[SourceOf[p.id]] = w
      BY <2>w DEF ShardFor
    <2>6. ASSUME NEW v \in Workers, NEW i \in 1..Len(shard'[v])
          PROVE  ShardOf[SourceOf[shard'[v][i].id]] = v
      <3>1. CASE v = w
        BY <2>2, <2>4, <2>5, <3>1
      <3>2. CASE v # w
        BY <2>1, <2>4, <3>2
      <3> QED
        BY <3>1, <3>2
    <2> QED
      BY <2>3, <2>6 DEF RoutedOK, ShardFor
  <1>4. CASE UNCHANGED <<shard, worker>>
    BY <1>4 DEF RoutedOK, ShardFor
  <1> QED
    BY <1>1, <1>2, <1>3, <1>4
    DEF Next, ReadLoop, Refill, Read, ReadClosed, Enqueue, Dispatcher, Dispatch, CloseShards,
        DecodeLoop, Reload, Stop, Shutdown, CloseConns, CloseQueue, Await, CloseChain, Exited,
        vars, stages, bufs, database, outcome

-----------------------------------------------------------------------------
(* What becomes of a datagram. *)

\* A read moves datagrams from the socket into the batch.
LEMMA ReadArrived ==
  ASSUME TypeOK, StagesOK, AccountedOK, NEW l \in Listeners, Read(l)
  PROVE  AccountedOK'
  <1>1. PICK n \in 1..BatchSize, out \in Seq(Packet), slots \in Seq(Buffers) :
          ReadMoves(l, n, out, slots)
    BY ReadTurns
  <1>2. loop[l].out = <<>> /\ Len(loop[l].out) = 0
    <2>1. loop[l].out = <<>>
      BY DEF Read, StagesOK
    <2> QED
      BY <2>1, EmptySeq
  <1>3. UNCHANGED <<queue, dispatcher, shard, worker, consumed, dropped>>
    BY DEF Read, outcome
  <1>4. /\ \A k \in Listeners \ {l} : loop'[k] = loop[k] /\ socket'[k] = socket[k]
        /\ loop'[l].out = out /\ Len(out) = n /\ n \in Nat
        /\ \A i \in 1..n : out[i].id = socket[l][i]
        /\ Len(socket'[l]) = Len(socket[l]) - n
        /\ \A i \in 1..Len(socket'[l]) : socket'[l][i] = socket[l][n + i]
    BY <1>1, Sizes DEF ReadMoves, LoopTurns
  <1>5. \A d : InBatch(d) => InBatch(d)'
    BY <1>2, <1>4 DEF InBatch
  <1>6. \A d : Arrived(d) => Arrived(d)'
    BY <1>3, <1>5 DEF Arrived, InQueue, InDispatch, InShard, InWork
  <1>7. ASSUME NEW j \in 1..Len(socket[l]), NEW d, socket[l][j] = d
        PROVE  (\E k \in 1..Len(socket'[l]) : socket'[l][k] = d) \/ InBatch(d)'
    <2>0. Len(socket[l]) \in Nat /\ j \in Nat
      BY TypeParts, LenProperties DEF Parts
    <2>1. CASE j <= n
      <3>1. j \in 1..n
        BY <1>4, <2>0, <2>1
      <3>2. j \in 1..Len(loop'[l].out) /\ loop'[l].out[j].id = d
        BY <1>4, <1>7, <3>1
      <3> QED
        BY <3>2 DEF InBatch
    <2>2. CASE j > n
      <3>1. PICK k \in Nat : k = j - n
        BY <1>4, <2>0, <2>2
      <3>2. k \in 1..Len(socket'[l]) /\ n + k = j
        BY <1>4, <2>0, <2>2, <3>1
      <3> QED
        BY <1>4, <1>7, <3>2
    <2> QED
      BY <1>4, <2>0, <2>1, <2>2
  <1>8. ASSUME NEW k \in Listeners, NEW i \in 1..Len(Arrivals[k])
        PROVE  \/ \E j \in 1..Len(socket'[k]) : socket'[k][j] = Arrivals[k][i]
               \/ Arrived(Arrivals[k][i])'
    <2>d. PICK d : d = Arrivals[k][i]
      OBVIOUS
    <2>1. CASE Arrived(d)
      BY <1>6, <2>d, <2>1
    <2>2. CASE \E j \in 1..Len(socket[k]) : socket[k][j] = d
      <3>1. CASE k = l
        <4>1. (\E j \in 1..Len(socket'[l]) : socket'[l][j] = d) \/ InBatch(d)'
          BY <1>7, <2>2, <3>1
        <4>2. InBatch(d)' => Arrived(d)'
          BY DEF Arrived
        <4> QED
          BY <2>d, <3>1, <4>1, <4>2
      <3>2. CASE k # l
        BY <1>4, <2>d, <2>2, <3>2
      <3> QED
        BY <3>1, <3>2
    <2> QED
      BY <2>d, <2>1, <2>2 DEF AccountedOK
  <1> QED
    BY <1>8 DEF AccountedOK

\* Past the socket, a step moves a datagram on, or counts it.
LEMMA MovesArrived ==
  ASSUME TypeOK, StagesOK, [Next]_vars, \A l \in Listeners : ~Read(l),
         NEW d \in Datagrams, Arrived(d)
  PROVE  Arrived(d)'
  <1>n. /\ d # None /\ NoPacket.id = None
        /\ \A l \in Listeners : Len(loop[l].out) \in Nat
        /\ Len(queue) \in Nat /\ \A w \in Workers : Len(shard[w]) \in Nat
    BY Sizes, PipelineAssumption, TypeParts DEF Parts
  <1> USE DEF Arrived
  <1>1. ASSUME NEW l \in Listeners, Refill(l) \/ ReadClosed(l) PROVE Arrived(d)'
    <2>1. \A k \in Listeners : loop'[k].out = loop[k].out
      BY <1>1, RefillTurns, ReadClosedTurns DEF LoopTurns
    <2>2. UNCHANGED <<queue, dispatcher, shard, worker, consumed, dropped>>
      BY <1>1 DEF Refill, ReadClosed, outcome
    <2> QED
      BY <2>1, <2>2 DEF InBatch, InQueue, InDispatch, InShard, InWork
  <1>2. ASSUME NEW l \in Listeners, Enqueue(l) PROVE Arrived(d)'
    <2>1. PICK p \in Packet :
            /\ p = loop[l].out[1] /\ Pops(loop[l].out, Tail(loop[l].out))
            /\ LoopTurns(l, IF Len(loop[l].out) = 1 THEN "read" ELSE "enqueue",
                         loop[l].slots, Tail(loop[l].out))
            /\ \/ dropped' = dropped \cup {p.id} /\ queue' = queue
               \/ Grows(queue, queue', p) /\ dropped' = dropped
      BY <1>2, EnqueueTurns DEF Enqueue, StagesOK
    <2>2. UNCHANGED <<dispatcher, shard, worker, consumed>>
      BY <1>2 DEF Enqueue
    <2>3. /\ \A k \in Listeners \ {l} : loop'[k] = loop[k]
          /\ Pops(loop[l].out, loop'[l].out)
      BY <2>1 DEF LoopTurns
    <2>4. InBatch(d) => InBatch(d)' \/ d = p.id
      <3> SUFFICES ASSUME NEW k \in Listeners, NEW i \in 1..Len(loop[k].out),
                          loop[k].out[i].id = d, d # p.id
                   PROVE  InBatch(d)'
        BY DEF InBatch
      <3>1. CASE k = l
        <4>1. PICK j : j = i - 1
          OBVIOUS
        <4>2. j \in 1..Len(loop'[l].out) /\ i = j + 1
          BY <1>n, <2>1, <2>3, <3>1, <4>1 DEF Pops
        <4>3. loop'[l].out[j].id = d
          BY <2>3, <3>1, <4>2 DEF Pops
        <4> QED
          BY <4>2, <4>3 DEF InBatch
      <3>2. CASE k # l
        BY <2>3, <3>2 DEF InBatch
      <3> QED
        BY <3>1, <3>2
    <2>5. CASE dropped' = dropped \cup {p.id} /\ queue' = queue
      BY <2>2, <2>4, <2>5 DEF InQueue, InDispatch, InShard, InWork
    <2>6. CASE Grows(queue, queue', p) /\ dropped' = dropped
      <3>1. /\ \A i \in 1..Len(queue) : i \in 1..Len(queue') /\ queue'[i] = queue[i]
            /\ Len(queue') \in 1..Len(queue') /\ queue'[Len(queue')] = p
        BY <1>n, <2>6 DEF Grows
      <3>2. InQueue(d) \/ d = p.id => InQueue(d)'
        BY <3>1 DEF InQueue
      <3> QED
        BY <2>2, <2>4, <2>6, <3>2 DEF InDispatch, InShard, InWork
    <2> QED
      BY <2>1, <2>5, <2>6
  <1>3. CASE Dispatch
    <2>1. dispatcher'.pkt = queue[1] /\ Pops(queue, queue')
      BY <1>3, DispatchTurns
    <2>2. UNCHANGED <<loop, shard, worker, consumed, dropped>> /\ ~InDispatch(d)
      <3>1. dispatcher.pkt = NoPacket
        BY <1>3, TypeParts DEF Dispatch, StagesOK, Parts
      <3> QED
        BY <1>n, <1>3, <3>1 DEF Dispatch, InDispatch, outcome
    <2>3. InQueue(d) => InQueue(d)' \/ InDispatch(d)'
      <3> SUFFICES ASSUME NEW i \in 1..Len(queue), queue[i].id = d, ~InDispatch(d)'
                   PROVE  InQueue(d)'
        BY DEF InQueue
      <3>1. PICK j : j = i - 1
        OBVIOUS
      <3>2. j \in 1..Len(queue') /\ i = j + 1
        BY <1>n, <2>1, <3>1 DEF Pops, InDispatch
      <3> QED
        BY <2>1, <3>2 DEF Pops, InQueue
    <2> QED
      BY <2>2, <2>3 DEF InBatch, InShard, InWork
  <1>4. CASE Send
    <2>0. PICK p \in Packet : p = dispatcher.pkt
      BY <1>4 DEF Send, StagesOK
    <2>w. PICK w \in Workers : w = ShardFor(p.id)
      BY Sizes, PipelineAssumption DEF ShardFor
    <2>1. Grows(shard[w], shard'[w], p) /\ \A v \in Workers \ {w} : shard'[v] = shard[v]
      BY <1>4, <2>0, <2>w, SendTurns
    <2>2. UNCHANGED <<loop, queue, worker, consumed, dropped>>
      BY <1>4 DEF Send, outcome
    <2>3. /\ \A i \in 1..Len(shard[w]) : i \in 1..Len(shard'[w]) /\ shard'[w][i] = shard[w][i]
          /\ Len(shard'[w]) \in 1..Len(shard'[w]) /\ shard'[w][Len(shard'[w])] = p
      BY <1>n, <2>1 DEF Grows
    <2>4. InShard(d) => InShard(d)'
      BY <2>1, <2>3 DEF InShard
    <2>5. InDispatch(d) => InShard(d)'
      BY <2>0, <2>3 DEF InShard, InDispatch
    <2> QED
      BY <2>2, <2>4, <2>5 DEF InBatch, InQueue, InWork
  <1>5. ASSUME NEW w \in Workers, Take(w) PROVE Arrived(d)'
    <2>1. /\ WorkerTurns(w, "decode", shard[w][1], None) /\ worker[w].pkt = NoPacket
          /\ Pops(shard[w], shard'[w]) /\ \A v \in Workers \ {w} : shard'[v] = shard[v]
      BY <1>5, TakeTurns, TypeParts DEF Take, Parts
    <2>2. UNCHANGED <<loop, queue, dispatcher, consumed, dropped>>
      BY <1>5 DEF Take, outcome
    <2>3. InWork(d) => InWork(d)'
      BY <1>n, <2>1 DEF InWork, WorkerTurns
    <2>4. InShard(d) => InShard(d)' \/ InWork(d)'
      <3> SUFFICES ASSUME NEW v \in Workers, NEW i \in 1..Len(shard[v]), shard[v][i].id = d,
                          ~InWork(d)'
                   PROVE  InShard(d)'
        BY DEF InShard
      <3>1. CASE v = w
        <4>0. shard[w][1].id # d
          BY <2>1 DEF InWork, WorkerTurns
        <4>1. PICK j : j = i - 1
          OBVIOUS
        <4>2. i # 1 /\ i \in 1..Len(shard[w]) /\ Len(shard[w]) \in Nat
          BY <1>n, <3>1, <4>0
        <4>3. j \in 1..Len(shard'[w]) /\ i = j + 1
          BY <2>1, <4>1, <4>2 DEF Pops
        <4>4. shard'[w][j].id = d
          BY <2>1, <3>1, <4>3 DEF Pops
        <4> QED
          BY <4>3, <4>4 DEF InShard
      <3>2. CASE v # w
        BY <2>1, <3>2 DEF InShard
      <3> QED
        BY <3>1, <3>2
    <2> QED
      BY <2>2, <2>3, <2>4 DEF InBatch, InQueue, InDispatch
  <1>6. ASSUME NEW w \in Workers,
               Decode(w) \/ Release(w) \/ LoadReader(w) \/ LookUp(w) \/ Ingest(w) \/ ShardEnded(w)
        PROVE  Arrived(d)'
    <2>1. UNCHANGED <<loop, queue, dispatcher, shard>>
      BY <1>6 DEF Decode, Release, LoadReader, LookUp, Ingest, ShardEnded, stages
    <2>2. CASE Ingest(w)
      <3>1. /\ \A v \in Workers \ {w} : worker'[v] = worker[v]
            /\ consumed' = consumed \cup {worker[w].pkt.id} /\ dropped' = dropped
        BY <2>2, DecodeLoopTurns DEF WorkerTurns, Ingest
      <3>2. InWork(d) => InWork(d)' \/ d \in consumed'
        BY <3>1 DEF InWork
      <3> QED
        BY <2>1, <3>1, <3>2 DEF InBatch, InQueue, InDispatch, InShard
    <2>3. CASE ~Ingest(w)
      <3>1. LoadReader(w) => reader \in Readers
        BY DEF LoadReader, StagesOK
      <3>2. ShardEnded(w) => worker[w].pkt = NoPacket
        BY TypeParts DEF Parts, ShardEnded
      <3>3. \E pc, db : WorkerTurns(w, pc, worker[w].pkt, db)
        BY <1>6, <2>3, <3>1, <3>2, DecodeLoopTurns
      <3>4. \A v \in Workers : worker'[v].pkt = worker[v].pkt
        BY <3>3 DEF WorkerTurns
      <3>5. consumed' = consumed /\ dropped' = dropped
        BY <1>6, <2>3 DEF Decode, Release, LoadReader, LookUp, ShardEnded, outcome
      <3> QED
        BY <2>1, <3>4, <3>5 DEF InBatch, InQueue, InDispatch, InShard, InWork
    <2> QED
      BY <2>2, <2>3
  <1>7. CASE CloseShards
    <2>1. dispatcher'.pkt = dispatcher.pkt
      BY <1>7 DEF CloseShards, TypeOK, DispatcherState
    <2> QED
      BY <1>7, <2>1 DEF CloseShards, InBatch, InQueue, InDispatch, InShard, InWork, outcome
  <1>8. CASE UNCHANGED <<loop, queue, dispatcher, shard, worker, consumed, dropped>>
    BY <1>8 DEF InBatch, InQueue, InDispatch, InShard, InWork
  <1> QED
    BY <1>1, <1>2, <1>3, <1>4, <1>5, <1>6, <1>7, <1>8
    DEF Next, ReadLoop, Dispatcher, DecodeLoop, Reload, Stop, Shutdown, CloseConns, CloseQueue,
        Await, CloseChain, Exited, vars, stages, outcome

\* No step loses sight of a datagram.
LEMMA NextAccountedOK ==
  ASSUME TypeOK, StagesOK, AccountedOK, [Next]_vars
  PROVE  AccountedOK'
  <1>1. CASE \E l \in Listeners : Read(l)
    BY <1>1, ReadArrived
  <1>2. CASE \A l \in Listeners : ~Read(l)
    <2>1. socket' = socket
      BY <1>2 DEF Next, ReadLoop, Refill, ReadClosed, Enqueue, Dispatcher, Dispatch, Send,
                  CloseShards, DecodeLoop, Take, Decode, Release, LoadReader, LookUp, Ingest,
                  ShardEnded, Reload, Stop, Shutdown, CloseConns, CloseQueue, Await, CloseChain,
                  Exited, vars, stages
    <2>2. ASSUME NEW l \in Listeners, NEW i \in 1..Len(Arrivals[l])
          PROVE  \/ \E j \in 1..Len(socket'[l]) : socket'[l][j] = Arrivals[l][i]
                 \/ Arrived(Arrivals[l][i])'
      <3>1. PICK d \in Datagrams : d = Arrivals[l][i]
        BY PipelineAssumption, ElementOfSeq
      <3>2. Arrived(d) => Arrived(d)'
        BY <1>2, MovesArrived
      <3> QED
        BY <2>1, <3>1, <3>2 DEF AccountedOK
    <2> QED
      BY <2>2 DEF AccountedOK
  <1> QED
    BY <1>1, <1>2

-----------------------------------------------------------------------------
(* Where the buffers are. *)

\* b goes to a new place, and those behind it in its line come one nearer.
Moved(place, next, b, stage, owner, pos, line, of) ==
  /\ At(next, b, stage, owner, pos)
  /\ \A c \in Buffers \ {b} :
       At(next, c, place.stage[c], place.owner[c],
          IF place.stage[c] = line /\ place.owner[c] = of THEN place.pos[c] - 1 ELSE place.pos[c])
  /\ \A c \in Buffers : next.pos[c] \in Int

\* There is such a placement.
LEMMA MoveExists ==
  ASSUME NEW place, \A c \in Buffers : place.pos[c] \in Int,
         NEW b \in Buffers, NEW stage, NEW owner, NEW pos \in Int, NEW line, NEW of
  PROVE  \E next : Moved(place, next, b, stage, owner, pos, line, of)
  <1> DEFINE next ==
        [stage |-> [c \in Buffers |-> IF c = b THEN stage ELSE place.stage[c]],
         owner |-> [c \in Buffers |-> IF c = b THEN owner ELSE place.owner[c]],
         pos |-> [c \in Buffers |->
                    IF c = b THEN pos
                    ELSE IF place.stage[c] = line /\ place.owner[c] = of
                         THEN place.pos[c] - 1 ELSE place.pos[c]]]
  <1>1. Moved(place, next, b, stage, owner, pos, line, of)
    BY DEF Moved, At
  <1> QED
    BY <1>1

\* What is in a line, or in hand, is a buffer.
LEMMA LineBuffers ==
  ASSUME TypeOK, StagesOK
  PROVE  /\ \A l \in Listeners : /\ Len(loop[l].slots) \in Nat /\ Len(loop[l].out) \in Nat
                                 /\ \A i \in 1..Len(loop[l].slots) : loop[l].slots[i] \in Buffers
                                 /\ \A i \in 1..Len(loop[l].out) : loop[l].out[i].buf \in Buffers
         /\ Len(queue) \in Nat /\ \A i \in 1..Len(queue) : queue[i].buf \in Buffers
         /\ dispatcher.pc = "send" => dispatcher.pkt.buf \in Buffers
         /\ \A w \in Workers : /\ Len(shard[w]) \in Nat
                               /\ \A i \in 1..Len(shard[w]) : shard[w][i].buf \in Buffers
                               /\ worker[w].pc \in {"decode", "release"} =>
                                    worker[w].pkt.buf \in Buffers
         /\ pool \subseteq Buffers
  <1>1. /\ \A s \in Seq(Packet) : \A i \in 1..Len(s) : s[i] \in Packet
        /\ \A s \in Seq(Buffers) : \A i \in 1..Len(s) : s[i] \in Buffers
    BY ElementOfSeq
  <1> QED
    BY <1>1, TypeParts, Sizes DEF Parts, StagesOK, TypeOK

\* A slot is refilled from the pool, or with a new buffer.
LEMMA RefillBuffersOK ==
  ASSUME TypeOK, StagesOK, BuffersOK, IntactOK, NEW l \in Listeners, Refill(l)
  PROVE  BuffersOK' /\ IntactOK'
  <1>1. PICK b \in pool \cup NewBuffer :
          /\ b \in Buffers /\ LoopTurns(l, "read", Append(loop[l].slots, b), loop[l].out)
          /\ pool' = pool \ {b} /\ issued' = issued \cup {b}
          /\ Grows(loop[l].slots, Append(loop[l].slots, b), b)
    BY RefillTurns
  <1>2. UNCHANGED <<queue, dispatcher, shard, worker, content>>
    BY DEF Refill
  <1>3. PICK place : Placed(place)
    BY DEF BuffersOK
  <1>4. place.stage[b] \in {"pool", "unmade"}
    <2>1. b \in pool \/ b \notin issued
      <3>1. NewBuffer # {} => \E c \in Buffers : c \notin issued
        BY DEF NewBuffer, TypeOK
      <3> QED
        BY <3>1 DEF NewBuffer
    <2> QED
      BY <1>1, <1>3, <2>1 DEF Placed
  <1>5. PICK n \in Nat : n = Len(loop[l].slots)
    BY LineBuffers
  <1>6. PICK next : Moved(place, next, b, "slot", l, n + 1, "none", None)
    <2>1. \A c \in Buffers : place.pos[c] \in Int
      BY <1>3 DEF Placed
    <2>2. n + 1 \in Int
      OBVIOUS
    <2> QED
      BY <1>1, <2>1, <2>2, MoveExists, Zenon
  <1>m. \A c \in Buffers : \A s, o, i :
          At(place, c, s, o, i) /\ s \notin {"pool", "unmade", "none"} => At(next, c, s, o, i)
    BY <1>4, <1>6 DEF Moved, At
  <1>7. Placed(next)'
    <2>1. \A c \in Buffers : next.pos[c] \in Int
      BY <1>6 DEF Moved
    <2>2. /\ \A c \in Buffers \ issued' : next.stage[c] = "unmade"
          /\ \A c \in pool' : next.stage[c] = "pool"
      <3>1. \A c \in Buffers \ {b} : next.stage[c] = place.stage[c]
        BY <1>6 DEF Moved, At
      <3>2. ASSUME NEW c \in Buffers \ issued' PROVE next.stage[c] = "unmade"
        BY <1>1, <1>3, <3>1 DEF Placed
      <3>3. ASSUME NEW c \in pool' PROVE next.stage[c] = "pool"
        <4>1. c \in pool /\ c \in Buffers \ {b}
          BY <1>1, LineBuffers
        <4> QED
          BY <1>3, <3>1, <4>1 DEF Placed
      <3> QED
        BY <3>2, <3>3
    <2>3. ASSUME NEW k \in Listeners, NEW i \in 1..Len(loop'[k].slots)
          PROVE  At(next, loop'[k].slots[i], "slot", k, i)
      <3>1. CASE k = l
        <4>1. i \in 1..(n + 1) /\ loop'[l].slots = Append(loop[l].slots, b)
          BY <1>1, <1>5, <3>1, <2>3 DEF Grows, LoopTurns
        <4>2. CASE i = n + 1
          BY <1>1, <1>5, <1>6, <3>1, <4>1, <4>2 DEF Grows, Moved
        <4>3. CASE i \in 1..n
          BY <1>1, <1>3, <1>5, <1>m, <3>1, <4>1, <4>3, LineBuffers DEF Grows, Placed
        <4> QED
          BY <4>1, <4>2, <4>3
      <3>2. CASE k # l
        BY <1>1, <1>3, <1>m, <2>3, <3>2, LineBuffers DEF Placed, LoopTurns
      <3> QED
        BY <3>1, <3>2
    <2>4. \A k \in Listeners : \A i \in 1..Len(loop'[k].out) :
            At(next, loop'[k].out[i].buf, "batch", k, i)
      <3>1. \A k \in Listeners : loop'[k].out = loop[k].out
        BY <1>1 DEF LoopTurns
      <3> QED
        BY <1>3, <1>m, <3>1, LineBuffers DEF Placed
    <2>5. \A i \in 1..Len(queue') : At(next, queue'[i].buf, "queue", None, i)
      BY <1>2, <1>3, <1>m, LineBuffers DEF Placed
    <2>6. dispatcher'.pc = "send" => At(next, dispatcher'.pkt.buf, "send", None, 0)
      BY <1>2, <1>3, <1>m, LineBuffers DEF Placed
    <2>7. \A w \in Workers : \A i \in 1..Len(shard'[w]) : At(next, shard'[w][i].buf, "shard", w, i)
      BY <1>2, <1>3, <1>m, LineBuffers DEF Placed
    <2>8. \A w \in Workers : worker'[w].pc \in {"decode", "release"} =>
            At(next, worker'[w].pkt.buf, "decode", w, 0)
      BY <1>2, <1>3, <1>m, LineBuffers DEF Placed
    <2> QED
      BY <1>2, <2>1, <2>2, <2>3, <2>4, <2>5, <2>6, <2>7, <2>8, Zenon DEF Placed, At
  <1>8. IntactOK'
    <2>1. \A k \in Listeners : loop'[k].out = loop[k].out
      BY <1>1 DEF LoopTurns
    <2> QED
      BY <1>2, <2>1 DEF IntactOK, Intact
  <1> QED
    BY <1>7, <1>8 DEF BuffersOK

\* What Moved says when b was in the line itself, j-th of it.
Leaves(place, next, b, stage, owner, pos, line, of, j) ==
  /\ At(next, b, stage, owner, pos)
  /\ \A c \in Buffers : next.pos[c] \in Int
  /\ \A c \in Buffers : place.stage[c] # line => next.stage[c] = place.stage[c]
  /\ \A c \in Buffers : \A s, o, i :
       At(place, c, s, o, i) /\ ~(s = line /\ o = of) => At(next, c, s, o, i)
  /\ \A c \in Buffers : \A i : At(place, c, line, of, i) /\ i # j => At(next, c, line, of, i - 1)

\* It does leave the line.
LEMMA LeaveExists ==
  ASSUME NEW place, \A c \in Buffers : place.pos[c] \in Int,
         NEW b \in Buffers, NEW stage, NEW owner, NEW pos \in Int, NEW line, NEW of, NEW j,
         At(place, b, line, of, j)
  PROVE  \E next : Leaves(place, next, b, stage, owner, pos, line, of, j)
  <1>1. PICK next : Moved(place, next, b, stage, owner, pos, line, of)
    BY MoveExists, Zenon
  <1>2. Leaves(place, next, b, stage, owner, pos, line, of, j)
    BY <1>1 DEF Moved, At, Leaves
  <1> QED
    BY <1>2

\* The head of a batch goes back to the pool, or to the end of the queue.
LEMMA EnqueueBuffersOK ==
  ASSUME TypeOK, StagesOK, BuffersOK, IntactOK, NEW l \in Listeners, Enqueue(l)
  PROVE  BuffersOK' /\ IntactOK'
  <1>1. PICK p \in Packet :
          /\ p = loop[l].out[1] /\ Pops(loop[l].out, Tail(loop[l].out))
          /\ LoopTurns(l, IF Len(loop[l].out) = 1 THEN "read" ELSE "enqueue",
                       loop[l].slots, Tail(loop[l].out))
          /\ \/ Put(p.buf) /\ queue' = queue
             \/ Grows(queue, queue', p) /\ UNCHANGED <<pool, issued, content>>
    BY EnqueueTurns DEF Enqueue, StagesOK
  <1>2. UNCHANGED <<dispatcher, shard, worker>>
    BY DEF Enqueue
  <1>3. PICK place : Placed(place)
    BY DEF BuffersOK
  <1>4. /\ \A k \in Listeners \ {l} : loop'[k] = loop[k]
        /\ Pops(loop[l].out, loop'[l].out) /\ loop'[l].slots = loop[l].slots
    BY <1>1 DEF LoopTurns
  <1>5. PICK b \in Buffers, n \in Nat : b = p.buf /\ n = Len(queue)
    BY Sizes, LineBuffers
  <1>6. At(place, b, "batch", l, 1) /\ Len(loop[l].out) \in Nat /\ 1 \in 1..Len(loop[l].out)
    BY <1>1, <1>3, <1>5, LineBuffers DEF Placed, Pops
  <1>p. \A c \in Buffers : place.pos[c] \in Int
    BY <1>3 DEF Placed
  <1>a. At(place, b, "batch", l, 1)
    BY <1>6
  <1>i. ASSUME NEW k \in Listeners, NEW i \in 1..Len(loop'[k].out)
        PROVE  \/ k # l /\ i \in 1..Len(loop[k].out) /\ loop'[k].out[i] = loop[k].out[i]
               \/ k = l /\ i + 1 \in 1..Len(loop[l].out) /\ loop'[l].out[i] = loop[l].out[i + 1]
    <2>1. CASE k # l
      BY <1>4, <2>1
    <2>2. CASE k = l
      <3>1. PICK m, o : m = Len(loop[l].out) /\ o = Len(loop'[l].out)
        OBVIOUS
      <3>2. m \in Nat /\ o = m - 1 /\ i \in 1..o
        BY <1>4, <1>6, <2>2, <3>1 DEF Pops
      <3>3. i + 1 \in 1..m /\ loop'[l].out[i] = loop[l].out[i + 1]
        BY <1>4, <3>1, <3>2 DEF Pops
      <3> QED
        BY <2>2, <3>1, <3>3
    <2> QED
      BY <2>1, <2>2
  <1>7. content' = content
    BY <1>1 DEF Put
  <1>8. ASSUME NEW next, NEW stage, NEW owner, NEW pos,
               Leaves(place, next, b, stage, owner, pos, "batch", l, 1)
        PROVE  /\ \A c \in Buffers \ issued : next.stage[c] = "unmade"
               /\ \A c \in pool : next.stage[c] = "pool"
               /\ \A k \in Listeners : \A i \in 1..Len(loop'[k].slots) :
                    At(next, loop'[k].slots[i], "slot", k, i)
               /\ \A k \in Listeners : \A i \in 1..Len(loop'[k].out) :
                    At(next, loop'[k].out[i].buf, "batch", k, i)
               /\ \A i \in 1..Len(queue) : At(next, queue[i].buf, "queue", None, i)
               /\ dispatcher'.pc = "send" => At(next, dispatcher'.pkt.buf, "send", None, 0)
               /\ \A w \in Workers : \A i \in 1..Len(shard'[w]) :
                    At(next, shard'[w][i].buf, "shard", w, i)
               /\ \A w \in Workers : worker'[w].pc \in {"decode", "release"} =>
                    At(next, worker'[w].pkt.buf, "decode", w, 0)
    <2>1. /\ \A c \in Buffers \ issued : next.stage[c] = "unmade"
          /\ \A c \in pool : next.stage[c] = "pool"
      BY <1>3, <1>8, LineBuffers DEF Placed, Leaves
    <2>2. \A k \in Listeners : \A i \in 1..Len(loop'[k].slots) :
            At(next, loop'[k].slots[i], "slot", k, i)
      BY <1>3, <1>4, <1>8, LineBuffers DEF Placed, Leaves
    <2>3. ASSUME NEW k \in Listeners, NEW i \in 1..Len(loop'[k].out)
          PROVE  At(next, loop'[k].out[i].buf, "batch", k, i)
      <3>1. CASE k # l
        BY <1>3, <1>8, <1>i, <3>1, LineBuffers DEF Placed, Leaves
      <3>2. CASE k = l
        <4>1. i + 1 \in 1..Len(loop[l].out) /\ loop'[l].out[i] = loop[l].out[i + 1]
          BY <1>i, <3>2
        <4>2. At(place, loop[l].out[i + 1].buf, "batch", l, i + 1)
              /\ loop[l].out[i + 1].buf \in Buffers
          BY <1>3, <4>1, LineBuffers DEF Placed
        <4>3. i + 1 # 1 /\ i + 1 - 1 = i
          OBVIOUS
        <4> QED
          BY <1>8, <3>2, <4>1, <4>2, <4>3 DEF Leaves
      <3> QED
        BY <3>1, <3>2
    <2>4. \A i \in 1..Len(queue) : At(next, queue[i].buf, "queue", None, i)
      BY <1>3, <1>8, LineBuffers DEF Placed, Leaves
    <2>5. dispatcher'.pc = "send" => At(next, dispatcher'.pkt.buf, "send", None, 0)
      BY <1>2, <1>3, <1>8, LineBuffers DEF Placed, Leaves
    <2>6. \A w \in Workers : \A i \in 1..Len(shard'[w]) : At(next, shard'[w][i].buf, "shard", w, i)
      BY <1>2, <1>3, <1>8, LineBuffers DEF Placed, Leaves
    <2>7. \A w \in Workers : worker'[w].pc \in {"decode", "release"} =>
            At(next, worker'[w].pkt.buf, "decode", w, 0)
      BY <1>2, <1>3, <1>8, LineBuffers DEF Placed, Leaves
    <2> QED
      BY <2>1, <2>2, <2>3, <2>4, <2>5, <2>6, <2>7
  <1>9. IntactOK'
    <2>1. \A k \in Listeners : \A i \in 1..Len(loop'[k].out) : Intact(loop'[k].out[i])
      BY <1>i DEF IntactOK
    <2>2. \A i \in 1..Len(queue') : Intact(queue'[i])
      <3>1. CASE queue' = queue
        BY <3>1 DEF IntactOK
      <3>2. CASE Grows(queue, queue', p)
        <4>1. Intact(p)
          BY <1>1, <1>6 DEF IntactOK
        <4>2. \A i \in 1..Len(queue') :
                (i \in 1..Len(queue) /\ queue'[i] = queue[i]) \/ queue'[i] = p
          BY <1>5, <3>2 DEF Grows
        <4> QED
          BY <4>1, <4>2 DEF IntactOK
      <3> QED
        BY <1>1, <3>1, <3>2
    <2> QED
      BY <1>2, <1>7, <2>1, <2>2 DEF IntactOK, Intact
  <1>10. CASE Put(b) /\ queue' = queue
    <2>0. 0 \in Int
      OBVIOUS
    <2>1. PICK next : Leaves(place, next, b, "pool", None, 0, "batch", l, 1)
      BY <1>a, <1>p, <2>0, LeaveExists, Zenon
    <2>2. /\ \A c \in Buffers : next.pos[c] \in Int
          /\ next.stage[b] = "pool"
      BY <2>1 DEF Leaves, At
    <2>3. /\ \A c \in Buffers \ issued' : next.stage[c] = "unmade"
          /\ \A c \in pool' : next.stage[c] = "pool"
      BY <1>8, <1>10, <2>1, <2>2 DEF Put
    <2>4. \A i \in 1..Len(queue') : At(next, queue'[i].buf, "queue", None, i)
      BY <1>8, <1>10, <2>1
    <2>5. /\ \A k \in Listeners : \A i \in 1..Len(loop'[k].slots) :
               At(next, loop'[k].slots[i], "slot", k, i)
          /\ \A k \in Listeners : \A i \in 1..Len(loop'[k].out) :
               At(next, loop'[k].out[i].buf, "batch", k, i)
          /\ dispatcher'.pc = "send" => At(next, dispatcher'.pkt.buf, "send", None, 0)
          /\ \A w \in Workers : \A i \in 1..Len(shard'[w]) :
               At(next, shard'[w][i].buf, "shard", w, i)
          /\ \A w \in Workers : worker'[w].pc \in {"decode", "release"} =>
               At(next, worker'[w].pkt.buf, "decode", w, 0)
      BY <1>8, <2>1
    <2>6. Placed(next)'
      BY <2>2, <2>3, <2>4, <2>5, Zenon DEF Placed, At
    <2> QED
      BY <1>9, <2>6 DEF BuffersOK
  <1>11. CASE Grows(queue, queue', p) /\ UNCHANGED <<pool, issued, content>>
    <2>0. PICK last \in Int : last = n + 1
      OBVIOUS
    <2>1. PICK next : Leaves(place, next, b, "queue", None, last, "batch", l, 1)
      BY <1>a, <1>p, LeaveExists, Zenon
    <2>2. \A i \in 1..Len(queue') :
            \/ i \in 1..Len(queue) /\ queue'[i] = queue[i]
            \/ i = n + 1 /\ queue'[i] = p
      BY <1>5, <1>11 DEF Grows
    <2>3. \A i \in 1..Len(queue') : At(next, queue'[i].buf, "queue", None, i)
      BY <1>5, <1>8, <2>0, <2>1, <2>2 DEF Leaves
    <2>4. \A c \in Buffers : next.pos[c] \in Int
      BY <2>1 DEF Leaves
    <2>5. /\ \A c \in Buffers \ issued' : next.stage[c] = "unmade"
          /\ \A c \in pool' : next.stage[c] = "pool"
      BY <1>8, <1>11, <2>1
    <2>6. /\ \A k \in Listeners : \A i \in 1..Len(loop'[k].slots) :
               At(next, loop'[k].slots[i], "slot", k, i)
          /\ \A k \in Listeners : \A i \in 1..Len(loop'[k].out) :
               At(next, loop'[k].out[i].buf, "batch", k, i)
          /\ dispatcher'.pc = "send" => At(next, dispatcher'.pkt.buf, "send", None, 0)
          /\ \A w \in Workers : \A i \in 1..Len(shard'[w]) :
               At(next, shard'[w][i].buf, "shard", w, i)
          /\ \A w \in Workers : worker'[w].pc \in {"decode", "release"} =>
               At(next, worker'[w].pkt.buf, "decode", w, 0)
      BY <1>8, <2>1
    <2>7. Placed(next)'
      BY <2>3, <2>4, <2>5, <2>6, Zenon DEF Placed, At
    <2> QED
      BY <1>9, <2>7 DEF BuffersOK
  <1> QED
    BY <1>1, <1>5, <1>10, <1>11

\* The first n buffers of a reader's slots become its batch; the rest come nearer.
Batched(place, next, l, n) ==
  /\ \A c \in Buffers : next.pos[c] \in Int
  /\ \A c \in Buffers : place.stage[c] # "slot" => next.stage[c] = place.stage[c]
  /\ \A c \in Buffers : \A s, o, i :
       At(place, c, s, o, i) /\ ~(s = "slot" /\ o = l) => At(next, c, s, o, i)
  /\ \A c \in Buffers : \A i \in 1..n : At(place, c, "slot", l, i) => At(next, c, "batch", l, i)
  /\ \A c \in Buffers : \A i \in Nat :
       At(place, c, "slot", l, n + i) /\ i > 0 => At(next, c, "slot", l, i)

\* There is such a placement.
LEMMA BatchExists ==
  ASSUME NEW place, \A c \in Buffers : place.pos[c] \in Int, NEW l, NEW n \in Nat
  PROVE  \E next : Batched(place, next, l, n)
  <1> DEFINE mine(c) == place.stage[c] = "slot" /\ place.owner[c] = l
             next ==
        [stage |-> [c \in Buffers |-> IF mine(c) /\ place.pos[c] <= n THEN "batch"
                                      ELSE place.stage[c]],
         owner |-> [c \in Buffers |-> place.owner[c]],
         pos |-> [c \in Buffers |-> IF mine(c) /\ place.pos[c] > n THEN place.pos[c] - n
                                    ELSE place.pos[c]]]
  <1>1. \A c \in Buffers :
          /\ next.stage[c] = IF mine(c) /\ place.pos[c] <= n THEN "batch" ELSE place.stage[c]
          /\ next.owner[c] = place.owner[c]
          /\ next.pos[c] = IF mine(c) /\ place.pos[c] > n THEN place.pos[c] - n
                           ELSE place.pos[c]
    OBVIOUS
  <1> HIDE DEF next
  <1>2. \A c \in Buffers : next.pos[c] \in Int
    BY <1>1
  <1>3. \A c \in Buffers : place.stage[c] # "slot" => next.stage[c] = place.stage[c]
    BY <1>1
  <1>4. ASSUME NEW c \in Buffers, NEW s, NEW o, NEW i, At(place, c, s, o, i),
               ~(s = "slot" /\ o = l)
        PROVE  At(next, c, s, o, i)
    BY <1>1, <1>4 DEF At
  <1>5. ASSUME NEW c \in Buffers, NEW i \in 1..n, At(place, c, "slot", l, i)
        PROVE  At(next, c, "batch", l, i)
    BY <1>1, <1>5 DEF At
  <1>6. ASSUME NEW c \in Buffers, NEW i \in Nat, At(place, c, "slot", l, n + i), i > 0
        PROVE  At(next, c, "slot", l, i)
    BY <1>1, <1>6 DEF At
  <1>7. Batched(place, next, l, n)
    BY <1>2, <1>3, <1>4, <1>5, <1>6 DEF Batched
  <1> QED
    BY <1>7

\* A read writes into the slots it empties, and into nothing else.
LEMMA ReadBuffersOK ==
  ASSUME TypeOK, StagesOK, BuffersOK, IntactOK, NEW l \in Listeners, Read(l)
  PROVE  BuffersOK' /\ IntactOK'
  <1>1. PICK n \in 1..BatchSize, out \in Seq(Packet), slots \in Seq(Buffers) :
          ReadMoves(l, n, out, slots)
    BY ReadTurns
  <1>2. UNCHANGED <<queue, dispatcher, shard, worker, pool, issued>>
    BY DEF Read
  <1>3. PICK place : Placed(place)
    BY DEF BuffersOK
  <1>n. n \in Nat /\ BatchSize \in Nat /\ n <= BatchSize
    BY Sizes
  <1>4. /\ loop'[l].slots = slots /\ loop'[l].out = out /\ Len(out) = n
        /\ Len(slots) = BatchSize - n /\ Len(loop[l].slots) = BatchSize
        /\ \A k \in Listeners \ {l} : loop'[k] = loop[k]
        /\ \A i \in 1..n : out[i].id = socket[l][i] /\ out[i].buf = loop[l].slots[i]
        /\ \A i \in 1..Len(slots) : slots[i] = loop[l].slots[n + i]
    BY <1>1 DEF ReadMoves, LoopTurns
  <1>5. \A b \in Buffers :
          \/ content'[b] = content[b] /\ \A i \in 1..n : out[i].buf # b
          \/ \E i \in 1..n : out[i].buf = b /\ content'[b] = out[i].id
    BY <1>1 DEF ReadMoves
  <1>6. PICK next : Batched(place, next, l, n)
    <2>1. \A c \in Buffers : place.pos[c] \in Int
      BY <1>3 DEF Placed
    <2> QED
      BY <1>n, <2>1, BatchExists, Zenon
  <1>7. \A i \in 1..n : out[i].buf \in Buffers /\ At(place, out[i].buf, "slot", l, i)
    <2>1. TAKE i \in 1..n
    <2>2. i \in 1..Len(loop[l].slots) /\ out[i].buf = loop[l].slots[i]
      BY <1>4, <1>n
    <2> QED
      BY <1>3, <2>2, LineBuffers DEF Placed
  <1>m. \A c \in Buffers : \A s, o, i :
          At(place, c, s, o, i) /\ s # "slot" => At(next, c, s, o, i) /\ content'[c] = content[c]
    <2> SUFFICES ASSUME NEW c \in Buffers, NEW s, NEW o, NEW i, At(place, c, s, o, i), s # "slot"
                 PROVE  At(next, c, s, o, i) /\ content'[c] = content[c]
      OBVIOUS
    <2>1. At(next, c, s, o, i)
      BY <1>6 DEF Batched
    <2>2. \A j \in 1..n : out[j].buf # c
      BY <1>7 DEF At
    <2> QED
      BY <1>5, <2>1, <2>2
  <1>8. Placed(next)'
    <2>1. \A c \in Buffers : next.pos[c] \in Int
      BY <1>6 DEF Batched
    <2>2. /\ \A c \in Buffers \ issued' : next.stage[c] = "unmade"
          /\ \A c \in pool' : next.stage[c] = "pool"
      BY <1>2, <1>3, <1>6, LineBuffers DEF Placed, Batched
    <2>3. ASSUME NEW k \in Listeners, NEW i \in 1..Len(loop'[k].slots)
          PROVE  At(next, loop'[k].slots[i], "slot", k, i)
      <3>1. CASE k = l
        <4>1. i \in Nat /\ i > 0 /\ n + i \in 1..Len(loop[l].slots)
          BY <1>4, <1>n, <3>1
        <4>2. /\ slots[i] = loop[l].slots[n + i] /\ slots[i] \in Buffers
              /\ At(place, slots[i], "slot", l, n + i)
          BY <1>3, <1>4, <3>1, <4>1, LineBuffers DEF Placed
        <4> QED
          BY <1>4, <1>6, <3>1, <4>1, <4>2 DEF Batched
      <3>2. CASE k # l
        BY <1>3, <1>4, <1>6, <3>2, LineBuffers DEF Placed, Batched
      <3> QED
        BY <3>1, <3>2
    <2>4. ASSUME NEW k \in Listeners, NEW i \in 1..Len(loop'[k].out)
          PROVE  At(next, loop'[k].out[i].buf, "batch", k, i)
      <3>1. CASE k = l
        BY <1>4, <1>6, <1>7, <3>1 DEF Batched
      <3>2. CASE k # l
        BY <1>3, <1>4, <1>m, <3>2, LineBuffers DEF Placed
      <3> QED
        BY <3>1, <3>2
    <2>5. \A i \in 1..Len(queue') : At(next, queue'[i].buf, "queue", None, i)
      BY <1>2, <1>3, <1>m, LineBuffers DEF Placed
    <2>6. dispatcher'.pc = "send" => At(next, dispatcher'.pkt.buf, "send", None, 0)
      BY <1>2, <1>3, <1>m, LineBuffers DEF Placed
    <2>7. \A w \in Workers : \A i \in 1..Len(shard'[w]) : At(next, shard'[w][i].buf, "shard", w, i)
      BY <1>2, <1>3, <1>m, LineBuffers DEF Placed
    <2>8. \A w \in Workers : worker'[w].pc \in {"decode", "release"} =>
            At(next, worker'[w].pkt.buf, "decode", w, 0)
      BY <1>2, <1>3, <1>m, LineBuffers DEF Placed
    <2> QED
      BY <1>2, <2>1, <2>2, <2>3, <2>4, <2>5, <2>6, <2>7, <2>8, Zenon DEF Placed, At
  <1>9. IntactOK'
    <2>1. ASSUME NEW k \in Listeners, NEW i \in 1..Len(loop'[k].out)
          PROVE  content'[loop'[k].out[i].buf] = loop'[k].out[i].id
      <3>1. CASE k = l
        <4>1. i \in 1..n /\ out[i].buf \in Buffers
          BY <1>4, <1>7, <3>1
        <4>2. PICK j \in 1..n : out[j].buf = out[i].buf /\ content'[out[i].buf] = out[j].id
          BY <1>5, <4>1
        <4>3. i = j
          BY <1>7, <4>1, <4>2 DEF At
        <4> QED
          BY <1>4, <3>1, <4>2, <4>3
      <3>2. CASE k # l
        <4>1. /\ i \in 1..Len(loop[k].out) /\ loop'[k].out = loop[k].out
              /\ loop[k].out[i].buf \in Buffers
          BY <1>4, <3>2, LineBuffers
        <4>2. content'[loop[k].out[i].buf] = content[loop[k].out[i].buf]
          BY <1>3, <1>m, <4>1 DEF Placed
        <4> QED
          BY <4>1, <4>2 DEF IntactOK, Intact
      <3> QED
        BY <3>1, <3>2
    <2>2. \A i \in 1..Len(queue) : content'[queue[i].buf] = queue[i].id
      BY <1>3, <1>m, LineBuffers DEF Placed, IntactOK, Intact
    <2>3. dispatcher.pc = "send" => content'[dispatcher.pkt.buf] = dispatcher.pkt.id
      BY <1>3, <1>m, LineBuffers DEF Placed, IntactOK, Intact
    <2>4. \A w \in Workers : \A i \in 1..Len(shard[w]) :
            content'[shard[w][i].buf] = shard[w][i].id
      BY <1>3, <1>m, LineBuffers DEF Placed, IntactOK, Intact
    <2>5. \A w \in Workers : worker[w].pc \in {"decode", "release"} =>
            content'[worker[w].pkt.buf] = worker[w].pkt.id
      BY <1>3, <1>m, LineBuffers DEF Placed, IntactOK, Intact
    <2> QED
      BY <1>2, <2>1, <2>2, <2>3, <2>4, <2>5 DEF IntactOK, Intact
  <1> QED
    BY <1>8, <1>9 DEF BuffersOK

\* The head of the queue goes into the dispatcher's hands.
LEMMA DispatchBuffersOK ==
  ASSUME TypeOK, StagesOK, BuffersOK, IntactOK, Dispatch
  PROVE  BuffersOK' /\ IntactOK'
  <1>1. dispatcher'.pc = "send" /\ dispatcher'.pkt = queue[1] /\ Pops(queue, queue')
    BY DispatchTurns
  <1>2. UNCHANGED <<loop, shard, worker, pool, issued, content>>
    BY DEF Dispatch, bufs
  <1>3. PICK place : Placed(place)
    BY DEF BuffersOK
  <1>4. Len(queue) \in Nat /\ Len(queue') = Len(queue) - 1 /\ 1 \in 1..Len(queue)
    BY <1>1, LineBuffers DEF Pops
  <1>5. PICK b \in Buffers : b = queue[1].buf
    BY <1>4, LineBuffers
  <1>6. PICK next : Leaves(place, next, b, "send", None, 0, "queue", None, 1)
    <2>1. \A c \in Buffers : place.pos[c] \in Int
      BY <1>3 DEF Placed
    <2>2. At(place, b, "queue", None, 1)
      BY <1>3, <1>4, <1>5 DEF Placed
    <2>3. 0 \in Int
      OBVIOUS
    <2> QED
      BY <2>1, <2>2, <2>3, LeaveExists, Zenon
  <1>i. \A i \in 1..Len(queue') : i + 1 \in 1..Len(queue) /\ queue'[i] = queue[i + 1]
    <2>1. TAKE i \in 1..Len(queue')
    <2>2. i + 1 \in 1..Len(queue)
      BY <1>4
    <2> QED
      BY <1>1, <2>2 DEF Pops
  <1>7. Placed(next)'
    <2>1. /\ \A c \in Buffers : next.pos[c] \in Int
          /\ At(next, b, "send", None, 0)
      BY <1>6 DEF Leaves
    <2>2. /\ \A c \in Buffers \ issued' : next.stage[c] = "unmade"
          /\ \A c \in pool' : next.stage[c] = "pool"
      BY <1>2, <1>3, <1>6, LineBuffers DEF Placed, Leaves
    <2>3. \A k \in Listeners : \A i \in 1..Len(loop'[k].slots) :
            At(next, loop'[k].slots[i], "slot", k, i)
      BY <1>2, <1>3, <1>6, LineBuffers DEF Placed, Leaves
    <2>4. \A k \in Listeners : \A i \in 1..Len(loop'[k].out) :
            At(next, loop'[k].out[i].buf, "batch", k, i)
      BY <1>2, <1>3, <1>6, LineBuffers DEF Placed, Leaves
    <2>5. ASSUME NEW i \in 1..Len(queue') PROVE At(next, queue'[i].buf, "queue", None, i)
      <3>1. i + 1 \in 1..Len(queue) /\ queue'[i] = queue[i + 1]
        BY <1>i
      <3>2. At(place, queue[i + 1].buf, "queue", None, i + 1) /\ queue[i + 1].buf \in Buffers
        BY <1>3, <3>1, LineBuffers DEF Placed
      <3>3. i + 1 # 1 /\ i + 1 - 1 = i
        BY <1>4
      <3> QED
        BY <1>6, <3>1, <3>2, <3>3 DEF Leaves
    <2>6. \A w \in Workers : \A i \in 1..Len(shard'[w]) : At(next, shard'[w][i].buf, "shard", w, i)
      BY <1>2, <1>3, <1>6, LineBuffers DEF Placed, Leaves
    <2>7. \A w \in Workers : worker'[w].pc \in {"decode", "release"} =>
            At(next, worker'[w].pkt.buf, "decode", w, 0)
      BY <1>2, <1>3, <1>6, LineBuffers DEF Placed, Leaves
    <2> QED
      BY <1>1, <1>2, <1>5, <2>1, <2>2, <2>3, <2>4, <2>5, <2>6, <2>7, Zenon DEF Placed, At
  <1>8. IntactOK'
    <2>1. Intact(queue[1]) /\ \A i \in 1..Len(queue') : Intact(queue'[i])
      BY <1>4, <1>i DEF IntactOK
    <2> QED
      BY <1>1, <1>2, <2>1 DEF IntactOK, Intact
  <1> QED
    BY <1>7, <1>8 DEF BuffersOK

\* What the dispatcher holds goes to the end of a shard.
LEMMA SendBuffersOK ==
  ASSUME TypeOK, StagesOK, BuffersOK, IntactOK, Send
  PROVE  BuffersOK' /\ IntactOK'
  <1>0. PICK p \in Packet : p = dispatcher.pkt
    BY DEF Send, StagesOK
  <1>w. PICK w \in Workers : w = ShardFor(p.id)
    BY Sizes, PipelineAssumption DEF ShardFor
  <1>1. /\ dispatcher'.pc = "take" /\ Grows(shard[w], shard'[w], p)
        /\ \A v \in Workers \ {w} : shard'[v] = shard[v]
    BY <1>0, <1>w, SendTurns
  <1>2. UNCHANGED <<loop, queue, worker, pool, issued, content>>
    BY DEF Send, bufs
  <1>3. PICK place : Placed(place)
    BY DEF BuffersOK
  <1>4. PICK n \in Nat, last \in Int : n = Len(shard[w]) /\ last = n + 1
    BY LineBuffers
  <1>5. PICK b \in Buffers : b = p.buf
    BY Sizes
  <1>6. PICK next : Leaves(place, next, b, "shard", w, last, "send", None, 0)
    <2>1. \A c \in Buffers : place.pos[c] \in Int
      BY <1>3 DEF Placed
    <2>2. At(place, b, "send", None, 0)
      BY <1>0, <1>3, <1>5 DEF Placed, Send
    <2> QED
      BY <2>1, <2>2, LeaveExists, Zenon
  <1>i. \A i \in 1..Len(shard'[w]) :
          \/ i \in 1..n /\ i \in 1..Len(shard[w]) /\ shard'[w][i] = shard[w][i]
          \/ i = last /\ shard'[w][i] = p
    BY <1>1, <1>4 DEF Grows
  <1>7. Placed(next)'
    <2>1. /\ \A c \in Buffers : next.pos[c] \in Int
          /\ At(next, b, "shard", w, last)
      BY <1>6 DEF Leaves
    <2>2. /\ \A c \in Buffers \ issued' : next.stage[c] = "unmade"
          /\ \A c \in pool' : next.stage[c] = "pool"
      BY <1>2, <1>3, <1>6, LineBuffers DEF Placed, Leaves
    <2>3. \A k \in Listeners : \A i \in 1..Len(loop'[k].slots) :
            At(next, loop'[k].slots[i], "slot", k, i)
      BY <1>2, <1>3, <1>6, LineBuffers DEF Placed, Leaves
    <2>4. \A k \in Listeners : \A i \in 1..Len(loop'[k].out) :
            At(next, loop'[k].out[i].buf, "batch", k, i)
      BY <1>2, <1>3, <1>6, LineBuffers DEF Placed, Leaves
    <2>5. \A i \in 1..Len(queue') : At(next, queue'[i].buf, "queue", None, i)
      BY <1>2, <1>3, <1>6, LineBuffers DEF Placed, Leaves
    <2>6. \A v \in Workers : \A i \in 1..Len(shard[v]) : At(next, shard[v][i].buf, "shard", v, i)
      BY <1>3, <1>6, LineBuffers DEF Placed, Leaves
    <2>7. ASSUME NEW v \in Workers, NEW i \in 1..Len(shard'[v])
          PROVE  At(next, shard'[v][i].buf, "shard", v, i)
      <3>1. CASE v = w
        BY <1>5, <1>i, <2>1, <2>6, <3>1
      <3>2. CASE v # w
        BY <1>1, <2>6, <3>2
      <3> QED
        BY <3>1, <3>2
    <2>8. \A v \in Workers : worker'[v].pc \in {"decode", "release"} =>
            At(next, worker'[v].pkt.buf, "decode", v, 0)
      BY <1>2, <1>3, <1>6, LineBuffers DEF Placed, Leaves
    <2> QED
      BY <1>1, <1>2, <2>1, <2>2, <2>3, <2>4, <2>5, <2>7, <2>8, Zenon DEF Placed, At
  <1>8. IntactOK'
    <2>1. Intact(p)
      BY <1>0 DEF IntactOK, Send
    <2>2. ASSUME NEW v \in Workers, NEW i \in 1..Len(shard'[v]) PROVE Intact(shard'[v][i])
      <3>1. CASE v = w
        BY <1>i, <2>1, <3>1 DEF IntactOK
      <3>2. CASE v # w
        BY <1>1, <3>2 DEF IntactOK
      <3> QED
        BY <3>1, <3>2
    <2> QED
      BY <1>1, <1>2, <2>2 DEF IntactOK, Intact
  <1> QED
    BY <1>7, <1>8 DEF BuffersOK

\* The head of a shard goes into its worker's hands.
LEMMA TakeBuffersOK ==
  ASSUME TypeOK, StagesOK, BuffersOK, IntactOK, NEW w \in Workers, Take(w)
  PROVE  BuffersOK' /\ IntactOK'
  <1>1. /\ worker'[w].pc = "decode" /\ worker'[w].pkt = shard[w][1]
        /\ \A v \in Workers \ {w} : worker'[v] = worker[v]
        /\ Pops(shard[w], shard'[w]) /\ \A v \in Workers \ {w} : shard'[v] = shard[v]
    BY TakeTurns DEF WorkerTurns
  <1>2. UNCHANGED <<loop, queue, dispatcher, pool, issued, content>>
    BY DEF Take, bufs
  <1>3. PICK place : Placed(place)
    BY DEF BuffersOK
  <1>4. PICK n \in Nat, m \in Int : /\ n = Len(shard[w]) /\ m = Len(shard'[w]) /\ m = n - 1
                                    /\ 1 \in 1..n
    BY <1>1, LineBuffers DEF Pops
  <1>5. PICK b \in Buffers : b = shard[w][1].buf
    BY <1>4, LineBuffers
  <1>6. PICK next : Leaves(place, next, b, "decode", w, 0, "shard", w, 1)
    <2>1. \A c \in Buffers : place.pos[c] \in Int
      BY <1>3 DEF Placed
    <2>2. At(place, b, "shard", w, 1)
      BY <1>3, <1>4, <1>5 DEF Placed
    <2>3. 0 \in Int
      OBVIOUS
    <2> QED
      BY <2>1, <2>2, <2>3, LeaveExists, Zenon
  <1>i. \A i \in 1..Len(shard'[w]) : i + 1 \in 1..Len(shard[w]) /\ shard'[w][i] = shard[w][i + 1]
    <2>1. TAKE i \in 1..Len(shard'[w])
    <2>2. i \in 1..m /\ i + 1 \in 1..n
      BY <1>4
    <2> QED
      BY <1>1, <1>4, <2>2 DEF Pops
  <1>7. Placed(next)'
    <2>1. /\ \A c \in Buffers : next.pos[c] \in Int
          /\ At(next, b, "decode", w, 0)
      BY <1>6 DEF Leaves
    <2>2. /\ \A c \in Buffers \ issued' : next.stage[c] = "unmade"
          /\ \A c \in pool' : next.stage[c] = "pool"
      BY <1>2, <1>3, <1>6, LineBuffers DEF Placed, Leaves
    <2>3. \A k \in Listeners : \A i \in 1..Len(loop'[k].slots) :
            At(next, loop'[k].slots[i], "slot", k, i)
      BY <1>2, <1>3, <1>6, LineBuffers DEF Placed, Leaves
    <2>4. \A k \in Listeners : \A i \in 1..Len(loop'[k].out) :
            At(next, loop'[k].out[i].buf, "batch", k, i)
      BY <1>2, <1>3, <1>6, LineBuffers DEF Placed, Leaves
    <2>5. \A i \in 1..Len(queue') : At(next, queue'[i].buf, "queue", None, i)
      BY <1>2, <1>3, <1>6, LineBuffers DEF Placed, Leaves
    <2>6. dispatcher'.pc = "send" => At(next, dispatcher'.pkt.buf, "send", None, 0)
      BY <1>2, <1>3, <1>6, LineBuffers DEF Placed, Leaves
    <2>7. ASSUME NEW v \in Workers, NEW i \in 1..Len(shard'[v])
          PROVE  At(next, shard'[v][i].buf, "shard", v, i)
      <3>1. CASE v = w
        <4>1. i + 1 \in 1..Len(shard[w]) /\ shard'[w][i] = shard[w][i + 1]
          BY <1>i, <3>1
        <4>2. At(place, shard[w][i + 1].buf, "shard", w, i + 1) /\ shard[w][i + 1].buf \in Buffers
          BY <1>3, <4>1, LineBuffers DEF Placed
        <4>3. i + 1 # 1 /\ i + 1 - 1 = i
          OBVIOUS
        <4> QED
          BY <1>6, <3>1, <4>1, <4>2, <4>3 DEF Leaves
      <3>2. CASE v # w
        <4>1. shard'[v] = shard[v] /\ i \in 1..Len(shard[v]) /\ shard[v][i].buf \in Buffers
          BY <1>1, <3>2, LineBuffers
        <4> QED
          BY <1>3, <1>6, <3>2, <4>1 DEF Placed, Leaves
      <3> QED
        BY <3>1, <3>2
    <2>8. ASSUME NEW v \in Workers, worker'[v].pc \in {"decode", "release"}
          PROVE  At(next, worker'[v].pkt.buf, "decode", v, 0)
      <3>1. CASE v = w
        BY <1>1, <1>5, <2>1, <3>1
      <3>2. CASE v # w
        <4>1. worker[v].pkt.buf \in Buffers /\ At(place, worker[v].pkt.buf, "decode", v, 0)
          BY <1>1, <1>3, <2>8, <3>2, LineBuffers DEF Placed
        <4> QED
          BY <1>1, <1>6, <3>2, <4>1 DEF Leaves
      <3> QED
        BY <3>1, <3>2
    <2> QED
      BY <1>2, <2>1, <2>2, <2>3, <2>4, <2>5, <2>6, <2>7, <2>8, Zenon DEF Placed, At
  <1>8. IntactOK'
    <2>1. ASSUME NEW v \in Workers, NEW i \in 1..Len(shard'[v]) PROVE Intact(shard'[v][i])
      BY <1>1, <1>i DEF IntactOK
    <2>2. ASSUME NEW v \in Workers, worker'[v].pc \in {"decode", "release"}
          PROVE  Intact(worker'[v].pkt)
      <3>1. CASE v = w
        BY <1>1, <1>4, <3>1 DEF IntactOK
      <3>2. CASE v # w
        BY <1>1, <2>2, <3>2 DEF IntactOK
      <3> QED
        BY <3>1, <3>2
    <2> QED
      BY <1>2, <2>1, <2>2 DEF IntactOK, Intact
  <1> QED
    BY <1>7, <1>8 DEF BuffersOK

\* A worker that has decoded puts its buffer back.
LEMMA ReleaseBuffersOK ==
  ASSUME TypeOK, StagesOK, BuffersOK, IntactOK, NEW w \in Workers, Release(w)
  PROVE  BuffersOK' /\ IntactOK'
  <1>1. worker'[w].pc = "enrich" /\ \A v \in Workers \ {w} : worker'[v] = worker[v]
    BY DecodeLoopTurns DEF WorkerTurns
  <1>2. UNCHANGED <<loop, queue, dispatcher, shard, issued, content>>
    BY DEF Release, Put, stages
  <1>3. PICK place : Placed(place)
    BY DEF BuffersOK
  <1>5. PICK b \in Buffers : b = worker[w].pkt.buf
    BY LineBuffers DEF Release
  <1>6. PICK next : Leaves(place, next, b, "pool", None, 0, "decode", w, 0)
    <2>1. \A c \in Buffers : place.pos[c] \in Int
      BY <1>3 DEF Placed
    <2>2. At(place, b, "decode", w, 0)
      BY <1>3, <1>5 DEF Placed, Release
    <2>3. 0 \in Int
      OBVIOUS
    <2> QED
      BY <2>1, <2>2, <2>3, LeaveExists, Zenon
  <1>7. Placed(next)'
    <2>1. /\ \A c \in Buffers : next.pos[c] \in Int
          /\ At(next, b, "pool", None, 0)
      BY <1>6 DEF Leaves
    <2>2. /\ \A c \in Buffers \ issued : next.stage[c] = "unmade"
          /\ \A c \in pool' : next.stage[c] = "pool"
      <3>1. pool' = pool \cup {b}
        BY <1>5 DEF Release, Put
      <3> QED
        BY <1>3, <1>6, <2>1, <3>1, LineBuffers DEF Placed, Leaves, At
    <2>3. \A k \in Listeners : \A i \in 1..Len(loop'[k].slots) :
            At(next, loop'[k].slots[i], "slot", k, i)
      BY <1>2, <1>3, <1>6, LineBuffers DEF Placed, Leaves
    <2>4. \A k \in Listeners : \A i \in 1..Len(loop'[k].out) :
            At(next, loop'[k].out[i].buf, "batch", k, i)
      BY <1>2, <1>3, <1>6, LineBuffers DEF Placed, Leaves
    <2>5. \A i \in 1..Len(queue') : At(next, queue'[i].buf, "queue", None, i)
      BY <1>2, <1>3, <1>6, LineBuffers DEF Placed, Leaves
    <2>6. dispatcher'.pc = "send" => At(next, dispatcher'.pkt.buf, "send", None, 0)
      BY <1>2, <1>3, <1>6, LineBuffers DEF Placed, Leaves
    <2>7. \A v \in Workers : \A i \in 1..Len(shard'[v]) : At(next, shard'[v][i].buf, "shard", v, i)
      BY <1>2, <1>3, <1>6, LineBuffers DEF Placed, Leaves
    <2>8. ASSUME NEW v \in Workers, worker'[v].pc \in {"decode", "release"}
          PROVE  At(next, worker'[v].pkt.buf, "decode", v, 0)
      <3>1. v # w /\ worker'[v] = worker[v]
        BY <1>1, <2>8
      <3>2. worker[v].pkt.buf \in Buffers /\ At(place, worker[v].pkt.buf, "decode", v, 0)
        BY <1>3, <2>8, <3>1, LineBuffers DEF Placed
      <3> QED
        BY <1>6, <3>1, <3>2 DEF Leaves
    <2> QED
      BY <1>2, <2>1, <2>2, <2>3, <2>4, <2>5, <2>6, <2>7, <2>8, Zenon DEF Placed, At
  <1>8. IntactOK'
    <2>1. \A v \in Workers : worker'[v].pc \in {"decode", "release"} => worker'[v] = worker[v]
      BY <1>1
    <2> QED
      BY <1>2, <2>1 DEF IntactOK, Intact
  <1> QED
    BY <1>7, <1>8 DEF BuffersOK

\* Where nothing is handed on, every buffer stays where it is.
LEMMA StayPut ==
  ASSUME BuffersOK, IntactOK, UNCHANGED <<queue, shard, pool, issued, content>>,
         \A l \in Listeners : loop'[l].slots = loop[l].slots /\ loop'[l].out = loop[l].out,
         dispatcher'.pc = "send" => dispatcher.pc = "send" /\ dispatcher'.pkt = dispatcher.pkt,
         \A w \in Workers : worker'[w].pc \in {"decode", "release"} =>
           worker[w].pc \in {"decode", "release"} /\ worker'[w].pkt = worker[w].pkt
  PROVE  BuffersOK' /\ IntactOK'
  <1>1. PICK place : Placed(place)
    BY DEF BuffersOK
  <1>2. Placed(place)'
    <2>1. \A b \in Buffers : place.pos[b] \in Int
      BY <1>1 DEF Placed
    <2>2. /\ \A b \in Buffers \ issued' : place.stage[b] = "unmade"
          /\ \A b \in pool' : place.stage[b] = "pool"
      BY <1>1 DEF Placed
    <2>3. \A l \in Listeners : \A i \in 1..Len(loop'[l].slots) :
            At(place, loop'[l].slots[i], "slot", l, i)
      BY <1>1 DEF Placed
    <2>4. \A l \in Listeners : \A i \in 1..Len(loop'[l].out) :
            At(place, loop'[l].out[i].buf, "batch", l, i)
      BY <1>1 DEF Placed
    <2>5. \A i \in 1..Len(queue') : At(place, queue'[i].buf, "queue", None, i)
      BY <1>1 DEF Placed
    <2>6. dispatcher'.pc = "send" => At(place, dispatcher'.pkt.buf, "send", None, 0)
      BY <1>1 DEF Placed
    <2>7. \A w \in Workers : \A i \in 1..Len(shard'[w]) :
            At(place, shard'[w][i].buf, "shard", w, i)
      BY <1>1 DEF Placed
    <2>8. \A w \in Workers : worker'[w].pc \in {"decode", "release"} =>
            At(place, worker'[w].pkt.buf, "decode", w, 0)
      BY <1>1 DEF Placed
    <2> QED
      BY <2>1, <2>2, <2>3, <2>4, <2>5, <2>6, <2>7, <2>8, Zenon DEF Placed, At
  <1>3. IntactOK'
    BY DEF IntactOK, Intact
  <1> QED
    BY <1>2, <1>3 DEF BuffersOK

\* No step moves a buffer to a place another has, or writes into one in use.
LEMMA NextBuffersOK ==
  ASSUME TypeOK, StagesOK, BuffersOK, IntactOK, [Next]_vars
  PROVE  BuffersOK' /\ IntactOK'
  <1>1. ASSUME NEW l \in Listeners, ReadLoop(l) PROVE BuffersOK' /\ IntactOK'
    <2>1. CASE ReadClosed(l)
      <3>1. \A k \in Listeners : loop'[k].slots = loop[k].slots /\ loop'[k].out = loop[k].out
        BY <2>1, ReadClosedTurns DEF LoopTurns
      <3>2. UNCHANGED <<queue, dispatcher, shard, worker, pool, issued, content>>
        BY <2>1 DEF ReadClosed, bufs
      <3> QED
        BY <3>1, <3>2, StayPut
    <2> QED
      BY <1>1, <2>1, RefillBuffersOK, ReadBuffersOK, EnqueueBuffersOK DEF ReadLoop
  <1>2. CASE CloseShards
    <2>1. /\ UNCHANGED <<loop, queue, shard, worker, pool, issued, content>>
          /\ dispatcher'.pc # "send"
      BY <1>2 DEF CloseShards, bufs, TypeOK, DispatcherState
    <2> QED
      BY <2>1, StayPut
  <1>3. ASSUME NEW w \in Workers, DecodeLoop(w) PROVE BuffersOK' /\ IntactOK'
    <2>1. CASE Decode(w) \/ LoadReader(w) \/ LookUp(w) \/ Ingest(w) \/ ShardEnded(w)
      <3>1. LoadReader(w) => reader \in Readers
        BY DEF LoadReader, StagesOK
      <3>2. /\ \A v \in Workers \ {w} : worker'[v] = worker[v]
            /\ worker'[w].pc \in {"decode", "release"} =>
                 worker[w].pc = "decode" /\ worker'[w].pkt = worker[w].pkt
        BY <2>1, <3>1, DecodeLoopTurns DEF WorkerTurns, Decode
      <3>3. UNCHANGED <<loop, queue, dispatcher, shard, pool, issued, content>>
        BY <2>1 DEF Decode, LoadReader, LookUp, Ingest, ShardEnded, stages, bufs
      <3>4. \A v \in Workers : worker'[v].pc \in {"decode", "release"} =>
              worker[v].pc \in {"decode", "release"} /\ worker'[v].pkt = worker[v].pkt
        BY <3>2
      <3> QED
        BY <3>3, <3>4, StayPut
    <2> QED
      BY <1>3, <2>1, TakeBuffersOK, ReleaseBuffersOK DEF DecodeLoop
  <1>4. CASE UNCHANGED <<loop, queue, dispatcher, shard, worker, pool, issued, content>>
    BY <1>4, StayPut
  <1> QED
    BY <1>1, <1>2, <1>3, <1>4, DispatchBuffersOK, SendBuffersOK
    DEF Next, Dispatcher, Reload, Stop, Shutdown, CloseConns, CloseQueue, Await, CloseChain,
        Exited, vars, stages, bufs

-----------------------------------------------------------------------------
(* The invariant, and what it promises. *)

\* It holds at the start.
LEMMA InitInv == Init => Inv
  <1> SUFFICES ASSUME Init PROVE Inv
    OBVIOUS
  <1>e. \A X : <<>> \in Seq(X) /\ Len(<<>>) = 0
    BY EmptySeq
  <1>1. TypeOK
    <2>1. ASSUME NEW X, NEW n \in Nat PROVE <<>> \in BoundedSeq(X, n)
      <3>1. Len(<<>>) \in 0..n
        BY <1>e
      <3> QED
        BY <1>e, <3>1, BoundedSeqIs
    <2>2. /\ <<>> \in BoundedSeq(Buffers, BatchSize) /\ <<>> \in BoundedSeq(Packet, BatchSize)
          /\ <<>> \in BoundedSeq(Packet, QueueSize) /\ <<>> \in BoundedSeq(Packet, ShardSize)
      BY <2>1, Sizes
    <2>3. loop \in [Listeners -> LoopState] /\ worker \in [Workers -> WorkerState]
      BY <2>2 DEF Init, LoopState, WorkerState
    <2> QED
      BY <1>e, <2>2, <2>3, PipelineAssumption DEF Init, TypeOK, DispatcherState
  <1>2. StagesOK
    BY Sizes DEF Init, StagesOK
  <1>3. RoutedOK
    BY <1>e, Sizes DEF Init, RoutedOK
  <1>4. AccountedOK
    BY DEF Init, AccountedOK
  <1>5. BuffersOK
    <2> DEFINE place == [stage |-> [b \in Buffers |-> "unmade"], owner |-> [b \in Buffers |-> None],
                         pos |-> [b \in Buffers |-> 0]]
    <2>1. Placed(place)
      BY <1>e DEF Init, Placed
    <2> QED
      BY <2>1 DEF BuffersOK
  <1>6. IntactOK
    BY <1>e DEF Init, IntactOK
  <1> QED
    BY <1>1, <1>2, <1>3, <1>4, <1>5, <1>6 DEF Inv

\* Every step keeps it.
LEMMA NextInv == Inv /\ [Next]_vars => Inv'
  BY NextTypeOK, NextStagesOK, NextRoutedOK, NextAccountedOK, NextBuffersOK DEF Inv

\* So it always holds.
LEMMA Invariant == Spec => []Inv
  BY InitInv, NextInv, PTL DEF Spec

\* The sockets, the loops, the queue, the shards, the workers and the buffers
\* keep their types, and the queue and the shards their bounds.
THEOREM TypeCorrect == Spec => []TypeOK
  <1>1. Inv => TypeOK
    BY DEF Inv
  <1> QED
    BY <1>1, Invariant, PTL

\* What is in a sequence, and in one of no element or of one.
LEMMA InRange ==
  ASSUME NEW X, NEW s \in Seq(X)
  PROVE  \A q : q \in Range(s) <=> \E i \in 1..Len(s) : q = s[i]
  BY RangeEquality

\* The empty sequence has no member, and one of one element has that one.
LEMMA InShortRange ==
  ASSUME NEW X
  PROVE  /\ \A q : q \notin Range(<<>>)
         /\ \A p \in X : <<p>> \in Seq(X) /\ \A q : q \in Range(<<p>>) => q = p
  <1>1. PICK t \in Seq(X) : t = <<>> /\ Len(t) = 0
    BY EmptySeq
  <1>2. \A q : q \in Range(t) <=> \E i \in 1..Len(t) : q = t[i]
    BY InRange, Zenon
  <1>3. ASSUME NEW p \in X PROVE <<p>> \in Seq(X) /\ \A q : q \in Range(<<p>>) => q = p
    <2>1. <<p>> \in Seq(X) /\ Len(<<p>>) = 1 /\ <<p>>[1] = p
      OBVIOUS
    <2>2. \A q : q \in Range(<<p>>) <=> \E i \in 1..Len(<<p>>) : q = <<p>>[i]
      BY <2>1, InRange, Zenon
    <2> QED
      BY <2>1, <2>2
  <1>4. \A q : q \notin Range(t)
    BY <1>1, <1>2
  <1> QED
    BY <1>1, <1>3, <1>4

\* Where a packet in flight is.
LEMMA InFlightIs ==
  ASSUME TypeOK, StagesOK, NEW p \in InFlight
  PROVE  \/ \E l \in Listeners : \E i \in 1..Len(loop[l].out) : p = loop[l].out[i]
         \/ \E i \in 1..Len(queue) : p = queue[i]
         \/ dispatcher.pc = "send" /\ p = dispatcher.pkt
         \/ \E w \in Workers : \E i \in 1..Len(shard[w]) : p = shard[w][i]
         \/ \E w \in Workers : worker[w].pc \in {"decode", "release"} /\ p = worker[w].pkt
  <1>1. /\ Held(NoPacket) = <<>> /\ \A q \in Packet : Held(q) = <<q>>
        /\ <<>> \in Seq(Packet)
    BY Sizes, EmptySeq DEF Held
  <1>2. \A s \in Seq(Packet) : \A q : q \in Range(s) <=> \E i \in 1..Len(s) : q = s[i]
    BY InRange, Zenon
  <1>e. /\ \A q : q \notin Range(<<>>)
        /\ \A q \in Packet : <<q>> \in Seq(Packet) /\ \A x : x \in Range(<<q>>) => x = q
    BY InShortRange, Zenon
  <1>3. ASSUME NEW w \in Workers, p \in Range(Undecoded(w)) \cup InHand(w)
        PROVE  \/ \E i \in 1..Len(shard[w]) : p = shard[w][i]
               \/ worker[w].pc \in {"decode", "release"} /\ p = worker[w].pkt
    <2>1. /\ shard[w] \in Seq(Packet)
          /\ worker[w].pc = "decode" => worker[w].pkt \in Packet
      BY TypeParts DEF Parts
    <2>2. CASE p \in InHand(w)
      BY <2>2 DEF InHand
    <2>3. CASE p \in Range(Undecoded(w)) /\ worker[w].pc = "decode"
      <3>1. Undecoded(w) = Held(worker[w].pkt) \o shard[w]
        BY <2>3 DEF Undecoded
      <3>2. PICK q \in Packet : q = worker[w].pkt
        BY <2>1, <2>3
      <3>3. p \in Range(<<q>>) \/ p \in Range(shard[w])
        <4>1. PICK s \in Seq(Packet), t \in Seq(Packet) : s = <<q>> /\ t = shard[w]
          BY <1>e, <2>1
        <4>2. Undecoded(w) = s \o t
          <5>1. Undecoded(w) = Held(q) \o shard[w]
            BY <3>1, <3>2
          <5>2. Held(q) = <<q>>
            BY <1>1
          <5> QED
            BY <4>1, <5>1, <5>2, Zenon
        <4>3. p \in Range(s) \cup Range(t)
          <5>1. p \in Range(s \o t)
            BY <2>3, <4>2
          <5>2. Range(s \o t) = Range(s) \cup Range(t)
            BY RangeConcatenation
          <5> QED
            BY <5>1, <5>2
        <4> QED
          BY <4>1, <4>3
      <3> QED
        BY <1>2, <1>e, <2>1, <2>3, <3>2, <3>3
    <2>4. CASE p \in Range(Undecoded(w)) /\ worker[w].pc # "decode"
      <3>1. Undecoded(w) = <<>> \o shard[w]
        BY <2>4 DEF Undecoded
      <3>2. p \in Range(shard[w])
        BY <1>1, <1>e, <2>1, <2>4, <3>1, RangeConcatenation
      <3> QED
        BY <1>2, <2>1, <3>2
    <2> QED
      BY <1>3, <2>2, <2>3, <2>4
  <1>4. CASE p \in Range(Held(dispatcher.pkt))
    BY <1>1, <1>e, <1>4, TypeParts DEF Parts, StagesOK
  <1>5. CASE p \in Range(queue)
    BY <1>2, <1>5, TypeParts DEF Parts
  <1>6. ASSUME NEW l \in Listeners, p \in Range(loop[l].out)
        PROVE  \E i \in 1..Len(loop[l].out) : p = loop[l].out[i]
    BY <1>2, <1>6, TypeParts DEF Parts
  <1>7. \/ \E w \in Workers : p \in Range(Undecoded(w)) \cup InHand(w)
        \/ p \in Range(Held(dispatcher.pkt)) \/ p \in Range(queue)
        \/ \E l \in Listeners : p \in Range(loop[l].out)
    BY DEF InFlight
  <1> QED
    BY <1>3, <1>4, <1>5, <1>6, <1>7

\* No buffer is put back, read into or handed to a second packet while a packet
\* on its way to the decoder holds it, whatever the stages do meanwhile.
THEOREM BufferIntactHolds == Spec => []BufferIntact
  <1>1. ASSUME Inv PROVE BufferIntact
    <2>0. TypeOK /\ StagesOK /\ IntactOK
      BY <1>1 DEF Inv
    <2>1. PICK place : Placed(place)
      BY <1>1 DEF Inv, BuffersOK
    <2> SUFFICES ASSUME NEW p \in InFlight
                 PROVE  /\ content[p.buf] = p.id
                        /\ p.buf \notin pool
                        /\ \A l \in Listeners : p.buf \notin Range(loop[l].slots)
      BY DEF BufferIntact
    <2>2. /\ content[p.buf] = p.id
          /\ place.stage[p.buf] \in {"batch", "queue", "send", "shard", "decode"}
      BY <2>0, <2>1, InFlightIs DEF Placed, At, IntactOK, Intact
    <2>3. p.buf \notin pool
      BY <2>1, <2>2 DEF Placed
    <2>4. ASSUME NEW l \in Listeners, p.buf \in Range(loop[l].slots) PROVE FALSE
      <3>1. PICK i \in 1..Len(loop[l].slots) : p.buf = loop[l].slots[i]
        BY <2>0, <2>4, TypeParts, RangeEquality DEF Parts
      <3> QED
        BY <2>1, <2>2, <3>1 DEF Placed, At
    <2> QED
      BY <2>2, <2>3, <2>4
  <1> QED
    BY <1>1, Invariant, PTL

\* Two workers never hold datagrams of one device.
THEOREM OneWorkerPerDeviceHolds == Spec => []OneWorkerPerDevice
  <1>1. ASSUME Inv PROVE OneWorkerPerDevice
    <2>1. \A w \in Workers : worker[w].pkt.id # None =>
            ShardOf[SourceOf[worker[w].pkt.id]] = w
      <3>1. \A w \in Workers : worker[w].pkt \in Packet \/ worker[w].pkt = NoPacket
        BY <1>1, TypeParts DEF Inv, Parts
      <3> QED
        BY <1>1, <3>1, Sizes DEF Inv, RoutedOK, ShardFor
    <2> QED
      BY <2>1 DEF OneWorkerPerDevice
  <1> QED
    BY <1>1, Invariant, PTL

\* No lookup goes to a database that was closed, and no send to a channel that
\* was: each stage is closed when all that feed it are done.
THEOREM NothingClosedIsUsedHolds == Spec => []NothingClosedIsUsed
  <1>1. ASSUME Inv PROVE NothingClosedIsUsed
    <2>1. ASSUME NEW w \in Workers PROVE worker[w].db \notin closed
      <3>1. CASE main # "exited"
        BY <1>1, <3>1 DEF Inv, StagesOK
      <3>2. CASE main = "exited"
        <4>1. worker[w].db = None
          BY <1>1, <3>2, TypeParts DEF Inv, StagesOK, Parts
        <4> QED
          BY <1>1, <4>1, PipelineAssumption DEF Inv, TypeOK
      <3> QED
        BY <3>1, <3>2
    <2> QED
      BY <1>1, <2>1 DEF Inv, StagesOK, NothingClosedIsUsed
  <1> QED
    BY <1>1, Invariant, PTL

\* A shutdown loses nothing that was read: at exit every stage is empty, so what
\* the sockets handed over was consumed, or dropped and counted.
THEOREM DrainedAtExitHolds == Spec => []DrainedAtExit
  <1>1. ASSUME Inv PROVE DrainedAtExit
    <2> SUFFICES ASSUME main = "exited", NEW l \in Listeners,
                        NEW d \in Range(Arrivals[l]) \ Range(socket[l])
                 PROVE  d \in consumed \cup dropped
      BY DEF DrainedAtExit
    <2>0. TypeOK /\ StagesOK /\ AccountedOK
      BY <1>1 DEF Inv
    <2>1. Arrivals[l] \in Seq(Datagrams) /\ socket[l] \in Seq(Datagrams)
      BY <2>0, PipelineAssumption DEF TypeOK
    <2>2. PICK i \in 1..Len(Arrivals[l]) : d = Arrivals[l][i]
      BY <2>1, RangeEquality
    <2>3. d \in Datagrams /\ d # None
      BY <2>1, <2>2, ElementOfSeq, PipelineAssumption
    <2>4. ~\E j \in 1..Len(socket[l]) : socket[l][j] = d
      BY <2>1, RangeEquality
    <2>5. Arrived(d)
      BY <2>0, <2>2, <2>4 DEF AccountedOK
    <2>6. /\ queueClosed /\ dispatcher.pc = "done" /\ queue = <<>>
          /\ \A k \in Listeners : loop[k].out = <<>>
          /\ \A w \in Workers : worker[w].pc = "done" /\ shard[w] = <<>>
      BY <2>0 DEF StagesOK
    <2>7. Len(<<>>) = 0
      BY EmptySeq
    <2>8. ~InBatch(d) /\ ~InQueue(d) /\ ~InShard(d)
      BY <2>6, <2>7 DEF InBatch, InQueue, InShard
    <2>9. ~InDispatch(d)
      <3>1. dispatcher.pkt = NoPacket
        BY <2>0, <2>6, TypeParts DEF StagesOK, Parts
      <3> QED
        BY <2>3, <3>1, Sizes DEF InDispatch
    <2>10. ~InWork(d)
      BY <2>0, <2>3, <2>6, TypeParts, Sizes DEF InWork, Parts
    <2> QED
      BY <2>5, <2>8, <2>9, <2>10 DEF Arrived
  <1> QED
    BY <1>1, Invariant, PTL
===============================================================================
