--------------------------- MODULE PipelineStreams ---------------------------
(***************************************************************************)
(* The proof that Pipeline implements Streams, for any listeners, workers  *)
(* and exporters, any arrivals, and any sizes of the batch, the queue and  *)
(* the shards.                                                             *)
(*                                                                         *)
(* What is still on the way of a stream is a line: its datagrams with its  *)
(* worker, in the shard, with the dispatcher, in the queue, in the batch   *)
(* and in the socket.  A stage that hands on the head of what it has to    *)
(* the end of the next leaves the line as it was; a drop takes one out of  *)
(* it, and only a decode takes its head.                                   *)
(***************************************************************************)
EXTENDS PipelineProofs, NaturalsInduction, WellFoundedInduction

-----------------------------------------------------------------------------
(* Induction, for what a set of numbers can say.                           *)

\* A set of numbers has a least.
LEMMA LeastNat ==
  ASSUME NEW T, T \subseteq Nat, T # {}
  PROVE  \E n \in T : \A m \in T : n <= m
  <1> DEFINE less == {ss \in Nat \X Nat : ss[1] < ss[2]}
  <1>1. IsWellFoundedOn(less, Nat)
    BY NatLessThanWellFounded DEF OpToRel
  <1>2. PICK n \in T : \A m \in T : ~(<<m, n>> \in less)
    BY <1>1, WFMin
  <1>3. \A m \in T : n <= m
    <2> TAKE m \in T
    <2>1. <<m, n>> \in less <=> m < n
      OBVIOUS
    <2> HIDE DEF less
    <2> QED
      BY <1>2, <2>1
  <1> QED
    BY <1>3

\* A set with 0, and with the successor of each it has, is all of Nat.
LEMMA Climb ==
  ASSUME NEW T, T \subseteq Nat, 0 \in T, \A n \in T : n + 1 \in T
  PROVE  T = Nat
  <1> SUFFICES ASSUME Nat \ T # {} PROVE FALSE
    OBVIOUS
  <1>1. PICK n \in Nat \ T : \A m \in Nat \ T : n <= m
    BY LeastNat
  <1> QED
    BY <1>1

\* A run of the recursion over the first n.
Picking(f, own, ids, n) ==
  /\ DOMAIN f = 0..n
  /\ f[0] = <<>>
  /\ \A i \in 1..n : f[i] = IF ids[i] \in own THEN Append(f[i - 1], ids[i]) ELSE f[i - 1]

\* There is such a run.
LEMMA PickingExists ==
  ASSUME NEW D, NEW own, NEW ids \in Seq(D), NEW n \in Nat, n <= Len(ids)
  PROVE  \E f \in [0..n -> Seq(D)] : Picking(f, own, ids, n)
  <1> DEFINE T == {m \in Nat : m <= Len(ids) => \E f \in [0..m -> Seq(D)] : Picking(f, own, ids, m)}
  <1>1. 0 \in T
    <2> DEFINE f == [i \in 0..0 |-> <<>>]
    <2>1. f \in [0..0 -> Seq(D)] /\ Picking(f, own, ids, 0)
      BY EmptySeq DEF Picking
    <2> QED
      BY <2>1
  <1>2. ASSUME NEW m \in T
        PROVE  m + 1 \in T
    <2> SUFFICES ASSUME m + 1 <= Len(ids)
                 PROVE  \E g \in [0..(m + 1) -> Seq(D)] : Picking(g, own, ids, m + 1)
      OBVIOUS
    <2>0. Len(ids) \in Nat /\ m \in Nat
      BY LenProperties
    <2>1. PICK f \in [0..m -> Seq(D)] : Picking(f, own, ids, m)
      BY <1>2, <2>0
    <2>2. ids[m + 1] \in D
      BY <2>0, ElementOfSeq
    <2> DEFINE next == IF ids[m + 1] \in own THEN Append(f[m], ids[m + 1]) ELSE f[m]
               g == [i \in 0..(m + 1) |-> IF i = m + 1 THEN next ELSE f[i]]
    <2>3. next \in Seq(D)
      BY <2>0, <2>1, <2>2, AppendProperties
    <2>4. g[m + 1] = next /\ \A i \in 0..m : g[i] = f[i]
      BY <2>0
    <2> HIDE DEF next
    <2>5. g \in [0..(m + 1) -> Seq(D)]
      BY <2>0, <2>1, <2>3
    <2> HIDE DEF g
    <2>6. \A i \in 1..(m + 1) : g[i] = IF ids[i] \in own THEN Append(g[i - 1], ids[i]) ELSE g[i - 1]
      <3> SUFFICES ASSUME NEW i \in 1..(m + 1)
                   PROVE  g[i] = IF ids[i] \in own THEN Append(g[i - 1], ids[i]) ELSE g[i - 1]
        OBVIOUS
      <3>1. g[i - 1] = f[i - 1]
        BY <2>0, <2>4
      <3>2. CASE i = m + 1
        BY <2>0, <2>4, <3>1, <3>2 DEF next
      <3>3. CASE i \in 1..m
        <4>1. f[i] = IF ids[i] \in own THEN Append(f[i - 1], ids[i]) ELSE f[i - 1]
          BY <2>1, <3>3, Zenon DEF Picking
        <4>2. g[i] = f[i]
          BY <2>0, <2>4, <3>3
        <4> QED
          BY <3>1, <4>1, <4>2, Zenon
      <3> QED
        BY <2>0, <3>2, <3>3
    <2>7. Picking(g, own, ids, m + 1)
      BY <2>0, <2>1, <2>4, <2>5, <2>6 DEF Picking
    <2> QED
      BY <2>5, <2>7
  <1>3. T = Nat
    <2> HIDE DEF T
    <2>1. T \subseteq Nat
      BY DEF T
    <2> QED
      BY <1>1, <1>2, <2>1, Climb
  <1> QED
    BY <1>3

\* Two runs end alike.
LEMMA PickingUnique ==
  ASSUME NEW D, NEW own, NEW ids \in Seq(D), NEW n \in Nat, n <= Len(ids),
         NEW f, NEW g, Picking(f, own, ids, n), Picking(g, own, ids, n)
  PROVE  f[n] = g[n]
  <1> DEFINE T == {m \in Nat : m <= n => f[m] = g[m]}
  <1>1. 0 \in T
    BY DEF Picking
  <1>2. ASSUME NEW m \in T
        PROVE  m + 1 \in T
    BY DEF Picking
  <1>3. T = Nat
    <2> HIDE DEF T
    <2>1. T \subseteq Nat
      BY DEF T
    <2> QED
      BY <1>1, <1>2, <2>1, Climb
  <1> QED
    BY <1>3

\* So Picked is what a run ends with.
LEMMA PickedIs ==
  ASSUME NEW D, NEW own, NEW ids \in Seq(D), NEW f, Picking(f, own, ids, Len(ids)),
         f = [i \in 0..Len(ids) |-> f[i]]
  PROVE  Picked(own, ids) = f[Len(ids)]
  <1> DEFINE is(h) == h = [n \in 0..Len(ids) |->
                 IF n = 0 THEN <<>>
                 ELSE IF ids[n] \in own THEN Append(h[n - 1], ids[n]) ELSE h[n - 1]]
             picked == CHOOSE h : is(h)
  <1>0. Len(ids) \in Nat
    BY LenProperties
  <1>1. is(f)
    BY <1>0 DEF Picking
  <1>2. is(picked)
    <2> HIDE DEF is
    <2> QED
      BY <1>1
  <1>3. PICK h : h = picked /\ is(h)
    BY <1>2
  <1>4. Picking(h, own, ids, Len(ids))
    <2>1. DOMAIN h = 0..Len(ids)
      BY <1>3
    <2> DEFINE at(n) == IF n = 0 THEN <<>>
                        ELSE IF ids[n] \in own THEN Append(h[n - 1], ids[n]) ELSE h[n - 1]
    <2>a. h = [n \in 0..Len(ids) |-> at(n)]
      BY <1>3
    <2> HIDE DEF at
    <2>b. \A n \in 0..Len(ids) : h[n] = at(n)
      BY <2>a
    <2>2. h[0] = <<>>
      BY <1>0, <2>b DEF at
    <2>3. \A i \in 1..Len(ids) : h[i] = IF ids[i] \in own THEN Append(h[i - 1], ids[i]) ELSE h[i - 1]
      BY <1>0, <2>b DEF at
    <2> QED
      BY <2>1, <2>2, <2>3 DEF Picking
  <1>5. h[Len(ids)] = f[Len(ids)]
    <2> HIDE DEF is, picked
    <2> QED
      BY <1>0, <1>4, PickingUnique
  <1>6. Picked(own, ids) = picked[Len(ids)]
    BY DEF Picked
  <1> HIDE DEF picked
  <1> QED
    BY <1>3, <1>5, <1>6

\* A run that stays among D, and whose end is what is picked.
Runs(D, own, ids) ==
  \E f \in [0..Len(ids) -> Seq(D)] :
    Picking(f, own, ids, Len(ids)) /\ Picked(own, ids) = f[Len(ids)]

\* There is one for each sequence of datagrams.
LEMMA PickedRun ==
  ASSUME NEW D, NEW own, NEW ids \in Seq(D)
  PROVE  Runs(D, own, ids)
  <1>0. Len(ids) \in Nat /\ Len(ids) <= Len(ids)
    BY LenProperties
  <1>1. PICK f \in [0..Len(ids) -> Seq(D)] : Picking(f, own, ids, Len(ids))
    BY <1>0, PickingExists, Zenon
  <1>2. f = [i \in 0..Len(ids) |-> f[i]]
    BY <1>1
  <1> QED
    BY <1>1, <1>2, PickedIs DEF Runs

\* What it picks is a sequence of the same datagrams.
LEMMA PickedSeq ==
  ASSUME NEW D, NEW own, NEW ids \in Seq(D)
  PROVE  Picked(own, ids) \in Seq(D)
  <1>1. Len(ids) \in 0..Len(ids)
    BY LenProperties
  <1>2. Runs(D, own, ids)
    BY PickedRun
  <1> QED
    BY <1>1, <1>2 DEF Runs

\* From nothing it picks nothing.
LEMMA PickedNone ==
  ASSUME NEW own
  PROVE  Picked(own, <<>>) = <<>>
  <1>1. PICK D : D = {}
    OBVIOUS
  <1>e. <<>> \in Seq(D) /\ Len(<<>>) = 0
    BY EmptySeq
  <1>2. PICK ids \in Seq(D) : ids = <<>> /\ Len(ids) = 0
    BY <1>e, Zenon
  <1>3. PICK f \in [0..Len(ids) -> Seq(D)] :
          Picking(f, own, ids, Len(ids)) /\ Picked(own, ids) = f[Len(ids)]
    <2>1. Runs(D, own, ids)
      BY PickedRun
    <2> QED
      BY <2>1 DEF Runs
  <1> QED
    BY <1>2, <1>3 DEF Picking

\* From one more it picks that one too, if it is of the stream.
LEMMA PickedAppend ==
  ASSUME NEW D, NEW own, NEW ids \in Seq(D), NEW d \in D
  PROVE  Picked(own, Append(ids, d))
           = IF d \in own THEN Append(Picked(own, ids), d) ELSE Picked(own, ids)
  <1>0. /\ Len(ids) \in Nat /\ Append(ids, d) \in Seq(D)
        /\ Len(Append(ids, d)) = Len(ids) + 1 /\ Append(ids, d)[Len(ids) + 1] = d
        /\ \A i \in 1..Len(ids) : Append(ids, d)[i] = ids[i]
    BY AppendProperties, LenProperties
  <1>1. PICK n \in Nat, more \in Seq(D) :
          /\ n = Len(ids) /\ more = Append(ids, d) /\ Len(more) = n + 1 /\ more[n + 1] = d
          /\ \A i \in 1..n : more[i] = ids[i]
    BY <1>0, Zenon
  <1>2. PICK f \in [0..(n + 1) -> Seq(D)] :
          Picking(f, own, more, n + 1) /\ Picked(own, more) = f[n + 1]
    <2>1. Runs(D, own, more)
      BY PickedRun
    <2>2. Len(more) = n + 1
      BY <1>1
    <2> QED
      BY <2>1, <2>2, Zenon DEF Runs
  <1> DEFINE g == [i \in 0..n |-> f[i]]
  <1>3. g \in [0..n -> Seq(D)] /\ \A i \in 0..n : g[i] = f[i]
    BY <1>2
  <1>4. g = [i \in 0..n |-> g[i]]
    BY <1>3
  <1> HIDE DEF g
  <1>5. Picking(g, own, ids, n)
    <2>1. \A i \in 1..n : i \in 0..n /\ i - 1 \in 0..n /\ i \in 1..(n + 1)
      OBVIOUS
    <2>2. DOMAIN g = 0..n /\ g[0] = <<>>
      BY <1>2, <1>3 DEF Picking
    <2>3. \A i \in 1..n : g[i] = IF ids[i] \in own THEN Append(g[i - 1], ids[i]) ELSE g[i - 1]
      BY <1>1, <1>2, <1>3, <2>1 DEF Picking
    <2> QED
      BY <2>2, <2>3 DEF Picking
  <1>6. Picked(own, ids) = g[n]
    BY <1>1, <1>4, <1>5, PickedIs
  <1>7. n + 1 \in 1..(n + 1) /\ n + 1 - 1 = n /\ n \in 0..n
    OBVIOUS
  <1>8. f[n + 1] = IF more[n + 1] \in own THEN Append(f[n + 1 - 1], more[n + 1]) ELSE f[n + 1 - 1]
    BY <1>2, <1>7 DEF Picking
  <1> QED
    BY <1>1, <1>2, <1>3, <1>6, <1>7, <1>8

\* Append after a concatenation is append to its second part.
LEMMA ConcatAppend ==
  ASSUME NEW D, NEW a \in Seq(D), NEW b \in Seq(D), NEW d \in D
  PROVE  a \o Append(b, d) = Append(a \o b, d)
  <1>0. <<d>> \in Seq(D)
    OBVIOUS
  <1>1. PICK one \in Seq(D) : one = <<d>>
    BY <1>0, Zenon
  <1>2. PICK ab \in Seq(D) : ab = a \o b
    BY ConcatProperties
  <1>3. Append(b, d) = b \o one /\ Append(ab, d) = ab \o one
    BY <1>1, AppendIsConcat
  <1>4. (a \o b) \o one = a \o (b \o one)
    BY ConcatAssociative
  <1> QED
    BY <1>2, <1>3, <1>4

\* From two sequences in a row it picks from each in turn.
LEMMA PickedConcat ==
  ASSUME NEW D, NEW own, NEW a \in Seq(D), NEW b \in Seq(D)
  PROVE  Picked(own, a \o b) = Picked(own, a) \o Picked(own, b)
  <1> DEFINE T == {m \in Nat : \A s \in Seq(D) :
                     Len(s) = m => Picked(own, a \o s) = Picked(own, a) \o Picked(own, s)}
  <1>0. Picked(own, a) \in Seq(D)
    BY PickedSeq
  <1>1. 0 \in T
    <2> SUFFICES ASSUME NEW s \in Seq(D), Len(s) = 0
                 PROVE  Picked(own, a \o s) = Picked(own, a) \o Picked(own, s)
      OBVIOUS
    <2>1. s = <<>>
      BY EmptySeq
    <2>2. a \o <<>> = a
      BY ConcatEmptySeq
    <2>3. Picked(own, a) \o <<>> = Picked(own, a)
      BY <1>0, ConcatEmptySeq
    <2>4. Picked(own, <<>>) = <<>>
      BY PickedNone
    <2> QED
      BY <2>1, <2>2, <2>3, <2>4
  <1>2. ASSUME NEW m \in T
        PROVE  m + 1 \in T
    <2> SUFFICES ASSUME NEW s \in Seq(D), Len(s) = m + 1
                 PROVE  Picked(own, a \o s) = Picked(own, a) \o Picked(own, s)
      OBVIOUS
    <2>0. s # <<>>
      BY EmptySeq
    <2>1. PICK t \in Seq(D), d \in D : s = Append(t, d)
      BY <2>0, SequenceEmptyOrAppend, Zenon
    <2>2. Len(t) = m
      BY <2>1, AppendProperties, LenProperties
    <2>3. Picked(own, a \o t) = Picked(own, a) \o Picked(own, t)
      BY <2>2
    <2>4. PICK at \in Seq(D) : at = a \o t
      BY ConcatProperties
    <2>5. a \o s = Append(at, d)
      BY <2>1, <2>4, ConcatAppend
    <2>6. Picked(own, t) \in Seq(D)
      BY PickedSeq
    <2>7. Picked(own, a) \o Append(Picked(own, t), d) = Append(Picked(own, a) \o Picked(own, t), d)
      BY <1>0, <2>6, ConcatAppend
    <2>8. /\ Picked(own, Append(at, d))
               = IF d \in own THEN Append(Picked(own, at), d) ELSE Picked(own, at)
          /\ Picked(own, Append(t, d))
               = IF d \in own THEN Append(Picked(own, t), d) ELSE Picked(own, t)
      BY PickedAppend
    <2> QED
      BY <2>1, <2>3, <2>4, <2>5, <2>7, <2>8
  <1>3. T = Nat
    <2> HIDE DEF T
    <2>1. T \subseteq Nat
      BY DEF T
    <2> QED
      BY <1>1, <1>2, <2>1, Climb
  <1>4. Len(b) \in T
    BY <1>3, LenProperties
  <1> QED
    BY <1>4

-----------------------------------------------------------------------------
(* The datagrams of one stream among packets. *)

\* What a stream has among packets, and of one packet.
Pick(own, packets) == Picked(own, IdsOf(packets))
One(own, p) == IF p.id \in own THEN <<p.id>> ELSE <<>>

\* The datagrams of packets, packet by packet.
LEMMA IdsOfIs ==
  ASSUME NEW s \in Seq(Packet)
  PROVE  /\ IdsOf(s) \in Seq(Datagrams) /\ Len(IdsOf(s)) = Len(s)
         /\ \A i \in 1..Len(s) : IdsOf(s)[i] = s[i].id
  <1>1. Len(s) \in Nat /\ DOMAIN s = 1..Len(s) /\ \A i \in 1..Len(s) : s[i] \in Packet
    BY LenProperties, ElementOfSeq
  <1>2. PICK n, f : n = Len(s) /\ f = IdsOf(s)
    OBVIOUS
  <1>3. f = [i \in 1..n |-> s[i].id] /\ f \in [1..n -> Datagrams] /\ n \in Nat
    BY <1>1, <1>2, Sizes DEF IdsOf
  <1>4. f \in Seq(Datagrams) /\ Len(f) = n
    BY <1>3, SeqDef
  <1> QED
    BY <1>2, <1>3, <1>4

\* Those of two sequences in a row are those of each in turn.
LEMMA IdsOfConcat ==
  ASSUME NEW s \in Seq(Packet), NEW t \in Seq(Packet)
  PROVE  IdsOf(s \o t) = IdsOf(s) \o IdsOf(t)
  <1>1. /\ s \o t \in Seq(Packet) /\ Len(s \o t) = Len(s) + Len(t)
        /\ \A i \in 1..(Len(s) + Len(t)) :
             (s \o t)[i] = IF i <= Len(s) THEN s[i] ELSE t[i - Len(s)]
        /\ Len(s) \in Nat /\ Len(t) \in Nat
    BY ConcatProperties, LenProperties
  <1>2. PICK st \in Seq(Packet) : st = s \o t
    BY <1>1, Zenon
  <1>3. PICK x \in Seq(Datagrams), y \in Seq(Datagrams), z \in Seq(Datagrams) :
          x = IdsOf(s) /\ y = IdsOf(t) /\ z = IdsOf(st)
    BY IdsOfIs, Zenon
  <1>4. /\ Len(x) = Len(s) /\ \A i \in 1..Len(s) : x[i] = s[i].id
        /\ Len(y) = Len(t) /\ \A i \in 1..Len(t) : y[i] = t[i].id
        /\ Len(z) = Len(st) /\ \A i \in 1..Len(st) : z[i] = st[i].id
    BY <1>3, IdsOfIs
  <1>5. /\ x \o y \in Seq(Datagrams) /\ Len(x \o y) = Len(x) + Len(y)
        /\ \A i \in 1..(Len(x) + Len(y)) :
             (x \o y)[i] = IF i <= Len(x) THEN x[i] ELSE y[i - Len(x)]
    BY ConcatProperties
  <1>6. PICK xy \in Seq(Datagrams) : xy = x \o y
    BY <1>5, Zenon
  <1>7. Len(z) = Len(xy) /\ \A i \in 1..Len(z) : z[i] = xy[i]
    <2>1. Len(z) = Len(x) + Len(y) /\ Len(xy) = Len(z)
      BY <1>1, <1>2, <1>4, <1>5, <1>6
    <2> SUFFICES ASSUME NEW i \in 1..Len(z)
                 PROVE  z[i] = xy[i]
      BY <2>1
    <2>2. CASE i <= Len(s)
      <3>1. z[i] = st[i].id /\ st[i] = s[i] /\ x[i] = s[i].id /\ xy[i] = x[i]
        BY <1>1, <1>2, <1>4, <1>5, <1>6, <2>1, <2>2
      <3> QED
        BY <3>1
    <2>3. CASE ~(i <= Len(s))
      <3>1. i - Len(s) \in 1..Len(t) /\ i \in 1..(Len(s) + Len(t)) /\ Len(x) = Len(s)
        BY <1>1, <1>4, <2>1, <2>3
      <3>2. z[i] = st[i].id /\ st[i] = t[i - Len(s)] /\ xy[i] = y[i - Len(x)]
        BY <1>1, <1>2, <1>4, <1>5, <1>6, <2>1, <2>3, <3>1
      <3> QED
        BY <1>4, <3>1, <3>2
    <2> QED
      BY <2>2, <2>3
  <1>8. z = xy
    BY <1>7, SeqEqual
  <1> QED
    BY <1>2, <1>3, <1>6, <1>8

\* What a stream has among packets is datagrams.
LEMMA PickSeq ==
  ASSUME NEW own, NEW s \in Seq(Packet)
  PROVE  Pick(own, s) \in Seq(Datagrams)
  BY IdsOfIs, PickedSeq DEF Pick

\* To have of two in a row what one has of each.
Splits(own, s, t) == Pick(own, s \o t) = Pick(own, s) \o Pick(own, t)

\* A stream has of two sequences in a row what it has of each in turn.
LEMMA PickConcat ==
  ASSUME NEW own, NEW s \in Seq(Packet), NEW t \in Seq(Packet)
  PROVE  Splits(own, s, t)
  <1>1. PICK x \in Seq(Datagrams), y \in Seq(Datagrams) : x = IdsOf(s) /\ y = IdsOf(t)
    BY IdsOfIs, Zenon
  <1>2. Picked(own, x \o y) = Picked(own, x) \o Picked(own, y)
    BY PickedConcat
  <1> QED
    BY <1>1, <1>2, IdsOfConcat DEF Pick, Splits

\* A stream has nothing among no packets.
LEMMA PickNone ==
  ASSUME NEW own
  PROVE  Pick(own, <<>>) = <<>>
  <1>1. <<>> \in Seq(Packet) /\ Len(<<>>) = 0
    BY EmptySeq
  <1>2. IdsOf(<<>>) \in Seq(Datagrams) /\ Len(IdsOf(<<>>)) = 0
    BY <1>1, IdsOfIs
  <1>3. IdsOf(<<>>) = <<>>
    BY <1>2, EmptySeq
  <1> QED
    BY <1>3, PickedNone DEF Pick

\* Of one packet it has the datagram, if that is its own.
LEMMA PickOne ==
  ASSUME NEW own, NEW p \in Packet
  PROVE  Pick(own, <<p>>) = One(own, p) /\ One(own, p) \in Seq(Datagrams)
  <1>1. <<p>> \in Seq(Packet) /\ Len(<<p>>) = 1 /\ <<p>>[1] = p /\ p.id \in Datagrams
    BY Sizes
  <1>2. PICK ids \in Seq(Datagrams) : ids = IdsOf(<<p>>) /\ Len(ids) = 1 /\ ids[1] = p.id
    <2>1. PICK s \in Seq(Packet) : s = <<p>> /\ Len(s) = 1 /\ s[1] = p
      BY <1>1, Zenon
    <2>2. /\ IdsOf(s) \in Seq(Datagrams) /\ Len(IdsOf(s)) = Len(s)
          /\ \A i \in 1..Len(s) : IdsOf(s)[i] = s[i].id
      BY IdsOfIs, Zenon
    <2>3. Len(IdsOf(s)) = 1 /\ IdsOf(s)[1] = p.id
      BY <2>1, <2>2
    <2> QED
      BY <2>1, <2>2, <2>3, Zenon
  <1>e. PICK none \in Seq(Datagrams) : none = <<>> /\ Len(none) = 0
    <2>1. <<>> \in Seq(Datagrams) /\ Len(<<>>) = 0
      BY EmptySeq
    <2> QED
      BY <2>1, Zenon
  <1>3. PICK d \in Datagrams : d = p.id
    BY <1>1, Zenon
  <1>4. Append(none, d) \in Seq(Datagrams) /\ Len(Append(none, d)) = 1 /\ Append(none, d)[1] = d
    BY <1>e, AppendProperties
  <1>5. ids = Append(none, d)
    <2>1. PICK x \in Seq(Datagrams) : x = Append(none, d) /\ Len(x) = 1 /\ x[1] = d
      BY <1>4, Zenon
    <2>2. Len(ids) = Len(x) /\ \A i \in 1..Len(ids) : ids[i] = x[i]
      BY <1>2, <1>3, <2>1
    <2>3. ids = x
      BY <2>2, SeqEqual
    <2> QED
      BY <2>1, <2>3
  <1>6. Picked(own, ids) = IF d \in own THEN Append(Picked(own, none), d) ELSE Picked(own, none)
    BY <1>5, PickedAppend
  <1>7. Picked(own, none) = none
    BY <1>e, PickedNone
  <1>8. Append(none, d) = <<d>>
    BY <1>e
  <1> QED
    BY <1>2, <1>3, <1>4, <1>6, <1>7, <1>8, <1>e DEF Pick, One

\* A packet put at the end goes to the end of what the stream has.
LEMMA PickGrows ==
  ASSUME NEW own, NEW s \in Seq(Packet), NEW t \in Seq(Packet), NEW p \in Packet, Grows(s, t, p)
  PROVE  Pick(own, t) = Pick(own, s) \o One(own, p)
  <1>1. PICK one \in Seq(Packet) : one = <<p>> /\ Len(one) = 1 /\ one[1] = p
    <2>1. <<p>> \in Seq(Packet) /\ Len(<<p>>) = 1 /\ <<p>>[1] = p
      OBVIOUS
    <2> QED
      BY <2>1, Zenon
  <1>2. /\ s \o one \in Seq(Packet) /\ Len(s \o one) = Len(s) + Len(one)
        /\ \A i \in 1..(Len(s) + Len(one)) :
             (s \o one)[i] = IF i <= Len(s) THEN s[i] ELSE one[i - Len(s)]
        /\ Len(s) \in Nat
    BY ConcatProperties, LenProperties
  <1>3. PICK st \in Seq(Packet) : st = s \o one
    BY <1>2, Zenon
  <1>4. Len(t) = Len(st) /\ \A i \in 1..Len(t) : t[i] = st[i]
    BY <1>1, <1>2, <1>3 DEF Grows
  <1>5. t = st
    BY <1>4, SeqEqual
  <1>6. Pick(own, s \o one) = Pick(own, s) \o Pick(own, one)
    BY PickConcat DEF Splits
  <1> QED
    BY <1>1, <1>3, <1>5, <1>6, PickOne

\* A packet taken at the head goes from the front of what the stream has.
LEMMA PickPops ==
  ASSUME NEW own, NEW s \in Seq(Packet), NEW t \in Seq(Packet), Pops(s, t)
  PROVE  Pick(own, s) = One(own, s[1]) \o Pick(own, t) /\ s[1] \in Packet
  <1>0. Len(s) \in Nat /\ Len(t) \in Nat /\ s[1] \in Packet
    BY LenProperties, ElementOfSeq DEF Pops
  <1>p. PICK p \in Packet : p = s[1]
    BY <1>0
  <1>1. PICK one \in Seq(Packet) : one = <<p>> /\ Len(one) = 1 /\ one[1] = p
    <2>1. <<p>> \in Seq(Packet) /\ Len(<<p>>) = 1 /\ <<p>>[1] = p
      OBVIOUS
    <2> QED
      BY <2>1, Zenon
  <1>2. /\ one \o t \in Seq(Packet) /\ Len(one \o t) = Len(one) + Len(t)
        /\ \A i \in 1..(Len(one) + Len(t)) :
             (one \o t)[i] = IF i <= Len(one) THEN one[i] ELSE t[i - Len(one)]
    BY ConcatProperties
  <1>3. PICK st \in Seq(Packet) : st = one \o t
    BY <1>2, Zenon
  <1>4. Len(s) = Len(st) /\ \A i \in 1..Len(s) : s[i] = st[i]
    BY <1>0, <1>p, <1>1, <1>2, <1>3 DEF Pops
  <1>5. s = st
    BY <1>4, SeqEqual
  <1>6. Pick(own, one \o t) = Pick(own, one) \o Pick(own, t)
    BY PickConcat DEF Splits
  <1> QED
    BY <1>p, <1>1, <1>3, <1>5, <1>6, PickOne

-----------------------------------------------------------------------------
(* A stream's datagrams along the path, stage by stage: with its worker, in    *)
(* the shard, with the dispatcher, in the queue, in the batch, in the socket.  *)

\* Concatenation, and what its parentheses do not change.
LEMMA Concat ==
  ASSUME NEW D, NEW x \in Seq(D), NEW y \in Seq(D)
  PROVE  x \o y \in Seq(D)
  BY ConcatProperties

\* To be the same with other parentheses.
Associates(x, y, z) == (x \o y) \o z = x \o (y \o z)

\* Concatenation is associative.
LEMMA Associative ==
  ASSUME NEW D, NEW x \in Seq(D), NEW y \in Seq(D), NEW z \in Seq(D)
  PROVE  Associates(x, y, z)
  BY ConcatAssociative DEF Associates

\* What is put before z may as well be added to y.
Handed(x, y, p, z) == (x \o y) \o (p \o z) = (x \o (y \o p)) \o z

\* It may, by associativity.
LEMMA Hands ==
  ASSUME NEW D, NEW x \in Seq(D), NEW y \in Seq(D), NEW p \in Seq(D), NEW z \in Seq(D)
  PROVE  Handed(x, y, p, z)
  <1>1. PICK xy \in Seq(D), yp \in Seq(D) : xy = x \o y /\ yp = y \o p
    BY Concat
  <1>2. Associates(xy, p, z) /\ Associates(x, y, p)
    BY Associative
  <1> QED
    BY <1>1, <1>2, Zenon DEF Associates, Handed

\* Nothing on either side changes nothing.
LEMMA Nothing ==
  ASSUME NEW D
  PROVE  /\ <<>> \in Seq(D) /\ \A x \in Seq(D) : x \o <<>> = x /\ <<>> \o x = x
  BY EmptySeq, ConcatEmptySeq

\* The head of a sequence, and the rest of it.
LEMMA FrontAndRest ==
  ASSUME NEW D, NEW d \in D, NEW x \in Seq(D)
  PROVE  /\ <<d>> \o x # <<>> /\ Head(<<d>> \o x) = d /\ Tail(<<d>> \o x) = x
  <1>1. PICK one \in Seq(D) : one = <<d>> /\ Len(one) = 1 /\ one[1] = d
    <2>1. <<d>> \in Seq(D) /\ Len(<<d>>) = 1 /\ <<d>>[1] = d
      OBVIOUS
    <2> QED
      BY <2>1, Zenon
  <1>2. PICK w \in Seq(D) : w = one \o x
    BY Concat
  <1>3. /\ Len(w) = Len(one) + Len(x)
        /\ \A i \in 1..(Len(one) + Len(x)) : w[i] = IF i <= Len(one) THEN one[i] ELSE x[i - Len(one)]
        /\ Len(x) \in Nat
    BY <1>2, ConcatProperties, LenProperties
  <1>4. w # <<>>
    <2>1. Len(<<>>) = 0
      BY EmptySeq
    <2> QED
      BY <1>1, <1>3, <2>1
  <1>5. Head(w) = d
    <2>1. Head(w) = w[1]
      BY <1>4
    <2> QED
      BY <1>1, <1>3, <2>1
  <1>6. PICK t \in Seq(D) : t = Tail(w) /\ Len(t) = Len(w) - 1 /\ \A i \in 1..Len(t) : t[i] = w[i + 1]
    <2>1. /\ Tail(w) \in Seq(D) /\ Len(Tail(w)) = Len(w) - 1
          /\ \A i \in 1..Len(Tail(w)) : Tail(w)[i] = w[i + 1]
      BY <1>4, HeadTailProperties
    <2> QED
      BY <2>1, Zenon
  <1>7. Len(t) = Len(x) /\ \A i \in 1..Len(t) : t[i] = x[i]
    BY <1>1, <1>3, <1>6
  <1>8. t = x
    BY <1>7, SeqEqual
  <1> QED
    BY <1>1, <1>2, <1>4, <1>5, <1>6, <1>8

\* A datagram between x and z can be taken out.
Drops(x, d, z) ==
  \E i \in DOMAIN (x \o (<<d>> \o z)) : RemoveAt(x \o (<<d>> \o z), i) = x \o z

\* RemoveAt takes it out, where x ends.
LEMMA RemoveMiddle ==
  ASSUME NEW D, NEW d \in D, NEW x \in Seq(D), NEW z \in Seq(D)
  PROVE  Drops(x, d, z)
  <1>1. PICK one \in Seq(D) : one = <<d>> /\ Len(one) = 1 /\ one[1] = d
    <2>1. <<d>> \in Seq(D) /\ Len(<<d>>) = 1 /\ <<d>>[1] = d
      OBVIOUS
    <2> QED
      BY <2>1, Zenon
  <1>2. PICK y \in Seq(D) : y = one \o z
    BY Concat
  <1>3. PICK w \in Seq(D) : w = x \o y
    BY Concat
  <1>4. /\ Len(y) = Len(one) + Len(z)
        /\ \A i \in 1..(Len(one) + Len(z)) : y[i] = IF i <= Len(one) THEN one[i] ELSE z[i - Len(one)]
        /\ Len(w) = Len(x) + Len(y)
        /\ \A i \in 1..(Len(x) + Len(y)) : w[i] = IF i <= Len(x) THEN x[i] ELSE y[i - Len(x)]
    BY <1>2, <1>3, ConcatProperties
  <1>5. PICK m \in Nat, n \in Nat :
          /\ m = Len(x) /\ n = Len(z) /\ Len(y) = n + 1 /\ Len(w) = m + n + 1
          /\ \A i \in 1..m : w[i] = x[i]
          /\ \A i \in 1..n : w[m + 1 + i] = z[i]
    <2>1. Len(x) \in Nat /\ Len(z) \in Nat
      BY LenProperties
    <2>2. Len(y) = Len(z) + 1 /\ Len(w) = Len(x) + Len(z) + 1
      BY <1>1, <1>4, <2>1
    <2>3. \A i \in 1..Len(x) : w[i] = x[i]
      BY <1>4, <2>1, <2>2
    <2>4. ASSUME NEW i \in 1..Len(z) PROVE w[Len(x) + 1 + i] = z[i]
      <3>1. w[Len(x) + 1 + i] = y[i + 1]
        BY <1>4, <2>1, <2>2
      <3>2. y[i + 1] = z[i]
        BY <1>1, <1>4, <2>1
      <3> QED
        BY <3>1, <3>2
    <2> QED
      BY <2>1, <2>2, <2>3, <2>4, Zenon
  <1>6. \A i \in 1..Len(w) : w[i] \in D
    BY ElementOfSeq
  <1>7. SubSeq(w, 1, m) = x
    <2>1. /\ SubSeq(w, 1, m) \in Seq(D) /\ Len(SubSeq(w, 1, m)) = IF 1 <= m THEN m - 1 + 1 ELSE 0
          /\ \A i \in 1..(m - 1 + 1) : SubSeq(w, 1, m)[i] = w[1 + i - 1]
      <3>1. \A i \in 1..m : w[i] \in D
        BY <1>5, <1>6
      <3> QED
        BY <3>1, SubSeqProperties
    <2>2. PICK s \in Seq(D) : s = SubSeq(w, 1, m)
      BY <2>1, Zenon
    <2>3. Len(s) = Len(x) /\ \A i \in 1..Len(s) : s[i] = x[i]
      BY <1>5, <2>1, <2>2
    <2>4. s = x
      BY <2>3, SeqEqual
    <2> QED
      BY <2>2, <2>4
  <1>8. SubSeq(w, m + 2, Len(w)) = z
    <2>1. PICK u \in Nat, v \in Nat : u = m + 2 /\ v = m + n + 1
      OBVIOUS
    <2>2. /\ SubSeq(w, u, v) \in Seq(D) /\ Len(SubSeq(w, u, v)) = IF u <= v THEN v - u + 1 ELSE 0
          /\ \A i \in 1..(v - u + 1) : SubSeq(w, u, v)[i] = w[u + i - 1]
      <3>1. \A i \in u..v : w[i] \in D
        BY <1>5, <1>6, <2>1
      <3> QED
        BY <3>1, SubSeqProperties
    <2>3. PICK s \in Seq(D) : s = SubSeq(w, u, v)
      BY <2>2, Zenon
    <2>4. Len(s) = Len(z) /\ \A i \in 1..Len(s) : s[i] = z[i]
      <3>1. Len(s) = n
        BY <2>1, <2>2, <2>3
      <3>2. \A i \in 1..n : s[i] = w[m + 1 + i]
        BY <2>1, <2>2, <2>3
      <3> QED
        BY <1>5, <3>1, <3>2
    <2>5. s = z
      BY <2>4, SeqEqual
    <2> QED
      BY <1>5, <2>1, <2>3, <2>5
  <1>9. m + 1 \in DOMAIN w
    BY <1>5, LenProperties
  <1>10. RemoveAt(w, m + 1) = x \o z
    <2>1. PICK i \in Nat : i = m + 1 /\ i - 1 = m /\ i + 1 = m + 2
      OBVIOUS
    <2>2. RemoveAt(w, i) = SubSeq(w, 1, i - 1) \o SubSeq(w, i + 1, Len(w))
      BY Zenon DEF RemoveAt
    <2> QED
      BY <1>7, <1>8, <2>1, <2>2, Zenon
  <1> QED
    BY <1>1, <1>2, <1>3, <1>9, <1>10, Zenon DEF Drops

\* What the worker, the shard, the dispatcher, the queue, the batch and the
\* socket have, as one line.
Path(B, A, H, Q, O, K) == ((((B \o A) \o H) \o Q) \o O) \o K

\* P is at the front of one stage, or at the end of the next.
Steady(B, A, H, Q, O, K, P) ==
  /\ Path(B, A, H, Q, <<>>, P \o K) = Path(B, A, H, Q, P, K)
  /\ Path(B, A, H, Q, P \o O, K) = Path(B, A, H, Q \o P, O, K)
  /\ Path(B, A, <<>>, P \o Q, O, K) = Path(B, A, P, Q, O, K)
  /\ Path(B, A, P, Q, O, K) = Path(B, A \o P, <<>>, Q, O, K)
  /\ Path(<<>>, P \o A, H, Q, O, K) = Path(P, A, H, Q, O, K)

\* The stages hand each other what they pass on, and its place in the line stays.
LEMMA PathMoves ==
  ASSUME NEW D, NEW B \in Seq(D), NEW A \in Seq(D), NEW H \in Seq(D), NEW Q \in Seq(D),
         NEW O \in Seq(D), NEW K \in Seq(D), NEW P \in Seq(D)
  PROVE  Steady(B, A, H, Q, O, K, P)
  <1>1. PICK none \in Seq(D) : none = <<>>
    BY Nothing
  <1>n. P \o none = P /\ none \o P = P
    BY <1>1, Nothing
  <1>2. PICK BA \in Seq(D) : BA = B \o A
    BY Concat
  <1>3. PICK BAH \in Seq(D) : BAH = BA \o H
    BY Concat
  <1>4. PICK BAHQ \in Seq(D) : BAHQ = BAH \o Q
    BY Concat
  <1>5. /\ Handed(BAHQ, none, P, K) /\ Handed(BAH, Q, P, O)
        /\ Handed(BA, none, P, Q) /\ Associates(B, A, P)
    BY Hands, Associative
  <1>6. PICK AP \in Seq(D), PA \in Seq(D) : AP = A \o P /\ PA = P \o A
    BY Concat
  <1>7. PICK BAP \in Seq(D) : BAP = B \o AP
    BY Concat
  <1>8. BAP \o none = BAP /\ none \o PA = PA
    BY <1>1, Nothing
  <1>9. Path(B, A, H, Q, <<>>, P \o K) = Path(B, A, H, Q, P, K)
    BY <1>1, <1>n, <1>2, <1>3, <1>4, <1>5, Zenon DEF Path, Handed
  <1>10. Path(B, A, H, Q, P \o O, K) = Path(B, A, H, Q \o P, O, K)
    BY <1>2, <1>3, <1>5, Zenon DEF Path, Handed
  <1>11. Path(B, A, <<>>, P \o Q, O, K) = Path(B, A, P, Q, O, K)
    BY <1>1, <1>n, <1>2, <1>5, Zenon DEF Path, Handed
  <1>12. Path(B, A, P, Q, O, K) = Path(B, A \o P, <<>>, Q, O, K)
    BY <1>1, <1>5, <1>6, <1>7, <1>8, Zenon DEF Path, Associates
  <1>13. Path(<<>>, P \o A, H, Q, O, K) = Path(P, A, H, Q, O, K)
    BY <1>1, <1>6, <1>8, Zenon DEF Path
  <1> QED
    BY <1>9, <1>10, <1>11, <1>12, <1>13 DEF Steady

\* The datagram with the worker is the head, and the rest the rest.
Heads(d, A, H, Q, O, K) ==
  /\ Path(<<d>>, A, H, Q, O, K) # <<>>
  /\ Head(Path(<<d>>, A, H, Q, O, K)) = d
  /\ Tail(Path(<<d>>, A, H, Q, O, K)) = Path(<<>>, A, H, Q, O, K)

\* The datagram a worker has decoded leaves the head of the line.
LEMMA PathDecodes ==
  ASSUME NEW D, NEW d \in D, NEW A \in Seq(D), NEW H \in Seq(D), NEW Q \in Seq(D),
         NEW O \in Seq(D), NEW K \in Seq(D)
  PROVE  Heads(d, A, H, Q, O, K)
  <1>0. PICK one \in Seq(D) : one = <<d>>
    <2>1. <<d>> \in Seq(D)
      OBVIOUS
    <2> QED
      BY <2>1, Zenon
  <1>1. <<>> \o A = A
    BY Nothing
  <1>2. PICK AH \in Seq(D) : AH = A \o H
    BY Concat
  <1>3. PICK AHQ \in Seq(D) : AHQ = AH \o Q
    BY Concat
  <1>4. PICK AHQO \in Seq(D) : AHQO = AHQ \o O
    BY Concat
  <1>5. PICK all \in Seq(D) : all = AHQO \o K
    BY Concat
  <1>6. /\ Associates(one, A, H) /\ Associates(one, AH, Q) /\ Associates(one, AHQ, O)
        /\ Associates(one, AHQO, K)
    BY Associative
  <1>7. Path(one, A, H, Q, O, K) = one \o all
    BY <1>2, <1>3, <1>4, <1>5, <1>6, Zenon DEF Path, Associates
  <1>8. Path(<<>>, A, H, Q, O, K) = all
    BY <1>1, <1>2, <1>3, <1>4, <1>5, Zenon DEF Path
  <1>9. <<d>> \o all # <<>> /\ Head(<<d>> \o all) = d /\ Tail(<<d>> \o all) = all
    BY FrontAndRest
  <1> QED
    BY <1>0, <1>7, <1>8, <1>9, Zenon DEF Heads

\* One at the front of the batch can be taken out of the line.
LeavesLine(d, B, A, H, Q, O, K) ==
  \E i \in DOMAIN Path(B, A, H, Q, <<d>> \o O, K) :
    RemoveAt(Path(B, A, H, Q, <<d>> \o O, K), i) = Path(B, A, H, Q, O, K)

\* One that is dropped leaves from where it stood.
LEMMA PathDrops ==
  ASSUME NEW D, NEW d \in D, NEW B \in Seq(D), NEW A \in Seq(D), NEW H \in Seq(D),
         NEW Q \in Seq(D), NEW O \in Seq(D), NEW K \in Seq(D)
  PROVE  LeavesLine(d, B, A, H, Q, O, K)
  <1>0. PICK one \in Seq(D) : one = <<d>>
    <2>1. <<d>> \in Seq(D)
      OBVIOUS
    <2> QED
      BY <2>1, Zenon
  <1>2. PICK BA \in Seq(D) : BA = B \o A
    BY Concat
  <1>3. PICK BAH \in Seq(D) : BAH = BA \o H
    BY Concat
  <1>4. PICK x \in Seq(D), z \in Seq(D), y \in Seq(D) : x = BAH \o Q /\ z = O \o K /\ y = one \o O
    BY Concat
  <1>5. Associates(x, O, K) /\ Associates(x, y, K) /\ Associates(one, O, K)
    BY Associative
  <1>6. Path(B, A, H, Q, one \o O, K) = x \o (one \o z)
    BY <1>2, <1>3, <1>4, <1>5, Zenon DEF Path, Associates
  <1>7. Path(B, A, H, Q, O, K) = x \o z
    BY <1>2, <1>3, <1>4, <1>5, Zenon DEF Path, Associates
  <1>8. Drops(x, d, z)
    BY RemoveMiddle
  <1> QED
    BY <1>0, <1>6, <1>7, <1>8, Zenon DEF Drops, LeavesLine

-----------------------------------------------------------------------------
(* The same of packets. *)

\* The stages have packets, and the socket datagrams.
Packets(b, a, h, q, o, k) ==
  /\ b \in Seq(Packet) /\ a \in Seq(Packet) /\ h \in Seq(Packet) /\ q \in Seq(Packet)
  /\ o \in Seq(Packet) /\ k \in Seq(Datagrams)

\* The line of one stream among them.
Queued(own, b, a, h, q, o, k) ==
  Path(Pick(own, b), Pick(own, a), Pick(own, h), Pick(own, q), Pick(own, o), Picked(own, k))

\* What is picked from them is datagrams.
AllPicked(own, b, a, h, q, o, k) ==
  /\ Pick(own, b) \in Seq(Datagrams) /\ Pick(own, a) \in Seq(Datagrams)
  /\ Pick(own, h) \in Seq(Datagrams) /\ Pick(own, q) \in Seq(Datagrams)
  /\ Pick(own, o) \in Seq(Datagrams) /\ Picked(own, k) \in Seq(Datagrams)

\* They are, where the stages have packets.
LEMMA PacketsPicked ==
  ASSUME NEW own, NEW b, NEW a, NEW h, NEW q, NEW o, NEW k, Packets(b, a, h, q, o, k)
  PROVE  AllPicked(own, b, a, h, q, o, k)
  BY PickSeq, PickedSeq DEF Packets, AllPicked

\* A batch moves from the socket.
Feeds(k, o, k2) == k = IdsOf(o) \o k2

\* What the socket gives to an empty batch stays where it was in the line.
LEMMA QueuedRead ==
  ASSUME NEW own, NEW b, NEW a, NEW h, NEW q, NEW o, NEW k, NEW k2,
         Packets(b, a, h, q, o, k2), Feeds(k, o, k2)
  PROVE  Queued(own, b, a, h, q, <<>>, k) = Queued(own, b, a, h, q, o, k2)
  <1>1. AllPicked(own, b, a, h, q, o, k2)
    BY PacketsPicked
  <1>2. Steady(Pick(own, b), Pick(own, a), Pick(own, h), Pick(own, q), Pick(own, o),
               Picked(own, k2), Pick(own, o))
    BY <1>1, PathMoves DEF AllPicked
  <1>3. Picked(own, k) = Pick(own, o) \o Picked(own, k2)
    <2>1. PICK x \in Seq(Datagrams), y \in Seq(Datagrams) : x = IdsOf(o) /\ y = k2
      BY IdsOfIs, Zenon DEF Packets
    <2>2. Picked(own, x \o y) = Picked(own, x) \o Picked(own, y)
      BY PickedConcat
    <2> QED
      BY <2>1, <2>2 DEF Pick, Feeds
  <1> QED
    BY <1>2, <1>3, PickNone, Zenon DEF Queued, Steady

\* The head of the batch moves into the queue.
LEMMA QueuedEnqueue ==
  ASSUME NEW own, NEW b, NEW a, NEW h, NEW q, NEW o, NEW k, NEW q2, NEW o2,
         Packets(b, a, h, q, o, k), Packets(b, a, h, q2, o2, k), Pops(o, o2), Grows(q, q2, o[1])
  PROVE  Queued(own, b, a, h, q, o, k) = Queued(own, b, a, h, q2, o2, k)
  <1>1. AllPicked(own, b, a, h, q, o2, k)
    BY PacketsPicked DEF Packets
  <1>2. Pick(own, o) = One(own, o[1]) \o Pick(own, o2) /\ o[1] \in Packet
    BY PickPops DEF Packets
  <1>3. Pick(own, q2) = Pick(own, q) \o One(own, o[1]) /\ One(own, o[1]) \in Seq(Datagrams)
    <2>1. PICK p \in Packet : p = o[1]
      BY <1>2
    <2>2. Pick(own, q2) = Pick(own, q) \o One(own, p)
      BY <2>1, PickGrows DEF Packets
    <2>3. One(own, p) \in Seq(Datagrams)
      BY PickOne
    <2> QED
      BY <2>1, <2>2, <2>3
  <1>4. Steady(Pick(own, b), Pick(own, a), Pick(own, h), Pick(own, q), Pick(own, o2),
               Picked(own, k), One(own, o[1]))
    BY <1>1, <1>3, PathMoves DEF AllPicked
  <1> QED
    BY <1>2, <1>3, <1>4, Zenon DEF Queued, Steady

\* Another stream's packet in the queue changes nothing.
Alike(own, s, t) == Pick(own, s) = Pick(own, t)

\* A packet the stream does not own adds nothing to it.
LEMMA PickOthers ==
  ASSUME NEW own, NEW q \in Seq(Packet), NEW q2 \in Seq(Packet), NEW p \in Packet,
         Grows(q, q2, p), p.id \notin own
  PROVE  Alike(own, q2, q)
  <1>1. Pick(own, q2) = Pick(own, q) \o One(own, p) /\ One(own, p) = <<>>
    BY PickGrows DEF One
  <1>2. Pick(own, q) \o <<>> = Pick(own, q)
    BY Nothing, PickSeq
  <1> QED
    BY <1>1, <1>2 DEF Alike

\* The head of the queue moves to the dispatcher.
LEMMA QueuedDispatch ==
  ASSUME NEW own, NEW b, NEW a, NEW q, NEW o, NEW k, NEW q2, NEW h2,
         Packets(b, a, h2, q, o, k), Packets(b, a, h2, q2, o, k), Pops(q, q2), h2 = <<q[1]>>
  PROVE  Queued(own, b, a, <<>>, q, o, k) = Queued(own, b, a, h2, q2, o, k)
  <1>1. AllPicked(own, b, a, h2, q2, o, k)
    BY PacketsPicked
  <1>2. Pick(own, q) = One(own, q[1]) \o Pick(own, q2) /\ q[1] \in Packet
    BY PickPops DEF Packets
  <1>3. Pick(own, h2) = One(own, q[1])
    BY <1>2, PickOne
  <1>4. Steady(Pick(own, b), Pick(own, a), Pick(own, h2), Pick(own, q2), Pick(own, o),
               Picked(own, k), Pick(own, h2))
    BY <1>1, PathMoves DEF AllPicked
  <1> QED
    BY <1>2, <1>3, <1>4, PickNone, Zenon DEF Queued, Steady

\* And on to the shard.
LEMMA QueuedSend ==
  ASSUME NEW own, NEW b, NEW a, NEW q, NEW o, NEW k, NEW a2, NEW h, NEW p \in Packet,
         Packets(b, a, h, q, o, k), Packets(b, a2, h, q, o, k), Grows(a, a2, p), h = <<p>>
  PROVE  Queued(own, b, a, h, q, o, k) = Queued(own, b, a2, <<>>, q, o, k)
  <1>1. AllPicked(own, b, a, h, q, o, k)
    BY PacketsPicked
  <1>2. Pick(own, a2) = Pick(own, a) \o One(own, p)
    BY PickGrows DEF Packets
  <1>3. Pick(own, h) = One(own, p)
    BY PickOne
  <1>4. Steady(Pick(own, b), Pick(own, a), Pick(own, h), Pick(own, q), Pick(own, o),
               Picked(own, k), Pick(own, h))
    BY <1>1, PathMoves DEF AllPicked
  <1> QED
    BY <1>2, <1>3, <1>4, PickNone, Zenon DEF Queued, Steady

\* And on to the worker.
LEMMA QueuedTake ==
  ASSUME NEW own, NEW a, NEW h, NEW q, NEW o, NEW k, NEW a2, NEW b2,
         Packets(b2, a, h, q, o, k), Packets(b2, a2, h, q, o, k), Pops(a, a2), b2 = <<a[1]>>
  PROVE  Queued(own, <<>>, a, h, q, o, k) = Queued(own, b2, a2, h, q, o, k)
  <1>1. AllPicked(own, b2, a2, h, q, o, k)
    BY PacketsPicked
  <1>2. Pick(own, a) = One(own, a[1]) \o Pick(own, a2) /\ a[1] \in Packet
    BY PickPops DEF Packets
  <1>3. Pick(own, b2) = One(own, a[1])
    BY <1>2, PickOne
  <1>4. Steady(Pick(own, b2), Pick(own, a2), Pick(own, h), Pick(own, q), Pick(own, o),
               Picked(own, k), Pick(own, b2))
    BY <1>1, PathMoves DEF AllPicked
  <1> QED
    BY <1>2, <1>3, <1>4, PickNone, Zenon DEF Queued, Steady

\* The worker delivers it.
LEMMA QueuedDecode ==
  ASSUME NEW own, NEW b, NEW a, NEW h, NEW q, NEW o, NEW k, NEW p \in Packet,
         Packets(b, a, h, q, o, k), b = <<p>>, p.id \in own
  PROVE  /\ Queued(own, b, a, h, q, o, k) # <<>>
         /\ Head(Queued(own, b, a, h, q, o, k)) = p.id
         /\ Tail(Queued(own, b, a, h, q, o, k)) = Queued(own, <<>>, a, h, q, o, k)
  <1>1. AllPicked(own, b, a, h, q, o, k)
    BY PacketsPicked
  <1>2. Pick(own, b) = <<p.id>> /\ p.id \in Datagrams
    BY PickOne, Sizes DEF One
  <1>3. Heads(p.id, Pick(own, a), Pick(own, h), Pick(own, q), Pick(own, o), Picked(own, k))
    BY <1>1, <1>2, PathDecodes DEF AllPicked
  <1> QED
    BY <1>2, <1>3, PickNone, Zenon DEF Queued, Heads

\* The read loop drops it.
LEMMA QueuedDrop ==
  ASSUME NEW own, NEW b, NEW a, NEW h, NEW q, NEW o, NEW k, NEW o2,
         Packets(b, a, h, q, o, k), Packets(b, a, h, q, o2, k), Pops(o, o2), o[1].id \in own
  PROVE  \E i \in DOMAIN Queued(own, b, a, h, q, o, k) :
           RemoveAt(Queued(own, b, a, h, q, o, k), i) = Queued(own, b, a, h, q, o2, k)
  <1>1. AllPicked(own, b, a, h, q, o2, k)
    BY PacketsPicked
  <1>2. Pick(own, o) = One(own, o[1]) \o Pick(own, o2) /\ o[1] \in Packet
    BY PickPops DEF Packets
  <1>3. One(own, o[1]) = <<o[1].id>> /\ o[1].id \in Datagrams
    BY <1>2, Sizes DEF One
  <1>4. LeavesLine(o[1].id, Pick(own, b), Pick(own, a), Pick(own, h), Pick(own, q), Pick(own, o2),
                Picked(own, k))
    BY <1>1, <1>3, PathDrops DEF AllPicked
  <1> QED
    BY <1>2, <1>3, <1>4, Zenon DEF Queued, LeavesLine

\* What is not the stream's is passed over.
LEMMA PassedOver ==
  ASSUME NEW own, NEW o \in Seq(Packet), NEW o2 \in Seq(Packet), Pops(o, o2), o[1].id \notin own
  PROVE  Alike(own, o2, o)
  <1>1. Pick(own, o) = <<>> \o Pick(own, o2)
    BY PickPops DEF One
  <1>2. <<>> \o Pick(own, o2) = Pick(own, o2)
    BY Nothing, PickSeq
  <1> QED
    BY <1>1, <1>2 DEF Alike

\* Another stream's packet in hand is as good as none.
LEMMA HandOthers ==
  ASSUME NEW own, NEW p \in Packet, p.id \notin own
  PROVE  Pick(own, <<p>>) = Pick(own, <<>>)
  BY PickOne, PickNone DEF One

-----------------------------------------------------------------------------
(* The streams. *)

\* What a stream has on the way, and the packet a worker has yet to decode.
Waits(s) == Of(s, Line(s))
Work(w) == IF worker[w].pc = "decode" THEN Held(worker[w].pkt) ELSE <<>>

\* A stream's line, stage by stage.
Carried(s) ==
  Packets(Work(ShardOf[s[1]]), shard[ShardOf[s[1]]], Held(dispatcher.pkt), queue,
          loop[s[2]].out, socket[s[2]])
Lined(s) ==
  Queued(Stream(s), Work(ShardOf[s[1]]), shard[ShardOf[s[1]]], Held(dispatcher.pkt), queue,
         loop[s[2]].out, socket[s[2]])
LineOK == \A s \in Keys : Carried(s) /\ Waits(s) = Lined(s)

\* A packet in hand, or none.
LEMMA HeldIs ==
  /\ Held(NoPacket) = <<>>
  /\ \A p \in Packet : Held(p) = <<p>>
  /\ \A p \in Packet \cup {NoPacket} : Held(p) \in Seq(Packet)
  <1>1. Held(NoPacket) = <<>> /\ \A p \in Packet : Held(p) = <<p>>
    BY Sizes DEF Held
  <1>2. <<>> \in Seq(Packet)
    BY EmptySeq
  <1>3. \A p \in Packet : <<p>> \in Seq(Packet)
    OBVIOUS
  <1> QED
    BY <1>1, <1>2, <1>3

\* What a key is.
LEMMA KeyIs ==
  ASSUME NEW s \in Keys
  PROVE  s[1] \in Exporters /\ s[2] \in Listeners /\ ShardOf[s[1]] \in Workers
  BY PipelineAssumption DEF Keys

\* The packets of a line, and then the datagrams in the socket.
Laid(own, b, a, h, q, o, k) ==
  Picked(own, IdsOf((((b \o a) \o h) \o q) \o o) \o k) = Queued(own, b, a, h, q, o, k)

\* A line is what the stream has at each stage, in turn.
LEMMA PickedLine ==
  ASSUME NEW own, NEW b, NEW a, NEW h, NEW q, NEW o, NEW k, Packets(b, a, h, q, o, k)
  PROVE  Laid(own, b, a, h, q, o, k)
  <1>0. /\ b \in Seq(Packet) /\ a \in Seq(Packet) /\ h \in Seq(Packet) /\ q \in Seq(Packet)
        /\ o \in Seq(Packet) /\ k \in Seq(Datagrams)
    BY DEF Packets
  <1>1. PICK ba \in Seq(Packet) : ba = b \o a
    BY <1>0, Concat
  <1>2. PICK bah \in Seq(Packet) : bah = ba \o h
    BY <1>0, Concat
  <1>3. PICK bahq \in Seq(Packet) : bahq = bah \o q
    BY <1>0, Concat
  <1>4. PICK all \in Seq(Packet) : all = bahq \o o
    BY <1>0, Concat
  <1>5. Splits(own, b, a) /\ Splits(own, ba, h) /\ Splits(own, bah, q) /\ Splits(own, bahq, o)
    BY <1>0, PickConcat
  <1>6. PICK ids \in Seq(Datagrams) : ids = IdsOf(all)
    BY IdsOfIs, Zenon
  <1>7. PICK sock \in Seq(Datagrams) :
          sock = k /\ Picked(own, ids \o sock) = Picked(own, ids) \o Picked(own, sock)
    <2>1. PICK sock \in Seq(Datagrams) : sock = k
      BY <1>0
    <2> HIDE <1>0
    <2>2. Picked(own, ids \o sock) = Picked(own, ids) \o Picked(own, sock)
      BY PickedConcat
    <2> QED
      BY <2>1, <2>2
  <1>8. Picked(own, ids) = Pick(own, all)
    BY <1>6 DEF Pick
  <1> QED
    BY <1>1, <1>2, <1>3, <1>4, <1>5, <1>6, <1>7, <1>8, Zenon
       DEF Laid, Queued, Path, Splits

\* So is the line of each stream.
LEMMA LineIs == TypeOK => LineOK
  <1> SUFFICES ASSUME TypeOK, NEW s \in Keys
               PROVE  Carried(s) /\ Waits(s) = Lined(s)
    BY DEF LineOK
  <1>1. Carried(s)
    <2>1. /\ shard[ShardOf[s[1]]] \in Seq(Packet) /\ queue \in Seq(Packet)
          /\ loop[s[2]].out \in Seq(Packet) /\ socket[s[2]] \in Seq(Datagrams)
      BY KeyIs, TypeParts DEF Parts
    <2>2. Held(dispatcher.pkt) \in Seq(Packet)
      BY HeldIs, TypeParts DEF Parts
    <2>3. Work(ShardOf[s[1]]) \in Seq(Packet)
      <3>1. worker[ShardOf[s[1]]].pc = "decode" => worker[ShardOf[s[1]]].pkt \in Packet
        BY KeyIs, TypeParts DEF Parts
      <3>2. <<>> \in Seq(Packet)
        BY EmptySeq
      <3> QED
        BY <3>1, <3>2, HeldIs DEF Work
    <2> QED
      BY <2>1, <2>2, <2>3 DEF Carried, Packets
  <1>2. Laid(Stream(s), Work(ShardOf[s[1]]), shard[ShardOf[s[1]]], Held(dispatcher.pkt), queue,
             loop[s[2]].out, socket[s[2]])
    BY <1>1, PickedLine DEF Carried
  <1> QED
    BY <1>1, <1>2, Zenon DEF Laid, Lined, Waits, Of, Line, Undecoded, Work

\* A step that keeps every line, one that loses a datagram of one stream, and
\* one that delivers the next of one.
Kept == \A s \in Keys : Waits(s)' = Waits(s) /\ Of(s, decoded') = Of(s, decoded)
Loses(s) ==
  /\ decoded' = decoded
  /\ \E i \in DOMAIN Waits(s) : Waits(s)' = RemoveAt(Waits(s), i)
  /\ \A t \in Keys \ {s} : Waits(t)' = Waits(t)
Delivers(s) ==
  /\ Waits(s) # <<>> /\ Waits(s)' = Tail(Waits(s))
  /\ Of(s, decoded') = Append(Of(s, decoded), Head(Waits(s)))
  /\ \A t \in Keys \ {s} : Waits(t)' = Waits(t) /\ Of(t, decoded') = Of(t, decoded)

\* Where nothing on the path moves, nothing of a stream does.
LEMMA StillKept ==
  ASSUME LineOK, LineOK', decoded' = decoded, UNCHANGED <<socket, queue, shard>>,
         dispatcher'.pkt = dispatcher.pkt, \A l \in Listeners : loop'[l].out = loop[l].out,
         \A w \in Workers : Work(w)' = Work(w)
  PROVE  Kept
  <1> SUFFICES ASSUME NEW s \in Keys
               PROVE  Waits(s)' = Waits(s)
    BY DEF Kept
  <1>1. Lined(s)' = Lined(s)
    BY KeyIs DEF Lined, Held, Stream
  <1> QED
    BY <1>1 DEF LineOK

\* What was read is the front of what the socket had.
LEMMA ReadSplits ==
  ASSUME NEW l, NEW n, NEW out, NEW slots, ReadMoves(l, n, out, slots),
         l \in Listeners, TypeOK
  PROVE  socket[l] = IdsOf(out) \o socket'[l]
  <1>1. PICK sock \in Seq(Datagrams), rest \in Seq(Datagrams) : sock = socket[l] /\ rest = socket'[l]
    BY DEF ReadMoves, TypeOK
  <1>2. /\ n \in Nat /\ n <= Len(sock) /\ Len(rest) = Len(sock) - n /\ Len(out) = n
        /\ \A i \in 1..n : out[i].id = sock[i]
        /\ \A i \in 1..Len(rest) : rest[i] = sock[n + i]
    BY <1>1, Sizes DEF ReadMoves
  <1>3. PICK ids \in Seq(Datagrams) : ids = IdsOf(out) /\ Len(ids) = n /\ \A i \in 1..n : ids[i] = sock[i]
    <2>1. out \in Seq(Packet)
      BY DEF ReadMoves
    <2>2. /\ IdsOf(out) \in Seq(Datagrams) /\ Len(IdsOf(out)) = Len(out)
          /\ \A i \in 1..Len(out) : IdsOf(out)[i] = out[i].id
      BY <2>1, IdsOfIs
    <2>3. Len(IdsOf(out)) = n /\ \A i \in 1..n : IdsOf(out)[i] = sock[i]
      BY <1>2, <2>2
    <2> QED
      BY <2>2, <2>3, Zenon
  <1>4. PICK both \in Seq(Datagrams) : both = ids \o rest
    BY Concat
  <1>5. /\ Len(both) = Len(ids) + Len(rest)
        /\ \A i \in 1..(Len(ids) + Len(rest)) :
             both[i] = IF i <= Len(ids) THEN ids[i] ELSE rest[i - Len(ids)]
        /\ Len(sock) \in Nat /\ Len(rest) \in Nat
    BY <1>4, ConcatProperties, LenProperties
  <1>6. Len(sock) = Len(both)
    BY <1>2, <1>3, <1>5
  <1>7. ASSUME NEW i \in 1..Len(sock) PROVE sock[i] = both[i]
    <2>1. CASE i <= n
      BY <1>2, <1>3, <1>5, <1>6, <2>1
    <2>2. CASE ~(i <= n)
      <3>1. i - n \in 1..Len(rest) /\ n + (i - n) = i
        BY <1>2, <1>5, <2>2
      <3>2. rest[i - n] = sock[n + (i - n)]
        BY <1>2, <3>1, Zenon
      <3>3. both[i] = rest[i - n]
        BY <1>2, <1>3, <1>5, <1>6, <2>2
      <3> QED
        BY <3>1, <3>2, <3>3
    <2> QED
      BY <2>1, <2>2
  <1>8. sock = both
    BY <1>6, <1>7, SeqEqual
  <1> QED
    BY <1>1, <1>3, <1>4, <1>8

\* A batch read is on the line as it was in the socket.
LEMMA ReadKept ==
  ASSUME TypeOK, StagesOK, LineOK, LineOK', NEW l \in Listeners, Read(l)
  PROVE  Kept
  <1>1. PICK n \in 1..BatchSize, out \in Seq(Packet), slots \in Seq(Buffers) :
          ReadMoves(l, n, out, slots)
    BY ReadTurns
  <1>2. loop[l].out = <<>> /\ loop'[l].out = out
    BY <1>1 DEF Read, StagesOK, ReadMoves, LoopTurns
  <1>3. socket[l] = IdsOf(out) \o socket'[l]
    BY <1>1, ReadSplits
  <1>4. \A m \in Listeners \ {l} : socket'[m] = socket[m] /\ loop'[m].out = loop[m].out
    BY <1>1 DEF ReadMoves, LoopTurns
  <1>5. UNCHANGED <<queue, dispatcher, shard, worker, decoded>>
    BY DEF Read, outcome
  <1> SUFFICES ASSUME NEW s \in Keys
               PROVE  Waits(s)' = Waits(s)
    BY <1>5 DEF Kept
  <1>6. \A w : Work(w)' = Work(w)
    BY <1>5 DEF Work, Held
  <1>7. Held(dispatcher.pkt)' = Held(dispatcher.pkt) /\ Stream(s)' = Stream(s)
    BY <1>5 DEF Held, Stream
  <1>8. CASE s[2] # l
    <2>1. Lined(s)' = Lined(s)
      BY <1>4, <1>5, <1>6, <1>7, <1>8, KeyIs DEF Lined
    <2> QED
      BY <2>1 DEF LineOK
  <1>9. CASE s[2] = l
    <2>1. PICK own, b, a, h, q, k, k2 :
            /\ own = Stream(s) /\ b = Work(ShardOf[s[1]]) /\ a = shard[ShardOf[s[1]]]
            /\ h = Held(dispatcher.pkt) /\ q = queue /\ k = socket[l] /\ k2 = socket'[l]
      OBVIOUS
    <2>2. Waits(s) = Queued(own, b, a, h, q, <<>>, k)
      BY <1>2, <1>9, <2>1 DEF LineOK, Lined
    <2>3. Waits(s)' = Queued(own, b, a, h, q, out, k2) /\ Packets(b, a, h, q, out, k2)
      BY <1>2, <1>5, <1>6, <1>7, <1>9, <2>1 DEF LineOK, Lined, Carried
    <2>4. Feeds(k, out, k2)
      BY <1>3, <2>1 DEF Feeds
    <2>5. Packets(b, a, h, q, out, k2)
      BY <2>3
    <2>6. Queued(own, b, a, h, q, <<>>, k) = Queued(own, b, a, h, q, out, k2)
      BY <2>4, <2>5, QueuedRead
    <2> QED
      BY <2>2, <2>3, <2>6
  <1> QED
    BY <1>8, <1>9

\* The dispatcher takes the head of the queue.
LEMMA DispatchKept ==
  ASSUME TypeOK, StagesOK, LineOK, LineOK', Dispatch
  PROVE  Kept
  <1>1. /\ queue[1] \in Packet /\ dispatcher'.pkt = queue[1] /\ Pops(queue, queue')
    BY DispatchTurns
  <1>2. UNCHANGED <<socket, loop, shard, worker, decoded>>
    BY DEF Dispatch, outcome
  <1>3. Held(dispatcher.pkt) = <<>> /\ Held(dispatcher.pkt)' = <<queue[1]>>
    <2>1. dispatcher.pkt = NoPacket
      BY TypeParts, Sizes DEF Dispatch, StagesOK, Parts
    <2> QED
      BY <1>1, <2>1, HeldIs DEF Held
  <1> SUFFICES ASSUME NEW s \in Keys
               PROVE  Waits(s)' = Waits(s)
    BY <1>2 DEF Kept
  <1>4. Work(ShardOf[s[1]])' = Work(ShardOf[s[1]]) /\ Stream(s)' = Stream(s)
    BY <1>2 DEF Work, Held, Stream
  <1>5. PICK own, b, a, q, o, k, q2, h2 :
          /\ own = Stream(s) /\ b = Work(ShardOf[s[1]]) /\ a = shard[ShardOf[s[1]]]
          /\ q = queue /\ o = loop[s[2]].out /\ k = socket[s[2]] /\ q2 = queue' /\ h2 = <<q[1]>>
    OBVIOUS
  <1>6. /\ Waits(s) = Queued(own, b, a, <<>>, q, o, k) /\ Packets(b, a, <<>>, q, o, k)
    BY <1>3, <1>5 DEF LineOK, Lined, Carried
  <1>7. Waits(s)' = Queued(own, b, a, h2, q2, o, k) /\ Packets(b, a, h2, q2, o, k)
    BY <1>2, <1>3, <1>4, <1>5 DEF LineOK, Lined, Carried
  <1>8. Packets(b, a, h2, q, o, k) /\ Pops(q, q2)
    BY <1>1, <1>5, <1>6, <1>7 DEF Packets
  <1> QED
    BY <1>5, <1>6, <1>7, <1>8, QueuedDispatch

\* The dispatcher puts its packet in the shard of the packet's source; the
\* streams of other shards have nothing of it.
LEMMA SendKept ==
  ASSUME TypeOK, StagesOK, LineOK, LineOK', Send
  PROVE  Kept
  <1>0. PICK p \in Packet : p = dispatcher.pkt
    BY DEF Send, StagesOK
  <1>w. PICK v \in Workers : v = ShardFor(p.id)
    BY Sizes, PipelineAssumption DEF ShardFor
  <1>1. /\ dispatcher'.pkt = NoPacket /\ Grows(shard[v], shard'[v], p)
        /\ \A w \in Workers \ {v} : shard'[w] = shard[w]
    BY <1>0, <1>w, SendTurns
  <1>2. UNCHANGED <<socket, loop, queue, worker, decoded>>
    BY DEF Send, outcome
  <1>3. Held(dispatcher.pkt) = <<p>> /\ Held(dispatcher.pkt)' = <<>>
    BY <1>0, <1>1, HeldIs DEF Held
  <1> SUFFICES ASSUME NEW s \in Keys
               PROVE  Waits(s)' = Waits(s)
    BY <1>2 DEF Kept
  <1>4. Work(ShardOf[s[1]])' = Work(ShardOf[s[1]]) /\ Stream(s)' = Stream(s)
    BY <1>2 DEF Work, Held, Stream
  <1>5. PICK own, b, a, q, o, k, a2, h :
          /\ own = Stream(s) /\ b = Work(ShardOf[s[1]]) /\ a = shard[ShardOf[s[1]]]
          /\ q = queue /\ o = loop[s[2]].out /\ k = socket[s[2]]
          /\ a2 = shard'[ShardOf[s[1]]] /\ h = <<p>>
    OBVIOUS
  <1>6. Waits(s) = Queued(own, b, a, h, q, o, k) /\ Packets(b, a, h, q, o, k)
    BY <1>3, <1>5 DEF LineOK, Lined, Carried
  <1>7. Waits(s)' = Queued(own, b, a2, <<>>, q, o, k) /\ Packets(b, a2, <<>>, q, o, k)
    BY <1>2, <1>3, <1>4, <1>5 DEF LineOK, Lined, Carried
  <1>8. CASE ShardOf[s[1]] = v
    <2>1. Packets(b, a2, h, q, o, k) /\ Grows(a, a2, p)
      BY <1>1, <1>5, <1>6, <1>7, <1>8 DEF Packets
    <2> QED
      BY <1>5, <1>6, <1>7, <2>1, QueuedSend
  <1>9. CASE ShardOf[s[1]] # v
    <2>1. a2 = a
      BY <1>1, <1>5, <1>9, KeyIs
    <2>2. p.id \notin own
      BY <1>w, <1>5, <1>9 DEF Stream, ShardFor
    <2>3. Pick(own, h) = Pick(own, <<>>)
      BY <1>5, <2>2, HandOthers
    <2> QED
      BY <1>6, <1>7, <2>1, <2>3 DEF Queued
  <1> QED
    BY <1>8, <1>9

\* A worker takes the head of its shard.
LEMMA TakeKept ==
  ASSUME TypeOK, StagesOK, LineOK, LineOK', NEW w \in Workers, Take(w)
  PROVE  Kept
  <1>1. PICK p \in Packet :
          /\ p = shard[w][1] /\ WorkerTurns(w, "decode", p, None)
          /\ Pops(shard[w], shard'[w]) /\ \A v \in Workers \ {w} : shard'[v] = shard[v]
    BY TakeTurns
  <1>2. UNCHANGED <<socket, loop, queue, dispatcher, decoded>>
    BY DEF Take, outcome
  <1>3. Work(w) = <<>> /\ Work(w)' = <<p>>
    BY <1>1, HeldIs DEF Work, Take, WorkerTurns
  <1> SUFFICES ASSUME NEW s \in Keys
               PROVE  Waits(s)' = Waits(s)
    BY <1>2 DEF Kept
  <1>4. Held(dispatcher.pkt)' = Held(dispatcher.pkt) /\ Stream(s)' = Stream(s)
    BY <1>2 DEF Held, Stream
  <1>5. CASE ShardOf[s[1]] # w
    <2>1. Work(ShardOf[s[1]])' = Work(ShardOf[s[1]])
      BY <1>1, <1>5, KeyIs DEF Work, WorkerTurns, Held
    <2>2. Lined(s)' = Lined(s)
      BY <1>1, <1>2, <1>4, <1>5, <2>1, KeyIs DEF Lined
    <2> QED
      BY <2>2 DEF LineOK
  <1>6. CASE ShardOf[s[1]] = w
    <2>1. PICK own, a, h, q, o, k, a2, b2 :
            /\ own = Stream(s) /\ a = shard[w] /\ h = Held(dispatcher.pkt)
            /\ q = queue /\ o = loop[s[2]].out /\ k = socket[s[2]] /\ a2 = shard'[w]
            /\ b2 = <<a[1]>>
      OBVIOUS
    <2>2. Waits(s) = Queued(own, <<>>, a, h, q, o, k) /\ Packets(<<>>, a, h, q, o, k)
      BY <1>3, <1>6, <2>1 DEF LineOK, Lined, Carried
    <2>3. Waits(s)' = Queued(own, b2, a2, h, q, o, k) /\ Packets(b2, a2, h, q, o, k)
      BY <1>1, <1>2, <1>3, <1>4, <1>6, <2>1 DEF LineOK, Lined, Carried
    <2>4. Packets(b2, a, h, q, o, k) /\ Pops(a, a2)
      BY <1>1, <2>1, <2>2, <2>3 DEF Packets
    <2> QED
      BY <2>1, <2>2, <2>3, <2>4, QueuedTake
  <1> QED
    BY <1>5, <1>6

\* A datagram is of one stream only.
LEMMA OneStream ==
  ASSUME NEW s \in Keys, NEW t \in Keys, NEW d \in Stream(s) \cap Stream(t)
  PROVE  s = t
  <1>1. s[2] = t[2]
    BY KeyIs, PipelineAssumption DEF Stream
  <1> QED
    BY <1>1 DEF Keys, Stream

\* A decoded datagram was the next of its stream, if it is of any.
LEMMA DecodeDelivers ==
  ASSUME TypeOK, RoutedOK, LineOK, LineOK', NEW w \in Workers, Decode(w)
  PROVE  Kept \/ \E s \in Keys : Delivers(s)
  <1>1. PICK p \in Packet : p = worker[w].pkt
    BY TypeParts DEF Decode, Parts
  <1>2. /\ WorkerTurns(w, "release", p, None) /\ worker[w].pc = "decode"
        /\ ShardOf[SourceOf[p.id]] = w
    BY <1>1, DecodeLoopTurns DEF Decode, RoutedOK, ShardFor
  <1>3. UNCHANGED <<socket, loop, queue, dispatcher, shard>> /\ decoded' = Append(decoded, p.id)
    BY <1>1 DEF Decode, stages
  <1>4. Work(w) = <<p>> /\ Work(w)' = <<>> /\ \A v \in Workers \ {w} : Work(v)' = Work(v)
    BY <1>1, <1>2, HeldIs DEF Work, WorkerTurns, Held
  <1>5. \A s \in Keys : Of(s, decoded') = IF p.id \in Stream(s) THEN Append(Of(s, decoded), p.id)
                                                                ELSE Of(s, decoded)
    <2>1. PICK ids \in Seq(Datagrams), d \in Datagrams : ids = decoded /\ d = p.id
      BY Sizes DEF TypeOK
    <2>2. \A own : Picked(own, Append(ids, d))
                     = IF d \in own THEN Append(Picked(own, ids), d) ELSE Picked(own, ids)
      BY PickedAppend
    <2> QED
      BY <1>3, <2>1, <2>2 DEF Of
  <1>6. \A s : Held(dispatcher.pkt)' = Held(dispatcher.pkt) /\ Stream(s)' = Stream(s)
    BY <1>3 DEF Held, Stream
  <1>7. ASSUME NEW s \in Keys, p.id \notin Stream(s)
        PROVE  Waits(s)' = Waits(s) /\ Of(s, decoded') = Of(s, decoded)
    <2>1. CASE ShardOf[s[1]] # w
      <3>1. Lined(s)' = Lined(s)
        BY <1>3, <1>4, <1>6, <2>1, KeyIs DEF Lined
      <3> QED
        BY <1>5, <1>7, <3>1 DEF LineOK
    <2>2. CASE ShardOf[s[1]] = w
      <3>1. Pick(Stream(s), <<p>>) = Pick(Stream(s), <<>>)
        BY <1>7, HandOthers
      <3>2. Lined(s)' = Lined(s)
        BY <1>3, <1>4, <1>6, <2>2, <3>1 DEF Lined, Queued
      <3> QED
        BY <1>5, <1>7, <3>2 DEF LineOK
    <2> QED
      BY <2>1, <2>2
  <1>8. ASSUME NEW s \in Keys, p.id \in Stream(s)
        PROVE  Delivers(s)
    <2>1. ShardOf[s[1]] = w
      BY <1>2, <1>8 DEF Stream
    <2>2. PICK own, b, a, h, q, o, k :
            /\ own = Stream(s) /\ b = <<p>> /\ a = shard[w] /\ h = Held(dispatcher.pkt)
            /\ q = queue /\ o = loop[s[2]].out /\ k = socket[s[2]]
      OBVIOUS
    <2>3. Waits(s) = Queued(own, b, a, h, q, o, k) /\ Packets(b, a, h, q, o, k)
      BY <1>4, <2>1, <2>2 DEF LineOK, Lined, Carried
    <2>4. Waits(s)' = Queued(own, <<>>, a, h, q, o, k)
      BY <1>3, <1>4, <1>6, <2>1, <2>2 DEF LineOK, Lined
    <2>5. /\ Queued(own, b, a, h, q, o, k) # <<>>
          /\ Head(Queued(own, b, a, h, q, o, k)) = p.id
          /\ Tail(Queued(own, b, a, h, q, o, k)) = Queued(own, <<>>, a, h, q, o, k)
      BY <1>8, <2>2, <2>3, QueuedDecode
    <2>6. \A t \in Keys \ {s} : p.id \notin Stream(t)
      BY <1>8, OneStream
    <2> QED
      BY <1>5, <1>7, <1>8, <2>3, <2>4, <2>5, <2>6 DEF Delivers
  <1> QED
    BY <1>7, <1>8 DEF Kept

-----------------------------------------------------------------------------
(* Where a datagram comes from. *)

\* What a listener has not enqueued arrived at its socket.
OriginOK ==
  \A l \in Listeners :
    /\ \A i \in 1..Len(socket[l]) : socket[l][i] \in Range(Arrivals[l])
    /\ \A i \in 1..Len(loop[l].out) : loop[l].out[i].id \in Range(Arrivals[l])

\* At the start there is none.
LEMMA InitOriginOK == Init => OriginOK
  <1> SUFFICES ASSUME Init, NEW l \in Listeners
               PROVE  /\ \A i \in 1..Len(socket[l]) : socket[l][i] \in Range(Arrivals[l])
                      /\ \A i \in 1..Len(loop[l].out) : loop[l].out[i].id \in Range(Arrivals[l])
    BY DEF OriginOK
  <1>1. Arrivals[l] \in Seq(Datagrams) /\ socket[l] = Arrivals[l]
    BY PipelineAssumption DEF Init
  <1>2. \A i \in 1..Len(Arrivals[l]) : Arrivals[l][i] \in Range(Arrivals[l])
    BY <1>1, InRange
  <1>3. loop[l].out = <<>> /\ Len(<<>>) = 0
    BY EmptySeq DEF Init
  <1> QED
    BY <1>1, <1>2, <1>3

\* A read takes from the socket, whose rest is of its arrivals; no other step
\* adds to a batch.
LEMMA NextOriginOK ==
  ASSUME TypeOK, StagesOK, OriginOK, [Next]_vars
  PROVE  OriginOK'
  <1>1. ASSUME NEW l \in Listeners, Read(l) PROVE OriginOK'
    <2>1. PICK n \in 1..BatchSize, out \in Seq(Packet), slots \in Seq(Buffers) :
            ReadMoves(l, n, out, slots)
      BY <1>1, ReadTurns
    <2>2. /\ \A k \in Listeners \ {l} : socket'[k] = socket[k] /\ loop'[k].out = loop[k].out
          /\ loop'[l].out = out /\ Len(out) = n /\ n \in Nat /\ Len(socket[l]) \in Nat
          /\ n <= Len(socket[l]) /\ Len(socket'[l]) = Len(socket[l]) - n
      BY <2>1, TypeParts, LenProperties, Sizes DEF ReadMoves, LoopTurns, Parts
    <2>3. \A i \in 1..Len(socket[l]) : socket[l][i] \in Range(Arrivals[l])
      BY DEF OriginOK
    <2>4. \A i \in 1..Len(out) : out[i].id = socket[l][i] /\ i \in 1..Len(socket[l])
      BY <2>1, <2>2 DEF ReadMoves
    <2>5. \A i \in 1..Len(socket'[l]) :
            socket'[l][i] = socket[l][n + i] /\ n + i \in 1..Len(socket[l])
      BY <2>1, <2>2 DEF ReadMoves
    <2>6. /\ \A i \in 1..Len(socket'[l]) : socket'[l][i] \in Range(Arrivals[l])
          /\ \A i \in 1..Len(loop'[l].out) : loop'[l].out[i].id \in Range(Arrivals[l])
      BY <2>2, <2>3, <2>4, <2>5
    <2> QED
      BY <2>2, <2>6 DEF OriginOK
  <1>2. ASSUME NEW l \in Listeners, Enqueue(l) PROVE OriginOK'
    <2>0. loop[l].out # <<>>
      BY <1>2 DEF Enqueue, StagesOK
    <2>1. PICK o2 :
            /\ Pops(loop[l].out, o2) /\ loop'[l].out = o2
            /\ \A k \in Listeners \ {l} : loop'[k] = loop[k]
      BY <1>2, <2>0, EnqueueTurns DEF LoopTurns
    <2>2. socket' = socket
      BY <1>2 DEF Enqueue
    <2>3. \A i \in 1..Len(o2) : o2[i] = loop[l].out[i + 1] /\ i + 1 \in 1..Len(loop[l].out)
      <3>1. Len(loop[l].out) \in Nat
        BY TypeParts, LenProperties DEF Parts
      <3> QED
        BY <2>1, <3>1 DEF Pops
    <2>4. ASSUME NEW k \in Listeners
          PROVE  /\ \A i \in 1..Len(socket'[k]) : socket'[k][i] \in Range(Arrivals[k])
                 /\ \A i \in 1..Len(loop'[k].out) : loop'[k].out[i].id \in Range(Arrivals[k])
      <3>1. CASE k = l
        <4>1. \A i \in 1..Len(loop[l].out) : loop[l].out[i].id \in Range(Arrivals[l])
          BY DEF OriginOK
        <4>2. \A i \in 1..Len(o2) : o2[i].id \in Range(Arrivals[l])
          BY <2>3, <4>1
        <4> QED
          BY <2>1, <2>2, <3>1, <4>2 DEF OriginOK
      <3>2. CASE k # l
        BY <2>1, <2>2, <3>2 DEF OriginOK
      <3> QED
        BY <3>1, <3>2
    <2> QED
      BY <2>4 DEF OriginOK
  <1>3. CASE /\ socket' = socket
             /\ \A l \in Listeners : loop'[l].out = loop[l].out
    BY <1>3 DEF OriginOK
  <1>4. ASSUME NEW l \in Listeners, Refill(l) \/ ReadClosed(l) PROVE OriginOK'
    <2>1. \A k \in Listeners : loop'[k].out = loop[k].out
      BY <1>4, RefillTurns, ReadClosedTurns DEF LoopTurns
    <2>2. socket' = socket
      BY <1>4 DEF Refill, ReadClosed
    <2> QED
      BY <1>3, <2>1, <2>2
  <1>5. CASE UNCHANGED <<socket, loop>>
    BY <1>3, <1>5
  <1> QED
    BY <1>1, <1>2, <1>4, <1>5
    DEF Next, ReadLoop, Dispatcher, Dispatch, Send, CloseShards, DecodeLoop, Take, Decode, Release,
        LoadReader, LookUp, Ingest, ShardEnded, Reload, Stop, Shutdown, CloseConns, CloseQueue,
        Await, CloseChain, Exited, vars, stages

\* A datagram enqueued keeps its place; one dropped is its stream's loss.
LEMMA EnqueueKeepsOrLoses ==
  ASSUME TypeOK, StagesOK, OriginOK, LineOK, LineOK', NEW l \in Listeners, Enqueue(l)
  PROVE  Kept \/ \E s \in Keys : Loses(s)
  <1>0. loop[l].out # <<>>
    BY DEF Enqueue, StagesOK
  <1>1. PICK p, o2 :
          /\ p \in Packet
          /\ p = loop[l].out[1] /\ Pops(loop[l].out, o2) /\ loop'[l].out = o2
          /\ \A m \in Listeners \ {l} : loop'[m].out = loop[m].out
          /\ \/ queue' = queue
             \/ Grows(queue, queue', p)
    BY <1>0, EnqueueTurns DEF LoopTurns
  <1>2. UNCHANGED <<socket, dispatcher, shard, worker, decoded>>
    BY DEF Enqueue
  <1>3. p.id \in Range(Arrivals[l]) /\ SourceOf[p.id] \in Exporters
    <2>1. 1 \in 1..Len(loop[l].out)
      BY <1>1, TypeParts, LenProperties DEF Parts, Pops
    <2> QED
      BY <1>1, <2>1, Sizes, PipelineAssumption DEF OriginOK
  <1>4. PICK s \in Keys : s = <<SourceOf[p.id], l>>
    BY <1>3 DEF Keys
  <1>5. s[2] = l /\ p.id \in Stream(s)
    BY <1>3, <1>4 DEF Stream
  <1>6. /\ \A w : Work(w)' = Work(w)
        /\ Held(dispatcher.pkt)' = Held(dispatcher.pkt)
        /\ \A t : Stream(t)' = Stream(t)
    BY <1>2 DEF Work, Held, Stream
  <1>7. ASSUME NEW t \in Keys
        PROVE  \E own, b, a, h, q, o, k, q2, ot :
                 /\ own = Stream(t) /\ q = queue /\ q2 = queue'
                 /\ o = loop[t[2]].out /\ ot = loop'[t[2]].out
                 /\ Waits(t) = Queued(own, b, a, h, q, o, k) /\ Packets(b, a, h, q, o, k)
                 /\ Waits(t)' = Queued(own, b, a, h, q2, ot, k) /\ Packets(b, a, h, q2, ot, k)
    <2>1. PICK own, b, a, h, q, o, k, q2, ot :
            /\ own = Stream(t) /\ q = queue /\ q2 = queue'
            /\ o = loop[t[2]].out /\ ot = loop'[t[2]].out
            /\ b = Work(ShardOf[t[1]]) /\ a = shard[ShardOf[t[1]]] /\ h = Held(dispatcher.pkt)
            /\ k = socket[t[2]]
      OBVIOUS
    <2>2. Waits(t) = Queued(own, b, a, h, q, o, k) /\ Packets(b, a, h, q, o, k)
      BY <2>1 DEF LineOK, Lined, Carried
    <2>3. Waits(t)' = Queued(own, b, a, h, q2, ot, k) /\ Packets(b, a, h, q2, ot, k)
      BY <1>2, <1>6, <2>1 DEF LineOK, Lined, Carried
    <2> QED
      BY <2>1, <2>2, <2>3
  <1>8. ASSUME NEW t \in Keys, t # s
        PROVE  Waits(t)' = Waits(t)
    <2>1. PICK own, b, a, h, q, o, k, q2, ot :
            /\ own = Stream(t) /\ q = queue /\ q2 = queue'
            /\ o = loop[t[2]].out /\ ot = loop'[t[2]].out
            /\ Waits(t) = Queued(own, b, a, h, q, o, k) /\ Packets(b, a, h, q, o, k)
            /\ Waits(t)' = Queued(own, b, a, h, q2, ot, k) /\ Packets(b, a, h, q2, ot, k)
      BY <1>7
    <2>2. p.id \notin own
      BY <1>5, <1>8, <2>1, OneStream
    <2>3. Pick(own, ot) = Pick(own, o)
      <3>1. CASE t[2] # l
        BY <1>1, <2>1, <3>1, KeyIs
      <3>2. CASE t[2] = l
        <4>1. o \in Seq(Packet) /\ ot \in Seq(Packet) /\ Pops(o, ot) /\ o[1] = p
          BY <1>1, <2>1, <3>2 DEF Packets
        <4> QED
          BY <2>2, <4>1, PassedOver DEF Alike
      <3> QED
        BY <3>1, <3>2
    <2>4. Pick(own, q2) = Pick(own, q)
      <3>1. CASE queue' = queue
        BY <2>1, <3>1
      <3>2. CASE Grows(queue, queue', p)
        <4>1. q \in Seq(Packet) /\ q2 \in Seq(Packet) /\ Grows(q, q2, p) /\ p \in Packet
          BY <1>1, <2>1, <3>2 DEF Packets
        <4> QED
          BY <2>2, <4>1, PickOthers DEF Alike
      <3> QED
        BY <1>1, <3>1, <3>2
    <2> QED
      BY <2>1, <2>3, <2>4 DEF Queued
  <1>9. PICK own, b, a, h, q, o, k, q2, ot :
          /\ own = Stream(s) /\ q = queue /\ q2 = queue'
          /\ o = loop[s[2]].out /\ ot = loop'[s[2]].out
          /\ Waits(s) = Queued(own, b, a, h, q, o, k) /\ Packets(b, a, h, q, o, k)
          /\ Waits(s)' = Queued(own, b, a, h, q2, ot, k) /\ Packets(b, a, h, q2, ot, k)
    BY <1>7
  <1>10. Pops(o, ot) /\ o[1] = p /\ p.id \in own
    BY <1>1, <1>5, <1>9
  <1>11. CASE queue' = queue
    <2>1. \E i \in DOMAIN Queued(own, b, a, h, q, o, k) :
            RemoveAt(Queued(own, b, a, h, q, o, k), i) = Queued(own, b, a, h, q, ot, k)
      <3>1. Packets(b, a, h, q, ot, k)
        BY <1>9, <1>11
      <3> QED
        BY <1>9, <1>10, <3>1, QueuedDrop
    <2>2. q2 = q
      BY <1>9, <1>11
    <2>3. Loses(s)
      BY <1>2, <1>8, <1>9, <2>1, <2>2 DEF Loses
    <2> QED
      BY <2>3
  <1>12. CASE Grows(queue, queue', p)
    <2>1. Grows(q, q2, o[1])
      BY <1>9, <1>10, <1>12
    <2>2. Queued(own, b, a, h, q, o, k) = Queued(own, b, a, h, q2, ot, k)
      BY <1>9, <1>10, <2>1, QueuedEnqueue
    <2> QED
      BY <1>2, <1>8, <1>9, <2>2 DEF Kept
  <1> QED
    BY <1>1, <1>11, <1>12

-----------------------------------------------------------------------------
(* The path implements Streams. *)

\* Every step keeps the lines, or loses or delivers one datagram of one stream.
LEMMA NextLines ==
  ASSUME Inv, OriginOK, LineOK, LineOK', [Next]_vars
  PROVE  Kept \/ \E s \in Keys : Loses(s) \/ Delivers(s)
  <1>0. TypeOK /\ StagesOK /\ RoutedOK
    BY DEF Inv
  <1>1. ASSUME NEW l \in Listeners, ReadLoop(l) PROVE Kept \/ \E s \in Keys : Loses(s)
    <2>1. CASE Refill(l) \/ ReadClosed(l)
      <3>1. \A k \in Listeners : loop'[k].out = loop[k].out
        BY <1>0, <2>1, RefillTurns, ReadClosedTurns DEF LoopTurns
      <3>2. UNCHANGED <<socket, queue, dispatcher, shard, worker, decoded>>
        BY <2>1 DEF Refill, ReadClosed, outcome
      <3>3. \A w \in Workers : Work(w)' = Work(w)
        BY <3>2 DEF Work, Held
      <3> QED
        BY <3>1, <3>2, <3>3, StillKept
    <2> QED
      BY <1>0, <1>1, <2>1, ReadKept, EnqueueKeepsOrLoses DEF ReadLoop
  <1>2. CASE CloseShards
    <2>1. /\ UNCHANGED <<socket, loop, queue, shard, worker, decoded>>
          /\ dispatcher'.pkt = dispatcher.pkt
      BY <1>0, <1>2 DEF CloseShards, outcome, TypeOK, DispatcherState
    <2>2. \A w \in Workers : Work(w)' = Work(w)
      BY <2>1 DEF Work, Held
    <2> QED
      BY <2>1, <2>2, StillKept
  <1>3. ASSUME NEW w \in Workers, DecodeLoop(w) PROVE Kept \/ \E s \in Keys : Delivers(s)
    <2>1. CASE Release(w) \/ LoadReader(w) \/ LookUp(w) \/ Ingest(w) \/ ShardEnded(w)
      <3>1. /\ worker[w].pc # "decode" /\ worker'[w].pc # "decode"
            /\ \A v \in Workers \ {w} : worker'[v] = worker[v]
        <4>1. LoadReader(w) => reader \in Readers
          BY <1>0 DEF LoadReader, StagesOK
        <4> QED
          BY <1>0, <2>1, <4>1, DecodeLoopTurns
          DEF WorkerTurns, Release, LoadReader, LookUp, Ingest, ShardEnded
      <3>2. UNCHANGED <<socket, loop, queue, dispatcher, shard, decoded>>
        BY <2>1 DEF Release, LoadReader, LookUp, Ingest, ShardEnded, stages, outcome
      <3>3. \A v \in Workers : Work(v)' = Work(v)
        BY <3>1 DEF Work, Held
      <3> QED
        BY <3>2, <3>3, StillKept
    <2> QED
      BY <1>0, <1>3, <2>1, TakeKept, DecodeDelivers DEF DecodeLoop
  <1>4. CASE UNCHANGED <<socket, loop, queue, dispatcher, shard, worker, decoded>>
    <2>1. \A w \in Workers : Work(w)' = Work(w)
      BY <1>4 DEF Work, Held
    <2> QED
      BY <1>4, <2>1, StillKept
  <1> QED
    BY <1>0, <1>1, <1>2, <1>3, <1>4, DispatchKept, SendKept
    DEF Next, Dispatcher, Reload, Stop, Shutdown, CloseConns, CloseQueue, Await, CloseChain,
        Exited, vars, stages, outcome

\* At the start all is in the sockets.
LEMMA InitStreams == Init /\ LineOK => S!Init
  <1> SUFFICES ASSUME Init, LineOK PROVE S!Init
    OBVIOUS
  <1>1. ASSUME NEW s \in Keys
        PROVE  Of(s, Line(s)) = Of(s, Arrivals[s[2]]) /\ Of(s, decoded) = <<>>
    <2>1. PICK own, k : own = Stream(s) /\ k = Arrivals[s[2]]
      OBVIOUS
    <2>2. Held(NoPacket) = <<>> /\ Work(ShardOf[s[1]]) = <<>>
      BY HeldIs, KeyIs DEF Work, Init
    <2>3. Waits(s) = Queued(own, <<>>, <<>>, <<>>, <<>>, <<>>, k)
      BY <2>1, <2>2, KeyIs DEF LineOK, Lined, Init
    <2>4. PICK K \in Seq(Datagrams) : K = Picked(own, k)
      BY <2>1, KeyIs, PickedSeq, PipelineAssumption
    <2>5. <<>> \o <<>> = <<>> /\ <<>> \o K = K
      BY Nothing
    <2>6. Queued(own, <<>>, <<>>, <<>>, <<>>, <<>>, k) = K
      BY <2>4, <2>5, PickNone, Zenon DEF Queued, Path
    <2>7. Of(s, decoded) = <<>>
      BY PickedNone DEF Init, Of
    <2> QED
      BY <2>1, <2>3, <2>4, <2>6, <2>7 DEF Waits, Of
  <1> QED
    BY <1>1 DEF S!Init

\* And then every step is a delivery, a loss or nothing to Streams.
LEMMA NextStreams ==
  ASSUME Kept \/ \E s \in Keys : Loses(s) \/ Delivers(s)
  PROVE  [S!Next]_(S!vars)
  <1>1. PICK wait, wait2, got, got2 :
          /\ wait = [s \in Keys |-> Of(s, Line(s))] /\ wait2 = [s \in Keys |-> Of(s, Line(s))]'
          /\ got = [s \in Keys |-> Of(s, decoded)] /\ got2 = [s \in Keys |-> Of(s, decoded)]'
    OBVIOUS
  <1>2. \A s \in Keys : wait[s] = Waits(s) /\ got[s] = Of(s, decoded)
    BY <1>1 DEF Waits
  <1>3. \A s \in Keys : wait2[s] = Waits(s)'
    BY <1>1 DEF Waits
  <1>4. \A s \in Keys : got2[s] = Of(s, decoded')
    BY <1>1 DEF Of, Stream
  <1>5. /\ wait = [s \in Keys |-> wait[s]] /\ wait2 = [s \in Keys |-> wait2[s]]
        /\ got = [s \in Keys |-> got[s]] /\ got2 = [s \in Keys |-> got2[s]]
    BY <1>1
  <1>6. CASE Kept
    <2>1. wait2 = wait /\ got2 = got
      BY <1>2, <1>3, <1>4, <1>5, <1>6 DEF Kept
    <2> QED
      BY <1>1, <2>1 DEF S!vars
  <1>7. ASSUME NEW s \in Keys, Loses(s) PROVE S!Next
    <2>1. PICK i : i \in DOMAIN wait[s] /\ wait2[s] = RemoveAt(wait[s], i)
      BY <1>2, <1>3, <1>7 DEF Loses
    <2>2. wait2 = [wait EXCEPT ![s] = RemoveAt(wait[s], i)]
      BY <1>2, <1>3, <1>5, <1>7, <2>1 DEF Loses
    <2>3. got2 = got
      BY <1>2, <1>4, <1>5, <1>7 DEF Loses
    <2>4. S!Lose(s)
      <3>0. S!RemoveAt(wait[s], i) = RemoveAt(wait[s], i)
        BY Zenon DEF S!RemoveAt, RemoveAt
      <3>1. \E j \in DOMAIN wait[s] : wait2 = [wait EXCEPT ![s] = S!RemoveAt(wait[s], j)]
        BY <2>1, <2>2, <3>0, Zenon
      <3> QED
        BY <1>1, <2>3, <3>1, Zenon DEF S!Lose
    <2> QED
      BY <2>4 DEF S!Next
  <1>8. ASSUME NEW s \in Keys, Delivers(s) PROVE S!Next
    <2>0. PICK rest, more : rest = Tail(wait[s]) /\ more = Append(got[s], Head(wait[s]))
      OBVIOUS
    <2>a. /\ wait[s] # <<>> /\ wait2[s] = rest /\ got2[s] = more
          /\ \A t \in Keys \ {s} : wait2[t] = wait[t] /\ got2[t] = got[t]
      <3>1. wait[s] = Waits(s) /\ wait2[s] = Waits(s)'
        BY <1>2, <1>3
      <3>2. got[s] = Of(s, decoded) /\ got2[s] = Of(s, decoded')
        BY <1>2, <1>4
      <3>3. wait[s] # <<>> /\ wait2[s] = rest
        BY <1>8, <2>0, <3>1, Zenon DEF Delivers
      <3>4. got2[s] = more
        BY <1>8, <2>0, <3>1, <3>2, Zenon DEF Delivers
      <3>5. ASSUME NEW t \in Keys \ {s} PROVE wait2[t] = wait[t] /\ got2[t] = got[t]
        <4>1. Waits(t)' = Waits(t) /\ Of(t, decoded') = Of(t, decoded)
          BY <1>8, Zenon DEF Delivers
        <4> QED
          BY <1>2, <1>3, <1>4, <4>1
      <3> QED
        BY <3>3, <3>4, <3>5
    <2>1. wait2 = [wait EXCEPT ![s] = rest]
      BY <1>5, <2>a
    <2>2. got2 = [got EXCEPT ![s] = more]
      BY <1>5, <2>a
    <2>3. S!Deliver(s)
      BY <1>1, <2>0, <2>a, <2>1, <2>2, Zenon DEF S!Deliver
    <2> QED
      BY <2>3 DEF S!Next
  <1> QED
    BY <1>6, <1>7, <1>8

\* Whatever the sizes, the listeners, the workers and the turns they take, each
\* datagram an exporter sent to a listener is decoded in the order it arrived,
\* once, or is lost and never decoded: the path implements Streams.
THEOREM DeliversInOrderHolds == Spec => DeliversInOrder
  <1>1. Inv /\ OriginOK /\ [Next]_vars => OriginOK'
    BY NextOriginOK DEF Inv
  <1>2. Inv => LineOK
    BY LineIs DEF Inv
  <1>3. Inv /\ OriginOK /\ LineOK /\ LineOK' /\ [Next]_vars => [S!Next]_(S!vars)
    BY NextLines, NextStreams
  <1> QED
    BY <1>1, <1>2, <1>3, InitInv, InitOriginOK, InitStreams, Invariant, PTL
    DEF Spec, DeliversInOrder, S!Spec
====
