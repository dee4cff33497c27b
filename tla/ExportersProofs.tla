--------------------------- MODULE ExportersProofs ---------------------------
(* Proofs about Exporters, for every number of devices, datagrams and      *)
(* workers, any budget and any TTL.                                        *)
EXTENDS Exporters, FiniteSetTheorems, TLAPS

-----------------------------------------------------------------------------
(* The inductive invariant.                                                *)

\* What can be reached is allocated, and what is allocated can be reached: the
\* table reaches its devices' counters, and a worker those it resolved, which
\* are its own device's or no device's any more.
HeapOK ==
  /\ IsFiniteSet(DOMAIN exporters)
  /\ exporters \in [DOMAIN exporters -> Ids]
  /\ DOMAIN heap \subseteq Range(exporters) \cup {worker[w].es : w \in Workers}
  /\ \A a, b \in DOMAIN exporters : exporters[a] = exporters[b] => a = b
  /\ \A w \in Workers : worker[w].es # None =>
       worker[w].es \in DOMAIN heap /\ worker[w].pc \in {"stamp", "decode"}
  /\ \A w \in Workers : worker[w].pc = "stamp" => worker[w].es # None
  /\ \A w \in Workers, a \in DOMAIN exporters : worker[w].es = exporters[a] => a = From(w)

\* A worker handles its own datagram, which is one it may be fed.
DatagramsOK ==
  /\ \A w \in Workers : worker[w].pc # "idle" =>
       worker[w].dgram \in sent /\ From(w) \in Feeds[w]
  /\ \A v, w \in Workers :
       v # w /\ worker[v].pc # "idle" /\ worker[w].pc # "idle" =>
         worker[v].dgram # worker[w].dgram

\* The mirror is moved with the map, under its lock.
BudgetOK ==
  /\ live = Cardinality(DOMAIN exporters)
  /\ live <= MaxExporters
  /\ sweeper.pc = "lock" => Full(live)

\* A datagram is handled within one TTL, and a cutoff never passes the clock.
ClockOK ==
  /\ \A w \in Workers : worker[w].pc # "idle" => now <= worker[w].at + TTL
  /\ sweeper.cutoff <= now - TTL

\* A worker's resolution was evicted since.
Orphan(w) == worker[w].es # None /\ \A a \in DOMAIN exporters : exporters[a] # worker[w].es

\* A datagram in hand is counted nowhere yet; it is refused once it is resolved
\* to nothing, and gone once what it is resolved to is.
InHand(w) ==
  /\ \A i \in DOMAIN heap : worker[w].dgram \notin heap[i].counted
  /\ worker[w].dgram \in refused <=> worker[w].pc = "decode" /\ worker[w].es = None
  /\ worker[w].dgram \in gone <=> Orphan(w)

\* Where datagrams are counted: in objects of their own device, once resolved
\* and not before, and never when refused.
LedgerOK ==
  /\ refused \subseteq sent /\ gone \subseteq sent
  /\ \A i \in DOMAIN heap : heap[i].counted \subseteq sent \ refused
  /\ \A a \in DOMAIN exporters : \A d \in heap[exporters[a]].counted : SourceOf[d] = a
  /\ \A a \in DOMAIN exporters : heap[exporters[a]].counted \cap gone = {}
  /\ gone \cap refused = {}
  /\ \A w \in Workers : Open(w) => InHand(w)

\* What has become of a datagram that is no longer in hand.
InOwn(d) == SourceOf[d] \in DOMAIN exporters /\ d \in heap[exporters[SourceOf[d]]].counted
SettledOK == \A d \in sent : Settled(d) => d \in refused \/ d \in gone \/ InOwn(d)

\* A device that one worker handles: what that worker knows of it holds until
\* it has finished, because nobody else admits it and no sweep finds it
\* silent once it is stamped.
Handled(w) ==
  /\ worker[w].pc \in {"gate", "open"} => From(w) \notin DOMAIN exporters
  /\ worker[w].pc = "stamp" /\ From(w) \in DOMAIN exporters =>
       worker[w].es = exporters[From(w)]
  /\ worker[w].pc \in {"decode", "admit", "observe"} /\ From(w) \in DOMAIN exporters =>
       worker[w].at <= heap[exporters[From(w)]].lastSeen
  /\ worker[w].pc = "observe" => From(w) \in DOMAIN exporters

ShardOK ==
  /\ \A w \in Workers : worker[w].pc # "idle" /\ Sharded(From(w)) => Handled(w)
  /\ sweeper.pc # "forget" => sweeper.evicted = {}
  /\ \A d \in histograms : Sharded(SourceOf[d]) =>
       SourceOf[d] \in DOMAIN exporters \cup sweeper.evicted

Inv == TypeOK /\ HeapOK /\ DatagramsOK /\ BudgetOK /\ ClockOK /\ LedgerOK /\ SettledOK /\ ShardOK

-----------------------------------------------------------------------------
(* What each step does to the worker that takes it.                        *)

Others(w) == \A v \in Workers \ {w} : worker'[v] = worker[v]

\* The worker goes on with the same datagram, at pc and with es resolved.
Turns(w, pc, es) ==
  /\ worker' \in [Workers -> WorkerState] /\ Others(w)
  /\ worker'[w].pc = pc /\ worker'[w].es = es
  /\ worker'[w].dgram = worker[w].dgram /\ worker'[w].at = worker[w].at

\* The worker is done with its datagram.
Finishes(w) ==
  /\ worker' \in [Workers -> WorkerState] /\ Others(w)
  /\ worker'[w].pc = "idle" /\ worker'[w].es = None

\* Moving on keeps what the worker has in hand; resolving changes es alone.
LEMMA WorkerTurns ==
  ASSUME TypeOK, NEW w \in Workers
  PROVE  /\ \A pc \in {"open", "decode", "gate", "observe"} :
              Go(w, pc) => Turns(w, pc, worker[w].es)
         /\ \A pc \in {"stamp", "decode", "admit"}, es \in Ids \cup {None} :
              worker' = [worker EXCEPT ![w].pc = pc, ![w].es = es] => Turns(w, pc, es)
         /\ worker' = [worker EXCEPT ![w] = Idle] => Finishes(w)
  <1>0. worker \in [Workers -> WorkerState] /\ worker[w] \in WorkerState
    BY DEF TypeOK
  <1>1. ASSUME NEW pc \in {"open", "decode", "gate", "observe"}, Go(w, pc)
        PROVE  Turns(w, pc, worker[w].es)
    <2>1. [worker[w] EXCEPT !.pc = pc] \in WorkerState
      BY <1>0 DEF WorkerState
    <2>2. worker' = [worker EXCEPT ![w] = [worker[w] EXCEPT !.pc = pc]]
      BY <1>1 DEF Go
    <2> QED
      BY <1>0, <2>1, <2>2 DEF Turns, Others, WorkerState
  <1>2. ASSUME NEW pc \in {"stamp", "decode", "admit"}, NEW es \in Ids \cup {None},
               worker' = [worker EXCEPT ![w].pc = pc, ![w].es = es]
        PROVE  Turns(w, pc, es)
    <2> DEFINE s == [worker[w] EXCEPT !.pc = pc]
               t == [s EXCEPT !.es = es]
    <2>1. worker' = [worker EXCEPT ![w] = t]
      BY <1>2
    <2>2. /\ s \in WorkerState
          /\ s.pc = pc /\ s.dgram = worker[w].dgram /\ s.at = worker[w].at
      BY <1>0 DEF WorkerState
    <2> HIDE DEF s
    <2>3. /\ t \in WorkerState
          /\ t.pc = pc /\ t.es = es /\ t.dgram = worker[w].dgram /\ t.at = worker[w].at
      BY <2>2 DEF WorkerState
    <2> HIDE DEF t
    <2> QED
      BY <1>0, <2>1, <2>3 DEF Turns, Others
  <1>3. worker' = [worker EXCEPT ![w] = Idle] => Finishes(w)
    BY <1>0, ExportersAssumption DEF Finishes, Others, Idle, WorkerState, Time
  <1> QED
    BY <1>1, <1>2, <1>3

\* Taking a datagram.
LEMMA DecodeTurns ==
  ASSUME TypeOK, NEW w \in Workers, NEW d \in Datagrams, Decode(w, d)
  PROVE  /\ worker' \in [Workers -> WorkerState] /\ Others(w)
         /\ worker'[w].pc = "find" /\ worker'[w].dgram = d /\ worker'[w].at = now
         /\ worker'[w].es = worker[w].es
  <1> DEFINE s == [worker[w] EXCEPT !.pc = "find"]
             t == [s EXCEPT !.dgram = d]
             u == [t EXCEPT !.at = now]
  <1>0. worker \in [Workers -> WorkerState] /\ worker[w] \in WorkerState /\ now \in Time
    BY DEF TypeOK
  <1>1. worker' = [worker EXCEPT ![w] = u]
    BY DEF Decode
  <1>2. s \in WorkerState /\ s.pc = "find" /\ s.es = worker[w].es
    BY <1>0 DEF WorkerState
  <1> HIDE DEF s
  <1>3. t \in WorkerState /\ t.pc = "find" /\ t.es = worker[w].es /\ t.dgram = d
    BY <1>2 DEF WorkerState
  <1> HIDE DEF t
  <1>4. /\ u \in WorkerState /\ u.pc = "find" /\ u.es = worker[w].es /\ u.dgram = d
        /\ u.at = now
    BY <1>0, <1>3 DEF WorkerState
  <1> HIDE DEF u
  <1> QED
    BY <1>0, <1>1, <1>4 DEF Others

\* The object an OpenNew allocates is not one already allocated: what can be
\* reached is at most the devices held and what the other workers resolved.
LEMMA HeapHasRoom ==
  ASSUME TypeOK, HeapOK, NEW w \in Workers, worker[w].pc = "open",
         ~Full(Cardinality(DOMAIN exporters))
  PROVE  Fresh(DOMAIN heap) \in Ids \ DOMAIN heap
  <1> DEFINE D == DOMAIN exporters
             R == Range(exporters)
             V == Workers \ {w}
             f == [v \in V |-> worker[v].es]
             E == {worker[v].es : v \in V}
  <1>1. /\ IsFiniteSet(R) /\ Cardinality(R) <= Cardinality(D)
        /\ Cardinality(R) \in Nat /\ Cardinality(D) \in Nat
    <2>1. exporters \in Surjection(D, R)
      BY DEF HeapOK, Range, Surjection
    <2> QED
      BY <2>1, FS_Surjection, FS_CardinalityType DEF HeapOK
  <1>2. IsFiniteSet(V) /\ Cardinality(V) = Cardinality(Workers) - 1 /\ Cardinality(Workers) \in Nat
    BY ExportersAssumption, FS_RemoveElement, FS_CardinalityType
  <1>3. IsFiniteSet(E) /\ Cardinality(E) <= Cardinality(V) /\ Cardinality(E) \in Nat
        /\ Cardinality(V) \in Nat
    <2>1. f \in Surjection(V, E)
      BY DEF Surjection
    <2> QED
      BY <1>2, <2>1, FS_Surjection, FS_CardinalityType
  <1>4. IsFiniteSet(R \cup E) /\ Cardinality(R \cup E) <= Cardinality(R) + Cardinality(E)
        /\ Cardinality(R \cup E) \in Nat
    <2>1. /\ IsFiniteSet(R \cup E) /\ IsFiniteSet(R \cap E)
          /\ Cardinality(R \cup E) =
               Cardinality(R) + Cardinality(E) - Cardinality(R \cap E)
      BY <1>1, <1>3, FS_Union, FS_Intersection
    <2>2. Cardinality(R \cap E) \in Nat /\ Cardinality(R \cup E) \in Nat
      BY <2>1, FS_CardinalityType
    <2> QED
      BY <1>1, <1>3, <2>1, <2>2
  <1>5. DOMAIN heap \subseteq R \cup E
    <2>1. worker[w].es = None
      BY DEF HeapOK
    <2>2. None \notin DOMAIN heap
      BY ExportersAssumption DEF TypeOK
    <2> QED
      BY <2>1, <2>2 DEF HeapOK
  <1>6. IsFiniteSet(DOMAIN heap) /\ Cardinality(DOMAIN heap) <= Cardinality(R \cup E)
        /\ Cardinality(DOMAIN heap) \in Nat
    BY <1>4, <1>5, FS_Subset, FS_CardinalityType
  <1>7. Cardinality(D) < MaxExporters /\ MaxExporters \in Nat
    BY <1>1, ExportersAssumption DEF Full
  <1> HIDE DEF D, R, V, E
  <1>8. Cardinality(Ids) \in Nat /\ Cardinality(Ids) >= MaxExporters + Cardinality(Workers)
    BY ExportersAssumption, FS_CardinalityType
  <1>9. Cardinality(DOMAIN heap) < Cardinality(Ids)
    BY <1>1, <1>2, <1>3, <1>4, <1>6, <1>7, <1>8
  <1>10. DOMAIN heap # Ids
    BY <1>6, <1>8, <1>9
  <1>11. \E i \in Ids : i \notin DOMAIN heap
    BY <1>10 DEF TypeOK
  <1> QED
    BY <1>11 DEF Fresh

-----------------------------------------------------------------------------
(* What each step does to the objects. *)

\* The object i is stamped.
Stamps(i, at) ==
  /\ DOMAIN heap' = DOMAIN heap
  /\ \A j \in DOMAIN heap \ {i} : heap'[j] = heap[j]
  /\ heap'[i].counted = heap[i].counted /\ heap'[i].lastSeen = at
  /\ heap'[i] \in ExporterStats

\* A stamp changes no counter.
LEMMA StampFacts ==
  ASSUME TypeOK, NEW i \in DOMAIN heap, NEW at \in Time,
         heap' = [heap EXCEPT ![i].lastSeen = at]
  PROVE  Stamps(i, at)
  <1>1. heap[i] \in ExporterStats
    BY DEF TypeOK
  <1> DEFINE e == [heap[i] EXCEPT !.lastSeen = at]
  <1>2. e \in ExporterStats /\ e.counted = heap[i].counted /\ e.lastSeen = at
    BY <1>1 DEF ExporterStats
  <1>3. heap' = [heap EXCEPT ![i] = e]
    OBVIOUS
  <1> HIDE DEF e
  <1> QED
    BY <1>2, <1>3 DEF Stamps

\* What the collector keeps is what it was.
LEMMA KeepFacts ==
  ASSUME NEW h, Keep(h)
  PROVE  /\ DOMAIN heap' = DOMAIN h \cap
                             (Range(exporters') \cup {worker'[w].es : w \in Workers})
         /\ \A i \in DOMAIN heap' : heap'[i] = h[i]
  BY DEF Keep, Restrict

\* Counting a datagram through its resolution changes that object alone.
Counts(w) ==
  /\ DOMAIN heap' = DOMAIN heap \cap
                      (Range(exporters') \cup {worker'[v].es : v \in Workers})
  /\ \A i \in DOMAIN heap' :
       /\ heap'[i] \in ExporterStats /\ heap'[i].lastSeen = heap[i].lastSeen
       /\ heap'[i].counted =
            heap[i].counted \cup (IF i = worker[w].es THEN {worker[w].dgram} ELSE {})

\* Count does just that, resolved or not.
LEMMA CountFacts ==
  ASSUME TypeOK, HeapOK, NEW w \in Workers, worker[w].dgram \in Datagrams, Count(w)
  PROVE  Counts(w)
  <1>0. \A i \in DOMAIN heap : heap[i] \in ExporterStats
    BY DEF TypeOK
  <1>k. PICK es, d : es = worker[w].es /\ d = worker[w].dgram
    OBVIOUS
  <1>1. CASE es = None
    <2>1. Keep(heap)
      BY <1>k, <1>1 DEF Count
    <2>2. /\ DOMAIN heap' = DOMAIN heap \cap
                              (Range(exporters') \cup {worker'[v].es : v \in Workers})
          /\ \A i \in DOMAIN heap' : heap'[i] = heap[i]
      BY <2>1 DEF Keep, Restrict
    <2>3. None \notin DOMAIN heap
      BY ExportersAssumption DEF TypeOK
    <2> QED
      BY <1>0, <1>k, <1>1, <2>2, <2>3 DEF Counts
  <1>2. CASE es # None
    <2>1. es \in DOMAIN heap
      BY <1>k, <1>2 DEF HeapOK
    <2>2. PICK h : h = [heap EXCEPT ![es].counted = @ \cup {d}]
      OBVIOUS
    <2>3. Keep(h)
      BY <1>k, <1>2, <2>2 DEF Count
    <2>4. /\ DOMAIN heap' = DOMAIN h \cap
                              (Range(exporters') \cup {worker'[v].es : v \in Workers})
          /\ \A i \in DOMAIN heap' : heap'[i] = h[i]
      BY <2>3, KeepFacts
    <2> DEFINE e == [heap[es] EXCEPT !.counted = @ \cup {d}]
    <2>5. /\ e \in ExporterStats /\ e.lastSeen = heap[es].lastSeen
          /\ e.counted = heap[es].counted \cup {d}
      BY <1>0, <1>k, <2>1 DEF ExporterStats
    <2>6. DOMAIN h = DOMAIN heap /\ \A i \in DOMAIN heap : h[i] = IF i = es THEN e ELSE heap[i]
      BY <2>1, <2>2
    <2> HIDE DEF e
    <2>7. ASSUME NEW i \in DOMAIN heap'
          PROVE  /\ heap'[i] \in ExporterStats /\ heap'[i].lastSeen = heap[i].lastSeen
                 /\ heap'[i].counted = heap[i].counted \cup (IF i = es THEN {d} ELSE {})
      <3>1. i \in DOMAIN heap /\ heap'[i] = h[i]
        BY <2>4, <2>6
      <3>2. CASE i = es
        BY <2>5, <2>6, <3>1, <3>2
      <3>3. CASE i # es
        BY <1>0, <2>6, <3>1, <3>3
      <3> QED
        BY <3>2, <3>3
    <2> QED
      BY <1>k, <2>4, <2>6, <2>7 DEF Counts
  <1> QED
    BY <1>1, <1>2

\* Admitting a device allocates its counters.
Admits1(w, i) ==
  /\ i \in Ids \ DOMAIN heap /\ From(w) \in Addresses \ DOMAIN exporters
  /\ DOMAIN exporters' = DOMAIN exporters \cup {From(w)}
  /\ exporters'[From(w)] = i
  /\ \A a \in DOMAIN exporters : exporters'[a] = exporters[a]
  /\ exporters' = [a \in DOMAIN exporters' |-> exporters'[a]]
  /\ DOMAIN heap' = DOMAIN heap \cup {i}
  /\ \A j \in DOMAIN heap : heap'[j] = heap[j]
  /\ heap'[i] \in ExporterStats
  /\ heap'[i].counted = {} /\ heap'[i].lastSeen = worker[w].at
  /\ Turns(w, "decode", i)

\* OpenNew does just that.
LEMMA OpenNewFacts ==
  ASSUME TypeOK, HeapOK, NEW w \in Workers, worker[w].dgram \in Datagrams, OpenNew(w)
  PROVE  \E i \in Ids : Admits1(w, i)
  <1>k. PICK i, a, t : i = Fresh(DOMAIN heap) /\ a = From(w) /\ t = worker[w].at
    OBVIOUS
  <1>1. i \in Ids \ DOMAIN heap
    BY <1>k, HeapHasRoom DEF OpenNew
  <1>2. a \in Addresses \ DOMAIN exporters
    BY <1>k, ExportersAssumption DEF OpenNew, From
  <1>3. exporters' = [x \in DOMAIN exporters \cup {a} |-> IF x = a THEN i ELSE exporters[x]]
    BY <1>k DEF OpenNew
  <1>4. heap' = [j \in DOMAIN heap \cup {i} |->
                   IF j = i THEN [counted |-> {}, lastSeen |-> t] ELSE heap[j]]
    BY <1>k DEF OpenNew
  <1>5. worker' = [worker EXCEPT ![w].pc = "decode", ![w].es = i]
    BY <1>k DEF OpenNew, Resolved
  <1>6. Turns(w, "decode", i)
    BY <1>1, <1>5, WorkerTurns
  <1>7. t \in Time
    BY <1>k DEF TypeOK, WorkerState
  <1>8. [counted |-> {}, lastSeen |-> t] \in ExporterStats
    BY <1>7 DEF ExporterStats
  <1>9. /\ DOMAIN exporters' = DOMAIN exporters \cup {a} /\ exporters'[a] = i
        /\ \A x \in DOMAIN exporters : exporters'[x] = exporters[x]
        /\ exporters' = [x \in DOMAIN exporters' |-> exporters'[x]]
    BY <1>2, <1>3
  <1>10. /\ DOMAIN heap' = DOMAIN heap \cup {i}
         /\ \A j \in DOMAIN heap : heap'[j] = heap[j]
         /\ heap'[i] = [counted |-> {}, lastSeen |-> t]
    BY <1>1, <1>4
  <1> QED
    BY <1>k, <1>1, <1>2, <1>6, <1>8, <1>9, <1>10 DEF Admits1

-----------------------------------------------------------------------------
(* Types, and what is reachable. *)

\* The device a worker handles is an address.
LEMMA FromIsAddress ==
  ASSUME TypeOK, DatagramsOK, NEW w \in Workers, worker[w].pc # "idle"
  PROVE  worker[w].dgram \in Datagrams /\ From(w) \in Addresses
  BY ExportersAssumption DEF TypeOK, DatagramsOK, From

\* A worker's step turns it to its next phase, or finishes its datagram.
LEMMA StepTurns ==
  ASSUME TypeOK, HeapOK, DatagramsOK, NEW w \in Workers
  PROVE  /\ Find(w) => \/ /\ From(w) \in DOMAIN exporters
                          /\ Turns(w, "stamp", exporters[From(w)])
                       \/ From(w) \notin DOMAIN exporters /\ Turns(w, "gate", worker[w].es)
         /\ Stamp(w) => Turns(w, "decode", worker[w].es)
         /\ Gate(w) => \/ Full(live) /\ Refuse(w) /\ Turns(w, "decode", None)
                       \/ /\ Turns(w, "open", worker[w].es)
                          /\ UNCHANGED <<exporters, heap, live, refused, histograms,
                                         sweeper, now, sent, gone>>
         /\ OpenPresent(w) => Turns(w, "decode", exporters[From(w)])
         /\ OpenRefused(w) => Turns(w, "decode", None)
         /\ Count(w) => Turns(w, "admit", None)
         /\ Admits(w) => \/ From(w) \in DOMAIN exporters /\ Turns(w, "observe", worker[w].es)
                         \/ Finishes(w)
         /\ Observe(w) => Finishes(w)
  <1>0. /\ worker \in [Workers -> WorkerState]
        /\ \A a \in DOMAIN exporters : exporters[a] \in Ids \cup {None}
    BY DEF TypeOK, HeapOK
  <1>1. ASSUME Find(w)
        PROVE  \/ /\ From(w) \in DOMAIN exporters
                  /\ Turns(w, "stamp", exporters[From(w)])
               \/ From(w) \notin DOMAIN exporters /\ Turns(w, "gate", worker[w].es)
    <2>1. CASE From(w) \in DOMAIN exporters
      <3>1. PICK es \in Ids \cup {None} : es = exporters[From(w)]
        BY <1>0, <2>1
      <3>2. worker' = [worker EXCEPT ![w].pc = "stamp", ![w].es = es]
        BY <1>1, <2>1, <3>1 DEF Find
      <3>3. Turns(w, "stamp", es)
        BY <3>2, WorkerTurns
      <3> QED
        BY <2>1, <3>1, <3>3 DEF Turns
    <2>2. CASE From(w) \notin DOMAIN exporters
      <3>1. Go(w, "gate")
        BY <1>1, <2>2 DEF Find, Go
      <3> QED
        BY <2>2, <3>1, WorkerTurns
    <2> QED
      BY <2>1, <2>2
  <1>2. Stamp(w) => Turns(w, "decode", worker[w].es)
    BY WorkerTurns DEF Stamp
  <1>3. Refuse(w) => Turns(w, "decode", None)
    BY WorkerTurns DEF Refuse, Resolved
  <1>4. ASSUME Gate(w)
        PROVE  \/ Full(live) /\ Refuse(w) /\ Turns(w, "decode", None)
               \/ /\ Turns(w, "open", worker[w].es)
                  /\ UNCHANGED <<exporters, heap, live, refused, histograms,
                                 sweeper, now, sent, gone>>
    BY <1>3, <1>4, WorkerTurns DEF Gate
  <1>5. ASSUME OpenPresent(w) PROVE Turns(w, "decode", exporters[From(w)])
    <2>1. PICK es \in Ids \cup {None} : es = exporters[From(w)]
      BY <1>0, <1>5 DEF OpenPresent
    <2>2. worker' = [worker EXCEPT ![w].pc = "decode", ![w].es = es]
      BY <1>5, <2>1 DEF OpenPresent, Resolved
    <2>3. Turns(w, "decode", es)
      BY <2>2, WorkerTurns
    <2> QED
      BY <2>1, <2>3 DEF Turns
  <1>6. OpenRefused(w) => Turns(w, "decode", None)
    BY <1>3 DEF OpenRefused
  <1>7. Count(w) => Turns(w, "admit", None)
    BY WorkerTurns DEF Count
  <1>8. Admits(w) => \/ From(w) \in DOMAIN exporters /\ Turns(w, "observe", worker[w].es)
                     \/ Finishes(w)
    BY WorkerTurns DEF Admits
  <1>9. Observe(w) => Finishes(w)
    BY WorkerTurns DEF Observe
  <1> QED
    BY <1>1, <1>2, <1>4, <1>5, <1>6, <1>7, <1>8, <1>9

\* No worker's step breaks a type.
LEMMA StepTypeOK ==
  ASSUME TypeOK, HeapOK, DatagramsOK, BudgetOK, NEW w \in Workers, Step(w)
  PROVE  TypeOK'
  <1> USE DEF TypeOK
  <1>0. worker[w].pc # "idle" => worker[w].dgram \in Datagrams /\ From(w) \in Addresses
    BY FromIsAddress
  <1>t. worker[w].at \in Time
    BY DEF WorkerState
  <1>1. CASE Find(w)
    <2>1. worker' \in [Workers -> WorkerState]
      BY <1>1, StepTurns DEF Turns
    <2> QED
      BY <1>1, <2>1 DEF Find, Range
  <1>2. CASE Stamp(w)
    <2>1. worker' \in [Workers -> WorkerState]
      BY <1>2, StepTurns DEF Turns
    <2>2. PICK i, t : i = worker[w].es /\ t = worker[w].at
      OBVIOUS
    <2>3. i \in DOMAIN heap
      BY <1>2, <2>2 DEF Stamp, HeapOK
    <2>4. Stamps(i, t)
      BY <1>2, <1>t, <2>2, <2>3, StampFacts DEF Stamp
    <2> QED
      BY <1>2, <2>1, <2>4 DEF Stamp, Stamps, Range
  <1>3. CASE Gate(w)
    <2>1. worker' \in [Workers -> WorkerState]
      BY <1>3, StepTurns DEF Turns
    <2> QED
      BY <1>0, <1>3, <2>1 DEF Gate, Refuse, Range
  <1>4. CASE OpenPresent(w)
    <2>1. worker' \in [Workers -> WorkerState]
      BY <1>4, StepTurns DEF Turns
    <2>2. PICK i, t : i = exporters[From(w)] /\ t = worker[w].at
      OBVIOUS
    <2>3. i \in DOMAIN heap
      BY <1>4, <2>2 DEF OpenPresent, Range
    <2>4. Stamps(i, t)
      BY <1>4, <1>t, <2>2, <2>3, StampFacts DEF OpenPresent
    <2> QED
      BY <1>4, <2>1, <2>4 DEF OpenPresent, Stamps, Range
  <1>5. CASE OpenRefused(w)
    <2>1. worker' \in [Workers -> WorkerState]
      BY <1>5, StepTurns DEF Turns
    <2> QED
      BY <1>0, <1>5, <2>1 DEF OpenRefused, Refuse, Range
  <1>6. CASE OpenNew(w)
    <2>1. PICK i \in Ids : Admits1(w, i)
      BY <1>0, <1>6, OpenNewFacts DEF OpenNew
    <2>2. /\ DOMAIN exporters' \subseteq Addresses /\ DOMAIN heap' \subseteq Ids
          /\ \A j \in DOMAIN heap' : heap'[j] \in ExporterStats
          /\ worker' \in [Workers -> WorkerState]
      BY <2>1 DEF Admits1, Turns
    <2>3. Range(exporters') \subseteq DOMAIN heap'
      BY <2>1 DEF Admits1, Range
    <2>4. live' \in 0..MaxExporters
      <3>1. /\ live' = Cardinality(DOMAIN exporters \cup {From(w)})
            /\ ~Full(Cardinality(DOMAIN exporters)) /\ From(w) \notin DOMAIN exporters
        BY <1>6 DEF OpenNew
      <3>2. /\ live' = Cardinality(DOMAIN exporters) + 1
            /\ Cardinality(DOMAIN exporters) \in Nat
        BY <3>1, FS_AddElement, FS_CardinalityType DEF HeapOK
      <3> QED
        BY <3>1, <3>2, ExportersAssumption DEF Full
    <2> QED
      BY <1>6, <2>2, <2>3, <2>4 DEF OpenNew
  <1>7. CASE Count(w)
    <2>1. worker' \in [Workers -> WorkerState]
      BY <1>7, StepTurns DEF Turns
    <2>2. Counts(w)
      BY <1>0, <1>7, CountFacts DEF Count
    <2>3. exporters' = exporters
      BY <1>7 DEF Count
    <2>4. /\ DOMAIN heap' \subseteq Ids /\ Range(exporters') \subseteq DOMAIN heap'
          /\ \A i \in DOMAIN heap' : heap'[i] \in ExporterStats
      BY <2>2, <2>3 DEF Counts
    <2> QED
      BY <1>7, <2>1, <2>3, <2>4 DEF Count
  <1>8. CASE Admits(w)
    <2>1. worker' \in [Workers -> WorkerState]
      BY <1>8, StepTurns DEF Turns, Finishes
    <2> QED
      BY <1>8, <2>1 DEF Admits, Range
  <1>9. CASE Observe(w)
    <2>1. worker' \in [Workers -> WorkerState]
      BY <1>9, StepTurns DEF Finishes
    <2> QED
      BY <1>0, <1>9, <2>1 DEF Observe, Range
  <1> QED
    BY <1>1, <1>2, <1>3, <1>4, <1>5, <1>6, <1>7, <1>8, <1>9 DEF Step

\* What goes with an eviction, element by element.
LEMMA LostFacts ==
  ASSUME NEW d
  PROVE  d \in Lost <=> \/ \E a \in Silent : d \in heap[exporters[a]].counted
                        \/ \E w \in Workers, a \in Silent :
                             worker[w].es = exporters[a] /\ d = worker[w].dgram
  <1> DEFINE C == UNION {heap[exporters[a]].counted : a \in Silent}
             V == {v \in Workers : \E a \in Silent : worker[v].es = exporters[a]}
             H == {worker[w].dgram : w \in V}
  <1>1. d \in C <=> \E a \in Silent : d \in heap[exporters[a]].counted
    OBVIOUS
  <1>2. d \in H <=> \E w \in V : d = worker[w].dgram
    OBVIOUS
  <1>3. Lost = C \cup H
    BY Zenon DEF Lost
  <1> HIDE DEF C, H
  <1> QED
    BY <1>1, <1>2, <1>3

\* What a sweep leaves: the devices not silent, and the objects still reachable.
Evicts ==
  /\ DOMAIN exporters' = DOMAIN exporters \ Silent
  /\ \A a \in DOMAIN exporters' : exporters'[a] = exporters[a]
  /\ exporters' = [a \in DOMAIN exporters' |-> exporters'[a]]
  /\ DOMAIN heap' = DOMAIN heap \cap
                      (Range(exporters') \cup {worker[w].es : w \in Workers})
  /\ \A i \in DOMAIN heap' : heap'[i] = heap[i]
  /\ sweeper'.pc = "forget" /\ sweeper'.cutoff = -TTL /\ sweeper'.evicted = Silent

\* Evict does just that.
LEMMA EvictFacts ==
  ASSUME Evict
  PROVE  Evicts
  <1>1. worker' = worker
    BY DEF Evict
  <1>2. /\ DOMAIN heap' = DOMAIN heap \cap
                            (Range(exporters') \cup {worker[w].es : w \in Workers})
        /\ \A i \in DOMAIN heap' : heap'[i] = heap[i]
    BY <1>1 DEF Evict, Keep, Restrict
  <1>3. /\ DOMAIN exporters' = DOMAIN exporters \ Silent
        /\ \A a \in DOMAIN exporters' : exporters'[a] = exporters[a]
        /\ exporters' = [a \in DOMAIN exporters' |-> exporters'[a]]
    BY DEF Evict, Restrict
  <1>4. sweeper'.pc = "forget" /\ sweeper'.cutoff = -TTL /\ sweeper'.evicted = Silent
    BY DEF Evict
  <1> QED
    BY <1>2, <1>3, <1>4 DEF Evicts

\* No step breaks a type.
LEMMA NextTypeOK ==
  ASSUME TypeOK, HeapOK, DatagramsOK, BudgetOK, [Next]_vars
  PROVE  TypeOK'
  <1> USE DEF TypeOK
  <1>a. now \in Int /\ TTL \in Int /\ MaxTime \in Int
    BY ExportersAssumption DEF Time
  <1>0. \A w \in Workers : worker[w].pc # "idle" => worker[w].dgram \in Datagrams
    BY DEF DatagramsOK
  <1>1. CASE Tick
    <2>1. now' \in Time
      BY <1>1, ExportersAssumption DEF Tick, Time
    <2> QED
      BY <1>1, <2>1 DEF Tick, Range
  <1>2. ASSUME NEW w \in Workers, NEW d \in Datagrams, Decode(w, d) PROVE TypeOK'
    <2>1. worker' \in [Workers -> WorkerState]
      BY <1>2, DecodeTurns
    <2> QED
      BY <1>2, <2>1 DEF Decode, Range
  <1>3. ASSUME NEW w \in Workers, Step(w) PROVE TypeOK'
    BY <1>3, StepTypeOK
  <1>4. CASE SweepTick \/ SweepGate \/ SweepEnd \/ \E a \in Addresses : Forget(a)
    <2>1. sweeper' \in SweeperState
      <3>1. CASE SweepTick
        <4>1. PICK c \in Int : c = now - TTL
          BY <1>a
        <4>2. sweeper' = [sweeper EXCEPT !.pc = "gate", !.cutoff = c]
          BY <3>1, <4>1 DEF SweepTick
        <4> QED
          BY <4>1, <4>2 DEF SweeperState
      <3>2. CASE SweepGate
        <4>1. CASE Full(live)
          <5>1. sweeper' = [sweeper EXCEPT !.pc = "lock", !.cutoff = @]
            BY <3>2, <4>1 DEF SweepGate
          <5> QED
            BY <5>1 DEF SweeperState
        <4>2. CASE ~Full(live)
          <5>1. PICK c \in Int : c = -TTL
            BY <1>a
          <5>2. sweeper' = [sweeper EXCEPT !.pc = "idle", !.cutoff = c]
            BY <3>2, <4>2, <5>1 DEF SweepGate
          <5> QED
            BY <5>2 DEF SweeperState
        <4> QED
          BY <4>1, <4>2
      <3>3. CASE SweepEnd
        BY <3>3 DEF SweepEnd, SweeperState
      <3>4. CASE \E a \in Addresses : Forget(a)
        BY <3>4 DEF Forget, SweeperState
      <3> QED
        BY <1>4, <3>1, <3>2, <3>3, <3>4
    <2> QED
      BY <1>4, <2>1 DEF SweepTick, SweepGate, SweepEnd, Forget, Range
  <1>5. CASE Evict
    <2>1. Evicts
      BY <1>5, EvictFacts
    <2>2. /\ DOMAIN exporters' \subseteq Addresses /\ DOMAIN heap' \subseteq Ids
          /\ \A i \in DOMAIN heap' : heap'[i] \in ExporterStats
          /\ Range(exporters') \subseteq DOMAIN heap'
      BY <2>1 DEF Evicts, Range
    <2>3. Silent \subseteq Addresses /\ -TTL \in Int
      BY <1>a DEF Silent
    <2>4. sweeper' \in SweeperState
      BY <1>5, <2>3 DEF Evict, SweeperState
    <2>5. live' \in 0..MaxExporters
      <3>1. live' = Cardinality(DOMAIN exporters \ Silent)
        BY <1>5 DEF Evict
      <3>2. /\ Cardinality(DOMAIN exporters \ Silent) <= Cardinality(DOMAIN exporters)
            /\ Cardinality(DOMAIN exporters \ Silent) \in Nat
            /\ Cardinality(DOMAIN exporters) \in Nat
        BY FS_Subset, FS_CardinalityType DEF HeapOK
      <3> QED
        BY <3>1, <3>2, ExportersAssumption DEF BudgetOK
    <2>6. gone' \subseteq Datagrams
      <3>1. \A a \in Silent : heap[exporters[a]].counted \subseteq Datagrams
        BY DEF Silent, Range, ExporterStats
      <3>2. \A a \in DOMAIN exporters : exporters[a] # None
        BY ExportersAssumption DEF Range
      <3>3. \A w \in Workers, a \in Silent : worker[w].es = exporters[a] =>
              worker[w].dgram \in Datagrams
        BY <1>0, <3>2 DEF HeapOK, Silent
      <3>4. Lost \subseteq Datagrams
        BY <3>1, <3>3, LostFacts
      <3> QED
        BY <1>5, <3>4 DEF Evict
    <2> QED
      BY <1>5, <2>2, <2>4, <2>5, <2>6 DEF Evict
  <1>6. CASE UNCHANGED vars
    BY <1>6 DEF vars, Range
  <1> QED
    BY <1>1, <1>2, <1>3, <1>4, <1>5, <1>6 DEF Next, Sweep

\* A worker that resolves its device, or lets go of it, leaves the rest reachable.
LEMMA TurnsHeapOK ==
  ASSUME TypeOK, HeapOK, NEW w \in Workers, NEW pc, NEW es \in DOMAIN heap \cup {None},
         Turns(w, pc, es), exporters' = exporters, DOMAIN heap' = DOMAIN heap,
         worker[w].es \in {None, es},
         es # None => pc \in {"stamp", "decode"},
         pc = "stamp" => es # None,
         \A a \in DOMAIN exporters : es = exporters[a] => a = From(w)
  PROVE  HeapOK'
  <1>1. None \notin DOMAIN heap
    BY ExportersAssumption DEF TypeOK
  <1>2. /\ IsFiniteSet(DOMAIN exporters')
        /\ exporters' \in [DOMAIN exporters' -> Ids]
        /\ \A a, b \in DOMAIN exporters' : exporters'[a] = exporters'[b] => a = b
    BY DEF HeapOK
  <1>3. DOMAIN heap' \subseteq Range(exporters') \cup {worker'[v].es : v \in Workers}
    <2> SUFFICES ASSUME NEW i \in DOMAIN heap, i \notin Range(exporters)
                 PROVE  \E v \in Workers : worker'[v].es = i
      OBVIOUS
    <2>1. PICK v \in Workers : worker[v].es = i
      BY DEF HeapOK
    <2>2. CASE v = w
      BY <1>1, <2>1, <2>2 DEF Turns
    <2>3. CASE v # w
      BY <2>1, <2>3 DEF Turns, Others
    <2> QED
      BY <2>2, <2>3
  <1>4. ASSUME NEW v \in Workers
        PROVE  /\ worker'[v].es # None =>
                    worker'[v].es \in DOMAIN heap' /\ worker'[v].pc \in {"stamp", "decode"}
               /\ worker'[v].pc = "stamp" => worker'[v].es # None
               /\ \A a \in DOMAIN exporters' : worker'[v].es = exporters'[a] => a = From(v)'
    <2>1. CASE v = w
      BY <2>1 DEF Turns, From
    <2>2. CASE v # w
      BY <2>2 DEF Turns, Others, HeapOK, From
    <2> QED
      BY <2>1, <2>2
  <1> QED
    BY <1>2, <1>3, <1>4 DEF HeapOK

\* A worker that has finished resolves nothing, nor does one that starts.
LEMMA UnresolvedHeapOK ==
  ASSUME TypeOK, HeapOK, NEW w \in Workers, Others(w),
         worker[w].es = None, worker'[w].es = None, worker'[w].pc # "stamp",
         exporters' = exporters, heap' = heap
  PROVE  HeapOK'
  <1>1. None \notin DOMAIN heap /\ None \notin Ids
    BY ExportersAssumption DEF TypeOK
  <1>2. DOMAIN heap' \subseteq Range(exporters') \cup {worker'[v].es : v \in Workers}
    <2> SUFFICES ASSUME NEW i \in DOMAIN heap, i \notin Range(exporters)
                 PROVE  \E v \in Workers : worker'[v].es = i
      OBVIOUS
    <2>1. PICK v \in Workers : worker[v].es = i
      BY DEF HeapOK
    <2> QED
      BY <1>1, <2>1 DEF Others
  <1>3. ASSUME NEW v \in Workers
        PROVE  /\ worker'[v].es # None =>
                    worker'[v].es \in DOMAIN heap' /\ worker'[v].pc \in {"stamp", "decode"}
               /\ worker'[v].pc = "stamp" => worker'[v].es # None
               /\ \A a \in DOMAIN exporters' : worker'[v].es = exporters'[a] => a = From(v)'
    <2>1. CASE v = w
      BY <1>1, <2>1 DEF HeapOK
    <2>2. CASE v # w
      BY <2>2 DEF Others, HeapOK, From
    <2> QED
      BY <2>1, <2>2
  <1>4. /\ IsFiniteSet(DOMAIN exporters')
        /\ exporters' \in [DOMAIN exporters' -> Ids]
        /\ \A a, b \in DOMAIN exporters' : exporters'[a] = exporters'[b] => a = b
    BY DEF HeapOK
  <1> QED
    BY <1>2, <1>3, <1>4 DEF HeapOK

\* Admitting a device makes one object reachable, from its table and its worker.
LEMMA AdmitHeapOK ==
  ASSUME TypeOK, HeapOK, NEW w \in Workers, worker[w].es = None,
         NEW i \in Ids, Admits1(w, i)
  PROVE  HeapOK'
  <1>1. None \notin DOMAIN heap /\ None \notin Ids /\ i \notin DOMAIN heap
    BY ExportersAssumption DEF TypeOK, Admits1
  <1>2. \A a \in DOMAIN exporters : exporters[a] \in DOMAIN heap
    BY DEF TypeOK, Range
  <1>3. IsFiniteSet(DOMAIN exporters')
    BY FS_AddElement DEF HeapOK, Admits1
  <1>4. exporters' \in [DOMAIN exporters' -> Ids]
    <2>1. \A a \in DOMAIN exporters' : exporters'[a] \in Ids
      BY <1>2 DEF Admits1, TypeOK
    <2>2. exporters' = [a \in DOMAIN exporters' |-> exporters'[a]]
      BY DEF Admits1
    <2> QED
      BY <2>1, <2>2
  <1>5. DOMAIN heap' \subseteq Range(exporters') \cup {worker'[v].es : v \in Workers}
    <2> SUFFICES ASSUME NEW j \in DOMAIN heap', \A v \in Workers : worker'[v].es # j
                 PROVE  \E a \in DOMAIN exporters' : exporters'[a] = j
      BY DEF Range
    <2>1. CASE j = i
      BY <2>1 DEF Admits1
    <2>2. CASE j # i
      <3>1. j \in DOMAIN heap
        BY <2>2 DEF Admits1
      <3>2. \A v \in Workers : worker[v].es # j
        BY <1>1, <3>1 DEF Admits1, Turns, Others
      <3>3. PICK a \in DOMAIN exporters : exporters[a] = j
        BY <3>1, <3>2 DEF HeapOK, Range
      <3> QED
        BY <3>3 DEF Admits1
    <2> QED
      BY <2>1, <2>2
  <1>6. \A a, b \in DOMAIN exporters' : exporters'[a] = exporters'[b] => a = b
    BY <1>1, <1>2 DEF Admits1, HeapOK
  <1>7. ASSUME NEW v \in Workers
        PROVE  /\ worker'[v].es # None =>
                    worker'[v].es \in DOMAIN heap' /\ worker'[v].pc \in {"stamp", "decode"}
               /\ worker'[v].pc = "stamp" => worker'[v].es # None
               /\ \A a \in DOMAIN exporters' : worker'[v].es = exporters'[a] => a = From(v)'
    <2>1. CASE v = w
      <3>1. worker'[v].es = i /\ worker'[v].pc = "decode" /\ From(v)' = From(w)
        BY <2>1 DEF Admits1, Turns, From
      <3>2. \A a \in DOMAIN exporters' : i = exporters'[a] => a = From(w)
        BY <1>1, <1>2 DEF Admits1
      <3> QED
        BY <3>1, <3>2 DEF Admits1
    <2>2. CASE v # w
      <3>1. worker'[v] = worker[v] /\ From(v)' = From(v)
        BY <2>2 DEF Admits1, Turns, Others, From
      <3>2. worker[v].es # i
        BY <1>1 DEF HeapOK
      <3>3. \A a \in DOMAIN exporters' : worker[v].es = exporters'[a] => a = From(v)
        BY <3>2 DEF Admits1, HeapOK
      <3>4. worker[v].es # None =>
              worker[v].es \in DOMAIN heap' /\ worker[v].pc \in {"stamp", "decode"}
        BY DEF HeapOK, Admits1
      <3>5. worker[v].pc = "stamp" => worker[v].es # None
        BY DEF HeapOK
      <3> QED
        BY <3>1, <3>3, <3>4, <3>5
    <2> QED
      BY <2>1, <2>2
  <1> QED
    BY <1>3, <1>4, <1>5, <1>6, <1>7 DEF HeapOK

\* Counting lets go of the worker's resolution, and keeps the rest.
LEMMA CountHeapOK ==
  ASSUME TypeOK, HeapOK, NEW w \in Workers, worker[w].dgram \in Datagrams, Count(w)
  PROVE  HeapOK'
  <1>1. /\ exporters' = exporters /\ Counts(w) /\ Turns(w, "admit", None)
    BY CountFacts, WorkerTurns DEF Count
  <1>2. None \notin DOMAIN heap /\ None \notin Ids
    BY ExportersAssumption DEF TypeOK
  <1>3. /\ IsFiniteSet(DOMAIN exporters')
        /\ exporters' \in [DOMAIN exporters' -> Ids]
        /\ \A a, b \in DOMAIN exporters' : exporters'[a] = exporters'[b] => a = b
    BY <1>1 DEF HeapOK
  <1>4. DOMAIN heap' \subseteq Range(exporters') \cup {worker'[v].es : v \in Workers}
    BY <1>1 DEF Counts
  <1>5. ASSUME NEW v \in Workers
        PROVE  /\ worker'[v].es # None =>
                    worker'[v].es \in DOMAIN heap' /\ worker'[v].pc \in {"stamp", "decode"}
               /\ worker'[v].pc = "stamp" => worker'[v].es # None
               /\ \A a \in DOMAIN exporters' : worker'[v].es = exporters'[a] => a = From(v)'
    <2>1. CASE v = w
      BY <1>1, <1>2, <2>1 DEF Turns, HeapOK
    <2>2. CASE v # w
      <3>1. worker'[v] = worker[v] /\ From(v)' = From(v)
        BY <1>1, <2>2 DEF Turns, Others, From
      <3>2. worker'[v].es # None => worker'[v].es \in DOMAIN heap'
        BY <1>1, <3>1 DEF HeapOK, Counts
      <3> QED
        BY <1>1, <3>1, <3>2 DEF HeapOK
    <2> QED
      BY <2>1, <2>2
  <1> QED
    BY <1>3, <1>4, <1>5 DEF HeapOK

\* A sweep leaves reachable what its devices and the workers still reach.
LEMMA EvictHeapOK ==
  ASSUME HeapOK, Evict
  PROVE  HeapOK'
  <1>1. Evicts /\ worker' = worker
    BY EvictFacts DEF Evict
  <1>2. IsFiniteSet(DOMAIN exporters')
    BY <1>1, FS_Subset DEF HeapOK, Evicts
  <1>3. exporters' \in [DOMAIN exporters' -> Ids]
    BY <1>1 DEF HeapOK, Evicts
  <1>4. \A a, b \in DOMAIN exporters' : exporters'[a] = exporters'[b] => a = b
    BY <1>1 DEF HeapOK, Evicts
  <1>5. DOMAIN heap' \subseteq Range(exporters') \cup {worker'[w].es : w \in Workers}
    BY <1>1 DEF Evicts
  <1>6. ASSUME NEW w \in Workers
        PROVE  /\ worker'[w].es # None =>
                    worker'[w].es \in DOMAIN heap' /\ worker'[w].pc \in {"stamp", "decode"}
               /\ worker'[w].pc = "stamp" => worker'[w].es # None
               /\ \A a \in DOMAIN exporters' : worker'[w].es = exporters'[a] => a = From(w)'
    BY <1>1 DEF HeapOK, Evicts, From
  <1> QED
    BY <1>2, <1>3, <1>4, <1>5, <1>6 DEF HeapOK

\* No step leaves an unreachable object, or lets go of a reachable one.
LEMMA NextHeapOK ==
  ASSUME TypeOK, HeapOK, DatagramsOK, [Next]_vars
  PROVE  HeapOK'
  <1>n. None \notin DOMAIN heap /\ None \notin Ids
    BY ExportersAssumption DEF TypeOK
  <1>h. /\ \A a \in DOMAIN exporters : exporters[a] \in DOMAIN heap
        /\ \A a, b \in DOMAIN exporters : exporters[a] = exporters[b] => a = b
        /\ \A v \in Workers : worker[v].es # None => worker[v].es \in DOMAIN heap
        /\ \A v \in Workers : worker[v].pc \notin {"stamp", "decode"} => worker[v].es = None
        /\ \A v \in Workers, a \in DOMAIN exporters :
             worker[v].es = exporters[a] => a = From(v)
    BY DEF TypeOK, HeapOK, Range
  <1>1. ASSUME NEW w \in Workers, Find(w) PROVE HeapOK'
    <2>1. worker[w].es = None /\ exporters' = exporters /\ heap' = heap
      BY <1>h, <1>1 DEF Find
    <2>2. CASE From(w) \in DOMAIN exporters
      <3>1. PICK es \in DOMAIN heap : es = exporters[From(w)]
        BY <1>h, <2>2
      <3>2. Turns(w, "stamp", es)
        BY <1>1, <2>2, <3>1, StepTurns DEF Turns
      <3> QED
        BY <1>h, <1>n, <2>1, <2>2, <3>1, <3>2, TurnsHeapOK
    <2>3. CASE From(w) \notin DOMAIN exporters
      <3>1. Turns(w, "gate", None)
        BY <1>1, <2>1, <2>3, StepTurns DEF Turns
      <3> QED
        BY <1>h, <1>n, <2>1, <3>1, TurnsHeapOK
    <2> QED
      BY <2>2, <2>3
  <1>2. ASSUME NEW w \in Workers, Stamp(w) PROVE HeapOK'
    <2>1. PICK es \in DOMAIN heap : es = worker[w].es
      BY <1>2 DEF Stamp, HeapOK
    <2>2. Turns(w, "decode", es)
      BY <1>2, <2>1, StepTurns DEF Turns
    <2>3. exporters' = exporters /\ DOMAIN heap' = DOMAIN heap
      BY <1>2 DEF Stamp
    <2> QED
      BY <1>h, <2>1, <2>2, <2>3, TurnsHeapOK
  <1>3. ASSUME NEW w \in Workers, Gate(w) PROVE HeapOK'
    <2>1. /\ worker[w].es = None /\ exporters' = exporters /\ heap' = heap
          /\ \A a \in DOMAIN exporters : exporters[a] # None
      BY <1>h, <1>n, <1>3 DEF Gate, Refuse
    <2>2. Turns(w, "decode", None) \/ Turns(w, "open", None)
      BY <1>3, <2>1, StepTurns DEF Turns
    <2> QED
      BY <2>1, <2>2, TurnsHeapOK
  <1>4. ASSUME NEW w \in Workers, OpenPresent(w) PROVE HeapOK'
    <2>1. PICK es \in DOMAIN heap : es = exporters[From(w)]
      BY <1>h, <1>4 DEF OpenPresent
    <2>2. Turns(w, "decode", es)
      BY <1>4, <2>1, StepTurns DEF Turns
    <2>3. /\ worker[w].es = None /\ exporters' = exporters /\ DOMAIN heap' = DOMAIN heap
          /\ From(w) \in DOMAIN exporters
      BY <1>h, <1>4 DEF OpenPresent
    <2> QED
      BY <1>h, <2>1, <2>2, <2>3, TurnsHeapOK
  <1>5. ASSUME NEW w \in Workers, OpenRefused(w) PROVE HeapOK'
    <2>1. /\ worker[w].es = None /\ exporters' = exporters /\ heap' = heap
          /\ \A a \in DOMAIN exporters : exporters[a] # None
      BY <1>h, <1>n, <1>5 DEF OpenRefused, Refuse
    <2>2. Turns(w, "decode", None)
      BY <1>5, StepTurns
    <2> QED
      BY <2>1, <2>2, TurnsHeapOK
  <1>6. ASSUME NEW w \in Workers, OpenNew(w) PROVE HeapOK'
    <2>1. worker[w].es = None /\ worker[w].dgram \in Datagrams
      BY <1>h, <1>6, FromIsAddress DEF OpenNew
    <2>2. PICK i \in Ids : Admits1(w, i)
      BY <1>6, <2>1, OpenNewFacts
    <2> QED
      BY <2>1, <2>2, AdmitHeapOK
  <1>7. ASSUME NEW w \in Workers, Count(w) PROVE HeapOK'
    <2>1. worker[w].dgram \in Datagrams
      BY <1>7, FromIsAddress DEF Count
    <2> QED
      BY <1>7, <2>1, CountHeapOK
  <1>8. ASSUME NEW w \in Workers, Admits(w) \/ Observe(w) PROVE HeapOK'
    <2>1. worker[w].es = None /\ exporters' = exporters /\ heap' = heap
      BY <1>h, <1>8 DEF Admits, Observe
    <2>2. Turns(w, "observe", None) \/ Finishes(w)
      BY <1>8, <2>1, StepTurns DEF Turns
    <2>3. Others(w) /\ worker'[w].es = None /\ worker'[w].pc # "stamp"
      BY <2>2 DEF Turns, Finishes
    <2> QED
      BY <2>1, <2>3, UnresolvedHeapOK
  <1>9. ASSUME NEW w \in Workers, NEW d \in Datagrams, Decode(w, d) PROVE HeapOK'
    <2>1. worker[w].es = None /\ exporters' = exporters /\ heap' = heap
      BY <1>h, <1>9 DEF Decode
    <2>2. Others(w) /\ worker'[w].es = None /\ worker'[w].pc # "stamp"
      BY <1>9, <2>1, DecodeTurns
    <2> QED
      BY <2>1, <2>2, UnresolvedHeapOK
  <1>10. CASE UNCHANGED <<exporters, heap, worker>>
    BY <1>10 DEF HeapOK, From, Range
  <1>11. CASE Evict
    BY <1>11, EvictHeapOK
  <1> QED
    BY <1>1, <1>2, <1>3, <1>4, <1>5, <1>6, <1>7, <1>8, <1>9, <1>10, <1>11
    DEF Next, Step, Sweep, Tick, SweepTick, SweepGate, SweepEnd, Forget, vars

-----------------------------------------------------------------------------
(* Whose datagram it is, the budget, and the clock. *)

\* No step hands a datagram to two workers.
LEMMA NextDatagramsOK ==
  ASSUME TypeOK, HeapOK, DatagramsOK, [Next]_vars
  PROVE  DatagramsOK'
  <1>1. ASSUME NEW w \in Workers, Step(w) PROVE DatagramsOK'
    <2>1. sent' = sent /\ worker[w].pc # "idle"
      BY <1>1 DEF Step, Find, Stamp, Gate, OpenPresent, OpenRefused, OpenNew, Count, Admits,
                  Observe, Refuse
    <2>2. OpenNew(w) => \E i \in Ids : Admits1(w, i)
      BY <2>1, OpenNewFacts, FromIsAddress
    <2>3. (\E pc, es : Turns(w, pc, es)) \/ Finishes(w)
      BY <1>1, <2>2, StepTurns DEF Step, Admits1
    <2>4. Others(w) /\ (worker'[w].pc # "idle" => worker'[w].dgram = worker[w].dgram)
      BY <2>3 DEF Turns, Finishes
    <2> QED
      BY <2>1, <2>4 DEF DatagramsOK, Others, From
  <1>2. ASSUME NEW w \in Workers, NEW d \in Datagrams, Decode(w, d) PROVE DatagramsOK'
    <2>1. Others(w) /\ worker'[w].dgram = d
      BY <1>2, DecodeTurns
    <2>2. sent' = sent \cup {d} /\ d \notin sent /\ SourceOf[d] \in Feeds[w]
      BY <1>2 DEF Decode
    <2> QED
      BY <2>1, <2>2 DEF DatagramsOK, Others, From
  <1>3. CASE UNCHANGED <<worker, sent>>
    BY <1>3 DEF DatagramsOK, From
  <1> QED
    BY <1>1, <1>2, <1>3
    DEF Next, Sweep, Tick, SweepTick, SweepGate, Evict, SweepEnd, Forget, vars

\* The mirror is moved whenever the map is.
LEMMA NextBudgetOK ==
  ASSUME TypeOK, HeapOK, BudgetOK, [Next]_vars
  PROVE  BudgetOK'
  <1>m. MaxExporters \in Nat /\ Cardinality(DOMAIN exporters) \in Nat
    BY ExportersAssumption, FS_CardinalityType DEF HeapOK
  <1>1. ASSUME NEW w \in Workers, OpenNew(w) PROVE BudgetOK'
    <2>1. /\ live' = Cardinality(DOMAIN exporters \cup {From(w)})
          /\ From(w) \notin DOMAIN exporters /\ ~Full(Cardinality(DOMAIN exporters))
          /\ DOMAIN exporters' = DOMAIN exporters \cup {From(w)} /\ sweeper' = sweeper
      BY <1>1 DEF OpenNew
    <2>2. live' = Cardinality(DOMAIN exporters) + 1
      BY <2>1, FS_AddElement DEF HeapOK
    <2> QED
      BY <1>m, <2>1, <2>2 DEF BudgetOK, Full
  <1>2. CASE Evict
    <2>1. live' = Cardinality(DOMAIN exporters') /\ sweeper'.pc # "lock"
      BY <1>2, EvictFacts DEF Evict, Evicts
    <2>2. DOMAIN exporters' \subseteq DOMAIN exporters
      BY <1>2, EvictFacts DEF Evicts
    <2>3. live' <= Cardinality(DOMAIN exporters) /\ live' \in Nat
      BY <2>1, <2>2, FS_Subset, FS_CardinalityType DEF HeapOK
    <2> QED
      BY <1>m, <2>1, <2>3 DEF BudgetOK
  <1>3. CASE UNCHANGED <<exporters, live, sweeper>>
    BY <1>3 DEF BudgetOK, Full
  <1>4. CASE SweepTick \/ SweepGate \/ SweepEnd \/ \E a \in Addresses : Forget(a)
    <2>1. sweeper'.pc = "lock" => Full(live)
      BY <1>4 DEF SweepTick, SweepGate, SweepEnd, Forget, TypeOK, SweeperState
    <2> QED
      BY <1>4, <2>1 DEF BudgetOK, Full, SweepTick, SweepGate, SweepEnd, Forget
  <1> QED
    BY <1>1, <1>2, <1>3, <1>4
    DEF Next, Step, Sweep, Tick, Decode, Find, Stamp, Gate, Refuse, OpenPresent, OpenRefused,
        Count, Admits, Observe, vars

\* The clock waits for a datagram under way.
LEMMA NextClockOK ==
  ASSUME TypeOK, HeapOK, DatagramsOK, ClockOK, [Next]_vars
  PROVE  ClockOK'
  <1>a. /\ TTL \in Nat /\ now \in Nat /\ sweeper.cutoff \in Int
        /\ \A v \in Workers : worker[v].at \in Nat
    BY ExportersAssumption DEF TypeOK, Time, SweeperState, WorkerState
  <1>1. CASE Tick
    BY <1>a, <1>1 DEF Tick, ClockOK
  <1>2. ASSUME NEW w \in Workers, Step(w) PROVE ClockOK'
    <2>1. now' = now /\ sweeper' = sweeper /\ worker[w].pc # "idle"
      BY <1>2 DEF Step, Find, Stamp, Gate, OpenPresent, OpenRefused, OpenNew, Count, Admits,
                  Observe, Refuse
    <2>2. OpenNew(w) => \E i \in Ids : Admits1(w, i)
      BY <2>1, OpenNewFacts, FromIsAddress
    <2>3. (\E pc, es : Turns(w, pc, es)) \/ Finishes(w)
      BY <1>2, <2>2, StepTurns DEF Step, Admits1
    <2>4. Others(w) /\ (worker'[w].pc # "idle" => worker'[w].at = worker[w].at)
      BY <2>3 DEF Turns, Finishes
    <2> QED
      BY <2>1, <2>4 DEF ClockOK, Others
  <1>3. ASSUME NEW w \in Workers, NEW d \in Datagrams, Decode(w, d) PROVE ClockOK'
    <2>1. Others(w) /\ worker'[w].at = now
      BY <1>3, DecodeTurns
    <2>2. now' = now /\ sweeper' = sweeper
      BY <1>3 DEF Decode
    <2> QED
      BY <1>a, <2>1, <2>2 DEF ClockOK, Others
  <1>4. CASE SweepTick \/ SweepGate \/ Evict \/ SweepEnd \/ \E a \in Addresses : Forget(a)
    <2>1. now' = now /\ worker' = worker
      BY <1>4 DEF SweepTick, SweepGate, Evict, SweepEnd, Forget
    <2>2. SweepTick => sweeper'.cutoff = now - TTL
      BY DEF SweepTick, TypeOK, SweeperState
    <2>3. SweepGate => sweeper'.cutoff = sweeper.cutoff \/ sweeper'.cutoff = -TTL
      BY DEF SweepGate, TypeOK, SweeperState
    <2>4. Evict => sweeper'.cutoff = -TTL
      BY DEF Evict
    <2>5. SweepEnd \/ (\E a \in Addresses : Forget(a)) => sweeper'.cutoff = sweeper.cutoff
      BY DEF SweepEnd, Forget, TypeOK, SweeperState
    <2>6. PICK c : c = sweeper'.cutoff
      OBVIOUS
    <2>7. c = sweeper.cutoff \/ c = now - TTL \/ c = -TTL
      BY <1>4, <2>2, <2>3, <2>4, <2>5, <2>6
    <2>8. c <= now - TTL
      BY <1>a, <2>7 DEF ClockOK
    <2> QED
      BY <2>1, <2>6, <2>8 DEF ClockOK
  <1>5. CASE UNCHANGED vars
    BY <1>5 DEF ClockOK, vars
  <1> QED
    BY <1>1, <1>2, <1>3, <1>4, <1>5 DEF Next, Sweep

-----------------------------------------------------------------------------
(* Where datagrams are counted. *)

\* The table's objects are allocated, and each is one device's.
LEMMA HeldObjects ==
  ASSUME TypeOK, HeapOK
  PROVE  /\ \A a \in DOMAIN exporters : exporters[a] \in DOMAIN heap /\ exporters[a] \in Ids
         /\ \A a \in DOMAIN exporters : heap[exporters[a]] \in ExporterStats
         /\ None \notin DOMAIN heap /\ None \notin Ids
  BY ExportersAssumption DEF TypeOK, HeapOK, Range

\* A worker's hold on its datagram is not disturbed by a step elsewhere.
LEMMA InHandKept ==
  ASSUME LedgerOK, NEW v \in Workers, worker'[v] = worker[v], Open(v),
         \A i \in DOMAIN heap' : worker[v].dgram \in heap'[i].counted =>
           i \in DOMAIN heap /\ worker[v].dgram \in heap[i].counted,
         worker[v].dgram \in refused' <=> worker[v].dgram \in refused,
         worker[v].dgram \in gone' <=> worker[v].dgram \in gone,
         Orphan(v)' <=> Orphan(v)
  PROVE  InHand(v)'
  <1>1. InHand(v)
    BY DEF LedgerOK
  <1> QED
    BY <1>1 DEF InHand

\* A step that counts nothing keeps the ledger.
LEMMA UncountedLedgerOK ==
  ASSUME LedgerOK, NEW w \in Workers, Others(w),
         sent' = sent, gone' = gone, refused' = refused,
         \A i \in DOMAIN heap' : \/ heap'[i].counted = {}
                                 \/ i \in DOMAIN heap /\ heap'[i].counted = heap[i].counted,
         \A a \in DOMAIN exporters' :
           \/ heap'[exporters'[a]].counted = {}
           \/ a \in DOMAIN exporters /\ heap'[exporters'[a]].counted = heap[exporters[a]].counted,
         \A v \in Workers : Orphan(v)' <=> Orphan(v),
         ~Open(w)'
           \/ /\ worker[w].pc \in {"find", "stamp", "gate", "open"}
              /\ worker'[w].dgram = worker[w].dgram
              /\ worker'[w].pc = "decode" => worker'[w].es # None
  PROVE  LedgerOK'
  <1>1. ASSUME NEW v \in Workers, Open(v)' PROVE InHand(v)'
    <2>1. CASE v = w
      <3>1. /\ worker'[v].dgram = worker[v].dgram /\ Open(v) /\ worker[v].pc # "decode"
            /\ worker'[v].pc = "decode" => worker'[v].es # None
        BY <1>1, <2>1 DEF Open
      <3>2. InHand(v)
        BY <3>1 DEF LedgerOK
      <3> QED
        BY <3>1, <3>2 DEF InHand
    <2>2. CASE v # w
      <3>1. worker'[v] = worker[v] /\ Open(v)
        BY <1>1, <2>2 DEF Others, Open
      <3> QED
        BY <3>1, InHandKept
    <2> QED
      BY <2>1, <2>2
  <1> QED
    BY <1>1 DEF LedgerOK

\* Turning to another phase, resolved to a device held or to nothing, orphans nobody.
LEMMA TurnsOrphans ==
  ASSUME TypeOK, HeapOK, exporters' = exporters, NEW w \in Workers, Others(w),
         \/ worker'[w].es = worker[w].es
         \/ /\ ~Orphan(w)
            /\ \/ worker'[w].es = None
               \/ \E a \in DOMAIN exporters : worker'[w].es = exporters[a]
  PROVE  \A v \in Workers : Orphan(v)' <=> Orphan(v)
  BY DEF Orphan, Others

\* A refusal refuses a datagram that no device has counted.
LEMMA RefuseLedgerOK ==
  ASSUME TypeOK, HeapOK, DatagramsOK, LedgerOK, NEW w \in Workers,
         worker[w].pc \in {"gate", "open"}, Refuse(w), Turns(w, "decode", None)
  PROVE  LedgerOK'
  <1>1. /\ refused' = refused \cup {worker[w].dgram}
        /\ UNCHANGED <<exporters, heap, sent, gone>>
    BY DEF Refuse
  <1>2. worker[w].es = None
    BY DEF HeapOK
  <1>3. InHand(w) /\ ~Orphan(w) /\ worker[w].dgram \in sent
    BY <1>2 DEF DatagramsOK, LedgerOK, Open, Orphan
  <1>4. /\ worker[w].dgram \notin gone
        /\ \A i \in DOMAIN heap : worker[w].dgram \notin heap[i].counted
    BY <1>3 DEF InHand
  <1>5. \A v \in Workers : Orphan(v)' <=> Orphan(v)
    BY <1>1, <1>2, TurnsOrphans DEF Turns
  <1>6. ASSUME NEW v \in Workers, Open(v)' PROVE InHand(v)'
    <2>1. CASE v = w
      <3>1. /\ worker'[w].dgram = worker[w].dgram
            /\ worker'[w].pc = "decode" /\ worker'[w].es = None
        BY DEF Turns
      <3> QED
        BY <1>1, <1>3, <1>4, <1>5, <2>1, <3>1 DEF InHand
    <2>2. CASE v # w
      <3>1. worker'[v] = worker[v] /\ Open(v) /\ worker[v].pc # "idle"
        BY <1>6, <2>2 DEF Turns, Others, Open
      <3>2. worker[v].dgram # worker[w].dgram
        BY <2>2, <3>1 DEF DatagramsOK
      <3> QED
        BY <1>1, <1>5, <3>1, <3>2, InHandKept
    <2> QED
      BY <2>1, <2>2
  <1> QED
    BY <1>1, <1>3, <1>4, <1>6 DEF LedgerOK

\* A datagram is counted into an object of its own device, once.
LEMMA CountLedgerOK ==
  ASSUME TypeOK, HeapOK, DatagramsOK, LedgerOK, NEW w \in Workers, Count(w)
  PROVE  LedgerOK'
  <1>1. worker[w].pc = "decode" /\ worker[w].dgram \in Datagrams /\ worker[w].dgram \in sent
    BY FromIsAddress DEF Count, DatagramsOK
  <1>2. /\ Counts(w) /\ Turns(w, "admit", None)
        /\ UNCHANGED <<exporters, refused, sent, gone>>
    BY <1>1, CountFacts, WorkerTurns DEF Count
  <1>k. PICK es, d : es = worker[w].es /\ d = worker[w].dgram
    OBVIOUS
  <1>m. InHand(w) /\ Open(w)
    BY <1>1 DEF LedgerOK, Open
  <1>3. /\ d \in sent
        /\ es # None => d \notin refused
        /\ \A a \in DOMAIN exporters : exporters[a] = es => SourceOf[d] = a /\ d \notin gone
    BY <1>k, <1>1, <1>m DEF InHand, Orphan, HeapOK, From
  <1>4. \A i \in DOMAIN heap' :
          /\ i \in DOMAIN heap
          /\ \/ heap'[i].counted = heap[i].counted
             \/ i = es /\ heap'[i].counted = heap[i].counted \cup {d}
    <2> TAKE i \in DOMAIN heap'
    <2>1. i \in DOMAIN heap
      BY <1>2 DEF Counts
    <2>2. heap'[i].counted = heap[i].counted \cup (IF i = es THEN {d} ELSE {})
      BY <1>k, <1>2 DEF Counts
    <2>3. CASE i = es
      BY <2>1, <2>2, <2>3
    <2>4. CASE i # es
      BY <2>1, <2>2, <2>4
    <2> QED
      BY <2>3, <2>4
  <1>5. None \notin DOMAIN heap /\ (es # None => es \in DOMAIN heap)
    BY <1>k, HeldObjects DEF HeapOK
  <1>6. \A i \in DOMAIN heap' : heap'[i].counted \subseteq sent' \ refused'
    BY <1>2, <1>3, <1>4, <1>5 DEF LedgerOK
  <1>7. \A a \in DOMAIN exporters' : exporters'[a] \in DOMAIN heap'
    BY <1>2, HeldObjects DEF Counts, Range
  <1>8. /\ \A a \in DOMAIN exporters' : \A e \in heap'[exporters'[a]].counted : SourceOf[e] = a
        /\ \A a \in DOMAIN exporters' : heap'[exporters'[a]].counted \cap gone' = {}
    BY <1>2, <1>3, <1>4, <1>7 DEF LedgerOK
  <1>9. ASSUME NEW v \in Workers, Open(v)' PROVE InHand(v)'
    <2>1. v # w
      BY <1>2, <1>9 DEF Turns, Open
    <2>2. worker'[v] = worker[v] /\ Open(v) /\ worker[v].pc # "idle"
      BY <1>2, <1>9, <2>1 DEF Turns, Others, Open
    <2>3. worker[v].dgram # d
      BY <1>1, <1>k, <2>1, <2>2 DEF DatagramsOK
    <2>4. Orphan(v)' <=> Orphan(v)
      BY <1>2, <2>2 DEF Orphan
    <2> QED
      BY <1>2, <1>4, <2>2, <2>3, <2>4, InHandKept
  <1> QED
    BY <1>2, <1>6, <1>8, <1>9 DEF LedgerOK

\* A sweep takes away with each silent device what was counted into it, and
\* what is in hand and resolved to it.
LEMMA EvictLedgerOK ==
  ASSUME TypeOK, HeapOK, DatagramsOK, LedgerOK, Evict
  PROVE  LedgerOK'
  <1>1. Evicts /\ UNCHANGED <<worker, refused, sent>> /\ gone' = gone \cup Lost
    BY EvictFacts DEF Evict
  <1>2. Silent \subseteq DOMAIN exporters
    BY DEF Silent
  <1>3. \A w \in Workers, a \in DOMAIN exporters : worker[w].es = exporters[a] =>
          Open(w) /\ worker[w].pc # "idle" /\ worker[w].es # None
    BY HeldObjects DEF HeapOK, Open
  <1>4. \A i \in DOMAIN heap' : i \in DOMAIN heap /\ heap'[i] = heap[i]
    BY <1>1 DEF Evicts
  <1>5. \A a \in DOMAIN exporters' :
          /\ a \in DOMAIN exporters \ Silent /\ exporters'[a] = exporters[a]
          /\ heap'[exporters'[a]] = heap[exporters[a]]
    BY <1>1, HeldObjects DEF Evicts, Range
  <1>6. ASSUME NEW d \in gone', d \notin gone
        PROVE  \/ \E a \in Silent : d \in heap[exporters[a]].counted
               \/ \E w \in Workers, a \in Silent : worker[w].es = exporters[a] /\ d = worker[w].dgram
    BY <1>1, <1>6, LostFacts
  <1>7. \A w \in Workers, a \in Silent : worker[w].es = exporters[a] =>
          /\ worker[w].dgram \in sent /\ worker[w].dgram \notin refused
          /\ \A i \in DOMAIN heap : worker[w].dgram \notin heap[i].counted
    <2> TAKE w \in Workers, a \in Silent
    <2> HAVE worker[w].es = exporters[a]
    <2>1. Open(w) /\ worker[w].pc # "idle" /\ worker[w].es # None
      BY <1>2, <1>3
    <2>2. InHand(w)
      BY <2>1 DEF LedgerOK
    <2> QED
      BY <2>1, <2>2 DEF InHand, DatagramsOK
  <1>8. gone' \subseteq sent' /\ gone' \cap refused' = {}
    <2> SUFFICES ASSUME NEW d \in gone' PROVE d \in sent /\ d \notin refused
      BY <1>1
    <2>1. CASE d \in gone
      BY <2>1 DEF LedgerOK
    <2>2. CASE \E a \in Silent : d \in heap[exporters[a]].counted
      BY <1>2, <2>2, HeldObjects DEF LedgerOK
    <2>3. CASE \E w \in Workers, a \in Silent : worker[w].es = exporters[a] /\ d = worker[w].dgram
      BY <1>7, <2>3
    <2> QED
      BY <1>6, <2>1, <2>2, <2>3
  <1>9. \A a \in DOMAIN exporters' : heap'[exporters'[a]].counted \cap gone' = {}
    <2> SUFFICES ASSUME NEW a \in DOMAIN exporters', NEW d \in gone',
                        d \in heap'[exporters'[a]].counted
                 PROVE  FALSE
      OBVIOUS
    <2>1. /\ d \in heap[exporters[a]].counted /\ a \in DOMAIN exporters \ Silent
          /\ exporters[a] \in DOMAIN heap
      BY <1>5, HeldObjects
    <2>2. SourceOf[d] = a /\ d \notin gone
      BY <2>1 DEF LedgerOK
    <2>3. CASE \E b \in Silent : d \in heap[exporters[b]].counted
      <3>1. PICK b \in Silent : d \in heap[exporters[b]].counted
        BY <2>3
      <3>2. SourceOf[d] = b
        BY <1>2, <3>1 DEF LedgerOK
      <3> QED
        BY <2>1, <2>2, <3>2
    <2>4. CASE \E w \in Workers, b \in Silent : worker[w].es = exporters[b] /\ d = worker[w].dgram
      BY <1>7, <2>1, <2>4
    <2> QED
      BY <1>6, <2>2, <2>3, <2>4
  <1>10. ASSUME NEW w \in Workers, Open(w)' PROVE InHand(w)'
    <2>1. Open(w) /\ worker' = worker /\ worker[w].pc # "idle"
      BY <1>1, <1>10 DEF Open
    <2>2. InHand(w)
      BY <2>1 DEF LedgerOK
    <2>3. ASSUME worker[w].dgram \in gone', worker[w].dgram \notin gone PROVE Orphan(w)'
      <3>1. ~ \E a \in Silent : worker[w].dgram \in heap[exporters[a]].counted
        BY <1>2, <2>2, HeldObjects DEF InHand
      <3>2. PICK v \in Workers, a \in Silent :
              worker[v].es = exporters[a] /\ worker[w].dgram = worker[v].dgram
        BY <1>6, <2>3, <3>1
      <3>3. v = w
        BY <1>2, <1>3, <2>1, <3>2 DEF DatagramsOK
      <3>4. \A b \in DOMAIN exporters' : exporters'[b] # worker[w].es
        BY <1>2, <1>5, <3>2, <3>3 DEF HeapOK
      <3> QED
        BY <1>2, <1>3, <2>1, <3>2, <3>3, <3>4 DEF Orphan
    <2>4. ASSUME Orphan(w)', ~Orphan(w) PROVE worker[w].dgram \in gone'
      <3>1. PICK a \in DOMAIN exporters : exporters[a] = worker[w].es
        BY <2>1, <2>4 DEF Orphan
      <3>2. a \notin DOMAIN exporters'
        BY <1>5, <2>1, <2>4, <3>1 DEF Orphan
      <3>3. a \in Silent
        BY <1>1, <3>2 DEF Evicts
      <3>4. worker[w].dgram \in Lost
        BY <3>1, <3>3, LostFacts
      <3> QED
        BY <1>1, <3>4
    <2>5. Orphan(w) => Orphan(w)'
      BY <1>5, <2>1 DEF Orphan
    <2>6. gone \subseteq gone' /\ refused' = refused
      BY <1>1
    <2> QED
      BY <1>4, <2>1, <2>2, <2>3, <2>4, <2>5, <2>6 DEF InHand
  <1> QED
    BY <1>1, <1>4, <1>5, <1>8, <1>9, <1>10 DEF LedgerOK

\* No step counts a datagram twice, or one that was refused.
LEMMA NextLedgerOK ==
  ASSUME TypeOK, HeapOK, DatagramsOK, LedgerOK, [Next]_vars
  PROVE  LedgerOK'
  <1>h. /\ \A a \in DOMAIN exporters : exporters[a] \in DOMAIN heap /\ exporters[a] # None
        /\ \A v \in Workers : worker[v].pc \notin {"stamp", "decode"} => worker[v].es = None
    BY HeldObjects DEF HeapOK
  <1>1. ASSUME NEW w \in Workers, Find(w) PROVE LedgerOK'
    <2>1. \/ From(w) \in DOMAIN exporters /\ Turns(w, "stamp", exporters[From(w)])
          \/ Turns(w, "gate", worker[w].es)
      BY <1>1, StepTurns
    <2>2. UNCHANGED <<exporters, heap, sent, gone, refused>> /\ worker[w].pc = "find"
      BY <1>1 DEF Find
    <2>3. \A v \in Workers : Orphan(v)' <=> Orphan(v)
      <3>1. ~Orphan(w)
        BY <1>h, <2>2 DEF Orphan
      <3> QED
        BY <2>1, <2>2, <3>1, TurnsOrphans DEF Turns
    <2> QED
      BY <2>1, <2>2, <2>3, UncountedLedgerOK DEF Turns
  <1>2. ASSUME NEW w \in Workers, Stamp(w) \/ OpenPresent(w) PROVE LedgerOK'
    <2>1. \E es : Turns(w, "decode", es)
      BY <1>2, StepTurns
    <2>2. UNCHANGED <<exporters, sent, gone, refused>> /\ worker[w].pc \in {"stamp", "open"}
      BY <1>2 DEF Stamp, OpenPresent
    <2>3. PICK t \in Time : t = worker[w].at
      BY DEF TypeOK, WorkerState
    <2>4. \E i \in DOMAIN heap : heap' = [heap EXCEPT ![i].lastSeen = t]
      BY <1>h, <1>2, <2>3 DEF Stamp, OpenPresent, HeapOK
    <2>5. PICK i \in DOMAIN heap : Stamps(i, t)
      BY <2>4, StampFacts
    <2>6. \A j \in DOMAIN heap' : j \in DOMAIN heap /\ heap'[j].counted = heap[j].counted
      BY <2>5 DEF Stamps
    <2>7. \A a \in DOMAIN exporters : heap'[exporters[a]].counted = heap[exporters[a]].counted
      BY <1>h, <2>5 DEF Stamps
    <2>8. worker'[w].es # None /\ \A v \in Workers : Orphan(v)' <=> Orphan(v)
      <3>1. CASE Stamp(w)
        <4>1. Turns(w, "decode", worker[w].es)
          BY <3>1, StepTurns
        <4>2. worker[w].es # None
          BY <3>1 DEF Stamp, HeapOK
        <4> QED
          BY <2>2, <4>1, <4>2, TurnsOrphans DEF Turns
      <3>2. CASE OpenPresent(w)
        <4>1. Turns(w, "decode", exporters[From(w)]) /\ From(w) \in DOMAIN exporters
          BY <3>2, StepTurns DEF OpenPresent
        <4>2. ~Orphan(w)
          BY <1>h, <3>2 DEF OpenPresent, Orphan
        <4> QED
          BY <1>h, <2>2, <4>1, <4>2, TurnsOrphans DEF Turns
      <3> QED
        BY <1>2, <3>1, <3>2
    <2> QED
      BY <2>1, <2>2, <2>6, <2>7, <2>8, UncountedLedgerOK DEF Turns
  <1>3. ASSUME NEW w \in Workers, Gate(w) PROVE LedgerOK'
    <2>1. worker[w].pc = "gate"
      BY <1>3 DEF Gate
    <2>2. CASE Refuse(w) /\ Turns(w, "decode", None)
      BY <2>1, <2>2, RefuseLedgerOK
    <2>3. CASE /\ Turns(w, "open", worker[w].es)
               /\ UNCHANGED <<exporters, heap, sent, gone, refused>>
      <3>1. \A v \in Workers : Orphan(v)' <=> Orphan(v)
        BY <2>3, TurnsOrphans DEF Turns
      <3> QED
        BY <2>1, <2>3, <3>1, UncountedLedgerOK DEF Turns
    <2> QED
      BY <1>3, <2>2, <2>3, StepTurns
  <1>4. ASSUME NEW w \in Workers, OpenRefused(w) PROVE LedgerOK'
    BY <1>4, StepTurns, RefuseLedgerOK DEF OpenRefused
  <1>5. ASSUME NEW w \in Workers, OpenNew(w) PROVE LedgerOK'
    <2>1. worker[w].pc = "open" /\ worker[w].dgram \in Datagrams
      BY <1>5, FromIsAddress DEF OpenNew
    <2>2. PICK i \in Ids : Admits1(w, i)
      BY <1>5, <2>1, OpenNewFacts
    <2>3. UNCHANGED <<sent, gone, refused>>
      BY <1>5 DEF OpenNew
    <2>4. \A j \in DOMAIN heap' : \/ heap'[j].counted = {}
                                  \/ j \in DOMAIN heap /\ heap'[j].counted = heap[j].counted
      BY <2>2 DEF Admits1
    <2>5. \A a \in DOMAIN exporters' :
            \/ heap'[exporters'[a]].counted = {}
            \/ a \in DOMAIN exporters /\ heap'[exporters'[a]].counted = heap[exporters[a]].counted
      BY <1>h, <2>2 DEF Admits1
    <2>6. ASSUME NEW v \in Workers PROVE Orphan(v)' <=> Orphan(v)
      <3>1. CASE v = w
        <4>1. ~Orphan(w)
          BY <1>h, <2>1 DEF Orphan
        <4>2. worker'[w].es = i /\ exporters'[From(w)] = i /\ From(w) \in DOMAIN exporters'
          BY <2>2 DEF Admits1, Turns
        <4> QED
          BY <3>1, <4>1, <4>2 DEF Orphan
      <3>2. CASE v # w
        <4>1. worker'[v] = worker[v]
          BY <2>2, <3>2 DEF Admits1, Turns, Others
        <4>2. worker[v].es # None => worker[v].es # i
          BY <2>2 DEF HeapOK, Admits1
        <4>3. \A a \in DOMAIN exporters' :
                (a \in DOMAIN exporters /\ exporters'[a] = exporters[a]) \/ exporters'[a] = i
          BY <2>2 DEF Admits1
        <4>4. \A a \in DOMAIN exporters : a \in DOMAIN exporters' /\ exporters'[a] = exporters[a]
          BY <2>2 DEF Admits1
        <4> QED
          BY <4>1, <4>2, <4>3, <4>4 DEF Orphan
      <3> QED
        BY <3>1, <3>2
    <2>7. /\ Others(w) /\ worker'[w].dgram = worker[w].dgram
          /\ worker'[w].es # None
      BY <2>2, HeldObjects DEF Admits1, Turns
    <2> QED
      BY <2>1, <2>3, <2>4, <2>5, <2>6, <2>7, UncountedLedgerOK
  <1>6. ASSUME NEW w \in Workers, Count(w) PROVE LedgerOK'
    BY <1>6, CountLedgerOK
  <1>7. ASSUME NEW w \in Workers, Admits(w) \/ Observe(w) PROVE LedgerOK'
    <2>1. worker[w].es = None
      BY <1>h, <1>7 DEF Admits, Observe
    <2>2. Turns(w, "observe", None) \/ Finishes(w)
      BY <1>7, <2>1, StepTurns DEF Turns
    <2>3. UNCHANGED <<exporters, heap, sent, gone, refused>>
      BY <1>7 DEF Admits, Observe
    <2>4. Others(w) /\ worker'[w].es = None /\ ~Open(w)'
      BY <2>2 DEF Turns, Finishes, Open
    <2>5. \A v \in Workers : Orphan(v)' <=> Orphan(v)
      BY <2>1, <2>3, <2>4, TurnsOrphans
    <2> QED
      BY <2>3, <2>4, <2>5, UncountedLedgerOK
  <1>8. ASSUME NEW w \in Workers, NEW d \in Datagrams, Decode(w, d) PROVE LedgerOK'
    <2>1. /\ d \notin sent /\ sent' = sent \cup {d} /\ worker[w].pc = "idle"
          /\ UNCHANGED <<exporters, heap, refused, gone>>
      BY <1>8 DEF Decode
    <2>2. /\ Others(w) /\ worker'[w].dgram = d /\ worker'[w].pc = "find"
          /\ worker'[w].es = worker[w].es /\ worker[w].es = None
      BY <1>h, <1>8, <2>1, DecodeTurns
    <2>3. \A v \in Workers : Orphan(v)' <=> Orphan(v)
      BY <2>1, <2>2, TurnsOrphans
    <2>4. ASSUME NEW v \in Workers, Open(v)' PROVE InHand(v)'
      <3>1. CASE v = w
        <4>1. d \notin refused /\ d \notin gone /\ \A i \in DOMAIN heap : d \notin heap[i].counted
          BY <2>1 DEF LedgerOK
        <4>2. ~Orphan(w)'
          BY <2>2, <2>3 DEF Orphan
        <4> QED
          BY <2>1, <2>2, <3>1, <4>1, <4>2 DEF InHand
      <3>2. CASE v # w
        <4>1. worker'[v] = worker[v] /\ Open(v)
          BY <2>2, <2>4, <3>2 DEF Others, Open
        <4> QED
          BY <2>1, <2>3, <4>1, InHandKept
      <3> QED
        BY <3>1, <3>2
    <2> QED
      BY <2>1, <2>4 DEF LedgerOK
  <1>9. CASE Evict
    BY <1>9, EvictLedgerOK
  <1>10. CASE UNCHANGED <<exporters, heap, refused, worker, sent, gone>>
    BY <1>10 DEF LedgerOK, Open, InHand, Orphan
  <1> QED
    BY <1>1, <1>2, <1>3, <1>4, <1>5, <1>6, <1>7, <1>8, <1>9, <1>10
    DEF Next, Step, Sweep, Tick, SweepTick, SweepGate, SweepEnd, Forget, vars

\* A datagram counted where its device holds it stays there, or goes with it.
LEMMA OwnKept ==
  ASSUME TypeOK, HeapOK, DatagramsOK, [Next]_vars, NEW d, InOwn(d)
  PROVE  InOwn(d)' \/ d \in gone'
  <1>k. PICK a, i : a = SourceOf[d] /\ i = exporters[a]
    OBVIOUS
  <1>h. a \in DOMAIN exporters /\ i \in DOMAIN heap /\ d \in heap[i].counted
    BY <1>k, HeldObjects DEF InOwn
  <1>c. ASSUME a \in DOMAIN exporters', exporters'[a] = i, d \in heap'[i].counted
        PROVE  InOwn(d)'
    BY <1>k, <1>c DEF InOwn
  <1>1. ASSUME NEW w \in Workers, Stamp(w) \/ OpenPresent(w) PROVE InOwn(d)'
    <2>1. PICK t \in Time : t = worker[w].at
      BY DEF TypeOK, WorkerState
    <2>2. \E j \in DOMAIN heap : heap' = [heap EXCEPT ![j].lastSeen = t]
      BY <1>1, <2>1, HeldObjects DEF Stamp, OpenPresent, HeapOK
    <2>3. PICK j \in DOMAIN heap : Stamps(j, t)
      BY <2>2, StampFacts
    <2>4. exporters' = exporters
      BY <1>1 DEF Stamp, OpenPresent
    <2> QED
      BY <1>c, <1>h, <1>k, <2>3, <2>4 DEF Stamps
  <1>2. ASSUME NEW w \in Workers, OpenNew(w) PROVE InOwn(d)'
    <2>1. PICK j \in Ids : Admits1(w, j)
      BY <1>2, OpenNewFacts, FromIsAddress DEF OpenNew
    <2> QED
      BY <1>c, <1>h, <1>k, <2>1 DEF Admits1
  <1>3. ASSUME NEW w \in Workers, Count(w) PROVE InOwn(d)'
    <2>1. Counts(w) /\ exporters' = exporters
      BY <1>3, CountFacts, FromIsAddress DEF Count
    <2>2. i \in DOMAIN heap'
      BY <1>h, <1>k, <2>1 DEF Counts, Range
    <2>3. d \in heap'[i].counted
      BY <1>h, <2>1, <2>2 DEF Counts
    <2> QED
      BY <1>c, <1>h, <1>k, <2>1, <2>3
  <1>4. CASE Evict
    <2>1. Evicts /\ gone' = gone \cup Lost
      BY <1>4, EvictFacts DEF Evict
    <2>2. CASE a \in Silent
      BY <1>h, <1>k, <2>1, <2>2 DEF Lost
    <2>3. CASE a \notin Silent
      <3>1. a \in DOMAIN exporters' /\ exporters'[a] = i
        BY <1>h, <1>k, <2>1, <2>3 DEF Evicts
      <3>2. i \in DOMAIN heap' /\ heap'[i] = heap[i]
        BY <1>h, <2>1, <3>1 DEF Evicts, Range
      <3> QED
        BY <1>c, <1>h, <3>1, <3>2
    <2> QED
      BY <2>2, <2>3
  <1>5. CASE UNCHANGED <<exporters, heap>>
    BY <1>5 DEF InOwn
  <1> QED
    BY <1>1, <1>2, <1>3, <1>4, <1>5
    DEF Next, Step, Sweep, Tick, Decode, Find, Gate, Refuse, OpenRefused, Admits, Observe,
        SweepTick, SweepGate, SweepEnd, Forget, vars

\* A datagram in hand stays in hand until it is counted.
LEMMA StaysInHand ==
  ASSUME TypeOK, HeapOK, DatagramsOK, [Next]_vars, NEW w \in Workers, Open(w)
  PROVE  (Open(w)' /\ worker'[w].dgram = worker[w].dgram) \/ Count(w)
  <1>i. worker[w].pc # "idle"
    BY DEF Open
  <1>1. ASSUME NEW v \in Workers, Step(v) PROVE (Open(w)' /\ worker'[w].dgram = worker[w].dgram) \/ Count(w)
    <2>1. OpenNew(v) => \E i \in Ids : Admits1(v, i)
      BY OpenNewFacts, FromIsAddress DEF OpenNew
    <2>2. Others(v)
      BY <1>1, <2>1, StepTurns DEF Step, Admits1, Turns, Finishes
    <2>3. CASE v # w
      BY <2>2, <2>3 DEF Others, Open
    <2>4. CASE v = w
      <3>1. ~Admits(w) /\ ~Observe(w)
        BY DEF Open, Admits, Observe
      <3>2. \/ Count(w)
            \/ \E pc \in {"stamp", "gate", "decode", "open"} : \E es : Turns(w, pc, es)
        BY <1>1, <2>1, <2>4, <3>1, StepTurns DEF Step, Admits1
      <3> QED
        BY <3>2 DEF Turns, Open
    <2> QED
      BY <2>3, <2>4
  <1>2. ASSUME NEW v \in Workers, NEW d \in Datagrams, Decode(v, d) PROVE Open(w)' /\ worker'[w].dgram = worker[w].dgram
    BY <1>2, <1>i, DecodeTurns DEF Decode, Others, Open
  <1>3. CASE UNCHANGED worker
    BY <1>3 DEF Open
  <1> QED
    BY <1>1, <1>2, <1>3 DEF Next, Sweep, Tick, SweepTick, SweepGate, Evict, SweepEnd, Forget, vars

\* Counting a datagram settles it: refused before, gone before, or counted now.
LEMMA CountSettles ==
  ASSUME TypeOK, HeapOK, DatagramsOK, LedgerOK, NEW w \in Workers, Count(w),
         NEW d, d = worker[w].dgram
  PROVE  d \in refused' \/ d \in gone' \/ InOwn(d)'
  <1>1. /\ worker[w].pc = "decode" /\ worker[w].dgram \in Datagrams
        /\ UNCHANGED <<exporters, refused, gone>>
    BY FromIsAddress DEF Count
  <1>2. InHand(w)
    BY <1>1 DEF LedgerOK, Open
  <1>k. PICK es : es = worker[w].es
    OBVIOUS
  <1>3. CASE es = None
    BY <1>1, <1>2, <1>k, <1>3 DEF InHand
  <1>4. CASE Orphan(w)
    BY <1>1, <1>2, <1>4 DEF InHand
  <1>5. CASE es # None /\ ~Orphan(w)
    <2>1. PICK a \in DOMAIN exporters : exporters[a] = es
      BY <1>k, <1>5 DEF Orphan
    <2>2. a = SourceOf[d]
      BY <1>k, <2>1 DEF HeapOK, From
    <2>3. Counts(w)
      BY <1>1, CountFacts
    <2>4. es \in DOMAIN heap'
      BY <1>1, <2>1, <2>3, HeldObjects DEF Counts, Range
    <2>5. d \in heap'[es].counted
      BY <1>k, <2>3, <2>4 DEF Counts
    <2> QED
      BY <1>1, <2>1, <2>2, <2>5 DEF InOwn
  <1> QED
    BY <1>3, <1>4, <1>5

\* No step loses what was counted by a device still held.
LEMMA NextSettledOK ==
  ASSUME TypeOK, HeapOK, DatagramsOK, LedgerOK, SettledOK, [Next]_vars
  PROVE  SettledOK'
  <1> SUFFICES ASSUME NEW d \in sent', Settled(d)'
               PROVE  d \in refused' \/ d \in gone' \/ InOwn(d)'
    BY DEF SettledOK
  <1>1. d \in sent
    <2> SUFFICES ASSUME d \notin sent PROVE FALSE
      OBVIOUS
    <2>1. PICK w \in Workers : \E e \in Datagrams : Decode(w, e) /\ e = d
      BY DEF Next, Step, Sweep, Tick, Decode, Find, Stamp, Gate, Refuse, OpenPresent, OpenRefused,
             OpenNew, Count, Admits, Observe, SweepTick, SweepGate, Evict, SweepEnd, Forget, vars
    <2>2. worker'[w].pc = "find" /\ worker'[w].dgram = d
      BY <2>1, DecodeTurns
    <2> QED
      BY <2>2 DEF Settled, Open
  <1>2. refused \subseteq refused' /\ gone \subseteq gone'
    BY DEF Next, Step, Sweep, Tick, Decode, Find, Stamp, Gate, Refuse, OpenPresent, OpenRefused,
           OpenNew, Count, Admits, Observe, SweepTick, SweepGate, Evict, SweepEnd, Forget, vars
  <1>3. CASE Settled(d)
    BY <1>1, <1>2, <1>3, OwnKept DEF SettledOK
  <1>4. CASE ~Settled(d)
    <2>1. PICK w \in Workers : worker[w].dgram = d /\ Open(w)
      BY <1>4 DEF Settled
    <2>2. Count(w)
      BY <2>1, StaysInHand DEF Settled
    <2> QED
      BY <2>1, <2>2, CountSettles
  <1> QED
    BY <1>3, <1>4

-----------------------------------------------------------------------------
(* The devices one worker handles. *)

\* What Handled says of a worker, of another's variables after a step of
\* somebody else: nothing it relied on has changed.
LEMMA HandledKept ==
  ASSUME NEW w \in Workers, Handled(w), worker'[w] = worker[w],
         From(w) \in DOMAIN exporters' <=> From(w) \in DOMAIN exporters,
         From(w) \in DOMAIN exporters =>
           /\ exporters'[From(w)] = exporters[From(w)]
           /\ heap'[exporters[From(w)]].lastSeen = heap[exporters[From(w)]].lastSeen
  PROVE  Handled(w)'
  <1>1. From(w)' = From(w)
    BY DEF From
  <1> QED
    BY <1>1 DEF Handled

\* A worker's step touches no device but its own.
LEMMA StepElsewhere ==
  ASSUME TypeOK, HeapOK, DatagramsOK, NEW w \in Workers, Step(w),
         NEW a, a # From(w)
  PROVE  /\ a \in DOMAIN exporters' <=> a \in DOMAIN exporters
         /\ a \in DOMAIN exporters =>
              /\ exporters'[a] = exporters[a]
              /\ heap'[exporters[a]].lastSeen = heap[exporters[a]].lastSeen
  <1>h. /\ a \in DOMAIN exporters => exporters[a] \in DOMAIN heap
        /\ \A b \in DOMAIN exporters : exporters[a] = exporters[b] /\ a \in DOMAIN exporters => a = b
        /\ a \in DOMAIN exporters => worker[w].es # exporters[a]
    BY HeldObjects DEF HeapOK
  <1>1. CASE Stamp(w) \/ OpenPresent(w)
    <2>1. exporters' = exporters
      BY <1>1 DEF Stamp, OpenPresent
    <2>2. PICK t \in Time : t = worker[w].at
      BY DEF TypeOK, WorkerState
    <2>3. \E i \in DOMAIN heap : /\ heap' = [heap EXCEPT ![i].lastSeen = t]
                                 /\ a \in DOMAIN exporters => i # exporters[a]
      <3>1. CASE Stamp(w)
        BY <1>h, <2>2, <3>1 DEF Stamp, HeapOK
      <3>2. CASE OpenPresent(w)
        BY <1>h, <2>2, <3>2, HeldObjects DEF OpenPresent
      <3> QED
        BY <1>1, <3>1, <3>2
    <2>4. PICK i \in DOMAIN heap : Stamps(i, t) /\ (a \in DOMAIN exporters => i # exporters[a])
      BY <2>3, StampFacts
    <2> QED
      BY <1>h, <2>1, <2>4 DEF Stamps
  <1>2. CASE OpenNew(w)
    <2>1. PICK i \in Ids : Admits1(w, i)
      BY <1>2, OpenNewFacts, FromIsAddress DEF OpenNew
    <2> QED
      BY <1>h, <2>1 DEF Admits1
  <1>3. CASE Count(w)
    <2>1. Counts(w) /\ exporters' = exporters
      BY <1>3, CountFacts, FromIsAddress DEF Count
    <2> QED
      BY <1>h, <2>1 DEF Counts, Range
  <1>4. CASE UNCHANGED <<exporters, heap>>
    BY <1>4
  <1> QED
    BY <1>1, <1>2, <1>3, <1>4
    DEF Step, Find, Gate, Refuse, OpenRefused, Admits, Observe

\* What a worker learns of its own device, and writes to it, is what it relies on.
LEMMA StepHandled ==
  ASSUME TypeOK, HeapOK, DatagramsOK, NEW w \in Workers, Step(w), Handled(w),
         worker'[w].pc # "idle"
  PROVE  Handled(w)'
  <1>h. /\ \A a \in DOMAIN exporters : exporters[a] \in DOMAIN heap
        /\ worker[w].at \in Int
    BY HeldObjects, ExportersAssumption DEF TypeOK, WorkerState, Time
  <1>f. ASSUME NEW pc, NEW es, Turns(w, pc, es)
        PROVE  /\ From(w)' = From(w) /\ worker'[w].pc = pc /\ worker'[w].es = es
               /\ worker'[w].at = worker[w].at
    BY <1>f DEF Turns, From
  <1>1. CASE Find(w)
    <2>1. \/ From(w) \in DOMAIN exporters /\ Turns(w, "stamp", exporters[From(w)])
          \/ From(w) \notin DOMAIN exporters /\ Turns(w, "gate", worker[w].es)
      BY <1>1, StepTurns
    <2>2. exporters' = exporters
      BY <1>1 DEF Find
    <2> QED
      BY <1>f, <2>1, <2>2 DEF Handled
  <1>2. CASE Stamp(w)
    <2>1. Turns(w, "decode", worker[w].es)
      BY <1>2, StepTurns
    <2>2. exporters' = exporters /\ worker[w].pc = "stamp"
      BY <1>2 DEF Stamp
    <2>3. PICK i \in DOMAIN heap, t \in Time : i = worker[w].es /\ t = worker[w].at
      BY <2>2 DEF TypeOK, WorkerState, HeapOK
    <2>4. Stamps(i, t)
      BY <1>2, <2>3, StampFacts DEF Stamp
    <2>5. From(w) \in DOMAIN exporters => heap'[exporters[From(w)]].lastSeen = worker[w].at
      BY <2>2, <2>3, <2>4 DEF Stamps, Handled
    <2> QED
      BY <1>f, <1>h, <2>1, <2>2, <2>5 DEF Handled
  <1>3. CASE Gate(w) \/ OpenRefused(w)
    <2>1. (\E es : Turns(w, "decode", es)) \/ (\E es : Turns(w, "open", es))
      BY <1>3, StepTurns
    <2>2. exporters' = exporters /\ From(w) \notin DOMAIN exporters
      BY <1>3 DEF Gate, OpenRefused, Refuse, Handled
    <2> QED
      BY <1>f, <2>1, <2>2 DEF Handled
  <1>4. CASE OpenPresent(w)
    <2>1. Turns(w, "decode", exporters[From(w)])
      BY <1>4, StepTurns
    <2>2. exporters' = exporters
      BY <1>4 DEF OpenPresent
    <2>3. PICK i \in DOMAIN heap, t \in Time : i = exporters[From(w)] /\ t = worker[w].at
      BY <1>4, <1>h DEF TypeOK, WorkerState, OpenPresent
    <2>4. Stamps(i, t)
      BY <1>4, <2>3, StampFacts DEF OpenPresent
    <2>5. heap'[exporters[From(w)]].lastSeen = worker[w].at
      BY <2>3, <2>4 DEF Stamps
    <2> QED
      BY <1>f, <1>h, <2>1, <2>2, <2>5 DEF Handled
  <1>5. CASE OpenNew(w)
    <2>1. PICK i \in Ids : Admits1(w, i)
      BY <1>5, OpenNewFacts, FromIsAddress DEF OpenNew
    <2>2. heap'[exporters'[From(w)]].lastSeen = worker[w].at /\ Turns(w, "decode", i)
      BY <2>1 DEF Admits1
    <2> QED
      BY <1>f, <1>h, <2>2 DEF Handled
  <1>6. CASE Count(w)
    <2>1. Counts(w) /\ Turns(w, "admit", None) /\ exporters' = exporters /\ worker[w].pc = "decode"
      BY <1>6, CountFacts, FromIsAddress, StepTurns DEF Count
    <2>2. From(w) \in DOMAIN exporters =>
            heap'[exporters[From(w)]].lastSeen = heap[exporters[From(w)]].lastSeen
      BY <1>h, <2>1 DEF Counts, Range
    <2> QED
      BY <1>f, <2>1, <2>2 DEF Handled
  <1>7. CASE Admits(w)
    <2>1. From(w) \in DOMAIN exporters /\ Turns(w, "observe", worker[w].es)
      BY <1>7, StepTurns DEF Finishes
    <2>2. UNCHANGED <<exporters, heap>> /\ worker[w].pc = "admit"
      BY <1>7 DEF Admits
    <2> QED
      BY <1>f, <2>1, <2>2 DEF Handled
  <1>8. CASE Observe(w)
    BY <1>8, StepTurns DEF Finishes
  <1> QED
    BY <1>1, <1>2, <1>3, <1>4, <1>5, <1>6, <1>7, <1>8 DEF Step

\* A device stamped by a datagram under way is not silent.
LEMMA StampedNotSilent ==
  ASSUME TypeOK, HeapOK, ClockOK, NEW w \in Workers, worker[w].pc # "idle",
         From(w) \in DOMAIN exporters, worker[w].at <= heap[exporters[From(w)]].lastSeen
  PROVE  From(w) \notin Silent
  <1>1. PICK at \in Int, seen \in Int, n \in Int, c \in Int :
          /\ at = worker[w].at /\ seen = heap[exporters[From(w)]].lastSeen
          /\ n = now /\ c = sweeper.cutoff
    BY HeldObjects, ExportersAssumption DEF TypeOK, WorkerState, ExporterStats, SweeperState, Time
  <1>2. n <= at + TTL /\ c <= n - TTL /\ at <= seen /\ TTL \in Int
    BY <1>1, ExportersAssumption DEF ClockOK
  <1>3. ~(seen < c)
    BY <1>2
  <1> QED
    BY <1>1, <1>3 DEF Silent

\* The sweep never finds silent the device of a datagram under way.
LEMMA EvictHandled ==
  ASSUME TypeOK, HeapOK, ClockOK, Evict, NEW w \in Workers, worker[w].pc # "idle", Handled(w)
  PROVE  Handled(w)'
  <1>1. Evicts /\ worker' = worker /\ From(w)' = From(w)
    BY EvictFacts DEF Evict, From
  <1>2. From(w) \in DOMAIN exporters' =>
          /\ From(w) \in DOMAIN exporters /\ exporters'[From(w)] = exporters[From(w)]
          /\ heap'[exporters'[From(w)]] = heap[exporters[From(w)]]
    <2> SUFFICES ASSUME From(w) \in DOMAIN exporters'
                 PROVE  /\ From(w) \in DOMAIN exporters
                        /\ exporters'[From(w)] = exporters[From(w)]
                        /\ heap'[exporters'[From(w)]] = heap[exporters[From(w)]]
      OBVIOUS
    <2>1. From(w) \in DOMAIN exporters /\ exporters'[From(w)] = exporters[From(w)]
      BY <1>1 DEF Evicts
    <2>2. exporters'[From(w)] \in DOMAIN heap'
      BY <1>1, <2>1, HeldObjects DEF Evicts, Range
    <2> QED
      BY <1>1, <2>1, <2>2 DEF Evicts
  <1>3. ASSUME worker[w].pc = "observe" PROVE From(w) \in DOMAIN exporters'
    <2>1. From(w) \in DOMAIN exporters /\ worker[w].at <= heap[exporters[From(w)]].lastSeen
      BY <1>3 DEF Handled
    <2>2. From(w) \notin Silent
      BY <1>3, <2>1, StampedNotSilent
    <2> QED
      BY <1>1, <2>1, <2>2 DEF Evicts
  <1> QED
    BY <1>1, <1>2, <1>3 DEF Handled

\* No step of anybody disturbs a device one worker handles.
LEMMA NextShardOK ==
  ASSUME Inv, [Next]_vars
  PROVE  ShardOK'
  <1> USE DEF Inv
  <1>s. ASSUME NEW v \in Workers, NEW w \in Workers, v # w, worker[v].pc # "idle",
               worker[w].pc # "idle", Sharded(From(w))
        PROVE  From(w) # From(v)
    BY <1>s DEF DatagramsOK, Sharded
  <1>1. ASSUME NEW v \in Workers, Step(v) PROVE ShardOK'
    <2>1. worker[v].pc # "idle" /\ sweeper' = sweeper
      BY <1>1 DEF Step, Find, Stamp, Gate, OpenPresent, OpenRefused, OpenNew, Count, Admits,
                  Observe, Refuse
    <2>2. OpenNew(v) => \E i \in Ids : Admits1(v, i)
      BY <2>1, OpenNewFacts, FromIsAddress
    <2>3. (\E pc, es : Turns(v, pc, es)) \/ Finishes(v)
      BY <1>1, <2>2, StepTurns DEF Step, Admits1
    <2>4. Others(v) /\ (worker'[v].pc # "idle" => From(v)' = From(v))
      BY <2>3 DEF Turns, Finishes, From
    <2>5. ASSUME NEW w \in Workers, worker'[w].pc # "idle", Sharded(From(w)')
          PROVE  Handled(w)'
      <3>1. CASE w = v
        BY <1>1, <2>1, <2>4, <2>5, <3>1, StepHandled DEF ShardOK
      <3>2. CASE w # v
        <4>1. worker'[w] = worker[w] /\ From(w)' = From(w)
          BY <2>4, <3>2 DEF Others, From
        <4>2. Handled(w) /\ From(w) # From(v)
          BY <1>s, <2>1, <2>5, <3>2, <4>1 DEF ShardOK
        <4> QED
          BY <1>1, <4>1, <4>2, StepElsewhere, HandledKept
      <3> QED
        BY <3>1, <3>2
    <2>6. \A d \in histograms' : Sharded(SourceOf[d]) =>
            SourceOf[d] \in DOMAIN exporters' \cup sweeper'.evicted
      <3>1. DOMAIN exporters \subseteq DOMAIN exporters'
        BY <1>1, <2>2 DEF Step, Find, Stamp, Gate, OpenPresent, OpenRefused, Count, Admits,
                          Observe, Refuse, Admits1
      <3>2. CASE Observe(v)
        <4>1. histograms' = histograms \cup {worker[v].dgram} /\ worker[v].pc = "observe"
          BY <3>2 DEF Observe
        <4>2. Sharded(From(v)) => From(v) \in DOMAIN exporters
          BY <4>1 DEF ShardOK, Handled
        <4> QED
          BY <2>1, <3>1, <4>1, <4>2 DEF ShardOK, From
      <3>3. CASE histograms' = histograms
        BY <2>1, <3>1, <3>3 DEF ShardOK
      <3> QED
        BY <1>1, <3>2, <3>3 DEF Step, Find, Stamp, Gate, OpenPresent, OpenRefused, OpenNew,
                                Count, Admits, Refuse
    <2>7. sweeper'.pc # "forget" => sweeper'.evicted = {}
      BY <2>1 DEF ShardOK
    <2> QED
      BY <2>5, <2>6, <2>7 DEF ShardOK, Sharded
  <1>2. ASSUME NEW v \in Workers, NEW d \in Datagrams, Decode(v, d) PROVE ShardOK'
    <2>1. UNCHANGED <<exporters, heap, histograms, sweeper>>
      BY <1>2 DEF Decode
    <2>2. Others(v) /\ worker'[v].pc = "find"
      BY <1>2, DecodeTurns
    <2>3. ASSUME NEW w \in Workers, worker'[w].pc # "idle", Sharded(From(w)')
          PROVE  Handled(w)'
      <3>1. CASE w = v
        BY <2>2, <3>1 DEF Handled
      <3>2. CASE w # v
        <4>1. worker'[w] = worker[w] /\ From(w)' = From(w)
          BY <2>2, <3>2 DEF Others, From
        <4> QED
          BY <2>1, <2>3, <4>1 DEF ShardOK, Handled
      <3> QED
        BY <3>1, <3>2
    <2> QED
      BY <2>1, <2>3 DEF ShardOK, Sharded
  <1>3. CASE Evict
    <2>1. Evicts /\ worker' = worker /\ histograms' = histograms /\ sweeper.pc = "lock"
      BY <1>3, EvictFacts DEF Evict
    <2>2. ASSUME NEW w \in Workers, worker'[w].pc # "idle", Sharded(From(w)')
          PROVE  Handled(w)'
      <3>1. From(w)' = From(w)
        BY <2>1 DEF From
      <3> QED
        BY <1>3, <2>1, <2>2, <3>1, EvictHandled DEF ShardOK
    <2>3. \A d \in histograms' : Sharded(SourceOf[d]) =>
            SourceOf[d] \in DOMAIN exporters' \cup sweeper'.evicted
      BY <2>1 DEF Evicts, ShardOK
    <2>4. sweeper'.pc = "forget"
      BY <2>1 DEF Evicts
    <2> QED
      BY <2>2, <2>3, <2>4 DEF ShardOK, Sharded
  <1>4. CASE Tick \/ SweepTick \/ SweepGate \/ SweepEnd \/ \E a \in Addresses : Forget(a)
    <2>1. UNCHANGED <<exporters, heap, worker>>
      BY <1>4 DEF Tick, SweepTick, SweepGate, SweepEnd, Forget
    <2>2. ASSUME NEW w \in Workers, worker'[w].pc # "idle", Sharded(From(w)')
          PROVE  Handled(w)'
      BY <2>1, <2>2 DEF ShardOK, Handled, From
    <2>3. CASE Tick \/ SweepTick \/ SweepGate \/ SweepEnd
      <3>1. /\ sweeper'.evicted = sweeper.evicted
            /\ sweeper'.pc # "forget" => sweeper.evicted = {}
        BY <2>3 DEF Tick, SweepTick, SweepGate, SweepEnd, TypeOK, SweeperState, ShardOK
      <3>2. histograms' = histograms
        BY <2>3 DEF Tick, SweepTick, SweepGate, SweepEnd
      <3> QED
        BY <2>1, <2>2, <3>1, <3>2 DEF ShardOK, Sharded
    <2>4. CASE \E a \in Addresses : Forget(a)
      <3>1. PICK a \in Addresses : Forget(a)
        BY <2>4
      <3>2. /\ histograms' = {d \in histograms : SourceOf[d] # a}
            /\ sweeper'.evicted = sweeper.evicted \ {a}
            /\ sweeper'.pc = "forget"
        BY <3>1 DEF Forget, TypeOK, SweeperState
      <3> QED
        BY <2>1, <2>2, <3>2 DEF ShardOK, Sharded
    <2> QED
      BY <1>4, <2>3, <2>4
  <1>5. CASE UNCHANGED vars
    BY <1>5 DEF vars, ShardOK, Sharded, Handled, From
  <1> QED
    BY <1>1, <1>2, <1>3, <1>4, <1>5 DEF Next, Sweep

-----------------------------------------------------------------------------
(* The theorems. *)

\* The fleet starts empty, with every worker idle and the sweep armed.
LEMMA InitInv == Init => Inv
  <1> SUFFICES ASSUME Init PROVE Inv
    OBVIOUS
  <1> USE DEF Init, Idle
  <1>a. /\ MaxExporters \in Nat /\ MaxTime \in Nat /\ TTL \in Nat
        /\ now = 0 /\ now \in Time /\ 0 <= MaxExporters
    BY ExportersAssumption DEF Time
  <1>1. TypeOK
    <2>1. worker \in [Workers -> WorkerState]
      BY <1>a DEF WorkerState
    <2>2. sweeper \in SweeperState
      BY <1>a DEF SweeperState
    <2> QED
      BY <1>a, <2>1, <2>2 DEF TypeOK, Range
  <1>2. HeapOK
    <2>1. DOMAIN exporters = {} /\ IsFiniteSet({}) /\ DOMAIN heap = {}
      BY FS_EmptySet
    <2> QED
      BY <2>1 DEF HeapOK
  <1>3. DatagramsOK
    BY DEF DatagramsOK
  <1>4. BudgetOK
    <2>1. Cardinality(DOMAIN exporters) = 0
      BY FS_EmptySet
    <2> QED
      BY <1>a, <2>1 DEF BudgetOK
  <1>5. ClockOK
    BY <1>a DEF ClockOK
  <1>6. LedgerOK
    BY DEF LedgerOK, Open
  <1>7. ShardOK
    BY DEF ShardOK
  <1>8. SettledOK
    BY DEF SettledOK
  <1> QED
    BY <1>1, <1>2, <1>3, <1>4, <1>5, <1>6, <1>7, <1>8 DEF Inv

\* Every step keeps the invariant.
LEMMA NextInv == Inv /\ [Next]_vars => Inv'
  BY NextTypeOK, NextHeapOK, NextDatagramsOK, NextBudgetOK, NextClockOK, NextLedgerOK,
     NextSettledOK, NextShardOK DEF Inv

\* What every reachable state satisfies.
LEMMA Invariant == Spec => []Inv
  BY InitInv, NextInv, PTL DEF Spec

\* Every variable of the fleet budget holds a value of its type.
THEOREM TypeCorrect == Spec => []TypeOK
  <1>1. Inv => TypeOK
    BY DEF Inv
  <1> QED
    BY <1>1, Invariant, PTL

\* However the workers and the sweep interleave, the mirror a refusal is
\* decided by is the number of devices held, which never passes the budget; no
\* two devices share their counters; and the histograms of a device that one
\* worker handles are those of a device held, or about to be forgotten.
THEOREM BudgetHeldHolds == Spec => []BudgetHeld
  <1>1. Inv => BudgetHeld
    BY DEF Inv, BudgetHeld, BudgetOK, HeapOK, ShardOK
  <1> QED
    BY <1>1, Invariant, PTL

\* However the workers and the sweep interleave, a datagram counts at most at
\* its own device, and not when it is refused or gone, never both; and once its
\* worker has counted it, it is refused, or gone with a device evicted after it
\* was resolved, or in the counters its device holds.
THEOREM CountedOnceHolds == Spec => []CountedOnce
  <1>1. Inv => CountedOnce
    <2> SUFFICES ASSUME Inv, NEW d \in sent
                 PROVE  /\ Counters(d) \subseteq {SourceOf[d]}
                        /\ d \in refused \cup gone => Counters(d) = {}
                        /\ d \in refused => d \notin gone
                        /\ Settled(d) => d \in refused \cup gone \/ Counters(d) = {SourceOf[d]}
      BY DEF CountedOnce
    <2>1. LedgerOK /\ SettledOK /\ \A a \in DOMAIN exporters : exporters[a] \in DOMAIN heap
      BY HeldObjects DEF Inv
    <2>2. \A a : a \in Counters(d) <=> a \in DOMAIN exporters /\ d \in heap[exporters[a]].counted
      BY DEF Counters
    <2>3. /\ Counters(d) \subseteq {SourceOf[d]}
          /\ d \in refused => Counters(d) = {} /\ d \notin gone
          /\ d \in gone => Counters(d) = {}
      BY <2>1, <2>2 DEF LedgerOK
    <2>4. InOwn(d) => SourceOf[d] \in Counters(d)
      BY <2>2 DEF InOwn
    <2>5. Settled(d) => d \in refused \/ d \in gone \/ InOwn(d)
      BY <2>1 DEF SettledOK
    <2> QED
      BY <2>3, <2>4, <2>5
  <1> QED
    BY <1>1, Invariant, PTL

\* A device leaves only when the budget is reached, and only if it has been
\* silent for the TTL; and if one worker handles it, not while a datagram that
\* has stamped it is still to be counted.
THEOREM EvictsOnlySilentHolds == Spec => EvictsOnlySilent
  <1>1. Inv /\ [Next]_vars =>
          [\A a \in DOMAIN exporters \ DOMAIN exporters' :
             /\ Full(live) /\ heap[exporters[a]].lastSeen < now - TTL
             /\ Sharded(a) => \A w \in Workers :
                  worker[w].pc = "decode" => worker[w].es # exporters[a]]_vars
    <2> SUFFICES ASSUME Inv, Next, NEW a \in DOMAIN exporters \ DOMAIN exporters'
                 PROVE  /\ Full(live) /\ heap[exporters[a]].lastSeen < now - TTL
                        /\ Sharded(a) => \A w \in Workers :
                             worker[w].pc = "decode" => worker[w].es # exporters[a]
      OBVIOUS
    <2>1. ASSUME NEW w \in Workers, OpenNew(w) PROVE FALSE
      BY <2>1 DEF OpenNew
    <2>2. Evict
      BY <2>1 DEF Next, Step, Sweep, Tick, SweepTick, SweepGate, SweepEnd, Forget, Decode, Find,
                  Stamp, Gate, Refuse, OpenPresent, OpenRefused, Count, Admits, Observe
    <2>3. a \in Silent /\ sweeper.pc = "lock"
      BY <2>2, EvictFacts DEF Evict, Evicts
    <2>4. PICK seen \in Int, n \in Int, c \in Int :
            seen = heap[exporters[a]].lastSeen /\ n = now /\ c = sweeper.cutoff
      <3>1. heap[exporters[a]].lastSeen \in Int
        BY HeldObjects, ExportersAssumption DEF Inv, ExporterStats, Time
      <3>2. now \in Int /\ sweeper.cutoff \in Int
        BY ExportersAssumption DEF Inv, TypeOK, SweeperState, Time
      <3> QED
        BY <3>1, <3>2
    <2>5. seen < c /\ c <= n - TTL /\ TTL \in Int
      BY <2>3, <2>4, ExportersAssumption DEF Inv, ClockOK, Silent
    <2>6. seen < n - TTL
      BY <2>5
    <2>7. ASSUME Sharded(a), NEW w \in Workers, worker[w].pc = "decode",
                 worker[w].es = exporters[a]
          PROVE  FALSE
      <3>1. From(w) = a
        BY <2>7 DEF Inv, HeapOK
      <3>2. Handled(w)
        BY <2>7, <3>1 DEF Inv, ShardOK
      <3>3. worker[w].at <= heap[exporters[From(w)]].lastSeen
        BY <2>7, <3>1, <3>2 DEF Handled
      <3>4. From(w) \notin Silent
        BY <2>7, <3>1, <3>3, StampedNotSilent DEF Inv
      <3> QED
        BY <2>3, <3>1, <3>4
    <2> QED
      BY <2>3, <2>4, <2>6, <2>7 DEF Inv, BudgetOK
  <1> QED
    BY <1>1, Invariant, PTL DEF Spec, EvictsOnlySilent
=============================================================================
