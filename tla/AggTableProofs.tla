--------------------------- MODULE AggTableProofs ---------------------------
(***************************************************************************)
(* Proofs about AggTable, for every number of keys, records and workers:   *)
(* what always holds of its table and goroutines, what no step does, and   *)
(* that it implements Tally.                                               *)
(***************************************************************************)
EXTENDS AggTable, FiniteSetTheorems, TLAPS

-----------------------------------------------------------------------------
(* Type correctness. *)

\* A table newTable made, and goroutines that have not begun, are well typed.
LEMMA InitTypeOK == Init => TypeOK
  <1> SUFFICES ASSUME Init PROVE TypeOK
    OBVIOUS
  <1>0. DOMAIN table = {Other} /\ IsFiniteSet({Other})
    BY FS_Singleton DEF Init
  <1>1. TableOK
    BY <1>0, TableAssumption DEF Init, TableOK, Entry, Time, Places
  <1>2. worker \in [Workers -> WorkerState]
    BY TableAssumption DEF Init, WorkerState, Places, Time
  <1>3. sweeper \in SweeperState /\ stampOf \in [Records -> Time] /\ now \in Time
    BY TableAssumption DEF Init, SweeperState, Time
  <1> QED
    BY <1>1, <1>2, <1>3 DEF Init, TypeOK, Places

Phases == {"lookup", "lock", "insert", "fold", "counters", "latch", "stamp"}
IdleState == [pc: {"idle"}, rec: {None}, at: {Other}, stamp: Time]
AddState == [pc: Phases, rec: Records, at: Places, stamp: Time]

\* A worker is a record of four fields, and has a record in hand while it adds.
LEMMA WorkerShape ==
  ASSUME NEW s \in WorkerState
  PROVE  /\ s = [pc |-> s.pc, rec |-> s.rec, at |-> s.at, stamp |-> s.stamp]
         /\ s.at \in Places /\ s.stamp \in Time
         /\ s.pc # "idle" => s \in AddState /\ s.rec \in Records
  <1>1. s \in IdleState \/ s \in AddState
    BY DEF WorkerState, IdleState, AddState, Phases
  <1>2. CASE s \in IdleState
    BY <1>2 DEF IdleState, Places
  <1>3. CASE s \in AddState
    BY <1>3 DEF AddState
  <1> QED
    BY <1>1, <1>2, <1>3

\* A worker moves on within add, or is done with it.
LEMMA WorkerType ==
  ASSUME worker \in [Workers -> WorkerState], NEW w \in Workers, worker[w].pc # "idle",
         NEW pc \in Phases, NEW k \in Places
  PROVE  /\ worker[w].rec \in Records /\ worker[w].at \in Places /\ worker[w].stamp \in Time
         /\ [worker EXCEPT ![w].pc = pc] \in [Workers -> WorkerState]
         /\ [worker EXCEPT ![w].pc = pc, ![w].at = k] \in [Workers -> WorkerState]
         /\ [worker EXCEPT ![w].pc = "idle", ![w].rec = None, ![w].at = Other]
               \in [Workers -> WorkerState]
  <1> DEFINE s == worker[w]
  <1>1. s \in WorkerState
    OBVIOUS
  <1>2. /\ s = [pc |-> s.pc, rec |-> s.rec, at |-> s.at, stamp |-> s.stamp]
        /\ s.rec \in Records /\ s.at \in Places /\ s.stamp \in Time
    BY <1>1, WorkerShape DEF AddState
  <1>3. /\ [pc |-> pc, rec |-> s.rec, at |-> s.at, stamp |-> s.stamp] \in WorkerState
        /\ [pc |-> pc, rec |-> s.rec, at |-> k, stamp |-> s.stamp] \in WorkerState
        /\ [pc |-> "idle", rec |-> None, at |-> Other, stamp |-> s.stamp] \in WorkerState
    BY <1>2 DEF WorkerState, Phases
  <1> DEFINE Next1 == [s EXCEPT !.pc = pc]
             Idle1 == [s EXCEPT !.pc = "idle"]
             Idle2 == [Idle1 EXCEPT !.rec = None]
  <1>4. /\ [worker EXCEPT ![w].pc = pc] = [worker EXCEPT ![w] = Next1]
        /\ [worker EXCEPT ![w].pc = pc, ![w].at = k] =
              [worker EXCEPT ![w] = [Next1 EXCEPT !.at = k]]
        /\ [worker EXCEPT ![w].pc = "idle", ![w].rec = None, ![w].at = Other] =
              [worker EXCEPT ![w] = [Idle2 EXCEPT !.at = Other]]
    OBVIOUS
  <1>5. /\ Next1 = [pc |-> pc, rec |-> s.rec, at |-> s.at, stamp |-> s.stamp]
        /\ Idle1 = [pc |-> "idle", rec |-> s.rec, at |-> s.at, stamp |-> s.stamp]
    BY <1>2
  <1> HIDE DEF Next1, Idle1
  <1>6. /\ [Next1 EXCEPT !.at = k] = [pc |-> pc, rec |-> s.rec, at |-> k, stamp |-> s.stamp]
        /\ Idle2 = [pc |-> "idle", rec |-> None, at |-> s.at, stamp |-> s.stamp]
    BY <1>5
  <1> HIDE DEF Idle2
  <1>7. [Idle2 EXCEPT !.at = Other] =
          [pc |-> "idle", rec |-> None, at |-> Other, stamp |-> s.stamp]
    BY <1>6
  <1> HIDE DEF s
  <1>8. \A t \in WorkerState : [worker EXCEPT ![w] = t] \in [Workers -> WorkerState]
    OBVIOUS
  <1> QED
    BY <1>2, <1>3, <1>4, <1>5, <1>6, <1>7, <1>8

\* Changing an entry into another leaves a table.
LEMMA ChangeTypeOK ==
  ASSUME TableOK, NEW k, NEW e, k \in DOMAIN table => e \in Entry,
         table' = [table EXCEPT ![k] = e]
  PROVE  TableOK'
  <1>1. DOMAIN table' = DOMAIN table
    OBVIOUS
  <1>2. \A j \in DOMAIN table : table'[j] \in Entry
    BY DEF TableOK
  <1>3. table' = [j \in DOMAIN table' |-> table'[j]]
    BY <1>1
  <1>4. table' \in [DOMAIN table' -> Entry]
    BY <1>1, <1>2, <1>3
  <1> QED
    BY <1>1, <1>4 DEF TableOK

\* What add does to an entry leaves an entry.
LEMMA AddedEntry ==
  ASSUME NEW e \in Entry, NEW r \in Records, NEW t \in Time
  PROVE  /\ [e EXCEPT !.recs = @ \cup {r}] \in Entry
         /\ [e EXCEPT !.unmeasured = Latched(@, r)] \in Entry
         /\ [e EXCEPT !.lastSeen = t] \in Entry
         /\ Added(e, r, t) \in Entry
  <1>1. /\ [e EXCEPT !.recs = @ \cup {r}] \in Entry
        /\ [e EXCEPT !.lastSeen = t] \in Entry
    BY DEF Entry
  <1>2. Latched(e.unmeasured, r) \in BOOLEAN
    BY DEF Latched, Entry
  <1>3. [e EXCEPT !.unmeasured = Latched(@, r)] \in Entry
    BY <1>2 DEF Entry
  <1>4. Added(e, r, t) \in Entry
    BY <1>2 DEF Entry, Added
  <1> QED
    BY <1>1, <1>3, <1>4

\* What it leaves of each field.
LEMMA AddedFields ==
  ASSUME NEW e \in Entry, NEW r, NEW t
  PROVE  /\ Added(e, r, t).recs = e.recs \cup {r}
         /\ Added(e, r, t).unmeasured = Latched(e.unmeasured, r)
         /\ Added(e, r, t).lastSeen = t
         /\ Added(e, r, t).born = e.born
  <1>1. DOMAIN e = {"recs", "unmeasured", "lastSeen", "born"}
    BY DEF Entry
  <1>2. PICK u : u = Latched(e.unmeasured, r)
    OBVIOUS
  <1>3. Added(e, r, t) = [[[e EXCEPT !.recs = e.recs \cup {r}] EXCEPT !.unmeasured = u]
                            EXCEPT !.lastSeen = t]
    BY <1>2 DEF Added
  <1> QED
    BY <1>1, <1>2, <1>3

\* No step of add breaks a type.
LEMMA AddTypeOK ==
  ASSUME TypeOK, NEW w \in Workers, Add(w)
  PROVE  TypeOK'
  <1> USE DEF TypeOK
  <1>0. worker[w].pc # "idle" => worker[w].rec \in Records /\ Key(w) \in Keys
    BY TableAssumption DEF WorkerState, Key
  <1> DEFINE A == worker' \in [Workers -> WorkerState]
  <1>1. CASE Lookup(w)
    <2>1. Key(w) \in Places /\ worker[w].pc # "idle"
      BY <1>0, <1>1 DEF Lookup, Places
    <2>2. /\ [worker EXCEPT ![w].pc = "counters", ![w].at = Key(w)] \in [Workers -> WorkerState]
          /\ [worker EXCEPT ![w].pc = "lock"] \in [Workers -> WorkerState]
      BY <2>1, WorkerType DEF Phases
    <2>3. A
      BY <1>1, <2>2 DEF Lookup, GoAt, Go
    <2> QED
      BY <1>1, <2>3 DEF Lookup, TableOK, tableVars, recordVars, scrapeVars
  <1>2. CASE AddCounters(w)
    <2>1. A
      BY <1>2, WorkerType DEF AddCounters, Go, Places, Phases
    <2> DEFINE k == worker[w].at
    <2>2. k \in DOMAIN table => [table[k] EXCEPT !.recs = @ \cup {worker[w].rec}] \in Entry
      BY <1>0, <1>2, TableAssumption, AddedEntry DEF AddCounters, TableOK, Time
    <2>3. table' = [table EXCEPT ![k] = [table[k] EXCEPT !.recs = @ \cup {worker[w].rec}]]
      BY <1>2 DEF AddCounters
    <2>4. TableOK'
      BY <2>2, <2>3, ChangeTypeOK
    <2> QED
      BY <1>2, <2>1, <2>4 DEF AddCounters, recordVars, scrapeVars
  <1>3. CASE Latch(w)
    <2>1. A
      BY <1>3, WorkerType DEF Latch, Go, Places, Phases
    <2> DEFINE k == worker[w].at
    <2>2. k \in DOMAIN table =>
            [table[k] EXCEPT !.unmeasured = Latched(@, worker[w].rec)] \in Entry
      BY <1>0, <1>3, TableAssumption, AddedEntry DEF Latch, TableOK, Time
    <2>3. table' = [table EXCEPT ![k] =
                      [table[k] EXCEPT !.unmeasured = Latched(@, worker[w].rec)]]
      BY <1>3 DEF Latch
    <2>4. TableOK'
      BY <2>2, <2>3, ChangeTypeOK
    <2> QED
      BY <1>3, <2>1, <2>4 DEF Latch, recordVars, scrapeVars
  <1>4. CASE Stamp(w)
    <2>1. A /\ worker[w].stamp \in Time
      BY <1>4, WorkerType DEF Stamp, Return, Places, Phases
    <2> DEFINE k == worker[w].at
    <2>2. k \in DOMAIN table => [table[k] EXCEPT !.lastSeen = worker[w].stamp] \in Entry
      BY <1>0, <1>4, <2>1, AddedEntry DEF Stamp, TableOK
    <2>3. table' = [table EXCEPT ![k] = [table[k] EXCEPT !.lastSeen = worker[w].stamp]]
      BY <1>4 DEF Stamp
    <2>4. TableOK'
      BY <2>2, <2>3, ChangeTypeOK
    <2> QED
      BY <1>4, <2>1, <2>4, <1>0 DEF Stamp, Return, recordVars, scrapeVars
  <1>5. CASE WantInsert(w)
    <2>1. A
      BY <1>5, WorkerType DEF WantInsert, Go, Places, Phases
    <2> QED
      BY <1>5, <2>1 DEF WantInsert, Announce, TableOK, tableVars, recordVars, scrapeVars
  <1>6. CASE InsertPresent(w)
    <2>1. A /\ worker[w].stamp \in Time
      BY <1>6, WorkerType DEF InsertPresent, Return, Places, Phases
    <2>2. Key(w) \in DOMAIN table
      BY <1>6 DEF InsertPresent, Live
    <2>3. Added(table[Key(w)], worker[w].rec, worker[w].stamp) \in Entry
      BY <1>0, <1>6, <2>1, <2>2, AddedEntry DEF InsertPresent, TableOK
    <2>4. table' = [table EXCEPT ![Key(w)] = Added(table[Key(w)], worker[w].rec, worker[w].stamp)]
      BY <1>6 DEF InsertPresent
    <2>5. TableOK'
      BY <2>3, <2>4, ChangeTypeOK
    <2> QED
      BY <1>6, <2>1, <2>5, <1>0 DEF InsertPresent, Return, recordVars, scrapeVars
  <1>7. CASE InsertNew(w)
    <2>1. A /\ worker[w].stamp \in Time
      BY <1>7, WorkerType DEF InsertNew, Return, Places, Phases
    <2>2. TableOK'
      <3>1. DOMAIN table' = DOMAIN table \cup {Key(w)}
        BY <1>7 DEF InsertNew, Put
      <3>2. IsFiniteSet(DOMAIN table')
        BY <3>1, FS_AddElement DEF TableOK
      <3>3. NewEntry(worker[w].rec, worker[w].stamp, nextBorn + 1) \in Entry
        BY <1>0, <1>7, <2>1 DEF InsertNew, Entry, NewEntry, Latched
      <3>4. table' \in [DOMAIN table' -> Entry]
        BY <1>7, <3>1, <3>3 DEF InsertNew, TableOK, Put
      <3> QED
        BY <1>0, <1>7, <3>1, <3>2, <3>4 DEF InsertNew, TableOK, Places
    <2> QED
      BY <1>7, <2>1, <2>2, <1>0 DEF InsertNew, Return, recordVars, scrapeVars
  <1>8. CASE InsertRefused(w)
    <2>1. A
      BY <1>8, WorkerType DEF InsertRefused, Go, Places, Phases
    <2> QED
      BY <1>8, <2>1 DEF InsertRefused, TableOK, tableVars, recordVars, scrapeVars
  <1>9. CASE Fold(w)
    <2>1. A
      BY <1>9, WorkerType DEF Fold, GoAt, Places, Phases
    <2> QED
      BY <1>9, <2>1 DEF Fold, TableOK, tableVars, recordVars, scrapeVars
  <1> QED
    BY <1>1, <1>2, <1>3, <1>4, <1>5, <1>6, <1>7, <1>8, <1>9 DEF Add

\* sweep leaves entries only, and never takes the overflow bucket.
LEMMA SweepTypeOK ==
  ASSUME TypeOK, Sweep
  PROVE  TypeOK'
  <1>1. IdleKeys \subseteq Live /\ UNION {table[k].recs : k \in IdleKeys} \subseteq Records
    BY DEF TypeOK, TableOK, IdleKeys, Live, Entry
  <1>2. Cardinality(IdleKeys) \in Nat
    BY <1>1, FS_Subset, FS_CardinalityType DEF TypeOK, TableOK, Live
  <1>3. DOMAIN table' = DOMAIN table \ IdleKeys
    BY DEF Sweep
  <1>4. IsFiniteSet(DOMAIN table')
    BY <1>3, FS_Subset DEF TypeOK, TableOK
  <1>5. TableOK'
    BY <1>1, <1>3, <1>4 DEF Sweep, TypeOK, TableOK, Live
  <1> QED
    BY <1>1, <1>2, <1>5 DEF Sweep, TypeOK, SweeperState, recordVars, scrapeVars

\* Types are inductive: no goroutine's step breaks one.
LEMMA NextTypeOK == TypeOK /\ [Next]_vars => TypeOK'
  <1> SUFFICES ASSUME TypeOK, [Next]_vars PROVE TypeOK'
    OBVIOUS
  <1> USE DEF TypeOK, tableVars, recordVars, scrapeVars, vars
  <1>1. CASE Tick
    <2>1. now' \in Time
      BY <1>1, TableAssumption DEF Tick, Time
    <2> QED
      BY <1>1, <2>1 DEF Tick, TableOK
  <1>2. ASSUME NEW w \in Workers, Ingest(w) PROVE TypeOK'
    <2>1. worker[w] \in [pc: {"idle"}, rec: {None}, at: {Other}, stamp: Time]
      BY <1>2 DEF Ingest, WorkerState
    <2>2. [worker[w] EXCEPT !.stamp = now] \in WorkerState
      BY <2>1 DEF WorkerState
    <2>3. worker' \in [Workers -> WorkerState]
      BY <1>2, <2>2 DEF Ingest
    <2> QED
      BY <1>2, <2>3 DEF Ingest, TableOK
  <1>3. ASSUME NEW w \in Workers, NEW r \in Records, IngestOne(w, r) PROVE TypeOK'
    <2>1. worker[w].stamp \in Time
      BY WorkerShape
    <2> DEFINE s == worker[w]
               Next1 == [s EXCEPT !.pc = "lookup"]
    <2>2. /\ s = [pc |-> s.pc, rec |-> s.rec, at |-> s.at, stamp |-> s.stamp]
          /\ s.at \in Places /\ s.stamp \in Time
      BY WorkerShape
    <2>3. worker' = [worker EXCEPT ![w] = [Next1 EXCEPT !.rec = r]]
      BY <1>3 DEF IngestOne
    <2>5. Next1 = [pc |-> "lookup", rec |-> s.rec, at |-> s.at, stamp |-> s.stamp]
      BY <2>2
    <2> HIDE DEF Next1
    <2>6. [Next1 EXCEPT !.rec = r] = [pc |-> "lookup", rec |-> r, at |-> s.at, stamp |-> s.stamp]
      BY <2>5
    <2>7. [Next1 EXCEPT !.rec = r] \in WorkerState
      BY <2>2, <2>6 DEF WorkerState, Phases
    <2>8. worker' \in [Workers -> WorkerState]
      BY <2>3, <2>7
    <2>4. /\ stampOf' \in [Records -> Time]
          /\ carrier' \in [Records -> Workers \cup {None}]
      BY <1>3, <2>1 DEF IngestOne
    <2> QED
      BY <1>3, <2>8, <2>4 DEF IngestOne, TableOK
  <1>4. ASSUME NEW w \in Workers, Add(w) PROVE TypeOK'
    BY <1>4, AddTypeOK
  <1>5. CASE SweepTick
    BY <1>5 DEF SweepTick, TableOK, SweeperState
  <1>6. CASE WantSweep
    BY <1>6 DEF WantSweep, Announce, TableOK, SweeperState
  <1>7. CASE Sweep
    BY <1>7, SweepTypeOK
  <1>8. CASE Snapshot
    BY <1>8 DEF Snapshot, TableOK
  <1>9. ASSUME NEW k \in Places, ReadCounters(k) PROVE TypeOK'
    BY <1>9 DEF ReadCounters, TableOK
  <1>10. CASE ReadLatch
    BY <1>10 DEF ReadLatch, TableOK
  <1>11. CASE Publish
    BY <1>11 DEF Publish, TableOK, Places
  <1>12. CASE UNCHANGED vars
    BY <1>12 DEF TableOK
  <1> QED
    BY <1>1, <1>2, <1>3, <1>4, <1>5, <1>6, <1>7, <1>8, <1>9, <1>10, <1>11, <1>12
       DEF Next, Read

\* Every variable keeps its type: in particular the table holds entries only
\* and never loses its overflow bucket.
THEOREM TypeCorrect == Spec => []TypeOK
  BY InitTypeOK, NextTypeOK, PTL DEF Spec

-----------------------------------------------------------------------------
(* Every record is counted once.                                           *)
(*                                                                         *)
(* CountedOnce is not inductive: it says nothing of the record a worker is *)
(* still adding.  HandsOK supplies it, phase by phase: what is in hand is  *)
(* counted nowhere before the counters are added to, and is in the entry   *)
(* the worker points at afterwards.  That entry is still in the map because*)
(* its read lock keeps sweeps out, which is the step Sweep turns on.       *)

CountInv == TypeOK /\ HandsOK /\ CountedOnce

\* Nothing is counted, and nobody has a record in hand, at the start.
LEMMA InitCountInv == Init => CountInv
  <1> SUFFICES ASSUME Init PROVE CountInv
    OBVIOUS
  <1>1. DOMAIN table = {Other} /\ table[Other].recs = {} /\ evicted = {} /\ done = {}
    BY DEF Init
  <1>2. \A w \in Workers : worker[w].pc = "idle"
    BY DEF Init
  <1>3. HandsOK
    BY <1>1, <1>2 DEF HandsOK, HandOK, Uncounted
  <1> QED
    BY <1>1, <1>3, InitTypeOK DEF CountInv, CountedOnce, CountedIn

OnlyMoves(w) == \A v \in Workers \ {w} : worker'[v] = worker[v]

\* What an invariant step needs of a worker's move when the table, the ledger
\* and the record sets stay as they are: only the mover's hand is to be shown.
LEMMA MoveKeepsHands ==
  ASSUME TypeOK, HandsOK, CountedOnce, NEW w \in Workers,
         OnlyMoves(w), worker'[w].rec = worker[w].rec,
         worker[w].pc # "idle", worker'[w].pc # "idle",
         UNCHANGED <<table, evicted, taken, done>>,
         HandOK(w)'
  PROVE  HandsOK' /\ CountedOnce'
  <1>2. ASSUME NEW v \in Workers PROVE HandOK(v)'
    BY DEF HandsOK, HandOK, Uncounted, OnlyMoves
  <1>3. \A u, v \in Workers :
          u # v /\ worker'[u].pc # "idle" => worker'[u].rec # worker'[v].rec
    BY DEF HandsOK, OnlyMoves
  <1> QED
    BY <1>2, <1>3 DEF HandsOK, Uncounted, CountedOnce, CountedIn

\* Counting the record in hand in the place its worker points at.
LEMMA CountKeepsHands ==
  ASSUME TypeOK, HandsOK, CountedOnce, NEW w \in Workers, NEW k \in Places,
         worker[w].pc # "idle", Uncounted(worker[w].rec), k \in {Key(w), Other},
         OnlyMoves(w),
         \/ /\ worker'[w].pc = "latch" /\ worker'[w].rec = worker[w].rec
            /\ worker'[w].at = k /\ done' = done
         \/ /\ worker'[w].pc = "idle" /\ worker'[w].rec = None
            /\ done' = done \cup {worker[w].rec},
         DOMAIN table' = DOMAIN table \cup {k},
         k \in DOMAIN table => table'[k].recs = table[k].recs \cup {worker[w].rec},
         k \notin DOMAIN table => table'[k].recs = {worker[w].rec},
         \A j \in DOMAIN table \ {k} : table'[j].recs = table[j].recs,
         UNCHANGED <<evicted, taken>>
  PROVE  HandsOK' /\ CountedOnce'
  <1> DEFINE r == worker[w].rec
  <1>0. r \in taken \ done /\ r \in Records /\ None \notin Records
    BY TableAssumption DEF HandsOK, HandOK, TypeOK
  <1>1. \A v \in Workers \ {w} : worker'[v] = worker[v]
    BY DEF OnlyMoves
  <1>2. \A j \in DOMAIN table' : \A q : q \in table'[j].recs <=>
          (j \in DOMAIN table /\ q \in table[j].recs) \/ (j = k /\ q = r)
    OBVIOUS
  <1>3. ASSUME NEW v \in Workers PROVE HandOK(v)'
    <2>1. CASE v = w
      BY <1>0, <1>1, <1>2, <2>1 DEF HandOK, Key
    <2>2. CASE v # w
      <3>1. worker[v].pc # "idle" => worker[v].rec # r
        BY <2>2 DEF HandsOK
      <3>2. HandOK(v) /\ worker'[v] = worker[v]
        BY <1>1, <2>2 DEF HandsOK
      <3>3. worker[v].pc # "idle" /\ Uncounted(worker[v].rec) => Uncounted(worker[v].rec)'
        BY <1>2, <3>1, <3>2 DEF Uncounted
      <3> QED
        BY <1>2, <3>1, <3>2, <3>3 DEF HandOK
    <2> QED
      BY <2>1, <2>2
  <1>4. \A u, v \in Workers :
          u # v /\ worker'[u].pc # "idle" => worker'[u].rec # worker'[v].rec
    BY <1>0, <1>1 DEF HandsOK, TypeOK, HandOK
  <1>5. \A q \in Records \ taken' : Uncounted(q)'
    BY <1>0, <1>2 DEF HandsOK, Uncounted
  <1>6. CountedOnce'
    <2>1. \A q \in Records, j \in DOMAIN table' : q \in table'[j].recs => j \in {KeyOf[q], Other}
      BY <1>2 DEF CountedOnce, CountedIn, Key
    <2>2. \A q \in Records, i, j \in DOMAIN table' :
            q \in table'[i].recs /\ q \in table'[j].recs => i = j
      BY <1>2 DEF CountedOnce, Uncounted
    <2>3. \A q \in evicted', j \in DOMAIN table' : q \notin table'[j].recs
      BY <1>2 DEF CountedOnce, CountedIn, Uncounted
    <2>4. \A q \in done' : q \in evicted' \/ \E j \in DOMAIN table' : q \in table'[j].recs
      BY <1>2 DEF CountedOnce, CountedIn
    <2> QED
      BY <2>1, <2>2, <2>3, <2>4 DEF CountedOnce, CountedIn
  <1> QED
    BY <1>0, <1>3, <1>4, <1>5, <1>6 DEF HandsOK

\* A step that leaves the counters alone, taken by a worker that has counted
\* its record: the latch, or the last step of add.
LEMMA RelatchKeepsHands ==
  ASSUME TypeOK, HandsOK, CountedOnce, NEW w \in Workers, OnlyMoves(w),
         worker[w].pc \in {"latch", "stamp"},
         \/ /\ worker'[w].pc = "stamp" /\ worker'[w].rec = worker[w].rec
            /\ worker'[w].at = worker[w].at /\ done' = done
         \/ /\ worker'[w].pc = "idle" /\ worker'[w].rec = None
            /\ done' = done \cup {worker[w].rec},
         DOMAIN table' = DOMAIN table,
         \A j \in DOMAIN table : table'[j].recs = table[j].recs,
         UNCHANGED <<evicted, taken>>
  PROVE  HandsOK' /\ CountedOnce'
  <1> DEFINE r == worker[w].rec
  <1>0. /\ r \in taken \ done /\ r \in table[worker[w].at].recs
        /\ worker[w].at \in DOMAIN table
    BY DEF HandsOK, HandOK
  <1>1. ASSUME NEW v \in Workers PROVE HandOK(v)'
    <2>1. CASE v = w
      BY <2>1 DEF HandsOK, HandOK
    <2>2. CASE v # w
      <3>1. worker[v].pc # "idle" => worker[v].rec # r
        BY <2>2 DEF HandsOK
      <3>2. HandOK(v) /\ worker'[v] = worker[v]
        BY <2>2 DEF HandsOK, OnlyMoves
      <3> QED
        BY <3>1, <3>2 DEF HandOK, Uncounted
    <2> QED
      BY <2>1, <2>2
  <1>2. \A u, v \in Workers :
          u # v /\ worker'[u].pc # "idle" => worker'[u].rec # worker'[v].rec
    <2>1. \A u \in Workers : worker[u].pc # "idle" => worker[u].rec # None
      BY TableAssumption DEF HandsOK, HandOK, TypeOK
    <2> QED
      BY <2>1 DEF HandsOK, OnlyMoves
  <1>3. CountedOnce'
    BY <1>0 DEF CountedOnce, CountedIn
  <1> QED
    BY <1>0, <1>1, <1>2, <1>3 DEF HandsOK, Uncounted

\* No step of add loses a record or counts it a second time.
LEMMA AddKeepsHands ==
  ASSUME TypeOK, HandsOK, CountedOnce, NEW w \in Workers, Add(w)
  PROVE  HandsOK' /\ CountedOnce'
  <1> DEFINE r == worker[w].rec
             Moves(pc, k) == /\ OnlyMoves(w) /\ worker'[w].pc = pc
                             /\ worker'[w].at = k /\ worker'[w].rec = r
             Leaves == /\ OnlyMoves(w) /\ worker'[w].pc = "idle" /\ worker'[w].rec = None
                       /\ done' = done \cup {r}
  <1> USE DEF tableVars, recordVars
  <1>0. HandOK(w) /\ (worker[w].pc # "idle" => r \in Records /\ Key(w) \in Keys)
    BY TableAssumption DEF TypeOK, WorkerState, HandsOK, Key
  <1>a. ASSUME NEW pc, Go(w, pc) PROVE Moves(pc, worker[w].at)
    BY <1>a DEF TypeOK, Go, OnlyMoves, WorkerState
  <1>b. ASSUME NEW pc, NEW k, GoAt(w, pc, k) PROVE Moves(pc, k)
    BY <1>b DEF TypeOK, GoAt, OnlyMoves, WorkerState
  <1>c. Return(w) => Leaves
    BY DEF TypeOK, Return, OnlyMoves, WorkerState
  <1>1. CASE Lookup(w)
    <2>1. CASE Key(w) \in Live
      <3>1. Moves("counters", Key(w))
        BY <1>1, <1>b, <2>1 DEF Lookup
      <3>2. HandOK(w)'
        BY <1>0, <1>1, <2>1, <3>1 DEF Lookup, HandOK, Uncounted, Live, Key
      <3> QED
        BY <1>1, <3>1, <3>2, MoveKeepsHands DEF Lookup
    <2>2. CASE Key(w) \notin Live
      <3>1. Moves("lock", worker[w].at)
        BY <1>1, <1>a, <2>2 DEF Lookup
      <3>2. HandOK(w)'
        BY <1>0, <1>1, <3>1 DEF Lookup, HandOK, Uncounted
      <3> QED
        BY <1>1, <3>1, <3>2, MoveKeepsHands DEF Lookup
    <2> QED
      BY <2>1, <2>2
  <1>2. CASE AddCounters(w)
    <2>1. Moves("latch", worker[w].at)
      BY <1>2, <1>a DEF AddCounters
    <2>2. /\ Uncounted(r) /\ worker[w].pc # "idle"
          /\ worker[w].at \in DOMAIN table /\ worker[w].at \in {Key(w), Other}
      BY <1>0, <1>2 DEF AddCounters, HandOK, Key
    <2>3. /\ DOMAIN table' = DOMAIN table \cup {worker[w].at}
          /\ table'[worker[w].at].recs = table[worker[w].at].recs \cup {r}
          /\ \A j \in DOMAIN table \ {worker[w].at} : table'[j].recs = table[j].recs
      BY <1>2, <2>2 DEF AddCounters, TypeOK, TableOK, Entry
    <2>4. worker[w].at \in Places
      BY <2>2 DEF TypeOK, TableOK
    <2> QED
      BY <1>2, <2>1, <2>2, <2>3, <2>4, CountKeepsHands DEF AddCounters
  <1>3. CASE Latch(w)
    <2>1. Moves("stamp", worker[w].at)
      BY <1>3, <1>a DEF Latch
    <2>2. /\ DOMAIN table' = DOMAIN table
          /\ \A j \in DOMAIN table : table'[j].recs = table[j].recs
      BY <1>3 DEF Latch, TypeOK, TableOK, Entry
    <2> QED
      BY <1>0, <1>3, <2>1, <2>2, RelatchKeepsHands DEF Latch
  <1>4. CASE Stamp(w)
    <2>1. Leaves
      BY <1>4, <1>c DEF Stamp
    <2>2. /\ DOMAIN table' = DOMAIN table
          /\ \A j \in DOMAIN table : table'[j].recs = table[j].recs
      BY <1>4 DEF Stamp, TypeOK, TableOK, Entry
    <2> QED
      BY <1>0, <1>4, <2>1, <2>2, RelatchKeepsHands DEF Stamp
  <1>5. CASE WantInsert(w)
    <2>1. Moves("insert", worker[w].at)
      BY <1>5, <1>a DEF WantInsert
    <2>2. HandOK(w)'
      BY <1>0, <1>5, <2>1 DEF WantInsert, HandOK, Uncounted
    <2> QED
      BY <1>5, <2>1, <2>2, MoveKeepsHands DEF WantInsert
  <1>6. CASE InsertPresent(w)
    <2>1. Leaves
      BY <1>6, <1>c DEF InsertPresent
    <2>2. Uncounted(r) /\ worker[w].pc # "idle" /\ Key(w) \in DOMAIN table /\ Key(w) \in Places
      BY <1>0, <1>6 DEF InsertPresent, HandOK, Live, Places
    <2>3. /\ DOMAIN table' = DOMAIN table \cup {Key(w)}
          /\ table'[Key(w)].recs = table[Key(w)].recs \cup {r}
          /\ \A j \in DOMAIN table \ {Key(w)} : table'[j].recs = table[j].recs
      BY <1>6, <2>2 DEF InsertPresent, Added, TypeOK, TableOK, Entry
    <2> QED
      BY <1>6, <2>1, <2>2, <2>3, CountKeepsHands DEF InsertPresent
  <1>7. CASE InsertNew(w)
    <2>1. Leaves
      BY <1>7, <1>c DEF InsertNew
    <2>2. Uncounted(r) /\ worker[w].pc # "idle" /\ Key(w) \notin DOMAIN table /\ Key(w) \in Places
      BY <1>0, <1>7, TableAssumption DEF InsertNew, HandOK, Live, Places
    <2>3. /\ DOMAIN table' = DOMAIN table \cup {Key(w)}
          /\ table'[Key(w)].recs = {r}
          /\ \A j \in DOMAIN table \ {Key(w)} : table'[j].recs = table[j].recs
      BY <1>7, <2>2 DEF InsertNew, Put, NewEntry
    <2> QED
      BY <1>7, <2>1, <2>2, <2>3, CountKeepsHands DEF InsertNew
  <1>8. CASE InsertRefused(w)
    <2>1. Moves("fold", worker[w].at)
      BY <1>8, <1>a DEF InsertRefused
    <2>2. HandOK(w)'
      BY <1>0, <1>8, <2>1 DEF InsertRefused, HandOK, Uncounted
    <2> QED
      BY <1>8, <2>1, <2>2, MoveKeepsHands DEF InsertRefused
  <1>9. CASE Fold(w)
    <2>1. Moves("counters", Other)
      BY <1>9, <1>b DEF Fold
    <2>2. HandOK(w)'
      BY <1>0, <1>9, <2>1 DEF Fold, HandOK, Uncounted, TypeOK, TableOK
    <2> QED
      BY <1>9, <2>1, <2>2, MoveKeepsHands DEF Fold
  <1> QED
    BY <1>1, <1>2, <1>3, <1>4, <1>5, <1>6, <1>7, <1>8, <1>9 DEF Add

\* The sweep takes entries away whole.  No worker is left pointing at one of
\* them: a worker that points at an entry is inside the read lock.
LEMMA SweepKeepsHands ==
  ASSUME TypeOK, HandsOK, CountedOnce, Sweep
  PROVE  HandsOK' /\ CountedOnce'
  <1> USE DEF recordVars, scrapeVars
  <1>1. /\ DOMAIN table' = DOMAIN table \ IdleKeys
        /\ \A j \in DOMAIN table' : table'[j] = table[j]
        /\ IdleKeys \subseteq Live
        /\ evicted' = evicted \cup UNION {table[k].recs : k \in IdleKeys}
        /\ UNCHANGED <<taken, done, worker>>
    BY DEF Sweep, IdleKeys, recordVars
  <1>2. ASSUME NEW w \in Workers, worker[w].pc # "idle",
               worker[w].pc \in {"lookup", "lock", "insert", "fold", "counters"}
        PROVE  Uncounted(worker[w].rec)'
    BY <1>1, <1>2 DEF HandsOK, HandOK, Uncounted, Live
  <1>3. ASSUME NEW w \in Workers, worker[w].pc \in {"counters", "latch", "stamp"}
        PROVE  worker[w].at \in DOMAIN table'
    <2>1. worker[w].at \in DOMAIN table
      BY <1>3 DEF HandsOK, HandOK
    <2>2. worker[w].at = Other
      BY <1>3 DEF Sweep, HoldsLock, NoReader, AddingUnderRLock
    <2> QED
      BY <1>1, <2>1, <2>2 DEF Live
  <1>4. ASSUME NEW w \in Workers PROVE HandOK(w)'
    BY <1>1, <1>2, <1>3 DEF HandsOK, HandOK
  <1>5. \A r \in Records \ taken : Uncounted(r)'
    BY <1>1 DEF HandsOK, Uncounted, Live
  <1>6. CountedOnce'
    <2>1. \A r \in Records, j \in DOMAIN table' : r \in table'[j].recs => j \in {KeyOf[r], Other}
      BY <1>1 DEF CountedOnce, CountedIn
    <2>2. \A r \in Records, i, j \in DOMAIN table' :
            r \in table'[i].recs /\ r \in table'[j].recs => i = j
      BY <1>1 DEF CountedOnce
    <2>3. \A r \in evicted', j \in DOMAIN table' : r \notin table'[j].recs
      <3> SUFFICES ASSUME NEW r \in evicted', NEW j \in DOMAIN table', r \in table[j].recs
                   PROVE  FALSE
        BY <1>1
      <3>1. CASE r \in evicted
        BY <1>1, <3>1 DEF CountedOnce, CountedIn
      <3>2. CASE \E k \in IdleKeys : r \in table[k].recs
        BY <1>1, <3>2 DEF CountedOnce, TypeOK, TableOK, Entry, Live
      <3> QED
        BY <1>1, <3>1, <3>2
    <2>4. \A r \in done' : r \in evicted' \/ \E j \in DOMAIN table' : r \in table'[j].recs
      BY <1>1 DEF CountedOnce, CountedIn
    <2> QED
      BY <2>1, <2>2, <2>3, <2>4 DEF CountedOnce, CountedIn
  <1> QED
    BY <1>1, <1>4, <1>5, <1>6 DEF HandsOK

\* Counting once, with what workers have in hand, is inductive.
LEMMA NextCountInv == CountInv /\ [Next]_vars => CountInv'
  <1> SUFFICES ASSUME TypeOK, HandsOK, CountedOnce, [Next]_vars
               PROVE  HandsOK' /\ CountedOnce'
    BY NextTypeOK DEF CountInv
  <1> USE DEF tableVars, recordVars, scrapeVars
  <1> DEFINE Kept == UNCHANGED <<table, evicted, taken, done, worker>>
  <1>1. Kept => HandsOK' /\ CountedOnce'
    BY DEF HandsOK, HandOK, Uncounted, CountedOnce, CountedIn
  <1>2. CASE Tick \/ SweepTick \/ WantSweep \/ Snapshot \/ Read \/ UNCHANGED vars
    <2>1. Kept
      BY <1>2 DEF Tick, SweepTick, WantSweep, Snapshot, Read, ReadCounters, ReadLatch,
                  Publish, vars
    <2> QED
      BY <1>1, <2>1
  <1>3. ASSUME NEW w \in Workers, Ingest(w) PROVE HandsOK' /\ CountedOnce'
    <2>1. \A v \in Workers : /\ worker'[v].pc = worker[v].pc /\ worker'[v].rec = worker[v].rec
                             /\ worker'[v].at = worker[v].at
      BY <1>3 DEF Ingest, TypeOK, WorkerState
    <2>2. UNCHANGED <<table, evicted, taken, done>>
      BY <1>3 DEF Ingest
    <2> QED
      BY <2>1, <2>2 DEF HandsOK, HandOK, Uncounted, CountedOnce, CountedIn
  <1>4. ASSUME NEW w \in Workers, NEW r \in Records, IngestOne(w, r)
        PROVE  HandsOK' /\ CountedOnce'
    <2>1. /\ OnlyMoves(w)
          /\ worker'[w].pc = "lookup" /\ worker'[w].rec = r
          /\ taken' = taken \cup {r} /\ r \notin taken
          /\ UNCHANGED <<table, evicted, done>>
      BY <1>4 DEF IngestOne, OnlyMoves, TypeOK, WorkerState
    <2>2. Uncounted(r)
      BY <2>1 DEF HandsOK
    <2>3. ASSUME NEW v \in Workers PROVE HandOK(v)'
      BY <2>1, <2>2 DEF HandsOK, HandOK, Uncounted, OnlyMoves
    <2>4. \A u, v \in Workers :
            u # v /\ worker'[u].pc # "idle" => worker'[u].rec # worker'[v].rec
      <3>1. \A u \in Workers : worker[u].rec # r
        BY <2>1, TableAssumption DEF HandsOK, HandOK, TypeOK, WorkerState
      <3> QED
        BY <2>1, <3>1 DEF HandsOK, OnlyMoves
    <2> QED
      BY <2>1, <2>3, <2>4 DEF HandsOK, Uncounted, CountedOnce, CountedIn
  <1>5. ASSUME NEW w \in Workers, Add(w) PROVE HandsOK' /\ CountedOnce'
    BY <1>5, AddKeepsHands
  <1>6. CASE Sweep
    BY <1>6, SweepKeepsHands
  <1> QED
    BY <1>2, <1>3, <1>4, <1>5, <1>6 DEF Next

\* Every record whose add has returned is counted once, in its own entry, in
\* the overflow bucket or in the ledger of evictions, however many workers add
\* while the sweeper sweeps.
THEOREM CountedOnceHolds == Spec => []CountedOnce
  <1>1. Spec => []CountInv
    BY InitCountInv, NextCountInv, PTL DEF Spec
  <1>2. CountInv => CountedOnce
    BY DEF CountInv
  <1> QED
    BY <1>1, <1>2, PTL

-----------------------------------------------------------------------------
(* The entry bound.  Only an insertion adds a key, and it checks the bound  *)
(* under the lock it inserts under: the bound is inductive with the types. *)

\* A step that opens no entry keeps the bound.
LEMMA ShrinkKeepsBound ==
  ASSUME TypeOK, EntryBound, DOMAIN table' \subseteq DOMAIN table
  PROVE  EntryBound'
  <1>1. Live' \subseteq Live /\ IsFiniteSet(Live)
    BY FS_Subset DEF TypeOK, TableOK, Live
  <1>2. Cardinality(Live') <= Cardinality(Live) /\ Cardinality(Live) \in Nat
        /\ Cardinality(Live') \in Nat
    BY <1>1, FS_Subset, FS_CardinalityType
  <1> QED
    BY <1>2, TableAssumption DEF EntryBound

\* The one step that opens an entry finds room for it.
LEMMA InsertKeepsBound ==
  ASSUME TypeOK, EntryBound, NEW w \in Workers, InsertNew(w)
  PROVE  EntryBound'
  <1>1. Key(w) \in Keys /\ Key(w) # Other
    BY TableAssumption DEF TypeOK, WorkerState, InsertNew, Key
  <1>2. Live' = Live \cup {Key(w)} /\ Key(w) \notin Live
    BY <1>1 DEF InsertNew, Put, Live
  <1>3. IsFiniteSet(Live) /\ Cardinality(Live) \in Nat
    BY FS_Subset, FS_CardinalityType DEF TypeOK, TableOK, Live
  <1>4. Cardinality(Live') = Cardinality(Live) + 1
    BY <1>2, <1>3, FS_AddElement
  <1> QED
    BY <1>3, <1>4, TableAssumption DEF EntryBound, InsertNew, Full

\* The entry bound is inductive: insert alone can threaten it.
LEMMA NextEntryBound == TypeOK /\ EntryBound /\ [Next]_vars => EntryBound'
  <1> SUFFICES ASSUME TypeOK, EntryBound, [Next]_vars PROVE EntryBound'
    OBVIOUS
  <1>1. ASSUME NEW w \in Workers, InsertNew(w) PROVE EntryBound'
    BY <1>1, InsertKeepsBound
  <1>2. ASSUME NEW w \in Workers, Add(w), ~InsertNew(w) PROVE DOMAIN table' \subseteq DOMAIN table
    BY <1>2 DEF Add, Lookup, AddCounters, Latch, Stamp, WantInsert, InsertPresent,
                InsertRefused, Fold, tableVars, TypeOK, TableOK
  <1>3. CASE Sweep
    <2>1. DOMAIN table' \subseteq DOMAIN table
      BY <1>3 DEF Sweep
    <2> QED
      BY <2>1, ShrinkKeepsBound
  <1>4. CASE Tick \/ SweepTick \/ WantSweep \/ Snapshot \/ Read \/ UNCHANGED vars
    <2>1. UNCHANGED table
      BY <1>4 DEF Tick, SweepTick, WantSweep, Snapshot, Read, ReadCounters, ReadLatch,
                  Publish, vars, tableVars
    <2> QED
      BY <2>1, ShrinkKeepsBound
  <1>5. ASSUME NEW w \in Workers, Ingest(w) \/ \E r \in Records : IngestOne(w, r)
        PROVE  EntryBound'
    <2>1. UNCHANGED table
      BY <1>5 DEF Ingest, IngestOne, tableVars
    <2> QED
      BY <2>1, ShrinkKeepsBound
  <1> QED
    BY <1>1, <1>2, <1>3, <1>4, <1>5, ShrinkKeepsBound DEF Next

\* The table never holds more entries than its bound, whatever happens between
\* the lookup that misses and the insertion.
THEOREM EntryBoundHolds == Spec => []EntryBound
  <1>1. Init => EntryBound
    <2> SUFFICES ASSUME Init PROVE EntryBound
      OBVIOUS
    <2>1. Live = {}
      BY DEF Init, Live
    <2> QED
      BY <2>1, FS_EmptySet, TableAssumption DEF EntryBound
  <1> QED
    BY <1>1, InitTypeOK, NextTypeOK, NextEntryBound, PTL DEF Spec

-----------------------------------------------------------------------------
(* The latch.  Setting it is right because the record that sets it is in   *)
(* the entry already, which is what HandsOK says of the worker that sets   *)
(* it: the invariant is LatchExact on top of CountInv.                     *)

\* A step that moves no worker into or out of the latch and changes no
\* remaining entry's counters or latch.
LEMMA KeepsLatch ==
  ASSUME TypeOK, LatchExact,
         DOMAIN table' \subseteq DOMAIN table,
         \A k \in DOMAIN table' : /\ table'[k].recs = table[k].recs
                                  /\ table'[k].unmeasured = table[k].unmeasured,
         \A v \in Workers : worker[v].pc = "latch" => worker'[v] = worker[v]
  PROVE  LatchExact'
  <1>1. \A k : Unlatched(k) \subseteq Unlatched(k)'
    BY DEF Unlatched
  <1> QED
    BY <1>1 DEF LatchExact

\* A record added with its latch in one step, under the write lock.
LEMMA WholeAddKeepsLatch ==
  ASSUME TypeOK, LatchExact, NEW k \in Keys, NEW r \in Records,
         DOMAIN table' = DOMAIN table \cup {k},
         \A j \in DOMAIN table \ {k} : table'[j] = table[j],
         \/ /\ k \in DOMAIN table
            /\ table'[k].recs = table[k].recs \cup {r}
            /\ table'[k].unmeasured = (table[k].unmeasured \/ r \notin Measured)
         \/ /\ table'[k].recs = {r}
            /\ table'[k].unmeasured = (r \notin Measured),
         \A v \in Workers : worker[v].pc = "latch" => worker'[v] = worker[v]
  PROVE  LatchExact'
  <1>1. \A j : Unlatched(j) \subseteq Unlatched(j)'
    BY DEF Unlatched
  <1>2. ASSUME NEW j \in DOMAIN table'
        PROVE  /\ table'[j].unmeasured => ~(table'[j].recs \subseteq Measured)
               /\ ~table'[j].unmeasured => table'[j].recs \subseteq Measured \cup Unlatched(j)'
    <2>1. j # k => j \in DOMAIN table /\ table'[j] = table[j]
      BY <1>2
    <2>2. CASE j # k
      BY <1>1, <2>1, <2>2 DEF LatchExact
    <2>3. CASE j = k
      BY <1>1, <2>3 DEF LatchExact
    <2> QED
      BY <2>2, <2>3
  <1> QED
    BY <1>2 DEF LatchExact

\* No step of add sets a latch without cause or forgets to set one.
LEMMA AddKeepsLatch ==
  ASSUME CountInv, LatchExact, NEW w \in Workers, Add(w)
  PROVE  LatchExact'
  <1> USE DEF tableVars
  <1>0. TypeOK /\ HandOK(w) /\ (worker[w].pc # "idle" => worker[w].rec \in Records)
    BY DEF CountInv, HandsOK, HandOK, TypeOK
  <1>a. ASSUME worker[w].pc # "latch", \A v \in Workers \ {w} : worker'[v] = worker[v],
               UNCHANGED table
        PROVE  LatchExact'
    BY <1>0, <1>a, KeepsLatch
  <1>1. CASE Lookup(w) \/ WantInsert(w) \/ InsertRefused(w) \/ Fold(w)
    <2>1. worker[w].pc # "latch" /\ UNCHANGED table
      BY <1>1 DEF Lookup, WantInsert, InsertRefused, Fold
    <2>2. \A v \in Workers \ {w} : worker'[v] = worker[v]
      BY <1>0, <1>1 DEF Lookup, WantInsert, InsertRefused, Fold, Go, GoAt, TypeOK
    <2> QED
      BY <1>a, <2>1, <2>2
  <1>2. CASE AddCounters(w)
    <2> DEFINE k == worker[w].at
               r == worker[w].rec
    <2>1. /\ k \in DOMAIN table /\ DOMAIN table' = DOMAIN table
          /\ table'[k].recs = table[k].recs \cup {r}
          /\ table'[k].unmeasured = table[k].unmeasured
          /\ \A j \in DOMAIN table \ {k} : table'[j] = table[j]
      BY <1>0, <1>2 DEF AddCounters, HandOK, TypeOK, TableOK, Entry
    <2>2. /\ worker'[w].pc = "latch" /\ worker'[w].at = k /\ worker'[w].rec = r
          /\ worker[w].pc = "counters"
          /\ \A v \in Workers \ {w} : worker'[v] = worker[v]
      BY <1>0, <1>2 DEF AddCounters, Go, TypeOK, WorkerState
    <2>3. \A j : Unlatched(j) \cup (IF j = k THEN {r} ELSE {}) \subseteq Unlatched(j)'
      BY <2>2 DEF Unlatched
    <2>4. ASSUME NEW j \in DOMAIN table'
          PROVE  /\ table'[j].unmeasured => ~(table'[j].recs \subseteq Measured)
                 /\ ~table'[j].unmeasured => table'[j].recs \subseteq Measured \cup Unlatched(j)'
      <3>1. CASE j = k
        BY <2>1, <2>3, <3>1 DEF LatchExact
      <3>2. CASE j # k
        BY <2>1, <2>3, <3>2 DEF LatchExact
      <3> QED
        BY <3>1, <3>2
    <2> QED
      BY <2>4 DEF LatchExact
  <1>3. CASE Latch(w)
    <2> DEFINE k == worker[w].at
               r == worker[w].rec
    <2>1. /\ k \in DOMAIN table /\ DOMAIN table' = DOMAIN table /\ r \in table[k].recs
          /\ table'[k].recs = table[k].recs
          /\ table'[k].unmeasured = (table[k].unmeasured \/ r \notin Measured)
          /\ \A j \in DOMAIN table \ {k} : table'[j] = table[j]
      BY <1>0, <1>3 DEF Latch, Latched, HandOK, TypeOK, TableOK, Entry
    <2>2. \A v \in Workers \ {w} : worker'[v] = worker[v]
      BY <1>0, <1>3 DEF Latch, Go, TypeOK
    <2>3. \A j : Unlatched(j) \subseteq Unlatched(j)' \cup (IF j = k THEN {r} ELSE {})
      BY <2>2 DEF Unlatched
    <2>4. ASSUME NEW j \in DOMAIN table'
          PROVE  /\ table'[j].unmeasured => ~(table'[j].recs \subseteq Measured)
                 /\ ~table'[j].unmeasured => table'[j].recs \subseteq Measured \cup Unlatched(j)'
      <3>1. CASE j = k
        BY <2>1, <2>3, <3>1 DEF LatchExact
      <3>2. CASE j # k
        BY <2>1, <2>3, <3>2 DEF LatchExact
      <3> QED
        BY <3>1, <3>2
    <2> QED
      BY <2>4 DEF LatchExact
  <1>4. CASE Stamp(w)
    <2>1. /\ DOMAIN table' = DOMAIN table
          /\ \A j \in DOMAIN table : /\ table'[j].recs = table[j].recs
                                     /\ table'[j].unmeasured = table[j].unmeasured
      BY <1>0, <1>4 DEF Stamp, TypeOK, TableOK, Entry
    <2>2. worker[w].pc = "stamp" /\ \A v \in Workers \ {w} : worker'[v] = worker[v]
      BY <1>0, <1>4 DEF Stamp, Return, TypeOK
    <2> QED
      BY <1>0, <2>1, <2>2, KeepsLatch
  <1>5. CASE InsertPresent(w)
    <2> DEFINE k == Key(w)
               r == worker[w].rec
    <2>1. /\ k \in Keys /\ r \in Records /\ k \in DOMAIN table
      BY <1>0, <1>5, TableAssumption DEF InsertPresent, Key, Live
    <2>2. /\ DOMAIN table' = DOMAIN table \cup {k}
          /\ table'[k].recs = table[k].recs \cup {r}
          /\ table'[k].unmeasured = (table[k].unmeasured \/ r \notin Measured)
          /\ \A j \in DOMAIN table \ {k} : table'[j] = table[j]
      BY <1>0, <1>5, <2>1 DEF InsertPresent, Added, Latched, TypeOK, TableOK, Entry
    <2>3. worker[w].pc = "insert" /\ \A v \in Workers \ {w} : worker'[v] = worker[v]
      BY <1>0, <1>5 DEF InsertPresent, Return, TypeOK
    <2>4. \A v \in Workers : worker[v].pc = "latch" => worker'[v] = worker[v]
      BY <2>3
    <2> QED
      BY <1>0, <2>1, <2>2, <2>4, WholeAddKeepsLatch
  <1>6. CASE InsertNew(w)
    <2> DEFINE k == Key(w)
               r == worker[w].rec
    <2>1. k \in Keys /\ r \in Records /\ k \notin DOMAIN table
      BY <1>0, <1>6, TableAssumption DEF InsertNew, Key, Live
    <2>2. /\ DOMAIN table' = DOMAIN table \cup {k}
          /\ table'[k].recs = {r} /\ table'[k].unmeasured = (r \notin Measured)
          /\ \A j \in DOMAIN table \ {k} : table'[j] = table[j]
      BY <1>6, <2>1 DEF InsertNew, Put, NewEntry, Latched
    <2>3. worker[w].pc = "insert" /\ \A v \in Workers \ {w} : worker'[v] = worker[v]
      BY <1>0, <1>6 DEF InsertNew, Return, TypeOK
    <2>4. \A v \in Workers : worker[v].pc = "latch" => worker'[v] = worker[v]
      BY <2>3
    <2> QED
      BY <1>0, <2>1, <2>2, <2>4, WholeAddKeepsLatch
  <1> QED
    BY <1>1, <1>2, <1>3, <1>4, <1>5, <1>6 DEF Add

\* The latch is exact after every step, given the counting invariant.
LEMMA NextLatchExact == CountInv /\ LatchExact /\ [Next]_vars => LatchExact'
  <1> SUFFICES ASSUME CountInv, LatchExact, [Next]_vars PROVE LatchExact'
    OBVIOUS
  <1> USE DEF tableVars
  <1>0. TypeOK
    BY DEF CountInv
  <1>1. CASE Tick \/ SweepTick \/ WantSweep \/ Snapshot \/ Read \/ UNCHANGED vars
    <2>1. UNCHANGED <<table, worker>>
      BY <1>1 DEF Tick, SweepTick, WantSweep, Snapshot, Read, ReadCounters, ReadLatch,
                  Publish, vars
    <2> QED
      BY <1>0, <2>1, KeepsLatch
  <1>2. ASSUME NEW w \in Workers, Ingest(w) \/ \E r \in Records : IngestOne(w, r)
        PROVE  LatchExact'
    <2>1. worker[w].pc = "idle" /\ UNCHANGED table
      BY <1>2 DEF Ingest, IngestOne
    <2>2. \A v \in Workers \ {w} : worker'[v] = worker[v]
      BY <1>0, <1>2 DEF Ingest, IngestOne, TypeOK
    <2>3. \A v \in Workers : worker[v].pc = "latch" => worker'[v] = worker[v]
      BY <2>1, <2>2
    <2> QED
      BY <1>0, <2>1, <2>3, KeepsLatch
  <1>3. ASSUME NEW w \in Workers, Add(w) PROVE LatchExact'
    BY <1>3, AddKeepsLatch
  <1>4. CASE Sweep
    <2>1. /\ DOMAIN table' \subseteq DOMAIN table /\ UNCHANGED worker
          /\ \A k \in DOMAIN table' : table'[k] = table[k]
      BY <1>4 DEF Sweep
    <2> QED
      BY <1>0, <2>1, KeepsLatch
  <1> QED
    BY <1>1, <1>2, <1>3, <1>4 DEF Next

\* A series is withheld for a count exactly when a record it sums lacked that
\* count, but for a record whose add is between its counters and its latch.
THEOREM LatchExactHolds == Spec => []LatchExact
  <1>1. Init => LatchExact
    <2> SUFFICES ASSUME Init PROVE LatchExact
      OBVIOUS
    <2>1. DOMAIN table = {Other} /\ table[Other].recs = {} /\ ~table[Other].unmeasured
      BY DEF Init
    <2> QED
      BY <2>1 DEF LatchExact
  <1>2. Spec => []CountInv
    BY InitCountInv, NextCountInv, PTL DEF Spec
  <1> QED
    BY <1>1, <1>2, NextLatchExact, PTL DEF Spec

-----------------------------------------------------------------------------
(* The folds.  The counter moves before the record reaches the bucket, so  *)
(* the bound is inductive once the records on their way to it are counted  *)
(* in.                                                                     *)

Folding == {w \in Workers : worker[w].pc = "counters" /\ worker[w].at = Other}
Overflowed == table[Other].recs \cup {worker[w].rec : w \in Folding}

FoldInv == IsFiniteSet(Overflowed) /\ Cardinality(Overflowed) <= capacityFolds

\* A step that sends nothing to the bucket keeps the bound.
LEMMA ShrinkKeepsFolds ==
  ASSUME TypeOK, FoldInv, Overflowed' \subseteq Overflowed, capacityFolds' = capacityFolds
  PROVE  FoldInv'
  <1>1. IsFiniteSet(Overflowed') /\ Cardinality(Overflowed') <= Cardinality(Overflowed)
    BY FS_Subset DEF FoldInv
  <1>2. Cardinality(Overflowed') \in Nat /\ Cardinality(Overflowed) \in Nat
    BY <1>1, FS_CardinalityType DEF FoldInv
  <1> QED
    BY <1>1, <1>2 DEF FoldInv, TypeOK

\* A worker other than w folds what it folded before.
LEMMA OthersFold ==
  ASSUME NEW w \in Workers, OnlyMoves(w), NEW x, x \in {worker'[v].rec : v \in Folding'}
  PROVE  \/ x \in {worker[v].rec : v \in Folding}
         \/ w \in Folding' /\ x = worker'[w].rec
  BY DEF OnlyMoves, Folding

\* No step of add brings the bucket a record its counter has not counted.
LEMMA AddKeepsFolds ==
  ASSUME TypeOK, TypeOK', HandsOK, FoldInv, NEW w \in Workers, Add(w)
  PROVE  FoldInv'
  <1> USE DEF tableVars
  <1>0. /\ Other \in DOMAIN table /\ table \in [DOMAIN table -> Entry]
        /\ Other \notin Keys /\ HandOK(w) /\ worker \in [Workers -> WorkerState]
        /\ worker[w].pc # "idle" => Key(w) \in Keys
    BY TableAssumption DEF TypeOK, TableOK, HandsOK, WorkerState, Key
  <1>m. OnlyMoves(w)
    BY <1>0 DEF Add, Lookup, AddCounters, Latch, Stamp, WantInsert, InsertPresent, InsertNew,
                InsertRefused, Fold, Go, GoAt, Return, OnlyMoves
  <1>a. ASSUME table'[Other].recs \subseteq table[Other].recs, w \notin Folding',
               capacityFolds' = capacityFolds
        PROVE  FoldInv'
    <2>1. Overflowed' \subseteq Overflowed
      BY <1>a, <1>m, OthersFold DEF Overflowed
    <2> QED
      BY <2>1, <1>a, ShrinkKeepsFolds
  <1>1. CASE Lookup(w)
    <2>1. UNCHANGED <<table, capacityFolds>>
      BY <1>1 DEF Lookup
    <2>2. CASE Go(w, "lock")
      <3>1. worker'[w].pc = "lock"
        BY <1>0, <2>2 DEF Go, WorkerState
      <3> QED
        BY <2>1, <3>1, <1>a DEF Folding
    <2>3. CASE Key(w) \in Live /\ GoAt(w, "counters", Key(w))
      <3>1. worker'[w].at = Key(w) /\ Key(w) # Other
        BY <1>0, <2>3 DEF GoAt, WorkerState, Live
      <3> QED
        BY <2>1, <3>1, <1>a DEF Folding
    <2> QED
      BY <1>1, <2>2, <2>3 DEF Lookup
  <1>2. CASE AddCounters(w)
    <2>1. worker'[w].pc = "latch" /\ capacityFolds' = capacityFolds
      BY <1>0, <1>2 DEF AddCounters, Go, WorkerState
    <2>2. CASE worker[w].at = Other
      <3>1. w \in Folding
        BY <1>2, <2>2 DEF AddCounters, Folding
      <3>2. table'[Other].recs = table[Other].recs \cup {worker[w].rec}
        BY <1>0, <1>2, <2>2 DEF AddCounters, Entry
      <3>3. Overflowed' \subseteq Overflowed
        BY <1>m, <2>1, <3>1, <3>2, OthersFold DEF Overflowed, Folding
      <3> QED
        BY <2>1, <3>3, ShrinkKeepsFolds
    <2>3. CASE worker[w].at # Other
      <3>1. table'[Other] = table[Other]
        BY <1>0, <1>2, <2>3 DEF AddCounters
      <3> QED
        BY <2>1, <3>1, <1>a DEF Folding
    <2> QED
      BY <2>2, <2>3
  <1>3. CASE Latch(w) \/ Stamp(w)
    <2>1. table'[Other].recs = table[Other].recs
      <3>1. CASE Latch(w)
        BY <1>0, <3>1 DEF Latch, Entry
      <3>2. CASE Stamp(w)
        BY <1>0, <3>2 DEF Stamp, Entry
      <3> QED
        BY <1>3, <3>1, <3>2
    <2>2. worker'[w].pc \in {"stamp", "idle"} /\ capacityFolds' = capacityFolds
      BY <1>0, <1>3 DEF Latch, Stamp, Go, Return, WorkerState
    <2> QED
      BY <2>1, <2>2, <1>a DEF Folding
  <1>4. CASE WantInsert(w) \/ InsertRefused(w)
    <2>1. worker'[w].pc \in {"insert", "fold"} /\ UNCHANGED <<table, capacityFolds>>
      BY <1>0, <1>4 DEF WantInsert, InsertRefused, Go, WorkerState
    <2> QED
      BY <2>1, <1>a DEF Folding
  <1>5. CASE InsertPresent(w) \/ InsertNew(w)
    <2>1. worker'[w].pc = "idle" /\ capacityFolds' = capacityFolds
      BY <1>0, <1>5 DEF InsertPresent, InsertNew, Return, WorkerState
    <2>2. table'[Other] = table[Other]
      BY <1>0, <1>5 DEF InsertPresent, InsertNew, Put
    <2> QED
      BY <2>1, <2>2, <1>a DEF Folding
  <1>6. CASE Fold(w)
    <2>1. table' = table /\ capacityFolds' = capacityFolds + 1
      BY <1>6 DEF Fold
    <2>2. worker'[w].rec = worker[w].rec
      BY <1>0, <1>6 DEF Fold, GoAt, WorkerState
    <2>3. Overflowed' \subseteq Overflowed \cup {worker[w].rec}
      BY <1>m, <2>1, <2>2, OthersFold DEF Overflowed
    <2> DEFINE More == Overflowed \cup {worker[w].rec}
    <2>4. /\ IsFiniteSet(More) /\ Cardinality(Overflowed) \in Nat
          /\ Cardinality(More) \in Nat /\ Cardinality(More) <= Cardinality(Overflowed) + 1
      <3>1. IsFiniteSet(Overflowed) /\ Cardinality(Overflowed) \in Nat
        BY FS_CardinalityType DEF FoldInv
      <3> HIDE DEF Overflowed
      <3>2. /\ IsFiniteSet(More)
            /\ Cardinality(More) = Cardinality(Overflowed)
                 \/ Cardinality(More) = Cardinality(Overflowed) + 1
        BY <3>1, FS_AddElement
      <3> QED
        BY <3>1, <3>2
    <2>5. /\ IsFiniteSet(Overflowed') /\ Cardinality(Overflowed') <= Cardinality(More)
          /\ Cardinality(Overflowed') \in Nat
      BY <2>3, <2>4, FS_Subset, FS_CardinalityType
    <2> QED
      BY <2>1, <2>4, <2>5 DEF FoldInv, TypeOK
  <1> QED
    BY <1>1, <1>2, <1>3, <1>4, <1>5, <1>6 DEF Add

\* The fold bound is inductive, given the counting invariant.
LEMMA NextFoldInv == CountInv /\ FoldInv /\ [Next]_vars => FoldInv'
  <1> SUFFICES ASSUME CountInv, FoldInv, [Next]_vars PROVE FoldInv'
    OBVIOUS
  <1> USE DEF tableVars
  <1>0. TypeOK /\ TypeOK' /\ HandsOK
    BY NextTypeOK DEF CountInv
  <1>1. CASE Tick \/ SweepTick \/ WantSweep \/ Snapshot \/ Read \/ UNCHANGED vars
    <2>1. UNCHANGED <<table, worker, capacityFolds>>
      BY <1>1 DEF Tick, SweepTick, WantSweep, Snapshot, Read, ReadCounters, ReadLatch,
                  Publish, vars
    <2>2. Overflowed' = Overflowed
      BY <2>1 DEF Overflowed, Folding
    <2> QED
      BY <1>0, <2>1, <2>2, ShrinkKeepsFolds
  <1>2. ASSUME NEW w \in Workers, Ingest(w) \/ \E r \in Records : IngestOne(w, r)
        PROVE  FoldInv'
    <2>1. worker'[w].pc # "counters" /\ UNCHANGED <<table, capacityFolds>>
      BY <1>0, <1>2 DEF Ingest, IngestOne, TypeOK, WorkerState
    <2>2. OnlyMoves(w)
      BY <1>0, <1>2 DEF Ingest, IngestOne, TypeOK, OnlyMoves
    <2>3. Overflowed' \subseteq Overflowed
      BY <2>1, <2>2, OthersFold DEF Overflowed, Folding
    <2> QED
      BY <1>0, <2>1, <2>3, ShrinkKeepsFolds
  <1>3. ASSUME NEW w \in Workers, Add(w) PROVE FoldInv'
    BY <1>0, <1>3, AddKeepsFolds
  <1>4. CASE Sweep
    <2>1. table'[Other] = table[Other] /\ UNCHANGED <<worker, capacityFolds>>
      BY <1>0, <1>4 DEF Sweep, IdleKeys, Live, TypeOK, TableOK
    <2>2. Overflowed' = Overflowed
      BY <2>1 DEF Overflowed, Folding
    <2> QED
      BY <1>0, <2>1, <2>2, ShrinkKeepsFolds
  <1> QED
    BY <1>1, <1>2, <1>3, <1>4 DEF Next

\* The overflow bucket never counts a record the fold counter does not explain,
\* whatever the workers that fold do between the counter and the bucket.
THEOREM FoldsExplainOverflowHolds == Spec => []FoldsExplainOverflow
  <1>1. Init => FoldInv
    <2> SUFFICES ASSUME Init PROVE FoldInv
      OBVIOUS
    <2>1. Overflowed = {}
      BY DEF Init, Overflowed, Folding
    <2> QED
      BY <2>1, FS_EmptySet DEF Init, FoldInv
  <1>2. Spec => []CountInv
    BY InitCountInv, NextCountInv, PTL DEF Spec
  <1>3. TypeOK /\ FoldInv => FoldsExplainOverflow
    <2> SUFFICES ASSUME TypeOK, FoldInv PROVE FoldsExplainOverflow
      OBVIOUS
    <2>1. /\ IsFiniteSet(table[Other].recs)
          /\ Cardinality(table[Other].recs) <= Cardinality(Overflowed)
      BY FS_Subset DEF FoldInv, Overflowed
    <2>2. Cardinality(table[Other].recs) \in Nat /\ Cardinality(Overflowed) \in Nat
      BY <2>1, FS_CardinalityType DEF FoldInv
    <2> QED
      BY <2>1, <2>2 DEF FoldInv, FoldsExplainOverflow, TypeOK
  <1>4. CountInv => TypeOK
    BY DEF CountInv
  <1> QED
    BY <1>1, <1>2, <1>3, <1>4, NextFoldInv, PTL DEF Spec

-----------------------------------------------------------------------------
(* The table implements Tally.  A step that adds a record's counters is    *)
(* Tally's Count or Refuse, which ask that it is counted nowhere yet: that *)
(* is HandsOK.  A sweep is Tally's Drop, and every other step a stutter.   *)

Series == [k \in Keys |-> IF k \in Live THEN table[k].recs ELSE {}]

\* The place where Tally looks for a record is a place of the table.
LEMMA UncountedInTally ==
  ASSUME TypeOK, NEW r \in Records, Uncounted(r)
  PROVE  r \notin T!Counted
  <1>1. r \notin evicted /\ r \notin table[Other].recs
    BY DEF TypeOK, TableOK, Uncounted
  <1>2. \A k \in Keys : r \notin (IF k \in Live THEN table[k].recs ELSE {})
    BY DEF Uncounted, Live
  <1> QED
    BY <1>1, <1>2 DEF T!Counted

\* Nothing is counted at the start.
LEMMA InitTally == Init => T!Init
  <1> SUFFICES ASSUME Init PROVE T!Init
    OBVIOUS
  <1>1. Live = {} /\ table[Other].recs = {} /\ evicted = {}
    BY DEF Init, Live
  <1> QED
    BY <1>1 DEF T!Init

\* Tally sees nothing of a step that moves no record.
LEMMA StutterInTally ==
  ASSUME TypeOK, DOMAIN table' = DOMAIN table, evicted' = evicted,
         \A k \in DOMAIN table : table'[k].recs = table[k].recs
  PROVE  UNCHANGED T!vars
  <1>1. Live' = Live /\ Other \in DOMAIN table
    BY DEF Live, TypeOK, TableOK
  <1>2. table'[Other].recs = table[Other].recs
    BY <1>1
  <1>3. \A k \in Keys : (IF k \in Live' THEN table'[k].recs ELSE {})
                          = (IF k \in Live THEN table[k].recs ELSE {})
    BY <1>1 DEF Live
  <1> QED
    BY <1>2, <1>3 DEF T!vars

\* Counting a record in its key's entry, present or new, is Tally's Count.
LEMMA CountInTally ==
  ASSUME TypeOK, NEW r \in Records, Uncounted(r), evicted' = evicted,
         DOMAIN table' = DOMAIN table \cup {KeyOf[r]},
         \A k \in DOMAIN table \ {KeyOf[r]} : table'[k].recs = table[k].recs,
         table'[KeyOf[r]].recs =
           (IF KeyOf[r] \in DOMAIN table THEN table[KeyOf[r]].recs ELSE {}) \cup {r}
  PROVE  T!Count(r)
  <1>0. KeyOf[r] \in Keys /\ Other \notin Keys /\ Other \in DOMAIN table
    BY TableAssumption DEF TypeOK, TableOK
  <1>1. Live' = Live \cup {KeyOf[r]}
    BY <1>0 DEF Live
  <1>2. table'[Other].recs = table[Other].recs
    BY <1>0
  <1>3. Series' = [Series EXCEPT ![KeyOf[r]] = @ \cup {r}]
    <2>1. ASSUME NEW k \in Keys, k # KeyOf[r] PROVE Series'[k] = Series[k]
      BY <1>1, <2>1 DEF Series, Live
    <2>2. Series'[KeyOf[r]] = Series[KeyOf[r]] \cup {r}
      BY <1>0, <1>1 DEF Series, Live
    <2>3. /\ Series = [k \in Keys |-> Series[k]]
          /\ Series' = [k \in Keys |-> Series'[k]]
      BY DEF Series
    <2> HIDE DEF Series
    <2> QED
      BY <1>0, <2>1, <2>2, <2>3
  <1>4. r \notin T!Counted
    BY UncountedInTally
  <1> QED
    BY <1>2, <1>3, <1>4 DEF T!Count, Series

\* A step of add is one count, one refusal, or nothing to Tally.
LEMMA AddInTally ==
  ASSUME CountInv, NEW w \in Workers, Add(w)
  PROVE  [T!Next]_(T!vars)
  <1> USE DEF tableVars
  <1>r. PICK r : r = worker[w].rec
    OBVIOUS
  <1>0. /\ TypeOK /\ HandOK(w) /\ table \in [DOMAIN table -> Entry] /\ Other \in DOMAIN table
        /\ worker[w].pc # "idle" => r \in Records
    BY <1>r DEF CountInv, HandsOK, HandOK, TypeOK, TableOK
  <1>1. CASE Lookup(w) \/ WantInsert(w) \/ InsertRefused(w) \/ Fold(w)
    <2>1. UNCHANGED <<table, evicted>>
      BY <1>1 DEF Lookup, WantInsert, InsertRefused, Fold
    <2> QED
      BY <1>0, <2>1, StutterInTally
  <1>2. CASE Latch(w)
    <2>1. /\ DOMAIN table' = DOMAIN table /\ evicted' = evicted
          /\ \A k \in DOMAIN table : table'[k].recs = table[k].recs
      BY <1>0, <1>2 DEF Latch, Entry
    <2> QED
      BY <1>0, <2>1, StutterInTally
  <1>3. CASE Stamp(w)
    <2>1. /\ DOMAIN table' = DOMAIN table /\ evicted' = evicted
          /\ \A k \in DOMAIN table : table'[k].recs = table[k].recs
      BY <1>0, <1>3 DEF Stamp, Entry
    <2> QED
      BY <1>0, <2>1, StutterInTally
  <1>4. CASE AddCounters(w)
    <2>k. PICK k : k = worker[w].at
      OBVIOUS
    <2>1. /\ k \in DOMAIN table /\ k \in {KeyOf[r], Other} /\ Uncounted(r) /\ r \in Records
      BY <1>r, <1>0, <1>4, <2>k DEF AddCounters, HandOK
    <2>2. /\ DOMAIN table' = DOMAIN table /\ evicted' = evicted
          /\ table'[k].recs = table[k].recs \cup {r}
          /\ \A j \in DOMAIN table \ {k} : table'[j].recs = table[j].recs
      BY <1>r, <1>0, <1>4, <2>k, <2>1 DEF AddCounters, Entry
    <2>3. CASE k = Other
      <3>1. Live' = Live
        BY <2>2 DEF Live
      <3>2. Series' = Series
        BY <2>2, <2>3, <3>1 DEF Series, Live
      <3>3. T!Refuse(r)
        BY <1>0, <2>1, <2>2, <2>3, <3>2, UncountedInTally DEF T!Refuse, Series
      <3> QED
        BY <2>1, <3>3 DEF T!Next
    <2>4. CASE k = KeyOf[r]
      <3>1. T!Count(r)
        BY <1>0, <2>1, <2>2, <2>4, CountInTally
      <3> QED
        BY <2>1, <3>1 DEF T!Next
    <2> QED
      BY <2>1, <2>3, <2>4
  <1>5. CASE InsertPresent(w)
    <2>1. Uncounted(r) /\ r \in Records /\ KeyOf[r] \in DOMAIN table
      BY <1>r, <1>0, <1>5 DEF InsertPresent, HandOK, Key, Live
    <2>2. /\ DOMAIN table' = DOMAIN table /\ evicted' = evicted
          /\ table'[KeyOf[r]].recs = table[KeyOf[r]].recs \cup {r}
          /\ \A j \in DOMAIN table \ {KeyOf[r]} : table'[j].recs = table[j].recs
      BY <1>r, <1>0, <1>5, <2>1 DEF InsertPresent, Added, Key, Entry
    <2>3. T!Count(r)
      BY <1>0, <2>1, <2>2, CountInTally
    <2> QED
      BY <2>1, <2>3 DEF T!Next
  <1>6. CASE InsertNew(w)
    <2>1. Uncounted(r) /\ r \in Records /\ KeyOf[r] \notin DOMAIN table
      BY <1>r, <1>0, <1>6, TableAssumption DEF InsertNew, HandOK, Key, Live
    <2>2. /\ DOMAIN table' = DOMAIN table \cup {KeyOf[r]} /\ evicted' = evicted
          /\ table'[KeyOf[r]].recs = {r}
          /\ \A j \in DOMAIN table \ {KeyOf[r]} : table'[j].recs = table[j].recs
      BY <1>r, <1>6, <2>1 DEF InsertNew, Put, NewEntry, Key
    <2>3. T!Count(r)
      BY <1>0, <2>1, <2>2, CountInTally
    <2> QED
      BY <2>1, <2>3 DEF T!Next
  <1> QED
    BY <1>1, <1>2, <1>3, <1>4, <1>5, <1>6 DEF Add

\* A sweep is one drop of whole series.
LEMMA SweepInTally ==
  ASSUME CountInv, Sweep
  PROVE  T!Next
  <1>0. TypeOK /\ Other \in DOMAIN table /\ DOMAIN table \subseteq Places
    BY DEF CountInv, TypeOK, TableOK
  <1>1. IdleKeys \subseteq Live /\ IdleKeys \in SUBSET Keys
    BY <1>0 DEF IdleKeys, Live, Places
  <1>2. /\ DOMAIN table' = DOMAIN table \ IdleKeys
        /\ \A k \in DOMAIN table' : table'[k] = table[k]
    BY DEF Sweep
  <1>3. table'[Other].recs = table[Other].recs
    BY <1>0, <1>1, <1>2 DEF Live
  <1>4. \A k \in IdleKeys : Series[k] = table[k].recs
    BY <1>1 DEF Series
  <1>5. evicted' = evicted \cup UNION {Series[k] : k \in IdleKeys}
    BY <1>4 DEF Sweep
  <1>6. Series' = [k \in Keys |-> IF k \in IdleKeys THEN {} ELSE Series[k]]
    <2>1. ASSUME NEW k \in Keys
          PROVE  Series'[k] = IF k \in IdleKeys THEN {} ELSE Series[k]
      <3>1. k \in Live' <=> k \in Live /\ k \notin IdleKeys
        BY <1>2 DEF Live
      <3> QED
        BY <1>1, <1>2, <3>1 DEF Series, Live
    <2> QED
      BY <2>1 DEF Series
  <1>7. PICK K \in SUBSET Keys : K = IdleKeys
    BY <1>1
  <1>8. T!Drop(K)
    BY <1>3, <1>5, <1>6, <1>7 DEF T!Drop, Series
  <1> QED
    BY <1>8 DEF T!Next

\* Every step is a step of Tally, or shows nothing to it.
LEMMA NextInTally == CountInv /\ [Next]_vars => [T!Next]_(T!vars)
  <1> SUFFICES ASSUME CountInv, [Next]_vars PROVE [T!Next]_(T!vars)
    OBVIOUS
  <1>1. CASE UNCHANGED <<table, evicted>>
    BY <1>1, StutterInTally DEF CountInv
  <1>2. CASE Tick \/ SweepTick \/ WantSweep \/ Snapshot \/ Read \/ UNCHANGED vars
    BY <1>1, <1>2 DEF Tick, SweepTick, WantSweep, Snapshot, Read, ReadCounters, ReadLatch,
                      Publish, vars, tableVars
  <1>3. ASSUME NEW w \in Workers, Ingest(w) \/ \E r \in Records : IngestOne(w, r)
        PROVE  [T!Next]_(T!vars)
    BY <1>1, <1>3 DEF Ingest, IngestOne, tableVars
  <1>4. ASSUME NEW w \in Workers, Add(w) PROVE [T!Next]_(T!vars)
    BY <1>4, AddInTally
  <1>5. CASE Sweep
    BY <1>5, SweepInTally
  <1> QED
    BY <1>2, <1>3, <1>4, <1>5 DEF Next

\* The table, its locks, its sweeps and its scrapes count as Tally does: every
\* record once, under its own key or under "other", and dropped only whole.
THEOREM TableCountsAsTally == Spec => CountsAsTally
  <1>1. Spec => []CountInv
    BY InitCountInv, NextCountInv, PTL DEF Spec
  <1> QED
    BY <1>1, InitTally, NextInTally, PTL DEF Spec, CountsAsTally, T!Spec

-----------------------------------------------------------------------------
(* Idle entries only.  EvictsOnlyIdle needs to know where lastSeen stands: *)
(* not before the stamp of any record in the entry whose add has returned, *)
(* if one worker carried them all, because that worker's stamps only grow. *)

\* A worker's stamp is an instant its clock has shown, and no record it took
\* is stamped later than it.
Carried ==
  /\ \A w \in Workers : worker[w].stamp <= now
  /\ \A w \in Workers : worker[w].pc # "idle" => carrier[worker[w].rec] = w
  /\ \A r \in taken : carrier[r] \in Workers /\ stampOf[r] <= worker[carrier[r]].stamp

\* Between its counters and its stamp, a worker's own record may be later than
\* the entry.
Unstamped(r) == \E w \in Workers : worker[w].pc \in {"latch", "stamp"} /\ worker[w].rec = r

\* One worker carried every record of the entry.
Sole(k) == \E w \in Workers : \A r \in table[k].recs : carrier[r] = w

LastSeen ==
  \A k \in DOMAIN table : Sole(k) =>
    \A r \in table[k].recs : stampOf[r] <= table[k].lastSeen \/ Unstamped(r)

IdleInv == CountInv /\ Carried /\ LastSeen

\* What is counted was taken, and a worker's own record is counted where it
\* points and nowhere else.
LEMMA CountedTaken ==
  ASSUME CountInv
  PROVE  /\ \A k \in DOMAIN table : table[k].recs \subseteq taken /\ table[k].recs \subseteq Records
         /\ \A w \in Workers, k \in DOMAIN table :
              worker[w].pc \in {"latch", "stamp"} /\ worker[w].rec \in table[k].recs
                => k = worker[w].at
  <1>1. \A k \in DOMAIN table : table[k].recs \subseteq Records
    BY DEF CountInv, TypeOK, TableOK, Entry
  <1>2. \A k \in DOMAIN table : table[k].recs \subseteq taken
    BY <1>1 DEF CountInv, HandsOK, Uncounted
  <1>3. ASSUME NEW w \in Workers, NEW k \in DOMAIN table,
               worker[w].pc \in {"latch", "stamp"}, worker[w].rec \in table[k].recs
        PROVE  k = worker[w].at
    <2>1. HandOK(w)
      BY DEF CountInv, HandsOK
    <2>2. worker[w].at \in DOMAIN table /\ worker[w].rec \in table[worker[w].at].recs
      BY <1>3, <2>1 DEF HandOK
    <2> QED
      BY <1>1, <1>3, <2>2 DEF CountInv, CountedOnce
  <1> QED
    BY <1>1, <1>2, <1>3

\* The instants compared below are integers.
LEMMA InstantsAreInts ==
  ASSUME TypeOK
  PROVE  /\ now \in Int /\ sweeper.tick \in Int /\ TTL \in Int
         /\ \A w \in Workers : worker[w].stamp \in Int
         /\ \A r \in Records : stampOf[r] \in Int
         /\ \A k \in DOMAIN table : table[k].lastSeen \in Int
  <1>1. Time \subseteq Int
    BY TableAssumption DEF Time
  <1>2. \A w \in Workers : worker[w].stamp \in Time
    BY WorkerShape DEF TypeOK
  <1> QED
    BY <1>1, <1>2, TableAssumption DEF TypeOK, TableOK, Entry, SweeperState

\* A worker that keeps its stamp and its record, or drops it, carries what it
\* carried.
LEMMA KeepsCarried ==
  ASSUME Carried, UNCHANGED <<taken, stampOf, carrier, now>>,
         \A v \in Workers : /\ worker'[v].stamp = worker[v].stamp
                            /\ worker'[v].pc # "idle" =>
                                 worker[v].pc # "idle" /\ worker'[v].rec = worker[v].rec
  PROVE  Carried'
  <1>1. \A v \in Workers : worker'[v].stamp <= now'
    BY DEF Carried
  <1>2. \A v \in Workers : worker'[v].pc # "idle" => carrier'[worker'[v].rec] = v
    BY DEF Carried
  <1>3. \A r \in taken : carrier[r] \in Workers /\ stampOf[r] <= worker'[carrier[r]].stamp
    BY DEF Carried
  <1> QED
    BY <1>1, <1>2, <1>3 DEF Carried

\* A step that leaves the entries it keeps as they were.
LEMMA KeepsLastSeen ==
  ASSUME LastSeen, DOMAIN table' \subseteq DOMAIN table,
         \A k \in DOMAIN table' : /\ table'[k].recs = table[k].recs
                                  /\ table'[k].lastSeen = table[k].lastSeen,
         \A k \in DOMAIN table : \A r \in table[k].recs :
           carrier'[r] = carrier[r] /\ stampOf'[r] = stampOf[r],
         \A v \in Workers : worker[v].pc \in {"latch", "stamp"} =>
           worker'[v].pc \in {"latch", "stamp"} /\ worker'[v].rec = worker[v].rec
  PROVE  LastSeen'
  <1> SUFFICES ASSUME NEW k \in DOMAIN table', Sole(k)', NEW r \in table'[k].recs
               PROVE  stampOf'[r] <= table'[k].lastSeen \/ Unstamped(r)'
    BY DEF LastSeen
  <1>1. Sole(k)
    BY DEF Sole
  <1>2. Unstamped(r) => Unstamped(r)'
    BY DEF Unstamped
  <1> QED
    BY <1>1, <1>2 DEF LastSeen

\* A step that stamps place k with the worker's instant, when the worker's
\* record is the only one it may add there.
LEMMA StampsLastSeen ==
  ASSUME TypeOK, Carried, LastSeen, NEW w \in Workers, NEW k,
         worker[w].pc # "idle", OnlyMoves(w),
         DOMAIN table' = DOMAIN table \cup {k},
         \A j \in DOMAIN table \ {k} : table'[j] = table[j],
         table'[k].lastSeen = worker[w].stamp,
         worker[w].rec \in table'[k].recs,
         table'[k].recs \subseteq taken, taken \subseteq Records,
         worker[w].pc \in {"latch", "stamp"} =>
           \A j \in DOMAIN table \ {k} : worker[w].rec \notin table[j].recs,
         UNCHANGED <<stampOf, carrier>>
  PROVE  LastSeen'
  <1> SUFFICES ASSUME NEW j \in DOMAIN table', Sole(j)', NEW r \in table'[j].recs
               PROVE  stampOf'[r] <= table'[j].lastSeen \/ Unstamped(r)'
    BY DEF LastSeen
  <1>1. CASE j = k
    <2>1. carrier[worker[w].rec] = w
      BY DEF Carried
    <2>2. carrier[r] = w
      BY <1>1, <2>1 DEF Sole
    <2>3. stampOf[r] <= worker[w].stamp
      BY <1>1, <2>2 DEF Carried
    <2> QED
      BY <1>1, <2>3
  <1>2. CASE j # k
    <2>1. j \in DOMAIN table /\ table'[j] = table[j] /\ Sole(j)
      BY <1>2 DEF Sole
    <2>2. Unstamped(r) => Unstamped(r)'
      BY <1>2, <2>1 DEF Unstamped, OnlyMoves
    <2> QED
      BY <2>1, <2>2 DEF LastSeen
  <1> QED
    BY <1>1, <1>2

\* No step of add moves an entry's clock behind what its one worker stamped.
LEMMA AddKeepsIdle ==
  ASSUME CountInv, CountInv', Carried, LastSeen, NEW w \in Workers, Add(w)
  PROVE  Carried' /\ LastSeen'
  <1> USE DEF tableVars, recordVars
  <1>0. /\ TypeOK /\ HandOK(w) /\ table \in [DOMAIN table -> Entry]
        /\ worker \in [Workers -> WorkerState] /\ taken \subseteq Records
        /\ worker[w].pc # "idle" => worker[w].rec \in Records
    BY DEF CountInv, HandsOK, HandOK, TypeOK, TableOK
  <1>t. \A k \in DOMAIN table' : table'[k].recs \subseteq taken'
    <2>1. \A k \in DOMAIN table' : table'[k].recs \subseteq Records
      BY DEF CountInv, TypeOK, TableOK, Entry
    <2> QED
      BY <2>1 DEF CountInv, HandsOK, Uncounted
  <1>m. OnlyMoves(w)
    BY <1>0 DEF Add, Lookup, AddCounters, Latch, Stamp, WantInsert, InsertPresent, InsertNew,
                InsertRefused, Fold, Go, GoAt, Return, OnlyMoves
  <1>p. worker[w].pc # "idle" /\ UNCHANGED <<taken, stampOf, carrier, now>>
    BY DEF Add, Lookup, AddCounters, Latch, Stamp, WantInsert, InsertPresent, InsertNew,
           InsertRefused, Fold
  <1>w. /\ worker'[w].stamp = worker[w].stamp
        /\ worker'[w].pc # "idle" => worker'[w].rec = worker[w].rec
    BY <1>0 DEF Add, Lookup, AddCounters, Latch, Stamp, WantInsert, InsertPresent, InsertNew,
                InsertRefused, Fold, Go, GoAt, Return, WorkerState
  <1>c. Carried'
    BY <1>m, <1>p, <1>w, KeepsCarried DEF OnlyMoves
  <1>1. CASE Lookup(w) \/ WantInsert(w) \/ InsertRefused(w) \/ Fold(w)
    <2>1. UNCHANGED table /\ worker[w].pc \notin {"latch", "stamp"}
      BY <1>1 DEF Lookup, WantInsert, InsertRefused, Fold
    <2> QED
      BY <1>c, <1>m, <1>p, <2>1, KeepsLastSeen DEF OnlyMoves
  <1>2. CASE Latch(w)
    <2>1. /\ DOMAIN table' = DOMAIN table
          /\ \A k \in DOMAIN table' : /\ table'[k].recs = table[k].recs
                                      /\ table'[k].lastSeen = table[k].lastSeen
      BY <1>0, <1>2 DEF Latch, Entry
    <2>2. worker'[w].pc = "stamp" /\ worker'[w].rec = worker[w].rec
      BY <1>0, <1>2 DEF Latch, Go, WorkerState
    <2> QED
      BY <1>c, <1>m, <1>p, <2>1, <2>2, KeepsLastSeen DEF OnlyMoves
  <1>3. CASE AddCounters(w)
    <2>k. PICK k : k = worker[w].at
      OBVIOUS
    <2>1. /\ DOMAIN table' = DOMAIN table /\ k \in DOMAIN table
          /\ \A j \in DOMAIN table \ {k} : table'[j] = table[j]
          /\ table'[k].recs = table[k].recs \cup {worker[w].rec}
          /\ table'[k].lastSeen = table[k].lastSeen
      BY <1>0, <1>3, <2>k DEF AddCounters, HandOK, Entry
    <2>2. worker'[w].pc = "latch" /\ worker'[w].rec = worker[w].rec /\ worker[w].pc = "counters"
      BY <1>0, <1>3 DEF AddCounters, Go, WorkerState
    <2>3. ASSUME NEW j \in DOMAIN table', Sole(j)', NEW r \in table'[j].recs
          PROVE  stampOf'[r] <= table'[j].lastSeen \/ Unstamped(r)'
      <3>1. Sole(j)
        BY <1>p, <2>1, <2>3 DEF Sole
      <3>2. CASE r \in table[j].recs
        <4>1. Unstamped(r) => Unstamped(r)'
          BY <1>m, <2>2 DEF Unstamped, OnlyMoves
        <4>2. table'[j].lastSeen = table[j].lastSeen
          BY <2>1
        <4> QED
          BY <1>p, <2>1, <3>1, <3>2, <4>1, <4>2 DEF LastSeen
      <3>3. CASE r \notin table[j].recs
        <4>1. r = worker[w].rec
          BY <2>1, <3>3
        <4> QED
          BY <2>2, <4>1 DEF Unstamped
      <3> QED
        BY <3>2, <3>3
    <2> QED
      BY <1>c, <2>3 DEF LastSeen
  <1>4. CASE Stamp(w)
    <2>k. PICK k : k = worker[w].at
      OBVIOUS
    <2>1. /\ DOMAIN table' = DOMAIN table /\ k \in DOMAIN table
          /\ \A j \in DOMAIN table \ {k} : table'[j] = table[j]
          /\ table'[k].recs = table[k].recs
          /\ table'[k].lastSeen = worker[w].stamp
          /\ worker[w].rec \in table[k].recs
      BY <1>0, <1>4, <2>k DEF Stamp, HandOK, Entry
    <2>2. worker[w].pc \in {"latch", "stamp"}
      BY <1>4 DEF Stamp
    <2>3. \A j \in DOMAIN table \ {k} : worker[w].rec \notin table[j].recs
      BY <2>k, <2>2, CountedTaken
    <2>4. table'[k].recs \subseteq taken /\ worker[w].rec \in table'[k].recs
      BY <1>t, <1>p, <2>1
    <2>5. DOMAIN table' = DOMAIN table \cup {k}
      BY <2>1
    <2> QED
      BY <1>0, <1>c, <1>m, <1>p, <2>1, <2>3, <2>4, <2>5, StampsLastSeen
  <1>5. CASE InsertPresent(w) \/ InsertNew(w)
    <2>k. PICK k : k = Key(w)
      OBVIOUS
    <2>1. /\ DOMAIN table' = DOMAIN table \cup {k}
          /\ \A j \in DOMAIN table \ {k} : table'[j] = table[j]
          /\ worker[w].rec \in table'[k].recs
          /\ table'[k].lastSeen = worker[w].stamp
          /\ worker[w].pc = "insert"
      <3>1. CASE InsertPresent(w)
        BY <1>0, <2>k, <3>1 DEF InsertPresent, Added, Live, Entry
      <3>2. CASE InsertNew(w)
        <4>1. table' = Put(table, k, NewEntry(worker[w].rec, worker[w].stamp, nextBorn + 1))
          BY <2>k, <3>2 DEF InsertNew
        <4>2. k \notin DOMAIN table
          BY <1>0, <2>k, <3>2, TableAssumption DEF InsertNew, Live, Key
        <4>3. /\ DOMAIN table' = DOMAIN table \cup {k}
              /\ \A j \in DOMAIN table \ {k} : table'[j] = table[j]
              /\ table'[k] = NewEntry(worker[w].rec, worker[w].stamp, nextBorn + 1)
          BY <4>1, <4>2 DEF Put
        <4>4. worker[w].pc = "insert"
          BY <3>2 DEF InsertNew
        <4> QED
          BY <4>3, <4>4 DEF NewEntry
      <3> QED
        BY <1>5, <3>1, <3>2
    <2>2. table'[k].recs \subseteq taken
      BY <1>t, <1>p, <2>1
    <2> QED
      BY <1>0, <1>c, <1>m, <1>p, <2>1, <2>2, StampsLastSeen
  <1> QED
    BY <1>1, <1>2, <1>3, <1>4, <1>5 DEF Add

\* Taking records and moving the clock keep stamps in order.
LEMMA NextIdleInv == IdleInv /\ [Next]_vars => IdleInv'
  <1> SUFFICES ASSUME CountInv, Carried, LastSeen, [Next]_vars
               PROVE  Carried' /\ LastSeen'
    BY NextCountInv DEF IdleInv
  <1> USE DEF tableVars, recordVars
  <1>0. /\ CountInv' /\ TypeOK /\ HandsOK /\ worker \in [Workers -> WorkerState]
        /\ \A k \in DOMAIN table : table[k].recs \subseteq taken
    BY NextCountInv, CountedTaken DEF CountInv, TypeOK
  <1>1. CASE SweepTick \/ WantSweep \/ Snapshot \/ Read \/ UNCHANGED vars
    <2>1. UNCHANGED <<table, worker, taken, stampOf, carrier, now>>
      BY <1>1 DEF SweepTick, WantSweep, Snapshot, Read, ReadCounters, ReadLatch,
                  Publish, vars
    <2> QED
      BY <2>1, KeepsCarried, KeepsLastSeen
  <1>2. CASE Sweep
    <2>1. /\ UNCHANGED <<worker, taken, stampOf, carrier, now>>
          /\ DOMAIN table' \subseteq DOMAIN table
          /\ \A k \in DOMAIN table' : table'[k] = table[k]
      BY <1>2 DEF Sweep
    <2> QED
      BY <2>1, KeepsCarried, KeepsLastSeen
  <1>3. CASE Tick
    <2>1. UNCHANGED <<table, worker, taken, stampOf, carrier>> /\ now' = now + 1
      BY <1>3 DEF Tick
    <2>2. Carried'
      BY <1>0, <2>1, InstantsAreInts DEF Carried
    <2> QED
      BY <2>1, <2>2, KeepsLastSeen
  <1>4. ASSUME NEW w \in Workers, Ingest(w) PROVE Carried' /\ LastSeen'
    <2>1. /\ UNCHANGED <<table, taken, stampOf, carrier, now>> /\ worker[w].pc = "idle"
          /\ worker'[w].pc = "idle" /\ worker'[w].stamp = now
          /\ \A v \in Workers \ {w} : worker'[v] = worker[v]
      BY <1>0, <1>4 DEF Ingest, WorkerState
    <2>2. /\ \A v \in Workers : worker[v].stamp <= worker'[v].stamp /\ worker'[v].stamp <= now
          /\ \A r \in taken : stampOf[r] \in Int /\ carrier[r] \in Workers
      BY <1>0, <2>1, InstantsAreInts DEF Carried, TypeOK
    <2>3. \A r \in taken : stampOf[r] <= worker'[carrier[r]].stamp
      <3> SUFFICES ASSUME NEW r \in taken PROVE stampOf[r] <= worker'[carrier[r]].stamp
        OBVIOUS
      <3>1. PICK v \in Workers : v = carrier[r]
        BY <2>2
      <3>2. stampOf[r] <= worker[v].stamp
        BY <3>1 DEF Carried
      <3>3. worker'[v].stamp \in Int /\ worker[v].stamp \in Int /\ stampOf[r] \in Int
        BY <1>0, <2>1, <2>2, InstantsAreInts
      <3> QED
        BY <2>2, <3>1, <3>2, <3>3
    <2>4. Carried'
      BY <2>1, <2>2, <2>3 DEF Carried
    <2> QED
      BY <2>1, <2>4, KeepsLastSeen
  <1>5. ASSUME NEW w \in Workers, NEW r \in Records, IngestOne(w, r)
        PROVE  Carried' /\ LastSeen'
    <2>1. /\ UNCHANGED <<table, now>> /\ worker[w].pc = "idle"
          /\ r \notin taken /\ taken' = taken \cup {r}
          /\ worker'[w].rec = r /\ worker'[w].stamp = worker[w].stamp
          /\ \A v \in Workers \ {w} : worker'[v] = worker[v]
      BY <1>0, <1>5 DEF IngestOne, WorkerState
    <2>2. /\ stampOf'[r] = worker[w].stamp /\ carrier'[r] = w
          /\ \A q \in Records \ {r} : stampOf'[q] = stampOf[q] /\ carrier'[q] = carrier[q]
      BY <1>0, <1>5 DEF IngestOne, TypeOK
    <2>3. worker[w].stamp <= worker[w].stamp /\ taken \subseteq Records
      BY <1>0, InstantsAreInts DEF TypeOK
    <2>4. \A v \in Workers \ {w} : worker[v].pc # "idle" => worker[v].rec \in taken
      BY <1>0 DEF HandsOK, HandOK
    <2>5. Carried'
      <3>1. \A v \in Workers : worker'[v].stamp <= now'
        BY <2>1 DEF Carried
      <3>2. \A v \in Workers : worker'[v].pc # "idle" => carrier'[worker'[v].rec] = v
        BY <2>1, <2>2, <2>3, <2>4 DEF Carried
      <3>3. \A q \in taken : /\ carrier'[q] = carrier[q] /\ stampOf'[q] = stampOf[q]
                             /\ worker'[carrier[q]].stamp = worker[carrier[q]].stamp
        BY <2>1, <2>2, <2>3 DEF Carried
      <3>4. \A q \in taken' : carrier'[q] \in Workers /\ stampOf'[q] <= worker'[carrier'[q]].stamp
        BY <2>1, <2>2, <2>3, <3>3 DEF Carried
      <3> QED
        BY <3>1, <3>2, <3>4 DEF Carried
    <2>6. \A k \in DOMAIN table : \A q \in table[k].recs :
            carrier'[q] = carrier[q] /\ stampOf'[q] = stampOf[q]
      BY <1>0, <2>1, <2>2, <2>3
    <2> QED
      BY <2>1, <2>5, <2>6, KeepsLastSeen
  <1>6. ASSUME NEW w \in Workers, Add(w) PROVE Carried' /\ LastSeen'
    BY <1>0, <1>6, AddKeepsIdle
  <1> QED
    BY <1>1, <1>2, <1>3, <1>4, <1>5, <1>6 DEF Next

\* An entry one worker fed is swept only when every record it counts is older
\* than the cutoff.
LEMMA SweepsOnlyIdle ==
  ASSUME IdleInv, Sweep, NEW k \in DOMAIN table \ DOMAIN table', OneCarrier(k),
         NEW r \in table[k].recs
  PROVE  stampOf[r] < Cutoff
  <1>0. CountInv /\ Carried /\ LastSeen /\ TypeOK
    BY DEF IdleInv, CountInv
  <1>1. k \in Live /\ table[k].lastSeen < Cutoff
    BY DEF Sweep, IdleKeys
  <1>2. table[k].recs \subseteq taken /\ taken \subseteq Records
    BY <1>0, CountedTaken DEF TypeOK
  <1> DEFINE C == {carrier[q] : q \in table[k].recs}
  <1>3. Sole(k)
    <2>1. C \subseteq Workers
      BY <1>0, <1>2 DEF Carried
    <2>2. IsFiniteSet(C) /\ Cardinality(C) = 1
      BY <2>1, TableAssumption, FS_Subset DEF OneCarrier
    <2>3. PICK x : C = {x}
      BY <2>2, FS_Singleton
    <2>4. \A q \in table[k].recs : carrier[q] \in C
      OBVIOUS
    <2>5. x \in Workers
      BY <2>1, <2>3
    <2> HIDE DEF C
    <2> QED
      BY <2>3, <2>4, <2>5 DEF Sole
  <1>4. ~Unstamped(r)
    <2> SUFFICES ASSUME NEW w \in Workers, worker[w].pc \in {"latch", "stamp"},
                        worker[w].rec = r
                 PROVE  FALSE
      BY DEF Unstamped
    <2>1. worker[w].at = k
      BY <1>0, CountedTaken
    <2>2. AddingUnderRLock(w)
      BY <1>1, <2>1 DEF AddingUnderRLock, Live
    <2> QED
      BY <2>2 DEF Sweep, HoldsLock, NoReader
  <1>5. stampOf[r] <= table[k].lastSeen
    BY <1>0, <1>3, <1>4 DEF LastSeen
  <1> QED
    BY <1>0, <1>1, <1>2, <1>5, InstantsAreInts DEF Cutoff

\* Only a sweep takes an entry out of the table.
LEMMA OnlySweepEvicts ==
  ASSUME TypeOK, [Next]_vars, ~Sweep
  PROVE  DOMAIN table \subseteq DOMAIN table'
  <1> USE DEF tableVars
  <1>1. CASE Tick \/ SweepTick \/ WantSweep \/ Snapshot \/ Read \/ UNCHANGED vars
    BY <1>1 DEF Tick, SweepTick, WantSweep, Snapshot, Read, ReadCounters, ReadLatch,
                Publish, vars
  <1>2. ASSUME NEW w \in Workers, Ingest(w) \/ \E r \in Records : IngestOne(w, r)
        PROVE  DOMAIN table \subseteq DOMAIN table'
    BY <1>2 DEF Ingest, IngestOne
  <1>3. ASSUME NEW w \in Workers, Add(w) PROVE DOMAIN table \subseteq DOMAIN table'
    <2>1. CASE InsertNew(w)
      BY <2>1 DEF InsertNew, Put
    <2> QED
      BY <1>3, <2>1 DEF Add, Lookup, AddCounters, Latch, Stamp, WantInsert, InsertPresent,
                        InsertRefused, Fold, TypeOK, TableOK
  <1> QED
    BY <1>1, <1>2, <1>3 DEF Next

\* A sweep drops no entry that counted a record stamped within the TTL, if one
\* worker carried all its records: for any TTL, clock and number of workers.
THEOREM EvictsOnlyIdleHolds == Spec => EvictsOnlyIdle
  <1>1. Init => IdleInv
    <2> SUFFICES ASSUME Init PROVE IdleInv
      OBVIOUS
    <2>1. /\ \A w \in Workers : worker[w].pc = "idle" /\ worker[w].stamp = 0
          /\ now = 0 /\ taken = {} /\ DOMAIN table = {Other} /\ table[Other].recs = {}
      BY DEF Init
    <2> QED
      BY <2>1, InitCountInv DEF IdleInv, Carried, LastSeen
  <1>2. IdleInv /\ [Next]_vars =>
          [\A k \in DOMAIN table \ DOMAIN table' :
             OneCarrier(k) => \A r \in table[k].recs : stampOf[r] < Cutoff]_table
    BY SweepsOnlyIdle, OnlySweepEvicts DEF IdleInv, CountInv
  <1> QED
    BY <1>1, <1>2, NextIdleInv, PTL DEF Spec, EvictsOnlyIdle

-----------------------------------------------------------------------------
(* Scrapes.  A snapshot holds the read lock from its first entry to the    *)
(* overflow bucket, so that no entry leaves the table under it and no new  *)
(* one takes a place it has not seen.                                      *)

Scanning == scrape.pc # "idle"

\* The place whose counters were read and whose latch was not yet.
Pending == IF scrape.pc = "flag" THEN {scrape.at} ELSE {}

ScanShape ==
  /\ DOMAIN scrape = {"pc", "todo", "at", "since", "got"}
  /\ scrape.since \subseteq done
  /\ Scanning => scrape.todo \subseteq DOMAIN table
  /\ scrape.pc = "idle" => DOMAIN scrape.got = {}
  /\ Pending \subseteq scrape.todo \cap DOMAIN scrape.got

\* What has been read is what the table held, or less than it holds now.
ScanRead ==
  \A k \in DOMAIN scrape.got :
    /\ k \in DOMAIN table
    /\ scrape.got[k] \in Reading
    /\ scrape.got[k].born = table[k].born
    /\ scrape.got[k].recs \subseteq table[k].recs
    /\ scrape.got[k].unmeasured => table[k].unmeasured

\* Each record the snapshot owes is still to be read, or has been.
Reported(r, reading) == r \in reading.recs /\ (r \notin Measured => reading.unmeasured)

ScanOwes ==
  Scanning =>
    \A r \in scrape.since \ evicted : \A k \in DOMAIN table :
      r \in table[k].recs =>
        \/ k \in scrape.todo \ Pending
        \/ k \in Pending /\ r \in scrape.got[k].recs
        \/ k \in DOMAIN scrape.got /\ Reported(r, scrape.got[k])

ScanInv == ScanShape /\ ScanRead /\ ScanOwes

\* How one reading of a place may follow another.
Follows(k, old, new) ==
  \/ /\ old.born = new.born
     /\ old.recs \subseteq new.recs
     /\ old.unmeasured => new.unmeasured
  \/ k # Other /\ old.born < new.born

\* The last snapshot published is one the table and the reading under way
\* follow.
PublishedInv ==
  /\ \A k \in DOMAIN table : table[k].born <= nextBorn
  /\ \A k \in DOMAIN published : published[k] \in Reading /\ published[k].born <= nextBorn
  /\ \A k \in DOMAIN published \cap DOMAIN table : Follows(k, published[k], table[k])
  /\ \A k \in DOMAIN published \cap DOMAIN scrape.got :
       k \notin Pending => Follows(k, published[k], scrape.got[k])
  /\ \A k \in DOMAIN published \cap Pending :
       Follows(k, [published[k] EXCEPT !.unmeasured = FALSE], scrape.got[k])

\* What a step of add leaves of every entry: more records, the same birth, a
\* latch that stays; and no record whose add had returned comes or goes.
Grows ==
  /\ DOMAIN table \subseteq DOMAIN table' /\ done \subseteq done' /\ evicted' = evicted
  /\ \A k \in DOMAIN table :
       /\ table'[k].born = table[k].born
       /\ table[k].recs \subseteq table'[k].recs
       /\ table[k].unmeasured => table'[k].unmeasured
  /\ \A k \in DOMAIN table', r \in done :
       r \in table'[k].recs => k \in DOMAIN table /\ r \in table[k].recs
  /\ nextBorn' \in Int /\ nextBorn <= nextBorn'
  /\ \A k \in DOMAIN table' \ DOMAIN table : k # Other /\ table'[k].born = nextBorn'
                                              /\ nextBorn < nextBorn'

\* add only grows the table.
LEMMA AddGrows ==
  ASSUME CountInv, NEW w \in Workers, Add(w)
  PROVE  Grows
  <1> USE DEF tableVars, recordVars
  <1>0. /\ TypeOK /\ HandOK(w) /\ table \in [DOMAIN table -> Entry] /\ nextBorn \in Int
        /\ Other \in DOMAIN table
        /\ \A k \in DOMAIN table : table[k].unmeasured \in BOOLEAN
        /\ worker[w].pc # "idle" => worker[w].rec \notin done
    BY DEF CountInv, HandsOK, HandOK, TypeOK, TableOK, Entry
  <1>1. CASE Lookup(w) \/ WantInsert(w) \/ InsertRefused(w) \/ Fold(w)
    <2>1. UNCHANGED <<table, nextBorn, evicted, done>>
      BY <1>1 DEF Lookup, WantInsert, InsertRefused, Fold
    <2> QED
      BY <1>0, <2>1 DEF Grows
  <1>2. CASE AddCounters(w)
    <2>k. PICK k, r : k = worker[w].at /\ r = worker[w].rec
      OBVIOUS
    <2>1. /\ UNCHANGED <<nextBorn, evicted, done>> /\ k \in DOMAIN table /\ r \notin done
          /\ table' = [table EXCEPT ![k].recs = @ \cup {r}]
      BY <1>0, <1>2, <2>k DEF AddCounters, HandOK
    <2>2. /\ DOMAIN table' = DOMAIN table
          /\ \A j \in DOMAIN table \ {k} : table'[j] = table[j]
          /\ table'[k].recs = table[k].recs \cup {r}
          /\ table'[k].born = table[k].born /\ table'[k].unmeasured = table[k].unmeasured
      BY <1>0, <2>1 DEF Entry
    <2> QED
      BY <1>0, <2>1, <2>2 DEF Grows
  <1>3. CASE Latch(w)
    <2>k. PICK k, u : k = worker[w].at /\ u = Latched(table[k].unmeasured, worker[w].rec)
      OBVIOUS
    <2>1. /\ UNCHANGED <<nextBorn, evicted, done>> /\ k \in DOMAIN table
          /\ table' = [table EXCEPT ![k].unmeasured = u]
          /\ table[k].unmeasured => u
      BY <1>0, <1>3, <2>k DEF Latch, HandOK, Latched
    <2>2. /\ DOMAIN table' = DOMAIN table
          /\ \A j \in DOMAIN table \ {k} : table'[j] = table[j]
          /\ table'[k].recs = table[k].recs /\ table'[k].born = table[k].born
          /\ table'[k].unmeasured = u
      BY <1>0, <2>1 DEF Entry
    <2> QED
      BY <1>0, <2>1, <2>2 DEF Grows
  <1>4. CASE Stamp(w)
    <2>k. PICK k : k = worker[w].at
      OBVIOUS
    <2>1. /\ UNCHANGED <<nextBorn, evicted>> /\ k \in DOMAIN table /\ done \subseteq done'
          /\ table' = [table EXCEPT ![k].lastSeen = worker[w].stamp]
      BY <1>0, <1>4, <2>k DEF Stamp, HandOK, Return
    <2>2. /\ DOMAIN table' = DOMAIN table
          /\ \A j \in DOMAIN table \ {k} : table'[j] = table[j]
          /\ table'[k].recs = table[k].recs /\ table'[k].born = table[k].born
          /\ table'[k].unmeasured = table[k].unmeasured
      BY <1>0, <2>1 DEF Entry
    <2> QED
      BY <1>0, <2>1, <2>2 DEF Grows
  <1>5. CASE InsertPresent(w)
    <2>t. PICK k, r, t : k = Key(w) /\ r = worker[w].rec /\ t = worker[w].stamp
      OBVIOUS
    <2>k. PICK e : e = Added(table[k], r, t)
      OBVIOUS
    <2>1. /\ UNCHANGED <<nextBorn, evicted>> /\ k \in DOMAIN table /\ done \subseteq done'
          /\ r \notin done
          /\ table' = [table EXCEPT ![k] = e]
      BY <1>0, <1>5, <2>t, <2>k DEF InsertPresent, Live, Return
    <2>2. /\ DOMAIN table' = DOMAIN table
          /\ \A j \in DOMAIN table \ {k} : table'[j] = table[j]
          /\ table'[k] = e
      BY <2>1
    <2>3. /\ table'[k].recs = table[k].recs \cup {r} /\ table'[k].born = table[k].born
          /\ table[k].unmeasured => table'[k].unmeasured
      <3>1. table[k] \in Entry
        BY <1>0, <2>1
      <3>2. /\ e.recs = table[k].recs \cup {r} /\ e.born = table[k].born
            /\ e.unmeasured = Latched(table[k].unmeasured, r)
        BY <2>k, <3>1, AddedFields
      <3>3. table[k].unmeasured => Latched(table[k].unmeasured, r)
        BY DEF Latched
      <3> QED
        BY <2>2, <3>2, <3>3
    <2> QED
      BY <1>0, <2>1, <2>2, <2>3 DEF Grows
  <1>6. CASE InsertNew(w)
    <2>k. PICK k, r : k = Key(w) /\ r = worker[w].rec
      OBVIOUS
    <2>1. /\ nextBorn' = nextBorn + 1 /\ evicted' = evicted /\ done \subseteq done'
          /\ r \notin done /\ r \in Records
          /\ table' = Put(table, k, NewEntry(r, worker[w].stamp, nextBorn + 1))
      BY <1>0, <1>6, <2>k DEF InsertNew, Return, HandOK, TypeOK
    <2>2. k \in Keys /\ k # Other /\ k \notin DOMAIN table
      BY <1>6, <2>k, <2>1, TableAssumption DEF InsertNew, Live, Key
    <2>3. /\ DOMAIN table' = DOMAIN table \cup {k}
          /\ \A j \in DOMAIN table : table'[j] = table[j]
          /\ table'[k] = NewEntry(r, worker[w].stamp, nextBorn + 1)
      BY <2>1, <2>2 DEF Put
    <2>4. table'[k].recs = {r} /\ table'[k].born = nextBorn'
      BY <2>1, <2>3 DEF NewEntry
    <2> QED
      BY <1>0, <2>1, <2>2, <2>3, <2>4 DEF Grows
  <1> QED
    BY <1>1, <1>2, <1>3, <1>4, <1>5, <1>6 DEF Add

ScrapeInv == CountInv /\ LatchExact /\ ScanInv /\ PublishedInv

\* What a scrape has read stays true, and what it owes stays owed, of a table
\* that only grows.
LEMMA GrowsKeepsScrape ==
  ASSUME TypeOK, ScanInv, PublishedInv, Grows, UNCHANGED <<scrape, published>>
  PROVE  ScanInv' /\ PublishedInv'
  <1>0. /\ \A k \in DOMAIN table : table[k].born \in Int
        /\ \A k \in DOMAIN published : published[k].born \in Int
        /\ \A k \in DOMAIN scrape.got : scrape.got[k].born \in Int
        /\ nextBorn \in Int /\ nextBorn' \in Int
    BY DEF TypeOK, TableOK, Entry, ScanInv, ScanRead, PublishedInv, Reading, Grows
  <1>p. Pending' = Pending
    BY DEF Pending
  <1>1. ScanShape'
    BY <1>p DEF ScanInv, ScanShape, Grows, Scanning
  <1>2. ScanRead'
    BY DEF ScanInv, ScanRead, Grows
  <1>3. ScanOwes'
    BY <1>p DEF ScanInv, ScanShape, ScanOwes, Scanning, Grows, Reported
  <1>4. \A k \in DOMAIN table' : table'[k].born <= nextBorn'
    <2> SUFFICES ASSUME NEW k \in DOMAIN table' PROVE table'[k].born <= nextBorn'
      OBVIOUS
    <2>1. CASE k \in DOMAIN table
      <3>1. table'[k].born = table[k].born /\ table[k].born <= nextBorn /\ nextBorn <= nextBorn'
        BY <2>1 DEF Grows, PublishedInv
      <3> QED
        BY <1>0, <2>1, <3>1
    <2>2. CASE k \notin DOMAIN table
      BY <1>0, <2>2 DEF Grows
    <2> QED
      BY <2>1, <2>2
  <1>5. \A k \in DOMAIN published : published[k].born <= nextBorn'
    <2> SUFFICES ASSUME NEW k \in DOMAIN published PROVE published[k].born <= nextBorn'
      OBVIOUS
    <2>1. published[k].born <= nextBorn /\ nextBorn <= nextBorn'
      BY DEF PublishedInv, Grows
    <2> QED
      BY <1>0, <2>1
  <1>6. ASSUME NEW k \in DOMAIN published \cap DOMAIN table'
        PROVE  Follows(k, published[k], table'[k])
    <2>1. CASE k \in DOMAIN table
      <3>1. Follows(k, published[k], table[k])
        BY <2>1 DEF PublishedInv
      <3> QED
        BY <2>1, <3>1 DEF Follows, Grows
    <2>2. CASE k \notin DOMAIN table
      <3>1. k # Other /\ table'[k].born = nextBorn' /\ nextBorn < nextBorn'
        BY <2>2 DEF Grows
      <3>2. published[k].born <= nextBorn
        BY DEF PublishedInv
      <3>3. published[k].born < table'[k].born
        BY <1>0, <3>1, <3>2
      <3> QED
        BY <3>1, <3>3 DEF Follows
    <2> QED
      BY <2>1, <2>2
  <1>7. PublishedInv'
    BY <1>p, <1>4, <1>5, <1>6 DEF PublishedInv
  <1> QED
    BY <1>1, <1>2, <1>3, <1>7 DEF ScanInv

\* A sweep runs only between scrapes, and an entry that it drops comes back,
\* if it does, with a later birth.
LEMMA SweepKeepsScrape ==
  ASSUME TypeOK, ScanInv, PublishedInv, Sweep
  PROVE  ScanInv' /\ PublishedInv'
  <1>1. /\ scrape.pc = "idle" /\ UNCHANGED <<scrape, published, nextBorn, done>>
        /\ DOMAIN table' \subseteq DOMAIN table
        /\ \A k \in DOMAIN table' : table'[k] = table[k]
    BY DEF Sweep, HoldsLock, NoReader, scrapeVars, recordVars
  <1>2. DOMAIN scrape.got = {} /\ Pending = {} /\ Pending' = {}
    BY <1>1 DEF ScanInv, ScanShape, Pending
  <1>3. ScanInv'
    BY <1>1, <1>2 DEF ScanInv, ScanShape, ScanRead, ScanOwes, Scanning
  <1>4. PublishedInv'
    BY <1>1, <1>2 DEF PublishedInv
  <1> QED
    BY <1>3, <1>4

\* A snapshot begins owing every place there is.
LEMMA SnapshotKeepsScrape ==
  ASSUME TypeOK, ScanInv, PublishedInv, Snapshot
  PROVE  ScanInv' /\ PublishedInv'
  <1>1. /\ UNCHANGED <<table, published, nextBorn, done, evicted>>
        /\ scrape.pc = "idle" /\ DOMAIN scrape.got = {}
        /\ DOMAIN scrape = {"pc", "todo", "at", "since", "got"}
    BY DEF Snapshot, ScanInv, ScanShape, tableVars, recordVars
  <1>2. /\ scrape'.pc = "walk" /\ scrape'.todo = DOMAIN table /\ scrape'.since = done
        /\ scrape'.got = scrape.got /\ DOMAIN scrape' = DOMAIN scrape
    BY <1>1 DEF Snapshot
  <1>3. Pending' = {} /\ Pending = {}
    BY <1>1, <1>2 DEF Pending
  <1>4. ScanInv'
    BY <1>1, <1>2, <1>3 DEF ScanInv, ScanShape, ScanRead, ScanOwes, Scanning
  <1>5. PublishedInv'
    BY <1>1, <1>2, <1>3 DEF PublishedInv
  <1> QED
    BY <1>4, <1>5

\* Reading a place's counters: the reading is the place as it stands, but for
\* the latch, which comes next.
LEMMA ReadKeepsScrape ==
  ASSUME TypeOK, ScanInv, PublishedInv, NEW k \in Places, ReadCounters(k)
  PROVE  ScanInv' /\ PublishedInv'
  <1> DEFINE reading == [recs |-> table[k].recs, unmeasured |-> FALSE, born |-> table[k].born]
  <1>1. /\ UNCHANGED <<table, published, nextBorn, done, evicted>>
        /\ scrape.pc = "walk" /\ k \in scrape.todo /\ k \in DOMAIN table
        /\ DOMAIN scrape = {"pc", "todo", "at", "since", "got"}
    BY DEF ReadCounters, ScanInv, ScanShape, Scanning, tableVars, recordVars
  <1>2. /\ scrape'.pc = "flag" /\ scrape'.at = k /\ scrape'.todo = scrape.todo
        /\ scrape'.since = scrape.since /\ scrape'.got = Put(scrape.got, k, reading)
        /\ DOMAIN scrape' = DOMAIN scrape
    BY <1>1 DEF ReadCounters
  <1>3. /\ DOMAIN scrape'.got = DOMAIN scrape.got \cup {k} /\ scrape'.got[k] = reading
        /\ \A j \in DOMAIN scrape.got \ {k} : scrape'.got[j] = scrape.got[j]
    BY <1>2 DEF Put
  <1>4. Pending' = {k} /\ Pending = {}
    BY <1>1, <1>2 DEF Pending
  <1>5. /\ reading \in Reading /\ reading.born = table[k].born
        /\ reading.recs = table[k].recs /\ reading.unmeasured = FALSE
    BY <1>1 DEF Reading, TypeOK, TableOK, Entry
  <1> HIDE DEF reading
  <1>6. ScanShape'
    BY <1>1, <1>2, <1>3, <1>4 DEF ScanInv, ScanShape, Scanning
  <1>7. ScanRead'
    BY <1>1, <1>3, <1>5 DEF ScanInv, ScanRead
  <1>8. ScanOwes'
    BY <1>1, <1>2, <1>3, <1>4, <1>5 DEF ScanInv, ScanOwes, Scanning
  <1>9. k \in DOMAIN published =>
          Follows(k, [published[k] EXCEPT !.unmeasured = FALSE], reading)
    <2> SUFFICES ASSUME k \in DOMAIN published
                 PROVE  Follows(k, [published[k] EXCEPT !.unmeasured = FALSE], reading)
      OBVIOUS
    <2>1. Follows(k, published[k], table[k]) /\ published[k] \in Reading
      BY <1>1 DEF PublishedInv
    <2> DEFINE old == [published[k] EXCEPT !.unmeasured = FALSE]
    <2>2. /\ old.born = published[k].born /\ old.recs = published[k].recs
          /\ old.unmeasured = FALSE
      BY <2>1 DEF Reading
    <2> HIDE DEF old
    <2>3. Follows(k, old, reading)
      BY <1>5, <2>1, <2>2 DEF Follows
    <2> QED
      BY <2>3 DEF old
  <1>10. \A j \in DOMAIN published \cap DOMAIN scrape'.got :
           j # k => Follows(j, published[j], scrape'.got[j])
    BY <1>3, <1>4 DEF PublishedInv
  <1>11. PublishedInv'
    BY <1>1, <1>3, <1>4, <1>9, <1>10 DEF PublishedInv
  <1> QED
    BY <1>6, <1>7, <1>8, <1>11 DEF ScanInv

\* Reading its latch: no record the snapshot owes is still before its latch,
\* because its add had returned.
LEMMA LatchKeepsScrape ==
  ASSUME CountInv, LatchExact, ScanInv, PublishedInv, ReadLatch
  PROVE  ScanInv' /\ PublishedInv'
  <1>k. PICK k : k = scrape.at
    OBVIOUS
  <1>1. /\ UNCHANGED <<table, published, nextBorn, done, evicted>>
        /\ scrape.pc = "flag" /\ Pending = {k}
        /\ k \in scrape.todo /\ k \in DOMAIN scrape.got /\ k \in DOMAIN table
        /\ DOMAIN scrape = {"pc", "todo", "at", "since", "got"}
        /\ table[k].unmeasured \in BOOLEAN /\ scrape.got[k] \in Reading
        /\ scrape.since \subseteq done
    BY <1>k DEF ReadLatch, ScanInv, ScanShape, ScanRead, Pending, tableVars, recordVars,
                CountInv, TypeOK, TableOK, Entry
  <1>2. /\ scrape'.pc = "walk" /\ scrape'.at = scrape.at /\ scrape'.todo = scrape.todo \ {k}
        /\ scrape'.since = scrape.since /\ DOMAIN scrape' = DOMAIN scrape
        /\ scrape'.got = [scrape.got EXCEPT ![k].unmeasured = table[k].unmeasured]
    BY <1>1, <1>k DEF ReadLatch
  <1> DEFINE reading == [scrape.got[k] EXCEPT !.unmeasured = table[k].unmeasured]
  <1>3. /\ DOMAIN scrape'.got = DOMAIN scrape.got /\ scrape'.got[k] = reading
        /\ \A j \in DOMAIN scrape.got \ {k} : scrape'.got[j] = scrape.got[j]
    BY <1>1, <1>2
  <1>4. /\ reading \in Reading /\ reading.born = scrape.got[k].born
        /\ reading.recs = scrape.got[k].recs /\ reading.unmeasured = table[k].unmeasured
    BY <1>1 DEF Reading
  <1> HIDE DEF reading
  <1>5. Pending' = {}
    BY <1>2 DEF Pending
  <1>6. ScanShape'
    BY <1>1, <1>2, <1>3, <1>5 DEF ScanInv, ScanShape, Scanning
  <1>7. ScanRead'
    BY <1>1, <1>3, <1>4 DEF ScanInv, ScanRead
  <1>8. ASSUME NEW r \in scrape.since, r \in table[k].recs, r \notin Measured
        PROVE  table[k].unmeasured
    <2>1. r \notin Unlatched(k)
      <3>1. \A w \in Workers : worker[w].pc = "latch" => worker[w].rec \notin done
        BY DEF CountInv, HandsOK, HandOK
      <3> QED
        BY <1>1, <3>1 DEF Unlatched
    <2> QED
      BY <1>1, <1>8, <2>1 DEF LatchExact
  <1>9. ASSUME NEW r \in scrape.since \ evicted, r \in table[k].recs
        PROVE  Reported(r, reading)
    <2>1. r \in scrape.got[k].recs
      BY <1>1, <1>9 DEF ScanInv, ScanOwes, Scanning, Reported
    <2> QED
      BY <1>4, <1>8, <1>9, <2>1 DEF Reported
  <1>10. ASSUME NEW r \in scrape.since \ evicted, NEW j \in DOMAIN table, r \in table[j].recs,
                j # k
         PROVE  j \in scrape.todo \ {k} \/ (j \in DOMAIN scrape.got /\ Reported(r, scrape.got[j]))
    BY <1>1, <1>10 DEF ScanInv, ScanOwes, Scanning
  <1>11. ScanOwes'
    BY <1>1, <1>2, <1>3, <1>5, <1>9, <1>10 DEF ScanOwes
  <1>12. k \in DOMAIN published => Follows(k, published[k], reading)
    <2> SUFFICES ASSUME k \in DOMAIN published PROVE Follows(k, published[k], reading)
      OBVIOUS
    <2>1. /\ Follows(k, published[k], table[k]) /\ published[k] \in Reading
          /\ Follows(k, [published[k] EXCEPT !.unmeasured = FALSE], scrape.got[k])
          /\ scrape.got[k].born = table[k].born
      BY <1>1 DEF PublishedInv, ScanInv, ScanRead
    <2> DEFINE old == [published[k] EXCEPT !.unmeasured = FALSE]
    <2>2. old.born = published[k].born /\ old.recs = published[k].recs
      BY <2>1 DEF Reading
    <2> HIDE DEF old
    <2>3. published[k].born \in Int /\ table[k].born \in Int
      BY <1>1, <2>1 DEF Reading, CountInv, TypeOK, TableOK, Entry
    <2>4. Follows(k, old, scrape.got[k])
      BY <2>1 DEF old
    <2> QED
      BY <1>4, <2>1, <2>2, <2>3, <2>4 DEF Follows
  <1>13. \A j \in DOMAIN published \cap DOMAIN scrape'.got : Follows(j, published[j], scrape'.got[j])
    BY <1>1, <1>3, <1>12 DEF PublishedInv
  <1>14. PublishedInv'
    BY <1>1, <1>5, <1>13 DEF PublishedInv
  <1> QED
    BY <1>6, <1>7, <1>11, <1>14 DEF ScanInv

\* Publishing hands over what was read, which the table has grown from.
LEMMA PublishKeepsScrape ==
  ASSUME TypeOK, ScanInv, PublishedInv, Publish
  PROVE  ScanInv' /\ PublishedInv'
  <1>1. /\ UNCHANGED <<table, nextBorn, done, evicted>> /\ published' = scrape.got
        /\ scrape'.pc = "idle" /\ DOMAIN scrape'.got = {} /\ scrape'.since = {}
        /\ DOMAIN scrape' = {"pc", "todo", "at", "since", "got"}
    BY DEF Publish, tableVars, recordVars
  <1>2. Pending' = {}
    BY <1>1 DEF Pending
  <1>3. ScanInv'
    BY <1>1, <1>2 DEF ScanInv, ScanShape, ScanRead, ScanOwes, Scanning
  <1>4. \A k \in DOMAIN scrape.got :
          /\ k \in DOMAIN table /\ scrape.got[k] \in Reading
          /\ Follows(k, scrape.got[k], table[k]) /\ scrape.got[k].born <= nextBorn
    BY DEF ScanInv, ScanRead, Follows, PublishedInv
  <1>5. PublishedInv'
    BY <1>1, <1>2, <1>4 DEF PublishedInv
  <1> QED
    BY <1>3, <1>5

\* The scrape's invariants are inductive, given the table's.
LEMMA NextScrapeInv == ScrapeInv /\ [Next]_vars => ScrapeInv'
  <1> SUFFICES ASSUME CountInv, LatchExact, ScanInv, PublishedInv, [Next]_vars
               PROVE  ScanInv' /\ PublishedInv'
    BY NextCountInv, NextLatchExact DEF ScrapeInv
  <1>0. TypeOK
    BY DEF CountInv
  <1>1. CASE Tick \/ SweepTick \/ WantSweep \/ UNCHANGED vars
    <2>1. UNCHANGED <<table, nextBorn, evicted, done, scrape, published>>
      BY <1>1 DEF Tick, SweepTick, WantSweep, vars, tableVars, recordVars, scrapeVars
    <2>2. Grows
      BY <1>0, <2>1 DEF Grows, TypeOK
    <2> QED
      BY <1>0, <2>1, <2>2, GrowsKeepsScrape
  <1>2. ASSUME NEW w \in Workers, Ingest(w) \/ \E r \in Records : IngestOne(w, r)
        PROVE  ScanInv' /\ PublishedInv'
    <2>1. UNCHANGED <<table, nextBorn, evicted, done, scrape, published>>
      BY <1>2 DEF Ingest, IngestOne, tableVars, recordVars, scrapeVars
    <2>2. Grows
      BY <1>0, <2>1 DEF Grows, TypeOK
    <2> QED
      BY <1>0, <2>1, <2>2, GrowsKeepsScrape
  <1>3. ASSUME NEW w \in Workers, Add(w) PROVE ScanInv' /\ PublishedInv'
    <2>1. Grows
      BY <1>3, AddGrows
    <2>2. UNCHANGED <<scrape, published>>
      BY <1>3 DEF Add, Lookup, AddCounters, Latch, Stamp, WantInsert, InsertPresent, InsertNew,
                  InsertRefused, Fold, scrapeVars
    <2> QED
      BY <1>0, <2>1, <2>2, GrowsKeepsScrape
  <1>4. CASE Sweep
    BY <1>0, <1>4, SweepKeepsScrape
  <1>5. CASE Snapshot
    BY <1>0, <1>5, SnapshotKeepsScrape
  <1>6. ASSUME NEW k \in Places, ReadCounters(k) PROVE ScanInv' /\ PublishedInv'
    BY <1>0, <1>6, ReadKeepsScrape
  <1>7. CASE ReadLatch
    BY <1>7, LatchKeepsScrape
  <1>8. CASE Publish
    BY <1>0, <1>8, PublishKeepsScrape
  <1> QED
    BY <1>1, <1>2, <1>3, <1>4, <1>5, <1>6, <1>7, <1>8 DEF Next, Read

\* No scrape has begun at the start.
LEMMA InitScrapeInv == Init => ScrapeInv
  <1> SUFFICES ASSUME Init PROVE ScrapeInv
    OBVIOUS
  <1>1. /\ DOMAIN table = {Other} /\ table[Other].recs = {} /\ ~table[Other].unmeasured
        /\ table[Other].born = 0 /\ nextBorn = 0 /\ DOMAIN published = {}
        /\ scrape.pc = "idle" /\ DOMAIN scrape.got = {} /\ scrape.since = {}
        /\ DOMAIN scrape = {"pc", "todo", "at", "since", "got"}
    BY DEF Init
  <1>2. Pending = {}
    BY <1>1 DEF Pending
  <1>3. LatchExact /\ ScanInv /\ PublishedInv
    BY <1>1, <1>2 DEF LatchExact, ScanInv, ScanShape, ScanRead, ScanOwes, Scanning, PublishedInv
  <1> QED
    BY <1>3, InitCountInv DEF ScrapeInv

\* Only Publish changes what collectors see.
LEMMA OnlyPublishPublishes ==
  ASSUME [Next]_vars, published' # published
  PROVE  Publish
  <1> USE DEF scrapeVars
  <1>1. \A w \in Workers : ~Add(w) /\ ~Ingest(w) /\ \A r \in Records : ~IngestOne(w, r)
    BY DEF Add, Lookup, AddCounters, Latch, Stamp, WantInsert, InsertPresent, InsertNew,
           InsertRefused, Fold, Ingest, IngestOne
  <1>2. ~Tick /\ ~SweepTick /\ ~WantSweep /\ ~Sweep /\ ~(UNCHANGED vars)
    BY DEF Tick, SweepTick, WantSweep, Sweep, vars
  <1>3. ~Snapshot /\ ~ReadLatch /\ \A k \in Places : ~ReadCounters(k)
    BY DEF Snapshot, ReadLatch, ReadCounters
  <1> QED
    BY <1>1, <1>2, <1>3 DEF Next, Read

\* A snapshot reports every record whose add had returned when it began and
\* that no sweep had dropped, with the entry withheld if that record lacked
\* the count, however its reads interleave with other workers' adds.
THEOREM SnapshotCompleteHolds == Spec => SnapshotComplete
  <1>1. ASSUME ScrapeInv, [Next]_vars, published' # published,
               NEW r \in scrape.since \ evicted
        PROVE  \E k \in DOMAIN published' :
                 /\ r \in published'[k].recs
                 /\ r \notin Measured => published'[k].unmeasured
    <2>1. Publish
      BY <1>1, OnlyPublishPublishes
    <2>2. /\ published' = scrape.got /\ scrape.pc = "walk" /\ scrape.todo = {}
          /\ Pending = {}
      BY <2>1 DEF Publish, Pending
    <2>3. r \in done
      BY <1>1 DEF ScrapeInv, ScanInv, ScanShape
    <2>4. PICK k \in DOMAIN table : r \in table[k].recs
      BY <1>1, <2>3 DEF ScrapeInv, CountInv, CountedOnce, CountedIn
    <2>5. k \in DOMAIN scrape.got /\ Reported(r, scrape.got[k])
      BY <1>1, <2>2, <2>4 DEF ScrapeInv, ScanInv, ScanOwes, Scanning
    <2> QED
      BY <2>2, <2>5 DEF Reported
  <1>2. ScrapeInv /\ [Next]_vars =>
          [published' # published =>
             \A r \in scrape.since \ evicted :
               \E k \in DOMAIN published' :
                 /\ r \in published'[k].recs
                 /\ r \notin Measured => published'[k].unmeasured]_<<scrape, published>>
    BY <1>1
  <1> QED
    BY <1>2, InitScrapeInv, NextScrapeInv, PTL DEF Spec, SnapshotComplete

\* From one scrape to the next a series only grows and, once withheld, stays
\* withheld; one that starts again lower is a later-born entry.
THEOREM ScrapesMonotoneHolds == Spec => ScrapesMonotone
  <1>1. ASSUME ScrapeInv, [Next]_vars, published' # published,
               NEW k \in DOMAIN published \cap DOMAIN published'
        PROVE  Follows(k, published[k], published'[k])
    <2>1. Publish
      BY <1>1, OnlyPublishPublishes
    <2>2. published' = scrape.got /\ Pending = {}
      BY <2>1 DEF Publish, Pending
    <2> QED
      BY <1>1, <2>2 DEF ScrapeInv, PublishedInv
  <1>2. ScrapeInv /\ [Next]_vars =>
          [\A k \in DOMAIN published \cap DOMAIN published' :
             \/ /\ published[k].born = published'[k].born
                /\ published[k].recs \subseteq published'[k].recs
                /\ published[k].unmeasured => published'[k].unmeasured
             \/ k # Other /\ published[k].born < published'[k].born]_published
    BY <1>1 DEF Follows
  <1> QED
    BY <1>2, InitScrapeInv, NextScrapeInv, PTL DEF Spec, ScrapesMonotone
=============================================================================
