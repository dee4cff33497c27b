------------------------------ MODULE AggTable ------------------------------
(***************************************************************************)
(* One aggregation table of internal/aggregator: the key-to-entry map that *)
(* decode workers add flow records to, the sweeper evicts idle entries     *)
(* from and a scrape takes a snapshot of.                                  *)
(*                                                                         *)
(* The table is guarded by one sync.RWMutex.  Adding to a present entry    *)
(* takes the read lock only, so it runs concurrently with other adds and   *)
(* with a snapshot of the same entry; inserting and sweeping take the      *)
(* write lock and are one step each.  The overflow bucket is added to with *)
(* no lock at all.                                                         *)
(*                                                                         *)
(* A counter is represented by the set of records added to it: the value   *)
(* the code holds is the sum of their contributions, so "nothing lost" and *)
(* "nothing counted twice" are statements about these sets.  The bytes,    *)
(* packets and flows counters of an entry are added to and read by         *)
(* consecutive atomic operations and are one set here; "measured" stands   *)
(* for one of the two families (bytes, packets) that latch.  The counters' *)
(* width is left out: they are 64 bits wide and wrap.                      *)
(*                                                                         *)
(* A definition marked "Mutant" is a plausible mistake in the definition   *)
(* that follows it; the specification uses none of them.                   *)
(***************************************************************************)
EXTENDS Integers, FiniteSets

CONSTANTS
  Keys,        \* what a table is keyed by
  Records,     \* flow records that may reach the table, each at most once
  Workers,     \* decode workers
  KeyOf,       \* the key a record has in this table
  Measured,    \* the records whose device reported the count
  MaxEntries,  \* the entry bound
  TTL,         \* EntryTTL
  MaxTime,     \* bound on the clock
  Other,       \* the overflow bucket, whose label value is "other"
  Sweeper,     \* the goroutine of Aggregator.Run
  None         \* no record in hand

ASSUME TableAssumption ==
  /\ KeyOf \in [Records -> Keys]
  /\ Measured \subseteq Records
  /\ MaxEntries \in Nat
  /\ TTL \in Nat
  /\ MaxTime \in Nat
  /\ Other \notin Keys
  /\ Sweeper \notin Workers
  /\ None \notin Records \cup Workers
  /\ IsFiniteSet(Workers)

VARIABLES
  table,          \* live keys and Other -> entry
  nextBorn,
  idleEvictions,
  capacityFolds,
  writer,         \* the goroutine that announced itself to the RWMutex, if any
  worker,         \* per worker: where it is in add, and on what
  sweeper,        \* where the sweeper is, and the instant its cutoff counts from
  scrape,         \* the snapshot in progress
  published,      \* the last snapshot handed to a collector
  now,            \* the clock
  taken,          \* records a worker has called add for
  done,           \* records whose add has returned
  stampOf,        \* the instant Ingest stamped each taken record with
  carrier,        \* the worker that took it
  evicted         \* the ledger sweep returns: what left the table

tableVars == <<table, nextBorn, idleEvictions, capacityFolds, evicted>>
recordVars == <<taken, done, stampOf, carrier>>
scrapeVars == <<scrape, published>>
vars == <<tableVars, recordVars, scrapeVars, writer, worker, sweeper, now>>

-----------------------------------------------------------------------------
Places == Keys \cup {Other}
Time == 0..MaxTime

\* type entry: the overflow bucket is one too, with born left at zero.
Entry == [recs: SUBSET Records, unmeasured: BOOLEAN, lastSeen: Time, born: Nat]

\* type Totals, with the born that EntrySnapshot carries.
Reading == [recs: SUBSET Records, unmeasured: BOOLEAN, born: Nat]

\* Where a worker is in add, and the record and the place it is working on.
WorkerState ==
  [pc: {"idle"}, rec: {None}, at: {Other}, stamp: Time] \cup
  [pc: {"lookup", "lock", "insert", "fold", "counters", "latch", "stamp"},
   rec: Records, at: Places, stamp: Time]

SweeperState == [pc: {"idle", "lock", "sweep"}, tick: Time]

\* What the operations touch.
Live == DOMAIN table \ {Other}
Key(w) == KeyOf[worker[w].rec]
Cutoff == sweeper.tick - TTL

\* The goroutines inside a read-locked section of the table.
AddingAfterRUnlock(w) == FALSE  \* Mutant: accumulates after RUnlock
AddingUnderRLock(w) ==
  /\ worker[w].pc \in {"counters", "latch", "stamp"}
  /\ worker[w].at # Other

NoReader == scrape.pc = "idle" /\ \A w \in Workers : ~AddingUnderRLock(w)

\* sync.RWMutex: a writer first announces itself, which bars new readers,
\* and goes ahead once the readers already inside have left.
Announce(g) == writer = {} /\ writer' = {g}
HoldsLock(g) == writer = {g} /\ NoReader

Put(f, k, v) == [x \in DOMAIN f \cup {k} |-> IF x = k THEN v ELSE f[x]]

\* The latch a record leaves: set by one without the count, never cleared.
LatchOfLast(latch, r) == r \notin Measured  \* Mutant: the last record decides
Latched(latch, r) == latch \/ r \notin Measured

\* The entry bound.
FullAbove == Cardinality(Live) > MaxEntries  \* Mutant: off by one
Full == Cardinality(Live) >= MaxEntries

\* entry.add in one step, as the write lock makes it.
Added(e, r, stamp) ==
  [e EXCEPT !.recs = @ \cup {r},
            !.unmeasured = Latched(@, r),
            !.lastSeen = stamp]

\* Mutant: an entry that comes back is not told from the one that left.
NewEntryUnborn(r, stamp, born) ==
  [recs |-> {r}, unmeasured |-> Latched(FALSE, r), lastSeen |-> stamp, born |-> 0]
NewEntry(r, stamp, born) ==
  [recs |-> {r}, unmeasured |-> Latched(FALSE, r), lastSeen |-> stamp, born |-> born]

Go(w, pc) == worker' = [worker EXCEPT ![w].pc = pc]
GoAt(w, pc, k) == worker' = [worker EXCEPT ![w].pc = pc, ![w].at = k]

\* add returns to Ingest.
Return(w) ==
  /\ worker' = [worker EXCEPT ![w].pc = "idle", ![w].rec = None, ![w].at = Other]
  /\ done' = done \cup {worker[w].rec}

-----------------------------------------------------------------------------
Init ==
  /\ table = [k \in {Other} |->
                [recs |-> {}, unmeasured |-> FALSE, lastSeen |-> 0, born |-> 0]]
  /\ nextBorn = 0
  /\ idleEvictions = 0
  /\ capacityFolds = 0
  /\ writer = {}
  /\ worker = [w \in Workers |-> [pc |-> "idle", rec |-> None, at |-> Other, stamp |-> 0]]
  /\ sweeper = [pc |-> "idle", tick |-> 0]
  /\ scrape = [pc |-> "idle", todo |-> {}, at |-> Other, since |-> {}, got |-> [k \in {} |-> 0]]
  /\ published = [k \in {} |-> 0]
  /\ now = 0
  /\ taken = {}
  /\ done = {}
  /\ stampOf = [r \in Records |-> 0]
  /\ carrier = [r \in Records |-> None]
  /\ evicted = {}

Tick ==
  /\ now < MaxTime
  /\ now' = now + 1
  /\ UNCHANGED <<tableVars, recordVars, scrapeVars, writer, worker, sweeper>>

\* Ingest reads the clock once for a whole batch of records.
Ingest(w) ==
  /\ worker[w].pc = "idle"
  /\ worker' = [worker EXCEPT ![w].stamp = now]
  /\ UNCHANGED <<tableVars, recordVars, scrapeVars, writer, sweeper, now>>

\* The next record of the batch: the call of add.
IngestOne(w, r) ==
  /\ worker[w].pc = "idle"
  /\ r \notin taken
  /\ taken' = taken \cup {r}
  /\ stampOf' = [stampOf EXCEPT ![r] = worker[w].stamp]
  /\ carrier' = [carrier EXCEPT ![r] = w]
  /\ worker' = [worker EXCEPT ![w].pc = "lookup", ![w].rec = r]
  /\ UNCHANGED <<tableVars, scrapeVars, writer, sweeper, now, done>>

\* RLock and the map lookup.  A hit stays under the read lock, a miss
\* releases it before insert asks for the write lock.
Lookup(w) ==
  /\ worker[w].pc = "lookup"
  /\ writer = {}
  /\ \/ Key(w) \in Live /\ GoAt(w, "counters", Key(w))
     \/ Key(w) \notin Live /\ Go(w, "lock")
  /\ UNCHANGED <<tableVars, recordVars, scrapeVars, writer, sweeper, now>>

\* The three atomic adds of entry.add.
AddCounters(w) ==
  /\ worker[w].pc = "counters"
  /\ table' = [table EXCEPT ![worker[w].at].recs = @ \cup {worker[w].rec}]
  /\ Go(w, "latch")
  /\ UNCHANGED <<nextBorn, idleEvictions, capacityFolds, evicted, recordVars, scrapeVars,
                 writer, sweeper, now>>

\* The latch of entry.add.
Latch(w) ==
  /\ worker[w].pc = "latch"
  /\ table' = [table EXCEPT ![worker[w].at].unmeasured = Latched(@, worker[w].rec)]
  /\ Go(w, "stamp")
  /\ UNCHANGED <<nextBorn, idleEvictions, capacityFolds, evicted, recordVars, scrapeVars,
                 writer, sweeper, now>>

\* The lastSeen store of entry.add, RUnlock when the entry was in the map,
\* and the return.
Stamp(w) ==
  /\ worker[w].pc = "stamp"
  /\ table' = [table EXCEPT ![worker[w].at].lastSeen = worker[w].stamp]
  /\ Return(w)
  /\ UNCHANGED <<nextBorn, idleEvictions, capacityFolds, evicted, taken, stampOf, carrier, scrapeVars,
                 writer, sweeper, now>>

WantInsert(w) ==
  /\ worker[w].pc = "lock"
  /\ Announce(w)
  /\ Go(w, "insert")
  /\ UNCHANGED <<tableVars, recordVars, scrapeVars, sweeper, now>>

\* insert, under the write lock: another worker may have created the key
\* since the lookup; a full table refuses; otherwise the entry is created
\* with its first record in it.
InsertPresent(w) ==
  /\ worker[w].pc = "insert"
  /\ HoldsLock(w)
  /\ Key(w) \in Live
  /\ table' = [table EXCEPT ![Key(w)] = Added(@, worker[w].rec, worker[w].stamp)]
  /\ writer' = {}
  /\ Return(w)
  /\ UNCHANGED <<nextBorn, idleEvictions, capacityFolds, evicted, taken, stampOf, carrier, scrapeVars,
                 sweeper, now>>

InsertNew(w) ==
  /\ worker[w].pc = "insert"
  /\ HoldsLock(w)
  /\ Key(w) \notin Live
  /\ ~Full
  /\ nextBorn' = nextBorn + 1
  /\ table' = Put(table, Key(w), NewEntry(worker[w].rec, worker[w].stamp, nextBorn + 1))
  /\ writer' = {}
  /\ Return(w)
  /\ UNCHANGED <<idleEvictions, capacityFolds, evicted, taken, stampOf, carrier, scrapeVars, sweeper, now>>

\* Mutant: the caller tries again until there is room.
InsertRefusedRetried(w) ==
  /\ worker[w].pc = "insert"
  /\ HoldsLock(w)
  /\ Key(w) \notin Live
  /\ Full
  /\ writer' = {}
  /\ Go(w, "lookup")
  /\ UNCHANGED <<tableVars, recordVars, scrapeVars, sweeper, now>>
InsertRefused(w) ==
  /\ worker[w].pc = "insert"
  /\ HoldsLock(w)
  /\ Key(w) \notin Live
  /\ Full
  /\ writer' = {}
  /\ Go(w, "fold")
  /\ UNCHANGED <<tableVars, recordVars, scrapeVars, sweeper, now>>

\* A refused record is counted as a fold before it is added to the bucket.
\* Mutant: it is not.
FoldUncounted(w) ==
  /\ worker[w].pc = "fold"
  /\ GoAt(w, "counters", Other)
  /\ UNCHANGED <<tableVars, recordVars, scrapeVars, writer, sweeper, now>>
Fold(w) ==
  /\ worker[w].pc = "fold"
  /\ capacityFolds' = capacityFolds + 1
  /\ GoAt(w, "counters", Other)
  /\ UNCHANGED <<table, nextBorn, idleEvictions, evicted, recordVars, scrapeVars,
                 writer, sweeper, now>>

\* Aggregator.sweep: the cutoff is taken from the clock before any table's
\* lock is asked for.
SweepTick ==
  /\ sweeper.pc = "idle"
  /\ sweeper' = [pc |-> "lock", tick |-> now]
  /\ UNCHANGED <<tableVars, recordVars, scrapeVars, writer, worker, now>>

WantSweep ==
  /\ sweeper.pc = "lock"
  /\ Announce(Sweeper)
  /\ sweeper' = [sweeper EXCEPT !.pc = "sweep"]
  /\ UNCHANGED <<tableVars, recordVars, scrapeVars, worker, now>>

\* Mutants: the overflow bucket is an entry like another; an entry seen at the
\* cutoff goes too; the cutoff is subtracted the wrong way round.
IdlePlaces == {k \in DOMAIN table : table[k].lastSeen < Cutoff}
IdleKeysAtCutoff == {k \in Live : table[k].lastSeen <= Cutoff}
IdleKeysReversed == {k \in Live : table[k].lastSeen < TTL - sweeper.tick}
IdleKeys == {k \in Live : table[k].lastSeen < Cutoff}

\* Mutant: what an entry carried is published again under "other".
SweepIntoOther ==
  /\ sweeper.pc = "sweep"
  /\ HoldsLock(Sweeper)
  /\ evicted' = evicted
  /\ table' = [[k \in DOMAIN table \ IdleKeys |-> table[k]] EXCEPT
       ![Other].recs = @ \cup UNION {table[k].recs : k \in IdleKeys}]
  /\ idleEvictions' = idleEvictions + Cardinality(IdleKeys)
  /\ writer' = {}
  /\ sweeper' = [sweeper EXCEPT !.pc = "idle"]
  /\ UNCHANGED <<nextBorn, capacityFolds, recordVars, scrapeVars, worker, now>>
Sweep ==
  /\ sweeper.pc = "sweep"
  /\ HoldsLock(Sweeper)
  /\ evicted' = evicted \cup UNION {table[k].recs : k \in IdleKeys}
  /\ table' = [k \in DOMAIN table \ IdleKeys |-> table[k]]
  /\ idleEvictions' = idleEvictions + Cardinality(IdleKeys)
  /\ writer' = {}
  /\ sweeper' = [sweeper EXCEPT !.pc = "idle"]
  /\ UNCHANGED <<nextBorn, capacityFolds, recordVars, scrapeVars, worker, now>>

\* snapshot: every entry in map order, then the overflow bucket, all under
\* one read lock; each entry's counters are loaded before its latch.
\* Mutant: the overflow bucket is left out.
SnapshotOfEntries ==
  /\ scrape.pc = "idle"
  /\ writer = {}
  /\ scrape' = [scrape EXCEPT !.pc = "walk", !.todo = Live, !.since = done]
  /\ UNCHANGED <<tableVars, recordVars, published, writer, worker, sweeper, now>>
Snapshot ==
  /\ scrape.pc = "idle"
  /\ writer = {}
  /\ scrape' = [scrape EXCEPT !.pc = "walk", !.todo = DOMAIN table, !.since = done]
  /\ UNCHANGED <<tableVars, recordVars, published, writer, worker, sweeper, now>>

ReadCounters(k) ==
  /\ scrape.pc = "walk"
  /\ k \in scrape.todo
  /\ k = Other => scrape.todo = {Other}
  /\ scrape' = [scrape EXCEPT
       !.pc = "flag", !.at = k,
       !.got = Put(@, k, [recs |-> table[k].recs, unmeasured |-> FALSE, born |-> table[k].born])]
  /\ UNCHANGED <<tableVars, recordVars, published, writer, worker, sweeper, now>>

ReadLatch ==
  /\ scrape.pc = "flag"
  /\ scrape' = [scrape EXCEPT
       !.pc = "walk", !.todo = @ \ {scrape.at},
       !.got[scrape.at].unmeasured = table[scrape.at].unmeasured]
  /\ UNCHANGED <<tableVars, recordVars, published, writer, worker, sweeper, now>>

Publish ==
  /\ scrape.pc = "walk"
  /\ scrape.todo = {}
  /\ published' = scrape.got
  /\ scrape' = [pc |-> "idle", todo |-> {}, at |-> Other, since |-> {}, got |-> [k \in {} |-> 0]]
  /\ UNCHANGED <<tableVars, recordVars, writer, worker, sweeper, now>>

-----------------------------------------------------------------------------
\* What a call of add does once it has begun.
Add(w) ==
  \/ Lookup(w) \/ AddCounters(w) \/ Latch(w) \/ Stamp(w)
  \/ WantInsert(w) \/ InsertPresent(w) \/ InsertNew(w) \/ InsertRefused(w) \/ Fold(w)

Read == (\E k \in Places : ReadCounters(k)) \/ ReadLatch \/ Publish

Next ==
  \/ Tick
  \/ \E w \in Workers : Ingest(w) \/ (\E r \in Records : IngestOne(w, r)) \/ Add(w)
  \/ SweepTick \/ WantSweep \/ Sweep
  \/ Snapshot \/ Read

Spec == Init /\ [][Next]_vars

\* Goroutines keep running.  Strong fairness is needed only where a
\* goroutine waits for the RWMutex: its Unlock wakes the readers that wait,
\* and sync.Mutex hands over to a writer that has waited long.
Fairness ==
  /\ WF_vars(Tick)
  /\ \A w \in Workers : WF_vars(Add(w)) /\ SF_vars(Lookup(w)) /\ SF_vars(WantInsert(w))
  /\ WF_vars(SweepTick) /\ SF_vars(WantSweep) /\ WF_vars(Sweep)
  /\ WF_vars(Read)

FairSpec == Spec /\ Fairness
-----------------------------------------------------------------------------
(* What an entry's records are, and where they are counted. *)

\* The map holds entries only, and the overflow bucket is always there.
TableOK ==
  /\ DOMAIN table \subseteq Places
  /\ Other \in DOMAIN table
  /\ IsFiniteSet(DOMAIN table)
  /\ table \in [DOMAIN table -> Entry]

\* The variables stay within the types the code declares for them.
TypeOK ==
  /\ TableOK
  /\ nextBorn \in Nat /\ idleEvictions \in Nat /\ capacityFolds \in Nat
  /\ writer \in SUBSET (Workers \cup {Sweeper})
  /\ worker \in [Workers -> WorkerState]
  /\ sweeper \in SweeperState
  /\ scrape.pc \in {"idle", "walk", "flag"} /\ scrape.at \in Places
  /\ scrape.todo \subseteq Places /\ scrape.since \subseteq Records
  /\ now \in Time
  /\ taken \subseteq Records /\ done \subseteq Records
  /\ stampOf \in [Records -> Time] /\ carrier \in [Records -> Workers \cup {None}]
  /\ evicted \subseteq Records

\* The table never holds more entries than its bound, although the bound is
\* checked in one step and the lookup that led there was made in another.
EntryBound == Cardinality(Live) <= MaxEntries

\* Where a record is counted now.
CountedIn(r) == {k \in DOMAIN table : r \in table[k].recs}

\* A record whose add has returned is counted exactly once: in its own
\* key's entry, in the overflow bucket, or in the ledger of evicted entries
\* (the accumulation happens under the lock so that a sweep cannot lose it,
\* and evicted totals are not published again under "other").
CountedOnce ==
  /\ \A r \in Records : CountedIn(r) \subseteq {KeyOf[r], Other}
  /\ \A r \in Records, j, k \in DOMAIN table :
       r \in table[j].recs /\ r \in table[k].recs => j = k
  /\ \A r \in evicted : CountedIn(r) = {}
  /\ \A r \in done : r \in evicted \/ CountedIn(r) # {}

\* What holds of a record while a worker is still adding it.
Uncounted(r) == r \notin evicted /\ \A k \in DOMAIN table : r \notin table[k].recs

HandOK(w) ==
  LET r == worker[w].rec IN
  /\ worker[w].pc # "idle" => r \in taken \ done
  /\ worker[w].pc \in {"lookup", "lock", "insert", "fold", "counters"} => Uncounted(r)
  /\ worker[w].pc \in {"counters", "latch", "stamp"} =>
       worker[w].at \in DOMAIN table /\ worker[w].at \in {KeyOf[r], Other}
  /\ worker[w].pc \in {"latch", "stamp"} => r \in table[worker[w].at].recs

HandsOK ==
  /\ \A w \in Workers : HandOK(w)
  /\ \A v, w \in Workers :
       v # w /\ worker[v].pc # "idle" => worker[v].rec # worker[w].rec
  /\ \A r \in Records \ taken : Uncounted(r)
  /\ done \subseteq taken

\* Records a worker has added to place k and not yet looked at for the latch.
Unlatched(k) ==
  {worker[w].rec : w \in {v \in Workers : worker[v].pc = "latch" /\ worker[v].at = k}}

\* An entry is withheld exactly when one of its records lacked the count:
\* the latch misses no such record and is set by no other.
LatchExact ==
  \A k \in DOMAIN table :
    /\ table[k].unmeasured => ~(table[k].recs \subseteq Measured)
    /\ ~table[k].unmeasured => table[k].recs \subseteq Measured \cup Unlatched(k)

\* The capacity-fold counter is never behind the overflow bucket it explains.
FoldsExplainOverflow == Cardinality(table[Other].recs) <= capacityFolds

\* A snapshot reports every record whose add had returned when it began and
\* that no sweep had dropped, with the entry withheld if that record lacked
\* the count.
SnapshotComplete ==
  [][published' # published =>
       \A r \in scrape.since \ evicted :
         \E k \in DOMAIN published' :
           /\ r \in published'[k].recs
           /\ r \notin Measured => published'[k].unmeasured]_<<scrape, published>>

\* From one scrape to the next a series only grows and, once withheld, stays
\* withheld; one that starts again lower is a later-born entry.  The "other"
\* series never restarts.
ScrapesMonotone ==
  [][\A k \in DOMAIN published \cap DOMAIN published' :
       \/ /\ published[k].born = published'[k].born
          /\ published[k].recs \subseteq published'[k].recs
          /\ published[k].unmeasured => published'[k].unmeasured
       \/ k # Other /\ published[k].born < published'[k].born]_published

\* A sweep drops no entry that counted a record stamped within the TTL, if
\* one worker carried all its records, as sharding by source address makes
\* of a key that belongs to one device.  lastSeen is stored, not raised: two
\* workers whose batches began at different instants can move it back.
OneCarrier(k) == Cardinality({carrier[r] : r \in table[k].recs}) = 1

EvictsOnlyIdle ==
  [][\A k \in DOMAIN table \ DOMAIN table' :
       OneCarrier(k) => \A r \in table[k].recs : stampOf[r] < Cutoff]_table

\* The table implements Tally: the steps inside add and sweep show as one
\* count, one refusal or one drop.
T == INSTANCE Tally WITH
       series <- [k \in Keys |-> IF k \in Live THEN table[k].recs ELSE {}],
       other <- table[Other].recs,
       gone <- evicted

CountsAsTally == T!Spec

\* Every add returns: no worker waits for the lock for ever, whatever the
\* sweeper and the scrapes do.
AddReturns == \A r \in Records : r \in taken ~> r \in done

\* An entry nobody feeds any more leaves the table.  One stamped so late that
\* the bounded clock cannot outlive its TTL is excepted.
IdleEntriesLeave ==
  \A k \in Keys :
    k \in Live ~> (k \in Live => table[k].lastSeen + TTL >= MaxTime)
=============================================================================
