------------------------- MODULE SamplerTableProofs -------------------------
(***************************************************************************)
(* Proofs about SamplerTable, for any domains, identifiers, interfaces and *)
(* rates, any bound on the table and any TTL.                              *)
(***************************************************************************)
EXTENDS SamplerTable, FiniteSetTheorems, TLAPS

-----------------------------------------------------------------------------
(* The inductive invariant.                                                *)

\* The table is finite and in its bound, and its copies say what it holds.
\* While the sweep is between its two passes no scoped declaration is silent,
\* so that the second pass leaves hasScoped as the first one set it.
TableOK ==
  /\ IsFiniteSet(DOMAIN declared) /\ Cardinality(DOMAIN declared) <= MaxSamplers
  /\ hasScoped <=> \E ref \in DOMAIN declared : IsScoped(ref)
  /\ inherited = SoleRate(declared)
  /\ DOMAIN declared # {} => sampled
  /\ \A o \in Domains : Named(o, Unsampled) \in DOMAIN declared => declaredZero
  /\ sweeper.pc = "inherit" => \A ref \in Silent : ~IsScoped(ref)

\* A datagram is decoded within the TTL, a cutoff is the TTL behind the clock
\* at most, and a declaration is as fresh as a domain that is still live,
\* unless it is silent itself: those that made it have all gone silent.
ClockOK ==
  /\ worker.pc # "idle" => now <= domains[worker.odid].lastSeen + TTL
  /\ \A o \in DOMAIN domains : domains[o].lastSeen <= now
  /\ sweeper.cutoff <= now - TTL
  /\ \A ref \in DOMAIN declared :
       \/ declared[ref].lastSeen < now - TTL
       \/ \E o \in DOMAIN domains : declared[ref].lastSeen <= domains[o].lastSeen

Inv == StateOK /\ TableOK /\ ClockOK

-----------------------------------------------------------------------------
(* What the operators of the table return.                                 *)

\* The rate a set of rates agrees on is its only member, and 0 if it has none
\* or several: 0 is no rate.
LEMMA AgreedIs ==
  ASSUME NEW rates \in SUBSET Rates, IsFiniteSet(rates)
  PROVE  /\ Agreed(rates) \in Rates \cup {0}
         /\ IF Agreed(rates) = 0 THEN Cardinality(rates) # 1 ELSE rates = {Agreed(rates)}
  <1>1. CASE Cardinality(rates) = 1
    <2>1. PICK r : rates = {r}
      BY <1>1, FS_Singleton
    <2>2. Agreed(rates) = r
      BY <1>1, <2>1 DEF Agreed
    <2> QED
      BY <1>1, <2>1, <2>2, SamplerAssumption
  <1>2. CASE Cardinality(rates) # 1
    BY <1>2 DEF Agreed
  <1> QED
    BY <1>1, <1>2

\* The rates of some of a finite table's declarations are a finite set of rates.
LEMMA FewRates ==
  ASSUME NEW t, IsFiniteSet(DOMAIN t), \A ref \in DOMAIN t : t[ref] \in SamplerEntry,
         NEW refs \in SUBSET DOMAIN t
  PROVE  /\ {t[ref].rate : ref \in refs} \in SUBSET Rates
         /\ IsFiniteSet({t[ref].rate : ref \in refs})
  <1> DEFINE rates == {t[ref].rate : ref \in refs}
             f == [ref \in refs |-> t[ref].rate]
  <1>1. f \in Surjection(refs, rates)
    BY DEF Surjection
  <1>2. IsFiniteSet(refs)
    BY FS_Subset
  <1>3. IsFiniteSet(rates)
    BY <1>1, <1>2, FS_Surjection
  <1>4. rates \in SUBSET Rates
    BY DEF SamplerEntry
  <1> QED
    BY <1>3, <1>4

\* The sole rate of a finite table is a rate or 0.
LEMMA SoleRateType ==
  ASSUME NEW t, IsFiniteSet(DOMAIN t), \A ref \in DOMAIN t : t[ref] \in SamplerEntry
  PROVE  SoleRate(t) \in Rates \cup {0}
  <1> DEFINE refs == {r \in DOMAIN t : ~IsScoped(r)}
  <1>1. refs \in SUBSET DOMAIN t
    OBVIOUS
  <1> HIDE DEF refs
  <1>2. Agreed({t[ref].rate : ref \in refs}) \in Rates \cup {0}
    BY <1>1, FewRates, AgreedIs
  <1> QED
    BY <1>2 DEF SoleRate, refs

\* Tables whose unscoped declarations are the same have the same sole rate.
LEMMA SameSoleRate ==
  ASSUME NEW s, NEW t,
         \A ref : ~IsScoped(ref) => (ref \in DOMAIN s <=> ref \in DOMAIN t),
         \A ref \in DOMAIN t : ~IsScoped(ref) => s[ref] = t[ref]
  PROVE  SoleRate(s) = SoleRate(t)
  <1>1. {s[ref].rate : ref \in {r \in DOMAIN s : ~IsScoped(r)}}
          = {t[ref].rate : ref \in {r \in DOMAIN t : ~IsScoped(r)}}
    OBVIOUS
  <1> QED
    BY <1>1 DEF SoleRate

\* A declaration replaces the one of its reference or joins the table, if there
\* is room, and leaves the others as they are.
LEMMA DeclaredIs ==
  ASSUME StateOK, TableOK, NEW ref \in Refs, NEW rate \in Rates,
         worker.odid \in DOMAIN domains
  PROVE  /\ DOMAIN declared \subseteq DOMAIN Declared(ref, rate)
         /\ DOMAIN Declared(ref, rate) \subseteq DOMAIN declared \cup {ref}
         /\ \A r \in DOMAIN Declared(ref, rate) :
              \/ r \in DOMAIN declared /\ Declared(ref, rate)[r] = declared[r]
              \/ Declared(ref, rate)[r] =
                   [rate |-> rate, lastSeen |-> domains[worker.odid].lastSeen]
         /\ \A r \in DOMAIN Declared(ref, rate) : Declared(ref, rate)[r] \in SamplerEntry
         /\ IsFiniteSet(DOMAIN Declared(ref, rate))
         /\ Cardinality(DOMAIN Declared(ref, rate)) <= MaxSamplers
  <1> DEFINE entry == [rate |-> rate, lastSeen |-> domains[worker.odid].lastSeen]
  <1>0. entry \in SamplerEntry
    BY DEF StateOK, SamplerEntry
  <1>1. CASE ref \notin DOMAIN declared /\ Cardinality(DOMAIN declared) >= MaxSamplers
    BY <1>1 DEF Declared, StateOK, TableOK
  <1>2. CASE ~(ref \notin DOMAIN declared /\ Cardinality(DOMAIN declared) >= MaxSamplers)
    <2>1. Declared(ref, rate) = [r \in DOMAIN declared \cup {ref} |->
                                   IF r = ref THEN entry ELSE declared[r]]
      BY <1>2 DEF Declared
    <2>2. /\ IsFiniteSet(DOMAIN declared \cup {ref})
          /\ Cardinality(DOMAIN declared \cup {ref}) <= MaxSamplers
      <3>1. /\ IsFiniteSet(DOMAIN declared) /\ Cardinality(DOMAIN declared) \in Nat
            /\ Cardinality(DOMAIN declared) <= MaxSamplers /\ MaxSamplers \in Nat
        BY FS_CardinalityType, SamplerAssumption DEF TableOK
      <3>2. /\ IsFiniteSet(DOMAIN declared \cup {ref})
            /\ Cardinality(DOMAIN declared \cup {ref}) =
                 IF ref \in DOMAIN declared THEN Cardinality(DOMAIN declared)
                 ELSE Cardinality(DOMAIN declared) + 1
        BY <3>1, FS_AddElement
      <3> QED
        BY <1>2, <3>1, <3>2
    <2>3. DOMAIN Declared(ref, rate) = DOMAIN declared \cup {ref}
      BY <2>1
    <2>4. \A r \in DOMAIN Declared(ref, rate) :
            Declared(ref, rate)[r] = IF r = ref THEN entry ELSE declared[r]
      BY <2>1
    <2> HIDE DEF entry
    <2>5. \A r \in DOMAIN Declared(ref, rate) : Declared(ref, rate)[r] \in SamplerEntry
      BY <1>0, <2>3, <2>4 DEF StateOK
    <2> QED
      BY <2>2, <2>3, <2>4, <2>5 DEF entry
  <1> QED
    BY <1>1, <1>2

\* A restriction keeps what it does not drop.
LEMMA RestrictIs ==
  ASSUME NEW f, NEW S \in SUBSET DOMAIN f
  PROVE  DOMAIN Restrict(f, S) = S /\ \A x \in S : Restrict(f, S)[x] = f[x]
  BY DEF Restrict

-----------------------------------------------------------------------------
(* What each step leaves of the worker, the sweep and the domains.         *)

\* A worker with a datagram keeps it until it has decoded it.
LEMMA WorkerSteps ==
  ASSUME StateOK
  PROVE  /\ \A o \in Domains : Receive(o) =>
              worker' \in WorkerState /\ worker'.pc = "ready" /\ worker'.odid = o
         /\ \A rate \in Rates : CommitPlain(rate) =>
              /\ worker' \in WorkerState /\ worker'.pc = "declare"
              /\ worker'.odid = worker.odid /\ worker'.rate = rate
         /\ DeclarePlain =>
              worker' \in WorkerState /\ worker'.pc = "ready" /\ worker'.odid = worker.odid
         /\ \A rec \in Records : Record(rec) =>
              worker' \in WorkerState /\ worker'.pc \notin {"idle", "declare"} /\ worker'.odid = worker.odid
         /\ Look =>
              worker' \in WorkerState /\ worker'.pc \notin {"idle", "declare"} /\ worker'.odid = worker.odid
         /\ EndDatagram => worker' \in WorkerState /\ worker'.pc = "idle"
  <1>0. worker \in WorkerState
    BY DEF StateOK
  <1>1. ASSUME NEW o \in Domains, Receive(o)
        PROVE  worker' \in WorkerState /\ worker'.pc = "ready" /\ worker'.odid = o
    <2> DEFINE s == [worker EXCEPT !.pc = "ready"]
    <2>1. worker' = [s EXCEPT !.odid = o]
      BY <1>1 DEF Receive
    <2>2. s \in WorkerState /\ s.pc = "ready"
      BY <1>0 DEF WorkerState
    <2> HIDE DEF s
    <2> QED
      BY <2>1, <2>2 DEF WorkerState
  <1>2. ASSUME NEW rate \in Rates, CommitPlain(rate)
        PROVE  /\ worker' \in WorkerState /\ worker'.pc = "declare"
               /\ worker'.odid = worker.odid /\ worker'.rate = rate
    <2> DEFINE s == [worker EXCEPT !.pc = "declare"]
    <2>1. worker' = [s EXCEPT !.rate = rate]
      BY <1>2 DEF CommitPlain
    <2>2. s \in WorkerState /\ s.pc = "declare" /\ s.odid = worker.odid
      BY <1>0 DEF WorkerState
    <2> HIDE DEF s
    <2> QED
      BY <2>1, <2>2 DEF WorkerState
  <1>3. ASSUME DeclarePlain
        PROVE  worker' \in WorkerState /\ worker'.pc = "ready" /\ worker'.odid = worker.odid
    BY <1>0, <1>3 DEF DeclarePlain, WorkerState
  <1>4. ASSUME NEW rec \in Records, Record(rec)
        PROVE  worker' \in WorkerState /\ worker'.pc \notin {"idle", "declare"} /\ worker'.odid = worker.odid
    <2>1. PICK pc \in Reading : worker' = [worker EXCEPT !.pc = pc, !.rec = rec]
      BY <1>4 DEF Record, Reading
    <2> QED
      BY <1>0, <2>1 DEF WorkerState, Reading
  <1>5. ASSUME Look
        PROVE  worker' \in WorkerState /\ worker'.pc \notin {"idle", "declare"} /\ worker'.odid = worker.odid
    <2>1. LookNext \in Reading
      BY DEF LookNext, Reading
    <2>2. \/ worker' = [worker EXCEPT !.pc = "ready", !.rec = None]
          \/ worker' = [worker EXCEPT !.pc = LookNext]
      BY <1>5 DEF Look
    <2> HIDE DEF LookNext
    <2> QED
      BY <1>0, <2>1, <2>2 DEF WorkerState, Reading
  <1>6. ASSUME EndDatagram
        PROVE  worker' \in WorkerState /\ worker'.pc = "idle"
    BY <1>6 DEF EndDatagram, Idle, WorkerState
  <1> QED
    BY <1>1, <1>2, <1>3, <1>4, <1>5, <1>6

\* The sweep keeps its type, and its cutoff is the TTL behind the clock.
LEMMA SweeperSteps ==
  ASSUME StateOK, ClockOK
  PROVE  /\ SweepTick => /\ sweeper' \in SweeperState /\ sweeper'.pc = "expire"
                         /\ sweeper'.cutoff = now - TTL
         /\ ExpireScoped => /\ sweeper' \in SweeperState /\ sweeper'.pc = "inherit"
                            /\ sweeper'.cutoff = sweeper.cutoff
         /\ Expire => /\ sweeper' \in SweeperState /\ sweeper'.pc = "restate"
                      /\ sweeper'.cutoff = -TTL
         /\ \A o \in Domains : Restate(o) =>
              /\ sweeper' \in SweeperState /\ sweeper'.pc = "store"
              /\ sweeper'.cutoff = sweeper.cutoff
         /\ Store => /\ sweeper' \in SweeperState /\ sweeper'.pc = "restate"
                     /\ sweeper'.cutoff = sweeper.cutoff
         /\ SweepEnd => /\ sweeper' \in SweeperState /\ sweeper'.pc = "rest"
                        /\ sweeper'.cutoff = sweeper.cutoff
         /\ SweepDue => /\ sweeper' \in SweeperState /\ sweeper'.pc = "idle"
                        /\ sweeper'.cutoff = sweeper.cutoff
  <1>0. /\ sweeper \in SweeperState /\ now \in Int /\ TTL \in Int
        /\ DOMAIN domains \subseteq Domains
    BY SamplerAssumption DEF StateOK, Time
  <1>1. SweepTick => /\ sweeper' \in SweeperState /\ sweeper'.pc = "expire"
                     /\ sweeper'.cutoff = now - TTL
    <2> DEFINE s == [sweeper EXCEPT !.pc = "expire"]
    <2>1. SweepTick => sweeper' = [s EXCEPT !.cutoff = now - TTL]
      BY DEF SweepTick
    <2>2. s \in SweeperState /\ s.pc = "expire"
      BY <1>0 DEF SweeperState
    <2> HIDE DEF s
    <2>3. now - TTL \in Int
      BY <1>0
    <2> QED
      BY <2>1, <2>2, <2>3 DEF SweeperState
  <1>2. ExpireScoped => /\ sweeper' \in SweeperState /\ sweeper'.pc = "inherit"
                        /\ sweeper'.cutoff = sweeper.cutoff
    BY <1>0 DEF ExpireScoped, SweeperState
  <1>3. Expire => /\ sweeper' \in SweeperState /\ sweeper'.pc = "restate"
                  /\ sweeper'.cutoff = -TTL
    <2> DEFINE s == [sweeper EXCEPT !.pc = "restate"]
               t == [s EXCEPT !.cutoff = -TTL]
    <2>1. Expire => sweeper' = [t EXCEPT !.todo = DOMAIN domains]
      BY DEF Expire
    <2>2. s \in SweeperState /\ s.pc = "restate"
      BY <1>0 DEF SweeperState
    <2> HIDE DEF s
    <2>3. t \in SweeperState /\ t.pc = "restate" /\ t.cutoff = -TTL
      BY <1>0, <2>2 DEF SweeperState
    <2> HIDE DEF t
    <2> QED
      BY <1>0, <2>1, <2>3 DEF SweeperState
  <1>4. ASSUME NEW o \in Domains, Restate(o)
        PROVE  /\ sweeper' \in SweeperState /\ sweeper'.pc = "store"
               /\ sweeper'.cutoff = sweeper.cutoff
    <2> DEFINE r == PlainRate(o)
               T == sweeper.todo \ {o}
    <2>1. r \in Rates \cup {0}
      BY DEF PlainRate, StateOK, SamplerEntry
    <2>2. T \in SUBSET Domains
      BY <1>0 DEF SweeperState
    <2>3. sweeper' = [sweeper EXCEPT !.pc = "store", !.todo = T, !.odid = o, !.rate = r]
      BY <1>4 DEF Restate
    <2> HIDE DEF r, T
    <2> QED
      BY <1>0, <2>1, <2>2, <2>3 DEF SweeperState
  <1>5. Store => /\ sweeper' \in SweeperState /\ sweeper'.pc = "restate"
                 /\ sweeper'.cutoff = sweeper.cutoff
    BY <1>0 DEF Store, SweeperState
  <1>6. SweepEnd => /\ sweeper' \in SweeperState /\ sweeper'.pc = "rest"
                    /\ sweeper'.cutoff = sweeper.cutoff
    BY <1>0 DEF SweepEnd, SweeperState
  <1>7. SweepDue => /\ sweeper' \in SweeperState /\ sweeper'.pc = "idle"
                    /\ sweeper'.cutoff = sweeper.cutoff
    BY <1>0 DEF SweepDue, SweeperState
  <1> QED
    BY <1>1, <1>2, <1>3, <1>4, <1>5, <1>6, <1>7

\* A datagram's domain is no longer silent than the TTL, so the sweep leaves it.
LEMMA SweepKeepsDecoded ==
  ASSUME StateOK, ClockOK, SweepTick
  PROVE  /\ DOMAIN domains' \subseteq DOMAIN domains
         /\ \A o \in DOMAIN domains : domains[o].lastSeen >= now - TTL =>
              o \in DOMAIN domains'
         /\ \A o \in DOMAIN domains' : domains'[o] = domains[o]
         /\ worker.pc # "idle" => worker.odid \in DOMAIN domains'
  <1> DEFINE live == {o \in DOMAIN domains : domains[o].lastSeen >= now - TTL}
  <1>1. domains' = Restrict(domains, live) /\ live \in SUBSET DOMAIN domains
    BY DEF SweepTick
  <1>2. DOMAIN domains' = live /\ \A o \in live : domains'[o] = domains[o]
    BY <1>1, RestrictIs
  <1>3. worker.pc # "idle" => worker.odid \in live
    <2>1. now \in Int /\ TTL \in Int
      BY SamplerAssumption DEF StateOK, Time
    <2>2. ASSUME worker.pc # "idle"
          PROVE  /\ worker.odid \in DOMAIN domains /\ domains[worker.odid].lastSeen \in Int
                 /\ now <= domains[worker.odid].lastSeen + TTL
      BY <2>2, SamplerAssumption DEF StateOK, ClockOK, Time
    <2> QED
      BY <2>1, <2>2
  <1> QED
    BY <1>2, <1>3

-----------------------------------------------------------------------------
(* What each step leaves of the table.                                     *)

\* The types of the table and of the copies of it.
TableTypes ==
  /\ DOMAIN declared \subseteq Refs
  /\ \A ref \in DOMAIN declared : declared[ref] \in SamplerEntry
  /\ hasScoped \in BOOLEAN /\ sampled \in BOOLEAN /\ declaredZero \in BOOLEAN
  /\ inherited \in Rates \cup {0}

\* A declaration is made under the lock the sweep holds between its passes, and
\* keeps the copies in step.
LEMMA DeclareKeeps ==
  ASSUME StateOK, TableOK, NEW ref \in Refs, NEW rate \in Rates,
         worker.odid \in DOMAIN domains, Declare(ref, rate), UNCHANGED sweeper
  PROVE  TableTypes' /\ TableOK'
  <1> DEFINE D == Declared(ref, rate)
  <1>1. declared' = D
    BY DEF Declare
  <1>2. /\ DOMAIN declared \subseteq DOMAIN D /\ DOMAIN D \subseteq DOMAIN declared \cup {ref}
        /\ \A r \in DOMAIN D : D[r] \in SamplerEntry
        /\ IsFiniteSet(DOMAIN D) /\ Cardinality(DOMAIN D) <= MaxSamplers
    BY DeclaredIs
  <1> HIDE DEF D
  <1>3. SoleRate(D) \in Rates \cup {0}
    BY <1>2, SoleRateType
  <1>4. /\ hasScoped' = (hasScoped \/ (IsScoped(ref) /\ ref \in DOMAIN D))
        /\ inherited' = SoleRate(D)
        /\ sampled' = (sampled \/ ref \in DOMAIN D)
        /\ declaredZero' =
             (declaredZero \/ (ref \in DOMAIN D /\ ref.kind = "named" /\ ref.value = Unsampled))
    BY <1>1 DEF Declare
  <1>5. TableTypes'
    BY <1>1, <1>2, <1>3, <1>4 DEF TableTypes, StateOK
  <1>6. hasScoped' <=> \E r \in DOMAIN declared' : IsScoped(r)
    BY <1>1, <1>2, <1>4 DEF TableOK, StateOK
  <1>7. DOMAIN declared' # {} => sampled'
    BY <1>1, <1>2, <1>4 DEF TableOK
  <1>8. \A o \in Domains : Named(o, Unsampled) \in DOMAIN declared' => declaredZero'
    <2> SUFFICES ASSUME NEW o \in Domains, Named(o, Unsampled) \in DOMAIN D
                 PROVE  declaredZero'
      BY <1>1
    <2>1. CASE Named(o, Unsampled) \in DOMAIN declared
      BY <1>4, <2>1 DEF TableOK
    <2>2. CASE Named(o, Unsampled) = ref
      BY <1>4, <2>2 DEF Named
    <2> QED
      BY <1>2, <2>1, <2>2
  <1>9. sweeper'.pc # "inherit"
    BY DEF Declare, TableUnlocked
  <1> QED
    BY <1>1, <1>2, <1>4, <1>5, <1>6, <1>7, <1>8, <1>9 DEF TableOK

\* Dropping declarations keeps the types and the bound.
LEMMA DropKeeps ==
  ASSUME StateOK, TableOK, NEW S \in SUBSET DOMAIN declared,
         declared' = Restrict(declared, S)
  PROVE  /\ DOMAIN declared' = S /\ S \subseteq Refs
         /\ \A ref \in S : declared'[ref] = declared[ref] /\ declared'[ref] \in SamplerEntry
         /\ IsFiniteSet(S) /\ Cardinality(S) <= MaxSamplers
         /\ SoleRate(declared') \in Rates \cup {0}
  <1>1. DOMAIN declared' = S /\ \A ref \in S : declared'[ref] = declared[ref]
    BY RestrictIs
  <1>2. S \subseteq Refs /\ \A ref \in S : declared'[ref] \in SamplerEntry
    BY <1>1 DEF StateOK
  <1>3. IsFiniteSet(S) /\ Cardinality(S) <= Cardinality(DOMAIN declared)
    BY FS_Subset DEF TableOK
  <1>4. Cardinality(S) <= MaxSamplers
    BY <1>3, FS_CardinalityType, SamplerAssumption DEF TableOK
  <1>5. SoleRate(declared') \in Rates \cup {0}
    BY <1>1, <1>2, <1>3, SoleRateType
  <1> QED
    BY <1>1, <1>2, <1>3, <1>4, <1>5

\* The first pass drops scoped declarations only, so the sole rate stands.
LEMMA ExpireScopedKeeps ==
  ASSUME StateOK, TableOK, ClockOK, ExpireScoped
  PROVE  TableTypes' /\ TableOK'
  <1> DEFINE dropped == {ref \in Silent : IsScoped(ref)}
             S == DOMAIN declared \ dropped
  <1>1. declared' = Restrict(declared, S) /\ S \in SUBSET DOMAIN declared
    BY DEF ExpireScoped, Kept
  <1>2. /\ DOMAIN declared' = S /\ S \subseteq Refs
        /\ \A ref \in S : declared'[ref] = declared[ref] /\ declared'[ref] \in SamplerEntry
        /\ IsFiniteSet(S) /\ Cardinality(S) <= MaxSamplers
    BY <1>1, DropKeeps
  <1>3. /\ hasScoped' = \E ref \in DOMAIN declared' : IsScoped(ref)
        /\ UNCHANGED <<inherited, sampled, declaredZero>>
    BY DEF ExpireScoped
  <1>4. TableTypes'
    BY <1>2, <1>3 DEF TableTypes, StateOK
  <1>5. inherited' = SoleRate(declared')
    <2>1. /\ \A ref : ~IsScoped(ref) => (ref \in DOMAIN declared' <=> ref \in DOMAIN declared)
          /\ \A ref \in DOMAIN declared : ~IsScoped(ref) => declared'[ref] = declared[ref]
      BY <1>2
    <2>2. SoleRate(declared') = SoleRate(declared)
      BY <2>1, SameSoleRate
    <2> QED
      BY <1>3, <2>2 DEF TableOK
  <1>6. \A ref \in Silent' : ~IsScoped(ref)
    <2>1. sweeper'.cutoff = sweeper.cutoff
      BY SweeperSteps
    <2> QED
      BY <1>2, <2>1 DEF Silent
  <1>7. DOMAIN declared' # {} => sampled'
    BY <1>2, <1>3 DEF TableOK
  <1>8. \A o \in Domains : Named(o, Unsampled) \in DOMAIN declared' => declaredZero'
    BY <1>2, <1>3 DEF TableOK
  <1> HIDE DEF S, dropped
  <1> QED
    BY <1>2, <1>3, <1>4, <1>5, <1>6, <1>7, <1>8 DEF TableOK

\* The second pass drops unscoped declarations only, so hasScoped stands.
LEMMA ExpireKeeps ==
  ASSUME StateOK, TableOK, ClockOK, Expire
  PROVE  TableTypes' /\ TableOK'
  <1> DEFINE S == DOMAIN declared \ Silent
  <1>1. declared' = Restrict(declared, S) /\ S \in SUBSET DOMAIN declared
    BY DEF Expire, Kept
  <1>2. /\ DOMAIN declared' = S /\ S \subseteq Refs
        /\ \A ref \in S : declared'[ref] = declared[ref] /\ declared'[ref] \in SamplerEntry
        /\ IsFiniteSet(S) /\ Cardinality(S) <= MaxSamplers
        /\ SoleRate(declared') \in Rates \cup {0}
    BY <1>1, DropKeeps
  <1>3. inherited' = SoleRate(declared') /\ UNCHANGED <<hasScoped, sampled, declaredZero>>
    BY DEF Expire
  <1>4. TableTypes'
    BY <1>2, <1>3 DEF TableTypes, StateOK
  <1>5. hasScoped' <=> \E ref \in DOMAIN declared' : IsScoped(ref)
    <2>1. \A ref \in Silent : ~IsScoped(ref)
      BY DEF Expire, TableOK
    <2> QED
      BY <1>2, <1>3, <2>1 DEF TableOK
  <1>6. sweeper'.pc # "inherit"
    BY SweeperSteps
  <1>7. DOMAIN declared' # {} => sampled'
    BY <1>2, <1>3 DEF TableOK
  <1>8. \A o \in Domains : Named(o, Unsampled) \in DOMAIN declared' => declaredZero'
    BY <1>2, <1>3 DEF TableOK
  <1> HIDE DEF S
  <1> QED
    BY <1>2, <1>3, <1>4, <1>5, <1>6, <1>7, <1>8 DEF TableOK

\* A table is freed whole, or left as it is.
LEMMA SweepEndKeeps ==
  ASSUME StateOK, TableOK, ClockOK, SweepEnd
  PROVE  TableTypes' /\ TableOK'
  <1>1. sweeper'.pc # "inherit"
    BY SweeperSteps
  <1>2. CASE DOMAIN domains = {}
    <2>1. declared' = Restrict(declared, {})
      BY <1>2 DEF SweepEnd
    <2>2. /\ DOMAIN declared' = {}
          /\ IsFiniteSet({}) /\ Cardinality({}) = 0
      BY <2>1, FS_EmptySet DEF Restrict
    <2>3. ~hasScoped' /\ inherited' = 0 /\ ~sampled' /\ ~declaredZero'
      BY <1>2 DEF SweepEnd
    <2>4. SoleRate(declared') = 0
      <3>1. {declared'[ref].rate : ref \in {r \in DOMAIN declared' : ~IsScoped(r)}} = {}
        BY <2>2
      <3> QED
        BY <2>2, <3>1 DEF SoleRate, Agreed
    <2>5. hasScoped' \in BOOLEAN /\ sampled' \in BOOLEAN /\ declaredZero' \in BOOLEAN
      BY DEF SweepEnd
    <2> QED
      BY <1>1, <2>2, <2>3, <2>4, <2>5, SamplerAssumption DEF TableTypes, TableOK
  <1>3. CASE DOMAIN domains # {}
    <2>1. declared' = Restrict(declared, DOMAIN declared)
      BY <1>3 DEF SweepEnd
    <2>2. /\ DOMAIN declared' = DOMAIN declared
          /\ \A ref \in DOMAIN declared : declared'[ref] = declared[ref]
      BY <2>1, RestrictIs
    <2>3. /\ hasScoped' = hasScoped /\ inherited' = inherited
          /\ sampled' = sampled /\ declaredZero' = declaredZero
      BY <1>3 DEF SweepEnd, StateOK
    <2>4. SoleRate(declared') = SoleRate(declared)
      BY <2>2, SameSoleRate
    <2> QED
      BY <1>1, <2>2, <2>3, <2>4 DEF TableTypes, TableOK, StateOK
  <1> QED
    BY <1>2, <1>3

-----------------------------------------------------------------------------
(* Every step preserves the invariant.                                     *)

\* Steps that leave the table and its copies leave what is said of them.
LEMMA TableStands ==
  ASSUME StateOK, TableOK, UNCHANGED <<declared, hasScoped, inherited, declaredZero>>,
         sampled' \in BOOLEAN, sampled => sampled',
         sweeper'.pc = "inherit" =>
           sweeper.pc = "inherit" /\ sweeper'.cutoff = sweeper.cutoff
  PROVE  TableTypes' /\ TableOK'
  <1>1. TableTypes'
    BY DEF TableTypes, StateOK
  <1>2. sweeper'.pc = "inherit" => \A ref \in Silent' : ~IsScoped(ref)
    BY DEF TableOK, Silent
  <1> QED
    BY <1>1, <1>2 DEF TableOK

\* Every step keeps the table's types and what its copies say of it.
LEMMA NextTableOK ==
  ASSUME Inv, [Next]_vars
  PROVE  TableTypes' /\ TableOK'
  <1>0. StateOK /\ TableOK /\ ClockOK
    BY DEF Inv
  <1>1. CASE Tick
    BY <1>0, <1>1, TableStands DEF Tick, table, StateOK
  <1>2. ASSUME NEW o \in Domains, Receive(o)
        PROVE  TableTypes' /\ TableOK'
    BY <1>0, <1>2, TableStands DEF Receive, table, StateOK
  <1>3. ASSUME NEW o \in Domains, Restate(o)
        PROVE  TableTypes' /\ TableOK'
    <2>1. sweeper'.pc = "store"
      BY <1>0, <1>3, SweeperSteps
    <2> QED
      BY <1>0, <1>3, <2>1, TableStands DEF Restate, table, StateOK
  <1>4. ASSUME NEW ref \in Refs, NEW rate \in Rates, Commit(ref, rate)
        PROVE  TableTypes' /\ TableOK'
    <2>1. worker.odid \in DOMAIN domains
      BY <1>0, <1>4 DEF Commit, StateOK
    <2>2. Declare(ref, rate) /\ UNCHANGED sweeper
      BY <1>4 DEF Commit
    <2> QED
      BY <1>0, <2>1, <2>2, DeclareKeeps
  <1>5. ASSUME NEW rate \in Rates, CommitPlain(rate)
        PROVE  TableTypes' /\ TableOK'
    BY <1>0, <1>5, TableStands DEF CommitPlain, table, StateOK
  <1>6. CASE DeclarePlain
    <2>1. worker.odid \in DOMAIN domains /\ worker.odid \in Domains
      BY <1>0, <1>6 DEF DeclarePlain, StateOK
    <2>2. Declare(Plain(worker.odid), worker.rate) /\ UNCHANGED sweeper
      BY <1>6 DEF DeclarePlain
    <2>3. PICK ref \in Refs : ref = Plain(worker.odid)
      BY <2>1 DEF Refs
    <2>4. worker.rate \in Rates
      BY <1>0, <1>6 DEF DeclarePlain, StateOK, WorkerState
    <2>5. PICK rate \in Rates : rate = worker.rate
      BY <2>4
    <2> QED
      BY <1>0, <2>1, <2>2, <2>3, <2>5, DeclareKeeps
  <1>7. ASSUME NEW rec \in Records, Record(rec)
        PROVE  TableTypes' /\ TableOK'
    BY <1>0, <1>7, TableStands DEF Record, StateOK
  <1>8. CASE Look
    BY <1>0, <1>8, TableStands DEF Look, table, StateOK
  <1>9. CASE EndDatagram
    BY <1>0, <1>9, TableStands DEF EndDatagram, table, StateOK
  <1>10. CASE SweepTick
    <2>1. sweeper'.pc = "expire"
      BY <1>0, <1>10, SweeperSteps
    <2> QED
      BY <1>0, <1>10, <2>1, TableStands DEF SweepTick, table, StateOK
  <1>11. CASE ExpireScoped
    BY <1>0, <1>11, ExpireScopedKeeps
  <1>12. CASE Expire
    BY <1>0, <1>12, ExpireKeeps
  <1>13. CASE Store
    <2>1. sweeper'.pc = "restate"
      BY <1>0, <1>13, SweeperSteps
    <2> QED
      BY <1>0, <1>13, <2>1, TableStands DEF Store, table, StateOK
  <1>14. CASE SweepEnd
    BY <1>0, <1>14, SweepEndKeeps
  <1>15. CASE SweepDue
    <2>1. sweeper'.pc = "idle"
      BY <1>0, <1>15, SweeperSteps
    <2> QED
      BY <1>0, <1>15, <2>1, TableStands DEF SweepDue, table, StateOK
  <1>16. CASE UNCHANGED vars
    BY <1>0, <1>16, TableStands DEF vars, table, StateOK
  <1> QED
    BY <1>1, <1>2, <1>3, <1>4, <1>5, <1>6, <1>7, <1>8, <1>9, <1>10, <1>11, <1>12,
       <1>13, <1>14, <1>15, <1>16, ArrivingAssumption DEF Inv, Next

\* What is left of the types: the domains, the worker, the sweep and the clock.
ActorTypes ==
  /\ worker.pc # "idle" => worker.odid \in DOMAIN domains
  /\ worker.pc = "declare" => worker.rate # 0
  /\ DOMAIN domains \subseteq Domains
  /\ \A o \in DOMAIN domains : domains[o] \in [rate: Rates \cup {0}, lastSeen: Time]
  /\ worker \in WorkerState
  /\ sweeper \in SweeperState
  /\ now \in Time

\* What the worker declares is as fresh as its domain.
LEMMA DeclaredFresh ==
  ASSUME ActorTypes, ClockOK, UNCHANGED <<domains, sweeper, now>>,
         worker' \in WorkerState, worker'.pc # "declare" \/ worker' = worker,
         worker'.odid = worker.odid, worker.pc # "idle", worker.odid \in DOMAIN domains,
         NEW rate \in Rates,
         \A r \in DOMAIN declared' :
           \/ r \in DOMAIN declared /\ declared'[r] = declared[r]
           \/ declared'[r] = [rate |-> rate, lastSeen |-> domains[worker.odid].lastSeen]
  PROVE  ActorTypes' /\ ClockOK'
  <1>1. ActorTypes'
    BY DEF ActorTypes
  <1>2. \A r \in DOMAIN declared' :
          \/ declared'[r].lastSeen < now - TTL
          \/ \E o \in DOMAIN domains : declared'[r].lastSeen <= domains[o].lastSeen
    <2>1. domains[worker.odid].lastSeen <= domains[worker.odid].lastSeen
      BY DEF ActorTypes, Time
    <2> QED
      BY <2>1 DEF ClockOK
  <1> QED
    BY <1>1, <1>2 DEF ClockOK

\* Restating the rate of a domain leaves when it was seen.
LEMMA RatedOnly ==
  ASSUME ActorTypes, NEW o, NEW rate \in Rates \cup {0},
         domains' = [domains EXCEPT ![o].rate = rate]
  PROVE  /\ DOMAIN domains' = DOMAIN domains
         /\ \A d \in DOMAIN domains :
              /\ domains'[d] \in [rate: Rates \cup {0}, lastSeen: Time]
              /\ domains'[d].lastSeen = domains[d].lastSeen
  BY DEF ActorTypes

\* Every step keeps those types and the order of the clocks.
LEMMA NextActors ==
  ASSUME Inv, [Next]_vars
  PROVE  ActorTypes' /\ ClockOK'
  <1>0. /\ StateOK /\ TableOK /\ ClockOK /\ ActorTypes
        /\ now \in Int /\ TTL \in Nat
    BY SamplerAssumption DEF Inv, StateOK, ActorTypes, Time
  <1>1. CASE Tick
    <2>1. /\ now' \in Time /\ now' = now + 1
          /\ UNCHANGED <<declared, domains, worker, sweeper>>
      BY <1>0, <1>1, SamplerAssumption DEF Tick, table, ActorTypes, Time
    <2>2. ActorTypes'
      BY <1>0, <2>1 DEF ActorTypes
    <2>3. worker.pc # "idle" => now + 1 <= domains[worker.odid].lastSeen + TTL
      <3>1. ASSUME worker.pc # "idle"
            PROVE  now < domains[worker.odid].lastSeen + TTL
                   /\ domains[worker.odid].lastSeen \in Int
        BY <1>0, <1>1, <3>1 DEF Tick, ActorTypes, Time
      <3> QED
        BY <1>0, <3>1
    <2>4. \A ref \in DOMAIN declared :
            declared[ref].lastSeen < now - TTL => declared[ref].lastSeen < now + 1 - TTL
      BY <1>0 DEF StateOK, SamplerEntry, Time
    <2>6. \A o \in DOMAIN domains : domains[o].lastSeen <= now + 1
      BY <1>0 DEF ClockOK, ActorTypes, Time
    <2>5. sweeper.cutoff <= now + 1 - TTL
      BY <1>0 DEF ClockOK, ActorTypes, SweeperState
    <2> QED
      BY <1>0, <2>1, <2>2, <2>3, <2>4, <2>5, <2>6 DEF ClockOK
  <1>2. ASSUME NEW o \in Domains, Receive(o)
        PROVE  ActorTypes' /\ ClockOK'
    <2>1. /\ worker' \in WorkerState /\ worker'.pc = "ready" /\ worker'.odid = o
      BY <1>0, <1>2, WorkerSteps
    <2>2. UNCHANGED <<declared, sweeper, now>>
      BY <1>2 DEF Receive, table
    <2> DEFINE rate == IF o \in DOMAIN domains THEN domains[o].rate ELSE 0
    <2>3. /\ DOMAIN domains' = DOMAIN domains \cup {o}
          /\ \A d \in DOMAIN domains : d # o => domains'[d] = domains[d]
          /\ domains'[o] = [rate |-> rate, lastSeen |-> now]
      BY <1>2 DEF Receive
    <2>4. rate \in Rates \cup {0}
      BY <1>0 DEF ActorTypes
    <2>5. domains'[o] \in [rate: Rates \cup {0}, lastSeen: Time] /\ domains'[o].lastSeen = now
      BY <1>0, <2>3, <2>4 DEF ActorTypes
    <2> HIDE DEF rate
    <2>6. ActorTypes'
      BY <1>0, <2>1, <2>2, <2>3, <2>5 DEF ActorTypes
    <2>7. \A ref \in DOMAIN declared' :
            \/ declared'[ref].lastSeen < now' - TTL
            \/ \E d \in DOMAIN domains' : declared'[ref].lastSeen <= domains'[d].lastSeen
      <3> SUFFICES ASSUME NEW ref \in DOMAIN declared, ~(declared[ref].lastSeen < now - TTL)
                   PROVE  \E d \in DOMAIN domains' : declared[ref].lastSeen <= domains'[d].lastSeen
        BY <2>2
      <3>1. PICK d \in DOMAIN domains : declared[ref].lastSeen <= domains[d].lastSeen
        BY <1>0 DEF ClockOK
      <3>2. domains[d].lastSeen <= now
        BY <1>0 DEF ClockOK
      <3>3. declared[ref].lastSeen \in Int /\ domains[d].lastSeen \in Int
        BY <1>0 DEF StateOK, SamplerEntry, Time
      <3>4. CASE d = o
        BY <1>0, <2>3, <2>5, <3>1, <3>2, <3>3, <3>4
      <3>5. CASE d # o
        BY <2>3, <3>1, <3>5
      <3> QED
        BY <3>4, <3>5
    <2>8. \A d \in DOMAIN domains' : domains'[d].lastSeen <= now
      BY <1>0, <2>3, <2>5 DEF ClockOK
    <2>9. worker'.pc # "idle" => now <= domains'[worker'.odid].lastSeen + TTL
      BY <1>0, <2>1, <2>5
    <2> QED
      BY <1>0, <2>2, <2>6, <2>7, <2>8, <2>9 DEF ClockOK
  <1>3. ASSUME NEW o \in Domains, Restate(o)
        PROVE  ActorTypes' /\ ClockOK'
    <2>1. /\ sweeper' \in SweeperState /\ sweeper'.cutoff = sweeper.cutoff
          /\ UNCHANGED <<declared, domains, worker, now>>
      BY <1>0, <1>3, SweeperSteps DEF Restate, table
    <2> QED
      BY <1>0, <2>1 DEF ActorTypes, ClockOK
  <1>4. ASSUME NEW ref \in Refs, NEW rate \in Rates, Commit(ref, rate)
        PROVE  ActorTypes' /\ ClockOK'
    <2>1. UNCHANGED <<domains, worker, sweeper, now>> /\ declared' = Declared(ref, rate)
      BY <1>4 DEF Commit, Declare
    <2>2. worker.odid \in DOMAIN domains
      BY <1>0, <1>4 DEF Commit, ActorTypes
    <2>3. \A r \in DOMAIN declared' :
            \/ r \in DOMAIN declared /\ declared'[r] = declared[r]
            \/ declared'[r] = [rate |-> rate, lastSeen |-> domains[worker.odid].lastSeen]
      BY <1>0, <2>1, <2>2, DeclaredIs
    <2>4. worker' \in WorkerState /\ worker' = worker /\ worker.pc # "idle"
      BY <1>0, <1>4, <2>1 DEF Commit, ActorTypes
    <2> QED
      BY <1>0, <2>1, <2>2, <2>3, <2>4, DeclaredFresh
  <1>5. ASSUME NEW rate \in Rates, CommitPlain(rate)
        PROVE  ActorTypes' /\ ClockOK'
    <2>1. /\ worker' \in WorkerState /\ worker'.pc = "declare"
          /\ worker'.odid = worker.odid /\ worker'.rate = rate /\ worker.pc = "ready"
          /\ UNCHANGED <<declared, sweeper, now>>
      BY <1>0, <1>5, WorkerSteps DEF CommitPlain, table
    <2>2. domains' = [domains EXCEPT ![worker.odid].rate = rate]
      BY <1>5 DEF CommitPlain
    <2> QED
      BY <1>0, <2>1, <2>2, RatedOnly, SamplerAssumption DEF ActorTypes, ClockOK
  <1>6. CASE DeclarePlain
    <2>1. /\ worker.odid \in DOMAIN domains /\ worker.odid \in Domains
          /\ worker.rate \in Rates
      BY <1>0, <1>6 DEF DeclarePlain, ActorTypes, WorkerState
    <2>2. UNCHANGED <<domains, sweeper, now>>
          /\ declared' = Declared(Plain(worker.odid), worker.rate)
      BY <1>6 DEF DeclarePlain, Declare
    <2>3. PICK ref \in Refs : ref = Plain(worker.odid)
      BY <2>1 DEF Refs
    <2>4. PICK rate \in Rates : rate = worker.rate
      BY <2>1
    <2>5. \A r \in DOMAIN declared' :
            \/ r \in DOMAIN declared /\ declared'[r] = declared[r]
            \/ declared'[r] = [rate |-> rate, lastSeen |-> domains[worker.odid].lastSeen]
      BY <1>0, <2>1, <2>2, <2>3, <2>4, DeclaredIs
    <2>6. worker' \in WorkerState /\ worker'.pc = "ready" /\ worker'.odid = worker.odid
      BY <1>0, <1>6, WorkerSteps
    <2>7. worker.pc # "idle"
      BY <1>6 DEF DeclarePlain
    <2> QED
      BY <1>0, <2>1, <2>2, <2>5, <2>6, <2>7, DeclaredFresh
  <1>7. ASSUME NEW rec \in Records, Record(rec)
        PROVE  ActorTypes' /\ ClockOK'
    <2>1. /\ worker' \in WorkerState /\ worker'.pc \notin {"idle", "declare"}
          /\ worker'.odid = worker.odid /\ worker.pc # "idle"
          /\ UNCHANGED <<declared, domains, sweeper, now>>
      BY <1>0, <1>7, WorkerSteps DEF Record
    <2> QED
      BY <1>0, <2>1 DEF ActorTypes, ClockOK
  <1>8. CASE Look
    <2>1. /\ worker' \in WorkerState /\ worker'.pc \notin {"idle", "declare"}
          /\ worker'.odid = worker.odid /\ worker.pc # "idle"
          /\ UNCHANGED <<declared, domains, sweeper, now>>
      BY <1>0, <1>8, WorkerSteps DEF Look, table, Reading
    <2> QED
      BY <1>0, <2>1 DEF ActorTypes, ClockOK
  <1>9. CASE EndDatagram
    <2>1. /\ worker' \in WorkerState /\ worker'.pc = "idle"
          /\ UNCHANGED <<declared, domains, sweeper, now>>
      BY <1>0, <1>9, WorkerSteps DEF EndDatagram, table
    <2> QED
      BY <1>0, <2>1 DEF ActorTypes, ClockOK
  <1>10. CASE SweepTick
    <2>1. /\ sweeper' \in SweeperState /\ sweeper'.cutoff = now - TTL
          /\ UNCHANGED <<declared, worker, now>>
      BY <1>0, <1>10, SweeperSteps DEF SweepTick, table
    <2>2. /\ DOMAIN domains' \subseteq DOMAIN domains
          /\ \A o \in DOMAIN domains : domains[o].lastSeen >= now - TTL => o \in DOMAIN domains'
          /\ \A o \in DOMAIN domains' : domains'[o] = domains[o]
          /\ worker.pc # "idle" => worker.odid \in DOMAIN domains'
      BY <1>0, <1>10, SweepKeepsDecoded
    <2>3. ActorTypes'
      BY <1>0, <2>1, <2>2 DEF ActorTypes
    <2>4. \A ref \in DOMAIN declared :
            \/ declared[ref].lastSeen < now - TTL
            \/ \E o \in DOMAIN domains' : declared[ref].lastSeen <= domains'[o].lastSeen
      <3> SUFFICES ASSUME NEW ref \in DOMAIN declared, ~(declared[ref].lastSeen < now - TTL)
                   PROVE  \E o \in DOMAIN domains' : declared[ref].lastSeen <= domains'[o].lastSeen
        OBVIOUS
      <3>1. PICK o \in DOMAIN domains : declared[ref].lastSeen <= domains[o].lastSeen
        BY <1>0 DEF ClockOK
      <3>2. declared[ref].lastSeen \in Int /\ domains[o].lastSeen \in Int
        BY <1>0 DEF StateOK, SamplerEntry, Time
      <3>3. domains[o].lastSeen >= now - TTL
        BY <1>0, <3>1, <3>2
      <3> QED
        BY <2>2, <3>1, <3>3
    <2> QED
      BY <1>0, <2>1, <2>2, <2>3, <2>4 DEF ClockOK
  <1>11. CASE ExpireScoped
    <2>1. /\ sweeper' \in SweeperState /\ sweeper'.cutoff = sweeper.cutoff
          /\ UNCHANGED <<domains, worker, now>>
          /\ declared' = Kept({ref \in Silent : IsScoped(ref)})
      BY <1>0, <1>11, SweeperSteps DEF ExpireScoped
    <2> QED
      BY <1>0, <2>1 DEF ActorTypes, ClockOK, Kept, Restrict
  <1>12. CASE Expire
    <2>1. /\ sweeper' \in SweeperState /\ sweeper'.cutoff = -TTL /\ 0 <= now
          /\ UNCHANGED <<domains, worker, now>>
          /\ declared' = Kept(Silent)
      BY <1>0, <1>12, SweeperSteps DEF Expire, ActorTypes, Time
    <2> QED
      BY <1>0, <2>1 DEF ActorTypes, ClockOK, Kept, Restrict
  <1>13. CASE Store
    <2>1. /\ sweeper' \in SweeperState /\ sweeper'.cutoff = sweeper.cutoff
          /\ sweeper.rate \in Rates \cup {0}
          /\ UNCHANGED <<declared, worker, now>>
      BY <1>0, <1>13, SweeperSteps DEF Store, table, ActorTypes, SweeperState
    <2>2. domains' = [domains EXCEPT ![sweeper.odid].rate = sweeper.rate]
      BY <1>13 DEF Store
    <2> QED
      BY <1>0, <2>1, <2>2, RatedOnly DEF ActorTypes, ClockOK
  <1>14. CASE SweepEnd
    <2>1. /\ sweeper' \in SweeperState /\ sweeper'.cutoff = sweeper.cutoff
          /\ UNCHANGED <<domains, worker, now>>
          /\ declared' = Restrict(declared, IF DOMAIN domains = {} THEN {} ELSE DOMAIN declared)
      BY <1>0, <1>14, SweeperSteps DEF SweepEnd
    <2> QED
      BY <1>0, <2>1 DEF ActorTypes, ClockOK, Restrict
  <1>15. CASE SweepDue
    <2>1. /\ sweeper' \in SweeperState /\ sweeper'.cutoff = sweeper.cutoff
          /\ UNCHANGED <<declared, domains, worker, now>>
      BY <1>0, <1>15, SweeperSteps DEF SweepDue, table
    <2> QED
      BY <1>0, <2>1 DEF ActorTypes, ClockOK
  <1>16. CASE UNCHANGED vars
    BY <1>0, <1>16 DEF vars, table, ActorTypes, ClockOK
  <1> QED
    BY <1>1, <1>2, <1>3, <1>4, <1>5, <1>6, <1>7, <1>8, <1>9, <1>10, <1>11, <1>12,
       <1>13, <1>14, <1>15, <1>16, ArrivingAssumption DEF Inv, Next

\* The invariant holds of an empty table and idle actors.
LEMMA InitInv == Init => Inv
  <1> SUFFICES ASSUME Init PROVE Inv
    OBVIOUS
  <1>1. StateOK
    <2>1. worker \in WorkerState /\ worker.pc = "idle"
      BY DEF Init, Idle, WorkerState
    <2>2. sweeper \in SweeperState
      BY SamplerAssumption DEF Init, SweeperState
    <2>3. DOMAIN declared = {} /\ DOMAIN domains = {} /\ now \in Time
      BY SamplerAssumption DEF Init, Time
    <2> QED
      BY <2>1, <2>2, <2>3 DEF Init, StateOK
  <1>2. TableOK
    <2>1. DOMAIN declared = {} /\ IsFiniteSet({}) /\ Cardinality({}) = 0
      BY FS_EmptySet DEF Init
    <2>2. {declared[ref].rate : ref \in {r \in DOMAIN declared : ~IsScoped(r)}} = {}
      BY <2>1
    <2>3. SoleRate(declared) = 0
      BY <2>1, <2>2 DEF SoleRate, Agreed
    <2> QED
      BY <2>1, <2>3, SamplerAssumption DEF Init, TableOK
  <1>3. ClockOK
    BY SamplerAssumption DEF Init, ClockOK, Idle
  <1> QED
    BY <1>1, <1>2, <1>3 DEF Inv

\* Every step keeps the invariant.
LEMMA NextInv == Inv /\ [Next]_vars => Inv'
  BY NextTableOK, NextActors DEF Inv, StateOK, TableTypes, ActorTypes

\* The invariant holds throughout.
LEMMA Invariant == Spec => []Inv
  BY InitInv, NextInv, PTL DEF Spec

-----------------------------------------------------------------------------
(* The theorems.                                                           *)

\* What is read without the table lock says what the table holds, at every
\* instant, in the middle of the sweep's passes too.
THEOREM CopiesAgreeHolds == Spec => []CopiesAgree
  <1>1. Inv => CopiesAgree
    <2> SUFFICES ASSUME Inv PROVE CopiesAgree
      OBVIOUS
    <2> DEFINE refs == {ref \in DOMAIN declared : ~IsScoped(ref)}
               rates == {declared[ref].rate : ref \in refs}
    <2>1. /\ IsFiniteSet(DOMAIN declared) /\ refs \in SUBSET DOMAIN declared
          /\ \A ref \in DOMAIN declared : declared[ref] \in SamplerEntry
      BY DEF Inv, StateOK, TableOK
    <2> HIDE DEF refs
    <2>2. rates \in SUBSET Rates /\ IsFiniteSet(rates)
      BY <2>1, FewRates
    <2>3. inherited = Agreed(rates)
      BY DEF Inv, TableOK, SoleRate, refs
    <2> HIDE DEF rates
    <2>4. IF inherited = 0 THEN Cardinality(rates) # 1 ELSE rates = {inherited}
      BY <2>2, <2>3, AgreedIs
    <2> QED
      BY <2>4 DEF Inv, TableOK, CopiesAgree, RatesOf, Unscoped, rates, refs
  <1> QED
    BY <1>1, Invariant, PTL

\* A declaration leaves the table only once it is silent past the TTL, even
\* when the whole table is freed: no domain is left only when none is fresh.
THEOREM OnlySilentLeaveHolds == Spec => OnlySilentLeave
  <1>1. Inv /\ [Next]_vars =>
          [\A ref \in DOMAIN declared \ DOMAIN declared' : declared[ref].lastSeen < now - TTL]_vars
    <2> SUFFICES ASSUME Inv, [Next]_vars, NEW ref \in DOMAIN declared \ DOMAIN declared'
                 PROVE  declared[ref].lastSeen < now - TTL
      OBVIOUS
    <2>0. /\ StateOK /\ TableOK /\ ClockOK /\ now \in Int /\ TTL \in Int
          /\ declared[ref].lastSeen \in Int /\ sweeper.cutoff \in Int
      BY SamplerAssumption DEF Inv, StateOK, SamplerEntry, SweeperState, Time
    <2>1. ASSUME NEW r \in Refs, NEW rate \in Rates, Commit(r, rate)
          PROVE  FALSE
      <3>1. declared' = Declared(r, rate) /\ worker.odid \in DOMAIN domains
        BY <2>0, <2>1 DEF Commit, Declare, StateOK
      <3> QED
        BY <2>0, <3>1, DeclaredIs
    <2>2. ASSUME DeclarePlain
          PROVE  FALSE
      <3>1. /\ declared' = Declared(Plain(worker.odid), worker.rate)
            /\ worker.odid \in DOMAIN domains /\ worker.odid \in Domains
            /\ worker.rate \in Rates
        BY <2>0, <2>2 DEF DeclarePlain, Declare, StateOK, WorkerState
      <3>2. PICK r \in Refs : r = Plain(worker.odid)
        BY <3>1 DEF Refs
      <3>3. PICK rate \in Rates : rate = worker.rate
        BY <3>1
      <3> QED
        BY <2>0, <3>1, <3>2, <3>3, DeclaredIs
    <2>3. CASE ExpireScoped
      <3>1. ref \in Silent
        BY <2>3 DEF ExpireScoped, Kept, Restrict
      <3> QED
        BY <2>0, <3>1 DEF Silent, ClockOK
    <2>4. CASE Expire
      <3>1. ref \in Silent
        BY <2>4 DEF Expire, Kept, Restrict
      <3> QED
        BY <2>0, <3>1 DEF Silent, ClockOK
    <2>5. CASE SweepEnd
      <3>1. DOMAIN domains = {}
        BY <2>5 DEF SweepEnd, Restrict
      <3> QED
        BY <2>0, <3>1 DEF ClockOK
    <2>6. CASE UNCHANGED declared
      BY <2>6
    <2> QED
      BY <2>1, <2>2, <2>3, <2>4, <2>5, <2>6
         DEF Next, vars, table, Tick, Receive, Restate, CommitPlain, Record, Look,
             EndDatagram, SweepTick, Store, SweepDue
  <1> QED
    BY <1>1, Invariant, PTL DEF Spec, OnlySilentLeave

-----------------------------------------------------------------------------
(* The read of a record.                                                   *)

\* The reference of a rate scoped to the domain.
OwnDomain(o) == Scoped("domain", None, o)

\* Nothing more specific than what the read has come to is declared of the
\* record; what is not declared once it was looked for stays so, as only the
\* worker declares.
Passed(o, rec) ==
  /\ rec.by = "sampler" =>
       rec.id # Unsampled /\ \A d \in Domains : Named(d, rec.id) \notin DOMAIN declared
  /\ rec.by = "selector" => Named(o, rec.id) \notin DOMAIN declared
  /\ rec.by = "nothing" =>
       /\ Scoped("template", o, rec.template) \notin DOMAIN declared
       /\ Scoped("interface", o, rec.interface) \notin DOMAIN declared

\* Where the read is, and what it passed on the way.
ReadAt(pc, o, rec) ==
  /\ o \in Domains /\ rec \in Records
  /\ pc = "named" <=> rec.by # "nothing" /\ pc \notin {"own", "domain", "inherited"}
  /\ pc = "interface" => /\ rec.interface # None
                         /\ Scoped("template", o, rec.template) \notin DOMAIN declared
  /\ pc \in {"own", "domain", "inherited"} => Passed(o, rec)
  /\ pc = "inherited" => OwnDomain(o) \notin DOMAIN declared

\* A domain whose rate was read as 0 has none until a sweep restates it, which
\* is after it expired what it will: no second sweep begins during a read.
Unrated(pc, o) ==
  pc \in {"domain", "inherited"} /\ sweeper.pc \in {"idle", "expire", "inherit"}
    => domains[o].rate = 0

\* What the reads to come would find was in force at some instant of this one.
Promised(pc, o, rec) ==
  /\ Precedence(o, rec) \in inForce
  /\ pc = "domain" => IF OwnDomain(o) \in DOMAIN declared
                      THEN Rate(declared[OwnDomain(o)].rate) \in inForce
                      ELSE Rate(inherited) \in inForce
  /\ pc = "inherited" => Rate(inherited) \in inForce

\* The three, of the record the worker reads.
ReadIs(pc, o, rec) ==
  pc \in Reading => ReadAt(pc, o, rec) /\ Unrated(pc, o) /\ Promised(pc, o, rec)

ReadOK ==
  \A pc, o, rec :
    pc = worker.pc /\ o = worker.odid /\ rec = worker.rec => ReadIs(pc, o, rec)

\* Once the read has passed what is more specific, what holds of the record is
\* the domain's own rate, then one scoped to the domain, then the inherited one.
LEMMA PassedPrecedence ==
  ASSUME StateOK, NEW o \in Domains, NEW rec \in Records, Passed(o, rec)
  PROVE  Precedence(o, rec) = Rate(Agreed(Standing(o)))
  <1>1. CASE rec.by = "sampler"
    <2>1. /\ {Named(o, rec.id)} \cap DOMAIN declared = {}
          /\ {Named(d, rec.id) : d \in Domains} \cap DOMAIN declared = {}
          /\ rec.id # Unsampled
      BY <1>1 DEF Passed
    <2>2. Held({Named(o, rec.id)}) = {} /\ Held({Named(d, rec.id) : d \in Domains}) = {}
      BY <2>1 DEF Held, RatesOf
    <2>3. Settled(o, rec) = Standing(o)
      BY <1>1, <2>1, <2>2 DEF Settled, First
    <2> QED
      BY <2>1, <2>3 DEF Precedence, Rate
  <1>2. CASE rec.by = "selector"
    <2>1. Held({Named(o, rec.id)}) = {}
      BY <1>2 DEF Passed, Held, RatesOf
    <2>2. Settled(o, rec) = Standing(o)
      BY <1>2, <2>1 DEF Settled, First
    <2> QED
      BY <1>2, <2>2 DEF Precedence, Rate
  <1>3. CASE rec.by = "nothing"
    <2>1. /\ Held({Scoped("template", o, rec.template)}) = {}
          /\ Held({Scoped("interface", o, rec.interface)}) = {}
      BY <1>3 DEF Passed, Held, RatesOf
    <2>2. Settled(o, rec) = Standing(o)
      BY <1>3, <2>1 DEF Settled, First
    <2> QED
      BY <1>3, <2>2 DEF Precedence, Rate
  <1> QED
    BY <1>1, <1>2, <1>3 DEF Records

\* One rate is what it agrees on.
LEMMA AgreedOnOne == ASSUME NEW r PROVE Agreed({r}) = r
  BY FS_Singleton DEF Agreed

\* What stands for a domain, tier by tier.
LEMMA StandingIs ==
  ASSUME StateOK, TableOK, NEW o \in Domains
  PROVE  /\ domains[o].rate # 0 => Agreed(Standing(o)) = domains[o].rate
         /\ domains[o].rate = 0 /\ OwnDomain(o) \in DOMAIN declared
              => Agreed(Standing(o)) = declared[OwnDomain(o)].rate
         /\ domains[o].rate = 0 /\ OwnDomain(o) \notin DOMAIN declared
              => Agreed(Standing(o)) = inherited
  <1>1. ASSUME domains[o].rate # 0
        PROVE  Agreed(Standing(o)) = domains[o].rate
    <2>1. Standing(o) = {domains[o].rate}
      BY <1>1 DEF Standing, First
    <2> QED
      BY <2>1, AgreedOnOne
  <1>2. ASSUME domains[o].rate = 0, OwnDomain(o) \in DOMAIN declared
        PROVE  Agreed(Standing(o)) = declared[OwnDomain(o)].rate
    <2>1. Held({OwnDomain(o)}) = {declared[OwnDomain(o)].rate}
      BY <1>2 DEF Held, RatesOf
    <2>2. Standing(o) = {declared[OwnDomain(o)].rate}
      BY <1>2, <2>1 DEF Standing, First, OwnDomain
    <2> QED
      BY <2>2, AgreedOnOne
  <1>3. ASSUME domains[o].rate = 0, OwnDomain(o) \notin DOMAIN declared
        PROVE  Agreed(Standing(o)) = inherited
    <2>1. Held({OwnDomain(o)}) = {}
      BY <1>3 DEF Held, RatesOf
    <2>2. Standing(o) = RatesOf(Unscoped)
      BY <1>3, <2>1 DEF Standing, First, OwnDomain
    <2> QED
      BY <2>2 DEF TableOK, SoleRate, RatesOf, Unscoped
  <1> QED
    BY <1>1, <1>2, <1>3

\* So what holds of the record is found where the read has come to.
PassedIs ==
  \A o \in Domains, rec \in Records : Passed(o, rec) =>
    /\ domains[o].rate # 0 => Precedence(o, rec) = Rate(domains[o].rate)
    /\ domains[o].rate = 0 /\ OwnDomain(o) \in DOMAIN declared
         => Precedence(o, rec) = Rate(declared[OwnDomain(o)].rate)
    /\ domains[o].rate = 0 /\ OwnDomain(o) \notin DOMAIN declared
         => Precedence(o, rec) = Rate(inherited)

\* It is, where the table is as it should be.
LEMMA PassedNow == StateOK /\ TableOK => PassedIs
  BY PassedPrecedence, StandingIs DEF PassedIs

\* The same after a step.
LEMMA PassedNext == StateOK' /\ TableOK' => PassedIs'
  BY PassedNow, PTL

\* While a record is read, the correction that holds after a step joins those
\* in force.
LEMMA Watched ==
  ASSUME Watch, NEW o, NEW rec, o = worker'.odid, rec = worker'.rec, worker'.pc \in Reading
  PROVE  inForce' = inForce \cup {Precedence(o, rec)'}
  BY DEF Watch

\* The steps of the others take declarations away, and change what stands for
\* the record's domain only where its own rate is 0 or the sweep is past that.
LEMMA OthersKeepRead ==
  ASSUME StateOK', TableOK', ReadOK, worker' = worker, Watch,
         DOMAIN declared' \subseteq DOMAIN declared,
         \A ref \in DOMAIN declared' : declared'[ref].rate = declared[ref].rate,
         sweeper'.pc \in {"idle", "expire", "inherit"} =>
           /\ sweeper.pc \in {"idle", "expire", "inherit"}
           /\ domains'[worker.odid].rate = domains[worker.odid].rate,
         \/ /\ inherited' = inherited
            /\ DOMAIN declared' = DOMAIN declared
         \/ /\ sweeper.pc \in {"idle", "expire", "inherit"}
            /\ domains'[worker.odid].rate = domains[worker.odid].rate
  PROVE  ReadOK'
  <1> SUFFICES ASSUME NEW pc, NEW o, NEW rec,
                      pc = worker.pc, o = worker.odid, rec = worker.rec, pc \in Reading
               PROVE  (ReadAt(pc, o, rec) /\ Unrated(pc, o) /\ Promised(pc, o, rec))'
    BY DEF ReadOK, ReadIs
  <1>1. ReadAt(pc, o, rec) /\ Unrated(pc, o) /\ Promised(pc, o, rec)
    <2>1. ReadIs(pc, o, rec)
      BY Zenon DEF ReadOK
    <2> QED
      BY <2>1 DEF ReadIs
  <1>2. ReadAt(pc, o, rec)'
    BY <1>1 DEF ReadAt, Passed
  <1>3. Unrated(pc, o)'
    BY <1>1 DEF Unrated
  <1>4. inForce' = inForce \cup {Precedence(o, rec)'}
    BY Watched
  <1>5. o \in Domains /\ rec \in Records
    BY <1>1 DEF ReadAt
  <1>6. ASSUME pc \in {"domain", "inherited"}, OwnDomain(o) \notin DOMAIN declared',
               domains'[o].rate = 0
        PROVE  Rate(inherited') \in inForce'
    <2>1. Passed(o, rec)'
      BY <1>2, <1>6 DEF ReadAt, Passed
    <2>2. Precedence(o, rec)' = Rate(inherited')
      BY <1>5, <1>6, <2>1, PassedNext DEF PassedIs, Rate
    <2> QED
      BY <1>4, <2>2 DEF Rate
  <1>7. Promised(pc, o, rec)'
    <2>1. Precedence(o, rec)' \in inForce'
      BY <1>4
    <2>2. ASSUME pc = "domain", OwnDomain(o) \in DOMAIN declared'
          PROVE  Rate(declared'[OwnDomain(o)].rate) \in inForce'
      BY <1>1, <1>4, <2>2 DEF Promised
    <2>3. ASSUME pc \in {"domain", "inherited"}, OwnDomain(o) \notin DOMAIN declared'
          PROVE  Rate(inherited') \in inForce'
      <3>1. CASE inherited' = inherited /\ DOMAIN declared' = DOMAIN declared
        BY <1>1, <1>4, <2>3, <3>1 DEF Promised
      <3>2. CASE /\ sweeper.pc \in {"idle", "expire", "inherit"}
                 /\ domains'[o].rate = domains[o].rate
        <4>1. domains'[o].rate = 0
          BY <1>1, <2>3, <3>2 DEF Unrated
        <4> QED
          BY <1>6, <2>3, <4>1
      <3> QED
        BY <3>1, <3>2
    <2>4. pc = "inherited" => OwnDomain(o) \notin DOMAIN declared'
      BY <1>2 DEF ReadAt
    <2>5. pc = "domain" => IF OwnDomain(o) \in DOMAIN declared'
                           THEN Rate(declared'[OwnDomain(o)].rate) \in inForce'
                           ELSE Rate(inherited') \in inForce'
      BY <2>2, <2>3
    <2>6. pc = "inherited" => Rate(inherited') \in inForce'
      BY <2>3, <2>4
    <2> QED
      BY <2>1, <2>5, <2>6 DEF Promised, Rate
  <1> QED
    BY <1>2, <1>3, <1>7

\* A read begins where its record says, with nothing passed.
LEMMA RecordEntersRead ==
  ASSUME Inv, NEW rec \in Records, Record(rec)
  PROVE  ReadOK'
  <1>1. /\ worker'.pc = IF rec.by = "nothing" THEN "template" ELSE "named"
        /\ worker'.odid = worker.odid /\ worker'.rec = rec
        /\ worker.odid \in Domains
    BY DEF Record, Inv, StateOK, WorkerState
  <1>2. Watch
    BY DEF Record
  <1> SUFFICES ASSUME NEW pc, NEW o, NEW r,
                      pc = worker'.pc, o = worker'.odid, r = worker'.rec
               PROVE  ReadIs(pc, o, r)'
    BY DEF ReadOK
  <1>3. ReadAt(pc, o, r)'
    BY <1>1 DEF ReadAt
  <1>4. Unrated(pc, o)'
    BY <1>1 DEF Unrated
  <1>5. Promised(pc, o, r)'
    <2>1. pc \in Reading
      BY <1>1 DEF Reading
    <2>2. inForce' = inForce \cup {Precedence(o, r)'}
      BY <1>2, <2>1, Watched
    <2> QED
      BY <1>1, <2>2 DEF Promised
  <1> QED
    BY <1>3, <1>4, <1>5 DEF ReadIs

\* A look that finds nothing passes on what it looked for.
LEMMA LookKeepsRead ==
  ASSUME Inv, Inv', ReadOK, Look
  PROVE  ReadOK'
  <1>1. CASE Found # {}
    <2>1. worker'.pc = "ready"
      BY <1>1 DEF Look, Inv, StateOK, WorkerState
    <2> QED
      BY <2>1 DEF ReadOK, ReadIs, Reading
  <1>2. CASE Found = {}
    <2> SUFFICES ASSUME NEW pc, NEW o, NEW rec, NEW before,
                        pc = worker'.pc, o = worker'.odid, rec = worker'.rec,
                        before = worker.pc
                 PROVE  ReadIs(pc, o, rec)'
      BY DEF ReadOK
    <2>1. /\ worker.pc = before /\ worker.odid = o /\ worker.rec = rec
          /\ pc = LookNext /\ before \in Reading
          /\ UNCHANGED <<declared, inherited, domains, sweeper>>
      BY <1>2 DEF Look, Inv, StateOK, WorkerState, table
    <2>2. ReadAt(before, o, rec) /\ Unrated(before, o) /\ Promised(before, o, rec)
      <3>1. ReadIs(before, o, rec)
        BY <2>1, Zenon DEF ReadOK
      <3> QED
        BY <2>1, <3>1 DEF ReadIs
    <2>3. o \in Domains /\ rec \in Records
      BY <2>2 DEF ReadAt
    <2>4. pc \in Reading
      BY <2>1 DEF LookNext, Reading
    <2>5. inForce' = inForce \cup {Precedence(o, rec)'}
      BY <2>4, Watched DEF Look
    <2>6. before # "inherited"
      <3>1. ASSUME before = "inherited"
            PROVE  Rate(inherited) \in Found
        BY <2>1, <3>1 DEF Found, Sought
      <3> QED
        BY <1>2, <3>1
    <2>7. before = "template" => Scoped("template", o, rec.template) \notin DOMAIN declared
      BY <1>2, <2>1 DEF Found, Sought
    <2>8. before = "interface" => Scoped("interface", o, rec.interface) \notin DOMAIN declared
      BY <1>2, <2>1 DEF Found, Sought
    <2>9. before = "domain" => OwnDomain(o) \notin DOMAIN declared
      BY <1>2, <2>1 DEF Found, Sought, OwnDomain
    <2>10. before = "own" => domains[o].rate = 0
      <3>1. ASSUME before = "own", domains[o].rate # 0
            PROVE  Rate(domains[o].rate) \in Found
        BY <2>1, <3>1 DEF Found, Sought
      <3> QED
        BY <1>2, <3>1
    <2>11. \/ before \in {"named", "interface"} /\ pc = "own"
           \/ /\ before = "template"
              /\ IF rec.interface = None THEN pc = "own" ELSE pc = "interface"
           \/ before = "own" /\ pc = "domain"
           \/ before = "domain" /\ pc = "inherited"
      BY <2>1, <2>6 DEF LookNext, Reading
    <2>14. ReadAt(pc, o, rec)'
      <3>1. UNCHANGED declared
        BY <2>1
      <3>2. pc = "interface" => /\ rec.interface # None
                                /\ Scoped("template", o, rec.template) \notin DOMAIN declared
        BY <2>7, <2>11
      <3>3. pc = "inherited" => OwnDomain(o) \notin DOMAIN declared
        BY <2>9, <2>11
      <3>4. pc \notin {"named", "template"}
        BY <2>11
      <3>5. ASSUME pc \in {"own", "domain", "inherited"}
            PROVE  Passed(o, rec)
        <4>1. CASE before = "named"
          <5>1. rec.by # "nothing"
            BY <2>2, <4>1 DEF ReadAt
          <5>2. ~(rec.by = "sampler" /\ rec.id = Unsampled)
            <6>1. ASSUME rec.by = "sampler", rec.id = Unsampled, Alike = {}
                  PROVE  Found = {[rate |-> 0, owed |-> declaredZero]}
              BY <2>1, <4>1, <6>1 DEF Found, Sought
            <6>2. ASSUME Alike # {}
                  PROVE  Found = {Rate(Agreed(RatesOf(Alike)))}
              BY <2>1, <4>1, <6>2 DEF Found, Sought
            <6> QED
              BY <1>2, <6>1, <6>2
          <5>3. Alike = {}
            <6>1. ASSUME Alike # {}
                  PROVE  Found = {Rate(Agreed(RatesOf(Alike)))}
              BY <2>1, <4>1, <6>1 DEF Found, Sought
            <6> QED
              BY <1>2, <6>1
          <5>4. Named(o, rec.id) \notin DOMAIN declared
            BY <2>1, <5>3 DEF Alike
          <5>5. \A ref \in DOMAIN declared :
                  ~(rec.by = "sampler" /\ ref.kind = "named" /\ ref.value = rec.id)
            BY <2>1, <5>3, <5>4 DEF Alike
          <5>6. \A d \in Domains : /\ Named(d, rec.id).kind = "named"
                                   /\ Named(d, rec.id).value = rec.id
            BY DEF Named
          <5> QED
            BY <5>1, <5>2, <5>4, <5>5, <5>6 DEF Passed
        <4>2. CASE before \in {"template", "interface"}
          <5>1. rec.by = "nothing"
            BY <2>2, <4>2 DEF ReadAt
          <5>2. Scoped("template", o, rec.template) \notin DOMAIN declared
            BY <2>2, <2>7, <3>5, <4>2 DEF ReadAt
          <5>3. Scoped("interface", o, rec.interface) \notin DOMAIN declared
            <6>1. CASE before = "interface"
              BY <2>8, <6>1
            <6>2. CASE before = "template"
              <7>1. rec.interface \notin Interfaces
                BY <2>11, <3>5, <6>2, SamplerAssumption
              <7>2. Scoped("interface", o, rec.interface) \notin Refs
                <8>1. \A ref \in Refs : ref.kind = "interface" => ref.value \in Interfaces
                  BY DEF Refs, Scoped, Named, Plain
                <8>2. /\ Scoped("interface", o, rec.interface).kind = "interface"
                      /\ Scoped("interface", o, rec.interface).value = rec.interface
                  BY DEF Scoped
                <8> QED
                  BY <7>1, <8>1, <8>2
              <7> QED
                BY <7>2 DEF Inv, StateOK
            <6> QED
              BY <4>2, <6>1, <6>2
          <5> QED
            BY <5>1, <5>2, <5>3 DEF Passed
        <4>3. CASE before \in {"own", "domain"}
          BY <2>2, <4>3 DEF ReadAt
        <4> QED
          BY <2>11, <4>1, <4>2, <4>3
      <3>6. Passed(o, rec) => Passed(o, rec)'
        BY <3>1 DEF Passed
      <3> QED
        BY <2>2, <2>3, <2>11, <3>1, <3>2, <3>3, <3>4, <3>5, <3>6 DEF ReadAt
    <2>12. Unrated(pc, o)'
      BY <2>1, <2>2, <2>11, <2>10 DEF Unrated
    <2>13. Promised(pc, o, rec)'
      <3>1. CASE before = "own"
        <4>1. Passed(o, rec)' /\ domains'[o].rate = 0
          BY <2>1, <2>10, <2>11, <2>14, <3>1 DEF ReadAt
        <4>2. Inv'
          OBVIOUS
        <4> QED
          BY <2>3, <2>5, <2>11, <3>1, <4>1, <4>2, PassedNext DEF Inv, PassedIs, Promised, Rate
      <3>2. CASE before = "domain"
        BY <2>1, <2>2, <2>5, <2>9, <2>11, <3>2 DEF Promised, Rate
      <3>3. CASE before \notin {"own", "domain"}
        BY <2>5, <2>11, <3>3 DEF Promised
      <3> QED
        BY <3>1, <3>2, <3>3
    <2> QED
      BY <2>14, <2>12, <2>13 DEF ReadIs
  <1> QED
    BY <1>1, <1>2

\* So do the steps of the sweep and of the clock, and a read is alone at the
\* worker.
LEMMA NextReadOK ==
  ASSUME Inv, Inv', ReadOK, [Next]_vars
  PROVE  ReadOK'
  <1>1. CASE worker'.pc \notin Reading
    BY <1>1 DEF ReadOK, ReadIs
  <1>2. ASSUME NEW rec \in Arriving, Record(rec)
        PROVE  ReadOK'
    BY <1>2, RecordEntersRead, ArrivingAssumption
  <1>3. CASE Look
    BY <1>3, LookKeepsRead
  <1>4. ASSUME worker'.pc \in Reading, worker' = worker, Watch,
               Tick \/ (\E o \in Domains : Restate(o)) \/ SweepTick \/ ExpireScoped
                 \/ Expire \/ Store \/ SweepEnd
        PROVE  ReadOK'
    <2>1. worker.odid \in DOMAIN domains
      BY <1>4 DEF Inv, StateOK, Reading
    <2>2. CASE Tick
      <3>1. UNCHANGED <<declared, inherited, domains, sweeper>>
        BY <2>2 DEF Tick, table
      <3> QED
        BY <1>4, <3>1, OthersKeepRead DEF Inv
    <2>3. CASE \E o \in Domains : Restate(o)
      <3>1. /\ sweeper'.pc = "store"
            /\ UNCHANGED <<declared, inherited>>
        BY <2>3, SweeperSteps DEF Inv, Restate, table
      <3> QED
        BY <1>4, <3>1, OthersKeepRead DEF Inv
    <2>4. CASE SweepTick
      <3>1. /\ sweeper.pc = "idle"
            /\ UNCHANGED <<declared, inherited>>
        BY <2>4 DEF SweepTick, table
      <3>2. domains'[worker.odid].rate = domains[worker.odid].rate
        <4>1. worker.pc # "idle"
          BY <1>4 DEF Reading
        <4> QED
          BY <2>4, <4>1, SweepKeepsDecoded DEF Inv
      <3> QED
        BY <1>4, <3>1, <3>2, OthersKeepRead DEF Inv
    <2>5. CASE ExpireScoped
      <3>1. /\ sweeper.pc = "expire"
            /\ declared' = Kept({ref \in Silent : IsScoped(ref)})
            /\ UNCHANGED <<domains, inherited>>
        BY <2>5 DEF ExpireScoped
      <3>2. /\ DOMAIN declared' \subseteq DOMAIN declared
            /\ \A ref \in DOMAIN declared' : declared'[ref].rate = declared[ref].rate
        BY <3>1 DEF Kept, Restrict
      <3> QED
        BY <1>4, <3>1, <3>2, OthersKeepRead DEF Inv
    <2>6. CASE Expire
      <3>1. /\ sweeper.pc = "inherit"
            /\ declared' = Kept(Silent)
            /\ UNCHANGED domains
        BY <2>6 DEF Expire
      <3>2. /\ DOMAIN declared' \subseteq DOMAIN declared
            /\ \A ref \in DOMAIN declared' : declared'[ref].rate = declared[ref].rate
        BY <3>1 DEF Kept, Restrict
      <3> QED
        BY <1>4, <3>1, <3>2, OthersKeepRead DEF Inv
    <2>7. CASE Store
      <3>1. /\ sweeper'.pc = "restate"
            /\ UNCHANGED <<declared, inherited>>
        BY <2>7, SweeperSteps DEF Inv, Store, table
      <3> QED
        BY <1>4, <3>1, OthersKeepRead DEF Inv
    <2>8. CASE SweepEnd
      <3>1. /\ sweeper'.pc = "rest"
            /\ declared' = Restrict(declared, DOMAIN declared)
            /\ UNCHANGED inherited
        BY <2>1, <2>8, SweeperSteps DEF Inv, SweepEnd
      <3>2. /\ DOMAIN declared' = DOMAIN declared
            /\ \A ref \in DOMAIN declared' : declared'[ref].rate = declared[ref].rate
        BY <3>1 DEF Restrict
      <3> QED
        BY <1>4, <3>1, <3>2, OthersKeepRead DEF Inv
    <2> QED
      BY <1>4, <2>2, <2>3, <2>4, <2>5, <2>6, <2>7, <2>8
  <1>5. CASE UNCHANGED vars
    <2>1. UNCHANGED <<declared, inherited, declaredZero, domains, worker, sweeper, inForce>>
      BY <1>5 DEF vars, table
    <2> SUFFICES ASSUME NEW pc, NEW o, NEW rec,
                        pc = worker'.pc, o = worker'.odid, rec = worker'.rec
                 PROVE  ReadIs(pc, o, rec)'
      BY DEF ReadOK
    <2>2. ReadIs(pc, o, rec)
      BY <2>1 DEF ReadOK
    <2>3. Precedence(o, rec)' = Precedence(o, rec)
      BY <2>1 DEF Precedence, Settled, Standing, Held, First, RatesOf, Unscoped
    <2>4. Passed(o, rec)' <=> Passed(o, rec)
      BY <2>1 DEF Passed
    <2> QED
      BY <2>1, <2>2, <2>3, <2>4 DEF ReadIs, ReadAt, Unrated, Promised, Rate
  <1>6. CASE \/ \E o \in Domains : Receive(o)
             \/ \E ref \in Refs, rate \in Rates : Commit(ref, rate)
             \/ \E rate \in Rates : CommitPlain(rate)
             \/ DeclarePlain
             \/ EndDatagram
    <2>1. worker'.pc \in {"idle", "ready", "declare"}
      BY <1>6, WorkerSteps DEF Inv, StateOK, Commit
    <2> QED
      BY <1>1, <2>1 DEF Reading
  <1>7. CASE SweepDue
    BY <1>1, <1>7 DEF SweepDue
  <1>8. ASSUME \/ Tick \/ \E o \in Domains : Restate(o)
               \/ SweepTick \/ ExpireScoped \/ Expire \/ Store \/ SweepEnd
        PROVE  worker' = worker /\ Watch
    BY <1>8 DEF Tick, Restate, SweepTick, ExpireScoped, Expire, Store, SweepEnd
  <1> QED
    BY <1>1, <1>2, <1>3, <1>4, <1>5, <1>6, <1>7, <1>8 DEF Next

\* Where the most specific tiers are declared, they decide the correction.
LEMMA DecidedByTier ==
  ASSUME StateOK, NEW o \in Domains, NEW rec \in Records, NEW refs, NEW rates,
         rates = RatesOf(refs), rates # {}, Settled(o, rec) = rates
  PROVE  Precedence(o, rec) = Rate(Agreed(rates))
  BY DEF Precedence, Rate

\* What a look finds was in force: at this instant, but for the two reads that
\* come after the domain's own rate, which earlier instants promised.
LEMMA FoundInForce ==
  ASSUME Inv, ReadOK, worker.pc \in Reading
  PROVE  Found \subseteq inForce
  <1>1. PICK pc, o, rec : pc = worker.pc /\ o = worker.odid /\ rec = worker.rec
    OBVIOUS
  <1>2. ReadAt(pc, o, rec) /\ Unrated(pc, o) /\ Promised(pc, o, rec)
    <2>1. ReadIs(pc, o, rec)
      BY <1>1, Zenon DEF ReadOK
    <2> QED
      BY <1>1, <2>1 DEF ReadIs
  <1>3. o \in Domains /\ rec \in Records /\ Precedence(o, rec) \in inForce
    BY <1>2 DEF ReadAt, Promised
  <1>4. CASE pc = "named"
    <2> DEFINE own == Named(o, rec.id)
               all == {Named(d, rec.id) : d \in Domains}
    <2>1. rec.by \in {"sampler", "selector"}
      BY <1>2, <1>4 DEF ReadAt, Records
    <2>2. Alike = IF own \in DOMAIN declared THEN {own}
                  ELSE {ref \in DOMAIN declared :
                          rec.by = "sampler" /\ ref.kind = "named" /\ ref.value = rec.id}
      BY <1>1 DEF Alike
    <2>3. rec.by = "sampler" => {ref \in DOMAIN declared :
            rec.by = "sampler" /\ ref.kind = "named" /\ ref.value = rec.id} = all \cap DOMAIN declared
      <3>1. \A ref \in Refs : ref.kind = "named" /\ ref.value = rec.id => ref \in all
        BY DEF Refs, Named, Plain, Scoped
      <3>2. \A ref \in all : ref.kind = "named" /\ ref.value = rec.id
        BY DEF Named
      <3> QED
        BY <3>1, <3>2 DEF Inv, StateOK
    <2> HIDE DEF all
    <2>4. CASE Alike # {}
      <3>1. Found = {Rate(Agreed(RatesOf(Alike)))}
        BY <1>1, <1>4, <2>4 DEF Found, Sought
      <3>2. RatesOf(Alike) # {}
        BY <2>4 DEF RatesOf
      <3>3. Settled(o, rec) = RatesOf(Alike)
        <4>1. CASE own \in DOMAIN declared
          <5>1. Held({own}) = RatesOf(Alike)
            BY <2>2, <4>1 DEF Held, RatesOf
          <5> QED
            BY <2>1, <3>2, <5>1 DEF Settled, First
        <4>2. CASE own \notin DOMAIN declared
          <5>1. Held({own}) = {}
            BY <4>2 DEF Held, RatesOf
          <5>2. rec.by = "sampler"
            BY <2>1, <2>2, <2>4, <4>2
          <5>3. Held(all) = RatesOf(Alike)
            BY <2>2, <2>3, <4>2, <5>2 DEF Held
          <5> QED
            BY <3>2, <5>1, <5>2, <5>3 DEF Settled, First, all
        <4> QED
          BY <4>1, <4>2
      <3> QED
        BY <1>3, <3>1, <3>2, <3>3, DecidedByTier DEF Inv
    <2>5. CASE Alike = {} /\ rec.by = "sampler" /\ rec.id = Unsampled
      <3>1. Found = {[rate |-> 0, owed |-> declaredZero]}
        BY <1>1, <1>4, <2>5 DEF Found, Sought
      <3>2. Held({own}) = {} /\ Held(all) = {}
        BY <2>2, <2>3, <2>5 DEF Held, RatesOf
      <3>3. Settled(o, rec) = {}
        BY <2>5, <3>2 DEF Settled, First, all
      <3>4. Agreed({}) = 0
        BY FS_EmptySet DEF Agreed
      <3>5. Precedence(o, rec) = [rate |-> 0, owed |-> declaredZero]
        <4>1. declaredZero \in BOOLEAN
          BY DEF Inv, StateOK
        <4> QED
          BY <2>5, <3>3, <3>4, <4>1 DEF Precedence
      <3> QED
        BY <1>3, <3>1, <3>5
    <2>6. CASE Alike = {} /\ ~(rec.by = "sampler" /\ rec.id = Unsampled)
      BY <1>1, <1>4, <2>6 DEF Found, Sought
    <2> QED
      BY <2>4, <2>5, <2>6
  <1>5. CASE pc \in {"template", "interface"}
    <2> DEFINE ref == IF pc = "template" THEN Scoped("template", o, rec.template)
                      ELSE Scoped("interface", o, rec.interface)
    <2>1. Found = {Rate(declared[r].rate) : r \in {ref} \cap DOMAIN declared}
      BY <1>1, <1>5 DEF Found, Sought
    <2>2. rec.by = "nothing"
      BY <1>2, <1>5 DEF ReadAt
    <2>3. pc = "interface" => Held({Scoped("template", o, rec.template)}) = {}
      BY <1>2 DEF ReadAt, Held, RatesOf
    <2>4. ASSUME ref \in DOMAIN declared
          PROVE  Rate(declared[ref].rate) = Precedence(o, rec)
      <3>1. Held({ref}) = RatesOf({ref}) /\ RatesOf({ref}) = {declared[ref].rate}
        BY <2>4 DEF Held, RatesOf
      <3>2. Settled(o, rec) = RatesOf({ref})
        BY <1>5, <2>2, <2>3, <3>1 DEF Settled, First
      <3>3. Agreed(RatesOf({ref})) = declared[ref].rate
        BY <3>1, AgreedOnOne
      <3> HIDE DEF ref
      <3> QED
        BY <1>3, <3>1, <3>2, <3>3, DecidedByTier DEF Inv
    <2> QED
      BY <1>3, <2>1, <2>4
  <1>6. CASE pc = "own"
    <2>1. CASE domains[o].rate # 0
      <3>1. Found = {Rate(domains[o].rate)}
        BY <1>1, <1>6, <2>1 DEF Found, Sought
      <3>2. Passed(o, rec)
        BY <1>2, <1>6 DEF ReadAt
      <3>3. Precedence(o, rec) = Rate(domains[o].rate)
        BY <1>3, <2>1, <3>2, PassedNow DEF Inv, PassedIs
      <3> QED
        BY <1>3, <3>1, <3>3
    <2>2. CASE domains[o].rate = 0
      BY <1>1, <1>6, <2>2 DEF Found, Sought
    <2> QED
      BY <2>1, <2>2
  <1>7. CASE pc = "domain"
    <2>1. Found = {Rate(declared[r].rate) : r \in {OwnDomain(o)} \cap DOMAIN declared}
      BY <1>1, <1>7 DEF Found, Sought, OwnDomain
    <2> QED
      BY <1>2, <1>7, <2>1 DEF Promised
  <1>8. CASE pc = "inherited"
    <2>1. Found = {Rate(inherited)}
      BY <1>1, <1>8 DEF Found, Sought
    <2> QED
      BY <1>2, <1>8, <2>1 DEF Promised
  <1> QED
    BY <1>1, <1>4, <1>5, <1>6, <1>7, <1>8 DEF Reading

\* Every record is corrected by what its precedence held at some instant of
\* its read, however the reads without the lock fall among the sweep's steps.
THEOREM CorrectedByPrecedenceHolds == Spec => []CorrectedByPrecedence
  <1>1. Init => ReadOK
    BY DEF Init, Idle, ReadOK, ReadIs, Reading
  <1>2. Inv /\ ReadOK => CorrectedByPrecedence
    BY FoundInForce DEF CorrectedByPrecedence
  <1> QED
    BY <1>1, <1>2, Invariant, NextInv, NextReadOK, PTL DEF Spec
=============================================================================
