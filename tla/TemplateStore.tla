---------------------------- MODULE TemplateStore ----------------------------
(***************************************************************************)
(* The template store of internal/decoder: the observation domains a       *)
(* device opened, the templates each holds, the budget a device's domains  *)
(* share and the sampler tables that outlive the domains, between the      *)
(* decode workers that open and fill them and the sweep that reclaims      *)
(* them.                                                                   *)
(*                                                                         *)
(* A domain, a budget and a sampler table are objects reached by pointer:  *)
(* a worker finds its domain under the store lock and goes on to use it    *)
(* after unlocking, when the sweep may already have taken it out of the    *)
(* store.  The three heaps hold the objects still reachable.               *)
(*                                                                         *)
(* A sampler table is reduced here to which samplers it holds and when     *)
(* each was last declared; rates, scopes, sequences and the refusal        *)
(* counters are left out.  A template is its number of fields.             *)
(*                                                                         *)
(* A definition marked "Mutant" is a plausible mistake in the definition   *)
(* that follows it; the specification uses none of them.                   *)
(***************************************************************************)
EXTENDS Integers, FiniteSetsExt, Functions

CONSTANTS
  Exporters,     \* source addresses
  Domains,       \* domain keys: exporter, observation domain id and protocol
  ExporterOf,    \* the exporter of a domain key
  TableOf,       \* the sampler key of a domain key: exporter and protocol
  Refs,          \* template references: session port and template id
  FieldCounts,   \* how many fields an announced template may have
  Samplers,      \* what a sampling declaration may name
  Workers,       \* decode workers
  Feeds,         \* the exporters each worker may be handed: what sharding decides
  MaxDomains,    \* maxDomainsPerExporter
  MaxExporters,  \* maxExporters
  MaxTemplates,  \* maxTemplatesPerDomain
  MaxFields,     \* maxTemplateFieldsPerExporter
  MaxSamplers,   \* maxSamplersPerExporter
  TTL,           \* the template TTL
  MaxTime,       \* bound on the clock
  Ids,           \* addresses of heap objects, as many as can be in use at once
  None           \* the nil pointer

ASSUME StoreAssumption ==
  /\ IsFiniteSet(Domains) /\ IsFiniteSet(Workers) /\ IsFiniteSet(Ids)
  /\ Cardinality(Ids) >= Cardinality(Domains) + 2 * Cardinality(Workers)
  /\ ExporterOf \in [Domains -> Exporters]
  /\ DOMAIN TableOf = Domains
  /\ FieldCounts \subseteq Nat \ {0}
  /\ Feeds \in [Workers -> SUBSET Exporters]
  /\ {MaxDomains, MaxExporters, MaxTemplates, MaxFields, MaxSamplers} \subseteq Nat \ {0}
  /\ TTL \in Nat \ {0}
  /\ MaxTime \in Nat
  /\ None \notin Ids

VARIABLES
  domains,        \* domain key -> domainState, the store's live domains
  perExporter,    \* exporter -> exporterBudget
  samplerTables,  \* sampler key -> samplerTable
  heap,           \* the domainState objects
  budgets,        \* the exporterBudget objects
  tables,         \* the samplerTable objects
  worker,         \* per worker: the datagram and the call it is in
  sweeper,        \* where the sweep is
  now,            \* the store's clock
  announced       \* per domain and reference, the fields last announced, 0 if unreadable

indexes == <<domains, perExporter, samplerTables>>
objects == <<heap, budgets, tables>>
vars == <<indexes, objects, worker, sweeper, now, announced>>

-----------------------------------------------------------------------------
Time == 0..MaxTime

\* The zero time.Time, further back than any TTL.
Never == -TTL - 1

TableKeys == Range(TableOf)

\* type domainState, less what other modules describe.
DomainState ==
  [key: Domains, budget: Ids, declared: Ids, lastSeen: Time, fields: Int,
   templates: UNION {[S -> [size: FieldCounts, at: Time]] : S \in SUBSET Refs},
   oldest: Time \cup {Never}]

ExporterBudget == [domains: Int, fields: Int]

\* A worker's datagram (its domain key k, the domain d its decoder holds, when
\* it began) and its call in progress (the domain it holds, the reference and
\* the template's fields, the clock as it read it), with what the last lookup
\* returned.
Calls == {"datagram", "add", "lookup", "withdraw"}
WorkerState ==
  [pc: {"idle", "find", "open", "stamp", "body", "ready"}, call: Calls,
   key: Domains \cup {None}, d: Ids \cup {None}, held: Ids \cup {None},
   ref: Refs \cup {None}, size: FieldCounts \cup {0}, got: FieldCounts \cup {0},
   since: Time, at: Time]

SweeperState ==
  [pc: {"idle", "lock", "evict", "prune"}, todo: SUBSET Domains,
   cutoff: Int, at: Time]

\* The collector keeps what the store or a worker can still reach.
Keep(h, b, t) ==
  LET inHand == UNION {{worker'[w].d, worker'[w].held} : w \in Workers}
      kept == Restrict(h, DOMAIN h \cap (Range(domains') \cup inHand))
  IN  /\ heap' = kept
      /\ budgets' = Restrict(b, Range(perExporter') \cup {kept[i].budget : i \in DOMAIN kept})
      /\ tables' = Restrict(t, Range(samplerTables') \cup {kept[i].declared : i \in DOMAIN kept})

Fresh(used) == CHOOSE i \in Ids : i \notin used

Put(f, k, v) == [x \in DOMAIN f \cup {k} |-> IF x = k THEN v ELSE f[x]]
Without(f, k) == Restrict(f, DOMAIN f \ {k})

StoreUnlocked == sweeper.pc # "evict"

-----------------------------------------------------------------------------
\* The fields some templates hold, told apart: a domain is charged their number.
FieldsOf(templates) == UNION {{ref} \X (1..templates[ref].size) : ref \in DOMAIN templates}

\* What a template costs its domain, and the domain once ref is dropped.
HeldFields(D, ref) == IF ref \in DOMAIN D.templates THEN D.templates[ref].size ELSE 0

\* Mutant: a template dropped still charged for.
DroppedUncharged(D, ref) == [D EXCEPT !.templates = Without(@, ref)]
Dropped(D, ref) ==
  [D EXCEPT !.templates = Without(@, ref), !.fields = @ - HeldFields(D, ref)]

\* What a refused template leaves of its domain.  Mutant: the layout it would
\* have replaced.
RejectedKept(D, ref) == D
Rejected(D, ref) == Dropped(D, ref)

Fits(D, deviceFields, ref, size) ==
  /\ ref \in DOMAIN D.templates \/ Cardinality(DOMAIN D.templates) < MaxTemplates
  /\ deviceFields + size - HeldFields(D, ref) <= MaxFields

Expired(D, at) == {ref \in DOMAIN D.templates : at - D.templates[ref].at > TTL}

Pruned(D, at) ==
  LET kept == Restrict(D.templates, DOMAIN D.templates \ Expired(D, at))
      freed == Cardinality(FieldsOf(Restrict(D.templates, Expired(D, at))))
  IN  [D EXCEPT !.templates = kept,
                !.fields = @ - freed,
                !.oldest = Min({at} \cup {kept[ref].at : ref \in DOMAIN kept})]

\* Replace a domain, moving its device's field count as its own moves.
Charge(i, D) ==
  Keep([heap EXCEPT ![i] = D],
       [budgets EXCEPT ![D.budget].fields = @ + D.fields - heap[i].fields],
       tables)

Go(w, pc) == worker' = [worker EXCEPT ![w].pc = pc]

\* A call ends: back to the datagram, or with it if it never got a domain.
Return(w) ==
  worker' = [worker EXCEPT ![w].pc = "ready", ![w].call = "datagram", ![w].held = None,
                           ![w].ref = None, ![w].size = 0, ![w].at = 0]

Abandon(w) ==
  worker' = [worker EXCEPT ![w] = [pc |-> "idle", call |-> "datagram", key |-> None,
    d |-> None, held |-> None, ref |-> None, size |-> 0, got |-> 0, since |-> 0, at |-> 0]]

\* domain returns i: the datagram keeps it, a call reads the clock and goes on.
Resolved(w, i) ==
  worker' = [worker EXCEPT
    ![w] = IF @.call = "datagram" THEN [@ EXCEPT !.pc = "ready", !.d = i, !.held = None, !.at = 0]
                                  ELSE [@ EXCEPT !.pc = "body", !.held = i, !.at = now]]

-----------------------------------------------------------------------------
Init ==
  /\ domains = [k \in {} |-> None]
  /\ perExporter = [x \in {} |-> None]
  /\ samplerTables = [s \in {} |-> None]
  /\ heap = [i \in {} |-> None]
  /\ budgets = [i \in {} |-> None]
  /\ tables = [i \in {} |-> None]
  /\ worker = [w \in Workers |->
       [pc |-> "idle", call |-> "datagram", key |-> None, d |-> None, held |-> None,
        ref |-> None, size |-> 0, got |-> 0, since |-> 0, at |-> 0]]
  /\ sweeper = [pc |-> "idle", todo |-> {}, cutoff |-> -TTL, at |-> 0]
  /\ now = 0
  /\ announced = [k \in Domains |-> [ref \in Refs |-> 0]]

\* The clock moves on, but a datagram is decoded within one template TTL.
Tick ==
  /\ now < MaxTime
  /\ \A w \in Workers : worker[w].pc # "idle" => now < worker[w].since + TTL
  /\ now' = now + 1
  /\ UNCHANGED <<indexes, objects, worker, sweeper, announced>>

\* A datagram naming domain k reaches the worker its source address gives it.
Receive(w, k) ==
  /\ worker[w].pc = "idle"
  /\ ExporterOf[k] \in Feeds[w]
  /\ worker' = [worker EXCEPT ![w].pc = "find", ![w].key = k, ![w].since = now, ![w].at = now]
  /\ UNCHANGED <<indexes, objects, sweeper, now, announced>>

\* The decoder reaches the next template or set of its datagram: a template to
\* register, one it cannot read, or a set to look its template up for.
Call(w, call, ref, size) ==
  /\ worker[w].pc = "ready"
  /\ worker' = [worker EXCEPT ![w].pc = "find", ![w].call = call, ![w].ref = ref,
                              ![w].size = size, ![w].got = 0, ![w].at = now]
  /\ UNCHANGED <<indexes, objects, sweeper, now>>

RegisterTemplate(w, ref, size) ==
  /\ Call(w, "add", ref, size)
  /\ announced' = [announced EXCEPT ![worker[w].key][ref] = size]

RefuseTemplate(w, ref) ==
  /\ Call(w, "withdraw", ref, 0)
  /\ announced' = [announced EXCEPT ![worker[w].key][ref] = 0]

DecodeDataSet(w, ref) == Call(w, "lookup", ref, 0) /\ UNCHANGED announced

\* domain, under the read lock; withdraw looks no further than that.
Find(w) ==
  /\ worker[w].pc = "find"
  /\ StoreUnlocked
  /\ \/ /\ worker[w].key \in DOMAIN domains
        /\ worker' = [worker EXCEPT
             ![w].pc = IF worker[w].call = "withdraw" THEN "body" ELSE "stamp",
             ![w].held = domains[worker[w].key]]
     \/ /\ worker[w].key \notin DOMAIN domains
        /\ IF worker[w].call = "withdraw" THEN Return(w) ELSE Go(w, "open")
  /\ UNCHANGED <<indexes, objects, sweeper, now, announced>>

\* domain stamps the domain it found, the store lock already released.
Stamp(w) ==
  LET i == worker[w].held IN
  /\ worker[w].pc = "stamp"
  /\ Resolved(w, i)
  /\ UNCHANGED <<indexes, sweeper, now, announced>>
  /\ Keep([heap EXCEPT ![i].lastSeen = worker[w].at], budgets, tables)

\* domain under the write lock, another worker having opened it meanwhile.
OpenPresent(w) ==
  LET k == worker[w].key IN
  /\ worker[w].pc = "open"
  /\ StoreUnlocked
  /\ k \in DOMAIN domains
  /\ Resolved(w, domains[k])
  /\ UNCHANGED <<indexes, sweeper, now, announced>>
  /\ Keep([heap EXCEPT ![domains[k]].lastSeen = worker[w].at], budgets, tables)

\* A new domain is past its device's budget, or its device past the fleet's.
\* Mutant: one past it.
PastBudgetByOne(x) ==
  IF x \in DOMAIN perExporter THEN budgets[perExporter[x]].domains > MaxDomains
                              ELSE Cardinality(DOMAIN perExporter) > MaxExporters
PastBudget(x) ==
  IF x \in DOMAIN perExporter THEN budgets[perExporter[x]].domains >= MaxDomains
                              ELSE Cardinality(DOMAIN perExporter) >= MaxExporters

OpenRefused(w) ==
  /\ worker[w].pc = "open"
  /\ StoreUnlocked
  /\ worker[w].key \notin DOMAIN domains
  /\ PastBudget(ExporterOf[worker[w].key])
  /\ IF worker[w].call = "datagram" THEN Abandon(w) ELSE Return(w)
  /\ UNCHANGED <<indexes, sweeper, now, announced>>
  /\ Keep(heap, budgets, tables)

OpenNew(w) ==
  LET k == worker[w].key
      x == ExporterOf[k]
      i == Fresh(DOMAIN heap)
      share == IF x \in DOMAIN perExporter THEN perExporter[x] ELSE Fresh(DOMAIN budgets)
      t == IF TableOf[k] \in DOMAIN samplerTables THEN samplerTables[TableOf[k]]
                                                  ELSE Fresh(DOMAIN tables)
      budget == IF x \in DOMAIN perExporter THEN budgets[share] ELSE [domains |-> 0, fields |-> 0]
      declared == IF TableOf[k] \in DOMAIN samplerTables THEN tables[t] ELSE [s \in {} |-> 0]
  IN
  /\ worker[w].pc = "open"
  /\ StoreUnlocked
  /\ k \notin DOMAIN domains
  /\ ~PastBudget(x)
  /\ domains' = Put(domains, k, i)
  /\ perExporter' = Put(perExporter, x, share)
  /\ samplerTables' = Put(samplerTables, TableOf[k], t)
  /\ Resolved(w, i)
  /\ Keep(Put(heap, i, [key |-> k, budget |-> share, declared |-> t, lastSeen |-> worker[w].at,
                        fields |-> 0, templates |-> [ref \in {} |-> 0], oldest |-> Never]),
          Put(budgets, share, [budget EXCEPT !.domains = @ + 1]),
          Put(tables, t, declared))
  /\ UNCHANGED <<sweeper, now, announced>>

-----------------------------------------------------------------------------
\* The locked section of a call on domain i.
InBody(w, call) == worker[w].pc = "body" /\ worker[w].call = call

\* The domain add works on: the expired templates dropped if it does not fit.
RoomFor(D, deviceFields, w) ==
  IF Fits(D, deviceFields, worker[w].ref, worker[w].size) \/ worker[w].at - D.oldest <= TTL
  THEN D ELSE Pruned(D, worker[w].at)

Add(w) ==
  LET i == worker[w].held
      ref == worker[w].ref
      size == worker[w].size
      before == budgets[heap[i].budget].fields
      D == RoomFor(heap[i], before, w)
      fits == Fits(D, before + D.fields - heap[i].fields, ref, size)
      stored == [D EXCEPT !.fields = @ + size - HeldFields(D, ref),
                          !.templates = Put(@, ref, [size |-> size, at |-> worker[w].at])]
  IN
  /\ InBody(w, "add")
  /\ Return(w)
  /\ UNCHANGED <<indexes, sweeper, now, announced>>
  /\ Charge(i, IF fits THEN stored ELSE Rejected(D, ref))

Withdraw(w) ==
  /\ InBody(w, "withdraw")
  /\ Return(w)
  /\ UNCHANGED <<indexes, sweeper, now, announced>>
  /\ Charge(worker[w].held, Dropped(heap[worker[w].held], worker[w].ref))

Lookup(w) ==
  LET D == heap[worker[w].held]
      ref == worker[w].ref
      hit == ref \in DOMAIN D.templates \ Expired(D, now)
  IN
  /\ InBody(w, "lookup")
  /\ worker' = [worker EXCEPT ![w].pc = "ready", ![w].held = None, ![w].at = 0,
                              ![w].got = IF hit THEN D.templates[ref].size ELSE 0]
  /\ UNCHANGED <<indexes, sweeper, now, announced>>
  /\ Keep(heap, budgets, tables)

\* An options record of the set just looked up declares sampler s onto the
\* table of the domain the datagram began with.
DeclareSampler(w, s) ==
  LET D == heap[worker[w].d]
      t == tables[D.declared]
  IN
  /\ worker[w].pc = "ready"
  /\ worker[w].got # 0
  /\ s \in DOMAIN t \/ Cardinality(DOMAIN t) < MaxSamplers
  /\ tables' = [tables EXCEPT ![D.declared] = Put(t, s, D.lastSeen)]
  /\ UNCHANGED <<indexes, heap, budgets, worker, sweeper, now, announced>>

EndDatagram(w) ==
  /\ worker[w].pc = "ready"
  /\ Abandon(w)
  /\ UNCHANGED <<indexes, sweeper, now, announced>>
  /\ Keep(heap, budgets, tables)

-----------------------------------------------------------------------------
\* SweepDomains reads its cutoff, then takes the store lock.
SweepTick ==
  /\ sweeper.pc = "idle"
  /\ sweeper' = [sweeper EXCEPT !.pc = "lock", !.cutoff = now - TTL]
  /\ UNCHANGED <<indexes, objects, worker, now, announced>>

SweepLock ==
  /\ sweeper.pc = "lock"
  /\ sweeper' = [sweeper EXCEPT !.pc = "evict", !.todo = DOMAIN domains]
  /\ UNCHANGED <<indexes, objects, worker, now, announced>>

\* Mutant: the TTL is subtracted twice.
IdleTwice(k) == heap[domains[k]].lastSeen < sweeper.cutoff - TTL
Idle(k) == heap[domains[k]].lastSeen < sweeper.cutoff

Spare(k) ==
  /\ sweeper.pc = "evict"
  /\ k \in sweeper.todo
  /\ ~Idle(k)
  /\ sweeper' = [sweeper EXCEPT !.todo = @ \ {k}]
  /\ UNCHANGED <<indexes, objects, worker, now, announced>>

Evict(k) ==
  LET x == ExporterOf[k]
      D == heap[domains[k]]
      budget == [domains |-> budgets[D.budget].domains - 1,
                 fields |-> budgets[D.budget].fields - D.fields]
  IN
  /\ sweeper.pc = "evict"
  /\ k \in sweeper.todo
  /\ Idle(k)
  /\ sweeper' = [sweeper EXCEPT !.todo = @ \ {k}]
  /\ domains' = Without(domains, k)
  /\ perExporter' = IF budget.domains <= 0 THEN Without(perExporter, x) ELSE perExporter
  /\ UNCHANGED <<samplerTables, worker, now, announced>>
  /\ Keep(heap, [budgets EXCEPT ![D.budget] = budget], tables)

\* The sampler tables some domain holds.  Mutant: those that hold a
\* declaration are kept.
ReferencedByUse == {s \in DOMAIN samplerTables : DOMAIN tables[samplerTables[s]] # {}}
Referenced == {TableOf[k] : k \in DOMAIN domains}

\* sweepSamplerTablesLocked, the last thing done under the store lock, and the
\* clock read the prune below measures templates by.
SweepTables ==
  LET expire(t) == Restrict(t, {s \in DOMAIN t : t[s] >= sweeper.cutoff})
  IN
  /\ sweeper.pc = "evict"
  /\ sweeper.todo = {}
  /\ sweeper' = [sweeper EXCEPT !.pc = "prune", !.todo = DOMAIN domains,
                                !.cutoff = -TTL, !.at = now]
  /\ samplerTables' = Restrict(samplerTables, DOMAIN samplerTables \cap Referenced)
  /\ UNCHANGED <<domains, perExporter, worker, now, announced>>
  /\ Keep(heap, budgets,
          [i \in DOMAIN tables |-> IF i \in Range(samplerTables) THEN expire(tables[i]) ELSE tables[i]])

Prune(k) ==
  LET i == domains[k] IN
  /\ sweeper.pc = "prune"
  /\ k \in sweeper.todo
  /\ sweeper' = [sweeper EXCEPT !.todo = @ \ {k}]
  /\ UNCHANGED <<indexes, worker, now, announced>>
  /\ Charge(i, Pruned(heap[i], sweeper.at))

SweepEnd ==
  /\ sweeper.pc = "prune"
  /\ sweeper.todo = {}
  /\ sweeper' = [sweeper EXCEPT !.pc = "idle", !.at = 0]
  /\ UNCHANGED <<indexes, objects, worker, now, announced>>

-----------------------------------------------------------------------------
Step(w) ==
  Find(w) \/ Stamp(w) \/ OpenPresent(w) \/ OpenRefused(w) \/ OpenNew(w)
    \/ Add(w) \/ Withdraw(w) \/ Lookup(w)

Sweep == SweepLock \/ SweepTables \/ SweepEnd \/ \E k \in Domains : Spare(k) \/ Evict(k) \/ Prune(k)

Next ==
  \/ Tick
  \/ \E w \in Workers :
       \/ \E k \in Domains : Receive(w, k)
       \/ \E ref \in Refs :
            \/ \E size \in FieldCounts : RegisterTemplate(w, ref, size)
            \/ RefuseTemplate(w, ref)
            \/ DecodeDataSet(w, ref)
       \/ \E s \in Samplers : DeclareSampler(w, s)
       \/ Step(w)
       \/ EndDatagram(w)
  \/ SweepTick
  \/ Sweep

Spec == Init /\ [][Next]_vars

\* A worker inside a call and a sweep under way run on; the ticker that starts
\* a sweep never stops.  Nothing makes a device send, or a datagram carry one
\* more set: once it has no more, it ends.
Fairness ==
  /\ WF_vars(Tick)
  /\ \A w \in Workers : WF_vars(Step(w)) /\ SF_vars(EndDatagram(w))
  /\ WF_vars(SweepTick)
  /\ WF_vars(Sweep)

FairSpec == Spec /\ Fairness

-----------------------------------------------------------------------------
LiveOf(x) == {k \in DOMAIN domains : ExporterOf[k] = x}
HeldBy(x) == UNION {{k} \X FieldsOf(heap[domains[k]].templates) : k \in LiveOf(x)}

\* A worker names a domain while it has a datagram, holds one from finding it to
\* the end of the call, and makes calls once its datagram has resolved its own.
Shape(w) ==
  /\ worker[w].pc # "idle" => worker[w].key \in Domains
  /\ worker[w].pc = "idle" => worker[w].call = "datagram"
  /\ worker[w].pc = "ready" => worker[w].call \in {"datagram", "lookup"}
  /\ worker[w].pc = "body" => worker[w].call # "datagram"
  /\ worker[w].held # None <=> worker[w].pc \in {"stamp", "body"}
  /\ worker[w].d # None <=> worker[w].pc = "ready" \/ worker[w].call # "datagram"
  /\ worker[w].call # "datagram" => worker[w].ref \in Refs
  /\ worker[w].call = "add" => worker[w].size # 0

\* Every variable holds a value of its type, and an index leads to objects.
TypeOK ==
  /\ DOMAIN domains \subseteq Domains /\ domains \in [DOMAIN domains -> DOMAIN heap]
  /\ DOMAIN perExporter \subseteq Exporters
  /\ perExporter \in [DOMAIN perExporter -> DOMAIN budgets]
  /\ DOMAIN samplerTables \subseteq TableKeys
  /\ samplerTables \in [DOMAIN samplerTables -> DOMAIN tables]
  /\ DOMAIN heap \subseteq Ids /\ \A i \in DOMAIN heap : heap[i] \in DomainState
  /\ DOMAIN budgets \subseteq Ids /\ \A i \in DOMAIN budgets : budgets[i] \in ExporterBudget
  /\ DOMAIN tables \subseteq Ids
  /\ \A i \in DOMAIN tables : tables[i] \in UNION {[S -> Time] : S \in SUBSET Samplers}
  /\ worker \in [Workers -> WorkerState] /\ \A w \in Workers : Shape(w)
  /\ sweeper \in SweeperState
  /\ now \in Time
  /\ announced \in [Domains -> [Refs -> FieldCounts \cup {0}]]

\* The budgets are those of the devices with a live domain, each shared by all
\* of its device's domains and counting exactly those, within the two bounds:
\* a device is never refused a domain for one the sweep took, nor given one
\* past its budget, whatever the order of openings and evictions.
BudgetsFollowDomains ==
  /\ DOMAIN perExporter = {ExporterOf[k] : k \in DOMAIN domains}
  /\ Cardinality(DOMAIN perExporter) <= MaxExporters
  /\ \A k \in DOMAIN domains : heap[domains[k]].budget = perExporter[ExporterOf[k]]
  /\ \A x \in DOMAIN perExporter :
       /\ budgets[perExporter[x]].domains = Cardinality(LiveOf(x))
       /\ Cardinality(LiveOf(x)) <= MaxDomains

\* A device's budget is charged with exactly the fields of the templates its
\* live domains hold, and those stay within the bound: nothing is charged to a
\* domain that left the store, and nothing an eviction returned is returned
\* again by a call that still held the domain.
FieldsCharged ==
  \A x \in DOMAIN perExporter :
    /\ budgets[perExporter[x]].fields = Cardinality(HeldBy(x))
    /\ Cardinality(HeldBy(x)) <= MaxFields

\* A data set is only ever decoded by the layout its device announced last for
\* that template: a redefinition the store refused, or could not read, leaves
\* no older layout behind to decode the new data by.
DecodesByLastLayout ==
  \A w \in Workers :
    worker[w].got # 0 => worker[w].got = announced[worker[w].key][worker[w].ref]

\* The domains of one device on one protocol declare into one table, which is
\* the one a scrape reads.
TableShared ==
  \A k \in DOMAIN domains :
    /\ TableOf[k] \in DOMAIN samplerTables
    /\ heap[domains[k]].declared = samplerTables[TableOf[k]]

\* templates.go:776 says freeing a table still referenced "would take later
\* declarations somewhere no scrape reads": wherever a worker may declare a
\* sampler, the table it would declare into is one the store still has.
DeclaresWhereScraped ==
  \A w \in Workers :
    worker[w].pc = "ready" /\ worker[w].got # 0 =>
      heap[worker[w].d].declared \in Range(samplerTables)

\* A domain no datagram has named for longer than the TTL leaves the store,
\* unless a datagram names it again first, and a sampler table no live domain
\* shares is freed, unless a domain that shares it opens first.
Stale(k) == k \in DOMAIN domains /\ heap[domains[k]].lastSeen < now - TTL
Unshared(s) == s \in DOMAIN samplerTables /\ s \notin {TableOf[k] : k \in DOMAIN domains}
IdleDomainsLeave ==
  /\ \A k \in Domains : Stale(k) ~> ~Stale(k)
  /\ \A s \in TableKeys : Unshared(s) ~> ~Unshared(s)
=============================================================================
