---------------------------- MODULE SamplerTable ----------------------------
(***************************************************************************)
(* The sampling rates of internal/decoder: what one device's domains       *)
(* declare on one protocol, the table those declarations share, the rate   *)
(* each domain holds beside it, and the rate that is found for a record,   *)
(* while the sweep drops what the device stopped announcing.               *)
(*                                                                         *)
(* One worker decodes the device's datagrams, as sharding has it, so the   *)
(* table is shared by that worker and the sweep.  The table lock keeps the *)
(* two apart; the copies of it read without the lock (hasScoped, inherited *)
(* and a domain's own rate) are what they meet in.                         *)
(*                                                                         *)
(* A definition marked "Mutant" is a plausible mistake in the definition   *)
(* that follows it; the specification uses none of them.                   *)
(***************************************************************************)
EXTENDS Integers, FiniteSets, Functions

CONSTANTS
  Domains,      \* the device's observation domain ids
  SamplerIds,   \* samplerIds and selectorIds
  Unsampled,    \* unsampledSamplerID
  Templates,    \* template references: session port and template id
  Interfaces,   \* interface indexes but zero
  Rates,        \* declared rates, which are told apart and never computed with
  Arriving,     \* the records the device sends, of those that can be told apart
  MaxSamplers,  \* maxSamplersPerExporter
  TTL,          \* the template TTL
  MaxTime,      \* bound on the clock
  None          \* nothing named

ASSUME SamplerAssumption ==
  /\ Unsampled \in SamplerIds
  /\ 0 \notin Rates
  /\ MaxSamplers \in Nat \ {0} /\ TTL \in Nat /\ MaxTime \in Nat
  /\ None \notin Domains \cup SamplerIds \cup Templates \cup Interfaces

VARIABLES
  declared,      \* what a declaration names -> its rate and when it was made
  hasScoped,     \* copy: whether any is scoped
  inherited,     \* copy: the rate all unscoped declarations agree on, or 0
  sampled,       \* the device is known to sample
  declaredZero,  \* it declared a rate for the unsampled identifier
  domains,       \* live domain -> the rate it holds and its lastSeen
  worker,        \* the datagram, the options record or the record it is at
  sweeper,       \* where the sweep is
  now,
  inForce        \* the corrections that held at some instant of the record's read

table == <<declared, hasScoped, inherited, sampled, declaredZero>>
vars == <<table, domains, worker, sweeper, now, inForce>>

-----------------------------------------------------------------------------
Time == 0..MaxTime

\* samplerRef and scopedRef, and the plain declaration of a domain.
Named(o, id) == [kind |-> "named", odid |-> o, value |-> id]
Plain(o) == [kind |-> "plain", odid |-> o, value |-> None]
Scoped(kind, o, value) == [kind |-> kind, odid |-> o, value |-> value]
Refs ==
  {Named(o, id) : o \in Domains, id \in SamplerIds} \cup {Plain(o) : o \in Domains}
    \cup {Scoped("template", o, t) : o \in Domains, t \in Templates}
    \cup {Scoped("interface", o, i) : o \in Domains, i \in Interfaces}
    \cup {Scoped("domain", None, o) : o \in Domains}

SamplerEntry == [rate: Rates, lastSeen: Time]

\* What a record names: a sampler, a selector, or neither, when its template
\* and the interface it came in by are looked at.
Records ==
  [by: {"sampler", "selector"}, id: SamplerIds, template: {None}, interface: {None}]
    \cup [by: {"nothing"}, id: {None}, template: Templates, interface: Interfaces \cup {None}]
ASSUME ArrivingAssumption == Arriving \subseteq Records

Correction == [rate: Rates \cup {0}, owed: BOOLEAN]

Reading == {"named", "template", "interface", "own", "domain", "inherited"}
WorkerState ==
  [pc: {"idle", "ready", "declare"} \cup Reading,
   odid: Domains \cup {None}, rate: Rates \cup {0},
   rec: Records \cup {None}]
SweeperState ==
  [pc: {"idle", "expire", "inherit", "restate", "store", "rest"},
   cutoff: Int, todo: SUBSET Domains, odid: Domains \cup {None}, rate: Rates \cup {0}]

IsScoped(ref) == ref.kind \in {"template", "interface", "domain"}
RatesOf(refs) == {declared[ref].rate : ref \in refs}
TableUnlocked == sweeper.pc # "inherit"
StoreUnlocked == sweeper.pc \in {"idle", "rest"}

Agreed(rates) == IF Cardinality(rates) = 1 THEN CHOOSE r \in rates : TRUE ELSE 0

\* soleRateLocked.
SoleRate(t) == Agreed({t[ref].rate : ref \in {r \in DOMAIN t : ~IsScoped(r)}})

-----------------------------------------------------------------------------
\* The correction that holds of a record at one instant: that of the first of
\* these tiers in which something is declared, and none if it is disagreed on.
Held(refs) == RatesOf(refs \cap DOMAIN declared)
First(rates, others) == IF rates # {} THEN rates ELSE others
Unscoped == {ref \in DOMAIN declared : ~IsScoped(ref)}
Standing(o) ==
  First(IF domains[o].rate = 0 THEN {} ELSE {domains[o].rate},
        First(Held({Scoped("domain", None, o)}), RatesOf(Unscoped)))
Settled(o, rec) ==
  CASE rec.by = "sampler" ->
         First(Held({Named(o, rec.id)}),
               First(Held({Named(d, rec.id) : d \in Domains}),
                     IF rec.id = Unsampled THEN {} ELSE Standing(o)))
    [] rec.by = "selector" -> First(Held({Named(o, rec.id)}), Standing(o))
    [] rec.by = "nothing" ->
         First(Held({Scoped("template", o, rec.template)}),
               First(Held({Scoped("interface", o, rec.interface)}), Standing(o)))
Precedence(o, rec) ==
  LET rates == Settled(o, rec)
      complete == rec.by = "sampler" /\ rec.id = Unsampled /\ rates = {} /\ ~declaredZero
  IN  [rate |-> Agreed(rates), owed |-> Agreed(rates) = 0 /\ ~complete]

\* Kept by every step: the corrections in force since the record's read began.
Watch ==
  inForce' = IF worker'.pc \notin Reading THEN {}
             ELSE inForce \cup {Precedence(w.odid, w.rec)' : w \in {worker'}}

-----------------------------------------------------------------------------
Idle == [pc |-> "idle", odid |-> None, rate |-> 0, rec |-> None]

Init ==
  /\ declared = [ref \in {} |-> None]
  /\ hasScoped = FALSE /\ inherited = 0
  /\ sampled = FALSE /\ declaredZero = FALSE
  /\ domains = [o \in {} |-> None]
  /\ worker = Idle
  /\ sweeper = [pc |-> "idle", cutoff |-> -TTL, todo |-> {}, odid |-> None, rate |-> 0]
  /\ now = 0
  /\ inForce = {}

\* The clock moves on, but a datagram is decoded within one template TTL.
Tick ==
  /\ now < MaxTime
  /\ worker.pc # "idle" => now < domains[worker.odid].lastSeen + TTL
  /\ now' = now + 1
  /\ UNCHANGED <<table, domains, worker, sweeper>>
  /\ Watch

\* A datagram finds its domain, or opens it, and stamps it.
Receive(o) ==
  /\ worker.pc = "idle"
  /\ StoreUnlocked
  /\ worker' = [worker EXCEPT !.pc = "ready", !.odid = o]
  /\ domains' = [d \in DOMAIN domains \cup {o} |->
       IF d # o THEN domains[d]
       ELSE [rate |-> IF o \in DOMAIN domains THEN domains[o].rate ELSE 0, lastSeen |-> now]]
  /\ UNCHANGED <<table, sweeper, now>>
  /\ Watch

EndDatagram ==
  /\ worker.pc = "ready"
  /\ worker' = Idle
  /\ UNCHANGED <<table, domains, sweeper, now>>
  /\ Watch

\* What the table holds once ref is declared: at the bound, nothing new.
\* Mutant: at the bound, something older makes way.
DeclaredInPlace(ref, rate) ==
  LET full == ref \notin DOMAIN declared /\ Cardinality(DOMAIN declared) >= MaxSamplers
      kept == DOMAIN declared \ (IF full THEN {CHOOSE r \in DOMAIN declared : TRUE} ELSE {})
  IN  [r \in kept \cup {ref} |->
         IF r = ref THEN [rate |-> rate, lastSeen |-> domains[worker.odid].lastSeen] ELSE declared[r]]
Declared(ref, rate) ==
  IF ref \notin DOMAIN declared /\ Cardinality(DOMAIN declared) >= MaxSamplers THEN declared
  ELSE [r \in DOMAIN declared \cup {ref} |->
         IF r = ref THEN [rate |-> rate, lastSeen |-> domains[worker.odid].lastSeen] ELSE declared[r]]

\* declare and declareScoped, under the table lock.
Declare(ref, rate) ==
  /\ TableUnlocked
  /\ declared' = Declared(ref, rate)
  /\ hasScoped' = (hasScoped \/ (IsScoped(ref) /\ ref \in DOMAIN declared'))
  /\ inherited' = SoleRate(declared')
  /\ sampled' = (sampled \/ ref \in DOMAIN declared')
  /\ declaredZero' =
       (declaredZero \/ (ref \in DOMAIN declared' /\ ref.kind = "named" /\ ref.value = Unsampled))

\* An options record that names a sampler or a scope.
Commit(ref, rate) ==
  /\ worker.pc = "ready"
  /\ ref.kind # "plain"
  /\ ref.kind = "domain" => ref.value # worker.odid
  /\ ref.kind # "domain" => ref.odid = worker.odid
  /\ Declare(ref, rate)
  /\ UNCHANGED <<domains, worker, sweeper, now>>
  /\ Watch

\* One that names none: the domain's own rate first, then the table.
CommitPlain(rate) ==
  /\ worker.pc = "ready"
  /\ worker' = [worker EXCEPT !.pc = "declare", !.rate = rate]
  /\ domains' = [domains EXCEPT ![worker.odid].rate = rate]
  /\ UNCHANGED <<table, sweeper, now>>
  /\ Watch

DeclarePlain ==
  /\ worker.pc = "declare"
  /\ Declare(Plain(worker.odid), worker.rate)
  /\ worker' = [worker EXCEPT !.pc = "ready", !.rate = 0]
  /\ UNCHANGED <<domains, sweeper, now>>
  /\ Watch

-----------------------------------------------------------------------------
\* A data record is read: rateInForce of fields.go.
Record(rec) ==
  /\ worker.pc = "ready"
  /\ worker' = [worker EXCEPT !.pc = IF rec.by = "nothing" THEN "template" ELSE "named",
                              !.rec = rec]
  /\ sampled' = (sampled \/ rec.by = "selector" \/ (rec.by = "sampler" /\ rec.id # Unsampled))
  /\ UNCHANGED <<declared, hasScoped, inherited, declaredZero, domains, sweeper, now>>
  /\ Watch

\* declaredRate: what the record's own domain declared for the identifier, or,
\* where it is a samplerId, all that declared it.  Mutant: a selectorId reaches
\* the other domains too.
AlikeAnywhere ==
  LET own == Named(worker.odid, worker.rec.id)
  IN  IF own \in DOMAIN declared THEN {own}
      ELSE {ref \in DOMAIN declared : ref.kind = "named" /\ ref.value = worker.rec.id}
Alike ==
  LET own == Named(worker.odid, worker.rec.id)
  IN  IF own \in DOMAIN declared THEN {own}
      ELSE {ref \in DOMAIN declared :
              worker.rec.by = "sampler" /\ ref.kind = "named" /\ ref.value = worker.rec.id}

\* scopedRate: what the step looks up, without the lock if nothing is scoped.
Sought ==
  CASE worker.pc = "template" -> {Scoped("template", worker.odid, worker.rec.template)}
    [] worker.pc = "interface" -> {Scoped("interface", worker.odid, worker.rec.interface)}
    [] worker.pc = "domain" -> {Scoped("domain", None, worker.odid)}
    [] OTHER -> {}
NeedsLock == worker.pc = "named" \/ (Sought # {} /\ hasScoped)

\* The correction this step of the read ends it with, if it does.
Rate(rate) == [rate |-> rate, owed |-> rate = 0]
Found ==
  CASE worker.pc = "named" /\ Alike # {} -> {Rate(Agreed(RatesOf(Alike)))}
    [] worker.pc = "named" /\ Alike = {} /\ worker.rec.by = "sampler" /\ worker.rec.id = Unsampled ->
         {[rate |-> 0, owed |-> declaredZero]}
    [] worker.pc = "own" /\ domains[worker.odid].rate # 0 -> {Rate(domains[worker.odid].rate)}
    [] worker.pc = "inherited" -> {Rate(inherited)}
    [] Sought # {} -> {Rate(declared[ref].rate) : ref \in Sought \cap DOMAIN declared}
    [] OTHER -> {}

\* Else where it goes on.  The last three reads have no lock between them.
LookNext ==
  CASE worker.pc = "template" /\ worker.rec.interface # None -> "interface"
    [] worker.pc = "own" -> "domain"
    [] worker.pc = "domain" -> "inherited"
    [] OTHER -> "own"

Look ==
  /\ worker.pc \in Reading
  /\ NeedsLock => TableUnlocked
  /\ worker' = IF Found # {} THEN [worker EXCEPT !.pc = "ready", !.rec = None]
                            ELSE [worker EXCEPT !.pc = LookNext]
  /\ UNCHANGED <<table, domains, sweeper, now>>
  /\ Watch

-----------------------------------------------------------------------------
\* SweepDomains reads its cutoff, takes the store lock for the rest of the sweep
\* and evicts the idle domains.
SweepTick ==
  /\ sweeper.pc = "idle"
  /\ sweeper' = [sweeper EXCEPT !.pc = "expire", !.cutoff = now - TTL]
  /\ domains' = Restrict(domains, {o \in DOMAIN domains : domains[o].lastSeen >= now - TTL})
  /\ UNCHANGED <<table, worker, now>>
  /\ Watch

Silent == {ref \in DOMAIN declared : declared[ref].lastSeen < sweeper.cutoff}
Kept(refs) == Restrict(declared, DOMAIN declared \ refs)

\* expire takes the table lock, drops the scoped declarations and says whether
\* any is left, drops the others and says what those left agree on.
ExpireScoped ==
  /\ sweeper.pc = "expire"
  /\ sweeper' = [sweeper EXCEPT !.pc = "inherit"]
  /\ declared' = Kept({ref \in Silent : IsScoped(ref)})
  /\ hasScoped' = \E ref \in DOMAIN declared' : IsScoped(ref)
  /\ UNCHANGED <<inherited, sampled, declaredZero, domains, worker, now>>
  /\ Watch

\* Mutant: inherited is left as it was.
ExpireUninherited ==
  /\ sweeper.pc = "inherit"
  /\ sweeper' = [sweeper EXCEPT !.pc = "restate", !.cutoff = -TTL, !.todo = DOMAIN domains]
  /\ declared' = Kept(Silent)
  /\ UNCHANGED <<inherited, hasScoped, sampled, declaredZero, domains, worker, now>>
  /\ Watch
Expire ==
  /\ sweeper.pc = "inherit"
  /\ sweeper' = [sweeper EXCEPT !.pc = "restate", !.cutoff = -TTL, !.todo = DOMAIN domains]
  /\ declared' = Kept(Silent)
  /\ inherited' = SoleRate(declared')
  /\ UNCHANGED <<hasScoped, sampled, declaredZero, domains, worker, now>>
  /\ Watch

\* Each domain that is left is restated what it declared: read, then stored.
PlainRate(o) == IF Plain(o) \in DOMAIN declared THEN declared[Plain(o)].rate ELSE 0
Restate(o) ==
  /\ sweeper.pc = "restate"
  /\ o \in sweeper.todo
  /\ sweeper' = [sweeper EXCEPT !.pc = "store", !.todo = @ \ {o}, !.odid = o, !.rate = PlainRate(o)]
  /\ UNCHANGED <<table, domains, worker, now>>
  /\ Watch
Store ==
  /\ sweeper.pc = "store"
  /\ sweeper' = [sweeper EXCEPT !.pc = "restate", !.odid = None, !.rate = 0]
  /\ domains' = [domains EXCEPT ![sweeper.odid].rate = sweeper.rate]
  /\ UNCHANGED <<table, worker, now>>
  /\ Watch

\* A table no domain is left to share is freed, and the next domain starts one.
SweepEnd ==
  /\ sweeper.pc = "restate"
  /\ sweeper.todo = {}
  /\ sweeper' = [sweeper EXCEPT !.pc = "rest"]
  /\ declared' = Restrict(declared, IF DOMAIN domains = {} THEN {} ELSE DOMAIN declared)
  /\ hasScoped' = (hasScoped /\ DOMAIN domains # {})
  /\ inherited' = IF DOMAIN domains = {} THEN 0 ELSE inherited
  /\ sampled' = (sampled /\ DOMAIN domains # {})
  /\ declaredZero' = (declaredZero /\ DOMAIN domains # {})
  /\ UNCHANGED <<domains, worker, now>>
  /\ Watch

\* Sweeps are a quarter of the TTL apart, and no record is read for as long.
SweepDue ==
  /\ sweeper.pc = "rest"
  /\ worker.pc \notin Reading
  /\ sweeper' = [sweeper EXCEPT !.pc = "idle"]
  /\ UNCHANGED <<table, domains, worker, now>>
  /\ Watch

-----------------------------------------------------------------------------
Next ==
  \/ Tick
  \/ \E o \in Domains : Receive(o) \/ Restate(o)
  \/ \E ref \in Refs, rate \in Rates : Commit(ref, rate)
  \/ \E rate \in Rates : CommitPlain(rate)
  \/ DeclarePlain
  \/ \E rec \in Arriving : Record(rec)
  \/ Look
  \/ EndDatagram
  \/ SweepTick \/ ExpireScoped \/ Expire \/ Store \/ SweepEnd \/ SweepDue

Spec == Init /\ [][Next]_vars

-----------------------------------------------------------------------------
\* Every variable holds a value of its type, and the domain of the datagram
\* being decoded is live.
StateOK ==
  /\ worker.pc # "idle" => worker.odid \in DOMAIN domains
  /\ worker.pc = "declare" => worker.rate # 0
  /\ DOMAIN declared \subseteq Refs
  /\ \A ref \in DOMAIN declared : declared[ref] \in SamplerEntry
  /\ hasScoped \in BOOLEAN /\ sampled \in BOOLEAN /\ declaredZero \in BOOLEAN
  /\ inherited \in Rates \cup {0}
  /\ DOMAIN domains \subseteq Domains
  /\ \A o \in DOMAIN domains : domains[o] \in [rate: Rates \cup {0}, lastSeen: Time]
  /\ worker \in WorkerState
  /\ sweeper \in SweeperState
  /\ now \in Time
TypeOK == StateOK /\ inForce \subseteq Correction

\* What is read without the lock says what the table holds: whether any
\* declaration is scoped, the one rate that all unscoped ones agree on, and
\* that a device that declared anything samples.  The table is in its bound.
CopiesAgree ==
  /\ hasScoped <=> \E ref \in DOMAIN declared : IsScoped(ref)
  /\ LET rates == RatesOf(Unscoped)
     IN  IF inherited = 0 THEN Cardinality(rates) # 1 ELSE rates = {inherited}
  /\ DOMAIN declared # {} => sampled
  /\ (\E o \in Domains : Named(o, Unsampled) \in DOMAIN declared) => declaredZero
  /\ Cardinality(DOMAIN declared) <= MaxSamplers

\* A record is corrected by a rate that held for it at some instant of its read,
\* by the precedence docs/health.md:146 gives, and is counted as owed one just
\* when it was then: several reads without a lock never put together a
\* correction no instant had, nor lend a rate declared of something else.
CorrectedByPrecedence ==
  worker.pc \in Reading /\ (NeedsLock => TableUnlocked) => Found \subseteq inForce

\* A declaration leaves only by falling silent past the TTL: a table at its
\* bound refuses a new one rather than drop one records still name.
OnlySilentLeave ==
  [][ \A ref \in DOMAIN declared \ DOMAIN declared' : declared[ref].lastSeen < now - TTL ]_vars
=============================================================================
