# Verification of xflow-exporter

TLA+ models of the parts of xflow-exporter whose correctness depends on what several
goroutines do at once, TLC runs over small instances of them, and TLAPS proofs for every
instance. Paths below are relative to `src/internal/`.

    tlc -workers 2 -config AggTable.cfg MCAggTable     # check one run
    tlapm AggTableProofs.tla                           # check the proofs

## The system

UDP datagrams (NetFlow v5/v8/v9, IPFIX, sFlow v5) come in, Prometheus series go out.

    sockets -> read loops -> queue -> dispatcher -> shard per worker -> decode worker
                                                                          |  decode   (template store, exporter stats)
                                                                          |  release  (buffer pool)
                                                                          |  enrich   (databases, lists, mappings)
                                                                          |  ingest   (aggregation tables)
                                                                          |  observe  (histograms)
    tickers -> sweep of tables; sweep of domains, templates, sampler tables, devices
    scrape  -> snapshot of every table and counter
    signals -> reload of the enrichment sources, shutdown

| component | state | operations | hard because |
|---|---|---|---|
| aggregation table (`aggregator/table.go`) | key to entry map, overflow bucket, counters, `nextBorn`, one RWMutex | `add`, `insert`, `sweep`, `snapshot` | atomics under a read lock beside adds, a sweep and a scrape; a bound checked after a lookup made under another lock |
| aggregator (`aggregator/aggregator.go`) | one table per enabled module | `Ingest`, `ingestOne`, `Run`, `sweep` | one clock reading per batch, one cutoff for all tables |
| template store (`decoder/templates.go`) | domains, budget per device, sampler table per device and protocol, templates with their age | `domain`, `add`, `withdraw`, `lookup`, `declareSampler`, `sweepDomains` | pointers used after the lock that found them is released; one budget under many domain locks |
| sampler table (same file) | named, plain and scoped rates, latches | `declare`, `declareScoped`, `expire`, rate lookup | precedence of five scopes, a bound, expiry against declarations |
| sequence tracking (same file) | last sequence number per session, engine and sampler | `trackSequence` and its siblings | subtraction modulo 2^32: a gap, a late packet or a restart |
| protocol decoders (`netflow5/8/9.go`, `ipfix.go`, `sflow5.go`, `options.go`) | none of their own | `Decode` and the walk over sets | rollback of records but not of side effects on error |
| exporter statistics (`decoder/stats.go`) | device to counters, `live` mirror, refusals | `exporter`, `admitted`, `sweepIdle` | a mirror read without the lock; resolution used after it |
| distributions (`collector/distributions.go`) | histogram children per device | `Observe`, `Forget` | bounded only by the statistics' budget |
| application tables, string interner (`decoder/apps.go`) | announced names per device | announce, resolve, sweep | stamp after unlock, bound |
| receiver (`receiver/`), pool (`pool/`) | sockets, queue, buffers | `Serve`, `readLoop`, `enqueue`, `Release` | ownership of buffers, drop instead of block, closing order |
| lifecycle (`server/lifecycle.go`) | shards, contexts, done channels | `StartAndServe`, `shardPackets`, `decodeLoop`, `Run` | order within a device, draining at shutdown |
| enrichment (`enrich/`) | readers and sets swapped on reload | `Enrich`, `Reload`, `Close` | reload and close against lookups in flight; partial failure |
| flow collector (`collector/flows.go`) | none | Top-K cut per table | quickselect, ties, minimum bytes |
| remote write (`remotewrite/`) | counters, last success | one push per tick | failures of gather and of write |
| HTTP (`server/server.go`, `entries.go`) | requests in flight | scrape, `/entries`, reload | admission |
| configuration (`config/`, `cli/`) | none after start | parsing, validation | nothing over time |

What makes each of them correct:

* **table**: a record is counted once and in one place; the bound holds; a withheld family is
  withheld for a reason and a published one is complete; a series only grows, or restarts as a
  new entry; an idle entry leaves and a fed one stays; every add returns.
* **template store**: budgets follow the live domains and the templates they hold exactly;
  data are decoded by the layout announced last or not at all; the domains of a device and a
  protocol share one sampler table, the one a scrape reads; idle state is freed.
* **sampler table**: a record takes its own sampler's rate or its device's, never another's.
* **sequence tracking**: a packet lost is counted missing once, a late one or a restart never;
  a position left behind by a restart is taken up again.
* **decoders**: a message returns the records it carries or none; a template held is the one
  announced last, whatever was rejected in between.
* **pipeline**: a datagram's buffer is nobody else's until it is decoded; a device's datagrams
  are decoded by one worker, in order, once; a shutdown drains each stage and ends.
* **exporter statistics**: the budget holds and so do the series it bounds; a datagram counted
  stays with its device for as long as that is held, and is refused otherwise, never both; a
  device leaves only when silent, and only at the budget.
* **enrichment**: no lookup reads a closed database; a failed reload keeps what was held, and no
  reload goes back to an older file.
* **collector**: the cut is the K largest whatever order the map gives; what a scrape names is
  what it published, from one version of the mapping.
* **remote write**: the counters tell a push that was acknowledged from every other.
* **HTTP**: one listing at a time, and never none for good.

The places where these can go wrong are the `hazards` of `PROJECT.json`, each at its line.

## Modules

| module | models | kind |
|---|---|---|
| `Tally` | what a table promises of its records, without locks, clock or scrapes | abstract |
| `AggTable` | `aggregator/table.go` and the callers in `aggregator.go` | detailed |
| `AggTableProofs` | what holds in every state of `AggTable`, what its steps keep, and that it implements `Tally` | proofs |
| `TemplateStore` | the store, its budgets and the lifetime of sampler tables | detailed |
| `TemplateStoreProofs` | `TemplateStore`, with devices spread over workers and with one worker per device | proofs |
| `SamplerTable` | the rates one device declares on one protocol, and the one a record takes | detailed |
| `SamplerTableProofs` | theorems about `SamplerTable` | proofs |
| `Streams` | what the ingest path promises each device and listener | abstract |
| `Pipeline` | `receiver/`, `pool/`, the goroutines of `StartAndServe`, one enrichment database | detailed |
| `PipelineProofs` | theorems about `Pipeline` | proofs |
| `PipelineStreams` | that `Pipeline` implements `Streams` | proofs |
| `Exporters` | the fleet budget, its counters, the histograms bounded by it, the sweep of both | detailed |
| `ExportersProofs` | theorems about `Exporters` | proofs |
| `Sequence` | the trackers of packets, records and samples | operators |
| `SequenceProofs` | that tracking modulo `Mod` is tracking the unbounded numbers | proofs |
| `Walk` | the sets of a v9 or IPFIX message, the templates of one domain | operators |
| `Samples` | the samples of an sFlow datagram; extends `Sequence` | operators |
| `Device` | what an exporter may send | environment |
| `Datagrams` | one device, a faulty network and the decoder; extends `Samples` and `Device` | detailed |
| `Records` | what each source fills of a record, and which tables it feeds | operators |
| `Cut` | the Top-K cut and the listing of one table | operators |
| `Scrapes` | enriching, ingesting, reloads, scrapes, pushes and listings at once; extends `Records` and `Cut` | detailed |
| `ScrapesProofs` | theorems about the reloads, the listing and the pushes of `Scrapes` | proofs |
| `MC...` | the instance of each that TLC checks | instances |

A definition marked *Mutant* is a mistake one could make in the definition below it. No
specification uses one; each shows that some property is broken by that mistake.

### AggTable

The variables `table`, `nextBorn`, `idleEvictions` and `capacityFolds` are the fields of
`table`, with the overflow bucket as the entry `Other`. A counter is the *set* of records added
to it, so that losing a record and counting one twice are visible whatever the amounts;
`taken`, `done`, `stampOf`, `carrier` and `evicted` are history. A call of `add` is `Lookup`
(read lock), then `AddCounters`, `Latch` and `Stamp` (the atomics of `entry.add`, still under
that lock) or `WantInsert` and one of `InsertPresent`, `InsertNew`, `InsertRefused`; a refusal
goes on with `Fold` and adds to the overflow bucket with no lock. `WantInsert`/`WantSweep` and
the step that follows are the two halves of `sync.RWMutex.Lock`: a waiting writer bars new
readers. A snapshot walks entry by entry, the counters of each before its latch. The three
atomics of the counters are one step, and bytes and packets, which latch alike, are one family.

### TemplateStore

`domains`, `perExporter` and `samplerTables` are the store's maps; `heap`, `budgets` and
`tables` the objects they point to, kept for as long as the store or a worker can reach them,
so that a worker goes on with a domain the sweep has evicted just as the code does. A datagram
resolves its domain once (`Find`, then `Stamp` after the unlock, or `OpenPresent`,
`OpenRefused`, `OpenNew`), then makes any number of calls, each of which resolves the domain
again: `Add`, `Withdraw`, `Lookup`. `DeclareSampler` writes to the table of the domain the
*datagram* holds. The sweep holds the store lock from `SweepLock` to `SweepTables` and evicts
domain by domain, as templates change under their domain's lock; `Prune` then takes each
surviving domain's lock alone. Fields are told apart (`FieldsOf`), so that a domain's charge and
a device's are cardinalities. `announced` is history: the layout last announced.

### SamplerTable

`declared` is the table's three maps in one, keyed by what a declaration names (`samplerRef`,
`scopedRef` or a plain domain); `hasScoped`, `inherited`, `sampled` and `declaredZero` are its
atomics; a domain holds its `samplingRate`. One worker, as sharding has it, opens a datagram
(`Receive`), commits options records (`Commit`, or `CommitPlain` and `DeclarePlain` for one that
names nothing, whose two stores no lock joins) and reads records: `Record`, then one `Look` per
read that the code makes, locked or not, until one settles the correction. The sweep is
`SweepTick`, `ExpireScoped` and `Expire` (one critical section, split where `hasScoped` and
`inherited` are published apart), then `Restate` and `Store` per domain, `SweepEnd`, and `SweepDue`
when the next one may start.
`inForce` is history: the corrections that `Precedence`, the reference written from
`docs/health.md`, gave at each instant of the read.

### Pipeline

One variable per stage: `socket`, `loop`, `queue`, `dispatcher`, `shard`, `worker`, with
`pool`, `issued` and `content` for the buffers and `reader`, `opened` and `closed` for the
database. Each action is one blocking operation of one goroutine. `sync.Pool` may hand out any
buffer put back or a new one, so both are tried. `main` follows `StartAndServe` from the
signal to `chain.Close`. `Await` is the waits for the receiver and the workers
(`lifecycle.go:208-209`). Those that follow, for the aggregator, the domain sweep and the remote
write (210-212), are left out: the goroutines they wait for end with the context, feed none of the
stages and hold no database.

### Exporters

`exporters`, `live` and `refused` are the fields of `Stats`; `heap` the counters, again kept
while a worker can reach them; `histograms` the children of the two vectors, each the datagrams it
has observed. A datagram goes `Decode`, `Find`, then `Stamp` or `Gate` and one of the `Open`
actions, then `Count`, `Admits` and `Observe`. The sweep is `SweepGate`, `Evict` and a `Forget` per
device evicted. `sent` and `gone` are history: the datagrams handed out, and those that an
eviction took with it, because the device counted them or because a worker had resolved them to
it and had yet to count (`Lost`). With `gone`, `CountedOnce` can say where every datagram is.

### Sequence, Walk, Samples, Device, Datagrams

One device of one protocol, chosen in `Init`, numbers its messages, redefines templates,
restarts, changes its sampling rate and falls silent (`Send`, `Restart`, `Reconfigure`,
`Silence`); the network keeps up to two datagrams in flight, delivers them in any order, loses
(`Lose`) and repeats them (`Arrive` with `again`). `Arrive` is `Decode` of one datagram, in one
step: a device's datagrams are read by one worker, and what the locks leave open between the
store's calls is `TemplateStore`'s. `Sweep` is the domain's part of `SweepDomains`.

`domain` is the `domainState`: its sessions, `missed`, templates (`ts`) and samplers (`ss`), with
their lower bounds on age. The decoder is pure operators over it. `Sequence` holds
`trackSequence`, `trackRecordSequence` and `trackSamplerLocked`, with the sessions; numbers are
modulo `Mod`, as on the wire. `Walk` reads sets: a layout is a list of field widths, a body a
sequence of bytes in base `Base`, so variable lengths, escapes, padding and cut bodies are real
while values are not; `Checked` is the length check IPFIX makes before it decodes, `Withdrawn`
what a failed check leaves, `Walked` the walk of either protocol. `Samples` has the choice of one
record per flow sample. The cache of the last sampler named is left out: it is dropped whenever
the map loses a sampler, so a lookup by it and one by the map agree.

`truth` is history: what was sent, against which the properties measure what was made of it. No
decoder could tell some cases apart, and four flags set those aside: `blurred` (a restart at a
number that reads as late), `misread` (data in a layout whose announcement was lost, which v9
and IPFIX cannot detect), `rewound` (a late message after one that left no position to hold it
against) and `pooled` (a sample late behind a wrap of its pool, or behind a run of others).

### Records, Cut, Scrapes

`Records` has the six sources of the chain (`Enriched`), each from a record to the record it
fills and its outcome; `NameSet` and `Valid`, what a mapping document serves and when it is
refused; and `Feeds`, the tables and keys of a record (`ingestOne`). An address is its bits, so
that a VLAN is found by the longest prefix; the spelling of keys is left out. `Cut` is the
collector's quickselect (`Partitioned`, `Selected`), its order and its cut (`CutOf`), and the
listing that sorts in full (`Report`).

`Scrapes` puts them together with what runs beside them. Files on `disk` have versions, some
unreadable. A reload (`Call`, `Lock`, `ReadFile`, `Store`, `Return`) takes `reloadMu`, then reads
and swaps source by source. A worker takes a record through the chain one source a step, then
into one table a step (`Take`, `Enrich`, `Route`, `Ingest`). The two databases are loaded once a
side and the service ports asked about one by one, so these take two steps and a reload may fall
between (`LookFirst`). A collection (`Begin`, `ReadTable`,
`NameSystems`, `NameDevices`, `NamePorts`, `NameVLANs`) reads the mapping once, then table by
table in any order of the map, then names; it is served, or gathered by the pusher, which
encodes string by string through a symbol table it reuses and sends (`Build`, `Encode`,
`Assemble`, `GatherFails`, `WriteFails`, `Acked`, `CountSamples`, `Stamp`). Encoding touches only
what the pusher owns, so its steps are a convenience of the proof, and series are taken in one
fixed order. A request for `/entries` is refused or takes the one slot, lists table by table and
leaves, when done or when its client goes (`Ask`, `List`, `Leave`).
An add and a snapshot are one step each, as `AggTable` shows they may be taken to be up to the
latch (see the disagreements); sweeps are `AggTable`'s. Packet counts go the way of bytes and
the reload's own counters are left out.

## Runs

| run | instance | shows |
|---|---|---|
| `table` | 2 keys, 3 records (one lacks the count), 2 workers, room for 1 entry, clock 0..1, TTL 0 | the safety of the table and that it implements `Tally` |
| `table_live` | the same with 2 records | adds return, idle entries leave |
| `store` | 1 device, 2 domains, 1 worker, a field budget of 1, templates of 1 or 2 fields, 1 sampler, clock 0..2, TTL 1 | charges are exact, no outdated layout, one shared sampler table |
| `store_live` | 2 devices, 3 domains, 2 workers, room for 1 device with 1 domain | budgets count live domains; idle ones leave, and so do sampler tables no domain shares |
| `store_declares` | 1 domain | violation: declaring into a freed sampler table |
| `samplers` | 2 domains, 2 sampler ids (0 and another), 1 template, 1 interface, 2 rates, room for 2 declarations, clock 0..2, TTL 1 | a record takes a rate that was in force for it; the copies agree with the table; only the silent expire |
| `pipeline` | 2 devices, 2 workers, 3 datagrams, batches of 2, queue and shards of 1, 2 database readers | buffers, order, draining, shutdown |
| `exporters` | 3 devices, 2 workers, 4 datagrams (2 of the device either worker may handle), a budget of 2, clock 0..2, TTL 1 | the budget, its mirror, its series, eviction |
| `exporters_forget` | 3 addresses, 2 datagrams of one | violation: forgetting what a readmitted device counts |
| `datagrams` | each protocol in turn, numbers modulo 64 from just below the wrap, 3 to 5 datagrams, 2 in flight, 1 or 2 faults, room for 1 session, 1 sampler, 2 templates and 4 fields | what is counted missing, the templates held, the records returned, the pool |
| `datagrams_restart` | sFlow, 2 samplers, late runs of 1 | violation: a sampler held behind by another's samples |
| `scrapes` | 7 scenes of up to 5 inputs, and every table of 4 or 5 hosts with 0, 1 or 2 bytes each, 2 or 3 versions of 5 files, K of 2, counters modulo 16 | cuts, names, reloads, pushes, listings |

**Bounds.** Every conflict modelled is between two of a kind: two workers on one entry, two
domains on one budget, two datagrams of one device, two devices for one slot. Bounds of one
make the refusals and the full queues happen; one more record, datagram or key than fits makes
the overflow happen. The clock needs to outlive one TTL, so that state may be fresh, on the
edge and idle, and be fed again after. `MaxTime`, `Ids` and `Buffers` bound only the model: the
assumptions ask for objects enough for all that can be reachable at once, as Go's heap has, and
there are buffers enough for every datagram and one full batch of slots. Two bounds
leave something out: no datagram of the `pipeline` instance is truncated (the step is the one a
full queue takes), and in `table` a record is added at most once.

In `samplers` a clock of three instants and a TTL of one let a declaration be fresh, on the edge
and silent, and a sweep meet a datagram decoded at the edge. Two places in the table make
declarations compete: with two domains, every pair of kinds of declaration meets there. Rates are
only told apart, so they and the domains are interchangeable. What was seen within a TTL of the
clock's last instant is never silent, so its exact age is left out of the states (`MCView`). Of the records, the selector numbered 0 and
the record of no interface are left out (`MCArriving`): each takes part of the way of another.

In `datagrams` the windows keep their order (a restart is a step of `ForwardWindow` or more, a
late one of `ReorderWindow` or less back) in a ring of 64 that every run crosses, as numbers start
two short of it. `MaxLateRun` is 3 and v5 sends 5 datagrams: the fewest with which a restart is
held behind for a whole run and taken up again. Two layouts beside the first, one of variable
length, and two template ids overflow the budget of 4 fields and share it. A v8 device numbers
three streams apart and meets the bound of one session; an sFlow device has two samplers and
room for one. `Silence` lasts a TTL or one more, so an age is on the edge or past it.

In `scrapes` a scene names what a run starts from and how often each input may come (`left`), so
that each question meets the actors it is about and not all at once: reloads that overlap,
ingest and a reload during a scrape, all eleven tables, three pushes, a push beside a scrape,
three listings. The tables a scene starts with hold every combination of 0, 1 and 2 bytes, so
every tie and every place of the cut, in every order; hosts just short of the wrap make the
listing's withheld sum pass it.

`store` takes states for one that differ only in what the sampler tables hold, which guides no
action outside the tables, or in whether `announced` is nothing or a template too large to be
held (`MCView`). Its symmetry swaps the two domains.

**Assumed of time.** In `TemplateStore`, `SamplerTable` and `Exporters`, the clock does not move
a whole TTL while one datagram is handled (`Tick`). Handling one takes microseconds and the TTL is minutes;
without the assumption a worker could be suspended for a TTL between any two statements. For the
same reason no record is read across two sweeps of its sampler table (`SweepDue`): they are a
quarter of the TTL apart (`server/lifecycle.go:297`). A record that met two could take the latch
it read before the first and the map the second left, and a rate that no instant gave.

**Sharding.** `AggTable`, `TemplateStore` and `Exporters` let workers share devices where the
locks should bear it, and the properties that need one worker per device say so (`OneCarrier`,
`Feeds`, `Sharded`); that there is one is `OneWorkerPerDevice` of `Pipeline`.

**Fairness.** Weak fairness of each goroutine that has begun something, and of the tickers: Go
schedules every runnable goroutine and a ticker never stops. None is assumed of arrivals, of
reloads or of the shutdown signal. Strong fairness appears twice: where a goroutine waits for
the table's `RWMutex`, whose implementation wakes the readers that wait at each unlock and does
not starve a waiting writer; and at the end of a datagram, which has finitely many sets, so a
worker between two of them is not there for ever. A clock that is bounded stops, so liveness is
claimed of what becomes idle before it does. `Datagrams` and
`Scrapes` state safety only, and assume none: a datagram may be lost and a client may go.

**Disagreements with the text of the code.** Three are runs, in `findings` with the comments
they contradict:

* `store_declares`: a sweep between `domain`'s unlock and its stamp lets a datagram declare its
  sampler where no scrape reads. The next announcement repairs it.
* `exporters_forget`: `Forget` runs after the lock of the eviction is gone, and takes a device by its
  address. One whose next datagram is admitted, counted and observed in between loses the histogram
  of that datagram too, which its new counters have. What it had observed in its evicted life must
  go, and the property lets it.
* `datagrams_restart`: samplers share one run of late samples, and each sample that is taken
  ends it, whoever's it is; after a restart one sampler's samples keep another held behind.

Others have no run, because a property stands beside them that says what does hold:

* A scrape loads an entry's counters and then its latch (`table.go:69-76`), an add steps the counters
  and then latches (`table.go:56-64`). A scrape that falls between publishes a partial sum as
  measured, which `Totals` says is withheld (`table.go:15`). `LatchExact` confines it to records
  whose add has not returned, and the next scrape withholds it.
* The sweep reads the rate to restate and stores it later (`templates.go:784`); a worker's newer
  rate can be overwritten in between until the next announcement or sweep, where
  `options.go:164-165` stores the two together. `CorrectedByPrecedence` allows the rate of any
  instant of the read.
* `flow.Corrected` saturates "because a counter handed a reading below the one before it reads as
  a reset" (`flow.go:218`), but the counter it is added to wraps at 2^64 (`table.go:56`).
  `Scrapes.Added` wraps likewise, and so does the sum a listing withholds (`collector/entries.go:140`,
  `Cut.Report`); `CutExact` speaks of both as they are after the wrap.
* An IPFIX message whose count is unknown leaves no position, so a late one that follows is taken
  for a base and the next counts what was received as missing (`truth.rewound`); an sFlow sample
  late behind a wrap of its pool is taken for a restart (`truth.pooled`). Nothing claims
  otherwise.

## Proofs

Each theorem holds for every value of the constants that satisfies the module's named
assumption: every set of devices, domains, records, keys and workers, every bound and every TTL.
The assumptions say that workers and live domains are finite in number and that the heap has room
for what can be reached at once (so that an action that allocates finds a free object), and that a
datagram arrives at one socket; the others only give the constants their types, and each file a
reload reads its versions. Each proof has
one inductive invariant, a conjunction of named parts, with one lemma per action or group of
actions that keeps each part.

### AggTable (`AggTableProofs`)

* `TypeCorrect`: the types. Inductive as they stand.
* `CountedOnceHolds`: a record whose add returned is counted once. `CountedOnce` is not
  inductive, as it says nothing of a record being added. `HandsOK` adds it: what a worker has
  in hand is counted nowhere until its counters step and in the entry it points at from then
  on; that entry is in the map; no two workers hold the same record. The step that needs it is
  `Sweep`: a worker that points at an entry is inside the read lock, which the write lock
  excludes (`SweepKeepsHands`). Steps of `add` fall into three lemmas: those that move
  (`MoveKeepsHands`), those that count (`CountKeepsHands`) and those after
  (`RelatchKeepsHands`). The two together are `CountInv`.
* `EntryBoundHolds`: the bound. Only `InsertNew` adds a key, and it checks the bound in the
  step it adds in.
* `LatchExactHolds`: the latch, on top of `CountInv`: the record that sets a latch is already in
  the entry.
* `FoldsExplainOverflowHolds`: the fold counter is stepped before the bucket and without a lock,
  so `FoldInv` counts the bucket's records and those of workers on their way to it together
  (`Overflowed`): never more than the counter.
* `TableCountsAsTally`: `AggTable` implements `Tally`. `AddCounters` maps to a count, `Sweep` to an
  eviction, all else to a stutter.
* `EvictsOnlyIdleHolds`: `IdleInv` adds to `CountInv` that the stamps of a worker only grow
  (`Carried`), and that an entry one worker fed was last seen no earlier than any record in it,
  but for the one that worker is about to stamp (`LastSeen`). That one is inside the read lock.
* `SnapshotCompleteHolds`, `ScrapesMonotoneHolds`: `ScrapeInv` follows a snapshot place by place:
  what has been read is what the table held or less than it holds now (`ScanRead`), each record
  owed has been read or its place is still to come (`ScanOwes`), and table and reading both
  follow what was last published (`PublishedInv`). Lock modes make the map stand still meanwhile.

### Exporters (`ExportersProofs`)

`BudgetHeldHolds`, `CountedOnceHolds` and `EvictsOnlySilentHolds`, from eight parts. `HeapOK`:
counters on the heap are a device's or a worker's, two devices never share, and what a worker
resolved is its own device's or nobody's any more. `BudgetOK`: the mirror equals the size of the
map, and a sweep past its check of the mirror still finds the budget full, since only it evicts.
`LedgerOK`: a datagram in hand is counted nowhere, and is gone just when what it resolved to is no
device's any more. `SettledOK`: one that no worker has in hand before its count is refused, gone or
in its device's counters. `CountedOnce` alone is not inductive, for whether a count is kept is
decided at the eviction that came before it; the step that needs both is `Count`
(`CountSettles`): what a worker points at is its device's still, or an eviction has put the datagram
among the gone. `Evict` moves what a device has counted there in the same step (`LostFacts`).
`ShardOK` carries the claims about a device that one worker handles: once stamped, it is not silent
before the datagram ends (`ClockOK`, from the assumption on time), so no sweep evicts it under the
datagram (`StampedNotSilent`) and none forgets it in between.

### Pipeline (`PipelineProofs`, `PipelineStreams`)

`BufferIntactHolds`, `OneWorkerPerDeviceHolds`, `NothingClosedIsUsedHolds` and `DrainedAtExitHolds`.
`BuffersOK` says that a *placement* exists, a function from buffers to the stage, the owner and the
position each is at. One function cannot put a buffer in two places, so that every question of
sharing becomes one of moving a buffer, and no pairwise comparison of queues is left.
`StagesOK` is the closing order (a stage is done only when those before it are and what it reads
is empty), `RoutedOK` the shard of every packet in a queue, `AccountedOK` that what was read is
consumed, dropped or somewhere between.

`DeliversInOrderHolds`: the path implements `Streams`, one first-in-first-out line per exporter and
listener that may lose but not repeat or reorder. `LineIs` takes what a stream has on the way apart
stage by stage, with its worker, in its shard, with the dispatcher, in the queue, in the batch and
in the socket (`Queued`), and there is a lemma per action on that concatenation: a stage that hands
its head to the end of the next leaves the line as it was (`PathMoves`), a decode takes its head
(`PathDecodes`), a full queue takes a datagram out of the middle (`PathDrops`). Three facts tie the
stages to the streams: the worker that decodes is the one the exporter hashes to (`RoutedOK`),
what a listener has not enqueued arrived at its socket (`OriginOK`), and a datagram is of one stream
(`OneStream`). That the datagrams of a stream among two sequences in a row are those of the first
and then those of the second (`PickedConcat`) is an induction over data. The induction theorems
of the library cannot be cited, so it goes over the set of lengths it holds for: that set has 0
and successors, and what is left of the naturals has no least member (`LeastNat`, `Climb`, from
`WFMin`).

### SamplerTable (`SamplerTableProofs`)

`CopiesAgreeHolds` and `OnlySilentLeaveHolds`. The copies are published in two passes, and a scoped
declaration that fell silent between them would be removed by the second without `hasScoped` being
restated: `TableOK` has that none does, as one critical section uses one cutoff. That a sampler
table freed with its last domain takes no fresh declaration along needs a relation between the
ages of declarations and domains (`ClockOK`): a declaration is silent, or some live domain was seen
since.

`CorrectedByPrecedenceHolds`, from `ReadOK`: at each of the reads a record makes, what is more
specific than the place read next is not declared (`ReadAt`), and what the reads to come would
find was in force at an instant of this read (`Promised`). What was looked for and not there stays
absent, as only the worker declares; so a sweep can change the answer only by taking away what the
read has yet to come to. The two reads after the domain's own rate are the hard ones: that rate was
0 when it was loaded, and a sweep may restate it before the map and the inherited rate are read. The
promise is then an earlier instant's, which the sweep cannot withdraw, since it expires before
it restates and no second sweep begins during a read (`Unrated`).

### Scrapes (`ScrapesProofs`)

`OneListingHolds`, `ReloadsMoveForwardHolds` and `TellsPushesApartHolds`, whatever the files, records and tables are. `ListInv` is
that the slot is taken just while one listing is written. `ReloadInv` says that nothing held is newer
than the disk (`HeldIs`) and follows a reload through the chain (`Underway`): a source it is past
failed and is as before, or is as new as the disk was at the call; one still to come is as before;
what is built of the one at hand is no older than what it replaces. The lock is needed where a
reload steps: no other is then between its reading and its store (`OthersStill`).

`PushInv` counts a push begun once: with the reader or the writer while it is on its way, then as
sent or failed (`CountersAre`). That none ends uncounted needs something to send: a collection
always has the rows of the other collectors (`ReaderIs`), of which `ScrapesAssumption` names one,
as `xflow_build_info` is registered always (`collector/collector.go:51`). A symbol once interned
stays where its index says (`IndexIs`), so the references taken of a series read back as its
labels until the next reset (`RequestIs`), whatever an earlier request left in the table.

### Sequence (`SequenceProofs`)

The runs of `Datagrams` take a ring of 64 through one wrap. For any `Mod` and windows that
`SequenceAssumption` allows, and any number of wraps, it is proved what one message does. A position p and a message's
number q are unbounded integers, of which the session and the wire hold the remainders. Within the
windows (`InWindows`: q is at most `ReorderWindow` behind p and less than `ForwardWindow` ahead) the
step between the remainders tells how far q is from p (`StepAhead`, `StepBehind`), and the trackers
do what counting the integers would: `PacketsAsUnbounded`, `RecordsAsUnbounded` and
`SamplesAsUnbounded` say what each adds and where it leaves the position. One comparison in the code
is not on the ring: whether a late sample's pool is no larger than the last is asked of the
numbers as held (`templates.go:1046`). The third theorem says what follows, that a late sample behind a
wrap of the pool becomes the sampler's base; even then nothing is added to the pool.

### TemplateStore (`TemplateStoreProofs`)

`BudgetsFollowDomainsHolds` and `TableSharedHolds` hold however devices are spread over workers. `HeapOK`
says which objects exist (what an index or a worker points at, and what these point at) and that a
domain's field count is that of its templates; `IndexOK` that no two keys share one; `SweepOK` and
`ClockOK` bound the cutoff and the age of a datagram.

`FieldsChargedHolds` and `DecodesByLastLayoutHolds` are false when two workers share a device (a
worker may go on charging a domain that was evicted under it), so they assume `Sharded`, that no
device is fed to two workers: what `OneWorkerPerDeviceHolds` proves of the pipeline. Under it `HandledOK`
shows that a resolved domain stays live until its datagram ends, `ChargedOK` that a device's charge
is the number of fields of the templates its live domains hold, and `LayoutOK` that what a domain
holds is what was last announced, but for the template a call under way is about to replace.

### Only model-checked

* Liveness (`AddReturns`, `IdleEntriesLeave`, `IdleDomainsLeave`, `StopEnds`, `SilentGiveWay`): fairness
  and `ENABLED` are out of the prover's reach.
* `MissedExact`, `PositionRecovers` and `PoolMeasured` of `Datagrams` hold of runs too short for a
  number to go a whole round of the ring, or for a counter to wrap: their bounds are part of what
  they say, so no theorem for every value of the constants states them. What they rest on, the
  trackers on one message, is proved (`SequenceProofs`).
* `HeldAsAnnounced`, `ReturnsEveryRecord` and `RefusesOnlyWhileFresh` of `Datagrams` are about the
  fold of a datagram's sets and items that `Walk` is: an induction inside an induction for each,
  which has not been done.
* `CutExact` and `NamesWhatItPublishes` of `Scrapes` rest on `ToString` giving two numbers two texts:
  the module `TLC` defines it for the checker only, and nothing can be proved of it.

The three runs that expect a violation show where a claim fails, and nothing is proved of them.
The type invariants of `TemplateStore`, `SamplerTable`, `Pipeline`, `Exporters`, `Datagrams` and
`Scrapes` are in no run: the first four are proved.

## Plan

Done: the modules above, and proofs of the safety of the table, the store, the sampler table, the
pipeline, the exporter statistics, the reloads, the listing and the pushes, and of the trackers on
one message. What is left is the list above: the three properties that are about the fold of
`Walk`, and the two that need `ToString`.

## Not modelled

* Field readers (`fields.go`, `l2l3.go`, `clock.go`): from bytes to a record's members, without state.
* Application tables (`apps.go`): the store's find-then-stamp and the sampler table's bound again,
  with only a name at stake; the string interner saves allocations.
* The collectors that copy counters (`collector/decoder.go`, `receiver.go`, `enrichment.go`,
  `remotewrite.go`): `Scrapes` takes their rows as given.
* Flag parsing and validation (`config/`, `cli/`), the log limiter (`notes.go`), descriptors and
  label spelling, the remote write client's headers and authentication, HTTP routing and
  timeouts, startup failures: nothing else relies on a state they keep.
