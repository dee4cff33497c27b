------------------------------- MODULE Scrapes ------------------------------
(* Everything past the decoder that runs at once: a worker enriching and    *)
(* ingesting records (enrich/, aggregator/aggregator.go), the reloads of    *)
(* the enrichment sources an HTTP request and SIGHUP start (enrich.go), the *)
(* two readers of the registry, a scrape and the remote write pusher        *)
(* (collector/flows.go, remotewrite/), and the clients of the entry listing *)
(* (server/entries.go, collector/entries.go).                               *)
(* A table is its adds and its snapshots, each one step here: AggTable has  *)
(* the locks and the sweeps that make them so.  What a scene leaves to      *)
(* happen bounds every run: left[x] counts the x still to come.             *)
EXTENDS Records, Cut

CONSTANTS
  Scenes,    \* what a run starts from: [left, enabled, entries]
  Arrivals,  \* the records the decoder may hand on
  Callers,   \* who may ask for a reload: the HTTP handler and SIGHUP
  Clients,   \* the requests for a listing that may overlap
  Others,    \* the rows of the other collectors
  MaxEntries

VARIABLES
  left,      \* bound: how often each input may still happen
  enabled,   \* the tables the configuration keeps
  disk,      \* file -> the version on disk
  held,      \* source -> the versions of its files it serves
  calls,     \* caller -> its reload
  reloadMu,  \* who holds Chain.reloadMu
  worker,    \* the record on its way; first: what was held at the first of two lookups
  lookups,   \* source -> result -> how many records
  names,     \* ASN.names: number -> organization
  tables,    \* table -> its entries and its fold
  readers,   \* the two collections of the registry
  writer,    \* the remote write pusher
  pushed,    \* the pushes begun, which is the pusher's clock, and, as history, how they ended
  inFlight,  \* the listing slot: how many hold it
  listings   \* client -> its listing

vars == <<left, enabled, disk, held, calls, reloadMu, worker, lookups, names,
          tables, readers, writer, pushed, inFlight, listings>>

Nobody == "nobody"
Empty  == <<>>
Order  == <<"exporters", "hosts", "services", "destinations", "tcp_flags", "dscp",
            "asns", "applications", "countries", "threats", "vlans">>
\* The order in which a record feeds them.
IngestOrder == <<"exporters", "hosts", "services", "destinations", "tcp_flags", "dscp",
                 "asns", "applications", "countries", "vlans", "threats">>
Kept   == SelectSeq(Order, LAMBDA t : t \in enabled)

\* The sources a reload reaches, in the order of the chain, and their files.
Reloaders == <<"mapping", "asn", "country", "threat">>
Files(source) == IF source = "threat" THEN <<"list1", "list2">> ELSE <<source>>

\* The types that carry a single value.
SampleValued == {"flows", "bytes", "gauge", "counter", "info"}

\* Each file a reload reads has contents, a caller is somebody, and the other
\* collectors have a series to push: build_info is registered always.
ASSUME ScrapesAssumption ==
  /\ {"mapping", "asn", "country", "list1", "list2"} \subseteq DOMAIN Content
  /\ Nobody \notin Callers
  /\ \E row \in Others : row.kind \in SampleValued

Spend(what) == left[what] > 0 /\ left' = [left EXCEPT ![what] = @ - 1]

OneSymbol == [v \in {NoName} |-> 0]
NoCall    == [pc |-> "idle", source |-> 1, built |-> <<>>, failed |-> {}, started |-> Empty, before |-> Empty]
AtRest    == [pc |-> "idle", record |-> Empty, source |-> 1, first |-> Empty, todo |-> <<>>]
NoReading == [pc |-> "idle", at |-> 1, snap |-> 0, knew |-> {}, reads |-> Empty, rows |-> {},
              crossed |-> {}, cut |-> <<>>]
NoListing == [pc |-> "idle", todo |-> <<>>, table |-> Nobody, read |-> {}, report |-> Empty]

Init ==
  /\ \E scene \in Scenes :
       /\ left = scene.left
       /\ enabled = scene.enabled
       /\ tables = [t \in ToSet(Order) |->
            [entries |-> IF t \in DOMAIN scene.entries THEN scene.entries[t] ELSE Empty,
             next |-> IF t \in DOMAIN scene.entries THEN Cardinality(DOMAIN scene.entries[t]) ELSE 0,
             other |-> [bytes |-> 0, flows |-> 0], folds |-> 0]]
  /\ disk = [f \in DOMAIN Content |-> 1]
  /\ held = [s \in ToSet(Reloaders) |-> [i \in DOMAIN Files(s) |-> 1]]
  /\ calls = [c \in Callers |-> NoCall]
  /\ reloadMu = Nobody
  /\ worker = AtRest
  /\ lookups = [s \in ToSet(Chain) |-> [result \in {"filled", "unknown", "skipped"} |-> 0]]
  /\ names = Empty
  /\ readers = [r \in {"scrape", "push"} |-> NoReading]
  /\ writer = [pc |-> "idle", table |-> [symbols |-> <<NoName>>, index |-> OneSymbol],
               todo |-> {}, request |-> <<>>, meant |-> <<>>, received |-> <<>>,
               sends |-> 0, failures |-> 0, samples |-> 0, lastSuccess |-> 0]
  /\ pushed = [n |-> 0, acked |-> 0, failed |-> 0, samples |-> 0, last |-> 0]
  /\ inFlight = 0
  /\ listings = [c \in Clients |-> NoListing]
-----------------------------------------------------------------------------
(* Reloads.                                                                 *)

\* The operator replaces a file.
Replace(file) ==
  /\ Spend("write")
  /\ disk[file] < Len(Content[file])
  /\ disk' = [disk EXCEPT ![file] = @ + 1]
  /\ UNCHANGED <<enabled, held, calls, reloadMu, worker, lookups, names, tables, readers, writer, pushed, inFlight, listings>>

CallStep(c, call) ==
  /\ calls' = [calls EXCEPT ![c] = call]
  /\ UNCHANGED <<enabled, disk, worker, lookups, names, tables, readers, writer, pushed, inFlight, listings>>

Call(c) ==
  /\ calls[c].pc = "idle"
  /\ Spend("reload")
  /\ CallStep(c, [NoCall EXCEPT !.pc = "waiting", !.started = disk])
  /\ UNCHANGED <<held, reloadMu>>

Lock(c) ==
  /\ calls[c].pc = "waiting"
  /\ reloadMu = Nobody
  /\ reloadMu' = c
  /\ CallStep(c, [calls[c] EXCEPT !.pc = "reloading", !.before = held])
  /\ UNCHANGED <<left, held>>

\* The next source, after one that is done with or failed.
NextSource(call) == [call EXCEPT !.source = @ + 1, !.built = <<>>]

\* Mutant: a source that fails ends the reload.
FailedAndDone(call) == [call EXCEPT !.source = Len(Reloaders) + 1, !.failed = @ \cup {Reloaders[call.source]}]

Failed(call) == [NextSource(call) EXCEPT !.failed = @ \cup {Reloaders[call.source]}]

\* One file of the source at hand is read; one that cannot be ends the source.
ReadFile(c) ==
  LET call == calls[c]
      files == Files(Reloaders[call.source])
      file == files[Len(call.built) + 1]
  IN /\ call.pc = "reloading" /\ call.source <= Len(Reloaders)
     /\ Len(call.built) < Len(files)
     /\ CallStep(c, IF Readable(file, disk[file]) THEN [call EXCEPT !.built = Append(@, disk[file])]
                    ELSE Failed(call))
     /\ UNCHANGED <<left, held, reloadMu>>

\* What was built replaces what was held, whole.
Store(c) ==
  LET call == calls[c]
      source == Reloaders[call.source]
  IN /\ call.pc = "reloading" /\ call.source <= Len(Reloaders)
     /\ Len(call.built) = Len(Files(source))
     /\ held' = [held EXCEPT ![source] = call.built]
     /\ CallStep(c, NextSource(call))
     /\ UNCHANGED <<left, reloadMu>>

Return(c) ==
  /\ calls[c].pc = "reloading" /\ calls[c].source > Len(Reloaders)
  /\ reloadMu' = Nobody
  /\ CallStep(c, NoCall)
  /\ UNCHANGED <<left, held>>

Reload(c) == Call(c) \/ Lock(c) \/ ReadFile(c) \/ Store(c) \/ Return(c)
-----------------------------------------------------------------------------
(* A worker's record: each source of the chain in turn, then each table.    *)

WorkerStep == UNCHANGED <<enabled, disk, held, calls, reloadMu, readers, writer, pushed, inFlight, listings>>

\* An aggregate reaches no source.
Take(r) ==
  /\ worker.pc = "idle"
  /\ Spend("record")
  /\ worker' = [AtRest EXCEPT !.pc = IF r.aggregated THEN "routing" ELSE "enriching", !.record = r]
  /\ WorkerStep
  /\ UNCHANGED <<lookups, names, tables>>

\* Two sources load their database once a side, and the tables ask once a port
\* whether it is a service: a reload may fall between the two.
LooksTwice ==
  \/ worker.pc = "enriching" /\ Chain[worker.source] \in {"asn", "country"}
  \/ worker.pc = "routing" /\ ~worker.record.aggregated

\* The first of the two.  The source's side is resolved before the other.
LookFirst ==
  /\ LooksTwice /\ worker.first = Empty
  /\ worker' = [worker EXCEPT !.first = held]
  /\ names' = IF worker.pc = "enriching" /\ Chain[worker.source] = "asn"
              THEN Noted(names, worker.record, "src", ASNs(held)) ELSE names
  /\ WorkerStep
  /\ UNCHANGED <<left, lookups, tables>>

\* What was held at the lookups, early being the side that went first.
HeldAt(early) ==
  [side \in Sides |-> IF LooksTwice /\ side = early THEN worker.first ELSE held]

Enrich ==
  LET source == Chain[worker.source]
      out == Enriched(source, worker.record, HeldAt("src"))
      last == worker.source = Len(Chain)
  IN /\ worker.pc = "enriching" /\ (LooksTwice => worker.first # Empty)
     /\ worker' = [worker EXCEPT !.record = out.record, !.source = IF last THEN 1 ELSE @ + 1,
                                 !.pc = IF last THEN "routing" ELSE @, !.first = Empty]
     /\ lookups' = [lookups EXCEPT ![source][out.result] = @ + 1]
     /\ names' = IF source = "asn" THEN Noted(names, worker.record, "dst", ASNs(held)) ELSE names
     /\ WorkerStep
     /\ UNCHANGED <<left, tables>>

\* Some sequence of a set.
Sequenced(S) == FoldSet(LAMBDA x, s : Append(s, x), <<>>, S)

\* The enabled tables in the order a record feeds them; only the threats come
\* twice, the source's first.
Rank(t) == CHOOSE i \in DOMAIN IngestOrder : IngestOrder[i] = t
Routed(pairs) ==
  SortSeq(Sequenced({p \in pairs : p[1] \in enabled}),
          LAMBDA a, b : Rank(a[1]) < Rank(b[1]) \/ (a[1] = b[1] /\ a[2][3] = "src"))

Route ==
  /\ worker.pc = "routing" /\ (LooksTwice => worker.first # Empty)
  /\ worker' = [worker EXCEPT !.todo = Routed(Feeds(worker.record, HeldAt("dst"))),
                              !.pc = "ingesting", !.first = Empty]
  /\ WorkerStep
  /\ UNCHANGED <<left, lookups, names, tables>>

\* A table after one reading under key: a key past the bound folds.
Added(tb, key, r) ==
  LET plus(e) == [e EXCEPT !.bytes = (@ + Corrected(r)) % Width, !.flows = @ + 1]
      new == [bytes |-> Corrected(r), flows |-> 1, measured |-> r.measured, born |-> tb.next + 1]
  IN CASE key \in DOMAIN tb.entries ->
            [tb EXCEPT !.entries[key] = [plus(@) EXCEPT !.measured = @ /\ r.measured]]
       [] key \notin DOMAIN tb.entries /\ Cardinality(DOMAIN tb.entries) < MaxEntries ->
            [tb EXCEPT !.entries = (key :> new) @@ @, !.next = @ + 1]
       [] OTHER -> [tb EXCEPT !.other = plus(@), !.folds = @ + 1]

Ingest ==
  /\ worker.pc = "ingesting"
  /\ IF worker.todo = <<>> THEN worker' = AtRest /\ UNCHANGED tables
     ELSE /\ tables' = [tables EXCEPT ![worker.todo[1][1]] = Added(@, worker.todo[1][2], worker.record)]
          /\ worker' = [worker EXCEPT !.todo = Tail(@)]
  /\ WorkerStep
  /\ UNCHANGED <<left, lookups, names>>
-----------------------------------------------------------------------------
(* A collection of the registry.                                            *)

Row(family, kind, labels, value) == [family |-> family, kind |-> kind, labels |-> labels, value |-> value]

Spelled(v) == ToString(v)
SpelledAll(key) == [i \in DOMAIN key |-> Spelled(key[i])]
Labels(t, key) == IF t # "countries" THEN SpelledAll(key)
                  ELSE [i \in DOMAIN key |-> IF key[i] = NoName THEN "unknown" ELSE Spelled(key[i])]
Widths == [exporters |-> 2, hosts |-> 5, services |-> 8, destinations |-> 5, tcp_flags |-> 2, dscp |-> 2,
           asns |-> 3, applications |-> 2, countries |-> 3, threats |-> 5, vlans |-> 3]
OtherLabels(t) == [i \in 1..Widths[t] |-> "other"]

\* An incomplete sum is withheld, its flows are not.  The packets go the way
\* of the bytes and are left out.
EntryRows(t, labels, e) ==
  {Row(t, "flows", labels, e.flows)} \cup IF e.measured THEN {Row(t, "bytes", labels, e.bytes)} ELSE {}

Whole(other) == [bytes |-> other.bytes, flows |-> other.flows, measured |-> TRUE]

HealthRows == UNION {{Row("entries", "gauge", <<t>>, Cardinality(DOMAIN tables[t].entries)),
                      Row("overflow", "counter", <<t>>, tables[t].folds)} : t \in enabled}

\* The entries of a table as a snapshot holds them, the map giving no order.
EntriesOf(tb) == {[key |-> k, bytes |-> tb.entries[k].bytes, flows |-> tb.entries[k].flows,
                   measured |-> tb.entries[k].measured, born |-> tb.entries[k].born] : k \in DOMAIN tb.entries}

\* Every sequence of a set.
Orders(S) == {[i \in DOMAIN Sequenced(S) |-> p[Sequenced(S)[i]]] : p \in Permutations(S)}

\* The per-device table is published whole.
PublishedOf(t, s) == IF t = "exporters" THEN s ELSE Published(s)

PortTables == {"hosts", "services", "threats"}
Ports(key) == {<<key[1], n>> : n \in {key[Len(key) - 1], key[Len(key)]} \ {0}}

\* Mutant: each family reads the names in force when it is built.
NamesReread(r) == NameSet(Content.mapping[held.mapping[1]])

\* The names this collection read once, before any table.
NamesRead(r) == NameSet(Content.mapping[readers[r].snap])

ReaderStep(r, reader) ==
  /\ readers' = [readers EXCEPT ![r] = reader]
  /\ UNCHANGED <<enabled, disk, held, calls, reloadMu, worker, lookups, names, tables, inFlight, listings>>

Begin(r) ==
  /\ readers[r].pc = "idle"
  /\ r = "push" => writer.pc = "idle"
  /\ Spend(r)
  /\ ReaderStep(r, [NoReading EXCEPT !.pc = "tables", !.snap = held.mapping[1],
                      !.knew = DOMAIN names, !.rows = Others \cup HealthRows])
  /\ pushed' = [pushed EXCEPT !.n = IF r = "push" THEN @ + 1 ELSE @]
  /\ UNCHANGED writer

ReadTable(r) ==
  LET reader == readers[r]
      t == Kept[reader.at]
  IN /\ reader.pc = "tables" /\ reader.at <= Len(Kept)
     /\ \E s \in Orders(EntriesOf(tables[t])) :
          LET cut == PublishedOf(t, s)
          IN ReaderStep(r, [reader EXCEPT
               !.at = @ + 1,
               !.pc = IF t = "asns" THEN "systems" ELSE @,
               !.reads = [u \in DOMAIN @ \cup {t} |-> IF u = t THEN ToSet(s) ELSE @[u]],
               !.rows = @ \cup EntryRows(t, OtherLabels(t), Whole(tables[t].other))
                          \cup UNION {EntryRows(t, Labels(t, e.key), e) : e \in ToSet(cut)},
               !.crossed = @ \cup IF t \in PortTables THEN UNION {Ports(e.key) : e \in ToSet(cut)} ELSE {},
               !.cut = IF t = "asns" THEN cut ELSE @])
     /\ UNCHANGED <<left, writer, pushed>>

\* The organizations of the pairs just published.
NameSystems(r) ==
  LET reader == readers[r]
      systems == UNION {{e.key[2], e.key[3]} \ {0} : e \in ToSet(reader.cut)}
  IN /\ reader.pc = "systems"
     /\ ReaderStep(r, [reader EXCEPT !.pc = "tables",
          !.rows = @ \cup {Row("asn_info", "info", <<Spelled(as), names[as]>>, 1) : as \in systems \cap DOMAIN names}])
     /\ UNCHANGED <<left, writer, pushed>>

NameDevices(r) ==
  LET set == NamesRead(r)
  IN /\ readers[r].pc = "tables" /\ readers[r].at > Len(Kept)
     /\ ReaderStep(r, [readers[r] EXCEPT !.pc = "ports",
          !.rows = @ \cup {Row("device_info", "info", <<Spelled(d), set.devices[d]>>, 1) : d \in DOMAIN set.devices}])
     /\ UNCHANGED <<left, writer, pushed>>

NamePorts(r) ==
  LET set == NamesRead(r)
      reader == readers[r]
  IN /\ reader.pc = "ports"
     /\ ReaderStep(r, [reader EXCEPT !.pc = "vlans",
          !.rows = @ \cup {Row("interface_info", "info", <<Spelled(p), set.interfaces[p]>>, 1) :
                             p \in reader.crossed \cap DOMAIN set.interfaces}])
     /\ UNCHANGED <<left, writer, pushed>>

NameVLANs(r) ==
  LET set == NamesRead(r)
      named == IF "vlans" \in enabled THEN DOMAIN set.vlanNames ELSE {}
  IN /\ readers[r].pc = "vlans"
     /\ ReaderStep(r, [readers[r] EXCEPT !.pc = "gathered",
          !.rows = @ \cup {Row("vlan_info", "info", <<Spelled(v), set.vlanNames[v]>>, 1) : v \in named}])
     /\ UNCHANGED <<left, writer, pushed>>

Served ==
  /\ readers["scrape"].pc = "gathered"
  /\ ReaderStep("scrape", NoReading)
  /\ UNCHANGED <<left, writer, pushed>>

Collect(r) == ReadTable(r) \/ NameSystems(r) \/ NameDevices(r) \/ NamePorts(r) \/ NameVLANs(r)
-----------------------------------------------------------------------------
(* A push: the registry gathered, encoded and written.                      *)

Interned(table, value) ==
  IF value \in DOMAIN table.index THEN table
  ELSE [symbols |-> Append(table.symbols, value),
        index   |-> [v \in DOMAIN table.index \cup {value} |->
                       IF v = value THEN Len(table.symbols) ELSE table.index[v]]]

\* Mutant: the index outlives the symbols it points at.
ResetSymbolsOnly(table) == [symbols |-> SubSeq(table.symbols, 1, 1), index |-> table.index]

ResetTable(table) == [symbols |-> SubSeq(table.symbols, 1, 1), index |-> OneSymbol]

\* The name of a series and the values of its labels.
LabelsOf(row) == [i \in 0..Len(row.labels) |-> IF i = 0 THEN Spelled(<<row.family, row.kind>>) ELSE row.labels[i]]

PushStep(w) ==
  /\ writer' = w
  /\ UNCHANGED <<left, enabled, disk, held, calls, reloadMu, worker, lookups, names, tables, inFlight, listings>>

FailedPush(w) == [w EXCEPT !.pc = "idle", !.failures = @ + 1, !.request = <<>>, !.meant = <<>>]

GatherFails ==
  /\ readers["push"].pc = "gathered"
  /\ readers' = [readers EXCEPT !["push"] = NoReading]
  /\ PushStep(FailedPush(writer))
  /\ pushed' = [pushed EXCEPT !.failed = @ + 1]

\* The symbol table outlives the request.
Build ==
  /\ readers["push"].pc = "gathered"
  /\ readers' = [readers EXCEPT !["push"] = NoReading]
  /\ PushStep([writer EXCEPT !.pc = "building", !.table = ResetTable(@),
                             !.todo = {row \in readers["push"].rows : row.kind \in SampleValued}])
  /\ UNCHANGED pushed

\* One more string is interned, in the order of the labels; once all of a
\* series are, its references are taken.
Encode ==
  LET row == CHOOSE row \in writer.todo : TRUE
      labels == LabelsOf(row)
      missing == {i \in DOMAIN labels : labels[i] \notin DOMAIN writer.table.index}
  IN /\ writer.pc = "building" /\ writer.todo # {}
     /\ \/ \E i \in missing : (\A j \in missing : i <= j) /\ PushStep([writer EXCEPT !.table = Interned(@, labels[i])])
        \/ /\ missing = {}
           /\ PushStep([writer EXCEPT !.todo = @ \ {row}, !.meant = Append(@, labels),
                !.request = Append(@, [i \in DOMAIN labels |-> writer.table.index[labels[i]]])])
     /\ UNCHANGED <<readers, pushed>>

\* The request is assembled; one without a series is not sent.
Assemble ==
  /\ writer.pc = "building" /\ writer.todo = {}
  /\ PushStep([writer EXCEPT !.pc = IF writer.request = <<>> THEN "idle" ELSE "writing"])
  /\ UNCHANGED <<readers, pushed>>

\* What the endpoint makes of the request's references.
Resolved(w) == [i \in DOMAIN w.request |->
                  [j \in DOMAIN w.request[i] |->
                     IF w.request[i][j] < Len(w.table.symbols) THEN w.table.symbols[w.request[i][j] + 1] ELSE NoName]]

\* It may take the request and its answer be lost, or never see it.
WriteFails(delivered) ==
  /\ writer.pc = "writing"
  /\ PushStep([FailedPush(writer) EXCEPT !.received = IF delivered THEN Resolved(writer) ELSE @])
  /\ pushed' = [pushed EXCEPT !.failed = @ + 1]
  /\ UNCHANGED readers

Acked ==
  /\ writer.pc = "writing"
  /\ PushStep([writer EXCEPT !.pc = "acked", !.received = Resolved(writer), !.sends = @ + 1])
  /\ pushed' = [pushed EXCEPT !.acked = @ + 1, !.samples = @ + Len(writer.request), !.last = pushed.n]
  /\ UNCHANGED readers

\* The three counters are separate.
CountSamples ==
  /\ writer.pc = "acked"
  /\ PushStep([writer EXCEPT !.pc = "sampled", !.samples = @ + Len(writer.request)])
  /\ UNCHANGED <<readers, pushed>>

Stamp ==
  /\ writer.pc = "sampled"
  /\ PushStep([writer EXCEPT !.pc = "idle", !.lastSuccess = pushed.n, !.request = <<>>, !.meant = <<>>])
  /\ UNCHANGED <<readers, pushed>>

Push ==
  GatherFails \/ Build \/ Encode \/ Assemble
  \/ (\E delivered \in BOOLEAN : WriteFails(delivered)) \/ Acked \/ CountSamples \/ Stamp
-----------------------------------------------------------------------------
(* The entry listing.                                                       *)

ListStep(c, l) ==
  /\ listings' = [listings EXCEPT ![c] = l]
  /\ UNCHANGED <<enabled, disk, held, calls, reloadMu, worker, lookups, names, tables, readers, writer, pushed>>

\* asked: nothing for every table, or one name; anything else, and any other
\* method, is refused before the slot is tried.
Ask(c) ==
  /\ listings[c].pc = "idle"
  /\ Spend("list")
  /\ \E method \in {"GET", "POST"}, asked \in {Order, <<"hosts">>, <<"no_table">>} :
       IF method # "GET" \/ ~(ToSet(asked) \subseteq ToSet(Order)) THEN ListStep(c, NoListing) /\ UNCHANGED inFlight
       ELSE IF inFlight = 1 THEN ListStep(c, [NoListing EXCEPT !.pc = "refused"]) /\ UNCHANGED inFlight
       ELSE /\ inFlight' = 1
            /\ ListStep(c, [NoListing EXCEPT !.pc = "writing", !.todo = asked])

Acknowledge(c) ==
  /\ listings[c].pc = "refused"
  /\ ListStep(c, NoListing)
  /\ UNCHANGED <<left, inFlight>>

\* A table is read and written before the next; a disabled one has no key.
List(c) ==
  LET l == listings[c]
      t == l.todo[1]
  IN /\ l.pc = "writing" /\ l.todo # <<>>
     /\ IF t \notin enabled THEN ListStep(c, [l EXCEPT !.todo = Tail(@)])
        ELSE \E s \in Orders(EntriesOf(tables[t])) :
               ListStep(c, [l EXCEPT !.todo = Tail(@), !.table = t, !.read = ToSet(s),
                                     !.report = Report(s, t = "exporters", Width)])
     /\ UNCHANGED <<left, inFlight>>

\* Mutant: only a listing written to its end gives the slot back.
LeaveWhenWritten(c) ==
  /\ listings[c].pc = "writing"
  /\ listings[c].todo = <<>> \/ listings[c].table # Nobody
  /\ inFlight' = IF listings[c].todo = <<>> THEN 0 ELSE inFlight
  /\ ListStep(c, NoListing)
  /\ UNCHANGED left

\* The last table is out, or the client has gone and the encoder failed.
Leave(c) ==
  /\ listings[c].pc = "writing"
  /\ listings[c].todo = <<>> \/ listings[c].table # Nobody
  /\ inFlight' = 0
  /\ ListStep(c, NoListing)
  /\ UNCHANGED left
-----------------------------------------------------------------------------
\* Nothing is under way and nothing is left to come.
Quiet ==
  /\ \A c \in Callers : calls[c].pc = "idle"
  /\ worker.pc = "idle" /\ writer.pc = "idle"
  /\ \A r \in DOMAIN readers : readers[r].pc = "idle"
  /\ \A c \in Clients : listings[c].pc = "idle"
  /\ UNCHANGED vars

Next ==
  \/ \E f \in DOMAIN disk : Replace(f)
  \/ \E c \in Callers : Reload(c)
  \/ \E r \in Arrivals : Take(r)
  \/ LookFirst \/ Enrich \/ Route \/ Ingest
  \/ \E r \in DOMAIN readers : Begin(r) \/ Collect(r)
  \/ Served
  \/ Push
  \/ \E c \in Clients : Ask(c) \/ Acknowledge(c) \/ List(c) \/ Leave(c)
  \/ Quiet

Spec == Init /\ [][Next]_vars
-----------------------------------------------------------------------------
\* top is what a cut of entries owes its reader: the TopK largest at or above
\* MinBytes, the older of two equals first.
IsTop(top, entries) ==
  LET enough == {e \in entries : e.bytes >= MinBytes}
  IN /\ top \subseteq enough
     /\ Cardinality(top) = Min({TopK, Cardinality(enough)})
     /\ \A e \in top, f \in entries \ top : f.bytes < e.bytes \/ (f.bytes = e.bytes /\ f.born > e.born)

PublishedIn(r, t) ==
  {e \in readers[r].reads[t] : Row(t, "flows", Labels(t, e.key), e.flows) \in readers[r].rows}

\* Whatever order the map hands the entries over in, the partial sort of a
\* scrape and the full sort of the listing publish the same entries: exactly
\* the top of what was read, and the listing accounts for every other byte, up to
\* the wrap of its sum (selectLargest, cutOf, report).
CutExact ==
  /\ \A r \in DOMAIN readers : \A t \in DOMAIN readers[r].reads :
       IF t = "exporters" THEN PublishedIn(r, t) = readers[r].reads[t]
       ELSE IsTop(PublishedIn(r, t), readers[r].reads[t])
  /\ \A c \in Clients : listings[c].table # Nobody =>
       LET l == listings[c]
           top == {l.report.rows[i] : i \in 1..l.report.published}
       IN /\ ToSet(l.report.rows) = l.read /\ IsInjective(l.report.rows)
          /\ IF l.table = "exporters" THEN top = l.read ELSE IsTop(top, l.read)
          /\ l.report.withheld = FoldSet(LAMBDA e, sum : e.bytes + sum, 0, l.read \ top) % Width

\* What a version of the mapping file names, of the ports that crossed.
NamingRows(version, ports) ==
  LET set == NameSet(Content.mapping[version])
  IN {Row("device_info", "info", <<Spelled(d), set.devices[d]>>, 1) : d \in DOMAIN set.devices}
     \cup {Row("interface_info", "info", <<Spelled(p), set.interfaces[p]>>, 1) : p \in ports \cap DOMAIN set.interfaces}
     \cup IF "vlans" \notin enabled THEN {}
          ELSE {Row("vlan_info", "info", <<Spelled(v), set.vlanNames[v]>>, 1) : v \in DOMAIN set.vlanNames}

\* A collection names exactly what it published: its devices, ports and VLANs
\* all from one version of the file, served at some moment of it, a port only
\* when a published entry crossed it, and an autonomous system only when a
\* published pair carries it, whatever was reloaded and ingested meanwhile
\* (Collect, collectNames, collectASNNames).
NamesWhatItPublishes ==
  \A r \in DOMAIN readers : readers[r].pc = "gathered" =>
    LET reader == readers[r]
        named(family) == {row \in reader.rows : row.family = family}
        ports == UNION {UNION {Ports(e.key) : e \in PublishedIn(r, t)} : t \in PortTables \cap DOMAIN reader.reads}
        pairs == IF "asns" \in DOMAIN reader.reads THEN PublishedIn(r, "asns") ELSE {}
        systems == UNION {{e.key[2], e.key[3]} \ {0} : e \in pairs}
    IN /\ \E v \in reader.snap..held.mapping[1] :
            /\ Readable("mapping", v)
            /\ UNION {named(f) : f \in {"device_info", "interface_info", "vlan_info"}} = NamingRows(v, ports)
       /\ {row.labels[1] : row \in named("asn_info")} \subseteq {Spelled(as) : as \in systems}
       /\ {Spelled(as) : as \in systems \cap reader.knew} \subseteq {row.labels[1] : row \in named("asn_info")}

\* Two reloads that overlap, with files changing under both, never take a
\* source back to an older file; and when one returns, each source it did not
\* fail serves files at least as new as those on disk when it was asked for,
\* while each it failed serves what it served before (Chain.Reload).
ReloadsMoveForward ==
  [][/\ \A s \in DOMAIN held : \A i \in DOMAIN held[s] : held'[s][i] >= held[s][i]
     /\ \A c \in Callers : calls[c].pc = "reloading" /\ calls'[c].pc = "idle" =>
          \A s \in DOMAIN held :
            IF s \in calls[c].failed THEN held'[s] = calls[c].before[s]
            ELSE \A i \in DOMAIN held[s] : held'[s][i] >= calls[c].started[Files(s)[i]]]_vars

\* Between pushes the statistics tell the pushes that were acknowledged from
\* those that failed at the gathering, at the endpoint or on the way back, the
\* last success is the last acknowledged one's, and what the endpoint reads
\* through a symbol table reused across pushes is what was written (send).
TellsPushesApart ==
  /\ writer.pc = "idle" =>
       /\ <<writer.sends, writer.failures, writer.samples, writer.lastSuccess>>
            = <<pushed.acked, pushed.failed, pushed.samples, pushed.last>>
       /\ writer.sends + writer.failures + (IF readers["push"].pc = "idle" THEN 0 ELSE 1) = pushed.n
  /\ writer.pc = "writing" => Resolved(writer) = writer.meant

\* At most one listing is held in memory at a time, and a request finds the
\* slot taken only while another is being written: a client that goes away
\* gives it back (entriesHandler).
OneListing ==
  [][/\ Cardinality({c \in Clients : listings'[c].pc = "writing"}) <= 1
     /\ \A c \in Clients : listings[c].pc = "idle" /\ listings'[c].pc = "refused" =>
          \E d \in Clients \ {c} : listings[d].pc = "writing"]_vars
=============================================================================
