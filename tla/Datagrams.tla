------------------------------ MODULE Datagrams ------------------------------
(* One device exporting one observation domain over UDP, and the decoder     *)
(* reading what arrives (decoder/decoder.go and the five protocol files).    *)
(* The device numbers its messages, redefines its templates and restarts;    *)
(* the network loses, delays, reorders and repeats datagrams; the decoder    *)
(* has only what arrives, in the order it arrives.  Reading one datagram is  *)
(* one step, a device's datagrams being read by one worker.                  *)
(*                                                                           *)
(* truth is history no decoder holds: what the device sent, against which    *)
(* the properties measure what the decoder made of it.                       *)
EXTENDS Samples, Device

CONSTANTS
  Protocols,  \* of "v5", "v8", "v9", "ipfix", "sflow"
  Streams,    \* protocol -> the [port, engine] pairs that number apart
  Starts,     \* the sequence numbers a device boots at
  MaxSends,   \* protocol -> datagrams sent
  MaxFlight,  \* datagrams in the network at once
  Jumps,      \* protocol -> how far from its last number a restart may begin
  MaxFaults   \* protocol -> losses, repeats, restarts, new rates and silences

ASSUME DatagramsAssumption ==
  /\ MaxFlight \in Nat
  /\ Starts \subseteq 0..(Mod - 1)
  /\ \A p \in Protocols : {MaxSends[p], MaxFaults[p]} \subseteq Nat /\ Jumps[p] \subseteq 0..(Mod - 1)

VARIABLES proto, now, device, flight, domain, got, truth
vars == <<proto, now, device, flight, domain, got, truth>>

Templated == {"v9", "ipfix"}
CountsRecords == {"v5", "v8", "ipfix"}
Counted == {"v5", "v8"}
Ports == {st.port : st \in Streams[proto]}
-----------------------------------------------------------------------------
(* What the decoder makes of one datagram m.                                *)

NoDomain == [held |-> FALSE, lastSeen |-> 0, sessions |-> <<>>, missed |-> 0,
             ts |-> NoTemplates, ss |-> NoSampler]

Opened == [domain EXCEPT !.held = TRUE, !.lastSeen = now]

Joined(d, m) == [d EXCEPT !.sessions = Sessions(@, m.port, d.lastSeen)]

\* A port the domain has no session for is not tracked.
Tracked(d, m, next) ==
  IF m.port \notin DOMAIN d.sessions THEN d
  ELSE [d EXCEPT !.sessions[m.port] = next.session, !.missed = @ + next.missed]

PacketTracked(d, m) ==
  LET joined == Joined(d, m)
  IN Tracked(joined, m, TrackedPacket(joined.sessions[m.port], m.seq))

RecordsTracked(d, m, records, complete) ==
  LET joined == Joined(d, m)
  IN Tracked(joined, m, TrackedRecords(joined.sessions[m.port], m.seq, records, m.engine, complete))

Result(d, out, failed, issues) ==
  [domain |-> d, out |-> IF failed THEN <<>> ELSE out, failed |-> failed, issues |-> issues]

Discarded(reason) == Result(domain, <<>>, FALSE, {reason})

\* v5 and v8: the count is settled before the domain is asked for, and the
\* records do not need one.
DecodedCounted(m, admitted) ==
  IF ~m.body.whole \/ m.n < 1 THEN Result(domain, <<>>, TRUE, {"malformed"})
  ELSE Result(IF admitted THEN RecordsTracked(Opened, m, m.n, TRUE) ELSE domain,
              [i \in 1..m.n |-> i], FALSE, {})

DecodedV9(m, admitted) ==
  LET w == Walked("v9", Opened.ts, m.port, m.body.sets, now)
  IN IF ~admitted THEN Discarded("domain_limit")
     ELSE Result([PacketTracked(Opened, m) EXCEPT !.ts = w.ts], w.out, w.failed, w.issues)

DecodedIPFIX(m, admitted) ==
  LET check == Checked(Opened.ts, m.port, m.body.sets, now)
      w     == Walked("ipfix", Opened.ts, m.port, m.body.sets, now)
  IN CASE ~admitted              -> Discarded("domain_limit")
       [] admitted /\ check.err  -> Result([Opened EXCEPT !.ts = Withdrawn(@, check, now)],
                                           <<>>, TRUE, {"malformed"})
       [] OTHER -> Result([RecordsTracked(Opened, m, w.records, w.complete) EXCEPT !.ts = w.ts],
                          w.out, FALSE, w.issues)

DecodedSFlow(m, admitted) ==
  LET w == Sampled(Opened.ss, m.body.samples, now, Ttl)
  IN IF ~admitted THEN Discarded("domain_limit")
     ELSE Result([PacketTracked(Opened, m) EXCEPT !.ss = w.ss], w.out, w.failed, w.issues)

Decoded(m, admitted) ==
  CASE proto \in Counted -> DecodedCounted(m, admitted)
    [] proto = "v9"    -> DecodedV9(m, admitted)
    [] proto = "ipfix" -> DecodedIPFIX(m, admitted)
    [] proto = "sflow" -> DecodedSFlow(m, admitted)
-----------------------------------------------------------------------------
(* History, for the properties alone.  pos holds of each port the newest     *)
(* message its position stands on, how many came each right after the last,  *)
(* and whether the last left a position; skipped is what newer messages      *)
(* showed of those between.  announced is the last word on each template id, *)
(* base the newest sample of each sampler and how many came in order up to   *)
(* it, grown what their pools grew by from one newest to the next, late how  *)
(* many came behind one in a row.                                            *)
(* Four flags mark what no decoder could tell apart, or what a run sets      *)
(* aside: blurred, a restart at a number that reads as late; rewound, a late *)
(* message after one that left no position; misread, data in a layout whose  *)
(* announcement was lost; pooled, a sample late behind a wrap of its pool or *)
(* behind too many others.                                                   *)

NoTruth == [pos |-> <<>>, skipped |-> 0, announced |-> <<>>, base |-> <<>>, grown |-> 0,
            late |-> 0, blurred |-> FALSE, rewound |-> FALSE, misread |-> FALSE, pooled |-> FALSE]

SameRun(a, b) == a.port = b.port /\ a.engine = b.engine /\ a.boot = b.boot

\* What the device sent on m's stream after the message numbered from.
Between(m, from) ==
  Sum([i \in 1..(m.idx - from - 1) |->
         IF proto \in CountsRecords THEN device.log[m.stream][from + i] ELSE 1])

Mark(m) == [port |-> m.port, engine |-> m.engine, boot |-> m.boot, idx |-> m.idx,
            next |-> (m.seq + m.n) % Mod]

Positioned(t, m, complete) ==
  LET met   == m.port \in DOMAIN t.pos /\ SameRun(t.pos[m.port].top, m)
      stood == t.pos[m.port]
      older == met /\ m.idx <= stood.top.idx
      newer == met /\ m.idx > stood.top.idx
      held  == older /\ stood.settled
  IN [t EXCEPT
        !.pos = (m.port :> [top     |-> IF held THEN stood.top ELSE Mark(m),
                            inOrder |-> IF newer /\ m.idx = stood.top.idx + 1
                                        THEN Min({stood.inOrder, MaxLateRun}) + 1 ELSE 1,
                            settled |-> IF held THEN TRUE ELSE complete]) @@ @,
        !.skipped = IF newer /\ stood.settled THEN @ + Between(m, stood.top.idx) ELSE @,
        !.rewound = @ \/ (older /\ ~held)]

\* The announcements of one set, and whether its data outlived its announcement.
Heard(t, s) ==
  CASE s.kind = "templates" ->
         [t EXCEPT !.announced =
            FoldLeft(LAMBDA a, it : (it.id :> IF it.layout = Empty THEN Unreadable ELSE it.layout) @@ a,
                     @, ReadItems(proto, s.items))]
    [] s.kind = "data"      ->
         [t EXCEPT !.misread = @ \/ (s.id \in DOMAIN t.announced
                                     /\ t.announced[s.id] \notin {Unreadable, s.by})]
    [] OTHER                -> t

HeardAll(t, sets) ==
  LET broken == {i \in DOMAIN sets : sets[i].kind = "broken"}
  IN FoldLeft(Heard, t, IF broken = {} THEN sets ELSE SubSeq(sets, 1, Len(sets) - 1))

Measured(t, s) ==
  LET met == s.id \in DOMAIN t.base /\ t.base[s.id].boot = s.boot
      last == t.base[s.id]
      run  == IF met /\ s.idx = last.idx + 1 THEN Min({last.run, MaxLateRun}) + 1 ELSE 1
      mark == [boot |-> s.boot, idx |-> s.idx, seq |-> s.seq, pool |-> s.pool,
               total |-> s.total, rate |-> s.rate, run |-> run]
      older == met /\ s.idx <= last.idx
  IN IF older
     THEN [t EXCEPT !.late = @ + 1,
                    !.pooled = @ \/ t.late >= MaxLateRun \/ s.pool > last.pool]
     ELSE [t EXCEPT !.late = 0, !.base = (s.id :> mark) @@ @,
                    !.grown = IF met /\ s.rate = last.rate THEN @ + s.total - last.total ELSE @]

MeasuredAll(t, samples, held) ==
  LET ends == {i \in DOMAIN samples : samples[i].kind = "cut"}
      read == IF ends = {} THEN samples ELSE SubSeq(samples, 1, Len(samples) - 1)
      all  == FoldLeft(Measured, t, SelectSeq(read, LAMBDA s : s.kind = "flow" /\ s.id \in held))
  IN [all EXCEPT !.base = [i \in DOMAIN @ \cap held |-> @[i]]]

\* complete is read off what the decoder counted against the message.
Remembered(t, m, r) ==
  LET heard == CASE proto \in Templated -> HeardAll(t, m.body.sets)
                 [] proto = "sflow"     -> MeasuredAll(t, m.body.samples, DOMAIN r.domain.ss.held)
                 [] OTHER               -> t
      counted == r.issues \cap {"missing_template", "reserved_set", "malformed"} = {}
      tracked == m.port \in DOMAIN r.domain.sessions
                 /\ (proto \in CountsRecords => ~r.failed)
  IN IF tracked THEN Positioned(heard, m, proto \notin CountsRecords \/ counted) ELSE heard
-----------------------------------------------------------------------------
TypeOK ==
  /\ proto \in Protocols /\ now \in Nat
  /\ \A m \in flight : m.seq \in 0..(Mod - 1) /\ m.port \in Ports
  /\ domain.missed \in Nat /\ domain.lastSeen \in 0..now
  /\ \A p \in DOMAIN domain.sessions : domain.sessions[p].lateRun \in 0..MaxLateRun

Booted(boot, at, sent, faults) ==
  [boot |-> boot, at |-> at, sent |-> sent, faults |-> faults, seq |-> [st \in Streams[proto] |-> at],
   log |-> [st \in Streams[proto] |-> <<>>], cur |-> FirstLayouts,
   sampling |-> [i \in Samplers |-> [idx |-> 0, total |-> IF boot = 0 THEN Mod - 4 ELSE 0, rate |-> 1]]]

\* got is what the last step made of a datagram, if it was one's arrival.
Nothing == [sets |-> <<>>, out |-> <<>>, failed |-> FALSE, issues |-> {"nothing"}]

Init ==
  /\ proto \in Protocols
  /\ now = Ttl + 1
  /\ \E at \in Starts : device = Booted(0, at, 0, 0)
  /\ flight = {} /\ domain = NoDomain /\ truth = NoTruth
  /\ got = Nothing

Bodies ==
  CASE proto = "v5"        -> {[n |-> 1, whole |-> TRUE], [n |-> 2, whole |-> TRUE]}
    [] proto = "v8"        -> {[n |-> 2, whole |-> TRUE], [n |-> 1, whole |-> FALSE]}
    [] proto \in Templated -> {[n |-> Numbered(b.sets)] @@ b : b \in Messages(device.cur)}
    [] proto = "sflow"     -> {[n |-> 0, samples |-> [i \in DOMAIN list |->
                                  IF list[i].kind = "flow"
                                  THEN [seq |-> (device.at + list[i].idx) % Mod, boot |-> device.boot,
                                        pool |-> list[i].total % Mod] @@ list[i]
                                  ELSE list[i]]] :
                                list \in SampleLists(device.sampling)}

Send ==
  /\ device.sent < MaxSends[proto] /\ Cardinality(flight) < MaxFlight
  /\ \E st \in Streams[proto], b \in Bodies :
       /\ flight' = flight \cup
            {[stream |-> st, port |-> st.port, engine |-> st.engine, boot |-> device.boot,
              idx |-> Len(device.log[st]) + 1, seq |-> device.seq[st], n |-> b.n, body |-> b,
              again |-> FALSE]}
       /\ device' = [device EXCEPT
            !.sent = @ + 1, !.log[st] = Append(@, b.n),
            !.seq[st] = (@ + IF proto \in CountsRecords THEN b.n ELSE 1) % Mod,
            !.cur = IF proto \in Templated THEN b.cur ELSE @,
            !.sampling = IF proto = "sflow" THEN SamplingAfter(@, b.samples) ELSE @]
  /\ got' = Nothing /\ UNCHANGED <<proto, now, domain, truth>>

Faulty == [device EXCEPT !.faults = @ + 1]

Lose(m) ==
  /\ device.faults < MaxFaults[proto]
  /\ flight' = flight \ {m} /\ device' = Faulty
  /\ got' = Nothing /\ UNCHANGED <<proto, now, domain, truth>>

\* Decode, of a datagram that may come again.
Arrive(m, again, admitted) ==
  /\ again => ~m.again /\ device.faults < MaxFaults[proto]
  /\ domain.held => admitted
  /\ \E r \in {Decoded(m, admitted)} :
       /\ domain' = r.domain
       /\ got' = [sets |-> IF proto \in Templated THEN m.body.sets ELSE <<>>,
                  out |-> r.out, failed |-> r.failed, issues |-> r.issues]
       /\ truth' = IF r.domain.held THEN Remembered(truth, m, r) ELSE truth
  /\ flight' = IF again THEN (flight \ {m}) \cup {[m EXCEPT !.again = TRUE]} ELSE flight \ {m}
  /\ device' = IF again THEN Faulty ELSE device
  /\ UNCHANGED <<proto, now>>

\* The device comes back with everything it sent before delivered or lost; a
\* number shortly behind the last reads as a late message.
Restart(jump) ==
  /\ flight = {} /\ device.boot = 0 /\ device.faults < MaxFaults[proto]
  /\ \E at \in {(device.seq[st] + jump) % Mod : st \in Streams[proto]} :
       /\ device' = Booted(device.boot + 1, at, device.sent, device.faults + 1)
       /\ truth' = [truth EXCEPT !.blurred = @ \/ \E st \in Streams[proto] :
                                  Step(device.seq[st], at) \in 1..(2 * ReorderWindow)]
  /\ got' = Nothing /\ UNCHANGED <<proto, now, flight, domain>>

\* The samplers are given another rate.
Reconfigure ==
  /\ proto = "sflow" /\ device.faults < MaxFaults[proto]
  /\ device' = [Faulty EXCEPT !.sampling = [i \in Samplers |-> [@[i] EXCEPT !.rate = 3 - @]]]
  /\ got' = Nothing /\ UNCHANGED <<proto, now, flight, domain, truth>>

\* The device is silent for a while, short of the TTL or past it.
Silence(for) ==
  /\ flight = {} /\ device.faults < MaxFaults[proto]
  /\ now' = now + for /\ device' = Faulty
  /\ got' = Nothing /\ UNCHANGED <<proto, flight, domain, truth>>

\* SweepDomains: an idle domain goes, a live one gives up what is idle in it.
Sweep ==
  /\ domain.held
  /\ domain' = IF domain.lastSeen < now - Ttl THEN NoDomain
               ELSE [domain EXCEPT !.sessions = IdleSessionsPruned(@, now - Ttl),
                                   !.ts = ExpiredPruned(@, now)]
  /\ truth' = IF ~domain'.held THEN NoTruth
              ELSE [truth EXCEPT !.pos = [p \in DOMAIN @ \cap DOMAIN domain'.sessions |-> @[p]]]
  /\ got' = Nothing /\ UNCHANGED <<proto, now, device, flight>>

Next ==
  \/ Send \/ Reconfigure \/ Sweep
  \/ \E for \in {Ttl, Ttl + 1} : Silence(for)
  \/ \E m \in flight : Lose(m) \/ \E again, admitted \in BOOLEAN : Arrive(m, again, admitted)
  \/ \E jump \in Jumps[proto] : Restart(jump)

Spec == Init /\ [][Next]_vars
-----------------------------------------------------------------------------
(* Properties.                                                              *)

\* What a domain counts missing (trackSequence, trackRecordSequence) is what
\* newer messages showed of older ones, each counted once, wherever the
\* numbers wrap, whatever came late or twice, and however ports and engines
\* interleave.
MissedExact == truth.blurred \/ truth.rewound \/ truth.misread \/ domain.missed = truth.skipped

\* Held at a number a restart left behind, a position is taken up again after
\* maxLateRun messages: the base is held against reordering, not frozen.
PositionRecovers ==
  proto \in CountsRecords /\ ~truth.misread =>
    \A p \in DOMAIN truth.pos : LET at == truth.pos[p] IN
      at.settled /\ at.inOrder > MaxLateRun
        => domain.sessions[p].lastSeq = at.top.next

\* A template held is the one announced last under its id, in any datagram
\* that arrived, those an IPFIX length check discards included.
HeldAsAnnounced ==
  \A r \in DOMAIN domain.ts.held :
    Known(domain.ts, r, now) => r.id \in DOMAIN truth.announced /\ domain.ts.held[r].layout = truth.announced[r.id]

\* The flow records a message carries, in the layouts they were encoded in.
Carried(sets) ==
  FlattenSeq([i \in DOMAIN sets |->
    IF sets[i].kind # "data" THEN <<>>
    ELSE IF sets[i].by # Unreadable /\ sets[i].by.options THEN <<>>
    ELSE [j \in DOMAIN sets[i].of |-> [layout |-> sets[i].by, value |-> sets[i].of[j]]]])

\* A message that arrives whole and misses no template returns every record
\* it carries, cut where the device cut them; one that fails returns none;
\* and what the IPFIX length check passed, the walk behind it can read.
ReturnsEveryRecord ==
  proto \in Templated /\ ~truth.misread =>
    /\ got.failed => got.out = <<>>
    /\ ~got.failed /\ got.issues \cap {"missing_template", "malformed", "domain_limit", "nothing"} = {}
         => got.out = Carried(got.sets)
    /\ proto = "ipfix" /\ ~got.failed => "malformed" \notin got.issues

\* A full domain turns nothing away that an idle template or sampler could
\* make room for: templatesOldest and samplersOldest stay lower bounds.
RefusesOnlyWhileFresh ==
  domain.held /\ domain.lastSeen = now =>
    /\ \A i \in 1..2 :
         LET refused == /\ ~got.failed /\ i \in DOMAIN truth.announced
                        /\ Compiles(proto, truth.announced[i])
                        /\ \E s \in Range(got.sets) :
                             s.kind = "templates" /\ i \in {it.id : it \in Range(s.items)}
                        /\ ~\E r \in DOMAIN domain.ts.held : r.id = i
         IN refused => \A r \in DOMAIN domain.ts.held : Known(domain.ts, r, now)
    /\ domain.ss.refused => \A i \in DOMAIN domain.ss.held : domain.ss.held[i].lastSeen >= now - Ttl

\* A sampler's base is taken up again after maxLateRun samples of its own: no
\* other sampler's keep it held (the comment on maxLateRun).
SamplerRecovers ==
  ~truth.pooled => \A i \in DOMAIN truth.base :
    truth.base[i].run > MaxLateRun => domain.ss.held[i].seq = truth.base[i].seq

\* The pool is what the samplers' own counters grew by, between readings the
\* agent took one after another at one rate, its wraps included.
PoolMeasured == truth.blurred \/ truth.pooled \/ domain.ss.pool = truth.grown
=============================================================================
