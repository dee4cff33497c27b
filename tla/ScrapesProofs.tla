---------------------------- MODULE ScrapesProofs ----------------------------
(***************************************************************************)
(* Theorems about Scrapes that hold whatever the files, the records and    *)
(* the tables are: overlapping reloads move forward, the one listing slot  *)
(* is always given back, and the pushes are told apart.                    *)
(***************************************************************************)
EXTENDS Scrapes, FiniteSetTheorems, SequenceTheorems, TLAPS

-----------------------------------------------------------------------------
(* The inductive invariant of the reloads.                                 *)

Sources == {"mapping", "asn", "country", "threat"}

\* The parts are stated of any call, of any versions h held and d on disk, so
\* that they can be compared across a step.

\* No source is ahead of the disk.
HeldIs(h, d) ==
  /\ d \in [DOMAIN Content -> Nat]
  /\ DOMAIN h = Sources
  /\ \A s \in Sources :
       /\ h[s] \in [DOMAIN Files(s) -> Nat]
       /\ \A i \in DOMAIN Files(s) : h[s][i] <= d[Files(s)[i]]

\* A source the reload is past failed and is as it was, or is as new as the
\* disk was; one still to come is as it was.
Settled(call, s, h) ==
  IF s \in call.failed THEN h[s] = call.before[s]
  ELSE \A i \in DOMAIN Files(s) : h[s][i] >= call.started[Files(s)[i]]

Awaited(call, s, h) == h[s] = call.before[s] /\ s \notin call.failed

\* What is built of the one at hand is no older than what it will replace.
Building(call, s, h, d) ==
  /\ Len(call.built) <= Len(Files(s))
  /\ \A i \in 1..Len(call.built) :
       /\ h[s][i] <= call.built[i]
       /\ call.started[Files(s)[i]] <= call.built[i]
       /\ call.built[i] <= d[Files(s)[i]]

Began(call, d) ==
  /\ call.started \in [DOMAIN Content -> Nat]
  /\ \A f \in DOMAIN Content : call.started[f] <= d[f]

Underway(call, h, d) ==
  /\ call.source \in 1..5
  /\ call.built \in Seq(Nat)
  /\ \A j \in 1..4 : j < call.source => Settled(call, Reloaders[j], h)
  /\ \A j \in 1..4 : j >= call.source => Awaited(call, Reloaders[j], h)
  /\ call.source < 5 => Building(call, Reloaders[call.source], h, d)

\* A reload at work holds the lock.
CallFields == {"pc", "source", "built", "failed", "started", "before"}
CallIs(c, call, mu, h, d) ==
  /\ DOMAIN call = CallFields
  /\ call.pc = "waiting" => Began(call, d) /\ call.source = 1 /\ call.built = <<>> /\ call.failed = {}
  /\ call.pc = "reloading" => Began(call, d) /\ Underway(call, h, d) /\ mu = c

ReloadInv ==
  /\ HeldIs(held, disk)
  /\ DOMAIN calls = Callers
  /\ \A c \in Callers : CallIs(c, calls[c], reloadMu, held, disk)

-----------------------------------------------------------------------------
(* Who changes what.                                                       *)

\* Only a request moves a listing, and only a reload or the operator what is
\* held and read.
LEMMA Movers ==
  ASSUME [Next]_vars
  PROVE  /\ \/ \E c \in Clients : Ask(c) \/ Acknowledge(c) \/ List(c) \/ Leave(c)
            \/ UNCHANGED <<inFlight, listings>>
         /\ \/ \E c \in Callers : Reload(c)
            \/ \E f \in DOMAIN disk : Replace(f)
            \/ UNCHANGED <<disk, held, calls, reloadMu>>
  <1>1. CASE \E f \in DOMAIN disk : Replace(f)
    BY <1>1 DEF Replace
  <1>2. CASE \E c \in Callers : Reload(c)
    BY <1>2 DEF Reload, Call, Lock, ReadFile, Store, Return, CallStep
  <1>3. CASE \/ \E r \in Arrivals : Take(r)
             \/ LookFirst \/ Enrich \/ Route \/ Ingest
    BY <1>3 DEF Take, LookFirst, Enrich, Route, Ingest, WorkerStep
  <1>4. ASSUME NEW r \in DOMAIN readers, Begin(r) \/ Collect(r)
        PROVE  UNCHANGED <<disk, held, calls, reloadMu, inFlight, listings>>
    BY <1>4 DEF Begin, Collect, ReadTable, NameSystems, NameDevices, NamePorts, NameVLANs, ReaderStep
  <1>5. CASE Served
    BY <1>5 DEF Served, ReaderStep
  <1>6. CASE Push
    BY <1>6 DEF Push, GatherFails, Build, Encode, Assemble, WriteFails, Acked, CountSamples, Stamp, PushStep
  <1>7. CASE \E c \in Clients : Ask(c) \/ Acknowledge(c) \/ List(c) \/ Leave(c)
    <2>1. UNCHANGED <<disk, held, calls, reloadMu>>
      BY <1>7 DEF Ask, Acknowledge, List, Leave, ListStep
    <2> QED
      BY <1>7, <2>1
  <1>8. CASE Quiet \/ UNCHANGED vars
    BY <1>8 DEF Quiet, vars
  <1> QED
    BY <1>1, <1>2, <1>3, <1>4, <1>5, <1>6, <1>7, <1>8 DEF Next

-----------------------------------------------------------------------------
(* The listing slot.                                                       *)

\* The slot is taken just while one listing is written.
ListInv ==
  /\ inFlight \in {0, 1}
  /\ DOMAIN listings = Clients
  /\ \A c \in Clients : DOMAIN listings[c] = {"pc", "todo", "table", "read", "report"}
  /\ \A c, d \in Clients : listings[c].pc = "writing" /\ listings[d].pc = "writing" => c = d
  /\ inFlight = 1 <=> \E c \in Clients : listings[c].pc = "writing"

\* A client that steps leaves the others where they are.
LEMMA ListStepIs ==
  ASSUME ListInv, NEW c \in Clients, NEW l, ListStep(c, l),
         DOMAIN l = {"pc", "todo", "table", "read", "report"}
  PROVE  /\ DOMAIN listings' = Clients
         /\ listings'[c] = l
         /\ \A d \in Clients \ {c} : listings'[d] = listings[d]
         /\ \A d \in Clients : DOMAIN listings'[d] = {"pc", "todo", "table", "read", "report"}
  BY DEF ListInv, ListStep

\* A step of one client: it keeps the slot, takes it when it is free, finds it
\* taken, or gives it back.
LEMMA ClientSteps ==
  ASSUME ListInv, NEW c \in Clients, Ask(c) \/ Acknowledge(c) \/ List(c) \/ Leave(c)
  PROVE  \E l : /\ DOMAIN l = {"pc", "todo", "table", "read", "report"}
                /\ ListStep(c, l)
                /\ \/ l.pc = listings[c].pc /\ inFlight' = inFlight
                   \/ l.pc = "idle" /\ listings[c].pc # "writing" /\ inFlight' = inFlight
                   \/ l.pc = "refused" /\ listings[c].pc # "writing" /\ inFlight = 1 /\ inFlight' = inFlight
                   \/ l.pc = "writing" /\ listings[c].pc = "idle" /\ inFlight = 0 /\ inFlight' = 1
                   \/ l.pc = "idle" /\ listings[c].pc = "writing" /\ inFlight' = 0
  <1>1. CASE Ask(c)
    <2>1. listings[c].pc = "idle"
      BY <1>1 DEF Ask
    <2>2. \/ ListStep(c, NoListing) /\ UNCHANGED inFlight
          \/ ListStep(c, [NoListing EXCEPT !.pc = "refused"]) /\ inFlight = 1 /\ UNCHANGED inFlight
          \/ /\ inFlight # 1 /\ inFlight' = 1
             /\ \E asked \in {Order, <<"hosts">>, <<"no_table">>} :
                  ListStep(c, [NoListing EXCEPT !.pc = "writing", !.todo = asked])
      BY <1>1 DEF Ask
    <2>3. CASE ListStep(c, NoListing) /\ UNCHANGED inFlight
      BY <2>1, <2>3 DEF NoListing
    <2>4. CASE ListStep(c, [NoListing EXCEPT !.pc = "refused"]) /\ inFlight = 1 /\ UNCHANGED inFlight
      BY <2>1, <2>4 DEF NoListing
    <2>5. ASSUME inFlight # 1, inFlight' = 1, NEW asked,
                 ListStep(c, [NoListing EXCEPT !.pc = "writing", !.todo = asked])
          PROVE  \E l : /\ DOMAIN l = {"pc", "todo", "table", "read", "report"}
                        /\ ListStep(c, l) /\ l.pc = "writing"
      <3> DEFINE l == [[NoListing EXCEPT !.pc = "writing"] EXCEPT !.todo = asked]
      <3>1. l = [NoListing EXCEPT !.pc = "writing", !.todo = asked]
        BY DEF NoListing
      <3>2. DOMAIN l = {"pc", "todo", "table", "read", "report"} /\ l.pc = "writing"
        BY DEF NoListing
      <3> HIDE DEF l
      <3> QED
        BY <2>5, <3>1, <3>2
    <2>6. inFlight # 1 => inFlight = 0
      BY DEF ListInv
    <2> QED
      BY <2>1, <2>2, <2>3, <2>4, <2>5, <2>6
  <1>2. CASE Acknowledge(c)
    BY <1>2 DEF Acknowledge, NoListing
  <1>3. CASE List(c)
    <2> DEFINE same(l) == /\ DOMAIN l = {"pc", "todo", "table", "read", "report"}
                          /\ ListStep(c, l) /\ l.pc = listings[c].pc
    <2>1. DOMAIN listings[c] = {"pc", "todo", "table", "read", "report"} /\ UNCHANGED inFlight
      BY <1>3 DEF List, ListInv
    <2>2. ASSUME NEW todo, ListStep(c, [listings[c] EXCEPT !.todo = todo])
          PROVE  \E l : same(l)
      BY <2>1, <2>2
    <2>3. ASSUME NEW todo, NEW t, NEW read, NEW report,
                 ListStep(c, [listings[c] EXCEPT !.todo = todo, !.table = t, !.read = read, !.report = report])
          PROVE  \E l : same(l)
      <3> DEFINE l1 == [listings[c] EXCEPT !.todo = todo]
                 l2 == [l1 EXCEPT !.table = t]
                 l3 == [l2 EXCEPT !.read = read]
                 l == [l3 EXCEPT !.report = report]
      <3>1. l = [listings[c] EXCEPT !.todo = todo, !.table = t, !.read = read, !.report = report]
        OBVIOUS
      <3>2. DOMAIN l = {"pc", "todo", "table", "read", "report"} /\ l.pc = listings[c].pc
        BY <2>1
      <3> HIDE DEF l
      <3> QED
        BY <2>3, <3>1, <3>2
    <2>4. \/ \E todo : ListStep(c, [listings[c] EXCEPT !.todo = todo])
          \/ \E todo, t, read, report :
               ListStep(c, [listings[c] EXCEPT !.todo = todo, !.table = t, !.read = read, !.report = report])
      BY <1>3 DEF List
    <2>5. \E l : same(l)
      BY <2>2, <2>3, <2>4
    <2> QED
      BY <2>1, <2>5
  <1>4. CASE Leave(c)
    BY <1>4 DEF Leave, NoListing
  <1> QED
    BY <1>1, <1>2, <1>3, <1>4

\* The slot stays right, and a request is refused only while it is taken.
LEMMA NextListInv ==
  ASSUME ListInv, [Next]_vars
  PROVE  /\ ListInv'
         /\ \A c \in Clients : listings[c].pc = "idle" /\ listings'[c].pc = "refused" =>
              \E d \in Clients \ {c} : listings[d].pc = "writing"
  <1>1. CASE UNCHANGED <<inFlight, listings>>
    BY <1>1 DEF ListInv
  <1>2. ASSUME NEW c \in Clients, Ask(c) \/ Acknowledge(c) \/ List(c) \/ Leave(c)
        PROVE  /\ ListInv'
               /\ \A e \in Clients : listings[e].pc = "idle" /\ listings'[e].pc = "refused" =>
                    \E d \in Clients \ {e} : listings[d].pc = "writing"
    <2>1. PICK l : /\ DOMAIN l = {"pc", "todo", "table", "read", "report"}
                   /\ ListStep(c, l)
                   /\ \/ l.pc = listings[c].pc /\ inFlight' = inFlight
                      \/ l.pc = "idle" /\ listings[c].pc # "writing" /\ inFlight' = inFlight
                      \/ l.pc = "refused" /\ listings[c].pc # "writing" /\ inFlight = 1 /\ inFlight' = inFlight
                      \/ l.pc = "writing" /\ listings[c].pc = "idle" /\ inFlight = 0 /\ inFlight' = 1
                      \/ l.pc = "idle" /\ listings[c].pc = "writing" /\ inFlight' = 0
      BY <1>2, ClientSteps
    <2>2. /\ DOMAIN listings' = Clients
          /\ listings'[c] = l
          /\ \A d \in Clients \ {c} : listings'[d] = listings[d]
          /\ \A d \in Clients : DOMAIN listings'[d] = {"pc", "todo", "table", "read", "report"}
      BY <2>1, ListStepIs
    <2>3. ListInv'
      BY <2>1, <2>2 DEF ListInv
    <2> QED
      BY <2>1, <2>2, <2>3 DEF ListInv
  <1> QED
    BY <1>1, <1>2, Movers

\* At most one listing is held in memory at a time, and a request is refused
\* only while another is being written: a client that leaves gives the slot
\* back (entries.go, entriesHandler).
THEOREM OneListingHolds == Spec => OneListing
  <1>1. Init => ListInv
    BY DEF Init, ListInv, NoListing
  <1>2. ListInv /\ [Next]_vars =>
          [/\ Cardinality({c \in Clients : listings'[c].pc = "writing"}) <= 1
           /\ \A c \in Clients : listings[c].pc = "idle" /\ listings'[c].pc = "refused" =>
                \E d \in Clients \ {c} : listings[d].pc = "writing"]_vars
    <2> SUFFICES ASSUME ListInv, [Next]_vars
                 PROVE  Cardinality({c \in Clients : listings'[c].pc = "writing"}) <= 1
      BY NextListInv
    <2> DEFINE writing == {c \in Clients : listings'[c].pc = "writing"}
    <2>1. \A c, d \in writing : c = d
      BY NextListInv DEF ListInv
    <2> HIDE DEF writing
    <2>2. ASSUME NEW c \in writing
          PROVE  Cardinality(writing) = 1
      <3>1. writing = {c}
        BY <2>1, <2>2
      <3> QED
        BY <3>1, FS_Singleton
    <2>3. Cardinality(writing) <= 1
      BY <2>2, FS_EmptySet
    <2> QED
      BY <2>3 DEF writing
  <1>3. ListInv /\ [Next]_vars => ListInv'
    BY NextListInv
  <1> QED
    BY <1>1, <1>2, <1>3, PTL DEF Spec, OneListing
-----------------------------------------------------------------------------
(* The reloads.                                                            *)

\* The sources in their order, and the files of each.
LEMMA SourcesAre ==
  /\ Len(Reloaders) = 4
  /\ \A j \in 1..4 : Reloaders[j] \in Sources
  /\ \A j, k \in 1..4 : Reloaders[j] = Reloaders[k] => j = k
  /\ \A s \in Sources : \E j \in 1..4 : s = Reloaders[j]
  /\ \A s \in Sources :
       /\ Len(Files(s)) \in {1, 2}
       /\ DOMAIN Files(s) = 1..Len(Files(s))
       /\ \A i \in DOMAIN Files(s) : Files(s)[i] \in DOMAIN Content
  <1>1. Len(Reloaders) = 4 /\ 1..4 = {1, 2, 3, 4}
    BY DEF Reloaders
  <1>2. \A j \in {1, 2, 3, 4} : Reloaders[j] \in Sources
    BY DEF Reloaders, Sources
  <1>3. \A j, k \in {1, 2, 3, 4} : Reloaders[j] = Reloaders[k] => j = k
    BY DEF Reloaders
  <1>4. \A s \in Sources : \E j \in {1, 2, 3, 4} : s = Reloaders[j]
    BY DEF Reloaders, Sources
  <1>5. ASSUME NEW s \in Sources
        PROVE  /\ Len(Files(s)) \in {1, 2}
               /\ DOMAIN Files(s) = 1..Len(Files(s))
               /\ \A i \in DOMAIN Files(s) : Files(s)[i] \in DOMAIN Content
    <2>1. CASE s = "threat"
      <3>1. Files(s) = <<"list1", "list2">>
        BY <2>1 DEF Files
      <3> QED
        BY <3>1, ScrapesAssumption
    <2>2. CASE s # "threat"
      <3>1. Files(s) = <<s>> /\ s \in DOMAIN Content
        BY <1>5, <2>2, ScrapesAssumption DEF Files, Sources
      <3> QED
        BY <3>1
    <2> QED
      BY <2>1, <2>2
  <1> QED
    BY <1>1, <1>2, <1>3, <1>4, <1>5

\* A call stays as it is while what is held does and the disk only moves on.
LEMMA CallStill ==
  ASSUME NEW c, NEW call, NEW mu, NEW h, NEW d, NEW e,
         HeldIs(h, d), CallIs(c, call, mu, h, d),
         e \in [DOMAIN Content -> Nat], \A f \in DOMAIN Content : d[f] <= e[f]
  PROVE  CallIs(c, call, mu, h, e)
  <1>0. \A f \in DOMAIN Content : d[f] \in Nat /\ e[f] \in Nat /\ d[f] <= e[f]
    BY DEF HeldIs
  <1>1. ASSUME Began(call, d)
        PROVE  Began(call, e)
    BY <1>0, <1>1 DEF Began
  <1>2. ASSUME Underway(call, h, d), call.source < 5
        PROVE  Building(call, Reloaders[call.source], h, e)
    <2>1. PICK s \in Sources : s = Reloaders[call.source]
      BY <1>2, SourcesAre DEF Underway
    <2>2. call.built \in Seq(Nat) /\ Building(call, s, h, d)
      BY <1>2, <2>1 DEF Underway
    <2>3. ASSUME NEW i \in 1..Len(call.built)
          PROVE  call.built[i] <= e[Files(s)[i]]
      <3>1. Len(call.built) \in Nat /\ call.built[i] \in Nat
        BY <2>2
      <3>2. Len(Files(s)) \in Nat
        BY SourcesAre
      <3>3. i \in 1..Len(Files(s)) /\ call.built[i] <= d[Files(s)[i]]
        BY <2>2, <3>1, <3>2 DEF Building
      <3>4. Files(s)[i] \in DOMAIN Content
        BY <3>3, SourcesAre
      <3> QED
        BY <1>0, <3>1, <3>3, <3>4
    <2> QED
      BY <2>1, <2>2, <2>3 DEF Building
  <1> QED
    BY <1>1, <1>2 DEF CallIs, Underway

\* h and k differ at t alone, where k has v.
Replaced(h, k, t, v) == DOMAIN k = Sources /\ k[t] = v /\ \A s \in Sources \ {t} : k[s] = h[s]


\* What is built replaces what was held only by something as new.
LEMMA StoreIsNewer ==
  ASSUME NEW call, NEW t, NEW h, NEW k, NEW d,
         HeldIs(h, d), Began(call, d), Underway(call, h, d), call.source < 5,
         t = Reloaders[call.source], Len(call.built) = Len(Files(t)),
         Replaced(h, k, t, call.built)
  PROVE  /\ HeldIs(k, d)
         /\ \A s \in Sources : \A i \in DOMAIN Files(s) : k[s][i] >= h[s][i]
         /\ \A i \in DOMAIN Files(t) : k[t][i] >= call.started[Files(t)[i]]
  <1>1. t \in Sources /\ Building(call, t, h, d)
    BY SourcesAre DEF Underway
  <1>2. /\ DOMAIN Files(t) = 1..Len(Files(t)) /\ Len(call.built) = Len(Files(t))
        /\ call.built \in [DOMAIN Files(t) -> Nat]
    BY <1>1, SourcesAre DEF Underway
  <1>3. \A i \in DOMAIN Files(t) : /\ h[t][i] <= call.built[i]
                                   /\ call.started[Files(t)[i]] <= call.built[i]
                                   /\ call.built[i] <= d[Files(t)[i]]
    BY <1>1, <1>2 DEF Building
  <1>4. /\ \A i \in DOMAIN Files(t) : h[t][i] \in Nat /\ call.built[i] \in Nat
        /\ \A s \in Sources : \A i \in DOMAIN Files(s) : h[s][i] \in Nat
        /\ \A i \in DOMAIN Files(t) : call.started[Files(t)[i]] \in Nat
    BY <1>1, <1>2, SourcesAre DEF HeldIs, Began
  <1>5. HeldIs(k, d)
    BY <1>1, <1>2, <1>3 DEF HeldIs, Replaced
  <1>6. \A s \in Sources : \A i \in DOMAIN Files(s) : k[s][i] >= h[s][i]
    BY <1>3, <1>4 DEF Replaced
  <1>7. \A i \in DOMAIN Files(t) : k[t][i] >= call.started[Files(t)[i]]
    BY <1>3, <1>4 DEF Replaced
  <1> QED
    BY <1>5, <1>6, <1>7

\* Past the source at hand, done with it or failed.
LEMMA NextSourceIs ==
  ASSUME NEW call, DOMAIN call = CallFields, NEW next, next = NextSource(call)
  PROVE  /\ DOMAIN next = CallFields
         /\ next.pc = call.pc /\ next.source = call.source + 1 /\ next.built = <<>>
         /\ next.started = call.started /\ next.before = call.before /\ next.failed = call.failed
  BY DEF NextSource, CallFields

\* Past the source at hand, whose reload failed.
LEMMA FailedIs ==
  ASSUME NEW call, DOMAIN call = CallFields, NEW next, next = Failed(call)
  PROVE  /\ DOMAIN next = CallFields
         /\ next.pc = call.pc /\ next.source = call.source + 1 /\ next.built = <<>>
         /\ next.started = call.started /\ next.before = call.before
         /\ next.failed = call.failed \cup {Reloaders[call.source]}
  <1> DEFINE n == NextSource(call)
  <1>1. /\ DOMAIN n = CallFields
        /\ n.pc = call.pc /\ n.source = call.source + 1 /\ n.built = <<>>
        /\ n.started = call.started /\ n.before = call.before /\ n.failed = call.failed
    BY NextSourceIs
  <1> HIDE DEF n
  <1>2. next = [n EXCEPT !.failed = @ \cup {Reloaders[call.source]}]
    BY DEF Failed, n
  <1> QED
    BY <1>1, <1>2 DEF CallFields

\* The next source is begun when this one is settled.
LEMMA NextIsUnderway ==
  ASSUME NEW call, NEW next, NEW t, NEW h, NEW k, NEW d,
         Underway(call, h, d), call.source < 5, t = Reloaders[call.source],
         next.source = call.source + 1, next.built = <<>>,
         next.started = call.started, next.before = call.before,
         next.failed \cup {t} = call.failed \cup {t},
         Settled(next, t, k), \A s \in Sources \ {t} : k[s] = h[s]
  PROVE  Underway(next, k, d)
  <1>1. call.source \in 1..4 /\ next.source \in 1..5 /\ next.built \in Seq(Nat)
    BY DEF Underway
  <1>2. \A s \in Sources \ {t} : s \in next.failed <=> s \in call.failed
    OBVIOUS
  <1>3. \A j \in 1..4 : j # call.source => Reloaders[j] \in Sources \ {t}
    BY <1>1, SourcesAre
  <1>4. \A s \in Sources \ {t} : Settled(call, s, h) => Settled(next, s, k)
    BY <1>2 DEF Settled
  <1>5. \A s \in Sources \ {t} : Awaited(call, s, h) => Awaited(next, s, k)
    BY <1>2 DEF Awaited
  <1>6. \A j \in 1..4 : j < next.source => Settled(next, Reloaders[j], k)
    BY <1>1, <1>3, <1>4 DEF Underway
  <1>7. \A j \in 1..4 : j >= next.source => Awaited(next, Reloaders[j], k)
    BY <1>1, <1>3, <1>5 DEF Underway
  <1>8. \A s \in Sources : Building(next, s, k, d)
    BY SourcesAre DEF Building
  <1> QED
    BY <1>1, <1>6, <1>7, <1>8, SourcesAre DEF Underway

\* The reload that holds the lock, or takes it, is the only one at work.
LEMMA OthersStill ==
  ASSUME ReloadInv, NEW c \in Callers, NEW call, CallStep(c, call),
         calls[c].pc = "reloading" \/ (calls[c].pc = "waiting" /\ reloadMu = Nobody),
         HeldIs(held', disk), CallIs(c, call, reloadMu', held', disk)
  PROVE  ReloadInv'
  <1>1. DOMAIN calls' = Callers /\ calls'[c] = call /\ disk' = disk
    BY DEF ReloadInv, CallStep
  <1>2. ASSUME NEW b \in Callers \ {c}
        PROVE  CallIs(b, calls'[b], reloadMu', held', disk)
    <2>1. /\ calls'[b] = calls[b] /\ CallIs(b, calls[b], reloadMu, held, disk)
          /\ CallIs(c, calls[c], reloadMu, held, disk)
      BY DEF ReloadInv, CallStep
    <2>2. calls[b].pc # "reloading"
      BY <2>1, ScrapesAssumption DEF CallIs
    <2> QED
      BY <2>1, <2>2 DEF CallIs
  <1> QED
    BY <1>1, <1>2 DEF ReloadInv

\* A version more, and those before it.
LEMMA AppendIs ==
  ASSUME NEW b \in Seq(Nat), NEW v \in Nat
  PROVE  /\ Append(b, v) \in Seq(Nat) /\ Len(b) \in Nat
         /\ Len(Append(b, v)) = Len(b) + 1 /\ Append(b, v)[Len(b) + 1] = v
         /\ \A i \in 1..Len(b) : Append(b, v)[i] = b[i]
  OBVIOUS

\* One file of the source at hand is built.
WithRead(call, version) == [call EXCEPT !.built = Append(@, version)]

\* A file read as it is on disk is no older than what it replaces.
LEMMA ReadIsUnderway ==
  ASSUME NEW call, NEW read, NEW t, NEW file, NEW h, NEW d,
         HeldIs(h, d), Began(call, d), Underway(call, h, d), call.source < 5,
         t = Reloaders[call.source], Len(call.built) < Len(Files(t)),
         file = Files(t)[Len(call.built) + 1], DOMAIN call = CallFields,
         read = WithRead(call, d[file])
  PROVE  /\ DOMAIN read = CallFields
         /\ read.pc = call.pc /\ Began(read, d) /\ Underway(read, h, d)
  <1>1. /\ DOMAIN read = CallFields
        /\ read.pc = call.pc /\ read.source = call.source /\ read.started = call.started
        /\ read.before = call.before /\ read.failed = call.failed
        /\ read.built = Append(call.built, d[file])
    BY DEF CallFields, WithRead
  <1>2. t \in Sources /\ Building(call, t, h, d) /\ call.built \in Seq(Nat)
    BY SourcesAre DEF Underway
  <1>3. Len(call.built) + 1 \in DOMAIN Files(t)
    BY <1>2, SourcesAre
  <1>4. file \in DOMAIN Content /\ d[file] \in Nat
    BY <1>2, <1>3, SourcesAre DEF HeldIs
  <1>5. h[t][Len(call.built) + 1] <= d[file] /\ call.started[file] <= d[file]
    BY <1>2, <1>3, <1>4 DEF HeldIs, Began
  <1>6. /\ read.built \in Seq(Nat) /\ Len(call.built) \in Nat
        /\ Len(read.built) = Len(call.built) + 1
        /\ read.built[Len(call.built) + 1] = d[file]
        /\ \A i \in 1..Len(call.built) : read.built[i] = call.built[i]
    <2>1. PICK b : b = call.built
      OBVIOUS
    <2>2. PICK v : v = d[file]
      OBVIOUS
    <2>3. b \in Seq(Nat) /\ v \in Nat /\ read.built = Append(b, v)
      BY <1>1, <1>2, <1>4, <2>1, <2>2
    <2>4. /\ Append(b, v) \in Seq(Nat) /\ Len(b) \in Nat
          /\ Len(Append(b, v)) = Len(b) + 1 /\ Append(b, v)[Len(b) + 1] = v
          /\ \A i \in 1..Len(b) : Append(b, v)[i] = b[i]
      BY <2>3, AppendIs
    <2> QED
      BY <2>1, <2>2, <2>3, <2>4
  <1>7. ASSUME NEW i \in 1..Len(read.built)
        PROVE  /\ h[t][i] <= read.built[i]
               /\ read.started[Files(t)[i]] <= read.built[i]
               /\ read.built[i] <= d[Files(t)[i]]
    <2>1. CASE i = Len(call.built) + 1
      <3>1. read.built[i] = d[file] /\ Files(t)[i] = file
        BY <1>6, <2>1
      <3>2. h[t][i] <= d[file] /\ read.started[file] <= d[file]
        BY <1>1, <1>5, <2>1
      <3>3. d[file] <= d[file]
        BY <1>4
      <3> QED
        BY <3>1, <3>2, <3>3
    <2>2. CASE i # Len(call.built) + 1
      <3>1. i \in 1..Len(call.built)
        <4>1. PICK m : m = Len(call.built)
          OBVIOUS
        <4>2. m \in Nat /\ i \in 1..(m + 1) /\ i # m + 1
          BY <1>6, <2>2, <4>1
        <4>3. i \in 1..m
          BY <4>2
        <4> QED
          BY <4>1, <4>3
      <3>2. /\ h[t][i] <= call.built[i]
            /\ call.started[Files(t)[i]] <= call.built[i]
            /\ call.built[i] <= d[Files(t)[i]]
        BY <1>2, <3>1 DEF Building
      <3> QED
        BY <1>1, <1>6, <3>1, <3>2
    <2> QED
      BY <2>1, <2>2
  <1>8. Len(read.built) <= Len(Files(t))
    <2>1. PICK m : m = Len(call.built)
      OBVIOUS
    <2>2. PICK n : n = Len(Files(t))
      OBVIOUS
    <2>3. m \in Nat /\ n \in {1, 2} /\ m < n /\ Len(read.built) = m + 1
      BY <1>2, <1>6, <2>1, <2>2, SourcesAre
    <2>4. m + 1 <= n
      BY <2>3
    <2> QED
      BY <2>2, <2>3, <2>4
  <1>9. Building(read, t, h, d)
    BY <1>7, <1>8 DEF Building
  <1> QED
    BY <1>1, <1>6, <1>9 DEF Underway, Settled, Awaited, Began

\* One file of the source at hand is read, or cannot be.
LEMMA ReadFileKeeps ==
  ASSUME ReloadInv, NEW c \in Callers, ReadFile(c)
  PROVE  ReloadInv' /\ UNCHANGED held /\ calls'[c].pc = "reloading"
  <1>1. PICK call : call = calls[c]
    OBVIOUS
  <1>2. PICK t : t = Reloaders[call.source]
    OBVIOUS
  <1>3. PICK file : file = Files(t)[Len(call.built) + 1]
    OBVIOUS
  <1>4. /\ call.pc = "reloading" /\ call.source <= Len(Reloaders)
        /\ Len(call.built) < Len(Files(t)) /\ UNCHANGED <<held, reloadMu>>
        /\ \/ CallStep(c, WithRead(call, disk[file]))
           \/ CallStep(c, Failed(call))
    BY <1>1, <1>2, <1>3 DEF ReadFile, WithRead
  <1>5. /\ DOMAIN call = CallFields
        /\ Began(call, disk) /\ Underway(call, held, disk) /\ reloadMu = c
        /\ HeldIs(held, disk) /\ DOMAIN calls = Callers
    BY <1>1, <1>4 DEF ReloadInv, CallIs
  <1>6. call.source \in 1..4 /\ call.source < 5 /\ t \in Sources
    BY <1>2, <1>4, <1>5, SourcesAre DEF Underway
  <1>7. PICK next : /\ CallStep(c, next)
                    /\ \/ next = WithRead(call, disk[file])
                       \/ next = Failed(call)
    BY <1>4
  <1>8. DOMAIN next = CallFields /\ next.pc = call.pc /\ Began(next, disk) /\ Underway(next, held, disk)
    <2>1. CASE next = Failed(call)
      <3>1. /\ DOMAIN next = CallFields
            /\ next.pc = call.pc /\ next.source = call.source + 1 /\ next.built = <<>>
            /\ next.started = call.started /\ next.before = call.before
            /\ next.failed = call.failed \cup {t}
        BY <1>2, <1>5, <2>1, FailedIs
      <3>2. Awaited(call, t, held)
        BY <1>2, <1>5, <1>6 DEF Underway
      <3>3. Settled(next, t, held)
        BY <3>1, <3>2 DEF Settled, Awaited
      <3>4. Underway(next, held, disk)
        BY <1>2, <1>5, <1>6, <3>1, <3>3, NextIsUnderway
      <3> QED
        BY <1>5, <3>1, <3>4 DEF Began
    <2>2. CASE next = WithRead(call, disk[file])
      BY <1>2, <1>3, <1>4, <1>5, <1>6, <2>2, ReadIsUnderway
    <2> QED
      BY <1>7, <2>1, <2>2
  <1>9. CallIs(c, next, reloadMu', held', disk)
    BY <1>4, <1>5, <1>8 DEF CallIs
  <1>10. calls'[c] = next
    BY <1>5, <1>7 DEF CallStep
  <1> QED
    BY <1>1, <1>4, <1>5, <1>7, <1>8, <1>9, <1>10, OthersStill

\* What was built is taken into service.
LEMMA StoreKeeps ==
  ASSUME ReloadInv, NEW c \in Callers, Store(c)
  PROVE  /\ ReloadInv' /\ calls'[c].pc = "reloading"
         /\ \A s \in Sources : \A i \in DOMAIN Files(s) : held'[s][i] >= held[s][i]
  <1>1. PICK call : call = calls[c]
    OBVIOUS
  <1>2. PICK t : t = Reloaders[call.source]
    OBVIOUS
  <1>3. PICK next : next = NextSource(call)
    OBVIOUS
  <1>4. /\ call.pc = "reloading" /\ call.source <= Len(Reloaders)
        /\ Len(call.built) = Len(Files(t)) /\ held' = [held EXCEPT ![t] = call.built]
        /\ UNCHANGED reloadMu /\ CallStep(c, next)
    BY <1>1, <1>2, <1>3 DEF Store
  <1>5. /\ DOMAIN call = CallFields
        /\ Began(call, disk) /\ Underway(call, held, disk) /\ reloadMu = c
        /\ HeldIs(held, disk) /\ DOMAIN calls = Callers
    BY <1>1, <1>4 DEF ReloadInv, CallIs
  <1>6. call.source \in 1..4 /\ call.source < 5 /\ t \in Sources
    BY <1>2, <1>4, <1>5, SourcesAre DEF Underway
  <1>7. /\ DOMAIN held' = Sources /\ held'[t] = call.built
         /\ \A s \in Sources \ {t} : held'[s] = held[s]
    BY <1>4, <1>5, <1>6 DEF HeldIs
  <1>8. /\ HeldIs(held', disk)
        /\ \A s \in Sources : \A i \in DOMAIN Files(s) : held'[s][i] >= held[s][i]
        /\ \A i \in DOMAIN Files(t) : held'[t][i] >= call.started[Files(t)[i]]
    <2>1. /\ HeldIs(held, disk) /\ Began(call, disk) /\ Underway(call, held, disk)
          /\ call.source < 5 /\ Len(call.built) = Len(Files(t))
      BY <1>4, <1>5, <1>6
    <2>2. PICK k : k = held'
      OBVIOUS
    <2>3. Replaced(held, k, t, call.built)
      BY <1>7, <2>2 DEF Replaced
    <2>4. /\ HeldIs(k, disk)
          /\ \A s \in Sources : \A i \in DOMAIN Files(s) : k[s][i] >= held[s][i]
          /\ \A i \in DOMAIN Files(t) : k[t][i] >= call.started[Files(t)[i]]
      BY <1>2, <2>1, <2>3, StoreIsNewer
    <2> QED
      BY <2>2, <2>4
  <1>9. /\ DOMAIN next = CallFields
        /\ next.pc = call.pc /\ next.source = call.source + 1 /\ next.built = <<>>
        /\ next.started = call.started /\ next.before = call.before /\ next.failed = call.failed
    BY <1>3, <1>5, NextSourceIs
  <1>10. t \notin call.failed
    BY <1>2, <1>5, <1>6 DEF Underway, Awaited
  <1>11. Settled(next, t, held')
    BY <1>8, <1>9, <1>10 DEF Settled
  <1>12. Underway(next, held', disk)
    BY <1>2, <1>5, <1>6, <1>7, <1>9, <1>11, NextIsUnderway
  <1>13. CallIs(c, next, reloadMu', held', disk)
    BY <1>4, <1>5, <1>9, <1>12 DEF CallIs, Began
  <1>14. calls'[c] = next
    BY <1>4, <1>5 DEF CallStep
  <1> QED
    BY <1>1, <1>4, <1>8, <1>9, <1>13, <1>14, OthersStill

\* What a returning reload owes: it is past every source.
Owed(call) ==
  \A s \in Sources :
    IF s \in call.failed THEN held'[s] = call.before[s]
    ELSE \A i \in DOMAIN Files(s) : held'[s][i] >= call.started[Files(s)[i]]

\* A reload returns with every source settled.
LEMMA ReturnKeeps ==
  ASSUME ReloadInv, NEW c \in Callers, Return(c)
  PROVE  ReloadInv' /\ UNCHANGED held /\ Owed(calls[c])
  <1>1. PICK call : call = calls[c]
    OBVIOUS
  <1>2. /\ call.pc = "reloading" /\ call.source > Len(Reloaders)
        /\ CallStep(c, NoCall) /\ UNCHANGED held
    BY <1>1 DEF Return
  <1>3. Underway(call, held, disk) /\ HeldIs(held, disk)
    BY <1>1, <1>2 DEF ReloadInv, CallIs
  <1>4. \A s \in Sources : Settled(call, s, held)
    BY <1>2, <1>3, SourcesAre DEF Underway
  <1>5. CallIs(c, NoCall, reloadMu', held', disk)
    BY DEF CallIs, CallFields, NoCall
  <1>6. ReloadInv'
    BY <1>1, <1>2, <1>3, <1>5, OthersStill
  <1> QED
    BY <1>1, <1>2, <1>4, <1>6 DEF Owed, Settled

\* A reload is asked for: it waits for the lock.
LEMMA CallKeeps ==
  ASSUME ReloadInv, NEW c \in Callers, Call(c)
  PROVE  ReloadInv' /\ UNCHANGED held
  <1>1. PICK wait : wait = [NoCall EXCEPT !.pc = "waiting", !.started = disk]
    OBVIOUS
  <1>2. CallStep(c, wait) /\ UNCHANGED <<held, reloadMu, disk>> /\ HeldIs(held, disk)
    BY <1>1 DEF Call, CallStep, ReloadInv
  <1>3. /\ DOMAIN wait = CallFields
        /\ wait.pc = "waiting" /\ wait.source = 1 /\ wait.built = <<>> /\ wait.failed = {}
        /\ wait.started = disk
    BY <1>1 DEF NoCall, CallFields
  <1>4. disk \in [DOMAIN Content -> Nat] /\ \A f \in DOMAIN Content : disk[f] <= disk[f]
    BY <1>2 DEF HeldIs
  <1>5. CallIs(c, wait, reloadMu, held, disk)
    BY <1>3, <1>4 DEF CallIs, Began
  <1>6. DOMAIN calls' = Callers /\ calls'[c] = wait /\ \A b \in Callers \ {c} : calls'[b] = calls[b]
    BY <1>2 DEF ReloadInv, CallStep
  <1> QED
    BY <1>2, <1>5, <1>6 DEF ReloadInv

\* A reload takes the lock nobody holds.
LEMMA LockKeeps ==
  ASSUME ReloadInv, NEW c \in Callers, Lock(c)
  PROVE  ReloadInv' /\ UNCHANGED held
  <1>1. PICK call : call = calls[c]
    OBVIOUS
  <1>2. PICK next : next = [call EXCEPT !.pc = "reloading", !.before = held]
    OBVIOUS
  <1>3. /\ call.pc = "waiting" /\ reloadMu = Nobody /\ reloadMu' = c
        /\ CallStep(c, next) /\ UNCHANGED held
    BY <1>1, <1>2 DEF Lock
  <1>4. /\ DOMAIN call = CallFields
        /\ Began(call, disk) /\ call.source = 1 /\ call.built = <<>> /\ call.failed = {}
        /\ HeldIs(held, disk)
    BY <1>1, <1>3 DEF ReloadInv, CallIs
  <1>5. /\ DOMAIN next = CallFields
        /\ next.pc = "reloading" /\ next.source = 1 /\ next.built = <<>> /\ next.failed = {}
        /\ next.started = call.started /\ next.before = held
    <2> DEFINE n == [call EXCEPT !.pc = "reloading"]
    <2>1. /\ DOMAIN n = CallFields
          /\ n.pc = "reloading" /\ n.source = 1 /\ n.built = <<>> /\ n.failed = {}
          /\ n.started = call.started
      BY <1>4 DEF CallFields
    <2>2. next = [n EXCEPT !.before = held]
      BY <1>2
    <2> HIDE DEF n
    <2> QED
      BY <2>1, <2>2 DEF CallFields
  <1>6. Began(next, disk)
    BY <1>4, <1>5 DEF Began
  <1>7. Underway(next, held, disk)
    BY <1>5, SourcesAre DEF Underway, Awaited, Building
  <1>8. CallIs(c, next, reloadMu', held', disk)
    BY <1>3, <1>5, <1>6, <1>7 DEF CallIs
  <1> QED
    BY <1>1, <1>3, <1>4, <1>8, OthersStill

\* The operator replaces a file by a later version.
LEMMA ReplaceKeeps ==
  ASSUME ReloadInv, NEW f \in DOMAIN disk, Replace(f)
  PROVE  ReloadInv' /\ UNCHANGED <<held, calls>>
  <1>1. disk' = [disk EXCEPT ![f] = @ + 1] /\ UNCHANGED <<held, calls, reloadMu>> /\ HeldIs(held, disk)
    BY DEF Replace, ReloadInv
  <1>2. /\ disk' \in [DOMAIN Content -> Nat]
        /\ \A g \in DOMAIN Content : disk[g] <= disk'[g]
    BY <1>1 DEF HeldIs
  <1>3. ASSUME NEW s \in Sources, NEW i \in DOMAIN Files(s)
        PROVE  held[s][i] <= disk'[Files(s)[i]]
    <2>1. /\ Files(s)[i] \in DOMAIN Content /\ held[s][i] \in Nat
          /\ held[s][i] <= disk[Files(s)[i]]
      BY <1>1, SourcesAre DEF HeldIs
    <2>2. disk[Files(s)[i]] \in Nat /\ disk'[Files(s)[i]] \in Nat
      BY <1>1, <1>2, <2>1 DEF HeldIs
    <2> QED
      BY <1>2, <2>1, <2>2
  <1>4. HeldIs(held, disk')
    BY <1>1, <1>2, <1>3 DEF HeldIs
  <1>5. ASSUME NEW c \in Callers
        PROVE  CallIs(c, calls[c], reloadMu, held, disk')
    <2>1. CallIs(c, calls[c], reloadMu, held, disk)
      BY DEF ReloadInv
    <2> QED
      BY <1>1, <1>2, <2>1, CallStill
  <1> QED
    BY <1>1, <1>4, <1>5 DEF ReloadInv

\* Every step keeps the invariant, takes no source back, and ends a reload only
\* when it has done what it owes.
LEMMA NextReloadInv ==
  ASSUME ReloadInv, [Next]_vars
  PROVE  /\ ReloadInv'
         /\ \A s \in Sources : \A i \in DOMAIN Files(s) : held'[s][i] >= held[s][i]
         /\ \A c \in Callers : calls[c].pc = "reloading" /\ calls'[c].pc = "idle" => Owed(calls[c])
  <1>0. \A s \in Sources : \A i \in DOMAIN Files(s) : held[s][i] >= held[s][i]
    BY DEF ReloadInv, HeldIs
  <1>1. CASE UNCHANGED <<disk, held, calls, reloadMu>>
    BY <1>0, <1>1 DEF ReloadInv
  <1>2. ASSUME NEW c \in Callers, Reload(c)
        PROVE  /\ ReloadInv'
               /\ \A s \in Sources : \A i \in DOMAIN Files(s) : held'[s][i] >= held[s][i]
               /\ Owed(calls[c]) \/ calls[c].pc # "reloading" \/ calls'[c].pc # "idle"
               /\ \A b \in Callers \ {c} : calls'[b] = calls[b]
    <2>1. \A b \in Callers \ {c} : calls'[b] = calls[b]
      BY <1>2 DEF Reload, Call, Lock, ReadFile, Store, Return, CallStep, ReloadInv
    <2>2. CASE Call(c) \/ Lock(c)
      <3>1. ReloadInv' /\ UNCHANGED held
        BY <2>2, CallKeeps, LockKeeps
      <3>2. calls[c].pc # "reloading"
        BY <2>2 DEF Call, Lock
      <3> QED
        BY <1>0, <2>1, <3>1, <3>2
    <2>3. CASE ReadFile(c)
      BY <1>0, <2>1, <2>3, ReadFileKeeps
    <2>4. CASE Store(c)
      BY <2>1, <2>4, StoreKeeps
    <2>5. CASE Return(c)
      BY <1>0, <2>1, <2>5, ReturnKeeps
    <2> QED
      BY <1>2, <2>2, <2>3, <2>4, <2>5 DEF Reload
  <1>3. CASE \E f \in DOMAIN disk : Replace(f)
    BY <1>0, <1>3, ReplaceKeeps
  <1>4. CASE \E c \in Callers : Reload(c)
    BY <1>2, <1>4
  <1> QED
    BY <1>1, <1>3, <1>4, Movers

\* Reloads that overlap, with files changing under them, never take a source
\* back, and one that returns has brought each source it did not fail at least
\* to the files on disk when it was asked for (Chain.Reload).
THEOREM ReloadsMoveForwardHolds == Spec => ReloadsMoveForward
  <1>1. Init => ReloadInv
    <2> SUFFICES ASSUME Init
                 PROVE  ReloadInv
      OBVIOUS
    <2>1. disk \in [DOMAIN Content -> Nat] /\ \A f \in DOMAIN Content : disk[f] = 1
      BY DEF Init
    <2>2. ToSet(Reloaders) = Sources
      BY DEF ToSet, Reloaders, Sources
    <2>3. DOMAIN held = Sources /\ \A s \in Sources : held[s] = [i \in DOMAIN Files(s) |-> 1]
      BY <2>2 DEF Init
    <2>4. HeldIs(held, disk)
      BY <2>1, <2>3, SourcesAre DEF HeldIs
    <2>5. DOMAIN calls = Callers /\ \A c \in Callers : calls[c] = NoCall
      BY DEF Init
    <2>6. \A c \in Callers : CallIs(c, NoCall, reloadMu, held, disk)
      BY DEF CallIs, CallFields, NoCall
    <2> QED
      BY <2>4, <2>5, <2>6 DEF ReloadInv
  <1>2. ReloadInv /\ [Next]_vars => ReloadInv'
    BY NextReloadInv
  <1>3. ReloadInv /\ [Next]_vars =>
          [/\ \A s \in DOMAIN held : \A i \in DOMAIN held[s] : held'[s][i] >= held[s][i]
           /\ \A c \in Callers : calls[c].pc = "reloading" /\ calls'[c].pc = "idle" =>
                \A s \in DOMAIN held :
                  IF s \in calls[c].failed THEN held'[s] = calls[c].before[s]
                  ELSE \A i \in DOMAIN held[s] : held'[s][i] >= calls[c].started[Files(s)[i]]]_vars
    <2> SUFFICES ASSUME ReloadInv, [Next]_vars
                 PROVE  /\ \A s \in DOMAIN held : \A i \in DOMAIN held[s] : held'[s][i] >= held[s][i]
                        /\ \A c \in Callers : calls[c].pc = "reloading" /\ calls'[c].pc = "idle" =>
                             \A s \in DOMAIN held :
                               IF s \in calls[c].failed THEN held'[s] = calls[c].before[s]
                               ELSE \A i \in DOMAIN held[s] : held'[s][i] >= calls[c].started[Files(s)[i]]
      OBVIOUS
    <2>1. DOMAIN held = Sources /\ \A s \in Sources : DOMAIN held[s] = DOMAIN Files(s)
      BY DEF ReloadInv, HeldIs
    <2> QED
      BY <2>1, NextReloadInv DEF Owed
  <1> QED
    BY <1>1, <1>2, <1>3, PTL DEF Spec, ReloadsMoveForward
-----------------------------------------------------------------------------
(* The pushes.                                                             *)

ReaderFields == {"pc", "at", "snap", "knew", "reads", "rows", "crossed", "cut"}
WriterFields == {"pc", "table", "todo", "request", "meant", "received", "sends", "failures", "samples",
                 "lastSuccess"}
PushedFields == {"n", "acked", "failed", "samples", "last"}

\* Once begun, a collection has the rows of the other collectors.
ReaderIs(reader) ==
  /\ DOMAIN reader = ReaderFields
  /\ reader.pc # "idle" => Others \subseteq reader.rows

\* The first symbol is the empty string, in every request.
IsList(s) == \E S : s \in Seq(S)
SymbolsAre(table) ==
  /\ DOMAIN table = {"symbols", "index"}
  /\ IsList(table.symbols) /\ Len(table.symbols) >= 1 /\ table.symbols[1] = NoName

\* What the index knows is among the symbols, where it says.
At(ref, symbols, v) == ref \in Nat /\ ref < Len(symbols) /\ symbols[ref + 1] = v
IndexIs(table) == \A v \in DOMAIN table.index : At(table.index[v], table.symbols, v)

\* References read back as the labels they were taken of.
ReadsBack(refs, labels, symbols) ==
  /\ DOMAIN refs = DOMAIN labels
  /\ labels = [j \in DOMAIN labels |-> labels[j]]
  /\ \A j \in DOMAIN labels : At(refs[j], symbols, labels[j])

RequestIs(request, meant, symbols) ==
  /\ IsList(request) /\ IsList(meant) /\ Len(request) = Len(meant)
  /\ \A i \in 1..Len(request) : ReadsBack(request[i], meant[i], symbols)

\* A push that is begun is with the reader, or with the writer until it is
\* known how it ended.
OnItsWay(reader, w) == reader.pc # "idle" \/ w.pc \in {"building", "writing"}

CountersAre(reader, w, p) ==
  /\ {p.n, w.sends, w.failures} \subseteq Nat
  /\ w.sends = p.acked /\ w.failures = p.failed
  /\ w.sends + w.failures + (IF OnItsWay(reader, w) THEN 1 ELSE 0) = p.n
  /\ w.pc # "idle" => reader.pc = "idle"
  /\ p.samples = IF w.pc = "acked" THEN w.samples + Len(w.request) ELSE w.samples
  /\ IF w.pc \in {"acked", "sampled"} THEN p.last = p.n ELSE w.lastSuccess = p.last

WriterIs(w) ==
  /\ DOMAIN w = WriterFields
  /\ w.pc \in {"idle", "building", "writing", "acked", "sampled"}
  /\ SymbolsAre(w.table)
  /\ w.pc = "idle" => w.request = <<>> /\ w.meant = <<>>
  /\ w.pc = "building" => IndexIs(w.table) /\ (w.todo # {} \/ w.request # <<>>)
  /\ w.pc \in {"building", "writing"} => RequestIs(w.request, w.meant, w.table.symbols)

PushInv ==
  /\ DOMAIN readers = {"scrape", "push"}
  /\ \A r \in DOMAIN readers : ReaderIs(readers[r])
  /\ WriterIs(writer)
  /\ DOMAIN pushed = PushedFields
  /\ CountersAre(readers["push"], writer, pushed)

\* One more of anything leaves a list a list.
LEMMA AppendList ==
  ASSUME NEW s, NEW x, IsList(s)
  PROVE  /\ IsList(Append(s, x))
         /\ Len(s) \in Nat /\ Len(Append(s, x)) = Len(s) + 1
         /\ \A i \in 1..Len(s) : Append(s, x)[i] = s[i]
         /\ Append(s, x)[Len(s) + 1] = x
  <1>1. PICK S : s \in Seq(S)
    BY DEF IsList
  <1>2. PICK T : T = S \cup {x}
    OBVIOUS
  <1>3. s \in Seq(T)
    <2>1. Len(s) \in Nat /\ s \in [1..Len(s) -> S]
      BY <1>1, LenProperties
    <2>2. s \in [1..Len(s) -> T]
      BY <1>2, <2>1
    <2> QED
      BY <2>1, <2>2, SeqDef
  <1>4. x \in T
    BY <1>2
  <1>5. Append(s, x) \in Seq(T)
    BY <1>3, <1>4, AppendProperties
  <1> QED
    BY <1>3, <1>4, <1>5, AppendProperties, LenProperties DEF IsList

\* A reset leaves the empty string alone, and the index knows it.
LEMMA ResetIs ==
  ASSUME NEW table, SymbolsAre(table)
  PROVE  SymbolsAre(ResetTable(table)) /\ IndexIs(ResetTable(table))
  <1>1. PICK S : table.symbols \in Seq(S)
    BY DEF SymbolsAre, IsList
  <1>2. PICK s \in Seq(S) : s = table.symbols
    BY <1>1
  <1>3. Len(s) \in Nat /\ Len(s) >= 1 /\ s[1] = NoName
    BY <1>2, LenProperties DEF SymbolsAre
  <1>4. SubSeq(s, 1, 1) \in Seq(S) /\ Len(SubSeq(s, 1, 1)) = 1 /\ SubSeq(s, 1, 1)[1] = s[1]
    BY <1>3, SubSeqProperties
  <1>5. PICK r \in Seq(S) : r = SubSeq(s, 1, 1) /\ Len(r) = 1 /\ r[1] = NoName
    BY <1>3, <1>4, Zenon
  <1>6. /\ DOMAIN ResetTable(table) = {"symbols", "index"}
        /\ ResetTable(table).symbols = r /\ ResetTable(table).index = OneSymbol
    BY <1>2, <1>5 DEF ResetTable
  <1>7. IsList(r)
    BY DEF IsList
  <1>8. DOMAIN OneSymbol = {NoName} /\ OneSymbol[NoName] = 0
    BY DEF OneSymbol
  <1>9. At(0, r, NoName)
    BY <1>5 DEF At
  <1>10. SymbolsAre(ResetTable(table))
    BY <1>5, <1>6, <1>7 DEF SymbolsAre
  <1>11. IndexIs(ResetTable(table))
    BY <1>6, <1>8, <1>9 DEF IndexIs
  <1> QED
    BY <1>10, <1>11

\* One more symbol moves none of those there are, and the index knows it.
LEMMA InternedIs ==
  ASSUME NEW table, NEW v, SymbolsAre(table), IndexIs(table)
  PROVE  /\ SymbolsAre(Interned(table, v)) /\ IndexIs(Interned(table, v))
         /\ \A ref, u : At(ref, table.symbols, u) => At(ref, Interned(table, v).symbols, u)
  <1>1. CASE v \in DOMAIN table.index
    BY <1>1 DEF Interned
  <1>2. CASE v \notin DOMAIN table.index
    <2> DEFINE n == Len(table.symbols)
    <2>1. PICK s, t : s = table.symbols /\ t = Append(s, v)
      OBVIOUS
    <2>2. /\ DOMAIN Interned(table, v) = {"symbols", "index"}
          /\ Interned(table, v).symbols = t
          /\ DOMAIN Interned(table, v).index = DOMAIN table.index \cup {v}
          /\ Interned(table, v).index[v] = Len(s)
          /\ \A u \in DOMAIN table.index : Interned(table, v).index[u] = table.index[u]
      BY <1>2, <2>1 DEF Interned
    <2>3. IsList(s) /\ Len(s) >= 1 /\ s[1] = NoName
      BY <2>1 DEF SymbolsAre
    <2>4. /\ IsList(t) /\ Len(s) \in Nat /\ Len(t) = Len(s) + 1 /\ t[Len(s) + 1] = v
          /\ \A i \in 1..Len(s) : t[i] = s[i]
      BY <2>1, <2>3, AppendList
    <2>5. ASSUME NEW ref, NEW u, At(ref, s, u)
          PROVE  At(ref, t, u)
      BY <2>4, <2>5 DEF At
    <2>6. At(Len(s), t, v)
      BY <2>4 DEF At
    <2>7. IndexIs(Interned(table, v))
      BY <2>1, <2>2, <2>5, <2>6 DEF IndexIs
    <2>8. SymbolsAre(Interned(table, v))
      BY <2>2, <2>3, <2>4 DEF SymbolsAre
    <2> QED
      BY <2>1, <2>2, <2>5, <2>7, <2>8
  <1> QED
    BY <1>1, <1>2

\* One more series reads back, and so do those before it.
LEMMA RequestAppend ==
  ASSUME NEW request, NEW meant, NEW symbols, NEW refs, NEW labels,
         RequestIs(request, meant, symbols), ReadsBack(refs, labels, symbols)
  PROVE  RequestIs(Append(request, refs), Append(meant, labels), symbols) /\ Append(request, refs) # <<>>
  <1>1. PICK more, meant2 : more = Append(request, refs) /\ meant2 = Append(meant, labels)
    OBVIOUS
  <1>2. IsList(request) /\ IsList(meant) /\ Len(request) = Len(meant)
    BY DEF RequestIs
  <1>3. /\ IsList(more) /\ Len(request) \in Nat /\ Len(more) = Len(request) + 1
        /\ \A i \in 1..Len(request) : more[i] = request[i]
        /\ more[Len(request) + 1] = refs
    BY <1>1, <1>2, AppendList
  <1>4. /\ IsList(meant2) /\ Len(meant2) = Len(meant) + 1
        /\ \A i \in 1..Len(meant) : meant2[i] = meant[i]
        /\ meant2[Len(meant) + 1] = labels
    BY <1>1, <1>2, AppendList
  <1>5. ASSUME NEW i \in 1..Len(more)
        PROVE  ReadsBack(more[i], meant2[i], symbols)
    <2>1. CASE i = Len(request) + 1
      BY <1>2, <1>3, <1>4, <2>1
    <2>2. CASE i \in 1..Len(request)
      BY <1>2, <1>3, <1>4, <2>2 DEF RequestIs
    <2> QED
      BY <1>3, <2>1, <2>2
  <1>6. more # <<>>
    <2>1. PICK S : more \in Seq(S)
      BY <1>3 DEF IsList
    <2>2. Len(more) # 0
      BY <1>3
    <2> QED
      BY <2>1, <2>2, EmptySeq
  <1> QED
    BY <1>1, <1>2, <1>3, <1>4, <1>5, <1>6 DEF RequestIs

\* Where all that was symbols still is, what read back still does.
LEMMA RequestKept ==
  ASSUME NEW request, NEW meant, NEW symbols, NEW more, RequestIs(request, meant, symbols),
         \A ref, v : At(ref, symbols, v) => At(ref, more, v)
  PROVE  RequestIs(request, meant, more)
  BY DEF RequestIs, ReadsBack

\* What an endpoint reads of a request that reads back.
LEMMA ResolvedIs ==
  ASSUME NEW w, RequestIs(w.request, w.meant, w.table.symbols)
  PROVE  Resolved(w) = w.meant
  <1> DEFINE row(i) == [j \in DOMAIN w.request[i] |->
                          IF w.request[i][j] < Len(w.table.symbols)
                          THEN w.table.symbols[w.request[i][j] + 1] ELSE NoName]
  <1>1. ASSUME NEW i \in 1..Len(w.request)
        PROVE  row(i) = w.meant[i]
    <2>1. ReadsBack(w.request[i], w.meant[i], w.table.symbols)
      BY DEF RequestIs
    <2>2. PICK refs, labels, symbols :
            refs = w.request[i] /\ labels = w.meant[i] /\ symbols = w.table.symbols
      OBVIOUS
    <2>3. \A j \in DOMAIN refs : (IF refs[j] < Len(symbols) THEN symbols[refs[j] + 1] ELSE NoName) = labels[j]
      BY <2>1, <2>2 DEF ReadsBack, At
    <2>4. DOMAIN refs = DOMAIN labels /\ labels = [j \in DOMAIN labels |-> labels[j]]
      BY <2>1, <2>2 DEF ReadsBack
    <2>5. [j \in DOMAIN refs |-> IF refs[j] < Len(symbols) THEN symbols[refs[j] + 1] ELSE NoName] = labels
      BY <2>3, <2>4
    <2> QED
      BY <2>2, <2>5
  <1>2. PICK S : w.request \in Seq(S)
    BY DEF RequestIs, IsList
  <1>3. PICK T : w.meant \in Seq(T)
    BY DEF RequestIs, IsList
  <1>4. DOMAIN w.request = 1..Len(w.request)
    BY <1>2, LenProperties
  <1>5. DOMAIN w.meant = 1..Len(w.request) /\ w.meant = [i \in DOMAIN w.meant |-> w.meant[i]]
    BY <1>3, LenProperties DEF RequestIs
  <1>6. Resolved(w) = [i \in 1..Len(w.request) |-> row(i)]
    BY <1>4 DEF Resolved
  <1> HIDE DEF row
  <1> QED
    BY <1>1, <1>5, <1>6

\* A reader that steps leaves the other, and all the pushers' but the clock.
LEMMA ReaderStepIs ==
  ASSUME PushInv, NEW r \in {"scrape", "push"}, NEW reader, ReaderStep(r, reader), ReaderIs(reader)
  PROVE  /\ DOMAIN readers' = {"scrape", "push"} /\ \A q \in DOMAIN readers' : ReaderIs(readers'[q])
         /\ readers'[r] = reader
         /\ r # "push" => readers'["push"] = readers["push"]
  BY DEF PushInv, ReaderStep

\* The rows a step of a collection adds are added to those it has.
LEMMA CollectIs ==
  ASSUME PushInv, NEW r \in {"scrape", "push"}, Collect(r)
  PROVE  /\ UNCHANGED <<writer, pushed>>
         /\ readers[r].pc # "idle"
         /\ \E reader : ReaderStep(r, reader) /\ ReaderIs(reader) /\ reader.pc # "idle"
  <1>1. UNCHANGED <<writer, pushed>> /\ readers[r].pc # "idle"
    BY DEF Collect, ReadTable, NameSystems, NameDevices, NamePorts, NameVLANs
  <1>2. ReaderIs(readers[r])
    BY DEF PushInv
  <1>3. ASSUME NEW pc, NEW more, pc # "idle", ReaderStep(r, [readers[r] EXCEPT !.pc = pc, !.rows = @ \cup more])
        PROVE  \E reader : ReaderStep(r, reader) /\ ReaderIs(reader) /\ reader.pc # "idle"
    <2>1. PICK reader : reader = [readers[r] EXCEPT !.pc = pc, !.rows = @ \cup more]
      OBVIOUS
    <2>2. ReaderIs(reader) /\ reader.pc # "idle"
      BY <1>1, <1>2, <1>3, <2>1 DEF ReaderIs, ReaderFields
    <2> QED
      BY <1>3, <2>1, <2>2
  <1>4. CASE NameSystems(r) \/ NameDevices(r) \/ NamePorts(r) \/ NameVLANs(r)
    BY <1>3, <1>4 DEF NameSystems, NameDevices, NamePorts, NameVLANs
  <1>5. CASE ReadTable(r)
    <2> DEFINE t == Kept[readers[r].at]
    <2>1. PICK s, cut :
            ReaderStep(r, [readers[r] EXCEPT
               !.at = @ + 1,
               !.pc = IF t = "asns" THEN "systems" ELSE @,
               !.reads = [u \in DOMAIN @ \cup {t} |-> IF u = t THEN ToSet(s) ELSE @[u]],
               !.rows = @ \cup EntryRows(t, OtherLabels(t), Whole(tables[t].other))
                          \cup UNION {EntryRows(t, Labels(t, e.key), e) : e \in ToSet(cut)},
               !.crossed = @ \cup IF t \in PortTables THEN UNION {Ports(e.key) : e \in ToSet(cut)} ELSE {},
               !.cut = IF t = "asns" THEN cut ELSE @])
      BY <1>5 DEF ReadTable
    <2>2. PICK more, ports, read, tail, last :
            /\ more = EntryRows(t, OtherLabels(t), Whole(tables[t].other))
            /\ tail = UNION {EntryRows(t, Labels(t, e.key), e) : e \in ToSet(cut)}
            /\ ports = IF t \in PortTables THEN UNION {Ports(e.key) : e \in ToSet(cut)} ELSE {}
            /\ read = ToSet(s) /\ last = cut
      OBVIOUS
    <2>3. PICK reader :
            ReaderStep(r, reader) /\ reader = [readers[r] EXCEPT
               !.at = @ + 1,
               !.pc = IF t = "asns" THEN "systems" ELSE @,
               !.reads = [u \in DOMAIN @ \cup {t} |-> IF u = t THEN read ELSE @[u]],
               !.rows = @ \cup more \cup tail,
               !.crossed = @ \cup ports,
               !.cut = IF t = "asns" THEN last ELSE @]
      BY <2>1, <2>2
    <2> HIDE DEF t
    <2>4. /\ DOMAIN reader = ReaderFields
          /\ reader.pc = IF t = "asns" THEN "systems" ELSE readers[r].pc
          /\ reader.rows = readers[r].rows \cup more \cup tail
      BY <1>2, <2>3 DEF ReaderIs, ReaderFields
    <2>5. reader.pc # "idle" /\ ReaderIs(reader)
      BY <1>1, <1>2, <2>4 DEF ReaderIs
    <2>6. ReaderStep(r, reader)
      BY <2>3, Zenon
    <2> QED
      BY <1>1, <2>5, <2>6, Zenon
  <1> QED
    BY <1>1, <1>4, <1>5 DEF Collect

\* A collection goes on, or is begun or served, and the writer is where it was.
LEMMA ReaderKeeps ==
  ASSUME PushInv, NEW r \in {"scrape", "push"}, Begin(r) \/ Collect(r) \/ (r = "scrape" /\ Served)
  PROVE  PushInv'
  <1>1. CASE Collect(r)
    <2>1. PICK reader : ReaderStep(r, reader) /\ ReaderIs(reader) /\ reader.pc # "idle"
      BY <1>1, CollectIs
    <2>2. UNCHANGED <<writer, pushed>> /\ readers[r].pc # "idle"
      BY <1>1, CollectIs
    <2>3. CountersAre(readers'["push"], writer, pushed)
      BY <2>1, <2>2, ReaderStepIs DEF PushInv, CountersAre, OnItsWay
    <2> QED
      BY <2>1, <2>2, <2>3, ReaderStepIs DEF PushInv
  <1>2. CASE Begin(r)
    <2>1. PICK reader : /\ reader = [NoReading EXCEPT !.pc = "tables", !.snap = held.mapping[1],
                                       !.knew = DOMAIN names, !.rows = Others \cup HealthRows]
                        /\ ReaderStep(r, reader)
      BY <1>2 DEF Begin
    <2>2. ReaderIs(reader) /\ reader.pc # "idle"
      BY <2>1 DEF ReaderIs, ReaderFields, NoReading
    <2>3. /\ writer' = writer /\ readers[r].pc = "idle" /\ (r = "push" => writer.pc = "idle")
          /\ pushed' = [pushed EXCEPT !.n = IF r = "push" THEN @ + 1 ELSE @]
      BY <1>2 DEF Begin
    <2>4. /\ DOMAIN pushed' = PushedFields
          /\ \A f \in {"acked", "failed", "samples", "last"} : pushed'[f] = pushed[f]
          /\ pushed'.n = IF r = "push" THEN pushed.n + 1 ELSE pushed.n
      BY <2>3 DEF PushInv, PushedFields
    <2>5. CountersAre(readers["push"], writer, pushed)
      BY DEF PushInv
    <2>6. ASSUME r = "push"
          PROVE  CountersAre(readers'["push"], writer, pushed')
      <3>1. readers'["push"].pc # "idle" /\ writer.pc = "idle" /\ readers["push"].pc = "idle"
        BY <2>1, <2>2, <2>3, <2>6, ReaderStepIs
      <3>2. pushed'.n = pushed.n + 1 /\ pushed'.acked = pushed.acked /\ pushed'.failed = pushed.failed
            /\ pushed'.samples = pushed.samples /\ pushed'.last = pushed.last
        BY <2>4, <2>6
      <3> QED
        BY <2>5, <3>1, <3>2 DEF CountersAre, OnItsWay
    <2>7. ASSUME r # "push"
          PROVE  CountersAre(readers'["push"], writer, pushed')
      <3>1. readers'["push"] = readers["push"]
        BY <2>1, <2>2, <2>7, ReaderStepIs
      <3>2. pushed'.n = pushed.n /\ pushed'.acked = pushed.acked /\ pushed'.failed = pushed.failed
            /\ pushed'.samples = pushed.samples /\ pushed'.last = pushed.last
        BY <2>4, <2>7
      <3> QED
        BY <2>5, <3>1, <3>2 DEF CountersAre, OnItsWay
    <2> QED
      BY <2>1, <2>2, <2>3, <2>4, <2>6, <2>7, ReaderStepIs DEF PushInv
  <1>3. CASE r = "scrape" /\ Served
    <2>1. ReaderStep(r, NoReading) /\ UNCHANGED <<writer, pushed>>
      BY <1>3 DEF Served
    <2>2. ReaderIs(NoReading)
      BY DEF ReaderIs, ReaderFields, NoReading
    <2> QED
      BY <1>3, <2>1, <2>2, ReaderStepIs DEF PushInv
  <1> QED
    BY <1>1, <1>2, <1>3

\* A push gathered fails, or is begun to be built with no symbol and no series
\* but those it has to encode.
LEMMA GatheredKeeps ==
  ASSUME PushInv, GatherFails \/ Build
  PROVE  PushInv'
  <1> DEFINE reader == readers["push"]
  <1>1. /\ DOMAIN readers = {"scrape", "push"} /\ \A r \in DOMAIN readers : ReaderIs(readers[r])
        /\ WriterIs(writer) /\ DOMAIN pushed = PushedFields /\ CountersAre(reader, writer, pushed)
    BY DEF PushInv
  <1>2. reader.pc = "gathered" /\ readers' = [readers EXCEPT !["push"] = NoReading]
    BY DEF GatherFails, Build
  <1>3. writer.pc = "idle" /\ writer.request = <<>> /\ writer.meant = <<>>
    BY <1>1, <1>2 DEF CountersAre, WriterIs
  <1>4. ReaderIs(NoReading) /\ NoReading.pc = "idle"
    BY DEF ReaderIs, ReaderFields, NoReading
  <1>5. /\ DOMAIN readers' = {"scrape", "push"} /\ \A r \in DOMAIN readers' : ReaderIs(readers'[r])
        /\ readers'["push"] = NoReading
    BY <1>1, <1>2, <1>4
  <1>6. CASE GatherFails
    <2>1. writer' = FailedPush(writer) /\ pushed' = [pushed EXCEPT !.failed = @ + 1]
      BY <1>6 DEF GatherFails, PushStep
    <2>2. /\ DOMAIN writer' = WriterFields /\ writer'.pc = "idle" /\ writer'.failures = writer.failures + 1
          /\ writer'.request = <<>> /\ writer'.meant = <<>>
          /\ writer'.table = writer.table /\ writer'.sends = writer.sends /\ writer'.samples = writer.samples
          /\ writer'.lastSuccess = writer.lastSuccess
      BY <1>1, <2>1 DEF FailedPush, WriterIs, WriterFields
    <2>3. /\ DOMAIN pushed' = PushedFields /\ pushed'.failed = pushed.failed + 1 /\ pushed'.n = pushed.n
          /\ pushed'.acked = pushed.acked /\ pushed'.samples = pushed.samples /\ pushed'.last = pushed.last
      BY <1>1, <2>1 DEF PushedFields
    <2>4. CountersAre(readers'["push"], writer', pushed')
      BY <1>1, <1>2, <1>3, <1>4, <1>5, <2>2, <2>3 DEF CountersAre, OnItsWay
    <2>5. WriterIs(writer')
      BY <1>1, <2>2 DEF WriterIs
    <2> QED
      BY <1>5, <2>3, <2>4, <2>5 DEF PushInv
  <1>7. CASE Build
    <2> DEFINE todo == {row \in reader.rows : row.kind \in SampleValued}
    <2>1. /\ writer' = [writer EXCEPT !.pc = "building", !.table = ResetTable(@), !.todo = todo]
          /\ pushed' = pushed
      BY <1>7 DEF Build, PushStep
    <2>2. todo # {}
      <3>1. PICK row \in Others : row.kind \in SampleValued
        BY ScrapesAssumption
      <3>2. Others \subseteq reader.rows
        BY <1>1, <1>2 DEF ReaderIs
      <3> QED
        BY <3>1, <3>2
    <2> HIDE DEF todo
    <2>3. /\ DOMAIN writer' = WriterFields /\ writer'.pc = "building" /\ writer'.todo = todo
          /\ writer'.table = ResetTable(writer.table)
          /\ writer'.request = <<>> /\ writer'.meant = <<>>
          /\ writer'.sends = writer.sends /\ writer'.failures = writer.failures
          /\ writer'.samples = writer.samples /\ writer'.lastSuccess = writer.lastSuccess
      BY <1>1, <1>3, <2>1 DEF WriterIs, WriterFields
    <2>4. SymbolsAre(writer'.table) /\ IndexIs(writer'.table)
      BY <1>1, <2>3, ResetIs DEF WriterIs
    <2>5. RequestIs(<<>>, <<>>, writer'.table.symbols)
      <3>1. <<>> \in Seq({}) /\ Len(<<>>) = 0
        BY EmptySeq
      <3> QED
        BY <3>1 DEF RequestIs, IsList
    <2>6. CountersAre(readers'["push"], writer', pushed')
      BY <1>1, <1>2, <1>3, <1>4, <1>5, <2>1, <2>3 DEF CountersAre, OnItsWay
    <2>7. WriterIs(writer')
      BY <2>2, <2>3, <2>4, <2>5 DEF WriterIs
    <2> QED
      BY <1>1, <1>5, <2>1, <2>6, <2>7 DEF PushInv
  <1> QED
    BY <1>6, <1>7

\* One string or one series more: what is encoded reads back, and a push that
\* has nothing left to encode has something to send.
LEMMA EncodingKeeps ==
  ASSUME PushInv, Encode \/ Assemble
  PROVE  PushInv'
  <1>1. /\ WriterIs(writer) /\ CountersAre(readers["push"], writer, pushed)
        /\ writer.pc = "building" /\ UNCHANGED <<readers, pushed>>
    BY DEF PushInv, Encode, Assemble
  <1>2. /\ DOMAIN writer = WriterFields /\ SymbolsAre(writer.table) /\ IndexIs(writer.table)
        /\ writer.todo # {} \/ writer.request # <<>>
        /\ RequestIs(writer.request, writer.meant, writer.table.symbols)
    BY <1>1 DEF WriterIs
  <1>3. /\ WriterIs(writer') /\ writer'.pc \in {"building", "writing"}
        /\ writer'.sends = writer.sends /\ writer'.failures = writer.failures
        /\ writer'.samples = writer.samples /\ writer'.lastSuccess = writer.lastSuccess
    <2>1. CASE Assemble
      <3>1. writer.request # <<>>
        BY <1>2, <2>1 DEF Assemble
      <3>2. writer' = [writer EXCEPT !.pc = "writing"]
        BY <2>1, <3>1 DEF Assemble, PushStep
      <3>3. /\ DOMAIN writer' = WriterFields /\ writer'.pc = "writing"
            /\ \A f \in WriterFields \ {"pc"} : writer'[f] = writer[f]
        BY <1>2, <3>2 DEF WriterFields
      <3>4. /\ writer'.table = writer.table /\ writer'.request = writer.request /\ writer'.meant = writer.meant
            /\ writer'.sends = writer.sends /\ writer'.failures = writer.failures
            /\ writer'.samples = writer.samples /\ writer'.lastSuccess = writer.lastSuccess
        BY <3>3 DEF WriterFields
      <3> QED
        BY <1>2, <3>3, <3>4 DEF WriterIs
    <2>2. ASSUME NEW v, PushStep([writer EXCEPT !.table = Interned(@, v)]), writer.todo # {}
          PROVE  /\ WriterIs(writer') /\ writer'.pc \in {"building", "writing"}
                 /\ writer'.sends = writer.sends /\ writer'.failures = writer.failures
                 /\ writer'.samples = writer.samples /\ writer'.lastSuccess = writer.lastSuccess
      <3>1. writer' = [writer EXCEPT !.table = Interned(@, v)]
        BY <2>2 DEF PushStep
      <3>2. /\ DOMAIN writer' = WriterFields /\ writer'.pc = "building"
            /\ writer'.table = Interned(writer.table, v) /\ writer'.todo = writer.todo
            /\ writer'.request = writer.request /\ writer'.meant = writer.meant
            /\ writer'.sends = writer.sends /\ writer'.failures = writer.failures
            /\ writer'.samples = writer.samples /\ writer'.lastSuccess = writer.lastSuccess
        BY <1>1, <1>2, <3>1 DEF WriterFields
      <3>3. /\ SymbolsAre(writer'.table) /\ IndexIs(writer'.table)
            /\ \A ref, u : At(ref, writer.table.symbols, u) => At(ref, writer'.table.symbols, u)
        BY <1>2, <3>2, InternedIs
      <3>4. RequestIs(writer'.request, writer'.meant, writer'.table.symbols)
        BY <1>2, <3>2, <3>3, RequestKept
      <3> QED
        BY <2>2, <3>2, <3>3, <3>4 DEF WriterIs
    <2>3. ASSUME NEW row, LET labels == LabelsOf(row)
                          IN /\ {i \in DOMAIN labels : labels[i] \notin DOMAIN writer.table.index} = {}
                             /\ PushStep([writer EXCEPT !.todo = @ \ {row}, !.meant = Append(@, labels),
                                  !.request = Append(@, [i \in DOMAIN labels |-> writer.table.index[labels[i]]])])
          PROVE  /\ WriterIs(writer') /\ writer'.pc \in {"building", "writing"}
                 /\ writer'.sends = writer.sends /\ writer'.failures = writer.failures
                 /\ writer'.samples = writer.samples /\ writer'.lastSuccess = writer.lastSuccess
      <3>1. PICK labels, refs : /\ labels = LabelsOf(row)
                                /\ refs = [i \in DOMAIN labels |-> writer.table.index[labels[i]]]
        OBVIOUS
      <3>2. writer' = [writer EXCEPT !.todo = @ \ {row}, !.meant = Append(@, labels), !.request = Append(@, refs)]
        BY <2>3, <3>1 DEF PushStep
      <3>3. /\ DOMAIN writer' = WriterFields /\ writer'.pc = "building"
            /\ writer'.table = writer.table
            /\ writer'.request = Append(writer.request, refs) /\ writer'.meant = Append(writer.meant, labels)
            /\ writer'.sends = writer.sends /\ writer'.failures = writer.failures
            /\ writer'.samples = writer.samples /\ writer'.lastSuccess = writer.lastSuccess
        BY <1>1, <1>2, <3>2 DEF WriterFields
      <3>4. labels = [j \in DOMAIN labels |-> labels[j]]
        BY <3>1 DEF LabelsOf
      <3>5. ReadsBack(refs, labels, writer.table.symbols)
        <4>1. \A j \in DOMAIN labels : labels[j] \in DOMAIN writer.table.index
          BY <2>3, <3>1
        <4>2. \A j \in DOMAIN labels : refs[j] = writer.table.index[labels[j]]
          BY <3>1
        <4>3. DOMAIN refs = DOMAIN labels
          BY <3>1
        <4> QED
          BY <1>2, <3>4, <4>1, <4>2, <4>3 DEF ReadsBack, IndexIs
      <3>6. /\ RequestIs(Append(writer.request, refs), Append(writer.meant, labels), writer.table.symbols)
            /\ Append(writer.request, refs) # <<>>
        BY <1>2, <3>5, RequestAppend
      <3> QED
        BY <1>2, <3>3, <3>6 DEF WriterIs
    <2>4. CASE Encode
      BY <2>2, <2>3, <2>4 DEF Encode
    <2> QED
      BY <2>1, <2>4
  <1>4. CountersAre(readers["push"], writer', pushed)
    BY <1>1, <1>3 DEF CountersAre, OnItsWay
  <1> QED
    BY <1>1, <1>3, <1>4 DEF PushInv

\* A push ends: it fails, or is acknowledged and its counters follow one after
\* another.
LEMMA EndingKeeps ==
  ASSUME PushInv, (\E delivered \in BOOLEAN : WriteFails(delivered)) \/ Acked \/ CountSamples \/ Stamp
  PROVE  PushInv'
  <1>1. /\ WriterIs(writer) /\ CountersAre(readers["push"], writer, pushed) /\ DOMAIN pushed = PushedFields
        /\ DOMAIN writer = WriterFields /\ SymbolsAre(writer.table) /\ UNCHANGED readers
    BY DEF PushInv, WriterIs, WriteFails, Acked, CountSamples, Stamp
  <1> SUFFICES WriterIs(writer') /\ DOMAIN pushed' = PushedFields /\ CountersAre(readers["push"], writer', pushed')
    BY <1>1 DEF PushInv
  <1>2. ASSUME NEW delivered \in BOOLEAN, WriteFails(delivered)
        PROVE  WriterIs(writer') /\ DOMAIN pushed' = PushedFields /\ CountersAre(readers["push"], writer', pushed')
    <2>1. PICK received :
            writer' = [FailedPush(writer) EXCEPT !.received = IF delivered THEN received ELSE @]
      BY <1>2 DEF WriteFails, PushStep
    <2>2. pushed' = [pushed EXCEPT !.failed = @ + 1] /\ writer.pc = "writing"
      BY <1>2 DEF WriteFails
    <2>3. /\ DOMAIN writer' = WriterFields /\ writer'.pc = "idle" /\ writer'.failures = writer.failures + 1
          /\ writer'.request = <<>> /\ writer'.meant = <<>>
          /\ writer'.table = writer.table /\ writer'.sends = writer.sends /\ writer'.samples = writer.samples
          /\ writer'.lastSuccess = writer.lastSuccess
      BY <1>1, <2>1 DEF FailedPush, WriterFields
    <2>4. /\ DOMAIN pushed' = PushedFields /\ pushed'.failed = pushed.failed + 1 /\ pushed'.n = pushed.n
          /\ pushed'.acked = pushed.acked /\ pushed'.samples = pushed.samples /\ pushed'.last = pushed.last
      BY <1>1, <2>2 DEF PushedFields
    <2>5. CountersAre(readers["push"], writer', pushed')
      BY <1>1, <2>2, <2>3, <2>4 DEF CountersAre, OnItsWay
    <2> QED
      BY <1>1, <2>3, <2>4, <2>5 DEF WriterIs
  <1>3. CASE Acked
    <2>1. PICK received :
            writer' = [writer EXCEPT !.pc = "acked", !.received = received, !.sends = @ + 1]
      BY <1>3 DEF Acked, PushStep
    <2>2. /\ pushed' = [pushed EXCEPT !.acked = @ + 1, !.samples = @ + Len(writer.request), !.last = pushed.n]
          /\ writer.pc = "writing"
      BY <1>3 DEF Acked
    <2>3. /\ DOMAIN writer' = WriterFields /\ writer'.pc = "acked" /\ writer'.failures = writer.failures
          /\ writer'.request = writer.request
          /\ writer'.table = writer.table /\ writer'.sends = writer.sends + 1 /\ writer'.samples = writer.samples
      BY <1>1, <2>1 DEF WriterFields
    <2>4. /\ DOMAIN pushed' = PushedFields /\ pushed'.failed = pushed.failed /\ pushed'.n = pushed.n
          /\ pushed'.acked = pushed.acked + 1 /\ pushed'.last = pushed.n
          /\ pushed'.samples = pushed.samples + Len(writer.request)
      BY <1>1, <2>2 DEF PushedFields
    <2>5. CountersAre(readers["push"], writer', pushed')
      BY <1>1, <2>2, <2>3, <2>4 DEF CountersAre, OnItsWay
    <2> QED
      BY <1>1, <2>3, <2>4, <2>5 DEF WriterIs
  <1>4. CASE CountSamples
    <2>1. /\ writer' = [writer EXCEPT !.pc = "sampled", !.samples = @ + Len(writer.request)]
          /\ pushed' = pushed /\ writer.pc = "acked"
      BY <1>4 DEF CountSamples, PushStep
    <2>2. /\ DOMAIN writer' = WriterFields /\ writer'.pc = "sampled" /\ writer'.failures = writer.failures
          /\ writer'.table = writer.table /\ writer'.sends = writer.sends
          /\ writer'.samples = writer.samples + Len(writer.request)
      BY <1>1, <2>1 DEF WriterFields
    <2>3. CountersAre(readers["push"], writer', pushed)
      BY <1>1, <2>1, <2>2 DEF CountersAre, OnItsWay
    <2> QED
      BY <1>1, <2>1, <2>2, <2>3 DEF WriterIs
  <1>5. CASE Stamp
    <2>1. /\ writer' = [writer EXCEPT !.pc = "idle", !.lastSuccess = pushed.n, !.request = <<>>, !.meant = <<>>]
          /\ pushed' = pushed /\ writer.pc = "sampled"
      BY <1>5 DEF Stamp, PushStep
    <2>2. /\ DOMAIN writer' = WriterFields /\ writer'.pc = "idle" /\ writer'.failures = writer.failures
          /\ writer'.table = writer.table /\ writer'.sends = writer.sends /\ writer'.samples = writer.samples
          /\ writer'.lastSuccess = pushed.n /\ writer'.request = <<>> /\ writer'.meant = <<>>
      BY <1>1, <2>1 DEF WriterFields
    <2>3. CountersAre(readers["push"], writer', pushed)
      BY <1>1, <2>1, <2>2 DEF CountersAre, OnItsWay
    <2> QED
      BY <1>1, <2>1, <2>2, <2>3 DEF WriterIs
  <1> QED
    BY <1>2, <1>3, <1>4, <1>5

\* Every step keeps the invariant.
LEMMA NextPushInv ==
  ASSUME PushInv, [Next]_vars
  PROVE  PushInv'
  <1>1. CASE UNCHANGED <<readers, writer, pushed>>
    BY <1>1 DEF PushInv
  <1>2. CASE (\E f \in DOMAIN disk : Replace(f)) \/ (\E c \in Callers : Reload(c))
    BY <1>1, <1>2 DEF Replace, Reload, Call, Lock, ReadFile, Store, Return, CallStep
  <1>3. CASE (\E r \in Arrivals : Take(r)) \/ LookFirst \/ Enrich \/ Route \/ Ingest
    BY <1>1, <1>3 DEF Take, LookFirst, Enrich, Route, Ingest, WorkerStep
  <1>4. CASE (\E r \in DOMAIN readers : Begin(r) \/ Collect(r)) \/ Served
    BY <1>4, ReaderKeeps DEF PushInv
  <1>5. CASE Push
    BY <1>5, GatheredKeeps, EncodingKeeps, EndingKeeps DEF Push
  <1>6. CASE \E c \in Clients : Ask(c) \/ Acknowledge(c) \/ List(c) \/ Leave(c)
    BY <1>1, <1>6 DEF Ask, Acknowledge, List, Leave, ListStep
  <1>7. CASE Quiet \/ UNCHANGED vars
    BY <1>1, <1>7 DEF Quiet, vars
  <1> QED
    BY <1>2, <1>3, <1>4, <1>5, <1>6, <1>7 DEF Next

\* Between pushes the statistics tell the acknowledged from the failed, the
\* last success is the last acknowledged one's, and the endpoint reads what was
\* written through a symbol table reused across pushes (send, symbolTable).
THEOREM TellsPushesApartHolds == Spec => []TellsPushesApart
  <1>1. Init => PushInv
    <2> SUFFICES ASSUME Init
                 PROVE  PushInv
      OBVIOUS
    <2>1. DOMAIN readers = {"scrape", "push"} /\ \A r \in DOMAIN readers : readers[r] = NoReading
      BY DEF Init
    <2>2. ReaderIs(NoReading) /\ NoReading.pc = "idle"
      BY DEF ReaderIs, ReaderFields, NoReading
    <2>3. /\ DOMAIN writer = WriterFields /\ writer.pc = "idle" /\ writer.request = <<>> /\ writer.meant = <<>>
          /\ writer.table = [symbols |-> <<NoName>>, index |-> OneSymbol]
          /\ writer.sends = 0 /\ writer.failures = 0 /\ writer.samples = 0 /\ writer.lastSuccess = 0
      BY DEF Init, WriterFields
    <2>4. pushed = [n |-> 0, acked |-> 0, failed |-> 0, samples |-> 0, last |-> 0]
      BY DEF Init
    <2>5. SymbolsAre([symbols |-> <<NoName>>, index |-> OneSymbol])
      <3>1. <<NoName>> \in Seq({NoName}) /\ Len(<<NoName>>) = 1 /\ <<NoName>>[1] = NoName
        OBVIOUS
      <3>2. PICK s : s = <<NoName>>
        OBVIOUS
      <3>3. IsList(s) /\ Len(s) = 1 /\ s[1] = NoName
        BY <3>1, <3>2 DEF IsList
      <3>4. SymbolsAre([symbols |-> s, index |-> OneSymbol])
        BY <3>3 DEF SymbolsAre
      <3> QED
        BY <3>2, <3>4
    <2>6. WriterIs(writer)
      BY <2>3, <2>5 DEF WriterIs
    <2>7. DOMAIN pushed = PushedFields
      BY <2>4 DEF PushedFields
    <2>8. CountersAre(readers["push"], writer, pushed)
      BY <2>1, <2>2, <2>3, <2>4 DEF CountersAre, OnItsWay
    <2> QED
      BY <2>1, <2>2, <2>6, <2>7, <2>8 DEF PushInv
  <1>2. PushInv /\ [Next]_vars => PushInv'
    BY NextPushInv
  <1>3. PushInv => TellsPushesApart
    <2> SUFFICES ASSUME PushInv
                 PROVE  TellsPushesApart
      OBVIOUS
    <2>1. WriterIs(writer) /\ CountersAre(readers["push"], writer, pushed)
      BY DEF PushInv
    <2>2. ASSUME writer.pc = "writing"
          PROVE  Resolved(writer) = writer.meant
      BY <2>1, <2>2, ResolvedIs DEF WriterIs
    <2>3. ASSUME writer.pc = "idle"
          PROVE  /\ <<writer.sends, writer.failures, writer.samples, writer.lastSuccess>>
                      = <<pushed.acked, pushed.failed, pushed.samples, pushed.last>>
                 /\ writer.sends + writer.failures + (IF readers["push"].pc = "idle" THEN 0 ELSE 1) = pushed.n
      BY <2>1, <2>3 DEF CountersAre, OnItsWay
    <2> QED
      BY <2>2, <2>3 DEF TellsPushesApart
  <1> QED
    BY <1>1, <1>2, <1>3, PTL DEF Spec
=============================================================================
