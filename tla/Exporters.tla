------------------------------ MODULE Exporters ------------------------------
(***************************************************************************)
(* The fleet budget of internal/decoder: the counters each exporting       *)
(* device holds while the budget admits it, the histograms of the          *)
(* collector's Distributions that follow it, and the sweep that evicts     *)
(* silent devices once the budget is reached and forgets their histograms. *)
(*                                                                         *)
(* A decode worker resolves a datagram's device once, counts the datagram  *)
(* through that resolution when it is decoded, and asks again whether the  *)
(* device is admitted before it observes the records.  A device's counters *)
(* are the set of datagrams counted into them, the flow and the error      *)
(* counters alike; its histograms are the set of datagrams observed into   *)
(* them.                                                                   *)
(*                                                                         *)
(* A definition marked "Mutant" is a plausible mistake in the definition   *)
(* that follows it; the specification uses none of them.                   *)
(***************************************************************************)
EXTENDS Integers, FiniteSets, Functions

CONSTANTS
  Addresses,     \* source addresses
  Datagrams,     \* datagrams, each sent at most once
  SourceOf,      \* the source address of a datagram
  Workers,
  Feeds,         \* the addresses each worker may be handed
  MaxExporters,  \* maxExporters
  TTL,           \* the template TTL
  MaxTime,       \* bound on the clock
  Ids,           \* addresses of heap objects
  None

ASSUME ExportersAssumption ==
  /\ SourceOf \in [Datagrams -> Addresses]
  /\ Feeds \in [Workers -> SUBSET Addresses]
  /\ MaxExporters \in Nat \ {0} /\ TTL \in Nat \ {0} /\ MaxTime \in Nat
  /\ None \notin Ids \cup Datagrams
  /\ IsFiniteSet(Workers)
  \* The Go heap has room for every object that can be reached at once.
  /\ IsFiniteSet(Ids) /\ Cardinality(Ids) >= MaxExporters + Cardinality(Workers)

VARIABLES
  exporters,   \* address -> ExporterStats
  heap,        \* the ExporterStats objects
  live,        \* the mirror of len(exporters) read without the lock
  refused,     \* the datagrams counted as refused
  histograms,  \* the datagrams the children of the two vectors have observed
  worker,
  sweeper,
  now,
  sent,        \* the datagrams handed to a worker
  gone         \* the datagrams whose counters were evicted, counted there or
               \* resolved to them and still to be counted

vars == <<exporters, heap, live, refused, histograms, worker, sweeper, now, sent, gone>>

-----------------------------------------------------------------------------
Time == 0..MaxTime

ExporterStats == [counted: SUBSET Datagrams, lastSeen: Time]

WorkerState ==
  [pc: {"idle", "find", "stamp", "gate", "open", "decode", "admit", "observe"},
   dgram: Datagrams \cup {None}, es: Ids \cup {None}, at: Time]

SweeperState ==
  [pc: {"idle", "gate", "lock", "forget"}, cutoff: Int, evicted: SUBSET Addresses]

From(w) == SourceOf[worker[w].dgram]
Full(count) == count >= MaxExporters

\* The collector keeps what the table or a worker can still reach.
Keep(h) ==
  heap' = Restrict(h, DOMAIN h \cap (Range(exporters') \cup {worker'[w].es : w \in Workers}))
Fresh(used) == CHOOSE i \in Ids : i \notin used

\* The datagram in hand is still to be counted.
Open(w) == worker[w].pc \in {"find", "stamp", "gate", "open", "decode"}

Go(w, pc) == worker' = [worker EXCEPT ![w].pc = pc]
Resolved(w, es) == worker' = [worker EXCEPT ![w].pc = "decode", ![w].es = es]

Idle == [pc |-> "idle", dgram |-> None, es |-> None, at |-> 0]

-----------------------------------------------------------------------------
Init ==
  /\ exporters = [a \in {} |-> None]
  /\ heap = [i \in {} |-> None]
  /\ live = 0
  /\ refused = {}
  /\ histograms = {}
  /\ worker = [w \in Workers |-> Idle]
  /\ sweeper = [pc |-> "idle", cutoff |-> -TTL, evicted |-> {}]
  /\ now = 0
  /\ sent = {}
  /\ gone = {}

\* The clock moves on, but a datagram is handled within one TTL.
Tick ==
  /\ now < MaxTime
  /\ \A w \in Workers : worker[w].pc # "idle" => now < worker[w].at + TTL
  /\ now' = now + 1
  /\ UNCHANGED <<exporters, heap, live, refused, histograms, worker, sweeper, sent, gone>>

\* Decode reads the clock and looks the device up under the read lock.
Decode(w, d) ==
  /\ worker[w].pc = "idle"
  /\ d \notin sent
  /\ SourceOf[d] \in Feeds[w]
  /\ worker' = [worker EXCEPT ![w].pc = "find", ![w].dgram = d, ![w].at = now]
  /\ sent' = sent \cup {d}
  /\ UNCHANGED <<exporters, heap, live, refused, histograms, sweeper, now, gone>>

Find(w) ==
  /\ worker[w].pc = "find"
  /\ worker' =
       IF From(w) \in DOMAIN exporters
       THEN [worker EXCEPT ![w].pc = "stamp", ![w].es = exporters[From(w)]]
       ELSE [worker EXCEPT ![w].pc = "gate"]
  /\ UNCHANGED <<exporters, heap, live, refused, histograms, sweeper, now, sent, gone>>

\* It stamps the device it found once the lock is released.
Stamp(w) ==
  /\ worker[w].pc = "stamp"
  /\ Go(w, "decode")
  /\ heap' = [heap EXCEPT ![worker[w].es].lastSeen = worker[w].at]
  /\ UNCHANGED <<exporters, live, refused, histograms, sweeper, now, sent, gone>>

Refuse(w) ==
  /\ Resolved(w, None)
  /\ refused' = refused \cup {worker[w].dgram}
  /\ UNCHANGED <<exporters, heap, live, histograms, sweeper, now, sent, gone>>

\* The mirror turns a flood away without the write lock.
Gate(w) ==
  /\ worker[w].pc = "gate"
  /\ \/ Full(live) /\ Refuse(w)
     \/ /\ ~Full(live)
        /\ Go(w, "open")
        /\ UNCHANGED <<exporters, heap, live, refused, histograms, sweeper, now, sent, gone>>

\* Under the write lock: found after all, refused after all, or admitted.
OpenPresent(w) ==
  /\ worker[w].pc = "open"
  /\ From(w) \in DOMAIN exporters
  /\ Resolved(w, exporters[From(w)])
  /\ heap' = [heap EXCEPT ![exporters[From(w)]].lastSeen = worker[w].at]
  /\ UNCHANGED <<exporters, live, refused, histograms, sweeper, now, sent, gone>>

OpenRefused(w) ==
  /\ worker[w].pc = "open"
  /\ From(w) \notin DOMAIN exporters
  /\ Full(Cardinality(DOMAIN exporters))
  /\ Refuse(w)

OpenNew(w) ==
  LET i == Fresh(DOMAIN heap)
      admitted == DOMAIN exporters \cup {From(w)}
  IN
  /\ worker[w].pc = "open"
  /\ From(w) \notin DOMAIN exporters
  /\ ~Full(Cardinality(DOMAIN exporters))
  /\ exporters' = [a \in admitted |-> IF a = From(w) THEN i ELSE exporters[a]]
  /\ heap' = [j \in DOMAIN heap \cup {i} |->
                IF j = i THEN [counted |-> {}, lastSeen |-> worker[w].at] ELSE heap[j]]
  /\ live' = Cardinality(admitted)
  /\ Resolved(w, i)
  /\ UNCHANGED <<refused, histograms, sweeper, now, sent, gone>>

\* The datagram is decoded, or rejected, and counted through its resolution.
\* Mutant: the counters start again at it.
CountAnew(w) ==
  LET es == worker[w].es IN
  /\ worker[w].pc = "decode"
  /\ worker' = [worker EXCEPT ![w].pc = "admit", ![w].es = None]
  /\ UNCHANGED <<exporters, live, refused, histograms, sweeper, now, sent, gone>>
  /\ Keep(IF es = None THEN heap ELSE [heap EXCEPT ![es].counted = {worker[w].dgram}])
Count(w) ==
  LET es == worker[w].es IN
  /\ worker[w].pc = "decode"
  /\ worker' = [worker EXCEPT ![w].pc = "admit", ![w].es = None]
  /\ UNCHANGED <<exporters, live, refused, histograms, sweeper, now, sent, gone>>
  /\ Keep(IF es = None THEN heap ELSE [heap EXCEPT ![es].counted = @ \cup {worker[w].dgram}])

\* decodeLoop observes the records only of a device the budget holds; a
\* datagram of no records is not observed at all.
Admits(w) ==
  /\ worker[w].pc = "admit"
  /\ \/ From(w) \in DOMAIN exporters /\ Go(w, "observe")
     \/ worker' = [worker EXCEPT ![w] = Idle]
  /\ UNCHANGED <<exporters, heap, live, refused, histograms, sweeper, now, sent, gone>>

Observe(w) ==
  /\ worker[w].pc = "observe"
  /\ worker' = [worker EXCEPT ![w] = Idle]
  /\ histograms' = histograms \cup {worker[w].dgram}
  /\ UNCHANGED <<exporters, heap, live, refused, sweeper, now, sent, gone>>

-----------------------------------------------------------------------------
\* SweepExporters, on the ticker of sweepDomains.
SweepTick ==
  /\ sweeper.pc = "idle"
  /\ sweeper' = [sweeper EXCEPT !.pc = "gate", !.cutoff = now - TTL]
  /\ UNCHANGED <<exporters, heap, live, refused, histograms, worker, now, sent, gone>>

\* Below the budget nothing is evicted.  Mutant: something is.
SweepGateOpen ==
  /\ sweeper.pc = "gate"
  /\ sweeper' = [sweeper EXCEPT !.pc = "lock"]
  /\ UNCHANGED <<exporters, heap, live, refused, histograms, worker, now, sent, gone>>
SweepGate ==
  /\ sweeper.pc = "gate"
  /\ sweeper' = [sweeper EXCEPT !.pc = IF Full(live) THEN "lock" ELSE "idle",
                                !.cutoff = IF Full(live) THEN @ ELSE -TTL]
  /\ UNCHANGED <<exporters, heap, live, refused, histograms, worker, now, sent, gone>>

\* Mutant: the TTL is subtracted twice.
SilentTwice == {a \in DOMAIN exporters : heap[exporters[a]].lastSeen < sweeper.cutoff - TTL}
Silent == {a \in DOMAIN exporters : heap[exporters[a]].lastSeen < sweeper.cutoff}

\* What goes with the devices it evicts: the datagrams they count, and those
\* that a worker has resolved to them.
Lost ==
  (UNION {heap[exporters[a]].counted : a \in Silent})
    \cup {worker[w].dgram : w \in {v \in Workers : \E a \in Silent : worker[v].es = exporters[a]}}

\* Mutant: the mirror is not moved.
EvictUnmirrored ==
  /\ sweeper.pc = "lock"
  /\ sweeper' = [pc |-> "forget", cutoff |-> -TTL, evicted |-> Silent]
  /\ exporters' = Restrict(exporters, DOMAIN exporters \ Silent)
  /\ gone' = gone \cup Lost
  /\ UNCHANGED <<live, refused, histograms, worker, now, sent>>
  /\ Keep(heap)
Evict ==
  /\ sweeper.pc = "lock"
  /\ sweeper' = [pc |-> "forget", cutoff |-> -TTL, evicted |-> Silent]
  /\ exporters' = Restrict(exporters, DOMAIN exporters \ Silent)
  /\ live' = Cardinality(DOMAIN exporters \ Silent)
  /\ gone' = gone \cup Lost
  /\ UNCHANGED <<refused, histograms, worker, now, sent>>
  /\ Keep(heap)

\* Its caller drops the histograms of each device evicted.
Forget(a) ==
  /\ sweeper.pc = "forget"
  /\ a \in sweeper.evicted
  /\ sweeper' = [sweeper EXCEPT !.evicted = @ \ {a}]
  /\ histograms' = {d \in histograms : SourceOf[d] # a}
  /\ UNCHANGED <<exporters, heap, live, refused, worker, now, sent, gone>>

SweepEnd ==
  /\ sweeper.pc = "forget"
  /\ sweeper.evicted = {}
  /\ sweeper' = [sweeper EXCEPT !.pc = "idle"]
  /\ UNCHANGED <<exporters, heap, live, refused, histograms, worker, now, sent, gone>>

-----------------------------------------------------------------------------
Step(w) ==
  Find(w) \/ Stamp(w) \/ Gate(w) \/ OpenPresent(w) \/ OpenRefused(w) \/ OpenNew(w)
    \/ Count(w) \/ Admits(w) \/ Observe(w)

Sweep == SweepGate \/ Evict \/ SweepEnd \/ \E a \in Addresses : Forget(a)

Next ==
  \/ Tick
  \/ \E w \in Workers : Step(w) \/ \E d \in Datagrams : Decode(w, d)
  \/ SweepTick
  \/ Sweep

Spec == Init /\ [][Next]_vars

\* The ticker that starts a sweep never stops, and a sweep under way runs on.
FairSpec == Spec /\ WF_vars(SweepTick) /\ WF_vars(Sweep)

-----------------------------------------------------------------------------
\* Every variable holds a value of its type.
TypeOK ==
  /\ DOMAIN exporters \subseteq Addresses /\ Range(exporters) \subseteq DOMAIN heap
  /\ DOMAIN heap \subseteq Ids /\ \A i \in DOMAIN heap : heap[i] \in ExporterStats
  /\ live \in 0..MaxExporters
  /\ refused \subseteq Datagrams /\ sent \subseteq Datagrams /\ gone \subseteq Datagrams
  /\ histograms \subseteq Datagrams
  /\ worker \in [Workers -> WorkerState]
  /\ sweeper \in SweeperState
  /\ now \in Time

\* The mirror a refusal is decided by is the number of devices held, which
\* never passes the budget, and no two devices share their counters.  The
\* vectors bound no series themselves, so the budget does: the histograms of
\* the devices one worker handles, which sharding makes of every device, are
\* those of devices it holds, or of ones the sweep is about to forget.
Sharded(a) == \A v, w \in Workers : a \in Feeds[v] \cap Feeds[w] => v = w

BudgetHeld ==
  /\ live = Cardinality(DOMAIN exporters)
  /\ live <= MaxExporters
  /\ \A a, b \in DOMAIN exporters : exporters[a] = exporters[b] => a = b
  /\ \A d \in histograms : Sharded(SourceOf[d]) =>
       SourceOf[d] \in DOMAIN exporters \cup sweeper.evicted

\* A datagram counts at most at its own device, and not when it is refused or
\* gone, never both.  Once its worker has counted it, it is refused, or gone
\* with a device evicted after it was resolved, or in the counters its device
\* holds: a device keeps what it counted for as long as it is held.
Counters(d) == {a \in DOMAIN exporters : d \in heap[exporters[a]].counted}
Settled(d) == \A w \in Workers : worker[w].dgram = d => ~Open(w)
CountedOnce ==
  \A d \in sent :
    /\ Counters(d) \subseteq {SourceOf[d]}
    /\ d \in refused \cup gone => Counters(d) = {}
    /\ d \in refused => d \notin gone
    /\ Settled(d) => d \in refused \cup gone \/ Counters(d) = {SourceOf[d]}

\* A silent device is the evidence of its silence, so it leaves only when the
\* budget is reached, and a device seen within the TTL of the sweep stays.  A
\* device that one worker handles is not evicted under a datagram that has
\* stamped it, so a datagram is lost only between its lookup and its stamp.
EvictsOnlySilent ==
  [][ \A a \in DOMAIN exporters \ DOMAIN exporters' :
        /\ Full(live) /\ heap[exporters[a]].lastSeen < now - TTL
        /\ Sharded(a) => \A w \in Workers :
             worker[w].pc = "decode" => worker[w].es # exporters[a] ]_vars

\* decoder.go:144 says SweepExporters drops devices, "returning them so their
\* series go too": a histogram forgotten is one of a device dropped, and holds
\* no datagram that the device counts among those of its present life.
ForgetsOnlyDropped ==
  [][ \A d \in histograms \ histograms' : Counters(d) = {} ]_vars

\* A full budget does not stay full of a device that has fallen silent.
SilentAndFull(a) ==
  a \in DOMAIN exporters /\ Full(live) /\ heap[exporters[a]].lastSeen < now - TTL
SilentGiveWay == \A a \in Addresses : SilentAndFull(a) ~> ~SilentAndFull(a)
=============================================================================
