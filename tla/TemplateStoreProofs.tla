------------------------ MODULE TemplateStoreProofs ------------------------
(***************************************************************************)
(* Proofs about TemplateStore, for any devices, domains, templates and     *)
(* workers, any bounds and any TTL: first what holds whichever worker      *)
(* decodes which device, then what holds besides where one does (Sharded). *)
(***************************************************************************)
EXTENDS TemplateStore, FiniteSetTheorems, TLAPS

-----------------------------------------------------------------------------
(* The inductive invariant, whichever worker decodes which device.         *)

\* A domain's field count is the number of fields its templates have.
Charged(D) ==
  IsFiniteSet(FieldsOf(D.templates)) /\ D.fields = Cardinality(FieldsOf(D.templates))

\* The objects on the heap are the ones in use: a domain of the store or of a
\* worker, its device's budget, and its table or one the store still keeps.
InHand == UNION {{worker[w].d, worker[w].held} : w \in Workers}
HeapOK ==
  /\ DOMAIN heap = (Range(domains) \cup InHand) \ {None}
  /\ DOMAIN budgets = Range(perExporter) \cup {heap[i].budget : i \in DOMAIN heap}
  /\ DOMAIN tables = Range(samplerTables) \cup {heap[i].declared : i \in DOMAIN heap}
  /\ \A i \in DOMAIN heap : Charged(heap[i])

\* A domain is held under its own key, a budget by one device.
IndexOK ==
  /\ \A k \in DOMAIN domains : heap[domains[k]].key = k
  /\ \A x, y \in DOMAIN perExporter : perExporter[x] = perExporter[y] => x = y

\* The sweep has only live domains left to visit, and its cutoff is at least
\* the TTL behind.
SweepOK ==
  /\ sweeper.pc \in {"evict", "prune"} => sweeper.todo \subseteq DOMAIN domains
  /\ sweeper.cutoff <= now - TTL

\* A datagram is decoded within the TTL, and a call reads the clock after the
\* datagram did.
ClockOK ==
  /\ \A w \in Workers : worker[w].pc # "idle" =>
       worker[w].since <= now /\ now <= worker[w].since + TTL
  /\ \A w \in Workers : worker[w].pc \in {"find", "open", "stamp"} =>
       worker[w].since <= worker[w].at

StoreInv == HeapOK /\ IndexOK /\ BudgetsFollowDomains /\ TableShared
Inv == TypeOK /\ StoreInv /\ SweepOK /\ ClockOK

-----------------------------------------------------------------------------
(* What each step does to the worker that takes it.                        *)

Others(w) ==
  worker' \in [Workers -> WorkerState] /\ \A v \in Workers \ {w} : worker'[v] = worker[v]

\* The worker goes on with the same datagram, at pc of call, with d and held.
Turns(w, pc, call, d, held) ==
  /\ Others(w)
  /\ worker'[w].pc = pc /\ worker'[w].call = call
  /\ worker'[w].d = d /\ worker'[w].held = held
  /\ worker'[w].key = worker[w].key /\ worker'[w].since = worker[w].since

\* It is in the call it was in, about the same template.
SameCall(w) ==
  /\ worker'[w].ref = worker[w].ref /\ worker'[w].size = worker[w].size
  /\ worker'[w].got = worker[w].got

\* The worker is done with its datagram.
Finishes(w) ==
  /\ Others(w)
  /\ worker'[w].pc = "idle" /\ worker'[w].call = "datagram" /\ worker'[w].key = None
  /\ worker'[w].d = None /\ worker'[w].held = None /\ worker'[w].got = 0

\* One worker's record is replaced by another of the type.
LEMMA OneMoves ==
  ASSUME TypeOK, NEW w \in Workers, NEW r \in WorkerState, worker' = [worker EXCEPT ![w] = r]
  PROVE  Others(w) /\ worker'[w] = r
  BY DEF TypeOK, Others

\* Zero is no number of fields, and the clock and the addresses are as declared.
LEMMA Values ==
  /\ 0 \in Time /\ None \notin Ids /\ TTL \in Nat /\ TTL > 0
  /\ 0 \notin FieldCounts /\ FieldCounts \subseteq Nat
  /\ \A t \in Time : t \in Int /\ t >= 0
  BY StoreAssumption DEF Time

\* A datagram received: the worker looks its domain up.
LEMMA ReceiveTurns ==
  ASSUME TypeOK, NEW w \in Workers, NEW k \in Domains, Receive(w, k)
  PROVE  /\ Others(w)
         /\ worker'[w].pc = "find" /\ worker'[w].call = "datagram" /\ worker'[w].key = k
         /\ worker'[w].d = None /\ worker'[w].held = None
         /\ worker'[w].since = now /\ worker'[w].at = now /\ worker'[w].got = worker[w].got
  <1> DEFINE s == [worker[w] EXCEPT !.pc = "find"]
             t == [s EXCEPT !.key = k]
             u == [t EXCEPT !.since = now]
             v == [u EXCEPT !.at = now]
  <1>0. /\ worker[w] \in WorkerState /\ now \in Time
        /\ worker[w].call = "datagram" /\ worker[w].d = None /\ worker[w].held = None
    BY DEF TypeOK, Receive, Shape
  <1>1. worker' = [worker EXCEPT ![w] = v]
    BY DEF Receive
  <1>2. /\ s \in WorkerState /\ s.pc = "find" /\ s.call = "datagram"
        /\ s.d = None /\ s.held = None /\ s.got = worker[w].got
    BY <1>0 DEF WorkerState
  <1> HIDE DEF s
  <1>3. /\ t \in WorkerState /\ t.pc = "find" /\ t.call = "datagram" /\ t.key = k
        /\ t.d = None /\ t.held = None /\ t.got = worker[w].got
    BY <1>2 DEF WorkerState
  <1> HIDE DEF t
  <1>4. /\ u \in WorkerState /\ u.pc = "find" /\ u.call = "datagram" /\ u.key = k
        /\ u.d = None /\ u.held = None /\ u.since = now /\ u.got = worker[w].got
    BY <1>0, <1>3 DEF WorkerState
  <1> HIDE DEF u
  <1>5. /\ v \in WorkerState /\ v.pc = "find" /\ v.call = "datagram" /\ v.key = k
        /\ v.d = None /\ v.held = None /\ v.since = now /\ v.at = now /\ v.got = worker[w].got
    BY <1>0, <1>4 DEF WorkerState
  <1> HIDE DEF v
  <1> QED
    BY <1>1, <1>5, OneMoves

\* A call begun: the worker looks the domain up again.
LEMMA CallTurns ==
  ASSUME TypeOK, NEW w \in Workers, NEW call \in Calls, NEW ref \in Refs,
         NEW size \in FieldCounts \cup {0}, Call(w, call, ref, size)
  PROVE  /\ Turns(w, "find", call, worker[w].d, None)
         /\ worker'[w].ref = ref /\ worker'[w].size = size /\ worker'[w].got = 0
         /\ worker'[w].at = now
  <1> DEFINE r == worker[w]
             s == [r EXCEPT !.pc = "find"]
             t == [s EXCEPT !.call = call]
             u == [t EXCEPT !.ref = ref]
             x == [u EXCEPT !.size = size]
             y == [x EXCEPT !.got = 0]
             z == [y EXCEPT !.at = now]
  <1>0. r \in WorkerState /\ now \in Time /\ r.held = None
    BY DEF TypeOK, Call, Shape
  <1>1. worker' = [worker EXCEPT ![w] = z]
    BY DEF Call
  <1> HIDE DEF r
  <1>2. /\ s \in WorkerState /\ s.pc = "find" /\ s.key = r.key /\ s.d = r.d
        /\ s.held = None /\ s.since = r.since
    BY <1>0 DEF WorkerState
  <1> HIDE DEF s
  <1>3. /\ t \in WorkerState /\ t.pc = "find" /\ t.call = call /\ t.key = r.key /\ t.d = r.d
        /\ t.held = None /\ t.since = r.since
    BY <1>2 DEF WorkerState
  <1> HIDE DEF t
  <1>4. /\ u \in WorkerState /\ u.pc = "find" /\ u.call = call /\ u.key = r.key /\ u.d = r.d
        /\ u.held = None /\ u.since = r.since /\ u.ref = ref
    BY <1>3 DEF WorkerState
  <1> HIDE DEF u
  <1>5. /\ x \in WorkerState /\ x.pc = "find" /\ x.call = call /\ x.key = r.key /\ x.d = r.d
        /\ x.held = None /\ x.since = r.since /\ x.ref = ref /\ x.size = size
    BY <1>4 DEF WorkerState
  <1> HIDE DEF x
  <1>6. /\ y \in WorkerState /\ y.pc = "find" /\ y.call = call /\ y.key = r.key /\ y.d = r.d
        /\ y.held = None /\ y.since = r.since /\ y.ref = ref /\ y.size = size /\ y.got = 0
    BY <1>5 DEF WorkerState
  <1> HIDE DEF y
  <1>7. /\ z \in WorkerState /\ z.pc = "find" /\ z.call = call /\ z.key = r.key /\ z.d = r.d
        /\ z.held = None /\ z.since = r.since /\ z.ref = ref /\ z.size = size /\ z.got = 0
        /\ z.at = now
    BY <1>0, <1>6 DEF WorkerState
  <1> HIDE DEF z
  <1> QED
    BY <1>1, <1>7, OneMoves DEF Turns, r

\* A call that ends leaves the worker with its datagram.
LEMMA ReturnTurns ==
  ASSUME TypeOK, NEW w \in Workers, Return(w)
  PROVE  /\ Turns(w, "ready", "datagram", worker[w].d, None)
         /\ worker'[w].got = worker[w].got /\ worker'[w].ref = None
  <1> DEFINE r == worker[w]
             s == [r EXCEPT !.pc = "ready"]
             t == [s EXCEPT !.call = "datagram"]
             u == [t EXCEPT !.held = None]
             x == [u EXCEPT !.ref = None]
             y == [x EXCEPT !.size = 0]
             z == [y EXCEPT !.at = 0]
  <1>0. r \in WorkerState /\ 0 \in Time
    BY Values DEF TypeOK
  <1>1. worker' = [worker EXCEPT ![w] = z]
    BY DEF Return
  <1> HIDE DEF r
  <1>2. /\ s \in WorkerState /\ s.pc = "ready" /\ s.key = r.key /\ s.d = r.d
        /\ s.since = r.since /\ s.got = r.got
    BY <1>0 DEF WorkerState
  <1> HIDE DEF s
  <1>3. /\ t \in WorkerState /\ t.pc = "ready" /\ t.call = "datagram" /\ t.key = r.key
        /\ t.d = r.d /\ t.since = r.since /\ t.got = r.got
    BY <1>2 DEF WorkerState, Calls
  <1> HIDE DEF t
  <1>4. /\ u \in WorkerState /\ u.pc = "ready" /\ u.call = "datagram" /\ u.key = r.key
        /\ u.d = r.d /\ u.held = None /\ u.since = r.since /\ u.got = r.got
    BY <1>3 DEF WorkerState
  <1> HIDE DEF u
  <1>5. /\ x \in WorkerState /\ x.pc = "ready" /\ x.call = "datagram" /\ x.key = r.key
        /\ x.d = r.d /\ x.held = None /\ x.since = r.since /\ x.got = r.got /\ x.ref = None
    BY <1>4 DEF WorkerState
  <1> HIDE DEF x
  <1>6. /\ y \in WorkerState /\ y.pc = "ready" /\ y.call = "datagram" /\ y.key = r.key
        /\ y.d = r.d /\ y.held = None /\ y.since = r.since /\ y.got = r.got /\ y.ref = None
    BY <1>5 DEF WorkerState
  <1> HIDE DEF y
  <1>7. /\ z \in WorkerState /\ z.pc = "ready" /\ z.call = "datagram" /\ z.key = r.key
        /\ z.d = r.d /\ z.held = None /\ z.since = r.since /\ z.got = r.got /\ z.ref = None
    BY <1>0, <1>6 DEF WorkerState
  <1> HIDE DEF z
  <1> QED
    BY <1>1, <1>7, OneMoves DEF Turns, r

\* A worker that abandons its datagram is idle.
LEMMA AbandonTurns ==
  ASSUME TypeOK, NEW w \in Workers, Abandon(w)
  PROVE  Finishes(w)
  <1> DEFINE r == [pc |-> "idle", call |-> "datagram", key |-> None, d |-> None,
                   held |-> None, ref |-> None, size |-> 0, got |-> 0, since |-> 0, at |-> 0]
  <1>1. worker' = [worker EXCEPT ![w] = r]
    BY DEF Abandon
  <1>2. /\ r \in WorkerState /\ r.pc = "idle" /\ r.call = "datagram" /\ r.key = None
        /\ r.d = None /\ r.held = None /\ r.got = 0
    BY Values DEF WorkerState, Calls
  <1> HIDE DEF r
  <1> QED
    BY <1>1, <1>2, OneMoves DEF Finishes

\* Finding the domain, or not.
LEMMA FindTurns ==
  ASSUME TypeOK, NEW w \in Workers, Find(w)
  PROVE  \/ /\ worker[w].key \in DOMAIN domains
            /\ \E pc \in {"stamp", "body"} :
                 /\ pc = "body" <=> worker[w].call = "withdraw"
                 /\ Turns(w, pc, worker[w].call, worker[w].d, domains[worker[w].key])
            /\ SameCall(w) /\ worker'[w].at = worker[w].at
         \/ /\ worker[w].key \notin DOMAIN domains
            /\ worker[w].call = "withdraw"
            /\ Turns(w, "ready", "datagram", worker[w].d, None)
            /\ worker'[w].got = worker[w].got
         \/ /\ worker[w].key \notin DOMAIN domains
            /\ worker[w].call # "withdraw"
            /\ Turns(w, "open", worker[w].call, worker[w].d, None)
            /\ SameCall(w) /\ worker'[w].at = worker[w].at
  <1> DEFINE r == worker[w]
  <1>0. r \in WorkerState /\ r.held = None
    BY DEF TypeOK, Find, Shape
  <1>1. CASE r.key \in DOMAIN domains
    <2> DEFINE pc == IF r.call = "withdraw" THEN "body" ELSE "stamp"
               s == [r EXCEPT !.pc = pc]
               t == [s EXCEPT !.held = domains[r.key]]
    <2>1. worker' = [worker EXCEPT ![w] = t]
      BY <1>1 DEF Find
    <2>2. domains[r.key] \in Ids
      BY <1>1 DEF TypeOK
    <2> HIDE DEF r
    <2>3. /\ s \in WorkerState /\ s.pc = pc /\ s.call = r.call /\ s.key = r.key /\ s.d = r.d
          /\ s.since = r.since /\ s.ref = r.ref /\ s.size = r.size /\ s.got = r.got
          /\ s.at = r.at
      BY <1>0 DEF WorkerState
    <2>4. pc \in {"stamp", "body"} /\ (pc = "body" <=> r.call = "withdraw")
      OBVIOUS
    <2> HIDE DEF s, pc
    <2>5. /\ t \in WorkerState /\ t.pc = pc /\ t.call = r.call /\ t.key = r.key /\ t.d = r.d
          /\ t.held = domains[r.key] /\ t.since = r.since /\ t.ref = r.ref
          /\ t.size = r.size /\ t.got = r.got /\ t.at = r.at
      BY <2>2, <2>3 DEF WorkerState
    <2> HIDE DEF t
    <2>6. Others(w) /\ worker'[w] = t
      BY <2>1, <2>5, OneMoves
    <2> QED
      BY <1>1, <2>4, <2>5, <2>6 DEF Turns, SameCall, r
  <1>2. CASE r.key \notin DOMAIN domains /\ r.call = "withdraw"
    BY <1>2, ReturnTurns DEF Find
  <1>3. CASE r.key \notin DOMAIN domains /\ r.call # "withdraw"
    <2> DEFINE s == [r EXCEPT !.pc = "open"]
    <2>1. worker' = [worker EXCEPT ![w] = s]
      BY <1>3 DEF Find, Go
    <2> HIDE DEF r
    <2>2. /\ s \in WorkerState /\ s.pc = "open" /\ s.call = r.call /\ s.key = r.key
          /\ s.d = r.d /\ s.held = None /\ s.since = r.since /\ s.ref = r.ref
          /\ s.size = r.size /\ s.got = r.got /\ s.at = r.at
      BY <1>0 DEF WorkerState
    <2> HIDE DEF s
    <2>3. Others(w) /\ worker'[w] = s
      BY <2>1, <2>2, OneMoves
    <2> QED
      BY <1>3, <2>2, <2>3 DEF Turns, SameCall, r
  <1> QED
    BY <1>1, <1>2, <1>3

\* The domain it was after is returned.
LEMMA ResolvedTurns ==
  ASSUME TypeOK, NEW w \in Workers, NEW i \in Ids, Resolved(w, i)
  PROVE  /\ SameCall(w)
         /\ worker[w].call = "datagram" => Turns(w, "ready", "datagram", i, None)
         /\ worker[w].call # "datagram" => Turns(w, "body", worker[w].call, worker[w].d, i)
  <1> DEFINE r == worker[w]
  <1>0. r \in WorkerState /\ 0 \in Time /\ now \in Time
    BY Values DEF TypeOK
  <1>1. CASE r.call = "datagram"
    <2> DEFINE s == [r EXCEPT !.pc = "ready"]
               t == [s EXCEPT !.d = i]
               u == [t EXCEPT !.held = None]
               v == [u EXCEPT !.at = 0]
    <2>1. worker' = [worker EXCEPT ![w] = v]
      BY <1>1 DEF Resolved
    <2> HIDE DEF r
    <2>2. /\ s \in WorkerState /\ s.pc = "ready" /\ s.call = "datagram" /\ s.key = r.key
          /\ s.since = r.since /\ s.ref = r.ref /\ s.size = r.size /\ s.got = r.got
      BY <1>0, <1>1 DEF WorkerState
    <2> HIDE DEF s
    <2>3. /\ t \in WorkerState /\ t.pc = "ready" /\ t.call = "datagram" /\ t.key = r.key
          /\ t.d = i
          /\ t.since = r.since /\ t.ref = r.ref /\ t.size = r.size /\ t.got = r.got
      BY <2>2 DEF WorkerState
    <2> HIDE DEF t
    <2>4. /\ u \in WorkerState /\ u.pc = "ready" /\ u.call = "datagram" /\ u.key = r.key
          /\ u.d = i /\ u.held = None
          /\ u.since = r.since /\ u.ref = r.ref /\ u.size = r.size /\ u.got = r.got
      BY <2>3 DEF WorkerState
    <2> HIDE DEF u
    <2>5. /\ v \in WorkerState /\ v.pc = "ready" /\ v.call = "datagram" /\ v.key = r.key
          /\ v.d = i /\ v.held = None
          /\ v.since = r.since /\ v.ref = r.ref /\ v.size = r.size /\ v.got = r.got
      BY <1>0, <2>4 DEF WorkerState
    <2> HIDE DEF v
    <2>6. Others(w) /\ worker'[w] = v
      BY <2>1, <2>5, OneMoves
    <2> QED
      BY <1>1, <2>5, <2>6 DEF Turns, SameCall, r
  <1>2. CASE r.call # "datagram"
    <2> DEFINE s == [r EXCEPT !.pc = "body"]
               t == [s EXCEPT !.held = i]
               u == [t EXCEPT !.at = now]
    <2>1. worker' = [worker EXCEPT ![w] = u]
      BY <1>2 DEF Resolved
    <2> HIDE DEF r
    <2>2. /\ s \in WorkerState /\ s.pc = "body" /\ s.call = r.call /\ s.key = r.key
          /\ s.d = r.d
          /\ s.since = r.since /\ s.ref = r.ref /\ s.size = r.size /\ s.got = r.got
      BY <1>0 DEF WorkerState
    <2> HIDE DEF s
    <2>3. /\ t \in WorkerState /\ t.pc = "body" /\ t.call = r.call /\ t.key = r.key
          /\ t.d = r.d /\ t.held = i
          /\ t.since = r.since /\ t.ref = r.ref /\ t.size = r.size /\ t.got = r.got
      BY <2>2 DEF WorkerState
    <2> HIDE DEF t
    <2>4. /\ u \in WorkerState /\ u.pc = "body" /\ u.call = r.call /\ u.key = r.key
          /\ u.d = r.d /\ u.held = i
          /\ u.since = r.since /\ u.ref = r.ref /\ u.size = r.size /\ u.got = r.got
      BY <1>0, <2>3 DEF WorkerState
    <2> HIDE DEF u
    <2>5. Others(w) /\ worker'[w] = u
      BY <2>1, <2>4, OneMoves
    <2> QED
      BY <1>2, <2>4, <2>5 DEF Turns, SameCall, r
  <1> QED
    BY <1>1, <1>2

\* What a set is to be decoded by.
LookupHits(w) ==
  worker[w].ref \in DOMAIN heap[worker[w].held].templates \ Expired(heap[worker[w].held], now)

\* A lookup leaves the worker with the fields it found, 0 if it missed.
LEMMA LookupTurns ==
  ASSUME TypeOK, NEW w \in Workers, Lookup(w),
         LookupHits(w) => heap[worker[w].held].templates[worker[w].ref].size \in FieldCounts
  PROVE  /\ Turns(w, "ready", "lookup", worker[w].d, None)
         /\ worker'[w].ref = worker[w].ref /\ worker'[w].size = worker[w].size
         /\ worker'[w].got = IF LookupHits(w)
                             THEN heap[worker[w].held].templates[worker[w].ref].size ELSE 0
  <1> DEFINE r == worker[w]
             got == IF LookupHits(w) THEN heap[r.held].templates[r.ref].size ELSE 0
             s == [r EXCEPT !.pc = "ready"]
             t == [s EXCEPT !.held = None]
             u == [t EXCEPT !.at = 0]
             v == [u EXCEPT !.got = got]
  <1>0. r \in WorkerState /\ 0 \in Time /\ r.call = "lookup"
    BY Values DEF TypeOK, Lookup, InBody
  <1>1. worker' = [worker EXCEPT ![w] = v]
    BY DEF Lookup, LookupHits
  <1>2. got \in FieldCounts \cup {0}
    OBVIOUS
  <1> HIDE DEF r, got
  <1>3. /\ s \in WorkerState /\ s.pc = "ready" /\ s.call = "lookup" /\ s.key = r.key
        /\ s.d = r.d /\ s.since = r.since /\ s.ref = r.ref /\ s.size = r.size
    BY <1>0 DEF WorkerState
  <1> HIDE DEF s
  <1>4. /\ t \in WorkerState /\ t.pc = "ready" /\ t.call = "lookup" /\ t.key = r.key
        /\ t.d = r.d /\ t.held = None /\ t.since = r.since /\ t.ref = r.ref /\ t.size = r.size
    BY <1>3 DEF WorkerState
  <1> HIDE DEF t
  <1>5. /\ u \in WorkerState /\ u.pc = "ready" /\ u.call = "lookup" /\ u.key = r.key
        /\ u.d = r.d /\ u.held = None /\ u.since = r.since /\ u.ref = r.ref /\ u.size = r.size
    BY <1>0, <1>4 DEF WorkerState
  <1> HIDE DEF u
  <1>6. /\ v \in WorkerState /\ v.pc = "ready" /\ v.call = "lookup" /\ v.key = r.key
        /\ v.d = r.d /\ v.held = None /\ v.since = r.since /\ v.ref = r.ref /\ v.size = r.size
        /\ v.got = got
    BY <1>2, <1>5 DEF WorkerState
  <1> HIDE DEF v
  <1>7. Others(w) /\ worker'[w] = v
    BY <1>1, <1>6, OneMoves
  <1> QED
    BY <1>6, <1>7 DEF Turns, r, got

-----------------------------------------------------------------------------
(* What the operators on domains and templates return.                     *)

Template == [size: FieldCounts, at: Time]

\* A set of times that is not empty has an earliest one.
LEMMA MinIs ==
  ASSUME NEW times \in SUBSET Time, times # {}
  PROVE  Min(times) \in times
  <1>1. times \subseteq Nat
    BY StoreAssumption DEF Time
  <1>2. \E x \in times : \A y \in times : ~(<<y, x>> \in OpToRel(<, Nat))
    BY <1>1, NatLessThanWellFounded, WFMin
  <1>3. PICK x \in times : \A y \in times : ~(<<y, x>> \in OpToRel(<, Nat))
    BY <1>2
  <1>4. \A y \in times : x <= y
    <2> SUFFICES ASSUME NEW y \in times, y < x
                 PROVE  FALSE
      BY <1>1
    <2>1. <<y, x>> \in {ss \in Nat \X Nat : ss[1] < ss[2]}
      BY <1>1
    <2>2. <<y, x>> \in OpToRel(<, Nat)
      BY ONLY <2>1, Zenon DEF OpToRel
    <2> QED
      BY <1>3, <2>2, Zenon
  <1> QED
    BY <1>4 DEF Min

\* A function on some of a set is one on its own domain.
LEMMA PartialFunctions ==
  ASSUME NEW R, NEW T, NEW f
  PROVE  f \in UNION {[S -> T] : S \in SUBSET R}
           <=> DOMAIN f \subseteq R /\ f \in [DOMAIN f -> T]
  <1>1. ASSUME f \in UNION {[S -> T] : S \in SUBSET R}
        PROVE  DOMAIN f \subseteq R /\ f \in [DOMAIN f -> T]
    <2>1. PICK S \in SUBSET R : f \in [S -> T]
      BY <1>1
    <2>2. DOMAIN f = S
      BY <2>1
    <2> QED
      BY <2>1, <2>2
  <1>2. ASSUME DOMAIN f \subseteq R, f \in [DOMAIN f -> T]
        PROVE  f \in UNION {[S -> T] : S \in SUBSET R}
    BY <1>2
  <1> QED
    BY <1>1, <1>2

\* A function restricted to S has S for its domain and its old values there.
LEMMA RestrictIs ==
  ASSUME NEW f, NEW S
  PROVE  DOMAIN Restrict(f, S) = S /\ \A x \in S : Restrict(f, S)[x] = f[x]
  BY DEF Restrict

\* The fields of a domain's record, and how one is told to be of the type.
LEMMA DomainIs ==
  ASSUME NEW D \in DomainState
  PROVE  /\ D.key \in Domains /\ D.budget \in Ids /\ D.declared \in Ids
         /\ D.lastSeen \in Time /\ D.fields \in Int /\ D.oldest \in Time \cup {Never}
         /\ DOMAIN D.templates \subseteq Refs
         /\ D.templates \in [DOMAIN D.templates -> Template]
  <1>1. /\ D.key \in Domains /\ D.budget \in Ids /\ D.declared \in Ids
        /\ D.lastSeen \in Time /\ D.fields \in Int /\ D.oldest \in Time \cup {Never}
        /\ D.templates \in UNION {[S -> Template] : S \in SUBSET Refs}
    BY DEF DomainState, Template
  <1> QED
    BY <1>1, PartialFunctions

\* The domain under the same key, charged to the same device and declaring into
\* the same table, seen when it was.
SameDomain(E, D) ==
  /\ E.key = D.key /\ E.budget = D.budget /\ E.declared = D.declared
  /\ E.lastSeen = D.lastSeen

\* A domain whose templates, and what they cost, are replaced.
Refill(D, T, fields) == [D EXCEPT !.templates = T, !.fields = fields]

\* Refilled with templates of the type, a domain is of the type and itself.
LEMMA Refilled ==
  ASSUME NEW D \in DomainState, NEW T, DOMAIN T \subseteq Refs,
         T \in [DOMAIN T -> Template], NEW fields \in Int
  PROVE  /\ Refill(D, T, fields) \in DomainState /\ SameDomain(Refill(D, T, fields), D)
         /\ Refill(D, T, fields).templates = T /\ Refill(D, T, fields).fields = fields
  <1>0. T \in UNION {[S -> [size: FieldCounts, at: Time]] : S \in SUBSET Refs}
    BY PartialFunctions DEF Template
  <1> DEFINE s == [D EXCEPT !.templates = T]
             t == [s EXCEPT !.fields = fields]
  <1>1. s \in DomainState /\ SameDomain(s, D) /\ s.templates = T
    BY <1>0 DEF DomainState, SameDomain
  <1>2. Refill(D, T, fields) = t
    BY DEF Refill
  <1> HIDE DEF s
  <1>3. t \in DomainState /\ SameDomain(t, D) /\ t.templates = T /\ t.fields = fields
    BY <1>1 DEF DomainState, SameDomain
  <1> QED
    BY <1>2, <1>3

\* In either order.
LEMMA RefilledAlso ==
  ASSUME NEW D \in DomainState, NEW T, NEW fields
  PROVE  [D EXCEPT !.fields = fields, !.templates = T] = Refill(D, T, fields)
  BY DEF DomainState, Refill

\* What is remembered of the oldest template is no template.
LEMMA Aged ==
  ASSUME NEW D \in DomainState, NEW oldest \in Time \cup {Never}
  PROVE  LET E == [D EXCEPT !.oldest = oldest]
         IN  /\ E \in DomainState /\ SameDomain(E, D)
             /\ E.templates = D.templates /\ E.fields = D.fields
  BY DEF DomainState, SameDomain

\* A finite set labelled has as many members.
LEMMA Labelled ==
  ASSUME NEW F, IsFiniteSet(F), NEW k
  PROVE  IsFiniteSet({k} \X F) /\ Cardinality({k} \X F) = Cardinality(F)
  <1> DEFINE f == [x \in F |-> <<k, x>>]
  <1>1. f \in Bijection(F, {k} \X F)
    <2>1. f \in [F -> {k} \X F]
      OBVIOUS
    <2>2. \A a, b \in F : f[a] = f[b] => a = b
      OBVIOUS
    <2>3. \A z \in {k} \X F : \E a \in F : f[a] = z
      OBVIOUS
    <2> HIDE DEF f
    <2> QED
      BY <2>1, <2>2, <2>3 DEF Bijection, Injection, Surjection, IsInjective
  <1>2. ExistsBijection(F, {k} \X F)
    BY <1>1 DEF ExistsBijection
  <1> QED
    BY <1>2, FS_Bijection

\* A finite set in two parts has as many members as the two together.
Parts(S, A, B) == S = A \cup B /\ A \cap B = {}

\* Cardinality is additive over two disjoint parts of a finite set.
LEMMA TwoParts ==
  ASSUME NEW S, NEW A, NEW B, Parts(S, A, B)
  PROVE  /\ IsFiniteSet(S) <=> IsFiniteSet(A) /\ IsFiniteSet(B)
         /\ IsFiniteSet(S) => /\ Cardinality(S) = Cardinality(A) + Cardinality(B)
                              /\ Cardinality(A) \in Nat /\ Cardinality(B) \in Nat
  <1>0. S = A \cup B /\ A \cap B = {}
    BY DEF Parts
  <1>1. ASSUME IsFiniteSet(S)
        PROVE  IsFiniteSet(A) /\ IsFiniteSet(B)
    BY <1>0, <1>1, FS_Subset
  <1>2. ASSUME IsFiniteSet(A), IsFiniteSet(B)
        PROVE  /\ IsFiniteSet(S) /\ Cardinality(S) = Cardinality(A) + Cardinality(B)
               /\ Cardinality(A) \in Nat /\ Cardinality(B) \in Nat
    <2>1. /\ IsFiniteSet(A \cup B)
          /\ Cardinality(A \cup B) = Cardinality(A) + Cardinality(B) - Cardinality(A \cap B)
      BY <1>2, FS_Union
    <2>2. Cardinality(A \cap B) = 0
      BY <1>0, FS_EmptySet
    <2>3. Cardinality(A) \in Nat /\ Cardinality(B) \in Nat
      BY <1>2, FS_CardinalityType
    <2> QED
      BY <1>0, <2>1, <2>2, <2>3
  <1> QED
    BY <1>1, <1>2

\* The fields of some templates are those of any part of them and of the rest.
LEMMA FieldsSplit ==
  ASSUME NEW T, NEW A, A \subseteq DOMAIN T
  PROVE  LET F == FieldsOf(Restrict(T, A))
             G == FieldsOf(Restrict(T, DOMAIN T \ A))
         IN  FieldsOf(T) = F \cup G /\ F \cap G = {}
  <1> DEFINE U == Restrict(T, A)
             V == Restrict(T, DOMAIN T \ A)
  <1>1. DOMAIN U = A /\ \A ref \in A : U[ref] = T[ref]
    BY RestrictIs
  <1>2. DOMAIN V = DOMAIN T \ A /\ \A ref \in DOMAIN T \ A : V[ref] = T[ref]
    BY RestrictIs
  <1> HIDE DEF U, V
  <1>3. FieldsOf(T) \subseteq FieldsOf(U) \cup FieldsOf(V)
    <2> SUFFICES ASSUME NEW ref \in DOMAIN T, NEW z \in {ref} \X (1..T[ref].size)
                 PROVE  z \in FieldsOf(U) \cup FieldsOf(V)
      BY DEF FieldsOf
    <2>1. CASE ref \in A
      BY <1>1, <2>1 DEF FieldsOf
    <2>2. CASE ref \notin A
      BY <1>2, <2>2 DEF FieldsOf
    <2> QED
      BY <2>1, <2>2
  <1>4. FieldsOf(U) \cup FieldsOf(V) \subseteq FieldsOf(T)
    BY <1>1, <1>2 DEF FieldsOf
  <1>5. FieldsOf(U) \cap FieldsOf(V) = {}
    <2> SUFFICES ASSUME NEW z \in FieldsOf(U), z \in FieldsOf(V)
                 PROVE  FALSE
      OBVIOUS
    <2>1. PICK a \in A : z \in {a} \X (1..U[a].size)
      BY <1>1 DEF FieldsOf
    <2>2. PICK b \in DOMAIN T \ A : z \in {b} \X (1..V[b].size)
      BY <1>2 DEF FieldsOf
    <2> QED
      BY <2>1, <2>2
  <1> QED
    BY <1>3, <1>4, <1>5 DEF U, V

\* A template's fields are as many as its size.
LEMMA OneTemplate ==
  ASSUME NEW T, NEW ref, DOMAIN T = {ref}, T[ref].size \in Nat
  PROVE  IsFiniteSet(FieldsOf(T)) /\ Cardinality(FieldsOf(T)) = T[ref].size
  <1>1. FieldsOf(T) = {ref} \X (1..T[ref].size)
    BY DEF FieldsOf
  <1>2. IsFiniteSet(1..T[ref].size) /\ Cardinality(1..T[ref].size) = T[ref].size
    <2>1. T[ref].size \in Int /\ 1 \in Int /\ T[ref].size - 1 + 1 = T[ref].size
      OBVIOUS
    <2>2. /\ IsFiniteSet(1..T[ref].size)
          /\ Cardinality(1..T[ref].size) = IF 1 > T[ref].size THEN 0 ELSE T[ref].size - 1 + 1
      BY <2>1, FS_Interval
    <2> QED
      BY <2>1, <2>2
  <1> QED
    BY <1>1, <1>2, Labelled

\* Dropping a template gives back what it cost.
LEMMA DroppedIs ==
  ASSUME NEW D \in DomainState, Charged(D), NEW ref
  PROVE  LET E == Dropped(D, ref)
         IN  /\ E \in DomainState /\ SameDomain(E, D) /\ Charged(E)
             /\ E.templates = Without(D.templates, ref)
             /\ E.fields = D.fields - HeldFields(D, ref)
             /\ HeldFields(D, ref) \in Nat
  <1> DEFINE T == D.templates
             A == DOMAIN T \cap {ref}
             U == Restrict(T, A)
             V == Restrict(T, DOMAIN T \ A)
  <1>0. /\ DOMAIN T \subseteq Refs /\ T \in [DOMAIN T -> Template] /\ D.fields \in Int
    BY DomainIs
  <1>1. V = Without(T, ref) /\ DOMAIN V = DOMAIN T \ {ref} /\ \A r \in DOMAIN V : V[r] = T[r]
    <2>1. DOMAIN T \ A = DOMAIN T \ {ref}
      OBVIOUS
    <2> QED
      BY <2>1, RestrictIs DEF Without
  <1>2. DOMAIN U = A /\ \A r \in A : U[r] = T[r]
    BY RestrictIs
  <1>3. FieldsOf(T) = FieldsOf(U) \cup FieldsOf(V) /\ FieldsOf(U) \cap FieldsOf(V) = {}
    BY FieldsSplit
  <1>4. IsFiniteSet(FieldsOf(T)) /\ D.fields = Cardinality(FieldsOf(T))
    BY DEF Charged
  <1>5. Cardinality(FieldsOf(U)) = HeldFields(D, ref) /\ HeldFields(D, ref) \in Nat
    <2>1. CASE ref \in DOMAIN T
      <3>1. DOMAIN U = {ref} /\ U[ref].size = T[ref].size /\ T[ref].size \in Nat
        BY <1>0, <1>2, <2>1, Values DEF Template
      <3>2. Cardinality(FieldsOf(U)) = U[ref].size
        BY <3>1, OneTemplate
      <3> QED
        BY <2>1, <3>1, <3>2 DEF HeldFields
    <2>2. CASE ref \notin DOMAIN T
      <3>1. FieldsOf(U) = {}
        BY <1>2, <2>2 DEF FieldsOf
      <3> QED
        BY <2>2, <3>1, FS_EmptySet DEF HeldFields
    <2> QED
      BY <2>1, <2>2
  <1> HIDE DEF U
  <1>6. /\ IsFiniteSet(FieldsOf(V)) /\ Cardinality(FieldsOf(V)) \in Nat
        /\ Cardinality(FieldsOf(T)) = HeldFields(D, ref) + Cardinality(FieldsOf(V))
    <2> DEFINE S == FieldsOf(T)
               P == FieldsOf(U)
               Q == FieldsOf(V)
    <2>1. S = P \cup Q /\ P \cap Q = {} /\ IsFiniteSet(S)
      BY <1>3, <1>4
    <2>2. Cardinality(P) = HeldFields(D, ref)
      BY <1>5
    <2> HIDE DEF S, P, Q
    <2>3. Parts(S, P, Q)
      BY <2>1 DEF Parts
    <2>5. /\ IsFiniteSet(S) <=> IsFiniteSet(P) /\ IsFiniteSet(Q)
          /\ IsFiniteSet(S) => /\ Cardinality(S) = Cardinality(P) + Cardinality(Q)
                               /\ Cardinality(P) \in Nat /\ Cardinality(Q) \in Nat
      BY <2>3, TwoParts
    <2> QED
      BY <2>1, <2>2, <2>5 DEF S, P, Q
  <1> HIDE DEF V
  <1>7. DOMAIN V \subseteq Refs /\ V \in [DOMAIN V -> Template]
    <2>1. V = [r \in DOMAIN V |-> V[r]]
      BY <1>1 DEF Without, Restrict
    <2> HIDE DEF T
    <2> QED
      BY <1>0, <1>1, <2>1
  <1>8. D.fields - HeldFields(D, ref) \in Int
    BY <1>0, <1>5
  <1>9. Dropped(D, ref) =
          [D EXCEPT !.templates = V, !.fields = D.fields - HeldFields(D, ref)]
    BY <1>1 DEF Dropped
  <1> DEFINE fields == D.fields - HeldFields(D, ref)
  <1> HIDE DEF fields
  <1>10. /\ Dropped(D, ref) \in DomainState /\ SameDomain(Dropped(D, ref), D)
         /\ Dropped(D, ref).templates = V
         /\ Dropped(D, ref).fields = D.fields - HeldFields(D, ref)
    <2>1. fields \in Int
      BY <1>8 DEF fields
    <2>2. Dropped(D, ref) = Refill(D, V, fields)
      BY <1>9 DEF fields, Refill
    <2>3. DOMAIN V \subseteq Refs
      BY <1>7
    <2>4. V \in [DOMAIN V -> Template]
      BY <1>7
    <2>5. /\ Refill(D, V, fields) \in DomainState /\ SameDomain(Refill(D, V, fields), D)
          /\ Refill(D, V, fields).templates = V /\ Refill(D, V, fields).fields = fields
      BY <2>1, <2>3, <2>4, Refilled
    <2> QED
      BY <2>2, <2>5 DEF fields
  <1> QED
    BY <1>1, <1>4, <1>5, <1>6, <1>10 DEF Charged

\* Dropping the expired templates gives back what they cost.
LEMMA PrunedIs ==
  ASSUME NEW D \in DomainState, Charged(D), NEW at \in Time
  PROVE  LET E == Pruned(D, at)
         IN  /\ E \in DomainState /\ SameDomain(E, D) /\ Charged(E)
             /\ DOMAIN E.templates \subseteq DOMAIN D.templates
             /\ \A ref \in DOMAIN E.templates : E.templates[ref] = D.templates[ref]
             /\ E.fields <= D.fields
  <1> DEFINE T == D.templates
             A == Expired(D, at)
             U == Restrict(T, A)
             V == Restrict(T, DOMAIN T \ A)
             fields == D.fields - Cardinality(FieldsOf(U))
             times == {at} \cup {V[ref].at : ref \in DOMAIN V}
  <1>0. /\ DOMAIN T \subseteq Refs /\ T \in [DOMAIN T -> Template] /\ D.fields \in Int
    BY DomainIs
  <1>1. DOMAIN V = DOMAIN T \ A /\ \A r \in DOMAIN V : V[r] = T[r]
    BY RestrictIs
  <1>2. A \subseteq DOMAIN T
    BY DEF Expired
  <1>3. FieldsOf(T) = FieldsOf(U) \cup FieldsOf(V) /\ FieldsOf(U) \cap FieldsOf(V) = {}
    BY <1>2, FieldsSplit
  <1>4. IsFiniteSet(FieldsOf(T)) /\ D.fields = Cardinality(FieldsOf(T))
    BY DEF Charged
  <1>5. /\ IsFiniteSet(FieldsOf(V)) /\ Cardinality(FieldsOf(V)) \in Nat
        /\ Cardinality(FieldsOf(U)) \in Nat
        /\ Cardinality(FieldsOf(T)) = Cardinality(FieldsOf(U)) + Cardinality(FieldsOf(V))
    <2> DEFINE S == FieldsOf(T)
               P == FieldsOf(U)
               Q == FieldsOf(V)
    <2>1. S = P \cup Q /\ P \cap Q = {} /\ IsFiniteSet(S)
      BY <1>3, <1>4
    <2> HIDE DEF S, P, Q
    <2>2. Parts(S, P, Q)
      BY <2>1 DEF Parts
    <2>4. /\ IsFiniteSet(S) <=> IsFiniteSet(P) /\ IsFiniteSet(Q)
          /\ IsFiniteSet(S) => /\ Cardinality(S) = Cardinality(P) + Cardinality(Q)
                               /\ Cardinality(P) \in Nat /\ Cardinality(Q) \in Nat
      BY <2>2, TwoParts
    <2> QED
      BY <2>1, <2>4 DEF S, P, Q
  <1>6. V \in [DOMAIN V -> Template]
    <2>1. V = [r \in DOMAIN T \ A |-> T[r]]
      BY DEF Restrict
    <2>2. \A r \in DOMAIN T \ A : T[r] \in Template
      BY <1>0
    <2> HIDE DEF A, T
    <2> QED
      BY <1>1, <2>1, <2>2
  <1>7. Min(times) \in Time
    <2>1. times \in SUBSET Time /\ times # {}
      BY <1>6 DEF Template
    <2> HIDE DEF times
    <2> QED
      BY <2>1, MinIs
  <1> DEFINE oldest == Min(times)
  <1>8. Pruned(D, at) = [Refill(D, V, fields) EXCEPT !.oldest = oldest]
    BY DEF Pruned, Refill
  <1>9. fields \in Int /\ fields = Cardinality(FieldsOf(V)) /\ fields <= D.fields
    BY <1>4, <1>5
  <1>10. oldest \in Time \cup {Never}
    BY <1>7
  <1> HIDE DEF fields, oldest, U, times
  <1>11. DOMAIN V \subseteq Refs
    BY <1>0, <1>1
  <1> HIDE DEF V
  <1>12. /\ Refill(D, V, fields) \in DomainState /\ SameDomain(Refill(D, V, fields), D)
         /\ Refill(D, V, fields).templates = V /\ Refill(D, V, fields).fields = fields
    BY <1>6, <1>9, <1>11, Refilled
  <1>13. PICK R \in DomainState : R = Refill(D, V, fields)
    BY <1>12
  <1>14. /\ Pruned(D, at) \in DomainState /\ SameDomain(Pruned(D, at), R)
         /\ Pruned(D, at).templates = V /\ Pruned(D, at).fields = fields
    BY <1>8, <1>10, <1>12, <1>13, Aged
  <1>15. SameDomain(Pruned(D, at), D)
    BY <1>12, <1>13, <1>14 DEF SameDomain
  <1> QED
    BY <1>1, <1>5, <1>9, <1>14, <1>15 DEF Charged

\* A template stored costs its size, and no longer what it replaced did.
Stored(D, ref, size, at) ==
  [D EXCEPT !.fields = @ + size - HeldFields(D, ref),
            !.templates = Put(@, ref, [size |-> size, at |-> at])]

\* A template stored is charged for, less what it replaces was.
LEMMA StoredIs ==
  ASSUME NEW D \in DomainState, Charged(D), NEW ref \in Refs, NEW size \in FieldCounts,
         NEW at \in Time
  PROVE  LET E == Stored(D, ref, size, at)
         IN  /\ E \in DomainState /\ SameDomain(E, D) /\ Charged(E)
             /\ E.templates = Put(D.templates, ref, [size |-> size, at |-> at])
             /\ E.fields = D.fields + size - HeldFields(D, ref)
  <1> DEFINE T == D.templates
             one == [size |-> size, at |-> at]
             P == Put(T, ref, one)
             U == Restrict(P, {ref})
             V == Restrict(P, DOMAIN P \ {ref})
             fields == D.fields + size - HeldFields(D, ref)
  <1>0. /\ DOMAIN T \subseteq Refs /\ T \in [DOMAIN T -> Template] /\ D.fields \in Int
        /\ size \in Nat /\ one \in Template
    BY DomainIs, Values DEF Template
  <1>1. /\ DOMAIN P = DOMAIN T \cup {ref} /\ P[ref] = one
        /\ \A r \in DOMAIN T : r # ref => P[r] = T[r]
    BY DEF Put
  <1>2. P \in [DOMAIN P -> Template]
    <2>1. P = [r \in DOMAIN P |-> P[r]]
      BY DEF Put
    <2> HIDE DEF one
    <2> QED
      BY <1>0, <1>1, <2>1
  <1>3. /\ IsFiniteSet(FieldsOf(Without(T, ref))) /\ HeldFields(D, ref) \in Nat
        /\ Cardinality(FieldsOf(Without(T, ref))) = D.fields - HeldFields(D, ref)
    BY DroppedIs DEF Charged
  <1>4. V = Without(T, ref)
    <2>1. DOMAIN P \ {ref} = DOMAIN T \ {ref}
      BY <1>1
    <2>2. \A r \in DOMAIN T \ {ref} : P[r] = T[r]
      BY <1>1
    <2> HIDE DEF P
    <2> QED
      BY <2>1, <2>2 DEF Without, Restrict
  <1>5. IsFiniteSet(FieldsOf(U)) /\ Cardinality(FieldsOf(U)) = size
    <2>1. DOMAIN U = {ref} /\ U[ref].size = size
      BY <1>1 DEF Restrict
    <2> HIDE DEF U
    <2> QED
      BY <1>0, <2>1, OneTemplate
  <1>6. FieldsOf(P) = FieldsOf(U) \cup FieldsOf(V) /\ FieldsOf(U) \cap FieldsOf(V) = {}
    <2>1. {ref} \subseteq DOMAIN P
      BY <1>1
    <2> HIDE DEF P
    <2> QED
      BY <2>1, FieldsSplit
  <1> HIDE DEF P, U, V
  <1>7. IsFiniteSet(FieldsOf(P)) /\ Cardinality(FieldsOf(P)) = fields
    <2> DEFINE X == FieldsOf(P)
               Y == FieldsOf(U)
               Z == FieldsOf(V)
    <2>1. /\ X = Y \cup Z /\ Y \cap Z = {} /\ IsFiniteSet(Y) /\ IsFiniteSet(Z)
          /\ Cardinality(Y) = size /\ Cardinality(Z) = D.fields - HeldFields(D, ref)
      BY <1>3, <1>4, <1>5, <1>6
    <2> HIDE DEF X, Y, Z
    <2>2. Parts(X, Y, Z)
      BY <2>1 DEF Parts
    <2>4. /\ IsFiniteSet(X) <=> IsFiniteSet(Y) /\ IsFiniteSet(Z)
          /\ IsFiniteSet(X) => /\ Cardinality(X) = Cardinality(Y) + Cardinality(Z)
                               /\ Cardinality(Y) \in Nat /\ Cardinality(Z) \in Nat
      BY <2>2, TwoParts
    <2> QED
      BY <1>0, <1>3, <2>1, <2>4 DEF X
  <1>8. fields \in Int
    BY <1>0, <1>3
  <1> HIDE DEF fields
  <1>9. Stored(D, ref, size, at) = Refill(D, P, fields)
    <2>1. Stored(D, ref, size, at) = [D EXCEPT !.fields = fields, !.templates = P]
      BY DEF Stored, fields, P
    <2> QED
      BY <2>1, RefilledAlso
  <1>10. DOMAIN P \subseteq Refs
    BY <1>0, <1>1
  <1>11. /\ Refill(D, P, fields) \in DomainState /\ SameDomain(Refill(D, P, fields), D)
         /\ Refill(D, P, fields).templates = P /\ Refill(D, P, fields).fields = fields
    BY <1>2, <1>8, <1>10, Refilled
  <1> QED
    BY <1>7, <1>9, <1>11 DEF Charged, P, fields

-----------------------------------------------------------------------------
(* What each step does to the objects.                                     *)

Table == UNION {[S -> Time] : S \in SUBSET Samplers}

\* The indexes lead to objects, and the objects are of their types and those in use.
ObjectsOK ==
  /\ DOMAIN domains \subseteq Domains /\ domains \in [DOMAIN domains -> DOMAIN heap]
  /\ DOMAIN perExporter \subseteq Exporters
  /\ perExporter \in [DOMAIN perExporter -> DOMAIN budgets]
  /\ DOMAIN samplerTables \subseteq TableKeys
  /\ samplerTables \in [DOMAIN samplerTables -> DOMAIN tables]
  /\ DOMAIN heap \subseteq Ids /\ \A i \in DOMAIN heap : heap[i] \in DomainState
  /\ DOMAIN budgets \subseteq Ids /\ \A i \in DOMAIN budgets : budgets[i] \in ExporterBudget
  /\ DOMAIN tables \subseteq Ids /\ \A i \in DOMAIN tables : tables[i] \in Table
  /\ HeapOK

\* The workers, the sweep and the clock are as their types say.
ActorsOK ==
  /\ worker \in [Workers -> WorkerState] /\ \A w \in Workers : Shape(w)
  /\ sweeper \in SweeperState
  /\ now \in Time
  /\ announced \in [Domains -> [Refs -> FieldCounts \cup {0}]]

\* The type invariant and what is on the heap, told apart by whom they are about.
LEMMA Split ==
  /\ TypeOK /\ HeapOK <=> ObjectsOK /\ ActorsOK
  /\ TypeOK' /\ HeapOK' <=> ObjectsOK' /\ ActorsOK'
  BY Zenon DEF TypeOK, ObjectsOK, ActorsOK, Table

\* A worker that moves lets go of nothing another holds.
LEMMA HandsMove ==
  ASSUME NEW w \in Workers, Others(w)
  PROVE  /\ InHand' \subseteq InHand \cup {worker'[w].d, worker'[w].held}
         /\ \A v \in Workers \ {w} : worker'[v] = worker[v]
  BY DEF Others, InHand

\* Objects of their types, each domain charged for its templates to a budget
\* and declaring into a table among them.
Wellformed(h, b, t) ==
  /\ \A i \in DOMAIN h : /\ i \in Ids /\ h[i] \in DomainState /\ Charged(h[i])
                         /\ h[i].budget \in DOMAIN b /\ h[i].declared \in DOMAIN t
  /\ \A i \in DOMAIN b : i \in Ids /\ b[i] \in ExporterBudget
  /\ \A i \in DOMAIN t : i \in Ids /\ t[i] \in Table

\* What the indexes and the workers are left with is among the objects.
Reached(h, b, t) ==
  /\ DOMAIN domains' \subseteq Domains /\ domains' \in [DOMAIN domains' -> DOMAIN h]
  /\ DOMAIN perExporter' \subseteq Exporters /\ perExporter' \in [DOMAIN perExporter' -> DOMAIN b]
  /\ DOMAIN samplerTables' \subseteq TableKeys
  /\ samplerTables' \in [DOMAIN samplerTables' -> DOMAIN t]
  /\ InHand' \subseteq DOMAIN h \cup {None}

\* The objects as they were, before any step.
LEMMA WellformedNow ==
  ASSUME ObjectsOK
  PROVE  /\ Wellformed(heap, budgets, tables) /\ None \notin DOMAIN heap
         /\ InHand \subseteq DOMAIN heap \cup {None}
  BY Values DEF ObjectsOK, HeapOK, Wellformed, Charged

\* What is kept is what is in use, as it was.
LEMMA KeptIs ==
  ASSUME NEW h, NEW b, NEW t, Wellformed(h, b, t), Reached(h, b, t), Keep(h, b, t)
  PROVE  /\ ObjectsOK'
         /\ \A i \in DOMAIN heap' : i \in DOMAIN h /\ heap'[i] = h[i]
         /\ \A i \in DOMAIN budgets' : i \in DOMAIN b /\ budgets'[i] = b[i]
         /\ \A i \in DOMAIN tables' : i \in DOMAIN t /\ tables'[i] = t[i]
         /\ Range(domains') \subseteq DOMAIN heap' /\ Range(perExporter') \subseteq DOMAIN budgets'
         /\ Range(samplerTables') \subseteq DOMAIN tables'
  <1> DEFINE A == DOMAIN h \cap (Range(domains') \cup InHand')
             kept == Restrict(h, A)
             B == Range(perExporter') \cup {kept[i].budget : i \in DOMAIN kept}
             C == Range(samplerTables') \cup {kept[i].declared : i \in DOMAIN kept}
  <1>1. heap' = kept /\ budgets' = Restrict(b, B) /\ tables' = Restrict(t, C)
    BY DEF Keep, InHand
  <1>2. DOMAIN heap' = A /\ \A i \in A : heap'[i] = h[i]
    BY <1>1, RestrictIs
  <1>3. DOMAIN budgets' = B /\ \A i \in B : budgets'[i] = b[i]
    BY <1>1, RestrictIs
  <1>4. DOMAIN tables' = C /\ \A i \in C : tables'[i] = t[i]
    BY <1>1, RestrictIs
  <1>5. /\ B = Range(perExporter') \cup {heap'[i].budget : i \in DOMAIN heap'}
        /\ C = Range(samplerTables') \cup {heap'[i].declared : i \in DOMAIN heap'}
    BY <1>1
  <1> HIDE DEF A, B, C, kept
  <1>6. None \notin DOMAIN h
    BY Values DEF Wellformed
  <1>7. A = (Range(domains') \cup InHand') \ {None} /\ A \subseteq DOMAIN h
    BY <1>6 DEF A, Reached, Range
  <1>8. B \subseteq DOMAIN b /\ C \subseteq DOMAIN t
    BY <1>2, <1>5, <1>7 DEF Reached, Wellformed, Range
  <1>9. Range(domains') \subseteq A /\ Range(perExporter') \subseteq B /\ Range(samplerTables') \subseteq C
    BY <1>5, <1>6 DEF A, Reached, Range
  <1>10. /\ domains' \in [DOMAIN domains' -> DOMAIN heap']
         /\ perExporter' \in [DOMAIN perExporter' -> DOMAIN budgets']
         /\ samplerTables' \in [DOMAIN samplerTables' -> DOMAIN tables']
    BY <1>2, <1>3, <1>4, <1>9 DEF Reached, Range
  <1>11. /\ DOMAIN heap' \subseteq Ids /\ \A i \in DOMAIN heap' : heap'[i] \in DomainState
         /\ \A i \in DOMAIN heap' : Charged(heap'[i])
    BY <1>2, <1>7 DEF Wellformed
  <1>12. /\ DOMAIN budgets' \subseteq Ids
         /\ \A i \in DOMAIN budgets' : budgets'[i] \in ExporterBudget
         /\ DOMAIN tables' \subseteq Ids /\ \A i \in DOMAIN tables' : tables'[i] \in Table
    BY <1>3, <1>4, <1>8 DEF Wellformed
  <1>13. HeapOK'
    BY <1>2, <1>3, <1>4, <1>5, <1>7, <1>11 DEF HeapOK, Charged
  <1>14. ObjectsOK'
    BY <1>10, <1>11, <1>12, <1>13 DEF ObjectsOK, Reached
  <1> QED
    BY <1>2, <1>3, <1>4, <1>7, <1>8, <1>9, <1>14

\* The indexes lead to the same domains, and the objects there keep what the
\* indexes are about.
Standing ==
  /\ UNCHANGED <<domains, perExporter>>
  /\ \A k \in DOMAIN domains :
       /\ heap'[domains[k]].key = heap[domains[k]].key
       /\ heap'[domains[k]].budget = heap[domains[k]].budget
       /\ heap'[domains[k]].declared = heap[domains[k]].declared
       /\ TableOf[k] \in DOMAIN samplerTables'
       /\ samplerTables'[TableOf[k]] = samplerTables[TableOf[k]]
  /\ \A x \in DOMAIN perExporter :
       budgets'[perExporter[x]].domains = budgets[perExporter[x]].domains

\* Where the indexes lead to the same things, what they promise still holds.
LEMMA StandingKeeps ==
  ASSUME StoreInv, ObjectsOK', Standing
  PROVE  StoreInv'
  <1>1. domains' = domains /\ perExporter' = perExporter
    BY DEF Standing
  <1>2. IndexOK'
    BY <1>1 DEF IndexOK, StoreInv, Standing
  <1>3. BudgetsFollowDomains'
    BY <1>1 DEF BudgetsFollowDomains, LiveOf, StoreInv, Standing
  <1>4. TableShared'
    BY <1>1 DEF TableShared, StoreInv, Standing
  <1> QED
    BY <1>2, <1>3, <1>4 DEF StoreInv, ObjectsOK

\* Objects whose domains and budgets are still those they were.
Stands(h, b, t) ==
  /\ DOMAIN h = DOMAIN heap /\ DOMAIN b = DOMAIN budgets /\ DOMAIN t = DOMAIN tables
  /\ \A i \in DOMAIN heap :
       /\ h[i] \in DomainState /\ Charged(h[i]) /\ h[i].key = heap[i].key
       /\ h[i].budget = heap[i].budget /\ h[i].declared = heap[i].declared
  /\ \A i \in DOMAIN budgets : b[i] \in ExporterBudget /\ b[i].domains = budgets[i].domains
  /\ \A i \in DOMAIN tables : t[i] \in Table

\* What a step leaves as it was stands.
LEMMA NowStands ==
  ASSUME ObjectsOK
  PROVE  /\ Stands(heap, budgets, tables)
         /\ \A i \in DOMAIN heap : heap[i].budget \in DOMAIN budgets /\ heap[i].declared \in DOMAIN tables
  BY DEF ObjectsOK, HeapOK, Stands, Charged

\* A step that moves no index, and whose worker takes up no domain but one of
\* the store, keeps the store sound.
LEMMA StandsKept ==
  ASSUME ObjectsOK, StoreInv, UNCHANGED indexes, NEW h, NEW b, NEW t, Stands(h, b, t),
         InHand' \subseteq InHand \cup Range(domains) \cup {None}, Keep(h, b, t)
  PROVE  /\ ObjectsOK' /\ StoreInv'
         /\ \A i \in DOMAIN heap' : i \in DOMAIN heap /\ heap'[i] = h[i]
         /\ \A i \in DOMAIN budgets' : i \in DOMAIN budgets /\ budgets'[i] = b[i]
         /\ Range(domains) \subseteq DOMAIN heap'
         /\ Range(perExporter) \subseteq DOMAIN budgets'
  <1>0. domains' = domains /\ perExporter' = perExporter /\ samplerTables' = samplerTables
    BY DEF indexes
  <1>1. Wellformed(h, b, t)
    BY NowStands, WellformedNow DEF Stands, Wellformed
  <1>2. InHand' \subseteq DOMAIN h \cup {None}
    BY WellformedNow DEF Stands, ObjectsOK, Range
  <1>3. Reached(h, b, t)
    BY <1>0, <1>2 DEF Reached, Stands, ObjectsOK
  <1>4. /\ ObjectsOK'
        /\ \A i \in DOMAIN heap' : i \in DOMAIN h /\ heap'[i] = h[i]
        /\ \A i \in DOMAIN budgets' : i \in DOMAIN b /\ budgets'[i] = b[i]
        /\ Range(domains) \subseteq DOMAIN heap'
        /\ Range(perExporter) \subseteq DOMAIN budgets'
    BY <1>0, <1>1, <1>3, KeptIs
  <1>5. Standing
    <2>1. ASSUME NEW k \in DOMAIN domains
          PROVE  /\ heap'[domains[k]].key = heap[domains[k]].key
                 /\ heap'[domains[k]].budget = heap[domains[k]].budget
                 /\ heap'[domains[k]].declared = heap[domains[k]].declared
      <3>1. domains[k] \in DOMAIN heap' /\ domains[k] \in DOMAIN heap
        BY <1>4 DEF Range, ObjectsOK
      <3> QED
        BY <1>4, <3>1 DEF Stands
    <2>2. ASSUME NEW x \in DOMAIN perExporter
          PROVE  budgets'[perExporter[x]].domains = budgets[perExporter[x]].domains
      <3>1. perExporter[x] \in DOMAIN budgets' /\ perExporter[x] \in DOMAIN budgets
        BY <1>4 DEF Range, ObjectsOK
      <3> QED
        BY <1>4, <3>1 DEF Stands
    <2>3. \A k \in DOMAIN domains : TableOf[k] \in DOMAIN samplerTables
      BY DEF StoreInv, TableShared
    <2> QED
      BY <1>0, <2>1, <2>2, <2>3 DEF Standing
  <1>6. StoreInv'
    BY <1>4, <1>5, StandingKeeps
  <1> QED
    BY <1>4, <1>6 DEF Stands

\* A domain stamped stands, all but when it was seen.
LEMMA StampStands ==
  ASSUME ObjectsOK, NEW i \in DOMAIN heap, NEW at \in Time
  PROVE  LET h == [heap EXCEPT ![i].lastSeen = at]
         IN  /\ Stands(h, budgets, tables)
             /\ \A j \in DOMAIN heap \ {i} : h[j] = heap[j]
             /\ h[i].lastSeen = at /\ h[i].templates = heap[i].templates
             /\ h[i].fields = heap[i].fields
  <1> DEFINE D == [heap[i] EXCEPT !.lastSeen = at]
             h == [heap EXCEPT ![i] = D]
  <1>1. heap[i] \in DomainState
    BY DEF ObjectsOK
  <1>2. /\ D \in DomainState /\ D.key = heap[i].key /\ D.budget = heap[i].budget
        /\ D.declared = heap[i].declared /\ D.lastSeen = at
        /\ D.templates = heap[i].templates /\ D.fields = heap[i].fields
    BY <1>1 DEF DomainState
  <1>3. h = [heap EXCEPT ![i].lastSeen = at]
    OBVIOUS
  <1> HIDE DEF D
  <1>4. /\ DOMAIN h = DOMAIN heap /\ h[i] = D
        /\ \A j \in DOMAIN heap \ {i} : h[j] = heap[j]
    BY DEF h
  <1>5. Charged(heap[i]) => Charged(D)
    BY <1>2 DEF Charged
  <1> HIDE DEF h
  <1>6. Stands(heap, budgets, tables)
    BY NowStands
  <1>7. Stands(h, budgets, tables)
    BY <1>2, <1>4, <1>5, <1>6 DEF Stands
  <1> QED
    BY <1>2, <1>3, <1>4, <1>7

\* A domain whose templates are replaced stands, and so does the budget that is
\* charged the difference.
LEMMA ChargeStands ==
  ASSUME ObjectsOK, NEW i \in DOMAIN heap, NEW D \in DomainState, Charged(D),
         SameDomain(D, heap[i])
  PROVE  LET h == [heap EXCEPT ![i] = D]
             b == [budgets EXCEPT ![D.budget].fields = @ + D.fields - heap[i].fields]
         IN  /\ Stands(h, b, tables)
             /\ h[i] = D /\ \A j \in DOMAIN heap \ {i} : h[j] = heap[j]
             /\ b[D.budget].fields = budgets[D.budget].fields + D.fields - heap[i].fields
             /\ \A j \in DOMAIN budgets \ {D.budget} : b[j] = budgets[j]
             /\ D.budget \in DOMAIN budgets
  <1> DEFINE h == [heap EXCEPT ![i] = D]
             B == [budgets[D.budget] EXCEPT !.fields = @ + D.fields - heap[i].fields]
             b == [budgets EXCEPT ![D.budget] = B]
  <1>1. /\ heap[i] \in DomainState /\ D.budget = heap[i].budget /\ D.budget \in DOMAIN budgets
        /\ D.key = heap[i].key /\ D.declared = heap[i].declared
    BY NowStands DEF ObjectsOK, SameDomain
  <1>2. budgets[D.budget] \in ExporterBudget /\ D.fields \in Int /\ heap[i].fields \in Int
    BY <1>1, DomainIs DEF ObjectsOK
  <1>3. /\ B \in ExporterBudget /\ B.domains = budgets[D.budget].domains
        /\ B.fields = budgets[D.budget].fields + D.fields - heap[i].fields
    BY <1>2 DEF ExporterBudget
  <1>4. b = [budgets EXCEPT ![D.budget].fields = @ + D.fields - heap[i].fields]
    OBVIOUS
  <1> HIDE DEF B
  <1>5. /\ DOMAIN b = DOMAIN budgets /\ b[D.budget] = B
        /\ \A j \in DOMAIN budgets \ {D.budget} : b[j] = budgets[j]
    BY <1>1 DEF b
  <1>6. /\ DOMAIN h = DOMAIN heap /\ h[i] = D
        /\ \A j \in DOMAIN heap \ {i} : h[j] = heap[j]
    BY DEF h
  <1> HIDE DEF h, b
  <1>7. Stands(heap, budgets, tables)
    BY NowStands
  <1>8. Stands(h, b, tables)
    BY <1>1, <1>3, <1>5, <1>6, <1>7 DEF Stands
  <1> QED
    BY <1>1, <1>3, <1>4, <1>5, <1>6, <1>8 DEF h

-----------------------------------------------------------------------------
(* The invariant: the actors.                                              *)

\* The store is sound and the actors are of their types: that is the invariant.
LEMMA InvIs ==
  /\ Inv => ObjectsOK /\ ActorsOK /\ StoreInv /\ SweepOK /\ ClockOK
  /\ ObjectsOK' /\ ActorsOK' /\ StoreInv' /\ SweepOK' /\ ClockOK' => Inv'
  BY Split DEF Inv, StoreInv

\* A worker that goes on with its datagram, its record the shape its new phase
\* asks for.
LEMMA TurnKeeps ==
  ASSUME Inv, NEW w \in Workers, worker[w].pc # "idle",
         NEW pc \in {"find", "open", "stamp", "body", "ready"}, NEW call \in Calls,
         NEW d, NEW held, Turns(w, pc, call, d, held),
         pc = "ready" => call \in {"datagram", "lookup"},
         pc = "body" => call # "datagram",
         held # None <=> pc \in {"stamp", "body"},
         d # None <=> pc = "ready" \/ call # "datagram",
         call # "datagram" => worker'[w].ref \in Refs,
         call = "add" => worker'[w].size # 0,
         pc \in {"find", "open", "stamp"} => worker[w].since <= worker'[w].at,
         UNCHANGED <<sweeper, now>>, announced' \in [Domains -> [Refs -> FieldCounts \cup {0}]],
         DOMAIN domains \subseteq DOMAIN domains', ObjectsOK', StoreInv'
  PROVE  Inv'
  <1>1. Others(w)
    BY DEF Turns
  <1>2. \A v \in Workers : Shape(v)'
    <2> SUFFICES ASSUME NEW v \in Workers
                 PROVE  Shape(v)'
      OBVIOUS
    <2>1. CASE v # w
      <3>1. worker'[v] = worker[v] /\ Shape(v)
        BY <1>1, <2>1, InvIs DEF Others, ActorsOK
      <3> QED
        BY <3>1 DEF Shape
    <2>2. CASE v = w
      <3>1. worker'[w].key \in Domains
        BY InvIs DEF ActorsOK, Shape, Turns
      <3> QED
        BY <2>2, <3>1 DEF Shape, Turns
    <2> QED
      BY <2>1, <2>2
  <1>3. ActorsOK'
    BY <1>1, <1>2, InvIs DEF ActorsOK, Others
  <1>4. ClockOK'
    <2> SUFFICES ASSUME NEW v \in Workers
                 PROVE  /\ worker'[v].pc # "idle" =>
                             worker'[v].since <= now /\ now <= worker'[v].since + TTL
                        /\ worker'[v].pc \in {"find", "open", "stamp"} =>
                             worker'[v].since <= worker'[v].at
      BY DEF ClockOK
    <2>1. CASE v # w
      <3>1. worker'[v] = worker[v]
        BY <1>1, <2>1 DEF Others
      <3> QED
        BY <3>1, InvIs DEF ClockOK
    <2>2. CASE v = w
      BY <2>2, InvIs DEF ClockOK, Turns
    <2> QED
      BY <2>1, <2>2
  <1>5. SweepOK'
    BY InvIs DEF SweepOK
  <1> QED
    BY <1>3, <1>4, <1>5, InvIs

\* A worker that is done.
LEMMA FinishKeeps ==
  ASSUME Inv, NEW w \in Workers, Finishes(w), UNCHANGED <<sweeper, now, announced>>,
         DOMAIN domains \subseteq DOMAIN domains', ObjectsOK', StoreInv'
  PROVE  Inv'
  <1>1. \A v \in Workers \ {w} : worker'[v] = worker[v]
    BY DEF Finishes, Others
  <1>2. \A v \in Workers : Shape(v)'
    BY <1>1, InvIs DEF ActorsOK, Shape, Finishes
  <1>3. ActorsOK'
    BY <1>2, InvIs DEF ActorsOK, Finishes, Others
  <1>4. ClockOK'
    BY <1>1, InvIs DEF ClockOK, Finishes
  <1>5. SweepOK'
    BY InvIs DEF SweepOK
  <1> QED
    BY <1>3, <1>4, <1>5, InvIs

\* Objects nobody touches, with the same of them in use, are as sound as before.
LEMMA Untouched ==
  ASSUME ObjectsOK, StoreInv, UNCHANGED <<indexes, objects>>,
         (Range(domains) \cup InHand') \ {None} = (Range(domains) \cup InHand) \ {None}
  PROVE  ObjectsOK' /\ StoreInv'
  <1>1. /\ domains' = domains /\ perExporter' = perExporter /\ samplerTables' = samplerTables
        /\ heap' = heap /\ budgets' = budgets /\ tables' = tables
    BY DEF indexes, objects
  <1>2. HeapOK'
    BY <1>1 DEF HeapOK, ObjectsOK, Charged
  <1>3. ObjectsOK'
    BY <1>1, <1>2 DEF ObjectsOK
  <1>4. Standing
    BY <1>1 DEF Standing, StoreInv, TableShared
  <1> QED
    BY <1>3, <1>4, StandingKeeps

\* A worker that takes up no domain but those it has and those of the store.
LEMMA HandsTurn ==
  ASSUME NEW w \in Workers, NEW pc, NEW call, NEW d, NEW held, Turns(w, pc, call, d, held),
         {d, held} \subseteq {worker[w].d, worker[w].held, None} \cup Range(domains)
  PROVE  InHand' \subseteq InHand \cup Range(domains) \cup {None}
  <1>1. InHand' \subseteq InHand \cup {d, held}
    BY HandsMove DEF Turns
  <1>2. {worker[w].d, worker[w].held} \subseteq InHand
    BY DEF InHand
  <1> QED
    BY <1>1, <1>2

\* One that takes up and lets go of none but domains of the store.
LEMMA HandsStay ==
  ASSUME NEW w \in Workers, Others(w),
         {worker'[w].d, worker'[w].held} \cup Range(domains) \cup {None}
           = {worker[w].d, worker[w].held} \cup Range(domains) \cup {None}
  PROVE  (Range(domains) \cup InHand') \ {None} = (Range(domains) \cup InHand) \ {None}
  <1> DEFINE rest == UNION {{worker[v].d, worker[v].held} : v \in Workers \ {w}}
  <1>1. \A v \in Workers \ {w} : worker'[v] = worker[v]
    BY DEF Others
  <1>2. InHand = rest \cup {worker[w].d, worker[w].held}
    BY DEF InHand
  <1>3. InHand' = rest \cup {worker'[w].d, worker'[w].held}
    BY <1>1 DEF InHand
  <1> HIDE DEF rest
  <1> QED
    BY <1>2, <1>3

\* Receive keeps the invariant.
LEMMA ReceiveStep ==
  ASSUME Inv, NEW w \in Workers, NEW k \in Domains, Receive(w, k)
  PROVE  Inv'
  <1>1. /\ Others(w)
        /\ worker'[w].pc = "find" /\ worker'[w].call = "datagram" /\ worker'[w].key = k
        /\ worker'[w].d = None /\ worker'[w].held = None
        /\ worker'[w].since = now /\ worker'[w].at = now
    BY ReceiveTurns DEF Inv
  <1>2. /\ worker[w].pc = "idle" /\ worker[w].d = None /\ worker[w].held = None
        /\ UNCHANGED <<indexes, objects, sweeper, now, announced>>
    BY InvIs DEF Receive, ActorsOK, Shape
  <1>3. ObjectsOK' /\ StoreInv'
    <2>1. (Range(domains) \cup InHand') \ {None} = (Range(domains) \cup InHand) \ {None}
      BY <1>1, <1>2, HandsStay
    <2> QED
      BY <1>2, <2>1, Untouched, InvIs
  <1>4. \A v \in Workers \ {w} : worker'[v] = worker[v]
    BY <1>1 DEF Others
  <1>5. \A v \in Workers : Shape(v)'
    BY <1>1, <1>4, InvIs DEF ActorsOK, Shape
  <1>6. ActorsOK'
    BY <1>1, <1>2, <1>5, InvIs DEF ActorsOK, Others
  <1>7. ClockOK'
    <2>1. now \in Int /\ TTL \in Nat
      BY Values, InvIs DEF ActorsOK
    <2> QED
      BY <1>1, <1>2, <1>4, <2>1, InvIs DEF ClockOK
  <1>8. SweepOK'
    BY <1>2, InvIs DEF SweepOK, indexes
  <1> QED
    BY <1>3, <1>6, <1>7, <1>8, InvIs

\* The start of a call keeps the invariant, whatever call it is.
LEMMA CallStep ==
  ASSUME Inv, NEW w \in Workers, NEW call \in {"add", "lookup", "withdraw"}, NEW ref \in Refs,
         NEW size \in FieldCounts \cup {0}, call = "add" => size # 0,
         Call(w, call, ref, size), announced' \in [Domains -> [Refs -> FieldCounts \cup {0}]]
  PROVE  Inv'
  <1>1. /\ Turns(w, "find", call, worker[w].d, None)
        /\ worker'[w].ref = ref /\ worker'[w].size = size /\ worker'[w].at = now
    BY CallTurns DEF Inv, Calls
  <1>2. /\ worker[w].pc = "ready" /\ worker[w].d # None /\ worker[w].held = None
        /\ UNCHANGED <<indexes, objects, sweeper, now>>
    BY InvIs DEF Call, ActorsOK, Shape
  <1>3. ObjectsOK' /\ StoreInv'
    <2>1. (Range(domains) \cup InHand') \ {None} = (Range(domains) \cup InHand) \ {None}
      BY <1>1, <1>2, HandsStay DEF Turns
    <2> QED
      BY <1>2, <2>1, Untouched, InvIs
  <1>4. worker[w].since <= now
    BY <1>2, InvIs DEF ClockOK
  <1>5. DOMAIN domains \subseteq DOMAIN domains'
    BY <1>2 DEF indexes
  <1> QED
    BY <1>1, <1>2, <1>3, <1>4, <1>5, TurnKeeps DEF Calls

\* Find keeps the invariant.
LEMMA FindStep ==
  ASSUME Inv, NEW w \in Workers, Find(w)
  PROVE  Inv'
  <1> DEFINE k == worker[w].key
  <1>1. /\ worker[w].pc = "find" /\ worker[w].held = None
        /\ UNCHANGED <<indexes, objects, sweeper, now, announced>>
        /\ worker[w].d # None <=> worker[w].call # "datagram"
        /\ worker[w].call # "datagram" => worker[w].ref \in Refs
        /\ worker[w].call = "add" => worker[w].size # 0
        /\ worker[w].since <= worker[w].at
        /\ worker[w].call \in Calls /\ TypeOK
    BY InvIs DEF Find, ActorsOK, Shape, ClockOK, WorkerState, Inv
  <1>2. DOMAIN domains \subseteq DOMAIN domains' /\ announced' \in [Domains -> [Refs -> FieldCounts \cup {0}]]
    BY <1>1, InvIs DEF indexes, ActorsOK
  <1>3. k \in DOMAIN domains => domains[k] \in Range(domains) /\ domains[k] # None
    BY InvIs, WellformedNow DEF ObjectsOK, Range
  <1>4. CASE /\ k \in DOMAIN domains
             /\ \E pc \in {"stamp", "body"} :
                  /\ pc = "body" <=> worker[w].call = "withdraw"
                  /\ Turns(w, pc, worker[w].call, worker[w].d, domains[k])
             /\ SameCall(w) /\ worker'[w].at = worker[w].at
    <2>1. PICK pc \in {"stamp", "body"} :
            /\ pc = "body" <=> worker[w].call = "withdraw"
            /\ Turns(w, pc, worker[w].call, worker[w].d, domains[k])
      BY <1>4
    <2>2. ObjectsOK' /\ StoreInv'
      <3>1. (Range(domains) \cup InHand') \ {None} = (Range(domains) \cup InHand) \ {None}
        BY <1>1, <1>3, <1>4, <2>1, HandsStay DEF Turns
      <3> QED
        BY <1>1, <3>1, Untouched, InvIs
    <2> QED
      BY <1>1, <1>2, <1>3, <1>4, <2>1, <2>2, TurnKeeps DEF SameCall
  <1>5. CASE /\ worker[w].call = "withdraw"
             /\ Turns(w, "ready", "datagram", worker[w].d, None)
    <2>1. ObjectsOK' /\ StoreInv'
      <3>1. (Range(domains) \cup InHand') \ {None} = (Range(domains) \cup InHand) \ {None}
        BY <1>1, <1>5, HandsStay DEF Turns
      <3> QED
        BY <1>1, <3>1, Untouched, InvIs
    <2> QED
      BY <1>1, <1>2, <1>5, <2>1, TurnKeeps DEF Calls
  <1>6. CASE /\ Turns(w, "open", worker[w].call, worker[w].d, None)
             /\ SameCall(w) /\ worker'[w].at = worker[w].at
    <2>1. ObjectsOK' /\ StoreInv'
      <3>1. (Range(domains) \cup InHand') \ {None} = (Range(domains) \cup InHand) \ {None}
        BY <1>1, <1>6, HandsStay DEF Turns
      <3> QED
        BY <1>1, <3>1, Untouched, InvIs
    <2> QED
      BY <1>1, <1>2, <1>6, <2>1, TurnKeeps DEF SameCall
  <1> QED
    BY <1>1, <1>4, <1>5, <1>6, FindTurns

\* Stamping the domain found, and going on with it.
LEMMA FoundStep ==
  ASSUME Inv, NEW w \in Workers, worker[w].pc \in {"stamp", "open"}, NEW i \in DOMAIN heap,
         i \in {worker[w].held} \cup Range(domains), Resolved(w, i),
         UNCHANGED <<indexes, sweeper, now, announced>>,
         Keep([heap EXCEPT ![i].lastSeen = worker[w].at], budgets, tables)
  PROVE  /\ Inv'
         /\ \A j \in DOMAIN heap' : j \in DOMAIN heap /\ (j # i => heap'[j] = heap[j])
         /\ i \in DOMAIN heap' =>
              /\ heap'[i].lastSeen = worker[w].at /\ heap'[i].templates = heap[i].templates
              /\ heap'[i].fields = heap[i].fields
         /\ \A j \in DOMAIN budgets' : j \in DOMAIN budgets /\ budgets'[j] = budgets[j]
         /\ Range(domains) \subseteq DOMAIN heap' /\ Range(perExporter) \subseteq DOMAIN budgets'
  <1> DEFINE h == [heap EXCEPT ![i].lastSeen = worker[w].at]
  <1>1. /\ worker[w].d # None <=> worker[w].call # "datagram"
        /\ worker[w].call # "datagram" => worker[w].ref \in Refs
        /\ worker[w].call = "add" => worker[w].size # 0
        /\ worker[w].call \in Calls /\ worker[w].at \in Time /\ TypeOK
    BY InvIs DEF ActorsOK, Shape, WorkerState, Inv
  <1>2. i \in Ids /\ i # None
    BY InvIs, WellformedNow DEF ObjectsOK
  <1>3. /\ SameCall(w)
        /\ worker[w].call = "datagram" => Turns(w, "ready", "datagram", i, None)
        /\ worker[w].call # "datagram" => Turns(w, "body", worker[w].call, worker[w].d, i)
    BY <1>1, <1>2, ResolvedTurns
  <1>4. InHand' \subseteq InHand \cup Range(domains) \cup {None}
    BY <1>3, HandsTurn
  <1>5. /\ Stands(h, budgets, tables)
        /\ \A j \in DOMAIN heap \ {i} : h[j] = heap[j]
        /\ h[i].lastSeen = worker[w].at /\ h[i].templates = heap[i].templates
        /\ h[i].fields = heap[i].fields
    BY <1>1, StampStands, InvIs
  <1> HIDE DEF h
  <1>6. Keep(h, budgets, tables) /\ UNCHANGED indexes
    BY DEF h
  <1>7. /\ ObjectsOK' /\ StoreInv'
        /\ \A j \in DOMAIN heap' : j \in DOMAIN heap /\ heap'[j] = h[j]
        /\ \A j \in DOMAIN budgets' : j \in DOMAIN budgets /\ budgets'[j] = budgets[j]
        /\ Range(domains) \subseteq DOMAIN heap' /\ Range(perExporter) \subseteq DOMAIN budgets'
    BY <1>4, <1>5, <1>6, StandsKept, InvIs
  <1>8. DOMAIN domains \subseteq DOMAIN domains' /\ announced' \in [Domains -> [Refs -> FieldCounts \cup {0}]]
    BY InvIs DEF indexes, ActorsOK
  <1>9. Inv'
    <2>1. CASE worker[w].call = "datagram"
      BY <1>1, <1>2, <1>3, <1>7, <1>8, <2>1, TurnKeeps DEF Calls
    <2>2. CASE worker[w].call # "datagram"
      BY <1>1, <1>2, <1>3, <1>7, <1>8, <2>2, TurnKeeps DEF SameCall
    <2> QED
      BY <2>1, <2>2
  <1> QED
    BY <1>5, <1>7, <1>9

\* What a worker holds in a call is on the heap.
LEMMA HeldIsThere ==
  ASSUME Inv
  PROVE  /\ \A w \in Workers : worker[w].pc \in {"stamp", "body"} => worker[w].held \in DOMAIN heap
         /\ \A w \in Workers : worker[w].d # None => worker[w].d \in DOMAIN heap
         /\ \A k \in DOMAIN domains : domains[k] \in DOMAIN heap /\ domains[k] \in Range(domains)
         /\ \A x \in DOMAIN perExporter :
              perExporter[x] \in DOMAIN budgets /\ perExporter[x] \in Range(perExporter)
  <1>1. \A w \in Workers : {worker[w].d, worker[w].held} \subseteq InHand
    BY DEF InHand
  <1>2. InHand \subseteq DOMAIN heap \cup {None}
    BY InvIs, WellformedNow
  <1>3. \A w \in Workers : worker[w].pc \in {"stamp", "body"} => worker[w].held # None
    BY InvIs DEF ActorsOK, Shape
  <1> QED
    BY <1>1, <1>2, <1>3, InvIs DEF ObjectsOK, Range

\* Stamp keeps the invariant.
LEMMA StampStep ==
  ASSUME Inv, NEW w \in Workers, Stamp(w)
  PROVE  Inv'
  <1>1. worker[w].held \in DOMAIN heap
    BY HeldIsThere DEF Stamp
  <1> QED
    BY <1>1, FoundStep DEF Stamp

\* OpenPresent keeps the invariant.
LEMMA OpenPresentStep ==
  ASSUME Inv, NEW w \in Workers, OpenPresent(w)
  PROVE  Inv'
  <1>1. domains[worker[w].key] \in DOMAIN heap /\ domains[worker[w].key] \in Range(domains)
    BY HeldIsThere DEF OpenPresent
  <1> QED
    BY <1>1, FoundStep DEF OpenPresent

\* The collector alone takes no object of the store.
LEMMA CollectStep ==
  ASSUME Inv, UNCHANGED indexes, InHand' \subseteq InHand \cup Range(domains) \cup {None},
         Keep(heap, budgets, tables)
  PROVE  /\ ObjectsOK' /\ StoreInv'
         /\ \A j \in DOMAIN heap' : j \in DOMAIN heap /\ heap'[j] = heap[j]
         /\ \A j \in DOMAIN budgets' : j \in DOMAIN budgets /\ budgets'[j] = budgets[j]
         /\ Range(domains) \subseteq DOMAIN heap' /\ Range(perExporter) \subseteq DOMAIN budgets'
  BY NowStands, StandsKept, InvIs

\* A worker let go of keeps the invariant, its domain collected if unreachable.
LEMMA EndStep ==
  ASSUME Inv, NEW w \in Workers, Finishes(w), UNCHANGED <<indexes, sweeper, now, announced>>,
         Keep(heap, budgets, tables)
  PROVE  Inv'
  <1>1. InHand' \subseteq InHand \cup Range(domains) \cup {None}
    BY HandsMove DEF Finishes
  <1>2. ObjectsOK' /\ StoreInv'
    BY <1>1, CollectStep
  <1>3. DOMAIN domains \subseteq DOMAIN domains'
    BY DEF indexes
  <1> QED
    BY <1>2, <1>3, FinishKeeps

\* A call that ends with its worker's datagram going on.
LEMMA ReadyKeeps ==
  ASSUME Inv, NEW w \in Workers, worker[w].pc # "idle", worker[w].d # None,
         NEW call \in {"datagram", "lookup"}, Turns(w, "ready", call, worker[w].d, None),
         call = "lookup" => worker'[w].ref \in Refs,
         UNCHANGED <<indexes, sweeper, now, announced>>, ObjectsOK', StoreInv'
  PROVE  Inv'
  <1>1. DOMAIN domains \subseteq DOMAIN domains' /\ announced' \in [Domains -> [Refs -> FieldCounts \cup {0}]]
    BY InvIs DEF indexes, ActorsOK
  <1> QED
    BY <1>1, TurnKeeps DEF Calls

\* OpenRefused keeps the invariant.
LEMMA OpenRefusedStep ==
  ASSUME Inv, NEW w \in Workers, OpenRefused(w)
  PROVE  Inv'
  <1>1. CASE worker[w].call = "datagram"
    <2>1. Finishes(w)
      BY <1>1, AbandonTurns DEF OpenRefused, Inv
    <2> QED
      BY <2>1, EndStep DEF OpenRefused
  <1>2. CASE worker[w].call # "datagram"
    <2>1. Turns(w, "ready", "datagram", worker[w].d, None)
      BY <1>2, ReturnTurns DEF OpenRefused, Inv
    <2>2. worker[w].pc # "idle" /\ worker[w].d # None
      BY <1>2, InvIs DEF OpenRefused, ActorsOK, Shape
    <2>3. InHand' \subseteq InHand \cup Range(domains) \cup {None}
      BY <2>1, HandsTurn
    <2>4. ObjectsOK' /\ StoreInv'
      BY <2>3, CollectStep DEF OpenRefused
    <2> QED
      BY <2>1, <2>2, <2>4, ReadyKeeps DEF OpenRefused
  <1> QED
    BY <1>1, <1>2

\* EndDatagram keeps the invariant.
LEMMA EndDatagramStep ==
  ASSUME Inv, NEW w \in Workers, EndDatagram(w)
  PROVE  Inv'
  BY AbandonTurns, EndStep DEF EndDatagram, Inv

\* Lookup keeps the invariant.
LEMMA LookupStep ==
  ASSUME Inv, NEW w \in Workers, Lookup(w)
  PROVE  Inv'
  <1>1. /\ worker[w].pc = "body" /\ worker[w].call = "lookup" /\ worker[w].d # None
        /\ worker[w].ref \in Refs
    BY InvIs DEF Lookup, InBody, ActorsOK, Shape
  <1>2. LookupHits(w) => heap[worker[w].held].templates[worker[w].ref].size \in FieldCounts
    <2>1. worker[w].held \in DOMAIN heap
      BY <1>1, HeldIsThere
    <2>2. PICK D \in DomainState : D = heap[worker[w].held]
      BY <2>1, InvIs DEF ObjectsOK
    <2>3. D.templates \in [DOMAIN D.templates -> Template]
      BY DomainIs
    <2> QED
      BY <2>2, <2>3 DEF LookupHits, Template
  <1>3. /\ Turns(w, "ready", "lookup", worker[w].d, None)
        /\ worker'[w].ref = worker[w].ref
    BY <1>2, LookupTurns DEF Inv
  <1>4. ObjectsOK' /\ StoreInv'
    <2>1. InHand' \subseteq InHand \cup Range(domains) \cup {None}
      BY <1>3, HandsTurn
    <2> QED
      BY <2>1, CollectStep DEF Lookup
  <1> QED
    BY <1>1, <1>3, <1>4, ReadyKeeps DEF Lookup

\* A domain whose templates are replaced, its budget charged the difference.
LEMMA ChargeStep ==
  ASSUME Inv, UNCHANGED indexes, InHand' \subseteq InHand \cup Range(domains) \cup {None},
         NEW i \in DOMAIN heap, NEW D \in DomainState, Charged(D), SameDomain(D, heap[i]),
         Charge(i, D)
  PROVE  /\ ObjectsOK' /\ StoreInv'
         /\ \A j \in DOMAIN heap' : /\ j \in DOMAIN heap /\ (j # i => heap'[j] = heap[j])
                                    /\ j = i => heap'[j] = D
         /\ \A j \in DOMAIN budgets' :
              /\ j \in DOMAIN budgets
              /\ budgets'[j].fields = IF j = D.budget
                                      THEN budgets[j].fields + D.fields - heap[i].fields
                                      ELSE budgets[j].fields
         /\ Range(domains) \subseteq DOMAIN heap' /\ Range(perExporter) \subseteq DOMAIN budgets'
  <1> DEFINE h == [heap EXCEPT ![i] = D]
             b == [budgets EXCEPT ![D.budget].fields = @ + D.fields - heap[i].fields]
  <1>1. /\ Stands(h, b, tables)
        /\ h[i] = D /\ \A j \in DOMAIN heap \ {i} : h[j] = heap[j]
        /\ b[D.budget].fields = budgets[D.budget].fields + D.fields - heap[i].fields
        /\ \A j \in DOMAIN budgets \ {D.budget} : b[j] = budgets[j]
    BY ChargeStands, InvIs
  <1>2. Keep(h, b, tables)
    BY DEF Charge
  <1> HIDE DEF h, b
  <1>3. /\ ObjectsOK' /\ StoreInv'
        /\ \A j \in DOMAIN heap' : j \in DOMAIN heap /\ heap'[j] = h[j]
        /\ \A j \in DOMAIN budgets' : j \in DOMAIN budgets /\ budgets'[j] = b[j]
        /\ Range(domains) \subseteq DOMAIN heap' /\ Range(perExporter) \subseteq DOMAIN budgets'
    BY <1>1, <1>2, StandsKept, InvIs
  <1> QED
    BY <1>1, <1>3

\* The domain an add works on, and what it leaves: the template stored if it
\* fits, and otherwise no template under its reference.
LEMMA AddCharges ==
  ASSUME Inv, NEW w \in Workers, Add(w)
  PROVE  /\ worker[w].held \in DOMAIN heap /\ worker[w].ref \in Refs
         /\ worker[w].size \in FieldCounts /\ worker[w].at \in Time
         /\ \E D, E \in DomainState :
              LET i == worker[w].held
                  ref == worker[w].ref
                  before == budgets[heap[i].budget].fields
              IN  /\ Charged(D) /\ SameDomain(D, heap[i])
                  /\ DOMAIN D.templates \subseteq DOMAIN heap[i].templates
                  /\ \A r \in DOMAIN D.templates : D.templates[r] = heap[i].templates[r]
                  /\ D.fields <= heap[i].fields
                  /\ Charged(E) /\ SameDomain(E, heap[i]) /\ Charge(i, E)
                  /\ \/ /\ E = Stored(D, ref, worker[w].size, worker[w].at)
                        /\ Fits(D, before + D.fields - heap[i].fields, ref, worker[w].size)
                     \/ E = Dropped(D, ref)
  <1> DEFINE i == worker[w].held
             ref == worker[w].ref
             size == worker[w].size
             at == worker[w].at
             before == budgets[heap[i].budget].fields
  <1>1. /\ i \in DOMAIN heap /\ ref \in Refs /\ size \in FieldCounts /\ at \in Time
    <2>1. worker[w] \in WorkerState /\ Shape(w) /\ worker[w].pc = "body" /\ worker[w].call = "add"
      BY InvIs DEF Add, InBody, ActorsOK
    <2>2. i \in DOMAIN heap
      BY <2>1, HeldIsThere
    <2> QED
      BY <2>1, <2>2 DEF WorkerState, Shape
  <1>2. heap[i] \in DomainState /\ Charged(heap[i])
    BY <1>1, NowStands, InvIs DEF Stands
  <1>3. heap[i].fields \in Int
    BY <1>2, DomainIs
  <1> DEFINE D == RoomFor(heap[i], before, w)
             fits == Fits(D, before + D.fields - heap[i].fields, ref, size)
             stored == Stored(D, ref, size, at)
             E == IF fits THEN stored ELSE Rejected(D, ref)
  <1>4. Charge(i, E)
    BY DEF Add, Stored
  <1>5. /\ D \in DomainState /\ Charged(D) /\ SameDomain(D, heap[i])
        /\ DOMAIN D.templates \subseteq DOMAIN heap[i].templates
        /\ \A r \in DOMAIN D.templates : D.templates[r] = heap[i].templates[r]
        /\ D.fields <= heap[i].fields
    <2>1. CASE D = heap[i]
      BY <1>2, <1>3, <2>1 DEF SameDomain
    <2>2. CASE D = Pruned(heap[i], at)
      <3>1. PICK H \in DomainState : H = heap[i] /\ Charged(H)
        BY <1>2
      <3>2. D = Pruned(H, at)
        BY <2>2, <3>1
      <3> HIDE DEF D
      <3> QED
        BY <1>1, <3>1, <3>2, PrunedIs
    <2>3. D = heap[i] \/ D = Pruned(heap[i], at)
      BY DEF RoomFor
    <2> QED
      BY <2>1, <2>2, <2>3
  <1> HIDE DEF D
  <1>6. /\ stored \in DomainState /\ SameDomain(stored, D) /\ Charged(stored)
    BY <1>1, <1>5, StoredIs
  <1>7. /\ Dropped(D, ref) \in DomainState /\ SameDomain(Dropped(D, ref), D)
        /\ Charged(Dropped(D, ref))
    BY <1>5, DroppedIs
  <1>8. \A F : SameDomain(F, D) => SameDomain(F, heap[i])
    BY <1>5 DEF SameDomain
  <1>9. (fits /\ E = stored) \/ E = Dropped(D, ref)
    BY DEF Rejected
  <1> HIDE DEF E, fits, stored
  <1>10. E \in DomainState /\ Charged(E) /\ SameDomain(E, heap[i])
    BY <1>6, <1>7, <1>8, <1>9
  <1>11. \/ /\ E = Stored(D, ref, size, at)
            /\ Fits(D, before + D.fields - heap[i].fields, ref, size)
         \/ E = Dropped(D, ref)
    BY <1>9 DEF fits, stored
  <1> QED
    BY <1>1, <1>4, <1>5, <1>10, <1>11

\* Add keeps the invariant.
LEMMA AddStep ==
  ASSUME Inv, NEW w \in Workers, Add(w)
  PROVE  Inv'
  <1>1. /\ worker[w].pc = "body" /\ worker[w].d # None /\ worker[w].call # "datagram"
    BY InvIs DEF Add, InBody, ActorsOK, Shape
  <1>2. Turns(w, "ready", "datagram", worker[w].d, None)
    BY ReturnTurns DEF Add, Inv
  <1>3. InHand' \subseteq InHand \cup Range(domains) \cup {None}
    BY <1>2, HandsTurn
  <1>4. PICK E \in DomainState : /\ Charged(E) /\ SameDomain(E, heap[worker[w].held])
                                 /\ Charge(worker[w].held, E)
    BY AddCharges
  <1>5. ObjectsOK' /\ StoreInv'
    BY <1>3, <1>4, AddCharges, ChargeStep DEF Add
  <1> QED
    BY <1>1, <1>2, <1>5, ReadyKeeps DEF Add

\* A withdrawal drops its template and returns what it was charged.
LEMMA WithdrawCharges ==
  ASSUME Inv, NEW w \in Workers, Withdraw(w)
  PROVE  /\ worker[w].held \in DOMAIN heap /\ worker[w].ref \in Refs
         /\ LET D == heap[worker[w].held]
                E == Dropped(D, worker[w].ref)
            IN  /\ D \in DomainState /\ Charged(D)
                /\ E \in DomainState /\ Charged(E) /\ SameDomain(E, D)
                /\ Charge(worker[w].held, E)
  <1>1. /\ worker[w].held \in DOMAIN heap /\ worker[w].ref \in Refs
    BY HeldIsThere, InvIs DEF Withdraw, InBody, ActorsOK, Shape
  <1>2. PICK D \in DomainState : D = heap[worker[w].held] /\ Charged(D)
    BY <1>1, NowStands, InvIs DEF Stands
  <1>3. LET E == Dropped(D, worker[w].ref)
        IN  E \in DomainState /\ Charged(E) /\ SameDomain(E, D)
    BY <1>2, DroppedIs
  <1> QED
    BY <1>1, <1>2, <1>3 DEF Withdraw

\* Withdraw keeps the invariant.
LEMMA WithdrawStep ==
  ASSUME Inv, NEW w \in Workers, Withdraw(w)
  PROVE  Inv'
  <1>1. /\ worker[w].pc = "body" /\ worker[w].d # None
    BY InvIs DEF Withdraw, InBody, ActorsOK, Shape
  <1>2. Turns(w, "ready", "datagram", worker[w].d, None)
    BY ReturnTurns DEF Withdraw, Inv
  <1>3. InHand' \subseteq InHand \cup Range(domains) \cup {None}
    BY <1>2, HandsTurn
  <1>4. ObjectsOK' /\ StoreInv'
    BY <1>3, WithdrawCharges, ChargeStep DEF Withdraw
  <1> QED
    BY <1>1, <1>2, <1>4, ReadyKeeps DEF Withdraw

\* A step of the clock, of the sweep, or of a sampler declared leaves the
\* workers alone.
LEMMA IdleKeeps ==
  ASSUME Inv, UNCHANGED <<worker, announced>>, sweeper' \in SweeperState, now' \in Time,
         now' = now \/ (now' = now + 1 /\ \A w \in Workers :
                          worker[w].pc # "idle" => now < worker[w].since + TTL),
         SweepOK', ObjectsOK', StoreInv'
  PROVE  Inv'
  <1>1. \A w \in Workers : Shape(w)'
    BY InvIs DEF ActorsOK, Shape
  <1>2. ActorsOK'
    BY <1>1, InvIs DEF ActorsOK
  <1>3. ClockOK'
    <2>1. \A w \in Workers : worker[w].since \in Int
      BY Values, InvIs DEF ActorsOK, WorkerState
    <2>2. now \in Int /\ TTL \in Nat
      BY Values, InvIs DEF ActorsOK
    <2> QED
      BY <2>1, <2>2, InvIs DEF ClockOK
  <1> QED
    BY <1>2, <1>3, InvIs

\* With the workers, the objects they hold stay.
LEMMA HandsIdle ==
  ASSUME UNCHANGED worker
  PROVE  InHand' = InHand
  BY DEF InHand

\* The clock keeps the invariant.
LEMMA TickStep ==
  ASSUME Inv, Tick
  PROVE  Inv'
  <1>1. ObjectsOK' /\ StoreInv'
    BY HandsIdle, Untouched, InvIs DEF Tick
  <1>2. now \in Time /\ now' \in Time /\ now' = now + 1 /\ now \in Int /\ TTL \in Nat
    BY InvIs, Values, StoreAssumption DEF Tick, ActorsOK, Time
  <1>3. sweeper.cutoff \in Int
    BY InvIs DEF ActorsOK, SweeperState
  <1>4. SweepOK'
    BY <1>2, <1>3, InvIs DEF Tick, SweepOK, indexes
  <1> QED
    BY <1>1, <1>2, <1>4, IdleKeeps, InvIs DEF Tick, ActorsOK

\* The sweep's own steps, which touch no object, keep the invariant.
LEMMA SweepStep ==
  ASSUME Inv, SweepTick \/ SweepLock \/ SweepEnd \/ \E k \in Domains : Spare(k)
  PROVE  Inv'
  <1>1. UNCHANGED <<indexes, objects, worker, now, announced>>
    BY DEF SweepTick, SweepLock, SweepEnd, Spare
  <1>2. ObjectsOK' /\ StoreInv'
    BY <1>1, HandsIdle, Untouched, InvIs
  <1>3. /\ sweeper \in SweeperState /\ now \in Time /\ now \in Int /\ TTL \in Nat /\ 0 \in Time
        /\ DOMAIN domains \subseteq Domains
    BY InvIs, Values DEF ActorsOK, ObjectsOK
  <1>4. sweeper' \in SweeperState /\ SweepOK'
    <2>1. CASE SweepTick
      <3>1. now - TTL \in Int /\ now - TTL <= now - TTL
        BY <1>3
      <3> QED
        BY <1>1, <1>3, <2>1, <3>1, InvIs DEF SweepTick, SweeperState, SweepOK, indexes
    <2>2. CASE SweepLock
      BY <1>1, <1>3, <2>2, InvIs DEF SweepLock, SweeperState, SweepOK, indexes
    <2>3. CASE SweepEnd
      BY <1>1, <1>3, <2>3, InvIs DEF SweepEnd, SweeperState, SweepOK, indexes
    <2>4. CASE \E k \in Domains : Spare(k)
      BY <1>1, <1>3, <2>4, InvIs DEF Spare, SweeperState, SweepOK, indexes
    <2> QED
      BY <2>1, <2>2, <2>3, <2>4
  <1> QED
    BY <1>1, <1>2, <1>3, <1>4, IdleKeeps

\* Prune works on a live domain, and keeps the invariant.
LEMMA PruneStep ==
  ASSUME Inv, NEW k \in Domains, Prune(k)
  PROVE  /\ k \in DOMAIN domains /\ domains[k] \in DOMAIN heap
         /\ Inv'
  <1>1. /\ sweeper.pc = "prune" /\ k \in sweeper.todo /\ sweeper' = [sweeper EXCEPT !.todo = @ \ {k}]
        /\ UNCHANGED <<indexes, worker, now, announced>>
        /\ Charge(domains[k], Pruned(heap[domains[k]], sweeper.at))
    BY DEF Prune
  <1>2. k \in DOMAIN domains /\ domains[k] \in DOMAIN heap
    BY <1>1, HeldIsThere, InvIs DEF SweepOK
  <1>3. PICK D \in DomainState : D = heap[domains[k]] /\ Charged(D)
    BY <1>2, NowStands, InvIs DEF Stands
  <1>4. sweeper.at \in Time /\ sweeper \in SweeperState /\ now \in Time
    BY InvIs DEF ActorsOK, SweeperState
  <1>5. PICK at \in Time : at = sweeper.at
    BY <1>4
  <1>6. LET E == Pruned(D, at)
        IN  E \in DomainState /\ SameDomain(E, D) /\ Charged(E)
    BY <1>3, PrunedIs
  <1>7. ObjectsOK' /\ StoreInv'
    BY <1>1, <1>2, <1>3, <1>5, <1>6, HandsIdle, ChargeStep
  <1>8. sweeper' \in SweeperState
    BY <1>1, <1>4 DEF SweeperState
  <1>9. SweepOK'
    BY <1>1, <1>4, InvIs DEF SweepOK, indexes, SweeperState
  <1> QED
    BY <1>1, <1>2, <1>4, <1>7, <1>8, <1>9, IdleKeeps

\* A sampler declared.
LEMMA DeclareStep ==
  ASSUME Inv, NEW w \in Workers, NEW s \in Samplers, DeclareSampler(w, s)
  PROVE  Inv'
  <1> DEFINE D == heap[worker[w].d]
             t == tables[D.declared]
             u == Put(t, s, D.lastSeen)
  <1>1. /\ UNCHANGED <<indexes, heap, budgets, worker, sweeper, now, announced>>
        /\ tables' = [tables EXCEPT ![D.declared] = u] /\ worker[w].pc = "ready"
    BY DEF DeclareSampler
  <1>2. D \in DomainState /\ D.declared \in DOMAIN tables
    <2>1. worker[w].d \in DOMAIN heap
      BY <1>1, HeldIsThere, InvIs DEF ActorsOK, Shape
    <2> QED
      BY <2>1, NowStands, InvIs DEF ObjectsOK
  <1>3. t \in Table /\ D.lastSeen \in Time
    BY <1>2, DomainIs, InvIs DEF ObjectsOK
  <1>4. DOMAIN t \subseteq Samplers /\ t \in [DOMAIN t -> Time]
    BY <1>3, PartialFunctions DEF Table
  <1> DEFINE seen == D.lastSeen
  <1>5. seen \in Time
    BY <1>3
  <1> HIDE DEF t, seen
  <1>6. Put(t, s, seen) \in [DOMAIN t \cup {s} -> Time]
    BY <1>4, <1>5 DEF Put
  <1>7. u \in Table
    BY <1>4, <1>6 DEF Table, seen
  <1> HIDE DEF D, u
  <1>8. /\ DOMAIN tables' = DOMAIN tables
        /\ \A i \in DOMAIN tables' : tables'[i] \in Table
    BY <1>1, <1>2, <1>7, InvIs DEF ObjectsOK
  <1>9. HeapOK'
    BY <1>1, <1>8, HandsIdle, InvIs DEF HeapOK, ObjectsOK, Charged, indexes
  <1>10. ObjectsOK'
    BY <1>1, <1>8, <1>9, InvIs DEF ObjectsOK, indexes
  <1>11. Standing
    BY <1>1, InvIs DEF Standing, StoreInv, TableShared, indexes
  <1>12. StoreInv'
    BY <1>10, <1>11, StandingKeeps, InvIs
  <1>13. SweepOK'
    BY <1>1, InvIs DEF SweepOK, indexes
  <1> QED
    BY <1>1, <1>10, <1>12, <1>13, IdleKeeps, InvIs DEF ActorsOK

\* The sampler tables no live domain shares are freed.
LEMMA SweepTablesStep ==
  ASSUME Inv, SweepTables
  PROVE  Inv'
  <1> DEFINE expire(t) == Restrict(t, {s \in DOMAIN t : t[s] >= sweeper.cutoff})
             u == [i \in DOMAIN tables |->
                     IF i \in Range(samplerTables) THEN expire(tables[i]) ELSE tables[i]]
             kept == DOMAIN samplerTables \cap Referenced
  <1>1. /\ samplerTables' = Restrict(samplerTables, kept)
        /\ UNCHANGED <<domains, perExporter, worker, now, announced>>
        /\ Keep(heap, budgets, u)
    BY DEF SweepTables
  <1>2. DOMAIN u = DOMAIN tables /\ \A i \in DOMAIN tables : u[i] \in Table
    <2> SUFFICES ASSUME NEW i \in DOMAIN tables
                 PROVE  expire(tables[i]) \in Table /\ tables[i] \in Table
      OBVIOUS
    <2>1. PICK t \in Table : t = tables[i]
      BY InvIs DEF ObjectsOK
    <2>2. DOMAIN t \subseteq Samplers /\ t \in [DOMAIN t -> Time]
      BY PartialFunctions DEF Table
    <2> DEFINE S == {s \in DOMAIN t : t[s] >= sweeper.cutoff}
    <2>3. S \subseteq DOMAIN t
      OBVIOUS
    <2> HIDE DEF S
    <2>4. Restrict(t, S) \in [S -> Time]
      BY <2>2, <2>3 DEF Restrict
    <2>5. Restrict(t, S) \in Table
      BY <2>2, <2>3, <2>4 DEF Table
    <2> QED
      BY <2>1, <2>5 DEF S
  <1> HIDE DEF u
  <1>3. /\ DOMAIN samplerTables' = kept /\ \A s \in kept : samplerTables'[s] = samplerTables[s]
        /\ samplerTables' = [s \in kept |-> samplerTables[s]]
    BY <1>1 DEF Restrict
  <1>4. kept \subseteq DOMAIN samplerTables /\ \A k \in DOMAIN domains : TableOf[k] \in kept
    BY InvIs DEF Referenced, StoreInv, TableShared
  <1> HIDE DEF kept
  <1>5. Wellformed(heap, budgets, u)
    BY <1>2, WellformedNow, InvIs DEF Wellformed
  <1>6. Reached(heap, budgets, u)
    <2>1. InHand' \subseteq DOMAIN heap \cup {None}
      BY <1>1, HandsIdle, WellformedNow, InvIs
    <2>2. /\ DOMAIN samplerTables' \subseteq TableKeys
          /\ samplerTables' \in [DOMAIN samplerTables' -> DOMAIN u]
      BY <1>2, <1>3, <1>4, InvIs DEF ObjectsOK
    <2> QED
      BY <1>1, <2>1, <2>2, InvIs DEF Reached, ObjectsOK
  <1>7. /\ ObjectsOK'
        /\ \A i \in DOMAIN heap' : heap'[i] = heap[i]
        /\ \A i \in DOMAIN budgets' : budgets'[i] = budgets[i]
        /\ Range(domains) \subseteq DOMAIN heap' /\ Range(perExporter) \subseteq DOMAIN budgets'
    BY <1>1, <1>5, <1>6, KeptIs
  <1>8. Standing
    BY <1>1, <1>3, <1>4, <1>7, HeldIsThere DEF Standing
  <1>9. StoreInv'
    BY <1>7, <1>8, StandingKeeps, InvIs
  <1>10. /\ sweeper \in SweeperState /\ now \in Time /\ now \in Int /\ TTL \in Nat /\ now >= 0
         /\ DOMAIN domains \subseteq Domains
    BY InvIs, Values DEF ActorsOK, ObjectsOK
  <1>11. sweeper' = [sweeper EXCEPT !.pc = "prune", !.todo = DOMAIN domains,
                                    !.cutoff = -TTL, !.at = now]
    BY DEF SweepTables
  <1>12. /\ sweeper' \in SweeperState /\ sweeper'.todo = DOMAIN domains
         /\ sweeper'.cutoff = -TTL
    <2> DEFINE s == [sweeper EXCEPT !.pc = "prune"]
               r == [s EXCEPT !.todo = DOMAIN domains]
               q == [r EXCEPT !.cutoff = -TTL]
    <2>1. s \in SweeperState
      BY <1>10 DEF SweeperState
    <2>2. sweeper' = [q EXCEPT !.at = now]
      BY <1>11
    <2> HIDE DEF s
    <2>3. r \in SweeperState /\ r.todo = DOMAIN domains
      BY <1>10, <2>1 DEF SweeperState
    <2> HIDE DEF r
    <2>4. q \in SweeperState /\ q.todo = DOMAIN domains /\ q.cutoff = -TTL
      BY <1>10, <2>3 DEF SweeperState
    <2> HIDE DEF q
    <2> QED
      BY <1>10, <2>2, <2>4 DEF SweeperState
  <1>13. SweepOK'
    BY <1>1, <1>10, <1>12 DEF SweepOK
  <1> QED
    BY <1>1, <1>7, <1>9, <1>10, <1>12, <1>13, IdleKeeps

-----------------------------------------------------------------------------
(* Domains leave and open.                                                 *)

\* There are finitely many live domains, and a device has a budget exactly
\* while it has one.
LEMMA LiveIs ==
  ASSUME ObjectsOK, BudgetsFollowDomains
  PROVE  \A x : /\ IsFiniteSet(LiveOf(x)) /\ Cardinality(LiveOf(x)) \in Nat
                /\ LiveOf(x) = {} <=> Cardinality(LiveOf(x)) = 0
                /\ x \in DOMAIN perExporter <=> LiveOf(x) # {}
  <1> SUFFICES ASSUME NEW x
               PROVE  /\ IsFiniteSet(LiveOf(x)) /\ Cardinality(LiveOf(x)) \in Nat
                      /\ LiveOf(x) = {} <=> Cardinality(LiveOf(x)) = 0
                      /\ x \in DOMAIN perExporter <=> LiveOf(x) # {}
    OBVIOUS
  <1>1. LiveOf(x) \subseteq Domains
    BY DEF LiveOf, ObjectsOK
  <1>2. IsFiniteSet(LiveOf(x)) /\ Cardinality(LiveOf(x)) \in Nat
    BY <1>1, StoreAssumption, FS_Subset, FS_CardinalityType
  <1>3. LiveOf(x) = {} <=> Cardinality(LiveOf(x)) = 0
    BY <1>2, FS_EmptySet
  <1>4. x \in DOMAIN perExporter <=> LiveOf(x) # {}
    BY DEF BudgetsFollowDomains, LiveOf
  <1> QED
    BY <1>2, <1>3, <1>4

\* An idle domain leaves, and with it its share of its device's budget.
Leaves(k) ==
  LET x == ExporterOf[k]
      i == domains[k]
  IN  /\ UNCHANGED <<samplerTables, worker, now, announced>>
      /\ domains' = Without(domains, k)
      /\ perExporter' \in {perExporter, Without(perExporter, x)}
      /\ x \in DOMAIN perExporter' <=> LiveOf(x)' # {}
      /\ LiveOf(x)' = LiveOf(x) \ {k} /\ \A y : y # x => LiveOf(y)' = LiveOf(y)
      /\ \A j \in DOMAIN heap' : j \in DOMAIN heap /\ heap'[j] = heap[j]
      /\ \A j \in DOMAIN budgets' :
           /\ j \in DOMAIN budgets
           /\ j # perExporter[x] => budgets'[j] = budgets[j]
           /\ j = perExporter[x] =>
                /\ budgets'[j].domains = budgets[j].domains - 1
                /\ budgets'[j].fields = budgets[j].fields - heap[i].fields
      /\ Range(domains') \subseteq DOMAIN heap' /\ Range(perExporter') \subseteq DOMAIN budgets'

\* Evict takes a live domain out, and its share of the budget.
LEMMA EvictLeaves ==
  ASSUME Inv, NEW k \in Domains, Evict(k)
  PROVE  k \in DOMAIN domains /\ ObjectsOK' /\ Leaves(k)
  <1> DEFINE x == ExporterOf[k]
             D == heap[domains[k]]
             budget == [domains |-> budgets[D.budget].domains - 1,
                        fields |-> budgets[D.budget].fields - D.fields]
             b == [budgets EXCEPT ![D.budget] = budget]
  <1>1. /\ sweeper.pc = "evict" /\ k \in sweeper.todo
        /\ domains' = Without(domains, k)
        /\ perExporter' = IF budget.domains <= 0 THEN Without(perExporter, x) ELSE perExporter
        /\ UNCHANGED <<samplerTables, worker, now, announced>>
        /\ Keep(heap, b, tables)
    BY DEF Evict
  <1>2. k \in DOMAIN domains /\ domains[k] \in DOMAIN heap
    BY <1>1, HeldIsThere, InvIs DEF SweepOK
  <1>3. x \in DOMAIN perExporter /\ D.budget = perExporter[x]
    BY <1>2, InvIs DEF StoreInv, BudgetsFollowDomains
  <1>4. /\ D \in DomainState /\ D.fields \in Int /\ D.budget \in DOMAIN budgets
        /\ budgets[D.budget] \in ExporterBudget
    BY <1>2, NowStands, DomainIs, InvIs DEF ObjectsOK
  <1>5. budgets[D.budget].domains = Cardinality(LiveOf(x))
    BY <1>3, InvIs DEF StoreInv, BudgetsFollowDomains
  <1>6. /\ budget \in ExporterBudget /\ budget.domains = budgets[D.budget].domains - 1
        /\ budget.fields = budgets[D.budget].fields - D.fields
    BY <1>4 DEF ExporterBudget
  <1> HIDE DEF budget
  <1>7. /\ DOMAIN b = DOMAIN budgets /\ b[D.budget] = budget
        /\ \A j \in DOMAIN budgets \ {D.budget} : b[j] = budgets[j]
    BY <1>4
  <1> HIDE DEF b, D
  <1>8. Wellformed(heap, b, tables)
    BY <1>6, <1>7, WellformedNow, InvIs DEF Wellformed
  <1>9. DOMAIN domains' = DOMAIN domains \ {k} /\ \A j \in DOMAIN domains' : domains'[j] = domains[j]
    BY <1>1, RestrictIs DEF Without
  <1>10. LiveOf(x)' = LiveOf(x) \ {k} /\ \A y : y # x => LiveOf(y)' = LiveOf(y)
    BY <1>9 DEF LiveOf
  <1>11. /\ perExporter' = perExporter \/ perExporter' = Without(perExporter, x)
         /\ x \in DOMAIN perExporter' <=> LiveOf(x)' # {}
    <2>1. k \in LiveOf(x)
      BY <1>2 DEF LiveOf
    <2>2. /\ IsFiniteSet(LiveOf(x)) /\ Cardinality(LiveOf(x)) \in Nat
          /\ IsFiniteSet(LiveOf(x) \ {k})
          /\ Cardinality(LiveOf(x) \ {k}) = Cardinality(LiveOf(x)) - 1
          /\ Cardinality(LiveOf(x) \ {k}) \in Nat
      BY <2>1, LiveIs, InvIs, FS_RemoveElement, FS_CardinalityType DEF StoreInv
    <2>3. LiveOf(x) \ {k} = {} <=> Cardinality(LiveOf(x) \ {k}) = 0
      BY <2>2, FS_EmptySet
    <2>4. budget.domains <= 0 <=> LiveOf(x) \ {k} = {}
      BY <1>5, <1>6, <2>2, <2>3
    <2>5. DOMAIN Without(perExporter, x) = DOMAIN perExporter \ {x}
      BY RestrictIs DEF Without
    <2> QED
      BY <1>1, <1>3, <1>10, <2>4, <2>5
  <1>12. /\ DOMAIN perExporter' \subseteq DOMAIN perExporter
         /\ perExporter' \in [DOMAIN perExporter' -> DOMAIN budgets]
    <2>1. perExporter \in [DOMAIN perExporter -> DOMAIN budgets]
      BY InvIs DEF ObjectsOK
    <2> QED
      BY <1>11, <2>1 DEF Without, Restrict
  <1>13. domains' \in [DOMAIN domains' -> DOMAIN heap]
    <2>1. domains \in [DOMAIN domains -> DOMAIN heap]
      BY InvIs DEF ObjectsOK
    <2> QED
      BY <1>1, <2>1 DEF Without, Restrict
  <1>14. Reached(heap, b, tables)
    <2>1. InHand' \subseteq DOMAIN heap \cup {None}
      BY <1>1, HandsIdle, WellformedNow, InvIs
    <2> QED
      BY <1>1, <1>7, <1>9, <1>12, <1>13, <2>1, InvIs DEF Reached, ObjectsOK
  <1>15. /\ ObjectsOK'
         /\ \A i \in DOMAIN heap' : i \in DOMAIN heap /\ heap'[i] = heap[i]
         /\ \A i \in DOMAIN budgets' : i \in DOMAIN b /\ budgets'[i] = b[i]
         /\ Range(domains') \subseteq DOMAIN heap' /\ Range(perExporter') \subseteq DOMAIN budgets'
    BY <1>1, <1>8, <1>14, KeptIs
  <1>16. \A j \in DOMAIN budgets' :
           /\ j \in DOMAIN budgets
           /\ j # perExporter[x] => budgets'[j] = budgets[j]
           /\ j = perExporter[x] =>
                /\ budgets'[j].domains = budgets[j].domains - 1
                /\ budgets'[j].fields = budgets[j].fields - D.fields
    BY <1>3, <1>6, <1>7, <1>15
  <1> QED
    BY <1>1, <1>2, <1>10, <1>11, <1>15, <1>16 DEF Leaves, D

\* Evict keeps the invariant.
LEMMA EvictStep ==
  ASSUME Inv, NEW k \in Domains, Evict(k)
  PROVE  Inv'
  <1> DEFINE x == ExporterOf[k]
  <1>1. k \in DOMAIN domains /\ ObjectsOK' /\ Leaves(k)
    BY EvictLeaves
  <1>2. /\ DOMAIN domains' = DOMAIN domains \ {k}
        /\ \A j \in DOMAIN domains' : domains'[j] = domains[j] /\ domains[j] \in DOMAIN heap'
    <2>1. domains' = Without(domains, k) /\ Range(domains') \subseteq DOMAIN heap'
      BY <1>1 DEF Leaves
    <2> QED
      BY <2>1, RestrictIs DEF Without, Range
  <1>3. /\ DOMAIN perExporter' \subseteq DOMAIN perExporter
        /\ DOMAIN perExporter \ {x} \subseteq DOMAIN perExporter'
        /\ \A y \in DOMAIN perExporter' :
             perExporter'[y] = perExporter[y] /\ perExporter[y] \in DOMAIN budgets'
    <2>1. /\ perExporter' = perExporter \/ perExporter' = Without(perExporter, x)
          /\ Range(perExporter') \subseteq DOMAIN budgets'
      BY <1>1 DEF Leaves
    <2> QED
      BY <2>1, RestrictIs DEF Without, Range
  <1>4. \A i \in DOMAIN heap' : i \in DOMAIN heap /\ heap'[i] = heap[i]
    BY <1>1 DEF Leaves
  <1>5. StoreInv /\ ObjectsOK
    BY InvIs
  <1>6. IndexOK'
    BY <1>2, <1>3, <1>4, <1>5 DEF StoreInv, IndexOK
  <1>7. TableShared'
    BY <1>1, <1>2, <1>4, <1>5 DEF StoreInv, TableShared, Leaves
  <1>8. /\ x \in DOMAIN perExporter' <=> LiveOf(x)' # {}
        /\ LiveOf(x)' = LiveOf(x) \ {k} /\ k \in LiveOf(x)
        /\ \A y : y # x => LiveOf(y)' = LiveOf(y)
    BY <1>1 DEF Leaves, LiveOf
  <1>9. DOMAIN perExporter' = {ExporterOf[j] : j \in DOMAIN domains'}
    <2>1. \A y : y \in DOMAIN perExporter <=> LiveOf(y) # {}
      BY <1>5, LiveIs DEF StoreInv
    <2>2. \A y : y \in DOMAIN perExporter' <=> LiveOf(y)' # {}
      BY <1>3, <1>8, <2>1
    <2> QED
      BY <2>2 DEF LiveOf
  <1>10. Cardinality(DOMAIN perExporter') <= MaxExporters
    <2>1. /\ IsFiniteSet(DOMAIN perExporter)
          /\ Cardinality(DOMAIN perExporter) <= MaxExporters
      <3>1. DOMAIN perExporter = {ExporterOf[j] : j \in DOMAIN domains}
        BY <1>5 DEF StoreInv, BudgetsFollowDomains
      <3>2. IsFiniteSet(DOMAIN domains)
        BY <1>5, StoreAssumption, FS_Subset DEF ObjectsOK
      <3> DEFINE f == [j \in DOMAIN domains |-> ExporterOf[j]]
      <3>3. f \in Surjection(DOMAIN domains, DOMAIN perExporter)
        BY <3>1 DEF Surjection
      <3> QED
        BY <1>5, <3>2, <3>3, FS_Surjection DEF StoreInv, BudgetsFollowDomains
    <2>2. /\ Cardinality(DOMAIN perExporter') <= Cardinality(DOMAIN perExporter)
          /\ Cardinality(DOMAIN perExporter') \in Nat /\ Cardinality(DOMAIN perExporter) \in Nat
          /\ MaxExporters \in Nat
      BY <1>3, <2>1, FS_Subset, FS_CardinalityType, StoreAssumption
    <2> QED
      BY <2>1, <2>2
  <1>11. \A j \in DOMAIN domains' : heap'[domains'[j]].budget = perExporter'[ExporterOf[j]]
    <2> SUFFICES ASSUME NEW j \in DOMAIN domains'
                 PROVE  heap'[domains'[j]].budget = perExporter'[ExporterOf[j]]
      OBVIOUS
    <2>1. ExporterOf[j] \in DOMAIN perExporter'
      BY <1>9
    <2> QED
      BY <1>2, <1>3, <1>4, <1>5, <2>1 DEF StoreInv, BudgetsFollowDomains
  <1>12. ASSUME NEW y \in DOMAIN perExporter'
         PROVE  /\ budgets'[perExporter'[y]].domains = Cardinality(LiveOf(y)')
                /\ Cardinality(LiveOf(y)') <= MaxDomains
    <2>1. /\ y \in DOMAIN perExporter /\ perExporter'[y] = perExporter[y]
          /\ perExporter[y] \in DOMAIN budgets'
      BY <1>3
    <2>2. /\ budgets[perExporter[y]].domains = Cardinality(LiveOf(y))
          /\ Cardinality(LiveOf(y)) <= MaxDomains
      BY <1>5, <2>1 DEF StoreInv, BudgetsFollowDomains
    <2>3. CASE y # x
      <3>1. perExporter[y] # perExporter[x]
        <4>1. x \in DOMAIN perExporter
          BY <1>1, <1>5 DEF StoreInv, BudgetsFollowDomains
        <4> QED
          BY <1>5, <2>1, <2>3, <4>1 DEF StoreInv, IndexOK
      <3>2. budgets'[perExporter[y]] = budgets[perExporter[y]]
        BY <1>1, <2>1, <3>1 DEF Leaves
      <3>3. LiveOf(y)' = LiveOf(y)
        BY <1>8, <2>3
      <3>4. budgets'[perExporter'[y]] = budgets[perExporter[y]]
        BY <2>1, <3>2
      <3> QED
        BY <2>2, <3>3, <3>4
    <2>4. CASE y = x
      <3>1. budgets'[perExporter[x]].domains = budgets[perExporter[x]].domains - 1
        BY <1>1, <2>1, <2>4 DEF Leaves
      <3>2. /\ IsFiniteSet(LiveOf(x)) /\ Cardinality(LiveOf(x)) \in Nat
            /\ Cardinality(LiveOf(x) \ {k}) = Cardinality(LiveOf(x)) - 1
        BY <1>5, <1>8, LiveIs, FS_RemoveElement DEF StoreInv
      <3>3. budgets'[perExporter'[y]] = budgets'[perExporter[x]]
        BY <2>1, <2>4
      <3>4. LiveOf(y)' = LiveOf(x) \ {k} /\ MaxDomains \in Nat
        BY <1>8, <2>4, StoreAssumption
      <3> QED
        BY <2>2, <2>4, <3>1, <3>2, <3>3, <3>4
    <2> QED
      BY <2>3, <2>4
  <1>13. BudgetsFollowDomains'
    BY <1>9, <1>10, <1>11, <1>12 DEF BudgetsFollowDomains
  <1>14. StoreInv'
    BY <1>1, <1>6, <1>7, <1>13 DEF StoreInv, ObjectsOK
  <1>15. /\ sweeper \in SweeperState /\ now \in Time
         /\ sweeper' = [sweeper EXCEPT !.todo = @ \ {k}]
         /\ UNCHANGED <<worker, now, announced>> /\ sweeper.pc = "evict"
    BY InvIs DEF ActorsOK, Evict
  <1>16. sweeper' \in SweeperState
    BY <1>15 DEF SweeperState
  <1>17. SweepOK'
    BY <1>2, <1>15, InvIs DEF SweepOK, SweeperState
  <1> QED
    BY <1>1, <1>14, <1>15, <1>16, <1>17, IdleKeeps

\* A finite set has no more images than members.
LEMMA ImagesOf ==
  ASSUME NEW f, f = [x \in DOMAIN f |-> f[x]], IsFiniteSet(DOMAIN f)
  PROVE  /\ IsFiniteSet(Range(f)) /\ Cardinality(Range(f)) <= Cardinality(DOMAIN f)
         /\ Cardinality(Range(f)) \in Nat /\ Cardinality(DOMAIN f) \in Nat
  <1>1. f \in Surjection(DOMAIN f, Range(f))
    BY DEF Surjection, Range
  <1> QED
    BY <1>1, FS_Surjection, FS_CardinalityType

\* Two finite sets together are no more than one and the other.
LEMMA Together ==
  ASSUME NEW A, NEW B, IsFiniteSet(A), IsFiniteSet(B)
  PROVE  /\ IsFiniteSet(A \cup B) /\ Cardinality(A \cup B) <= Cardinality(A) + Cardinality(B)
         /\ Cardinality(A \cup B) \in Nat
         /\ Cardinality(A) \in Nat /\ Cardinality(B) \in Nat
  <1>1. /\ IsFiniteSet(A \cup B) /\ IsFiniteSet(A \cap B)
        /\ Cardinality(A \cup B) = Cardinality(A) + Cardinality(B) - Cardinality(A \cap B)
    BY FS_Union, FS_Intersection
  <1>2. /\ Cardinality(A \cap B) \in Nat /\ Cardinality(A \cup B) \in Nat
        /\ Cardinality(A) \in Nat /\ Cardinality(B) \in Nat
    BY <1>1, FS_CardinalityType
  <1> QED
    BY <1>1, <1>2

\* An address is free while those in use are at most one for every domain but
\* one, and two for every worker.
LEMMA FreshIs ==
  ASSUME NEW used, NEW A, NEW B, used \subseteq A \cup B, IsFiniteSet(A), IsFiniteSet(B),
         Cardinality(A) < Cardinality(Domains), Cardinality(B) <= 2 * Cardinality(Workers)
  PROVE  Fresh(used) \in Ids /\ Fresh(used) \notin used
  <1>1. /\ IsFiniteSet(A \cup B) /\ Cardinality(A \cup B) <= Cardinality(A) + Cardinality(B)
        /\ Cardinality(A \cup B) \in Nat
        /\ Cardinality(A) \in Nat /\ Cardinality(B) \in Nat
    BY Together
  <1>2. /\ Cardinality(Ids) >= Cardinality(Domains) + 2 * Cardinality(Workers)
        /\ Cardinality(Ids) \in Nat /\ Cardinality(Domains) \in Nat
        /\ Cardinality(Workers) \in Nat
    BY StoreAssumption, FS_CardinalityType
  <1>3. ~(Ids \subseteq used)
    <2>1. SUFFICES ASSUME Ids \subseteq A \cup B
                   PROVE  FALSE
      OBVIOUS
    <2>2. Cardinality(Ids) <= Cardinality(A \cup B)
      BY <1>1, <2>1, FS_Subset
    <2> QED
      BY <1>1, <1>2, <2>2
  <1> QED
    BY <1>3 DEF Fresh

\* There is room for a domain that opens, its device's budget and its table.
LEMMA RoomToOpen ==
  ASSUME Inv, NEW k \in Domains, k \notin DOMAIN domains
  PROVE  /\ Fresh(DOMAIN heap) \in Ids /\ Fresh(DOMAIN heap) \notin DOMAIN heap
         /\ Fresh(DOMAIN budgets) \in Ids /\ Fresh(DOMAIN budgets) \notin DOMAIN budgets
         /\ TableOf[k] \notin DOMAIN samplerTables =>
              Fresh(DOMAIN tables) \in Ids /\ Fresh(DOMAIN tables) \notin DOMAIN tables
  <1> DEFINE rest == Domains \ {k}
             H == InHand \ {None}
             spent(f) == {f[i] : i \in H}
  <1>0. ObjectsOK /\ StoreInv /\ HeapOK
    BY InvIs DEF ObjectsOK
  <1>1. /\ IsFiniteSet(rest) /\ Cardinality(rest) < Cardinality(Domains)
        /\ Cardinality(rest) \in Nat /\ Cardinality(Domains) \in Nat
    <2>1. IsFiniteSet(rest) /\ Cardinality(rest) = Cardinality(Domains) - 1
      BY StoreAssumption, FS_RemoveElement
    <2> QED
      BY <2>1, StoreAssumption, FS_CardinalityType
  <1>2. /\ IsFiniteSet(H) /\ Cardinality(H) <= 2 * Cardinality(Workers)
        /\ Cardinality(H) \in Nat /\ Cardinality(Workers) \in Nat
    <2> DEFINE f == [v \in Workers |-> worker[v].d]
               g == [v \in Workers |-> worker[v].held]
    <2>1. /\ IsFiniteSet(Range(f)) /\ Cardinality(Range(f)) <= Cardinality(Workers)
          /\ Cardinality(Range(f)) \in Nat
      BY StoreAssumption, ImagesOf
    <2>2. /\ IsFiniteSet(Range(g)) /\ Cardinality(Range(g)) <= Cardinality(Workers)
          /\ Cardinality(Range(g)) \in Nat
      BY StoreAssumption, ImagesOf
    <2>3. InHand = Range(f) \cup Range(g)
      BY DEF InHand, Range
    <2> HIDE DEF f, g
    <2>4. /\ IsFiniteSet(InHand) /\ Cardinality(InHand) \in Nat
          /\ Cardinality(InHand) <= Cardinality(Range(f)) + Cardinality(Range(g))
      BY <2>1, <2>2, <2>3, Together
    <2>5. /\ IsFiniteSet(H) /\ Cardinality(H) <= Cardinality(InHand)
          /\ Cardinality(H) \in Nat /\ Cardinality(Workers) \in Nat
      BY <2>4, StoreAssumption, FS_Subset, FS_CardinalityType
    <2> HIDE DEF H
    <2> QED
      BY <2>1, <2>2, <2>4, <2>5
  <1>3. /\ IsFiniteSet(Range(domains)) /\ Cardinality(Range(domains)) < Cardinality(Domains)
    <2>1. DOMAIN domains \subseteq rest /\ domains = [j \in DOMAIN domains |-> domains[j]]
      BY <1>0 DEF ObjectsOK
    <2>2. /\ IsFiniteSet(DOMAIN domains) /\ Cardinality(DOMAIN domains) <= Cardinality(rest)
      BY <1>1, <2>1, FS_Subset
    <2>3. /\ IsFiniteSet(Range(domains)) /\ Cardinality(Range(domains)) \in Nat
          /\ Cardinality(Range(domains)) <= Cardinality(DOMAIN domains)
          /\ Cardinality(DOMAIN domains) \in Nat
      BY <2>1, <2>2, ImagesOf
    <2> HIDE DEF rest
    <2> QED
      BY <1>1, <2>2, <2>3
  <1> HIDE DEF rest, H
  <1>4. DOMAIN heap \subseteq Range(domains) \cup H
    BY <1>0 DEF HeapOK, H
  <1>5. Fresh(DOMAIN heap) \in Ids /\ Fresh(DOMAIN heap) \notin DOMAIN heap
    BY <1>2, <1>3, <1>4, FreshIs
  <1>6. Fresh(DOMAIN budgets) \in Ids /\ Fresh(DOMAIN budgets) \notin DOMAIN budgets
    <2> DEFINE f == [i \in Range(domains) |-> heap[i].budget]
               g == [i \in H |-> heap[i].budget]
    <2>1. /\ IsFiniteSet(Range(f)) /\ Cardinality(Range(f)) <= Cardinality(Range(domains))
          /\ Cardinality(Range(f)) \in Nat /\ Cardinality(Range(domains)) \in Nat
      BY <1>3, ImagesOf
    <2>2. /\ IsFiniteSet(Range(g)) /\ Cardinality(Range(g)) <= Cardinality(H)
          /\ Cardinality(Range(g)) \in Nat
      BY <1>2, ImagesOf
    <2>3. \A i \in DOMAIN heap : heap[i].budget \in Range(f) \cup Range(g)
      BY <1>4 DEF Range
    <2>4. \A x \in DOMAIN perExporter : perExporter[x] \in Range(f)
      <3> SUFFICES ASSUME NEW x \in DOMAIN perExporter
                   PROVE  perExporter[x] \in Range(f)
        OBVIOUS
      <3>1. PICK j \in DOMAIN domains : ExporterOf[j] = x
        BY <1>0 DEF StoreInv, BudgetsFollowDomains
      <3>2. heap[domains[j]].budget = perExporter[x]
        BY <1>0, <3>1 DEF StoreInv, BudgetsFollowDomains
      <3> QED
        BY <3>2 DEF Range
    <2> HIDE DEF f, g
    <2>5. DOMAIN budgets \subseteq Range(f) \cup Range(g)
      BY <1>0, <2>3, <2>4 DEF HeapOK, Range
    <2>6. Cardinality(Range(f)) < Cardinality(Domains)
      BY <1>1, <1>3, <2>1
    <2>7. Cardinality(Range(g)) <= 2 * Cardinality(Workers)
      BY <1>2, <2>2
    <2> QED
      BY <2>1, <2>2, <2>5, <2>6, <2>7, FreshIs
  <1>7. ASSUME TableOf[k] \notin DOMAIN samplerTables
        PROVE  Fresh(DOMAIN tables) \in Ids /\ Fresh(DOMAIN tables) \notin DOMAIN tables
    <2> DEFINE f == [j \in rest |-> samplerTables[TableOf[j]]]
               g == [i \in H |-> heap[i].declared]
    <2>1. /\ IsFiniteSet(Range(f)) /\ Cardinality(Range(f)) <= Cardinality(rest)
          /\ Cardinality(Range(f)) \in Nat
      BY <1>1, ImagesOf
    <2>2. /\ IsFiniteSet(Range(g)) /\ Cardinality(Range(g)) <= Cardinality(H)
          /\ Cardinality(Range(g)) \in Nat
      BY <1>2, ImagesOf
    <2>3. \A s \in DOMAIN samplerTables : samplerTables[s] \in Range(f)
      <3> SUFFICES ASSUME NEW s \in DOMAIN samplerTables
                   PROVE  samplerTables[s] \in Range(f)
        OBVIOUS
      <3>1. s \in Range(TableOf)
        BY <1>0 DEF ObjectsOK, TableKeys
      <3>2. PICK j \in DOMAIN TableOf : TableOf[j] = s
        BY <3>1 DEF Range
      <3>3. j \in rest
        BY <1>7, <3>2, StoreAssumption DEF rest
      <3> QED
        BY <3>2, <3>3 DEF Range
    <2>4. \A i \in DOMAIN heap : heap[i].declared \in Range(f) \cup Range(g)
      <3> SUFFICES ASSUME NEW i \in DOMAIN heap
                   PROVE  heap[i].declared \in Range(f) \cup Range(g)
        OBVIOUS
      <3>1. CASE i \in H
        BY <3>1 DEF Range
      <3>2. CASE i \in Range(domains)
        <4>1. PICK j \in DOMAIN domains : domains[j] = i
          BY <3>2 DEF Range
        <4>2. /\ TableOf[j] \in DOMAIN samplerTables
              /\ heap[i].declared = samplerTables[TableOf[j]]
          BY <1>0, <4>1 DEF StoreInv, TableShared
        <4> HIDE DEF f
        <4> QED
          BY <2>3, <4>2
      <3> QED
        BY <1>4, <3>1, <3>2
    <2> HIDE DEF f, g
    <2>5. DOMAIN tables \subseteq Range(f) \cup Range(g)
      BY <1>0, <2>3, <2>4 DEF HeapOK, Range
    <2>6. Cardinality(Range(f)) < Cardinality(Domains)
      BY <1>1, <2>1
    <2>7. Cardinality(Range(g)) <= 2 * Cardinality(Workers)
      BY <1>2, <2>2
    <2> QED
      BY <2>1, <2>2, <2>5, <2>6, <2>7, FreshIs
  <1> QED
    BY <1>5, <1>6, <1>7

\* Domain k opens as i, empty, under its device's budget and with its table.
Opens(w, k, i) ==
  LET x == ExporterOf[k]
      s == TableOf[k]
  IN  /\ worker[w].key = k
      /\ k \notin DOMAIN domains /\ i \notin DOMAIN heap /\ i \in DOMAIN heap'
      /\ domains' = Put(domains, k, i)
      /\ DOMAIN perExporter' = DOMAIN perExporter \cup {x}
      /\ \A y \in DOMAIN perExporter : perExporter'[y] = perExporter[y]
      /\ x \notin DOMAIN perExporter => perExporter'[x] \notin DOMAIN budgets
      /\ s \in DOMAIN samplerTables'
      /\ \A u \in DOMAIN samplerTables : u \in DOMAIN samplerTables' /\ samplerTables'[u] = samplerTables[u]
      /\ heap'[i].key = k /\ heap'[i].budget = perExporter'[x]
      /\ heap'[i].declared = samplerTables'[s] /\ heap'[i].lastSeen = worker[w].at
      /\ heap'[i].fields = 0 /\ DOMAIN heap'[i].templates = {}
      /\ \A j \in DOMAIN heap' : j = i \/ (j \in DOMAIN heap /\ heap'[j] = heap[j])
      /\ \A j \in DOMAIN budgets' :
           \/ j # perExporter'[x] /\ j \in DOMAIN budgets /\ budgets'[j] = budgets[j]
           \/ /\ j = perExporter'[x] /\ x \in DOMAIN perExporter
              /\ budgets'[j].domains = budgets[j].domains + 1
              /\ budgets'[j].fields = budgets[j].fields
           \/ /\ j = perExporter'[x] /\ x \notin DOMAIN perExporter
              /\ budgets'[j].domains = 1 /\ budgets'[j].fields = 0
      /\ Range(domains') \subseteq DOMAIN heap' /\ Range(perExporter') \subseteq DOMAIN budgets'
      /\ Resolved(w, i)

\* OpenNew opens a domain at an address nothing used.
LEMMA OpenNewOpens ==
  ASSUME Inv, NEW w \in Workers, OpenNew(w)
  PROVE  ObjectsOK' /\ \E i \in Ids : \E k \in Domains : Opens(w, k, i)
  <1> DEFINE k == worker[w].key
             x == ExporterOf[k]
             s == TableOf[k]
             i == Fresh(DOMAIN heap)
             share == IF x \in DOMAIN perExporter THEN perExporter[x] ELSE Fresh(DOMAIN budgets)
             t == IF s \in DOMAIN samplerTables THEN samplerTables[s] ELSE Fresh(DOMAIN tables)
             budget == IF x \in DOMAIN perExporter THEN budgets[share]
                                                   ELSE [domains |-> 0, fields |-> 0]
             declared == IF s \in DOMAIN samplerTables THEN tables[t] ELSE [r \in {} |-> 0]
             B == [budget EXCEPT !.domains = @ + 1]
             D == [key |-> k, budget |-> share, declared |-> t, lastSeen |-> worker[w].at,
                   fields |-> 0, templates |-> [ref \in {} |-> 0], oldest |-> Never]
             h == Put(heap, i, D)
             b == Put(budgets, share, B)
             u == Put(tables, t, declared)
  <1>1. /\ worker[w].pc = "open" /\ k \notin DOMAIN domains
        /\ domains' = Put(domains, k, i)
        /\ perExporter' = Put(perExporter, x, share)
        /\ samplerTables' = Put(samplerTables, s, t)
        /\ Resolved(w, i)
        /\ Keep(h, b, u)
    BY DEF OpenNew
  <1>2. /\ k \in Domains /\ x \in Exporters /\ s \in TableKeys /\ worker[w].at \in Time
        /\ worker[w] \in WorkerState /\ TypeOK
    BY <1>1, StoreAssumption, InvIs DEF ActorsOK, Shape, WorkerState, TableKeys, Range, Inv
  <1>3. i \in Ids /\ i \notin DOMAIN heap
    BY <1>1, <1>2, RoomToOpen
  <1>4. /\ share \in Ids
        /\ x \in DOMAIN perExporter => share \in DOMAIN budgets /\ share = perExporter[x]
        /\ x \notin DOMAIN perExporter => share \notin DOMAIN budgets
    BY <1>1, <1>2, RoomToOpen, InvIs DEF ObjectsOK
  <1>5. /\ t \in Ids /\ declared \in Table
        /\ s \in DOMAIN samplerTables => t = samplerTables[s]
    <2>1. CASE s \in DOMAIN samplerTables
      BY <2>1, InvIs DEF ObjectsOK
    <2>2. CASE s \notin DOMAIN samplerTables
      <3>1. [r \in {} |-> 0] \in [{} -> Time]
        OBVIOUS
      <3> QED
        BY <1>1, <1>2, <2>2, <3>1, RoomToOpen DEF Table
    <2> QED
      BY <2>1, <2>2
  <1>6. /\ B \in ExporterBudget
        /\ x \in DOMAIN perExporter => /\ B.domains = budgets[share].domains + 1
                                       /\ B.fields = budgets[share].fields
        /\ x \notin DOMAIN perExporter => B.domains = 1 /\ B.fields = 0
    <2>1. CASE x \in DOMAIN perExporter
      <3>1. budgets[share] \in ExporterBudget
        BY <1>4, <2>1, InvIs DEF ObjectsOK
      <3> QED
        BY <2>1, <3>1 DEF ExporterBudget
    <2>2. CASE x \notin DOMAIN perExporter
      BY <2>2 DEF ExporterBudget
    <2> QED
      BY <2>1, <2>2
  <1> HIDE DEF i, share, t, budget, declared, B
  <1>7. /\ D \in DomainState /\ Charged(D) /\ D.key = k /\ D.budget = share /\ D.declared = t
        /\ D.lastSeen = worker[w].at /\ D.fields = 0 /\ DOMAIN D.templates = {}
    <2>1. [ref \in {} |-> 0] \in [{} -> [size: FieldCounts, at: Time]]
      OBVIOUS
    <2>2. [ref \in {} |-> 0] \in UNION {[S -> [size: FieldCounts, at: Time]] : S \in SUBSET Refs}
      BY <2>1
    <2> DEFINE none == [ref \in {} |-> 0]
    <2>3. DOMAIN none = {} /\ D.templates = none
      OBVIOUS
    <2> HIDE DEF none
    <2>4. D \in DomainState
      <3>1. D = [key |-> k, budget |-> share, declared |-> t, lastSeen |-> worker[w].at,
                 fields |-> 0, templates |-> none, oldest |-> Never]
        BY DEF none
      <3>2. 0 \in Int /\ Never \in Time \cup {Never}
        OBVIOUS
      <3>3. none \in UNION {[S -> [size: FieldCounts, at: Time]] : S \in SUBSET Refs}
        BY <2>2 DEF none
      <3> QED
        BY <1>2, <1>4, <1>5, <3>1, <3>2, <3>3 DEF DomainState
    <2>6. FieldsOf(D.templates) = {}
      BY <2>3 DEF FieldsOf
    <2>5. Charged(D)
      BY <2>6, FS_EmptySet DEF Charged
    <2> QED
      BY <2>3, <2>4, <2>5
  <1> HIDE DEF D
  <1>8. /\ DOMAIN h = DOMAIN heap \cup {i} /\ h[i] = D /\ \A j \in DOMAIN heap : h[j] = heap[j]
        /\ DOMAIN b = DOMAIN budgets \cup {share} /\ b[share] = B
        /\ \A j \in DOMAIN budgets : j # share => b[j] = budgets[j]
        /\ DOMAIN u = DOMAIN tables \cup {t} /\ u[t] = declared
        /\ \A j \in DOMAIN tables : j # t => u[j] = tables[j]
    <2>1. DOMAIN h = DOMAIN heap \cup {i} /\ h[i] = D /\ \A j \in DOMAIN heap : h[j] = heap[j]
      BY <1>3 DEF Put
    <2>2. /\ DOMAIN b = DOMAIN budgets \cup {share} /\ b[share] = B
          /\ \A j \in DOMAIN budgets : j # share => b[j] = budgets[j]
      BY DEF Put
    <2>3. /\ DOMAIN u = DOMAIN tables \cup {t} /\ u[t] = declared
          /\ \A j \in DOMAIN tables : j # t => u[j] = tables[j]
      BY DEF Put
    <2> HIDE DEF h, b, u
    <2> QED
      BY <2>1, <2>2, <2>3
  <1> HIDE DEF h, b, u
  <1>9. Wellformed(h, b, u)
    <2>1. Wellformed(heap, budgets, tables)
      BY WellformedNow, InvIs
    <2>2. \A j \in DOMAIN h : /\ j \in Ids /\ h[j] \in DomainState /\ Charged(h[j])
                              /\ h[j].budget \in DOMAIN b /\ h[j].declared \in DOMAIN u
      BY <1>3, <1>7, <1>8, <2>1 DEF Wellformed
    <2>3. \A j \in DOMAIN b : j \in Ids /\ b[j] \in ExporterBudget
      BY <1>4, <1>6, <1>8, <2>1 DEF Wellformed
    <2>4. \A j \in DOMAIN u : j \in Ids /\ u[j] \in Table
      BY <1>5, <1>8, <2>1 DEF Wellformed
    <2> QED
      BY <2>2, <2>3, <2>4 DEF Wellformed
  <1>10. /\ DOMAIN domains' = DOMAIN domains \cup {k}
         /\ domains' \in [DOMAIN domains' -> DOMAIN h]
    <2>1. domains \in [DOMAIN domains -> DOMAIN heap]
      BY InvIs DEF ObjectsOK
    <2> QED
      BY <1>1, <1>8, <2>1 DEF Put
  <1>11. /\ DOMAIN perExporter' = DOMAIN perExporter \cup {x} /\ perExporter'[x] = share
         /\ \A y \in DOMAIN perExporter : perExporter'[y] = perExporter[y]
         /\ perExporter' \in [DOMAIN perExporter' -> DOMAIN b]
    <2>1. perExporter \in [DOMAIN perExporter -> DOMAIN budgets]
      BY InvIs DEF ObjectsOK
    <2>2. /\ DOMAIN perExporter' = DOMAIN perExporter \cup {x} /\ perExporter'[x] = share
          /\ \A y \in DOMAIN perExporter : perExporter'[y] = perExporter[y]
      BY <1>1, <1>4 DEF Put
    <2> QED
      BY <1>1, <1>8, <2>1, <2>2 DEF Put
  <1>12. /\ DOMAIN samplerTables' = DOMAIN samplerTables \cup {s} /\ samplerTables'[s] = t
         /\ \A r \in DOMAIN samplerTables : samplerTables'[r] = samplerTables[r]
         /\ samplerTables' \in [DOMAIN samplerTables' -> DOMAIN u]
    <2>1. samplerTables \in [DOMAIN samplerTables -> DOMAIN tables]
      BY InvIs DEF ObjectsOK
    <2>2. /\ DOMAIN samplerTables' = DOMAIN samplerTables \cup {s} /\ samplerTables'[s] = t
          /\ \A r \in DOMAIN samplerTables : samplerTables'[r] = samplerTables[r]
      BY <1>1, <1>5 DEF Put
    <2> QED
      BY <1>1, <1>8, <2>1, <2>2 DEF Put
  <1>13. InHand' \subseteq DOMAIN h \cup {None}
    <2>1. /\ worker[w].call = "datagram" => Turns(w, "ready", "datagram", i, None)
          /\ worker[w].call # "datagram" => Turns(w, "body", worker[w].call, worker[w].d, i)
      BY <1>1, <1>2, <1>3, ResolvedTurns
    <2>2. Others(w) /\ {worker'[w].d, worker'[w].held} \subseteq {worker[w].d, i, None}
      BY <2>1 DEF Turns
    <2>3. worker[w].d \in InHand /\ InHand \subseteq DOMAIN heap \cup {None}
      BY WellformedNow, InvIs DEF InHand
    <2> QED
      BY <1>8, <2>2, <2>3, HandsMove
  <1>14. Reached(h, b, u)
    BY <1>2, <1>10, <1>11, <1>12, <1>13, InvIs DEF Reached, ObjectsOK
  <1>15. /\ ObjectsOK'
         /\ \A j \in DOMAIN heap' : j \in DOMAIN h /\ heap'[j] = h[j]
         /\ \A j \in DOMAIN budgets' : j \in DOMAIN b /\ budgets'[j] = b[j]
         /\ Range(domains') \subseteq DOMAIN heap' /\ Range(perExporter') \subseteq DOMAIN budgets'
    BY <1>1, <1>9, <1>14, KeptIs
  <1>16. i \in DOMAIN heap'
    <2>1. domains'[k] = i
      BY <1>1 DEF Put
    <2> QED
      BY <1>10, <1>15, <2>1 DEF Range
  <1>17. /\ heap'[i].key = k /\ heap'[i].budget = perExporter'[x]
         /\ heap'[i].declared = samplerTables'[s] /\ heap'[i].lastSeen = worker[w].at
         /\ heap'[i].fields = 0 /\ DOMAIN heap'[i].templates = {}
         /\ \A j \in DOMAIN heap' : j = i \/ (j \in DOMAIN heap /\ heap'[j] = heap[j])
    BY <1>7, <1>8, <1>11, <1>12, <1>15, <1>16
  <1>18. \A j \in DOMAIN budgets' :
           \/ j # perExporter'[x] /\ j \in DOMAIN budgets /\ budgets'[j] = budgets[j]
           \/ /\ j = perExporter'[x] /\ x \in DOMAIN perExporter
              /\ budgets'[j].domains = budgets[j].domains + 1
              /\ budgets'[j].fields = budgets[j].fields
           \/ /\ j = perExporter'[x] /\ x \notin DOMAIN perExporter
              /\ budgets'[j].domains = 1 /\ budgets'[j].fields = 0
    BY <1>4, <1>6, <1>8, <1>11, <1>15
  <1> HIDE DEF k, x, s
  <1>19. Opens(w, k, i)
    BY <1>1, <1>3, <1>4, <1>11, <1>12, <1>15, <1>16, <1>17, <1>18 DEF Opens, k, x, s
  <1> QED
    BY <1>2, <1>3, <1>15, <1>19

\* The devices with a live domain are finitely many.
LEMMA DevicesFinite ==
  ASSUME ObjectsOK, BudgetsFollowDomains
  PROVE  IsFiniteSet(DOMAIN perExporter) /\ Cardinality(DOMAIN perExporter) \in Nat
  <1> DEFINE f == [j \in DOMAIN domains |-> ExporterOf[j]]
  <1>1. IsFiniteSet(DOMAIN f)
    BY StoreAssumption, FS_Subset DEF ObjectsOK
  <1>2. Range(f) = DOMAIN perExporter
    BY DEF BudgetsFollowDomains, Range
  <1>3. IsFiniteSet(Range(f)) /\ Cardinality(Range(f)) \in Nat
    BY <1>1, ImagesOf
  <1> HIDE DEF f
  <1> QED
    BY <1>2, <1>3

\* OpenNew keeps the invariant.
LEMMA OpenNewStep ==
  ASSUME Inv, NEW w \in Workers, OpenNew(w)
  PROVE  Inv'
  <1>0. PICK k \in Domains : \E i \in Ids : Opens(w, k, i)
    BY OpenNewOpens
  <1>1. PICK i \in Ids : Opens(w, k, i)
    BY <1>0
  <1> DEFINE x == ExporterOf[k]
  <1>2. /\ worker[w].pc = "open" /\ ~PastBudget(x) /\ UNCHANGED <<sweeper, now, announced>>
        /\ ObjectsOK' /\ ObjectsOK /\ StoreInv
    BY <1>1, OpenNewOpens, InvIs DEF OpenNew, Opens
  <1>3. worker[w] \in WorkerState /\ Shape(w) /\ worker[w].since <= worker[w].at
    BY <1>2, InvIs DEF ActorsOK, Shape, ClockOK
  <1>4. /\ DOMAIN domains' = DOMAIN domains \cup {k} /\ domains'[k] = i /\ k \notin DOMAIN domains
        /\ \A j \in DOMAIN domains : domains'[j] = domains[j]
    BY <1>1 DEF Opens, Put
  <1>5. \A j \in DOMAIN domains :
          /\ domains[j] \in DOMAIN heap' /\ heap'[domains[j]] = heap[domains[j]]
    <2> SUFFICES ASSUME NEW j \in DOMAIN domains
                 PROVE  /\ domains[j] \in DOMAIN heap' /\ heap'[domains[j]] = heap[domains[j]]
      OBVIOUS
    <2>1. domains[j] \in DOMAIN heap /\ domains[j] # i
      BY <1>1, HeldIsThere DEF Opens
    <2>2. domains[j] \in DOMAIN heap'
      BY <1>1, <1>4 DEF Opens, Range
    <2> QED
      BY <1>1, <2>1, <2>2 DEF Opens
  <1>6. /\ heap'[i].key = k /\ heap'[i].budget = perExporter'[x]
        /\ heap'[i].declared = samplerTables'[TableOf[k]]
        /\ TableOf[k] \in DOMAIN samplerTables'
        /\ \A u \in DOMAIN samplerTables : u \in DOMAIN samplerTables' /\ samplerTables'[u] = samplerTables[u]
        /\ DOMAIN perExporter' = DOMAIN perExporter \cup {x}
        /\ \A y \in DOMAIN perExporter : perExporter'[y] = perExporter[y]
        /\ x \notin DOMAIN perExporter => perExporter'[x] \notin DOMAIN budgets
    BY <1>1 DEF Opens
  <1>7. \A y \in DOMAIN perExporter : perExporter[y] \in DOMAIN budgets
    BY HeldIsThere
  <1>8. IndexOK'
    BY <1>2, <1>4, <1>5, <1>6, <1>7 DEF StoreInv, IndexOK
  <1>9. TableShared'
    <2> SUFFICES ASSUME NEW j \in DOMAIN domains'
                 PROVE  /\ TableOf[j] \in DOMAIN samplerTables'
                        /\ heap'[domains'[j]].declared = samplerTables'[TableOf[j]]
      BY DEF TableShared
    <2>1. CASE j = k
      BY <1>4, <1>6, <2>1
    <2>2. CASE j \in DOMAIN domains
      <3>1. /\ TableOf[j] \in DOMAIN samplerTables
            /\ heap[domains[j]].declared = samplerTables[TableOf[j]]
        BY <1>2, <2>2 DEF StoreInv, TableShared
      <3>2. heap'[domains'[j]] = heap[domains[j]]
        BY <1>4, <1>5, <2>2
      <3> QED
        BY <1>6, <3>1, <3>2
    <2> QED
      BY <1>4, <2>1, <2>2
  <1>10. /\ LiveOf(x)' = LiveOf(x) \cup {k} /\ k \notin LiveOf(x)
         /\ \A y : y # x => LiveOf(y)' = LiveOf(y)
    BY <1>4 DEF LiveOf
  <1>11. /\ Cardinality(LiveOf(x)') = Cardinality(LiveOf(x)) + 1 /\ Cardinality(LiveOf(x)) \in Nat
         /\ x \notin DOMAIN perExporter => Cardinality(LiveOf(x)) = 0
    <2>1. /\ IsFiniteSet(LiveOf(x)) /\ Cardinality(LiveOf(x)) \in Nat
          /\ x \notin DOMAIN perExporter => LiveOf(x) = {}
          /\ LiveOf(x) = {} <=> Cardinality(LiveOf(x)) = 0
      BY <1>2, LiveIs DEF StoreInv
    <2>2. Cardinality(LiveOf(x) \cup {k}) = Cardinality(LiveOf(x)) + 1
      BY <1>10, <2>1, FS_AddElement
    <2> QED
      BY <1>10, <2>1, <2>2
  <1>12. MaxDomains \in Nat /\ MaxDomains > 0 /\ MaxExporters \in Nat
    BY StoreAssumption
  <1>13. Cardinality(LiveOf(x)') <= MaxDomains
    <2>1. CASE x \in DOMAIN perExporter
      <3>1. budgets[perExporter[x]].domains = Cardinality(LiveOf(x))
        BY <1>2, <2>1 DEF StoreInv, BudgetsFollowDomains
      <3>2. ~(Cardinality(LiveOf(x)) >= MaxDomains)
        BY <1>2, <2>1, <3>1 DEF PastBudget
      <3> QED
        BY <1>11, <1>12, <3>2
    <2>2. CASE x \notin DOMAIN perExporter
      BY <1>11, <1>12, <2>2
    <2> QED
      BY <2>1, <2>2
  <1>14. Cardinality(DOMAIN perExporter') <= MaxExporters
    <2>1. IsFiniteSet(DOMAIN perExporter) /\ Cardinality(DOMAIN perExporter) \in Nat
      BY <1>2, DevicesFinite DEF StoreInv
    <2>2. CASE x \in DOMAIN perExporter
      <3>1. DOMAIN perExporter' = DOMAIN perExporter
        BY <1>6, <2>2
      <3> QED
        BY <1>2, <3>1 DEF StoreInv, BudgetsFollowDomains
    <2>3. CASE x \notin DOMAIN perExporter
      <3>1. Cardinality(DOMAIN perExporter \cup {x}) = Cardinality(DOMAIN perExporter) + 1
        BY <2>1, <2>3, FS_AddElement
      <3>2. ~(Cardinality(DOMAIN perExporter) >= MaxExporters)
        BY <1>2, <2>3 DEF PastBudget
      <3> QED
        BY <1>6, <1>12, <2>1, <3>1, <3>2
    <2> QED
      BY <2>2, <2>3
  <1>15. DOMAIN perExporter' = {ExporterOf[j] : j \in DOMAIN domains'}
    <2>1. DOMAIN perExporter = {ExporterOf[j] : j \in DOMAIN domains}
      BY <1>2 DEF StoreInv, BudgetsFollowDomains
    <2> QED
      BY <1>4, <1>6, <2>1
  <1>16. \A j \in DOMAIN domains' : heap'[domains'[j]].budget = perExporter'[ExporterOf[j]]
    <2> SUFFICES ASSUME NEW j \in DOMAIN domains'
                 PROVE  heap'[domains'[j]].budget = perExporter'[ExporterOf[j]]
      OBVIOUS
    <2>1. CASE j = k
      BY <1>4, <1>6, <2>1
    <2>2. CASE j \in DOMAIN domains
      <3>1. /\ ExporterOf[j] \in DOMAIN perExporter
            /\ heap[domains[j]].budget = perExporter[ExporterOf[j]]
        BY <1>2, <2>2 DEF StoreInv, BudgetsFollowDomains
      <3>2. heap'[domains'[j]] = heap[domains[j]]
        BY <1>4, <1>5, <2>2
      <3> QED
        BY <1>6, <3>1, <3>2
    <2> QED
      BY <1>4, <2>1, <2>2
  <1>17. ASSUME NEW y \in DOMAIN perExporter'
         PROVE  /\ budgets'[perExporter'[y]].domains = Cardinality(LiveOf(y)')
                /\ Cardinality(LiveOf(y)') <= MaxDomains
    <2>1. perExporter'[y] \in DOMAIN budgets'
      BY <1>1 DEF Opens, Range
    <2>2. CASE y # x
      <3>1. /\ y \in DOMAIN perExporter /\ perExporter'[y] = perExporter[y]
            /\ budgets[perExporter[y]].domains = Cardinality(LiveOf(y))
            /\ Cardinality(LiveOf(y)) <= MaxDomains
        BY <1>2, <1>6, <2>2 DEF StoreInv, BudgetsFollowDomains
      <3>2. perExporter'[y] # perExporter'[x]
        BY <1>2, <1>6, <1>7, <2>2, <3>1 DEF StoreInv, IndexOK
      <3>3. budgets'[perExporter'[y]] = budgets[perExporter[y]]
        BY <1>1, <2>1, <3>1, <3>2 DEF Opens
      <3>4. LiveOf(y)' = LiveOf(y)
        BY <1>10, <2>2
      <3> QED
        BY <3>1, <3>3, <3>4
    <2>3. CASE y = x
      <3>1. perExporter'[x] \in DOMAIN budgets'
        BY <2>1, <2>3
      <3>2. x \in DOMAIN perExporter =>
              budgets'[perExporter'[x]].domains = Cardinality(LiveOf(x)) + 1
        <4> SUFFICES ASSUME x \in DOMAIN perExporter
                     PROVE  budgets'[perExporter'[x]].domains = Cardinality(LiveOf(x)) + 1
          OBVIOUS
        <4>1. /\ perExporter'[x] = perExporter[x]
              /\ budgets[perExporter[x]].domains = Cardinality(LiveOf(x))
          BY <1>2, <1>6 DEF StoreInv, BudgetsFollowDomains
        <4>2. budgets'[perExporter'[x]].domains = budgets[perExporter'[x]].domains + 1
          BY <1>1, <3>1 DEF Opens
        <4> QED
          BY <4>1, <4>2
      <3>3. x \notin DOMAIN perExporter => budgets'[perExporter'[x]].domains = 1
        BY <1>1, <3>1 DEF Opens
      <3>4. budgets'[perExporter'[x]].domains = Cardinality(LiveOf(x)')
        BY <1>11, <3>2, <3>3
      <3> QED
        BY <1>13, <2>3, <3>4
    <2> QED
      BY <2>2, <2>3
  <1>18. StoreInv'
    <2>1. BudgetsFollowDomains'
      BY <1>14, <1>15, <1>16, <1>17 DEF BudgetsFollowDomains
    <2> QED
      BY <1>2, <1>8, <1>9, <2>1 DEF StoreInv, ObjectsOK
  <1>19. Resolved(w, i) /\ i # None /\ TypeOK
    BY <1>1, Values DEF Opens, Inv
  <1>20. DOMAIN domains \subseteq DOMAIN domains' /\ announced' \in [Domains -> [Refs -> FieldCounts \cup {0}]]
    BY <1>2, <1>4, InvIs DEF ActorsOK
  <1>21. CASE worker[w].call = "datagram"
    <2>1. Turns(w, "ready", "datagram", i, None)
      BY <1>19, <1>21, ResolvedTurns
    <2> QED
      BY <1>2, <1>18, <1>19, <1>20, <1>21, <2>1, TurnKeeps DEF Calls
  <1>22. CASE worker[w].call # "datagram"
    <2>1. Turns(w, "body", worker[w].call, worker[w].d, i) /\ SameCall(w)
      BY <1>19, <1>22, ResolvedTurns
    <2>2. /\ worker[w].d # None /\ worker[w].call \in Calls /\ worker[w].ref \in Refs
          /\ worker[w].call = "add" => worker[w].size # 0
      BY <1>3, <1>22 DEF Shape, WorkerState
    <2> QED
      BY <1>2, <1>18, <1>19, <1>20, <1>22, <2>1, <2>2, TurnKeeps DEF SameCall
  <1> QED
    BY <1>21, <1>22

-----------------------------------------------------------------------------
(* The theorems, whichever worker decodes which device.                    *)

\* Nothing is in the store at first, and nobody is at work.
LEMMA InitInv == Init => Inv
  <1> SUFFICES ASSUME Init
               PROVE  Inv
    OBVIOUS
  <1>1. /\ DOMAIN domains = {} /\ domains \in [{} -> DOMAIN heap]
        /\ DOMAIN perExporter = {} /\ perExporter \in [{} -> DOMAIN budgets]
        /\ DOMAIN samplerTables = {} /\ samplerTables \in [{} -> DOMAIN tables]
        /\ DOMAIN heap = {} /\ DOMAIN budgets = {} /\ DOMAIN tables = {}
    BY DEF Init
  <1> DEFINE r == [pc |-> "idle", call |-> "datagram", key |-> None, d |-> None,
                   held |-> None, ref |-> None, size |-> 0, got |-> 0, since |-> 0, at |-> 0]
  <1>2. r \in WorkerState /\ worker = [w \in Workers |-> r]
    BY Values DEF Init, WorkerState, Calls
  <1>3. /\ r.pc = "idle" /\ r.call = "datagram" /\ r.key = None /\ r.d = None
        /\ r.held = None /\ r.got = 0
    OBVIOUS
  <1> HIDE DEF r
  <1>4. worker \in [Workers -> WorkerState] /\ \A w \in Workers : worker[w] = r
    BY <1>2
  <1>5. \A w \in Workers : Shape(w)
    BY <1>3, <1>4 DEF Shape
  <1>6. /\ sweeper \in SweeperState /\ now \in Time /\ SweepOK
    BY Values DEF Init, SweeperState, SweepOK
  <1>7. announced \in [Domains -> [Refs -> FieldCounts \cup {0}]]
    BY DEF Init
  <1>8. ActorsOK
    BY <1>4, <1>5, <1>6, <1>7 DEF ActorsOK
  <1>9. ClockOK
    BY <1>3, <1>4 DEF ClockOK
  <1>10. HeapOK
    <2>1. InHand \subseteq {None}
      BY <1>3, <1>4 DEF InHand
    <2>2. Range(domains) = {} /\ Range(perExporter) = {} /\ Range(samplerTables) = {}
      BY <1>1 DEF Range
    <2> QED
      BY <1>1, <2>1, <2>2 DEF HeapOK
  <1>11. ObjectsOK
    BY <1>1, <1>10 DEF ObjectsOK
  <1>12. BudgetsFollowDomains
    <2>1. {ExporterOf[k] : k \in DOMAIN domains} = {} /\ Cardinality({}) = 0 /\ MaxExporters \in Nat
      BY <1>1, FS_EmptySet, StoreAssumption
    <2> QED
      BY <1>1, <2>1 DEF BudgetsFollowDomains
  <1>13. StoreInv
    BY <1>1, <1>10, <1>12 DEF StoreInv, IndexOK, TableShared
  <1> QED
    BY <1>6, <1>8, <1>9, <1>11, <1>13, Split DEF Inv, StoreInv

\* Every step keeps the invariant.
LEMMA NextInv == Inv /\ [Next]_vars => Inv'
  <1> SUFFICES ASSUME Inv, [Next]_vars
               PROVE  Inv'
    OBVIOUS
  <1>1. CASE Tick
    BY <1>1, TickStep
  <1>2. ASSUME NEW w \in Workers, NEW k \in Domains, Receive(w, k)
        PROVE  Inv'
    BY <1>2, ReceiveStep
  <1>3. ASSUME NEW w \in Workers, NEW ref \in Refs,
               \/ \E size \in FieldCounts : RegisterTemplate(w, ref, size)
               \/ RefuseTemplate(w, ref)
               \/ DecodeDataSet(w, ref)
        PROVE  Inv'
    <2>1. announced \in [Domains -> [Refs -> FieldCounts \cup {0}]]
      BY InvIs DEF ActorsOK
    <2>2. ASSUME NEW size \in FieldCounts \cup {0},
                 announced' = [announced EXCEPT ![worker[w].key][ref] = size]
          PROVE  announced' \in [Domains -> [Refs -> FieldCounts \cup {0}]]
      BY <2>1, <2>2
    <2>3. ASSUME NEW size \in FieldCounts, RegisterTemplate(w, ref, size)
          PROVE  Inv'
      <3>1. /\ Call(w, "add", ref, size) /\ size # 0
            /\ announced' \in [Domains -> [Refs -> FieldCounts \cup {0}]]
        BY <2>2, <2>3, Values DEF RegisterTemplate
      <3> QED
        BY <3>1, CallStep
    <2>4. CASE RefuseTemplate(w, ref)
      <3>1. /\ Call(w, "withdraw", ref, 0)
            /\ announced' \in [Domains -> [Refs -> FieldCounts \cup {0}]]
        BY <2>2, <2>4 DEF RefuseTemplate
      <3> QED
        BY <3>1, CallStep
    <2>5. CASE DecodeDataSet(w, ref)
      <3>1. /\ Call(w, "lookup", ref, 0)
            /\ announced' \in [Domains -> [Refs -> FieldCounts \cup {0}]]
        BY <2>1, <2>5 DEF DecodeDataSet
      <3> QED
        BY <3>1, CallStep
    <2> QED
      BY <1>3, <2>3, <2>4, <2>5
  <1>4. ASSUME NEW w \in Workers, NEW s \in Samplers, DeclareSampler(w, s)
        PROVE  Inv'
    BY <1>4, DeclareStep
  <1>5. ASSUME NEW w \in Workers, Step(w)
        PROVE  Inv'
    BY <1>5, FindStep, StampStep, OpenPresentStep, OpenRefusedStep, OpenNewStep, AddStep,
       WithdrawStep, LookupStep DEF Step
  <1>6. ASSUME NEW w \in Workers, EndDatagram(w)
        PROVE  Inv'
    BY <1>6, EndDatagramStep
  <1>7. CASE SweepTick
    BY <1>7, SweepStep
  <1>8. CASE Sweep
    BY <1>8, SweepStep, SweepTablesStep, EvictStep, PruneStep DEF Sweep
  <1>9. CASE UNCHANGED vars
    <2>1. UNCHANGED <<indexes, objects, worker, sweeper, now, announced>>
      BY <1>9 DEF vars
    <2>2. ObjectsOK' /\ StoreInv'
      BY <2>1, HandsIdle, Untouched, InvIs
    <2>3. SweepOK'
      BY <2>1, InvIs DEF SweepOK, indexes
    <2> QED
      BY <2>1, <2>2, <2>3, IdleKeeps, InvIs DEF ActorsOK
  <1> QED
    BY <1>1, <1>2, <1>3, <1>4, <1>5, <1>6, <1>7, <1>8, <1>9 DEF Next

\* The invariant holds throughout.
LEMMA Invariant == Spec => []Inv
  BY InitInv, NextInv, PTL DEF Spec

\* Every object reached is of its type and on the heap, and every call is of
\* the shape its phase asks for (type domainState and the call sequence of
\* templates.go).
THEOREM TypeCorrect == Spec => []TypeOK
  BY Invariant, PTL DEF Inv

\* The budgets are those of the devices with a live domain and count exactly
\* those, within the bounds, whatever the order of openings and evictions.
THEOREM BudgetsFollowDomainsHolds == Spec => []BudgetsFollowDomains
  BY Invariant, PTL DEF Inv, StoreInv

\* The live domains of one device on one protocol declare into the table the
\* store keeps for them.
THEOREM TableSharedHolds == Spec => []TableShared
  BY Invariant, PTL DEF Inv, StoreInv

-----------------------------------------------------------------------------
(* What holds besides where each device is decoded by one worker, as the   *)
(* receiver's sharding by source address has it (PipelineProofs proves     *)
(* that it does): the field counts are exact, and data is decoded by the   *)
(* layout last announced.  The inductive invariant.                        *)

\* No device is handed to two workers.
Sharded == \A v, w \in Workers : v # w => Feeds[v] \cap Feeds[w] = {}

\* Where the worker's domain stands.  Once a datagram has resolved it, nobody
\* evicts it before the datagram ends, so that a call works on the live domain.
Handled(w) ==
  LET k == worker[w].key
      live == k \in DOMAIN domains
      resolved == worker[w].pc = "ready" \/ worker[w].call # "datagram"
  IN  /\ ExporterOf[k] \in Feeds[w]
      /\ worker[w].pc = "open" => ~live
      /\ worker[w].pc \in {"stamp", "body"} => heap[worker[w].held].key = k
      /\ worker[w].pc \in {"stamp", "body"} /\ live => worker[w].held = domains[k]
      /\ worker[w].pc \in {"stamp", "body"} /\ resolved => live
      /\ resolved /\ live => worker[w].since <= heap[domains[k]].lastSeen

HandledOK == \A w \in Workers : worker[w].pc # "idle" => Handled(w)

\* A device is charged for the templates its live domains hold.
ChargedOK ==
  /\ \A x \in DOMAIN perExporter : IsFiniteSet(HeldBy(x))
  /\ FieldsCharged

\* A live domain holds the layouts last announced, but for the template that a
\* call under way is about to replace or drop.
Replacing(w, k, ref) ==
  /\ worker[w].pc # "idle" /\ worker[w].key = k /\ worker[w].ref = ref
  /\ worker[w].call \in {"add", "withdraw"}

LayoutOK ==
  /\ \A k \in DOMAIN domains : \A ref \in DOMAIN heap[domains[k]].templates :
       \/ heap[domains[k]].templates[ref].size = announced[k][ref]
       \/ \E w \in Workers : Replacing(w, k, ref)
  /\ \A w \in Workers : worker[w].call \in {"add", "withdraw"} =>
       worker[w].size = announced[worker[w].key][worker[w].ref]
  /\ \A w \in Workers : worker[w].got # 0 =>
       worker[w].pc = "ready" /\ worker[w].call = "lookup"
  /\ DecodesByLastLayout

ShardedInv == HandledOK /\ ChargedOK /\ LayoutOK

-----------------------------------------------------------------------------
(* What each step does to the domains.                                     *)

\* What the invariant says of the store before and after a step.
LEMMA Here ==
  ASSUME Inv
  PROVE  /\ \A k \in DOMAIN domains : /\ k \in Domains /\ domains[k] \in DOMAIN heap
                                      /\ heap[domains[k]].key = k
                                      /\ ExporterOf[k] \in DOMAIN perExporter
                                      /\ heap[domains[k]].budget = perExporter[ExporterOf[k]]
         /\ \A x \in DOMAIN perExporter : perExporter[x] \in DOMAIN budgets
         /\ \A x, y \in DOMAIN perExporter : perExporter[x] = perExporter[y] => x = y
         /\ \A i \in DOMAIN heap : heap[i] \in DomainState /\ Charged(heap[i])
         /\ \A x \in DOMAIN perExporter : budgets[perExporter[x]].fields \in Int
         /\ \A w \in Workers : worker[w].pc \in {"stamp", "body"} => worker[w].held \in DOMAIN heap
         /\ \A w \in Workers : worker[w] \in WorkerState /\ Shape(w)
         /\ now \in Time /\ now \in Int /\ TTL \in Nat
  <1>1. ObjectsOK /\ ActorsOK /\ StoreInv
    BY InvIs
  <1>2. \A k \in DOMAIN domains : /\ k \in Domains /\ domains[k] \in DOMAIN heap
                                  /\ heap[domains[k]].key = k
                                  /\ ExporterOf[k] \in DOMAIN perExporter
                                  /\ heap[domains[k]].budget = perExporter[ExporterOf[k]]
    BY <1>1 DEF ObjectsOK, StoreInv, IndexOK, BudgetsFollowDomains
  <1>3. /\ \A x \in DOMAIN perExporter : perExporter[x] \in DOMAIN budgets
        /\ \A x, y \in DOMAIN perExporter : perExporter[x] = perExporter[y] => x = y
    BY <1>1 DEF ObjectsOK, StoreInv, IndexOK
  <1>4. \A i \in DOMAIN heap : heap[i] \in DomainState /\ Charged(heap[i])
    BY <1>1, NowStands DEF Stands
  <1>5. \A x \in DOMAIN perExporter : budgets[perExporter[x]].fields \in Int
    BY <1>1, <1>3 DEF ObjectsOK, ExporterBudget
  <1> QED
    BY <1>1, <1>2, <1>3, <1>4, <1>5, HeldIsThere, Values DEF ActorsOK

\* And after it.
LEMMA Hereafter ==
  ASSUME Inv'
  PROVE  /\ \A k \in DOMAIN domains' : /\ k \in Domains /\ domains'[k] \in DOMAIN heap'
                                       /\ heap'[domains'[k]].key = k
         /\ \A x \in DOMAIN perExporter' : perExporter'[x] \in DOMAIN budgets'
         /\ \A w \in Workers : worker'[w].pc \in {"stamp", "body"} => worker'[w].held \in DOMAIN heap'
  <1>1. /\ TypeOK' /\ HeapOK' /\ IndexOK'
    BY DEF Inv, StoreInv
  <1>2. \A w \in Workers : worker'[w].pc \in {"stamp", "body"} => worker'[w].held \in DOMAIN heap'
    <2>1. \A w \in Workers : worker'[w].held \in InHand'
      BY DEF InHand
    <2>2. \A w \in Workers : worker'[w].pc \in {"stamp", "body"} => worker'[w].held # None
      BY <1>1 DEF TypeOK, Shape
    <2> QED
      BY <1>1, <2>1, <2>2 DEF HeapOK
  <1> QED
    BY <1>1, <1>2 DEF TypeOK, IndexOK

\* No domain of the store changes, nor what a device is charged for.
Quiet ==
  /\ UNCHANGED <<domains, perExporter>>
  /\ \A i \in DOMAIN heap' : i \in DOMAIN heap /\ heap'[i] = heap[i]
  /\ \A x \in DOMAIN perExporter :
       budgets'[perExporter[x]].fields = budgets[perExporter[x]].fields

\* A domain the store has, or had, is stamped.
Stamps(i, at) ==
  /\ UNCHANGED <<domains, perExporter>>
  /\ \A j \in DOMAIN heap' :
       /\ j \in DOMAIN heap /\ heap'[j].key = heap[j].key
       /\ heap'[j].templates = heap[j].templates
       /\ j # i => heap'[j] = heap[j]
       /\ j = i => heap'[j].lastSeen = at
  /\ \A x \in DOMAIN perExporter :
       budgets'[perExporter[x]].fields = budgets[perExporter[x]].fields

\* A domain's templates are replaced, and its budget charged the difference.
Charges(i, E) ==
  /\ UNCHANGED <<domains, perExporter>>
  /\ \A j \in DOMAIN heap' :
       /\ j \in DOMAIN heap /\ heap'[j].key = heap[j].key
       /\ heap'[j].lastSeen = heap[j].lastSeen
       /\ j # i => heap'[j] = heap[j]
       /\ j = i => heap'[j] = E
  /\ \A x \in DOMAIN perExporter :
       budgets'[perExporter[x]].fields =
         IF perExporter[x] = heap[i].budget
         THEN budgets[perExporter[x]].fields + E.fields - heap[i].fields
         ELSE budgets[perExporter[x]].fields

\* What is kept is as it is given, and the budgets of the index are kept.
LEMMA KeepLeaves ==
  ASSUME NEW h, NEW b, NEW t, Keep(h, b, t)
  PROVE  /\ \A i \in DOMAIN heap' : i \in DOMAIN h /\ heap'[i] = h[i]
         /\ \A x \in DOMAIN perExporter' :
              perExporter'[x] \in DOMAIN budgets' /\ budgets'[perExporter'[x]] = b[perExporter'[x]]
  BY RestrictIs DEF Keep, Restrict, Range

\* A step that only collects what is unreachable changes no domain.
LEMMA QuietKeep ==
  ASSUME UNCHANGED <<domains, perExporter>>, Keep(heap, budgets, tables)
  PROVE  Quiet
  BY KeepLeaves DEF Quiet

\* Nor does it where nothing is touched.
LEMMA QuietStill ==
  ASSUME Inv, UNCHANGED <<indexes, heap, budgets>>
  PROVE  Quiet
  BY DEF Quiet, indexes

\* What a stamp does is Stamps.
LEMMA StampsKeep ==
  ASSUME Inv, UNCHANGED <<domains, perExporter>>, NEW i \in DOMAIN heap, NEW at \in Time,
         Keep([heap EXCEPT ![i].lastSeen = at], budgets, tables)
  PROVE  Stamps(i, at)
  <1> DEFINE h == [heap EXCEPT ![i].lastSeen = at]
  <1>1. /\ Stands(h, budgets, tables)
        /\ \A j \in DOMAIN heap \ {i} : h[j] = heap[j]
        /\ h[i].lastSeen = at /\ h[i].templates = heap[i].templates
    BY StampStands, InvIs
  <1>2. Keep(h, budgets, tables)
    OBVIOUS
  <1> HIDE DEF h
  <1>3. /\ \A j \in DOMAIN heap' : j \in DOMAIN h /\ heap'[j] = h[j]
        /\ \A x \in DOMAIN perExporter' : budgets'[perExporter'[x]] = budgets[perExporter'[x]]
    BY <1>2, KeepLeaves
  <1>4. DOMAIN h = DOMAIN heap /\ \A j \in DOMAIN heap : h[j].key = heap[j].key
    BY <1>1 DEF Stands
  <1> QED
    BY <1>1, <1>3, <1>4 DEF Stamps

\* What a charge does is Charges.
LEMMA ChargesKeep ==
  ASSUME Inv, UNCHANGED <<domains, perExporter>>, NEW i \in DOMAIN heap, NEW E \in DomainState,
         Charged(E), SameDomain(E, heap[i]), Charge(i, E)
  PROVE  Charges(i, E)
  <1> DEFINE h == [heap EXCEPT ![i] = E]
             b == [budgets EXCEPT ![E.budget].fields = @ + E.fields - heap[i].fields]
  <1>1. /\ Stands(h, b, tables)
        /\ h[i] = E /\ \A j \in DOMAIN heap \ {i} : h[j] = heap[j]
        /\ b[E.budget].fields = budgets[E.budget].fields + E.fields - heap[i].fields
        /\ \A j \in DOMAIN budgets \ {E.budget} : b[j] = budgets[j]
    BY ChargeStands, InvIs
  <1>2. Keep(h, b, tables)
    BY DEF Charge
  <1> HIDE DEF h, b
  <1>3. /\ \A j \in DOMAIN heap' : j \in DOMAIN h /\ heap'[j] = h[j]
        /\ \A x \in DOMAIN perExporter' : budgets'[perExporter'[x]] = b[perExporter'[x]]
    BY <1>2, KeepLeaves
  <1>4. DOMAIN h = DOMAIN heap /\ \A j \in DOMAIN heap : h[j].key = heap[j].key
    BY <1>1 DEF Stands
  <1>5. E.lastSeen = heap[i].lastSeen /\ E.budget = heap[i].budget
    BY DEF SameDomain
  <1>6. \A x \in DOMAIN perExporter : perExporter[x] \in DOMAIN budgets
    BY Here
  <1>7. ASSUME NEW x \in DOMAIN perExporter
        PROVE  budgets'[perExporter[x]].fields =
                 IF perExporter[x] = heap[i].budget
                 THEN budgets[perExporter[x]].fields + E.fields - heap[i].fields
                 ELSE budgets[perExporter[x]].fields
    <2>1. budgets'[perExporter[x]] = b[perExporter[x]] /\ perExporter[x] \in DOMAIN budgets
      BY <1>3, <1>6
    <2>2. CASE perExporter[x] = E.budget
      BY <1>1, <1>5, <2>1, <2>2
    <2>3. CASE perExporter[x] # E.budget
      BY <1>1, <1>5, <2>1, <2>3
    <2> QED
      BY <2>2, <2>3
  <1> QED
    BY <1>1, <1>3, <1>4, <1>5, <1>7 DEF Charges

-----------------------------------------------------------------------------
(* A domain resolved stays while its datagram is decoded.                  *)

\* Two workers at work are at work on different devices.
LEMMA Apart ==
  ASSUME Sharded, HandledOK, NEW v \in Workers, NEW w \in Workers, v # w,
         worker[v].pc # "idle", worker[w].pc # "idle"
  PROVE  worker[v].key # worker[w].key
  BY DEF Sharded, HandledOK, Handled

\* A worker's domain stands as it did if neither it nor its place in the store
\* is touched.
Stable(v) ==
  LET k == worker[v].key
  IN  /\ k \in DOMAIN domains' <=> k \in DOMAIN domains
      /\ k \in DOMAIN domains => /\ domains'[k] = domains[k]
                                 /\ heap'[domains[k]].lastSeen = heap[domains[k]].lastSeen

KeysKept == \A i \in DOMAIN heap' : i \in DOMAIN heap => heap'[i].key = heap[i].key

\* A worker that does not move, and whose domain stands, is where it was.
LEMMA HandledStays ==
  ASSUME Inv, Inv', NEW v \in Workers, worker[v].pc # "idle", Handled(v),
         worker'[v] = worker[v], Stable(v), KeysKept
  PROVE  Handled(v)'
  <1>1. worker[v].pc \in {"stamp", "body"} => heap'[worker[v].held].key = worker[v].key
    BY Here, Hereafter DEF Handled, KeysKept
  <1> QED
    BY <1>1 DEF Handled, Stable

\* A step that moves no domain of the store leaves every worker's as it was.
LEMMA QuietStable ==
  ASSUME Inv, Inv', Quiet
  PROVE  KeysKept /\ \A v \in Workers : Stable(v)
  <1>1. domains' = domains
    BY DEF Quiet
  <1>2. \A k \in DOMAIN domains : domains[k] \in DOMAIN heap'
    BY <1>1, Hereafter
  <1> QED
    BY <1>1, <1>2 DEF Quiet, KeysKept, Stable

\* Nor does one that charges a domain.
LEMMA ChargesStable ==
  ASSUME Inv, Inv', NEW i, NEW E, Charges(i, E)
  PROVE  KeysKept /\ \A v \in Workers : Stable(v)
  <1>1. domains' = domains
    BY DEF Charges
  <1>2. \A k \in DOMAIN domains : domains[k] \in DOMAIN heap'
    BY <1>1, Hereafter
  <1> QED
    BY <1>1, <1>2 DEF Charges, KeysKept, Stable

\* One worker moves, and every other's domain stands.
LEMMA HandledMoves ==
  ASSUME Inv, Inv', HandledOK, NEW w \in Workers,
         \A v \in Workers \ {w} : worker'[v] = worker[v],
         \A v \in Workers \ {w} : worker[v].pc # "idle" => Stable(v),
         KeysKept, worker'[w].pc # "idle" => Handled(w)'
  PROVE  HandledOK'
  <1> SUFFICES ASSUME NEW v \in Workers, worker'[v].pc # "idle"
               PROVE  Handled(v)'
    BY DEF HandledOK
  <1>1. CASE v = w
    BY <1>1
  <1>2. CASE v # w
    BY <1>2, HandledStays DEF HandledOK
  <1> QED
    BY <1>1, <1>2

-----------------------------------------------------------------------------
(* What a device is charged for.                                           *)

\* The fields one domain holds, and those its device's others do.
HeldIn(k) == {k} \X FieldsOf(heap[domains[k]].templates)
HeldBeside(x, k) == UNION {HeldIn(j) : j \in LiveOf(x) \ {k}}

\* A device's fields are one domain's and the other domains'.
LEMMA HeldParts ==
  ASSUME NEW x, NEW k \in LiveOf(x)
  PROVE  Parts(HeldBy(x), HeldIn(k), HeldBeside(x, k))
  <1>1. HeldBy(x) = UNION {HeldIn(j) : j \in LiveOf(x)}
    BY DEF HeldBy, HeldIn
  <1>2. HeldBy(x) = HeldIn(k) \cup HeldBeside(x, k)
    BY <1>1 DEF HeldBeside
  <1>3. \A j : j # k => HeldIn(j) \cap HeldIn(k) = {}
    BY DEF HeldIn
  <1> QED
    BY <1>2, <1>3 DEF Parts, HeldBeside

\* A domain's charge and its device's, as numbers.
LEMMA HeldCounts ==
  ASSUME Inv, ChargedOK, NEW k \in DOMAIN domains
  PROVE  LET x == ExporterOf[k]
             D == heap[domains[k]]
         IN  /\ IsFiniteSet(HeldBeside(x, k)) /\ Cardinality(HeldBeside(x, k)) \in Nat
             /\ D.fields \in Nat /\ D.budget = perExporter[x] /\ x \in DOMAIN perExporter
             /\ budgets[perExporter[x]].fields = D.fields + Cardinality(HeldBeside(x, k))
             /\ budgets[perExporter[x]].fields <= MaxFields
  <1> DEFINE x == ExporterOf[k]
             D == heap[domains[k]]
             A == HeldBy(x)
             B == HeldIn(k)
             C == HeldBeside(x, k)
  <1>1. /\ x \in DOMAIN perExporter /\ D \in DomainState /\ Charged(D)
        /\ D.budget = perExporter[x]
    BY Here
  <1>2. IsFiniteSet(FieldsOf(D.templates)) /\ D.fields = Cardinality(FieldsOf(D.templates))
    BY <1>1 DEF Charged
  <1>3. IsFiniteSet(B) /\ Cardinality(B) = D.fields /\ D.fields \in Nat
    <2> DEFINE F == FieldsOf(D.templates)
    <2>1. B = {k} \X F
      BY DEF HeldIn
    <2> HIDE DEF B, F
    <2>2. IsFiniteSet(F)
      BY <1>2 DEF F
    <2>3. IsFiniteSet({k} \X F) /\ Cardinality({k} \X F) = Cardinality(F) /\ Cardinality(F) \in Nat
      BY <2>2, Labelled, FS_CardinalityType
    <2> QED
      BY <1>2, <2>1, <2>3 DEF F
  <1>4. IsFiniteSet(A) /\ budgets[perExporter[x]].fields = Cardinality(A) /\ Cardinality(A) <= MaxFields
    BY <1>1 DEF ChargedOK, FieldsCharged
  <1>5. Parts(A, B, C)
    BY HeldParts DEF LiveOf
  <1> HIDE DEF A, B, C
  <1>6. IsFiniteSet(C) /\ Cardinality(A) = Cardinality(B) + Cardinality(C) /\ Cardinality(C) \in Nat
    BY <1>4, <1>5, TwoParts
  <1> QED
    BY <1>1, <1>3, <1>4, <1>6 DEF C

\* Where no template changes, the charges stand.
LEMMA ChargedStays ==
  ASSUME Inv, Inv', ChargedOK, UNCHANGED <<domains, perExporter>>,
         \A k \in DOMAIN domains : heap'[domains[k]].templates = heap[domains[k]].templates,
         \A x \in DOMAIN perExporter :
           budgets'[perExporter[x]].fields = budgets[perExporter[x]].fields
  PROVE  ChargedOK'
  <1>1. \A x : LiveOf(x)' = LiveOf(x) /\ LiveOf(x) \subseteq DOMAIN domains
    BY DEF LiveOf
  <1>2. \A x : HeldBy(x)' = HeldBy(x)
    BY <1>1 DEF HeldBy
  <1> QED
    BY <1>2 DEF ChargedOK, FieldsCharged

\* The device of the domain whose templates are replaced is charged the
\* difference, and no other device anything.
LEMMA ChargedMoves ==
  ASSUME Inv, Inv', ChargedOK, NEW k \in DOMAIN domains, NEW E \in DomainState, Charged(E),
         Charges(domains[k], E),
         \/ E.fields <= heap[domains[k]].fields
         \/ budgets[perExporter[ExporterOf[k]]].fields + E.fields - heap[domains[k]].fields
              <= MaxFields
  PROVE  ChargedOK'
  <1> DEFINE x == ExporterOf[k]
             D == heap[domains[k]]
             beside == HeldBeside(x, k)
             F == FieldsOf(E.templates)
  <1>1. /\ IsFiniteSet(beside) /\ Cardinality(beside) \in Nat
        /\ D.fields \in Nat /\ D.budget = perExporter[x] /\ x \in DOMAIN perExporter
        /\ budgets[perExporter[x]].fields = D.fields + Cardinality(beside)
        /\ budgets[perExporter[x]].fields <= MaxFields
    BY HeldCounts
  <1>2. domains' = domains /\ perExporter' = perExporter
    BY DEF Charges
  <1>3. \A j \in DOMAIN domains : /\ heap'[domains[j]].templates =
                                       IF j = k THEN E.templates ELSE heap[domains[j]].templates
    <2> SUFFICES ASSUME NEW j \in DOMAIN domains
                 PROVE  heap'[domains[j]].templates =
                          IF j = k THEN E.templates ELSE heap[domains[j]].templates
      OBVIOUS
    <2>1. domains[j] \in DOMAIN heap' /\ (j # k => domains[j] # domains[k])
      BY <1>2, Here, Hereafter
    <2> QED
      BY <2>1 DEF Charges
  <1>4. \A y : LiveOf(y)' = LiveOf(y) /\ LiveOf(y) \subseteq DOMAIN domains
    BY <1>2 DEF LiveOf
  <1>5. \A y : y # x => HeldBy(y)' = HeldBy(y)
    <2> SUFFICES ASSUME NEW y, y # x
                 PROVE  HeldBy(y)' = HeldBy(y)
      OBVIOUS
    <2>1. \A j \in LiveOf(y) : /\ domains'[j] = domains[j]
                               /\ heap'[domains[j]].templates = heap[domains[j]].templates
      BY <1>2, <1>3 DEF LiveOf
    <2> QED
      BY <1>4, <2>1 DEF HeldBy
  <1>6. HeldBeside(x, k)' = beside /\ HeldIn(k)' = {k} \X F
    <2>1. \A j \in LiveOf(x) \ {k} : HeldIn(j)' = HeldIn(j)
      BY <1>2, <1>3, <1>4 DEF HeldIn
    <2>2. HeldBeside(x, k)' = UNION {HeldIn(j)' : j \in LiveOf(x) \ {k}}
      BY <1>4 DEF HeldBeside
    <2>3. HeldBeside(x, k)' = beside
      BY <2>1, <2>2 DEF HeldBeside
    <2> QED
      BY <1>2, <1>3, <2>3 DEF HeldIn
  <1>7. Parts(HeldBy(x)', {k} \X F, beside)
    <2>1. k \in LiveOf(x)
      BY DEF LiveOf
    <2>2. HeldBy(x)' = UNION {HeldIn(j)' : j \in LiveOf(x)}
      BY <1>4 DEF HeldBy, HeldIn
    <2>3. HeldBeside(x, k)' = UNION {HeldIn(j)' : j \in LiveOf(x) \ {k}}
      BY <1>4 DEF HeldBeside
    <2>4. HeldBy(x)' = HeldIn(k)' \cup HeldBeside(x, k)'
      BY <2>1, <2>2, <2>3
    <2>5. \A j : j # k => HeldIn(j)' \cap HeldIn(k)' = {}
      BY DEF HeldIn
    <2>6. HeldIn(k)' \cap HeldBeside(x, k)' = {}
      BY <2>3, <2>5
    <2> QED
      BY <1>6, <2>4, <2>6 DEF Parts
  <1>8. IsFiniteSet({k} \X F) /\ Cardinality({k} \X F) = E.fields /\ E.fields \in Nat
    <2>1. IsFiniteSet(F) /\ E.fields = Cardinality(F)
      BY DEF Charged
    <2> HIDE DEF F
    <2>2. Cardinality(F) \in Nat
      BY <2>1, FS_CardinalityType
    <2> QED
      BY <2>1, <2>2, Labelled
  <1> HIDE DEF F, beside
  <1>9. IsFiniteSet(HeldBy(x)') /\ Cardinality(HeldBy(x)') = E.fields + Cardinality(beside)
    <2> DEFINE A == HeldBy(x)'
               B == {k} \X F
    <2>1. Parts(A, B, beside) /\ IsFiniteSet(B) /\ Cardinality(B) = E.fields
      BY <1>7, <1>8
    <2> HIDE DEF A, B
    <2>2. IsFiniteSet(A) /\ Cardinality(A) = E.fields + Cardinality(beside)
      BY <1>1, <2>1, TwoParts
    <2> QED
      BY <2>2 DEF A
  <1>10. /\ budgets'[perExporter[x]].fields = Cardinality(HeldBy(x)')
         /\ Cardinality(HeldBy(x)') <= MaxFields
    <2>1. budgets'[perExporter[x]].fields = budgets[perExporter[x]].fields + E.fields - D.fields
      BY <1>1 DEF Charges
    <2>2. MaxFields \in Nat
      BY StoreAssumption
    <2> HIDE DEF x, D
    <2>3. budgets'[perExporter[x]].fields = E.fields + Cardinality(beside)
      BY <1>1, <1>8, <2>1
    <2>4. \/ E.fields <= D.fields
          \/ budgets[perExporter[x]].fields + E.fields - D.fields <= MaxFields
      BY DEF x, D
    <2>5. E.fields + Cardinality(beside) <= MaxFields
      BY <1>1, <1>8, <2>2, <2>4
    <2> QED
      BY <1>9, <2>3, <2>5
  <1>11. ASSUME NEW y \in DOMAIN perExporter', y # x
         PROVE  /\ IsFiniteSet(HeldBy(y)')
                /\ budgets'[perExporter'[y]].fields = Cardinality(HeldBy(y)')
                /\ Cardinality(HeldBy(y)') <= MaxFields
    <2>1. y \in DOMAIN perExporter /\ perExporter[y] # perExporter[x]
      BY <1>1, <1>2, <1>11, Here
    <2>2. budgets'[perExporter[y]].fields = budgets[perExporter[y]].fields
      BY <1>1, <2>1 DEF Charges
    <2>3. /\ IsFiniteSet(HeldBy(y)) /\ budgets[perExporter[y]].fields = Cardinality(HeldBy(y))
          /\ Cardinality(HeldBy(y)) <= MaxFields
      BY <2>1 DEF ChargedOK, FieldsCharged
    <2>4. HeldBy(y)' = HeldBy(y) /\ perExporter'[y] = perExporter[y]
      BY <1>2, <1>5, <1>11
    <2> QED
      BY <2>2, <2>3, <2>4
  <1>12. ASSUME NEW y \in DOMAIN perExporter'
         PROVE  /\ IsFiniteSet(HeldBy(y)')
                /\ budgets'[perExporter'[y]].fields = Cardinality(HeldBy(y)')
                /\ Cardinality(HeldBy(y)') <= MaxFields
    <2>1. CASE y = x
      BY <1>2, <1>9, <1>10, <2>1
    <2> QED
      BY <1>11, <2>1
  <1> QED
    BY <1>12 DEF ChargedOK, FieldsCharged

\* A domain that leaves takes its charge with it.
LEMMA ChargedLeaves ==
  ASSUME Inv, Inv', ChargedOK, NEW k \in DOMAIN domains, Leaves(k)
  PROVE  ChargedOK'
  <1> DEFINE x == ExporterOf[k]
             beside == HeldBeside(x, k)
  <1>1. /\ IsFiniteSet(beside) /\ Cardinality(beside) \in Nat
        /\ heap[domains[k]].fields \in Nat /\ x \in DOMAIN perExporter
        /\ budgets[perExporter[x]].fields = heap[domains[k]].fields + Cardinality(beside)
        /\ budgets[perExporter[x]].fields <= MaxFields
    BY HeldCounts
  <1>2. /\ DOMAIN domains' = DOMAIN domains \ {k}
        /\ \A j \in DOMAIN domains' : domains'[j] = domains[j]
    BY RestrictIs DEF Leaves, Without
  <1>3. \A j \in DOMAIN domains' : heap'[domains[j]] = heap[domains[j]]
    BY <1>2, Hereafter DEF Leaves
  <1>4. /\ DOMAIN perExporter' \subseteq DOMAIN perExporter
        /\ \A y \in DOMAIN perExporter' :
             perExporter'[y] = perExporter[y] /\ perExporter[y] \in DOMAIN budgets'
    <2>1. perExporter' = perExporter \/ perExporter' = Without(perExporter, x)
      BY DEF Leaves
    <2> QED
      BY <2>1, RestrictIs, Hereafter DEF Without
  <1>5. LiveOf(x)' = LiveOf(x) \ {k} /\ \A y : y # x => LiveOf(y)' = LiveOf(y)
    BY DEF Leaves
  <1>6. \A y : LiveOf(y)' \subseteq DOMAIN domains'
    BY DEF LiveOf
  <1>7. \A j \in DOMAIN domains' : HeldIn(j)' = HeldIn(j)
    BY <1>2, <1>3 DEF HeldIn
  <1>8. \A y : HeldBy(y)' = UNION {HeldIn(j) : j \in LiveOf(y)'}
    <2>1. \A y : HeldBy(y)' = UNION {HeldIn(j)' : j \in LiveOf(y)'}
      BY DEF HeldBy, HeldIn
    <2> QED
      BY <1>6, <1>7, <2>1
  <1>9. HeldBy(x)' = beside
    BY <1>5, <1>8 DEF HeldBeside
  <1>10. \A y : y # x => HeldBy(y)' = HeldBy(y)
    BY <1>5, <1>8 DEF HeldBy, HeldIn
  <1>11. ASSUME NEW y \in DOMAIN perExporter'
         PROVE  /\ IsFiniteSet(HeldBy(y)')
                /\ budgets'[perExporter'[y]].fields = Cardinality(HeldBy(y)')
                /\ Cardinality(HeldBy(y)') <= MaxFields
    <2>1. CASE y = x
      <3>1. budgets'[perExporter[x]].fields = budgets[perExporter[x]].fields - heap[domains[k]].fields
        BY <1>4, <2>1 DEF Leaves
      <3>2. budgets'[perExporter'[y]] = budgets'[perExporter[x]]
        BY <1>4, <2>1
      <3>3. MaxFields \in Nat
        BY StoreAssumption
      <3> HIDE DEF beside, x
      <3>4. /\ budgets'[perExporter[x]].fields = Cardinality(beside)
            /\ Cardinality(beside) <= MaxFields
        BY <1>1, <3>1, <3>3
      <3> QED
        BY <1>1, <1>9, <2>1, <3>2, <3>4
    <2>2. CASE y # x
      <3>1. y \in DOMAIN perExporter /\ perExporter[y] # perExporter[x]
        BY <1>1, <1>4, <2>2, Here
      <3>2. budgets'[perExporter'[y]] = budgets[perExporter[y]]
        BY <1>4, <3>1 DEF Leaves
      <3>3. /\ IsFiniteSet(HeldBy(y)) /\ budgets[perExporter[y]].fields = Cardinality(HeldBy(y))
            /\ Cardinality(HeldBy(y)) <= MaxFields
        BY <3>1 DEF ChargedOK, FieldsCharged
      <3> QED
        BY <1>10, <2>2, <3>2, <3>3
    <2> QED
      BY <2>1, <2>2
  <1> QED
    BY <1>11 DEF ChargedOK, FieldsCharged

\* A domain that opens is charged nothing.
LEMMA ChargedOpens ==
  ASSUME Inv, Inv', ChargedOK, NEW w, NEW k \in Domains, NEW i, Opens(w, k, i)
  PROVE  ChargedOK'
  <1> DEFINE x == ExporterOf[k]
  <1>1. /\ DOMAIN domains' = DOMAIN domains \cup {k} /\ domains'[k] = i /\ k \notin DOMAIN domains
        /\ \A j \in DOMAIN domains : domains'[j] = domains[j]
    BY DEF Opens, Put
  <1>2. \A j \in DOMAIN domains : heap'[domains[j]] = heap[domains[j]]
    <2>1. \A j \in DOMAIN domains : domains[j] \in DOMAIN heap /\ domains[j] \in DOMAIN heap'
      BY <1>1, Here, Hereafter
    <2> QED
      BY <2>1 DEF Opens
  <1>3. FieldsOf(heap'[domains'[k]].templates) = {}
    BY <1>1 DEF Opens, FieldsOf
  <1>4. \A y : LiveOf(y)' \in {LiveOf(y), LiveOf(y) \cup {k}}
    BY <1>1 DEF LiveOf
  <1>5. HeldIn(k)' = {}
    BY <1>3 DEF HeldIn
  <1>6. \A j \in DOMAIN domains : HeldIn(j)' = HeldIn(j)
    BY <1>1, <1>2 DEF HeldIn
  <1>7. \A y : HeldBy(y)' = HeldBy(y)
    <2> SUFFICES ASSUME NEW y
                 PROVE  HeldBy(y)' = HeldBy(y)
      OBVIOUS
    <2>1. HeldBy(y)' = UNION {HeldIn(j)' : j \in LiveOf(y)'}
      BY DEF HeldBy, HeldIn
    <2>2. HeldBy(y) = UNION {HeldIn(j) : j \in LiveOf(y)}
      BY DEF HeldBy, HeldIn
    <2>3. LiveOf(y) \subseteq DOMAIN domains
      BY DEF LiveOf
    <2> QED
      BY <1>4, <1>5, <1>6, <2>1, <2>2, <2>3
  <1>8. ASSUME NEW y \in DOMAIN perExporter'
        PROVE  /\ IsFiniteSet(HeldBy(y)') /\ Cardinality(HeldBy(y)') <= MaxFields
               /\ budgets'[perExporter'[y]].fields = Cardinality(HeldBy(y)')
    <2>0. perExporter'[y] \in DOMAIN budgets'
      BY Hereafter
    <2>1. CASE y \in DOMAIN perExporter
      <3>1. /\ IsFiniteSet(HeldBy(y)) /\ budgets[perExporter[y]].fields = Cardinality(HeldBy(y))
            /\ Cardinality(HeldBy(y)) <= MaxFields
        BY <2>1 DEF ChargedOK, FieldsCharged
      <3>2. perExporter'[y] = perExporter[y] /\ perExporter[y] \in DOMAIN budgets
        BY <2>1, Here DEF Opens
      <3>3. budgets'[perExporter[y]].fields = budgets[perExporter[y]].fields
        <4>1. x \notin DOMAIN perExporter => perExporter'[x] # perExporter[y]
          BY <3>2 DEF Opens
        <4> QED
          BY <2>0, <3>2, <4>1 DEF Opens
      <3> QED
        BY <1>7, <3>1, <3>2, <3>3
    <2>2. CASE y \notin DOMAIN perExporter
      <3>1. y = x
        BY <2>2 DEF Opens
      <3>2. budgets'[perExporter'[y]].fields = 0
        BY <2>0, <2>2, <3>1 DEF Opens
      <3>3. LiveOf(y) = {}
        BY <2>2, LiveIs, InvIs DEF StoreInv
      <3>4. HeldBy(y) = {}
        BY <3>3 DEF HeldBy
      <3>5. MaxFields \in Nat
        BY StoreAssumption
      <3>6. IsFiniteSet(HeldBy(y)') /\ Cardinality(HeldBy(y)') = 0
        BY <1>7, <3>4, FS_EmptySet
      <3> QED
        BY <3>2, <3>5, <3>6
    <2> QED
      BY <2>1, <2>2
  <1> QED
    BY <1>8 DEF ChargedOK, FieldsCharged

-----------------------------------------------------------------------------
(* The layouts held are those last announced.                              *)

\* Every template a live domain holds it held before, no other layout.
Inherits ==
  \A k \in DOMAIN domains' : \A ref \in DOMAIN heap'[domains'[k]].templates :
    /\ k \in DOMAIN domains /\ ref \in DOMAIN heap[domains[k]].templates
    /\ heap'[domains'[k]].templates[ref].size = heap[domains[k]].templates[ref].size

\* Where no domain changes, every layout is one that was there.
LEMMA QuietInherits ==
  ASSUME Inv', Quiet
  PROVE  Inherits
  BY Hereafter DEF Quiet, Inherits

\* So it is where one is stamped,
LEMMA StampsInherit ==
  ASSUME Inv', NEW i, NEW at, Stamps(i, at)
  PROVE  Inherits
  BY Hereafter DEF Stamps, Inherits

\* where one leaves,
LEMMA LeavesInherit ==
  ASSUME Inv', NEW k, Leaves(k)
  PROVE  Inherits
  <1>1. /\ DOMAIN domains' = DOMAIN domains \ {k}
        /\ \A j \in DOMAIN domains' : domains'[j] = domains[j]
    BY RestrictIs DEF Leaves, Without
  <1> QED
    BY <1>1, Hereafter DEF Leaves, Inherits

\* where one opens, empty,
LEMMA OpensInherit ==
  ASSUME Inv, Inv', NEW w, NEW k \in Domains, NEW i, Opens(w, k, i)
  PROVE  Inherits
  <1>1. /\ DOMAIN domains' = DOMAIN domains \cup {k} /\ domains'[k] = i /\ k \notin DOMAIN domains
        /\ \A j \in DOMAIN domains : domains'[j] = domains[j]
    BY DEF Opens, Put
  <1>2. \A j \in DOMAIN domains : heap'[domains'[j]] = heap[domains[j]]
    <2>1. \A j \in DOMAIN domains : domains[j] \in DOMAIN heap /\ domains[j] \in DOMAIN heap'
      BY <1>1, Here, Hereafter
    <2> QED
      BY <1>1, <2>1 DEF Opens
  <1>3. DOMAIN heap'[domains'[k]].templates = {}
    BY <1>1 DEF Opens
  <1> QED
    BY <1>1, <1>2, <1>3 DEF Inherits

\* and where one keeps some of its templates.
LEMMA ChargesInherit ==
  ASSUME Inv, Inv', NEW i \in DOMAIN heap, NEW E, Charges(i, E),
         \A ref \in DOMAIN E.templates :
           ref \in DOMAIN heap[i].templates /\ E.templates[ref].size = heap[i].templates[ref].size
  PROVE  Inherits
  <1> SUFFICES ASSUME NEW k \in DOMAIN domains', NEW ref \in DOMAIN heap'[domains'[k]].templates
               PROVE  /\ k \in DOMAIN domains /\ ref \in DOMAIN heap[domains[k]].templates
                      /\ heap'[domains'[k]].templates[ref].size = heap[domains[k]].templates[ref].size
    BY DEF Inherits
  <1>1. domains' = domains /\ domains[k] \in DOMAIN heap'
    BY Hereafter DEF Charges
  <1> QED
    BY <1>1 DEF Charges

\* Where the workers stay as they are.
LEMMA LayoutStill ==
  ASSUME LayoutOK, UNCHANGED <<worker, announced>>, Inherits
  PROVE  LayoutOK'
  <1>1. \A v \in Workers, k \in Domains \cup DOMAIN domains' : \A ref :
          Replacing(v, k, ref) => Replacing(v, k, ref)'
    BY DEF Replacing
  <1>2. \A k \in DOMAIN domains' : \A ref \in DOMAIN heap'[domains'[k]].templates :
          \/ heap'[domains'[k]].templates[ref].size = announced'[k][ref]
          \/ \E w \in Workers : Replacing(w, k, ref)'
    BY <1>1 DEF LayoutOK, Inherits
  <1> QED
    BY <1>2 DEF LayoutOK, DecodesByLastLayout

\* Where one moves, and a template it was replacing is replaced, dropped, or
\* still to be replaced.
LEMMA LayoutKeeps ==
  ASSUME LayoutOK, NEW w \in Workers, \A v \in Workers \ {w} : worker'[v] = worker[v],
         UNCHANGED announced,
         \A k \in DOMAIN domains' : \A ref \in DOMAIN heap'[domains'[k]].templates :
           \/ heap'[domains'[k]].templates[ref].size = announced[k][ref]
           \/ /\ k \in DOMAIN domains /\ ref \in DOMAIN heap[domains[k]].templates
              /\ heap'[domains'[k]].templates[ref].size = heap[domains[k]].templates[ref].size
              /\ Replacing(w, k, ref) => Replacing(w, k, ref)',
         worker'[w].call \in {"add", "withdraw"} =>
           worker'[w].size = announced[worker'[w].key][worker'[w].ref],
         worker'[w].got # 0 =>
           /\ worker'[w].pc = "ready" /\ worker'[w].call = "lookup"
           /\ worker'[w].got = announced[worker'[w].key][worker'[w].ref]
  PROVE  LayoutOK'
  <1>1. \A v \in Workers \ {w} : \A k, ref : Replacing(v, k, ref) => Replacing(v, k, ref)'
    BY DEF Replacing
  <1>2. ASSUME NEW k \in DOMAIN domains', NEW ref \in DOMAIN heap'[domains'[k]].templates
        PROVE  \/ heap'[domains'[k]].templates[ref].size = announced'[k][ref]
               \/ \E v \in Workers : Replacing(v, k, ref)'
    <2>1. CASE heap'[domains'[k]].templates[ref].size = announced[k][ref]
      BY <2>1
    <2>2. CASE /\ k \in DOMAIN domains /\ ref \in DOMAIN heap[domains[k]].templates
               /\ heap'[domains'[k]].templates[ref].size = heap[domains[k]].templates[ref].size
               /\ Replacing(w, k, ref) => Replacing(w, k, ref)'
      <3>1. \/ heap[domains[k]].templates[ref].size = announced[k][ref]
            \/ \E v \in Workers : Replacing(v, k, ref)
        BY <2>2 DEF LayoutOK
      <3> QED
        BY <1>1, <2>2, <3>1
    <2> QED
      BY <2>1, <2>2
  <1>3. \A v \in Workers : worker'[v].call \in {"add", "withdraw"} =>
          worker'[v].size = announced'[worker'[v].key][worker'[v].ref]
    BY DEF LayoutOK
  <1>4. \A v \in Workers : worker'[v].got # 0 =>
          /\ worker'[v].pc = "ready" /\ worker'[v].call = "lookup"
          /\ worker'[v].got = announced'[worker'[v].key][worker'[v].ref]
    BY DEF LayoutOK, DecodesByLastLayout
  <1> QED
    BY <1>2, <1>3, <1>4 DEF LayoutOK, DecodesByLastLayout

\* Where it is in no call that replaces anything, before or after.
LEMMA LayoutReads ==
  ASSUME LayoutOK, NEW w \in Workers, \A v \in Workers \ {w} : worker'[v] = worker[v],
         UNCHANGED announced, Inherits, worker'[w].call \notin {"add", "withdraw"},
         \/ worker[w].call \notin {"add", "withdraw"}
         \/ \A k \in DOMAIN domains' : \A ref \in DOMAIN heap'[domains'[k]].templates :
              worker[w].key = k => worker[w].ref # ref,
         worker'[w].got # 0 =>
           /\ worker'[w].pc = "ready" /\ worker'[w].call = "lookup"
           /\ worker'[w].got = announced[worker'[w].key][worker'[w].ref]
  PROVE  LayoutOK'
  <1>1. \A k \in DOMAIN domains' : \A ref \in DOMAIN heap'[domains'[k]].templates :
          ~Replacing(w, k, ref)
    BY DEF Replacing
  <1> QED
    BY <1>1, LayoutKeeps DEF Inherits

\* Where it stays in its call.
LEMMA LayoutCalls ==
  ASSUME LayoutOK, NEW w \in Workers, \A v \in Workers \ {w} : worker'[v] = worker[v],
         UNCHANGED announced, Inherits, SameCall(w), worker'[w].call = worker[w].call,
         worker'[w].key = worker[w].key, worker[w].pc # "ready", worker'[w].pc # "idle"
  PROVE  LayoutOK'
  <1>1. \A k, ref : Replacing(w, k, ref) => Replacing(w, k, ref)'
    BY DEF Replacing, SameCall
  <1>2. worker'[w].got = 0
    BY DEF SameCall, LayoutOK
  <1> QED
    BY <1>1, <1>2, LayoutKeeps DEF Inherits, SameCall, LayoutOK

-----------------------------------------------------------------------------
(* Every step keeps the invariant.                                         *)

\* What changes no domain changes no charge.
LEMMA QuietCharged ==
  ASSUME Inv, Inv', ChargedOK, Quiet
  PROVE  ChargedOK'
  <1>1. domains' = domains /\ perExporter' = perExporter
    BY DEF Quiet
  <1>2. \A k \in DOMAIN domains : heap'[domains[k]].templates = heap[domains[k]].templates
    BY <1>1, Hereafter DEF Quiet
  <1> QED
    BY <1>1, <1>2, ChargedStays DEF Quiet

\* The clock, the sweep and a sampler declared leave the domains as they were.
LEMMA StillSharded ==
  ASSUME Inv, Inv', ShardedInv, Quiet, UNCHANGED <<worker, announced>>
  PROVE  ShardedInv'
  <1>1. HandledOK'
    BY QuietStable, HandledStays DEF ShardedInv, HandledOK
  <1>2. ChargedOK'
    BY QuietCharged DEF ShardedInv
  <1>3. LayoutOK'
    BY QuietInherits, LayoutStill DEF ShardedInv
  <1> QED
    BY <1>1, <1>2, <1>3 DEF ShardedInv

\* Receive keeps the invariant: the datagram is of a device the worker is fed.
LEMMA ReceiveSharded ==
  ASSUME Inv, Inv', ShardedInv, NEW w \in Workers, NEW k \in Domains, Receive(w, k)
  PROVE  ShardedInv'
  <1>1. /\ Others(w)
        /\ worker'[w].pc = "find" /\ worker'[w].call = "datagram" /\ worker'[w].key = k
        /\ worker'[w].got = worker[w].got
    BY ReceiveTurns DEF Inv
  <1>2. \A v \in Workers \ {w} : worker'[v] = worker[v]
    BY <1>1 DEF Others
  <1>3. Quiet /\ UNCHANGED announced /\ worker[w].pc = "idle" /\ worker[w].call = "datagram"
    <2>1. UNCHANGED <<indexes, heap, budgets>> /\ UNCHANGED announced /\ worker[w].pc = "idle"
      BY DEF Receive, objects
    <2>2. Shape(w)
      BY Here
    <2> QED
      BY <2>1, <2>2, QuietStill DEF Shape
  <1>4. HandledOK'
    <2>1. Handled(w)'
      BY <1>1 DEF Receive, Handled
    <2> QED
      BY <1>2, <1>3, <2>1, QuietStable, HandledMoves DEF ShardedInv
  <1>5. LayoutOK'
    <2>1. worker'[w].got = 0
      BY <1>1, <1>3 DEF ShardedInv, LayoutOK
    <2> QED
      BY <1>1, <1>2, <1>3, <2>1, QuietInherits, LayoutReads DEF ShardedInv
  <1> QED
    BY <1>3, <1>4, <1>5, QuietCharged DEF ShardedInv

\* A call keeps it: what it announces, it is about to store or drop.
LEMMA CallSharded ==
  ASSUME Sharded, Inv, Inv', ShardedInv, NEW w \in Workers,
         NEW call \in {"add", "lookup", "withdraw"}, NEW ref \in Refs,
         NEW size \in FieldCounts \cup {0}, Call(w, call, ref, size),
         announced' = IF call = "lookup" THEN announced
                      ELSE [announced EXCEPT ![worker[w].key][ref] = size]
  PROVE  ShardedInv'
  <1>0. PICK k \in Domains : k = worker[w].key
    BY Here DEF Call, Shape
  <1>1. /\ Turns(w, "find", call, worker[w].d, None)
        /\ worker'[w].ref = ref /\ worker'[w].size = size /\ worker'[w].got = 0
    BY CallTurns DEF Inv, Calls
  <1>2. \A v \in Workers \ {w} : worker'[v] = worker[v]
    BY <1>1 DEF Turns, Others
  <1>3. /\ Quiet /\ worker[w].pc = "ready" /\ worker[w].call \notin {"add", "withdraw"}
        /\ domains' = domains
    <2>1. UNCHANGED <<indexes, heap, budgets>> /\ worker[w].pc = "ready"
      BY DEF Call, objects
    <2>2. Shape(w)
      BY Here
    <2> QED
      BY <2>1, <2>2, QuietStill DEF Shape, indexes
  <1>4. HandledOK'
    <2>1. Handled(w)'
      <3>1. Handled(w) /\ Stable(w)
        BY <1>3, QuietStable DEF ShardedInv, HandledOK
      <3>2. /\ worker'[w].pc = "find" /\ worker'[w].key = worker[w].key
            /\ worker'[w].since = worker[w].since
        BY <1>1 DEF Turns
      <3> QED
        BY <1>3, <3>1, <3>2 DEF Handled, Stable
    <2> QED
      BY <1>2, <1>3, <2>1, QuietStable, HandledMoves DEF ShardedInv
  <1>5. \A j \in Domains, r \in Refs : j # k \/ r # ref => announced'[j][r] = announced[j][r]
    <2>1. announced \in [Domains -> [Refs -> FieldCounts \cup {0}]]
      BY InvIs DEF ActorsOK
    <2> QED
      BY <1>0, <2>1
  <1>6. call # "lookup" => announced'[k][ref] = size
    <2>1. announced \in [Domains -> [Refs -> FieldCounts \cup {0}]]
      BY InvIs DEF ActorsOK
    <2> QED
      BY <1>0, <2>1
  <1>7. \A v \in Workers \ {w} : worker[v].pc # "idle" => worker[v].key \in Domains /\ worker[v].key # k
    BY <1>0, <1>3, Apart, Here DEF ShardedInv, Shape
  <1>8. ASSUME NEW j \in DOMAIN domains', NEW r \in DOMAIN heap'[domains'[j]].templates
        PROVE  \/ heap'[domains'[j]].templates[r].size = announced'[j][r]
               \/ \E v \in Workers : Replacing(v, j, r)'
    <2>1. /\ domains[j] \in DOMAIN heap /\ j \in Domains /\ heap'[domains'[j]] = heap[domains[j]]
      BY <1>3, Here, Hereafter DEF Quiet
    <2>2. r \in Refs
      <3>1. PICK D \in DomainState : D = heap[domains[j]]
        BY <2>1, Here
      <3> QED
        BY <2>1, <3>1, DomainIs
    <2>3. \/ heap[domains[j]].templates[r].size = announced[j][r]
          \/ \E v \in Workers : Replacing(v, j, r)
      BY <1>3, <2>1 DEF ShardedInv, LayoutOK
    <2>4. CASE call # "lookup" /\ j = k /\ r = ref
      BY <1>0, <1>1, <2>4 DEF Replacing, Turns
    <2>5. CASE call = "lookup" \/ j # k \/ r # ref
      <3>1. announced'[j][r] = announced[j][r]
        BY <1>5, <2>1, <2>2, <2>5
      <3>2. \A v \in Workers : Replacing(v, j, r) => Replacing(v, j, r)'
        BY <1>2, <1>3 DEF Replacing
      <3> QED
        BY <2>1, <2>3, <3>1, <3>2
    <2> QED
      BY <2>4, <2>5
  <1>9. ASSUME NEW v \in Workers, worker'[v].call \in {"add", "withdraw"}
        PROVE  worker'[v].size = announced'[worker'[v].key][worker'[v].ref]
    <2>1. CASE v = w
      BY <1>0, <1>1, <1>6, <1>9, <2>1 DEF Turns
    <2>2. CASE v # w
      <3>1. worker'[v] = worker[v] /\ worker[v].call \in {"add", "withdraw"}
        BY <1>2, <1>9, <2>2
      <3>2. worker[v].pc # "idle" /\ worker[v].ref \in Refs
        BY <3>1, Here DEF Shape
      <3>3. announced'[worker[v].key][worker[v].ref] = announced[worker[v].key][worker[v].ref]
        BY <1>5, <1>7, <2>2, <3>2
      <3> QED
        BY <3>1, <3>3 DEF ShardedInv, LayoutOK
    <2> QED
      BY <2>1, <2>2
  <1>10. ASSUME NEW v \in Workers, worker'[v].got # 0
         PROVE  /\ worker'[v].pc = "ready" /\ worker'[v].call = "lookup"
                /\ worker'[v].got = announced'[worker'[v].key][worker'[v].ref]
    <2>1. v # w /\ worker'[v] = worker[v]
      BY <1>1, <1>2, <1>10
    <2>2. /\ worker[v].pc = "ready" /\ worker[v].call = "lookup" /\ worker[v].ref \in Refs
          /\ worker[v].got = announced[worker[v].key][worker[v].ref]
      BY <1>10, <2>1, Here DEF ShardedInv, LayoutOK, DecodesByLastLayout, Shape
    <2>3. announced'[worker[v].key][worker[v].ref] = announced[worker[v].key][worker[v].ref]
      BY <1>5, <1>7, <2>1, <2>2
    <2> QED
      BY <2>1, <2>2, <2>3
  <1>11. LayoutOK'
    BY <1>8, <1>9, <1>10 DEF LayoutOK, DecodesByLastLayout
  <1> QED
    BY <1>3, <1>4, <1>11, QuietCharged DEF ShardedInv

\* Find keeps it: the domain held is the live one of its key.
LEMMA FindSharded ==
  ASSUME Inv, Inv', ShardedInv, NEW w \in Workers, Find(w)
  PROVE  ShardedInv'
  <1>1. /\ Quiet /\ UNCHANGED announced /\ worker[w].pc = "find" /\ domains' = domains
        /\ worker[w].got = 0 /\ TypeOK /\ Handled(w)
    <2>1. UNCHANGED <<indexes, heap, budgets>> /\ UNCHANGED announced /\ worker[w].pc = "find"
      BY DEF Find, objects
    <2>2. worker[w].got = 0 /\ Handled(w)
      BY <2>1 DEF ShardedInv, HandledOK, LayoutOK
    <2> QED
      BY <2>1, <2>2, QuietStill DEF Inv, indexes
  <1>2. KeysKept /\ \A v \in Workers : Stable(v)
    BY <1>1, QuietStable
  <1>3. Inherits
    BY <1>1, QuietInherits
  <1>4. CASE /\ worker[w].key \in DOMAIN domains
             /\ \E pc \in {"stamp", "body"} :
                  Turns(w, pc, worker[w].call, worker[w].d, domains[worker[w].key])
             /\ SameCall(w)
    <2>1. PICK pc \in {"stamp", "body"} :
            Turns(w, pc, worker[w].call, worker[w].d, domains[worker[w].key])
      BY <1>4
    <2>2. \A v \in Workers \ {w} : worker'[v] = worker[v]
      BY <2>1 DEF Turns, Others
    <2>3. Handled(w)'
      <3>1. heap'[domains[worker[w].key]].key = worker[w].key
        BY <1>1, <1>4, Hereafter
      <3> QED
        BY <1>1, <1>2, <1>4, <2>1, <3>1 DEF Handled, Turns, Stable
    <2>4. HandledOK'
      BY <1>2, <2>2, <2>3, HandledMoves DEF ShardedInv
    <2>5. LayoutOK'
      BY <1>1, <1>3, <1>4, <2>1, <2>2, LayoutCalls DEF ShardedInv, Turns
    <2> QED
      BY <1>1, <2>4, <2>5, QuietCharged DEF ShardedInv
  <1>5. CASE /\ worker[w].key \notin DOMAIN domains
             /\ worker[w].call = "withdraw"
             /\ Turns(w, "ready", "datagram", worker[w].d, None)
             /\ worker'[w].got = worker[w].got
    <2>1. \A v \in Workers \ {w} : worker'[v] = worker[v]
      BY <1>5 DEF Turns, Others
    <2>2. Handled(w)'
      BY <1>1, <1>2, <1>5 DEF Handled, Turns, Stable
    <2>3. HandledOK'
      BY <1>2, <2>1, <2>2, HandledMoves DEF ShardedInv
    <2>4. LayoutOK'
      BY <1>1, <1>3, <1>5, <2>1, LayoutReads DEF ShardedInv, Turns
    <2> QED
      BY <1>1, <2>3, <2>4, QuietCharged DEF ShardedInv
  <1>6. CASE /\ worker[w].key \notin DOMAIN domains
             /\ Turns(w, "open", worker[w].call, worker[w].d, None)
             /\ SameCall(w)
    <2>1. \A v \in Workers \ {w} : worker'[v] = worker[v]
      BY <1>6 DEF Turns, Others
    <2>2. Handled(w)'
      BY <1>1, <1>2, <1>6 DEF Handled, Turns, Stable
    <2>3. HandledOK'
      BY <1>2, <2>1, <2>2, HandledMoves DEF ShardedInv
    <2>4. LayoutOK'
      BY <1>1, <1>3, <1>6, <2>1, LayoutCalls DEF ShardedInv, Turns
    <2> QED
      BY <1>1, <2>3, <2>4, QuietCharged DEF ShardedInv
  <1> QED
    BY <1>1, <1>4, <1>5, <1>6, FindTurns

\* A datagram ends or is refused a domain, with no template being replaced.
LEMMA FinishSharded ==
  ASSUME Inv, Inv', ShardedInv, NEW w \in Workers, Finishes(w), Quiet, UNCHANGED announced,
         worker[w].call \notin {"add", "withdraw"}
  PROVE  ShardedInv'
  <1>1. \A v \in Workers \ {w} : worker'[v] = worker[v]
    BY DEF Finishes, Others
  <1>2. worker'[w].pc = "idle" /\ worker'[w].call = "datagram" /\ worker'[w].got = 0
    BY DEF Finishes
  <1>3. HandledOK'
    BY <1>1, <1>2, QuietStable, HandledMoves DEF ShardedInv
  <1>4. LayoutOK'
    BY <1>1, <1>2, QuietInherits, LayoutReads DEF ShardedInv
  <1> QED
    BY <1>3, <1>4, QuietCharged DEF ShardedInv

\* EndDatagram keeps it.
LEMMA EndSharded ==
  ASSUME Inv, Inv', ShardedInv, NEW w \in Workers, EndDatagram(w)
  PROVE  ShardedInv'
  <1>1. Shape(w) /\ worker[w].pc = "ready"
    BY Here DEF EndDatagram
  <1>2. Finishes(w)
    BY AbandonTurns DEF EndDatagram, Inv
  <1>3. Quiet
    BY QuietKeep DEF EndDatagram, indexes
  <1> QED
    BY <1>1, <1>2, <1>3, FinishSharded DEF EndDatagram, Shape

\* A device past its budget goes without the domain, and nothing of it is in
\* the store to be decoded by.
LEMMA OpenRefusedSharded ==
  ASSUME Inv, Inv', ShardedInv, NEW w \in Workers, OpenRefused(w)
  PROVE  ShardedInv'
  <1>1. /\ Quiet /\ UNCHANGED announced /\ domains' = domains
        /\ worker[w].pc = "open" /\ worker[w].key \notin DOMAIN domains
    BY QuietKeep DEF OpenRefused, indexes
  <1>2. Shape(w) /\ Handled(w) /\ worker[w].got = 0
    BY <1>1, Here DEF ShardedInv, HandledOK, LayoutOK
  <1>3. CASE worker[w].call = "datagram"
    <2>1. Finishes(w)
      BY <1>3, AbandonTurns DEF OpenRefused, Inv
    <2> QED
      BY <1>1, <1>3, <2>1, FinishSharded
  <1>4. CASE worker[w].call # "datagram"
    <2>1. Turns(w, "ready", "datagram", worker[w].d, None) /\ worker'[w].got = 0
      BY <1>2, <1>4, ReturnTurns DEF OpenRefused, Inv
    <2>2. \A v \in Workers \ {w} : worker'[v] = worker[v]
      BY <2>1 DEF Turns, Others
    <2>3. Handled(w)'
      BY <1>1, <1>2, <2>1 DEF Handled, Turns
    <2>4. HandledOK'
      BY <1>1, <2>2, <2>3, QuietStable, HandledMoves DEF ShardedInv
    <2>5. LayoutOK'
      BY <1>1, <2>1, <2>2, QuietInherits, LayoutReads DEF ShardedInv, Turns
    <2> QED
      BY <1>1, <2>4, <2>5, QuietCharged DEF ShardedInv
  <1> QED
    BY <1>3, <1>4

\* A domain found is stamped no earlier than its datagram began.
LEMMA StampSharded ==
  ASSUME Sharded, Inv, Inv', ShardedInv, NEW w \in Workers, Stamp(w)
  PROVE  ShardedInv'
  <1>1. PICK i \in DOMAIN heap : i = worker[w].held
    BY Here DEF Stamp
  <1>2. PICK at \in Time : at = worker[w].at
    BY Here DEF WorkerState
  <1>3. /\ worker[w].pc = "stamp" /\ Resolved(w, i) /\ UNCHANGED <<domains, perExporter, announced>>
        /\ Keep([heap EXCEPT ![i].lastSeen = at], budgets, tables)
    BY <1>1, <1>2 DEF Stamp, indexes
  <1>4. Stamps(i, at)
    BY <1>3, StampsKeep
  <1>5. Handled(w) /\ worker[w].got = 0 /\ worker[w].since <= at /\ heap[i].key = worker[w].key
    BY <1>1, <1>2, <1>3, InvIs DEF ShardedInv, HandledOK, LayoutOK, ClockOK, Handled
  <1>6. /\ SameCall(w)
        /\ worker[w].call = "datagram" => Turns(w, "ready", "datagram", i, None)
        /\ worker[w].call # "datagram" => Turns(w, "body", worker[w].call, worker[w].d, i)
    <2>1. i \in Ids /\ TypeOK
      BY <1>1, InvIs DEF ObjectsOK, Inv
    <2> QED
      BY <1>3, <2>1, ResolvedTurns
  <1>7. \A v \in Workers \ {w} : worker'[v] = worker[v]
    BY <1>6 DEF Turns, Others
  <1>8. \A k \in DOMAIN domains : domains[k] \in DOMAIN heap' /\ heap'[domains[k]].key = k
    BY <1>3, Hereafter
  <1>9. KeysKept /\ \A v \in Workers \ {w} : worker[v].pc # "idle" => Stable(v)
    <2>1. KeysKept
      BY <1>4 DEF Stamps, KeysKept
    <2>2. ASSUME NEW v \in Workers \ {w}, worker[v].pc # "idle"
          PROVE  Stable(v)
      <3>1. worker[v].key # worker[w].key
        BY <1>3, <2>2, Apart DEF ShardedInv
      <3>2. worker[v].key \in DOMAIN domains => domains[worker[v].key] # i
        BY <1>5, <3>1, Here
      <3> QED
        BY <1>3, <1>4, <1>8, <3>2 DEF Stamps, Stable
    <2> QED
      BY <2>1, <2>2
  <1>10. Handled(w)'
    <2>1. worker[w].key \in DOMAIN domains =>
            domains[worker[w].key] = i /\ heap'[i].lastSeen = at /\ i \in DOMAIN heap'
      BY <1>1, <1>3, <1>4, <1>5, <1>8 DEF Stamps, Handled
    <2>2. CASE worker[w].call = "datagram"
      BY <1>3, <1>5, <1>6, <2>1, <2>2 DEF Handled, Turns
    <2>3. CASE worker[w].call # "datagram"
      <3>1. worker[w].key \in DOMAIN domains
        BY <1>3, <1>5, <2>3 DEF Handled
      <3> QED
        BY <1>3, <1>5, <1>6, <1>8, <2>1, <2>3, <3>1 DEF Handled, Turns
    <2> QED
      BY <2>2, <2>3
  <1>11. HandledOK'
    BY <1>7, <1>9, <1>10, HandledMoves DEF ShardedInv
  <1>12. ChargedOK'
    <2>1. \A k \in DOMAIN domains : heap'[domains[k]].templates = heap[domains[k]].templates
      BY <1>4, <1>8 DEF Stamps
    <2> QED
      BY <1>4, <2>1, ChargedStays DEF Stamps, ShardedInv
  <1>13. LayoutOK'
    BY <1>3, <1>4, <1>6, <1>7, StampsInherit, LayoutCalls DEF ShardedInv, Turns
  <1> QED
    BY <1>11, <1>12, <1>13 DEF ShardedInv

\* No other worker opens a domain between this one's missing it and opening it.
LEMMA OpenPresentSharded ==
  ASSUME ShardedInv, NEW w \in Workers
  PROVE  ~OpenPresent(w)
  BY DEF OpenPresent, ShardedInv, HandledOK, Handled

\* A domain opened is the one its worker goes on with, and no other worker's.
LEMMA OpenNewSharded ==
  ASSUME Sharded, Inv, Inv', ShardedInv, NEW w \in Workers, OpenNew(w)
  PROVE  ShardedInv'
  <1>1. PICK i \in Ids, k \in Domains : Opens(w, k, i)
    BY OpenNewOpens
  <1>2. /\ worker[w].pc = "open" /\ worker[w].key = k /\ UNCHANGED announced
        /\ Resolved(w, i) /\ k \notin DOMAIN domains /\ i \notin DOMAIN heap
    BY <1>1 DEF OpenNew, Opens
  <1>3. /\ SameCall(w)
        /\ worker[w].call = "datagram" => Turns(w, "ready", "datagram", i, None)
        /\ worker[w].call # "datagram" => Turns(w, "body", worker[w].call, worker[w].d, i)
    BY <1>2, ResolvedTurns DEF Inv
  <1>4. \A v \in Workers \ {w} : worker'[v] = worker[v]
    BY <1>3 DEF Turns, Others
  <1>5. Handled(w) /\ worker[w].since <= worker[w].at
    BY <1>2, InvIs DEF ShardedInv, HandledOK, ClockOK
  <1>6. /\ DOMAIN domains' = DOMAIN domains \cup {k} /\ domains'[k] = i
        /\ \A j \in DOMAIN domains : domains'[j] = domains[j]
    BY <1>1 DEF Opens, Put
  <1>7. \A j \in DOMAIN domains :
          /\ domains[j] \in DOMAIN heap /\ domains[j] \in DOMAIN heap' /\ heap'[domains[j]] = heap[domains[j]]
    <2>1. \A j \in DOMAIN domains : domains[j] \in DOMAIN heap /\ domains[j] \in DOMAIN heap'
      BY <1>6, Here, Hereafter
    <2> QED
      BY <1>1, <2>1 DEF Opens
  <1>8. KeysKept /\ \A v \in Workers \ {w} : worker[v].pc # "idle" => Stable(v)
    <2>1. KeysKept
      BY <1>1, <1>2 DEF Opens, KeysKept
    <2>2. \A v \in Workers \ {w} : worker[v].pc # "idle" => worker[v].key # k
      BY <1>2, Apart DEF ShardedInv
    <2> QED
      BY <1>6, <1>7, <2>1, <2>2 DEF Stable
  <1>9. heap'[i].key = k /\ heap'[i].lastSeen = worker[w].at
    BY <1>1 DEF Opens
  <1>10. Handled(w)'
    BY <1>2, <1>3, <1>5, <1>6, <1>9 DEF Handled, Turns
  <1>11. HandledOK'
    BY <1>4, <1>8, <1>10, HandledMoves DEF ShardedInv
  <1>12. ChargedOK'
    BY <1>1, ChargedOpens DEF ShardedInv
  <1>13. LayoutOK'
    BY <1>1, <1>2, <1>3, <1>4, OpensInherit, LayoutCalls DEF ShardedInv, Turns
  <1> QED
    BY <1>11, <1>12, <1>13 DEF ShardedInv

\* A call's domain is the live one of its key.
LEMMA HeldIsLive ==
  ASSUME Inv, HandledOK, NEW w \in Workers, worker[w].pc = "body"
  PROVE  /\ worker[w].key \in DOMAIN domains /\ worker[w].held = domains[worker[w].key]
         /\ worker[w].key \in Domains /\ worker[w].ref \in Refs
         /\ worker[w].held \in DOMAIN heap /\ Handled(w)
  <1>1. Shape(w) /\ Handled(w) /\ worker[w].held \in DOMAIN heap
    BY Here DEF HandledOK
  <1> QED
    BY <1>1 DEF Shape, Handled

\* A set is decoded by the layout its device announced last.
LEMMA LookupSharded ==
  ASSUME Sharded, Inv, Inv', ShardedInv, NEW w \in Workers, Lookup(w)
  PROVE  ShardedInv'
  <1>1. /\ Quiet /\ UNCHANGED announced /\ domains' = domains
        /\ worker[w].pc = "body" /\ worker[w].call = "lookup"
    BY QuietKeep DEF Lookup, InBody, indexes
  <1>2. PICK k \in DOMAIN domains : k = worker[w].key
    BY <1>1, HeldIsLive DEF ShardedInv
  <1>3. worker[w].held = domains[k] /\ Handled(w) /\ domains[k] \in DOMAIN heap
    BY <1>1, <1>2, HeldIsLive DEF ShardedInv
  <1>4. PICK ref : ref = worker[w].ref
    OBVIOUS
  <1>5. LookupHits(w) => ref \in DOMAIN heap[domains[k]].templates
    BY <1>3, <1>4 DEF LookupHits
  <1>6. ref \in DOMAIN heap[domains[k]].templates =>
          heap[domains[k]].templates[ref].size \in FieldCounts
    <2>1. PICK D \in DomainState : D = heap[domains[k]]
      BY <1>3, Here
    <2> QED
      BY <2>1, DomainIs DEF Template
  <1>7. ref \in DOMAIN heap[domains[k]].templates =>
          heap[domains[k]].templates[ref].size = announced[k][ref]
    <2>1. \A v \in Workers : ~Replacing(v, k, ref)
      BY <1>1, <1>2, Apart DEF ShardedInv, Replacing
    <2> QED
      BY <2>1 DEF ShardedInv, LayoutOK
  <1>8. /\ Turns(w, "ready", "lookup", worker[w].d, None) /\ worker'[w].ref = ref
        /\ worker'[w].got = IF LookupHits(w) THEN heap[domains[k]].templates[ref].size ELSE 0
    BY <1>3, <1>4, <1>5, <1>6, LookupTurns DEF Inv
  <1>9. \A v \in Workers \ {w} : worker'[v] = worker[v]
    BY <1>8 DEF Turns, Others
  <1>10. HandledOK'
    <2>1. Stable(w)
      BY <1>1, QuietStable
    <2>2. Handled(w)'
      BY <1>1, <1>3, <1>8, <2>1 DEF Handled, Turns, Stable
    <2> QED
      BY <1>1, <1>9, <2>2, QuietStable, HandledMoves DEF ShardedInv
  <1>11. LayoutOK'
    <2>1. worker'[w].got # 0 => worker'[w].got = announced[worker'[w].key][worker'[w].ref]
      BY <1>2, <1>5, <1>7, <1>8 DEF Turns
    <2> QED
      BY <1>1, <1>8, <1>9, <2>1, QuietInherits, LayoutReads DEF ShardedInv, Turns
  <1> QED
    BY <1>1, <1>10, <1>11, QuietCharged DEF ShardedInv

\* The templates are those there were, but for ref, which has size fields if it
\* is there at all.
Replaces(templates, before, ref, size) ==
  \A r \in DOMAIN templates :
    \/ r = ref /\ templates[r].size = size
    \/ r # ref /\ r \in DOMAIN before /\ templates[r].size = before[r].size

\* A call replaces its template by the layout announced, or drops it.
LEMMA ReplaceSharded ==
  ASSUME Sharded, Inv, Inv', ShardedInv, NEW w \in Workers, worker[w].pc = "body",
         Turns(w, "ready", "datagram", worker[w].d, None), worker'[w].got = worker[w].got,
         worker[w].call \in {"add", "withdraw"}, UNCHANGED <<domains, perExporter, announced>>,
         NEW E \in DomainState, Charged(E), SameDomain(E, heap[worker[w].held]),
         Charge(worker[w].held, E),
         \/ E.fields <= heap[worker[w].held].fields
         \/ budgets[heap[worker[w].held].budget].fields + E.fields - heap[worker[w].held].fields
              <= MaxFields,
         Replaces(E.templates, heap[worker[w].held].templates, worker[w].ref, worker[w].size)
  PROVE  ShardedInv'
  <1>1. PICK k \in DOMAIN domains : k = worker[w].key
    BY HeldIsLive DEF ShardedInv
  <1>2. /\ worker[w].held = domains[k] /\ Handled(w) /\ domains[k] \in DOMAIN heap
        /\ heap[domains[k]].budget = perExporter[ExporterOf[k]]
    BY <1>1, HeldIsLive, Here DEF ShardedInv
  <1>3. Charges(domains[k], E)
    BY <1>2, ChargesKeep
  <1>4. \A v \in Workers \ {w} : worker'[v] = worker[v]
    BY DEF Turns, Others
  <1>5. HandledOK'
    <2>1. KeysKept /\ \A v \in Workers : Stable(v)
      BY <1>3, ChargesStable
    <2>2. Handled(w)'
      BY <1>1, <1>2, <2>1 DEF Handled, Turns, Stable
    <2> QED
      BY <1>4, <2>1, <2>2, HandledMoves DEF ShardedInv
  <1>6. ChargedOK'
    BY <1>2, <1>3, ChargedMoves DEF ShardedInv
  <1>7. ASSUME NEW j \in DOMAIN domains', NEW ref \in DOMAIN heap'[domains'[j]].templates
        PROVE  \/ heap'[domains'[j]].templates[ref].size = announced[j][ref]
               \/ /\ j \in DOMAIN domains /\ ref \in DOMAIN heap[domains[j]].templates
                  /\ heap'[domains'[j]].templates[ref].size = heap[domains[j]].templates[ref].size
                  /\ ~Replacing(w, j, ref)
    <2>1. j \in DOMAIN domains /\ domains'[j] = domains[j] /\ domains[j] \in DOMAIN heap'
      BY Hereafter
    <2>2. CASE j = k
      <3>1. heap'[domains[j]] = E
        BY <1>3, <2>1, <2>2 DEF Charges
      <3>2. worker[w].size = announced[k][worker[w].ref]
        BY <1>1 DEF ShardedInv, LayoutOK
      <3> QED
        BY <1>2, <2>1, <2>2, <3>1, <3>2 DEF Replacing, Replaces
    <2>3. CASE j # k
      <3>1. domains[j] # domains[k]
        BY <2>1, <2>3, Here
      <3> QED
        BY <1>1, <1>3, <2>1, <2>3, <3>1 DEF Charges, Replacing
    <2> QED
      BY <2>2, <2>3
  <1>8. LayoutOK'
    <2>1. worker'[w].got = 0 /\ worker'[w].call = "datagram"
      BY DEF ShardedInv, LayoutOK, Turns
    <2>2. \A j \in DOMAIN domains' : \A ref \in DOMAIN heap'[domains'[j]].templates :
            \/ heap'[domains'[j]].templates[ref].size = announced[j][ref]
            \/ /\ j \in DOMAIN domains /\ ref \in DOMAIN heap[domains[j]].templates
               /\ heap'[domains'[j]].templates[ref].size = heap[domains[j]].templates[ref].size
               /\ Replacing(w, j, ref) => Replacing(w, j, ref)'
      BY <1>7
    <2> QED
      BY <1>4, <2>1, <2>2, LayoutKeeps DEF ShardedInv
  <1> QED
    BY <1>5, <1>6, <1>8 DEF ShardedInv

\* Withdraw keeps it: the template it drops is the one announced unreadable.
LEMMA WithdrawSharded ==
  ASSUME Sharded, Inv, Inv', ShardedInv, NEW w \in Workers, Withdraw(w)
  PROVE  ShardedInv'
  <1>1. /\ worker[w].pc = "body" /\ worker[w].call = "withdraw"
        /\ Turns(w, "ready", "datagram", worker[w].d, None) /\ worker'[w].got = worker[w].got
        /\ UNCHANGED <<domains, perExporter, announced>>
    BY ReturnTurns DEF Withdraw, InBody, Inv, indexes
  <1>2. PICK D \in DomainState, E \in DomainState :
          /\ D = heap[worker[w].held] /\ Charged(D) /\ E = Dropped(D, worker[w].ref)
          /\ Charged(E) /\ SameDomain(E, D) /\ Charge(worker[w].held, E)
    BY WithdrawCharges
  <1>3. E.templates = Without(D.templates, worker[w].ref) /\ E.fields <= D.fields
    <2>1. /\ E.templates = Without(D.templates, worker[w].ref)
          /\ E.fields = D.fields - HeldFields(D, worker[w].ref)
          /\ HeldFields(D, worker[w].ref) \in Nat /\ D.fields \in Int
      BY <1>2, DroppedIs, DomainIs
    <2> QED
      BY <2>1
  <1>4. Replaces(E.templates, D.templates, worker[w].ref, worker[w].size)
    BY <1>3, RestrictIs DEF Without, Replaces
  <1> QED
    BY <1>1, <1>2, <1>3, <1>4, ReplaceSharded

\* Add keeps it, whether the template is stored or refused.
LEMMA AddSharded ==
  ASSUME Sharded, Inv, Inv', ShardedInv, NEW w \in Workers, Add(w)
  PROVE  ShardedInv'
  <1>1. /\ worker[w].pc = "body" /\ worker[w].call = "add"
        /\ Turns(w, "ready", "datagram", worker[w].d, None) /\ worker'[w].got = worker[w].got
        /\ UNCHANGED <<domains, perExporter, announced>>
    BY ReturnTurns DEF Add, InBody, Inv, indexes
  <1>2. PICK i \in DOMAIN heap, ref \in Refs, size \in FieldCounts, at \in Time :
          /\ i = worker[w].held /\ ref = worker[w].ref /\ size = worker[w].size
          /\ at = worker[w].at
    BY AddCharges
  <1>3. PICK C \in DomainState : C = heap[i]
    BY Here
  <1>4. PICK before \in Int : before = budgets[C.budget].fields
    <2>1. worker[w].key \in DOMAIN domains /\ i = domains[worker[w].key]
      BY <1>1, <1>2, HeldIsLive DEF ShardedInv
    <2> QED
      BY <1>3, <2>1, Here
  <1>5. PICK D \in DomainState, E \in DomainState :
          /\ Charged(D) /\ DOMAIN D.templates \subseteq DOMAIN C.templates
          /\ \A r \in DOMAIN D.templates : D.templates[r] = C.templates[r]
          /\ D.fields <= C.fields
          /\ Charged(E) /\ SameDomain(E, C) /\ Charge(i, E)
          /\ \/ E = Stored(D, ref, size, at) /\ Fits(D, before + D.fields - C.fields, ref, size)
             \/ E = Dropped(D, ref)
    BY <1>2, <1>3, <1>4, AddCharges
  <1>6. /\ C.fields \in Int /\ D.fields \in Int /\ HeldFields(D, ref) \in Nat /\ size \in Nat
        /\ MaxFields \in Nat
    BY <1>5, DomainIs, DroppedIs, StoreAssumption
  <1>7. CASE E = Stored(D, ref, size, at) /\ Fits(D, before + D.fields - C.fields, ref, size)
    <2>1. /\ E.templates = Put(D.templates, ref, [size |-> size, at |-> at])
          /\ E.fields = D.fields + size - HeldFields(D, ref)
      BY <1>5, <1>7, StoredIs
    <2>2. before + E.fields - C.fields <= MaxFields
      <3>1. before + D.fields - C.fields + size - HeldFields(D, ref) <= MaxFields
        BY <1>7 DEF Fits
      <3> QED
        BY <1>6, <2>1, <3>1
    <2>3. Replaces(E.templates, C.templates, ref, size)
      BY <1>5, <2>1 DEF Put, Replaces
    <2> QED
      BY <1>1, <1>2, <1>3, <1>4, <1>5, <2>2, <2>3, ReplaceSharded
  <1>8. CASE E = Dropped(D, ref)
    <2>1. /\ E.templates = Without(D.templates, ref)
          /\ E.fields = D.fields - HeldFields(D, ref)
      BY <1>5, <1>8, DroppedIs
    <2>2. E.fields <= C.fields
      BY <1>5, <1>6, <2>1
    <2>3. Replaces(E.templates, C.templates, ref, size)
      BY <1>5, <2>1, RestrictIs DEF Without, Replaces
    <2> QED
      BY <1>1, <1>2, <1>3, <1>5, <2>2, <2>3, ReplaceSharded
  <1> QED
    BY <1>5, <1>7, <1>8

\* The expired templates dropped, and their fields no longer charged.
LEMMA PruneSharded ==
  ASSUME Inv, Inv', ShardedInv, NEW k \in Domains, Prune(k)
  PROVE  ShardedInv'
  <1>1. k \in DOMAIN domains /\ domains[k] \in DOMAIN heap
    BY PruneStep
  <1>2. PICK D \in DomainState, at \in Time :
          D = heap[domains[k]] /\ Charged(D) /\ at = sweeper.at
    BY <1>1, Here, InvIs DEF ActorsOK, SweeperState
  <1>3. PICK E \in DomainState :
          /\ E = Pruned(D, at) /\ SameDomain(E, D) /\ Charged(E) /\ E.fields <= D.fields
          /\ DOMAIN E.templates \subseteq DOMAIN D.templates
          /\ \A ref \in DOMAIN E.templates : E.templates[ref] = D.templates[ref]
    BY <1>2, PrunedIs
  <1>4. /\ Charge(domains[k], E)
        /\ UNCHANGED <<domains, perExporter, worker, announced>>
    BY <1>2, <1>3 DEF Prune, indexes
  <1>5. Charges(domains[k], E)
    BY <1>1, <1>2, <1>3, <1>4, ChargesKeep
  <1>6. HandledOK'
    BY <1>4, <1>5, ChargesStable, HandledStays DEF ShardedInv, HandledOK
  <1>7. ChargedOK'
    BY <1>1, <1>2, <1>3, <1>5, ChargedMoves DEF ShardedInv
  <1>8. LayoutOK'
    BY <1>1, <1>2, <1>3, <1>4, <1>5, ChargesInherit, LayoutStill DEF ShardedInv
  <1> QED
    BY <1>6, <1>7, <1>8 DEF ShardedInv

\* A domain evicted is none a worker resolved: its datagram would have stamped
\* it within the TTL.
LEMMA EvictSharded ==
  ASSUME Inv, Inv', ShardedInv, NEW k \in Domains, Evict(k)
  PROVE  ShardedInv'
  <1>1. k \in DOMAIN domains /\ Leaves(k)
    BY EvictLeaves
  <1>2. UNCHANGED <<worker, announced>>
    BY <1>1 DEF Leaves
  <1>3. heap[domains[k]].lastSeen < now - TTL
    <2>1. heap[domains[k]].lastSeen \in Int
      <3>1. PICK D \in DomainState : D = heap[domains[k]]
        BY <1>1, Here
      <3> QED
        BY <3>1, DomainIs, Values
    <2>2. sweeper.cutoff <= now - TTL /\ sweeper.cutoff \in Int /\ now \in Int /\ TTL \in Int
      BY Here, InvIs DEF SweepOK, ActorsOK, SweeperState
    <2> QED
      BY <2>1, <2>2 DEF Evict, Idle
  <1>4. /\ DOMAIN domains' = DOMAIN domains \ {k}
        /\ \A j \in DOMAIN domains' : domains'[j] = domains[j]
    BY <1>1, RestrictIs DEF Leaves, Without
  <1>5. \A j \in DOMAIN domains' : heap'[domains[j]] = heap[domains[j]]
    BY <1>1, <1>4, Hereafter DEF Leaves
  <1>6. HandledOK'
    <2> SUFFICES ASSUME NEW w \in Workers, worker[w].pc # "idle"
                 PROVE  Handled(w)'
      BY <1>2 DEF HandledOK
    <2>1. Handled(w)
      BY DEF ShardedInv, HandledOK
    <2>2. worker[w].pc \in {"stamp", "body"} => heap'[worker[w].held].key = worker[w].key
      BY <1>1, <1>2, <2>1, Hereafter DEF Handled, Leaves
    <2>3. worker[w].pc = "ready" \/ worker[w].call # "datagram" => worker[w].key # k
      <3>1. SUFFICES ASSUME worker[w].pc = "ready" \/ worker[w].call # "datagram",
                            worker[w].key = k
                     PROVE  FALSE
        OBVIOUS
      <3>2. worker[w].since <= heap[domains[k]].lastSeen
        BY <1>1, <2>1, <3>1 DEF Handled
      <3>3. now <= worker[w].since + TTL
        BY InvIs DEF ClockOK
      <3>4. worker[w].since \in Int /\ now \in Int /\ TTL \in Int
        BY Here, Values DEF WorkerState
      <3>5. heap[domains[k]].lastSeen \in Int
        <4>1. PICK D \in DomainState : D = heap[domains[k]]
          BY <1>1, Here
        <4> QED
          BY <4>1, DomainIs, Values
      <3> QED
        BY <1>3, <3>2, <3>3, <3>4, <3>5
    <2> QED
      BY <1>2, <1>4, <1>5, <2>1, <2>2, <2>3 DEF Handled
  <1>7. ChargedOK'
    BY <1>1, ChargedLeaves DEF ShardedInv
  <1>8. LayoutOK'
    BY <1>1, <1>2, LeavesInherit, LayoutStill DEF ShardedInv
  <1> QED
    BY <1>6, <1>7, <1>8 DEF ShardedInv

\* The sampler tables are none of this.
LEMMA TablesSharded ==
  ASSUME Inv, Inv', ShardedInv,
         SweepTables \/ \E w \in Workers, s \in Samplers : DeclareSampler(w, s)
  PROVE  ShardedInv'
  <1>1. CASE SweepTables
    <2>1. UNCHANGED <<domains, perExporter, worker, announced>>
      BY <1>1 DEF SweepTables
    <2>2. \E u : Keep(heap, budgets, u)
      BY <1>1 DEF SweepTables
    <2>3. Quiet
      BY <2>1, <2>2, KeepLeaves DEF Quiet
    <2> QED
      BY <2>1, <2>3, StillSharded
  <1>2. CASE \E w \in Workers, s \in Samplers : DeclareSampler(w, s)
    <2>1. UNCHANGED <<indexes, heap, budgets, worker, announced>>
      BY <1>2 DEF DeclareSampler
    <2> QED
      BY <2>1, QuietStill, StillSharded
  <1> QED
    BY <1>1, <1>2

\* The clock, and the sweep where it takes nothing out, keep it.
LEMMA ClockSharded ==
  ASSUME Inv, Inv', ShardedInv,
         \/ Tick \/ SweepTick \/ SweepLock \/ SweepEnd \/ UNCHANGED vars
         \/ \E k \in Domains : Spare(k)
  PROVE  ShardedInv'
  <1>1. UNCHANGED <<indexes, heap, budgets, worker, announced>>
    BY DEF Tick, SweepTick, SweepLock, SweepEnd, Spare, objects, vars
  <1> QED
    BY <1>1, QuietStill, StillSharded

-----------------------------------------------------------------------------
(* The invariant, and what it gives.                                       *)

\* It holds of the empty store.
LEMMA InitSharded == Init => ShardedInv
  <1> SUFFICES ASSUME Init
               PROVE  ShardedInv
    OBVIOUS
  <1>1. DOMAIN domains = {} /\ DOMAIN perExporter = {}
    BY DEF Init
  <1>2. \A w \in Workers : worker[w].pc = "idle" /\ worker[w].call = "datagram" /\ worker[w].got = 0
    BY DEF Init
  <1>3. HandledOK
    BY <1>2 DEF HandledOK
  <1>4. ChargedOK
    BY <1>1 DEF ChargedOK, FieldsCharged
  <1>5. LayoutOK
    BY <1>1, <1>2 DEF LayoutOK, DecodesByLastLayout
  <1> QED
    BY <1>3, <1>4, <1>5 DEF ShardedInv

\* Every step keeps it.
LEMMA NextSharded ==
  ASSUME Sharded
  PROVE  Inv /\ ShardedInv /\ [Next]_vars => Inv' /\ ShardedInv'
  <1> SUFFICES ASSUME Inv, ShardedInv, [Next]_vars
               PROVE  Inv' /\ ShardedInv'
    OBVIOUS
  <1>0. Inv'
    BY NextInv
  <1>1. ASSUME Tick \/ SweepTick \/ UNCHANGED vars
        PROVE  ShardedInv'
    BY <1>0, <1>1, ClockSharded
  <1>2. ASSUME NEW w \in Workers, NEW k \in Domains, Receive(w, k)
        PROVE  ShardedInv'
    BY <1>0, <1>2, ReceiveSharded
  <1>3. ASSUME NEW w \in Workers, NEW ref \in Refs, NEW size \in FieldCounts,
               RegisterTemplate(w, ref, size)
        PROVE  ShardedInv'
    BY <1>0, <1>3, CallSharded DEF RegisterTemplate
  <1>4. ASSUME NEW w \in Workers, NEW ref \in Refs, RefuseTemplate(w, ref)
        PROVE  ShardedInv'
    BY <1>0, <1>4, CallSharded DEF RefuseTemplate
  <1>5. ASSUME NEW w \in Workers, NEW ref \in Refs, DecodeDataSet(w, ref)
        PROVE  ShardedInv'
    BY <1>0, <1>5, CallSharded DEF DecodeDataSet
  <1>6. ASSUME NEW w \in Workers, NEW s \in Samplers, DeclareSampler(w, s)
        PROVE  ShardedInv'
    BY <1>0, <1>6, TablesSharded
  <1>7. ASSUME NEW w \in Workers, Step(w)
        PROVE  ShardedInv'
    BY <1>0, <1>7, FindSharded, StampSharded, OpenPresentSharded, OpenRefusedSharded,
       OpenNewSharded, AddSharded, WithdrawSharded, LookupSharded DEF Step
  <1>8. ASSUME NEW w \in Workers, EndDatagram(w)
        PROVE  ShardedInv'
    BY <1>0, <1>8, EndSharded
  <1>9. CASE Sweep
    BY <1>0, <1>9, ClockSharded, TablesSharded, EvictSharded, PruneSharded DEF Sweep
  <1> QED
    BY <1>0, <1>1, <1>2, <1>3, <1>4, <1>5, <1>6, <1>7, <1>8, <1>9 DEF Next

\* It holds throughout.
LEMMA ShardedInvariant ==
  ASSUME Sharded
  PROVE  Spec => [](Inv /\ ShardedInv)
  <1>1. Init => Inv /\ ShardedInv
    BY InitInv, InitSharded
  <1>2. Inv /\ ShardedInv /\ [Next]_vars => (Inv /\ ShardedInv)'
    BY NextSharded
  <1> QED
    BY <1>1, <1>2, PTL DEF Spec

\* Where each device is decoded by one worker, its budget is charged with
\* exactly the fields of the templates its live domains hold, within the bound,
\* through evictions, refusals and redefinitions (templates.go, chargeFields).
THEOREM FieldsChargedHolds ==
  ASSUME Sharded
  PROVE  Spec => []FieldsCharged
  <1>1. ShardedInv => FieldsCharged
    BY DEF ShardedInv, ChargedOK
  <1> QED
    BY <1>1, ShardedInvariant, PTL

\* Where each device is decoded by one worker, a data set is only ever decoded
\* by the layout its device announced last for that template.
THEOREM DecodesByLastLayoutHolds ==
  ASSUME Sharded
  PROVE  Spec => []DecodesByLastLayout
  <1>1. ShardedInv => DecodesByLastLayout
    BY DEF ShardedInv, LayoutOK
  <1> QED
    BY <1>1, ShardedInvariant, PTL
=============================================================================
