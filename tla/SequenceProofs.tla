--------------------------- MODULE SequenceProofs ---------------------------
(***************************************************************************)
(* What one message makes of a position, for every Mod and windows that    *)
(* keep their order.  A device numbers without bound; the wire holds its   *)
(* numbers modulo Mod, and so does a session.  Within the windows the      *)
(* tracking is that of the unbounded numbers, however often they wrapped.  *)
(***************************************************************************)
EXTENDS Sequence, TLAPS

-----------------------------------------------------------------------------
(* Numbers on a ring.                                                      *)

LEMMA Sizes ==
  /\ {Mod, ForwardWindow, ReorderWindow, MaxLateRun} \subseteq Nat
  /\ Mod > 0 /\ ForwardWindow > 0 /\ ReorderWindow > 0 /\ ForwardWindow + ReorderWindow < Mod
  BY SequenceAssumption

LEMMA Divides ==
  ASSUME NEW a \in Int, NEW m \in Nat, m > 0
  PROVE  a = (a \div m) * m + (a % m)
  OBVIOUS

\* A number is some rounds of the ring and its place on it.
LEMMA Rounds ==
  ASSUME NEW a \in Int
  PROVE  a % Mod \in 0..(Mod - 1) /\ \E k \in Int : a = k * Mod + (a % Mod)
  <1>1. a % Mod \in 0..(Mod - 1)
    BY Sizes
  <1>2. a = (a \div Mod) * Mod + (a % Mod)
    <2>1. Mod \in Nat /\ Mod > 0
      BY Sizes
    <2> QED
      BY <2>1, Divides, Zenon
  <1>3. a \div Mod \in Int
    BY Sizes
  <1> QED
    BY <1>1, <1>2, <1>3

\* Whole rounds apart on the ring is the same place.
LEMMA OnePlace ==
  ASSUME NEW k \in Int, NEW x \in 0..(Mod - 1), NEW y \in 0..(Mod - 1), x = y + k * Mod
  PROVE  x = y
  <1>1. CASE k >= 1
    <2>1. k * Mod >= Mod
      BY <1>1, Sizes
    <2> QED
      BY <2>1, Sizes
  <1>2. CASE k <= -1
    <2>1. k * Mod <= -Mod
      BY <1>2, Sizes
    <2> QED
      BY <2>1, Sizes
  <1>3. CASE k = 0
    BY <1>3, Sizes
  <1> QED
    BY <1>1, <1>2, <1>3

SamePlace(a, b) == \E k \in Int : a = b + k * Mod

LEMMA SamePlaceIs ==
  ASSUME NEW a \in Int, NEW b \in Int, SamePlace(a, b)
  PROVE  a % Mod = b % Mod
  <1>1. PICK k \in Int : a = b + k * Mod
    BY DEF SamePlace
  <1>2. PICK i \in Int, x \in 0..(Mod - 1) : x = a % Mod /\ a = i * Mod + x
    BY Rounds
  <1>3. PICK j \in Int, y \in 0..(Mod - 1) : y = b % Mod /\ b = j * Mod + y
    BY Rounds
  <1>4. PICK n \in Int : n = j + k - i
    OBVIOUS
  <1>5. n * Mod = j * Mod + k * Mod - i * Mod
    BY <1>4, Sizes
  <1>6. x = y + n * Mod
    BY <1>1, <1>2, <1>3, <1>5, Sizes
  <1> QED
    BY <1>2, <1>3, <1>6, OnePlace

\* The step between two places is the way between the numbers, on the ring.
LEMMA StepIs ==
  ASSUME NEW q \in Int, NEW p \in Int
  PROVE  Step(q % Mod, p % Mod) = (q - p) % Mod
  <1>1. PICK i \in Int, x \in 0..(Mod - 1) : x = q % Mod /\ q = i * Mod + x
    BY Rounds
  <1>2. PICK j \in Int, y \in 0..(Mod - 1) : y = p % Mod /\ p = j * Mod + y
    BY Rounds
  <1>3. PICK d \in Int, e \in Int : d = q - p /\ e = x - y
    OBVIOUS
  <1>4. d = e + (i - j) * Mod
    BY <1>1, <1>2, <1>3, Sizes
  <1>5. SamePlace(d, e)
    BY <1>4 DEF SamePlace
  <1>6. d % Mod = e % Mod
    BY <1>5, SamePlaceIs
  <1>7. Step(q % Mod, p % Mod) = e % Mod
    BY <1>1, <1>2, <1>3, Zenon DEF Step
  <1> QED
    BY <1>3, <1>6, <1>7, Zenon

\* Ahead of a place, or behind it.
LEMMA StepAhead ==
  ASSUME NEW p \in Int, NEW q \in Int, p <= q, q < p + Mod
  PROVE  Step(q % Mod, p % Mod) = q - p
  <1>1. PICK d \in Nat : d = q - p /\ d < Mod
    BY Sizes
  <1>2. d % Mod = d
    BY <1>1, Sizes
  <1> QED
    BY <1>1, <1>2, StepIs

LEMMA StepBehind ==
  ASSUME NEW p \in Int, NEW q \in Int, q < p, p <= q + Mod
  PROVE  Step(q % Mod, p % Mod) = q - p + Mod
  <1>1. PICK d \in Int : d = q - p /\ d < 0 /\ d + Mod >= 0
    BY Sizes
  <1>2. d % Mod = d + Mod
    BY <1>1, Sizes
  <1> QED
    BY <1>1, <1>2, StepIs

\* A number and what comes after it, on the ring.
LEMMA Further ==
  ASSUME NEW q \in Int, NEW n \in Int
  PROVE  ((q % Mod) + n) % Mod = (q + n) % Mod
  <1>1. PICK i \in Int, x \in 0..(Mod - 1) : x = q % Mod /\ q = i * Mod + x
    BY Rounds
  <1>2. PICK d \in Int, e \in Int : d = q + n /\ e = x + n
    OBVIOUS
  <1>3. d = e + i * Mod
    BY <1>1, <1>2, Sizes
  <1>4. SamePlace(d, e)
    BY <1>3 DEF SamePlace
  <1>5. d % Mod = e % Mod
    BY <1>4, SamePlaceIs
  <1> QED
    BY <1>1, <1>2, <1>5, Zenon

-----------------------------------------------------------------------------
(* Sessions.                                                               *)

SessionIs(s) ==
  s \in [lastSeq : 0..(Mod - 1), lastSeen : Nat, engine : Nat, lateRun : 0..MaxLateRun, init : BOOLEAN]

\* q is no restart of p: a session that stands at p tells how far q is.
InWindows(p, q) == p - ReorderWindow <= q /\ q < p + ForwardWindow

\* A packet that is newer than the last counts those it overtook; one that is
\* not changes nothing, whatever wrapped in between (trackSequence).
THEOREM PacketsAsUnbounded ==
  ASSUME NEW s, SessionIs(s), s.init, NEW p \in Int, NEW q \in Int, s.lastSeq = p % Mod, InWindows(p, q)
  PROVE  LET next == TrackedPacket(s, q % Mod)
         IN /\ SessionIs(next.session)
            /\ IF q > p THEN next.missed = q - p - 1 /\ next.session = [s EXCEPT !.lastSeq = q % Mod]
                        ELSE next.missed = 0 /\ next.session = s
  <1>1. PICK step, seq : step = Step(q % Mod, s.lastSeq) /\ seq = q % Mod
    OBVIOUS
  <1>2. seq \in 0..(Mod - 1)
    BY <1>1, Rounds
  <1> DEFINE at(n, missed) == [session |-> [s EXCEPT !.init = TRUE, !.lastSeq = n], missed |-> missed]
  <1>3. s = [s EXCEPT !.init = TRUE, !.lastSeq = s.lastSeq]
    BY DEF SessionIs
  <1>4. CASE q > p
    <2>1. step = q - p /\ step \in 1..(ForwardWindow - 1)
      BY <1>1, <1>4, Sizes, StepAhead DEF InWindows
    <2>2. step # 0 /\ ~ReadsLate(step)
      BY <2>1, Sizes DEF ReadsLate
    <2>3. TrackedPacket(s, seq) = at(seq, step - 1)
      BY <1>1, <2>1, <2>2 DEF TrackedPacket
    <2>4. [s EXCEPT !.init = TRUE, !.lastSeq = seq] = [s EXCEPT !.lastSeq = seq]
      BY DEF SessionIs
    <2> QED
      BY <1>1, <1>2, <1>4, <2>1, <2>3, <2>4 DEF SessionIs
  <1>5. CASE q = p
    <2>1. step = 0
      BY <1>1, <1>5, Sizes, StepAhead
    <2>2. TrackedPacket(s, seq) = at(s.lastSeq, 0)
      BY <1>1, <2>1 DEF TrackedPacket
    <2> QED
      BY <1>1, <1>3, <1>5, <2>2
  <1>6. CASE q < p
    <2>1. step = q - p + Mod
      BY <1>1, <1>6, Sizes, StepBehind DEF InWindows
    <2>2. ReadsLate(step) /\ step # 0 /\ step \notin 1..(ForwardWindow - 1)
      BY <1>6, <2>1, Sizes DEF ReadsLate, InWindows
    <2>3. TrackedPacket(s, seq) = at(s.lastSeq, 0)
      BY <1>1, <2>2 DEF TrackedPacket
    <2> QED
      BY <1>1, <1>3, <1>6, <2>3
  <1> QED
    BY <1>4, <1>5, <1>6

\* A message at or past the number expected counts the records it shows were
\* skipped; a late one is held apart, until as many came in a row that the
\* position must be wrong (trackRecordSequence).
THEOREM RecordsAsUnbounded ==
  ASSUME NEW s, SessionIs(s), s.init, NEW p \in Int, NEW q \in Int, s.lastSeq = p % Mod, InWindows(p, q),
         NEW records \in Nat, NEW complete \in BOOLEAN
  PROVE  LET next == TrackedRecords(s, q % Mod, records, s.engine, complete)
             taken == [s EXCEPT !.init = complete, !.lateRun = 0, !.lastSeq = (q + records) % Mod]
         IN /\ SessionIs(next.session)
            /\ q >= p => next.missed = q - p /\ next.session = taken
            /\ q < p  => /\ next.missed = 0
                         /\ next.session = IF s.lateRun < MaxLateRun THEN [s EXCEPT !.lateRun = @ + 1] ELSE taken
  <1>1. PICK step, seq : step = Step(q % Mod, s.lastSeq) /\ seq = q % Mod
    OBVIOUS
  <1>2. PICK n : n = (q + records) % Mod /\ n = (seq + records) % Mod /\ n \in 0..(Mod - 1)
    <2>1. (q + records) % Mod = (seq + records) % Mod
      BY <1>1, Further
    <2>2. (q + records) % Mod \in 0..(Mod - 1)
      BY Sizes
    <2> QED
      BY <2>1, <2>2
  <1>3. PICK taken :
          taken = [s EXCEPT !.init = complete, !.engine = s.engine, !.lateRun = 0, !.lastSeq = n]
    OBVIOUS
  <1>4. taken = [s EXCEPT !.init = complete, !.lateRun = 0, !.lastSeq = n]
    BY <1>3 DEF SessionIs
  <1>5. SessionIs(taken)
    <2>1. 0 \in 0..MaxLateRun
      BY Sizes
    <2> QED
      BY <1>2, <1>4, <2>1 DEF SessionIs
  <1>6. PICK next : next = TrackedRecords(s, seq, records, s.engine, complete)
    OBVIOUS
  <1> SUFFICES /\ SessionIs(next.session)
               /\ q >= p => next.missed = q - p /\ next.session = taken
               /\ q < p  => /\ next.missed = 0
                            /\ next.session = IF s.lateRun < MaxLateRun THEN [s EXCEPT !.lateRun = @ + 1] ELSE taken
    BY <1>1, <1>2, <1>4, <1>6
  <1>7. CASE q >= p
    <2>1. step = q - p /\ step \in 0..(ForwardWindow - 1)
      BY <1>1, <1>7, Sizes, StepAhead DEF InWindows
    <2>2. ~ReadsLate(step)
      BY <2>1, Sizes DEF ReadsLate
    <2>3. next = [session |-> taken, missed |-> step]
      BY <1>1, <1>2, <1>3, <1>6, <2>1, <2>2 DEF TrackedRecords
    <2> QED
      BY <1>5, <1>7, <2>1, <2>3
  <1>8. CASE q < p
    <2>1. step = q - p + Mod
      BY <1>1, <1>8, Sizes, StepBehind DEF InWindows
    <2>2. ReadsLate(step) /\ step # 0 /\ step \notin 1..(ForwardWindow - 1)
      BY <1>8, <2>1, Sizes DEF ReadsLate, InWindows
    <2>3. CASE s.lateRun < MaxLateRun
      <3>1. PICK held : held = [s EXCEPT !.lateRun = @ + 1]
        OBVIOUS
      <3>2. next = [session |-> held, missed |-> 0]
        BY <1>1, <1>6, <2>2, <2>3, <3>1 DEF TrackedRecords
      <3>3. SessionIs(held)
        <4>1. s.lateRun + 1 \in 0..MaxLateRun
          BY <2>3, Sizes DEF SessionIs
        <4> QED
          BY <3>1, <4>1 DEF SessionIs
      <3> QED
        BY <1>8, <2>3, <3>1, <3>2, <3>3
    <2>4. CASE ~(s.lateRun < MaxLateRun)
      <3>1. next = [session |-> taken, missed |-> 0]
        BY <1>1, <1>2, <1>3, <1>6, <2>2, <2>4 DEF TrackedRecords
      <3> QED
        BY <1>5, <1>8, <2>4, <3>1
    <2> QED
      BY <2>3, <2>4
  <1> QED
    BY <1>7, <1>8

-----------------------------------------------------------------------------
(* Samplers.                                                               *)

\* A sample of a sampler the domain knows, at its rate, adds what the pool grew
\* by when it is the newer, however often either number wrapped.  An older one
\* adds nothing: it is held apart while the pool it tells, compared as it is
\* held, is no larger, and is the sampler's next base otherwise
\* (trackSampler).
THEOREM SamplesAsUnbounded ==
  ASSUME NEW ss, DOMAIN ss = {"held", "lateRun", "oldest", "pool", "refused"}, ss.pool \in Nat,
         NEW id \in DOMAIN ss.held, NEW reading, reading.rate = ss.held[id].rate,
         NEW p \in Int, NEW q \in Int, ss.held[id].seq = p % Mod, reading.seq = q % Mod, InWindows(p, q),
         NEW a \in Int, NEW b \in Int, ss.held[id].pool = a % Mod, reading.pool = b % Mod
  PROVE  LET next == KnownSampler(ss, id, reading)
             late == reading.pool <= ss.held[id].pool /\ ss.lateRun < MaxLateRun
         IN /\ q >= p /\ b \in a..(a + ForwardWindow - 1) =>
                 next.pool = ss.pool + (b - a) /\ next.held = [ss.held EXCEPT ![id] = reading]
            /\ q < p =>
                 next.pool = ss.pool /\ next.held = IF late THEN ss.held ELSE [ss.held EXCEPT ![id] = reading]
  <1>1. PICK step, grown : step = Step(reading.seq, ss.held[id].seq) /\ grown = Step(reading.pool, ss.held[id].pool)
    OBVIOUS
  <1>2. PICK next : next = KnownSampler(ss, id, reading)
    OBVIOUS
  <1>3. PICK late \in BOOLEAN : late <=> reading.pool <= ss.held[id].pool /\ ss.lateRun < MaxLateRun
    OBVIOUS
  <1>4. PICK moved : moved = [ss.held EXCEPT ![id] = reading]
    OBVIOUS
  <1> SUFFICES /\ q >= p /\ b \in a..(a + ForwardWindow - 1) => next.pool = ss.pool + (b - a) /\ next.held = moved
               /\ q < p => next.pool = ss.pool /\ next.held = IF late THEN ss.held ELSE moved
    BY <1>2, <1>3, <1>4
  <1>5. ASSUME q >= p, b \in a..(a + ForwardWindow - 1)
        PROVE  next.pool = ss.pool + (b - a) /\ next.held = moved
    <2>1. step = q - p /\ step < ForwardWindow
      BY <1>1, <1>5, Sizes, StepAhead DEF InWindows
    <2>2. grown = b - a /\ grown < ForwardWindow
      BY <1>1, <1>5, Sizes, StepAhead
    <2>3. ~ReadsLate(step)
      BY <1>5, <2>1, Sizes DEF ReadsLate
    <2>4. next = [ss EXCEPT !.held[id] = reading, !.lateRun = 0, !.refused = FALSE, !.pool = @ + grown]
      BY <1>1, <1>2, <2>1, <2>2, <2>3 DEF KnownSampler
    <2> QED
      BY <1>4, <2>2, <2>4
  <1>6. ASSUME q < p
        PROVE  next.pool = ss.pool /\ next.held = IF late THEN ss.held ELSE moved
    <2>1. step = q - p + Mod
      BY <1>1, <1>6, Sizes, StepBehind DEF InWindows
    <2>2. ReadsLate(step) /\ ~(step < ForwardWindow)
      BY <1>6, <2>1, Sizes DEF ReadsLate, InWindows
    <2>3. CASE late
      <3>1. next = [ss EXCEPT !.lateRun = @ + 1, !.refused = FALSE]
        BY <1>1, <1>2, <1>3, <2>2, <2>3 DEF KnownSampler
      <3> QED
        BY <2>3, <3>1
    <2>4. CASE ~late
      <3>1. next = [ss EXCEPT !.held[id] = reading, !.lateRun = 0, !.refused = FALSE, !.pool = @]
        BY <1>1, <1>2, <1>3, <2>2, <2>4 DEF KnownSampler
      <3> QED
        BY <1>4, <2>4, <3>1
    <2> QED
      BY <2>3, <2>4
  <1> QED
    BY <1>5, <1>6
=============================================================================
