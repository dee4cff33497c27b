------------------------------ MODULE Sequence ------------------------------
(* The sequence tracking of one observation domain (decoder/templates.go). *)
(* Three trackers read the numbers a device puts on its exports: packets   *)
(* (NetFlow v9, sFlow), records (NetFlow v5, v8, IPFIX) and the samples of *)
(* one sFlow sampler.  Each is an operator from a position and a message   *)
(* to the next position and what it adds to the domain's counters, all     *)
(* numbers being held modulo Mod as the wire holds them modulo 2^32.       *)
EXTENDS Integers, FiniteSets, TLC

CONSTANTS
  Mod,            \* 2^32 in the code
  ForwardWindow,  \* 2^30: a step this long reads as a restart
  ReorderWindow,  \* 1024: how far back a late message may be
  MaxLateRun,     \* messages read as late one after another
  MaxSessions,    \* transport sessions one domain follows
  MaxSamplers     \* sFlow samplers one domain tracks

ASSUME SequenceAssumption ==
  /\ {Mod, ForwardWindow, ReorderWindow, MaxLateRun, MaxSessions, MaxSamplers}
       \subseteq Nat \ {0}
  /\ ForwardWindow + ReorderWindow < Mod

Step(seq, last) == (seq - last) % Mod

\* A step back of at most ReorderWindow, as unsigned arithmetic spells it.
ReadsLate(step) == step > Mod - 1 - ReorderWindow
-----------------------------------------------------------------------------
(* Transport sessions.  A domain at its bound keeps those it has.          *)

NewSession(at) ==
  [lastSeq |-> 0, lastSeen |-> at, engine |-> 0, lateRun |-> 0, init |-> FALSE]

Sessions(held, port, at) ==
  CASE port \in DOMAIN held                     -> [held EXCEPT ![port].lastSeen = at]
    [] /\ port \notin DOMAIN held
       /\ Cardinality(DOMAIN held) < MaxSessions -> held @@ (port :> NewSession(at))
    [] OTHER                                    -> held

IdleSessionsPruned(held, cutoff) ==
  [p \in {q \in DOMAIN held : held[q].lastSeen >= cutoff} |-> held[p]]
-----------------------------------------------------------------------------
(* What one message makes of a session: the session it leaves and the      *)
(* number of packets or records it shows were skipped.                     *)

TrackedPacket(s, seq) ==
  LET step == Step(seq, s.lastSeq)
      at(n, missed) == [session |-> [s EXCEPT !.init = TRUE, !.lastSeq = n], missed |-> missed]
  IN CASE ~s.init                                  -> at(seq, 0)
       [] s.init /\ step = 0                       -> at(s.lastSeq, 0)
       [] s.init /\ step \in 1..(ForwardWindow-1)  -> at(seq, step - 1)
       [] s.init /\ ReadsLate(step)                -> at(s.lastSeq, 0)
       [] OTHER                                    -> at(seq, 0)

\* Mutant: a late message takes the position back.
RecordsNeverLate(s, seq, records, engine, complete) ==
  LET step  == Step(seq, s.lastSeq)
      base(missed) ==
        [session |-> [s EXCEPT !.init = complete, !.engine = engine, !.lateRun = 0,
                               !.lastSeq = (seq + records) % Mod],
         missed |-> missed]
      follows == s.init /\ engine = s.engine
  IN CASE ~follows                                -> base(0)
       [] follows /\ step = 0                     -> base(0)
       [] follows /\ step \in 1..(ForwardWindow-1) -> base(step)
       [] OTHER                                   -> base(0)

\* Mutant: nothing bounds a run of late messages.
RecordsLateUnbounded(s, seq, records, engine, complete) ==
  LET step  == Step(seq, s.lastSeq)
      base(missed) ==
        [session |-> [s EXCEPT !.init = complete, !.engine = engine, !.lateRun = 0,
                               !.lastSeq = (seq + records) % Mod],
         missed |-> missed]
      follows == s.init /\ engine = s.engine
  IN CASE ~follows                                -> base(0)
       [] follows /\ step = 0                     -> base(0)
       [] follows /\ ReadsLate(step)              -> [session |-> s, missed |-> 0]
       [] follows /\ step \in 1..(ForwardWindow-1) -> base(step)
       [] OTHER                                   -> base(0)

\* lastSeq holds the number expected on the next message.
TrackedRecords(s, seq, records, engine, complete) ==
  LET step  == Step(seq, s.lastSeq)
      base(missed) ==
        [session |-> [s EXCEPT !.init = complete, !.engine = engine, !.lateRun = 0,
                               !.lastSeq = (seq + records) % Mod],
         missed |-> missed]
      follows == s.init /\ engine = s.engine
  IN CASE ~follows                                -> base(0)
       [] follows /\ step = 0                     -> base(0)
       [] /\ follows /\ ReadsLate(step)
          /\ s.lateRun < MaxLateRun               -> [session |-> [s EXCEPT !.lateRun = @ + 1],
                                                      missed |-> 0]
       [] follows /\ step \in 1..(ForwardWindow-1) -> base(step)
       [] OTHER                                   -> base(0)
-----------------------------------------------------------------------------
(* sFlow samplers.  ss is the sampler state of a domain: its samplers, the  *)
(* run of late samples they share, the lower bound on their stamps, and the *)
(* total of what their pools grew by; refused, whether the last sample met  *)
(* a full domain.                                                           *)

NoSampler == [held |-> <<>>, lateRun |-> 0, oldest |-> 0, pool |-> 0, refused |-> FALSE]

IdleSamplersPruned(ss, at, ttl) ==
  LET kept == {i \in DOMAIN ss.held : ss.held[i].lastSeen >= at - ttl}
      seen == {ss.held[i].lastSeen : i \in kept} \cup {at}
  IN [ss EXCEPT !.held = [i \in kept |-> @[i]],
                !.oldest = CHOOSE t \in seen : \A u \in seen : t <= u]

FullOfSamplers(ss) == Cardinality(DOMAIN ss.held) >= MaxSamplers

NewSampler(ss, id, reading, ttl) ==
  LET room == IF FullOfSamplers(ss) /\ reading.lastSeen - ss.oldest > ttl
              THEN IdleSamplersPruned(ss, reading.lastSeen, ttl) ELSE ss
  IN IF FullOfSamplers(room) THEN [room EXCEPT !.refused = TRUE]
     ELSE [room EXCEPT !.held = @ @@ (id :> reading), !.refused = FALSE]

\* Mutant: a late sample takes its sampler's base back.
SamplerNeverLate(ss, id, reading) ==
  LET last  == ss.held[id]
      step  == Step(reading.seq, last.seq)
      grown == Step(reading.pool, last.pool)
      spans == step < ForwardWindow /\ reading.rate = last.rate /\ grown < ForwardWindow
  IN [ss EXCEPT !.held[id] = reading, !.lateRun = 0, !.refused = FALSE,
                     !.pool = IF spans THEN @ + grown ELSE @]

KnownSampler(ss, id, reading) ==
  LET last  == ss.held[id]
      step  == Step(reading.seq, last.seq)
      grown == Step(reading.pool, last.pool)
      late  == ReadsLate(step) /\ reading.pool <= last.pool /\ ss.lateRun < MaxLateRun
      spans == step < ForwardWindow /\ reading.rate = last.rate /\ grown < ForwardWindow
  IN IF late THEN [ss EXCEPT !.lateRun = @ + 1, !.refused = FALSE]
     ELSE [ss EXCEPT !.held[id] = reading, !.lateRun = 0, !.refused = FALSE,
                     !.pool = IF spans THEN @ + grown ELSE @]

TrackedSample(ss, id, reading, ttl) ==
  IF id \in DOMAIN ss.held THEN KnownSampler(ss, id, reading)
                           ELSE NewSampler(ss, id, reading, ttl)
=============================================================================
