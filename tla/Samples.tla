------------------------------ MODULE Samples -------------------------------
(* The samples of one sFlow datagram (decoder/sflow5.go).  A flow sample    *)
(* feeds its sampler's counters whatever becomes of its records, and yields *)
(* at most one record however many describe its packet.                     *)
EXTENDS Sequence, Sequences, SequencesExt

NoRecord == [kind |-> "none", reads |-> FALSE]

\* The raw header wins over the pre-parsed forms, the first of equals over the rest.
Chosen(records) ==
  LET of(kinds) == SelectSeq(records, LAMBDA r : r.kind \in kinds)
      raw       == of({"raw", "layer"})
      packet    == of({"raw", "layer", "sampled"})
  IN CASE raw # <<>>                     -> raw[1]
       [] raw = <<>> /\ packet # <<>>    -> packet[1]
       [] OTHER                          -> NoRecord

Sampling(ss) == [ss |-> ss, out |-> <<>>, failed |-> FALSE, issues |-> {}]

Counts(w, reason) == [w EXCEPT !.issues = @ \cup {reason}]

\* A raw header of another link layer, or a record of a known form that does
\* not parse, is counted and yields nothing.
Appended(w, sample) ==
  LET one == Chosen(sample.records)
  IN CASE one.kind = "none"                      -> w
       [] one.kind = "layer"                     -> Counts(w, "unsupported_header_protocol")
       [] one.kind \in {"raw", "sampled"} /\ ~one.reads -> Counts(w, "malformed")
       [] OTHER                                  -> [w EXCEPT !.out = Append(@, sample.id)]

FlowSample(w, sample, at, ttl) ==
  LET reading == [seq |-> sample.seq, rate |-> sample.rate, pool |-> sample.pool, lastSeen |-> at]
      tracked == [w EXCEPT !.ss = TrackedSample(@, sample.id, reading, ttl)]
  IN IF sample.torn THEN Counts(tracked, "malformed") ELSE Appended(tracked, sample)

\* "cut": a sample longer than what is left, which fails the datagram and so
\* leaves the samples ahead of it counted and their records undone;
\* "short": one whose head is not all there; the rest are stepped over.
DecodedSample(at, ttl, w, sample) ==
  CASE w.failed                                -> w
    [] ~w.failed /\ sample.kind = "cut"        -> [w EXCEPT !.failed = TRUE]
    [] ~w.failed /\ sample.kind = "short"      -> Counts(w, "malformed")
    [] ~w.failed /\ sample.kind = "flow"       -> FlowSample(w, sample, at, ttl)
    [] OTHER                                   -> w

Sampled(ss, samples, at, ttl) ==
  FoldLeft(LAMBDA w, s : DecodedSample(at, ttl, w, s), Sampling(ss), samples)
=============================================================================
