-------------------------------- MODULE Walk --------------------------------
(* The sets of one NetFlow v9 or IPFIX message, walked against the         *)
(* templates a domain holds (decoder/netflow9.go, decoder/ipfix.go and the *)
(* template half of decoder/templates.go).  Each operator takes a state    *)
(* apart and returns the next one, so a whole message is one fold over its *)
(* sets.  A layout is the list of its field widths; a set's body is a      *)
(* sequence of bytes, a byte being a digit of Base as it is one of 256 on  *)
(* the wire, so that Base - 1 is the escape to a two-byte length.          *)
EXTENDS Integers, Sequences, FiniteSets, TLC, SequencesExt

CONSTANTS
  Base,       \* the values of a byte
  Variable,   \* the width that marks a variable-length field, 65535 in the code
  MaxSet,     \* the longest body a set can carry
  MaxHeld,    \* maxTemplatesPerDomain
  MaxFields,  \* maxTemplateFieldsPerExporter, this domain being its device's
  Ttl         \* the template TTL

ASSUME WalkAssumption ==
  /\ {Base, Variable, MaxSet, MaxHeld, MaxFields, Ttl} \subseteq Nat \ {0}
  /\ Base > 1 /\ MaxSet < Variable

\* A layout is [fields, options]; two stand for announcements that have none.
Unreadable == [fields |-> <<>>, options |-> FALSE]  \* stepped over by the parser
Empty == [fields |-> <<>>, options |-> TRUE]        \* of a field count of zero
-----------------------------------------------------------------------------
(* Layouts and records.                                                    *)

Sum(s) == FoldLeft(LAMBDA a, w : a + w, 0, s)

RecordLen(proto, l) ==
  IF proto = "v9" THEN Sum(l.fields)
  ELSE Sum([i \in DOMAIN l.fields |-> IF l.fields[i] = Variable THEN 1 ELSE l.fields[i]])

FitsASet(proto, l) == RecordLen(proto, l) \in 1..MaxSet

HasVariable(l) == \E i \in DOMAIN l.fields : l.fields[i] = Variable

Unfit == -1

\* The offset past one field, offsets counting from 0.
FieldEnd(width, set, offset) ==
  LET short == set[offset + 1]
      past(start, length) == IF start + length <= Len(set) THEN start + length ELSE Unfit
  IN CASE width # Variable                                  -> past(offset, width)
       [] width = Variable /\ offset >= Len(set)            -> Unfit
       [] /\ width = Variable /\ offset < Len(set)
          /\ short # Base - 1                               -> past(offset + 1, short)
       [] OTHER -> IF offset + 3 > Len(set) THEN Unfit
                   ELSE past(offset + 3, Base * set[offset + 2] + set[offset + 3])

RecordEnd(l, set, offset) ==
  FoldLeft(LAMBDA at, w : IF at = Unfit THEN Unfit ELSE FieldEnd(w, set, at), offset, l.fields)

\* Mutant: a data set is checked for its first record only.
HoldsOneRecord(l, set) == Len(set) >= RecordLen("ipfix", l)

HoldsRecords(l, set) ==
  LET need == RecordLen("ipfix", l)
      ends[at \in 0..Len(set)] ==
        LET next == RecordEnd(l, set, at)
        IN Len(set) - at < need \/ (next # Unfit /\ ends[next])
  IN Len(set) >= need /\ (HasVariable(l) => ends[0])

\* The records an IPFIX data set yields, and whether the walk reached its end.
VariableRecords(l, set) ==
  LET need == RecordLen("ipfix", l)
      cut[at \in 0..Len(set)] ==
        LET next == RecordEnd(l, set, at)
        IN CASE Len(set) - at < need                 -> [records |-> <<>>, walked |-> TRUE]
             [] Len(set) - at >= need /\ next = Unfit -> [records |-> <<>>, walked |-> FALSE]
             [] OTHER -> [records |-> <<SubSeq(set, at + 1, next)>> \o cut[next].records,
                          walked  |-> cut[next].walked]
  IN cut[0]

FixedRecords(l, set) ==
  LET width == RecordLen("v9", l)
  IN [i \in 1..(Len(set) \div width) |-> SubSeq(set, (i - 1) * width + 1, i * width)]
-----------------------------------------------------------------------------
(* The templates one domain holds.  ts.held maps a templateRef to its      *)
(* layout and the instant it was announced, ts.oldest is templatesOldest.  *)

NoTemplates == [held |-> <<>>, oldest |-> 0]

Dropped(ts, refs) == [ts EXCEPT !.held = [r \in DOMAIN @ \ refs |-> @[r]]]

FieldsOf(ts, refs) == FoldLeft(LAMBDA a, r : a + Len(ts.held[r].layout.fields), 0, SetToSeq(refs))

Fits(ts, ref, l) ==
  /\ ref \in DOMAIN ts.held \/ Cardinality(DOMAIN ts.held) < MaxHeld
  /\ FieldsOf(ts, DOMAIN ts.held \ {ref}) + Len(l.fields) <= MaxFields

\* Mutant: the oldest stamp is the pruning's, whatever is kept.
ExpiredPrunedAtNow(ts, now) ==
  LET old   == {r \in DOMAIN ts.held : now - ts.held[r].at > Ttl}
  IN [Dropped(ts, old) EXCEPT !.oldest = now]

ExpiredPruned(ts, now) ==
  LET old   == {r \in DOMAIN ts.held : now - ts.held[r].at > Ttl}
      kept  == {ts.held[r].at : r \in DOMAIN ts.held \ old} \cup {now}
  IN [Dropped(ts, old) EXCEPT !.oldest = CHOOSE t \in kept : \A u \in kept : t <= u]

Stored(ts, ref, l, now) == [ts EXCEPT !.held = (ref :> [layout |-> l, at |-> now]) @@ @]

\* add: a bound that pruning does not lift refuses, and withdraws the layout held.
Added(ts, ref, l, now) ==
  LET room == IF ~Fits(ts, ref, l) /\ now - ts.oldest > Ttl THEN ExpiredPruned(ts, now) ELSE ts
  IN IF Fits(room, ref, l) THEN Stored(room, ref, l, now) ELSE Dropped(room, {ref})

Known(ts, ref, now) == ref \in DOMAIN ts.held /\ now - ts.held[ref].at <= Ttl
-----------------------------------------------------------------------------
(* Template sets.  An item is an announcement: [id, layout], layout being  *)
(* Unreadable or Empty where the parser compiles none.                     *)

Compiles(proto, l) == l \notin {Unreadable, Empty} /\ FitsASet(proto, l)

Registered(proto, ts, ref, l, now) ==
  IF Compiles(proto, l) THEN Added(ts, ref, l, now) ELSE Dropped(ts, {ref})

\* A v9 set is trusted no further than an announcement of no field, which
\* withdraws; an IPFIX set is read past one, which is ignored.
ReadItems(proto, items) ==
  LET empty == {i \in DOMAIN items : items[i].layout = Empty}
      first == CHOOSE i \in empty : \A j \in empty : i <= j
  IN IF proto = "v9" THEN (IF empty = {} THEN items ELSE SubSeq(items, 1, first))
     ELSE SelectSeq(items, LAMBDA it : it.layout # Empty)
-----------------------------------------------------------------------------
(* One set.  w accumulates the walk: the templates, the records, how many  *)
(* data records the sequence is told of and whether that count stands.     *)

Walking(ts) ==
  [ts |-> ts, out |-> <<>>, records |-> 0, complete |-> TRUE, failed |-> FALSE, issues |-> {}]

Issue(w, reason) == [w EXCEPT !.issues = @ \cup {reason}]

\* An announcement withdrawn or refused is counted.
Announced(proto, w, port, items, now) ==
  LET one(v, it) ==
        LET ref == [port |-> port, id |-> it.id]
            ts  == Registered(proto, v.ts, ref, it.layout, now)
        IN [IF ref \in DOMAIN ts.held THEN v ELSE Issue(v, "invalid_template") EXCEPT !.ts = ts]
  IN FoldLeft(one, w, ReadItems(proto, items))

Took(w, l, records) ==
  [w EXCEPT !.records = @ + Len(records),
            !.out = IF l.options THEN @
                    ELSE @ \o [i \in DOMAIN records |-> [layout |-> l, value |-> records[i]]]]

V9Data(w, ref, body, now) ==
  IF ~Known(w.ts, ref, now) THEN Issue(w, "missing_template")
  ELSE LET l == w.ts.held[ref].layout
       IN CASE HasVariable(l)                -> Issue(w, "invalid_template")
            [] ~HasVariable(l) /\ FixedRecords(l, body) = <<>> -> Issue(w, "malformed")
            [] OTHER                         -> Took(w, l, FixedRecords(l, body))

IPFIXData(w, ref, body, now) ==
  IF ~Known(w.ts, ref, now) THEN [Issue(w, "missing_template") EXCEPT !.complete = FALSE]
  ELSE LET l   == w.ts.held[ref].layout
           cut == VariableRecords(l, body)
       IN IF cut.walked THEN Took(w, l, cut.records)
          ELSE [Issue(Took(w, l, cut.records), "malformed") EXCEPT !.complete = FALSE]

\* A v9 set of broken length ends the walk and fails the datagram.
DecodedSet(proto, port, now, w, s) ==
  LET ref == [port |-> port, id |-> s.id]
  IN CASE w.failed               -> w
       [] ~w.failed /\ s.kind = "broken"    -> [w EXCEPT !.failed = TRUE]
       [] ~w.failed /\ s.kind = "reserved"  ->
            [Issue(w, "reserved_set") EXCEPT !.complete = @ /\ proto = "v9"]
       [] ~w.failed /\ s.kind = "templates" -> Announced(proto, w, port, s.items, now)
       [] OTHER -> IF proto = "v9" THEN V9Data(w, ref, s.body, now) ELSE IPFIXData(w, ref, s.body, now)

Walked(proto, ts, port, sets, now) ==
  FoldLeft(LAMBDA w, s : DecodedSet(proto, port, now, w, s), Walking(ts), sets)
-----------------------------------------------------------------------------
(* The length check ahead of an IPFIX walk.  It keeps what the message     *)
(* announces apart from what the store holds, and reads on behind a failed *)
(* data set; a broken set ends it.                                         *)

Checked(ts, port, sets, now) ==
  LET one(c, s) ==
        LET ref == [port |-> port, id |-> s.id]
            names == IF ref \in DOMAIN c.announced THEN c.announced[ref]
                     ELSE IF Known(ts, ref, now) THEN ts.held[ref].layout ELSE Unreadable
        IN CASE c.ended                         -> c
             [] ~c.ended /\ s.kind = "broken"    -> [c EXCEPT !.err = TRUE, !.ended = TRUE]
             [] ~c.ended /\ s.kind = "templates" ->
                  [c EXCEPT !.announced =
                     FoldLeft(LAMBDA a, it :
                                ([port |-> port, id |-> it.id] :>
                                   IF Compiles("ipfix", it.layout) THEN it.layout ELSE Unreadable) @@ a,
                              @, ReadItems("ipfix", s.items))]
             [] ~c.ended /\ s.kind = "data"      ->
                  [c EXCEPT !.err = @ \/ (names # Unreadable /\ ~HoldsRecords(names, s.body))]
             [] OTHER                           -> c
  IN FoldLeft(one, [announced |-> <<>>, err |-> FALSE, ended |-> FALSE], sets)

\* Mutant: a message that fails the check leaves the templates as they are.
WithdrawnNothing(ts, check, now) == ts

\* What a message the check fails leaves of the templates.
Withdrawn(ts, check, now) ==
  Dropped(ts, {r \in DOMAIN check.announced :
                 Known(ts, r, now) /\ check.announced[r] # ts.held[r].layout})
=============================================================================
