------------------------------- MODULE Device --------------------------------
(* The exporting device, as the decoder's code and tests take it to behave:  *)
(* what each protocol lets it put in a datagram, the malformed included.     *)
(* Nothing here models code; it is the environment of Datagrams.             *)
EXTENDS Walk

CONSTANTS
  FirstLayouts,  \* the layouts of its templates 1 and 2 when it boots
  Layouts,       \* those it may redefine the first to
  Samplers,      \* the data sources it samples, under sFlow
  First          \* the one of them whose samples come in every form
-----------------------------------------------------------------------------
(* NetFlow v9 and IPFIX.  Data is encoded in the layout announced last.     *)

FieldBytes(width, long) ==
  CASE width # Variable         -> [i \in 1..width |-> 0]
    [] width = Variable /\ long -> <<Base - 1, 0, 1, 0>>
    [] OTHER                    -> <<1, 0>>

RecordOf(l, long) ==
  IF l = Unreadable THEN <<0>>
  ELSE FlattenSeq([i \in DOMAIN l.fields |-> FieldBytes(l.fields[i], long)])

\* n records, and padding shorter than one.
DataSet(id, l, n) ==
  LET records == [i \in 1..n |-> RecordOf(l, i = 2)]
      pad == IF l # Unreadable /\ ~HasVariable(l) THEN [i \in 1..(Sum(l.fields) - 1) |-> 0] ELSE <<>>
  IN [kind |-> "data", id |-> id, by |-> l, of |-> records, body |-> FlattenSeq(records) \o pad]

\* A body cut short of its first record: inside a length prefix, or whole.
Torn(s) ==
  [s EXCEPT !.body = IF s.by # Unreadable /\ HasVariable(s.by) THEN <<Base - 1, 0>> ELSE <<>>]

TemplateSet(items) == [kind |-> "templates", items |-> items]
Item(id, l) == [id |-> id, layout |-> l]
Of(kind) == [kind |-> kind]

\* The messages of a device whose layouts are cur, each with those it leaves.
Messages(cur) ==
  LET same(sets) == [sets |-> sets, cur |-> cur]
      now(l, sets) == [sets |-> sets, cur |-> [cur EXCEPT ![1] = l]]
  IN {same(<<DataSet(1, cur[1], 2), DataSet(2, cur[2], 1)>>),
      same(<<Of("reserved"), DataSet(1, cur[1], 1)>>),
      same(<<TemplateSet(<<Item(2, cur[2]), Item(2, Empty), Item(1, cur[1])>>)>>),
      now(Unreadable, <<TemplateSet(<<Item(1, Unreadable), Item(2, cur[2])>>), DataSet(2, cur[2], 1)>>)}
     \cup UNION {{now(l, <<TemplateSet(<<Item(1, l)>>), DataSet(1, l, 2)>>),
                  now(l, <<TemplateSet(<<Item(1, l)>>), DataSet(1, l, 1), Of("broken")>>),
                  now(l, <<Torn(DataSet(1, cur[1], 1)), TemplateSet(<<Item(1, l)>>)>>)} : l \in Layouts}

\* The records a message's sequence number counts.
Numbered(sets) == FoldLeft(LAMBDA n, s : IF s.kind = "data" THEN n + Len(s.of) ELSE n, 0, sets)
-----------------------------------------------------------------------------
(* sFlow.  sampling maps a sampler to its samples so far, its pool as it     *)
(* would read in full, and its rate; a sample adds one to the first and the  *)
(* packets it was drawn from to the second.                                  *)

Sample(sampling, id, grown, records) ==
  [kind |-> "flow", id |-> id, idx |-> sampling[id].idx + 1,
   total |-> sampling[id].total + grown, rate |-> sampling[id].rate,
   records |-> records, torn |-> FALSE]

Packet(kind, reads) == [kind |-> kind, reads |-> reads]

SampleLists(sampling) ==
  LET both == <<Packet("sampled", TRUE), Packet("raw", TRUE)>>
      of(i, grown, records) == Sample(sampling, i, grown, records)
  IN {<<of(i, 3, both)>> : i \in Samplers}
     \cup {<<Of("vendor"), of(First, 1, both), of(i, 3, <<Packet("layer", TRUE)>>)>> : i \in Samplers \ {First}}
     \cup {<<Of("short"), of(First, 3, <<Packet("raw", FALSE), Packet("sampled", TRUE)>>), Of("cut")>>,
           <<[of(First, 1, both) EXCEPT !.torn = TRUE]>>}

SamplingAfter(sampling, samples) ==
  [i \in Samplers |->
     LET own == SelectSeq(samples, LAMBDA s : s.kind = "flow" /\ s.id = i)
     IN IF own = <<>> THEN sampling[i]
        ELSE [sampling[i] EXCEPT !.idx = own[1].idx, !.total = own[1].total]]
=============================================================================
