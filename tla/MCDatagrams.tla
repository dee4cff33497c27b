----------------------------- MODULE MCDatagrams -----------------------------
EXTENDS Datagrams

Fixed == [fields |-> <<2>>, options |-> FALSE]
Paired == [fields |-> <<1, 1>>, options |-> FALSE]
Ranged == [fields |-> <<Variable, 1>>, options |-> FALSE]
Options == [fields |-> <<1, 1, 1>>, options |-> TRUE]

MCFirstLayouts == <<Fixed, Options>>
MCLayouts == {Paired, Ranged}

One == {[port |-> "p1", engine |-> 0]}
MCStreams == [p \in Protocols |->
  IF p = "v8" THEN One \cup {[port |-> "p1", engine |-> 1], [port |-> "p2", engine |-> 0]} ELSE One]

MCMaxSends == [p \in Protocols |->
  CASE p = "v5" -> 5 [] p = "v8" -> 3 [] p = "v9" -> 3 [] p = "ipfix" -> 3 [] p = "sflow" -> 3]

MCMaxFaults == [p \in Protocols |-> IF p \in {"v8", "ipfix"} THEN 1 ELSE 2]

MCStarts == {Mod - 2}
MCJumps == [p \in Protocols |->
  CASE p = "v5" -> {Mod - 6} [] p = "v9" -> {} [] OTHER -> {Mod \div 2}]
\* A restart at a number that reads as late.
MCLowJumps == [p \in Protocols |-> {Mod - 3}]
=============================================================================
