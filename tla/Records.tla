------------------------------ MODULE Records -------------------------------
(* One flow record on its way from the decoder to the aggregation tables:   *)
(* what the enrichment sources fill of it (enrich/), and which tables it    *)
(* feeds under which keys (aggregator/aggregator.go).  Everything here is a  *)
(* function of the record and of what the sources hold.                     *)
(* A record carries its two ends as functions over Sides; an address is the *)
(* sequence of its bits, <<>> standing for one that is not valid.  Every    *)
(* dimension has a zero that reads as its absence, as in the code.          *)
EXTENDS Integers, Sequences, FiniteSets, TLC, SequencesExt, FiniteSetsExt

CONSTANTS
  Content,    \* file -> version -> what the file reads as, or Unreadable
  Unreadable,
  Builtin,    \* <<protocol, port>> -> the name the built-in table gives it
  Private,    \* the private addresses
  MaxNames,   \* maxASNNames
  IfIndexMax, VLANIDMax,
  Width       \* 2^64, where the counters wrap

Sides == {"src", "dst"}
NoName == ""
TCP == 6
-----------------------------------------------------------------------------
(* The mapping file.  A document lists its devices as written, so that one  *)
(* address may come twice under two spellings; " " is a name no reader      *)
(* could tell from another.                                                 *)

Label(name) == name \notin {NoName, " "}

ValidDevice(d) ==
  /\ d.hostname # NoName \/ DOMAIN d.interfaces # {} \/ DOMAIN d.vlans # {}
  /\ d.hostname # NoName => Label(d.hostname)
  /\ \A n \in DOMAIN d.interfaces : n \in 1..IfIndexMax /\ Label(d.interfaces[n])
  /\ \A id \in DOMAIN d.vlans :
       /\ id \in 1..VLANIDMax
       /\ d.vlans[id].name # NoName => Label(d.vlans[id].name)
       /\ d.vlans[id].prefixes # <<>>
       /\ \A i \in DOMAIN d.vlans[id].prefixes : d.vlans[id].prefixes[i] # <<>>
       /\ \A other \in DOMAIN d.vlans \ {id} :
            ToSet(d.vlans[id].prefixes) \cap ToSet(d.vlans[other].prefixes) = {}
       /\ IsInjective(d.vlans[id].prefixes)

\* One line the parse refuses fails the whole document.
Valid(doc) ==
  /\ \A i \in DOMAIN doc.devices : ValidDevice(doc.devices[i])
  /\ \A i, j \in DOMAIN doc.devices : doc.devices[i].addr = doc.devices[j].addr => i = j
  /\ \A at \in DOMAIN doc.services : at[2] > 0 /\ Label(doc.services[at])

NameSet(doc) ==
  LET devices == ToSet(doc.devices)
      of(addr) == CHOOSE d \in devices : d.addr = addr
      named == {d \in devices : d.hostname # NoName}
      ports == UNION {{<<d.addr, n>> : n \in DOMAIN d.interfaces} : d \in devices}
      vlans == UNION {{<<d.addr, id>> : id \in {i \in DOMAIN d.vlans : d.vlans[i].name # NoName}} : d \in devices}
      table(d) == [p \in UNION {ToSet(d.vlans[id].prefixes) : id \in DOMAIN d.vlans} |->
                     CHOOSE id \in DOMAIN d.vlans : p \in ToSet(d.vlans[id].prefixes)]
  IN [devices    |-> [addr \in {d.addr : d \in named} |-> of(addr).hostname],
      interfaces |-> [port \in ports |-> of(port[1]).interfaces[port[2]]],
      services   |-> doc.services,
      vlans      |-> [addr \in {d.addr : d \in devices} |-> table(of(addr))],
      vlanNames  |-> [vlan \in vlans |-> of(vlan[1]).vlans[vlan[2]].name]]

Readable(file, version) ==
  /\ Content[file][version] # Unreadable
  /\ file = "mapping" => Valid(Content.mapping[version])

\* What each source serves, of the versions of its files it holds.
Names(held) == NameSet(Content.mapping[held.mapping[1]])
Listed(held) == Content.list1[held.threat[1]] \cup Content.list2[held.threat[2]]
-----------------------------------------------------------------------------
(* The sources, in the order of the chain.  Each returns the record and     *)
(* whether it was filled, left unknown, or skipped as filled already.       *)

Outcome(r, result) == [record |-> r, result |-> result]

NamedByPort(r, names) ==
  LET at(side) == <<r.protocol, r.port[side]>>
      known == SelectSeq(<<"dst", "src">>, LAMBDA side : at(side) \in DOMAIN names)
  IN IF r.app # NoName \/ r.appId # 0 THEN Outcome(r, "skipped")
     ELSE IF known = <<>> THEN Outcome(r, "unknown")
     ELSE Outcome([r EXCEPT !.app = names[at(known[1])]], "filled")

ByMapping(r, held) == NamedByPort(r, Names(held).services)
ByServices(r) == NamedByPort(r, Builtin)

\* found[side] is zero where the source has nothing for that side.
WithSides(r, field, found, zero) ==
  LET filled == {side \in Sides : found[side] # zero}
  IN Outcome([r EXCEPT ![field] = [side \in Sides |-> IF side \in filled THEN found[side] ELSE @[side]]],
             IF filled = {} THEN "unknown" ELSE "filled")

\* The longest prefix that covers the address.
VLANOf(table, addr) ==
  LET hits == {p \in DOMAIN table : IsPrefix(p, addr)}
  IN IF addr = <<>> \/ hits = {} THEN 0
     ELSE table[CHOOSE p \in hits : \A q \in hits : Len(q) <= Len(p)]

OnVLANs(r, vlans) ==
  IF r.exporter \notin DOMAIN vlans THEN Outcome(r, "unknown")
  ELSE WithSides(r, "vlan", [side \in Sides |-> VLANOf(vlans[r.exporter], r.addr[side])], 0)

\* The sides a lookup is made for.
Unnumbered(r) == {side \in Sides : r.as[side] = 0 /\ r.addr[side] # <<>>}

\* Each side is looked up in the database served at that moment.
Numbered(r, systems) ==
  IF \A side \in Sides : r.as[side] # 0 THEN Outcome(r, "skipped")
  ELSE WithSides(r, "as", [side \in Sides |->
         IF side \in Unnumbered(r) /\ r.addr[side] \in DOMAIN systems[side]
         THEN systems[side][r.addr[side]].as ELSE 0], 0)

Placed(r, countries) ==
  WithSides(r, "country", [side \in Sides |->
    CASE r.addr[side] = <<>>      -> NoName
      [] r.addr[side] # <<>> /\ r.addr[side] \in Private -> "private"
      [] OTHER -> IF r.addr[side] \in DOMAIN countries[side] THEN countries[side][r.addr[side]] ELSE NoName], NoName)

Flagged(r, listed) == WithSides(r, "flagged", [side \in Sides |-> r.addr[side] \in listed], FALSE)

Chain == <<"mapping", "vlan", "services", "asn", "country", "threat">>

\* What a database serves a record's two lookups, of what is held at each.
ASNs(held) == Content.asn[held.asn[1]]
Countries(held) == Content.country[held.country[1]]

\* at[side]: what is held when that side is looked up.  A source that loads its
\* set once a record finds the same at both.
Enriched(source, r, at) ==
  CASE source = "mapping"  -> ByMapping(r, at["dst"])
    [] source = "vlan"     -> OnVLANs(r, Names(at["dst"]).vlans)
    [] source = "services" -> ByServices(r)
    [] source = "asn"      -> Numbered(r, [side \in Sides |-> ASNs(at[side])])
    [] source = "country"  -> Placed(r, [side \in Sides |-> Countries(at[side])])
    [] source = "threat"   -> Flagged(r, Listed(at["dst"]))

\* The names after the lookup of one side.
Noted(names, r, side, systems) ==
  IF side \notin Unnumbered(r) \/ r.addr[side] \notin DOMAIN systems THEN names
  ELSE LET found == systems[r.addr[side]]
       IN IF \/ found.org = NoName
             \/ found.as \notin DOMAIN names /\ Cardinality(DOMAIN names) >= MaxNames
          THEN names
          ELSE (found.as :> found.org) @@ names
-----------------------------------------------------------------------------
(* The tables a record feeds.                                               *)

\* The counts corrected by the sampling rate, which saturate.
Corrected(r) == Min({r.bytes * (IF r.rate = 0 THEN 1 ELSE r.rate), Width - 1})

\* A mapping being configured, as the chain has one here.
IsService(held, protocol, port) == <<protocol, port>> \in DOMAIN Names(held).services \cup DOMAIN Builtin

\* The destination's port is asked about first, the mapping loaded each time.
ServiceEnd(r, at) ==
  LET names(side) == IsService(at[side], r.protocol, r.port[side])
  IN IF ~names("dst") /\ names("src") THEN "src" ELSE "dst"

Application(r) ==
  CASE r.app # NoName                -> <<r.app>>
    [] r.app = NoName /\ r.appId # 0 -> <<"id", r.appId>>
    [] OTHER                         -> <<>>

Crosses(r) == <<r.input, r.output>>

\* The table and key pairs of one record; a dimension it lacks keys nothing.
Feeds(r, at) ==
  LET end  == ServiceEnd(r, at)
      both == \A side \in Sides : r.addr[side] # <<>>
      fed(table, admits, key) == IF admits THEN {<<table, <<r.exporter>> \o key>>} ELSE {}
      pair(of) == <<of["src"], of["dst"]>>
  IN fed("exporters", TRUE, <<r.odid>>)
     \cup IF r.aggregated THEN {} ELSE
       fed("hosts", both, pair(r.addr) \o Crosses(r))
       \cup fed("services", both /\ r.protocol # 0,
                pair(r.addr) \o <<r.protocol, r.port[end], end>> \o Crosses(r))
       \cup fed("destinations", r.addr["dst"] # <<>> /\ r.protocol # 0,
                <<r.addr["dst"], r.protocol, r.port[end], end>>)
       \cup fed("tcp_flags", r.protocol = TCP /\ r.flags # <<>>, r.flags)
       \cup fed("dscp", r.tos # <<>>, <<r.tos[1] \div 4>>)
       \cup fed("asns", \E side \in Sides : r.as[side] # 0, pair(r.as))
       \cup fed("applications", Application(r) # <<>>, Application(r))
       \cup fed("countries", \E side \in Sides : r.country[side] # NoName, pair(r.country))
       \cup fed("vlans", \E side \in Sides : r.vlan[side] # 0, pair(r.vlan))
       \cup UNION {fed("threats", r.flagged[side], <<r.addr[side], side>> \o Crosses(r)) : side \in Sides}
=============================================================================
