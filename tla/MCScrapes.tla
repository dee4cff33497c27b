----------------------------- MODULE MCScrapes ------------------------------
(* A small world for Scrapes: one device, three hosts, and two or three     *)
(* versions of every file, some of which cannot be read.                    *)
EXTENDS Scrapes

CONSTANTS Damaged

Device == <<1, 1>>
A == <<0, 0>>
B == <<0, 1>>
C == <<1, 0>>

MCDevice(name, ports, vlans) == [addr |-> Device, hostname |-> name, interfaces |-> ports, vlans |-> vlans]
MCVlan(name, prefixes) == [name |-> name, prefixes |-> prefixes]

MCContent ==
  [mapping |-> <<
     [devices |-> <<MCDevice("edge", 1 :> "up", 1 :> MCVlan("lan", <<<<0>>>>))>>, services |-> (<<6, 3>> :> "web")],
     [devices |-> <<MCDevice("core", 1 :> "down" @@ 2 :> "side",
                             1 :> MCVlan("lab", <<<<0>>>>) @@ 2 :> MCVlan("", <<<<0, 1>>>>))>>,
      services |-> <<>>],
     \* Two VLANs claiming one prefix.
     [devices |-> <<MCDevice("dup", 1 :> "up", 1 :> MCVlan("x", <<<<0>>>>) @@ 2 :> MCVlan("y", <<<<0>>>>))>>,
      services |-> <<>>]>>,
   asn     |-> <<A :> [as |-> 1, org |-> "one"] @@ B :> [as |-> 2, org |-> ""],
                 A :> [as |-> 1, org |-> "uno"] @@ B :> [as |-> 2, org |-> "two"]>>,
   country |-> <<A :> "aa", Damaged>>,
   list1   |-> <<{A}, Damaged, {C}>>,
   list2   |-> <<{}, {B}>>]

MCBuiltin == <<6, 3>> :> "http" @@ <<6, 4>> :> "mail"

Plain == [exporter |-> Device, odid |-> 0, aggregated |-> FALSE, addr |-> [src |-> A, dst |-> B],
          port |-> [src |-> 1, dst |-> 3], as |-> [src |-> 0, dst |-> 0],
          country |-> [src |-> "", dst |-> ""], vlan |-> [src |-> 0, dst |-> 0],
          flagged |-> [src |-> FALSE, dst |-> FALSE], protocol |-> 6, app |-> "", appId |-> 0,
          input |-> 1, output |-> 2, flags |-> <<2>>, tos |-> <<8>>, bytes |-> 2, rate |-> 2, measured |-> TRUE]
Reply == [Plain EXCEPT !.addr = [src |-> B, dst |-> C], !.port = [src |-> 4, dst |-> 1], !.as = [src |-> 9, dst |-> 0],
                       !.input = 0, !.bytes = 0, !.measured = FALSE, !.rate = 0, !.appId = 5]
Fold  == [Plain EXCEPT !.aggregated = TRUE, !.bytes = 7, !.rate = 3]

MCArrivals == {Plain, Reply, Fold}

MCOthers == {Row("build_info", "gauge", <<>>, 1), Row("flow_bytes", "histogram", <<"device">>, 0)}

MCNone == [write |-> 0, reload |-> 0, record |-> 0, scrape |-> 0, push |-> 0, list |-> 0]

MCEntry(bytes, born) == [bytes |-> bytes, flows |-> 1, measured |-> bytes > 0, born |-> born]
\* Tables of n hosts, of every size and every tie.
MCHosts(n) == {[hosts |-> [k \in {<<Device, A, B, i, 0>> : i \in 1..n} |-> MCEntry(f[k[4]], k[4])]] : f \in [1..n -> 0..2]}

\* Tables of saturated hosts, whose withheld sum wraps.
MCSaturated == {[hosts |-> [k \in {<<Device, A, B, i, 0>> : i \in 1..4} |-> MCEntry(f[k[4]], k[4])]] :
                  f \in [1..4 -> {Width - 1, Width - 2}]}

MCScene(todo, tabs, entries) == [left |-> todo @@ MCNone, enabled |-> tabs, entries |-> entries]

MCScenes ==
  {MCScene([write |-> 3, reload |-> 2], {}, <<>>),
   MCScene([record |-> 2, scrape |-> 1], {"exporters", "hosts", "asns"}, <<>>),
   MCScene([write |-> 1, reload |-> 1, record |-> 1, scrape |-> 1], {"asns", "threats", "vlans"}, <<>>),
   MCScene([record |-> 1, scrape |-> 1], ToSet(Order), <<>>),
   MCScene([record |-> 1, push |-> 3], {"hosts"}, <<>>),
   MCScene([scrape |-> 1, push |-> 1], {"hosts"}, <<>>),
   MCScene([record |-> 1, list |-> 3], {"exporters", "hosts"}, <<>>)}
  \cup {MCScene([scrape |-> 1], {"hosts"}, e) : e \in MCHosts(4) \cup MCHosts(5)}
  \cup {MCScene([list |-> 1], {"hosts"}, e) : e \in MCHosts(4) \cup MCSaturated}
=============================================================================
