------------------------------- MODULE Streams -------------------------------
(***************************************************************************)
(* What the ingest path promises a stream, the datagrams one exporter      *)
(* sends one listener: each is lost, or delivered to the decoder once, and *)
(* those delivered are delivered in the order they arrived in.             *)
(***************************************************************************)
EXTENDS Naturals, Sequences, SequencesExt

CONSTANTS Keys, Arriving   \* the streams, and what arrives on each, in order

VARIABLES
  waiting,    \* per stream, what is neither delivered nor lost yet
  delivered   \* per stream, what was delivered

vars == <<waiting, delivered>>

Init ==
  /\ waiting = Arriving
  /\ delivered = [s \in Keys |-> <<>>]

Deliver(s) ==
  /\ waiting[s] # <<>>
  /\ delivered' = [delivered EXCEPT ![s] = Append(@, Head(waiting[s]))]
  /\ waiting' = [waiting EXCEPT ![s] = Tail(@)]

Lose(s) ==
  /\ \E i \in DOMAIN waiting[s] : waiting' = [waiting EXCEPT ![s] = RemoveAt(@, i)]
  /\ UNCHANGED delivered

Next == \E s \in Keys : Deliver(s) \/ Lose(s)

Spec == Init /\ [][Next]_vars
=============================================================================
