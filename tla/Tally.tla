-------------------------------- MODULE Tally --------------------------------
(***************************************************************************)
(* What an aggregation table promises of the records handed to it, with    *)
(* no locks, no clock and no scrape: each record ends up counted in one    *)
(* place, its own key's series or the "other" series, and leaves its own   *)
(* series only with everything else that series counted.                   *)
(***************************************************************************)
EXTENDS FiniteSets

CONSTANTS Keys, Records, KeyOf

VARIABLES
  series,   \* key -> the records its series counts
  other,    \* the records the "other" series counts
  gone      \* the records whose series was dropped for idleness

vars == <<series, other, gone>>

Counted == other \cup gone \cup UNION {series[k] : k \in Keys}

Init ==
  /\ series = [k \in Keys |-> {}]
  /\ other = {}
  /\ gone = {}

\* A record not counted yet is counted under its own key.
Count(r) ==
  /\ r \notin Counted
  /\ series' = [series EXCEPT ![KeyOf[r]] = @ \cup {r}]
  /\ UNCHANGED <<other, gone>>

\* A record the table has no room for is counted under "other".
Refuse(r) ==
  /\ r \notin Counted
  /\ other' = other \cup {r}
  /\ UNCHANGED <<series, gone>>

\* Idle series are dropped whole; what they counted moves nowhere else.
Drop(K) ==
  /\ gone' = gone \cup UNION {series[k] : k \in K}
  /\ series' = [k \in Keys |-> IF k \in K THEN {} ELSE series[k]]
  /\ UNCHANGED other

Next ==
  \/ \E r \in Records : Count(r) \/ Refuse(r)
  \/ \E K \in SUBSET Keys : Drop(K)

Spec == Init /\ [][Next]_vars
=============================================================================
