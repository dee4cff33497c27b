-------------------------------- MODULE Cut ---------------------------------
(* What a reader of one aggregation table publishes of it                   *)
(* (collector/flows.go, collector/entries.go).  A snapshot is a sequence of *)
(* entries in whatever order the map was ranged in; the cut orders no more  *)
(* of it than it publishes.                                                 *)
EXTENDS Integers, Sequences, TLC, SequencesExt

CONSTANTS
  TopK,     \* entries a scrape publishes per table
  MinBytes  \* an entry below it is withheld

ASSUME CutAssumption == {TopK, MinBytes} \subseteq Nat

\* compareEntries below zero.
Before(a, b) == a.bytes > b.bytes \/ (a.bytes = b.bytes /\ a.born < b.born)

Ordered(entries) == SortSeq(entries, Before)

Swapped(s, i, j) == [s EXCEPT ![i] = s[j], ![j] = s[i]]
SwappedIf(misplaced, s, i, j) == IF misplaced THEN Swapped(s, i, j) ELSE s

\* s with lo..hi split around the median of its first, middle and last, and
\* where that median landed.
Partitioned(s, lo, hi) ==
  LET mid == lo + (hi - lo) \div 2
      s1 == SwappedIf(Before(s[mid], s[lo]), s, lo, mid)
      s2 == SwappedIf(Before(s1[hi], s1[lo]), s1, lo, hi)
      s3 == SwappedIf(Before(s2[hi], s2[mid]), s2, mid, hi)
      pivot == s3[mid]
      moved(a, i) == IF Before(a.s[i], pivot)
                     THEN [s |-> Swapped(a.s, a.at, i), at |-> a.at + 1] ELSE a
      split == FoldLeft(moved, [s |-> Swapped(s3, mid, hi), at |-> lo],
                        [i \in 1..(hi - lo) |-> lo + i - 1])
  IN [s |-> Swapped(split.s, split.at, hi), at |-> split.at]

\* Mutant: the selection stops at a pivot past the cut.
SelectedLoosely(s, k) ==
  LET round(w, i) ==
        LET p == Partitioned(w.s, w.lo, w.hi)
        IN CASE w.lo >= w.hi                  -> w
             [] w.lo < w.hi /\ p.at >= k      -> [s |-> p.s, lo |-> w.hi, hi |-> w.hi]
             [] OTHER                         -> [w EXCEPT !.s = p.s, !.lo = p.at + 1]
  IN FoldLeft(round, [s |-> s, lo |-> 1, hi |-> Len(s)], s).s

\* s with its k first in order at the front.  Each round narrows lo..hi.
Selected(s, k) ==
  LET round(w, i) ==
        LET p == Partitioned(w.s, w.lo, w.hi)
        IN CASE w.lo >= w.hi                  -> w
             [] w.lo < w.hi /\ p.at = k       -> [s |-> p.s, lo |-> w.hi, hi |-> w.hi]
             [] w.lo < w.hi /\ p.at < k       -> [w EXCEPT !.s = p.s, !.lo = p.at + 1]
             [] OTHER                         -> [w EXCEPT !.s = p.s, !.hi = p.at - 1]
  IN FoldLeft(round, [s |-> s, lo |-> 1, hi |-> Len(s)], s).s

\* The prefix of an ordered table that keeps its own labels.
CutOf(entries) ==
  LET top == SubSeq(entries, 1, IF TopK < Len(entries) THEN TopK ELSE Len(entries))
      low == {i \in DOMAIN top : top[i].bytes < MinBytes}
  IN IF low = {} THEN top ELSE SubSeq(top, 1, (CHOOSE i \in low : \A j \in low : i <= j) - 1)

Published(s) ==
  CutOf(IF TopK < Len(s)
        THEN Ordered(SubSeq(Selected(s, TopK), 1, TopK)) \o SubSeq(Selected(s, TopK), TopK + 1, Len(s))
        ELSE Ordered(s))

\* One table as /entries lists it: whole for the per-device table.  The sum
\* withheld wraps where the counters do, at width.
Report(s, uncut, width) ==
  LET rows == Ordered(s)
      cut  == IF uncut THEN rows ELSE CutOf(rows)
      tail == SubSeq(rows, Len(cut) + 1, Len(rows))
  IN [rows |-> rows, published |-> Len(cut),
      withheld |-> FoldLeft(LAMBDA sum, e : (sum + e.bytes) % width, 0, tail),
      measured |-> \A i \in DOMAIN tail : tail[i].measured]
=============================================================================
