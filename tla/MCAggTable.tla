----------------------------- MODULE MCAggTable -----------------------------
(* AggTable on small instances: two keys, two workers, three records, one  *)
(* of which (r2) lacks the count.  Two records share a key, so they meet   *)
(* in one entry; with room for one entry the other key's record is folded. *)
EXTENDS AggTable, TLC

CONSTANTS k1, k2, r1, r2, r3, w1, w2

MCKeyOf == [r \in Records |-> IF r = r3 THEN k2 ELSE k1]

MCMeasured == Records \ {r2}

\* Any worker may carry any record, so workers are interchangeable.
MCSymmetry == Permutations(Workers)
=============================================================================
