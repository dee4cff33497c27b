--------------------------- MODULE MCTemplateStore ---------------------------
\* Small instances of TemplateStore: device a with domains a1 and a2, which
\* share a sampler table, and device b with b1.
EXTENDS TemplateStore, TLC

CONSTANTS a, b, a1, a2, b1, t1, t2, w1, w2

MCExporterOf == [k \in Domains |-> IF k = b1 THEN b ELSE a]
MCTableOf == MCExporterOf
\* One device on one worker; device b handled by either of two, as the locks
\* allow and sharding does not.
MCOneWorker == w1 :> {a}
MCPartly == (w1 :> {a, b}) @@ (w2 :> {b})

\* What the properties of the run can tell apart.  What a sampler table holds
\* guides no action outside the tables, and no action reads announced; a
\* template no budget has room for is never decoded by, so that to have
\* announced it is to have announced none.
MCView ==
  <<indexes, heap, budgets, DOMAIN tables, worker, sweeper, now,
    [k \in Domains |-> [ref \in Refs |->
       IF announced[k][ref] <= MaxFields THEN announced[k][ref] ELSE 0]]>>

MCSymmetry == Permutations({a1, a2}) \cup Permutations({t1, t2})
=============================================================================
