---------------------------- MODULE MCSamplerTable ----------------------------
\* A small instance of SamplerTable: the domains of one device, and rates that
\* are interchangeable.
EXTENDS SamplerTable, TLC

CONSTANTS d1, d2, r1, r2

MCSymmetry == Permutations(Domains) \cup Permutations(Rates)

\* Two kinds are left out, as each takes part of the way of another: the selector
\* numbered 0 that of the other selector, the record of no interface that of one.
MCArriving ==
  {rec \in Records :
     \/ rec.by = "sampler"
     \/ rec.by = "selector" /\ rec.id # Unsampled
     \/ rec.by = "nothing" /\ rec.interface # None}

\* What was seen no earlier than one TTL before the clock stops is never silent,
\* so that it does not matter when.
Aged(held) ==
  [x \in DOMAIN held |->
     <<held[x].rate, IF held[x].lastSeen < MaxTime - TTL THEN held[x].lastSeen ELSE MaxTime>>]

MCView ==
  <<Aged(declared), Aged(domains), hasScoped, inherited, sampled, declaredZero,
    worker, sweeper, now, inForce>>
=============================================================================
