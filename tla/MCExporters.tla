------------------------------ MODULE MCExporters ------------------------------
\* Small instances of Exporters: three devices, room for fewer.
EXTENDS Exporters, TLC

CONSTANTS a, b, c, da1, da2, db1, db2, dc1, w1, w2

MCSourceOf == [d \in Datagrams |-> IF d \in {da1, da2} THEN a ELSE IF d \in {db1, db2} THEN b ELSE c]
MCSharded == [w \in Workers |-> IF w = w1 THEN {a} ELSE {b, c}]
\* Device b is handled by either worker, as the locks allow and sharding does not.
MCPartly == [w \in Workers |-> IF w = w1 THEN {a, b} ELSE {b, c}]
=============================================================================
