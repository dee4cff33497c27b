------------------------------ MODULE MCPipeline ------------------------------
\* Pipeline on a small instance: devices x and y on workers wx and wy, and one
\* listener whose socket receives two datagrams of x around one of y.
EXTENDS Pipeline, TLC

CONSTANTS l1, x, y, wx, wy, dx1, dx2, dy1

MCShardOf == (x :> wx) @@ (y :> wy)
MCSourceOf == [d \in Datagrams |-> IF d = dy1 THEN y ELSE x]
MCArrivals == l1 :> <<dx1, dy1, dx2>>
===============================================================================
