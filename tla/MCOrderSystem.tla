--------------------------- MODULE MCOrderSystem ---------------------------
EXTENDS OrderSystem, TLC

CONSTANTS o1, o2, m1, m2, m3

\* The event of o1 reaches the queue up to twice.
MCOrderOf == m1 :> o1 @@ m2 :> o1 @@ m3 :> o2
=============================================================================
