------------------------------ MODULE MCOutbox ------------------------------
\* Overlapping ticks of one process.
EXTENDS Outbox, TLC

CONSTANTS p1, k1, k2

OneProc == [k \in Ticks |-> p1]

\* Nothing but the names tells the ticks of one process apart.
AnyTicks == Permutations({k1, k2})
=============================================================================
