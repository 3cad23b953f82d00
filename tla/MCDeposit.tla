----------------------------- MODULE MCDeposit -----------------------------
\* A payment heard of by the PSP's webhook and one by Autopay's ITN.
EXTENDS Deposit, TLC

CONSTANTS p1, p2

MCRoute == (p1 :> "psp") @@ (p2 :> "itn")

Symmetry == Permutations(Handlers)
=============================================================================
