---- MODULE MCClients ----
\* Three requests for resolve with one key: two for one match, with different
\* winners, the third for another match.
EXTENDS Clients, TLC

CONSTANTS r1, r2, r3, x1, x2, a, b, k1

MCMatchOf == (r1 :> x1) @@ (r2 :> x1) @@ (r3 :> x2)
MCKeyOf == [r \in Requests |-> k1]
MCWinnerOf == (r1 :> a) @@ (r2 :> b) @@ (r3 :> b)
====
