--------------------------- MODULE TournamentProofs ---------------------------
(***************************************************************************)
(* Theorems about Tournament, for every set of users, every number of      *)
(* players and every fee: the books are complete, the pool is conserved,   *)
(* the bracket is in step with the tournament, and every winner advances.  *)
(*                                                                         *)
(* The properties are sums over the ledger, so the invariant is about what *)
(* rows are worth: a payout adds its shares to the total of its rows       *)
(* (PayMoney), a cancellation the pool (CancelMoney), a registration a fee *)
(* (JoinMoney).  BracketInv says in which round the bracket stands, and    *)
(* PayoutsInv which matches have been paid for and how; together they show *)
(* that a payout is the first of its tournament unless the match was       *)
(* opened again or the bracket was cancelled.                              *)
(***************************************************************************)
EXTENDS Tournament, SumTheorems

\* Sums of sums of two values.
LEMMA SumPlus ==
  ASSUME NEW S, IsFiniteSet(S), NEW f, NEW g, NEW h,
         \A x \in S : f[x] \in Int /\ g[x] \in Int /\ h[x] = f[x] + g[x]
  PROVE  SumFunctionOnSet(h, S) = SumFunctionOnSet(f, S) + SumFunctionOnSet(g, S)
<1> DEFINE Q == {T \in SUBSET S :
                   SumFunctionOnSet(h, T) = SumFunctionOnSet(f, T) + SumFunctionOnSet(g, T)}
<1>1. {} \in Q
  BY SumEmpty
<1>2. ASSUME NEW T \in SUBSET S, T # {}, \A y \in T : T \ {y} \in Q
      PROVE  T \in Q
  <2>1. PICK a \in T : TRUE
    BY <1>2
  <2>2. IsFiniteSet(T) /\ IsFiniteSet(T \ {a})
    BY FS_Subset
  <2>3. PICK x \in Int, y \in Int : x = f[a] /\ y = g[a]
    OBVIOUS
  <2>4. PICK F \in Int, G \in Int : /\ F = SumFunctionOnSet(f, T \ {a})
                                    /\ G = SumFunctionOnSet(g, T \ {a})
    BY <2>2, SumType
  <2>5. SumFunctionOnSet(f, T) = x + F /\ SumFunctionOnSet(g, T) = y + G
    BY <2>2, <2>3, <2>4, SumRemove
  <2>6. SumFunctionOnSet(h, T) = (x + y) + SumFunctionOnSet(h, T \ {a})
    <3>1. \A z \in T : h[z] \in Int
      OBVIOUS
    <3>2. SumFunctionOnSet(h, T) = h[a] + SumFunctionOnSet(h, T \ {a})
      BY <2>2, <3>1, SumRemove
    <3>3. QED BY <2>3, <3>2
  <2>7. SumFunctionOnSet(h, T \ {a}) = F + G
    BY <1>2, <2>4
  <2>8. (x + y) + (F + G) = (x + F) + (y + G)
    OBVIOUS
  <2>9. QED BY <2>5, <2>6, <2>7, <2>8
<1> HIDE DEF Q
<1>3. S \in Q
  BY <1>1, <1>2, SetInduction
<1>4. QED BY <1>3 DEF Q

\* What the rows of the bag L that are in T come to, each copy at the worth w
\* gives it.
Total(w, T, L) ==
  SumFunctionOnSet([e \in DOMAIN L |-> w[e] * L[e]], DOMAIN L \cap T)

\* M is the bag L with a copy more of every row of E.
Grown(L, E, M) ==
  /\ IsFiniteSet(DOMAIN L) /\ IsFiniteSet(E)
  /\ \A e \in DOMAIN L : L[e] \in Nat
  /\ M = L (+) SetToBag(E)

\* w gives an integer worth to every row of D.
Worths(w, D) == \A e \in D : w[e] \in Int

\* The worth of the rows of E is what M comes to more than L.
Adds(w, T, L, E, M) == Total(w, T, M) = Total(w, T, L) + SumFunctionOnSet(w, E \cap T)

\* Rows booked add what they are worth.
LEMMA TotalGrows ==
  ASSUME NEW L, NEW E, NEW w, NEW T, NEW M, Grown(L, E, M), Worths(w, DOMAIN L \cup E)
  PROVE  /\ DOMAIN M = DOMAIN L \cup E
         /\ IsFiniteSet(DOMAIN M) /\ \A e \in DOMAIN M : M[e] \in Nat
         /\ Adds(w, T, L, E, M)
<1> DEFINE D == DOMAIN L \cup E
           f == [e \in D |-> IF e \in DOMAIN L THEN w[e] * L[e] ELSE 0]
           g == [e \in D |-> IF e \in E THEN w[e] ELSE 0]
           h == [e \in D |-> w[e] * M[e]]
<1>1. /\ IsFiniteSet(DOMAIN L) /\ IsFiniteSet(E) /\ M = L (+) SetToBag(E)
      /\ \A e \in DOMAIN L : L[e] \in Nat
      /\ \A e \in DOMAIN L \cup E : w[e] \in Int
  BY DEF Grown, Worths
<1>2. /\ DOMAIN M = D
      /\ \A e \in D : M[e] = (IF e \in DOMAIN L THEN L[e] ELSE 0) + (IF e \in E THEN 1 ELSE 0)
  BY <1>1 DEF (+), SetToBag
<1>3. IsFiniteSet(D)
  BY <1>1, FS_Union
<1>4. \A e \in D : M[e] \in Nat
  BY <1>1, <1>2
<1>5. ASSUME NEW e \in D
      PROVE  f[e] \in Int /\ g[e] \in Int /\ h[e] = f[e] + g[e]
  <2>1. PICK x \in Int : x = w[e]
    BY <1>1
  <2>2. PICK k \in Nat : k = IF e \in DOMAIN L THEN L[e] ELSE 0
    BY <1>1
  <2>3. f[e] = x * k /\ f[e] \in Int
    BY <2>1, <2>2
  <2>4. g[e] = IF e \in E THEN x ELSE 0
    BY <2>1
  <2>5. h[e] = x * (k + IF e \in E THEN 1 ELSE 0)
    BY <1>2, <2>1, <2>2
  <2>6. x * (k + 1) = x * k + x /\ x * (k + 0) = x * k
    OBVIOUS
  <2>7. h[e] = x * k + IF e \in E THEN x ELSE 0
    BY <2>5, <2>6
  <2>8. QED BY <2>3, <2>4, <2>7
<1>6. IsFiniteSet(D \cap T) /\ IsFiniteSet(DOMAIN L \cap T) /\ IsFiniteSet(E \cap T)
      /\ IsFiniteSet((D \cap T) \ DOMAIN L) /\ IsFiniteSet((D \cap T) \ E)
  <2>1. \A U \in SUBSET D : IsFiniteSet(U)
    BY <1>3, FS_Subset
  <2>2. QED BY <2>1
<1>7. \A e \in D \cap T : f[e] \in Int /\ g[e] \in Int /\ h[e] = f[e] + g[e]
  BY <1>5
<1>8. SumFunctionOnSet(f, D \cap T) = Total(w, T, L)
  <2>1. D \cap T = (DOMAIN L \cap T) \cup ((D \cap T) \ DOMAIN L)
    OBVIOUS
  <2>2. \A e \in (D \cap T) \ DOMAIN L : f[e] = 0
    OBVIOUS
  <2>3. \A e \in DOMAIN L \cap T : f[e] = [x \in DOMAIN L |-> w[x] * L[x]][e]
    OBVIOUS
  <2> DEFINE A == DOMAIN L \cap T
             B == (D \cap T) \ DOMAIN L
  <2>4. A \cap B = {} /\ A \cup B = D \cap T /\ \A e \in A \cup B : f[e] \in Int
    BY <1>7
  <2>5. D \cap T = A \cup B
    BY <2>4
  <2> HIDE DEF f, D, A, B
  <2>6. SumFunctionOnSet(f, A \cup B) = SumFunctionOnSet(f, A) + SumFunctionOnSet(f, B)
    BY <1>6, <2>4, SumUnion DEF A, B
  <2>7. SumFunctionOnSet(f, B) = 0
    BY <1>6, <2>2, SumZero DEF B
  <2>8. SumFunctionOnSet(f, A) = Total(w, T, L)
    BY <1>6, <2>3, SumSame DEF A, Total
  <2>9. SumFunctionOnSet(f, A) \in Int
    BY <1>6, <2>4, SumType DEF A
  <2>10. SumFunctionOnSet(f, D \cap T) = SumFunctionOnSet(f, A) + 0
    BY ONLY <2>5, <2>6, <2>7
  <2>11. SumFunctionOnSet(f, A) + 0 = SumFunctionOnSet(f, A)
    BY ONLY <2>9
  <2>12. QED BY ONLY <2>8, <2>10, <2>11
<1>9. SumFunctionOnSet(g, D \cap T) = SumFunctionOnSet(w, E \cap T)
  <2> DEFINE A == E \cap T
             B == (D \cap T) \ E
  <2>1. \A e \in B : g[e] = 0
    OBVIOUS
  <2>2. \A e \in A : g[e] = w[e]
    OBVIOUS
  <2>3. A \cap B = {} /\ A \cup B = D \cap T /\ \A e \in A \cup B : g[e] \in Int
    BY <1>7
  <2> HIDE DEF g, D, A, B
  <2>4. SumFunctionOnSet(g, A \cup B) = SumFunctionOnSet(g, A) + SumFunctionOnSet(g, B)
    BY <1>6, <2>3, SumUnion DEF A, B
  <2>5. SumFunctionOnSet(g, B) = 0
    BY <1>6, <2>1, SumZero DEF B
  <2>6. SumFunctionOnSet(g, A) = SumFunctionOnSet(w, A)
    BY <1>6, <2>2, SumSame DEF A
  <2>7. SumFunctionOnSet(g, A) \in Int
    BY <1>6, <2>3, SumType DEF A
  <2>8. QED BY <2>3, <2>4, <2>5, <2>6, <2>7 DEF A
<1>10. Total(w, T, M) = SumFunctionOnSet(h, D \cap T)
  BY <1>2 DEF Total
<1> HIDE DEF f, g, h, D
<1>11. SumFunctionOnSet(h, D \cap T) = SumFunctionOnSet(f, D \cap T) + SumFunctionOnSet(g, D \cap T)
  BY <1>6, <1>7, SumPlus
<1>12. QED BY <1>2, <1>3, <1>4, <1>8, <1>9, <1>10, <1>11 DEF D, Adds

\* The sum over one row, if it counts.
LEMMA OneRow ==
  ASSUME NEW a, NEW w, w[a] \in Int, NEW T
  PROVE  SumFunctionOnSet(w, {a} \cap T) = IF a \in T THEN w[a] ELSE 0
<1>1. SumFunctionOnSet(w, {a}) = w[a] /\ SumFunctionOnSet(w, {}) = 0
  BY SumSingleton, SumEmpty
<1>2. {a} \cap T = IF a \in T THEN {a} ELSE {}
  OBVIOUS
<1>3. QED BY <1>1, <1>2

\* What two rows of E are worth in T, if the second is in E.
TwoWorths(a, b, w, T, both) ==
  (IF a \in T THEN w[a] ELSE 0) + (IF both /\ b \in T THEN w[b] ELSE 0)

\* The sum over one row, or over two different ones, the second of which may be
\* left out.
LEMMA TwoRows ==
  ASSUME NEW a, NEW b, a # b, NEW w, w[a] \in Int, w[b] \in Int, NEW T, NEW both \in BOOLEAN
  PROVE  SumFunctionOnSet(w, ({a} \cup (IF both THEN {b} ELSE {})) \cap T)
           = TwoWorths(a, b, w, T, both)
<1> DEFINE A == {a} \cap T
           B == (IF both THEN {b} ELSE {}) \cap T
<1>1. A = {} \/ A = {a}
  OBVIOUS
<1>2. B = {} \/ B = {b}
  OBVIOUS
<1>3. SumFunctionOnSet(w, A) = IF a \in T THEN w[a] ELSE 0
  <2>1. SumFunctionOnSet(w, {a}) = w[a] /\ SumFunctionOnSet(w, {}) = 0
    BY SumSingleton, SumEmpty
  <2>2. A = IF a \in T THEN {a} ELSE {}
    OBVIOUS
  <2>3. QED BY <2>1, <2>2
<1>4. SumFunctionOnSet(w, B) = IF both /\ b \in T THEN w[b] ELSE 0
  <2>1. SumFunctionOnSet(w, {b}) = w[b] /\ SumFunctionOnSet(w, {}) = 0
    BY SumSingleton, SumEmpty
  <2>2. B = IF both /\ b \in T THEN {b} ELSE {}
    OBVIOUS
  <2>3. QED BY <2>1, <2>2
<1>5. IsFiniteSet(A) /\ IsFiniteSet(B)
  <2>1. IsFiniteSet({}) /\ IsFiniteSet({a}) /\ IsFiniteSet({b})
    BY FS_EmptySet, FS_Singleton
  <2> HIDE DEF A, B
  <2>2. QED BY <1>1, <1>2, <2>1
<1>6. A \cap B = {} /\ \A x \in A \cup B : w[x] \in Int
  OBVIOUS
<1>7. ({a} \cup (IF both THEN {b} ELSE {})) \cap T = A \cup B
  OBVIOUS
<1> HIDE DEF A, B
<1>8. SumFunctionOnSet(w, A \cup B) = SumFunctionOnSet(w, A) + SumFunctionOnSet(w, B)
  BY <1>5, <1>6, SumUnion
<1>9. QED BY <1>3, <1>4, <1>7, <1>8 DEF TwoWorths

-----------------------------------------------------------------------------
(* The state, the worth of rows, and the invariants.  What depends on the   *)
(* number of participants takes it as a parameter, so that the rows booked   *)
(* before and after a registration can be compared.                        *)

MatchIds == (Nat \ {0}) \X (Nat \ {0})
MatchRows ==
  [players : SUBSET (Users \cup {NoUser}),
   status : {"PENDING", "DISPUTED", "RESOLVED", "SETTLED"},
   winner : Users \cup {NoUser}, prize : BOOLEAN,
   reports : UNION {[D -> Users] : D \in SUBSET Users}]

PrizeVias == {"win", "win_v1", "org", "org_v1"}
LedgerRows ==
  {e \in [type : {"ESCROW_HOLD", "REFUND", "PRIZE_PAYOUT"}, user : Users,
          match : MatchIds \cup {NoMatch}, via : {"escrow", "refund"} \cup PrizeVias] :
     e.type = "PRIZE_PAYOUT" <=> e.via \in PrizeVias}

TypeInv ==
  /\ tstatus \in {"REGISTRATION", "IN_PROGRESS", "COMPLETED", "CANCELED"}
  /\ joined \in Seq(Users)
  /\ matches \in [DOMAIN matches -> MatchRows]
  /\ DOMAIN matches \in SUBSET MatchIds /\ IsFiniteSet(DOMAIN matches)
  /\ balance \in [Users -> Int]
  /\ ledger \in [DOMAIN ledger -> Nat]
  /\ DOMAIN ledger \in SUBSET LedgerRows /\ IsFiniteSet(DOMAIN ledger)
  /\ outbox \in [DOMAIN outbox -> Nat] /\ DOMAIN outbox \subseteq DOMAIN matches

Pool(n) == EntryFee * n
FeeOf(n) == (Pool(n) * 10) \div 100
Cut(n) == (FeeOf(n) * 50) \div 100
Prize(n) == Pool(n) - FeeOf(n)

Worth(n) ==
  [e \in LedgerRows |-> IF e.type # "PRIZE_PAYOUT" THEN EntryFee
                        ELSE IF e.via \in {"win", "win_v1"} THEN Prize(n) ELSE Cut(n)]
Signed(n) ==
  [e \in LedgerRows |-> IF e.type = "ESCROW_HOLD" THEN -Worth(n)[e] ELSE Worth(n)[e]]
One == [e \in LedgerRows |-> 1]

RowsOf(u) == {e \in LedgerRows : e.user = u}
Holds == {e \in LedgerRows : e.type = "ESCROW_HOLD"}
PaidRows == {e \in LedgerRows : e.type # "ESCROW_HOLD"}
SettledRows(m) == {e \in LedgerRows : e.via = "win_v1" /\ e.match = m}

HoldRow(u) == Entry("ESCROW_HOLD", u, NoMatch, "escrow")
RefundRow(u) == Entry("REFUND", u, NoMatch, "refund")
RefundRows(players) == {RefundRow(u) : u \in players}

\* Bracket ms stands in its round last, in a tournament of status t: the rounds
\* before are done, the prize is on a match alone in the last round.
InStep(ms, last, t) ==
  /\ {m[1] : m \in DOMAIN ms} = 1..last
  /\ \A r \in 1..(last - 1) : RoundDone(ms, r)
  /\ \A m \in DOMAIN ms : ms[m].prize <=> RoundOf(ms, m[1]) = {m}
  /\ \A m \in DOMAIN ms : ms[m].prize => m[1] = last
  /\ t = "REGISTRATION" => last = 0
  /\ t \in {"IN_PROGRESS", "COMPLETED"} => last # 0
  /\ t = "IN_PROGRESS" => ~RoundDone(ms, last)
  /\ t = "COMPLETED" =>
       RoundDone(ms, last) /\ \E m \in DOMAIN ms : RoundOf(ms, last) = {m}

BracketInv == \E last \in Nat : InStep(matches, last, tstatus)

\* Only a closed match with the prize has payouts, and how it was closed says of
\* which kind they are.
PayoutsInv ==
  /\ \A e \in DOMAIN ledger : e.type = "PRIZE_PAYOUT" =>
       /\ e.match \in DOMAIN matches /\ matches[e.match].prize
       /\ matches[e.match].status \in Terminal
       /\ e.via \in {"win", "org"} => matches[e.match].status = "RESOLVED"
  /\ \A m \in DOMAIN matches : matches[m].prize /\ matches[m].status = "SETTLED" =>
       \E e \in PaidVia("win_v1") : e.match = m
  /\ tstatus = "REGISTRATION" => DOMAIN ledger \subseteq Holds

WalletInv ==
  \A u \in Users : balance[u] = Funds + Total(Signed(Len(joined)), RowsOf(u), ledger)

CopiesOf(m, bag) == IF m \in DOMAIN bag THEN bag[m] ELSE 0
EventInv ==
  \A m \in MatchIds : CopiesOf(m, outbox) = Total(One, SettledRows(m), ledger)

\* The fees held, and what a cancellation returns, are the whole pool.
FeesInv ==
  /\ Total(Worth(Len(joined)), Holds, ledger) = Pool(Len(joined))
  /\ SumFunctionOnSet(Worth(Len(joined)), RefundRows(ToSet(joined))) = Pool(Len(joined))

PaidBy(t, n) ==
  CASE t = "COMPLETED" -> Prize(n) + Cut(n) [] t = "CANCELED" -> Pool(n) [] OTHER -> 0
PoolInv ==
  ~Reopened /\ ~LateCancel =>
    Total(Worth(Len(joined)), PaidRows, ledger) = PaidBy(tstatus, Len(joined))

-----------------------------------------------------------------------------
(* The split of the pool.                                                  *)

\* Neither share is negative, and together they do not exceed the pool.
LEMMA Shares ==
  ASSUME NEW n \in Nat
  PROVE  /\ Pool(n) \in Nat /\ Prize(n) \in Nat /\ Cut(n) \in Nat
         /\ Prize(n) + Cut(n) <= Pool(n)
         /\ Pool(n + 1) = Pool(n) + EntryFee
<1>1. PICK f \in Nat : f = EntryFee
  BY FeeAssumption
<1>2. PICK p \in Nat : p = f * n
  OBVIOUS
<1>3. PICK t \in Nat : t = (p * 10) \div 100 /\ t <= p
  <2>1. (p * 10) \div 100 \in Nat /\ (p * 10) \div 100 <= p
    OBVIOUS
  <2>2. QED BY <2>1
<1>4. PICK c \in Nat : c = (t * 50) \div 100 /\ c <= t
  <2>1. (t * 50) \div 100 \in Nat /\ (t * 50) \div 100 <= t
    OBVIOUS
  <2>2. QED BY <2>1
<1>5. Pool(n) = p /\ FeeOf(n) = t /\ Cut(n) = c /\ Prize(n) = p - t
  BY <1>1, <1>2, <1>3, <1>4 DEF Pool, FeeOf, Cut, Prize
<1>6. f * (n + 1) = f * n + f
  OBVIOUS
<1>7. Pool(n + 1) = p + f
  BY <1>1, <1>2, <1>6 DEF Pool
<1>8. QED BY <1>1, <1>3, <1>4, <1>5, <1>7

\* The worth of a row is an amount.
LEMMA WorthType ==
  ASSUME NEW n \in Nat, NEW e \in LedgerRows
  PROVE  /\ Worth(n)[e] \in Nat /\ Signed(n)[e] \in Int /\ One[e] = 1
         /\ e.type # "PRIZE_PAYOUT" => Worth(n)[e] = EntryFee
         /\ e.via \in {"win", "win_v1"} => Worth(n)[e] = Prize(n)
         /\ e.via \in {"org", "org_v1"} => Worth(n)[e] = Cut(n)
         /\ Signed(n)[e] = IF e.type = "ESCROW_HOLD" THEN -Worth(n)[e] ELSE Worth(n)[e]
<1>1. Prize(n) \in Nat /\ Cut(n) \in Nat /\ EntryFee \in Nat
  BY Shares, FeeAssumption
<1>2. e.type = "PRIZE_PAYOUT" <=> e.via \in PrizeVias
  BY DEF LedgerRows
<1>3. Worth(n)[e] = IF e.type # "PRIZE_PAYOUT" THEN EntryFee
                    ELSE IF e.via \in {"win", "win_v1"} THEN Prize(n) ELSE Cut(n)
  BY DEF Worth
<1>4. Worth(n)[e] \in Nat
  BY <1>1, <1>3
<1>5. Signed(n)[e] = IF e.type = "ESCROW_HOLD" THEN -Worth(n)[e] ELSE Worth(n)[e]
  BY DEF Signed
<1>6. QED BY <1>2, <1>3, <1>4, <1>5 DEF One, PrizeVias

\* Amount is the worth at the present number of participants.
LEMMA AmountIs ==
  ASSUME joined \in Seq(Users), NEW e \in LedgerRows
  PROVE  Amount(e) = Worth(Len(joined))[e]
<1>1. e.type \in {"ESCROW_HOLD", "REFUND", "PRIZE_PAYOUT"}
      /\ (e.type = "PRIZE_PAYOUT" <=> e.via \in PrizeVias)
  BY DEF LedgerRows
<1>2. WinnerPayout = Prize(Len(joined)) /\ OrganizerCut = Cut(Len(joined))
  BY DEF WinnerPayout, OrganizerCut, PlatformTotalFee, TotalPool, Prize, Cut, FeeOf, Pool
<1> DEFINE n == Len(joined)
<1>3. /\ e.type # "PRIZE_PAYOUT" => Worth(n)[e] = EntryFee
      /\ e.via \in {"win", "win_v1"} => Worth(n)[e] = Prize(n)
      /\ e.via \in {"org", "org_v1"} => Worth(n)[e] = Cut(n)
  <2>1. n \in Nat
    OBVIOUS
  <2> HIDE DEF n
  <2>2. QED BY <2>1, WorthType
<1>4. CASE e.type \in {"ESCROW_HOLD", "REFUND"}
  <2>1. Amount(e) = EntryFee
    BY <1>4 DEF Amount
  <2>2. QED BY <1>4, <1>3, <2>1
<1>5. CASE e.type = "PRIZE_PAYOUT" /\ e.via \in {"win", "win_v1"}
  <2>1. Amount(e) = WinnerPayout
    BY <1>5 DEF Amount
  <2>2. QED BY <1>2, <1>5, <1>3, <2>1
<1>6. CASE e.type = "PRIZE_PAYOUT" /\ e.via \in {"org", "org_v1"}
  <2>1. Amount(e) = OrganizerCut
    BY <1>6 DEF Amount
  <2>2. QED BY <1>2, <1>6, <1>3, <2>1
<1>7. QED BY <1>1, <1>4, <1>5, <1>6 DEF PrizeVias

-----------------------------------------------------------------------------
(* The properties in these terms.                                          *)

\* The sums of the properties are totals.
LEMMA SumsAre ==
  ASSUME TypeInv
  PROVE  /\ Held = Total(Worth(Len(joined)), Holds, ledger)
         /\ PaidOut = Total(Worth(Len(joined)), PaidRows, ledger)
         /\ WalletInv => BalancesMatchLedger
         /\ EventInv => EventIffSettled
<1> DEFINE n == Len(joined)
<1>1. /\ DOMAIN ledger \subseteq LedgerRows
      /\ \A e \in DOMAIN ledger : Amount(e) = Worth(n)[e] /\ One[e] = 1
      /\ \A e \in DOMAIN ledger :
           Signed(n)[e] = IF e.type = "ESCROW_HOLD" THEN -Amount(e) ELSE Amount(e)
  <2>1. DOMAIN ledger \subseteq LedgerRows /\ joined \in Seq(Users) /\ n \in Nat
    BY DEF TypeInv
  <2> HIDE DEF n
  <2>2. ASSUME NEW e \in DOMAIN ledger
        PROVE  /\ Amount(e) = Worth(n)[e] /\ One[e] = 1
               /\ Signed(n)[e] = IF e.type = "ESCROW_HOLD" THEN -Amount(e) ELSE Amount(e)
    <3>1. e \in LedgerRows
      BY <2>1
    <3>2. Amount(e) = Worth(n)[e]
      BY <2>1, <3>1, AmountIs DEF n
    <3>3. One[e] = 1
          /\ Signed(n)[e] = IF e.type = "ESCROW_HOLD" THEN -Worth(n)[e] ELSE Worth(n)[e]
      BY <2>1, <3>1, WorthType
    <3>4. QED BY <3>2, <3>3
  <2>3. QED BY <2>1, <2>2
<1> HIDE DEF n
<1>2. Held = Total(Worth(n), Holds, ledger)
  <2>1. [e \in DOMAIN ledger |-> Amount(e) * ledger[e]]
          = [e \in DOMAIN ledger |-> Worth(n)[e] * ledger[e]]
    BY <1>1
  <2>2. {e \in DOMAIN ledger : e.type = "ESCROW_HOLD"} = DOMAIN ledger \cap Holds
    BY <1>1 DEF Holds
  <2>3. QED BY <2>1, <2>2 DEF Held, SumEntries, BagToSet, Total
<1>3. PaidOut = Total(Worth(n), PaidRows, ledger)
  <2>1. [e \in DOMAIN ledger |-> Amount(e) * ledger[e]]
          = [e \in DOMAIN ledger |-> Worth(n)[e] * ledger[e]]
    BY <1>1
  <2>2. {e \in DOMAIN ledger : e.type # "ESCROW_HOLD"} = DOMAIN ledger \cap PaidRows
    BY <1>1 DEF PaidRows
  <2>3. QED BY <2>1, <2>2 DEF PaidOut, SumEntries, BagToSet, Total
<1>4. ASSUME WalletInv PROVE BalancesMatchLedger
  <2> DEFINE v(e) == IF e.type = "ESCROW_HOLD" THEN -Amount(e) ELSE Amount(e)
  <2>1. [e \in DOMAIN ledger |-> v(e) * ledger[e]]
          = [e \in DOMAIN ledger |-> Signed(n)[e] * ledger[e]]
    BY <1>1
  <2>2. ASSUME NEW u \in Users
        PROVE  {e \in DOMAIN ledger : e.user = u} = DOMAIN ledger \cap RowsOf(u)
    BY <1>1 DEF RowsOf
  <2>3. ASSUME NEW u \in Users
        PROVE  balance[u] = Funds + SumFunctionOnSet([e \in DOMAIN ledger |-> v(e) * ledger[e]],
                                       {e \in DOMAIN ledger : e.user = u})
    <3>1. balance[u] = Funds + Total(Signed(n), RowsOf(u), ledger)
      BY <1>4 DEF WalletInv, n
    <3>2. QED BY <2>1, <2>2, <3>1 DEF Total
  <2>4. QED BY <2>3 DEF BalancesMatchLedger, SumEntries, BagToSet
<1>5. ASSUME EventInv PROVE EventIffSettled
  <2>1. [e \in DOMAIN ledger |-> 1 * ledger[e]] = [e \in DOMAIN ledger |-> One[e] * ledger[e]]
    BY <1>1
  <2>2. ASSUME NEW m \in DOMAIN matches
        PROVE  {e \in DOMAIN ledger : e.via = "win_v1" /\ e.match = m}
                 = DOMAIN ledger \cap SettledRows(m)
    BY <1>1 DEF SettledRows
  <2>3. ASSUME NEW m \in DOMAIN matches
        PROVE  (IF m \in DOMAIN outbox THEN outbox[m] ELSE 0)
                 = SumFunctionOnSet([e \in DOMAIN ledger |-> 1 * ledger[e]],
                     {e \in DOMAIN ledger : e.via = "win_v1" /\ e.match = m})
    <3>1. CopiesOf(m, outbox) = Total(One, SettledRows(m), ledger)
      BY <1>5 DEF EventInv, TypeInv
    <3>2. QED BY <2>1, <2>2, <3>1 DEF Total, CopiesOf
  <2>4. QED BY <2>3 DEF EventIffSettled, SumEntries, BagToSet
<1>6. QED BY <1>2, <1>3, <1>4, <1>5 DEF n

-----------------------------------------------------------------------------
(* What the handlers that move money book.                                 *)

\* Participants are counted, and one more by a registration.
LEMMA Participants ==
  ASSUME TypeInv
  PROVE  /\ Len(joined) \in Nat
         /\ \A u \in Users : joined' = Append(joined, u) => Len(joined') = Len(joined) + 1
<1>1. joined \in Seq(Users)
  BY DEF TypeInv
<1>2. QED BY <1>1

\* Totals are integers.
LEMMA TotalType ==
  ASSUME TypeInv, NEW n \in Nat, NEW T
  PROVE  /\ Total(Signed(n), T, ledger) \in Int /\ Total(Worth(n), T, ledger) \in Int
         /\ Total(One, T, ledger) \in Int
<1> DEFINE D == DOMAIN ledger \cap T
<1>1. IsFiniteSet(D)
  <2>1. IsFiniteSet(DOMAIN ledger) /\ D \in SUBSET DOMAIN ledger
    BY DEF TypeInv
  <2> HIDE DEF D
  <2>2. QED BY <2>1, FS_Subset
<1>2. \A e \in D : /\ Signed(n)[e] \in Int /\ Worth(n)[e] \in Int /\ One[e] \in Int
                   /\ ledger[e] \in Int /\ e \in DOMAIN ledger
  BY WorthType DEF TypeInv
<1>3. \A e \in D : /\ [x \in DOMAIN ledger |-> Signed(n)[x] * ledger[x]][e] \in Int
                   /\ [x \in DOMAIN ledger |-> Worth(n)[x] * ledger[x]][e] \in Int
                   /\ [x \in DOMAIN ledger |-> One[x] * ledger[x]][e] \in Int
  <2> HIDE DEF D
  <2> QED BY <1>2
<1> HIDE DEF D
<1>4. QED BY <1>1, <1>3, SumType DEF Total, D

\* The rows booked are in the ledger and count in every total.
LEMMA Booked ==
  ASSUME TypeInv, NEW E \in SUBSET LedgerRows, IsFiniteSet(E), Book(E),
         NEW n \in Nat, NEW T
  PROVE  /\ ledger' \in [DOMAIN ledger' -> Nat] /\ DOMAIN ledger' = DOMAIN ledger \cup E
         /\ DOMAIN ledger' \in SUBSET LedgerRows /\ IsFiniteSet(DOMAIN ledger')
         /\ Total(Signed(n), T, ledger')
              = Total(Signed(n), T, ledger) + SumFunctionOnSet(Signed(n), E \cap T)
         /\ Total(Worth(n), T, ledger')
              = Total(Worth(n), T, ledger) + SumFunctionOnSet(Worth(n), E \cap T)
         /\ Total(One, T, ledger')
              = Total(One, T, ledger) + SumFunctionOnSet(One, E \cap T)
<1>1. ledger' = ledger (+) SetToBag(E)
  BY DEF Book
<1>2. /\ IsFiniteSet(DOMAIN ledger) /\ DOMAIN ledger \subseteq LedgerRows
      /\ \A e \in DOMAIN ledger : ledger[e] \in Nat
  BY DEF TypeInv
<1>3. \A e \in DOMAIN ledger \cup E :
        Signed(n)[e] \in Int /\ Worth(n)[e] \in Int /\ One[e] \in Int
  BY <1>2, WorthType
<1>4. PICK L, M : L = ledger /\ M = ledger'
  OBVIOUS
<1>5. Grown(L, E, M)
  BY <1>1, <1>2, <1>4 DEF Grown
<1>6. ASSUME NEW w, Worths(w, DOMAIN L \cup E)
      PROVE  /\ DOMAIN M = DOMAIN L \cup E
             /\ IsFiniteSet(DOMAIN M) /\ \A e \in DOMAIN M : M[e] \in Nat
             /\ Adds(w, T, L, E, M)
  BY ONLY <1>5, <1>6, TotalGrows
<1>7. /\ Worths(Signed(n), DOMAIN L \cup E) /\ Worths(Worth(n), DOMAIN L \cup E)
      /\ Worths(One, DOMAIN L \cup E)
  BY ONLY <1>3, <1>4 DEF Worths
<1>8. /\ DOMAIN M = DOMAIN L \cup E
      /\ IsFiniteSet(DOMAIN M) /\ \A e \in DOMAIN M : M[e] \in Nat
      /\ Adds(Signed(n), T, L, E, M)
  BY ONLY <1>6, <1>7
<1>9. Adds(Worth(n), T, L, E, M)
  BY ONLY <1>6, <1>7
<1>10. Adds(One, T, L, E, M)
  BY ONLY <1>6, <1>7
<1>11. ledger' = [e \in DOMAIN ledger' |-> ledger'[e]]
  BY <1>1 DEF (+), SetToBag
<1>12. QED BY <1>2, <1>4, <1>8, <1>9, <1>10, <1>11 DEF Adds

\* Before the start, a participant more changes the worth of no row booked.
LEMMA HoldsKeepWorth ==
  ASSUME TypeInv, DOMAIN ledger \subseteq Holds, NEW n \in Nat, NEW k \in Nat, NEW T
  PROVE  /\ Total(Signed(n), T, ledger) = Total(Signed(k), T, ledger)
         /\ Total(Worth(n), T, ledger) = Total(Worth(k), T, ledger)
<1>1. ASSUME NEW e \in DOMAIN ledger
      PROVE  Signed(n)[e] = Signed(k)[e] /\ Worth(n)[e] = Worth(k)[e]
  <2>1. e \in LedgerRows /\ e.type = "ESCROW_HOLD"
    BY DEF Holds
  <2>2. QED BY <2>1, WorthType
<1>2. [e \in DOMAIN ledger |-> Signed(n)[e] * ledger[e]]
        = [e \in DOMAIN ledger |-> Signed(k)[e] * ledger[e]]
  BY <1>1
<1>3. [e \in DOMAIN ledger |-> Worth(n)[e] * ledger[e]]
        = [e \in DOMAIN ledger |-> Worth(k)[e] * ledger[e]]
  BY <1>1
<1>4. QED BY <1>2, <1>3 DEF Total

\* The rows of holds and refunds.
LEMMA FeeRows ==
  ASSUME NEW u \in Users
  PROVE  /\ HoldRow(u) \in LedgerRows /\ HoldRow(u).type = "ESCROW_HOLD" /\ HoldRow(u).user = u
         /\ HoldRow(u).via = "escrow"
         /\ RefundRow(u) \in LedgerRows /\ RefundRow(u).type = "REFUND"
         /\ RefundRow(u).user = u /\ RefundRow(u).via = "refund"
BY DEF HoldRow, RefundRow, Entry, LedgerRows, PrizeVias

\* A registration books the fee it takes, and a refund more would be due.
LEMMA JoinMoney ==
  ASSUME TypeInv, PayoutsInv, WalletInv, FeesInv, IsFiniteSet(RefundRows(ToSet(joined))),
         NEW u \in Users, JoinTournament(u)
  PROVE  /\ WalletInv' /\ FeesInv' /\ IsFiniteSet(RefundRows(ToSet(joined')))
         /\ ledger' \in [DOMAIN ledger' -> Nat] /\ DOMAIN ledger' = DOMAIN ledger \cup {HoldRow(u)}
         /\ DOMAIN ledger' \in SUBSET LedgerRows /\ IsFiniteSet(DOMAIN ledger')
         /\ \A m : Total(One, SettledRows(m), ledger') = Total(One, SettledRows(m), ledger)
         /\ Total(Worth(Len(joined')), PaidRows, ledger')
              = Total(Worth(Len(joined)), PaidRows, ledger)
<1>1. PICK n \in Nat : n = Len(joined) /\ Len(joined') = n + 1
  <2>1. joined' = Append(joined, u)
    BY DEF JoinTournament
  <2>2. QED BY <2>1, Participants
<1>2. DOMAIN ledger \subseteq Holds
  BY DEF JoinTournament, PayoutsInv
<1>3. PICK x \in LedgerRows : x = HoldRow(u)
  BY FeeRows
<1>4. x.type = "ESCROW_HOLD" /\ x.user = u /\ x.via = "escrow"
  BY <1>3, FeeRows
<1>5. Book({x}) /\ {x} \in SUBSET LedgerRows /\ IsFiniteSet({x})
  BY <1>3, FS_Singleton DEF JoinTournament, HoldRow
<1>6. ASSUME NEW T
      PROVE  /\ SumFunctionOnSet(Signed(n + 1), {x} \cap T) = IF x \in T THEN -EntryFee ELSE 0
             /\ SumFunctionOnSet(Worth(n + 1), {x} \cap T) = IF x \in T THEN EntryFee ELSE 0
             /\ SumFunctionOnSet(One, {x} \cap T) = IF x \in T THEN 1 ELSE 0
  <2>1. n + 1 \in Nat
    OBVIOUS
  <2>2. /\ Signed(n + 1)[x] = -EntryFee /\ Worth(n + 1)[x] = EntryFee /\ One[x] = 1
        /\ Signed(n + 1)[x] \in Int /\ Worth(n + 1)[x] \in Int
    BY <1>4, <2>1, WorthType
  <2>3. SumFunctionOnSet(Signed(n + 1), {x} \cap T) = IF x \in T THEN -EntryFee ELSE 0
    BY <2>2, OneRow
  <2>4. SumFunctionOnSet(Worth(n + 1), {x} \cap T) = IF x \in T THEN EntryFee ELSE 0
    BY <2>2, OneRow
  <2>5. SumFunctionOnSet(One, {x} \cap T) = IF x \in T THEN 1 ELSE 0
    BY <2>2, OneRow
  <2>6. QED BY <2>3, <2>4, <2>5
<1>7. ASSUME NEW T
      PROVE  /\ Total(Signed(n + 1), T, ledger')
                  = Total(Signed(n), T, ledger) + IF x \in T THEN -EntryFee ELSE 0
             /\ Total(Worth(n + 1), T, ledger')
                  = Total(Worth(n), T, ledger) + IF x \in T THEN EntryFee ELSE 0
             /\ Total(One, T, ledger') = Total(One, T, ledger) + IF x \in T THEN 1 ELSE 0
  <2>1. n + 1 \in Nat
    OBVIOUS
  <2>2. /\ Total(Signed(n + 1), T, ledger')
             = Total(Signed(n + 1), T, ledger) + SumFunctionOnSet(Signed(n + 1), {x} \cap T)
        /\ Total(Worth(n + 1), T, ledger')
             = Total(Worth(n + 1), T, ledger) + SumFunctionOnSet(Worth(n + 1), {x} \cap T)
        /\ Total(One, T, ledger') = Total(One, T, ledger) + SumFunctionOnSet(One, {x} \cap T)
    BY <1>5, <2>1, Booked
  <2>3. /\ Total(Signed(n + 1), T, ledger) = Total(Signed(n), T, ledger)
        /\ Total(Worth(n + 1), T, ledger) = Total(Worth(n), T, ledger)
    BY <1>2, <2>1, HoldsKeepWorth
  <2>4. QED BY <1>6, <2>2, <2>3
<1>8. \A T : /\ Total(Signed(n), T, ledger) \in Int /\ Total(Worth(n), T, ledger) \in Int
             /\ Total(One, T, ledger) \in Int
  BY TotalType
<1>9. WalletInv'
  <2>1. ASSUME NEW v \in Users
        PROVE  balance'[v] = Funds + Total(Signed(n + 1), RowsOf(v), ledger')
    <3>1. balance[v] = Funds + Total(Signed(n), RowsOf(v), ledger) /\ balance[v] \in Int
      BY <1>1 DEF WalletInv, TypeInv
    <3>2. x \in RowsOf(v) <=> v = u
      BY <1>4 DEF RowsOf
    <3>3. balance'[v] = balance[v] + IF v = u THEN -EntryFee ELSE 0
      BY FeeAssumption DEF JoinTournament, TypeInv
    <3>4. PICK t \in Int : t = Total(Signed(n), RowsOf(v), ledger)
      BY <1>8
    <3>5. Total(Signed(n + 1), RowsOf(v), ledger') = t + IF v = u THEN -EntryFee ELSE 0
      BY <1>7, <3>2, <3>4
    <3>6. balance[v] = Funds + t
      BY <3>1, <3>4
    <3>7. QED BY <3>3, <3>5, <3>6, FeeAssumption
  <2>2. QED BY <1>1, <2>1 DEF WalletInv
<1>10. Total(Worth(n + 1), Holds, ledger') = Pool(n + 1)
  <2>1. x \in Holds
    BY <1>4 DEF Holds
  <2>2. Total(Worth(n + 1), Holds, ledger') = Total(Worth(n), Holds, ledger) + EntryFee
    BY <1>7, <2>1
  <2>3. Total(Worth(n), Holds, ledger) = Pool(n)
    BY <1>1 DEF FeesInv
  <2>4. QED BY <2>2, <2>3, Shares
<1>11. /\ IsFiniteSet(RefundRows(ToSet(joined')))
       /\ SumFunctionOnSet(Worth(n + 1), RefundRows(ToSet(joined'))) = Pool(n + 1)
  <2> DEFINE S == RefundRows(ToSet(joined))
  <2>1. ToSet(joined') = ToSet(joined) \cup {u}
    <3>1. joined' = Append(joined, u) /\ joined \in Seq(Users)
      BY DEF TypeInv, JoinTournament
    <3>2. /\ DOMAIN joined = 1..n /\ DOMAIN joined' = 1..(n + 1) /\ joined'[n + 1] = u
          /\ \A i \in 1..n : joined'[i] = joined[i]
      BY <1>1, <3>1
    <3>3. 1..(n + 1) = 1..n \cup {n + 1}
      OBVIOUS
    <3>4. QED BY <3>2, <3>3 DEF ToSet
  <2>2. PICK y \in LedgerRows : y = RefundRow(u) /\ y.type = "REFUND"
    BY FeeRows
  <2>3. RefundRows(ToSet(joined')) = S \cup {y}
    BY <2>1, <2>2 DEF RefundRows
  <2>4. y \notin S
    BY <2>2 DEF RefundRows, RefundRow, Entry, JoinTournament
  <2>5. ToSet(joined) \subseteq Users
    BY DEF TypeInv, ToSet
  <2>6. \A e \in S : e \in LedgerRows /\ e.type = "REFUND"
    BY <2>5, FeeRows DEF RefundRows
  <2>7. IsFiniteSet(S)
    OBVIOUS
  <2>8. SumFunctionOnSet(Worth(n), S) = Pool(n)
    BY <1>1 DEF FeesInv
  <2> HIDE DEF S
  <2>9. n + 1 \in Nat
    OBVIOUS
  <2>10. \A e \in S \cup {y} : Worth(n + 1)[e] = EntryFee /\ Worth(n)[e] = EntryFee
    BY <2>2, <2>6, <2>9, WorthType
  <2>11. SumFunctionOnSet(Worth(n + 1), S \cup {y}) = SumFunctionOnSet(Worth(n + 1), S) + EntryFee
    <3>1. PICK w : w = Worth(n + 1)
      OBVIOUS
    <3>2. (\A e \in S \cup {y} : w[e] \in Int) /\ w[y] = EntryFee
      BY <2>10, <3>1, FeeAssumption
    <3>3. SumFunctionOnSet(w, S \cup {y}) = SumFunctionOnSet(w, S) + w[y]
      BY ONLY <2>4, <2>7, <3>2, SumAdd
    <3>4. QED BY <3>1, <3>2, <3>3
  <2>12. SumFunctionOnSet(Worth(n + 1), S) = SumFunctionOnSet(Worth(n), S)
    BY <2>7, <2>10, SumSame
  <2>13. SumFunctionOnSet(Worth(n + 1), S \cup {y}) = Pool(n + 1)
    BY <2>8, <2>11, <2>12, Shares
  <2>14. IsFiniteSet(S \cup {y})
    BY <2>7, FS_AddElement
  <2>15. QED BY <2>3, <2>13, <2>14
<1>12. FeesInv'
  BY <1>1, <1>10, <1>11 DEF FeesInv
<1>13. ASSUME NEW m PROVE Total(One, SettledRows(m), ledger') = Total(One, SettledRows(m), ledger)
  <2>1. x \notin SettledRows(m)
    BY <1>4 DEF SettledRows
  <2>2. QED BY <1>7, <1>8, <2>1
<1>14. Total(Worth(n + 1), PaidRows, ledger') = Total(Worth(n), PaidRows, ledger)
  <2>1. x \notin PaidRows
    BY <1>4 DEF PaidRows
  <2>2. QED BY <1>7, <1>8, <2>1
<1>15. /\ ledger' \in [DOMAIN ledger' -> Nat] /\ DOMAIN ledger' = DOMAIN ledger \cup {x}
       /\ DOMAIN ledger' \in SUBSET LedgerRows /\ IsFiniteSet(DOMAIN ledger')
  BY <1>5, Booked
<1>16. QED BY <1>1, <1>3, <1>9, <1>11, <1>12, <1>13, <1>14, <1>15

\* A cancellation pays the pool out, to those who joined.
LEMMA CancelMoney ==
  ASSUME TypeInv, WalletInv, FeesInv, IsFiniteSet(RefundRows(ToSet(joined))), CancelAndRefund
  PROVE  /\ WalletInv' /\ FeesInv' /\ balance' \in [Users -> Int]
         /\ ledger' \in [DOMAIN ledger' -> Nat]
         /\ DOMAIN ledger' = DOMAIN ledger \cup RefundRows(ToSet(joined))
         /\ DOMAIN ledger' \in SUBSET LedgerRows /\ IsFiniteSet(DOMAIN ledger')
         /\ \A e \in DOMAIN ledger' \ DOMAIN ledger : e.type = "REFUND" /\ e.via = "refund"
         /\ \A m : Total(One, SettledRows(m), ledger') = Total(One, SettledRows(m), ledger)
         /\ Total(Worth(Len(joined)), PaidRows, ledger')
              = Total(Worth(Len(joined)), PaidRows, ledger) + Pool(Len(joined))
<1> DEFINE R == RefundRows(ToSet(joined))
<1>1. PICK n \in Nat : n = Len(joined) /\ Len(joined') = n /\ joined' = joined
  <2>1. joined' = joined
    BY DEF CancelAndRefund
  <2>2. Len(joined) \in Nat
    BY DEF TypeInv
  <2>3. QED BY <2>1, <2>2
<1>2. ToSet(joined) \subseteq Users
  BY DEF TypeInv, ToSet
<1>3. \A e \in R : e \in LedgerRows /\ e.type = "REFUND" /\ e.via = "refund"
  BY <1>2, FeeRows DEF RefundRows
<1>4. Book(R)
  BY DEF CancelAndRefund, RefundRows, RefundRow
<1>5. IsFiniteSet(R) /\ SumFunctionOnSet(Worth(n), R) = Pool(n)
  BY <1>1 DEF FeesInv
<1>6. ASSUME NEW u \in Users
      PROVE  SumFunctionOnSet(Signed(n), R \cap RowsOf(u)) = IF u \in ToSet(joined) THEN EntryFee ELSE 0
  <2>1. PICK x \in LedgerRows : x = RefundRow(u) /\ x.type = "REFUND" /\ x.user = u
    BY FeeRows
  <2>2. R \cap RowsOf(u) = IF u \in ToSet(joined) THEN {x} ELSE {}
    <3>1. \A e \in R : e \in RowsOf(u) <=> e = x
      <4>1. ASSUME NEW v \in ToSet(joined)
            PROVE  RefundRow(v) \in RowsOf(u) <=> v = u
        BY <1>2, FeeRows DEF RowsOf
      <4>2. ASSUME NEW v \in ToSet(joined)
            PROVE  RefundRow(v) = x <=> v = u
        BY <1>2, <2>1, FeeRows
      <4>3. QED BY <4>1, <4>2 DEF RefundRows
    <3>2. x \in R <=> u \in ToSet(joined)
      <4>1. ASSUME NEW v \in ToSet(joined)
            PROVE  RefundRow(v) = x <=> v = u
        BY <1>2, <2>1, FeeRows
      <4>2. QED BY <2>1, <4>1 DEF RefundRows
    <3> HIDE DEF R
    <3>3. QED BY <3>1, <3>2
  <2> HIDE DEF R
  <2>3. PICK w : w = Signed(n)
    OBVIOUS
  <2>4. w[x] = EntryFee /\ w[x] \in Int
    BY <2>1, <2>3, WorthType, FeeAssumption
  <2>5. SumFunctionOnSet(w, {x}) = w[x] /\ SumFunctionOnSet(w, {}) = 0
    BY <2>4, SumSingleton, SumEmpty
  <2>6. QED BY <2>2, <2>3, <2>4, <2>5
<1> HIDE DEF R
<1>7. R \in SUBSET LedgerRows
  BY <1>3
<1>8. ASSUME NEW T
      PROVE  /\ Total(Signed(n), T, ledger') = Total(Signed(n), T, ledger) + SumFunctionOnSet(Signed(n), R \cap T)
             /\ Total(Worth(n), T, ledger') = Total(Worth(n), T, ledger) + SumFunctionOnSet(Worth(n), R \cap T)
             /\ Total(One, T, ledger') = Total(One, T, ledger) + SumFunctionOnSet(One, R \cap T)
  BY <1>4, <1>5, <1>7, Booked
<1>9. \A T : /\ Total(Signed(n), T, ledger) \in Int /\ Total(Worth(n), T, ledger) \in Int
             /\ Total(One, T, ledger) \in Int
  BY TotalType
<1>10. balance' \in [Users -> Int] /\ \A u \in Users : balance'[u] = balance[u] + IF u \in ToSet(joined) THEN EntryFee ELSE 0
  BY FeeAssumption DEF CancelAndRefund, TypeInv
<1>11. WalletInv'
  <2>1. ASSUME NEW u \in Users
        PROVE  balance'[u] = Funds + Total(Signed(n), RowsOf(u), ledger')
    <3>1. PICK t \in Int : t = Total(Signed(n), RowsOf(u), ledger)
      BY <1>9
    <3>2. balance[u] = Funds + t
      BY <1>1, <3>1 DEF WalletInv
    <3>3. PICK d \in Int : d = IF u \in ToSet(joined) THEN EntryFee ELSE 0
      BY FeeAssumption
    <3>4. Total(Signed(n), RowsOf(u), ledger') = t + d
      BY <1>6, <1>8, <3>1, <3>3
    <3>5. balance'[u] = balance[u] + d
      BY <1>10, <3>3
    <3>6. QED BY <3>2, <3>4, <3>5, FeeAssumption
  <2>2. QED BY <1>1, <2>1 DEF WalletInv
<1>12. ASSUME NEW T, R \cap T = {}
       PROVE  /\ Total(Worth(n), T, ledger') = Total(Worth(n), T, ledger)
              /\ Total(One, T, ledger') = Total(One, T, ledger)
  BY <1>8, <1>9, <1>12, SumEmpty
<1>13. FeesInv'
  <2>1. R \cap Holds = {}
    BY <1>3 DEF Holds
  <2>2. Total(Worth(n), Holds, ledger') = Pool(n)
    BY <1>1, <1>12, <2>1 DEF FeesInv
  <2>3. QED BY <1>1, <1>5, <2>2 DEF FeesInv, R
<1>14. ASSUME NEW m PROVE Total(One, SettledRows(m), ledger') = Total(One, SettledRows(m), ledger)
  <2>1. R \cap SettledRows(m) = {}
    BY <1>3 DEF SettledRows
  <2>2. QED BY <1>12, <2>1
<1>15. Total(Worth(n), PaidRows, ledger') = Total(Worth(n), PaidRows, ledger) + Pool(n)
  <2>1. R \cap PaidRows = R
    BY <1>3 DEF PaidRows
  <2>2. QED BY <1>5, <1>8, <2>1
<1>16. /\ ledger' \in [DOMAIN ledger' -> Nat] /\ DOMAIN ledger' = DOMAIN ledger \cup R
       /\ DOMAIN ledger' \in SUBSET LedgerRows /\ IsFiniteSet(DOMAIN ledger')
  BY <1>1, <1>4, <1>5, <1>7, Booked
<1>17. QED BY <1>1, <1>3, <1>10, <1>11, <1>13, <1>14, <1>15, <1>16 DEF R

PrizeRow(m, user, via) == Entry("PRIZE_PAYOUT", user, m, via)

\* The rows of payouts.
LEMMA PrizeRows ==
  ASSUME NEW m \in MatchIds, NEW u \in Users, NEW via \in PrizeVias
  PROVE  /\ PrizeRow(m, u, via) \in LedgerRows /\ PrizeRow(m, u, via).type = "PRIZE_PAYOUT"
         /\ PrizeRow(m, u, via).user = u /\ PrizeRow(m, u, via).match = m
         /\ PrizeRow(m, u, via).via = via
BY DEF PrizeRow, Entry, LedgerRows

\* A payout of the pool books what it pays, to the winner and the organizer.
LEMMA PayMoney ==
  ASSUME TypeInv, WalletInv, FeesInv, NEW m \in DOMAIN matches, NEW w \in Users,
         NEW win, NEW org, <<win, org>> \in {<<"win", "org">>, <<"win_v1", "org_v1">>},
         PayPool(m, w, win, org), joined' = joined
  PROVE  /\ WalletInv' /\ FeesInv' /\ balance' \in [Users -> Int]
         /\ ledger' \in [DOMAIN ledger' -> Nat] /\ DOMAIN ledger \subseteq DOMAIN ledger'
         /\ DOMAIN ledger' \in SUBSET LedgerRows /\ IsFiniteSet(DOMAIN ledger')
         /\ \A e \in DOMAIN ledger' \ DOMAIN ledger : e.match = m /\ e.via \in {win, org}
         /\ \E e \in DOMAIN ledger' : e.via = win /\ e.match = m
         /\ \A k : Total(One, SettledRows(k), ledger')
                     = Total(One, SettledRows(k), ledger) + IF win = "win_v1" /\ k = m THEN 1 ELSE 0
         /\ Total(Worth(Len(joined)), PaidRows, ledger')
              = Total(Worth(Len(joined)), PaidRows, ledger) + (Prize(Len(joined)) + Cut(Len(joined)))
<1>1. PICK n \in Nat : n = Len(joined) /\ Len(joined') = n
  BY Participants
<1>2. PICK p \in Nat, c \in Nat : p = Prize(n) /\ c = Cut(n)
  BY Shares
<1>3. WinnerPayout = p /\ OrganizerCut = c
  BY <1>1, <1>2 DEF WinnerPayout, OrganizerCut, PlatformTotalFee, TotalPool, Prize, Cut, FeeOf, Pool
<1>4. m \in MatchIds /\ win \in PrizeVias /\ org \in PrizeVias
  BY DEF TypeInv, PrizeVias
<1>5. PICK x \in LedgerRows : /\ x = PrizeRow(m, w, win) /\ x.type = "PRIZE_PAYOUT"
                              /\ x.user = w /\ x.match = m /\ x.via = win
  BY <1>4, PrizeRows
<1>6. PICK y \in LedgerRows : /\ y = PrizeRow(m, Organizer, org) /\ y.type = "PRIZE_PAYOUT"
                              /\ y.user = Organizer /\ y.match = m /\ y.via = org
  BY <1>4, PrizeRows, OrganizerAssumption
<1>7. x # y /\ win \in {"win", "win_v1"} /\ org \in {"org", "org_v1"} /\ win # org
  BY <1>5, <1>6
<1>8. PICK both \in BOOLEAN : both <=> c > 0
  OBVIOUS
<1> DEFINE E == {x} \cup (IF both THEN {y} ELSE {})
<1>9. Book(E)
  BY <1>3, <1>5, <1>6, <1>8 DEF PayPool, PrizeRow
<1>10. E \in SUBSET LedgerRows
  OBVIOUS
<1>11. IsFiniteSet(E)
  <2>1. IsFiniteSet({x}) /\ IsFiniteSet({y}) /\ IsFiniteSet({})
    BY FS_Singleton, FS_EmptySet
  <2>2. IsFiniteSet({x} \cup {y})
    BY <2>1, FS_Union
  <2>3. E = {x} \/ E = {x} \cup {y}
    OBVIOUS
  <2> HIDE DEF E
  <2>4. QED BY <2>1, <2>2, <2>3
<1>12. /\ Signed(n)[x] = p /\ Worth(n)[x] = p /\ One[x] = 1
       /\ Signed(n)[y] = c /\ Worth(n)[y] = c /\ One[y] = 1
  BY <1>2, <1>5, <1>6, <1>7, WorthType
<1>13. ASSUME NEW T
       PROVE  /\ SumFunctionOnSet(Signed(n), E \cap T) = (IF x \in T THEN p ELSE 0) + (IF y \in T THEN c ELSE 0)
              /\ SumFunctionOnSet(Worth(n), E \cap T) = (IF x \in T THEN p ELSE 0) + (IF y \in T THEN c ELSE 0)
              /\ SumFunctionOnSet(One, E \cap T) = (IF x \in T THEN 1 ELSE 0) + (IF both /\ y \in T THEN 1 ELSE 0)
  <2>1. ASSUME NEW f, f[x] \in Int, f[y] \in Int
        PROVE  SumFunctionOnSet(f, E \cap T) = TwoWorths(x, y, f, T, both)
    BY ONLY <1>7, <2>1, both \in BOOLEAN, TwoRows
  <2>2. /\ SumFunctionOnSet(Signed(n), E \cap T) = TwoWorths(x, y, Signed(n), T, both)
        /\ SumFunctionOnSet(Worth(n), E \cap T) = TwoWorths(x, y, Worth(n), T, both)
        /\ SumFunctionOnSet(One, E \cap T) = TwoWorths(x, y, One, T, both)
    BY <1>12, <2>1
  <2>3. (IF both /\ y \in T THEN c ELSE 0) = (IF y \in T THEN c ELSE 0)
    BY <1>8
  <2>4. /\ TwoWorths(x, y, Signed(n), T, both) = (IF x \in T THEN p ELSE 0) + (IF y \in T THEN c ELSE 0)
        /\ TwoWorths(x, y, Worth(n), T, both) = (IF x \in T THEN p ELSE 0) + (IF y \in T THEN c ELSE 0)
    BY ONLY <1>12, <2>3 DEF TwoWorths
  <2>5. TwoWorths(x, y, One, T, both) = (IF x \in T THEN 1 ELSE 0) + (IF both /\ y \in T THEN 1 ELSE 0)
    BY ONLY <1>12 DEF TwoWorths
  <2>6. QED BY ONLY <2>2, <2>4, <2>5
<1> HIDE DEF E
<1>14. ASSUME NEW T
       PROVE  /\ Total(Signed(n), T, ledger') = Total(Signed(n), T, ledger) + ((IF x \in T THEN p ELSE 0) + (IF y \in T THEN c ELSE 0))
              /\ Total(Worth(n), T, ledger') = Total(Worth(n), T, ledger) + ((IF x \in T THEN p ELSE 0) + (IF y \in T THEN c ELSE 0))
              /\ Total(One, T, ledger') = Total(One, T, ledger) + ((IF x \in T THEN 1 ELSE 0) + (IF both /\ y \in T THEN 1 ELSE 0))
  <2>1. /\ Total(Signed(n), T, ledger') = Total(Signed(n), T, ledger) + SumFunctionOnSet(Signed(n), E \cap T)
        /\ Total(Worth(n), T, ledger') = Total(Worth(n), T, ledger) + SumFunctionOnSet(Worth(n), E \cap T)
        /\ Total(One, T, ledger') = Total(One, T, ledger) + SumFunctionOnSet(One, E \cap T)
    BY <1>9, <1>10, <1>11, Booked
  <2>2. QED BY <1>13, <2>1
<1>15. \A T : /\ Total(Signed(n), T, ledger) \in Int /\ Total(Worth(n), T, ledger) \in Int
              /\ Total(One, T, ledger) \in Int
  BY TotalType
<1>16. /\ balance' \in [Users -> Int]
       /\ \A u \in Users : balance'[u] = balance[u] + (IF u = w THEN p ELSE 0) + (IF u = Organizer THEN c ELSE 0)
  BY <1>3 DEF PayPool, TypeInv
<1>17. WalletInv'
  <2>1. ASSUME NEW u \in Users
        PROVE  balance'[u] = Funds + Total(Signed(n), RowsOf(u), ledger')
    <3>1. PICK t \in Int : t = Total(Signed(n), RowsOf(u), ledger)
      BY <1>15
    <3>2. balance[u] = Funds + t
      BY <1>1, <3>1 DEF WalletInv
    <3>3. (x \in RowsOf(u) <=> u = w) /\ (y \in RowsOf(u) <=> u = Organizer)
      BY <1>5, <1>6 DEF RowsOf
    <3>4. PICK a \in Int, b \in Int : a = (IF u = w THEN p ELSE 0) /\ b = (IF u = Organizer THEN c ELSE 0)
      OBVIOUS
    <3>5. Total(Signed(n), RowsOf(u), ledger') = t + (a + b)
      BY <1>14, <3>1, <3>3, <3>4
    <3>6. balance'[u] = balance[u] + a + b
      BY <1>16, <3>4
    <3>7. QED BY <3>2, <3>5, <3>6, FeeAssumption
  <2>2. QED BY <1>1, <2>1 DEF WalletInv
<1>18. FeesInv'
  <2>1. x \notin Holds /\ y \notin Holds
    BY <1>5, <1>6 DEF Holds
  <2>2. Total(Worth(n), Holds, ledger') = Total(Worth(n), Holds, ledger)
    BY <1>14, <1>15, <2>1
  <2>3. QED BY <1>1, <2>2 DEF FeesInv
<1>19. ASSUME NEW k
       PROVE  Total(One, SettledRows(k), ledger')
                = Total(One, SettledRows(k), ledger) + IF win = "win_v1" /\ k = m THEN 1 ELSE 0
  <2>1. y \notin SettledRows(k) /\ (x \in SettledRows(k) <=> win = "win_v1" /\ k = m)
    BY <1>5, <1>6, <1>7 DEF SettledRows
  <2>2. QED BY <1>14, <1>15, <2>1
<1>20. Total(Worth(n), PaidRows, ledger') = Total(Worth(n), PaidRows, ledger) + (p + c)
  <2>1. x \in PaidRows /\ y \in PaidRows
    BY <1>5, <1>6 DEF PaidRows
  <2>2. QED BY <1>14, <1>15, <2>1
<1>21. /\ ledger' \in [DOMAIN ledger' -> Nat] /\ DOMAIN ledger' = DOMAIN ledger \cup E
       /\ DOMAIN ledger' \in SUBSET LedgerRows /\ IsFiniteSet(DOMAIN ledger')
  BY <1>1, <1>9, <1>10, <1>11, Booked
<1>22. x \in E /\ \A e \in E : e = x \/ e = y
  BY DEF E
<1>23. \A e \in DOMAIN ledger' \ DOMAIN ledger : e.match = m /\ e.via \in {win, org}
  BY <1>5, <1>6, <1>21, <1>22
<1>24. \E e \in DOMAIN ledger' : e.via = win /\ e.match = m
  BY <1>5, <1>21, <1>22
<1>25. QED BY <1>1, <1>2, <1>16, <1>17, <1>18, <1>19, <1>20, <1>21, <1>23, <1>24

-----------------------------------------------------------------------------
(* The bracket.                                                            *)

\* The places of a round of that many pairs.
RoundRows(r, pairs) == {<<r, i>> : i \in 1..pairs}

\* There are as many places as pairs, each of that round, and a round of one pair is
\* the only one that is a single place.
LEMMA PlacesOfRound ==
  ASSUME NEW r \in Nat \ {0}, NEW pairs \in Nat
  PROVE  /\ RoundRows(r, pairs) \in SUBSET MatchIds /\ IsFiniteSet(RoundRows(r, pairs))
         /\ Cardinality(RoundRows(r, pairs)) = pairs
         /\ \A m \in RoundRows(r, pairs) : m[1] = r /\ m[2] \in 1..pairs
         /\ \A m \in RoundRows(r, pairs) : pairs = 1 <=> RoundRows(r, pairs) = {m}
         /\ pairs # 0 => RoundRows(r, pairs) # {}
<1> DEFINE S == RoundRows(r, pairs)
           f == [i \in 1..pairs |-> <<r, i>>]
<1>1. S \in SUBSET MatchIds
  BY DEF RoundRows, MatchIds
<1>2. f \in Bijection(1..pairs, S)
  BY DEF RoundRows, Bijection, Injection, Surjection, IsInjective
<1>3. IsFiniteSet(1..pairs) /\ Cardinality(1..pairs) = pairs
  <2>1. Cardinality(1..pairs) = IF 1 > pairs THEN 0 ELSE pairs - 1 + 1
    BY FS_Interval
  <2>2. QED BY <2>1, FS_Interval
<1>4. \A m \in S : m[1] = r /\ m[2] \in 1..pairs
  BY DEF RoundRows
<1>5. pairs # 0 => <<r, 1>> \in S
  BY DEF RoundRows
<1> HIDE DEF S, f
<1>6. IsFiniteSet(S) /\ Cardinality(S) = pairs
  <2>1. ExistsBijection(1..pairs, S)
    BY <1>2 DEF ExistsBijection
  <2>2. QED BY <1>3, <2>1, FS_Bijection
<1>7. ASSUME NEW m \in S PROVE pairs = 1 <=> S = {m}
  <2>1. Cardinality(S) = 1 => S = {m}
    BY <1>6, FS_Singleton
  <2>2. Cardinality({m}) = 1
    BY FS_Singleton
  <2>3. QED BY <1>6, <2>1, <2>2
<1>8. QED BY <1>1, <1>4, <1>5, <1>6, <1>7 DEF S

\* The round that is advanced is the last one.
LEMMA CurrentIs ==
  ASSUME NEW ms, NEW last \in Nat \ {0}, {m[1] : m \in DOMAIN ms} = 1..last,
         \A r \in 1..(last - 1) : RoundDone(ms, r)
  PROVE  CurrentRound(ms) = last
<1> DEFINE P(r) == /\ ~RoundDone(ms, r) \/ RoundOf(ms, r + 1) = {}
                   /\ \A q \in 1..(r - 1) : RoundDone(ms, q)
<1>1. \A r \in 1..last : RoundOf(ms, r) # {}
  BY DEF RoundOf
<1>2. RoundOf(ms, last + 1) = {}
  <2>1. last + 1 \notin 1..last
    OBVIOUS
  <2>2. QED BY <2>1 DEF RoundOf
<1>3. P(last)
  BY <1>2
<1>4. ASSUME NEW r \in 1..last, P(r) PROVE r = last
  <2>1. SUFFICES ASSUME r # last PROVE FALSE
    OBVIOUS
  <2>2. r + 1 \in 1..last /\ r \in 1..(last - 1)
    BY <2>1
  <2>3. RoundDone(ms, r) /\ RoundOf(ms, r + 1) # {}
    BY <1>1, <2>2
  <2>4. QED BY <1>4, <2>3
<1>5. CurrentRound(ms) = CHOOSE r \in 1..last : P(r)
  BY DEF CurrentRound
<1> HIDE DEF P
<1>6. QED BY <1>3, <1>4, <1>5

\* rows are the matches of round r, as they are opened.
Opens(rows, r, pairs) ==
  /\ DOMAIN rows = RoundRows(r, pairs) /\ rows \in [DOMAIN rows -> MatchRows]
  /\ \A m \in DOMAIN rows : rows[m].status = "PENDING" /\ (rows[m].prize <=> pairs = 1)

\* All the rounds of bracket ms are done, none of them with the prize.
Finished(ms, last) ==
  /\ {m[1] : m \in DOMAIN ms} = 1..last /\ \A r \in 1..last : RoundDone(ms, r)
  /\ \A m \in DOMAIN ms : ~ms[m].prize /\ RoundOf(ms, m[1]) # {m}

\* all is the bracket ms with the matches of round r.
Extends(all, ms, rows, r, pairs) ==
  /\ DOMAIN all = DOMAIN ms \cup DOMAIN rows
  /\ \A q \in 1..(r - 1) : RoundOf(all, q) = RoundOf(ms, q)
  /\ RoundOf(all, r) = RoundRows(r, pairs)
  /\ \A m \in DOMAIN ms : all[m] = ms[m]
  /\ \A m \in DOMAIN rows : all[m] = rows[m]

\* Another round makes the bracket stand in it: the rounds before are done, and
\* the prize is there exactly when it is a single match.
LEMMA OpensRound ==
  ASSUME NEW ms, NEW last \in Nat, NEW l, l = last + 1, NEW pairs \in Nat \ {0}, NEW rows,
         Finished(ms, last), Opens(rows, l, pairs), NEW all, all = Create(ms, rows)
  PROVE  InStep(all, l, "IN_PROGRESS") /\ Extends(all, ms, rows, l, pairs)
<1>1. l \in Nat \ {0} /\ l \notin 1..last /\ 1..last = 1..(l - 1) /\ 1..l = 1..last \cup {l}
  OBVIOUS
<1>2. PICK R : R = RoundRows(l, pairs)
  OBVIOUS
<1>3. /\ {m[1] : m \in DOMAIN ms} = 1..last /\ \A r \in 1..last : RoundDone(ms, r)
      /\ \A m \in DOMAIN ms : ~ms[m].prize /\ RoundOf(ms, m[1]) # {m}
      /\ DOMAIN rows = R
      /\ \A m \in R : rows[m].status = "PENDING" /\ (rows[m].prize <=> pairs = 1)
  BY <1>2 DEF Finished, Opens
<1>4. /\ R # {} /\ \A m \in R : m[1] = l /\ (pairs = 1 <=> R = {m})
  <2>1. l \in Nat \ {0} /\ pairs \in Nat /\ pairs # 0
    BY <1>1
  <2>2. RoundRows(l, pairs) # {} /\ \A m \in RoundRows(l, pairs) : m[1] = l
    BY <2>1, PlacesOfRound
  <2>3. \A m \in RoundRows(l, pairs) : pairs = 1 <=> RoundRows(l, pairs) = {m}
    BY <2>1, PlacesOfRound
  <2>4. QED BY <1>2, <2>2, <2>3
<1>5. \A m \in DOMAIN ms : m[1] \in 1..last
  BY <1>3
<1>6. DOMAIN rows = R
  BY <1>3
<1>7. \A m \in DOMAIN ms : m \notin R
  BY <1>1, <1>4, <1>5
<1>8. /\ DOMAIN all = DOMAIN ms \cup R
      /\ \A m \in DOMAIN ms : all[m] = ms[m]
      /\ \A m \in R : all[m] = rows[m]
  BY <1>6, <1>7 DEF Create
<1>9. \A r \in 1..last : RoundOf(all, r) = RoundOf(ms, r)
  BY <1>1, <1>4, <1>8 DEF RoundOf
<1>10. RoundOf(all, l) = R
  BY <1>1, <1>4, <1>5, <1>8 DEF RoundOf
<1>11. {m[1] : m \in DOMAIN all} = 1..l
  <2>1. {m[1] : m \in R} = {l}
    BY <1>4
  <2>2. {m[1] : m \in DOMAIN all} = {m[1] : m \in DOMAIN ms} \cup {m[1] : m \in R}
    BY <1>8
  <2>3. QED BY <1>3, <1>1, <2>1, <2>2
<1>12. \A r \in 1..(l - 1) : RoundDone(all, r)
  <2>1. ASSUME NEW r \in 1..last, NEW m \in RoundOf(all, r) PROVE all[m].status \in Terminal
    <3>1. m \in RoundOf(ms, r) /\ m \in DOMAIN ms
      BY <1>9 DEF RoundOf
    <3>2. QED BY <1>3, <1>8, <3>1 DEF RoundDone
  <2>2. QED BY <1>1, <2>1 DEF RoundDone
<1>13. ASSUME NEW m \in DOMAIN all
       PROVE  (all[m].prize <=> RoundOf(all, m[1]) = {m}) /\ (all[m].prize => m[1] = l)
  <2>1. CASE m \in DOMAIN ms
    BY <1>3, <1>5, <1>8, <1>9, <2>1
  <2>2. CASE m \in R
    BY <1>3, <1>4, <1>8, <1>10, <2>2
  <2>3. QED BY <1>8, <2>1, <2>2
<1>14. ~RoundDone(all, l)
  <2>1. PICK m \in R : all[m].status = "PENDING"
    BY <1>3, <1>4, <1>8
  <2>2. QED BY <1>10, <2>1 DEF RoundDone, Terminal
<1>15. InStep(all, l, "IN_PROGRESS")
  BY <1>1, <1>11, <1>12, <1>13, <1>14 DEF InStep
<1>16. QED BY <1>1, <1>2, <1>6, <1>8, <1>9, <1>10, <1>15 DEF Extends

\* b differs from the match rows a in row m, and there in the fields named.
Differs(a, b, m, fields) ==
  /\ b \in [DOMAIN a -> MatchRows]
  /\ \A k \in DOMAIN a \ {m} : b[k] = a[k]
  /\ b[m].prize = a[m].prize /\ b[m].players = a[m].players
  /\ "status" \notin fields => b[m].status = a[m].status
  /\ "winner" \notin fields => b[m].winner = a[m].winner

Reports == UNION {[U -> Users] : U \in SUBSET Users}

\* No reports are reports.
LEMMA NoReports == <<>> \in Reports
<1>1. <<>> \in [{} -> Users]
  OBVIOUS
<1>2. {} \in SUBSET Users
  OBVIOUS
<1>3. QED BY <1>1, <1>2 DEF Reports

\* What closing a match changes, before the bracket is advanced.
ClosedAt(m, s, w) ==
  [matches EXCEPT ![m].status = s, ![m].winner = w, ![m].reports = <<>>]

\* A close sets status and winner of its match and leaves every other match, the
\* prize and the rounds as they are.
LEMMA CloseEdit ==
  ASSUME TypeInv, NEW m \in DOMAIN matches, NEW s \in Terminal, NEW w \in Users,
         NEW ms, ms = ClosedAt(m, s, w)
  PROVE  /\ DOMAIN ms = DOMAIN matches /\ ms \in [DOMAIN ms -> MatchRows]
         /\ ms[m].status = s
         /\ \A k \in DOMAIN matches \ {m} : ms[k] = matches[k]
         /\ \A k \in DOMAIN matches : ms[k].prize = matches[k].prize
         /\ \A r : RoundOf(ms, r) = RoundOf(matches, r)
         /\ \A r : RoundDone(matches, r) => RoundDone(ms, r)
<1>1. matches \in [DOMAIN matches -> MatchRows] /\ matches[m] \in MatchRows
  BY DEF TypeInv
<1> DEFINE D == DOMAIN matches
<1>2. PICK a : a = [matches EXCEPT ![m].status = s]
  OBVIOUS
<1>3. PICK b : b = [a EXCEPT ![m].winner = w]
  OBVIOUS
<1>4. ms = [b EXCEPT ![m].reports = <<>>]
  BY <1>2, <1>3 DEF ClosedAt
<1>5. a \in [D -> MatchRows] /\ Differs(matches, a, m, {"status"}) /\ a[m].status = s
  <2>1. s \in {"PENDING", "DISPUTED", "RESOLVED", "SETTLED"}
    BY DEF Terminal
  <2>2. Differs(matches, a, m, {"status"}) /\ a[m].status = s
    BY <1>1, <1>2, <2>1 DEF MatchRows, Differs
  <2>3. QED BY <2>2 DEF Differs
<1>6. b \in [D -> MatchRows] /\ Differs(a, b, m, {"winner"}) /\ b[m].winner = w
  <2>1. Differs(a, b, m, {"winner"}) /\ b[m].winner = w
    BY <1>3, <1>5 DEF MatchRows, Differs
  <2>2. QED BY <1>5, <2>1 DEF Differs
<1>7. Differs(b, ms, m, {})
  <2>1. PICK q \in Reports : q = <<>>
    BY NoReports
  <2>2. ms = [b EXCEPT ![m].reports = q]
    BY <1>4, <2>1
  <2>3. QED BY <1>6, <2>2 DEF MatchRows, Differs, Reports
<1>8. /\ DOMAIN ms = D /\ ms \in [D -> MatchRows]
      /\ ms[m].status = s /\ ms[m].prize = matches[m].prize
      /\ \A k \in D \ {m} : ms[k] = matches[k]
  BY <1>5, <1>6, <1>7 DEF Differs
<1>9. \A k \in D : ms[k].prize = matches[k].prize
  BY <1>8
<1>10. \A r : RoundOf(ms, r) = RoundOf(matches, r)
  BY <1>8 DEF RoundOf
<1>11. ASSUME NEW r, RoundDone(matches, r) PROVE RoundDone(ms, r)
  <2>1. \A k \in RoundOf(matches, r) : k \in D /\ matches[k].status \in Terminal
    BY <1>11 DEF RoundDone, RoundOf
  <2>2. ms[m].status \in Terminal
    BY <1>8
  <2>3. QED BY <1>8, <1>10, <2>1, <2>2 DEF RoundDone
<1>12. QED BY <1>8, <1>9, <1>10, <1>11

\* The winners of a round that is done are paired once, in some order.
LEMMA OrderOfRound ==
  ASSUME NEW S, IsFiniteSet(S), NEW order \in SetToSeqs(S)
  PROVE  /\ order \in Seq(S) /\ Len(order) = Cardinality(S)
         /\ \A x \in S : \E i \in 1..Len(order) : order[i] = x
<1>1. PICK n \in Nat : n = Cardinality(S)
  BY FS_CardinalityType
<1>2. order \in [1..n -> S] /\ \A i, j \in 1..n : i # j => order[i] # order[j]
  BY <1>1 DEF SetToSeqs
<1>3. order \in Seq(S) /\ Len(order) = n
  BY <1>2
<1>4. order \in Injection(1..n, S)
  BY <1>2 DEF Injection, IsInjective
<1>5. Cardinality(1..n) = n
  <2>1. Cardinality(1..n) = IF 1 > n THEN 0 ELSE n - 1 + 1
    BY FS_Interval
  <2>2. QED BY <2>1
<1>6. order \in Surjection(1..n, S)
  BY <1>1, <1>4, <1>5, FS_Injection
<1>7. QED BY <1>1, <1>3, <1>6 DEF Surjection

\* order is an order of the matches of the last round, which make that many pairs.
Pairable(ms, last, order, pairs) ==
  /\ ms \in [DOMAIN ms -> MatchRows] /\ IsFiniteSet(RoundOf(ms, last))
  /\ order \in SetToSeqs(RoundOf(ms, last)) /\ Cardinality(RoundOf(ms, last)) = 2 * pairs

\* The players of rows are the winners of a round of ms.
Between(rows, ms, r) ==
  UNION {rows[m].players : m \in DOMAIN rows} = {ms[m].winner : m \in RoundOf(ms, r)}

\* The rows of the next round: as many pairs as the order makes, each of two
\* winners.
LEMMA RoundOpened ==
  ASSUME NEW ms, NEW last \in Nat \ {0}, NEW pairs \in Nat, NEW order,
         Pairable(ms, last, order, pairs), NEW rows, rows = NextRound(ms, last, order)
  PROVE  Opens(rows, last + 1, pairs) /\ Between(rows, ms, last)
<1>1. /\ ms \in [DOMAIN ms -> MatchRows] /\ IsFiniteSet(RoundOf(ms, last))
      /\ order \in SetToSeqs(RoundOf(ms, last)) /\ Cardinality(RoundOf(ms, last)) = 2 * pairs
  BY DEF Pairable
<1> DEFINE S == RoundOf(ms, last)
           R == RoundRows(last + 1, pairs)
<1>2. /\ order \in Seq(S) /\ Len(order) = 2 * pairs
      /\ \A x \in S : \E i \in 1..Len(order) : order[i] = x
  BY <1>1, OrderOfRound
<1>3. Len(order) \div 2 = pairs
  BY <1>2
<1>4. /\ DOMAIN rows = R
      /\ \A m \in R : rows[m] = MatchOf({ms[order[2 * m[2] - 1]].winner, ms[order[2 * m[2]]].winner}, pairs = 1)
  BY <1>3 DEF NextRound, RoundRows
<1>5. \A m \in R : m[1] = last + 1 /\ m[2] \in 1..pairs
  BY DEF RoundRows
<1>6. \A i \in 1..pairs : /\ 2 * i - 1 \in 1..Len(order) /\ 2 * i \in 1..Len(order)
                          /\ <<last + 1, i>> \in R
  BY <1>2 DEF RoundRows
<1>7. S \subseteq DOMAIN ms
  BY DEF RoundOf
<1> HIDE DEF S, R
<1>8. ASSUME NEW i \in 1..Len(order) PROVE order[i] \in S /\ ms[order[i]] \in MatchRows /\ ms[order[i]].winner \in Users \cup {NoUser}
  <2>1. order[i] \in S
    BY <1>2
  <2>2. ms[order[i]] \in MatchRows
    BY <1>1, <1>7, <2>1
  <2>3. QED BY <2>1, <2>2 DEF MatchRows
<1>9. ASSUME NEW m \in R
      PROVE  /\ rows[m] \in MatchRows /\ rows[m].status = "PENDING" /\ (rows[m].prize <=> pairs = 1)
             /\ rows[m].players = {ms[order[2 * m[2] - 1]].winner, ms[order[2 * m[2]]].winner}
  <2>1. PICK a \in Users \cup {NoUser}, b \in Users \cup {NoUser} :
          a = ms[order[2 * m[2] - 1]].winner /\ b = ms[order[2 * m[2]]].winner
    BY <1>5, <1>6, <1>8
  <2>2. PICK alone \in BOOLEAN : alone = (pairs = 1)
    OBVIOUS
  <2>3. PICK q \in Reports : q = <<>>
    BY NoReports
  <2>4. rows[m] = [players |-> {a, b}, status |-> "PENDING", winner |-> NoUser, prize |-> alone, reports |-> q]
    BY <1>4, <2>1, <2>2, <2>3 DEF MatchOf
  <2>5. rows[m] \in MatchRows
    BY <2>4 DEF MatchRows, Reports
  <2>6. rows[m].players = {a, b} /\ rows[m].status = "PENDING" /\ rows[m].prize = alone
    BY <2>4
  <2>7. rows[m].players = {ms[order[2 * m[2] - 1]].winner, ms[order[2 * m[2]]].winner}
    BY <2>1, <2>6
  <2>8. QED BY <2>2, <2>5, <2>6, <2>7
<1>10. rows \in [R -> MatchRows]
  <2>1. rows = [m \in DOMAIN rows |-> rows[m]]
    BY DEF NextRound
  <2>2. QED BY <1>4, <1>9, <2>1
<1>11. ASSUME NEW v PROVE (\E m \in R : v \in rows[m].players) <=> (\E x \in S : v = ms[x].winner)
  <2>1. ASSUME NEW m \in R, v \in rows[m].players PROVE \E x \in S : v = ms[x].winner
    <3>1. v = ms[order[2 * m[2] - 1]].winner \/ v = ms[order[2 * m[2]]].winner
      BY <1>9, <2>1
    <3>2. order[2 * m[2] - 1] \in S /\ order[2 * m[2]] \in S
      BY <1>5, <1>6, <1>8
    <3>3. QED BY <3>1, <3>2
  <2>2. ASSUME NEW x \in S, v = ms[x].winner PROVE \E m \in R : v \in rows[m].players
    <3>1. PICK j \in 1..(2 * pairs) : order[j] = x
      BY <1>2
    <3>2. PICK i \in 1..pairs : j = 2 * i - 1 \/ j = 2 * i
      <4>1. CASE j % 2 = 0
        <5>1. j \div 2 \in 1..pairs /\ j = 2 * (j \div 2)
          BY <4>1
        <5>2. QED BY <5>1
      <4>2. CASE j % 2 # 0
        <5>1. (j + 1) \div 2 \in 1..pairs /\ j = 2 * ((j + 1) \div 2) - 1
          BY <4>2
        <5>2. QED BY <5>1
      <4>3. QED BY <4>1, <4>2
    <3>3. PICK m \in R : m = <<last + 1, i>> /\ m[2] = i
      BY <1>6
    <3>4. v \in rows[m].players
      BY <1>9, <2>2, <3>1, <3>2, <3>3
    <3>5. QED BY <3>4
  <2>3. QED BY <2>1, <2>2
<1>12. UNION {rows[m].players : m \in R} = {ms[m].winner : m \in S}
  <2> DEFINE P == UNION {rows[m].players : m \in R}
             W == {ms[m].winner : m \in S}
  <2>1. ASSUME NEW v PROVE v \in P <=> \E m \in R : v \in rows[m].players
    OBVIOUS
  <2>2. ASSUME NEW v PROVE v \in W <=> \E x \in S : v = ms[x].winner
    OBVIOUS
  <2> HIDE DEF P, W
  <2>3. P = W
    BY <1>11, <2>1, <2>2
  <2>4. QED BY <2>3 DEF P, W
<1>13. QED BY <1>4, <1>9, <1>10, <1>12 DEF R, S, Opens, Between

\* The three outcomes of the close of a match, in terms of the last round.
LEMMA CloseCases ==
  ASSUME TypeInv, NEW last \in Nat \ {0}, InStep(matches, last, tstatus),
         NEW m \in DOMAIN matches, NEW s \in Terminal, NEW w \in Users, Close(m, s, w),
         NEW ms, ms = ClosedAt(m, s, w)
  PROVE  \/ /\ tstatus # "IN_PROGRESS" \/ ~RoundDone(ms, last)
            /\ matches' = ms /\ tstatus' = tstatus
         \/ /\ tstatus = "IN_PROGRESS" /\ RoundDone(ms, last)
            /\ \E k \in DOMAIN ms : RoundOf(ms, last) = {k}
            /\ matches' = ms /\ tstatus' = "COMPLETED"
         \/ /\ tstatus = "IN_PROGRESS" /\ RoundDone(ms, last) /\ tstatus' = tstatus
            /\ \E pairs \in Nat \ {0}, order \in SetToSeqs(RoundOf(ms, last)) :
                 /\ Cardinality(RoundOf(ms, last)) = 2 * pairs
                 /\ matches' = Create(ms, NextRound(ms, last, order))
<1>1. /\ DOMAIN ms = DOMAIN matches /\ \A r : RoundOf(ms, r) = RoundOf(matches, r)
      /\ \A r : RoundDone(matches, r) => RoundDone(ms, r)
  BY CloseEdit
<1>2. {k[1] : k \in DOMAIN ms} = 1..last /\ \A r \in 1..(last - 1) : RoundDone(ms, r)
  BY <1>1 DEF InStep
<1>3. CurrentRound(ms) = last
  BY <1>2, CurrentIs
<1>4. PICK n \in Nat : n = Cardinality(RoundOf(ms, last)) /\ n # 0 /\ IsFiniteSet(RoundOf(ms, last))
  <2>1. RoundOf(ms, last) \in SUBSET DOMAIN ms /\ RoundOf(ms, last) # {}
    <3>1. last \in {k[1] : k \in DOMAIN ms}
      BY <1>2
    <3>2. QED BY <3>1 DEF RoundOf
  <2>2. IsFiniteSet(DOMAIN ms)
    BY <1>1 DEF TypeInv
  <2>3. IsFiniteSet(RoundOf(ms, last))
    BY <2>1, <2>2, FS_Subset
  <2>4. QED BY <2>1, <2>3, FS_CardinalityType, FS_EmptySet
<1>5. \/ /\ tstatus # "IN_PROGRESS" \/ ~RoundDone(ms, last)
         /\ matches' = ms /\ tstatus' = tstatus
      \/ /\ tstatus = "IN_PROGRESS" /\ RoundDone(ms, last) /\ n = 1
         /\ matches' = ms /\ tstatus' = "COMPLETED"
      \/ /\ tstatus = "IN_PROGRESS" /\ RoundDone(ms, last) /\ n % 2 = 0
         /\ \E order \in SetToSeqs(RoundOf(ms, last)) :
              matches' = Create(ms, NextRound(ms, last, order))
         /\ tstatus' = tstatus
  <2>1. AdvanceAfterTerminalMatch(ms)
    BY DEF Close, ClosedAt
  <2>2. QED BY <1>3, <1>4, <2>1 DEF AdvanceAfterTerminalMatch
<1>6. n = 1 => \E k \in DOMAIN ms : RoundOf(ms, last) = {k}
  <2>1. n = 1 => \E k : RoundOf(ms, last) = {k}
    BY <1>4, FS_Singleton
  <2>2. QED BY <2>1 DEF RoundOf
<1>7. n % 2 = 0 => \E pairs \in Nat \ {0} : n = 2 * pairs
  <2>1. n % 2 = 0 => n \div 2 \in Nat \ {0} /\ n = 2 * (n \div 2)
    BY <1>4
  <2>2. QED BY <2>1
<1>8. QED BY <1>4, <1>5, <1>6, <1>7

\* What the action property says of a step.
TakesWinners ==
  \A r \in {m[1] : m \in DOMAIN matches} :
    RoundOf(matches, r + 1) = {} /\ RoundOf(matches', r + 1) # {} =>
      /\ 2 * Cardinality(RoundOf(matches', r + 1)) =
           Cardinality(RoundOf(matches', r))
      /\ UNION {matches'[m].players : m \in RoundOf(matches', r + 1)} =
           {matches'[m].winner : m \in RoundOf(matches', r)}

\* A step that creates no match opens no round.
LEMMA OpensNothing ==
  ASSUME DOMAIN matches' = DOMAIN matches PROVE TakesWinners
<1>1. ASSUME NEW r PROVE RoundOf(matches', r) = RoundOf(matches, r)
  BY DEF RoundOf
<1>2. QED BY <1>1 DEF TakesWinners

\* The close of a match leaves the bracket in step: it completes the tournament
\* exactly when it closes the match with the prize of a running one, and opens a
\* round between all the winners when it closes another last match of a round.
LEMMA CloseIs ==
  ASSUME TypeInv, BracketInv, NEW m \in DOMAIN matches, NEW s \in Terminal,
         NEW w \in Users, Close(m, s, w)
  PROVE  /\ BracketInv' /\ TakesWinners
         /\ matches' \in [DOMAIN matches' -> MatchRows]
         /\ DOMAIN matches' \in SUBSET MatchIds /\ IsFiniteSet(DOMAIN matches')
         /\ DOMAIN matches \subseteq DOMAIN matches'
         /\ tstatus # "REGISTRATION" /\ tstatus' \in {tstatus, "COMPLETED"}
         /\ matches'[m].status = s
         /\ \A k \in DOMAIN matches \ {m} : matches'[k].status = matches[k].status
         /\ \A k \in DOMAIN matches : matches'[k].prize = matches[k].prize
         /\ \A k \in DOMAIN matches' \ DOMAIN matches : matches'[k].status = "PENDING"
         /\ matches[m].prize /\ tstatus = "IN_PROGRESS" => tstatus' = "COMPLETED"
         /\ matches[m].prize /\ tstatus = "COMPLETED" => matches[m].status \in Terminal
         /\ ~(matches[m].prize /\ tstatus = "IN_PROGRESS") => tstatus' = tstatus
<1>1. PICK last \in Nat : InStep(matches, last, tstatus)
  BY DEF BracketInv
<1>2. m[1] \in 1..last /\ last # 0 /\ tstatus # "REGISTRATION"
  BY <1>1 DEF InStep
<1>3. PICK ms : ms = ClosedAt(m, s, w)
  OBVIOUS
<1>4. /\ DOMAIN ms = DOMAIN matches /\ ms \in [DOMAIN ms -> MatchRows]
      /\ ms[m].status = s
      /\ \A k \in DOMAIN matches \ {m} : ms[k] = matches[k]
      /\ \A k \in DOMAIN matches : ms[k].prize = matches[k].prize
      /\ \A r : RoundOf(ms, r) = RoundOf(matches, r)
      /\ \A r : RoundDone(matches, r) => RoundDone(ms, r)
  BY <1>3, CloseEdit
<1>5. /\ {k[1] : k \in DOMAIN ms} = 1..last
      /\ \A r \in 1..(last - 1) : RoundDone(ms, r)
      /\ \A k \in DOMAIN ms : ms[k].prize <=> RoundOf(ms, k[1]) = {k}
      /\ \A k \in DOMAIN ms : ms[k].prize => k[1] = last
  BY <1>1, <1>4 DEF InStep
<1>6. DOMAIN ms \in SUBSET MatchIds /\ IsFiniteSet(DOMAIN ms)
  BY <1>4 DEF TypeInv
<1>7. matches[m].prize => RoundOf(ms, last) = {m} /\ RoundDone(ms, last)
  <2>1. matches[m].prize => RoundOf(ms, last) = {m}
    BY <1>4, <1>5
  <2>2. QED BY <1>4, <2>1 DEF RoundDone
<1>8. matches[m].prize /\ tstatus = "COMPLETED" => matches[m].status \in Terminal
  <2>1. tstatus = "COMPLETED" => RoundDone(matches, last)
    BY <1>1 DEF InStep
  <2>2. QED BY <1>4, <1>7, <2>1 DEF RoundDone
<1>9. CASE /\ tstatus # "IN_PROGRESS" \/ ~RoundDone(ms, last)
           /\ matches' = ms /\ tstatus' = tstatus
  <2>1. PICK t : t = tstatus
    OBVIOUS
  <2>2. InStep(ms, last, t)
    <3>1. /\ t = "REGISTRATION" => last = 0
          /\ t \in {"IN_PROGRESS", "COMPLETED"} => last # 0
      BY <1>2, <2>1
    <3>2. t = "IN_PROGRESS" => ~RoundDone(ms, last)
      BY <1>9, <2>1
    <3>3. t = "COMPLETED" => RoundDone(ms, last) /\ \E k \in DOMAIN ms : RoundOf(ms, last) = {k}
      <4>1. t = "COMPLETED" => RoundDone(matches, last) /\ \E k \in DOMAIN matches : RoundOf(matches, last) = {k}
        BY <1>1, <2>1 DEF InStep
      <4>2. QED BY <1>4, <4>1
    <3>4. QED BY <1>5, <3>1, <3>2, <3>3 DEF InStep
  <2>3. BracketInv'
    <3>1. matches' = ms /\ tstatus' = t
      BY <1>9, <2>1
    <3>2. QED BY <2>2, <3>1 DEF BracketInv
  <2>4. TakesWinners
    BY <1>4, <1>9, OpensNothing
  <2>5. ~(matches[m].prize /\ tstatus = "IN_PROGRESS")
    BY <1>7, <1>9
  <2>6. QED BY <1>2, <1>4, <1>6, <1>8, <1>9, <2>3, <2>4, <2>5
<1>10. CASE /\ tstatus = "IN_PROGRESS" /\ RoundDone(ms, last)
            /\ \E k \in DOMAIN ms : RoundOf(ms, last) = {k}
            /\ matches' = ms /\ tstatus' = "COMPLETED"
  <2>1. InStep(ms, last, "COMPLETED")
    BY <1>2, <1>5, <1>10 DEF InStep
  <2>2. BracketInv'
    BY <1>10, <2>1 DEF BracketInv
  <2>3. TakesWinners
    BY <1>4, <1>10, OpensNothing
  <2>4. matches[m].prize
    <3>1. ~RoundDone(matches, last)
      BY <1>1, <1>10 DEF InStep
    <3>2. PICK k \in DOMAIN ms : RoundOf(ms, last) = {k}
      BY <1>10
    <3>3. k[1] = last /\ ms[k].prize
      <4>1. k \in RoundOf(ms, last)
        BY <3>2
      <4>2. k[1] = last
        BY <4>1 DEF RoundOf
      <4>3. QED BY <1>5, <3>2, <4>2
    <3>4. m = k
      <4>1. matches[k].status \notin Terminal
        BY <1>4, <3>1, <3>2 DEF RoundDone
      <4>2. ms[k].status \in Terminal
        BY <1>10, <3>2 DEF RoundDone
      <4>3. QED BY <1>4, <4>1, <4>2
    <3>5. QED BY <1>4, <3>3, <3>4
  <2>5. QED BY <1>2, <1>4, <1>6, <1>8, <1>10, <2>2, <2>3, <2>4
<1>11. CASE /\ tstatus = "IN_PROGRESS" /\ RoundDone(ms, last) /\ tstatus' = tstatus
            /\ \E pairs \in Nat \ {0}, order \in SetToSeqs(RoundOf(ms, last)) :
                 /\ Cardinality(RoundOf(ms, last)) = 2 * pairs
                 /\ matches' = Create(ms, NextRound(ms, last, order))
  <2>1. PICK pairs \in Nat \ {0}, order \in SetToSeqs(RoundOf(ms, last)) :
          /\ Cardinality(RoundOf(ms, last)) = 2 * pairs
          /\ matches' = Create(ms, NextRound(ms, last, order))
    BY <1>11
  <2>2. PICK rows : rows = NextRound(ms, last, order)
    OBVIOUS
  <2>3. IsFiniteSet(RoundOf(ms, last))
    <3>1. RoundOf(ms, last) \in SUBSET DOMAIN ms
      BY DEF RoundOf
    <3>2. QED BY <1>6, <3>1, FS_Subset
  <2>4. last \in Nat \ {0} /\ pairs \in Nat
    BY <1>2
  <2>5. PICK l : l = last + 1 /\ l \in Nat \ {0} /\ l - 1 = last
    BY <2>4
  <2>6. Opens(rows, l, pairs) /\ Between(rows, ms, last)
    <3>1. Pairable(ms, last, order, pairs)
      BY <1>4, <2>1, <2>3 DEF Pairable
    <3>2. QED BY <2>2, <2>4, <2>5, <3>1, RoundOpened
  <2>7. /\ DOMAIN rows = RoundRows(l, pairs) /\ rows \in [DOMAIN rows -> MatchRows]
        /\ \A k \in DOMAIN rows : rows[k].status = "PENDING"
    BY <2>6 DEF Opens
  <2>8. \A r \in 1..last : RoundDone(ms, r)
    <3>1. 1..last = 1..(last - 1) \cup {last}
      BY <2>4
    <3>2. QED BY <1>5, <1>11, <3>1
  <2>9. \A k \in DOMAIN ms : ~ms[k].prize /\ RoundOf(ms, k[1]) # {k}
    <3>1. ASSUME NEW k \in DOMAIN ms, ms[k].prize PROVE FALSE
      <4>1. RoundOf(ms, last) = {k}
        BY <1>5, <3>1
      <4>2. Cardinality(RoundOf(ms, last)) = 1
        BY <4>1, FS_Singleton
      <4>3. QED BY <2>1, <4>2
    <3>2. QED BY <1>5, <3>1
  <2>10. PICK all : all = Create(ms, rows) /\ all = matches'
    BY <2>1, <2>2
  <2>11. InStep(all, l, "IN_PROGRESS") /\ Extends(all, ms, rows, l, pairs)
    <3>1. Finished(ms, last)
      BY <1>5, <2>8, <2>9 DEF Finished
    <3>2. QED BY <2>1, <2>4, <2>5, <2>10, <2>6, <3>1, OpensRound
  <2>12. /\ \A r \in 1..last : RoundOf(all, r) = RoundOf(ms, r)
         /\ RoundOf(all, l) = RoundRows(l, pairs)
         /\ DOMAIN all = DOMAIN ms \cup DOMAIN rows
         /\ \A k \in DOMAIN ms : all[k] = ms[k]
         /\ \A k \in DOMAIN rows : all[k] = rows[k]
    BY <2>5, <2>11 DEF Extends
  <2>13. BracketInv'
    BY <1>11, <2>5, <2>10, <2>11 DEF BracketInv
  <2>14. RoundRows(l, pairs) \in SUBSET MatchIds /\ IsFiniteSet(RoundRows(l, pairs))
         /\ Cardinality(RoundRows(l, pairs)) = pairs
    BY <2>4, <2>5, PlacesOfRound
  <2>15. /\ all \in [DOMAIN all -> MatchRows] /\ DOMAIN all \in SUBSET MatchIds /\ IsFiniteSet(DOMAIN all)
    <3>1. all = [k \in DOMAIN all |-> all[k]]
      BY <2>10 DEF Create
    <3>2. \A k \in DOMAIN all : all[k] \in MatchRows
      BY <1>4, <2>7, <2>12
    <3>3. all \in [DOMAIN all -> MatchRows]
      BY <3>1, <3>2
    <3>4. DOMAIN all = DOMAIN ms \cup RoundRows(l, pairs)
      BY <2>7, <2>12
    <3>5. IsFiniteSet(DOMAIN ms \cup RoundRows(l, pairs))
      BY <1>6, <2>14, FS_Union
    <3>6. QED BY <1>6, <2>14, <3>3, <3>4, <3>5
  <2>16. TakesWinners
    <3> USE <2>5
    <3>1. ASSUME NEW r \in {k[1] : k \in DOMAIN matches},
                 RoundOf(matches, r + 1) = {}, RoundOf(all, r + 1) # {}
          PROVE  r = last
      <4>1. r \in 1..last
        BY <1>4, <1>5
      <4>2. r # last => r + 1 \in 1..last
        BY <2>4, <4>1
      <4>3. QED BY <1>4, <2>12, <3>1, <4>2
    <3>2. 2 * Cardinality(RoundOf(all, last + 1)) = Cardinality(RoundOf(all, last))
      <4>1. last \in 1..last
        BY <2>4
      <4>2. QED BY <2>1, <2>12, <2>14, <4>1
    <3>3. UNION {all[k].players : k \in RoundOf(all, last + 1)} = {all[k].winner : k \in RoundOf(all, last)}
      <4>1. last \in 1..last
        BY <2>4
      <4>2. RoundOf(all, last + 1) = DOMAIN rows /\ RoundOf(all, last) = RoundOf(ms, last)
        BY <2>12, <2>7, <4>1
      <4>3. {all[k].players : k \in DOMAIN rows} = {rows[k].players : k \in DOMAIN rows}
        BY <2>12
      <4>4. {all[k].winner : k \in RoundOf(ms, last)} = {ms[k].winner : k \in RoundOf(ms, last)}
        BY <2>12 DEF RoundOf
      <4>5. QED BY <2>6, <4>2, <4>3, <4>4 DEF Between
    <3>4. QED BY <2>10, <3>1, <3>2, <3>3 DEF TakesWinners
  <2>17. ~matches[m].prize
    BY <1>4, <2>9
  <2>18. \A k \in DOMAIN matches \ {m} : all[k].status = matches[k].status
    BY <1>4, <2>12
  <2>19. all[m].status = s /\ \A k \in DOMAIN matches : all[k].prize = matches[k].prize
    BY <1>4, <2>12
  <2>20. \A k \in DOMAIN all \ DOMAIN matches : all[k].status = "PENDING"
    BY <1>4, <2>7, <2>12
  <2>21. DOMAIN matches \subseteq DOMAIN all
    BY <1>4, <2>12
  <2>22. QED BY <1>2, <1>11, <2>10, <2>13, <2>15, <2>16, <2>17, <2>18, <2>19, <2>20, <2>21
<1>12. QED
  <2>1. last \in Nat \ {0}
    BY <1>2
  <2>2. QED BY <1>1, <1>3, <1>9, <1>10, <1>11, <2>1, CloseCases

-----------------------------------------------------------------------------
(* The inductive invariant, and what every action does to it.              *)

RefundsInv == IsFiniteSet(RefundRows(ToSet(joined)))

IInv == /\ TypeInv /\ BracketInv /\ PayoutsInv
        /\ WalletInv /\ EventInv /\ FeesInv /\ PoolInv /\ RefundsInv

\* What a step that books nothing leaves as it is.
LEMMA SameMoney ==
  ASSUME UNCHANGED <<joined, money>>
  PROVE  /\ WalletInv => WalletInv'
         /\ EventInv => EventInv'
         /\ FeesInv => FeesInv'
         /\ RefundsInv => RefundsInv'
         /\ Reopened' = Reopened
BY DEF money, WalletInv, EventInv, FeesInv, RefundsInv, Reopened, PaidVia, BagToSet

\* What was paid by both doors stays so.
LEMMA ReopenedStays ==
  ASSUME DOMAIN ledger \subseteq DOMAIN ledger', Reopened PROVE Reopened'
BY DEF Reopened, PaidVia, BagToSet

\* An open tournament nobody joined, with empty books.
LEMMA InitInv == Init => IInv
<1> SUFFICES ASSUME Init PROVE IInv
  OBVIOUS
<1>1. /\ joined = <<>> /\ Len(joined) = 0 /\ ToSet(joined) = {}
      /\ DOMAIN matches = {} /\ tstatus = "REGISTRATION"
  BY DEF Init, ToSet
<1>2. DOMAIN ledger = {} /\ DOMAIN outbox = {}
  BY DEF Init, EmptyBag, SetToBag
<1>3. RefundRows(ToSet(joined)) = {}
  BY <1>1 DEF RefundRows
<1>4. IsFiniteSet({})
  BY FS_EmptySet
<1>5. ASSUME NEW w, NEW T PROVE Total(w, T, ledger) = 0
  BY <1>2, SumEmpty DEF Total
<1>6. Pool(0) = 0
  BY FeeAssumption DEF Pool
<1>7. TypeInv
  <2>1. /\ ledger \in [DOMAIN ledger -> Nat] /\ outbox \in [DOMAIN outbox -> Nat]
        /\ matches \in [DOMAIN matches -> MatchRows]
    BY <1>1, <1>2 DEF Init, EmptyBag, SetToBag
  <2>2. balance \in [Users -> Int] /\ joined \in Seq(Users)
    BY FeeAssumption DEF Init
  <2>3. QED BY <1>1, <1>2, <1>4, <2>1, <2>2 DEF TypeInv
<1>8. BracketInv
  <2>1. {m[1] : m \in DOMAIN matches} = 1..0 /\ 1..(0 - 1) = {}
    BY <1>1
  <2>2. InStep(matches, 0, tstatus)
    BY <1>1, <2>1 DEF InStep
  <2>3. QED BY <2>2 DEF BracketInv
<1>9. PayoutsInv
  BY <1>1, <1>2 DEF PayoutsInv
<1>10. WalletInv
  <2>1. ASSUME NEW u \in Users PROVE balance[u] = Funds + 0
    BY FeeAssumption DEF Init
  <2>2. QED BY <1>5, <2>1 DEF WalletInv
<1>11. EventInv
  BY <1>2, <1>5 DEF EventInv, CopiesOf
<1>12. FeesInv
  BY <1>1, <1>3, <1>5, <1>6, SumEmpty DEF FeesInv
<1>13. PoolInv
  BY <1>1, <1>5 DEF PoolInv, PaidBy
<1>14. QED BY <1>3, <1>4, <1>7, <1>8, <1>9, <1>10, <1>11, <1>12, <1>13 DEF IInv, RefundsInv

\* A registration is booked with its fee.
LEMMA JoinInv ==
  ASSUME IInv, NEW u \in Users, JoinTournament(u)
  PROVE  IInv' /\ TakesWinners
<1>1. /\ WalletInv' /\ FeesInv' /\ RefundsInv'
      /\ ledger' \in [DOMAIN ledger' -> Nat] /\ DOMAIN ledger' = DOMAIN ledger \cup {HoldRow(u)}
      /\ DOMAIN ledger' \in SUBSET LedgerRows /\ IsFiniteSet(DOMAIN ledger')
      /\ \A m : Total(One, SettledRows(m), ledger') = Total(One, SettledRows(m), ledger)
      /\ Total(Worth(Len(joined')), PaidRows, ledger')
           = Total(Worth(Len(joined)), PaidRows, ledger)
  BY JoinMoney DEF IInv, RefundsInv
<1>2. /\ tstatus = "REGISTRATION" /\ tstatus' = tstatus /\ matches' = matches /\ outbox' = outbox
  BY DEF JoinTournament
<1>3. TypeInv'
  <2>1. balance' \in [Users -> Int] /\ joined' \in Seq(Users)
    BY FeeAssumption DEF JoinTournament, IInv, TypeInv
  <2>2. QED BY <1>1, <1>2, <2>1 DEF IInv, TypeInv
<1>4. BracketInv'
  BY <1>2 DEF IInv, BracketInv
<1>5. HoldRow(u) \in Holds
  BY FeeRows DEF Holds
<1>6. PayoutsInv'
  <2>1. DOMAIN ledger \subseteq Holds
    BY <1>2 DEF IInv, PayoutsInv
  <2>2. DOMAIN ledger' \subseteq Holds
    BY <1>1, <1>5, <2>1
  <2>3. \A e \in DOMAIN ledger' : e.type # "PRIZE_PAYOUT"
    BY <2>2 DEF Holds
  <2>4. ASSUME NEW m \in DOMAIN matches, matches[m].prize, matches[m].status = "SETTLED"
        PROVE  \E e \in DOMAIN ledger' : e.via = "win_v1" /\ e.match = m
    BY <1>1, <2>4 DEF IInv, PayoutsInv, PaidVia, BagToSet
  <2>5. QED BY <1>2, <2>2, <2>3, <2>4 DEF PayoutsInv, PaidVia, BagToSet
<1>7. EventInv'
  BY <1>1, <1>2 DEF IInv, EventInv
<1>8. PoolInv'
  <2>1. Reopened => Reopened'
    BY <1>1, ReopenedStays
  <2>2. ~LateCancel
    BY <1>2 DEF LateCancel
  <2>3. PaidBy(tstatus, Len(joined)) = 0 /\ PaidBy(tstatus', Len(joined')) = 0
    BY <1>2 DEF PaidBy
  <2>4. QED BY <1>1, <2>1, <2>2, <2>3 DEF IInv, PoolInv
<1>9. QED BY <1>1, <1>2, <1>3, <1>4, <1>6, <1>7, <1>8, OpensNothing DEF IInv

\* A cancellation returns the pool once: it needs a tournament that has not
\* ended.
LEMMA CancelInv ==
  ASSUME IInv, CancelAndRefund
  PROVE  IInv' /\ TakesWinners
<1>1. /\ WalletInv' /\ FeesInv' /\ balance' \in [Users -> Int]
      /\ ledger' \in [DOMAIN ledger' -> Nat]
      /\ DOMAIN ledger' = DOMAIN ledger \cup RefundRows(ToSet(joined))
      /\ DOMAIN ledger' \in SUBSET LedgerRows /\ IsFiniteSet(DOMAIN ledger')
      /\ \A e \in DOMAIN ledger' \ DOMAIN ledger : e.type = "REFUND" /\ e.via = "refund"
      /\ \A m : Total(One, SettledRows(m), ledger') = Total(One, SettledRows(m), ledger)
      /\ Total(Worth(Len(joined)), PaidRows, ledger')
           = Total(Worth(Len(joined)), PaidRows, ledger) + Pool(Len(joined))
  BY CancelMoney DEF IInv, RefundsInv
<1>2. /\ tstatus \notin {"COMPLETED", "CANCELED"} /\ tstatus' = "CANCELED"
      /\ matches' = matches /\ outbox' = outbox /\ joined' = joined
  BY DEF CancelAndRefund
<1>3. TypeInv'
  BY <1>1, <1>2 DEF IInv, TypeInv
<1>4. BracketInv'
  <2>1. PICK last \in Nat : InStep(matches, last, tstatus)
    BY DEF IInv, BracketInv
  <2>2. InStep(matches, last, "CANCELED")
    BY <2>1 DEF InStep
  <2>3. QED BY <1>2, <2>2 DEF BracketInv
<1>5. PayoutsInv'
  <2>1. ASSUME NEW e \in DOMAIN ledger', e.type = "PRIZE_PAYOUT" PROVE e \in DOMAIN ledger
    BY <1>1, <2>1
  <2>2. ASSUME NEW m \in DOMAIN matches, matches[m].prize, matches[m].status = "SETTLED"
        PROVE  \E e \in DOMAIN ledger' : e.via = "win_v1" /\ e.match = m
    BY <1>1, <2>2 DEF IInv, PayoutsInv, PaidVia, BagToSet
  <2>3. QED BY <1>2, <2>1, <2>2 DEF IInv, PayoutsInv, PaidVia, BagToSet
<1>6. EventInv'
  BY <1>1, <1>2 DEF IInv, EventInv
<1>7. PoolInv'
  <2>1. Reopened => Reopened'
    BY <1>1, ReopenedStays
  <2>2. ~LateCancel
    BY <1>2 DEF LateCancel
  <2>3. PICK n \in Nat : n = Len(joined)
    BY DEF IInv, TypeInv
  <2>4. PaidBy(tstatus, n) = 0 /\ PaidBy(tstatus', n) = Pool(n) /\ Pool(n) \in Nat
    BY <1>2, <2>3, Shares DEF PaidBy, IInv, TypeInv
  <2>5. ~Reopened => Total(Worth(n), PaidRows, ledger') = Pool(n)
    BY <1>1, <2>2, <2>3, <2>4 DEF IInv, PoolInv
  <2>6. QED BY <1>2, <2>1, <2>3, <2>4, <2>5 DEF PoolInv
<1>8. RefundsInv'
  BY <1>2 DEF IInv, RefundsInv
<1>9. QED BY <1>1, <1>2, <1>3, <1>4, <1>5, <1>6, <1>7, <1>8, OpensNothing DEF IInv

\* The start opens the first round.
LEMMA StartInv ==
  ASSUME IInv, StartTournament
  PROVE  IInv' /\ TakesWinners
<1>1. /\ DOMAIN matches = {} /\ tstatus = "REGISTRATION" /\ tstatus' = "IN_PROGRESS"
      /\ UNCHANGED <<joined, money>>
  BY DEF StartTournament
<1>2. PICK n \in Nat : n = Len(joined) /\ n >= 2 /\ n % 2 = 0
  <2>1. PICK n \in Nat : n = Len(joined)
    BY DEF IInv, TypeInv
  <2>2. n >= 2 /\ n % 2 = 0
    BY <2>1 DEF StartTournament
  <2>3. QED BY <2>1, <2>2
<1>3. PICK pairs \in Nat \ {0} : pairs = n \div 2 /\ n = 2 * pairs
  <2>1. n \div 2 \in Nat \ {0} /\ n = 2 * (n \div 2)
    BY <1>2
  <2>2. QED BY <2>1
<1>4. PICK rows : /\ rows = matches'
                  /\ rows = [m \in RoundRows(1, pairs) |->
                               MatchOf({joined[2 * m[2] - 1], joined[2 * m[2]]}, pairs = 1)]
  BY <1>2, <1>3 DEF StartTournament, RoundRows
<1>5. /\ RoundRows(1, pairs) \in SUBSET MatchIds /\ IsFiniteSet(RoundRows(1, pairs))
      /\ \A m \in RoundRows(1, pairs) : m[2] \in 1..pairs
  BY PlacesOfRound
<1>6. ASSUME NEW m \in RoundRows(1, pairs)
      PROVE  rows[m] \in MatchRows /\ rows[m].status = "PENDING" /\ (rows[m].prize <=> pairs = 1)
  <2>1. 2 * m[2] - 1 \in 1..n /\ 2 * m[2] \in 1..n
    BY <1>3, <1>5
  <2>2. PICK a \in Users, b \in Users : a = joined[2 * m[2] - 1] /\ b = joined[2 * m[2]]
    BY <1>2, <2>1 DEF IInv, TypeInv
  <2>3. PICK alone \in BOOLEAN : alone = (pairs = 1)
    OBVIOUS
  <2>4. PICK q \in Reports : q = <<>>
    BY NoReports
  <2>5. rows[m] = [players |-> {a, b}, status |-> "PENDING", winner |-> NoUser, prize |-> alone, reports |-> q]
    BY <1>4, <2>2, <2>3, <2>4 DEF MatchOf
  <2>6. rows[m] \in MatchRows
    BY <2>5 DEF MatchRows, Reports
  <2>7. rows[m].status = "PENDING" /\ rows[m].prize = alone
    BY <2>5
  <2>8. QED BY <2>3, <2>6, <2>7
<1>7. DOMAIN rows = RoundRows(1, pairs) /\ rows \in [DOMAIN rows -> MatchRows]
  BY <1>4, <1>6
<1>8. Opens(rows, 1, pairs)
  BY <1>6, <1>7 DEF Opens
<1>9. PICK none : none = matches
  OBVIOUS
<1>10. Finished(none, 0)
  <2>1. {m[1] : m \in DOMAIN none} = 1..0
    BY <1>1, <1>9
  <2>2. QED BY <1>1, <1>9, <2>1 DEF Finished
<1>11. Create(none, rows) = rows
  <2>1. DOMAIN none = {} /\ rows = [m \in DOMAIN rows |-> rows[m]]
    BY <1>1, <1>4, <1>9
  <2>2. QED BY <2>1 DEF Create
<1>12. InStep(rows, 1, "IN_PROGRESS")
  BY <1>8, <1>10, <1>11, OpensRound
<1>13. BracketInv'
  BY <1>1, <1>4, <1>12 DEF BracketInv
<1>14. TypeInv'
  BY <1>1, <1>4, <1>5, <1>7 DEF IInv, TypeInv, money
<1>15. DOMAIN ledger \subseteq Holds /\ \A e \in DOMAIN ledger : e.type # "PRIZE_PAYOUT"
  BY <1>1 DEF IInv, PayoutsInv, Holds
<1>16. PayoutsInv'
  BY <1>1, <1>4, <1>6, <1>7, <1>15 DEF PayoutsInv, money
<1>17. PoolInv'
  <2>1. ~LateCancel /\ (Reopened' = Reopened)
    BY <1>1, SameMoney DEF LateCancel
  <2>2. PaidBy(tstatus, n) = 0 /\ PaidBy(tstatus', n) = 0
    BY <1>1 DEF PaidBy
  <2>3. QED BY <1>1, <1>2, <2>1, <2>2 DEF IInv, PoolInv, money
<1>18. TakesWinners
  BY <1>1 DEF TakesWinners
<1>19. QED BY <1>1, <1>13, <1>14, <1>16, <1>17, <1>18, SameMoney DEF IInv

\* The close of a match without the prize moves no money and completes nothing.
LEMMA UnpaidInv ==
  ASSUME IInv, NEW m \in DOMAIN matches, ~matches[m].prize, NEW s \in Terminal,
         NEW w \in Users, Close(m, s, w), UNCHANGED <<joined, money>>
  PROVE  IInv' /\ TakesWinners
<1>1. /\ BracketInv' /\ TakesWinners
      /\ matches' \in [DOMAIN matches' -> MatchRows]
      /\ DOMAIN matches' \in SUBSET MatchIds /\ IsFiniteSet(DOMAIN matches')
      /\ DOMAIN matches \subseteq DOMAIN matches'
      /\ \A k \in DOMAIN matches \ {m} : matches'[k].status = matches[k].status
      /\ \A k \in DOMAIN matches : matches'[k].prize = matches[k].prize
      /\ \A k \in DOMAIN matches' \ DOMAIN matches : matches'[k].status = "PENDING"
      /\ tstatus' = tstatus
  BY CloseIs DEF IInv
<1>2. ledger' = ledger /\ balance' = balance /\ outbox' = outbox /\ joined' = joined
  BY DEF money
<1>3. TypeInv'
  BY <1>1, <1>2 DEF IInv, TypeInv
<1>4. PayoutsInv'
  <2>1. ASSUME NEW e \in DOMAIN ledger, e.type = "PRIZE_PAYOUT"
        PROVE  /\ e.match \in DOMAIN matches' /\ matches'[e.match].prize
               /\ matches'[e.match].status \in Terminal
               /\ e.via \in {"win", "org"} => matches'[e.match].status = "RESOLVED"
    BY <1>1, <2>1 DEF IInv, PayoutsInv
  <2>2. ASSUME NEW k \in DOMAIN matches', matches'[k].prize, matches'[k].status = "SETTLED"
        PROVE  k \in DOMAIN matches /\ matches[k].prize /\ matches[k].status = "SETTLED"
    BY <1>1, <2>2
  <2>3. tstatus = "REGISTRATION" => DOMAIN ledger \subseteq Holds
    BY DEF IInv, PayoutsInv
  <2>4. \A k \in DOMAIN matches' : matches'[k].prize /\ matches'[k].status = "SETTLED" =>
          \E e \in PaidVia("win_v1") : e.match = k
    BY <2>2 DEF IInv, PayoutsInv
  <2>5. PaidVia("win_v1")' = PaidVia("win_v1")
    BY <1>2 DEF PaidVia, BagToSet
  <2>6. QED BY <1>1, <1>2, <2>1, <2>3, <2>4, <2>5 DEF PayoutsInv
<1>5. PoolInv'
  <2>1. LateCancel' = LateCancel
    BY <1>1 DEF LateCancel
  <2>2. Reopened' = Reopened
    BY SameMoney
  <2>3. QED BY <1>1, <1>2, <2>1, <2>2 DEF IInv, PoolInv
<1>6. QED BY <1>1, <1>3, <1>4, <1>5, SameMoney DEF IInv

\* The close of the match with the prize pays the pool.  It is the first payout
\* of a running tournament, unless one of the two doors was taken.
LEMMA PaidInv ==
  ASSUME IInv, NEW m \in DOMAIN matches, matches[m].prize, NEW s \in Terminal,
         NEW w \in Users, Close(m, s, w), NEW win, NEW org, PayPool(m, w, win, org),
         \/ /\ s = "RESOLVED" /\ matches[m].status # "RESOLVED"
            /\ win = "win" /\ org = "org" /\ outbox' = outbox
         \/ /\ s = "SETTLED" /\ matches[m].status = "DISPUTED"
            /\ win = "win_v1" /\ org = "org_v1" /\ outbox' = outbox (+) SetToBag({m}),
         joined' = joined
  PROVE  IInv' /\ TakesWinners
<1>1. /\ BracketInv' /\ TakesWinners
      /\ matches' \in [DOMAIN matches' -> MatchRows]
      /\ DOMAIN matches' \in SUBSET MatchIds /\ IsFiniteSet(DOMAIN matches')
      /\ DOMAIN matches \subseteq DOMAIN matches'
      /\ tstatus # "REGISTRATION" /\ tstatus' \in {tstatus, "COMPLETED"}
      /\ matches'[m].status = s
      /\ \A k \in DOMAIN matches \ {m} : matches'[k].status = matches[k].status
      /\ \A k \in DOMAIN matches : matches'[k].prize = matches[k].prize
      /\ \A k \in DOMAIN matches' \ DOMAIN matches : matches'[k].status = "PENDING"
      /\ tstatus = "IN_PROGRESS" => tstatus' = "COMPLETED"
      /\ tstatus = "COMPLETED" => matches[m].status \in Terminal
      /\ tstatus # "IN_PROGRESS" => tstatus' = tstatus
  BY CloseIs DEF IInv
<1>2. PICK n \in Nat : n = Len(joined)
  BY Participants DEF IInv
<1>3. /\ WalletInv' /\ FeesInv' /\ balance' \in [Users -> Int]
      /\ ledger' \in [DOMAIN ledger' -> Nat] /\ DOMAIN ledger \subseteq DOMAIN ledger'
      /\ DOMAIN ledger' \in SUBSET LedgerRows /\ IsFiniteSet(DOMAIN ledger')
      /\ \A e \in DOMAIN ledger' \ DOMAIN ledger : e.match = m /\ e.via \in {win, org}
      /\ \E e \in DOMAIN ledger' : e.via = win /\ e.match = m
      /\ \A k : Total(One, SettledRows(k), ledger')
                  = Total(One, SettledRows(k), ledger) + IF win = "win_v1" /\ k = m THEN 1 ELSE 0
      /\ Total(Worth(n), PaidRows, ledger')
           = Total(Worth(n), PaidRows, ledger) + (Prize(n) + Cut(n))
  <2>1. <<win, org>> \in {<<"win", "org">>, <<"win_v1", "org_v1">>}
    OBVIOUS
  <2>2. QED BY <1>2, <2>1, PayMoney DEF IInv
<1>4. PICK copies : copies = IF win = "win_v1" THEN 1 ELSE 0
  OBVIOUS
<1>5. /\ outbox' \in [DOMAIN outbox' -> Nat] /\ DOMAIN outbox' \subseteq DOMAIN outbox \cup {m}
      /\ \A k \in MatchIds : CopiesOf(k, outbox') = CopiesOf(k, outbox) + IF win = "win_v1" /\ k = m THEN 1 ELSE 0
  <2>1. outbox \in [DOMAIN outbox -> Nat]
    BY DEF IInv, TypeInv
  <2>2. CASE outbox' = outbox /\ win = "win"
    <3>1. \A k \in MatchIds : CopiesOf(k, outbox) \in Nat
      BY <2>1 DEF CopiesOf
    <3>2. QED BY <2>1, <2>2, <3>1
  <2>3. CASE outbox' = outbox (+) SetToBag({m}) /\ win = "win_v1"
    <3>1. /\ DOMAIN outbox' = DOMAIN outbox \cup {m}
          /\ outbox' = [k \in DOMAIN outbox' |-> outbox'[k]]
          /\ \A k \in DOMAIN outbox' :
               outbox'[k] = (IF k \in DOMAIN outbox THEN outbox[k] ELSE 0) + (IF k = m THEN 1 ELSE 0)
      BY <2>3 DEF (+), SetToBag
    <3>2. ASSUME NEW k \in MatchIds
          PROVE  CopiesOf(k, outbox') = CopiesOf(k, outbox) + IF k = m THEN 1 ELSE 0
      <4>1. CASE k \in DOMAIN outbox'
        BY <3>1, <4>1 DEF CopiesOf
      <4>2. CASE k \notin DOMAIN outbox'
        <5>1. k \notin DOMAIN outbox /\ k # m
          BY <3>1, <4>2
        <5>2. CopiesOf(k, outbox') = 0 /\ CopiesOf(k, outbox) = 0
          BY <4>2, <5>1 DEF CopiesOf
        <5>3. QED BY <5>1, <5>2
      <4>3. QED BY <4>1, <4>2
    <3>3. \A k \in DOMAIN outbox' : outbox'[k] \in Nat
      BY <2>1, <3>1
    <3>4. QED BY <2>3, <3>1, <3>2, <3>3
  <2>4. QED BY <2>2, <2>3
<1>6. TypeInv'
  <2>1. DOMAIN outbox' \subseteq DOMAIN matches'
    BY <1>1, <1>5 DEF IInv, TypeInv
  <2>2. tstatus' \in {"REGISTRATION", "IN_PROGRESS", "COMPLETED", "CANCELED"} /\ joined' \in Seq(Users)
    BY <1>1 DEF IInv, TypeInv
  <2>3. QED BY <1>1, <1>3, <1>5, <2>1, <2>2 DEF TypeInv
<1>7. PayoutsInv'
  <2>1. ASSUME NEW e \in DOMAIN ledger', e.type = "PRIZE_PAYOUT"
        PROVE  /\ e.match \in DOMAIN matches' /\ matches'[e.match].prize
               /\ matches'[e.match].status \in Terminal
               /\ e.via \in {"win", "org"} => matches'[e.match].status = "RESOLVED"
    <3>1. CASE e \in DOMAIN ledger
      <4>1. /\ e.match \in DOMAIN matches /\ matches[e.match].prize
            /\ matches[e.match].status \in Terminal
            /\ e.via \in {"win", "org"} => matches[e.match].status = "RESOLVED"
        BY <2>1, <3>1 DEF IInv, PayoutsInv
      <4>2. CASE e.match = m
        <5>1. s = "RESOLVED"
          BY <4>1, <4>2 DEF Terminal
        <5>2. QED BY <1>1, <4>1, <4>2, <5>1
      <4>3. CASE e.match # m
        BY <1>1, <4>1, <4>3
      <4>4. QED BY <4>2, <4>3
    <3>2. CASE e \notin DOMAIN ledger
      <4>1. e.match = m /\ e.via \in {win, org}
        BY <1>3, <3>2
      <4>2. QED BY <1>1, <4>1
    <3>3. QED BY <3>1, <3>2
  <2>2. ASSUME NEW k \in DOMAIN matches', matches'[k].prize, matches'[k].status = "SETTLED"
        PROVE  \E e \in DOMAIN ledger' : e.via = "win_v1" /\ e.match = k
    <3>1. CASE k = m
      BY <1>1, <1>3, <2>2, <3>1
    <3>2. CASE k # m
      <4>1. k \in DOMAIN matches /\ matches[k].prize /\ matches[k].status = "SETTLED"
        BY <1>1, <2>2, <3>2
      <4>2. \E e \in DOMAIN ledger : e.via = "win_v1" /\ e.match = k
        BY <4>1 DEF IInv, PayoutsInv, PaidVia, BagToSet
      <4>3. QED BY <1>3, <4>2
    <3>3. QED BY <3>1, <3>2
  <2>3. tstatus' # "REGISTRATION"
    BY <1>1
  <2>4. QED BY <2>1, <2>2, <2>3 DEF PayoutsInv, PaidVia, BagToSet
<1>8. EventInv'
  BY <1>3, <1>5 DEF IInv, EventInv
<1>9. PoolInv'
  <2>1. CASE tstatus = "IN_PROGRESS"
    <3>1. tstatus' = "COMPLETED" /\ ~LateCancel
      BY <1>1, <2>1 DEF LateCancel
    <3>2. Reopened => Reopened'
      BY <1>3, ReopenedStays
    <3>3. PaidBy(tstatus, n) = 0 /\ PaidBy(tstatus', n) = Prize(n) + Cut(n)
      BY <2>1, <3>1 DEF PaidBy
    <3>4. ~Reopened => Total(Worth(n), PaidRows, ledger) = 0
      BY <1>2, <3>1, <3>3 DEF IInv, PoolInv
    <3>5. Prize(n) \in Nat /\ Cut(n) \in Nat
      BY Shares
    <3>6. ~Reopened => Total(Worth(n), PaidRows, ledger') = Prize(n) + Cut(n)
      BY <1>3, <3>4, <3>5
    <3>7. QED BY <1>2, <3>2, <3>3, <3>6 DEF PoolInv
  <2>2. CASE tstatus = "COMPLETED"
    <3>1. matches[m].status = "SETTLED" /\ win = "win"
      BY <1>1, <2>2 DEF Terminal
    <3>2. PICK f \in DOMAIN ledger : f.via = "win_v1" /\ f.match = m
      BY <3>1 DEF IInv, PayoutsInv, PaidVia, BagToSet
    <3>3. PICK e \in DOMAIN ledger' : e.via = "win" /\ e.match = m
      BY <1>3, <3>1
    <3>4. Reopened'
      BY <1>3, <3>2, <3>3 DEF Reopened, PaidVia, BagToSet
    <3>5. QED BY <3>4 DEF PoolInv
  <2>3. CASE tstatus = "CANCELED"
    <3>1. LateCancel'
      BY <1>1, <2>3 DEF LateCancel
    <3>2. QED BY <3>1 DEF PoolInv
  <2>4. QED BY <1>1, <2>1, <2>2, <2>3 DEF IInv, TypeInv
<1>10. RefundsInv'
  BY DEF IInv, RefundsInv
<1>11. QED BY <1>1, <1>3, <1>6, <1>7, <1>8, <1>9, <1>10 DEF IInv

\* A report that does not close its match moves no money and leaves the round
\* as open as it was.
LEMMA OpenInv ==
  ASSUME IInv, NEW m \in DOMAIN matches, matches[m].status = "PENDING",
         NEW fields, Differs(matches, matches', m, fields),
         matches'[m].status \in {"PENDING", "DISPUTED"},
         UNCHANGED <<tstatus, joined, money>>
  PROVE  IInv' /\ TakesWinners
<1>1. /\ DOMAIN matches' = DOMAIN matches /\ matches' \in [DOMAIN matches' -> MatchRows]
      /\ \A k \in DOMAIN matches \ {m} : matches'[k] = matches[k]
      /\ \A k \in DOMAIN matches : matches'[k].prize = matches[k].prize
  BY DEF Differs
<1>2. ledger' = ledger /\ balance' = balance /\ outbox' = outbox /\ joined' = joined
  BY DEF money
<1>3. \A k \in DOMAIN matches : matches'[k].status \in Terminal <=> matches[k].status \in Terminal
  BY <1>1 DEF Terminal
<1>4. PICK ms : ms = matches'
  OBVIOUS
<1>5. ASSUME NEW r PROVE RoundOf(ms, r) = RoundOf(matches, r) /\ (RoundDone(ms, r) <=> RoundDone(matches, r))
  <2>1. RoundOf(ms, r) = RoundOf(matches, r)
    BY <1>1, <1>4 DEF RoundOf
  <2>2. \A k \in RoundOf(matches, r) : k \in DOMAIN matches
    BY DEF RoundOf
  <2>3. QED BY <1>3, <1>4, <2>1, <2>2 DEF RoundDone
<1>6. BracketInv'
  <2>1. PICK last \in Nat : InStep(matches, last, tstatus)
    BY DEF IInv, BracketInv
  <2>2. PICK t : t = tstatus
    OBVIOUS
  <2>3. InStep(ms, last, t)
    BY <1>1, <1>4, <1>5, <2>1, <2>2 DEF InStep
  <2>4. tstatus' = t
    BY <2>2
  <2>5. QED BY <1>4, <2>3, <2>4 DEF BracketInv
<1>7. TypeInv'
  BY <1>1, <1>2 DEF IInv, TypeInv
<1>8. PayoutsInv'
  <2>1. ASSUME NEW e \in DOMAIN ledger, e.type = "PRIZE_PAYOUT"
        PROVE  /\ e.match \in DOMAIN matches' /\ matches'[e.match].prize
               /\ matches'[e.match].status \in Terminal
               /\ e.via \in {"win", "org"} => matches'[e.match].status = "RESOLVED"
    <3>1. /\ e.match \in DOMAIN matches /\ matches[e.match].prize
          /\ matches[e.match].status \in Terminal
          /\ e.via \in {"win", "org"} => matches[e.match].status = "RESOLVED"
      BY <2>1 DEF IInv, PayoutsInv
    <3>2. e.match # m
      BY <3>1 DEF Terminal
    <3>3. QED BY <1>1, <3>1, <3>2
  <2>2. \A k \in DOMAIN matches' : matches'[k].prize /\ matches'[k].status = "SETTLED" =>
          \E e \in PaidVia("win_v1") : e.match = k
    BY <1>1 DEF IInv, PayoutsInv
  <2>3. PaidVia("win_v1")' = PaidVia("win_v1")
    BY <1>2 DEF PaidVia, BagToSet
  <2>4. tstatus = "REGISTRATION" => DOMAIN ledger \subseteq Holds
    BY DEF IInv, PayoutsInv
  <2>5. QED BY <1>2, <2>1, <2>2, <2>3, <2>4 DEF PayoutsInv
<1>9. PoolInv'
  <2>1. LateCancel' = LateCancel
    BY <1>1 DEF LateCancel
  <2>2. Reopened' = Reopened
    BY SameMoney
  <2>3. QED BY <1>2, <2>1, <2>2 DEF IInv, PoolInv
<1>10. QED BY <1>1, <1>6, <1>7, <1>8, <1>9, SameMoney, OpensNothing DEF IInv

\* A report more makes reports.
LEMMA ReportsType ==
  ASSUME NEW q \in Reports, NEW u \in Users, NEW v \in Users
  PROVE  Create(q, [x \in {u} |-> v]) \in Reports
<1>1. PICK U \in SUBSET Users : q \in [U -> Users]
  BY DEF Reports
<1>2. Create(q, [x \in {u} |-> v]) \in [U \cup {u} -> Users]
  BY <1>1 DEF Create
<1>3. U \cup {u} \in SUBSET Users
  OBVIOUS
<1>4. QED BY <1>2, <1>3 DEF Reports

\* A report: the first is kept, two that agree close the match, two that do not
\* dispute it.
LEMMA ReportInv ==
  ASSUME IInv, NEW m \in DOMAIN matches, NEW u \in Users, NEW w \in Users, ReportResult(m, u, w)
  PROVE  IInv' /\ TakesWinners
<1>1. matches \in [DOMAIN matches -> MatchRows] /\ matches[m] \in MatchRows
  BY DEF IInv, TypeInv
<1>2. PICK reports \in Reports : reports = Create(matches[m].reports, [x \in {u} |-> w])
  <2>1. matches[m].reports \in Reports
    BY <1>1 DEF MatchRows, Reports
  <2>2. QED BY <2>1, ReportsType
<1>3. /\ matches[m].status = "PENDING" /\ joined' = joined
      /\ \/ matches' = [matches EXCEPT ![m].reports = reports] /\ UNCHANGED <<tstatus, money>>
         \/ Close(m, "RESOLVED", w) /\ ProcessPayout(m, w)
         \/ /\ matches' = [matches EXCEPT ![m].status = "DISPUTED", ![m].reports = <<>>]
            /\ UNCHANGED <<tstatus, money>>
  BY <1>2 DEF ReportResult
<1>4. CASE matches' = [matches EXCEPT ![m].reports = reports] /\ UNCHANGED <<tstatus, money>>
  <2>1. Differs(matches, matches', m, {})
    BY <1>1, <1>4 DEF Differs, MatchRows, Reports
  <2>2. matches'[m].status = "PENDING"
    BY <1>3, <2>1 DEF Differs
  <2>3. QED BY <1>3, <1>4, <2>1, <2>2, OpenInv
<1>5. CASE Close(m, "RESOLVED", w) /\ ProcessPayout(m, w)
  <2>1. CASE matches[m].prize
    <3>1. PayPool(m, w, "win", "org") /\ outbox' = outbox
      BY <1>5, <2>1 DEF ProcessPayout
    <3>2. QED BY <1>3, <1>5, <2>1, <3>1, PaidInv DEF Terminal
  <2>2. CASE ~matches[m].prize
    <3>1. UNCHANGED money
      BY <1>5, <2>2 DEF ProcessPayout, money
    <3>2. QED BY <1>3, <1>5, <2>2, <3>1, UnpaidInv DEF Terminal
  <2>3. QED BY <2>1, <2>2
<1>6. CASE /\ matches' = [matches EXCEPT ![m].status = "DISPUTED", ![m].reports = <<>>]
           /\ UNCHANGED <<tstatus, money>>
  <2>1. PICK a : a = [matches EXCEPT ![m].status = "DISPUTED"]
    OBVIOUS
  <2>2. PICK q \in Reports : q = <<>>
    BY NoReports
  <2>3. matches' = [a EXCEPT ![m].reports = q]
    BY <1>6, <2>1, <2>2
  <2>4. Differs(matches, a, m, {"status"}) /\ a[m].status = "DISPUTED" /\ a \in [DOMAIN matches -> MatchRows]
    BY <1>1, <2>1 DEF Differs, MatchRows
  <2>5. Differs(a, matches', m, {}) /\ matches'[m].status = "DISPUTED"
    BY <2>3, <2>4 DEF Differs, MatchRows, Reports
  <2>6. Differs(matches, matches', m, {"status"})
    BY <2>4, <2>5 DEF Differs
  <2>7. QED BY <1>3, <1>6, <2>5, <2>6, OpenInv
<1>7. QED BY <1>3, <1>4, <1>5, <1>6

\* The administrator's verdict, by the legacy route.
LEMMA ResolveInv ==
  ASSUME IInv, NEW m \in DOMAIN matches, NEW w \in Users, ResolveDispute(m, w)
  PROVE  IInv' /\ TakesWinners
<1>1. /\ matches[m].status # "RESOLVED" /\ Close(m, "RESOLVED", w) /\ ProcessPayout(m, w)
      /\ joined' = joined
  BY DEF ResolveDispute
<1>2. CASE matches[m].prize
  <2>1. PayPool(m, w, "win", "org") /\ outbox' = outbox
    BY <1>1, <1>2 DEF ProcessPayout
  <2>2. QED BY <1>1, <1>2, <2>1, PaidInv DEF Terminal
<1>3. CASE ~matches[m].prize
  <2>1. UNCHANGED money
    BY <1>1, <1>3 DEF ProcessPayout, money
  <2>2. QED BY <1>1, <1>3, <2>1, UnpaidInv DEF Terminal
<1>4. QED BY <1>2, <1>3

\* The settlement of v1.
LEMMA SettleInv ==
  ASSUME IInv, NEW m \in DOMAIN matches, NEW w \in Users, SettleDisputedMatch(m, w)
  PROVE  IInv' /\ TakesWinners
<1>1. matches[m].status = "DISPUTED" /\ Close(m, "SETTLED", w) /\ joined' = joined
  BY DEF SettleDisputedMatch
<1>2. CASE matches[m].prize
  <2>1. PayPool(m, w, "win_v1", "org_v1") /\ outbox' = outbox (+) SetToBag({m})
    BY <1>2 DEF SettleDisputedMatch
  <2>2. QED BY <1>1, <1>2, <2>1, PaidInv DEF Terminal
<1>3. CASE ~matches[m].prize
  <2>1. UNCHANGED money
    BY <1>3 DEF SettleDisputedMatch
  <2>2. QED BY <1>1, <1>3, <2>1, UnpaidInv DEF Terminal
<1>4. QED BY <1>2, <1>3

\* What changes none of the rows keeps the invariant: the end of registration,
\* and no step at all.
LEMMA SameRowsInv ==
  ASSUME IInv, UNCHANGED <<tstatus, joined, matches, money>>
  PROVE  IInv' /\ TakesWinners
<1>1. /\ tstatus' = tstatus /\ joined' = joined /\ matches' = matches
      /\ balance' = balance /\ ledger' = ledger /\ outbox' = outbox
  BY DEF money
<1>2. TypeInv' /\ BracketInv'
  BY <1>1 DEF IInv, TypeInv, BracketInv
<1>3. PayoutsInv'
  BY <1>1 DEF IInv, PayoutsInv, PaidVia, BagToSet
<1>4. PoolInv'
  <2>1. LateCancel' = LateCancel /\ Reopened' = Reopened
    BY <1>1, SameMoney DEF LateCancel
  <2>2. QED BY <1>1, <2>1 DEF IInv, PoolInv
<1>5. QED BY <1>1, <1>2, <1>3, <1>4, SameMoney, OpensNothing DEF IInv

\* Every step keeps the invariant and takes every winner along.
LEMMA StepInv ==
  IInv /\ [Next]_vars => IInv' /\ TakesWinners
<1> SUFFICES ASSUME IInv, [Next]_vars PROVE IInv' /\ TakesWinners
  OBVIOUS
<1>1. CASE RegistrationEnds
  BY <1>1, SameRowsInv DEF RegistrationEnds
<1>2. CASE StartTournament
  BY <1>2, StartInv
<1>3. CASE CancelAndRefund
  BY <1>3, CancelInv
<1>4. ASSUME NEW u \in Users, JoinTournament(u) PROVE IInv' /\ TakesWinners
  BY <1>4, JoinInv
<1>5. ASSUME NEW m \in DOMAIN matches, NEW u \in Users, NEW w \in Users, ReportResult(m, u, w)
      PROVE  IInv' /\ TakesWinners
  BY <1>5, ReportInv
<1>6. ASSUME NEW m \in DOMAIN matches, NEW w \in Users, ResolveDispute(m, w)
      PROVE  IInv' /\ TakesWinners
  BY <1>6, ResolveInv
<1>7. ASSUME NEW m \in DOMAIN matches, NEW w \in Users, SettleDisputedMatch(m, w)
      PROVE  IInv' /\ TakesWinners
  BY <1>7, SettleInv
<1>8. CASE UNCHANGED vars
  BY <1>8, SameRowsInv DEF vars, money
<1>9. QED BY <1>1, <1>2, <1>3, <1>4, <1>5, <1>6, <1>7, <1>8 DEF Next

\* The invariant holds in every state the handlers can reach, for any set of
\* users, any number of players and any entry fee.
THEOREM InvHolds == Spec => []IInv
<1>1. QED BY InitInv, StepInv, PTL DEF Spec

\* Money, rows and events are written together: every wallet balance is the funds
\* and the Transaction rows of its user, and a FUNDS_SETTLED event is there for each
\* v1 settlement that paid the pool, whichever handlers ran in whatever order.
THEOREM BooksStayComplete == Spec => []BooksAreComplete
<1>1. IInv => BooksAreComplete
  BY SumsAre DEF IInv, BooksAreComplete
<1>2. QED BY <1>1, InvHolds, PTL

\* As long as no administrator opens a paid match again and nobody cancels a running
\* bracket, the pool is paid out at most once, and never more than was held, however
\* large it is: the shares that the integer divisions make do not exceed it.
THEOREM PoolStaysConserved == Spec => []PoolConserved
<1>1. ASSUME IInv PROVE PoolConserved
  <2>1. PICK n \in Nat : n = Len(joined)
    BY <1>1 DEF IInv, TypeInv
  <2>2. WinnerPayout = Prize(n) /\ OrganizerCut = Cut(n)
    BY <2>1 DEF WinnerPayout, OrganizerCut, PlatformTotalFee, TotalPool, Prize, Cut, FeeOf, Pool
  <2>3. /\ Held = Total(Worth(n), Holds, ledger) /\ PaidOut = Total(Worth(n), PaidRows, ledger)
    BY <1>1, <2>1, SumsAre DEF IInv
  <2>4. Held = Pool(n)
    BY <1>1, <2>1, <2>3 DEF IInv, FeesInv
  <2>5. Pool(n) \in Nat /\ Prize(n) \in Nat /\ Cut(n) \in Nat /\ Prize(n) + Cut(n) <= Pool(n)
    BY Shares
  <2>6. ASSUME ~Reopened, ~LateCancel PROVE PaidOut = PaidBy(tstatus, n)
    BY <1>1, <2>1, <2>3, <2>6 DEF IInv, PoolInv
  <2>7. PaidBy(tstatus, n) <= Pool(n)
    BY <2>5 DEF PaidBy
  <2>8. PaidBy(tstatus, n) = CASE tstatus = "COMPLETED" -> WinnerPayout + OrganizerCut
                               [] tstatus = "CANCELED" -> Held
                               [] OTHER -> 0
    BY <2>2, <2>4 DEF PaidBy
  <2>9. QED BY <2>4, <2>6, <2>7, <2>8 DEF PoolConserved
<1>2. QED BY <1>1, InvHolds, PTL

\* The bracket is in step with the tournament for any number of players: every round
\* but the last is closed, the prize is exactly on a match alone in its round, and
\* the tournament is completed by the close of a round of a single match.
THEOREM BracketStaysInStep == Spec => []BracketInStep
<1>1. ASSUME IInv PROVE BracketInStep
  <2>1. PICK last \in Nat : InStep(matches, last, tstatus)
    BY <1>1 DEF IInv, BracketInv
  <2>2. SUFFICES ASSUME DOMAIN matches # {}
        PROVE  LET l == Max({m[1] : m \in DOMAIN matches})
               IN  /\ \A r \in 1..(l - 1) : RoundDone(matches, r)
                   /\ \A m \in DOMAIN matches :
                        matches[m].prize <=> RoundOf(matches, m[1]) = {m}
                   /\ tstatus = "IN_PROGRESS" => ~RoundDone(matches, l)
                   /\ tstatus = "COMPLETED" =>
                        RoundDone(matches, l) /\ Cardinality(RoundOf(matches, l)) = 1
    BY DEF BracketInStep
  <2>3. {m[1] : m \in DOMAIN matches} = 1..last /\ last # 0
    <3>1. {m[1] : m \in DOMAIN matches} = 1..last
      BY <2>1 DEF InStep
    <3>2. {m[1] : m \in DOMAIN matches} # {}
      BY <2>2
    <3>3. QED BY <3>1, <3>2
  <2>4. Max({m[1] : m \in DOMAIN matches}) = last
    <3>1. last \in 1..last /\ \A y \in 1..last : last >= y
      BY <2>3
    <3>2. \A x \in 1..last : (\A y \in 1..last : x >= y) => x = last
      BY <3>1
    <3>3. Max(1..last) = last
      BY <3>1, <3>2 DEF Max
    <3>4. QED BY <2>3, <3>3
  <2>5. tstatus = "COMPLETED" => RoundDone(matches, last) /\ Cardinality(RoundOf(matches, last)) = 1
    <3>1. tstatus = "COMPLETED" => RoundDone(matches, last) /\ \E m : RoundOf(matches, last) = {m}
      BY <2>1 DEF InStep
    <3>2. QED BY <3>1, FS_Singleton
  <2>6. QED BY <2>1, <2>4, <2>5 DEF InStep
<1>2. QED BY <1>1, InvHolds, PTL

\* A step that opens a round makes half as many matches as were closed, and its
\* players are the winners of the closed round, whatever order the database
\* returned them in.
THEOREM EveryWinnerAdvances == Spec => AdvanceTakesEveryWinner
<1>1. IInv /\ [Next]_vars => TakesWinners
  BY StepInv
<1>2. QED BY <1>1, InvHolds, PTL DEF Spec, AdvanceTakesEveryWinner, TakesWinners
=============================================================================
