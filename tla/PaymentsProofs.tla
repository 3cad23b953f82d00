--------------------------- MODULE PaymentsProofs ---------------------------
(***************************************************************************)
(* The five parts of the payment platform, each with an inductive          *)
(* invariant, for every set of requests, keys, amounts and disputes; the   *)
(* theorems are at the end.                                                *)
(***************************************************************************)
EXTENDS Payments, SumTheorems

-----------------------------------------------------------------------------
(* Disputes.                                                               *)

\* An administrator's call is about a dispute there is, and a dispute has its
\* hold exactly if there is one.
DisputeInv ==
  /\ X!DisputeIsBooked
  /\ \A a \in Admins : disputeAdmin[a] # NoJob => status[disputeAdmin[a].id] # "NONE"
  /\ \A d \in Disputes :
       /\ "hold" \in booked[d] <=> status[d] # "NONE"
       /\ d \in late => status[d] # "NONE"

\* What the rows of each dispute have taken from or given to the wallet.
Moved == [d \in Disputes |->
  X!Effect(booked[d], DisputeAmount[d])
    - (IF "hold" \in booked[d] THEN DisputeAmount[d] ELSE 0)]

\* The instance's library operators are those of the library.
LEMMA DisputeLibrary ==
  /\ \A S : X!IsFiniteSet(S) <=> IsFiniteSet(S)
  /\ \A f : X!SumFunction(f) = SumFunction(f)
<1>1. \A S : X!IsFiniteSet(S) <=> IsFiniteSet(S)
  BY DEF IsFiniteSet, X!IsFiniteSet
<1>2. ASSUME NEW f PROVE X!SumFunction(f) = SumFunction(f)
  BY DEF SumFunction, X!SumFunction, SumFunctionOnSet, X!SumFunctionOnSet,
         FoldFunctionOnSet, X!FoldFunctionOnSet, MapThenFoldSet, X!MapThenFoldSet
<1>3. QED BY <1>1, <1>2

\* The assumptions, with the library's operators.
LEMMA DisputeAssumed ==
  /\ IsFiniteSet(Disputes)
  /\ \A d \in Disputes : DisputeAmount[d] \in Nat \ {0}
  /\ DisputeFunds \in Nat
BY DisputeLibrary, DisputeAssumption DEF X!AmountAssumption

\* Every dispute has moved an integer.
LEMMA MovedIsInt ==
  ASSUME booked \in [Disputes -> SUBSET X!Rows]
  PROVE  \A d \in Disputes : Moved[d] \in Int
<1>1. \A d \in Disputes : DisputeAmount[d] \in Nat
  BY DisputeAssumption DEF X!AmountAssumption
<1>2. QED BY <1>1 DEF Moved, X!Effect

\* BalanceExplained in the words of Moved.
LEMMA DisputeInvMeans ==
  X!BalanceExplained <=> disputeBalance = DisputeFunds + SumFunctionOnSet(Moved, Disputes)
<1>1. DOMAIN Moved = Disputes
  BY DEF Moved
<1>2. SumFunction(Moved) = SumFunctionOnSet(Moved, Disputes)
  BY <1>1, SumWhole
<1>3. X!BalanceExplained <=> disputeBalance = DisputeFunds + SumFunction(Moved)
  BY DisputeLibrary DEF X!BalanceExplained, Moved
<1>4. QED BY <1>2, <1>3

\* No dispute is open at first.
LEMMA DisputeInvInit == X!Init => DisputeInv
<1> SUFFICES ASSUME X!Init PROVE DisputeInv
  OBVIOUS
<1> USE DEF X!Init
<1>1. X!TypeOK
  BY DisputeAssumption DEF X!TypeOK, X!AmountAssumption, X!Open, X!Verdicts, X!Rows
<1>2. X!BookedAsStatusSays
  BY DEF X!BookedAsStatusSays, X!Open
<1>3. X!BalanceExplained
  <2>1. \A d \in Disputes : Moved[d] = 0
    BY DisputeAssumption DEF Moved, X!Effect, X!AmountAssumption
  <2>2. SumFunctionOnSet(Moved, Disputes) = 0
    BY <2>1, DisputeAssumed, SumZero
  <2>3. QED BY <2>2, DisputeAssumed, DisputeInvMeans
<1>4. QED BY <1>1, <1>2, <1>3 DEF DisputeInv, X!DisputeIsBooked

\* A step that leaves statuses, rows and wallet alone keeps what they say of
\* each other.
LEMMA Unmoved ==
  ASSUME DisputeInv, UNCHANGED <<status, booked, disputeBalance, late>>
  PROVE  X!BookedAsStatusSays' /\ X!BalanceExplained'
<1>1. X!BookedAsStatusSays'
  BY DEF DisputeInv, X!DisputeIsBooked, X!BookedAsStatusSays
<1>2. X!BalanceExplained'
  BY DEF DisputeInv, X!DisputeIsBooked, X!BalanceExplained
<1>3. QED BY <1>1, <1>2

\* Rows added to one dispute and their sum added to the wallet: webhook and
\* administrator book both in one transaction.
LEMMA MovedBy ==
  ASSUME DisputeInv, NEW d \in Disputes, NEW rows \in SUBSET X!Rows, NEW delta \in Int,
         booked' = [booked EXCEPT ![d] = @ \cup rows],
         Moved'[d] = Moved[d] + delta,
         disputeBalance' = disputeBalance + delta
  PROVE  X!BalanceExplained'
<1>1. booked \in [Disputes -> SUBSET X!Rows] /\ booked' \in [Disputes -> SUBSET X!Rows]
  BY DEF DisputeInv, X!DisputeIsBooked, X!TypeOK
<1>2. \A x \in Disputes : Moved[x] \in Int /\ Moved'[x] \in Int
  <2>1. \A x \in Disputes : Moved[x] \in Int
    BY <1>1, MovedIsInt
  <2>2. \A x \in Disputes : Moved'[x] \in Int
    BY <1>1, DisputeAssumed DEF Moved, X!Effect
  <2>3. QED BY <2>1, <2>2
<1>3. \A x \in Disputes \ {d} : Moved[x] = Moved'[x]
  BY <1>1 DEF Moved
<1> DEFINE before == Moved
           after == Moved'
<1> HIDE DEF before, after
<1>4. SumFunctionOnSet(after, Disputes)
        = SumFunctionOnSet(before, Disputes) - before[d] + after[d]
  BY <1>2, <1>3, DisputeAssumed, SumChanged DEF before, after
<1>5. disputeBalance = DisputeFunds + SumFunctionOnSet(before, Disputes)
  BY DisputeInvMeans DEF DisputeInv, X!DisputeIsBooked, before
<1>6. SumFunctionOnSet(before, Disputes) \in Int
  BY <1>2, DisputeAssumed, SumType DEF before
<1>7. before[d] \in Int /\ after[d] = before[d] + delta
  BY <1>2 DEF before, after
<1>8. disputeBalance' = DisputeFunds + SumFunctionOnSet(after, Disputes)
  BY <1>4, <1>5, <1>6, <1>7, DisputeAssumed
<1>9. X!BalanceExplained' <=> disputeBalance' = DisputeFunds + SumFunctionOnSet(Moved', Disputes)
  <2>1. DOMAIN Moved' = Disputes
    BY DEF Moved
  <2>2. SumFunction(Moved') = SumFunctionOnSet(Moved', Disputes)
    BY <2>1, SumWhole
  <2>3. X!BalanceExplained' <=> disputeBalance' = DisputeFunds + SumFunction(Moved')
    BY DisputeLibrary DEF X!BalanceExplained, Moved
  <2>4. QED BY <2>2, <2>3
<1>10. QED
  BY <1>8, <1>9 DEF after

\* A change of dispute d leaves as current only calls that read another one and
\* decide nothing.
LEMMA Outdated ==
  ASSUME DisputeInv, NEW d \in Disputes
  PROVE  /\ X!Outdate(d) \in [Admins -> X!Calls \cup {NoJob}]
         /\ \A a \in Admins :
              LET now == X!Outdate(d)[a]
              IN  now # NoJob =>
                    /\ disputeAdmin[a] # NoJob
                    /\ now.id = disputeAdmin[a].id
                    /\ ~now.stale => /\ now = disputeAdmin[a]
                                     /\ disputeAdmin[a].id # d
                                     /\ disputeAdmin[a].verdict = NoJob
<1>1. ASSUME NEW a \in Admins
      PROVE  LET now == X!Outdate(d)[a]
             IN  /\ now \in X!Calls \cup {NoJob}
                 /\ now # NoJob =>
                    /\ disputeAdmin[a] # NoJob
                    /\ now.id = disputeAdmin[a].id
                    /\ ~now.stale => /\ now = disputeAdmin[a]
                                     /\ disputeAdmin[a].id # d
                                     /\ disputeAdmin[a].verdict = NoJob
  <2>1. CASE disputeAdmin[a] = NoJob
    BY <2>1 DEF X!Outdate
  <2>2. CASE disputeAdmin[a] # NoJob
    <3>1. disputeAdmin[a] \in X!Calls
      BY <2>2 DEF DisputeInv, X!DisputeIsBooked, X!TypeOK
    <3>2. X!Outdate(d)[a] =
            IF disputeAdmin[a].id = d \/ disputeAdmin[a].verdict # NoJob
            THEN [disputeAdmin[a] EXCEPT !.stale = TRUE] ELSE disputeAdmin[a]
      BY <2>2 DEF X!Outdate
    <3>3. QED BY <2>2, <3>1, <3>2 DEF X!Calls
  <2>3. QED BY <2>1, <2>2
<1>2. QED BY <1>1 DEF X!Outdate

\* Every step of the webhook's handlers and of the administrators.
LEMMA DisputeInvNext == DisputeInv /\ [X!Next]_dispute => DisputeInv'
<1> SUFFICES ASSUME DisputeInv, [X!Next]_dispute PROVE DisputeInv'
  OBVIOUS
<1> USE DEF dispute
<1>1. CASE UNCHANGED dispute
  <2>1. X!TypeOK' = X!TypeOK /\ X!BookedAsStatusSays' = X!BookedAsStatusSays
    BY <1>1 DEF X!TypeOK, X!BookedAsStatusSays
  <2>2. X!BalanceExplained' = X!BalanceExplained
    BY <1>1 DEF X!BalanceExplained
  <2>3. QED BY <1>1, <2>1, <2>2 DEF DisputeInv, X!DisputeIsBooked
<1>2. ASSUME NEW h \in Requests, NEW d \in Disputes, X!Receive(h, d) PROVE DisputeInv'
  <2> USE <1>2 DEF X!Receive
  <2>1. X!TypeOK'
    BY DEF DisputeInv, X!DisputeIsBooked, X!TypeOK, X!Hooks
  <2>2. X!BookedAsStatusSays' /\ X!BalanceExplained'
    BY Unmoved
  <2>3. QED BY <2>1, <2>2 DEF DisputeInv, X!DisputeIsBooked
<1>3. ASSUME NEW h \in Requests, X!TakeKey(h) PROVE DisputeInv'
  <2> USE <1>3 DEF X!TakeKey, X!At, X!Goto, X!Answer
  <2>1. X!TypeOK'
    <3>1. hook[h] \in X!Hooks
      BY DEF DisputeInv, X!DisputeIsBooked, X!TypeOK
    <3>2. disputeKey' \in SUBSET Disputes
      BY <3>1 DEF DisputeInv, X!DisputeIsBooked, X!TypeOK, X!Hooks
    <3>3. hook' \in [Requests -> X!Hooks \cup {NoJob}]
      BY <3>1 DEF DisputeInv, X!DisputeIsBooked, X!TypeOK, X!Hooks
    <3>4. QED BY <3>2, <3>3 DEF DisputeInv, X!DisputeIsBooked, X!TypeOK
  <2>2. X!BookedAsStatusSays' /\ X!BalanceExplained'
    BY Unmoved
  <2>3. QED BY <2>1, <2>2 DEF DisputeInv, X!DisputeIsBooked
<1>4. ASSUME NEW h \in Requests, X!Create(h) \/ X!CreateThrows(h) PROVE DisputeInv'
  <2> DEFINE d == hook[h].id
  <2> USE DEF X!Create, X!CreateThrows, X!Insert, X!At, X!Goto, X!Answer
  <2>1. d \in Disputes /\ hook[h] \in X!Hooks
    BY <1>4 DEF DisputeInv, X!DisputeIsBooked, X!TypeOK, X!Hooks
  <2>2. X!TypeOK'
    <3>1. hook' \in [Requests -> X!Hooks \cup {NoJob}]
      <4>1. [hook[h] EXCEPT !.step = "clean"] \in X!Hooks
        BY <2>1 DEF X!Hooks
      <4>2. hook \in [Requests -> X!Hooks \cup {NoJob}]
        BY DEF DisputeInv, X!DisputeIsBooked, X!TypeOK
      <4>3. QED BY <1>4, <4>1, <4>2
    <3>2. status[d] = "NONE" /\ disputeAdmin' = X!Outdate(d)
      BY <1>4
    <3>3. disputeAdmin' \in [Admins -> X!Calls \cup {NoJob}]
      BY <2>1, <3>2, Outdated
    <3>4. \A a \in Admins :
            disputeAdmin'[a] # NoJob /\ ~disputeAdmin'[a].stale
              => status'[disputeAdmin'[a].id] \in X!Open
      <4>1. \A a \in Admins : disputeAdmin'[a] # NoJob /\ ~disputeAdmin'[a].stale
              => disputeAdmin'[a] = disputeAdmin[a] /\ disputeAdmin[a].id # d
        BY <2>1, <3>2, Outdated
      <4>2. status' = [status EXCEPT ![d] = "RECEIVED"] /\ status \in [Disputes -> {"NONE"} \cup X!Open \cup X!Verdicts]
        BY <1>4 DEF DisputeInv, X!DisputeIsBooked, X!TypeOK
      <4>3. QED BY <4>1, <4>2 DEF DisputeInv, X!DisputeIsBooked, X!TypeOK, X!Open, X!Calls
    <3>5. /\ status' \in [Disputes -> {"NONE"} \cup X!Open \cup X!Verdicts]
          /\ booked' \in [Disputes -> SUBSET X!Rows]
          /\ disputeBalance' \in Int
          /\ disputeKey' \in SUBSET Disputes /\ late' \in SUBSET Disputes
      BY <1>4, <2>1, DisputeAssumed DEF DisputeInv, X!DisputeIsBooked, X!TypeOK, X!Open, X!Rows
    <3>6. QED BY <3>1, <3>3, <3>4, <3>5 DEF X!TypeOK
  <2>3. booked' = [booked EXCEPT ![d] = @ \cup {"hold"}] /\ booked[d] = {}
    <3>1. status[d] = "NONE" /\ booked' = [booked EXCEPT ![d] = @ \cup {"hold"}]
      BY <1>4
    <3>2. d \in Disputes \ late
      BY <2>1, <3>1 DEF DisputeInv
    <3>3. booked[d] = {}
      BY <3>1, <3>2 DEF DisputeInv, X!DisputeIsBooked, X!BookedAsStatusSays, X!Open
    <3>4. QED BY <3>1, <3>3
  <2>4. X!BookedAsStatusSays'
    <3>1. status' = [status EXCEPT ![d] = "RECEIVED"] /\ UNCHANGED late
      BY <1>4
    <3>2. \A x \in Disputes \ late : x # d => booked'[x] = booked[x] /\ status'[x] = status[x]
      BY <2>3, <3>1 DEF DisputeInv, X!DisputeIsBooked, X!TypeOK
    <3>3. booked'[d] = {"hold"} /\ status'[d] = "RECEIVED"
      BY <2>1, <2>3, <3>1 DEF DisputeInv, X!DisputeIsBooked, X!TypeOK
    <3> HIDE DEF d
    <3>4. QED
      BY <3>1, <3>2, <3>3 DEF DisputeInv, X!DisputeIsBooked, X!BookedAsStatusSays, X!Open
  <2>5. X!BalanceExplained'
    <3>1. Moved'[d] = Moved[d] - DisputeAmount[d]
      BY <1>4, <2>1, <2>3, DisputeAssumed DEF Moved, X!Effect, DisputeInv, X!DisputeIsBooked, X!TypeOK
    <3>2. QED
      <4>1. -DisputeAmount[d] \in Int /\ Moved[d] \in Int /\ disputeBalance \in Int
        BY <2>1, DisputeAssumed, MovedIsInt DEF DisputeInv, X!DisputeIsBooked, X!TypeOK
      <4>2. Moved'[d] = Moved[d] + -DisputeAmount[d] /\ disputeBalance' = disputeBalance + -DisputeAmount[d]
        BY <1>4, <2>1, <3>1, <4>1, DisputeAssumed
      <4>3. {"hold"} \in SUBSET X!Rows
        BY DEF X!Rows
      <4>4. QED BY <2>1, <2>3, <4>1, <4>2, <4>3, MovedBy
  <2>6. \A a \in Admins : disputeAdmin'[a] # NoJob => status'[disputeAdmin'[a].id] # "NONE"
    <3>1. \A a \in Admins : disputeAdmin'[a] # NoJob =>
            disputeAdmin[a] # NoJob /\ disputeAdmin'[a].id = disputeAdmin[a].id
      <4>1. disputeAdmin' = X!Outdate(d)
        BY <1>4
      <4>2. QED BY <2>1, <4>1, Outdated
    <3>2. \A x \in Disputes : status'[x] = "NONE" => status[x] = "NONE"
      BY <1>4, <2>1 DEF DisputeInv, X!DisputeIsBooked, X!TypeOK
    <3>3. QED
      BY <3>1, <3>2 DEF DisputeInv, X!DisputeIsBooked, X!TypeOK, X!Calls
  <2>7. \A x \in Disputes : /\ "hold" \in booked'[x] <=> status'[x] # "NONE"
                            /\ x \in late' => status'[x] # "NONE"
    <3>1. status' = [status EXCEPT ![d] = "RECEIVED"] /\ UNCHANGED late
      BY <1>4
    <3>2. \A x \in Disputes : x # d => booked'[x] = booked[x] /\ status'[x] = status[x]
      BY <2>3, <3>1 DEF DisputeInv, X!DisputeIsBooked, X!TypeOK
    <3>3. booked'[d] = {"hold"} /\ status'[d] = "RECEIVED"
      BY <2>1, <2>3, <3>1 DEF DisputeInv, X!DisputeIsBooked, X!TypeOK
    <3> HIDE DEF d
    <3>4. QED
      BY <3>1, <3>2, <3>3 DEF DisputeInv
  <2>8. QED
    BY <2>2, <2>4, <2>5, <2>6, <2>7 DEF DisputeInv, X!DisputeIsBooked
<1>5. ASSUME NEW h \in Requests, X!CreateFails(h) \/ X!DeleteKey(h) \/ X!Crash(h) PROVE DisputeInv'
  <2> USE <1>5 DEF X!CreateFails, X!DeleteKey, X!Crash, X!At, X!Goto, X!Answer
  <2>1. X!TypeOK'
    <3>1. hook[h] \in X!Hooks
      BY DEF DisputeInv, X!DisputeIsBooked, X!TypeOK
    <3>2. disputeKey' \in SUBSET Disputes
      BY <3>1 DEF DisputeInv, X!DisputeIsBooked, X!TypeOK
    <3>3. hook' \in [Requests -> X!Hooks \cup {NoJob}]
      BY <3>1 DEF DisputeInv, X!DisputeIsBooked, X!TypeOK, X!Hooks
    <3>4. QED BY <3>2, <3>3 DEF DisputeInv, X!DisputeIsBooked, X!TypeOK
  <2>2. X!BookedAsStatusSays' /\ X!BalanceExplained'
    BY Unmoved
  <2>3. QED BY <2>1, <2>2 DEF DisputeInv, X!DisputeIsBooked
<1>6. ASSUME NEW d \in Disputes, X!KeyExpires(d) PROVE DisputeInv'
  <2> USE <1>6 DEF X!KeyExpires
  <2>1. X!TypeOK'
    BY DEF DisputeInv, X!DisputeIsBooked, X!TypeOK
  <2>2. X!BookedAsStatusSays' /\ X!BalanceExplained'
    BY Unmoved
  <2>3. QED BY <2>1, <2>2 DEF DisputeInv, X!DisputeIsBooked
<1>7. ASSUME NEW a \in Admins, NEW d \in Disputes, NEW v \in X!Verdicts \cup {NoJob},
             X!ReadOpen(a, d, v)
      PROVE  DisputeInv'
  <2> USE <1>7 DEF X!ReadOpen
  <2>1. X!TypeOK'
    <3>1. [id |-> d, verdict |-> v, stale |-> FALSE] \in X!Calls
      BY DEF X!Calls
    <3>2. disputeAdmin' \in [Admins -> X!Calls \cup {NoJob}]
      BY <3>1 DEF DisputeInv, X!DisputeIsBooked, X!TypeOK
    <3>3. \A b \in Admins : disputeAdmin'[b] # NoJob /\ ~disputeAdmin'[b].stale
              => status'[disputeAdmin'[b].id] \in X!Open
      BY <3>1 DEF DisputeInv, X!DisputeIsBooked, X!TypeOK
    <3>4. QED BY <3>2, <3>3 DEF DisputeInv, X!DisputeIsBooked, X!TypeOK
  <2>2. X!BookedAsStatusSays' /\ X!BalanceExplained'
    BY Unmoved
  <2>3. \A b \in Admins : disputeAdmin'[b] # NoJob => status'[disputeAdmin'[b].id] # "NONE"
    BY DEF DisputeInv, X!DisputeIsBooked, X!TypeOK, X!Open
  <2>4. QED BY <2>1, <2>2, <2>3 DEF DisputeInv, X!DisputeIsBooked
<1>8. ASSUME NEW a \in Admins, X!FileEvidence(a) PROVE DisputeInv'
  <2> DEFINE d == disputeAdmin[a].id
  <2>1. disputeAdmin[a] \in X!Calls /\ d \in Disputes /\ status[d] # "NONE"
    BY <1>8 DEF X!FileEvidence, X!Calls, DisputeInv, X!DisputeIsBooked, X!TypeOK
  <2>2. /\ late' = late \cup {x \in {d} : status[d] \notin X!Open}
        /\ status' = [status EXCEPT ![d] = "EVIDENCE_SUBMITTED"]
        /\ UNCHANGED <<booked, disputeBalance, disputeKey, hook>>
    BY <1>8 DEF X!FileEvidence
  <2>3. ASSUME NEW b \in Admins, disputeAdmin'[b] # NoJob
        PROVE  /\ disputeAdmin'[b] \in X!Calls
               /\ disputeAdmin[b] # NoJob
               /\ disputeAdmin'[b].id = disputeAdmin[b].id
               /\ ~disputeAdmin'[b].stale =>
                    ~disputeAdmin[b].stale /\ disputeAdmin[b].id # d
    <3>1. /\ b # a /\ disputeAdmin[b] # NoJob
          /\ disputeAdmin'[b] = IF disputeAdmin[b].id = d
                                THEN [disputeAdmin[b] EXCEPT !.stale = TRUE] ELSE disputeAdmin[b]
      BY <1>8, <2>3 DEF X!FileEvidence
    <3>2. disputeAdmin[b] \in X!Calls
      BY <3>1 DEF DisputeInv, X!DisputeIsBooked, X!TypeOK
    <3>3. QED BY <3>1, <3>2 DEF X!Calls
  <2>4. X!TypeOK'
    <3>1. disputeAdmin' \in [Admins -> X!Calls \cup {NoJob}]
      BY <1>8, <2>3 DEF X!FileEvidence
    <3>2. \A b \in Admins : disputeAdmin'[b] # NoJob /\ ~disputeAdmin'[b].stale
              => status'[disputeAdmin'[b].id] \in X!Open
      BY <2>1, <2>2, <2>3 DEF DisputeInv, X!DisputeIsBooked, X!TypeOK, X!Calls
    <3>3. late' \in SUBSET Disputes
      BY <2>1, <2>2 DEF DisputeInv, X!DisputeIsBooked, X!TypeOK
    <3>4. status' \in [Disputes -> {"NONE"} \cup X!Open \cup X!Verdicts]
      BY <2>1, <2>2 DEF DisputeInv, X!DisputeIsBooked, X!TypeOK, X!Open
    <3>5. QED BY <2>2, <3>1, <3>2, <3>3, <3>4 DEF DisputeInv, X!DisputeIsBooked, X!TypeOK
  <2>5. X!BookedAsStatusSays'
    BY <2>1, <2>2 DEF DisputeInv, X!DisputeIsBooked, X!TypeOK, X!BookedAsStatusSays, X!Open
  <2>6. X!BalanceExplained'
    BY <2>2 DEF DisputeInv, X!DisputeIsBooked, X!BalanceExplained
  <2>7. \A b \in Admins : disputeAdmin'[b] # NoJob => status'[disputeAdmin'[b].id] # "NONE"
    BY <2>1, <2>2, <2>3 DEF DisputeInv, X!DisputeIsBooked, X!TypeOK, X!Calls
  <2>8. QED
    BY <2>1, <2>2, <2>4, <2>5, <2>6, <2>7 DEF DisputeInv, X!DisputeIsBooked, X!TypeOK
<1>9. ASSUME NEW a \in Admins, X!Resolve(a) PROVE DisputeInv'
  <2> DEFINE d == disputeAdmin[a].id
             v == disputeAdmin[a].verdict
             rows == X!RowsOf(v)
             delta == X!Effect(rows, DisputeAmount[d])
  <2>1. /\ disputeAdmin[a] \in X!Calls /\ d \in Disputes /\ v \in X!Verdicts
        /\ status[d] \in X!Open
    BY <1>9 DEF X!Resolve, X!NoConflict, X!Calls, DisputeInv, X!DisputeIsBooked, X!TypeOK
  <2>2. /\ booked[d] \cap rows = {}
        /\ booked' = [booked EXCEPT ![d] = @ \cup rows]
        /\ disputeBalance' = disputeBalance + delta
        /\ status' = [status EXCEPT ![d] = v]
        /\ disputeAdmin' = [X!Outdate(d) EXCEPT ![a] = NoJob]
        /\ UNCHANGED <<disputeKey, hook, late>>
    BY <1>9 DEF X!Resolve, X!Unbooked, X!Ended
  <2>3. rows \in SUBSET X!Rows /\ "hold" \notin rows
    BY DEF X!RowsOf, X!Rows
  <2>4. delta \in Int
    BY <2>1, DisputeAssumed DEF X!Effect
  <2>5. X!TypeOK'
    <3>1. disputeAdmin' \in [Admins -> X!Calls \cup {NoJob}]
      BY <2>1, <2>2, Outdated
    <3>2. \A b \in Admins : disputeAdmin'[b] # NoJob /\ ~disputeAdmin'[b].stale
              => status'[disputeAdmin'[b].id] \in X!Open
      <4>1. \A b \in Admins : disputeAdmin'[b] # NoJob => disputeAdmin'[b] = X!Outdate(d)[b]
        BY <2>1, <2>2, Outdated
      <4>2. \A b \in Admins : disputeAdmin'[b] # NoJob /\ ~disputeAdmin'[b].stale
              => /\ disputeAdmin'[b] = disputeAdmin[b] /\ disputeAdmin[b].id # d
                 /\ disputeAdmin[b] # NoJob
        BY <2>1, <4>1, Outdated
      <4>3. \A x \in Disputes \ {d} : status'[x] = status[x]
        BY <2>2 DEF DisputeInv, X!DisputeIsBooked, X!TypeOK
      <4>4. \A b \in Admins : disputeAdmin[b] # NoJob => disputeAdmin[b].id \in Disputes
        BY DEF DisputeInv, X!DisputeIsBooked, X!TypeOK, X!Calls
      <4>5. QED BY <4>2, <4>3, <4>4 DEF DisputeInv, X!DisputeIsBooked, X!TypeOK
    <3>3. /\ status' \in [Disputes -> {"NONE"} \cup X!Open \cup X!Verdicts]
          /\ booked' \in [Disputes -> SUBSET X!Rows]
      BY <2>1, <2>2, <2>3 DEF DisputeInv, X!DisputeIsBooked, X!TypeOK
    <3>4. disputeBalance' \in Int
      BY <2>2, <2>4 DEF DisputeInv, X!DisputeIsBooked, X!TypeOK
    <3>5. QED BY <2>2, <3>1, <3>2, <3>3, <3>4 DEF DisputeInv, X!DisputeIsBooked, X!TypeOK
  <2>6. X!BookedAsStatusSays'
    <3>1. ASSUME NEW x \in Disputes \ late, x # d
          PROVE  booked'[x] = booked[x] /\ status'[x] = status[x]
      BY <2>1, <2>2, <3>1 DEF DisputeInv, X!DisputeIsBooked, X!TypeOK
    <3>2. booked'[d] = booked[d] \cup rows /\ status'[d] = v
      BY <2>1, <2>2 DEF DisputeInv, X!DisputeIsBooked, X!TypeOK
    <3>3. d \notin late => booked[d] = {"hold"}
      BY <2>1 DEF DisputeInv, X!DisputeIsBooked, X!BookedAsStatusSays, X!Open
    <3>4. d \notin late =>
            booked'[d] = CASE status'[d] = "NONE" -> {}
                           [] status'[d] \in X!Open -> {"hold"}
                           [] status'[d] = "WON" -> {"hold", "hold_release"}
                           [] OTHER -> X!Rows
      BY <2>1, <3>2, <3>3 DEF X!RowsOf, X!Verdicts, X!Open, X!Rows
    <3>5. QED
      BY <2>2, <3>1, <3>4 DEF DisputeInv, X!DisputeIsBooked, X!BookedAsStatusSays
  <2>7. X!BalanceExplained'
    <3>1. Moved'[d] = Moved[d] + delta
      <4>1. booked'[d] = booked[d] \cup rows
        BY <2>1, <2>2 DEF DisputeInv, X!DisputeIsBooked, X!TypeOK
      <4>2. PICK b, c : b = booked[d] /\ c = rows
        OBVIOUS
      <4>3. PICK n \in Nat : n = DisputeAmount[d]
        BY <2>1, DisputeAssumed
      <4>4. b \cap c = {} /\ "hold" \notin c
        BY <2>2, <2>3, <4>2
      <4>5. X!Effect(b \cup c, n) = X!Effect(b, n) + X!Effect(c, n)
        BY <4>4 DEF X!Effect
      <4>6. ("hold" \in b \cup c) <=> "hold" \in b
        BY <4>4
      <4> HIDE DEF rows
      <4>7. Moved[d] = X!Effect(b, n) - (IF "hold" \in b THEN n ELSE 0)
        BY <2>1, <4>2, <4>3 DEF Moved
      <4>8. Moved'[d] = X!Effect(b \cup c, n) - (IF "hold" \in b \cup c THEN n ELSE 0)
        BY <2>1, <4>1, <4>2, <4>3 DEF Moved
      <4>9. X!Effect(b, n) \in Int /\ X!Effect(c, n) \in Int
        BY DEF X!Effect
      <4>10. delta = X!Effect(c, n)
        BY <4>2, <4>3
      <4> HIDE DEF delta
      <4>11. QED BY <4>5, <4>6, <4>7, <4>8, <4>9, <4>10
    <3>2. QED
      <4> HIDE DEF rows, delta
      <4> QED BY <2>1, <2>2, <2>3, <2>4, <3>1, MovedBy
  <2>8. \A b \in Admins : disputeAdmin'[b] # NoJob => status'[disputeAdmin'[b].id] # "NONE"
    <3>1. \A b \in Admins : disputeAdmin'[b] # NoJob =>
            disputeAdmin[b] # NoJob /\ disputeAdmin'[b].id = disputeAdmin[b].id
      BY <2>1, <2>2, Outdated
    <3>2. \A x \in Disputes : status'[x] = "NONE" => status[x] = "NONE"
      BY <2>1, <2>2 DEF DisputeInv, X!DisputeIsBooked, X!TypeOK, X!Verdicts
    <3>3. QED
      BY <3>1, <3>2 DEF DisputeInv, X!DisputeIsBooked, X!TypeOK, X!Calls
  <2>9. \A x \in Disputes : /\ "hold" \in booked'[x] <=> status'[x] # "NONE"
                            /\ x \in late' => status'[x] # "NONE"
    <3>1. v # "NONE" /\ status[d] # "NONE"
      BY <2>1 DEF X!Verdicts, X!Open
    <3>2. QED
      BY <2>1, <2>2, <2>3, <3>1 DEF DisputeInv, X!DisputeIsBooked, X!TypeOK
  <2>10. QED BY <2>5, <2>6, <2>7, <2>8, <2>9 DEF DisputeInv, X!DisputeIsBooked
<1>10. ASSUME NEW a \in Admins, X!Abort(a) PROVE DisputeInv'
  <2> USE <1>10 DEF X!Abort
  <2>1. X!TypeOK'
    BY DEF DisputeInv, X!DisputeIsBooked, X!TypeOK
  <2>2. X!BookedAsStatusSays' /\ X!BalanceExplained'
    BY Unmoved
  <2>3. QED BY <2>1, <2>2 DEF DisputeInv, X!DisputeIsBooked, X!TypeOK
<1>11. QED
  BY <1>1, <1>2, <1>3, <1>4, <1>5, <1>6, <1>7, <1>8, <1>9, <1>10 DEF X!Next

-----------------------------------------------------------------------------
(* Deposits.                                                               *)

\* A call has the key of payment p and is about to credit it.
AtDeposit(p) ==
  \E h \in Notifications : D!At(h, "deposit") /\ depositJob[h].payment = p

\* Payment p is credited, is being credited, or a call that should have failed.
Secured(p) == credited[p] = 1 \/ p \in failed \/ AtDeposit(p)

DepositTypes ==
  /\ reached \in [DepositIds -> SUBSET D!Statuses]
  /\ depositKey \in SUBSET DepositIds
  /\ credited \in [DepositIds -> {0, 1}]
  /\ depositJob \in [Notifications -> D!Jobs \cup {NoJob}]
  /\ acked \in SUBSET DepositIds
  /\ failed \in SUBSET DepositIds

\* What a call knows of its payment: the PSP's endpoint, and every call past the
\* key, has seen SUCCESS; a key is cleaned up after a failure.
JobIsDue(j) ==
  /\ j.status \in reached[j.payment]
  /\ j.step # "key" \/ Route[j.payment] = "psp" => j.status = "SUCCESS"
  /\ j.step = "clean" => j.payment \in failed

\* A key taken, or an answer given, by the PSP's endpoint stands for a payment
\* that is secured.
DepositInv ==
  /\ DepositTypes
  /\ \A h \in Notifications : depositJob[h] # NoJob => JobIsDue(depositJob[h])
  /\ \A p \in DepositIds : credited[p] = 1 => "SUCCESS" \in reached[p]
  /\ \A p \in DepositIds :
       Route[p] = "psp" /\ p \in depositKey \cup acked => Secured(p)

\* No payment has been heard of at first.
LEMMA DepositInvInit == D!Init => DepositInv
BY DEF D!Init, DepositInv, DepositTypes

\* The invariant is stronger than the property.
LEMMA DepositInvMeans == DepositInv => CreditedAsTold
<1> SUFFICES ASSUME DepositInv PROVE CreditedAsTold
  OBVIOUS
<1>1. D!CreditedOnce
  BY DEF DepositInv, DepositTypes, D!CreditedOnce
<1>2. D!PspTakenIsCredited
  <2> SUFFICES ASSUME NEW p \in DepositIds, Route[p] = "psp", p \in acked
               PROVE  \/ credited[p] > 0
                      \/ p \in failed
                      \/ \E h \in Notifications : depositJob[h] # NoJob /\ depositJob[h].payment = p
    BY DEF D!PspTakenIsCredited, D!Settled
  <2>1. Secured(p)
    BY DEF DepositInv
  <2>2. QED BY <2>1 DEF Secured, AtDeposit, D!At
<1>3. QED BY <1>1, <1>2 DEF CreditedAsTold, D!CreditedAsTold

\* Every step of the provider, of a call and of Redis.
LEMMA DepositInvNext == DepositInv /\ [D!Next]_deposit => DepositInv'
<1> SUFFICES ASSUME DepositInv, [D!Next]_deposit PROVE DepositInv'
  OBVIOUS
<1> USE DEF deposit
<1>1. CASE UNCHANGED deposit
  BY <1>1 DEF DepositInv, DepositTypes, JobIsDue, Secured, AtDeposit, D!At
<1>2. ASSUME NEW p \in DepositIds, NEW s \in D!Statuses, D!PaymentMoves(p, s) PROVE DepositInv'
  <2> USE <1>2 DEF D!PaymentMoves
  <2>1. DepositTypes'
    BY DEF DepositInv, DepositTypes
  <2>2. \A q \in DepositIds : reached[q] \subseteq reached'[q]
    BY DEF DepositInv, DepositTypes
  <2>3. \A h \in Notifications : depositJob'[h] # NoJob => JobIsDue(depositJob[h])'
    BY <2>2 DEF DepositInv, DepositTypes, JobIsDue, D!Jobs
  <2>4. \A q \in DepositIds : Secured(q)' = Secured(q)
    BY DEF Secured, AtDeposit, D!At
  <2>5. QED BY <2>1, <2>2, <2>3, <2>4 DEF DepositInv
<1>3. ASSUME NEW h \in Notifications, NEW p \in DepositIds, NEW s \in D!Statuses, D!Receive(h, p, s)
      PROVE  DepositInv'
  <2> USE <1>3 DEF D!Receive
  <2>1. [payment |-> p, status |-> s, step |-> "key"] \in D!Jobs
    BY DEF D!Jobs
  <2>2. DepositTypes'
    BY <2>1 DEF DepositInv, DepositTypes
  <2>3. \A g \in Notifications : depositJob'[g] # NoJob => JobIsDue(depositJob[g])'
    BY <2>1 DEF DepositInv, DepositTypes, JobIsDue
  <2>4. \A q \in DepositIds : Secured(q) => Secured(q)'
    BY DEF DepositInv, DepositTypes, Secured, AtDeposit, D!At
  <2>5. QED BY <2>2, <2>3, <2>4 DEF DepositInv
<1>4. ASSUME NEW h \in Notifications, D!TakeKey(h) PROVE DepositInv'
  <2> DEFINE j == depositJob[h]
  <2> USE DEF D!TakeKey, D!At, D!Goto, D!Done
  <2>0. PICK p \in DepositIds : p = j.payment
    BY <1>4 DEF DepositInv, DepositTypes, D!Jobs
  <2>1. j \in D!Jobs /\ j # NoJob /\ JobIsDue(j) /\ j.step = "key"
    BY <1>4, <2>0 DEF DepositInv, DepositTypes, JobIsDue, D!Jobs
  <2>2. CASE j.status = "SUCCESS"
    <3>1. depositJob' = [depositJob EXCEPT ![h].step = "deposit"]
      BY <1>4, <2>2
    <3>2. [j EXCEPT !.step = "deposit"] \in D!Jobs
      BY <2>0, <2>1 DEF D!Jobs
    <3>3. DepositTypes'
      BY <1>4, <2>0, <2>1, <3>1, <3>2 DEF DepositInv, DepositTypes
    <3>4. \A g \in Notifications : depositJob'[g] # NoJob => JobIsDue(depositJob[g])'
      BY <1>4, <2>0, <2>1, <2>2, <3>1, <3>2 DEF DepositInv, DepositTypes, JobIsDue, D!Jobs
    <3>5. depositJob'[h] # NoJob /\ depositJob'[h].step = "deposit" /\ depositJob'[h].payment = p
      BY <2>0, <2>1, <3>1, <3>2, DepositAssumption DEF DepositInv, DepositTypes, D!NoJobAssumption, D!Jobs
    <3>6. Secured(p)'
      BY <3>5 DEF Secured, AtDeposit
    <3>7. \A q \in DepositIds : q # p /\ Secured(q) => Secured(q)'
      BY <1>4, <2>0, <2>1, <3>1 DEF DepositInv, DepositTypes, Secured, AtDeposit
    <3>8. depositKey' = depositKey \cup {p} /\ acked' = acked
      BY <1>4, <2>0
    <3>9. UNCHANGED <<credited, reached>>
      BY <1>4, <2>0
    <3>10. \A q \in DepositIds :
             Route[q] = "psp" /\ q \in depositKey' \cup acked' => Secured(q)'
      BY <3>6, <3>7, <3>8 DEF DepositInv
    <3>11. QED BY <3>3, <3>4, <3>9, <3>10 DEF DepositInv
  <2>3. CASE j.status # "SUCCESS"
    <3>1. depositJob' = [depositJob EXCEPT ![h] = NoJob]
      BY <1>4, <2>3
    <3>2. Route[p] # "psp"
      BY <2>0, <2>1, <2>3 DEF JobIsDue
    <3>3. DepositTypes'
      BY <1>4, <2>0, <2>1, <3>1 DEF DepositInv, DepositTypes
    <3>4. \A g \in Notifications : depositJob'[g] # NoJob => JobIsDue(depositJob[g])'
      BY <1>4, <3>1 DEF DepositInv, DepositTypes, JobIsDue
    <3>5. \A q \in DepositIds : Secured(q) => Secured(q)'
      BY <1>4, <2>0, <2>1, <3>1 DEF DepositInv, DepositTypes, Secured, AtDeposit
    <3>6. depositKey' = depositKey \cup {p} /\ UNCHANGED <<acked, credited, reached>>
      BY <1>4, <2>0
    <3>7. QED BY <3>2, <3>3, <3>4, <3>5, <3>6 DEF DepositInv
  <2>4. QED BY <2>2, <2>3
<1>5. ASSUME NEW h \in Notifications, D!KeyTaken(h) PROVE DepositInv'
  <2> DEFINE j == depositJob[h]
             p == j.payment
  <2> USE DEF D!KeyTaken, D!At, D!Done
  <2>1. j \in D!Jobs /\ j # NoJob /\ p \in depositKey /\ j.step = "key"
    BY <1>5 DEF DepositInv, DepositTypes
  <2>2. /\ depositJob' = [depositJob EXCEPT ![h] = NoJob]
        /\ acked' = acked \cup {q \in {p} : j.status = "SUCCESS"}
        /\ UNCHANGED <<reached, depositKey, credited, failed>>
    BY <1>5
  <2>3. DepositTypes'
    BY <2>1, <2>2 DEF DepositInv, DepositTypes
  <2>4. \A g \in Notifications : depositJob'[g] # NoJob => JobIsDue(depositJob[g])'
    BY <2>2 DEF DepositInv, DepositTypes, JobIsDue
  <2>5. \A q \in DepositIds : Secured(q) => Secured(q)'
    BY <2>1, <2>2 DEF DepositInv, DepositTypes, Secured, AtDeposit
  <2>6. QED BY <2>1, <2>2, <2>3, <2>4, <2>5 DEF DepositInv
<1>6. ASSUME NEW h \in Notifications, D!Deposit(h) PROVE DepositInv'
  <2> DEFINE j == depositJob[h]
  <2> USE DEF D!Deposit, D!Credit, D!At, D!Done
  <2>0. PICK p \in DepositIds : p = j.payment
    BY <1>6 DEF DepositInv, DepositTypes, D!Jobs
  <2>1. /\ j \in D!Jobs /\ j # NoJob /\ j.step = "deposit"
        /\ "SUCCESS" \in reached[p]
    BY <1>6, <2>0 DEF DepositInv, DepositTypes, JobIsDue, D!Jobs
  <2>2. /\ depositJob' = [depositJob EXCEPT ![h] = NoJob]
        /\ credited' = [credited EXCEPT ![p] = 1]
        /\ acked' = acked \cup {p}
        /\ UNCHANGED <<reached, depositKey, failed>>
    BY <1>6, <2>0
  <2>3. DepositTypes'
    BY <2>0, <2>1, <2>2 DEF DepositInv, DepositTypes
  <2>4. \A g \in Notifications : depositJob'[g] # NoJob => JobIsDue(depositJob[g])'
    BY <2>2 DEF DepositInv, DepositTypes, JobIsDue
  <2>5. \A q \in DepositIds : Secured(q) => Secured(q)'
    BY <2>0, <2>1, <2>2 DEF DepositInv, DepositTypes, Secured, AtDeposit
  <2>6. Secured(p)'
    BY <2>0, <2>1, <2>2 DEF DepositInv, DepositTypes, Secured
  <2>7. \A q \in DepositIds :
          /\ credited'[q] = 1 => "SUCCESS" \in reached'[q]
          /\ Route[q] = "psp" /\ q \in depositKey' \cup acked' => Secured(q)'
    BY <2>0, <2>1, <2>2, <2>5, <2>6 DEF DepositInv, DepositTypes
  <2>8. QED BY <2>3, <2>4, <2>7 DEF DepositInv
<1>7. ASSUME NEW h \in Notifications, D!DepositFails(h) \/ D!DepositThrows(h) PROVE DepositInv'
  <2> DEFINE j == depositJob[h]
             p == j.payment
  <2> USE DEF D!DepositFails, D!DepositThrows, D!GiveUp, D!Credit, D!At, D!Done, D!Goto
  <2>1. /\ j \in D!Jobs /\ j # NoJob /\ p \in DepositIds /\ j.step = "deposit"
        /\ j.status = "SUCCESS" /\ "SUCCESS" \in reached[p]
    BY <1>7 DEF DepositInv, DepositTypes, JobIsDue, D!Jobs
  <2>2. /\ credited' = credited \/ credited' = [credited EXCEPT ![p] = 1]
        /\ failed' = failed \cup {p}
        /\ UNCHANGED <<reached, depositKey, acked>>
    BY <1>7
  <2>3. PICK new \in D!Jobs \cup {NoJob} :
          /\ depositJob' = [depositJob EXCEPT ![h] = new]
          /\ new # NoJob => /\ new.payment = p /\ new.status = "SUCCESS"
                            /\ new.step = "clean"
    <3>1. CASE Route[p] = "psp"
      <4>1. PICK c \in D!Jobs : c = [j EXCEPT !.step = "clean"]
        BY <2>1 DEF D!Jobs
      <4>2. c.payment = p /\ c.status = "SUCCESS" /\ c.step = "clean"
        BY <2>1, <4>1 DEF D!Jobs
      <4>3. depositJob' = [depositJob EXCEPT ![h] = c]
        BY <1>7, <3>1, <4>1
      <4> HIDE DEF p
      <4>4. QED BY <4>2, <4>3
    <3>2. CASE Route[p] # "psp"
      BY <1>7, <3>2
    <3>3. QED BY <3>1, <3>2
  <2>4. DepositTypes'
    BY <2>1, <2>2, <2>3 DEF DepositInv, DepositTypes
  <2>5. \A g \in Notifications : depositJob'[g] # NoJob => JobIsDue(depositJob[g])'
    BY <2>1, <2>2, <2>3 DEF DepositInv, DepositTypes, JobIsDue
  <2>6. \A q \in DepositIds : Secured(q) => Secured(q)'
    BY <2>1, <2>2, <2>3 DEF DepositInv, DepositTypes, Secured, AtDeposit
  <2>7. \A q \in DepositIds : credited'[q] = 1 => "SUCCESS" \in reached'[q]
    BY <2>1, <2>2 DEF DepositInv, DepositTypes
  <2>8. QED BY <2>2, <2>4, <2>5, <2>6, <2>7 DEF DepositInv
<1>8. ASSUME NEW h \in Notifications, D!DeleteKey(h) PROVE DepositInv'
  <2> USE <1>8 DEF D!DeleteKey, D!At, D!Done
  <2>1. DepositTypes'
    BY DEF DepositInv, DepositTypes
  <2>2. \A g \in Notifications : depositJob'[g] # NoJob => JobIsDue(depositJob[g])'
    BY DEF DepositInv, DepositTypes, JobIsDue
  <2>3. \A q \in DepositIds : Secured(q) => Secured(q)'
    BY DEF DepositInv, DepositTypes, Secured, AtDeposit
  <2>4. depositKey' \subseteq depositKey /\ acked' = acked
    OBVIOUS
  <2>5. QED BY <2>1, <2>2, <2>3, <2>4 DEF DepositInv
<1>9. ASSUME NEW h \in Notifications, D!Crash(h) PROVE DepositInv'
  <2> USE <1>9 DEF D!Crash, D!At, D!Done
  <2>1. depositJob[h] \in D!Jobs
    BY DEF DepositInv, DepositTypes
  <2>2. DepositTypes'
    BY <2>1 DEF DepositInv, DepositTypes, D!Jobs
  <2>3. \A g \in Notifications : depositJob'[g] # NoJob => JobIsDue(depositJob[g])'
    BY DEF DepositInv, DepositTypes, JobIsDue
  <2>4. \A q \in DepositIds : Secured(q) => Secured(q)'
    BY DEF DepositInv, DepositTypes, Secured, AtDeposit
  <2>5. QED BY <2>2, <2>3, <2>4 DEF DepositInv
<1>10. ASSUME NEW p \in DepositIds, D!KeyExpires(p) PROVE DepositInv'
  <2> USE <1>10 DEF D!KeyExpires
  <2>1. DepositTypes'
    BY DEF DepositInv, DepositTypes
  <2>2. \A g \in Notifications : depositJob'[g] # NoJob => JobIsDue(depositJob[g])'
    BY DEF DepositInv, JobIsDue
  <2>3. \A q \in DepositIds : Secured(q) => Secured(q)'
    BY DEF Secured, AtDeposit, D!At
  <2>4. QED BY <2>1, <2>2, <2>3 DEF DepositInv
<1>11. QED
  BY <1>1, <1>2, <1>3, <1>4, <1>5, <1>6, <1>7, <1>8, <1>9, <1>10 DEF D!Next

-----------------------------------------------------------------------------
(* Refunds.                                                                *)

\* The account that bears what the division leaves.
LastAccount == Len(Credits)

RefundRows == [key : RefundKeys, amount : Nat, seen : Nat, coveredBy : R!CoveredBy,
               debits : [R!Parties -> Nat]]

\* What one refund says of itself: its debits are its amount, the sum it was
\* judged by allowed it, and by SPLIT no party but the last pays more than its
\* share.
FairRow(row) ==
  /\ SumFunctionOnSet(row.debits, R!Parties) = row.amount
  /\ row.seen + row.amount <= R!Charge
  /\ row.coveredBy = "SPLIT" =>
       \A p \in R!Parties \ {LastAccount} : row.debits[p] * R!Charge <= row.amount * R!Share[p]

\* A call about to commit has been judged by the sum it read; every row is fair.
RefundInv ==
  /\ refundKey \in SUBSET RefundKeys
  /\ refunds \in Seq(RefundRows)
  /\ refundJob \in [Requests -> R!Jobs \cup {NoJob}]
  /\ \A r \in Requests : refundJob[r] # NoJob /\ refundJob[r].step = "commit" =>
       /\ refundJob[r].seen + refundJob[r].amount <= R!Charge
       /\ refundJob[r].coveredBy = "CONNECTED_ACCOUNT" => R!SplitSum > 0
  /\ \A i \in DOMAIN refunds : FairRow(refunds[i])
  /\ R!OneRefundPerKey

\* The instance's sum is the library's.
LEMMA RefundLibrary == \A f, S : R!Sum(f, S) = SumFunctionOnSet(f, S)
BY DEF R!Sum, SumFunctionOnSet, R!SumFunctionOnSet,
       FoldFunctionOnSet, R!FoldFunctionOnSet, MapThenFoldSet, R!MapThenFoldSet

\* The charge is what its parties got, and accounts got something.
LEMMA Whole ==
  /\ LastAccount \in Nat /\ R!Accounts = 1..LastAccount /\ IsFiniteSet(R!Accounts)
  /\ R!Parties = {0} \cup R!Accounts /\ IsFiniteSet(R!Parties)
  /\ R!Share \in [R!Parties -> Nat] /\ \A a \in R!Accounts : R!Share[a] > 0
  /\ R!SplitSum = SumFunctionOnSet(R!Share, R!Accounts)
  /\ R!Charge = SumFunctionOnSet(R!Share, R!Parties)
  /\ R!SplitSum \in Nat /\ R!Charge \in Nat
  /\ R!Accounts # {} => R!SplitSum > 0 /\ R!Charge > 0
<1>1. LastAccount \in Nat /\ R!Accounts = 1..LastAccount /\ \A a \in 1..LastAccount : Credits[a] \in Nat \ {0}
  BY RefundAssumption DEF R!CompositionAssumption, R!Accounts, LastAccount
<1>2. IsFiniteSet(R!Accounts)
  BY <1>1, FS_Interval
<1>3. R!Parties = {0} \cup R!Accounts /\ IsFiniteSet(R!Parties)
  <2>1. IsFiniteSet(R!Accounts \cup {0})
    BY <1>2, FS_AddElement
  <2>2. R!Parties = R!Accounts \cup {0}
    BY DEF R!Parties
  <2>3. QED BY <2>1, <2>2
<1>4. R!Share \in [R!Parties -> Nat] /\ \A a \in R!Accounts : R!Share[a] > 0
  BY <1>1, <1>3, RefundAssumption DEF R!Share, R!CompositionAssumption
<1>5. /\ R!SplitSum = SumFunctionOnSet(R!Share, R!Accounts)
      /\ R!Charge = SumFunctionOnSet(R!Share, R!Parties)
  BY RefundLibrary DEF R!SplitSum, R!Charge
<1>6. R!SplitSum \in Nat /\ R!Charge \in Nat
  <2>1. /\ \A x \in R!Parties : R!Share[x] \in Nat
        /\ \A x \in R!Accounts : R!Share[x] \in Nat
    BY <1>3, <1>4
  <2>2. SumFunctionOnSet(R!Share, R!Parties) \in Nat
    BY <1>3, <2>1, SumNat
  <2>3. SumFunctionOnSet(R!Share, R!Accounts) \in Nat
    BY <1>2, <2>1, SumNat
  <2>4. QED BY <1>5, <2>2, <2>3
<1>7. R!Charge = R!SplitSum + R!Share[0]
  <2>1. 0 \notin R!Accounts /\ \A x \in R!Accounts \cup {0} : R!Share[x] \in Int
    BY <1>1, <1>3, <1>4
  <2>2. SumFunctionOnSet(R!Share, R!Accounts \cup {0})
          = SumFunctionOnSet(R!Share, R!Accounts) + R!Share[0]
    BY <1>2, <2>1, SumAdd
  <2>3. R!Accounts \cup {0} = R!Parties
    BY <1>3
  <2>4. QED BY <1>5, <2>2, <2>3
<1>8. R!Accounts # {} => R!SplitSum > 0
  <2> SUFFICES ASSUME R!Accounts # {} PROVE R!SplitSum > 0
    OBVIOUS
  <2>1. PICK a \in R!Accounts : TRUE
    OBVIOUS
  <2>2. \A x \in R!Accounts : R!Share[x] \in Nat
    BY <1>3, <1>4
  <2>3. SumFunctionOnSet(R!Share, R!Accounts)
          = R!Share[a] + SumFunctionOnSet(R!Share, R!Accounts \ {a})
    BY <1>2, <2>2, SumRemove
  <2>4. SumFunctionOnSet(R!Share, R!Accounts \ {a}) \in Nat
    BY <1>2, <2>2, SumNat, FS_RemoveElement
  <2>5. QED BY <1>4, <1>5, <2>2, <2>3, <2>4
<1>9. R!Share[0] \in Nat
  BY <1>3, <1>4
<1>10. QED BY <1>1, <1>2, <1>3, <1>4, <1>5, <1>6, <1>7, <1>8, <1>9

\* Division rounds down.
LEMMA Rounded ==
  ASSUME NEW x \in Nat, NEW w \in Nat \ {0}
  PROVE  x \div w \in Nat /\ (x \div w) * w <= x
OBVIOUS

\* allocateRefundCostSplit and allocateRefundCostConnectedOnly: whatever the
\* shares, the debits are natural numbers, add up to the amount, and round down
\* for everyone but the last.
LEMMA AllocationAddsUp ==
  ASSUME NEW amount \in Nat, NEW S \in SUBSET R!Parties, LastAccount \in S,
         NEW whole \in Nat \ {0}, whole = SumFunctionOnSet(R!Share, S)
  PROVE  LET cost == R!Allocate(amount, S, whole)
         IN  /\ cost \in [R!Parties -> Nat]
             /\ SumFunctionOnSet(cost, R!Parties) = amount
             /\ \A p \in R!Parties \ {LastAccount} : cost[p] * whole <= amount * R!Share[p]
<1> DEFINE others == S \ {LastAccount}
           cost == R!Allocate(amount, S, whole)
           parts == [p \in others |-> (amount * R!Share[p]) \div whole]
           rest == amount - SumFunctionOnSet(parts, others)
<1>1. /\ IsFiniteSet(S) /\ IsFiniteSet(others) /\ IsFiniteSet(R!Parties \ S)
      /\ others \subseteq S /\ S \subseteq R!Parties
  BY Whole, FS_Subset
<1>2. \A p \in others : /\ parts[p] \in Nat /\ R!Share[p] \in Nat
                        /\ parts[p] * whole <= amount * R!Share[p]
  <2> SUFFICES ASSUME NEW p \in others
               PROVE  /\ parts[p] \in Nat /\ R!Share[p] \in Nat
                      /\ parts[p] * whole <= amount * R!Share[p]
    OBVIOUS
  <2>1. R!Share[p] \in Nat
    BY Whole
  <2>2. PICK x \in Nat : x = amount * R!Share[p]
    BY <2>1
  <2>3. parts[p] = x \div whole
    BY <2>2
  <2>4. QED BY <2>1, <2>2, <2>3, Rounded
<1>3. cost = [p \in R!Parties |-> IF p \notin S THEN 0
                                  ELSE IF p \in others THEN parts[p] ELSE rest]
  BY RefundLibrary DEF R!Allocate, LastAccount
<1> HIDE DEF cost, parts
<1>4. PICK given \in Nat : given = SumFunctionOnSet(parts, others)
  BY <1>1, <1>2, SumNat
<1>5. given <= amount
  <2>1. given * whole <= amount * SumFunctionOnSet(R!Share, others)
    <3>1. amount \in Int /\ whole \in Int
      OBVIOUS
    <3>2. \A p \in others : parts[p] \in Int /\ R!Share[p] \in Int /\ parts[p] * whole <= amount * R!Share[p]
      BY <1>2
    <3> HIDE DEF others
    <3>3. QED BY <1>1, <1>4, <3>1, <3>2, SumInProportion
  <2>2. PICK some \in Nat : some = SumFunctionOnSet(R!Share, others)
    BY <1>1, <1>2, SumNat
  <2>3. some <= whole
    <3>1. \A p \in S : R!Share[p] \in Nat
      BY Whole
    <3>2. SumFunctionOnSet(R!Share, S) = R!Share[LastAccount] + SumFunctionOnSet(R!Share, S \ {LastAccount})
      BY <1>1, <3>1, SumRemove
    <3>3. R!Share[LastAccount] \in Nat
      BY <3>1
    <3>4. QED BY <2>2, <3>2, <3>3
  <2>4. given * whole <= amount * some
    BY <2>1, <2>2
  <2>5. amount * some <= amount * whole
    BY <2>3
  <2>6. given * whole <= amount * whole
    BY <2>4, <2>5
  <2>7. QED
    <3> SUFFICES ASSUME given >= amount + 1 PROVE FALSE
      OBVIOUS
    <3>1. given * whole >= (amount + 1) * whole
      OBVIOUS
    <3>2. (amount + 1) * whole = amount * whole + whole
      OBVIOUS
    <3>3. amount * whole \in Nat /\ given * whole \in Nat /\ (amount + 1) * whole \in Nat
      OBVIOUS
    <3>4. QED BY <2>6, <3>1, <3>2, <3>3
<1>6. cost[LastAccount] = amount - given /\ \A p \in others : cost[p] = parts[p]
  BY <1>1, <1>3, <1>4
<1>7. \A p \in R!Parties \ S : cost[p] = 0
  BY <1>3
<1>8. cost \in [R!Parties -> Nat]
  <2>1. rest \in Nat
    BY <1>4, <1>5
  <2> HIDE DEF rest, others
  <2>2. \A p \in R!Parties : (IF p \notin S THEN 0 ELSE IF p \in others THEN parts[p] ELSE rest) \in Nat
    BY <1>2, <2>1
  <2>3. QED BY <1>3, <2>2
<1>9. SumFunctionOnSet(cost, R!Parties) = amount
  <2>1. SumFunctionOnSet(cost, R!Parties \ S) = 0
    BY <1>1, <1>7, SumZero
  <2>2. \A p \in R!Parties : cost[p] \in Int
    BY <1>8
  <2>3. SumFunctionOnSet(cost, R!Parties)
          = SumFunctionOnSet(cost, S) + SumFunctionOnSet(cost, R!Parties \ S)
    <3> DEFINE B == R!Parties \ S
    <3>1. S \cap B = {} /\ \A p \in S \cup B : cost[p] \in Int
      BY <1>1, <2>2
    <3>2. IsFiniteSet(B) /\ S \cup B = R!Parties
      BY <1>1
    <3> HIDE DEF B
    <3>3. SumFunctionOnSet(cost, S \cup B) = SumFunctionOnSet(cost, S) + SumFunctionOnSet(cost, B)
      BY <1>1, <3>1, <3>2, SumUnion
    <3>4. QED BY <3>2, <3>3 DEF B
  <2>5. SumFunctionOnSet(cost, S) = cost[LastAccount] + SumFunctionOnSet(cost, S \ {LastAccount})
    BY <1>1, <2>2, SumRemove
  <2>6. SumFunctionOnSet(cost, S \ {LastAccount}) = given
    BY <1>1, <1>4, <1>6, SumSame
  <2>7. QED BY <1>4, <1>6, <2>1, <2>3, <2>5, <2>6
<1>10. \A p \in R!Parties \ {LastAccount} : cost[p] * whole <= amount * R!Share[p]
  <2> SUFFICES ASSUME NEW p \in R!Parties \ {LastAccount}
               PROVE  cost[p] * whole <= amount * R!Share[p]
    OBVIOUS
  <2>1. R!Share[p] \in Nat
    BY Whole
  <2>2. CASE p \in S
    <3>1. p \in others
      BY <2>2
    <3>2. cost[p] = parts[p] /\ parts[p] * whole <= amount * R!Share[p]
      BY <1>2, <1>6, <3>1
    <3>3. QED BY <3>2
  <2>3. CASE p \notin S
    <3>1. cost[p] = 0
      BY <1>7, <2>3
    <3>2. amount * R!Share[p] \in Nat
      BY <2>1
    <3>3. QED BY <3>1, <3>2
  <2>4. QED BY <2>2, <2>3
<1>11. QED
  BY <1>8, <1>9, <1>10 DEF cost

\* The same for each of the three values of coveredBy.
LEMMA CostAddsUp ==
  ASSUME NEW j \in R!Jobs, R!AmountsAssumption,
         j.coveredBy = "CONNECTED_ACCOUNT" => R!SplitSum > 0
  PROVE  /\ R!Cost(j) \in [R!Parties -> Nat]
         /\ SumFunctionOnSet(R!Cost(j), R!Parties) = j.amount
         /\ j.coveredBy = "SPLIT" =>
              \A p \in R!Parties \ {LastAccount} : R!Cost(j)[p] * R!Charge <= j.amount * R!Share[p]
<1>1. j.amount \in Nat /\ j.coveredBy \in R!CoveredBy
  BY DEF R!Jobs, R!AmountsAssumption
<1>2. CASE j.coveredBy = "PLATFORM"
  <2> DEFINE cost == R!Cost(j)
  <2>1. cost = [p \in R!Parties |-> IF p = 0 THEN j.amount ELSE 0]
    BY <1>2 DEF R!Cost
  <2> HIDE DEF cost
  <2>2. SumFunctionOnSet(cost, R!Parties) = cost[0] + SumFunctionOnSet(cost, R!Parties \ {0})
    <3>1. 0 \in R!Parties /\ \A x \in R!Parties : cost[x] \in Int
      BY <1>1, <2>1, Whole
    <3>2. IsFiniteSet(R!Parties)
      BY Whole
    <3>3. QED BY ONLY <3>1, <3>2, SumRemove
  <2>3. SumFunctionOnSet(cost, R!Parties \ {0}) = 0
    <3>1. \A x \in R!Parties \ {0} : cost[x] = 0
      BY <2>1
    <3>2. IsFiniteSet(R!Parties \ {0})
      BY Whole, FS_RemoveElement
    <3>3. QED BY <3>1, <3>2, SumZero
  <2>4. cost[0] = j.amount
    BY <2>1, Whole
  <2>5. QED BY <1>1, <1>2, <2>1, <2>2, <2>3, <2>4 DEF cost
<1>3. CASE j.coveredBy = "CONNECTED_ACCOUNT"
  <2>1. R!Cost(j) = R!Allocate(j.amount, R!Accounts, R!SplitSum)
    BY <1>3 DEF R!Cost, R!ConnectedCost
  <2>2. R!SplitSum \in Nat \ {0}
    BY <1>3, Whole
  <2>3. LastAccount \in R!Accounts
    <3>1. R!Accounts # {}
      <4> SUFFICES ASSUME R!Accounts = {} PROVE FALSE
        OBVIOUS
      <4>1. R!SplitSum = 0
        BY Whole, SumEmpty
      <4>2. QED BY <2>2, <4>1
    <3>2. QED BY <3>1, Whole
  <2>4. R!Accounts \in SUBSET R!Parties
    BY Whole
  <2>5. PICK n \in Nat : n = j.amount
    BY <1>1
  <2>6. R!SplitSum = SumFunctionOnSet(R!Share, R!Accounts)
    BY Whole
  <2> DEFINE cost == R!Allocate(n, R!Accounts, R!SplitSum)
  <2>7. cost \in [R!Parties -> Nat] /\ SumFunctionOnSet(cost, R!Parties) = n
    BY <2>2, <2>3, <2>4, <2>6, AllocationAddsUp
  <2> HIDE DEF cost
  <2>8. R!Cost(j) = cost
    BY <2>1, <2>5 DEF cost
  <2>9. QED BY <1>3, <2>5, <2>7, <2>8
<1>4. CASE j.coveredBy = "SPLIT"
  <2>1. CASE R!Accounts = {}
    <3>1. R!Parties = {0} /\ LastAccount = 0
      BY <2>1, Whole
    <3>2. R!Cost(j) = [p \in R!Parties |-> j.amount]
      BY <1>4, <2>1 DEF R!Cost, R!SplitCost
    <3> DEFINE cost == R!Cost(j)
    <3>3. PICK n \in Nat : n = j.amount
      BY <1>1
    <3>4. cost = [p \in R!Parties |-> n]
      BY <3>2, <3>3
    <3> HIDE DEF cost
    <3>5. cost \in [R!Parties -> Nat]
      BY <3>4
    <3>6. cost[0] = n
      BY <3>1, <3>4
    <3>7. SumFunctionOnSet(cost, {0}) = n
      BY <3>6, SumSingleton
    <3>8. QED BY <3>1, <3>3, <3>5, <3>7 DEF cost
  <2>2. CASE R!Accounts # {}
    <3>1. R!Cost(j) = R!Allocate(j.amount, R!Parties, R!Charge)
      BY <1>4, <2>2 DEF R!Cost, R!SplitCost
    <3>2. R!Charge \in Nat \ {0} /\ LastAccount \in R!Parties /\ R!Parties \in SUBSET R!Parties
      BY <2>2, Whole
    <3>3. PICK n \in Nat : n = j.amount
      BY <1>1
    <3>4. R!Charge = SumFunctionOnSet(R!Share, R!Parties)
      BY Whole
    <3> DEFINE cost == R!Allocate(n, R!Parties, R!Charge)
    <3>5. /\ cost \in [R!Parties -> Nat] /\ SumFunctionOnSet(cost, R!Parties) = n
          /\ \A p \in R!Parties \ {LastAccount} : cost[p] * R!Charge <= n * R!Share[p]
      BY <3>2, <3>4, AllocationAddsUp
    <3> HIDE DEF cost
    <3>6. R!Cost(j) = cost
      BY <3>1, <3>3 DEF cost
    <3>7. QED BY <3>3, <3>5, <3>6
  <2>3. QED BY <2>1, <2>2
<1>5. QED BY <1>1, <1>2, <1>3, <1>4 DEF R!CoveredBy

\* There is no refund at first.
LEMMA RefundInvInit == R!Init => RefundInv
<1> SUFFICES ASSUME R!Init PROVE RefundInv
  OBVIOUS
<1>1. refunds \in Seq(RefundRows) /\ DOMAIN refunds = {}
  BY DEF R!Init
<1>2. QED BY <1>1 DEF R!Init, RefundInv, R!OneRefundPerKey

\* The amounts of the first n refunds add up one by one.
LEMMA RefundedIs ==
  ASSUME NEW n \in Nat, refunds \in Seq(RefundRows), n <= Len(refunds)
  PROVE  /\ SumFunctionOnSet([j \in 1..n |-> refunds[j].amount], 1..n) \in Nat
         /\ n > 0 => SumFunctionOnSet([j \in 1..n |-> refunds[j].amount], 1..n)
                       = SumFunctionOnSet([j \in 1..(n - 1) |-> refunds[j].amount], 1..(n - 1))
                           + refunds[n].amount
<1> DEFINE f == [j \in 1..n |-> refunds[j].amount]
           g == [j \in 1..(n - 1) |-> refunds[j].amount]
<1>1. \A j \in 1..n : f[j] \in Nat /\ f[j] = refunds[j].amount
  <2>1. \A j \in 1..n : refunds[j] \in RefundRows
    OBVIOUS
  <2>2. QED BY <2>1 DEF RefundRows
<1>2. IsFiniteSet(1..n) /\ IsFiniteSet(1..(n - 1))
  BY FS_Interval
<1>3. \A j \in 1..(n - 1) : f[j] = g[j]
  OBVIOUS
<1> HIDE DEF f, g
<1>4. SumFunctionOnSet(f, 1..n) \in Nat
  BY <1>1, <1>2, SumNat
<1>5. ASSUME n > 0
      PROVE  SumFunctionOnSet(f, 1..n) = SumFunctionOnSet(g, 1..(n - 1)) + refunds[n].amount
  <2>1. SumFunctionOnSet(f, 1..n) = SumFunctionOnSet(f, 1..(n - 1)) + f[n]
    BY <1>1, <1>5, SumLast
  <2>2. SumFunctionOnSet(f, 1..(n - 1)) = SumFunctionOnSet(g, 1..(n - 1))
    BY <1>2, <1>3, SumSame
  <2>3. f[n] = refunds[n].amount
    BY <1>1, <1>5
  <2>4. QED BY <2>1, <2>2, <2>3
<1>6. QED BY <1>4, <1>5 DEF f, g

\* What has been refunded is a natural number.
LEMMA RefundedNat ==
  ASSUME refunds \in Seq(RefundRows)
  PROVE  R!Refunded \in Nat
<1>1. PICK n \in Nat : n <= Len(refunds) /\ DOMAIN refunds = 1..n
  OBVIOUS
<1>2. R!Refunded = SumFunctionOnSet([j \in 1..n |-> refunds[j].amount], 1..n)
  BY <1>1, RefundLibrary DEF R!Refunded
<1>3. SumFunctionOnSet([j \in 1..n |-> refunds[j].amount], 1..n) \in Nat
  BY <1>1, RefundedIs
<1>4. QED BY <1>2, <1>3

\* The transaction writes a fair row under a key no row has.
LEMMA InsertKeepsRows ==
  ASSUME RefundInv, NEW r \in Requests, R!Insert(r)
  PROVE  /\ refunds' \in Seq(RefundRows)
         /\ \A i \in DOMAIN refunds' : FairRow(refunds'[i])
         /\ R!OneRefundPerKey'
<1> DEFINE j == refundJob[r]
           row == [key |-> j.key, amount |-> j.amount, seen |-> j.seen,
                   coveredBy |-> j.coveredBy, debits |-> R!Cost(j)]
<1>1. /\ j \in R!Jobs /\ j # NoJob /\ j.step = "commit"
      /\ refunds' = Append(refunds, row)
      /\ j.key \notin R!KeysRefunded
  BY DEF RefundInv, R!Insert
<1>2. j.seen + j.amount <= R!Charge /\ (j.coveredBy = "CONNECTED_ACCOUNT" => R!SplitSum > 0)
  BY <1>1 DEF RefundInv
<1>3. R!AmountsAssumption
  BY RefundAssumption
<1>4. /\ R!Cost(j) \in [R!Parties -> Nat]
      /\ SumFunctionOnSet(R!Cost(j), R!Parties) = j.amount
      /\ j.coveredBy = "SPLIT" =>
           \A p \in R!Parties \ {LastAccount} : R!Cost(j)[p] * R!Charge <= j.amount * R!Share[p]
  BY <1>1, <1>2, <1>3, CostAddsUp
<1>5. /\ j.key \in RefundKeys /\ j.amount \in Nat /\ j.seen \in Nat
      /\ j.coveredBy \in R!CoveredBy
  BY <1>1, <1>3 DEF R!Jobs, R!AmountsAssumption
<1>6. row \in RefundRows
  BY <1>4, <1>5 DEF RefundRows
<1>7. FairRow(row)
  BY <1>2, <1>4 DEF FairRow
<1>8. row.key \notin R!KeysRefunded
  BY <1>1
<1> HIDE DEF row, j
<1>9. refunds \in Seq(RefundRows)
  BY DEF RefundInv
<1>10. /\ refunds' \in Seq(RefundRows) /\ Len(refunds') = Len(refunds) + 1
       /\ refunds'[Len(refunds) + 1] = row
       /\ \A i \in 1..Len(refunds) : refunds'[i] = refunds[i]
  BY <1>1, <1>6, <1>9
<1>11. DOMAIN refunds = 1..Len(refunds) /\ DOMAIN refunds' = 1..(Len(refunds) + 1)
       /\ Len(refunds) \in Nat
  BY <1>9, <1>10
<1>12. \A i \in DOMAIN refunds' : FairRow(refunds'[i])
  BY <1>7, <1>10, <1>11 DEF RefundInv
<1>13. R!OneRefundPerKey'
  <2>1. \A i \in 1..Len(refunds) : refunds[i].key # row.key
    BY <1>8, <1>11 DEF R!KeysRefunded
  <2>2. \A i, k \in 1..Len(refunds) : refunds[i].key = refunds[k].key => i = k
    BY <1>11 DEF RefundInv, R!OneRefundPerKey
  <2>3. QED BY <1>10, <1>11, <2>1, <2>2 DEF R!OneRefundPerKey
<1>14. QED BY <1>10, <1>12, <1>13

\* Every step of a call, and an expired key.
LEMMA RefundInvNext == RefundInv /\ [R!Next]_refund => RefundInv'
<1> SUFFICES ASSUME RefundInv, [R!Next]_refund PROVE RefundInv'
  OBVIOUS
<1> USE DEF refund
<1>1. CASE UNCHANGED refund
  BY <1>1 DEF RefundInv, R!OneRefundPerKey
<1>2. ASSUME NEW r \in Requests, NEW k \in RefundKeys, NEW amount \in RefundAmounts,
             NEW c \in R!CoveredBy, R!Start(r, k, amount, c)
      PROVE  RefundInv'
  <2> DEFINE j == [step |-> "validate", key |-> k, amount |-> amount,
                   coveredBy |-> c, seen |-> 0]
  <2>1. j \in R!Jobs /\ j.step # "commit"
    BY DEF R!Jobs
  <2>2. /\ refundJob' = [refundJob EXCEPT ![r] = j]
        /\ refundKey' = refundKey \cup {k} /\ UNCHANGED refunds
    BY <1>2 DEF R!Start
  <2> HIDE DEF j
  <2>3. QED BY <2>1, <2>2 DEF RefundInv, R!OneRefundPerKey
<1>3. ASSUME NEW r \in Requests, R!Validate(r) PROVE RefundInv'
  <2> DEFINE j == refundJob[r]
  <2>1. PICK c \in R!Jobs : /\ c = [j EXCEPT !.step = "commit", !.seen = R!Refunded]
                            /\ c.step = "commit" /\ c.seen = R!Refunded
                            /\ c.amount = j.amount /\ c.coveredBy = j.coveredBy
    <3>1. j \in R!Jobs
      BY <1>3 DEF R!Validate, RefundInv
    <3>2. PICK n \in Nat : n = R!Refunded
      BY RefundedNat DEF RefundInv
    <3> DEFINE c == [j EXCEPT !.step = "commit", !.seen = n]
    <3>3. c \in R!Jobs /\ c.step = "commit" /\ c.seen = n
          /\ c.amount = j.amount /\ c.coveredBy = j.coveredBy
      BY <3>1 DEF R!Jobs
    <3>4. QED BY <3>2, <3>3
  <2>2. refundJob' = [refundJob EXCEPT ![r] = c] /\ UNCHANGED <<refundKey, refunds>>
    BY <1>3, <2>1 DEF R!Validate
  <2>3. /\ c.seen + c.amount <= R!Charge
        /\ c.coveredBy = "CONNECTED_ACCOUNT" => R!SplitSum > 0
    BY <1>3, <2>1 DEF R!Validate, R!Eligible
  <2>4. QED BY <2>2, <2>3 DEF RefundInv, R!OneRefundPerKey
<1>4. ASSUME NEW r \in Requests, R!Commit(r) \/ R!ReplyLost(r) PROVE RefundInv'
  <2>1. R!Insert(r)
    BY <1>4 DEF R!Commit, R!ReplyLost
  <2>2. refundJob' = [refundJob EXCEPT ![r] = NoJob] /\ refundKey' \in SUBSET refundKey
    BY <1>4 DEF R!Commit, R!ReplyLost, R!Done
  <2>3. QED BY <2>1, <2>2, InsertKeepsRows DEF RefundInv
<1>5. ASSUME NEW r \in Requests, R!Duplicate(r) \/ R!Fail(r) \/ R!Crash(r) PROVE RefundInv'
  <2>1. /\ refundJob' = [refundJob EXCEPT ![r] = NoJob] /\ refundKey' \in SUBSET refundKey
        /\ UNCHANGED refunds
    BY <1>5 DEF R!Duplicate, R!Fail, R!Crash, R!Done
  <2>2. QED BY <2>1 DEF RefundInv, R!OneRefundPerKey
<1>6. ASSUME NEW k \in RefundKeys, R!KeyExpires(k) PROVE RefundInv'
  BY <1>6 DEF R!KeyExpires, RefundInv, R!OneRefundPerKey
<1>7. QED
  BY <1>1, <1>2, <1>3, <1>4, <1>5, <1>6 DEF R!Next

\* The invariant is stronger than the two properties.
LEMMA RefundInvMeans == RefundInv => RefundsAddUp /\ RefundsAreBounded
<1> SUFFICES ASSUME RefundInv PROVE RefundsAddUp /\ RefundsAreBounded
  OBVIOUS
<1>1. refunds \in Seq(RefundRows) /\ \A i \in DOMAIN refunds : refunds[i] \in RefundRows /\ FairRow(refunds[i])
  BY DEF RefundInv
<1>2. R!DebitsMatchCredit
  <2> SUFFICES ASSUME NEW i \in DOMAIN refunds
               PROVE  /\ R!Sum(refunds[i].debits, R!Parties) = refunds[i].amount
                      /\ \A p \in R!Parties : refunds[i].debits[p] >= 0
    BY DEF R!DebitsMatchCredit
  <2>1. R!Sum(refunds[i].debits, R!Parties) = refunds[i].amount
    BY <1>1, RefundLibrary DEF FairRow
  <2>2. refunds[i].debits \in [R!Parties -> Nat]
    BY <1>1 DEF RefundRows
  <2>3. QED BY <2>1, <2>2
<1>3. R!OthersWithinShare
  <2> DEFINE split == {i \in DOMAIN refunds : refunds[i].coveredBy = "SPLIT"}
             from(S) == [i \in split |-> R!Sum(refunds[i].debits, S)]
  <2> SUFFICES ASSUME NEW p \in R!Parties \ {LastAccount}
               PROVE  R!SplitPaid({p}) * R!Charge <= R!SplitPaid(R!Parties) * R!Share[p]
    BY DEF R!OthersWithinShare, LastAccount
  <2>1. IsFiniteSet(split)
    <3>1. PICK n \in Nat : DOMAIN refunds = 1..n
      BY <1>1
    <3>2. QED BY <3>1, FS_Interval, FS_Subset
  <2>2. PICK f : f = from({p})
    OBVIOUS
  <2>3. PICK g : g = from(R!Parties)
    OBVIOUS
  <2>4. R!SplitPaid({p}) = SumFunctionOnSet(f, split) /\ R!SplitPaid(R!Parties) = SumFunctionOnSet(g, split)
    BY <2>2, <2>3, RefundLibrary DEF R!SplitPaid
  <2>5. R!Charge \in Nat /\ R!Share[p] \in Nat
    BY Whole
  <2>6. ASSUME NEW i \in split
        PROVE  f[i] \in Int /\ g[i] \in Int /\ f[i] * R!Charge <= R!Share[p] * g[i]
    <3> DEFINE debits == refunds[i].debits
    <3>1. /\ debits \in [R!Parties -> Nat] /\ refunds[i].amount \in Nat
          /\ SumFunctionOnSet(debits, R!Parties) = refunds[i].amount
          /\ debits[p] * R!Charge <= refunds[i].amount * R!Share[p]
      BY <1>1 DEF RefundRows, FairRow
    <3> HIDE DEF debits
    <3>2. SumFunctionOnSet(debits, {p}) = debits[p]
      BY <3>1, SumSingleton
    <3>3. f[i] = SumFunctionOnSet(debits, {p}) /\ g[i] = SumFunctionOnSet(debits, R!Parties)
      BY <2>2, <2>3, RefundLibrary DEF debits
    <3>4. PICK a \in Nat, m \in Nat, s \in Nat :
            a = debits[p] /\ m = refunds[i].amount /\ s = R!Share[p]
      BY <2>5, <3>1
    <3>5. a * R!Charge <= m * s
      BY <3>1, <3>4
    <3>6. m * s = s * m
      OBVIOUS
    <3>7. QED BY <3>1, <3>2, <3>3, <3>4, <3>5, <3>6
  <2> HIDE DEF split
  <2>7. PICK F \in Int, G \in Int : F = SumFunctionOnSet(f, split) /\ G = SumFunctionOnSet(g, split)
    BY <2>1, <2>6, SumType
  <2>8. PICK s \in Int, c \in Int : s = R!Share[p] /\ c = R!Charge
    BY <2>5
  <2>9. SumFunctionOnSet(f, split) * c <= s * SumFunctionOnSet(g, split)
    BY <2>1, <2>6, <2>8, SumInProportion
  <2>10. F * c <= s * G
    BY <2>7, <2>9
  <2>11. s * G = G * s
    OBVIOUS
  <2>12. F * c <= G * s
    BY <2>10, <2>11
  <2>13. QED BY <2>4, <2>7, <2>8, <2>12
<1>4. R!ExcessOnlyByStaleSum
  <2> SUFFICES ASSUME \A i \in DOMAIN refunds : refunds[i].seen = R!RefundedBefore(i)
               PROVE  R!Refunded <= R!Charge
    BY RefundedNat, Whole, <1>1 DEF R!ExcessOnlyByStaleSum
  <2>1. PICK n \in Nat : n = Len(refunds) /\ DOMAIN refunds = 1..n
    BY <1>1
  <2> DEFINE upTo(m) == SumFunctionOnSet([j \in 1..m |-> refunds[j].amount], 1..m)
  <2>2. R!Refunded = upTo(n)
    BY <2>1, RefundLibrary DEF R!Refunded
  <2>3. CASE n = 0
    <3>1. 1..n = {}
      BY <2>3
    <3>2. upTo(n) = 0
      BY <3>1, SumEmpty
    <3>3. QED BY <2>2, <3>2, Whole
  <2>4. CASE n > 0
    <3>1. upTo(n) = upTo(n - 1) + refunds[n].amount
      BY <1>1, <2>1, <2>4, RefundedIs
    <3>2. upTo(n - 1) = R!RefundedBefore(n)
      BY RefundLibrary DEF R!RefundedBefore
    <3>3. refunds[n].seen = R!RefundedBefore(n) /\ refunds[n].seen + refunds[n].amount <= R!Charge
      BY <1>1, <2>1, <2>4 DEF FairRow
    <3> HIDE DEF upTo
    <3>4. QED BY <2>2, <3>1, <3>2, <3>3
  <2>5. QED BY <2>1, <2>3, <2>4
<1>5. QED
  BY <1>2, <1>3, <1>4
  DEF RefundInv, RefundsAddUp, R!RefundsAddUp, RefundsAreBounded, R!RefundsAreBounded

-----------------------------------------------------------------------------
(* Charges and payouts of one account.                                     *)

EntryRows == [ref : {"deposit", "pout", "void", "credit"}, id : Nat, amount : Int]
PayoutRows == [key : PayoutKeys, amount : PayoutAmounts,
               status : {"PENDING", "PAID", "FAILED"}, from : Nat]
ChargeRows == [key : ChargeKeys \cup {NoKey}, amount : ChargeAmounts,
               split : ChargeAmounts \cup Splits, scored : BOOLEAN, from : Nat]

MarketTypes ==
  /\ payoutKey \in SUBSET PayoutKeys
  /\ payer \in Int /\ balance \in Int /\ lost \in Nat
  /\ ledger \in Seq(EntryRows)
  /\ payouts \in Seq(PayoutRows)
  /\ charges \in Seq(ChargeRows)
  /\ job \in [Requests -> P!Jobs \cup C!Jobs \cup {NoJob}]
  /\ admin \in [Admins -> Nat] /\ \A a \in Admins : admin[a] <= Len(payouts)

\* The instances' library operators are those of the library.
LEMMA MarketLibrary ==
  /\ \A f : P!SumFunction(f) = SumFunctionOnSet(f, DOMAIN f)
  /\ \A f : C!SumFunction(f) = SumFunctionOnSet(f, DOMAIN f)
  /\ \A S : P!Cardinality(S) = Cardinality(S)
  /\ \A S : C!Cardinality(S) = Cardinality(S)
<1>1. ASSUME NEW f
      PROVE  /\ P!SumFunction(f) = SumFunctionOnSet(f, DOMAIN f)
             /\ C!SumFunction(f) = SumFunctionOnSet(f, DOMAIN f)
  BY DEF P!SumFunction, C!SumFunction, SumFunctionOnSet, P!SumFunctionOnSet, C!SumFunctionOnSet,
         FoldFunctionOnSet, P!FoldFunctionOnSet, C!FoldFunctionOnSet,
         MapThenFoldSet, P!MapThenFoldSet, C!MapThenFoldSet
<1>2. ASSUME NEW S PROVE P!Cardinality(S) = Cardinality(S) /\ C!Cardinality(S) = Cardinality(S)
  BY DEF Cardinality, P!Cardinality, C!Cardinality
<1>3. QED BY <1>1, <1>2

\* What charges paid the account, and what payouts that did not fail took.
CreditedBy(cs) ==
  SumFunctionOnSet([i \in 1..Len(cs) |-> cs[i].split], 1..Len(cs))

TakenBy(ps) ==
  SumFunctionOnSet([i \in 1..Len(ps) |-> IF ps[i].status = "FAILED" THEN 0 ELSE ps[i].amount],
                   1..Len(ps))

\* The assumptions on the amounts.
LEMMA AmountsAre ==
  /\ PayoutAmounts \subseteq Nat \ {0} /\ ChargeAmounts \subseteq Nat \ {0} /\ Splits \subseteq Nat
  /\ Funds \in Nat /\ PayerFunds \in Nat /\ NoJob \notin P!Jobs \cup C!Jobs
  /\ NoKey \notin ChargeKeys /\ MaxLost \in Nat /\ MaxRows \in Nat
BY PayoutAssumption, ChargeAssumption DEF P!Parameters, C!Parameters

LEMMA PayoutRowIs ==
  \A p \in PayoutRows : /\ p.amount \in Nat \ {0} /\ p.from \in Nat
                        /\ p.amount \in PayoutAmounts /\ p.key \in PayoutKeys
BY AmountsAre DEF PayoutRows

\* A value more at the end adds it to the sum.
LEMMA SumAppended ==
  ASSUME NEW n \in Nat, NEW f, NEW g, \A i \in 1..n : g[i] = f[i],
         \A i \in 1..(n + 1) : g[i] \in Int
  PROVE  SumFunctionOnSet(g, 1..(n + 1)) = SumFunctionOnSet(f, 1..n) + g[n + 1]
<1>1. PICK m \in Nat \ {0} : m = n + 1 /\ m - 1 = n
  OBVIOUS
<1>2. SumFunctionOnSet(g, 1..m) = SumFunctionOnSet(g, 1..(m - 1)) + g[m]
  BY <1>1, SumLast
<1>3. IsFiniteSet(1..n)
  BY FS_Interval
<1>4. SumFunctionOnSet(g, 1..n) = SumFunctionOnSet(f, 1..n)
  BY <1>3, SumSame
<1>5. QED BY <1>1, <1>2, <1>4

\* A charge booked adds its split to what is credited.
LEMMA CreditedIs ==
  ASSUME NEW cs \in Seq(ChargeRows)
  PROVE  /\ C!SumFunction([i \in DOMAIN cs |-> cs[i].split]) = CreditedBy(cs)
         /\ CreditedBy(cs) \in Nat
         /\ \A c \in ChargeRows : CreditedBy(Append(cs, c)) = CreditedBy(cs) + c.split
<1>1. PICK n \in Nat : n = Len(cs) /\ DOMAIN cs = 1..n
  OBVIOUS
<1>2. \A c \in ChargeRows : c.split \in Nat
  BY AmountsAre DEF ChargeRows
<1> DEFINE f == [i \in 1..n |-> cs[i].split]
<1>3. CreditedBy(cs) = SumFunctionOnSet(f, 1..n)
  BY <1>1 DEF CreditedBy
<1>4. C!SumFunction([i \in DOMAIN cs |-> cs[i].split]) = CreditedBy(cs)
  BY <1>1, <1>3, MarketLibrary
<1>5. \A i \in 1..n : f[i] \in Nat
  BY <1>1, <1>2
<1>6. CreditedBy(cs) \in Nat
  <2> HIDE DEF f
  <2>1. IsFiniteSet(1..n)
    BY FS_Interval
  <2>2. QED BY <1>3, <1>5, <2>1, SumNat
<1>7. ASSUME NEW c \in ChargeRows
      PROVE  CreditedBy(Append(cs, c)) = CreditedBy(cs) + c.split
  <2> DEFINE g == [i \in 1..(n + 1) |-> Append(cs, c)[i].split]
  <2>1. Len(Append(cs, c)) = n + 1
    BY <1>1
  <2>2. CreditedBy(Append(cs, c)) = SumFunctionOnSet(g, 1..(n + 1))
    BY <2>1 DEF CreditedBy
  <2>3. (\A i \in 1..n : g[i] = f[i]) /\ g[n + 1] = c.split
    BY <1>1
  <2> HIDE DEF f, g
  <2>4. \A i \in 1..(n + 1) : g[i] \in Int
    <3>1. c.split \in Nat
      BY <1>2
    <3>2. \A i \in 1..(n + 1) : i \in 1..n \/ i = n + 1
      OBVIOUS
    <3>3. QED BY <1>5, <2>3, <3>1, <3>2
  <2>5. SumFunctionOnSet(g, 1..(n + 1)) = SumFunctionOnSet(f, 1..n) + g[n + 1]
    BY <2>3, <2>4, SumAppended
  <2>6. QED BY <1>3, <2>2, <2>3, <2>5
<1>8. QED BY <1>4, <1>6, <1>7

NotFailed(ps) == {i \in DOMAIN ps : ps[i].status # "FAILED"}

\* Summing over the payouts that did not fail is summing over all, those as 0.
LEMMA TakenIs ==
  ASSUME NEW ps \in Seq(PayoutRows)
  PROVE  /\ P!SumFunction([i \in NotFailed(ps) |-> ps[i].amount]) = TakenBy(ps)
         /\ TakenBy(ps) \in Nat
<1>1. PICK n \in Nat : n = Len(ps) /\ DOMAIN ps = 1..n
  OBVIOUS
<1> DEFINE f == [i \in 1..n |-> IF ps[i].status = "FAILED" THEN 0 ELSE ps[i].amount]
           out == NotFailed(ps)
           h == [i \in out |-> ps[i].amount]
           failedOnes == (1..n) \ out
<1>2. TakenBy(ps) = SumFunctionOnSet(f, 1..n)
  BY <1>1 DEF TakenBy
<1>3. \A i \in 1..n : f[i] \in Nat
  <2>1. \A i \in 1..n : ps[i] \in PayoutRows
    BY <1>1
  <2>2. QED BY <2>1, AmountsAre DEF PayoutRows
<1>4. (\A i \in out : h[i] = f[i]) /\ (\A i \in failedOnes : f[i] = 0)
  BY <1>1 DEF NotFailed
<1>5. /\ IsFiniteSet(1..n) /\ IsFiniteSet(out) /\ IsFiniteSet(failedOnes)
      /\ out \cup failedOnes = 1..n /\ out \cap failedOnes = {}
  <2>1. IsFiniteSet(1..n)
    BY FS_Interval
  <2>2. out \in SUBSET (1..n)
    BY <1>1 DEF NotFailed
  <2>3. QED BY <2>1, <2>2, FS_Subset
<1>6. P!SumFunction(h) = SumFunctionOnSet(h, out)
  <2>1. DOMAIN h = out
    OBVIOUS
  <2>2. QED BY <2>1, MarketLibrary
<1> HIDE DEF f, h, failedOnes, out
<1>7. SumFunctionOnSet(h, out) = SumFunctionOnSet(f, out)
  BY <1>4, <1>5, SumSame
<1>8. SumFunctionOnSet(f, failedOnes) = 0
  BY <1>4, <1>5, SumZero
<1>9. SumFunctionOnSet(f, 1..n)
        = SumFunctionOnSet(f, out) + SumFunctionOnSet(f, failedOnes)
  <2>1. PICK all : all = 1..n
    OBVIOUS
  <2>2. out \cup failedOnes = all /\ \A i \in all : f[i] \in Int
    BY <1>3, <1>5, <2>1
  <2>3. SumFunctionOnSet(f, out \cup failedOnes)
          = SumFunctionOnSet(f, out) + SumFunctionOnSet(f, failedOnes)
    BY <1>5, <2>2, SumUnion
  <2>4. SumFunctionOnSet(f, all) = SumFunctionOnSet(f, out) + SumFunctionOnSet(f, failedOnes)
    BY <2>2, <2>3
  <2>5. QED BY <2>1, <2>4
<1>10. SumFunctionOnSet(f, out) \in Nat
  BY <1>3, <1>5, SumNat
<1>11. P!SumFunction(h) = TakenBy(ps) /\ TakenBy(ps) \in Nat
  BY <1>2, <1>6, <1>7, <1>8, <1>9, <1>10
<1>12. QED BY <1>11 DEF h, out

\* A payout made adds its amount to what is taken.
LEMMA TakenAppended ==
  ASSUME NEW ps \in Seq(PayoutRows), NEW p \in PayoutRows, p.status = "PENDING"
  PROVE  TakenBy(Append(ps, p)) = TakenBy(ps) + p.amount
<1>1. PICK n \in Nat : n = Len(ps) /\ DOMAIN ps = 1..n
  OBVIOUS
<1> DEFINE qs == Append(ps, p)
           f == [i \in 1..n |-> IF ps[i].status = "FAILED" THEN 0 ELSE ps[i].amount]
           g == [i \in 1..(n + 1) |-> IF qs[i].status = "FAILED" THEN 0 ELSE qs[i].amount]
<1>2. Len(qs) = n + 1 /\ qs[n + 1] = p /\ \A i \in 1..n : qs[i] = ps[i]
  BY <1>1
<1>3. TakenBy(ps) = SumFunctionOnSet(f, 1..n) /\ TakenBy(qs) = SumFunctionOnSet(g, 1..(n + 1))
  BY <1>1, <1>2 DEF TakenBy
<1> HIDE DEF qs
<1>4. (\A i \in 1..n : g[i] = f[i]) /\ g[n + 1] = p.amount
  BY <1>2
<1>5. \A i \in 1..(n + 1) : g[i] \in Int
  <2>1. \A i \in 1..n : ps[i] \in PayoutRows
    BY <1>1
  <2>2. \A i \in 1..(n + 1) : qs[i] \in PayoutRows
    <3>1. \A i \in 1..(n + 1) : i \in 1..n \/ i = n + 1
      OBVIOUS
    <3>2. QED BY <1>2, <2>1, <3>1
  <2>3. QED BY <2>2, PayoutRowIs
<1> HIDE DEF f, g
<1>6. SumFunctionOnSet(g, 1..(n + 1)) = SumFunctionOnSet(f, 1..n) + g[n + 1]
  BY <1>4, <1>5, SumAppended
<1>7. QED BY <1>3, <1>4, <1>6 DEF qs

\* A payout settled as FAILED takes its amount off, as PAID nothing.
LEMMA TakenSettled ==
  ASSUME NEW ps \in Seq(PayoutRows), NEW i \in 1..Len(ps), ps[i].status = "PENDING",
         NEW new \in {"PAID", "FAILED"}
  PROVE  TakenBy([ps EXCEPT ![i].status = new])
           = TakenBy(ps) - (IF new = "FAILED" THEN ps[i].amount ELSE 0)
<1>1. PICK n \in Nat : n = Len(ps) /\ DOMAIN ps = 1..n
  OBVIOUS
<1> DEFINE qs == [ps EXCEPT ![i].status = new]
           f == [k \in 1..n |-> IF ps[k].status = "FAILED" THEN 0 ELSE ps[k].amount]
           g == [k \in 1..n |-> IF qs[k].status = "FAILED" THEN 0 ELSE qs[k].amount]
<1>2. ps[i] \in PayoutRows /\ \A k \in 1..n : ps[k] \in PayoutRows
  BY <1>1
<1>3. /\ Len(qs) = n /\ \A k \in 1..n : k # i => qs[k] = ps[k]
      /\ qs[i].status = new /\ qs[i].amount = ps[i].amount
  <2>1. Len(qs) = n /\ \A k \in 1..n : k # i => qs[k] = ps[k]
    BY <1>1
  <2>2. qs[i] = [ps[i] EXCEPT !.status = new]
    BY <1>1
  <2>3. QED BY <1>2, <2>1, <2>2 DEF PayoutRows
<1>4. TakenBy(ps) = SumFunctionOnSet(f, 1..n) /\ TakenBy(qs) = SumFunctionOnSet(g, 1..n)
  BY <1>1, <1>3 DEF TakenBy
<1> HIDE DEF qs
<1>5. i \in 1..n /\ \A k \in (1..n) \ {i} : f[k] = g[k]
  BY <1>1, <1>3
<1>6. \A k \in 1..n : ps[k].amount \in Int
  BY <1>2, PayoutRowIs
<1>7. \A k \in 1..n : f[k] \in Int
  BY <1>6
<1>8. f[i] = ps[i].amount /\ g[i] = IF new = "FAILED" THEN 0 ELSE ps[i].amount
  BY <1>3, <1>5
<1>9. \A k \in 1..n : f[k] \in Int /\ g[k] \in Int
  BY <1>5, <1>6, <1>7, <1>8
<1>10. IsFiniteSet(1..n)
  BY FS_Interval
<1> HIDE DEF f, g
<1>11. SumFunctionOnSet(g, 1..n) = SumFunctionOnSet(f, 1..n) - f[i] + g[i]
  <2>1. PICK all : all = 1..n
    OBVIOUS
  <2>2. PICK a : a = i
    OBVIOUS
  <2>3. /\ IsFiniteSet(all) /\ a \in all
        /\ \A k \in all : f[k] \in Int /\ g[k] \in Int
        /\ \A k \in all \ {a} : f[k] = g[k]
    BY <1>5, <1>9, <1>10, <2>1, <2>2
  <2>4. SumFunctionOnSet(g, all) = SumFunctionOnSet(f, all) - f[a] + g[a]
    BY ONLY <2>3, SumChanged
  <2>5. QED BY <2>1, <2>2, <2>4
<1>12. PICK F \in Int : F = SumFunctionOnSet(f, 1..n)
  BY <1>7, <1>10, SumType
<1>13. PICK a \in Int : a = ps[i].amount
  BY <1>5, <1>6
<1>14. TakenBy(qs) = F - a + (IF new = "FAILED" THEN 0 ELSE a)
  BY <1>4, <1>8, <1>11, <1>12, <1>13
<1>15. QED BY <1>4, <1>12, <1>13, <1>14 DEF qs

\* A call at a step of one service is a call of that service.
LEMMA Held ==
  ASSUME MarketTypes, NEW r \in Requests
  PROVE  /\ \A s : P!At(r, s) /\ s \in P!Steps => job[r] \in P!Jobs
         /\ \A s : C!At(r, s) /\ s \in C!Steps => job[r] \in C!Jobs
         /\ P!Mine(r) => job[r] \in P!Jobs
         /\ C!Mine(r) => job[r] \in C!Jobs
BY DEF MarketTypes, P!At, C!At, P!Mine, C!Mine, P!Jobs, C!Jobs, P!Steps, C!Steps

Quiet == UNCHANGED <<payer, balance, ledger, payouts, charges, lost>>

\* The steps of a payout call that touch no money.
QuietP(r) ==
  \/ \E k \in PayoutKeys, amount \in PayoutAmounts : P!Start(r, k, amount)
  \/ P!BalanceAccepted(r) \/ P!FraudAccepted(r) \/ P!Refuse(r) \/ P!Crash(r)

\* The steps of a charge call that touch no money.
QuietC(r) ==
  \/ \E amount \in ChargeAmounts :
       \/ \E k \in ChargeKeys, split \in Splits : C!StartIntegration(r, k, amount, split)
       \/ \E k \in ChargeKeys \cup {NoKey} : C!StartSplit(r, k, amount)
  \/ C!AccountsAccepted(r) \/ C!Scored(r) \/ C!Refuse(r) \/ C!Crash(r) \/ C!Duplicate(r)

\* Next by what its steps do to the money.
LEMMA MarketSteps ==
  Next =>
    \/ \E r \in Requests :
         \/ /\ QuietP(r) \/ P!Commit(r) \/ P!ReplyLost(r)
            /\ UNCHANGED <<chargeKey, payer, charges>>
         \/ /\ QuietC(r) \/ C!Commit(r) \/ C!ReplyLost(r)
            /\ UNCHANGED <<payoutKey, payouts, admin>>
    \/ \E a \in Admins :
         /\ \/ \E i \in DOMAIN payouts : P!ReadOpen(a, i)
            \/ P!SettleAborts(a) \/ P!SettlePaid(a) \/ P!SettleFailed(a)
         /\ UNCHANGED <<chargeKey, payer, charges>>
BY DEF Next, P!Next, C!Next, QuietP, QuietC

\* The rows at first.
LEMMA MarketTypesInit == Init => MarketTypes
<1> SUFFICES ASSUME Init PROVE MarketTypes
  OBVIOUS
<1>1. P!Entry("deposit", 1, Funds) \in EntryRows
  BY AmountsAre DEF P!Entry, EntryRows
<1>2. ledger \in Seq(EntryRows)
  BY <1>1 DEF Init, P!Init
<1>3. payouts \in Seq(PayoutRows) /\ charges \in Seq(ChargeRows)
  BY DEF Init, P!Init, C!Init
<1>4. QED
  BY <1>2, <1>3, AmountsAre DEF Init, P!Init, C!Init, MarketTypes

JobIsSet(r, Kinds) == \E x \in Kinds \cup {NoJob} : job' = [job EXCEPT ![r] = x]

\* A quiet step of a payout call sets its key and its job.
LEMMA QuietPType ==
  ASSUME MarketTypes, NEW r \in Requests, QuietP(r)
  PROVE  /\ payoutKey' \in SUBSET PayoutKeys
         /\ UNCHANGED <<balance, ledger, payouts, admin, lost>>
         /\ JobIsSet(r, P!Jobs)
<1>1. UNCHANGED <<balance, ledger, payouts, admin, lost>>
  BY DEF QuietP, P!Start, P!BalanceAccepted, P!FraudAccepted, P!Refuse, P!Crash, P!money
<1>2. ASSUME NEW k \in PayoutKeys, NEW amount \in PayoutAmounts, P!Start(r, k, amount)
      PROVE  /\ payoutKey' \in SUBSET PayoutKeys
             /\ JobIsSet(r, P!Jobs)
  <2>1. [step |-> "balance", key |-> k, amount |-> amount, from |-> 0] \in P!Jobs
    BY DEF P!Jobs, P!Steps
  <2>2. QED BY <1>2, <2>1 DEF P!Start, MarketTypes, JobIsSet
<1>3. ASSUME P!BalanceAccepted(r)
      PROVE  /\ payoutKey' \in SUBSET PayoutKeys
             /\ JobIsSet(r, P!Jobs)
  <2>1. job[r] \in P!Jobs
    BY <1>3, Held DEF P!BalanceAccepted, P!Steps
  <2>2. PICK n \in Nat : n = Len(ledger)
    BY DEF MarketTypes
  <2>3. [job[r] EXCEPT !.step = "fraud", !.from = n] \in P!Jobs
    BY <2>1 DEF P!Jobs, P!Steps
  <2>4. job' = [job EXCEPT ![r] = [job[r] EXCEPT !.step = "fraud", !.from = n]]
    BY <1>3, <2>2 DEF P!BalanceAccepted
  <2>5. payoutKey' \in SUBSET PayoutKeys
    BY <1>3 DEF P!BalanceAccepted, MarketTypes
  <2>6. QED BY <2>3, <2>4, <2>5 DEF JobIsSet
<1>4. ASSUME P!FraudAccepted(r)
      PROVE  /\ payoutKey' \in SUBSET PayoutKeys
             /\ JobIsSet(r, P!Jobs)
  <2>1. job[r] \in P!Jobs
    BY <1>4, Held DEF P!FraudAccepted, P!Steps
  <2>2. [job[r] EXCEPT !.step = "commit"] \in P!Jobs
    BY <2>1 DEF P!Jobs, P!Steps
  <2>3. job' = [job EXCEPT ![r] = [job[r] EXCEPT !.step = "commit"]]
    BY <1>4 DEF P!FraudAccepted, P!Goto
  <2>4. payoutKey' \in SUBSET PayoutKeys
    BY <1>4 DEF P!FraudAccepted, MarketTypes
  <2>5. QED BY <2>2, <2>3, <2>4 DEF JobIsSet
<1>5. ASSUME P!Refuse(r) \/ P!Crash(r)
      PROVE  /\ payoutKey' \in SUBSET PayoutKeys
             /\ JobIsSet(r, P!Jobs)
  BY <1>5 DEF P!Refuse, P!Crash, P!Done, MarketTypes, JobIsSet
<1>6. QED
  BY <1>1, <1>2, <1>3, <1>4, <1>5 DEF QuietP

\* A quiet step of a charge call sets its key and its job.
LEMMA QuietCType ==
  ASSUME MarketTypes, NEW r \in Requests, QuietC(r)
  PROVE  /\ chargeKey' \subseteq chargeKey \cup ChargeKeys
         /\ UNCHANGED <<payer, balance, ledger, charges, lost>>
         /\ JobIsSet(r, C!Jobs)
<1> USE DEF C!money
<1>1. /\ UNCHANGED <<payer, balance, ledger, charges, lost>>
      /\ chargeKey' \subseteq chargeKey \cup ChargeKeys
  BY DEF QuietC, C!StartIntegration, C!StartSplit, C!AccountsAccepted, C!Scored, C!Refuse,
         C!Crash, C!Duplicate
<1>2. ASSUME NEW amount \in ChargeAmounts, NEW k \in ChargeKeys, NEW split \in Splits,
             C!StartIntegration(r, k, amount, split)
      PROVE  JobIsSet(r, C!Jobs)
  <2>1. C!Call(k, amount, split, TRUE) \in C!Jobs
    BY DEF C!Jobs, C!Steps, C!Call
  <2>2. job' = [job EXCEPT ![r] = C!Call(k, amount, split, TRUE)]
    BY <1>2 DEF C!StartIntegration
  <2>3. QED BY <2>1, <2>2 DEF JobIsSet
<1>3. ASSUME NEW amount \in ChargeAmounts, NEW k \in ChargeKeys \cup {NoKey},
             C!StartSplit(r, k, amount)
      PROVE  JobIsSet(r, C!Jobs)
  <2>1. [C!Call(k, amount, amount, FALSE) EXCEPT !.step = "book"] \in C!Jobs
    BY DEF C!Jobs, C!Steps, C!Call
  <2>2. job' = [job EXCEPT ![r] = [C!Call(k, amount, amount, FALSE) EXCEPT !.step = "book"]]
    BY <1>3 DEF C!StartSplit
  <2>3. QED BY <2>1, <2>2 DEF JobIsSet
<1>4. ASSUME C!AccountsAccepted(r)
      PROVE  JobIsSet(r, C!Jobs)
  <2>1. job[r] \in C!Jobs
    BY <1>4, Held DEF C!AccountsAccepted, C!Steps
  <2>2. PICK n \in Nat : n = Len(charges)
    BY DEF MarketTypes
  <2>3. [job[r] EXCEPT !.step = "score", !.from = n] \in C!Jobs
    BY <2>1 DEF C!Jobs, C!Steps
  <2>4. job' = [job EXCEPT ![r] = [job[r] EXCEPT !.step = "score", !.from = n]]
    BY <1>4, <2>2 DEF C!AccountsAccepted
  <2>5. QED BY <2>3, <2>4 DEF JobIsSet
<1>5. ASSUME C!Scored(r)
      PROVE  JobIsSet(r, C!Jobs)
  <2>1. job[r] \in C!Jobs
    BY <1>5, Held DEF C!Scored, C!Steps
  <2>2. [job[r] EXCEPT !.step = "book"] \in C!Jobs
    BY <2>1 DEF C!Jobs, C!Steps
  <2>3. job' = [job EXCEPT ![r] = [job[r] EXCEPT !.step = "book"]]
    BY <1>5 DEF C!Scored
  <2>4. QED BY <2>2, <2>3 DEF JobIsSet
<1>6. ASSUME C!Refuse(r) \/ C!Crash(r) \/ C!Duplicate(r)
      PROVE  JobIsSet(r, C!Jobs)
  BY <1>6 DEF C!Refuse, C!Crash, C!Duplicate, C!Done, JobIsSet
<1>7. QED
  BY <1>1, <1>2, <1>3, <1>4, <1>5, <1>6 DEF QuietC

\* What createPayout's transaction writes.
PayoutRow(r) ==
  [key |-> job[r].key, amount |-> job[r].amount, status |-> "PENDING", from |-> job[r].from]
PayoutEntry(r) == P!Entry("pout", Len(payouts) + 1, -job[r].amount)

\* The transaction of createPayout, its reply lost or not.
LEMMA PaidOut ==
  ASSUME MarketTypes, NEW r \in Requests, P!Commit(r) \/ P!ReplyLost(r)
  PROVE  /\ job[r] \in P!Jobs /\ job[r] # NoJob /\ job[r].step = "commit"
         /\ PayoutRow(r) \in PayoutRows /\ PayoutEntry(r) \in EntryRows
         /\ payouts' = Append(payouts, PayoutRow(r))
         /\ ledger' = Append(ledger, PayoutEntry(r))
         /\ balance' = balance - job[r].amount
         /\ job' = [job EXCEPT ![r] = NoJob]
         /\ UNCHANGED admin
         /\ \/ UNCHANGED <<lost, payoutKey>>
            \/ lost' = lost + 1 /\ payoutKey' = payoutKey \ {job[r].key}
<1>1. P!Insert(r) /\ job' = [job EXCEPT ![r] = NoJob] /\ UNCHANGED admin
      /\ \/ UNCHANGED <<lost, payoutKey>>
         \/ lost' = lost + 1 /\ payoutKey' = payoutKey \ {job[r].key}
  BY DEF P!Commit, P!ReplyLost, P!Done
<1>2. job[r] \in P!Jobs /\ job[r] # NoJob /\ job[r].step = "commit"
  BY <1>1, Held DEF P!Insert, P!Steps, P!At
<1>3. PayoutRow(r) \in PayoutRows
  BY <1>2 DEF P!Jobs, PayoutRow, PayoutRows
<1>4. PayoutEntry(r) \in EntryRows
  <2>1. job[r].amount \in Nat
    BY <1>2, AmountsAre DEF P!Jobs
  <2>2. Len(payouts) + 1 \in Nat
    BY DEF MarketTypes
  <2>3. QED BY <2>1, <2>2 DEF PayoutEntry, P!Entry, EntryRows
<1>5. QED
  BY <1>1, <1>2, <1>3, <1>4 DEF P!Insert, PayoutRow, PayoutEntry

\* What the transaction of a charge writes.
ChargeRow(r) ==
  [key |-> job[r].key, amount |-> job[r].amount, split |-> job[r].split,
   scored |-> job[r].scored, from |-> job[r].from]
CreditEntry(r) == [ref |-> "credit", id |-> Len(charges) + 1, amount |-> job[r].split]

\* The transaction of a charge, its reply lost or not.
LEMMA Booked ==
  ASSUME MarketTypes, NEW r \in Requests, C!Commit(r) \/ C!ReplyLost(r)
  PROVE  /\ job[r] \in C!Jobs /\ job[r] # NoJob /\ job[r].step = "book"
         /\ ~C!KeyTaken(job[r].key)
         /\ ChargeRow(r) \in ChargeRows /\ CreditEntry(r) \in EntryRows
         /\ charges' = Append(charges, ChargeRow(r))
         /\ ledger' = IF job[r].split = 0 THEN ledger ELSE Append(ledger, CreditEntry(r))
         /\ balance' = balance + job[r].split /\ payer' = payer - job[r].split
         /\ job' = [job EXCEPT ![r] = NoJob]
         /\ chargeKey' \subseteq chargeKey
         /\ lost' = lost \/ lost' = lost + 1
<1>1. C!Book(r) /\ chargeKey' \subseteq chargeKey /\ (lost' = lost \/ lost' = lost + 1)
  BY DEF C!Commit, C!ReplyLost
<1>2. job[r] \in C!Jobs /\ job[r] # NoJob /\ job[r].step = "book"
  BY <1>1, Held DEF C!Book, C!Steps, C!At
<1>3. ChargeRow(r) \in ChargeRows
  BY <1>2 DEF C!Jobs, ChargeRow, ChargeRows
<1>4. job[r].amount \in Nat /\ job[r].split \in Nat
  BY <1>2, AmountsAre DEF C!Jobs
<1>5. CreditEntry(r) \in EntryRows
  BY <1>4 DEF MarketTypes, CreditEntry, EntryRows
<1>6. payer' = payer - job[r].split
  BY <1>1, <1>4 DEF C!Book, C!Pay, MarketTypes
<1>7. QED
  BY <1>1, <1>2, <1>3, <1>5, <1>6
  DEF C!Book, C!Pay, C!Unique, C!Done, ChargeRow, CreditEntry

VoidEntry(i) == P!Entry("void", i, payouts[i].amount)

\* settlePayout's two outcomes.
LEMMA Settled ==
  ASSUME MarketTypes, NEW a \in Admins, NEW i, i = admin[a], P!SettlePaid(a) \/ P!SettleFailed(a)
  PROVE  /\ i \in 1..Len(payouts) /\ payouts[i].status = "PENDING"
         /\ payouts[i] \in PayoutRows /\ VoidEntry(i) \in EntryRows
         /\ admin' = [admin EXCEPT ![a] = 0]
         /\ UNCHANGED <<payoutKey, job, lost>>
         /\ \/ /\ payouts' = [payouts EXCEPT ![i].status = "PAID"]
               /\ UNCHANGED <<balance, ledger>>
            \/ /\ payouts' = [payouts EXCEPT ![i].status = "FAILED"]
               /\ ledger' = Append(ledger, VoidEntry(i))
               /\ balance' = balance + payouts[i].amount
<1>1. i \in 1..Len(payouts) /\ payouts[i].status = "PENDING"
  <2>1. admin[a] \in Nat /\ admin[a] <= Len(payouts) /\ Len(payouts) \in Nat
    BY DEF MarketTypes
  <2>2. i # 0 /\ payouts[i].status = "PENDING"
    BY DEF P!SettlePaid, P!SettleFailed, P!StillOpen, P!Open
  <2>3. QED BY <2>1, <2>2
<1>2. payouts[i] \in PayoutRows
  BY <1>1 DEF MarketTypes
<1>3. VoidEntry(i) \in EntryRows
  BY <1>1, <1>2, PayoutRowIs DEF VoidEntry, P!Entry, EntryRows
<1>4. QED
  BY <1>1, <1>2, <1>3 DEF P!SettlePaid, P!SettleFailed, P!created, VoidEntry

\* Rows are only added, and of a row only the status of a pending payout
\* changes.  A ledger that did not grow means the same balance and payouts.
Grown ==
  /\ Len(ledger) <= Len(ledger') /\ \A e \in 1..Len(ledger) : ledger'[e] = ledger[e]
  /\ Len(charges) <= Len(charges') /\ \A i \in 1..Len(charges) : charges'[i] = charges[i]
  /\ Len(payouts) <= Len(payouts')
  /\ \A i \in 1..Len(payouts) :
       /\ payouts'[i].amount = payouts[i].amount
       /\ payouts'[i].key = payouts[i].key
       /\ payouts'[i].from = payouts[i].from
       /\ payouts[i].status # "PENDING" => payouts'[i] = payouts[i]
  /\ Len(ledger') = Len(ledger) => Len(payouts') = Len(payouts) /\ balance' = balance
  /\ lost <= lost'

\* What an appended row leaves alone.
LEMMA AppendGrows ==
  ASSUME NEW S, NEW s \in Seq(S), NEW x \in S
  PROVE  /\ Append(s, x) \in Seq(S) /\ Len(Append(s, x)) = Len(s) + 1 /\ Len(s) \in Nat
         /\ \A i \in 1..Len(s) : Append(s, x)[i] = s[i]
         /\ Append(s, x)[Len(s) + 1] = x
<1>1. Len(Append(s, x)) # Len(s)
  OBVIOUS
<1>2. QED BY <1>1

\* A job set is a job.
LEMMA JobTyped ==
  ASSUME MarketTypes, NEW r \in Requests, NEW K, JobIsSet(r, K), K \subseteq P!Jobs \cup C!Jobs
  PROVE  job' \in [Requests -> P!Jobs \cup C!Jobs \cup {NoJob}]
BY DEF JobIsSet, MarketTypes

\* A settled payout keeps everything but its status.
LEMMA RowSettled ==
  ASSUME MarketTypes, NEW i \in 1..Len(payouts), payouts[i].status = "PENDING",
         NEW new \in {"PAID", "FAILED"}, payouts' = [payouts EXCEPT ![i].status = new]
  PROVE  /\ payouts' \in Seq(PayoutRows) /\ Len(payouts') = Len(payouts)
         /\ \A k \in 1..Len(payouts) :
              /\ payouts'[k].amount = payouts[k].amount
              /\ payouts'[k].key = payouts[k].key
              /\ payouts'[k].from = payouts[k].from
              /\ payouts[k].status # "PENDING" => payouts'[k] = payouts[k]
<1>1. payouts \in Seq(PayoutRows) /\ payouts[i] \in PayoutRows
  BY DEF MarketTypes
<1>2. PICK row : row = [payouts[i] EXCEPT !.status = new]
  OBVIOUS
<1>3. /\ row \in PayoutRows /\ row.amount = payouts[i].amount /\ row.key = payouts[i].key
      /\ row.from = payouts[i].from
  BY <1>1, <1>2 DEF PayoutRows
<1>4. payouts' = [payouts EXCEPT ![i] = row]
  BY <1>2
<1>5. payouts' \in Seq(PayoutRows) /\ Len(payouts') = Len(payouts)
  BY <1>1, <1>3, <1>4
<1>6. \A k \in 1..Len(payouts) : payouts'[k] = IF k = i THEN row ELSE payouts[k]
  BY <1>1, <1>4
<1>7. QED
  BY <1>3, <1>5, <1>6

\* Every step keeps the types and only adds.
LEMMA MarketTypesNext == MarketTypes /\ [Next]_vars => MarketTypes' /\ Grown
<1> SUFFICES ASSUME MarketTypes, [Next]_vars PROVE MarketTypes' /\ Grown
  OBVIOUS
<1> USE DEF P!Jobs, C!Jobs
<1>0. /\ Len(ledger) \in Nat /\ Len(payouts) \in Nat /\ Len(charges) \in Nat
      /\ lost \in Nat /\ balance \in Int /\ payer \in Int
  BY DEF MarketTypes
<1>1. ASSUME UNCHANGED vars PROVE MarketTypes' /\ Grown
  <2>1. MarketTypes'
    BY <1>1 DEF MarketTypes, vars
  <2>2. Grown
    BY <1>0, <1>1 DEF Grown, vars
  <2>3. QED BY <2>1, <2>2
<1>2. ASSUME NEW r \in Requests, QuietP(r), UNCHANGED <<chargeKey, payer, charges>>
      PROVE  MarketTypes' /\ Grown
  <2>1. /\ payoutKey' \in SUBSET PayoutKeys /\ JobIsSet(r, P!Jobs)
        /\ UNCHANGED <<balance, ledger, payouts, admin, lost>>
    BY <1>2, QuietPType
  <2>2. job' \in [Requests -> P!Jobs \cup C!Jobs \cup {NoJob}]
    BY <2>1, JobTyped
  <2>3. MarketTypes'
    BY <1>2, <2>1, <2>2 DEF MarketTypes
  <2>4. Grown
    BY <1>0, <1>2, <2>1 DEF Grown
  <2>5. QED BY <2>3, <2>4
<1>3. ASSUME NEW r \in Requests, QuietC(r), UNCHANGED <<payoutKey, payouts, admin>>
      PROVE  MarketTypes' /\ Grown
  <2>1. /\ JobIsSet(r, C!Jobs) /\ UNCHANGED <<payer, balance, ledger, charges, lost>>
    BY <1>3, QuietCType
  <2>2. job' \in [Requests -> P!Jobs \cup C!Jobs \cup {NoJob}]
    BY <2>1, JobTyped
  <2>3. MarketTypes'
    BY <1>3, <2>1, <2>2 DEF MarketTypes
  <2>4. Grown
    BY <1>0, <1>3, <2>1 DEF Grown
  <2>5. QED BY <2>3, <2>4
<1>4. ASSUME NEW r \in Requests, P!Commit(r) \/ P!ReplyLost(r),
             UNCHANGED <<chargeKey, payer, charges>>
      PROVE  MarketTypes' /\ Grown
  <2>1. /\ job[r] \in P!Jobs
        /\ PayoutRow(r) \in PayoutRows /\ PayoutEntry(r) \in EntryRows
        /\ payouts' = Append(payouts, PayoutRow(r))
        /\ ledger' = Append(ledger, PayoutEntry(r))
        /\ balance' = balance - job[r].amount
        /\ job' = [job EXCEPT ![r] = NoJob]
        /\ UNCHANGED admin
        /\ \/ UNCHANGED <<lost, payoutKey>>
           \/ lost' = lost + 1 /\ payoutKey' = payoutKey \ {job[r].key}
    BY <1>4, PaidOut
  <2>2. /\ payouts' \in Seq(PayoutRows) /\ Len(payouts') = Len(payouts) + 1
        /\ \A i \in 1..Len(payouts) : payouts'[i] = payouts[i]
    BY <2>1, AppendGrows DEF MarketTypes
  <2>3. /\ ledger' \in Seq(EntryRows) /\ Len(ledger') = Len(ledger) + 1
        /\ \A i \in 1..Len(ledger) : ledger'[i] = ledger[i]
        /\ Len(ledger') # Len(ledger)
    BY <2>1, AppendGrows DEF MarketTypes
  <2>4. job' \in [Requests -> P!Jobs \cup C!Jobs \cup {NoJob}]
    BY <2>1 DEF MarketTypes
  <2>5. balance' \in Int
    BY <2>1, <1>0, AmountsAre
  <2>6. lost' \in Nat /\ payoutKey' \in SUBSET PayoutKeys
    BY <2>1 DEF MarketTypes
  <2>7. admin' \in [Admins -> Nat] /\ \A a \in Admins : admin'[a] <= Len(payouts')
    BY <1>0, <2>1, <2>2 DEF MarketTypes
  <2>8. MarketTypes'
    BY <1>4, <2>2, <2>3, <2>4, <2>5, <2>6, <2>7 DEF MarketTypes
  <2>9. lost <= lost'
    BY <1>0, <2>1
  <2>10. Grown
    <3>1. /\ Len(ledger) <= Len(ledger') /\ Len(payouts) <= Len(payouts')
          /\ Len(ledger') # Len(ledger) /\ Len(charges) <= Len(charges')
      BY <1>0, <1>4, <2>2, <2>3
    <3>2. QED BY <1>4, <2>2, <2>3, <2>9, <3>1 DEF Grown
  <2>11. QED BY <2>8, <2>10
<1>5. ASSUME NEW r \in Requests, C!Commit(r) \/ C!ReplyLost(r),
             UNCHANGED <<payoutKey, payouts, admin>>
      PROVE  MarketTypes' /\ Grown
  <2>1. /\ job[r] \in C!Jobs
        /\ ChargeRow(r) \in ChargeRows /\ CreditEntry(r) \in EntryRows
        /\ charges' = Append(charges, ChargeRow(r))
        /\ ledger' = IF job[r].split = 0 THEN ledger ELSE Append(ledger, CreditEntry(r))
        /\ balance' = balance + job[r].split /\ payer' = payer - job[r].split
        /\ job' = [job EXCEPT ![r] = NoJob]
        /\ lost' = lost \/ lost' = lost + 1
    BY <1>5, Booked
  <2>2. /\ charges' \in Seq(ChargeRows) /\ Len(charges') = Len(charges) + 1
        /\ \A i \in 1..Len(charges) : charges'[i] = charges[i]
    BY <2>1, AppendGrows DEF MarketTypes
  <2>3. /\ ledger' \in Seq(EntryRows) /\ Len(ledger) <= Len(ledger')
        /\ \A i \in 1..Len(ledger) : ledger'[i] = ledger[i]
        /\ Len(ledger') = Len(ledger) => balance' = balance
    <3>1. CASE job[r].split = 0
      BY <1>0, <2>1, <3>1 DEF MarketTypes
    <3>2. CASE job[r].split # 0
      BY <1>0, <2>1, <3>2, AppendGrows DEF MarketTypes
    <3>3. QED BY <3>1, <3>2
  <2>4. job' \in [Requests -> P!Jobs \cup C!Jobs \cup {NoJob}]
    BY <2>1 DEF MarketTypes
  <2>5. balance' \in Int /\ payer' \in Int
    <3>1. job[r].split \in Nat
      BY <2>1, AmountsAre
    <3>2. QED BY <2>1, <3>1, <1>0
  <2>6. lost' \in Nat /\ lost <= lost'
    BY <1>0, <2>1
  <2>7. MarketTypes'
    BY <1>5, <2>2, <2>3, <2>4, <2>5, <2>6 DEF MarketTypes
  <2>8. Grown
    BY <1>0, <1>5, <2>2, <2>3, <2>6 DEF Grown
  <2>9. QED BY <2>7, <2>8
<1>6. ASSUME NEW a \in Admins, NEW i \in DOMAIN payouts, P!ReadOpen(a, i),
             UNCHANGED <<chargeKey, payer, charges>>
      PROVE  MarketTypes' /\ Grown
  <2>1. /\ admin' = [admin EXCEPT ![a] = i]
        /\ UNCHANGED <<payoutKey, job, lost, balance, ledger, payouts>>
    BY <1>6 DEF P!ReadOpen, P!created
  <2>2. i \in Nat /\ i <= Len(payouts)
    BY DEF MarketTypes
  <2>3. MarketTypes'
    BY <1>6, <2>1, <2>2 DEF MarketTypes
  <2>4. Grown
    BY <1>0, <1>6, <2>1 DEF Grown
  <2>5. QED BY <2>3, <2>4
<1>7. ASSUME NEW a \in Admins, P!SettleAborts(a), UNCHANGED <<chargeKey, payer, charges>>
      PROVE  MarketTypes' /\ Grown
  <2>1. /\ admin' = [admin EXCEPT ![a] = 0]
        /\ UNCHANGED <<payoutKey, job, lost, balance, ledger, payouts>>
    BY <1>7 DEF P!SettleAborts, P!created
  <2>3. MarketTypes'
    BY <1>0, <1>7, <2>1 DEF MarketTypes
  <2>4. Grown
    BY <1>0, <1>7, <2>1 DEF Grown
  <2>5. QED BY <2>3, <2>4
<1>8. ASSUME NEW a \in Admins, P!SettlePaid(a) \/ P!SettleFailed(a),
             UNCHANGED <<chargeKey, payer, charges>>
      PROVE  MarketTypes' /\ Grown
  <2>1. PICK i : i = admin[a]
    OBVIOUS
  <2>2. /\ i \in 1..Len(payouts) /\ payouts[i].status = "PENDING"
        /\ payouts[i] \in PayoutRows /\ VoidEntry(i) \in EntryRows
        /\ admin' = [admin EXCEPT ![a] = 0]
        /\ UNCHANGED <<payoutKey, job, lost>>
        /\ \/ /\ payouts' = [payouts EXCEPT ![i].status = "PAID"]
              /\ UNCHANGED <<balance, ledger>>
           \/ /\ payouts' = [payouts EXCEPT ![i].status = "FAILED"]
              /\ ledger' = Append(ledger, VoidEntry(i))
              /\ balance' = balance + payouts[i].amount
    BY <1>8, <2>1, Settled
  <2>3. /\ payouts' \in Seq(PayoutRows) /\ Len(payouts') = Len(payouts)
        /\ \A k \in 1..Len(payouts) :
              /\ payouts'[k].amount = payouts[k].amount
              /\ payouts'[k].key = payouts[k].key
              /\ payouts'[k].from = payouts[k].from
              /\ payouts[k].status # "PENDING" => payouts'[k] = payouts[k]
    BY <2>2, RowSettled
  <2>4. /\ ledger' \in Seq(EntryRows) /\ Len(ledger) <= Len(ledger')
        /\ \A e \in 1..Len(ledger) : ledger'[e] = ledger[e]
        /\ Len(ledger') = Len(ledger) => balance' = balance
        /\ balance' \in Int
    <3>1. CASE UNCHANGED <<balance, ledger>>
      BY <1>0, <3>1 DEF MarketTypes
    <3>2. CASE /\ ledger' = Append(ledger, VoidEntry(i))
               /\ balance' = balance + payouts[i].amount
      BY <1>0, <2>2, <3>2, AppendGrows, PayoutRowIs DEF MarketTypes
    <3>3. QED BY <2>2, <3>1, <3>2
  <2>5. admin' \in [Admins -> Nat] /\ \A b \in Admins : admin'[b] <= Len(payouts')
    BY <1>0, <2>2, <2>3 DEF MarketTypes
  <2>6. MarketTypes'
    BY <1>8, <2>2, <2>3, <2>4, <2>5 DEF MarketTypes
  <2>7. Grown
    BY <1>0, <1>8, <2>2, <2>3, <2>4 DEF Grown
  <2>8. QED BY <2>6, <2>7
<1> QED
  BY <1>1, <1>2, <1>3, <1>4, <1>5, <1>6, <1>7, <1>8, MarketSteps

\* The wallets by the rows.
Money ==
  /\ balance = Funds + CreditedBy(charges) - TakenBy(payouts)
  /\ payer = PayerFunds - CreditedBy(charges)

IsEntryOf(e, i) == ledger[e].ref = "pout" /\ ledger[e].id = i

\* Each payout has one entry in the ledger, and entries have their payout.
Entered ==
  /\ \A e \in 1..Len(ledger) : ledger[e].ref = "pout" => ledger[e].id \in 1..Len(payouts)
  /\ \A i \in 1..Len(payouts), e, f \in 1..Len(ledger) :
       IsEntryOf(e, i) /\ IsEntryOf(f, i) => e = f
  /\ \A i \in 1..Len(payouts) : \E e \in 1..Len(ledger) : IsEntryOf(e, i)
  /\ P!PaidBy(Len(ledger)) = Len(payouts)

Untouched == Len(payouts') = Len(payouts) /\ UNCHANGED ledger

Entry0 == [ref : {"deposit", "void", "credit"}, id : Nat, amount : Int]

\* Only the transaction of createPayout writes an entry of a payout.
LEMMA LedgerSteps ==
  ASSUME MarketTypes, [Next]_vars
  PROVE  \/ Untouched
         \/ \E r \in Requests :
              /\ P!Commit(r) \/ P!ReplyLost(r)
              /\ UNCHANGED <<chargeKey, payer, charges>>
         \/ \E x \in EntryRows : /\ x.ref # "pout" /\ ledger' = Append(ledger, x)
                                 /\ Len(payouts') = Len(payouts)
<1>1. CASE UNCHANGED vars
  BY <1>1 DEF vars, Untouched
<1>2. ASSUME NEW r \in Requests, QuietP(r) PROVE Untouched
  BY <1>2, QuietPType DEF Untouched
<1>3. ASSUME NEW r \in Requests, QuietC(r), UNCHANGED payouts PROVE Untouched
  BY <1>3, QuietCType DEF Untouched
<1>4. ASSUME NEW r \in Requests, C!Commit(r) \/ C!ReplyLost(r), UNCHANGED payouts
      PROVE  \/ Untouched
             \/ \E x \in EntryRows : /\ x.ref # "pout" /\ ledger' = Append(ledger, x)
                                     /\ Len(payouts') = Len(payouts)
  <2>1. /\ ledger' = IF job[r].split = 0 THEN ledger ELSE Append(ledger, CreditEntry(r))
        /\ CreditEntry(r) \in EntryRows
    BY <1>4, Booked
  <2>2. CreditEntry(r).ref # "pout"
    BY DEF CreditEntry
  <2>3. QED BY <1>4, <2>1, <2>2 DEF Untouched
<1>5. ASSUME NEW a \in Admins, P!SettlePaid(a) \/ P!SettleFailed(a)
      PROVE  \/ Untouched
             \/ \E x \in EntryRows : /\ x.ref # "pout" /\ ledger' = Append(ledger, x)
                                     /\ Len(payouts') = Len(payouts)
  <2>1. PICK i : i = admin[a]
    OBVIOUS
  <2>2. /\ i \in 1..Len(payouts) /\ payouts[i].status = "PENDING"
        /\ VoidEntry(i) \in EntryRows
        /\ \/ /\ payouts' = [payouts EXCEPT ![i].status = "PAID"]
              /\ UNCHANGED <<balance, ledger>>
           \/ /\ payouts' = [payouts EXCEPT ![i].status = "FAILED"]
              /\ ledger' = Append(ledger, VoidEntry(i))
    BY <1>5, <2>1, Settled
  <2>3. Len(payouts') = Len(payouts)
    BY <2>2, RowSettled
  <2>4. VoidEntry(i).ref # "pout"
    BY DEF VoidEntry, P!Entry
  <2>5. QED BY <2>2, <2>3, <2>4 DEF Untouched
<1>6. ASSUME NEW a \in Admins,
             (\E i \in DOMAIN payouts : P!ReadOpen(a, i)) \/ P!SettleAborts(a)
      PROVE  Untouched
  BY <1>6 DEF P!ReadOpen, P!SettleAborts, Untouched
<1>7. QED BY <1>1, <1>2, <1>3, <1>4, <1>5, <1>6, MarketSteps

\* The deposit is no entry of a payout.
LEMMA EnteredInit == Init => Entered
<1> SUFFICES ASSUME Init PROVE Entered
  OBVIOUS
<1>1. payouts = <<>> /\ ledger = <<P!Entry("deposit", 1, Funds)>>
  BY DEF Init, P!Init
<1>2. Len(ledger) = 1 /\ ledger[1].ref = "deposit" /\ Len(payouts) = 0
  BY <1>1 DEF P!Entry
<1>3. {e \in 1..Len(ledger) : ledger[e].ref = "pout"} = {}
  BY <1>2
<1>4. P!PaidBy(Len(ledger)) = 0
  BY <1>3, MarketLibrary, FS_EmptySet DEF P!PaidBy
<1>5. QED BY <1>2, <1>4 DEF Entered

\* The first n entries keep their payouts.
LEMMA PaidBySame ==
  ASSUME NEW n \in Nat, \A e \in 1..n : ledger'[e] = ledger[e]
  PROVE  P!PaidBy(n)' = P!PaidBy(n)
<1>1. {e \in 1..n : ledger'[e].ref = "pout"} = {e \in 1..n : ledger[e].ref = "pout"}
  OBVIOUS
<1>2. QED BY <1>1, MarketLibrary DEF P!PaidBy

\* An entry more counts if it is a payout's.
LEMMA PaidByNext ==
  ASSUME MarketTypes, NEW x \in EntryRows, ledger' = Append(ledger, x)
  PROVE  P!PaidBy(Len(ledger))' = P!PaidBy(Len(ledger)) + (IF x.ref = "pout" THEN 1 ELSE 0)
<1>1. PICK n \in Nat : n = Len(ledger)
  BY DEF MarketTypes
<1>2. Len(ledger') = n + 1 /\ ledger'[n + 1] = x /\ \A e \in 1..n : ledger'[e] = ledger[e]
  BY <1>1, AppendGrows DEF MarketTypes
<1> DEFINE paid == {e \in 1..n : ledger[e].ref = "pout"}
           new == {e \in 1..(n + 1) : ledger'[e].ref = "pout"}
<1>3. new = IF x.ref = "pout" THEN paid \cup {n + 1} ELSE paid
  BY <1>2
<1>4. IsFiniteSet(paid) /\ n + 1 \notin paid
  <2>1. paid \in SUBSET (1..n)
    OBVIOUS
  <2>2. IsFiniteSet(paid)
    <3>1. IsFiniteSet(1..n)
      BY FS_Interval
    <3> HIDE DEF paid
    <3>2. QED BY <2>1, <3>1, FS_Subset
  <2>3. n + 1 \notin paid
    OBVIOUS
  <2>4. QED BY <2>2, <2>3
<1>5. P!PaidBy(Len(ledger)) = Cardinality(paid) /\ P!PaidBy(Len(ledger))' = Cardinality(new)
  BY <1>1, <1>2, MarketLibrary DEF P!PaidBy
<1> HIDE DEF paid, new
<1>6. Cardinality(paid) \in Nat
  BY <1>4, FS_CardinalityType
<1>7. CASE x.ref = "pout"
  <2>1. PICK m : m = n + 1
    OBVIOUS
  <2>2. Cardinality(paid \cup {m}) = Cardinality(paid) + 1
    BY <1>4, <2>1, FS_AddElement
  <2>3. QED BY <1>3, <1>5, <1>7, <2>1, <2>2
<1>8. CASE x.ref # "pout"
  BY <1>3, <1>5, <1>6, <1>8
<1>9. QED BY <1>7, <1>8

\* Every step keeps entries and payouts in step.
LEMMA EnteredNext == MarketTypes /\ Entered /\ [Next]_vars => Entered'
<1> SUFFICES ASSUME MarketTypes, Entered, [Next]_vars PROVE Entered'
  OBVIOUS
<1>1. Len(ledger) \in Nat /\ Len(payouts) \in Nat
  BY DEF MarketTypes
<1>2. CASE Untouched
  <2>1. ledger' = ledger /\ Len(payouts') = Len(payouts)
    BY <1>2 DEF Untouched
  <2>2. \A e, i : IsEntryOf(e, i)' <=> IsEntryOf(e, i)
    BY <2>1 DEF IsEntryOf
  <2>3. P!PaidBy(Len(ledger))' = P!PaidBy(Len(ledger))
    BY <2>1 DEF P!PaidBy
  <2>4. \A e : ledger'[e] = ledger[e]
    BY <2>1
  <2>5. QED BY ONLY Entered, <2>1, <2>2, <2>3, <2>4 DEF Entered
<1>3. ASSUME NEW x \in EntryRows, x.ref # "pout", ledger' = Append(ledger, x),
             Len(payouts') = Len(payouts)
      PROVE  Entered'
  <2>1. /\ Len(ledger') = Len(ledger) + 1 /\ ledger'[Len(ledger) + 1] = x
        /\ \A e \in 1..Len(ledger) : ledger'[e] = ledger[e]
    BY <1>3, AppendGrows DEF MarketTypes
  <2>2. P!PaidBy(Len(ledger))' = P!PaidBy(Len(ledger))
    <3>1. P!PaidBy(Len(ledger)) \in Nat
      BY <1>1 DEF Entered
    <3>2. QED BY <1>3, <3>1, PaidByNext
  <2>3. \A e \in 1..Len(ledger') : ledger'[e].ref = "pout"
          => e \in 1..Len(ledger) /\ ledger'[e] = ledger[e]
    BY <1>1, <1>3, <2>1
  <2>4. \A e \in 1..Len(ledger) : e \in 1..Len(ledger')
    BY <1>1, <2>1
  <2>5. QED BY <1>3, <2>1, <2>2, <2>3, <2>4 DEF Entered, IsEntryOf
<1>4. ASSUME NEW r \in Requests, P!Commit(r) \/ P!ReplyLost(r)
      PROVE  Entered'
  <2>1. /\ PayoutRow(r) \in PayoutRows /\ PayoutEntry(r) \in EntryRows
        /\ payouts' = Append(payouts, PayoutRow(r))
        /\ ledger' = Append(ledger, PayoutEntry(r))
    BY <1>4, PaidOut
  <2>2. PICK x \in EntryRows : x = PayoutEntry(r)
    BY <2>1
  <2>3. PICK m : m = Len(payouts) + 1
    OBVIOUS
  <2>4. x.ref = "pout" /\ x.id = m
    BY <2>2, <2>3 DEF PayoutEntry, P!Entry
  <2>5. /\ Len(ledger') = Len(ledger) + 1 /\ ledger'[Len(ledger) + 1] = x
        /\ \A e \in 1..Len(ledger) : ledger'[e] = ledger[e]
    BY <2>1, <2>2, AppendGrows DEF MarketTypes
  <2>6. Len(payouts') = m
    BY <2>1, <2>3, AppendGrows DEF MarketTypes
  <2>7. P!PaidBy(Len(ledger))' = Len(payouts')
    <3>1. P!PaidBy(Len(ledger))' = P!PaidBy(Len(ledger)) + 1
      BY <2>1, <2>2, <2>4, PaidByNext
    <3>2. QED BY <1>1, <2>3, <2>6, <3>1 DEF Entered
  <2>8. \A e \in 1..Len(ledger') : e \in 1..Len(ledger) \/ e = Len(ledger) + 1
    BY <1>1, <2>5
  <2>9. \A e \in 1..Len(ledger) : e \in 1..Len(ledger') /\ e # Len(ledger) + 1
    BY <1>1, <2>5
  <2>10. Len(ledger) + 1 \in 1..Len(ledger')
    BY <1>1, <2>5
  <2>11. \A i \in 1..Len(payouts') : i \in 1..Len(payouts) \/ i = m
    BY <1>1, <2>3, <2>6
  <2>12. m \in 1..Len(payouts') /\ m \notin 1..Len(payouts)
         /\ \A i \in 1..Len(payouts) : i \in 1..Len(payouts')
    BY <1>1, <2>3, <2>6
  <2> HIDE DEF P!PaidBy
  <2>13. \A e \in 1..Len(ledger') : ledger'[e].ref = "pout" => ledger'[e].id \in 1..Len(payouts')
    BY <2>4, <2>5, <2>8, <2>12 DEF Entered
  <2>14. \A i \in 1..Len(payouts'), e, f \in 1..Len(ledger') :
           /\ ledger'[e].ref = "pout" /\ ledger'[e].id = i
           /\ ledger'[f].ref = "pout" /\ ledger'[f].id = i
           => e = f
    <3> SUFFICES ASSUME NEW i \in 1..Len(payouts'),
                        NEW e \in 1..Len(ledger'), NEW f \in 1..Len(ledger'),
                        ledger'[e].ref = "pout", ledger'[e].id = i,
                        ledger'[f].ref = "pout", ledger'[f].id = i
                 PROVE  e = f
      OBVIOUS
    <3>1. ASSUME NEW d \in 1..Len(ledger), ledger'[d].ref = "pout"
          PROVE  ledger'[d] = ledger[d] /\ ledger'[d].id \in 1..Len(payouts)
      <4>1. ledger'[d] = ledger[d]
        BY <2>5
      <4>2. QED BY <3>1, <4>1 DEF Entered
    <3>2. CASE e \in 1..Len(ledger) /\ f \in 1..Len(ledger)
      <4>1. ledger'[e] = ledger[e] /\ ledger'[f] = ledger[f] /\ i \in 1..Len(payouts)
        BY <3>1, <3>2
      <4>2. QED BY <3>2, <4>1 DEF Entered, IsEntryOf
    <3>3. CASE e \in 1..Len(ledger) /\ f = Len(ledger) + 1
      BY <2>4, <2>5, <2>12, <3>1, <3>3
    <3>4. CASE e = Len(ledger) + 1 /\ f \in 1..Len(ledger)
      BY <2>4, <2>5, <2>12, <3>1, <3>4
    <3>5. QED BY <2>8, <3>2, <3>3, <3>4
  <2>15. \A i \in 1..Len(payouts') :
           \E e \in 1..Len(ledger') : ledger'[e].ref = "pout" /\ ledger'[e].id = i
    <3>1. ASSUME NEW i \in 1..Len(payouts')
          PROVE  \E e \in 1..Len(ledger') : ledger'[e].ref = "pout" /\ ledger'[e].id = i
      <4>1. CASE i = m
        BY <2>4, <2>5, <2>10, <4>1
      <4>2. CASE i \in 1..Len(payouts)
        <5>1. PICK e \in 1..Len(ledger) : IsEntryOf(e, i)
          BY <4>2 DEF Entered
        <5>2. QED BY <2>5, <2>9, <5>1 DEF IsEntryOf
      <4>3. QED BY <2>11, <4>1, <4>2
    <3>2. QED BY <3>1
  <2>16. QED BY <2>7, <2>13, <2>14, <2>15 DEF Entered, IsEntryOf
<1>5. QED BY <1>2, <1>3, <1>4, LedgerSteps

\* EntryOf finds the one entry.
LEMMA EntryIs ==
  ASSUME MarketTypes, Entered, NEW i \in 1..Len(payouts)
  PROVE  /\ P!EntryOf(i) \in 1..Len(ledger) /\ IsEntryOf(P!EntryOf(i), i)
         /\ \A e \in 1..Len(ledger) : IsEntryOf(e, i) => e = P!EntryOf(i)
<1>1. DOMAIN ledger = 1..Len(ledger)
  BY DEF MarketTypes
<1>2. \E e \in DOMAIN ledger : ledger[e].ref = "pout" /\ ledger[e].id = i
  BY <1>1 DEF Entered, IsEntryOf
<1>3. P!EntryOf(i) \in 1..Len(ledger) /\ IsEntryOf(P!EntryOf(i), i)
  BY <1>1, <1>2 DEF P!EntryOf, IsEntryOf
<1>4. QED BY <1>3 DEF Entered

\* A payout's entry stays where it is.
LEMMA EntryKept ==
  ASSUME MarketTypes, MarketTypes', Entered, Entered', Grown, NEW i \in 1..Len(payouts)
  PROVE  i \in 1..Len(payouts') /\ P!EntryOf(i)' = P!EntryOf(i)
<1>1. PICK e \in 1..Len(ledger) : e = P!EntryOf(i) /\ ledger[e].ref = "pout" /\ ledger[e].id = i
  BY EntryIs DEF IsEntryOf
<1>2. e \in 1..Len(ledger') /\ ledger'[e] = ledger[e] /\ i \in 1..Len(payouts')
  BY DEF Grown, MarketTypes
<1>3. PICK f \in 1..Len(ledger') : f = P!EntryOf(i)' /\ ledger'[f].ref = "pout" /\ ledger'[f].id = i
  <2>1. DOMAIN ledger' = 1..Len(ledger')
    BY DEF MarketTypes
  <2>2. \E g \in DOMAIN ledger' : ledger'[g].ref = "pout" /\ ledger'[g].id = i
    BY <1>1, <1>2, <2>1
  <2>3. QED BY <2>1, <2>2 DEF P!EntryOf
<1>4. e = f
  BY <1>1, <1>2, <1>3 DEF Entered, IsEntryOf
<1>5. QED BY <1>1, <1>2, <1>3, <1>4

\* No row, and the first balances.
LEMMA MoneyInit == Init => Money
<1> SUFFICES ASSUME Init PROVE Money
  OBVIOUS
<1>1. charges = <<>> /\ payouts = <<>> /\ balance = Funds /\ payer = PayerFunds
  BY DEF Init, P!Init, C!Init
<1>2. CreditedBy(<<>>) = 0 /\ TakenBy(<<>>) = 0
  <2>1. 1..Len(<<>>) = {}
    OBVIOUS
  <2>2. QED BY <2>1, SumEmpty DEF CreditedBy, TakenBy
<1>3. QED BY <1>1, <1>2, AmountsAre DEF Money

\* Every transaction moves what its rows say.
LEMMA MoneyNext == MarketTypes /\ Money /\ [Next]_vars => Money'
<1> SUFFICES ASSUME MarketTypes, Money, [Next]_vars PROVE Money'
  OBVIOUS
<1>1. /\ balance \in Int /\ payer \in Int /\ Funds \in Nat /\ PayerFunds \in Nat
      /\ CreditedBy(charges) \in Nat /\ TakenBy(payouts) \in Nat
  BY CreditedIs, TakenIs, AmountsAre DEF MarketTypes
<1>2. CASE UNCHANGED <<payer, balance, charges, payouts>>
  BY <1>2 DEF Money
<1>3. ASSUME NEW r \in Requests, P!Commit(r) \/ P!ReplyLost(r), UNCHANGED <<payer, charges>>
      PROVE  Money'
  <2>1. /\ PayoutRow(r) \in PayoutRows /\ job[r] \in P!Jobs
        /\ payouts' = Append(payouts, PayoutRow(r))
        /\ balance' = balance - job[r].amount
    BY <1>3, PaidOut
  <2>2. PayoutRow(r).status = "PENDING" /\ PayoutRow(r).amount = job[r].amount
    BY DEF PayoutRow
  <2>3. TakenBy(payouts') = TakenBy(payouts) + job[r].amount
    BY <2>1, <2>2, TakenAppended DEF MarketTypes
  <2>4. job[r].amount \in Nat
    BY <2>1, AmountsAre DEF P!Jobs
  <2>5. balance = Funds + CreditedBy(charges) - TakenBy(payouts)
        /\ payer = PayerFunds - CreditedBy(charges)
    BY DEF Money
  <2>6. balance' = Funds + CreditedBy(charges) - TakenBy(payouts')
    <3>1. PICK c \in Nat, t \in Nat, a \in Nat :
            c = CreditedBy(charges) /\ t = TakenBy(payouts) /\ a = job[r].amount
      BY <1>1, <2>4
    <3>2. balance' = (Funds + c - t) - a /\ TakenBy(payouts') = t + a
      BY <2>1, <2>3, <2>5, <3>1
    <3>3. (Funds + c - t) - a = Funds + c - (t + a)
      BY <1>1
    <3>4. QED BY <3>1, <3>2, <3>3
  <2>7. QED BY <1>3, <2>5, <2>6 DEF Money
<1>4. ASSUME NEW r \in Requests, C!Commit(r) \/ C!ReplyLost(r), UNCHANGED payouts
      PROVE  Money'
  <2>1. /\ ChargeRow(r) \in ChargeRows /\ job[r] \in C!Jobs
        /\ charges' = Append(charges, ChargeRow(r))
        /\ balance' = balance + job[r].split /\ payer' = payer - job[r].split
    BY <1>4, Booked
  <2>2. ChargeRow(r).split = job[r].split
    BY DEF ChargeRow
  <2>3. CreditedBy(charges') = CreditedBy(charges) + job[r].split
    BY <2>1, <2>2, CreditedIs DEF MarketTypes
  <2>4. PICK split \in Nat : split = job[r].split
    BY <2>1, AmountsAre DEF C!Jobs
  <2>5. PICK c \in Nat, t \in Nat : c = CreditedBy(charges) /\ t = TakenBy(payouts)
    BY <1>1
  <2>6. TakenBy(payouts') = t /\ CreditedBy(charges') = c + split
    BY <1>4, <2>3, <2>4, <2>5
  <2>7. balance' = balance + split /\ payer' = payer - split
    BY <2>1, <2>4
  <2>8. balance = Funds + c - t /\ payer = PayerFunds - c
    BY <2>5 DEF Money
  <2>9. balance' = Funds + (c + split) - t /\ payer' = PayerFunds - (c + split)
    BY <1>1, <2>7, <2>8
  <2>10. QED BY <2>6, <2>9 DEF Money
<1>5. ASSUME NEW a \in Admins, P!SettlePaid(a) \/ P!SettleFailed(a),
             UNCHANGED <<payer, charges>>
      PROVE  Money'
  <2>1. PICK i : i = admin[a]
    OBVIOUS
  <2>2. /\ i \in 1..Len(payouts) /\ payouts[i].status = "PENDING"
        /\ payouts[i] \in PayoutRows
        /\ \/ /\ payouts' = [payouts EXCEPT ![i].status = "PAID"]
              /\ UNCHANGED <<balance, ledger>>
           \/ /\ payouts' = [payouts EXCEPT ![i].status = "FAILED"]
              /\ balance' = balance + payouts[i].amount
    BY <1>5, <2>1, Settled
  <2>3. payouts[i].amount \in Nat
    BY <2>2, PayoutRowIs
  <2>4. payouts \in Seq(PayoutRows)
    BY DEF MarketTypes
  <2>5. \A new \in {"PAID", "FAILED"} :
          TakenBy([payouts EXCEPT ![i].status = new])
            = TakenBy(payouts) - (IF new = "FAILED" THEN payouts[i].amount ELSE 0)
    BY <2>2, <2>4, TakenSettled
  <2>6. CASE payouts' = [payouts EXCEPT ![i].status = "PAID"] /\ balance' = balance
    <3>1. TakenBy(payouts') = TakenBy(payouts)
      BY <1>1, <2>5, <2>6
    <3>2. QED BY <1>5, <2>6, <3>1 DEF Money
  <2>7. CASE /\ payouts' = [payouts EXCEPT ![i].status = "FAILED"]
             /\ balance' = balance + payouts[i].amount
    <3>1. TakenBy(payouts') = TakenBy(payouts) - payouts[i].amount
      BY <2>5, <2>7
    <3>2. QED BY <1>1, <1>5, <2>3, <2>7, <3>1 DEF Money
  <2>8. QED BY <2>2, <2>6, <2>7
<1>6. ASSUME NEW r \in Requests, QuietP(r), UNCHANGED <<payer, charges>>
      PROVE  Money'
  BY <1>2, <1>6, QuietPType
<1>7. ASSUME NEW r \in Requests, QuietC(r), UNCHANGED payouts
      PROVE  Money'
  BY <1>2, <1>7, QuietCType
<1>8. ASSUME NEW a \in Admins, UNCHANGED <<payer, charges>>,
             (\E i \in DOMAIN payouts : P!ReadOpen(a, i)) \/ P!SettleAborts(a)
      PROVE  Money'
  BY <1>2, <1>8 DEF P!ReadOpen, P!SettleAborts
<1>9. CASE UNCHANGED vars
  BY <1>2, <1>9 DEF vars
<1>10. QED
  BY <1>3, <1>4, <1>5, <1>6, <1>7, <1>8, <1>9, MarketSteps

\* What a step can make of the job of r.
JobFate(r) ==
  \/ job'[r] = job[r]
  \/ job'[r] = NoJob
  \/ \E k \in PayoutKeys, amount \in PayoutAmounts : P!Start(r, k, amount)
  \/ P!BalanceAccepted(r) \/ P!FraudAccepted(r)
  \/ \E amount \in ChargeAmounts :
       \/ \E k \in ChargeKeys, split \in Splits : C!StartIntegration(r, k, amount, split)
       \/ \E k \in ChargeKeys \cup {NoKey} : C!StartSplit(r, k, amount)
  \/ C!AccountsAccepted(r) \/ C!Scored(r)

\* And nothing else.
LEMMA JobFates == MarketTypes /\ [Next]_vars => \A r \in Requests : JobFate(r)
<1> SUFFICES ASSUME MarketTypes, [Next]_vars, NEW r \in Requests PROVE JobFate(r)
  OBVIOUS
<1>0. DOMAIN job = Requests
  BY DEF MarketTypes
<1>1. CASE UNCHANGED job
  BY <1>1 DEF JobFate
<1>2. ASSUME NEW q \in Requests, q # r, JobIsSet(q, P!Jobs \cup C!Jobs)
      PROVE  JobFate(r)
  BY <1>2 DEF JobFate, JobIsSet
<1>3. ASSUME NEW q \in Requests, QuietP(q) PROVE JobFate(r)
  <2>1. JobIsSet(q, P!Jobs)
    BY <1>3, QuietPType
  <2>2. CASE q # r
    BY <1>2, <2>1, <2>2 DEF JobIsSet
  <2>3. CASE q = r /\ ~(P!Refuse(r) \/ P!Crash(r))
    BY <1>3, <2>3 DEF QuietP, JobFate
  <2>4. CASE P!Refuse(r) \/ P!Crash(r)
    BY <1>0, <2>4 DEF JobFate, P!Refuse, P!Crash, P!Done
  <2>5. QED BY <2>2, <2>3, <2>4
<1>4. ASSUME NEW q \in Requests, QuietC(q) PROVE JobFate(r)
  <2>1. JobIsSet(q, C!Jobs)
    BY <1>4, QuietCType
  <2>2. CASE q # r
    BY <1>2, <2>1, <2>2 DEF JobIsSet
  <2>3. CASE q = r /\ ~(C!Refuse(r) \/ C!Crash(r) \/ C!Duplicate(r))
    BY <1>4, <2>3 DEF QuietC, JobFate
  <2>4. CASE C!Refuse(r) \/ C!Crash(r) \/ C!Duplicate(r)
    BY <1>0, <2>4 DEF JobFate, C!Refuse, C!Crash, C!Duplicate, C!Done
  <2>5. QED BY <2>2, <2>3, <2>4
<1>5. ASSUME NEW q \in Requests,
             P!Commit(q) \/ P!ReplyLost(q) \/ C!Commit(q) \/ C!ReplyLost(q)
      PROVE  JobFate(r)
  <2>1. job' = [job EXCEPT ![q] = NoJob]
    BY <1>5, PaidOut, Booked
  <2>2. QED BY <1>0, <2>1 DEF JobFate
<1>6. ASSUME NEW a \in Admins,
             \/ \E i \in DOMAIN payouts : P!ReadOpen(a, i)
             \/ P!SettleAborts(a) \/ P!SettlePaid(a) \/ P!SettleFailed(a)
      PROVE  JobFate(r)
  <2>1. UNCHANGED job
    BY <1>6 DEF P!ReadOpen, P!SettleAborts, P!SettlePaid, P!SettleFailed, P!created
  <2>2. QED BY <1>1, <2>1
<1>7. CASE UNCHANGED vars
  BY <1>1, <1>7 DEF vars
<1>8. QED BY <1>3, <1>4, <1>5, <1>6, <1>7, MarketSteps

\* What the rules say of rows that are there does not change.
LEMMA ScoresSame ==
  ASSUME MarketTypes, MarketTypes', Grown, NEW amount, NEW m \in Nat, m <= Len(payouts),
         NEW n \in Nat, n <= Len(ledger)
  PROVE  P!Scores(amount, m, m, m, n)' = P!Scores(amount, m, m, m, n)
<1>1. [i \in 1..m |-> payouts'[i].amount] = [i \in 1..m |-> payouts[i].amount]
  BY DEF Grown, MarketTypes
<1>2. P!Seen(m)' = P!Seen(m)
  BY <1>1 DEF P!Seen
<1>3. \A e \in 1..n : ledger'[e] = ledger[e]
  <2>1. \A e \in 1..n : e \in 1..Len(ledger)
    BY DEF MarketTypes
  <2>2. QED BY <2>1 DEF Grown
<1>4. P!Entries(n)' = P!Entries(n)
  BY <1>3 DEF P!Entries
<1>5. QED BY <1>2, <1>4 DEF P!Scores

\* Rules that read while nothing was written read the same.
LEMMA EvaluationIs ==
  ASSUME MarketTypes, Entered, NEW r \in Requests, job[r].from = Len(ledger),
         NEW scores \in P!Evaluations(r)
  PROVE  scores = P!Scores(job[r].amount, Len(payouts), Len(payouts), Len(payouts), Len(ledger))
<1>1. PICK n \in Nat : n = Len(ledger)
  BY DEF MarketTypes
<1>2. PICK m \in Nat : m = Len(payouts) /\ P!PaidBy(n) = m
  BY <1>1 DEF MarketTypes, Entered
<1> DEFINE velocity == {P!VelocityPayout(x) : x \in m..m}
           spike == {P!PayoutSpike(P!Seen(p[1]), P!Seen(p[2])) :
                       p \in {q \in (m..m) \X (m..m) : q[1] <= q[2]}}
           unusual == {P!UnusualAmount(P!Entries(x), job[r].amount) : x \in n..n}
<1>3. scores \in velocity \X spike \X unusual
  BY <1>1, <1>2 DEF P!Evaluations
<1>4. m..m = {m} /\ n..n = {n}
  OBVIOUS
<1>5. velocity = {P!VelocityPayout(m)}
  BY <1>4
<1>6. spike = {P!PayoutSpike(P!Seen(m), P!Seen(m))}
  <2>1. \A q \in (m..m) \X (m..m) : q[1] = m /\ q[2] = m
    BY <1>4
  <2>2. <<m, m>> \in (m..m) \X (m..m) /\ <<m, m>>[1] <= <<m, m>>[2]
    BY <1>4
  <2>3. QED BY <2>1, <2>2
<1>7. unusual = {P!UnusualAmount(P!Entries(n), job[r].amount)}
  BY <1>4
<1> HIDE DEF velocity, spike, unusual
<1>8. scores = <<P!VelocityPayout(m), P!PayoutSpike(P!Seen(m), P!Seen(m)),
                 P!UnusualAmount(P!Entries(n), job[r].amount)>>
  BY <1>3, <1>5, <1>6, <1>7
<1>9. QED BY <1>1, <1>2, <1>8 DEF P!Scores

\* The rules let amount pass when they see m payouts and n entries.
Passed(amount, m, n) == ~P!Blocked(P!Scores(amount, m, m, m, n))

\* If nothing was written since the call read the balance, the comparison and
\* the verdict still stand.
Stands(asked) ==
  /\ asked.from <= Len(ledger)
  /\ asked.from = Len(ledger) =>
       /\ balance >= asked.amount
       /\ asked.step = "commit" => Passed(asked.amount, Len(payouts), Len(ledger))

PayoutJobs ==
  \A r \in Requests, asked \in P!Jobs : job[r] = asked /\ asked.step # "balance" => Stands(asked)

\* The same of the payouts made, and what it means for the wallet.
PayoutsMade ==
  /\ (\A i \in 1..Len(payouts) : ~P!Overlapped(i)) => balance >= 0
  /\ \A i \in 1..Len(payouts) :
       ~P!Overlapped(i) => Passed(payouts[i].amount, i - 1, P!EntryOf(i) - 1)

\* A verdict on rows that are there does not change.
LEMMA PassedSame ==
  ASSUME MarketTypes, MarketTypes', Grown, NEW amount, NEW m \in Nat, m <= Len(payouts),
         NEW n \in Nat, n <= Len(ledger)
  PROVE  Passed(amount, m, n)' <=> Passed(amount, m, n)
BY ScoresSame DEF Passed, P!Blocked

\* A call is of one of the two services.
LEMMA KindsApart ==
  /\ \A x \in P!Jobs : x \notin C!Jobs /\ x # NoJob
  /\ \A x \in C!Jobs : x # NoJob
BY AmountsAre DEF P!Jobs, C!Jobs, P!Steps, C!Steps

\* Which steps make a call a charge's.
LEMMA ChargeJobStarts ==
  ASSUME MarketTypes, NEW r \in Requests,
         \/ \E amount \in ChargeAmounts :
              \/ \E k \in ChargeKeys, split \in Splits : C!StartIntegration(r, k, amount, split)
              \/ \E k \in ChargeKeys \cup {NoKey} : C!StartSplit(r, k, amount)
         \/ C!AccountsAccepted(r) \/ C!Scored(r)
  PROVE  job'[r] \in C!Jobs
<1> USE DEF MarketTypes
<1>1. ASSUME NEW amount \in ChargeAmounts, NEW k \in ChargeKeys, NEW split \in Splits,
             C!StartIntegration(r, k, amount, split)
      PROVE  job'[r] \in C!Jobs
  <2>1. C!Call(k, amount, split, TRUE) \in C!Jobs
    BY DEF C!Jobs, C!Steps, C!Call
  <2>2. job' = [job EXCEPT ![r] = C!Call(k, amount, split, TRUE)]
    BY <1>1 DEF C!StartIntegration
  <2>3. QED BY <2>1, <2>2
<1>2. ASSUME NEW amount \in ChargeAmounts, NEW k \in ChargeKeys \cup {NoKey},
             C!StartSplit(r, k, amount)
      PROVE  job'[r] \in C!Jobs
  <2>1. [C!Call(k, amount, amount, FALSE) EXCEPT !.step = "book"] \in C!Jobs
    BY DEF C!Jobs, C!Steps, C!Call
  <2>2. job' = [job EXCEPT ![r] = [C!Call(k, amount, amount, FALSE) EXCEPT !.step = "book"]]
    BY <1>2 DEF C!StartSplit
  <2>3. QED BY <2>1, <2>2
<1>3. ASSUME C!AccountsAccepted(r)
      PROVE  job'[r] \in C!Jobs
  <2>1. job[r] \in C!Jobs /\ Len(charges) \in Nat
    BY <1>3, Held DEF C!AccountsAccepted, C!Steps
  <2>2. [job[r] EXCEPT !.step = "score", !.from = Len(charges)] \in C!Jobs
    BY <2>1 DEF C!Jobs, C!Steps
  <2>3. job' = [job EXCEPT ![r] = [job[r] EXCEPT !.step = "score", !.from = Len(charges)]]
    BY <1>3 DEF C!AccountsAccepted
  <2>4. QED BY <2>2, <2>3
<1>4. ASSUME C!Scored(r)
      PROVE  job'[r] \in C!Jobs
  <2>1. job[r] \in C!Jobs
    BY <1>4, Held DEF C!Scored, C!Steps
  <2>2. [job[r] EXCEPT !.step = "book"] \in C!Jobs
    BY <2>1 DEF C!Jobs, C!Steps
  <2>3. job' = [job EXCEPT ![r] = [job[r] EXCEPT !.step = "book"]]
    BY <1>4 DEF C!Scored
  <2>4. QED BY <2>2, <2>3
<1>5. QED BY <1>1, <1>2, <1>3, <1>4

\* A step by another call writes an entry, or leaves balance and rows as read.
LEMMA PayoutJobsNext ==
  MarketTypes /\ MarketTypes' /\ Grown /\ Entered /\ PayoutJobs /\ [Next]_vars => PayoutJobs'
<1> SUFFICES ASSUME MarketTypes, MarketTypes', Grown, Entered, PayoutJobs, [Next]_vars,
                    NEW r \in Requests, NEW asked \in P!Jobs, job'[r] = asked,
                    asked.step # "balance"
             PROVE  Stands(asked)'
  BY DEF PayoutJobs
<1>0. PICK n \in Nat, m \in Nat, k \in Nat :
        /\ n = Len(ledger) /\ m = Len(payouts) /\ k = Len(ledger') /\ n <= k
        /\ k = n => Len(payouts') = m /\ balance' = balance
  BY DEF MarketTypes, Grown
<1>1. JobFate(r)
  BY JobFates
<1>2. Passed(asked.amount, m, n)' <=> Passed(asked.amount, m, n)
  <2>1. PICK a : a = asked.amount
    OBVIOUS
  <2>2. Passed(a, m, n)' <=> Passed(a, m, n)
    BY <1>0, PassedSame
  <2>3. QED BY <2>1, <2>2
<1>3. ASSUME Stands(asked) PROVE Stands(asked)'
  <2>1. asked.from \in Nat
    BY DEF P!Jobs
  <2>2. /\ asked.from <= n
        /\ asked.from = n =>
             balance >= asked.amount /\ (asked.step = "commit" => Passed(asked.amount, m, n))
    BY <1>0, <1>3 DEF Stands
  <2>3. ASSUME asked.from = k
        PROVE  /\ balance' >= asked.amount
               /\ asked.step = "commit" => Passed(asked.amount, Len(payouts), Len(ledger))'
    <3>1. k = n
      BY <1>0, <2>1, <2>2, <2>3
    <3>2. Len(payouts') = m /\ balance' = balance /\ Len(ledger') = n
      BY <1>0, <3>1
    <3>3. Passed(asked.amount, Len(payouts), Len(ledger))' <=> Passed(asked.amount, m, n)'
      BY <3>2 DEF Passed
    <3>4. QED BY <1>2, <2>2, <2>3, <3>1, <3>2, <3>3
  <2>4. asked.from <= k
    BY <1>0, <2>1, <2>2
  <2>5. QED BY <1>0, <2>3, <2>4 DEF Stands
<1>4. CASE job'[r] = job[r]
  BY <1>3, <1>4 DEF PayoutJobs
<1>5. CASE job'[r] = NoJob
  BY <1>5, KindsApart
<1>6. ASSUME NEW key \in PayoutKeys, NEW amount \in PayoutAmounts, P!Start(r, key, amount)
      PROVE  FALSE
  BY <1>6 DEF P!Start, MarketTypes
<1>7. CASE P!BalanceAccepted(r)
  <2>1. PICK old \in P!Jobs : old = job[r]
    BY <1>7, Held DEF P!BalanceAccepted, P!Steps
  <2>2. /\ job' = [job EXCEPT ![r] = [old EXCEPT !.step = "fraud", !.from = n]]
        /\ balance >= old.amount /\ UNCHANGED <<ledger, balance>>
    BY <1>0, <1>7, <2>1 DEF P!BalanceAccepted, P!money
  <2>3. asked.step = "fraud" /\ asked.from = n /\ asked.amount = old.amount
    BY <2>1, <2>2 DEF MarketTypes, P!Jobs
  <2>4. QED BY <1>0, <2>2, <2>3 DEF Stands
<1>8. CASE P!FraudAccepted(r)
  <2>1. PICK old \in P!Jobs : old = job[r]
    BY <1>8, Held DEF P!FraudAccepted, P!Steps
  <2>2. /\ job' = [job EXCEPT ![r] = [old EXCEPT !.step = "commit"]] /\ old.step = "fraud"
        /\ UNCHANGED <<ledger, balance, payouts>>
        /\ \E scores \in P!Evaluations(r) : ~P!Blocked(scores)
    BY <1>8, <2>1 DEF P!FraudAccepted, P!money, P!Goto, P!At
  <2>3. asked.from = old.from /\ asked.amount = old.amount
    BY <2>1, <2>2 DEF MarketTypes, P!Jobs
  <2>4. Stands(old)
    BY <2>1, <2>2 DEF PayoutJobs
  <2>5. old.from = n => Passed(old.amount, m, n)
    BY <1>0, <2>1, <2>2, EvaluationIs DEF Passed
  <2>6. Stands(asked)
    BY <1>0, <2>3, <2>4, <2>5 DEF Stands
  <2>7. QED BY <1>3, <2>6
<1>9. CASE job'[r] \in C!Jobs
  BY <1>9, KindsApart
<1>10. QED
  BY <1>1, <1>4, <1>5, <1>6, <1>7, <1>8, <1>9, ChargeJobStarts DEF JobFate

\* There is no payout at first, and no debt.
LEMMA PayoutsMadeInit == Init => PayoutsMade
BY AmountsAre DEF Init, P!Init, PayoutsMade

\* Whether a payout was overlapped, and what the rules say of it, stays.
LEMMA OverlapKept ==
  ASSUME MarketTypes, MarketTypes', Entered, Entered', Grown, NEW i \in 1..Len(payouts)
  PROVE  /\ P!Overlapped(i)' <=> P!Overlapped(i)
         /\ Passed(payouts[i].amount, i - 1, P!EntryOf(i) - 1)'
              <=> Passed(payouts[i].amount, i - 1, P!EntryOf(i) - 1)
<1>1. PICK e \in 1..Len(ledger) : e = P!EntryOf(i)
  BY EntryIs
<1>2. P!EntryOf(i)' = e
  BY <1>1, EntryKept
<1>3. payouts'[i].from = payouts[i].from /\ payouts'[i].amount = payouts[i].amount
  BY DEF Grown
<1>4. /\ i - 1 \in Nat /\ i - 1 <= Len(payouts)
      /\ e - 1 \in Nat /\ e - 1 <= Len(ledger)
  <2>1. Len(payouts) \in Nat /\ Len(ledger) \in Nat
    BY DEF MarketTypes
  <2>2. QED BY <2>1
<1>5. PICK a : a = payouts[i].amount
  OBVIOUS
<1>6. PICK m \in Nat : m = i - 1
  BY <1>4
<1>7. PICK n \in Nat : n = e - 1
  BY <1>4
<1>8. Passed(a, m, n)' <=> Passed(a, m, n)
  BY <1>4, <1>6, <1>7, PassedSame
<1>9. Passed(payouts[i].amount, i - 1, P!EntryOf(i) - 1)' <=> Passed(a, m, n)'
  <2>1. payouts'[i].amount = a /\ i - 1 = m /\ P!EntryOf(i)' - 1 = n
    BY <1>2, <1>3, <1>5, <1>6, <1>7
  <2>2. QED BY ONLY <2>1 DEF Passed
<1>10. Passed(payouts[i].amount, i - 1, P!EntryOf(i) - 1) <=> Passed(a, m, n)
  BY <1>1, <1>5, <1>6, <1>7
<1>11. P!Overlapped(i)' <=> P!Overlapped(i)
  BY <1>1, <1>2, <1>3 DEF P!Overlapped
<1>12. QED BY <1>8, <1>9, <1>10, <1>11

\* A payout made without an overlap has its amount and the rules' consent.
LEMMA PayoutsMadeNext ==
  /\ MarketTypes /\ MarketTypes' /\ Grown /\ Entered /\ Entered' /\ PayoutJobs /\ PayoutsMade
  /\ [Next]_vars
  => PayoutsMade'
<1> SUFFICES ASSUME MarketTypes, MarketTypes', Grown, Entered, Entered', PayoutJobs, PayoutsMade,
                    [Next]_vars
             PROVE  PayoutsMade'
  OBVIOUS
<1>0. /\ Len(ledger) \in Nat /\ Len(payouts) \in Nat /\ Len(payouts') \in Nat
      /\ balance \in Int /\ Len(payouts) <= Len(payouts')
  BY DEF MarketTypes, Grown
<1>1. ASSUME Len(payouts') = Len(payouts), balance' >= balance
      PROVE  PayoutsMade'
  <2>1. balance' \in Int
    BY DEF MarketTypes
  <2>2. QED BY <1>0, <1>1, <2>1, OverlapKept DEF PayoutsMade
<1>2. ASSUME NEW r \in Requests, P!Commit(r) \/ P!ReplyLost(r)
      PROVE  PayoutsMade'
  <2>1. PICK asked \in P!Jobs : asked = job[r] /\ asked.step = "commit"
    BY <1>2, PaidOut
  <2>2. /\ PayoutRow(r) \in PayoutRows /\ PayoutEntry(r) \in EntryRows
        /\ payouts' = Append(payouts, PayoutRow(r))
        /\ ledger' = Append(ledger, PayoutEntry(r))
        /\ balance' = balance - asked.amount
    BY <1>2, <2>1, PaidOut
  <2>3. PICK n \in Nat, m \in Nat : n = Len(ledger) /\ m = Len(payouts)
    BY <1>0
  <2>4. Len(payouts') = m + 1 /\ payouts'[m + 1] = PayoutRow(r)
    BY <2>2, <2>3, AppendGrows DEF MarketTypes
  <2>5. Len(ledger') = n + 1 /\ ledger'[n + 1] = PayoutEntry(r)
    BY <2>2, <2>3, AppendGrows DEF MarketTypes
  <2>6. P!EntryOf(m + 1)' = n + 1
    <3>1. DOMAIN ledger' = 1..(n + 1)
      BY <2>5 DEF MarketTypes
    <3>2. PICK i \in 1..Len(payouts') : i = m + 1
      BY <2>4
    <3>3. ledger'[n + 1].ref = "pout" /\ ledger'[n + 1].id = i
      BY <2>3, <2>5, <3>2 DEF PayoutEntry, P!Entry
    <3>4. \A e \in 1..(n + 1) : ledger'[e].ref = "pout" /\ ledger'[e].id = i => e = n + 1
      BY <2>5, <3>3 DEF Entered, IsEntryOf
    <3>5. QED BY <3>1, <3>2, <3>3, <3>4 DEF P!EntryOf
  <2>7. payouts'[m + 1].from = asked.from /\ payouts'[m + 1].amount = asked.amount
    BY <2>1, <2>4 DEF PayoutRow
  <2>8. P!Overlapped(m + 1)' <=> asked.from # n
    BY <2>3, <2>6, <2>7 DEF P!Overlapped, P!Jobs
  <2>9. Stands(asked)
    BY <2>1 DEF PayoutJobs
  <2>10. asked.from = n => balance >= asked.amount /\ Passed(asked.amount, m, n)
    BY <2>1, <2>3, <2>9 DEF Stands
  <2>11. \A i \in 1..Len(payouts') : i \in 1..Len(payouts) \/ i = m + 1
    BY <2>3, <2>4
  <2>12. (\A i \in 1..Len(payouts') : ~P!Overlapped(i)') => balance' >= 0
    <3>1. m + 1 \in 1..Len(payouts')
      BY <2>4
    <3>2. asked.amount \in Nat
      BY AmountsAre DEF P!Jobs
    <3>3. (\A i \in 1..Len(payouts') : ~P!Overlapped(i)') => asked.from = n
      BY <2>8, <3>1
    <3>4. QED BY <1>0, <2>2, <2>10, <3>2, <3>3
  <2>13. ~P!Overlapped(m + 1)' => Passed(payouts[m + 1].amount, m + 1 - 1, P!EntryOf(m + 1) - 1)'
    <3>1. PICK a : a = asked.amount
      OBVIOUS
    <3>2. Passed(a, m, n)' <=> Passed(a, m, n)
      BY <2>3, PassedSame
    <3>3. m + 1 - 1 = m /\ n + 1 - 1 = n
      OBVIOUS
    <3>4. Passed(payouts[m + 1].amount, m + 1 - 1, P!EntryOf(m + 1) - 1)' <=> Passed(a, m, n)'
      BY <2>6, <2>7, <3>1, <3>3 DEF Passed
    <3>5. QED BY <2>8, <2>10, <3>1, <3>2, <3>4
  <2>14. \A i \in 1..Len(payouts') :
          ~P!Overlapped(i)' => Passed(payouts[i].amount, i - 1, P!EntryOf(i) - 1)'
    BY <2>11, <2>13, OverlapKept DEF PayoutsMade
  <2>15. QED BY <2>12, <2>14 DEF PayoutsMade
<1>3. ASSUME NEW r \in Requests, C!Commit(r) \/ C!ReplyLost(r), UNCHANGED payouts
      PROVE  PayoutsMade'
  <2>1. balance' = balance + job[r].split /\ job[r] \in C!Jobs
    BY <1>3, Booked
  <2>2. job[r].split \in Nat
    BY <2>1, AmountsAre DEF C!Jobs
  <2>3. QED BY <1>0, <1>1, <1>3, <2>1, <2>2
<1>4. ASSUME NEW a \in Admins, P!SettlePaid(a) \/ P!SettleFailed(a)
      PROVE  PayoutsMade'
  <2>1. PICK i : i = admin[a]
    OBVIOUS
  <2>2. /\ i \in 1..Len(payouts) /\ payouts[i].status = "PENDING"
        /\ payouts[i] \in PayoutRows
        /\ \/ /\ payouts' = [payouts EXCEPT ![i].status = "PAID"]
              /\ UNCHANGED <<balance, ledger>>
           \/ /\ payouts' = [payouts EXCEPT ![i].status = "FAILED"]
              /\ balance' = balance + payouts[i].amount
    BY <1>4, <2>1, Settled
  <2>3. Len(payouts') = Len(payouts)
    BY <2>2, RowSettled
  <2>4. payouts[i].amount \in Nat
    BY <2>2, PayoutRowIs
  <2>5. QED BY <1>0, <1>1, <2>2, <2>3, <2>4
<1>5. CASE UNCHANGED <<balance, payouts>>
  BY <1>0, <1>1, <1>5
<1>6. ASSUME NEW r \in Requests, QuietP(r) PROVE PayoutsMade'
  BY <1>5, <1>6, QuietPType
<1>7. ASSUME NEW r \in Requests, QuietC(r), UNCHANGED payouts PROVE PayoutsMade'
  BY <1>5, <1>7, QuietCType
<1>8. ASSUME NEW a \in Admins,
             (\E i \in DOMAIN payouts : P!ReadOpen(a, i)) \/ P!SettleAborts(a)
      PROVE  PayoutsMade'
  BY <1>5, <1>8 DEF P!ReadOpen, P!SettleAborts
<1>9. CASE UNCHANGED vars
  BY <1>5, <1>9 DEF vars
<1>10. QED
  BY <1>2, <1>3, <1>4, <1>6, <1>7, <1>8, <1>9, MarketSteps

\* Call r has key k in Redis.
Holds(r, k) == job[r] \in P!Jobs /\ job[r].key = k

\* The payouts key k has made.
Copies(k) == {i \in 1..Len(payouts) : payouts[i].key = k}

\* Of a key that is free, or whose call has not committed, every payout lost its
\* reply; of any key all but one did.
Keyed ==
  /\ \A q, r \in Requests, k \in PayoutKeys : Holds(q, k) /\ Holds(r, k) => q = r
  /\ \A r \in Requests, k \in PayoutKeys : Holds(r, k) => k \in payoutKey
  /\ \A k \in PayoutKeys :
       /\ Cardinality(Copies(k)) <= lost + 1
       /\ k \notin payoutKey \/ (\E r \in Requests : Holds(r, k))
            => Cardinality(Copies(k)) <= lost

\* There is no payout at first.
LEMMA KeyedInit == Init => Keyed
<1> SUFFICES ASSUME Init PROVE Keyed
  OBVIOUS
<1>1. payouts = <<>> /\ lost = 0 /\ \A r \in Requests : job[r] = NoJob
  BY DEF Init, P!Init
<1>2. \A k \in PayoutKeys : Copies(k) = {}
  BY <1>1 DEF Copies
<1>3. \A k \in PayoutKeys : Cardinality(Copies(k)) = 0
  BY <1>2, FS_EmptySet
<1>4. \A r \in Requests, k \in PayoutKeys : ~Holds(r, k)
  BY <1>1, KindsApart DEF Holds
<1>5. QED BY <1>1, <1>3, <1>4 DEF Keyed

\* A key has finitely many payouts.
LEMMA CopiesFinite ==
  ASSUME MarketTypes, NEW k
  PROVE  IsFiniteSet(Copies(k)) /\ Cardinality(Copies(k)) \in Nat
<1>1. Copies(k) \in SUBSET (1..Len(payouts)) /\ Len(payouts) \in Nat
  BY DEF Copies, MarketTypes
<1>2. IsFiniteSet(1..Len(payouts))
  BY <1>1, FS_Interval
<1>3. QED BY <1>1, <1>2, FS_Subset, FS_CardinalityType

\* A step that makes no payout leaves them to their keys.
LEMMA CopiesSame ==
  ASSUME MarketTypes, Grown, Len(payouts') = Len(payouts), NEW k
  PROVE  Copies(k)' = Copies(k)
BY DEF Copies, Grown

\* A step by which no call gets a key and no payout is made.
LEMMA StillKeyed ==
  ASSUME MarketTypes, Keyed, payoutKey' = payoutKey, lost \in Nat, lost' \in Nat, lost <= lost',
         \A k \in PayoutKeys : Copies(k)' = Copies(k),
         \A r \in Requests, k \in PayoutKeys : Holds(r, k)' => Holds(r, k)
  PROVE  Keyed'
<1>1. \A k \in PayoutKeys : Cardinality(Copies(k)) \in Nat
  BY CopiesFinite
<1>2. QED BY <1>1 DEF Keyed

\* SET NX lets one call have a key; only a lost reply frees it after a commit.
LEMMA KeyedNext ==
  MarketTypes /\ MarketTypes' /\ Grown /\ Keyed /\ [Next]_vars => Keyed'
<1> SUFFICES ASSUME MarketTypes, MarketTypes', Grown, Keyed, [Next]_vars PROVE Keyed'
  OBVIOUS
<1>0. lost \in Nat /\ lost' \in Nat /\ lost <= lost' /\ Len(payouts) \in Nat
  BY DEF MarketTypes, Grown
<1>1. \A k \in PayoutKeys : Cardinality(Copies(k)) \in Nat
  BY CopiesFinite
<1>2. ASSUME UNCHANGED <<payoutKey, job>>, Len(payouts') = Len(payouts) PROVE Keyed'
  BY <1>0, <1>2, StillKeyed, CopiesSame DEF Holds
<1>3. ASSUME NEW r \in Requests, payoutKey' = payoutKey, Len(payouts') = Len(payouts),
             NEW x, job' = [job EXCEPT ![r] = x], x \notin P!Jobs
      PROVE  Keyed'
  <2>1. \A q \in Requests, k \in PayoutKeys : Holds(q, k)' => Holds(q, k)
    BY <1>3 DEF Holds, MarketTypes
  <2>2. QED BY <1>0, <1>3, <2>1, StillKeyed, CopiesSame
<1>4. ASSUME NEW r \in Requests, P!BalanceAccepted(r) \/ P!FraudAccepted(r)
      PROVE  Keyed'
  <2>1. PICK old \in P!Jobs : old = job[r]
    BY <1>4, Held DEF P!BalanceAccepted, P!FraudAccepted, P!Steps
  <2>2. payoutKey' = payoutKey /\ Len(payouts') = Len(payouts)
    BY <1>4 DEF P!BalanceAccepted, P!FraudAccepted, P!money
  <2>3. \/ job' = [job EXCEPT ![r] = [old EXCEPT !.step = "fraud", !.from = Len(ledger)]]
        \/ job' = [job EXCEPT ![r] = [old EXCEPT !.step = "commit"]]
    BY <1>4, <2>1 DEF P!BalanceAccepted, P!FraudAccepted, P!Goto
  <2>4. job'[r].key = old.key /\ \A q \in Requests : q # r => job'[q] = job[q]
    BY <2>3 DEF MarketTypes, P!Jobs
  <2>5. \A q \in Requests, k \in PayoutKeys : Holds(q, k)' => Holds(q, k)
    BY <2>1, <2>4 DEF Holds
  <2>6. QED BY <1>0, <2>2, <2>5, StillKeyed, CopiesSame
<1>5. ASSUME NEW r \in Requests, NEW k \in PayoutKeys, NEW amount \in PayoutAmounts,
             P!Start(r, k, amount)
      PROVE  Keyed'
  <2>1. PICK asked : asked = [step |-> "balance", key |-> k, amount |-> amount, from |-> 0]
    OBVIOUS
  <2>2. /\ k \notin payoutKey /\ payoutKey' = payoutKey \cup {k}
        /\ job' = [job EXCEPT ![r] = asked] /\ UNCHANGED <<payouts, lost>>
    BY <1>5, <2>1 DEF P!Start, P!money
  <2>3. \A q \in Requests, kk \in PayoutKeys :
          Holds(q, kk)' => \/ q = r /\ kk = k
                           \/ q # r /\ Holds(q, kk) /\ kk # k
    BY <2>1, <2>2 DEF Holds, MarketTypes, Keyed
  <2>4. \A kk \in PayoutKeys : Copies(kk)' = Copies(kk)
    BY <2>2 DEF Copies
  <2>5. QED BY <1>0, <1>1, <2>2, <2>3, <2>4 DEF Keyed
<1>6. ASSUME NEW r \in Requests, P!Refuse(r)
      PROVE  Keyed'
  <2>1. PICK old \in P!Jobs : old = job[r]
    BY <1>6, Held DEF P!Refuse, P!Steps
  <2>2. old.key \in PayoutKeys /\ Holds(r, old.key)
    BY <2>1 DEF P!Jobs, Holds
  <2>3. /\ payoutKey' = payoutKey \ {old.key} /\ job' = [job EXCEPT ![r] = NoJob]
        /\ UNCHANGED <<payouts, lost>>
    BY <1>6, <2>1 DEF P!Refuse, P!Done, P!money
  <2>4. \A q \in Requests, k \in PayoutKeys : Holds(q, k)' => Holds(q, k) /\ q # r
    BY <2>3, KindsApart DEF Holds, MarketTypes
  <2>5. \A k \in PayoutKeys : Copies(k)' = Copies(k)
    BY <2>3 DEF Copies
  <2>6. QED BY <1>0, <1>1, <2>2, <2>3, <2>4, <2>5 DEF Keyed
<1>7. ASSUME NEW r \in Requests, P!Crash(r) PROVE Keyed'
  BY <1>3, <1>7, KindsApart DEF P!Crash, P!Done, P!money
<1>8. ASSUME NEW r \in Requests, P!Commit(r) \/ P!ReplyLost(r) PROVE Keyed'
  <2>1. PICK old \in P!Jobs : old = job[r]
    BY <1>8, PaidOut
  <2>2. PICK key \in PayoutKeys : key = old.key /\ Holds(r, key)
    BY <2>1 DEF P!Jobs, Holds
  <2>3. /\ PayoutRow(r) \in PayoutRows
        /\ payouts' = Append(payouts, PayoutRow(r))
        /\ job' = [job EXCEPT ![r] = NoJob]
        /\ \/ UNCHANGED <<lost, payoutKey>>
           \/ lost' = lost + 1 /\ payoutKey' = payoutKey \ {key}
    BY <1>8, <2>1, <2>2, PaidOut
  <2>4. PICK n \in Nat : n = Len(payouts)
    BY <1>0
  <2>5. /\ Len(payouts') = n + 1 /\ payouts'[n + 1] = PayoutRow(r)
        /\ \A i \in 1..n : payouts'[i] = payouts[i]
    BY <2>3, <2>4, AppendGrows DEF MarketTypes
  <2>6. payouts'[n + 1].key = key
    BY <2>1, <2>2, <2>5 DEF PayoutRow
  <2>7. Copies(key)' = Copies(key) \cup {n + 1} /\ n + 1 \notin Copies(key)
    BY <2>4, <2>5, <2>6 DEF Copies
  <2>8. \A k \in PayoutKeys : k # key => Copies(k)' = Copies(k)
    BY <2>4, <2>5, <2>6 DEF Copies
  <2>9. Cardinality(Copies(key)') = Cardinality(Copies(key)) + 1
    <3>1. PICK m : m = n + 1
      OBVIOUS
    <3>2. QED BY <2>7, <3>1, CopiesFinite, FS_AddElement
  <2>10. \A q \in Requests, k \in PayoutKeys : Holds(q, k)' => Holds(q, k) /\ q # r /\ k # key
    BY <2>2, <2>3, KindsApart DEF Holds, MarketTypes, Keyed
  <2>11. Cardinality(Copies(key)) <= lost /\ key \in payoutKey
    BY <2>2 DEF Keyed
  <2>12. Cardinality(Copies(key)') <= lost + 1 /\ Cardinality(Copies(key)') \in Nat
    BY <1>0, <1>1, <2>9, <2>11
  <2>13. \A k \in PayoutKeys : k # key =>
           /\ Cardinality(Copies(k)') <= lost + 1
           /\ k \notin payoutKey \/ (\E q \in Requests : Holds(q, k)')
                => Cardinality(Copies(k)') <= lost
    BY <2>8, <2>10 DEF Keyed
  <2>14. \A k \in PayoutKeys : Cardinality(Copies(k)') \in Nat
    BY <1>1, <2>8, <2>12
  <2>15. \A k \in PayoutKeys :
           /\ Cardinality(Copies(k)') <= lost' + 1
           /\ k \notin payoutKey' \/ (\E q \in Requests : Holds(q, k)')
                => Cardinality(Copies(k)') <= lost'
    <3>1. CASE UNCHANGED <<lost, payoutKey>>
      BY <2>10, <2>11, <2>12, <2>13, <3>1
    <3>2. CASE lost' = lost + 1 /\ payoutKey' = payoutKey \ {key}
      BY <1>0, <2>12, <2>13, <2>14, <3>2
    <3>3. QED BY <2>3, <3>1, <3>2
  <2>16. \A q \in Requests, k \in PayoutKeys : Holds(q, k)' => k \in payoutKey'
    BY <2>3, <2>10 DEF Keyed
  <2>17. \A p, q \in Requests, k \in PayoutKeys : Holds(p, k)' /\ Holds(q, k)' => p = q
    BY <2>10 DEF Keyed
  <2>18. QED BY <2>15, <2>16, <2>17 DEF Keyed
<1>9. ASSUME NEW r \in Requests, QuietC(r), UNCHANGED <<payoutKey, payouts>> PROVE Keyed'
  <2>1. PICK x \in C!Jobs \cup {NoJob} : job' = [job EXCEPT ![r] = x]
    BY <1>9, QuietCType DEF JobIsSet
  <2>2. QED BY <1>3, <1>9, <2>1, KindsApart
<1>10. ASSUME NEW r \in Requests, C!Commit(r) \/ C!ReplyLost(r),
              UNCHANGED <<payoutKey, payouts>>
       PROVE  Keyed'
  <2>1. job' = [job EXCEPT ![r] = NoJob]
    BY <1>10, Booked
  <2>2. QED BY <1>3, <1>10, <2>1, KindsApart
<1>11. ASSUME NEW a \in Admins, P!SettlePaid(a) \/ P!SettleFailed(a) PROVE Keyed'
  <2>1. PICK i : i = admin[a]
    OBVIOUS
  <2>2. /\ i \in 1..Len(payouts) /\ payouts[i].status = "PENDING"
        /\ UNCHANGED <<payoutKey, job>>
        /\ \/ payouts' = [payouts EXCEPT ![i].status = "PAID"]
           \/ payouts' = [payouts EXCEPT ![i].status = "FAILED"]
    BY <1>11, <2>1, Settled
  <2>3. Len(payouts') = Len(payouts)
    BY <2>2, RowSettled
  <2>4. QED BY <1>2, <2>2, <2>3
<1>12. ASSUME NEW a \in Admins,
              (\E i \in DOMAIN payouts : P!ReadOpen(a, i)) \/ P!SettleAborts(a)
       PROVE  Keyed'
  BY <1>2, <1>12 DEF P!ReadOpen, P!SettleAborts, P!created
<1>13. CASE UNCHANGED vars
  BY <1>2, <1>13 DEF vars
<1>14. QED
  BY <1>4, <1>5, <1>6, <1>7, <1>8, <1>9, <1>10, <1>11, <1>12, <1>13, MarketSteps DEF QuietP

\* The thresholds are such that the rule on duplicates, 70, blocks alone, as the
\* defaults of FRAUD_FLAG_THRESHOLD and FRAUD_BLOCK_THRESHOLD are.
DuplicatesBlock ==
  /\ FlagThreshold \in Int /\ BlockThreshold \in Int
  /\ FlagThreshold <= BlockThreshold /\ BlockThreshold <= 70

\* The evaluation of a charge has found no earlier charge of its amount.
ChargeStands(asked) ==
  /\ asked.from <= Len(charges)
  /\ asked.step = "book" => \A i \in 1..asked.from : charges[i].amount # asked.amount

ChargeJobs ==
  \A r \in Requests, asked \in C!Jobs :
    job[r] = asked /\ asked.scored /\ asked.step # "accounts" => ChargeStands(asked)

\* A charge whose amount was charged before its evaluation began is BLOCKED.
LEMMA DuplicateScores ==
  ASSUME MarketTypes, DuplicatesBlock, NEW r \in Requests, NEW asked \in C!Jobs, job[r] = asked,
         asked.from <= Len(charges),
         NEW i \in 1..asked.from, charges[i].amount = asked.amount,
         NEW score \in C!Scores(r)
  PROVE  C!Verdict(score) = "BLOCKED"
<1> DEFINE read(rule) == {C!Rules(job[r].amount, n)[rule] : n \in job[r].from..Len(charges)}
<1>1. PICK a \in read(1), b \in read(2), c \in read(3), d \in read(4), e \in read(5), f \in read(6) :
        score = a + b + c + d + e + f
  <2>1. score \in C!Scores(r)
    OBVIOUS
  <2>2. QED BY ONLY <2>1, SMTT(60) DEF C!Scores
<1> HIDE DEF read
<1>2. asked.from \in Nat /\ Len(charges) \in Nat
  BY DEF C!Jobs, MarketTypes
<1>3. ASSUME NEW n \in asked.from..Len(charges)
      PROVE  C!DuplicateCharge(C!Count(n, LAMBDA x : x = asked.amount)) = 70
  <2>1. n \in Nat /\ i \in 1..n
    BY <1>2
  <2> DEFINE same == {k \in 1..n : charges[k].amount = asked.amount}
  <2>2. C!Count(n, LAMBDA x : x = asked.amount) = Cardinality(same)
    BY MarketLibrary DEF C!Count
  <2>3. i \in same
    BY <2>1
  <2>4. IsFiniteSet(same)
    <3>1. IsFiniteSet(1..n) /\ same \in SUBSET (1..n)
      BY <2>1, FS_Interval
    <3> HIDE DEF same
    <3>2. QED BY ONLY <3>1, FS_Subset
  <2> HIDE DEF same
  <2>5. Cardinality(same) \in Nat /\ Cardinality(same) # 0
    BY ONLY <2>3, <2>4, FS_CardinalityType, FS_EmptySet
  <2>6. Cardinality(same) >= 1
    BY <2>5
  <2>7. QED BY <2>2, <2>6 DEF C!DuplicateCharge, C!Score
<1>4. ASSUME NEW n \in asked.from..Len(charges)
      PROVE  /\ C!Rules(asked.amount, n)[1] \in Nat /\ C!Rules(asked.amount, n)[2] = 70
             /\ C!Rules(asked.amount, n)[3] \in Nat /\ C!Rules(asked.amount, n)[4] \in Nat
             /\ C!Rules(asked.amount, n)[5] \in Nat /\ C!Rules(asked.amount, n)[6] \in Nat
  <2>1. C!Rules(asked.amount, n)[2] = 70
    BY <1>3 DEF C!Rules
  <2>2. QED
    BY <2>1 DEF C!Rules, C!VelocityCharge, C!CardTesting, C!AccountAgeTooLow, C!RefundRateTooHigh,
                C!UnusualAmount, C!Score
<1>5. a \in Nat /\ b = 70 /\ c \in Nat /\ d \in Nat /\ e \in Nat /\ f \in Nat
  BY <1>4, SMTT(40) DEF read
<1>6. score \in Int /\ score >= 70
  BY ONLY <1>1, <1>5
<1>7. ~(score < FlagThreshold) /\ ~(score < BlockThreshold) /\ score >= BlockThreshold
  BY <1>6 DEF DuplicatesBlock
<1>8. QED BY <1>7 DEF C!Verdict

\* Rows are only added after the evaluation began.
LEMMA ChargeJobsNext ==
  /\ DuplicatesBlock
  /\ MarketTypes /\ MarketTypes' /\ Grown /\ ChargeJobs /\ [Next]_vars
  => ChargeJobs'
<1> SUFFICES ASSUME DuplicatesBlock, MarketTypes, MarketTypes', Grown, ChargeJobs, [Next]_vars,
                    NEW r \in Requests, NEW asked \in C!Jobs, job'[r] = asked,
                    asked.scored, asked.step # "accounts"
             PROVE  ChargeStands(asked)'
  BY DEF ChargeJobs
<1>1. JobFate(r)
  BY JobFates
<1>2. Len(charges) \in Nat /\ Len(charges') \in Nat /\ asked.from \in Nat
  BY DEF MarketTypes, C!Jobs
<1>3. ASSUME ChargeStands(asked) PROVE ChargeStands(asked)'
  BY <1>2, <1>3 DEF ChargeStands, Grown
<1>4. CASE job'[r] = job[r]
  BY <1>3, <1>4 DEF ChargeJobs
<1>5. CASE job'[r] = NoJob
  BY <1>5, KindsApart
<1>6. ASSUME NEW k \in PayoutKeys, NEW amount \in PayoutAmounts, P!Start(r, k, amount)
      PROVE  FALSE
  <2>1. PICK x : x = [step |-> "balance", key |-> k, amount |-> amount, from |-> 0]
    OBVIOUS
  <2>2. job'[r] = x
    BY <1>6, <2>1 DEF P!Start, MarketTypes
  <2>3. x \in P!Jobs
    BY <2>1 DEF P!Jobs, P!Steps
  <2>4. QED BY <2>2, <2>3, KindsApart
<1>7. ASSUME P!BalanceAccepted(r) PROVE FALSE
  <2>1. PICK old \in P!Jobs : old = job[r]
    BY <1>7, Held DEF P!BalanceAccepted, P!Steps
  <2>2. PICK n \in Nat : n = Len(ledger)
    BY DEF MarketTypes
  <2>3. PICK x : x = [old EXCEPT !.step = "fraud", !.from = n]
    OBVIOUS
  <2>4. job'[r] = x
    BY <1>7, <2>1, <2>2, <2>3 DEF P!BalanceAccepted, MarketTypes
  <2>5. x \in P!Jobs
    BY <2>3 DEF P!Jobs, P!Steps
  <2>6. QED BY <2>4, <2>5, KindsApart
<1>8. ASSUME P!FraudAccepted(r) PROVE FALSE
  <2>1. PICK old \in P!Jobs : old = job[r]
    BY <1>8, Held DEF P!FraudAccepted, P!Steps
  <2>2. PICK x : x = [old EXCEPT !.step = "commit"]
    OBVIOUS
  <2>3. job'[r] = x
    <3>1. job' = [job EXCEPT ![r] = [job[r] EXCEPT !.step = "commit"]]
      BY <1>8 DEF P!FraudAccepted, P!Goto
    <3>2. QED BY <2>1, <2>2, <3>1 DEF MarketTypes
  <2>4. x \in P!Jobs
    BY <2>2 DEF P!Jobs, P!Steps
  <2>5. QED BY <2>3, <2>4, KindsApart
<1>9. ASSUME NEW amount \in ChargeAmounts, NEW k \in ChargeKeys, NEW split \in Splits,
             C!StartIntegration(r, k, amount, split)
      PROVE  FALSE
  BY <1>9 DEF C!StartIntegration, C!Call, MarketTypes
<1>10. ASSUME NEW amount \in ChargeAmounts, NEW k \in ChargeKeys \cup {NoKey},
              C!StartSplit(r, k, amount)
       PROVE  FALSE
  <2>1. PICK x : x = [C!Call(k, amount, amount, FALSE) EXCEPT !.step = "book"]
    OBVIOUS
  <2>2. job'[r] = x
    BY <1>10, <2>1 DEF C!StartSplit, MarketTypes
  <2>3. ~x.scored
    BY <2>1 DEF C!Call
  <2>4. QED BY <2>2, <2>3
<1>11. CASE C!AccountsAccepted(r)
  <2>1. PICK old \in C!Jobs : old = job[r]
    BY <1>11, Held DEF C!AccountsAccepted, C!Steps
  <2>2. PICK x : x = [old EXCEPT !.step = "score", !.from = Len(charges)]
    OBVIOUS
  <2>3. job'[r] = x
    BY <1>11, <2>1, <2>2 DEF C!AccountsAccepted, MarketTypes
  <2>4. x.step = "score" /\ x.from = Len(charges)
    BY <2>1, <2>2 DEF C!Jobs
  <2>5. ChargeStands(asked)
    BY <1>2, <2>3, <2>4 DEF ChargeStands
  <2>6. QED BY <1>3, <2>5
<1>12. CASE C!Scored(r)
  <2>1. PICK old \in C!Jobs : old = job[r] /\ old.step = "score"
    BY <1>12, Held DEF C!Scored, C!Steps, C!At
  <2>2. PICK x : x = [old EXCEPT !.step = "book"]
    OBVIOUS
  <2>3. job'[r] = x
    BY <1>12, <2>1, <2>2 DEF C!Scored, MarketTypes
  <2>4. x.from = old.from /\ x.amount = old.amount /\ x.scored = old.scored
    BY <2>1, <2>2 DEF C!Jobs
  <2>5. ChargeStands(old)
    BY <2>1, <2>3, <2>4 DEF ChargeJobs
  <2>6. old.from <= Len(charges)
    BY <2>5 DEF ChargeStands
  <2>7. PICK score \in C!Scores(r) : C!Verdict(score) # "BLOCKED"
    BY <1>12 DEF C!Scored
  <2>8. \A i \in 1..old.from : charges[i].amount # old.amount
    BY <2>1, <2>6, <2>7, DuplicateScores
  <2>9. ChargeStands(asked)
    BY <2>3, <2>4, <2>6, <2>8 DEF ChargeStands
  <2>10. QED BY <1>3, <2>9
<1>13. QED
  BY <1>1, <1>4, <1>5, <1>6, <1>7, <1>8, <1>9, <1>10, <1>11, <1>12 DEF JobFate

\* Only the transaction of a charge writes charges.
LEMMA ChargesSteps ==
  ASSUME MarketTypes, [Next]_vars
  PROVE  \/ UNCHANGED charges
         \/ \E r \in Requests : C!Commit(r) \/ C!ReplyLost(r)
<1>1. \A r \in Requests : QuietC(r) => UNCHANGED charges
  BY QuietCType
<1>2. QED BY <1>1, MarketSteps DEF vars

\* MarketplaceCharge.idempotencyKey is unique.
LEMMA ChargeKeysNext ==
  MarketTypes /\ C!OneChargePerKey /\ [Next]_vars => C!OneChargePerKey'
<1> SUFFICES ASSUME MarketTypes, C!OneChargePerKey, [Next]_vars PROVE C!OneChargePerKey'
  OBVIOUS
<1>1. CASE UNCHANGED charges
  BY <1>1 DEF C!OneChargePerKey
<1>2. ASSUME NEW r \in Requests, C!Commit(r) \/ C!ReplyLost(r) PROVE C!OneChargePerKey'
  <2>1. ~C!KeyTaken(job[r].key) /\ charges' = Append(charges, ChargeRow(r))
    BY <1>2, Booked
  <2>2. ChargeRow(r).key = job[r].key
    BY DEF ChargeRow
  <2>3. PICK n \in Nat : n = Len(charges) /\ DOMAIN charges = 1..n
    BY DEF MarketTypes
  <2>4. /\ \A i \in 1..n : charges'[i] = charges[i]
        /\ charges'[n + 1] = ChargeRow(r) /\ DOMAIN charges' = 1..(n + 1)
    BY <2>1, <2>3 DEF MarketTypes
  <2>5. \A i \in 1..(n + 1) : i \in 1..n \/ i = n + 1
    OBVIOUS
  <2>6. \A i \in 1..n : charges[i].key = job[r].key => job[r].key = NoKey
    BY <2>1, <2>3 DEF C!KeyTaken
  <2>7. QED BY <2>2, <2>3, <2>4, <2>5, <2>6 DEF C!OneChargePerKey
<1>3. QED BY <1>1, <1>2, ChargesSteps

\* A charge scored is committed after every charge of its amount it could see.
LEMMA SameAmountNext ==
  MarketTypes /\ ChargeJobs /\ C!SameAmountOnlyByOverlap /\ [Next]_vars
    => C!SameAmountOnlyByOverlap'
<1> SUFFICES ASSUME MarketTypes, ChargeJobs, C!SameAmountOnlyByOverlap, [Next]_vars
             PROVE  C!SameAmountOnlyByOverlap'
  OBVIOUS
<1>1. CASE UNCHANGED charges
  BY <1>1 DEF C!SameAmountOnlyByOverlap
<1>2. ASSUME NEW r \in Requests, C!Commit(r) \/ C!ReplyLost(r)
      PROVE  C!SameAmountOnlyByOverlap'
  <2>1. PICK asked \in C!Jobs :
          asked = job[r] /\ asked.step = "book" /\ charges' = Append(charges, ChargeRow(r))
    BY <1>2, Booked
  <2>2. PICK row : /\ row = ChargeRow(r) /\ row.amount = asked.amount
                   /\ row.scored = asked.scored /\ row.from = asked.from
    BY <2>1 DEF ChargeRow
  <2>3. PICK n \in Nat : n = Len(charges) /\ DOMAIN charges = 1..n
    BY DEF MarketTypes
  <2>4. /\ \A i \in 1..n : charges'[i] = charges[i]
        /\ charges'[n + 1] = row /\ DOMAIN charges' = 1..(n + 1)
    BY <2>1, <2>2, <2>3 DEF MarketTypes
  <2>5. \A i \in 1..(n + 1) : i \in 1..n \/ i = n + 1
    OBVIOUS
  <2>6. \A i \in 1..n : row.scored /\ charges[i].amount = row.amount => i > row.from
    <3>1. row.scored => \A i \in 1..row.from : charges[i].amount # row.amount
      BY <2>1, <2>2 DEF ChargeJobs, ChargeStands
    <3>2. row.from \in Nat
      BY <2>2 DEF C!Jobs
    <3>3. QED BY <3>1, <3>2
  <2>7. \A i, j \in 1..(n + 1) :
          i < j /\ charges'[j].scored /\ charges'[i].amount = charges'[j].amount
            => i > charges'[j].from
    <3>1. ASSUME NEW i \in 1..(n + 1), NEW j \in 1..(n + 1), i < j
          PROVE  i \in 1..n
      BY <3>1
    <3>2. QED BY <2>3, <2>4, <2>5, <2>6, <3>1 DEF C!SameAmountOnlyByOverlap
  <2>8. QED BY <2>4, <2>7 DEF C!SameAmountOnlyByOverlap
<1>3. QED BY <1>1, <1>2, ChargesSteps

\* The inductive invariants: of the money, and of the rules on charges.
MarketInv ==
  /\ MarketTypes /\ Money /\ Entered /\ PayoutJobs /\ PayoutsMade /\ Keyed
  /\ C!OneChargePerKey

RulesInv == MarketTypes /\ ChargeJobs /\ C!SameAmountOnlyByOverlap

\* Both hold at first.
LEMMA MarketInvInit == Init => MarketInv /\ RulesInv
<1> SUFFICES ASSUME Init PROVE MarketInv /\ RulesInv
  OBVIOUS
<1>1. charges = <<>> /\ \A r \in Requests : job[r] = NoJob
  BY DEF Init, P!Init, C!Init
<1>2. PayoutJobs /\ ChargeJobs
  BY <1>1, KindsApart DEF PayoutJobs, ChargeJobs
<1>3. C!OneChargePerKey /\ C!SameAmountOnlyByOverlap
  BY <1>1 DEF C!OneChargePerKey, C!SameAmountOnlyByOverlap
<1>4. QED
  BY <1>2, <1>3, MarketTypesInit, MoneyInit, EnteredInit, PayoutsMadeInit, KeyedInit
  DEF MarketInv, RulesInv

\* Every step keeps the first.
LEMMA MarketInvNext == MarketInv /\ [Next]_vars => MarketInv'
BY MarketTypesNext, MoneyNext, EnteredNext, PayoutJobsNext, PayoutsMadeNext, KeyedNext,
   ChargeKeysNext
DEF MarketInv

\* Every step keeps the second, if duplicates block.
LEMMA RulesInvNext == DuplicatesBlock /\ RulesInv /\ [Next]_vars => RulesInv'
BY MarketTypesNext, ChargeJobsNext, SameAmountNext DEF RulesInv

\* The invariant is stronger than the properties.
LEMMA MarketInvMeans ==
  MarketInv => /\ MoneyIsExplained /\ PaidOncePerKey /\ P!BlockedOnlyPassesByOverlap
<1> SUFFICES ASSUME MarketInv
             PROVE  /\ MoneyIsExplained /\ PaidOncePerKey /\ P!BlockedOnlyPassesByOverlap
  OBVIOUS
<1>1. /\ ledger \in Seq(EntryRows) /\ payouts \in Seq(PayoutRows)
      /\ charges \in Seq(ChargeRows) /\ lost \in Nat
  BY DEF MarketInv, MarketTypes
<1>2. DOMAIN payouts = 1..Len(payouts)
  BY <1>1
<1>3. C!Credited = CreditedBy(charges)
  BY <1>1, CreditedIs DEF C!Credited
<1>4. P!Taken = TakenBy(payouts)
  BY <1>1, TakenIs DEF P!Taken, NotFailed
<1>5. P!OverdraftOnlyByStaleBalance
  <2>1. balance \in Int
    BY DEF MarketInv, MarketTypes
  <2>2. QED BY <1>2, <2>1 DEF MarketInv, PayoutsMade, P!OverdraftOnlyByStaleBalance
<1>6. MoneyIsExplained
  BY <1>3, <1>4, <1>5 DEF MoneyIsExplained, MarketInv, Money
<1>7. P!CopiesOnlyByLostReply
  <2>1. ASSUME NEW k \in PayoutKeys
        PROVE  P!Cardinality({i \in DOMAIN payouts : payouts[i].key = k}) <= 1 + lost
    <3>1. Cardinality(Copies(k)) <= lost + 1
      BY DEF MarketInv, Keyed
    <3>2. P!Cardinality({i \in DOMAIN payouts : payouts[i].key = k}) = Cardinality(Copies(k))
      BY <1>2, MarketLibrary DEF Copies
    <3>3. lost + 1 = 1 + lost
      BY <1>1
    <3>4. QED BY <3>1, <3>2, <3>3
  <2>2. QED BY <2>1 DEF P!CopiesOnlyByLostReply
<1>8. PaidOncePerKey
  BY <1>7 DEF PaidOncePerKey, MarketInv
<1>9. P!BlockedOnlyPassesByOverlap
  <2>1. \A i \in DOMAIN payouts :
          ~P!Overlapped(i) => Passed(payouts[i].amount, i - 1, P!EntryOf(i) - 1)
    BY <1>2 DEF MarketInv, PayoutsMade
  <2>2. QED BY <2>1 DEF P!BlockedOnlyPassesByOverlap, Passed, P!Blocked
<1>10. QED BY <1>6, <1>8, <1>9

\* Every step leaves payouts that were settled alone.
LEMMA SettledKept == MarketTypes /\ [Next]_vars => [P!KeepsSettled]_vars
<1> SUFFICES ASSUME MarketTypes, [Next]_vars PROVE P!KeepsSettled
  OBVIOUS
<1>1. Grown /\ DOMAIN payouts = 1..Len(payouts)
  BY MarketTypesNext DEF MarketTypes
<1>2. QED BY <1>1 DEF Grown, P!KeepsSettled

-----------------------------------------------------------------------------
(* Wallets and rides.                                                      *)

\* A call of WalletService under way, and what a transaction writes.
CallRecords == [req : WalletRequests, held : 0..2, step : {"find", "update"}]

Written == Users \cup {RidePlatform} \cup RideIds

\* Types.
RideTypes ==
  /\ walletBalance \in [Users -> Int]
  /\ IsFiniteSet(walletLedger) /\ \A row \in walletLedger : row.amount \in Int
  /\ \A row \in walletLedger : row.by \in {"p2p", "raw", "ride"}
  /\ call \in [WalletCalls -> CallRecords \cup {NoCall}] /\ told \in SUBSET WalletRequests
  /\ ride \in [RideIds -> {"NONE", "CHECKED", "CREATED", "SETTLED"}]
  /\ method \in [RideIds -> {"CARD", "CASH"}] /\ fare \in [RideIds -> Nat]
  /\ rideJob \in [Workers -> W!Jobs \cup {NoJob}] /\ finalizing \in SUBSET RideIds

\* A row of WalletService comes with the other of its request.
RequestedRows ==
  \A row \in walletLedger : row.by # "ride" =>
    \E q \in WalletRequests : row \in W!RowsOf(q) /\ W!RowsOf(q) \subseteq walletLedger

\* What a ride that is settled has booked, and a finalization.
SettledRows ==
  \A r \in RideIds :
    /\ ride[r] = "SETTLED" => fare[r] \in Fares
    /\ W!RideRows(r) = IF ride[r] = "SETTLED" THEN W!SettlementRows(r, fare[r]) ELSE {}

FinalizedRows ==
  \A r \in RideIds :
    W!FinalRows(r) = {} \/ \E debit \in BOOLEAN : W!FinalRows(r) = W!FinalizeRows(r, debit)

\* What a settlement has read still is so while nobody has written it.
Settles(w) == rideJob[w] # NoJob /\ rideJob[w].op = "settle"

ReadsCurrent ==
  \A w \in Workers : Settles(w) =>
    LET r == rideJob[w].ride IN
    /\ rideJob[w].step = "commit" /\ rideJob[w].fare \in Fares
    /\ ride[r] = "CREATED" \/ (ride[r] = "SETTLED" /\ r \in rideJob[w].dirty)
    /\ method[r] = "CASH" /\ W!Split(rideJob[w].fare).platform > 0 /\ Driver[r] \notin rideJob[w].dirty =>
         walletBalance[Driver[r]] - W!Split(rideJob[w].fare).platform >= Floor

RidesInv ==
  /\ RideTypes /\ RequestedRows /\ W!BalancesMatchLedger /\ W!AnsweredIsBooked
  /\ SettledRows /\ FinalizedRows /\ W!DuplicateIsBooked /\ ReadsCurrent

\* The sum of the library.
LEMMA TotalIs == \A rows : W!Total(rows) = SumFunctionOnSet([row \in rows |-> row.amount], rows)
BY DEF W!Total, SumFunctionOnSet, W!SumFunctionOnSet,
       FoldFunctionOnSet, W!FoldFunctionOnSet, MapThenFoldSet, W!MapThenFoldSet

\* The assumptions on the constants.
LEMMA RidesAssumed ==
  /\ WalletFunds \in [Users -> Int]
  /\ \A q \in WalletRequests :
       /\ q.op \in {"transfer", "deposit", "fee"} /\ q.user \in Users /\ q.peer \in Users
       /\ q.amount \in Nat \ {0}
  /\ Passenger \in [RideIds -> Users] /\ Driver \in [RideIds -> Users]
  /\ NoJob \notin W!Jobs
<1>1. \A q \in WalletRequests :
        /\ q.op \in {"transfer", "deposit", "fee"} /\ q.user \in Users /\ q.peer \in Users
        /\ q.amount \in Nat \ {0}
  BY RidesAssumption DEF W!RequestsAssumption
<1>2. WalletFunds \in [Users -> Int]
  BY RidesAssumption DEF W!FundsAssumption
<1>3. Passenger \in [RideIds -> Users] /\ Driver \in [RideIds -> Users]
  BY RidesAssumption DEF W!RidesAssumption
<1>4. NoJob \notin W!Jobs
  BY RidesAssumption DEF W!NoJobAssumption
<1>5. QED BY ONLY <1>1, <1>2, <1>3, <1>4

LEMMA RatesAssumed ==
  /\ \A f \in Fares : f \in Nat /\ f >= 100
  /\ Bps \in 0..10000
  /\ Floor \in Int
  /\ Base \in Nat \ {0} /\ Commission \in 0..Base /\ Tip \in Nat
<1>1. \A f \in Fares : f \in Nat /\ f >= 100
  <2>1. Fares \subseteq Nat \ 0..99
    BY RidesAssumption DEF W!FaresAssumption
  <2>2. QED BY ONLY <2>1
<1>2. Bps \in 0..10000
  BY RidesAssumption DEF W!FaresAssumption
<1>3. Floor \in Int
  BY RidesAssumption DEF W!FloorAssumption
<1>4. Base \in Nat \ {0} /\ Commission \in 0..Base /\ Tip \in Nat
  <2>1. W!FinalizeAssumption
    BY RidesAssumption
  <2>2. QED BY ONLY <2>1 DEF W!FinalizeAssumption
<1>5. QED BY ONLY <1>1, <1>2, <1>3, <1>4

\* Totals of sets of rows.
LEMMA TotalType ==
  ASSUME NEW S, IsFiniteSet(S), \A row \in S : row.amount \in Int
  PROVE  W!Total(S) \in Int
<1>1. PICK f : f = [row \in S |-> row.amount]
  OBVIOUS
<1>2. \A row \in S : f[row] \in Int
  BY <1>1
<1>3. W!Total(S) = SumFunctionOnSet(f, S)
  BY <1>1, TotalIs
<1>4. QED BY ONLY <1>2, <1>3, SumType, IsFiniteSet(S)

LEMMA TotalEmpty == W!Total({}) = 0
BY TotalIs, SumEmpty

LEMMA TotalUnion ==
  ASSUME NEW S, IsFiniteSet(S), \A row \in S : row.amount \in Int,
         NEW T, IsFiniteSet(T), \A row \in T : row.amount \in Int, S \cap T = {}
  PROVE  W!Total(S \cup T) = W!Total(S) + W!Total(T)
<1>1. PICK f : f = [row \in S |-> row.amount]
  OBVIOUS
<1>2. PICK g : g = [row \in T |-> row.amount]
  OBVIOUS
<1>3. PICK h : h = [row \in S \cup T |-> row.amount]
  OBVIOUS
<1>4. /\ \A row \in S : h[row] = f[row] /\ f[row] \in Int
      /\ \A row \in T : h[row] = g[row] /\ g[row] \in Int
      /\ \A row \in S \cup T : h[row] \in Int
  BY <1>1, <1>2, <1>3
<1>5. /\ W!Total(S) = SumFunctionOnSet(f, S) /\ W!Total(T) = SumFunctionOnSet(g, T)
      /\ W!Total(S \cup T) = SumFunctionOnSet(h, S \cup T)
  BY <1>1, <1>2, <1>3, TotalIs
<1>6. SumFunctionOnSet(h, S) = SumFunctionOnSet(f, S)
  BY ONLY <1>4, SumSame, IsFiniteSet(S)
<1>7. SumFunctionOnSet(h, T) = SumFunctionOnSet(g, T)
  BY ONLY <1>4, SumSame, IsFiniteSet(T)
<1>8. SumFunctionOnSet(h, S \cup T) = SumFunctionOnSet(h, S) + SumFunctionOnSet(h, T)
  BY ONLY <1>4, SumUnion, IsFiniteSet(S), IsFiniteSet(T), S \cap T = {}
<1>9. QED BY ONLY <1>5, <1>6, <1>7, <1>8

LEMMA TotalOne ==
  ASSUME NEW row, row.amount \in Int
  PROVE  IsFiniteSet({row}) /\ W!Total({row}) = row.amount
<1>1. PICK f : f = [x \in {row} |-> x.amount]
  OBVIOUS
<1>2. f[row] = row.amount /\ f[row] \in Int
  BY <1>1
<1>3. W!Total({row}) = SumFunctionOnSet(f, {row})
  BY <1>1, TotalIs
<1>4. QED BY ONLY <1>2, <1>3, SumSingleton, FS_Singleton, row.amount \in Int

LEMMA TotalAdd ==
  ASSUME NEW S, IsFiniteSet(S), \A x \in S : x.amount \in Int,
         NEW row, row.amount \in Int, row \notin S
  PROVE  IsFiniteSet(S \cup {row}) /\ W!Total(S \cup {row}) = W!Total(S) + row.amount
<1>1. IsFiniteSet({row}) /\ W!Total({row}) = row.amount
  BY TotalOne
<1>2. S \cap {row} = {} /\ \A x \in {row} : x.amount \in Int
  OBVIOUS
<1>3. W!Total(S \cup {row}) = W!Total(S) + W!Total({row})
  BY <1>1, <1>2, TotalUnion
<1>4. QED BY <1>1, <1>3, FS_AddElement

-----------------------------------------------------------------------------
(* Booking. *)

\* New rows: finitely many, of integers.
NewRows(rows) ==
  IsFiniteSet(rows) /\ (\A row \in rows : row.amount \in Int) /\ rows \cap walletLedger = {}

Balanced ==
  /\ walletBalance \in [Users -> Int]
  /\ IsFiniteSet(walletLedger) /\ \A row \in walletLedger : row.amount \in Int
  /\ W!BalancesMatchLedger

LEMMA BookKeeps ==
  ASSUME Balanced, NEW rows, NewRows(rows), W!Book(rows)
  PROVE  /\ Balanced' /\ walletLedger' = walletLedger \cup rows
         /\ \A u \in Users : walletBalance'[u] = walletBalance[u] + W!Booked(rows, u)
         /\ \A u \in Users : W!Booked(rows, u) \in Int
<1>1. /\ walletLedger' = walletLedger \cup rows
      /\ walletBalance' = [u \in Users |-> walletBalance[u] + W!Booked(rows, u)]
  BY DEF W!Book
<1>2. ASSUME NEW u \in Users
      PROVE  /\ W!Booked(rows, u) \in Int
             /\ W!Booked(walletLedger', u) = W!Booked(walletLedger, u) + W!Booked(rows, u)
             /\ W!Booked(walletLedger, u) \in Int
  <2> DEFINE S == {row \in walletLedger : row.user = u}
             T == {row \in rows : row.user = u}
  <2>1. IsFiniteSet(S) /\ IsFiniteSet(T)
    BY FS_Subset DEF Balanced, NewRows
  <2>2. (\A row \in S : row.amount \in Int) /\ (\A row \in T : row.amount \in Int) /\ S \cap T = {}
    BY DEF Balanced, NewRows
  <2>3. {row \in walletLedger' : row.user = u} = S \cup T
    BY <1>1
  <2>4. /\ W!Booked(walletLedger', u) = W!Total(S \cup T)
        /\ W!Booked(walletLedger, u) = W!Total(S) /\ W!Booked(rows, u) = W!Total(T)
    BY <2>3 DEF W!Booked
  <2> HIDE DEF S, T
  <2>5. W!Total(S \cup T) = W!Total(S) + W!Total(T) /\ W!Total(S) \in Int /\ W!Total(T) \in Int
    BY <2>1, <2>2, TotalUnion, TotalType
  <2>6. QED BY <2>4, <2>5
<1>3. IsFiniteSet(walletLedger') /\ \A row \in walletLedger' : row.amount \in Int
  BY <1>1, FS_Union DEF Balanced, NewRows
<1>4. walletBalance' \in [Users -> Int]
  BY <1>1, <1>2 DEF Balanced
<1>5. W!BalancesMatchLedger'
  <2>1. ASSUME NEW u \in Users
        PROVE  walletBalance'[u] = WalletFunds[u] + W!Booked(walletLedger', u)
    <3>1. walletBalance[u] = WalletFunds[u] + W!Booked(walletLedger, u) /\ WalletFunds[u] \in Int
      BY RidesAssumed DEF Balanced, W!BalancesMatchLedger
    <3>2. walletBalance'[u] = walletBalance[u] + W!Booked(rows, u)
      BY <1>1
    <3>3. QED BY <1>2, <3>1, <3>2
  <2>2. QED BY <2>1 DEF W!BalancesMatchLedger
<1>6. \A u \in Users : walletBalance'[u] = walletBalance[u] + W!Booked(rows, u)
  BY <1>1
<1>7. QED BY <1>1, <1>2, <1>3, <1>4, <1>5, <1>6 DEF Balanced

LEMMA BookedOther ==
  ASSUME NEW rows, NEW u, u \notin {row.user : row \in rows}
  PROVE  W!Booked(rows, u) = 0
<1>1. {row \in rows : row.user = u} = {}
  OBVIOUS
<1>2. QED BY <1>1, TotalEmpty DEF W!Booked

-----------------------------------------------------------------------------
(* The rows of each kind. *)

RideKinds == {"stx:passenger", "stx:driver", "stx:platform", "stx:commission", "stx:commission:platform"}
FinalKinds == {"ride:debit", "ride:driver", "ride:platform", "ride:tip"}

LEMMA RowKindsApart == RideKinds \cap FinalKinds = {}
BY DEF RideKinds, FinalKinds

\* The rows of a request are of WalletService.
LEMMA RequestRows ==
  ASSUME NEW q \in WalletRequests
  PROVE  /\ IsFiniteSet(W!RowsOf(q))
         /\ \A row \in W!RowsOf(q) :
              /\ row.amount \in Int /\ row.user \in Users /\ row.by = W!By(q)
              /\ row.ref \in W!Range(W!Refs(q))
         /\ W!Refs(q)[1] \in W!Range(W!Refs(q))
<1>1. q.op \in {"transfer", "deposit", "fee"} /\ q.user \in Users /\ q.peer \in Users /\ q.amount \in Nat
  BY RidesAssumed
<1>2. q.amount \in Int /\ -q.amount \in Int
  BY <1>1
<1>6. PICK by : by = W!By(q)
  OBVIOUS
<1>3. CASE q.op = "transfer"
  <2>1. /\ W!Legs(q) = <<W!Leg(q.user, -q.amount), W!Leg(q.peer, q.amount)>>
        /\ W!Refs(q) = << <<"out", q.key>>, <<"in", q.key>> >>
    BY <1>3 DEF W!Legs, W!Refs
  <2>2. PICK l1, l2, f1, f2 : /\ l1 = W!Leg(q.user, -q.amount) /\ l2 = W!Leg(q.peer, q.amount)
                              /\ f1 = <<"out", q.key>> /\ f2 = <<"in", q.key>>
    OBVIOUS
  <2>3. W!Legs(q) = <<l1, l2>> /\ W!Refs(q) = <<f1, f2>>
    BY <2>1, <2>2
  <2>5. /\ l1.user \in Users /\ l2.user \in Users /\ l1.amount \in Int /\ l2.amount \in Int
    BY <1>1, <1>2, <2>2 DEF W!Leg
  <2>6. /\ DOMAIN W!Legs(q) = {1, 2} /\ W!Legs(q)[1] = l1 /\ W!Legs(q)[2] = l2
        /\ W!Refs(q)[1] = f1 /\ W!Refs(q)[2] = f2
        /\ W!Range(W!Refs(q)) = {f1, f2}
    BY <2>3 DEF W!Range
  <2>7. W!RowsOf(q) = {[ref |-> f1, user |-> l1.user, amount |-> l1.amount, by |-> by],
                       [ref |-> f2, user |-> l2.user, amount |-> l2.amount, by |-> by]}
    BY <1>6, <2>6 DEF W!RowsOf
  <2>8. IsFiniteSet(W!RowsOf(q))
    <3>1. PICK x, y : /\ x = [ref |-> f1, user |-> l1.user, amount |-> l1.amount, by |-> by]
                      /\ y = [ref |-> f2, user |-> l2.user, amount |-> l2.amount, by |-> by]
      OBVIOUS
    <3>2. W!RowsOf(q) = {x} \cup {y}
      BY <2>7, <3>1
    <3>3. IsFiniteSet({x} \cup {y})
      BY ONLY FS_Singleton, FS_AddElement
    <3>4. QED BY <3>2, <3>3
  <2>9. QED BY <1>6, <2>5, <2>6, <2>7, <2>8
<1>4. CASE q.op # "transfer"
  <2>1. PICK l, f : /\ l \in {W!Leg(q.user, -q.amount), W!Leg(q.user, q.amount)}
                    /\ W!Legs(q) = <<l>> /\ f = q.key /\ W!Refs(q) = <<f>>
    BY <1>1, <1>4 DEF W!Legs, W!Refs
  <2>2. l.user \in Users /\ l.amount \in Int
    BY <1>1, <1>2, <2>1 DEF W!Leg
  <2>4. DOMAIN W!Legs(q) = {1} /\ W!Legs(q)[1] = l /\ W!Refs(q)[1] = f /\ W!Range(W!Refs(q)) = {f}
    BY <2>1 DEF W!Range
  <2>5. W!RowsOf(q) = {[ref |-> f, user |-> l.user, amount |-> l.amount, by |-> by]}
    BY <1>6, <2>4 DEF W!RowsOf
  <2>6. IsFiniteSet(W!RowsOf(q))
    BY <2>5, FS_Singleton
  <2>7. QED BY <1>6, <2>2, <2>4, <2>5, <2>6
<1>5. QED BY <1>3, <1>4

\* The references of transfers are built, whatever strings the others carry.
LEMMA BuiltRefs ==
  ASSUME NEW q \in WalletRequests
  PROVE  /\ W!By(q) \in {"p2p", "raw"}
         /\ W!By(q) = "p2p" => /\ W!Refs(q)[1] = <<"out", q.key>>
                               /\ W!Range(W!Refs(q)) = {<<"out", q.key>>, <<"in", q.key>>}
         /\ W!By(q) = "raw" => W!Refs(q)[1] = q.key /\ W!Range(W!Refs(q)) = {q.key}
<1>1. CASE q.op = "transfer"
  <2>1. PICK x, y : x = <<"out", q.key>> /\ y = <<"in", q.key>>
    OBVIOUS
  <2>2. W!Refs(q) = <<x, y>> /\ W!By(q) = "p2p"
    BY <1>1, <2>1 DEF W!Refs, W!By
  <2>3. W!Refs(q)[1] = x /\ W!Range(W!Refs(q)) = {x, y}
    BY <2>2 DEF W!Range
  <2>4. QED BY <2>1, <2>2, <2>3
<1>2. CASE q.op # "transfer"
  <2>1. PICK x : x = q.key
    OBVIOUS
  <2>2. W!Refs(q) = <<x>> /\ W!By(q) = "raw"
    BY <1>2, <2>1 DEF W!Refs, W!By
  <2>3. W!Refs(q)[1] = x /\ W!Range(W!Refs(q)) = {x}
    BY <2>2 DEF W!Range
  <2>4. QED BY <2>1, <2>2, <2>3
<1>3. QED BY <1>1, <1>2

\* Among references that came about alike, the first tells the others.
LEMMA SameRefs ==
  ASSUME NEW q \in WalletRequests, NEW other \in WalletRequests,
         W!By(other) = W!By(q), W!Refs(q)[1] \in W!Range(W!Refs(other))
  PROVE  W!Range(W!Refs(other)) = W!Range(W!Refs(q))
<1> PICK a, b : a = "out" /\ b = "in" /\ a # b
  OBVIOUS
<1>1. CASE W!By(q) = "p2p"
  <2>1. /\ W!Refs(q)[1] = <<a, q.key>> /\ W!Range(W!Refs(q)) = {<<a, q.key>>, <<b, q.key>>}
        /\ W!Range(W!Refs(other)) = {<<a, other.key>>, <<b, other.key>>}
    BY <1>1, BuiltRefs
  <2>2. other.key = q.key
    BY <2>1
  <2>3. QED BY <2>1, <2>2
<1>2. CASE W!By(q) = "raw"
  BY <1>2, BuiltRefs
<1>3. QED BY <1>1, <1>2, BuiltRefs

\* Splitting a fare.
LEMMA SplitIs ==
  ASSUME NEW f \in Fares
  PROVE  /\ W!Split(f).platform \in 0..f /\ W!Split(f).driver = f - W!Split(f).platform
         /\ W!Split(f).driver \in Nat /\ f \in Nat /\ f >= 100
<1>1. f \in Nat /\ f >= 100 /\ Bps \in 0..10000
  BY RatesAssumed
<1>2. PICK n : n = f
  OBVIOUS
<1>3. PICK b : b = Bps
  OBVIOUS
<1>4. n \in Nat /\ b \in Nat /\ 10000 - b \in Nat
  BY ONLY <1>1, <1>2, <1>3
<1>5. PICK c \in Nat : b + c = 10000
  BY ONLY <1>4
<1>6. n * b \in Nat /\ n * c \in Nat
  BY ONLY <1>4, c \in Nat
<1>7. n * (b + c) = n * b + n * c
  BY ONLY <1>4, c \in Nat
<1>8. PICK p \in Nat : p = n * b
  BY ONLY <1>6
<1>9. PICK q \in Nat : q = n * c
  BY ONLY <1>6
<1>10. p <= n * 10000
  <2>1. n * 10000 = p + q
    BY ONLY <1>5, <1>7, <1>8, <1>9
  <2>2. QED BY ONLY <2>1, p \in Nat, q \in Nat
<1>11. p \div 10000 \in 0..n
  BY ONLY <1>4, <1>10, p \in Nat
<1>12. W!Split(f) = [platform |-> p \div 10000, driver |-> f - (p \div 10000)]
  BY <1>2, <1>3, <1>8 DEF W!Split
<1>13. PICK s \in 0..f : s = p \div 10000
  BY <1>2, <1>11
<1>14. W!Split(f).platform = s /\ W!Split(f).driver = f - s
  BY <1>12, <1>13
<1>15. QED BY <1>1, <1>13, <1>14

-----------------------------------------------------------------------------
(* The rows of rides. *)

\* Rows of kinds K for ride r that a commit may book.
RideBooking(rows, K, r) ==
  /\ IsFiniteSet(rows)
  /\ \A row \in rows : /\ row.amount \in Int /\ row.user \in Users \cup {RidePlatform}
                       /\ row.ref[1] \in K /\ row.ref[2] = r /\ row.by = "ride"

LEMMA RowIs ==
  ASSUME NEW k, NEW r, NEW u, NEW a \in Int
  PROVE  \E x : /\ x = W!Row(<<k, r>>, u, a) /\ x.ref = <<k, r>> /\ x.ref[1] = k /\ x.ref[2] = r
                /\ x.user = u /\ x.amount = a /\ x.amount \in Int /\ x.by = "ride"
<1>1. PICK ref : ref = <<k, r>>
  OBVIOUS
<1>5. ref[1] = k /\ ref[2] = r
  BY <1>1
<1>2. PICK x : x = [ref |-> ref, user |-> u, amount |-> a, by |-> "ride"]
  OBVIOUS
<1>3. x.ref = ref /\ x.user = u /\ x.amount = a /\ x.by = "ride"
  BY <1>2
<1>4. x = W!Row(<<k, r>>, u, a)
  BY <1>1, <1>2 DEF W!Row
<1>6. QED BY <1>1, <1>3, <1>4, <1>5

LEMMA TotalTwo ==
  ASSUME NEW x, NEW y, NEW a \in Int, NEW b \in Int, x.amount = a, y.amount = b, x # y
  PROVE  IsFiniteSet({x} \cup {y}) /\ W!Total({x} \cup {y}) = a + b
<1>1. IsFiniteSet({x}) /\ W!Total({x}) = a
  BY TotalOne
<1>2. \A v \in {x} : v.amount \in Int
  OBVIOUS
<1>3. y \notin {x} /\ y.amount \in Int
  OBVIOUS
<1>4. IsFiniteSet({x} \cup {y}) /\ W!Total({x} \cup {y}) = W!Total({x}) + y.amount
  BY ONLY <1>1, <1>2, <1>3, TotalAdd
<1>5. QED BY <1>1, <1>4

LEMMA SettlementIs ==
  ASSUME NEW r \in RideIds, NEW f \in Fares, method[r] \in {"CARD", "CASH"}
  PROVE  /\ RideBooking(W!SettlementRows(r, f), RideKinds, r)
         /\ W!Total(W!SettlementRows(r, f)) = 0
         /\ W!Total({row \in W!SettlementRows(r, f) : row.amount > 0}) =
              IF method[r] = "CARD" THEN f ELSE W!Split(f).platform
         /\ method[r] = "CASH" /\ W!Split(f).platform = 0 => W!SettlementRows(r, f) = {}
         /\ method[r] = "CASH" /\ W!Split(f).platform # 0 =>
              /\ W!Booked(W!SettlementRows(r, f), Driver[r]) >= -W!Split(f).platform
              /\ \E row \in W!SettlementRows(r, f) : row.user = Driver[r]
<1>1. PICK p \in Nat, d \in Nat, n \in Nat : /\ p = W!Split(f).platform
                                             /\ d = W!Split(f).driver /\ n = f
                                             /\ n = d + p /\ n >= 100
  BY SplitIs
<1>2. -n \in Int /\ p \in Int /\ d \in Int /\ -p \in Int
  BY <1>1
<1>3. Passenger[r] \in Users /\ Driver[r] \in Users
  BY RidesAssumed
<1>4. CASE method[r] = "CARD"
  <2>1. PICK k1, k2, k3 : /\ k1 = "stx:passenger" /\ k2 = "stx:driver" /\ k3 = "stx:platform"
                          /\ k1 # k2 /\ k1 # k3 /\ k2 # k3 /\ {k1, k2, k3} \subseteq RideKinds
    BY DEF RideKinds
  <2>2. PICK x : /\ x = W!Row(<<k1, r>>, Passenger[r], -n) /\ x.ref = <<k1, r>>
                 /\ x.ref[1] = k1 /\ x.ref[2] = r
                 /\ x.by = "ride" /\ x.user = Passenger[r] /\ x.amount = -n /\ x.amount \in Int
    BY <1>2, RowIs
  <2>3. PICK y : /\ y = W!Row(<<k2, r>>, Driver[r], d) /\ y.ref = <<k2, r>> /\ y.ref[1] = k2
                 /\ y.ref[2] = r
                 /\ y.by = "ride" /\ y.user = Driver[r] /\ y.amount = d /\ y.amount \in Int
    BY <1>2, RowIs
  <2>4. PICK z : /\ z = W!Row(<<k3, r>>, RidePlatform, p) /\ z.ref = <<k3, r>> /\ z.ref[1] = k3
                 /\ z.ref[2] = r
                 /\ z.by = "ride" /\ z.user = RidePlatform /\ z.amount = p /\ z.amount \in Int
    BY <1>2, RowIs
  <2>5. x # y /\ x # z /\ y # z
    BY <2>1, <2>2, <2>3, <2>4
  <2>6. W!SettlementRows(r, f) = ({x} \cup {y}) \cup {z}
    BY <1>1, <1>4, <2>1, <2>2, <2>3, <2>4 DEF W!SettlementRows
  <2>7. W!Total({y}) = d /\ W!Total({z}) = p
    BY <2>3, <2>4, TotalOne
  <2>8. W!Total({y} \cup {z}) = d + p
    <3>1. y.amount = d /\ z.amount = p /\ d \in Int /\ p \in Int /\ y # z
      BY <1>2, <2>3, <2>4, <2>5
    <3>2. QED BY ONLY <3>1, TotalTwo
  <2>9. IsFiniteSet(({x} \cup {y}) \cup {z}) /\ W!Total(({x} \cup {y}) \cup {z}) = ((-n) + d) + p
    <3>1. PICK m \in Int : m = -n
      BY <1>2
    <3>2. x.amount = m /\ y.amount = d /\ z.amount = p /\ d \in Int /\ p \in Int
      BY <1>2, <2>2, <2>3, <2>4, <3>1
    <3>3. PICK S : S = {x} \cup {y}
      OBVIOUS
    <3>4. IsFiniteSet(S) /\ W!Total(S) = m + d
      BY <2>5, <3>2, <3>3, TotalTwo
    <3>5. (\A v \in S : v.amount \in Int) /\ z \notin S /\ z.amount \in Int
      BY <2>2, <2>3, <2>4, <2>5, <3>3
    <3>6. IsFiniteSet(S \cup {z}) /\ W!Total(S \cup {z}) = W!Total(S) + z.amount
      BY ONLY <3>4, <3>5, TotalAdd
    <3>7. QED BY ONLY <3>1, <3>2, <3>3, <3>4, <3>6
  <2>10. W!Total(W!SettlementRows(r, f)) = 0
    <3>1. ((-n) + d) + p = 0
      BY ONLY <1>1, n \in Nat, d \in Nat, p \in Nat
    <3>2. QED BY ONLY <2>6, <2>9, <3>1
  <2>11. W!Total({row \in W!SettlementRows(r, f) : row.amount > 0}) = n
    <3>1. ~(x.amount > 0)
      BY <1>1, <2>2
    <3>2. CASE d > 0 /\ p > 0
      <4>1. {row \in W!SettlementRows(r, f) : row.amount > 0} = {y} \cup {z}
        BY <2>3, <2>4, <2>6, <3>1, <3>2
      <4>2. QED BY ONLY <1>1, <2>8, <4>1
    <3>3. CASE d = 0
      <4>1. p > 0
        BY <1>1, <3>3
      <4>2. {row \in W!SettlementRows(r, f) : row.amount > 0} = {z}
        BY <2>3, <2>4, <2>6, <3>1, <3>3, <4>1
      <4>3. n = p
        BY ONLY <1>1, <3>3, n \in Nat, d \in Nat, p \in Nat
      <4>4. QED BY ONLY <2>7, <4>2, <4>3
    <3>4. CASE p = 0
      <4>1. d > 0
        BY <1>1, <3>4
      <4>2. {row \in W!SettlementRows(r, f) : row.amount > 0} = {y}
        BY <2>3, <2>4, <2>6, <3>1, <3>4, <4>1
      <4>3. n = d
        BY ONLY <1>1, <3>4, n \in Nat, d \in Nat, p \in Nat
      <4>4. QED BY ONLY <2>7, <4>2, <4>3
    <3>5. QED BY <1>1, <3>2, <3>3, <3>4
  <2>12. RideBooking(W!SettlementRows(r, f), RideKinds, r)
    BY <1>3, <2>1, <2>2, <2>3, <2>4, <2>6, <2>9 DEF RideBooking
  <2>13. QED BY <1>1, <1>4, <2>10, <2>11, <2>12
<1>5. CASE method[r] = "CASH" /\ p = 0
  <2>1. W!SettlementRows(r, f) = {}
    BY <1>1, <1>5 DEF W!SettlementRows
  <2>2. RideBooking({}, RideKinds, r)
    BY FS_EmptySet DEF RideBooking
  <2>3. {row \in {} : row.amount > 0} = {}
    OBVIOUS
  <2>4. QED BY <1>1, <1>5, <2>1, <2>2, <2>3, TotalEmpty
<1>6. CASE method[r] = "CASH" /\ p # 0
  <2>1. PICK k1, k2 : /\ k1 = "stx:commission" /\ k2 = "stx:commission:platform"
                      /\ k1 # k2 /\ {k1, k2} \subseteq RideKinds
    BY DEF RideKinds
  <2>2. PICK x : /\ x = W!Row(<<k1, r>>, Driver[r], -p) /\ x.ref = <<k1, r>> /\ x.ref[1] = k1
                 /\ x.ref[2] = r
                 /\ x.by = "ride" /\ x.user = Driver[r] /\ x.amount = -p /\ x.amount \in Int
    BY <1>2, RowIs
  <2>3. PICK y : /\ y = W!Row(<<k2, r>>, RidePlatform, p) /\ y.ref = <<k2, r>> /\ y.ref[1] = k2
                 /\ y.ref[2] = r
                 /\ y.by = "ride" /\ y.user = RidePlatform /\ y.amount = p /\ y.amount \in Int
    BY <1>2, RowIs
  <2>4. x # y
    BY <2>1, <2>2, <2>3
  <2>5. W!SettlementRows(r, f) = {x} \cup {y}
    BY <1>1, <1>6, <2>1, <2>2, <2>3 DEF W!SettlementRows
  <2>6. IsFiniteSet({x}) /\ W!Total({x}) = -p /\ W!Total({y}) = p
    BY <2>2, <2>3, TotalOne
  <2>7. IsFiniteSet({x} \cup {y}) /\ W!Total({x} \cup {y}) = (-p) + p
    BY <1>2, <2>2, <2>3, <2>4, TotalTwo
  <2>8. {row \in W!SettlementRows(r, f) : row.amount > 0} = {y}
    BY <1>1, <1>6, <2>2, <2>3, <2>5
  <2>9. RideBooking(W!SettlementRows(r, f), RideKinds, r)
    BY <1>3, <2>1, <2>2, <2>3, <2>5, <2>7 DEF RideBooking
  <2>10. W!Booked(W!SettlementRows(r, f), Driver[r]) \in {-p, 0}
    <3>1. CASE RidePlatform = Driver[r]
      <4>1. {row \in W!SettlementRows(r, f) : row.user = Driver[r]} = {x} \cup {y}
        BY <2>2, <2>3, <2>5, <3>1
      <4>2. W!Booked(W!SettlementRows(r, f), Driver[r]) = W!Total({x} \cup {y})
        BY <4>1 DEF W!Booked
      <4>3. (-p) + p = 0
        BY ONLY p \in Nat
      <4>4. QED BY ONLY <2>7, <4>2, <4>3
    <3>2. CASE RidePlatform # Driver[r]
      <4>1. {row \in W!SettlementRows(r, f) : row.user = Driver[r]} = {x}
        BY <2>2, <2>3, <2>5, <3>2
      <4>2. W!Booked(W!SettlementRows(r, f), Driver[r]) = W!Total({x})
        BY <4>1 DEF W!Booked
      <4>3. QED BY <2>6, <4>2
    <3>3. QED BY <3>1, <3>2
  <2>11. W!Booked(W!SettlementRows(r, f), Driver[r]) >= -p
    BY <2>10
  <2>12. W!Total(W!SettlementRows(r, f)) = 0
    BY <2>5, <2>6, <2>7
  <2>13. \E row \in W!SettlementRows(r, f) : row.user = Driver[r]
    BY <2>2, <2>5
  <2>14. QED BY <1>1, <1>6, <2>6, <2>8, <2>9, <2>11, <2>12, <2>13
<1>7. QED BY <1>4, <1>5, <1>6

LEMMA FinalizeIs ==
  ASSUME NEW r \in RideIds, NEW debit \in BOOLEAN
  PROVE  /\ RideBooking(W!FinalizeRows(r, debit), FinalKinds, r)
         /\ \E row \in W!FinalizeRows(r, debit) : row.ref = <<"ride:driver", r>>
<1>1. Base \in Int /\ -Base \in Int /\ Base - Commission \in Int /\ Commission \in Int /\ Tip \in Int
  BY RatesAssumed
<1>2. Passenger[r] \in Users /\ Driver[r] \in Users
  BY RidesAssumed
<1>3. PICK k1, k2, k3, k4 :
        /\ k1 = "ride:debit" /\ k2 = "ride:driver" /\ k3 = "ride:platform" /\ k4 = "ride:tip"
        /\ {k1, k2, k3, k4} \subseteq FinalKinds
  BY DEF FinalKinds
<1>4. PICK w : /\ w = W!Row(<<k1, r>>, Passenger[r], -Base) /\ w.ref[1] = k1 /\ w.ref[2] = r
               /\ w.by = "ride" /\ w.user = Passenger[r] /\ w.amount \in Int
  BY <1>1, RowIs
<1>5. PICK x : /\ x = W!Row(<<k2, r>>, Driver[r], Base - Commission) /\ x.ref = <<k2, r>>
               /\ x.ref[1] = k2 /\ x.ref[2] = r /\ x.by = "ride" /\ x.user = Driver[r] /\ x.amount \in Int
  BY <1>1, RowIs
<1>6. PICK y : /\ y = W!Row(<<k3, r>>, RidePlatform, Commission) /\ y.ref[1] = k3 /\ y.ref[2] = r
               /\ y.by = "ride" /\ y.user = RidePlatform /\ y.amount \in Int
  BY <1>1, RowIs
<1>7. PICK z : /\ z = W!Row(<<k4, r>>, Driver[r], Tip) /\ z.ref[1] = k4 /\ z.ref[2] = r
               /\ z.by = "ride" /\ z.user = Driver[r] /\ z.amount \in Int
  BY <1>1, RowIs
<1>8. PICK S \in SUBSET {w}, T \in SUBSET {z} : W!FinalizeRows(r, debit) = (S \cup {x, y}) \cup T
  <2>1. {W!Row(<<"ride:debit", r>>, Passenger[r], -Base) : v \in {b \in {debit} : b}} \in SUBSET {w}
    BY <1>3, <1>4
  <2>2. {W!Row(<<"ride:tip", r>>, Driver[r], Tip) : v \in {b \in {Tip} : b > 0}} \in SUBSET {z}
    BY <1>3, <1>7
  <2>3. {W!Row(<<"ride:driver", r>>, Driver[r], Base - Commission),
         W!Row(<<"ride:platform", r>>, RidePlatform, Commission)} = {x, y}
    BY <1>3, <1>5, <1>6
  <2>4. QED BY <2>1, <2>2, <2>3 DEF W!FinalizeRows
<1>9. IsFiniteSet(({w} \cup {x}) \cup ({y} \cup {z}))
  BY ONLY FS_Singleton, FS_AddElement, FS_Union
<1>10. W!FinalizeRows(r, debit) \subseteq ({w} \cup {x}) \cup ({y} \cup {z})
  BY <1>8
<1>11. IsFiniteSet(W!FinalizeRows(r, debit))
  BY <1>9, <1>10, FS_Subset
<1>12. RideBooking(W!FinalizeRows(r, debit), FinalKinds, r)
  BY <1>2, <1>3, <1>4, <1>5, <1>6, <1>7, <1>10, <1>11 DEF RideBooking
<1>13. x \in W!FinalizeRows(r, debit) /\ x.ref = <<"ride:driver", r>>
  BY <1>3, <1>5, <1>8
<1>14. QED BY <1>12, <1>13

\* What a commit adds to the rows of a ride.
LEMMA RowsGrow ==
  ASSUME NEW rows, walletLedger' = walletLedger \cup rows
  PROVE  /\ (\A row \in rows : row.by # "ride") =>
              \A r \in RideIds : W!RideRows(r)' = W!RideRows(r) /\ W!FinalRows(r)' = W!FinalRows(r)
         /\ \A s \in RideIds :
              (\A row \in rows : row.by = "ride" /\ row.ref[1] \in RideKinds /\ row.ref[2] = s) =>
              \A r \in RideIds :
                /\ W!RideRows(r)' = IF r = s THEN W!RideRows(r) \cup rows ELSE W!RideRows(r)
                /\ W!FinalRows(r)' = W!FinalRows(r)
         /\ \A s \in RideIds :
              (\A row \in rows : row.by = "ride" /\ row.ref[1] \in FinalKinds /\ row.ref[2] = s) =>
              \A r \in RideIds :
                /\ W!FinalRows(r)' = IF r = s THEN W!FinalRows(r) \cup rows ELSE W!FinalRows(r)
                /\ W!RideRows(r)' = W!RideRows(r)
<1>1. \A r : /\ W!RideRows(r) = {row \in walletLedger : row.by = "ride" /\ row.ref[2] = r /\ row.ref[1] \in RideKinds}
             /\ W!RideRows(r)' = {row \in walletLedger' : row.by = "ride" /\ row.ref[2] = r /\ row.ref[1] \in RideKinds}
  BY DEF W!RideRows, RideKinds
<1>2. \A r : /\ W!FinalRows(r) = {row \in walletLedger : row.by = "ride" /\ row.ref[2] = r /\ row.ref[1] \in FinalKinds}
             /\ W!FinalRows(r)' = {row \in walletLedger' : row.by = "ride" /\ row.ref[2] = r /\ row.ref[1] \in FinalKinds}
  BY DEF W!FinalRows, FinalKinds
<1>3. ASSUME \A row \in rows : row.by # "ride", NEW r \in RideIds
      PROVE  W!RideRows(r)' = W!RideRows(r) /\ W!FinalRows(r)' = W!FinalRows(r)
  BY <1>1, <1>2, <1>3
<1>4. ASSUME NEW s \in RideIds,
             \A row \in rows : row.by = "ride" /\ row.ref[1] \in RideKinds /\ row.ref[2] = s,
             NEW r \in RideIds
      PROVE  /\ W!RideRows(r)' = IF r = s THEN W!RideRows(r) \cup rows ELSE W!RideRows(r)
             /\ W!FinalRows(r)' = W!FinalRows(r)
  <2>1. \A row \in rows : row.by = "ride" /\ row.ref[1] \in RideKinds /\ row.ref[2] = s
    BY <1>4
  <2>2. W!RideRows(r)' = IF r = s THEN W!RideRows(r) \cup rows ELSE W!RideRows(r)
    BY ONLY <1>1, <2>1, walletLedger' = walletLedger \cup rows
  <2>3. W!FinalRows(r)' = W!FinalRows(r)
    BY ONLY <1>2, <2>1, RowKindsApart, walletLedger' = walletLedger \cup rows
  <2>4. QED BY <2>2, <2>3
<1>5. ASSUME NEW s \in RideIds,
             \A row \in rows : row.by = "ride" /\ row.ref[1] \in FinalKinds /\ row.ref[2] = s,
             NEW r \in RideIds
      PROVE  /\ W!FinalRows(r)' = IF r = s THEN W!FinalRows(r) \cup rows ELSE W!FinalRows(r)
             /\ W!RideRows(r)' = W!RideRows(r)
  <2>1. \A row \in rows : row.by = "ride" /\ row.ref[1] \in FinalKinds /\ row.ref[2] = s
    BY <1>5
  <2>2. W!FinalRows(r)' = IF r = s THEN W!FinalRows(r) \cup rows ELSE W!FinalRows(r)
    BY ONLY <1>2, <2>1, walletLedger' = walletLedger \cup rows
  <2>3. W!RideRows(r)' = W!RideRows(r)
    BY ONLY <1>1, <2>1, RowKindsApart, walletLedger' = walletLedger \cup rows
  <2>4. QED BY <2>2, <2>3
<1>6. QED BY <1>3, <1>4, <1>5

-----------------------------------------------------------------------------
(* The jobs under way. *)

\* Every job goes on but w's, which ends, and sees what was written.
GoesOn(old, new, written) ==
  IF old = NoJob THEN new = NoJob
  ELSE /\ new # NoJob
       /\ new.op = old.op /\ new.step = old.step /\ new.ride = old.ride /\ new.fare = old.fare
       /\ old.dirty \subseteq new.dirty
       /\ old.step = "commit" => written \subseteq new.dirty

JobsGoOn(done, written) ==
  /\ rideJob' \in [Workers -> W!Jobs \cup {NoJob}]
  /\ \A w \in Workers : IF w \in done THEN rideJob'[w] = NoJob ELSE GoesOn(rideJob[w], rideJob'[w], written)

LEMMA JobsSame ==
  ASSUME rideJob \in [Workers -> W!Jobs \cup {NoJob}], rideJob' = rideJob
  PROVE  JobsGoOn({}, {})
BY DEF JobsGoOn, GoesOn

LEMMA OvertakenGoOn ==
  ASSUME rideJob \in [Workers -> W!Jobs \cup {NoJob}], NEW done, NEW written,
         written \subseteq Written,
         rideJob' = W!Overtaken(done, written)
  PROVE  JobsGoOn(done, written)
<1>1. ASSUME NEW w \in Workers
      PROVE  /\ rideJob'[w] \in W!Jobs \cup {NoJob}
             /\ IF w \in done THEN rideJob'[w] = NoJob ELSE GoesOn(rideJob[w], rideJob'[w], written)
  <2>1. rideJob'[w] = IF w \in done THEN NoJob
                  ELSE IF rideJob[w] # NoJob /\ rideJob[w].step = "commit"
                       THEN [rideJob[w] EXCEPT !.dirty = @ \cup written] ELSE rideJob[w]
    BY DEF W!Overtaken
  <2>2. CASE w \in done
    BY <2>1, <2>2
  <2>3. CASE w \notin done /\ rideJob[w] # NoJob /\ rideJob[w].step = "commit"
    <3>1. PICK j \in W!Jobs : j = rideJob[w]
      BY <2>3
    <3>2. j.dirty \cup written \in SUBSET (Users \cup {RidePlatform} \cup RideIds)
      BY DEF W!Jobs, Written
    <3>3. PICK d \in SUBSET (Users \cup {RidePlatform} \cup RideIds) : d = j.dirty \cup written
      BY <3>2
    <3>4. rideJob'[w] = [j EXCEPT !.dirty = d]
      BY <2>1, <2>3, <3>1, <3>3
    <3>5. /\ [j EXCEPT !.dirty = d] \in W!Jobs /\ [j EXCEPT !.dirty = d].dirty = d
          /\ [j EXCEPT !.dirty = d].op = j.op /\ [j EXCEPT !.dirty = d].step = j.step
          /\ [j EXCEPT !.dirty = d].ride = j.ride /\ [j EXCEPT !.dirty = d].fare = j.fare
      BY DEF W!Jobs
    <3>6. rideJob'[w] # NoJob
      BY <3>4, <3>5, RidesAssumed
    <3>7. j.dirty \subseteq d /\ written \subseteq d
      BY <3>3
    <3>8. GoesOn(rideJob[w], rideJob'[w], written)
      BY <2>3, <3>1, <3>4, <3>5, <3>6, <3>7 DEF GoesOn
    <3>9. QED BY <2>3, <3>4, <3>5, <3>8
  <2>4. CASE w \notin done /\ ~(rideJob[w] # NoJob /\ rideJob[w].step = "commit")
    <3>1. rideJob'[w] = rideJob[w]
      BY <2>1, <2>4
    <3>2. GoesOn(rideJob[w], rideJob'[w], written)
      BY <2>4, <3>1 DEF GoesOn
    <3>3. QED BY <2>4, <3>1, <3>2
  <2>5. QED BY <2>2, <2>3, <2>4
<1>2. rideJob' = [w \in Workers |-> rideJob'[w]]
  BY DEF W!Overtaken
<1>3. rideJob' \in [Workers -> W!Jobs \cup {NoJob}]
  BY <1>1, <1>2
<1>4. QED BY <1>1, <1>3 DEF JobsGoOn

\* One worker takes up a job.
LEMMA JobTaken ==
  ASSUME rideJob \in [Workers -> W!Jobs \cup {NoJob}], NEW w \in Workers, NEW j \in W!Jobs,
         rideJob' = [rideJob EXCEPT ![w] = j]
  PROVE  /\ rideJob' \in [Workers -> W!Jobs \cup {NoJob}] /\ rideJob'[w] = j
         /\ \A v \in Workers : v # w => rideJob'[v] = rideJob[v]
OBVIOUS

\* A settlement's reading stays current: a ride changes only to SETTLED and
\* then, like a wallet, is written for all to see.
ReadOK(j) ==
  j # NoJob /\ j.op = "settle" =>
    /\ j.step = "commit" /\ j.fare \in Fares /\ j.ride \in RideIds
    /\ ride[j.ride] = "CREATED" \/ (ride[j.ride] = "SETTLED" /\ j.ride \in j.dirty)
    /\ method[j.ride] = "CASH" /\ W!Split(j.fare).platform > 0 /\ Driver[j.ride] \notin j.dirty =>
         walletBalance[Driver[j.ride]] - W!Split(j.fare).platform >= Floor

LEMMA ReadsAre ==
  ASSUME rideJob \in [Workers -> W!Jobs \cup {NoJob}]
  PROVE  ReadsCurrent <=> \A w \in Workers : ReadOK(rideJob[w])
<1>1. \A w \in Workers : rideJob[w] # NoJob => rideJob[w].ride \in RideIds
  BY DEF W!Jobs
<1>2. QED BY <1>1 DEF ReadsCurrent, ReadOK, Settles

RidesMove(written) ==
  /\ \A r \in RideIds :
       /\ ride'[r] = ride[r] \/ (ride[r] = "CREATED" /\ ride'[r] = "SETTLED" /\ r \in written)
          \/ ride[r] \in {"NONE", "CHECKED"}
       /\ ride[r] \in {"CREATED", "SETTLED"} => method'[r] = method[r]
  /\ \A u \in Users : u \notin written => walletBalance'[u] = walletBalance[u]

LEMMA ReadKept ==
  ASSUME NEW j, NEW k, NEW written, ReadOK(j), GoesOn(j, k, written), RidesMove(written)
  PROVE  ReadOK(k)'
<1> SUFFICES ASSUME k # NoJob, k.op = "settle" PROVE ReadOK(k)'
  BY DEF ReadOK
<1>1. /\ j # NoJob /\ j.op = "settle" /\ k.step = j.step /\ k.ride = j.ride /\ k.fare = j.fare
      /\ j.dirty \subseteq k.dirty /\ (j.step = "commit" => written \subseteq k.dirty)
  BY DEF GoesOn
<1>2. /\ j.step = "commit" /\ j.fare \in Fares /\ j.ride \in RideIds
      /\ ride[j.ride] = "CREATED" \/ (ride[j.ride] = "SETTLED" /\ j.ride \in j.dirty)
      /\ method[j.ride] = "CASH" /\ W!Split(j.fare).platform > 0 /\ Driver[j.ride] \notin j.dirty =>
           walletBalance[Driver[j.ride]] - W!Split(j.fare).platform >= Floor
  BY <1>1 DEF ReadOK
<1>3. method'[j.ride] = method[j.ride]
  BY <1>2 DEF RidesMove
<1>4. ride'[j.ride] = "CREATED" \/ (ride'[j.ride] = "SETTLED" /\ j.ride \in k.dirty)
  BY <1>1, <1>2 DEF RidesMove
<1>5. ASSUME method[j.ride] = "CASH", W!Split(j.fare).platform > 0, Driver[j.ride] \notin k.dirty
      PROVE  walletBalance'[Driver[j.ride]] - W!Split(j.fare).platform >= Floor
  <2>1. Driver[j.ride] \notin j.dirty /\ Driver[j.ride] \notin written
    BY <1>1, <1>2, <1>5
  <2>2. Driver[j.ride] \in Users
    BY <1>2, RidesAssumed
  <2>3. walletBalance'[Driver[j.ride]] = walletBalance[Driver[j.ride]]
    BY <2>1, <2>2 DEF RidesMove
  <2>4. QED BY <1>2, <1>5, <2>1, <2>3
<1>6. QED BY <1>1, <1>2, <1>3, <1>4, <1>5 DEF ReadOK

LEMMA ReadsKept ==
  ASSUME RideTypes, ReadsCurrent, NEW done, NEW written, JobsGoOn(done, written), RidesMove(written)
  PROVE  ReadsCurrent'
<1>1. ASSUME NEW w \in Workers, NEW k, k = rideJob'[w] PROVE ReadOK(k)'
  <2>1. CASE w \in done
    <3>1. k = NoJob
      BY <1>1, <2>1 DEF JobsGoOn
    <3>2. QED BY <3>1 DEF ReadOK
  <2>2. CASE w \notin done
    <3>0. PICK j : j = rideJob[w]
      OBVIOUS
    <3>1. GoesOn(j, k, written)
      BY <1>1, <2>2, <3>0 DEF JobsGoOn
    <3>2. ReadOK(j)
      BY <3>0, ReadsAre DEF RideTypes
    <3>3. QED BY <3>1, <3>2, ReadKept
  <2>3. QED BY <2>1, <2>2
<1>2. rideJob' \in [Workers -> W!Jobs \cup {NoJob}]
  BY DEF JobsGoOn
<1>3. \A w \in Workers : rideJob'[w] # NoJob => rideJob'[w].ride \in RideIds
  BY <1>2 DEF W!Jobs
<1>4. ASSUME NEW w \in Workers PROVE ReadOK(rideJob[w])'
  BY <1>1
<1>5. ASSUME NEW w \in Workers PROVE Settles(w)' => rideJob'[w].ride \in RideIds
  BY <1>3 DEF Settles
<1>6. QED BY <1>4 DEF ReadsCurrent, ReadOK, Settles
-----------------------------------------------------------------------------
(* Steps that book nothing. *)

LEMMA StillKeeps ==
  ASSUME RidesInv, walletLedger' = walletLedger, walletBalance' = walletBalance
  PROVE  /\ RequestedRows' /\ W!BalancesMatchLedger' /\ FinalizedRows'
         /\ told' \subseteq told => W!AnsweredIsBooked'
         /\ \A r \in RideIds : W!RideRows(r)' = W!RideRows(r) /\ W!FinalRows(r)' = W!FinalRows(r)
<1>1. \A r \in RideIds : W!RideRows(r)' = W!RideRows(r) /\ W!FinalRows(r)' = W!FinalRows(r)
  BY DEF W!RideRows, W!FinalRows
<1>2. RequestedRows'
  BY DEF RidesInv, RequestedRows
<1>3. W!BalancesMatchLedger'
  BY DEF RidesInv, W!BalancesMatchLedger
<1>4. FinalizedRows'
  BY <1>1 DEF RidesInv, FinalizedRows
<1>5. told' \subseteq told => W!AnsweredIsBooked'
  BY DEF RidesInv, W!AnsweredIsBooked
<1>6. QED BY <1>1, <1>2, <1>3, <1>4, <1>5

\* A settled ride stays as it was settled.
LEMMA SettledRideKept ==
  ASSUME SettledRows,
         \A r \in RideIds :
           /\ W!RideRows(r)' = W!RideRows(r)
           /\ ride'[r] = "SETTLED" <=> ride[r] = "SETTLED"
           /\ ride[r] = "SETTLED" => fare'[r] = fare[r] /\ method'[r] = method[r]
  PROVE  SettledRows'
<1>1. ASSUME NEW r \in RideIds
      PROVE  /\ ride'[r] = "SETTLED" => fare'[r] \in Fares
             /\ W!RideRows(r)' = IF ride'[r] = "SETTLED" THEN W!SettlementRows(r, fare[r])' ELSE {}
  <2>1. CASE ride[r] = "SETTLED"
    <3>1. W!SettlementRows(r, fare[r])' = W!SettlementRows(r, fare[r])
      BY <2>1 DEF W!SettlementRows
    <3>2. QED BY <2>1, <3>1 DEF SettledRows
  <2>2. CASE ride[r] # "SETTLED"
    BY <2>2 DEF SettledRows
  <2>3. QED BY <2>1, <2>2
<1>2. QED BY <1>1 DEF SettledRows

\* A finalization under way goes on, or fails and is seen to have.
LEMMA DuplicateKept ==
  ASSUME RideTypes, W!DuplicateIsBooked, NEW done, NEW written, JobsGoOn(done, written),
         \A r \in RideIds : W!FinalRows(r)' = W!FinalRows(r),
         finalizing' \ abandoned' \subseteq finalizing \ abandoned,
         \A w \in Workers \cap done :
           rideJob[w] # NoJob /\ rideJob[w].op = "finalize" => rideJob[w].ride \in abandoned'
  PROVE  W!DuplicateIsBooked'
<1>1. ASSUME NEW r \in finalizing' \ abandoned'
      PROVE  \/ \E w \in Workers : rideJob'[w] # NoJob /\ rideJob'[w].op = "finalize" /\ rideJob'[w].ride = r
             \/ \E debit \in BOOLEAN : W!FinalRows(r)' = W!FinalizeRows(r, debit)
  <2>1. r \in finalizing \ abandoned /\ r \in RideIds
    BY DEF RideTypes
  <2>2. CASE \E w \in Workers : rideJob[w] # NoJob /\ rideJob[w].op = "finalize" /\ rideJob[w].ride = r
    <3>1. PICK w \in Workers : rideJob[w] # NoJob /\ rideJob[w].op = "finalize" /\ rideJob[w].ride = r
      BY <2>2
    <3>2. w \notin done
      BY <3>1
    <3>3. GoesOn(rideJob[w], rideJob'[w], written)
      BY <3>2 DEF JobsGoOn
    <3>4. QED BY <3>1, <3>3 DEF GoesOn
  <2>3. CASE \E debit \in BOOLEAN : W!FinalRows(r) = W!FinalizeRows(r, debit)
    BY <2>1, <2>3
  <2>4. QED BY <2>1, <2>2, <2>3 DEF W!DuplicateIsBooked
<1>2. \A r, debit : W!FinalizeRows(r, debit)' = W!FinalizeRows(r, debit)
  BY DEF W!FinalizeRows
<1>3. QED BY <1>1, <1>2 DEF W!DuplicateIsBooked

\* A worker takes up a job, and nothing else changes but marks of finalizations.
LEMMA JobKeeps ==
  ASSUME RidesInv, NEW w \in Workers, NEW j \in W!Jobs, rideJob' = [rideJob EXCEPT ![w] = j],
         ReadOK(j),
         UNCHANGED <<W!walletVars, ride, method, fare>>, finalizing' \in SUBSET RideIds,
         \A r \in finalizing' \ abandoned' :
           \/ r \in finalizing \ abandoned /\ (rideJob[w] = NoJob \/ (j.op = rideJob[w].op /\ j.ride = rideJob[w].ride))
           \/ j.op = "finalize" /\ j.ride = r
  PROVE  RidesInv'
<1>1. /\ rideJob' \in [Workers -> W!Jobs \cup {NoJob}] /\ rideJob'[w] = j
      /\ \A v \in Workers : v # w => rideJob'[v] = rideJob[v]
  BY JobTaken DEF RidesInv, RideTypes
<1>2. RideTypes'
  BY <1>1 DEF RidesInv, RideTypes, W!walletVars
<1>3. walletLedger' = walletLedger /\ walletBalance' = walletBalance /\ told' = told
  BY DEF W!walletVars
<1>4. /\ RequestedRows' /\ W!BalancesMatchLedger' /\ FinalizedRows' /\ W!AnsweredIsBooked'
      /\ \A r \in RideIds : W!RideRows(r)' = W!RideRows(r) /\ W!FinalRows(r)' = W!FinalRows(r)
  BY <1>3, StillKeeps
<1>5. SettledRows'
  BY <1>4, SettledRideKept DEF RidesInv
<1>6. W!DuplicateIsBooked'
  <2>1. j # NoJob
    BY RidesAssumed
  <2>2. ASSUME NEW r \in finalizing' \ abandoned'
        PROVE  \/ \E v \in Workers : rideJob'[v] # NoJob /\ rideJob'[v].op = "finalize" /\ rideJob'[v].ride = r
               \/ \E debit \in BOOLEAN : W!FinalRows(r)' = W!FinalizeRows(r, debit)
    <3>1. CASE j.op = "finalize" /\ j.ride = r
      BY <1>1, <2>1, <3>1
    <3>2. CASE r \in finalizing \ abandoned /\ (rideJob[w] = NoJob \/ (j.op = rideJob[w].op /\ j.ride = rideJob[w].ride))
      <4>1. CASE \E v \in Workers : rideJob[v] # NoJob /\ rideJob[v].op = "finalize" /\ rideJob[v].ride = r
        <5>1. PICK v \in Workers : rideJob[v] # NoJob /\ rideJob[v].op = "finalize" /\ rideJob[v].ride = r
          BY <4>1
        <5>2. CASE v = w
          BY <1>1, <2>1, <3>2, <5>1, <5>2
        <5>3. CASE v # w
          BY <1>1, <5>1, <5>3
        <5>4. QED BY <5>2, <5>3
      <4>2. CASE \E debit \in BOOLEAN : W!FinalRows(r) = W!FinalizeRows(r, debit)
        BY <1>4, <4>2
      <4>3. QED BY <3>2, <4>1, <4>2 DEF RidesInv, W!DuplicateIsBooked
    <3>3. QED BY <3>1, <3>2
  <2>3. \A r, debit : W!FinalizeRows(r, debit)' = W!FinalizeRows(r, debit)
    BY DEF W!FinalizeRows
  <2>4. QED BY <2>2, <2>3 DEF W!DuplicateIsBooked
<1>7. ReadsCurrent'
  <2>1. \A v \in Workers : ReadOK(rideJob[v])
    BY ReadsAre DEF RidesInv, RideTypes
  <2>2. ASSUME NEW v \in Workers, NEW k, k = rideJob'[v] PROVE ReadOK(k)
    BY <1>1, <2>1, <2>2
  <2>3. ASSUME NEW v \in Workers PROVE ReadOK(rideJob[v])'
    BY <1>3, <2>2 DEF ReadOK
  <2>4. \A v \in Workers : rideJob'[v] # NoJob => rideJob'[v].ride \in RideIds
    BY <1>1 DEF W!Jobs
  <2>5. ASSUME NEW v \in Workers PROVE Settles(v)' => rideJob'[v].ride \in RideIds
    BY <2>4 DEF Settles
  <2>6. QED BY <2>3, <2>5 DEF ReadsCurrent, ReadOK, Settles
<1>8. QED BY <1>2, <1>4, <1>5, <1>6, <1>7 DEF RidesInv
-----------------------------------------------------------------------------
(* The calls of WalletService. *)

\* A call goes on and books nothing.
LEMMA CallKeeps ==
  ASSUME RidesInv, UNCHANGED <<walletBalance, walletLedger>>, rideJob' = W!Overtaken({}, {}),
         UNCHANGED <<ride, method, fare, finalizing, abandoned>>,
         call' \in [WalletCalls -> CallRecords \cup {NoCall}], told' \in SUBSET WalletRequests, W!AnsweredIsBooked'
  PROVE  RidesInv'
<1>1. JobsGoOn({}, {})
  BY OvertakenGoOn DEF RidesInv, RideTypes, Written
<1>2. RideTypes'
  BY <1>1 DEF RidesInv, RideTypes, JobsGoOn
<1>3. /\ RequestedRows' /\ W!BalancesMatchLedger' /\ FinalizedRows'
      /\ \A r \in RideIds : W!RideRows(r)' = W!RideRows(r) /\ W!FinalRows(r)' = W!FinalRows(r)
  BY StillKeeps
<1>4. SettledRows'
  BY <1>3, SettledRideKept DEF RidesInv
<1>5. W!DuplicateIsBooked'
  BY <1>1, <1>3, DuplicateKept DEF RidesInv
<1>6. RidesMove({})
  BY DEF RidesMove
<1>7. ReadsCurrent'
  BY <1>1, <1>6, ReadsKept DEF RidesInv
<1>8. QED BY <1>2, <1>3, <1>4, <1>5, <1>7 DEF RidesInv

\* What is found by the first reference was booked by a request it cannot be
\* told from, or under a reference that came about in another way.
LEMMA KnownIsBooked ==
  ASSUME RequestedRows, NEW q \in WalletRequests, W!Known(q)
  PROVE  \/ \E other \in WalletRequests :
              /\ W!By(other) = W!By(q) /\ W!Range(W!Refs(other)) = W!Range(W!Refs(q))
              /\ W!RowsOf(other) \subseteq walletLedger
         \/ \E row \in walletLedger : row.ref = W!Refs(q)[1] /\ row.by # W!By(q)
<1>1. PICK row \in walletLedger : row.ref = W!Refs(q)[1]
  BY DEF W!Known, W!BookedRefs
<1>2. CASE row.by = W!By(q)
  <2>1. row.by # "ride"
    BY <1>2, BuiltRefs
  <2>2. PICK other \in WalletRequests : row \in W!RowsOf(other) /\ W!RowsOf(other) \subseteq walletLedger
    BY <2>1 DEF RequestedRows
  <2>3. W!By(other) = W!By(q) /\ W!Refs(q)[1] \in W!Range(W!Refs(other))
    BY <1>1, <1>2, <2>2, RequestRows
  <2>4. QED BY <2>2, <2>3, SameRefs
<1>3. CASE row.by # W!By(q)
  BY <1>1, <1>3
<1>4. QED BY <1>2, <1>3

\* A request has one or two legs.
LEMMA LegsAre ==
  ASSUME NEW q \in WalletRequests
  PROVE  Len(W!Legs(q)) \in 1..2
<1>1. q.op \in {"transfer", "deposit", "fee"}
  BY RidesAssumed
<1>2. QED BY <1>1 DEF W!Legs

LEMMA CallTypes ==
  ASSUME RideTypes, NEW c \in WalletCalls, call[c] # NoCall
  PROVE  /\ call[c] \in CallRecords /\ call[c].req \in WalletRequests
         /\ [call EXCEPT ![c] = NoCall] \in [WalletCalls -> CallRecords \cup {NoCall}]
BY DEF RideTypes, CallRecords

\* The commit of a call.
LEMMA CommitKeeps ==
  ASSUME RidesInv, NEW c \in WalletCalls, W!Commit(c),
         rideJob' = W!Overtaken({}, {row.user : row \in walletLedger' \ walletLedger}),
         UNCHANGED <<ride, method, fare, finalizing, abandoned>>
  PROVE  RidesInv' /\ \A r \in RideIds : W!RideRows(r)' = W!RideRows(r)
<1>1. PICK q \in WalletRequests : q = call[c].req
  BY CallTypes DEF RidesInv, W!Commit, W!Updated, W!At
<1>2. /\ W!Unique(q) /\ W!Book(W!RowsOf(q)) /\ told' \in {{}, {q}}
      /\ call' = [call EXCEPT ![c] = NoCall] /\ call[c] # NoCall
  BY <1>1 DEF W!Commit, W!End, W!Updated, W!At
<1>3. PICK rows : rows = W!RowsOf(q)
  OBVIOUS
<1>4. rows \cap walletLedger = {}
  <2>1. ASSUME NEW row \in rows, row \in walletLedger PROVE FALSE
    <3>1. row.ref \in W!Range(W!Refs(q)) /\ row.ref \in W!BookedRefs
      BY <1>3, <2>1, RequestRows DEF W!BookedRefs
    <3>2. QED BY <1>2, <3>1 DEF W!Unique
  <2>2. QED BY <2>1
<1>5. /\ NewRows(rows) /\ \A row \in rows : row.user \in Users /\ row.by \in {"p2p", "raw"}
  BY <1>3, <1>4, RequestRows, BuiltRefs DEF NewRows
<1>6. Balanced
  BY DEF RidesInv, RideTypes, Balanced
<1>7. /\ Balanced' /\ walletLedger' = walletLedger \cup rows
      /\ \A u \in Users : walletBalance'[u] = walletBalance[u] + W!Booked(rows, u)
  BY <1>2, <1>3, <1>5, <1>6, BookKeeps
<1>8. PICK written : written = {row.user : row \in rows}
  OBVIOUS
<1>9. rideJob' = W!Overtaken({}, written)
  BY <1>4, <1>7, <1>8
<1>10. JobsGoOn({}, written)
  BY <1>5, <1>8, <1>9, OvertakenGoOn DEF RidesInv, RideTypes, Written
<1>11. RideTypes'
  <2>1. /\ walletBalance' \in [Users -> Int] /\ IsFiniteSet(walletLedger')
        /\ \A row \in walletLedger' : row.amount \in Int
    BY <1>7 DEF Balanced
  <2>2. rideJob' \in [Workers -> W!Jobs \cup {NoJob}]
    BY <1>10 DEF JobsGoOn
  <2>3. call' \in [WalletCalls -> CallRecords \cup {NoCall}]
    BY <1>2, CallTypes DEF RidesInv
  <2>4. told' \in SUBSET WalletRequests
    BY <1>2
  <2>5. \A row \in walletLedger' : row.by \in {"p2p", "raw", "ride"}
    BY <1>5, <1>7 DEF RidesInv, RideTypes
  <2>6. QED BY <2>1, <2>2, <2>3, <2>4, <2>5 DEF RidesInv, RideTypes
<1>12. \A r \in RideIds : W!RideRows(r)' = W!RideRows(r) /\ W!FinalRows(r)' = W!FinalRows(r)
  <2>1. \A row \in rows : row.by # "ride"
    BY <1>5
  <2>2. QED BY <1>7, <2>1, RowsGrow
<1>13. RequestedRows'
  <2>1. ASSUME NEW row \in walletLedger', row.by # "ride"
        PROVE  \E p \in WalletRequests : row \in W!RowsOf(p) /\ W!RowsOf(p) \subseteq walletLedger'
    <3>1. CASE row \in rows
      BY <1>3, <1>7, <3>1
    <3>2. CASE row \in walletLedger
      BY <1>7, <2>1, <3>2 DEF RidesInv, RequestedRows
    <3>3. QED BY <1>7, <3>1, <3>2
  <2>2. QED BY <2>1 DEF RequestedRows
<1>14. W!AnsweredIsBooked'
  BY <1>2, <1>3, <1>7 DEF W!AnsweredIsBooked
<1>15. SettledRows'
  BY <1>12, SettledRideKept DEF RidesInv
<1>16. FinalizedRows'
  BY <1>12 DEF RidesInv, FinalizedRows
<1>17. W!DuplicateIsBooked'
  BY <1>10, <1>12, DuplicateKept DEF RidesInv
<1>18. RidesMove(written)
  <2>1. ASSUME NEW u \in Users, u \notin written PROVE walletBalance'[u] = walletBalance[u]
    <3>1. W!Booked(rows, u) = 0
      BY <1>8, <2>1, BookedOther
    <3>2. walletBalance[u] \in Int
      BY DEF RidesInv, RideTypes
    <3>3. QED BY <1>7, <3>1, <3>2
  <2>2. QED BY <2>1 DEF RidesMove
<1>19. ReadsCurrent'
  BY <1>10, <1>18, ReadsKept DEF RidesInv
<1>20. QED BY <1>7, <1>11, <1>12, <1>13, <1>14, <1>15, <1>16, <1>17, <1>19 DEF RidesInv, Balanced

LEMMA WalletStepKeeps ==
  ASSUME RidesInv, W!WalletStep
  PROVE  RidesInv' /\ \A r \in RideIds : W!RideRows(r)' = W!RideRows(r)
<1>1. /\ W!WalletNext
      /\ rideJob' = W!Overtaken({}, {row.user : row \in walletLedger' \ walletLedger})
      /\ UNCHANGED <<ride, method, fare, finalizing, abandoned>>
  BY DEF W!WalletStep
<1>2. PICK c \in WalletCalls :
        \/ \E q \in WalletRequests : W!Ask(c, q)
        \/ W!Find(c) \/ W!Update(c) \/ W!Commit(c) \/ W!Refused(c) \/ W!Abort(c)
  BY <1>1 DEF W!WalletNext
<1>3. call \in [WalletCalls -> CallRecords \cup {NoCall}]
  BY DEF RidesInv, RideTypes
<1>4. ASSUME UNCHANGED <<walletBalance, walletLedger>> PROVE rideJob' = W!Overtaken({}, {})
  <2>1. {row.user : row \in walletLedger' \ walletLedger} = {}
    BY <1>4
  <2>2. QED BY <1>1, <2>1
<1>5. ASSUME UNCHANGED <<walletBalance, walletLedger>>, call' \in [WalletCalls -> CallRecords \cup {NoCall}],
             told' \in SUBSET WalletRequests, W!AnsweredIsBooked'
      PROVE  RidesInv' /\ \A r \in RideIds : W!RideRows(r)' = W!RideRows(r)
  BY <1>1, <1>4, <1>5, CallKeeps, StillKeeps
<1>6. ASSUME UNCHANGED <<walletBalance, walletLedger>>,
            call' \in [WalletCalls -> CallRecords \cup {NoCall}], told' = {}
      PROVE  RidesInv' /\ \A r \in RideIds : W!RideRows(r)' = W!RideRows(r)
  BY <1>5, <1>6 DEF W!AnsweredIsBooked
<1>7. CASE \E q \in WalletRequests : W!Ask(c, q)
  <2>1. PICK q \in WalletRequests : W!Ask(c, q)
    BY <1>7
  <2>2. [req |-> q, held |-> 0, step |-> "find"] \in CallRecords
    BY DEF CallRecords
  <2>3. call' \in [WalletCalls -> CallRecords \cup {NoCall}]
    BY <1>3, <2>1, <2>2 DEF W!Ask
  <2>4. QED BY <1>6, <2>1, <2>3 DEF W!Ask
<1>8. CASE W!Find(c)
  <2>1. call[c] # NoCall /\ call[c] \in CallRecords /\ call[c].req \in WalletRequests
    BY <1>8, CallTypes DEF W!Find, W!At, RidesInv
  <2>2. CASE W!Known(call[c].req)
    <3>1. /\ call' = [call EXCEPT ![c] = NoCall] /\ told' = {call[c].req}
          /\ UNCHANGED <<walletBalance, walletLedger>>
      BY <1>8, <2>2 DEF W!Find, W!End
    <3>2. \/ \E other \in WalletRequests :
              /\ W!By(other) = W!By(call[c].req)
              /\ W!Range(W!Refs(other)) = W!Range(W!Refs(call[c].req))
              /\ W!RowsOf(other) \subseteq walletLedger
          \/ \E row \in walletLedger : row.ref = W!Refs(call[c].req)[1] /\ row.by # W!By(call[c].req)
      BY <2>1, <2>2, KnownIsBooked DEF RidesInv
    <3>3. W!AnsweredIsBooked'
      BY <3>1, <3>2 DEF W!AnsweredIsBooked
    <3>4. QED BY <1>5, <2>1, <3>1, <3>3, CallTypes DEF RidesInv
  <2>3. CASE ~W!Known(call[c].req)
    <3>1. /\ call' = [call EXCEPT ![c].step = "update"] /\ told' = {}
          /\ UNCHANGED <<walletBalance, walletLedger>>
      BY <1>8, <2>3 DEF W!Find
    <3>2. [call[c] EXCEPT !.step = "update"] \in CallRecords
      BY <2>1 DEF CallRecords
    <3>3. call' \in [WalletCalls -> CallRecords \cup {NoCall}]
      BY <1>3, <3>1, <3>2
    <3>4. QED BY <1>6, <3>1, <3>3
  <2>4. QED BY <2>2, <2>3
<1>9. CASE W!Update(c)
  <2>1. call[c] # NoCall /\ call[c] \in CallRecords /\ call[c].req \in WalletRequests
    BY <1>9, CallTypes DEF W!Update, W!At, RidesInv
  <2>2. /\ call[c].held < Len(W!Legs(call[c].req)) /\ call' = [call EXCEPT ![c].held = @ + 1]
        /\ told' = {} /\ UNCHANGED <<walletBalance, walletLedger>>
    BY <1>9 DEF W!Update
  <2>3. Len(W!Legs(call[c].req)) \in 1..2
    BY <2>1, LegsAre
  <2>4. call[c].held \in 0..2
    BY <2>1 DEF CallRecords
  <2>5. PICK n \in 0..2 : n = call[c].held + 1
    <3>1. PICK h \in 0..2 : h = call[c].held
      BY <2>4
    <3>2. PICK l \in 1..2 : l = Len(W!Legs(call[c].req))
      BY <2>3
    <3>3. h < l
      BY <2>2, <3>1, <3>2
    <3>4. h + 1 \in 0..2
      BY ONLY <3>3, h \in 0..2, l \in 1..2
    <3>5. QED BY <3>1, <3>4
  <2>6. [call[c] EXCEPT !.held = n] \in CallRecords
    BY <2>1 DEF CallRecords
  <2>7. call' = [call EXCEPT ![c] = [call[c] EXCEPT !.held = n]]
    BY <1>3, <2>2, <2>5
  <2>8. call' \in [WalletCalls -> CallRecords \cup {NoCall}]
    BY <1>3, <2>6, <2>7
  <2>9. QED BY <1>6, <2>2, <2>8
<1>10. CASE W!Commit(c)
  BY <1>1, <1>10, CommitKeeps
<1>11. CASE W!Refused(c) \/ W!Abort(c)
  <2>1. /\ call[c] # NoCall /\ call' = [call EXCEPT ![c] = NoCall] /\ told' = {}
        /\ UNCHANGED <<walletBalance, walletLedger>>
    BY <1>11 DEF W!Refused, W!Abort, W!End, W!Updated, W!At
  <2>2. QED BY <1>6, <2>1, CallTypes DEF RidesInv
<1>12. QED BY <1>2, <1>7, <1>8, <1>9, <1>10, <1>11
-----------------------------------------------------------------------------
(* createRide, and the keys of finalizations. *)

LEMMA RideOpensKeeps ==
  ASSUME RidesInv, NEW r \in RideIds,
         (\E m \in {"CARD", "CASH"} : W!CheckRide(r, m)) \/ W!CreateRide(r)
  PROVE  RidesInv' /\ \A s \in RideIds : W!RideRows(s)' = W!RideRows(s)
<1>1. /\ UNCHANGED <<walletBalance, walletLedger, call, told, fare, finalizing, rideJob, abandoned>>
      /\ ride[r] \in {"NONE", "CHECKED"}
      /\ \E x \in {"CHECKED", "CREATED"} : ride' = [ride EXCEPT ![r] = x]
      /\ \E m \in {"CARD", "CASH"} : method' = [method EXCEPT ![r] = m]
  <2>1. CASE \E m \in {"CARD", "CASH"} : W!CheckRide(r, m)
    BY <2>1 DEF W!CheckRide, W!walletVars
  <2>2. CASE W!CreateRide(r)
    <3>1. method' = [method EXCEPT ![r] = method[r]]
      BY <2>2 DEF W!CreateRide, RidesInv, RideTypes
    <3>2. method[r] \in {"CARD", "CASH"}
      BY DEF RidesInv, RideTypes
    <3>3. QED BY <2>2, <3>1, <3>2 DEF W!CreateRide, W!walletVars
  <2>3. QED BY <2>1, <2>2
<1>2. JobsGoOn({}, {})
  BY <1>1, JobsSame DEF RidesInv, RideTypes
<1>3. RideTypes'
  BY <1>1 DEF RidesInv, RideTypes
<1>4. /\ RequestedRows' /\ W!BalancesMatchLedger' /\ FinalizedRows' /\ W!AnsweredIsBooked'
      /\ \A s \in RideIds : W!RideRows(s)' = W!RideRows(s) /\ W!FinalRows(s)' = W!FinalRows(s)
  BY <1>1, StillKeeps
<1>5. \A s \in RideIds : s # r => ride'[s] = ride[s] /\ method'[s] = method[s]
  BY <1>1 DEF RidesInv, RideTypes
<1>6. ride[r] # "SETTLED" /\ ride'[r] # "SETTLED" /\ ride[r] # "CREATED"
  BY <1>1 DEF RidesInv, RideTypes
<1>7. SettledRows'
  BY <1>1, <1>4, <1>5, <1>6, SettledRideKept DEF RidesInv
<1>8. W!DuplicateIsBooked'
  BY <1>1, <1>2, <1>4, DuplicateKept DEF RidesInv
<1>9. RidesMove({})
  BY <1>1, <1>5, <1>6 DEF RidesMove
<1>10. ReadsCurrent'
  BY <1>2, <1>9, ReadsKept DEF RidesInv
<1>11. QED BY <1>3, <1>4, <1>7, <1>8, <1>10 DEF RidesInv

LEMMA KeyExpiresKeeps ==
  ASSUME RidesInv, NEW r \in RideIds, W!FinalizeKeyExpires(r)
  PROVE  RidesInv' /\ \A s \in RideIds : W!RideRows(s)' = W!RideRows(s)
<1>1. /\ UNCHANGED <<walletBalance, walletLedger, call, told, ride, method, fare, rideJob>>
      /\ finalizing' = finalizing \ {r} /\ abandoned' = abandoned \ {r}
  BY DEF W!FinalizeKeyExpires, W!walletVars
<1>2. JobsGoOn({}, {})
  BY <1>1, JobsSame DEF RidesInv, RideTypes
<1>3. RideTypes'
  BY <1>1 DEF RidesInv, RideTypes
<1>4. /\ RequestedRows' /\ W!BalancesMatchLedger' /\ FinalizedRows' /\ W!AnsweredIsBooked'
      /\ \A s \in RideIds : W!RideRows(s)' = W!RideRows(s) /\ W!FinalRows(s)' = W!FinalRows(s)
  BY <1>1, StillKeeps
<1>5. SettledRows'
  BY <1>1, <1>4, SettledRideKept DEF RidesInv
<1>6. W!DuplicateIsBooked'
  BY <1>1, <1>2, <1>4, DuplicateKept DEF RidesInv
<1>7. RidesMove({})
  BY <1>1 DEF RidesMove
<1>8. ReadsCurrent'
  BY <1>2, <1>7, ReadsKept DEF RidesInv
<1>9. QED BY <1>3, <1>4, <1>5, <1>6, <1>8 DEF RidesInv

\* A worker's transaction is rolled back.
LEMMA AbortRideKeeps ==
  ASSUME RidesInv, NEW w \in Workers, W!AbortRide(w)
  PROVE  RidesInv' /\ \A s \in RideIds : W!RideRows(s)' = W!RideRows(s)
<1>1. /\ UNCHANGED <<walletBalance, walletLedger, call, told, ride, method, fare, finalizing>>
      /\ rideJob' = [rideJob EXCEPT ![w] = NoJob] /\ rideJob[w] # NoJob
      /\ abandoned' = abandoned \cup {r \in {rideJob[w].ride} : rideJob[w].op = "finalize"}
  BY DEF W!AbortRide, W!walletVars
<1>2. JobsGoOn({w}, {})
  BY <1>1 DEF JobsGoOn, GoesOn, RidesInv, RideTypes
<1>3. RideTypes'
  BY <1>1, <1>2 DEF RidesInv, RideTypes, JobsGoOn
<1>4. /\ RequestedRows' /\ W!BalancesMatchLedger' /\ FinalizedRows' /\ W!AnsweredIsBooked'
      /\ \A s \in RideIds : W!RideRows(s)' = W!RideRows(s) /\ W!FinalRows(s)' = W!FinalRows(s)
  BY <1>1, StillKeeps
<1>5. SettledRows'
  BY <1>1, <1>4, SettledRideKept DEF RidesInv
<1>6. W!DuplicateIsBooked'
  BY <1>1, <1>2, <1>4, DuplicateKept DEF RidesInv
<1>7. RidesMove({})
  BY <1>1 DEF RidesMove
<1>8. ReadsCurrent'
  BY <1>2, <1>7, ReadsKept DEF RidesInv
<1>9. QED BY <1>3, <1>4, <1>5, <1>6, <1>8 DEF RidesInv

-----------------------------------------------------------------------------
(* Snapshots and finalizations begun. *)

LEMMA ReadRideKeeps ==
  ASSUME RidesInv, NEW w \in Workers, NEW r \in RideIds, NEW f \in Fares, W!ReadRide(w, r, f)
  PROVE  RidesInv'
<1>1. PICK j : j = [op |-> "settle", step |-> "commit", ride |-> r, fare |-> f, debit |-> FALSE, dirty |-> {}]
  OBVIOUS
<1>2. /\ j \in W!Jobs /\ j.op = "settle" /\ j.step = "commit" /\ j.ride = r /\ j.fare = f
      /\ j.dirty = {}
  BY <1>1 DEF W!Jobs
<1>3. /\ rideJob[w] = NoJob /\ rideJob' = [rideJob EXCEPT ![w] = j]
      /\ UNCHANGED <<W!walletVars, ride, method, fare, finalizing, abandoned>>
      /\ ride[r] = "CREATED"
      /\ method[r] = "CASH" /\ W!Split(f).platform > 0 => walletBalance[Driver[r]] - W!Split(f).platform >= Floor
  BY <1>1 DEF W!ReadRide
<1>4. ReadOK(j)
  BY <1>2, <1>3 DEF ReadOK
<1>5. finalizing' \in SUBSET RideIds
  BY <1>3 DEF RidesInv, RideTypes
<1>6. \A s \in finalizing' \ abandoned' :
        \/ s \in finalizing \ abandoned /\ (rideJob[w] = NoJob \/ (j.op = rideJob[w].op /\ j.ride = rideJob[w].ride))
        \/ j.op = "finalize" /\ j.ride = s
  BY <1>3
<1>7. UNCHANGED <<W!walletVars, ride, method, fare>>
  BY <1>3
<1>8. QED BY <1>2, <1>3, <1>4, <1>5, <1>6, <1>7, JobKeeps

LEMMA StartFinalizeKeeps ==
  ASSUME RidesInv, NEW w \in Workers, NEW r \in RideIds, W!StartFinalize(w, r)
  PROVE  RidesInv'
<1>1. PICK j : j = [op |-> "finalize", step |-> "read", ride |-> r, fare |-> Base, debit |-> FALSE, dirty |-> {}]
  OBVIOUS
<1>2. j \in W!Jobs /\ j.op = "finalize" /\ j.ride = r
  BY <1>1 DEF W!Jobs
<1>3. /\ rideJob[w] = NoJob /\ rideJob' = [rideJob EXCEPT ![w] = j]
      /\ finalizing' = finalizing \cup {r}
      /\ UNCHANGED <<W!walletVars, ride, method, fare, abandoned>>
  BY <1>1 DEF W!StartFinalize
<1>4. ReadOK(j)
  BY <1>2 DEF ReadOK
<1>5. finalizing' \in SUBSET RideIds
  BY <1>3 DEF RidesInv, RideTypes
<1>6. \A s \in finalizing' \ abandoned' :
        \/ s \in finalizing \ abandoned /\ (rideJob[w] = NoJob \/ (j.op = rideJob[w].op /\ j.ride = rideJob[w].ride))
        \/ j.op = "finalize" /\ j.ride = s
  BY <1>2, <1>3
<1>7. UNCHANGED <<W!walletVars, ride, method, fare>>
  BY <1>3
<1>8. QED BY <1>2, <1>3, <1>4, <1>5, <1>6, <1>7, JobKeeps

LEMMA ReadFinalizeKeeps ==
  ASSUME RidesInv, NEW w \in Workers, W!ReadFinalize(w)
  PROVE  RidesInv'
<1>1. PICK i \in W!Jobs : i = rideJob[w] /\ i.step = "read"
  BY DEF W!ReadFinalize, RidesInv, RideTypes
<1>2. PICK d \in BOOLEAN : d = (walletBalance[Passenger[i.ride]] >= Base)
  <2>1. CASE walletBalance[Passenger[i.ride]] >= Base
    <3>1. (walletBalance[Passenger[i.ride]] >= Base) = TRUE
      BY <2>1
    <3>2. QED BY <3>1
  <2>2. CASE ~(walletBalance[Passenger[i.ride]] >= Base)
    <3>1. (walletBalance[Passenger[i.ride]] >= Base) = FALSE
      BY <2>2
    <3>2. QED BY <3>1
  <2>3. QED BY <2>1, <2>2
<1>3. PICK j : j = [i EXCEPT !.step = "commit", !.debit = d]
  OBVIOUS
<1>4. j \in W!Jobs /\ j.op = i.op /\ j.ride = i.ride
  BY <1>3 DEF W!Jobs
<1>5. /\ rideJob' = [rideJob EXCEPT ![w] = j]
      /\ UNCHANGED <<W!walletVars, ride, method, fare, finalizing, abandoned>>
  BY <1>1, <1>2, <1>3 DEF W!ReadFinalize, RidesInv, RideTypes
<1>6. ReadOK(j)
  <2>1. ReadOK(i)
    BY <1>1, ReadsAre DEF RidesInv, RideTypes
  <2>2. i.op # "settle"
    BY <1>1, <2>1, RidesAssumed DEF ReadOK
  <2>3. QED BY <1>4, <2>2 DEF ReadOK
<1>7. finalizing' \in SUBSET RideIds
  BY <1>5 DEF RidesInv, RideTypes
<1>8. QED BY <1>1, <1>4, <1>5, <1>6, <1>7, JobKeeps
-----------------------------------------------------------------------------
(* The bookings of rides. *)

\* A transaction of worker w books rows of kinds K for the ride r of its job.
LEMMA BookingIs ==
  ASSUME RidesInv, NEW w \in Workers, rideJob[w] # NoJob, NEW r \in RideIds, NEW rows, NEW written,
         r = rideJob[w].ride, written \in {{}, {r}}, NEW K, RideBooking(rows, K, r),
         W!BookRide(w, rows, written)
  PROVE  /\ Balanced' /\ walletLedger' = walletLedger \cup rows /\ told' = {} /\ call' = call
         /\ \A u \in Users : walletBalance'[u] = walletBalance[u] + W!Booked(rows, u)
         /\ \A u \in Users : u \notin {row.user : row \in rows} => walletBalance'[u] = walletBalance[u]
         /\ JobsGoOn({w}, written \cup {row.user : row \in rows})
         /\ r \notin rideJob[w].dirty
         /\ \A row \in rows : row.user \notin rideJob[w].dirty /\ row.ref \notin W!BookedRefs
<1>1. /\ W!NoConflict(w, rows) /\ {row.ref : row \in rows} \cap W!BookedRefs = {} /\ W!Book(rows)
      /\ rideJob' = W!Overtaken({w}, written \cup {row.user : row \in rows}) /\ told' = {}
      /\ call' = call
  BY DEF W!BookRide
<1>2. \A row \in rows : row.ref \notin W!BookedRefs
  BY <1>1
<1>3. NewRows(rows)
  BY <1>2 DEF NewRows, RideBooking, W!BookedRefs
<1>4. Balanced
  BY DEF RidesInv, RideTypes, Balanced
<1>5. /\ Balanced' /\ walletLedger' = walletLedger \cup rows
      /\ \A u \in Users : walletBalance'[u] = walletBalance[u] + W!Booked(rows, u)
  BY <1>1, <1>3, <1>4, BookKeeps
<1>6. ASSUME NEW u \in Users, u \notin {row.user : row \in rows} PROVE walletBalance'[u] = walletBalance[u]
  <2>1. W!Booked(rows, u) = 0
    BY <1>6, BookedOther
  <2>2. walletBalance[u] \in Int
    BY <1>4 DEF Balanced
  <2>3. QED BY <1>5, <2>1, <2>2
<1>7. written \cup {row.user : row \in rows} \subseteq Written
  BY DEF RideBooking, Written
<1>8. JobsGoOn({w}, written \cup {row.user : row \in rows})
  BY <1>1, <1>7, OvertakenGoOn DEF RidesInv, RideTypes
<1>9. r \notin rideJob[w].dirty /\ \A row \in rows : row.user \notin rideJob[w].dirty
  BY <1>1 DEF W!NoConflict
<1>10. QED BY <1>1, <1>2, <1>5, <1>6, <1>8, <1>9

LEMMA RequestedKept ==
  ASSUME RequestedRows, NEW rows, walletLedger' = walletLedger \cup rows,
         \A row \in rows : row.by = "ride"
  PROVE  RequestedRows'
<1>1. ASSUME NEW row \in walletLedger', row.by # "ride"
      PROVE  \E q \in WalletRequests : row \in W!RowsOf(q) /\ W!RowsOf(q) \subseteq walletLedger'
  BY <1>1 DEF RequestedRows
<1>2. QED BY <1>1 DEF RequestedRows

LEMMA SettleKeeps ==
  ASSUME RidesInv, NEW w \in Workers, W!SettleRide(w)
  PROVE  RidesInv' /\ W!KeepsFloor
<1>1. PICK j \in W!Jobs : j = rideJob[w] /\ j # NoJob /\ j.op = "settle"
  BY DEF W!SettleRide, W!Run, RidesInv, RideTypes
<1>2. ReadOK(j)
  BY <1>1, ReadsAre DEF RidesInv, RideTypes
<1>3. PICK r \in RideIds, f \in Fares : r = j.ride /\ f = j.fare
  BY <1>1, <1>2 DEF ReadOK
<1>4. PICK rows : rows = W!SettlementRows(r, f)
  OBVIOUS
<1>5. /\ W!BookRide(w, rows, {r}) /\ ride' = [ride EXCEPT ![r] = "SETTLED"]
      /\ fare' = [fare EXCEPT ![r] = f]
      /\ UNCHANGED <<method, finalizing, abandoned>>
  BY <1>1, <1>3, <1>4 DEF W!SettleRide
<1>6. method[r] \in {"CARD", "CASH"}
  BY DEF RidesInv, RideTypes
<1>7. RideBooking(rows, RideKinds, r)
  BY <1>4, <1>6, SettlementIs
<1>8. PICK written : written = {r} \cup {row.user : row \in rows}
  OBVIOUS
<1>9. /\ Balanced' /\ walletLedger' = walletLedger \cup rows /\ told' = {} /\ call' = call
      /\ \A u \in Users : walletBalance'[u] = walletBalance[u] + W!Booked(rows, u)
      /\ \A u \in Users : u \notin {row.user : row \in rows} => walletBalance'[u] = walletBalance[u]
      /\ JobsGoOn({w}, written)
      /\ r \notin j.dirty
      /\ \A row \in rows : row.user \notin j.dirty
  <2>1. r = rideJob[w].ride /\ rideJob[w] # NoJob /\ {r} \in {{}, {r}} /\ W!BookRide(w, rows, {r})
    BY <1>1, <1>3, <1>5
  <2>2. PICK own : own = {r} /\ own \in {{}, {r}} /\ W!BookRide(w, rows, own) /\ written = own \cup {row.user : row \in rows}
    BY <1>8, <2>1
  <2>3. /\ Balanced' /\ walletLedger' = walletLedger \cup rows /\ told' = {} /\ call' = call
        /\ \A u \in Users : walletBalance'[u] = walletBalance[u] + W!Booked(rows, u)
        /\ \A u \in Users : u \notin {row.user : row \in rows} => walletBalance'[u] = walletBalance[u]
        /\ JobsGoOn({w}, own \cup {row.user : row \in rows})
        /\ r \notin rideJob[w].dirty
        /\ \A row \in rows : row.user \notin rideJob[w].dirty
    BY ONLY <1>7, <2>1, <2>2, RidesInv, w \in Workers, r \in RideIds, BookingIs, ZenonT(30)
  <2>4. QED BY <1>1, <2>2, <2>3
<1>10. ride[r] = "CREATED" /\ ride[r] # "SETTLED"
  BY <1>1, <1>2, <1>3, <1>9 DEF ReadOK
<1>11. /\ \A s \in RideIds : W!FinalRows(s)' = W!FinalRows(s)
       /\ \A s \in RideIds : W!RideRows(s)' = IF s = r THEN W!RideRows(s) \cup rows ELSE W!RideRows(s)
  <2>1. walletLedger' = walletLedger \cup rows
    BY <1>9
  <2>2. \A row \in rows : row.by = "ride" /\ row.ref[1] \in RideKinds /\ row.ref[2] = r
    BY <1>7 DEF RideBooking
  <2>3. \A s \in RideIds :
          /\ W!RideRows(s)' = IF s = r THEN W!RideRows(s) \cup rows ELSE W!RideRows(s)
          /\ W!FinalRows(s)' = W!FinalRows(s)
    BY ONLY <2>1, <2>2, r \in RideIds, RowsGrow, Zenon
  <2>4. QED BY ONLY <2>3
<1>12. W!RideRows(r) = {} /\ W!RideRows(r)' = rows
  BY <1>10, <1>11 DEF RidesInv, SettledRows
<1>13. RideTypes'
  <2>1. f \in Nat
    BY RatesAssumed
  <2>2. ride' \in [RideIds -> {"NONE", "CHECKED", "CREATED", "SETTLED"}] /\ fare' \in [RideIds -> Nat]
    BY <1>5, <2>1 DEF RidesInv, RideTypes
  <2>3. /\ walletBalance' \in [Users -> Int] /\ IsFiniteSet(walletLedger')
        /\ \A row \in walletLedger' : row.amount \in Int
    BY <1>9 DEF Balanced
  <2>4. rideJob' \in [Workers -> W!Jobs \cup {NoJob}]
    BY <1>9 DEF JobsGoOn
  <2>5. call' = call /\ told' \in SUBSET WalletRequests /\ UNCHANGED <<method, finalizing>>
    BY <1>5, <1>9
  <2>6. \A row \in walletLedger' : row.by \in {"p2p", "raw", "ride"}
    BY <1>7, <1>9 DEF RideBooking, RidesInv, RideTypes
  <2>7. QED BY ONLY RidesInv, <2>2, <2>3, <2>4, <2>5, <2>6 DEF RidesInv, RideTypes
<1>14. RequestedRows'
  <2>1. RequestedRows
    BY DEF RidesInv
  <2>2. walletLedger' = walletLedger \cup rows /\ \A row \in rows : row.by = "ride"
    BY <1>7, <1>9 DEF RideBooking
  <2>3. QED BY ONLY <2>1, <2>2, RequestedKept
<1>15. W!AnsweredIsBooked'
  BY <1>9 DEF W!AnsweredIsBooked
<1>16. SettledRows'
  <2>1. ASSUME NEW s \in RideIds
        PROVE  /\ ride'[s] = "SETTLED" => fare'[s] \in Fares
               /\ W!RideRows(s)' = IF ride'[s] = "SETTLED" THEN W!SettlementRows(s, fare[s])' ELSE {}
    <3>1. CASE s = r
      <4>1. ride'[s] = "SETTLED" /\ fare'[s] = f
        BY <1>5, <3>1 DEF RidesInv, RideTypes
      <4>2. W!SettlementRows(s, fare[s])' = rows
        BY <1>4, <1>5, <3>1, <4>1 DEF W!SettlementRows
      <4>3. QED BY <1>12, <3>1, <4>1, <4>2
    <3>2. CASE s # r
      <4>1. ride'[s] = ride[s] /\ fare'[s] = fare[s] /\ method'[s] = method[s]
        BY <1>5, <3>2 DEF RidesInv, RideTypes
      <4>2. W!SettlementRows(s, fare[s])' = W!SettlementRows(s, fare[s])
        BY <4>1 DEF W!SettlementRows
      <4>3. QED BY <1>11, <3>2, <4>1, <4>2 DEF RidesInv, SettledRows
    <3>3. QED BY <3>1, <3>2
  <2>2. QED BY <2>1 DEF SettledRows
<1>17. FinalizedRows'
  <2>1. \A s, debit : W!FinalizeRows(s, debit)' = W!FinalizeRows(s, debit)
    BY DEF W!FinalizeRows
  <2>2. QED BY <1>11, <2>1 DEF RidesInv, FinalizedRows
<1>18. W!DuplicateIsBooked'
  BY <1>1, <1>5, <1>9, <1>11, DuplicateKept DEF RidesInv
<1>19. RidesMove(written)
  <2>1. \A s \in RideIds : s # r => ride'[s] = ride[s]
    BY <1>5 DEF RidesInv, RideTypes
  <2>2. ride'[r] = "SETTLED" /\ r \in written
    BY <1>5, <1>8 DEF RidesInv, RideTypes
  <2>3. \A u \in Users : u \notin written => walletBalance'[u] = walletBalance[u]
    BY <1>8, <1>9
  <2>4. QED BY <1>5, <1>10, <2>1, <2>2, <2>3 DEF RidesMove
<1>20. ReadsCurrent'
  BY <1>9, <1>19, ReadsKept DEF RidesInv
<1>21. RidesInv'
  BY <1>9, <1>13, <1>14, <1>15, <1>16, <1>17, <1>18, <1>20 DEF RidesInv, Balanced
<1>22. ASSUME NEW s \in RideIds, W!RideRows(s)' # W!RideRows(s), method[s] = "CASH"
       PROVE  ~ (walletBalance'[Driver[s]] < Floor)
  <2>1. s = r /\ rows # {}
    BY <1>11, <1>12, <1>22
  <2>2. PICK p \in Nat : p = W!Split(f).platform
    BY SplitIs, RatesAssumed
  <2>3. p # 0
    BY <1>4, <1>6, <1>22, <2>1, <2>2, SettlementIs
  <2>4. W!Booked(rows, Driver[r]) >= -p /\ \E row \in rows : row.user = Driver[r]
    BY <1>4, <1>6, <1>22, <2>1, <2>2, <2>3, SettlementIs
  <2>5. Driver[r] \notin j.dirty
    BY <1>9, <2>4
  <2>6. walletBalance[Driver[r]] - p >= Floor
    <3>1. method[j.ride] = "CASH" /\ Driver[j.ride] \notin j.dirty /\ W!Split(j.fare).platform = p /\ p > 0
      BY <1>3, <1>22, <2>1, <2>2, <2>3, <2>5
    <3>2. walletBalance[Driver[j.ride]] - W!Split(j.fare).platform >= Floor
      BY ONLY <1>1, <1>2, <3>1 DEF ReadOK
    <3>3. QED BY <1>3, <2>2, <3>2
  <2>7. Driver[r] \in Users /\ walletBalance[Driver[r]] \in Int /\ Floor \in Int
    BY RidesAssumed, RatesAssumed DEF RidesInv, RideTypes
  <2>8. W!Booked(rows, Driver[r]) \in Int
    <3>1. PICK S : S = {row \in rows : row.user = Driver[r]}
      OBVIOUS
    <3>2. IsFiniteSet(S) /\ \A row \in S : row.amount \in Int
      BY <1>7, <3>1, FS_Subset DEF RideBooking
    <3>3. QED BY <3>1, <3>2, TotalType DEF W!Booked
  <2>9. QED BY <1>9, <2>1, <2>4, <2>6, <2>7, <2>8
<1>23. QED BY <1>21, <1>22 DEF W!KeepsFloor

LEMMA FinalizeKeeps ==
  ASSUME RidesInv, NEW w \in Workers, W!FinalizeRide(w)
  PROVE  RidesInv' /\ \A r \in RideIds : W!RideRows(r)' = W!RideRows(r)
<1>1. PICK j \in W!Jobs : j = rideJob[w] /\ j # NoJob /\ j.op = "finalize"
  BY DEF W!FinalizeRide, W!Run, RidesInv, RideTypes
<1>2. PICK r \in RideIds, debit \in BOOLEAN : r = j.ride /\ debit = j.debit
  BY DEF W!Jobs
<1>3. PICK rows : rows = W!FinalizeRows(r, debit)
  OBVIOUS
<1>4. W!BookRide(w, rows, {}) /\ UNCHANGED <<ride, method, fare, finalizing, abandoned>>
  BY <1>1, <1>2, <1>3 DEF W!FinalizeRide
<1>5. RideBooking(rows, FinalKinds, r)
  BY <1>3, FinalizeIs
<1>6. PICK written : written = {} \cup {row.user : row \in rows}
  OBVIOUS
<1>7. /\ Balanced' /\ walletLedger' = walletLedger \cup rows /\ told' = {} /\ call' = call
      /\ \A u \in Users : u \notin written => walletBalance'[u] = walletBalance[u]
      /\ JobsGoOn({w}, written)
      /\ \A row \in rows : row.ref \notin W!BookedRefs
  BY <1>1, <1>2, <1>4, <1>5, <1>6, BookingIs
<1>8. /\ \A s \in RideIds : W!RideRows(s)' = W!RideRows(s)
      /\ \A s \in RideIds : W!FinalRows(s)' = IF s = r THEN W!FinalRows(s) \cup rows ELSE W!FinalRows(s)
  <2>1. walletLedger' = walletLedger \cup rows
    BY <1>7
  <2>2. \A row \in rows : row.by = "ride" /\ row.ref[1] \in FinalKinds /\ row.ref[2] = r
    BY <1>5 DEF RideBooking
  <2>3. \A s \in RideIds :
          /\ W!FinalRows(s)' = IF s = r THEN W!FinalRows(s) \cup rows ELSE W!FinalRows(s)
          /\ W!RideRows(s)' = W!RideRows(s)
    BY ONLY <2>1, <2>2, r \in RideIds, RowsGrow, Zenon
  <2>4. QED BY ONLY <2>3
<1>9. W!FinalRows(r) = {}
  <2>1. ASSUME NEW old \in BOOLEAN, W!FinalRows(r) = W!FinalizeRows(r, old) PROVE FALSE
    <3>1. PICK row \in W!FinalRows(r) : row.ref = <<"ride:driver", r>>
      BY <2>1, FinalizeIs
    <3>2. PICK new \in rows : new.ref = <<"ride:driver", r>>
      BY <1>3, FinalizeIs
    <3>3. row \in walletLedger
      BY DEF W!FinalRows
    <3>4. new.ref \in W!BookedRefs
      BY <3>1, <3>2, <3>3 DEF W!BookedRefs
    <3>5. QED BY <1>7, <3>4
  <2>2. QED BY <2>1 DEF RidesInv, FinalizedRows
<1>10. W!FinalRows(r)' = W!FinalizeRows(r, debit)
  BY <1>3, <1>8, <1>9
<1>11. \A s, d : W!FinalizeRows(s, d)' = W!FinalizeRows(s, d)
  BY DEF W!FinalizeRows
<1>12. RideTypes'
  <2>1. /\ walletBalance' \in [Users -> Int] /\ IsFiniteSet(walletLedger')
        /\ \A row \in walletLedger' : row.amount \in Int
    BY <1>7 DEF Balanced
  <2>2. rideJob' \in [Workers -> W!Jobs \cup {NoJob}]
    BY <1>7 DEF JobsGoOn
  <2>3. call' = call /\ told' \in SUBSET WalletRequests /\ UNCHANGED <<ride, method, fare, finalizing>>
    BY <1>4, <1>7
  <2>4. \A row \in walletLedger' : row.by \in {"p2p", "raw", "ride"}
    BY <1>5, <1>7 DEF RideBooking, RidesInv, RideTypes
  <2>5. QED BY ONLY RidesInv, <2>1, <2>2, <2>3, <2>4 DEF RidesInv, RideTypes
<1>13. RequestedRows'
  <2>1. RequestedRows
    BY DEF RidesInv
  <2>2. walletLedger' = walletLedger \cup rows /\ \A row \in rows : row.by = "ride"
    BY <1>5, <1>7 DEF RideBooking
  <2>3. QED BY ONLY <2>1, <2>2, RequestedKept
<1>14. W!AnsweredIsBooked'
  BY <1>7 DEF W!AnsweredIsBooked
<1>15. SettledRows'
  BY <1>4, <1>8, SettledRideKept DEF RidesInv
<1>16. FinalizedRows'
  <2>1. ASSUME NEW s \in RideIds
        PROVE  W!FinalRows(s)' = {} \/ \E d \in BOOLEAN : W!FinalRows(s)' = W!FinalizeRows(s, d)
    <3>1. CASE s = r
      BY <1>10, <3>1
    <3>2. CASE s # r
      BY <1>8, <3>2 DEF RidesInv, FinalizedRows
    <3>3. QED BY <3>1, <3>2
  <2>2. QED BY <1>11, <2>1 DEF FinalizedRows
<1>17. W!DuplicateIsBooked'
  <2>1. ASSUME NEW s \in finalizing' \ abandoned'
        PROVE  \/ \E v \in Workers : rideJob'[v] # NoJob /\ rideJob'[v].op = "finalize" /\ rideJob'[v].ride = s
               \/ \E d \in BOOLEAN : W!FinalRows(s)' = W!FinalizeRows(s, d)
    <3>1. s \in finalizing \ abandoned /\ s \in RideIds
      BY <1>4 DEF RidesInv, RideTypes
    <3>2. CASE s = r
      BY <1>10, <3>2
    <3>3. CASE s # r /\ \E v \in Workers : rideJob[v] # NoJob /\ rideJob[v].op = "finalize" /\ rideJob[v].ride = s
      <4>1. PICK v \in Workers : rideJob[v] # NoJob /\ rideJob[v].op = "finalize" /\ rideJob[v].ride = s
        BY <3>3
      <4>2. v # w
        BY <1>1, <1>2, <3>3, <4>1
      <4>3. GoesOn(rideJob[v], rideJob'[v], written)
        BY <1>7, <4>2 DEF JobsGoOn
      <4>4. QED BY <4>1, <4>3 DEF GoesOn
    <3>4. CASE s # r /\ \E d \in BOOLEAN : W!FinalRows(s) = W!FinalizeRows(s, d)
      BY <1>8, <3>1, <3>4
    <3>5. QED BY <3>1, <3>2, <3>3, <3>4 DEF RidesInv, W!DuplicateIsBooked
  <2>2. QED BY <1>11, <2>1 DEF W!DuplicateIsBooked
<1>18. RidesMove(written)
  BY <1>4, <1>7 DEF RidesMove
<1>19. ReadsCurrent'
  BY <1>7, <1>18, ReadsKept DEF RidesInv
<1>20. QED BY <1>7, <1>8, <1>12, <1>13, <1>14, <1>15, <1>16, <1>17, <1>19 DEF RidesInv, Balanced
-----------------------------------------------------------------------------
(* The invariant begins, is kept, and says what is asked. *)

LEMMA RidesInvInit == W!Init => RidesInv
<1> SUFFICES ASSUME W!Init PROVE RidesInv
  OBVIOUS
<1> USE DEF W!Init, W!InitWallets
<1>1. RideTypes
  BY FS_EmptySet, RidesAssumed DEF RideTypes
<1>2. W!BalancesMatchLedger
  <2>1. ASSUME NEW u \in Users PROVE walletBalance[u] = WalletFunds[u] + W!Booked(walletLedger, u)
    <3>1. W!Booked(walletLedger, u) = 0
      BY BookedOther
    <3>2. walletBalance[u] = WalletFunds[u] /\ WalletFunds[u] \in Int
      BY RidesAssumed
    <3>3. QED BY <3>1, <3>2
  <2>2. QED BY <2>1 DEF W!BalancesMatchLedger
<1>3. RequestedRows /\ W!AnsweredIsBooked /\ W!DuplicateIsBooked
  BY DEF RequestedRows, W!AnsweredIsBooked, W!DuplicateIsBooked
<1>4. \A r \in RideIds : W!RideRows(r) = {} /\ W!FinalRows(r) = {}
  BY DEF W!RideRows, W!FinalRows
<1>5. SettledRows /\ FinalizedRows
  BY <1>4 DEF SettledRows, FinalizedRows
<1>6. ReadsCurrent
  BY DEF ReadsCurrent, Settles
<1>7. QED BY <1>1, <1>2, <1>3, <1>5, <1>6 DEF RidesInv

LEMMA RidesInvNext == RidesInv /\ [W!Next]_rides => RidesInv' /\ W!KeepsFloor
<1> SUFFICES ASSUME RidesInv, [W!Next]_rides PROVE RidesInv' /\ W!KeepsFloor
  OBVIOUS
<1>1. CASE UNCHANGED rides
  <2>1. /\ UNCHANGED <<walletBalance, walletLedger, call, told, ride, method, fare, finalizing, rideJob, abandoned>>
    BY <1>1 DEF rides
  <2>2. JobsGoOn({}, {}) /\ RidesMove({})
    BY <2>1, JobsSame DEF RidesInv, RideTypes, RidesMove
  <2>3. /\ RequestedRows' /\ W!BalancesMatchLedger' /\ FinalizedRows' /\ W!AnsweredIsBooked'
        /\ \A r \in RideIds : W!RideRows(r)' = W!RideRows(r) /\ W!FinalRows(r)' = W!FinalRows(r)
    BY <2>1, StillKeeps
  <2>4. RideTypes'
    BY <2>1 DEF RidesInv, RideTypes
  <2>5. SettledRows'
    BY <2>1, <2>3, SettledRideKept DEF RidesInv
  <2>6. W!DuplicateIsBooked'
    BY <2>1, <2>2, <2>3, DuplicateKept DEF RidesInv
  <2>7. ReadsCurrent'
    BY <2>2, ReadsKept DEF RidesInv
  <2>8. QED BY <2>3, <2>4, <2>5, <2>6, <2>7 DEF RidesInv, W!KeepsFloor
<1>2. CASE W!WalletStep
  BY <1>2, WalletStepKeeps DEF W!KeepsFloor
<1>3. ASSUME NEW r \in RideIds, (\E m \in {"CARD", "CASH"} : W!CheckRide(r, m)) \/ W!CreateRide(r)
      PROVE  RidesInv' /\ \A s \in RideIds : W!RideRows(s)' = W!RideRows(s)
  BY <1>3, RideOpensKeeps
<1>4. ASSUME NEW r \in RideIds, W!FinalizeKeyExpires(r)
      PROVE  RidesInv' /\ \A s \in RideIds : W!RideRows(s)' = W!RideRows(s)
  BY <1>4, KeyExpiresKeeps
<1>5. ASSUME NEW w \in Workers, NEW r \in RideIds, NEW f \in Fares, W!ReadRide(w, r, f)
      PROVE  RidesInv' /\ \A s \in RideIds : W!RideRows(s)' = W!RideRows(s)
  <2>1. RidesInv'
    BY <1>5, ReadRideKeeps
  <2>2. QED BY <1>5, <2>1 DEF W!ReadRide, W!RideRows, W!walletVars
<1>6. ASSUME NEW w \in Workers, NEW r \in RideIds, W!StartFinalize(w, r)
      PROVE  RidesInv' /\ \A s \in RideIds : W!RideRows(s)' = W!RideRows(s)
  <2>1. RidesInv'
    BY <1>6, StartFinalizeKeeps
  <2>2. QED BY <1>6, <2>1 DEF W!StartFinalize, W!RideRows, W!walletVars
<1>7. ASSUME NEW w \in Workers, W!ReadFinalize(w)
      PROVE  RidesInv' /\ \A s \in RideIds : W!RideRows(s)' = W!RideRows(s)
  <2>1. RidesInv'
    BY <1>7, ReadFinalizeKeeps
  <2>2. QED BY <1>7, <2>1 DEF W!ReadFinalize, W!RideRows, W!walletVars
<1>8. ASSUME NEW w \in Workers, W!SettleRide(w)
      PROVE  RidesInv' /\ W!KeepsFloor
  BY <1>8, SettleKeeps
<1>9. ASSUME NEW w \in Workers, W!FinalizeRide(w)
      PROVE  RidesInv' /\ \A s \in RideIds : W!RideRows(s)' = W!RideRows(s)
  BY <1>9, FinalizeKeeps
<1>10. ASSUME NEW w \in Workers, W!AbortRide(w)
       PROVE  RidesInv' /\ \A s \in RideIds : W!RideRows(s)' = W!RideRows(s)
  BY <1>10, AbortRideKeeps
<1>11. QED BY <1>1, <1>2, <1>3, <1>4, <1>5, <1>6, <1>7, <1>8, <1>9, <1>10 DEF W!Next, W!KeepsFloor

LEMMA RidesInvMeans == RidesInv => W!WalletsAddUp /\ W!RideIsBooked
<1> SUFFICES ASSUME RidesInv PROVE W!WalletsAddUp /\ W!RideIsBooked
  OBVIOUS
<1>1. W!SettledOnceToTheCent
  <2>1. ASSUME NEW r \in RideIds
        PROVE  /\ W!Total(W!RideRows(r)) = 0
               /\ W!Total({row \in W!RideRows(r) : row.amount > 0}) =
                    IF ride[r] # "SETTLED" THEN 0
                    ELSE IF method[r] = "CARD" THEN fare[r] ELSE W!Split(fare[r]).platform
    <3>1. CASE ride[r] = "SETTLED"
      <4>1. PICK f \in Fares : f = fare[r]
        BY <3>1 DEF RidesInv, SettledRows
      <4>2. W!RideRows(r) = W!SettlementRows(r, f)
        BY <3>1, <4>1 DEF RidesInv, SettledRows
      <4>3. method[r] \in {"CARD", "CASH"}
        BY DEF RidesInv, RideTypes
      <4>4. /\ W!Total(W!SettlementRows(r, f)) = 0
            /\ W!Total({row \in W!SettlementRows(r, f) : row.amount > 0}) =
                 IF method[r] = "CARD" THEN f ELSE W!Split(f).platform
        BY <4>3, SettlementIs
      <4>5. QED BY <3>1, <4>1, <4>2, <4>4
    <3>2. CASE ride[r] # "SETTLED"
      <4>1. W!RideRows(r) = {} /\ {row \in W!RideRows(r) : row.amount > 0} = {}
        BY <3>2 DEF RidesInv, SettledRows
      <4>2. QED BY <3>2, <4>1, TotalEmpty
    <3>3. QED BY <3>1, <3>2
  <2>2. QED BY <2>1 DEF W!SettledOnceToTheCent
<1>2. W!AnsweredIsSettled
  <2>1. ASSUME NEW r \in RideIds, ride[r] # "SETTLED", NEW row \in walletLedger, row.ref = W!Sought(r)
        PROVE  row.by = "raw"
    <3>1. PICK k \in RideKinds : W!Sought(r) = <<k, r>> /\ k \notin {"out", "in"}
      BY DEF W!Sought, RideKinds
    <3>2. PICK ref : ref = <<k, r>>
      OBVIOUS
    <3>3. ref[1] = k /\ ref[2] = r /\ row.ref = ref
      BY <2>1, <3>1, <3>2
    <3>4. row.by # "ride"
      <4>1. row.by = "ride" => row \in W!RideRows(r)
        BY <3>3 DEF W!RideRows, RideKinds
      <4>2. W!RideRows(r) = {}
        BY <2>1 DEF RidesInv, SettledRows
      <4>3. QED BY <4>1, <4>2
    <3>5. PICK q \in WalletRequests : row \in W!RowsOf(q)
      BY <3>4 DEF RidesInv, RequestedRows
    <3>6. row.by = W!By(q) /\ ref \in W!Range(W!Refs(q))
      BY <3>3, <3>5, RequestRows
    <3>7. ASSUME W!By(q) = "p2p" PROVE FALSE
      <4>1. ref \in {<<"out", q.key>>, <<"in", q.key>>}
        BY <3>6, <3>7, BuiltRefs
      <4>2. ref[1] \in {"out", "in"}
        BY <4>1
      <4>3. QED BY <3>1, <3>3, <4>2
    <3>8. QED BY <3>6, <3>7, BuiltRefs
  <2>2. ASSUME NEW r \in RideIds, W!AnsweredAsSettled(r), ride[r] # "SETTLED"
        PROVE  \E row \in walletLedger : row.ref = W!Sought(r) /\ row.by = "raw"
    <3>1. PICK row \in walletLedger : row.ref = W!Sought(r)
      BY <2>2 DEF W!AnsweredAsSettled, W!BookedRefs
    <3>2. row.by = "raw"
      BY <2>1, <2>2, <3>1
    <3>3. QED BY <3>1, <3>2
  <2>3. QED BY <2>2 DEF W!AnsweredIsSettled
<1>3. QED BY <1>1, <1>2 DEF RidesInv, W!WalletsAddUp, W!RideIsBooked

-----------------------------------------------------------------------------
(* The theorems.                                                           *)

\* The parts begin together.
LEMMA PartsBegin == Inits => Init /\ R!Init /\ D!Init /\ X!Init /\ W!Init
BY DEF Inits

\* A step is one of a part and leaves the others alone.
LEMMA PartsStep ==
  [Nexts]_allVars => /\ [Next]_vars /\ [R!Next]_refund
                     /\ [D!Next]_deposit /\ [X!Next]_dispute /\ [W!Next]_rides
BY DEF Nexts, allVars, vars, market, refund, deposit, dispute, rides

\* For every number of calls, keys and amounts: the account's wallet holds what
\* charges paid less what payouts took, and it goes negative only if a payout was
\* debited from a balance that had changed since its call compared it.
THEOREM WalletExplained == PaymentsSpec => []MoneyIsExplained
<1>1. Inits => MarketInv
  BY PartsBegin, MarketInvInit
<1>2. MarketInv /\ [Nexts]_allVars => MarketInv'
  BY PartsStep, MarketInvNext
<1>3. MarketInv => MoneyIsExplained
  BY MarketInvMeans
<1>4. QED BY <1>1, <1>2, <1>3, PTL DEF PaymentsSpec

\* A payout's key pays again only after lost replies, and a charge's key charges
\* once, whatever retries, crashes and calls of either kind meet.
THEOREM KeysPayOnce == PaymentsSpec => []PaidOncePerKey
<1>1. Inits => MarketInv
  BY PartsBegin, MarketInvInit
<1>2. MarketInv /\ [Nexts]_allVars => MarketInv'
  BY PartsStep, MarketInvNext
<1>3. MarketInv => PaidOncePerKey
  BY MarketInvMeans
<1>4. QED BY <1>1, <1>2, <1>3, PTL DEF PaymentsSpec

\* At thresholds at which the rule on duplicates blocks alone: a payout the rules
\* block, or an amount charged twice, only if a commit overlapped the evaluation.
THEOREM RulesHold == DuplicatesBlock /\ PaymentsSpec => []RulesHoldButByOverlap
<1> SUFFICES ASSUME DuplicatesBlock PROVE PaymentsSpec => []RulesHoldButByOverlap
  OBVIOUS
<1>1. Inits => MarketInv /\ RulesInv
  BY PartsBegin, MarketInvInit
<1>2. MarketInv /\ RulesInv /\ [Nexts]_allVars => MarketInv' /\ RulesInv'
  BY PartsStep, MarketInvNext, RulesInvNext
<1>3. MarketInv /\ RulesInv => RulesHoldButByOverlap
  BY MarketInvMeans DEF RulesInv, RulesHoldButByOverlap
<1>4. QED BY <1>1, <1>2, <1>3, PTL DEF PaymentsSpec

\* A payout's outcome stays, whoever settles it at the same time.
THEOREM OutcomesStay == PaymentsSpec => SettledIsFinal
<1>1. Inits => MarketTypes
  BY PartsBegin, MarketTypesInit
<1>2. MarketTypes /\ [Nexts]_allVars => MarketTypes' /\ [P!KeepsSettled]_vars
  BY PartsStep, MarketTypesNext, SettledKept
<1>3. QED BY <1>1, <1>2, PTL DEF PaymentsSpec, SettledIsFinal

\* For every charge, shares and amounts: every refund credits what it debits, to
\* the cent, and by SPLIT no party but the last ever pays more than its share.
THEOREM RefundsMatch == PaymentsSpec => []RefundsAddUp
<1>1. Inits => RefundInv
  BY PartsBegin, RefundInvInit
<1>2. RefundInv /\ [Nexts]_allVars => RefundInv'
  BY PartsStep, RefundInvNext
<1>3. RefundInv => RefundsAddUp
  BY RefundInvMeans
<1>4. QED BY <1>1, <1>2, <1>3, PTL DEF PaymentsSpec

\* A key refunds once, and a charge is exceeded only by a sum that was no longer
\* true when its refund was committed.
THEOREM RefundsBounded == PaymentsSpec => []RefundsAreBounded
<1>1. Inits => RefundInv
  BY PartsBegin, RefundInvInit
<1>2. RefundInv /\ [Nexts]_allVars => RefundInv'
  BY PartsStep, RefundInvNext
<1>3. RefundInv => RefundsAreBounded
  BY RefundInvMeans
<1>4. QED BY <1>1, <1>2, <1>3, PTL DEF PaymentsSpec

\* A payment is credited once, only after SUCCESS, and what the PSP is told is
\* taken is credited, being credited, or of a call that failed.
THEOREM DepositsTold == PaymentsSpec => []CreditedAsTold
<1>1. Inits => DepositInv
  BY PartsBegin, DepositInvInit
<1>2. DepositInv /\ [Nexts]_allVars => DepositInv'
  BY PartsStep, DepositInvNext
<1>3. DepositInv => CreditedAsTold
  BY DepositInvMeans
<1>4. QED BY <1>1, <1>2, <1>3, PTL DEF PaymentsSpec

\* For every set of disputes and amounts: the rows and the wallet are what the
\* disputes' statuses say, but for a dispute evidence reopened after its verdict.
THEOREM DisputesBooked == PaymentsSpec => []DisputeIsBooked
<1>1. Inits => DisputeInv
  BY PartsBegin, DisputeInvInit
<1>2. DisputeInv /\ [Nexts]_allVars => DisputeInv'
  BY PartsStep, DisputeInvNext
<1>3. DisputeInv => DisputeIsBooked
  BY DEF DisputeInv, DisputeIsBooked
<1>4. QED BY <1>1, <1>2, <1>3, PTL DEF PaymentsSpec

\* Transfers, deposits, fees and rides, statement by statement: the wallets are
\* what the ledger says, and who is told so finds the request booked, unless a
\* deposit or a fee was sent under a reference that a service builds.
THEOREM WalletsExplained == PaymentsSpec => []WalletsAddUp
<1>1. Inits => RidesInv
  BY PartsBegin, RidesInvInit
<1>2. RidesInv /\ [Nexts]_allVars => RidesInv'
  BY PartsStep, RidesInvNext
<1>3. RidesInv => WalletsAddUp
  BY RidesInvMeans DEF WalletsAddUp
<1>4. QED BY <1>1, <1>2, <1>3, PTL DEF PaymentsSpec

\* settleRide and ride-finalize: a settled ride has moved its fare once, to the
\* cent; a ride answered as settled is, unless a client's deposit or fee took its
\* reference; and a duplicate finalization is booked, under way or failed.
THEOREM RidesBooked == PaymentsSpec => []RideIsBooked
<1>1. Inits => RidesInv
  BY PartsBegin, RidesInvInit
<1>2. RidesInv /\ [Nexts]_allVars => RidesInv'
  BY PartsStep, RidesInvNext
<1>3. RidesInv => RideIsBooked
  BY RidesInvMeans DEF RideIsBooked
<1>4. QED BY <1>1, <1>2, <1>3, PTL DEF PaymentsSpec

\* settleRide: a cash ride never takes its driver below MAX_DRIVER_DEBT, whatever
\* the driver transfers away between the check and the commit.
THEOREM FloorKept == PaymentsSpec => CashKeepsFloor
<1>1. Inits => RidesInv
  BY PartsBegin, RidesInvInit
<1>2. RidesInv /\ [Nexts]_allVars => RidesInv' /\ [W!KeepsFloor]_rides
  BY PartsStep, RidesInvNext
<1>3. QED BY <1>1, <1>2, PTL DEF PaymentsSpec, CashKeepsFloor
=============================================================================
