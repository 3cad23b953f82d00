------------------------------- MODULE Rides -------------------------------
(***************************************************************************)
(* Safe Taxi on the wallets of WalletService: rides, their settlement by   *)
(* the driver (SafeTaxiService.settleRide) and their finalization by an    *)
(* integrator (payments/ride-finalize, RideFinalizeService).               *)
(*                                                                         *)
(* Both pay in Serializable transactions, under references of their own,   *)
(* while the READ COMMITTED transactions of Wallets write the same rows.   *)
(***************************************************************************)
EXTENDS Wallets

CONSTANTS
  RideIds,
  Passenger, Driver,  \* user of each ride
  Platform,           \* SAFE_TAXI_PLATFORM_USER_ID
  Fares,              \* fareCents the driver or an administrator may send
  Bps,                \* SAFE_TAXI_PLATFORM_COMMISSION_BPS
  Floor,              \* MAX_DRIVER_DEBT
  Base, Commission, Tip,  \* amounts a finalization is asked with
  Workers,            \* settlements and finalizations under way at once
  NoJob

RidesAssumption ==
  /\ Passenger \in [RideIds -> Users] /\ Driver \in [RideIds -> Users]
  /\ \A r \in RideIds : Passenger[r] # Driver[r]
FaresAssumption == Fares \subseteq Nat \ 0..99 /\ Bps \in 0..10000
FloorAssumption == Floor \in Int /\ Floor <= 0
FinalizeAssumption == Base \in Nat \ {0} /\ Commission \in 0..Base /\ Tip \in Nat

\* The transaction of a settlement or a finalization.
Jobs ==
  [op : {"settle", "finalize"}, step : {"read", "commit"}, ride : RideIds,
   fare : Fares \cup {Base}, debit : BOOLEAN, dirty : SUBSET (Users \cup {Platform} \cup RideIds)]

NoJobAssumption == NoJob \notin Jobs

VARIABLES
  ride,       \* SafeTaxiRide.status; "NONE" before, "CHECKED" before the insert
  method,     \* SafeTaxiRide.paymentMethod
  fare,       \* SafeTaxiRide.fareCents, 0 before the settlement
  finalizing, \* rides whose idemp:ride-finalize key is in Redis
  job,        \* the transaction of each worker
  abandoned   \* history: rides whose key is there and whose finalization failed

rideVars == <<ride, method, fare, finalizing, job, abandoned>>
vars == <<walletVars, rideVars>>

\* dirty: what other transactions wrote since the job's snapshot.
Init ==
  /\ InitWallets
  /\ ride = [r \in RideIds |-> "NONE"]
  /\ method = [r \in RideIds |-> "CARD"]
  /\ fare = [r \in RideIds |-> 0]
  /\ finalizing = {}
  /\ job = [w \in Workers |-> NoJob]
  /\ abandoned = {}

\* The jobs under way, but for those of W, have been overtaken by a commit.
Overtaken(W, written) ==
  [w \in Workers |->
     IF w \in W THEN NoJob
     ELSE IF job[w] # NoJob /\ job[w].step = "commit"
          THEN [job[w] EXCEPT !.dirty = @ \cup written] ELSE job[w]]

\* A call of Wallets goes on.
WalletStep ==
  /\ WalletNext
  /\ job' = Overtaken({}, {row.user : row \in ledger' \ ledger})
  /\ UNCHANGED <<ride, method, fare, finalizing, abandoned>>

-----------------------------------------------------------------------------
(* createRide.                                                             *)

\* A driver below the floor gets no new cash ride. The check and the insert
\* are statements of their own.
CheckRide(r, m) ==
  /\ ride[r] = "NONE"
  /\ m = "CASH" => balance[Driver[r]] >= Floor
  /\ ride' = [ride EXCEPT ![r] = "CHECKED"]
  /\ method' = [method EXCEPT ![r] = m]
  /\ UNCHANGED <<walletVars, fare, finalizing, job, abandoned>>

CreateRide(r) ==
  /\ ride[r] = "CHECKED"
  /\ ride' = [ride EXCEPT ![r] = "CREATED"]
  /\ UNCHANGED <<walletVars, method, fare, finalizing, job, abandoned>>

-----------------------------------------------------------------------------
(* Booking in a Serializable transaction.                                  *)

Row(ref, user, amount) == [ref |-> ref, user |-> user, amount |-> amount, by |-> "ride"]

\* Mutation: the driver's part is rounded down as well.
Split_BothDown(f) ==
  [platform |-> (f * Bps) \div 10000, driver |-> (f * (10000 - Bps)) \div 10000]

\* splitSafeTaxiFare.
Split(f) ==
  LET platform == (f * Bps) \div 10000
  IN  [platform |-> platform, driver |-> f - platform]

\* Mutation: the transaction runs READ COMMITTED.
NoConflict_ReadCommitted(w, rows) == TRUE

\* A row the transaction writes was written after its snapshot, or is being
\* written: it waits, and then fails to serialize.
NoConflict(w, rows) ==
  LET written == {row.user : row \in rows}
  IN  /\ job[w].dirty \cap (written \cup {job[w].ride}) = {}
      /\ written \cap Locked = {}

Run(w, op) == job[w] # NoJob /\ job[w].step = "commit" /\ job[w].op = op

\* w commits rows, with unique references.
BookRide(w, rows, written) ==
  /\ NoConflict(w, rows)
  /\ {row.ref : row \in rows} \cap BookedRefs = {}
  /\ Book(rows)
  /\ job' = Overtaken({w}, written \cup {row.user : row \in rows})
  /\ told' = {}
  /\ UNCHANGED call

\* Rolled back, and settleRide or the request ends: not found, a conflict, a
\* reference that is there, a timeout, a crash.
AbortRide(w) ==
  /\ job[w] # NoJob
  /\ job' = [job EXCEPT ![w] = NoJob]
  /\ abandoned' = abandoned \cup {r \in {job[w].ride} : job[w].op = "finalize"}
  /\ UNCHANGED <<walletVars, ride, method, fare, finalizing>>

-----------------------------------------------------------------------------
(* settleRide.                                                             *)

\* The reference a settlement looks up.
Sought(r) == <<IF method[r] = "CARD" THEN "stx:passenger" ELSE "stx:commission", r>>

\* Whoever settles the ride is answered that it was settled before.
AnsweredAsSettled(r) ==
  ride[r] = "SETTLED" \/ (ride[r] = "CREATED" /\ Sought(r) \in BookedRefs)

\* The snapshot: a ride answered as settled is left as it is; a cash ride whose
\* commission would take the driver below the floor is refused.
ReadRide(w, r, f) ==
  /\ job[w] = NoJob
  /\ ride[r] = "CREATED" /\ ~AnsweredAsSettled(r)
  /\ method[r] = "CASH" /\ Split(f).platform > 0 =>
       balance[Driver[r]] - Split(f).platform >= Floor
  /\ job' = [job EXCEPT ![w] =
       [op |-> "settle", step |-> "commit", ride |-> r, fare |-> f, debit |-> FALSE, dirty |-> {}]]
  /\ UNCHANGED <<walletVars, ride, method, fare, finalizing, abandoned>>

\* CARD: the passenger pays driver and platform. CASH: the driver, who has
\* the fare, pays the commission, if there is any.
SettlementRows(r, f) ==
  IF method[r] = "CARD"
  THEN {Row(<<"stx:passenger", r>>, Passenger[r], -f),
        Row(<<"stx:driver", r>>, Driver[r], Split(f).driver),
        Row(<<"stx:platform", r>>, Platform, Split(f).platform)}
  ELSE IF Split(f).platform = 0 THEN {}
  ELSE {Row(<<"stx:commission", r>>, Driver[r], -Split(f).platform),
        Row(<<"stx:commission:platform", r>>, Platform, Split(f).platform)}

SettleRide(w) ==
  /\ Run(w, "settle")
  /\ BookRide(w, SettlementRows(job[w].ride, job[w].fare), {job[w].ride})
  /\ ride' = [ride EXCEPT ![job[w].ride] = "SETTLED"]
  /\ fare' = [fare EXCEPT ![job[w].ride] = job[w].fare]
  /\ UNCHANGED <<method, finalizing, abandoned>>

-----------------------------------------------------------------------------
(* payments/ride-finalize.                                                 *)

\* SET NX; a key that is there is answered 200, duplicate.
StartFinalize(w, r) ==
  /\ job[w] = NoJob
  /\ r \notin finalizing
  /\ finalizing' = finalizing \cup {r}
  /\ job' = [job EXCEPT ![w] =
       [op |-> "finalize", step |-> "read", ride |-> r, fare |-> Base, debit |-> FALSE, dirty |-> {}]]
  /\ UNCHANGED <<walletVars, ride, method, fare, abandoned>>

\* The snapshot. Whatever the ride's status: the passenger is debited if the
\* balance covers the base amount, and is taken to have paid otherwise.
ReadFinalize(w) ==
  /\ job[w] # NoJob /\ job[w].step = "read"
  /\ ride[job[w].ride] \in {"CREATED", "SETTLED"}
  /\ job' = [job EXCEPT ![w].step = "commit",
                        ![w].debit = balance[Passenger[job[w].ride]] >= Base]
  /\ UNCHANGED <<walletVars, ride, method, fare, finalizing, abandoned>>

FinalizeRows(r, debit) ==
  {Row(<<"ride:debit", r>>, Passenger[r], -Base) : x \in {y \in {debit} : y}}
  \cup {Row(<<"ride:driver", r>>, Driver[r], Base - Commission),
        Row(<<"ride:platform", r>>, Platform, Commission)}
  \cup {Row(<<"ride:tip", r>>, Driver[r], Tip) : x \in {y \in {Tip} : y > 0}}

FinalizeRide(w) ==
  /\ Run(w, "finalize")
  /\ BookRide(w, FinalizeRows(job[w].ride, job[w].debit), {})
  /\ UNCHANGED <<ride, method, fare, finalizing, abandoned>>

\* 24 hours, far longer than a request takes. No failure deletes the key.
FinalizeKeyExpires(r) ==
  /\ r \in finalizing
  /\ \A w \in Workers : job[w] # NoJob => job[w].ride # r \/ job[w].op # "finalize"
  /\ finalizing' = finalizing \ {r}
  /\ abandoned' = abandoned \ {r}
  /\ UNCHANGED <<walletVars, ride, method, fare, job>>

-----------------------------------------------------------------------------

Next ==
  \/ WalletStep
  \/ \E r \in RideIds : (\E m \in {"CARD", "CASH"} : CheckRide(r, m)) \/ CreateRide(r) \/ FinalizeKeyExpires(r)
  \/ \E w \in Workers :
       \/ \E r \in RideIds, f \in Fares : ReadRide(w, r, f)
       \/ \E r \in RideIds : StartFinalize(w, r)
       \/ SettleRide(w) \/ ReadFinalize(w) \/ FinalizeRide(w) \/ AbortRide(w)

Spec == Init /\ [][Next]_vars

-----------------------------------------------------------------------------
(* Properties.                                                             *)

RideRows(r) == {row \in ledger : row.by = "ride" /\ row.ref[2] = r /\ row.ref[1] \in
  {"stx:passenger", "stx:driver", "stx:platform", "stx:commission", "stx:commission:platform"}}

\* A ride that is settled has moved its fare once, to the cent, and one that
\* is not has moved nothing, however often and with whatever fares it was
\* settled at the same time.
SettledOnceToTheCent ==
  \A r \in RideIds :
    /\ Total(RideRows(r)) = 0
    /\ Total({row \in RideRows(r) : row.amount > 0}) =
         IF ride[r] # "SETTLED" THEN 0
         ELSE IF method[r] = "CARD" THEN fare[r] ELSE Split(fare[r]).platform

\* A ride answered as settled is settled, unless a deposit or a fee was sent
\* under the very reference that its settlement looks up.
AnsweredIsSettled ==
  \A r \in RideIds :
    AnsweredAsSettled(r) =>
      ride[r] = "SETTLED" \/ \E row \in ledger : row.ref = Sought(r) /\ row.by = "raw"

FinalRows(r) == {row \in ledger : row.by = "ride" /\ row.ref[2] = r /\ row.ref[1] \in
  {"ride:debit", "ride:driver", "ride:platform", "ride:tip"}}

\* A repeated finalization, answered as a duplicate because of the key, is
\* booked in full or under way, unless the one that took the key failed.
DuplicateIsBooked ==
  \A r \in finalizing \ abandoned :
    \/ \E w \in Workers : job[w] # NoJob /\ job[w].op = "finalize" /\ job[w].ride = r
    \/ \E debit \in BOOLEAN : FinalRows(r) = FinalizeRows(r, debit)

\* Whichever endpoint: a ride is settled once, to the cent; the answer that it
\* was settled before is true unless a client took its reference, and the one
\* that it was finalized before is true but for a failure.
RideIsBooked == SettledOnceToTheCent /\ AnsweredIsSettled /\ DuplicateIsBooked

\* Settling a cash ride never takes the driver below the floor, whatever the
\* driver transfers away in the meantime.
KeepsFloor ==
  \A r \in RideIds :
    method[r] = "CASH" /\ balance'[Driver[r]] < Floor => RideRows(r)' = RideRows(r)
=============================================================================
