------------------------------ MODULE Tournament ------------------------------
(***************************************************************************)
(* One tournament: registration with the entry fee held in escrow, the     *)
(* single-elimination bracket, the three ways a match is closed (agreeing  *)
(* reports, legacy resolve, v1 settlement), the payout of the pool and the *)
(* cancellation that refunds it.                                           *)
(*                                                                         *)
(* Every handler runs in one Serializable transaction, so every handler is *)
(* one atomic action; a handler that throws rolls back and is a step that  *)
(* is not enabled.                                                         *)
(***************************************************************************)
EXTENDS Integers, FiniteSets, Sequences, Bags, SequencesExt, FiniteSetsExt

CONSTANTS
  Users,          \* registered users, each with a wallet
  Organizer,      \* the user who created the tournament
  MaxPlayers,     \* Tournament.maxPlayers
  EntryFee,       \* Tournament.entryFee, in grosze
  Funds,          \* balance of every wallet before registration opens
  NoUser, NoMatch \* null values

ASSUME OrganizerAssumption == Organizer \in Users
ASSUME FeeAssumption == EntryFee \in Nat \ {0} /\ Funds \in Nat
ASSUME PlayersAssumption == MaxPlayers \in Nat /\ MaxPlayers >= 2

VARIABLES
  tstatus,   \* Tournament.status
  regOpen,   \* new Date() <= registrationEndsAt
  joined,    \* participants in joinedAt order
  matches,   \* Match rows, by <<roundNumber, slot>>
  balance,   \* Wallet.balance of each user
  ledger,    \* bag of Transaction rows
  outbox     \* bag of FUNDS_SETTLED OutboxEvent rows, by match

vars == <<tstatus, regOpen, joined, matches, balance, ledger, outbox>>
money == <<balance, ledger, outbox>>

Terminal == {"RESOLVED", "SETTLED"}

\* What a report, a verdict or a bracket step can read of a match. The
\* reports of a match are read only while it is PENDING: the rows of a closed
\* match are not kept.
MatchOf(players, prize) ==
  [players |-> players, status |-> "PENDING", winner |-> NoUser,
   prize |-> prize, reports |-> <<>>]

\* Rows are created next to those there are.
Create(rows, new) ==
  [k \in DOMAIN rows \cup DOMAIN new |-> IF k \in DOMAIN new THEN new[k] ELSE rows[k]]

Entry(type, user, match, via) ==
  [type |-> type, user |-> user, match |-> match, via |-> via]

Book(entries) == ledger' = ledger (+) SetToBag(entries)

-----------------------------------------------------------------------------
(* The split of the pool: 10% platform fee, half of it for the organizer.  *)
TotalPool == EntryFee * Len(joined)
PlatformTotalFee == (TotalPool * 10) \div 100
OrganizerCut == (PlatformTotalFee * 50) \div 100
WinnerPayout == TotalPool - PlatformTotalFee

Amount(e) ==
  IF e.type \in {"ESCROW_HOLD", "REFUND"} THEN EntryFee
  ELSE IF e.via \in {"win", "win_v1"} THEN WinnerPayout ELSE OrganizerCut

\* Mutation: an organizer who wins is credited the organizer's cut only.
PayPool_OrganizerOverwritten(m, winner, win, org) ==
  /\ balance' = [u \in Users |->
       balance[u] + CASE u = Organizer -> OrganizerCut
                      [] u = winner /\ u # Organizer -> WinnerPayout
                      [] OTHER -> 0]
  /\ Book({Entry("PRIZE_PAYOUT", winner, m, win)} \cup
          (IF OrganizerCut > 0
           THEN {Entry("PRIZE_PAYOUT", Organizer, m, org)} ELSE {}))

\* The wallet updates and Transaction rows of a payout of the pool.
PayPool(m, winner, win, org) ==
  /\ balance' = [u \in Users |->
       balance[u] + (IF u = winner THEN WinnerPayout ELSE 0)
                  + (IF u = Organizer THEN OrganizerCut ELSE 0)]
  /\ Book({Entry("PRIZE_PAYOUT", winner, m, win)} \cup
          (IF OrganizerCut > 0
           THEN {Entry("PRIZE_PAYOUT", Organizer, m, org)} ELSE {}))

\* ClearingService.processPayout: the legacy payout, with references that
\* carry the time of day and so are never refused as duplicates.
ProcessPayout(m, winner) ==
  /\ IF matches[m].prize
     THEN PayPool(m, winner, "win", "org")
     ELSE UNCHANGED <<balance, ledger>>
  /\ UNCHANGED outbox

-----------------------------------------------------------------------------
(* The bracket.                                                            *)
RoundOf(ms, r) == {m \in DOMAIN ms : m[1] = r}
RoundDone(ms, r) == \A m \in RoundOf(ms, r) : ms[m].status \in Terminal

\* The first round that is not done or has no successor.
CurrentRound(ms) ==
  CHOOSE r \in {m[1] : m \in DOMAIN ms} :
    /\ ~RoundDone(ms, r) \/ RoundOf(ms, r + 1) = {}
    /\ \A q \in 1..(r - 1) : RoundDone(ms, q)

\* Mutation: the pair is built from one winner twice.
NextRound_SameWinnerTwice(ms, r, order) ==
  LET pairs == Len(order) \div 2
  IN  [m \in {<<r + 1, i>> : i \in 1..pairs} |->
         MatchOf({ms[order[2 * m[2]]].winner}, pairs = 1)]

\* All rows of a round are created by one createMany and share createdAt:
\* the order in which the winners are paired is the database's choice.
NextRound(ms, r, order) ==
  LET pairs == Len(order) \div 2
  IN  [m \in {<<r + 1, i>> : i \in 1..pairs} |->
         MatchOf({ms[order[2 * m[2] - 1]].winner, ms[order[2 * m[2]]].winner},
                 pairs = 1)]

\* Mutation: the bracket is advanced only when a match is left to play.
AdvanceAfterTerminalMatch_NeverCompletes(ms) ==
  LET r == CurrentRound(ms)
      n == Cardinality(RoundOf(ms, r))
  IN  \/ /\ tstatus # "IN_PROGRESS" \/ ~RoundDone(ms, r) \/ n = 1
         /\ matches' = ms
         /\ UNCHANGED tstatus
      \/ /\ tstatus = "IN_PROGRESS" /\ RoundDone(ms, r) /\ n % 2 = 0
         /\ \E order \in SetToSeqs(RoundOf(ms, r)) :
              matches' = Create(ms, NextRound(ms, r, order))
         /\ UNCHANGED tstatus

\* advanceAfterTerminalMatch, on the matches as the handler leaves them. An odd
\* number of winners throws BRACKET_ODD_WINNERS and rolls the handler back.
AdvanceAfterTerminalMatch(ms) ==
  LET r == CurrentRound(ms)
      n == Cardinality(RoundOf(ms, r))
  IN  \/ /\ tstatus # "IN_PROGRESS" \/ ~RoundDone(ms, r)
         /\ matches' = ms
         /\ UNCHANGED tstatus
      \/ /\ tstatus = "IN_PROGRESS" /\ RoundDone(ms, r) /\ n = 1
         /\ matches' = ms
         /\ tstatus' = "COMPLETED"
      \/ /\ tstatus = "IN_PROGRESS" /\ RoundDone(ms, r) /\ n % 2 = 0
         /\ \E order \in SetToSeqs(RoundOf(ms, r)) :
              matches' = Create(ms, NextRound(ms, r, order))
         /\ UNCHANGED tstatus

Close(m, status, winner) ==
  AdvanceAfterTerminalMatch(
    [matches EXCEPT ![m].status = status, ![m].winner = winner,
                    ![m].reports = <<>>])

-----------------------------------------------------------------------------
Init ==
  /\ tstatus = "REGISTRATION" /\ regOpen = TRUE
  /\ joined = <<>> /\ matches = <<>>
  /\ balance = [u \in Users |-> Funds]
  /\ ledger = EmptyBag /\ outbox = EmptyBag

RegistrationEnds ==
  /\ regOpen /\ regOpen' = FALSE
  /\ UNCHANGED <<tstatus, joined, matches, money>>

\* The fee is debited without a look at the balance: the handler relies on
\* a database constraint that no migration creates.
JoinTournament(u) ==
  /\ tstatus = "REGISTRATION" /\ regOpen
  /\ Len(joined) < MaxPlayers
  /\ u \notin ToSet(joined)
  /\ balance' = [balance EXCEPT ![u] = @ - EntryFee]
  /\ Book({Entry("ESCROW_HOLD", u, NoMatch, "escrow")})
  /\ joined' = Append(joined, u)
  /\ UNCHANGED <<tstatus, regOpen, matches, outbox>>

\* Mutation: awardsTournamentPrize keeps its column default, TRUE.
StartTournament_PrizeByDefault ==
  LET n == Len(joined)
      pairs == n \div 2
  IN  /\ tstatus = "REGISTRATION" /\ DOMAIN matches = {}
      /\ n >= 2 /\ n % 2 = 0
      /\ matches' = [m \in {<<1, i>> : i \in 1..pairs} |->
           MatchOf({joined[2 * m[2] - 1], joined[2 * m[2]]}, TRUE)]
      /\ tstatus' = "IN_PROGRESS"
      /\ UNCHANGED <<regOpen, joined, money>>

StartTournament ==
  LET n == Len(joined)
      pairs == n \div 2
  IN  /\ tstatus = "REGISTRATION" /\ DOMAIN matches = {}
      /\ n >= 2 /\ n % 2 = 0
      /\ matches' = [m \in {<<1, i>> : i \in 1..pairs} |->
           MatchOf({joined[2 * m[2] - 1], joined[2 * m[2]]}, pairs = 1)]
      /\ tstatus' = "IN_PROGRESS"
      /\ UNCHANGED <<regOpen, joined, money>>

\* Allowed in IN_PROGRESS too; the matches keep their status.
CancelAndRefund ==
  /\ tstatus \notin {"COMPLETED", "CANCELED"}
  /\ balance' = [u \in Users |->
       IF u \in ToSet(joined) THEN balance[u] + EntryFee ELSE balance[u]]
  /\ Book({Entry("REFUND", u, NoMatch, "refund") : u \in ToSet(joined)})
  /\ tstatus' = "CANCELED"
  /\ UNCHANGED <<regOpen, joined, matches, outbox>>

ReportResult(m, reporter, claimed) ==
  LET reports == Create(matches[m].reports, [u \in {reporter} |-> claimed])
      both == Cardinality(DOMAIN reports) = 2
      agree == Cardinality(Range(reports)) = 1
  IN  /\ matches[m].status = "PENDING"
      /\ {reporter, claimed} \subseteq matches[m].players
      /\ reporter \notin DOMAIN matches[m].reports
      /\ \/ /\ ~both
            /\ matches' = [matches EXCEPT ![m].reports = reports]
            /\ UNCHANGED <<tstatus, money>>
         \/ /\ both /\ agree
            /\ Close(m, "RESOLVED", claimed)
            /\ ProcessPayout(m, claimed)
         \/ /\ both /\ ~agree
            /\ matches' = [matches EXCEPT ![m].status = "DISPUTED",
                                          ![m].reports = <<>>]
            /\ UNCHANGED <<tstatus, money>>
      /\ UNCHANGED <<regOpen, joined>>

\* MatchController.resolveDispute: refuses RESOLVED only, so a PENDING and a
\* SETTLED match can be resolved too.
ResolveDispute(m, winner) ==
  /\ matches[m].status # "RESOLVED"
  /\ winner \in matches[m].players
  /\ Close(m, "RESOLVED", winner)
  /\ ProcessPayout(m, winner)
  /\ UNCHANGED <<regOpen, joined>>

\* MatchSettlementService.settleDisputedMatch: the winner is any user.
SettleDisputedMatch(m, winner) ==
  /\ matches[m].status = "DISPUTED"
  /\ IF matches[m].prize
     THEN /\ PayPool(m, winner, "win_v1", "org_v1")
          /\ outbox' = outbox (+) SetToBag({m})
     ELSE UNCHANGED money
  /\ Close(m, "SETTLED", winner)
  /\ UNCHANGED <<regOpen, joined>>

Next ==
  \/ RegistrationEnds
  \/ StartTournament
  \/ CancelAndRefund
  \/ \E u \in Users : JoinTournament(u)
  \/ \E m \in DOMAIN matches, u, w \in Users : ReportResult(m, u, w)
  \/ \E m \in DOMAIN matches, w \in Users :
       ResolveDispute(m, w) \/ SettleDisputedMatch(m, w)

Spec == Init /\ [][Next]_vars
-----------------------------------------------------------------------------
(* Properties.                                                             *)

SumEntries(amount(_), test(_)) ==
  SumFunctionOnSet([e \in BagToSet(ledger) |-> amount(e) * ledger[e]],
                   {e \in BagToSet(ledger) : test(e)})
Held == SumEntries(Amount, LAMBDA e : e.type = "ESCROW_HOLD")
PaidOut == SumEntries(Amount, LAMBDA e : e.type # "ESCROW_HOLD")
PaidVia(via) == {e \in BagToSet(ledger) : e.via = via}

\* Every wallet balance is explained by the Transaction rows of its user: no
\* handler moves money without booking it or books what it does not move,
\* whichever of the two payout implementations ran. An ESCROW_HOLD row carries
\* the fee as a positive amount and stands for a debit.
BalancesMatchLedger ==
  \A u \in Users :
    balance[u] = Funds
      + SumEntries(LAMBDA e : IF e.type = "ESCROW_HOLD" THEN -Amount(e)
                              ELSE Amount(e),
                   LAMBDA e : e.user = u)

\* The administrator opened a paid match again, or the organizer cancelled a
\* running bracket: the two doors through which the pool can be paid twice.
Reopened == \E e \in PaidVia("win"), f \in PaidVia("win_v1") : e.match = f.match
LateCancel == tstatus = "CANCELED" /\ DOMAIN matches # {}

\* As long as neither happened, no sequence of joins, reports, disputes,
\* verdicts and cancellations pays out more than was held, a completed
\* tournament has paid exactly the winner and the organizer, and a cancelled
\* one has returned exactly what it held.
PoolConserved ==
  ~Reopened /\ ~LateCancel =>
    /\ PaidOut = CASE tstatus = "COMPLETED" -> WinnerPayout + OrganizerCut
                   [] tstatus = "CANCELED" -> Held
                   [] OTHER -> 0
    /\ PaidOut <= Held

\* The bracket is in step with the tournament: while it runs every round but
\* the last is closed and the last has an open match, and it is completed only
\* by the close of a round of a single match, the one that carries the prize.
BracketInStep ==
  LET last == Max({m[1] : m \in DOMAIN matches})
  IN  DOMAIN matches # {} =>
        /\ \A r \in 1..(last - 1) : RoundDone(matches, r)
        /\ \A m \in DOMAIN matches :
             matches[m].prize <=> RoundOf(matches, m[1]) = {m}
        /\ tstatus = "IN_PROGRESS" => ~RoundDone(matches, last)
        /\ tstatus = "COMPLETED" =>
             RoundDone(matches, last) /\ Cardinality(RoundOf(matches, last)) = 1

\* A FUNDS_SETTLED event is written exactly when, and as often as, the v1
\* settlement pays the pool: event and money commit together or not at all.
EventIffSettled ==
  \A m \in DOMAIN matches :
    (IF m \in BagToSet(outbox) THEN outbox[m] ELSE 0) =
      SumEntries(LAMBDA e : 1, LAMBDA e : e.via = "win_v1" /\ e.match = m)

\* Money, rows and events are written together.
BooksAreComplete == BalancesMatchLedger /\ EventIffSettled

\* The step that opens a round creates half as many matches as were closed,
\* between the winners of the closed round: each of them and nobody else.
AdvanceTakesEveryWinner ==
  [][\A r \in {m[1] : m \in DOMAIN matches} :
       RoundOf(matches, r + 1) = {} /\ RoundOf(matches', r + 1) # {} =>
         /\ 2 * Cardinality(RoundOf(matches', r + 1)) =
              Cardinality(RoundOf(matches', r))
         /\ UNION {matches'[m].players : m \in RoundOf(matches', r + 1)} =
              {matches'[m].winner : m \in RoundOf(matches', r)}]_vars

\* ADR-001: the pool is not settled twice.
PrizePaidOnce == SumEntries(LAMBDA e : 1,
                            LAMBDA e : e.via \in {"win", "win_v1"}) <= 1
=============================================================================
