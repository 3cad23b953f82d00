------------------------------ MODULE Wallets ------------------------------
(***************************************************************************)
(* WalletService: transfers between users, deposits and entry fees, each   *)
(* idempotent by a reference; an administrator's funding is a deposit      *)
(* under a random reference.                                               *)
(*                                                                         *)
(* Their transactions run READ COMMITTED: the reference is looked up, the  *)
(* wallets are updated one after the other, each update keeping its row    *)
(* locked until the end, and the unique reference is inserted last.        *)
(***************************************************************************)
EXTENDS Integers, Sequences, FiniteSets, Functions

CONSTANTS
  Users,
  Funds,     \* initial balance of each wallet
  Requests,  \* what the clients may ask for, as often as they like
  Calls,     \* calls that can be under way at the same time
  NoCall     \* no call under way

FundsAssumption == Funds \in [Users -> Int]

\* A deposit to user or a fee of user's, or a transfer to peer. The key is the
\* client's referenceId: any string, one that the services build as well. A
\* string is <<kind, what it is built from>>, and <<"raw", ...>> any other.
RequestsAssumption ==
  \A q \in Requests :
    /\ q.op \in {"transfer", "deposit", "fee"} /\ q.amount \in Nat \ {0}
    /\ q.user \in Users /\ q.peer \in Users
    /\ q.op = "transfer" <=> q.user # q.peer

VARIABLES
  balance,  \* Wallet.balance, committed
  ledger,   \* Transaction rows, committed: [ref, user, amount, by], where by is
            \* whose reference it is: p2p and ride are built, raw is as it came
  call,     \* the transaction of each call
  told      \* history: the request the last step answered as done

walletVars == <<balance, ledger, call, told>>

InitWallets ==
  /\ balance = Funds
  /\ ledger = {}
  /\ call = [c \in Calls |-> NoCall]
  /\ told = {}

-----------------------------------------------------------------------------
(* What a request books.                                                   *)

Leg(user, amount) == [user |-> user, amount |-> amount]

\* The updates of the wallets, in the order of the code.
Legs(q) ==
  CASE q.op = "transfer" -> <<Leg(q.user, -q.amount), Leg(q.peer, q.amount)>>
    [] q.op = "fee" -> <<Leg(q.user, -q.amount)>>
    [] q.op = "deposit" -> <<Leg(q.user, q.amount)>>

\* p2p:{key}:out and p2p:{key}:in, or the key as it is, in one unique column.
Refs(q) ==
  IF q.op = "transfer" THEN << <<"out", q.key>>, <<"in", q.key>> >>
                       ELSE << q.key >>

By(q) == IF q.op = "transfer" THEN "p2p" ELSE "raw"

RowsOf(q) ==
  {[ref |-> Refs(q)[i], user |-> Legs(q)[i].user, amount |-> Legs(q)[i].amount,
    by |-> By(q)] : i \in DOMAIN Legs(q)}

BookedRefs == {row.ref : row \in ledger}

Total(rows) == SumFunctionOnSet([row \in rows |-> row.amount], rows)

Booked(rows, u) == Total({row \in rows : row.user = u})

\* Commits rows together with the updates of their wallets.
Book(rows) ==
  /\ ledger' = ledger \cup rows
  /\ balance' = [u \in Users |-> balance[u] + Booked(rows, u)]

-----------------------------------------------------------------------------
(* The transaction of a call.                                              *)

At(c, step) == call[c] # NoCall /\ call[c].step = step
End(c) == call' = [call EXCEPT ![c] = NoCall]

\* The wallets c has updated and not yet committed.
Held(c) ==
  IF call[c] = NoCall THEN {}
  ELSE {Legs(call[c].req)[i].user : i \in 1..call[c].held}

Locked == UNION {Held(c) : c \in Calls}

Ask(c, q) ==
  /\ call[c] = NoCall
  /\ call' = [call EXCEPT ![c] = [req |-> q, held |-> 0, step |-> "find"]]
  /\ told' = {}
  /\ UNCHANGED <<balance, ledger>>

\* findFirst by the first of the references.
Known(q) == Refs(q)[1] \in BookedRefs

Find(c) ==
  /\ At(c, "find")
  /\ IF Known(call[c].req)
     THEN End(c) /\ told' = {call[c].req}
     ELSE call' = [call EXCEPT ![c].step = "update"] /\ told' = {}
  /\ UNCHANGED <<balance, ledger>>

\* The update of the next wallet waits for whoever has updated it.
Update(c) ==
  /\ At(c, "update")
  /\ call[c].held < Len(Legs(call[c].req))
  /\ Legs(call[c].req)[call[c].held + 1].user \notin Locked
  /\ call' = [call EXCEPT ![c].held = @ + 1]
  /\ told' = {}
  /\ UNCHANGED <<balance, ledger>>

Updated(c) == At(c, "update") /\ call[c].held = Len(Legs(call[c].req))

Unique(q) == Range(Refs(q)) \cap BookedRefs = {}

\* The rows are inserted and the transaction commits; the answer may be lost.
Commit(c) ==
  /\ Updated(c)
  /\ Unique(call[c].req)
  /\ Book(RowsOf(call[c].req))
  /\ told' \in {{}, {call[c].req}}
  /\ End(c)

\* Mutation: the wallets are updated outside the transaction of the rows.
Refused_UpdatesKept(c) ==
  /\ Updated(c)
  /\ ~Unique(call[c].req)
  /\ End(c)
  /\ told' = {}
  /\ balance' = [u \in Users |-> balance[u] + Booked(RowsOf(call[c].req), u)]
  /\ UNCHANGED ledger

\* A call with the same reference was faster: P2002, rolled back.
Refused(c) ==
  /\ Updated(c)
  /\ ~Unique(call[c].req)
  /\ End(c)
  /\ told' = {}
  /\ UNCHANGED <<balance, ledger>>

\* Rolled back: a wallet that is missing, a timeout of the transaction, the
\* victim of a deadlock between two transfers, a crash.
Abort(c) ==
  /\ call[c] # NoCall
  /\ End(c)
  /\ told' = {}
  /\ UNCHANGED <<balance, ledger>>

WalletNext ==
  \E c \in Calls :
    \/ \E q \in Requests : Ask(c, q)
    \/ Find(c) \/ Update(c) \/ Commit(c) \/ Refused(c) \/ Abort(c)

-----------------------------------------------------------------------------
(* Properties.                                                             *)

\* Every wallet holds its initial balance and what its rows say, whatever
\* commits in between and whichever call with one reference wins.
BalancesMatchLedger ==
  \A u \in Users : balance[u] = Funds[u] + Booked(ledger, u)

\* A client that is told its request is done, now or before, finds booked, with
\* both its legs, its own request or another under the same references, which
\* the service cannot tell from it; or else the reference that was looked up is
\* held by a row whose reference came about in another way: a deposit or a fee
\* was sent under a reference that a service builds.
AnsweredIsBooked ==
  \A q \in told :
    \/ \E other \in Requests :
         /\ By(other) = By(q) /\ Range(Refs(other)) = Range(Refs(q))
         /\ RowsOf(other) \subseteq ledger
    \/ \E row \in ledger : row.ref = Refs(q)[1] /\ row.by # By(q)

\* The wallets, the ledger and what the clients were told agree.
WalletsAddUp == BalancesMatchLedger /\ AnsweredIsBooked
=============================================================================
