----------------------------- MODULE TradeView -----------------------------
(***************************************************************************)
(* TradeViewPage of the game client, in a tab whose history holds several   *)
(* trades: a jump between two of them keeps the component, and with it the  *)
(* trade shown and the requests under way, and changes the tradeId its      *)
(* handlers use. The other party acts on the same trades meanwhile.         *)
(***************************************************************************)
EXTENDS Naturals, FiniteSets

CONSTANTS
  Trades,
  MaxJumps,   \* bound: jumps in the history
  MaxClicks,  \* bound: buttons pressed
  NoTrade     \* nothing shown

TradesAssumption ==
  /\ IsFiniteSet(Trades) /\ NoTrade \notin Trades
  /\ MaxJumps \in Nat /\ MaxClicks \in Nat

VARIABLES
  me,        \* "seller" of the trades, or somebody "other", who may buy
  url,       \* the trade of the URL
  shown,     \* [trade, status] on the screen, what getTrade answered
  loads,     \* getTrade requests under way: [trade, for]
  action,    \* the handler under way: [kind, trade, step], or Idle
  failed,    \* the load of the URL's trade has failed
  status,    \* each trade's status on the server
  buyerIsMe, \* trades this user has paid
  overtaken, \* history: a load of another trade was under way at a jump
  jumps, clicks

vars == <<me, url, shown, loads, action, failed, status, buyerIsMe, overtaken,
          jumps, clicks>>

Blank == [trade |-> NoTrade, status |-> "PENDING", mine |-> FALSE]
Idle == [kind |-> "none", trade |-> NoTrade, step |-> 0]

\* useCallback and useEffect on tradeId: one load for each trade of the URL.
\* by: "page", or the handler that reloads when it is done.
LoadOf(t, by) == [trade |-> t, by |-> by]

Init ==
  /\ me \in {"seller", "other"}
  /\ url \in Trades
  /\ shown = Blank
  /\ loads = {LoadOf(url, "page")}
  /\ action = Idle
  /\ failed = FALSE
  /\ status = [t \in Trades |-> "PENDING"]
  /\ buyerIsMe = {}
  /\ overtaken = FALSE
  /\ jumps = 0 /\ clicks = 0

\* Mutation: the effect does not depend on tradeId.
Jump_NoReload(t) ==
  /\ jumps < MaxJumps /\ t # url
  /\ jumps' = jumps + 1
  /\ url' = t
  /\ overtaken' = (overtaken \/ loads # {} \/ action # Idle)
  /\ UNCHANGED <<me, shown, loads, action, failed, status, buyerIsMe, clicks>>

\* From one /trade/:tradeId to another: the new trade is asked for, what is on
\* the screen stays.
Jump(t) ==
  /\ jumps < MaxJumps /\ t # url
  /\ jumps' = jumps + 1
  /\ url' = t
  /\ overtaken' = (overtaken \/ loads # {} \/ action # Idle)
  /\ loads' = loads \cup {LoadOf(t, "page")}
  /\ failed' = FALSE
  /\ UNCHANGED <<me, shown, action, status, buyerIsMe, clicks>>

-----------------------------------------------------------------------------
(* loadTrade: its answer is shown whatever the URL is by then.             *)

\* A load of a handler ends the handler.
LoadEnds(l) ==
  /\ loads' = loads \ {l}
  /\ action' = IF l.by = "handler" THEN Idle ELSE action

Loaded(l) ==
  /\ shown' = [trade |-> l.trade, status |-> status[l.trade],
               mine |-> l.trade \in buyerIsMe]
  /\ LoadEnds(l)
  /\ UNCHANGED <<me, url, failed, status, buyerIsMe, overtaken, jumps, clicks>>

\* Any failure but a 404 keeps what is shown.
LoadFails(l) ==
  /\ failed' = (failed \/ l.trade = url)
  /\ LoadEnds(l)
  /\ UNCHANGED <<me, url, shown, status, buyerIsMe, overtaken, jumps, clicks>>

-----------------------------------------------------------------------------
(* The buttons: offered for the trade shown, pressed for the trade of the  *)
(* URL.                                                                    *)

canPay == me # "seller" /\ shown.status = "PENDING"
canConfirm == me # "seller" /\ shown.mine /\ shown.status = "PAID"
canCancel == me = "seller" /\ shown.status \in {"PENDING", "PAID"}

Offered(kind) ==
  CASE kind = "pay" -> canPay [] kind = "confirm" -> canConfirm [] OTHER -> canCancel

Press(kind) ==
  /\ shown.trade # NoTrade /\ action = Idle /\ clicks < MaxClicks
  /\ Offered(kind)
  /\ action' = [kind |-> kind, trade |-> url, step |-> 1]
  /\ clicks' = clicks + 1
  /\ UNCHANGED <<me, url, shown, loads, failed, status, buyerIsMe, overtaken, jumps>>

\* What the server lets a request do: the status on the screen may be old.
Outcome(a) ==
  CASE a.kind = "pay" /\ status[a.trade] = "PENDING" -> "PAID"
    [] a.kind = "confirm" /\ status[a.trade] = "PAID" /\ a.trade \in buyerIsMe -> "COMPLETED"
    [] a.kind = "cancel" /\ status[a.trade] \in {"PENDING", "PAID"} -> "CANCELLED"
    [] OTHER -> "refused"

\* payTrade, confirmTrade, cancelTrade; then loadTrade of the handler's trade.
Acts ==
  /\ action.step = 1
  /\ Outcome(action) # "refused"
  /\ status' = [status EXCEPT ![action.trade] = Outcome(action)]
  /\ buyerIsMe' = IF action.kind = "pay" THEN buyerIsMe \cup {action.trade} ELSE buyerIsMe
  /\ action' = [action EXCEPT !.step = 2]
  /\ loads' = loads \cup {LoadOf(action.trade, "handler")}
  /\ UNCHANGED <<me, url, shown, failed, overtaken, jumps, clicks>>

\* Refused, or no answer: an error is shown, and nothing is loaded again.
Refused ==
  /\ action.step = 1
  /\ \/ UNCHANGED <<status, buyerIsMe>>
     \/ /\ Outcome(action) # "refused"
        /\ status' = [status EXCEPT ![action.trade] = Outcome(action)]
        /\ buyerIsMe' = IF action.kind = "pay" THEN buyerIsMe \cup {action.trade}
                        ELSE buyerIsMe
  /\ action' = Idle
  /\ UNCHANGED <<me, url, shown, loads, failed, overtaken, jumps, clicks>>

\* The other party pays, confirms, cancels, or the offer expires.
OtherParty(t) ==
  /\ \/ status[t] = "PENDING" /\ t \notin buyerIsMe
        /\ \E s \in {"PAID", "CANCELLED"} : status' = [status EXCEPT ![t] = s]
     \/ status[t] = "PAID" /\ (me = "seller" \/ t \notin buyerIsMe)
        /\ status' = [status EXCEPT ![t] = "COMPLETED"]
     \/ status[t] = "PAID" /\ me # "seller"
        /\ status' = [status EXCEPT ![t] = "CANCELLED"]
  /\ UNCHANGED <<me, url, shown, loads, action, failed, buyerIsMe, overtaken,
                 jumps, clicks>>

Next ==
  \/ \E t \in Trades : Jump(t) \/ OtherParty(t)
  \/ \E l \in loads : Loaded(l) \/ LoadFails(l)
  \/ \E kind \in {"pay", "confirm", "cancel"} : Press(kind)
  \/ Acts \/ Refused

Spec == Init /\ [][Next]_vars

-----------------------------------------------------------------------------
(* Properties.                                                             *)

\* The screen shows another trade than the URL's only while the URL's is asked
\* for, after that failed, or because the answer of a request that was under
\* way at a jump came last.
ShownOtherOnlyBy ==
  shown.trade \notin {NoTrade, url} =>
    overtaken \/ failed \/ \E l \in loads : l.trade = url
=============================================================================
