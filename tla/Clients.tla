------------------------------ MODULE Clients ------------------------------
(***************************************************************************)
(* What stands before the services: the session of a tab, the trade page,   *)
(* the lists and the webhook form of the two clients, the layers their      *)
(* requests (and an integrator's) pass, and the gateway before a match is   *)
(* resolved. They share no state: focus says which of them a behaviour is    *)
(* about.                                                                   *)
(***************************************************************************)
EXTENDS Access, ConfigForm

CONSTANTS
  MaxSessions, MaxVisits, MaxMishaps,            \* Session
  Trades, MaxJumps, MaxPresses, NoTrade,         \* TradeView
  PageSize, MaxPage, ExportMax, MaxRows, MaxTime, MaxUses, NoUser,  \* Listing
  Requests, Matches, OldRoute, Players, Keys, ApiMax, Limit, Window, MaxClock,
  MatchOf, KeyOf, WinnerOf, MaxGatewayFaults, NoPlayer  \* Gateway

VARIABLES
  focus,
  site, goal, token, made, live, admins, role, page, calls, timer, up, told,
  effects, unseen, swapped, visits, mishaps,
  me, url, shown, loads, action, failed, status, buyerIsMe, overtaken, jumps,
  presses,
  list, now, rows, ids, user, mounted, cache, fetch, carried, export, uses,
  clock, api, zset, key, winner, resolved, call, answer, writes, faults, lost

sessionVars == <<site, goal, token, made, live, admins, role, page, calls, timer,
  up, told, effects, unseen, swapped, visits, mishaps>>
tradeVars == <<me, url, shown, loads, action, failed, status, buyerIsMe,
  overtaken, jumps, presses>>
listVars == <<list, now, rows, ids, user, mounted, cache, fetch, carried, export,
  uses>>
gatewayVars == <<clock, api, zset, key, winner, resolved, call, answer, writes,
  faults, lost>>

S == INSTANCE Session WITH MaxSteps <- MaxVisits, MaxFaults <- MaxMishaps,
       clicks <- visits, faults <- mishaps
T == INSTANCE TradeView WITH MaxClicks <- MaxPresses, clicks <- presses
L == INSTANCE Listing WITH MaxClicks <- MaxUses, clicks <- uses
G == INSTANCE Gateway WITH MaxTime <- MaxClock, MaxFaults <- MaxGatewayFaults

ASSUME ClientsAssumption ==
  /\ S!SessionAssumption /\ T!TradesAssumption /\ L!ListingAssumption
  /\ G!RequestsAssumption /\ G!LimitsAssumption /\ AccessAssumption /\ ConfigAssumption

allVars == <<focus, vars, configVars, sessionVars, tradeVars, listVars, gatewayVars>>

\* A component that is not in focus is given one of its initial states.
ClientsInit ==
  /\ focus \in {"config", "session", "trade", "list", "gateway", "access"}
  /\ ConfigInit /\ (focus # "config" => stored = NoConfig)
  /\ S!Init /\ (focus # "session" => site = "game" /\ goal = "create")
  /\ T!Init /\ (focus # "trade" => me = "seller" /\ url = CHOOSE t \in Trades : TRUE)
  /\ L!Init /\ (focus # "list" => user = CHOOSE u \in Users : TRUE)
            /\ (focus # "list" => list = L!ApiKeysList)
  /\ G!Init
  /\ Init

ClientsNext ==
  /\ UNCHANGED focus
  /\ \/ /\ focus = "access"
        /\ UNCHANGED <<configVars, sessionVars, tradeVars, listVars, gatewayVars>>
        /\ Next
     \/ /\ focus = "config"
        /\ UNCHANGED <<vars, sessionVars, tradeVars, listVars, gatewayVars>>
        /\ ConfigNext
     \/ /\ focus = "session"
        /\ UNCHANGED <<vars, configVars, tradeVars, listVars, gatewayVars>>
        /\ S!Next
     \/ /\ focus = "trade"
        /\ UNCHANGED <<vars, configVars, sessionVars, listVars, gatewayVars>>
        /\ T!Next
     \/ /\ focus = "list"
        /\ UNCHANGED <<vars, configVars, sessionVars, tradeVars, gatewayVars>>
        /\ L!Next
     \/ /\ focus = "gateway"
        /\ UNCHANGED <<vars, configVars, sessionVars, tradeVars, listVars>>
        /\ G!Next

ClientsSpec ==
  ClientsInit /\ [][ClientsNext]_allVars /\ S!Fairness /\ G!Fairness

-----------------------------------------------------------------------------
(* The properties are stated, and commented, in the component modules; those *)
(* of Access and ConfigForm under their own names.                         *)

\* Session: a form takes effect twice only when its first answer was not seen.
RepeatedOnlyUnseen == S!RepeatedOnlyUnseen
\* Session: an unexpired session ends by logout, after a promotion, or by the
\* late refusal of an older session.
LiveSessionEndsBy ==
  [][(token \in live /\ token' = 0) => S!SessionEnds]_sessionVars
\* Session: the tab always comes to rest again, or the server is failing.
RedirectsEnd == S!RedirectsEnd
\* TradeView: another trade than the URL's is shown only in three cases.
ShownOtherOnlyBy == T!ShownOtherOnlyBy
\* Listing: no row twice, none missing but twins of a boundary, own rows only.
ListIsExplained == L!ListIsExplained
\* Gateway: who is answered 200 is told the winner of the one settlement.
AnswersNameTheWinner == G!AnswersNameTheWinner
\* Gateway: a key is PENDING for one request at a time.
PendingHasOneOwner == G!PendingHasOneOwner
\* Gateway: no address is refused for good.
RefusalEnds == G!RefusalEnds
=============================================================================
