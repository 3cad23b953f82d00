------------------------------ MODULE Session ------------------------------
(***************************************************************************)
(* One tab of a web client and its session: the game client (src/gaming)    *)
(* or the panel (src/frontend). A page is entered through its route guard   *)
(* and loads its data; an answer may come when the page is gone or another  *)
(* session has begun. The player has one thing to do, a form sent from one  *)
(* page, and goes on until told that it is done.                            *)
(***************************************************************************)
EXTENDS Naturals, FiniteSets, Sequences

CONSTANTS
  MaxSessions,  \* bound: logins
  MaxSteps,     \* bound: visits, forms sent, polls, and faults
  MaxFaults     \* bound: expiries, outages, lost replies, other tabs, promotions

SessionAssumption ==
  MaxSessions \in Nat /\ MaxSteps \in Nat /\ MaxFaults \in Nat

VARIABLES
  site,     \* "game" or "panel"
  goal,     \* the page whose form the player has to send
  token,    \* the session in localStorage, 0: none
  made,     \* sessions made so far: 1 .. made
  live,     \* sessions whose token has not expired
  admins,   \* sessions whose token says ADMIN
  role,     \* the account's role in the database
  page,     \* the page shown
  calls,    \* requests under way
  timer,    \* CreateTournamentPage's setTimeout is set
  up,       \* the server answers
  told,     \* what the player has been told of the form: "none", "error", "done"
  effects,  \* what the forms did on the server
  unseen,   \* history: effects, or forms, whose answer nobody saw
  swapped,  \* history: another tab has changed the token
  clicks, faults

vars == <<site, goal, token, made, live, admins, role, page, calls, timer, up,
          told, effects, unseen, swapped, clicks, faults>>

-----------------------------------------------------------------------------
(* The pages. A loader asks for the profile ("me"), for things of the user   *)
(* ("own") or for things of an administrator ("admin"), in this order; on the *)
(* codes in ends it drops the session; "login" is where it goes on any other. *)

Loader(asks, ends, other) == [asks |-> asks, ends |-> ends, other |-> other]

DashboardLoader   == Loader(<<"me">>, {401}, "login")
TournamentsLoader == Loader(<<"me", "own">>, {401}, "stay")
CreateLoader      == Loader(<<"me", "own">>, {401}, "stay")
TradeLoader       == Loader(<<"me", "own">>, {401}, "stay")
AdminLoader       == Loader(<<"me", "admin">>, {401, 403}, "stay")

PanelDashboardLoader == Loader(<<"me", "admin">>, {401, 403}, "stay")
AnalyticsLoader      == Loader(<<"admin">>, {401, 403}, "stay")
KeysLoader           == Loader(<<"own">>, {401, 403}, "stay")

\* What a form needs, the codes on which it drops the session, and what its
\* success does besides being shown.
Form(asks, ends, then) == [asks |-> asks, ends |-> ends, then |-> then]

DepositForm == Form("own", {401}, "psp")
CreateForm  == Form("own", {401}, "timer")
TradeForm   == Form("own", {}, "show")
FundForm    == Form("admin", {}, "show")
KeyForm     == Form("own", {401, 403}, "show")

\* The game's App.
GameRoutes == [home        |-> <<>>,
               login       |-> <<>>,
               psp         |-> <<>>,
               dashboard   |-> <<DashboardLoader, DepositForm>>,
               tournaments |-> <<TournamentsLoader>>,
               create      |-> <<CreateLoader, CreateForm>>,
               trade       |-> <<TradeLoader, TradeForm>>,
               admin       |-> <<AdminLoader, FundForm>>]

\* The panel's App.
PanelRoutes == [login     |-> <<>>,
                dashboard |-> <<PanelDashboardLoader>>,
                keys      |-> <<KeysLoader, KeyForm>>,
                admin     |-> <<AnalyticsLoader>>]

Routes == IF site = "game" THEN GameRoutes ELSE PanelRoutes

Public == {"home", "login", "psp"}

HasForm(p) == Len(Routes[p]) = 2

\* PublicRoute and ProtectedRoute; AdminRoute and LoginRoute.
Landing(p, t) ==
  IF t = 0 THEN IF p \in Public THEN p ELSE "login"
  ELSE IF p = "login" \/ (site = "panel" /\ p = "admin" /\ t \notin admins)
       THEN "dashboard" ELSE p

Load(p, t) == [kind |-> "load", page |-> p, step |-> 1, session |-> t,
               mounted |-> TRUE, sent |-> FALSE]

Forms(cs) == {c \in cs : c.kind = "form"}

\* The tab shows p, or what its guard sends it to: the calls of the page left
\* behind go on, and a form under way there has nobody to tell.
Enter(p, t, rest) ==
  LET q == Landing(p, t)
      left == {[c EXCEPT !.mounted = FALSE] : c \in rest}
  IN  /\ token' = t
      /\ page' = q
      /\ calls' = left \cup (IF Routes[q] = <<>> THEN {} ELSE {Load(q, t)})
      /\ unseen' = unseen + Cardinality({c \in Forms(rest) : c.mounted})
      /\ told' = IF told = "error" THEN "none" ELSE told

\* Mutation: the token stays, the tab is only sent to /login.
SignOut_TokenKept(c) == Enter("login", token, calls \ {c})

\* clearToken and navigate("/login"); logout of the panel.
SignOut(c) == Enter("login", 0, calls \ {c})

Click == clicks + faults < MaxSteps /\ clicks' = clicks + 1
Fault ==
  /\ faults < MaxFaults /\ clicks + faults < MaxSteps
  /\ faults' = faults + 1

Init ==
  /\ site \in {"game", "panel"}
  /\ goal \in {p \in DOMAIN Routes : HasForm(p)}
  /\ role \in (IF goal = "admin" THEN {"ADMIN"} ELSE {"USER"})
  /\ token = 0 /\ made = 0 /\ live = {} /\ admins = {}
  /\ page = "login"
  /\ calls = {}
  /\ timer = FALSE /\ up = TRUE /\ swapped = FALSE
  /\ told = "none" /\ effects = 0 /\ unseen = 0
  /\ clicks = 0 /\ faults = 0

-----------------------------------------------------------------------------
(* The player.                                                             *)

\* POST /auth/login: the token names the role of this moment.
NewSession(s) ==
  /\ made < MaxSessions /\ made' = s
  /\ live' = live \cup {s}
  /\ admins' = IF role = "ADMIN" THEN admins \cup {s} ELSE admins

Login ==
  /\ page = "login" /\ up
  /\ NewSession(made + 1)
  /\ Enter("dashboard", made + 1, calls)
  /\ UNCHANGED <<site, goal, role, timer, up, effects, swapped, clicks, faults>>

Logout ==
  /\ token # 0 /\ page \notin Public
  /\ Click
  /\ Enter(IF site = "game" THEN "home" ELSE "login", 0, calls)
  /\ UNCHANGED <<site, goal, made, live, admins, role, timer, up, effects,
                 swapped, faults>>

Visit(p) ==
  /\ p \in DOMAIN Routes \ {page, "psp"}
  /\ Click
  /\ Enter(p, token, calls)
  /\ UNCHANGED <<site, goal, made, live, admins, role, timer, up, effects,
                 swapped, faults>>

\* The panel's dashboard asks again every 10 s, answered or not.
Poll ==
  /\ site = "panel" /\ page = "dashboard"
  /\ Click
  /\ \/ token # 0 /\ calls' = calls \cup {Load(page, token)}
        /\ UNCHANGED <<token, page, unseen, told>>
     \/ token = 0 /\ Enter("login", 0, calls)
  /\ UNCHANGED <<site, goal, made, live, admins, role, timer, up, effects,
                 swapped, faults>>

NewForm == [kind |-> "form", page |-> page, step |-> 1, session |-> token,
            mounted |-> TRUE, sent |-> FALSE]

\* Mutation: the button stays enabled while the form is under way.
Submit_NotDisabled ==
  /\ page = goal /\ told # "done"
  /\ Click
  /\ calls' = calls \cup {[NewForm EXCEPT !.step = clicks]}
  /\ UNCHANGED <<site, goal, token, made, live, admins, role, page, timer, up,
                 told, effects, unseen, swapped, faults>>

\* handleDeposit, handleSubmit, handleFund, submitCreate: the button is
\* disabled while one is under way.
Loading == site = "game" /\ page = "dashboard" /\ \E c \in calls : c.mounted

Submit ==
  /\ page = goal /\ told # "done" /\ ~Loading
  /\ ~\E c \in Forms(calls) : c.mounted
  /\ Click
  /\ \/ /\ token # 0 \/ site = "game"
        /\ calls' = calls \cup {NewForm}
        /\ told' = "none"
        /\ UNCHANGED <<token, page, unseen>>
     \/ /\ token = 0 /\ site = "panel"
        /\ Enter("login", 0, calls)
  /\ UNCHANGED <<site, goal, made, live, admins, role, timer, up, effects,
                 swapped, faults>>

-----------------------------------------------------------------------------
(* The server.                                                             *)

Asked(c) == IF c.kind = "load" THEN Routes[c.page][1].asks[c.step]
            ELSE Routes[c.page][2].asks

\* The token the server looks at. GET /auth/me reads the header alone; every
\* other route prefers the cookie "jwt", which holds the browser's last login
\* until it expires: no logout clears it.
Bearer(c) == IF Asked(c) # "me" /\ made \in live THEN made ELSE c.session

\* The code of the answer: 401 only when there is no token at all, 403 when it
\* has expired, too; 500 stands for no answer.
Verdict(c) ==
  IF ~up THEN 500
  ELSE IF Bearer(c) = 0 THEN 401
  ELSE IF Bearer(c) \notin live THEN 403
  ELSE IF Asked(c) = "admin" /\ Bearer(c) \notin admins THEN 403
  ELSE 200

\* The form takes effect.
Execute(c) ==
  /\ c.kind = "form" /\ ~c.sent /\ Verdict(c) = 200
  /\ calls' = (calls \ {c}) \cup {[c EXCEPT !.sent = TRUE]}
  /\ effects' = effects + 1
  /\ UNCHANGED <<site, goal, token, made, live, admins, role, page, timer, up,
                 told, unseen, swapped, clicks, faults>>

-----------------------------------------------------------------------------
(* Answers.                                                                *)

\* Mutation: the game's loaders do not look whether the page is still there.
Hears_Always(c) == TRUE

\* The game's loaders have an isMounted flag, the panel's have none.
Hears(c) == c.mounted \/ site = "panel"

Ends(c) == Routes[c.page][IF c.kind = "load" THEN 1 ELSE 2].ends

Forget(c) == calls' = calls \ {c} /\ UNCHANGED <<token, page, unseen, told>>

\* The next request of a loader: the game reads the token again, the panel's
\* dashboard goes on with the one it has read. Nothing is asked as ADMIN when
\* the profile says something else; the game's AdminPage then leaves.
Continue(c) ==
  LET asks == Routes[c.page][1].asks
      more == c.step < Len(asks)
      refused == more /\ asks[c.step + 1] = "admin" /\ role # "ADMIN"
  IN  \/ /\ more /\ ~refused
         /\ calls' = (calls \ {c}) \cup
              {[c EXCEPT !.step = @ + 1, !.session = IF site = "game" THEN token ELSE @]}
         /\ UNCHANGED <<token, page, unseen, told>>
      \/ /\ refused /\ site = "game"
         /\ Enter("dashboard", token, calls \ {c})
      \/ /\ ~more \/ (refused /\ site = "panel")
         /\ Forget(c)

AnswerLoad(c) ==
  LET v == Verdict(c)
  IN  /\ c.kind = "load"
      /\ \/ /\ ~Hears(c)
            /\ Forget(c)
         \/ /\ Hears(c) /\ v = 200
            /\ Continue(c)
         \/ /\ Hears(c) /\ v \in Ends(c)
            /\ SignOut(c)
         \/ /\ Hears(c) /\ v \notin Ends(c) \cup {200}
            /\ IF Routes[c.page][1].other = "login"
               THEN Enter("login", token, calls \ {c})  \* the token is kept
               ELSE Forget(c)
      /\ UNCHANGED <<site, goal, made, live, admins, role, timer, up, effects,
                     swapped, clicks, faults>>

\* Success: shown, when the page is there; the deposit leaves for the payment
\* page from wherever the tab is, a new tournament sets the timer.
FormDone(c) ==
  /\ c.kind = "form" /\ c.sent
  /\ told' = IF c.mounted THEN "done" ELSE told
  /\ timer' = (timer \/ Routes[c.page][2].then = "timer")
  /\ IF Routes[c.page][2].then = "psp"
     THEN /\ page' = "psp"
          /\ calls' = {}
          /\ unseen' = unseen + Cardinality({k \in Forms(calls \ {c}) : k.mounted})
     ELSE /\ calls' = calls \ {c}
          /\ UNCHANGED <<page, unseen>>
  /\ UNCHANGED <<site, goal, token, made, live, admins, role, up, effects,
                 swapped, clicks, faults>>

\* A form that is refused, or whose request never arrives.
FormRefused(c) ==
  /\ c.kind = "form" /\ ~c.sent /\ Verdict(c) # 200
  /\ IF Verdict(c) \in Ends(c) THEN SignOut(c)
     ELSE /\ calls' = calls \ {c}
          /\ told' = IF c.mounted /\ told = "none" THEN "error" ELSE told
          /\ UNCHANGED <<token, page, unseen>>
  /\ UNCHANGED <<site, goal, made, live, admins, role, timer, up, effects,
                 swapped, clicks, faults>>

\* It took effect and the reply is lost.
ReplyLost(c) ==
  /\ c.kind = "form" /\ c.sent
  /\ Fault
  /\ calls' = calls \ {c}
  /\ told' = IF c.mounted /\ told = "none" THEN "error" ELSE told
  /\ unseen' = IF c.mounted THEN unseen + 1 ELSE unseen
  /\ UNCHANGED <<site, goal, token, made, live, admins, role, page, timer, up,
                 effects, swapped, clicks>>

\* The timer is not cleared when the page is left.
TimerFires ==
  /\ timer /\ page # "psp"
  /\ timer' = FALSE
  /\ Enter("tournaments", token, calls)
  /\ UNCHANGED <<site, goal, made, live, admins, role, up, effects, swapped,
                 clicks, faults>>

-----------------------------------------------------------------------------
(* Around the tab.                                                         *)

Expire(s) ==
  /\ s \in live
  /\ Fault
  /\ live' = live \ {s}
  /\ UNCHANGED <<site, goal, token, made, admins, role, page, calls, timer, up,
                 told, effects, unseen, swapped, clicks>>

Outage ==
  /\ \/ up /\ Fault
     \/ ~up /\ UNCHANGED faults
  /\ up' = ~up
  /\ UNCHANGED <<site, goal, token, made, live, admins, role, page, calls,
                 timer, told, effects, unseen, swapped, clicks>>

\* Another tab logs out, or in: localStorage is shared.
OtherTab ==
  /\ Fault
  /\ swapped' = TRUE
  /\ \/ token' = 0 /\ UNCHANGED <<made, live, admins>>
     \/ up /\ NewSession(made + 1) /\ token' = made + 1
  /\ UNCHANGED <<site, goal, role, page, calls, timer, up, told, effects,
                 unseen, clicks>>

\* An administrator makes the account an ADMIN: tokens made before say USER.
Promote ==
  /\ role = "USER" /\ made > 0
  /\ Fault
  /\ role' = "ADMIN"
  /\ UNCHANGED <<site, goal, token, made, live, admins, page, calls, timer, up,
                 told, effects, unseen, swapped, clicks>>

Answer(c) == Execute(c) \/ AnswerLoad(c) \/ FormDone(c) \/ FormRefused(c)

Next ==
  \/ Login \/ Logout \/ Poll \/ Submit \/ \E p \in DOMAIN Routes : Visit(p)
  \/ \E c \in calls : Answer(c) \/ ReplyLost(c)
  \/ TimerFires
  \/ \E s \in live : Expire(s)
  \/ Outage \/ OtherTab \/ Promote

Spec == Init /\ [][Next]_vars

\* Every request is answered, by the server or by the browser.
Fairness == WF_vars(\E c \in calls : Answer(c))

FairSpec == Spec /\ Fairness

-----------------------------------------------------------------------------
(* Properties.                                                             *)

\* A form takes effect twice only when the player could not know of the first:
\* its reply was lost or its page had gone.
RepeatedOnlyUnseen == effects <= 1 + unseen

\* An unexpired session ends by logout (here or in another tab), when a token
\* made before a promotion is refused, or by the late refusal of an older
\* session: in the panel by any, in the game only when another tab has changed
\* the token under the page.
EndsBy(c) ==
  \/ c.session = token /\ Verdict(c) = 403 /\ role = "ADMIN"
  \/ c.session # token /\ (site = "panel" \/ swapped)

SessionEnds == Logout \/ OtherTab \/ (\E c \in calls : EndsBy(c) /\ SignOut(c))

LiveSessionEndsBy == [][(token \in live /\ token' = 0) => SessionEnds]_vars

\* The tab comes to rest, except where the game's dashboard and the guard of
\* /login send it back and forth: while the server is failing, and with an
\* expired token, which is answered 403 and not 401.
BackAndForth == site = "game" /\ page = "dashboard" /\ token \notin live

RedirectsEnd == []<>(calls = {} \/ ~up \/ BackAndForth)
=============================================================================
