----------------------------- MODULE ConfigForm ----------------------------
(***************************************************************************)
(* The integrator's webhook address: WebhookConfigManager in several tabs,  *)
(* and IntegratorConfigService, which looks for the row and then makes or   *)
(* updates it.                                                              *)
(***************************************************************************)
EXTENDS Naturals, FiniteSets

CONSTANTS
  Tabs,
  Urls,
  Null,      \* no address: nothing is sent, events go to the dead letters
  NoConfig,  \* the integrator has no row yet
  MaxSaves   \* bound: saves, and pages opened again before the last of them

ConfigAssumption == Null \notin Urls /\ MaxSaves \in Nat

VARIABLES
  stored,   \* the row: [url, secret], or NoConfig
  secrets,  \* secrets made so far
  tab,      \* each tab: phase, the secret shown, the load's answer
  put,      \* the PUT of each save, NoPut before and after
  knows,    \* history: the row each form was shown last, Unknown before
  excuse,   \* history: why a form may not know the row
  saves

configVars == <<stored, secrets, tab, put, knows, excuse, saves>>

Unknown == [url |-> Null, secret |-> 0]
NewTab == [phase |-> "loading", secret |-> 0, answer |-> Unknown]

\* fate: the form that sent it is "shown" still, its "form left" the screen, or
\* it has given up the reply. knew, excuse: history, as above, of that form.
NoPut == [step |-> "none", tab |-> Null, url |-> Null, fate |-> "shown",
          answer |-> Unknown, knew |-> Unknown, excuse |-> {}]

Saves == 1..MaxSaves

ConfigInit ==
  /\ stored \in {NoConfig} \cup [url : Urls, secret : {1}]
  /\ secrets = IF stored = NoConfig THEN 0 ELSE 1
  /\ tab = [t \in Tabs |-> NewTab]
  /\ put = [i \in Saves |-> NoPut]
  /\ knows = [t \in Tabs |-> Unknown]
  /\ excuse = [t \in Tabs |-> {}]
  /\ saves = 0

-----------------------------------------------------------------------------
(* WebhookConfigManager.                                                   *)

\* What a row puts into the form, but for the address, which can be edited.
Filled(row) ==
  IF row = NoConfig THEN [NewTab EXCEPT !.phase = "ready"]
  ELSE [NewTab EXCEPT !.phase = "ready", !.secret = row.secret]

Shows(t, row) ==
  /\ tab' = [tab EXCEPT ![t] = Filled(row)]
  /\ knows' = [knows EXCEPT ![t] = row]

\* The server reads the row for the load of a tab: getConfig.
ReadForLoad(t) ==
  /\ tab[t].phase = "loading"
  /\ tab' = [tab EXCEPT ![t].phase = "read", ![t].answer = stored]
  /\ UNCHANGED <<stored, secrets, put, knows, excuse, saves>>

\* Its answer arrives.
Loaded(t) ==
  /\ tab[t].phase = "read"
  /\ Shows(t, tab[t].answer)
  /\ UNCHANGED <<stored, secrets, put, excuse, saves>>

\* The form appears all the same, empty, and can be saved.
LoadFails(t) ==
  /\ tab[t].phase \in {"loading", "read"}
  /\ tab' = [tab EXCEPT ![t] = [NewTab EXCEPT !.phase = "ready"]]
  /\ excuse' = [excuse EXCEPT ![t] = {"load failed"}]
  /\ UNCHANGED <<stored, secrets, put, knows, saves>>

\* The PUT of a form of t on the screen, if i is one.
SentBy(t, i) == put[i].step # "none" /\ put[i].tab = t /\ put[i].fate = "shown"

\* The form of t will not show the answer of its PUT: fate says why. The server
\* goes on with a PUT it has not answered.
GivenUp(t, fate) ==
  put' = [i \in Saves |->
            IF ~SentBy(t, i) THEN put[i]
            ELSE IF put[i].step = "answer" THEN NoPut
            ELSE [put[i] EXCEPT !.fate = fate]]

\* The page is left by its links, or by a 401, and opened again, at any time (in
\* the model: as long as a save is to come).
Reopen(t) ==
  /\ saves < MaxSaves
  /\ tab' = [tab EXCEPT ![t] = NewTab]
  /\ knows' = [knows EXCEPT ![t] = Unknown]
  /\ excuse' = [excuse EXCEPT ![t] = {}]
  /\ GivenUp(t, "form left")
  /\ UNCHANGED <<stored, secrets, saves>>

\* Mutation: the form can be saved while it loads.
CanSave_Loading(t) == tab[t].phase \in {"ready", "loading"}

\* The form is on the screen and no other save of it is under way.
CanSave(t) == tab[t].phase = "ready"

\* submitSave, with what the field holds by now: an empty one is null.
Save(t, u) ==
  /\ CanSave(t) /\ saves < MaxSaves
  /\ saves' = saves + 1
  /\ tab' = [tab EXCEPT ![t].phase = "saving"]
  /\ put' = [put EXCEPT ![saves + 1] =
       [NoPut EXCEPT !.step = "find", !.tab = t, !.url = u,
                     !.knew = knows[t], !.excuse = excuse[t]]]
  /\ UNCHANGED <<stored, secrets, knows, excuse>>

-----------------------------------------------------------------------------
(* IntegrationsConfigController.put: getConfig, then create or update.     *)

Unwritten(i) == put[i].step \in {"find", "create", "update"}

Find(i) ==
  /\ put[i].step = "find"
  /\ put' = [put EXCEPT ![i].step = IF stored = NoConfig THEN "create" ELSE "update"]
  /\ UNCHANGED <<stored, secrets, tab, knows, excuse, saves>>

\* Why a form of tab t need not know of the write of i.
Reason(i, t) ==
  IF put[i].tab # t THEN "other tab"
  ELSE IF put[i].fate = "reply lost" THEN "reply lost" ELSE "form left"

\* The row is written, and its answer is on the way to the form that sent it.
Write(i, row) ==
  /\ stored' = row
  /\ put' = [j \in Saves |->
       IF j = i THEN IF put[i].fate = "shown"
                     THEN [put[i] EXCEPT !.step = "answer", !.answer = row] ELSE NoPut
       ELSE IF Unwritten(j)
            THEN [put[j] EXCEPT !.excuse = @ \cup {Reason(i, put[j].tab)}] ELSE put[j]]
  /\ excuse' = [t \in Tabs |-> IF SentBy(t, i) \/ tab[t].phase = "loading" THEN {}
                               ELSE excuse[t] \cup {Reason(i, t)}]
  /\ UNCHANGED <<tab, knows, saves>>

Create(i) ==
  /\ put[i].step = "create" /\ stored = NoConfig
  /\ secrets' = secrets + 1
  /\ Write(i, [url |-> put[i].url, secret |-> secrets + 1])

Update(i) ==
  /\ put[i].step = "update"
  /\ Write(i, [stored EXCEPT !.url = put[i].url])
  /\ UNCHANGED secrets

\* 500: userId is unique, the second of two that found no row is refused; or
\* the database fails before the write.
PutFails(i) ==
  /\ Unwritten(i)
  /\ put' = [put EXCEPT ![i] = NoPut]
  /\ tab' = IF put[i].fate = "shown" THEN [tab EXCEPT ![put[i].tab].phase = "ready"] ELSE tab
  /\ UNCHANGED <<stored, secrets, knows, excuse, saves>>

\* submitSave goes on: the row it wrote is shown.
Saved(i) ==
  /\ put[i].step = "answer"
  /\ Shows(put[i].tab, put[i].answer)
  /\ put' = [put EXCEPT ![i] = NoPut]
  /\ UNCHANGED <<stored, secrets, excuse, saves>>

\* The connection breaks: an error is shown, whatever the server does or did.
ReplyLost(t) ==
  /\ tab[t].phase = "saving"
  /\ tab' = [tab EXCEPT ![t].phase = "ready"]
  /\ GivenUp(t, "reply lost")
  /\ excuse' = [excuse EXCEPT ![t] = @ \cup
       {"reply lost" : i \in {i \in Saves : SentBy(t, i) /\ put[i].step = "answer"}}]
  /\ UNCHANGED <<stored, secrets, knows, saves>>

ConfigNext ==
  \/ \E t \in Tabs :
       \/ ReadForLoad(t) \/ Loaded(t) \/ LoadFails(t) \/ Reopen(t) \/ ReplyLost(t)
       \/ \E u \in Urls \cup {Null} : Save(t, u)
  \/ \E i \in Saves : Find(i) \/ Create(i) \/ Update(i) \/ PutFails(i) \/ Saved(i)

ConfigSpec == ConfigInit /\ [][ConfigNext]_configVars

-----------------------------------------------------------------------------
(* Properties.                                                             *)

\* The secret on a screen is the one the events are signed with.
SecretShownIsUsed ==
  \A t \in Tabs : tab[t].secret # 0 => tab[t].secret = stored.secret

\* A save replaces the row its form last showed. If not, the form's load had
\* failed, or a PUT has written since whose answer this form does not show: of
\* another tab, of a form of this tab that was left with its PUT under way (or
\* of the form opened after this one was left), or its own, with the reply lost.
ReplacesWhatItShows ==
  \A i \in Saves : Unwritten(i) /\ put[i].knew # stored => put[i].excuse # {}

\* The form tells the truth: of the secret always, of the address when it is
\* saved but for the named excuses.
FormTellsTheRow == SecretShownIsUsed /\ ReplacesWhatItShows
=============================================================================
