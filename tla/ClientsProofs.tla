--------------------------- MODULE ClientsProofs ----------------------------
(***************************************************************************)
(* What stands before the services, for any number of tabs, addresses,      *)
(* trades, rows, users and requests: a save of the webhook form replaces    *)
(* what its tab was shown, the trade page shows another trade than the      *)
(* URL's in three cases only, the lists have their rows once, an answer of  *)
(* resolve names the winner, a key has one owner, a form repeats only what  *)
(* was not seen, a session ends in the ways the clients know, and no route  *)
(* is served past its guards. Each part has an invariant of its own; the    *)
(* parts share nothing, so that a step of the clients is a step or a        *)
(* stutter of each.                                                         *)
(***************************************************************************)
EXTENDS Clients, FiniteSetTheorems, WellFoundedInduction, TLAPS

\* Each part begins in its own initial state.
LEMMA PartsBegin ==
  ClientsInit => ConfigInit /\ S!Init /\ T!Init /\ L!Init /\ G!Init /\ Init
BY DEF ClientsInit

\* A step of the clients is a step, or a stutter, of every part.
LEMMA PartsStep ==
  [ClientsNext]_allVars =>
    /\ [ConfigNext]_configVars /\ [S!Next]_sessionVars /\ [T!Next]_tradeVars
    /\ [L!Next]_listVars /\ [G!Next]_gatewayVars /\ [Next]_vars
BY DEF ClientsNext, allVars

-----------------------------------------------------------------------------
(* The webhook form.                                                      *)

Rows == [url : Urls \cup {Null}, secret : Nat \ {0}]
Views == Rows \cup {NoConfig, Unknown}

Forms == [phase : {"loading", "read", "ready", "saving"}, secret : Nat, answer : Views]
Excuses == {"load failed", "other tab", "form left", "reply lost"}
Puts ==
  [step : {"none", "find", "create", "update", "answer"}, tab : Tabs \cup {Null},
   url : Urls \cup {Null}, fate : {"shown", "form left", "reply lost"},
   answer : Views, knew : Views, excuse : SUBSET Excuses]

TypeOK ==
  /\ stored \in Rows \cup {NoConfig}
  /\ secrets \in Nat /\ saves \in Nat
  /\ tab \in [Tabs -> Forms]
  /\ put \in [Saves -> Puts]
  /\ knows \in [Tabs -> Views]
  /\ excuse \in [Tabs -> SUBSET Excuses]

\* NoConfig is a value of its own, as null is no row.
NoRow == NoConfig \notin Rows

\* What r says of the secret is so.
TellsSecret(r) == r \in Rows /\ stored # NoConfig /\ r.secret = stored.secret

\* The form of a tab that shows one waits for one PUT; an update has its row, an
\* answer tells the secret, and goes to a form that shows it.
PutInv ==
  \A i \in Saves : put[i].step # "none" =>
    /\ i <= saves /\ put[i].tab \in Tabs
    /\ put[i].fate = "shown" =>
         /\ tab[put[i].tab].phase = "saving"
         /\ \A j \in Saves : SentBy(put[i].tab, j) => j = i
    /\ put[i].step = "update" => stored # NoConfig
    /\ put[i].step = "answer" => put[i].fate = "shown" /\ TellsSecret(put[i].answer)

\* A secret on a screen, or on the way to it, has been made, so there is a row.
SecretInv ==
  \A t \in Tabs :
    /\ tab[t].secret # 0 => stored # NoConfig /\ tab[t].secret = stored.secret
    /\ tab[t].phase = "read" => tab[t].answer = NoConfig \/ TellsSecret(tab[t].answer)

Answering(t) == \E i \in Saves : SentBy(t, i) /\ put[i].step = "answer"

\* A form on the screen knows the row, or is about to, or has an excuse; so has
\* the answer of a load, of a save, and a PUT that is not written yet.
KnowsInv ==
  /\ \A t \in Tabs : excuse[t] = {} =>
       /\ tab[t].phase = "read" => tab[t].answer = stored
       /\ tab[t].phase \in {"ready", "saving"} => knows[t] = stored \/ Answering(t)
  /\ \A i \in Saves :
       /\ put[i].step = "answer" /\ excuse[put[i].tab] = {} => put[i].answer = stored
       /\ Unwritten(i) /\ put[i].excuse = {} => put[i].knew = stored

IInv == TypeOK /\ PutInv /\ SecretInv /\ KnowsInv

LEMMA InvInit == ConfigInit => IInv
<1> SUFFICES ASSUME ConfigInit PROVE IInv
  OBVIOUS
<1>1. stored \in Rows \cup {NoConfig} /\ secrets \in Nat /\ saves \in Nat
  BY DEF ConfigInit, Rows
<1>2. NewTab \in Forms /\ NoPut \in Puts /\ Unknown \in Views
  BY DEF NewTab, NoPut, Unknown, Views, Forms, Puts, Excuses
<1>3. TypeOK
  BY <1>1, <1>2 DEF ConfigInit, TypeOK
<1> QED
  BY <1>3 DEF ConfigInit, IInv, PutInv, SecretInv, KnowsInv, NewTab, NoPut, Unwritten

\* The row as a form shows it.
LEMMA FilledType ==
  ASSUME NEW r \in Rows \cup {NoConfig}, NoRow
  PROVE  /\ Filled(r) \in Forms
         /\ Filled(r).phase = "ready"
         /\ Filled(r).secret # 0 => r # NoConfig /\ Filled(r).secret = r.secret
BY DEF Filled, NewTab, Unknown, Rows, Views, NoRow, Forms

\* A form that no longer waits: its PUT is answered to nobody, the others stay.
LEMMA GivenUpKeeps ==
  ASSUME IInv, NEW t \in Tabs, NEW fate \in {"form left", "reply lost"}, GivenUp(t, fate)
  PROVE  /\ put' \in [Saves -> Puts]
         /\ \A i \in Saves : ~SentBy(t, i)'
         /\ \A i \in Saves : ~SentBy(t, i) => put'[i] = put[i]
         /\ \A i \in Saves : put'[i].step # "none" =>
              /\ put'[i].step = put[i].step /\ put'[i].tab = put[i].tab
              /\ put'[i].knew = put[i].knew /\ put'[i].excuse = put[i].excuse
              /\ put'[i].answer = put[i].answer
              /\ put'[i].fate = "shown" => put[i].fate = "shown" /\ put[i].tab # t
              /\ put'[i].step = "answer" => put'[i].fate = put[i].fate
<1>1. NoPut \in Puts /\ NoPut.step = "none"
  BY DEF NoPut, Puts, Unknown, Views, Excuses
<1>2. \A i \in Saves : put[i] \in Puts /\ [put[i] EXCEPT !.fate = fate] \in Puts
  BY DEF IInv, TypeOK, Puts
<1>3. \A i \in Saves : put'[i] =
        IF ~SentBy(t, i) THEN put[i]
        ELSE IF put[i].step = "answer" THEN NoPut ELSE [put[i] EXCEPT !.fate = fate]
  BY DEF GivenUp
<1>4. put' \in [Saves -> Puts]
  BY <1>1, <1>2 DEF GivenUp
<1>5. ASSUME NEW i \in Saves
      PROVE  /\ ~SentBy(t, i)'
             /\ ~SentBy(t, i) => put'[i] = put[i]
             /\ put'[i].step # "none" =>
                  /\ put'[i].step = put[i].step /\ put'[i].tab = put[i].tab
                  /\ put'[i].knew = put[i].knew /\ put'[i].excuse = put[i].excuse
                  /\ put'[i].answer = put[i].answer
                  /\ put'[i].fate = "shown" => put[i].fate = "shown" /\ put[i].tab # t
                  /\ put'[i].step = "answer" => put'[i].fate = put[i].fate
  <2>1. CASE ~SentBy(t, i)
    BY <1>3, <2>1 DEF SentBy
  <2>2. CASE SentBy(t, i) /\ put[i].step = "answer"
    BY <1>1, <1>3, <2>2 DEF SentBy
  <2>3. CASE SentBy(t, i) /\ put[i].step # "answer"
    <3> DEFINE p == [put[i] EXCEPT !.fate = fate]
    <3>1. put'[i] = p /\ put[i] \in Puts
      BY <1>2, <1>3, <2>3
    <3>2. /\ p.fate = fate /\ p.step = put[i].step /\ p.tab = put[i].tab
          /\ p.knew = put[i].knew /\ p.excuse = put[i].excuse /\ p.answer = put[i].answer
      BY <3>1 DEF Puts
    <3>3. QED BY <2>3, <3>1, <3>2 DEF SentBy
  <2>4. QED BY <2>1, <2>2, <2>3
<1>6. QED BY <1>4, <1>5

\* A write: its answer goes to the form that waits for it, every other form, and
\* every other PUT under way, has an excuse.
LEMMA WriteKeeps ==
  ASSUME IInv, NoRow, NEW i \in Saves, NEW r \in Rows, Write(i, r), Unwritten(i),
         secrets' \in Nat, stored # NoConfig => r.secret = stored.secret
  PROVE  IInv'
<1>1. stored' = r /\ r # NoConfig /\ UNCHANGED <<tab, knows, saves>>
  BY DEF Write, NoRow
<1>2. put[i].step # "none" /\ put[i].step # "answer" /\ put[i].tab \in Tabs
  BY DEF IInv, PutInv, Unwritten
<1>3. NoPut \in Puts /\ NoPut.step = "none"
  BY DEF NoPut, Puts, Unknown, Views, Excuses
<1>4. \A t \in Tabs : Reason(i, t) \in Excuses
  BY DEF Reason, Excuses
<1>5. /\ put'[i] = IF put[i].fate = "shown"
                   THEN [put[i] EXCEPT !.step = "answer", !.answer = r] ELSE NoPut
      /\ \A j \in Saves \ {i} : Unwritten(j) =>
           put'[j] = [put[j] EXCEPT !.excuse = @ \cup {Reason(i, put[j].tab)}]
      /\ \A j \in Saves \ {i} : ~Unwritten(j) => put'[j] = put[j]
  BY DEF Write
<1>6. \A j \in Saves : put[j] \in Puts
  BY DEF IInv, TypeOK
<1>7. \A j \in Saves \ {i} :
        /\ put'[j] \in Puts /\ put'[j].step = put[j].step /\ put'[j].tab = put[j].tab
        /\ put'[j].fate = put[j].fate /\ put'[j].answer = put[j].answer
        /\ Unwritten(j) => put'[j].excuse # {}
  <2> SUFFICES ASSUME NEW j \in Saves \ {i}
               PROVE  /\ put'[j] \in Puts /\ put'[j].step = put[j].step /\ put'[j].tab = put[j].tab
                      /\ put'[j].fate = put[j].fate /\ put'[j].answer = put[j].answer
                      /\ Unwritten(j) => put'[j].excuse # {}
    OBVIOUS
  <2>1. CASE ~Unwritten(j)
    BY <1>5, <1>6, <2>1
  <2>2. CASE Unwritten(j)
    <3>1. put[j].tab \in Tabs
      BY <2>2 DEF IInv, PutInv, Unwritten
    <3>2. put[j].excuse \cup {Reason(i, put[j].tab)} \in SUBSET Excuses
      BY <1>4, <1>6, <3>1 DEF Puts
    <3>3. put'[j] = [put[j] EXCEPT !.excuse = put[j].excuse \cup {Reason(i, put[j].tab)}]
      BY <1>5, <2>2
    <3>4. QED BY <1>6, <3>2, <3>3 DEF Puts
  <2>3. QED BY <2>1, <2>2
<1>8. /\ put'[i] \in Puts
      /\ put[i].fate = "shown" =>
           /\ put'[i].step = "answer" /\ put'[i].answer = r /\ put'[i].tab = put[i].tab
           /\ put'[i].fate = "shown"
      /\ put[i].fate # "shown" => put'[i].step = "none"
  <2>1. CASE put[i].fate = "shown"
    <3>1. r \in Views
      BY DEF Views
    <3>2. QED BY <1>5, <1>6, <2>1, <3>1 DEF Puts
  <2>2. QED BY <1>3, <1>5, <2>1
<1>9. \A t \in Tabs :
        excuse'[t] = IF SentBy(t, i) \/ tab[t].phase = "loading" THEN {}
                     ELSE excuse[t] \cup {Reason(i, t)}
  BY DEF Write
<1>10. TypeOK'
  <2>1. put' \in [Saves -> Puts]
    <3>1. put' = [j \in Saves |-> put'[j]]
      BY DEF Write
    <3>2. QED BY <1>7, <1>8, <3>1
  <2>2. excuse' \in [Tabs -> SUBSET Excuses]
    <3>1. \A t \in Tabs : excuse'[t] \in SUBSET Excuses
      BY <1>4, <1>9 DEF IInv, TypeOK
    <3>2. excuse' = [t \in Tabs |-> excuse'[t]]
      BY DEF Write
    <3>3. QED BY <3>1, <3>2
  <2>3. QED BY <1>1, <2>1, <2>2 DEF IInv, TypeOK
<1>11. \A x : TellsSecret(x) => TellsSecret(x)'
  BY <1>1 DEF TellsSecret
<1>12. \A t \in Tabs, j \in Saves : SentBy(t, j)' => SentBy(t, j)
  BY <1>2, <1>7, <1>8 DEF SentBy
<1>13. PutInv'
  <2> SUFFICES ASSUME NEW j \in Saves, put'[j].step # "none"
               PROVE  /\ j <= saves' /\ put'[j].tab \in Tabs
                      /\ put'[j].fate = "shown" =>
                           /\ tab'[put'[j].tab].phase = "saving"
                           /\ \A k \in Saves : SentBy(put[j].tab, k)' => k = j
                      /\ put'[j].tab = put[j].tab
                      /\ put'[j].step = "update" => stored' # NoConfig
                      /\ put'[j].step = "answer" =>
                           put'[j].fate = "shown" /\ (TellsSecret(put[j].answer) \/ put'[j].answer = r)
                      /\ put'[j].answer = put[j].answer \/ put'[j].answer = r
    BY <1>1, <1>11 DEF PutInv, TellsSecret, SentBy
  <2>1. CASE j = i
    BY <1>1, <1>2, <1>8, <1>12, <2>1 DEF IInv, PutInv, SentBy
  <2>2. CASE j # i
    BY <1>1, <1>7, <1>12, <2>2 DEF IInv, PutInv, SentBy
  <2>3. QED BY <2>1, <2>2
<1>14. SecretInv'
  BY <1>1, <1>11 DEF IInv, SecretInv
<1>15. KnowsInv'
  <2>1. ASSUME NEW t \in Tabs, excuse'[t] = {}, tab'[t].phase # "loading"
        PROVE  SentBy(t, i)
    BY <1>1, <1>9, <2>1
  <2>2. ASSUME NEW t \in Tabs, SentBy(t, i)
        PROVE  Answering(t)' /\ tab'[t].phase = "saving"
    BY <1>1, <1>2, <1>8, <2>2 DEF IInv, PutInv, SentBy, Answering
  <2>3. ASSUME NEW j \in Saves, put'[j].step = "answer", excuse'[put'[j].tab] = {}
        PROVE  put'[j].answer = stored'
    <3>1. CASE j = i
      BY <1>1, <1>8, <2>3, <3>1
    <3>2. CASE j # i
      <4>1. put[j].step = "answer" /\ put'[j].tab = put[j].tab /\ put[j].tab \in Tabs
        BY <1>7, <2>3, <3>2 DEF IInv, PutInv
      <4>2. SentBy(put[j].tab, j) /\ tab[put[j].tab].phase = "saving"
        BY <4>1 DEF IInv, PutInv, SentBy
      <4>3. SentBy(put[j].tab, i)
        BY <1>1, <2>1, <2>3, <4>1, <4>2
      <4>4. QED BY <3>2, <4>1, <4>2, <4>3 DEF IInv, PutInv, SentBy
    <3>3. QED BY <3>1, <3>2
  <2>4. ASSUME NEW j \in Saves, Unwritten(j)', put'[j].excuse = {} PROVE FALSE
    BY <1>7, <1>8, <2>4 DEF Unwritten
  <2>5. QED BY <2>1, <2>2, <2>3, <2>4 DEF KnowsInv
<1>16. QED BY <1>10, <1>13, <1>14, <1>15 DEF IInv

\* A load changes a form that waits for no PUT.
LEMMA LoadKeepsPuts ==
  ASSUME IInv, NEW t \in Tabs, tab[t].phase # "saving", UNCHANGED <<stored, put, saves>>,
         \A s \in Tabs \ {t} : tab'[s] = tab[s]
  PROVE  /\ PutInv'
         /\ \A s \in Tabs : Answering(s) <=> Answering(s)'
         /\ \A i \in Saves : Unwritten(i) <=> Unwritten(i)'
         /\ \A i \in Saves : put[i].step = "answer" => put[i].tab \in Tabs \ {t}
<1>1. \A i \in Saves : put[i].step # "none" /\ put[i].fate = "shown" => put[i].tab \in Tabs \ {t}
  BY DEF IInv, PutInv
<1>2. \A i \in Saves, s \in Tabs : SentBy(s, i) <=> SentBy(s, i)'
  BY DEF SentBy
<1>3. ASSUME NEW i \in Saves, put[i].step # "none"
      PROVE  /\ i <= saves /\ put[i].tab \in Tabs
             /\ put[i].fate = "shown" =>
                  /\ tab'[put[i].tab].phase = "saving"
                  /\ \A j \in Saves : SentBy(put[i].tab, j) => j = i
             /\ put[i].step = "update" => stored # NoConfig
             /\ put[i].step = "answer" => put[i].fate = "shown" /\ TellsSecret(put[i].answer)
  BY <1>1, <1>3 DEF IInv, PutInv
<1>4. PutInv'
  BY <1>3 DEF PutInv, SentBy, TellsSecret
<1>5. \A s \in Tabs : Answering(s) <=> Answering(s)'
  BY <1>2 DEF Answering
<1>6. \A i \in Saves : Unwritten(i) <=> Unwritten(i)'
  BY DEF Unwritten
<1>7. QED BY <1>1, <1>3, <1>4, <1>5, <1>6

LEMMA InvStep == IInv /\ NoRow /\ [ConfigNext]_configVars => IInv'
<1> SUFFICES ASSUME IInv, NoRow, [ConfigNext]_configVars PROVE IInv'
  OBVIOUS
<1>p. \A i \in Saves : put[i] \in Puts
  BY DEF IInv, TypeOK
<1>f. \A t \in Tabs : tab[t] \in Forms
  BY DEF IInv, TypeOK
<1>1. ASSUME NEW t \in Tabs, ReadForLoad(t) PROVE IInv'
  <2> DEFINE f == [tab[t] EXCEPT !.phase = "read", !.answer = stored]
  <2>1. /\ tab' = [tab EXCEPT ![t] = f]
        /\ UNCHANGED <<stored, secrets, put, knows, excuse, saves>>
    BY <1>1 DEF ReadForLoad
  <2>2. f \in Forms /\ f.phase = "read" /\ f.answer = stored /\ f.secret = tab[t].secret
    BY <1>f DEF IInv, TypeOK, Forms, Views
  <2>3. /\ tab'[t] = f /\ tab[t].phase = "loading"
        /\ \A s \in Tabs \ {t} : tab'[s] = tab[s]
    BY <1>1, <2>1 DEF ReadForLoad, IInv, TypeOK
  <2>4. TypeOK'
    BY <2>1, <2>2 DEF IInv, TypeOK
  <2>5. PutInv'
    BY <2>1, <2>3 DEF IInv, PutInv, SentBy, TellsSecret
  <2>6. SecretInv'
    BY <2>1, <2>2, <2>3 DEF IInv, TypeOK, SecretInv, TellsSecret
  <2>7. KnowsInv'
    BY <2>1, <2>2, <2>3 DEF IInv, KnowsInv, Answering, SentBy, Unwritten
  <2>8. QED BY <2>4, <2>5, <2>6, <2>7 DEF IInv
<1>2. ASSUME NEW t \in Tabs, Loaded(t) PROVE IInv'
  <2> DEFINE r == tab[t].answer
  <2>1. /\ tab' = [tab EXCEPT ![t] = Filled(r)] /\ knows' = [knows EXCEPT ![t] = r]
        /\ UNCHANGED <<stored, secrets, put, excuse, saves>> /\ tab[t].phase = "read"
    BY <1>2 DEF Loaded, Shows
  <2>2. r \in Rows \cup {NoConfig} /\ (r = NoConfig \/ TellsSecret(r))
    BY <2>1 DEF IInv, SecretInv, TellsSecret
  <2>3. /\ Filled(r) \in Forms /\ Filled(r).phase = "ready"
        /\ Filled(r).secret # 0 => r # NoConfig /\ Filled(r).secret = r.secret
    BY <2>2, FilledType
  <2>4. /\ tab'[t] = Filled(r) /\ knows'[t] = r
        /\ \A s \in Tabs \ {t} : tab'[s] = tab[s] /\ knows'[s] = knows[s]
    BY <2>1 DEF IInv, TypeOK
  <2>5. TypeOK'
    BY <2>1, <2>2, <2>3 DEF IInv, TypeOK, Views
  <2>6. PutInv'
    BY <2>1, <2>4 DEF IInv, PutInv, SentBy, TellsSecret
  <2>7. SecretInv'
    BY <2>1, <2>2, <2>3, <2>4 DEF IInv, SecretInv, TellsSecret
  <2>8. KnowsInv'
    BY <2>1, <2>3, <2>4 DEF IInv, KnowsInv, Answering, SentBy, Unwritten
  <2>9. QED BY <2>5, <2>6, <2>7, <2>8 DEF IInv
<1>3. ASSUME NEW t \in Tabs, LoadFails(t) PROVE IInv'
  <2> DEFINE f == [NewTab EXCEPT !.phase = "ready"]
  <2>1. /\ tab' = [tab EXCEPT ![t] = f] /\ excuse' = [excuse EXCEPT ![t] = {"load failed"}]
        /\ UNCHANGED <<stored, secrets, put, knows, saves>>
        /\ tab[t].phase \in {"loading", "read"}
    BY <1>3 DEF LoadFails
  <2>2. f \in Forms /\ f.phase = "ready" /\ f.secret = 0
    BY DEF NewTab, Unknown, Forms, Views
  <2>3. /\ tab'[t] = f /\ excuse'[t] = {"load failed"}
        /\ \A s \in Tabs \ {t} : tab'[s] = tab[s] /\ excuse'[s] = excuse[s]
    BY <2>1 DEF IInv, TypeOK
  <2> HIDE DEF f
  <2>4. TypeOK'
    BY <2>1, <2>2 DEF IInv, TypeOK, Excuses
  <2>5. /\ PutInv' /\ \A s \in Tabs : Answering(s) <=> Answering(s)'
        /\ \A i \in Saves : Unwritten(i) <=> Unwritten(i)'
        /\ \A i \in Saves : put[i].step = "answer" => put[i].tab \in Tabs \ {t}
    BY <2>1, <2>3, LoadKeepsPuts
  <2>6. SecretInv'
    BY <2>1, <2>2, <2>3 DEF IInv, SecretInv, TellsSecret
  <2>7. KnowsInv'
    <3>1. ASSUME NEW s \in Tabs, excuse'[s] = {}
          PROVE  /\ tab'[s].phase = "read" => tab'[s].answer = stored'
                 /\ tab'[s].phase \in {"ready", "saving"} => knows'[s] = stored' \/ Answering(s)'
      BY <2>1, <2>3, <2>5, <3>1 DEF IInv, KnowsInv
    <3>2. ASSUME NEW i \in Saves
          PROVE  /\ put'[i].step = "answer" /\ excuse'[put'[i].tab] = {} => put'[i].answer = stored'
                 /\ Unwritten(i)' /\ put'[i].excuse = {} => put'[i].knew = stored'
      BY <2>1, <2>3, <2>5 DEF IInv, KnowsInv
    <3>3. QED BY <3>1, <3>2 DEF KnowsInv
  <2>8. QED BY <2>4, <2>5, <2>6, <2>7 DEF IInv
<1>4. ASSUME NEW t \in Tabs, Reopen(t) PROVE IInv'
  <2>1. /\ tab' = [tab EXCEPT ![t] = NewTab] /\ knows' = [knows EXCEPT ![t] = Unknown]
        /\ excuse' = [excuse EXCEPT ![t] = {}] /\ GivenUp(t, "form left")
        /\ UNCHANGED <<stored, secrets, saves>>
    BY <1>4 DEF Reopen
  <2>2. /\ put' \in [Saves -> Puts]
        /\ \A i \in Saves : ~SentBy(t, i)'
        /\ \A i \in Saves : ~SentBy(t, i) => put'[i] = put[i]
        /\ \A i \in Saves : put'[i].step # "none" =>
              /\ put'[i].step = put[i].step /\ put'[i].tab = put[i].tab
              /\ put'[i].knew = put[i].knew /\ put'[i].excuse = put[i].excuse
              /\ put'[i].answer = put[i].answer
              /\ put'[i].fate = "shown" => put[i].fate = "shown" /\ put[i].tab # t
              /\ put'[i].step = "answer" => put'[i].fate = put[i].fate
    BY <2>1, GivenUpKeeps
  <2>3. NewTab \in Forms /\ NewTab.phase = "loading" /\ NewTab.secret = 0
    BY DEF NewTab, Unknown, Forms, Views
  <2>4. /\ tab'[t] = NewTab
        /\ \A s \in Tabs \ {t} : tab'[s] = tab[s] /\ knows'[s] = knows[s] /\ excuse'[s] = excuse[s]
    BY <2>1 DEF IInv, TypeOK
  <2>5. TypeOK'
    BY <2>1, <2>2, <2>3 DEF IInv, TypeOK, Views
  <2>6. \A s \in Tabs \ {t}, i \in Saves : SentBy(s, i) <=> SentBy(s, i)'
    BY <2>2 DEF SentBy
  <2>7. PutInv'
    <3>1. ASSUME NEW j \in Saves, put'[j].step # "none"
          PROVE  /\ j <= saves' /\ put'[j].tab \in Tabs
                 /\ put'[j].step = "update" => stored' # NoConfig
                 /\ put'[j].step = "answer" =>
                      put'[j].fate = "shown" /\ TellsSecret(put[j].answer)'
                 /\ put'[j].fate = "shown" => put[j].fate = "shown" /\ put[j].tab # t
                 /\ put'[j].tab = put[j].tab /\ put[j].step # "none"
      BY <2>1, <2>2, <3>1 DEF IInv, PutInv, TellsSecret
    <3>2. ASSUME NEW j \in Saves, put'[j].step # "none", put'[j].fate = "shown"
          PROVE  /\ tab'[put'[j].tab].phase = "saving"
                 /\ \A k \in Saves : SentBy(put'[j].tab, k) => k = j
      BY <2>4, <3>1, <3>2 DEF IInv, PutInv
    <3>3. ASSUME NEW j \in Saves, put'[j].step # "none", put'[j].fate = "shown", NEW k \in Saves,
                 SentBy(put[j].tab, k)'
          PROVE  k = j
      BY <2>2, <2>6, <3>1, <3>2, <3>3 DEF IInv, PutInv
    <3>4. ASSUME NEW j \in Saves, put'[j].step # "none"
          PROVE  TellsSecret(put[j].answer)' <=> TellsSecret(put[j].answer)
      BY <2>1, <2>2, <3>4 DEF TellsSecret
    <3>5. QED BY <3>1, <3>2, <3>3 DEF PutInv, SentBy, TellsSecret
  <2>8. SecretInv'
    BY <2>1, <2>3, <2>4 DEF IInv, SecretInv, TellsSecret
  <2>9. KnowsInv'
    <3>1. \A i \in Saves : put'[i].step = "answer" =>
            put[i].step = "answer" /\ put[i].tab \in Tabs \ {t} /\ put'[i].tab = put[i].tab
      BY <2>2 DEF IInv, PutInv
    <3>2. ASSUME NEW s \in Tabs \ {t} PROVE Answering(s) => Answering(s)'
      BY <2>2, <2>6 DEF Answering, SentBy
    <3>3. ASSUME NEW s \in Tabs \ {t}, excuse'[s] = {}
          PROVE  /\ tab'[s].phase = "read" => tab'[s].answer = stored'
                 /\ tab'[s].phase \in {"ready", "saving"} => knows'[s] = stored' \/ Answering(s)'
      BY <2>1, <2>4, <3>2, <3>3 DEF IInv, KnowsInv
    <3>4. ASSUME NEW i \in Saves
          PROVE  /\ put'[i].step = "answer" /\ excuse'[put'[i].tab] = {} => put'[i].answer = stored'
                 /\ Unwritten(i)' /\ put'[i].excuse = {} => put'[i].knew = stored'
      <4>1. put'[i].step = "answer" /\ excuse'[put'[i].tab] = {} => put'[i].answer = stored'
        <5>1. put'[i].step = "answer" =>
                /\ put[i].step = "answer" /\ put'[i].answer = put[i].answer
                /\ excuse'[put'[i].tab] = excuse[put[i].tab]
          BY <2>2, <2>4, <3>1
        <5>2. QED BY <2>1, <5>1 DEF IInv, KnowsInv
      <4>2. Unwritten(i)' /\ put'[i].excuse = {} => put'[i].knew = stored'
        <5>1. Unwritten(i)' =>
                Unwritten(i) /\ put'[i].excuse = put[i].excuse /\ put'[i].knew = put[i].knew
          BY <2>2 DEF Unwritten
        <5>2. QED BY <2>1, <5>1 DEF IInv, KnowsInv
      <4>3. QED BY <4>1, <4>2
    <3>5. QED BY <2>3, <2>4, <3>3, <3>4 DEF KnowsInv
  <2>10. QED BY <2>5, <2>7, <2>8, <2>9 DEF IInv
<1>5. ASSUME NEW t \in Tabs, ReplyLost(t) PROVE IInv'
  <2> DEFINE f == [tab[t] EXCEPT !.phase = "ready"]
  <2>1. /\ tab' = [tab EXCEPT ![t] = f] /\ GivenUp(t, "reply lost")
        /\ UNCHANGED <<stored, secrets, knows, saves>> /\ tab[t].phase = "saving"
    BY <1>5 DEF ReplyLost
  <2>2. /\ put' \in [Saves -> Puts]
        /\ \A i \in Saves : ~SentBy(t, i)'
        /\ \A i \in Saves : ~SentBy(t, i) => put'[i] = put[i]
        /\ \A i \in Saves : put'[i].step # "none" =>
              /\ put'[i].step = put[i].step /\ put'[i].tab = put[i].tab
              /\ put'[i].knew = put[i].knew /\ put'[i].excuse = put[i].excuse
              /\ put'[i].answer = put[i].answer
              /\ put'[i].fate = "shown" => put[i].fate = "shown" /\ put[i].tab # t
              /\ put'[i].step = "answer" => put'[i].fate = put[i].fate
    BY <2>1, GivenUpKeeps
  <2>3. f \in Forms /\ f.phase = "ready" /\ f.secret = tab[t].secret
    BY <1>f DEF Forms
  <2>4. tab'[t] = f /\ \A s \in Tabs \ {t} : tab'[s] = tab[s]
    BY <2>1 DEF IInv, TypeOK
  <2>5. /\ excuse' \in [Tabs -> SUBSET Excuses]
        /\ Answering(t) => excuse'[t] # {}
        /\ ~Answering(t) => excuse'[t] = excuse[t]
        /\ \A s \in Tabs \ {t} : excuse'[s] = excuse[s]
    <3> DEFINE extra == {"reply lost" : i \in {i \in Saves : SentBy(t, i) /\ put[i].step = "answer"}}
    <3>1. excuse' = [excuse EXCEPT ![t] = excuse[t] \cup extra]
      BY <1>5 DEF ReplyLost
    <3>2. extra \subseteq Excuses /\ (Answering(t) => extra # {}) /\ (~Answering(t) => extra = {})
      BY DEF Excuses, Answering
    <3> HIDE DEF extra
    <3>3. excuse \in [Tabs -> SUBSET Excuses]
      BY DEF IInv, TypeOK
    <3>4. QED BY <3>1, <3>2, <3>3
  <2>6. TypeOK'
    BY <2>1, <2>2, <2>3, <2>5 DEF IInv, TypeOK
  <2>7. \A s \in Tabs \ {t}, i \in Saves : SentBy(s, i) <=> SentBy(s, i)'
    BY <2>2 DEF SentBy
  <2>8. PutInv'
    <3>1. ASSUME NEW j \in Saves, put'[j].step # "none"
          PROVE  /\ j <= saves' /\ put'[j].tab \in Tabs
                 /\ put'[j].step = "update" => stored' # NoConfig
                 /\ put'[j].step = "answer" =>
                      put'[j].fate = "shown" /\ TellsSecret(put[j].answer)'
                 /\ put'[j].fate = "shown" => put[j].fate = "shown" /\ put[j].tab # t
                 /\ put'[j].tab = put[j].tab /\ put[j].step # "none"
      BY <2>1, <2>2, <3>1 DEF IInv, PutInv, TellsSecret
    <3>2. ASSUME NEW j \in Saves, put'[j].step # "none", put'[j].fate = "shown"
          PROVE  /\ tab'[put'[j].tab].phase = "saving"
                 /\ \A k \in Saves : SentBy(put'[j].tab, k) => k = j
      BY <2>4, <3>1, <3>2 DEF IInv, PutInv
    <3>3. ASSUME NEW j \in Saves, put'[j].step # "none", put'[j].fate = "shown", NEW k \in Saves,
                 SentBy(put[j].tab, k)'
          PROVE  k = j
      BY <2>2, <2>7, <3>1, <3>2, <3>3 DEF IInv, PutInv
    <3>4. ASSUME NEW j \in Saves, put'[j].step # "none"
          PROVE  TellsSecret(put[j].answer)' <=> TellsSecret(put[j].answer)
      BY <2>1, <2>2, <3>4 DEF TellsSecret
    <3>5. QED BY <3>1, <3>2, <3>3 DEF PutInv, SentBy, TellsSecret
  <2>9. SecretInv'
    BY <2>1, <2>3, <2>4 DEF IInv, SecretInv, TellsSecret
  <2>10. KnowsInv'
    <3>1. \A i \in Saves : put'[i].step = "answer" =>
            put[i].step = "answer" /\ put[i].tab \in Tabs \ {t} /\ put'[i].tab = put[i].tab
      BY <2>2 DEF IInv, PutInv
    <3>2. ASSUME NEW s \in Tabs \ {t} PROVE Answering(s) => Answering(s)'
      BY <2>2, <2>7 DEF Answering, SentBy
    <3>3. excuse'[t] = {} => knows[t] = stored
      BY <2>1, <2>5 DEF IInv, KnowsInv
    <3>4. ASSUME NEW s \in Tabs \ {t}, excuse'[s] = {}
          PROVE  /\ tab'[s].phase = "read" => tab'[s].answer = stored'
                 /\ tab'[s].phase \in {"ready", "saving"} => knows'[s] = stored' \/ Answering(s)'
      BY <2>1, <2>4, <2>5, <3>2, <3>4 DEF IInv, KnowsInv
    <3>5. ASSUME NEW i \in Saves
          PROVE  /\ put'[i].step = "answer" /\ excuse'[put'[i].tab] = {} => put'[i].answer = stored'
                 /\ Unwritten(i)' /\ put'[i].excuse = {} => put'[i].knew = stored'
      <4>1. put'[i].step = "answer" /\ excuse'[put'[i].tab] = {} => put'[i].answer = stored'
        <5>1. put'[i].step = "answer" =>
                /\ put[i].step = "answer" /\ put'[i].answer = put[i].answer
                /\ excuse'[put'[i].tab] = excuse[put[i].tab]
          BY <2>2, <2>5, <3>1
        <5>2. QED BY <2>1, <5>1 DEF IInv, KnowsInv
      <4>2. Unwritten(i)' /\ put'[i].excuse = {} => put'[i].knew = stored'
        <5>1. Unwritten(i)' =>
                Unwritten(i) /\ put'[i].excuse = put[i].excuse /\ put'[i].knew = put[i].knew
          BY <2>2 DEF Unwritten
        <5>2. QED BY <2>1, <5>1 DEF IInv, KnowsInv
      <4>3. QED BY <4>1, <4>2
    <3>6. QED BY <2>1, <2>3, <2>4, <3>3, <3>4, <3>5 DEF KnowsInv
  <2>11. QED BY <2>6, <2>8, <2>9, <2>10 DEF IInv
<1>6. ASSUME NEW t \in Tabs, NEW u \in Urls \cup {Null}, Save(t, u) PROVE IInv'
  <2> DEFINE i == saves + 1
             f == [tab[t] EXCEPT !.phase = "saving"]
             p == [NoPut EXCEPT !.step = "find", !.tab = t, !.url = u,
                                !.knew = knows[t], !.excuse = excuse[t]]
  <2>1. /\ tab' = [tab EXCEPT ![t] = f] /\ put' = [put EXCEPT ![i] = p] /\ saves' = i
        /\ UNCHANGED <<stored, secrets, knows, excuse>>
        /\ tab[t].phase = "ready" /\ saves < MaxSaves
    BY <1>6 DEF Save, CanSave
  <2>2. i \in Saves
    BY <2>1, ClientsAssumption DEF Saves, IInv, TypeOK, ConfigAssumption
  <2>3. /\ p \in Puts /\ p.step = "find" /\ p.tab = t /\ p.fate = "shown"
        /\ p.knew = knows[t] /\ p.excuse = excuse[t]
    BY DEF NoPut, Puts, Unknown, Views, Excuses, IInv, TypeOK
  <2>4. f \in Forms /\ f.phase = "saving" /\ f.secret = tab[t].secret
    BY <1>f DEF Forms
  <2>5. /\ tab'[t] = f /\ put'[i] = p
        /\ \A s \in Tabs \ {t} : tab'[s] = tab[s]
        /\ \A j \in Saves \ {i} : put'[j] = put[j]
    BY <2>1, <2>2 DEF IInv, TypeOK
  <2> HIDE DEF i, f, p
  <2>6. TypeOK'
    BY <2>1, <2>2, <2>3, <2>4 DEF IInv, TypeOK, i
  <2>7. \A j \in Saves : ~SentBy(t, j)
    BY <2>1 DEF IInv, PutInv, SentBy
  <2>8. \A j \in Saves \ {i}, s \in Tabs : SentBy(s, j) <=> SentBy(s, j)'
    BY <2>5 DEF SentBy
  <2>9. PutInv'
    <3>1. /\ i <= saves' /\ put'[i].tab = t
          /\ tab'[t].phase = "saving"
          /\ \A k \in Saves : SentBy(t, k)' => k = i
          /\ put'[i].step = "find"
      BY <2>1, <2>3, <2>4, <2>5, <2>7, <2>8 DEF IInv, TypeOK, i
    <3>2. ASSUME NEW j \in Saves \ {i}, put'[j].step # "none"
          PROVE  /\ put'[j] = put[j] /\ put[j].step # "none" /\ put[j].tab \in Tabs
                 /\ put[j].fate = "shown" => put[j].tab # t
      BY <2>5, <2>7, <3>2 DEF IInv, PutInv, SentBy
    <3>3. ASSUME NEW j \in Saves \ {i}, put'[j].step # "none"
          PROVE  /\ j <= saves' /\ put'[j].tab \in Tabs
                 /\ put'[j].step = "update" => stored' # NoConfig
                 /\ put'[j].step = "answer" =>
                      put'[j].fate = "shown" /\ TellsSecret(put[j].answer)'
      <4>1. saves \in Nat /\ j \in Int
        BY DEF IInv, TypeOK, Saves
      <4>2. QED BY <2>1, <3>2, <3>3, <4>1 DEF IInv, PutInv, TellsSecret, i
    <3>4. ASSUME NEW j \in Saves \ {i}, put'[j].step # "none", put'[j].fate = "shown"
          PROVE  /\ tab'[put'[j].tab].phase = "saving"
                 /\ \A k \in Saves : SentBy(put[j].tab, k)' => k = j
      <4>1. /\ tab[put[j].tab].phase = "saving" /\ put[j].tab \in Tabs \ {t}
            /\ \A k \in Saves : SentBy(put[j].tab, k) => k = j
        BY <3>2, <3>4 DEF IInv, PutInv
      <4>2. put'[j].tab = put[j].tab
        BY <3>2, <3>4
      <4>3. ASSUME NEW k \in Saves, SentBy(put[j].tab, k)' PROVE k = j
        BY <2>3, <2>5, <3>2, <3>4, <4>1, <4>3 DEF SentBy
      <4>4. QED BY <2>5, <4>1, <4>2, <4>3
    <3>5. QED BY <2>1, <2>2, <3>1, <3>3, <3>4 DEF PutInv, SentBy, TellsSecret
  <2>10. SecretInv'
    BY <2>1, <2>4, <2>5 DEF IInv, SecretInv, TellsSecret
  <2>11. KnowsInv'
    <3>1. excuse[t] = {} => knows[t] = stored
      BY <2>1, <2>7 DEF IInv, KnowsInv, Answering
    <3>2. ASSUME NEW s \in Tabs \ {t}, Answering(s) PROVE Answering(s)'
      <4>1. PICK j \in Saves : SentBy(s, j) /\ put[j].step = "answer"
        BY <3>2 DEF Answering
      <4>2. CASE j = i
        BY <4>1, <4>2 DEF IInv, TypeOK, PutInv, i
      <4>3. QED BY <2>5, <2>8, <4>1, <4>2 DEF Answering
    <3>3. QED BY <2>1, <2>3, <2>4, <2>5, <3>1, <3>2 DEF IInv, KnowsInv, Unwritten
  <2>12. QED BY <2>6, <2>9, <2>10, <2>11 DEF IInv
<1>7. ASSUME NEW i \in Saves, Find(i) PROVE IInv'
  <2> DEFINE s == IF stored = NoConfig THEN "create" ELSE "update"
             p == [put[i] EXCEPT !.step = s]
  <2>1. /\ put' = [put EXCEPT ![i] = p] /\ put[i].step = "find"
        /\ UNCHANGED <<stored, secrets, tab, knows, excuse, saves>>
    BY <1>7 DEF Find
  <2>2. s \in {"create", "update"} /\ (s = "update" => stored # NoConfig)
    OBVIOUS
  <2> HIDE DEF s
  <2>3. /\ p \in Puts /\ p.step = s /\ p.tab = put[i].tab /\ p.fate = put[i].fate
        /\ p.knew = put[i].knew /\ p.excuse = put[i].excuse
    BY <1>p, <2>2 DEF Puts
  <2>4. put'[i] = p /\ \A j \in Saves \ {i} : put'[j] = put[j]
    BY <2>1 DEF IInv, TypeOK
  <2> HIDE DEF p
  <2>5. TypeOK'
    BY <2>1, <2>3 DEF IInv, TypeOK
  <2>6. \A t \in Tabs, j \in Saves : SentBy(t, j) <=> SentBy(t, j)'
    BY <2>1, <2>2, <2>3, <2>4 DEF SentBy
  <2>7. PutInv'
    BY <2>1, <2>2, <2>3, <2>4, <2>6 DEF IInv, PutInv, TellsSecret
  <2>8. SecretInv'
    BY <2>1 DEF IInv, SecretInv, TellsSecret
  <2>9. KnowsInv'
    <3>1. ASSUME NEW t \in Tabs PROVE Answering(t) <=> Answering(t)'
      BY <2>1, <2>2, <2>3, <2>4, <2>6 DEF Answering
    <3>2. QED BY <2>1, <2>2, <2>3, <2>4, <3>1 DEF IInv, KnowsInv, Unwritten
  <2>10. QED BY <2>5, <2>7, <2>8, <2>9 DEF IInv
<1>8. ASSUME NEW i \in Saves, Create(i) PROVE IInv'
  <2>1. [url |-> put[i].url, secret |-> secrets + 1] \in Rows
    <3>0. put[i] \in Puts /\ secrets \in Nat
      BY <1>p DEF IInv, TypeOK
    <3>1. put[i].url \in Urls \cup {Null}
      BY <3>0 DEF Puts
    <3>2. secrets + 1 \in Nat \ {0}
      BY <3>0
    <3>3. QED BY <3>1, <3>2 DEF Rows
  <2>2. QED BY <1>8, <2>1, WriteKeeps DEF Create, Unwritten, IInv, TypeOK
<1>9. ASSUME NEW i \in Saves, Update(i) PROVE IInv'
  <2>1. stored \in Rows
    BY <1>9 DEF Update, IInv, TypeOK, PutInv
  <2>2. /\ [stored EXCEPT !.url = put[i].url] \in Rows
        /\ [stored EXCEPT !.url = put[i].url].secret = stored.secret
    BY <1>p, <2>1 DEF Rows, Puts
  <2>3. QED BY <1>9, <2>2, WriteKeeps DEF Update, Unwritten, IInv, TypeOK
<1>10. ASSUME NEW i \in Saves, PutFails(i) PROVE IInv'
  <2> DEFINE t == put[i].tab
             f == [tab[t] EXCEPT !.phase = "ready"]
  <2>1. /\ put' = [put EXCEPT ![i] = NoPut] /\ Unwritten(i)
        /\ UNCHANGED <<stored, secrets, knows, excuse, saves>>
        /\ tab' = IF put[i].fate = "shown" THEN [tab EXCEPT ![t] = f] ELSE tab
    BY <1>10 DEF PutFails
  <2>2. NoPut \in Puts /\ NoPut.step = "none"
    BY DEF NoPut, Puts, Unknown, Views, Excuses
  <2>3. put'[i] = NoPut /\ \A j \in Saves \ {i} : put'[j] = put[j]
    BY <2>1 DEF IInv, TypeOK
  <2>4. t \in Tabs /\ put[i].step # "none" /\ put[i].step # "answer"
    BY <2>1 DEF Unwritten, IInv, PutInv
  <2>5. f \in Forms /\ f.phase = "ready" /\ f.secret = tab[t].secret
    BY <1>f, <2>4 DEF Forms
  <2>6. /\ put[i].fate = "shown" => tab'[t] = f
        /\ \A s \in Tabs : s # t \/ put[i].fate # "shown" => tab'[s] = tab[s]
    BY <2>1, <2>4 DEF IInv, TypeOK
  <2> HIDE DEF t, f
  <2>7. TypeOK'
    BY <2>1, <2>2, <2>4, <2>5 DEF IInv, TypeOK
  <2>8. \A s \in Tabs, j \in Saves : SentBy(s, j)' <=> SentBy(s, j) /\ j # i
    BY <2>2, <2>3 DEF SentBy
  <2>9. put[i].fate = "shown" => tab[t].phase = "saving" /\ \A j \in Saves : SentBy(t, j) => j = i
    BY <2>4 DEF IInv, PutInv, t
  <2>10. PutInv'
    <3> SUFFICES ASSUME NEW j \in Saves, put'[j].step # "none"
                 PROVE  /\ j <= saves' /\ put'[j].tab \in Tabs
                        /\ put'[j].fate = "shown" =>
                             /\ tab'[put'[j].tab].phase = "saving"
                             /\ \A k \in Saves : SentBy(put'[j].tab, k) => k = j
                        /\ put'[j].step = "update" => stored' # NoConfig
                        /\ put'[j].step = "answer" =>
                             put'[j].fate = "shown" /\ TellsSecret(put'[j].answer)
      BY <2>1, <2>3, <2>8 DEF PutInv, SentBy, TellsSecret
    <3>1. j # i /\ put'[j] = put[j]
      BY <2>2, <2>3
    <3>2. put[j].fate = "shown" => SentBy(put[j].tab, j)
      BY <3>1 DEF SentBy
    <3>3. put[j].fate = "shown" => put[j].tab # t \/ put[i].fate # "shown"
      BY <2>9, <3>1, <3>2
    <3>4. QED BY <2>1, <2>6, <3>1, <3>3 DEF IInv, PutInv
  <2>11. SecretInv'
    <3>1. ASSUME NEW s \in Tabs
          PROVE  tab'[s].secret = tab[s].secret /\ (tab'[s].phase = "read" => tab'[s] = tab[s])
      BY <2>5, <2>6
    <3>2. QED BY <2>1, <3>1 DEF IInv, SecretInv, TellsSecret
  <2>12. KnowsInv'
    <3>1. ASSUME NEW s \in Tabs PROVE Answering(s) => Answering(s)'
      BY <2>3, <2>4, <2>8 DEF Answering
    <3>2. put[i].fate = "shown" => ~Answering(t)
      BY <2>4, <2>9 DEF Answering
    <3>3. \A j \in Saves : put'[j].step # "none" => put'[j] = put[j]
      BY <2>2, <2>3
    <3>4. ASSUME NEW s \in Tabs, excuse'[s] = {}
          PROVE  /\ tab'[s].phase = "read" => tab'[s].answer = stored'
                 /\ tab'[s].phase \in {"ready", "saving"} => knows'[s] = stored' \/ Answering(s)'
      <4>1. CASE s = t /\ put[i].fate = "shown"
        BY <2>1, <2>5, <2>6, <2>9, <3>2, <3>4, <4>1 DEF IInv, KnowsInv
      <4>2. CASE s # t \/ put[i].fate # "shown"
        BY <2>1, <2>6, <3>1, <3>4, <4>2 DEF IInv, KnowsInv
      <4>3. QED BY <4>1, <4>2
    <3>5. QED BY <2>1, <3>3, <3>4 DEF IInv, KnowsInv, Unwritten
  <2>13. QED BY <2>7, <2>10, <2>11, <2>12 DEF IInv
<1>11. ASSUME NEW i \in Saves, Saved(i) PROVE IInv'
  <2> DEFINE t == put[i].tab
             r == put[i].answer
  <2>1. /\ tab' = [tab EXCEPT ![t] = Filled(r)] /\ knows' = [knows EXCEPT ![t] = r]
        /\ put' = [put EXCEPT ![i] = NoPut] /\ put[i].step = "answer"
        /\ UNCHANGED <<stored, secrets, excuse, saves>>
    BY <1>11 DEF Saved, Shows
  <2>2. /\ t \in Tabs /\ TellsSecret(r) /\ put[i].fate = "shown"
        /\ \A j \in Saves : SentBy(t, j) => j = i
        /\ excuse[t] = {} => r = stored
    BY <2>1 DEF IInv, PutInv, KnowsInv
  <2>3. /\ Filled(r) \in Forms /\ Filled(r).phase = "ready"
        /\ Filled(r).secret # 0 => Filled(r).secret = r.secret
    BY <2>2, FilledType DEF TellsSecret
  <2>4. /\ tab'[t] = Filled(r) /\ knows'[t] = r
        /\ \A s \in Tabs \ {t} : tab'[s] = tab[s] /\ knows'[s] = knows[s]
    BY <2>1, <2>2 DEF IInv, TypeOK
  <2>5. NoPut \in Puts /\ NoPut.step = "none"
    BY DEF NoPut, Puts, Unknown, Views, Excuses
  <2>6. put'[i] = NoPut /\ \A j \in Saves \ {i} : put'[j] = put[j]
    BY <2>1 DEF IInv, TypeOK
  <2> HIDE DEF t, r
  <2>7. TypeOK'
    BY <2>1, <2>2, <2>3, <2>5 DEF IInv, TypeOK, TellsSecret, Views
  <2>8. \A s \in Tabs, j \in Saves : SentBy(s, j)' <=> SentBy(s, j) /\ j # i
    BY <2>5, <2>6 DEF SentBy
  <2>9. PutInv'
    <3> SUFFICES ASSUME NEW j \in Saves, put'[j].step # "none"
                 PROVE  /\ j <= saves' /\ put'[j].tab \in Tabs
                        /\ put'[j].fate = "shown" =>
                             /\ tab'[put'[j].tab].phase = "saving"
                             /\ \A k \in Saves : SentBy(put'[j].tab, k) => k = j
                        /\ put'[j].step = "update" => stored' # NoConfig
                        /\ put'[j].step = "answer" =>
                             put'[j].fate = "shown" /\ TellsSecret(put'[j].answer)
      BY <2>1, <2>6, <2>8 DEF PutInv, SentBy, TellsSecret
    <3>1. j # i /\ put'[j] = put[j]
      BY <2>5, <2>6
    <3>2. put[j].fate = "shown" => SentBy(put[j].tab, j)
      BY <3>1 DEF SentBy
    <3>3. put[j].fate = "shown" => put[j].tab # t
      BY <2>2, <3>1, <3>2
    <3>4. QED BY <2>1, <2>4, <3>1, <3>3 DEF IInv, PutInv
  <2>10. SecretInv'
    BY <2>1, <2>2, <2>3, <2>4 DEF IInv, SecretInv, TellsSecret
  <2>11. KnowsInv'
    <3>1. ASSUME NEW s \in Tabs \ {t} PROVE Answering(s) => Answering(s)'
      <4>1. put[i].tab = t
        BY DEF t
      <4>2. QED BY <2>6, <2>8, <4>1 DEF Answering, SentBy
    <3>2. \A j \in Saves : put'[j].step # "none" => put'[j] = put[j]
      BY <2>5, <2>6
    <3>3. QED BY <2>1, <2>2, <2>3, <2>4, <3>1, <3>2 DEF IInv, KnowsInv, Unwritten
  <2>12. QED BY <2>7, <2>9, <2>10, <2>11 DEF IInv
<1>12. CASE UNCHANGED configVars
  BY <1>12 DEF configVars, IInv, TypeOK, PutInv, SecretInv, KnowsInv, SentBy, TellsSecret,
     Answering, Unwritten
<1>13. QED
  BY <1>1, <1>2, <1>3, <1>4, <1>5, <1>6, <1>7, <1>8, <1>9, <1>10, <1>11, <1>12 DEF ConfigNext

-----------------------------------------------------------------------------
(* The trade page.                                                         *)

TradeActions ==
  [kind : {"none", "pay", "confirm", "cancel"}, trade : Trades \cup {NoTrade}, step : 0..2]

\* As long as no jump overtook a request, all that is under way is about the
\* trade of the URL.
TradeInv ==
  /\ action \in TradeActions /\ url \in Trades /\ overtaken \in BOOLEAN /\ failed \in BOOLEAN
  /\ ~overtaken =>
       /\ \A l \in loads : l.trade = url
       /\ action # T!Idle => action.trade = url
  /\ ShownOtherOnlyBy

\* At first the page loads the trade of the URL.
LEMMA TradeInvInit == T!Init => TradeInv
<1> SUFFICES ASSUME T!Init PROVE TradeInv
  OBVIOUS
<1>1. action \in TradeActions /\ shown.trade = NoTrade
  BY DEF T!Init, TradeActions, T!Idle, T!Blank
<1>2. \A l \in loads : l.trade = url
  BY DEF T!Init, T!LoadOf
<1>3. action = T!Idle /\ url \in Trades /\ overtaken = FALSE /\ failed = FALSE
  BY DEF T!Init
<1>4. QED BY <1>1, <1>2, <1>3 DEF TradeInv, ShownOtherOnlyBy, T!ShownOtherOnlyBy

\* An answer that is shown is of the URL's trade, or was overtaken.
LEMMA TradeInvNext == TradeInv /\ [T!Next]_tradeVars => TradeInv'
<1> SUFFICES ASSUME TradeInv, [T!Next]_tradeVars PROVE TradeInv'
  OBVIOUS
<1> USE DEF TradeInv, ShownOtherOnlyBy, T!ShownOtherOnlyBy, TradeActions
<1>1. ASSUME NEW t \in Trades, T!Jump(t) PROVE TradeInv'
  <2>1. T!LoadOf(t, "page").trade = t
    BY DEF T!LoadOf
  <2>2. PICK l : l = T!LoadOf(t, "page") /\ l.trade = t
    BY <2>1
  <2>3. /\ loads' = loads \cup {l} /\ url' = t /\ action' = action /\ failed' = FALSE
        /\ overtaken' = (overtaken \/ loads # {} \/ action # T!Idle)
    BY <1>1, <2>2 DEF T!Jump
  <2>4. overtaken' \in BOOLEAN /\ (~overtaken' => ~overtaken /\ loads = {} /\ action = T!Idle)
    BY <2>3
  <2>5. l \in loads'
    BY <2>3
  <2>6. QED BY <2>2, <2>3, <2>4, <2>5
<1>2. ASSUME NEW t \in Trades, T!OtherParty(t) PROVE TradeInv'
  BY <1>2 DEF T!OtherParty
<1>3. ASSUME NEW l \in loads, T!Loaded(l) PROVE TradeInv'
  BY <1>3 DEF T!Loaded, T!LoadEnds, T!Idle
<1>4. ASSUME NEW l \in loads, T!LoadFails(l) PROVE TradeInv'
  <2>1. /\ loads' = loads \ {l} /\ action' \in {action, T!Idle} /\ T!Idle \in TradeActions
        /\ failed' = (failed \/ l.trade = url) /\ UNCHANGED <<url, shown, overtaken>>
    BY <1>4 DEF T!LoadFails, T!LoadEnds, T!Idle
  <2>2. ~overtaken /\ (\E k \in loads : k.trade = url) => failed' \/ \E k \in loads' : k.trade = url
    BY <2>1
  <2>3. QED BY <2>1, <2>2
<1>5. ASSUME NEW kind \in {"pay", "confirm", "cancel"}, T!Press(kind) PROVE TradeInv'
  BY <1>5 DEF T!Press
<1>6. CASE T!Acts
  <2>1. action # T!Idle
    BY <1>6 DEF T!Acts, T!Idle
  <2>2. action' \in TradeActions /\ action'.trade = action.trade
    BY <1>6 DEF T!Acts
  <2>3. \A l \in loads' : l \in loads \/ l.trade = action.trade
    BY <1>6 DEF T!Acts, T!LoadOf
  <2>4. UNCHANGED <<url, overtaken, shown, failed>> /\ loads \subseteq loads'
    BY <1>6 DEF T!Acts
  <2>5. QED BY <2>1, <2>2, <2>3, <2>4
<1>7. CASE T!Refused
  BY <1>7 DEF T!Refused, T!Idle
<1>8. CASE UNCHANGED tradeVars
  BY <1>8 DEF tradeVars
<1>9. QED BY <1>1, <1>2, <1>3, <1>4, <1>5, <1>6, <1>7, <1>8 DEF T!Next

-----------------------------------------------------------------------------
(* The gateway.                                                            *)

Answers == [code : Nat, winner : Players \cup {NoPlayer}]
Calls == [step : {"unsent", "expire", "window", "acquire", "settle", "reply", "done"},
          at : Nat, reply : Answers]

GatewayTypes ==
  /\ clock \in Nat
  /\ key \in [G!Hashes -> Answers]
  /\ winner \in [Matches -> Players \cup {NoPlayer}] /\ resolved \subseteq Matches
  /\ call \in [Requests -> Calls]
  /\ answer \in [Requests -> Answers]
  /\ writes \in SUBSET [hash : G!Hashes, by : Requests, value : Answers]
  /\ lost \in [expiry : BOOLEAN, owner : SUBSET G!Hashes]

\* An answer that is not a refusal names w, and w is somebody.
Names(a, w) == a.code = 200 => a.winner = w /\ w # NoPlayer

\* won is the winner of each match's one settlement: the match's, as long as
\* the old route has not resolved it again.
Settled(won) ==
  /\ won \in [Matches -> Players \cup {NoPlayer}]
  /\ \A x \in Matches : x \notin resolved \/ winner[x] = NoPlayer => won[x] = winner[x]

\* Whatever is carried, stored or on its way to Redis names it.
AnswersInv(won) ==
  /\ \A r \in Requests : Names(answer[r], won[MatchOf[r]]) /\ Names(call[r].reply, won[MatchOf[r]])
  /\ \A w \in writes : Names(w.value, won[w.hash[1]])
  /\ \A h \in G!Hashes : Names(key[h], won[h[1]])

\* The request has taken its key and not answered yet.
Owner(r) == call[r].step \in {"settle", "reply"}

\* A key with an owner, or a write on its way, is PENDING and has no other.
KeysInv ==
  /\ \A q, r \in Requests : Owner(q) /\ Owner(r) /\ G!Hash(q) = G!Hash(r) => q = r
  /\ \A v, w \in writes : v.hash = w.hash => v = w
  /\ \A r \in Requests : Owner(r) =>
       key[G!Hash(r)] = G!Pending /\ \A w \in writes : w.hash # G!Hash(r)
  /\ \A w \in writes : key[w.hash] = G!Pending /\ w.value # G!Pending
  /\ \A h \in G!Hashes : key[h] = G!Pending =>
       \/ h \in lost.owner
       \/ \E r \in Requests : Owner(r) /\ G!Hash(r) = h
       \/ \E w \in writes : w.hash = h

GatewayKept(won) == GatewayTypes /\ Settled(won) /\ AnswersInv(won) /\ KeysInv
GatewayInv == \E won : GatewayKept(won)

\* The constants of the requests.
LEMMA Requested ==
  /\ NoPlayer \notin Players
  /\ \A r \in Requests :
       /\ MatchOf[r] \in Matches /\ WinnerOf[r] \in Players
       /\ G!Hash(r) \in G!Hashes /\ G!Hash(r)[1] = MatchOf[r]
  /\ \A h \in G!Hashes : h[1] \in Matches
BY ClientsAssumption DEF G!RequestsAssumption, G!Hash, G!Hashes

\* Codes.
LEMMA CodesAre ==
  /\ \A c \in Nat : G!Code(c) \in Answers /\ G!Code(c).code = c
  /\ G!None \in Answers /\ G!None.code = 0
  /\ \A w \in Players : G!Success(w) \in Answers /\ G!Success(w).code = 200 /\ G!Success(w).winner = w
  /\ G!Pending = G!Code(102)
BY DEF G!Code, G!None, G!Success, G!Pending, Answers

\* Nothing is asked for at first.
LEMMA GatewayInvInit == G!Init => GatewayInv
<1> SUFFICES ASSUME G!Init PROVE GatewayInv
  OBVIOUS
<1>1. GatewayTypes
  <2>1. [step |-> "unsent", at |-> 0, reply |-> G!None] \in Calls
    BY CodesAre DEF Calls
  <2>2. G!Code(0) \in Answers /\ G!None \in Answers
    BY CodesAre
  <2>3. QED BY <2>1, <2>2 DEF G!Init, GatewayTypes
<1>t. PICK won : won = [x \in Matches |-> NoPlayer]
  OBVIOUS
<1>s. Settled(won)
  BY <1>t DEF Settled, G!Init
<1>2. AnswersInv(won)
  <2>1. G!Code(0).code = 0 /\ G!None.code = 0
    BY CodesAre
  <2>2. \A w : Names(G!Code(0), w) /\ Names(G!None, w)
    BY <2>1 DEF Names
  <2>3. QED BY <2>2 DEF G!Init, AnswersInv
<1>3. KeysInv
  <2>1. G!Code(0) # G!Pending
    BY CodesAre
  <2>2. \A r \in Requests : ~Owner(r)
    BY DEF G!Init, Owner
  <2>3. QED BY <2>1, <2>2 DEF G!Init, KeysInv
<1>4. QED BY <1>1, <1>2, <1>3, <1>s DEF GatewayInv, GatewayKept

\* The request goes on to c, the client has answer a.
Moves(r, c, a) ==
  call' = [call EXCEPT ![r] = c] /\ answer' = [answer EXCEPT ![r] = a]

\* A request that has no key, and takes none, is nobody else's business.
LEMMA Apart ==
  ASSUME NEW won, GatewayKept(won), NEW r \in Requests, ~Owner(r),
         NEW c \in Calls, c.step \notin {"settle", "reply"}, Names(c.reply, won[MatchOf[r]]),
         NEW a \in Answers, Names(a, won[MatchOf[r]]), Moves(r, c, a),
         UNCHANGED <<clock, key, winner, resolved, writes>>,
         lost' \in [expiry : BOOLEAN, owner : SUBSET G!Hashes], lost'.owner = lost.owner
  PROVE  GatewayKept(won)'
<1>1. /\ call' \in [Requests -> Calls] /\ answer' \in [Requests -> Answers]
      /\ \A q \in Requests : q # r => call'[q] = call[q] /\ answer'[q] = answer[q]
      /\ call'[r] = c /\ answer'[r] = a
  BY DEF Moves, GatewayKept, GatewayTypes
<1>2. GatewayTypes'
  BY <1>1 DEF GatewayKept, GatewayTypes
<1>3. AnswersInv(won)'
  BY <1>1 DEF GatewayKept, AnswersInv, Names
<1>4. \A q \in Requests : Owner(q)' <=> Owner(q)
  BY <1>1 DEF Owner
<1>5. KeysInv'
  BY <1>4 DEF GatewayKept, KeysInv
<1>6. QED BY <1>2, <1>3, <1>5 DEF GatewayKept, Settled

\* The request is refused.
LEMMA RefusedInv ==
  ASSUME NEW won, GatewayKept(won), NEW r \in Requests, ~Owner(r),
         NEW a \in {G!Code(401), G!Code(409), G!Code(429), G!Code(500)}, G!Answer(r, a),
         UNCHANGED <<clock, key, winner, resolved, writes>>,
         lost' \in [expiry : BOOLEAN, owner : SUBSET G!Hashes], lost'.owner = lost.owner
  PROVE  GatewayKept(won)'
<1>1. PICK c : c = [step |-> "done", at |-> 0, reply |-> G!None]
  OBVIOUS
<1>2. c \in Calls /\ c.step = "done" /\ c.reply = G!None
  BY <1>1, CodesAre DEF Calls
<1>3. Moves(r, c, a)
  BY <1>1 DEF G!Answer, Moves
<1>4. a \in Answers /\ a.code # 200 /\ G!None.code # 200
  BY CodesAre
<1>5. Names(a, won[MatchOf[r]]) /\ Names(c.reply, won[MatchOf[r]])
  BY <1>2, <1>4 DEF Names
<1>6. QED BY <1>2, <1>3, <1>4, <1>5, Apart

\* The request goes on without a key.
LEMMA GoesOnInv ==
  ASSUME NEW won, GatewayKept(won), NEW r \in Requests, ~Owner(r), NEW s \in {"expire", "window", "acquire"},
         NEW at \in Nat, call' = [call EXCEPT ![r] = [call[r] EXCEPT !.step = s, !.at = at]],
         UNCHANGED <<answer, clock, key, winner, resolved, writes>>,
         lost' \in [expiry : BOOLEAN, owner : SUBSET G!Hashes], lost'.owner = lost.owner
  PROVE  GatewayKept(won)'
<1>1. PICK d \in Calls : d = call[r]
  BY DEF GatewayKept, GatewayTypes
<1>2. PICK c : c = [d EXCEPT !.step = s, !.at = at]
  OBVIOUS
<1>3. c \in Calls /\ c.step = s /\ c.reply = d.reply
  BY <1>2 DEF Calls
<1>4. answer[r] \in Answers /\ Names(answer[r], won[MatchOf[r]]) /\ Names(c.reply, won[MatchOf[r]])
  BY <1>1, <1>3 DEF GatewayKept, GatewayTypes, AnswersInv
<1>5. Moves(r, c, answer[r])
  BY <1>1, <1>2 DEF Moves, GatewayKept, GatewayTypes
<1>6. QED BY <1>3, <1>4, <1>5, Apart

\* A request the limiter lets through.
LEMMA ThroughInv ==
  ASSUME NEW won, GatewayKept(won), NEW r \in Requests, ~Owner(r), G!Through(r),
         UNCHANGED <<clock, key, winner, resolved, writes>>,
         lost' \in [expiry : BOOLEAN, owner : SUBSET G!Hashes], lost'.owner = lost.owner
  PROVE  GatewayKept(won)'
<1>1. CASE G!Answer(r, G!Code(401))
  BY <1>1, RefusedInv
<1>2. CASE UNCHANGED answer
           /\ call' = [call EXCEPT ![r] = [call[r] EXCEPT !.step = "window", !.at = clock]]
  <2>1. clock \in Nat
    BY DEF GatewayKept, GatewayTypes
  <2>2. QED BY <1>2, <2>1, GoesOnInv
<1>3. QED BY <1>1, <1>2 DEF G!Through

\* A request the limiter has counted.
LEMMA JudgedInv ==
  ASSUME NEW won, GatewayKept(won), NEW r \in Requests, ~Owner(r), NEW count, G!Judged(r, count),
         UNCHANGED <<clock, key, winner, resolved, writes, lost>>
  PROVE  GatewayKept(won)'
<1>1. lost' \in [expiry : BOOLEAN, owner : SUBSET G!Hashes] /\ lost'.owner = lost.owner
  BY DEF GatewayKept, GatewayTypes
<1>2. CASE G!Answer(r, G!Code(429))
  BY <1>1, <1>2, RefusedInv
<1>3. CASE G!Through(r)
  BY <1>1, <1>3, ThroughInv
<1>4. QED BY <1>2, <1>3 DEF G!Judged

\* The two limiters have nothing to do with keys.
LEMMA LimitersInv ==
  ASSUME NEW won, GatewayKept(won), NEW r \in Requests,
         G!Incr(r) \/ G!PExpire(r) \/ G!LimiterFailsOpen(r) \/ G!Slide(r) \/ G!SlideFails(r)
  PROVE  GatewayKept(won)'
<1>1. call[r] \in Calls /\ lost \in [expiry : BOOLEAN, owner : SUBSET G!Hashes]
  BY DEF GatewayKept, GatewayTypes
<1>2. CASE G!Incr(r)
  <2>1. ~Owner(r) /\ UNCHANGED <<clock, key, winner, resolved, writes, lost>>
    BY <1>2 DEF G!Incr, Owner
  <2>2. CASE G!GoTo(r, "expire") /\ UNCHANGED answer
    <3>1. PICK d \in Calls : d = call[r]
      BY <1>1
    <3>2. [d EXCEPT !.step = "expire"] = [d EXCEPT !.step = "expire", !.at = d.at] /\ d.at \in Nat
      BY DEF Calls
    <3>3. call' = [call EXCEPT ![r] = [call[r] EXCEPT !.step = "expire"]]
      BY <2>2 DEF G!GoTo
    <3>4. call' = [call EXCEPT ![r] = [call[r] EXCEPT !.step = "expire", !.at = d.at]]
      BY <3>1, <3>2, <3>3
    <3>5. QED BY <1>1, <2>1, <2>2, <3>2, <3>4, GoesOnInv
  <2>3. CASE G!Judged(r, api'.count)
    BY <2>1, <2>3, JudgedInv
  <2>4. QED BY <1>2, <2>2, <2>3 DEF G!Incr
<1>3. CASE G!PExpire(r)
  <2>1. ~Owner(r) /\ UNCHANGED <<clock, key, winner, resolved, writes, lost>> /\ G!Judged(r, 1)
    BY <1>3 DEF G!PExpire, Owner
  <2>2. QED BY <2>1, JudgedInv
<1>4. CASE G!LimiterFailsOpen(r)
  <2>1. ~Owner(r) /\ UNCHANGED <<clock, key, winner, resolved, writes>> /\ G!Through(r)
    BY <1>4 DEF G!LimiterFailsOpen, Owner
  <2>2. lost' \in [expiry : BOOLEAN, owner : SUBSET G!Hashes] /\ lost'.owner = lost.owner
    BY <1>1, <1>4 DEF G!LimiterFailsOpen
  <2>3. QED BY <2>1, <2>2, ThroughInv
<1>5. CASE G!Slide(r)
  <2>1. ~Owner(r) /\ UNCHANGED <<clock, key, winner, resolved, writes, lost>>
    BY <1>5 DEF G!Slide, Owner
  <2>2. CASE G!Answer(r, G!Code(429))
    BY <1>1, <2>1, <2>2, RefusedInv
  <2>3. CASE UNCHANGED answer
             /\ call' = [call EXCEPT ![r] = [call[r] EXCEPT !.step = "acquire", !.at = 0]]
    BY <1>1, <2>1, <2>3, GoesOnInv
  <2>4. QED BY <1>5, <2>2, <2>3 DEF G!Slide
<1>6. CASE G!SlideFails(r)
  <2>1. ~Owner(r) /\ UNCHANGED <<clock, key, winner, resolved, writes, lost>> /\ G!Answer(r, G!Code(500))
    BY <1>6 DEF G!SlideFails, Owner
  <2>2. QED BY <1>1, <2>1, RefusedInv
<1>7. QED BY <1>2, <1>3, <1>4, <1>5, <1>6

\* A request that becomes, or stays, an owner, or answers.
LEMMA Typed ==
  ASSUME NEW won, GatewayKept(won), NEW r \in Requests, NEW c \in Calls, NEW a \in Answers, Moves(r, c, a)
  PROVE  /\ call' \in [Requests -> Calls] /\ answer' \in [Requests -> Answers]
         /\ call'[r] = c /\ answer'[r] = a
         /\ \A q \in Requests : q # r => call'[q] = call[q] /\ answer'[q] = answer[q]
BY DEF Moves, GatewayKept, GatewayTypes

\* What a step of a request makes of its call.
LEMMA Made ==
  ASSUME NEW won, GatewayKept(won), NEW r \in Requests
  PROVE  /\ \A s \in {"expire", "settle"} : G!GoTo(r, s) /\ UNCHANGED answer =>
              \E c \in Calls : c.step = s /\ c.reply = call[r].reply /\ Moves(r, c, answer[r])
         /\ \A a \in Answers : G!Reply(r, a) /\ UNCHANGED answer =>
              \E c \in Calls : c.step = "reply" /\ c.reply = a /\ Moves(r, c, answer[r])
         /\ \A a \in Answers : G!Answer(r, a) =>
              \E c \in Calls : c.step = "done" /\ c.reply = G!None /\ Moves(r, c, a)
<1>1. PICK d \in Calls : d = call[r]
  BY DEF GatewayKept, GatewayTypes
<1>2. answer = [answer EXCEPT ![r] = answer[r]]
  BY DEF GatewayKept, GatewayTypes
<1>3. ASSUME NEW s \in {"expire", "settle"}, G!GoTo(r, s), UNCHANGED answer
      PROVE  \E c \in Calls : c.step = s /\ c.reply = call[r].reply /\ Moves(r, c, answer[r])
  <2>1. PICK c : c = [d EXCEPT !.step = s]
    OBVIOUS
  <2>2. c \in Calls /\ c.step = s /\ c.reply = d.reply
    BY <2>1 DEF Calls
  <2>3. Moves(r, c, answer[r])
    BY <1>1, <1>2, <1>3, <2>1 DEF Moves, G!GoTo
  <2>4. QED BY <1>1, <2>2, <2>3
<1>4. ASSUME NEW a \in Answers, G!Reply(r, a), UNCHANGED answer
      PROVE  \E c \in Calls : c.step = "reply" /\ c.reply = a /\ Moves(r, c, answer[r])
  <2>1. PICK c : c = [d EXCEPT !.step = "reply", !.reply = a]
    OBVIOUS
  <2>2. c \in Calls /\ c.step = "reply" /\ c.reply = a
    BY <2>1 DEF Calls
  <2>3. Moves(r, c, answer[r])
    BY <1>1, <1>2, <1>4, <2>1 DEF Moves, G!Reply
  <2>4. QED BY <2>2, <2>3
<1>5. ASSUME NEW a \in Answers, G!Answer(r, a)
      PROVE  \E c \in Calls : c.step = "done" /\ c.reply = G!None /\ Moves(r, c, a)
  <2>1. PICK c : c = [step |-> "done", at |-> 0, reply |-> G!None]
    OBVIOUS
  <2>2. c \in Calls /\ c.step = "done" /\ c.reply = G!None
    BY <2>1, CodesAre DEF Calls
  <2>3. Moves(r, c, a)
    BY <1>5, <2>1 DEF Moves, G!Answer
  <2>4. QED BY <2>2, <2>3
<1>6. QED BY <1>3, <1>4, <1>5

\* A free key gets its owner; a stored answer is true.
LEMMA AcquireInv ==
  ASSUME NEW won, GatewayKept(won), NEW r \in Requests, G!Acquire(r)
  PROVE  GatewayKept(won)'
<1> DEFINE h == G!Hash(r)
<1>1. h \in G!Hashes /\ h[1] = MatchOf[r] /\ key[h] \in Answers
  BY Requested DEF GatewayKept, GatewayTypes
<1>2. ~Owner(r) /\ UNCHANGED <<clock, winner, resolved, writes, lost>>
  BY DEF G!Acquire, Owner
<1> HIDE DEF h
<1>3. ASSUME key[h] = G!Code(0), key' = [key EXCEPT ![h] = G!Pending],
             G!GoTo(r, "settle"), UNCHANGED answer
      PROVE  GatewayKept(won)'
  <2>1. PICK c \in Calls : c.step = "settle" /\ c.reply = call[r].reply /\ Moves(r, c, answer[r])
    BY <1>3, Made
  <2>2. answer[r] \in Answers
    BY DEF GatewayKept, GatewayTypes
  <2>3. /\ call' \in [Requests -> Calls] /\ answer' \in [Requests -> Answers]
        /\ call'[r] = c /\ answer'[r] = answer[r]
        /\ \A q \in Requests : q # r => call'[q] = call[q] /\ answer'[q] = answer[q]
    BY <2>1, <2>2, Typed
  <2>4. G!Pending \in Answers /\ G!Pending.code # 200 /\ G!Code(0) # G!Pending
    BY CodesAre
  <2>5. /\ key' \in [G!Hashes -> Answers] /\ key'[h] = G!Pending
        /\ \A g \in G!Hashes : g # h => key'[g] = key[g]
    BY <1>1, <1>3, <2>4 DEF GatewayKept, GatewayTypes
  <2>6. GatewayTypes'
    BY <1>2, <2>3, <2>5 DEF GatewayKept, GatewayTypes
  <2>7. AnswersInv(won)'
    <3>1. \A w : Names(G!Pending, w)
      BY <2>4 DEF Names
    <3>2. \A q \in Requests : Names(answer'[q], won[MatchOf[q]]) /\ Names(call'[q].reply, won[MatchOf[q]])
      BY <1>2, <2>1, <2>3 DEF GatewayKept, AnswersInv, Names
    <3>3. \A w \in writes' : Names(w.value, won[w.hash[1]])
      BY <1>2 DEF GatewayKept, AnswersInv, Names
    <3>4. \A g \in G!Hashes : Names(key'[g], won[g[1]])
      BY <1>2, <2>5, <3>1 DEF GatewayKept, AnswersInv, Names
    <3>5. QED BY <3>2, <3>3, <3>4 DEF AnswersInv
  <2>8. KeysInv'
    <3>1. \A q \in Requests : Owner(q)' <=> Owner(q) \/ q = r
      BY <2>1, <2>3 DEF Owner
    <3>2. \A q \in Requests : Owner(q) => G!Hash(q) # h
      BY <1>3, <2>4 DEF GatewayKept, KeysInv
    <3>3. \A w \in writes : w.hash # h
      BY <1>3, <2>4 DEF GatewayKept, KeysInv
    <3>4. \A w \in writes : w.hash \in G!Hashes
      BY DEF GatewayKept, GatewayTypes
    <3>5. \A q \in Requests : G!Hash(q) \in G!Hashes
      BY Requested
    <3>6. h = G!Hash(r)
      BY DEF h
    <3>7. \A q, p \in Requests : Owner(q)' /\ Owner(p)' /\ G!Hash(q) = G!Hash(p) => q = p
      BY <3>1, <3>2, <3>6 DEF GatewayKept, KeysInv
    <3>8. \A q \in Requests : Owner(q)' =>
            key'[G!Hash(q)] = G!Pending /\ \A w \in writes : w.hash # G!Hash(q)
      BY <2>5, <3>1, <3>2, <3>3, <3>5, <3>6 DEF GatewayKept, KeysInv
    <3>9. \A w \in writes : key'[w.hash] = G!Pending /\ w.value # G!Pending
      BY <2>5, <3>3, <3>4 DEF GatewayKept, KeysInv
    <3>10. ASSUME NEW g \in G!Hashes, key'[g] = G!Pending
           PROVE  \/ g \in lost.owner
                  \/ \E q \in Requests : Owner(q)' /\ G!Hash(q) = g
                  \/ \E w \in writes : w.hash = g
      BY <2>5, <3>1, <3>6, <3>10 DEF GatewayKept, KeysInv
    <3>11. QED BY <1>2, <3>7, <3>8, <3>9, <3>10 DEF GatewayKept, KeysInv
  <2>9. QED BY <1>2, <2>6, <2>7, <2>8 DEF GatewayKept, Settled
<1>4. ASSUME G!Answer(r, G!Code(409)), UNCHANGED key PROVE GatewayKept(won)'
  <2>1. lost' \in [expiry : BOOLEAN, owner : SUBSET G!Hashes] /\ lost'.owner = lost.owner
    BY <1>2 DEF GatewayKept, GatewayTypes
  <2>2. QED BY <1>2, <1>4, <2>1, RefusedInv
<1>5. ASSUME G!Answer(r, key[h]), UNCHANGED key PROVE GatewayKept(won)'
  <2>1. PICK c \in Calls : c.step = "done" /\ c.reply = G!None /\ Moves(r, c, key[h])
    BY <1>1, <1>5, Made
  <2>2. Names(key[h], won[MatchOf[r]])
    BY <1>1 DEF GatewayKept, AnswersInv
  <2>3. Names(c.reply, won[MatchOf[r]])
    BY <2>1, CodesAre DEF Names
  <2>4. lost' \in [expiry : BOOLEAN, owner : SUBSET G!Hashes] /\ lost'.owner = lost.owner
    BY <1>2 DEF GatewayKept, GatewayTypes
  <2>5. QED BY <1>1, <1>2, <1>5, <2>1, <2>2, <2>3, <2>4, Apart
<1>6. QED BY <1>3, <1>4, <1>5 DEF G!Acquire, h

\* The script took the key, or not: nobody is its owner.
LEMMA AcquireLostInv ==
  ASSUME NEW won, GatewayKept(won), NEW r \in Requests, G!AcquireReplyLost(r)
  PROVE  GatewayKept(won)'
<1> DEFINE h == G!Hash(r)
<1>1. h \in G!Hashes /\ key[h] \in Answers /\ G!Pending \in Answers /\ G!Pending.code # 200
  BY Requested, CodesAre DEF GatewayKept, GatewayTypes
<1>2. ~Owner(r) /\ UNCHANGED <<clock, winner, resolved, writes>> /\ G!Answer(r, G!Code(500))
  BY DEF G!AcquireReplyLost, Owner
<1>3. /\ key' = [key EXCEPT ![h] = IF key[h] = G!Code(0) THEN G!Pending ELSE key[h]]
      /\ lost' = [lost EXCEPT !.owner = IF key[h] = G!Code(0) THEN lost.owner \cup {h} ELSE lost.owner]
  BY DEF G!AcquireReplyLost
<1>4. G!Code(0) # G!Pending /\ G!Code(500) \in Answers /\ G!Code(500).code # 200 /\ G!None.code # 200
  BY CodesAre
<1> HIDE DEF h
<1>5. PICK c \in Calls : c.step = "done" /\ c.reply = G!None /\ Moves(r, c, G!Code(500))
  BY <1>2, <1>4, Made
<1>6. /\ call' \in [Requests -> Calls] /\ answer' \in [Requests -> Answers]
      /\ call'[r] = c /\ answer'[r] = G!Code(500)
      /\ \A q \in Requests : q # r => call'[q] = call[q] /\ answer'[q] = answer[q]
  BY <1>4, <1>5, Typed
<1>7. /\ key' \in [G!Hashes -> Answers]
      /\ key'[h] = IF key[h] = G!Code(0) THEN G!Pending ELSE key[h]
      /\ \A g \in G!Hashes : g # h => key'[g] = key[g]
  BY <1>1, <1>3 DEF GatewayKept, GatewayTypes
<1>8. /\ lost' \in [expiry : BOOLEAN, owner : SUBSET G!Hashes]
      /\ lost'.owner = IF key[h] = G!Code(0) THEN lost.owner \cup {h} ELSE lost.owner
  BY <1>1, <1>3 DEF GatewayKept, GatewayTypes
<1>9. GatewayTypes'
  BY <1>2, <1>6, <1>7, <1>8 DEF GatewayKept, GatewayTypes
<1>10. AnswersInv(won)'
  <2>1. \A w : Names(G!Pending, w) /\ Names(G!Code(500), w) /\ Names(G!None, w)
    BY <1>1, <1>4 DEF Names
  <2>2. \A q \in Requests : Names(answer'[q], won[MatchOf[q]]) /\ Names(call'[q].reply, won[MatchOf[q]])
    BY <1>2, <1>5, <1>6, <2>1 DEF GatewayKept, AnswersInv
  <2>3. \A g \in G!Hashes : Names(key'[g], won[g[1]])
    BY <1>2, <1>7, <2>1 DEF GatewayKept, AnswersInv
  <2>4. QED BY <1>2, <2>2, <2>3 DEF GatewayKept, AnswersInv
<1>11. KeysInv'
  <2>1. \A q \in Requests : Owner(q)' <=> Owner(q)
    BY <1>2, <1>5, <1>6 DEF Owner
  <2>2. \A q \in Requests : Owner(q) => key'[G!Hash(q)] = key[G!Hash(q)]
    BY <1>4, <1>7, Requested DEF GatewayKept, KeysInv
  <2>3. \A w \in writes : key'[w.hash] = key[w.hash]
    BY <1>4, <1>7 DEF GatewayKept, GatewayTypes, KeysInv
  <2>4. ASSUME NEW g \in G!Hashes, key'[g] = G!Pending
        PROVE  \/ g \in lost'.owner
               \/ \E q \in Requests : Owner(q) /\ G!Hash(q) = g
               \/ \E w \in writes : w.hash = g
    BY <1>7, <1>8, <2>4 DEF GatewayKept, KeysInv
  <2>5. QED BY <1>2, <2>1, <2>2, <2>3, <2>4 DEF GatewayKept, KeysInv
<1>12. QED BY <1>2, <1>9, <1>10, <1>11 DEF GatewayKept, Settled

\* The owner gets a reply, which names the winner of the settlement if it is a
\* success.
LEMMA ReplyInv ==
  ASSUME NEW won, GatewayKept(won), NEW r \in Requests, call[r].step = "settle",
         NEW a \in Answers, G!Reply(r, a), NEW wins,
         winner' \in [Matches -> Players \cup {NoPlayer}], Settled(wins)',
         \A x \in Matches : won[x] # NoPlayer => wins[x] = won[x],
         Names(a, wins[MatchOf[r]]), UNCHANGED <<clock, resolved, key, answer, writes, lost>>
  PROVE  GatewayKept(wins)'
<1>1. PICK c \in Calls : c.step = "reply" /\ c.reply = a /\ Moves(r, c, answer[r])
  BY Made
<1>2. answer[r] \in Answers
  BY DEF GatewayKept, GatewayTypes
<1>3. /\ call' \in [Requests -> Calls] /\ answer' \in [Requests -> Answers]
      /\ call'[r] = c
      /\ \A q \in Requests : q # r => call'[q] = call[q]
  BY <1>1, <1>2, Typed
<1>5. GatewayTypes'
  BY <1>3 DEF GatewayKept, GatewayTypes
<1>6. \A b \in Answers, x \in Matches : Names(b, won[x]) => Names(b, wins[x])
  BY DEF Names
<1>7. \A v \in writes : v.value \in Answers /\ v.hash[1] \in Matches
  BY Requested DEF GatewayKept, GatewayTypes
<1>8. AnswersInv(wins)'
  <2>1. \A q \in Requests : answer[q] \in Answers /\ call[q].reply \in Answers /\ MatchOf[q] \in Matches
    BY Requested DEF GatewayKept, GatewayTypes, Calls
  <2>2. \A q \in Requests : Names(answer[q], wins[MatchOf[q]]) /\ Names(call[q].reply, wins[MatchOf[q]])
    BY <1>6, <2>1 DEF GatewayKept, AnswersInv
  <2>3. \A q \in Requests : Names(call'[q].reply, wins[MatchOf[q]])
    BY <1>1, <1>3, <2>2
  <2>4. \A v \in writes : Names(v.value, wins[v.hash[1]])
    BY <1>6, <1>7 DEF GatewayKept, AnswersInv
  <2>5. \A g \in G!Hashes : Names(key[g], wins[g[1]])
    BY <1>6, Requested DEF GatewayKept, GatewayTypes, AnswersInv
  <2>6. QED BY <2>2, <2>3, <2>4, <2>5 DEF AnswersInv
<1>9. \A q \in Requests : Owner(q)' <=> Owner(q)
  BY <1>1, <1>3 DEF Owner
<1>10. KeysInv'
  BY <1>9 DEF GatewayKept, KeysInv
<1>11. QED BY <1>5, <1>8, <1>10 DEF GatewayKept

\* A match is settled once, and the reply says how.
LEMMA SettlesInv ==
  ASSUME NEW won, GatewayKept(won), NEW r \in Requests, G!Settle(r) \/ G!SettleFails(r)
  PROVE  GatewayInv'
<1> DEFINE x == MatchOf[r]
           w == WinnerOf[r]
<1>1. x \in Matches /\ w \in Players /\ w # NoPlayer
  BY Requested
<1>2. call[r].step = "settle" /\ UNCHANGED <<clock, resolved, key, answer, writes, lost>>
  BY DEF G!Settle, G!SettleFails
<1>3. ASSUME NEW a \in Answers, G!Reply(r, a), Names(a, w),
             winner[x] = NoPlayer, winner' = [winner EXCEPT ![x] = w]
      PROVE  GatewayInv'
  <2>1. PICK wins : wins = [won EXCEPT ![x] = w]
    OBVIOUS
  <2>2. /\ wins \in [Matches -> Players \cup {NoPlayer}] /\ wins[x] = w /\ won[x] = NoPlayer
        /\ \A y \in Matches : y # x => wins[y] = won[y]
    BY <1>1, <1>3, <2>1 DEF GatewayKept, Settled
  <2>3. /\ winner' \in [Matches -> Players \cup {NoPlayer}] /\ winner'[x] = w
        /\ \A y \in Matches : y # x => winner'[y] = winner[y]
    BY <1>1, <1>3 DEF GatewayKept, GatewayTypes
  <2>4. Settled(wins)'
    BY <1>2, <2>2, <2>3 DEF GatewayKept, Settled
  <2>5. \A y \in Matches : won[y] # NoPlayer => wins[y] = won[y]
    BY <2>2
  <2>6. GatewayKept(wins)'
    BY <1>2, <1>3, <2>2, <2>3, <2>4, <2>5, ReplyInv
  <2>7. QED BY <2>6 DEF GatewayInv
<1>4. ASSUME NEW a \in {G!Code(409), G!Code(500)}, G!Reply(r, a), UNCHANGED winner
      PROVE  GatewayInv'
  <2>1. a \in Answers /\ a.code # 200
    BY CodesAre
  <2>2. Names(a, won[MatchOf[r]])
    BY <2>1 DEF Names
  <2>3. Settled(won)' /\ winner' \in [Matches -> Players \cup {NoPlayer}]
    BY <1>2, <1>4 DEF GatewayKept, GatewayTypes, Settled
  <2>4. GatewayKept(won)'
    BY <1>2, <1>4, <2>1, <2>2, <2>3, ReplyInv
  <2>5. QED BY <2>4 DEF GatewayInv
<1>5. G!Success(w) \in Answers /\ Names(G!Success(w), w) /\ G!Code(500) \in Answers /\ Names(G!Code(500), w)
  BY <1>1, CodesAre DEF Names
<1> HIDE DEF x, w
<1>6. QED BY <1>3, <1>4, <1>5 DEF G!Settle, G!SettleFails, x, w

\* The old route names another winner: the answers stay what they were.
LEMMA LegacyInv ==
  ASSUME NEW won, GatewayKept(won), NEW x \in Matches, NEW w \in Players, G!LegacyResolve(x, w)
  PROVE  GatewayKept(won)'
<1>1. UNCHANGED <<clock, key, call, answer, writes, lost>> /\ resolved' = resolved \cup {x}
  BY DEF G!LegacyResolve
<1>2. /\ winner' \in [Matches -> Players \cup {NoPlayer}] /\ winner'[x] = w
      /\ \A y \in Matches : y # x => winner'[y] = winner[y]
  BY DEF G!LegacyResolve, GatewayKept, GatewayTypes
<1>3. GatewayTypes'
  BY <1>1, <1>2 DEF GatewayKept, GatewayTypes
<1>4. Settled(won)'
  BY <1>1, <1>2, Requested DEF GatewayKept, Settled
<1>5. AnswersInv(won)'
  BY <1>1 DEF GatewayKept, AnswersInv
<1>6. KeysInv'
  BY <1>1 DEF GatewayKept, KeysInv, Owner
<1>7. QED BY <1>3, <1>4, <1>5, <1>6 DEF GatewayKept

\* The owner answers, and its write is on the way.
LEMMA RespondInv ==
  ASSUME NEW won, GatewayKept(won), NEW r \in Requests, G!Respond(r)
  PROVE  GatewayKept(won)'
<1> DEFINE h == G!Hash(r)
           a == call[r].reply
<1>0. PICK val : val = IF a.code = 200 THEN a ELSE G!Code(0)
  OBVIOUS
<1>1. PICK w : w = [hash |-> h, by |-> r, value |-> val]
  OBVIOUS
<1>2. Owner(r) /\ writes' = writes \cup {w} /\ G!Answer(r, a) /\ UNCHANGED <<clock, key, winner, resolved, lost>>
  BY <1>0, <1>1 DEF G!Respond, Owner
<1>3. h \in G!Hashes /\ h[1] = MatchOf[r] /\ a \in Answers /\ Names(a, won[MatchOf[r]])
  BY Requested DEF GatewayKept, GatewayTypes, Calls, AnswersInv
<1>4. G!Code(0) \in Answers /\ G!Code(0).code = 0 /\ G!Pending.code = 102 /\ G!None.code = 0
  BY CodesAre
<1>5. /\ w \in [hash : G!Hashes, by : Requests, value : Answers]
      /\ w.hash = h /\ ((w.value = a /\ a.code = 200) \/ w.value = G!Code(0))
  BY <1>0, <1>1, <1>3, <1>4
<1>6. h = G!Hash(r)
  OBVIOUS
<1> HIDE DEF h
<1>7. PICK c \in Calls : c.step = "done" /\ c.reply = G!None /\ Moves(r, c, a)
  BY <1>2, <1>3, Made
<1>8. /\ call' \in [Requests -> Calls] /\ answer' \in [Requests -> Answers]
      /\ call'[r] = c /\ answer'[r] = a
      /\ \A q \in Requests : q # r => call'[q] = call[q] /\ answer'[q] = answer[q]
  BY <1>3, <1>7, Typed
<1>9. GatewayTypes'
  BY <1>2, <1>5, <1>8 DEF GatewayKept, GatewayTypes
<1>10. AnswersInv(won)'
  <2>1. \A x : Names(G!Code(0), x) /\ Names(G!None, x)
    BY <1>4 DEF Names
  <2>2. Names(w.value, won[w.hash[1]])
    BY <1>3, <1>5, <2>1
  <2>3. \A q \in Requests : Names(answer'[q], won[MatchOf[q]]) /\ Names(call'[q].reply, won[MatchOf[q]])
    BY <1>3, <1>7, <1>8, <2>1 DEF GatewayKept, AnswersInv
  <2>4. QED BY <1>2, <2>2, <2>3 DEF GatewayKept, AnswersInv
<1>11. KeysInv'
  <2>1. \A q \in Requests : Owner(q)' <=> Owner(q) /\ q # r
    BY <1>7, <1>8 DEF Owner
  <2>2. key[h] = G!Pending /\ (\A v \in writes : v.hash # h)
        /\ \A q \in Requests : Owner(q) /\ q # r => G!Hash(q) # h
    BY <1>2, <1>6 DEF GatewayKept, KeysInv
  <2>3. w.value # G!Pending
    BY <1>4, <1>5
  <2>4. \A u, v \in writes' : u.hash = v.hash => u = v
    BY <1>2, <1>5, <2>2 DEF GatewayKept, KeysInv
  <2>5. \A q \in Requests : Owner(q)' =>
          key[G!Hash(q)] = G!Pending /\ \A v \in writes' : v.hash # G!Hash(q)
    BY <1>2, <1>5, <2>1, <2>2 DEF GatewayKept, KeysInv
  <2>6. \A v \in writes' : key[v.hash] = G!Pending /\ v.value # G!Pending
    BY <1>2, <1>5, <2>2, <2>3 DEF GatewayKept, KeysInv
  <2>7. ASSUME NEW g \in G!Hashes, key[g] = G!Pending
        PROVE  \/ g \in lost.owner
               \/ \E q \in Requests : Owner(q)' /\ G!Hash(q) = g
               \/ \E v \in writes' : v.hash = g
    BY <1>2, <1>5, <1>6, <2>1, <2>7 DEF GatewayKept, KeysInv
  <2>8. QED BY <1>2, <2>1, <2>4, <2>5, <2>6, <2>7 DEF GatewayKept, KeysInv
<1>12. QED BY <1>2, <1>9, <1>10, <1>11 DEF GatewayKept, Settled

\* The write frees the key or stores the answer: it was the last of its key.
LEMMA WriteInv ==
  ASSUME NEW won, GatewayKept(won), NEW w \in writes, G!WriteLands(w)
  PROVE  GatewayKept(won)'
<1>1. /\ w \in [hash : G!Hashes, by : Requests, value : Answers]
      /\ writes' = writes \ {w} /\ UNCHANGED <<clock, winner, resolved, call, answer, lost>>
  BY DEF G!WriteLands, GatewayKept, GatewayTypes
<1>2. /\ key' \in [G!Hashes -> Answers] /\ key'[w.hash] = w.value
      /\ \A h \in G!Hashes : h # w.hash => key'[h] = key[h]
  BY <1>1 DEF G!WriteLands, GatewayKept, GatewayTypes
<1>3. GatewayTypes'
  BY <1>1, <1>2 DEF GatewayKept, GatewayTypes
<1>4. AnswersInv(won)'
  BY <1>1, <1>2 DEF GatewayKept, AnswersInv
<1>5. KeysInv'
  <2>1. \A q \in Requests : Owner(q)' <=> Owner(q)
    BY <1>1 DEF Owner
  <2>2. \A q \in Requests : Owner(q) => G!Hash(q) # w.hash /\ G!Hash(q) \in G!Hashes
    BY Requested DEF GatewayKept, KeysInv
  <2>3. \A v \in writes' : v \in writes /\ v.hash # w.hash /\ v.hash \in G!Hashes
    BY <1>1 DEF GatewayKept, GatewayTypes, KeysInv
  <2>4. w.value # G!Pending
    BY DEF GatewayKept, KeysInv
  <2>5. ASSUME NEW g \in G!Hashes, key'[g] = G!Pending
        PROVE  \/ g \in lost.owner
               \/ \E q \in Requests : Owner(q) /\ G!Hash(q) = g
               \/ \E v \in writes' : v.hash = g
    <3>1. g # w.hash /\ key[g] = G!Pending
      BY <1>2, <2>4, <2>5
    <3>2. QED BY <1>1, <3>1 DEF GatewayKept, KeysInv
  <2>6. \A q \in Requests : Owner(q) =>
          key'[G!Hash(q)] = G!Pending /\ \A v \in writes' : v.hash # G!Hash(q)
    BY <1>2, <2>2, <2>3 DEF GatewayKept, KeysInv
  <2>7. \A v \in writes' : key'[v.hash] = G!Pending /\ v.value # G!Pending
    BY <1>2, <2>3 DEF GatewayKept, KeysInv
  <2>8. \A u, v \in writes' : u.hash = v.hash => u = v
    BY <2>3 DEF GatewayKept, KeysInv
  <2>9. QED BY <1>1, <2>1, <2>5, <2>6, <2>7, <2>8 DEF GatewayKept, KeysInv
<1>6. QED BY <1>1, <1>3, <1>4, <1>5 DEF GatewayKept, Settled

\* A key without owner and write may expire.
LEMMA ExpiresInv ==
  ASSUME NEW won, GatewayKept(won), NEW h \in G!Hashes, G!KeyExpires(h)
  PROVE  GatewayKept(won)'
<1>1. /\ \A r \in Requests : Owner(r) => G!Hash(r) # h
      /\ \A w \in writes : w.hash # h
      /\ UNCHANGED <<clock, winner, resolved, call, answer, writes>>
  BY DEF G!KeyExpires, Owner
<1>2. G!Code(0) \in Answers /\ G!Code(0).code = 0 /\ G!Code(0) # G!Pending
  BY CodesAre
<1>3. /\ key' \in [G!Hashes -> Answers] /\ key'[h] = G!Code(0)
      /\ \A g \in G!Hashes : g # h => key'[g] = key[g]
  BY <1>2 DEF G!KeyExpires, GatewayKept, GatewayTypes
<1>4. /\ lost' \in [expiry : BOOLEAN, owner : SUBSET G!Hashes]
      /\ lost'.owner = lost.owner \ {h}
  BY DEF G!KeyExpires, GatewayKept, GatewayTypes
<1>5. GatewayTypes'
  BY <1>1, <1>3, <1>4 DEF GatewayKept, GatewayTypes
<1>6. AnswersInv(won)'
  <2>1. \A w : Names(G!Code(0), w)
    BY <1>2 DEF Names
  <2>2. QED BY <1>1, <1>3, <2>1 DEF GatewayKept, AnswersInv
<1>7. KeysInv'
  <2>1. \A q \in Requests : Owner(q)' <=> Owner(q)
    BY <1>1 DEF Owner
  <2>2. \A q \in Requests : Owner(q) => key'[G!Hash(q)] = key[G!Hash(q)]
    BY <1>1, <1>3, Requested
  <2>3. \A w \in writes : key'[w.hash] = key[w.hash]
    BY <1>1, <1>3 DEF GatewayKept, GatewayTypes
  <2>4. ASSUME NEW g \in G!Hashes, key'[g] = G!Pending
        PROVE  \/ g \in lost'.owner
               \/ \E q \in Requests : Owner(q) /\ G!Hash(q) = g
               \/ \E w \in writes : w.hash = g
    BY <1>2, <1>3, <1>4, <2>4 DEF GatewayKept, KeysInv
  <2>5. QED BY <1>1, <2>1, <2>2, <2>3, <2>4 DEF GatewayKept, KeysInv
<1>8. QED BY <1>1, <1>5, <1>6, <1>7 DEF GatewayKept, Settled

\* A crash leaves the keys of its requests, and of the writes it loses, without
\* an owner.
LEMMA CrashInv ==
  ASSUME NEW won, GatewayKept(won), G!Crash
  PROVE  GatewayKept(won)'
<1> DEFINE died == {r \in Requests : Owner(r)}
<1>1. PICK gone \in SUBSET writes :
        /\ writes' = writes \ gone
        /\ lost' = [expiry |-> lost.expiry \/ \E r \in Requests : call[r].step = "expire",
                    owner |-> lost.owner \cup {w.hash : w \in gone} \cup {G!Hash(r) : r \in died}]
  BY DEF G!Crash, Owner
<1>2. UNCHANGED <<clock, key, winner, resolved, answer>>
  BY DEF G!Crash
<1>3. PICK c : c = [step |-> "done", at |-> 0, reply |-> G!None]
  OBVIOUS
<1>4. c \in Calls /\ c.step = "done" /\ c.reply = G!None /\ G!None.code = 0
  BY <1>3, CodesAre DEF Calls
<1>5. call' = [r \in Requests |-> IF call[r].step \in {"unsent", "done"} THEN call[r] ELSE c]
  BY <1>3 DEF G!Crash
<1>6. call' \in [Requests -> Calls] /\ \A r \in Requests : call'[r] \in {call[r], c} /\ ~Owner(r)'
  BY <1>4, <1>5 DEF GatewayKept, GatewayTypes, Owner
<1>7. \A w \in writes : w.hash \in G!Hashes
  BY DEF GatewayKept, GatewayTypes
<1>8. lost'.owner = lost.owner \cup {w.hash : w \in gone} \cup {G!Hash(r) : r \in died}
      /\ lost' \in [expiry : BOOLEAN, owner : SUBSET G!Hashes]
  BY <1>1, <1>7, Requested DEF GatewayKept, GatewayTypes
<1>9. GatewayTypes'
  BY <1>1, <1>2, <1>6, <1>8 DEF GatewayKept, GatewayTypes
<1>10. AnswersInv(won)'
  <2>1. \A w : Names(c.reply, w)
    BY <1>4 DEF Names
  <2>2. QED BY <1>1, <1>2, <1>6, <2>1 DEF GatewayKept, AnswersInv
<1>11. KeysInv'
  <2>1. ASSUME NEW g \in G!Hashes, key[g] = G!Pending
        PROVE  g \in lost'.owner \/ \E w \in writes' : w.hash = g
    <3>1. CASE \E r \in Requests : Owner(r) /\ G!Hash(r) = g
      BY <1>8, <3>1
    <3>2. CASE \E w \in writes : w.hash = g
      BY <1>1, <1>8, <3>2
    <3>3. CASE g \in lost.owner
      BY <1>8, <3>3
    <3>4. QED BY <2>1, <3>1, <3>2, <3>3 DEF GatewayKept, KeysInv
  <2>2. QED BY <1>1, <1>2, <1>6, <2>1 DEF GatewayKept, KeysInv
<1>12. QED BY <1>2, <1>9, <1>10, <1>11 DEF GatewayKept, Settled

\* The invariant is kept by every step.
LEMMA GatewayInvNext == GatewayInv /\ [G!Next]_gatewayVars => GatewayInv'
<1> SUFFICES ASSUME NEW won, GatewayKept(won), [G!Next]_gatewayVars PROVE GatewayInv'
  BY DEF GatewayInv
<1>0. GatewayKept(won)' => GatewayInv'
  BY DEF GatewayInv
<1>1. ASSUME NEW r \in Requests, G!Incr(r) \/ G!LimiterFailsOpen(r) \/ G!SlideFails(r)
      PROVE  GatewayInv'
  BY <1>0, <1>1, LimitersInv
<1>2. ASSUME NEW r \in Requests, G!Serve(r) PROVE GatewayInv'
  BY <1>0, <1>2, LimitersInv, AcquireInv, SettlesInv, RespondInv DEF G!Serve
<1>3. ASSUME NEW r \in Requests, G!AcquireReplyLost(r) \/ G!SettleFails(r) PROVE GatewayInv'
  BY <1>0, <1>3, AcquireLostInv, SettlesInv
<1>4. ASSUME NEW w \in writes, G!WriteLands(w) PROVE GatewayInv'
  BY <1>0, <1>4, WriteInv
<1>5. ASSUME NEW h \in G!Hashes, G!KeyExpires(h) PROVE GatewayInv'
  BY <1>0, <1>5, ExpiresInv
<1>6. CASE G!Crash
  BY <1>0, <1>6, CrashInv
<1>7. ASSUME clock' \in Nat, UNCHANGED <<key, winner, resolved, call, answer, writes, lost>>
      PROVE  GatewayInv'
  <2>1. GatewayTypes'
    BY <1>7 DEF GatewayKept, GatewayTypes
  <2>2. AnswersInv(won)'
    BY <1>7 DEF GatewayKept, AnswersInv
  <2>3. KeysInv'
    BY <1>7 DEF GatewayKept, KeysInv, Owner
  <2>4. QED BY <1>0, <1>7, <2>1, <2>2, <2>3 DEF GatewayKept, Settled
<1>8. CASE G!CounterExpires \/ G!Tick \/ UNCHANGED gatewayVars
  <2>1. clock' \in Nat /\ UNCHANGED <<key, winner, resolved, call, answer, writes, lost>>
    BY <1>8 DEF G!CounterExpires, G!Tick, gatewayVars, GatewayKept, GatewayTypes
  <2>2. QED BY <1>7, <2>1
<1>9. ASSUME NEW x \in OldRoute, NEW w \in Players, G!LegacyResolve(x, w) PROVE GatewayInv'
  <2>1. x \in Matches
    BY ClientsAssumption DEF G!RequestsAssumption
  <2>2. QED BY <1>0, <1>9, <2>1, LegacyInv
<1>10. QED BY <1>1, <1>2, <1>3, <1>4, <1>5, <1>6, <1>8, <1>9 DEF G!Next

\* The invariant is stronger than the properties: a set of owners and writes of
\* which no two differ has at most one member.
LEMMA GatewayInvMeans ==
  ASSUME GatewayInv
  PROVE  AnswersNameTheWinner /\ PendingHasOneOwner
<1> PICK won : GatewayKept(won)
  BY DEF GatewayInv
<1>1. AnswersNameTheWinner
  BY Requested DEF GatewayKept, Settled, AnswersInv, Names, AnswersNameTheWinner,
     G!AnswersNameTheWinner
<1>2. ASSUME NEW h \in G!Hashes
      PROVE  LET owners == {r \in Requests : G!Hash(r) = h /\ call[r].step \in {"settle", "reply"}}
                 coming == {w \in writes : w.hash = h}
             IN  /\ G!Cardinality(owners) + G!Cardinality(coming) <= 1
                 /\ key[h] = G!Pending /\ owners = {} /\ coming = {} => h \in lost.owner
  <2> DEFINE owners == {r \in Requests : G!Hash(r) = h /\ call[r].step \in {"settle", "reply"}}
             coming == {w \in writes : w.hash = h}
  <2>1. \A x : Cardinality({x}) = 1
    BY FS_Singleton
  <2>2. Cardinality({}) = 0
    BY FS_EmptySet
  <2>3. owners = {} \/ \E r : owners = {r}
    BY DEF GatewayKept, KeysInv, Owner
  <2>4. coming = {} \/ \E w : coming = {w}
    BY DEF GatewayKept, KeysInv
  <2>5. owners = {} \/ coming = {}
    BY DEF GatewayKept, KeysInv, Owner
  <2>6. key[h] = G!Pending /\ owners = {} /\ coming = {} => h \in lost.owner
    BY DEF GatewayKept, KeysInv, Owner
  <2> HIDE DEF owners, coming
  <2>7. Cardinality(owners) + Cardinality(coming) <= 1
    <3>1. Cardinality(owners) \in {0, 1} /\ Cardinality(coming) \in {0, 1}
      BY <2>1, <2>2, <2>3, <2>4
    <3>2. Cardinality(owners) = 0 \/ Cardinality(coming) = 0
      BY <2>2, <2>5
    <3>3. QED BY <3>1, <3>2
  <2>8. \A s : G!Cardinality(s) = Cardinality(s)
    BY DEF Cardinality, G!Cardinality, IsFiniteSet, G!IsFiniteSet
  <2>9. QED BY <2>6, <2>7, <2>8 DEF owners, coming
<1>3. QED BY <1>1, <1>2 DEF PendingHasOneOwner, G!PendingHasOneOwner

-----------------------------------------------------------------------------
(* The lists.                                                              *)

ListRows == [id : Nat, at : Nat \ {0}, owner : Users \cup {NoUser}]
ListPages == [items : SUBSET ListRows, next : Nat]

Caches == [pages : Seq(ListPages), fresh : BOOLEAN, known : SUBSET ListRows]
Fetches == [kind : {"none", "next", "all"}, left : Int, pages : Seq(ListPages),
            known : SUBSET ListRows]
Exports == [page : SUBSET ListRows, lacks : SUBSET ListRows]

ListTypes ==
  /\ now \in Nat \ {0} /\ ids \in Nat /\ rows \in SUBSET ListRows
  /\ user \in Users \cup {NoUser} /\ carried \in BOOLEAN
  /\ cache \in Caches /\ fetch \in Fetches /\ export \in Exports

\* Every page goes on below the cursor of those before it.
Falling(ps) ==
  \A i \in DOMAIN ps :
    /\ ps[i].next # 0 => \A r \in ps[i].items : ps[i].next <= r.at
    /\ \A j \in DOMAIN ps : i < j =>
         /\ ps[i].next # 0 /\ ps[j].next < ps[i].next
         /\ \A r \in ps[j].items : r.at < ps[i].next

\* Down to its cursor, ps has all of rs, but rows of the instant of a cursor.
Covers(ps, rs) ==
  ps # <<>> =>
    \A r \in rs : L!NextCursor(ps) <= r.at =>
      r \in L!Shown(ps) \/ \E i \in DOMAIN ps : ps[i].next = r.at

AllOf(rs, u) == \A r \in rs : r.owner = u

\* Pages read for u, when the rows known were made among the first n; unless
\* they were carried over from another user, c.
Told(ps, known, rs, n, u, c) ==
  /\ Falling(ps)
  /\ \A r \in known : r.id <= n
  /\ ~c => Covers(ps, known \cap rs) /\ AllOf(L!Shown(ps), u) /\ AllOf(known, u)

CacheInv ==
  /\ Told(cache.pages, cache.known, rows, ids, user, carried)
  /\ cache = L!NoCache \/ cache.pages # <<>>

FetchInv ==
  /\ Told(fetch.pages, fetch.known, rows, ids, user, carried)
  /\ fetch.pages = <<>> \/ L!NextCursor(fetch.pages) # 0

RowsInv == \A r \in rows : r.id <= ids

ListInv ==
  ListTypes /\ RowsInv /\ CacheInv /\ FetchInv /\ L!ExportLacksOnlyBehindAPage

\* A set of rows that is not empty has an oldest.
LEMMA OldestRow ==
  ASSUME NEW t \in SUBSET ListRows, t # {}
  PROVE  \E r \in t : \A q \in t : r.at <= q.at
<1> DEFINE ats == {r.at : r \in t}
<1>1. ats \in SUBSET Nat /\ ats # {}
  BY DEF ListRows
<1>2. PICK n \in ats : \A m \in ats : ~(<<m, n>> \in OpToRel(<, Nat))
  BY <1>1, NatLessThanWellFounded, WFMin
<1>3. \A m \in ats : ~(m < n)
  BY <1>1, <1>2 DEF OpToRel
<1>4. \A m \in ats : n <= m
  BY <1>1, <1>3
<1>5. PICK r \in t : n = r.at
  BY <1>2
<1>6. QED BY <1>4, <1>5

\* A page: all of s, or n of the newest and the instant of the oldest of them.
LEMMA CutIs ==
  ASSUME NEW s \in SUBSET ListRows, NEW n \in Nat \ {0}, NEW p \in L!Cut(s, n)
  PROVE  /\ p \in ListPages /\ p.items \subseteq s
         /\ p.next = 0 => p.items = s
         /\ p.next # 0 =>
              /\ L!Cardinality(p.items) = n
              /\ \E r \in p.items : p.next = r.at
              /\ \A q \in p.items : p.next <= q.at
              /\ \A r \in s \ p.items : r.at <= p.next
<1>1. CASE L!Cardinality(s) <= n
  <2>1. p = [items |-> s, next |-> 0]
    BY <1>1 DEF L!Cut
  <2>2. QED BY <2>1 DEF ListPages
<1>2. CASE ~(L!Cardinality(s) <= n)
  <2>1. PICK t \in SUBSET s :
          /\ L!Cardinality(t) = n /\ \A r \in t, q \in s \ t : q.at <= r.at
          /\ p = [items |-> t, next |-> (CHOOSE r \in t : \A q \in t : L!Older(r, q)).at]
    BY <1>2 DEF L!Cut, L!Older
  <2>2. t # {}
    <3>1. \A x : L!Cardinality(x) = Cardinality(x)
      BY DEF Cardinality, L!Cardinality, IsFiniteSet, L!IsFiniteSet
    <3>2. QED BY <2>1, <3>1, FS_EmptySet
  <2>3. PICK r \in t : r = (CHOOSE o \in t : \A q \in t : L!Older(o, q)) /\ \A q \in t : r.at <= q.at
    <3>1. \E o \in t : \A q \in t : L!Older(o, q)
      BY <2>2, OldestRow DEF L!Older
    <3>2. QED BY <3>1 DEF L!Older
  <2>4. p.items = t /\ p.next = r.at
    BY <2>1, <2>3
  <2>5. r.at \in Nat \ {0}
    BY DEF ListRows
  <2>6. p \in ListPages
    BY <2>1, <2>3, <2>5 DEF ListPages
  <2>7. QED BY <2>1, <2>3, <2>4, <2>5, <2>6
<1>3. QED BY <1>1, <1>2

\* The limits of a page and of an export.
LEMMA LimitsAre ==
  /\ L!PageLimit(PageSize) \in Nat \ {0}
  /\ L!PageLimit(ExportMax) = MaxPage /\ MaxPage \in Nat \ {0}
  /\ NoUser \notin Users
BY ClientsAssumption DEF L!ListingAssumption, L!PageLimit

\* The pages with one more.
LEMMA Appended ==
  ASSUME NEW ps \in Seq(ListPages), NEW p \in ListPages, NEW got, got = Append(ps, p)
  PROVE  /\ got \in Seq(ListPages) /\ got # <<>> /\ L!NextCursor(got) = p.next
         /\ DOMAIN ps = 1 .. Len(ps) /\ DOMAIN got = 1 .. Len(ps) + 1
         /\ got[Len(ps) + 1] = p /\ \A i \in DOMAIN ps : got[i] = ps[i]
         /\ \A r : r \in L!Shown(got) <=> r \in L!Shown(ps) \/ r \in p.items
         /\ Len(ps) \in Nat
<1>1. /\ got \in Seq(ListPages) /\ got # <<>> /\ Len(got) = Len(ps) + 1
      /\ DOMAIN ps = 1 .. Len(ps) /\ DOMAIN got = 1 .. Len(ps) + 1 /\ Len(ps) \in Nat
      /\ got[Len(ps) + 1] = p /\ \A i \in DOMAIN ps : got[i] = ps[i]
  OBVIOUS
<1>2. L!NextCursor(got) = p.next
  BY <1>1 DEF L!NextCursor
<1>3. \A x : x \in L!Shown(got) <=> \E i \in 1 .. Len(ps) + 1 : x \in got[i].items
  BY <1>1 DEF L!Shown
<1>4. \A x : x \in L!Shown(ps) <=> \E i \in 1 .. Len(ps) : x \in ps[i].items
  BY <1>1 DEF L!Shown
<1>5. \A r : r \in L!Shown(got) <=> r \in L!Shown(ps) \/ r \in p.items
  BY <1>1, <1>3, <1>4
<1>6. QED BY <1>1, <1>2, <1>5

\* A page below the cursor.
LEMMA FallingOn ==
  ASSUME NEW ps \in Seq(ListPages), Falling(ps), NEW p \in ListPages,
         ps # <<>> => L!NextCursor(ps) # 0 /\ p.next < L!NextCursor(ps)
                      /\ \A r \in p.items : r.at < L!NextCursor(ps),
         p.next # 0 => \A r \in p.items : p.next <= r.at,
         NEW got, got = Append(ps, p)
  PROVE  Falling(got)
<1> DEFINE n == Len(ps)
<1>1. /\ n \in Nat /\ DOMAIN ps = 1 .. n /\ DOMAIN got = 1 .. n + 1
      /\ got[n + 1] = p /\ \A i \in 1 .. n : got[i] = ps[i]
  BY Appended
<1>2. ps # <<>> <=> n # 0
  OBVIOUS
<1>3. n # 0 => L!NextCursor(ps) = ps[n].next
  BY DEF L!NextCursor
<1>4. \A i \in 1 .. n : ps[i] \in ListPages
  OBVIOUS
<1> HIDE DEF n
<1>5. ASSUME NEW i \in 1 .. n PROVE ps[i].next # 0 /\ ps[n].next <= ps[i].next
  <2>1. i = n \/ i < n
    BY <1>1
  <2>2. n \in 1 .. n /\ ps[n].next \in Nat /\ ps[i].next \in Nat
    BY <1>1, <1>4 DEF ListPages
  <2>3. i < n => ps[i].next # 0 /\ ps[n].next < ps[i].next
    BY <1>1, <2>2 DEF Falling
  <2>4. ps[n].next # 0
    BY <1>1, <1>2, <1>3
  <2>5. QED BY <2>1, <2>2, <2>3, <2>4
<1>6. ASSUME NEW i \in 1 .. n + 1
      PROVE  got[i].next # 0 => \A r \in got[i].items : got[i].next <= r.at
  BY <1>1 DEF Falling
<1>7. ASSUME NEW i \in 1 .. n + 1, NEW j \in 1 .. n + 1, i < j
      PROVE  /\ got[i].next # 0 /\ got[j].next < got[i].next
             /\ \A r \in got[j].items : r.at < got[i].next
  <2>1. i \in 1 .. n /\ got[i] = ps[i]
    BY <1>1, <1>7
  <2>2. CASE j \in 1 .. n
    BY <1>1, <1>7, <2>1, <2>2 DEF Falling
  <2>3. CASE j = n + 1
    <3>1. got[j] = p /\ ps[n].next # 0 /\ p.next < ps[n].next /\ \A r \in p.items : r.at < ps[n].next
      BY <1>1, <1>2, <1>3, <2>1, <2>3
    <3>2. ps[n].next <= ps[i].next /\ ps[i].next # 0 /\ ps[i].next \in Nat /\ ps[n].next \in Nat /\ p.next \in Nat
      BY <1>1, <1>4, <1>5, <2>1 DEF ListPages
    <3>3. \A r \in p.items : r.at \in Nat
      BY DEF ListPages, ListRows
    <3>4. PICK c \in Nat, d \in Nat : c = ps[n].next /\ d = ps[i].next
      BY <3>2
    <3>5. d # 0 /\ c <= d /\ p.next \in Nat /\ p.next < c
      BY <3>1, <3>2, <3>4
    <3>6. p.next < d
      BY <3>4, <3>5
    <3>7. ASSUME NEW r \in p.items
          PROVE  r.at < d
      <4>1. PICK a \in Nat : a = r.at
        BY <3>3
      <4>2. a < c
        BY <3>1, <3>4, <4>1
      <4>3. a < d
        BY ONLY <3>5, <4>2, a \in Nat, c \in Nat, d \in Nat
      <4>4. QED BY <4>1, <4>3
    <3>8. QED BY <2>1, <3>1, <3>4, <3>5, <3>6, <3>7
  <2>4. QED BY <1>1, <2>2, <2>3
<1>8. QED BY <1>1, <1>6, <1>7 DEF Falling

\* A page of what is below the cursor.
LEMMA CoversOn ==
  ASSUME NEW ps \in Seq(ListPages), NEW rs \in SUBSET ListRows, Covers(ps, rs),
         NEW p \in ListPages,
         \A r \in rs : ps = <<>> \/ r.at < L!NextCursor(ps) =>
           r \in p.items \/ (p.next # 0 /\ r.at <= p.next),
         NEW got, got = Append(ps, p)
  PROVE  Covers(got, rs)
<1>0. L!NextCursor(got) = p.next
  <2>1. Len(got) = Len(ps) + 1 /\ got[Len(ps) + 1] = p
    OBVIOUS
  <2>2. QED BY <2>1 DEF L!NextCursor
<1>1. \A r : r \in L!Shown(got) <=> r \in L!Shown(ps) \/ r \in p.items
  BY Appended
<1>6. /\ DOMAIN ps = 1 .. Len(ps) /\ DOMAIN got = 1 .. Len(ps) + 1 /\ Len(ps) \in Nat
      /\ got # <<>> /\ got[Len(ps) + 1] = p /\ \A i \in DOMAIN ps : got[i] = ps[i]
  OBVIOUS
<1> SUFFICES ASSUME NEW r \in rs, L!NextCursor(got) <= r.at
             PROVE  r \in L!Shown(got) \/ \E i \in DOMAIN got : got[i].next = r.at
  BY DEF Covers
<1>2. r.at \in Nat /\ p.next \in Nat
  BY DEF ListRows, ListPages
<1>3. CASE ps = <<>> \/ r.at < L!NextCursor(ps)
  <2>1. r \in p.items \/ r.at = p.next
    BY <1>0, <1>2, <1>3
  <2>2. QED BY <1>1, <1>6, <2>1
<1>4. CASE ps # <<>> /\ ~(r.at < L!NextCursor(ps))
  <2>1. L!NextCursor(ps) \in Nat
    <3>1. Len(ps) \in DOMAIN ps
      BY <1>4
    <3>2. ps[Len(ps)] \in ListPages
      BY <3>1
    <3>3. QED BY <3>2 DEF L!NextCursor, ListPages
  <2>2. L!NextCursor(ps) <= r.at
    BY <1>2, <1>4, <2>1
  <2>3. r \in L!Shown(ps) \/ \E i \in DOMAIN ps : ps[i].next = r.at
    BY <1>4, <2>2 DEF Covers
  <2>4. QED BY <1>1, <1>6, <2>3
<1>5. QED BY <1>3, <1>4

\* No page yet.
LEMMA NoPages ==
  /\ \A rs, n, u, c : Told(<<>>, {}, rs, n, u, c)
  /\ L!NoCache \in Caches /\ L!NoCache.pages = <<>> /\ L!NoCache.known = {}
  /\ L!Idle \in Fetches /\ L!Idle.pages = <<>> /\ L!Idle.known = {}
<1>1. <<>> \in Seq(ListPages) /\ DOMAIN <<>> = {}
  OBVIOUS
<1>2. L!Shown(<<>>) = {}
  BY <1>1 DEF L!Shown
<1>3. (\A rs : Covers(<<>>, rs)) /\ Falling(<<>>)
  BY <1>1 DEF Covers, Falling
<1>4. \A rs, n, u, c : Told(<<>>, {}, rs, n, u, c)
  BY <1>2, <1>3 DEF Told, AllOf
<1>5. QED BY <1>1, <1>4 DEF L!NoCache, L!Idle, Caches, Fetches

\* Other rows, none of them known.
LEMMA ToldStill ==
  ASSUME NEW ps, NEW known \in SUBSET ListRows, NEW rs, NEW n \in Nat, NEW u, NEW c, Told(ps, known, rs, n, u, c),
         NEW ts, NEW m \in Nat, known \cap ts \subseteq known \cap rs, n <= m
  PROVE  Told(ps, known, ts, m, u, c)
<1>1. \A r \in known : r.id <= m
  <2>1. \A r \in known : r.id \in Nat /\ r.id <= n
    BY DEF Told, ListRows
  <2>2. QED BY <2>1
<1>2. Covers(ps, known \cap rs) => Covers(ps, known \cap ts)
  BY DEF Covers
<1>3. QED BY <1>1, <1>2 DEF Told

\* The next page of a fetch.
LEMMA PageRead ==
  ASSUME ListInv,
         NEW cur, cur = IF fetch.pages = <<>> THEN 0 ELSE L!NextCursor(fetch.pages),
         NEW p \in L!PageOf(user, cur, PageSize),
         NEW got, got = Append(fetch.pages, p),
         NEW known, known = IF fetch.pages = <<>> THEN L!Known(user) ELSE fetch.known
  PROVE  /\ got \in Seq(ListPages) /\ got # <<>> /\ L!NextCursor(got) = p.next
         /\ known \in SUBSET ListRows /\ Told(got, known, rows, ids, user, carried)
<1> DEFINE s == {r \in L!Known(user) : cur = 0 \/ r.at < cur}
           ps == fetch.pages
<1>1. /\ rows \in SUBSET ListRows /\ ps \in Seq(ListPages) /\ fetch.known \in SUBSET ListRows
      /\ \A r \in rows \cup fetch.known : r.id <= ids
      /\ Falling(ps) /\ (ps = <<>> \/ L!NextCursor(ps) # 0)
      /\ ~carried => Covers(ps, fetch.known \cap rows) /\ AllOf(L!Shown(ps), user) /\ AllOf(fetch.known, user)
  BY DEF ListInv, ListTypes, Fetches, RowsInv, FetchInv, Told
<1>2. s \in SUBSET ListRows /\ \A r \in s : r.owner = user /\ (cur = 0 \/ r.at < cur)
  BY <1>1 DEF L!Known
<1>3. p \in L!Cut(s, L!PageLimit(PageSize))
  BY DEF L!PageOf
<1>4. /\ p \in ListPages /\ p.items \subseteq s
      /\ p.next = 0 => p.items = s
      /\ p.next # 0 => /\ \E r \in p.items : p.next = r.at
                       /\ \A q \in p.items : p.next <= q.at
                       /\ \A r \in s \ p.items : r.at <= p.next
  <2> DEFINE n == L!PageLimit(PageSize)
  <2>1. n \in Nat \ {0} /\ s \in SUBSET ListRows /\ p \in L!Cut(s, n)
    BY <1>2, <1>3, LimitsAre
  <2> HIDE DEF n, s
  <2>2. QED BY ONLY <2>1, CutIs
<1>5. p.next \in Nat
  BY <1>4 DEF ListPages
<1>6. cur \in Nat /\ (ps # <<>> => cur = L!NextCursor(ps) /\ cur # 0)
  <2>1. CASE ps = <<>>
    BY <2>1
  <2>2. CASE ps # <<>>
    <3>1. Len(ps) \in DOMAIN ps
      BY <1>1, <2>2
    <3>2. ps[Len(ps)] \in ListPages
      BY <1>1, <3>1
    <3>3. QED BY <1>1, <2>2, <3>2 DEF L!NextCursor, ListPages
  <2>3. QED BY <2>1, <2>2
<1>7. ps # <<>> => p.next < cur /\ \A r \in p.items : r.at < cur
  BY <1>2, <1>4, <1>5, <1>6
<1>8. got \in Seq(ListPages) /\ got # <<>> /\ L!NextCursor(got) = p.next
  <2>1. got \in Seq(ListPages) /\ got # <<>> /\ Len(got) = Len(ps) + 1 /\ got[Len(ps) + 1] = p
    BY <1>1, <1>4
  <2>2. QED BY <2>1 DEF L!NextCursor
<1>9. Falling(got)
  <2> HIDE DEF s, ps
  <2>1. got = Append(ps, p)
    BY DEF ps
  <2>2. QED BY <1>1, <1>4, <1>6, <1>7, <2>1, FallingOn
<1>10. known \in SUBSET ListRows /\ \A r \in known : r.id <= ids
  BY <1>1 DEF L!Known
<1>11. ASSUME ~carried PROVE Covers(got, known \cap rows) /\ AllOf(L!Shown(got), user) /\ AllOf(known, user)
  <2>1. AllOf(known, user)
    BY <1>1, <1>11 DEF AllOf, L!Known
  <2>2. AllOf(L!Shown(got), user)
    <3>1. \A r : r \in L!Shown(got) <=> r \in L!Shown(ps) \/ r \in p.items
      <4> HIDE DEF s, ps
      <4>1. got = Append(ps, p)
        BY DEF ps
      <4>2. QED BY <1>1, <1>4, <4>1, Appended
    <3>2. QED BY <1>1, <1>2, <1>4, <1>11, <3>1 DEF AllOf
  <2>3. Covers(ps, known \cap rows)
    BY <1>1, <1>11 DEF Covers
  <2>4. ASSUME NEW r \in known \cap rows, ps = <<>> \/ r.at < L!NextCursor(ps)
        PROVE  r \in p.items \/ (p.next # 0 /\ r.at <= p.next)
    <3>1. r \in s
      <4>1. r \in rows /\ r.owner = user
        BY <2>1 DEF AllOf
      <4>2. cur = 0 \/ r.at < cur
        BY <1>6, <2>4
      <4>3. QED BY <4>1, <4>2 DEF L!Known
    <3>2. QED BY <1>4, <3>1
  <2>5. Covers(got, known \cap rows)
    <3>1. got = Append(ps, p) /\ known \cap rows \in SUBSET ListRows
      BY <1>10
    <3> HIDE DEF s, ps
    <3>2. QED BY <1>1, <1>4, <2>3, <2>4, <3>1, CoversOn
  <2>6. QED BY <2>1, <2>2, <2>5
<1>12. QED BY <1>8, <1>9, <1>10, <1>11 DEF Told

\* A new row is none of those known.
LEMMA Inserted ==
  ASSUME ListInv, NEW u \in Users \cup {NoUser}, L!Insert(u)
  PROVE  /\ rows' \in SUBSET ListRows /\ ids' \in Nat /\ RowsInv'
         /\ Told(cache.pages, cache.known, rows', ids', user, carried)
         /\ Told(fetch.pages, fetch.known, rows', ids', user, carried)
<1>1. PICK n : n = [id |-> ids + 1, at |-> now, owner |-> u]
  OBVIOUS
<1>2. rows' = rows \cup {n} /\ ids' = ids + 1
  BY <1>1 DEF L!Insert
<1>3. ids \in Nat /\ now \in Nat \ {0} /\ rows \in SUBSET ListRows
  BY DEF ListInv, ListTypes
<1>4. n \in ListRows /\ n.id = ids + 1
  BY <1>1, <1>3 DEF ListRows
<1>5. \A r \in ListRows : r.id \in Nat
  BY DEF ListRows
<1>6. \A r \in cache.known \cup fetch.known : r.id <= ids
  BY DEF ListInv, CacheInv, FetchInv, Told
<1>7. n \notin cache.known \cup fetch.known
  BY <1>3, <1>4, <1>6
<1>8. RowsInv'
  BY <1>2, <1>3, <1>4, <1>5 DEF ListInv, RowsInv
<1>9. cache.known \in SUBSET ListRows /\ fetch.known \in SUBSET ListRows
  BY DEF ListInv, ListTypes, Caches, Fetches
<1>10. ids <= ids' /\ ids' \in Nat
  BY <1>2, <1>3
<1>11. Told(cache.pages, cache.known, rows', ids', user, carried)
  <2>1. cache.known \cap rows' \subseteq cache.known \cap rows
    BY <1>2, <1>7
  <2>2. QED BY <1>3, <1>9, <1>10, <2>1, ToldStill DEF ListInv, CacheInv
<1>12. Told(fetch.pages, fetch.known, rows', ids', user, carried)
  <2>1. fetch.known \cap rows' \subseteq fetch.known \cap rows
    BY <1>2, <1>7
  <2>2. QED BY <1>3, <1>9, <1>10, <2>1, ToldStill DEF ListInv, FetchInv
<1>13. QED BY <1>2, <1>3, <1>4, <1>8, <1>10, <1>11, <1>12

\* A query that asks for everything again.
LEMMA RefetchIs ==
  ASSUME ListInv
  PROVE  L!Refetch \in Fetches /\ L!Refetch.pages = <<>> /\ L!Refetch.known = {}
<1>1. Len(cache.pages) \in Int
  BY DEF ListInv, ListTypes, Caches
<1>2. PICK n : n = IF cache = L!NoCache THEN 1 ELSE Len(cache.pages)
  OBVIOUS
<1>3. n \in Int
  BY <1>1, <1>2
<1>4. L!Refetch = [L!Idle EXCEPT !.kind = "all", !.left = n]
  BY <1>2 DEF L!Refetch
<1>5. QED BY <1>3, <1>4, NoPages DEF Fetches

LEMMA ListInvInit == L!Init => ListInv
<1> SUFFICES ASSUME L!Init PROVE ListInv
  OBVIOUS
<1>1. /\ now = 1 /\ rows = {} /\ ids = 0 /\ user \in Users /\ carried = FALSE
      /\ cache = L!NoCache /\ fetch = L!Idle
      /\ export \in Exports /\ export.lacks = {}
  BY DEF L!Init, L!NoExport, Exports
<1>2. ListTypes
  <2>1. cache \in Caches /\ fetch \in Fetches
    BY <1>1, NoPages
  <2>2. now \in Nat \ {0} /\ ids \in Nat
    BY <1>1
  <2>3. rows \in SUBSET ListRows
    BY <1>1
  <2>4. carried \in BOOLEAN
    BY <1>1
  <2>5. QED BY <1>1, <2>1, <2>2, <2>3, <2>4 DEF ListTypes
<1>3. RowsInv /\ CacheInv /\ FetchInv
  BY <1>1, NoPages DEF RowsInv, CacheInv, FetchInv
<1>4. L!ExportLacksOnlyBehindAPage
  BY <1>1 DEF L!ExportLacksOnlyBehindAPage
<1>5. QED BY <1>2, <1>3, <1>4 DEF ListInv

\* A page takes its place below the pages before it, whatever happens to the
\* rows in between.
LEMMA ListInvNext == ListInv /\ [L!Next]_listVars => ListInv'
<1> SUFFICES ASSUME ListInv, [L!Next]_listVars PROVE ListInv'
  OBVIOUS
<1>t. ListTypes /\ RowsInv /\ CacheInv /\ FetchInv
  BY DEF ListInv
<1>e. UNCHANGED export => (L!ExportLacksOnlyBehindAPage)'
  BY DEF ListInv, L!ExportLacksOnlyBehindAPage, L!Older
<1>c. UNCHANGED <<rows, ids, user, cache, carried>> => CacheInv'
  BY <1>t DEF CacheInv
<1>f. UNCHANGED <<rows, ids, user, fetch, carried>> => FetchInv'
  BY <1>t DEF FetchInv
<1>r. UNCHANGED <<rows, ids>> => RowsInv'
  BY <1>t DEF RowsInv
<1>i. fetch'.pages = <<>> /\ fetch'.known = {} => FetchInv'
  BY NoPages DEF FetchInv
<1>1. ASSUME NEW u \in Users, L!RemoteInsert(u) PROVE ListInv'
  <2>1. L!Insert(u) /\ UNCHANGED <<now, user, cache, fetch, carried, export>>
    BY <1>1 DEF L!RemoteInsert
  <2>2. u \in Users \cup {NoUser}
    OBVIOUS
  <2>3. ListTypes' /\ RowsInv'
    BY <1>t, <2>1, <2>2, Inserted DEF ListTypes
  <2>4. CacheInv' /\ FetchInv'
    BY <1>t, <2>1, <2>2, Inserted DEF CacheInv, FetchInv
  <2>5. QED BY <1>e, <2>1, <2>3, <2>4 DEF ListInv
<1>2. ASSUME NEW r \in rows, L!RemoteDelete(r) PROVE ListInv'
  <2>1. rows' = rows \ {r} /\ UNCHANGED <<now, ids, user, cache, fetch, carried, export>>
    BY <1>2 DEF L!RemoteDelete
  <2>2. ListTypes' /\ RowsInv'
    BY <1>t, <2>1 DEF ListTypes, RowsInv
  <2>3. cache.known \in SUBSET ListRows /\ fetch.known \in SUBSET ListRows /\ ids \in Nat /\ ids <= ids
    BY <1>t DEF ListTypes, Caches, Fetches
  <2>4. CacheInv'
    <3>1. Told(cache.pages, cache.known, rows', ids, user, carried)
      <4>1. cache.known \cap rows' \subseteq cache.known \cap rows
        BY <2>1
      <4>2. QED BY <1>t, <2>3, <4>1, ToldStill DEF CacheInv
    <3>2. QED BY <1>t, <2>1, <3>1 DEF CacheInv
  <2>5. FetchInv'
    <3>1. Told(fetch.pages, fetch.known, rows', ids, user, carried)
      <4>1. fetch.known \cap rows' \subseteq fetch.known \cap rows
        BY <2>1
      <4>2. QED BY <1>t, <2>3, <4>1, ToldStill DEF FetchInv
    <3>2. QED BY <1>t, <2>1, <3>1 DEF FetchInv
  <2>6. QED BY <1>e, <2>1, <2>2, <2>4, <2>5 DEF ListInv
<1>3. CASE L!Tick
  <2>1. now' = now + 1 /\ UNCHANGED <<rows, ids, user, cache, fetch, carried, export>>
    BY <1>3 DEF L!Tick
  <2>2. ListTypes'
    BY <1>t, <2>1 DEF ListTypes
  <2>3. QED BY <1>e, <1>c, <1>f, <1>r, <2>1, <2>2 DEF ListInv
<1>4. CASE L!Open
  <2>1. fetch' \in {fetch, L!Refetch} /\ UNCHANGED <<now, rows, ids, user, cache, carried, export>>
    BY <1>4 DEF L!Open
  <2>2. ListTypes' /\ FetchInv'
    BY <1>t, <1>f, <1>i, <2>1, RefetchIs DEF ListTypes
  <2>3. QED BY <1>e, <1>c, <1>r, <2>1, <2>2 DEF ListInv
<1>5. CASE L!Leave
  <2>1. UNCHANGED <<now, rows, ids, user, cache, fetch, carried, export>>
    BY <1>5 DEF L!Leave
  <2>2. ListTypes'
    BY <1>t, <2>1 DEF ListTypes
  <2>3. QED BY <1>e, <1>c, <1>f, <1>r, <2>1, <2>2 DEF ListInv
<1>6. CASE L!LoadMore
  <2>1. /\ fetch' = [kind |-> "next", left |-> 1, pages |-> cache.pages, known |-> cache.known]
        /\ L!NextCursor(cache.pages) # 0
        /\ UNCHANGED <<now, rows, ids, user, cache, carried, export>>
    BY <1>6 DEF L!LoadMore
  <2>2. ListTypes'
    BY <1>t, <2>1 DEF ListTypes, Caches, Fetches
  <2>3. FetchInv'
    BY <1>t, <2>1 DEF CacheInv, FetchInv
  <2>4. QED BY <1>e, <1>c, <1>r, <2>1, <2>2, <2>3 DEF ListInv
<1>7. CASE L!FetchPage
  <2>1. PICK cur : cur = IF fetch.pages = <<>> THEN 0 ELSE L!NextCursor(fetch.pages)
    OBVIOUS
  <2>2. PICK known : known = IF fetch.pages = <<>> THEN L!Known(user) ELSE fetch.known
    OBVIOUS
  <2>3. PICK p \in L!PageOf(user, cur, PageSize) :
          \/ /\ cache' = [pages |-> Append(fetch.pages, p), fresh |-> TRUE, known |-> known]
             /\ fetch' = L!Idle
          \/ /\ p.next # 0
             /\ fetch' = [fetch EXCEPT !.left = @ - 1, !.pages = Append(fetch.pages, p), !.known = known]
             /\ UNCHANGED cache
    BY <1>7, <2>1, <2>2 DEF L!FetchPage
  <2>4. PICK got : got = Append(fetch.pages, p)
    OBVIOUS
  <2>5. UNCHANGED <<now, rows, ids, user, carried, export>>
    BY <1>7 DEF L!FetchPage
  <2>6. /\ got \in Seq(ListPages) /\ got # <<>> /\ L!NextCursor(got) = p.next
        /\ known \in SUBSET ListRows /\ Told(got, known, rows, ids, user, carried)
    BY <2>1, <2>2, <2>4, PageRead
  <2>7. CASE cache' = [pages |-> got, fresh |-> TRUE, known |-> known] /\ fetch' = L!Idle
    <3>1. cache' \in Caches /\ cache'.pages = got /\ cache'.known = known
      BY <2>6, <2>7 DEF Caches
    <3>2. CacheInv'
      BY <2>5, <2>6, <3>1 DEF CacheInv
    <3>3. ListTypes' /\ FetchInv'
      BY <1>t, <1>i, <2>5, <2>7, <3>1, NoPages DEF ListTypes
    <3>4. QED BY <1>e, <1>r, <2>5, <3>2, <3>3 DEF ListInv
  <2>8. CASE /\ p.next # 0 /\ UNCHANGED cache
             /\ fetch' = [fetch EXCEPT !.left = @ - 1, !.pages = got, !.known = known]
    <3>1. fetch' \in Fetches /\ fetch'.pages = got /\ fetch'.known = known
      <4>1. fetch \in Fetches
        BY <1>t DEF ListTypes
      <4>2. PICK n : n = fetch.left - 1
        OBVIOUS
      <4>3. n \in Int
        BY <4>1, <4>2 DEF Fetches
      <4>4. fetch' = [fetch EXCEPT !.left = n, !.pages = got, !.known = known]
        BY <2>8, <4>2
      <4>5. QED BY <2>6, <4>1, <4>3, <4>4 DEF Fetches
    <3>2. FetchInv'
      BY <2>5, <2>6, <2>8, <3>1 DEF FetchInv
    <3>3. ListTypes'
      BY <1>t, <2>5, <2>8, <3>1 DEF ListTypes
    <3>4. QED BY <1>c, <1>e, <1>r, <2>5, <2>8, <3>2, <3>3 DEF ListInv
  <2>9. QED BY <2>3, <2>4, <2>7, <2>8
<1>8. CASE L!FetchFails
  <2>1. fetch' = L!Idle /\ UNCHANGED <<now, rows, ids, user, cache, carried, export>>
    BY <1>8 DEF L!FetchFails
  <2>2. ListTypes' /\ FetchInv'
    BY <1>t, <1>i, <2>1, NoPages DEF ListTypes
  <2>3. QED BY <1>e, <1>c, <1>r, <2>1, <2>2 DEF ListInv
<1>9. CASE L!Ages
  <2>1. /\ cache' = [cache EXCEPT !.fresh = FALSE] /\ cache.fresh
        /\ UNCHANGED <<now, rows, ids, user, fetch, carried, export>>
    BY <1>9 DEF L!Ages
  <2>2. cache' \in Caches /\ cache'.pages = cache.pages /\ cache'.known = cache.known
    BY <1>t, <2>1 DEF ListTypes, Caches
  <2>3. cache # L!NoCache
    BY <2>1 DEF L!NoCache
  <2>4. ListTypes' /\ CacheInv'
    BY <1>t, <2>1, <2>2, <2>3 DEF ListTypes, CacheInv
  <2>5. QED BY <1>e, <1>f, <1>r, <2>1, <2>4 DEF ListInv
<1>10. CASE L!Collected
  <2>1. /\ fetch = L!Idle /\ cache' = L!NoCache /\ carried' = FALSE
        /\ UNCHANGED <<now, rows, ids, user, fetch, export>>
    BY <1>10 DEF L!Collected
  <2>2. ListTypes' /\ FetchInv' /\ CacheInv'
    BY <1>t, <1>i, <2>1, NoPages DEF ListTypes, CacheInv
  <2>3. QED BY <1>e, <1>r, <2>1, <2>2 DEF ListInv
<1>11. CASE L!Create
  <2>1. /\ L!Insert(user) /\ UNCHANGED <<now, user, carried, export>>
        /\ \/ UNCHANGED <<cache, fetch>>
           \/ cache' = [cache EXCEPT !.fresh = FALSE] /\ fetch' = L!Refetch
    BY <1>11 DEF L!Create
  <2>2. cache' \in Caches /\ cache'.pages = cache.pages /\ cache'.known = cache.known
    BY <1>t, <2>1 DEF ListTypes, Caches
  <2>3. cache = L!NoCache => cache' = L!NoCache
    BY <2>1 DEF L!NoCache
  <2>4. user \in Users \cup {NoUser}
    BY <1>t DEF ListTypes
  <2>5. CacheInv' /\ RowsInv'
    BY <1>t, <2>1, <2>2, <2>3, <2>4, Inserted DEF CacheInv
  <2>6. ListTypes'
    BY <1>t, <2>1, <2>2, <2>4, Inserted, RefetchIs DEF ListTypes
  <2>7. FetchInv'
    <3>1. CASE UNCHANGED fetch
      BY <1>t, <2>1, <2>4, <3>1, Inserted DEF FetchInv
    <3>2. CASE fetch' = L!Refetch
      BY <1>i, <3>2, RefetchIs
    <3>3. QED BY <2>1, <3>1, <3>2
  <2>8. QED BY <1>e, <2>1, <2>5, <2>6, <2>7 DEF ListInv
<1>12. ASSUME NEW from, NEW to, L!Export(from, to) PROVE ListInv'
  <2>1. PICK p \in L!PageOf(user, 0, ExportMax) :
          export' = [page |-> p.items,
                     lacks |-> {r \in L!Known(user) : L!Within(r, from, to)} \ p.items]
    BY <1>12 DEF L!Export
  <2>2. UNCHANGED <<now, rows, ids, user, cache, fetch, carried>>
    BY <1>12 DEF L!Export
  <2>3. PICK s : s = {r \in L!Known(user) : 0 = 0 \/ r.at < 0}
    OBVIOUS
  <2>4. s \in SUBSET ListRows /\ L!Known(user) \subseteq s
    BY <1>t, <2>3 DEF L!Known, ListTypes
  <2>5. p \in L!Cut(s, MaxPage) /\ MaxPage \in Nat \ {0}
    BY <2>1, <2>3, LimitsAre DEF L!PageOf
  <2>6. /\ p \in ListPages /\ p.items \subseteq s
        /\ p.next = 0 => p.items = s
        /\ p.next # 0 => /\ L!Cardinality(p.items) = MaxPage
                         /\ \A q \in p.items : p.next <= q.at
                         /\ \A r \in s \ p.items : r.at <= p.next
    BY <2>4, <2>5, CutIs
  <2>7. ASSUME NEW r \in export'.lacks
        PROVE  L!Cardinality({q \in export'.page : L!Older(r, q)}) = MaxPage
    <3>1. r \in s \ p.items /\ export'.page = p.items
      BY <2>1, <2>4, <2>7
    <3>2. p.next # 0
      BY <2>6, <3>1
    <3>3. \A q \in p.items : r.at <= q.at
      <4>1. r.at \in Nat /\ p.next \in Nat /\ \A q \in p.items : q.at \in Nat
        BY <2>4, <2>6, <3>1 DEF ListRows, ListPages
      <4>2. QED BY <2>6, <3>1, <3>2, <4>1
    <3>4. {q \in export'.page : L!Older(r, q)} = p.items
      BY <3>1, <3>3 DEF L!Older
    <3>5. QED BY <2>6, <3>2, <3>4
  <2>8. (L!ExportLacksOnlyBehindAPage)'
    BY <2>7 DEF L!ExportLacksOnlyBehindAPage, L!Older
  <2>9. export' \in Exports
    BY <2>1, <2>4, <2>6 DEF Exports
  <2>10. ListTypes'
    BY <1>t, <2>2, <2>9 DEF ListTypes
  <2>11. QED BY <1>c, <1>f, <1>r, <2>2, <2>8, <2>10 DEF ListInv
<1>13. ASSUME NEW u \in Users \cup {NoUser}, L!ChangeUser(u) PROVE ListInv'
  <2>1. /\ user' = u /\ UNCHANGED <<now, rows, ids, cache, fetch, export>>
        /\ carried' = (carried \/ cache # L!NoCache \/ fetch # L!Idle)
    BY <1>13 DEF L!ChangeUser
  <2>2. ListTypes'
    BY <1>t, <2>1 DEF ListTypes
  <2>3. CASE ~carried'
    <3>1. cache' = L!NoCache /\ fetch' = L!Idle
      BY <2>1, <2>3
    <3>2. CacheInv' /\ FetchInv'
      BY <1>i, <3>1, NoPages DEF CacheInv
    <3>3. QED BY <1>e, <1>r, <2>1, <2>2, <3>2 DEF ListInv
  <2>4. CASE carried'
    <3>1. CacheInv'
      BY <1>t, <2>1, <2>4 DEF CacheInv, Told
    <3>2. FetchInv'
      BY <1>t, <2>1, <2>4 DEF FetchInv, Told
    <3>3. QED BY <1>e, <1>r, <2>1, <2>2, <3>1, <3>2 DEF ListInv
  <2>5. QED BY <2>3, <2>4
<1>14. CASE UNCHANGED listVars
  <2>1. UNCHANGED <<now, rows, ids, user, cache, fetch, carried, export>>
    BY <1>14 DEF listVars
  <2>2. ListTypes'
    BY <1>t, <2>1 DEF ListTypes
  <2>3. QED BY <1>e, <1>c, <1>f, <1>r, <2>1, <2>2 DEF ListInv
<1>15. QED BY <1>1, <1>2, <1>3, <1>4, <1>5, <1>6, <1>7, <1>8, <1>9, <1>10,
              <1>11, <1>12, <1>13, <1>14 DEF L!Next

\* Falling pages share no row, and pages that cover what was known leave nothing out.
LEMMA ListInvMeans == ListInv => ListIsExplained
<1> SUFFICES ASSUME ListInv PROVE ListIsExplained
  OBVIOUS
<1>1. /\ cache.pages \in Seq(ListPages) /\ rows \in SUBSET ListRows
      /\ Told(cache.pages, cache.known, rows, ids, user, carried)
      /\ cache = L!NoCache \/ cache.pages # <<>>
  BY DEF ListInv, ListTypes, Caches, CacheInv
<1>2. L!ListedOnce
  <2> SUFFICES ASSUME NEW i \in DOMAIN cache.pages, NEW j \in DOMAIN cache.pages, i # j,
                      NEW r, r \in cache.pages[i].items, r \in cache.pages[j].items
               PROVE  FALSE
    BY DEF L!ListedOnce
  <2>1. i \in Nat /\ j \in Nat /\ cache.pages[i] \in ListPages /\ cache.pages[j] \in ListPages
    BY <1>1
  <2>2. r.at \in Nat /\ cache.pages[i].next \in Nat /\ cache.pages[j].next \in Nat
    BY <2>1 DEF ListPages, ListRows
  <2>3. Falling(cache.pages)
    BY <1>1 DEF Told
  <2>4. CASE i < j
    BY <2>2, <2>3, <2>4 DEF Falling
  <2>5. CASE j < i
    BY <2>2, <2>3, <2>5 DEF Falling
  <2>6. QED BY <2>1, <2>4, <2>5
<1>3. L!NoneMissing
  <2> SUFFICES ASSUME cache # L!NoCache, ~carried, L!NextCursor(cache.pages) = 0,
                      NEW r \in cache.known \cap rows
               PROVE  r \in L!Shown(cache.pages) \/ \E i \in DOMAIN cache.pages : cache.pages[i].next = r.at
    BY DEF L!NoneMissing
  <2>1. Covers(cache.pages, cache.known \cap rows) /\ cache.pages # <<>>
    BY <1>1 DEF Told
  <2>2. 0 <= r.at
    BY <1>1 DEF ListRows
  <2>3. QED BY <2>1, <2>2 DEF Covers
<1>4. L!OwnRows
  BY <1>1 DEF Told, AllOf, L!OwnRows
<1>5. QED BY <1>2, <1>3, <1>4 DEF ListInv, ListIsExplained, L!ListIsExplained

-----------------------------------------------------------------------------
(* The session of a tab: its forms.                                        *)

TabPages == {"home", "login", "psp", "dashboard", "tournaments", "create", "trade",
             "admin", "keys"}
TabCalls == [kind : {"load", "form"}, page : TabPages, step : Nat, session : Nat,
             mounted : BOOLEAN, sent : BOOLEAN]

\* Forms that have not taken effect and whose page has gone.
Adrift(fs) == {c \in fs : ~c.mounted /\ ~c.sent}

\* The player knows of one effect, or is about to.
Knows(fs, t) == t = "done" \/ \E c \in fs : c.mounted /\ c.sent

\* One form at a time is on the screen, none after the player was told; and what
\* took effect or still may was not seen, but for one.
FormsOK(fs, t, e, u) ==
  /\ \A c, d \in fs : c.mounted /\ d.mounted => c = d
  /\ t = "done" => \A c \in fs : ~c.mounted
  /\ e + Cardinality(Adrift(fs)) <= u + (IF Knows(fs, t) THEN 1 ELSE 0)

\* A set of forms, and the forms on the screen and adrift among them.
LEMMA Counted ==
  ASSUME NEW fs, IsFiniteSet(fs)
  PROVE  /\ IsFiniteSet(Adrift(fs)) /\ Cardinality(Adrift(fs)) \in Nat
         /\ \A gs \in SUBSET fs : IsFiniteSet(gs) /\ Cardinality(Adrift(gs)) \in Nat
                                  /\ Cardinality(Adrift(gs)) <= Cardinality(Adrift(fs))
<1>1. Adrift(fs) \in SUBSET fs
  BY DEF Adrift
<1>2. IsFiniteSet(Adrift(fs)) /\ Cardinality(Adrift(fs)) \in Nat
  BY <1>1, FS_Subset, FS_CardinalityType
<1>3. ASSUME NEW gs \in SUBSET fs
      PROVE  IsFiniteSet(gs) /\ Cardinality(Adrift(gs)) \in Nat
             /\ Cardinality(Adrift(gs)) <= Cardinality(Adrift(fs))
  <2>1. Adrift(gs) \in SUBSET Adrift(fs)
    BY DEF Adrift
  <2>2. QED BY <1>2, <2>1, FS_Subset, FS_CardinalityType
<1>4. QED BY <1>2, <1>3

\* A form that is refused, or whose page had gone before its answer.
LEMMA FormGoes ==
  ASSUME NEW fs, IsFiniteSet(fs), NEW t, NEW e \in Nat, NEW u \in Nat, FormsOK(fs, t, e, u),
         NEW c, c \in fs => ~c.sent \/ ~c.mounted,
         NEW s, s = "done" <=> t = "done"
  PROVE  FormsOK(fs \ {c}, s, e, u)
<1>1. Knows(fs, t) <=> Knows(fs \ {c}, s)
  BY DEF Knows
<1>2. Cardinality(Adrift(fs \ {c})) <= Cardinality(Adrift(fs)) /\ Cardinality(Adrift(fs)) \in Nat
      /\ Cardinality(Adrift(fs \ {c})) \in Nat
  BY Counted
<1>3. QED BY <1>1, <1>2 DEF FormsOK

\* The player is told.
LEMMA FormTold ==
  ASSUME NEW fs, IsFiniteSet(fs), NEW t, NEW e \in Nat, NEW u \in Nat, FormsOK(fs, t, e, u),
         NEW c \in fs, c.sent, c.mounted
  PROVE  FormsOK(fs \ {c}, "done", e, u)
<1>1. Knows(fs, t) /\ Knows(fs \ {c}, "done")
  BY DEF Knows
<1>2. Cardinality(Adrift(fs \ {c})) <= Cardinality(Adrift(fs)) /\ Cardinality(Adrift(fs)) \in Nat
      /\ Cardinality(Adrift(fs \ {c})) \in Nat
  BY Counted
<1>3. QED BY <1>1, <1>2 DEF FormsOK

\* The player was about to be told, and is not.
LEMMA FormUnseen ==
  ASSUME NEW fs, IsFiniteSet(fs), NEW t, NEW e \in Nat, NEW u \in Nat, FormsOK(fs, t, e, u),
         NEW c \in fs, c.sent, c.mounted,
         NEW s, s = "done" <=> t = "done"
  PROVE  FormsOK(fs \ {c}, s, e, u + 1)
<1>1. Knows(fs, t) /\ ~Knows(fs \ {c}, s)
  BY DEF Knows, FormsOK
<1>2. Cardinality(Adrift(fs \ {c})) <= Cardinality(Adrift(fs)) /\ Cardinality(Adrift(fs)) \in Nat
      /\ Cardinality(Adrift(fs \ {c})) \in Nat
  BY Counted
<1>3. QED BY <1>1, <1>2 DEF FormsOK

\* A form takes effect.
LEMMA FormTakesEffect ==
  ASSUME NEW fs \in SUBSET TabCalls, IsFiniteSet(fs), NEW t, NEW e \in Nat, NEW u \in Nat,
         FormsOK(fs, t, e, u),
         NEW c \in fs, ~c.sent,
         NEW d, d = [c EXCEPT !.sent = TRUE]
  PROVE  FormsOK((fs \ {c}) \cup {d}, t, e + 1, u)
<1>1. d.sent = TRUE /\ d.mounted = c.mounted /\ c.mounted \in BOOLEAN
  BY DEF TabCalls
<1>2. PICK gs : gs = (fs \ {c}) \cup {d}
  OBVIOUS
<1>3. IsFiniteSet(gs)
  BY <1>2, FS_RemoveElement, FS_AddElement
<1>4. Cardinality(Adrift(fs)) \in Nat /\ Cardinality(Adrift(gs)) \in Nat /\ IsFiniteSet(Adrift(fs))
  BY <1>3, Counted
<1>5. CASE c.mounted
  <2>1. ~Knows(fs, t) /\ Knows(gs, t)
    BY <1>1, <1>2, <1>5 DEF Knows, FormsOK
  <2>2. Adrift(gs) = Adrift(fs)
    BY <1>1, <1>2, <1>5 DEF Adrift
  <2>3. \A a1, a2 \in gs : a1.mounted /\ a2.mounted => a1 = a2
    BY <1>1, <1>2, <1>5 DEF FormsOK
  <2>4. t # "done"
    BY <1>5 DEF FormsOK
  <2>5. QED BY <1>2, <1>4, <2>1, <2>2, <2>3, <2>4 DEF FormsOK
<1>6. CASE ~c.mounted
  <2>1. Knows(fs, t) <=> Knows(gs, t)
    BY <1>1, <1>2, <1>6 DEF Knows
  <2>2. Adrift(gs) = Adrift(fs) \ {c} /\ c \in Adrift(fs)
    BY <1>1, <1>2, <1>6 DEF Adrift
  <2>3. Cardinality(Adrift(gs)) = Cardinality(Adrift(fs)) - 1
    <3>1. PICK A : A = Adrift(fs)
      OBVIOUS
    <3>2. IsFiniteSet(A) /\ c \in A /\ Adrift(gs) = A \ {c}
      BY <1>4, <2>2, <3>1
    <3>3. Cardinality(A \ {c}) = Cardinality(A) - 1
      BY <3>2, FS_RemoveElement
    <3>4. QED BY <3>1, <3>2, <3>3
  <2>4. \A a1, a2 \in gs : a1.mounted /\ a2.mounted => a1 = a2
    BY <1>1, <1>2, <1>6 DEF FormsOK
  <2>5. t = "done" => \A a1 \in gs : ~a1.mounted
    BY <1>1, <1>2, <1>6 DEF FormsOK
  <2>6. QED BY <1>2, <1>4, <2>1, <2>3, <2>4, <2>5 DEF FormsOK
<1>7. QED BY <1>5, <1>6

\* A form is sent.
LEMMA FormSent ==
  ASSUME NEW fs, IsFiniteSet(fs), NEW t, NEW e \in Nat, NEW u \in Nat, FormsOK(fs, t, e, u),
         t # "done", \A c \in fs : ~c.mounted,
         NEW d, d.mounted = TRUE, d.sent = FALSE
  PROVE  FormsOK(fs \cup {d}, "none", e, u)
<1>1. ~Knows(fs, t)
  BY DEF Knows
<1>2. Adrift(fs \cup {d}) = Adrift(fs)
  BY DEF Adrift
<1>3. Cardinality(Adrift(fs)) \in Nat
  BY Counted
<1>4. ~Knows(fs \cup {d}, "none")
  BY DEF Knows
<1>5. \A c1, c2 \in fs \cup {d} : c1.mounted /\ c2.mounted => c1 = c2
  OBVIOUS
<1>6. QED BY <1>1, <1>2, <1>3, <1>4, <1>5 DEF FormsOK

\* Nobody is left to be told of the forms on the screen.
LEMMA OnScreen ==
  ASSUME NEW fs, NEW t, NEW e, NEW u, FormsOK(fs, t, e, u)
  PROVE  LET open == {c \in fs : c.mounted}
         IN  \/ open = {} /\ S!Cardinality(open) = 0
             \/ S!Cardinality(open) = 1 /\ t # "done" /\ \E c \in fs : c.mounted /\ open = {c}
<1> DEFINE open == {c \in fs : c.mounted}
<1>1. \A s : S!Cardinality(s) = Cardinality(s)
  BY DEF Cardinality, S!Cardinality, IsFiniteSet, S!IsFiniteSet
<1>2. Cardinality({}) = 0 /\ \A x : Cardinality({x}) = 1
  BY FS_EmptySet, FS_Singleton
<1>3. open = {} \/ \E c \in fs : c.mounted /\ open = {c}
  BY DEF FormsOK
<1>4. open # {} => t # "done"
  BY DEF FormsOK
<1> HIDE DEF open
<1>5. (open = {} /\ S!Cardinality(open) = 0)
      \/ (S!Cardinality(open) = 1 /\ t # "done" /\ \E c \in fs : c.mounted /\ open = {c})
  BY <1>1, <1>2, <1>3, <1>4
<1>6. QED BY <1>5 DEF open

\* The tab leaves for the payment page.
LEMMA FormsDropped ==
  ASSUME NEW fs, IsFiniteSet(fs), NEW t, NEW e \in Nat, NEW u \in Nat, FormsOK(fs, t, e, u)
  PROVE  /\ FormsOK({}, t, e, u + S!Cardinality({c \in fs : c.mounted}))
         /\ u + S!Cardinality({c \in fs : c.mounted}) \in Nat
<1>1. Adrift({}) = {} /\ Cardinality({}) = 0
  BY FS_EmptySet DEF Adrift
<1>2. Cardinality(Adrift(fs)) \in Nat
  BY Counted
<1>3. PICK n : n = S!Cardinality({c \in fs : c.mounted})
  OBVIOUS
<1>4. \/ {c \in fs : c.mounted} = {} /\ n = 0
      \/ n = 1 /\ t # "done"
  BY <1>3, OnScreen
<1>5. n \in Nat /\ e <= u + n + (IF Knows({}, t) THEN 1 ELSE 0)
  <2>1. CASE {c \in fs : c.mounted} = {} /\ n = 0
    <3>1. Knows(fs, t) <=> Knows({}, t)
      BY <2>1 DEF Knows
    <3>2. QED BY <1>2, <2>1, <3>1 DEF FormsOK
  <2>2. CASE n = 1 /\ t # "done"
    BY <1>2, <2>2 DEF FormsOK, Knows
  <2>3. QED BY <1>4, <2>1, <2>2
<1>6. FormsOK({}, t, e, u + n)
  BY <1>1, <1>5 DEF FormsOK
<1>7. QED BY <1>3, <1>5, <1>6

\* A page is left.
LEMMA FormsLeft ==
  ASSUME NEW fs \in SUBSET TabCalls, IsFiniteSet(fs), NEW t, NEW e \in Nat, NEW u \in Nat,
         FormsOK(fs, t, e, u),
         NEW gs, gs = {[c EXCEPT !.mounted = FALSE] : c \in fs}, IsFiniteSet(gs),
         NEW s, s = "done" <=> t = "done"
  PROVE  /\ FormsOK(gs, s, e, u + S!Cardinality({c \in fs : c.mounted}))
         /\ u + S!Cardinality({c \in fs : c.mounted}) \in Nat
<1>1. PICK n : n = S!Cardinality({c \in fs : c.mounted})
  OBVIOUS
<1>2. \/ {c \in fs : c.mounted} = {} /\ n = 0
      \/ n = 1 /\ t # "done" /\ \E c \in fs : c.mounted /\ {d \in fs : d.mounted} = {c}
  BY <1>1, OnScreen
<1>3. \A d \in gs : ~d.mounted
  BY DEF TabCalls
<1>4. /\ Cardinality(Adrift(fs)) \in Nat /\ IsFiniteSet(Adrift(fs))
      /\ Cardinality(Adrift(gs)) \in Nat /\ IsFiniteSet(Adrift(gs))
  BY Counted
<1>5. Knows(gs, s) <=> t = "done"
  BY <1>3 DEF Knows
<1>6. \A c \in fs : ~c.mounted => [c EXCEPT !.mounted = FALSE] = c
  BY DEF TabCalls
<1>7. \A d \in Adrift(gs) : \E c \in fs : d = [c EXCEPT !.mounted = FALSE] /\ ~c.sent
  BY DEF Adrift, TabCalls
<1>8. CASE {c \in fs : c.mounted} = {} /\ n = 0
  <2>1. ASSUME NEW d \in Adrift(gs) PROVE d \in Adrift(fs)
    <3>1. PICK c \in fs : d = [c EXCEPT !.mounted = FALSE] /\ ~c.sent
      BY <1>7
    <3>2. ~c.mounted
      BY <1>8
    <3>3. QED BY <1>6, <3>1, <3>2 DEF Adrift
  <2>2. Cardinality(Adrift(gs)) <= Cardinality(Adrift(fs))
    BY <1>4, <2>1, FS_Subset
  <2>3. Knows(fs, t) <=> t = "done"
    BY <1>8 DEF Knows
  <2>4. u + n = u
    BY <1>8
  <2>5. QED BY <1>1, <1>3, <1>4, <1>5, <2>2, <2>3, <2>4 DEF FormsOK
<1>9. ASSUME NEW o \in fs, n = 1, t # "done", o.mounted, {d \in fs : d.mounted} = {o}
      PROVE  FormsOK(gs, s, e, u + n) /\ u + n \in Nat
  <2>1. CASE o.sent
    <3>1. ASSUME NEW d \in Adrift(gs) PROVE d \in Adrift(fs)
      <4>1. PICK c \in fs : d = [c EXCEPT !.mounted = FALSE] /\ ~c.sent
        BY <1>7
      <4>2. ~c.mounted
        BY <1>9, <2>1, <4>1
      <4>3. QED BY <1>6, <4>1, <4>2 DEF Adrift
    <3>2. Cardinality(Adrift(gs)) <= Cardinality(Adrift(fs))
      BY <1>4, <3>1, FS_Subset
    <3>3. e + Cardinality(Adrift(fs)) <= u + 1
      BY <1>4 DEF FormsOK
    <3>4. QED BY <1>3, <1>4, <1>5, <1>9, <3>2, <3>3 DEF FormsOK
  <2>2. CASE ~o.sent
    <3>1. PICK x : x = [o EXCEPT !.mounted = FALSE]
      OBVIOUS
    <3>2. ASSUME NEW d \in Adrift(gs) PROVE d \in Adrift(fs) \cup {x}
      <4>1. PICK c \in fs : d = [c EXCEPT !.mounted = FALSE] /\ ~c.sent
        BY <1>7
      <4>2. ~c.mounted \/ c = o
        BY <1>9
      <4>3. QED BY <1>6, <3>1, <4>1, <4>2 DEF Adrift
    <3>3. IsFiniteSet(Adrift(fs) \cup {x}) /\ Cardinality(Adrift(fs) \cup {x}) \in {Cardinality(Adrift(fs)), Cardinality(Adrift(fs)) + 1}
      BY <1>4, FS_AddElement
    <3>4. Cardinality(Adrift(gs)) <= Cardinality(Adrift(fs) \cup {x})
      BY <3>2, <3>3, FS_Subset
    <3>5. ~Knows(fs, t)
      BY <1>9, <2>2 DEF Knows
    <3>6. e + Cardinality(Adrift(fs)) <= u
      BY <1>4, <3>5 DEF FormsOK
    <3>7. e + Cardinality(Adrift(gs)) <= u + n
      BY <1>4, <1>9, <3>3, <3>4, <3>6
    <3>8. QED BY <1>3, <1>4, <1>5, <1>9, <3>7 DEF FormsOK
  <2>3. QED BY <2>1, <2>2
<1>10. QED BY <1>1, <1>2, <1>8, <1>9

-----------------------------------------------------------------------------
(* The session of a tab: its pages and calls.                              *)

\* Pages that load something, and pages with a form, of each client.
LoadPages(s) ==
  IF s = "game" THEN {"dashboard", "tournaments", "create", "trade", "admin"}
  ELSE {"dashboard", "keys", "admin"}

FormPages(s) ==
  IF s = "game" THEN {"dashboard", "create", "trade", "admin"} ELSE {"keys"}

\* Nothing is asked as ADMIN by an account that is none, and a game's page on
\* the screen asks for the session of the tab.
CallOK(c) ==
  /\ c.kind = "load" => c.page \in LoadPages(site) /\ (S!Asked(c) = "admin" => role = "ADMIN")
  /\ c.kind = "form" => c.page \in FormPages(site)
  /\ site = "game" /\ ~swapped /\ c.mounted => c.session = token

CallsInv ==
  calls \in SUBSET TabCalls /\ IsFiniteSet(calls) /\ \A c \in calls : CallOK(c)

FormsInv ==
  effects \in Nat /\ unseen \in Nat /\ FormsOK(S!Forms(calls), told, effects, unseen)

\* A token names an administrator only when the account is one, and without
\* another tab it is the newest or none.
TokenInv ==
  /\ site \in {"game", "panel"} /\ goal \in FormPages(site)
  /\ made \in Nat /\ token \in Nat /\ live \in SUBSET (1 .. made)
  /\ admins # {} => role = "ADMIN"
  /\ swapped \in BOOLEAN /\ (~swapped => token \in {0, made})
  /\ timer => site = "game"

SessionInv == TokenInv /\ CallsInv /\ FormsInv

\* The tables of the routes.
LEMMA GameTable ==
  /\ DOMAIN S!GameRoutes =
       {"home", "login", "psp", "dashboard", "tournaments", "create", "trade", "admin"}
  /\ S!GameRoutes["home"] = <<>> /\ S!GameRoutes["login"] = <<>> /\ S!GameRoutes["psp"] = <<>>
  /\ S!GameRoutes["dashboard"] = <<S!DashboardLoader, S!DepositForm>>
  /\ S!GameRoutes["tournaments"] = <<S!TournamentsLoader>>
  /\ S!GameRoutes["create"] = <<S!CreateLoader, S!CreateForm>>
  /\ S!GameRoutes["trade"] = <<S!TradeLoader, S!TradeForm>>
  /\ S!GameRoutes["admin"] = <<S!AdminLoader, S!FundForm>>
BY DEF S!GameRoutes

LEMMA PanelTable ==
  /\ DOMAIN S!PanelRoutes = {"login", "dashboard", "keys", "admin"}
  /\ S!PanelRoutes["login"] = <<>>
  /\ S!PanelRoutes["dashboard"] = <<S!PanelDashboardLoader>>
  /\ S!PanelRoutes["keys"] = <<S!KeysLoader, S!KeyForm>>
  /\ S!PanelRoutes["admin"] = <<S!AnalyticsLoader>>
BY DEF S!PanelRoutes

\* Which pages load, and which have a form.
LEMMA PagesLoad ==
  ASSUME site \in {"game", "panel"}
  PROVE  /\ \A p \in DOMAIN S!Routes :
              /\ p \in TabPages
              /\ S!Routes[p] # <<>> => p \in LoadPages(site)
              /\ S!HasForm(p) => p \in FormPages(site)
         /\ {"login", "dashboard"} \subseteq DOMAIN S!Routes
         /\ site = "game" => {"home", "tournaments"} \subseteq DOMAIN S!Routes
         /\ FormPages(site) \subseteq LoadPages(site) /\ LoadPages(site) \subseteq TabPages
<1>1. CASE site = "game"
  <2>1. S!Routes = S!GameRoutes
    BY <1>1 DEF S!Routes
  <2>2. \A p \in {"home", "login", "psp"} : S!Routes[p] = <<>>
    BY <2>1, GameTable
  <2>3. ~S!HasForm("tournaments") /\ \A p \in {"home", "login", "psp"} : ~S!HasForm(p)
    BY <2>1, <2>2, GameTable DEF S!HasForm
  <2>4. QED BY <1>1, <2>1, <2>2, <2>3, GameTable DEF LoadPages, FormPages, TabPages
<1>2. CASE site = "panel"
  <2>1. S!Routes = S!PanelRoutes
    BY <1>2 DEF S!Routes
  <2>2. S!Routes["login"] = <<>>
    BY <2>1, PanelTable
  <2>3. \A p \in {"login", "dashboard", "admin"} : ~S!HasForm(p)
    BY <2>1, <2>2, PanelTable DEF S!HasForm
  <2>4. QED BY <1>2, <2>1, <2>2, <2>3, PanelTable DEF LoadPages, FormPages, TabPages
<1>3. QED BY <1>1, <1>2

\* What the loaders ask first, and on which codes they drop the session.
LEMMA LoadersAsk ==
  ASSUME site \in {"game", "panel"}, NEW p \in LoadPages(site)
  PROVE  /\ S!Routes[p][1].ends \subseteq {401, 403}
         /\ S!Routes[p][1].asks[1] = "admin" => site = "panel" /\ p = "admin"
<1>1. CASE site = "game"
  <2>1. S!Routes = S!GameRoutes
    BY <1>1 DEF S!Routes
  <2>2. S!Routes[p][1] \in {S!DashboardLoader, S!TournamentsLoader, S!CreateLoader, S!TradeLoader, S!AdminLoader}
    BY <1>1, <2>1, GameTable DEF LoadPages
  <2>3. \A l \in {S!DashboardLoader, S!TournamentsLoader, S!CreateLoader, S!TradeLoader, S!AdminLoader} :
          l.ends \subseteq {401, 403} /\ l.asks[1] = "me"
    BY DEF S!Loader, S!DashboardLoader, S!TournamentsLoader, S!CreateLoader, S!TradeLoader, S!AdminLoader
  <2>4. QED BY <2>2, <2>3
<1>2. CASE site = "panel"
  <2>1. S!Routes = S!PanelRoutes
    BY <1>2 DEF S!Routes
  <2>2. p = "admin" \/ S!Routes[p][1] \in {S!PanelDashboardLoader, S!KeysLoader}
    BY <1>2, <2>1, PanelTable DEF LoadPages
  <2>3. \A l \in {S!PanelDashboardLoader, S!KeysLoader} :
          l.ends \subseteq {401, 403} /\ l.asks[1] # "admin"
    BY DEF S!Loader, S!PanelDashboardLoader, S!KeysLoader
  <2>4. S!Routes["admin"][1].ends \subseteq {401, 403}
    BY <2>1, PanelTable DEF S!Loader, S!AnalyticsLoader
  <2>5. QED BY <1>2, <2>2, <2>3, <2>4
<1>3. QED BY <1>1, <1>2

\* The same of the forms.
LEMMA FormsAsk ==
  ASSUME site \in {"game", "panel"}, NEW p \in FormPages(site)
  PROVE  /\ S!Routes[p][2].ends \subseteq {401, 403}
         /\ site = "game" => S!Routes[p][2].ends \subseteq {401}
         /\ S!Routes[p][2].asks # "me"
         /\ S!Routes[p][2].asks = "admin" => S!Routes[p][2].ends = {}
         /\ S!Routes[p][2].then = "timer" => site = "game"
<1>1. CASE site = "game"
  <2>1. S!Routes = S!GameRoutes
    BY <1>1 DEF S!Routes
  <2>2. S!Routes[p][2] \in {S!DepositForm, S!CreateForm, S!TradeForm, S!FundForm}
    BY <1>1, <2>1, GameTable DEF FormPages
  <2>3. \A f \in {S!DepositForm, S!CreateForm, S!TradeForm, S!FundForm} :
          f.ends \subseteq {401} /\ f.asks # "me" /\ (f.asks = "admin" => f.ends = {})
    BY DEF S!Form, S!DepositForm, S!CreateForm, S!TradeForm, S!FundForm
  <2>4. QED BY <1>1, <2>2, <2>3
<1>2. CASE site = "panel"
  <2>1. S!Routes = S!PanelRoutes
    BY <1>2 DEF S!Routes
  <2>2. S!Routes[p][2] = S!KeyForm
    BY <1>2, <2>1, PanelTable DEF FormPages
  <2>3. S!KeyForm.ends = {401, 403} /\ S!KeyForm.asks = "own" /\ S!KeyForm.then = "show"
    BY DEF S!Form, S!KeyForm
  <2>4. QED BY <1>2, <2>2, <2>3
<1>3. QED BY <1>1, <1>2

\* The image of a finite set of calls.
LEMMA LeftFinite ==
  ASSUME NEW cs, IsFiniteSet(cs)
  PROVE  IsFiniteSet({[c EXCEPT !.mounted = FALSE] : c \in cs})
<1> DEFINE left == {[c EXCEPT !.mounted = FALSE] : c \in cs}
           f == [c \in cs |-> [c EXCEPT !.mounted = FALSE]]
<1>1. f \in Surjection(cs, left)
  BY DEF Surjection
<1>2. QED BY <1>1, FS_Surjection

\* The tab enters a page.
LEMMA EnterKeeps ==
  ASSUME TokenInv, CallsInv, effects \in Nat, unseen \in Nat,
         NEW p \in DOMAIN S!Routes, NEW t \in Nat, NEW rest \in SUBSET calls,
         FormsOK(S!Forms(rest), told, effects, unseen),
         S!Enter(p, t, rest), UNCHANGED <<site, role, effects, swapped>>
  PROVE  token' = t /\ CallsInv' /\ FormsInv'
<1> DEFINE q == S!Landing(p, t)
           left == {[c EXCEPT !.mounted = FALSE] : c \in rest}
           fs == S!Forms(rest)
           gs == {[c EXCEPT !.mounted = FALSE] : c \in fs}
<1>1. rest \in SUBSET TabCalls /\ fs \in SUBSET TabCalls /\ IsFiniteSet(rest) /\ IsFiniteSet(fs)
  <2>1. rest \in SUBSET TabCalls /\ fs \in SUBSET rest
    BY DEF CallsInv, S!Forms
  <2>2. IsFiniteSet(rest)
    BY FS_Subset DEF CallsInv
  <2>3. QED BY <2>1, <2>2, FS_Subset
<1>2. PICK new : new = (IF S!Routes[q] = <<>> THEN {} ELSE {S!Load(q, t)})
  OBVIOUS
<1>3. /\ token' = t /\ calls' = left \cup new
      /\ unseen' = unseen + S!Cardinality({c \in fs : c.mounted})
      /\ told' = IF told = "error" THEN "none" ELSE told
  BY <1>2 DEF S!Enter
<1>4. q \in DOMAIN S!Routes /\ (q = "admin" /\ site = "panel" => t \in admins)
  BY PagesLoad DEF S!Landing, S!Public, TokenInv
<1>5. ASSUME NEW c \in new
      PROVE  c \in TabCalls /\ c.kind = "load" /\ c.session = t /\ c.page \in LoadPages(site)
             /\ c.step = 1 /\ c.page = q
  <2>1. c = S!Load(q, t) /\ S!Routes[q] # <<>>
    BY <1>2
  <2>2. q \in LoadPages(site) /\ q \in TabPages
    BY <1>4, <2>1, PagesLoad DEF TokenInv
  <2>3. QED BY <2>1, <2>2 DEF S!Load, TabCalls
<1>6. ASSUME NEW c \in new, S!Asked(c) = "admin" PROVE role = "ADMIN"
  <2>1. S!Routes[q][1].asks[1] = "admin" /\ q \in LoadPages(site)
    BY <1>5, <1>6 DEF S!Asked
  <2>2. t \in admins
    BY <1>4, <2>1, LoadersAsk DEF TokenInv
  <2>3. QED BY <2>2 DEF TokenInv
<1>7. ASSUME NEW d \in left
      PROVE  \E c \in rest : /\ d = [c EXCEPT !.mounted = FALSE] /\ d \in TabCalls
                             /\ ~d.mounted /\ d.kind = c.kind /\ d.page = c.page /\ d.step = c.step
  BY <1>1 DEF TabCalls
<1>8. \A c : S!Asked(c)' = S!Asked(c)
  BY DEF S!Asked, S!Routes
<1>9. CallsInv'
  <2>1. calls' \in SUBSET TabCalls
    BY <1>3, <1>5, <1>7
  <2>2. IsFiniteSet(calls')
    <3>1. IsFiniteSet(left)
      BY <1>1, LeftFinite
    <3>2. new = {} \/ \E x : new = {x}
      BY <1>2
    <3>3. \A x : IsFiniteSet(left \cup {x})
      BY <3>1, FS_AddElement
    <3> HIDE DEF left
    <3>4. QED BY <1>3, <3>1, <3>2, <3>3
  <2>3. ASSUME NEW d \in left PROVE CallOK(d)'
    <3>1. PICK c \in rest : /\ d = [c EXCEPT !.mounted = FALSE]
                            /\ ~d.mounted /\ d.kind = c.kind /\ d.page = c.page /\ d.step = c.step
      BY <1>7
    <3>2. S!Asked(d) = S!Asked(c)
      BY <3>1 DEF S!Asked
    <3>3. CallOK(c)
      BY DEF CallsInv
    <3>4. QED BY <1>8, <3>1, <3>2, <3>3 DEF CallOK
  <2>4. ASSUME NEW d \in new PROVE CallOK(d)'
    BY <1>3, <1>5, <1>6, <1>8 DEF CallOK
  <2> HIDE DEF left
  <2>5. QED BY <1>3, <2>1, <2>2, <2>3, <2>4 DEF CallsInv
<1>10. S!Forms(calls') = gs
  <2>1. \A d \in new : d.kind # "form"
    BY <1>5
  <2>2. ASSUME NEW d \in S!Forms(calls') PROVE d \in gs
    <3>1. d \in left /\ d.kind = "form"
      BY <1>3, <2>1 DEF S!Forms
    <3>2. QED BY <1>7, <3>1 DEF S!Forms
  <2>3. ASSUME NEW d \in gs PROVE d \in S!Forms(calls')
    <3>1. d \in left /\ d.kind = "form"
      BY <1>1 DEF S!Forms, TabCalls
    <3>2. QED BY <1>3, <3>1 DEF S!Forms
  <2>4. QED BY <2>2, <2>3
<1>11. IsFiniteSet(gs)
  BY <1>1, LeftFinite
<1>12. PICK s : s = told'
  OBVIOUS
<1>13. s = "done" <=> told = "done"
  BY <1>3, <1>12
<1>14. PICK g : g = gs
  OBVIOUS
<1>15. PICK f : f = fs
  OBVIOUS
<1>16. FormsOK(g, s, effects, unseen') /\ unseen' \in Nat
  <2>1. /\ f \in SUBSET TabCalls /\ IsFiniteSet(f) /\ FormsOK(f, told, effects, unseen)
        /\ g = {[c EXCEPT !.mounted = FALSE] : c \in f} /\ IsFiniteSet(g)
    BY <1>1, <1>11, <1>14, <1>15
  <2>2. unseen' = unseen + S!Cardinality({c \in f : c.mounted})
    BY <1>3, <1>15
  <2> HIDE DEF q, left, fs, gs
  <2>3. QED BY <1>13, <2>1, <2>2, FormsLeft
<1>17. FormsInv'
  BY <1>10, <1>12, <1>14, <1>16 DEF FormsInv
<1>18. QED BY <1>3, <1>9, <1>17

\* At first nobody is logged in and nothing is under way.
LEMMA SessionInvInit == S!Init => SessionInv
<1> SUFFICES ASSUME S!Init PROVE SessionInv
  OBVIOUS
<1>1. /\ site \in {"game", "panel"} /\ goal \in {p \in DOMAIN S!Routes : S!HasForm(p)}
      /\ token = 0 /\ made = 0 /\ live = {} /\ admins = {} /\ calls = {}
      /\ timer = FALSE /\ swapped = FALSE /\ told = "none" /\ effects = 0 /\ unseen = 0
  BY DEF S!Init
<1>2. goal \in FormPages(site)
  BY <1>1, PagesLoad
<1>3. TokenInv
  <2>1. made \in Nat /\ token \in Nat /\ token \in {0, made}
    BY <1>1
  <2>2. swapped \in BOOLEAN /\ ~timer
    BY <1>1
  <2>3. live \in SUBSET (1 .. made) /\ ~(admins # {})
    BY <1>1
  <2>4. QED BY <1>1, <1>2, <2>1, <2>2, <2>3 DEF TokenInv
<1>4. CallsInv
  BY <1>1, FS_EmptySet DEF CallsInv
<1>5. Adrift({}) = {} /\ S!Forms({}) = {}
  BY DEF Adrift, S!Forms
<1>6. FormsOK({}, "none", 0, 0)
  BY <1>5, FS_EmptySet DEF FormsOK, Knows
<1>7. FormsInv
  <2>1. effects \in Nat /\ unseen \in Nat
    BY <1>1
  <2>2. QED BY <1>1, <1>5, <1>6, <2>1 DEF FormsInv
<1>8. QED BY <1>3, <1>4, <1>7 DEF SessionInv

\* A call that ends.
LEMMA CallEnds ==
  ASSUME CallsInv, NEW c, calls' = calls \ {c}, UNCHANGED <<site, role, swapped, token>>
  PROVE  CallsInv' /\ S!Forms(calls') = S!Forms(calls) \ {c}
<1>1. \A d : S!Asked(d)' = S!Asked(d)
  BY DEF S!Asked, S!Routes
<1>2. IsFiniteSet(calls')
  BY FS_RemoveElement DEF CallsInv
<1>3. \A d \in calls : CallOK(d)'
  BY <1>1 DEF CallsInv, CallOK
<1>4. QED BY <1>2, <1>3 DEF CallsInv, S!Forms

\* A call that is begun, or goes on as another.
LEMMA CallBegins ==
  ASSUME CallsInv, NEW cs \in SUBSET calls, NEW d \in TabCalls, CallOK(d), calls' = cs \cup {d},
         UNCHANGED <<site, role, swapped, token>>
  PROVE  /\ CallsInv'
         /\ S!Forms(calls') = IF d.kind = "form" THEN S!Forms(cs) \cup {d} ELSE S!Forms(cs)
<1>1. \A c : S!Asked(c)' = S!Asked(c)
  BY DEF S!Asked, S!Routes
<1>2. IsFiniteSet(calls')
  BY FS_Subset, FS_AddElement DEF CallsInv
<1>3. \A c \in calls \cup {d} : CallOK(c)'
  BY <1>1 DEF CallsInv, CallOK
<1>4. S!Forms(calls') = IF d.kind = "form" THEN S!Forms(cs) \cup {d} ELSE S!Forms(cs)
  BY DEF S!Forms
<1>5. QED BY <1>2, <1>3, <1>4 DEF CallsInv

\* The calls under way, when a step does not touch them.
LEMMA CallsStay ==
  ASSUME CallsInv, UNCHANGED <<site, calls, token>>,
         role = "ADMIN" => role' = "ADMIN", swapped => swapped'
  PROVE  CallsInv'
<1>1. \A c : S!Asked(c)' = S!Asked(c)
  BY DEF S!Asked, S!Routes
<1>2. QED BY <1>1 DEF CallsInv, CallOK

\* What the forms of a finite set of calls are.
LEMMA FormsOfCalls ==
  ASSUME CallsInv
  PROVE  S!Forms(calls) \in SUBSET TabCalls /\ IsFiniteSet(S!Forms(calls)) /\ S!Forms(calls) \in SUBSET calls
<1>1. S!Forms(calls) \in SUBSET calls
  BY DEF S!Forms
<1>2. QED BY <1>1, FS_Subset DEF CallsInv

\* The tab is sent to /login, or another page, by the answer to c.
LEMMA EnterAfter ==
  ASSUME SessionInv, NEW p \in DOMAIN S!Routes, NEW t \in Nat,
         NEW c, c \in calls => c.kind = "load" \/ ~c.sent,
         S!Enter(p, t, calls \ {c}), UNCHANGED <<site, role, effects, swapped>>
  PROVE  token' = t /\ CallsInv' /\ FormsInv'
<1>1. /\ TokenInv /\ CallsInv /\ effects \in Nat /\ unseen \in Nat
      /\ FormsOK(S!Forms(calls), told, effects, unseen)
  BY DEF SessionInv, FormsInv
<1>2. IsFiniteSet(S!Forms(calls))
  BY <1>1, FormsOfCalls
<1>3. PICK f : f = S!Forms(calls)
  OBVIOUS
<1>4. c \in f => ~c.sent \/ ~c.mounted
  BY <1>3 DEF S!Forms
<1>5. PICK s : s = told
  OBVIOUS
<1>6. FormsOK(f \ {c}, s, effects, unseen)
  BY <1>1, <1>2, <1>3, <1>4, <1>5, FormGoes
<1>7. S!Forms(calls \ {c}) = f \ {c}
  BY <1>3 DEF S!Forms
<1>8. FormsOK(S!Forms(calls \ {c}), told, effects, unseen)
  BY <1>5, <1>6, <1>7
<1>9. QED BY <1>1, <1>8, EnterKeeps

\* The same, when no call ends.
LEMMA EnterAnew ==
  ASSUME SessionInv, NEW p \in DOMAIN S!Routes, NEW t \in Nat,
         S!Enter(p, t, calls), UNCHANGED <<site, role, effects, swapped>>
  PROVE  token' = t /\ CallsInv' /\ FormsInv'
<1>1. /\ TokenInv /\ CallsInv /\ effects \in Nat /\ unseen \in Nat
      /\ FormsOK(S!Forms(calls), told, effects, unseen)
  BY DEF SessionInv, FormsInv
<1>2. QED BY <1>1, EnterKeeps

\* A call of a session that is on its way.
LEMMA TokenStays ==
  ASSUME TokenInv, UNCHANGED <<site, goal, made, live, admins, role, swapped>>,
         token' \in {0, token}, timer' => timer
  PROVE  TokenInv'
BY DEF TokenInv

LEMMA SessionInvNext == SessionInv /\ [S!Next]_sessionVars => SessionInv'
<1> SUFFICES ASSUME SessionInv, [S!Next]_sessionVars PROVE SessionInv'
  OBVIOUS
<1>t. /\ TokenInv /\ CallsInv /\ FormsInv
      /\ effects \in Nat /\ unseen \in Nat /\ FormsOK(S!Forms(calls), told, effects, unseen)
      /\ site \in {"game", "panel"} /\ token \in Nat
      /\ {"login", "dashboard"} \subseteq DOMAIN S!Routes
      /\ site = "game" => {"home", "tournaments"} \subseteq DOMAIN S!Routes
  BY PagesLoad DEF SessionInv, FormsInv, TokenInv
<1>f. S!Forms(calls) \in SUBSET TabCalls /\ IsFiniteSet(S!Forms(calls)) /\ S!Forms(calls) \in SUBSET calls
  BY <1>t, FormsOfCalls
<1>1. CASE S!Login
  <2>1. /\ S!Enter("dashboard", made + 1, calls) /\ made' = made + 1
        /\ live' = live \cup {made + 1} /\ admins' = (IF role = "ADMIN" THEN admins \cup {made + 1} ELSE admins)
        /\ UNCHANGED <<site, goal, role, timer, effects, swapped>>
    BY <1>1 DEF S!Login, S!NewSession
  <2>2. made + 1 \in Nat
    BY <1>t DEF TokenInv
  <2>3. token' = made + 1 /\ CallsInv' /\ FormsInv'
    BY <1>t, <2>1, <2>2, EnterAnew
  <2>4. TokenInv'
    BY <1>t, <2>1, <2>3 DEF TokenInv
  <2>5. QED BY <2>3, <2>4 DEF SessionInv
<1>2. CASE S!Logout
  <2>1. /\ S!Enter(IF site = "game" THEN "home" ELSE "login", 0, calls)
        /\ UNCHANGED <<site, goal, made, live, admins, role, timer, effects, swapped>>
    BY <1>2 DEF S!Logout
  <2>2. PICK p : p = IF site = "game" THEN "home" ELSE "login"
    OBVIOUS
  <2>3. p \in DOMAIN S!Routes
    BY <1>t, <2>2
  <2>4. token' = 0 /\ CallsInv' /\ FormsInv'
    BY <1>t, <2>1, <2>2, <2>3, EnterAnew
  <2>5. QED BY <1>t, <2>1, <2>4, TokenStays DEF SessionInv
<1>3. ASSUME NEW p \in DOMAIN S!Routes, S!Visit(p) PROVE SessionInv'
  <2>1. /\ S!Enter(p, token, calls)
        /\ UNCHANGED <<site, goal, made, live, admins, role, timer, effects, swapped>>
    BY <1>3 DEF S!Visit
  <2>2. token' = token /\ CallsInv' /\ FormsInv'
    BY <1>t, <2>1, EnterAnew
  <2>3. QED BY <1>t, <2>1, <2>2, TokenStays DEF SessionInv
<1>4. CASE S!Poll
  <2>1. UNCHANGED <<site, goal, made, live, admins, role, timer, effects, swapped>>
        /\ site = "panel" /\ page = "dashboard"
    BY <1>4 DEF S!Poll
  <2>2. CASE calls' = calls \cup {S!Load(page, token)} /\ UNCHANGED <<token, unseen, told>>
    <3>1. PICK d : d = S!Load("dashboard", token)
      OBVIOUS
    <3>2. d \in TabCalls /\ d.kind = "load" /\ d.page = "dashboard" /\ d.step = 1
      BY <1>t, <3>1 DEF S!Load, TabCalls, TabPages
    <3>3. "dashboard" \in LoadPages(site)
      BY <2>1 DEF LoadPages
    <3>4. S!Asked(d) # "admin"
      BY <1>t, <2>1, <3>2, <3>3, LoadersAsk DEF S!Asked
    <3>5. CallOK(d)
      BY <2>1, <3>2, <3>3, <3>4 DEF CallOK
    <3>6. CallsInv' /\ S!Forms(calls') = S!Forms(calls)
      BY <1>t, <2>1, <2>2, <3>1, <3>2, <3>5, CallBegins
    <3>7. QED BY <1>t, <2>1, <2>2, <3>6, TokenStays DEF SessionInv, FormsInv
  <2>3. CASE token = 0 /\ S!Enter("login", 0, calls)
    <3>1. token' = 0 /\ CallsInv' /\ FormsInv'
      BY <1>t, <2>1, <2>3, EnterAnew
    <3>2. QED BY <1>t, <2>1, <3>1, TokenStays DEF SessionInv
  <2>4. QED BY <1>4, <2>2, <2>3 DEF S!Poll
<1>5. CASE S!Submit
  <2>1. /\ UNCHANGED <<site, goal, made, live, admins, role, timer, effects, swapped>>
        /\ page = goal /\ told # "done" /\ \A c \in S!Forms(calls) : ~c.mounted
    BY <1>5 DEF S!Submit
  <2>2. CASE calls' = calls \cup {S!NewForm} /\ told' = "none" /\ UNCHANGED <<token, unseen>>
    <3>1. PICK d : d = S!NewForm
      OBVIOUS
    <3>2. goal \in FormPages(site) /\ goal \in TabPages
      BY <1>t, PagesLoad DEF TokenInv
    <3>3. /\ d \in TabCalls /\ d.kind = "form" /\ d.page = goal /\ d.session = token
          /\ d.mounted = TRUE /\ d.sent = FALSE
      BY <1>t, <2>1, <3>1, <3>2 DEF S!NewForm, TabCalls
    <3>4. CallOK(d)
      BY <3>2, <3>3 DEF CallOK
    <3>5. CallsInv' /\ S!Forms(calls') = S!Forms(calls) \cup {d}
      BY <1>t, <2>1, <2>2, <3>1, <3>3, <3>4, CallBegins
    <3>6. PICK f : f = S!Forms(calls)
      OBVIOUS
    <3>7. FormsOK(f \cup {d}, "none", effects, unseen)
      BY <1>f, <1>t, <2>1, <3>3, <3>6, FormSent
    <3>8. FormsInv'
      BY <1>t, <2>1, <2>2, <3>5, <3>6, <3>7 DEF FormsInv
    <3>9. QED BY <1>t, <2>1, <2>2, <3>5, <3>8, TokenStays DEF SessionInv
  <2>3. CASE token = 0 /\ S!Enter("login", 0, calls)
    <3>1. token' = 0 /\ CallsInv' /\ FormsInv'
      BY <1>t, <2>1, <2>3, EnterAnew
    <3>2. QED BY <1>t, <2>1, <3>1, TokenStays DEF SessionInv
  <2>4. QED BY <1>5, <2>2, <2>3 DEF S!Submit
<1>6. ASSUME NEW c \in calls, S!Execute(c) PROVE SessionInv'
  <2>1. /\ UNCHANGED <<site, goal, token, made, live, admins, role, timer, told, unseen, swapped>>
        /\ c.kind = "form" /\ ~c.sent /\ effects' = effects + 1
        /\ calls' = (calls \ {c}) \cup {[c EXCEPT !.sent = TRUE]}
    BY <1>6 DEF S!Execute
  <2>2. PICK d : d = [c EXCEPT !.sent = TRUE]
    OBVIOUS
  <2>3. c \in TabCalls /\ CallOK(c) /\ c \in S!Forms(calls)
    BY <1>t, <2>1 DEF CallsInv, S!Forms
  <2>4. /\ d \in TabCalls /\ d.kind = "form" /\ d.page = c.page
        /\ d.mounted = c.mounted /\ d.session = c.session
    BY <2>1, <2>2, <2>3 DEF TabCalls
  <2>5. CallOK(d)
    BY <2>1, <2>3, <2>4 DEF CallOK
  <2>6. CallsInv' /\ S!Forms(calls') = S!Forms(calls \ {c}) \cup {d}
    <3>1. calls \ {c} \in SUBSET calls
      OBVIOUS
    <3>2. QED BY <1>t, <2>1, <2>2, <2>4, <2>5, <3>1, CallBegins
  <2>7. PICK f : f = S!Forms(calls)
    OBVIOUS
  <2>8. S!Forms(calls \ {c}) = f \ {c}
    BY <2>7 DEF S!Forms
  <2>9. FormsOK((f \ {c}) \cup {d}, told, effects + 1, unseen)
    BY <1>f, <1>t, <2>1, <2>2, <2>3, <2>7, FormTakesEffect
  <2>10. FormsInv'
    <3>1. S!Forms(calls') = (f \ {c}) \cup {d}
      BY <2>6, <2>8
    <3>2. effects' \in Nat /\ unseen' \in Nat
      BY <1>t, <2>1
    <3>3. FormsOK((f \ {c}) \cup {d}, told', effects', unseen')
      BY <2>1, <2>9
    <3>4. QED BY <3>1, <3>2, <3>3 DEF FormsInv
  <2>11. QED BY <1>t, <2>1, <2>6, <2>10, TokenStays DEF SessionInv
<1>7. ASSUME NEW c \in calls, S!AnswerLoad(c) PROVE SessionInv'
  <2>1. /\ UNCHANGED <<site, goal, made, live, admins, role, timer, effects, swapped>>
        /\ c.kind = "load" /\ c \in TabCalls /\ CallOK(c)
    BY <1>7, <1>t DEF S!AnswerLoad, CallsInv
  <2>2. S!Forms(calls \ {c}) = S!Forms(calls)
    BY <2>1 DEF S!Forms
  <2>3. ASSUME S!Forget(c) PROVE SessionInv'
    <3>1. calls' = calls \ {c} /\ UNCHANGED <<token, unseen, told>>
      BY <2>3 DEF S!Forget
    <3>2. CallsInv' /\ S!Forms(calls') = S!Forms(calls)
      BY <1>t, <2>1, <2>2, <3>1, CallEnds
    <3>3. QED BY <1>t, <2>1, <3>1, <3>2, TokenStays DEF SessionInv, FormsInv
  <2>4. ASSUME NEW p \in {"login", "dashboard"}, NEW t \in {0, token}, S!Enter(p, t, calls \ {c}) PROVE SessionInv'
    <3>1. token' = t /\ CallsInv' /\ FormsInv'
      BY <1>t, <2>1, <2>4, EnterAfter
    <3>2. QED BY <1>t, <2>1, <3>1, TokenStays DEF SessionInv
  <2>5. ASSUME S!Continue(c) PROVE SessionInv'
    <3>1. PICK next : next = IF site = "game" THEN token ELSE c.session
      OBVIOUS
    <3>2. PICK d : d = [c EXCEPT !.step = c.step + 1, !.session = next]
      OBVIOUS
    <3>3. \/ /\ S!Routes[c.page][1].asks[c.step + 1] = "admin" => role = "ADMIN"
             /\ calls' = (calls \ {c}) \cup {d} /\ UNCHANGED <<token, unseen, told>>
          \/ S!Enter("dashboard", token, calls \ {c})
          \/ S!Forget(c)
      BY <2>5, <3>1, <3>2 DEF S!Continue
    <3>4. CASE /\ S!Routes[c.page][1].asks[c.step + 1] = "admin" => role = "ADMIN"
               /\ calls' = (calls \ {c}) \cup {d} /\ UNCHANGED <<token, unseen, told>>
      <4>1. next \in Nat /\ c.step + 1 \in Nat
        BY <1>t, <2>1, <3>1 DEF TabCalls
      <4>2. /\ d \in TabCalls /\ d.kind = "load" /\ d.page = c.page /\ d.step = c.step + 1
            /\ d.session = next
        BY <2>1, <3>2, <4>1 DEF TabCalls
      <4>3. CallOK(d)
        BY <2>1, <3>1, <3>4, <4>2 DEF CallOK, S!Asked
      <4>4. CallsInv' /\ S!Forms(calls') = S!Forms(calls)
        <5>1. calls \ {c} \in SUBSET calls
          OBVIOUS
        <5>2. QED BY <1>t, <2>1, <2>2, <3>4, <4>2, <4>3, <5>1, CallBegins
      <4>5. QED BY <1>t, <2>1, <3>4, <4>4, TokenStays DEF SessionInv, FormsInv
    <3>5. QED BY <2>3, <2>4, <3>3, <3>4
  <2>6. QED BY <1>7, <2>3, <2>4, <2>5 DEF S!AnswerLoad, S!SignOut
<1>8. ASSUME NEW c \in calls, S!FormDone(c) PROVE SessionInv'
  <2>1. /\ UNCHANGED <<site, goal, token, made, live, admins, role, effects, swapped>>
        /\ c.kind = "form" /\ c.sent /\ told' = (IF c.mounted THEN "done" ELSE told)
        /\ c \in TabCalls /\ CallOK(c) /\ c \in S!Forms(calls)
    BY <1>8, <1>t DEF S!FormDone, CallsInv, S!Forms
  <2>2. timer' => site = "game"
    <3>1. timer' = (timer \/ S!Routes[c.page][2].then = "timer")
      BY <1>8 DEF S!FormDone
    <3>2. QED BY <1>t, <2>1, <3>1, FormsAsk DEF CallOK, TokenInv
  <2>3. TokenInv'
    BY <1>t, <2>1, <2>2 DEF TokenInv
  <2>4. PICK f : f = S!Forms(calls)
    OBVIOUS
  <2>5. PICK s : s = IF c.mounted THEN "done" ELSE told
    OBVIOUS
  <2>6. FormsOK(f \ {c}, s, effects, unseen) /\ IsFiniteSet(f \ {c})
    <3>1. c.mounted \in BOOLEAN
      BY <2>1 DEF TabCalls
    <3>2. IsFiniteSet(f \ {c})
      BY <1>f, <2>4, FS_RemoveElement
    <3>3. CASE c.mounted
      BY <1>f, <1>t, <2>1, <2>4, <2>5, <3>2, <3>3, FormTold
    <3>4. CASE ~c.mounted
      BY <1>f, <1>t, <2>1, <2>4, <2>5, <3>2, <3>4, FormGoes
    <3>5. QED BY <3>3, <3>4
  <2>7. S!Forms(calls \ {c}) = f \ {c}
    BY <2>4 DEF S!Forms
  <2>8. CASE calls' = {} /\ unseen' = unseen + S!Cardinality({k \in S!Forms(calls \ {c}) : k.mounted})
    <3>1. CallsInv'
      BY <2>8, FS_EmptySet DEF CallsInv
    <3>2. S!Forms(calls') = {}
      BY <2>8 DEF S!Forms
    <3>3. PICK g : g = f \ {c}
      OBVIOUS
    <3>4. /\ FormsOK({}, s, effects, unseen + S!Cardinality({k \in g : k.mounted}))
          /\ unseen + S!Cardinality({k \in g : k.mounted}) \in Nat
      BY <1>t, <2>6, <3>3, FormsDropped
    <3>5. unseen' = unseen + S!Cardinality({k \in g : k.mounted})
      BY <2>7, <2>8, <3>3
    <3>6. FormsInv'
      BY <1>t, <2>1, <2>5, <3>2, <3>4, <3>5 DEF FormsInv
    <3>7. QED BY <2>3, <3>1, <3>6 DEF SessionInv
  <2>9. CASE calls' = calls \ {c} /\ UNCHANGED unseen
    <3>1. CallsInv'
      BY <1>t, <2>1, <2>9, CallEnds
    <3>2. FormsInv'
      BY <1>t, <2>1, <2>5, <2>6, <2>7, <2>9 DEF FormsInv
    <3>3. QED BY <2>3, <3>1, <3>2 DEF SessionInv
  <2>10. QED BY <1>8, <2>8, <2>9 DEF S!FormDone
<1>9. ASSUME NEW c \in calls, S!FormRefused(c) PROVE SessionInv'
  <2>1. /\ UNCHANGED <<site, goal, made, live, admins, role, timer, effects, swapped>>
        /\ c.kind = "form" /\ ~c.sent /\ c \in S!Forms(calls)
    BY <1>9 DEF S!FormRefused, S!Forms
  <2>2. CASE S!SignOut(c)
    <3>1. token' = 0 /\ CallsInv' /\ FormsInv'
      BY <1>t, <2>1, <2>2, EnterAfter DEF S!SignOut
    <3>2. QED BY <1>t, <2>1, <3>1, TokenStays DEF SessionInv
  <2>3. CASE /\ calls' = calls \ {c} /\ UNCHANGED <<token, unseen>>
             /\ told' = IF c.mounted /\ told = "none" THEN "error" ELSE told
    <3>1. CallsInv' /\ S!Forms(calls') = S!Forms(calls) \ {c}
      BY <1>t, <2>1, <2>3, CallEnds
    <3>2. PICK f : f = S!Forms(calls)
      OBVIOUS
    <3>3. PICK s : s = told'
      OBVIOUS
    <3>4. s = "done" <=> told = "done"
      BY <2>3, <3>3
    <3>5. FormsOK(f \ {c}, s, effects, unseen)
      BY <1>f, <1>t, <2>1, <3>2, <3>4, FormGoes
    <3>6. FormsInv'
      BY <1>t, <2>1, <2>3, <3>1, <3>2, <3>3, <3>5 DEF FormsInv
    <3>7. QED BY <1>t, <2>1, <2>3, <3>1, <3>6, TokenStays DEF SessionInv
  <2>4. QED BY <1>9, <2>2, <2>3 DEF S!FormRefused
<1>10. ASSUME NEW c \in calls, S!ReplyLost(c) PROVE SessionInv'
  <2>1. /\ UNCHANGED <<site, goal, token, made, live, admins, role, timer, effects, swapped>>
        /\ c.kind = "form" /\ c.sent /\ calls' = calls \ {c}
        /\ told' = (IF c.mounted /\ told = "none" THEN "error" ELSE told)
        /\ unseen' = (IF c.mounted THEN unseen + 1 ELSE unseen)
        /\ c \in S!Forms(calls) /\ c.mounted \in BOOLEAN
    BY <1>10, <1>t DEF S!ReplyLost, S!Forms, CallsInv, TabCalls
  <2>2. CallsInv' /\ S!Forms(calls') = S!Forms(calls) \ {c}
    BY <1>t, <2>1, CallEnds
  <2>3. PICK f : f = S!Forms(calls)
    OBVIOUS
  <2>4. PICK s : s = told'
    OBVIOUS
  <2>5. s = "done" <=> told = "done"
    BY <2>1, <2>4
  <2>6. CASE c.mounted
    <3>1. FormsOK(f \ {c}, s, effects, unseen + 1)
      BY <1>f, <1>t, <2>1, <2>3, <2>5, <2>6, FormUnseen
    <3>2. FormsInv'
      BY <1>t, <2>1, <2>2, <2>3, <2>4, <2>6, <3>1 DEF FormsInv
    <3>3. QED BY <1>t, <2>1, <2>2, <3>2, TokenStays DEF SessionInv
  <2>7. CASE ~c.mounted
    <3>1. FormsOK(f \ {c}, s, effects, unseen)
      BY <1>f, <1>t, <2>1, <2>3, <2>5, <2>7, FormGoes
    <3>2. FormsInv'
      BY <1>t, <2>1, <2>2, <2>3, <2>4, <2>7, <3>1 DEF FormsInv
    <3>3. QED BY <1>t, <2>1, <2>2, <3>2, TokenStays DEF SessionInv
  <2>8. QED BY <2>6, <2>7
<1>11. CASE S!TimerFires
  <2>1. /\ S!Enter("tournaments", token, calls) /\ timer /\ timer' = FALSE
        /\ UNCHANGED <<site, goal, made, live, admins, role, effects, swapped>>
    BY <1>11 DEF S!TimerFires
  <2>2. "tournaments" \in DOMAIN S!Routes
    BY <1>t, <2>1 DEF TokenInv
  <2>3. token' = token /\ CallsInv' /\ FormsInv'
    BY <1>t, <2>1, <2>2, EnterAnew
  <2>4. QED BY <1>t, <2>1, <2>3, TokenStays DEF SessionInv
<1>12. ASSUME NEW s \in live, S!Expire(s) PROVE SessionInv'
  <2>1. /\ live' = live \ {s}
        /\ UNCHANGED <<site, goal, token, made, admins, role, calls, timer, told, effects, unseen, swapped>>
    BY <1>12 DEF S!Expire
  <2>2. TokenInv'
    BY <1>t, <2>1 DEF TokenInv
  <2>3. QED BY <1>t, <2>1, <2>2, CallsStay DEF SessionInv, FormsInv
<1>13. CASE S!Outage
  <2>1. UNCHANGED <<site, goal, token, made, live, admins, role, calls, timer, told, effects, unseen, swapped>>
    BY <1>13 DEF S!Outage
  <2>2. QED BY <1>t, <2>1, CallsStay, TokenStays DEF SessionInv, FormsInv
<1>14. CASE S!OtherTab
  <2>1. swapped' = TRUE /\ UNCHANGED <<site, goal, role, calls, timer, told, effects, unseen>>
    BY <1>14 DEF S!OtherTab
  <2>2. \/ token' = 0 /\ UNCHANGED <<made, live, admins>>
        \/ /\ token' = made + 1 /\ made' = made + 1 /\ live' = live \cup {made + 1}
           /\ admins' = IF role = "ADMIN" THEN admins \cup {made + 1} ELSE admins
    BY <1>14 DEF S!OtherTab, S!NewSession
  <2>3. TokenInv'
    <3>1. swapped' \in BOOLEAN /\ swapped'
      BY <2>1
    <3>2. CASE token' = 0 /\ UNCHANGED <<made, live, admins>>
      BY <1>t, <2>1, <3>1, <3>2 DEF TokenInv
    <3>3. CASE /\ token' = made + 1 /\ made' = made + 1 /\ live' = live \cup {made + 1}
               /\ admins' = IF role = "ADMIN" THEN admins \cup {made + 1} ELSE admins
      <4>1. made \in Nat /\ made' \in Nat /\ token' \in Nat /\ live' \in SUBSET (1 .. made')
        BY <1>t, <3>3 DEF TokenInv
      <4>2. admins' # {} => role = "ADMIN"
        BY <1>t, <3>3 DEF TokenInv
      <4>3. QED BY <1>t, <2>1, <3>1, <4>1, <4>2 DEF TokenInv
    <3>4. QED BY <2>2, <3>2, <3>3
  <2>4. CallsInv'
    <3>1. \A c : S!Asked(c)' = S!Asked(c)
      BY <2>1 DEF S!Asked, S!Routes
    <3>2. QED BY <1>t, <2>1, <3>1 DEF CallsInv, CallOK
  <2>5. QED BY <1>t, <2>1, <2>3, <2>4 DEF SessionInv, FormsInv
<1>15. CASE S!Promote
  <2>1. /\ role' = "ADMIN"
        /\ UNCHANGED <<site, goal, token, made, live, admins, calls, timer, told, effects, unseen, swapped>>
    BY <1>15 DEF S!Promote
  <2>2. TokenInv'
    BY <1>t, <2>1 DEF TokenInv
  <2>3. QED BY <1>t, <2>1, <2>2, CallsStay DEF SessionInv, FormsInv
<1>16. CASE UNCHANGED sessionVars
  <2>1. UNCHANGED <<site, goal, token, made, live, admins, role, calls, timer, told, effects, unseen, swapped>>
    BY <1>16 DEF sessionVars
  <2>2. QED BY <1>t, <2>1, CallsStay, TokenStays DEF SessionInv, FormsInv
<1>17. QED BY <1>1, <1>2, <1>3, <1>4, <1>5, <1>6, <1>7, <1>8, <1>9, <1>10, <1>11,
              <1>12, <1>13, <1>14, <1>15, <1>16 DEF S!Next, S!Answer

\* What is not seen or under way is one effect at most.
LEMMA SessionInvMeans == SessionInv => RepeatedOnlyUnseen
<1> SUFFICES ASSUME SessionInv PROVE effects <= 1 + unseen
  BY DEF RepeatedOnlyUnseen, S!RepeatedOnlyUnseen
<1>1. effects \in Nat /\ unseen \in Nat /\ FormsOK(S!Forms(calls), told, effects, unseen) /\ IsFiniteSet(S!Forms(calls))
  BY FormsOfCalls DEF SessionInv, FormsInv
<1>2. PICK f : f = S!Forms(calls)
  OBVIOUS
<1>3. Cardinality(Adrift(f)) \in Nat
  BY <1>1, <1>2, Counted
<1>4. effects + Cardinality(Adrift(f)) <= unseen + (IF Knows(f, told) THEN 1 ELSE 0)
  BY <1>1, <1>2 DEF FormsOK
<1>5. QED BY <1>1, <1>3, <1>4

\* An unexpired session that ends with a step.
LEMMA SessionEndsSo ==
  ASSUME SessionInv, [S!Next]_sessionVars, token \in live, token' = 0
  PROVE  S!SessionEnds
<1>1. /\ made \in Nat /\ token \in 1 .. made /\ 0 \notin live /\ token # 0
      /\ site \in {"game", "panel"} /\ (~swapped => token = made)
  BY DEF SessionInv, TokenInv
<1>2. \A c \in calls : CallOK(c) /\ c \in TabCalls
  BY DEF SessionInv, CallsInv
<1>3. ASSUME NEW c \in calls, S!AnswerLoad(c) PROVE S!SessionEnds
  <2>1. c.kind = "load" /\ S!Hears(c) /\ S!Verdict(c) \in S!Ends(c) /\ S!SignOut(c)
    BY <1>1, <1>3 DEF S!AnswerLoad, S!Forget, S!Continue, S!Enter
  <2>2. S!Ends(c) \subseteq {401, 403} /\ CallOK(c)
    BY <1>1, <1>2, <2>1, LoadersAsk DEF S!Ends, CallOK
  <2>3. S!EndsBy(c)
    <3>1. CASE c.session = token
      <4>1. S!Bearer(c) \in live /\ S!Bearer(c) # 0
        BY <1>1, <3>1 DEF S!Bearer
      <4>2. S!Verdict(c) = 403 /\ S!Asked(c) = "admin"
        BY <2>1, <2>2, <4>1 DEF S!Verdict
      <4>3. QED BY <2>1, <2>2, <3>1, <4>2 DEF S!EndsBy, CallOK
    <3>2. CASE c.session # token
      BY <1>1, <2>1, <2>2, <3>2 DEF S!EndsBy, S!Hears, CallOK
    <3>3. QED BY <3>1, <3>2
  <2>4. QED BY <2>1, <2>3 DEF S!SessionEnds
<1>4. ASSUME NEW c \in calls, S!FormRefused(c) PROVE S!SessionEnds
  <2>1. c.kind = "form" /\ S!Verdict(c) \in S!Ends(c) /\ S!SignOut(c)
    BY <1>1, <1>4 DEF S!FormRefused
  <2>2. c.page \in FormPages(site)
    BY <1>2, <2>1 DEF CallOK
  <2>3. /\ S!Ends(c) \subseteq {401, 403} /\ (site = "game" => S!Ends(c) \subseteq {401})
        /\ S!Asked(c) # "me" /\ S!Asked(c) # "admin"
    BY <1>1, <2>1, <2>2, FormsAsk DEF S!Ends, S!Asked
  <2>4. S!Bearer(c) = (IF made \in live THEN made ELSE c.session)
    BY <2>3 DEF S!Bearer
  <2>5. S!Verdict(c) \in {401, 403} /\ S!Bearer(c) \notin live
    BY <1>1, <2>1, <2>3 DEF S!Verdict
  <2>6. made \notin live /\ c.session # token
    BY <2>4, <2>5
  <2>7. swapped
    BY <1>1, <2>6
  <2>8. QED BY <2>1, <2>6, <2>7 DEF S!SessionEnds, S!EndsBy
<1>5. CASE S!Logout \/ S!OtherTab
  BY <1>5 DEF S!SessionEnds
<1>6. CASE S!Login \/ S!TimerFires \/ S!Outage \/ S!Promote \/ S!Poll \/ S!Submit
  <2>1. token' # 0 \/ token = 0
    BY <1>1, <1>6 DEF S!Login, S!TimerFires, S!Outage, S!Promote, S!Poll, S!Submit, S!Enter
  <2>2. QED BY <1>1, <2>1
<1>7. ASSUME NEW p, S!Visit(p) PROVE FALSE
  BY <1>1, <1>7 DEF S!Visit, S!Enter
<1>8. ASSUME NEW c, S!Execute(c) \/ S!FormDone(c) \/ S!ReplyLost(c) PROVE FALSE
  BY <1>1, <1>8 DEF S!Execute, S!FormDone, S!ReplyLost
<1>9. ASSUME NEW s, S!Expire(s) PROVE FALSE
  BY <1>1, <1>9 DEF S!Expire
<1>10. CASE UNCHANGED sessionVars
  BY <1>1, <1>10 DEF sessionVars
<1>11. QED BY <1>3, <1>4, <1>5, <1>6, <1>7, <1>8, <1>9, <1>10 DEF S!Next, S!Answer

-----------------------------------------------------------------------------
(* The layers of the API.                                                  *)

Identities == {"token", "key", "key or token"}
GuardNames == AddressLimits \cup Identities \cup {"user limit", "role", "signature"}

\* The limiter of the API counts the path.
ApiCounts(p) == p[1] = "v1" /\ p[2] \notin Dedicated

\* The guards gs are enough for the name n under base: they find the user out,
\* ask for the role where they must, and have the address looked at by as many
\* limiters as the path has, the general one apart.
GuardsSuit(base, n, gs) ==
  /\ base # "webhooks" /\ n \notin Open => gs \cap Identities # {}
  /\ n \in AdminOnly => "role" \in gs
  /\ "api limit" \notin gs
  /\ IF \/ base = "v1" /\ n \notin Dedicated
           /\ n \notin AdminSpelled \cup {"Auth/login", "payments/initiate/"}
        \/ n \in AdminHead \cup {"auth/me"} \/ (base # "v1" /\ n # "auth/login")
     THEN gs \cap AddressLimits = {}
     ELSE \E x : gs \cap AddressLimits = {x}

\* The guards of a handler: strings, no two alike, of which the role is the last.
Ordered(g) ==
  /\ g \in Seq(GuardNames)
  /\ \A i \in DOMAIN g : g[i] = "role" => i = Len(g)
  /\ \A i, j \in DOMAIN g : g[i] = g[j] => i = j

\* A handler whose guards suit all its paths, the role being asked for last.
HandlerOK(l, bases) ==
  /\ l.ends
  /\ \A p \in l.paths : p[1] \in bases /\ GuardsSuit(p[1], p[2], Range(l.guards))
  /\ Ordered(l.guards)

\* A tuple of such handlers.
Handlers(t, bases) == (\E X : t \in Seq(X)) /\ \A i \in DOMAIN t : HandlerOK(t[i], bases)

\* What is in a tuple of guards.
LEMMA Tuples ==
  /\ \A x \in GuardNames : Ordered(<<x>>) /\ Range(<<x>>) = {x}
  /\ \A x, y \in GuardNames : x # "role" /\ x # y => Ordered(<<x, y>>) /\ Range(<<x, y>>) = {x, y}
  /\ \A x, y, z \in GuardNames : x # "role" /\ y # "role" /\ x # y /\ x # z /\ y # z =>
       Ordered(<<x, y, z>>) /\ Range(<<x, y, z>>) = {x, y, z}
<1>1. \A x \in GuardNames : Ordered(<<x>>)
  BY DEF Ordered
<1>2. \A x, y \in GuardNames : x # "role" /\ x # y => Ordered(<<x, y>>)
  BY DEF Ordered
<1>3. \A x, y, z \in GuardNames : x # "role" /\ y # "role" /\ x # y /\ x # z /\ y # z => Ordered(<<x, y, z>>)
  BY DEF Ordered
<1>4. \A x : Range(<<x>>) = {x}
  BY DEF Range
<1>5. \A x, y : Range(<<x, y>>) = {x, y}
  BY DEF Range
<1>6. \A x, y, z : Range(<<x, y, z>>) = {x, y, z}
  BY DEF Range
<1>7. QED BY <1>1, <1>2, <1>3, <1>4, <1>5, <1>6

\* The guards of the handlers.
LEMMA GuardsAre ==
  /\ Ordered(<<>>) /\ Range(<<>>) = {}
  /\ Ordered(<<"signature">>) /\ Range(<<"signature">>) = {"signature"}
  /\ Ordered(<<"auth limit">>) /\ Range(<<"auth limit">>) = {"auth limit"}
  /\ Ordered(<<"token">>) /\ Range(<<"token">>) = {"token"}
  /\ Ordered(<<"key">>) /\ Range(<<"key">>) = {"key"}
  /\ Ordered(<<"key or token">>) /\ Range(<<"key or token">>) = {"key or token"}
  /\ Ordered(<<"token", "role">>) /\ Range(<<"token", "role">>) = {"token", "role"}
  /\ Ordered(<<"payments limit", "token">>) /\ Range(<<"payments limit", "token">>) = {"payments limit", "token"}
  /\ Ordered(<<"admin limit", "token", "role">>) /\ Range(<<"admin limit", "token", "role">>) = {"admin limit", "token", "role"}
  /\ Ordered(<<"signature", "token", "user limit">>) /\ Range(<<"signature", "token", "user limit">>) = {"signature", "token", "user limit"}
<1>1. Ordered(<<>>) /\ Range(<<>>) = {}
  BY DEF Ordered, Range
<1>2. Ordered(<<"signature">>) /\ Range(<<"signature">>) = {"signature"}
  <2>1. PICK x : x = "signature"
    OBVIOUS
  <2>2. x \in GuardNames
    BY <2>1 DEF GuardNames, AddressLimits, Identities
  <2>3. Ordered(<<x>>) /\ Range(<<x>>) = {x}
    BY <2>2, Tuples
  <2>4. QED BY ONLY <2>1, <2>3
<1>3. Ordered(<<"auth limit">>) /\ Range(<<"auth limit">>) = {"auth limit"}
  <2>1. PICK x : x = "auth limit"
    OBVIOUS
  <2>2. x \in GuardNames
    BY <2>1 DEF GuardNames, AddressLimits, Identities
  <2>3. Ordered(<<x>>) /\ Range(<<x>>) = {x}
    BY <2>2, Tuples
  <2>4. QED BY ONLY <2>1, <2>3
<1>4. Ordered(<<"token">>) /\ Range(<<"token">>) = {"token"}
  <2>1. PICK x : x = "token"
    OBVIOUS
  <2>2. x \in GuardNames
    BY <2>1 DEF GuardNames, AddressLimits, Identities
  <2>3. Ordered(<<x>>) /\ Range(<<x>>) = {x}
    BY <2>2, Tuples
  <2>4. QED BY ONLY <2>1, <2>3
<1>5. Ordered(<<"key">>) /\ Range(<<"key">>) = {"key"}
  <2>1. PICK x : x = "key"
    OBVIOUS
  <2>2. x \in GuardNames
    BY <2>1 DEF GuardNames, AddressLimits, Identities
  <2>3. Ordered(<<x>>) /\ Range(<<x>>) = {x}
    BY <2>2, Tuples
  <2>4. QED BY ONLY <2>1, <2>3
<1>6. Ordered(<<"key or token">>) /\ Range(<<"key or token">>) = {"key or token"}
  <2>1. PICK x : x = "key or token"
    OBVIOUS
  <2>2. x \in GuardNames
    BY <2>1 DEF GuardNames, AddressLimits, Identities
  <2>3. Ordered(<<x>>) /\ Range(<<x>>) = {x}
    BY <2>2, Tuples
  <2>4. QED BY ONLY <2>1, <2>3
<1>7. Ordered(<<"token", "role">>) /\ Range(<<"token", "role">>) = {"token", "role"}
  <2>1. PICK x, y : x = "token" /\ y = "role"
    OBVIOUS
  <2>2. x \in GuardNames /\ y \in GuardNames /\ x # "role" /\ x # y
    BY <2>1 DEF GuardNames, AddressLimits, Identities
  <2>3. Ordered(<<x, y>>) /\ Range(<<x, y>>) = {x, y}
    BY <2>2, Tuples
  <2>4. QED BY ONLY <2>1, <2>3
<1>8. Ordered(<<"payments limit", "token">>) /\ Range(<<"payments limit", "token">>) = {"payments limit", "token"}
  <2>1. PICK x, y : x = "payments limit" /\ y = "token"
    OBVIOUS
  <2>2. x \in GuardNames /\ y \in GuardNames /\ x # "role" /\ x # y
    BY <2>1 DEF GuardNames, AddressLimits, Identities
  <2>3. Ordered(<<x, y>>) /\ Range(<<x, y>>) = {x, y}
    BY <2>2, Tuples
  <2>4. QED BY ONLY <2>1, <2>3
<1>9. Ordered(<<"admin limit", "token", "role">>) /\ Range(<<"admin limit", "token", "role">>) = {"admin limit", "token", "role"}
  <2>1. PICK x, y, z : x = "admin limit" /\ y = "token" /\ z = "role"
    OBVIOUS
  <2>2. /\ x \in GuardNames /\ y \in GuardNames /\ z \in GuardNames /\ x # "role" /\ y # "role"
        /\ x # y /\ x # z /\ y # z
    BY <2>1 DEF GuardNames, AddressLimits, Identities
  <2>3. Ordered(<<x, y, z>>) /\ Range(<<x, y, z>>) = {x, y, z}
    BY <2>2, Tuples
  <2>4. QED BY ONLY <2>1, <2>3
<1>10. Ordered(<<"signature", "token", "user limit">>) /\ Range(<<"signature", "token", "user limit">>) = {"signature", "token", "user limit"}
  <2>1. PICK x, y, z : x = "signature" /\ y = "token" /\ z = "user limit"
    OBVIOUS
  <2>2. /\ x \in GuardNames /\ y \in GuardNames /\ z \in GuardNames /\ x # "role" /\ y # "role"
        /\ x # y /\ x # z /\ y # z
    BY <2>1 DEF GuardNames, AddressLimits, Identities
  <2>3. Ordered(<<x, y, z>>) /\ Range(<<x, y, z>>) = {x, y, z}
    BY <2>2, Tuples
  <2>4. QED BY ONLY <2>1, <2>3
<1>11. QED BY <1>1, <1>2, <1>3, <1>4, <1>5, <1>6, <1>7, <1>8, <1>9, <1>10

\* A handler of the names ns, at the bases bs.
LEMMA SuitsAll ==
  ASSUME NEW bases, NEW bs, NEW ns, \A b0 \in bs : b0 \in bases,
         NEW g, Ordered(g),
         \A b0 \in bs, n \in ns : GuardsSuit(b0, n, Range(g)),
         NEW ps, ps = bs \X ns
  PROVE  HandlerOK(Handler(ps, g), bases)
<1>2. \A p \in ps : p[1] \in bs /\ p[2] \in ns
  OBVIOUS
<1>3. PICK l : l = Handler(ps, g)
  OBVIOUS
<1>4. l.paths = ps /\ l.guards = g /\ l.ends = TRUE
  BY <1>3 DEF Handler
<1>5. \A p \in l.paths : p[1] \in bases /\ GuardsSuit(p[1], p[2], Range(l.guards))
  BY <1>2, <1>4
<1>6. QED BY <1>3, <1>4, <1>5 DEF HandlerOK

\* The bases of the routes.
LEMMA BasesAre ==
  \A ns : /\ V1(ns) = {"v1"} \X ns /\ Legacy(ns) = {"api"} \X ns
          /\ Webhooks(ns) = {"webhooks"} \X ns
          /\ V1(ns) \cup Legacy(ns) = {"v1", "api"} \X ns
<1>1. ASSUME NEW ns PROVE V1(ns) \cup Legacy(ns) = {"v1", "api"} \X ns
  BY DEF V1, Legacy
<1>2. QED BY <1>1 DEF V1, Legacy, Webhooks

\* WebhookRoutes.
LEMMA WebhookOK == Handlers(WebhookRoutes, {"webhooks"})
<1>1. HandlerOK(Handler(Webhooks({"psp-deposit", "psp-dispute"}), <<"signature">>), {"webhooks"})
  <2>1. PICK g, ps, bs, ns :
          /\ g = <<"signature">> /\ bs = {"webhooks"} /\ ns = {"psp-deposit", "psp-dispute"}
          /\ ps = Webhooks({"psp-deposit", "psp-dispute"})
    OBVIOUS
  <2>2. ps = bs \X ns
    BY ONLY <2>1, BasesAre
  <2>3. Ordered(g) /\ Range(g) = {"signature"}
    BY <2>1, GuardsAre
  <2>4. \A b0 \in bs, n \in ns : GuardsSuit(b0, n, Range(g))
    BY <2>1, <2>3
       DEF GuardsSuit, Open, AdminOnly, AdminNames, AdminSpelled, AdminHead, AuthNames, Dedicated,
           Identities, AddressLimits
  <2>5. \A b0 \in bs : b0 \in {"webhooks"}
    BY <2>1
  <2>6. QED BY <2>1, <2>2, <2>3, <2>4, <2>5, SuitsAll
<1>2. HandlerOK(Handler(Webhooks({"autopay-itn"}), <<>>), {"webhooks"})
  <2>1. PICK g, ps, bs, ns :
          /\ g = <<>> /\ bs = {"webhooks"} /\ ns = {"autopay-itn"}
          /\ ps = Webhooks({"autopay-itn"})
    OBVIOUS
  <2>2. ps = bs \X ns
    BY ONLY <2>1, BasesAre
  <2>3. Ordered(g) /\ Range(g) = {}
    BY <2>1, GuardsAre
  <2>4. \A b0 \in bs, n \in ns : GuardsSuit(b0, n, Range(g))
    BY <2>1, <2>3
       DEF GuardsSuit, Open, AdminOnly, AdminNames, AdminSpelled, AdminHead, AuthNames, Dedicated,
           Identities, AddressLimits
  <2>5. \A b0 \in bs : b0 \in {"webhooks"}
    BY <2>1
  <2>6. QED BY <2>1, <2>2, <2>3, <2>4, <2>5, SuitsAll
<1>3. PICK h1, h2 : /\ h1 = Handler(Webhooks({"psp-deposit", "psp-dispute"}), <<"signature">>)
            /\ h2 = Handler(Webhooks({"autopay-itn"}), <<>>)
  OBVIOUS
<1>4. HandlerOK(h1, {"webhooks"}) /\ HandlerOK(h2, {"webhooks"})
  BY <1>1, <1>2, <1>3
<1>5. WebhookRoutes = <<h1, h2>>
  BY <1>3 DEF WebhookRoutes
<1>6. WebhookRoutes \in Seq({h1, h2})
  BY <1>5
<1>7. \A i \in DOMAIN WebhookRoutes : HandlerOK(WebhookRoutes[i], {"webhooks"})
  BY <1>4, <1>5
<1>8. QED BY <1>6, <1>7 DEF Handlers

\* Two sets of paths with the same guards.
LEMMA SuitsBoth ==
  ASSUME NEW bases, NEW g, NEW ps, NEW qs,
         HandlerOK(Handler(ps, g), bases), HandlerOK(Handler(qs, g), bases)
  PROVE  HandlerOK(Handler(ps \cup qs, g), bases)
<1>1. PICK l, m, n : l = Handler(ps, g) /\ m = Handler(qs, g) /\ n = Handler(ps \cup qs, g)
  OBVIOUS
<1>2. /\ l.paths = ps /\ m.paths = qs /\ n.paths = ps \cup qs /\ n.ends = TRUE
      /\ l.guards = g /\ m.guards = g /\ n.guards = g
  BY <1>1 DEF Handler
<1>3. QED BY <1>1, <1>2 DEF HandlerOK

\* AuthRoutes.
LEMMA AuthOK == Handlers(AuthRoutes, {"v1", "api"})
<1>1. HandlerOK(Handler(V1({"auth/login", "Auth/login"}), <<"auth limit">>), {"v1", "api"})
  <2>1. PICK g, ps, bs, ns :
          /\ g = <<"auth limit">> /\ bs = {"v1"} /\ ns = {"auth/login", "Auth/login"}
          /\ ps = V1({"auth/login", "Auth/login"})
    OBVIOUS
  <2>2. ps = bs \X ns
    BY ONLY <2>1, BasesAre
  <2>3. Ordered(g) /\ Range(g) = {"auth limit"}
    BY <2>1, GuardsAre
  <2>4. {"auth limit"} = Range(g) \cap AddressLimits
    BY <2>3 DEF AddressLimits
  <2>5. \A b0 \in bs, n \in ns : GuardsSuit(b0, n, Range(g))
    BY <2>1, <2>3, <2>4
       DEF GuardsSuit, Open, AdminOnly, AdminNames, AdminSpelled, AdminHead, AuthNames, Dedicated,
           Identities, AddressLimits
  <2>6. \A b0 \in bs : b0 \in {"v1", "api"}
    BY <2>1
  <2>7. QED BY <2>1, <2>2, <2>3, <2>5, <2>6, SuitsAll
<1>2. HandlerOK(Handler(Legacy({"auth/login"}), <<"auth limit">>), {"v1", "api"})
  <2>1. PICK g, ps, bs, ns :
          /\ g = <<"auth limit">> /\ bs = {"api"} /\ ns = {"auth/login"}
          /\ ps = Legacy({"auth/login"})
    OBVIOUS
  <2>2. ps = bs \X ns
    BY ONLY <2>1, BasesAre
  <2>3. Ordered(g) /\ Range(g) = {"auth limit"}
    BY <2>1, GuardsAre
  <2>4. {"auth limit"} = Range(g) \cap AddressLimits
    BY <2>3 DEF AddressLimits
  <2>5. \A b0 \in bs, n \in ns : GuardsSuit(b0, n, Range(g))
    BY <2>1, <2>3, <2>4
       DEF GuardsSuit, Open, AdminOnly, AdminNames, AdminSpelled, AdminHead, AuthNames, Dedicated,
           Identities, AddressLimits
  <2>6. \A b0 \in bs : b0 \in {"v1", "api"}
    BY <2>1
  <2>7. QED BY <2>1, <2>2, <2>3, <2>5, <2>6, SuitsAll
<1>3. HandlerOK(Handler(V1({"auth/login", "Auth/login"}) \cup Legacy({"auth/login"}), <<"auth limit">>),
                {"v1", "api"})
  BY <1>1, <1>2, SuitsBoth
<1>4. HandlerOK(Handler(V1({"auth/me"}) \cup Legacy({"auth/me"}), <<"token">>), {"v1", "api"})
  <2>1. PICK g, ps, bs, ns :
          /\ g = <<"token">> /\ bs = {"v1", "api"} /\ ns = {"auth/me"}
          /\ ps = V1({"auth/me"}) \cup Legacy({"auth/me"})
    OBVIOUS
  <2>2. ps = bs \X ns
    BY ONLY <2>1, BasesAre
  <2>3. Ordered(g) /\ Range(g) = {"token"}
    BY <2>1, GuardsAre
  <2>4. \A b0 \in bs, n \in ns : GuardsSuit(b0, n, Range(g))
    BY <2>1, <2>3
       DEF GuardsSuit, Open, AdminOnly, AdminNames, AdminSpelled, AdminHead, AuthNames, Dedicated,
           Identities, AddressLimits
  <2>5. \A b0 \in bs : b0 \in {"v1", "api"}
    BY <2>1
  <2>6. QED BY <2>1, <2>2, <2>3, <2>4, <2>5, SuitsAll
<1>5. PICK h1, h2 :
          /\ h1 = Handler(V1({"auth/login", "Auth/login"}) \cup Legacy({"auth/login"}), <<"auth limit">>)
          /\ h2 = Handler(V1({"auth/me"}) \cup Legacy({"auth/me"}), <<"token">>)
  OBVIOUS
<1>6. /\ HandlerOK(h1, {"v1", "api"})
      /\ HandlerOK(h2, {"v1", "api"})
  BY <1>1, <1>2, <1>3, <1>4, <1>5
<1>7. AuthRoutes = <<h1, h2>>
  BY <1>5 DEF AuthRoutes
<1>8. AuthRoutes \in Seq({h1, h2})
  BY <1>7
<1>9. \A i \in DOMAIN AuthRoutes : HandlerOK(AuthRoutes[i], {"v1", "api"})
  BY <1>6, <1>7
<1>10. QED BY <1>8, <1>9 DEF Handlers

\* AdminRoutes.
LEMMA AdminOK == Handlers(AdminRoutes, {"v1", "api"})
<1>1. HandlerOK(Handler(V1(AdminNames \cup AdminSpelled), <<"admin limit", "token", "role">>), {"v1", "api"})
  <2>1. PICK g, ps, bs, ns :
          /\ g = <<"admin limit", "token", "role">> /\ bs = {"v1"} /\ ns = {"admin/payouts", "admin/disputes", "Admin/payouts"}
          /\ ps = V1(AdminNames \cup AdminSpelled)
    OBVIOUS
  <2>2. ps = bs \X ns
    BY ONLY <2>1, BasesAre DEF AdminNames, AdminSpelled
  <2>3. Ordered(g) /\ Range(g) = {"admin limit", "token", "role"}
    BY <2>1, GuardsAre
  <2>4. {"admin limit"} = Range(g) \cap AddressLimits
    BY <2>3 DEF AddressLimits
  <2>5. \A b0 \in bs, n \in ns : GuardsSuit(b0, n, Range(g))
    BY <2>1, <2>3, <2>4
       DEF GuardsSuit, Open, AdminOnly, AdminNames, AdminSpelled, AdminHead, AuthNames, Dedicated,
           Identities, AddressLimits
  <2>6. \A b0 \in bs : b0 \in {"v1", "api"}
    BY <2>1
  <2>7. QED BY <2>1, <2>2, <2>3, <2>5, <2>6, SuitsAll
<1>2. HandlerOK(Handler(V1(AdminHead), <<"token", "role">>), {"v1", "api"})
  <2>1. PICK g, ps, bs, ns :
          /\ g = <<"token", "role">> /\ bs = {"v1"} /\ ns = {"HEAD admin/disputes"}
          /\ ps = V1(AdminHead)
    OBVIOUS
  <2>2. ps = bs \X ns
    BY ONLY <2>1, BasesAre DEF AdminHead
  <2>3. Ordered(g) /\ Range(g) = {"token", "role"}
    BY <2>1, GuardsAre
  <2>4. \A b0 \in bs, n \in ns : GuardsSuit(b0, n, Range(g))
    BY <2>1, <2>3
       DEF GuardsSuit, Open, AdminOnly, AdminNames, AdminSpelled, AdminHead, AuthNames, Dedicated,
           Identities, AddressLimits
  <2>5. \A b0 \in bs : b0 \in {"v1", "api"}
    BY <2>1
  <2>6. QED BY <2>1, <2>2, <2>3, <2>4, <2>5, SuitsAll
<1>3. HandlerOK(Handler(Legacy(AdminNames), <<"token", "role">>), {"v1", "api"})
  <2>1. PICK g, ps, bs, ns :
          /\ g = <<"token", "role">> /\ bs = {"api"} /\ ns = {"admin/payouts", "admin/disputes"}
          /\ ps = Legacy(AdminNames)
    OBVIOUS
  <2>2. ps = bs \X ns
    BY ONLY <2>1, BasesAre DEF AdminNames
  <2>3. Ordered(g) /\ Range(g) = {"token", "role"}
    BY <2>1, GuardsAre
  <2>4. \A b0 \in bs, n \in ns : GuardsSuit(b0, n, Range(g))
    BY <2>1, <2>3
       DEF GuardsSuit, Open, AdminOnly, AdminNames, AdminSpelled, AdminHead, AuthNames, Dedicated,
           Identities, AddressLimits
  <2>5. \A b0 \in bs : b0 \in {"v1", "api"}
    BY <2>1
  <2>6. QED BY <2>1, <2>2, <2>3, <2>4, <2>5, SuitsAll
<1>4. PICK h1, h2, h3 :
          /\ h1 = Handler(V1(AdminNames \cup AdminSpelled), <<"admin limit", "token", "role">>)
          /\ h2 = Handler(V1(AdminHead), <<"token", "role">>)
          /\ h3 = Handler(Legacy(AdminNames), <<"token", "role">>)
  OBVIOUS
<1>5. /\ HandlerOK(h1, {"v1", "api"})
      /\ HandlerOK(h2, {"v1", "api"})
      /\ HandlerOK(h3, {"v1", "api"})
  BY <1>1, <1>2, <1>3, <1>4
<1>6. AdminRoutes = <<h1, h2, h3>>
  BY <1>4 DEF AdminRoutes
<1>7. AdminRoutes \in Seq({h1, h2, h3})
  BY <1>6
<1>8. \A i \in DOMAIN AdminRoutes : HandlerOK(AdminRoutes[i], {"v1", "api"})
  BY <1>5, <1>6
<1>9. QED BY <1>7, <1>8 DEF Handlers

\* WalletRoutes.
LEMMA WalletOK == Handlers(WalletRoutes, {"v1", "api"})
<1>1. HandlerOK(Handler(Legacy({"wallet/deposit", "wallet/charge"}), <<"token">>), {"v1", "api"})
  <2>1. PICK g, ps, bs, ns :
          /\ g = <<"token">> /\ bs = {"api"} /\ ns = {"wallet/deposit", "wallet/charge"}
          /\ ps = Legacy({"wallet/deposit", "wallet/charge"})
    OBVIOUS
  <2>2. ps = bs \X ns
    BY ONLY <2>1, BasesAre
  <2>3. Ordered(g) /\ Range(g) = {"token"}
    BY <2>1, GuardsAre
  <2>4. \A b0 \in bs, n \in ns : GuardsSuit(b0, n, Range(g))
    BY <2>1, <2>3
       DEF GuardsSuit, Open, AdminOnly, AdminNames, AdminSpelled, AdminHead, AuthNames, Dedicated,
           Identities, AddressLimits
  <2>5. \A b0 \in bs : b0 \in {"v1", "api"}
    BY <2>1
  <2>6. QED BY <2>1, <2>2, <2>3, <2>4, <2>5, SuitsAll
<1>2. HandlerOK(Handler(V1({"wallet"}) \cup Legacy({"wallet"}), <<"token">>), {"v1", "api"})
  <2>1. PICK g, ps, bs, ns :
          /\ g = <<"token">> /\ bs = {"v1", "api"} /\ ns = {"wallet"}
          /\ ps = V1({"wallet"}) \cup Legacy({"wallet"})
    OBVIOUS
  <2>2. ps = bs \X ns
    BY ONLY <2>1, BasesAre
  <2>3. Ordered(g) /\ Range(g) = {"token"}
    BY <2>1, GuardsAre
  <2>4. \A b0 \in bs, n \in ns : GuardsSuit(b0, n, Range(g))
    BY <2>1, <2>3
       DEF GuardsSuit, Open, AdminOnly, AdminNames, AdminSpelled, AdminHead, AuthNames, Dedicated,
           Identities, AddressLimits
  <2>5. \A b0 \in bs : b0 \in {"v1", "api"}
    BY <2>1
  <2>6. QED BY <2>1, <2>2, <2>3, <2>4, <2>5, SuitsAll
<1>3. HandlerOK(Handler(V1({"wallet/fund"}) \cup Legacy({"wallet/fund"}), <<"token", "role">>), {"v1", "api"})
  <2>1. PICK g, ps, bs, ns :
          /\ g = <<"token", "role">> /\ bs = {"v1", "api"} /\ ns = {"wallet/fund"}
          /\ ps = V1({"wallet/fund"}) \cup Legacy({"wallet/fund"})
    OBVIOUS
  <2>2. ps = bs \X ns
    BY ONLY <2>1, BasesAre
  <2>3. Ordered(g) /\ Range(g) = {"token", "role"}
    BY <2>1, GuardsAre
  <2>4. \A b0 \in bs, n \in ns : GuardsSuit(b0, n, Range(g))
    BY <2>1, <2>3
       DEF GuardsSuit, Open, AdminOnly, AdminNames, AdminSpelled, AdminHead, AuthNames, Dedicated,
           Identities, AddressLimits
  <2>5. \A b0 \in bs : b0 \in {"v1", "api"}
    BY <2>1
  <2>6. QED BY <2>1, <2>2, <2>3, <2>4, <2>5, SuitsAll
<1>4. HandlerOK(Handler(V1({"trades", "trades/pay"}), <<"token">>), {"v1", "api"})
  <2>1. PICK g, ps, bs, ns :
          /\ g = <<"token">> /\ bs = {"v1"} /\ ns = {"trades", "trades/pay"}
          /\ ps = V1({"trades", "trades/pay"})
    OBVIOUS
  <2>2. ps = bs \X ns
    BY ONLY <2>1, BasesAre
  <2>3. Ordered(g) /\ Range(g) = {"token"}
    BY <2>1, GuardsAre
  <2>4. \A b0 \in bs, n \in ns : GuardsSuit(b0, n, Range(g))
    BY <2>1, <2>3
       DEF GuardsSuit, Open, AdminOnly, AdminNames, AdminSpelled, AdminHead, AuthNames, Dedicated,
           Identities, AddressLimits
  <2>5. \A b0 \in bs : b0 \in {"v1", "api"}
    BY <2>1
  <2>6. QED BY <2>1, <2>2, <2>3, <2>4, <2>5, SuitsAll
<1>5. HandlerOK(Handler(V1({"trades/get"}), <<>>), {"v1", "api"})
  <2>1. PICK g, ps, bs, ns :
          /\ g = <<>> /\ bs = {"v1"} /\ ns = {"trades/get"}
          /\ ps = V1({"trades/get"})
    OBVIOUS
  <2>2. ps = bs \X ns
    BY ONLY <2>1, BasesAre
  <2>3. Ordered(g) /\ Range(g) = {}
    BY <2>1, GuardsAre
  <2>4. \A b0 \in bs, n \in ns : GuardsSuit(b0, n, Range(g))
    BY <2>1, <2>3
       DEF GuardsSuit, Open, AdminOnly, AdminNames, AdminSpelled, AdminHead, AuthNames, Dedicated,
           Identities, AddressLimits
  <2>5. \A b0 \in bs : b0 \in {"v1", "api"}
    BY <2>1
  <2>6. QED BY <2>1, <2>2, <2>3, <2>4, <2>5, SuitsAll
<1>6. HandlerOK(Handler(V1({"safe-taxi/rides"}), <<"token">>), {"v1", "api"})
  <2>1. PICK g, ps, bs, ns :
          /\ g = <<"token">> /\ bs = {"v1"} /\ ns = {"safe-taxi/rides"}
          /\ ps = V1({"safe-taxi/rides"})
    OBVIOUS
  <2>2. ps = bs \X ns
    BY ONLY <2>1, BasesAre
  <2>3. Ordered(g) /\ Range(g) = {"token"}
    BY <2>1, GuardsAre
  <2>4. \A b0 \in bs, n \in ns : GuardsSuit(b0, n, Range(g))
    BY <2>1, <2>3
       DEF GuardsSuit, Open, AdminOnly, AdminNames, AdminSpelled, AdminHead, AuthNames, Dedicated,
           Identities, AddressLimits
  <2>5. \A b0 \in bs : b0 \in {"v1", "api"}
    BY <2>1
  <2>6. QED BY <2>1, <2>2, <2>3, <2>4, <2>5, SuitsAll
<1>7. PICK h1, h2, h3, h4, h5, h6 : /\ h1 = Handler(Legacy({"wallet/deposit", "wallet/charge"}), <<"token">>)
            /\ h2 = Handler(V1({"wallet"}) \cup Legacy({"wallet"}), <<"token">>)
            /\ h3 = Handler(V1({"wallet/fund"}) \cup Legacy({"wallet/fund"}), <<"token", "role">>)
            /\ h4 = Handler(V1({"trades", "trades/pay"}), <<"token">>)
            /\ h5 = Handler(V1({"trades/get"}), <<>>)
            /\ h6 = Handler(V1({"safe-taxi/rides"}), <<"token">>)
  OBVIOUS
<1>8. HandlerOK(h1, {"v1", "api"}) /\ HandlerOK(h2, {"v1", "api"}) /\ HandlerOK(h3, {"v1", "api"}) /\ HandlerOK(h4, {"v1", "api"}) /\ HandlerOK(h5, {"v1", "api"}) /\ HandlerOK(h6, {"v1", "api"})
  BY <1>1, <1>2, <1>3, <1>4, <1>5, <1>6, <1>7
<1>9. WalletRoutes = <<h1, h2, h3, h4, h5, h6>>
  BY <1>7 DEF WalletRoutes
<1>10. WalletRoutes \in Seq({h1, h2, h3, h4, h5, h6})
  BY <1>9
<1>11. \A i \in DOMAIN WalletRoutes : HandlerOK(WalletRoutes[i], {"v1", "api"})
  BY <1>8, <1>9
<1>12. QED BY <1>10, <1>11 DEF Handlers

\* PaymentRoutes.
LEMMA PaymentOK == Handlers(PaymentRoutes, {"v1", "api"})
<1>1. HandlerOK(Handler(V1({"connected-accounts", "charges"}), <<"token", "role">>), {"v1", "api"})
  <2>1. PICK g, ps, bs, ns :
          /\ g = <<"token", "role">> /\ bs = {"v1"} /\ ns = {"connected-accounts", "charges"}
          /\ ps = V1({"connected-accounts", "charges"})
    OBVIOUS
  <2>2. ps = bs \X ns
    BY ONLY <2>1, BasesAre
  <2>3. Ordered(g) /\ Range(g) = {"token", "role"}
    BY <2>1, GuardsAre
  <2>4. \A b0 \in bs, n \in ns : GuardsSuit(b0, n, Range(g))
    BY <2>1, <2>3
       DEF GuardsSuit, Open, AdminOnly, AdminNames, AdminSpelled, AdminHead, AuthNames, Dedicated,
           Identities, AddressLimits
  <2>5. \A b0 \in bs : b0 \in {"v1", "api"}
    BY <2>1
  <2>6. QED BY <2>1, <2>2, <2>3, <2>4, <2>5, SuitsAll
<1>2. HandlerOK(Handler(V1({"payment-methods"}), <<"token">>), {"v1", "api"})
  <2>1. PICK g, ps, bs, ns :
          /\ g = <<"token">> /\ bs = {"v1"} /\ ns = {"payment-methods"}
          /\ ps = V1({"payment-methods"})
    OBVIOUS
  <2>2. ps = bs \X ns
    BY ONLY <2>1, BasesAre
  <2>3. Ordered(g) /\ Range(g) = {"token"}
    BY <2>1, GuardsAre
  <2>4. \A b0 \in bs, n \in ns : GuardsSuit(b0, n, Range(g))
    BY <2>1, <2>3
       DEF GuardsSuit, Open, AdminOnly, AdminNames, AdminSpelled, AdminHead, AuthNames, Dedicated,
           Identities, AddressLimits
  <2>5. \A b0 \in bs : b0 \in {"v1", "api"}
    BY <2>1
  <2>6. QED BY <2>1, <2>2, <2>3, <2>4, <2>5, SuitsAll
<1>3. HandlerOK(Handler(V1({"payments/initiate", "payments/initiate/"}), <<"payments limit", "token">>), {"v1", "api"})
  <2>1. PICK g, ps, bs, ns :
          /\ g = <<"payments limit", "token">> /\ bs = {"v1"} /\ ns = {"payments/initiate", "payments/initiate/"}
          /\ ps = V1({"payments/initiate", "payments/initiate/"})
    OBVIOUS
  <2>2. ps = bs \X ns
    BY ONLY <2>1, BasesAre
  <2>3. Ordered(g) /\ Range(g) = {"payments limit", "token"}
    BY <2>1, GuardsAre
  <2>4. {"payments limit"} = Range(g) \cap AddressLimits
    BY <2>3 DEF AddressLimits
  <2>5. \A b0 \in bs, n \in ns : GuardsSuit(b0, n, Range(g))
    BY <2>1, <2>3, <2>4
       DEF GuardsSuit, Open, AdminOnly, AdminNames, AdminSpelled, AdminHead, AuthNames, Dedicated,
           Identities, AddressLimits
  <2>6. \A b0 \in bs : b0 \in {"v1", "api"}
    BY <2>1
  <2>7. QED BY <2>1, <2>2, <2>3, <2>5, <2>6, SuitsAll
<1>4. HandlerOK(Handler(V1({"payments/ride-finalize"}), <<"key">>), {"v1", "api"})
  <2>1. PICK g, ps, bs, ns :
          /\ g = <<"key">> /\ bs = {"v1"} /\ ns = {"payments/ride-finalize"}
          /\ ps = V1({"payments/ride-finalize"})
    OBVIOUS
  <2>2. ps = bs \X ns
    BY ONLY <2>1, BasesAre
  <2>3. Ordered(g) /\ Range(g) = {"key"}
    BY <2>1, GuardsAre
  <2>4. \A b0 \in bs, n \in ns : GuardsSuit(b0, n, Range(g))
    BY <2>1, <2>3
       DEF GuardsSuit, Open, AdminOnly, AdminNames, AdminSpelled, AdminHead, AuthNames, Dedicated,
           Identities, AddressLimits
  <2>5. \A b0 \in bs : b0 \in {"v1", "api"}
    BY <2>1
  <2>6. QED BY <2>1, <2>2, <2>3, <2>4, <2>5, SuitsAll
<1>5. HandlerOK(Handler(V1({"api-keys"}), <<"token">>), {"v1", "api"})
  <2>1. PICK g, ps, bs, ns :
          /\ g = <<"token">> /\ bs = {"v1"} /\ ns = {"api-keys"}
          /\ ps = V1({"api-keys"})
    OBVIOUS
  <2>2. ps = bs \X ns
    BY ONLY <2>1, BasesAre
  <2>3. Ordered(g) /\ Range(g) = {"token"}
    BY <2>1, GuardsAre
  <2>4. \A b0 \in bs, n \in ns : GuardsSuit(b0, n, Range(g))
    BY <2>1, <2>3
       DEF GuardsSuit, Open, AdminOnly, AdminNames, AdminSpelled, AdminHead, AuthNames, Dedicated,
           Identities, AddressLimits
  <2>5. \A b0 \in bs : b0 \in {"v1", "api"}
    BY <2>1
  <2>6. QED BY <2>1, <2>2, <2>3, <2>4, <2>5, SuitsAll
<1>6. PICK h1, h2, h3, h4, h5 : /\ h1 = Handler(V1({"connected-accounts", "charges"}), <<"token", "role">>)
            /\ h2 = Handler(V1({"payment-methods"}), <<"token">>)
            /\ h3 = Handler(V1({"payments/initiate", "payments/initiate/"}), <<"payments limit", "token">>)
            /\ h4 = Handler(V1({"payments/ride-finalize"}), <<"key">>)
            /\ h5 = Handler(V1({"api-keys"}), <<"token">>)
  OBVIOUS
<1>7. HandlerOK(h1, {"v1", "api"}) /\ HandlerOK(h2, {"v1", "api"}) /\ HandlerOK(h3, {"v1", "api"}) /\ HandlerOK(h4, {"v1", "api"}) /\ HandlerOK(h5, {"v1", "api"})
  BY <1>1, <1>2, <1>3, <1>4, <1>5, <1>6
<1>8. PaymentRoutes = <<h1, h2, h3, h4, h5>>
  BY <1>6 DEF PaymentRoutes
<1>9. PaymentRoutes \in Seq({h1, h2, h3, h4, h5})
  BY <1>8
<1>10. \A i \in DOMAIN PaymentRoutes : HandlerOK(PaymentRoutes[i], {"v1", "api"})
  BY <1>7, <1>8
<1>11. QED BY <1>9, <1>10 DEF Handlers

\* IntegrationRoutes.
LEMMA IntegrationOK == Handlers(IntegrationRoutes, {"v1", "api"})
<1>1. HandlerOK(Handler(V1({"integrations/me"}), <<"key">>), {"v1", "api"})
  <2>1. PICK g, ps, bs, ns :
          /\ g = <<"key">> /\ bs = {"v1"} /\ ns = {"integrations/me"}
          /\ ps = V1({"integrations/me"})
    OBVIOUS
  <2>2. ps = bs \X ns
    BY ONLY <2>1, BasesAre
  <2>3. Ordered(g) /\ Range(g) = {"key"}
    BY <2>1, GuardsAre
  <2>4. \A b0 \in bs, n \in ns : GuardsSuit(b0, n, Range(g))
    BY <2>1, <2>3
       DEF GuardsSuit, Open, AdminOnly, AdminNames, AdminSpelled, AdminHead, AuthNames, Dedicated,
           Identities, AddressLimits
  <2>5. \A b0 \in bs : b0 \in {"v1", "api"}
    BY <2>1
  <2>6. QED BY <2>1, <2>2, <2>3, <2>4, <2>5, SuitsAll
<1>2. HandlerOK(Handler(V1({"integrations/reads"}), <<"key or token">>), {"v1", "api"})
  <2>1. PICK g, ps, bs, ns :
          /\ g = <<"key or token">> /\ bs = {"v1"} /\ ns = {"integrations/reads"}
          /\ ps = V1({"integrations/reads"})
    OBVIOUS
  <2>2. ps = bs \X ns
    BY ONLY <2>1, BasesAre
  <2>3. Ordered(g) /\ Range(g) = {"key or token"}
    BY <2>1, GuardsAre
  <2>4. \A b0 \in bs, n \in ns : GuardsSuit(b0, n, Range(g))
    BY <2>1, <2>3
       DEF GuardsSuit, Open, AdminOnly, AdminNames, AdminSpelled, AdminHead, AuthNames, Dedicated,
           Identities, AddressLimits
  <2>5. \A b0 \in bs : b0 \in {"v1", "api"}
    BY <2>1
  <2>6. QED BY <2>1, <2>2, <2>3, <2>4, <2>5, SuitsAll
<1>3. HandlerOK(Handler(V1({"integrations/charges", "integrations/payouts"}), <<"key">>), {"v1", "api"})
  <2>1. PICK g, ps, bs, ns :
          /\ g = <<"key">> /\ bs = {"v1"} /\ ns = {"integrations/charges", "integrations/payouts"}
          /\ ps = V1({"integrations/charges", "integrations/payouts"})
    OBVIOUS
  <2>2. ps = bs \X ns
    BY ONLY <2>1, BasesAre
  <2>3. Ordered(g) /\ Range(g) = {"key"}
    BY <2>1, GuardsAre
  <2>4. \A b0 \in bs, n \in ns : GuardsSuit(b0, n, Range(g))
    BY <2>1, <2>3
       DEF GuardsSuit, Open, AdminOnly, AdminNames, AdminSpelled, AdminHead, AuthNames, Dedicated,
           Identities, AddressLimits
  <2>5. \A b0 \in bs : b0 \in {"v1", "api"}
    BY <2>1
  <2>6. QED BY <2>1, <2>2, <2>3, <2>4, <2>5, SuitsAll
<1>4. PICK h1, h2, h3 : /\ h1 = Handler(V1({"integrations/me"}), <<"key">>)
            /\ h2 = Handler(V1({"integrations/reads"}), <<"key or token">>)
            /\ h3 = Handler(V1({"integrations/charges", "integrations/payouts"}), <<"key">>)
  OBVIOUS
<1>5. HandlerOK(h1, {"v1", "api"}) /\ HandlerOK(h2, {"v1", "api"}) /\ HandlerOK(h3, {"v1", "api"})
  BY <1>1, <1>2, <1>3, <1>4
<1>6. IntegrationRoutes = <<h1, h2, h3>>
  BY <1>4 DEF IntegrationRoutes
<1>7. IntegrationRoutes \in Seq({h1, h2, h3})
  BY <1>6
<1>8. \A i \in DOMAIN IntegrationRoutes : HandlerOK(IntegrationRoutes[i], {"v1", "api"})
  BY <1>5, <1>6
<1>9. QED BY <1>7, <1>8 DEF Handlers

\* TournamentRoutes.
LEMMA TournamentOK == Handlers(TournamentRoutes, {"v1", "api"})
<1>1. HandlerOK(Handler(Legacy({"tournaments", "matches/resolve"}), <<"token">>), {"v1", "api"})
  <2>1. PICK g, ps, bs, ns :
          /\ g = <<"token">> /\ bs = {"api"} /\ ns = {"tournaments", "matches/resolve"}
          /\ ps = Legacy({"tournaments", "matches/resolve"})
    OBVIOUS
  <2>2. ps = bs \X ns
    BY ONLY <2>1, BasesAre
  <2>3. Ordered(g) /\ Range(g) = {"token"}
    BY <2>1, GuardsAre
  <2>4. \A b0 \in bs, n \in ns : GuardsSuit(b0, n, Range(g))
    BY <2>1, <2>3
       DEF GuardsSuit, Open, AdminOnly, AdminNames, AdminSpelled, AdminHead, AuthNames, Dedicated,
           Identities, AddressLimits
  <2>5. \A b0 \in bs : b0 \in {"v1", "api"}
    BY <2>1
  <2>6. QED BY <2>1, <2>2, <2>3, <2>4, <2>5, SuitsAll
<1>2. HandlerOK(Handler(V1({"matches/resolve"}), <<"signature", "token", "user limit">>), {"v1", "api"})
  <2>1. PICK g, ps, bs, ns :
          /\ g = <<"signature", "token", "user limit">> /\ bs = {"v1"} /\ ns = {"matches/resolve"}
          /\ ps = V1({"matches/resolve"})
    OBVIOUS
  <2>2. ps = bs \X ns
    BY ONLY <2>1, BasesAre
  <2>3. Ordered(g) /\ Range(g) = {"signature", "token", "user limit"}
    BY <2>1, GuardsAre
  <2>4. \A b0 \in bs, n \in ns : GuardsSuit(b0, n, Range(g))
    BY <2>1, <2>3
       DEF GuardsSuit, Open, AdminOnly, AdminNames, AdminSpelled, AdminHead, AuthNames, Dedicated,
           Identities, AddressLimits
  <2>5. \A b0 \in bs : b0 \in {"v1", "api"}
    BY <2>1
  <2>6. QED BY <2>1, <2>2, <2>3, <2>4, <2>5, SuitsAll
<1>3. PICK h1, h2 : /\ h1 = Handler(Legacy({"tournaments", "matches/resolve"}), <<"token">>)
            /\ h2 = Handler(V1({"matches/resolve"}), <<"signature", "token", "user limit">>)
  OBVIOUS
<1>4. HandlerOK(h1, {"v1", "api"}) /\ HandlerOK(h2, {"v1", "api"})
  BY <1>1, <1>2, <1>3
<1>5. TournamentRoutes = <<h1, h2>>
  BY <1>3 DEF TournamentRoutes
<1>6. TournamentRoutes \in Seq({h1, h2})
  BY <1>5
<1>7. \A i \in DOMAIN TournamentRoutes : HandlerOK(TournamentRoutes[i], {"v1", "api"})
  BY <1>4, <1>5
<1>8. QED BY <1>6, <1>7 DEF Handlers

\* Routes laid after at least four layers.
LEMMA LaidOn ==
  ASSUME NEW X, NEW s \in Seq(X), Len(s) >= 4, NEW Y, NEW t \in Seq(Y), NEW u, u = s \o t
  PROVE  /\ u \in Seq(X \cup Y) /\ Len(u) = Len(s) + Len(t) /\ Len(s) \in Nat /\ Len(t) \in Nat
         /\ \A i \in 1 .. 4 : u[i] = s[i]
         /\ \A i \in 5 .. Len(u) : (i <= Len(s) /\ u[i] = s[i]) \/ \E j \in DOMAIN t : u[i] = t[j]
         /\ \A i \in 5 .. Len(s) : u[i] = s[i] /\ i \in 5 .. Len(u)
         /\ \A j \in DOMAIN t : Len(s) + j \in 5 .. Len(u) /\ u[Len(s) + j] = t[j]
<1>1. u \in Seq(X \cup Y) /\ Len(u) = Len(s) + Len(t) /\ Len(s) \in Nat /\ Len(t) \in Nat
  OBVIOUS
<1>2. DOMAIN s = 1 .. Len(s) /\ DOMAIN t = 1 .. Len(t)
  OBVIOUS
<1>3. \A i \in 1 .. Len(s) : u[i] = s[i]
  OBVIOUS
<1>4. \A j \in 1 .. Len(t) : u[Len(s) + j] = t[j]
  OBVIOUS
<1>5. ASSUME NEW i \in 5 .. Len(u)
      PROVE  (i <= Len(s) /\ u[i] = s[i]) \/ \E j \in DOMAIN t : u[i] = t[j]
  <2>1. CASE i <= Len(s)
    BY <1>1, <1>3, <2>1
  <2>2. CASE ~(i <= Len(s))
    <3>1. PICK a \in Nat, b \in Nat, c \in Nat : a = Len(s) /\ b = Len(t) /\ c = Len(u) /\ c = a + b
      BY <1>1
    <3>2. i \in 5 .. c /\ ~(i <= a) /\ c = a + b
      BY <2>2, <3>1
    <3>3. \E j \in 1 .. b : i = a + j
      <4>1. i - a \in 1 .. b
        BY ONLY <3>2, a \in Nat, b \in Nat
      <4>2. i = a + (i - a)
        BY ONLY <3>2, a \in Nat, b \in Nat
      <4>3. QED BY ONLY <4>1, <4>2
    <3>4. PICK j \in 1 .. Len(t) : i = Len(s) + j
      BY <3>1, <3>3
    <3>5. QED BY <1>2, <1>4, <3>4
  <2>3. QED BY <2>1, <2>2
<1>6. \A i \in 1 .. 4 : i \in 1 .. Len(s)
  BY <1>1
<1>7. \A i \in 5 .. Len(s) : i \in 1 .. Len(s) /\ i \in 5 .. Len(u)
  BY <1>1
<1>8. \A j \in 1 .. Len(t) : Len(s) + j \in 5 .. Len(u)
  BY <1>1
<1>9. \A i \in 1 .. 4 : u[i] = s[i]
  BY ONLY <1>3, <1>6
<1>10. \A i \in 5 .. Len(s) : u[i] = s[i] /\ i \in 5 .. Len(u)
  BY ONLY <1>3, <1>7
<1>11. \A j \in DOMAIN t : Len(s) + j \in 5 .. Len(u) /\ u[Len(s) + j] = t[j]
  BY ONLY <1>2, <1>4, <1>8
<1>12. QED BY ONLY <1>1, <1>5, <1>9, <1>10, <1>11

\* The layers s: the webhooks' routes, the limiters, then handlers of the API
\* for the paths ps and more.
LaidOut(s, ps) ==
  /\ \E X : s \in Seq(X)
  /\ Len(s) >= 4
  /\ s[1] = WebhookRoutes[1] /\ s[2] = WebhookRoutes[2]
  /\ s[3] = Limiters[1] /\ s[4] = Limiters[2]
  /\ \A i \in 5 .. Len(s) : HandlerOK(s[i], {"v1", "api"})
  /\ \A p \in ps : \E i \in 5 .. Len(s) : p \in s[i].paths

PathsOf(t) == UNION {l.paths : l \in Range(t)}

LEMMA LaidWith ==
  ASSUME NEW s, NEW ps, LaidOut(s, ps), NEW t, Handlers(t, {"v1", "api"}), NEW u, u = s \o t
  PROVE  LaidOut(u, ps \cup PathsOf(t))
<1>1. PICK X : s \in Seq(X)
  BY DEF LaidOut
<1>2. PICK Y : t \in Seq(Y)
  BY DEF Handlers
<1>3. Len(s) >= 4
  BY DEF LaidOut
<1>4. /\ u \in Seq(X \cup Y) /\ Len(u) = Len(s) + Len(t) /\ Len(s) \in Nat /\ Len(t) \in Nat
      /\ \A i \in 1 .. 4 : u[i] = s[i]
      /\ \A i \in 5 .. Len(u) : (i <= Len(s) /\ u[i] = s[i]) \/ \E j \in DOMAIN t : u[i] = t[j]
      /\ \A i \in 5 .. Len(s) : u[i] = s[i] /\ i \in 5 .. Len(u)
      /\ \A j \in DOMAIN t : Len(s) + j \in 5 .. Len(u) /\ u[Len(s) + j] = t[j]
  BY <1>1, <1>2, <1>3, LaidOn
<1>5. ASSUME NEW i \in 5 .. Len(u) PROVE HandlerOK(u[i], {"v1", "api"})
  BY <1>4 DEF LaidOut, Handlers
<1>6. ASSUME NEW p \in ps \cup PathsOf(t) PROVE \E i \in 5 .. Len(u) : p \in u[i].paths
  <2>1. CASE p \in ps
    BY <1>4, <2>1 DEF LaidOut
  <2>2. CASE p \in PathsOf(t)
    <3>1. PICK j \in DOMAIN t : p \in t[j].paths
      BY <2>2 DEF PathsOf, Range
    <3>2. QED BY <1>4, <3>1
  <2>3. QED BY <2>1, <2>2
<1>7. Len(u) >= 4
  BY <1>3, <1>4
<1>8. QED BY <1>4, <1>5, <1>6, <1>7 DEF LaidOut

LEMMA LayersLaid ==
  LaidOut(Layers, PathsOf(AuthRoutes) \cup PathsOf(AdminRoutes) \cup PathsOf(WalletRoutes)
                  \cup PathsOf(PaymentRoutes) \cup PathsOf(IntegrationRoutes)
                  \cup PathsOf(TournamentRoutes))
<1>1. PICK w1, w2, l1, l2 : WebhookRoutes = <<w1, w2>> /\ Limiters = <<l1, l2>>
  BY DEF WebhookRoutes, Limiters
<1>2. PICK s : s = WebhookRoutes \o Limiters
  OBVIOUS
<1>3. /\ s \in Seq({w1, w2, l1, l2}) /\ Len(s) = 4
      /\ s[1] = w1 /\ s[2] = w2 /\ s[3] = l1 /\ s[4] = l2
  <2>1. PICK ws, ls : ws = <<w1, w2>> /\ ls = <<l1, l2>>
    OBVIOUS
  <2>2. ws \in Seq({w1, w2, l1, l2}) /\ Len(ws) = 2 /\ ws[1] = w1 /\ ws[2] = w2
    BY <2>1
  <2>3. ls \in Seq({w1, w2, l1, l2}) /\ Len(ls) = 2 /\ ls[1] = l1 /\ ls[2] = l2
    BY <2>1
  <2>4. s = ws \o ls
    BY <1>1, <1>2, <2>1
  <2>5. PICK X : X = {w1, w2, l1, l2}
    OBVIOUS
  <2>6. ws \in Seq(X) /\ ls \in Seq(X)
    BY <2>2, <2>3, <2>5
  <2>7. s \in Seq(X) /\ Len(s) = Len(ws) + Len(ls)
    BY ONLY <2>4, <2>6
  <2>8. /\ \A i \in 1 .. Len(ws) : s[i] = ws[i]
        /\ \A i \in 1 .. Len(ls) : s[Len(ws) + i] = ls[i]
    BY ONLY <2>4, <2>6
  <2>9. s[1] = ws[1] /\ s[2] = ws[2] /\ s[2 + 1] = ls[1] /\ s[2 + 2] = ls[2]
    BY ONLY <2>2, <2>3, <2>8
  <2>10. QED BY <2>2, <2>3, <2>5, <2>7, <2>9
<1>4. LaidOut(s, {})
  <2>1. /\ s[1] = WebhookRoutes[1] /\ s[2] = WebhookRoutes[2]
        /\ s[3] = Limiters[1] /\ s[4] = Limiters[2]
    BY <1>1, <1>3
  <2>2. \E X : s \in Seq(X)
    BY <1>3
  <2>3. QED BY <1>3, <2>1, <2>2 DEF LaidOut
<1>5. PICK s1 : s1 = s \o AuthRoutes
  OBVIOUS
<1>6. PICK s2 : s2 = s1 \o AdminRoutes
  OBVIOUS
<1>7. PICK s3 : s3 = s2 \o WalletRoutes
  OBVIOUS
<1>8. PICK s4 : s4 = s3 \o PaymentRoutes
  OBVIOUS
<1>9. PICK s5 : s5 = s4 \o IntegrationRoutes
  OBVIOUS
<1>10. PICK s6 : s6 = s5 \o TournamentRoutes
  OBVIOUS
<1>11. LaidOut(s1, {} \cup PathsOf(AuthRoutes))
  BY <1>4, <1>5, AuthOK, LaidWith
<1>12. LaidOut(s2, {} \cup PathsOf(AuthRoutes) \cup PathsOf(AdminRoutes))
  BY <1>6, <1>11, AdminOK, LaidWith
<1>13. LaidOut(s3, {} \cup PathsOf(AuthRoutes) \cup PathsOf(AdminRoutes) \cup PathsOf(WalletRoutes))
  BY <1>7, <1>12, WalletOK, LaidWith
<1>14. LaidOut(s4, {} \cup PathsOf(AuthRoutes) \cup PathsOf(AdminRoutes) \cup PathsOf(WalletRoutes)
                  \cup PathsOf(PaymentRoutes))
  BY <1>8, <1>13, PaymentOK, LaidWith
<1>15. LaidOut(s5, {} \cup PathsOf(AuthRoutes) \cup PathsOf(AdminRoutes) \cup PathsOf(WalletRoutes)
                  \cup PathsOf(PaymentRoutes) \cup PathsOf(IntegrationRoutes))
  BY <1>9, <1>14, IntegrationOK, LaidWith
<1>16. LaidOut(s6, {} \cup PathsOf(AuthRoutes) \cup PathsOf(AdminRoutes) \cup PathsOf(WalletRoutes)
                  \cup PathsOf(PaymentRoutes) \cup PathsOf(IntegrationRoutes)
                  \cup PathsOf(TournamentRoutes))
  BY <1>10, <1>15, TournamentOK, LaidWith
<1>17. s6 = Layers
  BY ONLY <1>2, <1>5, <1>6, <1>7, <1>8, <1>9, <1>10 DEF Layers
<1>18. QED BY <1>16, <1>17 DEF LaidOut

\* What the proofs need of the layers.
LEMMA LayersAre ==
  /\ Len(Layers) \in Nat /\ Len(Layers) >= 4
  /\ \A i \in 1 .. 2 : HandlerOK(Layers[i], {"webhooks"})
  /\ Layers[3] = Limiters[1] /\ Layers[4] = Limiters[2]
  /\ \A i \in 5 .. Len(Layers) : HandlerOK(Layers[i], {"v1", "api"})
  /\ \A p \in Paths :
       \/ p[1] = "webhooks" /\ \E i \in 1 .. 2 : p \in Layers[i].paths
       \/ p[1] # "webhooks" /\ \E i \in 5 .. Len(Layers) : p \in Layers[i].paths
<1> DEFINE Late == PathsOf(AuthRoutes) \cup PathsOf(AdminRoutes) \cup PathsOf(WalletRoutes)
                   \cup PathsOf(PaymentRoutes) \cup PathsOf(IntegrationRoutes)
                   \cup PathsOf(TournamentRoutes)
<1>1. LaidOut(Layers, Late)
  BY LayersLaid
<1>2. Paths = PathsOf(WebhookRoutes) \cup Late
  BY DEF Paths, PathsOf
<1> HIDE DEF Late
<1>3. Len(Layers) \in Nat /\ Len(Layers) >= 4
  <2>1. PICK X : Layers \in Seq(X)
    BY <1>1 DEF LaidOut
  <2>2. QED BY <1>1, <2>1 DEF LaidOut
<1>4. Layers[1] = WebhookRoutes[1] /\ Layers[2] = WebhookRoutes[2] /\ DOMAIN WebhookRoutes = 1 .. 2
  <2>1. PICK w1, w2 : WebhookRoutes = <<w1, w2>>
    BY DEF WebhookRoutes
  <2>2. DOMAIN WebhookRoutes = 1 .. 2
    BY <2>1
  <2>3. QED BY <1>1, <2>2 DEF LaidOut
<1>5. \A i \in 1 .. 2 : HandlerOK(Layers[i], {"webhooks"}) /\ Layers[i] = WebhookRoutes[i]
  <2>1. \A i \in 1 .. 2 : Layers[i] = WebhookRoutes[i]
    BY <1>4
  <2>2. QED BY <1>4, <2>1, WebhookOK DEF Handlers
<1>6. ASSUME NEW p \in PathsOf(WebhookRoutes)
      PROVE  p[1] = "webhooks" /\ \E i \in 1 .. 2 : p \in Layers[i].paths
  <2>1. PICK i \in 1 .. 2 : p \in Layers[i].paths
    BY <1>4, <1>5 DEF PathsOf, Range
  <2>2. QED BY <1>5, <2>1 DEF HandlerOK
<1>7. ASSUME NEW p \in Late
      PROVE  p[1] # "webhooks" /\ \E i \in 5 .. Len(Layers) : p \in Layers[i].paths
  <2>1. PICK i \in 5 .. Len(Layers) : p \in Layers[i].paths
    BY <1>1 DEF LaidOut
  <2>2. HandlerOK(Layers[i], {"v1", "api"})
    BY <1>1 DEF LaidOut
  <2>3. QED BY <2>1, <2>2 DEF HandlerOK
<1>8. Layers[3] = Limiters[1] /\ Layers[4] = Limiters[2] /\ \A i \in 5 .. Len(Layers) : HandlerOK(Layers[i], {"v1", "api"})
  BY <1>1 DEF LaidOut
<1>9. QED BY <1>2, <1>3, <1>5, <1>6, <1>7, <1>8

\* The two limiters.
LEMMA LimitersAre ==
  /\ Layers[3].guards = <<"api limit">> /\ Layers[3].ends = FALSE
  /\ \A p \in Paths : p \in Layers[3].paths <=> ApiCounts(p)
  /\ \A p \in Layers[4].paths : p[1] = "webhooks"
<1>1. PICK l3 : l3 = Limiter({p \in Paths : p[1] = "v1" /\ p[2] \notin Dedicated}, "api limit")
  OBVIOUS
<1>2. PICK l4 : l4 = Limiter({p \in Paths : p[1] = "webhooks"}, "webhook limit")
  OBVIOUS
<1>3. Limiters[1] = l3 /\ Limiters[2] = l4
  BY <1>1, <1>2 DEF Limiters
<1>4. /\ l3.guards = <<"api limit">> /\ l3.ends = FALSE
      /\ l3.paths = {p \in Paths : p[1] = "v1" /\ p[2] \notin Dedicated}
      /\ l4.paths = {p \in Paths : p[1] = "webhooks"}
  BY <1>1, <1>2 DEF Limiter
<1>5. QED BY <1>3, <1>4, LayersAre DEF ApiCounts

\* Any layer a path is handed to knows its guards.
LEMMA GuardsOrdered == \A i \in (1 .. Len(Layers)) \ {4} : Ordered(Layers[i].guards)
<1>1. \A i \in 1 .. Len(Layers) : i \in 1 .. 2 \/ i = 3 \/ i = 4 \/ i \in 5 .. Len(Layers)
  BY LayersAre
<1>2. Ordered(Layers[3].guards)
  <2>1. Ordered(<<"api limit">>)
    <3>1. PICK x : x = "api limit"
      OBVIOUS
    <3>2. x \in GuardNames
      BY <3>1 DEF GuardNames, AddressLimits
    <3>3. Ordered(<<x>>)
      BY <3>2, Tuples
    <3>4. QED BY ONLY <3>1, <3>3
  <2>2. QED BY <2>1, LimitersAre
<1>3. QED BY <1>1, <1>2, LayersAre DEF HandlerOK

LEMMA Earlier ==
  ASSUME NEW i \in Nat, NEW n \in Nat, NEW k \in i + 1 .. n, NEW m \in i + 1 .. k - 1
  PROVE  m \in i + 1 .. n /\ m < k
OBVIOUS

\* NextLayer is the first that has the path.
LEMMA NextLayerIs ==
  ASSUME NEW p \in Paths, NEW i \in {0, 3}, i = 3 => ApiCounts(p), NEW j, j = NextLayer(p, i)
  PROVE  /\ j \in i + 1 .. Len(Layers) /\ p \in Layers[j].paths
         /\ \A k \in i + 1 .. j - 1 : p \notin Layers[k].paths
<1> DEFINE mine == {k \in i + 1 .. Len(Layers) : p \in Layers[k].paths}
<1>1. mine \in SUBSET Nat
  BY LayersAre
<1>2. mine # {}
  <2>1. CASE p[1] = "webhooks"
    <3>1. i = 0
      BY <2>1 DEF ApiCounts
    <3>2. PICK k \in 1 .. 2 : p \in Layers[k].paths
      BY <2>1, LayersAre
    <3>3. k \in mine
      BY <3>1, <3>2, LayersAre
    <3>4. QED BY <3>3
  <2>2. CASE p[1] # "webhooks"
    <3>1. PICK k \in 5 .. Len(Layers) : p \in Layers[k].paths
      BY <2>2, LayersAre
    <3>2. k \in mine
      BY <3>1, LayersAre
    <3>3. QED BY <3>2
  <2>3. QED BY <2>1, <2>2
<1>3. PICK k \in mine : \A m \in mine : ~(<<m, k>> \in OpToRel(<, Nat))
  BY <1>1, <1>2, NatLessThanWellFounded, WFMin
<1>4. \A m \in mine : ~(m < k)
  BY <1>1, <1>3 DEF OpToRel
<1>5. k \in i + 1 .. Len(Layers) /\ p \in Layers[k].paths
  OBVIOUS
<1>6. PICK n \in Nat : n = Len(Layers)
  BY LayersAre
<1>7. ASSUME NEW m \in i + 1 .. k - 1
      PROVE  m \in i + 1 .. Len(Layers) /\ m < k
  <2>1. i \in Nat
    OBVIOUS
  <2>2. QED BY <1>5, <1>6, <2>1, Earlier
<1>8. \A m \in i + 1 .. k - 1 : p \notin Layers[m].paths
  BY <1>4, <1>7
<1>9. QED BY <1>5, <1>8 DEF NextLayer

\* The layer a path is handed to at first, and after the limiter of the API.
LEMMA Placed ==
  ASSUME NEW p \in Paths, NEW i \in {0, 3}, i = 3 => ApiCounts(p), NEW j, j = NextLayer(p, i)
  PROVE  /\ j \in (1 .. Len(Layers)) \ {4} /\ p \in Layers[j].paths
         /\ i = 3 => j # 3
         /\ i = 0 => (j = 3 <=> ApiCounts(p))
<1>1. /\ j \in i + 1 .. Len(Layers) /\ p \in Layers[j].paths
      /\ \A k \in i + 1 .. j - 1 : p \notin Layers[k].paths
  BY NextLayerIs
<1>2. j \in 1 .. Len(Layers) /\ (i = 3 => j # 3)
  BY <1>1, LayersAre
<1>3. j # 4
  <2>1. SUFFICES ASSUME j = 4 PROVE FALSE
    OBVIOUS
  <2>2. p[1] = "webhooks"
    BY <1>1, <2>1, LimitersAre
  <2>3. i = 0
    BY <2>2 DEF ApiCounts
  <2>4. PICK k \in 1 .. 2 : p \in Layers[k].paths
    BY <2>2, LayersAre
  <2>5. QED BY <1>1, <2>1, <2>3, <2>4
<1>4. ASSUME i = 0 PROVE j = 3 <=> ApiCounts(p)
  <2>1. j = 3 => ApiCounts(p)
    BY <1>1, LimitersAre
  <2>2. ASSUME ApiCounts(p) PROVE j = 3
    <3>1. p \in Layers[3].paths
      BY <2>2, LimitersAre
    <3>2. \A k \in 1 .. 2 : p \notin Layers[k].paths
      BY <2>2, LayersAre DEF HandlerOK, ApiCounts
    <3>3. ~(j > 3)
      BY <1>1, <1>4, <3>1
    <3>4. j # 1 /\ j # 2
      BY <1>1, <3>2
    <3>5. QED BY <1>2, <3>3, <3>4, LayersAre
  <2>3. QED BY <2>1, <2>2
<1>5. QED BY <1>1, <1>2, <1>3, <1>4

KeyRows == [owner : Users, state : {"active", "deleted", "expired"}]
AccessRequests ==
  [step : {"idle", "on", "compare", "served", "refused"}, path : Paths \cup {<<>>},
   token : Users \cup {Nobody}, key : Nat, layer : Nat, guard : Nat,
   user : Users \cup {Nobody}, role : {"none", "ADMIN", "PLAYER"},
   limits : SUBSET GuardNames, spared : SUBSET GuardNames, gone : SUBSET Nat]

EndedOf(ks) == {k \in DOMAIN ks : ks[k].state # "active"}

\* The guards of g before the n-th.
Passed(g, n) == {g[j] : j \in 1 .. n - 1}

\* The limiters of addresses the request has passed; each has counted or spared it.
Met(q) == (q.limits \cup q.spared) \ {"user limit"}
OneEach(q) == q.limits \cap q.spared = {} /\ q.spared \subseteq AddressLimits

\* The limiter that was passed before the layer i.
Before(p, i) == IF i # 3 /\ ApiCounts(p) THEN {"api limit"} ELSE {}

Identified(u, t, k, gone, ks) ==
  \/ u = t /\ u # Nobody
  \/ k # NoKey /\ k \notin gone /\ u = ks[k].owner

\* The guards g of the layer before the n-th have done their work.
WorkDone(q, g, ks) ==
  /\ q.guard \in 1 .. Len(g) + 1
  /\ Met(q) = Before(q.path, q.layer) \cup (Passed(g, q.guard) \cap AddressLimits) /\ OneEach(q)
  /\ Passed(g, q.guard) \cap Identities # {} => Identified(q.user, q.token, q.key, q.gone, ks)
  /\ q.role = "ADMIN" => q.user = Admin
  /\ "role" \in Passed(g, q.guard) => q.role = "ADMIN"
  /\ q.step = "compare" => q.key # NoKey /\ q.key \notin q.gone /\ q.guard <= Len(g)
                           /\ g[q.guard] \in {"key", "key or token"}
  /\ q.step = "served" => q.guard > Len(g)

Placement(q, ks) ==
  /\ q.path \in Paths /\ q.layer \in (1 .. Len(Layers)) \ {4} /\ q.path \in Layers[q.layer].paths
  /\ q.step = "served" => q.layer # 3
  /\ q.key \in {NoKey} \cup DOMAIN ks /\ q.gone \subseteq EndedOf(ks)

OnItsWay(q, ks) ==
  q.step \notin {"idle", "refused"} => Placement(q, ks) /\ WorkDone(q, Layers[q.layer].guards, ks)

AccessInv ==
  /\ tokens \in SUBSET Users /\ keys \in Seq(KeyRows) /\ request \in AccessRequests
  /\ request.step = "idle" => request = Idle
  /\ OnItsWay(request, keys)

\* One guard more.
LEMMA PassedOn ==
  ASSUME NEW g, Ordered(g)
  PROVE  /\ Len(g) \in Nat /\ DOMAIN g = 1 .. Len(g) /\ Passed(g, 1) = {}
         /\ Passed(g, Len(g) + 1) = Range(g)
         /\ \A n \in 1 .. Len(g) :
              /\ Passed(g, n + 1) = Passed(g, n) \cup {g[n]}
              /\ g[n] \in GuardNames /\ "role" \notin Passed(g, n) /\ g[n] \notin Passed(g, n)
<1>1. g \in Seq(GuardNames) /\ Len(g) \in Nat /\ DOMAIN g = 1 .. Len(g)
  BY DEF Ordered
<1>2. Passed(g, 1) = {}
  BY DEF Passed
<1>3. Passed(g, Len(g) + 1) = Range(g)
  BY <1>1 DEF Passed, Range
<1>4. ASSUME NEW n \in 1 .. Len(g)
      PROVE  Passed(g, n + 1) = Passed(g, n) \cup {g[n]}
  <2>1. ASSUME NEW x \in Passed(g, n + 1) PROVE x \in Passed(g, n) \cup {g[n]}
    <3>1. PICK j \in 1 .. n + 1 - 1 : x = g[j]
      BY DEF Passed
    <3>2. j = n \/ j \in 1 .. n - 1
      BY <3>1
    <3>3. QED BY <3>1, <3>2 DEF Passed
  <2>2. ASSUME NEW x \in Passed(g, n) \cup {g[n]} PROVE x \in Passed(g, n + 1)
    <3>1. PICK j \in 1 .. n : x = g[j]
      BY DEF Passed
    <3>2. QED BY <3>1 DEF Passed
  <2>3. QED BY <2>1, <2>2
<1>5. ASSUME NEW n \in 1 .. Len(g), "role" \in Passed(g, n) PROVE FALSE
  <2>1. PICK j \in 1 .. n - 1 : g[j] = "role"
    BY <1>5 DEF Passed
  <2>2. j \in DOMAIN g /\ j = Len(g)
    <3>1. j \in DOMAIN g
      BY <1>1, <2>1
    <3>2. QED BY <2>1, <3>1 DEF Ordered
  <2>3. QED BY <1>1, <2>1, <2>2
<1>6. ASSUME NEW n \in 1 .. Len(g), g[n] \in Passed(g, n) PROVE FALSE
  <2>1. PICK j \in 1 .. n - 1 : g[j] = g[n]
    BY <1>6 DEF Passed
  <2>2. j \in DOMAIN g /\ n \in DOMAIN g /\ j # n
    BY <1>1, <2>1
  <2>3. QED BY <2>1, <2>2 DEF Ordered
<1>7. QED BY <1>1, <1>2, <1>3, <1>4, <1>5, <1>6

\* What q met and r has met, where name has counted or spared r.
Counts(q, r, name) ==
  \/ name \notin AddressLimits /\ r.limits = q.limits /\ r.spared = q.spared
  \/ /\ name \in AddressLimits \cup {"user limit"}
     /\ r.limits = q.limits \cup {name} /\ r.spared = q.spared
  \/ name \in AddressLimits /\ r.limits = q.limits /\ r.spared = q.spared \cup {name}

\* The request q passes the guard named name of g, and is r.
Passes(q, r, g, name, ks) ==
  /\ q.step \in {"on", "compare"} /\ r.step = "on"
  /\ r.path = q.path /\ r.token = q.token /\ r.key = q.key /\ r.layer = q.layer /\ r.gone = q.gone
  /\ g = Layers[q.layer].guards /\ q.guard <= Len(g) /\ name = g[q.guard] /\ r.guard = q.guard + 1
  /\ Counts(q, r, name)
  /\ name \in Identities => Identified(r.user, r.token, r.key, r.gone, ks)
  /\ name \notin Identities => r.user = q.user
  /\ r.role = "ADMIN" => r.user = Admin
  /\ name = "role" => r.role = "ADMIN"

\* A guard is passed.
LEMMA GuardPassed ==
  ASSUME NEW ks, NEW g, Ordered(g), NEW q \in AccessRequests, WorkDone(q, g, ks),
         NEW r \in AccessRequests, NEW name, Passes(q, r, g, name, ks),
         name \notin Before(q.path, q.layer)
  PROVE  WorkDone(r, g, ks)
<1>1. q.guard \in 1 .. Len(g) /\ q.guard + 1 \in 1 .. Len(g) + 1
  <2>1. PICK n, m : n = q.guard /\ m = Len(g)
    OBVIOUS
  <2>2. m \in Nat
    BY <2>1, PassedOn
  <2>3. n \in 1 .. m + 1 /\ n <= m
    BY <2>1 DEF WorkDone, Passes
  <2>4. n \in 1 .. m /\ n + 1 \in 1 .. m + 1
    BY ONLY <2>2, <2>3
  <2>5. QED BY <2>1, <2>4
<1>2. /\ Passed(g, q.guard + 1) = Passed(g, q.guard) \cup {name}
      /\ "role" \notin Passed(g, q.guard) /\ name \notin Passed(g, q.guard)
  BY <1>1, PassedOn DEF Passes
<1>3. PICK before, after : before = Passed(g, q.guard) /\ after = Passed(g, r.guard)
  OBVIOUS
<1>4. after = before \cup {name} /\ "role" \notin before /\ name \notin before
  BY <1>2, <1>3 DEF Passes
<1>5. Met(r) = Before(r.path, r.layer) \cup (after \cap AddressLimits) /\ OneEach(r)
  <2>1. PICK prior : prior = Before(q.path, q.layer)
    OBVIOUS
  <2>2. /\ Met(q) = prior \cup (before \cap AddressLimits) /\ OneEach(q) /\ Counts(q, r, name)
        /\ Before(r.path, r.layer) = prior /\ name \notin prior
    BY <1>3, <2>1 DEF WorkDone, Passes
  <2>3. "user limit" \notin AddressLimits
    BY DEF AddressLimits
  <2>4. Met(r) = Met(q) \cup ({name} \cap AddressLimits)
    BY <2>2, <2>3 DEF Met, Counts
  <2>5. name \in AddressLimits => name \notin Met(q)
    BY <1>4, <2>2
  <2>6. OneEach(r)
    BY <2>2, <2>3, <2>5 DEF OneEach, Met, Counts
  <2>7. QED BY <1>4, <2>2, <2>4, <2>6
<1>6. after \cap Identities # {} => Identified(r.user, r.token, r.key, r.gone, ks)
  <2>1. name \notin Identities /\ before \cap Identities # {} => Identified(r.user, r.token, r.key, r.gone, ks)
    BY <1>3 DEF WorkDone, Passes
  <2>2. name \in Identities => Identified(r.user, r.token, r.key, r.gone, ks)
    BY DEF Passes
  <2>3. QED BY <1>4, <2>1, <2>2
<1>7. "role" \in after => r.role = "ADMIN"
  BY <1>4 DEF Passes
<1>8. r.guard \in 1 .. Len(g) + 1 /\ r.step = "on" /\ (r.role = "ADMIN" => r.user = Admin)
  BY <1>1 DEF Passes
<1>9. QED BY <1>3, <1>5, <1>6, <1>7, <1>8 DEF WorkDone

\* The rows of the keys move on.
LEMMA KeysMove ==
  ASSUME NEW q, NEW ks \in Seq(KeyRows), OnItsWay(q, ks), NEW ls \in Seq(KeyRows),
         \A k \in DOMAIN ks : k \in DOMAIN ls /\ ls[k].owner = ks[k].owner
                              /\ (ks[k].state # "active" => ls[k].state # "active")
  PROVE  OnItsWay(q, ls)
<1> SUFFICES ASSUME q.step \notin {"idle", "refused"}
             PROVE  Placement(q, ls) /\ WorkDone(q, Layers[q.layer].guards, ls)
  BY DEF OnItsWay
<1>1. Placement(q, ks) /\ WorkDone(q, Layers[q.layer].guards, ks)
  BY DEF OnItsWay
<1>2. EndedOf(ks) \subseteq EndedOf(ls)
  BY DEF EndedOf
<1>3. Placement(q, ls)
  BY <1>1, <1>2 DEF Placement
<1>4. PICK u, t, k, e : u = q.user /\ t = q.token /\ k = q.key /\ e = q.gone
  OBVIOUS
<1>5. Identified(u, t, k, e, ks) => Identified(u, t, k, e, ls)
  BY <1>1, <1>4 DEF Identified, Placement
<1>6. PICK g : g = Layers[q.layer].guards
  OBVIOUS
<1>7. WorkDone(q, g, ls)
  BY <1>1, <1>4, <1>5, <1>6 DEF WorkDone
<1>8. QED BY <1>3, <1>6, <1>7

\* Nobody asks at first.
LEMMA AccessInvInit == Init => AccessInv
<1> SUFFICES ASSUME Init PROVE AccessInv
  OBVIOUS
<1>1. Idle \in AccessRequests /\ Idle.step = "idle"
  BY DEF Idle, AccessRequests, NoKey
<1>2. tokens \in SUBSET Users /\ keys \in Seq(KeyRows) /\ request = Idle
  BY DEF Init
<1>3. QED BY <1>1, <1>2 DEF AccessInv, OnItsWay

\* Refused, the request bothers nobody.
LEMMA RefuseInv ==
  ASSUME AccessInv, Refuse
  PROVE  AccessInv'
<1>1. PICK r : r = [Idle EXCEPT !.step = "refused"]
  OBVIOUS
<1>2. r \in AccessRequests /\ r.step = "refused"
  BY <1>1 DEF Idle, AccessRequests, NoKey
<1>3. request' = r /\ UNCHANGED <<tokens, keys>>
  BY <1>1 DEF Refuse
<1>4. QED BY <1>2, <1>3 DEF AccessInv, OnItsWay

\* The limiter of the API is in its own layer only.
LEMMA NotBefore ==
  ASSUME NEW q, NEW ks, Placement(q, ks), NEW g, g = Layers[q.layer].guards,
         Ordered(g), q.guard \in 1 .. Len(g)
  PROVE  g[q.guard] \notin Before(q.path, q.layer)
<1>1. CASE q.layer = 3
  BY <1>1 DEF Before
<1>2. CASE q.layer # 3
  <2>1. PICK bases : HandlerOK(Layers[q.layer], bases)
    BY <1>2, LayersAre DEF Placement
  <2>2. "api limit" \notin Range(g)
    BY <2>1 DEF HandlerOK, Placement, GuardsSuit
  <2>3. g[q.guard] \in Range(g)
    BY PassedOn DEF Range
  <2>4. QED BY <2>2, <2>3 DEF Before
<1>3. QED BY <1>1, <1>2

\* The request after a guard it passed.
LEMMA PassInv ==
  ASSUME AccessInv, UNCHANGED <<tokens, keys>>, NEW q \in AccessRequests, q = request,
         NEW r \in AccessRequests, request' = r, NEW g, NEW name, Passes(q, r, g, name, keys)
  PROVE  AccessInv'
<1>1. PICK ks : ks = keys
  OBVIOUS
<1>2. Placement(q, ks) /\ WorkDone(q, g, ks)
  BY <1>1 DEF AccessInv, OnItsWay, Passes
<1>3. Ordered(g)
  BY <1>2, GuardsOrdered DEF Placement, Passes
<1>4. Passes(q, r, g, name, ks)
  BY <1>1
<1>5. WorkDone(r, g, ks)
  <2>1. q.guard \in 1 .. Len(g)
    <3>1. PICK n, m \in Nat : n = q.guard /\ m = Len(g)
      BY <1>3, PassedOn DEF AccessRequests
    <3>2. n \in 1 .. m + 1 /\ n <= m
      BY <1>2, <1>4, <3>1 DEF WorkDone, Passes
    <3>3. n \in 1 .. m
      BY ONLY <3>2, m \in Nat
    <3>4. QED BY <3>1, <3>3
  <2>2. g = Layers[q.layer].guards /\ name = g[q.guard]
    BY <1>4 DEF Passes
  <2>3. name \notin Before(q.path, q.layer)
    BY <1>2, <1>3, <2>1, <2>2, NotBefore
  <2>4. QED BY <1>2, <1>3, <1>4, <2>3, GuardPassed
<1>6. Placement(r, ks)
  BY <1>2, <1>4 DEF Placement, Passes
<1>7. OnItsWay(r, ks)
  BY <1>4, <1>5, <1>6 DEF OnItsWay, Passes
<1>8. request' = r /\ keys' = ks /\ tokens' = tokens
  BY <1>1
<1>9. r.step # "idle"
  BY <1>4 DEF Passes
<1>10. QED BY <1>7, <1>8, <1>9 DEF AccessInv

\* Who the request is for is known.
LEMMA PassAsInv ==
  ASSUME AccessInv, request.step = "on", request.guard <= Len(Guards), NEW u \in Users \cup {Nobody}, PassAs(u),
         Guard \notin AddressLimits,
         IF Guard \in Identities THEN u = request.token /\ u # Nobody ELSE u = request.user,
         Guard = "role" => u = Admin
  PROVE  AccessInv'
<1>1. PICK q \in AccessRequests : q = request
  BY DEF AccessInv
<1>2. PICK x \in {"none", "ADMIN", "PLAYER"} : x = Role(u) /\ (x = "ADMIN" <=> u = Admin)
  BY DEF Role
<1>3. PICK r, n : n = q.guard + 1 /\ r = [q EXCEPT !.guard = n, !.user = u, !.role = x]
  OBVIOUS
<1>n. n \in Nat
  BY <1>3 DEF AccessRequests
<1>4. /\ r \in AccessRequests /\ r.step = q.step /\ r.path = q.path /\ r.token = q.token
      /\ r.key = q.key /\ r.layer = q.layer /\ r.guard = q.guard + 1 /\ r.gone = q.gone
      /\ r.user = u /\ r.role = x /\ r.limits = q.limits /\ r.spared = q.spared
  BY <1>3, <1>n DEF AccessRequests
<1>5. request' = r /\ UNCHANGED <<tokens, keys>>
  BY <1>1, <1>2, <1>3 DEF PassAs
<1>6. PICK g, name : g = Layers[q.layer].guards /\ name = g[q.guard] /\ g = Guards /\ name = Guard
  BY <1>1 DEF Guards, Guard
<1>7. /\ name \in Identities => Identified(r.user, r.token, r.key, r.gone, keys)
      /\ name \notin Identities => r.user = q.user
  BY <1>1, <1>4, <1>6 DEF Identified
<1>8. Counts(q, r, name)
  BY <1>4, <1>6 DEF Counts
<1>9. q.step \in {"on", "compare"} /\ q.guard <= Len(g) /\ r.step = "on"
  BY <1>1, <1>4, <1>6
<1>10. (r.role = "ADMIN" => r.user = Admin) /\ (name = "role" => r.role = "ADMIN")
  BY <1>2, <1>4, <1>6
<1>11. Passes(q, r, g, name, keys)
  BY <1>4, <1>6, <1>7, <1>8, <1>9, <1>10 DEF Passes
<1>12. QED BY <1>1, <1>4, <1>5, <1>11, PassInv

\* Limiters and signatures tell nothing of the user.
LEMMA CountInv ==
  ASSUME AccessInv, LimitGuard \/ LimiterSpares \/ SignatureGuard
  PROVE  AccessInv'
<1>1. PICK q \in AccessRequests : q = request
  BY DEF AccessInv
<1>2. PICK g, name : g = Layers[q.layer].guards /\ name = g[q.guard] /\ g = Guards /\ name = Guard
  BY <1>1 DEF Guards, Guard
<1>3. q.step = "on" /\ q.guard <= Len(g) /\ name \notin Identities /\ name # "role"
  BY <1>1, <1>2 DEF LimitGuard, LimiterSpares, SignatureGuard, AtGuard, Identities, AddressLimits
<1>4. CASE Refuse
  BY <1>4, RefuseInv
<1>5. ASSUME NEW s \in SUBSET GuardNames, NEW f \in SUBSET GuardNames,
             request' = [request EXCEPT !.guard = @ + 1, !.limits = s, !.spared = f],
             UNCHANGED <<tokens, keys>>,
             \/ name \notin AddressLimits /\ s = q.limits /\ f = q.spared
             \/ name \in AddressLimits \cup {"user limit"} /\ s = q.limits \cup {name} /\ f = q.spared
             \/ name \in AddressLimits /\ s = q.limits /\ f = q.spared \cup {name}
      PROVE  AccessInv'
  <2>1. PICK r, n : n = q.guard + 1 /\ r = [q EXCEPT !.guard = n, !.limits = s, !.spared = f]
    OBVIOUS
  <2>n. n \in Nat
    BY <2>1 DEF AccessRequests
  <2>2. /\ r \in AccessRequests /\ r.step = q.step /\ r.path = q.path /\ r.token = q.token
        /\ r.key = q.key /\ r.layer = q.layer /\ r.guard = q.guard + 1 /\ r.gone = q.gone
        /\ r.user = q.user /\ r.role = q.role /\ r.limits = s /\ r.spared = f
    BY <2>1, <2>n DEF AccessRequests
  <2>3. request' = r
    BY <1>1, <1>5, <2>1
  <2>4. r.role = "ADMIN" => r.user = Admin
    BY <1>1, <1>3, <2>2 DEF AccessInv, OnItsWay, WorkDone
  <2>5. Counts(q, r, name)
    BY <1>5, <2>2 DEF Counts
  <2>6. /\ UNCHANGED <<tokens, keys>> /\ q = request /\ q.step \in {"on", "compare"} /\ r.step = "on"
        /\ (name \in Identities => Identified(r.user, r.token, r.key, r.gone, keys))
        /\ (name \notin Identities => r.user = q.user) /\ (name = "role" => r.role = "ADMIN")
    BY <1>1, <1>3, <1>5, <2>2
  <2>7. Passes(q, r, g, name, keys)
    BY <1>2, <1>3, <2>2, <2>4, <2>5, <2>6 DEF Passes
  <2>8. QED BY <2>2, <2>3, <2>6, <2>7, PassInv
<1>6. q.limits \in SUBSET GuardNames /\ q.spared \in SUBSET GuardNames
  BY DEF AccessRequests
<1>7. CASE /\ name \in AddressLimits \cup {"user limit"}
           /\ request' = [request EXCEPT !.guard = @ + 1, !.limits = @ \cup {Guard}]
           /\ UNCHANGED <<tokens, keys>>
  <2>1. PICK s \in SUBSET GuardNames, f \in SUBSET GuardNames : s = q.limits \cup {name} /\ f = q.spared
    BY <1>6, <1>7 DEF GuardNames
  <2>2. [q EXCEPT !.guard = @ + 1, !.limits = s] = [q EXCEPT !.guard = @ + 1, !.limits = s, !.spared = f]
    BY <2>1 DEF AccessRequests
  <2>3. request' = [request EXCEPT !.guard = @ + 1, !.limits = s, !.spared = f]
    BY <1>1, <1>2, <1>7, <2>1, <2>2
  <2>4. QED BY <1>5, <1>7, <2>1, <2>3
<1>8. CASE /\ name \in AddressLimits
           /\ request' = [request EXCEPT !.guard = @ + 1, !.spared = @ \cup {Guard}]
           /\ UNCHANGED <<tokens, keys>>
  <2>1. PICK s \in SUBSET GuardNames, f \in SUBSET GuardNames : s = q.limits /\ f = q.spared \cup {name}
    BY <1>6, <1>8 DEF GuardNames
  <2>2. [q EXCEPT !.guard = @ + 1, !.spared = f] = [q EXCEPT !.guard = @ + 1, !.limits = s, !.spared = f]
    BY <2>1 DEF AccessRequests
  <2>3. request' = [request EXCEPT !.guard = @ + 1, !.limits = s, !.spared = f]
    BY <1>1, <1>2, <1>8, <2>1, <2>2
  <2>4. UNCHANGED <<tokens, keys>> /\ name \in AddressLimits /\ s = q.limits /\ f = q.spared \cup {name}
    BY <1>8, <2>1
  <2>5. QED BY ONLY <1>5, <2>3, <2>4
<1>9. CASE /\ name = "signature" /\ request' = [request EXCEPT !.guard = @ + 1]
           /\ UNCHANGED <<tokens, keys>>
  <2>1. PICK s \in SUBSET GuardNames, f \in SUBSET GuardNames : s = q.limits /\ f = q.spared
    BY <1>6
  <2>2. [q EXCEPT !.guard = @ + 1] = [q EXCEPT !.guard = @ + 1, !.limits = s, !.spared = f]
    BY <2>1 DEF AccessRequests
  <2>3. request' = [request EXCEPT !.guard = @ + 1, !.limits = s, !.spared = f]
    BY <1>1, <1>9, <2>2
  <2>4. name \notin AddressLimits
    BY <1>9 DEF AddressLimits
  <2>5. QED BY <1>5, <1>9, <2>1, <2>3, <2>4
<1>10. QED
  BY <1>2, <1>4, <1>7, <1>8, <1>9 DEF LimitGuard, LimiterSpares, SignatureGuard, AtGuard

\* Tokens, and the role.
LEMMA TokensInv ==
  ASSUME AccessInv, TokenGuard \/ RoleGuard \/ NoKeyGuard
  PROVE  AccessInv'
<1>1. request.step = "on" /\ request.guard <= Len(Guards) /\ request.step # "idle"
      /\ tokens \in SUBSET Users /\ Nobody \notin Users /\ request \in AccessRequests
      /\ Admin \in Users
  BY ClientsAssumption DEF AccessAssumption, AccessInv, TokenGuard, RoleGuard, NoKeyGuard, AtGuard
<1>2. CASE Refuse
  BY <1>2, RefuseInv
<1>3. CASE Guard \in {"token", "key or token"} /\ request.token \in tokens /\ PassAs(request.token)
  <2>1. PICK u \in Users : u = request.token
    BY <1>1, <1>3
  <2>2. Guard \in Identities /\ Guard \notin AddressLimits /\ Guard # "role"
    BY <1>3 DEF Identities, AddressLimits
  <2>3. QED BY <1>1, <1>3, <2>1, <2>2, PassAsInv
<1>4. CASE Guard = "role" /\ request.role = "ADMIN" /\ PassAs(request.user)
  <2>1. PICK u : u = request.user
    OBVIOUS
  <2>2. u = Admin
    BY <1>1, <1>4, <2>1 DEF AccessInv, OnItsWay, WorkDone
  <2>3. Guard \notin Identities /\ Guard \notin AddressLimits
    BY <1>4 DEF Identities, AddressLimits
  <2>4. QED BY <1>1, <1>4, <2>1, <2>2, <2>3, PassAsInv
<1>5. QED BY <1>2, <1>3, <1>4 DEF TokenGuard, RoleGuard, NoKeyGuard, AtGuard

\* The row of the key is read, then compared.
LEMMA KeyInv ==
  ASSUME AccessInv, ValidateKey \/ KeyCompared
  PROVE  AccessInv'
<1>1. PICK q \in AccessRequests : q = request
  BY DEF AccessInv
<1>2. PICK g, name : g = Layers[q.layer].guards /\ name = g[q.guard] /\ g = Guards /\ name = Guard
  BY <1>1 DEF Guards, Guard
<1>3. q.step \in {"on", "compare"}
  BY <1>1 DEF ValidateKey, KeyCompared, AtGuard
<1>4. Placement(q, keys) /\ WorkDone(q, g, keys)
  BY <1>1, <1>2, <1>3 DEF AccessInv, OnItsWay
<1>5. UNCHANGED <<tokens, keys>>
  BY DEF ValidateKey, KeyCompared, Refuse
<1>6. CASE ValidateKey
  <2>1. CASE Refuse
    BY <2>1, RefuseInv
  <2>2. CASE request.key \notin Ended /\ request' = [request EXCEPT !.step = "compare"]
    <3>1. PICK r : r = [q EXCEPT !.step = "compare"]
      OBVIOUS
    <3>2. /\ r \in AccessRequests /\ r.step = "compare" /\ r.path = q.path /\ r.token = q.token
          /\ r.key = q.key /\ r.layer = q.layer /\ r.guard = q.guard /\ r.gone = q.gone
          /\ r.user = q.user /\ r.role = q.role /\ r.limits = q.limits /\ r.spared = q.spared
      BY <3>1 DEF AccessRequests
    <3>3. q.guard <= Len(g) /\ name \in {"key", "key or token"} /\ q.key # NoKey
      BY <1>1, <1>2, <1>6 DEF ValidateKey, AtGuard
    <3>4. q.key \notin q.gone
      BY <1>1, <1>4, <2>2 DEF Placement, Ended, EndedOf
    <3>5. Placement(r, keys)
      BY <1>4, <3>2 DEF Placement
    <3>6. WorkDone(r, g, keys)
      BY <1>2, <1>4, <3>2, <3>3, <3>4 DEF WorkDone, Met, OneEach
    <3>7. OnItsWay(r, keys)
      BY <1>2, <3>2, <3>5, <3>6 DEF OnItsWay
    <3>8. request' = r /\ r.step # "idle"
      BY <1>1, <2>2, <3>1, <3>2
    <3>9. QED BY <1>5, <3>2, <3>7, <3>8 DEF AccessInv
  <2>3. QED BY <1>6, <2>1, <2>2 DEF ValidateKey
<1>7. CASE KeyCompared
  <2>1. /\ q.step = "compare" /\ q.key # NoKey /\ q.key \notin q.gone /\ q.guard <= Len(g)
        /\ name \in {"key", "key or token"} /\ q.key \in DOMAIN keys
    BY <1>1, <1>2, <1>4, <1>7 DEF KeyCompared, WorkDone, Placement
  <2>2. PICK u : u = keys[q.key].owner
    OBVIOUS
  <2>3. u \in Users
    <3>1. keys \in Seq(KeyRows)
      BY DEF AccessInv
    <3>2. \A k \in DOMAIN keys : keys[k] \in KeyRows
      BY <3>1
    <3>n. keys[q.key] \in KeyRows
      BY <2>1, <3>2
    <3>3. QED BY <2>2, <3>n DEF KeyRows
  <2>4. PICK x \in {"none", "ADMIN", "PLAYER"} : x = Role(u) /\ (x = "ADMIN" => u = Admin)
    BY DEF Role
  <2>5. PICK r, n : n = q.guard + 1
                    /\ r = [q EXCEPT !.step = "on", !.guard = n, !.user = u, !.role = x]
    OBVIOUS
  <2>6. n \in Nat
    BY <2>5 DEF AccessRequests
  <2>7. /\ r \in AccessRequests /\ r.step = "on" /\ r.path = q.path /\ r.token = q.token
        /\ r.key = q.key /\ r.layer = q.layer /\ r.guard = q.guard + 1 /\ r.gone = q.gone
        /\ r.user = u /\ r.role = x /\ r.limits = q.limits /\ r.spared = q.spared
    BY <2>3, <2>5, <2>6 DEF AccessRequests
  <2>8. request' = r
    BY <1>1, <1>7, <2>2, <2>4, <2>5 DEF KeyCompared
  <2>9. Identified(r.user, r.token, r.key, r.gone, keys)
    BY <2>1, <2>2, <2>7 DEF Identified
  <2>10. /\ name \in Identities /\ name # "role"
         /\ Counts(q, r, name)
    BY <2>1, <2>7 DEF Identities, AddressLimits, Counts
  <2>11. Passes(q, r, g, name, keys)
    BY <1>2, <1>3, <2>1, <2>4, <2>7, <2>9, <2>10 DEF Passes
  <2>12. QED BY <1>1, <1>5, <2>7, <2>8, <2>11, PassInv
<1>8. QED BY <1>6, <1>7

\* A request is handed to a layer: none of its guards is passed.
LEMMA HandedTo ==
  ASSUME NEW q \in AccessRequests, NEW ks, q.step = "on", Placement(q, ks), q.guard = 1,
         Met(q) = Before(q.path, q.layer), OneEach(q), q.role = "ADMIN" => q.user = Admin
  PROVE  OnItsWay(q, ks)
<1>1. PICK g : g = Layers[q.layer].guards
  OBVIOUS
<1>2. Ordered(g)
  BY <1>1, GuardsOrdered DEF Placement
<1>3. Len(g) \in Nat /\ Passed(g, 1) = {}
  BY <1>2, PassedOn
<1>4. 1 \in 1 .. Len(g) + 1
  BY ONLY <1>3
<1>5. WorkDone(q, g, ks)
  BY <1>3, <1>4 DEF WorkDone
<1>6. QED BY <1>1, <1>5 DEF OnItsWay

\* A request is sent.
LEMMA SendInv ==
  ASSUME AccessInv, NEW p \in Paths, NEW t \in Users \cup {Nobody}, NEW k \in {NoKey} \cup DOMAIN keys,
         Send(p, t, k)
  PROVE  AccessInv'
<1>1. UNCHANGED <<tokens, keys>> /\ keys \in Seq(KeyRows)
  BY DEF Send, AccessInv
<1>2. PICK j, e : j = NextLayer(p, 0) /\ e = Ended
  OBVIOUS
<1>3. j \in (1 .. Len(Layers)) \ {4} /\ p \in Layers[j].paths /\ (j = 3 <=> ApiCounts(p))
  BY <1>2, Placed
<1>4. j \in Nat /\ k \in Nat /\ e \in SUBSET Nat /\ e = EndedOf(keys)
  BY <1>1, <1>2, <1>3, LayersAre DEF Ended, EndedOf, NoKey
<1>5. PICK i \in AccessRequests : i = Idle /\ i.role = "none" /\ i.limits = {} /\ i.spared = {}
  <2>1. Idle \in AccessRequests /\ Idle.role = "none" /\ Idle.limits = {} /\ Idle.spared = {}
    BY DEF Idle, AccessRequests, NoKey
  <2>2. QED BY <2>1
<1>6. PICK r : /\ r = [i EXCEPT !.step = "on", !.path = p, !.token = t, !.key = k,
                                !.layer = j, !.guard = 1, !.gone = e]
               /\ request' = r
  BY <1>2, <1>5 DEF Send
<1>7. /\ r \in AccessRequests /\ r.step = "on" /\ r.path = p /\ r.key = k /\ r.layer = j
      /\ r.guard = 1 /\ r.role = "none" /\ r.limits = {} /\ r.spared = {} /\ r.gone = e
  BY <1>4, <1>5, <1>6 DEF AccessRequests
<1>8. Placement(r, keys)
  BY <1>3, <1>4, <1>7 DEF Placement
<1>9. Before(p, j) = {}
  BY <1>3 DEF Before
<1>10. OnItsWay(r, keys)
  <2>1. Met(r) = {} /\ OneEach(r)
    BY <1>7 DEF Met, OneEach
  <2>2. QED BY <1>7, <1>8, <1>9, <2>1, HandedTo
<1>11. r.step # "idle"
  BY <1>7
<1>12. QED BY <1>1, <1>6, <1>7, <1>10, <1>11 DEF AccessInv

\* A layer is behind it: the handler runs, or the limiter hands it on.
LEMMA LayerPassedInv ==
  ASSUME AccessInv, LayerPassed
  PROVE  AccessInv'
<1>1. PICK q \in AccessRequests : q = request
  BY DEF AccessInv
<1>2. PICK g, l : l = q.layer /\ g = Layers[l].guards /\ g = Guards
  BY <1>1 DEF Guards
<1>3. /\ q.step = "on" /\ q.guard > Len(g) /\ UNCHANGED <<tokens, keys>>
      /\ request' = IF Layers[l].ends THEN [q EXCEPT !.step = "served"]
                    ELSE [q EXCEPT !.guard = 1, !.layer = NextLayer(q.path, l)]
  BY <1>1, <1>2 DEF LayerPassed
<1>4. Placement(q, keys) /\ WorkDone(q, g, keys)
  BY <1>1, <1>2, <1>3 DEF AccessInv, OnItsWay
<1>5. l = 3 <=> ~Layers[l].ends
  <2>1. l \in 1 .. 2 \/ l = 3 \/ l \in 5 .. Len(Layers)
    BY <1>2, <1>4, LayersAre DEF Placement
  <2>2. QED BY <2>1, LayersAre, LimitersAre DEF HandlerOK
<1>6. CASE Layers[l].ends
  <2>1. PICK r : r = [q EXCEPT !.step = "served"]
    OBVIOUS
  <2>2. /\ r \in AccessRequests /\ r.step = "served" /\ r.path = q.path /\ r.token = q.token
        /\ r.key = q.key /\ r.layer = q.layer /\ r.guard = q.guard /\ r.gone = q.gone
        /\ r.user = q.user /\ r.role = q.role /\ r.limits = q.limits /\ r.spared = q.spared
    BY <2>1 DEF AccessRequests
  <2>3. Placement(r, keys)
    BY <1>2, <1>4, <1>5, <1>6, <2>2 DEF Placement
  <2>4. WorkDone(r, g, keys)
    BY <1>3, <1>4, <2>2 DEF WorkDone, Met, OneEach
  <2>5. OnItsWay(r, keys)
    BY <1>2, <2>2, <2>3, <2>4 DEF OnItsWay
  <2>6. request' = r /\ r.step # "idle"
    BY <1>3, <1>6, <2>1, <2>2
  <2>7. QED BY <1>3, <2>2, <2>5, <2>6 DEF AccessInv
<1>7. CASE ~Layers[l].ends
  <2>1. l = 3 /\ q.path \in Paths /\ ApiCounts(q.path)
    BY <1>2, <1>4, <1>5, <1>7, LimitersAre DEF Placement
  <2>2. PICK j : j = NextLayer(q.path, 3)
    OBVIOUS
  <2>3. j \in (1 .. Len(Layers)) \ {4} /\ q.path \in Layers[j].paths /\ j # 3
    BY <2>1, <2>2, Placed
  <2>4. j \in Nat
    BY <2>3, LayersAre
  <2>5. PICK r : r = [q EXCEPT !.guard = 1, !.layer = j]
    OBVIOUS
  <2>6. /\ r \in AccessRequests /\ r.step = "on" /\ r.path = q.path /\ r.token = q.token
        /\ r.key = q.key /\ r.layer = j /\ r.guard = 1 /\ r.gone = q.gone
        /\ r.user = q.user /\ r.role = q.role /\ r.limits = q.limits /\ r.spared = q.spared
    BY <1>3, <2>4, <2>5 DEF AccessRequests
  <2>7. Placement(r, keys)
    BY <1>4, <2>3, <2>6 DEF Placement
  <2>8. Met(r) = Before(r.path, r.layer) /\ OneEach(r)
    <3>1. g = <<"api limit">>
      BY <1>2, <2>1, LimitersAre
    <3>2. Passed(g, q.guard) \cap AddressLimits = {"api limit"}
      <4>1. PICK x : x = "api limit"
        OBVIOUS
      <4>2. Ordered(g) /\ Len(g) = 1
        <5>1. Ordered(g)
          BY <1>2, <1>4, GuardsOrdered DEF Placement
        <5>2. g = <<x>>
          BY <3>1, <4>1
        <5>3. Len(g) = 1
          BY ONLY <5>2
        <5>4. QED BY <5>1, <5>3
      <4>3. q.guard \in 1 .. Len(g) + 1
        BY <1>4 DEF WorkDone
      <4>4. q.guard = Len(g) + 1
        BY <1>3, <4>2, <4>3
      <4>5. Passed(g, Len(g) + 1) = Range(g)
        BY <4>2, PassedOn
      <4>6. Range(g) = {"api limit"}
        <5>1. Range(<<x>>) = {x}
          BY DEF Range
        <5>2. QED BY <3>1, <4>1, <5>1
      <4>7. QED BY <4>4, <4>5, <4>6 DEF AddressLimits
    <3>3. Before(q.path, 3) = {}
      BY DEF Before
    <3>4. Met(q) = {"api limit"} /\ OneEach(q)
      BY <1>2, <1>4, <2>1, <3>2, <3>3 DEF WorkDone
    <3>5. QED BY <2>1, <2>3, <2>6, <3>4 DEF Before, Met, OneEach
  <2>9. OnItsWay(r, keys)
    BY <1>4, <2>6, <2>7, <2>8, HandedTo DEF WorkDone
  <2>10. request' = r /\ r.step # "idle"
    BY <1>3, <1>7, <2>1, <2>2, <2>5, <2>6
  <2>11. QED BY <1>3, <2>6, <2>9, <2>10 DEF AccessInv
<1>8. QED BY <1>6, <1>7

\* Accounts, tokens and keys come and go.
LEMMA AccountsInv ==
  ASSUME AccessInv, UNCHANGED request, tokens' \in SUBSET Users, keys' \in Seq(KeyRows),
         \A k \in DOMAIN keys : k \in DOMAIN keys' /\ keys'[k].owner = keys[k].owner
                                /\ (keys[k].state # "active" => keys'[k].state # "active")
  PROVE  AccessInv'
<1>1. PICK q, ls : q = request /\ ls = keys'
  OBVIOUS
<1>2. keys \in Seq(KeyRows) /\ ls \in Seq(KeyRows) /\ OnItsWay(q, keys)
  BY <1>1 DEF AccessInv
<1>3. OnItsWay(q, ls)
  BY <1>1, <1>2, KeysMove
<1>4. request' = q
  BY <1>1
<1>5. QED BY <1>1, <1>3, <1>4 DEF AccessInv

\* The invariant is kept by every step.
LEMMA AccessInvNext == AccessInv /\ [Next]_vars => AccessInv'
<1> SUFFICES ASSUME AccessInv, [Next]_vars PROVE AccessInv'
  OBVIOUS
<1>1. tokens \in SUBSET Users /\ keys \in Seq(KeyRows)
  BY DEF AccessInv
<1>2. ASSUME NEW u \in Users, Register(u) \/ Login(u) \/ TokenExpires(u) PROVE AccessInv'
  <2>1. UNCHANGED <<request, keys>> /\ tokens' \in SUBSET Users
    BY <1>1, <1>2 DEF Register, Login, TokenExpires
  <2>2. QED BY <1>1, <2>1, AccountsInv
<1>3. ASSUME NEW u \in Users, CreateKey(u) PROVE AccessInv'
  <2>1. PICK row : row = [owner |-> u, state |-> "active"]
    OBVIOUS
  <2>2. row \in KeyRows
    BY <2>1 DEF KeyRows
  <2>3. keys' = Append(keys, row) /\ UNCHANGED <<tokens, request>>
    BY <1>3, <2>1 DEF CreateKey
  <2>4. keys' \in Seq(KeyRows) /\ \A k \in DOMAIN keys : k \in DOMAIN keys' /\ keys'[k] = keys[k]
    BY <1>1, <2>2, <2>3
  <2>5. QED BY <1>1, <2>3, <2>4, AccountsInv
<1>4. ASSUME NEW k \in DOMAIN keys, NEW s \in {"deleted", "expired"}, KeyEnds(k, s) PROVE AccessInv'
  <2>1. PICK row \in KeyRows : row = keys[k]
    BY <1>1
  <2>2. PICK gone : gone = [row EXCEPT !.state = s]
    OBVIOUS
  <2>3. gone \in KeyRows /\ gone.owner = row.owner /\ gone.state # "active"
    BY <2>2 DEF KeyRows
  <2>4. keys' = [keys EXCEPT ![k] = gone] /\ UNCHANGED <<tokens, request>>
    BY <1>4, <2>1, <2>2 DEF KeyEnds
  <2>5. /\ keys' \in Seq(KeyRows) /\ DOMAIN keys' = DOMAIN keys
        /\ keys'[k] = gone /\ \A j \in DOMAIN keys : j # k => keys'[j] = keys[j]
    BY <1>1, <2>3, <2>4
  <2>6. \A j \in DOMAIN keys : keys'[j].owner = keys[j].owner /\ (keys[j].state # "active" => keys'[j].state # "active")
    BY <2>1, <2>3, <2>5
  <2>7. QED BY <1>1, <2>4, <2>5, <2>6, AccountsInv
<1>5. ASSUME NEW p \in Paths, NEW t \in Users \cup {Nobody}, NEW k \in {NoKey} \cup DOMAIN keys, Send(p, t, k)
      PROVE  AccessInv'
  BY <1>5, SendInv
<1>6. CASE LimitGuard \/ LimiterSpares \/ SignatureGuard
  BY <1>6, CountInv
<1>7. CASE TokenGuard \/ RoleGuard \/ NoKeyGuard
  BY <1>7, TokensInv
<1>8. CASE ValidateKey \/ KeyCompared
  BY <1>8, KeyInv
<1>9. CASE LayerPassed
  BY <1>9, LayerPassedInv
<1>10. CASE Answered
  <2>1. Idle \in AccessRequests /\ Idle.step = "idle"
    BY DEF Idle, AccessRequests, NoKey
  <2>2. request' = Idle /\ UNCHANGED <<tokens, keys>>
    BY <1>10 DEF Answered
  <2>3. QED BY <1>1, <2>1, <2>2 DEF AccessInv, OnItsWay
<1>11. CASE UNCHANGED vars
  BY <1>1, <1>11, AccountsInv DEF vars
<1>12. QED BY <1>2, <1>3, <1>4, <1>5, <1>6, <1>7, <1>8, <1>9, <1>10, <1>11 DEF Next

\* Served, the request has passed all the guards of a handler of its path.
LEMMA AccessInvMeans ==
  ASSUME AccessInv
  PROVE  GuardsAreApplied
<1> SUFFICES ASSUME request.step = "served" PROVE ServedAsOwner /\ CountedOnce
  BY DEF GuardsAreApplied, ServedAsOwner, CountedOnce
<1>1. PICK q : q = request
  OBVIOUS
<1>2. PICK l, g, p, b0, n : l = q.layer /\ g = Layers[l].guards /\ p = q.path /\ b0 = p[1] /\ n = p[2]
  OBVIOUS
<1>3. Placement(q, keys) /\ WorkDone(q, g, keys) /\ q.step = "served"
  BY <1>1, <1>2 DEF AccessInv, OnItsWay
<1>4. PICK base : HandlerOK(Layers[l], base) /\ l # 3
  BY <1>2, <1>3, LayersAre DEF Placement
<1>5. PICK gs : gs = Range(g)
  OBVIOUS
<1>6. GuardsSuit(b0, n, gs) /\ Ordered(g)
  BY <1>2, <1>3, <1>4, <1>5 DEF HandlerOK, Placement
<1>7. Passed(g, q.guard) = gs
  <2>1. Len(g) \in Nat /\ q.guard \in 1 .. Len(g) + 1 /\ q.guard > Len(g)
    BY <1>3, <1>6, PassedOn DEF WorkDone
  <2>2. q.guard = Len(g) + 1
    BY ONLY <2>1
  <2>3. QED BY <1>5, <1>6, <2>2, PassedOn
<1>8. ServedAsOwner
  <2>1. n \notin Open /\ b0 # "webhooks" => Identified(q.user, q.token, q.key, q.gone, keys)
    BY <1>3, <1>6, <1>7 DEF GuardsSuit, WorkDone
  <2>2. n \in AdminOnly => q.user = Admin
    BY <1>3, <1>6, <1>7 DEF GuardsSuit, WorkDone
  <2>3. QED BY <1>1, <1>2, <2>1, <2>2 DEF ServedAsOwner, Identified
<1>9. CountedOnce
  <2>1. Met(q) = Before(p, l) \cup (gs \cap AddressLimits) /\ OneEach(q)
    BY <1>2, <1>3, <1>7 DEF WorkDone
  <2>2. Cardinality({}) = 0 /\ \A x : Cardinality({x}) = 1 /\ IsFiniteSet({x})
    BY FS_EmptySet, FS_Singleton
  <2>3. p \in Unlimited <=> n \in AdminHead \cup {"auth/me"} \/ (b0 # "v1" /\ n # "auth/login")
    BY <1>2, <1>3 DEF Unlimited, Placement
  <2>4. p \in Respelled <=> n \in AdminSpelled \cup {"Auth/login", "payments/initiate/"}
    BY <1>2, <1>3 DEF Respelled, Placement
  <2>5. SUFFICES Cardinality(Met(q)) =
                   IF p \in Unlimited THEN 0 ELSE IF p \in Respelled THEN 2 ELSE 1
    BY <1>1, <1>2, <2>1 DEF CountedOnce, Met, OneEach
  <2>6. CASE b0 = "v1" /\ n \notin Dedicated
    <3>1. Before(p, l) = {"api limit"} /\ p \notin Unlimited
      BY <1>2, <1>4, <2>3, <2>6 DEF Before, ApiCounts, Dedicated, AuthNames
    <3>2. CASE p \in Respelled
      <4>1. PICK x : gs \cap AddressLimits = {x} /\ x # "api limit"
        BY <1>6, <2>3, <2>4, <2>6, <3>1, <3>2 DEF GuardsSuit
      <4>2. PICK a : a = "api limit"
        OBVIOUS
      <4>3. Met(q) = {a} \cup {x} /\ x \notin {a}
        BY <2>1, <3>1, <4>1, <4>2
      <4>4. PICK s : s = {a} /\ IsFiniteSet(s) /\ Cardinality(s) = 1 /\ x \notin s
        BY <2>2, <4>3
      <4>5. Cardinality(s \cup {x}) = Cardinality(s) + 1
        BY ONLY <4>4, FS_AddElement
      <4>6. Cardinality(Met(q)) = 2
        BY ONLY <4>3, <4>4, <4>5
      <4>7. QED BY <3>1, <3>2, <4>6
    <3>3. CASE p \notin Respelled
      <4>1. gs \cap AddressLimits = {}
        BY <1>6, <2>4, <2>6, <3>3 DEF GuardsSuit
      <4>2. QED BY <2>1, <2>2, <3>1, <3>3, <4>1
    <3>4. QED BY <3>2, <3>3
  <2>7. CASE ~(b0 = "v1" /\ n \notin Dedicated)
    <3>1. Before(p, l) = {}
      BY <1>2, <2>7 DEF Before, ApiCounts
    <3>2. CASE p \in Unlimited
      <4>1. gs \cap AddressLimits = {}
        BY <1>6, <2>3, <3>2 DEF GuardsSuit
      <4>2. QED BY <2>1, <2>2, <3>1, <3>2, <4>1
    <3>3. CASE p \notin Unlimited
      <4>1. n \in Dedicated \/ (b0 # "v1" /\ n = "auth/login")
        BY <2>3, <2>7, <3>3
      <4>2. p \notin Respelled
        BY <2>4, <4>1 DEF Dedicated, AuthNames, AdminNames, AdminHead, AdminSpelled
      <4>3. \E x : gs \cap AddressLimits = {x}
        BY <1>6, <2>3, <2>7, <3>3 DEF GuardsSuit
      <4>4. QED BY <2>1, <2>2, <3>1, <3>3, <4>2, <4>3
    <3>4. QED BY <3>2, <3>3
  <2>8. QED BY <2>6, <2>7
<1>10. QED BY <1>8, <1>9

-----------------------------------------------------------------------------
(* The theorems: each part begins in its invariant and keeps it.           *)

\* submitSave and upsertConfig: what a save replaces is what its tab was shown,
\* excuses apart, and no screen shows a secret that is not in use.
THEOREM SavedAsShown ==
  ASSUME NoRow
  PROVE  ClientsSpec => []FormTellsTheRow
<1>1. IInv => FormTellsTheRow
  BY DEF IInv, SecretInv, KnowsInv, FormTellsTheRow, SecretShownIsUsed, ReplacesWhatItShows
<1>2. IInv /\ [ConfigNext]_configVars => IInv'
  BY InvStep
<1>3. QED BY <1>1, <1>2, InvInit, PartsBegin, PartsStep, PTL DEF ClientsSpec

\* TradeViewPage.tsx: another trade than the URL's is on the screen only while
\* the URL's is loaded, after its load failed, or when a jump overtook a request.
THEOREM ShownAsAsked == ClientsSpec => []ShownOtherOnlyBy
<1>1. TradeInv => ShownOtherOnlyBy
  BY DEF TradeInv
<1>2. QED BY <1>1, TradeInvInit, TradeInvNext, PartsBegin, PartsStep, PTL DEF ClientsSpec

\* The lists by cursor, the panel's query cache and the CSV export: no row
\* twice, none missing but twins of a page's last, one's own rows unless pages
\* were carried over a login, and an export lacks only what is behind a page.
THEOREM ListsAreExplained == ClientsSpec => []ListIsExplained
<1>1. ListInv => ListIsExplained
  BY ListInvMeans
<1>2. QED BY <1>1, ListInvInit, ListInvNext, PartsBegin, PartsStep, PTL DEF ClientsSpec

\* resolve behind its idempotency: who is answered 200, by the service or out of
\* Redis, is told the winner the match was settled with, whatever is retried,
\* lost or crashes: the one it has, unless the old route resolved it again.
THEOREM AnswersAreTrue == ClientsSpec => []AnswersNameTheWinner
<1>1. GatewayInv => AnswersNameTheWinner
  BY GatewayInvMeans
<1>2. QED BY <1>1, GatewayInvInit, GatewayInvNext, PartsBegin, PartsStep, PTL DEF ClientsSpec

\* The acquiring script and the answer's write: one request at a time owns a
\* PENDING key or has a write on its way, and a PENDING key without one was left
\* by a crash, a refused write or a lost reply.
THEOREM KeysHaveOneOwner == ClientsSpec => []PendingHasOneOwner
<1>1. GatewayInv => PendingHasOneOwner
  BY GatewayInvMeans
<1>2. QED BY <1>1, GatewayInvInit, GatewayInvNext, PartsBegin, PartsStep, PTL DEF ClientsSpec

\* The forms of the two clients: one takes effect again only when the answer to
\* an earlier effect was not seen, because it was lost or its page had gone.
THEOREM EffectsAreSeen == ClientsSpec => []RepeatedOnlyUnseen
<1>1. SessionInv => RepeatedOnlyUnseen
  BY SessionInvMeans
<1>2. QED BY <1>1, SessionInvInit, SessionInvNext, PartsBegin, PartsStep, PTL DEF ClientsSpec

\* SignOut of the clients: a session that has not expired ends by logout, in
\* another tab, after a promotion, or by the late refusal of an older session.
THEOREM SessionsEndSo == ClientsSpec => LiveSessionEndsBy
<1>1. SessionInv /\ [S!Next]_sessionVars =>
        [(token \in live /\ token' = 0) => S!SessionEnds]_sessionVars
  BY SessionEndsSo
<1>2. QED BY <1>1, SessionInvInit, SessionInvNext, PartsBegin, PartsStep, PTL
         DEF ClientsSpec, LiveSessionEndsBy

\* create-app.ts and its guards: whoever is served came with a valid token or
\* key of the user it is served as, an administrator where the route is theirs,
\* and has passed one limiter of addresses, which counted or spared it; none on
\* the Unlimited paths, two on the Respelled ones.
THEOREM RoutesAreGuarded == ClientsSpec => []GuardsAreApplied
<1>1. AccessInv => GuardsAreApplied
  BY AccessInvMeans
<1>2. QED BY <1>1, AccessInvInit, AccessInvNext, PartsBegin, PartsStep, PTL DEF ClientsSpec
=============================================================================
