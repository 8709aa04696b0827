---------------------------- MODULE Hallinta_proofs ----------------------------
(***************************************************************************)
(* Proofs about the pages that manage a grant, for any grants and numbers  *)
(* of acts and failures: the grant editor and its tools (decisions,        *)
(* legislation, obligations to report, payments).                          *)
(***************************************************************************)
EXTENDS HakuEditori, HakuToiminnot, FiniteSetTheorems, SequenceTheorems, TLAPS

\* What a field holds before anything was asked.
Nothing == ""

-----------------------------------------------------------------------------
(* The grant editor: what is true of every state                             *)

Whole == [Parts -> Nat]
EditorPage ==
  [open : Haut \cup {NoHaku}, crashed : BOOLEAN, loading : BOOLEAN, loadError : BOOLEAN,
   haku : [Haut -> Whole], draft : [Haut -> [Drafted -> Nat]], timer : Haut \cup {NoHaku},
   roleTimer : [h : Haut \cup {NoHaku}, role : Roles, value : Nat],
   busy : SUBSET {"saveInProgress", "savingRoles", "savingForm", "savingTalousarviotilit"},
   serverError : {Nothing, "validation-error", "unexpected-error"}]
EditorCalls == {"haku", "talousarviotilit", "projects", "select", "create"} \cup Forms \cup RoleCalls
\* Some parts and what they hold.
Holds(parts, f) == parts \subseteq Parts /\ f \in [parts -> Nat]
CallTyped(c) ==
  /\ c \in [id : {c.id}, kind : EditorCalls, h : Haut, put : {c.put}, at : {"sent", "stored", "answered"},
            got : {c.got}]
  /\ Holds(DOMAIN c.put, c.put) /\ Holds(DOMAIN c.got, c.got)
  /\ c.kind \in {"select", "create"} => DOMAIN c.put = {}
  /\ DOMAIN c.got = IF c.at = "answered" THEN Brings(c.kind) ELSE {}
EditorTyped ==
  /\ haut \in [Haut -> Whole] /\ given \in [Haut -> Whole] /\ editor \in EditorPage
  /\ \A c \in calls : CallTyped(c)
  /\ spent \in [edits : Nat, openings : Nat, failures : Nat]
  /\ DOMAIN lossCause = Haut

\* The next edit of a form is like none before.
FormsBelow ==
  \A p \in Forms :
    /\ \A h \in Haut : haut[h][p] < N /\ editor.haku[h][p] < N /\ editor.draft[h][p] < N
    /\ \A c \in calls : (p \in DOMAIN c.put => c.put[p] < N) /\ (p \in DOMAIN c.got => c.got[p] < N)

\* What was given for a part is stored, or on its way, or the page shows an error.
OnItsWay(h, p) ==
  \/ haut[h][p] = given[h][p] \/ editor.serverError # Nothing
  \/ p \in Row /\ editor.timer = h
  \/ editor.roleTimer.h = h /\ editor.roleTimer.role = p /\ editor.roleTimer.value = given[h][p]
  \/ \E c \in calls : c.h = h /\ c.at = "sent" /\ p \in DOMAIN c.put /\ c.put[p] = given[h][p]
\* A form that was read as it was given is stored so.
FormIsGiven(h, p) ==
  /\ editor.draft[h][p] = given[h][p]
  /\ editor.haku[h][p] = given[h][p] => haut[h][p] = given[h][p]
  /\ \A c \in calls : c.h = h /\ p \in DOMAIN c.got /\ c.got[p] = given[h][p] => haut[h][p] = given[h][p]
NothingLost(h) ==
  /\ \A p \in Parts \ Drafted : editor.haku[h][p] = given[h][p]
  /\ \A p \in Parts \ Forms : OnItsWay(h, p)
  /\ \A p \in Forms : FormIsGiven(h, p)
EditsKept == \A h \in Haut : lossCause[h] = {} => NothingLost(h)

SavesHaku == editor.timer # NoHaku \/ \E c \in calls : c.kind = "haku"
SavesRoles ==
  \/ editor.roleTimer.h # NoHaku \/ \E c \in calls : c.kind \in RoleCalls
  \/ \E h \in Haut : "role_failed" \in lossCause[h]
SavesForm == \E c \in calls : c.kind \in Forms
SavesAccounts == \E c \in calls : c.kind = "talousarviotilit"
EditorBusy ==
  /\ "saveInProgress" \in editor.busy => SavesHaku
  /\ "savingRoles" \in editor.busy => SavesRoles
  /\ "savingForm" \in editor.busy => SavesForm
  /\ "savingTalousarviotilit" \in editor.busy => SavesAccounts

LEMMA PartFacts ==
  /\ Row \subseteq Parts /\ Roles \subseteq Parts /\ Forms \subseteq Parts /\ Drafted \subseteq Parts
  /\ Drafted = Roles \cup Forms /\ Roles \cap Forms = {} /\ Row \cap Drafted = {}
  /\ "projects" \in Parts \ Drafted /\ "talousarviotilit" \in Parts \ Drafted
  /\ "projects" \notin Row /\ "talousarviotilit" \notin Row
  /\ "fields" \in Row /\ "status" \in Row
BY DEF Row, Roles, Forms, Drafted, Parts

\* What the page holds, field by field.
PageIs(ed, haku, draft, timer, roleTimer, busy, error) ==
  /\ ed \in EditorPage /\ ed.haku = haku /\ ed.draft = draft /\ ed.timer = timer
  /\ ed.roleTimer = roleTimer /\ ed.busy = busy /\ ed.serverError = error
Saved == {"saveInProgress", "savingRoles", "savingForm", "savingTalousarviotilit"}
Put2(f, h, p, v) == [f EXCEPT ![h] = [f[h] EXCEPT ![p] = v]]

LEMMA Put2Is ==
  ASSUME NEW S, NEW f \in [Haut -> [S -> Nat]], NEW h \in Haut, NEW p \in S, NEW v \in Nat
  PROVE  /\ Put2(f, h, p, v) \in [Haut -> [S -> Nat]]
         /\ \A g \in Haut, q \in S : Put2(f, h, p, v)[g][q] = IF g = h /\ q = p THEN v ELSE f[g][q]
<1>1. PICK row \in [S -> Nat] : row = [f[h] EXCEPT ![p] = v]
  OBVIOUS
<1>2. \A q \in S : row[q] = IF q = p THEN v ELSE f[h][q]
  BY <1>1
<1>3. Put2(f, h, p, v) = [f EXCEPT ![h] = row]
  BY <1>1 DEF Put2
<1> QED BY <1>2, <1>3

LEMMA PartSet ==
  ASSUME NEW ed \in EditorPage, NEW h \in Haut, NEW p \in Parts, NEW v \in Nat
  PROVE  PageIs([ed EXCEPT !.haku[h][p] = v], Put2(ed.haku, h, p, v), ed.draft, ed.timer,
                ed.roleTimer, ed.busy, ed.serverError)
<1>1. PICK haku \in [Haut -> Whole] : haku = Put2(ed.haku, h, p, v)
  BY Put2Is DEF EditorPage, Whole
<1>2. [ed EXCEPT !.haku[h][p] = v] = [ed EXCEPT !.haku = haku]
  BY <1>1 DEF EditorPage, Put2
<1>3. PageIs([ed EXCEPT !.haku = haku], haku, ed.draft, ed.timer, ed.roleTimer, ed.busy, ed.serverError)
  BY DEF EditorPage, PageIs
<1> QED BY <1>1, <1>2, <1>3

LEMMA DraftSet ==
  ASSUME NEW ed \in EditorPage, NEW h \in Haut, NEW p \in Drafted, NEW v \in Nat
  PROVE  PageIs([ed EXCEPT !.draft[h][p] = v], ed.haku, Put2(ed.draft, h, p, v), ed.timer,
                ed.roleTimer, ed.busy, ed.serverError)
<1>1. PICK draft \in [Haut -> [Drafted -> Nat]] : draft = Put2(ed.draft, h, p, v)
  BY Put2Is DEF EditorPage
<1>2. [ed EXCEPT !.draft[h][p] = v] = [ed EXCEPT !.draft = draft]
  BY <1>1 DEF EditorPage, Put2
<1>3. PageIs([ed EXCEPT !.draft = draft], ed.haku, draft, ed.timer, ed.roleTimer, ed.busy, ed.serverError)
  BY DEF EditorPage, PageIs
<1> QED BY <1>1, <1>2, <1>3

LEMMA SavingStarts ==
  ASSUME NEW ed \in EditorPage, NEW key \in Saved
  PROVE  PageIs(StartSaving(ed, key), ed.haku, ed.draft, ed.timer, ed.roleTimer, ed.busy \cup {key}, ed.serverError)
<1>1. PICK busy \in SUBSET Saved : busy = ed.busy \cup {key}
  BY DEF EditorPage, Saved
<1>2. StartSaving(ed, key) = [ed EXCEPT !.busy = busy]
  BY <1>1 DEF StartSaving, EditorPage
<1>3. PageIs([ed EXCEPT !.busy = busy], ed.haku, ed.draft, ed.timer, ed.roleTimer, busy, ed.serverError)
  BY DEF EditorPage, PageIs, Saved
<1> QED BY <1>1, <1>2, <1>3

LEMMA AutoSaveStarts ==
  ASSUME NEW ed \in EditorPage, NEW h \in Haut
  PROVE  PageIs(StartAutoSave(ed, h), ed.haku, ed.draft, h, ed.roleTimer, ed.busy \cup {"saveInProgress"}, ed.serverError)
<1>1. PICK e : e = [ed EXCEPT !.timer = h]
  OBVIOUS
<1>2. PageIs(e, ed.haku, ed.draft, h, ed.roleTimer, ed.busy, ed.serverError)
  BY <1>1 DEF EditorPage, PageIs
<1>3. StartAutoSave(ed, h) = StartSaving(e, "saveInProgress")
  BY <1>1 DEF StartAutoSave
<1>4. "saveInProgress" \in Saved /\ e \in EditorPage
  BY <1>2 DEF Saved, PageIs
<1>5. PageIs(StartSaving(e, "saveInProgress"), e.haku, e.draft, e.timer, e.roleTimer, e.busy \cup {"saveInProgress"}, e.serverError)
  BY <1>4, SavingStarts
<1> QED BY <1>2, <1>3, <1>5 DEF PageIs

LEMMA SaveSucceeds ==
  ASSUME NEW ed \in EditorPage, NEW key \in Saved
  PROVE  PageIs(SaveSuccess(ed, key), ed.haku, ed.draft, ed.timer, ed.roleTimer, ed.busy \ {key}, Nothing)
<1>1. PICK busy \in SUBSET Saved : busy = ed.busy \ {key}
  BY DEF EditorPage, Saved
<1>2. SaveSuccess(ed, key) = [ed EXCEPT !.busy = @ \ {key}, !.serverError = Nothing]
  BY Zenon DEF SaveSuccess, Nothing
<1>3. SaveSuccess(ed, key) = [ed EXCEPT !.busy = busy, !.serverError = Nothing]
  BY <1>1, <1>2 DEF EditorPage
<1>4. PageIs([ed EXCEPT !.busy = busy, !.serverError = Nothing], ed.haku, ed.draft, ed.timer, ed.roleTimer, busy, Nothing)
  BY DEF EditorPage, PageIs, Saved
<1> QED BY <1>1, <1>3, <1>4

LEMMA SaveFails ==
  ASSUME NEW ed \in EditorPage, NEW key \in Saved
  PROVE  PageIs(SaveFailed(ed, key), ed.haku, ed.draft, ed.timer, ed.roleTimer, ed.busy \ {key}, "unexpected-error")
<1>1. PICK busy \in SUBSET Saved : busy = ed.busy \ {key}
  BY DEF EditorPage, Saved
<1>2. SaveFailed(ed, key) = [ed EXCEPT !.busy = busy, !.serverError = "unexpected-error"]
  BY <1>1 DEF SaveFailed, EditorPage
<1>3. PageIs([ed EXCEPT !.busy = busy, !.serverError = "unexpected-error"], ed.haku, ed.draft, ed.timer, ed.roleTimer, busy, "unexpected-error")
  BY DEF EditorPage, PageIs, Saved
<1> QED BY <1>1, <1>2, <1>3

\* An answer replaces the parts it brings.
Replaces(f2, f, S, h, got) ==
  /\ f2 \in [Haut -> [S -> Nat]]
  /\ \A g \in Haut, q \in S : f2[g][q] = IF g = h /\ q \in DOMAIN got THEN got[q] ELSE f[g][q]
LEMMA ReplacedIs ==
  ASSUME NEW S, NEW f \in [Haut -> [S -> Nat]], NEW h \in Haut, NEW got, Holds(DOMAIN got, got)
  PROVE  Replaces([f EXCEPT ![h] = [p \in S |-> IF p \in DOMAIN got THEN got[p] ELSE f[h][p]]], f, S, h, got)
<1>1. PICK row : row = [p \in S |-> IF p \in DOMAIN got THEN got[p] ELSE f[h][p]]
  OBVIOUS
<1>2. row \in [S -> Nat]
  BY <1>1 DEF Holds
<1>3. \A q \in S : row[q] = IF q \in DOMAIN got THEN got[q] ELSE f[h][q]
  BY <1>1
<1>4. Replaces([f EXCEPT ![h] = row], f, S, h, got)
  BY <1>2, <1>3 DEF Replaces
<1> QED BY <1>1, <1>4

LEMMA KnownIs ==
  ASSUME NEW ed \in EditorPage, NEW h \in Haut, NEW got, Holds(DOMAIN got, got)
  PROVE  \E haku : /\ PageIs(Known(ed, h, got), haku, ed.draft, ed.timer, ed.roleTimer, ed.busy, ed.serverError)
                   /\ Replaces(haku, ed.haku, Parts, h, got)
<1>0. ed.haku \in [Haut -> [Parts -> Nat]]
  BY DEF EditorPage, Whole
<1>1. PICK row : row = [p \in Parts |-> IF p \in DOMAIN got THEN got[p] ELSE ed.haku[h][p]]
  OBVIOUS
<1>2. PICK haku : haku = [ed.haku EXCEPT ![h] = row]
  OBVIOUS
<1>3. Replaces(haku, ed.haku, Parts, h, got)
  BY <1>0, <1>1, <1>2, ReplacedIs
<1>4. haku \in [Haut -> Whole]
  BY <1>3 DEF Replaces, Whole
<1>5. Known(ed, h, got) = [ed EXCEPT !.haku[h] = row]
  BY <1>0, <1>1 DEF Known, EditorPage, Whole
<1>6. [ed EXCEPT !.haku[h] = row] = [ed EXCEPT !.haku = haku]
  BY <1>2 DEF EditorPage
<1>7. PageIs([ed EXCEPT !.haku = haku], haku, ed.draft, ed.timer, ed.roleTimer, ed.busy, ed.serverError)
  BY <1>4 DEF EditorPage, PageIs
<1> QED BY <1>3, <1>5, <1>6, <1>7

LEMMA ShownIs ==
  ASSUME NEW ed \in EditorPage, NEW h \in Haut, NEW got, Holds(DOMAIN got, got)
  PROVE  \E haku, draft :
           /\ PageIs(Shown1(ed, h, got), haku, draft, ed.timer, ed.roleTimer, ed.busy, ed.serverError)
           /\ Replaces(haku, ed.haku, Parts, h, got) /\ Replaces(draft, ed.draft, Drafted, h, got)
<1>0. ed.draft \in [Haut -> [Drafted -> Nat]]
  BY DEF EditorPage
<1>1. PICK haku : /\ PageIs(Known(ed, h, got), haku, ed.draft, ed.timer, ed.roleTimer, ed.busy, ed.serverError)
                  /\ Replaces(haku, ed.haku, Parts, h, got)
  BY KnownIs
<1>2. PICK e \in EditorPage : e = Known(ed, h, got)
  BY <1>1 DEF PageIs
<1>3. PICK row : row = [p \in Drafted |-> IF p \in DOMAIN got THEN got[p] ELSE ed.draft[h][p]]
  OBVIOUS
<1>4. PICK draft : draft = [ed.draft EXCEPT ![h] = row]
  OBVIOUS
<1>5. Replaces(draft, ed.draft, Drafted, h, got)
  BY <1>0, <1>3, <1>4, ReplacedIs
<1>6. draft \in [Haut -> [Drafted -> Nat]]
  BY <1>5 DEF Replaces
<1>7. e.draft = ed.draft
  BY <1>1, <1>2 DEF PageIs
<1>8. Shown1(ed, h, got) = [e EXCEPT !.draft[h] = row]
  BY <1>0, <1>2, <1>3, <1>7 DEF Shown1, EditorPage
<1>9. [e EXCEPT !.draft[h] = row] = [e EXCEPT !.draft = draft]
  BY <1>2, <1>4, <1>7 DEF EditorPage
<1>10. PageIs([e EXCEPT !.draft = draft], e.haku, draft, e.timer, e.roleTimer, e.busy, e.serverError)
  BY <1>6 DEF EditorPage, PageIs
<1>11. PageIs(Shown1(ed, h, got), haku, draft, ed.timer, ed.roleTimer, ed.busy, ed.serverError)
  BY <1>1, <1>2, <1>8, <1>9, <1>10 DEF PageIs
<1> QED BY <1>1, <1>5, <1>11

\* What the page asks: one more request, at the server.
EditorAsks(kind, h, put) ==
  \E d : /\ calls' = calls \cup {d} /\ CallTyped(d) /\ d.kind = kind /\ d.h = h /\ d.put = put
         /\ d.at = "sent" /\ DOMAIN d.got = {}
LEMMA CallAsks ==
  ASSUME NEW kind \in EditorCalls, NEW h \in Haut, NEW put, Holds(DOMAIN put, put),
         kind \in {"select", "create"} => DOMAIN put = {}, calls' = calls \cup {Call(kind, h, put)}
  PROVE  EditorAsks(kind, h, put)
<1>1. PICK n : n = FreshCall
  OBVIOUS
<1>2. PICK none : none = <<>> /\ DOMAIN none = {}
  OBVIOUS
<1>3. PICK d : d = [id |-> n, kind |-> kind, h |-> h, put |-> put, at |-> "sent", got |-> none]
  OBVIOUS
<1>4. /\ d.id = n /\ d.kind = kind /\ d.h = h /\ d.put = put /\ d.at = "sent" /\ d.got = none
      /\ d \in [id : {d.id}, kind : EditorCalls, h : Haut, put : {d.put}, at : {"sent", "stored", "answered"}, got : {d.got}]
  BY <1>3
<1>5. Holds(DOMAIN none, none)
  BY <1>2 DEF Holds
<1>6. CallTyped(d)
  BY <1>2, <1>4, <1>5 DEF CallTyped
<1>7. calls' = calls \cup {d}
  BY <1>1, <1>2, <1>3 DEF Call
<1> QED BY <1>2, <1>4, <1>6, <1>7 DEF EditorAsks

LEMMA OnlyIs ==
  ASSUME NEW p \in Parts, NEW v \in Nat
  PROVE  DOMAIN Only(p, v) = {p} /\ Only(p, v)[p] = v /\ Holds(DOMAIN Only(p, v), Only(p, v))
BY DEF Only, Holds

LEMMA NoneHeld == DOMAIN <<>> = {} /\ Holds(DOMAIN <<>>, <<>>)
<1>1. PICK none : none = <<>> /\ DOMAIN none = {}
  OBVIOUS
<1>2. Holds(DOMAIN none, none)
  BY <1>1 DEF Holds
<1> QED BY <1>1, <1>2

EditorInv == EditorTyped /\ FormsBelow /\ EditsKept
CausesGrow == DOMAIN lossCause' = Haut /\ \A h \in Haut : lossCause[h] \subseteq lossCause'[h]

LEMMA BecauseIs ==
  ASSUME NEW H, NEW reason, DOMAIN lossCause = Haut, lossCause' = Because(H, reason)
  PROVE  CausesGrow /\ \A h \in Haut : h \in H => reason \in lossCause'[h]
BY DEF Because, CausesGrow

\* A request ends, with an answer or without.
Ends(c, haku, draft, busy, error) ==
  /\ calls' = calls \ {c} /\ haut' = haut /\ given' = given
  /\ PageIs(editor', haku, draft, editor.timer, editor.roleTimer, busy, error)
  /\ spent' \in [edits : Nat, openings : Nat, failures : Nat] /\ spent'.edits = spent.edits
  /\ CausesGrow
\* What an answer brings is shown for its grant, and noted when it is not what was given.
Brought2(c, haku, draft) ==
  /\ \A g \in Haut, q \in Parts :
       haku[g][q] = editor.haku[g][q] \/ (g = c.h /\ q \in DOMAIN c.got /\ haku[g][q] = c.got[q])
  /\ \A g \in Haut, q \in Drafted :
       draft[g][q] = editor.draft[g][q] \/ (g = c.h /\ q \in DOMAIN c.got /\ draft[g][q] = c.got[q])
  /\ lossCause'[c.h] = {} => ~Lost(c.h, c.got)

LEMMA EndStep ==
  ASSUME EditorInv, NEW c \in calls, NEW haku, NEW draft, NEW busy, NEW error, Ends(c, haku, draft, busy, error),
         Brought2(c, haku, draft) \/ (haku = editor.haku /\ draft = editor.draft),
         \A h \in Haut : lossCause'[h] = {} => error = editor.serverError \/ error # Nothing \/ ~Lost(h, haut[h]),
         c.at # "sent" \/ DOMAIN c.put = {} \/ error # Nothing \/ lossCause'[c.h] # {}
  PROVE  EditorInv'
<1>1. /\ EditorTyped /\ FormsBelow /\ EditsKept /\ CallTyped(c)
      /\ editor' \in EditorPage /\ editor'.haku = haku /\ editor'.draft = draft /\ editor'.timer = editor.timer
      /\ editor'.roleTimer = editor.roleTimer /\ editor'.serverError = error
      /\ calls' = calls \ {c} /\ haut' = haut /\ given' = given /\ CausesGrow
      /\ spent' \in [edits : Nat, openings : Nat, failures : Nat] /\ N' = N
  BY DEF EditorInv, Ends, PageIs, EditorTyped, N
<1>2. EditorTyped'
  BY <1>1 DEF EditorTyped, CausesGrow
<1>3. FormsBelow'
  <2> SUFFICES ASSUME NEW p \in Forms, NEW h \in Haut
               PROVE  haut[h][p] < N /\ haku[h][p] < N /\ draft[h][p] < N
    BY <1>1 DEF FormsBelow
  <2>1. p \in Parts /\ p \in Drafted
    BY PartFacts
  <2>2. /\ haut[h][p] < N /\ editor.haku[h][p] < N /\ editor.draft[h][p] < N
        /\ p \in DOMAIN c.got => c.got[p] < N
    BY <1>1 DEF FormsBelow
  <2> QED BY <2>1, <2>2 DEF Brought2
<1>4. ASSUME NEW h \in Haut, lossCause'[h] = {} PROVE NothingLost(h)'
  <2>1. lossCause[h] = {} /\ NothingLost(h)
    BY <1>1, <1>4 DEF CausesGrow, EditsKept
  <2>2. \A q \in DOMAIN c.got : (haku # editor.haku \/ draft # editor.draft) => (h = c.h => c.got[q] = given[h][q])
    BY <1>4 DEF Brought2, Lost
  <2>3. \A p \in Parts \ Drafted : editor'.haku[h][p] = given'[h][p]
    <3> SUFFICES ASSUME NEW p \in Parts \ Drafted PROVE haku[h][p] = given[h][p]
      BY <1>1
    <3>1. editor.haku[h][p] = given[h][p]
      BY <2>1 DEF NothingLost
    <3> QED BY <3>1, <2>2 DEF Brought2
  <2>4. \A p \in Parts \ Forms : OnItsWay(h, p)'
    <3> SUFFICES ASSUME NEW p \in Parts \ Forms PROVE OnItsWay(h, p)'
      OBVIOUS
    <3>1. OnItsWay(h, p)
      BY <2>1 DEF NothingLost
    <3>2. CASE ~Lost(h, haut[h])
      <4>1. DOMAIN haut[h] = Parts
        BY <1>1 DEF EditorTyped, Whole
      <4> QED BY <1>1, <3>2, <4>1 DEF Lost, OnItsWay
    <3>3. CASE error # Nothing
      BY <1>1, <3>3 DEF OnItsWay
    <3>4. CASE error = Nothing /\ error = editor.serverError
      <4>1. c.h = h /\ c.at = "sent" => p \notin DOMAIN c.put
        BY <1>4, <3>4
      <4> QED BY <1>1, <3>1, <3>4, <4>1 DEF OnItsWay
    <3> QED BY <1>4, <3>2, <3>3, <3>4
  <2>5. \A p \in Forms : FormIsGiven(h, p)'
    <3> SUFFICES ASSUME NEW p \in Forms PROVE FormIsGiven(h, p)'
      OBVIOUS
    <3>1. FormIsGiven(h, p) /\ p \in Drafted /\ p \in Parts
      BY <2>1, PartFacts DEF NothingLost
    <3>2. draft[h][p] = given[h][p]
      BY <2>2, <3>1 DEF Brought2, FormIsGiven
    <3>3. haku[h][p] = given[h][p] => haut[h][p] = given[h][p]
      BY <3>1 DEF Brought2, FormIsGiven
    <3> QED BY <1>1, <3>1, <3>2, <3>3 DEF FormIsGiven
  <2> QED BY <2>3, <2>4, <2>5 DEF NothingLost
<1>5. EditsKept'
  BY <1>4 DEF EditsKept
<1> QED BY <1>2, <1>3, <1>5 DEF EditorInv

\* The page asks, for nothing that was given now.
LEMMA AskStep ==
  ASSUME EditorInv, NEW d, NEW draft, NEW timer, NEW roleTimer, NEW busy,
         PageIs(editor', editor.haku, draft, timer, roleTimer, busy, editor.serverError),
         \A h \in Haut, p \in Forms : draft[h][p] = editor.draft[h][p],
         calls' = calls \cup {d}, CallTyped(d), DOMAIN d.got = {}, d.at = "sent",
         \A p \in Forms : p \in DOMAIN d.put => d.put[p] < N,
         haut' = haut, given' = given, lossCause' = lossCause,
         spent' \in [edits : Nat, openings : Nat, failures : Nat], spent'.edits = spent.edits,
         \A h \in Haut : editor.timer = h =>
           timer = h \/ (d.h = h /\ \A p \in Row : p \in DOMAIN d.put /\ d.put[p] = editor.haku[h][p]),
         roleTimer = editor.roleTimer
           \/ LET t == editor.roleTimer IN d.h = t.h /\ t.role \in DOMAIN d.put /\ d.put[t.role] = t.value
  PROVE  EditorInv'
<1>1. /\ EditorTyped /\ FormsBelow /\ EditsKept
      /\ editor' \in EditorPage /\ editor'.haku = editor.haku /\ editor'.draft = draft /\ editor'.timer = timer
      /\ editor'.roleTimer = roleTimer /\ editor'.serverError = editor.serverError /\ N' = N
  BY DEF EditorInv, PageIs, N
<1>2. EditorTyped'
  BY <1>1 DEF EditorTyped
<1>3. FormsBelow'
  BY <1>1 DEF FormsBelow
<1>4. ASSUME NEW h \in Haut, lossCause'[h] = {} PROVE NothingLost(h)'
  <2>1. NothingLost(h)
    BY <1>1, <1>4 DEF EditsKept
  <2>2. \A p \in Parts \ Drafted : editor'.haku[h][p] = given'[h][p]
    BY <1>1, <2>1 DEF NothingLost
  <2>3. \A p \in Parts \ Forms : OnItsWay(h, p)'
    <3> SUFFICES ASSUME NEW p \in Parts \ Forms PROVE OnItsWay(h, p)'
      OBVIOUS
    <3>1. OnItsWay(h, p)
      BY <2>1 DEF NothingLost
    <3>2. CASE p \in Row /\ editor.timer = h
      <4>1. editor.haku[h][p] = given[h][p]
        BY <2>1, <3>2, PartFacts DEF NothingLost
      <4> QED BY <1>1, <3>2, <4>1 DEF OnItsWay
    <3>3. CASE editor.roleTimer.h = h /\ editor.roleTimer.role = p /\ editor.roleTimer.value = given[h][p]
      <4>1. CASE roleTimer = editor.roleTimer
        BY <1>1, <3>3, <4>1 DEF OnItsWay
      <4>2. CASE roleTimer # editor.roleTimer
        <5>1. d.h = h /\ p \in DOMAIN d.put /\ d.put[p] = given[h][p] /\ d \in calls'
          BY <3>3, <4>2
        <5> QED BY <5>1 DEF OnItsWay
      <4> QED BY <4>1, <4>2
    <3>4. CASE \/ haut[h][p] = given[h][p]
               \/ editor.serverError # Nothing
               \/ \E c \in calls : c.h = h /\ c.at = "sent" /\ p \in DOMAIN c.put /\ c.put[p] = given[h][p]
      BY <1>1, <3>4 DEF OnItsWay
    <3> QED BY <3>1, <3>2, <3>3, <3>4 DEF OnItsWay
  <2>4. \A p \in Forms : FormIsGiven(h, p)'
    BY <1>1, <2>1 DEF NothingLost, FormIsGiven
  <2> QED BY <2>2, <2>3, <2>4 DEF NothingLost
<1>5. EditsKept'
  BY <1>4 DEF EditsKept
<1> QED BY <1>2, <1>3, <1>5 DEF EditorInv

\* The officer gives a part another value.
LEMMA EditStep ==
  ASSUME EditorInv, NEW h \in Haut, NEW p \in Parts, NEW v \in Nat, p \in Forms => v = N,
         NEW haku, NEW draft, NEW timer, NEW roleTimer, NEW busy,
         PageIs(editor', haku, draft, timer, roleTimer, busy, editor.serverError),
         \A g \in Haut, q \in Parts : haku[g][q] = IF g = h /\ q = p /\ p \notin Drafted THEN v ELSE editor.haku[g][q],
         \A g \in Haut, q \in Forms : draft[g][q] = IF g = h /\ q = p THEN v ELSE editor.draft[g][q],
         calls \subseteq calls',
         \A c \in calls' : c \in calls \/ (CallTyped(c) /\ DOMAIN c.got = {} /\ DOMAIN c.put \cap Forms = {}),
         given' = Put2(given, h, p, v), haut' = haut, CausesGrow,
         spent' \in [edits : Nat, openings : Nat, failures : Nat], spent'.edits = spent.edits + 1,
         \/ p \in Forms \/ (p \in Row /\ timer = h)
         \/ (roleTimer.h = h /\ roleTimer.role = p /\ roleTimer.value = v)
         \/ \E c \in calls' : c.h = h /\ c.at = "sent" /\ p \in DOMAIN c.put /\ c.put[p] = v,
         \A g \in Haut : editor.timer = g => timer = g \/ lossCause'[g] # {},
         \/ roleTimer = editor.roleTimer
         \/ \A g \in Haut : editor.roleTimer.h = g => (g = h /\ editor.roleTimer.role = p) \/ lossCause'[g] # {}
  PROVE  EditorInv'
<1>1. /\ EditorTyped /\ FormsBelow /\ EditsKept
      /\ editor' \in EditorPage /\ editor'.haku = haku /\ editor'.draft = draft /\ editor'.timer = timer
      /\ editor'.roleTimer = roleTimer /\ editor'.serverError = editor.serverError
      /\ N \in Nat /\ N' = N + 1
  BY DEF EditorInv, PageIs, N, EditorTyped
<1>2. /\ given' \in [Haut -> Whole]
      /\ \A g \in Haut, q \in Parts : given'[g][q] = IF g = h /\ q = p THEN v ELSE given[g][q]
  <2>1. PICK gv \in [Haut -> [Parts -> Nat]] : gv = given
    BY <1>1 DEF EditorTyped, Whole
  <2>2. /\ Put2(gv, h, p, v) \in [Haut -> [Parts -> Nat]]
        /\ \A g \in Haut, q \in Parts : Put2(gv, h, p, v)[g][q] = IF g = h /\ q = p THEN v ELSE gv[g][q]
    <3>1. PICK row \in [Parts -> Nat] : row = [gv[h] EXCEPT ![p] = v]
      BY <2>1
    <3>2. \A q \in Parts : row[q] = IF q = p THEN v ELSE gv[h][q]
      BY <2>1, <3>1
    <3>3. Put2(gv, h, p, v) = [gv EXCEPT ![h] = row]
      BY <3>1 DEF Put2
    <3> QED BY <2>1, <3>2, <3>3
  <2> QED BY <2>1, <2>2 DEF Whole
<1>3. EditorTyped'
  BY <1>1, <1>2 DEF EditorTyped, CausesGrow
<1>4. FormsBelow'
  <2>1. \A q \in Forms, g \in Haut : haut[g][q] \in Nat /\ haku[g][q] \in Nat /\ draft[g][q] \in Nat
    BY <1>1, PartFacts DEF EditorTyped, EditorPage, Whole
  <2>2. \A q \in Forms, g \in Haut : haut[g][q] < N + 1 /\ haku[g][q] < N + 1 /\ draft[g][q] < N + 1
    <3> SUFFICES ASSUME NEW q \in Forms, NEW g \in Haut
                 PROVE  haut[g][q] < N + 1 /\ haku[g][q] < N + 1 /\ draft[g][q] < N + 1
      OBVIOUS
    <3>1. q \in Parts /\ q \in Drafted /\ haut[g][q] < N /\ editor.haku[g][q] < N /\ editor.draft[g][q] < N
      BY <1>1, PartFacts DEF FormsBelow
    <3>2. haku[g][q] < N
      <4>1. haku[g][q] = editor.haku[g][q]
        BY <3>1
      <4> QED BY <3>1, <4>1
    <3>3. draft[g][q] = editor.draft[g][q] \/ draft[g][q] = N
      BY <3>1
    <3> QED BY <1>1, <2>1, <3>1, <3>2, <3>3
  <2>3. \A c \in calls', q \in Forms : (q \in DOMAIN c.put => c.put[q] < N + 1) /\ (q \in DOMAIN c.got => c.got[q] < N + 1)
    <3> SUFFICES ASSUME NEW c \in calls', NEW q \in Forms
                 PROVE  (q \in DOMAIN c.put => c.put[q] < N + 1) /\ (q \in DOMAIN c.got => c.got[q] < N + 1)
      OBVIOUS
    <3>1. CASE c \in calls
      <4>1. /\ q \in DOMAIN c.put => c.put[q] \in Nat /\ c.put[q] < N
            /\ q \in DOMAIN c.got => c.got[q] \in Nat /\ c.got[q] < N
        BY <1>1, <3>1 DEF FormsBelow, EditorTyped, CallTyped, Holds
      <4> QED BY <1>1, <4>1
    <3>2. CASE c \notin calls
      BY <3>2
    <3> QED BY <3>1, <3>2
  <2> QED BY <1>1, <2>2, <2>3 DEF FormsBelow
<1>5. ASSUME NEW g \in Haut, lossCause'[g] = {} PROVE NothingLost(g)'
  <2>1. NothingLost(g)
    BY <1>1, <1>5 DEF EditsKept, CausesGrow
  <2>2. \A q \in Parts \ Drafted : editor'.haku[g][q] = given'[g][q]
    BY <1>1, <1>2, <2>1 DEF NothingLost
  <2>3. \A q \in Parts \ Forms : OnItsWay(g, q)'
    <3> SUFFICES ASSUME NEW q \in Parts \ Forms PROVE OnItsWay(g, q)'
      OBVIOUS
    <3>1. CASE g = h /\ q = p
      <4>1. given'[g][q] = v /\ q \notin Forms
        BY <1>2, <3>1
      <4> QED BY <1>1, <3>1, <4>1 DEF OnItsWay
    <3>2. CASE ~(g = h /\ q = p)
      <4>1. OnItsWay(g, q) /\ given'[g][q] = given[g][q]
        BY <1>2, <2>1, <3>2 DEF NothingLost
      <4>2. editor.roleTimer.h = g /\ editor.roleTimer.role = q => roleTimer = editor.roleTimer
        BY <1>5, <3>2
      <4>3. editor.timer = g => timer = g
        BY <1>5
      <4> QED BY <1>1, <4>1, <4>2, <4>3 DEF OnItsWay
    <3> QED BY <3>1, <3>2
  <2>4. \A q \in Forms : FormIsGiven(g, q)'
    <3> SUFFICES ASSUME NEW q \in Forms PROVE FormIsGiven(g, q)'
      OBVIOUS
    <3>1. FormIsGiven(g, q) /\ q \in Parts /\ q \in Drafted
      BY <2>1, PartFacts DEF NothingLost
    <3>2. CASE g = h /\ q = p
      <4>1. v = N /\ given'[g][q] = v /\ draft[g][q] = v /\ haku[g][q] = editor.haku[g][q]
        BY <1>2, <3>1, <3>2
      <4>2. editor.haku[g][q] # N /\ \A c \in calls : q \in DOMAIN c.got => c.got[q] # N
        <5>1. editor.haku[g][q] < N /\ \A c \in calls : q \in DOMAIN c.got => c.got[q] < N
          BY <1>1 DEF FormsBelow
        <5> QED BY <1>1, <5>1
      <4>3. \A c \in calls' : q \in DOMAIN c.got => c.got[q] # N
        BY <4>2
      <4> QED BY <1>1, <4>1, <4>2, <4>3 DEF FormIsGiven
    <3>3. CASE ~(g = h /\ q = p)
      <4>1. given'[g][q] = given[g][q] /\ haku[g][q] = editor.haku[g][q] /\ draft[g][q] = editor.draft[g][q]
        BY <1>2, <3>1, <3>3
      <4>2. \A c \in calls' : q \in DOMAIN c.got => c \in calls
        OBVIOUS
      <4> QED BY <1>1, <3>1, <4>1, <4>2 DEF FormIsGiven
    <3> QED BY <3>2, <3>3
  <2> QED BY <2>2, <2>3, <2>4 DEF NothingLost
<1>6. EditsKept'
  BY <1>5 DEF EditsKept
<1> QED BY <1>3, <1>4, <1>6 DEF EditorInv

\* The page after an edit of what it shows of a grant, its delayed save begun again.
LEMMA AutoSaved ==
  ASSUME EditorTyped, NEW h \in Haut, NEW p \in Parts, NEW v \in Nat,
         editor' = StartAutoSave([editor EXCEPT !.haku[h][p] = v], h)
  PROVE  PageIs(editor', Put2(editor.haku, h, p, v), editor.draft, h, editor.roleTimer,
                editor.busy \cup {"saveInProgress"}, editor.serverError)
<1>0. editor \in EditorPage
  BY DEF EditorTyped
<1>1. PICK ed : ed = [editor EXCEPT !.haku[h][p] = v]
  OBVIOUS
<1>2. PageIs(ed, Put2(editor.haku, h, p, v), editor.draft, editor.timer, editor.roleTimer, editor.busy, editor.serverError)
  BY <1>0, <1>1, PartSet
<1>3. ed \in EditorPage
  BY <1>2 DEF PageIs
<1>4. PageIs(StartAutoSave(ed, h), ed.haku, ed.draft, h, ed.roleTimer, ed.busy \cup {"saveInProgress"}, ed.serverError)
  BY <1>3, AutoSaveStarts
<1> QED BY <1>1, <1>2, <1>4 DEF PageIs

LEMMA HakuPut ==
  ASSUME EditorTyped, NEW h \in Haut, NEW p \in Parts, NEW v \in Nat
  PROVE  \A g \in Haut, q \in Parts : Put2(editor.haku, h, p, v)[g][q] = IF g = h /\ q = p THEN v ELSE editor.haku[g][q]
<1>1. PICK f \in [Haut -> [Parts -> Nat]] : f = editor.haku
  BY DEF EditorTyped, EditorPage, Whole
<1>2. PICK row \in [Parts -> Nat] : row = [f[h] EXCEPT ![p] = v]
  BY <1>1
<1>3. \A q \in Parts : row[q] = IF q = p THEN v ELSE f[h][q]
  BY <1>1, <1>2
<1>4. Put2(f, h, p, v) = [f EXCEPT ![h] = row]
  BY <1>2 DEF Put2
<1> QED BY <1>1, <1>3, <1>4

LEMMA DraftPut ==
  ASSUME EditorTyped, NEW h \in Haut, NEW p \in Drafted, NEW v \in Nat
  PROVE  \A g \in Haut, q \in Drafted : Put2(editor.draft, h, p, v)[g][q] = IF g = h /\ q = p THEN v ELSE editor.draft[g][q]
<1>1. PICK f \in [Haut -> [Drafted -> Nat]] : f = editor.draft
  BY DEF EditorTyped, EditorPage
<1>2. PICK row \in [Drafted -> Nat] : row = [f[h] EXCEPT ![p] = v]
  BY <1>1
<1>3. \A q \in Drafted : row[q] = IF q = p THEN v ELSE f[h][q]
  BY <1>1, <1>2
<1>4. Put2(f, h, p, v) = [f EXCEPT ![h] = row]
  BY <1>2 DEF Put2
<1> QED BY <1>1, <1>3, <1>4

\* One edit, or one opening, of the bound is used.
LEMMA Spends ==
  ASSUME EditorTyped
  PROVE  /\ Spend => spent' \in [edits : Nat, openings : Nat, failures : Nat] /\ spent'.edits = spent.edits + 1
         /\ SpendOpening => spent' \in [edits : Nat, openings : Nat, failures : Nat] /\ spent'.edits = spent.edits
         /\ spent' = spent => spent' \in [edits : Nat, openings : Nat, failures : Nat] /\ spent'.edits = spent.edits
         /\ N \in Nat /\ N = spent.edits + 2
BY DEF EditorTyped, Spend, SpendOpening, N

LEMMA TimerTakenFrom ==
  ASSUME EditorTyped, NEW h, lossCause' = Because(TimerTaken(h), "timer_taken")
  PROVE  CausesGrow /\ \A g \in Haut : editor.timer = g => h = g \/ lossCause'[g] # {}
<1>1. CausesGrow /\ \A g \in Haut : g \in TimerTaken(h) => "timer_taken" \in lossCause'[g]
  BY BecauseIs DEF EditorTyped
<1>2. \A g \in Haut : editor.timer = g => h = g \/ g \in TimerTaken(h)
  BY NoHakuAssumption DEF TimerTaken
<1> QED BY <1>1, <1>2

LEMMA SameCauses == ASSUME EditorTyped, lossCause' = lossCause PROVE CausesGrow
BY DEF EditorTyped, CausesGrow

LEMMA UpdateFieldKeeps ==
  ASSUME EditorInv, NEW h \in Haut, NEW p \in Row, NEW v \in Nat, UpdateField(h, p, v)
  PROVE  EditorInv'
<1>0. EditorTyped /\ p \in Parts /\ p \notin Drafted /\ p \notin Forms /\ Forms \subseteq Parts
  BY PartFacts DEF EditorInv
<1>1. /\ editor' = StartAutoSave([editor EXCEPT !.haku[h][p] = v], h)
      /\ lossCause' = Because(TimerTaken(h), "timer_taken")
      /\ Give(h, p, v) /\ Spend /\ haut' = haut /\ calls' = calls
  BY DEF UpdateField
<1>2. PageIs(editor', Put2(editor.haku, h, p, v), editor.draft, h, editor.roleTimer,
             editor.busy \cup {"saveInProgress"}, editor.serverError)
  BY <1>0, <1>1, AutoSaved
<1>3. \A g \in Haut, q \in Parts : Put2(editor.haku, h, p, v)[g][q] = IF g = h /\ q = p /\ p \notin Drafted THEN v ELSE editor.haku[g][q]
  BY <1>0, HakuPut
<1>4. CausesGrow /\ \A g \in Haut : editor.timer = g => h = g \/ lossCause'[g] # {}
  BY <1>0, <1>1, TimerTakenFrom
<1>5. spent' \in [edits : Nat, openings : Nat, failures : Nat] /\ spent'.edits = spent.edits + 1
  BY <1>0, <1>1, Spends
<1>6. given' = Put2(given, h, p, v)
  BY <1>1 DEF Give, Put2
<1>7. \A g \in Haut, q \in Forms : editor.draft[g][q] = IF g = h /\ q = p THEN v ELSE editor.draft[g][q]
  BY <1>0
<1> QED BY <1>0, <1>1, <1>2, <1>3, <1>4, <1>5, <1>6, <1>7, EditStep

\* The numbers that the fields of the grant are given.
LEMMA FieldValues ==
  ASSUME EditorTyped
  PROVE  "fields" \in Row /\ "status" \in Row /\ N \in Nat /\ \A h : StatusButton(StatusOf(h)) \subseteq Nat
BY Spends DEF Row, StatusButton, Statuses, Draft, Published, Resolved, Deleted

\* Every field of the grant, on all the tabs.
EditsOfRow(h) ==
  \/ HakuEditor(h) \/ RegisterNumber(h) \/ HallinnoiavustuksiaRegisterNumber(h)
  \/ HakuType(h) \/ AcademySizeOfHaku(h) \/ Maksuerat(h) \/ HakuDateField(h)
  \/ SelectionCriteria(h) \/ FocusArea(h) \/ SetStatus(h)
  \/ DecisionFields(h) \/ DecisionDateField(h) \/ PakoteLiite(h) \/ LiitteetSelection(h)
  \/ Kayttoaika(h) \/ SelvityksienAikarajat(h)
LEMMA RowEdits ==
  ASSUME NEW h \in Haut, EditsOfRow(h)
  PROVE  UpdateField(h, "fields", N) \/ \E s \in StatusButton(StatusOf(h)) : UpdateField(h, "status", s)
BY Zenon DEF EditsOfRow, HakuEditor, RegisterNumber, HallinnoiavustuksiaRegisterNumber, HakuType, AcademySizeOfHaku,
       Maksuerat, StrictField, HakuDateField, SelectionCriteria, FocusArea, SetStatus, DecisionEditorField, DecisionFields,
       DecisionDateField, PakoteLiite, LiitteetSelection, Kayttoaika, SelvityksienAikarajat

LEMMA RowEditsKeep ==
  ASSUME EditorInv, NEW h \in Haut, EditsOfRow(h)
  PROVE  EditorInv'
<1>1. EditorTyped
  BY DEF EditorInv
<1>2. CASE UpdateField(h, "fields", N)
  BY <1>1, <1>2, FieldValues, UpdateFieldKeeps
<1>3. CASE \E s \in StatusButton(StatusOf(h)) : UpdateField(h, "status", s)
  BY <1>1, <1>3, FieldValues, UpdateFieldKeeps
<1> QED BY <1>2, <1>3, RowEdits

\* A part that is sent as soon as it is given.
LEMMA SentAtOnce ==
  ASSUME EditorInv, NEW h \in Haut, NEW p \in Parts \ Forms, NEW v \in Nat, NEW kind \in EditorCalls \ {"select", "create"},
         NEW haku, NEW timer, NEW busy,
         PageIs(editor', haku, editor.draft, timer, editor.roleTimer, busy, editor.serverError),
         \A g \in Haut, q \in Parts : haku[g][q] = IF g = h /\ q = p /\ p \notin Drafted THEN v ELSE editor.haku[g][q],
         calls' = calls \cup {Call(kind, h, Only(p, v))},
         Give(h, p, v), Spend, haut' = haut, CausesGrow,
         \A g \in Haut : editor.timer = g => timer = g \/ lossCause'[g] # {}
  PROVE  EditorInv'
<1>0. EditorTyped /\ p \in Parts /\ Forms \subseteq Drafted /\ Forms \subseteq Parts
  BY PartFacts DEF EditorInv
<1>1. DOMAIN Only(p, v) = {p} /\ Only(p, v)[p] = v /\ Holds(DOMAIN Only(p, v), Only(p, v))
  BY <1>0, OnlyIs
<1>2. EditorAsks(kind, h, Only(p, v))
  BY <1>1, CallAsks
<1>3. PICK d : /\ calls' = calls \cup {d} /\ CallTyped(d) /\ d.kind = kind /\ d.h = h /\ d.put = Only(p, v)
               /\ d.at = "sent" /\ DOMAIN d.got = {}
  BY <1>2 DEF EditorAsks
<1>4. /\ calls \subseteq calls'
      /\ \A c \in calls' : c \in calls \/ (CallTyped(c) /\ DOMAIN c.got = {} /\ DOMAIN c.put \cap Forms = {})
      /\ \E c \in calls' : c.h = h /\ c.at = "sent" /\ p \in DOMAIN c.put /\ c.put[p] = v
  BY <1>1, <1>3
<1>5. spent' \in [edits : Nat, openings : Nat, failures : Nat] /\ spent'.edits = spent.edits + 1
  BY <1>0, Spends
<1>6. given' = Put2(given, h, p, v)
  BY DEF Give, Put2
<1>7. \A g \in Haut, q \in Forms : editor.draft[g][q] = IF g = h /\ q = p THEN v ELSE editor.draft[g][q]
  BY <1>0
<1> QED BY <1>0, <1>4, <1>5, <1>6, <1>7, EditStep

LEMMA ProjectsKeep ==
  ASSUME EditorInv, NEW h \in Haut, ProjectSelectors(h)
  PROVE  EditorInv'
<1>0. EditorTyped /\ "projects" \in Parts \ Drafted /\ "projects" \in Parts \ Forms /\ "projects" \in EditorCalls \ {"select", "create"}
  BY PartFacts DEF EditorInv, EditorCalls
<1>1. PICK v \in Nat : v = N
  BY <1>0, Spends
<1>2. /\ editor' = StartAutoSave([editor EXCEPT !.haku[h]["projects"] = v], h)
      /\ calls' = calls \cup {Call("projects", h, Only("projects", v))}
      /\ lossCause' = Because(TimerTaken(h), "timer_taken")
      /\ Give(h, "projects", v) /\ Spend /\ haut' = haut
  BY <1>1 DEF ProjectSelectors
<1>3. PageIs(editor', Put2(editor.haku, h, "projects", v), editor.draft, h, editor.roleTimer,
             editor.busy \cup {"saveInProgress"}, editor.serverError)
  BY <1>0, <1>2, AutoSaved
<1>4. \A g \in Haut, q \in Parts : Put2(editor.haku, h, "projects", v)[g][q]
        = IF g = h /\ q = "projects" /\ "projects" \notin Drafted THEN v ELSE editor.haku[g][q]
  BY <1>0, HakuPut
<1>5. CausesGrow /\ \A g \in Haut : editor.timer = g => h = g \/ lossCause'[g] # {}
  BY <1>0, <1>2, TimerTakenFrom
<1> QED BY <1>0, <1>2, <1>3, <1>4, <1>5, SentAtOnce

LEMMA AccountsKeep ==
  ASSUME EditorInv, NEW h \in Haut, Talousarviotilit(h)
  PROVE  EditorInv'
<1>0. /\ EditorTyped /\ editor \in EditorPage /\ "talousarviotilit" \in Parts \ Drafted /\ "talousarviotilit" \in Parts \ Forms
      /\ "talousarviotilit" \in EditorCalls \ {"select", "create"} /\ "savingTalousarviotilit" \in Saved
  BY PartFacts DEF EditorInv, EditorTyped, EditorCalls, Saved
<1>1. PICK v \in Nat : v = N
  BY <1>0, Spends
<1>2. PICK ed : ed = [editor EXCEPT !.haku[h]["talousarviotilit"] = v]
  OBVIOUS
<1>3. /\ editor' = StartSaving(ed, "savingTalousarviotilit")
      /\ calls' = calls \cup {Call("talousarviotilit", h, Only("talousarviotilit", v))}
      /\ Give(h, "talousarviotilit", v) /\ Spend /\ haut' = haut /\ lossCause' = lossCause
  BY <1>1, <1>2 DEF Talousarviotilit
<1>4. PageIs(ed, Put2(editor.haku, h, "talousarviotilit", v), editor.draft, editor.timer, editor.roleTimer, editor.busy, editor.serverError)
  BY <1>0, <1>2, PartSet
<1>5. ed \in EditorPage
  BY <1>4 DEF PageIs
<1>6. PageIs(editor', ed.haku, ed.draft, ed.timer, ed.roleTimer, ed.busy \cup {"savingTalousarviotilit"}, ed.serverError)
  BY <1>0, <1>3, <1>5, SavingStarts
<1>7. PageIs(editor', Put2(editor.haku, h, "talousarviotilit", v), editor.draft, editor.timer, editor.roleTimer,
             editor.busy \cup {"savingTalousarviotilit"}, editor.serverError)
  BY <1>4, <1>6 DEF PageIs
<1>8. \A g \in Haut, q \in Parts : Put2(editor.haku, h, "talousarviotilit", v)[g][q]
        = IF g = h /\ q = "talousarviotilit" /\ "talousarviotilit" \notin Drafted THEN v ELSE editor.haku[g][q]
  BY <1>0, HakuPut
<1>9. CausesGrow
  BY <1>0, <1>3, SameCauses
<1> QED BY <1>0, <1>3, <1>7, <1>8, <1>9, SentAtOnce

LEMMA RoleGiven ==
  ASSUME EditorInv, NEW h \in Haut, NEW p \in Roles, NEW v \in Nat, NEW kind \in {"createRole", "deleteRole"},
         editor' = StartSaving(editor, "savingRoles"),
         calls' = calls \cup {Call(kind, h, Only(p, v))},
         Give(h, p, v), Spend, haut' = haut, lossCause' = lossCause
  PROVE  EditorInv'
<1>0. /\ EditorTyped /\ editor \in EditorPage /\ p \in Parts \ Forms /\ p \in Drafted
      /\ kind \in EditorCalls \ {"select", "create"} /\ "savingRoles" \in Saved
  BY PartFacts DEF EditorInv, EditorTyped, EditorCalls, RoleCalls, Saved
<1>1. PageIs(editor', editor.haku, editor.draft, editor.timer, editor.roleTimer, editor.busy \cup {"savingRoles"}, editor.serverError)
  BY <1>0, SavingStarts
<1>2. CausesGrow
  BY <1>0, SameCauses
<1>3. \A g \in Haut, q \in Parts : editor.haku[g][q] = IF g = h /\ q = p /\ p \notin Drafted THEN v ELSE editor.haku[g][q]
  BY <1>0
<1>4. \A g \in Haut : editor.timer = g => editor.timer = g \/ lossCause'[g] # {}
  OBVIOUS
<1> QED BY <1>0, <1>1, <1>2, <1>3, <1>4, SentAtOnce

LEMMA RolesGivenKeep ==
  ASSUME EditorInv, NEW h \in Haut, PersonSelectList(h) \/ RoleRowDelete(h)
  PROVE  EditorInv'
<1>0. N \in Nat /\ 0 \in Nat
  BY Spends DEF EditorInv
<1>1. CASE PersonSelectList(h)
  <2>1. PICK p \in Roles : /\ editor' = StartSaving(editor, "savingRoles")
                           /\ calls' = calls \cup {Call("createRole", h, Only(p, N))}
                           /\ Give(h, p, N) /\ Spend /\ haut' = haut /\ lossCause' = lossCause
    BY <1>1 DEF PersonSelectList
  <2>2. PICK v \in Nat : v = N
    BY <1>0
  <2> QED BY <2>1, <2>2, RoleGiven
<1>2. CASE RoleRowDelete(h)
  <2>1. PICK p \in Roles : /\ editor' = StartSaving(editor, "savingRoles")
                           /\ calls' = calls \cup {Call("deleteRole", h, Only(p, 0))}
                           /\ Give(h, p, 0) /\ Spend /\ haut' = haut /\ lossCause' = lossCause
    BY <1>2 DEF RoleRowDelete
  <2> QED BY <1>0, <2>1, RoleGiven
<1> QED BY <1>1, <1>2

RowDrafted(h, p, v) ==
  StartSaving([editor EXCEPT !.draft[h][p] = v, !.roleTimer = [h |-> h, role |-> p, value |-> v]], "savingRoles")
CausesOfRow(h, p) ==
  lossCause' = IF editor.roleTimer.h # NoHaku /\ <<editor.roleTimer.h, editor.roleTimer.role>> # <<h, p>>
               THEN Because({editor.roleTimer.h}, "timer_taken") ELSE lossCause
LEMMA RoleRowKeeps ==
  ASSUME EditorInv, NEW h \in Haut, RoleRow(h)
  PROVE  EditorInv'
<1>0. /\ EditorTyped /\ editor \in EditorPage /\ Roles \subseteq Drafted /\ Roles \cap Forms = {} /\ Drafted \subseteq Parts
      /\ Forms \subseteq Drafted /\ "savingRoles" \in Saved /\ N \in Nat
  BY PartFacts, Spends DEF EditorInv, EditorTyped, Saved
<1>1. PICK v \in Nat : v = N
  BY <1>0
<1>2. PICK p \in Roles :
        /\ editor' = RowDrafted(h, p, v) /\ CausesOfRow(h, p)
        /\ Give(h, p, v) /\ Spend /\ haut' = haut /\ calls' = calls
  BY Zenon, <1>1 DEF RoleRow, RowDrafted, CausesOfRow
<1>3. PICK e : e = [editor EXCEPT !.draft[h][p] = v]
  OBVIOUS
<1>4. PageIs(e, editor.haku, Put2(editor.draft, h, p, v), editor.timer, editor.roleTimer, editor.busy, editor.serverError)
  BY <1>0, <1>2, <1>3, DraftSet
<1>5. PICK t : t = [h |-> h, role |-> p, value |-> v]
  OBVIOUS
<1>51. t \in [h : Haut \cup {NoHaku}, role : Roles, value : Nat] /\ t.h = h /\ t.role = p /\ t.value = v
  BY <1>2, <1>5
<1>6. PICK ed : ed = [e EXCEPT !.roleTimer = t]
  OBVIOUS
<1>7. [editor EXCEPT !.draft[h][p] = v, !.roleTimer = t] = [e EXCEPT !.roleTimer = t]
  BY <1>0, <1>3 DEF EditorPage
<1>8. PageIs(ed, e.haku, e.draft, e.timer, t, e.busy, e.serverError)
  BY <1>4, <1>51, <1>6 DEF EditorPage, PageIs
<1>9. editor' = StartSaving(ed, "savingRoles") /\ ed \in EditorPage
  BY <1>2, <1>5, <1>6, <1>7, <1>8 DEF PageIs, RowDrafted
<1>10. PageIs(editor', ed.haku, ed.draft, ed.timer, ed.roleTimer, ed.busy \cup {"savingRoles"}, ed.serverError)
  BY <1>0, <1>9, SavingStarts
<1>11. PageIs(editor', editor.haku, Put2(editor.draft, h, p, v), editor.timer, t, editor.busy \cup {"savingRoles"}, editor.serverError)
  BY <1>4, <1>8, <1>10 DEF PageIs
<1>12. \A g \in Haut, q \in Drafted : Put2(editor.draft, h, p, v)[g][q] = IF g = h /\ q = p THEN v ELSE editor.draft[g][q]
  BY <1>0, <1>2, DraftPut
<1>13. /\ CausesGrow
       /\ \A g \in Haut : editor.roleTimer.h = g => (g = h /\ editor.roleTimer.role = p) \/ lossCause'[g] # {}
  <2>1. CASE editor.roleTimer.h # NoHaku /\ <<editor.roleTimer.h, editor.roleTimer.role>> # <<h, p>>
    <3>1. lossCause' = Because({editor.roleTimer.h}, "timer_taken")
      BY <1>2, <2>1 DEF CausesOfRow
    <3>2. CausesGrow /\ \A g \in Haut : g \in {editor.roleTimer.h} => "timer_taken" \in lossCause'[g]
      BY <1>0, <3>1, BecauseIs DEF EditorTyped
    <3> QED BY <3>2
  <2>2. CASE ~(editor.roleTimer.h # NoHaku /\ <<editor.roleTimer.h, editor.roleTimer.role>> # <<h, p>>)
    <3>1. lossCause' = lossCause
      BY <1>2, <2>2 DEF CausesOfRow
    <3> QED BY <1>0, <2>2, <3>1, SameCauses, NoHakuAssumption
  <2> QED BY <2>1, <2>2
<1>14. spent' \in [edits : Nat, openings : Nat, failures : Nat] /\ spent'.edits = spent.edits + 1
  BY <1>0, <1>2, Spends
<1>15. given' = Put2(given, h, p, v)
  BY <1>2 DEF Give, Put2
<1>16. p \in Parts /\ p \in Drafted /\ p \notin Forms
  BY <1>0, <1>2
<1>17. /\ \A g \in Haut, q \in Parts : editor.haku[g][q] = IF g = h /\ q = p /\ p \notin Drafted THEN v ELSE editor.haku[g][q]
       /\ \A g \in Haut, q \in Forms : Put2(editor.draft, h, p, v)[g][q] = IF g = h /\ q = p THEN v ELSE editor.draft[g][q]
  BY <1>0, <1>12, <1>16
<1>18. /\ \A g \in Haut : editor.timer = g => editor.timer = g \/ lossCause'[g] # {}
       /\ calls \subseteq calls'
       /\ \A c \in calls' : c \in calls \/ (CallTyped(c) /\ DOMAIN c.got = {} /\ DOMAIN c.put \cap Forms = {})
  BY <1>2
<1> HIDE DEF PageIs
<1> QED BY <1>2, <1>18, <1>51, <1>11, <1>13, <1>14, <1>15, <1>16, <1>17, EditStep

LEMMA DraftsKeep ==
  ASSUME EditorInv, NEW h \in Haut, NEW form \in Forms, EditDraft(h, form)
  PROVE  EditorInv'
<1>0. EditorTyped /\ editor \in EditorPage /\ Forms \subseteq Drafted /\ Drafted \subseteq Parts /\ N \in Nat
  BY PartFacts, Spends DEF EditorInv, EditorTyped
<1>1. PICK v \in Nat : v = N
  BY <1>0
<1>2. /\ editor' = [editor EXCEPT !.draft[h][form] = v] /\ Give(h, form, v) /\ Spend
      /\ haut' = haut /\ calls' = calls /\ lossCause' = lossCause
  BY <1>1 DEF EditDraft
<1>3. PageIs(editor', editor.haku, Put2(editor.draft, h, form, v), editor.timer, editor.roleTimer, editor.busy, editor.serverError)
  BY <1>0, <1>2, DraftSet
<1>4. \A g \in Haut, q \in Drafted : Put2(editor.draft, h, form, v)[g][q] = IF g = h /\ q = form THEN v ELSE editor.draft[g][q]
  BY <1>0, DraftPut
<1>5. CausesGrow
  BY <1>0, <1>2, SameCauses
<1>6. spent' \in [edits : Nat, openings : Nat, failures : Nat] /\ spent'.edits = spent.edits + 1
  BY <1>0, <1>2, Spends
<1>7. given' = Put2(given, h, form, v)
  BY <1>2 DEF Give, Put2
<1>8. /\ \A g \in Haut, q \in Parts : editor.haku[g][q] = IF g = h /\ q = form /\ form \notin Drafted THEN v ELSE editor.haku[g][q]
      /\ \A g \in Haut, q \in Forms : Put2(editor.draft, h, form, v)[g][q] = IF g = h /\ q = form THEN v ELSE editor.draft[g][q]
  BY <1>0, <1>4
<1>9. form \in Parts
  BY <1>0
<1> QED BY <1>1, <1>2, <1>3, <1>5, <1>6, <1>7, <1>8, <1>9, EditStep

\* The delay of a grant, or of a row of its roles, is over.
LEMMA DelaysKeep ==
  ASSUME EditorInv, DebouncedSaveHaku \/ DebouncedSaveRole
  PROVE  EditorInv'
<1>0. /\ EditorTyped /\ editor \in EditorPage /\ Forms \subseteq Parts /\ Row \subseteq Parts /\ Row \cap Forms = {}
      /\ Roles \subseteq Parts /\ Roles \cap Forms = {} /\ NoHaku \notin Haut
      /\ {"haku", "saveRole", "saveVastuuvalmistelija"} \subseteq EditorCalls \ {"select", "create"}
  BY PartFacts, NoHakuAssumption DEF EditorInv, EditorTyped, EditorCalls, RoleCalls
<1>1. CASE DebouncedSaveHaku
  <2>1. PICK h \in Haut : h = editor.timer
    BY <1>0, <1>1 DEF DebouncedSaveHaku, EditorPage
  <2>2. PICK row : row = [p \in Row |-> editor.haku[h][p]]
    OBVIOUS
  <2>3. DOMAIN row = Row /\ Holds(DOMAIN row, row) /\ \A p \in Row : row[p] = editor.haku[h][p]
    BY <1>0, <2>2 DEF EditorPage, Whole, Holds
  <2>4. /\ editor' = [editor EXCEPT !.timer = NoHaku] /\ calls' = calls \cup {Call("haku", h, row)}
        /\ haut' = haut /\ spent' = spent /\ given' = given /\ lossCause' = lossCause
    BY <1>1, <2>1, <2>2 DEF DebouncedSaveHaku
  <2>5. PageIs(editor', editor.haku, editor.draft, NoHaku, editor.roleTimer, editor.busy, editor.serverError)
    BY <1>0, <2>4 DEF EditorPage, PageIs
  <2>6. EditorAsks("haku", h, row)
    BY <1>0, <2>3, <2>4, CallAsks
  <2>7. PICK d : /\ calls' = calls \cup {d} /\ CallTyped(d) /\ d.kind = "haku" /\ d.h = h /\ d.put = row
                 /\ d.at = "sent" /\ DOMAIN d.got = {}
    BY <2>6 DEF EditorAsks
  <2>8. spent' \in [edits : Nat, openings : Nat, failures : Nat] /\ spent'.edits = spent.edits
    BY <1>0, <2>4, Spends
  <2>9. \A g \in Haut : editor.timer = g =>
          NoHaku = g \/ (d.h = g /\ \A p \in Row : p \in DOMAIN d.put /\ d.put[p] = editor.haku[g][p])
    BY <2>1, <2>3, <2>7
  <2>10. \A p \in Forms : p \in DOMAIN d.put => d.put[p] < N
    BY <1>0, <2>3, <2>7
  <2> QED BY <1>0, <2>4, <2>5, <2>7, <2>8, <2>9, <2>10, AskStep
<1>2. CASE DebouncedSaveRole
  <2>1. PICK h \in Haut : h = editor.roleTimer.h
    BY <1>0, <1>2 DEF DebouncedSaveRole, EditorPage
  <2>2. editor.roleTimer.role \in Roles /\ editor.roleTimer.value \in Nat
    BY <1>0 DEF EditorPage
  <2>3. PICK put : put = Only(editor.roleTimer.role, editor.roleTimer.value)
    OBVIOUS
  <2>4. DOMAIN put = {editor.roleTimer.role} /\ put[editor.roleTimer.role] = editor.roleTimer.value /\ Holds(DOMAIN put, put)
    BY <1>0, <2>2, <2>3, OnlyIs
  <2>5. PICK kind \in {"saveRole", "saveVastuuvalmistelija"} : calls' = calls \cup {Call(kind, h, put)}
    BY <1>2, <2>1, <2>3 DEF DebouncedSaveRole
  <2>6. /\ editor' = [editor EXCEPT !.roleTimer = NoRoleTimer]
        /\ haut' = haut /\ spent' = spent /\ given' = given /\ lossCause' = lossCause
    BY <1>2 DEF DebouncedSaveRole
  <2>7. NoRoleTimer \in [h : Haut \cup {NoHaku}, role : Roles, value : Nat]
    BY DEF NoRoleTimer, Roles
  <2>8. PageIs(editor', editor.haku, editor.draft, editor.timer, NoRoleTimer, editor.busy, editor.serverError)
    BY <1>0, <2>6, <2>7 DEF EditorPage, PageIs
  <2>9. EditorAsks(kind, h, put)
    BY <1>0, <2>4, <2>5, CallAsks
  <2>10. PICK d : /\ calls' = calls \cup {d} /\ CallTyped(d) /\ d.kind = kind /\ d.h = h /\ d.put = put
                  /\ d.at = "sent" /\ DOMAIN d.got = {}
    BY <2>9 DEF EditorAsks
  <2>11. spent' \in [edits : Nat, openings : Nat, failures : Nat] /\ spent'.edits = spent.edits
    BY <1>0, <2>6, Spends
  <2>12. LET t == editor.roleTimer IN d.h = t.h /\ t.role \in DOMAIN d.put /\ d.put[t.role] = t.value
    BY <2>1, <2>4, <2>10
  <2>13. \A p \in Forms : p \in DOMAIN d.put => d.put[p] < N
    BY <1>0, <2>2, <2>4, <2>10
  <2>14. /\ \A g \in Haut, p \in Forms : editor.draft[g][p] = editor.draft[g][p]
         /\ \A g \in Haut : editor.timer = g => editor.timer = g
    OBVIOUS
  <2> QED BY <1>0, <2>6, <2>8, <2>10, <2>11, <2>12, <2>13, <2>14, AskStep
<1> QED BY <1>1, <1>2

LEMMA SaveDraftKeeps ==
  ASSUME EditorInv, NEW h \in Haut, NEW form \in Forms, SaveDraft(h, form)
  PROVE  EditorInv'
<1>0. /\ EditorTyped /\ FormsBelow /\ editor \in EditorPage /\ Forms \subseteq Drafted /\ Drafted \subseteq Parts
      /\ form \in EditorCalls \ {"select", "create"} /\ "savingForm" \in Saved
  BY PartFacts DEF EditorInv, EditorTyped, EditorCalls, Saved, Forms
<1>1. PICK v \in Nat : v = editor.draft[h][form]
  BY <1>0 DEF EditorPage
<1>2. v < N
  BY <1>0, <1>1 DEF FormsBelow
<1>3. /\ editor' = StartSaving(editor, "savingForm") /\ calls' = calls \cup {Call(form, h, Only(form, v))} /\ SpendOpening
      /\ haut' = haut /\ given' = given /\ lossCause' = lossCause
  BY <1>1 DEF SaveDraft
<1>4. PageIs(editor', editor.haku, editor.draft, editor.timer, editor.roleTimer, editor.busy \cup {"savingForm"}, editor.serverError)
  BY <1>0, <1>3, SavingStarts
<1>5. DOMAIN Only(form, v) = {form} /\ Only(form, v)[form] = v /\ Holds(DOMAIN Only(form, v), Only(form, v))
  BY <1>0, OnlyIs
<1>6. EditorAsks(form, h, Only(form, v))
  BY <1>0, <1>3, <1>5, CallAsks
<1>7. PICK d : /\ calls' = calls \cup {d} /\ CallTyped(d) /\ d.kind = form /\ d.h = h /\ d.put = Only(form, v)
               /\ d.at = "sent" /\ DOMAIN d.got = {}
  BY <1>6 DEF EditorAsks
<1>8. spent' \in [edits : Nat, openings : Nat, failures : Nat] /\ spent'.edits = spent.edits
  BY <1>0, <1>3, Spends
<1>9. \A p \in Forms : p \in DOMAIN d.put => d.put[p] < N
  BY <1>2, <1>5, <1>7
<1>10. /\ \A g \in Haut, p \in Forms : editor.draft[g][p] = editor.draft[g][p]
       /\ \A g \in Haut : editor.timer = g => editor.timer = g
  OBVIOUS
<1> QED BY <1>3, <1>4, <1>7, <1>8, <1>9, <1>10, AskStep

LEMMA OpeningsKeep ==
  ASSUME EditorInv, NEW h \in Haut, SelectHaku(h) \/ CreateHaku(h)
  PROVE  EditorInv'
<1>0. /\ EditorTyped /\ editor \in EditorPage /\ Forms \subseteq Drafted /\ Drafted \subseteq Parts
      /\ {"roleA", "roleB"} \subseteq Drafted /\ "roleA" \notin Forms /\ "roleB" \notin Forms
      /\ "select" \in EditorCalls /\ "create" \in EditorCalls
  BY PartFacts DEF EditorInv, EditorTyped, EditorCalls, Roles, Forms
<1>1. PICK none : none = <<>> /\ DOMAIN none = {} /\ Holds(DOMAIN none, none)
  BY NoneHeld
<1>2. /\ SpendOpening /\ haut' = haut /\ given' = given /\ lossCause' = lossCause
  BY DEF SelectHaku, CreateHaku
<1>3. PICK kind \in {"select", "create"} : calls' = calls \cup {Call(kind, h, none)}
  BY <1>1 DEF SelectHaku, CreateHaku
<1>4. EditorAsks(kind, h, none)
  BY <1>0, <1>1, <1>3, CallAsks
<1>5. PICK d : /\ calls' = calls \cup {d} /\ CallTyped(d) /\ d.kind = kind /\ d.h = h /\ d.put = none
               /\ d.at = "sent" /\ DOMAIN d.got = {}
  BY <1>4 DEF EditorAsks
<1>6. PICK draft : /\ PageIs(editor', editor.haku, draft, editor.timer, editor.roleTimer, editor.busy, editor.serverError)
                   /\ \A g \in Haut, p \in Forms : draft[g][p] = editor.draft[g][p]
  <2>1. CASE SelectHaku(h)
    <3>1. PICK row : row = [editor.draft[h] EXCEPT !["roleA"] = editor.haku[h]["roleA"], !["roleB"] = editor.haku[h]["roleB"]]
      OBVIOUS
    <3>2. row \in [Drafted -> Nat] /\ \A p \in Forms : row[p] = editor.draft[h][p]
      BY <1>0, <3>1 DEF EditorPage, Whole
    <3>3. PICK draft \in [Haut -> [Drafted -> Nat]] : draft = [editor.draft EXCEPT ![h] = row]
      BY <1>0, <3>2 DEF EditorPage
    <3>4. \A g \in Haut, p \in Forms : draft[g][p] = editor.draft[g][p]
      BY <1>0, <3>2, <3>3 DEF EditorPage
    <3>5. editor' = [editor EXCEPT !.open = h, !.loading = TRUE, !.draft[h] = row]
      BY <1>0, <2>1, <3>1 DEF SelectHaku, EditorPage
    <3>6. editor' = [editor EXCEPT !.open = h, !.loading = TRUE, !.draft = draft]
      BY <1>0, <3>3, <3>5 DEF EditorPage
    <3>7. PageIs(editor', editor.haku, draft, editor.timer, editor.roleTimer, editor.busy, editor.serverError)
      BY <1>0, <3>6 DEF EditorPage, PageIs
    <3> QED BY <3>4, <3>7
  <2>2. CASE CreateHaku(h)
    <3>1. editor' = editor
      BY <2>2 DEF CreateHaku
    <3>2. PageIs(editor', editor.haku, editor.draft, editor.timer, editor.roleTimer, editor.busy, editor.serverError)
      BY <1>0, <3>1 DEF PageIs
    <3> QED BY <3>2
  <2> QED BY <2>1, <2>2
<1>7. spent' \in [edits : Nat, openings : Nat, failures : Nat] /\ spent'.edits = spent.edits
  BY <1>0, <1>2, Spends
<1>8. /\ \A p \in Forms : p \in DOMAIN d.put => d.put[p] < N
      /\ \A g \in Haut : editor.timer = g => editor.timer = g
  BY <1>1, <1>5
<1> QED BY <1>2, <1>5, <1>6, <1>7, <1>8, AskStep

\* The server stores.
LEMMA ServerStoreKeeps ==
  ASSUME EditorInv, NEW c \in calls, Store1(c)
  PROVE  EditorInv'
<1>0. EditorTyped /\ FormsBelow /\ EditsKept /\ CallTyped(c) /\ c.h \in Haut /\ c.at = "sent" /\ Forms \subseteq Parts
  BY PartFacts DEF EditorInv, EditorTyped, CallTyped, Store1
<1>1. PICK row : row = [p \in Parts |-> IF p \in DOMAIN c.put THEN c.put[p] ELSE haut[c.h][p]]
  OBVIOUS
<1>2. row \in Whole /\ \A p \in Parts : row[p] = IF p \in DOMAIN c.put THEN c.put[p] ELSE haut[c.h][p]
  BY <1>0, <1>1 DEF EditorTyped, CallTyped, Holds, Whole
<1>3. haut' = [haut EXCEPT ![c.h] = row]
  BY <1>1 DEF Store1
<1>4. haut' \in [Haut -> Whole] /\ haut'[c.h] = row /\ \A g \in Haut : g # c.h => haut'[g] = haut[g]
  BY <1>0, <1>2, <1>3 DEF EditorTyped
<1>5. PICK at \in {"stored", "answered"} : at = IF Brings(c.kind) = {} THEN "answered" ELSE "stored"
  OBVIOUS
<1>6. PICK d : d = [c EXCEPT !.at = at]
  OBVIOUS
<1>7. /\ d.h = c.h /\ d.put = c.put /\ d.got = c.got /\ d.kind = c.kind /\ d.at = at
      /\ d \in [id : {d.id}, kind : EditorCalls, h : Haut, put : {d.put}, at : {"sent", "stored", "answered"}, got : {d.got}]
  BY <1>0, <1>5, <1>6 DEF CallTyped
<1>8. CallTyped(d)
  BY <1>0, <1>5, <1>7 DEF CallTyped
<1>9. calls' = (calls \ {c}) \cup {d} /\ editor' = editor /\ spent' = spent /\ given' = given
  BY <1>5, <1>6 DEF Store1
<1>10. /\ CausesGrow
       /\ lossCause'[c.h] = {} => \A p \in DOMAIN c.put : haut[c.h][p] = given[c.h][p] => c.put[p] = given[c.h][p]
  <2>1. CASE \E p \in DOMAIN c.put : haut[c.h][p] = given[c.h][p] /\ c.put[p] # given[c.h][p]
    <3>1. lossCause' = Because({c.h}, "overtaken")
      BY <2>1 DEF Store1
    <3>2. CausesGrow /\ \A h \in Haut : h \in {c.h} => "overtaken" \in lossCause'[h]
      BY <1>0, <3>1, BecauseIs DEF EditorTyped
    <3> QED BY <1>0, <3>2
  <2>2. CASE ~\E p \in DOMAIN c.put : haut[c.h][p] = given[c.h][p] /\ c.put[p] # given[c.h][p]
    <3>1. lossCause' = lossCause
      BY <2>2 DEF Store1
    <3> QED BY <1>0, <2>2, <3>1, SameCauses
  <2> QED BY <2>1, <2>2
<1>11. EditorTyped'
  BY <1>0, <1>4, <1>8, <1>9, <1>10 DEF EditorTyped, CausesGrow
<1>12. FormsBelow'
  <2>1. N' = N
    BY <1>9 DEF N
  <2>2. \A p \in Forms, h \in Haut : haut'[h][p] < N
    BY <1>0, <1>2, <1>4 DEF FormsBelow
  <2>3. \A p \in Forms : (p \in DOMAIN d.put => d.put[p] < N) /\ (p \in DOMAIN d.got => d.got[p] < N)
    BY <1>0, <1>7 DEF FormsBelow
  <2> QED BY <1>0, <1>9, <2>1, <2>2, <2>3 DEF FormsBelow
<1>13. ASSUME NEW h \in Haut, lossCause'[h] = {} PROVE NothingLost(h)'
  <2>1. NothingLost(h)
    BY <1>0, <1>10, <1>13 DEF EditsKept, CausesGrow
  <2>2. ASSUME NEW p \in Parts, haut[h][p] = given[h][p] PROVE haut'[h][p] = given[h][p]
    BY <1>2, <1>4, <1>10, <1>13, <2>2
  <2>3. ASSUME NEW p \in Parts \ Forms PROVE OnItsWay(h, p)'
    <3>1. OnItsWay(h, p)
      BY <2>1 DEF NothingLost
    <3>2. c.h = h /\ p \in DOMAIN c.put /\ c.put[p] = given[h][p] => haut'[h][p] = given[h][p]
      BY <1>2, <1>4
    <3> QED BY <1>9, <2>2, <3>1, <3>2 DEF OnItsWay
  <2>4. ASSUME NEW p \in Forms PROVE FormIsGiven(h, p)'
    <3>1. FormIsGiven(h, p) /\ p \in Parts
      BY <1>0, <2>1 DEF NothingLost
    <3> QED BY <1>7, <1>9, <2>2, <3>1 DEF FormIsGiven
  <2> QED BY <1>9, <2>1, <2>3, <2>4 DEF NothingLost
<1>14. EditsKept'
  BY <1>13 DEF EditsKept
<1> QED BY <1>11, <1>12, <1>14 DEF EditorInv

\* The server reads what it answers.
ReadNow(c) == [p \in Brings(c.kind) |-> haut[c.h][p]]
WithGot(c, got) == [c EXCEPT !.at = "answered", !.got = got]
LEMMA ReadBackKeeps ==
  ASSUME EditorInv, NEW c \in calls, ReadBack(c)
  PROVE  EditorInv'
<1>0. EditorTyped /\ FormsBelow /\ EditsKept /\ CallTyped(c) /\ c.h \in Haut /\ c.at = "stored" /\ Forms \subseteq Parts
  <2>1. c.at = "stored"
    BY Zenon DEF ReadBack
  <2> QED BY <2>1, PartFacts DEF EditorInv, EditorTyped, CallTyped
<1>1. PICK got : got = ReadNow(c)
  OBVIOUS
<1>2. Brings(c.kind) \subseteq Parts
  BY PartFacts DEF Brings, RoleCalls, Forms
<1>3. DOMAIN got = Brings(c.kind) /\ Holds(DOMAIN got, got) /\ \A p \in DOMAIN got : got[p] = haut[c.h][p]
  BY <1>0, <1>1, <1>2 DEF EditorTyped, Whole, Holds, ReadNow
<1>4. PICK d : d = WithGot(c, got)
  OBVIOUS
<1>5. /\ d.h = c.h /\ d.put = c.put /\ d.got = got /\ d.kind = c.kind /\ d.at = "answered"
      /\ d \in [id : {d.id}, kind : EditorCalls, h : Haut, put : {d.put}, at : {"sent", "stored", "answered"}, got : {d.got}]
  BY <1>0, <1>4 DEF CallTyped, WithGot
<1>6. CallTyped(d)
  BY <1>0, <1>3, <1>5 DEF CallTyped
<1>7. /\ calls' = (calls \ {c}) \cup {d} /\ haut' = haut /\ editor' = editor /\ spent' = spent /\ given' = given
      /\ lossCause' = lossCause
  <2>1. calls' = (calls \ {c}) \cup {WithGot(c, ReadNow(c))}
    BY Zenon DEF ReadBack, WithGot, ReadNow
  <2>2. haut' = haut /\ editor' = editor /\ spent' = spent /\ given' = given /\ lossCause' = lossCause
    BY Zenon DEF ReadBack
  <2> QED BY Zenon, <1>1, <1>4, <2>1, <2>2
<1>8. EditorTyped'
  BY <1>0, <1>6, <1>7 DEF EditorTyped
<1>9. FormsBelow'
  <2>1. N' = N
    BY <1>7 DEF N
  <2>2. \A p \in Forms : (p \in DOMAIN d.put => d.put[p] < N) /\ (p \in DOMAIN d.got => d.got[p] < N)
    BY <1>0, <1>3, <1>5 DEF FormsBelow
  <2> QED BY <1>0, <1>7, <2>1, <2>2 DEF FormsBelow
<1>10. ASSUME NEW h \in Haut, lossCause[h] = {} PROVE NothingLost(h)'
  <2>1. NothingLost(h)
    BY <1>0, <1>10 DEF EditsKept
  <2>2. ASSUME NEW p \in Parts \ Forms PROVE OnItsWay(h, p)'
    <3>1. OnItsWay(h, p)
      BY <2>1 DEF NothingLost
    <3> QED BY <1>0, <1>7, <3>1 DEF OnItsWay
  <2>3. ASSUME NEW p \in Forms PROVE FormIsGiven(h, p)'
    <3>1. FormIsGiven(h, p)
      BY <2>1 DEF NothingLost
    <3> QED BY <1>3, <1>5, <1>7, <3>1 DEF FormIsGiven
  <2> QED BY <1>7, <2>1, <2>2, <2>3 DEF NothingLost
<1>11. EditsKept'
  BY <1>7, <1>10 DEF EditsKept
<1> QED BY <1>8, <1>9, <1>11 DEF EditorInv

LEMMA ErrorsTold == "unexpected-error" # Nothing /\ "validation-error" # Nothing
BY Zenon DEF Nothing

\* What an answer may have shown, or what an error shown for another save was about.
LEMMA AnsweredOverIs ==
  ASSUME NEW c, Lost(c.h, c.got)
  PROVE  AnsweredOver(c) = {c.h}
BY DEF AnsweredOver
LEMMA ErrorReplacedIs ==
  ASSUME editor.serverError # Nothing, NEW h \in Haut, Lost(h, haut[h])
  PROVE  h \in ErrorReplaced
<1>1. ErrorReplaced = {g \in Haut : Lost(g, haut[g])}
  BY Zenon DEF ErrorReplaced, Nothing
<1> QED BY <1>1

NotedCauses(c) ==
  [h \in Haut |-> lossCause[h]
       \cup (IF h \in AnsweredOver(c) THEN {"answered_over"} ELSE {})
       \cup (IF h \in ErrorReplaced THEN {"error_replaced"} ELSE {})]
LEMMA AnswerNoted ==
  ASSUME EditorTyped, NEW c, c.h \in Haut, lossCause' = NotedCauses(c)
  PROVE  /\ CausesGrow
         /\ lossCause'[c.h] = {} => ~Lost(c.h, c.got)
         /\ \A h \in Haut : lossCause'[h] = {} => editor.serverError = Nothing \/ ~Lost(h, haut[h])
<1>1. CausesGrow
  BY DEF CausesGrow, NotedCauses
<1>2. /\ c.h \in AnsweredOver(c) => lossCause'[c.h] # {}
      /\ \A h \in Haut : h \in ErrorReplaced => lossCause'[h] # {}
  BY DEF NotedCauses
<1>3. lossCause'[c.h] = {} => ~Lost(c.h, c.got)
  BY <1>2, AnsweredOverIs
<1>4. \A h \in Haut : lossCause'[h] = {} => editor.serverError = Nothing \/ ~Lost(h, haut[h])
  BY <1>2, ErrorReplacedIs
<1> QED BY <1>1, <1>3, <1>4

\* An answered request, and one that failed.
LEMMA AnsweredIs ==
  ASSUME EditorTyped, NEW c \in calls, NEW kinds
  PROVE  /\ CallTyped(c) /\ c.h \in Haut /\ c.kind \in EditorCalls /\ Holds(DOMAIN c.got, c.got)
         /\ Answered(c, kinds) => calls' = calls \ {c} /\ c.at # "sent" /\ c.kind \in kinds /\ DOMAIN c.got = Brings(c.kind)
         /\ Failed(c, kinds) => /\ calls' = calls \ {c} /\ c.kind \in kinds
                                /\ spent' \in [edits : Nat, openings : Nat, failures : Nat] /\ spent'.edits = spent.edits
<1>1. CallTyped(c) /\ c.h \in Haut /\ c.kind \in EditorCalls /\ Holds(DOMAIN c.got, c.got)
  BY DEF EditorTyped, CallTyped
<1>2. Answered(c, kinds) => calls' = calls \ {c} /\ c.at # "sent" /\ c.kind \in kinds /\ DOMAIN c.got = Brings(c.kind)
  BY <1>1 DEF Answered, CallTyped
<1>3. Failed(c, kinds) => /\ calls' = calls \ {c} /\ c.kind \in kinds
                          /\ spent' \in [edits : Nat, openings : Nat, failures : Nat] /\ spent'.edits = spent.edits
  BY DEF Failed, EditorTyped
<1> QED BY <1>1, <1>2, <1>3

LEMMA ReplacedParts ==
  ASSUME NEW c, NEW haku, NEW draft, Replaces(haku, editor.haku, Parts, c.h, c.got),
         draft = editor.draft \/ Replaces(draft, editor.draft, Drafted, c.h, c.got), lossCause'[c.h] = {} => ~Lost(c.h, c.got)
  PROVE  Brought2(c, haku, draft)
BY DEF Replaces, Brought2

LEMMA HakuAnswerKeeps ==
  ASSUME EditorInv, NEW c \in calls, SaveHakuFulfilled(c)
  PROVE  EditorInv'
<1>0. EditorTyped /\ editor \in EditorPage /\ "saveInProgress" \in Saved
  BY DEF EditorInv, EditorTyped, Saved
<1>1. /\ Answered(c, {"haku"}) /\ lossCause' = NotedCauses(c) /\ haut' = haut /\ spent' = spent /\ given' = given
  BY Zenon DEF SaveHakuFulfilled, NotedCauses
<1>2. /\ c.h \in Haut /\ calls' = calls \ {c} /\ c.at # "sent" /\ Holds(DOMAIN c.got, c.got)
  BY <1>0, <1>1, AnsweredIs
<1>3. PICK done : done = SaveSuccess(Known(editor, c.h, c.got), "saveInProgress")
  OBVIOUS
<1>4. editor' = done \/ editor' = [done EXCEPT !.serverError = "validation-error"]
  BY <1>3 DEF SaveHakuFulfilled
<1>5. PICK haku : /\ PageIs(Known(editor, c.h, c.got), haku, editor.draft, editor.timer, editor.roleTimer, editor.busy, editor.serverError)
                  /\ Replaces(haku, editor.haku, Parts, c.h, c.got)
  BY <1>0, <1>2, KnownIs
<1>6. PICK ed \in EditorPage : ed = Known(editor, c.h, c.got)
  BY <1>5 DEF PageIs
<1>7. PageIs(done, ed.haku, ed.draft, ed.timer, ed.roleTimer, ed.busy \ {"saveInProgress"}, Nothing)
  BY <1>0, <1>3, <1>6, SaveSucceeds
<1>8. PageIs(done, haku, editor.draft, editor.timer, editor.roleTimer, editor.busy \ {"saveInProgress"}, Nothing)
  BY <1>5, <1>6, <1>7 DEF PageIs
<1>9. PICK error \in {Nothing, "validation-error"} :
        PageIs(editor', haku, editor.draft, editor.timer, editor.roleTimer, editor.busy \ {"saveInProgress"}, error)
  <2>1. CASE editor' = done
    BY <1>8, <2>1
  <2>2. CASE editor' = [done EXCEPT !.serverError = "validation-error"]
    <3>1. PageIs(editor', haku, editor.draft, editor.timer, editor.roleTimer, editor.busy \ {"saveInProgress"}, "validation-error")
      BY <1>8, <2>2 DEF PageIs, EditorPage
    <3> QED BY <3>1
  <2> QED BY <1>4, <2>1, <2>2
<1>10. /\ CausesGrow
       /\ lossCause'[c.h] = {} => ~Lost(c.h, c.got)
       /\ \A h \in Haut : lossCause'[h] = {} => editor.serverError = Nothing \/ ~Lost(h, haut[h])
  BY <1>0, <1>1, <1>2, AnswerNoted
<1>11. spent' \in [edits : Nat, openings : Nat, failures : Nat] /\ spent'.edits = spent.edits
  BY <1>0, <1>1, Spends
<1>12. Ends(c, haku, editor.draft, editor.busy \ {"saveInProgress"}, error)
  BY <1>1, <1>2, <1>9, <1>10, <1>11 DEF Ends
<1>13. Brought2(c, haku, editor.draft)
  BY <1>5, <1>10, ReplacedParts
<1>14. \A h \in Haut : lossCause'[h] = {} => error = editor.serverError \/ error # Nothing \/ ~Lost(h, haut[h])
  BY <1>9, <1>10
<1> QED BY <1>2, <1>12, <1>13, <1>14, EndStep

LEMMA ShownAnswerKeeps ==
  ASSUME EditorInv, NEW c \in calls, NEW kinds, NEW key \in Saved, Answered(c, kinds), lossCause' = NotedCauses(c),
         editor' = SaveSuccess(Shown1(editor, c.h, c.got), key), haut' = haut, spent' = spent, given' = given
  PROVE  EditorInv'
<1>0. EditorTyped /\ editor \in EditorPage
  BY DEF EditorInv, EditorTyped
<1>2. /\ c.h \in Haut /\ calls' = calls \ {c} /\ c.at # "sent" /\ Holds(DOMAIN c.got, c.got)
  BY <1>0, AnsweredIs
<1>5. PICK haku, draft :
           /\ PageIs(Shown1(editor, c.h, c.got), haku, draft, editor.timer, editor.roleTimer, editor.busy, editor.serverError)
           /\ Replaces(haku, editor.haku, Parts, c.h, c.got) /\ Replaces(draft, editor.draft, Drafted, c.h, c.got)
  BY <1>0, <1>2, ShownIs
<1>6. PICK ed \in EditorPage : ed = Shown1(editor, c.h, c.got)
  BY <1>5 DEF PageIs
<1>7. PageIs(editor', ed.haku, ed.draft, ed.timer, ed.roleTimer, ed.busy \ {key}, Nothing)
  BY <1>0, <1>6, SaveSucceeds
<1>8. PageIs(editor', haku, draft, editor.timer, editor.roleTimer, editor.busy \ {key}, Nothing)
  BY <1>5, <1>6, <1>7 DEF PageIs
<1>10. /\ CausesGrow
       /\ lossCause'[c.h] = {} => ~Lost(c.h, c.got)
       /\ \A h \in Haut : lossCause'[h] = {} => editor.serverError = Nothing \/ ~Lost(h, haut[h])
  BY <1>0, <1>2, AnswerNoted
<1>11. spent' \in [edits : Nat, openings : Nat, failures : Nat] /\ spent'.edits = spent.edits
  BY <1>0, Spends
<1>12. Ends(c, haku, draft, editor.busy \ {key}, Nothing)
  BY <1>2, <1>8, <1>10, <1>11 DEF Ends
<1>13. Brought2(c, haku, draft)
  BY <1>5, <1>10, ReplacedParts
<1>14. \A h \in Haut : lossCause'[h] = {} => Nothing = editor.serverError \/ Nothing # Nothing \/ ~Lost(h, haut[h])
  BY <1>10
<1> QED BY <1>2, <1>12, <1>13, <1>14, EndStep

LEMMA RolesAndFormsKeep ==
  ASSUME EditorInv, NEW c \in calls, RolesFulfilled(c) \/ SaveFormFulfilled(c)
  PROVE  EditorInv'
<1>0. "savingRoles" \in Saved /\ "savingForm" \in Saved
  BY DEF Saved
<1>1. CASE RolesFulfilled(c)
  <2>1. /\ Answered(c, RoleCalls) /\ editor' = SaveSuccess(Shown1(editor, c.h, c.got), "savingRoles")
        /\ lossCause' = NotedCauses(c) /\ haut' = haut /\ spent' = spent /\ given' = given
    BY Zenon, <1>1 DEF RolesFulfilled, NotedCauses
  <2> QED BY <1>0, <2>1, ShownAnswerKeeps
<1>2. CASE SaveFormFulfilled(c)
  <2>1. /\ Answered(c, Forms) /\ editor' = SaveSuccess(Shown1(editor, c.h, c.got), "savingForm")
        /\ lossCause' = NotedCauses(c) /\ haut' = haut /\ spent' = spent /\ given' = given
    BY Zenon, <1>2 DEF SaveFormFulfilled, NotedCauses
  <2> QED BY <1>0, <2>1, ShownAnswerKeeps
<1> QED BY <1>1, <1>2

LEMMA AccountsAnswerKeeps ==
  ASSUME EditorInv, NEW c \in calls, TalousarviotilitReplaced(c)
  PROVE  EditorInv'
<1>0. EditorTyped /\ editor \in EditorPage /\ "savingTalousarviotilit" \in Saved
  BY DEF EditorInv, EditorTyped, Saved
<1>1. /\ Answered(c, {"talousarviotilit"}) /\ editor' = SaveSuccess(editor, "savingTalousarviotilit")
      /\ lossCause' = Because(ErrorReplaced, "error_replaced") /\ haut' = haut /\ spent' = spent /\ given' = given
  BY DEF TalousarviotilitReplaced
<1>2. calls' = calls \ {c} /\ c.at # "sent"
  BY <1>0, <1>1, AnsweredIs
<1>3. PageIs(editor', editor.haku, editor.draft, editor.timer, editor.roleTimer, editor.busy \ {"savingTalousarviotilit"}, Nothing)
  BY <1>0, <1>1, SaveSucceeds
<1>4. CausesGrow /\ \A h \in Haut : h \in ErrorReplaced => "error_replaced" \in lossCause'[h]
  BY <1>0, <1>1, BecauseIs DEF EditorTyped
<1>5. spent' \in [edits : Nat, openings : Nat, failures : Nat] /\ spent'.edits = spent.edits
  BY <1>0, <1>1, Spends
<1>6. Ends(c, editor.haku, editor.draft, editor.busy \ {"savingTalousarviotilit"}, Nothing)
  BY <1>1, <1>2, <1>3, <1>4, <1>5 DEF Ends
<1>7. \A h \in Haut : lossCause'[h] = {} => Nothing = editor.serverError \/ Nothing # Nothing \/ ~Lost(h, haut[h])
  BY <1>4, ErrorReplacedIs
<1> QED BY <1>2, <1>6, <1>7, EndStep

\* Requests that end without changing what the page says of errors.
LEMMA QuietEnd ==
  ASSUME EditorInv, NEW c \in calls, calls' = calls \ {c}, haut' = haut, given' = given, CausesGrow,
         PageIs(editor', editor.haku, editor.draft, editor.timer, editor.roleTimer, editor.busy, editor.serverError),
         spent' \in [edits : Nat, openings : Nat, failures : Nat], spent'.edits = spent.edits,
         c.at # "sent" \/ DOMAIN c.put = {} \/ lossCause'[c.h] # {}
  PROVE  EditorInv'
<1>1. Ends(c, editor.haku, editor.draft, editor.busy, editor.serverError)
  BY DEF Ends
<1> QED BY <1>1, EndStep

LEMMA QuietAnswersKeep ==
  ASSUME EditorInv, NEW c \in calls, ProjectsPosted(c) \/ CreateHakuFulfilled(c)
  PROVE  EditorInv'
<1>0. EditorTyped /\ editor \in EditorPage
  BY DEF EditorInv, EditorTyped
<1>1. calls' = calls \ {c} /\ c.at # "sent"
  BY <1>0, AnsweredIs DEF ProjectsPosted, CreateHakuFulfilled
<1>2. haut' = haut /\ spent' = spent /\ given' = given /\ lossCause' = lossCause
  BY DEF ProjectsPosted, CreateHakuFulfilled
<1>3. editor' = editor \/ editor' = [editor EXCEPT !.open = NoHaku]
  BY DEF ProjectsPosted, CreateHakuFulfilled
<1>4. PageIs(editor', editor.haku, editor.draft, editor.timer, editor.roleTimer, editor.busy, editor.serverError)
  BY <1>0, <1>3 DEF EditorPage, PageIs
<1>5. spent' \in [edits : Nat, openings : Nat, failures : Nat] /\ spent'.edits = spent.edits /\ CausesGrow
  BY <1>0, <1>2, Spends, SameCauses
<1> QED BY <1>1, <1>2, <1>4, <1>5, QuietEnd

LEMMA SelectAnswerKeeps ==
  ASSUME EditorInv, NEW c \in calls, SelectHakuFulfilled(c)
  PROVE  EditorInv'
<1>0. EditorTyped /\ editor \in EditorPage
  BY DEF EditorInv, EditorTyped
<1>1. /\ Answered(c, {"select"}) /\ lossCause' = Because(AnsweredOver(c), "answered_over")
      /\ haut' = haut /\ spent' = spent /\ given' = given
  BY DEF SelectHakuFulfilled
<1>2. /\ c.h \in Haut /\ calls' = calls \ {c} /\ c.at # "sent" /\ Holds(DOMAIN c.got, c.got)
  BY <1>0, <1>1, AnsweredIs
<1>3. PICK haku, draft :
           /\ PageIs(Shown1(editor, c.h, c.got), haku, draft, editor.timer, editor.roleTimer, editor.busy, editor.serverError)
           /\ Replaces(haku, editor.haku, Parts, c.h, c.got) /\ Replaces(draft, editor.draft, Drafted, c.h, c.got)
  BY <1>0, <1>2, ShownIs
<1>4. PICK ed \in EditorPage : ed = Shown1(editor, c.h, c.got)
  BY <1>3 DEF PageIs
<1>5. editor' = [ed EXCEPT !.loading = FALSE, !.loadError = FALSE]
  BY <1>4 DEF SelectHakuFulfilled
<1>6. PageIs(editor', haku, draft, editor.timer, editor.roleTimer, editor.busy, editor.serverError)
  BY <1>3, <1>4, <1>5 DEF PageIs, EditorPage
<1>7. CausesGrow /\ \A h \in Haut : h \in AnsweredOver(c) => "answered_over" \in lossCause'[h]
  BY <1>0, <1>1, BecauseIs DEF EditorTyped
<1>8. lossCause'[c.h] = {} => ~Lost(c.h, c.got)
  BY <1>2, <1>7, AnsweredOverIs
<1>9. spent' \in [edits : Nat, openings : Nat, failures : Nat] /\ spent'.edits = spent.edits
  BY <1>0, <1>1, Spends
<1>10. Ends(c, haku, draft, editor.busy, editor.serverError)
  BY <1>1, <1>2, <1>6, <1>7, <1>9 DEF Ends
<1>11. Brought2(c, haku, draft)
  BY <1>3, <1>8, ReplacedParts
<1> QED BY <1>2, <1>10, <1>11, EndStep

LEMMA RejectionsKeep ==
  ASSUME EditorInv, NEW c \in calls, SaveRejected(c) \/ SelectHakuRejected(c) \/ CreateHakuRejected(c) \/ FailedSilently(c)
  PROVE  EditorInv'
<1>0. EditorTyped /\ editor \in EditorPage
  BY DEF EditorInv, EditorTyped
<1>1. CASE SaveRejected(c)
  <2>1. PICK key \in Saved : editor' = SaveFailed(editor, key)
    BY <1>1 DEF SaveRejected, Saved
  <2>2. /\ Failed(c, {"haku", "talousarviotilit"} \cup Forms) /\ haut' = haut /\ given' = given /\ lossCause' = lossCause
    BY <1>1 DEF SaveRejected
  <2>3. calls' = calls \ {c} /\ spent' \in [edits : Nat, openings : Nat, failures : Nat] /\ spent'.edits = spent.edits
    BY <1>0, <2>2, AnsweredIs
  <2>4. PageIs(editor', editor.haku, editor.draft, editor.timer, editor.roleTimer, editor.busy \ {key}, "unexpected-error")
    BY <1>0, <2>1, SaveFails
  <2>5. CausesGrow
    BY <1>0, <2>2, SameCauses
  <2>6. Ends(c, editor.haku, editor.draft, editor.busy \ {key}, "unexpected-error")
    BY <2>2, <2>3, <2>4, <2>5 DEF Ends
  <2> QED BY <2>6, ErrorsTold, EndStep
<1>2. CASE SelectHakuRejected(c)
  <2>1. /\ Failed(c, {"select"}) /\ haut' = haut /\ given' = given /\ lossCause' = lossCause
        /\ editor' = [editor EXCEPT !.loading = FALSE, !.loadError = TRUE]
    BY <1>2 DEF SelectHakuRejected
  <2>2. /\ calls' = calls \ {c} /\ c.kind = "select" /\ CallTyped(c)
        /\ spent' \in [edits : Nat, openings : Nat, failures : Nat] /\ spent'.edits = spent.edits
    BY <1>0, <2>1, AnsweredIs
  <2>3. PageIs(editor', editor.haku, editor.draft, editor.timer, editor.roleTimer, editor.busy, editor.serverError)
    BY <1>0, <2>1 DEF EditorPage, PageIs
  <2>4. DOMAIN c.put = {}
    BY <2>2 DEF CallTyped
  <2> QED BY <1>0, <2>1, <2>2, <2>3, <2>4, SameCauses, QuietEnd
<1>3. CASE CreateHakuRejected(c)
  <2>1. /\ Failed(c, {"create"}) /\ haut' = haut /\ given' = given /\ lossCause' = lossCause
        /\ editor' = [SaveFailed(editor, "saveInProgress") EXCEPT !.open = NoHaku, !.crashed = TRUE]
    BY <1>3 DEF CreateHakuRejected
  <2>2. calls' = calls \ {c} /\ spent' \in [edits : Nat, openings : Nat, failures : Nat] /\ spent'.edits = spent.edits
    BY <1>0, <2>1, AnsweredIs
  <2>3. PICK ed : ed = SaveFailed(editor, "saveInProgress")
    OBVIOUS
  <2>4. PageIs(ed, editor.haku, editor.draft, editor.timer, editor.roleTimer, editor.busy \ {"saveInProgress"}, "unexpected-error")
    BY <1>0, <2>3, SaveFails DEF Saved
  <2>5. PageIs(editor', editor.haku, editor.draft, editor.timer, editor.roleTimer, editor.busy \ {"saveInProgress"}, "unexpected-error")
    BY <2>1, <2>3, <2>4 DEF EditorPage, PageIs
  <2>6. CausesGrow
    BY <1>0, <2>1, SameCauses
  <2>7. Ends(c, editor.haku, editor.draft, editor.busy \ {"saveInProgress"}, "unexpected-error")
    BY <2>1, <2>2, <2>5, <2>6 DEF Ends
  <2> QED BY <2>7, ErrorsTold, EndStep
<1>4. CASE FailedSilently(c)
  <2>1. PICK reason : lossCause' = Because({c.h}, reason)
    BY <1>4 DEF FailedSilently
  <2>2. Failed(c, RoleCalls \cup {"projects"}) /\ haut' = haut /\ given' = given /\ editor' = editor
    BY <1>4 DEF FailedSilently
  <2>3. /\ calls' = calls \ {c} /\ c.h \in Haut
        /\ spent' \in [edits : Nat, openings : Nat, failures : Nat] /\ spent'.edits = spent.edits
    BY <1>0, <2>2, AnsweredIs
  <2>4. CausesGrow /\ \A h \in Haut : h \in {c.h} => reason \in lossCause'[h]
    BY <1>0, <2>1, BecauseIs DEF EditorTyped
  <2>5. PageIs(editor', editor.haku, editor.draft, editor.timer, editor.roleTimer, editor.busy, editor.serverError)
    BY <1>0, <2>2 DEF PageIs
  <2>6. lossCause'[c.h] # {}
    BY <2>3, <2>4
  <2> QED BY <2>2, <2>3, <2>4, <2>5, <2>6, QuietEnd
<1> QED BY <1>1, <1>2, <1>3, <1>4

LEMMA EditorStart == EditorInit => EditorInv
<1> SUFFICES ASSUME EditorInit PROVE EditorInv
  OBVIOUS
<1>1. NewHaku \in Whole /\ Drafts(NewHaku) \in [Drafted -> Nat]
  BY DEF NewHaku, Whole, Drafts, Parts, Drafted, Row, Roles, Forms
<1>2. \A p \in Parts : NewHaku[p] < 2
  BY DEF NewHaku
<1>3. \A p \in Drafted : Drafts(NewHaku)[p] = NewHaku[p] /\ p \in Parts
  BY DEF Drafts, Drafted, Parts
<1>4. NoRoleTimer \in [h : Haut \cup {NoHaku}, role : Roles, value : Nat]
  BY DEF NoRoleTimer, Roles
<1>5. PICK new, timer : new = NewHaku /\ timer = NoRoleTimer
  OBVIOUS
<1>51. PICK all : all = [h \in Haut |-> new]
  OBVIOUS
<1>52. PICK kept : kept = Drafts(NewHaku)
  OBVIOUS
<1>53. PICK drafts : drafts = [g \in Haut |-> kept]
  OBVIOUS
<1>7. PICK h \in Haut :
        editor = [open |-> h, crashed |-> FALSE, loading |-> FALSE, loadError |-> FALSE,
                  haku |-> all, draft |-> drafts, timer |-> NoHaku, roleTimer |-> timer, busy |-> {}, serverError |-> Nothing]
  BY Zenon, <1>5, <1>51, <1>52, <1>53 DEF EditorInit, Nothing
<1>8. /\ haut = all /\ given = all /\ calls = {} /\ spent = [edits |-> 0, openings |-> 0, failures |-> 0]
      /\ lossCause = [g \in Haut |-> {}]
  BY Zenon, <1>5, <1>51, <1>52, <1>53 DEF EditorInit
<1>9. all \in [Haut -> Whole] /\ drafts \in [Haut -> [Drafted -> Nat]] /\ \A g \in Haut : all[g] = NewHaku /\ drafts[g] = Drafts(NewHaku)
  BY <1>1, <1>5, <1>51, <1>52, <1>53
<1>10. editor \in EditorPage /\ editor.haku = all /\ editor.draft = drafts
  BY <1>4, <1>5, <1>7, <1>9 DEF EditorPage
<1>11. EditorTyped
  BY <1>8, <1>9, <1>10 DEF EditorTyped
<1>12. FormsBelow
  <2>1. N = 2
    BY <1>8 DEF N
  <2>2. Forms \subseteq Parts /\ Forms \subseteq Drafted
    BY PartFacts
  <2> QED BY <1>2, <1>3, <1>8, <1>9, <1>10, <2>1, <2>2 DEF FormsBelow
<1>13. EditsKept
  <2>1. Drafted \subseteq Parts /\ Forms \subseteq Drafted
    BY PartFacts
  <2>2. ASSUME NEW g \in Haut PROVE NothingLost(g)
    BY <1>3, <1>8, <1>9, <1>10, <2>1 DEF NothingLost, OnItsWay, FormIsGiven
  <2> QED BY <2>2 DEF EditsKept
<1> QED BY <1>11, <1>12, <1>13 DEF EditorInv

LEMMA EditorUnmoved == EditorInv /\ UNCHANGED editorVars => EditorInv'
<1> SUFFICES ASSUME EditorInv, UNCHANGED editorVars PROVE EditorInv'
  OBVIOUS
<1>1. haut' = haut /\ editor' = editor /\ calls' = calls /\ spent' = spent /\ given' = given /\ lossCause' = lossCause
  BY DEF editorVars
<1>2. EditorTyped'
  BY <1>1 DEF EditorInv, EditorTyped
<1>3. FormsBelow'
  BY <1>1 DEF EditorInv, FormsBelow, N
<1>4. EditsKept'
  BY <1>1 DEF EditorInv, EditsKept, NothingLost, OnItsWay, FormIsGiven
<1> QED BY <1>2, <1>3, <1>4 DEF EditorInv

\* The grant editor's invariant is kept by every step of it.
LEMMA EditorStays == EditorInv /\ EditorNext => EditorInv'
<1> SUFFICES ASSUME EditorInv, EditorNext PROVE EditorInv'
  OBVIOUS
<1>1. CASE \E h \in Haut : EditorOfficer(h)
  <2> PICK h \in Haut : EditorOfficer(h)
    BY <1>1
  <2>0. Forms = {"form", "selvitys"}
    BY DEF Forms
  <2>1. CASE EditsOfRow(h)
    BY <2>1, RowEditsKeep
  <2>2. CASE ProjectSelectors(h)
    BY <2>2, ProjectsKeep
  <2>3. CASE Talousarviotilit(h)
    BY <2>3, AccountsKeep
  <2>4. CASE PersonSelectList(h) \/ RoleRowDelete(h)
    BY <2>4, RolesGivenKeep
  <2>5. CASE RoleRow(h)
    BY <2>5, RoleRowKeeps
  <2>6. CASE FormEditor(h) \/ SelvitysFormEditor(h)
    BY <2>0, <2>6, DraftsKeep DEF FormEditor, SelvitysFormEditor
  <2>7. CASE FormJsonEditor(h) \/ SelvitysJsonEditor(h)
    BY <2>0, <2>7, SaveDraftKeeps DEF FormJsonEditor, SelvitysJsonEditor
  <2>8. CASE SelectHaku(h) \/ CreateHaku(h)
    BY <2>8, OpeningsKeep
  <2> QED BY Zenon, <2>1, <2>2, <2>3, <2>4, <2>5, <2>6, <2>7, <2>8 DEF EditorOfficer, EditsOfRow
<1>2. CASE DebouncedSaveHaku \/ DebouncedSaveRole
  BY <1>2, DelaysKeep
<1>3. CASE \E c \in calls : \/ Store1(c) \/ ReadBack(c)
                            \/ SaveHakuFulfilled(c) \/ RolesFulfilled(c) \/ SaveFormFulfilled(c)
                            \/ TalousarviotilitReplaced(c) \/ ProjectsPosted(c)
                            \/ SelectHakuFulfilled(c) \/ CreateHakuFulfilled(c)
                            \/ SaveRejected(c) \/ FailedSilently(c) \/ SelectHakuRejected(c) \/ CreateHakuRejected(c)
  BY <1>3, ServerStoreKeeps, ReadBackKeeps, HakuAnswerKeeps, RolesAndFormsKeep, AccountsAnswerKeeps, QuietAnswersKeep,
     SelectAnswerKeeps, RejectionsKeep
<1> QED BY Zenon, <1>1, <1>2, <1>3 DEF EditorNext

\* At rest, nothing given is lost.
LEMMA EditorKeeps == EditorInv => EditorTypeOK /\ EditsAreStored
<1> SUFFICES ASSUME EditorInv PROVE EditorTypeOK /\ EditsAreStored
  OBVIOUS
<1>0. EditorTyped /\ EditsKept /\ Drafted \subseteq Parts /\ Forms \subseteq Drafted /\ NoHaku \notin Haut
  BY PartFacts, NoHakuAssumption DEF EditorInv
<1>1. haut \in [Haut -> [Parts -> Nat]] /\ given \in [Haut -> [Parts -> Nat]] /\ editor \in EditorPage
  BY <1>0 DEF EditorTyped, Whole
<1>2. EditorPage = Editor
  BY Zenon DEF EditorPage, Editor, Whole, Nothing
<1>3. EditorTypeOK
  BY Zenon, <1>1, <1>2 DEF EditorTypeOK
<1>4. ASSUME NEW h \in Haut, ~Pending(h), editor.serverError = Nothing, lossCause[h] = {}
      PROVE  /\ \A p \in Parts : haut[h][p] = given[h][p] \/ (p \in Forms /\ Edited(h, p))
             /\ \A p \in Parts \ Drafted : editor.haku[h][p] = haut[h][p]
  <2>1. NothingLost(h) /\ editor.timer # h /\ editor.roleTimer.h # h /\ \A c \in calls : c.h # h
    BY <1>0, <1>4 DEF EditsKept, Pending
  <2>2. \A p \in Parts \ Forms : haut[h][p] = given[h][p]
    BY <1>4, <2>1 DEF NothingLost, OnItsWay
  <2>3. \A p \in Forms : haut[h][p] = given[h][p] \/ Edited(h, p)
    BY <2>1 DEF NothingLost, FormIsGiven, Edited
  <2>4. \A p \in Parts \ Drafted : editor.haku[h][p] = haut[h][p]
    BY <1>0, <2>1, <2>2 DEF NothingLost
  <2> QED BY <2>2, <2>3, <2>4
<1>5. EditsAreStored
  BY Zenon, <1>4 DEF EditsAreStored, Nothing
<1> QED BY <1>3, <1>5

\* A request that ends is the last thing under way for what the page says it is saving.
Finished(c) ==
  \/ \E d \in calls' : d.kind = c.kind
  \/ c.kind = "haku" /\ "saveInProgress" \notin editor'.busy
  \/ c.kind \in RoleCalls /\ ("savingRoles" \notin editor'.busy \/ \E h \in Haut : "role_failed" \in lossCause'[h])
  \/ c.kind \in Forms /\ "savingForm" \notin editor'.busy
  \/ c.kind = "talousarviotilit" /\ "savingTalousarviotilit" \notin editor'.busy
  \/ c.kind \in {"projects", "select", "create"}
Begun(key) ==
  \/ key = "saveInProgress" /\ (editor'.timer # NoHaku \/ \E d \in calls' : d.kind = "haku")
  \/ key = "savingRoles" /\ (editor'.roleTimer.h # NoHaku \/ \E d \in calls' : d.kind \in RoleCalls)
  \/ key = "savingForm" /\ \E d \in calls' : d.kind \in Forms
  \/ key = "savingTalousarviotilit" /\ \E d \in calls' : d.kind = "talousarviotilit"

LEMMA BusyStep ==
  ASSUME EditorBusy, CausesGrow, \A c \in calls : Finished(c),
         editor.timer # NoHaku => editor'.timer # NoHaku \/ \E d \in calls' : d.kind = "haku",
         editor.roleTimer.h # NoHaku => editor'.roleTimer.h # NoHaku \/ \E d \in calls' : d.kind \in RoleCalls,
         \A key \in editor'.busy : key \in editor.busy \/ Begun(key)
  PROVE  EditorBusy'
<1>0. "haku" \notin RoleCalls /\ "haku" \notin Forms /\ "talousarviotilit" \notin RoleCalls \cup Forms /\ RoleCalls \cap Forms = {}
      /\ RoleCalls \cap {"projects", "select", "create"} = {} /\ Forms \cap {"projects", "select", "create"} = {}
  BY DEF RoleCalls, Forms
<1>1. ASSUME "saveInProgress" \in editor'.busy PROVE SavesHaku'
  <2>1. CASE "saveInProgress" \in editor.busy
    <3>1. SavesHaku
      BY <2>1 DEF EditorBusy
    <3> QED BY <1>0, <1>1, <3>1 DEF SavesHaku, Finished
  <2>2. CASE Begun("saveInProgress")
    BY <2>2 DEF Begun, SavesHaku
  <2> QED BY <1>1, <2>1, <2>2
<1>2. ASSUME "savingRoles" \in editor'.busy PROVE SavesRoles'
  <2>1. CASE "savingRoles" \in editor.busy
    <3>1. SavesRoles
      BY <2>1 DEF EditorBusy
    <3> QED BY <1>0, <1>2, <3>1 DEF SavesRoles, Finished, CausesGrow
  <2>2. CASE Begun("savingRoles")
    BY <2>2 DEF Begun, SavesRoles
  <2> QED BY <1>2, <2>1, <2>2
<1>3. ASSUME "savingForm" \in editor'.busy PROVE SavesForm'
  <2>1. CASE "savingForm" \in editor.busy
    <3>1. SavesForm
      BY <2>1 DEF EditorBusy
    <3> QED BY <1>0, <1>3, <3>1 DEF SavesForm, Finished
  <2>2. CASE Begun("savingForm")
    BY <2>2 DEF Begun, SavesForm
  <2> QED BY <1>3, <2>1, <2>2
<1>4. ASSUME "savingTalousarviotilit" \in editor'.busy PROVE SavesAccounts'
  <2>1. CASE "savingTalousarviotilit" \in editor.busy
    <3>1. SavesAccounts
      BY <2>1 DEF EditorBusy
    <3> QED BY <1>0, <1>4, <3>1 DEF SavesAccounts, Finished
  <2>2. CASE Begun("savingTalousarviotilit")
    BY <2>2 DEF Begun, SavesAccounts
  <2> QED BY <1>4, <2>1, <2>2
<1> QED BY <1>1, <1>2, <1>3, <1>4 DEF EditorBusy

\* Steps that ask, or only edit: every request goes on.
LEMMA AsksBusy ==
  ASSUME EditorBusy, CausesGrow, NEW haku, NEW draft, NEW timer, NEW roleTimer, NEW key, NEW error,
         PageIs(editor', haku, draft, timer, roleTimer, editor.busy \cup {key}, error),
         calls \subseteq calls', Begun(key),
         timer = editor.timer \/ timer # NoHaku, roleTimer = editor.roleTimer \/ roleTimer.h # NoHaku
  PROVE  EditorBusy'
<1>1. editor'.timer = timer /\ editor'.roleTimer = roleTimer /\ editor'.busy = editor.busy \cup {key}
  BY DEF PageIs
<1>2. \A c \in calls : Finished(c)
  BY DEF Finished
<1> QED BY <1>1, <1>2, BusyStep

\* Steps that leave what is said and the delays alone.
LEMMA QuietBusy ==
  ASSUME EditorBusy, CausesGrow, editor'.timer = editor.timer, editor'.roleTimer = editor.roleTimer,
         editor'.busy \subseteq editor.busy, \A c \in calls : Finished(c)
  PROVE  EditorBusy'
<1>1. \A key \in editor'.busy : key \in editor.busy
  OBVIOUS
<1> QED BY <1>1, BusyStep

LEMMA UpdateFieldBusy ==
  ASSUME EditorTyped, EditorBusy, NEW h \in Haut, NEW p \in Row, NEW v \in Nat, UpdateField(h, p, v)
  PROVE  EditorBusy'
<1>0. p \in Parts /\ h # NoHaku
  BY PartFacts, NoHakuAssumption
<1>1. /\ editor' = StartAutoSave([editor EXCEPT !.haku[h][p] = v], h)
      /\ lossCause' = Because(TimerTaken(h), "timer_taken") /\ calls' = calls
  BY DEF UpdateField
<1>2. PageIs(editor', Put2(editor.haku, h, p, v), editor.draft, h, editor.roleTimer,
             editor.busy \cup {"saveInProgress"}, editor.serverError)
  BY <1>0, <1>1, AutoSaved
<1>3. CausesGrow
  BY <1>1, TimerTakenFrom
<1>4. Begun("saveInProgress")
  BY <1>0, <1>2 DEF Begun, PageIs
<1> QED BY <1>0, <1>1, <1>2, <1>3, <1>4, AsksBusy

LEMMA RowEditsBusy ==
  ASSUME EditorTyped, EditorBusy, NEW h \in Haut, EditsOfRow(h)
  PROVE  EditorBusy'
<1>2. CASE UpdateField(h, "fields", N)
  BY <1>2, FieldValues, UpdateFieldBusy
<1>3. CASE \E s \in StatusButton(StatusOf(h)) : UpdateField(h, "status", s)
  BY <1>3, FieldValues, UpdateFieldBusy
<1> QED BY <1>2, <1>3, RowEdits

\* A request of this kind is under way after the step.
LEMMA CallAdded ==
  ASSUME NEW kind, NEW h, NEW put, calls' = calls \cup {Call(kind, h, put)}
  PROVE  calls \subseteq calls' /\ \E d \in calls' : d.kind = kind
<1>1. Call(kind, h, put).kind = kind
  <2>1. PICK n : n = FreshCall
    OBVIOUS
  <2>2. PICK none : none = <<>>
    OBVIOUS
  <2>3. Call(kind, h, put) = [id |-> n, kind |-> kind, h |-> h, put |-> put, at |-> "sent", got |-> none]
    BY <2>1, <2>2 DEF Call
  <2> QED BY <2>3
<1> QED BY <1>1

LEMMA PartsBusy ==
  ASSUME EditorTyped, EditorBusy, NEW h \in Haut,
         ProjectSelectors(h) \/ Talousarviotilit(h) \/ PersonSelectList(h) \/ RoleRowDelete(h)
  PROVE  EditorBusy'
<1>0. editor \in EditorPage /\ "projects" \in Parts /\ "talousarviotilit" \in Parts /\ h # NoHaku
      /\ "savingTalousarviotilit" \in Saved /\ "savingRoles" \in Saved /\ {"createRole", "deleteRole"} \subseteq RoleCalls
  BY PartFacts, NoHakuAssumption DEF EditorTyped, Saved, RoleCalls
<1>v. PICK v \in Nat : v = N
  BY Spends
<1>1. CASE ProjectSelectors(h)
  <2>1. /\ editor' = StartAutoSave([editor EXCEPT !.haku[h]["projects"] = v], h)
        /\ calls' = calls \cup {Call("projects", h, Only("projects", v))}
        /\ lossCause' = Because(TimerTaken(h), "timer_taken")
    BY <1>1, <1>v DEF ProjectSelectors
  <2>2. PageIs(editor', Put2(editor.haku, h, "projects", v), editor.draft, h, editor.roleTimer,
               editor.busy \cup {"saveInProgress"}, editor.serverError)
    BY <1>0, <2>1, AutoSaved
  <2>3. CausesGrow
    BY <2>1, TimerTakenFrom
  <2>4. Begun("saveInProgress")
    BY <1>0, <2>2 DEF Begun, PageIs
  <2> QED BY <1>0, <2>1, <2>2, <2>3, <2>4, CallAdded, AsksBusy
<1>2. CASE Talousarviotilit(h)
  <2>1. PICK ed : ed = [editor EXCEPT !.haku[h]["talousarviotilit"] = v]
    OBVIOUS
  <2>2. /\ editor' = StartSaving(ed, "savingTalousarviotilit")
        /\ calls' = calls \cup {Call("talousarviotilit", h, Only("talousarviotilit", v))} /\ lossCause' = lossCause
    BY <1>2, <1>v, <2>1 DEF Talousarviotilit
  <2>3. PageIs(ed, Put2(editor.haku, h, "talousarviotilit", v), editor.draft, editor.timer, editor.roleTimer, editor.busy, editor.serverError)
    BY <1>0, <2>1, PartSet
  <2>4. PageIs(editor', ed.haku, ed.draft, ed.timer, ed.roleTimer, ed.busy \cup {"savingTalousarviotilit"}, ed.serverError)
    BY <1>0, <2>2, <2>3, SavingStarts DEF PageIs
  <2>5. PageIs(editor', ed.haku, ed.draft, editor.timer, editor.roleTimer, editor.busy \cup {"savingTalousarviotilit"}, ed.serverError)
    BY <2>3, <2>4 DEF PageIs
  <2>6. calls \subseteq calls' /\ \E d \in calls' : d.kind = "talousarviotilit"
    BY <2>2, CallAdded
  <2>7. Begun("savingTalousarviotilit") /\ CausesGrow
    BY <2>2, <2>6, SameCauses DEF Begun
  <2> QED BY <2>5, <2>6, <2>7, AsksBusy
<1>3. CASE PersonSelectList(h) \/ RoleRowDelete(h)
  <2>1. PICK kind \in RoleCalls : \E put : calls' = calls \cup {Call(kind, h, put)}
    BY <1>0, <1>3 DEF PersonSelectList, RoleRowDelete
  <2>2. editor' = StartSaving(editor, "savingRoles") /\ lossCause' = lossCause
    BY <1>3 DEF PersonSelectList, RoleRowDelete
  <2>3. PageIs(editor', editor.haku, editor.draft, editor.timer, editor.roleTimer, editor.busy \cup {"savingRoles"}, editor.serverError)
    BY <1>0, <2>2, SavingStarts
  <2>4. calls \subseteq calls' /\ \E d \in calls' : d.kind = kind
    BY <2>1, CallAdded
  <2>5. Begun("savingRoles") /\ CausesGrow
    BY <2>1, <2>2, <2>4, SameCauses DEF Begun
  <2> QED BY <2>3, <2>4, <2>5, AsksBusy
<1> QED BY <1>1, <1>2, <1>3

LEMMA RoleRowBusy ==
  ASSUME EditorTyped, EditorBusy, NEW h \in Haut, RoleRow(h)
  PROVE  EditorBusy'
<1>0. editor \in EditorPage /\ Roles \subseteq Drafted /\ "savingRoles" \in Saved /\ h # NoHaku
  BY PartFacts, NoHakuAssumption DEF EditorTyped, Saved
<1>1. PICK v \in Nat : v = N
  BY Spends
<1>2. PICK p \in Roles : editor' = RowDrafted(h, p, v) /\ CausesOfRow(h, p) /\ calls' = calls
  BY Zenon, <1>1 DEF RoleRow, RowDrafted, CausesOfRow
<1>3. PICK e : e = [editor EXCEPT !.draft[h][p] = v]
  OBVIOUS
<1>4. PageIs(e, editor.haku, Put2(editor.draft, h, p, v), editor.timer, editor.roleTimer, editor.busy, editor.serverError)
  BY <1>0, <1>2, <1>3, DraftSet
<1>5. PICK t : t = [h |-> h, role |-> p, value |-> v]
  OBVIOUS
<1>6. t \in [h : Haut \cup {NoHaku}, role : Roles, value : Nat] /\ t.h = h
  BY <1>2, <1>5
<1>7. PICK ed : ed = [e EXCEPT !.roleTimer = t]
  OBVIOUS
<1>8. [editor EXCEPT !.draft[h][p] = v, !.roleTimer = t] = [e EXCEPT !.roleTimer = t]
  BY <1>0, <1>3 DEF EditorPage
<1>9. PageIs(ed, e.haku, e.draft, e.timer, t, e.busy, e.serverError)
  BY <1>4, <1>6, <1>7 DEF EditorPage, PageIs
<1>10. editor' = StartSaving(ed, "savingRoles") /\ ed \in EditorPage
  BY <1>2, <1>5, <1>7, <1>8, <1>9 DEF PageIs, RowDrafted
<1>11. PageIs(editor', ed.haku, ed.draft, ed.timer, ed.roleTimer, ed.busy \cup {"savingRoles"}, ed.serverError)
  BY <1>0, <1>10, SavingStarts
<1>12. PageIs(editor', ed.haku, ed.draft, editor.timer, t, editor.busy \cup {"savingRoles"}, ed.serverError)
  BY <1>4, <1>9, <1>11 DEF PageIs
<1>13. CausesGrow
  <2>1. lossCause' = lossCause \/ lossCause' = Because({editor.roleTimer.h}, "timer_taken")
    BY <1>2 DEF CausesOfRow
  <2> QED BY <2>1, SameCauses, BecauseIs DEF EditorTyped
<1>14. Begun("savingRoles")
  BY <1>0, <1>6, <1>12 DEF Begun, PageIs
<1> QED BY <1>0, <1>2, <1>6, <1>12, <1>13, <1>14, AsksBusy

LEMMA DelaysBusy ==
  ASSUME EditorTyped, EditorBusy, DebouncedSaveHaku \/ DebouncedSaveRole
  PROVE  EditorBusy'
<1>0. editor \in EditorPage /\ {"saveRole", "saveVastuuvalmistelija"} \subseteq RoleCalls
  BY DEF EditorTyped, RoleCalls
<1>1. CASE DebouncedSaveHaku
  <2>1. \E h, put : calls' = calls \cup {Call("haku", h, put)}
    BY <1>1 DEF DebouncedSaveHaku
  <2>2. calls \subseteq calls' /\ \E d \in calls' : d.kind = "haku"
    BY <2>1, CallAdded
  <2>3. editor' = [editor EXCEPT !.timer = NoHaku] /\ lossCause' = lossCause
    BY <1>1 DEF DebouncedSaveHaku
  <2>4. editor'.busy = editor.busy /\ editor'.roleTimer = editor.roleTimer
    BY <1>0, <2>3 DEF EditorPage
  <2>5. CausesGrow /\ \A c \in calls : Finished(c)
    BY <2>2, <2>3, SameCauses DEF Finished
  <2> QED BY <2>2, <2>4, <2>5, BusyStep
<1>2. CASE DebouncedSaveRole
  <2>1. PICK kind \in RoleCalls : \E h, put : calls' = calls \cup {Call(kind, h, put)}
    BY <1>0, <1>2 DEF DebouncedSaveRole
  <2>2. calls \subseteq calls' /\ \E d \in calls' : d.kind = kind
    BY <2>1, CallAdded
  <2>3. editor' = [editor EXCEPT !.roleTimer = NoRoleTimer] /\ lossCause' = lossCause
    BY <1>2 DEF DebouncedSaveRole
  <2>4. editor'.busy = editor.busy /\ editor'.timer = editor.timer
    BY <1>0, <2>3 DEF EditorPage
  <2>5. CausesGrow /\ \A c \in calls : Finished(c)
    BY <2>2, <2>3, SameCauses DEF Finished
  <2> QED BY <2>1, <2>2, <2>4, <2>5, BusyStep
<1> QED BY <1>1, <1>2

LEMMA DraftsBusy ==
  ASSUME EditorTyped, EditorBusy, NEW h \in Haut, NEW form \in Forms, EditDraft(h, form) \/ SaveDraft(h, form)
  PROVE  EditorBusy'
<1>0. editor \in EditorPage /\ "savingForm" \in Saved /\ Forms \subseteq Drafted
  BY PartFacts DEF EditorTyped, Saved
<1>1. CASE EditDraft(h, form)
  <2>1. PICK v \in Nat : v = N
    BY Spends
  <2>2. editor' = [editor EXCEPT !.draft[h][form] = v] /\ calls' = calls /\ lossCause' = lossCause
    BY <1>1, <2>1 DEF EditDraft
  <2>3. PageIs(editor', editor.haku, Put2(editor.draft, h, form, v), editor.timer, editor.roleTimer, editor.busy, editor.serverError)
    BY <1>0, <2>2, DraftSet
  <2>4. CausesGrow /\ \A c \in calls : Finished(c)
    BY <2>2, SameCauses DEF Finished
  <2> QED BY <2>3, <2>4, QuietBusy DEF PageIs
<1>2. CASE SaveDraft(h, form)
  <2>1. editor' = StartSaving(editor, "savingForm") /\ lossCause' = lossCause
    BY <1>2 DEF SaveDraft
  <2>2. \E put : calls' = calls \cup {Call(form, h, put)}
    BY <1>2 DEF SaveDraft
  <2>3. PageIs(editor', editor.haku, editor.draft, editor.timer, editor.roleTimer, editor.busy \cup {"savingForm"}, editor.serverError)
    BY <1>0, <2>1, SavingStarts
  <2>4. calls \subseteq calls' /\ \E d \in calls' : d.kind = form
    BY <2>2, CallAdded
  <2>5. Begun("savingForm") /\ CausesGrow
    BY <2>1, <2>4, SameCauses DEF Begun
  <2> QED BY <2>3, <2>4, <2>5, AsksBusy
<1> QED BY <1>1, <1>2

LEMMA OpeningsBusy ==
  ASSUME EditorTyped, EditorBusy, NEW h \in Haut, SelectHaku(h) \/ CreateHaku(h)
  PROVE  EditorBusy'
<1>0. editor \in EditorPage
  BY DEF EditorTyped
<1>1. \E kind, put : calls' = calls \cup {Call(kind, h, put)}
  BY DEF SelectHaku, CreateHaku
<1>2. calls \subseteq calls' /\ lossCause' = lossCause
  BY <1>1, CallAdded DEF SelectHaku, CreateHaku
<1>3. editor'.timer = editor.timer /\ editor'.roleTimer = editor.roleTimer /\ editor'.busy = editor.busy
  <2>1. CASE SelectHaku(h)
    <3>1. PICK row : row = [editor.draft[h] EXCEPT !["roleA"] = editor.haku[h]["roleA"], !["roleB"] = editor.haku[h]["roleB"]]
      OBVIOUS
    <3>2. PICK draft : draft = [editor.draft EXCEPT ![h] = row]
      OBVIOUS
    <3>3. editor' = [editor EXCEPT !.open = h, !.loading = TRUE, !.draft[h] = row]
      BY <1>0, <2>1, <3>1 DEF SelectHaku, EditorPage
    <3>4. editor' = [editor EXCEPT !.open = h, !.loading = TRUE, !.draft = draft]
      BY <1>0, <3>2, <3>3 DEF EditorPage
    <3> QED BY <1>0, <3>4 DEF EditorPage
  <2>2. CASE CreateHaku(h)
    BY <2>2 DEF CreateHaku
  <2> QED BY <2>1, <2>2
<1>4. CausesGrow /\ \A c \in calls : Finished(c)
  BY <1>2, SameCauses DEF Finished
<1> QED BY <1>3, <1>4, QuietBusy

LEMMA ServerBusy ==
  ASSUME EditorTyped, EditorBusy, NEW c \in calls, Store1(c) \/ ReadBack(c)
  PROVE  EditorBusy'
<1>0. CallTyped(c) /\ editor' = editor
  BY Zenon DEF EditorTyped, Store1, ReadBack
<1>1. PICK d : calls' = (calls \ {c}) \cup {d} /\ d.kind = c.kind
  <2>1. CASE Store1(c)
    <3>1. PICK at : at = IF Brings(c.kind) = {} THEN "answered" ELSE "stored"
      OBVIOUS
    <3>2. PICK d : d = [c EXCEPT !.at = at]
      OBVIOUS
    <3>3. calls' = (calls \ {c}) \cup {d}
      BY <2>1, <3>1, <3>2 DEF Store1
    <3>4. d.kind = c.kind
      BY <1>0, <3>2 DEF CallTyped
    <3> QED BY <3>3, <3>4
  <2>2. CASE ReadBack(c)
    <3>1. calls' = (calls \ {c}) \cup {WithGot(c, ReadNow(c))}
      BY Zenon, <2>2 DEF ReadBack, WithGot, ReadNow
    <3>2. WithGot(c, ReadNow(c)).kind = c.kind
      BY <1>0 DEF CallTyped, WithGot
    <3> QED BY <3>1, <3>2
  <2> QED BY <2>1, <2>2
<1>2. \A e \in calls : Finished(e)
  BY <1>1 DEF Finished
<1>3. CausesGrow
  <2>1. lossCause' = lossCause \/ lossCause' = Because({c.h}, "overtaken")
    BY Zenon DEF Store1, ReadBack
  <2> QED BY <2>1, SameCauses, BecauseIs DEF EditorTyped
<1> QED BY <1>0, <1>2, <1>3, QuietBusy

\* An answer or a failure: of the request that ends alone something must be said.
LEMMA EndBusy ==
  ASSUME EditorTyped, EditorBusy, NEW c \in calls, calls' = calls \ {c}, CausesGrow, Finished(c),
         NEW haku, NEW draft, NEW key, NEW error,
         PageIs(editor', haku, draft, editor.timer, editor.roleTimer, editor.busy \ {key}, error)
  PROVE  EditorBusy'
<1>1. \A d \in calls : Finished(d)
  BY DEF Finished
<1> QED BY <1>1, QuietBusy DEF PageIs

LEMMA AnswersBusy ==
  ASSUME EditorTyped, EditorBusy, NEW c \in calls,
         SaveHakuFulfilled(c) \/ RolesFulfilled(c) \/ SaveFormFulfilled(c) \/ TalousarviotilitReplaced(c)
  PROVE  EditorBusy'
<1>0. editor \in EditorPage /\ CallTyped(c) /\ c.h \in Haut /\ Holds(DOMAIN c.got, c.got)
      /\ {"saveInProgress", "savingRoles", "savingForm", "savingTalousarviotilit"} \subseteq Saved
  BY AnsweredIs DEF EditorTyped, Saved
<1>1. CASE SaveHakuFulfilled(c)
  <2>1. /\ Answered(c, {"haku"}) /\ lossCause' = NotedCauses(c)
    BY Zenon, <1>1 DEF SaveHakuFulfilled, NotedCauses
  <2>2. calls' = calls \ {c} /\ c.kind = "haku" /\ CausesGrow
    BY <1>0, <2>1, AnsweredIs, AnswerNoted
  <2>3. PICK done : done = SaveSuccess(Known(editor, c.h, c.got), "saveInProgress")
    OBVIOUS
  <2>4. editor' = done \/ editor' = [done EXCEPT !.serverError = "validation-error"]
    BY <1>1, <2>3 DEF SaveHakuFulfilled
  <2>5. PICK haku : PageIs(Known(editor, c.h, c.got), haku, editor.draft, editor.timer, editor.roleTimer, editor.busy, editor.serverError)
    BY <1>0, KnownIs
  <2>6. PICK ed \in EditorPage : ed = Known(editor, c.h, c.got)
    BY <2>5 DEF PageIs
  <2>7. PageIs(done, ed.haku, ed.draft, ed.timer, ed.roleTimer, ed.busy \ {"saveInProgress"}, Nothing)
    BY <1>0, <2>3, <2>6, SaveSucceeds
  <2>8. done \in EditorPage /\ done.timer = editor.timer /\ done.roleTimer = editor.roleTimer /\ done.busy = editor.busy \ {"saveInProgress"}
    BY <2>5, <2>6, <2>7 DEF PageIs
  <2>9. editor'.timer = editor.timer /\ editor'.roleTimer = editor.roleTimer /\ editor'.busy = editor.busy \ {"saveInProgress"}
    BY <2>4, <2>8 DEF EditorPage
  <2>10. \A d \in calls : Finished(d)
    BY <2>2, <2>9 DEF Finished
  <2> QED BY <2>2, <2>9, <2>10, QuietBusy
<1>2. CASE RolesFulfilled(c) \/ SaveFormFulfilled(c)
  <2>1. PICK key \in {"savingRoles", "savingForm"} :
          /\ editor' = SaveSuccess(Shown1(editor, c.h, c.got), key) /\ Answered(c, IF key = "savingRoles" THEN RoleCalls ELSE Forms)
    BY <1>2 DEF RolesFulfilled, SaveFormFulfilled
  <2>2. lossCause' = NotedCauses(c)
    BY Zenon, <1>2 DEF RolesFulfilled, SaveFormFulfilled, NotedCauses
  <2>3. calls' = calls \ {c} /\ c.kind \in (IF key = "savingRoles" THEN RoleCalls ELSE Forms) /\ CausesGrow
    BY <1>0, <2>1, <2>2, AnsweredIs, AnswerNoted
  <2>4. PICK haku, draft : PageIs(Shown1(editor, c.h, c.got), haku, draft, editor.timer, editor.roleTimer, editor.busy, editor.serverError)
    BY <1>0, ShownIs
  <2>5. PICK ed \in EditorPage : ed = Shown1(editor, c.h, c.got)
    BY <2>4 DEF PageIs
  <2>6. PageIs(editor', ed.haku, ed.draft, ed.timer, ed.roleTimer, ed.busy \ {key}, Nothing)
    BY <1>0, <2>1, <2>5, SaveSucceeds
  <2>7. PageIs(editor', haku, draft, editor.timer, editor.roleTimer, editor.busy \ {key}, Nothing)
    BY <2>4, <2>5, <2>6 DEF PageIs
  <2>8. key \notin editor'.busy
    BY <2>7 DEF PageIs
  <2>9. Finished(c)
    BY <2>1, <2>3, <2>8 DEF Finished
  <2> QED BY <2>3, <2>7, <2>9, EndBusy
<1>3. CASE TalousarviotilitReplaced(c)
  <2>1. /\ Answered(c, {"talousarviotilit"}) /\ editor' = SaveSuccess(editor, "savingTalousarviotilit")
        /\ lossCause' = Because(ErrorReplaced, "error_replaced")
    BY <1>3 DEF TalousarviotilitReplaced
  <2>2. calls' = calls \ {c} /\ c.kind = "talousarviotilit" /\ CausesGrow
    BY <1>0, <2>1, AnsweredIs, BecauseIs DEF EditorTyped
  <2>3. PageIs(editor', editor.haku, editor.draft, editor.timer, editor.roleTimer, editor.busy \ {"savingTalousarviotilit"}, Nothing)
    BY <1>0, <2>1, SaveSucceeds
  <2>4. Finished(c)
    BY <2>2, <2>3 DEF Finished, PageIs
  <2> QED BY <2>2, <2>3, <2>4, EndBusy
<1> QED BY <1>1, <1>2, <1>3

LEMMA OthersBusy ==
  ASSUME EditorTyped, EditorBusy, NEW c \in calls,
         ProjectsPosted(c) \/ SelectHakuFulfilled(c) \/ CreateHakuFulfilled(c) \/ SelectHakuRejected(c)
  PROVE  EditorBusy'
<1>0. editor \in EditorPage /\ CallTyped(c) /\ c.h \in Haut /\ Holds(DOMAIN c.got, c.got)
  BY AnsweredIs DEF EditorTyped
<1>1. calls' = calls \ {c} /\ c.kind \in {"projects", "select", "create"}
  BY AnsweredIs DEF ProjectsPosted, SelectHakuFulfilled, CreateHakuFulfilled, SelectHakuRejected
<1>2. CausesGrow
  <2>1. lossCause' = lossCause \/ lossCause' = Because(AnsweredOver(c), "answered_over")
    BY DEF ProjectsPosted, SelectHakuFulfilled, CreateHakuFulfilled, SelectHakuRejected
  <2> QED BY <2>1, SameCauses, BecauseIs DEF EditorTyped
<1>3. editor'.timer = editor.timer /\ editor'.roleTimer = editor.roleTimer /\ editor'.busy = editor.busy
  <2>1. CASE ProjectsPosted(c)
    BY <2>1 DEF ProjectsPosted
  <2>2. CASE CreateHakuFulfilled(c)
    BY <1>0, <2>2 DEF CreateHakuFulfilled, EditorPage
  <2>3. CASE SelectHakuRejected(c)
    BY <1>0, <2>3 DEF SelectHakuRejected, EditorPage
  <2>4. CASE SelectHakuFulfilled(c)
    <3>1. PICK haku, draft : PageIs(Shown1(editor, c.h, c.got), haku, draft, editor.timer, editor.roleTimer, editor.busy, editor.serverError)
      BY <1>0, ShownIs
    <3>2. PICK ed \in EditorPage : ed = Shown1(editor, c.h, c.got)
      BY <3>1 DEF PageIs
    <3>3. editor' = [ed EXCEPT !.loading = FALSE, !.loadError = FALSE]
      BY <2>4, <3>2 DEF SelectHakuFulfilled
    <3> QED BY <3>1, <3>2, <3>3 DEF PageIs, EditorPage
  <2> QED BY <2>1, <2>2, <2>3, <2>4
<1>4. \A d \in calls : Finished(d)
  BY <1>1 DEF Finished
<1> QED BY <1>2, <1>3, <1>4, QuietBusy

LEMMA RejectedBusy ==
  ASSUME EditorTyped, EditorBusy, NEW c \in calls, SaveRejected(c) \/ FailedSilently(c) \/ CreateHakuRejected(c)
  PROVE  EditorBusy'
<1>0. editor \in EditorPage /\ CallTyped(c) /\ c.h \in Haut
  BY AnsweredIs DEF EditorTyped
<1>1. CASE SaveRejected(c)
  <2>1. Failed(c, {"haku", "talousarviotilit"} \cup Forms) /\ lossCause' = lossCause
    BY <1>1 DEF SaveRejected
  <2>2. calls' = calls \ {c} /\ c.kind \in {"haku", "talousarviotilit"} \cup Forms
    BY <2>1, AnsweredIs
  <2>3. PICK key : key = CASE c.kind = "haku" -> "saveInProgress" [] c.kind \in Forms -> "savingForm" [] OTHER -> "savingTalousarviotilit"
    OBVIOUS
  <2>4. key \in Saved /\ editor' = SaveFailed(editor, key)
    BY <1>1, <2>3 DEF SaveRejected, Saved
  <2>5. PageIs(editor', editor.haku, editor.draft, editor.timer, editor.roleTimer, editor.busy \ {key}, "unexpected-error")
    BY <1>0, <2>4, SaveFails
  <2>6. key \notin editor'.busy
    BY <2>5 DEF PageIs
  <2>7. Finished(c)
    BY <2>2, <2>3, <2>6 DEF Finished, Forms
  <2> QED BY <2>1, <2>2, <2>5, <2>7, SameCauses, EndBusy
<1>2. CASE FailedSilently(c)
  <2>1. Failed(c, RoleCalls \cup {"projects"}) /\ editor' = editor
    BY <1>2 DEF FailedSilently
  <2>2. calls' = calls \ {c} /\ c.kind \in RoleCalls \cup {"projects"}
    BY <2>1, AnsweredIs
  <2>3. PICK reason : reason = IF c.kind = "projects" THEN "projects_failed" ELSE "role_failed"
    OBVIOUS
  <2>4. lossCause' = Because({c.h}, reason)
    BY <1>2, <2>3 DEF FailedSilently
  <2>5. CausesGrow /\ \A h \in Haut : h \in {c.h} => reason \in lossCause'[h]
    BY <2>4, BecauseIs DEF EditorTyped
  <2>6. Finished(c)
    BY <1>0, <2>2, <2>3, <2>5 DEF Finished
  <2>7. PageIs(editor', editor.haku, editor.draft, editor.timer, editor.roleTimer, editor.busy \ {Nothing}, editor.serverError)
    <3>1. Nothing \notin Saved
      BY Zenon DEF Nothing, Saved
    <3>2. editor.busy \ {Nothing} = editor.busy
      BY <1>0, <3>1 DEF EditorPage, Saved
    <3> QED BY <1>0, <2>1, <3>2 DEF PageIs
  <2> QED BY <2>2, <2>5, <2>6, <2>7, EndBusy
<1>3. CASE CreateHakuRejected(c)
  <2>1. Failed(c, {"create"}) /\ lossCause' = lossCause
        /\ editor' = [SaveFailed(editor, "saveInProgress") EXCEPT !.open = NoHaku, !.crashed = TRUE]
    BY <1>3 DEF CreateHakuRejected
  <2>2. calls' = calls \ {c} /\ c.kind = "create"
    BY <2>1, AnsweredIs
  <2>3. PICK ed : ed = SaveFailed(editor, "saveInProgress")
    OBVIOUS
  <2>4. PageIs(ed, editor.haku, editor.draft, editor.timer, editor.roleTimer, editor.busy \ {"saveInProgress"}, "unexpected-error")
    BY <1>0, <2>3, SaveFails DEF Saved
  <2>5. PageIs(editor', editor.haku, editor.draft, editor.timer, editor.roleTimer, editor.busy \ {"saveInProgress"}, "unexpected-error")
    BY <2>1, <2>3, <2>4 DEF EditorPage, PageIs
  <2>6. Finished(c)
    BY <2>2 DEF Finished
  <2> QED BY <2>1, <2>2, <2>5, <2>6, SameCauses, EndBusy
<1> QED BY <1>1, <1>2, <1>3

LEMMA BusyStart == EditorInit => EditorBusy
<1> SUFFICES ASSUME EditorInit PROVE EditorBusy
  OBVIOUS
<1>0. PICK kept : kept = Drafts(NewHaku)
  OBVIOUS
<1>10. PICK timer : timer = NoRoleTimer
  OBVIOUS
<1>1. PICK drafts : drafts = [g \in Haut |-> kept]
  OBVIOUS
<1>2. PICK h \in Haut :
        editor = [open |-> h, crashed |-> FALSE, loading |-> FALSE, loadError |-> FALSE,
                  haku |-> haut, draft |-> drafts, timer |-> NoHaku, roleTimer |-> timer, busy |-> {}, serverError |-> Nothing]
  BY Zenon, <1>0, <1>1, <1>10 DEF EditorInit, Nothing
<1>3. editor.busy = {}
  BY <1>2
<1> QED BY <1>3 DEF EditorBusy

LEMMA BusyUnmoved == EditorBusy /\ UNCHANGED editorVars => EditorBusy'
BY DEF editorVars, EditorBusy, SavesHaku, SavesRoles, SavesForm, SavesAccounts

LEMMA BusyGoesOn == EditorTyped /\ EditorBusy /\ EditorNext => EditorBusy'
<1> SUFFICES ASSUME EditorTyped, EditorBusy, EditorNext PROVE EditorBusy'
  OBVIOUS
<1>1. CASE \E h \in Haut : EditorOfficer(h)
  <2> PICK h \in Haut : EditorOfficer(h)
    BY <1>1
  <2>0. Forms = {"form", "selvitys"}
    BY DEF Forms
  <2>1. CASE EditsOfRow(h)
    BY <2>1, RowEditsBusy
  <2>2. CASE ProjectSelectors(h) \/ Talousarviotilit(h) \/ PersonSelectList(h) \/ RoleRowDelete(h)
    BY <2>2, PartsBusy
  <2>3. CASE RoleRow(h)
    BY <2>3, RoleRowBusy
  <2>4. CASE FormEditor(h) \/ SelvitysFormEditor(h) \/ FormJsonEditor(h) \/ SelvitysJsonEditor(h)
    BY <2>0, <2>4, DraftsBusy DEF FormEditor, SelvitysFormEditor, FormJsonEditor, SelvitysJsonEditor
  <2>5. CASE SelectHaku(h) \/ CreateHaku(h)
    BY <2>5, OpeningsBusy
  <2> QED BY Zenon, <2>1, <2>2, <2>3, <2>4, <2>5 DEF EditorOfficer, EditsOfRow
<1>2. CASE DebouncedSaveHaku \/ DebouncedSaveRole
  BY <1>2, DelaysBusy
<1>3. CASE \E c \in calls : \/ Store1(c) \/ ReadBack(c)
                            \/ SaveHakuFulfilled(c) \/ RolesFulfilled(c) \/ SaveFormFulfilled(c)
                            \/ TalousarviotilitReplaced(c) \/ ProjectsPosted(c)
                            \/ SelectHakuFulfilled(c) \/ CreateHakuFulfilled(c)
                            \/ SaveRejected(c) \/ FailedSilently(c) \/ SelectHakuRejected(c) \/ CreateHakuRejected(c)
  BY <1>3, ServerBusy, AnswersBusy, OthersBusy, RejectedBusy
<1> QED BY Zenon, <1>1, <1>2, <1>3 DEF EditorNext

LEMMA BusyHasReason == EditorTyped /\ EditorBusy => BusyHasAReason
BY DEF EditorTyped, EditorPage, BusyHasAReason, EditorBusy, SavesHaku, SavesRoles, SavesForm, SavesAccounts

(* The tools of the grant editor: types                                      *)

ToolRow == [id : Nat, key : Nat, draft : Nat, value : Nat]
Delay == [h : Haut, row : ToolRow]
Mail == [of : Haut \cup {NoHaku}, sent : BOOLEAN, preview : BOOLEAN, sending : BOOLEAN,
         resend : {Nothing, "resending", "completed"}, regenerate : {Nothing, "regenerating", "completed"}]
Pay == [unsent : BOOLEAN, docs : SUBSET Phases, sending : {Nothing, "send", "paid"}]
Report == [sending : BOOLEAN, count : Haut \cup {NoHaku}, log : Haut \cup {NoHaku}]
Tab == [laki : SUBSET Lait, manual : BOOLEAN, rows : Seq(ToolRow), keys : Nat, delays : SUBSET Delay,
        mail : Mail, pay : Pay, report : Report]
Kept == [laki : [Haut -> SUBSET Lait], rows : [Haut -> Seq(ToolRow)], ids : Nat,
         mailed : [Haut -> Nat], marked : [Haut -> BOOLEAN], unsent : [Haut -> BOOLEAN],
         batch : [Haut -> {"none", "open", "sent"}], docs : [Haut -> SUBSET Phases]]

PayCalls == {"batch", "document", "payments"}
\* What the requests of a tab are about.
CallsOf(t) ==
  CASE t = "laki" -> LakiCalls
    [] t = "velvoitteet" -> RowCalls \cup {"getRows"}
    [] t = "paatokset" -> MailCalls \cup {"regenerate", "getSent"}
    [] t = "maksatukset" -> PayCalls \cup {"getPayments", "admin", "adminRefresh"}
    [] OTHER -> {"notify", "getLog"}
\* What a request carries, and what it is answered with.
Carries(kind) ==
  CASE kind = "postLaki" -> SUBSET Lait
    [] kind \in RowCalls -> ToolRow
    [] kind \in PayCalls -> [mode : {"send", "paid"}, docs : SUBSET Phases]
    [] kind = "admin" -> BOOLEAN
    [] OTHER -> {{}}
Brought(kind) ==
  CASE kind = "getLaki" -> SUBSET Lait
    [] kind = "getRows" -> Seq(ToolRow)
    [] kind \in {"getSent", "sendall", "getPayments", "adminRefresh"} -> BOOLEAN
    [] OTHER -> {{}}
\* What happens that the page does not tell.
Reasons == {"hurried", "sent_twice", "failed", "unmailed", "unmarked"}
AskOK(c) ==
  /\ c \in [id : {c.id}, kind : CallsOf(tab), h : Haut, at : {"sent", "listed", "posted", "mailed", "answered"},
            arg : {c.arg}, got : {c.got}]
  /\ c.at \in {"listed", "posted", "mailed"} => c.kind = "sendall"
  /\ c.arg \in Carries(c.kind)
  /\ IF c.at = "answered" THEN c.got \in Brought(c.kind) ELSE c.got = {}

ToolsTyped ==
  /\ tab \in ToolTabs /\ openHaku \in Haut
  /\ shown \in Tab /\ stored \in Kept
  /\ \A c \in asked : AskOK(c)
  /\ toolsUsed \in [acts : Nat, failures : Nat]
  /\ clicked \in [Haut -> SUBSET Lait]
  /\ tab # "velvoitteet" => shown.delays = {}
  /\ why \subseteq Reasons

LEMMA AskStays ==
  ASSUME tab' = tab
  PROVE  \A c : AskOK(c)' <=> AskOK(c)
BY DEF AskOK

\* The tab a request is of, what it carries and what it brings, by its kind.
LEMMA AskFacts ==
  ASSUME NEW c, AskOK(c), tab \in ToolTabs
  PROVE  /\ c.kind \in LakiCalls => tab = "laki"
         /\ c.kind \in RowCalls \cup {"getRows"} => tab = "velvoitteet"
         /\ c.kind \in MailCalls \cup {"regenerate", "getSent"} => tab = "paatokset"
         /\ c.kind \in PayCalls \cup {"getPayments", "admin", "adminRefresh"} => tab = "maksatukset"
         /\ c.kind \in {"notify", "getLog"} => tab = "selvitys"
         /\ c.kind = "postLaki" => c.arg \in SUBSET Lait
         /\ c.kind \in RowCalls => c.arg \in ToolRow
         /\ c.kind \in PayCalls => c.arg \in [mode : {"send", "paid"}, docs : SUBSET Phases]
         /\ c.kind = "admin" => c.arg \in BOOLEAN
         /\ c.at = "answered" =>
              /\ c.kind = "getLaki" => c.got \in SUBSET Lait
              /\ c.kind = "getRows" => c.got \in Seq(ToolRow)
              /\ c.kind \in {"getSent", "sendall", "getPayments", "adminRefresh"} => c.got \in BOOLEAN
<1>1. tab = "laki" \/ tab = "velvoitteet" \/ tab = "paatokset" \/ tab = "maksatukset" \/ tab = "selvitys"
  BY DEF ToolTabs
<1>2. c.kind \in CallsOf(tab)
  BY DEF AskOK
<1>3. /\ c.kind \in LakiCalls => tab = "laki"
      /\ c.kind \in RowCalls \cup {"getRows"} => tab = "velvoitteet"
      /\ c.kind \in MailCalls \cup {"regenerate", "getSent"} => tab = "paatokset"
      /\ c.kind \in PayCalls \cup {"getPayments", "admin", "adminRefresh"} => tab = "maksatukset"
      /\ c.kind \in {"notify", "getLog"} => tab = "selvitys"
  BY <1>1, <1>2 DEF CallsOf, LakiCalls, RowCalls, MailCalls, PayCalls
<1>4. /\ c.kind = "postLaki" => c.arg \in SUBSET Lait
      /\ c.kind \in RowCalls => c.arg \in ToolRow
      /\ c.kind \in PayCalls => c.arg \in [mode : {"send", "paid"}, docs : SUBSET Phases]
      /\ c.kind = "admin" => c.arg \in BOOLEAN
  BY DEF AskOK, Carries, RowCalls, PayCalls
<1>5. c.at = "answered" =>
        /\ c.kind = "getLaki" => c.got \in SUBSET Lait
        /\ c.kind = "getRows" => c.got \in Seq(ToolRow)
        /\ c.kind \in {"getSent", "sendall", "getPayments", "adminRefresh"} => c.got \in BOOLEAN
  BY DEF AskOK, Brought
<1> QED BY <1>3, <1>4, <1>5

\* A new request, and the one that follows another, is at the server.
NewAsk(d, kind, h, arg) ==
  /\ AskOK(d) /\ d.kind = kind /\ d.h = h /\ d.at = "sent" /\ d.arg = arg /\ d.got = {}
LEMMA AsksNew ==
  ASSUME NEW kind, NEW h \in Haut, NEW arg, kind \in CallsOf(tab), arg \in Carries(kind)
  PROVE  NewAsk(Ask(kind, h, arg), kind, h, arg)
<1> DEFINE d == [id |-> FreshAsk, kind |-> kind, h |-> h, at |-> "sent", arg |-> arg, got |-> {}]
<1>1. Ask(kind, h, arg) = d
  BY DEF Ask
<1>2. PICK n : n = FreshAsk
  OBVIOUS
<1>3. /\ d = [id |-> n, kind |-> kind, h |-> h, at |-> "sent", arg |-> arg, got |-> {}]
      /\ d.kind = kind /\ d.h = h /\ d.at = "sent" /\ d.arg = arg /\ d.got = {} /\ d.id = n
  BY <1>2
<1>4. d \in [id : {d.id}, kind : CallsOf(tab), h : Haut, at : {"sent", "listed", "posted", "mailed", "answered"},
             arg : {d.arg}, got : {d.got}]
  OBVIOUS
<1>5. AskOK(d)
  BY <1>3, <1>4 DEF AskOK
<1> QED BY <1>1, <1>3, <1>5 DEF NewAsk

LEMMA ThenNew ==
  ASSUME NEW c, NEW kind, NEW h \in Haut, NEW arg, kind \in CallsOf(tab), arg \in Carries(kind)
  PROVE  \E d : Then(c, kind, h, arg) = (asked \ {c}) \cup {d} /\ NewAsk(d, kind, h, arg)
<1> DEFINE d == [id |-> c.id, kind |-> kind, h |-> h, at |-> "sent", arg |-> arg, got |-> {}]
<1>1. [Ask(kind, h, arg) EXCEPT !.id = c.id] = d
  BY DEF Ask
<1>2. PICK n : n = c.id
  OBVIOUS
<1>3. /\ d.kind = kind /\ d.h = h /\ d.at = "sent" /\ d.arg = arg /\ d.got = {} /\ d.id = n
  BY <1>2
<1>4. d \in [id : {d.id}, kind : CallsOf(tab), h : Haut, at : {"sent", "listed", "posted", "mailed", "answered"},
             arg : {d.arg}, got : {d.got}]
  OBVIOUS
<1>5. AskOK(d)
  BY <1>3, <1>4 DEF AskOK
<1>6. NewAsk(d, kind, h, arg)
  BY <1>3, <1>5 DEF NewAsk
<1> QED BY <1>1, <1>6 DEF Then

\* A request goes on at the server.
GoesOn(d, c, at, got) ==
  /\ AskOK(d) /\ d.kind = c.kind /\ d.h = c.h /\ d.at = at /\ d.arg = c.arg /\ d.got = got
LEMMA AskGoesOn ==
  ASSUME NEW c, AskOK(c), NEW at \in {"listed", "posted", "mailed", "answered"}, NEW got,
         NEW d \in [id : {c.id}, kind : {c.kind}, h : {c.h}, at : {at}, arg : {c.arg}, got : {got}],
         at # "answered" => c.kind = "sendall",
         IF at = "answered" THEN got \in Brought(c.kind) ELSE got = {}
  PROVE  GoesOn(d, c, at, got)
<1>3. d.kind = c.kind /\ d.h = c.h /\ d.at = at /\ d.arg = c.arg /\ d.got = got /\ d.id = c.id
  OBVIOUS
<1>4. d \in [id : {d.id}, kind : CallsOf(tab), h : Haut, at : {"sent", "listed", "posted", "mailed", "answered"},
             arg : {d.arg}, got : {d.got}]
  BY <1>3 DEF AskOK
<1>5. AskOK(d)
  BY <1>3, <1>4 DEF AskOK
<1> QED BY <1>3, <1>5 DEF GoesOn

LEMMA AskMovesOn ==
  ASSUME NEW c, AskOK(c), NEW at \in {"listed", "posted", "mailed"}, c.kind = "sendall", c.at # "answered"
  PROVE  GoesOn([c EXCEPT !.at = at], c, at, {})
<1>1. c \in [id : {c.id}, kind : {c.kind}, h : {c.h}, at : {c.at}, arg : {c.arg}, got : {{}}]
  BY DEF AskOK
<1>2. PICK d : d = [c EXCEPT !.at = at]
  OBVIOUS
<1>3. d \in [id : {c.id}, kind : {c.kind}, h : {c.h}, at : {at}, arg : {c.arg}, got : {{}}]
  BY <1>1, <1>2
<1> QED BY <1>2, <1>3, AskGoesOn

\* A request that stores is answered with nothing.
LEMMA AskStored ==
  ASSUME NEW c, AskOK(c), c.got \in Brought(c.kind)
  PROVE  GoesOn([c EXCEPT !.at = "answered"], c, "answered", c.got)
<1>1. c \in [id : {c.id}, kind : {c.kind}, h : {c.h}, at : {c.at}, arg : {c.arg}, got : {c.got}]
  BY DEF AskOK
<1>2. PICK d : d = [c EXCEPT !.at = "answered"]
  OBVIOUS
<1>3. d \in [id : {c.id}, kind : {c.kind}, h : {c.h}, at : {"answered"}, arg : {c.arg}, got : {c.got}]
  BY <1>1, <1>2
<1> QED BY <1>2, <1>3, AskGoesOn

\* Rows stay rows when one is inserted, updated or deleted.
LEMMA RowsStored ==
  ASSUME ToolsTyped, NEW c \in asked, c.kind \in RowCalls
  PROVE  StoreRow(stored.rows[c.h], c) \in Seq(ToolRow)
<1> DEFINE rows == stored.rows[c.h]
           at == {i \in DOMAIN rows : rows[i].id = c.arg.id}
<1>1. AskOK(c) /\ c.h \in Haut /\ c.arg \in ToolRow /\ stored \in Kept
  BY AskFacts DEF ToolsTyped, AskOK
<1>2. rows \in Seq(ToolRow) /\ stored.ids \in Nat
  BY <1>1 DEF Kept
<1>3. CASE c.kind = "putRow"
  <2>1. PICK id \in Nat : id = stored.ids + 1
    BY <1>2
  <2>2. [c.arg EXCEPT !.id = id] \in ToolRow
    BY <1>1 DEF ToolRow
  <2>3. StoreRow(rows, c) = Append(rows, [c.arg EXCEPT !.id = id])
    BY <1>3, <2>1 DEF StoreRow
  <2> QED BY <2>2, <2>3, <1>2
<1>4. CASE c.kind = "postRow"
  <2>1. \A i \in DOMAIN rows : [rows[i] EXCEPT !.value = c.arg.value] \in ToolRow /\ rows[i] \in ToolRow
    <3>a. c.arg.value \in Nat
      BY <1>1 DEF ToolRow
    <3>b. \A i \in DOMAIN rows : rows[i] \in ToolRow
      BY <1>2
    <3>1. c.arg.value \in Nat /\ \A i \in DOMAIN rows : rows[i] \in ToolRow
      BY <3>a, <3>b
    <3>2. \A r \in ToolRow, v \in Nat : [r EXCEPT !.value = v] \in ToolRow
      BY DEF ToolRow
    <3> QED BY <3>1, <3>2
  <2>2. StoreRow(rows, c) = [i \in DOMAIN rows |-> IF i \in at THEN [rows[i] EXCEPT !.value = c.arg.value] ELSE rows[i]]
    BY <1>4 DEF StoreRow
  <2>3. DOMAIN rows = 1..Len(rows) /\ Len(rows) \in Nat
    BY <1>2
  <2>4. \A f : f \in [1..Len(rows) -> ToolRow] => f \in Seq(ToolRow)
    BY <2>3
  <2> QED BY <2>1, <2>2, <2>3, <2>4
<1>5. CASE c.kind = "deleteRow"
  <2>1. StoreRow(rows, c) = IF at = {} THEN rows ELSE RemoveAt(rows, CHOOSE i \in at : TRUE)
    BY <1>5 DEF StoreRow
  <2>2. \A i \in DOMAIN rows : RemoveAt(rows, i) \in Seq(ToolRow)
    BY <1>2 DEF RemoveAt
  <2>3. at # {} => (CHOOSE i \in at : TRUE) \in DOMAIN rows
    OBVIOUS
  <2> QED BY <2>1, <2>2, <2>3, <1>2
<1> QED BY <1>3, <1>4, <1>5 DEF RowCalls

\* What a request that stores makes of what is stored.
Stores(c) ==
  /\ stored'.laki = IF c.kind = "postLaki" THEN [stored.laki EXCEPT ![c.h] = c.arg] ELSE stored.laki
  /\ stored'.rows = IF c.kind \in RowCalls THEN [stored.rows EXCEPT ![c.h] = StoreRow(@, c)] ELSE stored.rows
  /\ stored'.ids = IF c.kind = "putRow" THEN stored.ids + 1 ELSE stored.ids
  /\ stored'.mailed = stored.mailed /\ stored'.marked = stored.marked
  /\ stored'.unsent = IF c.kind = "payments" THEN [stored.unsent EXCEPT ![c.h] = FALSE]
                      ELSE IF c.kind = "admin" THEN [stored.unsent EXCEPT ![c.h] = c.arg] ELSE stored.unsent
  /\ stored'.batch = IF c.kind = "batch" THEN [stored.batch EXCEPT ![c.h] = "open"]
                     ELSE IF c.kind = "payments" THEN [stored.batch EXCEPT ![c.h] = "sent"] ELSE stored.batch
  /\ stored'.docs = IF c.kind = "document" THEN [stored.docs EXCEPT ![c.h] = @ \cup {NextDocument(c)}]
                    ELSE stored.docs

LEMMA NextIsPhase ==
  ASSUME NEW c, c.arg.docs \in SUBSET Phases, c.arg.docs # {}
  PROVE  NextDocument(c) \in Phases
BY DEF NextDocument

\* A document request names one.
DocumentsLeft == \A c \in asked : c.kind = "document" => c.arg.docs # {}

LEMMA StoreToolDoes ==
  ASSUME ToolsTyped, DocumentsLeft, NEW c \in asked, StoreTool(c)
  PROVE  /\ \E d : asked' = (asked \ {c}) \cup {d} /\ GoesOn(d, c, "answered", c.got)
         /\ stored' \in Kept /\ Stores(c)
<1>1. AskOK(c) /\ c.h \in Haut /\ stored \in Kept /\ tab \in ToolTabs
  BY DEF ToolsTyped, AskOK
<1>2. c.kind \in RowCalls \cup {"postLaki", "batch", "document", "payments", "admin"} /\ c.at = "sent"
  BY DEF StoreTool
<1>3. \E d : asked' = (asked \ {c}) \cup {d} /\ GoesOn(d, c, "answered", c.got)
  <2>1. c.got \in Brought(c.kind)
    BY <1>1, <1>2 DEF AskOK, Brought, RowCalls
  <2>2. PICK d : d = [c EXCEPT !.at = "answered"]
    OBVIOUS
  <2>3. GoesOn(d, c, "answered", c.got)
    BY <1>1, <2>1, <2>2, AskStored
  <2>4. asked' = (asked \ {c}) \cup {d}
    BY <2>2 DEF StoreTool
  <2> QED BY <2>3, <2>4
<1>4. stored' \in Kept /\ Stores(c)
  <2>1. stored' = After(c)
    BY DEF StoreTool
  <2>2. CASE c.kind = "postLaki"
    <3>1. stored' = [stored EXCEPT !.laki[c.h] = c.arg]
      BY <2>1, <2>2 DEF After, RowCalls
    <3>2. c.arg \in SUBSET Lait
      BY <2>2, <1>1, AskFacts
    <3> QED BY <3>1, <3>2, <2>2, <1>1 DEF Kept, Stores, RowCalls
  <2>3. CASE c.kind \in RowCalls
    <3>1. PICK rows : rows = StoreRow(stored.rows[c.h], c)
      OBVIOUS
    <3>2. rows \in Seq(ToolRow)
      BY <3>1, <2>3, RowsStored
    <3>3. PICK ids \in Nat : ids = IF c.kind = "putRow" THEN stored.ids + 1 ELSE stored.ids
      BY <1>1 DEF Kept
    <3>4. stored' = [stored EXCEPT !.rows[c.h] = rows, !.ids = ids]
      BY <2>1, <2>3, <3>1, <3>3 DEF After, RowCalls
    <3>5. stored' \in Kept /\ stored'.rows = [stored.rows EXCEPT ![c.h] = rows] /\ stored'.ids = ids
          /\ stored'.laki = stored.laki /\ stored'.mailed = stored.mailed /\ stored'.marked = stored.marked
          /\ stored'.unsent = stored.unsent /\ stored'.batch = stored.batch /\ stored'.docs = stored.docs
      BY <3>2, <3>4, <1>1 DEF Kept
    <3>6. c.kind \notin {"postLaki", "payments", "admin", "batch", "document"}
      BY <2>3 DEF RowCalls
    <3> QED BY <3>1, <3>3, <3>5, <3>6, <2>3 DEF Stores
  <2>4. CASE c.kind = "batch"
    <3>1. stored' = [stored EXCEPT !.batch[c.h] = "open"]
      BY <2>1, <2>4 DEF After, RowCalls
    <3> QED BY <3>1, <2>4, <1>1 DEF Kept, Stores, RowCalls
  <2>5. CASE c.kind = "document"
    <3>1. NextDocument(c) \in Phases
      <4>1. c.arg.docs \in SUBSET Phases /\ c.arg.docs # {}
        BY <2>5, <1>1, AskFacts DEF PayCalls, DocumentsLeft
      <4> QED BY <4>1, NextIsPhase
    <3>2. PICK p \in Phases : p = NextDocument(c)
      BY <3>1
    <3>a. PICK docs \in SUBSET Phases : docs = stored.docs[c.h] \cup {p}
      BY <1>1, <3>2 DEF Kept
    <3>3. stored' = [stored EXCEPT !.docs[c.h] = docs]
      BY <2>1, <2>5, <3>2, <3>a DEF After, RowCalls
    <3>4. stored' \in Kept /\ stored'.rows = stored.rows /\ stored'.ids = stored.ids
          /\ stored'.laki = stored.laki /\ stored'.mailed = stored.mailed /\ stored'.marked = stored.marked
          /\ stored'.unsent = stored.unsent /\ stored'.batch = stored.batch
          /\ stored'.docs = [stored.docs EXCEPT ![c.h] = docs]
      BY <3>2, <3>3, <3>a, <1>1 DEF Kept
    <3> QED BY <3>2, <3>4, <3>a, <2>5 DEF Stores, RowCalls
  <2>6. CASE c.kind = "payments"
    <3>1. PICK no \in BOOLEAN : no = FALSE
      OBVIOUS
    <3>2. stored' = [stored EXCEPT !.batch[c.h] = "sent", !.unsent[c.h] = no]
      BY <2>1, <2>6, <3>1 DEF After, RowCalls
    <3>3. stored' \in Kept /\ stored'.rows = stored.rows /\ stored'.ids = stored.ids
          /\ stored'.laki = stored.laki /\ stored'.mailed = stored.mailed /\ stored'.marked = stored.marked
          /\ stored'.unsent = [stored.unsent EXCEPT ![c.h] = no]
          /\ stored'.batch = [stored.batch EXCEPT ![c.h] = "sent"] /\ stored'.docs = stored.docs
      BY <3>2, <1>1 DEF Kept
    <3> QED BY <3>1, <3>3, <2>6, <1>1 DEF Stores, RowCalls
  <2>7. CASE c.kind = "admin"
    <3>1. c.arg \in BOOLEAN
      BY <2>7, <1>1, AskFacts
    <3>2. PICK make \in BOOLEAN : make = c.arg
      BY <3>1
    <3>3. stored' = [stored EXCEPT !.unsent[c.h] = make]
      BY <2>1, <2>7, <3>2 DEF After, RowCalls
    <3>4. stored' \in Kept /\ stored'.rows = stored.rows /\ stored'.ids = stored.ids
          /\ stored'.laki = stored.laki /\ stored'.mailed = stored.mailed /\ stored'.marked = stored.marked
          /\ stored'.unsent = [stored.unsent EXCEPT ![c.h] = make]
          /\ stored'.batch = stored.batch /\ stored'.docs = stored.docs
      BY <3>3, <1>1 DEF Kept
    <3> QED BY <3>2, <3>4, <2>7, <1>1 DEF Stores, RowCalls
  <2> QED BY <1>2, <2>2, <2>3, <2>4, <2>5, <2>6, <2>7
<1> QED BY <1>3, <1>4

\* What a tab becomes: each of its parts.
TabIs(laki, manual, rows, keys, delays, mail, pay, report) ==
  /\ shown' \in Tab
  /\ shown'.laki = laki /\ shown'.manual = manual /\ shown'.rows = rows /\ shown'.keys = keys
  /\ shown'.delays = delays /\ shown'.mail = mail /\ shown'.pay = pay /\ shown'.report = report
TabStays ==
  TabIs(shown.laki, shown.manual, shown.rows, shown.keys, shown.delays, shown.mail, shown.pay, shown.report)
ManualIs(manual) ==
  TabIs(shown.laki, manual, shown.rows, shown.keys, shown.delays, shown.mail, shown.pay, shown.report)
MailIs(mail) ==
  TabIs(shown.laki, shown.manual, shown.rows, shown.keys, shown.delays, mail, shown.pay, shown.report)
PayIs(pay, manual) ==
  TabIs(shown.laki, manual, shown.rows, shown.keys, shown.delays, shown.mail, pay, shown.report)
ReportIs(report) ==
  TabIs(shown.laki, shown.manual, shown.rows, shown.keys, shown.delays, shown.mail, shown.pay, report)

LEMMA TabUnchanged ==
  ASSUME shown \in Tab, shown' = shown
  PROVE  TabStays
BY DEF TabStays, TabIs

LEMMA ManualChanges ==
  ASSUME shown \in Tab, NEW manual \in BOOLEAN, shown' = [shown EXCEPT !.manual = manual]
  PROVE  ManualIs(manual)
BY DEF Tab, ManualIs, TabIs

LEMMA MailChanges ==
  ASSUME shown \in Tab, NEW mail \in Mail, shown' = [shown EXCEPT !.mail = mail]
  PROVE  MailIs(mail)
BY DEF Tab, MailIs, TabIs

LEMMA PayChanges ==
  ASSUME shown \in Tab, NEW pay \in Pay, shown' = [shown EXCEPT !.pay = pay]
  PROVE  PayIs(pay, shown.manual)
BY DEF Tab, PayIs, TabIs

LEMMA ReportChanges ==
  ASSUME shown \in Tab, NEW report \in Report, shown' = [shown EXCEPT !.report = report]
  PROVE  ReportIs(report)
BY DEF Tab, ReportIs, TabIs

-----------------------------------------------------------------------------
(* The tools of the grant editor: what each step does                        *)

LEMMA LakiActs ==
  ASSUME ToolsTyped, NEW l \in Lait, Lainsaadanto(l)
  PROVE  LET Toggled(set) == IF l \notin shown.laki THEN set \cup {l} ELSE set \ {l} IN
         /\ ManualIs(TRUE) /\ tab = "laki"
         /\ \E d : asked' = asked \cup {d} /\ NewAsk(d, "postLaki", openHaku, Toggled(shown.laki))
         /\ clicked' = [clicked EXCEPT ![openHaku] = Toggled(@)]
         /\ clicked' \in [Haut -> SUBSET Lait]
<1> DEFINE Toggled(set) == IF l \notin shown.laki THEN set \cup {l} ELSE set \ {l}
<1>1. /\ tab = "laki" /\ openHaku \in Haut
      /\ shown' = [shown EXCEPT !.manual = TRUE]
      /\ asked' = asked \cup {Ask("postLaki", openHaku, Toggled(shown.laki))}
      /\ clicked' = [clicked EXCEPT ![openHaku] = Toggled(@)]
  BY DEF Lainsaadanto, CanAct, Shows, ToolsTyped
<1>2. shown \in Tab /\ clicked \in [Haut -> SUBSET Lait]
  BY DEF ToolsTyped
<1>3. ManualIs(TRUE)
  BY <1>1, <1>2, ManualChanges
<1>4. Toggled(shown.laki) \in Carries("postLaki") /\ "postLaki" \in CallsOf(tab)
  <2>1. shown.laki \in SUBSET Lait
    BY <1>2 DEF Tab
  <2>2. Toggled(shown.laki) \in SUBSET Lait
    BY <2>1
  <2>3. Carries("postLaki") = SUBSET Lait
    BY DEF Carries, RowCalls, PayCalls
  <2>4. "postLaki" \in CallsOf(tab)
    BY <1>1 DEF CallsOf, LakiCalls
  <2> QED BY <2>2, <2>3, <2>4
<1>5. NewAsk(Ask("postLaki", openHaku, Toggled(shown.laki)), "postLaki", openHaku, Toggled(shown.laki))
  BY <1>1, <1>4, AsksNew
<1>6. clicked' \in [Haut -> SUBSET Lait]
  <2>1. Toggled(clicked[openHaku]) \in SUBSET Lait
    BY <1>1, <1>2
  <2> QED BY <1>1, <1>2, <2>1
<1> QED BY <1>1, <1>3, <1>5, <1>6

LEMMA LakiAnswers ==
  ASSUME ToolsTyped, NEW c \in asked, LakiAnswered(c)
  PROVE  /\ tab = "laki" /\ asked' = asked \ {c}
         /\ TabIs(IF c.kind = "getLaki" THEN c.got ELSE c.arg, shown.manual /\ c.kind = "getLaki",
                  shown.rows, shown.keys, shown.delays, shown.mail, shown.pay, shown.report)
<1>1. AskOK(c) /\ shown \in Tab /\ tab \in ToolTabs
  BY DEF ToolsTyped
<1>2. /\ c.kind \in LakiCalls /\ c.at = "answered" /\ asked' = asked \ {c}
      /\ shown' = IF c.kind = "getLaki" THEN [shown EXCEPT !.laki = c.got]
              ELSE [shown EXCEPT !.laki = c.arg, !.manual = FALSE]
  BY DEF LakiAnswered
<1>3. /\ tab = "laki"
      /\ c.kind = "getLaki" => c.got \in SUBSET Lait
      /\ c.kind = "postLaki" => c.arg \in SUBSET Lait
  BY <1>1, <1>2, AskFacts
<1>4. CASE c.kind = "getLaki"
  <2>1. PICK laki \in SUBSET Lait : laki = c.got
    BY <1>3, <1>4
  <2>2. shown' = [shown EXCEPT !.laki = laki]
    BY <1>2, <1>4, <2>1
  <2>3. TabIs(laki, shown.manual, shown.rows, shown.keys, shown.delays, shown.mail, shown.pay, shown.report)
    BY <1>1, <2>2 DEF Tab, TabIs
  <2>4. shown.manual \in BOOLEAN
    BY <1>1 DEF Tab
  <2>5. (shown.manual /\ c.kind = "getLaki") = shown.manual
    BY <1>4, <2>4
  <2> QED BY <1>2, <1>3, <1>4, <2>1, <2>3, <2>5
<1>5. CASE c.kind = "postLaki"
  <2>1. PICK laki \in SUBSET Lait : laki = c.arg
    BY <1>3, <1>5
  <2>2. PICK no \in BOOLEAN : no = FALSE
    OBVIOUS
  <2>3. shown' = [shown EXCEPT !.laki = laki, !.manual = no]
    BY <1>2, <1>5, <2>1, <2>2
  <2>4. TabIs(laki, no, shown.rows, shown.keys, shown.delays, shown.mail, shown.pay, shown.report)
    BY <1>1, <2>3 DEF Tab, TabIs
  <2>5. (shown.manual /\ c.kind = "getLaki") = no
    BY <1>5, <2>2
  <2> QED BY <1>2, <1>3, <1>5, <2>1, <2>4, <2>5
<1> QED BY <1>2, <1>4, <1>5 DEF LakiCalls

\* An edit of a row, and the delay it starts.
Edits(i, e, p) ==
  /\ e \in ToolRow /\ p \in Delay /\ p.h = openHaku /\ p.row = e
  /\ e.id = shown.rows[i].id /\ e.key = shown.rows[i].key /\ e.draft = shown.rows[i].draft
  /\ e.value = Mark
  /\ TabIs(shown.laki, TRUE, [shown.rows EXCEPT ![i] = e], shown.keys,
           {d \in shown.delays : d.row.key # e.key} \cup {p}, shown.mail, shown.pay, shown.report)
LEMMA RowActs ==
  ASSUME ToolsTyped, NEW i \in DOMAIN shown.rows, Raportointivelvoite(i)
  PROVE  tab = "velvoitteet" /\ asked' = asked /\ \E e, p : Edits(i, e, p)
<1>1. /\ tab = "velvoitteet" /\ openHaku \in Haut /\ asked' = asked
      /\ shown \in Tab /\ toolsUsed \in [acts : Nat, failures : Nat]
  BY DEF Raportointivelvoite, CanAct, Shows, ToolsTyped
<1>2. PICK row \in ToolRow : row = shown.rows[i]
  <2>1. shown.rows \in Seq(ToolRow)
    BY <1>1 DEF Tab
  <2> QED BY <2>1
<1>3. PICK v \in Nat : v = Mark
  BY <1>1 DEF Mark
<1>4. PICK e \in ToolRow : e = [row EXCEPT !.value = v]
  BY <1>2, <1>3 DEF ToolRow
<1>5. e.id = row.id /\ e.key = row.key /\ e.draft = row.draft /\ e.value = v
  BY <1>2, <1>4 DEF ToolRow
<1>6. PICK p \in Delay : p = [h |-> openHaku, row |-> e]
  BY <1>1, <1>4 DEF Delay
<1>7. PICK delays \in SUBSET Delay : delays = {d \in shown.delays : d.row.key # row.key} \cup {p}
  BY <1>1, <1>6 DEF Tab
<1>8. PICK yes \in BOOLEAN : yes = TRUE
  OBVIOUS
<1>9. shown.rows \in Seq(ToolRow)
  BY <1>1 DEF Tab
<1>10. PICK rows \in Seq(ToolRow) : rows = [shown.rows EXCEPT ![i] = e]
  <2>1. PICK old \in Seq(ToolRow) : old = shown.rows
    BY <1>9
  <2>2. [old EXCEPT ![i] = e] \in [1..Len(old) -> ToolRow]
    BY <1>4, <2>1
  <2>3. [old EXCEPT ![i] = e] \in Seq(ToolRow)
    BY <2>2
  <2> QED BY <2>1, <2>3
<1>11. shown' = [shown EXCEPT !.rows[i].value = v, !.manual = yes, !.delays = delays]
  BY <1>2, <1>3, <1>4, <1>6, <1>7, <1>8 DEF Raportointivelvoite
<1>12. shown' = [shown EXCEPT !.rows = rows, !.manual = yes, !.delays = delays]
  BY <1>1, <1>2, <1>4, <1>10, <1>11 DEF Tab
<1>13. TabIs(shown.laki, yes, rows, shown.keys, delays, shown.mail, shown.pay, shown.report)
  BY <1>1, <1>12 DEF Tab, TabIs
<1>14. p.h = openHaku /\ p.row = e
  BY <1>6
<1>15. Edits(i, e, p)
  BY <1>2, <1>3, <1>5, <1>7, <1>8, <1>10, <1>13, <1>14 DEF Edits
<1> QED BY <1>1, <1>15

LEMMA DelayEnds ==
  ASSUME ToolsTyped, NEW d \in shown.delays, DebouncedRaportointivelvoite(d)
  PROVE  /\ tab = "velvoitteet" /\ d \in Delay
         /\ TabIs(shown.laki, shown.manual, shown.rows, shown.keys, shown.delays \ {d},
                  shown.mail, shown.pay, shown.report)
         /\ \E c : asked' = asked \cup {c}
                   /\ NewAsk(c, IF d.row.id = NoRow THEN "putRow" ELSE "postRow", d.h, d.row)
<1>1. tab = "velvoitteet" /\ shown \in Tab /\ d \in Delay
  BY DEF ToolsTyped, Tab
<1>2. PICK delays \in SUBSET Delay : delays = shown.delays \ {d}
  BY <1>1 DEF Tab
<1>3. shown' = [shown EXCEPT !.delays = delays]
  BY <1>2 DEF DebouncedRaportointivelvoite
<1>4. TabIs(shown.laki, shown.manual, shown.rows, shown.keys, delays, shown.mail, shown.pay, shown.report)
  BY <1>1, <1>3 DEF Tab, TabIs
<1>5. PICK kind \in RowCalls : kind = IF d.row.id = NoRow THEN "putRow" ELSE "postRow"
  BY DEF RowCalls
<1>6. d.h \in Haut /\ d.row \in ToolRow
  BY <1>1 DEF Delay
<1>7. kind \in CallsOf(tab) /\ d.row \in Carries(kind)
  <2>1. kind # "postLaki"
    BY <1>5 DEF RowCalls
  <2>2. Carries(kind) = ToolRow
    BY <1>5, <2>1 DEF Carries, RowCalls, PayCalls
  <2>3. kind \in CallsOf(tab)
    BY <1>1, <1>5 DEF CallsOf
  <2> QED BY <1>6, <2>2, <2>3
<1>8. NewAsk(Ask(kind, d.h, d.row), kind, d.h, d.row)
  BY <1>6, <1>7, AsksNew
<1>9. asked' = asked \cup {Ask(kind, d.h, d.row)}
  BY <1>5 DEF DebouncedRaportointivelvoite
<1>10. \E c : asked' = asked \cup {c} /\ NewAsk(c, kind, d.h, d.row)
  BY <1>8, <1>9
<1> QED BY <1>1, <1>2, <1>4, <1>5, <1>10

LEMMA DeleteActs ==
  ASSUME ToolsTyped, NEW i \in DOMAIN shown.rows, DeleteRaportointivelvoite(i)
  PROVE  /\ tab = "velvoitteet" /\ ManualIs(TRUE)
         /\ \E d : asked' = asked \cup {d} /\ NewAsk(d, "deleteRow", openHaku, shown.rows[i])
<1>1. /\ tab = "velvoitteet" /\ openHaku \in Haut /\ shown \in Tab
      /\ shown' = [shown EXCEPT !.manual = TRUE]
      /\ asked' = asked \cup {Ask("deleteRow", openHaku, shown.rows[i])}
  BY DEF DeleteRaportointivelvoite, CanAct, Shows, ToolsTyped
<1>2. ManualIs(TRUE)
  BY <1>1, ManualChanges
<1>3. shown.rows[i] \in ToolRow
  <2>1. shown.rows \in Seq(ToolRow)
    BY <1>1 DEF Tab
  <2> QED BY <2>1
<1>4. "deleteRow" \in CallsOf(tab) /\ shown.rows[i] \in Carries("deleteRow")
  <2>1. Carries("deleteRow") = ToolRow
    BY DEF Carries, RowCalls, PayCalls
  <2> QED BY <1>1, <1>3, <2>1 DEF CallsOf, RowCalls
<1>5. NewAsk(Ask("deleteRow", openHaku, shown.rows[i]), "deleteRow", openHaku, shown.rows[i])
  BY <1>1, <1>4, AsksNew
<1> QED BY <1>1, <1>2, <1>5

LEMMA RowAnswers ==
  ASSUME ToolsTyped, NEW c \in asked, RowAnswered(c)
  PROVE  /\ tab = "velvoitteet" /\ ManualIs(FALSE)
         /\ \E d : asked' = (asked \ {c}) \cup {d} /\ NewAsk(d, "getRows", openHaku, {})
<1>1. /\ AskOK(c) /\ c.kind \in RowCalls /\ openHaku \in Haut /\ shown \in Tab /\ tab \in ToolTabs
      /\ shown' = [shown EXCEPT !.manual = FALSE]
      /\ asked' = Then(c, "getRows", openHaku, {})
  BY DEF RowAnswered, ToolsTyped
<1>2. tab = "velvoitteet"
  BY <1>1, AskFacts
<1>3. ManualIs(FALSE)
  BY <1>1, ManualChanges
<1>4. "getRows" \in CallsOf(tab) /\ {} \in Carries("getRows")
  BY <1>2 DEF CallsOf, Carries, RowCalls, PayCalls
<1>5. \E d : Then(c, "getRows", openHaku, {}) = (asked \ {c}) \cup {d} /\ NewAsk(d, "getRows", openHaku, {})
  BY <1>1, <1>4, ThenNew
<1> QED BY <1>1, <1>2, <1>3, <1>5

\* A list that comes: what is kept and what starts anew.
Comes(c, rows) ==
  /\ rows \in Seq(ToolRow) /\ Len(rows) = Len(c.got) + 1
  /\ \A i \in 1..Len(c.got) :
       IF i \in DOMAIN shown.rows /\ shown.rows[i].id = c.got[i].id THEN rows[i] = shown.rows[i]
       ELSE /\ rows[i].id = c.got[i].id /\ rows[i].value = c.got[i].value
            /\ rows[i].draft = c.got[i].draft /\ rows[i].key = shown.keys + i
  /\ LET last == rows[Len(c.got) + 1] IN
     last.id = NoRow /\ last.key = shown.keys /\ last.draft = shown.keys /\ last.value = 0
  /\ TabIs(shown.laki, shown.manual, rows, shown.keys + Len(c.got) + 1, shown.delays,
           shown.mail, shown.pay, shown.report)
LEMMA RowsCome ==
  ASSUME ToolsTyped, NEW c \in asked, Raportointivelvoitteet(c)
  PROVE  /\ tab = "velvoitteet" /\ asked' = asked \ {c} /\ c.got \in Seq(ToolRow)
         /\ IF c.h = openHaku THEN \E rows : Comes(c, rows) ELSE TabStays
<1>1. /\ AskOK(c) /\ c.kind = "getRows" /\ c.at = "answered" /\ shown \in Tab /\ tab \in ToolTabs
      /\ asked' = asked \ {c}
  BY DEF Raportointivelvoitteet, ToolsTyped
<1>2. tab = "velvoitteet" /\ c.got \in Seq(ToolRow)
  BY <1>1, AskFacts
<1>3. CASE c.h # openHaku
  BY <1>1, <1>2, <1>3, TabUnchanged DEF Raportointivelvoitteet
<1>4. CASE c.h = openHaku
  <2>1. PICK old \in Seq(ToolRow) : old = shown.rows
    BY <1>1 DEF Tab
  <2>2. PICK got \in Seq(ToolRow) : got = c.got
    BY <1>2
  <2>3. PICK keys \in Nat : keys = shown.keys
    BY <1>1 DEF Tab
  <2> DEFINE KeptRow(i) == i \in DOMAIN old /\ old[i].id = got[i].id
             NewOf(i) == IF KeptRow(i) THEN old[i] ELSE [got[i] EXCEPT !.key = keys + i]
             front == [i \in 1..Len(got) |-> NewOf(i)]
  <2>4. PICK n \in Nat : n = Len(got)
    BY <2>2
  <2>5. \A i \in 1..n : got[i] \in ToolRow /\ NewOf(i) \in ToolRow
    <3> SUFFICES ASSUME NEW i \in 1..n PROVE got[i] \in ToolRow /\ NewOf(i) \in ToolRow
      OBVIOUS
    <3>1. got[i] \in ToolRow
      BY <2>2, <2>4
    <3>2. PICK k \in Nat : k = keys + i
      BY <2>3
    <3>3. [got[i] EXCEPT !.key = k] \in ToolRow
      BY <3>1 DEF ToolRow
    <3>4. KeptRow(i) => old[i] \in ToolRow
      BY <2>1
    <3> QED BY <3>1, <3>2, <3>3, <3>4
  <2>6. front \in Seq(ToolRow) /\ Len(front) = n /\ \A i \in 1..n : front[i] = NewOf(i)
    BY <2>4, <2>5
  <2>7. PICK e \in ToolRow : e = EmptyRow(keys)
    BY <2>3 DEF EmptyRow, ToolRow, NoRow
  <2>8. e.id = NoRow /\ e.key = keys /\ e.draft = keys /\ e.value = 0
    BY <2>7 DEF EmptyRow
  <2>9. PICK rows : rows = front \o <<e>>
    OBVIOUS
  <2>10. /\ rows \in Seq(ToolRow) /\ Len(rows) = n + 1 /\ rows[n + 1] = e
         /\ \A i \in 1..n : rows[i] = NewOf(i)
    <3> HIDE DEF NewOf
    <3> HIDE DEF front
    <3>1. rows \in Seq(ToolRow) /\ Len(rows) = n + 1
      BY <2>6, <2>9
    <3>2. rows[n + 1] = e
      BY <2>6, <2>9
    <3>3. \A i \in 1..n : rows[i] = front[i]
      BY <2>6, <2>9
    <3> QED BY <2>6, <3>1, <3>2, <3>3
  <2>11. PICK keys2 \in Nat : keys2 = keys + n + 1
    BY <2>3, <2>4
  <2>12. shown' = [shown EXCEPT !.rows = rows, !.keys = keys2]
    BY <1>4, <2>1, <2>2, <2>3, <2>4, <2>7, <2>9, <2>11 DEF Raportointivelvoitteet
  <2>13. TabIs(shown.laki, shown.manual, rows, keys2, shown.delays, shown.mail, shown.pay, shown.report)
    BY <1>1, <2>10, <2>12 DEF Tab, TabIs
  <2>14. \A i \in 1..n :
           IF i \in DOMAIN old /\ old[i].id = got[i].id THEN rows[i] = old[i]
           ELSE /\ rows[i].id = got[i].id /\ rows[i].value = got[i].value
                /\ rows[i].draft = got[i].draft /\ rows[i].key = keys + i
    <3> SUFFICES ASSUME NEW i \in 1..n, ~KeptRow(i)
                 PROVE  /\ rows[i].id = got[i].id /\ rows[i].value = got[i].value
                        /\ rows[i].draft = got[i].draft /\ rows[i].key = keys + i
      BY <2>10
    <3>1. PICK r \in ToolRow : r = got[i]
      BY <2>5
    <3>2. PICK k : k = keys + i
      OBVIOUS
    <3>3. rows[i] = [r EXCEPT !.key = k]
      BY <2>10, <3>1, <3>2
    <3> QED BY <3>1, <3>2, <3>3 DEF ToolRow
  <2>15. Comes(c, rows)
    BY <2>1, <2>2, <2>3, <2>4, <2>8, <2>10, <2>11, <2>13, <2>14 DEF Comes
  <2> QED BY <1>1, <1>2, <1>4, <2>15
<1> QED BY <1>3, <1>4

\* The mail of a tab after a step: the grant it is of, what is told of it, and whether it is
\* being sent.
MailGoes(of, sent, sending) ==
  \E mail \in Mail : MailIs(mail) /\ mail.of = of /\ mail.sent = sent /\ mail.sending = sending
MailSame == MailGoes(shown.mail.of, shown.mail.sent, shown.mail.sending)

LEMMA MailMoves ==
  ASSUME shown \in Tab, NEW mail \in Mail, shown' = [shown EXCEPT !.mail = mail]
  PROVE  MailGoes(mail.of, mail.sent, mail.sending)
BY MailChanges DEF MailGoes

LEMMA PreviewActs ==
  ASSUME ToolsTyped, OnPreview \/ PreviewEnds
  PROVE  asked' = asked /\ MailSame
<1>1. shown \in Tab /\ shown.mail \in Mail
  BY DEF ToolsTyped, Tab
<1>2. PICK m \in Mail : m = shown.mail
  BY <1>1
<1>3. PICK on \in BOOLEAN : shown' = [shown EXCEPT !.mail.preview = on] /\ asked' = asked
  BY DEF OnPreview, PreviewEnds
<1>4. PICK n \in Mail : n = [m EXCEPT !.preview = on]
  BY DEF Mail
<1>5. n.of = m.of /\ n.sent = m.sent /\ n.sending = m.sending
  BY <1>4 DEF Mail
<1>6. shown' = [shown EXCEPT !.mail = n]
  BY <1>1, <1>2, <1>3, <1>4 DEF Tab
<1> QED BY <1>1, <1>2, <1>3, <1>5, <1>6, MailMoves DEF MailSame

LEMMA MailKinds ==
  ASSUME tab = "paatokset"
  PROVE  \A kind \in MailCalls \cup {"regenerate", "getSent"} : kind \in CallsOf(tab) /\ {} \in Carries(kind)
BY DEF CallsOf, Carries, MailCalls, RowCalls, PayCalls

LEMMA SendActs ==
  ASSUME ToolsTyped, DecisionDateAndSend
  PROVE  /\ tab = "paatokset" /\ MailGoes(shown.mail.of, shown.mail.sent, TRUE)
         /\ \E d : asked' = asked \cup {d} /\ NewAsk(d, "sendall", openHaku, {})
<1>1. /\ shown \in Tab /\ shown.mail \in Mail /\ tab = "paatokset" /\ openHaku \in Haut
      /\ asked' = asked \cup {Ask("sendall", openHaku, {})}
  BY DEF ToolsTyped, Tab, DecisionDateAndSend, Shows
<1>2. PICK m \in Mail : m = shown.mail
  BY <1>1
<1>3. PICK yes \in BOOLEAN, no \in BOOLEAN : yes = TRUE /\ no = FALSE
  OBVIOUS
<1>4. shown' = [shown EXCEPT !.mail.sending = yes, !.mail.preview = no]
  BY <1>3 DEF DecisionDateAndSend
<1>5. PICK n \in Mail : n = [m EXCEPT !.sending = yes, !.preview = no]
  BY DEF Mail
<1>6. n.of = m.of /\ n.sent = m.sent /\ n.sending = yes
  BY <1>5 DEF Mail
<1>7. shown' = [shown EXCEPT !.mail = n]
  BY <1>1, <1>2, <1>4, <1>5 DEF Tab
<1>8. MailGoes(m.of, m.sent, yes)
  BY <1>1, <1>6, <1>7, MailMoves
<1>9. "sendall" \in CallsOf(tab) /\ {} \in Carries("sendall")
  BY <1>1, MailKinds DEF MailCalls
<1>10. NewAsk(Ask("sendall", openHaku, {}), "sendall", openHaku, {})
  BY <1>1, <1>9, AsksNew
<1> QED BY <1>1, <1>2, <1>3, <1>8, <1>10

\* Mailing once more, and making the decisions anew.
LEMMA ResendActs ==
  ASSUME ToolsTyped, ResendDecisions \/ RegenerateDecisions
  PROVE  /\ tab = "paatokset" /\ MailSame
         /\ \E d, kind : /\ kind \in {"resendall", "regenerate"}
                         /\ asked' = asked \cup {d} /\ NewAsk(d, kind, openHaku, {})
<1>1. /\ shown \in Tab /\ shown.mail \in Mail /\ tab = "paatokset" /\ openHaku \in Haut
  <2>1. tab = "paatokset"
    BY Zenon DEF ResendDecisions, RegenerateDecisions, CanAct, Shows
  <2> QED BY <2>1 DEF ToolsTyped, Tab
<1>2. PICK m \in Mail : m = shown.mail
  BY <1>1
<1>3. CASE ResendDecisions
  <2>1. PICK n \in Mail : n = [m EXCEPT !.resend = "resending"]
    BY DEF Mail
  <2>2. n.of = m.of /\ n.sent = m.sent /\ n.sending = m.sending
    BY <2>1 DEF Mail
  <2>3. shown' = [shown EXCEPT !.mail = n]
    BY <1>1, <1>2, <1>3, <2>1 DEF Tab, ResendDecisions
  <2>4. MailSame
    BY <1>1, <1>2, <2>2, <2>3, MailMoves DEF MailSame
  <2>5. "resendall" \in CallsOf(tab) /\ {} \in Carries("resendall")
    BY <1>1, MailKinds DEF MailCalls
  <2>6. NewAsk(Ask("resendall", openHaku, {}), "resendall", openHaku, {})
    BY <1>1, <2>5, AsksNew
  <2>7. asked' = asked \cup {Ask("resendall", openHaku, {})}
    BY <1>3 DEF ResendDecisions
  <2>8. "resendall" \in {"resendall", "regenerate"}
    OBVIOUS
  <2> QED BY <1>1, <2>4, <2>6, <2>7, <2>8
<1>4. CASE RegenerateDecisions
  <2>1. PICK n \in Mail : n = [m EXCEPT !.regenerate = "regenerating"]
    BY DEF Mail
  <2>2. n.of = m.of /\ n.sent = m.sent /\ n.sending = m.sending
    BY <2>1 DEF Mail
  <2>a. shown' = [shown EXCEPT !.mail.regenerate = "regenerating"]
    BY <1>4, Zenon DEF RegenerateDecisions
  <2>3. shown' = [shown EXCEPT !.mail = n]
    BY <1>1, <1>2, <2>a, <2>1 DEF Tab
  <2>4. MailSame
    BY <1>1, <1>2, <2>2, <2>3, MailMoves DEF MailSame
  <2>5. "regenerate" \in CallsOf(tab) /\ {} \in Carries("regenerate")
    BY <1>1, MailKinds
  <2>6. NewAsk(Ask("regenerate", openHaku, {}), "regenerate", openHaku, {})
    BY <1>1, <2>5, AsksNew
  <2>7. asked' = asked \cup {Ask("regenerate", openHaku, {})}
    BY <1>4, Zenon DEF RegenerateDecisions
  <2>8. "regenerate" \in {"resendall", "regenerate"}
    OBVIOUS
  <2> QED BY <1>1, <2>4, <2>6, <2>7, <2>8
<1> QED BY <1>3, <1>4

LEMMA ListsToSend ==
  ASSUME ToolsTyped, NEW c \in asked, GetHakemusIdsToSend(c)
  PROVE  /\ tab = "paatokset" /\ c.kind = "sendall" /\ c.at = "sent"
         /\ \E d : /\ asked' = (asked \ {c}) \cup {d}
                   /\ GoesOn(d, c, IF stored.marked[c.h] THEN "mailed" ELSE "listed", {})
<1>1. AskOK(c) /\ c.kind = "sendall" /\ c.at = "sent" /\ tab \in ToolTabs
  BY DEF ToolsTyped, GetHakemusIdsToSend
<1>2. tab = "paatokset"
  BY <1>1, AskFacts DEF MailCalls
<1>3. PICK at \in {"mailed", "listed"} : at = IF stored.marked[c.h] THEN "mailed" ELSE "listed"
  OBVIOUS
<1>4. PICK d : d = [c EXCEPT !.at = at]
  OBVIOUS
<1>5. GoesOn(d, c, at, {})
  BY <1>1, <1>4, AskMovesOn
<1>6. asked' = (asked \ {c}) \cup {d}
  BY <1>3, <1>4 DEF GetHakemusIdsToSend
<1> QED BY <1>1, <1>2, <1>3, <1>5, <1>6

LEMMA SendsPaatos ==
  ASSUME ToolsTyped, NEW c \in asked, SendPaatos(c)
  PROVE  /\ c.kind = "sendall" /\ c.at = "listed"
         /\ \E d : asked' = (asked \ {c}) \cup {d} /\ GoesOn(d, c, "posted", {})
         /\ stored' \in Kept
         /\ stored'.laki = stored.laki /\ stored'.rows = stored.rows /\ stored'.ids = stored.ids
         /\ stored'.mailed = [stored.mailed EXCEPT ![c.h] = @ + 1]
         /\ stored'.marked = stored.marked
         /\ stored'.unsent = stored.unsent /\ stored'.batch = stored.batch /\ stored'.docs = stored.docs
<1>1. AskOK(c) /\ c.kind = "sendall" /\ c.at = "listed" /\ stored \in Kept /\ c.h \in Haut
  BY DEF ToolsTyped, SendPaatos, AskOK
<1>3. PICK d : d = [c EXCEPT !.at = "posted"]
  OBVIOUS
<1>5. GoesOn(d, c, "posted", {})
  BY <1>1, <1>3, AskMovesOn
<1>6. asked' = (asked \ {c}) \cup {d}
  BY <1>3 DEF SendPaatos
<1>7. PICK n \in Nat : n = stored.mailed[c.h] + 1
  BY <1>1 DEF Kept
<1>9. stored' = [stored EXCEPT !.mailed[c.h] = n]
  BY <1>7 DEF SendPaatos
<1>10. /\ stored' \in Kept
       /\ stored'.laki = stored.laki /\ stored'.rows = stored.rows /\ stored'.ids = stored.ids
       /\ stored'.mailed = [stored.mailed EXCEPT ![c.h] = n] /\ stored'.marked = stored.marked
       /\ stored'.unsent = stored.unsent /\ stored'.batch = stored.batch /\ stored'.docs = stored.docs
  BY <1>1, <1>9 DEF Kept
<1> QED BY <1>1, <1>5, <1>6, <1>7, <1>10

LEMMA MarksPaatos ==
  ASSUME ToolsTyped, NEW c \in asked, AddPaatosSentEmails(c)
  PROVE  /\ c.kind = "sendall" /\ c.at = "posted"
         /\ \E d : asked' = (asked \ {c}) \cup {d} /\ GoesOn(d, c, "mailed", {})
         /\ stored' \in Kept
         /\ stored'.laki = stored.laki /\ stored'.rows = stored.rows /\ stored'.ids = stored.ids
         /\ stored'.mailed = stored.mailed
         /\ stored'.marked = [stored.marked EXCEPT ![c.h] = TRUE]
         /\ stored'.unsent = stored.unsent /\ stored'.batch = stored.batch /\ stored'.docs = stored.docs
<1>1. AskOK(c) /\ c.kind = "sendall" /\ c.at = "posted" /\ stored \in Kept /\ c.h \in Haut
  BY DEF ToolsTyped, AddPaatosSentEmails, AskOK
<1>3. PICK d : d = [c EXCEPT !.at = "mailed"]
  OBVIOUS
<1>5. GoesOn(d, c, "mailed", {})
  BY <1>1, <1>3, AskMovesOn
<1>6. asked' = (asked \ {c}) \cup {d}
  BY <1>3 DEF AddPaatosSentEmails
<1>8. PICK yes \in BOOLEAN : yes = TRUE
  OBVIOUS
<1>9. stored' = [stored EXCEPT !.marked[c.h] = yes]
  BY <1>8 DEF AddPaatosSentEmails
<1>10. /\ stored' \in Kept
       /\ stored'.laki = stored.laki /\ stored'.rows = stored.rows /\ stored'.ids = stored.ids
       /\ stored'.mailed = stored.mailed /\ stored'.marked = [stored.marked EXCEPT ![c.h] = yes]
       /\ stored'.unsent = stored.unsent /\ stored'.batch = stored.batch /\ stored'.docs = stored.docs
  BY <1>1, <1>9 DEF Kept
<1> QED BY <1>1, <1>5, <1>6, <1>8, <1>10

LEMMA MailIsLost ==
  ASSUME ToolsTyped, NEW c \in asked, SendPaatosFails(c)
  PROVE  /\ c.kind = "sendall" /\ c.at = "listed" /\ stored' = stored
         /\ \E d : asked' = (asked \ {c}) \cup {d} /\ GoesOn(d, c, "posted", {})
<1>1. AskOK(c) /\ c.kind = "sendall" /\ c.at = "listed" /\ stored' = stored
  BY DEF ToolsTyped, SendPaatosFails
<1>3. PICK d : d = [c EXCEPT !.at = "posted"]
  OBVIOUS
<1>5. GoesOn(d, c, "posted", {})
  BY <1>1, <1>3, AskMovesOn
<1>6. asked' = (asked \ {c}) \cup {d}
  BY <1>3 DEF SendPaatosFails
<1> QED BY <1>1, <1>5, <1>6

LEMMA ServerPosts ==
  ASSUME ToolsTyped, NEW c \in asked, SendPaatosForAll(c)
  PROVE  /\ tab = "paatokset" /\ c.kind = "sendall"
         /\ \E d, at : /\ at \in {"posted", "mailed"}
                      /\ asked' = (asked \ {c}) \cup {d} /\ GoesOn(d, c, at, {})
         /\ stored' \in Kept
         /\ stored'.laki = stored.laki /\ stored'.rows = stored.rows /\ stored'.ids = stored.ids
         /\ stored'.unsent = stored.unsent /\ stored'.batch = stored.batch /\ stored'.docs = stored.docs
<1>1. c.kind = "sendall" /\ AskOK(c) /\ tab \in ToolTabs /\ stored \in Kept
  BY DEF ToolsTyped, SendPaatosForAll, SendPaatos, SendPaatosFails, AddPaatosSentEmails
<1>2. tab = "paatokset"
  BY <1>1, AskFacts DEF MailCalls
<1>3. CASE SendPaatos(c)
  BY <1>1, <1>2, <1>3, SendsPaatos
<1>4. CASE SendPaatosFails(c)
  BY <1>1, <1>2, <1>4, MailIsLost
<1>5. CASE AddPaatosSentEmails(c)
  BY <1>1, <1>2, <1>5, MarksPaatos
<1> QED BY <1>3, <1>4, <1>5 DEF SendPaatosForAll

LEMMA SentComes ==
  ASSUME ToolsTyped, NEW c \in asked, EmailStateFetched(c) \/ SendAnswered(c)
  PROVE  /\ tab = "paatokset" /\ asked' = asked \ {c} /\ c.at = "answered" /\ c.got \in BOOLEAN
         /\ c.kind \in {"getSent", "sendall"}
         /\ MailGoes(openHaku, c.got, shown.mail.sending /\ c.kind # "sendall")
<1>1. /\ AskOK(c) /\ c.kind \in {"getSent", "sendall"} /\ c.at = "answered" /\ tab \in ToolTabs
      /\ shown \in Tab /\ openHaku \in Haut /\ asked' = asked \ {c}
  BY DEF ToolsTyped, EmailStateFetched, SendAnswered
<1>2. tab = "paatokset" /\ c.got \in BOOLEAN
  BY <1>1, AskFacts DEF MailCalls
<1>3. PICK m \in Mail : m = shown.mail
  BY <1>1 DEF Tab
<1>4. PICK got \in BOOLEAN : got = c.got
  BY <1>2
<1>5. CASE EmailStateFetched(c)
  <2>1. PICK n \in Mail : n = [m EXCEPT !.of = openHaku, !.sent = got]
    BY <1>1 DEF Mail
  <2>2. n.of = openHaku /\ n.sent = got /\ n.sending = m.sending
    BY <2>1 DEF Mail
  <2>3. shown' = [shown EXCEPT !.mail = n]
    BY <1>1, <1>3, <1>4, <1>5, <2>1 DEF Tab, EmailStateFetched
  <2>4. MailGoes(openHaku, got, m.sending)
    BY <1>1, <2>2, <2>3, MailMoves
  <2>5. (m.sending /\ c.kind # "sendall") = m.sending
    BY <1>5 DEF Mail, EmailStateFetched
  <2> QED BY <1>1, <1>2, <1>3, <1>4, <2>4, <2>5
<1>6. CASE SendAnswered(c)
  <2>0. PICK no \in BOOLEAN : no = FALSE
    OBVIOUS
  <2>1. PICK n \in Mail : n = [m EXCEPT !.of = openHaku, !.sent = got, !.sending = no]
    BY <1>1 DEF Mail
  <2>2. n.of = openHaku /\ n.sent = got /\ n.sending = no
    BY <2>1 DEF Mail
  <2>3. shown' = [shown EXCEPT !.mail = n]
    BY <1>1, <1>3, <1>4, <1>6, <2>0, <2>1 DEF Tab, SendAnswered
  <2>4. MailGoes(openHaku, got, no)
    BY <1>1, <2>2, <2>3, MailMoves
  <2>5. (m.sending /\ c.kind # "sendall") = no
    BY <1>6, <2>0 DEF SendAnswered
  <2> QED BY <1>1, <1>2, <1>3, <1>4, <2>4, <2>5
<1> QED BY <1>5, <1>6

LEMMA ResendAnswers ==
  ASSUME ToolsTyped, NEW c \in asked, ResendAnswered(c) \/ RegenerateAnswered(c)
  PROVE  /\ tab = "paatokset" /\ MailSame /\ c.at = "answered" /\ c.kind \in {"resendall", "regenerate"}
         /\ \/ asked' = asked \ {c}
            \/ \E d : asked' = (asked \ {c}) \cup {d} /\ NewAsk(d, "getSent", c.h, {})
<1>1. /\ AskOK(c) /\ c.kind \in {"resendall", "regenerate"} /\ c.at = "answered" /\ tab \in ToolTabs
      /\ shown \in Tab /\ openHaku \in Haut /\ c.h \in Haut
  BY DEF ToolsTyped, ResendAnswered, RegenerateAnswered, AskOK
<1>2. tab = "paatokset"
  BY <1>1, AskFacts DEF MailCalls
<1>3. PICK m \in Mail : m = shown.mail
  BY <1>1 DEF Tab
<1>4. ASSUME NEW n \in Mail, shown' = [shown EXCEPT !.mail = n],
             n = [m EXCEPT !.resend = "completed"] \/ n = [m EXCEPT !.regenerate = "completed"]
      PROVE  MailSame
  <2>1. n.of = m.of /\ n.sent = m.sent /\ n.sending = m.sending
    BY <1>4 DEF Mail
  <2> QED BY <1>1, <1>3, <1>4, <2>1, MailMoves DEF MailSame
<1>5. shown' = shown => MailSame
  <2>1. shown' = shown => shown' = [shown EXCEPT !.mail = m]
    BY <1>1, <1>3 DEF Tab
  <2> QED BY <1>1, <1>3, <2>1, MailMoves DEF MailSame
<1>6. MailSame
  <2>1. CASE ResendAnswered(c) /\ c.h = openHaku
    <3>1. PICK n \in Mail : n = [m EXCEPT !.resend = "completed"]
      BY DEF Mail
    <3>2. shown' = [shown EXCEPT !.mail = n]
      BY <1>1, <1>3, <2>1, <3>1 DEF Tab, ResendAnswered
    <3> QED BY <1>4, <3>1, <3>2
  <2>2. CASE RegenerateAnswered(c) /\ c.h = openHaku
    <3>1. PICK n \in Mail : n = [m EXCEPT !.regenerate = "completed"]
      BY DEF Mail
    <3>2. shown' = [shown EXCEPT !.mail = n]
      BY <1>1, <1>3, <2>2, <3>1 DEF Tab, RegenerateAnswered
    <3> QED BY <1>4, <3>1, <3>2
  <2>3. CASE c.h # openHaku
    BY <1>5, <2>3 DEF ResendAnswered, RegenerateAnswered
  <2> QED BY <2>1, <2>2, <2>3
<1>7. "getSent" \in CallsOf(tab) /\ {} \in Carries("getSent")
  BY <1>2, MailKinds
<1>8. \E d : Then(c, "getSent", c.h, {}) = (asked \ {c}) \cup {d} /\ NewAsk(d, "getSent", c.h, {})
  BY <1>1, <1>7, ThenNew
<1> QED BY <1>1, <1>2, <1>6, <1>8 DEF ResendAnswered, RegenerateAnswered

\* The payments of a tab after a step: whether some are unsent, and what is being done to them.
PayGoes(unsent, sending, manual) ==
  \E pay \in Pay : PayIs(pay, manual) /\ pay.unsent = unsent /\ pay.sending = sending

LEMMA PayKept ==
  ASSUME shown \in Tab, NEW pay \in Pay, shown' = [shown EXCEPT !.pay = pay]
  PROVE  PayGoes(pay.unsent, pay.sending, shown.manual)
<1>1. PayIs(pay, shown.manual)
  BY DEF Tab, PayIs, TabIs
<1> QED BY <1>1 DEF PayGoes

LEMMA PayKinds ==
  ASSUME tab = "maksatukset"
  PROVE  /\ \A kind \in {"getPayments", "adminRefresh"} : kind \in CallsOf(tab) /\ {} \in Carries(kind)
         /\ \A make \in BOOLEAN : "admin" \in CallsOf(tab) /\ make \in Carries("admin")
         /\ \A kind \in PayCalls, arg \in [mode : {"send", "paid"}, docs : SUBSET Phases] :
              kind \in CallsOf(tab) /\ arg \in Carries(kind)
<1>1. \A kind \in PayCalls \cup {"getPayments", "admin", "adminRefresh"} : kind \in CallsOf(tab)
  BY DEF CallsOf
<1>2. \A kind \in {"getPayments", "adminRefresh"} : {} \in Carries(kind)
  BY DEF Carries, RowCalls, PayCalls
<1>3. Carries("admin") = BOOLEAN
  BY DEF Carries, RowCalls, PayCalls
<1>4. \A kind \in PayCalls : Carries(kind) = [mode : {"send", "paid"}, docs : SUBSET Phases]
  BY DEF Carries, RowCalls, PayCalls
<1> QED BY <1>1, <1>2, <1>3, <1>4

LEMMA DocumentActs ==
  ASSUME ToolsTyped, NEW p \in Phases, DocumentEditor(p)
  PROVE  tab = "maksatukset" /\ asked' = asked
         /\ PayGoes(shown.pay.unsent, shown.pay.sending, shown.manual)
<1>1. tab = "maksatukset" /\ asked' = asked
  BY Zenon DEF DocumentEditor, CanAct, Shows
<1>2. shown \in Tab /\ shown.pay \in Pay
  BY DEF ToolsTyped, Tab
<1>3. PICK m \in Pay : m = shown.pay
  BY <1>2
<1>4. PICK docs \in SUBSET Phases : docs = IF p \in m.docs THEN m.docs \ {p} ELSE m.docs \cup {p}
  BY DEF Pay
<1>5. PICK n \in Pay : n = [m EXCEPT !.docs = docs]
  BY DEF Pay
<1>6. n.unsent = m.unsent /\ n.sending = m.sending
  BY <1>5 DEF Pay
<1>7. shown' = [shown EXCEPT !.pay.docs = IF p \in @ THEN @ \ {p} ELSE @ \cup {p}]
  BY Zenon DEF DocumentEditor
<1>8. shown' = [shown EXCEPT !.pay.docs = docs]
  BY <1>2, <1>3, <1>4, <1>7 DEF Tab
<1>9. shown' = [shown EXCEPT !.pay = n]
  BY <1>2, <1>3, <1>5, <1>8 DEF Tab
<1> QED BY <1>1, <1>2, <1>3, <1>6, <1>9, PayKept

LEMMA PaymentsAct ==
  ASSUME ToolsTyped, NEW mode \in {"send", "paid"}, LahtevatMaksatukset(mode)
  PROVE  /\ tab = "maksatukset" /\ PayGoes(shown.pay.unsent, mode, shown.manual)
         /\ shown.pay.sending = Nothing
         /\ \E d, arg : /\ asked' = asked \cup {d} /\ NewAsk(d, "batch", openHaku, arg)
                        /\ arg.mode = mode /\ arg.docs = Phases
<1>1. /\ tab = "maksatukset" /\ shown.pay.sending = Nothing
      /\ shown.pay.docs = Phases
      /\ shown' = [shown EXCEPT !.pay.sending = mode]
      /\ asked' = asked \cup {Ask("batch", openHaku, [mode |-> mode, docs |-> shown.pay.docs])}
  BY Zenon DEF LahtevatMaksatukset, Shows, Nothing
<1>2. shown \in Tab /\ shown.pay \in Pay /\ openHaku \in Haut
  BY DEF ToolsTyped, Tab
<1>3. PICK m \in Pay : m = shown.pay
  BY <1>2
<1>4. PICK n \in Pay : n = [m EXCEPT !.sending = mode]
  BY DEF Pay
<1>5. n.unsent = m.unsent /\ n.sending = mode
  BY <1>4 DEF Pay
<1>6. shown' = [shown EXCEPT !.pay = n]
  BY <1>1, <1>2, <1>3, <1>4 DEF Tab
<1>7. PICK arg \in [mode : {"send", "paid"}, docs : SUBSET Phases] :
        arg = [mode |-> mode, docs |-> shown.pay.docs]
  BY <1>1
<1>8. arg.mode = mode /\ arg.docs = Phases
  BY <1>1, <1>7
<1>9. "batch" \in CallsOf(tab) /\ arg \in Carries("batch")
  BY <1>1, PayKinds DEF PayCalls
<1>10. NewAsk(Ask("batch", openHaku, arg), "batch", openHaku, arg)
  BY <1>2, <1>9, AsksNew
<1>11. asked' = asked \cup {Ask("batch", openHaku, arg)}
  BY <1>1, <1>7
<1>12. PayGoes(m.unsent, mode, shown.manual)
  BY <1>2, <1>5, <1>6, PayKept
<1> QED BY <1>1, <1>3, <1>8, <1>10, <1>11, <1>12

LEMMA BatchGoesOn ==
  ASSUME ToolsTyped, DocumentsLeft, NEW c \in asked, CreatePaymentBatches(c)
  PROVE  /\ tab = "maksatukset" /\ shown' = shown /\ c.kind \in {"batch", "document"} /\ c.at = "answered"
         /\ \E d, left, arg :
              /\ left = IF c.kind = "batch" THEN c.arg.docs ELSE c.arg.docs \ {NextDocument(c)}
              /\ asked' = (asked \ {c}) \cup {d}
              /\ NewAsk(d, IF left = {} THEN "payments" ELSE "document", c.h, arg)
              /\ arg.mode = c.arg.mode /\ arg.docs = left
<1>1. /\ AskOK(c) /\ c.kind \in {"batch", "document"} /\ c.at = "answered" /\ tab \in ToolTabs /\ c.h \in Haut
      /\ shown' = shown
  BY DEF ToolsTyped, CreatePaymentBatches, AskOK
<1>2. tab = "maksatukset" /\ c.arg \in [mode : {"send", "paid"}, docs : SUBSET Phases]
  BY <1>1, AskFacts DEF PayCalls
<1>3. PICK left \in SUBSET Phases :
        left = IF c.kind = "batch" THEN c.arg.docs ELSE c.arg.docs \ {NextDocument(c)}
  BY <1>2
<1>4. PICK old \in [mode : {"send", "paid"}, docs : SUBSET Phases] : old = c.arg
  BY <1>2
<1>5. PICK arg \in [mode : {"send", "paid"}, docs : SUBSET Phases] : arg = [old EXCEPT !.docs = left]
  OBVIOUS
<1>6. arg.mode = c.arg.mode /\ arg.docs = left
  BY <1>4, <1>5
<1>7. PICK kind \in PayCalls : kind = IF left = {} THEN "payments" ELSE "document"
  BY DEF PayCalls
<1>8. kind \in CallsOf(tab) /\ arg \in Carries(kind)
  BY <1>2, PayKinds
<1>9. PICK d : Then(c, kind, c.h, arg) = (asked \ {c}) \cup {d} /\ NewAsk(d, kind, c.h, arg)
  BY <1>1, <1>8, ThenNew
<1>10. asked' = Then(c, kind, c.h, arg)
  BY <1>3, <1>4, <1>5, <1>7 DEF CreatePaymentBatches
<1> QED BY <1>1, <1>2, <1>3, <1>6, <1>7, <1>9, <1>10

LEMMA PaymentsDone ==
  ASSUME ToolsTyped, NEW c \in asked, PaymentsAnswered(c)
  PROVE  /\ tab = "maksatukset" /\ c.kind = "payments" /\ c.at = "answered"
         /\ PayGoes(shown.pay.unsent, IF c.arg.mode = "paid" THEN shown.pay.sending ELSE Nothing, shown.manual)
         /\ \E d : asked' = (asked \ {c}) \cup {d} /\ NewAsk(d, "getPayments", c.h, {})
<1>1. /\ AskOK(c) /\ c.kind = "payments" /\ c.at = "answered" /\ tab \in ToolTabs /\ c.h \in Haut
      /\ shown \in Tab /\ shown.pay \in Pay
  <2>1. c.kind = "payments" /\ c.at = "answered"
    BY Zenon DEF PaymentsAnswered
  <2> QED BY <2>1 DEF ToolsTyped, AskOK, Tab
<1>2. tab = "maksatukset"
  BY <1>1, AskFacts DEF PayCalls
<1>3. PICK m \in Pay : m = shown.pay
  BY <1>1
<1>4. shown' = [shown EXCEPT !.pay.sending = IF c.arg.mode = "paid" THEN @ ELSE Nothing]
  BY Zenon DEF PaymentsAnswered, Nothing
<1>5. PICK sending \in {Nothing, "send", "paid"} : sending = IF c.arg.mode = "paid" THEN m.sending ELSE Nothing
  BY DEF Pay
<1>6. PICK n \in Pay : n = [m EXCEPT !.sending = sending]
  BY DEF Pay
<1>7. n.unsent = m.unsent /\ n.sending = sending
  BY <1>6 DEF Pay
<1>8. shown' = [shown EXCEPT !.pay = n]
  BY <1>1, <1>3, <1>4, <1>5, <1>6 DEF Tab
<1>9. PayGoes(m.unsent, sending, shown.manual)
  BY <1>1, <1>7, <1>8, PayKept
<1>10. "getPayments" \in CallsOf(tab) /\ {} \in Carries("getPayments")
  BY <1>2, PayKinds
<1>11. \E d : Then(c, "getPayments", c.h, {}) = (asked \ {c}) \cup {d} /\ NewAsk(d, "getPayments", c.h, {})
  BY <1>1, <1>10, ThenNew
<1>12. asked' = Then(c, "getPayments", c.h, {})
  BY Zenon DEF PaymentsAnswered
<1> QED BY <1>1, <1>2, <1>3, <1>5, <1>9, <1>11, <1>12

LEMMA PaymentsCome ==
  ASSUME ToolsTyped, NEW c \in asked, MaksatuksetPage(c) \/ AdminRefreshed(c)
  PROVE  /\ tab = "maksatukset" /\ c.kind \in {"getPayments", "adminRefresh"} /\ c.at = "answered"
         /\ asked' = asked \ {c} /\ c.got \in BOOLEAN
         /\ PayGoes(c.got, shown.pay.sending, shown.manual /\ c.kind # "adminRefresh")
<1>1. /\ AskOK(c) /\ c.kind \in {"getPayments", "adminRefresh"} /\ c.at = "answered" /\ tab \in ToolTabs
      /\ c.h \in Haut /\ shown \in Tab /\ shown.pay \in Pay /\ shown.manual \in BOOLEAN
      /\ asked' = asked \ {c}
  BY DEF ToolsTyped, AskOK, Tab, MaksatuksetPage, AdminRefreshed
<1>2. tab = "maksatukset" /\ c.got \in BOOLEAN
  BY <1>1, AskFacts DEF PayCalls
<1>3. PICK m \in Pay : m = shown.pay
  BY <1>1
<1>4. PICK got \in BOOLEAN : got = c.got
  BY <1>2
<1>5. PICK n \in Pay : n = [m EXCEPT !.unsent = got]
  BY DEF Pay
<1>6. n.unsent = got /\ n.sending = m.sending
  BY <1>5 DEF Pay
<1>7. PICK manual \in BOOLEAN : manual = (shown.manual /\ c.kind # "adminRefresh")
  OBVIOUS
<1>8. CASE MaksatuksetPage(c)
  <2>1. shown' = [shown EXCEPT !.pay = n]
    BY <1>1, <1>3, <1>4, <1>5, <1>8 DEF Tab, MaksatuksetPage
  <2>2. PayGoes(got, m.sending, shown.manual)
    BY <1>1, <1>6, <2>1, PayKept
  <2>3. manual = shown.manual
    BY <1>1, <1>7, <1>8 DEF MaksatuksetPage
  <2> QED BY <1>1, <1>2, <1>3, <1>4, <1>7, <2>2, <2>3
<1>9. CASE AdminRefreshed(c)
  <2>0. manual = FALSE
    BY <1>7, <1>9 DEF AdminRefreshed
  <2>1. shown' = [shown EXCEPT !.pay = n, !.manual = manual]
    BY <1>1, <1>3, <1>4, <1>5, <1>9, <2>0 DEF Tab, AdminRefreshed
  <2>a. PayIs(n, manual)
    BY <1>1, <2>1 DEF Tab, PayIs, TabIs
  <2>2. PayGoes(got, m.sending, manual)
    BY <1>6, <2>a DEF PayGoes
  <2> QED BY <1>1, <1>2, <1>3, <1>4, <1>7, <2>2
<1> QED BY <1>8, <1>9

LEMMA AdminActs ==
  ASSUME ToolsTyped, NEW make \in BOOLEAN, AdminTools(make)
  PROVE  /\ tab = "maksatukset" /\ ManualIs(TRUE)
         /\ \E d : asked' = asked \cup {d} /\ NewAsk(d, "admin", openHaku, make)
<1>1. /\ tab = "maksatukset" /\ openHaku \in Haut /\ shown \in Tab
      /\ shown' = [shown EXCEPT !.manual = TRUE]
      /\ asked' = asked \cup {Ask("admin", openHaku, make)}
  BY DEF AdminTools, CanAct, Shows, ToolsTyped
<1>2. ManualIs(TRUE)
  BY <1>1, ManualChanges
<1>3. "admin" \in CallsOf(tab) /\ make \in Carries("admin")
  BY <1>1, PayKinds
<1>4. NewAsk(Ask("admin", openHaku, make), "admin", openHaku, make)
  BY <1>1, <1>3, AsksNew
<1> QED BY <1>1, <1>2, <1>4

LEMMA AdminAnswers ==
  ASSUME ToolsTyped, NEW c \in asked, AdminAnswered(c)
  PROVE  /\ tab = "maksatukset" /\ shown' = shown /\ c.kind = "admin" /\ c.at = "answered"
         /\ \E d : asked' = (asked \ {c}) \cup {d} /\ NewAsk(d, "adminRefresh", c.h, {})
<1>1. /\ AskOK(c) /\ c.kind = "admin" /\ c.at = "answered" /\ tab \in ToolTabs /\ c.h \in Haut
      /\ shown' = shown /\ asked' = Then(c, "adminRefresh", c.h, {})
  BY DEF ToolsTyped, AskOK, AdminAnswered
<1>2. tab = "maksatukset"
  BY <1>1, AskFacts DEF PayCalls
<1>3. "adminRefresh" \in CallsOf(tab) /\ {} \in Carries("adminRefresh")
  BY <1>2, PayKinds
<1>4. \E d : Then(c, "adminRefresh", c.h, {}) = (asked \ {c}) \cup {d} /\ NewAsk(d, "adminRefresh", c.h, {})
  BY <1>1, <1>3, ThenNew
<1> QED BY <1>1, <1>2, <1>4

\* The requests for reports after a step: whether one is being sent, of which grant the count
\* and the log are.
ReportGoes(sending, count, log) ==
  \E report \in Report :
    ReportIs(report) /\ report.sending = sending /\ report.count = count /\ report.log = log

LEMMA ReportMoves ==
  ASSUME shown \in Tab, NEW report \in Report, shown' = [shown EXCEPT !.report = report]
  PROVE  ReportGoes(report.sending, report.count, report.log)
BY ReportChanges DEF ReportGoes

LEMMA ReportActs ==
  ASSUME ToolsTyped, OnSendSelvitys
  PROVE  /\ tab = "selvitys" /\ ReportGoes(TRUE, shown.report.count, shown.report.log)
         /\ \E d : asked' = asked \cup {d} /\ NewAsk(d, "notify", openHaku, {})
<1>1. /\ tab = "selvitys" /\ openHaku \in Haut /\ shown \in Tab /\ shown.report \in Report
      /\ shown' = [shown EXCEPT !.report.sending = TRUE]
      /\ asked' = asked \cup {Ask("notify", openHaku, {})}
  BY DEF OnSendSelvitys, CanAct, Shows, ToolsTyped, Tab
<1>2. PICK m \in Report : m = shown.report
  BY <1>1
<1>3. PICK yes \in BOOLEAN : yes = TRUE
  OBVIOUS
<1>4. PICK n \in Report : n = [m EXCEPT !.sending = yes]
  BY DEF Report
<1>5. n.sending = yes /\ n.count = m.count /\ n.log = m.log
  BY <1>4 DEF Report
<1>6. shown' = [shown EXCEPT !.report = n]
  BY <1>1, <1>2, <1>3, <1>4 DEF Tab
<1>7. ReportGoes(yes, m.count, m.log)
  BY <1>1, <1>5, <1>6, ReportMoves
<1>8. "notify" \in CallsOf(tab) /\ {} \in Carries("notify")
  BY <1>1 DEF CallsOf, Carries, RowCalls, PayCalls
<1>9. NewAsk(Ask("notify", openHaku, {}), "notify", openHaku, {})
  BY <1>1, <1>8, AsksNew
<1> QED BY <1>1, <1>2, <1>3, <1>7, <1>9

LEMMA ReportSent ==
  ASSUME ToolsTyped, NEW c \in asked, SelvitysSent(c)
  PROVE  /\ tab = "selvitys" /\ c.kind = "notify" /\ c.at = "answered" /\ ReportGoes(FALSE, c.h, NoHaku)
         /\ \E d : asked' = (asked \ {c}) \cup {d} /\ NewAsk(d, "getLog", c.h, {})
<1>1. /\ AskOK(c) /\ c.kind = "notify" /\ c.at = "answered" /\ c.h \in Haut /\ tab \in ToolTabs /\ shown \in Tab
      /\ shown' = [shown EXCEPT !.report = [sending |-> FALSE, count |-> c.h, log |-> NoHaku]]
      /\ asked' = Then(c, "getLog", c.h, {})
  BY DEF SelvitysSent, ToolsTyped, AskOK
<1>2. tab = "selvitys"
  BY <1>1, AskFacts
<1>3. PICK n \in Report : n = [sending |-> FALSE, count |-> c.h, log |-> NoHaku]
  BY <1>1 DEF Report
<1>4. n.sending = FALSE /\ n.count = c.h /\ n.log = NoHaku
  BY <1>3
<1>5. ReportGoes(n.sending, n.count, n.log)
  BY <1>1, <1>3, ReportMoves
<1>6. "getLog" \in CallsOf(tab) /\ {} \in Carries("getLog")
  BY <1>2 DEF CallsOf, Carries, RowCalls, PayCalls
<1>7. \E d : Then(c, "getLog", c.h, {}) = (asked \ {c}) \cup {d} /\ NewAsk(d, "getLog", c.h, {})
  BY <1>1, <1>6, ThenNew
<1> QED BY <1>1, <1>2, <1>4, <1>5, <1>7

LEMMA LogComes ==
  ASSUME ToolsTyped, NEW c \in asked, FetchTapahtumaloki(c)
  PROVE  /\ tab = "selvitys" /\ c.kind = "getLog" /\ c.at = "answered" /\ asked' = asked \ {c}
         /\ ReportGoes(shown.report.sending, shown.report.count, c.h)
<1>1. /\ AskOK(c) /\ c.kind = "getLog" /\ c.at = "answered" /\ c.h \in Haut /\ tab \in ToolTabs /\ shown \in Tab
      /\ shown' = [shown EXCEPT !.report.log = c.h] /\ shown.report \in Report
      /\ asked' = asked \ {c}
  BY DEF FetchTapahtumaloki, ToolsTyped, AskOK, Tab
<1>2. tab = "selvitys"
  BY <1>1, AskFacts
<1>3. PICK m \in Report : m = shown.report
  BY <1>1
<1>4. PICK n \in Report : n = [m EXCEPT !.log = c.h]
  BY <1>1 DEF Report
<1>5. n.sending = m.sending /\ n.count = m.count /\ n.log = c.h
  BY <1>4 DEF Report
<1>6. shown' = [shown EXCEPT !.report = n]
  BY <1>1, <1>3, <1>4 DEF Tab
<1>7. ReportGoes(n.sending, n.count, n.log)
  BY <1>6, <1>1, ReportMoves
<1> QED BY <1>1, <1>2, <1>3, <1>5, <1>7

LEMMA NoMailIs ==
  NoMail \in Mail /\ NoMail.of = NoHaku /\ NoMail.sent = FALSE /\ NoMail.sending = FALSE
<1>1. NoMail = [of |-> NoHaku, sent |-> FALSE, preview |-> FALSE, sending |-> FALSE,
                resend |-> Nothing, regenerate |-> Nothing]
  BY Zenon DEF NoMail, Nothing
<1> QED BY <1>1 DEF Mail

\* The request that opening a grant makes.
LEMMA FetchesOf ==
  ASSUME tab \in ToolTabs
  PROVE  /\ Fetches(tab) \in CallsOf(tab) /\ {} \in Carries(Fetches(tab))
         /\ Fetches(tab) \in {"getLaki", "getRows", "getSent", "getPayments", "getLog"}
<1>1. \A t \in ToolTabs : Fetches(t) \in CallsOf(t) /\ Fetches(t) \in {"getLaki", "getRows", "getSent", "getPayments", "getLog"}
  BY DEF ToolTabs, Fetches, CallsOf, LakiCalls
<1>2. \A kind \in {"getLaki", "getRows", "getSent", "getPayments", "getLog"} : {} \in Carries(kind)
  BY DEF Carries, RowCalls, PayCalls
<1> QED BY <1>1, <1>2

LEMMA HakuOpens ==
  ASSUME ToolsTyped, NEW h \in Haut, OpenHaku(h)
  PROVE  /\ openHaku' = h /\ openHaku # h
         /\ \E mail, report :
              /\ TabIs(shown.laki, shown.manual, shown.rows, shown.keys, shown.delays, mail, shown.pay, report)
              /\ ~mail.sending /\ ~report.sending /\ report.count = NoHaku
         /\ \E d : asked' = asked \cup {d} /\ NewAsk(d, Fetches(tab), h, {})
<1>1. /\ tab \in ToolTabs /\ shown \in Tab /\ openHaku' = h /\ openHaku # h
      /\ shown' = [shown EXCEPT !.mail = NoMail,
                     !.report = [sending |-> FALSE, count |-> NoHaku, log |-> NoHaku]]
      /\ asked' = asked \cup {Ask(Fetches(tab), h, {})}
  BY DEF OpenHaku, ToolsTyped
<1>2. PICK mail \in Mail : mail = NoMail /\ ~mail.sending
  BY NoMailIs
<1>3. PICK report \in Report : report = [sending |-> FALSE, count |-> NoHaku, log |-> NoHaku]
  BY DEF Report
<1>4. ~report.sending /\ report.count = NoHaku
  BY <1>3
<1>5. TabIs(shown.laki, shown.manual, shown.rows, shown.keys, shown.delays, mail, shown.pay, report)
  BY <1>1, <1>2, <1>3 DEF Tab, TabIs
<1>6. NewAsk(Ask(Fetches(tab), h, {}), Fetches(tab), h, {})
  BY <1>1, FetchesOf, AsksNew
<1> QED BY <1>1, <1>2, <1>4, <1>5, <1>6

LEMMA ServerAnswers ==
  ASSUME ToolsTyped, NEW c \in asked, AnswerTool(c)
  PROVE  /\ c.at \notin {"listed", "posted", "answered"}
         /\ c.kind \in {"getLaki", "getRows", "getSent", "getLog", "getPayments", "adminRefresh",
                        "resendall", "regenerate", "notify", "sendall"}
         /\ \E d : asked' = (asked \ {c}) \cup {d} /\ GoesOn(d, c, "answered", Found(c))
<1>1. /\ AskOK(c) /\ c.at \notin {"listed", "posted", "answered"} /\ c.h \in Haut /\ stored \in Kept /\ tab \in ToolTabs
      /\ c.kind \in {"getLaki", "getRows", "getSent", "getLog", "getPayments", "adminRefresh",
                     "resendall", "regenerate", "notify", "sendall"}
      /\ asked' = (asked \ {c}) \cup {[c EXCEPT !.at = "answered", !.got = Found(c)]}
  BY DEF ToolsTyped, AskOK, AnswerTool
<1>2. Found(c) \in Brought(c.kind)
  BY <1>1 DEF Found, Brought, Kept, RowsOf
<1>3. PICK got : got = Found(c)
  OBVIOUS
<1>4. PICK d : d = [c EXCEPT !.at = "answered", !.got = got]
  OBVIOUS
<1>5. GoesOn(d, c, "answered", got)
  <2>1. c \in [id : {c.id}, kind : {c.kind}, h : {c.h}, at : {c.at}, arg : {c.arg}, got : {c.got}]
    BY <1>1 DEF AskOK
  <2>2. d \in [id : {c.id}, kind : {c.kind}, h : {c.h}, at : {"answered"}, arg : {c.arg}, got : {got}]
    BY <1>4, <2>1
  <2> QED BY <1>1, <1>2, <1>3, <2>2, AskGoesOn
<1> QED BY <1>1, <1>3, <1>4, <1>5

\* What the page is told of a failure leaves what is typed.
LEMMA FailureTold ==
  ASSUME ToolsTyped, NEW c \in asked, ToolFails(c)
  PROVE  /\ shown' \in Tab /\ shown'.delays = shown.delays
         /\ \/ asked' = asked \ {c}
            \/ \E d, h, kind : /\ asked' = (asked \ {c}) \cup {d}
                               /\ kind \in {"getRows", "getSent"} /\ NewAsk(d, kind, h, {})
<1>1. /\ AskOK(c) /\ shown \in Tab /\ tab \in ToolTabs /\ openHaku \in Haut
      /\ shown' = Told(c) /\ asked' = AfterFailure(c)
  BY DEF ToolsTyped, ToolFails
<1>2. /\ shown.mail \in Mail /\ shown.pay \in Pay
  BY <1>1 DEF Tab
<1>3. PICK no \in BOOLEAN : no = FALSE
  OBVIOUS
<1>4. PICK nothing \in {Nothing, "resending", "completed"} \cap {Nothing, "send", "paid"} : nothing = Nothing
  OBVIOUS
<1>5. Told(c) \in {[shown EXCEPT !.manual = no], [shown EXCEPT !.mail.sending = no],
                   [shown EXCEPT !.mail.resend = nothing], [shown EXCEPT !.pay.sending = nothing], shown}
  <2>1. \/ Told(c) = [shown EXCEPT !.manual = FALSE] \/ Told(c) = [shown EXCEPT !.mail.sending = FALSE]
        \/ Told(c) = [shown EXCEPT !.mail.resend = Nothing] \/ Told(c) = [shown EXCEPT !.pay.sending = Nothing]
        \/ Told(c) = shown
    <3> DEFINE A == c.kind \in RowCalls
               B == c.kind = "sendall"
               C == c.kind = "resendall" /\ c.h = openHaku
               D == c.kind \in {"batch", "document", "payments"}
    <3>1. Told(c) = CASE A -> [shown EXCEPT !.manual = FALSE]
                      [] B -> [shown EXCEPT !.mail.sending = FALSE]
                      [] C -> [shown EXCEPT !.mail.resend = Nothing]
                      [] D -> [shown EXCEPT !.pay.sending = Nothing]
                      [] OTHER -> shown
      BY Zenon DEF Told, Nothing
    <3> HIDE DEF A, B, C, D
    <3> QED BY <3>1
  <2> QED BY <1>3, <1>4, <2>1
<1>6. shown' \in Tab /\ shown'.delays = shown.delays
  <2>1. CASE Told(c) = [shown EXCEPT !.manual = no]
    BY <1>1, <2>1 DEF Tab
  <2>2. CASE Told(c) = [shown EXCEPT !.mail.sending = no]
    BY <1>1, <2>2 DEF Tab, Mail
  <2>3. CASE Told(c) = [shown EXCEPT !.mail.resend = nothing]
    BY <1>1, <2>3 DEF Tab, Mail
  <2>4. CASE Told(c) = [shown EXCEPT !.pay.sending = nothing]
    BY <1>1, <2>4 DEF Tab, Pay
  <2>5. CASE Told(c) = shown
    BY <1>1, <2>5
  <2> QED BY <1>5, <2>1, <2>2, <2>3, <2>4, <2>5
<1>7. CASE c.kind \in RowCalls
  <2>1. tab = "velvoitteet"
    BY <1>1, <1>7, AskFacts
  <2>2. "getRows" \in CallsOf(tab) /\ {} \in Carries("getRows")
    BY <2>1 DEF CallsOf, Carries, RowCalls, PayCalls
  <2>3. PICK d : Then(c, "getRows", openHaku, {}) = (asked \ {c}) \cup {d} /\ NewAsk(d, "getRows", openHaku, {})
    BY <1>1, <2>2, ThenNew
  <2>4. asked' = Then(c, "getRows", openHaku, {})
    BY <1>1, <1>7 DEF AfterFailure
  <2>5. "getRows" \in {"getRows", "getSent"}
    OBVIOUS
  <2> QED BY <1>6, <2>3, <2>4, <2>5
<1>8. CASE c.kind \notin RowCalls /\ c.kind = "resendall" /\ c.h = openHaku
  <2>1. tab = "paatokset"
    BY <1>1, <1>8, AskFacts DEF MailCalls
  <2>2. "getSent" \in CallsOf(tab) /\ {} \in Carries("getSent")
    BY <2>1, MailKinds
  <2>3. PICK d : Then(c, "getSent", openHaku, {}) = (asked \ {c}) \cup {d} /\ NewAsk(d, "getSent", openHaku, {})
    BY <1>1, <2>2, ThenNew
  <2>4. asked' = Then(c, "getSent", openHaku, {})
    BY <1>1, <1>8 DEF AfterFailure
  <2>5. "getSent" \in {"getRows", "getSent"}
    OBVIOUS
  <2> QED BY <1>6, <2>3, <2>4, <2>5
<1>9. CASE c.kind \notin RowCalls /\ ~(c.kind = "resendall" /\ c.h = openHaku)
  BY <1>1, <1>6, <1>9 DEF AfterFailure
<1> QED BY <1>7, <1>8, <1>9

-----------------------------------------------------------------------------
(* The tools of the grant editor: types, of every step                       *)

Counts ==
  \/ toolsUsed' = toolsUsed \/ Spending
  \/ toolsUsed' = [toolsUsed EXCEPT !.failures = @ + 1]
Whys == \/ why' = why \/ why' = why \cup {"failed", "unmarked"}
        \/ \E what \in Reasons : why' = why \cup {what}
\* The requests that a step adds.
AsksOnly ==
  \A c \in asked' : c \in asked \/ (AskOK(c) /\ (c.kind = "document" => c.arg.docs # {}))
\* What most steps leave.
Keeps == openHaku' = openHaku /\ stored' = stored /\ clicked' = clicked

LEMMA TypedAgain ==
  ASSUME ToolsTyped, DocumentsLeft, tab' = tab, openHaku' \in Haut, shown' \in Tab, stored' \in Kept,
         clicked' \in [Haut -> SUBSET Lait], Counts, Whys,
         shown'.delays = shown.delays \/ tab = "velvoitteet", AsksOnly
  PROVE  ToolsTyped' /\ DocumentsLeft'
<1>1. \A c \in asked' : AskOK(c)'
  BY AskStays DEF AsksOnly, ToolsTyped
<1>2. DocumentsLeft'
  BY DEF DocumentsLeft, AsksOnly
<1>3. toolsUsed' \in [acts : Nat, failures : Nat]
  <2>1. toolsUsed \in [acts : Nat, failures : Nat]
    BY DEF ToolsTyped
  <2>2. PICK a \in Nat : a = toolsUsed.acts + 1
    BY <2>1
  <2>3. PICK f \in Nat : f = toolsUsed.failures + 1
    BY <2>1
  <2>4. toolsUsed' \in {toolsUsed, [toolsUsed EXCEPT !.acts = a], [toolsUsed EXCEPT !.failures = f]}
    BY <2>2, <2>3 DEF Counts, Spending
  <2> QED BY <2>1, <2>4
<1>4. why' \subseteq Reasons
  BY DEF Whys, Reasons, ToolsTyped
<1> QED BY <1>1, <1>2, <1>3, <1>4 DEF ToolsTyped

LEMMA NewAnswers ==
  ASSUME NEW d, NEW kind, NEW h, NEW arg, NewAsk(d, kind, h, arg), kind = "document" => arg.docs # {},
         asked' = asked \cup {d} \/ \E c \in asked : asked' = (asked \ {c}) \cup {d}
  PROVE  AsksOnly
BY DEF NewAsk, AsksOnly

LEMMA GoneOnAnswers ==
  ASSUME DocumentsLeft, NEW c \in asked, NEW d, NEW at, NEW got, GoesOn(d, c, at, got),
         asked' = (asked \ {c}) \cup {d}
  PROVE  AsksOnly
BY DEF GoesOn, AsksOnly, DocumentsLeft

LEMMA DroppedAnswers ==
  ASSUME asked' = asked \/ \E c \in asked : asked' = asked \ {c}
  PROVE  AsksOnly
BY DEF AsksOnly

LEMMA ToolStepTyped ==
  ASSUME ToolsTyped, DocumentsLeft, ToolsNext
  PROVE  ToolsTyped' /\ DocumentsLeft'
<1>0. /\ openHaku \in Haut /\ stored \in Kept /\ clicked \in [Haut -> SUBSET Lait] /\ shown \in Tab
  BY DEF ToolsTyped
<1> DEFINE ToolsStepTyped ==
             /\ tab' = tab /\ openHaku' \in Haut /\ shown' \in Tab /\ stored' \in Kept
             /\ clicked' \in [Haut -> SUBSET Lait] /\ Counts /\ Whys
             /\ shown'.delays = shown.delays \/ tab = "velvoitteet"
             /\ AsksOnly
<1>a. ToolsStepTyped => ToolsTyped' /\ DocumentsLeft'
  BY TypedAgain, SMTT(40)
<1>1. ASSUME NEW l \in Lait, Lainsaadanto(l) PROVE ToolsStepTyped
  <2>1. tab' = tab /\ Counts /\ Whys /\ openHaku' = openHaku /\ stored' = stored
    BY <1>1, Zenon DEF Lainsaadanto, Counts, Whys, Reasons, Hurry, Hurried, Act
  <2>2. AsksOnly
    BY <1>1, LakiActs, NewAnswers
  <2>3. shown' \in Tab /\ shown'.delays = shown.delays /\ clicked' \in [Haut -> SUBSET Lait]
    BY <1>1, LakiActs DEF ManualIs, TabIs
  <2> QED BY <1>0, <2>1, <2>2, <2>3
<1>2. ASSUME NEW i \in DOMAIN shown.rows, Raportointivelvoite(i) PROVE ToolsStepTyped
  <2>1. tab' = tab /\ Counts /\ Whys /\ Keeps
    BY <1>2, Zenon DEF Raportointivelvoite, Counts, Whys, Reasons, Keeps, Hurry, Hurried, Act, RowsGo, Note
  <2>2. AsksOnly
    BY <1>2, RowActs, DroppedAnswers
  <2>3. shown' \in Tab /\ (shown'.delays = shown.delays \/ tab = "velvoitteet")
    BY <1>2, <1>0, RowActs DEF Edits, TabIs
  <2> QED BY <1>0, <2>1, <2>2, <2>3 DEF Keeps
<1>3. ASSUME NEW i \in DOMAIN shown.rows, DeleteRaportointivelvoite(i) PROVE ToolsStepTyped
  <2>1. tab' = tab /\ Counts /\ Whys /\ Keeps
    BY <1>3, Zenon DEF DeleteRaportointivelvoite, Counts, Whys, Reasons, Keeps, Hurry, Hurried, Act, RowsGo, Note
  <2>2. AsksOnly
    BY <1>3, DeleteActs, NewAnswers
  <2>3. shown' \in Tab /\ (shown'.delays = shown.delays \/ tab = "velvoitteet")
    BY <1>3, <1>0, DeleteActs DEF ManualIs, TabIs
  <2> QED BY <1>0, <2>1, <2>2, <2>3 DEF Keeps
<1>4. ASSUME NEW d \in shown.delays, DebouncedRaportointivelvoite(d) PROVE ToolsStepTyped
  <2>1. tab' = tab /\ Counts /\ Whys /\ Keeps
    BY <1>4, Zenon DEF DebouncedRaportointivelvoite, Counts, Whys, Reasons, Keeps, Hurry, Hurried, Act, RowsGo, Note
  <2>2. AsksOnly
    BY <1>4, DelayEnds, NewAnswers
  <2>3. shown' \in Tab /\ (shown'.delays = shown.delays \/ tab = "velvoitteet")
    BY <1>4, <1>0, DelayEnds DEF TabIs
  <2> QED BY <1>0, <2>1, <2>2, <2>3 DEF Keeps
<1>5. ASSUME OnPreview PROVE ToolsStepTyped
  <2>1. tab' = tab /\ Counts /\ Whys /\ Keeps
    BY <1>5, Zenon DEF OnPreview, Counts, Whys, Reasons, Keeps, Hurry, Hurried, Act, RowsGo, Note
  <2>2. AsksOnly
    BY <1>5, PreviewActs, DroppedAnswers
  <2>3. shown' \in Tab /\ (shown'.delays = shown.delays \/ tab = "velvoitteet")
    BY <1>5, <1>0, PreviewActs DEF MailSame, MailGoes, MailIs, TabIs
  <2> QED BY <1>0, <2>1, <2>2, <2>3 DEF Keeps
<1>6. ASSUME PreviewEnds PROVE ToolsStepTyped
  <2>1. tab' = tab /\ Counts /\ Whys /\ Keeps
    BY <1>6, Zenon DEF PreviewEnds, Counts, Whys, Reasons, Keeps, Hurry, Hurried, Act, RowsGo, Note
  <2>2. AsksOnly
    BY <1>6, PreviewActs, DroppedAnswers
  <2>3. shown' \in Tab /\ (shown'.delays = shown.delays \/ tab = "velvoitteet")
    BY <1>6, <1>0, PreviewActs DEF MailSame, MailGoes, MailIs, TabIs
  <2> QED BY <1>0, <2>1, <2>2, <2>3 DEF Keeps
<1>7. ASSUME DecisionDateAndSend PROVE ToolsStepTyped
  <2>1. tab' = tab /\ Counts /\ Whys /\ Keeps
    BY <1>7, Zenon DEF DecisionDateAndSend, Counts, Whys, Reasons, Keeps, Hurry, Hurried, Act, RowsGo, Note
  <2>2. AsksOnly
    BY <1>7, SendActs, NewAnswers
  <2>3. shown' \in Tab /\ (shown'.delays = shown.delays \/ tab = "velvoitteet")
    BY <1>7, <1>0, SendActs DEF MailGoes, MailIs, TabIs
  <2> QED BY <1>0, <2>1, <2>2, <2>3 DEF Keeps
<1>8. ASSUME ResendDecisions PROVE ToolsStepTyped
  <2>1. tab' = tab /\ Counts /\ Whys /\ Keeps
    BY <1>8, Zenon DEF ResendDecisions, Counts, Whys, Reasons, Keeps, Hurry, Hurried, Act, RowsGo, Note
  <2>2. AsksOnly
    BY <1>8, ResendActs, NewAnswers
  <2>3. shown' \in Tab /\ (shown'.delays = shown.delays \/ tab = "velvoitteet")
    BY <1>8, <1>0, ResendActs DEF MailSame, MailGoes, MailIs, TabIs
  <2> QED BY <1>0, <2>1, <2>2, <2>3 DEF Keeps
<1>9. ASSUME RegenerateDecisions PROVE ToolsStepTyped
  <2>1. tab' = tab /\ Counts /\ Whys /\ Keeps
    BY <1>9, Zenon DEF RegenerateDecisions, Counts, Whys, Reasons, Keeps, Hurry, Hurried, Act, RowsGo, Note
  <2>2. AsksOnly
    BY <1>9, ResendActs, NewAnswers
  <2>3. shown' \in Tab /\ (shown'.delays = shown.delays \/ tab = "velvoitteet")
    BY <1>9, <1>0, ResendActs DEF MailSame, MailGoes, MailIs, TabIs
  <2> QED BY <1>0, <2>1, <2>2, <2>3 DEF Keeps
<1>10. ASSUME NEW p \in Phases, DocumentEditor(p) PROVE ToolsStepTyped
  <2>1. tab' = tab /\ Counts /\ Whys /\ Keeps
    BY <1>10, Zenon DEF DocumentEditor, Counts, Whys, Reasons, Keeps, Hurry, Hurried, Act, RowsGo, Note
  <2>2. AsksOnly
    BY <1>10, DocumentActs, DroppedAnswers
  <2>3. shown' \in Tab /\ (shown'.delays = shown.delays \/ tab = "velvoitteet")
    BY <1>10, <1>0, DocumentActs DEF PayGoes, PayIs, TabIs
  <2> QED BY <1>0, <2>1, <2>2, <2>3 DEF Keeps
<1>11. ASSUME NEW mode \in {"send", "paid"}, LahtevatMaksatukset(mode) PROVE ToolsStepTyped
  <2>1. tab' = tab /\ Counts /\ Whys /\ Keeps
    BY <1>11, Zenon DEF LahtevatMaksatukset, Counts, Whys, Reasons, Keeps, Hurry, Hurried, Act, RowsGo, Note
  <2>2. AsksOnly
    BY <1>11, PaymentsAct, NewAnswers
  <2>3. shown' \in Tab /\ (shown'.delays = shown.delays \/ tab = "velvoitteet")
    BY <1>11, <1>0, PaymentsAct DEF PayGoes, PayIs, TabIs
  <2> QED BY <1>0, <2>1, <2>2, <2>3 DEF Keeps
<1>12. ASSUME NEW make \in BOOLEAN, AdminTools(make) PROVE ToolsStepTyped
  <2>1. tab' = tab /\ Counts /\ Whys /\ Keeps
    BY <1>12, Zenon DEF AdminTools, Counts, Whys, Reasons, Keeps, Hurry, Hurried, Act, RowsGo, Note
  <2>2. AsksOnly
    BY <1>12, AdminActs, NewAnswers
  <2>3. shown' \in Tab /\ (shown'.delays = shown.delays \/ tab = "velvoitteet")
    BY <1>12, <1>0, AdminActs DEF ManualIs, TabIs
  <2> QED BY <1>0, <2>1, <2>2, <2>3 DEF Keeps
<1>13. ASSUME OnSendSelvitys PROVE ToolsStepTyped
  <2>1. tab' = tab /\ Counts /\ Whys /\ Keeps
    BY <1>13, Zenon DEF OnSendSelvitys, Counts, Whys, Reasons, Keeps, Hurry, Hurried, Act, RowsGo, Note
  <2>2. AsksOnly
    BY <1>13, ReportActs, NewAnswers
  <2>3. shown' \in Tab /\ (shown'.delays = shown.delays \/ tab = "velvoitteet")
    BY <1>13, <1>0, ReportActs DEF ReportGoes, ReportIs, TabIs
  <2> QED BY <1>0, <2>1, <2>2, <2>3 DEF Keeps
<1>14. ASSUME NEW h \in Haut, OpenHaku(h) PROVE ToolsStepTyped
  <2>1. tab' = tab /\ Counts /\ Whys /\ stored' = stored /\ clicked' = clicked
    BY <1>14, Zenon DEF OpenHaku, Counts, Whys, Reasons, RowsGo, Hurried
  <2>2. AsksOnly
    BY <1>14, <1>0, HakuOpens, FetchesOf, NewAnswers DEF ToolsTyped
  <2>3. shown' \in Tab /\ shown'.delays = shown.delays /\ openHaku' \in Haut
    BY <1>14, HakuOpens DEF TabIs
  <2> QED BY <1>0, <2>1, <2>2, <2>3
<1>15. ASSUME NEW c \in asked, AnswerTool(c) PROVE ToolsStepTyped
  <2>1. tab' = tab /\ Counts /\ Whys /\ Keeps
    BY <1>15, Zenon DEF AnswerTool, Counts, Whys, Reasons, Keeps, Hurry, Hurried, Act, RowsGo, Note
  <2>3. shown' = shown
    BY <1>15, Zenon DEF AnswerTool
  <2>2. AsksOnly
    BY <1>15, ServerAnswers, GoneOnAnswers
  <2> QED BY <1>0, <2>1, <2>2, <2>3 DEF Keeps
<1>16. ASSUME NEW c \in asked, StoreTool(c) PROVE ToolsStepTyped
  <2>1. tab' = tab /\ Counts /\ Whys /\ openHaku' = openHaku /\ clicked' = clicked
    BY <1>16, Zenon DEF StoreTool, Counts, Whys, Reasons, Keeps, Hurry, Hurried, Act, RowsGo, Note
  <2>3. shown' = shown
    BY <1>16, Zenon DEF StoreTool
  <2>2. AsksOnly /\ stored' \in Kept
    BY <1>16, StoreToolDoes, GoneOnAnswers
  <2> QED BY <1>0, <2>1, <2>2, <2>3
<1>17. ASSUME NEW c \in asked, GetHakemusIdsToSend(c) PROVE ToolsStepTyped
  <2>1. tab' = tab /\ Counts /\ Whys /\ Keeps
    BY <1>17, Zenon DEF GetHakemusIdsToSend, Counts, Whys, Reasons, Keeps, Hurry, Hurried, Act, RowsGo, Note
  <2>3. shown' = shown
    BY <1>17, Zenon DEF GetHakemusIdsToSend
  <2>2. AsksOnly
    BY <1>17, ListsToSend, GoneOnAnswers
  <2> QED BY <1>0, <2>1, <2>2, <2>3 DEF Keeps
<1>18. ASSUME NEW c \in asked, SendPaatosForAll(c) PROVE ToolsStepTyped
  <2>1. tab' = tab /\ openHaku' = openHaku /\ clicked' = clicked
    BY <1>18, Zenon DEF SendPaatosForAll, SendPaatos, SendPaatosFails, AddPaatosSentEmails
  <2>w. Counts /\ Whys
    BY <1>18 DEF SendPaatosForAll, SendPaatos, SendPaatosFails, AddPaatosSentEmails, Counts, Whys, Note, Reasons
  <2>3. shown' = shown
    BY <1>18, Zenon DEF SendPaatosForAll, SendPaatos, SendPaatosFails, AddPaatosSentEmails
  <2>2. AsksOnly /\ stored' \in Kept
    BY <1>18, ServerPosts, GoneOnAnswers
  <2> QED BY <1>0, <2>1, <2>w, <2>2, <2>3
<1>19. ASSUME NEW c \in asked, LakiAnswered(c) PROVE ToolsStepTyped
  <2>1. tab' = tab /\ Counts /\ Whys /\ Keeps
    BY <1>19, Zenon DEF LakiAnswered, Counts, Whys, Reasons, Keeps, Hurry, Hurried, Act, RowsGo, Note
  <2>2. AsksOnly
    BY <1>19, LakiAnswers, DroppedAnswers
  <2>3. shown' \in Tab /\ (shown'.delays = shown.delays \/ tab = "velvoitteet")
    BY <1>19, <1>0, LakiAnswers DEF TabIs
  <2> QED BY <1>0, <2>1, <2>2, <2>3 DEF Keeps
<1>20. ASSUME NEW c \in asked, RowAnswered(c) PROVE ToolsStepTyped
  <2>1. tab' = tab /\ Counts /\ Whys /\ Keeps
    BY <1>20, Zenon DEF RowAnswered, Counts, Whys, Reasons, Keeps, Hurry, Hurried, Act, RowsGo, Note
  <2>2. AsksOnly
    BY <1>20, RowAnswers, NewAnswers
  <2>3. shown' \in Tab /\ (shown'.delays = shown.delays \/ tab = "velvoitteet")
    BY <1>20, <1>0, RowAnswers DEF ManualIs, TabIs
  <2> QED BY <1>0, <2>1, <2>2, <2>3 DEF Keeps
<1>21. ASSUME NEW c \in asked, Raportointivelvoitteet(c) PROVE ToolsStepTyped
  <2>1. tab' = tab /\ Counts /\ Whys /\ Keeps
    BY <1>21, Zenon DEF Raportointivelvoitteet, Counts, Whys, Reasons, Keeps, Hurry, Hurried, Act, RowsGo, Note
  <2>2. AsksOnly
    BY <1>21, RowsCome, DroppedAnswers
  <2>3. shown' \in Tab /\ (shown'.delays = shown.delays \/ tab = "velvoitteet")
    BY <1>21, <1>0, RowsCome DEF Comes, TabStays, TabIs
  <2> QED BY <1>0, <2>1, <2>2, <2>3 DEF Keeps
<1>22. ASSUME NEW c \in asked, EmailStateFetched(c) PROVE ToolsStepTyped
  <2>1. tab' = tab /\ Counts /\ Whys /\ Keeps
    BY <1>22, Zenon DEF EmailStateFetched, Counts, Whys, Reasons, Keeps, Hurry, Hurried, Act, RowsGo, Note
  <2>2. AsksOnly
    BY <1>22, SentComes, DroppedAnswers
  <2>3. shown' \in Tab /\ (shown'.delays = shown.delays \/ tab = "velvoitteet")
    BY <1>22, <1>0, SentComes DEF MailGoes, MailIs, TabIs
  <2> QED BY <1>0, <2>1, <2>2, <2>3 DEF Keeps
<1>23. ASSUME NEW c \in asked, SendAnswered(c) PROVE ToolsStepTyped
  <2>1. tab' = tab /\ Counts /\ Whys /\ Keeps
    BY <1>23, Zenon DEF SendAnswered, Counts, Whys, Reasons, Keeps, Hurry, Hurried, Act, RowsGo, Note
  <2>2. AsksOnly
    BY <1>23, SentComes, DroppedAnswers
  <2>3. shown' \in Tab /\ (shown'.delays = shown.delays \/ tab = "velvoitteet")
    BY <1>23, <1>0, SentComes DEF MailGoes, MailIs, TabIs
  <2> QED BY <1>0, <2>1, <2>2, <2>3 DEF Keeps
<1>24. ASSUME NEW c \in asked, ResendAnswered(c) \/ RegenerateAnswered(c) PROVE ToolsStepTyped
  <2>1. tab' = tab /\ Counts /\ Whys /\ Keeps
    BY <1>24, Zenon DEF ResendAnswered, RegenerateAnswered, Counts, Whys, Reasons, Keeps
  <2>2. AsksOnly
    BY <1>24, ResendAnswers, NewAnswers, DroppedAnswers
  <2>3. shown' \in Tab /\ shown'.delays = shown.delays
    BY <1>24, ResendAnswers DEF MailSame, MailGoes, MailIs, TabIs
  <2> QED BY <1>0, <2>1, <2>2, <2>3 DEF Keeps
<1>25. ASSUME NEW c \in asked, CreatePaymentBatches(c) PROVE ToolsStepTyped
  <2>1. tab' = tab /\ Counts /\ Whys /\ Keeps
    BY <1>25, Zenon DEF CreatePaymentBatches, Counts, Whys, Reasons, Keeps, Hurry, Hurried, Act, RowsGo, Note
  <2>2. AsksOnly
    BY <1>25, BatchGoesOn, NewAnswers
  <2>3. shown' = shown
    BY <1>25, BatchGoesOn
  <2> QED BY <1>0, <2>1, <2>2, <2>3 DEF Keeps
<1>26. ASSUME NEW c \in asked, PaymentsAnswered(c) PROVE ToolsStepTyped
  <2>1. tab' = tab /\ Counts /\ Whys /\ Keeps
    BY <1>26, Zenon DEF PaymentsAnswered, Counts, Whys, Reasons, Keeps, Hurry, Hurried, Act, RowsGo, Note
  <2>2. AsksOnly
    BY <1>26, PaymentsDone, NewAnswers
  <2>3. shown' \in Tab /\ (shown'.delays = shown.delays \/ tab = "velvoitteet")
    BY <1>26, <1>0, PaymentsDone DEF PayGoes, PayIs, TabIs
  <2> QED BY <1>0, <2>1, <2>2, <2>3 DEF Keeps
<1>27. ASSUME NEW c \in asked, MaksatuksetPage(c) PROVE ToolsStepTyped
  <2>1. tab' = tab /\ Counts /\ Whys /\ Keeps
    BY <1>27, Zenon DEF MaksatuksetPage, Counts, Whys, Reasons, Keeps, Hurry, Hurried, Act, RowsGo, Note
  <2>2. AsksOnly
    BY <1>27, PaymentsCome, DroppedAnswers
  <2>3. shown' \in Tab /\ (shown'.delays = shown.delays \/ tab = "velvoitteet")
    BY <1>27, <1>0, PaymentsCome DEF PayGoes, PayIs, TabIs
  <2> QED BY <1>0, <2>1, <2>2, <2>3 DEF Keeps
<1>28. ASSUME NEW c \in asked, AdminAnswered(c) PROVE ToolsStepTyped
  <2>1. tab' = tab /\ Counts /\ Whys /\ Keeps
    BY <1>28, Zenon DEF AdminAnswered, Counts, Whys, Reasons, Keeps, Hurry, Hurried, Act, RowsGo, Note
  <2>2. AsksOnly
    BY <1>28, AdminAnswers, NewAnswers
  <2>3. shown' = shown
    BY <1>28, AdminAnswers
  <2> QED BY <1>0, <2>1, <2>2, <2>3 DEF Keeps
<1>29. ASSUME NEW c \in asked, AdminRefreshed(c) PROVE ToolsStepTyped
  <2>1. tab' = tab /\ Counts /\ Whys /\ Keeps
    BY <1>29, Zenon DEF AdminRefreshed, Counts, Whys, Reasons, Keeps, Hurry, Hurried, Act, RowsGo, Note
  <2>2. AsksOnly
    BY <1>29, PaymentsCome, DroppedAnswers
  <2>3. shown' \in Tab /\ (shown'.delays = shown.delays \/ tab = "velvoitteet")
    BY <1>29, <1>0, PaymentsCome DEF PayGoes, PayIs, TabIs
  <2> QED BY <1>0, <2>1, <2>2, <2>3 DEF Keeps
<1>30. ASSUME NEW c \in asked, SelvitysSent(c) PROVE ToolsStepTyped
  <2>1. tab' = tab /\ Counts /\ Whys /\ Keeps
    BY <1>30, Zenon DEF SelvitysSent, Counts, Whys, Reasons, Keeps, Hurry, Hurried, Act, RowsGo, Note
  <2>2. AsksOnly
    BY <1>30, ReportSent, NewAnswers
  <2>3. shown' \in Tab /\ (shown'.delays = shown.delays \/ tab = "velvoitteet")
    BY <1>30, <1>0, ReportSent DEF ReportGoes, ReportIs, TabIs
  <2> QED BY <1>0, <2>1, <2>2, <2>3 DEF Keeps
<1>31. ASSUME NEW c \in asked, FetchTapahtumaloki(c) PROVE ToolsStepTyped
  <2>1. tab' = tab /\ Counts /\ Whys /\ Keeps
    BY <1>31, Zenon DEF FetchTapahtumaloki, Counts, Whys, Reasons, Keeps, Hurry, Hurried, Act, RowsGo, Note
  <2>2. AsksOnly
    BY <1>31, LogComes, DroppedAnswers
  <2>3. shown' \in Tab /\ (shown'.delays = shown.delays \/ tab = "velvoitteet")
    BY <1>31, <1>0, LogComes DEF ReportGoes, ReportIs, TabIs
  <2> QED BY <1>0, <2>1, <2>2, <2>3 DEF Keeps
<1>32. ASSUME NEW c \in asked, ToolFails(c) PROVE ToolsStepTyped
  <2>1. tab' = tab /\ Counts /\ Keeps
    BY <1>32, Zenon DEF ToolFails, Counts, Keeps
  <2>w. Whys
    <3>1. why' = why \cup CutOff(c)
      BY <1>32, Zenon DEF ToolFails
    <3> QED BY <3>1 DEF CutOff, Whys, Reasons
  <2>2. AsksOnly
    <3>1. CASE asked' = asked \ {c}
      BY <3>1, DroppedAnswers
    <3>2. CASE \E d, h, kind : /\ asked' = (asked \ {c}) \cup {d}
                               /\ kind \in {"getRows", "getSent"} /\ NewAsk(d, kind, h, {})
      BY <3>2, NewAnswers
    <3> QED BY <1>32, <3>1, <3>2, FailureTold
  <2>3. shown' \in Tab /\ shown'.delays = shown.delays
    BY <1>32, FailureTold
  <2> QED BY <1>0, <2>1, <2>w, <2>2, <2>3 DEF Keeps
<1> HIDE DEF ToolsStepTyped
<1> QED BY <1>a, <1>1, <1>2, <1>3, <1>4, <1>5, <1>6, <1>7, <1>8, <1>9, <1>10, <1>11, <1>12, <1>13, <1>14, <1>15, <1>16, <1>17, <1>18, <1>19, <1>20, <1>21, <1>22, <1>23, <1>24, <1>25, <1>26, <1>27, <1>28, <1>29, <1>30, <1>31, <1>32, Zenon DEF ToolsNext

LEMMA ToolsStart ==
  ASSUME ToolsInit
  PROVE  ToolsTyped /\ DocumentsLeft
<1>1. tab \in ToolTabs /\ openHaku \in Haut /\ why = {} /\ clicked = [h \in Haut |-> Lait]
  BY Zenon DEF ToolsInit
<1>2. toolsUsed = [acts |-> 0, failures |-> 0]
  BY Zenon DEF ToolsInit
<1>3. asked = {[id |-> 1, kind |-> Fetches(tab), h |-> openHaku, at |-> "sent", arg |-> {}, got |-> {}]}
  BY Zenon DEF ToolsInit
<1>4. shown \in Tab /\ shown.delays = {}
  <2>1. shown = [laki |-> {}, manual |-> FALSE, rows |-> <<EmptyRow(0)>>, keys |-> 1, delays |-> {},
                 mail |-> NoMail, pay |-> [unsent |-> FALSE, docs |-> {}, sending |-> Nothing],
                 report |-> [sending |-> FALSE, count |-> NoHaku, log |-> NoHaku]]
    BY Zenon DEF ToolsInit, Nothing
  <2>2. PICK no \in BOOLEAN : no = FALSE
    OBVIOUS
  <2>3. PICK pay \in Pay : pay = [unsent |-> FALSE, docs |-> {}, sending |-> Nothing]
    BY DEF Pay
  <2>4. PICK report \in Report : report = [sending |-> FALSE, count |-> NoHaku, log |-> NoHaku]
    BY DEF Report
  <2>5. PICK e \in ToolRow : e = EmptyRow(0)
    BY DEF EmptyRow, ToolRow, NoRow
  <2>6. PICK mail \in Mail : mail = NoMail
    BY NoMailIs
  <2>7. PICK one \in Nat : one = 1
    OBVIOUS
  <2>8. shown = [laki |-> {}, manual |-> no, rows |-> <<e>>, keys |-> one, delays |-> {},
                 mail |-> mail, pay |-> pay, report |-> report]
    BY <2>1, <2>2, <2>3, <2>4, <2>5, <2>6, <2>7
  <2>9. <<e>> \in Seq(ToolRow)
    BY <2>5
  <2> QED BY <2>8, <2>9 DEF Tab
<1>5. stored \in Kept
  <2>1. stored = [laki |-> [h \in Haut |-> Lait], rows |-> [h \in Haut |-> <<>>], ids |-> 0,
               mailed |-> [h \in Haut |-> 0], marked |-> [h \in Haut |-> FALSE],
               unsent |-> [h \in Haut |-> TRUE], batch |-> [h \in Haut |-> "none"],
               docs |-> [h \in Haut |-> {}]]
    BY Zenon DEF ToolsInit
  <2>2. <<>> \in Seq(ToolRow)
    OBVIOUS
  <2>3. PICK rows \in [Haut -> Seq(ToolRow)] : rows = [h \in Haut |-> <<>>]
    BY <2>2
  <2>4. PICK marked \in [Haut -> BOOLEAN], unsent \in [Haut -> BOOLEAN] :
          marked = [h \in Haut |-> FALSE] /\ unsent = [h \in Haut |-> TRUE]
    <3>1. [h \in Haut |-> FALSE] \in [Haut -> BOOLEAN] /\ [h \in Haut |-> TRUE] \in [Haut -> BOOLEAN]
      OBVIOUS
    <3> QED BY <3>1
  <2>5. PICK mailed \in [Haut -> Nat], zero \in Nat : mailed = [h \in Haut |-> 0] /\ zero = 0
    OBVIOUS
  <2>6. PICK batch \in [Haut -> {"none", "open", "sent"}] : batch = [h \in Haut |-> "none"]
    OBVIOUS
  <2>7. PICK docs \in [Haut -> SUBSET Phases], laki \in [Haut -> SUBSET Lait] :
          docs = [h \in Haut |-> {}] /\ laki = [h \in Haut |-> Lait]
    OBVIOUS
  <2>8. stored = [laki |-> laki, rows |-> rows, ids |-> zero, mailed |-> mailed, marked |-> marked,
                  unsent |-> unsent, batch |-> batch, docs |-> docs]
    BY <2>1, <2>3, <2>4, <2>5, <2>6, <2>7
  <2> QED BY <2>8 DEF Kept
<1>6. PICK d \in asked : asked = {d} /\ d.kind = Fetches(tab) /\ d.h = openHaku /\ d.at = "sent" /\ d.arg = {} /\ d.got = {}
                         /\ d \in [id : {d.id}, kind : {Fetches(tab)}, h : {openHaku}, at : {"sent"}, arg : {{}}, got : {{}}]
  <2>1. PICK d : d = [id |-> 1, kind |-> Fetches(tab), h |-> openHaku, at |-> "sent", arg |-> {}, got |-> {}]
    OBVIOUS
  <2>2. d.kind = Fetches(tab) /\ d.h = openHaku /\ d.at = "sent" /\ d.arg = {} /\ d.got = {} /\ d.id = 1
    BY <2>1
  <2>3. d \in [id : {d.id}, kind : {Fetches(tab)}, h : {openHaku}, at : {"sent"}, arg : {{}}, got : {{}}]
    BY <2>1
  <2>4. asked = {d}
    BY <1>3, <2>1
  <2> QED BY <2>2, <2>3, <2>4
<1>7. AskOK(d) /\ d.kind # "document"
  <2>1. Fetches(tab) \in CallsOf(tab) /\ {} \in Carries(Fetches(tab)) /\ Fetches(tab) # "document"
    BY <1>1, FetchesOf
  <2>2. d \in [id : {d.id}, kind : CallsOf(tab), h : Haut, at : {"sent", "listed", "posted", "mailed", "answered"},
               arg : {d.arg}, got : {d.got}]
    BY <1>1, <1>6, <2>1
  <2> QED BY <1>6, <2>1, <2>2 DEF AskOK
<1>8. ToolsTyped
  <2>1. toolsUsed \in [acts : Nat, failures : Nat] /\ clicked \in [Haut -> SUBSET Lait]
    BY <1>1, <1>2
  <2> QED BY <1>1, <1>4, <1>5, <1>6, <1>7, <2>1 DEF ToolsTyped
<1> QED BY <1>6, <1>7, <1>8 DEF DocumentsLeft

-----------------------------------------------------------------------------
(* The tools of the grant editor: decisions and payments go out once and whole *)

\* Steps that neither store nor ask for payments, nor have decisions mailed.
Aside ==
  /\ stored' = stored /\ why \subseteq why'
  /\ \A c \in asked' : c \in asked \/ c.kind \notin PayCalls \cup {"sendall"}
                       \/ (c.kind = "sendall" /\ c.at \notin {"listed", "posted"})

LEMMA NewAside ==
  ASSUME stored' = stored, why \subseteq why', NEW d, NEW kind, NEW h, NEW arg, NewAsk(d, kind, h, arg),
         kind \notin PayCalls,
         asked' = asked \cup {d} \/ \E c \in asked : asked' = (asked \ {c}) \cup {d}
  PROVE  Aside
BY DEF NewAsk, Aside
LEMMA DroppedAside ==
  ASSUME stored' = stored, why \subseteq why', asked' = asked \/ \E c \in asked : asked' = asked \ {c}
  PROVE  Aside
BY DEF Aside

LEMMA ToolSteps ==
  ASSUME ToolsTyped, DocumentsLeft, ToolsNext
  PROVE  \/ Aside
         \/ \E mode \in {"send", "paid"} : LahtevatMaksatukset(mode)
         \/ \E c \in asked : \/ CreatePaymentBatches(c) \/ StoreTool(c)
                             \/ GetHakemusIdsToSend(c) \/ SendPaatosForAll(c)
<1> DEFINE Goal == \/ Aside
                   \/ \E mode \in {"send", "paid"} : LahtevatMaksatukset(mode)
                   \/ \E c \in asked : \/ CreatePaymentBatches(c) \/ StoreTool(c)
                                       \/ GetHakemusIdsToSend(c) \/ SendPaatosForAll(c)
<1>0. tab \in ToolTabs /\ openHaku \in Haut
  BY DEF ToolsTyped
<1>1. ASSUME NEW l \in Lait, Lainsaadanto(l) PROVE Goal
  <2>1. stored' = stored /\ why \subseteq why'
    BY <1>1, Zenon DEF Lainsaadanto, Hurry, Hurried, Act
  <2>2. \E d, arg : asked' = asked \cup {d} /\ NewAsk(d, "postLaki", openHaku, arg)
    BY <1>1, LakiActs
  <2>3. "postLaki" \notin PayCalls
    BY DEF PayCalls
  <2> QED BY <2>1, <2>2, <2>3, NewAside
<1>2. ASSUME NEW i \in DOMAIN shown.rows, Raportointivelvoite(i) PROVE Goal
  <2>1. stored' = stored /\ why \subseteq why'
    BY <1>2, Zenon DEF Raportointivelvoite, Hurry, Hurried, Act, RowsGo, Note
  <2> QED BY <1>2, <2>1, RowActs, DroppedAside
<1>3. ASSUME NEW i \in DOMAIN shown.rows, DeleteRaportointivelvoite(i) PROVE Goal
  <2>1. stored' = stored /\ why \subseteq why'
    BY <1>3, Zenon DEF DeleteRaportointivelvoite, Hurry, Hurried, Act, RowsGo, Note
  <2> QED BY <1>3, <2>1, DeleteActs, NewAside DEF PayCalls
<1>4. ASSUME NEW d \in shown.delays, DebouncedRaportointivelvoite(d) PROVE Goal
  <2>1. stored' = stored /\ why \subseteq why'
    BY <1>4, Zenon DEF DebouncedRaportointivelvoite, Hurry, Hurried
  <2>2. PICK kind \in {"putRow", "postRow"} : kind = IF d.row.id = NoRow THEN "putRow" ELSE "postRow"
    OBVIOUS
  <2>3. \E c : asked' = asked \cup {c} /\ NewAsk(c, kind, d.h, d.row)
    BY <1>4, <2>2, DelayEnds
  <2>4. kind \notin PayCalls
    BY DEF PayCalls
  <2> QED BY <2>1, <2>3, <2>4, NewAside
<1>5. ASSUME OnPreview \/ PreviewEnds PROVE Goal
  <2>1. stored' = stored /\ why \subseteq why'
    BY <1>5, Zenon DEF OnPreview, PreviewEnds, Hurry, Hurried, Act, RowsGo, Note
  <2> QED BY <1>5, <2>1, PreviewActs, DroppedAside
<1>6. ASSUME DecisionDateAndSend PROVE Goal
  <2>1. stored' = stored /\ why \subseteq why'
    BY <1>6, Zenon DEF DecisionDateAndSend, Hurry, Hurried, Act, RowsGo, Note
  <2> QED BY <1>6, <2>1, SendActs, NewAside DEF PayCalls
<1>7. ASSUME ResendDecisions \/ RegenerateDecisions PROVE Goal
  <2>1. stored' = stored /\ why \subseteq why'
    BY <1>7, Zenon DEF ResendDecisions, RegenerateDecisions, Hurry, Hurried, Act, RowsGo, Note
  <2> QED BY <1>7, <2>1, ResendActs, NewAside DEF PayCalls
<1>8. ASSUME NEW p \in Phases, DocumentEditor(p) PROVE Goal
  <2>1. stored' = stored /\ why \subseteq why'
    BY <1>8, Zenon DEF DocumentEditor, Hurry, Hurried, Act, RowsGo, Note
  <2> QED BY <1>8, <2>1, DocumentActs, DroppedAside
<1>9. ASSUME NEW make \in BOOLEAN, AdminTools(make) PROVE Goal
  <2>1. stored' = stored /\ why \subseteq why'
    BY <1>9, Zenon DEF AdminTools, Hurry, Hurried, Act, RowsGo, Note
  <2> QED BY <1>9, <2>1, AdminActs, NewAside DEF PayCalls
<1>10. ASSUME OnSendSelvitys PROVE Goal
  <2>1. stored' = stored /\ why \subseteq why'
    BY <1>10, Zenon DEF OnSendSelvitys, Hurry, Hurried, Act, RowsGo, Note
  <2> QED BY <1>10, <2>1, ReportActs, NewAside DEF PayCalls
<1>11. ASSUME NEW h \in Haut, OpenHaku(h) PROVE Goal
  <2>1. stored' = stored /\ why \subseteq why'
    BY <1>11, Zenon DEF OpenHaku, Hurry, Hurried, Act, RowsGo, Note
  <2> QED BY <1>11, <2>1, <1>0, HakuOpens, FetchesOf, NewAside DEF PayCalls
<1>12. ASSUME NEW c \in asked, AnswerTool(c) PROVE Goal
  <2>1. stored' = stored /\ why \subseteq why'
    BY <1>12, Zenon DEF AnswerTool
  <2>2. c.kind \notin PayCalls /\ \E d : asked' = (asked \ {c}) \cup {d} /\ d.kind = c.kind /\ d.at = "answered"
    BY <1>12, ServerAnswers DEF GoesOn, PayCalls
  <2> QED BY <2>1, <2>2 DEF Aside
<1>13. ASSUME NEW c \in asked, LakiAnswered(c) PROVE Goal
  <2>1. stored' = stored /\ why \subseteq why'
    BY <1>13, Zenon DEF LakiAnswered, Hurry, Hurried, Act, RowsGo, Note
  <2> QED BY <1>13, <2>1, LakiAnswers, DroppedAside
<1>14. ASSUME NEW c \in asked, RowAnswered(c) PROVE Goal
  <2>1. stored' = stored /\ why \subseteq why'
    BY <1>14, Zenon DEF RowAnswered, Hurry, Hurried, Act, RowsGo, Note
  <2> QED BY <1>14, <2>1, RowAnswers, NewAside DEF PayCalls
<1>15. ASSUME NEW c \in asked, Raportointivelvoitteet(c) PROVE Goal
  <2>1. stored' = stored /\ why \subseteq why'
    BY <1>15, Zenon DEF Raportointivelvoitteet, Hurry, Hurried, Act, RowsGo, Note
  <2> QED BY <1>15, <2>1, RowsCome, DroppedAside
<1>16. ASSUME NEW c \in asked, EmailStateFetched(c) \/ SendAnswered(c) PROVE Goal
  <2>1. stored' = stored /\ why \subseteq why'
    BY <1>16, Zenon DEF EmailStateFetched, SendAnswered, Hurry, Hurried, Act, RowsGo, Note
  <2> QED BY <1>16, <2>1, SentComes, DroppedAside
<1>17. ASSUME NEW c \in asked, ResendAnswered(c) \/ RegenerateAnswered(c) PROVE Goal
  <2>1. stored' = stored /\ why \subseteq why'
    BY <1>17, Zenon DEF ResendAnswered, RegenerateAnswered, Hurry, Hurried, Act, RowsGo, Note
  <2> QED BY <1>17, <2>1, ResendAnswers, NewAside, DroppedAside DEF PayCalls
<1>18. ASSUME NEW c \in asked, PaymentsAnswered(c) PROVE Goal
  <2>1. stored' = stored /\ why \subseteq why'
    BY <1>18, Zenon DEF PaymentsAnswered, Hurry, Hurried, Act, RowsGo, Note
  <2> QED BY <1>18, <2>1, PaymentsDone, NewAside DEF PayCalls
<1>19. ASSUME NEW c \in asked, MaksatuksetPage(c) \/ AdminRefreshed(c) PROVE Goal
  <2>1. stored' = stored /\ why \subseteq why'
    BY <1>19, Zenon DEF MaksatuksetPage, AdminRefreshed, Hurry, Hurried, Act, RowsGo, Note
  <2> QED BY <1>19, <2>1, PaymentsCome, DroppedAside
<1>20. ASSUME NEW c \in asked, AdminAnswered(c) PROVE Goal
  <2>1. stored' = stored /\ why \subseteq why'
    BY <1>20, Zenon DEF AdminAnswered, Hurry, Hurried, Act, RowsGo, Note
  <2> QED BY <1>20, <2>1, AdminAnswers, NewAside DEF PayCalls
<1>21. ASSUME NEW c \in asked, SelvitysSent(c) PROVE Goal
  <2>1. stored' = stored /\ why \subseteq why'
    BY <1>21, Zenon DEF SelvitysSent, Hurry, Hurried, Act, RowsGo, Note
  <2> QED BY <1>21, <2>1, ReportSent, NewAside DEF PayCalls
<1>22. ASSUME NEW c \in asked, FetchTapahtumaloki(c) PROVE Goal
  <2>1. stored' = stored /\ why \subseteq why'
    BY <1>22, Zenon DEF FetchTapahtumaloki, Hurry, Hurried, Act, RowsGo, Note
  <2> QED BY <1>22, <2>1, LogComes, DroppedAside
<1>23. ASSUME NEW c \in asked, ToolFails(c) PROVE Goal
  <2>1. stored' = stored /\ why \subseteq why'
    BY <1>23, Zenon DEF ToolFails
  <2>2. CASE asked' = asked \ {c}
    BY <2>1, <2>2, DroppedAside
  <2>3. CASE \E d, h, kind : /\ asked' = (asked \ {c}) \cup {d}
                             /\ kind \in {"getRows", "getSent"} /\ NewAsk(d, kind, h, {})
    BY <2>1, <2>3, NewAside DEF PayCalls
  <2> QED BY <1>23, <2>2, <2>3, FailureTold
<1>24. ASSUME NEW mode \in {"send", "paid"}, LahtevatMaksatukset(mode) PROVE Goal
  BY <1>24
<1>25. ASSUME NEW c \in asked, CreatePaymentBatches(c) \/ StoreTool(c) \/ GetHakemusIdsToSend(c) \/ SendPaatosForAll(c)
      PROVE  Goal
  BY <1>25
<1> HIDE DEF Goal
<1>q. Goal
  BY <1>1, <1>2, <1>3, <1>4, <1>5, <1>6, <1>7, <1>8, <1>9, <1>10, <1>11, <1>12, <1>13, <1>14, <1>15, <1>16, <1>17, <1>18, <1>19, <1>20, <1>21, <1>22, <1>23, <1>24, <1>25, Zenon DEF ToolsNext
<1> QED BY <1>q DEF Goal

\* The documents of a batch that is going out: those stored and those to come.
DocumentsFollow ==
  /\ \A c \in asked :
       /\ c.kind = "batch" => c.arg.docs = Phases
       /\ c.kind = "document" =>
            stored.docs[c.h] \cup (IF c.at = "sent" THEN c.arg.docs ELSE c.arg.docs \ {NextDocument(c)}) = Phases
       /\ c.kind = "payments" => stored.docs[c.h] = Phases
  /\ SentBatchHasDocuments

\* A request of the decisions that is between its list and its marks.
IsMailing(c) == c.kind = "sendall" /\ c.at \in {"listed", "posted"}
IsPosted(c) == c.kind = "sendall" /\ c.at = "posted"
NoneCutOff == why \cap {"sent_twice", "unmarked"} = {}

\* Whoever lists the decisions to send while nobody else does, mails them once.
MailedOnce ==
  NoneCutOff =>
    /\ \A h \in Haut : \/ stored.mailed[h] = 0
                       \/ /\ stored.mailed[h] = 1
                          /\ stored.marked[h] \/ \E c \in asked : IsPosted(c) /\ c.h = h
    /\ \A c \in asked : IsMailing(c) =>
         /\ ~stored.marked[c.h]
         /\ \A d \in asked : IsMailing(d) /\ d.h = c.h => d = c
         /\ c.at = "listed" => stored.mailed[c.h] = 0
\* What is marked, or about to be, was mailed.
MarkedWasMailed ==
  "unmailed" \notin why =>
    /\ \A h \in Haut : stored.marked[h] => stored.mailed[h] >= 1
    /\ \A c \in asked : IsPosted(c) => stored.mailed[c.h] >= 1
MailedAsMarked == MailedOnce /\ MarkedWasMailed

LEMMA AsideKeepsDocuments ==
  ASSUME DocumentsFollow, Aside
  PROVE  DocumentsFollow'
BY DEF DocumentsFollow, Aside, SentBatchHasDocuments, PayCalls, NextDocument

\* A decision that is out stays about to be marked, unless its request is cut off.
PostedStay == \A p \in asked : IsPosted(p) => p \in asked' \/ "unmarked" \in why'

LEMMA PostedStays ==
  ASSUME ToolsNext, \A c \in asked : ~AddPaatosSentEmails(c)
  PROVE  PostedStay
<1>1. SUFFICES ASSUME NEW p \in asked, p.at = "posted" PROVE p \in asked' \/ "unmarked" \in why'
  BY DEF PostedStay, IsPosted
<1> DEFINE Goal == p \in asked' \/ "unmarked" \in why'
<1>2. ASSUME \/ \E l \in Lait : Lainsaadanto(l)
             \/ \E i \in DOMAIN shown.rows : Raportointivelvoite(i) \/ DeleteRaportointivelvoite(i)
             \/ \E d \in shown.delays : DebouncedRaportointivelvoite(d)
      PROVE  Goal
  BY <1>2, Zenon DEF Lainsaadanto, Raportointivelvoite, DeleteRaportointivelvoite, DebouncedRaportointivelvoite
<1>3. ASSUME OnPreview \/ PreviewEnds \/ DecisionDateAndSend \/ ResendDecisions \/ RegenerateDecisions
      PROVE  Goal
  BY <1>3, Zenon DEF OnPreview, PreviewEnds, DecisionDateAndSend, ResendDecisions, RegenerateDecisions
<1>4. ASSUME \/ \E q \in Phases : DocumentEditor(q)
             \/ \E mode \in {"send", "paid"} : LahtevatMaksatukset(mode)
             \/ \E make \in BOOLEAN : AdminTools(make)
             \/ OnSendSelvitys
             \/ \E h \in Haut : OpenHaku(h)
      PROVE  Goal
  BY <1>4, Zenon DEF DocumentEditor, LahtevatMaksatukset, AdminTools, OnSendSelvitys, OpenHaku
<1>5. ASSUME NEW c \in asked, AnswerTool(c) \/ StoreTool(c) \/ GetHakemusIdsToSend(c)
      PROVE  Goal
  <2>1. c.at # "posted"
    BY <1>5 DEF AnswerTool, StoreTool, GetHakemusIdsToSend
  <2>2. \E d : asked' = (asked \ {c}) \cup {d}
    BY <1>5, Zenon DEF AnswerTool, StoreTool, GetHakemusIdsToSend
  <2> QED BY <1>1, <2>1, <2>2
<1>6. ASSUME NEW c \in asked, SendPaatos(c) \/ SendPaatosFails(c)
      PROVE  Goal
  <2>1. c.at # "posted"
    BY <1>6 DEF SendPaatos, SendPaatosFails
  <2>2. \E d : asked' = (asked \ {c}) \cup {d}
    BY <1>6, Zenon DEF SendPaatos, SendPaatosFails
  <2> QED BY <1>1, <2>1, <2>2
<1>7. ASSUME NEW c \in asked,
             \/ LakiAnswered(c) \/ RowAnswered(c) \/ Raportointivelvoitteet(c)
             \/ EmailStateFetched(c) \/ SendAnswered(c) \/ ResendAnswered(c) \/ RegenerateAnswered(c)
      PROVE  Goal
  <2>1. c.at = "answered"
    BY <1>7, Zenon DEF LakiAnswered, RowAnswered, Raportointivelvoitteet, EmailStateFetched, SendAnswered,
             ResendAnswered, RegenerateAnswered
  <2>2. asked \ {c} \subseteq asked'
    BY <1>7, Zenon DEF LakiAnswered, RowAnswered, Raportointivelvoitteet, EmailStateFetched, SendAnswered,
             ResendAnswered, RegenerateAnswered, Then
  <2> QED BY <1>1, <2>1, <2>2
<1>8. ASSUME NEW c \in asked,
             \/ CreatePaymentBatches(c) \/ PaymentsAnswered(c) \/ MaksatuksetPage(c)
             \/ AdminAnswered(c) \/ AdminRefreshed(c)
             \/ SelvitysSent(c) \/ FetchTapahtumaloki(c)
      PROVE  Goal
  <2>1. c.at = "answered"
    BY <1>8, Zenon DEF CreatePaymentBatches, PaymentsAnswered, MaksatuksetPage, AdminAnswered, AdminRefreshed,
             SelvitysSent, FetchTapahtumaloki
  <2>2. asked \ {c} \subseteq asked'
    BY <1>8, Zenon DEF CreatePaymentBatches, PaymentsAnswered, MaksatuksetPage, AdminAnswered, AdminRefreshed,
             SelvitysSent, FetchTapahtumaloki, Then
  <2> QED BY <1>1, <2>1, <2>2
<1>9. ASSUME NEW c \in asked, ToolFails(c)
      PROVE  Goal
  <2>1. asked \ {c} \subseteq asked'
    BY <1>9, Zenon DEF ToolFails, AfterFailure, Then
  <2>2. c = p => "unmarked" \in why'
    BY <1>1, <1>9 DEF ToolFails, CutOff
  <2> QED BY <1>1, <2>1, <2>2
<1> HIDE DEF Goal
<1>10. Goal
  BY <1>2, <1>3, <1>4, <1>5, <1>6, <1>7, <1>8, <1>9, Zenon DEF ToolsNext, SendPaatosForAll
<1> QED BY <1>10 DEF Goal

LEMMA AsideKeepsMailed ==
  ASSUME MailedAsMarked, Aside, PostedStay
  PROVE  MailedAsMarked'
<1>1. stored' = stored /\ why \subseteq why' /\ \A c \in asked' : IsMailing(c) => c \in asked
  BY DEF Aside, IsMailing
<1>2. MailedOnce'
  <2> SUFFICES ASSUME NoneCutOff' PROVE MailedOnce'
    BY DEF MailedOnce
  <2>1. NoneCutOff
    BY <1>1 DEF NoneCutOff
  <2>2. \A c \in asked : IsPosted(c) => c \in asked'
    BY DEF NoneCutOff, PostedStay
  <2> QED BY <1>1, <2>1, <2>2 DEF MailedAsMarked, MailedOnce, IsMailing, IsPosted
<1>3. MarkedWasMailed'
  BY <1>1 DEF MailedAsMarked, MarkedWasMailed, IsMailing, IsPosted
<1> QED BY <1>2, <1>3 DEF MailedAsMarked

LEMMA DocumentsStayFollowed ==
  ASSUME ToolsTyped, DocumentsLeft, DocumentsFollow, ToolsNext
  PROVE  DocumentsFollow'
<1>1. CASE Aside
  BY <1>1, AsideKeepsDocuments
<1>2. ASSUME NEW mode \in {"send", "paid"}, LahtevatMaksatukset(mode) PROVE DocumentsFollow'
  <2>1. stored' = stored
    BY <1>2, Zenon DEF LahtevatMaksatukset
  <2>2. PICK d, arg : asked' = asked \cup {d} /\ NewAsk(d, "batch", openHaku, arg) /\ arg.docs = Phases
    BY <1>2, PaymentsAct
  <2>3. d.kind = "batch" /\ d.arg.docs = Phases
    BY <2>2 DEF NewAsk
  <2> QED BY <2>1, <2>2, <2>3 DEF DocumentsFollow, SentBatchHasDocuments, NextDocument
<1>3. ASSUME NEW c \in asked, CreatePaymentBatches(c) PROVE DocumentsFollow'
  <2>1. stored' = stored
    BY <1>3 DEF CreatePaymentBatches
  <2>2. PICK d, left, arg :
              /\ left = IF c.kind = "batch" THEN c.arg.docs ELSE c.arg.docs \ {NextDocument(c)}
              /\ asked' = (asked \ {c}) \cup {d}
              /\ NewAsk(d, IF left = {} THEN "payments" ELSE "document", c.h, arg)
              /\ arg.mode = c.arg.mode /\ arg.docs = left
    BY <1>3, BatchGoesOn
  <2>3. /\ d.kind = (IF left = {} THEN "payments" ELSE "document") /\ d.h = c.h /\ d.at = "sent"
        /\ d.arg.docs = left
    BY <2>2 DEF NewAsk
  <2>4. c.kind \in {"batch", "document"} /\ c.at = "answered"
    BY <1>3, BatchGoesOn
  <2>5. stored.docs[c.h] \in SUBSET Phases
    BY DEF ToolsTyped, AskOK, Kept
  <2>6. stored.docs[c.h] \cup left = Phases
    BY <2>2, <2>4, <2>5 DEF DocumentsFollow
  <2> QED BY <2>1, <2>2, <2>3, <2>6 DEF DocumentsFollow, SentBatchHasDocuments, NextDocument
<1>4. ASSUME NEW c \in asked, StoreTool(c) PROVE DocumentsFollow'
  <2>1. PICK d : asked' = (asked \ {c}) \cup {d} /\ GoesOn(d, c, "answered", c.got)
    BY <1>4, StoreToolDoes
  <2>2. d.kind = c.kind /\ d.h = c.h /\ d.at = "answered" /\ d.arg = c.arg
    BY <2>1 DEF GoesOn
  <2>3. Stores(c) /\ stored' \in Kept /\ stored \in Kept /\ c.h \in Haut /\ c.at = "sent"
    BY <1>4, StoreToolDoes DEF StoreTool, ToolsTyped, AskOK
  <2>4. \A h \in Haut : stored.docs[h] \subseteq stored'.docs[h] /\ stored'.docs[h] \subseteq Phases
    BY <2>3 DEF Stores, Kept
  <2>5. \A b \in asked : b.h \in Haut /\ (b.kind = "document" => b.arg.docs \subseteq Phases)
    BY AskFacts DEF ToolsTyped, AskOK, PayCalls
  <2>6. \A b \in asked :
          /\ b.kind = "batch" => b.arg.docs = Phases
          /\ b.kind = "document" =>
               stored'.docs[b.h] \cup (IF b.at = "sent" THEN b.arg.docs ELSE b.arg.docs \ {NextDocument(b)}) = Phases
          /\ b.kind = "payments" => stored'.docs[b.h] = Phases
    <3> SUFFICES ASSUME NEW b \in asked
                 PROVE  /\ b.kind = "batch" => b.arg.docs = Phases
                        /\ b.kind = "document" =>
                             stored'.docs[b.h] \cup (IF b.at = "sent" THEN b.arg.docs ELSE b.arg.docs \ {NextDocument(b)}) = Phases
                        /\ b.kind = "payments" => stored'.docs[b.h] = Phases
      OBVIOUS
    <3>1. stored.docs[b.h] \subseteq stored'.docs[b.h] /\ stored'.docs[b.h] \subseteq Phases
      BY <2>4, <2>5
    <3> QED BY <2>5, <3>1 DEF DocumentsFollow
  <2>7. /\ d.kind = "batch" => d.arg.docs = Phases
        /\ d.kind = "document" => stored'.docs[d.h] \cup (d.arg.docs \ {NextDocument(d)}) = Phases
        /\ d.kind = "payments" => stored'.docs[d.h] = Phases
    <3>1. NextDocument(d) = NextDocument(c)
      BY <2>2 DEF NextDocument
    <3>2. c.kind = "document" => NextDocument(c) \in stored'.docs[c.h]
      BY <2>3 DEF Stores, Kept
    <3> QED BY <2>2, <2>3, <2>6, <3>1, <3>2
  <2>8. \A h \in Haut : stored'.batch[h] = "sent" => stored'.docs[h] = Phases
    <3> SUFFICES ASSUME NEW h \in Haut, stored'.batch[h] = "sent" PROVE stored'.docs[h] = Phases
      OBVIOUS
    <3>1. CASE stored.batch[h] = "sent"
      BY <2>4, <3>1 DEF DocumentsFollow, SentBatchHasDocuments
    <3>2. CASE stored.batch[h] # "sent"
      <4>1. c.kind = "payments" /\ h = c.h
        BY <2>3, <3>2 DEF Stores, Kept
      <4> QED BY <4>1, <2>2, <2>7
    <3> QED BY <3>1, <3>2
  <2> QED BY <2>1, <2>2, <2>6, <2>7, <2>8 DEF DocumentsFollow, SentBatchHasDocuments, NextDocument
<1>5. ASSUME NEW c \in asked, GetHakemusIdsToSend(c) PROVE DocumentsFollow'
  <2>1. stored' = stored
    BY <1>5 DEF GetHakemusIdsToSend
  <2>2. \E d : asked' = (asked \ {c}) \cup {d} /\ d.kind = "sendall"
    BY <1>5, ListsToSend DEF GoesOn
  <2> QED BY <2>1, <2>2 DEF DocumentsFollow, SentBatchHasDocuments, NextDocument
<1>6. ASSUME NEW c \in asked, SendPaatosForAll(c) PROVE DocumentsFollow'
  <2>1. stored'.docs = stored.docs /\ stored'.batch = stored.batch
    BY <1>6, ServerPosts
  <2>2. PICK d : asked' = (asked \ {c}) \cup {d} /\ d.kind = "sendall"
    BY <1>6, ServerPosts DEF GoesOn
  <2> QED BY <2>1, <2>2 DEF DocumentsFollow, SentBatchHasDocuments, NextDocument
<1> QED BY <1>1, <1>2, <1>3, <1>4, <1>5, <1>6, ToolSteps

LEMMA MailedStaysMarked ==
  ASSUME ToolsTyped, DocumentsLeft, MailedAsMarked, ToolsNext
  PROVE  MailedAsMarked'
<1>0. /\ stored \in Kept /\ \A c \in asked : c.h \in Haut
      /\ \A h \in Haut : stored.mailed[h] \in Nat /\ stored.marked[h] \in BOOLEAN
  BY DEF ToolsTyped, Kept, AskOK
<1>m. ASSUME NEW c, c.kind # "sendall" PROVE ~IsMailing(c) /\ ~IsPosted(c)
  BY <1>m DEF IsMailing, IsPosted
<1>a. ASSUME stored'.mailed = stored.mailed, stored'.marked = stored.marked, why \subseteq why', PostedStay,
             \A c \in asked' : c \in asked \/ c.kind # "sendall"
      PROVE  MailedAsMarked'
  <2>1. \A c \in asked' : IsMailing(c) => c \in asked
    BY <1>a DEF IsMailing
  <2>2. MailedOnce'
    <3> SUFFICES ASSUME NoneCutOff' PROVE MailedOnce'
      BY DEF MailedOnce
    <3>1. NoneCutOff
      BY <1>a DEF NoneCutOff
    <3>2. \A c \in asked : IsPosted(c) => c \in asked'
      BY <1>a DEF NoneCutOff, PostedStay
    <3> QED BY <1>a, <2>1, <3>1, <3>2 DEF MailedAsMarked, MailedOnce, IsMailing, IsPosted
  <2>3. MarkedWasMailed'
    BY <1>a, <2>1 DEF MailedAsMarked, MarkedWasMailed, IsMailing, IsPosted
  <2> QED BY <2>2, <2>3 DEF MailedAsMarked
<1>1. CASE Aside /\ PostedStay
  BY <1>1, AsideKeepsMailed
<1>2. ASSUME NEW mode \in {"send", "paid"}, LahtevatMaksatukset(mode), PostedStay PROVE MailedAsMarked'
  <2>1. stored' = stored /\ why \subseteq why'
    BY <1>2, Zenon DEF LahtevatMaksatukset, Hurry, Hurried
  <2>2. \E d : asked' = asked \cup {d} /\ d.kind = "batch"
    BY <1>2, PaymentsAct DEF NewAsk
  <2> QED BY <1>2, <2>1, <2>2, <1>a
<1>3. ASSUME NEW c \in asked, CreatePaymentBatches(c), PostedStay PROVE MailedAsMarked'
  <2>1. stored' = stored /\ why' = why
    BY <1>3 DEF CreatePaymentBatches
  <2>2. \E d : asked' = (asked \ {c}) \cup {d} /\ d.kind # "sendall"
    BY <1>3, BatchGoesOn DEF NewAsk
  <2> QED BY <1>3, <2>1, <2>2, <1>a
<1>4. ASSUME NEW c \in asked, StoreTool(c), PostedStay PROVE MailedAsMarked'
  <2>1. stored'.mailed = stored.mailed /\ stored'.marked = stored.marked
    BY <1>4, StoreToolDoes DEF Stores
  <2>2. \E d : asked' = (asked \ {c}) \cup {d} /\ d.kind = c.kind
    BY <1>4, StoreToolDoes DEF GoesOn
  <2>3. why' = why /\ c.kind # "sendall"
    BY <1>4 DEF StoreTool, RowCalls
  <2> QED BY <1>4, <2>1, <2>2, <2>3, <1>a
<1>5. ASSUME NEW c \in asked, GetHakemusIdsToSend(c), PostedStay PROVE MailedAsMarked'
  <2>1. /\ stored' = stored /\ c.kind = "sendall" /\ c.at = "sent" /\ why \subseteq why'
        /\ (\E d \in asked : IsMailing(d) /\ d.h = c.h) => "sent_twice" \in why'
    BY <1>5 DEF GetHakemusIdsToSend, Waiting, IsMailing
  <2>2. PICK d : asked' = (asked \ {c}) \cup {d} /\ GoesOn(d, c, IF stored.marked[c.h] THEN "mailed" ELSE "listed", {})
    BY <1>5, ListsToSend
  <2>3. /\ d.kind = "sendall" /\ d.h = c.h /\ d.at # "posted"
        /\ IsMailing(d) => ~stored.marked[d.h]
    BY <2>1, <2>2 DEF GoesOn, IsMailing
  <2>4. MailedOnce'
    <3> SUFFICES ASSUME NoneCutOff' PROVE MailedOnce'
      BY DEF MailedOnce
    <3>1. NoneCutOff /\ \A b \in asked : IsMailing(b) => b.h # c.h
      BY <2>1 DEF NoneCutOff
    <3>2. \A b \in asked : IsPosted(b) => b \in asked'
      BY <1>5 DEF NoneCutOff, PostedStay
    <3>3. ~stored.marked[c.h] => stored.mailed[c.h] = 0
      BY <1>0, <3>1 DEF MailedAsMarked, MailedOnce, IsMailing, IsPosted
    <3>4. \A h \in Haut : \/ stored.mailed[h] = 0
                         \/ /\ stored.mailed[h] = 1
                            /\ stored.marked[h] \/ \E b \in asked' : IsPosted(b) /\ b.h = h
      BY <3>1, <3>2 DEF MailedAsMarked, MailedOnce
    <3>5. \A b \in asked' : IsMailing(b) =>
            /\ ~stored.marked[b.h]
            /\ \A e \in asked' : IsMailing(e) /\ e.h = b.h => e = b
            /\ b.at = "listed" => stored.mailed[b.h] = 0
      BY <2>2, <2>3, <3>1, <3>3 DEF MailedAsMarked, MailedOnce
    <3> QED BY <2>1, <3>4, <3>5 DEF MailedOnce, IsMailing, IsPosted
  <2>5. MarkedWasMailed'
    BY <2>1, <2>2, <2>3 DEF MailedAsMarked, MarkedWasMailed, IsPosted
  <2> QED BY <2>4, <2>5 DEF MailedAsMarked
<1>6. ASSUME NEW c \in asked, SendPaatos(c), PostedStay PROVE MailedAsMarked'
  <2>1. /\ stored'.mailed = [stored.mailed EXCEPT ![c.h] = @ + 1] /\ stored'.marked = stored.marked
        /\ stored.mailed \in [Haut -> Nat] /\ c.h \in Haut /\ c.kind = "sendall" /\ c.at = "listed"
    BY <1>0, <1>6, SendsPaatos DEF Kept
  <2>2. PICK d : asked' = (asked \ {c}) \cup {d} /\ GoesOn(d, c, "posted", {})
    BY <1>6, SendsPaatos
  <2>3. d.at = "posted" /\ d.kind = "sendall" /\ d.h = c.h /\ why' = why
    BY <1>6, <2>1, <2>2 DEF GoesOn, SendPaatos
  <2>4. IsPosted(d) /\ IsMailing(c) /\ ~IsPosted(c)
    BY <2>1, <2>3 DEF IsPosted, IsMailing
  <2>5. /\ stored'.mailed[c.h] = stored.mailed[c.h] + 1
        /\ \A h \in Haut \ {c.h} : stored'.mailed[h] = stored.mailed[h]
    BY <2>1
  <2>6. MailedOnce'
    <3> SUFFICES ASSUME NoneCutOff PROVE MailedOnce'
      BY <2>3 DEF MailedOnce, NoneCutOff
    <3>1. stored.mailed[c.h] = 0 /\ ~stored.marked[c.h] /\ \A b \in asked : IsMailing(b) /\ b.h = c.h => b = c
      BY <2>1, <2>4 DEF MailedAsMarked, MailedOnce
    <3>2. \A h \in Haut : \/ stored'.mailed[h] = 0
                         \/ /\ stored'.mailed[h] = 1
                            /\ stored.marked[h] \/ \E b \in asked' : IsPosted(b) /\ b.h = h
      <4> SUFFICES ASSUME NEW h \in Haut
                   PROVE  \/ stored'.mailed[h] = 0
                          \/ /\ stored'.mailed[h] = 1
                             /\ stored.marked[h] \/ \E b \in asked' : IsPosted(b) /\ b.h = h
        OBVIOUS
      <4>1. CASE h = c.h
        BY <2>2, <2>3, <2>4, <2>5, <3>1, <4>1
      <4>2. CASE h # c.h
        <5>1. \A b \in asked : IsPosted(b) => b \in asked'
          BY <2>2, <2>4
        <5> QED BY <2>5, <4>2, <5>1 DEF MailedAsMarked, MailedOnce
      <4> QED BY <4>1, <4>2
    <3>3. \A b \in asked' : IsMailing(b) =>
            /\ ~stored.marked[b.h]
            /\ \A e \in asked' : IsMailing(e) /\ e.h = b.h => e = b
            /\ b.at = "listed" => stored'.mailed[b.h] = 0
      <4> SUFFICES ASSUME NEW b \in asked', IsMailing(b)
                   PROVE  /\ ~stored.marked[b.h]
                          /\ \A e \in asked' : IsMailing(e) /\ e.h = b.h => e = b
                          /\ b.at = "listed" => stored'.mailed[b.h] = 0
        OBVIOUS
      <4>1. \A e \in asked : IsMailing(e) /\ e # c => e.h # c.h
        BY <3>1
      <4>2. CASE b = d
        BY <2>2, <2>3, <3>1, <4>1, <4>2
      <4>3. CASE b # d
        <5>1. b \in asked /\ b # c /\ b.h # c.h /\ b.h \in Haut
          BY <1>0, <2>2, <4>1, <4>3
        <5> QED BY <2>2, <2>3, <2>5, <5>1 DEF MailedAsMarked, MailedOnce
      <4> QED BY <4>2, <4>3
    <3> QED BY <2>1, <3>2, <3>3 DEF MailedOnce, IsMailing, IsPosted
  <2>7. MarkedWasMailed'
    <3> SUFFICES ASSUME "unmailed" \notin why PROVE MarkedWasMailed'
      BY <2>3 DEF MarkedWasMailed
    <3>1. \A h \in Haut : stored'.mailed[h] >= stored.mailed[h] /\ stored'.mailed[h] \in Nat
      BY <1>0, <2>5
    <3>2. stored'.mailed[c.h] >= 1
      BY <1>0, <2>1, <2>5
    <3>3. \A h \in Haut : stored'.marked[h] => stored'.mailed[h] >= 1
      BY <1>0, <2>1, <3>1 DEF MailedAsMarked, MarkedWasMailed
    <3>4. \A b \in asked' : IsPosted(b) => stored'.mailed[b.h] >= 1
      BY <1>0, <2>2, <2>3, <3>1, <3>2 DEF MailedAsMarked, MarkedWasMailed
    <3> QED BY <3>3, <3>4 DEF MarkedWasMailed, IsPosted
  <2> QED BY <2>6, <2>7 DEF MailedAsMarked
<1>7. ASSUME NEW c \in asked, SendPaatosFails(c), PostedStay PROVE MailedAsMarked'
  <2>1. stored' = stored /\ c.kind = "sendall" /\ c.at = "listed"
    BY <1>7, MailIsLost
  <2>2. PICK d : asked' = (asked \ {c}) \cup {d} /\ GoesOn(d, c, "posted", {})
    BY <1>7, MailIsLost
  <2>3. d.at = "posted" /\ d.kind = "sendall" /\ d.h = c.h /\ why \subseteq why' /\ "unmailed" \in why'
    BY <1>7, <2>1, <2>2 DEF GoesOn, SendPaatosFails, Note
  <2>4. IsPosted(d) /\ IsMailing(c) /\ ~IsPosted(c)
    BY <2>1, <2>3 DEF IsPosted, IsMailing
  <2>6. MailedOnce'
    <3> SUFFICES ASSUME NoneCutOff PROVE MailedOnce'
      BY <2>3 DEF MailedOnce, NoneCutOff
    <3>1. ~stored.marked[c.h] /\ \A b \in asked : IsMailing(b) /\ b.h = c.h => b = c
      BY <2>1, <2>4 DEF MailedAsMarked, MailedOnce
    <3>2. \A h \in Haut : \/ stored.mailed[h] = 0
                         \/ /\ stored.mailed[h] = 1
                            /\ stored.marked[h] \/ \E b \in asked' : IsPosted(b) /\ b.h = h
      BY <2>2, <2>4 DEF MailedAsMarked, MailedOnce
    <3>3. \A b \in asked' : IsMailing(b) =>
            /\ ~stored.marked[b.h]
            /\ \A e \in asked' : IsMailing(e) /\ e.h = b.h => e = b
            /\ b.at = "listed" => stored.mailed[b.h] = 0
      BY <2>2, <2>3, <3>1 DEF MailedAsMarked, MailedOnce
    <3> QED BY <2>1, <3>2, <3>3 DEF MailedOnce, IsMailing, IsPosted
  <2> QED BY <2>3, <2>6 DEF MailedAsMarked, MarkedWasMailed
<1>8. ASSUME NEW c \in asked, AddPaatosSentEmails(c) PROVE MailedAsMarked'
  <2>1. /\ stored'.marked = [stored.marked EXCEPT ![c.h] = TRUE] /\ stored'.mailed = stored.mailed
        /\ stored.marked \in [Haut -> BOOLEAN] /\ c.h \in Haut /\ c.kind = "sendall" /\ c.at = "posted"
    BY <1>0, <1>8, MarksPaatos DEF Kept
  <2>2. PICK d : asked' = (asked \ {c}) \cup {d} /\ GoesOn(d, c, "mailed", {})
    BY <1>8, MarksPaatos
  <2>3. d.at = "mailed" /\ d.h = c.h /\ why' = why
    BY <1>8, <2>2 DEF GoesOn, AddPaatosSentEmails
  <2>4. ~IsMailing(d) /\ ~IsPosted(d) /\ IsMailing(c) /\ IsPosted(c)
    BY <2>1, <2>3 DEF IsPosted, IsMailing
  <2>5. stored'.marked[c.h] /\ \A h \in Haut \ {c.h} : stored'.marked[h] = stored.marked[h]
    BY <2>1
  <2>6. MailedOnce'
    <3> SUFFICES ASSUME NoneCutOff PROVE MailedOnce'
      BY <2>3 DEF MailedOnce, NoneCutOff
    <3>1. \A b \in asked : IsMailing(b) /\ b.h = c.h => b = c
      BY <2>4 DEF MailedAsMarked, MailedOnce
    <3>2. \A h \in Haut : \/ stored.mailed[h] = 0
                         \/ /\ stored.mailed[h] = 1
                            /\ stored'.marked[h] \/ \E b \in asked' : IsPosted(b) /\ b.h = h
      <4> SUFFICES ASSUME NEW h \in Haut, h # c.h
                   PROVE  \/ stored.mailed[h] = 0
                          \/ /\ stored.mailed[h] = 1
                             /\ stored'.marked[h] \/ \E b \in asked' : IsPosted(b) /\ b.h = h
        BY <2>5 DEF MailedAsMarked, MailedOnce
      <4>1. \A b \in asked : b.h = h => b \in asked'
        BY <2>2
      <4> QED BY <2>5, <4>1 DEF MailedAsMarked, MailedOnce
    <3>3. \A b \in asked' : IsMailing(b) => b \in asked /\ b.h # c.h
      BY <2>2, <2>4, <3>1
    <3>4. \A b \in asked' : IsMailing(b) =>
            /\ ~stored'.marked[b.h]
            /\ \A e \in asked' : IsMailing(e) /\ e.h = b.h => e = b
            /\ b.at = "listed" => stored.mailed[b.h] = 0
      BY <1>0, <2>5, <3>3 DEF MailedAsMarked, MailedOnce
    <3> QED BY <2>1, <3>2, <3>4 DEF MailedOnce, IsMailing, IsPosted
  <2>7. MarkedWasMailed'
    <3> SUFFICES ASSUME "unmailed" \notin why PROVE MarkedWasMailed'
      BY <2>3 DEF MarkedWasMailed
    <3>1. \A h \in Haut : stored'.marked[h] => stored.mailed[h] >= 1
      BY <2>1, <2>4, <2>5 DEF MailedAsMarked, MarkedWasMailed
    <3>2. \A b \in asked' : IsPosted(b) => stored.mailed[b.h] >= 1
      BY <2>2, <2>4 DEF MailedAsMarked, MarkedWasMailed
    <3> QED BY <2>1, <3>1, <3>2 DEF MarkedWasMailed, IsPosted
  <2> QED BY <2>6, <2>7 DEF MailedAsMarked
<1>9. CASE \E c \in asked : AddPaatosSentEmails(c)
  BY <1>8, <1>9
<1>10. CASE \A c \in asked : ~AddPaatosSentEmails(c)
  <2>1. PostedStay
    BY <1>10, PostedStays
  <2> QED BY <1>1, <1>2, <1>3, <1>4, <1>5, <1>6, <1>7, <1>8, <2>1, ToolSteps DEF SendPaatosForAll
<1> QED BY <1>9, <1>10

LEMMA SendingStarts ==
  ASSUME ToolsInit
  PROVE  DocumentsFollow /\ MailedAsMarked
<1>1. asked = {[id |-> 1, kind |-> Fetches(tab), h |-> openHaku, at |-> "sent", arg |-> {}, got |-> {}]}
  BY Zenon DEF ToolsInit
<1>2. tab \in ToolTabs
  BY Zenon DEF ToolsInit
<1>3. \A c \in asked : c.kind = Fetches(tab)
  BY <1>1
<1>4. \A c \in asked : c.kind \notin {"batch", "document", "payments", "sendall"}
  BY <1>2, <1>3, FetchesOf
<1>5. stored = [laki |-> [h \in Haut |-> Lait], rows |-> [h \in Haut |-> <<>>], ids |-> 0,
               mailed |-> [h \in Haut |-> 0], marked |-> [h \in Haut |-> FALSE],
               unsent |-> [h \in Haut |-> TRUE], batch |-> [h \in Haut |-> "none"],
               docs |-> [h \in Haut |-> {}]]
  BY Zenon DEF ToolsInit
<1>6. \A h \in Haut : stored.mailed[h] = 0 /\ stored.marked[h] = FALSE /\ stored.batch[h] = "none"
  BY <1>5
<1> QED BY <1>4, <1>6 DEF DocumentsFollow, MailedAsMarked, MailedOnce, MarkedWasMailed, IsMailing, IsPosted,
              SentBatchHasDocuments

-----------------------------------------------------------------------------
(* The tools of the grant editor: what an indicator is on for                *)

ManualCalls == RowCalls \cup {"postLaki", "admin", "adminRefresh"}
ManualForAReason == shown.manual => shown.delays # {} \/ \E c \in asked : c.kind \in ManualCalls
MailForAReason == shown.mail.sending => \E c \in asked : c.kind = "sendall"
\* Payments go out one batch at a time, and the indicator tells how.
PayForAReason ==
  /\ shown.pay.sending = "send" => \E c \in asked : c.kind \in PayCalls
  /\ \A c \in asked : c.kind \in PayCalls =>
       /\ c.arg.mode = shown.pay.sending
       /\ \A d \in asked : d.kind \in PayCalls => d = c
ReportForAReason == shown.report.sending => \E c \in asked : c.kind = "notify"
ToolsBusy ==
  "failed" \notin why => ManualForAReason /\ MailForAReason /\ PayForAReason /\ ReportForAReason

LEMMA BusyTold ==
  ASSUME ToolsBusy
  PROVE  ToolsBusyHasAReason
BY DEF ToolsBusy, ManualForAReason, MailForAReason, PayForAReason, ReportForAReason, ManualCalls,
       ToolsBusyHasAReason, Waiting, PayCalls

\* Every request of some kinds that was under way is followed by one of these kinds.
Survives(kinds) == \A c \in asked : c.kind \in kinds => \E d \in asked' : d.kind \in kinds

LEMMA ManualGoesOn ==
  ASSUME ManualForAReason, shown'.manual => shown.manual, shown'.delays = shown.delays, Survives(ManualCalls)
  PROVE  ManualForAReason'
BY DEF ManualForAReason, Survives
LEMMA MailGoesOn ==
  ASSUME MailForAReason, shown'.mail.sending => shown.mail.sending, Survives({"sendall"})
  PROVE  MailForAReason'
BY DEF MailForAReason, Survives
LEMMA ReportGoesOn ==
  ASSUME ReportForAReason, shown'.report.sending => shown.report.sending, Survives({"notify"})
  PROVE  ReportForAReason'
BY DEF ReportForAReason, Survives
LEMMA PayGoesOn ==
  ASSUME PayForAReason, shown'.pay.sending = shown.pay.sending, Survives(PayCalls),
         \A c \in asked' : c.kind \in PayCalls => c \in asked
  PROVE  PayForAReason'
BY DEF PayForAReason, Survives

\* A step that adds requests, or drops one or follows one by another.
Adds(kinds) == asked \subseteq asked' /\ \A c \in asked' : c \in asked \/ c.kind \in kinds
Turns(c, kinds) ==
  /\ \A b \in asked : b = c \/ b \in asked'
  /\ \A b \in asked' : b \in asked \/ b.kind \in kinds
LEMMA AddsSurvives ==
  ASSUME NEW new, Adds(new), NEW kinds
  PROVE  Survives(kinds) /\ (kinds \cap new = {} => \A c \in asked' : c.kind \in kinds => c \in asked)
BY DEF Adds, Survives
LEMMA TurnsSurvives ==
  ASSUME NEW c, NEW new, Turns(c, new), NEW kinds
  PROVE  /\ c.kind \notin kinds => Survives(kinds)
         /\ kinds \cap new = {} => \A b \in asked' : b.kind \in kinds => b \in asked
BY DEF Turns, Survives

LEMMA NewAdds ==
  ASSUME NEW d, NEW kind, NEW h, NEW arg, NewAsk(d, kind, h, arg), asked' = asked \cup {d}
  PROVE  Adds({kind}) /\ d \in asked' /\ d.kind = kind
BY DEF NewAsk, Adds
LEMMA NewTurns ==
  ASSUME NEW c, NEW d, NEW kind, NEW h, NEW arg, NewAsk(d, kind, h, arg), asked' = (asked \ {c}) \cup {d}
  PROVE  Turns(c, {kind}) /\ d \in asked' /\ d.kind = kind
BY DEF NewAsk, Turns
LEMMA DropTurns ==
  ASSUME NEW c, asked' = asked \ {c}
  PROVE  Turns(c, {})
BY DEF Turns

LEMMA NothingDiffers == Nothing # "send" /\ Nothing # "paid"
BY Zenon DEF Nothing

LEMMA SameCallsSameReasons ==
  ASSUME ManualForAReason, MailForAReason, PayForAReason, ReportForAReason, shown' = shown,
         NEW c \in asked, NEW d, asked' = (asked \ {c}) \cup {d}, d.kind = c.kind, d.arg = c.arg
  PROVE  ManualForAReason' /\ MailForAReason' /\ PayForAReason' /\ ReportForAReason'
BY DEF ManualForAReason, MailForAReason, PayForAReason, ReportForAReason

\* What happened that the page does not tell is not forgotten.
LEMMA StepsRemember ==
  ASSUME ToolsNext
  PROVE  why \subseteq why'
BY Zenon DEF ToolsNext, Lainsaadanto, Raportointivelvoite, DeleteRaportointivelvoite,
   DebouncedRaportointivelvoite, OnPreview, PreviewEnds, DecisionDateAndSend, ResendDecisions,
   RegenerateDecisions, DocumentEditor, LahtevatMaksatukset, AdminTools, OnSendSelvitys, OpenHaku,
   AnswerTool, StoreTool, GetHakemusIdsToSend, SendPaatosForAll, SendPaatos, SendPaatosFails,
   AddPaatosSentEmails, LakiAnswered, RowAnswered,
   Raportointivelvoitteet, EmailStateFetched, SendAnswered, ResendAnswered, RegenerateAnswered,
   CreatePaymentBatches, PaymentsAnswered, MaksatuksetPage, AdminAnswered, AdminRefreshed,
   SelvitysSent, FetchTapahtumaloki, ToolFails, Hurry, Hurried, Act, RowsGo, Note

LEMMA IndicatorsGoOn ==
  ASSUME ToolsTyped, DocumentsLeft, ToolsBusy, ToolsNext
  PROVE  ToolsBusy'
<1> DEFINE Goal == ManualForAReason' /\ MailForAReason' /\ PayForAReason' /\ ReportForAReason'
<1>0. tab \in ToolTabs /\ openHaku \in Haut /\ shown.manual \in BOOLEAN
  BY DEF ToolsTyped, Tab
<1>w. why \subseteq why'
  BY StepsRemember
<1> SUFFICES ASSUME "failed" \notin why' PROVE Goal
  BY DEF ToolsBusy
<1>b. ManualForAReason /\ MailForAReason /\ PayForAReason /\ ReportForAReason
  BY <1>w DEF ToolsBusy
<1>1. ASSUME NEW l \in Lait, Lainsaadanto(l) PROVE Goal
  <2>1. PICK d, arg : asked' = asked \cup {d} /\ NewAsk(d, "postLaki", openHaku, arg)
    BY <1>1, LakiActs
  <2>2. Adds({"postLaki"}) /\ d \in asked' /\ d.kind = "postLaki"
    BY <2>1, NewAdds
  <2>a. /\ Survives(ManualCalls) /\ Survives({"sendall"}) /\ Survives(PayCalls) /\ Survives({"notify"})
        /\ \A c \in asked' : c.kind \in PayCalls /\ "postLaki" \notin PayCalls => c \in asked
    BY <2>2, AddsSurvives
  <2>f. /\ shown'.manual = TRUE /\ shown'.delays = shown.delays
        /\ shown'.mail.sending = shown.mail.sending /\ shown'.pay.sending = shown.pay.sending
        /\ shown'.report.sending = shown.report.sending
    BY <1>1, <1>0, LakiActs DEF ManualIs, TabIs
  <2>m1. ManualForAReason'
    BY <2>2 DEF ManualForAReason, ManualCalls, RowCalls
  <2>m2. MailForAReason'
    BY <1>b, <2>a, <2>f, MailGoesOn
  <2>p. PayForAReason'
    <3>1. "postLaki" \notin PayCalls
      BY DEF PayCalls
    <3> QED BY <1>b, <2>a, <2>f, <3>1, PayGoesOn
  <2>r. ReportForAReason'
    BY <1>b, <2>a, <2>f, ReportGoesOn
  <2> QED BY <2>m1, <2>m2, <2>p, <2>r
<1>2. ASSUME NEW i \in DOMAIN shown.rows, Raportointivelvoite(i) PROVE Goal
  <2>1. asked' = asked
    BY <1>2, RowActs
  <2>a. /\ Survives(ManualCalls) /\ Survives({"sendall"}) /\ Survives(PayCalls) /\ Survives({"notify"})
        /\ \A c \in asked' : c.kind \in PayCalls => c \in asked
    BY <2>1 DEF Survives
  <2>f. /\ shown'.delays # {}
        /\ shown'.mail.sending = shown.mail.sending /\ shown'.pay.sending = shown.pay.sending
        /\ shown'.report.sending = shown.report.sending
    BY <1>2, <1>0, RowActs DEF Edits, TabIs
  <2>m1. ManualForAReason'
    BY <2>f DEF ManualForAReason
  <2>m2. MailForAReason'
    BY <1>b, <2>a, <2>f, MailGoesOn
  <2>p. PayForAReason'
    BY <1>b, <2>a, <2>f, PayGoesOn
  <2>r. ReportForAReason'
    BY <1>b, <2>a, <2>f, ReportGoesOn
  <2> QED BY <2>m1, <2>m2, <2>p, <2>r
<1>3. ASSUME NEW i \in DOMAIN shown.rows, DeleteRaportointivelvoite(i) PROVE Goal
  <2>1. PICK d : asked' = asked \cup {d} /\ NewAsk(d, "deleteRow", openHaku, shown.rows[i])
    BY <1>3, DeleteActs
  <2>2. Adds({"deleteRow"}) /\ d \in asked' /\ d.kind = "deleteRow"
    BY <2>1, NewAdds
  <2>a. /\ Survives(ManualCalls) /\ Survives({"sendall"}) /\ Survives(PayCalls) /\ Survives({"notify"})
        /\ \A c \in asked' : c.kind \in PayCalls /\ "deleteRow" \notin PayCalls => c \in asked
    BY <2>2, AddsSurvives
  <2>f. /\ shown'.manual = TRUE /\ shown'.delays = shown.delays
        /\ shown'.mail.sending = shown.mail.sending /\ shown'.pay.sending = shown.pay.sending
        /\ shown'.report.sending = shown.report.sending
    BY <1>3, <1>0, DeleteActs DEF ManualIs, TabIs
  <2>m1. ManualForAReason'
    BY <2>2 DEF ManualForAReason, ManualCalls, RowCalls
  <2>m2. MailForAReason'
    BY <1>b, <2>a, <2>f, MailGoesOn
  <2>p. PayForAReason'
    <3>1. "deleteRow" \notin PayCalls
      BY DEF PayCalls
    <3> QED BY <1>b, <2>a, <2>f, <3>1, PayGoesOn
  <2>r. ReportForAReason'
    BY <1>b, <2>a, <2>f, ReportGoesOn
  <2> QED BY <2>m1, <2>m2, <2>p, <2>r
<1>4. ASSUME NEW p \in shown.delays, DebouncedRaportointivelvoite(p) PROVE Goal
  <2>0. PICK kind \in {"putRow", "postRow"} : kind = IF p.row.id = NoRow THEN "putRow" ELSE "postRow"
    OBVIOUS
  <2>1. PICK d : asked' = asked \cup {d} /\ NewAsk(d, kind, p.h, p.row)
    BY <1>4, <2>0, DelayEnds
  <2>2. Adds({kind}) /\ d \in asked' /\ d.kind = kind
    BY <2>1, NewAdds
  <2>a. /\ Survives(ManualCalls) /\ Survives({"sendall"}) /\ Survives(PayCalls) /\ Survives({"notify"})
        /\ \A c \in asked' : c.kind \in PayCalls /\ kind \notin PayCalls => c \in asked
    BY <2>2, AddsSurvives
  <2>f. /\ shown'.manual = shown.manual /\ shown'.delays = shown.delays \ {p}
        /\ shown'.mail.sending = shown.mail.sending /\ shown'.pay.sending = shown.pay.sending
        /\ shown'.report.sending = shown.report.sending
    BY <1>4, <1>0, DelayEnds DEF TabIs
  <2>m1. ManualForAReason'
    BY <2>2 DEF ManualForAReason, ManualCalls, RowCalls
  <2>m2. MailForAReason'
    BY <1>b, <2>a, <2>f, MailGoesOn
  <2>p. PayForAReason'
    <3>1. kind \notin PayCalls
      BY DEF PayCalls
    <3> QED BY <1>b, <2>a, <2>f, <3>1, PayGoesOn
  <2>r. ReportForAReason'
    BY <1>b, <2>a, <2>f, ReportGoesOn
  <2> QED BY <2>m1, <2>m2, <2>p, <2>r
<1>5. ASSUME OnPreview PROVE Goal
  <2>1. asked' = asked
    BY <1>5, PreviewActs
  <2>a. /\ Survives(ManualCalls) /\ Survives({"sendall"}) /\ Survives(PayCalls) /\ Survives({"notify"})
        /\ \A c \in asked' : c.kind \in PayCalls => c \in asked
    BY <2>1 DEF Survives
  <2>f. /\ shown'.manual = shown.manual /\ shown'.delays = shown.delays
        /\ shown'.mail.sending = shown.mail.sending /\ shown'.pay.sending = shown.pay.sending
        /\ shown'.report.sending = shown.report.sending
    BY <1>5, <1>0, PreviewActs DEF MailSame, MailGoes, MailIs, TabIs
  <2>m1. ManualForAReason'
    BY <1>b, <2>a, <2>f, ManualGoesOn
  <2>m2. MailForAReason'
    BY <1>b, <2>a, <2>f, MailGoesOn
  <2>p. PayForAReason'
    BY <1>b, <2>a, <2>f, PayGoesOn
  <2>r. ReportForAReason'
    BY <1>b, <2>a, <2>f, ReportGoesOn
  <2> QED BY <2>m1, <2>m2, <2>p, <2>r
<1>6. ASSUME PreviewEnds PROVE Goal
  <2>1. asked' = asked
    BY <1>6, PreviewActs
  <2>a. /\ Survives(ManualCalls) /\ Survives({"sendall"}) /\ Survives(PayCalls) /\ Survives({"notify"})
        /\ \A c \in asked' : c.kind \in PayCalls => c \in asked
    BY <2>1 DEF Survives
  <2>f. /\ shown'.manual = shown.manual /\ shown'.delays = shown.delays
        /\ shown'.mail.sending = shown.mail.sending /\ shown'.pay.sending = shown.pay.sending
        /\ shown'.report.sending = shown.report.sending
    BY <1>6, <1>0, PreviewActs DEF MailSame, MailGoes, MailIs, TabIs
  <2>m1. ManualForAReason'
    BY <1>b, <2>a, <2>f, ManualGoesOn
  <2>m2. MailForAReason'
    BY <1>b, <2>a, <2>f, MailGoesOn
  <2>p. PayForAReason'
    BY <1>b, <2>a, <2>f, PayGoesOn
  <2>r. ReportForAReason'
    BY <1>b, <2>a, <2>f, ReportGoesOn
  <2> QED BY <2>m1, <2>m2, <2>p, <2>r
<1>7. ASSUME DecisionDateAndSend PROVE Goal
  <2>1. PICK d : asked' = asked \cup {d} /\ NewAsk(d, "sendall", openHaku, {})
    BY <1>7, SendActs
  <2>2. Adds({"sendall"}) /\ d \in asked' /\ d.kind = "sendall"
    BY <2>1, NewAdds
  <2>a. /\ Survives(ManualCalls) /\ Survives({"sendall"}) /\ Survives(PayCalls) /\ Survives({"notify"})
        /\ \A c \in asked' : c.kind \in PayCalls /\ "sendall" \notin PayCalls => c \in asked
    BY <2>2, AddsSurvives
  <2>f. /\ shown'.manual = shown.manual /\ shown'.delays = shown.delays
        /\ shown'.mail.sending = TRUE /\ shown'.pay.sending = shown.pay.sending
        /\ shown'.report.sending = shown.report.sending
    BY <1>7, <1>0, SendActs DEF MailGoes, MailIs, TabIs
  <2>m1. ManualForAReason'
    BY <1>b, <2>a, <2>f, ManualGoesOn
  <2>m2. MailForAReason'
    BY <2>2 DEF MailForAReason
  <2>p. PayForAReason'
    <3>1. "sendall" \notin PayCalls
      BY DEF PayCalls
    <3> QED BY <1>b, <2>a, <2>f, <3>1, PayGoesOn
  <2>r. ReportForAReason'
    BY <1>b, <2>a, <2>f, ReportGoesOn
  <2> QED BY <2>m1, <2>m2, <2>p, <2>r
<1>8. ASSUME ResendDecisions \/ RegenerateDecisions PROVE Goal
  <2>1. PICK d, kind : kind \in {"resendall", "regenerate"} /\ asked' = asked \cup {d} /\ NewAsk(d, kind, openHaku, {})
    BY <1>8, ResendActs
  <2>2. Adds({kind})
    BY <2>1, NewAdds
  <2>a. /\ Survives(ManualCalls) /\ Survives({"sendall"}) /\ Survives(PayCalls) /\ Survives({"notify"})
        /\ \A c \in asked' : c.kind \in PayCalls /\ kind \notin PayCalls => c \in asked
    BY <2>2, AddsSurvives
  <2>f. /\ shown'.manual = shown.manual /\ shown'.delays = shown.delays
        /\ shown'.mail.sending = shown.mail.sending /\ shown'.pay.sending = shown.pay.sending
        /\ shown'.report.sending = shown.report.sending
    BY <1>8, <1>0, ResendActs DEF MailSame, MailGoes, MailIs, TabIs
  <2>m1. ManualForAReason'
    BY <1>b, <2>a, <2>f, ManualGoesOn
  <2>m2. MailForAReason'
    BY <1>b, <2>a, <2>f, MailGoesOn
  <2>p. PayForAReason'
    <3>1. kind \notin PayCalls
      BY <2>1 DEF PayCalls
    <3> QED BY <1>b, <2>a, <2>f, <3>1, PayGoesOn
  <2>r. ReportForAReason'
    BY <1>b, <2>a, <2>f, ReportGoesOn
  <2> QED BY <2>m1, <2>m2, <2>p, <2>r
<1>9. ASSUME NEW p \in Phases, DocumentEditor(p) PROVE Goal
  <2>1. asked' = asked
    BY <1>9, DocumentActs
  <2>a. /\ Survives(ManualCalls) /\ Survives({"sendall"}) /\ Survives(PayCalls) /\ Survives({"notify"})
        /\ \A c \in asked' : c.kind \in PayCalls => c \in asked
    BY <2>1 DEF Survives
  <2>f. /\ shown'.manual = shown.manual /\ shown'.delays = shown.delays
        /\ shown'.mail.sending = shown.mail.sending /\ shown'.pay.sending = shown.pay.sending
        /\ shown'.report.sending = shown.report.sending
    BY <1>9, <1>0, DocumentActs DEF PayGoes, PayIs, TabIs
  <2>m1. ManualForAReason'
    BY <1>b, <2>a, <2>f, ManualGoesOn
  <2>m2. MailForAReason'
    BY <1>b, <2>a, <2>f, MailGoesOn
  <2>p. PayForAReason'
    BY <1>b, <2>a, <2>f, PayGoesOn
  <2>r. ReportForAReason'
    BY <1>b, <2>a, <2>f, ReportGoesOn
  <2> QED BY <2>m1, <2>m2, <2>p, <2>r
<1>10. ASSUME NEW mode \in {"send", "paid"}, LahtevatMaksatukset(mode) PROVE Goal
  <2>1. PICK d, arg : asked' = asked \cup {d} /\ NewAsk(d, "batch", openHaku, arg) /\ arg.mode = mode
    BY <1>10, PaymentsAct
  <2>2. Adds({"batch"}) /\ d \in asked' /\ d.kind = "batch" /\ d.arg.mode = mode
    BY <2>1, NewAdds DEF NewAsk
  <2>a. /\ Survives(ManualCalls) /\ Survives({"sendall"}) /\ Survives({"notify"})
    BY <2>2, AddsSurvives
  <2>f. /\ shown'.manual = shown.manual /\ shown'.delays = shown.delays
        /\ shown'.mail.sending = shown.mail.sending /\ shown'.pay.sending = mode
        /\ shown'.report.sending = shown.report.sending
    BY <1>10, <1>0, PaymentsAct DEF PayGoes, PayIs, TabIs
  <2>m1. ManualForAReason'
    BY <1>b, <2>a, <2>f, ManualGoesOn
  <2>m2. MailForAReason'
    BY <1>b, <2>a, <2>f, MailGoesOn
  <2>p. PayForAReason'
    <3>1. shown.pay.sending # "send" /\ shown.pay.sending # "paid"
      BY <1>10, PaymentsAct, NothingDiffers
    <3>2. \A c \in asked : c.kind \notin PayCalls
      <4>1. \A c \in asked : c.kind \in PayCalls => c.arg.mode \in {"send", "paid"}
        BY AskFacts DEF ToolsTyped
      <4> QED BY <1>b, <3>1, <4>1 DEF PayForAReason
    <3>3. "batch" \in PayCalls
      BY DEF PayCalls
    <3> QED BY <2>1, <2>2, <2>f, <3>2, <3>3 DEF PayForAReason
  <2>r. ReportForAReason'
    BY <1>b, <2>a, <2>f, ReportGoesOn
  <2> QED BY <2>m1, <2>m2, <2>p, <2>r
<1>11. ASSUME NEW make \in BOOLEAN, AdminTools(make) PROVE Goal
  <2>1. PICK d : asked' = asked \cup {d} /\ NewAsk(d, "admin", openHaku, make)
    BY <1>11, AdminActs
  <2>2. Adds({"admin"}) /\ d \in asked' /\ d.kind = "admin"
    BY <2>1, NewAdds
  <2>a. /\ Survives(ManualCalls) /\ Survives({"sendall"}) /\ Survives(PayCalls) /\ Survives({"notify"})
        /\ \A c \in asked' : c.kind \in PayCalls /\ "admin" \notin PayCalls => c \in asked
    BY <2>2, AddsSurvives
  <2>f. /\ shown'.manual = TRUE /\ shown'.delays = shown.delays
        /\ shown'.mail.sending = shown.mail.sending /\ shown'.pay.sending = shown.pay.sending
        /\ shown'.report.sending = shown.report.sending
    BY <1>11, <1>0, AdminActs DEF ManualIs, TabIs
  <2>m1. ManualForAReason'
    BY <2>2 DEF ManualForAReason, ManualCalls, RowCalls
  <2>m2. MailForAReason'
    BY <1>b, <2>a, <2>f, MailGoesOn
  <2>p. PayForAReason'
    <3>1. "admin" \notin PayCalls
      BY DEF PayCalls
    <3> QED BY <1>b, <2>a, <2>f, <3>1, PayGoesOn
  <2>r. ReportForAReason'
    BY <1>b, <2>a, <2>f, ReportGoesOn
  <2> QED BY <2>m1, <2>m2, <2>p, <2>r
<1>12. ASSUME OnSendSelvitys PROVE Goal
  <2>1. PICK d : asked' = asked \cup {d} /\ NewAsk(d, "notify", openHaku, {})
    BY <1>12, ReportActs
  <2>2. Adds({"notify"}) /\ d \in asked' /\ d.kind = "notify"
    BY <2>1, NewAdds
  <2>a. /\ Survives(ManualCalls) /\ Survives({"sendall"}) /\ Survives(PayCalls) /\ Survives({"notify"})
        /\ \A c \in asked' : c.kind \in PayCalls /\ "notify" \notin PayCalls => c \in asked
    BY <2>2, AddsSurvives
  <2>f. /\ shown'.manual = shown.manual /\ shown'.delays = shown.delays
        /\ shown'.mail.sending = shown.mail.sending /\ shown'.pay.sending = shown.pay.sending
        /\ shown'.report.sending = TRUE
    BY <1>12, <1>0, ReportActs DEF ReportGoes, ReportIs, TabIs
  <2>m1. ManualForAReason'
    BY <1>b, <2>a, <2>f, ManualGoesOn
  <2>m2. MailForAReason'
    BY <1>b, <2>a, <2>f, MailGoesOn
  <2>p. PayForAReason'
    <3>1. "notify" \notin PayCalls
      BY DEF PayCalls
    <3> QED BY <1>b, <2>a, <2>f, <3>1, PayGoesOn
  <2>r. ReportForAReason'
    BY <2>2 DEF ReportForAReason
  <2> QED BY <2>m1, <2>m2, <2>p, <2>r
<1>13. ASSUME NEW h \in Haut, OpenHaku(h) PROVE Goal
  <2>0. PICK kind \in {"getLaki", "getRows", "getSent", "getPayments", "getLog"} : kind = Fetches(tab)
    BY <1>0, FetchesOf
  <2>1. PICK d : asked' = asked \cup {d} /\ NewAsk(d, kind, h, {})
    BY <1>13, <2>0, HakuOpens
  <2>2. Adds({kind}) /\ d \in asked' /\ d.kind = kind
    BY <2>1, NewAdds
  <2>a. /\ Survives(ManualCalls) /\ Survives({"sendall"}) /\ Survives(PayCalls) /\ Survives({"notify"})
        /\ \A c \in asked' : c.kind \in PayCalls /\ kind \notin PayCalls => c \in asked
    BY <2>2, AddsSurvives
  <2>f. /\ shown'.manual = shown.manual /\ shown'.delays = shown.delays
        /\ ~shown'.mail.sending /\ shown'.pay.sending = shown.pay.sending /\ ~shown'.report.sending
    BY <1>13, <1>0, HakuOpens DEF TabIs
  <2>m1. ManualForAReason'
    BY <1>b, <2>a, <2>f, ManualGoesOn
  <2>m2. MailForAReason'
    BY <1>b, <2>a, <2>f, MailGoesOn
  <2>p. PayForAReason'
    <3>1. kind \notin PayCalls
      BY DEF PayCalls
    <3> QED BY <1>b, <2>a, <2>f, <3>1, PayGoesOn
  <2>r. ReportForAReason'
    BY <1>b, <2>a, <2>f, ReportGoesOn
  <2> QED BY <2>m1, <2>m2, <2>p, <2>r
<1>14. ASSUME NEW c \in asked, AnswerTool(c) PROVE Goal
  <2>1. PICK d : asked' = (asked \ {c}) \cup {d} /\ GoesOn(d, c, "answered", Found(c))
    BY <1>14, ServerAnswers
  <2>2. d.kind = c.kind /\ d.arg = c.arg
    BY <2>1 DEF GoesOn
  <2>3. shown' = shown
    BY <1>14 DEF AnswerTool
  <2> QED BY <1>b, <2>1, <2>2, <2>3, SameCallsSameReasons
<1>15. ASSUME NEW c \in asked, StoreTool(c) PROVE Goal
  <2>1. PICK d : asked' = (asked \ {c}) \cup {d} /\ GoesOn(d, c, "answered", c.got)
    BY <1>15, StoreToolDoes
  <2>2. d.kind = c.kind /\ d.arg = c.arg
    BY <2>1 DEF GoesOn
  <2>3. shown' = shown
    BY <1>15 DEF StoreTool
  <2> QED BY <1>b, <2>1, <2>2, <2>3, SameCallsSameReasons
<1>16. ASSUME NEW c \in asked, GetHakemusIdsToSend(c) PROVE Goal
  <2>1. PICK d : asked' = (asked \ {c}) \cup {d} /\ GoesOn(d, c, IF stored.marked[c.h] THEN "mailed" ELSE "listed", {})
    BY <1>16, ListsToSend
  <2>2. d.kind = c.kind /\ d.arg = c.arg
    BY <2>1 DEF GoesOn
  <2>3. shown' = shown
    BY <1>16 DEF GetHakemusIdsToSend
  <2> QED BY <1>b, <2>1, <2>2, <2>3, SameCallsSameReasons
<1>17. ASSUME NEW c \in asked, SendPaatosForAll(c) PROVE Goal
  <2>1. PICK d, at : asked' = (asked \ {c}) \cup {d} /\ GoesOn(d, c, at, {})
    BY <1>17, ServerPosts
  <2>2. d.kind = c.kind /\ d.arg = c.arg
    BY <2>1 DEF GoesOn
  <2>3. shown' = shown
    BY <1>17, Zenon DEF SendPaatosForAll, SendPaatos, SendPaatosFails, AddPaatosSentEmails
  <2> QED BY <1>b, <2>1, <2>2, <2>3, SameCallsSameReasons
<1>18. ASSUME NEW c \in asked, LakiAnswered(c) PROVE Goal
  <2>1. asked' = asked \ {c} /\ c.kind \in LakiCalls
    BY <1>18 DEF LakiAnswered
  <2>2. Turns(c, {})
    BY <2>1, DropTurns
  <2>a. /\ Survives({"sendall"}) /\ Survives(PayCalls) /\ Survives({"notify"})
        /\ \A b \in asked' : b.kind \in PayCalls => b \in asked
    <3>1. c.kind \notin {"sendall"} /\ c.kind \notin PayCalls /\ c.kind \notin {"notify"}
      BY <1>18, <2>1 DEF ManualCalls, PayCalls, RowCalls, LakiCalls
    <3> QED BY <2>2, <3>1, TurnsSurvives
  <2>f. /\ shown'.manual = (shown.manual /\ c.kind = "getLaki") /\ shown'.delays = shown.delays
        /\ shown'.mail.sending = shown.mail.sending /\ shown'.pay.sending = shown.pay.sending
        /\ shown'.report.sending = shown.report.sending
    BY <1>18, <1>0, LakiAnswers DEF TabIs
  <2>m1. ManualForAReason'
    <3>1. CASE c.kind = "getLaki"
      <4>1. c.kind \notin ManualCalls
        BY <3>1 DEF ManualCalls, RowCalls
      <4>2. Survives(ManualCalls)
        BY <2>2, <4>1, TurnsSurvives
      <4> QED BY <1>0, <1>b, <2>f, <3>1, <4>2, ManualGoesOn
    <3>2. CASE c.kind # "getLaki"
      BY <2>f, <3>2 DEF ManualForAReason
    <3> QED BY <3>1, <3>2
  <2>m2. MailForAReason'
    BY <1>b, <2>a, <2>f, MailGoesOn
  <2>p. PayForAReason'
    BY <1>b, <2>a, <2>f, PayGoesOn
  <2>r. ReportForAReason'
    BY <1>b, <2>a, <2>f, ReportGoesOn
  <2> QED BY <2>m1, <2>m2, <2>p, <2>r
<1>19. ASSUME NEW c \in asked, RowAnswered(c) PROVE Goal
  <2>1. c.kind \in RowCalls
    BY <1>19 DEF RowAnswered
  <2>3. PICK d : asked' = (asked \ {c}) \cup {d} /\ NewAsk(d, "getRows", openHaku, {})
    BY <1>19, RowAnswers
  <2>2. Turns(c, {"getRows"}) /\ d \in asked' /\ d.kind = "getRows"
    BY <2>3, NewTurns
  <2>a. /\ Survives({"sendall"}) /\ Survives(PayCalls) /\ Survives({"notify"})
        /\ \A b \in asked' : b.kind \in PayCalls => b \in asked
    <3>1. c.kind \notin {"sendall"} /\ c.kind \notin PayCalls /\ c.kind \notin {"notify"}
      BY <1>19, <2>1 DEF ManualCalls, PayCalls, RowCalls, LakiCalls
    <3>2. PayCalls \cap {"getRows"} = {}
      BY DEF PayCalls
    <3> QED BY <2>2, <3>2, <3>1, TurnsSurvives
  <2>f. /\ shown'.manual = FALSE /\ shown'.delays = shown.delays
        /\ shown'.mail.sending = shown.mail.sending /\ shown'.pay.sending = shown.pay.sending
        /\ shown'.report.sending = shown.report.sending
    BY <1>19, <1>0, RowAnswers DEF ManualIs, TabIs
  <2>m1. ManualForAReason'
    BY <2>f DEF ManualForAReason
  <2>m2. MailForAReason'
    BY <1>b, <2>a, <2>f, MailGoesOn
  <2>p. PayForAReason'
    BY <1>b, <2>a, <2>f, PayGoesOn
  <2>r. ReportForAReason'
    BY <1>b, <2>a, <2>f, ReportGoesOn
  <2> QED BY <2>m1, <2>m2, <2>p, <2>r
<1>20. ASSUME NEW c \in asked, Raportointivelvoitteet(c) PROVE Goal
  <2>1. asked' = asked \ {c} /\ c.kind = "getRows"
    BY <1>20 DEF Raportointivelvoitteet
  <2>2. Turns(c, {})
    BY <2>1, DropTurns
  <2>f. /\ shown'.manual = shown.manual /\ shown'.delays = shown.delays
        /\ shown'.mail.sending = shown.mail.sending /\ shown'.pay.sending = shown.pay.sending
        /\ shown'.report.sending = shown.report.sending
    BY <1>20, RowsCome DEF Comes, TabStays, TabIs
  <2>a. /\ Survives(ManualCalls) /\ Survives({"sendall"}) /\ Survives(PayCalls) /\ Survives({"notify"})
        /\ \A b \in asked' : b.kind \in PayCalls => b \in asked
    <3>1. c.kind \notin ManualCalls /\ c.kind \notin {"sendall"} /\ c.kind \notin PayCalls /\ c.kind \notin {"notify"}
      BY <1>20, <2>1 DEF ManualCalls, PayCalls, RowCalls, LakiCalls
    <3> QED BY <2>2, <3>1, TurnsSurvives
  <2> QED BY <1>b, <2>a, <2>f, ManualGoesOn, MailGoesOn, PayGoesOn, ReportGoesOn
<1>21. ASSUME NEW c \in asked, EmailStateFetched(c) \/ SendAnswered(c) PROVE Goal
  <2>1. asked' = asked \ {c} /\ c.kind \in {"getSent", "sendall"}
    BY <1>21, SentComes
  <2>2. Turns(c, {})
    BY <2>1, DropTurns
  <2>a. /\ Survives(ManualCalls) /\ Survives(PayCalls) /\ Survives({"notify"})
        /\ \A b \in asked' : b.kind \in PayCalls => b \in asked
    <3>1. c.kind \notin ManualCalls /\ c.kind \notin PayCalls /\ c.kind \notin {"notify"}
      BY <1>21, <2>1 DEF ManualCalls, PayCalls, RowCalls, LakiCalls
    <3> QED BY <2>2, <3>1, TurnsSurvives
  <2>f. /\ shown'.manual = shown.manual /\ shown'.delays = shown.delays
        /\ (shown'.mail.sending => shown.mail.sending /\ c.kind # "sendall") /\ shown'.pay.sending = shown.pay.sending
        /\ shown'.report.sending = shown.report.sending
    BY <1>21, <1>0, SentComes DEF MailGoes, MailIs, TabIs
  <2>m1. ManualForAReason'
    BY <1>b, <2>a, <2>f, ManualGoesOn
  <2>m2. MailForAReason'
    <3>1. CASE c.kind = "sendall"
      BY <2>f, <3>1 DEF MailForAReason
    <3>2. CASE c.kind # "sendall"
      <4>1. Survives({"sendall"})
        BY <2>2, <3>2, TurnsSurvives
      <4> QED BY <1>b, <2>f, <4>1, MailGoesOn
    <3> QED BY <3>1, <3>2
  <2>p. PayForAReason'
    BY <1>b, <2>a, <2>f, PayGoesOn
  <2>r. ReportForAReason'
    BY <1>b, <2>a, <2>f, ReportGoesOn
  <2> QED BY <2>m1, <2>m2, <2>p, <2>r
<1>22. ASSUME NEW c \in asked, ResendAnswered(c) \/ RegenerateAnswered(c) PROVE Goal
  <2>1. c.kind \in {"resendall", "regenerate"}
    BY <1>22, ResendAnswers
  <2>2. Turns(c, {"getSent"})
    <3>1. CASE asked' = asked \ {c}
      BY <3>1 DEF Turns
    <3>2. CASE \E d : asked' = (asked \ {c}) \cup {d} /\ NewAsk(d, "getSent", c.h, {})
      BY <3>2, NewTurns
    <3> QED BY <1>22, <3>1, <3>2, ResendAnswers
  <2>f. /\ shown'.manual = shown.manual /\ shown'.delays = shown.delays
        /\ shown'.mail.sending = shown.mail.sending /\ shown'.pay.sending = shown.pay.sending
        /\ shown'.report.sending = shown.report.sending
    BY <1>22, ResendAnswers DEF MailSame, MailGoes, MailIs, TabIs
  <2>a. /\ Survives(ManualCalls) /\ Survives({"sendall"}) /\ Survives(PayCalls) /\ Survives({"notify"})
        /\ \A b \in asked' : b.kind \in PayCalls => b \in asked
    <3>1. c.kind \notin ManualCalls /\ c.kind \notin {"sendall"} /\ c.kind \notin PayCalls /\ c.kind \notin {"notify"}
      BY <1>22, <2>1 DEF ManualCalls, PayCalls, RowCalls, LakiCalls
    <3>2. PayCalls \cap {"getSent"} = {}
      BY DEF PayCalls
    <3> QED BY <2>2, <3>2, <3>1, TurnsSurvives
  <2> QED BY <1>b, <2>a, <2>f, ManualGoesOn, MailGoesOn, PayGoesOn, ReportGoesOn
<1>23. ASSUME NEW c \in asked, CreatePaymentBatches(c) PROVE Goal
  <2>1. PICK d, left, arg :
              /\ left = IF c.kind = "batch" THEN c.arg.docs ELSE c.arg.docs \ {NextDocument(c)}
              /\ asked' = (asked \ {c}) \cup {d}
              /\ NewAsk(d, IF left = {} THEN "payments" ELSE "document", c.h, arg)
              /\ arg.mode = c.arg.mode /\ arg.docs = left
    BY <1>23, BatchGoesOn
  <2>2. d.arg.mode = c.arg.mode /\ d.kind \in {"payments", "document"} /\ c.kind \in {"batch", "document"}
        /\ shown' = shown
    BY <1>23, <2>1, BatchGoesOn DEF NewAsk
  <2>m. ManualForAReason' /\ MailForAReason' /\ ReportForAReason'
    BY <1>b, <2>1, <2>2 DEF ManualForAReason, MailForAReason, ReportForAReason, ManualCalls, RowCalls
  <2>p. PayForAReason'
    BY <1>b, <2>1, <2>2 DEF PayForAReason, PayCalls
  <2> QED BY <2>m, <2>p
<1>24. ASSUME NEW c \in asked, PaymentsAnswered(c) PROVE Goal
  <2>1. c.kind = "payments"
    BY <1>24, PaymentsDone
  <2>3. PICK d : asked' = (asked \ {c}) \cup {d} /\ NewAsk(d, "getPayments", c.h, {})
    BY <1>24, PaymentsDone
  <2>2. Turns(c, {"getPayments"}) /\ d \in asked' /\ d.kind = "getPayments"
    BY <2>3, NewTurns
  <2>a. /\ Survives(ManualCalls) /\ Survives({"sendall"}) /\ Survives({"notify"})
        /\ \A b \in asked' : b.kind \in PayCalls => b \in asked
    <3>1. c.kind \notin ManualCalls /\ c.kind \notin {"sendall"} /\ c.kind \notin {"notify"}
      BY <1>24, <2>1 DEF ManualCalls, PayCalls, RowCalls, LakiCalls
    <3>2. PayCalls \cap {"getPayments"} = {}
      BY DEF PayCalls
    <3> QED BY <2>2, <3>2, <3>1, TurnsSurvives
  <2>f. /\ shown'.manual = shown.manual /\ shown'.delays = shown.delays
        /\ shown'.mail.sending = shown.mail.sending /\ shown'.pay.sending = (IF c.arg.mode = "paid" THEN shown.pay.sending ELSE Nothing)
        /\ shown'.report.sending = shown.report.sending
    BY <1>24, <1>0, PaymentsDone DEF PayGoes, PayIs, TabIs
  <2>m1. ManualForAReason'
    BY <1>b, <2>a, <2>f, ManualGoesOn
  <2>m2. MailForAReason'
    BY <1>b, <2>a, <2>f, MailGoesOn
  <2>p. PayForAReason'
    <3>1. c.kind \in PayCalls /\ c.arg.mode = shown.pay.sending
      BY <1>b, <2>1 DEF PayForAReason, PayCalls
    <3>2. \A b \in asked' : b.kind \notin PayCalls
      BY <1>b, <2>a, <2>2, <2>3, <3>1 DEF PayForAReason, PayCalls
    <3>3. shown'.pay.sending # "send"
      <4>1. CASE c.arg.mode = "paid"
        BY <2>f, <3>1, <4>1
      <4>2. CASE c.arg.mode # "paid"
        BY <2>f, <4>2, NothingDiffers
      <4> QED BY <4>1, <4>2
    <3> QED BY <3>2, <3>3 DEF PayForAReason
  <2>r. ReportForAReason'
    BY <1>b, <2>a, <2>f, ReportGoesOn
  <2> QED BY <2>m1, <2>m2, <2>p, <2>r
<1>25. ASSUME NEW c \in asked, MaksatuksetPage(c) \/ AdminRefreshed(c) PROVE Goal
  <2>1. asked' = asked \ {c} /\ c.kind \in {"getPayments", "adminRefresh"}
    BY <1>25, PaymentsCome
  <2>2. Turns(c, {})
    BY <2>1, DropTurns
  <2>a. /\ Survives({"sendall"}) /\ Survives(PayCalls) /\ Survives({"notify"})
        /\ \A b \in asked' : b.kind \in PayCalls => b \in asked
    <3>1. c.kind \notin {"sendall"} /\ c.kind \notin PayCalls /\ c.kind \notin {"notify"}
      BY <1>25, <2>1 DEF ManualCalls, PayCalls, RowCalls, LakiCalls
    <3> QED BY <2>2, <3>1, TurnsSurvives
  <2>f. /\ (shown'.manual => shown.manual /\ c.kind # "adminRefresh") /\ shown'.delays = shown.delays
        /\ shown'.mail.sending = shown.mail.sending /\ shown'.pay.sending = shown.pay.sending
        /\ shown'.report.sending = shown.report.sending
    BY <1>25, <1>0, PaymentsCome DEF PayGoes, PayIs, TabIs
  <2>m1. ManualForAReason'
    <3>1. CASE c.kind = "adminRefresh"
      BY <2>f, <3>1 DEF ManualForAReason
    <3>2. CASE c.kind # "adminRefresh"
      <4>1. c.kind \notin ManualCalls
        BY <2>1, <3>2 DEF ManualCalls, RowCalls
      <4>2. Survives(ManualCalls)
        BY <2>2, <4>1, TurnsSurvives
      <4> QED BY <1>b, <2>f, <4>2, ManualGoesOn
    <3> QED BY <3>1, <3>2
  <2>m2. MailForAReason'
    BY <1>b, <2>a, <2>f, MailGoesOn
  <2>p. PayForAReason'
    BY <1>b, <2>a, <2>f, PayGoesOn
  <2>r. ReportForAReason'
    BY <1>b, <2>a, <2>f, ReportGoesOn
  <2> QED BY <2>m1, <2>m2, <2>p, <2>r
<1>26. ASSUME NEW c \in asked, AdminAnswered(c) PROVE Goal
  <2>1. c.kind = "admin" /\ shown' = shown
    BY <1>26, AdminAnswers
  <2>3. PICK d : asked' = (asked \ {c}) \cup {d} /\ NewAsk(d, "adminRefresh", c.h, {})
    BY <1>26, AdminAnswers
  <2>2. Turns(c, {"adminRefresh"}) /\ d \in asked' /\ d.kind = "adminRefresh"
    BY <2>3, NewTurns
  <2>a. /\ Survives({"sendall"}) /\ Survives(PayCalls) /\ Survives({"notify"})
        /\ \A b \in asked' : b.kind \in PayCalls => b \in asked
    <3>1. c.kind \notin {"sendall"} /\ c.kind \notin PayCalls /\ c.kind \notin {"notify"}
      BY <1>26, <2>1 DEF ManualCalls, PayCalls, RowCalls, LakiCalls
    <3>2. PayCalls \cap {"adminRefresh"} = {}
      BY DEF PayCalls
    <3> QED BY <2>2, <3>2, <3>1, TurnsSurvives
  <2>m. ManualForAReason'
    BY <2>2 DEF ManualForAReason, ManualCalls
  <2> QED BY <1>b, <2>a, <2>1, <2>m, MailGoesOn, PayGoesOn, ReportGoesOn
<1>27. ASSUME NEW c \in asked, SelvitysSent(c) PROVE Goal
  <2>1. c.kind = "notify"
    BY <1>27, ReportSent
  <2>3. PICK d : asked' = (asked \ {c}) \cup {d} /\ NewAsk(d, "getLog", c.h, {})
    BY <1>27, ReportSent
  <2>2. Turns(c, {"getLog"}) /\ d \in asked' /\ d.kind = "getLog"
    BY <2>3, NewTurns
  <2>a. /\ Survives(ManualCalls) /\ Survives({"sendall"}) /\ Survives(PayCalls)
        /\ \A b \in asked' : b.kind \in PayCalls => b \in asked
    <3>1. c.kind \notin ManualCalls /\ c.kind \notin {"sendall"} /\ c.kind \notin PayCalls
      BY <1>27, <2>1 DEF ManualCalls, PayCalls, RowCalls, LakiCalls
    <3>2. PayCalls \cap {"getLog"} = {}
      BY DEF PayCalls
    <3> QED BY <2>2, <3>2, <3>1, TurnsSurvives
  <2>f. /\ shown'.manual = shown.manual /\ shown'.delays = shown.delays
        /\ shown'.mail.sending = shown.mail.sending /\ shown'.pay.sending = shown.pay.sending
        /\ shown'.report.sending = FALSE
    BY <1>27, <1>0, ReportSent DEF ReportGoes, ReportIs, TabIs
  <2>m1. ManualForAReason'
    BY <1>b, <2>a, <2>f, ManualGoesOn
  <2>m2. MailForAReason'
    BY <1>b, <2>a, <2>f, MailGoesOn
  <2>p. PayForAReason'
    BY <1>b, <2>a, <2>f, PayGoesOn
  <2>r. ReportForAReason'
    BY <2>f DEF ReportForAReason
  <2> QED BY <2>m1, <2>m2, <2>p, <2>r
<1>28. ASSUME NEW c \in asked, FetchTapahtumaloki(c) PROVE Goal
  <2>1. asked' = asked \ {c} /\ c.kind = "getLog"
    BY <1>28, LogComes
  <2>2. Turns(c, {})
    BY <2>1, DropTurns
  <2>a. /\ Survives(ManualCalls) /\ Survives({"sendall"}) /\ Survives(PayCalls) /\ Survives({"notify"})
        /\ \A b \in asked' : b.kind \in PayCalls => b \in asked
    <3>1. c.kind \notin ManualCalls /\ c.kind \notin {"sendall"} /\ c.kind \notin PayCalls /\ c.kind \notin {"notify"}
      BY <1>28, <2>1 DEF ManualCalls, PayCalls, RowCalls, LakiCalls
    <3> QED BY <2>2, <3>1, TurnsSurvives
  <2>f. /\ shown'.manual = shown.manual /\ shown'.delays = shown.delays
        /\ shown'.mail.sending = shown.mail.sending /\ shown'.pay.sending = shown.pay.sending
        /\ shown'.report.sending = shown.report.sending
    BY <1>28, <1>0, LogComes DEF ReportGoes, ReportIs, TabIs
  <2>m1. ManualForAReason'
    BY <1>b, <2>a, <2>f, ManualGoesOn
  <2>m2. MailForAReason'
    BY <1>b, <2>a, <2>f, MailGoesOn
  <2>p. PayForAReason'
    BY <1>b, <2>a, <2>f, PayGoesOn
  <2>r. ReportForAReason'
    BY <1>b, <2>a, <2>f, ReportGoesOn
  <2> QED BY <2>m1, <2>m2, <2>p, <2>r
<1>29. ASSUME NEW c \in asked, ToolFails(c) PROVE Goal
  <2>1. "failed" \in why'
    BY <1>29 DEF ToolFails, CutOff
  <2> QED BY <2>1
<1> HIDE DEF Goal
<1> QED BY <1>1, <1>2, <1>3, <1>4, <1>5, <1>6, <1>7, <1>8, <1>9, <1>10, <1>11, <1>12, <1>13, <1>14, <1>15, <1>16, <1>17, <1>18, <1>19, <1>20, <1>21, <1>22, <1>23, <1>24, <1>25, <1>26, <1>27, <1>28, <1>29, Zenon DEF ToolsNext

-----------------------------------------------------------------------------
(* The tools of the grant editor: while nobody hurries and nothing fails     *)

\* One request at a time, about the grant that is open.
Solo == \A c \in asked : c.h = openHaku /\ \A d \in asked : d = c

LakiCalm ==
  /\ asked = {} => shown.laki = stored.laki[openHaku] /\ stored.laki = clicked
  /\ \A c \in asked :
       /\ c.kind = "getLaki" =>
            stored.laki = clicked /\ (c.at = "answered" => c.got = stored.laki[openHaku])
       /\ c.kind = "postLaki" =>
            IF c.at = "answered" THEN stored.laki = clicked /\ c.arg = stored.laki[openHaku]
            ELSE clicked = [stored.laki EXCEPT ![openHaku] = c.arg]

MailCalm ==
  /\ (\A c \in asked : c.kind \in {"resendall", "regenerate"}) =>
       shown.mail.of = openHaku /\ shown.mail.sent = stored.marked[openHaku]
  /\ \A c \in asked :
       c.kind \in {"getSent", "sendall"} /\ c.at = "answered" => c.got = stored.marked[openHaku]

PayCalm ==
  /\ asked = {} => shown.pay.unsent = stored.unsent[openHaku]
  /\ \A c \in asked :
       c.kind \in {"getPayments", "adminRefresh"} /\ c.at = "answered" => c.got = stored.unsent[openHaku]

ReportCalm ==
  /\ shown.report.count \in {NoHaku, openHaku}
  /\ asked = {} => shown.report.log = openHaku

\* What is stored: an id and a draft are of one row, of one grant.
IdsOne ==
  \A g, h \in Haut : \A i \in DOMAIN stored.rows[g], j \in DOMAIN stored.rows[h] :
    stored.rows[g][i].id = stored.rows[h][j].id => g = h /\ i = j
DraftsOne ==
  \A g, h \in Haut : \A i \in DOMAIN stored.rows[g], j \in DOMAIN stored.rows[h] :
    stored.rows[g][i].draft = stored.rows[h][j].draft => g = h /\ i = j
Numbered ==
  \A h \in Haut : \A i \in DOMAIN stored.rows[h] :
    /\ stored.rows[h][i].id > NoRow /\ stored.rows[h][i].id <= stored.ids
    /\ stored.rows[h][i].draft < shown.keys
DraftStored(draft) == \E h \in Haut : \E i \in DOMAIN stored.rows[h] : stored.rows[h][i].draft = draft

\* What is shown: rows of distinct instances, the last one new.
NewRow == Len(shown.rows)
RowsDistinct ==
  /\ NewRow > 0
  /\ \A i \in 1..NewRow :
       /\ shown.rows[i].key < shown.keys /\ shown.rows[i].id <= stored.ids
       /\ shown.rows[i].id = NoRow <=> i = NewRow
       /\ \A j \in 1..NewRow : shown.rows[i].key = shown.rows[j].key => i = j
  /\ shown.rows[NewRow].draft = shown.rows[NewRow].key

\* What is delayed: one edit of a row, which is shown as typed, or new and stored nowhere.
DelaysOne ==
  \A d \in shown.delays :
    /\ d.h = openHaku
    /\ \A e \in shown.delays : e.row.key = d.row.key => e = d
    /\ IF d.row.id = NoRow
       THEN d.row.draft = d.row.key /\ d.row.key < shown.keys /\ ~DraftStored(d.row.draft)
       ELSE \E i \in 1..NewRow : shown.rows[i].id = d.row.id /\ shown.rows[i].key = d.row.key
                                  /\ shown.rows[i].value = d.row.value
\* What is delayed is of the first of the rows stored.
InPlace ==
  shown.delays # {} =>
    \A i \in 1..(NewRow - 1) : i \in DOMAIN stored.rows[openHaku]
                               /\ stored.rows[openHaku][i].id = shown.rows[i].id
\* What is shown is stored, delayed or about to be stored.
Delayed(i) == \E d \in shown.delays : d.row.id = shown.rows[i].id
Posted(i) == \E c \in asked : c.kind = "postRow" /\ c.at = "sent" /\ c.arg.id = shown.rows[i].id
                                /\ c.arg.value = shown.rows[i].value
ValuesKept ==
  \A i \in 1..NewRow : \A j \in DOMAIN stored.rows[openHaku] :
    stored.rows[openHaku][j].id = shown.rows[i].id =>
      stored.rows[openHaku][j].value = shown.rows[i].value \/ Delayed(i) \/ Posted(i)
\* What the requests are about.
RowAsked(c) ==
  /\ c.kind = "putRow" =>
       /\ c.arg.draft < shown.keys
       /\ c.at = "sent" => ~DraftStored(c.arg.draft)
                             /\ \A d \in shown.delays : d.row.id = NoRow => d.row.draft # c.arg.draft
  /\ c.kind = "postRow" /\ c.at = "sent" =>
       \A i \in 1..NewRow : shown.rows[i].id = c.arg.id => shown.rows[i].value = c.arg.value
  /\ c.kind = "deleteRow" => shown.delays = {}
  /\ c.kind = "getRows" /\ c.at = "answered" => c.got = stored.rows[openHaku]
IdsShown ==
  /\ NewRow = Len(stored.rows[openHaku]) + 1
  /\ \A i \in DOMAIN stored.rows[openHaku] : stored.rows[openHaku][i].id = shown.rows[i].id
  /\ ~DraftStored(shown.rows[NewRow].draft)
RowsCalm ==
  /\ IdsOne /\ DraftsOne /\ Numbered /\ RowsDistinct /\ DelaysOne /\ InPlace /\ ValuesKept
  /\ \A c \in asked : RowAsked(c)
  /\ asked = {} => IdsShown

Calm ==
  why = {} =>
    /\ Solo
    /\ tab = "laki" => LakiCalm
    /\ tab = "velvoitteet" => RowsCalm
    /\ tab = "paatokset" => MailCalm
    /\ tab = "maksatukset" => PayCalm
    /\ tab = "selvitys" => ReportCalm

\* The steps of each tab, and those of any.
LakiSteps == (\E l \in Lait : Lainsaadanto(l)) \/ \E c \in asked : LakiAnswered(c)
RowSteps ==
  \/ \E i \in DOMAIN shown.rows : Raportointivelvoite(i) \/ DeleteRaportointivelvoite(i)
  \/ \E d \in shown.delays : DebouncedRaportointivelvoite(d)
  \/ \E c \in asked : RowAnswered(c) \/ Raportointivelvoitteet(c)
MailSteps ==
  \/ OnPreview \/ DecisionDateAndSend \/ ResendDecisions \/ RegenerateDecisions
  \/ \E c \in asked : \/ GetHakemusIdsToSend(c) \/ SendPaatosForAll(c) \/ EmailStateFetched(c)
                      \/ SendAnswered(c) \/ ResendAnswered(c) \/ RegenerateAnswered(c)
PaySteps ==
  \/ \E p \in Phases : DocumentEditor(p)
  \/ \E mode \in {"send", "paid"} : LahtevatMaksatukset(mode)
  \/ \E make \in BOOLEAN : AdminTools(make)
  \/ \E c \in asked : \/ CreatePaymentBatches(c) \/ PaymentsAnswered(c) \/ MaksatuksetPage(c)
                      \/ AdminAnswered(c) \/ AdminRefreshed(c)
ReportSteps == OnSendSelvitys \/ \E c \in asked : SelvitysSent(c) \/ FetchTapahtumaloki(c)
SharedSteps ==
  \/ PreviewEnds \/ \E h \in Haut : OpenHaku(h)
  \/ \E c \in asked : AnswerTool(c) \/ StoreTool(c)

LEMMA StepsByTab ==
  ASSUME ToolsTyped, DocumentsLeft, ToolsNext, why' = {}
  PROVE  \/ SharedSteps
         \/ tab = "laki" /\ LakiSteps
         \/ tab = "velvoitteet" /\ RowSteps
         \/ tab = "paatokset" /\ MailSteps
         \/ tab = "maksatukset" /\ PaySteps
         \/ tab = "selvitys" /\ ReportSteps
<1> DEFINE Goal == \/ SharedSteps
                   \/ tab = "laki" /\ LakiSteps
                   \/ tab = "velvoitteet" /\ RowSteps
                   \/ tab = "paatokset" /\ MailSteps
                   \/ tab = "maksatukset" /\ PaySteps
                   \/ tab = "selvitys" /\ ReportSteps
<1>1. ASSUME NEW l \in Lait, Lainsaadanto(l) PROVE Goal
  <2>1. tab = "laki" /\ LakiSteps
    BY Zenon, <1>1, LakiActs DEF LakiSteps
  <2> QED BY <2>1
<1>2. ASSUME NEW i \in DOMAIN shown.rows, Raportointivelvoite(i) \/ DeleteRaportointivelvoite(i) PROVE Goal
  <2>1. tab = "velvoitteet" /\ RowSteps
    BY Zenon, <1>2, RowActs, DeleteActs DEF RowSteps
  <2> QED BY <2>1
<1>3. ASSUME NEW d \in shown.delays, DebouncedRaportointivelvoite(d) PROVE Goal
  <2>1. tab = "velvoitteet" /\ RowSteps
    BY Zenon, <1>3, DelayEnds DEF RowSteps
  <2> QED BY <2>1
<1>4. ASSUME OnPreview \/ DecisionDateAndSend \/ ResendDecisions \/ RegenerateDecisions PROVE Goal
  <2>1. tab = "paatokset" /\ MailSteps
    BY Zenon, <1>4 DEF MailSteps, OnPreview, DecisionDateAndSend, ResendDecisions, RegenerateDecisions,
       CanAct, Shows
  <2> QED BY <2>1
<1>5. ASSUME NEW p \in Phases, DocumentEditor(p) PROVE Goal
  <2>1. tab = "maksatukset" /\ PaySteps
    BY Zenon, <1>5 DEF PaySteps, DocumentEditor, CanAct, Shows
  <2> QED BY <2>1
<1>6. ASSUME NEW mode \in {"send", "paid"}, LahtevatMaksatukset(mode) PROVE Goal
  <2>1. tab = "maksatukset" /\ PaySteps
    BY Zenon, <1>6 DEF PaySteps, LahtevatMaksatukset, Shows
  <2> QED BY <2>1
<1>7. ASSUME NEW make \in BOOLEAN, AdminTools(make) PROVE Goal
  <2>1. tab = "maksatukset" /\ PaySteps
    BY Zenon, <1>7 DEF PaySteps, AdminTools, CanAct, Shows
  <2> QED BY <2>1
<1>8. ASSUME OnSendSelvitys PROVE Goal
  <2>1. tab = "selvitys" /\ ReportSteps
    BY Zenon, <1>8 DEF ReportSteps, OnSendSelvitys, CanAct, Shows
  <2> QED BY <2>1
<1>9. ASSUME NEW c \in asked, LakiAnswered(c) PROVE Goal
  <2>1. tab = "laki" /\ LakiSteps
    BY Zenon, <1>9, LakiAnswers DEF LakiSteps
  <2> QED BY <2>1
<1>10. ASSUME NEW c \in asked, RowAnswered(c) \/ Raportointivelvoitteet(c) PROVE Goal
  <2>1. tab = "velvoitteet" /\ RowSteps
    BY Zenon, <1>10, RowAnswers, RowsCome DEF RowSteps
  <2> QED BY <2>1
<1>11. ASSUME NEW c \in asked, GetHakemusIdsToSend(c) \/ SendPaatosForAll(c) \/ EmailStateFetched(c)
                \/ SendAnswered(c) \/ ResendAnswered(c) \/ RegenerateAnswered(c) PROVE Goal
  <2>1. tab = "paatokset" /\ MailSteps
    BY Zenon, <1>11, ListsToSend, ServerPosts, SentComes, ResendAnswers DEF MailSteps
  <2> QED BY <2>1
<1>12. ASSUME NEW c \in asked, CreatePaymentBatches(c) \/ PaymentsAnswered(c) \/ MaksatuksetPage(c)
                \/ AdminAnswered(c) \/ AdminRefreshed(c) PROVE Goal
  <2>1. tab = "maksatukset" /\ PaySteps
    BY Zenon, <1>12, BatchGoesOn, PaymentsDone, PaymentsCome, AdminAnswers DEF PaySteps
  <2> QED BY <2>1
<1>13. ASSUME NEW c \in asked, SelvitysSent(c) \/ FetchTapahtumaloki(c) PROVE Goal
  <2>1. tab = "selvitys" /\ ReportSteps
    BY Zenon, <1>13, ReportSent, LogComes DEF ReportSteps
  <2> QED BY <2>1
<1>14. ASSUME \/ PreviewEnds \/ \E h \in Haut : OpenHaku(h)
              \/ \E c \in asked : AnswerTool(c) \/ StoreTool(c)
       PROVE  Goal
  <2>1. SharedSteps
    BY Zenon, <1>14 DEF SharedSteps
  <2> QED BY <2>1
<1>15. \A c \in asked : ~ToolFails(c)
  BY DEF ToolFails, CutOff
<1>16. Goal
  <2> HIDE DEF Goal
  <2> QED BY <1>1, <1>2, <1>3, <1>4, <1>5, <1>6, <1>7, <1>8, <1>9, <1>10, <1>11, <1>12, <1>13, <1>14,
             <1>15, Zenon DEF ToolsNext
<1> QED BY <1>16

\* Nobody hurries: what is asked is asked alone.
LEMMA AskedAlone ==
  ASSUME why' = {}, NEW when, Hurried(when)
  PROVE  ~when
BY DEF Hurried

LEMMA AloneComes ==
  ASSUME asked = {}, NEW d, d.h = openHaku', asked' = asked \cup {d}
  PROVE  Solo' /\ asked' = {d}
BY DEF Solo

LEMMA AloneTurns ==
  ASSUME Solo, NEW c \in asked, NEW d, asked' = (asked \ {c}) \cup {d}, d.h = c.h \/ d.h = openHaku,
         openHaku' = openHaku
  PROVE  Solo' /\ asked' = {d} /\ asked = {c} /\ c.h = openHaku
<1>1. asked = {c} /\ c.h = openHaku
  BY DEF Solo
<1>2. asked' = {d} /\ d.h = openHaku
  BY <1>1
<1> QED BY <1>1, <1>2 DEF Solo

LEMMA AloneGoes ==
  ASSUME Solo, NEW c \in asked, asked' = asked \ {c}
  PROVE  Solo' /\ asked' = {} /\ asked = {c} /\ c.h = openHaku
<1>1. asked = {c} /\ c.h = openHaku
  BY DEF Solo
<1> QED BY <1>1 DEF Solo

\* What every step leaves that is not of the server or an opening.
LEMMA PreviewKeeps ==
  ASSUME PreviewEnds
  PROVE  Keeps /\ asked' = asked /\ tab' = tab
BY Zenon DEF PreviewEnds, Keeps
LEMMA AnswerKeeps ==
  ASSUME NEW c \in asked, AnswerTool(c)
  PROVE  Keeps /\ shown' = shown /\ tab' = tab
BY Zenon DEF AnswerTool, Keeps
LEMMA StoreKeeps ==
  ASSUME NEW c \in asked, StoreTool(c)
  PROVE  openHaku' = openHaku /\ clicked' = clicked /\ shown' = shown /\ tab' = tab
BY Zenon DEF StoreTool
LEMMA OpeningKeeps ==
  ASSUME why' = {}, NEW h \in Haut, OpenHaku(h)
  PROVE  stored' = stored /\ clicked' = clicked /\ tab' = tab /\ asked = {} /\ shown.delays = {}
<1>1. Hurried(asked # {} \/ shown.delays # {})
  BY Zenon DEF OpenHaku, RowsGo
<1>2. ~(asked # {} \/ shown.delays # {})
  BY <1>1, AskedAlone
<1> QED BY Zenon, <1>2 DEF OpenHaku

-----------------------------------------------------------------------------
(* The legislation                                                           *)

LEMMA LakiCalmly ==
  ASSUME ToolsTyped, DocumentsLeft, tab = "laki", Solo, LakiCalm, why' = {}, SharedSteps \/ LakiSteps
  PROVE  Solo' /\ LakiCalm'
<1>0. /\ openHaku \in Haut /\ stored.laki \in [Haut -> SUBSET Lait] /\ clicked \in [Haut -> SUBSET Lait]
      /\ tab \in ToolTabs /\ \A c \in asked : AskOK(c)
  BY DEF ToolsTyped, Kept
<1>1. ASSUME NEW l \in Lait, Lainsaadanto(l)
      PROVE  Solo' /\ LakiCalm'
  <2>1. Hurried(asked # {}) /\ openHaku' = openHaku /\ stored' = stored
    BY Zenon, <1>1 DEF Lainsaadanto, Act, Hurry
  <2>2. openHaku' = openHaku /\ stored' = stored /\ asked = {}
    BY <2>1, AskedAlone
  <2> DEFINE Toggled(set) == IF l \notin shown.laki THEN set \cup {l} ELSE set \ {l}
  <2>3. PICK d : asked' = asked \cup {d} /\ NewAsk(d, "postLaki", openHaku, Toggled(shown.laki))
    BY <1>1, LakiActs
  <2>4. clicked' = [clicked EXCEPT ![openHaku] = Toggled(clicked[openHaku])]
    BY <1>1, LakiActs
  <2>5. shown.laki = clicked[openHaku] /\ stored.laki = clicked
    BY <2>2 DEF LakiCalm
  <2>6. PICK set : set = Toggled(shown.laki)
    OBVIOUS
  <2>7. clicked' = [clicked EXCEPT ![openHaku] = set] /\ NewAsk(d, "postLaki", openHaku, set)
    BY <2>3, <2>4, <2>5, <2>6
  <2> HIDE DEF Toggled
  <2>8. Solo' /\ asked' = {d}
    BY <2>2, <2>3, AloneComes DEF NewAsk
  <2>9. LakiCalm'
    BY <2>2, <2>5, <2>7, <2>8 DEF LakiCalm, NewAsk
  <2> QED BY <2>8, <2>9
<1>2. ASSUME NEW c \in asked, LakiAnswered(c)
      PROVE  Solo' /\ LakiCalm'
  <2>1. Keeps /\ c.at = "answered" /\ c.kind \in LakiCalls
    BY Zenon, <1>2 DEF LakiAnswered, Keeps
  <2>2. asked' = asked \ {c} /\ shown'.laki = IF c.kind = "getLaki" THEN c.got ELSE c.arg
    BY <1>2, LakiAnswers DEF TabIs
  <2>3. Solo' /\ asked' = {}
    BY <2>2, AloneGoes
  <2>4. LakiCalm'
    BY <2>1, <2>2, <2>3 DEF LakiCalm, Keeps, LakiCalls
  <2> QED BY <2>3, <2>4
<1>3. ASSUME PreviewEnds
      PROVE  Solo' /\ LakiCalm'
  <2>1. Keeps /\ asked' = asked
    BY <1>3, PreviewKeeps
  <2>2. shown'.laki = shown.laki
    BY <1>3, PreviewActs DEF MailSame, MailGoes, MailIs, TabIs
  <2> QED BY <2>1, <2>2 DEF Keeps, Solo, LakiCalm
<1>4. ASSUME NEW h \in Haut, OpenHaku(h)
      PROVE  Solo' /\ LakiCalm'
  <2>1. stored' = stored /\ clicked' = clicked /\ asked = {} /\ openHaku' = h
    BY <1>4, OpeningKeeps, HakuOpens
  <2>2. PICK d : asked' = asked \cup {d} /\ NewAsk(d, Fetches(tab), h, {})
    BY <1>4, HakuOpens
  <2>3. Fetches(tab) = "getLaki"
    BY DEF Fetches
  <2>4. Solo' /\ asked' = {d}
    BY <2>1, <2>2, AloneComes DEF NewAsk
  <2>5. LakiCalm'
    BY <2>1, <2>2, <2>3, <2>4 DEF LakiCalm, NewAsk
  <2> QED BY <2>4, <2>5
<1>5. ASSUME NEW c \in asked, AnswerTool(c)
      PROVE  Solo' /\ LakiCalm'
  <2>1. Keeps /\ shown' = shown
    BY <1>5, AnswerKeeps
  <2>2. PICK d : asked' = (asked \ {c}) \cup {d} /\ GoesOn(d, c, "answered", Found(c))
    BY <1>5, ServerAnswers
  <2>3. c.kind = "getLaki"
    BY <1>0, <1>5, ServerAnswers, AskFacts DEF LakiCalls, MailCalls
  <2>4. Solo' /\ asked' = {d} /\ c.h = openHaku
    BY <2>1, <2>2, AloneTurns DEF GoesOn, Keeps
  <2>5. d.kind = "getLaki" /\ d.got = stored.laki[openHaku]
    BY <2>2, <2>3, <2>4 DEF GoesOn, Found
  <2>6. LakiCalm'
    BY <2>1, <2>3, <2>4, <2>5 DEF LakiCalm, Keeps
  <2> QED BY <2>4, <2>6
<1>6. ASSUME NEW c \in asked, StoreTool(c)
      PROVE  Solo' /\ LakiCalm'
  <2>1. openHaku' = openHaku /\ clicked' = clicked /\ shown' = shown
    BY <1>6, StoreKeeps
  <2>2. PICK d : asked' = (asked \ {c}) \cup {d} /\ GoesOn(d, c, "answered", c.got)
    BY <1>6, StoreToolDoes
  <2>3. c.at = "sent" /\ c.kind \in RowCalls \cup {"postLaki", "batch", "document", "payments", "admin"}
    BY Zenon, <1>6 DEF StoreTool
  <2>4. c.kind = "postLaki"
    BY <1>0, <2>3, AskFacts DEF PayCalls
  <2>5. Solo' /\ asked' = {d} /\ c.h = openHaku
    BY <2>1, <2>2, AloneTurns DEF GoesOn
  <2>6. stored'.laki = [stored.laki EXCEPT ![openHaku] = c.arg]
    BY <1>6, <2>4, <2>5, StoreToolDoes DEF Stores
  <2>7. clicked = [stored.laki EXCEPT ![openHaku] = c.arg]
    BY <2>3, <2>4 DEF LakiCalm
  <2>8. d.kind = "postLaki" /\ d.at = "answered" /\ d.arg = c.arg
    BY <2>2, <2>4 DEF GoesOn
  <2>9. LakiCalm'
    BY <1>0, <2>1, <2>5, <2>6, <2>7, <2>8 DEF LakiCalm
  <2> QED BY <2>5, <2>9
<1> QED BY <1>1, <1>2, <1>3, <1>4, <1>5, <1>6 DEF SharedSteps, LakiSteps

-----------------------------------------------------------------------------
(* The mailing of decisions                                                  *)

LEMMA MailCalmly ==
  ASSUME ToolsTyped, DocumentsLeft, tab = "paatokset", Solo, MailCalm, why' = {}, SharedSteps \/ MailSteps
  PROVE  Solo' /\ MailCalm'
<1>0. /\ openHaku \in Haut /\ stored.marked \in [Haut -> BOOLEAN]
      /\ tab \in ToolTabs /\ \A c \in asked : AskOK(c)
  BY DEF ToolsTyped, Kept
<1>1. ASSUME OnPreview \/ PreviewEnds
      PROVE  Solo' /\ MailCalm'
  <2>1. Keeps /\ asked' = asked
    BY Zenon, <1>1 DEF OnPreview, PreviewEnds, Keeps
  <2>2. shown'.mail.of = shown.mail.of /\ shown'.mail.sent = shown.mail.sent
    BY <1>1, PreviewActs DEF MailSame, MailGoes, MailIs, TabIs
  <2> QED BY <2>1, <2>2 DEF Keeps, Solo, MailCalm
<1>2. ASSUME DecisionDateAndSend
      PROVE  Solo' /\ MailCalm'
  <2>1. Hurried(asked # {}) /\ Keeps
    BY Zenon, <1>2 DEF DecisionDateAndSend, Hurry, Keeps
  <2>2. asked = {}
    BY <2>1, AskedAlone
  <2>3. PICK d : asked' = asked \cup {d} /\ NewAsk(d, "sendall", openHaku, {})
    BY <1>2, SendActs
  <2>4. Solo' /\ asked' = {d}
    BY <2>1, <2>2, <2>3, AloneComes DEF NewAsk, Keeps
  <2> QED BY <2>1, <2>3, <2>4 DEF MailCalm, NewAsk, Keeps
<1>3. ASSUME ResendDecisions \/ RegenerateDecisions
      PROVE  Solo' /\ MailCalm'
  <2>1. Hurried(asked # {}) /\ Keeps
    BY Zenon, <1>3 DEF ResendDecisions, RegenerateDecisions, Act, Hurry, Keeps
  <2>2. asked = {}
    BY <2>1, AskedAlone
  <2>3. PICK d, kind : kind \in {"resendall", "regenerate"} /\ asked' = asked \cup {d}
                         /\ NewAsk(d, kind, openHaku, {})
    BY <1>3, ResendActs
  <2>4. Solo' /\ asked' = {d}
    BY <2>1, <2>2, <2>3, AloneComes DEF NewAsk, Keeps
  <2>5. shown'.mail.of = shown.mail.of /\ shown'.mail.sent = shown.mail.sent
    BY <1>3, ResendActs DEF MailSame, MailGoes, MailIs, TabIs
  <2> QED BY <2>1, <2>2, <2>3, <2>4, <2>5 DEF MailCalm, NewAsk, Keeps
<1>4. ASSUME NEW c \in asked, GetHakemusIdsToSend(c)
      PROVE  Solo' /\ MailCalm'
  <2>1. Keeps /\ shown' = shown
    BY Zenon, <1>4 DEF GetHakemusIdsToSend, Keeps
  <2>2. PICK d : /\ asked' = (asked \ {c}) \cup {d}
                 /\ GoesOn(d, c, IF stored.marked[c.h] THEN "mailed" ELSE "listed", {})
    BY <1>4, ListsToSend
  <2>3. Solo' /\ asked' = {d} /\ d.kind = "sendall" /\ d.at # "answered"
    BY <1>4, <2>1, <2>2, ListsToSend, AloneTurns DEF GoesOn, Keeps
  <2> QED BY <2>3 DEF MailCalm
<1>5. ASSUME NEW c \in asked, SendPaatosForAll(c)
      PROVE  Solo' /\ MailCalm'
  <2>1. openHaku' = openHaku
    BY Zenon, <1>5 DEF SendPaatosForAll, SendPaatos, SendPaatosFails, AddPaatosSentEmails
  <2>2. PICK d, at : /\ asked' = (asked \ {c}) \cup {d} /\ GoesOn(d, c, at, {})
                     /\ at \in {"posted", "mailed"}
    BY <1>5, ServerPosts
  <2>3. Solo' /\ asked' = {d} /\ d.kind = "sendall" /\ d.at # "answered"
    BY <1>5, <2>1, <2>2, ServerPosts, AloneTurns DEF GoesOn
  <2> QED BY <2>3 DEF MailCalm
<1>6. ASSUME NEW c \in asked, EmailStateFetched(c) \/ SendAnswered(c)
      PROVE  Solo' /\ MailCalm'
  <2>1. Keeps
    BY Zenon, <1>6 DEF EmailStateFetched, SendAnswered, Keeps
  <2>2. /\ asked' = asked \ {c} /\ c.at = "answered" /\ c.kind \in {"getSent", "sendall"}
        /\ shown'.mail.of = openHaku /\ shown'.mail.sent = c.got
    BY <1>6, SentComes DEF MailGoes, MailIs, TabIs
  <2>3. Solo' /\ asked' = {}
    BY <2>2, AloneGoes
  <2> QED BY <2>1, <2>2, <2>3 DEF MailCalm, Keeps
<1>7. ASSUME NEW c \in asked, ResendAnswered(c) \/ RegenerateAnswered(c)
      PROVE  Solo' /\ MailCalm'
  <2>1. Keeps
    BY Zenon, <1>7 DEF ResendAnswered, RegenerateAnswered, Keeps
  <2>2. c.kind \in {"resendall", "regenerate"}
        /\ shown'.mail.of = shown.mail.of /\ shown'.mail.sent = shown.mail.sent
    BY <1>7, ResendAnswers DEF MailSame, MailGoes, MailIs, TabIs
  <2>3. shown.mail.of = openHaku /\ shown.mail.sent = stored.marked[openHaku]
    BY <2>2 DEF Solo, MailCalm
  <2>4. CASE asked' = asked \ {c}
    <3>1. Solo' /\ asked' = {}
      BY <2>4, AloneGoes
    <3> QED BY <2>1, <2>2, <2>3, <3>1 DEF MailCalm, Keeps
  <2>5. CASE \E d : asked' = (asked \ {c}) \cup {d} /\ NewAsk(d, "getSent", c.h, {})
    <3>1. PICK d : asked' = (asked \ {c}) \cup {d} /\ NewAsk(d, "getSent", c.h, {})
      BY <2>5
    <3>2. Solo' /\ asked' = {d} /\ d.kind = "getSent" /\ d.at = "sent"
      BY <2>1, <3>1, AloneTurns DEF NewAsk, Keeps
    <3> QED BY <3>2 DEF MailCalm
  <2> QED BY <1>7, <2>4, <2>5, ResendAnswers
<1>8. ASSUME NEW h \in Haut, OpenHaku(h)
      PROVE  Solo' /\ MailCalm'
  <2>1. asked = {} /\ openHaku' = h
    BY <1>8, OpeningKeeps, HakuOpens
  <2>2. PICK d : asked' = asked \cup {d} /\ NewAsk(d, Fetches(tab), h, {})
    BY <1>8, HakuOpens
  <2>3. Fetches(tab) = "getSent"
    BY DEF Fetches
  <2>4. Solo' /\ asked' = {d}
    BY <2>1, <2>2, AloneComes DEF NewAsk
  <2> QED BY <2>2, <2>3, <2>4 DEF MailCalm, NewAsk
<1>9. ASSUME NEW c \in asked, AnswerTool(c)
      PROVE  Solo' /\ MailCalm'
  <2>1. Keeps /\ shown' = shown
    BY <1>9, AnswerKeeps
  <2>2. PICK d : asked' = (asked \ {c}) \cup {d} /\ GoesOn(d, c, "answered", Found(c))
    BY <1>9, ServerAnswers
  <2>3. Solo' /\ asked' = {d} /\ c.h = openHaku /\ d.kind = c.kind
    BY <2>1, <2>2, AloneTurns DEF GoesOn, Keeps
  <2>4. c.kind \in {"getSent", "sendall"} => d.got = stored.marked[openHaku]
    BY <2>2, <2>3 DEF GoesOn, Found
  <2>5. MailCalm'
    BY <2>1, <2>3, <2>4 DEF MailCalm, Keeps, Solo
  <2> QED BY <2>3, <2>5
<1>10. \A c \in asked : ~StoreTool(c)
  <2> SUFFICES ASSUME NEW c \in asked, StoreTool(c)
               PROVE  FALSE
    OBVIOUS
  <2>1. c.kind \in RowCalls \cup {"postLaki", "batch", "document", "payments", "admin"}
    BY Zenon DEF StoreTool
  <2> QED BY <1>0, <2>1, AskFacts DEF PayCalls, LakiCalls
<1> QED BY <1>1, <1>2, <1>3, <1>4, <1>5, <1>6, <1>7, <1>8, <1>9, <1>10 DEF SharedSteps, MailSteps

-----------------------------------------------------------------------------
(* The sending of payments                                                   *)

LEMMA PayCalmly ==
  ASSUME ToolsTyped, DocumentsLeft, tab = "maksatukset", Solo, PayCalm, why' = {}, SharedSteps \/ PaySteps
  PROVE  Solo' /\ PayCalm'
<1>0. /\ openHaku \in Haut /\ stored.unsent \in [Haut -> BOOLEAN]
      /\ tab \in ToolTabs /\ \A c \in asked : AskOK(c)
  BY DEF ToolsTyped, Kept
<1>1. ASSUME PreviewEnds
      PROVE  Solo' /\ PayCalm'
  <2>1. Keeps /\ asked' = asked
    BY <1>1, PreviewKeeps
  <2>2. shown'.pay = shown.pay
    BY <1>1, PreviewActs DEF MailSame, MailGoes, MailIs, TabIs
  <2> QED BY <2>1, <2>2 DEF Keeps, Solo, PayCalm
<1>2. ASSUME NEW p \in Phases, DocumentEditor(p)
      PROVE  Solo' /\ PayCalm'
  <2>1. Keeps
    BY Zenon, <1>2 DEF DocumentEditor, Keeps
  <2>2. asked' = asked /\ shown'.pay.unsent = shown.pay.unsent
    BY <1>2, DocumentActs DEF PayGoes, PayIs, TabIs
  <2> QED BY <2>1, <2>2 DEF Keeps, Solo, PayCalm
<1>3. ASSUME NEW mode \in {"send", "paid"}, LahtevatMaksatukset(mode)
      PROVE  Solo' /\ PayCalm'
  <2>1. Hurried(asked # {}) /\ Keeps
    BY Zenon, <1>3 DEF LahtevatMaksatukset, Hurry, Keeps
  <2>2. asked = {}
    BY <2>1, AskedAlone
  <2>3. PICK d, arg : asked' = asked \cup {d} /\ NewAsk(d, "batch", openHaku, arg)
    BY <1>3, PaymentsAct
  <2>4. Solo' /\ asked' = {d}
    BY <2>1, <2>2, <2>3, AloneComes DEF NewAsk, Keeps
  <2> QED BY <2>3, <2>4 DEF PayCalm, NewAsk
<1>4. ASSUME NEW make \in BOOLEAN, AdminTools(make)
      PROVE  Solo' /\ PayCalm'
  <2>1. Hurried(asked # {}) /\ Keeps
    BY Zenon, <1>4 DEF AdminTools, Act, Hurry, Keeps
  <2>2. asked = {}
    BY <2>1, AskedAlone
  <2>3. PICK d : asked' = asked \cup {d} /\ NewAsk(d, "admin", openHaku, make)
    BY <1>4, AdminActs
  <2>4. Solo' /\ asked' = {d}
    BY <2>1, <2>2, <2>3, AloneComes DEF NewAsk, Keeps
  <2> QED BY <2>3, <2>4 DEF PayCalm, NewAsk
<1>5. ASSUME NEW c \in asked, CreatePaymentBatches(c) \/ PaymentsAnswered(c) \/ AdminAnswered(c)
      PROVE  Solo' /\ PayCalm'
  <2>1. openHaku' = openHaku
    BY Zenon, <1>5 DEF CreatePaymentBatches, PaymentsAnswered, AdminAnswered
  <2>2. PICK d, kind, arg : asked' = (asked \ {c}) \cup {d} /\ NewAsk(d, kind, c.h, arg)
    BY Zenon, <1>5, BatchGoesOn, PaymentsDone, AdminAnswers
  <2>3. Solo' /\ asked' = {d}
    BY <2>1, <2>2, AloneTurns DEF NewAsk
  <2> QED BY <2>2, <2>3 DEF PayCalm, NewAsk
<1>6. ASSUME NEW c \in asked, MaksatuksetPage(c) \/ AdminRefreshed(c)
      PROVE  Solo' /\ PayCalm'
  <2>1. Keeps
    BY Zenon, <1>6 DEF MaksatuksetPage, AdminRefreshed, Keeps
  <2>2. /\ c.kind \in {"getPayments", "adminRefresh"} /\ c.at = "answered" /\ asked' = asked \ {c}
        /\ shown'.pay.unsent = c.got
    BY <1>6, PaymentsCome DEF PayGoes, PayIs, TabIs
  <2>3. Solo' /\ asked' = {}
    BY <2>2, AloneGoes
  <2> QED BY <2>1, <2>2, <2>3 DEF PayCalm, Keeps
<1>7. ASSUME NEW h \in Haut, OpenHaku(h)
      PROVE  Solo' /\ PayCalm'
  <2>1. asked = {} /\ openHaku' = h
    BY <1>7, OpeningKeeps, HakuOpens
  <2>2. PICK d : asked' = asked \cup {d} /\ NewAsk(d, Fetches(tab), h, {})
    BY <1>7, HakuOpens
  <2>3. Solo' /\ asked' = {d}
    BY <2>1, <2>2, AloneComes DEF NewAsk
  <2> QED BY <2>2, <2>3 DEF PayCalm, NewAsk
<1>8. ASSUME NEW c \in asked, AnswerTool(c)
      PROVE  Solo' /\ PayCalm'
  <2>1. Keeps /\ shown' = shown
    BY <1>8, AnswerKeeps
  <2>2. PICK d : asked' = (asked \ {c}) \cup {d} /\ GoesOn(d, c, "answered", Found(c))
    BY <1>8, ServerAnswers
  <2>3. Solo' /\ asked' = {d} /\ c.h = openHaku /\ d.kind = c.kind
    BY <2>1, <2>2, AloneTurns DEF GoesOn, Keeps
  <2>4. c.kind \in {"getPayments", "adminRefresh"} => d.got = stored.unsent[openHaku]
    BY <2>2, <2>3 DEF GoesOn, Found
  <2> QED BY <2>1, <2>3, <2>4 DEF PayCalm, Keeps
<1>9. ASSUME NEW c \in asked, StoreTool(c)
      PROVE  Solo' /\ PayCalm'
  <2>1. openHaku' = openHaku
    BY <1>9, StoreKeeps
  <2>2. PICK d : asked' = (asked \ {c}) \cup {d} /\ GoesOn(d, c, "answered", c.got)
    BY <1>9, StoreToolDoes
  <2>3. c.kind \in RowCalls \cup {"postLaki", "batch", "document", "payments", "admin"}
    BY Zenon, <1>9 DEF StoreTool
  <2>4. Solo' /\ asked' = {d} /\ d.kind \notin {"getPayments", "adminRefresh"}
    BY <2>1, <2>2, <2>3, AloneTurns DEF GoesOn, RowCalls
  <2> QED BY <2>4 DEF PayCalm
<1> QED BY <1>1, <1>2, <1>3, <1>4, <1>5, <1>6, <1>7, <1>8, <1>9 DEF SharedSteps, PaySteps

-----------------------------------------------------------------------------
(* The requests for reports                                                  *)

LEMMA ReportCalmly ==
  ASSUME ToolsTyped, DocumentsLeft, tab = "selvitys", Solo, ReportCalm, why' = {}, SharedSteps \/ ReportSteps
  PROVE  Solo' /\ ReportCalm'
<1>0. openHaku \in Haut /\ tab \in ToolTabs /\ \A c \in asked : AskOK(c)
  BY DEF ToolsTyped
<1>1. ASSUME PreviewEnds
      PROVE  Solo' /\ ReportCalm'
  <2>1. Keeps /\ asked' = asked
    BY <1>1, PreviewKeeps
  <2>2. shown'.report = shown.report
    BY <1>1, PreviewActs DEF MailSame, MailGoes, MailIs, TabIs
  <2> QED BY <2>1, <2>2 DEF Keeps, Solo, ReportCalm
<1>2. ASSUME OnSendSelvitys
      PROVE  Solo' /\ ReportCalm'
  <2>1. Hurried(asked # {}) /\ Keeps
    BY Zenon, <1>2 DEF OnSendSelvitys, Act, Hurry, Keeps
  <2>2. asked = {}
    BY <2>1, AskedAlone
  <2>3. PICK d : asked' = asked \cup {d} /\ NewAsk(d, "notify", openHaku, {})
    BY <1>2, ReportActs
  <2>4. Solo' /\ asked' = {d}
    BY <2>1, <2>2, <2>3, AloneComes DEF NewAsk, Keeps
  <2>5. shown'.report.count = shown.report.count
    BY <1>2, ReportActs DEF ReportGoes, ReportIs, TabIs
  <2> QED BY <2>1, <2>4, <2>5 DEF ReportCalm, Keeps
<1>3. ASSUME NEW c \in asked, SelvitysSent(c)
      PROVE  Solo' /\ ReportCalm'
  <2>1. Keeps
    BY Zenon, <1>3 DEF SelvitysSent, Keeps
  <2>2. PICK d : asked' = (asked \ {c}) \cup {d} /\ NewAsk(d, "getLog", c.h, {})
    BY <1>3, ReportSent
  <2>3. Solo' /\ asked' = {d} /\ c.h = openHaku
    BY <2>1, <2>2, AloneTurns DEF NewAsk, Keeps
  <2>4. shown'.report.count = c.h
    BY <1>3, ReportSent DEF ReportGoes, ReportIs, TabIs
  <2> QED BY <2>1, <2>3, <2>4 DEF ReportCalm, Keeps
<1>4. ASSUME NEW c \in asked, FetchTapahtumaloki(c)
      PROVE  Solo' /\ ReportCalm'
  <2>1. Keeps
    BY Zenon, <1>4 DEF FetchTapahtumaloki, Keeps
  <2>2. asked' = asked \ {c} /\ shown'.report.count = shown.report.count /\ shown'.report.log = c.h
    BY <1>4, LogComes DEF ReportGoes, ReportIs, TabIs
  <2>3. Solo' /\ asked' = {} /\ c.h = openHaku
    BY <2>2, AloneGoes
  <2> QED BY <2>1, <2>2, <2>3 DEF ReportCalm, Keeps
<1>5. ASSUME NEW h \in Haut, OpenHaku(h)
      PROVE  Solo' /\ ReportCalm'
  <2>1. asked = {} /\ openHaku' = h
    BY <1>5, OpeningKeeps, HakuOpens
  <2>2. PICK d : asked' = asked \cup {d} /\ NewAsk(d, Fetches(tab), h, {})
    BY <1>5, HakuOpens
  <2>3. Solo' /\ asked' = {d}
    BY <2>1, <2>2, AloneComes DEF NewAsk
  <2>4. shown'.report.count = NoHaku
    BY <1>5, HakuOpens DEF TabIs
  <2> QED BY <2>3, <2>4 DEF ReportCalm
<1>6. ASSUME NEW c \in asked, AnswerTool(c)
      PROVE  Solo' /\ ReportCalm'
  <2>1. Keeps /\ shown' = shown
    BY <1>6, AnswerKeeps
  <2>2. PICK d : asked' = (asked \ {c}) \cup {d} /\ GoesOn(d, c, "answered", Found(c))
    BY <1>6, ServerAnswers
  <2>3. Solo' /\ asked' = {d}
    BY <2>1, <2>2, AloneTurns DEF GoesOn, Keeps
  <2> QED BY <2>1, <2>3 DEF ReportCalm, Keeps
<1>7. ASSUME NEW c \in asked, StoreTool(c)
      PROVE  Solo' /\ ReportCalm'
  <2>1. openHaku' = openHaku /\ shown' = shown
    BY <1>7, StoreKeeps
  <2>2. PICK d : asked' = (asked \ {c}) \cup {d} /\ GoesOn(d, c, "answered", c.got)
    BY <1>7, StoreToolDoes
  <2>3. Solo' /\ asked' = {d}
    BY <2>1, <2>2, AloneTurns DEF GoesOn
  <2> QED BY <2>1, <2>3 DEF ReportCalm
<1> QED BY <1>1, <1>2, <1>3, <1>4, <1>5, <1>6, <1>7 DEF SharedSteps, ReportSteps

-----------------------------------------------------------------------------
(* The reporting obligations                                                 *)

\* The rows that are stored and shown are rows.
RowsAre ==
  /\ openHaku \in Haut /\ shown.keys \in Nat /\ stored.ids \in Nat
  /\ DOMAIN shown.rows = 1..NewRow /\ NewRow \in Nat
  /\ \A i \in 1..NewRow : shown.rows[i] \in ToolRow
  /\ \A h \in Haut : /\ DOMAIN stored.rows[h] = 1..Len(stored.rows[h]) /\ Len(stored.rows[h]) \in Nat
                     /\ \A i \in DOMAIN stored.rows[h] : stored.rows[h][i] \in ToolRow
  /\ shown.delays \subseteq Delay

LEMMA TypedRows ==
  ASSUME ToolsTyped
  PROVE  RowsAre
<1>1. shown.rows \in Seq(ToolRow) /\ stored.rows \in [Haut -> Seq(ToolRow)] /\ openHaku \in Haut
      /\ shown.keys \in Nat /\ stored.ids \in Nat /\ shown.delays \subseteq Delay
  BY DEF ToolsTyped, Tab, Kept
<1>2. \A s \in Seq(ToolRow) : DOMAIN s = 1..Len(s) /\ Len(s) \in Nat /\ \A i \in DOMAIN s : s[i] \in ToolRow
  OBVIOUS
<1>3. DOMAIN shown.rows = 1..NewRow /\ NewRow \in Nat /\ \A i \in 1..NewRow : shown.rows[i] \in ToolRow
  BY <1>1, <1>2 DEF NewRow
<1>4. \A h \in Haut : /\ DOMAIN stored.rows[h] = 1..Len(stored.rows[h]) /\ Len(stored.rows[h]) \in Nat
                      /\ \A i \in DOMAIN stored.rows[h] : stored.rows[h][i] \in ToolRow
  BY <1>1, <1>2
<1> QED BY <1>1, <1>3, <1>4 DEF RowsAre

\* What is stored is as it was.
LEMMA StoredSame ==
  ASSUME RowsAre, RowsCalm, stored' = stored, shown'.keys \in Nat, shown.keys <= shown'.keys
  PROVE  IdsOne' /\ DraftsOne' /\ Numbered' /\ \A draft : DraftStored(draft)' <=> DraftStored(draft)
<1>1. IdsOne' /\ DraftsOne' /\ \A draft : DraftStored(draft)' <=> DraftStored(draft)
  BY DEF RowsCalm, IdsOne, DraftsOne, DraftStored
<1>2. \A h \in Haut : \A i \in DOMAIN stored.rows[h] : stored.rows[h][i].draft \in Nat
  BY DEF RowsAre, ToolRow
<1>3. PICK k \in Nat, k2 \in Nat : k = shown.keys /\ k2 = shown'.keys /\ k <= k2
  BY DEF RowsAre
<1>4. ASSUME NEW h \in Haut, NEW i \in DOMAIN stored.rows[h]
      PROVE  /\ stored.rows[h][i].id > NoRow /\ stored.rows[h][i].id <= stored.ids
             /\ stored.rows[h][i].draft < k2
  <2>1. PICK draft \in Nat : draft = stored.rows[h][i].draft
    BY <1>2
  <2>2. stored.rows[h][i].id > NoRow /\ stored.rows[h][i].id <= stored.ids /\ draft < k
    BY <1>3, <2>1 DEF RowsCalm, Numbered
  <2>3. draft < k2
    BY <1>3, <2>2
  <2> QED BY <2>1, <2>2, <2>3
<1>5. Numbered'
  BY <1>3, <1>4 DEF Numbered
<1> QED BY <1>1, <1>5

\* While nothing is asked, a stored row is shown once.
LEMMA ShownOnce ==
  ASSUME RowsAre, IdsOne, RowsDistinct, IdsShown, NEW i \in 1..NewRow, NEW j \in 1..NewRow,
         shown.rows[i].id = shown.rows[j].id
  PROVE  i = j
<1>1. CASE i = NewRow \/ j = NewRow
  BY <1>1 DEF RowsDistinct
<1>2. CASE i # NewRow /\ j # NewRow
  <2>1. i \in DOMAIN stored.rows[openHaku] /\ j \in DOMAIN stored.rows[openHaku]
    BY <1>2 DEF IdsShown, RowsAre
  <2>2. stored.rows[openHaku][i].id = stored.rows[openHaku][j].id
    BY <2>1 DEF IdsShown
  <2> QED BY <2>1, <2>2 DEF IdsOne, RowsAre
<1> QED BY <1>1, <1>2

\* An id that is stored is no new row's.
LEMMA StoredNotNew ==
  ASSUME RowsAre, RowsCalm, NEW h \in Haut, NEW j \in DOMAIN stored.rows[h], NEW i \in 1..NewRow,
         stored.rows[h][j].id = shown.rows[i].id
  PROVE  i # NewRow /\ shown.rows[i].id # NoRow
BY DEF RowsCalm, Numbered, RowsDistinct, RowsAre, ToolRow, NoRow

LEMMA EditCalmly ==
  ASSUME ToolsTyped, RowsAre, RowsCalm, why' = {}, NEW i \in DOMAIN shown.rows, Raportointivelvoite(i)
  PROVE  Solo' /\ RowsCalm'
<1>1. Hurried(asked # {}) /\ Keeps
  BY Zenon DEF Raportointivelvoite, Act, Hurry, Keeps
<1>2. asked = {} /\ asked' = {} /\ stored' = stored /\ openHaku' = openHaku /\ IdsShown
  BY <1>1, AskedAlone, RowActs DEF Keeps, RowsCalm
<1>3. PICK e, p : Edits(i, e, p)
  BY RowActs
<1>4. /\ e \in ToolRow /\ p.h = openHaku /\ p.row = e
      /\ e.id = shown.rows[i].id /\ e.key = shown.rows[i].key /\ e.draft = shown.rows[i].draft
      /\ shown'.rows = [shown.rows EXCEPT ![i] = e] /\ shown'.keys = shown.keys
      /\ shown'.delays = {d \in shown.delays : d.row.key # e.key} \cup {p}
  BY <1>3 DEF Edits, TabIs
<1>5. /\ NewRow' = NewRow /\ i \in 1..NewRow
      /\ shown'.rows[i] = e /\ \A j \in 1..NewRow : j # i => shown'.rows[j] = shown.rows[j]
      /\ \A j \in 1..NewRow : shown'.rows[j].id = shown.rows[j].id /\ shown'.rows[j].key = shown.rows[j].key
                                /\ shown'.rows[j].draft = shown.rows[j].draft
  <2>1. DOMAIN shown'.rows = DOMAIN shown.rows /\ i \in 1..NewRow
    BY <1>4 DEF RowsAre
  <2>2. shown.rows \in Seq(ToolRow) /\ shown'.rows \in Seq(ToolRow)
    <3>1. shown.rows \in Seq(ToolRow)
      BY DEF ToolsTyped, Tab
    <3>2. shown' \in Tab
      BY <1>3 DEF Edits, TabIs
    <3> QED BY <3>1, <3>2 DEF Tab
  <2>3. NewRow' = NewRow
    BY <2>1, <2>2 DEF NewRow
  <2>4. shown'.rows[i] = e /\ \A j \in 1..NewRow : j # i => shown'.rows[j] = shown.rows[j]
    BY <1>4 DEF RowsAre
  <2> QED BY <1>4, <2>1, <2>3, <2>4
<1>6. IdsOne' /\ DraftsOne' /\ Numbered' /\ \A draft : DraftStored(draft)' <=> DraftStored(draft)
  BY <1>2, <1>4, StoredSame DEF RowsAre
<1>7. RowsDistinct'
  BY <1>2, <1>4, <1>5 DEF RowsCalm, RowsDistinct, RowsAre
<1>8. DelaysOne'
  <2>1. ASSUME NEW d \in shown'.delays
        PROVE  /\ d.h = openHaku
               /\ \A f \in shown'.delays : f.row.key = d.row.key => f = d
               /\ IF d.row.id = NoRow
                  THEN d.row.draft = d.row.key /\ d.row.key < shown.keys /\ ~DraftStored(d.row.draft)
                  ELSE \E j \in 1..NewRow : shown'.rows[j].id = d.row.id /\ shown'.rows[j].key = d.row.key
                                             /\ shown'.rows[j].value = d.row.value
    <3>1. CASE d = p
      <4>1. \A f \in shown'.delays : f.row.key = d.row.key => f = d
        BY <1>4, <3>1
      <4>2. CASE e.id = NoRow
        <5>1. i = NewRow
          BY <1>4, <1>5, <4>2 DEF RowsCalm, RowsDistinct
        <5>2. e.draft = e.key /\ e.key < shown.keys /\ ~DraftStored(e.draft)
          <6>1. shown.rows[NewRow].draft = shown.rows[NewRow].key /\ shown.rows[i].key < shown.keys
            BY <1>5, Zenon DEF RowsCalm, RowsDistinct
          <6>2. ~DraftStored(shown.rows[NewRow].draft)
            BY <1>2, Zenon DEF IdsShown
          <6> QED BY <1>4, <5>1, <6>1, <6>2
        <5> QED BY <1>4, <3>1, <4>1, <4>2, <5>2
      <4>3. CASE e.id # NoRow
        BY <1>4, <1>5, <3>1, <4>1, <4>3
      <4> QED BY <4>2, <4>3
    <3>2. CASE d # p
      <4>1. d \in shown.delays /\ d.row.key # e.key
        BY <1>4, <2>1, <3>2
      <4>2. \A f \in shown'.delays : f.row.key = d.row.key => f = d
        BY <1>4, <4>1 DEF RowsCalm, DelaysOne
      <4>3. CASE d.row.id = NoRow
        BY <4>1, <4>2, <4>3 DEF RowsCalm, DelaysOne
      <4>4. CASE d.row.id # NoRow
        <5>1. PICK j \in 1..NewRow : shown.rows[j].id = d.row.id /\ shown.rows[j].key = d.row.key
                                       /\ shown.rows[j].value = d.row.value
          BY <4>1, <4>4 DEF RowsCalm, DelaysOne
        <5>2. shown'.rows[j] = shown.rows[j]
          BY <1>4, <1>5, <4>1, <5>1
        <5> QED BY <4>1, <4>2, <4>4, <5>1, <5>2 DEF RowsCalm, DelaysOne
      <4> QED BY <4>3, <4>4
    <3> QED BY <3>1, <3>2
  <2> QED BY <1>2, <1>4, <1>5, <1>6, <2>1 DEF DelaysOne
<1>9. InPlace' /\ IdsShown'
  <2>1. \A j \in DOMAIN stored.rows[openHaku] : j \in 1..NewRow
    BY <1>2 DEF IdsShown, RowsAre
  <2>2. \A j \in 1..(NewRow - 1) : j \in DOMAIN stored.rows[openHaku] /\ j \in 1..NewRow
    BY <1>2 DEF IdsShown, RowsAre
  <2>3. NewRow \in 1..NewRow
    BY <1>2 DEF IdsShown, RowsAre
  <2>4. InPlace'
    BY <1>2, <1>5, <2>2 DEF InPlace, IdsShown
  <2>5. IdsShown'
    BY <1>2, <1>5, <1>6, <2>1, <2>3 DEF IdsShown
  <2> QED BY <2>4, <2>5
<1>10. ValuesKept'
  <2>1. ASSUME NEW j \in 1..NewRow, NEW k \in DOMAIN stored.rows[openHaku],
               stored.rows[openHaku][k].id = shown'.rows[j].id
        PROVE  stored.rows[openHaku][k].value = shown'.rows[j].value
                 \/ \E d \in shown'.delays : d.row.id = shown'.rows[j].id
    <3>1. CASE j = i
      BY <1>4, <1>5, <3>1
    <3>2. CASE j # i
      <4>1. stored.rows[openHaku][k].id = shown.rows[j].id /\ shown'.rows[j] = shown.rows[j]
        BY <1>5, <2>1, <3>2
      <4>2. stored.rows[openHaku][k].value = shown.rows[j].value \/ Delayed(j)
        BY <1>2, <4>1 DEF RowsCalm, ValuesKept, Posted
      <4>3. ASSUME NEW d \in shown.delays, d.row.id = shown.rows[j].id
            PROVE  d \in shown'.delays
        <5>1. d.row.id # NoRow
          BY <4>1, <4>3, StoredNotNew DEF RowsAre
        <5>2. PICK m \in 1..NewRow : shown.rows[m].id = d.row.id /\ shown.rows[m].key = d.row.key
          BY <5>1 DEF RowsCalm, DelaysOne
        <5>3. m = j
          BY <1>2, <4>3, <5>2, ShownOnce DEF RowsCalm
        <5>4. shown.rows[j].key # shown.rows[i].key
          BY <1>5, <3>2 DEF RowsCalm, RowsDistinct
        <5> QED BY <1>4, <5>2, <5>3, <5>4
      <4> QED BY <4>1, <4>2, <4>3 DEF Delayed
    <3> QED BY <3>1, <3>2
  <2> QED BY <1>2, <1>5, <2>1 DEF ValuesKept, Delayed
<1>11. Solo' /\ \A c \in asked' : RowAsked(c)'
  BY <1>2 DEF Solo
<1> QED BY <1>6, <1>7, <1>8, <1>9, <1>10, <1>11 DEF RowsCalm


\* A step that leaves the rows as they are.
RowsLeft ==
  /\ stored' = stored /\ openHaku' = openHaku
  /\ shown'.rows = shown.rows /\ shown'.keys = shown.keys /\ shown'.delays \subseteq shown.delays
LEMMA LeftRows ==
  ASSUME RowsAre, RowsCalm, RowsLeft
  PROVE  /\ IdsOne' /\ DraftsOne' /\ Numbered' /\ RowsDistinct' /\ DelaysOne' /\ InPlace' /\ NewRow' = NewRow
         /\ \A draft : DraftStored(draft)' <=> DraftStored(draft)
         /\ IdsShown => IdsShown'
<1>1. NewRow' = NewRow
  BY DEF RowsLeft, NewRow
<1>2. IdsOne' /\ DraftsOne' /\ \A draft : DraftStored(draft)' <=> DraftStored(draft)
  BY DEF RowsLeft, RowsCalm, IdsOne, DraftsOne, DraftStored
<1>3. Numbered' /\ RowsDistinct'
  BY <1>1 DEF RowsLeft, RowsCalm, Numbered, RowsDistinct
<1>4. DelaysOne'
  BY <1>1, <1>2 DEF RowsLeft, RowsCalm, DelaysOne
<1>5. InPlace'
  BY <1>1 DEF RowsLeft, RowsCalm, InPlace
<1>6. IdsShown => IdsShown'
  BY <1>1, <1>2 DEF RowsLeft, IdsShown
<1> QED BY <1>1, <1>2, <1>3, <1>4, <1>5, <1>6

LEMMA DeleteCalmly ==
  ASSUME ToolsTyped, RowsAre, RowsCalm, why' = {}, NEW i \in DOMAIN shown.rows, DeleteRaportointivelvoite(i)
  PROVE  Solo' /\ RowsCalm'
<1>1. Hurried(asked # {} \/ shown.delays # {}) /\ Keeps
  BY Zenon DEF DeleteRaportointivelvoite, RowsGo, Keeps
<1>2. ~(asked # {} \/ shown.delays # {})
  BY <1>1, AskedAlone
<1>3. PICK d : asked' = asked \cup {d} /\ NewAsk(d, "deleteRow", openHaku, shown.rows[i])
  BY DeleteActs
<1>4. Solo' /\ asked' = {d}
  BY <1>1, <1>2, <1>3, AloneComes DEF NewAsk, Keeps
<1>5. RowsLeft /\ shown'.delays = {}
  BY <1>1, <1>2, DeleteActs DEF ManualIs, TabIs, RowsLeft, Keeps
<1>6. ValuesKept'
  BY <1>2, <1>5 DEF RowsCalm, ValuesKept, RowsLeft, Delayed, Posted, NewRow
<1>7. RowAsked(d)'
  BY <1>3, <1>5 DEF RowAsked, NewAsk
<1> QED BY <1>4, <1>5, <1>6, <1>7, LeftRows DEF RowsCalm

LEMMA DelayCalmly ==
  ASSUME ToolsTyped, RowsAre, RowsCalm, why' = {}, NEW d \in shown.delays, DebouncedRaportointivelvoite(d)
  PROVE  Solo' /\ RowsCalm'
<1>1. Hurried(asked # {}) /\ Keeps
  BY Zenon DEF DebouncedRaportointivelvoite, Hurry, Keeps
<1>2. asked = {} /\ IdsShown
  BY <1>1, AskedAlone DEF RowsCalm
<1>3. PICK c : /\ asked' = asked \cup {c}
               /\ NewAsk(c, IF d.row.id = NoRow THEN "putRow" ELSE "postRow", d.h, d.row)
  BY DelayEnds
<1>4. d.h = openHaku
  BY DEF RowsCalm, DelaysOne
<1>5. Solo' /\ asked' = {c}
  BY <1>1, <1>2, <1>3, <1>4, AloneComes DEF NewAsk, Keeps
<1>6. RowsLeft /\ shown'.delays = shown.delays \ {d}
  BY <1>1, DelayEnds DEF TabIs, RowsLeft, Keeps
<1>7. NewRow' = NewRow /\ \A draft : DraftStored(draft)' <=> DraftStored(draft)
  BY <1>6, LeftRows
<1>8. c.arg = d.row /\ c.at = "sent" /\ c.kind = IF d.row.id = NoRow THEN "putRow" ELSE "postRow"
  BY <1>3 DEF NewAsk
<1>9. ASSUME NEW i \in 1..NewRow, shown.rows[i].id = d.row.id, d.row.id # NoRow
      PROVE  shown.rows[i].value = d.row.value
  <2>1. PICK m \in 1..NewRow : shown.rows[m].id = d.row.id /\ shown.rows[m].value = d.row.value
    BY <1>9 DEF RowsCalm, DelaysOne
  <2>2. m = i
    BY <1>2, <1>9, <2>1, ShownOnce DEF RowsCalm
  <2> QED BY <2>1, <2>2
<1>10. ValuesKept'
  <2>1. ASSUME NEW i \in 1..NewRow, NEW j \in DOMAIN stored.rows[openHaku],
               stored.rows[openHaku][j].id = shown.rows[i].id
        PROVE  stored.rows[openHaku][j].value = shown.rows[i].value \/ Delayed(i)' \/ Posted(i)'
    <3>1. shown.rows[i].id # NoRow
      BY <2>1, StoredNotNew DEF RowsAre
    <3>2. stored.rows[openHaku][j].value = shown.rows[i].value \/ Delayed(i)
      BY <1>2, <2>1 DEF RowsCalm, ValuesKept, Posted
    <3>3. ASSUME Delayed(i), ~(Delayed(i)')
          PROVE  Posted(i)'
      <4>1. d.row.id = shown.rows[i].id
        BY <1>6, <3>3 DEF Delayed, RowsLeft
      <4>2. shown.rows[i].value = d.row.value
        BY <1>9, <3>1, <4>1
      <4> QED BY <1>5, <1>6, <1>8, <3>1, <4>1, <4>2 DEF Posted, RowsLeft
    <3> QED BY <3>2, <3>3
  <2> QED BY <1>6, <1>7, <2>1 DEF ValuesKept, RowsLeft
<1>11. RowAsked(c)'
  <2>1. CASE d.row.id = NoRow
    <3>1. d.row.draft = d.row.key /\ d.row.key < shown.keys /\ ~DraftStored(d.row.draft)
      BY <2>1 DEF RowsCalm, DelaysOne
    <3>2. ASSUME NEW e \in shown'.delays, e.row.id = NoRow PROVE e.row.draft # d.row.draft
      <4>1. e \in shown.delays /\ e # d
        BY <1>6
      <4>2. e.row.draft = e.row.key /\ e.row.key # d.row.key
        BY <3>2, <4>1 DEF RowsCalm, DelaysOne
      <4> QED BY <3>1, <4>2
    <3> QED BY <1>6, <1>7, <1>8, <2>1, <3>1, <3>2 DEF RowAsked, RowsLeft
  <2>2. CASE d.row.id # NoRow
    BY <1>6, <1>7, <1>8, <1>9, <2>2 DEF RowAsked, RowsLeft
  <2> QED BY <2>1, <2>2
<1> QED BY <1>5, <1>6, <1>10, <1>11, LeftRows DEF RowsCalm

LEMMA RowAnsweredCalmly ==
  ASSUME ToolsTyped, RowsAre, Solo, RowsCalm, NEW c \in asked, RowAnswered(c)
  PROVE  Solo' /\ RowsCalm'
<1>1. Keeps /\ c.at = "answered"
  BY Zenon DEF RowAnswered, Keeps
<1>2. PICK d : asked' = (asked \ {c}) \cup {d} /\ NewAsk(d, "getRows", openHaku, {})
  BY RowAnswers
<1>3. Solo' /\ asked' = {d} /\ asked = {c}
  BY <1>1, <1>2, AloneTurns DEF NewAsk, Keeps
<1>4. RowsLeft /\ shown'.delays = shown.delays
  BY <1>1, RowAnswers DEF ManualIs, TabIs, RowsLeft, Keeps
<1>5. ValuesKept'
  BY <1>1, <1>3, <1>4 DEF RowsCalm, ValuesKept, RowsLeft, Delayed, Posted, NewRow
<1>6. RowAsked(d)'
  BY <1>2 DEF RowAsked, NewAsk
<1> QED BY <1>3, <1>4, <1>5, <1>6, LeftRows DEF RowsCalm

LEMMA PreviewCalmly ==
  ASSUME ToolsTyped, RowsAre, Solo, RowsCalm, PreviewEnds
  PROVE  Solo' /\ RowsCalm'
<1>1. Keeps /\ asked' = asked
  BY PreviewKeeps
<1>2. RowsLeft /\ shown'.delays = shown.delays
  BY <1>1, PreviewActs DEF MailSame, MailGoes, MailIs, TabIs, RowsLeft, Keeps
<1>3. NewRow' = NewRow /\ \A draft : DraftStored(draft)' <=> DraftStored(draft)
  BY <1>2, LeftRows
<1>4. ValuesKept'
  BY <1>1, <1>2, <1>3 DEF RowsCalm, ValuesKept, RowsLeft, Delayed, Posted
<1>5. \A c \in asked' : RowAsked(c)'
  BY <1>1, <1>2, <1>3 DEF RowsCalm, RowAsked, RowsLeft
<1>6. Solo'
  BY <1>1 DEF Solo, Keeps
<1> QED BY <1>1, <1>2, <1>4, <1>5, <1>6, LeftRows DEF RowsCalm

\* Another grant is opened: none of its rows is shown.
LEMMA OpenCalmly ==
  ASSUME ToolsTyped, RowsAre, RowsCalm, why' = {}, NEW h \in Haut, OpenHaku(h)
  PROVE  Solo' /\ RowsCalm'
<1>1. stored' = stored /\ asked = {} /\ shown.delays = {} /\ openHaku' = h /\ openHaku # h
  BY OpeningKeeps, HakuOpens
<1>2. PICK d : asked' = asked \cup {d} /\ NewAsk(d, Fetches(tab), h, {})
  BY HakuOpens
<1>3. Solo' /\ asked' = {d}
  BY <1>1, <1>2, AloneComes DEF NewAsk
<1>4. shown'.rows = shown.rows /\ shown'.keys = shown.keys /\ shown'.delays = {}
  BY <1>1, HakuOpens DEF TabIs
<1>5. NewRow' = NewRow
  BY <1>4 DEF NewRow
<1>6. IdsOne' /\ DraftsOne' /\ Numbered' /\ RowsDistinct' /\ DelaysOne' /\ InPlace'
  BY <1>1, <1>4, <1>5, StoredSame DEF RowsAre, RowsCalm, RowsDistinct, DelaysOne, InPlace
<1>7. ValuesKept'
  <2>1. ASSUME NEW i \in 1..NewRow, NEW j \in DOMAIN stored.rows[h], stored.rows[h][j].id = shown.rows[i].id
        PROVE  FALSE
    <3>1. i # NewRow
      BY <2>1, StoredNotNew
    <3>2. i \in DOMAIN stored.rows[openHaku] /\ stored.rows[openHaku][i].id = shown.rows[i].id
      BY <1>1, <3>1 DEF RowsCalm, IdsShown, RowsAre
    <3> QED BY <1>1, <2>1, <3>2 DEF RowsCalm, IdsOne, RowsAre
  <2> QED BY <1>1, <1>4, <1>5, <2>1 DEF ValuesKept
<1>8. RowAsked(d)'
  BY <1>2, <1>4, FetchesOf DEF RowAsked, NewAsk, ToolsTyped
<1> QED BY <1>3, <1>6, <1>7, <1>8 DEF RowsCalm

\* The list comes: a row with the same place and id is kept, the others are as stored.
LEMMA ListCalmly ==
  ASSUME ToolsTyped, RowsAre, Solo, RowsCalm, NEW c \in asked, Raportointivelvoitteet(c)
  PROVE  Solo' /\ RowsCalm'
<1>1. Keeps /\ c.at = "answered" /\ c.kind = "getRows"
  BY Zenon DEF Raportointivelvoitteet, Keeps
<1>2. Solo' /\ asked' = {} /\ asked = {c} /\ c.h = openHaku
  BY RowsCome, AloneGoes
<1>3. c.got = stored.rows[openHaku]
  BY <1>1 DEF RowsCalm, RowAsked
<1>4. PICK rows : Comes(c, rows)
  BY <1>2, RowsCome
<1>5. PICK n \in Nat : n = Len(c.got)
  BY <1>3 DEF RowsAre
<1>6. PICK k \in Nat : k = shown.keys
  BY DEF RowsAre
<1>7. PICK w \in Nat : w = NewRow
  BY DEF RowsAre
<1>8. DOMAIN stored.rows[openHaku] = 1..n /\ DOMAIN shown.rows = 1..w
  BY <1>3, <1>5, <1>7 DEF RowsAre
<1>9. /\ shown'.rows = rows /\ shown'.keys = k + n + 1 /\ shown'.delays = shown.delays
      /\ stored' = stored /\ openHaku' = openHaku /\ NewRow' = n + 1
  BY <1>1, <1>4, <1>5, <1>6 DEF Comes, TabIs, Keeps, NewRow
<1>10. rows[n + 1].id = NoRow /\ rows[n + 1].key = k /\ rows[n + 1].draft = k
  BY <1>4, <1>5, <1>6 DEF Comes
<1>11. ASSUME NEW i \in 1..n
       PROVE  /\ rows[i].id = stored.rows[openHaku][i].id
              /\ \/ i \in 1..w /\ shown.rows[i].id = rows[i].id /\ rows[i] = shown.rows[i]
                 \/ rows[i].value = stored.rows[openHaku][i].value /\ rows[i].key = k + i
              /\ i \in 1..w /\ shown.rows[i].id = stored.rows[openHaku][i].id => rows[i] = shown.rows[i]
  BY <1>3, <1>4, <1>5, <1>6, <1>8 DEF Comes
<1>12. IdsOne' /\ DraftsOne' /\ Numbered' /\ \A draft : DraftStored(draft)' <=> DraftStored(draft)
  BY <1>6, <1>9, StoredSame
<1>13. ASSUME NEW i \in 1..w
       PROVE  shown.rows[i].key \in Nat /\ shown.rows[i].key < k
  BY <1>6, <1>7 DEF RowsCalm, RowsDistinct, RowsAre, ToolRow
<1>14. ASSUME NEW i \in 1..n
       PROVE  rows[i].key \in Nat /\ (rows[i].key < k \/ rows[i].key = k + i)
  BY <1>11, <1>13
<1>15. RowsDistinct'
  <2>1. ASSUME NEW i \in 1..(n + 1)
        PROVE  /\ rows[i].key < k + n + 1 /\ rows[i].id <= stored.ids
               /\ rows[i].id = NoRow <=> i = n + 1
    <3>1. CASE i = n + 1
      BY <1>10, <3>1 DEF RowsAre, NoRow
    <3>2. CASE i \in 1..n
      <4>1. rows[i].id > NoRow /\ rows[i].id <= stored.ids
        BY <1>8, <1>11, <3>2 DEF RowsCalm, Numbered, RowsAre
      <4>2. rows[i].key < k + n + 1
        BY <1>14, <3>2
      <4>3. rows[i].id # NoRow
        <5>1. rows[i].id \in Nat
          BY <1>8, <1>11, <3>2 DEF RowsAre, ToolRow
        <5> QED BY <4>1, <5>1 DEF NoRow
      <4> QED BY <3>2, <4>1, <4>2, <4>3
    <3> QED BY <3>1, <3>2
  <2>2. ASSUME NEW i \in 1..(n + 1), NEW j \in 1..(n + 1), rows[i].key = rows[j].key
        PROVE  i = j
    <3>1. CASE i = n + 1 \/ j = n + 1
      BY <1>10, <1>14, <2>2, <3>1
    <3>2. CASE i \in 1..n /\ j \in 1..n
      <4>1. CASE rows[i].key < k
        <5>1. i \in 1..w /\ j \in 1..w /\ rows[i] = shown.rows[i] /\ rows[j] = shown.rows[j]
          BY <1>11, <1>14, <2>2, <3>2, <4>1
        <5> QED BY <1>7, <2>2, <5>1 DEF RowsCalm, RowsDistinct
      <4>2. CASE ~(rows[i].key < k)
        BY <1>14, <2>2, <3>2, <4>2
      <4> QED BY <4>1, <4>2
    <3> QED BY <3>1, <3>2
  <2> QED BY <1>9, <1>10, <2>1, <2>2 DEF RowsDistinct
<1>16. DelaysOne'
  <2>1. ASSUME NEW d \in shown.delays
        PROVE  /\ d.h = openHaku
               /\ \A e \in shown.delays : e.row.key = d.row.key => e = d
               /\ IF d.row.id = NoRow
                  THEN d.row.draft = d.row.key /\ d.row.key < k + n + 1 /\ ~DraftStored(d.row.draft)
                  ELSE \E i \in 1..(n + 1) : rows[i].id = d.row.id /\ rows[i].key = d.row.key
                                              /\ rows[i].value = d.row.value
    <3>1. CASE d.row.id = NoRow
      <4>1. d.row.key \in Nat
        BY DEF RowsAre, Delay, ToolRow
      <4>2. d.row.draft = d.row.key /\ d.row.key < k /\ ~DraftStored(d.row.draft)
        BY <1>6, <3>1 DEF RowsCalm, DelaysOne
      <4> QED BY <3>1, <4>1, <4>2 DEF RowsCalm, DelaysOne
    <3>2. CASE d.row.id # NoRow
      <4>1. PICK m \in 1..w : shown.rows[m].id = d.row.id /\ shown.rows[m].key = d.row.key
                                /\ shown.rows[m].value = d.row.value
        BY <1>7, <3>2 DEF RowsCalm, DelaysOne
      <4>2. m # w
        BY <1>7, <3>2, <4>1 DEF RowsCalm, RowsDistinct
      <4>3. m \in 1..n /\ stored.rows[openHaku][m].id = shown.rows[m].id
        BY <1>7, <1>8, <4>1, <4>2 DEF RowsCalm, InPlace
      <4>4. rows[m] = shown.rows[m]
        BY <1>11, <4>1, <4>3
      <4> QED BY <3>2, <4>1, <4>3, <4>4 DEF RowsCalm, DelaysOne
    <3> QED BY <3>1, <3>2
  <2> QED BY <1>9, <1>12, <2>1 DEF DelaysOne
<1>17. InPlace'
  BY <1>8, <1>9, <1>11 DEF InPlace
<1>18. ValuesKept'
  <2>1. ASSUME NEW i \in 1..(n + 1), NEW j \in 1..n, stored.rows[openHaku][j].id = rows[i].id
        PROVE  stored.rows[openHaku][j].value = rows[i].value
                 \/ \E d \in shown.delays : d.row.id = rows[i].id
    <3>1. stored.rows[openHaku][j].id > NoRow /\ stored.rows[openHaku][j].id \in Nat
      BY <1>8 DEF RowsCalm, Numbered, RowsAre, ToolRow
    <3>2. i \in 1..n
      BY <1>10, <2>1, <3>1 DEF NoRow
    <3>3. i = j
      BY <1>8, <1>11, <2>1, <3>2 DEF RowsCalm, IdsOne, RowsAre
    <3>4. CASE i \in 1..w /\ shown.rows[i].id = rows[i].id /\ rows[i] = shown.rows[i]
      <4>1. stored.rows[openHaku][j].value = shown.rows[i].value \/ Delayed(i)
        BY <1>1, <1>2, <1>7, <1>8, <2>1, <3>4 DEF RowsCalm, ValuesKept, Posted
      <4> QED BY <3>4, <4>1 DEF Delayed
    <3>5. CASE rows[i].value = stored.rows[openHaku][i].value
      BY <3>3, <3>5
    <3> QED BY <1>11, <3>2, <3>4, <3>5
  <2> QED BY <1>8, <1>9, <2>1 DEF ValuesKept, Delayed
<1>19. IdsShown'
  <2>1. ~DraftStored(k)
    BY <1>6 DEF RowsCalm, Numbered, DraftStored, RowsAre
  <2> QED BY <1>3, <1>5, <1>8, <1>9, <1>10, <1>11, <1>12, <2>1 DEF IdsShown
<1> QED BY <1>2, <1>12, <1>15, <1>16, <1>17, <1>18, <1>19 DEF RowsCalm

LEMMA AnswerCalmly ==
  ASSUME ToolsTyped, tab = "velvoitteet", RowsAre, Solo, RowsCalm, NEW c \in asked, AnswerTool(c)
  PROVE  Solo' /\ RowsCalm'
<1>1. Keeps /\ shown' = shown
  BY AnswerKeeps
<1>2. PICK d : asked' = (asked \ {c}) \cup {d} /\ GoesOn(d, c, "answered", Found(c))
  BY ServerAnswers
<1>3. c.kind = "getRows"
  <2>1. tab \in ToolTabs /\ AskOK(c)
    BY DEF ToolsTyped
  <2> QED BY <2>1, ServerAnswers, AskFacts DEF LakiCalls, MailCalls
<1>4. Solo' /\ asked' = {d} /\ asked = {c} /\ c.h = openHaku
  BY <1>1, <1>2, AloneTurns DEF GoesOn, Keeps
<1>5. d.kind = "getRows" /\ d.got = stored.rows[openHaku]
  BY <1>2, <1>3, <1>4 DEF GoesOn, Found, RowsOf
<1>6. RowsLeft /\ shown'.delays = shown.delays
  BY <1>1 DEF RowsLeft, Keeps
<1>7. ValuesKept'
  BY <1>1, <1>3, <1>4, <1>6 DEF RowsCalm, ValuesKept, RowsLeft, Delayed, Posted, NewRow
<1>8. RowAsked(d)'
  BY <1>5, <1>6 DEF RowAsked, RowsLeft
<1> QED BY <1>4, <1>6, <1>7, <1>8, LeftRows DEF RowsCalm

-----------------------------------------------------------------------------
(* The reporting obligations: what the server makes of them                  *)

\* The rows of the other grants stay.
OthersStay(c) == \A h \in Haut : h # c.h => stored'.rows[h] = stored.rows[h]
\* A new row is added at the end.
Added(c, new, n) ==
  /\ n = Len(stored.rows[c.h]) /\ DOMAIN stored.rows[c.h] = 1..n
  /\ DOMAIN stored'.rows[c.h] = 1..(n + 1)
  /\ \A i \in 1..n : stored'.rows[c.h][i] = stored.rows[c.h][i]
  /\ stored'.rows[c.h][n + 1] = new
  /\ new.id = stored.ids + 1 /\ new.draft = c.arg.draft
  /\ stored'.ids = stored.ids + 1
\* The rows of an id take a value.
Valued(c) ==
  /\ stored'.ids = stored.ids /\ DOMAIN stored'.rows[c.h] = DOMAIN stored.rows[c.h]
  /\ \A i \in DOMAIN stored.rows[c.h] :
       /\ stored'.rows[c.h][i].id = stored.rows[c.h][i].id
       /\ stored'.rows[c.h][i].draft = stored.rows[c.h][i].draft
       /\ stored'.rows[c.h][i].value = IF stored.rows[c.h][i].id = c.arg.id THEN c.arg.value
                                         ELSE stored.rows[c.h][i].value
\* No row comes; those left are distinct ones.
Thinned(c) ==
  /\ stored'.ids = stored.ids
  /\ \A i, j \in DOMAIN stored'.rows[c.h] :
       \E a, b \in DOMAIN stored.rows[c.h] :
         /\ stored'.rows[c.h][i] = stored.rows[c.h][a] /\ stored'.rows[c.h][j] = stored.rows[c.h][b]
         /\ a = b => i = j

LEMMA RemovedAt ==
  ASSUME NEW s \in Seq(ToolRow), NEW k \in 1..Len(s)
  PROVE  /\ RemoveAt(s, k) \in Seq(ToolRow) /\ DOMAIN RemoveAt(s, k) = 1..(Len(s) - 1)
         /\ \A i \in 1..(Len(s) - 1) : RemoveAt(s, k)[i] = IF i < k THEN s[i] ELSE s[i + 1]
<1>1. PICK n \in Nat : n = Len(s)
  OBVIOUS
<1>2. PICK left : left = SubSeq(s, 1, k - 1)
  OBVIOUS
<1>3. PICK right : right = SubSeq(s, k + 1, n)
  OBVIOUS
<1>4. left \in Seq(ToolRow) /\ Len(left) = k - 1 /\ \A i \in 1..(k - 1) : left[i] = s[i]
  BY <1>1, <1>2
<1>5. right \in Seq(ToolRow) /\ Len(right) = n - k /\ \A i \in 1..(n - k) : right[i] = s[k + i]
  BY <1>1, <1>3
<1>6. RemoveAt(s, k) = left \o right
  BY <1>1, <1>2, <1>3 DEF RemoveAt
<1>7. PICK r : r = left \o right
  OBVIOUS
<1>8. r \in Seq(ToolRow) /\ Len(r) = n - 1
  BY <1>1, <1>4, <1>5, <1>7
<1>9. ASSUME NEW i \in 1..(n - 1)
      PROVE  r[i] = IF i < k THEN s[i] ELSE s[i + 1]
  <2>1. CASE i < k
    <3>1. i \in 1..(k - 1)
      BY <1>1, <2>1
    <3>2. r[i] = left[i]
      BY <1>4, <1>5, <1>7, <3>1
    <3> QED BY <1>4, <2>1, <3>1, <3>2
  <2>2. CASE ~(i < k)
    <3>1. PICK m \in Nat : m = i - (k - 1)
      BY <1>1, <2>2
    <3>2. m \in 1..(n - k) /\ i = Len(left) + m
      <4>1. k \in 1..n
        BY <1>1
      <4>2. m \in 1..(n - k) /\ i = (k - 1) + m
        BY ONLY <4>1, <2>2, <3>1, n \in Nat, m \in Nat, i \in 1..(n - 1)
      <4> QED BY <1>4, <4>2
    <3>3. r[i] = right[m]
      BY <1>4, <1>5, <1>7, <3>2
    <3>4. k + m = i + 1
      BY <3>1
    <3> QED BY <1>5, <2>2, <3>2, <3>3, <3>4
  <2> QED BY <2>1, <2>2
<1>10. DOMAIN r = 1..(n - 1)
  BY <1>8
<1>11. RemoveAt(s, k) = r /\ Len(s) - 1 = n - 1
  BY <1>1, <1>6, <1>7
<1> QED BY <1>8, <1>9, <1>10, <1>11

LEMMA StoreDoes ==
  ASSUME ToolsTyped, RowsAre, NEW c \in asked, c.kind \in RowCalls, Stores(c)
  PROVE  /\ OthersStay(c)
         /\ c.kind = "putRow" => \E new, n : Added(c, new, n)
         /\ c.kind = "postRow" => Valued(c)
         /\ c.kind = "deleteRow" => Thinned(c)
<1> DEFINE rows == stored.rows[c.h]
           at == {i \in DOMAIN rows : rows[i].id = c.arg.id}
<1>1. AskOK(c) /\ c.h \in Haut /\ c.arg \in ToolRow /\ stored \in Kept
  BY AskFacts DEF ToolsTyped, AskOK
<1>2. rows \in Seq(ToolRow) /\ stored.rows \in [Haut -> Seq(ToolRow)] /\ stored.ids \in Nat
  BY <1>1 DEF Kept
<1>3. stored'.rows = [stored.rows EXCEPT ![c.h] = StoreRow(rows, c)]
      /\ stored'.ids = IF c.kind = "putRow" THEN stored.ids + 1 ELSE stored.ids
  BY DEF Stores
<1>4. stored'.rows[c.h] = StoreRow(rows, c) /\ OthersStay(c)
  <2>1. PICK r : r = StoreRow(rows, c)
    OBVIOUS
  <2>2. stored'.rows = [stored.rows EXCEPT ![c.h] = r]
    BY <1>3, <2>1
  <2> QED BY <1>1, <1>2, <2>1, <2>2 DEF OthersStay
<1>5. PICK n \in Nat : n = Len(rows) /\ DOMAIN rows = 1..n
  BY <1>2
<1>6. \A i \in 1..n : rows[i] \in ToolRow
  BY <1>2, <1>5
<1>7. ASSUME c.kind = "putRow" PROVE \E new, k : Added(c, new, k)
  <2>1. PICK id \in Nat : id = stored.ids + 1
    BY <1>2
  <2>2. PICK new : new = [c.arg EXCEPT !.id = id]
    OBVIOUS
  <2>3. new \in ToolRow /\ new.id = id /\ new.draft = c.arg.draft
    BY <1>1, <2>2 DEF ToolRow
  <2>4. StoreRow(rows, c) = Append(rows, new)
    BY <1>7, <2>1, <2>2 DEF StoreRow
  <2>5. /\ DOMAIN Append(rows, new) = 1..(n + 1) /\ Append(rows, new)[n + 1] = new
        /\ \A i \in 1..n : Append(rows, new)[i] = rows[i]
    BY <1>2, <1>5, <2>3
  <2>6. Added(c, new, n)
    BY <1>3, <1>4, <1>5, <1>7, <2>1, <2>3, <2>4, <2>5 DEF Added
  <2> QED BY <2>6
<1>8. ASSUME c.kind = "postRow" PROVE Valued(c)
  <2>1. StoreRow(rows, c) = [i \in DOMAIN rows |-> IF i \in at THEN [rows[i] EXCEPT !.value = c.arg.value] ELSE rows[i]]
    BY <1>8 DEF StoreRow
  <2>2. \A r \in ToolRow, v \in Nat : /\ [r EXCEPT !.value = v].id = r.id /\ [r EXCEPT !.value = v].draft = r.draft
                                      /\ [r EXCEPT !.value = v].value = v
    BY DEF ToolRow
  <2>3. c.arg.value \in Nat
    BY <1>1 DEF ToolRow
  <2>4. PICK r : r = StoreRow(rows, c)
    OBVIOUS
  <2>5. /\ DOMAIN r = 1..n
        /\ \A i \in 1..n : r[i] = IF rows[i].id = c.arg.id THEN [rows[i] EXCEPT !.value = c.arg.value] ELSE rows[i]
    BY <1>5, <2>1, <2>4
  <2>6. \A i \in 1..n : /\ r[i].id = rows[i].id /\ r[i].draft = rows[i].draft
                        /\ r[i].value = IF rows[i].id = c.arg.id THEN c.arg.value ELSE rows[i].value
    <3>1. ASSUME NEW i \in 1..n
          PROVE  /\ r[i].id = rows[i].id /\ r[i].draft = rows[i].draft
                 /\ r[i].value = IF rows[i].id = c.arg.id THEN c.arg.value ELSE rows[i].value
      <4>1. PICK row \in ToolRow : row = rows[i]
        BY <1>6
      <4>2. CASE row.id = c.arg.id
        <5>1. r[i] = [row EXCEPT !.value = c.arg.value]
          BY <2>5, <4>1, <4>2
        <5> QED BY <2>2, <2>3, <4>1, <4>2, <5>1
      <4>3. CASE row.id # c.arg.id
        BY <2>5, <4>1, <4>3
      <4> QED BY <4>2, <4>3
    <3> QED BY <3>1
  <2>7. stored'.ids = stored.ids
    BY <1>3, <1>8
  <2> QED BY <1>4, <1>5, <2>4, <2>5, <2>6, <2>7 DEF Valued
<1>9. ASSUME c.kind = "deleteRow" PROVE Thinned(c)
  <2>1. StoreRow(rows, c) = IF at = {} THEN rows ELSE RemoveAt(rows, CHOOSE i \in at : TRUE)
    BY <1>9 DEF StoreRow
  <2>2. stored'.ids = stored.ids
    BY <1>3, <1>9
  <2>3. CASE at = {}
    BY <1>4, <2>1, <2>2, <2>3 DEF Thinned
  <2>4. CASE at # {}
    <3>1. PICK k \in 1..n : RemoveAt(rows, k) = StoreRow(rows, c)
      BY <1>5, <2>1, <2>4
    <3>2. PICK r : r = RemoveAt(rows, k)
      OBVIOUS
    <3>3. r = stored'.rows[c.h]
      BY <1>4, <3>1, <3>2
    <3>4. /\ DOMAIN r = 1..(n - 1)
          /\ \A i \in 1..(n - 1) : r[i] = IF i < k THEN rows[i] ELSE rows[i + 1]
      BY <1>2, <1>5, <3>2, RemovedAt
    <3>5. ASSUME NEW i \in 1..(n - 1), NEW j \in 1..(n - 1)
          PROVE  \E a, b \in 1..n : r[i] = rows[a] /\ r[j] = rows[b] /\ (a = b => i = j)
      <4> HIDE DEF rows
      <4>1. PICK a \in 1..n : a = IF i < k THEN i ELSE i + 1
        OBVIOUS
      <4>2. PICK b \in 1..n : b = IF j < k THEN j ELSE j + 1
        OBVIOUS
      <4>3. r[i] = rows[a] /\ r[j] = rows[b]
        BY <3>4, <4>1, <4>2
      <4>4. a = b => i = j
        BY <4>1, <4>2
      <4> QED BY <4>3, <4>4
    <3>6. \A i, j \in DOMAIN r : \E a, b \in DOMAIN rows : r[i] = rows[a] /\ r[j] = rows[b] /\ (a = b => i = j)
      <4> HIDE DEF rows
      <4>1. DOMAIN rows = 1..n /\ DOMAIN r = 1..(n - 1)
        BY <1>5, <3>4
      <4>2. ASSUME NEW i \in DOMAIN r, NEW j \in DOMAIN r
            PROVE  \E a, b \in DOMAIN rows : r[i] = rows[a] /\ r[j] = rows[b] /\ (a = b => i = j)
        <5>1. i \in 1..(n - 1) /\ j \in 1..(n - 1)
          BY <4>1, <4>2, Zenon
        <5>2. PICK a, b \in 1..n : r[i] = rows[a] /\ r[j] = rows[b] /\ (a = b => i = j)
          BY <3>5, <5>1
        <5>3. a \in DOMAIN rows /\ b \in DOMAIN rows
          BY <4>1, Zenon
        <5> QED BY <5>2, <5>3, Zenon
      <4> QED BY <4>2, Zenon
    <3> QED BY <2>2, <3>3, <3>6 DEF Thinned
  <2> QED BY <2>3, <2>4
<1> QED BY <1>4, <1>7, <1>8, <1>9

\* A request is answered on what it asked to store.
Done(c, d) ==
  /\ asked = {c} /\ c.h = openHaku /\ c.at = "sent" /\ asked' = {d}
  /\ d.kind = c.kind /\ d.arg = c.arg /\ d.at = "answered"
  /\ shown' = shown /\ openHaku' = openHaku

LEMMA PutCalmly ==
  ASSUME RowsAre, RowsCalm, NEW c, NEW d, Done(c, d), c.kind = "putRow", OthersStay(c),
         NEW new, NEW n, Added(c, new, n)
  PROVE  RowsCalm'
<1>1. NewRow' = NewRow /\ shown' = shown /\ openHaku' = openHaku /\ c.h = openHaku /\ openHaku \in Haut
  BY DEF Done, NewRow, RowsAre
<1>2. PICK ids \in Nat : ids = stored.ids /\ stored'.ids = ids + 1 /\ new.id = ids + 1
  BY DEF Added, RowsAre
<1>3. n \in Nat /\ DOMAIN stored.rows[openHaku] = 1..n
  BY <1>1 DEF Added, RowsAre
<1>4. ASSUME NEW h \in Haut, NEW j \in DOMAIN stored'.rows[h]
      PROVE  \/ h = openHaku /\ j = n + 1 /\ stored'.rows[h][j] = new
             \/ j \in DOMAIN stored.rows[h] /\ stored'.rows[h][j] = stored.rows[h][j]
  <2>1. CASE h = openHaku
    <3>1. /\ DOMAIN stored'.rows[openHaku] = 1..(n + 1) /\ stored'.rows[openHaku][n + 1] = new
          /\ \A i \in 1..n : stored'.rows[openHaku][i] = stored.rows[openHaku][i]
      BY <1>1 DEF Added
    <3>2. j = n + 1 \/ j \in 1..n
      BY <1>3, <2>1, <3>1
    <3> QED BY <1>3, <2>1, <3>1, <3>2
  <2>2. CASE h # openHaku
    BY <1>1, <2>2 DEF OthersStay
  <2> QED BY <2>1, <2>2
<1>5. ASSUME NEW h \in Haut, NEW j \in DOMAIN stored.rows[h]
      PROVE  /\ j \in DOMAIN stored'.rows[h] /\ stored'.rows[h][j] = stored.rows[h][j]
             /\ stored.rows[h][j].id \in Nat /\ stored.rows[h][j].id > NoRow /\ stored.rows[h][j].id <= ids
             /\ stored.rows[h][j].draft # new.draft
  <2>1. j \in DOMAIN stored'.rows[h] /\ stored'.rows[h][j] = stored.rows[h][j]
    BY <1>1, <1>3 DEF OthersStay, Added
  <2>2. stored.rows[h][j].id \in Nat /\ stored.rows[h][j].id > NoRow /\ stored.rows[h][j].id <= ids
    BY <1>2 DEF RowsCalm, Numbered, RowsAre, ToolRow
  <2>3. ~DraftStored(new.draft)
    BY DEF RowsCalm, RowAsked, Done, Added
  <2> QED BY <2>1, <2>2, <2>3 DEF DraftStored
<1>6. IdsOne'
  <2>1. ASSUME NEW g \in Haut, NEW h \in Haut, NEW i \in DOMAIN stored'.rows[g], NEW j \in DOMAIN stored'.rows[h],
               stored'.rows[g][i].id = stored'.rows[h][j].id
        PROVE  g = h /\ i = j
    <3>1. CASE i \in DOMAIN stored.rows[g] /\ j \in DOMAIN stored.rows[h]
      BY <1>5, <2>1, <3>1 DEF RowsCalm, IdsOne
    <3>2. CASE ~(i \in DOMAIN stored.rows[g] /\ j \in DOMAIN stored.rows[h])
      BY <1>2, <1>4, <1>5, <2>1, <3>2
    <3> QED BY <3>1, <3>2
  <2> QED BY <2>1 DEF IdsOne
<1>7. DraftsOne'
  <2>1. ASSUME NEW g \in Haut, NEW h \in Haut, NEW i \in DOMAIN stored'.rows[g], NEW j \in DOMAIN stored'.rows[h],
               stored'.rows[g][i].draft = stored'.rows[h][j].draft
        PROVE  g = h /\ i = j
    <3>1. CASE i \in DOMAIN stored.rows[g] /\ j \in DOMAIN stored.rows[h]
      BY <1>5, <2>1, <3>1 DEF RowsCalm, DraftsOne
    <3>2. CASE ~(i \in DOMAIN stored.rows[g] /\ j \in DOMAIN stored.rows[h])
      BY <1>4, <1>5, <2>1, <3>2
    <3> QED BY <3>1, <3>2
  <2> QED BY <2>1 DEF DraftsOne
<1>8. ASSUME NEW draft, DraftStored(draft)'
      PROVE  DraftStored(draft) \/ draft = new.draft
  BY <1>4, <1>8 DEF DraftStored
<1>9. new.draft = c.arg.draft /\ new.draft < shown.keys
  BY DEF RowsCalm, RowAsked, Done, Added
<1>10. Numbered'
  <2>1. ASSUME NEW h \in Haut, NEW j \in DOMAIN stored'.rows[h]
        PROVE  /\ stored'.rows[h][j].id > NoRow /\ stored'.rows[h][j].id <= ids + 1
               /\ stored'.rows[h][j].draft < shown.keys
    <3>1. CASE h = openHaku /\ j = n + 1 /\ stored'.rows[h][j] = new
      BY <1>2, <1>9, <3>1 DEF NoRow
    <3>2. CASE j \in DOMAIN stored.rows[h] /\ stored'.rows[h][j] = stored.rows[h][j]
      <4>1. stored.rows[h][j].draft < shown.keys
        BY <3>2 DEF RowsCalm, Numbered
      <4> QED BY <1>2, <1>5, <3>2, <4>1
    <3> QED BY <1>4, <3>1, <3>2
  <2> QED BY <1>1, <1>2, <2>1 DEF Numbered
<1>11. RowsDistinct'
  <2>1. \A i \in 1..NewRow : shown.rows[i].id <= ids + 1
    BY <1>2 DEF RowsCalm, RowsDistinct, RowsAre, ToolRow
  <2> QED BY <1>1, <1>2, <2>1 DEF RowsCalm, RowsDistinct
<1>12. DelaysOne'
  <2>1. ASSUME NEW e \in shown.delays, e.row.id = NoRow
        PROVE  ~(DraftStored(e.row.draft)')
    <3>1. ~DraftStored(e.row.draft) /\ e.row.draft # new.draft
      BY <1>9, <2>1 DEF RowsCalm, DelaysOne, RowAsked, Done
    <3> QED BY <1>8, <3>1
  <2> QED BY <1>1, <2>1 DEF RowsCalm, DelaysOne
<1>13. InPlace'
  BY <1>1, <1>5 DEF RowsCalm, InPlace
<1>14. ValuesKept'
  <2>1. ASSUME NEW i \in 1..NewRow, NEW j \in DOMAIN stored'.rows[openHaku],
               stored'.rows[openHaku][j].id = shown.rows[i].id
        PROVE  stored'.rows[openHaku][j].value = shown.rows[i].value \/ Delayed(i)
    <3>1. shown.rows[i].id \in Nat /\ shown.rows[i].id <= ids
      BY <1>2 DEF RowsCalm, RowsDistinct, RowsAre, ToolRow
    <3>2. j \in DOMAIN stored.rows[openHaku] /\ stored'.rows[openHaku][j] = stored.rows[openHaku][j]
      BY <1>1, <1>2, <1>4, <2>1, <3>1
    <3>3. ~Posted(i)
      BY DEF Posted, Done
    <3> QED BY <2>1, <3>2, <3>3 DEF RowsCalm, ValuesKept
  <2> QED BY <1>1, <2>1 DEF ValuesKept, Delayed
<1>15. asked' = {d} /\ RowAsked(d)'
  BY <1>9 DEF RowAsked, Done
<1> QED BY <1>6, <1>7, <1>10, <1>11, <1>12, <1>13, <1>14, <1>15 DEF RowsCalm

LEMMA PostCalmly ==
  ASSUME RowsAre, RowsCalm, NEW c, NEW d, Done(c, d), c.kind = "postRow", OthersStay(c), Valued(c)
  PROVE  RowsCalm'
<1>1. NewRow' = NewRow /\ shown' = shown /\ openHaku' = openHaku /\ c.h = openHaku /\ openHaku \in Haut
      /\ stored'.ids = stored.ids
  BY DEF Done, NewRow, RowsAre, Valued
<1>2. ASSUME NEW h \in Haut
      PROVE  /\ DOMAIN stored'.rows[h] = DOMAIN stored.rows[h]
             /\ \A j \in DOMAIN stored.rows[h] : /\ stored'.rows[h][j].id = stored.rows[h][j].id
                                                 /\ stored'.rows[h][j].draft = stored.rows[h][j].draft
  BY <1>1 DEF OthersStay, Valued
<1>3. IdsOne' /\ DraftsOne'
  BY <1>2 DEF RowsCalm, IdsOne, DraftsOne
<1>4. \A draft : DraftStored(draft)' <=> DraftStored(draft)
  BY <1>2 DEF DraftStored
<1>5. Numbered' /\ RowsDistinct'
  BY <1>1, <1>2 DEF RowsCalm, Numbered, RowsDistinct
<1>6. DelaysOne' /\ InPlace'
  BY <1>1, <1>2, <1>4 DEF RowsCalm, DelaysOne, InPlace
<1>7. ValuesKept'
  <2>1. ASSUME NEW i \in 1..NewRow, NEW j \in DOMAIN stored.rows[openHaku],
               stored.rows[openHaku][j].id = shown.rows[i].id
        PROVE  stored'.rows[openHaku][j].value = shown.rows[i].value \/ Delayed(i)
    <3>1. CASE stored.rows[openHaku][j].id = c.arg.id
      <4>1. stored'.rows[openHaku][j].value = c.arg.value
        BY <1>1, <3>1 DEF Valued
      <4>2. shown.rows[i].value = c.arg.value
        BY <2>1, <3>1 DEF RowsCalm, RowAsked, Done
      <4> QED BY <4>1, <4>2
    <3>2. CASE stored.rows[openHaku][j].id # c.arg.id
      <4>1. stored'.rows[openHaku][j].value = stored.rows[openHaku][j].value
        BY <1>1, <3>2 DEF Valued
      <4>2. ~Posted(i)
        BY <2>1, <3>2 DEF Posted, Done
      <4> QED BY <2>1, <4>1, <4>2 DEF RowsCalm, ValuesKept
    <3> QED BY <3>1, <3>2
  <2> QED BY <1>1, <1>2, <2>1 DEF ValuesKept, Delayed
<1>8. asked' = {d} /\ RowAsked(d)'
  BY DEF RowAsked, Done
<1> QED BY <1>3, <1>5, <1>6, <1>7, <1>8 DEF RowsCalm

LEMMA DeletedCalmly ==
  ASSUME RowsAre, RowsCalm, NEW c, NEW d, Done(c, d), c.kind = "deleteRow", OthersStay(c), Thinned(c)
  PROVE  RowsCalm'
<1>1. /\ NewRow' = NewRow /\ shown' = shown /\ openHaku' = openHaku /\ c.h = openHaku /\ openHaku \in Haut
      /\ stored'.ids = stored.ids /\ shown.delays = {}
  BY DEF Done, NewRow, RowsAre, Thinned, RowsCalm, RowAsked
<1>2. ASSUME NEW h \in Haut, NEW i \in DOMAIN stored'.rows[h], NEW j \in DOMAIN stored'.rows[h]
      PROVE  \E a, b \in DOMAIN stored.rows[h] :
               /\ stored'.rows[h][i] = stored.rows[h][a] /\ stored'.rows[h][j] = stored.rows[h][b]
               /\ a = b => i = j
  BY <1>1 DEF OthersStay, Thinned
<1>3. ASSUME NEW g \in Haut, NEW h \in Haut, NEW i \in DOMAIN stored'.rows[g], NEW j \in DOMAIN stored'.rows[h],
             stored'.rows[g][i].id = stored'.rows[h][j].id \/ stored'.rows[g][i].draft = stored'.rows[h][j].draft
      PROVE  g = h /\ i = j
  <2>1. PICK a \in DOMAIN stored.rows[g] : stored'.rows[g][i] = stored.rows[g][a]
    BY <1>2
  <2>2. PICK b \in DOMAIN stored.rows[h] : stored'.rows[h][j] = stored.rows[h][b]
    BY <1>2
  <2>3. g = h
    BY <1>3, <2>1, <2>2 DEF RowsCalm, IdsOne, DraftsOne
  <2>4. PICK k, m \in DOMAIN stored.rows[g] :
          /\ stored'.rows[g][i] = stored.rows[g][k] /\ stored'.rows[g][j] = stored.rows[g][m]
          /\ k = m => i = j
    BY <1>2, <2>3
  <2>5. k = m
    BY <1>3, <2>3, <2>4 DEF RowsCalm, IdsOne, DraftsOne
  <2> QED BY <2>3, <2>4, <2>5
<1>4. IdsOne' /\ DraftsOne'
  BY <1>3 DEF IdsOne, DraftsOne
<1>5. ASSUME NEW h \in Haut, NEW j \in DOMAIN stored'.rows[h]
      PROVE  \E a \in DOMAIN stored.rows[h] : stored'.rows[h][j] = stored.rows[h][a]
  BY <1>2
<1>6. Numbered'
  BY <1>1, <1>5 DEF RowsCalm, Numbered
<1>7. RowsDistinct' /\ DelaysOne' /\ InPlace'
  BY <1>1 DEF RowsCalm, RowsDistinct, DelaysOne, InPlace
<1>8. ValuesKept'
  BY <1>1, <1>5 DEF RowsCalm, ValuesKept, Delayed, Posted, Done
<1>9. asked' = {d} /\ RowAsked(d)'
  BY <1>1 DEF RowAsked, Done
<1> QED BY <1>4, <1>6, <1>7, <1>8, <1>9 DEF RowsCalm

LEMMA StoreCalmly ==
  ASSUME ToolsTyped, DocumentsLeft, tab = "velvoitteet", RowsAre, Solo, RowsCalm, NEW c \in asked, StoreTool(c)
  PROVE  Solo' /\ RowsCalm'
<1>1. openHaku' = openHaku /\ shown' = shown /\ c.at = "sent"
      /\ c.kind \in RowCalls \cup {"postLaki", "batch", "document", "payments", "admin"}
  BY Zenon, StoreKeeps DEF StoreTool
<1>2. PICK d : asked' = (asked \ {c}) \cup {d} /\ GoesOn(d, c, "answered", c.got)
  BY StoreToolDoes
<1>3. Solo' /\ asked' = {d} /\ asked = {c} /\ c.h = openHaku
  BY <1>1, <1>2, AloneTurns DEF GoesOn
<1>4. Done(c, d)
  BY <1>1, <1>2, <1>3 DEF Done, GoesOn
<1>5. c.kind \in RowCalls
  <2>1. AskOK(c) /\ tab \in ToolTabs
    BY DEF ToolsTyped
  <2> QED BY <1>1, <2>1, AskFacts DEF PayCalls, LakiCalls
<1>6. Stores(c)
  BY StoreToolDoes
<1>7. RowsCalm'
  BY <1>4, <1>5, <1>6, StoreDoes, PutCalmly, PostCalmly, DeletedCalmly DEF RowCalls
<1> QED BY <1>3, <1>7

LEMMA RowsCalmly ==
  ASSUME ToolsTyped, DocumentsLeft, tab = "velvoitteet", Solo, RowsCalm, why' = {}, SharedSteps \/ RowSteps
  PROVE  Solo' /\ RowsCalm'
<1>1. RowsAre
  BY TypedRows
<1> QED BY <1>1, EditCalmly, DeleteCalmly, DelayCalmly, RowAnsweredCalmly, ListCalmly, PreviewCalmly, OpenCalmly,
           AnswerCalmly, StoreCalmly, Zenon DEF SharedSteps, RowSteps

-----------------------------------------------------------------------------
(* The tools of the grant editor: the invariant                              *)

LEMMA CalmStarts ==
  ASSUME ToolsInit
  PROVE  Calm /\ ToolsBusy
<1>1. asked = {[id |-> 1, kind |-> Fetches(tab), h |-> openHaku, at |-> "sent", arg |-> {}, got |-> {}]}
  BY Zenon DEF ToolsInit
<1>2. PICK c : asked = {c} /\ c.kind = Fetches(tab) /\ c.h = openHaku /\ c.at = "sent"
  <2>1. PICK kind : kind = Fetches(tab)
    OBVIOUS
  <2>2. PICK c : c = [id |-> 1, kind |-> kind, h |-> openHaku, at |-> "sent", arg |-> {}, got |-> {}]
    OBVIOUS
  <2>3. c.kind = kind /\ c.h = openHaku /\ c.at = "sent"
    BY <2>2
  <2> QED BY <1>1, <2>1, <2>2, <2>3
<1>3. ToolsTyped
  BY ToolsStart
<1>4. tab \in ToolTabs /\ openHaku \in Haut
  BY <1>3 DEF ToolsTyped
<1>5. c.kind \in {"getLaki", "getRows", "getSent", "getPayments", "getLog"}
  BY <1>2, <1>4, FetchesOf
<1>6. Solo
  BY <1>2 DEF Solo
<1>7. stored = [laki |-> [h \in Haut |-> Lait], rows |-> [h \in Haut |-> <<>>], ids |-> 0,
               mailed |-> [h \in Haut |-> 0], marked |-> [h \in Haut |-> FALSE],
               unsent |-> [h \in Haut |-> TRUE], batch |-> [h \in Haut |-> "none"],
               docs |-> [h \in Haut |-> {}]]
      /\ clicked = [h \in Haut |-> Lait]
  BY Zenon DEF ToolsInit
<1>8. stored.laki = clicked /\ stored.ids = 0 /\ \A h \in Haut : stored.rows[h] = <<>>
  BY <1>7
<1>9. /\ ~shown.manual /\ shown.rows = <<EmptyRow(0)>> /\ shown.keys = 1 /\ shown.delays = {}
      /\ shown.mail = NoMail /\ shown.pay.sending = Nothing
      /\ ~shown.report.sending /\ shown.report.count = NoHaku
  <2>1. shown = [laki |-> {}, manual |-> FALSE, rows |-> <<EmptyRow(0)>>, keys |-> 1, delays |-> {},
                 mail |-> NoMail, pay |-> [unsent |-> FALSE, docs |-> {}, sending |-> Nothing],
                 report |-> [sending |-> FALSE, count |-> NoHaku, log |-> NoHaku]]
    BY Zenon DEF ToolsInit, Nothing
  <2>2. PICK e : e = EmptyRow(0)
    OBVIOUS
  <2>3. PICK mail : mail = NoMail
    OBVIOUS
  <2>4. shown = [laki |-> {}, manual |-> FALSE, rows |-> <<e>>, keys |-> 1, delays |-> {},
                 mail |-> mail, pay |-> [unsent |-> FALSE, docs |-> {}, sending |-> Nothing],
                 report |-> [sending |-> FALSE, count |-> NoHaku, log |-> NoHaku]]
    BY <2>1, <2>2, <2>3
  <2> QED BY <2>2, <2>3, <2>4
<1>10. LakiCalm
  BY <1>2, <1>5, <1>8 DEF LakiCalm
<1>11. MailCalm
  BY <1>2, <1>5 DEF MailCalm
<1>12. PayCalm
  BY <1>2 DEF PayCalm
<1>13. ReportCalm
  BY <1>2, <1>9 DEF ReportCalm
<1>14. RowsCalm
  <2>1. NewRow = 1 /\ shown.rows[1].id = NoRow /\ shown.rows[1].key = 0 /\ shown.rows[1].draft = 0
    BY <1>9 DEF NewRow, EmptyRow
  <2>2. IdsOne /\ DraftsOne /\ Numbered
    BY <1>8 DEF IdsOne, DraftsOne, Numbered
  <2>3. RowsDistinct
    BY <1>8, <1>9, <2>1 DEF RowsDistinct, NoRow
  <2>4. DelaysOne /\ InPlace /\ ValuesKept
    BY <1>4, <1>8, <1>9 DEF DelaysOne, InPlace, ValuesKept
  <2>5. RowAsked(c)
    BY <1>2, <1>5 DEF RowAsked
  <2> QED BY <1>2, <2>2, <2>3, <2>4, <2>5 DEF RowsCalm
<1>15. ToolsBusy
  <2>1. ~shown.mail.sending
    BY <1>9, NoMailIs
  <2>2. c.kind \notin PayCalls /\ shown.pay.sending # "send"
    BY <1>5, <1>9, NothingDiffers DEF PayCalls
  <2> QED BY <1>2, <1>9, <2>1, <2>2 DEF ToolsBusy, ManualForAReason, MailForAReason, PayForAReason, ReportForAReason
<1> QED BY <1>6, <1>10, <1>11, <1>12, <1>13, <1>14, <1>15 DEF Calm

LEMMA TabStaysShown ==
  ASSUME ToolsTyped, DocumentsLeft, ToolsNext
  PROVE  tab' = tab
BY Zenon DEF ToolsNext, Lainsaadanto, Raportointivelvoite, DeleteRaportointivelvoite,
   DebouncedRaportointivelvoite, OnPreview, PreviewEnds, DecisionDateAndSend, ResendDecisions,
   RegenerateDecisions, DocumentEditor, LahtevatMaksatukset, AdminTools, OnSendSelvitys, OpenHaku,
   AnswerTool, StoreTool, GetHakemusIdsToSend, SendPaatosForAll, SendPaatos, SendPaatosFails,
   AddPaatosSentEmails, LakiAnswered, RowAnswered,
   Raportointivelvoitteet, EmailStateFetched, SendAnswered, ResendAnswered, RegenerateAnswered,
   CreatePaymentBatches, PaymentsAnswered, MaksatuksetPage, AdminAnswered, AdminRefreshed,
   SelvitysSent, FetchTapahtumaloki, ToolFails

LEMMA CalmStays ==
  ASSUME ToolsTyped, DocumentsLeft, Calm, ToolsNext
  PROVE  Calm'
<1> SUFFICES ASSUME why' = {}
             PROVE  /\ Solo'
                    /\ tab = "laki" => LakiCalm'
                    /\ tab = "velvoitteet" => RowsCalm'
                    /\ tab = "paatokset" => MailCalm'
                    /\ tab = "maksatukset" => PayCalm'
                    /\ tab = "selvitys" => ReportCalm'
  BY TabStaysShown DEF Calm
<1>1. why = {}
  BY StepsRemember
<1>2. /\ Solo
      /\ tab = "laki" => LakiCalm
      /\ tab = "velvoitteet" => RowsCalm
      /\ tab = "paatokset" => MailCalm
      /\ tab = "maksatukset" => PayCalm
      /\ tab = "selvitys" => ReportCalm
  BY <1>1 DEF Calm
<1>3. tab \in {"laki", "velvoitteet", "paatokset", "maksatukset", "selvitys"}
  BY DEF ToolsTyped, ToolTabs
<1>4. CASE tab = "laki"
  <2>1. SharedSteps \/ LakiSteps
    BY <1>4, StepsByTab
  <2> QED BY <1>2, <1>4, <2>1, LakiCalmly
<1>5. CASE tab = "velvoitteet"
  <2>1. SharedSteps \/ RowSteps
    BY <1>5, StepsByTab
  <2> QED BY <1>2, <1>5, <2>1, RowsCalmly
<1>6. CASE tab = "paatokset"
  <2>1. SharedSteps \/ MailSteps
    BY <1>6, StepsByTab
  <2> QED BY <1>2, <1>6, <2>1, MailCalmly
<1>7. CASE tab = "maksatukset"
  <2>1. SharedSteps \/ PaySteps
    BY <1>7, StepsByTab
  <2> QED BY <1>2, <1>7, <2>1, PayCalmly
<1>8. CASE tab = "selvitys"
  <2>1. SharedSteps \/ ReportSteps
    BY <1>8, StepsByTab
  <2> QED BY <1>2, <1>8, <2>1, ReportCalmly
<1> QED BY <1>3, <1>4, <1>5, <1>6, <1>7, <1>8

\* What the tools keep, in one.
ToolsInv ==
  ToolsTyped /\ DocumentsLeft /\ DocumentsFollow /\ MailedAsMarked /\ ToolsBusy /\ Calm

LEMMA ToolsBegin ==
  ASSUME ToolsInit
  PROVE  ToolsInv
BY ToolsStart, SendingStarts, CalmStarts DEF ToolsInv

LEMMA ToolsGoOn ==
  ASSUME ToolsInv, ToolsNext
  PROVE  ToolsInv'
BY ToolStepTyped, DocumentsStayFollowed, MailedStaysMarked, IndicatorsGoOn, CalmStays DEF ToolsInv

LEMMA ToolsUnmoved ==
  ASSUME ToolsInv, UNCHANGED toolVars
  PROVE  ToolsInv'
<1>1. /\ tab' = tab /\ openHaku' = openHaku /\ shown' = shown /\ stored' = stored /\ asked' = asked
      /\ toolsUsed' = toolsUsed /\ clicked' = clicked /\ why' = why
  BY Zenon DEF toolVars
<1>2. \A c : AskOK(c)' <=> AskOK(c)
  BY <1>1, AskStays
<1>3. ToolsTyped' /\ DocumentsLeft'
  BY <1>1, <1>2 DEF ToolsInv, ToolsTyped, DocumentsLeft
<1>4. DocumentsFollow' /\ MailedAsMarked'
  <2>1. DocumentsFollow'
    BY <1>1 DEF ToolsInv, DocumentsFollow, SentBatchHasDocuments, NextDocument
  <2>2. MailedAsMarked'
    BY <1>1 DEF ToolsInv, MailedAsMarked, MailedOnce, MarkedWasMailed, NoneCutOff, IsPosted
  <2> QED BY <2>1, <2>2
<1>5. ToolsBusy'
  BY <1>1 DEF ToolsInv, ToolsBusy, ManualForAReason, MailForAReason, PayForAReason, ReportForAReason
<1>6. Solo' <=> Solo
  BY <1>1 DEF Solo
<1>7. (LakiCalm' <=> LakiCalm) /\ (MailCalm' <=> MailCalm) /\ (PayCalm' <=> PayCalm) /\ (ReportCalm' <=> ReportCalm)
  BY <1>1 DEF LakiCalm, MailCalm, PayCalm, ReportCalm
<1>8. RowsCalm => RowsCalm'
  <2>1. NewRow' = NewRow /\ \A draft : DraftStored(draft)' <=> DraftStored(draft)
    BY <1>1 DEF NewRow, DraftStored
  <2>2. RowsCalm => IdsOne' /\ DraftsOne' /\ Numbered' /\ RowsDistinct' /\ DelaysOne' /\ InPlace'
    BY <1>1, <2>1 DEF RowsCalm, IdsOne, DraftsOne, Numbered, RowsDistinct, DelaysOne, InPlace
  <2>3. RowsCalm => ValuesKept' /\ (asked' = {} => IdsShown')
    BY <1>1, <2>1 DEF RowsCalm, ValuesKept, Delayed, Posted, IdsShown
  <2>4. RowsCalm => \A c \in asked' : RowAsked(c)'
    BY <1>1, <2>1 DEF RowsCalm, RowAsked
  <2> QED BY <2>2, <2>3, <2>4 DEF RowsCalm
<1>9. Calm'
  BY <1>1, <1>6, <1>7, <1>8 DEF ToolsInv, Calm
<1> QED BY <1>3, <1>4, <1>5, <1>9 DEF ToolsInv

\* What the run checks of it.
LEMMA ToolsTyping ==
  ASSUME ToolsInv
  PROVE  ToolsTypeOK
<1>1. ToolsTyped
  BY DEF ToolsInv
<1>2. tab \in ToolTabs /\ openHaku \in Haut /\ shown.laki \subseteq Lait /\ shown.manual \in BOOLEAN
      /\ stored.mailed \in [Haut -> Nat] /\ clicked \in [Haut -> SUBSET Lait]
  BY <1>1 DEF ToolsTyped, Tab, Kept
<1>3. shown.pay \in Pay /\ shown.mail \in Mail
  BY <1>1 DEF ToolsTyped, Tab
<1> QED BY Zenon, <1>2, <1>3 DEF ToolsTypeOK, Pay, Mail, Nothing

LEMMA ToolsAreAgreed ==
  ASSUME ToolsInv
  PROVE  ToolsAgree
<1> SUFFICES ASSUME asked = {}, shown.delays = {}, why = {}
             PROVE  /\ tab = "laki" => shown.laki = stored.laki[openHaku] /\ stored.laki = clicked
                    /\ tab = "velvoitteet" =>
                         /\ Len(shown.rows) = Len(RowsOf(openHaku)) + 1
                         /\ \A i \in DOMAIN RowsOf(openHaku) :
                              RowsOf(openHaku)[i].id = shown.rows[i].id /\ RowsOf(openHaku)[i].value = shown.rows[i].value
                         /\ \A g, h \in Haut : \A i \in DOMAIN RowsOf(g), j \in DOMAIN RowsOf(h) :
                              RowsOf(g)[i].draft = RowsOf(h)[j].draft => g = h /\ i = j
                    /\ tab = "paatokset" => shown.mail.of = openHaku /\ shown.mail.sent = stored.marked[openHaku]
                    /\ tab = "maksatukset" => shown.pay.unsent = stored.unsent[openHaku]
                    /\ tab = "selvitys" => shown.report.log = openHaku /\ shown.report.count \in {NoHaku, openHaku}
  <2>1. tab \in {"laki", "velvoitteet", "paatokset", "maksatukset", "selvitys"}
    BY DEF ToolsInv, ToolsTyped, ToolTabs
  <2> QED BY <2>1 DEF ToolsAgree
<1>1. /\ Solo
      /\ tab = "laki" => LakiCalm
      /\ tab = "velvoitteet" => RowsCalm
      /\ tab = "paatokset" => MailCalm
      /\ tab = "maksatukset" => PayCalm
      /\ tab = "selvitys" => ReportCalm
  BY DEF ToolsInv, Calm
<1>2. ASSUME tab = "velvoitteet"
      PROVE  /\ Len(shown.rows) = Len(RowsOf(openHaku)) + 1
             /\ \A i \in DOMAIN RowsOf(openHaku) :
                  RowsOf(openHaku)[i].id = shown.rows[i].id /\ RowsOf(openHaku)[i].value = shown.rows[i].value
             /\ \A g, h \in Haut : \A i \in DOMAIN RowsOf(g), j \in DOMAIN RowsOf(h) :
                  RowsOf(g)[i].draft = RowsOf(h)[j].draft => g = h /\ i = j
  <2>1. RowsCalm /\ IdsShown /\ ValuesKept /\ DraftsOne
    BY <1>1, <1>2 DEF RowsCalm
  <2>2. RowsAre
    BY TypedRows DEF ToolsInv
  <2>3. ASSUME NEW i \in DOMAIN stored.rows[openHaku]
        PROVE  stored.rows[openHaku][i].id = shown.rows[i].id /\ stored.rows[openHaku][i].value = shown.rows[i].value
    <3>1. i \in 1..NewRow
      BY <2>1, <2>2 DEF IdsShown, RowsAre
    <3> QED BY <2>1, <3>1 DEF IdsShown, ValuesKept, Delayed, Posted
  <2> QED BY <2>1, <2>3 DEF IdsShown, DraftsOne, RowsOf, NewRow
<1> QED BY <1>1, <1>2 DEF LakiCalm, MailCalm, PayCalm, ReportCalm

LEMMA ToolsSendOnce ==
  ASSUME ToolsInv
  PROVE  DecisionsMailedOnce /\ SentBatchHasDocuments /\ ToolsBusyHasAReason
<1>1. SentBatchHasDocuments
  BY DEF ToolsInv, DocumentsFollow
<1>2. DecisionsMailedOnce
  <2>1. MailedOnce /\ MarkedWasMailed
    BY DEF ToolsInv, MailedAsMarked
  <2>2. \A h \in Haut : NoneCutOff => stored.mailed[h] <= 1
    BY <2>1 DEF MailedOnce
  <2> QED BY <2>1, <2>2 DEF MarkedWasMailed, NoneCutOff, DecisionsMailedOnce
<1> QED BY <1>1, <1>2, BusyTold DEF ToolsInv

================================================================================
