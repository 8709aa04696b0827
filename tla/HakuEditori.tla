-------------------------------- MODULE HakuEditori --------------------------------
(***************************************************************************)
(* The grant editor: the redux store of va-virkailija/.../hakujen-         *)
(* hallinta-page, its tabs, and what its thunks ask of the server.         *)
(*                                                                         *)
(* A grant is a row that is saved whole three seconds after the last edit  *)
(* of the page, and some parts with a request of their own.  A value is    *)
(* the number of the edit that gave it; of the status its name is kept.    *)
(***************************************************************************)
EXTENDS Yhteiset, Naturals, FiniteSets

CONSTANTS MaxEdits, MaxOpenings,   \* edits; grants opened or copied and drafts saved
          MaxFailures

Draft == 0          \* the statuses: numbers, as the edits of the other parts are
Published == 100
Resolved == 101
Deleted == 102
Statuses == {Draft, Published, Resolved, Deleted}
Roles == {"roleA", "roleB"}         \* two persons; 0 when not in the roles of the grant
Forms == {"form", "selvitys"}       \* the application form, and one form of reports
Row == {"fields", "status"}         \* what POST avustushaku carries
Parts == Row \cup {"projects", "talousarviotilit"} \cup Roles \cup Forms

VARIABLES
  haut,       \* server: the parts of each grant
  editor,     \* the state of the page
  calls,      \* requests that have not been answered
  spent,      \* how much of each bound is used
  given,      \* ghost: what the officer last gave for each part
  lossCause   \* ghost: why something given for a grant may be lost without a word

editorVars == <<haut, editor, calls, spent, given, lossCause>>

\* A draft with one role and one project.
NewHaku == [p \in Parts |-> IF p \in {"roleA", "projects"} THEN 1 ELSE 0]

\* What is edited in the page before it is saved, apart from what the store knows.
Drafted == Roles \cup Forms
Drafts(haku) == [p \in Drafted |-> haku[p]]

Editor == [open: Haut \cup {NoHaku}, crashed: BOOLEAN, loading: BOOLEAN, loadError: BOOLEAN,
           haku: [Haut -> [Parts -> Nat]],
           draft: [Haut -> [Drafted -> Nat]],
           timer: Haut \cup {NoHaku},                    \* debouncedSaveHaku
           roleTimer: [h: Haut \cup {NoHaku}, role: Roles, value: Nat],
           busy: SUBSET {"saveInProgress", "savingRoles", "savingForm", "savingTalousarviotilit"},
           serverError: {"", "validation-error", "unexpected-error"}]
NoRoleTimer == [h |-> NoHaku, role |-> "roleA", value |-> 0]

--------------------------------------------------------------------------------
(* Requests *)

RoleCalls == {"createRole", "deleteRole", "saveRole", "saveVastuuvalmistelija"}
\* The parts an answer brings.
Brings(kind) ==
  CASE kind = "haku" -> {"status"}
    [] kind \in Forms -> {kind}
    [] kind \in RoleCalls \ {"saveRole"} -> Roles
    [] kind = "select" -> Roles \cup Forms \cup {"projects", "talousarviotilit"}
    [] OTHER -> {}

FreshCall == CHOOSE n \in 1..(Cardinality(calls) + 1) : \A c \in calls : c.id # n
\* put: the parts the server shall store.
Call(kind, h, put) ==
  [id |-> FreshCall, kind |-> kind, h |-> h, put |-> put, at |-> "sent", got |-> <<>>]
Only(p, v) == [q \in {p} |-> v]

Pending(h) ==
  \/ editor.timer = h \/ editor.roleTimer.h = h
  \/ \E c \in calls : c.h = h

Lost(h, row) == \E p \in DOMAIN row : row[p] # given[h][p]
Because(H, why) == [h \in Haut |-> IF h \in H THEN lossCause[h] \cup {why} ELSE lossCause[h]]

\* startSaving and saveSuccess; success also takes away the error shown for another save.
StartSaving(ed, key) == [ed EXCEPT !.busy = @ \cup {key}]
SaveSuccess(ed, key) == [ed EXCEPT !.busy = @ \ {key}, !.serverError = ""]
SaveFailed(ed, key) == [ed EXCEPT !.busy = @ \ {key}, !.serverError = "unexpected-error"]
ErrorReplaced ==
  IF editor.serverError = "" THEN {} ELSE {h \in Haut : Lost(h, haut[h])}

--------------------------------------------------------------------------------
(* The officer: fields of the grant *)

Opened(h) == ~editor.crashed /\ editor.open = h
Editing(h) == Opened(h) /\ spent.edits < MaxEdits
MayOpen == ~editor.crashed /\ spent.openings < MaxOpenings
SpendOpening == spent' = [spent EXCEPT !.openings = @ + 1]
Spend == spent' = [spent EXCEPT !.edits = @ + 1]
Give(h, p, v) == given' = [given EXCEPT ![h][p] = v]
N == spent.edits + 2     \* the number of this edit; 1 was there before

StatusOf(h) == editor.haku[h]["status"]
AllowAllHakuEdits(h) == ~editor.loading /\ StatusOf(h) = Draft
\* The period of the applications of the grant is under way or to come.
AllowNondisruptiveHakuEdits(h) == ~editor.loading /\ StatusOf(h) # Deleted

\* Mutant: a delay that runs is left to its grant.
StartAutoSaveOfFirst(ed, h) ==
  StartSaving([ed EXCEPT !.timer = IF @ = NoHaku THEN h ELSE @], "saveInProgress")
\* Mutant: the delay is not started.
StartAutoSaveNever(ed, h) == StartSaving(ed, "saveInProgress")
\* startAutoSaveForAvustushaku: one delay for all grants.
StartAutoSave(ed, h) == StartSaving([ed EXCEPT !.timer = h], "saveInProgress")
TimerTaken(h) == {editor.timer} \ {h, NoHaku}

\* updateField: the grant is replaced in the store and its delayed save starts again.
UpdateField(h, p, v) ==
  /\ Editing(h)
  /\ editor' = StartAutoSave([editor EXCEPT !.haku[h][p] = v], h)
  /\ lossCause' = Because(TimerTaken(h), "timer_taken")
  /\ Give(h, p, v) /\ Spend
  /\ UNCHANGED <<haut, calls>>

\* Names, account, document type and limits of payments, under "Haun tiedot".
HakuEditor(h) == UpdateField(h, "fields", N)
StrictField(h) == AllowAllHakuEdits(h) /\ UpdateField(h, "fields", N)
RegisterNumber(h) == StrictField(h)
HallinnoiavustuksiaRegisterNumber(h) == StrictField(h)
HakuType(h) == StrictField(h)
AcademySizeOfHaku(h) == StrictField(h)
Maksuerat(h) == StrictField(h)
\* A date is kept in the field until it is left.
HakuDateField(h) == AllowNondisruptiveHakuEdits(h) /\ UpdateField(h, "fields", N)
\* Texts are edited, rows are added and removed.
SelectionCriteria(h) == AllowNondisruptiveHakuEdits(h) /\ UpdateField(h, "fields", N)
FocusArea(h) == AllowNondisruptiveHakuEdits(h) /\ UpdateField(h, "fields", N)
\* The tab of the decision.
DecisionEditorField(h) == ~editor.loading /\ UpdateField(h, "fields", N)
DecisionFields(h) == DecisionEditorField(h)
DecisionDateField(h) == DecisionEditorField(h)
PakoteLiite(h) == DecisionEditorField(h)
LiitteetSelection(h) == DecisionEditorField(h)
Kayttoaika(h) == DecisionEditorField(h)
SelvityksienAikarajat(h) == DecisionEditorField(h)

\* The buttons of a grant with a valid register number and dates: judged by the status the
\* page shows, which is the one just clicked.
StatusButton(current) ==
  {s \in Statuses : /\ s = Deleted => current = Draft
                    /\ s = Draft => current # Resolved
                    /\ s = Resolved => current = Published} \ {current}
SetStatus(h) == \E s \in StatusButton(StatusOf(h)) : UpdateField(h, "status", s)

\* The delay is over: the grant is sent as the store holds it now.
DebouncedSaveHaku ==
  LET h == editor.timer IN
  /\ h # NoHaku
  /\ editor' = [editor EXCEPT !.timer = NoHaku]
  /\ calls' = calls \cup {Call("haku", h, [p \in Row |-> editor.haku[h][p]])}
  /\ UNCHANGED <<haut, spent, given, lossCause>>

--------------------------------------------------------------------------------
(* The officer: parts with a request of their own *)

\* updateProjects: a row of the projects is added, chosen or removed.
ProjectSelectors(h) ==
  /\ Editing(h) /\ ~editor.loading
  /\ editor' = StartAutoSave([editor EXCEPT !.haku[h]["projects"] = N], h)
  /\ calls' = calls \cup {Call("projects", h, Only("projects", N))}
  /\ lossCause' = Because(TimerTaken(h), "timer_taken")
  /\ Give(h, "projects", N) /\ Spend
  /\ UNCHANGED haut

\* replaceTalousarviotilit: the whole list is shown at once and sent.
Talousarviotilit(h) ==
  /\ Editing(h) /\ StatusOf(h) = Draft /\ editor.busy = {}
  /\ editor' = StartSaving([editor EXCEPT !.haku[h]["talousarviotilit"] = N],
                           "savingTalousarviotilit")
  /\ calls' = calls \cup {Call("talousarviotilit", h, Only("talousarviotilit", N))}
  /\ Give(h, "talousarviotilit", N) /\ Spend
  /\ UNCHANGED <<haut, lossCause>>

\* createHakuRole of a person who is not shown among the roles.
PersonSelectList(h) ==
  \E p \in Roles :
    /\ Editing(h) /\ editor.haku[h][p] = 0
    /\ editor' = StartSaving(editor, "savingRoles")
    /\ calls' = calls \cup {Call("createRole", h, Only(p, N))}
    /\ Give(h, p, N) /\ Spend
    /\ UNCHANGED <<haut, lossCause>>

\* deleteRole
RoleRowDelete(h) ==
  \E p \in Roles :
    /\ Editing(h) /\ editor.haku[h][p] # 0
    /\ editor' = StartSaving(editor, "savingRoles")
    /\ calls' = calls \cup {Call("deleteRole", h, Only(p, 0))}
    /\ Give(h, p, 0) /\ Spend
    /\ UNCHANGED <<haut, lossCause>>

\* An edit in a row of the roles is kept in the row; one delay serves all rows.
RoleRow(h) ==
  \E p \in Roles :
    /\ Editing(h) /\ editor.haku[h][p] # 0
    /\ LET row == [editor EXCEPT !.draft[h][p] = N,
                                 !.roleTimer = [h |-> h, role |-> p, value |-> N]]
       IN editor' = StartSaving(row, "savingRoles")
    /\ LET t == editor.roleTimer
       IN lossCause' = IF t.h # NoHaku /\ <<t.h, t.role>> # <<h, p>>
                       THEN Because({t.h}, "timer_taken") ELSE lossCause
    /\ Give(h, p, N) /\ Spend
    /\ UNCHANGED <<haut, calls>>

\* saveRole; only a vastuuvalmistelija has the roles fetched again.
DebouncedSaveRole ==
  LET t == editor.roleTimer IN
  /\ t.h # NoHaku
  /\ editor' = [editor EXCEPT !.roleTimer = NoRoleTimer]
  /\ \E kind \in {"saveRole", "saveVastuuvalmistelija"} :
       calls' = calls \cup {Call(kind, t.h, Only(t.role, t.value))}
  /\ UNCHANGED <<haut, spent, given, lossCause>>

\* formUpdated, selvitysFormUpdated, recreateSelvitysForm: a draft of the page.
EditDraft(h, form) ==
  /\ Editing(h)
  /\ editor' = [editor EXCEPT !.draft[h][form] = N]
  /\ Give(h, form, N) /\ Spend
  /\ UNCHANGED <<haut, calls, lossCause>>
FormEditor(h) == EditDraft(h, "form")
SelvitysFormEditor(h) == EditDraft(h, "selvitys")

Edited(h, form) == editor.draft[h][form] # editor.haku[h][form]
SaveDraft(h, form) ==
  /\ Opened(h) /\ MayOpen /\ Edited(h, form)
  /\ editor' = StartSaving(editor, "savingForm")
  /\ calls' = calls \cup {Call(form, h, Only(form, editor.draft[h][form]))}
  /\ SpendOpening
  /\ UNCHANGED <<haut, given, lossCause>>
\* saveForm and saveSelvitysForm
FormJsonEditor(h) == StatusOf(h) = Draft /\ SaveDraft(h, "form")
SelvitysJsonEditor(h) == SaveDraft(h, "selvitys")

--------------------------------------------------------------------------------
(* The officer: opening grants *)

\* selectHaku, on every change of the grant in the address.
SelectHaku(h) ==
  /\ MayOpen /\ editor.open # h
  /\ editor' = [editor EXCEPT !.open = h, !.loading = TRUE,
                              !.draft[h] = [@ EXCEPT !["roleA"] = editor.haku[h]["roleA"],
                                                     !["roleB"] = editor.haku[h]["roleB"]]]
  /\ calls' = calls \cup {Call("select", h, <<>>)}
  /\ SpendOpening
  /\ UNCHANGED <<haut, given, lossCause>>

\* createHaku: a copy of the open grant.
CreateHaku(h) ==
  /\ Opened(h) /\ MayOpen
  /\ calls' = calls \cup {Call("create", h, <<>>)}
  /\ SpendOpening
  /\ UNCHANGED <<haut, editor, given, lossCause>>

--------------------------------------------------------------------------------
(* The server: in any order *)

\* A handler stores what it was sent ...
Store1(c) ==
  LET row == [p \in Parts |-> IF p \in DOMAIN c.put THEN c.put[p] ELSE haut[c.h][p]]
      undone == \E p \in DOMAIN c.put : haut[c.h][p] = given[c.h][p] /\ c.put[p] # given[c.h][p]
  IN
  /\ c.at = "sent"
  /\ haut' = [haut EXCEPT ![c.h] = row]
  /\ calls' = (calls \ {c}) \cup
       {[c EXCEPT !.at = IF Brings(c.kind) = {} THEN "answered" ELSE "stored"]}
  /\ lossCause' = IF undone THEN Because({c.h}, "overtaken") ELSE lossCause
  /\ UNCHANGED <<editor, spent, given>>

\* ... and reads, in a step or a request of its own, what it answers.
ReadBack(c) ==
  /\ c.at = "stored"
  /\ calls' = (calls \ {c}) \cup
       {[c EXCEPT !.at = "answered", !.got = [p \in Brings(c.kind) |-> haut[c.h][p]]]}
  /\ UNCHANGED <<haut, editor, spent, given, lossCause>>

--------------------------------------------------------------------------------
(* Answers *)

Answered(c, kinds) == c.at = "answered" /\ c.kind \in kinds /\ calls' = calls \ {c}
Failed(c, kinds) ==
  /\ c.at \in {"sent", "answered"} /\ c.kind \in kinds /\ spent.failures < MaxFailures
  /\ calls' = calls \ {c}
  /\ spent' = [spent EXCEPT !.failures = @ + 1]

Known(ed, h, got) ==
  [ed EXCEPT !.haku[h] = [p \in Parts |-> IF p \in DOMAIN got THEN got[p] ELSE @[p]]]
\* A new role or form known to the page replaces its draft.
Shown1(ed, h, got) ==
  [Known(ed, h, got) EXCEPT
     !.draft[h] = [p \in Drafted |-> IF p \in DOMAIN got THEN got[p] ELSE @[p]]]
AnsweredOver(c) == IF Lost(c.h, c.got) THEN {c.h} ELSE {}

\* saveHaku.fulfilled: the status of the answer is shown, and saved by the next delay,
\* whatever was clicked since.  No projects is an error of validation.
SaveHakuFulfilled(c) ==
  /\ Answered(c, {"haku"})
  /\ LET done == SaveSuccess(Known(editor, c.h, c.got), "saveInProgress")
     IN editor' = IF editor.haku[c.h]["projects"] = 0
                  THEN [done EXCEPT !.serverError = "validation-error"] ELSE done
  /\ lossCause' = [h \in Haut |-> lossCause[h]
       \cup (IF h \in AnsweredOver(c) THEN {"answered_over"} ELSE {})
       \cup (IF h \in ErrorReplaced THEN {"error_replaced"} ELSE {})]
  /\ UNCHANGED <<haut, spent, given>>

\* The roles of the answer replace those of the page and what was typed in their rows.
RolesFulfilled(c) ==
  /\ Answered(c, RoleCalls)
  /\ editor' = SaveSuccess(Shown1(editor, c.h, c.got), "savingRoles")
  /\ lossCause' = [h \in Haut |-> lossCause[h]
       \cup (IF h \in AnsweredOver(c) THEN {"answered_over"} ELSE {})
       \cup (IF h \in ErrorReplaced THEN {"error_replaced"} ELSE {})]
  /\ UNCHANGED <<haut, spent, given>>

\* saveForm.fulfilled and saveSelvitysForm.fulfilled: so does the form the draft.
SaveFormFulfilled(c) ==
  /\ Answered(c, Forms)
  /\ editor' = SaveSuccess(Shown1(editor, c.h, c.got), "savingForm")
  /\ lossCause' = [h \in Haut |-> lossCause[h]
       \cup (IF h \in AnsweredOver(c) THEN {"answered_over"} ELSE {})
       \cup (IF h \in ErrorReplaced THEN {"error_replaced"} ELSE {})]
  /\ UNCHANGED <<haut, spent, given>>

TalousarviotilitReplaced(c) ==
  /\ Answered(c, {"talousarviotilit"})
  /\ editor' = SaveSuccess(editor, "savingTalousarviotilit")
  /\ lossCause' = Because(ErrorReplaced, "error_replaced")
  /\ UNCHANGED <<haut, spent, given>>

\* Nobody waits for the projects.
ProjectsPosted(c) ==
  /\ Answered(c, {"projects"})
  /\ UNCHANGED <<haut, editor, spent, given, lossCause>>

\* selectHaku.fulfilled: what was read replaces what the page holds, but for the row.
SelectHakuFulfilled(c) ==
  /\ Answered(c, {"select"})
  /\ editor' = [Shown1(editor, c.h, c.got) EXCEPT !.loading = FALSE, !.loadError = FALSE]
  /\ lossCause' = Because(AnsweredOver(c), "answered_over")
  /\ UNCHANGED <<haut, spent, given>>

\* The copy is opened: a grant that is not among these.
CreateHakuFulfilled(c) ==
  /\ Answered(c, {"create"})
  /\ editor' = [editor EXCEPT !.open = NoHaku]
  /\ UNCHANGED <<haut, spent, given, lossCause>>

\* saveHaku, saveForm, saveSelvitysForm, replaceTalousarviotilit: an error is shown.
SaveRejected(c) ==
  /\ Failed(c, {"haku", "talousarviotilit"} \cup Forms)
  /\ editor' = SaveFailed(editor, CASE c.kind = "haku" -> "saveInProgress"
                                    [] c.kind \in Forms -> "savingForm"
                                    [] OTHER -> "savingTalousarviotilit")
  /\ UNCHANGED <<haut, given, lossCause>>

\* The thunks of roles and projects have no case for a failure.
FailedSilently(c) ==
  /\ Failed(c, RoleCalls \cup {"projects"})
  /\ lossCause' = Because({c.h}, IF c.kind = "projects" THEN "projects_failed" ELSE "role_failed")
  /\ UNCHANGED <<haut, editor, given>>

SelectHakuRejected(c) ==
  /\ Failed(c, {"select"})
  /\ editor' = [editor EXCEPT !.loading = FALSE, !.loadError = TRUE]
  /\ UNCHANGED <<haut, given, lossCause>>

\* The address is set to the id that did not come, which no page can show.
CreateHakuRejected(c) ==
  /\ Failed(c, {"create"})
  /\ editor' = [SaveFailed(editor, "saveInProgress") EXCEPT !.open = NoHaku, !.crashed = TRUE]
  /\ UNCHANGED <<haut, given, lossCause>>

--------------------------------------------------------------------------------
EditorInit ==
  /\ haut = [h \in Haut |-> NewHaku]
  /\ \E h \in Haut :
       editor = [open |-> h, crashed |-> FALSE, loading |-> FALSE, loadError |-> FALSE,
                 haku |-> haut, draft |-> [g \in Haut |-> Drafts(NewHaku)],
                 timer |-> NoHaku, roleTimer |-> NoRoleTimer, busy |-> {}, serverError |-> ""]
  /\ calls = {}
  /\ spent = [edits |-> 0, openings |-> 0, failures |-> 0]
  /\ given = haut
  /\ lossCause = [h \in Haut |-> {}]

EditorOfficer(h) ==
  \/ HakuEditor(h) \/ RegisterNumber(h) \/ HallinnoiavustuksiaRegisterNumber(h)
  \/ HakuType(h) \/ AcademySizeOfHaku(h) \/ Maksuerat(h) \/ HakuDateField(h)
  \/ SelectionCriteria(h) \/ FocusArea(h) \/ SetStatus(h)
  \/ DecisionFields(h) \/ DecisionDateField(h) \/ PakoteLiite(h) \/ LiitteetSelection(h)
  \/ Kayttoaika(h) \/ SelvityksienAikarajat(h)
  \/ ProjectSelectors(h) \/ Talousarviotilit(h)
  \/ PersonSelectList(h) \/ RoleRowDelete(h) \/ RoleRow(h)
  \/ FormEditor(h) \/ SelvitysFormEditor(h) \/ FormJsonEditor(h) \/ SelvitysJsonEditor(h)
  \/ SelectHaku(h) \/ CreateHaku(h)

EditorNext ==
  \/ \E h \in Haut : EditorOfficer(h)
  \/ DebouncedSaveHaku \/ DebouncedSaveRole
  \/ \E c \in calls :
       \/ Store1(c) \/ ReadBack(c)
       \/ SaveHakuFulfilled(c) \/ RolesFulfilled(c) \/ SaveFormFulfilled(c)
       \/ TalousarviotilitReplaced(c) \/ ProjectsPosted(c)
       \/ SelectHakuFulfilled(c) \/ CreateHakuFulfilled(c)
       \/ SaveRejected(c) \/ FailedSilently(c) \/ SelectHakuRejected(c) \/ CreateHakuRejected(c)

EditorSpec == EditorInit /\ [][EditorNext]_editorVars

--------------------------------------------------------------------------------
EditorTypeOK ==
  /\ haut \in [Haut -> [Parts -> Nat]]
  /\ editor \in Editor
  /\ given \in [Haut -> [Parts -> Nat]]

\* When the page shows neither a save nor an error and nothing is under way for a grant, the
\* server stores what the officer last gave for it and the page shows the same; a draft that
\* may still be saved excepted, and unless one of the causes occurred.
EditsAreStored ==
  \A h \in Haut :
    ~Pending(h) /\ editor.busy = {} /\ editor.serverError = "" /\ lossCause[h] = {} =>
      /\ \A p \in Parts : haut[h][p] = given[h][p] \/ (p \in Forms /\ Edited(h, p))
      /\ \A p \in Parts \ Drafted : editor.haku[h][p] = haut[h][p]

\* The page says it is saving only while something is under way that will end it, unless a
\* request about a role has failed: nothing then ends it, and the budget accounts are closed.
BusyHasAReason ==
  \A key \in editor.busy :
    CASE key = "saveInProgress" -> editor.timer # NoHaku \/ \E c \in calls : c.kind = "haku"
      [] key = "savingRoles" -> \/ editor.roleTimer.h # NoHaku
                                \/ \E c \in calls : c.kind \in RoleCalls
                                \/ \E h \in Haut : "role_failed" \in lossCause[h]
      [] key = "savingForm" -> \E c \in calls : c.kind \in Forms
      [] OTHER -> \E c \in calls : c.kind = "talousarviotilit"

================================================================================
