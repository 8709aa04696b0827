-------------------------------- MODULE Lomake --------------------------------
(***************************************************************************)
(* The applicant's form in the browser: the state that                     *)
(* soresu-form/web/form/FormStateTransitions.ts keeps, the saves it starts *)
(* by itself, and the application on the server they meet.                 *)
(*                                                                         *)
(* An answer is the number of the act that gave it.  Of a form there are a *)
(* text, rows that can be removed and a file.  A save carries all answers  *)
(* and the version of the last object the page received; the server        *)
(* refuses it when its version has changed since.                          *)
(***************************************************************************)
EXTENDS Naturals, FiniteSets

CONSTANTS Rows,                              \* of a growing set of the form
          MaxActs, MaxFaults, MaxChanges     \* of the applicant; of the network; of others

ASSUME LomakeAssumption == {MaxActs, MaxFaults, MaxChanges} \subseteq Nat

VARIABLES
  lomake,   \* server: the application
  page,      \* saveStatus of the page
  posts,     \* requests that have not been handled by the page
  tally,     \* how much of each bound is used
  given,     \* ghost: the answers as the applicant gave them
  whyLost    \* ghost: what happened that the page is not to blame for, or cannot know

lomakeVars == <<lomake, page, posts, tally, given, whyLost>>

NoAttachment == 0
Answers == [text: Nat, rows: SUBSET Rows, file: Nat]
EmptyAnswers == [text |-> 0, rows |-> Rows, file |-> NoAttachment]

Errors == {"", "unexpected-save-error", "unexpected-submit-error", "conflict-save-error",
           "submit-validation-errors"}
Page == [at: {"open", "dead", "left"},  \* "dead": its state is undefined, all events throw
         mode: {"edit", "refuse"},      \* the form, or its preview with the refusal
         values: Answers, changes: BOOLEAN, saveInProgress: BOOLEAN, serverError: Errors,
         version: Nat, submitted: BOOLEAN, refused: BOOLEAN,   \* savedObject
         file: Nat,                          \* attachments
         stored: BOOLEAN,                    \* something is in the local storage of this page
         autoSave: BOOLEAN]                  \* its delay runs

Saves == {"save", "submit", "refuse"}
NoAnswer == [version |-> 0, values |-> EmptyAnswers, submitted |-> FALSE, refused |-> FALSE]
FreshPost == CHOOSE n \in 1..(Cardinality(posts) + 1) : \A p \in posts : p.id # n
Post(kind) ==
  [id |-> FreshPost, kind |-> kind, at |-> "sent", got |-> NoAnswer,
   base |-> IF kind \in Saves THEN page.version ELSE 0,
   values |-> IF kind \in Saves THEN page.values ELSE EmptyAnswers]
Saving == \E p \in posts : p.kind \in Saves

IsOpen == page.at = "open"
Editing == IsOpen /\ page.mode = "edit"
CanAct == Editing /\ tally.acts < MaxActs
Act == tally' = [tally EXCEPT !.acts = @ + 1]
N == tally.acts + 1
Blame(why) == whyLost' = whyLost \cup {why}

\* startAutoSave: the page says it saves from now on.
StartAutoSave(pg) == [pg EXCEPT !.saveInProgress = TRUE, !.autoSave = TRUE]

--------------------------------------------------------------------------------
(* The applicant *)

OnUpdateField ==
  /\ CanAct
  /\ page' = StartAutoSave([page EXCEPT !.values.text = N, !.changes = TRUE, !.stored = TRUE])
  /\ given' = [given EXCEPT !.text = N]
  /\ Act /\ UNCHANGED <<lomake, posts, whyLost>>

\* Unlike an update, a removal is not put in the local storage.
OnRemoveField(r) ==
  /\ CanAct /\ r \in page.values.rows
  /\ page' = StartAutoSave([page EXCEPT !.values.rows = @ \ {r}, !.changes = TRUE])
  /\ given' = [given EXCEPT !.rows = @ \ {r}]
  /\ Act /\ UNCHANGED <<lomake, posts, whyLost>>

\* A file has a request of its own; the page shows a place to put one until it has one.
AttachmentRequest(kind, file) ==
  /\ posts' = posts \cup {[Post(kind) EXCEPT !.values.file = file]}
  /\ IF \E p \in posts : p.kind \in {"put", "delete"} THEN Blame("files_overlap")
     ELSE UNCHANGED whyLost
OnUploadAttachment ==
  /\ CanAct /\ page.file = NoAttachment
  /\ AttachmentRequest("put", N)
  /\ Act /\ UNCHANGED <<lomake, page, given>>
OnRemoveAttachment ==
  /\ CanAct /\ page.file # NoAttachment
  /\ AttachmentRequest("delete", NoAttachment)
  /\ Act /\ UNCHANGED <<lomake, page, given>>

\* updateOld: what the page holds is posted, an earlier post or not.
UpdateOld(kind) ==
  /\ posts' = posts \cup {Post(kind)}
  /\ page' = [page EXCEPT !.saveInProgress = TRUE,
                          !.autoSave = IF kind = "save" THEN FALSE ELSE @]
  /\ IF Saving THEN Blame("overlap") ELSE UNCHANGED whyLost

\* The button is closed while anything is pending, and after submission.
HasPendingChanges == page.changes \/ page.saveInProgress
OnSubmit ==
  /\ CanAct /\ ~HasPendingChanges /\ ~page.submitted
  /\ UpdateOld("submit")
  /\ Act /\ UNCHANGED <<lomake, given>>

\* The preview opened with a token; its button is open until the refusal is known.
OnRefuseApplication ==
  /\ IsOpen /\ page.mode = "refuse" /\ ~page.refused /\ tally.acts < MaxActs
  /\ UpdateOld("refuse")
  /\ Act /\ UNCHANGED <<lomake, given>>

\* The delay is over.
OnSave ==
  /\ IsOpen /\ page.autoSave
  /\ IF page.changes THEN UpdateOld("save")
     ELSE page' = [page EXCEPT !.autoSave = FALSE] /\ UNCHANGED <<posts, whyLost>>
  /\ UNCHANGED <<lomake, tally, given>>

\* The window is about to be left; in some browsers the applicant may stay.  Without
\* changes the transition returns no state.
OnBeforeUnload(stays) ==
  /\ CanAct
  /\ posts' = IF page.changes THEN posts \cup {Post("save")} ELSE posts
  /\ page' = [page EXCEPT !.at = IF ~stays THEN "left" ELSE IF page.changes THEN @ ELSE "dead",
                          !.saveInProgress = @ \/ page.changes]
  /\ IF page.changes /\ Saving THEN Blame("overlap") ELSE UNCHANGED whyLost
  /\ Act /\ UNCHANGED <<lomake, given>>

--------------------------------------------------------------------------------
(* The server *)

Replaced(p, new) == posts' = (posts \ {p}) \cup {new}
Answer(p, h) ==
  Replaced(p, [p EXCEPT !.at = "ok", !.base = 0, !.values = EmptyAnswers,
                 !.got = [version |-> h.version, values |-> h.values, submitted |-> h.submitted,
                          refused |-> h.refused]])

\* A save, a submission and a refusal each make the next version.
NextVersion(p) ==
  [lomake EXCEPT !.version = @ + 1,
                  !.values = IF p.kind = "refuse" THEN @ ELSE p.values,
                  !.submitted = @ \/ p.kind = "submit",
                  !.refused = @ \/ p.kind = "refuse"]
OnHakemusUpdate(p) ==
  /\ p.at = "sent" /\ p.kind \in Saves /\ lomake.open
  /\ IF p.base = lomake.version /\ ~(p.kind = "refuse" /\ lomake.refused)
     THEN lomake' = NextVersion(p) /\ Answer(p, NextVersion(p))
     ELSE Replaced(p, [p EXCEPT !.at = "conflict", !.values = EmptyAnswers]) /\ UNCHANGED lomake
  /\ UNCHANGED <<page, tally, given, whyLost>>

\* The grant has been closed meanwhile: the save is not allowed.
SaveNotAllowed(p) ==
  /\ p.at = "sent" /\ p.kind \in Saves /\ ~lomake.open
  /\ Replaced(p, [p EXCEPT !.at = "not-allowed"])
  /\ UNCHANGED <<lomake, page, tally, given, whyLost>>

OnAttachment(p) ==
  /\ p.at = "sent" /\ p.kind \in {"put", "delete"}
  /\ lomake' = [lomake EXCEPT !.file = p.values.file]
  /\ Replaced(p, [p EXCEPT !.at = "ok"])
  /\ UNCHANGED <<page, tally, given, whyLost>>

OnGetHakemus(p) ==
  /\ p.at = "sent" /\ p.kind = "get"
  /\ Answer(p, lomake)
  /\ UNCHANGED <<lomake, page, tally, given, whyLost>>

\* Another window of the applicant or an officer saves; the grant is closed.
OtherSession ==
  /\ IsOpen /\ tally.changes < MaxChanges
  /\ \/ lomake' = [lomake EXCEPT !.version = @ + 1, !.values.text = MaxActs + 1]
     \/ lomake.open /\ lomake' = [lomake EXCEPT !.open = FALSE]
  /\ tally' = [tally EXCEPT !.changes = @ + 1]
  /\ Blame("other")
  /\ UNCHANGED <<page, posts, given>>

--------------------------------------------------------------------------------
(* Answers *)

Done(p) == posts' = posts \ {p}

\* Mutant: what was typed during a save waits for the next edit.
SaveCompletedOnly(pg, got) ==
  [pg EXCEPT !.changes = pg.values # got.values, !.saveInProgress = FALSE, !.serverError = "",
             !.version = got.version, !.submitted = got.submitted, !.refused = got.refused,
             !.values = IF pg.stored THEN @ ELSE got.values, !.stored = TRUE]
\* onSaveCompleted: the answers of the page are left as they are once anything of this page
\* is in the local storage; until then those of the server replace them.
SaveCompleted(pg, got) ==
  LET changed == pg.values # got.values
      kept == [pg EXCEPT !.changes = changed, !.saveInProgress = FALSE, !.serverError = "",
                         !.version = got.version, !.submitted = got.submitted, !.refused = got.refused,
                         !.values = IF pg.stored THEN @ ELSE got.values, !.stored = TRUE]
  IN IF changed THEN StartAutoSave(kept) ELSE kept

OnSaveCompleted(p) ==
  /\ IsOpen /\ p.at = "ok" /\ p.kind \in Saves \cup {"get"}
  /\ Done(p)
  /\ page' = SaveCompleted(page, p.got)
  /\ whyLost' = whyLost
       \cup (IF p.kind = "get" /\ (Saving \/ p.got.version < lomake.version)
          THEN {"refresh_crossed"} ELSE {})
       \cup (IF ~page.stored /\ page.values # p.got.values THEN {"removal_undone"} ELSE {})
  /\ UNCHANGED <<lomake, tally, given>>

\* The name of the file is an answer too: the application is fetched to find it changed.
OnAttachmentCompleted(p, kind) ==
  /\ IsOpen /\ p.at = "ok" /\ p.kind = kind
  /\ page' = [page EXCEPT !.file = p.values.file, !.values.file = p.values.file, !.stored = TRUE]
  /\ given' = [given EXCEPT !.file = p.values.file]
  /\ posts' = (posts \ {p}) \cup {[Post("get") EXCEPT !.id = p.id]}
  /\ UNCHANGED <<lomake, tally, whyLost>>
OnAttachmentUploadCompleted(p) == OnAttachmentCompleted(p, "put")
OnAttachmentRemovalCompleted(p) == OnAttachmentCompleted(p, "delete")

\* onServerError
ServerError(pg, error) == [pg EXCEPT !.saveInProgress = FALSE, !.serverError = error]
Conflict(p) ==
  /\ IsOpen /\ p.at = "conflict"
  /\ Done(p) /\ page' = ServerError(page, "conflict-save-error")
  /\ UNCHANGED <<lomake, tally, given, whyLost>>
\* The page is replaced by the preview of what the server has.
NotAllowed(p) ==
  /\ IsOpen /\ p.at = "not-allowed"
  /\ Done(p) /\ page' = [page EXCEPT !.at = "left"]
  /\ UNCHANGED <<lomake, tally, given, whyLost>>

\* Mutant: a save is not tried again either.
UnexpectedOnce(pg, kind) ==
  IF kind = "submit" THEN ServerError(pg, "unexpected-submit-error")
  ELSE IF kind \in Saves THEN ServerError(pg, "unexpected-save-error") ELSE pg
\* A request or its answer is lost, or the server fails.  Only a save is tried again.
Unexpected(pg, kind) ==
  CASE kind = "save" -> StartAutoSave(ServerError(pg, "unexpected-save-error"))
    [] kind = "submit" -> ServerError(pg, "unexpected-submit-error")
    [] kind = "refuse" -> ServerError(pg, "unexpected-save-error")
    [] OTHER -> pg
Fails(p) ==
  /\ IsOpen /\ p.at \in {"sent", "ok"} /\ tally.faults < MaxFaults
  /\ tally' = [tally EXCEPT !.faults = @ + 1]
  /\ Done(p)
  /\ \/ page' = Unexpected(page, p.kind)
     \/ p.kind = "submit" /\ p.at = "sent"
        /\ page' = ServerError(page, "submit-validation-errors")
  /\ CASE p.at = "ok" /\ p.kind \in Saves -> Blame("lost_answer")
       [] p.kind \in {"get", "put", "delete"} -> Blame("file_failed")
       [] OTHER -> UNCHANGED whyLost
  /\ UNCHANGED <<lomake, given>>

--------------------------------------------------------------------------------
LomakeInit ==
  /\ lomake = [version |-> 1, values |-> EmptyAnswers, submitted |-> FALSE, refused |-> FALSE,
                file |-> NoAttachment, open |-> TRUE]
  /\ \E mode \in {"edit", "refuse"} :
       page = [at |-> "open", mode |-> mode, values |-> EmptyAnswers, changes |-> FALSE,
               saveInProgress |-> FALSE, serverError |-> "", version |-> 1, submitted |-> FALSE,
               refused |-> FALSE, file |-> NoAttachment, stored |-> FALSE, autoSave |-> FALSE]
  /\ posts = {}
  /\ tally = [acts |-> 0, faults |-> 0, changes |-> 0]
  /\ given = EmptyAnswers
  /\ whyLost = {}

Applicant ==
  \/ OnUpdateField \/ OnUploadAttachment \/ OnRemoveAttachment \/ OnSubmit
  \/ OnRefuseApplication
  \/ \E r \in Rows : OnRemoveField(r)
  \/ \E stays \in BOOLEAN : OnBeforeUnload(stays)

Serve(p) == OnHakemusUpdate(p) \/ SaveNotAllowed(p) \/ OnAttachment(p) \/ OnGetHakemus(p)
Handle(p) ==
  \/ OnSaveCompleted(p)
  \/ OnAttachmentUploadCompleted(p) \/ OnAttachmentRemovalCompleted(p)
  \/ Conflict(p) \/ NotAllowed(p)

LomakeNext ==
  \/ Applicant \/ OnSave \/ OtherSession
  \/ \E p \in posts : Serve(p) \/ Handle(p) \/ Fails(p)

\* The delay of three seconds ends, the server answers, and answers arrive.
LomakeFairness ==
  /\ WF_lomakeVars(OnSave)
  /\ WF_lomakeVars(\E p \in posts : Serve(p))
  /\ WF_lomakeVars(\E p \in posts : Handle(p))

LomakeSpec == LomakeInit /\ [][LomakeNext]_lomakeVars /\ LomakeFairness

--------------------------------------------------------------------------------
LomakeTypeOK ==
  /\ page \in Page
  /\ given \in Answers
  /\ lomake.version \in Nat /\ lomake.values \in Answers
  /\ \A p \in posts : p.values \in Answers /\ p.got.values \in Answers

\* "Saved" (neither saving nor an error shown) means it: the server stores the answers as
\* they were given and the page shows them, while no file is being handled and unless
\* others changed the application, a request about a file failed or met another, the
\* refresh after it crossed a save, or a removal met the answer of the first save.
Excuses == {"other", "file_failed", "files_overlap", "refresh_crossed", "removal_undone"}
SavedMeansSaved ==
  /\ Editing /\ ~page.saveInProgress /\ page.serverError = "" /\ posts = {}
  /\ whyLost \cap Excuses = {}
  => /\ page.values = given /\ lomake.values = given
     /\ page.file = lomake.file /\ page.values.file = lomake.file

\* The applicant is told of a conflict only if there was another writer, or two posts of
\* this page overlapped, an answer was lost, or a refresh crossed a save.
ConflictHasACause ==
  page.serverError = "conflict-save-error" =>
    whyLost \cap {"other", "overlap", "lost_answer", "refresh_crossed"} # {}

\* Once an answer that was typed is in the page, no answer of the server replaces it.
TypedStays == [][page'.values.text # page.values.text => page'.values.text = given'.text]_lomakeVars

\* Whatever fails, the answers reach the server in the end, unless the page is gone or shows
\* an error it does not recover from, or what happened is among the excuses of SavedMeansSaved.
Settled ==
  \/ page.at # "open" \/ page.mode = "refuse"
  \/ page.serverError \notin {"", "unexpected-save-error"}
  \/ whyLost \cap Excuses # {}
  \/ lomake.values = given
EventuallySaved == <>[]Settled

================================================================================
