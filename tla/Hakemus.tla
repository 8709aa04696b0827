--------------------------------- MODULE Hakemus ---------------------------------
(***************************************************************************)
(* One application (hakemus) and the HTTP requests that change it: the     *)
(* applicant's form, the officer's screen and the links sent by email.     *)
(* Each request is a thread that reads, checks and commits in the order    *)
(* its handler does, so a request may act on what it read some time ago.   *)
(*                                                                         *)
(* An application is a sequence of versions of which the last is open      *)
(* (HakemusVersions shows why it may be seen so); a version points at a    *)
(* version of the answers (form_submissions), which are kept the same way. *)
(* Versions are counted from 1 here and from 0 in the database.            *)
(***************************************************************************)
EXTENDS Naturals, Sequences, FiniteSets

CONSTANTS Requests,       \* HTTP requests
          NoRequest,      \* the holder of a free lock
          Asks,           \* what the explored requests ask for, a subset of AllAsks
          FirstStatuses   \* statuses the application may have when exploration starts

Statuses == {"new", "draft", "submitted", "pending_change_request",
             "officer_edit", "applicant_edit", "cancelled"}

Kinds == {"create", "save", "submit", "change_request_response", "officer_edit_submit",
          "applicant_edit_submit", "applicant_edit_open", "get_current_answers",
          "status", "refuse", "keskeyta_aloittamatta", "peru_keskeytys"}

\* The officer's token accompanies the requests the form sends; status is the new
\* status an officer asks for.
AllAsks == [kind : Kinds, token : BOOLEAN, status : Statuses]

ASSUME NoRequestAssumption == NoRequest \notin Requests
ASSUME AsksAssumption == Asks \subseteq AllAsks
ASSUME FirstStatusesAssumption == FirstStatuses \subseteq Statuses

VARIABLES rows,            \* the versions of the application, the last one open
          submissions,     \* the versions of its answers: the kind of request that wrote each
          phase,           \* the phase of the grant (avustushaku)
          rowLock,         \* request whose transaction holds the open version, or NoRequest
          submissionLock,  \* request whose transaction holds the answers, or NoRequest
          req              \* the requests

vars == <<rows, submissions, phase, rowLock, submissionLock, req>>

\* resolved is a phase of its own for the one request that tells it from ended.
Phases == {"current", "ended", "resolved"}

\* Handlers that commit the answers and the application in two transactions, and
\* handlers that commit, in update-status, the answers pointer of an earlier read.
SplitKinds == {"change_request_response", "officer_edit_submit", "applicant_edit_submit"}
StalePointerKinds == {"applicant_edit_open", "get_current_answers", "status"}

\* Handlers behind can-update-hakemus.
EditKinds == SplitKinds \cup {"save", "submit"}

Idle == [kind |-> "create", token |-> FALSE, status |-> "new", pc |-> "idle", base |-> 0,
         loaded |-> 0, open |-> FALSE, seen |-> 0, pointer |-> 0]

Ended == [Idle EXCEPT !.pc = "ended"]

-----------------------------------------------------------------------------
(* Helpers *)

Current == Len(rows)
Hakemus == rows[Len(rows)]

\* The history a version keeps of the request r that made it.
Cause(r) == [kind |-> req[r].kind, token |-> req[r].token, open |-> req[r].open,
             seen |-> req[r].seen, loaded |-> req[r].loaded]

\* Mutant: get-hakemus without its condition on the status.
VisibleThoughCancelled == rows # <<>>

\* get-hakemus: the open version by user key, unless it is cancelled.
Visible == rows # <<>> /\ Hakemus.status # "cancelled"

\* can-update-hakemus, officer-edit-auth included.
MayUpdate(status, token) ==
  \/ phase = "current"
  \/ status \in {"pending_change_request", "applicant_edit"}
  \/ status = "officer_edit" /\ token

\* get-open-avustushaku: the handlers' own check, which knows no token.
OpenAvustushaku(status) ==
  phase = "current" \/ status \in {"pending_change_request", "officer_edit", "applicant_edit"}

At(r, pcs) == req[r].pc \in pcs

Goto(r, pc) == req' = [req EXCEPT ![r] = [@ EXCEPT !.pc = pc]]

\* The request is over: answered, refused, failed or cut off by a crash.
End(r) == req' = [req EXCEPT ![r] = Ended]

\* Mutant: a transaction that ends keeps its locks.
KeepLocks(r) == rowLock' = rowLock /\ submissionLock' = submissionLock

Release(r) ==
  /\ rowLock' = IF rowLock = r THEN NoRequest ELSE rowLock
  /\ submissionLock' = IF submissionLock = r THEN NoRequest ELSE submissionLock

\* The request ends with nothing more committed.
Fail(r) == End(r) /\ Release(r) /\ UNCHANGED <<rows, submissions, phase>>

\* create-new-hakemus-version followed by an UPDATE of the new version: fresh is the
\* open version as the UPDATE leaves it.
NewVersion(r, fresh) == [fresh EXCEPT !.cause = Cause(r)]

\* Mutant: the version is computed before update-status makes the submitted one.
SubmittedVersionTooEarly(row, v) ==
  [row EXCEPT !.submitted = v - 1,
              !.cause = [row.cause EXCEPT !.kind = "set_submitted_version", !.seen = v]]

\* The version set-submitted-version makes of the version v, which is row.
SubmittedVersion(row, v) ==
  [row EXCEPT !.submitted = v + 1,
              !.cause = [row.cause EXCEPT !.kind = "set_submitted_version", !.seen = v]]

-----------------------------------------------------------------------------
(* Actions *)

Init ==
  /\ \/ rows = <<>> /\ submissions = <<>>
     \/ /\ submissions = <<"create">>
        /\ \E s \in FirstStatuses :
             rows = <<[status |-> s, submission |-> 1, refused |-> FALSE,
                       submitted |-> IF s = "submitted" THEN 1 ELSE 0,
                       cause |-> [kind |-> "create", token |-> FALSE, open |-> TRUE,
                                  seen |-> 0, loaded |-> 0]]>>
  /\ phase \in Phases
  /\ rowLock = NoRequest
  /\ submissionLock = NoRequest
  /\ req = [r \in Requests |-> Idle]

\* A grant opens, ends or is resolved: by the clock or by an officer's edit of it.
SetPhase ==
  /\ phase' \in Phases \ {phase}
  /\ UNCHANGED <<rows, submissions, rowLock, submissionLock, req>>

\* A client makes up a request from the version and the answers it has loaded.
Ask(r) ==
  /\ At(r, {"idle"})
  /\ \E a \in Asks :
       /\ IF a.kind = "create" THEN rows = <<>> /\ submissions = <<>> ELSE rows # <<>>
       /\ req' = [req EXCEPT ![r] =
            [Idle EXCEPT !.kind = a.kind, !.token = a.token, !.status = a.status, !.pc = "asked",
                         !.base = Current, !.loaded = Len(submissions)]]
  /\ UNCHANGED <<rows, submissions, phase, rowLock, submissionLock>>

\* on-hakemus-create: the answers are stored in a statement of their own, ...  (A second
\* request of the kind makes another application, which is none of this one's business.)
CreateSubmission(r) ==
  /\ At(r, {"asked"}) /\ req[r].kind = "create"
  /\ IF phase = "current" /\ submissions = <<>>
     THEN /\ submissions' = <<"create">>
          /\ req' = [req EXCEPT ![r] = [@ EXCEPT !.pc = "written", !.pointer = 1, !.open = TRUE]]
     ELSE End(r) /\ UNCHANGED submissions
  /\ UNCHANGED <<rows, phase, rowLock, submissionLock>>

\* ... then the application.
CreateHakemus(r) ==
  /\ At(r, {"written"}) /\ req[r].kind = "create"
  /\ rows' = <<[status |-> "new", submission |-> 1, refused |-> FALSE, submitted |-> 0,
                cause |-> Cause(r)]>>
  /\ End(r)
  /\ UNCHANGED <<submissions, phase, rowLock, submissionLock>>

\* The routes' check before the handler.
CanUpdateHakemus(r) ==
  /\ At(r, {"asked"}) /\ req[r].kind \in EditKinds
  /\ IF MayUpdate(IF Visible THEN Hakemus.status ELSE "none", req[r].token)
     THEN req' = [req EXCEPT ![r] = [@ EXCEPT !.pc = "checked", !.open = (phase = "current")]]
     ELSE End(r)
  /\ UNCHANGED <<rows, submissions, phase, rowLock, submissionLock>>

\* Mutant: the version is read without FOR UPDATE.
GetHakemusVersionForUpdate(r) ==
  /\ At(r, {"checked"}) /\ req[r].kind = "save"
  /\ IF rowLock = NoRequest /\ OpenAvustushaku(rows[req[r].base].status) /\ req[r].base = Current
     THEN req' = [req EXCEPT ![r] = [@ EXCEPT !.pc = "read", !.seen = req[r].base]]
     ELSE End(r)
  /\ UNCHANGED <<rows, submissions, phase, rowLock, submissionLock>>

\* Mutant: a version closed meanwhile is no conflict.
GetLockedHakemusForUpdate(r) ==
  /\ At(r, {"checked"}) /\ req[r].kind = "save"
  /\ IF rowLock = NoRequest /\ OpenAvustushaku(rows[req[r].base].status)
     THEN /\ rowLock' = r
          /\ req' = [req EXCEPT ![r] = [@ EXCEPT !.pc = "read", !.seen = req[r].base]]
     ELSE End(r) /\ UNCHANGED rowLock
  /\ UNCHANGED <<rows, submissions, phase, submissionLock>>

\* on-hakemus-update locks the version it is based on: an error if the version is held, 405
\* if the grant is closed to it, 409 if it is not the open one.
GetLockedHakemusVersionForUpdate(r) ==
  /\ At(r, {"checked"}) /\ req[r].kind = "save"
  /\ IF rowLock = NoRequest /\ OpenAvustushaku(rows[req[r].base].status) /\ req[r].base = Current
     THEN /\ rowLock' = r
          /\ req' = [req EXCEPT ![r] = [@ EXCEPT !.pc = "read", !.seen = req[r].base]]
     ELSE End(r) /\ UNCHANGED rowLock
  /\ UNCHANGED <<rows, submissions, phase, submissionLock>>

\* Whether the handler of r, reading the open version, goes on to write.
Proceeds(r) ==
  LET based == Visible /\ req[r].base = Current
  IN CASE req[r].kind = "submit" -> phase = "current" /\ based
       [] req[r].kind = "change_request_response" -> based /\ OpenAvustushaku(Hakemus.status)
       [] req[r].kind \in {"officer_edit_submit", "applicant_edit_submit"} -> based
       [] req[r].kind \in {"applicant_edit_open", "get_current_answers"} -> Visible
       [] req[r].kind = "status" -> ~ (req[r].status = "cancelled" /\ phase = "resolved")
       [] req[r].kind = "refuse" -> based /\ ~ Hakemus.refused

\* Every other handler reads the open version without a lock.
GetHakemus(r) ==
  /\ \/ At(r, {"checked"}) /\ req[r].kind \in EditKinds \ {"save"}
     \/ At(r, {"asked"}) /\ req[r].kind \in StalePointerKinds \cup {"refuse"}
  /\ IF Proceeds(r)
     THEN req' = [req EXCEPT ![r] = [@ EXCEPT
            !.pc = IF req[r].kind \in EditKinds \cup {"get_current_answers"}
                   THEN "read" ELSE "written",
            !.seen = Current,
            !.pointer = IF req[r].kind \in {"applicant_edit_open", "status"}
                        THEN Hakemus.submission ELSE 0]]
     ELSE End(r)
  /\ UNCHANGED <<rows, submissions, phase, rowLock, submissionLock>>

\* get-current-answers then reads the open answers, and goes on if the application it
\* read before was new.
GetFormSubmission(r) ==
  /\ At(r, {"read"}) /\ req[r].kind = "get_current_answers"
  /\ IF rows[req[r].seen].status = "new"
     THEN req' = [req EXCEPT ![r] = [@ EXCEPT !.pc = "written", !.pointer = Len(submissions)]]
     ELSE End(r)
  /\ UNCHANGED <<rows, submissions, phase, rowLock, submissionLock>>

\* update-submission-tx!: the answers are locked and get a version the transaction
\* has yet to commit.
UpdateSubmissionTx(r) ==
  /\ At(r, {"read"}) /\ req[r].kind \in {"save", "submit"}
  /\ submissionLock = NoRequest
  /\ submissionLock' = r
  /\ req' = [req EXCEPT ![r] = [@ EXCEPT !.pc = "written", !.pointer = Len(submissions) + 1]]
  /\ UNCHANGED <<rows, submissions, phase, rowLock>>

\* update-submission!: a transaction of its own.
UpdateSubmission(r) ==
  /\ At(r, {"read"}) /\ req[r].kind \in SplitKinds
  /\ submissionLock = NoRequest
  /\ submissions' = Append(submissions, req[r].kind)
  /\ req' = [req EXCEPT ![r] = [@ EXCEPT !.pc = "written", !.pointer = Len(submissions) + 1]]
  /\ UNCHANGED <<rows, phase, rowLock, submissionLock>>

\* Mutants: the new version keeps the old pointer; the answers are not saved with it.
UpdateHakemusStalePointer(r) ==
  /\ At(r, {"written"}) /\ req[r].kind = "save"
  /\ submissions' = Append(submissions, "save")
  /\ rows' = Append(rows, NewVersion(r, Hakemus))
  /\ End(r)
  /\ Release(r)
  /\ UNCHANGED phase

UpdateHakemusWithoutAnswers(r) ==
  /\ At(r, {"written"}) /\ req[r].kind = "save"
  /\ rows' = Append(rows, NewVersion(r, [Hakemus EXCEPT !.submission = req[r].pointer]))
  /\ End(r)
  /\ Release(r)
  /\ UNCHANGED <<submissions, phase>>

\* update-hakemus-tx and the commit of on-hakemus-update.
UpdateHakemus(r) ==
  /\ At(r, {"written"}) /\ req[r].kind = "save"
  /\ submissions' = Append(submissions, "save")
  /\ rows' = Append(rows, NewVersion(r, [Hakemus EXCEPT !.submission = req[r].pointer]))
  /\ End(r)
  /\ Release(r)
  /\ UNCHANGED phase

\* submit-hakemus: update-status and set-submitted-version, a version each.
SubmitHakemus(r) ==
  /\ At(r, {"written"}) /\ req[r].kind \in EditKinds \ {"save"}
  /\ rowLock = NoRequest
  /\ submissions' = IF req[r].kind = "submit" THEN Append(submissions, "submit") ELSE submissions
  /\ LET new == NewVersion(r, [Hakemus EXCEPT !.status = "submitted",
                                              !.submission = req[r].pointer])
     IN rows' = rows \o <<new, SubmittedVersion(new, Current + 1)>>
  /\ End(r)
  /\ Release(r)
  /\ UNCHANGED phase

\* update-status in a transaction of its own: open-hakemus-applicant-edit, verify-hakemus
\* and the officer's update-hakemus-status.
UpdateStatus(r) ==
  /\ At(r, {"written"}) /\ req[r].kind \in StalePointerKinds
  /\ rowLock = NoRequest
  /\ LET status == CASE req[r].kind = "applicant_edit_open" -> "applicant_edit"
                     [] req[r].kind = "get_current_answers" -> "draft"
                     [] req[r].kind = "status" -> req[r].status
     IN /\ rows' = Append(rows, NewVersion(r, [Hakemus EXCEPT !.status = status,
                                                              !.submission = req[r].pointer]))
        /\ IF req[r].kind = "status" /\ status = "submitted" THEN Goto(r, "marking") ELSE End(r)
  /\ UNCHANGED <<submissions, phase, rowLock, submissionLock>>

\* update-submitted-hakemus-version: whatever version is open by then.
UpdateSubmittedHakemusVersion(r) ==
  /\ At(r, {"marking"})
  /\ rowLock = NoRequest
  /\ rows' = [rows EXCEPT ![Current] = [@ EXCEPT !.submitted = Current]]
  /\ End(r)
  /\ UNCHANGED <<submissions, phase, rowLock, submissionLock>>

RefuseApplication(r) ==
  /\ At(r, {"written"}) /\ req[r].kind = "refuse"
  /\ rowLock = NoRequest
  /\ rows' = Append(rows, NewVersion(r, [Hakemus EXCEPT !.refused = TRUE]))
  /\ End(r)
  /\ UNCHANGED <<submissions, phase, rowLock, submissionLock>>

\* The keskeyta-aloittamatta route: (un)refuse-application and keskeyta-aloittamatta in
\* one transaction, a version each; nothing is read before.
KeskeytaAloittamatta(r) ==
  /\ At(r, {"asked"}) /\ req[r].kind \in {"keskeyta_aloittamatta", "peru_keskeytys"}
  /\ rowLock = NoRequest
  /\ LET new == [Hakemus EXCEPT !.refused = (req[r].kind = "keskeyta_aloittamatta"),
                                !.cause = [Cause(r) EXCEPT !.seen = Current]]
     IN rows' = rows \o <<new, [new EXCEPT !.cause = [Cause(r) EXCEPT !.seen = Current + 1]]>>
  /\ End(r)
  /\ UNCHANGED <<submissions, phase, rowLock, submissionLock>>

\* NOWAIT: a locking SELECT that meets another transaction's lock fails the request.
LockNotAvailable(r) ==
  /\ \/ At(r, {"read"}) /\ req[r].kind \in EditKinds /\ submissionLock # NoRequest
     \/ At(r, {"written"}) /\ req[r].kind \notin {"create", "save"} /\ rowLock # NoRequest
     \/ /\ At(r, {"asked"}) /\ req[r].kind \in {"keskeyta_aloittamatta", "peru_keskeytys"}
        /\ rowLock # NoRequest
  /\ Fail(r)

\* Failed validation, an exception, a lost connection, a crash of the server.
Abort(r) == ~ At(r, {"idle", "ended"}) /\ Fail(r)

\* What the server does for a request, whatever else may befall it.
Serve(r) ==
  \/ CreateSubmission(r)
  \/ CreateHakemus(r)
  \/ CanUpdateHakemus(r)
  \/ GetLockedHakemusVersionForUpdate(r)
  \/ GetHakemus(r)
  \/ GetFormSubmission(r)
  \/ UpdateSubmissionTx(r)
  \/ UpdateSubmission(r)
  \/ UpdateHakemus(r)
  \/ SubmitHakemus(r)
  \/ UpdateStatus(r)
  \/ UpdateSubmittedHakemusVersion(r)
  \/ RefuseApplication(r)
  \/ KeskeytaAloittamatta(r)
  \/ LockNotAvailable(r)

Next == SetPhase \/ \E r \in Requests : Ask(r) \/ Serve(r) \/ Abort(r)

Spec == Init /\ [][Next]_vars

\* A thread of the server runs its handler to the end.
FairSpec == Spec /\ \A r \in Requests : WF_vars(Serve(r))

-----------------------------------------------------------------------------
(* Properties *)

CauseType == [kind : Kinds \cup {"set_submitted_version"}, token : BOOLEAN, open : BOOLEAN,
              seen : 0..Current, loaded : 0..Len(submissions)]

\* Types, and the foreign key by which a version points at an existing version of the
\* answers.
TypeOK ==
  /\ rows \in Seq([status : Statuses, submission : 1..Len(submissions), refused : BOOLEAN,
                    submitted : 0..Current, cause : CauseType])
  /\ submissions \in Seq(Kinds)
  /\ phase \in Phases
  /\ {rowLock, submissionLock} \subseteq Requests \cup {NoRequest}
  /\ req \in [Requests -> [kind : Kinds, token : BOOLEAN, status : Statuses, open : BOOLEAN,
                            pc : {"idle", "asked", "checked", "read", "written", "marking", "ended"},
                            base : 0..Current, loaded : 0..Len(submissions), seen : 0..Current,
                            pointer : 0..Len(submissions) + 1]]

\* A save supersedes only answers its author had before them: no version of the answers
\* was committed between the load of the page and the save, but for those a handler that
\* commits answers and application apart (SplitKinds) had put there.  Two tabs, or an
\* applicant and an officer, never overwrite each other's saves.
SavesLoseNoAnswers ==
  \A v \in 1..Current :
    rows[v].cause.kind = "save" =>
      \A n \in (rows[v].cause.loaded + 1)..(rows[v].submission - 1) : submissions[n] \in SplitKinds

\* A version is edited by leave: the grant was open when the request was checked, or the
\* version awaits its applicant, or it awaits an officer and the request has the officer's
\* token.  A save obeys this exactly; a submission may instead have read the application
\* before the version was made.  Neither of a save's two checks suffices alone: the second
\* knows no token, and the first reads a version that may be closed by the second.
EditingNeedsPermission ==
  \A v \in 1..(Current - 1) :
    LET old == rows[v]
        c == rows[v + 1].cause
    IN c.kind \in EditKinds =>
         \/ c.open
         \/ old.status \in {"pending_change_request", "applicant_edit"}
         \/ old.status = "officer_edit" /\ c.token
         \/ c.kind # "save" /\ c.seen < v

\* The open version points at the newest answers unless the handlers that do not lock what
\* they read came between: answers committed by one of SplitKinds whose application part is
\* still to come or has failed, or a version made with a pointer read before another version.
PointerBehindHasACause ==
  rows # <<>> /\ Hakemus.submission # Len(submissions) =>
    \/ /\ submissions[Len(submissions)] \in SplitKinds
       /\ \A v \in 1..Current : rows[v].submission # Len(submissions)
    \/ \E v \in 1..Current :
         /\ rows[v].cause.kind \in SplitKinds \cup StalePointerKinds
         /\ rows[v].submission = Hakemus.submission
         /\ rows[v].cause.seen < v - 1

\* A cancelled application comes back only by an officer's hand or by a request that read
\* it before it was cancelled.
CancelledStaysCancelled ==
  \A v \in 1..(Current - 1) :
    rows[v].status = "cancelled" /\ rows[v + 1].status # "cancelled" =>
      rows[v + 1].cause.kind = "status" \/ rows[v + 1].cause.seen < v

\* submitted_version, by which the officers' list tells what was changed after it was
\* submitted, names a version that was submitted, unless it is the late mark of an officer's
\* status change that another version overtook.
SubmittedVersionIsASubmission ==
  rows # <<>> /\ Hakemus.submitted > 0 =>
    \/ rows[Hakemus.submitted].status = "submitted"
    \/ \E v \in 1..(Hakemus.submitted - 1) :
         rows[v].cause.kind = "status" /\ rows[v].status = "submitted" /\ rows[v].submitted # v

\* "prevents refusing already refused application" (hakija_server_spec.clj:600): an
\* application that is refused is not refused again.
RefusedOnce ==
  \A v \in 1..(Current - 1) : rows[v + 1].cause.kind = "refuse" => ~ rows[v].refused

\* Every request is answered: no lock is left behind for one that waits.
EveryRequestIsAnswered == \A r \in Requests : At(r, {"asked"}) ~> At(r, {"ended"})

=============================================================================
