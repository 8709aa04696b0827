------------------------------ MODULE Selvitys ------------------------------
(***************************************************************************)
(* The report an applicant gives on a granted application (selvitys): the *)
(* applicant's browser tabs, the handlers that create, save and submit it *)
(* and those with which an officer asks for a completion, verifies and     *)
(* accepts it.  A handler is a sequence of transactions and unlocked       *)
(* reads; each is a step here, so two handlers meet between any of them.   *)
(***************************************************************************)
EXTENDS Yhteiset, Naturals, Sequences, FiniteSets

CONSTANTS Tabs,           \* in which applicants have the report open
          MaxCalls        \* bound: the requests of a behaviour

ASSUME CallsAssumption == MaxCalls \in Nat

VARIABLES kind,      \* "loppuselvitys" or "valiselvitys"
          selvitykset, \* the reports of the application, by id
          hakemus,   \* the columns of the application that tell of its report
          reportPage,      \* what each tab of the applicant shows
          view,      \* what each officer's page shows
          handlers,  \* the requests under way, each at its next step
          emails,    \* acceptances mailed to the applicant
          history    \* what has happened: calls, crossings, failures, stale views

reportVars == <<kind, selvitykset, hakemus, reportPage, view, handlers, emails, history>>

Kinds     == {"loppuselvitys", "valiselvitys"}
ReportStatuses  == {"draft", "submitted", "pending_change_request"}
Stages  == {"missing", "submitted", "information_verified", "accepted"}
Events    == {"crossed", "failure", "stale", "meanwhile"}
NoReport  == 0
Reports       == DOMAIN selvitykset

IsLoppuselvitys == kind = "loppuselvitys"

\* Mutant: a verified report can be saved again.
SelvitysUpdateableAlways(i) == TRUE
SelvitysUpdateable(i) ==
    IF IsLoppuselvitys
    THEN ~hakemus.verified \/ selvitykset[i].status = "pending_change_request"
    ELSE hakemus.status # "accepted"

ShownReport(i, updatable) == [id |-> i, version |-> selvitykset[i].version,
                        status |-> selvitykset[i].status, updatable |-> updatable]

\* get-selvitysdata: any submitted report of the application, or none.
Seen(i) == [id |-> i,
            report |-> IF i = NoReport THEN "draft" ELSE selvitykset[i].status,
            emailed |-> IF i = NoReport THEN FALSE ELSE selvitykset[i].emailed,
            status |-> hakemus.status, verified |-> hakemus.verified]
Visible == LET given == {i \in Reports : selvitykset[i].status # "draft"}
           IN  IF given = {} THEN {NoReport} ELSE given
UpToDate(o) == \E i \in Visible : view[o] = Seen(i)

\* A handler past its check is crossed by a write of another one: what it
\* checked may no longer hold when it writes.
Happens(s)  == history' = [history EXCEPT !.events = @ \union s]
Quiet    == UNCHANGED history
Unchecked == {"init", "save", "submit", "response", "verify", "accept", "request", "cancel"}
Writes(c) == Happens(IF \E d \in handlers \ {c} : d.step \notin Unchecked \union {"redirect"}
                  THEN {"crossed"} ELSE {})

Send(what, who, i, base) ==
    /\ history.calls < MaxCalls
    /\ handlers' = handlers \union
         {[step |-> what, who |-> who, id |-> i, base |-> base,
           nr |-> CHOOSE n \in 0..MaxCalls : \A c \in handlers : c.nr # n]}
    /\ history' = [calls |-> history.calls + 1,
                   events |-> history.events
                      \union (IF who \in Officers /\ ~UpToDate(who) THEN {"stale"} ELSE {})
                      \union (IF who \in Officers /\ \E c \in handlers : c.who \in Officers
                              THEN {"meanwhile"} ELSE {})]
    /\ UNCHANGED <<kind, selvitykset, hakemus, reportPage, view, emails>>

Ends(c)     == handlers' = handlers \ {c}
Goes(c, to) == handlers' = (handlers \ {c}) \union {[c EXCEPT !.step = to]}

NewVersion(i, status) ==
    selvitykset' = [selvitykset EXCEPT ![i].version = @ + 1, ![i].status = status]

(************************** The applicant's tabs ***************************)

RedirectToNewSelvitys(t) == reportPage[t].id = NoReport /\ Send("init", t, NoReport, 0)

SelvitysApp(t) ==   \* the page is opened again: it loads the report afresh
    /\ reportPage[t].id # NoReport
    /\ reportPage' = [reportPage EXCEPT ![t] = ShownReport(@.id, SelvitysUpdateable(@.id))]
    /\ reportPage' # reportPage
    /\ UNCHANGED <<kind, selvitykset, hakemus, view, handlers, emails, history>>

ReadOnly(t) == ~reportPage[t].updatable

WaitingFor(t) == \E c \in handlers : c.who = t

Autosave(t) ==
    /\ reportPage[t].id # NoReport /\ ~ReadOnly(t) /\ ~WaitingFor(t)
    /\ Send("save", t, reportPage[t].id, reportPage[t].version)

SubmitEntityApiUrl(t) ==
    IF reportPage[t].status = "pending_change_request" THEN "response" ELSE "submit"

Submit(t) ==
    /\ reportPage[t].id # NoReport /\ ~ReadOnly(t) /\ ~WaitingFor(t)
    /\ reportPage[t].status # "submitted"
    /\ Send(SubmitEntityApiUrl(t), t, reportPage[t].id, reportPage[t].version)

(*************************** The applicant's API ***************************)

CreateSelvitys(c) ==
    /\ selvitykset' = Append(selvitykset, [status |-> "draft", version |-> 1, answers |-> 0,
                                           emailed |-> FALSE, own |-> "missing"])
    /\ handlers' = (handlers \ {c}) \union
                     {[c EXCEPT !.step = "redirect", !.id = Len(selvitykset) + 1]}
    /\ UNCHANGED <<kind, hakemus, reportPage, view, emails>> /\ Writes(c)

GetSelvitysInit(c) ==
    \/ /\ c.step = "init" /\ Reports = {}
       /\ Goes(c, "create")
       /\ UNCHANGED <<kind, selvitykset, hakemus, reportPage, view, emails>> /\ Quiet
    \/ /\ c.step = "init"
       /\ \E i \in Reports : handlers' = (handlers \ {c}) \union
                                       {[c EXCEPT !.step = "redirect", !.id = i]}
       /\ UNCHANGED <<kind, selvitykset, hakemus, reportPage, view, emails>> /\ Quiet
    \/ c.step = "create" /\ CreateSelvitys(c)
    \/ /\ c.step = "redirect" /\ Ends(c)
       /\ reportPage' = [reportPage EXCEPT ![c.who] = ShownReport(c.id, SelvitysUpdateable(c.id))]
       /\ UNCHANGED <<kind, selvitykset, hakemus, view, emails>> /\ Quiet

VersionIsCurrent(c) == c.base = selvitykset[c.id].version

Refuse(c) == Ends(c) /\ UNCHANGED <<kind, selvitykset, hakemus, reportPage, view, emails>> /\ Quiet

Checked(c, ok, next) ==
    \/ ok /\ Goes(c, next) /\ UNCHANGED <<kind, selvitykset, hakemus, reportPage, view, emails>> /\ Quiet
    \/ ~ok /\ Refuse(c)

StoreAnswers(c, status) ==
    selvitykset' = [selvitykset EXCEPT ![c.id].version = @ + 1,
                                       ![c.id].status = status, ![c.id].answers = @ + 1]

OnSelvitysUpdate(c) ==
    \/ /\ c.step = "save"
       /\ Checked(c, SelvitysUpdateable(c.id) /\ VersionIsCurrent(c), "store")
    \/ /\ c.step = "store" /\ Ends(c)
       /\ StoreAnswers(c, selvitykset[c.id].status)
       /\ reportPage' = [reportPage EXCEPT ![c.who] =
                     [id |-> c.id, version |-> selvitykset'[c.id].version,
                      status |-> selvitykset'[c.id].status, updatable |-> TRUE]]
       /\ UNCHANGED <<kind, hakemus, view, emails>> /\ Writes(c)

\* The answer of a submission does not say whether the report can be updated:
\* a final report is read-only from then on, an interim report is not.
Submitted(c) ==
    reportPage' = [reportPage EXCEPT ![c.who] = ShownReport(c.id, ~IsLoppuselvitys)]

\* Mutant: a submission does not tell the application.
OnSelvitysSubmitSilently(c) ==
    \/ c.step = "submit" /\ Checked(c, VersionIsCurrent(c), "submit_hakemus")
    \/ /\ c.step = "submit_hakemus" /\ StoreAnswers(c, "submitted") /\ Ends(c)
       /\ UNCHANGED <<kind, hakemus, reportPage, view, emails>> /\ Writes(c)

OnSelvitysSubmit(c) ==
    \/ c.step = "submit" /\ Checked(c, VersionIsCurrent(c), "submit_hakemus")
    \/ /\ c.step = "submit_hakemus" /\ StoreAnswers(c, "submitted") /\ Goes(c, "submit_status")
       /\ UNCHANGED <<kind, hakemus, reportPage, view, emails>> /\ Writes(c)
    \/ /\ c.step = "submit_status" /\ Ends(c)
       /\ hakemus' = [hakemus EXCEPT !.status = "submitted"]
       /\ Submitted(c)
       /\ UNCHANGED <<kind, selvitykset, view, emails>> /\ Writes(c)

OnChangeRequestResponse(c) ==
    \/ /\ c.step = "response"
       /\ Checked(c, /\ selvitykset[c.id].status = "pending_change_request"
                     /\ VersionIsCurrent(c), "respond")
    \/ /\ c.step = "respond" /\ StoreAnswers(c, "submitted") /\ Goes(c, "own_status")
       /\ UNCHANGED <<kind, hakemus, reportPage, view, emails>> /\ Writes(c)
    \/ /\ c.step = "own_status" /\ Ends(c)   \* the report's own row, not the application's
       /\ selvitykset' = [selvitykset EXCEPT ![c.id].own = "submitted"]
       /\ Submitted(c)
       /\ UNCHANGED <<kind, hakemus, view, emails>> /\ Writes(c)

(*************************** The officers' pages ***************************)

LoppuselvitysTab(o) ==   \* the application is opened, or refreshed
    /\ \E i \in Visible : view' = [view EXCEPT ![o] = Seen(i)]
    /\ view' # view
    /\ UNCHANGED <<kind, selvitykset, hakemus, reportPage, handlers, emails, history>>

Asiatarkastus(o) ==
    /\ IsLoppuselvitys
    /\ view[o].report = "submitted" /\ view[o].status = "submitted" /\ ~view[o].verified
    /\ Send("verify", o, view[o].id, 0)

Taloustarkastus(o) ==
    /\ IsLoppuselvitys
    /\ view[o].report = "submitted" /\ view[o].status = "information_verified"
    /\ Send("accept", o, view[o].id, 0)

ValiselvitysEmail(o) ==
    /\ ~IsLoppuselvitys /\ view[o].id # NoReport /\ ~view[o].emailed
    /\ Send("accept", o, view[o].id, 0)

ShowCancelButton(o) == view[o].report = "pending_change_request"

LoppuselvitysTarkastus(o) ==
    /\ IsLoppuselvitys /\ view[o].status \in {"submitted", "information_verified"}
    /\ \/ ~ShowCancelButton(o) /\ Send("request", o, view[o].id, 0)
       \/ ShowCancelButton(o) /\ Send("cancel", o, view[o].id, 0)

(**************************** The officers' API ****************************)

RefreshHakemus(c) ==
    \E i \in Visible' : view' = [view EXCEPT ![c.who] = Seen(i)']

VerifyLoppuselvitysInformation(c) ==
    \/ c.step = "verify" /\ Checked(c, hakemus.status = "submitted", "verified")
    \/ /\ c.step = "verified" /\ Ends(c)
       /\ hakemus' = [hakemus EXCEPT !.status = "information_verified", !.verified = TRUE]
       /\ UNCHANGED <<kind, selvitykset, reportPage, emails>> /\ RefreshHakemus(c) /\ Writes(c)

CanSetSelvitys == IsLoppuselvitys => hakemus.status = "information_verified"

SetSelvitysAccepted(c) ==
    \/ c.step = "accept" /\ Checked(c, CanSetSelvitys, "send_selvitys")
    \/ /\ c.step = "send_selvitys"           \* mailed, and the mail kept on the report
       /\ emails' = emails + 1
       /\ selvitykset' = [selvitykset EXCEPT ![c.id].emailed = TRUE]
       /\ Goes(c, "accepted")
       /\ UNCHANGED <<kind, hakemus, reportPage, view>> /\ Writes(c)
    \/ /\ c.step = "accepted" /\ Ends(c)
       /\ hakemus' = [hakemus EXCEPT !.status = "accepted"]
       /\ UNCHANGED <<kind, selvitykset, reportPage, emails>> /\ RefreshHakemus(c) /\ Writes(c)

Taydennyspyynto(c) ==
    /\ c.step = "request" /\ Ends(c)
    /\ \E i \in Reports : NewVersion(i, "pending_change_request")
    /\ UNCHANGED <<kind, hakemus, reportPage, emails>> /\ RefreshHakemus(c) /\ Writes(c)

CancelTaydennyspyynto(c) ==
    \/ /\ c.step = "cancel"
       /\ \E i \in Reports : Checked(c, selvitykset[i].status = "pending_change_request", "cancelled")
    \/ /\ c.step = "cancelled" /\ Ends(c)
       /\ \E i \in Reports : NewVersion(i, "submitted")
       /\ UNCHANGED <<kind, hakemus, reportPage, emails>> /\ RefreshHakemus(c) /\ Writes(c)

HandlerFails(c) ==   \* the connection pool, the mail queue or the process: no step follows
    /\ Ends(c) /\ Happens({"failure"})
    /\ UNCHANGED <<kind, selvitykset, hakemus, reportPage, view, emails>>

ReportInit ==
    /\ kind \in Kinds
    /\ selvitykset = <<>>
    /\ hakemus = [status |-> "missing", verified |-> FALSE]
    /\ reportPage = [t \in Tabs |-> [id |-> NoReport, version |-> 0, status |-> "draft",
                               updatable |-> TRUE]]
    /\ view = [o \in Officers |-> Seen(NoReport)]
    /\ handlers = {} /\ emails = 0
    /\ history = [calls |-> 0, events |-> {}]

ReportNext ==
    \/ \E t \in Tabs : \/ RedirectToNewSelvitys(t) \/ SelvitysApp(t)
                       \/ Autosave(t) \/ Submit(t)
    \/ \E o \in Officers : \/ LoppuselvitysTab(o) \/ Asiatarkastus(o) \/ Taloustarkastus(o)
                           \/ ValiselvitysEmail(o) \/ LoppuselvitysTarkastus(o)
    \/ \E c \in handlers : \/ GetSelvitysInit(c) \/ OnSelvitysUpdate(c) \/ OnSelvitysSubmit(c)
                           \/ OnChangeRequestResponse(c) \/ VerifyLoppuselvitysInformation(c)
                           \/ SetSelvitysAccepted(c) \/ Taydennyspyynto(c)
                           \/ CancelTaydennyspyynto(c) \/ HandlerFails(c)

ReportSpec == ReportInit /\ [][ReportNext]_reportVars

(******************************* Properties ********************************)

\* Reports, pages and requests hold the values the code gives them.
ReportTypeOK ==
    /\ kind \in Kinds
    /\ selvitykset \in Seq([status : ReportStatuses, version : Nat, answers : Nat,
                            emailed : BOOLEAN, own : {"missing", "submitted"}])
    /\ hakemus \in [status : Stages, verified : BOOLEAN]
    /\ reportPage \in [Tabs -> [id : Reports \union {NoReport}, version : Nat,
                          status : ReportStatuses, updatable : BOOLEAN]]
    /\ view \in [Officers -> [id : Reports \union {NoReport}, report : ReportStatuses,
                              emailed : BOOLEAN, status : Stages, verified : BOOLEAN]]
    /\ \A c \in handlers : c.who \in Tabs \union Officers /\ c.id \in Reports \union {NoReport}
    /\ emails \in Nat /\ history.calls \in 0..MaxCalls /\ history.events \subseteq Events

InTurn == "crossed" \notin history.events

\* Once an officer has verified a final report its answers change only in
\* response to a change request: no page left open gets around it, although of
\* the two ways to save only one (on-selvitys-update) looks at the
\* verification.  A handler that checked before another one wrote may.
VerifiedAnswersStay ==
    [][ \A i \in Reports :
          (/\ IsLoppuselvitys /\ hakemus.verified /\ InTurn
           /\ selvitykset'[i].answers # selvitykset[i].answers)
             => selvitykset[i].status = "pending_change_request" ]_reportVars

\* What the application says of its report is true of the report, although
\* three transactions write it and pages act on what they once read: an
\* application has one report; it is marked submitted once its report is,
\* unless the submission failed on the way; it is verified exactly when
\* someone verified it; and the applicant is told of the acceptance once, of a
\* report that is not being completed, unless an officer acted on an old view
\* or before the answer to what was asked already, or the acceptance
\* failed between its mail and its mark.
ReportAgrees ==
    InTurn =>
      /\ Len(selvitykset) <= 1
      /\ (handlers = {} /\ "failure" \notin history.events) =>
           ((hakemus.status = "missing") <=>
            (\A i \in Reports : selvitykset[i].status = "draft"))
      /\ IsLoppuselvitys =>
           (hakemus.verified <=> hakemus.status \in {"information_verified", "accepted"})
      /\ ({"stale", "failure"} \union (IF IsLoppuselvitys THEN {} ELSE {"meanwhile"}))
             \intersect history.events = {} => emails <= 1
      /\ ({"stale", "meanwhile"} \intersect history.events = {} /\ hakemus.status = "accepted" /\ IsLoppuselvitys) =>
           \A i \in Reports : selvitykset[i].status = "submitted"
=============================================================================
