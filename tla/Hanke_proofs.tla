---------------------------- MODULE Hanke_proofs ----------------------------
(***************************************************************************)
(* Theorems about a granted application: its report (Selvitys), with its   *)
(* completions, its verification and its acceptance, and the requests to   *)
(* change it (Muutoshakemus), for every number of tabs and officers.       *)
(***************************************************************************)
EXTENDS Selvitys, Muutoshakemus, FiniteSetTheorems, WellFoundedInduction, TLAPS

-----------------------------------------------------------------------------
(* The report of a granted application                                       *)

Report  == [status : ReportStatuses, version : Nat, answers : Nat,
            emailed : BOOLEAN, own : {"missing", "submitted"}]
Shown   == [id : Nat, version : Nat, status : ReportStatuses, updatable : BOOLEAN]
Glimpse == [id : Nat, report : ReportStatuses, emailed : BOOLEAN, status : Stages,
            verified : BOOLEAN]

ApplicantSteps == {"init", "create", "redirect", "save", "store", "submit", "submit_hakemus",
                   "submit_status", "response", "respond", "own_status"}
OfficerSteps   == {"verify", "verified", "accept", "send_selvitys", "accepted", "request",
                   "cancel", "cancelled"}
ReportSteps    == ApplicantSteps \union OfficerSteps
\* The steps that speak of a report there is, and those that speak of one that was given.
OfReport       == {"redirect", "save", "store", "submit", "submit_hakemus", "submit_status",
                   "response", "respond", "own_status", "accept", "send_selvitys", "accepted"}
OfGiven        == {"submit_status", "own_status", "accept", "send_selvitys", "accepted"}
OfAcceptance   == {"accept", "send_selvitys", "accepted"}
OfCompletion   == {"request", "cancel", "cancelled"}

Given(i) == i \in Reports /\ selvitykset[i].status # "draft"

\* A handler has these fields, is of someone who can have asked for it, and goes on from a version
\* no newer than the report's.  A first submission is of a draft, or based on an old version.
HandlerOK(c) ==
  /\ c \in [step : ReportSteps, who : Tabs \union Officers, id : Nat, base : Nat, nr : {c.nr}]
  /\ c.id \in Reports \union {NoReport}
  /\ c.step \in ApplicantSteps => c.who \in Tabs
  /\ c.step \in OfficerSteps => c.who \in Officers
  /\ c.step \in OfReport => c.id \in Reports /\ c.base <= selvitykset[c.id].version
  /\ c.step \in OfGiven => Given(c.id)
  /\ c.step \in {"submit", "submit_hakemus"} /\ c.base = selvitykset[c.id].version =>
       selvitykset[c.id].status = "draft"
  /\ c.step \in OfCompletion \union {"verified"} => hakemus.status # "missing"
  /\ c.step \in {"init", "create"} => c.base = 0

\* A tab that shows the current version of a report shows its status.
TabOK(p) ==
  /\ p \in Shown /\ p.id \in Reports \union {NoReport}
  /\ p.id # NoReport => /\ p.version <= selvitykset[p.id].version
                        /\ p.version = selvitykset[p.id].version => p.status = selvitykset[p.id].status

\* An officer sees reports that were given.
ViewOK(v) ==
  /\ v \in Glimpse /\ v.id \in Reports \union {NoReport}
  /\ v.id # NoReport => Given(v.id)
  /\ v.report # "draft" => v.id # NoReport
  /\ v.status # "missing" => hakemus.status # "missing"

ReportData ==
  /\ kind \in Kinds
  /\ selvitykset \in Seq(Report)
  /\ hakemus \in [status : Stages, verified : BOOLEAN]
  /\ emails \in Nat
  /\ history \in [calls : 0..MaxCalls, events : SUBSET Events]

ReportBase ==
  /\ ReportData
  /\ reportPage = [t \in Tabs |-> reportPage[t]] /\ \A t \in Tabs : TabOK(reportPage[t])
  /\ view = [o \in Officers |-> view[o]] /\ \A o \in Officers : ViewOK(view[o])
  /\ \A c \in handlers : HandlerOK(c)
  /\ hakemus.status # "missing" => \E i \in Reports : Given(i)

\* While no handler was crossed: what a handler has checked still holds when it writes.
CheckHolds(c) ==
  /\ c.step = "create" => Reports = {}
  /\ c.step = "store" => SelvitysUpdateable(c.id)
  /\ c.step = "submit_hakemus" => VersionIsCurrent(c)
  /\ c.step = "submit_status" => hakemus.status = "missing"
  /\ c.step = "respond" => selvitykset[c.id].status = "pending_change_request"
  /\ c.step = "verified" => hakemus.status = "submitted"
  /\ c.step \in {"send_selvitys", "accepted"} => CanSetSelvitys

\* What the application says of its report, one handler at a time.
HakemusAgrees ==
  /\ Len(selvitykset) <= 1
  /\ IsLoppuselvitys => (hakemus.verified <=> hakemus.status \in {"information_verified", "accepted"})
  /\ "failure" \notin history.events /\ (\E i \in Reports : Given(i)) =>
       hakemus.status # "missing" \/ \E c \in handlers : c.step = "submit_status"
  /\ "failure" \notin history.events /\ IsLoppuselvitys =>
       emails = 0 \/ (emails = 1 /\ (hakemus.status = "accepted" \/ \E c \in handlers : c.step = "accepted"))

\* One officer at a time, who has seen what there is.
OfficersInTurn == {"stale", "meanwhile"} \intersect history.events = {}
OneOfficer == \A c, d \in handlers : c.who \in Officers /\ d.who \in Officers => c = d
MailsAgree ==
  ~IsLoppuselvitys =>
    /\ emails <= 1
    /\ emails = 1 => Reports # {} /\ \A i \in Reports : selvitykset[i].emailed
    /\ \A c \in handlers : c.step \in {"accept", "send_selvitys"} => ~selvitykset[c.id].emailed
AcceptanceAgrees ==
  IsLoppuselvitys =>
    /\ \A c \in handlers : c.step \in OfAcceptance => selvitykset[c.id].status = "submitted"
    /\ \A c \in handlers : c.step \in OfCompletion => hakemus.status # "accepted"
    /\ hakemus.status = "accepted" => \A i \in Reports : selvitykset[i].status = "submitted"
OfficersAgree == OneOfficer /\ MailsAgree /\ AcceptanceAgrees

TurnInv == InTurn => /\ \A c \in handlers : CheckHolds(c)
                     /\ HakemusAgrees
                     /\ OfficersInTurn => OfficersAgree

ReportInv == ReportBase /\ TurnInv

-----------------------------------------------------------------------------

\* A report gets a new version of a status.
Moves(i, s) ==
  /\ selvitykset' \in Seq(Report) /\ Len(selvitykset') = Len(selvitykset)
  /\ \A j \in Reports : j # i => selvitykset'[j] = selvitykset[j]
  /\ selvitykset'[i].version = selvitykset[i].version + 1
  /\ selvitykset'[i].status = s
  /\ selvitykset'[i].emailed = selvitykset[i].emailed

\* A report in a new version and status, and with new answers.
InVersion(o, y)  == [[o EXCEPT !.version = o.version + 1] EXCEPT !.status = y]
WithAnswers(o, n) == [o EXCEPT !.answers = n]

LEMMA NewReport ==
  ASSUME NEW o \in Report, NEW y \in ReportStatuses
  PROVE  /\ InVersion(o, y) \in Report /\ InVersion(o, y).version = o.version + 1
         /\ InVersion(o, y).status = y /\ InVersion(o, y).emailed = o.emailed
         /\ InVersion(o, y).answers = o.answers
<1>1. /\ o = [status |-> o.status, version |-> o.version, answers |-> o.answers,
              emailed |-> o.emailed, own |-> o.own]
      /\ o.version + 1 \in Nat
  BY DEF Report
<1>2. PICK p : p = [o EXCEPT !.version = o.version + 1]
  OBVIOUS
<1>3. p = [status |-> o.status, version |-> o.version + 1, answers |-> o.answers,
           emailed |-> o.emailed, own |-> o.own]
  BY <1>1, <1>2
<1>4. [p EXCEPT !.status = y] = [status |-> y, version |-> o.version + 1, answers |-> o.answers,
           emailed |-> o.emailed, own |-> o.own]
  BY ONLY <1>3
<1>5. InVersion(o, y) = [status |-> y, version |-> o.version + 1, answers |-> o.answers,
           emailed |-> o.emailed, own |-> o.own]
  BY ONLY <1>2, <1>4 DEF InVersion
<1> QED BY <1>1, <1>5 DEF Report

LEMMA NewAnswers ==
  ASSUME NEW q \in Report, NEW n \in Nat
  PROVE  /\ WithAnswers(q, n) \in Report /\ WithAnswers(q, n).version = q.version
         /\ WithAnswers(q, n).status = q.status /\ WithAnswers(q, n).emailed = q.emailed
<1>1. q = [status |-> q.status, version |-> q.version, answers |-> q.answers,
           emailed |-> q.emailed, own |-> q.own]
  BY DEF Report
<1>2. WithAnswers(q, n) =
        [status |-> q.status, version |-> q.version, answers |-> n, emailed |-> q.emailed, own |-> q.own]
  BY <1>1 DEF WithAnswers
<1> QED BY <1>2 DEF Report

\* Two fields of one entry, replaced one after the other.
LEMMA ReplaceTwo ==
  ASSUME NEW S, NEW f \in Seq(S), NEW i \in DOMAIN f, NEW x, NEW y,
         NEW g, g = [[f EXCEPT ![i].version = x] EXCEPT ![i].status = y]
  PROVE  g = [f EXCEPT ![i] = [[f[i] EXCEPT !.version = x] EXCEPT !.status = y]]
OBVIOUS

LEMMA NewVersionMoves ==
  ASSUME selvitykset \in Seq(Report), NEW i \in Reports, NEW s \in ReportStatuses, NewVersion(i, s)
  PROVE  Moves(i, s) /\ selvitykset'[i].answers = selvitykset[i].answers
<1>1. PICK o \in Report : o = selvitykset[i]
  BY DEF Reports
<1>2. i \in DOMAIN selvitykset
  BY DEF Reports
<1>3. selvitykset' = [[selvitykset EXCEPT ![i].version = o.version + 1] EXCEPT ![i].status = s]
  BY <1>1, <1>2 DEF NewVersion
<1>4. selvitykset' = [selvitykset EXCEPT ![i] = [[selvitykset[i] EXCEPT !.version = o.version + 1] EXCEPT !.status = s]]
  BY <1>2, <1>3, ReplaceTwo
<1>5. selvitykset' = [selvitykset EXCEPT ![i] = InVersion(o, s)]
  BY ONLY <1>1, <1>4 DEF InVersion
<1> QED BY <1>1, <1>2, <1>5, NewReport DEF Moves, Reports

\* Three fields of one entry, replaced one after the other.
LEMMA ReplaceThree ==
  ASSUME NEW S, NEW f \in Seq(S), NEW i \in DOMAIN f, NEW x, NEW y, NEW z,
         NEW g, g = [[[f EXCEPT ![i].version = x] EXCEPT ![i].status = y] EXCEPT ![i].answers = z]
  PROVE  g = [f EXCEPT ![i] = [[[f[i] EXCEPT !.version = x] EXCEPT !.status = y] EXCEPT !.answers = z]]
<1> DEFINE o == [f[i] EXCEPT !.version = x]
           p == [o EXCEPT !.status = y]
           q == [p EXCEPT !.answers = z]
           k == [f EXCEPT ![i] = o]
           l == [k EXCEPT ![i].status = y]
<1>1. f \in [1..Len(f) -> S] /\ i \in 1..Len(f)
  OBVIOUS
<1>2. k = [f EXCEPT ![i].version = x]
  OBVIOUS
<1>3. k[i] = o /\ DOMAIN k = 1..Len(f)
  BY <1>1
<1>4. l = [k EXCEPT ![i] = p]
  BY <1>3
<1>5. l[i] = p /\ DOMAIN l = 1..Len(f)
  BY <1>3, <1>4
<1>6. g = [l EXCEPT ![i].answers = z]
  BY <1>2
<1>7. g = [l EXCEPT ![i] = q]
  BY <1>5, <1>6
<1>8. \A j \in 1..Len(f) : j # i => g[j] = f[j]
  BY <1>1, <1>3, <1>4, <1>5, <1>7
<1>9. g[i] = q /\ DOMAIN g = 1..Len(f) /\ g = [j \in 1..Len(f) |-> g[j]]
  BY <1>1, <1>5, <1>7
<1> HIDE DEF o, p, q, k, l
<1>10. g = [f EXCEPT ![i] = q]
  BY <1>1, <1>8, <1>9
<1> QED BY <1>10 DEF q, p, o

LEMMA StoreAnswersMoves ==
  ASSUME selvitykset \in Seq(Report), NEW c, c.id \in Reports, NEW s \in ReportStatuses, StoreAnswers(c, s)
  PROVE  Moves(c.id, s)
<1>1. PICK i \in Reports : i = c.id
  OBVIOUS
<1>2. PICK o \in Report : o = selvitykset[i]
  BY <1>1 DEF Reports
<1>3. i \in DOMAIN selvitykset
  BY <1>1 DEF Reports
<1>4. selvitykset' = [[[selvitykset EXCEPT ![i].version = o.version + 1] EXCEPT ![i].status = s]
                         EXCEPT ![i].answers = o.answers + 1]
  BY <1>1, <1>2, <1>3 DEF StoreAnswers
<1>5. selvitykset' = [selvitykset EXCEPT ![i] =
                        [[[selvitykset[i] EXCEPT !.version = o.version + 1] EXCEPT !.status = s]
                           EXCEPT !.answers = o.answers + 1]]
  BY <1>3, <1>4, ReplaceThree
<1>6. selvitykset' = [selvitykset EXCEPT ![i] = WithAnswers(InVersion(o, s), o.answers + 1)]
  BY ONLY <1>2, <1>5 DEF InVersion, WithAnswers
<1>7. PICK n \in Nat : n = o.answers + 1
  BY <1>2 DEF Report
<1>8. PICK q \in Report : /\ q = InVersion(o, s)
                          /\ q.version = o.version + 1 /\ q.status = s /\ q.emailed = o.emailed
  BY <1>2, NewReport
<1>9. /\ WithAnswers(q, n) \in Report /\ WithAnswers(q, n).version = q.version
      /\ WithAnswers(q, n).status = q.status /\ WithAnswers(q, n).emailed = q.emailed
  BY <1>7, <1>8, NewAnswers
<1>10. selvitykset' = [selvitykset EXCEPT ![i] = WithAnswers(q, n)]
  BY <1>6, <1>7, <1>8
<1> QED BY <1>1, <1>2, <1>3, <1>8, <1>9, <1>10 DEF Moves, Reports

\* A handler that goes on.
AtStep(c, to) == [c EXCEPT !.step = to]

LEMMA HandlerGoesOn ==
  ASSUME NEW c, HandlerOK(c), NEW to \in ReportSteps
  PROVE  /\ AtStep(c, to) \in [step : ReportSteps, who : Tabs \union Officers, id : Nat, base : Nat,
                               nr : {AtStep(c, to).nr}]
         /\ AtStep(c, to).step = to /\ AtStep(c, to).who = c.who
         /\ AtStep(c, to).id = c.id /\ AtStep(c, to).base = c.base
<1>1. c = [step |-> c.step, who |-> c.who, id |-> c.id, base |-> c.base, nr |-> c.nr]
  BY DEF HandlerOK
<1>2. AtStep(c, to) = [step |-> to, who |-> c.who, id |-> c.id, base |-> c.base, nr |-> c.nr]
  BY <1>1 DEF AtStep
<1> QED BY <1>2 DEF HandlerOK

\* What a write leaves: other handlers are not past their checks, or the writes crossed.
LEMMA WritesAlone ==
  ASSUME ReportData, NEW c, Writes(c)
  PROVE  /\ history'.calls = history.calls
         /\ \A e \in Events \ {"crossed"} : e \in history'.events <=> e \in history.events
         /\ history' \in [calls : 0..MaxCalls, events : SUBSET Events]
         /\ InTurn' => /\ InTurn
                       /\ \A d \in handlers \ {c} : d.step \in Unchecked \union {"redirect"}
BY DEF ReportData, Writes, Happens, InTurn, Events

-----------------------------------------------------------------------------
(* What every step leaves true                                               *)

\* Reports are not taken away, get new versions with new statuses, and do not go back to drafts;
\* nor does the application go back to having none.
ReportsGrow ==
  /\ Reports \subseteq Reports'
  /\ \A i \in Reports :
       /\ selvitykset[i].version <= selvitykset'[i].version
       /\ selvitykset[i].version = selvitykset'[i].version => selvitykset'[i].status = selvitykset[i].status
       /\ Given(i) => selvitykset'[i].status # "draft"
  /\ hakemus.status # "missing" => hakemus'.status # "missing"

LEMMA VersionsAreNat ==
  ASSUME NEW s \in Seq(Report)
  PROVE  \A i \in DOMAIN s : s[i] \in Report /\ s[i].version \in Nat
<1>1. \A i \in DOMAIN s : s[i] \in Report
  OBVIOUS
<1> QED BY <1>1 DEF Report

LEMMA HandlerStays ==
  ASSUME ReportData, ReportData', ReportsGrow, NEW c, HandlerOK(c)
  PROVE  HandlerOK(c)'
<1>1. \A i \in Reports : selvitykset[i].version \in Nat /\ selvitykset'[i].version \in Nat
  <2>1. selvitykset \in Seq(Report) /\ selvitykset' \in Seq(Report)
    BY DEF ReportData
  <2>2. /\ \A i \in Reports : selvitykset[i].version \in Nat
        /\ \A i \in Reports' : selvitykset'[i].version \in Nat
    BY <2>1, VersionsAreNat DEF Reports
  <2> QED BY <2>2 DEF ReportsGrow
<1>2. c.base \in Nat
  BY DEF HandlerOK
<1>3. c.step \in OfReport => c.id \in Reports' /\ c.base <= selvitykset'[c.id].version
  BY <1>1, <1>2 DEF HandlerOK, ReportsGrow
<1>4. c.step \in OfGiven => Given(c.id)'
  BY DEF HandlerOK, ReportsGrow, Given
<1>5. c.step \in {"submit", "submit_hakemus"} /\ c.base = selvitykset'[c.id].version =>
        selvitykset'[c.id].status = "draft"
  <2> SUFFICES ASSUME c.step \in {"submit", "submit_hakemus"}, c.base = selvitykset'[c.id].version
               PROVE  selvitykset'[c.id].status = "draft"
    OBVIOUS
  <2>1. c.id \in Reports /\ c.base <= selvitykset[c.id].version
    BY DEF HandlerOK, OfReport
  <2>2. selvitykset[c.id].version = selvitykset'[c.id].version
    BY <1>1, <1>2, <2>1 DEF ReportsGrow
  <2> QED BY <2>1, <2>2 DEF HandlerOK, ReportsGrow
<1> QED BY <1>3, <1>4, <1>5 DEF HandlerOK, ReportsGrow

LEMMA TabStays ==
  ASSUME ReportData, ReportData', ReportsGrow, NEW p, TabOK(p)
  PROVE  TabOK(p)'
<1>1. \A i \in Reports : selvitykset[i].version \in Nat /\ selvitykset'[i].version \in Nat
  <2>1. selvitykset \in Seq(Report) /\ selvitykset' \in Seq(Report)
    BY DEF ReportData
  <2>2. /\ \A i \in Reports : selvitykset[i].version \in Nat
        /\ \A i \in Reports' : selvitykset'[i].version \in Nat
    BY <2>1, VersionsAreNat DEF Reports
  <2> QED BY <2>2 DEF ReportsGrow
<1>2. p.version \in Nat
  BY DEF TabOK, Shown
<1> QED BY <1>1, <1>2 DEF TabOK, ReportsGrow

LEMMA ViewStays ==
  ASSUME ReportsGrow, NEW v, ViewOK(v)
  PROVE  ViewOK(v)'
BY DEF ViewOK, ReportsGrow, Given

\* A step, taken apart: what tabs, officers and handlers are new has to be right.
LEMMA BaseStep ==
  ASSUME ReportBase, ReportData', ReportsGrow,
         \/ UNCHANGED reportPage
         \/ \E t, p : reportPage' = [reportPage EXCEPT ![t] = p] /\ TabOK(p)',
         \/ UNCHANGED view
         \/ \E o, v : view' = [view EXCEPT ![o] = v] /\ ViewOK(v)',
         \A c \in handlers' : c \in handlers \/ HandlerOK(c)',
         hakemus.status = "missing" /\ hakemus'.status # "missing" => \E i \in Reports' : Given(i)'
  PROVE  ReportBase'
<1>1. \A t \in Tabs : TabOK(reportPage[t])
  BY DEF ReportBase
<1>2. reportPage' = [t \in Tabs |-> reportPage'[t]] /\ \A t \in Tabs : TabOK(reportPage[t])'
  <2>1. CASE UNCHANGED reportPage
    BY <1>1, <2>1, TabStays DEF ReportBase
  <2>2. ASSUME NEW t, NEW p, reportPage' = [reportPage EXCEPT ![t] = p], TabOK(p)'
        PROVE  reportPage' = [u \in Tabs |-> reportPage'[u]] /\ \A u \in Tabs : TabOK(reportPage[u])'
    <3>1. \A u \in Tabs : reportPage'[u] = IF u = t THEN p ELSE reportPage[u]
      BY <2>2 DEF ReportBase
    <3>2. \A u \in Tabs : TabOK(reportPage[u])'
      <4> SUFFICES ASSUME NEW u \in Tabs PROVE TabOK(reportPage[u])'
        OBVIOUS
      <4>1. PICK q : q = reportPage'[u]
        OBVIOUS
      <4>2. TabOK(q)'
        BY <1>1, <2>2, <3>1, <4>1, TabStays DEF ReportBase
      <4> QED BY <4>1, <4>2
    <3> QED BY <2>2, <3>2 DEF ReportBase
  <2> QED BY <2>1, <2>2
<1>3. \A o \in Officers : ViewOK(view[o])
  BY DEF ReportBase
<1>4. view' = [o \in Officers |-> view'[o]] /\ \A o \in Officers : ViewOK(view[o])'
  <2>1. CASE UNCHANGED view
    BY <1>3, <2>1, ViewStays DEF ReportBase
  <2>2. ASSUME NEW o, NEW v, view' = [view EXCEPT ![o] = v], ViewOK(v)'
        PROVE  view' = [u \in Officers |-> view'[u]] /\ \A u \in Officers : ViewOK(view[u])'
    <3>1. \A u \in Officers : view'[u] = IF u = o THEN v ELSE view[u]
      BY <2>2 DEF ReportBase
    <3>2. \A u \in Officers : ViewOK(view[u])'
      <4> SUFFICES ASSUME NEW u \in Officers PROVE ViewOK(view[u])'
        OBVIOUS
      <4>1. PICK q : q = view'[u]
        OBVIOUS
      <4>2. ViewOK(q)'
        BY <1>3, <2>2, <3>1, <4>1, ViewStays
      <4> QED BY <4>1, <4>2
    <3> QED BY <2>2, <3>2 DEF ReportBase
  <2> QED BY <2>1, <2>2
<1>5. \A c \in handlers' : HandlerOK(c)'
  BY HandlerStays DEF ReportBase
<1>6. hakemus'.status # "missing" => \E i \in Reports' : Given(i)'
  <2>1. ASSUME NEW i \in Reports, Given(i)
        PROVE  i \in Reports' /\ Given(i)'
    BY <2>1 DEF ReportsGrow, Given
  <2> QED BY <2>1 DEF ReportBase
<1> QED BY <1>2, <1>4, <1>5, <1>6 DEF ReportBase

-----------------------------------------------------------------------------
(* Steps that write nothing                                                  *)

\* Requests come and go, and checks are made; what is stored stays.
Untouched == UNCHANGED <<kind, selvitykset, hakemus, emails>>

LEMMA UntouchedGrows ==
  ASSUME ReportData, Untouched
  PROVE  ReportsGrow
<1>1. \A i \in Reports : selvitykset[i].version \in Nat
  BY VersionsAreNat DEF ReportData, Reports
<1> QED BY <1>1 DEF ReportData, Untouched, ReportsGrow, Reports, Given

\* A handler goes on, or ends, having written nothing.
LEMMA QuietTurn ==
  ASSUME ReportBase, TurnInv, Untouched, UNCHANGED history, NEW c \in handlers, NEW d,
         handlers' \subseteq (handlers \ {c}) \union {d}, handlers \ {c} \subseteq handlers',
         c.step \notin {"submit_status", "accepted"}, d.who = c.who, InTurn => CheckHolds(d),
         d.step \in OfAcceptance => c.step \in OfAcceptance /\ d.id = c.id,
         d.step \in {"accept", "send_selvitys"} => c.step \in {"accept", "send_selvitys"},
         d.step \in OfCompletion => c.step \in OfCompletion
  PROVE  TurnInv'
<1> SUFFICES ASSUME InTurn'
             PROVE  /\ \A e \in handlers' : CheckHolds(e)'
                    /\ HakemusAgrees'
                    /\ OfficersInTurn' => OfficersAgree'
  BY DEF TurnInv
<1>1. InTurn /\ OfficersInTurn' = OfficersInTurn
  BY DEF InTurn, OfficersInTurn
<1>2. \A e \in handlers' : CheckHolds(e)
  BY <1>1 DEF TurnInv
<1>3. \A e : CheckHolds(e) => CheckHolds(e)'
  BY DEF CheckHolds, Untouched, Reports, SelvitysUpdateable, IsLoppuselvitys, VersionIsCurrent, CanSetSelvitys
<1>4. \A e \in handlers' : CheckHolds(e)'
  BY <1>2, <1>3
<1>5. HakemusAgrees
  BY <1>1 DEF TurnInv
<1>6. /\ (\E e \in handlers : e.step = "submit_status") => \E e \in handlers' : e.step = "submit_status"
      /\ (\E e \in handlers : e.step = "accepted") => \E e \in handlers' : e.step = "accepted"
  OBVIOUS
<1>7. HakemusAgrees'
  BY <1>5, <1>6 DEF HakemusAgrees, Untouched, Reports, Given, IsLoppuselvitys
<1>8. ASSUME OfficersInTurn
      PROVE  OfficersAgree'
  <2>1. OfficersAgree
    BY <1>1, <1>8 DEF TurnInv
  <2>2. \A e, f \in handlers' : e.who \in Officers /\ f.who \in Officers => e = f
    BY <2>1 DEF OfficersAgree, OneOfficer, MailsAgree, AcceptanceAgrees
  <2>3. ~IsLoppuselvitys => \A e \in handlers' : e.step \in {"accept", "send_selvitys"} => ~selvitykset[e.id].emailed
    BY <2>1 DEF OfficersAgree, OneOfficer, MailsAgree, AcceptanceAgrees, OfAcceptance
  <2>4. IsLoppuselvitys =>
          /\ \A e \in handlers' : e.step \in OfAcceptance => selvitykset[e.id].status = "submitted"
          /\ \A e \in handlers' : e.step \in OfCompletion => hakemus.status # "accepted"
    BY <2>1 DEF OfficersAgree, OneOfficer, MailsAgree, AcceptanceAgrees
  <2> QED BY <2>1, <2>2, <2>3, <2>4 DEF OfficersAgree, OneOfficer, MailsAgree, AcceptanceAgrees, Untouched, Reports, IsLoppuselvitys
<1> QED BY <1>1, <1>4, <1>7, <1>8

LEMMA QuietStep ==
  ASSUME ReportInv, Untouched, UNCHANGED <<view, history>>, NEW c \in handlers, NEW d,
         \/ UNCHANGED reportPage
         \/ \E t, p : reportPage' = [reportPage EXCEPT ![t] = p] /\ TabOK(p),
         handlers' = handlers \ {c} \/ (handlers' = (handlers \ {c}) \union {d} /\ HandlerOK(d)),
         c.step \notin {"submit_status", "accepted"}, d.who = c.who, InTurn => CheckHolds(d),
         d.step \in OfAcceptance => c.step \in OfAcceptance /\ d.id = c.id,
         d.step \in {"accept", "send_selvitys"} => c.step \in {"accept", "send_selvitys"},
         d.step \in OfCompletion => c.step \in OfCompletion
  PROVE  ReportInv'
<1>1. ReportData /\ ReportData'
  BY DEF ReportInv, ReportBase, ReportData, Untouched
<1>2. ReportsGrow
  BY <1>1, UntouchedGrows
<1>3. \A e : HandlerOK(e) => HandlerOK(e)'
  BY <1>1, <1>2, HandlerStays
<1>4. \A e \in handlers' : e \in handlers \/ HandlerOK(e)'
  BY <1>3
<1>5. \/ UNCHANGED reportPage
      \/ \E t, p : reportPage' = [reportPage EXCEPT ![t] = p] /\ TabOK(p)'
  <2>1. \A p : TabOK(p) => TabOK(p)'
    BY <1>1, <1>2, TabStays
  <2> QED BY <2>1
<1>6. hakemus'.status = hakemus.status
  BY DEF Untouched
<1>7. ReportBase'
  BY <1>1, <1>2, <1>4, <1>5, <1>6, BaseStep DEF ReportInv
<1>8. handlers' \subseteq (handlers \ {c}) \union {d} /\ handlers \ {c} \subseteq handlers'
  OBVIOUS
<1>9. TurnInv'
  BY <1>8, QuietTurn DEF ReportInv
<1> QED BY <1>7, <1>9 DEF ReportInv

LEMMA RefusePreserves ==
  ASSUME ReportInv, NEW c \in handlers, c.step \notin {"submit_status", "accepted"}, Refuse(c)
  PROVE  ReportInv'
<1>1. Untouched /\ UNCHANGED <<reportPage, view, history>> /\ handlers' = handlers \ {c}
  BY DEF Refuse, Ends, Quiet, Untouched
<1>2. InTurn => CheckHolds(c)
  BY DEF ReportInv, TurnInv
<1> QED BY <1>1, <1>2, QuietStep

\* A check passed: the handler goes on to the write it checked for.
LEMMA CheckPreserves ==
  ASSUME ReportInv, NEW c \in handlers, NEW ok, NEW to, Checked(c, ok, to),
         \/ c.step = "save" /\ to = "store" /\ (ok => SelvitysUpdateable(c.id))
         \/ c.step = "submit" /\ to = "submit_hakemus" /\ (ok => VersionIsCurrent(c))
         \/ c.step = "response" /\ to = "respond" /\ (ok => selvitykset[c.id].status = "pending_change_request")
         \/ c.step = "verify" /\ to = "verified" /\ (ok => hakemus.status = "submitted")
         \/ c.step = "accept" /\ to = "send_selvitys" /\ (ok => CanSetSelvitys)
         \/ c.step = "cancel" /\ to = "cancelled"
  PROVE  ReportInv'
<1>1. c.step \notin {"submit_status", "accepted"}
  OBVIOUS
<1>2. CASE Refuse(c)
  BY <1>1, <1>2, RefusePreserves
<1>3. CASE ok /\ Goes(c, to) /\ UNCHANGED <<kind, selvitykset, hakemus, reportPage, view, emails>> /\ Quiet
  <2>1. Untouched /\ UNCHANGED <<reportPage, view, history>>
    BY <1>3 DEF Quiet, Untouched
  <2>2. HandlerOK(c)
    BY DEF ReportInv, ReportBase
  <2>3. to \in ReportSteps
    BY DEF ReportSteps, ApplicantSteps, OfficerSteps
  <2>4. PICK d : /\ d = AtStep(c, to)
                 /\ d \in [step : ReportSteps, who : Tabs \union Officers, id : Nat, base : Nat, nr : {d.nr}]
                 /\ d.step = to /\ d.who = c.who /\ d.id = c.id /\ d.base = c.base
    BY <2>2, <2>3, HandlerGoesOn
  <2>5. handlers' = (handlers \ {c}) \union {d}
    BY <1>3, <2>4 DEF Goes, AtStep
  <2>6. HandlerOK(d)
    BY <1>3, <2>2, <2>4 DEF HandlerOK, ApplicantSteps, OfficerSteps, OfReport, OfGiven, OfCompletion
  <2>7. CheckHolds(d)
    BY <1>3, <2>4 DEF CheckHolds, VersionIsCurrent
  <2>8. /\ d.step \in OfAcceptance => c.step \in OfAcceptance /\ d.id = c.id
        /\ d.step \in {"accept", "send_selvitys"} => c.step \in {"accept", "send_selvitys"}
        /\ d.step \in OfCompletion => c.step \in OfCompletion
    BY <2>4 DEF OfAcceptance, OfCompletion
  <2> QED BY <1>1, <2>1, <2>4, <2>5, <2>6, <2>7, <2>8, QuietStep
<1> QED BY <1>2, <1>3 DEF Checked

\* A new request: it is of someone, based on what they see, and nothing is checked yet.
NewHandler(what, who, i, base) ==
  [step |-> what, who |-> who, id |-> i, base |-> base,
   nr |-> CHOOSE n \in 0..MaxCalls : \A c \in handlers : c.nr # n]

LEMMA SendPreserves ==
  ASSUME ReportInv, NEW what \in Unchecked, NEW who, NEW i, NEW base, Send(what, who, i, base),
         NEW d, d = NewHandler(what, who, i, base), HandlerOK(d),
         what \in OfAcceptance =>
           /\ view[who].id = i /\ who \in Officers
           /\ IsLoppuselvitys => view[who].report = "submitted"
           /\ ~IsLoppuselvitys => ~view[who].emailed,
         what \in OfCompletion => who \in Officers /\ view[who].status \in {"submitted", "information_verified"}
  PROVE  ReportInv'
<1>1. /\ history.calls < MaxCalls /\ handlers' = handlers \union {d}
      /\ UNCHANGED <<kind, selvitykset, hakemus, reportPage, view, emails>>
  BY DEF Send, NewHandler
<1>2. ReportData /\ Untouched
  BY <1>1 DEF ReportInv, ReportBase, Untouched
<1> DEFINE late == IF who \in Officers /\ ~UpToDate(who) THEN {"stale"} ELSE {}
           busy == IF who \in Officers /\ \E c \in handlers : c.who \in Officers THEN {"meanwhile"} ELSE {}
<1>3. history' = [calls |-> history.calls + 1, events |-> history.events \union late \union busy]
  BY DEF Send
<1>4. late \in SUBSET {"stale"} /\ busy \in SUBSET {"meanwhile"}
  OBVIOUS
<1>5. /\ who \in Officers /\ "stale" \notin late => UpToDate(who)
      /\ who \in Officers /\ "meanwhile" \notin busy => \A c \in handlers : c.who \notin Officers
  OBVIOUS
<1> HIDE DEF late, busy
<1>6. /\ history'.events = history.events \union late \union busy
      /\ history' \in [calls : 0..MaxCalls, events : SUBSET Events]
  <2>1. history.calls \in Nat /\ history.calls + 1 \in 0..MaxCalls
    BY <1>1, <1>2, CallsAssumption DEF ReportData
  <2>2. history.events \subseteq Events
    BY <1>2 DEF ReportData
  <2>3. history.events \union late \union busy \in SUBSET Events
    BY <1>4, <2>2 DEF Events
  <2> QED BY <1>3, <2>1, <2>3
<1>7. /\ "crossed" \in history'.events <=> "crossed" \in history.events
      /\ "failure" \in history'.events <=> "failure" \in history.events
      /\ OfficersInTurn' => OfficersInTurn /\ "stale" \notin late /\ "meanwhile" \notin busy
  BY <1>4, <1>6 DEF OfficersInTurn
<1>8. ReportData'
  BY <1>2, <1>6 DEF ReportData, Untouched
<1>9. ReportsGrow
  BY <1>2, UntouchedGrows
<1>10. HandlerOK(d)'
  BY <1>2, <1>8, <1>9, HandlerStays
<1>11. ReportBase'
  BY <1>1, <1>8, <1>9, <1>10, <1>2, BaseStep DEF ReportInv, Untouched
<1>12. TurnInv'
  <2> SUFFICES ASSUME InTurn'
               PROVE  /\ \A e \in handlers' : CheckHolds(e)'
                      /\ HakemusAgrees'
                      /\ OfficersInTurn' => OfficersAgree'
    BY DEF TurnInv
  <2>1. InTurn /\ d.step = what /\ d.who = who /\ d.id = i
    BY <1>7 DEF InTurn, NewHandler
  <2>2. \A e \in handlers : CheckHolds(e)
    BY <2>1 DEF ReportInv, TurnInv
  <2>3. \A e \in handlers' : CheckHolds(e)
    BY <1>1, <2>1, <2>2 DEF CheckHolds, Unchecked
  <2>4. \A e : CheckHolds(e) => CheckHolds(e)'
    BY <1>2 DEF CheckHolds, Untouched, Reports, SelvitysUpdateable, IsLoppuselvitys, VersionIsCurrent, CanSetSelvitys
  <2>5. \A e \in handlers' : CheckHolds(e)'
    BY <2>3, <2>4
  <2>6. HakemusAgrees
    BY <2>1 DEF ReportInv, TurnInv
  <2>7. HakemusAgrees'
    BY <1>1, <1>7, <2>6 DEF HakemusAgrees, Reports, Given, IsLoppuselvitys
  <2>8. ASSUME OfficersInTurn'
        PROVE  OfficersAgree'
    <3>1. OfficersAgree
      BY <1>7, <2>1, <2>8 DEF ReportInv, TurnInv
    <3>2. who \in Officers => UpToDate(who) /\ \A c \in handlers : c.who \notin Officers
      BY <1>5, <1>7, <2>8
    <3>3. \A e, f \in handlers' : e.who \in Officers /\ f.who \in Officers => e = f
      BY <1>1, <2>1, <3>1, <3>2 DEF OfficersAgree, OneOfficer, MailsAgree, AcceptanceAgrees
    <3>4. what \in OfAcceptance => i \in Reports /\ Seen(i) = view[who]
      <4> SUFFICES ASSUME what \in OfAcceptance
                   PROVE  i \in Reports /\ Seen(i) = view[who]
        OBVIOUS
      <4>1. PICK j \in Visible : view[who] = Seen(j)
        BY <3>2 DEF UpToDate
      <4>2. view[who].id = j
        BY <4>1 DEF Seen
      <4>3. d.step \in OfReport
        BY <2>1 DEF OfAcceptance, OfReport
      <4> QED BY <2>1, <4>1, <4>2, <4>3 DEF HandlerOK
    <3>5. Reports \subseteq Nat \ {NoReport}
      BY <1>2 DEF ReportData, Reports, NoReport
    <3>6. what \in OfAcceptance => /\ IsLoppuselvitys => selvitykset[i].status = "submitted"
                                   /\ ~IsLoppuselvitys => ~selvitykset[i].emailed
      <4> SUFFICES ASSUME what \in OfAcceptance
                   PROVE  /\ IsLoppuselvitys => selvitykset[i].status = "submitted"
                          /\ ~IsLoppuselvitys => ~selvitykset[i].emailed
        OBVIOUS
      <4>1. i # NoReport
        BY <3>4, <3>5
      <4>2. Seen(i).report = selvitykset[i].status /\ Seen(i).emailed = selvitykset[i].emailed
        BY <4>1 DEF Seen
      <4> QED BY <3>4, <4>2
    <3>7. ~IsLoppuselvitys => \A e \in handlers' : e.step \in {"accept", "send_selvitys"} => ~selvitykset[e.id].emailed
      BY <1>1, <2>1, <3>1, <3>6 DEF OfficersAgree, OneOfficer, MailsAgree, AcceptanceAgrees, OfAcceptance
    <3>8. IsLoppuselvitys => \A e \in handlers' : e.step \in OfAcceptance => selvitykset[e.id].status = "submitted"
      BY <1>1, <2>1, <3>1, <3>6 DEF OfficersAgree, OneOfficer, MailsAgree, AcceptanceAgrees
    <3>9. what \in OfCompletion => hakemus.status # "accepted"
      <4> SUFFICES ASSUME what \in OfCompletion
                   PROVE  hakemus.status # "accepted"
        OBVIOUS
      <4>1. PICK j \in Visible : view[who] = Seen(j)
        BY <3>2 DEF UpToDate
      <4> QED BY <4>1 DEF Seen
    <3>10. IsLoppuselvitys => \A e \in handlers' : e.step \in OfCompletion => hakemus.status # "accepted"
      BY <1>1, <2>1, <3>1, <3>9 DEF OfficersAgree, OneOfficer, MailsAgree, AcceptanceAgrees
    <3> QED BY <1>1, <3>1, <3>3, <3>7, <3>8, <3>10 DEF OfficersAgree, OneOfficer, MailsAgree, AcceptanceAgrees, Reports, IsLoppuselvitys
  <2> QED BY <2>5, <2>7, <2>8
<1> QED BY <1>11, <1>12 DEF ReportInv

LEMMA NewHandlerTyped ==
  ASSUME NEW what \in Unchecked, NEW who \in Tabs \union Officers, NEW i \in Nat, NEW base \in Nat
  PROVE  LET d == NewHandler(what, who, i, base)
         IN  /\ d \in [step : ReportSteps, who : Tabs \union Officers, id : Nat, base : Nat, nr : {d.nr}]
             /\ d.step = what /\ d.who = who /\ d.id = i /\ d.base = base
BY DEF NewHandler, Unchecked, ReportSteps, ApplicantSteps, OfficerSteps

\* What a tab or an officer sends.
LEMMA TabSends ==
  ASSUME ReportInv, NEW t \in Tabs, RedirectToNewSelvitys(t) \/ Autosave(t) \/ Submit(t)
  PROVE  ReportInv'
<1>1. PICK p : p = reportPage[t] /\ TabOK(p)
  BY DEF ReportInv, ReportBase
<1>2. p.id \in Nat /\ p.version \in Nat
  BY <1>1 DEF TabOK, Shown
<1>3. CASE RedirectToNewSelvitys(t)
  <2>1. PICK d : d = NewHandler("init", t, NoReport, 0)
    OBVIOUS
  <2>2. HandlerOK(d)
    BY <2>1, NewHandlerTyped DEF HandlerOK, Unchecked, NoReport, ApplicantSteps, OfficerSteps, OfReport, OfGiven, OfCompletion
  <2> QED BY <1>3, <2>1, <2>2, SendPreserves DEF RedirectToNewSelvitys, Unchecked, OfAcceptance, OfCompletion
<1>4. ASSUME NEW what \in {"save", "submit", "response"}, Send(what, t, p.id, p.version),
             p.id # NoReport, what = "submit" => p.status = "draft"
      PROVE  ReportInv'
  <2>1. PICK d : d = NewHandler(what, t, p.id, p.version)
    OBVIOUS
  <2>2. what \in Unchecked /\ what \notin OfAcceptance /\ what \notin OfCompletion
    BY DEF Unchecked, OfAcceptance, OfCompletion
  <2>3. /\ d \in [step : ReportSteps, who : Tabs \union Officers, id : Nat, base : Nat, nr : {d.nr}]
        /\ d.step = what /\ d.who = t /\ d.id = p.id /\ d.base = p.version
    BY <1>2, <2>1, <2>2, NewHandlerTyped
  <2>4. HandlerOK(d)
    BY <1>1, <1>4, <2>3 DEF HandlerOK, TabOK, ApplicantSteps, OfficerSteps, OfReport, OfGiven, OfCompletion
  <2> QED BY <1>4, <2>1, <2>2, <2>4, SendPreserves
<1>5. CASE Autosave(t)
  BY <1>1, <1>4, <1>5 DEF Autosave
<1>6. CASE Submit(t)
  <2>1. p.status \in ReportStatuses
    BY <1>1 DEF TabOK, Shown
  <2>2. PICK what : what = SubmitEntityApiUrl(t)
    OBVIOUS
  <2>3. what \in {"save", "submit", "response"} /\ (what = "submit" => p.status = "draft")
    BY <1>1, <1>6, <2>1, <2>2 DEF Submit, SubmitEntityApiUrl, ReportStatuses
  <2> QED BY <1>1, <1>4, <1>6, <2>2, <2>3 DEF Submit
<1> QED BY <1>3, <1>5, <1>6

LEMMA OfficerSends ==
  ASSUME ReportInv, NEW o \in Officers,
         Asiatarkastus(o) \/ Taloustarkastus(o) \/ ValiselvitysEmail(o) \/ LoppuselvitysTarkastus(o)
  PROVE  ReportInv'
<1>1. PICK v : v = view[o] /\ ViewOK(v)
  BY DEF ReportInv, ReportBase
<1>2. v.id \in Nat
  BY <1>1 DEF ViewOK, Glimpse
<1>3. \A i \in Reports : selvitykset[i].version \in Nat
  BY VersionsAreNat DEF ReportInv, ReportBase, ReportData, Reports
<1>4. ASSUME NEW what \in {"verify", "accept", "request", "cancel"}, Send(what, o, v.id, 0),
             what = "accept" => /\ v.id # NoReport
                                /\ IsLoppuselvitys => v.report = "submitted"
                                /\ ~IsLoppuselvitys => ~v.emailed,
             what \in OfCompletion => v.status \in {"submitted", "information_verified"}
      PROVE  ReportInv'
  <2>1. PICK d : d = NewHandler(what, o, v.id, 0)
    OBVIOUS
  <2>2. what \in Unchecked /\ (what \in OfAcceptance => what = "accept")
    BY DEF Unchecked, OfAcceptance
  <2>3. /\ d \in [step : ReportSteps, who : Tabs \union Officers, id : Nat, base : Nat, nr : {d.nr}]
        /\ d.step = what /\ d.who = o /\ d.id = v.id /\ d.base = 0
    BY <1>2, <2>1, <2>2, NewHandlerTyped
  <2>4. d.id \in Reports \union {NoReport}
    BY <1>1, <2>3 DEF ViewOK
  <2>5. d.step \in OfReport \/ d.step \in OfGiven => d.step = "accept"
    BY <2>3 DEF OfReport, OfGiven
  <2>6. d.step = "accept" => Given(d.id) /\ d.id \in Reports /\ d.base <= selvitykset[d.id].version
    BY <1>1, <1>3, <1>4, <2>3 DEF ViewOK, Given
  <2>7. d.step \in OfCompletion => hakemus.status # "missing"
    BY <1>1, <1>4, <2>3 DEF ViewOK
  <2>8. d.step \notin ApplicantSteps /\ d.step \in OfficerSteps /\ d.step \notin {"submit", "submit_hakemus"}
    BY <2>3 DEF ApplicantSteps, OfficerSteps
  <2>9. HandlerOK(d)
    BY <2>3, <2>4, <2>5, <2>6, <2>7, <2>8 DEF HandlerOK
  <2> QED BY <1>1, <1>4, <2>1, <2>2, <2>9, SendPreserves
<1>5. v.report = "submitted" => v.id # NoReport
  BY <1>1 DEF ViewOK
<1>6. "verify" \notin OfCompletion /\ "accept" \notin OfCompletion
  BY DEF OfCompletion
<1>7. CASE Asiatarkastus(o)
  BY <1>1, <1>4, <1>6, <1>7 DEF Asiatarkastus
<1>8. CASE Taloustarkastus(o)
  BY <1>1, <1>4, <1>5, <1>6, <1>8 DEF Taloustarkastus
<1>9. CASE ValiselvitysEmail(o)
  BY <1>1, <1>4, <1>6, <1>9 DEF ValiselvitysEmail
<1>10. CASE LoppuselvitysTarkastus(o)
  BY <1>1, <1>4, <1>10 DEF LoppuselvitysTarkastus
<1> QED BY <1>7, <1>8, <1>9, <1>10

-----------------------------------------------------------------------------
(* Pages that load                                                           *)

\* What is loaded of a report is what there is.
LEMMA LoadedIsRight ==
  ASSUME ReportData, NEW i \in Reports, NEW updatable \in BOOLEAN
  PROVE  TabOK(ShownReport(i, updatable))
<1>1. selvitykset[i] \in Report /\ selvitykset[i].version \in Nat /\ i \in Nat
  BY VersionsAreNat DEF ReportData, Reports
<1>2. selvitykset[i].status \in ReportStatuses
  BY <1>1 DEF Report
<1> QED BY <1>1, <1>2 DEF TabOK, ShownReport, Shown

LEMMA SeenIsRight ==
  ASSUME ReportBase, NEW i \in Visible
  PROVE  ViewOK(Seen(i))
<1>1. CASE i \in Reports /\ selvitykset[i].status # "draft"
  <2>1. selvitykset[i] \in Report /\ i \in Nat /\ i # NoReport
    BY <1>1, VersionsAreNat DEF ReportBase, ReportData, Reports, NoReport
  <2>2. selvitykset[i].status \in ReportStatuses /\ selvitykset[i].emailed \in BOOLEAN
    BY <2>1 DEF Report
  <2>3. hakemus.status \in Stages /\ hakemus.verified \in BOOLEAN
    BY DEF ReportBase, ReportData
  <2> QED BY <1>1, <2>1, <2>2, <2>3 DEF ViewOK, Seen, Glimpse, Given
<1>2. CASE i = NoReport
  <2>1. hakemus.status \in Stages /\ hakemus.verified \in BOOLEAN
    BY DEF ReportBase, ReportData
  <2> QED BY <1>2, <2>1 DEF ViewOK, Seen, Glimpse, NoReport, ReportStatuses
<1> QED BY <1>1, <1>2 DEF Visible

LEMMA PagesLoad ==
  ASSUME ReportInv, UNCHANGED <<kind, selvitykset, hakemus, handlers, emails, history>>,
         \/ UNCHANGED reportPage
         \/ \E t, p : reportPage' = [reportPage EXCEPT ![t] = p] /\ TabOK(p),
         \/ UNCHANGED view
         \/ \E o, v : view' = [view EXCEPT ![o] = v] /\ ViewOK(v)
  PROVE  ReportInv'
<1>1. ReportData /\ ReportData' /\ Untouched
  BY DEF ReportInv, ReportBase, ReportData, Untouched
<1>2. ReportsGrow
  BY <1>1, UntouchedGrows
<1>3. \A p : TabOK(p) => TabOK(p)'
  BY <1>1, <1>2, TabStays
<1>4. \A v : ViewOK(v) => ViewOK(v)'
  BY <1>2, ViewStays
<1>5. hakemus'.status = hakemus.status
  OBVIOUS
<1>6. ReportBase'
  BY <1>1, <1>2, <1>3, <1>4, <1>5, BaseStep DEF ReportInv
<1>7. TurnInv'
  BY DEF ReportInv, TurnInv, InTurn, OfficersInTurn, CheckHolds, HakemusAgrees, OfficersAgree, OneOfficer, MailsAgree, AcceptanceAgrees, Reports,
         Given, SelvitysUpdateable, IsLoppuselvitys, VersionIsCurrent, CanSetSelvitys
<1> QED BY <1>6, <1>7 DEF ReportInv

LEMMA UpdateableIsBoolean ==
  ASSUME ReportData, NEW i
  PROVE  SelvitysUpdateable(i) \in BOOLEAN
BY DEF SelvitysUpdateable

LEMMA LoadingPreserves ==
  ASSUME ReportInv, \/ \E t \in Tabs : SelvitysApp(t)
                    \/ \E o \in Officers : LoppuselvitysTab(o)
  PROVE  ReportInv'
<1>1. ReportBase /\ ReportData
  BY DEF ReportInv, ReportBase
<1>2. ASSUME NEW t \in Tabs, SelvitysApp(t)
      PROVE  ReportInv'
  <2>1. PICK i : i = reportPage[t].id
    OBVIOUS
  <2>2. i \in Reports
    BY <1>1, <1>2, <2>1 DEF ReportBase, TabOK, SelvitysApp
  <2>3. PICK p : p = ShownReport(i, SelvitysUpdateable(i))
    OBVIOUS
  <2>4. TabOK(p)
    BY <1>1, <2>2, <2>3, LoadedIsRight, UpdateableIsBoolean
  <2>5. reportPage' = [reportPage EXCEPT ![t] = p]
    BY <1>1, <1>2, <2>1, <2>3 DEF SelvitysApp, ReportBase
  <2> QED BY <1>2, <2>4, <2>5, PagesLoad DEF SelvitysApp
<1>3. ASSUME NEW o \in Officers, LoppuselvitysTab(o)
      PROVE  ReportInv'
  <2>1. PICK i \in Visible : view' = [view EXCEPT ![o] = Seen(i)]
    BY <1>3 DEF LoppuselvitysTab
  <2>2. ViewOK(Seen(i))
    BY <1>1, SeenIsRight
  <2> QED BY <1>3, <2>1, <2>2, PagesLoad DEF LoppuselvitysTab
<1> QED BY <1>2, <1>3

-----------------------------------------------------------------------------
(* Handlers that read                                                        *)

\* A handler that has found a report and goes on to redirect to it.
Redirected(c, i) == [c EXCEPT !.step = "redirect", !.id = i]

LEMMA RedirectedShape ==
  ASSUME NEW c, HandlerOK(c), c.step \in {"init", "create"}, NEW i \in Nat
  PROVE  /\ Redirected(c, i) \in [step : ReportSteps, who : Tabs \union Officers, id : Nat, base : Nat,
                                  nr : {Redirected(c, i).nr}]
         /\ Redirected(c, i).step = "redirect" /\ Redirected(c, i).who = c.who /\ c.who \in Tabs
         /\ Redirected(c, i).base = 0 /\ Redirected(c, i).id = i
<1>1. c = [step |-> c.step, who |-> c.who, id |-> c.id, base |-> c.base, nr |-> c.nr] /\ c.base = 0
  BY DEF HandlerOK
<1>2. PICK d : d = [step |-> "redirect", who |-> c.who, id |-> i, base |-> 0, nr |-> c.nr]
  OBVIOUS
<1>3. Redirected(c, i) = d
  <2>1. PICK e : e = [c EXCEPT !.step = "redirect"]
    OBVIOUS
  <2>2. e = [step |-> "redirect", who |-> c.who, id |-> c.id, base |-> c.base, nr |-> c.nr]
    BY <1>1, <2>1
  <2>3. [e EXCEPT !.id = i] = [step |-> "redirect", who |-> c.who, id |-> i, base |-> c.base, nr |-> c.nr]
    BY ONLY <2>2
  <2>4. Redirected(c, i) = [e EXCEPT !.id = i]
    BY ONLY <2>1 DEF Redirected
  <2> QED BY <1>1, <1>2, <2>3, <2>4
<1>4. c.who \in Tabs /\ "redirect" \in ReportSteps
  BY DEF HandlerOK, ApplicantSteps, ReportSteps
<1> QED BY <1>2, <1>3, <1>4

LEMMA RedirectedOK ==
  ASSUME ReportData, NEW d, NEW i \in Reports,
         d \in [step : ReportSteps, who : Tabs \union Officers, id : Nat, base : Nat, nr : {d.nr}],
         d.step = "redirect", d.who \in Tabs, d.base = 0, d.id = i
  PROVE  HandlerOK(d)
<1>1. selvitykset[i].version \in Nat
  BY VersionsAreNat DEF ReportData, Reports
<1> QED BY <1>1 DEF HandlerOK, OfficerSteps, OfGiven, OfCompletion

LEMMA ReadingPreserves ==
  ASSUME ReportInv, NEW c \in handlers,
         \/ c.step = "init" /\ GetSelvitysInit(c)
         \/ c.step = "redirect" /\ GetSelvitysInit(c)
  PROVE  ReportInv'
<1>1. ReportBase /\ ReportData /\ HandlerOK(c)
  BY DEF ReportInv, ReportBase
<1>2. CASE Reports = {} /\ Goes(c, "create") /\ UNCHANGED <<kind, selvitykset, hakemus, reportPage, view, emails>>
           /\ Quiet /\ c.step = "init"
  <2>1. PICK d : /\ d = AtStep(c, "create")
                 /\ d \in [step : ReportSteps, who : Tabs \union Officers, id : Nat, base : Nat, nr : {d.nr}]
                 /\ d.step = "create" /\ d.who = c.who /\ d.id = c.id /\ d.base = c.base
    BY <1>1, HandlerGoesOn DEF ReportSteps, ApplicantSteps
  <2>2. handlers' = (handlers \ {c}) \union {d}
    BY <1>2, <2>1 DEF Goes, AtStep
  <2>3. HandlerOK(d)
    BY <1>1, <1>2, <2>1 DEF HandlerOK, ApplicantSteps, OfficerSteps, OfReport, OfGiven, OfCompletion
  <2>4. CheckHolds(d) /\ d.step \notin OfAcceptance /\ d.step \notin OfCompletion
    BY <1>2, <2>1 DEF CheckHolds, OfAcceptance, OfCompletion
  <2>5. Untouched /\ UNCHANGED <<reportPage, view, history>>
    BY <1>2 DEF Untouched, Quiet
  <2> QED BY <1>2, <2>1, <2>2, <2>3, <2>4, <2>5, QuietStep
<1>3. CASE \E i \in Reports : /\ handlers' = (handlers \ {c}) \union {[c EXCEPT !.step = "redirect", !.id = i]}
                              /\ UNCHANGED <<kind, selvitykset, hakemus, reportPage, view, emails>>
                              /\ Quiet /\ c.step = "init"
  <2>1. PICK i \in Reports : handlers' = (handlers \ {c}) \union {Redirected(c, i)}
    BY <1>3 DEF Redirected
  <2>2. PICK d : /\ d = Redirected(c, i) /\ d.step = "redirect" /\ d.who = c.who
                 /\ d \in [step : ReportSteps, who : Tabs \union Officers, id : Nat, base : Nat, nr : {d.nr}]
                 /\ d.who \in Tabs /\ d.base = 0 /\ d.id = i
    BY <1>1, <1>3, RedirectedShape DEF ReportData, Reports
  <2>3. HandlerOK(d)
    BY <1>1, <2>2, RedirectedOK
  <2>4. CheckHolds(d) /\ d.step \notin OfAcceptance /\ d.step \notin OfCompletion
    BY <2>2 DEF CheckHolds, OfAcceptance, OfCompletion
  <2>5. Untouched /\ UNCHANGED <<reportPage, view, history>>
    BY <1>3 DEF Untouched, Quiet
  <2> QED BY <1>3, <2>1, <2>2, <2>3, <2>4, <2>5, QuietStep
<1>4. CASE /\ c.step = "redirect" /\ Ends(c)
           /\ reportPage' = [reportPage EXCEPT ![c.who] = ShownReport(c.id, SelvitysUpdateable(c.id))]
           /\ UNCHANGED <<kind, selvitykset, hakemus, view, emails>> /\ Quiet
  <2>1. c.id \in Reports
    BY <1>1, <1>4 DEF HandlerOK, OfReport
  <2>2. TabOK(ShownReport(c.id, SelvitysUpdateable(c.id)))
    BY <1>1, <2>1, LoadedIsRight, UpdateableIsBoolean
  <2>3. Untouched /\ UNCHANGED <<view, history>> /\ handlers' = handlers \ {c}
    BY <1>4 DEF Untouched, Quiet, Ends
  <2>4. InTurn => CheckHolds(c)
    BY DEF ReportInv, TurnInv
  <2> QED BY <1>4, <2>2, <2>3, <2>4, QuietStep
<1> QED BY <1>2, <1>3, <1>4 DEF GetSelvitysInit

-----------------------------------------------------------------------------
(* Handlers that write                                                       *)

\* A report that gets a version, and none becomes a draft.
LEMMA MovesGrow ==
  ASSUME ReportData, NEW i \in Reports, NEW s, Moves(i, s),
         s = "draft" => selvitykset[i].status = "draft",
         hakemus.status # "missing" => hakemus'.status # "missing"
  PROVE  ReportsGrow /\ Reports' = Reports
<1>1. \A j \in Reports : selvitykset[j].version \in Nat
  BY VersionsAreNat DEF ReportData, Reports
<1>2. Reports' = Reports
  BY DEF Moves, Reports, ReportData
<1> QED BY <1>1, <1>2 DEF ReportsGrow, Moves, Given

\* What is known when a handler writes and has crossed none.
LEMMA WriteStarts ==
  ASSUME ReportInv, NEW c \in handlers, Writes(c), InTurn'
  PROVE  /\ InTurn /\ CheckHolds(c) /\ HakemusAgrees
         /\ \A e \in handlers \ {c} : e.step \in Unchecked \union {"redirect"}
         /\ OfficersInTurn' <=> OfficersInTurn
         /\ OfficersInTurn => OfficersAgree
         /\ "failure" \in history'.events <=> "failure" \in history.events
<1>1. ReportData
  BY DEF ReportInv, ReportBase
<1>2. /\ \A e \in Events \ {"crossed"} : e \in history'.events <=> e \in history.events
      /\ InTurn /\ \A e \in handlers \ {c} : e.step \in Unchecked \union {"redirect"}
  BY <1>1, WritesAlone
<1>3. OfficersInTurn' <=> OfficersInTurn
  BY <1>2 DEF OfficersInTurn, Events
<1> QED BY <1>2, <1>3 DEF ReportInv, TurnInv, Events

LEMMA WriteTurn ==
  ASSUME ReportInv, NEW c \in handlers, Writes(c), NEW d,
         handlers' \subseteq (handlers \ {c}) \union {d}, d.who = c.who,
         InTurn' => /\ d \in handlers' => CheckHolds(d)'
                    /\ HakemusAgrees' /\ (OfficersInTurn' => MailsAgree' /\ AcceptanceAgrees')
  PROVE  TurnInv'
<1> SUFFICES ASSUME InTurn'
             PROVE  /\ \A e \in handlers' : CheckHolds(e)'
                    /\ OfficersInTurn' => OneOfficer'
  BY DEF TurnInv, OfficersAgree
<1>1. \A e \in handlers \ {c} : e.step \in Unchecked \union {"redirect"}
  BY WriteStarts
<1>2. \A e : e.step \in Unchecked \union {"redirect"} => CheckHolds(e)'
  BY DEF Unchecked, CheckHolds
<1>3. OfficersInTurn' => OneOfficer
  BY WriteStarts DEF OfficersAgree
<1> QED BY <1>1, <1>2, <1>3 DEF OneOfficer

\* A step that writes, its base: the pieces of BaseStep with the handlers of a write.
LEMMA WriteBase ==
  ASSUME ReportInv, NEW c \in handlers, Writes(c), ReportsGrow,
         kind' = kind, selvitykset' \in Seq(Report), emails' \in Nat,
         hakemus' \in [status : Stages, verified : BOOLEAN],
         NEW d, handlers' = handlers \ {c} \/ (handlers' = (handlers \ {c}) \union {d} /\ HandlerOK(d)'),
         \/ UNCHANGED reportPage
         \/ \E t, p : reportPage' = [reportPage EXCEPT ![t] = p] /\ TabOK(p)',
         \/ UNCHANGED view
         \/ \E o, v : view' = [view EXCEPT ![o] = v] /\ ViewOK(v)',
         hakemus.status = "missing" /\ hakemus'.status # "missing" => \E i \in Reports' : Given(i)'
  PROVE  ReportBase' /\ ReportData'
<1>1. ReportData
  BY DEF ReportInv, ReportBase
<1>2. history' \in [calls : 0..MaxCalls, events : SUBSET Events]
  BY <1>1, WritesAlone
<1>3. ReportData'
  BY <1>1, <1>2 DEF ReportData
<1>4. \A e \in handlers' : e \in handlers \/ HandlerOK(e)'
  OBVIOUS
<1> QED BY <1>3, <1>4, BaseStep DEF ReportInv

\* A handler that failed.
LEMMA FailurePreserves ==
  ASSUME ReportInv, NEW c \in handlers, HandlerFails(c)
  PROVE  ReportInv'
<1>1. /\ handlers' = handlers \ {c} /\ UNCHANGED <<reportPage, view>> /\ Untouched
      /\ history' = [history EXCEPT !.events = @ \union {"failure"}]
  BY DEF HandlerFails, Ends, Happens, Untouched
<1>2. ReportData
  BY DEF ReportInv, ReportBase
<1>3. /\ history' \in [calls : 0..MaxCalls, events : SUBSET Events]
      /\ "failure" \in history'.events
      /\ \A e \in Events \ {"failure"} : e \in history'.events <=> e \in history.events
  BY <1>1, <1>2 DEF ReportData, Events
<1>4. ReportData'
  BY <1>1, <1>2, <1>3 DEF ReportData, Untouched
<1>5. ReportsGrow
  BY <1>1, <1>2, UntouchedGrows
<1>6. ReportBase'
  BY <1>1, <1>4, <1>5, BaseStep DEF ReportInv, Untouched
<1>7. InTurn' <=> InTurn
  BY <1>3 DEF InTurn, Events
<1>8. OfficersInTurn' <=> OfficersInTurn
  BY <1>3 DEF OfficersInTurn, Events
<1>9. ASSUME InTurn'
      PROVE  /\ \A e \in handlers' : CheckHolds(e)'
             /\ HakemusAgrees'
             /\ OfficersInTurn' => OfficersAgree'
  <2>1. InTurn /\ (\A e \in handlers : CheckHolds(e)) /\ HakemusAgrees /\ (OfficersInTurn => OfficersAgree)
    BY <1>7, <1>9 DEF ReportInv, TurnInv
  <2>2. \A e : CheckHolds(e) => CheckHolds(e)'
    BY <1>1 DEF CheckHolds, Untouched, Reports, SelvitysUpdateable, IsLoppuselvitys, VersionIsCurrent, CanSetSelvitys
  <2>3. HakemusAgrees'
    BY <1>1, <1>3, <2>1 DEF HakemusAgrees, Untouched, IsLoppuselvitys
  <2>4. OfficersAgree => OfficersAgree'
    BY <1>1 DEF OfficersAgree, OneOfficer, MailsAgree, AcceptanceAgrees, Untouched, Reports, IsLoppuselvitys
  <2> QED BY <1>1, <1>8, <2>1, <2>2, <2>3, <2>4
<1> QED BY <1>6, <1>9 DEF ReportInv, TurnInv

LEMMA CreatePreserves ==
  ASSUME ReportInv, NEW c \in handlers, c.step = "create", CreateSelvitys(c)
  PROVE  ReportInv'
<1>1. ReportBase /\ ReportData /\ HandlerOK(c)
  BY DEF ReportInv, ReportBase
<1> DEFINE r == [status |-> "draft", version |-> 1, answers |-> 0, emailed |-> FALSE, own |-> "missing"]
<1>2. r \in Report /\ r.status = "draft"
  BY DEF Report, ReportStatuses
<1> HIDE DEF r
<1>3. PICK n \in Nat : n = Len(selvitykset) + 1
  BY <1>1 DEF ReportData
<1>4. selvitykset' = Append(selvitykset, r) /\ Writes(c)
      /\ UNCHANGED <<kind, hakemus, reportPage, view, emails>>
  BY DEF CreateSelvitys, r
<1>5. /\ selvitykset' \in Seq(Report) /\ Len(selvitykset') = n
      /\ Reports' = 1..n /\ Reports = 1..(n - 1)
      /\ \A i \in Reports : selvitykset'[i] = selvitykset[i]
      /\ selvitykset'[n] = r
  BY <1>1, <1>2, <1>3, <1>4 DEF ReportData, Reports
<1>6. ReportsGrow
  <2>1. \A i \in Reports : selvitykset[i].version \in Nat
    BY <1>1, VersionsAreNat DEF ReportData, Reports
  <2> QED BY <1>3, <1>4, <1>5, <2>1 DEF ReportsGrow, Given
<1>7. handlers' = (handlers \ {c}) \union {Redirected(c, n)}
  BY <1>3 DEF CreateSelvitys, Redirected
<1>8. ReportData'
  BY <1>1, <1>4, <1>5, WritesAlone DEF ReportData
<1>9. PICK d : /\ d = Redirected(c, n) /\ d.step = "redirect" /\ d.who = c.who
               /\ d \in [step : ReportSteps, who : Tabs \union Officers, id : Nat, base : Nat, nr : {d.nr}]
               /\ d.who \in Tabs /\ d.base = 0 /\ d.id = n
  BY <1>1, RedirectedShape
<1>10. HandlerOK(d)' /\ d = Redirected(c, n) /\ d.step = "redirect" /\ d.who = c.who
  <2>1. selvitykset'[n].version \in Nat
    BY <1>3, <1>5, <1>8, VersionsAreNat DEF ReportData, Reports
  <2> QED BY <1>3, <1>5, <1>9, <2>1 DEF HandlerOK, OfficerSteps, OfGiven, OfCompletion
<1>11. ReportBase'
  BY <1>1, <1>4, <1>5, <1>6, <1>7, <1>10, WriteBase DEF ReportData
<1>12. ASSUME InTurn'
       PROVE  HakemusAgrees' /\ (OfficersInTurn' => MailsAgree' /\ AcceptanceAgrees')
  <2>1. Reports = {} /\ HakemusAgrees /\ (OfficersInTurn' => OfficersAgree)
        /\ ("failure" \in history'.events <=> "failure" \in history.events)
    BY <1>4, <1>12, WriteStarts DEF CheckHolds
  <2>2. hakemus.status = "missing" /\ n = 1
    BY <1>1, <1>3, <1>5, <2>1 DEF ReportBase
  <2>3. HakemusAgrees'
    BY <1>2, <1>4, <1>5, <2>1, <2>2, <1>7, <1>10 DEF HakemusAgrees, Given, IsLoppuselvitys
  <2>4. \A e \in handlers' : e.step \notin OfAcceptance
    BY <1>1, <1>7, <1>10, <2>1 DEF ReportBase, HandlerOK, OfAcceptance, OfReport
  <2>5. OfficersInTurn' => MailsAgree' /\ AcceptanceAgrees'
    BY <1>4, <1>7, <1>10, <2>1, <2>2, <2>4 DEF OfficersAgree, MailsAgree, AcceptanceAgrees, OfAcceptance, OfCompletion, IsLoppuselvitys
  <2> QED BY <2>3, <2>5
<1>13. TurnInv'
  <2>1. CheckHolds(d)'
    BY <1>10 DEF CheckHolds
  <2> QED BY <1>4, <1>7, <1>10, <1>12, <2>1, WriteTurn
<1> QED BY <1>11, <1>13 DEF ReportInv

\* Answers saved, and given to the tab that saved them.
LEMMA StorePreserves ==
  ASSUME ReportInv, NEW c \in handlers, c.step = "store", OnSelvitysUpdate(c)
  PROVE  ReportInv'
<1>1. ReportBase /\ ReportData /\ HandlerOK(c) /\ c.id \in Reports
  BY DEF ReportInv, ReportBase, HandlerOK, OfReport
<1>2. /\ handlers' = handlers \ {c} /\ Writes(c) /\ UNCHANGED <<kind, hakemus, view, emails>>
      /\ StoreAnswers(c, selvitykset[c.id].status)
      /\ reportPage' = [reportPage EXCEPT ![c.who] =
                     [id |-> c.id, version |-> selvitykset'[c.id].version,
                      status |-> selvitykset'[c.id].status, updatable |-> TRUE]]
  BY DEF OnSelvitysUpdate, Ends
<1>3. PICK i \in Reports, s \in ReportStatuses : i = c.id /\ s = selvitykset[i].status
  <2>1. selvitykset[c.id] \in Report
    BY <1>1, VersionsAreNat DEF ReportData, Reports
  <2> QED BY <1>1, <2>1 DEF Report
<1>4. Moves(i, s)
  BY <1>1, <1>2, <1>3, StoreAnswersMoves DEF ReportData
<1>5. ReportsGrow /\ Reports' = Reports
  BY <1>1, <1>2, <1>3, <1>4, MovesGrow
<1>6. PICK p : p = [id |-> i, version |-> selvitykset'[i].version, status |-> selvitykset'[i].status, updatable |-> TRUE]
  OBVIOUS
<1>7. TabOK(p)'
  <2>1. selvitykset'[i] \in Report /\ selvitykset'[i].version \in Nat /\ i \in Nat
    BY <1>1, <1>4, <1>5, VersionsAreNat DEF Moves, Reports, ReportData
  <2> QED BY <1>4, <1>5, <1>6, <2>1 DEF TabOK, Shown, Moves
<1>8. ReportBase'
  BY <1>1, <1>2, <1>3, <1>4, <1>5, <1>6, <1>7, WriteBase DEF ReportData, Moves
<1>9. ASSUME InTurn'
       PROVE  HakemusAgrees' /\ (OfficersInTurn' => MailsAgree' /\ AcceptanceAgrees')
  <2>1. HakemusAgrees /\ (OfficersInTurn' => OfficersAgree)
        /\ ("failure" \in history'.events <=> "failure" \in history.events)
    BY <1>2, <1>9, WriteStarts
  <2>2. \A j \in Reports : selvitykset'[j].status = selvitykset[j].status /\ selvitykset'[j].emailed = selvitykset[j].emailed
    BY <1>3, <1>4 DEF Moves
  <2>3. HakemusAgrees'
    BY <1>2, <1>4, <1>5, <2>1, <2>2 DEF HakemusAgrees, Given, IsLoppuselvitys, Moves
  <2>4. \A e \in handlers : e.step \in OfAcceptance => e.id \in Reports
    BY <1>1 DEF ReportBase, HandlerOK, OfAcceptance, OfReport
  <2>5. OfficersInTurn' => MailsAgree' /\ AcceptanceAgrees'
    BY <1>2, <1>5, <2>1, <2>2, <2>4 DEF OfficersAgree, MailsAgree, AcceptanceAgrees, OfAcceptance, IsLoppuselvitys
  <2> QED BY <2>3, <2>5
<1>10. TurnInv'
  <2>1. InTurn' => CheckHolds(c)'
    BY <1>2, <1>3, <1>4, WriteStarts DEF CheckHolds, SelvitysUpdateable, Moves, IsLoppuselvitys
  <2> QED BY <1>2, <1>9, <2>1, WriteTurn
<1> QED BY <1>8, <1>10 DEF ReportInv

\* An application with at most one report has the one spoken of.
LEMMA OneReport ==
  ASSUME ReportData, Len(selvitykset) <= 1, NEW i \in Reports
  PROVE  Reports = {i} /\ i = 1
<1>1. PICK n \in Nat : n = Len(selvitykset) /\ Reports = 1..n
  BY DEF ReportData, Reports
<1>2. n = 1
  BY <1>1
<1> QED BY <1>1, <1>2

\* Answers given: submitted, or in response to a request for completion.
LEMMA GivingPreserves ==
  ASSUME ReportInv, NEW c \in handlers, NEW to,
         \/ c.step = "submit_hakemus" /\ to = "submit_status"
         \/ c.step = "respond" /\ to = "own_status",
         StoreAnswers(c, "submitted"), Goes(c, to), Writes(c),
         UNCHANGED <<kind, hakemus, reportPage, view, emails>>
  PROVE  ReportInv'
<1>1. ReportBase /\ ReportData /\ HandlerOK(c) /\ c.id \in Reports
  BY DEF ReportInv, ReportBase, HandlerOK, OfReport
<1>2. PICK i \in Reports : i = c.id
  BY <1>1
<1>3. Moves(i, "submitted")
  BY <1>1, <1>2, StoreAnswersMoves DEF ReportData, ReportStatuses
<1>4. ReportsGrow /\ Reports' = Reports
  BY <1>1, <1>2, <1>3, MovesGrow
<1>5. PICK d : /\ d = AtStep(c, to)
               /\ d \in [step : ReportSteps, who : Tabs \union Officers, id : Nat, base : Nat, nr : {d.nr}]
               /\ d.step = to /\ d.who = c.who /\ d.id = c.id /\ d.base = c.base
  BY <1>1, HandlerGoesOn DEF ReportSteps, ApplicantSteps
<1>6. handlers' = (handlers \ {c}) \union {d}
  BY <1>5 DEF Goes, AtStep
<1>7. HandlerOK(d)'
  <2>1. selvitykset[i].version \in Nat /\ selvitykset'[i].version \in Nat
    BY <1>1, <1>2, <1>3, <1>4, VersionsAreNat DEF ReportData, Reports, Moves
  <2>2. d.base \in Nat /\ d.base <= selvitykset[i].version
    BY <1>1, <1>2, <1>5 DEF HandlerOK, OfReport
  <2>3. d.base <= selvitykset'[i].version
    BY <1>3, <2>1, <2>2 DEF Moves
  <2>4. d.id \in Reports' /\ Given(d.id)'
    BY <1>2, <1>3, <1>4, <1>5 DEF Given, Moves
  <2>5. d.who \in Tabs
    BY <1>1, <1>5 DEF HandlerOK, ApplicantSteps
  <2> QED BY <1>2, <1>5, <2>3, <2>4, <2>5 DEF HandlerOK, OfficerSteps, OfCompletion
<1>8. ReportBase'
  BY <1>1, <1>3, <1>4, <1>6, <1>7, WriteBase DEF ReportData, Moves
<1>9. ASSUME InTurn'
      PROVE  CheckHolds(d)' /\ HakemusAgrees' /\ (OfficersInTurn' => MailsAgree' /\ AcceptanceAgrees')
  <2>1. /\ CheckHolds(c) /\ HakemusAgrees /\ (OfficersInTurn' => OfficersAgree)
        /\ ("failure" \in history'.events <=> "failure" \in history.events)
    BY <1>9, WriteStarts
  <2>2. Reports = {i} /\ Reports' = {i}
    BY <1>1, <1>2, <1>4, <2>1, OneReport DEF HakemusAgrees
  <2>3. c.step = "submit_hakemus" => selvitykset[i].status = "draft" /\ hakemus.status = "missing"
    BY <1>1, <1>2, <2>1, <2>2 DEF CheckHolds, VersionIsCurrent, HandlerOK, ReportBase, Given
  <2>4. CheckHolds(d)'
    BY <1>5, <2>3 DEF CheckHolds
  <2>5. c.step = "respond" => Given(i)
    BY <1>2, <2>1 DEF CheckHolds, Given
  <2>6. HakemusAgrees'
    BY <1>3, <1>4, <1>5, <1>6, <2>1, <2>2, <2>3, <2>5 DEF HakemusAgrees, IsLoppuselvitys, Moves, Given
  <2>7. selvitykset'[i].status = "submitted" /\ selvitykset'[i].emailed = selvitykset[i].emailed
    BY <1>3 DEF Moves
  <2>8. \A e \in handlers : e.step \in OfAcceptance => e.id = i
    BY <1>1, <2>2 DEF ReportBase, HandlerOK, OfAcceptance, OfReport
  <2>9. d.step \notin OfAcceptance /\ d.step \notin OfCompletion /\ d.step \notin {"accept", "send_selvitys"}
    BY <1>5 DEF OfAcceptance, OfCompletion
  <2>10. OfficersInTurn' => MailsAgree'
    BY <1>6, <2>1, <2>2, <2>7, <2>8, <2>9 DEF OfficersAgree, MailsAgree, OfAcceptance, IsLoppuselvitys
  <2>11. OfficersInTurn' => AcceptanceAgrees'
    BY <1>6, <2>1, <2>2, <2>7, <2>8, <2>9 DEF OfficersAgree, AcceptanceAgrees, IsLoppuselvitys
  <2> QED BY <2>4, <2>6, <2>10, <2>11
<1>10. TurnInv'
  BY <1>5, <1>6, <1>9, WriteTurn
<1> QED BY <1>8, <1>10 DEF ReportInv

\* The page of the tab that submitted.
LEMMA SubmittedShown ==
  ASSUME ReportBase, ReportData', ReportsGrow, NEW c, c.id \in Reports, Submitted(c)
  PROVE  \E t, p : reportPage' = [reportPage EXCEPT ![t] = p] /\ TabOK(p)'
<1>1. PICK p : p = ShownReport(c.id, ~IsLoppuselvitys)
  OBVIOUS
<1>2. (~IsLoppuselvitys) \in BOOLEAN
  OBVIOUS
<1>3. TabOK(p)
  BY <1>1, <1>2, LoadedIsRight DEF ReportBase
<1>4. TabOK(p)'
  BY <1>3, TabStays DEF ReportBase
<1> QED BY <1>1, <1>4 DEF Submitted

LEMMA SubmittedPreserves ==
  ASSUME ReportInv, NEW c \in handlers, c.step = "submit_status", OnSelvitysSubmit(c)
  PROVE  ReportInv'
<1>1. ReportBase /\ ReportData /\ HandlerOK(c) /\ c.id \in Reports /\ Given(c.id)
  BY DEF ReportInv, ReportBase, HandlerOK, OfReport, OfGiven
<1>2. /\ handlers' = handlers \ {c} /\ hakemus' = [hakemus EXCEPT !.status = "submitted"]
      /\ Submitted(c) /\ Writes(c) /\ UNCHANGED <<kind, selvitykset, view, emails>>
  BY DEF OnSelvitysSubmit, Ends
<1>3. /\ hakemus'.status = "submitted" /\ hakemus'.verified = hakemus.verified
      /\ hakemus' \in [status : Stages, verified : BOOLEAN]
  BY <1>1, <1>2 DEF ReportData, Stages
<1>4. ReportData'
  BY <1>1, <1>2, <1>3, WritesAlone DEF ReportData
<1>5. ReportsGrow
  <2>1. \A i \in Reports : selvitykset[i].version \in Nat
    BY <1>1, VersionsAreNat DEF ReportData, Reports
  <2> QED BY <1>2, <1>3, <2>1 DEF ReportsGrow, Reports, Given
<1>6. c.id \in Reports' /\ Given(c.id)'
  BY <1>1, <1>2 DEF Given, Reports
<1>7. ReportBase'
  BY <1>1, <1>2, <1>3, <1>4, <1>5, <1>6, SubmittedShown, WriteBase DEF ReportData
<1>8. ASSUME InTurn'
      PROVE  HakemusAgrees' /\ (OfficersInTurn' => MailsAgree' /\ AcceptanceAgrees')
  <2>1. /\ CheckHolds(c) /\ HakemusAgrees /\ (OfficersInTurn' => OfficersAgree)
        /\ ("failure" \in history'.events <=> "failure" \in history.events)
        /\ \A e \in handlers \ {c} : e.step \in Unchecked \union {"redirect"}
    BY <1>2, <1>8, WriteStarts
  <2>2. hakemus.status = "missing" /\ \A e \in handlers : e.step # "accepted"
    BY <2>1 DEF CheckHolds, Unchecked
  <2>3. HakemusAgrees'
    BY <1>2, <1>3, <2>1, <2>2 DEF HakemusAgrees, IsLoppuselvitys
  <2>4. OfficersInTurn' => MailsAgree' /\ AcceptanceAgrees'
    BY <1>2, <1>3, <2>1 DEF OfficersAgree, MailsAgree, AcceptanceAgrees, Reports, IsLoppuselvitys
  <2> QED BY <2>3, <2>4
<1>9. TurnInv'
  <2>1. handlers' \subseteq (handlers \ {c}) \union {c} /\ c \notin handlers'
    BY <1>2
  <2> QED BY <1>2, <1>8, <2>1, WriteTurn
<1> QED BY <1>7, <1>9 DEF ReportInv

\* A report on which something is marked: its version, status and answers stay.
Marks(i) ==
  /\ selvitykset' \in Seq(Report) /\ Len(selvitykset') = Len(selvitykset)
  /\ \A j \in Reports : j # i => selvitykset'[j] = selvitykset[j]
  /\ selvitykset'[i].version = selvitykset[i].version
  /\ selvitykset'[i].status = selvitykset[i].status
  /\ selvitykset'[i].answers = selvitykset[i].answers

\* An entry of a sequence, replaced.
LEMMA ReplaceEntry ==
  ASSUME NEW S, NEW f \in Seq(S), NEW i \in DOMAIN f, NEW x \in S, NEW g, g = [f EXCEPT ![i] = x]
  PROVE  /\ g \in Seq(S) /\ Len(g) = Len(f) /\ g[i] = x
         /\ \A j \in DOMAIN f : j # i => g[j] = f[j]
OBVIOUS

LEMMA OwnMarks ==
  ASSUME selvitykset \in Seq(Report), NEW i \in Reports,
         selvitykset' = [selvitykset EXCEPT ![i].own = "submitted"]
  PROVE  Marks(i) /\ selvitykset'[i].emailed = selvitykset[i].emailed
<1>1. PICK o \in Report : o = selvitykset[i]
  BY DEF Reports
<1>2. o = [status |-> o.status, version |-> o.version, answers |-> o.answers,
           emailed |-> o.emailed, own |-> o.own]
  BY <1>1 DEF Report
<1>3. PICK q : q = [o EXCEPT !.own = "submitted"]
  OBVIOUS
<1>4. q = [status |-> o.status, version |-> o.version, answers |-> o.answers,
           emailed |-> o.emailed, own |-> "submitted"]
  BY <1>2, <1>3
<1>5. q \in Report
  BY <1>1, <1>4 DEF Report
<1>6. selvitykset' = [selvitykset EXCEPT ![i] = q]
  BY <1>1, <1>3 DEF Reports
<1>7. q.version = o.version /\ q.status = o.status /\ q.answers = o.answers /\ q.emailed = o.emailed
  BY <1>4
<1>8. /\ selvitykset' \in Seq(Report) /\ Len(selvitykset') = Len(selvitykset) /\ selvitykset'[i] = q
      /\ \A j \in Reports : j # i => selvitykset'[j] = selvitykset[j]
  BY <1>5, <1>6, ReplaceEntry DEF Reports
<1> QED BY <1>1, <1>7, <1>8 DEF Marks

LEMMA EmailedMarks ==
  ASSUME selvitykset \in Seq(Report), NEW i \in Reports,
         selvitykset' = [selvitykset EXCEPT ![i].emailed = TRUE]
  PROVE  Marks(i) /\ selvitykset'[i].emailed
<1>1. PICK o \in Report : o = selvitykset[i]
  BY DEF Reports
<1>2. o = [status |-> o.status, version |-> o.version, answers |-> o.answers,
           emailed |-> o.emailed, own |-> o.own]
  BY <1>1 DEF Report
<1>3. PICK q : q = [o EXCEPT !.emailed = TRUE]
  OBVIOUS
<1>4. q = [status |-> o.status, version |-> o.version, answers |-> o.answers,
           emailed |-> TRUE, own |-> o.own]
  BY <1>2, <1>3
<1>5. q \in Report
  BY <1>1, <1>4 DEF Report
<1>6. selvitykset' = [selvitykset EXCEPT ![i] = q]
  BY <1>1, <1>3 DEF Reports
<1>7. q.version = o.version /\ q.status = o.status /\ q.answers = o.answers /\ q.emailed
  BY <1>4
<1>8. /\ selvitykset' \in Seq(Report) /\ Len(selvitykset') = Len(selvitykset) /\ selvitykset'[i] = q
      /\ \A j \in Reports : j # i => selvitykset'[j] = selvitykset[j]
  <2>1. selvitykset \in Seq(Report) /\ i \in DOMAIN selvitykset
    BY DEF Reports
  <2> QED BY ONLY <1>5, <1>6, <2>1, ReplaceEntry DEF Reports
<1> QED BY <1>1, <1>7, <1>8 DEF Marks

LEMMA MarksGrow ==
  ASSUME ReportData, NEW i \in Reports, Marks(i),
         hakemus.status # "missing" => hakemus'.status # "missing"
  PROVE  /\ ReportsGrow /\ Reports' = Reports
         /\ \A j \in Reports : selvitykset'[j].status = selvitykset[j].status
<1>1. \A j \in Reports : selvitykset[j].version \in Nat
  BY VersionsAreNat DEF ReportData, Reports
<1>2. Reports' = Reports
  BY DEF Marks, Reports, ReportData
<1>3. \A j \in Reports : /\ selvitykset'[j].status = selvitykset[j].status
                         /\ selvitykset'[j].version = selvitykset[j].version
  BY DEF Marks
<1> QED BY <1>1, <1>2, <1>3 DEF ReportsGrow, Given

\* The report's own row marked.
LEMMA OwnStatusPreserves ==
  ASSUME ReportInv, NEW c \in handlers, c.step = "own_status", OnChangeRequestResponse(c)
  PROVE  ReportInv'
<1>1. ReportBase /\ ReportData /\ HandlerOK(c) /\ c.id \in Reports
  BY DEF ReportInv, ReportBase, HandlerOK, OfReport
<1>2. /\ handlers' = handlers \ {c} /\ selvitykset' = [selvitykset EXCEPT ![c.id].own = "submitted"]
      /\ Submitted(c) /\ Writes(c) /\ UNCHANGED <<kind, hakemus, view, emails>>
  BY DEF OnChangeRequestResponse, Ends
<1>3. Marks(c.id) /\ selvitykset'[c.id].emailed = selvitykset[c.id].emailed
  BY <1>1, <1>2, OwnMarks DEF ReportData
<1>4. /\ ReportsGrow /\ Reports' = Reports
      /\ \A j \in Reports : selvitykset'[j].status = selvitykset[j].status
  BY <1>1, <1>2, <1>3, MarksGrow
<1>5. ReportData'
  BY <1>1, <1>2, <1>3, WritesAlone DEF ReportData, Marks
<1>6. \E t, p : reportPage' = [reportPage EXCEPT ![t] = p] /\ TabOK(p)'
  BY <1>1, <1>2, <1>4, <1>5, SubmittedShown
<1>7. ReportBase'
  BY <1>1, <1>2, <1>4, <1>5, <1>6, WriteBase DEF ReportData
<1>8. ASSUME InTurn'
      PROVE  HakemusAgrees' /\ (OfficersInTurn' => MailsAgree' /\ AcceptanceAgrees')
  <2>1. /\ HakemusAgrees /\ (OfficersInTurn' => OfficersAgree)
        /\ ("failure" \in history'.events <=> "failure" \in history.events)
    BY <1>2, <1>8, WriteStarts
  <2>2. \A j \in Reports : selvitykset'[j].emailed = selvitykset[j].emailed
    BY <1>3 DEF Marks
  <2>3. HakemusAgrees'
    BY <1>2, <1>3, <1>4, <2>1 DEF HakemusAgrees, Given, IsLoppuselvitys, Marks
  <2>4. \A e \in handlers : e.step \in OfAcceptance => e.id \in Reports
    BY <1>1 DEF ReportBase, HandlerOK, OfAcceptance, OfReport
  <2>5. OfficersInTurn' => MailsAgree' /\ AcceptanceAgrees'
    BY <1>2, <1>4, <2>1, <2>2, <2>4 DEF OfficersAgree, MailsAgree, AcceptanceAgrees, OfAcceptance, IsLoppuselvitys
  <2> QED BY <2>3, <2>5
<1>9. TurnInv'
  <2>1. handlers' \subseteq (handlers \ {c}) \union {c} /\ c \notin handlers'
    BY <1>2
  <2> QED BY <1>2, <1>8, <2>1, WriteTurn
<1> QED BY <1>7, <1>9 DEF ReportInv

\* The officer's page, refreshed after a write.
LEMMA RefreshIsRight ==
  ASSUME ReportData', NEW c, RefreshHakemus(c)
  PROVE  \E o, v : view' = [view EXCEPT ![o] = v] /\ ViewOK(v)'
<1>1. PICK i \in Visible' : view' = [view EXCEPT ![c.who] = Seen(i)']
  BY DEF RefreshHakemus
<1>2. ViewOK(Seen(i))'
  <2>1. CASE i \in Reports' /\ selvitykset'[i].status # "draft"
    <3>1. selvitykset'[i] \in Report /\ i \in Nat /\ i # NoReport
      BY <2>1, VersionsAreNat DEF ReportData, Reports, NoReport
    <3>2. selvitykset'[i].status \in ReportStatuses /\ selvitykset'[i].emailed \in BOOLEAN
      BY <3>1 DEF Report
    <3>3. hakemus'.status \in Stages /\ hakemus'.verified \in BOOLEAN
      BY DEF ReportData
    <3> QED BY <2>1, <3>1, <3>2, <3>3 DEF ViewOK, Seen, Glimpse, Given
  <2>2. CASE i = NoReport
    <3>1. hakemus'.status \in Stages /\ hakemus'.verified \in BOOLEAN
      BY DEF ReportData
    <3> QED BY <2>2, <3>1 DEF ViewOK, Seen, Glimpse, NoReport, ReportStatuses
  <2> QED BY <1>1, <2>1, <2>2 DEF Visible
<1>3. PICK v : v = Seen(i)'
  OBVIOUS
<1> QED BY <1>1, <1>2, <1>3

\* The application marked by an officer: what is stored of the report stays.
LEMMA MarkBase ==
  ASSUME ReportInv, NEW c \in handlers, Writes(c), RefreshHakemus(c), handlers' = handlers \ {c},
         UNCHANGED <<kind, selvitykset, reportPage, emails>>,
         hakemus' \in [status : Stages, verified : BOOLEAN], hakemus'.status # "missing",
         \E i \in Reports : Given(i)
  PROVE  ReportBase'
<1>1. ReportBase /\ ReportData
  BY DEF ReportInv, ReportBase
<1>2. ReportData'
  BY <1>1, WritesAlone DEF ReportData
<1>3. ReportsGrow
  <2>1. \A i \in Reports : selvitykset[i].version \in Nat
    BY <1>1, VersionsAreNat DEF ReportData, Reports
  <2> QED BY <2>1 DEF ReportsGrow, Reports, Given
<1>4. \E o, v : view' = [view EXCEPT ![o] = v] /\ ViewOK(v)'
  BY <1>2, RefreshIsRight
<1>5. \E i \in Reports' : Given(i)'
  BY DEF Given, Reports
<1> QED BY <1>1, <1>3, <1>4, <1>5, WriteBase DEF ReportData

LEMMA VerifiedPreserves ==
  ASSUME ReportInv, NEW c \in handlers, c.step = "verified", VerifyLoppuselvitysInformation(c)
  PROVE  ReportInv'
<1>1. ReportBase /\ ReportData /\ HandlerOK(c)
  BY DEF ReportInv, ReportBase
<1>2. /\ handlers' = handlers \ {c}
      /\ hakemus' = [hakemus EXCEPT !.status = "information_verified", !.verified = TRUE]
      /\ RefreshHakemus(c) /\ Writes(c) /\ UNCHANGED <<kind, selvitykset, reportPage, emails>>
  BY DEF VerifyLoppuselvitysInformation, Ends
<1>3. /\ hakemus'.status = "information_verified" /\ hakemus'.verified
      /\ hakemus' \in [status : Stages, verified : BOOLEAN]
  <2>1. hakemus = [status |-> hakemus.status, verified |-> hakemus.verified]
    BY <1>1 DEF ReportData
  <2>2. PICK h : h = [hakemus EXCEPT !.status = "information_verified"]
    OBVIOUS
  <2>3. h = [status |-> "information_verified", verified |-> hakemus.verified]
    BY <2>1, <2>2
  <2>4. PICK y \in BOOLEAN : y = TRUE
    OBVIOUS
  <2>5. [h EXCEPT !.verified = y] = [status |-> "information_verified", verified |-> y]
    BY ONLY <2>3
  <2>6. hakemus' = [h EXCEPT !.verified = y]
    BY ONLY <1>2, <2>2, <2>4
  <2> QED BY <2>4, <2>5, <2>6 DEF Stages
<1>4. ReportBase'
  <2>1. \E i \in Reports : Given(i)
    BY <1>1 DEF ReportBase, HandlerOK
  <2> QED BY <1>2, <1>3, <2>1, MarkBase
<1>5. ASSUME InTurn'
      PROVE  HakemusAgrees' /\ (OfficersInTurn' => MailsAgree' /\ AcceptanceAgrees')
  <2>1. /\ CheckHolds(c) /\ HakemusAgrees /\ (OfficersInTurn' => OfficersAgree)
        /\ ("failure" \in history'.events <=> "failure" \in history.events)
        /\ \A e \in handlers \ {c} : e.step \in Unchecked \union {"redirect"}
    BY <1>2, <1>5, WriteStarts
  <2>2. hakemus.status = "submitted" /\ \A e \in handlers : e.step # "accepted"
    BY <2>1 DEF CheckHolds, Unchecked
  <2>3. HakemusAgrees'
    BY <1>2, <1>3, <2>1, <2>2 DEF HakemusAgrees, IsLoppuselvitys
  <2>4. OfficersInTurn' => MailsAgree' /\ AcceptanceAgrees'
    BY <1>2, <1>3, <2>1 DEF OfficersAgree, MailsAgree, AcceptanceAgrees, Reports, IsLoppuselvitys
  <2> QED BY <2>3, <2>4
<1>6. TurnInv'
  <2>1. handlers' \subseteq (handlers \ {c}) \union {c} /\ c \notin handlers'
    BY <1>2
  <2> QED BY <1>2, <1>5, <2>1, WriteTurn
<1> QED BY <1>4, <1>6 DEF ReportInv

\* The acceptance mailed.
LEMMA MailedPreserves ==
  ASSUME ReportInv, NEW c \in handlers, c.step = "send_selvitys", SetSelvitysAccepted(c)
  PROVE  ReportInv'
<1>1. ReportBase /\ ReportData /\ HandlerOK(c) /\ c.id \in Reports /\ Given(c.id)
  BY DEF ReportInv, ReportBase, HandlerOK, OfReport, OfGiven
<1>2. /\ Goes(c, "accepted") /\ emails' = emails + 1
      /\ selvitykset' = [selvitykset EXCEPT ![c.id].emailed = TRUE]
      /\ UNCHANGED <<kind, hakemus, reportPage, view>> /\ Writes(c)
  BY DEF SetSelvitysAccepted
<1>3. PICK i \in Reports : i = c.id /\ Given(i)
  BY <1>1
<1>4. Marks(i) /\ selvitykset'[i].emailed
  BY <1>1, <1>2, <1>3, EmailedMarks DEF ReportData
<1>5. /\ ReportsGrow /\ Reports' = Reports
      /\ \A j \in Reports : selvitykset'[j].status = selvitykset[j].status
  BY <1>1, <1>2, <1>4, MarksGrow
<1>6. PICK d : /\ d = AtStep(c, "accepted")
               /\ d \in [step : ReportSteps, who : Tabs \union Officers, id : Nat, base : Nat, nr : {d.nr}]
               /\ d.step = "accepted" /\ d.who = c.who /\ d.id = c.id /\ d.base = c.base
  BY <1>1, HandlerGoesOn DEF ReportSteps, OfficerSteps
<1>7. handlers' = (handlers \ {c}) \union {d}
  BY <1>2, <1>6 DEF Goes, AtStep
<1>8. emails \in Nat /\ emails' \in Nat
  BY <1>1, <1>2 DEF ReportData
<1>9. ReportData'
  BY <1>1, <1>2, <1>4, <1>8, WritesAlone DEF ReportData, Marks
<1>10. HandlerOK(d)
  <2>1. c.who \in Officers
    BY <1>1 DEF HandlerOK, OfficerSteps
  <2> QED BY <1>1, <1>6, <2>1 DEF HandlerOK, ApplicantSteps, OfReport, OfGiven, OfCompletion
<1>11. HandlerOK(d)'
  BY <1>1, <1>5, <1>9, <1>10, HandlerStays
<1>12. ReportBase'
  BY <1>1, <1>2, <1>4, <1>5, <1>7, <1>8, <1>11, WriteBase DEF ReportData, Marks
<1>13. ASSUME InTurn'
       PROVE  CheckHolds(d)' /\ HakemusAgrees' /\ (OfficersInTurn' => MailsAgree' /\ AcceptanceAgrees')
  <2>1. /\ CheckHolds(c) /\ HakemusAgrees /\ (OfficersInTurn' => OfficersAgree)
        /\ ("failure" \in history'.events <=> "failure" \in history.events)
        /\ \A e \in handlers \ {c} : e.step \in Unchecked \union {"redirect"}
    BY <1>2, <1>13, WriteStarts
  <2>2. CanSetSelvitys /\ \A e \in handlers : e.step # "accepted"
    BY <2>1 DEF CheckHolds, Unchecked
  <2>3. CheckHolds(d)'
    BY <1>2, <1>6, <2>2 DEF CheckHolds, CanSetSelvitys, IsLoppuselvitys
  <2>4. Reports = {i} /\ Reports' = {i}
    BY <1>1, <1>5, <2>1, OneReport DEF HakemusAgrees
  <2>5. "failure" \notin history.events /\ IsLoppuselvitys => emails = 0
    BY <2>1, <2>2 DEF HakemusAgrees, CanSetSelvitys
  <2>6. HakemusAgrees'
    <3>1. Len(selvitykset') <= 1
      BY <1>4, <2>1 DEF HakemusAgrees, Marks
    <3>2. IsLoppuselvitys' => (hakemus.verified <=> hakemus.status \in {"information_verified", "accepted"})'
      BY <1>2, <2>1 DEF HakemusAgrees, IsLoppuselvitys
    <3>3. ("failure" \notin history.events /\ (\E j \in Reports : Given(j)))' =>
            (hakemus.status # "missing" \/ \E e \in handlers : e.step = "submit_status")'
      BY <1>2, <1>3, <1>7, <2>1 DEF HakemusAgrees
    <3>4. "failure" \notin history'.events /\ IsLoppuselvitys' =>
            emails' = 1 /\ \E e \in handlers' : e.step = "accepted"
      BY <1>2, <1>6, <1>7, <2>1, <2>5 DEF IsLoppuselvitys
    <3> QED BY <3>1, <3>2, <3>3, <3>4 DEF HakemusAgrees
  <2>7. \A e \in handlers' : e.step \in {"accept", "send_selvitys"} => e.who \in Officers /\ e \in handlers \ {c}
    BY <1>1, <1>6, <1>7 DEF ReportBase, HandlerOK, OfficerSteps
  <2>8. c.who \in Officers
    BY <1>1 DEF HandlerOK, OfficerSteps
  <2>9. OfficersInTurn' => MailsAgree'
    <3>1. MailsAgree /\ ~IsLoppuselvitys => emails = 0
      <4>1. MailsAgree /\ ~IsLoppuselvitys => ~selvitykset[c.id].emailed
        BY DEF MailsAgree
      <4>2. MailsAgree /\ ~IsLoppuselvitys => emails # 1 /\ emails <= 1
        BY <1>3, <4>1 DEF MailsAgree
      <4> QED BY <1>8, <4>2
    <3>2. MailsAgree /\ ~IsLoppuselvitys => emails' = 1
      BY <1>2, <3>1
    <3>3. OneOfficer => \A e \in handlers' : e.step \notin {"accept", "send_selvitys"}
      BY <2>7, <2>8 DEF OneOfficer
    <3>4. IsLoppuselvitys' = IsLoppuselvitys
      BY <1>2 DEF IsLoppuselvitys
    <3>5. Reports' # {} /\ \A j \in Reports' : selvitykset'[j].emailed
      BY <1>4, <2>4
    <3> QED BY <2>1, <3>2, <3>3, <3>4, <3>5 DEF OfficersAgree, MailsAgree
  <2>10. OfficersInTurn' => AcceptanceAgrees'
    BY <1>1, <1>2, <1>3, <1>5, <1>6, <1>7, <2>1, <2>4 DEF OfficersAgree, AcceptanceAgrees, IsLoppuselvitys, OfAcceptance, OfCompletion,
       ReportBase, HandlerOK, OfReport
  <2> QED BY <2>3, <2>6, <2>9, <2>10
<1>14. TurnInv'
  BY <1>2, <1>6, <1>7, <1>13, WriteTurn
<1> QED BY <1>12, <1>14 DEF ReportInv

\* The application marked accepted.
LEMMA AcceptedPreserves ==
  ASSUME ReportInv, NEW c \in handlers, c.step = "accepted", SetSelvitysAccepted(c)
  PROVE  ReportInv'
<1>1. ReportBase /\ ReportData /\ HandlerOK(c) /\ c.id \in Reports /\ Given(c.id)
  BY DEF ReportInv, ReportBase, HandlerOK, OfReport, OfGiven
<1>2. /\ handlers' = handlers \ {c} /\ hakemus' = [hakemus EXCEPT !.status = "accepted"]
      /\ RefreshHakemus(c) /\ Writes(c) /\ UNCHANGED <<kind, selvitykset, reportPage, emails>>
  BY DEF SetSelvitysAccepted, Ends
<1>3. /\ hakemus'.status = "accepted" /\ hakemus'.verified = hakemus.verified
      /\ hakemus' \in [status : Stages, verified : BOOLEAN]
  BY <1>1, <1>2 DEF ReportData, Stages
<1>4. ReportBase'
  BY <1>1, <1>2, <1>3, MarkBase
<1>5. ASSUME InTurn'
      PROVE  HakemusAgrees' /\ (OfficersInTurn' => MailsAgree' /\ AcceptanceAgrees')
  <2>1. /\ CheckHolds(c) /\ HakemusAgrees /\ (OfficersInTurn' => OfficersAgree)
        /\ ("failure" \in history'.events <=> "failure" \in history.events)
    BY <1>2, <1>5, WriteStarts
  <2>2. CanSetSelvitys
    BY <2>1 DEF CheckHolds
  <2>3. HakemusAgrees'
    BY <1>2, <1>3, <2>1, <2>2 DEF HakemusAgrees, IsLoppuselvitys, CanSetSelvitys
  <2>4. PICK i \in Reports : i = c.id
    BY <1>1
  <2>5. Reports = {i}
    BY <1>1, <2>1, OneReport DEF HakemusAgrees
  <2>6. c.who \in Officers /\ \A e \in handlers : e.step \in OfCompletion => e.who \in Officers /\ e # c
    BY <1>1 DEF ReportBase, HandlerOK, OfficerSteps, OfCompletion
  <2>7. OneOfficer => \A e \in handlers : e.step \notin OfCompletion
    BY <2>6 DEF OneOfficer
  <2>8. OfficersInTurn' => MailsAgree'
    BY <1>2, <2>1 DEF OfficersAgree, MailsAgree, Reports, IsLoppuselvitys
  <2>9. OfficersInTurn' => AcceptanceAgrees'
    BY <1>2, <2>1, <2>4, <2>5, <2>7 DEF OfficersAgree, AcceptanceAgrees, Reports, IsLoppuselvitys, OfAcceptance
  <2> QED BY <2>3, <2>8, <2>9
<1>6. TurnInv'
  <2>1. handlers' \subseteq (handlers \ {c}) \union {c} /\ c \notin handlers'
    BY <1>2
  <2> QED BY <1>2, <1>5, <2>1, WriteTurn
<1> QED BY <1>4, <1>6 DEF ReportInv

\* A completion asked for, or called back.
LEMMA CompletionPreserves ==
  ASSUME ReportInv, NEW c \in handlers, NEW i \in Reports, NEW s,
         \/ c.step = "request" /\ s = "pending_change_request"
         \/ c.step = "cancelled" /\ s = "submitted",
         NewVersion(i, s), handlers' = handlers \ {c}, RefreshHakemus(c), Writes(c),
         UNCHANGED <<kind, hakemus, reportPage, emails>>
  PROVE  ReportInv'
<1>1. ReportBase /\ ReportData /\ HandlerOK(c)
  BY DEF ReportInv, ReportBase
<1>2. s \in ReportStatuses /\ s # "draft"
  BY DEF ReportStatuses
<1>3. Moves(i, s)
  BY <1>1, <1>2, NewVersionMoves DEF ReportData
<1>4. ReportsGrow /\ Reports' = Reports
  BY <1>2, <1>1, <1>3, MovesGrow
<1>5. ReportData'
  BY <1>1, <1>3, WritesAlone DEF ReportData, Moves
<1>6. \E o, v : view' = [view EXCEPT ![o] = v] /\ ViewOK(v)'
  BY <1>5, RefreshIsRight
<1>7. ReportBase'
  BY <1>1, <1>3, <1>4, <1>6, WriteBase DEF ReportData, Moves
<1>8. c.who \in Officers /\ hakemus.status # "missing"
  BY <1>1 DEF HandlerOK, OfficerSteps, OfCompletion
<1>9. ASSUME InTurn'
      PROVE  HakemusAgrees' /\ (OfficersInTurn' => MailsAgree' /\ AcceptanceAgrees')
  <2>1. /\ HakemusAgrees /\ (OfficersInTurn' => OfficersAgree)
        /\ ("failure" \in history'.events <=> "failure" \in history.events)
    BY <1>9, WriteStarts
  <2>2. Len(selvitykset') <= 1
    BY <1>3, <2>1 DEF Moves, HakemusAgrees
  <2>3. HakemusAgrees'
    BY <1>8, <2>1, <2>2 DEF HakemusAgrees, IsLoppuselvitys
  <2>4. \A e \in handlers : e.step \in OfAcceptance => e.id \in Reports /\ e.who \in Officers /\ e # c
    BY <1>1 DEF ReportBase, HandlerOK, OfAcceptance, OfReport, OfficerSteps
  <2>5. \A j \in Reports : selvitykset'[j].emailed = selvitykset[j].emailed
    BY <1>3 DEF Moves
  <2>6. OfficersInTurn' => MailsAgree'
    BY <1>4, <2>1, <2>4, <2>5 DEF OfficersAgree, MailsAgree, IsLoppuselvitys, OfAcceptance
  <2>7. OneOfficer => \A e \in handlers : e.step \notin OfAcceptance
    BY <1>8, <2>4 DEF OneOfficer
  <2>8. AcceptanceAgrees /\ IsLoppuselvitys => hakemus.status # "accepted"
    BY DEF AcceptanceAgrees, OfCompletion
  <2>9. OfficersInTurn' => AcceptanceAgrees'
    BY <2>1, <2>7, <2>8 DEF OfficersAgree, AcceptanceAgrees, IsLoppuselvitys
  <2> QED BY <2>3, <2>6, <2>9
<1>10. TurnInv'
  <2>1. handlers' \subseteq (handlers \ {c}) \union {c} /\ c \notin handlers'
    OBVIOUS
  <2> QED BY <1>9, <2>1, WriteTurn
<1> QED BY <1>7, <1>10 DEF ReportInv

-----------------------------------------------------------------------------
(* The invariant, and what follows from it                                   *)

LEMMA ReportStarts ==
  ASSUME ReportInit
  PROVE  ReportInv
<1>1. selvitykset = <<>> /\ Reports = {} /\ handlers = {} /\ emails = 0
  BY DEF ReportInit, Reports
<1>2. ReportData
  <2>1. 0 \in 0..MaxCalls
    BY CallsAssumption
  <2>2. hakemus \in [status : Stages, verified : BOOLEAN]
    BY DEF ReportInit, Stages
  <2>3. history \in [calls : 0..MaxCalls, events : SUBSET Events]
    BY <2>1 DEF ReportInit
  <2>4. selvitykset \in Seq(Report)
    BY <1>1
  <2> QED BY <1>1, <2>2, <2>3, <2>4 DEF ReportInit, ReportData
<1>3. hakemus.status = "missing" /\ ~hakemus.verified /\ InTurn
  BY DEF ReportInit, InTurn
<1>4. reportPage = [t \in Tabs |-> reportPage[t]] /\ \A t \in Tabs : TabOK(reportPage[t])
  BY DEF ReportInit, TabOK, Shown, NoReport, ReportStatuses
<1>5. view = [o \in Officers |-> view[o]] /\ \A o \in Officers : ViewOK(view[o])
  <2>1. view = [o \in Officers |-> Seen(NoReport)]
    BY DEF ReportInit
  <2>2. PICK v : v = Seen(NoReport)
    OBVIOUS
  <2>3. NoReport \in Visible
    BY <1>1 DEF Visible
  <2>4. hakemus.status \in Stages /\ hakemus.verified \in BOOLEAN
    BY <1>2 DEF ReportData
  <2>5. ViewOK(v)
    BY <1>3, <2>2, <2>4 DEF ViewOK, Seen, Glimpse, NoReport, ReportStatuses
  <2> QED BY <2>1, <2>2, <2>5
<1>6. ReportBase
  BY <1>1, <1>2, <1>3, <1>4, <1>5 DEF ReportBase
<1>7. HakemusAgrees
  <2>1. Len(selvitykset) <= 1
    BY <1>1
  <2> QED BY <1>1, <1>3, <2>1 DEF HakemusAgrees
<1>8. OfficersAgree
  BY <1>1, <1>3 DEF OfficersAgree, OneOfficer, MailsAgree, AcceptanceAgrees
<1> QED BY <1>1, <1>6, <1>7, <1>8 DEF ReportInv, TurnInv

LEMMA HandlersPreserve ==
  ASSUME ReportInv, NEW c \in handlers,
         \/ GetSelvitysInit(c) \/ OnSelvitysUpdate(c) \/ OnSelvitysSubmit(c)
         \/ OnChangeRequestResponse(c) \/ VerifyLoppuselvitysInformation(c)
         \/ SetSelvitysAccepted(c) \/ Taydennyspyynto(c)
         \/ CancelTaydennyspyynto(c) \/ HandlerFails(c)
  PROVE  ReportInv'
<1>1. CASE GetSelvitysInit(c)
  <2>1. c.step \in {"init", "redirect"} \/ (c.step = "create" /\ CreateSelvitys(c))
    BY <1>1 DEF GetSelvitysInit
  <2> QED BY <1>1, <2>1, ReadingPreserves, CreatePreserves
<1>2. CASE OnSelvitysUpdate(c)
  <2>1. CASE c.step = "save"
    <3>1. Checked(c, SelvitysUpdateable(c.id) /\ VersionIsCurrent(c), "store")
      BY <1>2, <2>1 DEF OnSelvitysUpdate
    <3> QED BY <2>1, <3>1, CheckPreserves
  <2>2. CASE c.step = "store"
    BY <1>2, <2>2, StorePreserves
  <2> QED BY <1>2, <2>1, <2>2 DEF OnSelvitysUpdate
<1>3. CASE OnSelvitysSubmit(c)
  <2>1. CASE c.step = "submit"
    <3>1. Checked(c, VersionIsCurrent(c), "submit_hakemus")
      BY <1>3, <2>1 DEF OnSelvitysSubmit
    <3> QED BY <2>1, <3>1, CheckPreserves
  <2>2. CASE c.step = "submit_hakemus"
    BY <1>3, <2>2, GivingPreserves DEF OnSelvitysSubmit
  <2>3. CASE c.step = "submit_status"
    BY <1>3, <2>3, SubmittedPreserves
  <2> QED BY <1>3, <2>1, <2>2, <2>3 DEF OnSelvitysSubmit
<1>4. CASE OnChangeRequestResponse(c)
  <2>1. CASE c.step = "response"
    <3>1. Checked(c, selvitykset[c.id].status = "pending_change_request" /\ VersionIsCurrent(c), "respond")
      BY <1>4, <2>1 DEF OnChangeRequestResponse
    <3> QED BY <2>1, <3>1, CheckPreserves
  <2>2. CASE c.step = "respond"
    BY <1>4, <2>2, GivingPreserves DEF OnChangeRequestResponse
  <2>3. CASE c.step = "own_status"
    BY <1>4, <2>3, OwnStatusPreserves
  <2> QED BY <1>4, <2>1, <2>2, <2>3 DEF OnChangeRequestResponse
<1>5. CASE VerifyLoppuselvitysInformation(c)
  <2>1. CASE c.step = "verify"
    <3>1. Checked(c, hakemus.status = "submitted", "verified")
      BY <1>5, <2>1 DEF VerifyLoppuselvitysInformation
    <3> QED BY <2>1, <3>1, CheckPreserves
  <2>2. CASE c.step = "verified"
    BY <1>5, <2>2, VerifiedPreserves
  <2> QED BY <1>5, <2>1, <2>2 DEF VerifyLoppuselvitysInformation
<1>6. CASE SetSelvitysAccepted(c)
  <2>1. CASE c.step = "accept"
    <3>1. Checked(c, CanSetSelvitys, "send_selvitys")
      BY <1>6, <2>1 DEF SetSelvitysAccepted
    <3> QED BY <2>1, <3>1, CheckPreserves
  <2>2. CASE c.step = "send_selvitys"
    BY <1>6, <2>2, MailedPreserves
  <2>3. CASE c.step = "accepted"
    BY <1>6, <2>3, AcceptedPreserves
  <2> QED BY <1>6, <2>1, <2>2, <2>3 DEF SetSelvitysAccepted
<1>7. CASE Taydennyspyynto(c)
  <2>1. PICK i \in Reports : NewVersion(i, "pending_change_request")
    BY <1>7 DEF Taydennyspyynto
  <2> QED BY <1>7, <2>1, CompletionPreserves DEF Taydennyspyynto, Ends
<1>8. CASE CancelTaydennyspyynto(c)
  <2>1. CASE c.step = "cancel"
    <3>1. PICK i \in Reports : Checked(c, selvitykset[i].status = "pending_change_request", "cancelled")
      BY <1>8, <2>1 DEF CancelTaydennyspyynto
    <3> QED BY <2>1, <3>1, CheckPreserves
  <2>2. CASE c.step = "cancelled"
    <3>1. PICK i \in Reports : NewVersion(i, "submitted")
      BY <1>8, <2>2 DEF CancelTaydennyspyynto
    <3>2. /\ handlers' = handlers \ {c} /\ RefreshHakemus(c) /\ Writes(c)
          /\ UNCHANGED <<kind, hakemus, reportPage, emails>>
      BY <1>8, <2>2 DEF CancelTaydennyspyynto, Ends
    <3> QED BY <2>2, <3>1, <3>2, CompletionPreserves
  <2> QED BY <1>8, <2>1, <2>2 DEF CancelTaydennyspyynto
<1>9. CASE HandlerFails(c)
  BY <1>9, FailurePreserves
<1> QED BY <1>1, <1>2, <1>3, <1>4, <1>5, <1>6, <1>7, <1>8, <1>9

LEMMA ReportNextPreserves ==
  ASSUME ReportInv, [ReportNext]_reportVars
  PROVE  ReportInv'
<1>1. CASE UNCHANGED reportVars
  <2>1. UNCHANGED <<kind, selvitykset, hakemus, reportPage, view, handlers, emails, history>>
    BY <1>1 DEF reportVars
  <2> QED BY <2>1, PagesLoad
<1>2. CASE ReportNext
  BY <1>2, TabSends, OfficerSends, LoadingPreserves, HandlersPreserve DEF ReportNext
<1> QED BY <1>1, <1>2

\* What holds of every state of the specification.
THEOREM ReportInvariance == ReportSpec => []ReportInv
<1>1. ReportInit => ReportInv
  BY ReportStarts
<1>2. ReportInv /\ [ReportNext]_reportVars => ReportInv'
  BY ReportNextPreserves
<1> QED BY <1>1, <1>2, PTL DEF ReportSpec

\* Reports, pages and requests hold the values the code gives them.
THEOREM ReportTyping == ReportSpec => []ReportTypeOK
<1>1. ReportInv => ReportTypeOK
  <2> SUFFICES ASSUME ReportInv
               PROVE  ReportTypeOK
    OBVIOUS
  <2>1. ReportBase /\ ReportData
    BY DEF ReportInv, ReportBase
  <2>2. \A t \in Tabs : reportPage[t] \in [id : Reports \union {NoReport}, version : Nat,
                                           status : ReportStatuses, updatable : BOOLEAN]
    <3> SUFFICES ASSUME NEW p, TabOK(p)
                 PROVE  p \in [id : Reports \union {NoReport}, version : Nat,
                               status : ReportStatuses, updatable : BOOLEAN]
      BY <2>1 DEF ReportBase
    <3> QED BY DEF TabOK, Shown
  <2>3. \A o \in Officers : view[o] \in [id : Reports \union {NoReport}, report : ReportStatuses,
                              emailed : BOOLEAN, status : Stages, verified : BOOLEAN]
    <3> SUFFICES ASSUME NEW v, ViewOK(v)
                 PROVE  v \in [id : Reports \union {NoReport}, report : ReportStatuses,
                              emailed : BOOLEAN, status : Stages, verified : BOOLEAN]
      BY <2>1 DEF ReportBase
    <3> QED BY DEF ViewOK, Glimpse
  <2>4. \A c \in handlers : c.who \in Tabs \union Officers /\ c.id \in Reports \union {NoReport}
    BY <2>1 DEF ReportBase, HandlerOK
  <2> QED BY <2>1, <2>2, <2>3, <2>4 DEF ReportTypeOK, ReportBase, ReportData, Report
<1> QED BY <1>1, ReportInvariance, PTL

\* What the application says of its report is true of the report.
THEOREM ReportsAgree == ReportSpec => []ReportAgrees
<1>1. ReportInv => ReportAgrees
  <2> SUFFICES ASSUME ReportInv, InTurn
               PROVE  /\ Len(selvitykset) <= 1
                      /\ (handlers = {} /\ "failure" \notin history.events) =>
                           ((hakemus.status = "missing") <=>
                            (\A i \in Reports : selvitykset[i].status = "draft"))
                      /\ IsLoppuselvitys =>
                           (hakemus.verified <=> hakemus.status \in {"information_verified", "accepted"})
                      /\ ({"stale", "failure"} \union (IF IsLoppuselvitys THEN {} ELSE {"meanwhile"}))
                             \intersect history.events = {} => emails <= 1
                      /\ ({"stale", "meanwhile"} \intersect history.events = {} /\ hakemus.status = "accepted"
                          /\ IsLoppuselvitys) => \A i \in Reports : selvitykset[i].status = "submitted"
    BY DEF ReportAgrees
  <2>1. HakemusAgrees /\ (OfficersInTurn => OfficersAgree) /\ ReportBase
    BY DEF ReportInv, TurnInv
  <2>2. (handlers = {} /\ "failure" \notin history.events) =>
           ((hakemus.status = "missing") <=> (\A i \in Reports : selvitykset[i].status = "draft"))
    BY <2>1 DEF HakemusAgrees, ReportBase, Given
  <2>3. ({"stale", "failure"} \union (IF IsLoppuselvitys THEN {} ELSE {"meanwhile"}))
           \intersect history.events = {} => emails <= 1
    <3>1. CASE IsLoppuselvitys
      BY <2>1, <3>1 DEF HakemusAgrees
    <3>2. CASE ~IsLoppuselvitys
      BY <2>1, <3>2 DEF OfficersInTurn, OfficersAgree, MailsAgree
    <3> QED BY <3>1, <3>2
  <2>4. ({"stale", "meanwhile"} \intersect history.events = {} /\ hakemus.status = "accepted"
          /\ IsLoppuselvitys) => \A i \in Reports : selvitykset[i].status = "submitted"
    BY <2>1 DEF OfficersInTurn, OfficersAgree, AcceptanceAgrees
  <2> QED BY <2>1, <2>2, <2>3, <2>4 DEF HakemusAgrees
<1> QED BY <1>1, ReportInvariance, PTL

\* The answers of a step, of one report.
AnswersOf(i) ==
  (/\ IsLoppuselvitys /\ hakemus.verified /\ InTurn
   /\ selvitykset'[i].answers # selvitykset[i].answers)
     => selvitykset[i].status = "pending_change_request"
AnswersMove == \A i \in Reports : AnswersOf(i)

LEMMA StoringMoves ==
  ASSUME ReportInv, NEW c \in handlers, NEW s \in ReportStatuses, StoreAnswers(c, s),
         c.step \in {"store", "submit_hakemus", "respond"}
  PROVE  AnswersMove
<1>1. ReportBase /\ ReportData /\ HandlerOK(c) /\ c.id \in Reports
  BY DEF ReportInv, ReportBase, HandlerOK, OfReport
<1>2. Moves(c.id, s)
  BY <1>1, StoreAnswersMoves DEF ReportData
<1>3. \A j \in Reports : j # c.id => AnswersOf(j)
  BY <1>2 DEF Moves, AnswersOf
<1>4. AnswersOf(c.id)
  <2> SUFFICES ASSUME IsLoppuselvitys, hakemus.verified, InTurn
               PROVE  selvitykset[c.id].status = "pending_change_request"
    BY DEF AnswersOf
  <2>1. CheckHolds(c) /\ HakemusAgrees
    BY DEF ReportInv, TurnInv
  <2>2. CASE c.step = "store"
    BY <2>1, <2>2 DEF CheckHolds, SelvitysUpdateable
  <2>3. CASE c.step = "submit_hakemus"
    <3>1. PICK i \in Reports : i = c.id
      BY <1>1
    <3>2. Reports = {i}
      BY <1>1, <2>1, OneReport DEF HakemusAgrees
    <3>3. \E j \in Reports : Given(j)
      BY <1>1, <2>1 DEF HakemusAgrees, ReportBase
    <3>4. selvitykset[i].status = "draft"
      BY <1>1, <2>1, <2>3, <3>1 DEF CheckHolds, VersionIsCurrent, HandlerOK
    <3> QED BY <3>2, <3>3, <3>4 DEF Given
  <2>4. CASE c.step = "respond"
    BY <2>1, <2>4 DEF CheckHolds
  <2> QED BY <2>2, <2>3, <2>4
<1> QED BY <1>3, <1>4 DEF AnswersMove

LEMMA AnswersOfHandlers ==
  ASSUME ReportInv, NEW c \in handlers,
         \/ GetSelvitysInit(c) \/ OnSelvitysUpdate(c) \/ OnSelvitysSubmit(c)
         \/ OnChangeRequestResponse(c) \/ VerifyLoppuselvitysInformation(c)
         \/ SetSelvitysAccepted(c) \/ Taydennyspyynto(c)
         \/ CancelTaydennyspyynto(c) \/ HandlerFails(c)
  PROVE  AnswersMove
<1>1. ReportBase /\ ReportData /\ HandlerOK(c)
  BY DEF ReportInv, ReportBase
<1>2. UNCHANGED selvitykset => AnswersMove
  BY DEF AnswersMove, AnswersOf
<1>3. ASSUME NEW i \in Reports, NEW s \in ReportStatuses, NewVersion(i, s)
      PROVE  AnswersMove
  BY <1>1, <1>3, NewVersionMoves DEF Moves, AnswersMove, AnswersOf, ReportData
<1>4. ASSUME NEW i \in Reports, Marks(i)
      PROVE  AnswersMove
  BY <1>4 DEF Marks, AnswersMove, AnswersOf
<1>5. CASE GetSelvitysInit(c)
  <2>1. ASSUME CreateSelvitys(c)
        PROVE  AnswersMove
    <3>1. PICK r \in Report : selvitykset' = Append(selvitykset, r)
      BY <2>1 DEF CreateSelvitys, Report, ReportStatuses
    <3>3. \A i \in Reports : selvitykset'[i] = selvitykset[i]
      BY <1>1, <3>1 DEF Reports, ReportData
    <3> QED BY <3>3 DEF AnswersMove, AnswersOf
  <2> QED BY <1>2, <1>5, <2>1 DEF GetSelvitysInit
<1>6. CASE OnSelvitysUpdate(c)
  <2>1. CASE c.step = "save"
    BY <1>2, <1>6, <2>1 DEF OnSelvitysUpdate, Checked, Refuse
  <2>2. CASE c.step = "store"
    <3>1. c.id \in Reports
      BY <1>1, <2>2 DEF HandlerOK, OfReport
    <3>2. selvitykset[c.id] \in Report
      BY <1>1, <3>1, VersionsAreNat DEF ReportData, Reports
    <3> QED BY <1>6, <2>2, <3>2, StoringMoves DEF OnSelvitysUpdate, Report
  <2> QED BY <1>6, <2>1, <2>2 DEF OnSelvitysUpdate
<1>7. CASE OnSelvitysSubmit(c)
  <2>1. CASE c.step = "submit_hakemus"
    BY <1>7, <2>1, StoringMoves DEF OnSelvitysSubmit, ReportStatuses
  <2>2. CASE c.step # "submit_hakemus"
    BY <1>2, <1>7, <2>2 DEF OnSelvitysSubmit, Checked, Refuse
  <2> QED BY <2>1, <2>2
<1>8. CASE OnChangeRequestResponse(c)
  <2>1. CASE c.step = "respond"
    BY <1>8, <2>1, StoringMoves DEF OnChangeRequestResponse, ReportStatuses
  <2>2. CASE c.step = "own_status"
    <3>1. c.id \in Reports
      BY <1>1, <2>2 DEF HandlerOK, OfReport
    <3>2. selvitykset' = [selvitykset EXCEPT ![c.id].own = "submitted"]
      BY <1>8, <2>2 DEF OnChangeRequestResponse
    <3> QED BY <1>1, <1>4, <3>1, <3>2, OwnMarks DEF ReportData
  <2>3. CASE c.step = "response"
    BY <1>2, <1>8, <2>3 DEF OnChangeRequestResponse, Checked, Refuse
  <2> QED BY <1>8, <2>1, <2>2, <2>3 DEF OnChangeRequestResponse
<1>9. CASE VerifyLoppuselvitysInformation(c)
  BY <1>2, <1>9 DEF VerifyLoppuselvitysInformation, Checked, Refuse
<1>10. CASE SetSelvitysAccepted(c)
  <2>1. CASE c.step = "send_selvitys"
    <3>1. c.id \in Reports
      BY <1>1, <2>1 DEF HandlerOK, OfReport
    <3>2. selvitykset' = [selvitykset EXCEPT ![c.id].emailed = TRUE]
      BY <1>10, <2>1 DEF SetSelvitysAccepted
    <3> QED BY <1>1, <1>4, <3>1, <3>2, EmailedMarks DEF ReportData
  <2>2. CASE c.step # "send_selvitys"
    BY <1>2, <1>10, <2>2 DEF SetSelvitysAccepted, Checked, Refuse
  <2> QED BY <2>1, <2>2
<1>11. CASE Taydennyspyynto(c)
  BY <1>3, <1>11 DEF Taydennyspyynto, ReportStatuses
<1>12. CASE CancelTaydennyspyynto(c)
  BY <1>2, <1>3, <1>12 DEF CancelTaydennyspyynto, ReportStatuses, Checked, Refuse
<1>13. CASE HandlerFails(c)
  BY <1>2, <1>13 DEF HandlerFails
<1> QED BY <1>5, <1>6, <1>7, <1>8, <1>9, <1>10, <1>11, <1>12, <1>13

\* Once an officer has verified a final report its answers change only in response to a change
\* request, while no handler was crossed.
THEOREM VerifiedStay == ReportSpec => VerifiedAnswersStay
<1>1. ReportInv /\ [ReportNext]_reportVars => [AnswersMove]_reportVars
  <2> SUFFICES ASSUME ReportInv, ReportNext
               PROVE  AnswersMove
    OBVIOUS
  <2>1. UNCHANGED selvitykset => AnswersMove
    BY DEF AnswersMove, AnswersOf
  <2>2. ASSUME NEW t \in Tabs,
               RedirectToNewSelvitys(t) \/ SelvitysApp(t) \/ Autosave(t) \/ Submit(t)
        PROVE  AnswersMove
    BY <2>1, <2>2 DEF RedirectToNewSelvitys, SelvitysApp, Autosave, Submit, Send
  <2>3. ASSUME NEW o \in Officers,
               \/ LoppuselvitysTab(o) \/ Asiatarkastus(o) \/ Taloustarkastus(o)
               \/ ValiselvitysEmail(o) \/ LoppuselvitysTarkastus(o)
        PROVE  AnswersMove
    BY <2>1, <2>3 DEF LoppuselvitysTab, Asiatarkastus, Taloustarkastus, ValiselvitysEmail,
       LoppuselvitysTarkastus, Send
  <2> QED BY <2>2, <2>3, AnswersOfHandlers DEF ReportNext
<1>2. [AnswersMove]_reportVars <=>
      [ \A i \in Reports :
          (/\ IsLoppuselvitys /\ hakemus.verified /\ InTurn
           /\ selvitykset'[i].answers # selvitykset[i].answers)
             => selvitykset[i].status = "pending_change_request" ]_reportVars
  BY DEF AnswersMove, AnswersOf
<1> QED BY <1>1, <1>2, ReportInvariance, PTL DEF ReportSpec, VerifiedAnswersStay

-----------------------------------------------------------------------------
(* Requests to change a granted application                                  *)

Pyynto == [parts : SUBSET ChangeParts, paatos : Nat]
Paatos == [request : Nat, status : Outcomes]
Form   == [loaded : BOOLEAN, list : Seq(Pyynto), asked : SUBSET ChangeParts, contact : BOOLEAN,
           clean : SUBSET ChangeParts, submitting : BOOLEAN]
PostSteps  == {"post", "posted", "fetch"}
DecisionSteps == Outcomes \union {"mail"}

\* What is under way is of a tab, or of an officer and about a request there is.
SentShape(c) ==
  c \in [step : PostSteps \union DecisionSteps, who : Sivut \union Officers, nr : Nat, request : Nat,
         parts : SUBSET ChangeParts, answered : BOOLEAN]
SentOK(c) ==
  /\ SentShape(c)
  /\ c.step \in PostSteps => c.who \in Sivut /\ c.request = 0
  /\ c.step \in DecisionSteps => c.who \in Officers /\ c.request \in Requests
  /\ c.step = "mail" => c.nr \in DOMAIN paatokset

\* A decision is of a request there is, and a request keeps a decision of its own.
DecisionsMatch ==
  /\ \A d \in DOMAIN paatokset : paatokset[d].request \in Requests
  /\ \A i \in Requests : pyynnot[i].paatos # Undecided =>
       pyynnot[i].paatos \in DOMAIN paatokset /\ paatokset[pyynnot[i].paatos].request = i

ChangeBase ==
  /\ pyynnot \in Seq(Pyynto) /\ paatokset \in Seq(Paatos)
  /\ DecisionsMatch
  /\ sivu \in [Sivut -> Form]
  /\ desk \in [Officers -> Seq(Pyynto)] /\ \A o \in Officers : DOMAIN desk[o] \subseteq Requests
  /\ \A c \in sent : SentOK(c)
  /\ mailed \subseteq DOMAIN paatokset
  /\ past \in [posts : 0..MaxPosts, decisions : 0..MaxDecisions, events : SUBSET Happened]

\* While officers decide on what there is, one at a time, a request is decided once.
DecidedOnce ==
  FreeOf({"stale", "meanwhile"}) =>
    /\ \A d \in DOMAIN paatokset : pyynnot[paatokset[d].request].paatos = d
    /\ \A c \in sent : c.step \in Outcomes => pyynnot[c.request].paatos = Undecided
    /\ \A c, d \in sent : c.step \in Outcomes /\ d.step \in Outcomes /\ c.request = d.request => c = d

\* A form is ticked while its page shows no open request, but for what was sent already.
OneOpen     == \A i, j \in New(pyynnot) : i = j
PostsWait   == \A c \in sent : c.step = "post" /\ c.parts # {} => New(pyynnot) = {}
OnePost     == \A c, d \in sent : c.step = "post" /\ d.step = "post" => c = d
FormsWait   == \A t \in Sivut : sivu[t].asked # {} /\ sivu[t].clean = {} => New(sivu[t].list) = {}
FetchesWait == \A c \in sent : c.step = "fetch" => sivu[c.who].asked = {} \/ sivu[c.who].clean # {}
OpenOnce ==
  FreeOf({"stale", "meanwhile", "again"}) =>
    OneOpen /\ PostsWait /\ OnePost /\ FormsWait /\ FetchesWait

\* While no two requests are open, the open one is the newest, and decisions follow requests.
OpenIsNewest ==
  FreeOf({"two_open"}) => \A i \in New(pyynnot) : i = Len(pyynnot)
DecidedInOrder ==
  FreeOf({"two_open", "stale", "meanwhile"}) =>
    \A d, e \in DOMAIN paatokset : d < e => paatokset[d].request < paatokset[e].request

ChangeInv == ChangeBase /\ DecidedOnce /\ OpenOnce /\ OpenIsNewest /\ DecidedInOrder

-----------------------------------------------------------------------------
(* Forms, and what is under way                                              *)

\* A form with one of its fields set.
WithSubmitting(p, x) == [p EXCEPT !.submitting = x]
WithContact(p, x)    == [p EXCEPT !.contact = x]
WithAsked(p, S)      == [p EXCEPT !.asked = S]
WithClean(p, S)      == [p EXCEPT !.clean = S]
WithList(p, l)       == [p EXCEPT !.list = l]
Shows(q, asked, clean, list) == q \in Form /\ q.asked = asked /\ q.clean = clean /\ q.list = list

LEMMA FormShape ==
  ASSUME NEW p \in Form
  PROVE  p = [loaded |-> p.loaded, list |-> p.list, asked |-> p.asked, contact |-> p.contact,
              clean |-> p.clean, submitting |-> p.submitting]
BY DEF Form
LEMMA SubmittingSet ==
  ASSUME NEW p \in Form, NEW x \in BOOLEAN
  PROVE  Shows(WithSubmitting(p, x), p.asked, p.clean, p.list)
BY FormShape DEF Form, WithSubmitting, Shows
LEMMA ContactSet ==
  ASSUME NEW p \in Form, NEW x \in BOOLEAN
  PROVE  Shows(WithContact(p, x), p.asked, p.clean, p.list)
BY FormShape DEF Form, WithContact, Shows
LEMMA AskedSet ==
  ASSUME NEW p \in Form, NEW S \in SUBSET ChangeParts
  PROVE  Shows(WithAsked(p, S), S, p.clean, p.list)
BY FormShape DEF Form, WithAsked, Shows
LEMMA CleanSet ==
  ASSUME NEW p \in Form, NEW S \in SUBSET ChangeParts
  PROVE  Shows(WithClean(p, S), p.asked, S, p.list)
BY FormShape DEF Form, WithClean, Shows
LEMMA ListSet ==
  ASSUME NEW p \in Form, NEW l \in Seq(Pyynto)
  PROVE  Shows(WithList(p, l), p.asked, p.clean, l)
BY FormShape DEF Form, WithList, Shows

LEMMA TabSet ==
  ASSUME NEW f \in [Sivut -> Form], NEW t \in Sivut, NEW q \in Form, NEW g, g = [f EXCEPT ![t] = q]
  PROVE  g \in [Sivut -> Form] /\ g[t] = q /\ \A u \in Sivut : u # t => g[u] = f[u]
OBVIOUS

\* What is under way, one step on.
SentAt(c, to)    == [c EXCEPT !.step = to]
Unanswered(c)    == [c EXCEPT !.answered = FALSE]
ToMail(c, n)     == [[c EXCEPT !.step = "mail"] EXCEPT !.nr = n]

LEMMA SentSet ==
  ASSUME NEW c, SentShape(c), NEW to \in PostSteps \union DecisionSteps, NEW n \in Nat
  PROVE  /\ /\ SentShape(SentAt(c, to)) /\ SentAt(c, to).step = to /\ SentAt(c, to).who = c.who
            /\ SentAt(c, to).request = c.request /\ SentAt(c, to).parts = c.parts
         /\ /\ SentShape(Unanswered(c)) /\ Unanswered(c).step = c.step /\ Unanswered(c).who = c.who
            /\ Unanswered(c).request = c.request /\ Unanswered(c).parts = c.parts
         /\ /\ SentShape(ToMail(c, n)) /\ ToMail(c, n).step = "mail" /\ ToMail(c, n).who = c.who
            /\ ToMail(c, n).request = c.request /\ ToMail(c, n).nr = n
<1>1. c = [step |-> c.step, who |-> c.who, nr |-> c.nr, request |-> c.request,
           parts |-> c.parts, answered |-> c.answered]
  BY DEF SentShape
<1>2. /\ SentShape(SentAt(c, to)) /\ SentAt(c, to).step = to /\ SentAt(c, to).who = c.who
      /\ SentAt(c, to).request = c.request /\ SentAt(c, to).parts = c.parts
  BY <1>1 DEF SentShape, SentAt
<1>3. PICK b \in BOOLEAN : b = FALSE
  OBVIOUS
<1>4. [c EXCEPT !.answered = b] = [step |-> c.step, who |-> c.who, nr |-> c.nr, request |-> c.request,
           parts |-> c.parts, answered |-> b]
  BY <1>1
<1>5. Unanswered(c) = [c EXCEPT !.answered = b]
  BY ONLY <1>3 DEF Unanswered
<1>6. /\ SentShape(Unanswered(c)) /\ Unanswered(c).step = c.step /\ Unanswered(c).who = c.who
      /\ Unanswered(c).request = c.request /\ Unanswered(c).parts = c.parts
  BY <1>4, <1>5 DEF SentShape
<1>7. PICK e : e = [c EXCEPT !.step = "mail"]
  OBVIOUS
<1>8. e = [step |-> "mail", who |-> c.who, nr |-> c.nr, request |-> c.request,
           parts |-> c.parts, answered |-> c.answered]
  BY <1>1, <1>7
<1>9. [e EXCEPT !.nr = n] = [step |-> "mail", who |-> c.who, nr |-> n, request |-> c.request,
           parts |-> c.parts, answered |-> c.answered]
  BY <1>8
<1>10. ToMail(c, n) = [e EXCEPT !.nr = n]
  BY ONLY <1>7 DEF ToMail
<1>11. /\ SentShape(ToMail(c, n)) /\ ToMail(c, n).step = "mail" /\ ToMail(c, n).who = c.who
       /\ ToMail(c, n).request = c.request /\ ToMail(c, n).nr = n
  BY <1>9, <1>10 DEF SentShape, DecisionSteps
<1> QED BY <1>2, <1>6, <1>11

\* What has happened has happened.
PastGrows ==
  past' \in [posts : 0..MaxPosts, decisions : 0..MaxDecisions, events : SUBSET Happened]
  /\ past.events \subseteq past'.events

LEMMA FreeBefore ==
  ASSUME PastGrows, NEW S, FreeOf(S)'
  PROVE  FreeOf(S)
BY DEF PastGrows, FreeOf

LEMMA OccursGrows ==
  ASSUME ChangeBase, NEW S \in SUBSET Happened, Occurs(S)
  PROVE  PastGrows /\ past'.events = past.events \union S
<1>1. past = [posts |-> past.posts, decisions |-> past.decisions, events |-> past.events]
  BY DEF ChangeBase
<1>2. past' = [posts |-> past.posts, decisions |-> past.decisions, events |-> past.events \union S]
  BY <1>1 DEF Occurs
<1> QED BY <1>2 DEF PastGrows, ChangeBase

LEMMA UnchangedPast ==
  ASSUME ChangeBase, UNCHANGED past
  PROVE  PastGrows
BY DEF ChangeBase, PastGrows

-----------------------------------------------------------------------------
(* Steps that leave requests and decisions as they are                       *)

\* What such a step has to see to.
QuietChange ==
  /\ UNCHANGED <<pyynnot, paatokset>> /\ PastGrows
  /\ sivu' \in [Sivut -> Form]
  /\ desk' \in [Officers -> Seq(Pyynto)] /\ \A o \in Officers : DOMAIN desk'[o] \subseteq Requests
  /\ \A c \in sent' : SentOK(c)
  /\ mailed' \subseteq DOMAIN paatokset

LEMMA QuietPreserves ==
  ASSUME ChangeInv, QuietChange,
         DecidedOnce' \/ \A c \in sent' : c.step \in Outcomes => c \in sent,
         FreeOf({"stale", "meanwhile", "again"})' => PostsWait' /\ OnePost' /\ FormsWait' /\ FetchesWait'
  PROVE  ChangeInv'
<1>1. ChangeBase'
  <2>1. DecisionsMatch'
    BY DEF ChangeInv, ChangeBase, QuietChange, DecisionsMatch, Requests
  <2>2. \A c \in sent' : SentOK(c)'
    BY DEF QuietChange, SentOK, SentShape, Requests
  <2>3. pyynnot' \in Seq(Pyynto) /\ paatokset' \in Seq(Paatos)
    BY DEF ChangeInv, ChangeBase, QuietChange
  <2>4. Requests' = Requests
    BY DEF QuietChange, Requests
  <2> QED BY <2>1, <2>2, <2>3, <2>4 DEF QuietChange, PastGrows, ChangeBase
<1>2. DecidedOnce'
  <2>1. FreeOf({"stale", "meanwhile"})' => FreeOf({"stale", "meanwhile"})
    BY FreeBefore DEF QuietChange
  <2> QED BY <2>1 DEF ChangeInv, DecidedOnce, QuietChange
<1>3. OpenOnce'
  <2>1. FreeOf({"stale", "meanwhile", "again"})' => OneOpen
    BY FreeBefore DEF QuietChange, ChangeInv, OpenOnce
  <2> QED BY <2>1 DEF OpenOnce, OneOpen, QuietChange
<1>4. OpenIsNewest' /\ DecidedInOrder'
  <2>1. /\ FreeOf({"two_open"})' => FreeOf({"two_open"})
        /\ FreeOf({"two_open", "stale", "meanwhile"})' => FreeOf({"two_open", "stale", "meanwhile"})
    BY FreeBefore DEF QuietChange
  <2> QED BY <2>1 DEF ChangeInv, OpenIsNewest, DecidedInOrder, QuietChange
<1> QED BY <1>1, <1>2, <1>3, <1>4 DEF ChangeInv

\* What the base gives a step that leaves a variable alone.
LEMMA QuietParts ==
  ASSUME ChangeInv
  PROVE  /\ ChangeBase /\ sivu \in [Sivut -> Form]
         /\ desk \in [Officers -> Seq(Pyynto)] /\ \A o \in Officers : DOMAIN desk[o] \subseteq Requests
         /\ \A c \in sent : SentOK(c)
         /\ mailed \subseteq DOMAIN paatokset
         /\ pyynnot \in Seq(Pyynto)
BY DEF ChangeInv, ChangeBase

LEMMA FetchPropsPreserves ==
  ASSUME ChangeInv, NEW t \in Sivut, FetchProps(t)
  PROVE  ChangeInv'
<1>1. PICK q : q = [loaded |-> TRUE, list |-> pyynnot, asked |-> {},
                    contact |-> FALSE, clean |-> {}, submitting |-> FALSE]
  OBVIOUS
<1>2. q \in Form /\ q.asked = {}
  BY <1>1, QuietParts DEF Form
<1>3. sivu' = [sivu EXCEPT ![t] = q] /\ UNCHANGED <<pyynnot, paatokset, desk, sent, mailed, past>>
      /\ \A c \in sent : c.who # t
  BY <1>1 DEF FetchProps
<1>4. sivu' \in [Sivut -> Form] /\ sivu'[t] = q /\ \A u \in Sivut : u # t => sivu'[u] = sivu[u]
  BY <1>2, <1>3, QuietParts, TabSet
<1>5. QuietChange
  BY <1>3, <1>4, QuietParts, UnchangedPast DEF QuietChange
<1>6. ASSUME FreeOf({"stale", "meanwhile", "again"})'
      PROVE  PostsWait' /\ OnePost' /\ FormsWait' /\ FetchesWait'
  <2>1. PostsWait /\ OnePost /\ FormsWait /\ FetchesWait
    BY <1>5, <1>6, FreeBefore DEF QuietChange, ChangeInv, OpenOnce
  <2>2. \A c \in sent : c.step = "fetch" => c.who \in Sivut
    BY QuietParts DEF SentOK, PostSteps
  <2>3. PostsWait' /\ OnePost'
    BY <1>3, <2>1 DEF PostsWait, OnePost
  <2>4. FormsWait'
    BY <1>2, <1>4, <2>1 DEF FormsWait
  <2>5. FetchesWait'
    BY <1>3, <1>4, <2>1, <2>2 DEF FetchesWait
  <2> QED BY <2>3, <2>4, <2>5
<1> QED BY <1>3, <1>5, <1>6, QuietPreserves

LEMMA FormSectionPreserves ==
  ASSUME ChangeInv, NEW t \in Sivut, MuutoshakemusFormSection(t)
  PROVE  ChangeInv'
<1>1. PICK asked \in Asks : sivu' = [sivu EXCEPT ![t].asked = asked]
  BY DEF MuutoshakemusFormSection
<1>2. asked \in SUBSET ChangeParts /\ sivu[t] \in Form /\ New(sivu[t].list) = {}
  BY ChangeAssumption, QuietParts DEF MuutoshakemusFormSection
<1>3. PICK q : /\ q = WithAsked(sivu[t], asked) /\ q \in Form
               /\ q.asked = asked /\ q.clean = sivu[t].clean /\ q.list = sivu[t].list
  BY <1>2, AskedSet DEF Shows
<1>4. sivu' = [sivu EXCEPT ![t] = q] /\ UNCHANGED <<pyynnot, paatokset, desk, sent, mailed>>
  BY <1>1, <1>3, QuietParts DEF MuutoshakemusFormSection, WithAsked
<1>5. sivu' \in [Sivut -> Form] /\ sivu'[t] = q /\ \A u \in Sivut : u # t => sivu'[u] = sivu[u]
  BY <1>3, <1>4, QuietParts, TabSet
<1>6. PICK S \in SUBSET Happened : /\ Occurs(S)
                                   /\ "again" \in S \/ \A c \in sent : c.step = "fetch" => c.who # t
  BY DEF MuutoshakemusFormSection, Happened
<1>7. PastGrows /\ past'.events = past.events \union S
  BY <1>6, OccursGrows, QuietParts
<1>8. QuietChange
  BY <1>4, <1>5, <1>7, QuietParts DEF QuietChange
<1>9. ASSUME FreeOf({"stale", "meanwhile", "again"})'
      PROVE  PostsWait' /\ OnePost' /\ FormsWait' /\ FetchesWait'
  <2>1. PostsWait /\ OnePost /\ FormsWait /\ FetchesWait
    BY <1>7, <1>9, FreeBefore DEF ChangeInv, OpenOnce
  <2>2. \A c \in sent : c.step = "fetch" => c.who \in Sivut
    BY QuietParts DEF SentOK, PostSteps
  <2>3. PostsWait' /\ OnePost'
    BY <1>4, <2>1 DEF PostsWait, OnePost
  <2>4. FormsWait'
    BY <1>2, <1>3, <1>5, <2>1 DEF FormsWait
  <2>5. "again" \notin S
    BY <1>7, <1>9 DEF FreeOf
  <2>6. FetchesWait'
    BY <1>4, <1>5, <1>6, <2>1, <2>2, <2>5 DEF FetchesWait
  <2> QED BY <2>3, <2>4, <2>6
<1> QED BY <1>4, <1>8, <1>9, QuietPreserves

\* A form whose ticked parts stay, and what they were when it was clean, and what list it shows.
SameForm(t) ==
  /\ sivu' \in [Sivut -> Form]
  /\ \A u \in Sivut : u # t => sivu'[u] = sivu[u]
  /\ sivu'[t].asked = sivu[t].asked /\ sivu'[t].clean = sivu[t].clean /\ sivu'[t].list = sivu[t].list

LEMMA SameFormsWait ==
  ASSUME NEW t \in Sivut, SameForm(t)
  PROVE  /\ FormsWait => FormsWait'
         /\ \A u \in Sivut : /\ sivu'[u].asked = sivu[u].asked /\ sivu'[u].clean = sivu[u].clean
BY DEF SameForm, FormsWait

LEMMA ContactPreserves ==
  ASSUME ChangeInv, NEW t \in Sivut, ContactPerson(t)
  PROVE  ChangeInv'
<1>1. PICK b \in BOOLEAN : b = TRUE
  OBVIOUS
<1>2. PICK q : /\ q = WithContact(sivu[t], b) /\ q \in Form
               /\ q.asked = sivu[t].asked /\ q.clean = sivu[t].clean /\ q.list = sivu[t].list
  BY QuietParts, ContactSet DEF Shows
<1>3. sivu' = [sivu EXCEPT ![t].contact = b]
  BY ONLY ContactPerson(t), <1>1 DEF ContactPerson
<1>4. sivu' = [sivu EXCEPT ![t] = q]
  BY <1>2, <1>3, QuietParts DEF WithContact
<1>5. SameForm(t)
  BY <1>2, <1>4, QuietParts, TabSet DEF SameForm
<1>6. UNCHANGED <<pyynnot, paatokset, desk, sent, mailed, past>>
  BY DEF ContactPerson
<1>7. QuietChange
  BY <1>5, <1>6, QuietParts, UnchangedPast DEF QuietChange, SameForm
<1>8. ASSUME FreeOf({"stale", "meanwhile", "again"})'
      PROVE  PostsWait' /\ OnePost' /\ FormsWait' /\ FetchesWait'
  <2>1. PostsWait /\ OnePost /\ FormsWait /\ FetchesWait
    BY <1>7, <1>8, FreeBefore DEF QuietChange, ChangeInv, OpenOnce
  <2>2. \A c \in sent : c.step = "fetch" => c.who \in Sivut
    BY QuietParts DEF SentOK, PostSteps
  <2> QED BY <1>5, <1>6, <2>1, <2>2, SameFormsWait DEF PostsWait, OnePost, FetchesWait
<1> QED BY <1>6, <1>7, <1>8, QuietPreserves

\* A form sent: of a page that shows what there is, with ticks of its own, or something occurred.
LEMMA SubmitPreserves ==
  ASSUME ChangeInv, NEW t \in Sivut, OnSubmitMuutoshakemus(t)
  PROVE  ChangeInv'
<1>1. PICK b \in BOOLEAN : b = TRUE
  OBVIOUS
<1>2. PICK q : /\ q = WithSubmitting(sivu[t], b) /\ q \in Form
               /\ q.asked = sivu[t].asked /\ q.clean = sivu[t].clean /\ q.list = sivu[t].list
  BY QuietParts, SubmittingSet DEF Shows
<1>3. sivu' = [sivu EXCEPT ![t].submitting = b]
  BY ONLY OnSubmitMuutoshakemus(t), <1>1 DEF OnSubmitMuutoshakemus
<1>4. sivu' = [sivu EXCEPT ![t] = q]
  BY <1>2, <1>3, QuietParts DEF WithSubmitting
<1>5. SameForm(t)
  BY <1>2, <1>4, QuietParts, TabSet DEF SameForm
<1>6. past.posts \in Nat /\ past.posts < MaxPosts /\ past.posts + 1 \in 0..MaxPosts
  BY QuietParts, ChangeAssumption DEF ChangeBase, OnSubmitMuutoshakemus
<1>7. PICK d : /\ d = [step |-> "post", who |-> t, nr |-> past.posts, request |-> 0,
                       parts |-> sivu[t].asked, answered |-> b]
               /\ sent' = sent \union {d}
  BY <1>1 DEF OnSubmitMuutoshakemus
<1>8. SentOK(d) /\ d.step = "post" /\ d.parts = sivu[t].asked
  <2>1. sivu[t].asked \in SUBSET ChangeParts
    BY QuietParts DEF Form
  <2>2. /\ d.step = "post" /\ d.who = t /\ d.nr = past.posts /\ d.request = 0 /\ d.parts = sivu[t].asked
    BY <1>7
  <2>3. SentShape(d)
    BY <1>6, <1>7, <2>1 DEF SentShape, PostSteps
  <2>4. d.step \notin DecisionSteps /\ d.step # "mail"
    BY <2>2 DEF DecisionSteps, Outcomes
  <2> QED BY <2>2, <2>3, <2>4 DEF SentOK
<1> DEFINE behind == IF sivu[t].list # pyynnot THEN {"stale"} ELSE {}
           twice  == IF InFlight({"post"}) THEN {"meanwhile"} ELSE {}
           kept   == IF sivu[t].asked # {} /\ sivu[t].clean # {} THEN {"again"} ELSE {}
<1>9. /\ behind \subseteq {"stale"} /\ ("stale" \notin behind => sivu[t].list = pyynnot)
      /\ twice \subseteq {"meanwhile"} /\ ("meanwhile" \notin twice => ~InFlight({"post"}))
      /\ kept \subseteq {"again"} /\ ("again" \notin kept => sivu[t].asked = {} \/ sivu[t].clean = {})
  OBVIOUS
<1>10. past' = [past EXCEPT !.posts = @ + 1, !.events = @ \union behind \union twice \union kept]
  BY DEF OnSubmitMuutoshakemus
<1> HIDE DEF behind, twice, kept
<1>11. past'.events = past.events \union behind \union twice \union kept /\ PastGrows
  <2>1. past = [posts |-> past.posts, decisions |-> past.decisions, events |-> past.events]
        /\ past.decisions \in 0..MaxDecisions /\ past.events \in SUBSET Happened
    BY QuietParts DEF ChangeBase
  <2>2. PICK p : p = [past EXCEPT !.posts = past.posts + 1]
    OBVIOUS
  <2>3. p = [posts |-> past.posts + 1, decisions |-> past.decisions, events |-> past.events]
    BY <2>1, <2>2
  <2>4. past' = [p EXCEPT !.events = past.events \union behind \union twice \union kept]
    BY <1>10, <2>2, <2>3
  <2>5. past' = [posts |-> past.posts + 1, decisions |-> past.decisions,
                 events |-> past.events \union behind \union twice \union kept]
    BY <2>3, <2>4
  <2> QED BY <1>6, <1>9, <2>1, <2>5 DEF PastGrows, Happened
<1>12. UNCHANGED <<pyynnot, paatokset, desk, mailed>>
  BY DEF OnSubmitMuutoshakemus
<1>13. QuietChange
  BY <1>5, <1>7, <1>8, <1>11, <1>12, QuietParts DEF QuietChange, SameForm
<1>14. ASSUME FreeOf({"stale", "meanwhile", "again"})'
       PROVE  PostsWait' /\ OnePost' /\ FormsWait' /\ FetchesWait'
  <2>1. PostsWait /\ OnePost /\ FormsWait /\ FetchesWait
    BY <1>11, <1>14, FreeBefore DEF ChangeInv, OpenOnce
  <2>2. sivu[t].list = pyynnot /\ ~InFlight({"post"}) /\ (sivu[t].asked = {} \/ sivu[t].clean = {})
    BY <1>9, <1>11, <1>14 DEF FreeOf
  <2>3. \A c \in sent : c.step = "fetch" => c.who \in Sivut
    BY QuietParts DEF SentOK, PostSteps
  <2>4. d.parts # {} => New(pyynnot) = {}
    BY <1>8, <2>1, <2>2 DEF FormsWait
  <2>5. PostsWait'
    BY <1>7, <1>8, <1>12, <2>1, <2>4 DEF PostsWait
  <2>6. OnePost'
    BY <1>7, <1>8, <2>1, <2>2 DEF OnePost, InFlight
  <2>7. FormsWait' /\ FetchesWait'
    BY <1>5, <1>7, <1>8, <2>1, <2>3, SameFormsWait DEF FetchesWait
  <2> QED BY <2>5, <2>6, <2>7
<1>15. \A c \in sent' : c.step \in Outcomes => c \in sent
  BY <1>7, <1>8 DEF Outcomes
<1> QED BY <1>13, <1>14, <1>15, QuietPreserves

\* One thing under way goes on, or ends.
SentGoesOn(c, d) == sent' = sent \ {c} \/ (sent' = (sent \ {c}) \union {d} /\ SentOK(d) /\ d.who = c.who)

LEMMA TimeoutPreserves ==
  ASSUME ChangeInv, NEW c \in sent, Timeout(c)
  PROVE  ChangeInv'
<1>1. PICK d : /\ d = Unanswered(c) /\ SentShape(d) /\ d.step = c.step /\ d.who = c.who
               /\ d.request = c.request /\ d.parts = c.parts
  <2>1. SentShape(c)
    BY QuietParts DEF SentOK
  <2>2. 0 \in Nat /\ "post" \in PostSteps \union DecisionSteps
    BY DEF PostSteps
  <2> QED BY <2>1, <2>2, SentSet
<1>2. c.step \in {"post", "posted"} /\ SentOK(c) /\ c.who \in Sivut
  BY QuietParts DEF Timeout, SentOK, PostSteps
<1>3. SentOK(d)
  BY <1>1, <1>2 DEF SentOK, PostSteps, DecisionSteps, Outcomes
<1>4. PICK t \in Sivut : t = c.who
  BY <1>2
<1>5. PICK b \in BOOLEAN : b = FALSE
  OBVIOUS
<1>6. PICK q : /\ q = WithSubmitting(sivu[t], b) /\ q \in Form
               /\ q.asked = sivu[t].asked /\ q.clean = sivu[t].clean /\ q.list = sivu[t].list
  BY QuietParts, SubmittingSet DEF Shows
<1>7. sivu' = [sivu EXCEPT ![t].submitting = b]
  BY ONLY Timeout(c), <1>4, <1>5 DEF Timeout
<1>8. sivu' = [sivu EXCEPT ![t] = q]
  BY <1>6, <1>7, QuietParts DEF WithSubmitting
<1>9. SameForm(t)
  BY <1>6, <1>8, QuietParts, TabSet DEF SameForm
<1>10. /\ sent' = (sent \ {c}) \union {d} /\ Occurs({"timeout"})
       /\ UNCHANGED <<pyynnot, paatokset, desk, mailed>>
  BY <1>1 DEF Timeout, Unanswered
<1>11. PastGrows
  BY <1>10, OccursGrows, QuietParts DEF Happened
<1>12. QuietChange
  BY <1>3, <1>9, <1>10, <1>11, QuietParts DEF QuietChange, SameForm
<1>13. ASSUME FreeOf({"stale", "meanwhile", "again"})'
       PROVE  PostsWait' /\ OnePost' /\ FormsWait' /\ FetchesWait'
  <2>1. PostsWait /\ OnePost /\ FormsWait /\ FetchesWait
    BY <1>11, <1>13, FreeBefore DEF ChangeInv, OpenOnce
  <2>2. \A e \in sent : e.step = "fetch" => e.who \in Sivut
    BY QuietParts DEF SentOK, PostSteps
  <2>3. PostsWait'
    BY <1>1, <1>10, <2>1 DEF PostsWait
  <2>4. OnePost'
    BY <1>1, <1>10, <2>1 DEF OnePost
  <2>5. FormsWait' /\ FetchesWait'
    BY <1>1, <1>2, <1>9, <1>10, <2>1, <2>2, SameFormsWait DEF FetchesWait
  <2> QED BY <2>3, <2>4, <2>5
<1>14. \A e \in sent' : e.step \in Outcomes => e \in sent
  BY <1>1, <1>2, <1>10 DEF Outcomes
<1> QED BY <1>12, <1>13, <1>14, QuietPreserves

\* The form as sent is the clean one.
LEMMA AnsweredForm ==
  ASSUME ChangeInv, NEW t \in Sivut, NEW P \in SUBSET ChangeParts,
         sivu' = [sivu EXCEPT ![t].submitting = FALSE, ![t].asked = P, ![t].contact = FALSE, ![t].clean = P]
  PROVE  /\ sivu' \in [Sivut -> Form] /\ \A u \in Sivut : u # t => sivu'[u] = sivu[u]
         /\ sivu'[t].asked = P /\ sivu'[t].clean = P
<1>1. PICK b \in BOOLEAN : b = FALSE
  OBVIOUS
<1>2. PICK f : f = [sivu EXCEPT ![t].submitting = b]
  OBVIOUS
<1>3. PICK g : g = [f EXCEPT ![t].asked = P]
  OBVIOUS
<1>4. PICK h : h = [g EXCEPT ![t].contact = b]
  OBVIOUS
<1>5. sivu' = [h EXCEPT ![t].clean = P]
  BY ONLY <1>1, <1>2, <1>3, <1>4,
     sivu' = [sivu EXCEPT ![t].submitting = FALSE, ![t].asked = P, ![t].contact = FALSE, ![t].clean = P]
<1>6. f \in [Sivut -> Form] /\ \A u \in Sivut : u # t => f[u] = sivu[u]
  <2>1. PICK q \in Form : q = WithSubmitting(sivu[t], b)
    BY QuietParts, SubmittingSet DEF Shows
  <2>2. f = [sivu EXCEPT ![t] = q]
    BY <1>2, <2>1, QuietParts DEF WithSubmitting
  <2> QED BY <2>2, QuietParts, TabSet
<1>7. g \in [Sivut -> Form] /\ g[t].asked = P /\ \A u \in Sivut : u # t => g[u] = sivu[u]
  <2>1. PICK q \in Form : q = WithAsked(f[t], P) /\ q.asked = P
    BY <1>6, AskedSet DEF Shows
  <2>2. g = [f EXCEPT ![t] = q]
    BY <1>3, <1>6, <2>1 DEF WithAsked
  <2> QED BY <1>6, <2>1, <2>2, TabSet
<1>8. h \in [Sivut -> Form] /\ h[t].asked = P /\ \A u \in Sivut : u # t => h[u] = sivu[u]
  <2>1. PICK q \in Form : q = WithContact(g[t], b) /\ q.asked = P
    BY <1>7, ContactSet DEF Shows
  <2>2. h = [g EXCEPT ![t] = q]
    BY <1>4, <1>7, <2>1 DEF WithContact
  <2> QED BY <1>7, <2>1, <2>2, TabSet
<1>9. PICK q \in Form : q = WithClean(h[t], P) /\ q.asked = P /\ q.clean = P
  BY <1>8, CleanSet DEF Shows
<1>10. sivu' = [h EXCEPT ![t] = q]
  BY <1>5, <1>8, <1>9 DEF WithClean
<1>11. t \in Sivut
  OBVIOUS
<1>12. PICK k : k = sivu'
  OBVIOUS
<1>13. k \in [Sivut -> Form] /\ k[t] = q /\ \A u \in Sivut : u # t => k[u] = h[u]
  BY ONLY <1>8, <1>9, <1>10, <1>11, <1>12, TabSet
<1> QED BY <1>8, <1>9, <1>12, <1>13

LEMMA PostSucceededPreserves ==
  ASSUME ChangeInv, NEW c \in sent, PostSucceeded(c)
  PROVE  ChangeInv'
<1>1. c.step = "posted" /\ SentOK(c) /\ c.who \in Sivut /\ c.parts \in SUBSET ChangeParts
  BY QuietParts DEF PostSucceeded, SentOK, PostSteps, SentShape
<1>2. UNCHANGED <<pyynnot, paatokset, desk, mailed, past>>
  BY DEF PostSucceeded
<1>3. PastGrows
  BY <1>2, QuietParts, UnchangedPast
<1>4. \A e \in sent : e.step = "fetch" => e.who \in Sivut
  BY QuietParts DEF SentOK, PostSteps
<1>5. CASE c.answered
  <2>1. PICK d : /\ d = SentAt(c, "fetch") /\ SentShape(d) /\ d.step = "fetch" /\ d.who = c.who
                 /\ d.request = c.request
    BY <1>1, SentSet DEF SentOK, PostSteps
  <2>2. SentOK(d)
    BY <1>1, <2>1 DEF SentOK, PostSteps, DecisionSteps, Outcomes
  <2>3. sent' = (sent \ {c}) \union {d}
    BY <1>5, <2>1 DEF PostSucceeded, SentAt
  <2>4. PICK t \in Sivut : t = c.who
    BY <1>1
  <2>5. sivu' = [sivu EXCEPT ![t].submitting = FALSE, ![t].asked = c.parts, ![t].contact = FALSE,
                             ![t].clean = c.parts]
    BY <1>5, <2>4 DEF PostSucceeded
  <2>6. /\ sivu' \in [Sivut -> Form] /\ \A u \in Sivut : u # t => sivu'[u] = sivu[u]
        /\ sivu'[t].asked = c.parts /\ sivu'[t].clean = c.parts
    BY <1>1, <2>5, AnsweredForm
  <2>7. QuietChange
    BY <1>2, <1>3, <2>2, <2>3, <2>6, QuietParts DEF QuietChange
  <2>8. ASSUME FreeOf({"stale", "meanwhile", "again"})'
        PROVE  PostsWait' /\ OnePost' /\ FormsWait' /\ FetchesWait'
    <3>1. PostsWait /\ OnePost /\ FormsWait /\ FetchesWait
      BY <1>3, <2>8, FreeBefore DEF ChangeInv, OpenOnce
    <3>2. PostsWait' /\ OnePost'
      BY <1>2, <2>1, <2>3, <3>1 DEF PostsWait, OnePost
    <3>3. FormsWait'
      BY <2>6, <3>1 DEF FormsWait
    <3>4. FetchesWait'
      BY <1>4, <2>1, <2>3, <2>4, <2>6, <3>1 DEF FetchesWait
    <3> QED BY <3>2, <3>3, <3>4
  <2>9. \A e \in sent' : e.step \in Outcomes => e \in sent
    BY <2>1, <2>3 DEF Outcomes
  <2> QED BY <2>7, <2>8, <2>9, QuietPreserves
<1>6. CASE ~c.answered
  <2>1. sent' = sent \ {c} /\ UNCHANGED sivu
    BY <1>6 DEF PostSucceeded
  <2>2. QuietChange
    BY <1>2, <1>3, <2>1, QuietParts DEF QuietChange
  <2>3. ASSUME FreeOf({"stale", "meanwhile", "again"})'
        PROVE  PostsWait' /\ OnePost' /\ FormsWait' /\ FetchesWait'
    <3>1. PostsWait /\ OnePost /\ FormsWait /\ FetchesWait
      BY <1>3, <2>3, FreeBefore DEF ChangeInv, OpenOnce
    <3> QED BY <1>2, <2>1, <3>1 DEF PostsWait, OnePost, FormsWait, FetchesWait
  <2> QED BY <2>1, <2>2, <2>3, QuietPreserves
<1> QED BY <1>5, <1>6

LEMMA FetchPreserves ==
  ASSUME ChangeInv, NEW c \in sent, FetchMuutoshakemukset(c)
  PROVE  ChangeInv'
<1>1. c.step = "fetch" /\ SentOK(c) /\ c.who \in Sivut
  BY QuietParts DEF FetchMuutoshakemukset, SentOK, PostSteps
<1>2. UNCHANGED <<pyynnot, paatokset, desk, mailed, past>> /\ sent' = sent \ {c}
  BY DEF FetchMuutoshakemukset
<1>3. PastGrows
  BY <1>2, QuietParts, UnchangedPast
<1>4. PICK t \in Sivut : t = c.who
  BY <1>1
<1>5. PICK q : /\ q = WithList(sivu[t], pyynnot) /\ q \in Form
               /\ q.asked = sivu[t].asked /\ q.clean = sivu[t].clean /\ q.list = pyynnot
  BY QuietParts, ListSet DEF Shows
<1>6. sivu' = [sivu EXCEPT ![t].list = pyynnot]
  BY <1>4 DEF FetchMuutoshakemukset
<1>7. sivu' = [sivu EXCEPT ![t] = q]
  BY <1>5, <1>6, QuietParts DEF WithList
<1>8. sivu' \in [Sivut -> Form] /\ sivu'[t] = q /\ \A u \in Sivut : u # t => sivu'[u] = sivu[u]
  BY <1>5, <1>7, QuietParts, TabSet
<1>9. QuietChange
  BY <1>2, <1>3, <1>8, QuietParts DEF QuietChange
<1>10. ASSUME FreeOf({"stale", "meanwhile", "again"})'
       PROVE  PostsWait' /\ OnePost' /\ FormsWait' /\ FetchesWait'
  <2>1. PostsWait /\ OnePost /\ FormsWait /\ FetchesWait
    BY <1>3, <1>10, FreeBefore DEF ChangeInv, OpenOnce
  <2>2. \A e \in sent : e.step = "fetch" => e.who \in Sivut
    BY QuietParts DEF SentOK, PostSteps
  <2>3. sivu[t].asked = {} \/ sivu[t].clean # {}
    BY <1>1, <1>4, <2>1 DEF FetchesWait
  <2>4. PostsWait' /\ OnePost'
    BY <1>2, <2>1 DEF PostsWait, OnePost
  <2>5. FormsWait'
    BY <1>5, <1>8, <2>1, <2>3 DEF FormsWait
  <2>6. FetchesWait'
    BY <1>2, <1>5, <1>8, <2>1, <2>2 DEF FetchesWait
  <2> QED BY <2>4, <2>5, <2>6
<1> QED BY <1>2, <1>9, <1>10, QuietPreserves

LEMMA MailPreserves ==
  ASSUME ChangeInv, NEW c \in sent, SendMuutoshakemusPaatos(c)
  PROVE  ChangeInv'
<1>1. c.step = "mail" /\ SentOK(c) /\ c.nr \in DOMAIN paatokset
  BY QuietParts DEF SendMuutoshakemusPaatos, SentOK
<1>2. /\ UNCHANGED <<pyynnot, paatokset, sivu, past>> /\ sent' = sent \ {c}
      /\ mailed' = mailed \union {c.nr} /\ desk' = [desk EXCEPT ![c.who] = pyynnot]
  BY DEF SendMuutoshakemusPaatos
<1>3. PastGrows
  BY <1>2, QuietParts, UnchangedPast
<1>4. desk' \in [Officers -> Seq(Pyynto)] /\ \A o \in Officers : DOMAIN desk'[o] \subseteq Requests
  BY <1>2, QuietParts DEF Requests
<1>5. QuietChange
  BY <1>1, <1>2, <1>3, <1>4, QuietParts DEF QuietChange
<1>6. ASSUME FreeOf({"stale", "meanwhile", "again"})'
      PROVE  PostsWait' /\ OnePost' /\ FormsWait' /\ FetchesWait'
  <2>1. PostsWait /\ OnePost /\ FormsWait /\ FetchesWait
    BY <1>3, <1>6, FreeBefore DEF ChangeInv, OpenOnce
  <2> QED BY <1>2, <2>1 DEF PostsWait, OnePost, FormsWait, FetchesWait
<1> QED BY <1>2, <1>5, <1>6, QuietPreserves

LEMMA RequestFailsPreserves ==
  ASSUME ChangeInv, NEW c \in sent, RequestFails(c)
  PROVE  ChangeInv'
<1>1. /\ sent' = sent \ {c} /\ Occurs({"failure"}) /\ UNCHANGED <<pyynnot, paatokset, desk, mailed>>
  BY DEF RequestFails
<1>2. PastGrows
  BY <1>1, OccursGrows, QuietParts DEF Happened
<1>3. /\ sivu' \in [Sivut -> Form]
      /\ FormsWait => FormsWait'
      /\ \A u \in Sivut : sivu'[u].asked = sivu[u].asked /\ sivu'[u].clean = sivu[u].clean
  <2>1. CASE c.step = "post" /\ c.answered
    <3>1. PICK t \in Sivut : t = c.who
      BY <2>1, QuietParts DEF SentOK, PostSteps
    <3>2. PICK b \in BOOLEAN : b = FALSE
      OBVIOUS
    <3>3. PICK q : /\ q = WithSubmitting(sivu[t], b) /\ q \in Form
                   /\ q.asked = sivu[t].asked /\ q.clean = sivu[t].clean /\ q.list = sivu[t].list
      BY QuietParts, SubmittingSet DEF Shows
    <3>4. sivu' = [sivu EXCEPT ![t].submitting = b]
      BY ONLY RequestFails(c), <2>1, <3>1, <3>2 DEF RequestFails
    <3>5. sivu' = [sivu EXCEPT ![t] = q]
      BY <3>3, <3>4, QuietParts DEF WithSubmitting
    <3>6. SameForm(t)
      BY <3>3, <3>5, QuietParts, TabSet DEF SameForm
    <3> QED BY <3>6, SameFormsWait DEF SameForm
  <2>2. CASE ~(c.step = "post" /\ c.answered)
    <3>1. sivu' = sivu
      BY <2>2 DEF RequestFails
    <3> QED BY <3>1, QuietParts DEF FormsWait
  <2> QED BY <2>1, <2>2
<1>4. QuietChange
  BY <1>1, <1>2, <1>3, QuietParts DEF QuietChange
<1>5. ASSUME FreeOf({"stale", "meanwhile", "again"})'
      PROVE  PostsWait' /\ OnePost' /\ FormsWait' /\ FetchesWait'
  <2>1. PostsWait /\ OnePost /\ FormsWait /\ FetchesWait
    BY <1>2, <1>5, FreeBefore DEF ChangeInv, OpenOnce
  <2>2. \A e \in sent : e.step = "fetch" => e.who \in Sivut
    BY QuietParts DEF SentOK, PostSteps
  <2> QED BY <1>1, <1>3, <2>1, <2>2 DEF PostsWait, OnePost, FetchesWait
<1> QED BY <1>1, <1>4, <1>5, QuietPreserves

LEMMA DeskPreserves ==
  ASSUME ChangeInv, NEW o \in Officers, MuutoshakemusTab(o)
  PROVE  ChangeInv'
<1>1. desk' = [desk EXCEPT ![o] = pyynnot] /\ UNCHANGED <<pyynnot, paatokset, sivu, sent, mailed, past>>
  BY DEF MuutoshakemusTab
<1>2. PastGrows
  BY <1>1, QuietParts, UnchangedPast
<1>3. desk' \in [Officers -> Seq(Pyynto)] /\ \A p \in Officers : DOMAIN desk'[p] \subseteq Requests
  BY <1>1, QuietParts DEF Requests
<1>4. QuietChange
  BY <1>1, <1>2, <1>3, QuietParts DEF QuietChange
<1>5. ASSUME FreeOf({"stale", "meanwhile", "again"})'
      PROVE  PostsWait' /\ OnePost' /\ FormsWait' /\ FetchesWait'
  <2>1. PostsWait /\ OnePost /\ FormsWait /\ FetchesWait
    BY <1>2, <1>5, FreeBefore DEF ChangeInv, OpenOnce
  <2> QED BY <1>1, <2>1 DEF PostsWait, OnePost, FormsWait, FetchesWait
<1> QED BY <1>1, <1>4, <1>5, QuietPreserves

\* A decision sent: of a request that waits for one, or something occurred.
LEMMA DecisionPreserves ==
  ASSUME ChangeInv, NEW o \in Officers, MuutoshakemusForm(o)
  PROVE  ChangeInv'
<1> DEFINE behind == IF desk[o] # pyynnot THEN {"stale"} ELSE {}
           twice(i) == IF \E c \in sent : c.request = i THEN {"meanwhile"} ELSE {}
<1>1. PICK i \in New(desk[o]), outcome \in Verdicts :
         /\ sent' = sent \union {[step |-> outcome, who |-> o, nr |-> 0, request |-> i,
                                  parts |-> {}, answered |-> TRUE]}
         /\ past' = [past EXCEPT !.decisions = @ + 1, !.events = @ \union behind \union twice(i)]
  BY DEF MuutoshakemusForm
<1>2. /\ behind \subseteq {"stale"} /\ ("stale" \notin behind => desk[o] = pyynnot)
      /\ twice(i) \subseteq {"meanwhile"} /\ ("meanwhile" \notin twice(i) => \A c \in sent : c.request # i)
  OBVIOUS
<1> HIDE DEF behind, twice
<1>3. UNCHANGED <<pyynnot, paatokset, sivu, desk, mailed>> /\ past.decisions < MaxDecisions
  BY DEF MuutoshakemusForm
<1>4. i \in Requests /\ i \in Nat /\ outcome \in Outcomes
  BY QuietParts, ChangeAssumption DEF New, Requests
<1>5. PICK b \in BOOLEAN : b = TRUE
  OBVIOUS
<1>6. PICK d : d = [step |-> outcome, who |-> o, nr |-> 0, request |-> i, parts |-> {}, answered |-> b]
               /\ sent' = sent \union {d}
  BY <1>1, <1>5
<1>7. SentOK(d) /\ d.step = outcome /\ d.request = i
  <2>1. d.step = outcome /\ d.who = o /\ d.request = i
    BY <1>6
  <2>2. SentShape(d)
    BY <1>4, <1>6 DEF SentShape, DecisionSteps
  <2>3. d.step \notin PostSteps /\ d.step # "mail"
    BY <1>4, <2>1 DEF PostSteps, Outcomes
  <2> QED BY <1>4, <2>1, <2>2, <2>3 DEF SentOK
<1>8. past'.events = past.events \union behind \union twice(i) /\ PastGrows
  <2>1. past = [posts |-> past.posts, decisions |-> past.decisions, events |-> past.events]
        /\ past.posts \in 0..MaxPosts /\ past.decisions \in 0..MaxDecisions
        /\ past.events \in SUBSET Happened
    BY QuietParts DEF ChangeBase
  <2>2. past.decisions + 1 \in 0..MaxDecisions
    BY <1>3, <2>1, ChangeAssumption
  <2>3. PICK p : p = [past EXCEPT !.decisions = past.decisions + 1]
    OBVIOUS
  <2>4. p = [posts |-> past.posts, decisions |-> past.decisions + 1, events |-> past.events]
    BY <2>1, <2>3
  <2>5. past' = [p EXCEPT !.events = past.events \union behind \union twice(i)]
    BY <1>1, <2>3, <2>4
  <2>6. past' = [posts |-> past.posts, decisions |-> past.decisions + 1,
                 events |-> past.events \union behind \union twice(i)]
    BY <2>4, <2>5
  <2> QED BY <1>2, <2>1, <2>2, <2>6 DEF PastGrows, Happened
<1>9. QuietChange
  BY <1>3, <1>6, <1>7, <1>8, QuietParts DEF QuietChange
<1>10. ASSUME FreeOf({"stale", "meanwhile", "again"})'
       PROVE  PostsWait' /\ OnePost' /\ FormsWait' /\ FetchesWait'
  <2>1. PostsWait /\ OnePost /\ FormsWait /\ FetchesWait
    BY <1>8, <1>10, FreeBefore DEF ChangeInv, OpenOnce
  <2>2. d.step \notin {"post", "fetch"}
    BY <1>4, <1>7 DEF Outcomes
  <2> QED BY <1>3, <1>6, <2>1, <2>2 DEF PostsWait, OnePost, FormsWait, FetchesWait
<1>11. DecidedOnce'
  <2> SUFFICES ASSUME FreeOf({"stale", "meanwhile"})'
               PROVE  /\ \A e \in DOMAIN paatokset' : pyynnot'[paatokset'[e].request].paatos = e
                      /\ \A c \in sent' : c.step \in Outcomes => pyynnot'[c.request].paatos = Undecided
                      /\ \A c, e \in sent' : c.step \in Outcomes /\ e.step \in Outcomes
                                             /\ c.request = e.request => c = e
    BY DEF DecidedOnce
  <2>1. FreeOf({"stale", "meanwhile"}) /\ "stale" \notin behind /\ "meanwhile" \notin twice(i)
    BY <1>8, FreeBefore DEF FreeOf
  <2>2. pyynnot[i].paatos = Undecided
    BY <1>1, <1>2, <2>1 DEF New
  <2>3. \A c \in sent : c.request # i
    BY <1>2, <2>1
  <2>4. sent' = sent \union {d} /\ d.request = i
    BY <1>6, <1>7
  <2>5. /\ \A e \in DOMAIN paatokset : pyynnot[paatokset[e].request].paatos = e
        /\ \A c \in sent : c.step \in Outcomes => pyynnot[c.request].paatos = Undecided
        /\ \A c, e \in sent : c.step \in Outcomes /\ e.step \in Outcomes /\ c.request = e.request => c = e
    BY <2>1 DEF ChangeInv, DecidedOnce
  <2>6. pyynnot' = pyynnot /\ paatokset' = paatokset
    BY <1>3
  <2> QED BY ONLY <2>2, <2>3, <2>4, <2>5, <2>6
<1> QED BY <1>9, <1>10, <1>11, QuietPreserves

-----------------------------------------------------------------------------
(* Steps of the server                                                       *)

LEMMA AtMostOne ==
  ASSUME NEW S, IsFiniteSet(S), Cardinality(S) <= 1, NEW x \in S, NEW y \in S
  PROVE  x = y
<1> SUFFICES ASSUME x # y PROVE FALSE
  OBVIOUS
<1>1. /\ IsFiniteSet(S \ {x}) /\ Cardinality(S \ {x}) = Cardinality(S) - 1
      /\ Cardinality(S) \in Nat /\ Cardinality(S \ {x}) \in Nat
  BY FS_RemoveElement, FS_CardinalityType
<1>2. Cardinality(S \ {x}) = 0
  BY <1>1
<1>3. S \ {x} = {}
  BY <1>1, <1>2, FS_EmptySet
<1> QED BY <1>3

LEMMA NewIsFinite ==
  ASSUME NEW list \in Seq(Pyynto)
  PROVE  IsFiniteSet(New(list)) /\ New(list) \subseteq 1..Len(list)
<1>1. New(list) \subseteq 1..Len(list)
  BY DEF New
<1>2. Len(list) \in Nat /\ IsFiniteSet(1..Len(list))
  BY FS_Interval
<1> QED BY <1>1, <1>2, FS_Subset

LEMMA NoTwo ==
  ASSUME NEW S, IsFiniteSet(S), \A x, y \in S : x = y
  PROVE  Cardinality(S) <= 1
<1>1. CASE S = {}
  BY <1>1, FS_EmptySet
<1>2. ASSUME NEW x \in S
      PROVE  Cardinality(S) <= 1
  <2>1. S = {x}
    BY <1>2
  <2> QED BY <2>1, FS_Singleton
<1> QED BY <1>1, <1>2

\* A request added has the next number, and no decision.
LEMMA Added ==
  ASSUME ChangeInv, NEW P \in SUBSET ChangeParts, pyynnot' = AddMuutoshakemus(P)
  PROVE  /\ pyynnot' \in Seq(Pyynto) /\ Requests \subseteq Requests'
         /\ \A i \in Requests : pyynnot'[i] = pyynnot[i]
         /\ P = {} => pyynnot' = pyynnot
         /\ P # {} => /\ Len(pyynnot') = Len(pyynnot) + 1
                      /\ New(pyynnot') = New(pyynnot) \union {Len(pyynnot')}
         /\ \A i \in Requests' \ Requests : pyynnot'[i].paatos = Undecided
<1>1. pyynnot \in Seq(Pyynto)
  BY QuietParts
<1>2. CASE P = {}
  BY <1>1, <1>2 DEF AddMuutoshakemus, Requests
<1>3. CASE P # {}
  <2>1. PICK r : r = [parts |-> P, paatos |-> Undecided] /\ r \in Pyynto /\ r.paatos = Undecided
    <3>1. PICK r : r = [parts |-> P, paatos |-> Undecided]
      OBVIOUS
    <3>2. r \in Pyynto /\ r.paatos = Undecided
      BY <3>1 DEF Pyynto, Undecided
    <3> QED BY <3>1, <3>2
  <2>2. pyynnot' = Append(pyynnot, r)
    BY <1>3, <2>1 DEF AddMuutoshakemus
  <2>3. PICK n \in Nat : n = Len(pyynnot)
    BY <1>1
  <2>4. /\ pyynnot' \in Seq(Pyynto) /\ Len(pyynnot') = n + 1 /\ DOMAIN pyynnot' = 1..(n + 1)
        /\ DOMAIN pyynnot = 1..n /\ pyynnot'[n + 1] = r
        /\ \A i \in 1..n : pyynnot'[i] = pyynnot[i]
    <3>1. r \in Pyynto
      BY <2>1
    <3> QED BY ONLY <1>1, <2>2, <2>3, <3>1
  <2>5. 1..(n + 1) = 1..n \union {n + 1}
    BY <2>3
  <2> QED BY <1>3, <2>1, <2>3, <2>4, <2>5 DEF New, Requests
<1> QED BY <1>2, <1>3

LEMMA PostPreserves ==
  ASSUME ChangeInv, NEW c \in sent, OnPostMuutoshakemus(c)
  PROVE  ChangeInv'
<1>1. c.step = "post" /\ SentOK(c) /\ c.who \in Sivut /\ c.parts \in SUBSET ChangeParts
  BY QuietParts DEF OnPostMuutoshakemus, SentOK, PostSteps, SentShape
<1>2. /\ pyynnot' = AddMuutoshakemus(c.parts) /\ UNCHANGED <<paatokset, sivu, desk, mailed>>
      /\ Occurs(IF Cardinality(New(pyynnot')) > 1 THEN {"two_open"} ELSE {})
  BY DEF OnPostMuutoshakemus
<1>3. PICK d : /\ d = SentAt(c, "posted") /\ SentShape(d) /\ d.step = "posted" /\ d.who = c.who
               /\ d.request = c.request
  BY <1>1, SentSet DEF SentOK, PostSteps
<1>4. sent' = (sent \ {c}) \union {d}
  BY <1>3 DEF OnPostMuutoshakemus, SentAt
<1>5. SentOK(d)
  BY <1>1, <1>3 DEF SentOK, PostSteps, DecisionSteps, Outcomes
<1>6. /\ pyynnot' \in Seq(Pyynto) /\ Requests \subseteq Requests'
      /\ \A i \in Requests : pyynnot'[i] = pyynnot[i]
      /\ c.parts = {} => pyynnot' = pyynnot
      /\ c.parts # {} => /\ Len(pyynnot') = Len(pyynnot) + 1
                         /\ New(pyynnot') = New(pyynnot) \union {Len(pyynnot')}
      /\ \A i \in Requests' \ Requests : pyynnot'[i].paatos = Undecided
  BY <1>1, <1>2, Added
<1>7. PastGrows /\ ("two_open" \notin past'.events => ~(Cardinality(New(pyynnot')) > 1))
  <2>1. PICK S \in SUBSET Happened : Occurs(S) /\ ("two_open" \notin S => ~(Cardinality(New(pyynnot')) > 1))
    BY <1>2 DEF Happened
  <2>2. PastGrows /\ past'.events = past.events \union S
    BY <2>1, OccursGrows, QuietParts
  <2> QED BY <2>1, <2>2
<1>8. ChangeBase'
  <2>1. DecisionsMatch'
    BY <1>2, <1>6, QuietParts DEF ChangeBase, DecisionsMatch
  <2>2. \A e \in sent' : SentOK(e)
    BY <1>4, <1>5, QuietParts
  <2>3. \A e \in sent' : SentOK(e)'
    BY <1>2, <1>6, <2>2 DEF SentOK, SentShape
  <2> QED BY <1>2, <1>6, <1>7, <2>1, <2>3, QuietParts DEF ChangeBase, PastGrows
<1>9. DecidedOnce'
  <2> SUFFICES ASSUME FreeOf({"stale", "meanwhile"})'
               PROVE  /\ \A e \in DOMAIN paatokset' : pyynnot'[paatokset'[e].request].paatos = e
                      /\ \A f \in sent' : f.step \in Outcomes => pyynnot'[f.request].paatos = Undecided
                      /\ \A f, e \in sent' : f.step \in Outcomes /\ e.step \in Outcomes
                                             /\ f.request = e.request => f = e
    BY DEF DecidedOnce
  <2>1. /\ \A e \in DOMAIN paatokset : pyynnot[paatokset[e].request].paatos = e
        /\ \A f \in sent : f.step \in Outcomes => pyynnot[f.request].paatos = Undecided
        /\ \A f, e \in sent : f.step \in Outcomes /\ e.step \in Outcomes /\ f.request = e.request => f = e
    BY <1>7, FreeBefore DEF ChangeInv, DecidedOnce
  <2>2. \A f \in sent' : f.step \in Outcomes => f \in sent
    BY <1>3, <1>4 DEF Outcomes
  <2>3. \A f \in sent : f.step \in Outcomes => f.request \in Requests
    BY QuietParts DEF SentOK, DecisionSteps
  <2>4. \A e \in DOMAIN paatokset : paatokset[e].request \in Requests
    BY QuietParts DEF ChangeBase, DecisionsMatch
  <2>5. \A e \in DOMAIN paatokset' : pyynnot'[paatokset'[e].request].paatos = e
    BY <1>2, <1>6, <2>1, <2>4
  <2>6. \A f \in sent' : f.step \in Outcomes => pyynnot'[f.request].paatos = Undecided
    BY <1>6, <2>1, <2>2, <2>3
  <2> QED BY <2>1, <2>2, <2>5, <2>6
<1>10. OpenOnce'
  <2> SUFFICES ASSUME FreeOf({"stale", "meanwhile", "again"})'
               PROVE  OneOpen' /\ PostsWait' /\ OnePost' /\ FormsWait' /\ FetchesWait'
    BY DEF OpenOnce
  <2>1. OneOpen /\ PostsWait /\ OnePost /\ FormsWait /\ FetchesWait
    BY <1>7, FreeBefore DEF ChangeInv, OpenOnce
  <2>2. \A e \in sent' : e.step # "post"
    BY <1>1, <1>3, <1>4, <2>1 DEF OnePost
  <2>3. OneOpen'
    BY <1>1, <1>6, <2>1 DEF OneOpen, PostsWait
  <2>4. \A e \in sent' : e.step = "fetch" => e \in sent
    BY <1>3, <1>4
  <2> QED BY <1>2, <2>1, <2>2, <2>3, <2>4 DEF PostsWait, OnePost, FormsWait, FetchesWait
<1>11. OpenIsNewest'
  <2> SUFFICES ASSUME FreeOf({"two_open"})', NEW i \in New(pyynnot')
               PROVE  i = Len(pyynnot')
    BY DEF OpenIsNewest
  <2>1. CASE c.parts = {}
    <3>1. FreeOf({"two_open"}) /\ pyynnot' = pyynnot
      BY <1>6, <1>7, <2>1, FreeBefore
    <3> QED BY <3>1 DEF ChangeInv, OpenIsNewest
  <2>2. CASE c.parts # {}
    <3>1. ~(Cardinality(New(pyynnot')) > 1)
      BY <1>7 DEF FreeOf
    <3>2. IsFiniteSet(New(pyynnot')) /\ Cardinality(New(pyynnot')) \in Nat
      BY <1>6, NewIsFinite, FS_CardinalityType
    <3>3. Cardinality(New(pyynnot')) <= 1
      BY <3>1, <3>2
    <3>4. Len(pyynnot') \in New(pyynnot')
      BY <1>6, <2>2
    <3> QED BY <3>2, <3>3, <3>4, AtMostOne
  <2> QED BY <2>1, <2>2
<1>12. DecidedInOrder'
  <2>1. FreeOf({"two_open", "stale", "meanwhile"})' => FreeOf({"two_open", "stale", "meanwhile"})
    BY <1>7, FreeBefore
  <2> QED BY <1>2, <2>1 DEF ChangeInv, DecidedInOrder
<1> QED BY <1>8, <1>9, <1>10, <1>11, <1>12 DEF ChangeInv

\* A decision stored: the request keeps it, and was waiting for it if no officer came between.
LEMMA Stored ==
  ASSUME ChangeInv, NEW c \in sent, c.step \in Outcomes, c.request \in Requests,
         paatokset' = Append(paatokset, [request |-> c.request, status |-> c.step]),
         pyynnot' = [pyynnot EXCEPT ![c.request].paatos = Len(paatokset')]
  PROVE  \E n \in Nat \ {0} :
         /\ paatokset' \in Seq(Paatos) /\ n = Len(paatokset')
         /\ DOMAIN paatokset' = DOMAIN paatokset \union {n} /\ \A d \in DOMAIN paatokset : d < n
         /\ \A d \in DOMAIN paatokset : paatokset'[d] = paatokset[d]
         /\ paatokset'[n].request = c.request /\ paatokset'[n].status = c.step
         /\ pyynnot' \in Seq(Pyynto) /\ Len(pyynnot') = Len(pyynnot) /\ Requests' = Requests
         /\ pyynnot'[c.request].paatos = n /\ pyynnot'[c.request].parts = pyynnot[c.request].parts
         /\ \A i \in Requests : i # c.request => pyynnot'[i] = pyynnot[i]
<1>1. pyynnot \in Seq(Pyynto) /\ paatokset \in Seq(Paatos)
  BY QuietParts DEF ChangeBase
<1>2. PICK r : r = [request |-> c.request, status |-> c.step]
  OBVIOUS
<1>3. r \in Paatos /\ r.request = c.request /\ r.status = c.step
  <2>1. c.request \in Nat
    BY <1>1 DEF Requests
  <2> QED BY <1>2, <2>1 DEF Paatos
<1>4. PICK m \in Nat : m = Len(paatokset)
  <2>1. Len(paatokset) \in Nat
    BY ONLY <1>1
  <2> QED BY <2>1
<1>5. paatokset' = Append(paatokset, r)
  BY <1>2
<1>6. /\ paatokset' \in Seq(Paatos) /\ Len(paatokset') = m + 1
      /\ DOMAIN paatokset' = 1..(m + 1) /\ DOMAIN paatokset = 1..m
      /\ paatokset'[m + 1] = r /\ \A d \in 1..m : paatokset'[d] = paatokset[d]
  BY <1>1, <1>3, <1>4, <1>5
<1>7. PICK n \in Nat \ {0} : n = m + 1
  BY <1>4
<1>8. DOMAIN paatokset' = DOMAIN paatokset \union {n} /\ \A d \in DOMAIN paatokset : d < n
  <2>1. 1..(m + 1) = 1..m \union {m + 1}
    BY <1>4
  <2> QED BY <1>6, <1>7, <2>1
<1>9. PICK o \in Pyynto : o = pyynnot[c.request]
  BY <1>1 DEF Requests
<1>10. o = [parts |-> o.parts, paatos |-> o.paatos]
  BY <1>9 DEF Pyynto
<1>11. PICK q : q = [o EXCEPT !.paatos = n]
  OBVIOUS
<1>12. q = [parts |-> o.parts, paatos |-> n]
  BY <1>10, <1>11
<1>13. q \in Pyynto /\ q.paatos = n /\ q.parts = o.parts
  BY <1>9, <1>12 DEF Pyynto
<1>14. pyynnot' = [pyynnot EXCEPT ![c.request].paatos = n]
  BY <1>6, <1>7
<1>15. pyynnot' = [pyynnot EXCEPT ![c.request] = q]
  BY <1>1, <1>9, <1>11, <1>14 DEF Requests
<1>16. /\ pyynnot' \in Seq(Pyynto) /\ Len(pyynnot') = Len(pyynnot) /\ Requests' = Requests
       /\ pyynnot'[c.request] = q /\ \A i \in Requests : i # c.request => pyynnot'[i] = pyynnot[i]
  BY <1>1, <1>13, <1>15 DEF Requests
<1> QED BY <1>3, <1>6, <1>7, <1>8, <1>9, <1>13, <1>16

LEMMA StorePaatosPreserves ==
  ASSUME ChangeInv, NEW c \in sent, StoreMuutoshakemusPaatos(c)
  PROVE  ChangeInv'
<1>1. c.step \in Outcomes /\ SentOK(c) /\ c.who \in Officers /\ c.request \in Requests
  BY QuietParts DEF StoreMuutoshakemusPaatos, SentOK, DecisionSteps
<1>2. /\ paatokset' = Append(paatokset, [request |-> c.request, status |-> c.step])
      /\ pyynnot' = [pyynnot EXCEPT ![c.request].paatos = Len(paatokset')]
      /\ UNCHANGED <<sivu, desk, mailed, past>>
  BY DEF StoreMuutoshakemusPaatos
<1>3. PICK n \in Nat \ {0} :
         /\ paatokset' \in Seq(Paatos) /\ n = Len(paatokset')
         /\ DOMAIN paatokset' = DOMAIN paatokset \union {n} /\ \A d \in DOMAIN paatokset : d < n
         /\ \A d \in DOMAIN paatokset : paatokset'[d] = paatokset[d]
         /\ paatokset'[n].request = c.request /\ paatokset'[n].status = c.step
         /\ pyynnot' \in Seq(Pyynto) /\ Len(pyynnot') = Len(pyynnot) /\ Requests' = Requests
         /\ pyynnot'[c.request].paatos = n /\ pyynnot'[c.request].parts = pyynnot[c.request].parts
         /\ \A i \in Requests : i # c.request => pyynnot'[i] = pyynnot[i]
  BY <1>1, <1>2, Stored
<1>4. PICK d : /\ d = ToMail(c, n) /\ SentShape(d) /\ d.step = "mail" /\ d.who = c.who
               /\ d.request = c.request /\ d.nr = n
  <2>1. SentShape(c) /\ "mail" \in PostSteps \union DecisionSteps
    BY <1>1 DEF SentOK, DecisionSteps
  <2> QED BY <2>1, SentSet
<1>5. sent' = (sent \ {c}) \union {d}
  BY <1>3, <1>4 DEF StoreMuutoshakemusPaatos, ToMail
<1>6. PastGrows
  BY <1>2, QuietParts, UnchangedPast
<1>7. \A e \in DOMAIN paatokset : paatokset[e].request \in Requests
  BY QuietParts DEF ChangeBase, DecisionsMatch
<1>8. ChangeBase'
  <2>1. SentOK(d)'
    BY <1>1, <1>3, <1>4 DEF SentOK, SentShape, PostSteps
  <2>2. \A e \in sent : SentOK(e)'
    BY <1>3, QuietParts DEF SentOK, SentShape
  <2>3. \A e \in DOMAIN paatokset' : paatokset'[e].request \in Requests'
    BY <1>1, <1>3, <1>7
  <2>4. \A i \in Requests' : pyynnot'[i].paatos # Undecided =>
          pyynnot'[i].paatos \in DOMAIN paatokset' /\ paatokset'[pyynnot'[i].paatos].request = i
    <3>1. \A i \in Requests : pyynnot[i].paatos # Undecided =>
            pyynnot[i].paatos \in DOMAIN paatokset /\ paatokset[pyynnot[i].paatos].request = i
      BY QuietParts DEF ChangeBase, DecisionsMatch
    <3> QED BY <1>3, <3>1
  <2>5. DecisionsMatch'
    BY <2>3, <2>4 DEF DecisionsMatch
  <2> QED BY <1>2, <1>3, <1>5, <1>6, <2>1, <2>2, <2>5, QuietParts DEF ChangeBase, PastGrows
\* No decision of this request was made before.
<1>9. FreeOf({"stale", "meanwhile"}) =>
        /\ \A e \in DOMAIN paatokset : pyynnot[paatokset[e].request].paatos = e
                                       /\ paatokset[e].request # c.request
        /\ \A f \in sent : f.step \in Outcomes => pyynnot[f.request].paatos = Undecided
        /\ \A f, e \in sent : f.step \in Outcomes /\ e.step \in Outcomes /\ f.request = e.request => f = e
        /\ c.request \in New(pyynnot)
  <2> SUFFICES ASSUME FreeOf({"stale", "meanwhile"})
               PROVE  /\ \A e \in DOMAIN paatokset : pyynnot[paatokset[e].request].paatos = e
                                                     /\ paatokset[e].request # c.request
                      /\ \A f \in sent : f.step \in Outcomes => pyynnot[f.request].paatos = Undecided
                      /\ \A f, e \in sent : f.step \in Outcomes /\ e.step \in Outcomes
                                            /\ f.request = e.request => f = e
                      /\ c.request \in New(pyynnot)
    OBVIOUS
  <2>1. /\ \A e \in DOMAIN paatokset : pyynnot[paatokset[e].request].paatos = e
        /\ \A f \in sent : f.step \in Outcomes => pyynnot[f.request].paatos = Undecided
        /\ \A f, e \in sent : f.step \in Outcomes /\ e.step \in Outcomes /\ f.request = e.request => f = e
    BY DEF ChangeInv, DecidedOnce
  <2>2. pyynnot[c.request].paatos = Undecided
    BY <1>1, <2>1
  <2>3. \A e \in DOMAIN paatokset : e # Undecided
    BY QuietParts DEF ChangeBase, Undecided
  <2> QED BY <1>1, <2>1, <2>2, <2>3 DEF New, Requests
<1>10. DecidedOnce'
  <2> SUFFICES ASSUME FreeOf({"stale", "meanwhile"})'
               PROVE  /\ \A e \in DOMAIN paatokset' : pyynnot'[paatokset'[e].request].paatos = e
                      /\ \A f \in sent' : f.step \in Outcomes => pyynnot'[f.request].paatos = Undecided
                      /\ \A f, e \in sent' : f.step \in Outcomes /\ e.step \in Outcomes
                                             /\ f.request = e.request => f = e
    BY DEF DecidedOnce
  <2>1. FreeOf({"stale", "meanwhile"})
    BY <1>6, FreeBefore
  <2>2. \A f \in sent' : f.step \in Outcomes => f \in sent /\ f # c
    BY <1>4, <1>5 DEF Outcomes
  <2>3. \A f \in sent : f.step \in Outcomes => f.request \in Requests
    BY QuietParts DEF SentOK, DecisionSteps
  <2>4. \A e \in DOMAIN paatokset' : pyynnot'[paatokset'[e].request].paatos = e
    BY <1>3, <1>7, <1>9, <2>1
  <2>5. \A f \in sent' : f.step \in Outcomes => f.request # c.request
    BY <1>1, <1>9, <2>1, <2>2
  <2>6. \A f \in sent' : f.step \in Outcomes => pyynnot'[f.request].paatos = Undecided
    BY <1>3, <1>9, <2>1, <2>2, <2>3, <2>5
  <2> QED BY <1>9, <2>1, <2>2, <2>4, <2>6
<1>11. New(pyynnot') \subseteq New(pyynnot)
  BY <1>3 DEF New, Requests, Undecided
<1>12. OpenOnce'
  <2> SUFFICES ASSUME FreeOf({"stale", "meanwhile", "again"})'
               PROVE  OneOpen' /\ PostsWait' /\ OnePost' /\ FormsWait' /\ FetchesWait'
    BY DEF OpenOnce
  <2>1. OneOpen /\ PostsWait /\ OnePost /\ FormsWait /\ FetchesWait
    BY <1>6, FreeBefore DEF ChangeInv, OpenOnce
  <2>2. \A e \in sent' : e.step \in {"post", "fetch"} => e \in sent
    BY <1>4, <1>5
  <2> QED BY <1>2, <1>11, <2>1, <2>2 DEF OneOpen, PostsWait, OnePost, FormsWait, FetchesWait
<1>13. OpenIsNewest'
  <2>1. FreeOf({"two_open"})' => FreeOf({"two_open"})
    BY <1>6, FreeBefore
  <2> QED BY <1>3, <1>11, <2>1 DEF ChangeInv, OpenIsNewest
<1>14. DecidedInOrder'
  <2> SUFFICES ASSUME FreeOf({"two_open", "stale", "meanwhile"})', NEW d1 \in DOMAIN paatokset',
                      NEW d2 \in DOMAIN paatokset', d1 < d2
               PROVE  paatokset'[d1].request < paatokset'[d2].request
    BY DEF DecidedInOrder
  <2>1. /\ FreeOf({"two_open", "stale", "meanwhile"})
        /\ FreeOf({"stale", "meanwhile"}) /\ FreeOf({"two_open"})
    BY <1>6, FreeBefore DEF FreeOf
  <2>2. c.request = Len(pyynnot)
    BY <1>9, <2>1 DEF ChangeInv, OpenIsNewest
  <2>3. \A e \in DOMAIN paatokset : paatokset[e].request < c.request
    <3>1. \A e \in DOMAIN paatokset : paatokset[e].request \in 1..Len(pyynnot) /\ paatokset[e].request # c.request
      BY <1>7, <1>9, <2>1, QuietParts DEF Requests
    <3>2. Len(pyynnot) \in Nat
      BY QuietParts
    <3> QED BY <2>2, <3>1, <3>2
  <2>4. \A e \in DOMAIN paatokset : e \in Nat
    BY QuietParts DEF ChangeBase
  <2>5. d1 \in DOMAIN paatokset
    BY <1>3, <2>4
  <2>6. CASE d2 = n
    BY <1>3, <2>3, <2>5, <2>6
  <2>7. CASE d2 \in DOMAIN paatokset
    BY <1>3, <2>1, <2>5, <2>7 DEF ChangeInv, DecidedInOrder
  <2> QED BY <1>3, <2>6, <2>7
<1> QED BY <1>8, <1>10, <1>12, <1>13, <1>14 DEF ChangeInv

-----------------------------------------------------------------------------
(* The invariant, and what follows from it                                   *)

LEMMA ChangeStarts ==
  ASSUME ChangeInit
  PROVE  ChangeInv
<1>1. /\ pyynnot = <<>> /\ paatokset = <<>> /\ sent = {} /\ mailed = {}
      /\ Requests = {} /\ DOMAIN paatokset = {} /\ New(pyynnot) = {}
  BY DEF ChangeInit, Requests, New
<1>2. past \in [posts : 0..MaxPosts, decisions : 0..MaxDecisions, events : SUBSET Happened]
  <2>1. 0 \in 0..MaxPosts /\ 0 \in 0..MaxDecisions
    BY ChangeAssumption
  <2> QED BY <2>1 DEF ChangeInit
<1>3. sivu \in [Sivut -> Form] /\ \A t \in Sivut : sivu[t].asked = {}
  BY DEF ChangeInit, Form
<1>4. desk \in [Officers -> Seq(Pyynto)] /\ \A o \in Officers : DOMAIN desk[o] = {}
  BY DEF ChangeInit
<1>5. pyynnot \in Seq(Pyynto) /\ paatokset \in Seq(Paatos)
  BY <1>1
<1>6. ChangeBase
  BY <1>1, <1>2, <1>3, <1>4, <1>5 DEF ChangeBase, DecisionsMatch
<1> QED BY <1>1, <1>3, <1>6 DEF ChangeInv, DecidedOnce, OpenOnce, OneOpen, PostsWait, OnePost, FormsWait,
     FetchesWait, OpenIsNewest, DecidedInOrder

LEMMA ChangeNextPreserves ==
  ASSUME ChangeInv, [ChangeNext]_changeVars
  PROVE  ChangeInv'
<1>1. CASE UNCHANGED changeVars
  <2>1. UNCHANGED <<pyynnot, paatokset, sivu, desk, sent, mailed, past>>
    BY <1>1 DEF changeVars
  <2>2. QuietChange
    BY <2>1, QuietParts, UnchangedPast DEF QuietChange
  <2>3. ASSUME FreeOf({"stale", "meanwhile", "again"})'
        PROVE  PostsWait' /\ OnePost' /\ FormsWait' /\ FetchesWait'
    <3>1. PostsWait /\ OnePost /\ FormsWait /\ FetchesWait
      BY <2>2, <2>3, FreeBefore DEF ChangeInv, OpenOnce, QuietChange
    <3> QED BY <2>1, <3>1 DEF PostsWait, OnePost, FormsWait, FetchesWait
  <2> QED BY <2>1, <2>2, <2>3, QuietPreserves
<1>2. CASE ChangeNext
  BY <1>2, FetchPropsPreserves, FormSectionPreserves, ContactPreserves, SubmitPreserves, DeskPreserves,
     DecisionPreserves, TimeoutPreserves, PostSucceededPreserves, FetchPreserves, PostPreserves,
     StorePaatosPreserves, MailPreserves, RequestFailsPreserves DEF ChangeNext
<1> QED BY <1>1, <1>2

THEOREM ChangeInvariance == ChangeSpec => []ChangeInv
<1>1. ChangeInit => ChangeInv
  BY ChangeStarts
<1>2. ChangeInv /\ [ChangeNext]_changeVars => ChangeInv'
  BY ChangeNextPreserves
<1> QED BY <1>1, <1>2, PTL DEF ChangeSpec

LEMMA SeqRetyped ==
  ASSUME NEW S, NEW T, NEW s \in Seq(S), \A d \in DOMAIN s : s[d] \in T
  PROVE  s \in Seq(T)
<1>1. PICK n \in Nat : n = Len(s)
  OBVIOUS
<1>2. s \in [1..n -> T]
  BY <1>1
<1> QED BY <1>1, <1>2

\* Requests, decisions and forms hold the values the code gives them, whatever the applicants
\* tick and the officers decide.
THEOREM ChangeTyping == ChangeSpec => []ChangeTypeOK
<1>1. ChangeInv => ChangeTypeOK
  <2> SUFFICES ASSUME ChangeInv PROVE ChangeTypeOK
    OBVIOUS
  <2>1. pyynnot \in Seq([parts : SUBSET ChangeParts, paatos : Nat])
    BY DEF ChangeInv, ChangeBase, Pyynto
  <2>2. paatokset \in Seq([request : Requests, status : Outcomes])
    <3>1. paatokset \in Seq(Paatos) /\ \A d \in DOMAIN paatokset : paatokset[d].request \in Requests
      BY DEF ChangeInv, ChangeBase, DecisionsMatch
    <3>2. \A d \in DOMAIN paatokset : paatokset[d] \in [request : Requests, status : Outcomes]
      <4> TAKE d \in DOMAIN paatokset
      <4>1. PICK r \in Paatos : r = paatokset[d]
        BY <3>1
      <4>2. r = [request |-> r.request, status |-> r.status] /\ r.status \in Outcomes
        BY <4>1 DEF Paatos
      <4> QED BY <3>1, <4>1, <4>2
    <3>3. PICK T : T = [request : Requests, status : Outcomes]
      OBVIOUS
    <3>4. paatokset \in Seq(Paatos) /\ \A d \in DOMAIN paatokset : paatokset[d] \in T
      BY <3>1, <3>2, <3>3
    <3>5. paatokset \in Seq(T)
      BY ONLY <3>4, SeqRetyped
    <3> QED BY <3>3, <3>5
  <2>3. \A i \in Requests : pyynnot[i].paatos \in {Undecided} \union DOMAIN paatokset
    BY DEF ChangeInv, ChangeBase, DecisionsMatch
  <2>4. \A t \in Sivut : /\ sivu[t].loaded \in BOOLEAN /\ sivu[t].asked \subseteq ChangeParts
                        /\ sivu[t].submitting \in BOOLEAN /\ sivu[t].contact \in BOOLEAN
    BY DEF ChangeInv, ChangeBase, Form
  <2>5. /\ mailed \subseteq DOMAIN paatokset
        /\ past.posts \in 0..MaxPosts /\ past.decisions \in 0..MaxDecisions
        /\ past.events \subseteq Happened
    BY DEF ChangeInv, ChangeBase
  <2> QED BY <2>1, <2>2, <2>3, <2>4, <2>5 DEF ChangeTypeOK
<1> QED BY <1>1, ChangeInvariance, PTL

LEMMA MailedDecisionsHold ==
  ASSUME ChangeInv
  PROVE  MailedDecisionHolds
BY DEF ChangeInv, ChangeBase, DecidedOnce, MailedDecisionHolds

LEMMA NoTwoOpen ==
  ASSUME ChangeInv
  PROVE  OneOpenRequest
<1> SUFFICES ASSUME FreeOf({"stale", "meanwhile", "again"})
             PROVE  Cardinality(New(pyynnot)) <= 1
  BY DEF OneOpenRequest
<1>1. OneOpen /\ pyynnot \in Seq(Pyynto)
  BY DEF ChangeInv, ChangeBase, OpenOnce
<1> QED BY <1>1, NewIsFinite, NoTwo DEF OneOpen

-----------------------------------------------------------------------------
(* The decision in force                                                     *)

\* A bounded set of numbers has a largest one.
LEMMA NatMax ==
  ASSUME NEW T, T \subseteq Nat, T # {}, NEW m \in Nat, \A t \in T : t <= m
  PROVE  \E t \in T : \A u \in T : u <= t
<1> DEFINE D == {m - t : t \in T}
<1>1. D \subseteq Nat /\ D # {}
  <2>1. \A t \in T : m - t \in Nat
    OBVIOUS
  <2> QED BY <2>1
<1>2. IsWellFoundedOn(OpToRel(<, Nat), Nat)
  BY NatLessThanWellFounded
<1>3. \E d \in D : \A e \in D : ~ (<<e, d>> \in OpToRel(<, Nat))
  BY <1>1, <1>2, WFMin
<1>4. PICK d \in D : \A e \in D : ~ (<<e, d>> \in OpToRel(<, Nat))
  BY <1>3
<1>5. \A e \in D : ~ (e < d)
  <2>1. OpToRel(<, Nat) = {p \in Nat \X Nat : p[1] < p[2]}
    BY Zenon DEF OpToRel
  <2>2. \A e \in D : <<e, d>> \notin {p \in Nat \X Nat : p[1] < p[2]}
    BY <1>4, <2>1, Zenon
  <2> QED BY <1>1, <2>2
<1>6. PICK t \in T : d = m - t
  BY <1>4
<1>7. \A u \in T : u <= t
  <2> SUFFICES ASSUME NEW u \in T PROVE u <= t
    OBVIOUS
  <2>1. m - u \in D
    OBVIOUS
  <2>2. ~ (m - u < m - t)
    BY <2>1, <1>5, <1>6
  <2>3. t \in Nat /\ u \in Nat
    OBVIOUS
  <2> QED BY ONLY <2>2, <2>3, m \in Nat
<1> QED BY <1>7

LEMMA NewestIs ==
  ASSUME NEW S \in SUBSET Nat, NEW x \in S, \A u \in S : u <= x
  PROVE  Newest(S) = x
<1>1. Newest(S) \in S /\ \A u \in S : u <= Newest(S)
  BY DEF Newest
<1>2. PICK y \in S : y = Newest(S) /\ \A u \in S : u <= y
  BY <1>1
<1>3. x <= y /\ y <= x /\ x \in Nat /\ y \in Nat
  BY <1>2
<1> QED BY <1>2, <1>3

AcceptedRequests(part) == {i \in DOMAIN pyynnot : /\ part \in pyynnot[i].parts
                                                  /\ pyynnot[i].paatos # Undecided
                                                  /\ Accepted(pyynnot[i].paatos)}
AcceptedDecisions(part) == {d \in DOMAIN paatokset : /\ Accepted(d)
                                                     /\ part \in pyynnot[paatokset[d].request].parts}

\* As long as no two requests were open together, the newest request a decision accepted
\* is the one accepted last.
LEMMA NewestIsLast ==
  ASSUME ChangeInv, FreeOf({"two_open", "stale", "meanwhile"}), NEW part
  PROVE  /\ AcceptedRequests(part) = {} <=> AcceptedDecisions(part) = {}
         /\ AcceptedDecisions(part) # {} =>
              LET d == Newest(AcceptedDecisions(part))
                  i == Newest(AcceptedRequests(part))
              IN  d # Undecided /\ paatokset[d].request = i /\ pyynnot[i].paatos = d
<1> DEFINE R == AcceptedRequests(part)
           D == AcceptedDecisions(part)
<1>1. /\ pyynnot \in Seq(Pyynto) /\ paatokset \in Seq(Paatos) /\ DecisionsMatch
      /\ \A d \in DOMAIN paatokset : pyynnot[paatokset[d].request].paatos = d
      /\ \A d, e \in DOMAIN paatokset : d < e => paatokset[d].request < paatokset[e].request
  <2>1. FreeOf({"stale", "meanwhile"})
    BY DEF FreeOf
  <2> QED BY <2>1 DEF ChangeInv, ChangeBase, DecidedOnce, DecidedInOrder
<1>2. PICK n \in Nat : n = Len(paatokset) /\ DOMAIN paatokset = 1..n
  BY ONLY <1>1
<1>3. Requests \subseteq Nat /\ Requests = DOMAIN pyynnot
  BY ONLY <1>1 DEF Requests
<1>4. \A d \in D : /\ d \in 1..n /\ d # Undecided /\ Accepted(d)
                   /\ paatokset[d].request \in R /\ pyynnot[paatokset[d].request].paatos = d
  BY <1>1, <1>2, <1>3 DEF AcceptedRequests, AcceptedDecisions, DecisionsMatch, Undecided
<1>5. \A i \in R : /\ i \in Nat /\ pyynnot[i].paatos \in D /\ paatokset[pyynnot[i].paatos].request = i
  BY <1>1, <1>3 DEF AcceptedRequests, AcceptedDecisions, DecisionsMatch
<1>6. R = {} <=> D = {}
  BY <1>4, <1>5
<1>7. ASSUME D # {}
      PROVE  Newest(D) # Undecided /\ paatokset[Newest(D)].request = Newest(R)
             /\ pyynnot[Newest(R)].paatos = Newest(D)
  <2>1. D \subseteq Nat /\ \A u \in D : u <= n
    BY <1>2, <1>4
  <2>2. PICK d \in D : \A u \in D : u <= d
    BY <1>2, <1>7, <2>1, NatMax
  <2>3. Newest(D) = d
    <3>1. D \in SUBSET Nat
      BY <1>2, <2>1
    <3> QED BY <2>2, <3>1, NewestIs
  <2>4. PICK i \in R : i = paatokset[d].request
    BY <1>4, <2>2
  <2>5. \A j \in R : j <= i
    <3> TAKE j \in R
    <3>1. PICK e \in D : e = pyynnot[j].paatos /\ paatokset[e].request = j
      BY <1>5
    <3>2. e <= d /\ e \in 1..n /\ d \in 1..n
      BY <1>4, <2>2, <3>1
    <3>3. CASE e = d
      BY <1>5, <2>4, <3>1, <3>3
    <3>4. CASE e < d
      <4>1. j < i
        BY <1>1, <1>2, <2>4, <3>1, <3>2, <3>4
      <4> QED BY <1>5, <2>4, <4>1
    <3> QED BY <3>2, <3>3, <3>4
  <2>6. Newest(R) = i
    <3>1. R \in SUBSET Nat
      BY <1>5
    <3> QED BY <2>4, <2>5, <3>1, NewestIs
  <2> QED BY <1>4, <2>2, <2>3, <2>4, <2>6
<1> QED BY <1>6, <1>7

LEMMA InForce ==
  ASSUME ChangeInv
  PROVE  InForceIsDecidedLast
<1> SUFFICES ASSUME FreeOf({"two_open", "stale", "meanwhile"})
             PROVE  /\ GetTalousarvio(pyynnot) = LatestAccepted("talousarvio")
                    /\ LET d == LatestAccepted("jatkoaika") IN
                       GetProjectEndMoment(pyynnot) =
                         CASE d = Undecided -> <<"avustushaku", 0>>
                           [] d # Undecided /\ paatokset[d].status = "accepted_with_changes" -> <<"paatos", d>>
                           [] OTHER -> <<"haettu", paatokset[d].request>>
  BY DEF InForceIsDecidedLast
<1>1. \A part : LatestAccepted(part) = IF AcceptedDecisions(part) = {} THEN Undecided
                                       ELSE Newest(AcceptedDecisions(part))
  BY Zenon DEF LatestAccepted, AcceptedDecisions
<1>2. GetTalousarvio(pyynnot) = IF AcceptedRequests("talousarvio") = {} THEN Undecided
                                ELSE pyynnot[Newest(AcceptedRequests("talousarvio"))].paatos
  BY Zenon DEF GetTalousarvio, AcceptedRequests
<1>3. GetTalousarvio(pyynnot) = LatestAccepted("talousarvio")
  BY <1>1, <1>2, NewestIsLast
<1>4. PICK R : R = AcceptedRequests("jatkoaika")
  OBVIOUS
<1>5. PICK D : D = AcceptedDecisions("jatkoaika")
  OBVIOUS
<1>6. GetProjectEndMoment(pyynnot) =
        CASE R = {} -> <<"avustushaku", 0>>
          [] R # {} /\ paatokset[pyynnot[Newest(R)].paatos].status = "accepted_with_changes"
               -> <<"paatos", pyynnot[Newest(R)].paatos>>
          [] OTHER -> <<"haettu", Newest(R)>>
  BY <1>4, Zenon DEF GetProjectEndMoment, AcceptedRequests
<1>7. PICK d : d = LatestAccepted("jatkoaika")
  OBVIOUS
<1>8. GetProjectEndMoment(pyynnot) =
        CASE d = Undecided -> <<"avustushaku", 0>>
          [] d # Undecided /\ paatokset[d].status = "accepted_with_changes" -> <<"paatos", d>>
          [] OTHER -> <<"haettu", paatokset[d].request>>
  <2>1. CASE D = {}
    <3>1. R = {} /\ d = Undecided
      BY <1>1, <1>4, <1>5, <1>7, <2>1, NewestIsLast
    <3> QED BY <1>6, <3>1
  <2>2. CASE D # {}
    <3>1. d = Newest(D)
      BY <1>1, <1>5, <1>7, <2>2
    <3>2. R # {} /\ d # Undecided /\ paatokset[d].request = Newest(R) /\ pyynnot[Newest(R)].paatos = d
      BY <1>4, <1>5, <2>2, <3>1, NewestIsLast
    <3> QED BY <1>6, <3>2
  <2> QED BY <2>1, <2>2
<1> QED BY <1>3, <1>7, <1>8

\* Of a granted application's requests to change it: the decision mailed is the one kept, one
\* request at a time waits, and what is in force is what was decided last, each but for the
\* named races; for every number of tabs, officers, requests and decisions.
THEOREM RequestsAgree == ChangeSpec => []ChangesAgree
<1>1. ChangeInv => ChangesAgree
  BY MailedDecisionsHold, NoTwoOpen, InForce DEF ChangesAgree
<1> QED BY <1>1, ChangeInvariance, PTL
=============================================================================
