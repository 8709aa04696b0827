-------------------------------- MODULE Arviointi --------------------------------
(***************************************************************************)
(* The officers' evaluation page: the redux store of                       *)
(* va-virkailija/.../hakemusten-arviointi-page, the requests its thunks    *)
(* send, and the rows of the server they read and write.                   *)
(*                                                                         *)
(* An evaluation (arvio) is one row, sent and stored whole; its values are *)
(* the numbers of the edits that made them.  A save starts three seconds   *)
(* after the last edit of the page, whatever application that edit was on. *)
(* Small settings of an application (its project, its score, whether it    *)
(* was ended before it began) have a request of their own.                 *)
(***************************************************************************)
EXTENDS Yhteiset, Naturals, FiniteSets, Sequences

CONSTANTS Hakemukset,   \* applications of the grant
          NoHakemus,
          MaxActs, MaxFaults   \* what officers do, and requests that fail

ASSUME ArviointiAssumption ==
  /\ NoHakemus \notin Hakemukset
  /\ {MaxActs, MaxFaults} \subseteq Nat

\* "overridden-answers" is 1 when the defaults of the budget have been copied to it;
\* "others" stands for the texts, accounts, sums and marks no step looks at.
Keys == {"status", "presenter-role-id", "overridden-answers", "others"}
NoArvio == [k \in Keys |-> 0]

\* What has a request of its own.  Scores, comments and payments are the sets of the officers
\* who gave one (of a second payment nothing is said); the status is TRUE while the applicant is asked to complete the application.
Settings == {"keskeytettyAloittamatta", "project", "status", "scores", "comments", "payments"}
ByOfficer == {"scores", "comments", "payments"}
NoSettings == [s \in Settings |-> IF s \in ByOfficer THEN {} ELSE FALSE]
\* As one officer is shown it: of these sets, whether there is one's own.
View(o, set) == [s \in Settings |-> IF s \in ByOfficer THEN o \in set[s] ELSE set[s]]

VARIABLES
  arvio,      \* server: the stored evaluation of each application
  changelog,  \* server: in the same row, the changes of status as <<old, new>>
  settings,   \* server: the settings of each application
  store,      \* the state of each page
  requests,   \* what pages have asked for and not been told of
  used,       \* how much of each bound is used
  mine,       \* ghost: the last edit of each value by each officer
  cause       \* ghost: why an edit of an application may be lost without a word

vars == <<arvio, changelog, settings, store, requests, used, mine, cause>>
server == <<arvio, changelog, settings>>

--------------------------------------------------------------------------------
(* The page *)

Shown == [arvio: [Keys -> Nat], hasChanges: BOOLEAN,
          extra: BOOLEAN,                    \* selectHakemus has filled in the rest
          settings: [Settings -> BOOLEAN]]

Store == [data: {"loaded", "loading", "other"},   \* "other": another grant is open
          hakemukset: [Hakemukset -> Shown],
          selected: Hakemukset \cup {NoHakemus},
          loadingHakemusId: Hakemukset \cup {NoHakemus},
          timer: Hakemukset \cup {NoHakemus},     \* whose save the pending delay will start
          saveStatus: {"", "saving", "saved", "error"}]

Loaded(o) == store[o].data = "loaded"

\* A hakemus as GET /api/avustushaku gives it, without what selectHakemus adds.
Plain(o, row, set) ==
  [arvio |-> row, hasChanges |-> FALSE, extra |-> FALSE, settings |-> View(o, set)]

\* The requests of a page, and their numbers.
Of(o, kind, h) == {r \in requests : r.o = o /\ r.kind = kind /\ r.h = h}
FreshId == CHOOSE n \in 1..(Cardinality(requests) + 1) : \A r \in requests : r.id # n
\* One request may spoil the answer of the other: they set the same thing, or one of them
\* is a load that replaces what the page shows of it.
Loads == {"select", "hakemukset", "info"}
Asked == [haku |-> <<>>]   \* a load the server has not read for
Spoils(o, kind, h, r) ==
  /\ h = r.h \/ NoHakemus \in {h, r.h}
  /\ kind = r.kind \/ (o = r.o /\ {kind, r.kind} \cap Loads # {})
NewRequest(o, kind, h, data) ==
  [id |-> FreshId, o |-> o, kind |-> kind, h |-> h, at |-> "sent", data |-> data,
   alone |-> ~ \E r \in requests : Spoils(o, kind, h, r)]
\* What it spoils is alone no more.
With(o, kind, h, data) ==
  {[r EXCEPT !.alone = @ /\ ~Spoils(o, kind, h, r)] : r \in requests}
    \cup {NewRequest(o, kind, h, data)}

\* A row that misses what the officer last gave.
Lacks(o, h, row) == \E k \in Keys : mine[o][h][k] \notin {0, row[k]}
Unsaved(o, h) == Lacks(o, h, arvio[h])
Causes == {"timer_taken", "edited_during_save", "page_reloaded", "left", "error_replaced",
           "other_officer"}
Blame(o, H, why) == [cause EXCEPT ![o] = [h \in Hakemukset |->
                       IF h \in H THEN @[h] \cup {why} ELSE @[h]]]
Rows(r) == [h \in Hakemukset |-> r.data.haku[h].arvio]
Missing(o, rows) == {h \in Hakemukset : Lacks(o, h, rows[h])}
\* The one save indicator of the page is overwritten.
Replaced(o) == IF store[o].saveStatus = "error" THEN Blame(o, Missing(o, arvio), "error_replaced")
               ELSE cause

--------------------------------------------------------------------------------
(* Edits and their delayed save *)

\* setArvioValue, then startHakemusArvioAutoSave: cancelActiveListeners ends the delay of
\* whatever application it was for.
EditArvio(o, h, k) ==
  LET n == used.edits + 1
      taken == IF store[o].timer \notin {h, NoHakemus} THEN {store[o].timer} ELSE {}
      during == IF Of(o, "arvio", h) # {} THEN {h} ELSE {}
      told == Replaced(o)
  IN
  /\ Loaded(o) /\ used.acts < MaxActs
  /\ store' = [store EXCEPT ![o].hakemukset[h].arvio[k] = n,
                            ![o].hakemukset[h].hasChanges = TRUE,
                            ![o].timer = h, ![o].saveStatus = "saving"]
  /\ used' = [used EXCEPT !.acts = @ + 1, !.edits = n]
  /\ mine' = [mine EXCEPT ![o][h][k] = n]
  /\ cause' = [told EXCEPT ![o] = [g \in Hakemukset |-> @[g]
                 \cup (IF g \in taken THEN {"timer_taken"} ELSE {})
                 \cup (IF g \in during THEN {"edited_during_save"} ELSE {})]]
  /\ UNCHANGED <<server, requests>>

\* The editors of the open application, once it has been loaded with the officer's rights.
EditOpen(o, k) ==
  LET h == store[o].selected IN
  h # NoHakemus /\ store[o].hakemukset[h].extra /\ EditArvio(o, h, k)

SetArviointiStatus(o) == EditOpen(o, "status")

\* By the officer, or by the page when there is one account to choose.
TalousarviotiliSelect(o) == EditOpen(o, "others")
SummaryComment(o) == EditOpen(o, "others")
Perustelut(o) == EditOpen(o, "others")
PresenterComment(o) == EditOpen(o, "others")
SpecifyOppilaitos(o) == EditOpen(o, "others")
AcademySize(o) == EditOpen(o, "others")
ShouldPay(o) == EditOpen(o, "others")
ShouldPayComments(o) == EditOpen(o, "others")
AllowVisibilityInExternalSystem(o) == EditOpen(o, "others")
SeurantaBudgetEditing(o) == EditOpen(o, "others")
SeurantaTags(o) == store[o].loadingHakemusId = NoHakemus /\ EditOpen(o, "others")

\* An overridden answer is edited where there is one: after the defaults were copied.
Overridden(o) ==
  LET h == store[o].selected IN
  h # NoHakemus /\ store[o].hakemukset[h].arvio["overridden-answers"] # 0
HakemusBudgetEditing(o) == Overridden(o) /\ EditOpen(o, "overridden-answers")
TraineeDayEditing(o) == Overridden(o) /\ EditOpen(o, "overridden-answers")

\* The panel over the list names a presenter for any application, open or not.
SelectPerson(o, h) == EditArvio(o, h, "presenter-role-id")

\* saveHakemusArvio of an application the page holds.
CanSave(o, h) == Loaded(o) /\ store[o].hakemukset[h].hasChanges
PostArvio(o, h) == With(o, "arvio", h, [new |-> store[o].hakemukset[h].arvio])

\* The delay is over: the pending thunk sends the whole evaluation, or is rejected with
\* 'no changes' or for want of loaded data.
AutoSave(o) ==
  LET h == store[o].timer IN
  /\ h # NoHakemus
  /\ IF CanSave(o, h)
     THEN /\ requests' = PostArvio(o, h)
          /\ store' = [store EXCEPT ![o].timer = NoHakemus, ![o].saveStatus = "saving"]
          /\ cause' = Replaced(o)
     ELSE /\ store' = [store EXCEPT ![o].timer = NoHakemus, ![o].saveStatus = "error"]
          /\ UNCHANGED <<requests, cause>>
  /\ UNCHANGED <<server, used, mine>>

\* The handler of POST arvio reads the stored row, in a statement of its own, ...
ReadExisting(r) ==
  /\ r.kind = "arvio" /\ r.at = "sent"
  /\ requests' = (requests \ {r}) \cup
       {[r EXCEPT !.at = "existing",
                  !.data = [new |-> r.data.new, old |-> arvio[r.h]["status"], log |-> changelog[r.h]]]}
  /\ UNCHANGED <<server, store, used, mine, cause>>

\* Mutant: the first change is not recorded.
UpdateChangelogLater(log, old, new) ==
  IF old # 0 /\ new # old THEN Append(log, <<old, new>>) ELSE log
\* ... extends the changelog it read, ...
UpdateChangelog(log, old, new) ==
  IF new # old THEN Append(log, <<old, new>>) ELSE log

\* ... and writes both over whatever the row now holds.
UpsertArvio(r) ==
  /\ r.kind = "arvio" /\ r.at = "existing"
  /\ arvio' = [arvio EXCEPT ![r.h] = r.data.new]
  /\ changelog' = [changelog EXCEPT ![r.h] =
                     UpdateChangelog(r.data.log, r.data.old, r.data.new["status"])]
  /\ cause' = [o \in Officers |-> [cause[o] EXCEPT ![r.h] =
       IF o # r.o /\ Lacks(o, r.h, r.data.new) THEN @ \cup {"other_officer"} ELSE @]]
  /\ requests' = (requests \ {r}) \cup {[r EXCEPT !.at = "answered", !.data = [new |-> r.data.new]]}
  /\ UNCHANGED <<settings, store, used, mine>>

\* saveHakemusArvio.fulfilled: the flag is cleared, whatever was edited since it was sent.
\* When the page holds another grant the reducer throws and nothing changes.
ArvioSaved(r) ==
  /\ r.kind = "arvio" /\ r.at = "answered"
  /\ requests' = requests \ {r}
  /\ IF Loaded(r.o)
     THEN /\ store' = [store EXCEPT ![r.o].hakemukset[r.h].hasChanges = FALSE,
                                    ![r.o].saveStatus = "saved"]
          /\ cause' = Replaced(r.o)
     ELSE UNCHANGED <<store, cause>>
  /\ UNCHANGED <<server, used, mine>>

\* Mutant: the page is not told.
ArvioRejectedUntold(r) ==
  /\ r.kind = "arvio" /\ r.at \in {"sent", "answered"} /\ used.faults < MaxFaults
  /\ requests' = requests \ {r}
  /\ used' = [used EXCEPT !.faults = @ + 1]
  /\ UNCHANGED <<server, store, mine, cause>>
\* A fault on the way there or back: the thunk is rejected and not tried again.
ArvioRejected(r) ==
  /\ r.kind = "arvio" /\ r.at \in {"sent", "answered"} /\ used.faults < MaxFaults
  /\ requests' = requests \ {r}
  /\ used' = [used EXCEPT !.faults = @ + 1]
  /\ store' = [store EXCEPT ![r.o].saveStatus = "error"]
  /\ UNCHANGED <<server, mine, cause>>

--------------------------------------------------------------------------------
(* Loading *)

\* Selecting an application, or refreshing it, fetches it unless that is under way.
SelectHakemus(o, h) ==
  /\ Loaded(o) /\ store[o].loadingHakemusId # h /\ used.acts < MaxActs
  /\ store' = [store EXCEPT ![o].selected = h, ![o].loadingHakemusId = h]
  /\ requests' = With(o, "select", h, Asked)
  /\ used' = [used EXCEPT !.acts = @ + 1]
  /\ UNCHANGED <<server, mine, cause>>

\* Attachments were changed: all applications are fetched again.
UpdateHakemukset(o) ==
  /\ Loaded(o) /\ used.acts < MaxActs
  /\ requests' = With(o, "hakemukset", NoHakemus, Asked)
  /\ used' = [used EXCEPT !.acts = @ + 1]
  /\ UNCHANGED <<server, store, mine, cause>>

\* The drop-down of grants: the data is dropped at once.  Only leaving is modelled.
FetchAvustushakuInfo(o) ==
  /\ Loaded(o) /\ used.acts < MaxActs
  /\ store' = [store EXCEPT ![o].data = "loading", ![o].selected = NoHakemus]
  /\ cause' = Blame(o, Hakemukset, "left")
  /\ requests' = With(o, "info", NoHakemus, Asked)
  /\ used' = [used EXCEPT !.acts = @ + 1]
  /\ UNCHANGED <<server, mine>>

\* The server reads the grant with its applications.
ReadHakuData(r) ==
  /\ r.kind \in Loads /\ r.at = "sent"
  /\ requests' = (requests \ {r}) \cup
       {[r EXCEPT !.at = "answered",
                  !.data = [haku |-> [h \in Hakemukset |-> Plain(r.o, arvio[h], settings[h])]]]}
  /\ UNCHANGED <<server, store, used, mine, cause>>

\* The default budget is copied into a clone of what was fetched; when that changes
\* anything, the page's own, older copy is flagged and saved before the clone is shown.
MutateDefaults(r) ==
  /\ r.kind = "select" /\ r.at = "answered" /\ Loaded(r.o)
  /\ r.data.haku[r.h].arvio["overridden-answers"] = 0
  /\ store' = [store EXCEPT ![r.o].hakemukset[r.h].hasChanges = TRUE,
                            ![r.o].saveStatus = "saving"]
  /\ LET sent == PostArvio(r.o, r.h)
         this == CHOOSE q \in sent : q.id = r.id
     IN requests' = (sent \ {this}) \cup
          {[this EXCEPT !.at = "saving", !.data.haku[r.h].arvio["overridden-answers"] = 1]}
  /\ cause' = Replaced(r.o)
  /\ UNCHANGED <<server, used, mine>>

\* selectHakemus.fulfilled: what was fetched replaces what the page held.
HakemusSelected(r) ==
  /\ r.kind = "select" /\ Loaded(r.o)
  /\ \/ r.at = "answered" /\ r.data.haku[r.h].arvio["overridden-answers"] = 1
     \/ r.at = "saving" /\ Of(r.o, "arvio", r.h) = {}
  /\ requests' = requests \ {r}
  /\ store' = [store EXCEPT ![r.o].hakemukset[r.h] = [r.data.haku[r.h] EXCEPT !.extra = TRUE],
                            ![r.o].loadingHakemusId = NoHakemus]
  /\ cause' = Blame(r.o, {r.h} \cap Missing(r.o, Rows(r)), "page_reloaded")
  /\ UNCHANGED <<server, used, mine>>

\* ... too late: while a grant loads the reducer throws and the application counts as
\* loading for good; a thunk that had defaults to flag is rejected instead.
HakemusSelectedTooLate(r) ==
  /\ r.kind = "select" /\ ~Loaded(r.o)
  /\ r.at = "answered" \/ (r.at = "saving" /\ Of(r.o, "arvio", r.h) = {})
  /\ requests' = requests \ {r}
  /\ LET throws == store[r.o].data = "loading"
                     /\ ~(r.at = "answered" /\ r.data.haku[r.h].arvio["overridden-answers"] = 0)
     IN store' = IF throws THEN store ELSE [store EXCEPT ![r.o].loadingHakemusId = NoHakemus]
  /\ UNCHANGED <<server, used, mine, cause>>

\* updateHakemukset.fulfilled replaces the data of whatever grant is open by now, and
\* throws while one is loading.
HakemuksetUpdated(r) ==
  /\ r.kind = "hakemukset" /\ r.at = "answered"
  /\ requests' = requests \ {r}
  /\ IF store[r.o].data = "loading" THEN UNCHANGED <<store, cause>>
     ELSE /\ store' = [store EXCEPT ![r.o].hakemukset = r.data.haku, ![r.o].data = "loaded"]
          /\ cause' = Blame(r.o, Missing(r.o, Rows(r)), "page_reloaded")
  /\ UNCHANGED <<server, used, mine>>

\* fetchAvustushakuInfo.fulfilled: the other grant is shown.
OtherGrantReceived(r) ==
  /\ r.kind = "info" /\ r.at = "answered"
  /\ requests' = requests \ {r}
  /\ store' = [store EXCEPT ![r.o].data = "other"]
  /\ UNCHANGED <<server, used, mine, cause>>

\* A load fails.
LoadRejected(r) ==
  /\ r.kind \in Loads /\ r.at = "sent" /\ used.faults < MaxFaults
  /\ requests' = requests \ {r}
  /\ used' = [used EXCEPT !.faults = @ + 1]
  /\ store' = IF r.kind = "select" THEN [store EXCEPT ![r.o].loadingHakemusId = NoHakemus]
              ELSE store
  /\ UNCHANGED <<server, mine, cause>>

--------------------------------------------------------------------------------
(* Settings with a request of their own *)

\* What the page shows of an application.
Sees(o, h) == store[o].hakemukset[h].settings

\* The other value than the one shown: the radio buttons, the drop-downs and the stars
\* offer that one only (a star clicked again is taken away).
Wanted(o, h, s) == ~Sees(o, h)[s]

\* A thunk is dispatched; only the first kind shows its outcome at once.
ChangeSetting(o, s) ==
  LET h == store[o].selected
      v == Wanted(o, h, s) IN
  /\ h # NoHakemus /\ Loaded(o) /\ store[o].hakemukset[h].extra /\ used.acts < MaxActs
  /\ requests' = With(o, s, h, [arg |-> v, was |-> Sees(o, h)[s], result |-> Sees(o, h)[s]])
  /\ LET pending == [store EXCEPT ![o].saveStatus = "saving"]
     IN store' = IF s = "keskeytettyAloittamatta"
                 THEN [pending EXCEPT ![o].hakemukset[h].settings[s] = v] ELSE pending
  /\ used' = [used EXCEPT !.acts = @ + 1]
  /\ cause' = Replaced(o)
  /\ UNCHANGED <<server, mine>>

ProjectSelect(o) == ChangeSetting(o, "project")
StarElement(o) == ChangeSetting(o, "scores")
ApplicationPayments(o) == ChangeSetting(o, "payments")
KeskeytaAloittamatta(o) == ChangeSetting(o, "keskeytettyAloittamatta")
ChangeRequest(o) == ChangeSetting(o, "status")
\* A comment is only added.
HakemusComments(o) ==
  LET h == store[o].selected IN
  h # NoHakemus /\ Wanted(o, h, "comments") /\ ChangeSetting(o, "comments")

\* The server stores it; a score and a status are followed by a read of their own.
Reads == {"scores", "status"}
StoreSetting(r) ==
  LET h == r.h
      new == IF r.kind \notin ByOfficer THEN r.data.arg
             ELSE IF r.data.arg THEN settings[h][r.kind] \cup {r.o}
             ELSE settings[h][r.kind] \ {r.o}
  IN
  /\ r.kind \in Settings /\ r.at = "sent"
  /\ settings' = [settings EXCEPT ![h][r.kind] = new]
  /\ requests' = (requests \ {r}) \cup
       {[r EXCEPT !.at = IF r.kind \in Reads THEN "written" ELSE "answered",
                  !.data.result = r.data.arg]}
  /\ UNCHANGED <<arvio, changelog, store, used, mine, cause>>

ReadSetting(r) ==
  /\ r.kind \in Reads /\ r.at = "written"
  /\ requests' = (requests \ {r}) \cup
       {[r EXCEPT !.at = "answered", !.data.result = View(r.o, settings[r.h])[r.kind]]}
  /\ UNCHANGED <<server, store, used, mine, cause>>

\* fulfilled: project, status and payment are shown as asked for, the others as answered.
\* Without the application the reducer throws.
Answer(r) == IF r.kind \in {"project", "status", "payments"} THEN r.data.arg ELSE r.data.result
SettingStored(r) ==
  /\ r.kind \in Settings /\ r.at = "answered"
  /\ requests' = requests \ {r}
  /\ IF Loaded(r.o)
     THEN /\ store' = [store EXCEPT ![r.o].hakemukset[r.h].settings[r.kind] = Answer(r),
                                    ![r.o].saveStatus = "saved"]
          /\ cause' = Replaced(r.o)
     ELSE UNCHANGED <<store, cause>>
  /\ UNCHANGED <<server, used, mine>>

\* Mutant: what was shown at once stays.
SettingRejectedShown(r) ==
  /\ r.kind \in Settings /\ used.faults < MaxFaults
  /\ requests' = requests \ {r}
  /\ used' = [used EXCEPT !.faults = @ + 1]
  /\ store' = [store EXCEPT ![r.o].saveStatus = "error"]
  /\ UNCHANGED <<server, mine, cause>>
\* rejected: what was shown at once is taken back, by negating what was asked for.
SettingRejected(r) ==
  /\ r.kind \in Settings /\ used.faults < MaxFaults
  /\ requests' = requests \ {r}
  /\ used' = [used EXCEPT !.faults = @ + 1]
  /\ LET told == [store EXCEPT ![r.o].saveStatus = "error"]
     IN store' = IF r.kind # "keskeytettyAloittamatta" THEN told
                 ELSE IF ~Loaded(r.o) THEN store
                 ELSE [told EXCEPT ![r.o].hakemukset[r.h].settings[r.kind] = ~r.data.arg]
  /\ UNCHANGED <<server, mine, cause>>

--------------------------------------------------------------------------------
Init ==
  /\ arvio = [h \in Hakemukset |-> NoArvio]
  /\ changelog = [h \in Hakemukset |-> <<>>]
  /\ settings = [h \in Hakemukset |-> NoSettings]
  /\ store = [o \in Officers |->
       [data |-> "loaded", hakemukset |-> [h \in Hakemukset |-> Plain(o, NoArvio, NoSettings)],
        selected |-> NoHakemus, loadingHakemusId |-> NoHakemus, timer |-> NoHakemus,
        saveStatus |-> ""]]
  /\ requests = {}
  /\ used = [acts |-> 0, edits |-> 1, faults |-> 0]   \* 1 is the mark of the defaults
  /\ mine = [o \in Officers |-> [h \in Hakemukset |-> NoArvio]]
  /\ cause = [o \in Officers |-> [h \in Hakemukset |-> {}]]

\* What an officer does.
Officer(o) ==
  \/ SetArviointiStatus(o) \/ TalousarviotiliSelect(o) \/ SummaryComment(o) \/ Perustelut(o)
  \/ PresenterComment(o) \/ SpecifyOppilaitos(o) \/ AcademySize(o) \/ ShouldPay(o)
  \/ ShouldPayComments(o) \/ AllowVisibilityInExternalSystem(o)
  \/ SeurantaBudgetEditing(o) \/ SeurantaTags(o)
  \/ HakemusBudgetEditing(o) \/ TraineeDayEditing(o)
  \/ \E h \in Hakemukset : SelectPerson(o, h) \/ SelectHakemus(o, h)
  \/ UpdateHakemukset(o)
  \/ FetchAvustushakuInfo(o)
  \/ ProjectSelect(o) \/ StarElement(o) \/ KeskeytaAloittamatta(o)
  \/ ChangeRequest(o) \/ HakemusComments(o) \/ ApplicationPayments(o)

\* What the server and the page do by themselves.
Progress(r) ==
  \/ ReadExisting(r) \/ UpsertArvio(r) \/ ArvioSaved(r)
  \/ ReadHakuData(r) \/ MutateDefaults(r)
  \/ HakemusSelected(r) \/ HakemusSelectedTooLate(r)
  \/ HakemuksetUpdated(r) \/ OtherGrantReceived(r)
  \/ StoreSetting(r) \/ ReadSetting(r) \/ SettingStored(r)

Fault(r) == ArvioRejected(r) \/ LoadRejected(r) \/ SettingRejected(r)

Next ==
  \/ \E o \in Officers : Officer(o) \/ AutoSave(o)
  \/ \E r \in requests : Progress(r) \/ Fault(r)

Spec == Init /\ [][Next]_vars

--------------------------------------------------------------------------------
TypeOK ==
  /\ arvio \in [Hakemukset -> [Keys -> Nat]]
  /\ changelog \in [Hakemukset -> Seq(Nat \X Nat)]
  /\ \A h \in Hakemukset, s \in Settings :
       settings[h][s] \in IF s \in ByOfficer THEN SUBSET Officers ELSE BOOLEAN
  /\ store \in [Officers -> Store]
  /\ mine \in [Officers -> [Hakemukset -> [Keys -> Nat]]]
  /\ cause \in [Officers -> [Hakemukset -> SUBSET Causes]]

\* When nothing is under way for an application and the page shows no error, what the
\* officer last gave for it is stored, unless one of the six causes occurred.
LossHasACause ==
  \A o \in Officers, h \in Hakemukset :
    /\ store[o].timer # h /\ Of(o, "arvio", h) = {} /\ store[o].saveStatus # "error"
    /\ cause[o][h] = {}
    => ~Unsaved(o, h)

\* The changelog of an evaluation is a chain that ends in its status, however saves of
\* several officers meet.
ChangelogTellsStatus ==
  \A h \in Hakemukset :
    LET log == changelog[h] IN
    /\ \A i \in 1..(Len(log) - 1) : log[i][2] = log[i + 1][1]
    /\ arvio[h]["status"] = IF log = <<>> THEN 0 ELSE log[Len(log)][2]

\* A call that met no other shows, when it ends, what the server stores, and what it
\* showed before when it fails.
CallsEndAsShown ==
  [][\A r \in requests :
       r.kind \in Settings /\ r.alone /\ Loaded(r.o) /\ ~(\E q \in requests' : q.id = r.id)
       => LET shown == store'[r.o].hakemukset[r.h].settings[r.kind]
          IN shown = IF used'.faults > used.faults THEN r.data.was
                     ELSE View(r.o, settings[r.h])[r.kind]]_vars

\* The one indicator of the page says "saving" only while a delay or a request of the page
\* can still change it, unless the grant was left meanwhile.
Reported == Settings \cup {"arvio"}
SavingHasAReason ==
  \A o \in Officers :
    store[o].saveStatus = "saving" =>
      \/ store[o].timer # NoHakemus
      \/ \E r \in requests : r.o = o /\ r.kind \in Reported
      \/ \E h \in Hakemukset : "left" \in cause[o][h]

================================================================================
