-------------------------------- MODULE Listaus --------------------------------
(***************************************************************************)
(* The lists of the officers: the applications of a grant with their       *)
(* filters (place "hakemukset"), from which decision lists are opened in   *)
(* windows of their own, and the grants with theirs (place "haut").        *)
(*                                                                         *)
(* The list of applications stays mounted when another grant is opened,    *)
(* but a resolved grant is listed in another table, with more filters.     *)
(***************************************************************************)
EXTENDS Yhteiset, Naturals, FiniteSets, Sequences

CONSTANTS MaxRajaukset, MaxListat,   \* acts of the officer; decision lists opened
          MaxListavirheet            \* requests that fail

Lists == {"hakemukset", "haut"}

VARIABLES
  lists,        \* which list a behaviour is about
  resolved,     \* the grants that are resolved
  tiedot,       \* the application of each grant, as far as the filters tell
  avoin,        \* the open grant
  filter,       \* the filters of the list of applications
  searches,     \* requests to store what is listed
  summaryUrl,   \* the key of the local storage
  windows,      \* the windows opened for decision lists
  grants,       \* status and first and last day of application of each grant
  hakuFilter,   \* the filters of the list of grants
  listUsed,     \* how much of each bound is used
  leftover,     \* ghost: filters set in a resolved grant that was left
  entangled     \* ghost: a window waited while another list was asked for, or a request failed

listVars == <<lists, resolved, tiedot, avoin, filter, searches, summaryUrl, windows, grants, hakuFilter,
              listUsed, leftover, entangled>>

CanFilter == lists = "hakemukset" /\ listUsed.acts < MaxRajaukset
ListAct == listUsed' = [listUsed EXCEPT !.acts = @ + 1]

--------------------------------------------------------------------------------
(* The filters of the applications *)

NoStatus == ""
StatusChoices == [hakemus |-> {"unhandled", "rejected"}, muutoshakemus |-> {"new", "accepted"},
             valiselvitys |-> {"missing", "submitted"}, loppuselvitys |-> {"missing", "submitted"}]
Columns == DOMAIN StatusChoices
\* Questions of a form whose answers can be chosen, and the tags of the officers.
Questions == {"radioButton", "checkboxButton", "tags"}

Ordinary == [hakemus |-> "unhandled", muutoshakemus |-> NoStatus, valiselvitys |-> "missing",
             loppuselvitys |-> "missing", named |-> FALSE, presented |-> FALSE, answered |-> {},
             complete |-> TRUE]
\* An application differs from an ordinary one in one thing.
Tiedot == {Ordinary, [Ordinary EXCEPT !.hakemus = "rejected"], [Ordinary EXCEPT !.muutoshakemus = "new"],
           [Ordinary EXCEPT !.valiselvitys = "information_verified"],
           [Ordinary EXCEPT !.loppuselvitys = "submitted"], [Ordinary EXCEPT !.named = TRUE],
           [Ordinary EXCEPT !.presented = TRUE], [Ordinary EXCEPT !.complete = FALSE]}
          \cup {[Ordinary EXCEPT !.answered = {q}] : q \in Questions}

IsResolved(h) == h \in resolved
\* getDefaultState
DefaultStatuses(isResolved) ==
  [StatusChoices EXCEPT !.hakemus = IF isResolved THEN @ \ {"rejected"} ELSE @]

\* Mutant: a verified interim report is compared with the statuses that can be chosen.
StatusOKVerifiedToo(column, status) ==
  LET chosen == filter.status[column] IN
  IF column = "hakemus" THEN status \in chosen ELSE chosen = {} \/ status \in chosen \cup {NoStatus}
\* No status chosen shows all, except in the column of the application's own status; a verified
\* interim report is always shown.
StatusOK(column, status) ==
  LET chosen == filter.status[column] IN
  \/ status \in chosen
  \/ column # "hakemus" /\ (chosen = {} \/ status = NoStatus)
  \/ column = "valiselvitys" /\ status = "information_verified"

\* A checkbox has a list of answers, and is compared with one.
AnswerFilter(t) == filter.answers \ {"tags"} \subseteq t.answered \ {"checkboxButton"}
TagFilter(t) == "tags" \in filter.answers => "tags" \in t.answered

\* HakemusFilter: what each control keeps from the list.
Controls == Columns \cup {"text", "role", "answers"}
Excludes(control, t) ==
  CASE control \in Columns -> ~StatusOK(control, t[control])
    [] control = "text" -> filter.text /\ ~t.named
    [] control = "role" -> filter.role # NoHaku /\ ~(filter.role = avoin /\ t.presented)
    [] OTHER -> ~(AnswerFilter(t) /\ TagFilter(t))
\* The applications the list counts, and those it lists.
HakemusList == {h \in {avoin} : filter.showAll \/ tiedot[h].complete}
FilteredList == {h \in HakemusList : \A c \in Controls : ~Excludes(c, tiedot[h])}

\* HakemusTable and ResolvedTable: the controls of the table that is shown.
TableControls == IF IsResolved(avoin) THEN Controls ELSE Controls \ {"muutoshakemus", "valiselvitys", "loppuselvitys"}
\* The control shows that it limits the list, and offers to stop it.
Active(control) ==
  CASE control \in Columns -> filter.status[control] # StatusChoices[control]
    [] control = "text" -> filter.text
    [] control = "role" -> filter.role # NoHaku
    [] OTHER -> filter.answers # {}

ListsStay == UNCHANGED <<lists, resolved, tiedot, searches, summaryUrl, windows, grants, hakuFilter,
                       entangled>>

\* StatusTableLabel: a status is chosen or not.
SetStatusFilter(column, status) ==
  /\ CanFilter /\ column \in TableControls
  /\ filter' = [filter EXCEPT !.status[column] = IF status \in @ THEN @ \ {status} ELSE @ \cup {status}]
  /\ ListAct /\ ListsStay /\ UNCHANGED <<avoin, leftover>>
ClearStatusFilter(column) ==
  /\ CanFilter /\ column \in TableControls /\ Active(column)
  /\ filter' = [filter EXCEPT !.status[column] = StatusChoices[column]]
  /\ ListAct /\ ListsStay /\ UNCHANGED <<avoin, leftover>>
SetText ==
  /\ CanFilter
  /\ filter' = [filter EXCEPT !.text = ~@]
  /\ ListAct /\ ListsStay /\ UNCHANGED <<avoin, leftover>>
\* PersonTableLabel: the roles offered are those of the open grant.
OnClickRole ==
  /\ CanFilter
  /\ filter' = [filter EXCEPT !.role = IF @ = NoHaku THEN avoin ELSE NoHaku]
  /\ ListAct /\ ListsStay /\ UNCHANGED <<avoin, leftover>>
SetAnswerFilter(q) ==
  /\ CanFilter
  /\ filter' = [filter EXCEPT !.answers = IF q \in @ THEN @ \ {q} ELSE @ \cup {q}]
  /\ ListAct /\ ListsStay /\ UNCHANGED <<avoin, leftover>>
ClearFilters ==
  /\ CanFilter /\ filter.answers # {}
  /\ filter' = [filter EXCEPT !.answers = {}]
  /\ ListAct /\ ListsStay /\ UNCHANGED <<avoin, leftover>>
ToggleShowAll ==
  /\ CanFilter /\ ~IsResolved(avoin)
  /\ filter' = [filter EXCEPT !.showAll = ~@]
  /\ ListAct /\ ListsStay /\ UNCHANGED <<avoin, leftover>>

\* Another grant: only the statuses of the applications start over, when the table changes.
AvustushakuDropdown(h) ==
  LET changes == IsResolved(h) # IsResolved(avoin) IN
  /\ CanFilter /\ h # avoin
  /\ avoin' = h
  /\ filter' = IF changes THEN [filter EXCEPT !.status.hakemus = DefaultStatuses(IsResolved(h)).hakemus]
               ELSE filter
  /\ leftover' = IF ~changes THEN leftover
                 ELSE IF IsResolved(h) THEN {} ELSE {c \in Columns \ {"hakemus"} : Active(c)}
  /\ ListAct /\ ListsStay

--------------------------------------------------------------------------------
(* Decision lists *)

Listing(h, set) == [haku |-> h, hakemukset |-> set]
NoListing == Listing(NoHaku, {})
Waits(w) == w.shows = NoListing

\* The link opens a window at once; what is listed is stored, and the window told, later.
OnYhteenvetoClick ==
  LET clicked == Listing(avoin, FilteredList) IN
  /\ CanFilter /\ listUsed.windows < MaxListat
  /\ windows' = windows \cup {[id |-> listUsed.windows, of |-> clicked, shows |-> NoListing]}
  /\ searches' = searches \cup {[id |-> listUsed.windows, of |-> clicked, at |-> "sent"]}
  /\ listUsed' = [listUsed EXCEPT !.windows = @ + 1, !.acts = @ + 1]
  /\ entangled' = (entangled \/ \E w \in windows : Waits(w))
  /\ UNCHANGED <<lists, resolved, tiedot, avoin, filter, summaryUrl, grants, hakuFilter, leftover>>

\* create-or-get-search: the url names the list, whoever stored it first.
PutSearches(s) ==
  /\ s.at = "sent"
  /\ searches' = (searches \ {s}) \cup {[s EXCEPT !.at = "stored"]}
  /\ UNCHANGED <<lists, resolved, tiedot, avoin, filter, summaryUrl, windows, grants, hakuFilter, listUsed,
                 leftover, entangled>>
SetSummaryUrl(s) ==
  /\ s.at = "stored"
  /\ summaryUrl' = s.of
  /\ searches' = searches \ {s}
  /\ UNCHANGED <<lists, resolved, tiedot, avoin, filter, windows, grants, hakuFilter, listUsed, leftover,
                 entangled>>
\* The rejection of the request is handled by nobody.
SearchFails(s) ==
  /\ listUsed.failures < MaxListavirheet
  /\ searches' = searches \ {s} /\ entangled' = TRUE
  /\ listUsed' = [listUsed EXCEPT !.failures = @ + 1]
  /\ UNCHANGED <<lists, resolved, tiedot, avoin, filter, summaryUrl, windows, grants, hakuFilter, leftover>>

\* Every half a second a window that waits looks for an url, and takes whichever it finds.
PollSummaryUrl(w) ==
  /\ Waits(w) /\ summaryUrl # NoListing
  /\ windows' = (windows \ {w}) \cup {[w EXCEPT !.shows = summaryUrl]}
  /\ summaryUrl' = NoListing
  /\ UNCHANGED <<lists, resolved, tiedot, avoin, filter, searches, grants, hakuFilter, listUsed, leftover,
                 entangled>>

--------------------------------------------------------------------------------
(* The list of grants *)

HakuStatuses == {"draft", "published"}

\* A date is a year, a month and a day.
Dates == {<<2023, 9, 30>>, <<2023, 10, 2>>, <<2024, 1, 9>>, <<2024, 1, 10>>}
NoDate == <<>>
Before(d, e) == \E i \in 1..3 : d[i] < e[i] /\ \A j \in 1..(i - 1) : d[j] = e[j]

\* getDateWithoutTime: "2023-9-30", its months and days without leading zeros.  A dash comes
\* before every digit.
Dash == 0
Digits(n) == IF n < 10 THEN <<n + 1>> ELSE <<(n \div 10) + 1, (n % 10) + 1>>
DateText(d) == <<d[1], Dash>> \o Digits(d[2]) \o <<Dash>> \o Digits(d[3])
\* Strings are compared character by character; the years have four.
TextBefore(s, t) ==
  \/ \E i \in DOMAIN s \cap DOMAIN t : s[i] < t[i] /\ \A j \in 1..(i - 1) : s[j] = t[j]
  \/ Len(s) < Len(t) /\ \A i \in DOMAIN s : s[i] = t[i]

\* tableFilterMap
DurationOK(h) ==
  /\ hakuFilter.from # NoDate => ~TextBefore(DateText(grants[h].starts), DateText(hakuFilter.from))
  /\ hakuFilter.to # NoDate => ~TextBefore(DateText(hakuFilter.to), DateText(grants[h].ends))
FilteredHaut == {h \in Haut : grants[h].status \in hakuFilter.statuses /\ DurationOK(h)}

CanFilterHaut == lists = "haut" /\ listUsed.acts < MaxRajaukset
ApplicationsStay == UNCHANGED <<lists, resolved, tiedot, avoin, filter, searches, summaryUrl, windows, grants,
                               leftover, entangled>>
SetDuration(end, date) ==
  /\ CanFilterHaut /\ hakuFilter[end] # date
  /\ hakuFilter' = [hakuFilter EXCEPT ![end] = date]
  /\ ListAct /\ ApplicationsStay
ClearDurations ==
  /\ CanFilterHaut /\ <<hakuFilter.from, hakuFilter.to>> # <<NoDate, NoDate>>
  /\ hakuFilter' = [hakuFilter EXCEPT !.from = NoDate, !.to = NoDate]
  /\ ListAct /\ ApplicationsStay
\* The status of a grant, and its phase alike, is toggled by its checkbox or all are chosen again.
ToggleStatus(status) ==
  /\ CanFilterHaut
  /\ hakuFilter' = [hakuFilter EXCEPT !.statuses = IF status \in @ THEN @ \ {status} ELSE @ \cup {status}]
  /\ ListAct /\ ApplicationsStay
ClearStatuses ==
  /\ CanFilterHaut /\ hakuFilter.statuses # HakuStatuses
  /\ hakuFilter' = [hakuFilter EXCEPT !.statuses = HakuStatuses]
  /\ ListAct /\ ApplicationsStay

--------------------------------------------------------------------------------
ListInit ==
  \* One list at a time: the data of the other do not vary.
  /\ \/ /\ lists = "hakemukset" /\ avoin \in Haut
        /\ \E t \in Tiedot : tiedot = [h \in Haut |-> t]
        /\ grants = [h \in Haut |-> [status |-> "published", starts |-> <<2023, 9, 30>>, ends |-> <<2023, 9, 30>>]]
     \/ /\ lists = "haut" /\ avoin \in Haut /\ avoin = CHOOSE h \in Haut : TRUE
        /\ tiedot = [h \in Haut |-> Ordinary]
        /\ \E g \in [status: HakuStatuses, starts: Dates, ends: Dates] :
             ~Before(g.ends, g.starts) /\ grants = [h \in Haut |-> g]
  /\ resolved = {CHOOSE h \in Haut : TRUE}
  /\ filter = [status |-> DefaultStatuses(IsResolved(avoin)), text |-> FALSE, role |-> NoHaku,
               answers |-> {}, showAll |-> FALSE]
  /\ searches = {} /\ summaryUrl = NoListing /\ windows = {}
  /\ hakuFilter = [statuses |-> HakuStatuses, from |-> NoDate, to |-> NoDate]
  /\ listUsed = [acts |-> 0, windows |-> 0, failures |-> 0]
  /\ leftover = {} /\ entangled = FALSE

ListNext ==
  \/ \E c \in Columns : ClearStatusFilter(c) \/ \E s \in StatusChoices[c] : SetStatusFilter(c, s)
  \/ SetText \/ OnClickRole \/ ClearFilters \/ ToggleShowAll
  \/ \E q \in Questions : SetAnswerFilter(q)
  \/ \E h \in Haut : AvustushakuDropdown(h)
  \/ OnYhteenvetoClick
  \/ \E s \in searches : PutSearches(s) \/ SetSummaryUrl(s) \/ SearchFails(s)
  \/ \E w \in windows : PollSummaryUrl(w)
  \/ \E end \in {"from", "to"}, d \in Dates : SetDuration(end, d)
  \/ \E s \in HakuStatuses : ToggleStatus(s)
  \/ ClearDurations \/ ClearStatuses

ListSpec == ListInit /\ [][ListNext]_listVars

--------------------------------------------------------------------------------
ListTypeOK ==
  /\ avoin \in Haut /\ tiedot \in [Haut -> Tiedot]
  /\ \A c \in Columns : filter.status[c] \subseteq StatusChoices[c]
  /\ filter.role \in Haut \cup {NoHaku} /\ filter.answers \subseteq Questions
  /\ \A w \in windows : w.of.haku \in Haut /\ w.shows.haku \in Haut \cup {NoHaku}

\* An application that is counted and not listed is kept away by a control that the table
\* shows to be active, or by a filter left from a resolved grant, whose control is not shown
\* any more.  An application that has every answer chosen is not kept away by the answers,
\* unless one is of a checkbox.
\* A grant is kept away by the days of the filter exactly when it starts too early or ends too
\* late, among days and months written with as many digits.
ListHidesForAReason ==
  /\ \A h \in HakemusList \ FilteredList :
       \E c \in Controls : Excludes(c, tiedot[h]) /\ c \in leftover \cup {d \in TableControls : Active(d)}
  /\ \A h \in HakemusList :
       filter.answers \subseteq tiedot[h].answered \ {"checkboxButton"} => ~Excludes("answers", tiedot[h])
  /\ \A h \in Haut :
       LET AsLong(d, e) == e # NoDate => \A i \in {2, 3} : Len(Digits(d[i])) = Len(Digits(e[i]))
           g == grants[h] IN
       AsLong(g.starts, hakuFilter.from) /\ AsLong(g.ends, hakuFilter.to) =>
         (~DurationOK(h) <=> \/ hakuFilter.from # NoDate /\ Before(g.starts, hakuFilter.from)
                             \/ hakuFilter.to # NoDate /\ Before(hakuFilter.to, g.ends))

\* A window opened for a decision list shows the list that was clicked, or waits; unless a
\* window was waiting when another was opened, or a request failed and left one waiting.
DecisionListIsTheOneClicked ==
  ~entangled => \A w \in windows : w.shows \in {NoListing, w.of}

\* "Rajaa avustushaut niihin joiden hakuaika alkaa paivamaarana tai sen jalkeen": a grant whose
\* application time starts before the day chosen is not listed.
EarlierGrantsAreNotListed ==
  \A h \in FilteredHaut : hakuFilter.from # NoDate => ~Before(grants[h].starts, hakuFilter.from)

================================================================================
