-------------------------------- MODULE Koodienhallinta --------------------------------
(***************************************************************************)
(* The page of the budget accounts (tab "tilit") and of the units and      *)
(* projects (tab "koodit"), the server that keeps and deletes them, and    *)
(* the grant editor that meanwhile takes them in use.                      *)
(*                                                                         *)
(* The list of the page is a cached query: a change has it fetched again   *)
(* when no request of the page is left.  A row of an account is a form     *)
(* that keeps the values it was first shown with.                          *)
(***************************************************************************)
EXTENDS Yhteiset, Naturals, FiniteSets

CONSTANTS Arvot,                        \* what an account or a code can say of itself
          MaxKoodi,                     \* identities the database can give
          MaxKoodiActs, MaxKoodiFaults  \* acts of the officer; requests that fail

ASSUME ArvotAssumption == \E v, w \in Arvot : v # w
ASSUME KoodiAssumption == MaxKoodi \in Nat

KoodiTabs == {"tilit", "koodit"}
Koodit == 1..MaxKoodi
NoKoodi == 0

VARIABLES
  koodiTab,
  koodit,     \* the rows on the server
  uses,       \* <<grant, identity>>: the uses committed
  useTx,      \* uses written by transactions of the grant editor that are open
  lista,      \* the cached list: a function on the identities it holds
  rivit,      \* the form of each row: values at first, values now, submitted
  uusi,       \* the form for a new one: its value is being sent, or is refused
  editing,    \* the account the store says is edited
  refetch,    \* the list is to be fetched when the page has no other request
  koodiCalls, \* requests under way
  koodiUsed,  \* how much of each bound is used
  lapsed,     \* ghost: rows that do not show what is stored, and the page does not tell
  crossed     \* ghost: identities taken in use while they were being deleted

koodiVars == <<koodiTab, koodit, uses, useTx, lista, rivit, uusi, editing, refetch, koodiCalls,
               koodiUsed, lapsed, crossed>>

Live == {i \in Koodit : koodit[i].state = "live"}
UsedBy(set) == {u[2] : u \in set}
KoodiCall(kind, i, v) == [kind |-> kind, id |-> i, value |-> v, at |-> "sent", list |-> <<>>]
Mutations == {"create", "update", "delete", "visibility"}
\* isLoading of the row's own mutations.
Loading(i) == \E c \in koodiCalls : c.id = i /\ c.kind \in {"update", "delete"}
CanActOn(i) == koodiUsed.acts < MaxKoodiActs /\ i \in DOMAIN lista
KoodiAct == koodiUsed' = [koodiUsed EXCEPT !.acts = @ + 1]
--------------------------------------------------------------------------------
(* The officer *)

\* editTalousarviotili: the forms of the other rows go back to the values they first had, which
\* are not what was stored since, or is being stored.
EditTili(i) ==
  LET Reset(j) == j \in DOMAIN lista \ {i} IN
  /\ koodiTab = "tilit" /\ CanActOn(i) /\ editing # i /\ ~Loading(i)
  /\ editing' = i
  /\ rivit' = [j \in Koodit |-> IF Reset(j) THEN [rivit[j] EXCEPT !.now = rivit[j].first, !.submitted = FALSE]
                            ELSE rivit[j]]
  /\ lapsed' = {j \in lapsed : ~Reset(j)}
                 \cup {j \in DOMAIN lista : Reset(j) /\ (rivit[j].first # koodit[j].value \/ Loading(j))}
  /\ KoodiAct
  /\ UNCHANGED <<koodiTab, koodit, uses, useTx, lista, uusi, refetch, koodiCalls, crossed>>

\* Typing: not seen by the store, so that whoever ends the editing leaves it shown and not stored.
TypeTili(i, v) ==
  /\ koodiTab = "tilit" /\ CanActOn(i) /\ editing = i /\ rivit[i].now # v
  /\ rivit' = [rivit EXCEPT ![i].now = v]
  /\ lapsed' = lapsed \cup {i}
  /\ KoodiAct
  /\ UNCHANGED <<koodiTab, koodit, uses, useTx, lista, uusi, editing, refetch, koodiCalls, crossed>>

\* TiliRow, onSubmit.
SubmitTili(i) ==
  /\ koodiTab = "tilit" /\ i \in DOMAIN lista /\ editing = i /\ ~rivit[i].submitted
  /\ rivit' = [rivit EXCEPT ![i].submitted = TRUE]
  /\ koodiCalls' = koodiCalls \cup {KoodiCall("update", i, rivit[i].now)}
  /\ lapsed' = lapsed \ {i}
  /\ UNCHANGED <<koodiTab, koodit, uses, useTx, lista, uusi, editing, refetch, koodiUsed, crossed>>

\* NewTiliRow, CodeInputForm.
SubmitNew(v) ==
  /\ koodiUsed.acts < MaxKoodiActs /\ uusi # "submitted"
  /\ uusi' = "submitted"
  /\ koodiCalls' = koodiCalls \cup {KoodiCall("create", NoKoodi, v)}
  /\ KoodiAct
  /\ UNCHANGED <<koodiTab, koodit, uses, useTx, lista, rivit, editing, refetch, lapsed, crossed>>

\* deleteTili is disabled when the list says the account is in use; deleteCode never is.
Delete(i) ==
  /\ CanActOn(i)
  /\ koodiTab = "tilit" => editing # i /\ ~Loading(i) /\ ~lista[i].used
  /\ koodiCalls' = koodiCalls \cup {KoodiCall("delete", i, koodiUsed.acts)}
  /\ KoodiAct
  /\ UNCHANGED <<koodiTab, koodit, uses, useTx, lista, rivit, uusi, editing, refetch, lapsed, crossed>>

SetCodeVisibility(i) ==
  /\ koodiTab = "koodit" /\ CanActOn(i)
  /\ koodiCalls' = koodiCalls \cup {KoodiCall("visibility", i, ~lista[i].hidden)}
  /\ KoodiAct
  /\ UNCHANGED <<koodiTab, koodit, uses, useTx, lista, rivit, uusi, editing, refetch, lapsed, crossed>>

--------------------------------------------------------------------------------
(* The server *)

Becomes(c, at) == koodiCalls' = (koodiCalls \ {c}) \cup {[c EXCEPT !.at = at]}

\* An account has a year and a code that no other undeleted account has.
Taken(i, v) == koodiTab = "tilit" /\ \E j \in Live \ {i} : koodit[j].value = v

CreateKoodi(c) ==
  LET free == {i \in Koodit : koodit[i].state = "none"} IN
  /\ c.kind = "create" /\ c.at = "sent"
  /\ \E i \in free :
       /\ \A m \in free : i <= m
       /\ IF Taken(NoKoodi, c.value) THEN Becomes(c, "taken") /\ UNCHANGED koodit
          ELSE /\ koodit' = [koodit EXCEPT ![i] = [state |-> "live", value |-> c.value, hidden |-> FALSE]]
               /\ Becomes(c, "ok")
  /\ UNCHANGED <<koodiTab, uses, useTx, lista, rivit, uusi, editing, refetch, koodiUsed, lapsed, crossed>>

\* A deleted row is written too; the index is on the others.
UpdateKoodi(c) ==
  /\ c.kind = "update" /\ c.at = "sent"
  /\ IF c.id \in Live /\ Taken(c.id, c.value) THEN Becomes(c, "taken") /\ UNCHANGED koodit
     ELSE koodit' = [koodit EXCEPT ![c.id].value = c.value] /\ Becomes(c, "ok")
  /\ UNCHANGED <<koodiTab, uses, useTx, lista, rivit, uusi, editing, refetch, koodiUsed, lapsed, crossed>>

EditVisibility(c) ==
  /\ c.kind = "visibility" /\ c.at = "sent"
  /\ koodit' = [koodit EXCEPT ![c.id].hidden = c.value] /\ Becomes(c, "ok")
  /\ UNCHANGED <<koodiTab, uses, useTx, lista, rivit, uusi, editing, refetch, koodiUsed, lapsed, crossed>>

\* Mutant: the use is not looked at.
NotChecked(c) ==
  /\ c.kind = "delete" /\ c.at = "sent"
  /\ Becomes(c, "checked")
  /\ UNCHANGED <<koodiTab, koodit, uses, useTx, lista, rivit, uusi, editing, refetch, koodiUsed,
                 lapsed, crossed>>
\* Deletion: the use is read in a transaction of its own, ...
IsUsed(c) ==
  /\ c.kind = "delete" /\ c.at = "sent"
  /\ Becomes(c, IF c.id \in UsedBy(uses) THEN "used" ELSE "checked")
  /\ UNCHANGED <<koodiTab, koodit, uses, useTx, lista, rivit, uusi, editing, refetch, koodiUsed,
                 lapsed, crossed>>
\* ... and the row is marked in another.  The trigger on accounts reads the committed uses once more.
MarkDeleted(c) ==
  /\ c.kind = "delete" /\ c.at = "checked"
  /\ Becomes(c, IF koodiTab = "tilit" /\ c.id \in UsedBy(uses) THEN "refused" ELSE "marked")
  /\ UNCHANGED <<koodiTab, koodit, uses, useTx, lista, rivit, uusi, editing, refetch, koodiUsed,
                 lapsed, crossed>>
CommitDeleted(c) ==
  /\ c.kind = "delete" /\ c.at = "marked"
  /\ koodit' = [koodit EXCEPT ![c.id].state = "deleted"]
  /\ Becomes(c, "ok")
  /\ UNCHANGED <<koodiTab, uses, useTx, lista, rivit, uusi, editing, refetch, koodiUsed, lapsed, crossed>>

\* Deletions that have looked at the uses and are not committed.
BeingDeleted == {c.id : c \in {d \in koodiCalls : d.at \in {"checked", "marked"}}}
\* The grant editor stores what its own list offered; a trigger refuses a deleted account, and
\* nothing a deleted code.  A grant has one such transaction at a time, which waits on its rows.
TakeInUse(h, i) ==
  /\ koodiUsed.acts < MaxKoodiActs /\ koodit[i].state # "none" /\ ~\E u \in useTx : u[1] = h
  /\ koodiTab = "tilit" => koodit[i].state = "live"
  /\ useTx' = useTx \cup {<<h, i>>}
  /\ KoodiAct
  /\ UNCHANGED <<koodiTab, koodit, uses, lista, rivit, uusi, editing, refetch, koodiCalls, lapsed, crossed>>
\* The use replaces the one the grant had.
CommitUse(u) ==
  /\ useTx' = useTx \ {u}
  /\ uses' = {w \in uses : w[1] # u[1]} \cup {u}
  /\ crossed' = IF u[2] \in BeingDeleted \/ koodit[u[2]].state = "deleted" THEN crossed \cup {u[2]}
                ELSE crossed
  /\ UNCHANGED <<koodiTab, koodit, lista, rivit, uusi, editing, refetch, koodiCalls, koodiUsed, lapsed>>
ReleaseUse(u) ==
  /\ koodiUsed.acts < MaxKoodiActs /\ ~\E w \in useTx : w[1] = u[1]
  /\ uses' = uses \ {u} /\ KoodiAct
  /\ UNCHANGED <<koodiTab, koodit, useTx, lista, rivit, uusi, editing, refetch, koodiCalls, lapsed, crossed>>

--------------------------------------------------------------------------------
(* The answers *)

Answers == {"ok", "taken", "used", "refused", "failed"}
\* The new form is emptied, told that the account exists, or left as it was.
CreateAnswered(c) ==
  /\ c.kind = "create" /\ c.at \in Answers
  /\ uusi' = CASE c.at = "ok" -> "" [] c.at = "taken" /\ koodiTab = "tilit" -> "taken" [] OTHER -> "kept"
  /\ koodiCalls' = koodiCalls \ {c} /\ refetch' = TRUE
  /\ UNCHANGED <<koodiTab, koodit, uses, useTx, lista, rivit, editing, koodiUsed, lapsed, crossed>>

\* Good or bad, the store is told that editing ended, whichever row is being edited; what is
\* typed in the rows stays.
UpdateAnswered(c) ==
  /\ c.kind = "update" /\ c.at \in Answers
  /\ editing' = NoKoodi
  /\ rivit' = [rivit EXCEPT ![c.id].submitted = FALSE]
  /\ lapsed' = IF c.at = "ok" THEN lapsed ELSE lapsed \cup {c.id}
  /\ koodiCalls' = koodiCalls \ {c} /\ refetch' = TRUE
  /\ UNCHANGED <<koodiTab, koodit, uses, useTx, lista, uusi, koodiUsed, crossed>>

\* A refused deletion is told by an alert (codes) or not at all (accounts).
DeletionAnswered(c) ==
  /\ c.kind \in {"delete", "visibility"} /\ c.at \in Answers
  /\ koodiCalls' = koodiCalls \ {c} /\ refetch' = TRUE
  /\ UNCHANGED <<koodiTab, koodit, uses, useTx, lista, rivit, uusi, editing, koodiUsed, lapsed, crossed>>

GetList ==
  /\ refetch /\ koodiCalls = {}
  /\ refetch' = FALSE
  /\ koodiCalls' = {KoodiCall("list", NoKoodi, NoKoodi)}
  /\ UNCHANGED <<koodiTab, koodit, uses, useTx, lista, rivit, uusi, editing, koodiUsed, lapsed, crossed>>
ServeList(c) ==
  LET Row(i) == [value |-> koodit[i].value, hidden |-> koodit[i].hidden, used |-> i \in UsedBy(uses)] IN
  /\ c.kind = "list" /\ c.at = "sent"
  /\ koodiCalls' = (koodiCalls \ {c}) \cup {[kind |-> "list", id |-> NoKoodi, value |-> NoKoodi,
                                            at |-> "ok", list |-> [i \in Live |-> Row(i)]]}
  /\ UNCHANGED <<koodiTab, koodit, uses, useTx, lista, rivit, uusi, editing, refetch, koodiUsed,
                 lapsed, crossed>>
\* A row that appears is a new form; one that stays keeps its values.
ListAnswered(c) ==
  LET New(i) == i \in DOMAIN c.list \ DOMAIN lista
      Form(i) == [first |-> c.list[i].value, now |-> c.list[i].value, submitted |-> FALSE] IN
  /\ c.kind = "list" /\ c.at = "ok"
  /\ lista' = c.list
  /\ rivit' = [i \in Koodit |-> IF New(i) THEN Form(i) ELSE rivit[i]]
  /\ koodiCalls' = koodiCalls \ {c}
  /\ UNCHANGED <<koodiTab, koodit, uses, useTx, uusi, editing, refetch, koodiUsed, lapsed, crossed>>

\* A failure takes the place of an act of the officer.
KoodiCallFails(c) ==
  /\ koodiUsed.failures < MaxKoodiFaults /\ koodiUsed.acts < MaxKoodiActs
  /\ c.at \in {"sent", "checked", "ok"}
  /\ koodiUsed' = [acts |-> koodiUsed.acts + 1, failures |-> koodiUsed.failures + 1]
  /\ IF c.kind = "list" THEN koodiCalls' = koodiCalls \ {c} ELSE Becomes(c, "failed")
  /\ UNCHANGED <<koodiTab, koodit, uses, useTx, lista, rivit, uusi, editing, refetch, lapsed, crossed>>

--------------------------------------------------------------------------------
KoodiInit ==
  /\ koodiTab \in KoodiTabs
  /\ LET first == CHOOSE f \in [1..2 -> Arvot] : f[1] # f[2] IN
       koodit = [i \in Koodit |-> [state |-> IF i <= 2 THEN "live" ELSE "none",
                                    value |-> first[IF i <= 2 THEN i ELSE 1], hidden |-> FALSE]]
  /\ uses = {} /\ useTx = {} /\ lista = [i \in {} |-> i]
  /\ rivit = [i \in Koodit |-> [first |-> koodit[i].value, now |-> koodit[i].value, submitted |-> FALSE]]
  /\ uusi = "" /\ editing = NoKoodi /\ refetch = TRUE /\ koodiCalls = {}
  /\ koodiUsed = [acts |-> 0, failures |-> 0]
  /\ lapsed = {} /\ crossed = {}

KoodiNext ==
  \/ \E i \in Koodit : EditTili(i) \/ SubmitTili(i) \/ Delete(i) \/ SetCodeVisibility(i)
  \/ \E i \in Koodit, v \in Arvot : TypeTili(i, v)
  \/ \E v \in Arvot : SubmitNew(v)
  \/ \E h \in Haut, i \in Koodit : TakeInUse(h, i)
  \/ \E u \in useTx : CommitUse(u)
  \/ \E u \in uses : ReleaseUse(u)
  \/ GetList
  \/ \E c \in koodiCalls :
       \/ CreateKoodi(c) \/ UpdateKoodi(c) \/ EditVisibility(c)
       \/ IsUsed(c) \/ MarkDeleted(c) \/ CommitDeleted(c)
       \/ CreateAnswered(c) \/ UpdateAnswered(c) \/ DeletionAnswered(c)
       \/ ServeList(c) \/ ListAnswered(c) \/ KoodiCallFails(c)

KoodiSpec == KoodiInit /\ [][KoodiNext]_koodiVars

--------------------------------------------------------------------------------
KoodiTypeOK ==
  /\ koodit \in [Koodit -> [state: {"none", "live", "deleted"}, value: Arvot, hidden: BOOLEAN]]
  /\ uses \subseteq Haut \X Koodit /\ useTx \subseteq Haut \X Koodit
  /\ DOMAIN lista \subseteq Koodit /\ editing \in Koodit \cup {NoKoodi}

\* A deleted account or code is in no grant's use, unless the use was committed after the
\* deletion had looked at the uses: the triggers on accounts close all of that but the window
\* of two open transactions, and codes have none.
UsedCodesExist == \A i \in UsedBy(uses) : koodit[i].state = "deleted" => i \in crossed

\* A page at rest lists what the server keeps, and the form of an account that is not edited
\* shows its stored values; unless a request failed, the account was refused, the values were
\* typed after or without a submission, or an edit of another row put back the values that
\* the row was first shown with.
CodesAgree ==
  koodiCalls = {} /\ ~refetch /\ koodiUsed.failures = 0 =>
    /\ DOMAIN lista = Live
    /\ \A i \in Live :
         /\ lista[i].value = koodit[i].value /\ lista[i].hidden = koodit[i].hidden
         /\ koodiTab = "tilit" /\ i \notin lapsed => rivit[i].now = koodit[i].value

================================================================================
