--------------------------- MODULE Virkailija_proofs ---------------------------
(***************************************************************************)
(* Proofs about the pages of the officers' application, for any officers,  *)
(* grants, accounts and numbers of acts and failures: the evaluation page, *)
(* the accounts and the lists, each by itself, and then all pages together *)
(* with those of Hallinta_proofs.                                          *)
(***************************************************************************)
EXTENDS MCVirkailija, Hallinta_proofs

-----------------------------------------------------------------------------
(* The evaluation page: what is true of every state                          *)

Kinds == {"arvio"} \cup Loads \cup Settings
ArvioRow == [Keys -> Nat]
Change == Nat \X Nat

\* The changes of a status lead from none to s.
Chain(log, s) ==
  /\ log \in Seq(Change)
  /\ \A i \in 1..(Len(log) - 1) : log[i][2] = log[i + 1][1]
  /\ s = IF log = <<>> THEN 0 ELSE log[Len(log)][2]

HakuData(d) == d = [haku |-> d.haku] /\ d.haku \in [Hakemukset -> Shown]
CallData == [arg : BOOLEAN, was : BOOLEAN, result : BOOLEAN]

\* A save sends a whole evaluation; what it has read is a chain.
ArvioOK(r) ==
  /\ r.h \in Hakemukset /\ r.at \in {"sent", "existing", "answered"} /\ r.data.new \in ArvioRow
  /\ r.at = "existing" => Chain(r.data.log, r.data.old)

LoadOK(r) ==
  /\ r.h \in IF r.kind = "select" THEN Hakemukset ELSE {NoHakemus}
  /\ r.at \in {"sent", "answered"} \/ (r.at = "saving" /\ r.kind = "select")
  /\ r.at # "sent" => HakuData(r.data)

SettingOK(r) ==
  /\ r.h \in Hakemukset /\ r.at \in {"sent", "written", "answered"} /\ r.data \in CallData
  /\ r.at = "written" => r.kind \in Reads

RequestOK(r) ==
  /\ r \in [id : Nat, o : Officers, kind : {r.kind}, h : {r.h}, at : {r.at}, data : {r.data},
             alone : BOOLEAN]
  /\ r.kind \in Kinds
  /\ r.kind = "arvio" => ArvioOK(r)
  /\ r.kind \in Loads => LoadOK(r)
  /\ r.kind \in Settings => SettingOK(r)

\* Requests have numbers of their own, and what is alone is spoilt by no other.
RequestSet(R) ==
  /\ IsFiniteSet(R)
  /\ \A r \in R : RequestOK(r)
  /\ \A q, r \in R : q.id = r.id => q = r
  /\ \A q, r \in R : r.alone /\ q # r => ~ Spoils(r.o, r.kind, r.h, q)

Typed ==
  /\ arvio \in [Hakemukset -> ArvioRow]
  /\ settings = [h \in Hakemukset |-> settings[h]]
  /\ \A h \in Hakemukset :
       /\ settings[h] = [s \in Settings |-> settings[h][s]]
       /\ \A s \in Settings : settings[h][s] \in IF s \in ByOfficer THEN SUBSET Officers ELSE BOOLEAN
  /\ store \in [Officers -> Store]
  /\ used \in [acts : Nat, edits : Nat, faults : Nat]
  /\ mine \in [Officers -> [Hakemukset -> ArvioRow]]
  /\ cause \in [Officers -> [Hakemukset -> SUBSET Causes]]

ChangesInv ==
  /\ changelog = [h \in Hakemukset |-> changelog[h]]
  /\ \A h \in Hakemukset : Chain(changelog[h], arvio[h]["status"])

-----------------------------------------------------------------------------
(* The requests *)

\* The same request: the same call of the same page about the same application.
Like(q, r) == q.id = r.id /\ q.o = r.o /\ q.kind = r.kind /\ q.h = r.h /\ (q.alone => r.alone)

LEMMA RequestEnds ==
  ASSUME NEW R, RequestSet(R), NEW r \in R
  PROVE  RequestSet(R \ {r})
<1>1. IsFiniteSet(R \ {r})
  BY FS_RemoveElement DEF RequestSet
<1> QED BY <1>1 DEF RequestSet

LEMMA RequestAdvances ==
  ASSUME NEW R, RequestSet(R), NEW r \in R, NEW q, RequestOK(q), Like(q, r)
  PROVE  RequestSet((R \ {r}) \cup {q})
<1> DEFINE T == (R \ {r}) \cup {q}
<1>1. IsFiniteSet(T)
  BY FS_RemoveElement, FS_AddElement DEF RequestSet
<1>2. \A s \in T : RequestOK(s)
  BY DEF RequestSet
<1>3. \A s \in R \ {r} : s.id # q.id
  BY DEF RequestSet, Like
<1>4. \A s, t \in T : s.id = t.id => s = t
  BY <1>3 DEF RequestSet
<1>5. ASSUME NEW s \in T, NEW t \in T, t.alone, s # t
      PROVE  ~ Spoils(t.o, t.kind, t.h, s)
  <2>1. CASE t = q
    <3>1. s \in R /\ s # r
      BY <2>1, <1>5
    <3>2. ~ Spoils(r.o, r.kind, r.h, s)
      BY <3>1, <2>1, <1>5 DEF RequestSet, Like
    <3> QED BY <3>2, <2>1 DEF Like
  <2>2. CASE t # q /\ s = q
    <3>1. t \in R /\ t # r
      BY <2>2
    <3>2. ~ Spoils(t.o, t.kind, t.h, r)
      BY <3>1, <1>5 DEF RequestSet
    <3> QED BY <3>2, <2>2 DEF Like, Spoils
  <2>3. CASE t # q /\ s # q
    BY <2>3, <1>5 DEF RequestSet
  <2> QED BY <2>1, <2>2, <2>3
<1> QED BY <1>1, <1>2, <1>4, <1>5 DEF RequestSet

\* What becomes of a request when another one is made.
ToldOf(r, o, kind, h) == [r EXCEPT !.alone = @ /\ ~ Spoils(o, kind, h, r)]

LEMMA ToldFacts ==
  ASSUME NEW r, RequestOK(r), NEW o, NEW kind, NEW h
  PROVE  LET t == ToldOf(r, o, kind, h) IN
         /\ RequestOK(t) /\ Like(t, r) /\ t.at = r.at /\ t.data = r.data
         /\ t.alone => ~ Spoils(o, kind, h, r)
<1> DEFINE a == r.alone /\ ~ Spoils(o, kind, h, r)
           t == ToldOf(r, o, kind, h)
<1>1. a \in BOOLEAN
  OBVIOUS
<1>2. t = [r EXCEPT !.alone = a]
  BY DEF ToldOf, RequestOK
<1> HIDE DEF a
<1>3. /\ t.id = r.id /\ t.o = r.o /\ t.kind = r.kind /\ t.h = r.h /\ t.at = r.at
      /\ t.data = r.data /\ t.alone = a
      /\ t \in [id : Nat, o : Officers, kind : {t.kind}, h : {t.h}, at : {t.at}, data : {t.data},
                alone : BOOLEAN]
  BY <1>1, <1>2 DEF RequestOK
<1> HIDE DEF t
<1>4. RequestOK(t)
  BY <1>3 DEF RequestOK, ArvioOK, LoadOK, SettingOK
<1>5. Like(t, r) /\ (t.alone => ~ Spoils(o, kind, h, r))
  BY <1>3 DEF Like, a
<1> QED BY <1>3, <1>4, <1>5 DEF t

LEMMA FreshIdIsFresh ==
  ASSUME RequestSet(requests)
  PROVE  FreshId \in Nat /\ \A r \in requests : r.id # FreshId
<1> DEFINE n == Cardinality(requests)
           ids == {r.id : r \in requests}
<1>1. n \in Nat /\ IsFiniteSet(requests)
  BY FS_CardinalityType DEF RequestSet
<1>2. IsFiniteSet(ids) /\ Cardinality(ids) <= n
  <2> DEFINE f == [r \in requests |-> r.id]
  <2>1. f \in Surjection(requests, ids)
    BY DEF Surjection
  <2> QED BY <2>1, <1>1, FS_Surjection
<1>3. IsFiniteSet(1..(n + 1)) /\ Cardinality(1..(n + 1)) = n + 1
  BY <1>1, FS_Interval
<1>4. \E m \in 1..(n + 1) : m \notin ids
  <2> SUFFICES ASSUME 1..(n + 1) \in SUBSET ids PROVE FALSE
    OBVIOUS
  <2> HIDE DEF n, ids
  <2>1. Cardinality(1..(n + 1)) <= Cardinality(ids)
    BY ONLY <1>2, 1..(n + 1) \in SUBSET ids, FS_Subset
  <2>2. Cardinality(ids) \in Nat
    BY <1>2, FS_CardinalityType
  <2> QED BY <1>1, <1>2, <1>3, <2>1, <2>2
<1>5. \E m \in 1..(n + 1) : \A r \in requests : r.id # m
  BY <1>4
<1>6. FreshId \in 1..(n + 1) /\ \A r \in requests : r.id # FreshId
  BY <1>5 DEF FreshId
<1> QED BY <1>1, <1>6

\* A new request leaves the others as they were, but for what it spoils.
LEMMA RequestIsMade ==
  ASSUME RequestSet(requests), NEW o \in Officers, NEW kind \in Kinds, NEW h, NEW data,
         kind = "arvio" => h \in Hakemukset /\ data.new \in ArvioRow,
         kind \in Loads => h \in IF kind = "select" THEN Hakemukset ELSE {NoHakemus},
         kind \in Settings => h \in Hakemukset /\ data \in CallData
  PROVE  LET R == With(o, kind, h, data)
             new == NewRequest(o, kind, h, data) IN
         /\ RequestSet(R) /\ new \in R
         /\ \A q \in R : q # new =>
              \E r \in requests : /\ Like(q, r) /\ q.at = r.at /\ q.data = r.data
                                  /\ q.alone => ~ Spoils(o, kind, h, r)
         /\ \A r \in requests : \E q \in R : q # new /\ Like(q, r) /\ q.at = r.at /\ q.data = r.data
         /\ new.o = o /\ new.kind = kind /\ new.h = h /\ new.at = "sent" /\ new.data = data
         /\ \A r \in requests : r.id # new.id
<1> DEFINE new == NewRequest(o, kind, h, data)
           old == {ToldOf(r, o, kind, h) : r \in requests}
           R == With(o, kind, h, data)
<1>1. R = old \cup {new}
  BY DEF With, ToldOf
<1>2. /\ new.id = FreshId /\ new.o = o /\ new.kind = kind /\ new.h = h /\ new.at = "sent"
      /\ new.data = data /\ new.alone \in BOOLEAN
      /\ new.alone => \A r \in requests : ~ Spoils(o, kind, h, r)
      /\ FreshId \in Nat => new \in [id : Nat, o : Officers, kind : {new.kind}, h : {new.h},
                                    at : {new.at}, data : {new.data}, alone : BOOLEAN]
  BY DEF NewRequest
<1>3. FreshId \in Nat /\ \A r \in requests : r.id # new.id
  BY <1>2, FreshIdIsFresh
<1> HIDE DEF new
<1>4. RequestOK(new)
  BY <1>2, <1>3 DEF RequestOK, ArvioOK, LoadOK, SettingOK, Kinds, Loads, Settings
<1>5. \A r \in requests :
        LET t == ToldOf(r, o, kind, h) IN
        /\ RequestOK(t) /\ Like(t, r) /\ t.at = r.at /\ t.data = r.data
        /\ t.alone => ~ Spoils(o, kind, h, r)
  BY ToldFacts DEF RequestSet
<1>6. /\ \A q \in old : RequestOK(q) /\ q.id # new.id
      /\ \A q \in old : \E r \in requests :
           /\ q = ToldOf(r, o, kind, h) /\ Like(q, r) /\ q.at = r.at /\ q.data = r.data
           /\ q.alone => ~ Spoils(o, kind, h, r)
      /\ \A r \in requests : \E q \in old : Like(q, r) /\ q.at = r.at /\ q.data = r.data
  BY <1>3, <1>5 DEF Like
<1>7. IsFiniteSet(R)
  <2>1. IsFiniteSet(old)
    <3> DEFINE f == [r \in requests |-> ToldOf(r, o, kind, h)]
    <3>1. f \in Surjection(requests, old)
      BY DEF Surjection
    <3> QED BY <3>1, FS_Surjection DEF RequestSet
  <2> QED BY <1>1, <2>1, FS_AddElement
<1> HIDE DEF old, R
<1>8. \A q, r \in R : q.id = r.id => q = r
  <2>1. ASSUME NEW q \in old, NEW r \in old, q.id = r.id PROVE q = r
    <3>1. PICK x \in requests : q = ToldOf(x, o, kind, h) /\ Like(q, x)
      BY <1>6
    <3>2. PICK y \in requests : r = ToldOf(y, o, kind, h) /\ Like(r, y)
      BY <1>6
    <3>3. x = y
      BY <3>1, <3>2, <2>1 DEF Like, RequestSet
    <3> QED BY <3>1, <3>2, <3>3
  <2> QED BY <1>1, <1>6, <2>1
<1>9. ASSUME NEW q \in R, NEW r \in R, r.alone, q # r
      PROVE  ~ Spoils(r.o, r.kind, r.h, q)
  <2>1. CASE q \in old /\ r \in old
    <3>1. PICK x \in requests : q = ToldOf(x, o, kind, h) /\ Like(q, x)
      BY <2>1, <1>6
    <3>2. PICK y \in requests : r = ToldOf(y, o, kind, h) /\ Like(r, y)
      BY <2>1, <1>6
    <3>3. x # y /\ y.alone
      BY <3>1, <3>2, <1>9 DEF Like
    <3>4. ~ Spoils(y.o, y.kind, y.h, x)
      BY <3>3 DEF RequestSet
    <3> QED BY <3>1, <3>2, <3>4 DEF Like, Spoils
  <2>2. CASE q = new /\ r \in old
    <3>1. PICK y \in requests : Like(r, y) /\ (r.alone => ~ Spoils(o, kind, h, y))
      BY <2>2, <1>6
    <3> QED BY <3>1, <2>2, <1>2, <1>9 DEF Like, Spoils
  <2>3. CASE q \in old /\ r = new
    <3>1. PICK x \in requests : Like(q, x)
      BY <2>3, <1>6
    <3>2. ~ Spoils(o, kind, h, x)
      BY <2>3, <1>2, <1>9
    <3> QED BY <3>1, <3>2, <2>3, <1>2 DEF Like, Spoils
  <2> QED BY <2>1, <2>2, <2>3, <1>1, <1>9
<1>10. RequestSet(R) /\ new \in R
  BY <1>1, <1>4, <1>6, <1>7, <1>8, <1>9 DEF RequestSet
<1>11. \A q \in R : q # new => q \in old
  BY <1>1
<1>12. \A q \in old : q \in R /\ q # new
  BY <1>1, <1>6
<1>13. \A q \in R : q # new =>
         \E r \in requests : /\ Like(q, r) /\ q.at = r.at /\ q.data = r.data
                             /\ q.alone => ~ Spoils(o, kind, h, r)
  BY <1>6, <1>11
<1>14. \A r \in requests : \E q \in R : q # new /\ Like(q, r) /\ q.at = r.at /\ q.data = r.data
  BY <1>6, <1>12
<1> QED BY <1>2, <1>3, <1>10, <1>13, <1>14 DEF new, R

-----------------------------------------------------------------------------
(* Causes *)

CauseType == [Officers -> [Hakemukset -> SUBSET Causes]]

\* Nothing that was noted as a cause is taken back.
Grows(c) == c \in CauseType /\ \A o \in Officers, h \in Hakemukset : cause[o][h] \subseteq c[o][h]

LEMMA BlameFacts ==
  ASSUME Typed, NEW o \in Officers, NEW H, NEW what \in Causes
  PROVE  /\ Grows(Blame(o, H, what))
         /\ \A h \in H \cap Hakemukset : what \in Blame(o, H, what)[o][h]
<1> DEFINE row == [h \in Hakemukset |-> IF h \in H THEN cause[o][h] \cup {what} ELSE cause[o][h]]
<1>1. Blame(o, H, what) = [cause EXCEPT ![o] = row]
  BY DEF Blame, Typed
<1>2. row \in [Hakemukset -> SUBSET Causes]
  BY DEF Typed
<1>3. \A h \in Hakemukset : cause[o][h] \subseteq row[h] /\ (h \in H => what \in row[h])
  OBVIOUS
<1> HIDE DEF row
<1>4. [cause EXCEPT ![o] = row] \in CauseType
  BY <1>2 DEF CauseType, Typed
<1>5. \A q \in Officers, h \in Hakemukset : cause[q][h] \subseteq [cause EXCEPT ![o] = row][q][h]
  BY <1>3 DEF Typed
<1>6. [cause EXCEPT ![o] = row][o] = row
  BY DEF Typed
<1> QED BY <1>1, <1>3, <1>4, <1>5, <1>6 DEF Grows

\* When the indicator's error is replaced, what is not stored has a cause.
LEMMA ReplacedFacts ==
  ASSUME Typed, NEW o \in Officers
  PROVE  /\ Grows(Replaced(o))
         /\ store[o].saveStatus = "error" =>
              \A h \in Hakemukset : Lacks(o, h, arvio[h]) => Replaced(o)[o][h] # {}
<1>1. Grows(cause)
  BY DEF Grows, Typed, CauseType
<1>2. CASE store[o].saveStatus = "error"
  <2>1. Replaced(o) = Blame(o, Missing(o, arvio), "error_replaced")
    BY <1>2 DEF Replaced
  <2>2. "error_replaced" \in Causes
    BY DEF Causes
  <2>3. \A h \in Hakemukset : Lacks(o, h, arvio[h]) => h \in Missing(o, arvio) \cap Hakemukset
    BY DEF Missing
  <2> QED BY <2>1, <2>2, <2>3, BlameFacts
<1>3. CASE store[o].saveStatus # "error"
  BY <1>1, <1>3 DEF Replaced
<1> QED BY <1>2, <1>3

-----------------------------------------------------------------------------
(* The page *)

\* Of this page nothing changes but what an application shows.
OnlyShown(o) ==
  /\ \A q \in Officers \ {o} : store'[q] = store[q]
  /\ store'[o].data = store[o].data

SameShown(o, H) == \A h \in H : store'[o].hakemukset[h] = store[o].hakemukset[h]

\* Applications may be named, or none.
Named == Hakemukset \cup {NoHakemus}

LEMMA PageTyped ==
  ASSUME Typed, NEW o \in Officers
  PROVE  /\ store[o] \in Store /\ store[o].data \in {"loaded", "loading", "other"}
         /\ store[o].hakemukset \in [Hakemukset -> Shown]
         /\ {store[o].selected, store[o].loadingHakemusId, store[o].timer} \subseteq Named
         /\ store[o].saveStatus \in {"", "saving", "saved", "error"}
<1>1. store[o] \in Store
  BY DEF Typed
<1>2. \A s \in Store :
        /\ s.data \in {"loaded", "loading", "other"}
        /\ s.hakemukset \in [Hakemukset -> Shown]
        /\ s.selected \in Named /\ s.loadingHakemusId \in Named /\ s.timer \in Named
        /\ s.saveStatus \in {"", "saving", "saved", "error"}
  BY DEF Store, Named
<1> QED BY <1>1, <1>2

\* What is changed twice is changed once.
LEMMA Twice ==
  ASSUME NEW D, NEW f, f = [d \in D |-> f[d]], NEW o \in D, NEW a, NEW b
  PROVE  /\ [[f EXCEPT ![o] = a] EXCEPT ![o] = b] = [f EXCEPT ![o] = b]
         /\ [f EXCEPT ![o] = a] = [d \in D |-> [f EXCEPT ![o] = a][d]]
         /\ [f EXCEPT ![o] = a][o] = a
OBVIOUS

\* What an edit does to an application, to its page, and to the pages.
EditedShown(x, k, n) == [x EXCEPT !.arvio[k] = n, !.hasChanges = TRUE]
EditedPage(s, h, k, n) ==
  [s EXCEPT !.hakemukset[h].arvio[k] = n, !.hakemukset[h].hasChanges = TRUE,
            !.timer = h, !.saveStatus = "saving"]
EditedStore(o, h, k, n) ==
  [store EXCEPT ![o].hakemukset[h].arvio[k] = n, ![o].hakemukset[h].hasChanges = TRUE,
                ![o].timer = h, ![o].saveStatus = "saving"]

LEMMA EditOfPage ==
  ASSUME Typed, NEW o \in Officers, NEW h \in Hakemukset, NEW k \in Keys, NEW n
  PROVE  EditedStore(o, h, k, n) = [store EXCEPT ![o] = EditedPage(store[o], h, k, n)]
<1> DEFINE a == [store[o] EXCEPT !.hakemukset[h].arvio[k] = n]
           b == [a EXCEPT !.hakemukset[h].hasChanges = TRUE]
           c == [b EXCEPT !.timer = h]
           d == [c EXCEPT !.saveStatus = "saving"]
           f == [store EXCEPT ![o].hakemukset[h].arvio[k] = n]
           g == [f EXCEPT ![o].hakemukset[h].hasChanges = TRUE]
           i == [g EXCEPT ![o].timer = h]
           j == [i EXCEPT ![o].saveStatus = "saving"]
<1>0. store = [q \in Officers |-> store[q]]
  BY DEF Typed
<1>1. f = [store EXCEPT ![o] = a]
  OBVIOUS
<1>2. f[o] = a /\ f = [q \in Officers |-> f[q]]
  BY <1>0, <1>1, Twice
<1> HIDE DEF f, a
<1>3. g = [f EXCEPT ![o] = b]
  BY <1>2
<1>4. g[o] = b /\ g = [q \in Officers |-> g[q]] /\ g = [store EXCEPT ![o] = b]
  BY <1>0, <1>1, <1>2, <1>3, Twice
<1> HIDE DEF g, b
<1>5. i = [g EXCEPT ![o] = c]
  BY <1>4
<1>6. i[o] = c /\ i = [q \in Officers |-> i[q]] /\ i = [store EXCEPT ![o] = c]
  BY <1>0, <1>4, <1>5, Twice
<1> HIDE DEF i, c
<1>7. j = [i EXCEPT ![o] = d]
  BY <1>6
<1>8. j = [store EXCEPT ![o] = d]
  BY <1>0, <1>6, <1>7, Twice
<1> QED BY <1>8 DEF i, g, f, a, b, c, EditedStore, EditedPage

LEMMA ShownEdited ==
  ASSUME NEW x \in Shown, NEW k \in Keys, NEW n \in Nat
  PROVE  LET z == EditedShown(x, k, n) IN
         z \in Shown /\ z.arvio = [x.arvio EXCEPT ![k] = n] /\ z.settings = x.settings
BY DEF Shown, EditedShown

LEMMA PageEdited ==
  ASSUME NEW s \in Store, NEW h \in Hakemukset, NEW k \in Keys, NEW n \in Nat, NEW z \in Shown,
         z = EditedShown(s.hakemukset[h], k, n)
  PROVE  LET u == EditedPage(s, h, k, n) IN
         /\ u \in Store /\ u.data = s.data /\ u.timer = h /\ u.saveStatus = "saving"
         /\ u.hakemukset[h] = z
         /\ \A g \in Hakemukset \ {h} : u.hakemukset[g] = s.hakemukset[g]
<1>1. EditedPage(s, h, k, n) = [s EXCEPT !.hakemukset[h] = z, !.timer = h, !.saveStatus = "saving"]
  BY DEF Store, Shown, EditedPage, EditedShown
<1>2. LET u == [s EXCEPT !.hakemukset[h] = z, !.timer = h, !.saveStatus = "saving"] IN
      /\ u \in Store /\ u.data = s.data /\ u.timer = h /\ u.saveStatus = "saving"
      /\ u.hakemukset = [s.hakemukset EXCEPT ![h] = z]
  BY DEF Store
<1>3. s.hakemukset \in [Hakemukset -> Shown]
  BY DEF Store
<1> QED BY <1>1, <1>2, <1>3

LEMMA EditFacts ==
  ASSUME Typed, NEW o \in Officers, NEW h \in Hakemukset, NEW k \in Keys, EditArvio(o, h, k)
  PROVE  /\ store' \in [Officers -> Store] /\ OnlyShown(o) /\ SameShown(o, Hakemukset \ {h})
         /\ store'[o].hakemukset[h].arvio = [store[o].hakemukset[h].arvio EXCEPT ![k] = used.edits + 1]
         /\ store'[o].hakemukset[h].settings = store[o].hakemukset[h].settings
         /\ store'[o].timer = h /\ store'[o].saveStatus = "saving"
<1> DEFINE n == used.edits + 1
           s == store[o]
           z == EditedShown(s.hakemukset[h], k, n)
           u == EditedPage(s, h, k, n)
<1>0. n \in Nat
  BY DEF Typed
<1>1. s \in Store /\ s.hakemukset[h] \in Shown
  BY PageTyped
<1>2. store' = EditedStore(o, h, k, n)
  BY DEF EditArvio, EditedStore
<1>3. store' = [store EXCEPT ![o] = u]
  BY <1>2, EditOfPage
<1> HIDE DEF n
<1>4. /\ z \in Shown /\ z.arvio = [s.hakemukset[h].arvio EXCEPT ![k] = n]
      /\ z.settings = s.hakemukset[h].settings
  BY <1>0, <1>1, ShownEdited
<1>5. /\ u \in Store /\ u.data = s.data /\ u.timer = h /\ u.saveStatus = "saving"
      /\ u.hakemukset[h] = z
      /\ \A g \in Hakemukset \ {h} : u.hakemukset[g] = s.hakemukset[g]
  BY <1>0, <1>1, <1>4, PageEdited
<1> HIDE DEF u, z
<1>6. store' \in [Officers -> Store] /\ store'[o] = u /\ \A q \in Officers \ {o} : store'[q] = store[q]
  BY <1>3, <1>5 DEF Typed
<1> QED BY <1>4, <1>5, <1>6 DEF OnlyShown, SameShown, n

-----------------------------------------------------------------------------
(* The invariant *)

Left(o) == \A h \in Hakemukset : "left" \in cause[o][h]
Same(q, r) == q.o = r.o /\ q.h = r.h /\ q.kind = r.kind
AtServer(q) == q.kind = "arvio" /\ q.at \in {"sent", "existing"}

\* Who has left a grant is known to have; and as long as no cause is known, what an officer gave
\* last is on the page and in every save under way.
NothingElseIsLost ==
  /\ \A o \in Officers : store[o].data # "loaded" => Left(o)
  /\ \A r \in requests : r.kind = "info" => Left(r.o)
  /\ \A o \in Officers, h \in Hakemukset :
       cause[o][h] = {} => ~ Lacks(o, h, store[o].hakemukset[h].arvio)
  /\ \A r \in requests :
       r.kind = "arvio" /\ cause[r.o][r.h] = {} => ~ Lacks(r.o, r.h, r.data.new)

\* What is not stored yet is delayed, on its way, or told to have failed.
Awaited(o, h) ==
  \/ store[o].timer = h \/ store[o].saveStatus = "error"
  \/ \E r \in requests : r.o = o /\ r.h = h /\ AtServer(r)

UnsavedIsAwaited ==
  \A o \in Officers, h \in Hakemukset :
    cause[o][h] = {} /\ Lacks(o, h, arvio[h]) => Awaited(o, h)

\* What the server holds of a setting, as an officer is shown it.
Held(o, h, s) == View(o, settings[h])[s]

\* A call that met no other: what the page shows meanwhile, and what it will be told.
CallOK(r) ==
  r.kind \in Settings /\ r.alone =>
    /\ r.data.arg = ~ r.data.was
    /\ Sees(r.o, r.h)[r.kind] = IF r.kind = "keskeytettyAloittamatta" THEN r.data.arg ELSE r.data.was
    /\ r.at \in {"written", "answered"} => Held(r.o, r.h, r.kind) = r.data.arg
    /\ r.at = "answered" => r.data.result = r.data.arg

CallsInv == \A r \in requests : CallOK(r)

ArviointiInv ==
  /\ Typed /\ RequestSet(requests) /\ ChangesInv
  /\ NothingElseIsLost /\ UnsavedIsAwaited /\ SavingHasAReason
  /\ CallsInv

EndsAsShown ==
  \A r \in requests :
    r.kind \in Settings /\ r.alone /\ Loaded(r.o) /\ ~(\E q \in requests' : q.id = r.id)
    => LET held == store'[r.o].hakemukset[r.h].settings[r.kind]
       IN held = IF used'.faults > used.faults THEN r.data.was
                  ELSE View(r.o, settings[r.h])[r.kind]

-----------------------------------------------------------------------------
(* What a step may do *)

\* Applications show the same evaluations, but for those reloaded with a known cause or with
\* all that was given.
KeepsShown ==
  \A o \in Officers, h \in Hakemukset :
    \/ store'[o].hakemukset[h].arvio = store[o].hakemukset[h].arvio
    \/ cause'[o][h] = {} => ~ Lacks(o, h, store'[o].hakemukset[h].arvio)

KeepsSaves ==
  \A q \in requests' :
    /\ q.kind = "arvio" =>
         \/ \E r \in requests : Same(q, r) /\ q.data.new = r.data.new
         \/ cause'[q.o][q.h] = {} => ~ Lacks(q.o, q.h, q.data.new)
    /\ q.kind = "info" => (\E r \in requests : Same(q, r)) \/ Left(q.o)'

KeepsGrant ==
  \A o \in Officers : store'[o].data # "loaded" =>
    store[o].data # "loaded" \/ Left(o)' \/ \E r \in requests : r.kind = "info" /\ r.o = o

LEMMA NothingElseStep ==
  ASSUME Typed, RequestSet(requests), RequestSet(requests)', NothingElseIsLost, mine' = mine,
         Grows(cause'), KeepsShown, KeepsSaves, KeepsGrant
  PROVE  NothingElseIsLost'
<1>1. \A o \in Officers, h \in Hakemukset :
        /\ cause'[o][h] = {} => cause[o][h] = {}
        /\ "left" \in cause[o][h] => "left" \in cause'[o][h]
  BY DEF Grows
<1>2. \A o \in Officers : Left(o) => Left(o)'
  BY <1>1 DEF Left
<1>3. \A o, h, row : Lacks(o, h, row)' = Lacks(o, h, row)
  BY DEF Lacks
<1>4. \A r \in requests : r.o \in Officers /\ (r.kind = "arvio" => r.h \in Hakemukset)
  BY DEF RequestSet, RequestOK, ArvioOK
<1>5. \A r \in requests' : r.o \in Officers /\ (r.kind = "arvio" => r.h \in Hakemukset)
  BY DEF RequestSet, RequestOK, ArvioOK
<1>6. ASSUME NEW o \in Officers, store'[o].data # "loaded" PROVE Left(o)'
  BY <1>2, <1>6 DEF KeepsGrant, NothingElseIsLost
<1>7. ASSUME NEW r \in requests', r.kind = "info" PROVE Left(r.o)'
  BY <1>2, <1>4, <1>7 DEF KeepsSaves, NothingElseIsLost, Same
<1>8. ASSUME NEW o \in Officers, NEW h \in Hakemukset, cause'[o][h] = {}
      PROVE  ~ Lacks(o, h, store'[o].hakemukset[h].arvio)
  BY <1>1, <1>8 DEF KeepsShown, NothingElseIsLost
<1>9. ASSUME NEW q \in requests', q.kind = "arvio", cause'[q.o][q.h] = {}
      PROVE  ~ Lacks(q.o, q.h, q.data.new)
  BY <1>1, <1>5, <1>9 DEF KeepsSaves, NothingElseIsLost, Same
<1>10. \A o \in Officers, h \in Hakemukset :
         cause'[o][h] = {} => ~ Lacks(o, h, store[o].hakemukset[h].arvio)'
  BY <1>8 DEF Lacks
<1>11. \A r \in requests' :
         r.kind = "arvio" /\ cause'[r.o][r.h] = {} => ~ (Lacks(r.o, r.h, r.data.new))'
  BY <1>9 DEF Lacks
<1> QED BY <1>6, <1>7, <1>10, <1>11 DEF NothingElseIsLost

KeepsWaiting ==
  /\ \A r \in requests : AtServer(r) =>
       (\E q \in requests' : Same(q, r) /\ AtServer(q)) \/ store'[r.o].saveStatus = "error"
  /\ \A o \in Officers, h \in Hakemukset :
       /\ cause'[o][h] = {} /\ Lacks(o, h, arvio[h])
       /\ store[o].timer = h \/ store[o].saveStatus = "error"
       => Awaited(o, h)'

LEMMA AwaitedStep ==
  ASSUME UnsavedIsAwaited, UNCHANGED <<arvio, mine>>, Grows(cause'), KeepsWaiting
  PROVE  UnsavedIsAwaited'
<1> SUFFICES ASSUME NEW o \in Officers, NEW h \in Hakemukset, cause'[o][h] = {},
                    Lacks(o, h, arvio[h])'
             PROVE  Awaited(o, h)'
  BY DEF UnsavedIsAwaited
<1>1. cause[o][h] = {} /\ Lacks(o, h, arvio[h])
  BY DEF Grows, Lacks
<1>2. Awaited(o, h)
  BY <1>1 DEF UnsavedIsAwaited
<1>3. CASE store[o].timer = h \/ store[o].saveStatus = "error"
  BY <1>1, <1>3 DEF KeepsWaiting
<1>4. CASE \E r \in requests : r.o = o /\ r.h = h /\ AtServer(r)
  BY <1>4 DEF KeepsWaiting, Awaited, Same
<1> QED BY <1>2, <1>3, <1>4 DEF Awaited

KeepsBusy ==
  \A o \in Officers : store'[o].saveStatus = "saving" =>
    \/ /\ store[o].saveStatus = "saving" /\ store'[o].timer = store[o].timer
       /\ \A r \in requests : r.o = o /\ r.kind \in Reported =>
            \E q \in requests' : Same(q, r)
    \/ store'[o].timer # NoHakemus
    \/ \E q \in requests' : q.o = o /\ q.kind \in Reported
    \/ \E h \in Hakemukset : "left" \in cause'[o][h]

LEMMA SavingStep ==
  ASSUME SavingHasAReason, Grows(cause'), KeepsBusy
  PROVE  SavingHasAReason'
<1> SUFFICES ASSUME NEW o \in Officers, store'[o].saveStatus = "saving"
             PROVE  \/ store'[o].timer # NoHakemus
                    \/ \E r \in requests' : r.o = o /\ r.kind \in Reported
                    \/ \E h \in Hakemukset : "left" \in cause'[o][h]
  BY DEF SavingHasAReason
<1>1. \A h \in Hakemukset : "left" \in cause[o][h] => "left" \in cause'[o][h]
  BY DEF Grows
<1>2. CASE /\ store[o].saveStatus = "saving" /\ store'[o].timer = store[o].timer
           /\ \A r \in requests : r.o = o /\ r.kind \in Reported => \E q \in requests' : Same(q, r)
  BY <1>1, <1>2 DEF SavingHasAReason, Same
<1> QED BY <1>2 DEF KeepsBusy

KeepsCalls ==
  \A q \in requests' : q.kind \in Settings /\ q.alone =>
    \/ CallOK(q)'
    \/ \E r \in requests :
         /\ Like(q, r) /\ q.at = r.at /\ q.data = r.data
         /\ store'[q.o].hakemukset[q.h].settings[q.kind] = Sees(q.o, q.h)[q.kind]
         /\ Held(q.o, q.h, q.kind)' = Held(q.o, q.h, q.kind)

LEMMA CallsStep ==
  ASSUME CallsInv, KeepsCalls
  PROVE  CallsInv'
<1> SUFFICES ASSUME NEW q \in requests', q.kind \in Settings, q.alone PROVE CallOK(q)'
  BY DEF CallsInv, CallOK
<1> SUFFICES ASSUME ~ CallOK(q)' PROVE FALSE
  OBVIOUS
<1>1. PICK r \in requests :
         /\ Like(q, r) /\ q.at = r.at /\ q.data = r.data
         /\ store'[q.o].hakemukset[q.h].settings[q.kind] = Sees(q.o, q.h)[q.kind]
         /\ Held(q.o, q.h, q.kind)' = Held(q.o, q.h, q.kind)
  BY DEF KeepsCalls
<1>2. CallOK(r) /\ r.kind \in Settings /\ r.alone
  BY <1>1 DEF CallsInv, Like
<1>3. Sees(q.o, q.h)'[q.kind] = Sees(q.o, q.h)[q.kind]
  BY <1>1 DEF Sees
<1>4. q.o = r.o /\ q.h = r.h /\ q.kind = r.kind /\ q.at = r.at /\ q.data = r.data
  BY <1>1 DEF Like
<1>5. CallOK(q)
  BY <1>2, <1>4 DEF CallOK
<1> QED BY <1>1, <1>3, <1>5 DEF CallOK

\* No call ends.
CallsGoOn == \A r \in requests : r.kind \in Settings => \E q \in requests' : q.id = r.id

\* A step that leaves what pages show and the server holds.
SameSettings ==
  \A o \in Officers, h \in Hakemukset :
    /\ store'[o].hakemukset[h].arvio = store[o].hakemukset[h].arvio
    /\ store'[o].hakemukset[h].settings = store[o].hakemukset[h].settings

SameCalls ==
  \A q \in requests' : q.kind \in Settings =>
    \E r \in requests : Like(q, r) /\ q.at = r.at /\ q.data = r.data

LEMMA QuietStep ==
  ASSUME ArviointiInv, Typed', RequestSet(requests)', UNCHANGED <<server, mine>>, Grows(cause'),
         SameSettings, SameCalls, CallsGoOn, KeepsSaves, KeepsGrant, KeepsWaiting, KeepsBusy
  PROVE  ArviointiInv' /\ EndsAsShown
<1>1. NothingElseIsLost'
  BY NothingElseStep DEF ArviointiInv, SameSettings, KeepsShown
<1>2. UnsavedIsAwaited'
  BY AwaitedStep DEF ArviointiInv, server
<1>3. SavingHasAReason'
  BY SavingStep DEF ArviointiInv
<1>4. KeepsCalls
  <2>1. \A q \in requests' : q.kind \in Settings => q.o \in Officers /\ q.h \in Hakemukset
    BY DEF RequestSet, RequestOK, SettingOK
  <2>2. \A o, h, s : Held(o, h, s)' = Held(o, h, s)
    BY DEF Held, View, server
  <2> QED BY <2>1, <2>2 DEF KeepsCalls, SameCalls, SameSettings, Sees
<1>5. CallsInv'
  BY <1>4, CallsStep DEF ArviointiInv
<1>6. ChangesInv'
  BY DEF ArviointiInv, ChangesInv, server
<1>7. EndsAsShown
  BY DEF EndsAsShown, CallsGoOn
<1> QED BY <1>1, <1>2, <1>3, <1>5, <1>6, <1>7 DEF ArviointiInv

-----------------------------------------------------------------------------
(* What becomes of the requests *)

RequestsStay == \A r \in requests : \E q \in requests' : Same(q, r) /\ (AtServer(r) => AtServer(q))

LEMMA Made ==
  ASSUME RequestSet(requests), NEW o \in Officers, NEW kind \in Kinds \ Settings, NEW h, NEW data,
         kind = "arvio" => h \in Hakemukset /\ data.new \in ArvioRow,
         kind \in Loads => h \in IF kind = "select" THEN Hakemukset ELSE {NoHakemus},
         requests' = With(o, kind, h, data),
         kind = "arvio" => (cause'[o][h] = {} => ~ Lacks(o, h, data.new)),
         kind = "info" => Left(o)'
  PROVE  /\ RequestSet(requests)' /\ SameCalls /\ CallsGoOn /\ KeepsSaves /\ RequestsStay
         /\ \E q \in requests' : q.o = o /\ q.kind = kind /\ q.h = h /\ q.at = "sent"
<1> DEFINE new == NewRequest(o, kind, h, data)
<1>0. kind \in Kinds /\ kind \notin Settings
  OBVIOUS
<1>1. /\ RequestSet(requests') /\ new \in requests'
      /\ \A q \in requests' : q # new =>
           \E r \in requests : Like(q, r) /\ q.at = r.at /\ q.data = r.data
      /\ \A r \in requests : \E q \in requests' : q # new /\ Like(q, r) /\ q.at = r.at /\ q.data = r.data
      /\ new.o = o /\ new.kind = kind /\ new.h = h /\ new.at = "sent" /\ new.data = data
  BY <1>0, RequestIsMade
<1> HIDE DEF new
<1>2. RequestSet(requests)'
  BY <1>1 DEF RequestSet
<1>3. SameCalls
  BY <1>0, <1>1 DEF SameCalls
<1>4. CallsGoOn /\ RequestsStay
  BY <1>1 DEF CallsGoOn, RequestsStay, Like, Same, AtServer
<1>5. KeepsSaves
  BY <1>1 DEF KeepsSaves, Like, Same
<1> QED BY <1>1, <1>2, <1>3, <1>4, <1>5

LEMMA Ended ==
  ASSUME RequestSet(requests), NEW r \in requests, r.kind \notin Settings, requests' = requests \ {r}
  PROVE  /\ RequestSet(requests)' /\ SameCalls /\ CallsGoOn /\ KeepsSaves
         /\ \A p \in requests : p # r => p \in requests'
<1>1. RequestSet(requests \ {r})
  BY RequestEnds
<1>2. RequestSet(requests)'
  BY <1>1 DEF RequestSet
<1> QED BY <1>2 DEF SameCalls, CallsGoOn, KeepsSaves, Like, Same

LEMMA Advanced ==
  ASSUME RequestSet(requests), NEW r \in requests, NEW q, RequestOK(q), Like(q, r),
         r.kind \notin Settings, r.kind = "arvio" => q.data.new = r.data.new,
         requests' = (requests \ {r}) \cup {q}
  PROVE  /\ RequestSet(requests)' /\ SameCalls /\ CallsGoOn /\ KeepsSaves
         /\ (AtServer(r) => AtServer(q)) => RequestsStay
         /\ \A p \in requests : \E s \in requests' : Same(s, p)
<1>1. RequestSet((requests \ {r}) \cup {q})
  BY RequestAdvances
<1>2. RequestSet(requests)'
  BY <1>1 DEF RequestSet
<1>3. SameCalls /\ CallsGoOn
  BY DEF SameCalls, CallsGoOn, Like
<1>4. KeepsSaves
  BY DEF KeepsSaves, Like, Same
<1>5. (AtServer(r) => AtServer(q)) => RequestsStay
  BY DEF RequestsStay, Like, Same
<1>6. \A p \in requests : \E s \in requests' : Same(s, p)
  BY DEF Like, Same
<1> QED BY <1>2, <1>3, <1>4, <1>5, <1>6

\* A request at its next step.
LEMMA Moved ==
  ASSUME NEW r, RequestOK(r), NEW at, NEW data
  PROVE  LET q == [r EXCEPT !.at = at, !.data = data] IN
         /\ Like(q, r) /\ q.at = at /\ q.data = data /\ q.alone = r.alone
         /\ q \in [id : Nat, o : Officers, kind : {q.kind}, h : {q.h}, at : {q.at}, data : {q.data},
                   alone : BOOLEAN]
<1> DEFINE q == [r EXCEPT !.at = at, !.data = data]
<1>1. /\ q.id = r.id /\ q.o = r.o /\ q.kind = r.kind /\ q.h = r.h /\ q.at = at /\ q.data = data
      /\ q.alone = r.alone
      /\ q \in [id : Nat, o : Officers, kind : {r.kind}, h : {r.h}, at : {at}, data : {data},
                alone : BOOLEAN]
  BY DEF RequestOK
<1> HIDE DEF q
<1> QED BY <1>1 DEF q, Like

-----------------------------------------------------------------------------
(* Steps that leave what pages show and the server holds *)

LEMMA SamePages ==
  ASSUME ArviointiInv, UNCHANGED <<server, store, mine, cause>>,
         used' \in [acts : Nat, edits : Nat, faults : Nat]
  PROVE  /\ Typed' /\ Grows(cause') /\ SameSettings /\ KeepsGrant
         /\ RequestsStay => KeepsWaiting /\ KeepsBusy
<1>1. Typed'
  BY DEF ArviointiInv, Typed, server
<1>2. Grows(cause')
  BY DEF ArviointiInv, Typed, Grows, CauseType
<1>3. RequestsStay => KeepsWaiting
  BY DEF RequestsStay, KeepsWaiting, Awaited
<1>4. RequestsStay => KeepsBusy
  BY DEF RequestsStay, KeepsBusy, Same
<1> QED BY <1>1, <1>2, <1>3, <1>4 DEF SameSettings, KeepsGrant

\* What only the indicator and the delay of a page show.
OnlyIndicator(o) ==
  /\ \A q \in Officers \ {o} : store'[q] = store[q]
  /\ store'[o].data = store[o].data
  /\ \A h \in Hakemukset :
       /\ store'[o].hakemukset[h].arvio = store[o].hakemukset[h].arvio
       /\ store'[o].hakemukset[h].settings = store[o].hakemukset[h].settings

LEMMA IndicatorSame ==
  ASSUME NEW o \in Officers, OnlyIndicator(o)
  PROVE  SameSettings /\ KeepsGrant
BY DEF OnlyIndicator, SameSettings, KeepsGrant

\* What nothing says of the others' pages.
LEMMA WaitingElsewhere ==
  ASSUME NEW o \in Officers, OnlyIndicator(o), Grows(cause'), UNCHANGED <<arvio, mine>>,
         \A r \in requests : AtServer(r) =>
           (\E q \in requests' : Same(q, r) /\ AtServer(q)) \/ store'[r.o].saveStatus = "error",
         \A h \in Hakemukset :
           /\ cause'[o][h] = {} /\ Lacks(o, h, arvio[h])
           /\ store[o].timer = h \/ store[o].saveStatus = "error"
           => Awaited(o, h)'
  PROVE  KeepsWaiting
<1>1. \A q \in Officers \ {o} : store'[q] = store[q]
  BY DEF OnlyIndicator
<1> QED BY <1>1 DEF KeepsWaiting, Awaited

LEMMA BusyElsewhere ==
  ASSUME NEW o \in Officers, OnlyIndicator(o),
         \A r \in requests : r.o # o /\ r.kind \in Reported => \E q \in requests' : Same(q, r),
         store'[o].saveStatus = "saving" =>
           \/ /\ store[o].saveStatus = "saving" /\ store'[o].timer = store[o].timer
              /\ \A r \in requests : r.o = o /\ r.kind \in Reported => \E q \in requests' : Same(q, r)
           \/ store'[o].timer # NoHakemus
           \/ \E q \in requests' : q.o = o /\ q.kind \in Reported
           \/ \E h \in Hakemukset : "left" \in cause'[o][h]
  PROVE  KeepsBusy
<1>1. \A q \in Officers \ {o} : store'[q] = store[q]
  BY DEF OnlyIndicator
<1> QED BY <1>1 DEF KeepsBusy

KindFacts ==
  /\ "arvio" \in Kinds \ Settings /\ "arvio" \notin Loads /\ "arvio" \in Reported
  /\ Loads \subseteq Kinds \ Settings /\ Loads \cap Reported = {}
  /\ Settings \subseteq Kinds /\ Settings \subseteq Reported
LEMMA TheKinds == KindFacts
BY DEF KindFacts, Kinds, Settings, Loads, Reported

LEMMA ReadExistingStep ==
  ASSUME ArviointiInv, NEW r \in requests, ReadExisting(r)
  PROVE  ArviointiInv' /\ EndsAsShown
<1> DEFINE data == [new |-> r.data.new, old |-> arvio[r.h]["status"], log |-> changelog[r.h]]
           q == [r EXCEPT !.at = "existing", !.data = data]
<1>1. /\ r.kind = "arvio" /\ r.at = "sent" /\ requests' = (requests \ {r}) \cup {q}
      /\ UNCHANGED <<server, store, mine, cause, used>>
  BY DEF ReadExisting
<1>2. RequestOK(r) /\ ArvioOK(r) /\ r.kind \notin Settings /\ RequestSet(requests)
  BY <1>1, TheKinds DEF ArviointiInv, RequestSet, RequestOK, KindFacts
<1>3. /\ Like(q, r) /\ q.at = "existing" /\ q.data = data
      /\ q \in [id : Nat, o : Officers, kind : {q.kind}, h : {q.h}, at : {q.at}, data : {q.data},
                alone : BOOLEAN]
  BY <1>2, Moved
<1>4. /\ data.new = r.data.new /\ data.old = arvio[r.h]["status"] /\ data.log = changelog[r.h]
  OBVIOUS
<1> HIDE DEF q, data
<1>5. ArvioOK(q)
  BY <1>2, <1>3, <1>4 DEF ArvioOK, Like, ArviointiInv, ChangesInv
<1>6. RequestOK(q) /\ q.data.new = r.data.new /\ AtServer(q)
  BY <1>1, <1>3, <1>4, <1>5, TheKinds DEF RequestOK, Like, KindFacts, AtServer
<1>7. RequestSet(requests)' /\ SameCalls /\ CallsGoOn /\ KeepsSaves /\ RequestsStay
  BY <1>1, <1>2, <1>3, <1>6, Advanced
<1>8. Typed' /\ Grows(cause') /\ SameSettings /\ KeepsGrant /\ KeepsWaiting /\ KeepsBusy
  BY <1>1, <1>7, SamePages DEF ArviointiInv, Typed
<1> QED BY <1>1, <1>7, <1>8, QuietStep

LEMMA ReadHakuDataStep ==
  ASSUME ArviointiInv, NEW r \in requests, ReadHakuData(r)
  PROVE  ArviointiInv' /\ EndsAsShown
<1> DEFINE haku == [h \in Hakemukset |-> Plain(r.o, arvio[h], settings[h])]
           data == [haku |-> haku]
           q == [r EXCEPT !.at = "answered", !.data = data]
<1>1. /\ r.kind \in Loads /\ r.at = "sent" /\ requests' = (requests \ {r}) \cup {q}
      /\ UNCHANGED <<server, store, mine, cause, used>>
  BY DEF ReadHakuData
<1>2. /\ RequestOK(r) /\ LoadOK(r) /\ r.kind \notin Settings /\ r.kind # "arvio"
      /\ RequestSet(requests) /\ Typed
  BY <1>1, TheKinds DEF ArviointiInv, RequestSet, RequestOK, KindFacts
<1>3. haku \in [Hakemukset -> Shown]
  <2> SUFFICES ASSUME NEW h \in Hakemukset PROVE Plain(r.o, arvio[h], settings[h]) \in Shown
    OBVIOUS
  <2>1. arvio[h] \in [Keys -> Nat]
    BY <1>2 DEF Typed, ArvioRow
  <2>2. View(r.o, settings[h]) \in [Settings -> BOOLEAN]
    <3>1. \A s \in Settings : s \notin ByOfficer => settings[h][s] \in BOOLEAN
      BY <1>2 DEF Typed
    <3>2. \A s \in Settings :
            (IF s \in ByOfficer THEN r.o \in settings[h][s] ELSE settings[h][s]) \in BOOLEAN
      <4> TAKE s \in Settings
      <4>1. CASE s \in ByOfficer
        <5>1. (r.o \in settings[h][s]) \in BOOLEAN
          OBVIOUS
        <5> QED BY <5>1, <4>1
      <4>2. CASE s \notin ByOfficer
        BY <3>1, <4>2
      <4> QED BY <4>1, <4>2
    <3> QED BY <3>2 DEF View
  <2> QED BY <2>1, <2>2 DEF Plain, Shown
<1>4. /\ Like(q, r) /\ q.at = "answered" /\ q.data = data
      /\ q \in [id : Nat, o : Officers, kind : {q.kind}, h : {q.h}, at : {q.at}, data : {q.data},
                alone : BOOLEAN]
  BY <1>2, Moved
<1> HIDE DEF haku
<1>5. HakuData(data)
  BY <1>3 DEF HakuData
<1> HIDE DEF q, data
<1>6. LoadOK(q)
  BY <1>2, <1>4, <1>5 DEF LoadOK, Like
<1>7. RequestOK(q)
  BY <1>1, <1>2, <1>4, <1>6, TheKinds DEF RequestOK, Like, KindFacts
<1>8. RequestSet(requests)' /\ SameCalls /\ CallsGoOn /\ KeepsSaves /\ RequestsStay
  BY <1>1, <1>2, <1>4, <1>7, Advanced DEF AtServer
<1>9. Typed' /\ Grows(cause') /\ SameSettings /\ KeepsGrant /\ KeepsWaiting /\ KeepsBusy
  BY <1>1, <1>2, <1>8, SamePages DEF Typed
<1> QED BY <1>1, <1>8, <1>9, QuietStep

LEMMA UpdateHakemuksetStep ==
  ASSUME ArviointiInv, NEW o \in Officers, UpdateHakemukset(o)
  PROVE  ArviointiInv' /\ EndsAsShown
<1>1. /\ requests' = With(o, "hakemukset", NoHakemus, Asked)
      /\ UNCHANGED <<server, store, mine, cause>>
      /\ used' = [used EXCEPT !.acts = @ + 1]
  BY DEF UpdateHakemukset
<1>2. "hakemukset" \in Loads /\ "hakemukset" \in Kinds \ Settings
  BY TheKinds DEF KindFacts, Loads
<1>3. RequestSet(requests)' /\ SameCalls /\ CallsGoOn /\ KeepsSaves /\ RequestsStay
  BY <1>1, <1>2, Made DEF ArviointiInv
<1>4. used' \in [acts : Nat, edits : Nat, faults : Nat]
  BY <1>1 DEF ArviointiInv, Typed
<1>5. Typed' /\ Grows(cause') /\ SameSettings /\ KeepsGrant /\ KeepsWaiting /\ KeepsBusy
  BY <1>1, <1>3, <1>4, SamePages
<1> QED BY <1>1, <1>3, <1>5, QuietStep

-----------------------------------------------------------------------------
(* The delayed save *)

\* The indicator of a page, and its delay.
LEMMA IndicatorSet ==
  ASSUME Typed, NEW o \in Officers, NEW t \in Named, NEW status \in {"", "saving", "saved", "error"},
         store' = [store EXCEPT ![o].timer = t, ![o].saveStatus = status]
  PROVE  /\ store' \in [Officers -> Store] /\ OnlyIndicator(o)
         /\ store'[o].timer = t /\ store'[o].saveStatus = status
<1> DEFINE u == [store[o] EXCEPT !.timer = t, !.saveStatus = status]
<1>0. store \in [Officers -> Store]
  BY DEF Typed
<1>1. store[o] \in Store
  BY PageTyped
<1>2. /\ u \in Store /\ u.data = store[o].data /\ u.timer = t /\ u.saveStatus = status
      /\ u.hakemukset = store[o].hakemukset
  BY <1>1 DEF Store, Named
<1>3. store' = [store EXCEPT ![o] = u]
  BY DEF Typed
<1> HIDE DEF u
<1>4. store' \in [Officers -> Store] /\ store'[o] = u /\ \A q \in Officers \ {o} : store'[q] = store[q]
  BY ONLY <1>0, <1>2, <1>3, o \in Officers
<1> QED BY <1>2, <1>4 DEF OnlyIndicator

\* The indicator alone.
LEMMA StatusSet ==
  ASSUME Typed, NEW o \in Officers, NEW status \in {"", "saving", "saved", "error"},
         store' = [store EXCEPT ![o].saveStatus = status]
  PROVE  /\ store' \in [Officers -> Store] /\ OnlyIndicator(o)
         /\ store'[o].timer = store[o].timer /\ store'[o].saveStatus = status
<1> DEFINE u == [store[o] EXCEPT !.saveStatus = status]
<1>0. store \in [Officers -> Store]
  BY DEF Typed
<1>1. store[o] \in Store
  BY PageTyped
<1>2. /\ u \in Store /\ u.data = store[o].data /\ u.timer = store[o].timer /\ u.saveStatus = status
      /\ u.hakemukset = store[o].hakemukset
  BY <1>1 DEF Store
<1>3. store' = [store EXCEPT ![o] = u]
  OBVIOUS
<1> HIDE DEF u
<1>4. store' \in [Officers -> Store] /\ store'[o] = u /\ \A q \in Officers \ {o} : store'[q] = store[q]
  BY ONLY <1>0, <1>2, <1>3, o \in Officers
<1> QED BY <1>2, <1>4 DEF OnlyIndicator

\* The mark of unsaved edits, with the indicator.
LEMMA MarkSet ==
  ASSUME Typed, NEW o \in Officers, NEW h \in Hakemukset, NEW b \in BOOLEAN,
         NEW status \in {"", "saving", "saved", "error"},
         store' = [store EXCEPT ![o].hakemukset[h].hasChanges = b, ![o].saveStatus = status]
  PROVE  /\ store' \in [Officers -> Store] /\ OnlyIndicator(o)
         /\ store'[o].timer = store[o].timer /\ store'[o].saveStatus = status
<1> DEFINE x == [store[o].hakemukset[h] EXCEPT !.hasChanges = b]
           u == [store[o] EXCEPT !.hakemukset[h] = x, !.saveStatus = status]
           v == [store[o] EXCEPT !.hakemukset[h].hasChanges = b, !.saveStatus = status]
<1>0. store \in [Officers -> Store]
  BY DEF Typed
<1>1. store[o] \in Store /\ store[o].hakemukset \in [Hakemukset -> Shown] /\ store[o].hakemukset[h] \in Shown
  BY PageTyped
<1>2. x \in Shown /\ x.arvio = store[o].hakemukset[h].arvio /\ x.settings = store[o].hakemukset[h].settings
  BY <1>1 DEF Shown
<1>3. store' = [store EXCEPT ![o] = v]
  BY DEF Typed
<1>4. v = u
  OBVIOUS
<1> HIDE DEF x, v
<1>5. /\ u \in Store /\ u.data = store[o].data /\ u.timer = store[o].timer /\ u.saveStatus = status
      /\ u.hakemukset = [store[o].hakemukset EXCEPT ![h] = x]
  BY <1>1, <1>2 DEF Store
<1>6. \A g \in Hakemukset : /\ u.hakemukset[g].arvio = store[o].hakemukset[g].arvio
                            /\ u.hakemukset[g].settings = store[o].hakemukset[g].settings
  BY <1>1, <1>2, <1>5
<1> HIDE DEF u
<1>7. store' \in [Officers -> Store] /\ store'[o] = u /\ \A q \in Officers \ {o} : store'[q] = store[q]
  BY ONLY <1>0, <1>3, <1>4, <1>5, o \in Officers
<1> QED BY <1>5, <1>6, <1>7 DEF OnlyIndicator

\* A step that leaves the server, what officers gave and how much is used keeps the types.
LEMMA TypedStep ==
  ASSUME Typed, store' \in [Officers -> Store], Grows(cause'), UNCHANGED <<server, mine>>,
         used' \in [acts : Nat, edits : Nat, faults : Nat]
  PROVE  Typed'
BY DEF Typed, Grows, CauseType, server

LEMMA AutoSaveStep ==
  ASSUME ArviointiInv, NEW o \in Officers, AutoSave(o)
  PROVE  ArviointiInv' /\ EndsAsShown
<1>0. PICK h, new : h = store[o].timer /\ new = store[o].hakemukset[h].arvio
  OBVIOUS
<1>1. /\ h # NoHakemus /\ UNCHANGED <<server, used, mine>>
      /\ \/ /\ CanSave(o, h) /\ requests' = With(o, "arvio", h, [new |-> new])
            /\ store' = [store EXCEPT ![o].timer = NoHakemus, ![o].saveStatus = "saving"]
            /\ cause' = Replaced(o)
         \/ /\ store' = [store EXCEPT ![o].timer = NoHakemus, ![o].saveStatus = "error"]
            /\ UNCHANGED <<requests, cause>>
  BY <1>0 DEF AutoSave, PostArvio
<1>2. Typed /\ RequestSet(requests) /\ h \in Hakemukset /\ store[o].hakemukset[h] \in Shown
  BY <1>0, <1>1, PageTyped DEF ArviointiInv, Named
<1>3. NoHakemus \in Named /\ new \in ArvioRow
  BY <1>0, <1>2 DEF Named, Shown, ArvioRow
<1>4. used' \in [acts : Nat, edits : Nat, faults : Nat]
  BY <1>1, <1>2 DEF Typed
<1>5. CASE /\ CanSave(o, h) /\ requests' = With(o, "arvio", h, [new |-> new])
           /\ store' = [store EXCEPT ![o].timer = NoHakemus, ![o].saveStatus = "saving"]
           /\ cause' = Replaced(o)
  <2>1. /\ store' \in [Officers -> Store] /\ OnlyIndicator(o)
        /\ store'[o].saveStatus = "saving"
    BY <1>2, <1>3, <1>5, IndicatorSet
  <2>2. /\ Grows(cause')
        /\ store[o].saveStatus = "error" => \A g \in Hakemukset : Lacks(o, g, arvio[g]) => cause'[o][g] # {}
    BY <1>2, <1>5, ReplacedFacts
  <2>3. cause'[o][h] = {} => ~ Lacks(o, h, new)
    BY <1>0, <1>2, <2>2 DEF ArviointiInv, NothingElseIsLost, Grows
  <2> DEFINE data == [new |-> new]
  <2>4. data.new = new /\ requests' = With(o, "arvio", h, data)
    BY <1>5
  <2> HIDE DEF data
  <2>5. /\ RequestSet(requests)' /\ SameCalls /\ CallsGoOn /\ KeepsSaves /\ RequestsStay
        /\ \E q \in requests' : q.o = o /\ q.kind = "arvio" /\ q.h = h /\ q.at = "sent"
    BY <1>2, <1>3, <2>3, <2>4, Made, TheKinds DEF KindFacts, Loads
  <2>6. Awaited(o, h)'
    BY <2>5 DEF Awaited, AtServer
  <2>7. KeepsWaiting
    <3>1. \A g \in Hakemukset :
            /\ cause'[o][g] = {} /\ Lacks(o, g, arvio[g])
            /\ store[o].timer = g \/ store[o].saveStatus = "error"
            => Awaited(o, g)'
      BY <1>0, <2>2, <2>6
    <3> QED BY <1>1, <2>1, <2>2, <2>5, <3>1, WaitingElsewhere DEF server, RequestsStay
  <2>8. KeepsBusy
    BY <2>1, <2>5, BusyElsewhere, TheKinds DEF RequestsStay, KindFacts
  <2>9. Typed' /\ SameSettings /\ KeepsGrant
    BY <1>1, <1>2, <1>4, <2>1, <2>2, TypedStep, IndicatorSame
  <2> QED BY <1>1, <2>2, <2>5, <2>7, <2>8, <2>9, QuietStep
<1>6. CASE /\ store' = [store EXCEPT ![o].timer = NoHakemus, ![o].saveStatus = "error"]
           /\ UNCHANGED <<requests, cause>>
  <2>1. /\ store' \in [Officers -> Store] /\ OnlyIndicator(o)
        /\ store'[o].saveStatus = "error"
    BY <1>2, <1>3, <1>6, IndicatorSet
  <2>2. Grows(cause')
    BY <1>2, <1>6 DEF Grows, Typed, CauseType
  <2>3. RequestSet(requests)' /\ SameCalls /\ CallsGoOn /\ KeepsSaves /\ RequestsStay
    BY <1>2, <1>6 DEF SameCalls, CallsGoOn, KeepsSaves, RequestsStay, RequestSet, Like, Same
  <2>4. KeepsWaiting
    BY <1>1, <2>1, <2>2, <2>3, WaitingElsewhere DEF server, RequestsStay, Awaited
  <2>5. KeepsBusy
    BY <2>1, <2>3, BusyElsewhere DEF RequestsStay
  <2>6. Typed' /\ SameSettings /\ KeepsGrant
    BY <1>1, <1>2, <1>4, <2>1, <2>2, TypedStep, IndicatorSame
  <2> QED BY <1>1, <2>2, <2>3, <2>4, <2>5, <2>6, QuietStep
<1> QED BY <1>1, <1>5, <1>6

\* An act or a failure more.
LEMMA UsedMore ==
  ASSUME Typed,
         used' = [used EXCEPT !.acts = @ + 1] \/ used' = [used EXCEPT !.faults = @ + 1] \/ used' = used
  PROVE  used' \in [acts : Nat, edits : Nat, faults : Nat]
<1>1. used \in [acts : Nat, edits : Nat, faults : Nat]
  BY DEF Typed
<1>2. used.acts + 1 \in Nat /\ used.faults + 1 \in Nat
  BY <1>1
<1>3. CASE used' = [used EXCEPT !.acts = @ + 1]
  BY ONLY <1>1, <1>2, <1>3
<1>4. CASE used' = [used EXCEPT !.faults = @ + 1]
  BY ONLY <1>1, <1>2, <1>4
<1> QED BY <1>1, <1>3, <1>4

LEMMA ArvioSavedStep ==
  ASSUME ArviointiInv, NEW r \in requests, ArvioSaved(r)
  PROVE  ArviointiInv' /\ EndsAsShown
<1>0. PICK o : o = r.o
  OBVIOUS
<1>1. /\ r.kind = "arvio" /\ r.at = "answered" /\ requests' = requests \ {r}
      /\ UNCHANGED <<server, used, mine>>
      /\ \/ /\ store' = [store EXCEPT ![o].hakemukset[r.h].hasChanges = FALSE, ![o].saveStatus = "saved"]
            /\ cause' = Replaced(o)
         \/ ~ Loaded(o) /\ UNCHANGED <<store, cause>>
  BY <1>0 DEF ArvioSaved
<1>2. Typed /\ RequestSet(requests) /\ o \in Officers /\ r.h \in Hakemukset /\ r.kind \notin Settings
  BY <1>0, <1>1, TheKinds DEF ArviointiInv, RequestSet, RequestOK, ArvioOK, KindFacts
<1>3. /\ RequestSet(requests)' /\ SameCalls /\ CallsGoOn /\ KeepsSaves
      /\ \A p \in requests : p # r => p \in requests'
  BY <1>1, <1>2, Ended
<1>4. /\ \A p \in requests : AtServer(p) => \E q \in requests' : Same(q, p) /\ AtServer(q)
      /\ \A p \in requests : p.o # o => \E q \in requests' : Same(q, p)
  BY <1>0, <1>1, <1>3 DEF AtServer, Same
<1>5. used' \in [acts : Nat, edits : Nat, faults : Nat]
  BY <1>1, <1>2 DEF Typed
<1>6. CASE /\ store' = [store EXCEPT ![o].hakemukset[r.h].hasChanges = FALSE, ![o].saveStatus = "saved"]
           /\ cause' = Replaced(o)
  <2>1. /\ store' \in [Officers -> Store] /\ OnlyIndicator(o)
        /\ store'[o].timer = store[o].timer /\ store'[o].saveStatus = "saved"
    BY <1>2, <1>6, MarkSet
  <2>2. /\ Grows(cause')
        /\ store[o].saveStatus = "error" => \A g \in Hakemukset : Lacks(o, g, arvio[g]) => cause'[o][g] # {}
    BY <1>2, <1>6, ReplacedFacts
  <2>3. KeepsWaiting
    BY <1>1, <1>2, <1>4, <2>1, <2>2, WaitingElsewhere DEF server, Awaited
  <2>4. KeepsBusy
    BY <1>2, <1>4, <2>1, BusyElsewhere
  <2>5. Typed' /\ SameSettings /\ KeepsGrant
    BY <1>1, <1>2, <1>5, <2>1, <2>2, TypedStep, IndicatorSame
  <2> QED BY <1>1, <1>3, <2>2, <2>3, <2>4, <2>5, QuietStep
<1>7. CASE ~ Loaded(o) /\ UNCHANGED <<store, cause>>
  <2>1. Typed' /\ Grows(cause') /\ SameSettings /\ KeepsGrant
    BY <1>1, <1>5, <1>7, SamePages
  <2>2. KeepsWaiting
    BY <1>4, <1>7 DEF KeepsWaiting, Awaited
  <2>3. \E h \in Hakemukset : "left" \in cause'[o][h]
    BY <1>2, <1>7 DEF ArviointiInv, NothingElseIsLost, Loaded, Left
  <2>4. KeepsBusy
    BY <1>4, <1>7, <2>3 DEF KeepsBusy
  <2> QED BY <1>1, <1>3, <2>1, <2>2, <2>4, QuietStep
<1> QED BY <1>1, <1>6, <1>7

LEMMA ArvioRejectedStep ==
  ASSUME ArviointiInv, NEW r \in requests, ArvioRejected(r)
  PROVE  ArviointiInv' /\ EndsAsShown
<1>0. PICK o : o = r.o
  OBVIOUS
<1>1. /\ r.kind = "arvio" /\ requests' = requests \ {r} /\ UNCHANGED <<server, mine, cause>>
      /\ store' = [store EXCEPT ![o].saveStatus = "error"]
      /\ used' = [used EXCEPT !.faults = @ + 1]
  BY <1>0 DEF ArvioRejected
<1>2. Typed /\ RequestSet(requests) /\ o \in Officers /\ r.kind \notin Settings
  BY <1>0, <1>1, TheKinds DEF ArviointiInv, RequestSet, RequestOK, ArvioOK, KindFacts
<1>3. /\ RequestSet(requests)' /\ SameCalls /\ CallsGoOn /\ KeepsSaves
      /\ \A p \in requests : p # r => p \in requests'
  BY <1>1, <1>2, Ended
<1>4. used' \in [acts : Nat, edits : Nat, faults : Nat]
  BY <1>1, <1>2 DEF Typed
<1>5. /\ store' \in [Officers -> Store] /\ OnlyIndicator(o)
      /\ store'[o].timer = store[o].timer /\ store'[o].saveStatus = "error"
  BY <1>1, <1>2, StatusSet
<1>6. Grows(cause')
  BY <1>1, <1>2 DEF Grows, Typed, CauseType
<1>7. KeepsWaiting
  <2>1. \A p \in requests : AtServer(p) =>
          (\E q \in requests' : Same(q, p) /\ AtServer(q)) \/ store'[p.o].saveStatus = "error"
    BY <1>0, <1>3, <1>5 DEF Same
  <2> QED BY <1>1, <1>2, <1>5, <1>6, <2>1, WaitingElsewhere DEF server, Awaited
<1>8. KeepsBusy
  <2>1. \A p \in requests : p.o # o => \E q \in requests' : Same(q, p)
    BY <1>0, <1>3 DEF Same
  <2> QED BY <1>2, <1>5, <2>1, BusyElsewhere
<1>9. Typed' /\ SameSettings /\ KeepsGrant
  BY <1>1, <1>2, <1>4, <1>5, <1>6, TypedStep, IndicatorSame
<1> QED BY <1>1, <1>3, <1>6, <1>7, <1>8, <1>9, QuietStep

-----------------------------------------------------------------------------
(* Opening applications and grants *)

\* A page opens something: what applications show, its delay and its indicator stay.
SameIndicators ==
  \A o \in Officers :
    /\ store'[o].timer = store[o].timer /\ store'[o].saveStatus = store[o].saveStatus
    /\ store'[o].hakemukset = store[o].hakemukset

LEMMA PageOpened ==
  ASSUME Typed, NEW o \in Officers, NEW u \in Store, store' = [store EXCEPT ![o] = u],
         u.timer = store[o].timer, u.saveStatus = store[o].saveStatus,
         u.hakemukset = store[o].hakemukset
  PROVE  /\ store' \in [Officers -> Store] /\ SameIndicators
         /\ store'[o] = u /\ \A q \in Officers \ {o} : store'[q] = store[q]
<1>1. store' \in [Officers -> Store] /\ store'[o] = u /\ \A q \in Officers \ {o} : store'[q] = store[q]
  BY DEF Typed
<1> QED BY <1>1 DEF SameIndicators

LEMMA OpeningStep ==
  ASSUME Typed, store' \in [Officers -> Store], SameIndicators, RequestsStay
  PROVE  SameSettings /\ KeepsWaiting /\ KeepsBusy
BY DEF SameIndicators, SameSettings, KeepsWaiting, KeepsBusy, RequestsStay, Awaited, Same

LEMMA SelectHakemusStep ==
  ASSUME ArviointiInv, NEW o \in Officers, NEW h \in Hakemukset, SelectHakemus(o, h)
  PROVE  ArviointiInv' /\ EndsAsShown
<1>1. /\ requests' = With(o, "select", h, Asked) /\ UNCHANGED <<server, mine, cause>>
      /\ store' = [store EXCEPT ![o].selected = h, ![o].loadingHakemusId = h]
      /\ used' = [used EXCEPT !.acts = @ + 1]
  BY DEF SelectHakemus
<1>2. "select" \in Kinds \ Settings
  BY TheKinds DEF KindFacts, Loads
<1>3. RequestSet(requests)' /\ SameCalls /\ CallsGoOn /\ KeepsSaves /\ RequestsStay
  BY <1>1, <1>2, Made DEF ArviointiInv
<1>4. Typed /\ used' \in [acts : Nat, edits : Nat, faults : Nat]
  BY <1>1, UsedMore DEF ArviointiInv
<1>5. /\ store' \in [Officers -> Store] /\ SameIndicators
      /\ \A q \in Officers : store'[q].data = store[q].data
  <2> DEFINE u == [store[o] EXCEPT !.selected = h, !.loadingHakemusId = h]
  <2>1. store[o] \in Store
    BY <1>4, PageTyped
  <2>2. /\ u \in Store /\ u.data = store[o].data /\ u.timer = store[o].timer
        /\ u.saveStatus = store[o].saveStatus /\ u.hakemukset = store[o].hakemukset
    BY <2>1 DEF Store
  <2>3. store' = [store EXCEPT ![o] = u]
    BY <1>1
  <2> HIDE DEF u
  <2>4. /\ store' \in [Officers -> Store] /\ SameIndicators
        /\ store'[o] = u /\ \A q \in Officers \ {o} : store'[q] = store[q]
    BY ONLY <1>4, <2>2, <2>3, o \in Officers, PageOpened
  <2> QED BY <2>2, <2>4
<1>6. Grows(cause')
  BY <1>1, <1>4 DEF Grows, Typed, CauseType
<1>7. SameSettings /\ KeepsWaiting /\ KeepsBusy
  BY <1>3, <1>4, <1>5, OpeningStep
<1>8. Typed' /\ KeepsGrant
  BY <1>1, <1>4, <1>5, <1>6, TypedStep DEF KeepsGrant
<1> QED BY <1>1, <1>3, <1>6, <1>7, <1>8, QuietStep

LEMMA FetchAvustushakuInfoStep ==
  ASSUME ArviointiInv, NEW o \in Officers, FetchAvustushakuInfo(o)
  PROVE  ArviointiInv' /\ EndsAsShown
<1>1. /\ requests' = With(o, "info", NoHakemus, Asked) /\ UNCHANGED <<server, mine>>
      /\ store' = [store EXCEPT ![o].data = "loading", ![o].selected = NoHakemus]
      /\ cause' = Blame(o, Hakemukset, "left")
      /\ used' = [used EXCEPT !.acts = @ + 1]
  BY DEF FetchAvustushakuInfo
<1>2. "info" \in Kinds \ Settings /\ "info" \in Loads /\ "left" \in Causes
  BY TheKinds DEF KindFacts, Loads, Causes
<1>3. Typed /\ used' \in [acts : Nat, edits : Nat, faults : Nat]
  BY <1>1, UsedMore DEF ArviointiInv
<1>4. Grows(cause') /\ Left(o)'
  BY <1>1, <1>2, <1>3, BlameFacts DEF Left
<1>5. RequestSet(requests)' /\ SameCalls /\ CallsGoOn /\ KeepsSaves /\ RequestsStay
  BY <1>1, <1>2, <1>4, Made DEF ArviointiInv
<1>6. /\ store' \in [Officers -> Store] /\ SameIndicators
      /\ \A q \in Officers \ {o} : store'[q] = store[q]
  <2> DEFINE u == [store[o] EXCEPT !.data = "loading", !.selected = NoHakemus]
  <2>1. store[o] \in Store
    BY <1>3, PageTyped
  <2>2. /\ u \in Store /\ u.timer = store[o].timer
        /\ u.saveStatus = store[o].saveStatus /\ u.hakemukset = store[o].hakemukset
    BY <2>1 DEF Store
  <2>3. store' = [store EXCEPT ![o] = u]
    BY <1>1
  <2> HIDE DEF u
  <2> QED BY ONLY <1>3, <2>2, <2>3, o \in Officers, PageOpened
<1>7. SameSettings /\ KeepsWaiting /\ KeepsBusy
  BY <1>3, <1>5, <1>6, OpeningStep
<1>8. Typed' /\ KeepsGrant
  BY <1>1, <1>3, <1>4, <1>6, TypedStep DEF KeepsGrant
<1> QED BY <1>1, <1>4, <1>5, <1>7, <1>8, QuietStep

\* An answer to a load that changes nothing but which grant or application is open.
LEMMA AnswerStep ==
  ASSUME ArviointiInv, NEW r \in requests, r.kind \in Loads, requests' = requests \ {r},
         UNCHANGED <<server, mine, cause>>, used' \in [acts : Nat, edits : Nat, faults : Nat],
         store' \in [Officers -> Store], SameIndicators, KeepsGrant
  PROVE  ArviointiInv' /\ EndsAsShown
<1>1. Typed /\ RequestSet(requests) /\ r.kind \notin Settings /\ r.kind \notin Reported /\ r.kind # "arvio"
  BY TheKinds DEF ArviointiInv, KindFacts
<1>2. /\ RequestSet(requests)' /\ SameCalls /\ CallsGoOn /\ KeepsSaves
      /\ \A p \in requests : p # r => p \in requests'
  BY <1>1, Ended
<1>3. Grows(cause')
  BY <1>1 DEF Grows, Typed, CauseType
<1>4. KeepsWaiting
  BY <1>1, <1>2 DEF KeepsWaiting, SameIndicators, Awaited, AtServer, Same
<1>5. KeepsBusy
  BY <1>1, <1>2 DEF KeepsBusy, SameIndicators, Same
<1>6. Typed' /\ SameSettings
  BY <1>1, <1>3, TypedStep DEF SameSettings, SameIndicators
<1> QED BY <1>2, <1>3, <1>4, <1>5, <1>6, QuietStep

LEMMA OtherGrantReceivedStep ==
  ASSUME ArviointiInv, NEW r \in requests, OtherGrantReceived(r)
  PROVE  ArviointiInv' /\ EndsAsShown
<1>0. PICK o : o = r.o
  OBVIOUS
<1>1. /\ r.kind = "info" /\ requests' = requests \ {r} /\ UNCHANGED <<server, used, mine, cause>>
      /\ store' = [store EXCEPT ![o].data = "other"]
  BY <1>0 DEF OtherGrantReceived
<1>2. Typed /\ o \in Officers /\ r.kind \in Loads /\ used' \in [acts : Nat, edits : Nat, faults : Nat]
  BY <1>0, <1>1 DEF ArviointiInv, RequestSet, RequestOK, Loads, Typed
<1>3. /\ store' \in [Officers -> Store] /\ SameIndicators
      /\ \A q \in Officers \ {o} : store'[q] = store[q]
  <2> DEFINE u == [store[o] EXCEPT !.data = "other"]
  <2>1. store[o] \in Store
    BY <1>2, PageTyped
  <2>2. /\ u \in Store /\ u.timer = store[o].timer
        /\ u.saveStatus = store[o].saveStatus /\ u.hakemukset = store[o].hakemukset
    BY <2>1 DEF Store
  <2>3. store' = [store EXCEPT ![o] = u]
    BY <1>1
  <2> HIDE DEF u
  <2> QED BY ONLY <1>2, <2>2, <2>3, PageOpened
<1>4. KeepsGrant
  BY <1>0, <1>1, <1>3 DEF KeepsGrant
<1> QED BY <1>1, <1>2, <1>3, <1>4, AnswerStep

\* The application counts as loading no more.
LEMMA LoadingOver ==
  ASSUME Typed, NEW o \in Officers, store' = [store EXCEPT ![o].loadingHakemusId = NoHakemus]
  PROVE  store' \in [Officers -> Store] /\ SameIndicators /\ KeepsGrant
<1> DEFINE u == [store[o] EXCEPT !.loadingHakemusId = NoHakemus]
<1>1. store[o] \in Store
  BY PageTyped
<1>2. /\ u \in Store /\ u.timer = store[o].timer /\ u.data = store[o].data
      /\ u.saveStatus = store[o].saveStatus /\ u.hakemukset = store[o].hakemukset
  BY <1>1 DEF Store
<1>3. store' = [store EXCEPT ![o] = u]
  OBVIOUS
<1> HIDE DEF u
<1>4. /\ store' \in [Officers -> Store] /\ SameIndicators
      /\ store'[o] = u /\ \A q \in Officers \ {o} : store'[q] = store[q]
  BY ONLY Typed, <1>2, <1>3, o \in Officers, PageOpened
<1> QED BY <1>2, <1>4 DEF KeepsGrant

LEMMA StoreStays ==
  ASSUME Typed, UNCHANGED store
  PROVE  store' \in [Officers -> Store] /\ SameIndicators /\ KeepsGrant
BY DEF Typed, SameIndicators, KeepsGrant

LEMMA LoadRejectedStep ==
  ASSUME ArviointiInv, NEW r \in requests, LoadRejected(r)
  PROVE  ArviointiInv' /\ EndsAsShown
<1>0. PICK o : o = r.o
  OBVIOUS
<1>1. /\ r.kind \in Loads /\ requests' = requests \ {r} /\ UNCHANGED <<server, mine, cause>>
      /\ store' = [store EXCEPT ![o].loadingHakemusId = NoHakemus] \/ UNCHANGED store
      /\ used' = [used EXCEPT !.faults = @ + 1]
  BY <1>0 DEF LoadRejected
<1>2. Typed /\ o \in Officers /\ used' \in [acts : Nat, edits : Nat, faults : Nat]
  BY <1>0, <1>1 DEF ArviointiInv, RequestSet, RequestOK, Typed
<1>3. store' \in [Officers -> Store] /\ SameIndicators /\ KeepsGrant
  BY <1>1, <1>2, LoadingOver, StoreStays
<1> QED BY <1>1, <1>2, <1>3, AnswerStep

LEMMA HakemusSelectedTooLateStep ==
  ASSUME ArviointiInv, NEW r \in requests, HakemusSelectedTooLate(r)
  PROVE  ArviointiInv' /\ EndsAsShown
<1>0. PICK o : o = r.o
  OBVIOUS
<1>1. /\ r.kind = "select" /\ requests' = requests \ {r} /\ UNCHANGED <<server, used, mine, cause>>
      /\ store' = [store EXCEPT ![o].loadingHakemusId = NoHakemus] \/ UNCHANGED store
  BY <1>0 DEF HakemusSelectedTooLate
<1>2. Typed /\ o \in Officers /\ used' \in [acts : Nat, edits : Nat, faults : Nat]
  BY <1>0, <1>1 DEF ArviointiInv, RequestSet, RequestOK, Typed
<1>3. store' \in [Officers -> Store] /\ SameIndicators /\ KeepsGrant
  BY <1>1, <1>2, LoadingOver, StoreStays
<1>4. r.kind \in Loads
  BY <1>1 DEF Loads
<1> QED BY <1>1, <1>2, <1>3, <1>4, AnswerStep

\* The loaded copy, with the defaults of the budget.
WithDefaults(data, h) == [data EXCEPT !.haku[h].arvio["overridden-answers"] = 1]

LEMMA DefaultsCopied ==
  ASSUME NEW d, HakuData(d), NEW h \in Hakemukset
  PROVE  HakuData(WithDefaults(d, h))
<1> DEFINE x == [d.haku[h] EXCEPT !.arvio["overridden-answers"] = 1]
           Data == [haku : [Hakemukset -> Shown]]
           e == [d EXCEPT !.haku[h] = x]
<1>1. d \in Data /\ d.haku[h] \in Shown
  BY DEF HakuData
<1>2. x \in Shown
  <2>1. "overridden-answers" \in Keys
    BY DEF Keys
  <2> QED BY <1>1, <2>1 DEF Shown
<1>3. WithDefaults(d, h) = e
  BY DEF WithDefaults
<1> HIDE DEF x
<1>4. e \in Data
  BY <1>1, <1>2
<1>5. \A f \in Data : HakuData(f)
  BY DEF HakuData
<1> QED BY <1>3, <1>4, <1>5

LEMMA MutateDefaultsStep ==
  ASSUME ArviointiInv, NEW r \in requests, MutateDefaults(r)
  PROVE  ArviointiInv' /\ EndsAsShown
<1>0. PICK o, h, new : o = r.o /\ h = r.h /\ new = store[o].hakemukset[h].arvio
  OBVIOUS
<1> DEFINE data == [new |-> new]
           sent == With(o, "arvio", h, data)
           made == NewRequest(o, "arvio", h, data)
<1>1. /\ r.kind = "select" /\ r.at = "answered" /\ UNCHANGED <<server, used, mine>>
      /\ store' = [store EXCEPT ![o].hakemukset[h].hasChanges = TRUE, ![o].saveStatus = "saving"]
      /\ cause' = Replaced(o)
      /\ LET this == CHOOSE q \in sent : q.id = r.id
         IN requests' = (sent \ {this}) \cup
              {[this EXCEPT !.at = "saving", !.data.haku[h].arvio["overridden-answers"] = 1]}
  BY <1>0 DEF MutateDefaults, PostArvio
<1>2. /\ Typed /\ RequestSet(requests) /\ o \in Officers /\ h \in Hakemukset /\ r.kind \in Loads
      /\ HakuData(r.data) /\ store[o].hakemukset[h] \in Shown
      /\ used' \in [acts : Nat, edits : Nat, faults : Nat]
  BY <1>0, <1>1, PageTyped, UsedMore DEF ArviointiInv, RequestSet, RequestOK, LoadOK, Loads
<1>3. new \in ArvioRow /\ data.new = new
  BY <1>0, <1>2 DEF Shown, ArvioRow
<1> HIDE DEF data
<1>4. /\ RequestSet(sent) /\ made \in sent
      /\ \A q \in sent : q # made => \E p \in requests : Like(q, p) /\ q.at = p.at /\ q.data = p.data
      /\ \A p \in requests : \E q \in sent : q # made /\ Like(q, p) /\ q.at = p.at /\ q.data = p.data
      /\ made.o = o /\ made.kind = "arvio" /\ made.h = h /\ made.at = "sent" /\ made.data = data
  BY <1>2, <1>3, RequestIsMade, TheKinds DEF KindFacts
<1> HIDE DEF sent, made
<1>5. PICK this \in sent : this # made /\ Like(this, r) /\ this.at = r.at /\ this.data = r.data
  BY <1>4
<1>6. this = CHOOSE q \in sent : q.id = r.id
  BY <1>4, <1>5 DEF RequestSet, Like
<1> DEFINE mutated == WithDefaults(this.data, h)
           q == [this EXCEPT !.at = "saving", !.data = mutated]
<1>7. requests' = (sent \ {this}) \cup {q}
  <2>1. requests' = (sent \ {this}) \cup
              {[this EXCEPT !.at = "saving", !.data.haku[h].arvio["overridden-answers"] = 1]}
    BY <1>1, <1>6
  <2>2. RequestOK(this)
    BY <1>4 DEF RequestSet
  <2>3. [this EXCEPT !.at = "saving", !.data.haku[h].arvio["overridden-answers"] = 1]
        = [this EXCEPT !.at = "saving", !.data = [this.data EXCEPT !.haku[h].arvio["overridden-answers"] = 1]]
    BY <2>2 DEF RequestOK
  <2> QED BY <2>1, <2>3 DEF WithDefaults
<1>8. HakuData(mutated)
  BY <1>2, <1>5, DefaultsCopied
<1> HIDE DEF mutated
<1>9. RequestOK(this) /\ this.kind = "select" /\ this.h = h
  BY <1>0, <1>1, <1>4, <1>5 DEF RequestSet, Like
<1>10. /\ Like(q, this) /\ q.at = "saving" /\ q.data = mutated
       /\ q \in [id : Nat, o : Officers, kind : {q.kind}, h : {q.h}, at : {q.at}, data : {q.data},
                 alone : BOOLEAN]
  BY <1>9, Moved
<1> HIDE DEF q
<1>11. RequestOK(q)
  <2>1. q.kind = "select" /\ q.h = h
    BY <1>9, <1>10 DEF Like
  <2>2. "select" \in Loads /\ "select" \in Kinds \ Settings
    BY TheKinds DEF KindFacts, Loads
  <2>3. LoadOK(q)
    BY <1>2, <1>8, <1>10, <2>1 DEF LoadOK
  <2> QED BY <1>10, <2>1, <2>2, <2>3 DEF RequestOK
<1>12. RequestSet(requests')
  BY <1>4, <1>7, <1>10, <1>11, RequestAdvances
<1>13. RequestSet(requests)'
  BY <1>12 DEF RequestSet
<1>14. /\ \A s \in requests' : s = q \/ s = made \/
            \E p \in requests : Like(s, p) /\ s.at = p.at /\ s.data = p.data
       /\ made \in requests' /\ q \in requests' /\ q.kind = "select" /\ ~ AtServer(this)
       /\ \A p \in requests : \E s \in requests' :
            /\ s.id = p.id /\ Same(s, p)
            /\ AtServer(p) => AtServer(s)
  <2>1. q.kind = "select" /\ ~ AtServer(this)
    BY <1>9, <1>10 DEF Like, AtServer
  <2>2. ASSUME NEW p \in requests
        PROVE  \E s \in requests' : s.id = p.id /\ Same(s, p) /\ (AtServer(p) => AtServer(s))
    <3>1. PICK s \in sent : s # made /\ Like(s, p) /\ s.at = p.at /\ s.data = p.data
      BY <1>4
    <3>2. CASE s = this
      <4>1. q.id = p.id /\ Same(q, p) /\ ~ AtServer(p)
        BY <1>9, <1>10, <3>1, <3>2 DEF Like, Same, AtServer
      <4> QED BY <4>1, <1>7
    <3>3. CASE s # this
      BY <3>1, <3>3, <1>7 DEF Like, Same, AtServer
    <3> QED BY <3>2, <3>3
  <2> QED BY <2>1, <2>2, <1>4, <1>5, <1>7
<1>15. SameCalls /\ CallsGoOn /\ RequestsStay
  BY <1>4, <1>14, TheKinds DEF SameCalls, CallsGoOn, RequestsStay, KindFacts, Loads
<1>16. /\ Grows(cause')
       /\ store[o].saveStatus = "error" => \A g \in Hakemukset : Lacks(o, g, arvio[g]) => cause'[o][g] # {}
  BY <1>1, <1>2, ReplacedFacts
<1>17. cause'[o][h] = {} => ~ Lacks(o, h, new)
  BY <1>0, <1>2, <1>16 DEF ArviointiInv, NothingElseIsLost, Grows
<1>18. KeepsSaves
  BY <1>3, <1>4, <1>14, <1>17 DEF KeepsSaves, Like, Same
<1>19. /\ store' \in [Officers -> Store] /\ OnlyIndicator(o)
       /\ store'[o].timer = store[o].timer /\ store'[o].saveStatus = "saving"
  BY <1>1, <1>2, MarkSet
<1>20. KeepsWaiting
  BY <1>1, <1>2, <1>15, <1>16, <1>19, WaitingElsewhere DEF server, RequestsStay, Awaited
<1>21. KeepsBusy
  BY <1>2, <1>4, <1>14, <1>15, <1>19, BusyElsewhere, TheKinds DEF RequestsStay, KindFacts
<1>22. Typed' /\ SameSettings /\ KeepsGrant
  BY <1>1, <1>2, <1>16, <1>19, TypedStep, IndicatorSame
<1> QED BY <1>1, <1>13, <1>15, <1>16, <1>18, <1>20, <1>21, <1>22, QuietStep

-----------------------------------------------------------------------------
(* Reloads *)

\* What a load brought replaces what a page showed; where it lacks something, a cause is noted.
Reloads(o, g) ==
  \A h \in Hakemukset :
    \/ store'[o].hakemukset[h] = store[o].hakemukset[h]
    \/ /\ g \in {h, NoHakemus}
       /\ cause'[o][h] = {} => ~ Lacks(o, h, store'[o].hakemukset[h].arvio)

LEMMA ReloadStep ==
  ASSUME ArviointiInv, NEW r \in requests, NEW o, o = r.o, r.kind \in Loads, requests' = requests \ {r},
         UNCHANGED <<server, used, mine>>, Grows(cause'), store' \in [Officers -> Store],
         \A q \in Officers \ {o} : store'[q] = store[q],
         store'[o].data # "loaded" => store[o].data # "loaded",
         store'[o].timer = store[o].timer, store'[o].saveStatus = store[o].saveStatus,
         Reloads(o, r.h)
  PROVE  ArviointiInv' /\ EndsAsShown
<1>1. /\ Typed /\ RequestSet(requests) /\ o \in Officers /\ r.kind \notin Settings
      /\ r.kind \notin Reported /\ r.kind # "arvio"
  BY TheKinds DEF ArviointiInv, RequestSet, RequestOK, KindFacts
<1>2. /\ RequestSet(requests)' /\ SameCalls /\ CallsGoOn /\ KeepsSaves
      /\ \A p \in requests : p # r => p \in requests'
  BY <1>1, Ended
<1>3. \A q \in Officers : store'[q].timer = store[q].timer /\ store'[q].saveStatus = store[q].saveStatus
  OBVIOUS
<1>4. NothingElseIsLost'
  <2>1. KeepsShown
    BY DEF KeepsShown, Reloads
  <2>2. KeepsGrant
    BY DEF KeepsGrant
  <2> QED BY <1>1, <1>2, <2>1, <2>2, NothingElseStep DEF ArviointiInv
<1>5. KeepsWaiting
  BY <1>1, <1>2, <1>3 DEF KeepsWaiting, Awaited, AtServer, Same
<1>6. KeepsBusy
  BY <1>1, <1>2, <1>3 DEF KeepsBusy, Same
<1>7. UnsavedIsAwaited' /\ SavingHasAReason'
  BY <1>5, <1>6, AwaitedStep, SavingStep DEF ArviointiInv, server
<1>8. KeepsCalls
  <2> SUFFICES ASSUME NEW q \in requests', q.kind \in Settings, q.alone
               PROVE  store'[q.o].hakemukset[q.h] = store[q.o].hakemukset[q.h]
    <3>1. \A q \in requests' : q \in requests /\ Like(q, q)
      BY DEF Like
    <3>2. \A p, h, s : Held(p, h, s)' = Held(p, h, s)
      BY DEF Held, View, server
    <3> QED BY <3>1, <3>2 DEF KeepsCalls, Sees
  <2>1. q \in requests /\ q # r /\ q.o \in Officers /\ q.h \in Hakemukset
    BY <1>1 DEF RequestSet, RequestOK, SettingOK
  <2>2. ~ Spoils(q.o, q.kind, q.h, r)
    BY <1>1, <2>1 DEF RequestSet
  <2>3. q.o = o => r.h \notin {q.h, NoHakemus}
    BY <2>2 DEF Spoils
  <2> QED BY <2>1, <2>3 DEF Reloads
<1>9. CallsInv'
  BY <1>8, CallsStep DEF ArviointiInv
<1>10. ChangesInv'
  BY DEF ArviointiInv, ChangesInv, server
<1>11. EndsAsShown
  BY <1>2 DEF EndsAsShown, CallsGoOn
<1>12. Typed'
  BY <1>1, TypedStep DEF Typed
<1> QED BY <1>2, <1>4, <1>7, <1>9, <1>10, <1>11, <1>12 DEF ArviointiInv

\* The evaluations a load brought, and what of them the officer's last edits miss.
LEMMA LoadedRows ==
  ASSUME Typed, NEW r, RequestOK(r), r.kind \in Loads, r.at # "sent"
  PROVE  /\ r.o \in Officers /\ r.data.haku \in [Hakemukset -> Shown]
         /\ \A h \in Hakemukset : Rows(r)[h] = r.data.haku[h].arvio
         /\ r.kind = "select" => r.h \in Hakemukset
         /\ r.kind = "hakemukset" => r.h = NoHakemus
BY DEF RequestOK, LoadOK, HakuData, Rows

LEMMA HakemusSelectedStep ==
  ASSUME ArviointiInv, NEW r \in requests, HakemusSelected(r)
  PROVE  ArviointiInv' /\ EndsAsShown
<1> DEFINE Reloaded == [r.data.haku[r.h] EXCEPT !.extra = TRUE]
<1>0. PICK o, h, x : o = r.o /\ h = r.h /\ x = Reloaded
  OBVIOUS
<1>1. /\ r.kind = "select" /\ r.at # "sent" /\ requests' = requests \ {r}
      /\ UNCHANGED <<server, used, mine>>
      /\ store' = [store EXCEPT ![o].hakemukset[h] = x, ![o].loadingHakemusId = NoHakemus]
      /\ cause' = Blame(o, {h} \cap Missing(o, Rows(r)), "page_reloaded")
  BY <1>0 DEF HakemusSelected
<1>2. r.kind \in Loads /\ "page_reloaded" \in Causes
  BY <1>1 DEF Loads, Causes
<1>3. Typed /\ RequestOK(r)
  BY DEF ArviointiInv, RequestSet
<1>4. o \in Officers /\ h \in Hakemukset /\ r.data.haku[h] \in Shown /\ Rows(r)[h] = r.data.haku[h].arvio
  BY <1>0, <1>1, <1>2, <1>3, LoadedRows
<1>5. x \in Shown /\ x.arvio = Rows(r)[h]
  BY <1>0, <1>4 DEF Shown
<1>6. Grows(cause') /\ (cause'[o][h] = {} => ~ Lacks(o, h, x.arvio))
  <2>1. /\ Grows(cause')
        /\ \A g \in ({h} \cap Missing(o, Rows(r))) \cap Hakemukset : "page_reloaded" \in cause'[o][g]
    BY <1>1, <1>2, <1>3, <1>4, BlameFacts
  <2> QED BY <2>1, <1>4, <1>5 DEF Missing
<1> DEFINE u == [store[o] EXCEPT !.hakemukset[h] = x, !.loadingHakemusId = NoHakemus]
<1>7. store[o] \in Store /\ store[o].hakemukset \in [Hakemukset -> Shown] /\ store \in [Officers -> Store]
  BY <1>3, <1>4, PageTyped DEF Typed
<1>8. /\ u \in Store /\ u.data = store[o].data /\ u.timer = store[o].timer
      /\ u.saveStatus = store[o].saveStatus
      /\ u.hakemukset = [store[o].hakemukset EXCEPT ![h] = x]
  BY <1>5, <1>7 DEF Store
<1>9. store' = [store EXCEPT ![o] = u]
  BY <1>1, <1>7
<1> HIDE DEF u
<1>10. store' \in [Officers -> Store] /\ store'[o] = u /\ \A q \in Officers \ {o} : store'[q] = store[q]
  BY ONLY <1>4, <1>7, <1>8, <1>9
<1>11. Reloads(o, r.h)
  <2>1. \A g \in Hakemukset \ {h} : store'[o].hakemukset[g] = store[o].hakemukset[g]
    BY <1>7, <1>8, <1>10
  <2>2. store'[o].hakemukset[h] = x
    BY <1>4, <1>7, <1>8, <1>10
  <2> QED BY <1>0, <1>6, <2>1, <2>2 DEF Reloads
<1> QED BY <1>0, <1>1, <1>2, <1>6, <1>8, <1>10, <1>11, ReloadStep

LEMMA HakemuksetUpdatedStep ==
  ASSUME ArviointiInv, NEW r \in requests, HakemuksetUpdated(r)
  PROVE  ArviointiInv' /\ EndsAsShown
<1>0. PICK o, haku : o = r.o /\ haku = r.data.haku
  OBVIOUS
<1>1. /\ r.kind = "hakemukset" /\ r.at # "sent" /\ requests' = requests \ {r}
      /\ UNCHANGED <<server, used, mine>>
      /\ \/ UNCHANGED <<store, cause>>
         \/ /\ store' = [store EXCEPT ![o].hakemukset = haku, ![o].data = "loaded"]
            /\ cause' = Blame(o, Missing(o, Rows(r)), "page_reloaded")
  BY <1>0 DEF HakemuksetUpdated
<1>2. r.kind \in Loads /\ "page_reloaded" \in Causes
  BY <1>1 DEF Loads, Causes
<1>3. Typed /\ RequestOK(r)
  BY DEF ArviointiInv, RequestSet
<1>4. /\ o \in Officers /\ haku \in [Hakemukset -> Shown] /\ r.h = NoHakemus
      /\ \A h \in Hakemukset : Rows(r)[h] = haku[h].arvio
  BY <1>0, <1>1, <1>2, <1>3, LoadedRows
<1>5. CASE UNCHANGED <<store, cause>>
  <2>1. Grows(cause') /\ store' \in [Officers -> Store] /\ Reloads(o, r.h)
    BY <1>3, <1>5 DEF Grows, Typed, CauseType, Reloads
  <2> QED BY <1>0, <1>1, <1>2, <1>5, <2>1, ReloadStep
<1>6. CASE /\ store' = [store EXCEPT ![o].hakemukset = haku, ![o].data = "loaded"]
           /\ cause' = Blame(o, Missing(o, Rows(r)), "page_reloaded")
  <2>1. /\ Grows(cause')
        /\ \A h \in Hakemukset : cause'[o][h] = {} => ~ Lacks(o, h, haku[h].arvio)
    <3>1. /\ Grows(cause')
          /\ \A g \in Missing(o, Rows(r)) \cap Hakemukset : "page_reloaded" \in cause'[o][g]
      BY <1>6, <1>2, <1>3, <1>4, BlameFacts
    <3> QED BY <3>1, <1>4 DEF Missing
  <2> DEFINE u == [store[o] EXCEPT !.hakemukset = haku, !.data = "loaded"]
  <2>2. store[o] \in Store /\ store \in [Officers -> Store]
    BY <1>3, <1>4, PageTyped DEF Typed
  <2>3. /\ u \in Store /\ u.data = "loaded" /\ u.timer = store[o].timer
        /\ u.saveStatus = store[o].saveStatus /\ u.hakemukset = haku
    BY <1>4, <2>2 DEF Store
  <2>4. store' = [store EXCEPT ![o] = u]
    BY <1>6, <2>2
  <2> HIDE DEF u
  <2>5. store' \in [Officers -> Store] /\ store'[o] = u /\ \A q \in Officers \ {o} : store'[q] = store[q]
    BY ONLY <1>4, <2>2, <2>3, <2>4
  <2>6. Reloads(o, r.h)
    BY <1>4, <2>1, <2>3, <2>5 DEF Reloads
  <2> QED BY <1>0, <1>1, <1>2, <2>1, <2>3, <2>5, <2>6, ReloadStep
<1> QED BY <1>1, <1>5, <1>6

-----------------------------------------------------------------------------
(* The save at the server *)

\* A change put at its end leaves the changelog a chain.
LEMMA ChainGrows ==
  ASSUME NEW log, NEW old, Chain(log, old), NEW new \in Nat
  PROVE  Chain(UpdateChangelog(log, old, new), new)
<1>1. CASE new = old
  BY <1>1 DEF UpdateChangelog
<1>2. CASE new # old
  <2> DEFINE longer == Append(log, <<old, new>>)
  <2>1. UpdateChangelog(log, old, new) = longer
    BY <1>2 DEF UpdateChangelog
  <2>2. log \in Seq(Change) /\ old \in Nat /\ Len(log) \in Nat
    <3>1. log \in Seq(Change)
      BY DEF Chain
    <3>2. Len(log) \in Nat /\ (log = <<>> \/ Len(log) \in 1..Len(log))
      BY <3>1, EmptySeq
    <3>3. old \in Nat
      BY <3>1, <3>2 DEF Chain, Change
    <3> QED BY <3>1, <3>2, <3>3
  <2>3. <<old, new>> \in Change
    BY <2>2 DEF Change
  <2>4. /\ longer \in Seq(Change) /\ Len(longer) = Len(log) + 1
        /\ \A i \in 1..Len(log) : longer[i] = log[i]
        /\ longer[Len(log) + 1] = <<old, new>>
    BY <2>2, <2>3, AppendProperties
  <2> HIDE DEF longer
  <2>5. ASSUME NEW i \in 1..(Len(longer) - 1) PROVE longer[i][2] = longer[i + 1][1]
    <3>1. i \in 1..Len(log)
      BY <2>2, <2>4
    <3>2. CASE i = Len(log)
      <4>1. log # <<>>
        BY <3>1
      <4>2. log[Len(log)][2] = old
        BY <4>1 DEF Chain
      <4> QED BY <2>4, <3>1, <3>2, <4>2
    <3>3. CASE i # Len(log)
      <4>1. i \in 1..(Len(log) - 1) /\ i + 1 \in 1..Len(log)
        BY <2>2, <3>1, <3>3
      <4> QED BY <2>4, <3>1, <4>1 DEF Chain
    <3> QED BY <3>2, <3>3
  <2>6. longer # <<>> /\ longer[Len(longer)][2] = new
    BY <2>2, <2>4
  <2> QED BY <2>1, <2>4, <2>5, <2>6 DEF Chain
<1> QED BY <1>1, <1>2

LEMMA UpsertArvioStep ==
  ASSUME ArviointiInv, NEW r \in requests, UpsertArvio(r)
  PROVE  ArviointiInv' /\ EndsAsShown
<1> DEFINE q == [r EXCEPT !.at = "answered", !.data = [new |-> r.data.new]]
           noted(p) == [cause[p] EXCEPT ![r.h] =
                          IF p # r.o /\ Lacks(p, r.h, r.data.new) THEN @ \cup {"other_officer"} ELSE @]
<1>0. PICK o, h, new, log, data :
        /\ o = r.o /\ h = r.h /\ new = r.data.new /\ data = [new |-> new]
        /\ log = UpdateChangelog(r.data.log, r.data.old, new["status"])
  OBVIOUS
<1>1. /\ r.kind = "arvio" /\ r.at = "existing"
      /\ arvio' = [arvio EXCEPT ![h] = new] /\ changelog' = [changelog EXCEPT ![h] = log]
      /\ cause' = [p \in Officers |-> noted(p)]
      /\ requests' = (requests \ {r}) \cup {q}
      /\ UNCHANGED <<settings, store, used, mine>>
  BY <1>0 DEF UpsertArvio
<1>2. /\ Typed /\ RequestSet(requests) /\ RequestOK(r) /\ ArvioOK(r) /\ r.kind \notin Settings
      /\ NothingElseIsLost /\ ChangesInv
  BY <1>1, TheKinds DEF ArviointiInv, RequestSet, RequestOK, KindFacts
<1>3. /\ o \in Officers /\ h \in Hakemukset /\ new \in ArvioRow /\ Chain(r.data.log, r.data.old)
      /\ data.new = new
  BY <1>0, <1>1, <1>2 DEF ArvioOK, RequestOK
<1>4. q = [r EXCEPT !.at = "answered", !.data = data]
  BY <1>0
<1>5. /\ Like(q, r) /\ q.at = "answered" /\ q.data = data
      /\ q \in [id : Nat, o : Officers, kind : {q.kind}, h : {q.h}, at : {q.at}, data : {q.data},
                alone : BOOLEAN]
  BY <1>2, <1>4, Moved
<1> HIDE DEF q
<1>6. RequestOK(q)
  <2>1. q.kind = "arvio" /\ q.h = h
    BY <1>0, <1>1, <1>5 DEF Like
  <2>2. ArvioOK(q)
    BY <1>3, <1>5, <2>1 DEF ArvioOK
  <2> QED BY <1>5, <2>1, <2>2, TheKinds DEF RequestOK, KindFacts
<1>7. /\ RequestSet(requests)' /\ SameCalls /\ CallsGoOn /\ KeepsSaves
      /\ \A p \in requests : \E s \in requests' : Same(s, p)
      /\ \A p \in requests : p # r => p \in requests'
  BY <1>0, <1>1, <1>2, <1>3, <1>5, <1>6, Advanced
<1>8. /\ Grows(cause')
      /\ \A p \in Officers \ {o} : Lacks(p, h, new) => "other_officer" \in cause'[p][h]
  <2>1. "other_officer" \in Causes
    BY DEF Causes
  <2>2. \A p \in Officers : cause[p] \in [Hakemukset -> SUBSET Causes]
    BY <1>2 DEF Typed
  <2>3. ASSUME NEW p \in Officers
        PROVE  /\ noted(p) \in [Hakemukset -> SUBSET Causes]
               /\ \A g \in Hakemukset : cause[p][g] \subseteq noted(p)[g]
               /\ p # o /\ Lacks(p, h, new) => "other_officer" \in noted(p)[h]
    <3> DEFINE more == IF p # r.o /\ Lacks(p, r.h, r.data.new) THEN cause[p][h] \cup {"other_officer"}
                       ELSE cause[p][h]
    <3>1. noted(p) = [cause[p] EXCEPT ![h] = more]
      BY <1>0
    <3>2. /\ more \in SUBSET Causes /\ cause[p][h] \subseteq more
          /\ p # o /\ Lacks(p, h, new) => "other_officer" \in more
      BY <1>0, <1>3, <2>1, <2>2
    <3> HIDE DEF more, noted
    <3> QED BY <1>3, <2>2, <3>1, <3>2
  <2> HIDE DEF noted
  <2> QED BY <1>1, <1>3, <2>3 DEF Grows, CauseType
<1>9. NothingElseIsLost'
  BY <1>1, <1>2, <1>7, <1>8, NothingElseStep DEF KeepsShown, KeepsGrant
<1>10. \A g \in Hakemukset : arvio'[g] = IF g = h THEN new ELSE arvio[g]
  BY <1>1, <1>2 DEF Typed
<1>11. UnsavedIsAwaited'
  <2> SUFFICES ASSUME NEW p \in Officers, NEW g \in Hakemukset, cause'[p][g] = {},
                      Lacks(p, g, arvio'[g])
               PROVE  Awaited(p, g)'
    BY <1>1 DEF UnsavedIsAwaited, Lacks
  <2>1. cause[p][g] = {}
    BY <1>8 DEF Grows
  <2>2. g # h
    <3> SUFFICES ASSUME g = h PROVE FALSE
      OBVIOUS
    <3>1. Lacks(p, h, new)
      BY <1>10
    <3>2. p = o
      BY <1>8, <3>1
    <3> QED BY <1>0, <1>1, <1>2, <2>1, <3>1, <3>2 DEF NothingElseIsLost
  <2>3. Awaited(p, g)
    BY <1>10, <2>1, <2>2 DEF ArviointiInv, UnsavedIsAwaited
  <2> QED BY <1>0, <1>1, <1>7, <2>2, <2>3 DEF Awaited
<1>12. SavingHasAReason'
  <2>1. KeepsBusy
    BY <1>1, <1>7 DEF KeepsBusy
  <2> QED BY <1>8, <2>1, SavingStep DEF ArviointiInv
<1>13. CallsInv'
  <2>1. \A p, g, s : Held(p, g, s)' = Held(p, g, s)
    BY <1>1 DEF Held, View
  <2>2. KeepsCalls
    BY <1>1, <1>7, <2>1 DEF KeepsCalls, SameCalls, Sees
  <2> QED BY <2>2, CallsStep DEF ArviointiInv
<1>14. ChangesInv'
  <2>1. new["status"] \in Nat
    BY <1>3 DEF ArvioRow, Keys
  <2>2. Chain(log, new["status"])
    BY <1>0, <1>3, <2>1, ChainGrows
  <2>3. changelog' = [g \in Hakemukset |-> IF g = h THEN log ELSE changelog[g]]
    BY <1>1, <1>2 DEF ChangesInv
  <2> QED BY <1>2, <1>10, <2>2, <2>3 DEF ChangesInv
<1>15. EndsAsShown
  BY <1>7 DEF EndsAsShown, CallsGoOn
<1>16. Typed'
  <2>1. arvio' \in [Hakemukset -> ArvioRow]
    BY <1>1, <1>2, <1>3 DEF Typed
  <2> QED BY <1>1, <1>2, <1>8, <2>1 DEF Typed, Grows, CauseType
<1> QED BY <1>7, <1>9, <1>11, <1>12, <1>13, <1>14, <1>15, <1>16 DEF ArviointiInv

-----------------------------------------------------------------------------
(* Edits *)

\* What an edit notes: whose delay it took, a save it does not reach, an error it hides.
LEMMA EditCauses ==
  ASSUME Typed, NEW o \in Officers, NEW h \in Hakemukset, NEW k \in Keys, EditArvio(o, h, k)
  PROVE  /\ Grows(cause')
         /\ store[o].timer \in Hakemukset \ {h} => cause'[o][store[o].timer] # {}
         /\ Of(o, "arvio", h) # {} => cause'[o][h] # {}
         /\ store[o].saveStatus = "error" => \A g \in Hakemukset : Lacks(o, g, arvio[g]) => cause'[o][g] # {}
<1> DEFINE told == Replaced(o)
           took(g) == IF g \in (IF store[o].timer \notin {h, NoHakemus} THEN {store[o].timer} ELSE {})
                      THEN {"timer_taken"} ELSE {}
           missed(g) == IF g \in (IF Of(o, "arvio", h) # {} THEN {h} ELSE {})
                        THEN {"edited_during_save"} ELSE {}
           row == [g \in Hakemukset |-> told[o][g] \cup took(g) \cup missed(g)]
<1>1. cause' = [told EXCEPT ![o] = row]
  BY DEF EditArvio
<1>2. /\ Grows(told)
      /\ store[o].saveStatus = "error" => \A g \in Hakemukset : Lacks(o, g, arvio[g]) => told[o][g] # {}
  BY ReplacedFacts
<1> HIDE DEF told
<1>3. \A g \in Hakemukset : took(g) \subseteq Causes /\ missed(g) \subseteq Causes
  BY DEF Causes
<1>4. /\ \A g \in Hakemukset \ {h} : g = store[o].timer => took(g) # {}
      /\ Of(o, "arvio", h) # {} => missed(h) # {}
  BY ArviointiAssumption
<1> HIDE DEF took, missed
<1>5. /\ row \in [Hakemukset -> SUBSET Causes]
      /\ \A g \in Hakemukset : told[o][g] \subseteq row[g] /\ took(g) \subseteq row[g] /\ missed(g) \subseteq row[g]
  BY <1>2, <1>3 DEF Grows, CauseType
<1> HIDE DEF row
<1>6. cause' \in CauseType /\ cause'[o] = row /\ \A p \in Officers \ {o} : cause'[p] = told[p]
  BY <1>1, <1>2, <1>5 DEF Grows, CauseType
<1>7. Grows(cause')
  BY <1>2, <1>5, <1>6 DEF Grows
<1> QED BY <1>2, <1>4, <1>5, <1>6, <1>7

LEMMA EditArvioStep ==
  ASSUME ArviointiInv, NEW o \in Officers, NEW h \in Hakemukset, NEW k \in Keys, EditArvio(o, h, k)
  PROVE  ArviointiInv' /\ EndsAsShown
<1>0. PICK n : n = used.edits + 1
  OBVIOUS
<1>1. /\ mine' = [mine EXCEPT ![o][h][k] = n] /\ UNCHANGED <<server, requests>>
      /\ used' = [used EXCEPT !.acts = @ + 1, !.edits = n]
  BY <1>0 DEF EditArvio
<1>2. Typed /\ RequestSet(requests) /\ n \in Nat
  BY <1>0 DEF ArviointiInv, Typed
<1>3. /\ store' \in [Officers -> Store] /\ OnlyShown(o) /\ SameShown(o, Hakemukset \ {h})
      /\ store'[o].hakemukset[h].arvio = [store[o].hakemukset[h].arvio EXCEPT ![k] = n]
      /\ store'[o].hakemukset[h].settings = store[o].hakemukset[h].settings
      /\ store'[o].timer = h /\ store'[o].saveStatus = "saving"
  BY <1>0, <1>2, EditFacts
<1>4. /\ Grows(cause')
      /\ store[o].timer \in Hakemukset \ {h} => cause'[o][store[o].timer] # {}
      /\ Of(o, "arvio", h) # {} => cause'[o][h] # {}
      /\ store[o].saveStatus = "error" => \A g \in Hakemukset : Lacks(o, g, arvio[g]) => cause'[o][g] # {}
  BY <1>2, EditCauses
<1>5. /\ mine' \in [Officers -> [Hakemukset -> ArvioRow]]
      /\ mine'[o][h] = [mine[o][h] EXCEPT ![k] = n]
      /\ \A p \in Officers, g \in Hakemukset : p # o \/ g # h => mine'[p][g] = mine[p][g]
  <2> DEFINE row == [mine[o][h] EXCEPT ![k] = n]
             rows == [mine[o] EXCEPT ![h] = row]
  <2>1. mine \in [Officers -> [Hakemukset -> ArvioRow]]
    BY <1>2 DEF Typed
  <2>2. row \in ArvioRow
    BY <1>2, <2>1 DEF ArvioRow
  <2>3. mine' = [mine EXCEPT ![o] = rows]
    BY <1>1
  <2> HIDE DEF row
  <2>4. rows \in [Hakemukset -> ArvioRow] /\ rows[h] = row /\ \A g \in Hakemukset \ {h} : rows[g] = mine[o][g]
    BY <2>1, <2>2
  <2> HIDE DEF rows
  <2>5. /\ mine' \in [Officers -> [Hakemukset -> ArvioRow]] /\ mine'[o] = rows
        /\ \A p \in Officers \ {o} : mine'[p] = mine[p]
    BY <2>1, <2>3, <2>4
  <2> QED BY <2>4, <2>5 DEF row
<1>6. \A p \in Officers, g \in Hakemukset : \A row : p # o \/ g # h => Lacks(p, g, row)' = Lacks(p, g, row)
  BY <1>5 DEF Lacks
<1>7. (Lacks(o, h, store[o].hakemukset[h].arvio))' => Lacks(o, h, store[o].hakemukset[h].arvio)
  <2>1. store[o].hakemukset[h].arvio \in ArvioRow /\ mine[o][h] \in ArvioRow
    <3>1. store[o].hakemukset[h] \in Shown
      BY <1>2, PageTyped
    <3> QED BY <3>1, <1>2 DEF Shown, ArvioRow, Typed
  <2> QED BY <1>2, <1>3, <1>5, <2>1 DEF Lacks, ArvioRow
<1>8. \A p \in Officers : store'[p].data = store[p].data
  BY <1>3 DEF OnlyShown
<1>9. \A p \in Officers, g \in Hakemukset : cause'[p][g] = {} => cause[p][g] = {}
  BY <1>4 DEF Grows
<1>10. NothingElseIsLost'
  <2>1. NothingElseIsLost
    BY DEF ArviointiInv
  <2>2. \A p \in Officers : Left(p) => Left(p)'
    BY <1>4 DEF Left, Grows
  <2>3. \A p \in Officers, g \in Hakemukset :
          cause'[p][g] = {} => ~ (Lacks(p, g, store[p].hakemukset[g].arvio))'
    <3> SUFFICES ASSUME NEW p \in Officers, NEW g \in Hakemukset, cause'[p][g] = {}
                 PROVE  ~ (Lacks(p, g, store[p].hakemukset[g].arvio))'
      OBVIOUS
    <3>1. ~ Lacks(p, g, store[p].hakemukset[g].arvio)
      BY <1>9, <2>1 DEF NothingElseIsLost
    <3>2. CASE p = o /\ g = h
      BY <1>7, <3>1, <3>2
    <3>3. CASE p # o \/ g # h
      <4>1. store'[p].hakemukset[g] = store[p].hakemukset[g]
        BY <1>3, <3>3 DEF OnlyShown, SameShown
      <4> QED BY <1>6, <3>1, <3>3, <4>1
    <3> QED BY <3>2, <3>3
  <2>4. \A r \in requests : r.kind = "arvio" => r.o \in Officers /\ r.h \in Hakemukset
    BY <1>2 DEF RequestSet, RequestOK, ArvioOK
  <2>5. \A r \in requests :
          r.kind = "arvio" /\ cause'[r.o][r.h] = {} => ~ (Lacks(r.o, r.h, r.data.new))'
    <3> SUFFICES ASSUME NEW r \in requests, r.kind = "arvio", cause'[r.o][r.h] = {}
                 PROVE  ~ (Lacks(r.o, r.h, r.data.new))'
      OBVIOUS
    <3>1. r.o # o \/ r.h # h
      BY <1>4 DEF Of
    <3>2. ~ Lacks(r.o, r.h, r.data.new)
      BY <1>9, <2>1, <2>4 DEF NothingElseIsLost
    <3> QED BY <1>6, <2>4, <3>1, <3>2
  <2>6. \A p \in Officers : store'[p].data # "loaded" => Left(p)'
    BY <1>8, <2>1, <2>2 DEF NothingElseIsLost
  <2>7. \A r \in requests : r.kind = "info" => Left(r.o)'
    BY <1>2, <2>1, <2>2 DEF NothingElseIsLost, RequestSet, RequestOK
  <2> QED BY <1>1, <2>3, <2>5, <2>6, <2>7 DEF NothingElseIsLost
<1>11. UnsavedIsAwaited'
  <2> SUFFICES ASSUME NEW p \in Officers, NEW g \in Hakemukset, cause'[p][g] = {},
                      Lacks(p, g, arvio[g])'
               PROVE  Awaited(p, g)'
    BY DEF UnsavedIsAwaited
  <2>1. CASE p = o /\ g = h
    BY <1>3, <2>1 DEF Awaited
  <2>2. CASE p # o \/ g # h
    <3>1. Lacks(p, g, arvio[g])
      BY <1>1, <1>6, <2>2 DEF server
    <3>2. Awaited(p, g)
      BY <1>9, <3>1 DEF ArviointiInv, UnsavedIsAwaited
    <3>3. p = o => ~ (store[p].timer = g \/ store[p].saveStatus = "error")
      BY <1>4, <2>2, <3>1
    <3> QED BY <1>1, <1>3, <3>2, <3>3 DEF Awaited, OnlyShown
  <2> QED BY <2>1, <2>2
<1>12. SavingHasAReason'
  <2>1. KeepsBusy
    <3>1. h # NoHakemus
      BY ArviointiAssumption
    <3> QED BY <1>1, <1>3, <3>1 DEF KeepsBusy, OnlyShown, Same
  <2> QED BY <1>4, <2>1, SavingStep DEF ArviointiInv
<1>13. CallsInv'
  <2>1. \A p, g, s : Held(p, g, s)' = Held(p, g, s)
    BY <1>1 DEF Held, View, server
  <2>2. \A p \in Officers, g \in Hakemukset :
          store'[p].hakemukset[g].settings = store[p].hakemukset[g].settings
    BY <1>3 DEF OnlyShown, SameShown
  <2>3. \A r \in requests : r.kind \in Settings => r.o \in Officers /\ r.h \in Hakemukset
    BY <1>2 DEF RequestSet, RequestOK, SettingOK
  <2>4. KeepsCalls
    BY <1>1, <2>1, <2>2, <2>3 DEF KeepsCalls, Like, Sees
  <2> QED BY <2>4, CallsStep DEF ArviointiInv
<1>14. ChangesInv' /\ RequestSet(requests)'
  BY <1>1, <1>2 DEF ArviointiInv, ChangesInv, server, RequestSet
<1>15. EndsAsShown
  BY <1>1 DEF EndsAsShown
<1>16. Typed'
  <2>1. used' \in [acts : Nat, edits : Nat, faults : Nat]
    <3>1. used \in [acts : Nat, edits : Nat, faults : Nat] /\ used.acts + 1 \in Nat
      BY <1>2 DEF Typed
    <3> QED BY ONLY <1>1, <1>2, <3>1
  <2> QED BY <1>1, <1>2, <1>3, <1>4, <1>5, <2>1 DEF Typed, Grows, CauseType, server
<1> QED BY <1>10, <1>11, <1>12, <1>13, <1>14, <1>15, <1>16 DEF ArviointiInv

-----------------------------------------------------------------------------
(* What a page shows of a setting *)

\* One setting of one application, and the indicator.
OnlySetting(o, h, s) ==
  /\ \A q \in Officers \ {o} : store'[q] = store[q]
  /\ store'[o].data = store[o].data /\ store'[o].timer = store[o].timer
  /\ \A g \in Hakemukset : store'[o].hakemukset[g].arvio = store[o].hakemukset[g].arvio
  /\ \A g \in Hakemukset, t \in Settings :
       g # h \/ t # s => store'[o].hakemukset[g].settings[t] = store[o].hakemukset[g].settings[t]

\* Nothing of the pages, or the indicator alone.
LEMMA NoSettingShown ==
  ASSUME NEW o \in Officers, NEW h, NEW s,
         UNCHANGED store \/ (OnlyIndicator(o) /\ store'[o].timer = store[o].timer)
  PROVE  /\ OnlySetting(o, h, s)
         /\ \A g \in Hakemukset : store'[o].hakemukset[g].settings = store[o].hakemukset[g].settings
BY DEF OnlySetting, OnlyIndicator

\* A page that shows another value, however the setting and the indicator are assigned.
SettingPage(page, h, s, v, status) ==
  [page EXCEPT !.hakemukset[h].settings[s] = v, !.saveStatus = status]
IndicatorFirst(page, h, s, v, status) ==
  [page EXCEPT !.saveStatus = status, !.hakemukset[h].settings[s] = v]
ShowsSetting(u, page, h, s, v, status) ==
  /\ u \in Store /\ u.data = page.data /\ u.timer = page.timer /\ u.saveStatus = status
  /\ \A g \in Hakemukset : u.hakemukset[g].arvio = page.hakemukset[g].arvio
  /\ u.hakemukset[h].settings[s] = v
  /\ \A g \in Hakemukset, t \in Settings :
       g # h \/ t # s => u.hakemukset[g].settings[t] = page.hakemukset[g].settings[t]

LEMMA PageShowsSetting ==
  ASSUME NEW page \in Store, NEW h \in Hakemukset, NEW s \in Settings, NEW v \in BOOLEAN,
         NEW status \in {"", "saving", "saved", "error"}
  PROVE  /\ ShowsSetting(SettingPage(page, h, s, v, status), page, h, s, v, status)
         /\ IndicatorFirst(page, h, s, v, status) = SettingPage(page, h, s, v, status)
<1> DEFINE old == page.hakemukset[h]
           x == [old EXCEPT !.settings[s] = v]
           u == [page EXCEPT !.hakemukset[h] = x, !.saveStatus = status]
<1>1. page.hakemukset \in [Hakemukset -> Shown] /\ old \in Shown
  BY DEF Store
<1>2. SettingPage(page, h, s, v, status) = u
  BY DEF SettingPage
<1>3. IndicatorFirst(page, h, s, v, status) = [page EXCEPT !.saveStatus = status, !.hakemukset[h] = x]
  BY DEF IndicatorFirst, Store
<1>4. /\ x \in Shown /\ x.arvio = old.arvio /\ x.settings[s] = v
      /\ \A t \in Settings : t # s => x.settings[t] = old.settings[t]
  BY <1>1 DEF Shown
<1> HIDE DEF x
<1>5. /\ u \in Store /\ u.data = page.data /\ u.timer = page.timer /\ u.saveStatus = status
      /\ u.hakemukset = [page.hakemukset EXCEPT ![h] = x]
      /\ u = [page EXCEPT !.saveStatus = status, !.hakemukset[h] = x]
  BY <1>4 DEF Store
<1> HIDE DEF u
<1>6. u.hakemukset[h] = x /\ \A g \in Hakemukset \ {h} : u.hakemukset[g] = page.hakemukset[g]
  BY <1>1, <1>4, <1>5
<1>7. \A g \in Hakemukset : u.hakemukset[g].arvio = page.hakemukset[g].arvio
  BY <1>4, <1>6
<1>8. \A g \in Hakemukset, t \in Settings :
        g # h \/ t # s => u.hakemukset[g].settings[t] = page.hakemukset[g].settings[t]
  BY <1>4, <1>6
<1>9. u.hakemukset[h].settings[s] = v
  BY <1>4, <1>6
<1>10. ShowsSetting(u, page, h, s, v, status)
  BY <1>5, <1>7, <1>8, <1>9 DEF ShowsSetting
<1> QED BY <1>2, <1>3, <1>5, <1>10

LEMMA SettingShown ==
  ASSUME Typed, NEW o \in Officers, NEW h \in Hakemukset, NEW s \in Settings, NEW v \in BOOLEAN,
         NEW status \in {"", "saving", "saved", "error"},
         \/ store' = [store EXCEPT ![o].hakemukset[h].settings[s] = v, ![o].saveStatus = status]
         \/ store' = [[store EXCEPT ![o].saveStatus = status]
                        EXCEPT ![o].hakemukset[h].settings[s] = v]
  PROVE  /\ store' \in [Officers -> Store] /\ OnlySetting(o, h, s)
         /\ store'[o].hakemukset[h].settings[s] = v /\ store'[o].saveStatus = status
<1> DEFINE u == SettingPage(store[o], h, s, v, status)
           w == IndicatorFirst(store[o], h, s, v, status)
<1>1. store[o] \in Store /\ store \in [Officers -> Store]
  BY PageTyped DEF Typed
<1>2. ShowsSetting(u, store[o], h, s, v, status) /\ w = u
  BY ONLY <1>1, PageShowsSetting, h \in Hakemukset, s \in Settings, v \in BOOLEAN,
          status \in {"", "saving", "saved", "error"}
<1>3. store' = [store EXCEPT ![o] = u] \/ store' = [store EXCEPT ![o] = w]
  BY <1>1 DEF SettingPage, IndicatorFirst
<1> HIDE DEF u, w
<1>4. store' = [store EXCEPT ![o] = u] /\ u \in Store
  BY ONLY <1>2, <1>3 DEF ShowsSetting
<1>5. store' \in [Officers -> Store] /\ store'[o] = u /\ \A q \in Officers \ {o} : store'[q] = store[q]
  BY ONLY <1>1, <1>4, o \in Officers
<1> QED BY <1>2, <1>5 DEF OnlySetting, ShowsSetting

\* A call that the setting does not spoil.
LEMMA SettingElsewhere ==
  ASSUME NEW o \in Officers, NEW h \in Hakemukset, NEW s, OnlySetting(o, h, s),
         NEW p, p.o \in Officers, p.h \in Hakemukset, p.kind \in Settings, p.kind # s \/ p.h # h
  PROVE  store'[p.o].hakemukset[p.h].settings[p.kind] = Sees(p.o, p.h)[p.kind]
<1>1. PICK g \in Hakemukset, t \in Settings : g = p.h /\ t = p.kind
  OBVIOUS
<1>2. CASE p.o = o
  BY <1>1, <1>2 DEF OnlySetting, Sees
<1>3. CASE p.o # o
  BY <1>3 DEF OnlySetting, Sees
<1> QED BY <1>2, <1>3

\* An indicator that hides an error notes what is not stored.
LEMMA SettingWaits ==
  ASSUME NEW o \in Officers, NEW h, NEW s, OnlySetting(o, h, s), UNCHANGED <<arvio, mine>>,
         \A p \in requests : AtServer(p) => \E q \in requests' : Same(q, p) /\ AtServer(q),
         store[o].saveStatus = "error" =>
           \/ store'[o].saveStatus = "error"
           \/ \A g \in Hakemukset : Lacks(o, g, arvio[g]) => cause'[o][g] # {}
  PROVE  KeepsWaiting
BY DEF OnlySetting, KeepsWaiting, Awaited

LEMMA SettingSame ==
  ASSUME NEW o \in Officers, NEW h, NEW s, OnlySetting(o, h, s)
  PROVE  KeepsShown /\ KeepsGrant
BY DEF OnlySetting, KeepsShown, KeepsGrant

\* The steps of a setting, but for the calls themselves.
LEMMA SettingStep ==
  ASSUME ArviointiInv, NEW o \in Officers, NEW h, NEW s, OnlySetting(o, h, s),
         store' \in [Officers -> Store], UNCHANGED <<server, mine>>, Grows(cause'),
         used' \in [acts : Nat, edits : Nat, faults : Nat],
         RequestSet(requests)', KeepsSaves, KeepsCalls, KeepsBusy,
         \A p \in requests : AtServer(p) => \E q \in requests' : Same(q, p) /\ AtServer(q),
         store[o].saveStatus = "error" =>
           \/ store'[o].saveStatus = "error"
           \/ \A g \in Hakemukset : Lacks(o, g, arvio[g]) => cause'[o][g] # {}
  PROVE  ArviointiInv'
<1>1. Typed /\ RequestSet(requests) /\ UNCHANGED <<arvio, mine>>
  BY DEF ArviointiInv, server
<1>2. KeepsWaiting
  BY <1>1, SettingWaits
<1>3. NothingElseIsLost'
  BY <1>1, SettingSame, NothingElseStep DEF ArviointiInv
<1>4. UnsavedIsAwaited' /\ SavingHasAReason' /\ CallsInv'
  BY <1>1, <1>2, AwaitedStep, SavingStep, CallsStep DEF ArviointiInv
<1>5. ChangesInv'
  BY DEF ArviointiInv, ChangesInv, server
<1>6. Typed'
  BY <1>1, TypedStep
<1> QED BY <1>3, <1>4, <1>5, <1>6 DEF ArviointiInv

-----------------------------------------------------------------------------
(* Calls *)

\* A value other than the one shown is asked for.
LEMMA ChangeSettingStep ==
  ASSUME ArviointiInv, NEW o \in Officers, NEW s \in Settings, ChangeSetting(o, s)
  PROVE  ArviointiInv' /\ EndsAsShown
<1>0. PICK h, was, v : h = store[o].selected /\ was = Sees(o, h)[s] /\ v = ~ was
  OBVIOUS
<1>1. /\ h # NoHakemus /\ UNCHANGED <<server, mine>> /\ cause' = Replaced(o)
      /\ used' = [used EXCEPT !.acts = @ + 1]
      /\ requests' = With(o, s, h, [arg |-> v, was |-> was, result |-> was])
      /\ IF s = "keskeytettyAloittamatta"
         THEN store' = [[store EXCEPT ![o].saveStatus = "saving"]
                          EXCEPT ![o].hakemukset[h].settings[s] = v]
         ELSE store' = [store EXCEPT ![o].saveStatus = "saving"]
  BY <1>0 DEF ChangeSetting, Wanted
<1>2. /\ Typed /\ RequestSet(requests) /\ h \in Hakemukset
      /\ used' \in [acts : Nat, edits : Nat, faults : Nat]
  BY <1>0, <1>1, PageTyped, UsedMore DEF ArviointiInv, Named
<1>3. was \in BOOLEAN /\ v \in BOOLEAN
  <2>1. store[o].hakemukset[h] \in Shown
    BY <1>2, PageTyped
  <2> QED BY <1>0, <2>1 DEF Shown, Sees
<1>4. /\ store' \in [Officers -> Store] /\ OnlySetting(o, h, s) /\ store'[o].saveStatus = "saving"
      /\ store'[o].hakemukset[h].settings[s] = IF s = "keskeytettyAloittamatta" THEN v ELSE was
  <2>1. CASE s = "keskeytettyAloittamatta"
    <3>1. store' = [[store EXCEPT ![o].saveStatus = "saving"] EXCEPT ![o].hakemukset[h].settings[s] = v]
      BY <1>1, <2>1
    <3>2. /\ store' \in [Officers -> Store] /\ OnlySetting(o, h, s)
          /\ store'[o].hakemukset[h].settings[s] = v /\ store'[o].saveStatus = "saving"
      BY <1>2, <1>3, <3>1, SettingShown
    <3> QED BY <2>1, <3>2
  <2>2. CASE s # "keskeytettyAloittamatta"
    <3>1. store' = [store EXCEPT ![o].saveStatus = "saving"]
      BY <1>1, <2>2
    <3>2. /\ store' \in [Officers -> Store] /\ OnlyIndicator(o)
          /\ store'[o].timer = store[o].timer /\ store'[o].saveStatus = "saving"
      BY <1>2, <3>1, StatusSet
    <3>3. /\ OnlySetting(o, h, s)
          /\ store'[o].hakemukset[h].settings = store[o].hakemukset[h].settings
      BY <1>2, <3>2, NoSettingShown
    <3> QED BY <1>0, <2>2, <3>2, <3>3 DEF Sees
  <2> QED BY <2>1, <2>2
<1>5. /\ Grows(cause')
      /\ store[o].saveStatus = "error" => \A g \in Hakemukset : Lacks(o, g, arvio[g]) => cause'[o][g] # {}
  BY <1>1, <1>2, ReplacedFacts
<1> DEFINE data == [arg |-> v, was |-> was, result |-> was]
           new == NewRequest(o, s, h, data)
<1>6. data \in CallData /\ data.arg = v /\ data.was = was
  BY <1>3 DEF CallData
<1>7. requests' = With(o, s, h, data)
  BY <1>1
<1> HIDE DEF data
<1>8. s \in Kinds /\ s \notin Loads /\ s # "arvio" /\ s # "info" /\ s \in Reported
  BY TheKinds DEF KindFacts, Loads
<1>9. /\ RequestSet(requests') /\ new \in requests'
      /\ \A q \in requests' : q # new =>
           \E r \in requests : /\ Like(q, r) /\ q.at = r.at /\ q.data = r.data
                               /\ q.alone => ~ Spoils(o, s, h, r)
      /\ \A r \in requests : \E q \in requests' : q # new /\ Like(q, r) /\ q.at = r.at /\ q.data = r.data
      /\ new.o = o /\ new.kind = s /\ new.h = h /\ new.at = "sent" /\ new.data = data
  BY <1>2, <1>6, <1>7, <1>8, RequestIsMade
<1> HIDE DEF new
<1>10. RequestSet(requests)'
  BY <1>9 DEF RequestSet
<1>11. KeepsSaves
  BY <1>8, <1>9 DEF KeepsSaves, Like, Same
<1>12. CallsGoOn /\ RequestsStay
  BY <1>9 DEF CallsGoOn, RequestsStay, Like, Same, AtServer
<1>13. KeepsBusy
  <2>1. \A p \in Officers \ {o} : store'[p] = store[p]
    BY <1>4 DEF OnlySetting
  <2> QED BY <1>8, <1>9, <1>12, <2>1 DEF KeepsBusy, RequestsStay
<1>14. KeepsCalls
  <2> SUFFICES ASSUME NEW q \in requests', q.kind \in Settings, q.alone
               PROVE  \/ CallOK(q)'
                      \/ \E r \in requests :
                           /\ Like(q, r) /\ q.at = r.at /\ q.data = r.data
                           /\ store'[q.o].hakemukset[q.h].settings[q.kind] = Sees(q.o, q.h)[q.kind]
                           /\ Held(q.o, q.h, q.kind)' = Held(q.o, q.h, q.kind)
    BY DEF KeepsCalls
  <2>1. CASE q = new
    <3>1. Sees(o, h)'[s] = IF s = "keskeytettyAloittamatta" THEN v ELSE was
      BY <1>4 DEF Sees
    <3>2. CallOK(q)'
      BY <1>0, <1>6, <1>9, <2>1, <3>1 DEF CallOK
    <3> QED BY <3>2
  <2>2. CASE q # new
    <3>1. PICK r \in requests : /\ Like(q, r) /\ q.at = r.at /\ q.data = r.data
                                /\ ~ Spoils(o, s, h, r)
      BY <1>9, <2>2
    <3>2. q.o \in Officers /\ q.h \in Hakemukset /\ (q.kind # s \/ q.h # h)
      BY <1>2, <3>1 DEF RequestSet, RequestOK, SettingOK, Like, Spoils
    <3>3. store'[q.o].hakemukset[q.h].settings[q.kind] = Sees(q.o, q.h)[q.kind]
      BY <1>2, <1>4, <3>2, SettingElsewhere
    <3>4. Held(q.o, q.h, q.kind)' = Held(q.o, q.h, q.kind)
      BY <1>1 DEF Held, View, server
    <3> QED BY <3>1, <3>3, <3>4
  <2> QED BY <2>1, <2>2
<1>15. \A p \in requests : AtServer(p) => \E q \in requests' : Same(q, p) /\ AtServer(q)
  BY <1>12 DEF RequestsStay
<1>16. ArviointiInv'
  BY <1>1, <1>2, <1>4, <1>5, <1>10, <1>11, <1>13, <1>14, <1>15, SettingStep
<1>17. EndsAsShown
  BY <1>12 DEF EndsAsShown, CallsGoOn
<1> QED BY <1>16, <1>17

\* The answer to a call is shown or the old value is.
LEMMA CallEnds ==
  ASSUME ArviointiInv, NEW r \in requests, r.kind \in Settings, requests' = requests \ {r},
         UNCHANGED <<server, mine>>, Grows(cause'), store' \in [Officers -> Store],
         used' \in [acts : Nat, edits : Nat, faults : Nat],
         NEW o, NEW h, NEW s, o = r.o, h = r.h, s = r.kind, OnlySetting(o, h, s),
         store'[o].saveStatus = "saving" => Left(o),
         store[o].saveStatus = "error" =>
           \/ store'[o].saveStatus = "error"
           \/ \A g \in Hakemukset : Lacks(o, g, arvio[g]) => cause'[o][g] # {},
         r.alone /\ Loaded(o) =>
           store'[o].hakemukset[h].settings[s] =
             IF used'.faults > used.faults THEN r.data.was ELSE Held(o, h, s)
  PROVE  ArviointiInv' /\ EndsAsShown
<1>1. /\ RequestSet(requests) /\ RequestSet(requests \ {r}) /\ o \in Officers /\ h \in Hakemukset
      /\ r.kind # "arvio" /\ r.kind # "info"
  BY RequestEnds, TheKinds DEF ArviointiInv, RequestSet, RequestOK, SettingOK, KindFacts, Loads
<1>2. RequestSet(requests)'
  BY <1>1 DEF RequestSet
<1>3. KeepsSaves /\ \A p \in requests : AtServer(p) => \E q \in requests' : Same(q, p) /\ AtServer(q)
  BY <1>1 DEF KeepsSaves, Same, AtServer
<1>4. KeepsBusy
  <2>1. \A p \in Officers \ {o} : store'[p] = store[p]
    BY DEF OnlySetting
  <2>2. Left(o) => \E g \in Hakemukset : "left" \in cause'[o][g]
    BY <1>1 DEF Left, Grows
  <2> QED BY <2>1, <2>2 DEF KeepsBusy, Same
<1>5. KeepsCalls
  <2> SUFFICES ASSUME NEW q \in requests', q.kind \in Settings, q.alone
               PROVE  /\ store'[q.o].hakemukset[q.h].settings[q.kind] = Sees(q.o, q.h)[q.kind]
                      /\ Held(q.o, q.h, q.kind)' = Held(q.o, q.h, q.kind)
    BY DEF KeepsCalls, Like
  <2>1. q.o \in Officers /\ q.h \in Hakemukset /\ ~ Spoils(q.o, q.kind, q.h, r)
    BY <1>1 DEF RequestSet, RequestOK, SettingOK
  <2>2. q.kind # s \/ q.h # h
    BY <2>1 DEF Spoils
  <2> QED BY <1>1, <2>1, <2>2, SettingElsewhere DEF Held, View, server
<1>6. ArviointiInv'
  BY <1>1, <1>2, <1>3, <1>4, <1>5, SettingStep
<1>7. EndsAsShown
  BY DEF EndsAsShown, Held
<1> QED BY <1>6, <1>7

\* Who shows another grant has left this one.
LEMMA AwayHasLeft ==
  ASSUME ArviointiInv, NEW o \in Officers, ~ Loaded(o)
  PROVE  Left(o)
BY DEF ArviointiInv, NothingElseIsLost, Loaded

LEMMA SettingStoredStep ==
  ASSUME ArviointiInv, NEW r \in requests, SettingStored(r)
  PROVE  ArviointiInv' /\ EndsAsShown
<1>0. PICK o, h, s, v : o = r.o /\ h = r.h /\ s = r.kind /\ v = Answer(r)
  OBVIOUS
<1>1. /\ r.kind \in Settings /\ r.at = "answered" /\ requests' = requests \ {r}
      /\ UNCHANGED <<server, used, mine>>
      /\ \/ /\ store' = [store EXCEPT ![o].hakemukset[h].settings[s] = v, ![o].saveStatus = "saved"]
            /\ cause' = Replaced(o)
         \/ ~ Loaded(o) /\ UNCHANGED <<store, cause>>
  BY <1>0 DEF SettingStored
<1>2. /\ Typed /\ RequestOK(r) /\ SettingOK(r) /\ o \in Officers /\ h \in Hakemukset /\ s \in Settings
      /\ used' \in [acts : Nat, edits : Nat, faults : Nat]
  BY <1>0, <1>1 DEF ArviointiInv, RequestSet, RequestOK, SettingOK, Typed
<1>3. v \in BOOLEAN
  BY <1>0, <1>2 DEF Answer, SettingOK, CallData
<1>4. ~ (used'.faults > used.faults)
  BY <1>1, <1>2 DEF Typed
<1>5. r.alone => v = Held(o, h, s)
  BY <1>0, <1>1 DEF ArviointiInv, CallsInv, CallOK, Answer
<1>6. CASE /\ store' = [store EXCEPT ![o].hakemukset[h].settings[s] = v, ![o].saveStatus = "saved"]
           /\ cause' = Replaced(o)
  <2>1. /\ store' \in [Officers -> Store] /\ OnlySetting(o, h, s)
        /\ store'[o].hakemukset[h].settings[s] = v /\ store'[o].saveStatus = "saved"
    BY <1>2, <1>3, <1>6, SettingShown
  <2>2. /\ Grows(cause')
        /\ store[o].saveStatus = "error" => \A g \in Hakemukset : Lacks(o, g, arvio[g]) => cause'[o][g] # {}
    BY <1>2, <1>6, ReplacedFacts
  <2>3. r.alone => store'[o].hakemukset[h].settings[s] =
                     IF used'.faults > used.faults THEN r.data.was ELSE Held(o, h, s)
    BY <1>4, <1>5, <2>1
  <2>4. r.kind \in Settings /\ requests' = requests \ {r} /\ UNCHANGED <<server, mine>>
    BY <1>1
  <2>5. used' \in [acts : Nat, edits : Nat, faults : Nat]
    BY <1>2
  <2> QED BY <1>0, <2>1, <2>2, <2>3, <2>4, <2>5, CallEnds
<1>7. CASE ~ Loaded(o) /\ UNCHANGED <<store, cause>>
  <2>1. store' \in [Officers -> Store] /\ Grows(cause') /\ OnlySetting(o, h, s)
    BY <1>2, <1>7, NoSettingShown DEF Typed, Grows, CauseType
  <2>2. Left(o)
    BY <1>2, <1>7, AwayHasLeft
  <2> QED BY <1>0, <1>1, <1>2, <1>7, <2>1, <2>2, CallEnds
<1> QED BY <1>1, <1>6, <1>7

LEMMA SettingRejectedStep ==
  ASSUME ArviointiInv, NEW r \in requests, SettingRejected(r)
  PROVE  ArviointiInv' /\ EndsAsShown
<1>0. PICK o, h, s, v : o = r.o /\ h = r.h /\ s = r.kind /\ v = ~ r.data.arg
  OBVIOUS
<1>1. /\ r.kind \in Settings /\ requests' = requests \ {r} /\ UNCHANGED <<server, mine, cause>>
      /\ used' = [used EXCEPT !.faults = @ + 1]
      /\ \/ /\ s = "keskeytettyAloittamatta"
            /\ store' = [[store EXCEPT ![o].saveStatus = "error"]
                           EXCEPT ![o].hakemukset[h].settings[s] = v]
         \/ /\ s # "keskeytettyAloittamatta"
            /\ store' = [store EXCEPT ![o].saveStatus = "error"]
         \/ ~ Loaded(o) /\ UNCHANGED store
  BY <1>0 DEF SettingRejected
<1>2. /\ Typed /\ RequestOK(r) /\ SettingOK(r) /\ o \in Officers /\ h \in Hakemukset /\ s \in Settings
      /\ used' \in [acts : Nat, edits : Nat, faults : Nat]
  BY <1>0, <1>1, UsedMore DEF ArviointiInv, RequestSet, RequestOK, SettingOK
<1>3. v \in BOOLEAN /\ Grows(cause')
  BY <1>0, <1>1, <1>2 DEF Grows, Typed, CauseType
<1>4. used'.faults > used.faults
  <2>1. used \in [acts : Nat, edits : Nat, faults : Nat]
    BY <1>2 DEF Typed
  <2>2. used'.faults = used.faults + 1 /\ used.faults \in Nat
    BY ONLY <1>1, <2>1
  <2> QED BY ONLY <2>2
<1>5. r.alone => r.data.was = IF s = "keskeytettyAloittamatta" THEN v ELSE Sees(o, h)[s]
  <2>1. r.data.arg \in BOOLEAN /\ r.data.was \in BOOLEAN
    BY <1>2 DEF SettingOK, CallData
  <2>2. ASSUME r.alone
        PROVE  /\ r.data.arg = ~ r.data.was
               /\ s # "keskeytettyAloittamatta" => Sees(o, h)[s] = r.data.was
    BY <1>0, <1>1, <2>2 DEF ArviointiInv, CallsInv, CallOK
  <2>3. r.alone => v = r.data.was
    <3>1. \A a, w \in BOOLEAN : a = ~ w => (~ a) = w
      OBVIOUS
    <3> QED BY ONLY <1>0, <2>1, <2>2, <3>1
  <2> QED BY ONLY <2>2, <2>3
<1>6. CASE /\ s = "keskeytettyAloittamatta"
           /\ store' = [[store EXCEPT ![o].saveStatus = "error"]
                          EXCEPT ![o].hakemukset[h].settings[s] = v]
  <2>0. store' = [[store EXCEPT ![o].saveStatus = "error"] EXCEPT ![o].hakemukset[h].settings[s] = v]
    BY <1>6
  <2>1. /\ store' \in [Officers -> Store] /\ OnlySetting(o, h, s)
        /\ store'[o].hakemukset[h].settings[s] = v /\ store'[o].saveStatus = "error"
    <3>1. Typed /\ o \in Officers /\ h \in Hakemukset /\ s \in Settings /\ v \in BOOLEAN
      BY <1>2, <1>3
    <3> QED BY ONLY <2>0, <3>1, SettingShown
  <2>2. store'[o].saveStatus = "saving" => Left(o)
    BY <2>1
  <2>3. r.alone => store'[o].hakemukset[h].settings[s] =
                     IF used'.faults > used.faults THEN r.data.was ELSE Held(o, h, s)
    BY <1>4, <1>5, <1>6, <2>1
  <2>4. r.kind \in Settings /\ requests' = requests \ {r} /\ UNCHANGED <<server, mine>>
    BY <1>1
  <2>5. used' \in [acts : Nat, edits : Nat, faults : Nat]
    BY <1>2
  <2> QED BY <1>0, <1>3, <2>1, <2>2, <2>3, <2>4, <2>5, CallEnds
<1>7. CASE s # "keskeytettyAloittamatta" /\ store' = [store EXCEPT ![o].saveStatus = "error"]
  <2>1. /\ store' \in [Officers -> Store] /\ OnlyIndicator(o)
        /\ store'[o].timer = store[o].timer /\ store'[o].saveStatus = "error"
    BY <1>2, <1>7, StatusSet
  <2>2. OnlySetting(o, h, s) /\ store'[o].hakemukset[h].settings[s] = Sees(o, h)[s]
    BY <1>2, <2>1, NoSettingShown DEF Sees
  <2> QED BY <1>0, <1>1, <1>2, <1>3, <1>4, <1>5, <1>7, <2>1, <2>2, CallEnds
<1>8. CASE ~ Loaded(o) /\ UNCHANGED store
  <2>1. store' \in [Officers -> Store] /\ OnlySetting(o, h, s)
    BY <1>2, <1>8, NoSettingShown DEF Typed
  <2>2. Left(o)
    BY <1>2, <1>8, AwayHasLeft
  <2> QED BY <1>0, <1>1, <1>2, <1>3, <1>8, <2>1, <2>2, CallEnds
<1> QED BY <1>1, <1>6, <1>7, <1>8

\* A step at the server of what no page shows yet.
LEMMA ServerStep ==
  ASSUME ArviointiInv, UNCHANGED <<arvio, changelog, store, used, mine, cause>>,
         Typed', RequestSet(requests)', KeepsSaves, KeepsCalls, CallsGoOn, RequestsStay
  PROVE  ArviointiInv' /\ EndsAsShown
<1>1. Typed /\ RequestSet(requests) /\ Grows(cause')
  BY DEF ArviointiInv, Typed, Grows, CauseType
<1>2. KeepsShown /\ KeepsGrant
  BY DEF KeepsShown, KeepsGrant
<1>3. KeepsWaiting
  BY DEF RequestsStay, KeepsWaiting, Awaited
<1>4. KeepsBusy
  BY DEF RequestsStay, KeepsBusy, Same
<1>5. NothingElseIsLost'
  BY <1>1, <1>2, NothingElseStep DEF ArviointiInv
<1>6. UnsavedIsAwaited' /\ SavingHasAReason' /\ CallsInv'
  BY <1>1, <1>3, <1>4, AwaitedStep, SavingStep, CallsStep DEF ArviointiInv
<1>7. ChangesInv'
  BY DEF ArviointiInv, ChangesInv
<1>8. EndsAsShown
  BY DEF EndsAsShown, CallsGoOn
<1> QED BY <1>5, <1>6, <1>7, <1>8 DEF ArviointiInv

\* What a call brought.
WithResult(data, v) == [data EXCEPT !.result = v]

LEMMA ResultNoted ==
  ASSUME NEW d \in CallData, NEW v \in BOOLEAN
  PROVE  LET e == WithResult(d, v) IN
         e \in CallData /\ e.arg = d.arg /\ e.was = d.was /\ e.result = v
BY DEF CallData, WithResult

\* A call at its next step.
CallMoved(r, at, v) == [r EXCEPT !.at = at, !.data = WithResult(r.data, v)]

LEMMA CallMoves ==
  ASSUME RequestSet(requests), NEW r \in requests, r.kind \in Settings,
         NEW at, NEW v \in BOOLEAN, at = "answered" \/ (at = "written" /\ r.kind \in Reads),
         NEW q, q = CallMoved(r, at, v),
         requests' = (requests \ {r}) \cup {q}
  PROVE  /\ RequestSet(requests)' /\ KeepsSaves /\ CallsGoOn /\ RequestsStay
         /\ Like(q, r) /\ q.at = at /\ q.alone = r.alone
         /\ q.data.arg = r.data.arg /\ q.data.was = r.data.was /\ q.data.result = v
<1>1. RequestOK(r) /\ SettingOK(r) /\ r.kind # "arvio" /\ r.kind # "info" /\ r.kind \notin Loads
  BY TheKinds DEF RequestSet, RequestOK, KindFacts, Loads
<1>2. PICK data : data = WithResult(r.data, v)
  OBVIOUS
<1>3. data \in CallData /\ data.arg = r.data.arg /\ data.was = r.data.was /\ data.result = v
  BY <1>1, <1>2, ResultNoted DEF SettingOK
<1>4. /\ Like(q, r) /\ q.at = at /\ q.data = data /\ q.alone = r.alone
      /\ q \in [id : Nat, o : Officers, kind : {q.kind}, h : {q.h}, at : {q.at}, data : {q.data},
                alone : BOOLEAN]
  <2>1. LET x == [r EXCEPT !.at = at, !.data = data] IN
        /\ Like(x, r) /\ x.at = at /\ x.data = data /\ x.alone = r.alone
        /\ x \in [id : Nat, o : Officers, kind : {x.kind}, h : {x.h}, at : {x.at}, data : {x.data},
                  alone : BOOLEAN]
    BY <1>1, Moved
  <2>2. q = [r EXCEPT !.at = at, !.data = data]
    BY <1>2 DEF CallMoved
  <2> QED BY ONLY <2>1, <2>2
<1>5. q.kind = r.kind /\ q.h = r.h /\ q.o = r.o /\ q.id = r.id
  BY <1>4 DEF Like
<1>6. RequestOK(q)
  <2>1. SettingOK(q)
    BY ONLY <1>1, <1>3, <1>4, <1>5, at = "answered" \/ (at = "written" /\ r.kind \in Reads) DEF SettingOK
  <2> QED BY ONLY <1>1, <1>4, <1>5, <2>1 DEF RequestOK
<1>7. RequestSet((requests \ {r}) \cup {q})
  BY ONLY RequestSet(requests), r \in requests, <1>4, <1>6, RequestAdvances
<1>8. RequestSet(requests)'
  BY <1>7 DEF RequestSet
<1>9. KeepsSaves /\ CallsGoOn
  BY <1>1, <1>5 DEF KeepsSaves, CallsGoOn, Same
<1>10. RequestsStay
  BY <1>1, <1>5 DEF RequestsStay, Same, AtServer
<1> QED BY <1>3, <1>4, <1>8, <1>9, <1>10

\* What an officer is shown of a setting is whether it is set, or the officer among its givers.
LEMMA HeldFacts ==
  ASSUME Typed, NEW o, NEW h \in Hakemukset, NEW s \in Settings
  PROVE  /\ Held(o, h, s) \in BOOLEAN
         /\ s \in ByOfficer => (Held(o, h, s) <=> o \in settings[h][s])
         /\ s \notin ByOfficer => Held(o, h, s) = settings[h][s]
<1>1. CASE s \in ByOfficer
  <2>1. Held(o, h, s) = (o \in settings[h][s])
    BY <1>1 DEF Held, View
  <2>2. (o \in settings[h][s]) \in BOOLEAN
    OBVIOUS
  <2>3. Held(o, h, s) \in BOOLEAN
    BY ONLY <2>1, <2>2
  <2>4. Held(o, h, s) <=> o \in settings[h][s]
    BY ONLY <2>1
  <2> QED BY <1>1, <2>3, <2>4
<1>2. CASE s \notin ByOfficer
  <2>1. Held(o, h, s) = settings[h][s] /\ settings[h][s] \in BOOLEAN
    BY <1>2 DEF Held, View, Typed
  <2> QED BY <2>1, <1>2
<1> QED BY <1>1, <1>2

LEMMA ReadSettingStep ==
  ASSUME ArviointiInv, NEW r \in requests, ReadSetting(r)
  PROVE  ArviointiInv' /\ EndsAsShown
<1>0. PICK q, v : /\ v = Held(r.o, r.h, r.kind)
                  /\ q = CallMoved(r, "answered", v)
  OBVIOUS
<1>1. RequestSet(requests) /\ RequestOK(r) /\ Typed
  BY DEF ArviointiInv, RequestSet
<1>2. r.kind \in Reads /\ r.at = "written" /\ UNCHANGED <<server, store, used, mine, cause>>
  BY DEF ReadSetting
<1>3. r.kind \in Settings /\ r.h \in Hakemukset
  BY <1>1, <1>2 DEF RequestOK, SettingOK, Reads, Settings
<1>4. requests' = (requests \ {r}) \cup {q}
  <2>1. requests' = (requests \ {r}) \cup {[r EXCEPT !.at = "answered", !.data.result = Held(r.o, r.h, r.kind)]}
    BY DEF ReadSetting, Held
  <2>2. [r EXCEPT !.at = "answered", !.data.result = Held(r.o, r.h, r.kind)]
        = CallMoved(r, "answered", Held(r.o, r.h, r.kind))
    BY <1>1 DEF RequestOK, WithResult, CallMoved
  <2> QED BY <1>0, <2>1, <2>2
<1>5. v \in BOOLEAN
  BY <1>0, <1>1, <1>3, HeldFacts
<1>6. /\ RequestSet(requests)' /\ KeepsSaves /\ CallsGoOn /\ RequestsStay
      /\ Like(q, r) /\ q.at = "answered" /\ q.alone = r.alone
      /\ q.data.arg = r.data.arg /\ q.data.was = r.data.was /\ q.data.result = v
  <2>1. RequestSet(requests) /\ r.kind \in Settings /\ q = CallMoved(r, "answered", v)
    BY <1>0, <1>1, <1>3
  <2> QED BY ONLY r \in requests, <1>4, <1>5, <2>1, CallMoves
<1>7. Typed'
  BY <1>1, <1>2 DEF Typed, server
<1>8. KeepsCalls
  <2>1. \A p, g, s : Held(p, g, s)' = Held(p, g, s) /\ Sees(p, g)' = Sees(p, g)
    BY <1>2 DEF Held, View, Sees, server
  <2>2. q.alone => CallOK(q)'
    <3> SUFFICES ASSUME q.alone PROVE CallOK(q)'
      OBVIOUS
    <3>1. CallOK(r) /\ r.alone
      BY <1>6 DEF ArviointiInv, CallsInv
    <3>2. q.o = r.o /\ q.h = r.h /\ q.kind = r.kind
      BY <1>6 DEF Like
    <3>3. v = r.data.arg
      BY <1>0, <1>2, <1>3, <3>1 DEF CallOK
    <3> QED BY <1>0, <1>2, <1>3, <1>6, <2>1, <3>1, <3>2, <3>3 DEF CallOK
  <2>3. \A p \in requests' : p = q \/ p \in requests
    BY <1>4
  <2> QED BY <2>1, <2>2, <2>3 DEF KeepsCalls, Like, Sees
<1> QED BY <1>2, <1>6, <1>7, <1>8, ServerStep DEF server

LEMMA StoreSettingStep ==
  ASSUME ArviointiInv, NEW r \in requests, StoreSetting(r)
  PROVE  ArviointiInv' /\ EndsAsShown
<1> DEFINE new0 == IF r.kind \notin ByOfficer THEN r.data.arg
                   ELSE IF r.data.arg THEN settings[r.h][r.kind] \cup {r.o}
                   ELSE settings[r.h][r.kind] \ {r.o}
           at0 == IF r.kind \in Reads THEN "written" ELSE "answered"
<1>0. PICK o, h, s, v, new, at, q :
        /\ o = r.o /\ h = r.h /\ s = r.kind /\ v = r.data.arg /\ new = new0 /\ at = at0
        /\ q = CallMoved(r, at, v)
  OBVIOUS
<1>1. RequestSet(requests) /\ RequestOK(r) /\ Typed
  BY DEF ArviointiInv, RequestSet
<1>2. /\ r.kind \in Settings /\ UNCHANGED <<arvio, changelog, store, used, mine, cause>>
      /\ settings' = [settings EXCEPT ![h][s] = new]
      /\ requests' = (requests \ {r}) \cup {[r EXCEPT !.at = at, !.data.result = v]}
  BY <1>0 DEF StoreSetting
<1>3. /\ o \in Officers /\ h \in Hakemukset /\ s \in Settings /\ v \in BOOLEAN
      /\ at = "answered" \/ (at = "written" /\ r.kind \in Reads)
  BY <1>0, <1>1, <1>2 DEF RequestOK, SettingOK, CallData
<1>4. requests' = (requests \ {r}) \cup {q}
  <2>1. [r EXCEPT !.at = at, !.data.result = v] = CallMoved(r, at, v)
    BY <1>1 DEF RequestOK, WithResult, CallMoved
  <2> QED BY <1>0, <1>2, <2>1
<1>5. /\ RequestSet(requests)' /\ KeepsSaves /\ CallsGoOn /\ RequestsStay
      /\ Like(q, r) /\ q.at = at /\ q.alone = r.alone
      /\ q.data.arg = r.data.arg /\ q.data.was = r.data.was /\ q.data.result = v
  <2>1. RequestSet(requests) /\ r.kind \in Settings /\ q = CallMoved(r, at, v)
    BY <1>0, <1>1, <1>2
  <2>2. v \in BOOLEAN
    BY <1>3
  <2>3. at = "answered" \/ (at = "written" /\ r.kind \in Reads)
    BY <1>3
  <2> QED BY ONLY r \in requests, <1>4, <2>1, <2>2, <2>3, CallMoves
<1>6. /\ settings' = [g \in Hakemukset |-> settings'[g]]
      /\ \A g \in Hakemukset : settings'[g] = [t \in Settings |-> settings'[g][t]]
      /\ \A g \in Hakemukset, t \in Settings :
           settings'[g][t] = IF g = h /\ t = s THEN new ELSE settings[g][t]
  <2> DEFINE row == [settings[h] EXCEPT ![s] = new]
  <2>1. settings' = [settings EXCEPT ![h] = row]
    BY <1>2
  <2>2. /\ settings = [g \in Hakemukset |-> settings[g]]
        /\ \A g \in Hakemukset : settings[g] = [t \in Settings |-> settings[g][t]]
    BY <1>1 DEF Typed
  <2>3. row = [t \in Settings |-> IF t = s THEN new ELSE settings[h][t]]
    BY <1>3, <2>2
  <2> HIDE DEF row
  <2>4. settings' = [g \in Hakemukset |-> IF g = h THEN row ELSE settings[g]]
    BY <1>3, <2>1, <2>2
  <2> QED BY <2>2, <2>3, <2>4
<1>7. /\ s \in ByOfficer => new \in SUBSET Officers /\ (v <=> o \in new)
      /\ s \notin ByOfficer => new = v
  <2>1. s \in ByOfficer => settings[h][s] \in SUBSET Officers
    BY <1>1, <1>3 DEF Typed
  <2>2. CASE s \in ByOfficer /\ v
    <3>1. new = settings[h][s] \cup {o}
      BY <1>0, <2>2
    <3> QED BY <1>3, <2>1, <2>2, <3>1
  <2>3. CASE s \in ByOfficer /\ ~ v
    <3>1. new = settings[h][s] \ {o}
      BY <1>0, <2>3
    <3> QED BY <1>3, <2>1, <2>3, <3>1
  <2>4. CASE s \notin ByOfficer
    BY <1>0, <2>4
  <2> QED BY <1>3, <2>2, <2>3, <2>4
<1>8. Typed'
  <2>1. \A g \in Hakemukset, t \in Settings :
          settings'[g][t] \in IF t \in ByOfficer THEN SUBSET Officers ELSE BOOLEAN
    <3> TAKE g \in Hakemukset, t \in Settings
    <3>1. CASE g = h /\ t = s
      BY <1>3, <1>6, <1>7, <3>1
    <3>2. CASE ~ (g = h /\ t = s)
      BY <1>1, <1>6, <3>2 DEF Typed
    <3> QED BY <3>1, <3>2
  <2> QED BY <1>1, <1>2, <1>6, <2>1 DEF Typed
<1>9. KeepsCalls
  <2>1. \A p, g : Sees(p, g)' = Sees(p, g)
    BY <1>2 DEF Sees
  <2>2. ASSUME q.alone PROVE CallOK(q)'
    <3>1. CallOK(r) /\ r.alone
      BY <1>5, <2>2 DEF ArviointiInv, CallsInv
    <3>2. q.o = o /\ q.h = h /\ q.kind = s
      BY <1>0, <1>5 DEF Like
    <3>3. (Held(o, h, s))' = v
      <4>1. CASE s \in ByOfficer
        <5>1. (Held(o, h, s))' = (o \in settings'[h][s])
          BY <1>3, <4>1 DEF Held, View
        <5>2. (o \in settings'[h][s]) = (o \in new)
          BY <1>3, <1>6
        <5>3. (o \in new) = v
          BY <1>3, <1>7, <4>1
        <5> QED BY ONLY <5>1, <5>2, <5>3
      <4>2. CASE s \notin ByOfficer
        BY <1>3, <1>6, <1>7, <4>2 DEF Held, View
      <4> QED BY <4>1, <4>2
    <3> QED BY <1>0, <1>2, <1>5, <2>1, <3>1, <3>2, <3>3 DEF CallOK
  <2>3. ASSUME NEW p \in requests, p # r, p.kind \in Settings, p.alone
        PROVE  Held(p.o, p.h, p.kind)' = Held(p.o, p.h, p.kind)
    <3>1. p.h \in Hakemukset /\ ~ Spoils(p.o, p.kind, p.h, r)
      BY <1>1, <2>3 DEF RequestSet, RequestOK, SettingOK
    <3>2. settings'[p.h][p.kind] = settings[p.h][p.kind]
      BY <1>0, <1>6, <2>3, <3>1 DEF Spoils
    <3> QED BY <2>3, <3>2 DEF Held, View
  <2>4. \A p \in requests' : p = q \/ (p \in requests /\ p # r)
    BY <1>4
  <2> QED BY <2>1, <2>2, <2>3, <2>4 DEF KeepsCalls, Like, Sees
<1> QED BY <1>2, <1>5, <1>8, <1>9, ServerStep

-----------------------------------------------------------------------------
(* The invariant holds *)

LEMMA InitInv == Init => ArviointiInv
<1> SUFFICES ASSUME Init PROVE ArviointiInv
  OBVIOUS
<1>1. /\ arvio = [h \in Hakemukset |-> NoArvio] /\ requests = {}
      /\ changelog = [h \in Hakemukset |-> <<>>] /\ settings = [h \in Hakemukset |-> NoSettings]
      /\ used = [acts |-> 0, edits |-> 1, faults |-> 0]
      /\ mine = [o \in Officers |-> [h \in Hakemukset |-> NoArvio]]
      /\ cause = [o \in Officers |-> [h \in Hakemukset |-> {}]]
  BY DEF Init
<1>2. NoArvio \in ArvioRow /\ NoArvio["status"] = 0 /\ \A k \in Keys : NoArvio[k] = 0
  BY DEF NoArvio, ArvioRow, Keys
<1>3. /\ NoSettings = [s \in Settings |-> NoSettings[s]]
      /\ \A s \in Settings : NoSettings[s] \in IF s \in ByOfficer THEN SUBSET Officers ELSE BOOLEAN
      /\ \A o \in Officers : View(o, NoSettings) \in [Settings -> BOOLEAN]
  <2>1. \A s \in Settings : NoSettings[s] = IF s \in ByOfficer THEN {} ELSE FALSE
    BY DEF NoSettings
  <2>2. \A o \in Officers : View(o, NoSettings) \in [Settings -> BOOLEAN]
    <3> TAKE o \in Officers
    <3>1. \A s \in Settings :
            (IF s \in ByOfficer THEN o \in NoSettings[s] ELSE NoSettings[s]) \in BOOLEAN
      <4> TAKE s \in Settings
      <4>1. (o \in NoSettings[s]) \in BOOLEAN
        OBVIOUS
      <4>2. CASE s \in ByOfficer
        BY <4>1, <4>2
      <4>3. CASE s \notin ByOfficer
        BY <2>1, <4>3
      <4> QED BY <4>2, <4>3
    <3> QED BY <3>1 DEF View
  <2> QED BY <2>1, <2>2 DEF NoSettings
<1> DEFINE page(o) == [data |-> "loaded",
                       hakemukset |-> [h \in Hakemukset |-> Plain(o, NoArvio, NoSettings)],
                       selected |-> NoHakemus, loadingHakemusId |-> NoHakemus, timer |-> NoHakemus,
                       saveStatus |-> ""]
<1>4. store = [o \in Officers |-> page(o)]
  BY DEF Init
<1>5. \A o \in Officers : page(o) \in Store
  <2> TAKE o \in Officers
  <2>1. Plain(o, NoArvio, NoSettings) \in Shown
    BY <1>2, <1>3 DEF Plain, Shown, ArvioRow
  <2> QED BY <2>1 DEF Store
<1>6. \A o \in Officers : /\ page(o).data = "loaded" /\ page(o).saveStatus = ""
                          /\ \A h \in Hakemukset : page(o).hakemukset[h].arvio = NoArvio
  BY DEF Plain
<1> HIDE DEF page
<1>7. /\ store \in [Officers -> Store]
      /\ \A o \in Officers : /\ store[o].data = "loaded" /\ store[o].saveStatus = ""
                             /\ \A h \in Hakemukset : store[o].hakemukset[h].arvio = NoArvio
  BY <1>4, <1>5, <1>6
<1>8. Typed
  <2>1. used \in [acts : Nat, edits : Nat, faults : Nat]
    BY <1>1
  <2>2. /\ settings = [h \in Hakemukset |-> settings[h]]
        /\ \A h \in Hakemukset : settings[h] = NoSettings
    BY <1>1
  <2> QED BY <1>1, <1>2, <1>3, <1>7, <2>1, <2>2 DEF Typed
<1>9. RequestSet(requests)
  BY <1>1, FS_EmptySet DEF RequestSet
<1>10. ChangesInv
  <2>1. Chain(<<>>, 0)
    BY DEF Chain
  <2>2. \A h \in Hakemukset : changelog[h] = <<>> /\ arvio[h]["status"] = 0
    BY <1>1, <1>2
  <2> QED BY <1>1, <2>1, <2>2 DEF ChangesInv
<1>11. \A o \in Officers, h \in Hakemukset : ~ Lacks(o, h, NoArvio)
  BY <1>1, <1>2 DEF Lacks
<1>12. NothingElseIsLost
  BY <1>1, <1>7, <1>11 DEF NothingElseIsLost
<1>13. UnsavedIsAwaited
  BY <1>1, <1>11 DEF UnsavedIsAwaited
<1>14. SavingHasAReason
  BY <1>7 DEF SavingHasAReason
<1>15. CallsInv
  BY <1>1 DEF CallsInv
<1> QED BY <1>8, <1>9, <1>10, <1>12, <1>13, <1>14, <1>15 DEF ArviointiInv

\* The editors of the open application.
LEMMA EditOpenStep ==
  ASSUME ArviointiInv, NEW o \in Officers, NEW k \in Keys, EditOpen(o, k)
  PROVE  ArviointiInv' /\ EndsAsShown
<1>1. PICK h \in Hakemukset : EditArvio(o, h, k)
  <2>1. store[o].selected \in Hakemukset
    BY PageTyped DEF EditOpen, ArviointiInv, Named
  <2> QED BY <2>1 DEF EditOpen
<1> QED BY <1>1, EditArvioStep

LEMMA OfficerStep ==
  ASSUME ArviointiInv, NEW o \in Officers, Officer(o)
  PROVE  ArviointiInv' /\ EndsAsShown
<1>1. {"status", "others", "overridden-answers", "presenter-role-id"} \subseteq Keys
  BY DEF Keys
<1>2. \/ EditOpen(o, "status") \/ EditOpen(o, "others") \/ EditOpen(o, "overridden-answers")
      \/ \E h \in Hakemukset : EditArvio(o, h, "presenter-role-id") \/ SelectHakemus(o, h)
      \/ UpdateHakemukset(o)
      \/ FetchAvustushakuInfo(o)
      \/ \E s \in Settings : ChangeSetting(o, s)
  BY DEF Officer, SetArviointiStatus, TalousarviotiliSelect, SummaryComment, Perustelut,
         PresenterComment, SpecifyOppilaitos, AcademySize, ShouldPay, ShouldPayComments,
         AllowVisibilityInExternalSystem, SeurantaBudgetEditing, SeurantaTags,
         HakemusBudgetEditing, TraineeDayEditing, SelectPerson, ProjectSelect, StarElement,
         KeskeytaAloittamatta, ChangeRequest, HakemusComments, ApplicationPayments, Settings
<1>3. CASE EditOpen(o, "status") \/ EditOpen(o, "others") \/ EditOpen(o, "overridden-answers")
  BY <1>1, <1>3, EditOpenStep
<1>4. CASE \E h \in Hakemukset : EditArvio(o, h, "presenter-role-id") \/ SelectHakemus(o, h)
  BY <1>1, <1>4, EditArvioStep, SelectHakemusStep
<1>5. CASE UpdateHakemukset(o)
  BY <1>5, UpdateHakemuksetStep
<1>6. CASE FetchAvustushakuInfo(o)
  BY <1>6, FetchAvustushakuInfoStep
<1>7. CASE \E s \in Settings : ChangeSetting(o, s)
  BY <1>7, ChangeSettingStep
<1> QED BY <1>2, <1>3, <1>4, <1>5, <1>6, <1>7

LEMMA NextInv == ArviointiInv /\ [Next]_vars => ArviointiInv' /\ [EndsAsShown]_vars
<1> SUFFICES ASSUME ArviointiInv, [Next]_vars PROVE ArviointiInv' /\ [EndsAsShown]_vars
  OBVIOUS
<1>1. ASSUME NEW o \in Officers, Officer(o) \/ AutoSave(o) PROVE ArviointiInv' /\ EndsAsShown
  BY <1>1, OfficerStep, AutoSaveStep
<1>2. ASSUME NEW r \in requests, Progress(r) PROVE ArviointiInv' /\ EndsAsShown
  <2>1. CASE ReadExisting(r)
    BY <2>1, ReadExistingStep
  <2>2. CASE UpsertArvio(r)
    BY <2>2, UpsertArvioStep
  <2>3. CASE ArvioSaved(r)
    BY <2>3, ArvioSavedStep
  <2>4. CASE ReadHakuData(r)
    BY <2>4, ReadHakuDataStep
  <2>5. CASE MutateDefaults(r)
    BY <2>5, MutateDefaultsStep
  <2>6. CASE HakemusSelected(r)
    BY <2>6, HakemusSelectedStep
  <2>7. CASE HakemusSelectedTooLate(r)
    BY <2>7, HakemusSelectedTooLateStep
  <2>8. CASE HakemuksetUpdated(r)
    BY <2>8, HakemuksetUpdatedStep
  <2>9. CASE OtherGrantReceived(r)
    BY <2>9, OtherGrantReceivedStep
  <2>10. CASE StoreSetting(r)
    BY <2>10, StoreSettingStep
  <2>11. CASE ReadSetting(r)
    BY <2>11, ReadSettingStep
  <2>12. CASE SettingStored(r)
    BY <2>12, SettingStoredStep
  <2> QED BY <1>2, <2>1, <2>2, <2>3, <2>4, <2>5, <2>6, <2>7, <2>8, <2>9, <2>10, <2>11, <2>12
          DEF Progress
<1>3. ASSUME NEW r \in requests, Fault(r) PROVE ArviointiInv' /\ EndsAsShown
  BY <1>3, ArvioRejectedStep, LoadRejectedStep, SettingRejectedStep DEF Fault
<1>4. CASE UNCHANGED vars
  <2>1. UNCHANGED <<server, store, mine, cause, requests, used>>
    BY <1>4 DEF vars, server
  <2>2. ArviointiInv'
    <3>1. UNCHANGED <<arvio, changelog, settings, store, mine, cause, requests, used>>
      BY <2>1 DEF server
    <3>2. Typed' /\ RequestSet(requests)' /\ ChangesInv'
      BY <3>1 DEF ArviointiInv, Typed, RequestSet, ChangesInv
    <3>3. NothingElseIsLost' /\ UnsavedIsAwaited' /\ SavingHasAReason'
      BY <3>1 DEF ArviointiInv, NothingElseIsLost, Left, Lacks, UnsavedIsAwaited, Awaited,
                  SavingHasAReason
    <3>4. CallsInv'
      BY <3>1 DEF ArviointiInv, CallsInv, CallOK, Sees, Held, View
    <3> QED BY <3>2, <3>3, <3>4 DEF ArviointiInv
  <2> QED BY <1>4, <2>2
<1> QED BY <1>1, <1>2, <1>3, <1>4 DEF Next

THEOREM Invariance == Spec => []ArviointiInv
<1>1. Init => ArviointiInv
  BY InitInv
<1>2. ArviointiInv /\ [Next]_vars => ArviointiInv'
  BY NextInv
<1> QED BY <1>1, <1>2, PTL DEF Spec

LEMMA InvTypes == ArviointiInv => TypeOK
<1> SUFFICES ASSUME ArviointiInv PROVE TypeOK
  OBVIOUS
<1>1. changelog \in [Hakemukset -> Seq(Nat \X Nat)]
  BY DEF ArviointiInv, ChangesInv, Chain, Change
<1> QED BY <1>1 DEF TypeOK, ArviointiInv, Typed, ArvioRow

\* What pages, requests and rows are.
THEOREM Typing == Spec => []TypeOK
BY InvTypes, Invariance, PTL

\* What an officer last gave for an application is stored, once nothing is under way for it
\* and the page shows no error, unless one of the six known causes occurred.
THEOREM LossesHaveACause == Spec => []LossHasACause
<1>1. ArviointiInv => LossHasACause
  <2> SUFFICES ASSUME ArviointiInv, NEW o \in Officers, NEW h \in Hakemukset,
                      store[o].timer # h, Of(o, "arvio", h) = {},
                      store[o].saveStatus # "error", cause[o][h] = {}, Unsaved(o, h)
               PROVE  FALSE
    BY DEF LossHasACause
  <2>1. Awaited(o, h)
    BY DEF ArviointiInv, UnsavedIsAwaited, Unsaved
  <2> QED BY <2>1 DEF Awaited, AtServer, Of
<1> QED BY <1>1, Invariance, PTL

\* The changes recorded with an evaluation follow each other and end in its status.
THEOREM ChangelogTells == Spec => []ChangelogTellsStatus
<1>1. ArviointiInv => ChangelogTellsStatus
  BY DEF ArviointiInv, ChangesInv, Chain, ChangelogTellsStatus
<1> QED BY <1>1, Invariance, PTL

\* A page that says it is saving has a delay or a request that will change what it says,
\* unless its grant was left.
THEOREM SavingEnds == Spec => []SavingHasAReason
<1>1. ArviointiInv => SavingHasAReason
  BY DEF ArviointiInv
<1> QED BY <1>1, Invariance, PTL

\* A call that met no other shows, when it ends, what the server stores, and what was shown
\* before when it fails.
THEOREM CallsEnd == Spec => CallsEndAsShown
<1>1. ArviointiInv /\ [Next]_vars => [EndsAsShown]_vars
  BY NextInv
<1>2. [EndsAsShown]_vars <=>
        [\A r \in requests :
           r.kind \in Settings /\ r.alone /\ Loaded(r.o) /\ ~(\E q \in requests' : q.id = r.id)
           => LET held == store'[r.o].hakemukset[r.h].settings[r.kind]
              IN held = IF used'.faults > used.faults THEN r.data.was
                         ELSE View(r.o, settings[r.h])[r.kind]]_vars
  BY DEF EndsAsShown
<1> QED BY <1>1, <1>2, Invariance, PTL DEF Spec, CallsEndAsShown

KoodiRow == [state : {"none", "live", "deleted"}, value : Arvot, hidden : BOOLEAN]
KoodiForm == [first : Arvot, now : Arvot, submitted : BOOLEAN]

\* A list of the page: some identities, each with a value and a visibility.
ListOK(list) ==
  /\ DOMAIN list \subseteq Koodit
  /\ \A i \in DOMAIN list : list[i].value \in Arvot /\ list[i].hidden \in BOOLEAN

\* A request has these fields, what its kind needs, and looks at uses if it deletes.
KoodiCallOK(c) ==
  /\ c = [kind |-> c.kind, id |-> c.id, value |-> c.value, at |-> c.at, list |-> c.list]
  /\ c.kind \in {"update", "delete", "visibility"} => c.id \in Koodit
  /\ c.kind \in {"create", "update"} => c.value \in Arvot
  /\ c.kind = "visibility" => c.value \in BOOLEAN
  /\ c.at \in {"checked", "marked"} => c.kind = "delete"
  /\ c.kind = "list" /\ c.at = "ok" => ListOK(c.list)

KoodiTyped ==
  /\ koodit \in [Koodit -> KoodiRow]
  /\ rivit \in [Koodit -> KoodiForm]
  /\ uses \subseteq Haut \X Koodit
  /\ useTx \subseteq Haut \X Koodit
  /\ editing \in Koodit \cup {NoKoodi}
  /\ ListOK(lista)

CallsOK == \A c \in koodiCalls : KoodiCallOK(c)

\* A use is of something that is neither deleted nor about to be, or the two crossed.
UsesExistOrCrossed ==
  \A i \in UsedBy(uses) : koodit[i].state = "deleted" \/ i \in BeingDeleted => i \in crossed

CodesInv == KoodiTyped /\ CallsOK /\ UsesExistOrCrossed

-----------------------------------------------------------------------------

\* A request that goes on is a request, and is deleting only if it was or has looked at the uses.
LEMMA CallGoesOn ==
  ASSUME NEW c, KoodiCallOK(c), c.kind # "list", NEW at,
         at \in {"checked", "marked"} => c.kind = "delete"
  PROVE  /\ KoodiCallOK([c EXCEPT !.at = at])
         /\ [c EXCEPT !.at = at].id = c.id /\ [c EXCEPT !.at = at].at = at
<1> DEFINE d == [kind |-> c.kind, id |-> c.id, value |-> c.value, at |-> at, list |-> c.list]
<1>1. [c EXCEPT !.at = at] = d
  BY DEF KoodiCallOK
<1>2. KoodiCallOK(d)
  BY DEF KoodiCallOK
<1> QED BY <1>1, <1>2

LEMMA NewCall ==
  ASSUME NEW kind \in Mutations, NEW i, NEW v,
         kind \in {"update", "delete", "visibility"} => i \in Koodit,
         kind \in {"create", "update"} => v \in Arvot,
         kind = "visibility" => v \in BOOLEAN
  PROVE  KoodiCallOK(KoodiCall(kind, i, v)) /\ KoodiCall(kind, i, v).at = "sent"
BY DEF KoodiCall, KoodiCallOK, Mutations

\* Uses, rows and what was crossed being as they were, requests may come that have not looked, and
\* any may go.
LEMMA CallsComeAndGo ==
  ASSUME CodesInv, KoodiTyped', CallsOK', UNCHANGED <<koodit, uses, crossed>>,
         \A c \in koodiCalls' : c.at \in {"checked", "marked"} => c.id \in BeingDeleted
  PROVE  CodesInv'
<1>1. BeingDeleted' \subseteq BeingDeleted
  BY DEF BeingDeleted
<1>2. UsesExistOrCrossed'
  BY <1>1 DEF CodesInv, UsesExistOrCrossed, UsedBy
<1> QED BY <1>2 DEF CodesInv

\* The same when a request comes.
LEMMA CallComes ==
  ASSUME CodesInv, KoodiTyped', UNCHANGED <<koodit, uses, crossed>>,
         NEW c, KoodiCallOK(c), c.at = "sent", koodiCalls' = koodiCalls \cup {c}
  PROVE  CodesInv'
<1>1. CallsOK'
  BY DEF CodesInv, CallsOK
<1>2. \A d \in koodiCalls' : d.at \in {"checked", "marked"} => d.id \in BeingDeleted
  BY DEF BeingDeleted
<1> QED BY <1>1, <1>2, CallsComeAndGo

\* The same when one goes.
LEMMA CallGoes ==
  ASSUME CodesInv, KoodiTyped', UNCHANGED <<koodit, uses, crossed>>,
         NEW c \in koodiCalls, koodiCalls' = koodiCalls \ {c}
  PROVE  CodesInv'
<1>1. CallsOK'
  BY DEF CodesInv, CallsOK
<1>2. \A d \in koodiCalls' : d.at \in {"checked", "marked"} => d.id \in BeingDeleted
  BY DEF BeingDeleted
<1> QED BY <1>1, <1>2, CallsComeAndGo

-----------------------------------------------------------------------------
(* The acts of the officer                                                   *)

LEMMA InitEstablishes ==
  ASSUME KoodiInit
  PROVE  CodesInv
<1> DEFINE first == CHOOSE f \in [1..2 -> Arvot] : f[1] # f[2]
<1>1. first[1] \in Arvot /\ first[2] \in Arvot
  <2>1. PICK v \in Arvot, w \in Arvot : v # w
    BY ArvotAssumption
  <2> DEFINE g == [n \in 1..2 |-> IF n = 1 THEN v ELSE w]
  <2>2. g \in [1..2 -> Arvot] /\ g[1] = v /\ g[2] = w
    OBVIOUS
  <2> HIDE DEF g
  <2>3. \E f \in [1..2 -> Arvot] : f[1] # f[2]
    BY <2>1, <2>2
  <2>4. first \in [1..2 -> Arvot]
    BY <2>3
  <2> QED BY <2>4
<1>2. koodit = [i \in Koodit |-> [state |-> IF i <= 2 THEN "live" ELSE "none",
                                  value |-> first[IF i <= 2 THEN i ELSE 1], hidden |-> FALSE]]
  BY DEF KoodiInit
<1> HIDE DEF first
<1>3. koodit \in [Koodit -> KoodiRow]
  <2> SUFFICES ASSUME NEW i \in Koodit
               PROVE  [state |-> IF i <= 2 THEN "live" ELSE "none",
                       value |-> first[IF i <= 2 THEN i ELSE 1], hidden |-> FALSE] \in KoodiRow
    BY <1>2
  <2>1. i <= 2 => i \in {1, 2}
    BY DEF Koodit
  <2> QED BY <1>1, <2>1 DEF KoodiRow
<1>4. rivit \in [Koodit -> KoodiForm]
  BY <1>3 DEF KoodiInit, KoodiForm, KoodiRow
<1>5. ListOK(lista)
  BY DEF KoodiInit, ListOK
<1>6. CodesInv
  BY <1>3, <1>4, <1>5 DEF KoodiInit, CodesInv, KoodiTyped, CallsOK, UsesExistOrCrossed, UsedBy
<1> QED BY <1>6

LEMMA OfficerPreserves ==
  ASSUME CodesInv,
         \/ \E i \in Koodit : EditTili(i) \/ SubmitTili(i) \/ Delete(i) \/ SetCodeVisibility(i)
         \/ \E i \in Koodit, v \in Arvot : TypeTili(i, v)
         \/ \E v \in Arvot : SubmitNew(v)
  PROVE  CodesInv'
<1> USE DEF CodesInv
<1>1. ASSUME NEW i \in Koodit, EditTili(i)
      PROVE  CodesInv'
  <2>1. rivit' \in [Koodit -> KoodiForm]
    BY <1>1 DEF EditTili, KoodiTyped, KoodiForm
  <2>2. KoodiTyped'
    BY <1>1, <2>1 DEF EditTili, KoodiTyped
  <2>3. CallsOK' /\ BeingDeleted' = BeingDeleted
    BY <1>1 DEF EditTili, CallsOK, BeingDeleted
  <2> QED BY <1>1, <2>2, <2>3 DEF EditTili, UsesExistOrCrossed, UsedBy
<1>2. ASSUME NEW i \in Koodit, NEW v \in Arvot, TypeTili(i, v)
      PROVE  CodesInv'
  <2>1. rivit' \in [Koodit -> KoodiForm]
    BY <1>2 DEF TypeTili, KoodiTyped, KoodiForm
  <2>2. KoodiTyped'
    BY <1>2, <2>1 DEF TypeTili, KoodiTyped
  <2>3. CallsOK' /\ BeingDeleted' = BeingDeleted
    BY <1>2 DEF TypeTili, CallsOK, BeingDeleted
  <2> QED BY <1>2, <2>2, <2>3 DEF TypeTili, UsesExistOrCrossed, UsedBy
<1>3. ASSUME NEW i \in Koodit, SubmitTili(i)
      PROVE  CodesInv'
  <2>1. rivit' \in [Koodit -> KoodiForm] /\ rivit[i].now \in Arvot
    BY <1>3 DEF SubmitTili, KoodiTyped, KoodiForm
  <2>2. KoodiTyped'
    BY <1>3, <2>1 DEF SubmitTili, KoodiTyped
  <2>3. KoodiCallOK(KoodiCall("update", i, rivit[i].now)) /\ KoodiCall("update", i, rivit[i].now).at = "sent"
    BY <2>1, NewCall DEF Mutations
  <2> QED BY <1>3, <2>2, <2>3, CallComes DEF SubmitTili
<1>4. ASSUME NEW v \in Arvot, SubmitNew(v)
      PROVE  CodesInv'
  <2>1. KoodiTyped'
    BY <1>4 DEF SubmitNew, KoodiTyped
  <2>2. KoodiCallOK(KoodiCall("create", NoKoodi, v)) /\ KoodiCall("create", NoKoodi, v).at = "sent"
    BY NewCall DEF Mutations
  <2> QED BY <1>4, <2>1, <2>2, CallComes DEF SubmitNew
<1>5. ASSUME NEW i \in Koodit, Delete(i)
      PROVE  CodesInv'
  <2>1. KoodiTyped'
    BY <1>5 DEF Delete, KoodiTyped
  <2>2. KoodiCallOK(KoodiCall("delete", i, koodiUsed.acts)) /\ KoodiCall("delete", i, koodiUsed.acts).at = "sent"
    BY NewCall DEF Mutations
  <2> QED BY <1>5, <2>1, <2>2, CallComes DEF Delete
<1>6. ASSUME NEW i \in Koodit, SetCodeVisibility(i)
      PROVE  CodesInv'
  <2>1. KoodiTyped'
    BY <1>6 DEF SetCodeVisibility, KoodiTyped
  <2>2. (~lista[i].hidden) \in BOOLEAN
    OBVIOUS
  <2>3. KoodiCallOK(KoodiCall("visibility", i, ~lista[i].hidden))
        /\ KoodiCall("visibility", i, ~lista[i].hidden).at = "sent"
    BY <2>2, NewCall DEF Mutations
  <2> QED BY <1>6, <2>1, <2>3, CallComes DEF SetCodeVisibility
<1> QED BY <1>1, <1>2, <1>3, <1>4, <1>5, <1>6

-----------------------------------------------------------------------------
(* The server                                                                *)

\* A request goes on and does not come to look at the uses: none is added to those being deleted.
LEMMA BecomesPreserves ==
  ASSUME CodesInv, KoodiTyped', UNCHANGED <<uses, crossed>>,
         NEW c \in koodiCalls, c.kind # "list", NEW at, Becomes(c, at),
         at \in {"checked", "marked"} => c.kind = "delete" /\ c.id \in BeingDeleted,
         \A i \in Koodit : koodit'[i].state = "deleted" =>
           koodit[i].state = "deleted" \/ i \in BeingDeleted
  PROVE  CodesInv'
<1> DEFINE d == [c EXCEPT !.at = at]
<1>1. KoodiCallOK(d) /\ d.id = c.id /\ d.at = at
  BY CallGoesOn DEF CodesInv, CallsOK
<1>2. koodiCalls' = (koodiCalls \ {c}) \cup {d}
  BY DEF Becomes
<1> HIDE DEF d
<1>3. CallsOK'
  BY <1>1, <1>2 DEF CodesInv, CallsOK
<1>4. BeingDeleted' \subseteq BeingDeleted
  BY <1>1, <1>2 DEF BeingDeleted
<1>5. UsedBy(uses) \subseteq Koodit
  BY DEF UsedBy, CodesInv, KoodiTyped
<1>6. UsesExistOrCrossed'
  BY <1>4, <1>5 DEF CodesInv, UsesExistOrCrossed, UsedBy
<1> QED BY <1>3, <1>6 DEF CodesInv

\* Rows being as they were, or written without being deleted.
LEMMA ServedPreserves ==
  ASSUME CodesInv, NEW c \in koodiCalls,
         CreateKoodi(c) \/ UpdateKoodi(c) \/ EditVisibility(c)
  PROVE  CodesInv'
<1> USE DEF CodesInv
<1>1. KoodiCallOK(c)
  BY DEF CallsOK
<1>2. ASSUME CreateKoodi(c)
      PROVE  CodesInv'
  <2>1. CASE UNCHANGED koodit
    <3>1. KoodiTyped' /\ c.kind = "create" /\ \E at \in {"taken", "ok"} : Becomes(c, at)
      BY <1>2, <2>1 DEF CreateKoodi, KoodiTyped
    <3> QED BY <1>2, <2>1, <3>1, BecomesPreserves DEF CreateKoodi
  <2>2. CASE \E i \in Koodit : koodit' = [koodit EXCEPT ![i] = [state |-> "live", value |-> c.value, hidden |-> FALSE]]
    <3>1. PICK i \in Koodit : koodit' = [koodit EXCEPT ![i] = [state |-> "live", value |-> c.value, hidden |-> FALSE]]
      BY <2>2
    <3>2. c.kind = "create" /\ c.value \in Arvot
      BY <1>1, <1>2 DEF CreateKoodi, KoodiCallOK
    <3>3. koodit' \in [Koodit -> KoodiRow]
      BY <3>1, <3>2 DEF KoodiTyped, KoodiRow
    <3>4. KoodiTyped' /\ \E at \in {"taken", "ok"} : Becomes(c, at)
      BY <1>2, <3>3 DEF CreateKoodi, KoodiTyped
    <3>5. \A j \in Koodit : koodit'[j].state = "deleted" => koodit[j].state = "deleted"
      BY <3>1 DEF KoodiTyped
    <3> QED BY <1>2, <3>2, <3>4, <3>5, BecomesPreserves DEF CreateKoodi
  <2>3. UNCHANGED koodit \/ \E i \in Koodit :
          koodit' = [koodit EXCEPT ![i] = [state |-> "live", value |-> c.value, hidden |-> FALSE]]
    BY <1>2 DEF CreateKoodi
  <2> QED BY <2>1, <2>2, <2>3
<1>3. ASSUME UpdateKoodi(c)
      PROVE  CodesInv'
  <2>1. c.kind = "update" /\ c.id \in Koodit /\ c.value \in Arvot /\ \E at \in {"taken", "ok"} : Becomes(c, at)
    BY <1>1, <1>3 DEF UpdateKoodi, KoodiCallOK
  <2>2. koodit' = koodit \/ koodit' = [koodit EXCEPT ![c.id].value = c.value]
    BY <1>3 DEF UpdateKoodi
  <2>3. koodit' \in [Koodit -> KoodiRow]
    BY <2>1, <2>2 DEF KoodiTyped, KoodiRow
  <2>4. \A j \in Koodit : koodit'[j].state = koodit[j].state
    BY <2>1, <2>2 DEF KoodiTyped, KoodiRow
  <2>5. KoodiTyped'
    BY <1>3, <2>3 DEF UpdateKoodi, KoodiTyped
  <2> QED BY <1>3, <2>1, <2>4, <2>5, BecomesPreserves DEF UpdateKoodi
<1>4. ASSUME EditVisibility(c)
      PROVE  CodesInv'
  <2>1. c.kind = "visibility" /\ c.id \in Koodit /\ c.value \in BOOLEAN /\ Becomes(c, "ok")
    BY <1>1, <1>4 DEF EditVisibility, KoodiCallOK
  <2>2. koodit' = [koodit EXCEPT ![c.id].hidden = c.value]
    BY <1>4 DEF EditVisibility
  <2>3. koodit' \in [Koodit -> KoodiRow]
    BY <2>1, <2>2 DEF KoodiTyped, KoodiRow
  <2>4. \A j \in Koodit : koodit'[j].state = koodit[j].state
    BY <2>1, <2>2 DEF KoodiTyped, KoodiRow
  <2>5. KoodiTyped'
    BY <1>4, <2>3 DEF EditVisibility, KoodiTyped
  <2> QED BY <1>4, <2>1, <2>4, <2>5, BecomesPreserves DEF EditVisibility
<1> QED BY <1>2, <1>3, <1>4

\* A deletion looks at the uses, is marked, and is committed.
LEMMA DeletionPreserves ==
  ASSUME CodesInv, NEW c \in koodiCalls,
         IsUsed(c) \/ MarkDeleted(c) \/ CommitDeleted(c)
  PROVE  CodesInv'
<1> USE DEF CodesInv
<1>1. KoodiCallOK(c) /\ c.kind = "delete" /\ c.id \in Koodit
  BY DEF CallsOK, KoodiCallOK, IsUsed, MarkDeleted, CommitDeleted
<1>2. ASSUME IsUsed(c)
      PROVE  CodesInv'
  <2>1. KoodiTyped'
    BY <1>2 DEF IsUsed, KoodiTyped
  <2> DEFINE at == IF c.id \in UsedBy(uses) THEN "used" ELSE "checked"
             d == [c EXCEPT !.at = at]
  <2>2. KoodiCallOK(d) /\ d.id = c.id /\ d.at = at
    BY <1>1, CallGoesOn
  <2>3. koodiCalls' = (koodiCalls \ {c}) \cup {d}
    BY <1>2 DEF IsUsed, Becomes
  <2>4. CallsOK'
    <3> HIDE DEF d
    <3> QED BY <2>2, <2>3 DEF CallsOK
  <2>5. \A i \in BeingDeleted' : i \in BeingDeleted \/ i \notin UsedBy(uses)
    <3>1. at \in {"checked", "marked"} => c.id \notin UsedBy(uses)
      OBVIOUS
    <3> HIDE DEF d, at
    <3> QED BY <2>2, <2>3, <3>1 DEF BeingDeleted
  <2>6. UsesExistOrCrossed'
    BY <1>2, <2>5 DEF IsUsed, UsesExistOrCrossed, UsedBy
  <2> QED BY <2>1, <2>4, <2>6
<1>3. ASSUME MarkDeleted(c)
      PROVE  CodesInv'
  <2>1. KoodiTyped' /\ UNCHANGED <<koodit, uses, crossed>> /\ \E at \in {"refused", "marked"} : Becomes(c, at)
    BY <1>3 DEF MarkDeleted, KoodiTyped
  <2>2. c.id \in BeingDeleted
    BY <1>3 DEF MarkDeleted, BeingDeleted
  <2> QED BY <1>1, <2>1, <2>2, BecomesPreserves
<1>4. ASSUME CommitDeleted(c)
      PROVE  CodesInv'
  <2>1. koodit' = [koodit EXCEPT ![c.id].state = "deleted"]
    BY <1>4 DEF CommitDeleted
  <2>2. koodit' \in [Koodit -> KoodiRow]
    BY <1>1, <2>1 DEF KoodiTyped, KoodiRow
  <2>3. c.id \in BeingDeleted
    BY <1>4 DEF CommitDeleted, BeingDeleted
  <2>4. \A i \in Koodit : koodit'[i].state = "deleted" => koodit[i].state = "deleted" \/ i \in BeingDeleted
    BY <2>1, <2>3 DEF KoodiTyped, KoodiRow
  <2>5. KoodiTyped' /\ UNCHANGED <<uses, crossed>> /\ Becomes(c, "ok")
    BY <1>4, <2>2 DEF CommitDeleted, KoodiTyped
  <2> QED BY <1>1, <2>4, <2>5, BecomesPreserves
<1> QED BY <1>2, <1>3, <1>4

\* A use is committed while a deletion is under way only if the two are said to have crossed.
LEMMA UsePreserves ==
  ASSUME CodesInv,
         \/ \E h \in Haut, i \in Koodit : TakeInUse(h, i)
         \/ \E u \in useTx : CommitUse(u)
         \/ \E u \in uses : ReleaseUse(u)
  PROVE  CodesInv'
<1> USE DEF CodesInv
<1>1. ASSUME NEW h \in Haut, NEW i \in Koodit, TakeInUse(h, i)
      PROVE  CodesInv'
  <2>1. KoodiTyped'
    BY <1>1 DEF TakeInUse, KoodiTyped
  <2>2. CallsOK' /\ BeingDeleted' = BeingDeleted
    BY <1>1 DEF TakeInUse, CallsOK, BeingDeleted
  <2> QED BY <1>1, <2>1, <2>2 DEF TakeInUse, UsesExistOrCrossed, UsedBy
<1>2. ASSUME NEW u \in useTx, CommitUse(u)
      PROVE  CodesInv'
  <2>1. KoodiTyped'
    BY <1>2 DEF CommitUse, KoodiTyped
  <2>2. CallsOK' /\ BeingDeleted' = BeingDeleted
    BY <1>2 DEF CommitUse, CallsOK, BeingDeleted
  <2>3. \A i \in UsedBy(uses)' : i \in UsedBy(uses) \/ i = u[2]
    BY <1>2 DEF CommitUse, UsedBy
  <2>4. crossed \subseteq crossed'
        /\ (koodit[u[2]].state = "deleted" \/ u[2] \in BeingDeleted => u[2] \in crossed')
    BY <1>2 DEF CommitUse
  <2>5. koodit' = koodit
    BY <1>2 DEF CommitUse
  <2>6. UsesExistOrCrossed'
    BY <2>2, <2>3, <2>4, <2>5 DEF UsesExistOrCrossed
  <2> QED BY <2>1, <2>2, <2>6
<1>3. ASSUME NEW u \in uses, ReleaseUse(u)
      PROVE  CodesInv'
  <2>1. KoodiTyped'
    BY <1>3 DEF ReleaseUse, KoodiTyped
  <2>2. CallsOK' /\ BeingDeleted' = BeingDeleted
    BY <1>3 DEF ReleaseUse, CallsOK, BeingDeleted
  <2> QED BY <1>3, <2>1, <2>2 DEF ReleaseUse, UsesExistOrCrossed, UsedBy
<1> QED BY <1>1, <1>2, <1>3

-----------------------------------------------------------------------------
(* The answers                                                               *)

LEMMA AnswersPreserve ==
  ASSUME CodesInv, NEW c \in koodiCalls,
         CreateAnswered(c) \/ UpdateAnswered(c) \/ DeletionAnswered(c)
  PROVE  CodesInv'
<1> USE DEF CodesInv
<1>1. KoodiTyped'
  <2>1. CASE UpdateAnswered(c)
    <3>1. c.id \in Koodit
      BY <2>1 DEF UpdateAnswered, CallsOK, KoodiCallOK
    <3>2. rivit' \in [Koodit -> KoodiForm]
      BY <2>1, <3>1 DEF UpdateAnswered, KoodiTyped, KoodiForm
    <3> QED BY <2>1, <3>2 DEF UpdateAnswered, KoodiTyped
  <2>2. CASE CreateAnswered(c) \/ DeletionAnswered(c)
    BY <2>2 DEF CreateAnswered, DeletionAnswered, KoodiTyped
  <2> QED BY <2>1, <2>2
<1>2. UNCHANGED <<koodit, uses, crossed>> /\ koodiCalls' = koodiCalls \ {c}
  BY DEF CreateAnswered, UpdateAnswered, DeletionAnswered
<1> QED BY <1>1, <1>2, CallGoes

LEMMA ListPreserves ==
  ASSUME CodesInv,
         GetList \/ \E c \in koodiCalls : ServeList(c) \/ ListAnswered(c)
  PROVE  CodesInv'
<1> USE DEF CodesInv
<1>1. ASSUME GetList
      PROVE  CodesInv'
  <2> DEFINE d == KoodiCall("list", NoKoodi, NoKoodi)
  <2>1. KoodiCallOK(d) /\ d.at = "sent"
    BY DEF KoodiCall, KoodiCallOK
  <2>2. koodiCalls' = koodiCalls \cup {d}
    BY <1>1 DEF GetList
  <2>3. KoodiTyped' /\ UNCHANGED <<koodit, uses, crossed>>
    BY <1>1 DEF GetList, KoodiTyped
  <2> HIDE DEF d
  <2> QED BY <2>1, <2>2, <2>3, CallComes
<1>2. ASSUME NEW c \in koodiCalls, ServeList(c)
      PROVE  CodesInv'
  <2> DEFINE list == [i \in Live |-> [value |-> koodit[i].value, hidden |-> koodit[i].hidden,
                                     used |-> i \in UsedBy(uses)]]
             d == [kind |-> "list", id |-> NoKoodi, value |-> NoKoodi, at |-> "ok", list |-> list]
  <2>1. ListOK(list)
    <3>1. \A i \in Koodit : koodit[i].value \in Arvot /\ koodit[i].hidden \in BOOLEAN
      BY DEF KoodiTyped, KoodiRow
    <3> QED BY <3>1 DEF ListOK, Live
  <2>2. koodiCalls' = (koodiCalls \ {c}) \cup {d}
    BY <1>2 DEF ServeList
  <2>3. KoodiCallOK(d) /\ d.at = "ok"
    <3> HIDE DEF list
    <3> QED BY <2>1 DEF KoodiCallOK
  <2> HIDE DEF d
  <2>4. CallsOK'
    BY <2>2, <2>3 DEF CallsOK
  <2>5. \A f \in koodiCalls' : f.at \in {"checked", "marked"} => f.id \in BeingDeleted
    BY <2>2, <2>3 DEF BeingDeleted
  <2>6. KoodiTyped' /\ UNCHANGED <<koodit, uses, crossed>>
    BY <1>2 DEF ServeList, KoodiTyped
  <2> QED BY <2>4, <2>5, <2>6, CallsComeAndGo
<1>3. ASSUME NEW c \in koodiCalls, ListAnswered(c)
      PROVE  CodesInv'
  <2>1. ListOK(c.list)
    BY <1>3 DEF ListAnswered, CallsOK, KoodiCallOK
  <2>2. rivit' \in [Koodit -> KoodiForm]
    BY <1>3, <2>1 DEF ListAnswered, KoodiTyped, KoodiForm, ListOK
  <2>3. KoodiTyped' /\ UNCHANGED <<koodit, uses, crossed>> /\ koodiCalls' = koodiCalls \ {c}
    BY <1>3, <2>1, <2>2 DEF ListAnswered, KoodiTyped
  <2> QED BY <2>3, CallGoes
<1> QED BY <1>1, <1>2, <1>3

LEMMA FailurePreserves ==
  ASSUME CodesInv, NEW c \in koodiCalls, KoodiCallFails(c)
  PROVE  CodesInv'
<1>1. KoodiTyped' /\ UNCHANGED <<koodit, uses, crossed>>
  BY DEF KoodiCallFails, CodesInv, KoodiTyped
<1>2. CASE c.kind = "list"
  BY <1>1, <1>2, CallGoes DEF KoodiCallFails
<1>3. CASE c.kind # "list"
  BY <1>1, <1>3, BecomesPreserves DEF KoodiCallFails
<1> QED BY <1>2, <1>3

-----------------------------------------------------------------------------

LEMMA NextPreserves ==
  ASSUME CodesInv, [KoodiNext]_koodiVars
  PROVE  CodesInv'
<1>1. CASE UNCHANGED koodiVars
  <2>1. KoodiTyped' /\ CallsOK' /\ BeingDeleted' = BeingDeleted
    BY <1>1 DEF koodiVars, CodesInv, KoodiTyped, CallsOK, BeingDeleted
  <2> QED BY <1>1, <2>1 DEF koodiVars, CodesInv, UsesExistOrCrossed, UsedBy
<1>2. CASE KoodiNext
  BY <1>2, OfficerPreserves, ServedPreserves, DeletionPreserves, UsePreserves, AnswersPreserve,
     ListPreserves, FailurePreserves DEF KoodiNext
<1> QED BY <1>1, <1>2

\* The rows, forms and requests are what they should be in every reachable state, and a use that
\* is of something deleted, or about to be, is marked as having crossed the deletion.
THEOREM KoodiInvariance == KoodiSpec => []CodesInv
<1>1. KoodiInit => CodesInv
  BY InitEstablishes
<1>2. CodesInv /\ [KoodiNext]_koodiVars => CodesInv'
  BY NextPreserves
<1> QED BY <1>1, <1>2, PTL DEF KoodiSpec

\* The state of the page and of the server of budget accounts and codes has its type.
THEOREM KoodiTyping == KoodiSpec => []KoodiTypeOK
<1>1. CodesInv => KoodiTypeOK
  BY DEF CodesInv, KoodiTyped, ListOK, KoodiRow, KoodiTypeOK
<1> QED BY <1>1, KoodiInvariance, PTL

\* delete-talousarviotili!, delete-va-code-value!: what a grant uses is not deleted, except where
\* the use was committed after the deletion had looked at the uses.
THEOREM UsedCodes == KoodiSpec => []UsedCodesExist
<1>1. CodesInv => UsedCodesExist
  BY DEF CodesInv, UsesExistOrCrossed, UsedCodesExist
<1> QED BY <1>1, KoodiInvariance, PTL

-----------------------------------------------------------------------------
(* The page at rest                                                          *)

Updating(i) == {u \in koodiCalls : u.kind = "update" /\ u.id = i}

\* The form of a row shows what is stored, what is being stored, or what will be told not to be.
FormTells(i) ==
  \/ Updating(i) = {} /\ rivit[i].now = koodit[i].value
  \/ \E u \in Updating(i) :
       \/ u.at \in {"taken", "failed"}
       \/ u.at = "sent" /\ u.value = rivit[i].now
       \/ u.at = "ok" /\ koodit[i].value = rivit[i].now
RowsTell == \A i \in Live \cap DOMAIN lista : i \notin lapsed => FormTells(i)

\* A row has one update under way, it is submitted while it is edited, and it was listed.
OneUpdate ==
  \A u, w \in koodiCalls : u.kind = "update" /\ w.kind = "update" /\ u.id = w.id => u = w
UpdatesListed ==
  \A u \in koodiCalls : u.kind = "update" =>
    /\ editing = u.id => rivit[u.id].submitted
    /\ u.id \in DOMAIN lista \/ koodit[u.id].state = "deleted"

\* The page asks for one list at a time, and while it does it has no row that the answer lacks,
\* and none of those it brings is being updated.
OneList == \A c, d \in koodiCalls : c.kind = "list" /\ d.kind = "list" => c = d
ListBrings(c) ==
  /\ \A i \in DOMAIN c.list : koodit[i].state # "none"
  /\ \A i \in DOMAIN lista \cap Live : i \in DOMAIN c.list
  /\ \A i \in DOMAIN c.list \ DOMAIN lista :
       Updating(i) = {} /\ (i \in Live => c.list[i].value = koodit[i].value)
ListsBring == \A c \in koodiCalls : c.kind = "list" /\ c.at = "ok" => ListBrings(c)
KoodiListed == \A i \in DOMAIN lista : koodit[i].state # "none"

\* With nothing but the list under way, and nothing to be fetched again, the last list agrees.
Agrees(list) ==
  /\ DOMAIN list = Live
  /\ \A i \in Live : list[i].value = koodit[i].value /\ list[i].hidden = koodit[i].hidden
Settled == koodiUsed.failures = 0 /\ ~refetch /\ \A c \in koodiCalls : c.kind = "list"
ListFresh ==
  Settled => /\ \A c \in koodiCalls : c.at = "ok" => Agrees(c.list)
             /\ koodiCalls = {} => Agrees(lista)
UsedTyped == koodiUsed \in [acts : Nat, failures : Nat]

RestInv ==
  /\ RowsTell /\ OneUpdate /\ UpdatesListed /\ OneList /\ ListsBring /\ KoodiListed /\ ListFresh
  /\ UsedTyped

\* Acts that touch neither the list, the requests nor the rows stored leave what is of them only.
LEMMA RestUntouched ==
  ASSUME RestInv, UNCHANGED <<koodit, lista, koodiCalls, refetch>>,
         koodiUsed' \in [acts : Nat, failures : Nat], koodiUsed'.failures = koodiUsed.failures
  PROVE  OneUpdate' /\ OneList' /\ ListsBring' /\ KoodiListed' /\ ListFresh' /\ UsedTyped'
<1>1. OneUpdate' /\ OneList' /\ KoodiListed' /\ UsedTyped'
  BY DEF RestInv, OneUpdate, OneList, KoodiListed, UsedTyped
<1>2. ListsBring'
  BY DEF RestInv, ListsBring, ListBrings, Updating, Live
<1>3. ListFresh'
  BY DEF RestInv, ListFresh, Settled, Agrees, Live
<1> QED BY <1>1, <1>2, <1>3

\* Rows that stay as they are, with the requests, show what they showed.
LEMMA FormStays ==
  ASSUME NEW i \in Koodit, FormTells(i), UNCHANGED <<koodit, koodiCalls>>,
         rivit'[i].now = rivit[i].now
  PROVE  FormTells(i)'
BY DEF FormTells, Updating

LEMMA UseRests ==
  ASSUME RestInv, KoodiTyped,
         \/ \E h \in Haut, i \in Koodit : TakeInUse(h, i)
         \/ \E u \in useTx : CommitUse(u)
         \/ \E u \in uses : ReleaseUse(u)
  PROVE  RestInv'
<1>1. UNCHANGED <<koodit, lista, rivit, editing, refetch, koodiCalls, lapsed>>
  BY DEF TakeInUse, CommitUse, ReleaseUse
<1>2. koodiUsed' \in [acts : Nat, failures : Nat] /\ koodiUsed'.failures = koodiUsed.failures
  BY DEF TakeInUse, CommitUse, ReleaseUse, KoodiAct, RestInv, UsedTyped
<1>3. RowsTell'
  BY <1>1 DEF RestInv, RowsTell, FormTells, Updating, Live
<1>4. UpdatesListed'
  BY <1>1 DEF RestInv, UpdatesListed
<1>5. OneUpdate' /\ OneList' /\ ListsBring' /\ KoodiListed' /\ ListFresh' /\ UsedTyped'
  BY <1>1, <1>2, RestUntouched
<1> QED BY <1>3, <1>4, <1>5 DEF RestInv

\* The form of a row with the values it was first shown with.
WithFirst(form) == [form EXCEPT !.now = form.first, !.submitted = FALSE]

LEMMA FirstShown ==
  ASSUME NEW form \in KoodiForm
  PROVE  WithFirst(form).now = form.first
<1>1. PICK g \in KoodiForm : g = [form EXCEPT !.now = form.first]
  BY DEF KoodiForm
<1>2. g.now = form.first
  BY <1>1 DEF KoodiForm
<1>3. WithFirst(form) = [g EXCEPT !.submitted = FALSE]
  BY Zenon, <1>1 DEF WithFirst
<1> QED BY <1>2, <1>3 DEF KoodiForm

FormsBack(i, j) == IF j \in DOMAIN lista \ {i} THEN WithFirst(rivit[j]) ELSE rivit[j]
BackLapsed(i) ==
  {j \in lapsed : ~(j \in DOMAIN lista \ {i})}
    \cup {j \in DOMAIN lista : j \in DOMAIN lista \ {i} /\ (rivit[j].first # koodit[j].value \/ Loading(j))}

LEMMA EditRests ==
  ASSUME RestInv, KoodiTyped, CallsOK, NEW i \in Koodit, EditTili(i)
  PROVE  RestInv'
<1>0. /\ koodiUsed' = [koodiUsed EXCEPT !.acts = koodiUsed.acts + 1]
      /\ rivit' = [j \in Koodit |-> FormsBack(i, j)]
      /\ lapsed' = BackLapsed(i)
  BY Zenon DEF EditTili, KoodiAct, FormsBack, WithFirst, BackLapsed
<1>1. UNCHANGED <<koodit, lista, refetch, koodiCalls>> /\ editing' = i /\ ~Loading(i) /\ i \in DOMAIN lista
  BY Zenon DEF EditTili, CanActOn
<1>2. koodiUsed' \in [acts : Nat, failures : Nat] /\ koodiUsed'.failures = koodiUsed.failures
  BY <1>0 DEF RestInv, UsedTyped
<1>3. Updating(i) = {}
  BY <1>1 DEF Loading, Updating
<1>4. RowsTell'
  <2> SUFFICES ASSUME NEW j \in Live, j \in DOMAIN lista, j \notin lapsed'
               PROVE  FormTells(j)'
    BY <1>1 DEF RowsTell, Live
  <2>1. j \in Koodit
    BY DEF Live
  <2>2. CASE j = i
    <3>1. j \notin lapsed /\ rivit'[j] = rivit[j]
      BY <1>0, <2>1, <2>2 DEF FormsBack, BackLapsed
    <3> QED BY <1>1, <2>1, <3>1, FormStays DEF RestInv, RowsTell
  <2>3. CASE j # i
    <3>1. rivit[j].first = koodit[j].value /\ ~Loading(j)
      BY <1>0, <2>3 DEF BackLapsed
    <3>2. rivit'[j].now = rivit[j].first
      BY <1>0, <2>1, <2>3, FirstShown DEF FormsBack, KoodiTyped
    <3>3. Updating(j) = {}
      BY <3>1 DEF Loading, Updating
    <3> QED BY <1>1, <3>1, <3>2, <3>3 DEF FormTells, Updating
  <2> QED BY <2>2, <2>3
<1>5. UpdatesListed'
  <2> SUFFICES ASSUME NEW u \in koodiCalls, u.kind = "update"
               PROVE  /\ i # u.id
                      /\ u.id \in DOMAIN lista \/ koodit[u.id].state = "deleted"
    BY <1>1 DEF UpdatesListed
  <2> QED BY <1>3 DEF Updating, RestInv, UpdatesListed
<1>6. OneUpdate' /\ OneList' /\ ListsBring' /\ KoodiListed' /\ ListFresh' /\ UsedTyped'
  BY <1>1, <1>2, RestUntouched
<1> QED BY <1>4, <1>5, <1>6 DEF RestInv

LEMMA TypingRests ==
  ASSUME RestInv, KoodiTyped, CallsOK, NEW i \in Koodit, NEW v \in Arvot, TypeTili(i, v)
  PROVE  RestInv'
<1>1. UNCHANGED <<koodit, lista, refetch, koodiCalls, editing>> /\ lapsed' = lapsed \cup {i}
      /\ rivit' = [rivit EXCEPT ![i].now = v]
  BY DEF TypeTili
<1>2. koodiUsed' \in [acts : Nat, failures : Nat] /\ koodiUsed'.failures = koodiUsed.failures
  BY DEF TypeTili, KoodiAct, RestInv, UsedTyped
<1>3. \A j \in Koodit : rivit'[j].submitted = rivit[j].submitted /\ (j # i => rivit'[j].now = rivit[j].now)
  BY <1>1 DEF KoodiTyped, KoodiForm
<1>4. RowsTell'
  <2> SUFFICES ASSUME NEW j \in Live, j \in DOMAIN lista, j \notin lapsed'
               PROVE  FormTells(j)'
    BY <1>1 DEF RowsTell, Live
  <2>1. j \in Koodit /\ j # i /\ FormTells(j)
    BY <1>1 DEF Live, RestInv, RowsTell
  <2> QED BY <1>1, <1>3, <2>1, FormStays
<1>5. UpdatesListed'
  <2>1. \A u \in koodiCalls : u.kind = "update" => u.id \in Koodit
    BY DEF CallsOK, KoodiCallOK
  <2> QED BY <1>1, <1>3, <2>1 DEF RestInv, UpdatesListed
<1>6. OneUpdate' /\ OneList' /\ ListsBring' /\ KoodiListed' /\ ListFresh' /\ UsedTyped'
  BY <1>1, <1>2, RestUntouched
<1> QED BY <1>4, <1>5, <1>6 DEF RestInv

-----------------------------------------------------------------------------
(* A request comes                                                           *)

\* One that is no update, with nothing else moving.
LEMMA RequestRests ==
  ASSUME RestInv, NEW d, d.kind \in {"create", "delete", "visibility"},
         koodiCalls' = koodiCalls \cup {d},
         UNCHANGED <<koodit, lista, rivit, editing, lapsed>>,
         koodiUsed' \in [acts : Nat, failures : Nat]
  PROVE  RestInv'
<1>1. \A i : Updating(i)' = Updating(i)
  BY DEF Updating
<1>2. RowsTell'
  BY <1>1 DEF RestInv, RowsTell, FormTells, Live
<1>3. OneUpdate' /\ UpdatesListed' /\ OneList' /\ KoodiListed' /\ UsedTyped'
  BY DEF RestInv, OneUpdate, UpdatesListed, OneList, KoodiListed, UsedTyped
<1>4. ListsBring'
  BY <1>1 DEF RestInv, ListsBring, ListBrings, Live
<1>5. ListFresh'
  BY DEF ListFresh, Settled
<1> QED BY <1>2, <1>3, <1>4, <1>5 DEF RestInv

LEMMA RequestsRest ==
  ASSUME RestInv, NEW i \in Koodit, NEW v \in Arvot,
         SubmitNew(v) \/ Delete(i) \/ SetCodeVisibility(i)
  PROVE  RestInv'
<1>1. koodiUsed' \in [acts : Nat, failures : Nat]
  BY DEF SubmitNew, Delete, SetCodeVisibility, KoodiAct, RestInv, UsedTyped
<1>2. UNCHANGED <<koodit, lista, rivit, editing, lapsed>>
  BY DEF SubmitNew, Delete, SetCodeVisibility
<1>3. PICK kind, k, w : kind \in {"create", "delete", "visibility"} /\ koodiCalls' = koodiCalls \cup {KoodiCall(kind, k, w)}
  BY DEF SubmitNew, Delete, SetCodeVisibility
<1>4. KoodiCall(kind, k, w).kind = kind
  BY DEF KoodiCall
<1> QED BY <1>1, <1>2, <1>3, <1>4, RequestRests

LEMMA SubmitRests ==
  ASSUME RestInv, KoodiTyped, CallsOK, NEW i \in Koodit, SubmitTili(i)
  PROVE  RestInv'
<1> DEFINE d == KoodiCall("update", i, rivit[i].now)
<1>1. d.kind = "update" /\ d.id = i /\ d.value = rivit[i].now /\ d.at = "sent"
  BY DEF KoodiCall
<1>2. UNCHANGED <<koodit, lista, editing, koodiUsed, refetch>> /\ koodiCalls' = koodiCalls \cup {d}
      /\ lapsed' = lapsed \ {i} /\ rivit' = [rivit EXCEPT ![i].submitted = TRUE]
      /\ editing = i /\ ~rivit[i].submitted /\ i \in DOMAIN lista
  BY DEF SubmitTili
<1> HIDE DEF d
<1>3. Updating(i) = {}
  BY <1>2 DEF RestInv, UpdatesListed, Updating
<1>4. \A j \in Koodit : rivit'[j].now = rivit[j].now /\ (j # i => rivit'[j].submitted = rivit[j].submitted)
  BY <1>2 DEF KoodiTyped, KoodiForm
<1>5. rivit'[i].submitted
  BY <1>2 DEF KoodiTyped, KoodiForm
<1>6. \A j : j # i => Updating(j)' = Updating(j)
  BY <1>1, <1>2 DEF Updating
<1>7. \A u \in koodiCalls : u.kind = "update" => u.id \in Koodit /\ u.id # i
  BY <1>3 DEF CallsOK, KoodiCallOK, Updating
<1>8. RowsTell'
  <2> SUFFICES ASSUME NEW j \in Live, j \in DOMAIN lista, j \notin lapsed'
               PROVE  FormTells(j)'
    BY <1>2 DEF RowsTell, Live
  <2>1. j \in Koodit
    BY DEF Live
  <2>2. CASE j = i
    <3>1. d \in Updating(i)'
      BY <1>1, <1>2 DEF Updating
    <3> QED BY <1>1, <1>4, <2>2, <3>1 DEF FormTells
  <2>3. CASE j # i
    <3>1. FormTells(j)
      BY <1>2, <2>3 DEF RestInv, RowsTell
    <3> QED BY <1>2, <1>4, <1>6, <2>1, <2>3, <3>1 DEF FormTells
  <2> QED BY <2>2, <2>3
<1>9. OneUpdate'
  BY <1>1, <1>2, <1>7 DEF RestInv, OneUpdate
<1>10. UpdatesListed'
  <2> SUFFICES ASSUME NEW u \in koodiCalls', u.kind = "update"
               PROVE  /\ editing = u.id => rivit'[u.id].submitted
                      /\ u.id \in DOMAIN lista \/ koodit[u.id].state = "deleted"
    BY <1>2 DEF UpdatesListed
  <2>1. CASE u = d
    BY <1>1, <1>2, <1>5, <2>1
  <2>2. CASE u \in koodiCalls
    BY <1>2, <1>7, <2>2 DEF RestInv, UpdatesListed
  <2> QED BY <1>2, <2>1, <2>2
<1>11. OneList' /\ KoodiListed' /\ UsedTyped'
  BY <1>1, <1>2 DEF RestInv, OneList, KoodiListed, UsedTyped
<1>12. ListsBring'
  <2> SUFFICES ASSUME NEW c \in koodiCalls, c.kind = "list", c.at = "ok"
               PROVE  ListBrings(c)'
    BY <1>1, <1>2 DEF ListsBring
  <2>1. ListBrings(c)
    BY DEF RestInv, ListsBring
  <2> QED BY <1>2, <1>6, <2>1 DEF ListBrings, Live
<1>13. ListFresh'
  BY <1>1, <1>2 DEF ListFresh, Settled
<1> QED BY <1>8, <1>9, <1>10, <1>11, <1>12, <1>13 DEF RestInv

-----------------------------------------------------------------------------
(* A request goes on                                                         *)

\* What serving request c may do to the rows stored, and what an update becomes (d).
RowsServed(c) ==
  \A j \in Koodit :
    /\ koodit[j].state = "deleted" => koodit'[j].state = "deleted"
    /\ koodit[j].state = "live" => koodit'[j].state \in {"live", "deleted"}
    /\ koodit[j].state = "deleted" \/ koodit'[j].value = koodit[j].value
         \/ koodit[j].state = "none" \/ (c.kind = "update" /\ c.id = j)
Served(c, d) ==
  c.kind = "update" =>
    d.at \in {"taken", "failed"} \/ (d.at = "ok" /\ c.at = "sent" /\ koodit'[c.id].value = c.value)

LEMMA RequestGoesOn ==
  ASSUME RestInv, KoodiTyped, CallsOK, KoodiTyped', NEW c \in koodiCalls, c.kind # "list",
         NEW d, d.kind = c.kind, d.id = c.id, d.value = c.value,
         koodiCalls' = (koodiCalls \ {c}) \cup {d},
         UNCHANGED <<lista, rivit, editing, lapsed>>, UsedTyped',
         RowsServed(c), Served(c, d)
  PROVE  RestInv'
<1>0. \A j \in Koodit : koodit[j].state \in {"none", "live", "deleted"} /\ koodit'[j].state \in {"none", "live", "deleted"}
  BY DEF KoodiTyped, KoodiRow
<1>1. \A i : ~(c.kind = "update" /\ c.id = i) => Updating(i)' = Updating(i)
  BY DEF Updating
<1>2. ASSUME c.kind = "update"
      PROVE  Updating(c.id) = {c} /\ d \in Updating(c.id)'
  <2>1. \A u \in koodiCalls : u.kind = "update" /\ u.id = c.id => u = c
    BY <1>2 DEF RestInv, OneUpdate
  <2> QED BY <1>2, <2>1 DEF Updating
<1>3. DOMAIN lista \subseteq Koodit
  BY DEF KoodiTyped, ListOK
<1>4. \A j \in DOMAIN lista : j \in Live' => j \in Live
  BY <1>0, <1>3 DEF RestInv, KoodiListed, RowsServed, Live
<1>5. \A j \in Koodit : koodit[j].state # "none" => koodit'[j].state # "none"
  BY <1>0 DEF RowsServed
<1>6. RowsTell'
  <2> SUFFICES ASSUME NEW j \in Live', j \in DOMAIN lista, j \notin lapsed
               PROVE  FormTells(j)'
    BY DEF RowsTell
  <2>1. j \in Koodit /\ j \in Live /\ FormTells(j)
    BY <1>3, <1>4 DEF RestInv, RowsTell
  <2>2. CASE c.kind = "update" /\ c.id = j
    <3>1. Updating(j) = {c} /\ d \in Updating(j)'
      BY <1>2, <2>2
    <3>2. c.at = "sent" => c.value = rivit[j].now
      BY <2>1, <3>1 DEF FormTells
    <3> QED BY <2>2, <3>1, <3>2 DEF FormTells, Served
  <2>3. CASE ~(c.kind = "update" /\ c.id = j)
    <3>1. koodit'[j].value = koodit[j].value
      BY <1>0, <2>1, <2>3 DEF RowsServed, Live
    <3> QED BY <1>1, <2>1, <2>3, <3>1 DEF FormTells
  <2> QED BY <2>2, <2>3
<1>7. OneUpdate'
  <2> SUFFICES ASSUME NEW u \in koodiCalls', NEW w \in koodiCalls', u.kind = "update", w.kind = "update",
                      u.id = w.id
               PROVE  u = w
    BY DEF OneUpdate
  <2> QED BY DEF RestInv, OneUpdate
<1>8. UpdatesListed'
  <2> SUFFICES ASSUME NEW u \in koodiCalls', u.kind = "update"
               PROVE  /\ editing = u.id => rivit[u.id].submitted
                      /\ u.id \in DOMAIN lista \/ koodit'[u.id].state = "deleted"
    BY DEF UpdatesListed
  <2>1. PICK w \in koodiCalls : w.kind = "update" /\ w.id = u.id
    OBVIOUS
  <2>2. w.id \in Koodit
    BY <2>1 DEF CallsOK, KoodiCallOK
  <2> QED BY <2>1, <2>2 DEF RestInv, UpdatesListed, RowsServed
<1>9. OneList'
  BY DEF RestInv, OneList
<1>10. KoodiListed'
  BY <1>3, <1>5 DEF RestInv, KoodiListed
<1>11. ListsBring'
  <2> SUFFICES ASSUME NEW l \in koodiCalls, l.kind = "list", l.at = "ok"
               PROVE  ListBrings(l)'
    BY DEF ListsBring
  <2>1. ListBrings(l)
    BY DEF RestInv, ListsBring
  <2>2. DOMAIN l.list \subseteq Koodit
    BY DEF CallsOK, KoodiCallOK, ListOK
  <2>3. \A i \in DOMAIN l.list : koodit'[i].state # "none"
    BY <1>5, <2>1, <2>2 DEF ListBrings
  <2>4. \A i \in DOMAIN lista \cap Live' : i \in DOMAIN l.list
    BY <1>4, <2>1 DEF ListBrings
  <2>5. ASSUME NEW i \in DOMAIN l.list \ DOMAIN lista
        PROVE  Updating(i)' = {} /\ (i \in Live' => l.list[i].value = koodit'[i].value)
    <3>1. Updating(i) = {} /\ koodit[i].state # "none" /\ i \in Koodit
      BY <2>1, <2>2 DEF ListBrings
    <3>2. ~(c.kind = "update" /\ c.id = i)
      BY <1>2, <3>1
    <3>3. Updating(i)' = {}
      BY <1>1, <3>1, <3>2
    <3>4. ASSUME i \in Live'
          PROVE  i \in Live /\ koodit'[i].value = koodit[i].value
      BY <1>0, <3>1, <3>2, <3>4 DEF RowsServed, Live
    <3> QED BY <2>1, <3>3, <3>4 DEF ListBrings
  <2> QED BY <2>3, <2>4, <2>5 DEF ListBrings
<1>12. ListFresh'
  BY DEF ListFresh, Settled
<1> QED BY <1>6, <1>7, <1>8, <1>9, <1>10, <1>11, <1>12 DEF RestInv

\* What Becomes makes of a request.
LEMMA KoodiAdvanced ==
  ASSUME NEW c, KoodiCallOK(c), NEW at, Becomes(c, at)
  PROVE  \E d : /\ koodiCalls' = (koodiCalls \ {c}) \cup {d}
                /\ d.kind = c.kind /\ d.id = c.id /\ d.value = c.value /\ d.at = at
<1>1. [c EXCEPT !.at = at] = [kind |-> c.kind, id |-> c.id, value |-> c.value, at |-> at, list |-> c.list]
  BY DEF KoodiCallOK
<1> DEFINE d == [c EXCEPT !.at = at]
<1>2. d.kind = c.kind /\ d.id = c.id /\ d.value = c.value /\ d.at = at
  BY <1>1
<1>3. koodiCalls' = (koodiCalls \ {c}) \cup {d}
  BY DEF Becomes
<1> QED BY <1>2, <1>3

LEMMA ServerRests ==
  ASSUME RestInv, CodesInv, CodesInv', NEW c \in koodiCalls,
         CreateKoodi(c) \/ UpdateKoodi(c) \/ EditVisibility(c) \/ IsUsed(c) \/ MarkDeleted(c)
           \/ CommitDeleted(c)
  PROVE  RestInv'
<1>1. KoodiCallOK(c) /\ KoodiTyped /\ KoodiTyped' /\ CallsOK
  BY DEF CodesInv, CallsOK
<1>2. UNCHANGED <<lista, rivit, editing, lapsed, koodiUsed>>
  BY DEF CreateKoodi, UpdateKoodi, EditVisibility, IsUsed, MarkDeleted, CommitDeleted
<1>3. c.kind # "list"
  BY DEF CreateKoodi, UpdateKoodi, EditVisibility, IsUsed, MarkDeleted, CommitDeleted
<1>4. UsedTyped'
  BY <1>2 DEF RestInv, UsedTyped
<1>5. ASSUME NEW at, Becomes(c, at),
             \A d : d.at = at => RowsServed(c) /\ Served(c, d)
      PROVE  RestInv'
  <2>1. PICK d : /\ koodiCalls' = (koodiCalls \ {c}) \cup {d}
                 /\ d.kind = c.kind /\ d.id = c.id /\ d.value = c.value /\ d.at = at
    BY <1>1, <1>5, KoodiAdvanced
  <2>2. RowsServed(c) /\ Served(c, d)
    BY <1>5, <2>1
  <2> QED BY <1>1, <1>2, <1>3, <1>4, <2>1, <2>2, RequestGoesOn
<1>6. ASSUME UNCHANGED koodit
      PROVE  RowsServed(c)
  BY <1>1, <1>6 DEF RowsServed, KoodiTyped, KoodiRow
<1>7. ASSUME CreateKoodi(c)
      PROVE  RestInv'
  <2>1. c.kind # "update"
    BY <1>7 DEF CreateKoodi
  <2>2. UNCHANGED koodit \/ \E i \in Koodit : koodit[i].state = "none" /\
          koodit' = [koodit EXCEPT ![i] = [state |-> "live", value |-> c.value, hidden |-> FALSE]]
    BY <1>7 DEF CreateKoodi
  <2>3. RowsServed(c)
    <3>1. CASE UNCHANGED koodit
      BY <1>6, <3>1
    <3>2. ASSUME NEW i \in Koodit, koodit[i].state = "none",
                 koodit' = [koodit EXCEPT ![i] = [state |-> "live", value |-> c.value, hidden |-> FALSE]]
          PROVE  RowsServed(c)
      <4>1. \A j \in Koodit \ {i} : koodit'[j] = koodit[j]
        BY <1>1, <3>2 DEF KoodiTyped
      <4>2. \A j \in Koodit : koodit[j].state = "live" => j # i
        BY <3>2
      <4> QED BY <3>2, <4>1, <4>2 DEF RowsServed
    <3> QED BY <2>2, <3>1, <3>2
  <2>4. \E at : Becomes(c, at)
    BY <1>7 DEF CreateKoodi
  <2> QED BY <1>5, <2>1, <2>3, <2>4 DEF Served
<1>8. ASSUME UpdateKoodi(c)
      PROVE  RestInv'
  <2>1. c.kind = "update" /\ c.id \in Koodit /\ c.value \in Arvot /\ c.at = "sent"
    BY <1>1, <1>8 DEF UpdateKoodi, KoodiCallOK
  <2>2. CASE UNCHANGED koodit /\ Becomes(c, "taken")
    BY <1>5, <1>6, <2>2 DEF Served
  <2>3. CASE koodit' = [koodit EXCEPT ![c.id].value = c.value] /\ Becomes(c, "ok")
    <3>1. /\ \A j \in Koodit : koodit'[j].state = koodit[j].state /\ (j # c.id => koodit'[j] = koodit[j])
          /\ koodit'[c.id].value = c.value
      BY <1>1, <2>1, <2>3 DEF KoodiTyped, KoodiRow
    <3>2. RowsServed(c)
      BY <2>1, <3>1 DEF RowsServed
    <3> QED BY <1>5, <2>1, <2>3, <3>1, <3>2 DEF Served
  <2> QED BY <1>8, <2>2, <2>3 DEF UpdateKoodi
<1>9. ASSUME EditVisibility(c)
      PROVE  RestInv'
  <2>1. c.kind = "visibility" /\ c.id \in Koodit /\ c.value \in BOOLEAN /\ Becomes(c, "ok")
    BY <1>1, <1>9 DEF EditVisibility, KoodiCallOK
  <2>2. koodit' = [koodit EXCEPT ![c.id].hidden = c.value]
    BY <1>9 DEF EditVisibility
  <2>3. \A j \in Koodit : koodit'[j].state = koodit[j].state /\ koodit'[j].value = koodit[j].value
    BY <1>1, <2>1, <2>2 DEF KoodiTyped, KoodiRow
  <2>4. RowsServed(c)
    BY <2>3 DEF RowsServed
  <2> QED BY <1>5, <2>1, <2>4 DEF Served
<1>10. ASSUME IsUsed(c) \/ MarkDeleted(c)
       PROVE  RestInv'
  <2>1. UNCHANGED koodit /\ c.kind = "delete" /\ \E at : Becomes(c, at)
    BY <1>10 DEF IsUsed, MarkDeleted
  <2> QED BY <1>5, <1>6, <2>1 DEF Served
<1>11. ASSUME CommitDeleted(c)
       PROVE  RestInv'
  <2>1. c.kind = "delete" /\ c.id \in Koodit /\ Becomes(c, "ok")
    BY <1>1, <1>11 DEF CommitDeleted, KoodiCallOK
  <2>2. koodit' = [koodit EXCEPT ![c.id].state = "deleted"]
    BY <1>11 DEF CommitDeleted
  <2>3. \A j \in Koodit : koodit'[j].value = koodit[j].value
          /\ (koodit'[j].state = koodit[j].state \/ koodit'[j].state = "deleted")
    BY <1>1, <2>1, <2>2 DEF KoodiTyped, KoodiRow
  <2>4. RowsServed(c)
    BY <2>3 DEF RowsServed
  <2> QED BY <1>5, <2>1, <2>4 DEF Served
<1> QED BY <1>7, <1>8, <1>9, <1>10, <1>11

LEMMA FailureRests ==
  ASSUME RestInv, CodesInv, CodesInv', NEW c \in koodiCalls, KoodiCallFails(c)
  PROVE  RestInv'
<1>1. KoodiCallOK(c) /\ KoodiTyped /\ KoodiTyped' /\ CallsOK
  BY DEF CodesInv, CallsOK
<1>2. UNCHANGED <<koodit, lista, rivit, editing, lapsed, refetch>>
  BY DEF KoodiCallFails
<1>3. UsedTyped' /\ koodiUsed'.failures # 0
  BY DEF KoodiCallFails, RestInv, UsedTyped
<1>4. CASE c.kind # "list"
  <2>1. PICK d : /\ koodiCalls' = (koodiCalls \ {c}) \cup {d}
                 /\ d.kind = c.kind /\ d.id = c.id /\ d.value = c.value /\ d.at = "failed"
    BY <1>1, <1>4, KoodiAdvanced DEF KoodiCallFails
  <2>2. RowsServed(c) /\ Served(c, d)
    BY <1>1, <1>2, <2>1 DEF RowsServed, Served, KoodiTyped, KoodiRow
  <2> QED BY <1>1, <1>2, <1>3, <1>4, <2>1, <2>2, RequestGoesOn
<1>5. CASE c.kind = "list"
  <2>1. koodiCalls' = koodiCalls \ {c}
    BY <1>5 DEF KoodiCallFails
  <2>2. \A i : Updating(i)' = Updating(i)
    BY <1>5, <2>1 DEF Updating
  <2>3. RowsTell'
    BY <1>2, <2>2 DEF RestInv, RowsTell, FormTells, Live
  <2>4. OneUpdate' /\ UpdatesListed' /\ OneList' /\ KoodiListed'
    BY <1>2, <2>1 DEF RestInv, OneUpdate, UpdatesListed, OneList, KoodiListed
  <2>5. ListsBring'
    BY <1>2, <2>1, <2>2 DEF RestInv, ListsBring, ListBrings, Live
  <2>6. ListFresh'
    BY <1>3 DEF ListFresh, Settled
  <2> QED BY <1>3, <2>3, <2>4, <2>5, <2>6 DEF RestInv
<1> QED BY <1>4, <1>5

-----------------------------------------------------------------------------
(* A request is answered                                                     *)

LEMMA UpdateOnly ==
  ASSUME NEW c, c.kind = "update", CreateAnswered(c) \/ UpdateAnswered(c) \/ DeletionAnswered(c)
  PROVE  UpdateAnswered(c)
<1>1. c.kind # "create" /\ c.kind \notin {"delete", "visibility"}
  OBVIOUS
<1> QED BY Zenon, <1>1 DEF CreateAnswered, DeletionAnswered

LEMMA AnswerRests ==
  ASSUME RestInv, CodesInv, NEW c \in koodiCalls,
         CreateAnswered(c) \/ UpdateAnswered(c) \/ DeletionAnswered(c)
  PROVE  RestInv'
<1>1. KoodiCallOK(c) /\ KoodiTyped /\ CallsOK
  BY DEF CodesInv, CallsOK
<1>2. /\ koodiCalls' = koodiCalls \ {c} /\ refetch' = TRUE
      /\ UNCHANGED <<koodit, lista, koodiUsed>>
  BY Zenon DEF CreateAnswered, UpdateAnswered, DeletionAnswered
<1>3. OneUpdate' /\ OneList' /\ KoodiListed' /\ ListFresh' /\ UsedTyped'
  BY <1>2 DEF RestInv, OneUpdate, OneList, KoodiListed, ListFresh, Settled, UsedTyped
<1>4. ListsBring'
  <2>1. \A i : Updating(i) = {} => Updating(i)' = {}
    BY <1>2 DEF Updating
  <2> QED BY <1>2, <2>1 DEF RestInv, ListsBring, ListBrings, Live
<1>5. CASE c.kind # "update"
  <2>1. UNCHANGED <<rivit, editing, lapsed>>
    BY Zenon, <1>5 DEF CreateAnswered, UpdateAnswered, DeletionAnswered
  <2>2. \A i : Updating(i)' = Updating(i)
    BY <1>2, <1>5 DEF Updating
  <2>3. RowsTell'
    BY <1>2, <2>1, <2>2 DEF RestInv, RowsTell, FormTells, Live
  <2>4. UpdatesListed'
    BY <1>2, <2>1 DEF RestInv, UpdatesListed
  <2> QED BY <1>3, <1>4, <2>3, <2>4 DEF RestInv
<1>6. CASE c.kind = "update"
  <2>1. /\ c.at \in Answers /\ editing' = NoKoodi
        /\ rivit' = [rivit EXCEPT ![c.id].submitted = FALSE]
        /\ lapsed' = IF c.at = "ok" THEN lapsed ELSE lapsed \cup {c.id}
    BY <1>6, UpdateOnly DEF UpdateAnswered
  <2>2. c.id \in Koodit
    BY <1>1, <1>6 DEF KoodiCallOK
  <2>3. \A j \in Koodit : rivit'[j].now = rivit[j].now
    BY <1>1, <2>1, <2>2 DEF KoodiTyped, KoodiForm
  <2>4. \A u \in koodiCalls : u.kind = "update" /\ u.id = c.id => u = c
    BY <1>6 DEF RestInv, OneUpdate
  <2>5. RowsTell'
    <3> SUFFICES ASSUME NEW j \in Live, j \in DOMAIN lista, j \notin lapsed'
                 PROVE  FormTells(j)'
      BY <1>2 DEF RowsTell, Live
    <3>1. j \in Koodit /\ FormTells(j)
      BY <2>1 DEF RestInv, RowsTell, Live
    <3>2. CASE j = c.id
      <4>1. Updating(j) = {c} /\ Updating(j)' = {}
        BY <1>2, <1>6, <2>4, <3>2 DEF Updating
      <4>2. c.at = "ok"
        BY <2>1, <3>2
      <4>3. koodit[j].value = rivit[j].now
        BY <3>1, <4>1, <4>2 DEF FormTells
      <4> QED BY <1>2, <2>3, <3>1, <4>1, <4>3 DEF FormTells
    <3>3. CASE j # c.id
      <4>1. Updating(j)' = Updating(j)
        BY <1>2, <3>3 DEF Updating
      <4> QED BY <1>2, <2>3, <3>1, <4>1 DEF FormTells
    <3> QED BY <3>2, <3>3
  <2>6. UpdatesListed'
    <3>1. \A u \in koodiCalls : u.kind = "update" => u.id # NoKoodi
      BY <1>1 DEF CallsOK, KoodiCallOK, Koodit, NoKoodi
    <3> QED BY <1>2, <2>1, <3>1 DEF RestInv, UpdatesListed
  <2> QED BY <1>3, <1>4, <2>5, <2>6 DEF RestInv
<1> QED BY <1>5, <1>6

LEMMA GetListRests ==
  ASSUME RestInv, GetList
  PROVE  RestInv'
<1> DEFINE d == KoodiCall("list", NoKoodi, NoKoodi)
<1>1. d.kind = "list" /\ d.at = "sent"
  BY DEF KoodiCall
<1>2. koodiCalls = {} /\ koodiCalls' = {d}
      /\ UNCHANGED <<koodit, lista, rivit, editing, lapsed, koodiUsed>>
  BY DEF GetList
<1> HIDE DEF d
<1>3. \A i : Updating(i) = {} /\ Updating(i)' = {}
  BY <1>1, <1>2 DEF Updating
<1>4. RowsTell'
  BY <1>2, <1>3 DEF RestInv, RowsTell, FormTells, Live
<1>5. OneUpdate' /\ UpdatesListed' /\ OneList' /\ ListsBring' /\ ListFresh'
  BY <1>1, <1>2 DEF OneUpdate, UpdatesListed, OneList, ListsBring, ListFresh
<1>6. KoodiListed' /\ UsedTyped'
  BY <1>2 DEF RestInv, KoodiListed, UsedTyped
<1> QED BY <1>4, <1>5, <1>6 DEF RestInv

LEMMA ServeListRests ==
  ASSUME RestInv, CodesInv, NEW c \in koodiCalls, ServeList(c)
  PROVE  RestInv'
<1>a. PICK list : list = [i \in Live |-> [value |-> koodit[i].value, hidden |-> koodit[i].hidden,
                                          used |-> i \in UsedBy(uses)]]
  OBVIOUS
<1>b. PICK d : d = [kind |-> "list", id |-> NoKoodi, value |-> NoKoodi, at |-> "ok", list |-> list]
  OBVIOUS
<1>1. koodiCalls' = (koodiCalls \ {c}) \cup {d} /\ c.kind = "list"
      /\ UNCHANGED <<koodit, lista, rivit, editing, lapsed, koodiUsed, refetch>>
  BY <1>a, <1>b DEF ServeList
<1>2. Agrees(list) /\ DOMAIN list = Live
  BY <1>a DEF Agrees
<1>3. d.kind = "list" /\ d.at = "ok" /\ d.list = list
  BY <1>b
<1>4. \A i : Updating(i)' = Updating(i)
  BY <1>1, <1>3 DEF Updating
<1>5. RowsTell'
  BY <1>1, <1>4 DEF RestInv, RowsTell, FormTells, Live
<1>6. OneUpdate' /\ UpdatesListed' /\ KoodiListed' /\ UsedTyped'
  BY <1>1, <1>3 DEF RestInv, OneUpdate, UpdatesListed, KoodiListed, UsedTyped
<1>7. \A l \in koodiCalls' : l.kind = "list" => l = d
  BY <1>1 DEF RestInv, OneList
<1>8. OneList'
  BY <1>7 DEF OneList
<1>9. ListBrings(d)'
  <2>1. \A i \in Live : koodit[i].state # "none" /\ list[i].value = koodit[i].value
    BY <1>2 DEF Live, Agrees
  <2>2. \A i \in Live \ DOMAIN lista : Updating(i) = {}
    <3> SUFFICES ASSUME NEW i \in Live \ DOMAIN lista, NEW u \in koodiCalls, u.kind = "update", u.id = i
                 PROVE  FALSE
      BY DEF Updating
    <3> QED BY DEF RestInv, UpdatesListed, Live
  <2> QED BY <1>1, <1>2, <1>3, <1>4, <2>1, <2>2 DEF ListBrings, Live
<1>10. ListsBring'
  BY <1>7, <1>9 DEF ListsBring
<1>11. ListFresh'
  BY <1>1, <1>2, <1>3, <1>7 DEF ListFresh, Settled, Agrees, Live
<1> QED BY <1>5, <1>6, <1>8, <1>10, <1>11 DEF RestInv

LEMMA ListAnswerRests ==
  ASSUME RestInv, CodesInv, NEW c \in koodiCalls, ListAnswered(c)
  PROVE  RestInv'
<1>1. KoodiCallOK(c) /\ KoodiTyped /\ CallsOK
  BY DEF CodesInv, CallsOK
<1>2. /\ c.kind = "list" /\ c.at = "ok" /\ lista' = c.list /\ koodiCalls' = koodiCalls \ {c}
      /\ UNCHANGED <<koodit, editing, lapsed, koodiUsed, refetch>>
  BY DEF ListAnswered
<1>3. ListBrings(c) /\ DOMAIN c.list \subseteq Koodit
  BY <1>1, <1>2 DEF RestInv, ListsBring, KoodiCallOK, ListOK
<1>4. \A l \in koodiCalls' : l.kind # "list"
  BY <1>2 DEF RestInv, OneList
<1>5. \A i : Updating(i)' = Updating(i)
  BY <1>2 DEF Updating
<1>6. \A j \in Koodit : j \notin DOMAIN c.list \/ j \in DOMAIN lista => rivit'[j] = rivit[j]
  BY DEF ListAnswered
<1>7. \A j \in DOMAIN c.list \ DOMAIN lista : rivit'[j].now = c.list[j].value
  BY <1>3 DEF ListAnswered
<1>8. RowsTell'
  <2> SUFFICES ASSUME NEW j \in Live, j \in DOMAIN c.list, j \notin lapsed
               PROVE  FormTells(j)'
    BY <1>2 DEF RowsTell, Live
  <2>1. j \in Koodit
    BY DEF Live
  <2>2. CASE j \in DOMAIN lista
    <3>1. FormTells(j) /\ rivit'[j] = rivit[j]
      BY <1>6, <2>1, <2>2 DEF RestInv, RowsTell
    <3> QED BY <1>2, <1>5, <3>1 DEF FormTells
  <2>3. CASE j \notin DOMAIN lista
    <3>1. Updating(j) = {} /\ c.list[j].value = koodit[j].value
      BY <1>3, <2>3 DEF ListBrings
    <3> QED BY <1>2, <1>5, <1>7, <2>3, <3>1 DEF FormTells
  <2> QED BY <2>2, <2>3
<1>9. OneUpdate' /\ OneList' /\ UsedTyped'
  BY <1>2 DEF RestInv, OneUpdate, OneList, UsedTyped
<1>10. UpdatesListed'
  <2> SUFFICES ASSUME NEW u \in koodiCalls, u.kind = "update"
               PROVE  /\ editing = u.id => rivit'[u.id].submitted
                      /\ u.id \in DOMAIN c.list \/ koodit[u.id].state = "deleted"
    BY <1>2 DEF UpdatesListed
  <2>1. u.id \in Koodit /\ koodit[u.id].state \in {"none", "live", "deleted"}
    BY <1>1 DEF CallsOK, KoodiCallOK, KoodiTyped, KoodiRow
  <2>2. u \in Updating(u.id)
    BY DEF Updating
  <2>3. u.id \in DOMAIN lista \/ u.id \notin DOMAIN c.list
    BY <1>3, <2>2 DEF ListBrings
  <2>4. editing = u.id => rivit'[u.id].submitted
    BY <1>6, <2>1, <2>3 DEF RestInv, UpdatesListed
  <2>5. u.id \in DOMAIN c.list \/ koodit[u.id].state = "deleted"
    <3>1. CASE koodit[u.id].state = "deleted"
      BY <3>1
    <3>2. CASE u.id \in DOMAIN lista /\ koodit[u.id].state # "deleted"
      <4>1. u.id \in Live
        BY <2>1, <3>2 DEF RestInv, KoodiListed, Live
      <4> QED BY <1>3, <3>2, <4>1 DEF ListBrings
    <3> QED BY <3>1, <3>2 DEF RestInv, UpdatesListed
  <2> QED BY <2>4, <2>5
<1>11. ListsBring'
  BY <1>4 DEF ListsBring
<1>12. KoodiListed'
  BY <1>2, <1>3 DEF KoodiListed, ListBrings
<1>13. ListFresh'
  <2> SUFFICES ASSUME Settled'
               PROVE  koodiCalls' = {} /\ Agrees(c.list)
    BY <1>2 DEF ListFresh, Agrees, Live
  <2>1. koodiCalls' = {}
    BY <1>4 DEF Settled
  <2>2. Settled
    BY <1>2, <2>1 DEF Settled
  <2> QED BY <1>2, <2>1, <2>2 DEF RestInv, ListFresh
<1> QED BY <1>8, <1>9, <1>10, <1>11, <1>12, <1>13 DEF RestInv

-----------------------------------------------------------------------------

LEMMA RestStarts ==
  ASSUME KoodiInit
  PROVE  RestInv
<1>1. lista = [i \in {} |-> i] /\ koodiCalls = {} /\ refetch /\ koodiUsed = [acts |-> 0, failures |-> 0]
  BY Zenon DEF KoodiInit
<1>2. DOMAIN lista = {}
  BY <1>1
<1>3. OneUpdate /\ UpdatesListed /\ OneList /\ ListsBring
  BY <1>1 DEF OneUpdate, UpdatesListed, OneList, ListsBring
<1>4. RowsTell /\ KoodiListed
  BY <1>2 DEF RowsTell, KoodiListed
<1>5. ListFresh
  BY <1>1 DEF ListFresh, Settled
<1>6. UsedTyped
  BY <1>1 DEF UsedTyped
<1> QED BY <1>3, <1>4, <1>5, <1>6 DEF RestInv

LEMMA RestUnmoved ==
  ASSUME RestInv, UNCHANGED koodiVars
  PROVE  RestInv'
<1>1. UNCHANGED <<koodit, lista, rivit, editing, refetch, koodiCalls, lapsed, koodiUsed>>
  BY DEF koodiVars
<1>2. koodiUsed' \in [acts : Nat, failures : Nat] /\ koodiUsed'.failures = koodiUsed.failures
  BY <1>1 DEF RestInv, UsedTyped
<1>3. RowsTell' /\ UpdatesListed'
  BY <1>1 DEF RestInv, RowsTell, FormTells, Updating, Live, UpdatesListed
<1>4. OneUpdate' /\ OneList' /\ ListsBring' /\ KoodiListed' /\ ListFresh' /\ UsedTyped'
  BY <1>1, <1>2, RestUntouched
<1> QED BY <1>3, <1>4 DEF RestInv

LEMMA RestStays ==
  ASSUME RestInv, CodesInv, CodesInv', KoodiNext
  PROVE  RestInv'
<1>0. KoodiTyped /\ CallsOK
  BY DEF CodesInv
<1>1. ASSUME NEW i \in Koodit, EditTili(i) \/ SubmitTili(i)
      PROVE  RestInv'
  BY <1>0, <1>1, EditRests, SubmitRests
<1>2. ASSUME NEW i \in Koodit, Delete(i) \/ SetCodeVisibility(i)
      PROVE  RestInv'
  <2>1. PICK v \in Arvot : TRUE
    BY ArvotAssumption
  <2> QED BY <1>2, RequestsRest
<1>3. ASSUME NEW i \in Koodit, NEW v \in Arvot, TypeTili(i, v)
      PROVE  RestInv'
  BY <1>0, <1>3, TypingRests
<1>4. ASSUME NEW v \in Arvot, SubmitNew(v)
      PROVE  RestInv'
  <2>1. PICK d : /\ d.kind = "create" /\ koodiCalls' = koodiCalls \cup {d}
    BY <1>4 DEF SubmitNew, KoodiCall
  <2>2. UNCHANGED <<koodit, lista, rivit, editing, lapsed>> /\ koodiUsed' \in [acts : Nat, failures : Nat]
    BY <1>4 DEF SubmitNew, KoodiAct, RestInv, UsedTyped
  <2> QED BY <2>1, <2>2, RequestRests
<1>5. ASSUME NEW c \in koodiCalls,
             CreateKoodi(c) \/ UpdateKoodi(c) \/ EditVisibility(c) \/ IsUsed(c) \/ MarkDeleted(c)
               \/ CommitDeleted(c)
      PROVE  RestInv'
  BY <1>5, ServerRests
<1>6. ASSUME NEW c \in koodiCalls, CreateAnswered(c) \/ UpdateAnswered(c) \/ DeletionAnswered(c)
      PROVE  RestInv'
  BY <1>6, AnswerRests
<1>7. ASSUME NEW c \in koodiCalls, ServeList(c) \/ ListAnswered(c) \/ KoodiCallFails(c)
      PROVE  RestInv'
  BY <1>7, ServeListRests, ListAnswerRests, FailureRests
<1>8. ASSUME \/ \E h \in Haut, i \in Koodit : TakeInUse(h, i)
             \/ \E u \in useTx : CommitUse(u)
             \/ \E u \in uses : ReleaseUse(u)
      PROVE  RestInv'
  BY <1>0, <1>8, UseRests
<1>9. CASE GetList
  BY <1>9, GetListRests
<1> QED BY <1>1, <1>2, <1>3, <1>4, <1>5, <1>6, <1>7, <1>8, <1>9, Zenon DEF KoodiNext

LEMMA RestAgrees ==
  ASSUME RestInv
  PROVE  CodesAgree
<1> SUFFICES ASSUME koodiCalls = {}, ~refetch, koodiUsed.failures = 0
             PROVE  /\ Agrees(lista)
                    /\ \A i \in Live : i \notin lapsed => rivit[i].now = koodit[i].value
  BY DEF CodesAgree, Agrees
<1>1. Agrees(lista)
  BY DEF RestInv, ListFresh, Settled
<1>2. \A i : Updating(i) = {}
  BY DEF Updating
<1>3. ASSUME NEW i \in Live, i \notin lapsed
      PROVE  rivit[i].now = koodit[i].value
  BY <1>1, <1>2, <1>3 DEF RestInv, RowsTell, FormTells, Agrees
<1> QED BY <1>1, <1>3


-----------------------------------------------------------------------------
(* The lists: what is true of every state                                    *)

Chosen == UNION {StatusChoices[c] : c \in Columns}
Filters ==
  [status : [Columns -> SUBSET Chosen], text : BOOLEAN,
   role : Haut \cup {NoHaku}, answers : SUBSET Questions, showAll : BOOLEAN]
HakuListed == [haku : Haut, hakemukset : SUBSET Haut]
ListedOrNone == [haku : Haut \cup {NoHaku}, hakemukset : SUBSET Haut]
GrantDays == [status : HakuStatuses, starts : Dates, ends : Dates]
GrantFilters == [statuses : SUBSET HakuStatuses, from : Dates \cup {NoDate}, to : Dates \cup {NoDate}]
ListTyped ==
  /\ avoin \in Haut /\ tiedot \in [Haut -> Tiedot] /\ filter \in Filters
  /\ \A c \in Columns : filter.status[c] \subseteq StatusChoices[c]
  /\ \A w \in windows : w \in [id : Nat, of : HakuListed, shows : ListedOrNone]
  /\ \A s \in searches : s \in [id : Nat, of : HakuListed, at : {"sent", "stored"}]
  /\ summaryUrl \in ListedOrNone
  /\ grants \in [Haut -> GrantDays] /\ hakuFilter \in GrantFilters
  /\ listUsed \in [acts : Nat, windows : Nat, failures : Nat]
  /\ entangled \in BOOLEAN

\* In the table of an unresolved grant, only a filter that was left there is not shown.
LeftoversTold ==
  ~IsResolved(avoin) => \A c \in Columns \ {"hakemus"} : Active(c) => c \in leftover

\* One window waits at a time, for the one list that is stored or told.
OneWaits ==
  /\ \A w \in windows : Waits(w) \/ w.shows = w.of
  /\ \A v, w \in windows : Waits(v) /\ Waits(w) => v = w
  /\ (\A w \in windows : ~Waits(w)) => searches = {} /\ summaryUrl = NoListing
  /\ \A w \in windows : Waits(w) => summaryUrl \in {NoListing, w.of} /\ \A s \in searches : s.of = w.of
  /\ \A r, s \in searches : r = s
  /\ summaryUrl # NoListing => searches = {}
ListInv == ListTyped /\ LeftoversTold /\ (entangled \/ OneWaits)

LEMMA ColumnFacts ==
  /\ Columns = {"hakemus", "muutoshakemus", "valiselvitys", "loppuselvitys"}
  /\ StatusChoices["hakemus"] = {"unhandled", "rejected"} /\ StatusChoices["muutoshakemus"] = {"new", "accepted"}
  /\ StatusChoices["valiselvitys"] = {"missing", "submitted"} /\ StatusChoices["loppuselvitys"] = {"missing", "submitted"}
  /\ Controls = {"hakemus", "muutoshakemus", "valiselvitys", "loppuselvitys", "text", "role", "answers"}
  /\ IsResolved(avoin) => TableControls = Controls
  /\ ~IsResolved(avoin) => TableControls = {"hakemus", "text", "role", "answers"}
<1>1. Columns = {"hakemus", "muutoshakemus", "valiselvitys", "loppuselvitys"}
  BY DEF Columns, StatusChoices
<1>2. /\ StatusChoices["hakemus"] = {"unhandled", "rejected"} /\ StatusChoices["muutoshakemus"] = {"new", "accepted"}
      /\ StatusChoices["valiselvitys"] = {"missing", "submitted"} /\ StatusChoices["loppuselvitys"] = {"missing", "submitted"}
  BY DEF StatusChoices
<1>3. Controls = {"hakemus", "muutoshakemus", "valiselvitys", "loppuselvitys", "text", "role", "answers"}
  BY <1>1 DEF Controls
<1>4. /\ IsResolved(avoin) => TableControls = Controls
      /\ ~IsResolved(avoin) => TableControls = {"hakemus", "text", "role", "answers"}
  BY <1>3 DEF TableControls
<1> QED BY <1>1, <1>2, <1>3, <1>4

\* What an application tells each column.
LEMMA TiedotStatuses ==
  ASSUME NEW t \in Tiedot
  PROVE  /\ t["hakemus"] \in {"unhandled", "rejected"}
         /\ t["muutoshakemus"] \in {"new", NoStatus}
         /\ t["valiselvitys"] \in {"missing", "information_verified"}
         /\ t["loppuselvitys"] \in {"missing", "submitted"}
BY DEF Tiedot, Ordinary

\* A control that keeps an application from the list shows that it is active.
LEMMA ExcludesWhenActive ==
  ASSUME ListTyped, NEW h \in Haut, NEW control \in Controls, Excludes(control, tiedot[h])
  PROVE  Active(control)
<1>1. PICK t \in Tiedot : t = tiedot[h]
  BY DEF ListTyped
<1>2. CASE control \in Columns
  <2>1. ~StatusOK(control, t[control])
    BY <1>1, <1>2, ColumnFacts DEF Excludes
  <2>2. filter.status[control] # StatusChoices[control]
    <3> SUFFICES ASSUME filter.status[control] = StatusChoices[control] PROVE FALSE
      OBVIOUS
    <3>1. t[control] \notin StatusChoices[control]
      BY <2>1 DEF StatusOK
    <3>2. control # "hakemus" => t[control] # NoStatus
      BY <2>1 DEF StatusOK
    <3>3. ~(control = "valiselvitys" /\ t[control] = "information_verified")
      BY <2>1 DEF StatusOK
    <3> QED BY <1>2, <3>1, <3>2, <3>3, TiedotStatuses, ColumnFacts
  <2> QED BY <1>2, <2>2, ColumnFacts DEF Active
<1>3. CASE control \notin Columns
  <2>1. control \in {"text", "role", "answers"} /\ {"text", "role", "answers"} \cap Columns = {}
    BY <1>3, ColumnFacts
  <2>2. CASE control = "text"
    BY <1>1, <2>1, <2>2 DEF Excludes, Active
  <2>3. CASE control = "role"
    BY <1>1, <2>1, <2>3 DEF Excludes, Active
  <2>4. CASE control = "answers"
    <3>1. ~(AnswerFilter(t) /\ TagFilter(t))
      BY <1>1, <2>1, <2>4 DEF Excludes
    <3>2. filter.answers # {}
      BY <3>1 DEF AnswerFilter, TagFilter
    <3> QED BY <2>1, <2>4, <3>2 DEF Active
  <2> QED BY <2>1, <2>2, <2>3, <2>4
<1> QED BY <1>2, <1>3

LEMMA DigitsLength ==
  ASSUME NEW n \in Nat
  PROVE  Len(Digits(n)) = IF n < 10 THEN 1 ELSE 2
BY DEF Digits

LEMMA LengthTells ==
  ASSUME NEW m \in Nat, NEW n \in Nat, Len(Digits(m)) = Len(Digits(n))
  PROVE  m < 10 <=> n < 10
<1>1. PICK k : k = Len(Digits(m)) /\ k = Len(Digits(n))
  OBVIOUS
<1>2. k = (IF m < 10 THEN 1 ELSE 2) /\ k = (IF n < 10 THEN 1 ELSE 2)
  BY <1>1, DigitsLength
<1> QED BY <1>2

LEMMA FirstStays ==
  ASSUME NEW s \in Seq(Int), NEW t \in Seq(Int), 1 \in DOMAIN s
  PROVE  s \o t \in Seq(Int) /\ 1 \in DOMAIN (s \o t) /\ (s \o t)[1] = s[1]
<1>1. /\ s \o t \in Seq(Int) /\ Len(s \o t) = Len(s) + Len(t)
      /\ \A i \in 1 .. Len(s) + Len(t) : (s \o t)[i] = IF i <= Len(s) THEN s[i] ELSE t[i - Len(s)]
  BY ConcatProperties
<1>2. Len(s) \in Nat /\ Len(t) \in Nat /\ DOMAIN s = 1 .. Len(s)
  BY LenProperties
<1>3. DOMAIN (s \o t) = 1 .. Len(s \o t)
  BY <1>1, LenProperties
<1>4. 1 <= Len(s)
  BY <1>2
<1>5. 1 \in 1 .. Len(s) + Len(t)
  BY <1>2, <1>4
<1> QED BY <1>1, <1>3, <1>4, <1>5

LEMMA DateTexts ==
  ASSUME NEW d \in Dates
  PROVE  /\ DateText(d) \in Seq(Int) /\ 1 \in DOMAIN DateText(d) /\ DateText(d)[1] = d[1]
<1>1. PICK a, b, c \in Nat : a = d[1] /\ b = d[2] /\ c = d[3]
  BY DEF Dates
<1>2. \A n \in Nat : Digits(n) \in Seq(Int)
  BY DEF Digits
<1>3. <<a, 0>> \in Seq(Int) /\ 1 \in DOMAIN <<a, 0>> /\ <<a, 0>>[1] = a /\ <<0>> \in Seq(Int)
  OBVIOUS
<1>4. /\ <<a, 0>> \o Digits(b) \in Seq(Int) /\ 1 \in DOMAIN (<<a, 0>> \o Digits(b))
      /\ (<<a, 0>> \o Digits(b))[1] = a
  BY <1>2, <1>3, FirstStays
<1>5. /\ (<<a, 0>> \o Digits(b)) \o <<0>> \in Seq(Int) /\ 1 \in DOMAIN ((<<a, 0>> \o Digits(b)) \o <<0>>)
      /\ ((<<a, 0>> \o Digits(b)) \o <<0>>)[1] = a
  BY <1>3, <1>4, FirstStays
<1>6. /\ ((<<a, 0>> \o Digits(b)) \o <<0>>) \o Digits(c) \in Seq(Int)
      /\ 1 \in DOMAIN (((<<a, 0>> \o Digits(b)) \o <<0>>) \o Digits(c))
      /\ (((<<a, 0>> \o Digits(b)) \o <<0>>) \o Digits(c))[1] = a
  BY <1>2, <1>5, FirstStays
<1>7. DateText(d) = ((<<a, 0>> \o Digits(b)) \o <<0>>) \o Digits(c)
  BY <1>1 DEF DateText, Dash
<1> QED BY <1>1, <1>6, <1>7

\* Dates written with as many digits are compared as their texts are.
SameLength(d, e) == \A i \in {2, 3} : Len(Digits(d[i])) = Len(Digits(e[i]))
LEMMA TextsCompare ==
  ASSUME NEW d \in Dates, NEW e \in Dates, SameLength(d, e)
  PROVE  TextBefore(DateText(d), DateText(e)) <=> Before(d, e)
<1>1. /\ d[1] \in Nat /\ d[2] \in Nat /\ d[3] \in Nat /\ e[1] \in Nat /\ e[2] \in Nat /\ e[3] \in Nat
  BY DEF Dates
<1>2. (d[2] < 10 <=> e[2] < 10) /\ (d[3] < 10 <=> e[3] < 10)
  <2>1. Len(Digits(d[2])) = Len(Digits(e[2])) /\ Len(Digits(d[3])) = Len(Digits(e[3]))
    BY DEF SameLength
  <2> QED BY <1>1, <2>1, LengthTells
<1>3. d = e \/ d[1] # e[1]
  BY <1>2 DEF Dates
<1>4. PICK s, t : s = DateText(d) /\ t = DateText(e)
  OBVIOUS
<1>5. s \in Seq(Int) /\ t \in Seq(Int) /\ 1 \in DOMAIN s /\ 1 \in DOMAIN t /\ s[1] = d[1] /\ t[1] = e[1]
  BY <1>4, DateTexts
<1>6. CASE d = e
  <2>1. s = t /\ Len(s) \in Nat /\ \A i \in DOMAIN s : s[i] \in Int
    BY <1>4, <1>5, <1>6, LenProperties
  <2>2. ~TextBefore(s, t)
    BY <2>1 DEF TextBefore
  <2>3. ~Before(d, e)
    BY <1>1, <1>6 DEF Before
  <2> QED BY <1>4, <2>2, <2>3
<1>7. CASE d[1] < e[1]
  <2>1. TextBefore(s, t)
    <3>1. 1 \in DOMAIN s \cap DOMAIN t /\ s[1] < t[1] /\ \A j \in 1..(1 - 1) : s[j] = t[j]
      BY <1>5, <1>7
    <3> QED BY <3>1 DEF TextBefore
  <2>2. Before(d, e)
    BY <1>7 DEF Before
  <2> QED BY <1>4, <2>1, <2>2
<1>8. CASE e[1] < d[1]
  <2>1. s[1] # t[1] /\ ~(s[1] < t[1])
    <3>1. PICK a, b \in Nat : a = e[1] /\ b = d[1]
      BY <1>1
    <3>2. a < b
      BY <1>8, <3>1
    <3>3. s[1] = b /\ t[1] = a
      BY <1>5, <3>1
    <3> QED BY <3>2, <3>3
  <2>2. \A i \in DOMAIN s : i \in Nat /\ i >= 1
    BY <1>5, LenProperties
  <2>3. \A i \in DOMAIN s \cap DOMAIN t : ~(s[i] < t[i] /\ \A j \in 1..(i - 1) : s[j] = t[j])
    <3> SUFFICES ASSUME NEW i \in DOMAIN s, s[i] < t[i], \A j \in 1..(i - 1) : s[j] = t[j] PROVE FALSE
      OBVIOUS
    <3>1. i # 1 /\ i \in Nat /\ i >= 1
      BY <2>1, <2>2
    <3>2. 1 \in 1..(i - 1)
      BY <3>1
    <3> QED BY <2>1, <3>2
  <2>4. ~TextBefore(s, t)
    BY <1>5, <2>1, <2>3 DEF TextBefore
  <2>5. ~Before(d, e)
    BY <1>1, <1>8 DEF Before
  <2> QED BY <1>4, <2>4, <2>5
<1> QED BY <1>1, <1>3, <1>6, <1>7, <1>8

LEMMA DefaultsAre ==
  ASSUME NEW b
  PROVE  /\ DefaultStatuses(b) \in [Columns -> SUBSET Chosen]
         /\ \A c \in Columns : DefaultStatuses(b)[c] \subseteq StatusChoices[c] /\ StatusChoices[c] \subseteq Chosen
         /\ \A c \in Columns \ {"hakemus"} : DefaultStatuses(b)[c] = StatusChoices[c]
         /\ DefaultStatuses(b).hakemus = DefaultStatuses(b)["hakemus"]
<1>1. \A c \in Columns : StatusChoices[c] \subseteq Chosen
  BY DEF Chosen
<1>2. StatusChoices \in [Columns -> SUBSET Chosen]
  <2>1. StatusChoices = [c \in Columns |-> StatusChoices[c]]
    BY DEF StatusChoices, Columns
  <2> QED BY <1>1, <2>1
<1>3. PICK first \in SUBSET StatusChoices["hakemus"] : DefaultStatuses(b) = [StatusChoices EXCEPT !["hakemus"] = first]
  BY DEF DefaultStatuses, StatusChoices
<1>4. "hakemus" \in Columns
  BY ColumnFacts
<1> QED BY <1>1, <1>2, <1>3, <1>4

\* A filter of the open table is changed.
LEMMA FilterStep ==
  ASSUME ListInv, filter' \in Filters, \A c \in Columns : filter'.status[c] \subseteq StatusChoices[c],
         ~IsResolved(avoin) => \A c \in Columns \ {"hakemus"} : filter'.status[c] = filter.status[c],
         ListAct, ListsStay, UNCHANGED <<avoin, leftover>>
  PROVE  ListInv'
<1>1. /\ lists' = lists /\ resolved' = resolved /\ tiedot' = tiedot /\ searches' = searches /\ summaryUrl' = summaryUrl
      /\ windows' = windows /\ grants' = grants /\ hakuFilter' = hakuFilter /\ entangled' = entangled
      /\ avoin' = avoin /\ leftover' = leftover
  BY DEF ListsStay
<1>2. listUsed' \in [acts : Nat, windows : Nat, failures : Nat]
  BY DEF ListInv, ListTyped, ListAct
<1>3. ListTyped'
  BY <1>1, <1>2 DEF ListInv, ListTyped
<1>4. LeftoversTold'
  BY <1>1, ColumnFacts DEF ListInv, LeftoversTold, IsResolved, Active
<1>5. (entangled \/ OneWaits)'
  BY <1>1 DEF ListInv, OneWaits, Waits
<1> QED BY <1>3, <1>4, <1>5 DEF ListInv

LEMMA StatusListed ==
  ASSUME ListTyped, NEW column \in Columns, NEW set \in SUBSET StatusChoices[column],
         filter' = [filter EXCEPT !.status[column] = set]
  PROVE  /\ filter' \in Filters
         /\ \A c \in Columns : filter'.status[c] = IF c = column THEN set ELSE filter.status[c]
         /\ \A c \in Columns : filter'.status[c] \subseteq StatusChoices[c]
<1>1. set \in SUBSET Chosen
  BY DEF Chosen
<1>2. filter.status \in [Columns -> SUBSET Chosen]
  BY DEF ListTyped, Filters
<1>3. PICK status \in [Columns -> SUBSET Chosen] : status = [filter.status EXCEPT ![column] = set]
  BY <1>1, <1>2
<1>4. \A c \in Columns : status[c] = IF c = column THEN set ELSE filter.status[c]
  BY <1>2, <1>3
<1>5. filter' = [filter EXCEPT !.status = status]
  BY <1>3 DEF ListTyped, Filters
<1>6. filter' \in Filters /\ filter'.status = status
  BY <1>5 DEF ListTyped, Filters
<1> QED BY <1>4, <1>6 DEF ListTyped

LEMMA StatusFiltersKeep ==
  ASSUME ListInv, NEW column \in Columns,
         ClearStatusFilter(column) \/ \E s \in StatusChoices[column] : SetStatusFilter(column, s)
  PROVE  ListInv'
<1>1. ListTyped /\ ListAct /\ ListsStay /\ UNCHANGED <<avoin, leftover>> /\ column \in TableControls
  BY DEF ListInv, ClearStatusFilter, SetStatusFilter
<1>2. PICK set \in SUBSET StatusChoices[column] : filter' = [filter EXCEPT !.status[column] = set]
  <2>1. CASE ClearStatusFilter(column)
    BY <2>1 DEF ClearStatusFilter
  <2>2. CASE \E s \in StatusChoices[column] : SetStatusFilter(column, s)
    <3>1. PICK s \in StatusChoices[column] : SetStatusFilter(column, s)
      BY <2>2
    <3>2. PICK set : set = IF s \in filter.status[column] THEN filter.status[column] \ {s} ELSE filter.status[column] \cup {s}
      OBVIOUS
    <3>3. set \in SUBSET StatusChoices[column]
      BY <1>1, <3>2 DEF ListTyped
    <3>4. filter' = [filter EXCEPT !.status[column] = set]
      BY <3>1, <3>2 DEF SetStatusFilter
    <3> QED BY <3>3, <3>4
  <2> QED BY <2>1, <2>2
<1>3. /\ filter' \in Filters
      /\ \A c \in Columns : filter'.status[c] = IF c = column THEN set ELSE filter.status[c]
      /\ \A c \in Columns : filter'.status[c] \subseteq StatusChoices[c]
  BY <1>1, <1>2, StatusListed
<1>4. ~IsResolved(avoin) => \A c \in Columns \ {"hakemus"} : filter'.status[c] = filter.status[c]
  BY <1>1, <1>3, ColumnFacts
<1> QED BY <1>1, <1>3, <1>4, FilterStep

LEMMA OtherFiltersKeep ==
  ASSUME ListInv, SetText \/ OnClickRole \/ ClearFilters \/ ToggleShowAll \/ \E q \in Questions : SetAnswerFilter(q)
  PROVE  ListInv'
<1>1. ListTyped /\ ListAct /\ ListsStay /\ UNCHANGED <<avoin, leftover>>
  BY DEF ListInv, SetText, OnClickRole, ClearFilters, ToggleShowAll, SetAnswerFilter
<1>2. filter' \in Filters /\ filter'.status = filter.status
  <2>1. CASE SetText
    BY <1>1, <2>1 DEF SetText, ListTyped, Filters
  <2>2. CASE OnClickRole
    BY <1>1, <2>2 DEF OnClickRole, ListTyped, Filters
  <2>3. CASE ClearFilters
    BY <1>1, <2>3 DEF ClearFilters, ListTyped, Filters
  <2>4. CASE ToggleShowAll
    BY <1>1, <2>4 DEF ToggleShowAll, ListTyped, Filters
  <2>5. CASE \E q \in Questions : SetAnswerFilter(q)
    <3>1. PICK q \in Questions : SetAnswerFilter(q)
      BY <2>5
    <3>2. PICK set : set = IF q \in filter.answers THEN filter.answers \ {q} ELSE filter.answers \cup {q}
      OBVIOUS
    <3>3. set \in SUBSET Questions
      BY <1>1, <3>2 DEF ListTyped, Filters
    <3>4. filter' = [filter EXCEPT !.answers = set]
      BY <3>1, <3>2 DEF SetAnswerFilter
    <3> QED BY <1>1, <3>3, <3>4 DEF ListTyped, Filters
  <2> QED BY <2>1, <2>2, <2>3, <2>4, <2>5
<1>3. \A c \in Columns : filter'.status[c] \subseteq StatusChoices[c]
  BY <1>1, <1>2 DEF ListTyped
<1> QED BY <1>1, <1>2, <1>3, FilterStep

LEMMA DropdownKeeps ==
  ASSUME ListInv, NEW h \in Haut, AvustushakuDropdown(h)
  PROVE  ListInv'
<1>0. ListTyped /\ ListAct /\ avoin' = h /\ "hakemus" \in Columns
  BY ColumnFacts DEF ListInv, AvustushakuDropdown
<1>1. /\ lists' = lists /\ resolved' = resolved /\ tiedot' = tiedot /\ searches' = searches /\ summaryUrl' = summaryUrl
      /\ windows' = windows /\ grants' = grants /\ hakuFilter' = hakuFilter /\ entangled' = entangled
  BY DEF ListsStay, AvustushakuDropdown
<1>2. listUsed' \in [acts : Nat, windows : Nat, failures : Nat]
  BY <1>0 DEF ListTyped, ListAct
<1>3. /\ filter' \in Filters /\ \A c \in Columns : filter'.status[c] \subseteq StatusChoices[c]
      /\ \A c \in Columns \ {"hakemus"} : filter'.status[c] = filter.status[c]
  <2>1. CASE filter' = filter
    BY <1>0, <2>1 DEF ListTyped
  <2>2. CASE filter' = [filter EXCEPT !.status.hakemus = DefaultStatuses(IsResolved(h)).hakemus]
    <3>1. PICK set : set = DefaultStatuses(IsResolved(h)).hakemus
      OBVIOUS
    <3>2. set \in SUBSET StatusChoices["hakemus"]
      BY <1>0, <3>1, DefaultsAre
    <3>3. PICK column \in Columns : column = "hakemus"
      BY <1>0
    <3>4. filter' = [filter EXCEPT !.status[column] = set]
      BY <2>2, <3>1, <3>3
    <3>5. set \in SUBSET StatusChoices[column]
      BY <3>2, <3>3
    <3>6. /\ filter' \in Filters
          /\ \A c \in Columns : filter'.status[c] = IF c = column THEN set ELSE filter.status[c]
          /\ \A c \in Columns : filter'.status[c] \subseteq StatusChoices[c]
      BY <1>0, <3>3, <3>4, <3>5, StatusListed
    <3> QED BY <3>3, <3>6
  <2> QED BY <2>1, <2>2 DEF AvustushakuDropdown
<1>4. ListTyped'
  BY <1>0, <1>1, <1>2, <1>3 DEF ListTyped
<1>5. LeftoversTold'
  <2> SUFFICES ASSUME ~IsResolved(h), NEW c \in Columns \ {"hakemus"}, Active(c) PROVE c \in leftover'
    BY <1>0, <1>1, <1>3, ColumnFacts DEF LeftoversTold, IsResolved, Active
  <2>1. CASE IsResolved(avoin)
    <3>1. leftover' = {d \in Columns \ {"hakemus"} : Active(d)}
      BY <2>1 DEF AvustushakuDropdown
    <3> QED BY <3>1
  <2>2. CASE ~IsResolved(avoin)
    <3>1. (IsResolved(h) # IsResolved(avoin)) = FALSE
      BY <2>2 DEF IsResolved
    <3>2. leftover' = leftover
      BY <3>1 DEF AvustushakuDropdown
    <3> QED BY <2>2, <3>2 DEF ListInv, LeftoversTold
  <2> QED BY <2>1, <2>2
<1>6. (entangled \/ OneWaits)'
  BY <1>1 DEF ListInv, OneWaits, Waits
<1> QED BY <1>4, <1>5, <1>6 DEF ListInv

\* The list of grants.
LEMMA GrantFiltersKeep ==
  ASSUME ListInv, \/ \E end \in {"from", "to"}, d \in Dates : SetDuration(end, d)
                  \/ ClearDurations \/ ClearStatuses
                  \/ \E s \in HakuStatuses : ToggleStatus(s)
  PROVE  ListInv'
<1>0. ListTyped /\ ListAct /\ ApplicationsStay
  BY DEF ListInv, SetDuration, ToggleStatus, ClearDurations, ClearStatuses
<1>1. /\ lists' = lists /\ resolved' = resolved /\ tiedot' = tiedot /\ avoin' = avoin /\ filter' = filter
      /\ searches' = searches /\ summaryUrl' = summaryUrl /\ windows' = windows /\ grants' = grants
      /\ leftover' = leftover /\ entangled' = entangled
  BY <1>0 DEF ApplicationsStay
<1>2. listUsed' \in [acts : Nat, windows : Nat, failures : Nat]
  BY <1>0 DEF ListTyped, ListAct
<1>3. hakuFilter' \in GrantFilters
  <2>1. CASE \E end \in {"from", "to"}, d \in Dates : SetDuration(end, d)
    BY <1>0, <2>1 DEF SetDuration, ListTyped, GrantFilters
  <2>2. CASE ClearDurations
    BY <1>0, <2>2 DEF ClearDurations, ListTyped, GrantFilters
  <2>3. CASE ClearStatuses
    BY <1>0, <2>3 DEF ClearStatuses, ListTyped, GrantFilters
  <2>4. CASE \E s \in HakuStatuses : ToggleStatus(s)
    <3>1. PICK s \in HakuStatuses : ToggleStatus(s)
      BY <2>4
    <3>2. PICK set : set = IF s \in hakuFilter.statuses THEN hakuFilter.statuses \ {s} ELSE hakuFilter.statuses \cup {s}
      OBVIOUS
    <3>3. set \in SUBSET HakuStatuses
      BY <1>0, <3>2 DEF ListTyped, GrantFilters
    <3>4. hakuFilter' = [hakuFilter EXCEPT !.statuses = set]
      BY <3>1, <3>2 DEF ToggleStatus
    <3> QED BY <1>0, <3>3, <3>4 DEF ListTyped, GrantFilters
  <2> QED BY <2>1, <2>2, <2>3, <2>4
<1>4. ListTyped'
  BY <1>0, <1>1, <1>2, <1>3 DEF ListTyped
<1>5. LeftoversTold'
  BY <1>1, ColumnFacts DEF ListInv, LeftoversTold, IsResolved, Active
<1>6. (entangled \/ OneWaits)'
  BY <1>1 DEF ListInv, OneWaits, Waits
<1> QED BY <1>4, <1>5, <1>6 DEF ListInv

\* Steps of the windows and of the requests leave the filters alone.
LEMMA WindowStep ==
  ASSUME ListInv, UNCHANGED <<resolved, tiedot, avoin, filter, grants, hakuFilter, leftover>>,
         \A w \in windows' : w \in [id : Nat, of : HakuListed, shows : ListedOrNone],
         \A s \in searches' : s \in [id : Nat, of : HakuListed, at : {"sent", "stored"}],
         summaryUrl' \in ListedOrNone, listUsed' \in [acts : Nat, windows : Nat, failures : Nat],
         entangled' \in BOOLEAN, entangled' \/ OneWaits'
  PROVE  ListInv'
<1>1. ListTyped'
  BY DEF ListInv, ListTyped
<1>2. LeftoversTold'
  BY ColumnFacts DEF ListInv, LeftoversTold, IsResolved, Active
<1> QED BY <1>1, <1>2 DEF ListInv

LEMMA NoListingIs == NoListing \in ListedOrNone /\ \A w : w.of \in HakuListed => w.of # NoListing
<1>1. NoListing = [haku |-> NoHaku, hakemukset |-> {}]
  BY DEF NoListing, Listing
<1>2. NoListing.haku = NoHaku /\ NoListing \in ListedOrNone
  BY <1>1 DEF ListedOrNone
<1>3. \A l \in HakuListed : l.haku \in Haut
  BY DEF HakuListed
<1> QED BY <1>2, <1>3, NoHakuAssumption

LEMMA ClickKeeps ==
  ASSUME ListInv, OnYhteenvetoClick
  PROVE  ListInv'
<1>0. ListTyped /\ UNCHANGED <<resolved, tiedot, avoin, filter, grants, hakuFilter, leftover>> /\ summaryUrl' = summaryUrl
      /\ entangled' = (entangled \/ \E w \in windows : Waits(w)) /\ listUsed' = [listUsed EXCEPT !.windows = @ + 1, !.acts = @ + 1]
  BY DEF ListInv, OnYhteenvetoClick
<1>1. PICK chosen : chosen = Listing(avoin, FilteredList)
  OBVIOUS
<1>2. chosen \in HakuListed
  BY <1>0, <1>1 DEF ListTyped, Listing, HakuListed, FilteredList, HakemusList
<1>3. PICK n \in Nat : n = listUsed.windows
  BY <1>0 DEF ListTyped
<1>4. PICK none \in ListedOrNone : none = NoListing
  BY NoListingIs
<1>5. PICK w : w = [id |-> n, of |-> chosen, shows |-> none]
  OBVIOUS
<1>6. PICK s : s = [id |-> n, of |-> chosen, at |-> "sent"]
  OBVIOUS
<1>7. /\ w \in [id : Nat, of : HakuListed, shows : ListedOrNone] /\ w.of = chosen /\ w.shows = NoListing
      /\ s \in [id : Nat, of : HakuListed, at : {"sent", "stored"}] /\ s.of = chosen
  BY <1>2, <1>3, <1>4, <1>5, <1>6
<1>8. windows' = windows \cup {w} /\ searches' = searches \cup {s}
  BY <1>1, <1>3, <1>4, <1>5, <1>6 DEF OnYhteenvetoClick
<1>9. listUsed' \in [acts : Nat, windows : Nat, failures : Nat]
  <2>1. listUsed \in [acts : Nat, windows : Nat, failures : Nat]
    BY <1>0 DEF ListTyped
  <2>2. listUsed' = [listUsed EXCEPT !.windows = @ + 1, !.acts = @ + 1]
    BY <1>0
  <2>3. PICK taken : taken = [listUsed EXCEPT !.windows = @ + 1]
    OBVIOUS
  <2>4. taken \in [acts : Nat, windows : Nat, failures : Nat] /\ taken.acts = listUsed.acts
    BY <2>1, <2>3
  <2>5. listUsed' = [taken EXCEPT !.acts = @ + 1]
    BY <2>1, <2>2, <2>3
  <2> QED BY <2>4, <2>5
<1>10. ASSUME ~entangled' PROVE OneWaits'
  <2>1. OneWaits /\ \A v \in windows : ~Waits(v)
    BY <1>0, <1>10 DEF ListInv
  <2>2. searches = {} /\ summaryUrl = NoListing
    BY <2>1 DEF OneWaits
  <2>3. \A v \in windows' : Waits(v)' => v = w
    BY <1>8, <2>1 DEF Waits
  <2> QED BY <1>0, <1>7, <1>8, <2>1, <2>2, <2>3 DEF OneWaits, Waits
<1>11. entangled' \in BOOLEAN
  BY <1>0 DEF ListTyped
<1> QED BY <1>0, <1>7, <1>8, <1>9, <1>10, <1>11, WindowStep DEF ListTyped

LEMMA SearchesKeep ==
  ASSUME ListInv, NEW s \in searches, PutSearches(s) \/ SetSummaryUrl(s) \/ SearchFails(s)
  PROVE  ListInv'
<1>0. ListTyped /\ UNCHANGED <<resolved, tiedot, avoin, filter, grants, hakuFilter, leftover>> /\ windows' = windows
      /\ s \in [id : Nat, of : HakuListed, at : {"sent", "stored"}]
  BY DEF ListInv, ListTyped, PutSearches, SetSummaryUrl, SearchFails
<1>1. CASE PutSearches(s)
  <2>1. PICK t : t = [s EXCEPT !.at = "stored"]
    OBVIOUS
  <2>2. t \in [id : Nat, of : HakuListed, at : {"sent", "stored"}] /\ t.of = s.of
    BY <1>0, <2>1
  <2>3. searches' = (searches \ {s}) \cup {t} /\ summaryUrl' = summaryUrl /\ listUsed' = listUsed /\ entangled' = entangled
    BY <1>1, <2>1 DEF PutSearches
  <2>4. ASSUME ~entangled PROVE OneWaits'
    <3>1. OneWaits
      BY <2>4 DEF ListInv
    <3> QED BY <1>0, <2>2, <2>3, <3>1 DEF OneWaits, Waits
  <2> QED BY <1>0, <2>2, <2>3, <2>4, WindowStep DEF ListTyped
<1>2. CASE SetSummaryUrl(s)
  <2>1. searches' = searches \ {s} /\ summaryUrl' = s.of /\ listUsed' = listUsed /\ entangled' = entangled
    BY <1>2 DEF SetSummaryUrl
  <2>2. s.of \in ListedOrNone
    BY <1>0 DEF HakuListed, ListedOrNone
  <2>3. ASSUME ~entangled PROVE OneWaits'
    <3>1. OneWaits
      BY <2>3 DEF ListInv
    <3>2. searches' = {}
      BY <2>1, <3>1 DEF OneWaits
    <3>3. \A w \in windows : Waits(w) => s.of = w.of
      BY <3>1 DEF OneWaits
    <3>4. \E w \in windows : Waits(w)
      BY <3>1 DEF OneWaits
    <3> QED BY <1>0, <2>1, <3>1, <3>2, <3>3, <3>4 DEF OneWaits, Waits
  <2> QED BY <1>0, <2>1, <2>2, <2>3, WindowStep DEF ListTyped
<1>3. CASE SearchFails(s)
  <2>1. searches' = searches \ {s} /\ summaryUrl' = summaryUrl /\ listUsed' = [listUsed EXCEPT !.failures = @ + 1] /\ entangled' = TRUE
    BY <1>3 DEF SearchFails
  <2>2. listUsed' \in [acts : Nat, windows : Nat, failures : Nat]
    BY <1>0, <2>1 DEF ListTyped
  <2> QED BY <1>0, <2>1, <2>2, WindowStep DEF ListTyped
<1> QED BY <1>1, <1>2, <1>3

LEMMA PollKeeps ==
  ASSUME ListInv, NEW w \in windows, PollSummaryUrl(w)
  PROVE  ListInv'
<1>0. ListTyped /\ UNCHANGED <<resolved, tiedot, avoin, filter, grants, hakuFilter, leftover>> /\ searches' = searches
      /\ listUsed' = listUsed /\ entangled' = entangled /\ summaryUrl' = NoListing /\ Waits(w) /\ summaryUrl # NoListing
      /\ w \in [id : Nat, of : HakuListed, shows : ListedOrNone] /\ summaryUrl \in ListedOrNone
  BY DEF ListInv, ListTyped, PollSummaryUrl
<1>1. PICK v : v = [w EXCEPT !.shows = summaryUrl]
  OBVIOUS
<1>2. v \in [id : Nat, of : HakuListed, shows : ListedOrNone] /\ v.of = w.of /\ v.shows = summaryUrl
  BY <1>0, <1>1
<1>3. windows' = (windows \ {w}) \cup {v}
  BY <1>1 DEF PollSummaryUrl
<1>4. ASSUME ~entangled PROVE OneWaits'
  <2>1. OneWaits
    BY <1>4 DEF ListInv
  <2>2. searches = {} /\ v.shows = v.of
    BY <1>0, <1>2, <2>1 DEF OneWaits
  <2>3. \A u \in windows' : ~Waits(u)' /\ u.shows = u.of
    BY <1>0, <1>2, <1>3, <2>1, <2>2 DEF OneWaits, Waits
  <2> QED BY <1>0, <2>2, <2>3 DEF OneWaits
<1> QED BY <1>0, <1>2, <1>3, <1>4, NoListingIs, WindowStep DEF ListTyped

LEMMA ListStart == ListInit => ListInv
<1> SUFFICES ASSUME ListInit PROVE ListInv
  OBVIOUS
<1>1. PICK status : status = DefaultStatuses(IsResolved(avoin))
  OBVIOUS
<1>2. /\ filter = [status |-> status, text |-> FALSE, role |-> NoHaku, answers |-> {}, showAll |-> FALSE]
      /\ searches = {} /\ summaryUrl = NoListing /\ windows = {} /\ leftover = {} /\ entangled = FALSE
      /\ listUsed = [acts |-> 0, windows |-> 0, failures |-> 0]
  BY <1>1 DEF ListInit
<1>3. /\ status \in [Columns -> SUBSET Chosen] /\ \A c \in Columns : status[c] \subseteq StatusChoices[c]
      /\ \A c \in Columns \ {"hakemus"} : status[c] = StatusChoices[c]
  BY <1>1, DefaultsAre
<1>4. filter \in Filters /\ filter.status = status
  BY <1>2, <1>3 DEF Filters
<1>5. hakuFilter \in GrantFilters
  <2>1. PICK none : none = NoDate
    OBVIOUS
  <2>2. hakuFilter = [statuses |-> HakuStatuses, from |-> none, to |-> none]
    BY <2>1 DEF ListInit
  <2> QED BY <2>1, <2>2 DEF GrantFilters
<1>6. avoin \in Haut /\ tiedot \in [Haut -> Tiedot] /\ grants \in [Haut -> GrantDays]
  <2>1. avoin \in Haut
    BY DEF ListInit
  <2>2. Ordinary \in Tiedot
    BY DEF Tiedot
  <2>3. \E t \in Tiedot : tiedot = [h \in Haut |-> t]
    BY <2>2 DEF ListInit
  <2>4. \E g \in GrantDays : grants = [h \in Haut |-> g]
    <3>1. <<2023, 9, 30>> \in Dates /\ "published" \in HakuStatuses
      BY DEF Dates, HakuStatuses
    <3>2. PICK d \in Dates : d = <<2023, 9, 30>>
      BY <3>1
    <3>3. [status |-> "published", starts |-> d, ends |-> d] \in GrantDays
      BY <3>1, <3>2 DEF GrantDays
    <3>4. \/ grants = [h \in Haut |-> [status |-> "published", starts |-> d, ends |-> d]]
          \/ \E g \in GrantDays : grants = [h \in Haut |-> g]
      BY <3>2 DEF ListInit, GrantDays
    <3> QED BY <3>3, <3>4
  <2> QED BY <2>1, <2>3, <2>4
<1>7. ListTyped
  BY <1>2, <1>3, <1>4, <1>5, <1>6, NoListingIs DEF ListTyped
<1>8. LeftoversTold
  BY <1>3, <1>4, ColumnFacts DEF LeftoversTold, Active
<1>9. OneWaits
  BY <1>2 DEF OneWaits
<1> QED BY <1>7, <1>8, <1>9 DEF ListInv

LEMMA ListUnmoved == ListInv /\ UNCHANGED listVars => ListInv'
<1> SUFFICES ASSUME ListInv, UNCHANGED listVars PROVE ListInv'
  OBVIOUS
<1>1. /\ lists' = lists /\ resolved' = resolved /\ tiedot' = tiedot /\ avoin' = avoin /\ filter' = filter
      /\ searches' = searches /\ summaryUrl' = summaryUrl /\ windows' = windows /\ grants' = grants
      /\ hakuFilter' = hakuFilter /\ listUsed' = listUsed /\ leftover' = leftover /\ entangled' = entangled
  BY DEF listVars
<1>2. ListTyped'
  BY <1>1 DEF ListInv, ListTyped
<1>3. LeftoversTold'
  BY <1>1, ColumnFacts DEF ListInv, LeftoversTold, IsResolved, Active
<1>4. (entangled \/ OneWaits)'
  BY <1>1 DEF ListInv, OneWaits, Waits
<1> QED BY <1>2, <1>3, <1>4 DEF ListInv

LEMMA ListStays == ListInv /\ ListNext => ListInv'
<1> SUFFICES ASSUME ListInv, ListNext PROVE ListInv'
  OBVIOUS
<1>1. CASE \E c \in Columns : ClearStatusFilter(c) \/ \E s \in StatusChoices[c] : SetStatusFilter(c, s)
  BY <1>1, StatusFiltersKeep
<1>2. CASE SetText \/ OnClickRole \/ ClearFilters \/ ToggleShowAll \/ \E q \in Questions : SetAnswerFilter(q)
  BY <1>2, OtherFiltersKeep
<1>3. CASE \E h \in Haut : AvustushakuDropdown(h)
  BY <1>3, DropdownKeeps
<1>4. CASE OnYhteenvetoClick
  BY <1>4, ClickKeeps
<1>5. CASE \E s \in searches : PutSearches(s) \/ SetSummaryUrl(s) \/ SearchFails(s)
  BY <1>5, SearchesKeep
<1>6. CASE \E w \in windows : PollSummaryUrl(w)
  BY <1>6, PollKeeps
<1>7. CASE \/ \E end \in {"from", "to"}, d \in Dates : SetDuration(end, d)
           \/ ClearDurations \/ ClearStatuses
           \/ \E s \in HakuStatuses : ToggleStatus(s)
  BY <1>7, GrantFiltersKeep
<1> QED BY Zenon, <1>1, <1>2, <1>3, <1>4, <1>5, <1>6, <1>7 DEF ListNext

LEMMA ListTyping == ListInv => ListTypeOK
<1> SUFFICES ASSUME ListInv PROVE ListTypeOK
  OBVIOUS
<1>1. ListTyped
  BY DEF ListInv
<1>2. filter.role \in Haut \cup {NoHaku} /\ filter.answers \subseteq Questions
  BY <1>1 DEF ListTyped, Filters
<1>3. \A w \in windows : w.of.haku \in Haut /\ w.shows.haku \in Haut \cup {NoHaku}
  BY <1>1 DEF ListTyped, HakuListed, ListedOrNone
<1> QED BY <1>1, <1>2, <1>3 DEF ListTyped, ListTypeOK

LEMMA ListIsTheOneClicked == ListInv => DecisionListIsTheOneClicked
BY DEF ListInv, OneWaits, DecisionListIsTheOneClicked, Waits

LEMMA ListHides == ListInv => ListHidesForAReason
<1> SUFFICES ASSUME ListInv PROVE ListHidesForAReason
  OBVIOUS
<1>0. ListTyped /\ LeftoversTold
  BY DEF ListInv
<1>1. ASSUME NEW h \in HakemusList \ FilteredList
      PROVE  \E c \in Controls : Excludes(c, tiedot[h]) /\ c \in leftover \cup {d \in TableControls : Active(d)}
  <2>1. h \in Haut
    BY <1>0 DEF HakemusList, ListTyped
  <2>2. PICK c \in Controls : Excludes(c, tiedot[h])
    BY <1>1 DEF FilteredList
  <2>3. Active(c)
    BY <1>0, <2>1, <2>2, ExcludesWhenActive
  <2>4. c \in TableControls \/ (~IsResolved(avoin) /\ c \in Columns \ {"hakemus"})
    BY ColumnFacts
  <2>5. c \in leftover \cup {d \in TableControls : Active(d)}
    BY <1>0, <2>3, <2>4 DEF LeftoversTold
  <2> QED BY <2>2, <2>5
<1>2. ASSUME NEW h \in HakemusList, filter.answers \subseteq tiedot[h].answered \ {"checkboxButton"}
      PROVE  ~Excludes("answers", tiedot[h])
  <2>1. AnswerFilter(tiedot[h]) /\ TagFilter(tiedot[h])
    BY <1>2 DEF AnswerFilter, TagFilter
  <2>2. "answers" \notin Columns
    BY ColumnFacts
  <2> QED BY <2>1, <2>2 DEF Excludes
<1>3. ASSUME NEW h \in Haut,
             hakuFilter.from # NoDate => SameLength(grants[h].starts, hakuFilter.from),
             hakuFilter.to # NoDate => SameLength(grants[h].ends, hakuFilter.to)
      PROVE  ~DurationOK(h) <=> \/ hakuFilter.from # NoDate /\ Before(grants[h].starts, hakuFilter.from)
                                \/ hakuFilter.to # NoDate /\ Before(hakuFilter.to, grants[h].ends)
  <2>1. /\ hakuFilter.from # NoDate => hakuFilter.from \in Dates
        /\ hakuFilter.to # NoDate => hakuFilter.to \in Dates
        /\ grants[h].starts \in Dates /\ grants[h].ends \in Dates
    BY <1>0 DEF ListTyped, GrantFilters, GrantDays
  <2>2. hakuFilter.from # NoDate =>
          (TextBefore(DateText(grants[h].starts), DateText(hakuFilter.from)) <=> Before(grants[h].starts, hakuFilter.from))
    BY <1>3, <2>1, TextsCompare
  <2>3. hakuFilter.to # NoDate =>
          (TextBefore(DateText(hakuFilter.to), DateText(grants[h].ends)) <=> Before(hakuFilter.to, grants[h].ends))
    <3> SUFFICES ASSUME hakuFilter.to # NoDate
                 PROVE  TextBefore(DateText(hakuFilter.to), DateText(grants[h].ends)) <=> Before(hakuFilter.to, grants[h].ends)
      OBVIOUS
    <3>1. SameLength(hakuFilter.to, grants[h].ends)
      BY <1>3 DEF SameLength
    <3> QED BY <2>1, <3>1, TextsCompare
  <2> QED BY <2>2, <2>3 DEF DurationOK
<1>4. \A h \in Haut :
        (hakuFilter.from # NoDate => SameLength(grants[h].starts, hakuFilter.from))
          /\ (hakuFilter.to # NoDate => SameLength(grants[h].ends, hakuFilter.to)) =>
        (~DurationOK(h) <=> \/ hakuFilter.from # NoDate /\ Before(grants[h].starts, hakuFilter.from)
                            \/ hakuFilter.to # NoDate /\ Before(hakuFilter.to, grants[h].ends))
  BY <1>3
<1>5. /\ \A h \in HakemusList \ FilteredList :
           \E c \in Controls : Excludes(c, tiedot[h]) /\ c \in leftover \cup {d \in TableControls : Active(d)}
      /\ \A h \in HakemusList :
           filter.answers \subseteq tiedot[h].answered \ {"checkboxButton"} => ~Excludes("answers", tiedot[h])
  BY <1>1, <1>2
<1> QED BY Zenon, <1>4, <1>5 DEF ListHidesForAReason, SameLength

-----------------------------------------------------------------------------
(* All pages                                                                 *)

\* A behaviour takes place in one page; the others stay as they began.
PagesInv ==
  /\ place \in Places
  /\ ArviointiInv
  /\ EditorInv /\ EditorBusy
  /\ ToolsInv
  /\ CodesInv /\ RestInv
  /\ ListInv

LEMMA PagesStart ==
  ASSUME AllInit
  PROVE  PagesInv
<1>1. place \in Places /\ Init /\ EditorInit /\ ToolsInit /\ KoodiInit /\ ListInit
  BY Zenon DEF AllInit
<1> QED BY Zenon, <1>1, InitInv, EditorStart, BusyStart, ToolsBegin, InitEstablishes, RestStarts, ListStart
           DEF PagesInv

\* A page that is left alone.
LEMMA ArviointiAlone ==
  ASSUME ArviointiInv, UNCHANGED arviointiVars
  PROVE  ArviointiInv'
<1>1. [Next]_vars
  BY Zenon DEF arviointiVars
<1> QED BY Zenon, <1>1, NextInv
LEMMA EditorAlone ==
  ASSUME EditorInv, EditorBusy, UNCHANGED editorVars
  PROVE  EditorInv' /\ EditorBusy'
BY EditorUnmoved, BusyUnmoved
LEMMA KooditAlone ==
  ASSUME CodesInv, RestInv, UNCHANGED koodiVars
  PROVE  CodesInv' /\ RestInv'
<1>1. [KoodiNext]_koodiVars
  OBVIOUS
<1> QED BY <1>1, NextPreserves, RestUnmoved
LEMMA ListatAlone ==
  ASSUME ListInv, UNCHANGED listVars
  PROVE  ListInv'
BY ListUnmoved

LEMMA PagesStay ==
  ASSUME PagesInv, [AllNext]_allVars
  PROVE  PagesInv'
<1>0. /\ place \in Places /\ ArviointiInv /\ EditorInv /\ EditorBusy /\ ToolsInv /\ CodesInv /\ RestInv /\ ListInv
  BY Zenon DEF PagesInv
<1>1. ASSUME InArviointi PROVE PagesInv'
  <2>1. /\ Next /\ UNCHANGED place /\ UNCHANGED editorVars /\ UNCHANGED toolVars /\ UNCHANGED koodiVars
        /\ UNCHANGED listVars
    BY Zenon, <1>1 DEF InArviointi
  <2>2. ArviointiInv'
    BY Zenon, <1>0, <2>1, NextInv
  <2> QED BY Zenon, <1>0, <2>1, <2>2, EditorAlone, ToolsUnmoved, KooditAlone, ListatAlone DEF PagesInv
<1>2. ASSUME InEditori PROVE PagesInv'
  <2>1. /\ EditorNext /\ UNCHANGED place /\ UNCHANGED arviointiVars /\ UNCHANGED toolVars /\ UNCHANGED koodiVars
        /\ UNCHANGED listVars
    BY Zenon, <1>2 DEF InEditori
  <2>2. EditorTyped
    BY <1>0 DEF EditorInv
  <2>3. EditorInv' /\ EditorBusy'
    BY Zenon, <1>0, <2>1, <2>2, EditorStays, BusyGoesOn
  <2> QED BY Zenon, <1>0, <2>1, <2>3, ArviointiAlone, ToolsUnmoved, KooditAlone, ListatAlone DEF PagesInv
<1>3. ASSUME InToiminnot PROVE PagesInv'
  <2>1. /\ ToolsNext /\ UNCHANGED place /\ UNCHANGED arviointiVars /\ UNCHANGED editorVars /\ UNCHANGED koodiVars
        /\ UNCHANGED listVars
    BY Zenon, <1>3 DEF InToiminnot
  <2> QED BY Zenon, <1>0, <2>1, ToolsGoOn, ArviointiAlone, EditorAlone, KooditAlone, ListatAlone DEF PagesInv
<1>4. ASSUME InKoodienhallinta PROVE PagesInv'
  <2>1. /\ KoodiNext /\ UNCHANGED place /\ UNCHANGED arviointiVars /\ UNCHANGED editorVars /\ UNCHANGED toolVars
        /\ UNCHANGED listVars
    BY Zenon, <1>4 DEF InKoodienhallinta
  <2>2. CodesInv'
    BY Zenon, <1>0, <2>1, NextPreserves
  <2>3. RestInv'
    BY Zenon, <1>0, <2>1, <2>2, RestStays
  <2> QED BY Zenon, <1>0, <2>1, <2>2, <2>3, ToolsUnmoved, ArviointiAlone, EditorAlone, ListatAlone DEF PagesInv
<1>5. ASSUME InListaus PROVE PagesInv'
  <2>1. /\ ListNext /\ UNCHANGED place /\ UNCHANGED arviointiVars /\ UNCHANGED editorVars /\ UNCHANGED toolVars
        /\ UNCHANGED koodiVars
    BY Zenon, <1>5 DEF InListaus
  <2> QED BY Zenon, <1>0, <2>1, ListStays, ToolsUnmoved, ArviointiAlone, EditorAlone, KooditAlone DEF PagesInv
<1>6. ASSUME UNCHANGED allVars PROVE PagesInv'
  <2>1. /\ UNCHANGED place /\ UNCHANGED arviointiVars /\ UNCHANGED editorVars /\ UNCHANGED toolVars
        /\ UNCHANGED koodiVars /\ UNCHANGED listVars
    BY Zenon, <1>6 DEF allVars
  <2> QED BY Zenon, <1>0, <2>1, ToolsUnmoved, ArviointiAlone, EditorAlone, KooditAlone, ListatAlone DEF PagesInv
<1> QED BY Zenon, <1>1, <1>2, <1>3, <1>4, <1>5, <1>6 DEF AllNext

\* What each page keeps, all of them keep.
THEOREM PagesInvariance == AllSpec => []PagesInv
<1>1. AllInit => PagesInv
  BY PagesStart
<1>2. PagesInv /\ [AllNext]_allVars => PagesInv'
  BY PagesStay
<1> QED BY <1>1, <1>2, PTL DEF AllSpec

\* The variables of the page that a behaviour takes place in have their types.
THEOREM VirkailijaTyping == AllSpec => []VirkailijaTypeOK
<1>1. ASSUME PagesInv PROVE VirkailijaTypeOK
  <2>1. TypeOK /\ EditorTypeOK /\ ToolsTypeOK /\ ListTypeOK
    BY <1>1, InvTypes, EditorKeeps, ToolsTyping, ListTyping DEF PagesInv
  <2>2. KoodiTypeOK
    BY <1>1 DEF PagesInv, CodesInv, KoodiTyped, ListOK, KoodiRow, KoodiTypeOK
  <2>3. place \in {"arviointi", "virkailijat", "editori", "toiminnot", "koodit", "listat"}
    BY <1>1 DEF PagesInv, Places
  <2> QED BY <2>1, <2>2, <2>3 DEF VirkailijaTypeOK
<1> QED BY <1>1, PagesInvariance, PTL

\* A page at rest that reports no error shows what the server stores, which is what the officer
\* gave; a list hides what it was asked to hide; a decision list is of the grant it was opened for.
THEOREM PagesShowWhatIsStored == AllSpec => []PagesAgree
<1>1. PagesInv => PagesAgree
  BY Zenon, ListHides, ListIsTheOneClicked, EditorKeeps, ToolsAreAgreed, RestAgrees DEF PagesInv, PagesAgree
<1> QED BY <1>1, PagesInvariance, PTL

\* A page that says it is busy waits for a delay or an answer that will change what it says,
\* except for the causes SavingHasAReason, BusyHasAReason and ToolsBusyHasAReason name.
THEOREM IndicatorsEnd == AllSpec => []IndicatorsHaveAReason
<1>1. ASSUME PagesInv PROVE IndicatorsHaveAReason
  <2>1. SavingHasAReason
    BY <1>1 DEF PagesInv, ArviointiInv
  <2>2. BusyHasAReason
    BY <1>1, BusyHasReason DEF PagesInv, EditorInv
  <2>3. ToolsBusyHasAReason
    BY <1>1, ToolsSendOnce DEF PagesInv
  <2> QED BY Zenon, <2>1, <2>2, <2>3 DEF IndicatorsHaveAReason
<1> QED BY <1>1, PagesInvariance, PTL

\* send-paatos, createPaymentBatches: a decision is mailed once, unless two requests to mail the
\* decisions of a grant overlapped or one was cut off between a mail and its mark; payments go out
\* with the document of every instalment.
THEOREM SentWhole == AllSpec => []SentOnceAndWhole
<1>1. PagesInv => SentOnceAndWhole
  BY Zenon, ToolsSendOnce DEF PagesInv, SentOnceAndWhole
<1> QED BY <1>1, PagesInvariance, PTL

================================================================================
