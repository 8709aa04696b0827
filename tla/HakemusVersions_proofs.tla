-------------------------- MODULE HakemusVersions_proofs --------------------------
(***************************************************************************)
(* Proofs about HakemusVersions, for any number of transactions, contents  *)
(* and versions.                                                           *)
(*                                                                         *)
(* The heart of Safe is HolderHasOpen: a transaction that holds any row    *)
(* holds the open one, of which there is only one, so at most one          *)
(* transaction holds anything, and nobody else's view depends on what it   *)
(* commits.  Logged adds that a view without an open row, and a locking    *)
(* SELECT that returns none, go back to a SELECT that lost its row.        *)
(***************************************************************************)
EXTENDS HakemusVersions, TLAPS

-----------------------------------------------------------------------------
(* The invariant *)

\* No row is held twice.
Disjoint == \A t, u \in Tx : t # u => locks[t] \cap locks[u] = {}

\* What a transaction sees is ordered like what is committed.
ViewsOrdered == \A t \in Tx : Ordered(View(t))

\* A closed row is never locked: it was open when its lock was granted.
LockedRowsLive == \A t \in Tx : \A v \in locks[t] : rows[v].state # "closed"

\* Who holds a row holds the open one.
HolderHasOpen == \A t \in Tx : locks[t] # {} => \E v \in locks[t] : rows[v].state = "open"

\* Nothing is held before the first lock.
IdleHoldsNothing == \A t \in Tx : pc[t] \in {"idle", "updating"} => locks[t] = {}

\* The row the locking SELECT returned is held and open.
GotOpen ==
  \A t \in Tx : pc[t] = "got" /\ read[t] # NoRow =>
    read[t] \in locks[t] /\ own[t][read[t]].state = "open"

Safe ==
  /\ TypeOK
  /\ Ordered(rows)
  /\ Disjoint
  /\ ViewsOrdered
  /\ LockedRowsLive
  /\ HolderHasOpen
  /\ IdleHoldsNothing
  /\ GotOpen

-----------------------------------------------------------------------------
(* Lemmas *)

\* The value of own for a transaction with no writes has its type.
LEMMA NoWritesType == NoWrites \in [Versions -> Entry]
BY ContentsAssumption DEF NoWrites, Entry, Log!Entry, Log!States

\* A view is a table of versions.
LEMMA ViewType ==
  ASSUME TypeOK, NEW t \in Tx
  PROVE  View(t) \in [Versions -> Entry]
BY DEF TypeOK, View

\* An ordered table has one open version at most.
LEMMA OneOpen ==
  ASSUME NEW r, Ordered(r), NEW v \in Versions, NEW w \in Versions,
         r[v].state = "open", r[w].state = "open"
  PROVE  v = w
<1>1. v \in Nat /\ w \in Nat
  BY MaxVersionAssumption DEF Versions
<1>2. ~ (v < w) /\ ~ (w < v)
  BY DEF Ordered
<1> QED
  BY <1>1, <1>2

\* At most one transaction holds anything.
LEMMA OneHolder ==
  ASSUME Safe, NEW t \in Tx, NEW u \in Tx, locks[t] # {}, locks[u] # {}
  PROVE  t = u
<1>1. PICK v \in locks[t] : rows[v].state = "open"
  BY DEF Safe, HolderHasOpen
<1>2. PICK w \in locks[u] : rows[w].state = "open"
  BY DEF Safe, HolderHasOpen
<1>3. v \in Versions /\ w \in Versions
  BY DEF Safe, TypeOK
<1>4. v = w
  BY <1>1, <1>2, <1>3, OneOpen DEF Safe
<1> QED
  BY <1>4 DEF Safe, Disjoint

\* Locking a row as it is seen changes no view.
LEMMA LockRow ==
  ASSUME TypeOK, NEW t \in Tx, NEW v \in Versions, Write(t, v, View(t)[v]), rows' = rows
  PROVE  \A u \in Tx : View(u)' = View(u)
<1>1. /\ locks'[t] = locks[t] \cup {v}
      /\ own'[t] = [own[t] EXCEPT ![v] = View(t)[v]]
      /\ \A u \in Tx : u # t => locks'[u] = locks[u] /\ own'[u] = own[u]
  BY DEF Write, TypeOK
<1>2. View(t)' = View(t)
  BY <1>1 DEF View, TypeOK
<1>3. \A u \in Tx : u # t => View(u)' = View(u)
  BY <1>1 DEF View
<1> QED
  BY <1>2, <1>3

\* The effect of taking a row that is open in the view: with the value e the row stays
\* live, so the invariant's statements about locks and views survive.
LEMMA TakeRow ==
  ASSUME Safe, NEW t \in Tx, NEW v \in Versions, NEW e \in Entry,
         Free(t, v), View(t)[v].state = "open", e.state # "absent",
         Write(t, v, e), rows' = rows
  PROVE  /\ Disjoint' /\ ViewsOrdered' /\ LockedRowsLive' /\ HolderHasOpen'
         /\ View(t)' = [View(t) EXCEPT ![v] = e]
         /\ \A u \in Tx : u # t => View(u)' = View(u) /\ locks'[u] = locks[u] /\ own'[u] = own[u]
         /\ locks'[t] = locks[t] \cup {v}
         /\ own'[t] = [own[t] EXCEPT ![v] = e]
         /\ locks' \in [Tx -> SUBSET Versions]
         /\ own' \in [Tx -> [Versions -> Entry]]
<1> USE DEF Safe
<1>1. /\ locks'[t] = locks[t] \cup {v}
      /\ own'[t] = [own[t] EXCEPT ![v] = e]
      /\ \A u \in Tx : u # t => locks'[u] = locks[u] /\ own'[u] = own[u]
      /\ locks' \in [Tx -> SUBSET Versions]
      /\ own' \in [Tx -> [Versions -> Entry]]
  BY DEF Write, TypeOK
<1>2. \A u \in Tx : u # t => View(u)' = View(u)
  BY <1>1 DEF View
<1>3. View(t)' = [View(t) EXCEPT ![v] = e]
  BY <1>1 DEF View, TypeOK
<1>4. Disjoint'
  BY <1>1 DEF Disjoint, Free
<1>5. v \notin locks[t] => rows[v].state = "open"
  BY DEF View
<1>6. LockedRowsLive'
  BY <1>1, <1>5 DEF LockedRowsLive
<1>7. HolderHasOpen'
  <2> SUFFICES ASSUME NEW u \in Tx, locks'[u] # {}
               PROVE  \E x \in locks'[u] : rows[x].state = "open"
    BY DEF HolderHasOpen
  <2>1. CASE u # t
    BY <2>1, <1>1 DEF HolderHasOpen
  <2>2. CASE u = t /\ v \notin locks[t]
    BY <2>2, <1>1, <1>5
  <2>3. CASE u = t /\ v \in locks[t]
    BY <2>3, <1>1 DEF HolderHasOpen
  <2> QED
    BY <2>1, <2>2, <2>3
<1>8. ViewsOrdered'
  <2> SUFFICES ASSUME NEW u \in Tx PROVE Ordered(View(u))'
    BY DEF ViewsOrdered
  <2>1. CASE u # t
    BY <2>1, <1>2 DEF ViewsOrdered, Ordered
  <2>2. CASE u = t
    <3>1. Ordered(View(t)) /\ View(t) \in [Versions -> Entry]
      BY ViewType DEF ViewsOrdered
    <3> SUFFICES ASSUME NEW a \in Versions, NEW b \in Versions, a < b,
                        View(t)'[b].state # "absent"
                 PROVE  View(t)'[a].state = "closed"
      BY <2>2 DEF Ordered
    <3>2. CASE b = v
      <4>1. a # v
        BY <3>2, MaxVersionAssumption DEF Versions
      <4> QED
        BY <3>1, <3>2, <4>1, <1>3 DEF Ordered
    <3>3. CASE b # v
      <4>1. View(t)[a].state = "closed"
        BY <3>1, <3>3, <1>3 DEF Ordered
      <4>2. a # v
        BY <4>1
      <4> QED
        BY <3>1, <4>1, <4>2, <1>3
    <3> QED
      BY <3>2, <3>3
  <2> QED
    BY <2>1, <2>2
<1> QED
  BY <1>1, <1>2, <1>3, <1>4, <1>6, <1>7, <1>8

\* The initial states satisfy the invariant.
LEMMA SafeInit == Init => Safe
<1> SUFFICES ASSUME Init PROVE Safe
  OBVIOUS
<1> USE MaxVersionAssumption
<1>1. PICK c \in Contents : rows = [NoWrites EXCEPT ![0] = [state |-> "open", content |-> c]]
  BY DEF Init
<1>2. 0 \in Versions /\ \A v \in Versions : v \in Nat
  BY DEF Versions
<1>3. NoWrites \in [Versions -> Entry] /\ \A v \in Versions : NoWrites[v].state = "absent"
  BY NoWritesType DEF NoWrites
<1>4. rows \in [Versions -> Entry]
  BY <1>1, <1>2, <1>3 DEF Entry, Log!Entry, Log!States
<1>5. \A v \in Versions : rows[v].state = IF v = 0 THEN "open" ELSE "absent"
  BY <1>1, <1>2, <1>3
<1>6. TypeOK
  BY <1>3, <1>4 DEF Init, TypeOK, Statements
<1>7. Ordered(rows)
  BY <1>2, <1>5 DEF Ordered
<1>8. \A t \in Tx : View(t) = rows
  BY <1>4 DEF Init, View
<1>9. ViewsOrdered
  BY <1>7, <1>8 DEF ViewsOrdered, Ordered
<1>10. Disjoint /\ LockedRowsLive /\ HolderHasOpen /\ IdleHoldsNothing /\ GotOpen
  BY DEF Init, Disjoint, LockedRowsLive, HolderHasOpen, IdleHoldsNothing, GotOpen
<1> QED
  BY <1>6, <1>7, <1>9, <1>10 DEF Safe

\* A step that leaves the rows, the locks and the private values alone keeps what is said
\* of them alone.
LEMMA DataUnchanged ==
  ASSUME Safe, UNCHANGED <<rows, locks, own>>
  PROVE  Ordered(rows)' /\ Disjoint' /\ ViewsOrdered' /\ LockedRowsLive' /\ HolderHasOpen'
<1>1. \A t \in Tx : View(t)' = View(t)
  BY DEF View
<1> QED
  BY <1>1 DEF Safe, Ordered, Disjoint, ViewsOrdered, LockedRowsLive, HolderHasOpen

\* The end of a transaction t that leaves the committed rows as r, when it commits (r is
\* its view) or aborts (r is rows).
LEMMA EndStep ==
  ASSUME Safe, NEW t \in Tx, End(t), rows' = View(t) \/ rows' = rows, missed' = missed
  PROVE  Safe'
<1> USE DEF Safe
<1>1. /\ \A u \in Tx : u # t => /\ locks'[u] = locks[u] /\ own'[u] = own[u]
                              /\ pc'[u] = pc[u] /\ read'[u] = read[u]
      /\ locks'[t] = {} /\ pc'[t] = "idle"
  BY DEF End, TypeOK
<1>2. rows' \in [Versions -> Entry] /\ Ordered(rows')
  BY ViewType DEF TypeOK, ViewsOrdered
<1>3. TypeOK'
  BY <1>2, NoWritesType DEF End, TypeOK, Statements
<1>4. rows' = rows \/ \A u \in Tx \ {t} : locks[u] = {}
  <2>1. CASE locks[t] = {}
    BY <2>1 DEF View, TypeOK
  <2>2. CASE locks[t] # {}
    BY <2>2, OneHolder
  <2> QED
    BY <2>1, <2>2
<1>5. \A u \in Tx : View(u)' = rows' \/ (rows' = rows /\ u # t /\ View(u)' = View(u))
  BY <1>1, <1>2, <1>4 DEF View
<1>6. ViewsOrdered'
  BY <1>2, <1>5 DEF ViewsOrdered, Ordered
<1>7. Disjoint' /\ LockedRowsLive' /\ HolderHasOpen'
  BY <1>1, <1>4 DEF Disjoint, LockedRowsLive, HolderHasOpen
<1>8. IdleHoldsNothing' /\ GotOpen'
  BY <1>1 DEF IdleHoldsNothing, GotOpen
<1>9. Ordered(rows)'
  BY <1>2 DEF Ordered
<1> QED
  BY <1>3, <1>6, <1>7, <1>8, <1>9

\* The close and the insert keep the invariant.
LEMMA CreateStep ==
  ASSUME Safe, NEW t \in Tx, CreateNewHakemusVersion(t)
  PROVE  Safe'
<1> USE DEF Safe
<1> DEFINE r == read[t]
           n == read[t] + 1
<1>1. /\ pc[t] = "got" /\ r # NoRow /\ r \in Versions /\ n \in Versions
      /\ Free(t, n) /\ View(t)[n].state = "absent"
      /\ r \in locks[t] /\ own[t][r].state = "open"
  BY DEF CreateNewHakemusVersion, CloseAndInsert, TypeOK, GotOpen
<1>2. r < n /\ r # n
  BY <1>1, MaxVersionAssumption DEF Versions
<1>3. PICK c \in Contents :
        /\ own' = [own EXCEPT ![t] = [@ EXCEPT ![r] = [View(t)[r] EXCEPT !.state = "closed"],
                                              ![n] = [state |-> "open", content |-> c]]]
        /\ locks' = [locks EXCEPT ![t] = @ \cup {r, n}]
        /\ pc' = [pc EXCEPT ![t] = "written"]
        /\ read' = [read EXCEPT ![t] = NoRow]
        /\ UNCHANGED <<rows, target, missed>>
  BY DEF CreateNewHakemusVersion, CloseAndInsert
<1>4. View(t) \in [Versions -> Entry] /\ View(t)[r] = own[t][r] /\ Ordered(View(t))
  BY <1>1, ViewType DEF View, ViewsOrdered
<1>5. /\ [View(t)[r] EXCEPT !.state = "closed"] \in Entry
      /\ [state |-> "open", content |-> c] \in Entry
  BY <1>1, <1>4 DEF Entry, Log!Entry, Log!States
<1>6. TypeOK'
  BY <1>1, <1>3, <1>5 DEF TypeOK, Statements
<1>7. /\ \A u \in Tx : u # t => /\ locks'[u] = locks[u] /\ own'[u] = own[u]
                              /\ pc'[u] = pc[u] /\ read'[u] = read[u]
      /\ locks'[t] = locks[t] \cup {r, n}
      /\ pc'[t] = "written"
  BY <1>3 DEF TypeOK
<1>8. Disjoint'
  BY <1>1, <1>7 DEF Disjoint, Free
<1>9. LockedRowsLive' /\ HolderHasOpen'
  BY <1>1, <1>3, <1>7 DEF LockedRowsLive, HolderHasOpen, View
<1>10. IdleHoldsNothing' /\ GotOpen'
  BY <1>7 DEF IdleHoldsNothing, GotOpen
<1>11. View(t)' = [View(t) EXCEPT ![r] = [View(t)[r] EXCEPT !.state = "closed"],
                                 ![n] = [state |-> "open", content |-> c]]
  BY <1>1, <1>2, <1>3, <1>7 DEF View, TypeOK
<1>12. Ordered(View(t)')
  <2> SUFFICES ASSUME NEW a \in Versions, NEW b \in Versions, a < b,
                      View(t)'[b].state # "absent"
               PROVE  View(t)'[a].state = "closed"
    BY DEF Ordered
  <2>1. a \in Nat /\ b \in Nat /\ r \in Nat
    BY <1>1, MaxVersionAssumption DEF Versions
  <2>2. b <= n
    <3> SUFFICES ASSUME n < b PROVE FALSE
      BY <1>1, <2>1
    <3>1. View(t)[b].state # "absent"
      BY <1>4, <1>11, <1>2, <1>1, <2>1
    <3> QED
      BY <3>1, <1>1, <1>4 DEF Ordered
  <2>3. CASE a = r
    BY <2>3, <1>1, <1>2, <1>4, <1>5, <1>11 DEF Entry, Log!Entry
  <2>4. CASE a < r
    <3>1. View(t)[a].state = "closed"
      BY <2>4, <1>1, <1>4 DEF Ordered
    <3> QED
      BY <3>1, <2>1, <2>4, <1>1, <1>4, <1>11
  <2> QED
    BY <2>1, <2>2, <2>3, <2>4, <1>1
<1>13. ViewsOrdered'
  <2>1. \A u \in Tx : u # t => View(u)' = View(u)
    BY <1>3, <1>7 DEF View
  <2>2. \A u \in Tx : u # t => Ordered(View(u)')
    BY <2>1 DEF ViewsOrdered
  <2> QED
    BY <1>12, <2>2 DEF ViewsOrdered, Ordered
<1>14. Ordered(rows)'
  BY <1>3 DEF Ordered
<1> QED
  BY <1>6, <1>8, <1>9, <1>10, <1>13, <1>14

\* Every step keeps the invariant.
LEMMA SafeStep == Safe /\ [Next]_vars => Safe'
<1> SUFFICES ASSUME Safe, [Next]_vars PROVE Safe'
  OBVIOUS
<1> USE DEF Safe
<1>1. ASSUME NEW t \in Tx, NEW base \in Versions, GetLockedHakemusVersionForUpdate(t, base)
      PROVE  Safe'
  <2>1. /\ Free(t, base) /\ rows[base].state = "open" /\ Write(t, base, rows[base])
        /\ rows' = rows /\ locks[t] = {} /\ pc' = [pc EXCEPT ![t] = "begun"]
        /\ UNCHANGED <<target, read, missed>>
    BY <1>1 DEF GetLockedHakemusVersionForUpdate, IdleHoldsNothing
  <2>2. View(t)[base].state = "open" /\ rows[base] \in Entry
    BY <2>1 DEF View, TypeOK
  <2>3. /\ Disjoint' /\ ViewsOrdered' /\ LockedRowsLive' /\ HolderHasOpen'
        /\ \A u \in Tx : u # t => locks'[u] = locks[u] /\ own'[u] = own[u]
        /\ locks' \in [Tx -> SUBSET Versions]
        /\ own' \in [Tx -> [Versions -> Entry]]
    BY <2>1, <2>2, TakeRow
  <2>4. TypeOK' /\ Ordered(rows)'
    BY <2>1, <2>3 DEF TypeOK, Statements, Ordered
  <2>5. IdleHoldsNothing' /\ GotOpen'
    BY <2>1, <2>3 DEF IdleHoldsNothing, GotOpen, TypeOK
  <2> QED
    BY <2>3, <2>4, <2>5
<1>2. ASSUME NEW t \in Tx, FindOpenVersion(t) PROVE Safe'
  <2>1. TypeOK'
    BY <1>2 DEF FindOpenVersion, Found, TypeOK, Statements
  <2>2. IdleHoldsNothing' /\ GotOpen'
    BY <1>2 DEF FindOpenVersion, IdleHoldsNothing, GotOpen, TypeOK
  <2> QED
    BY <1>2, <2>1, <2>2, DataUnchanged DEF FindOpenVersion
<1>3. ASSUME NEW t \in Tx, GetHakemusByIdLocking(t) PROVE Safe'
  <2> DEFINE v == target[t]
  <2>1. pc[t] = "found" /\ pc' = [pc EXCEPT ![t] = "got"] /\ rows' = rows
        /\ target' = [target EXCEPT ![t] = NoRow] /\ missed' \in BOOLEAN
    BY <1>3 DEF GetHakemusByIdLocking, TypeOK
  <2>2. CASE /\ v # NoRow /\ Free(t, v) /\ View(t)[v].state = "open"
             /\ Write(t, v, View(t)[v]) /\ read' = [read EXCEPT ![t] = v]
    <3>1. v \in Versions /\ View(t)[v] \in Entry /\ View(t) \in [Versions -> Entry]
      BY <2>2, ViewType DEF TypeOK
    <3>2. /\ Disjoint' /\ ViewsOrdered' /\ LockedRowsLive' /\ HolderHasOpen'
          /\ \A u \in Tx : u # t => locks'[u] = locks[u] /\ own'[u] = own[u]
          /\ locks'[t] = locks[t] \cup {v}
          /\ own'[t] = [own[t] EXCEPT ![v] = View(t)[v]]
          /\ locks' \in [Tx -> SUBSET Versions]
          /\ own' \in [Tx -> [Versions -> Entry]]
      BY <2>1, <2>2, <3>1, TakeRow
    <3>3. TypeOK' /\ Ordered(rows)'
      BY <2>1, <2>2, <3>1, <3>2 DEF TypeOK, Statements, Ordered
    <3>4. own'[t][v].state = "open" /\ v \in locks'[t]
      BY <2>2, <3>1, <3>2 DEF TypeOK
    <3>5. IdleHoldsNothing' /\ GotOpen'
      BY <2>1, <2>2, <3>2, <3>4 DEF IdleHoldsNothing, GotOpen, TypeOK
    <3> QED
      BY <3>2, <3>3, <3>5
  <2>3. CASE read' = [read EXCEPT ![t] = NoRow] /\ UNCHANGED <<locks, own>>
    <3>1. TypeOK'
      BY <2>1, <2>3 DEF TypeOK, Statements
    <3>2. IdleHoldsNothing' /\ GotOpen'
      BY <2>1, <2>3 DEF IdleHoldsNothing, GotOpen, TypeOK
    <3> QED
      BY <2>1, <2>3, <3>1, <3>2, DataUnchanged
  <2> QED
    BY <1>3, <2>2, <2>3 DEF GetHakemusByIdLocking
<1>4. ASSUME NEW t \in Tx, CreateNewHakemusVersion(t) PROVE Safe'
  BY <1>4, CreateStep
<1>5. ASSUME NEW t \in Tx, FindVersionToClose(t) PROVE Safe'
  <2>1. TypeOK'
    BY <1>5 DEF FindVersionToClose, Found, TypeOK, Statements
  <2>2. IdleHoldsNothing' /\ GotOpen'
    BY <1>5 DEF FindVersionToClose, IdleHoldsNothing, GotOpen, TypeOK
  <2> QED
    BY <1>5, <2>1, <2>2, DataUnchanged DEF FindVersionToClose
<1>6. ASSUME NEW t \in Tx, CloseHakemusById(t) PROVE Safe'
  <2> DEFINE v == target[t]
             e == [View(t)[v] EXCEPT !.state = "closed"]
  <2>1. /\ pc' = [pc EXCEPT ![t] = "written"] /\ rows' = rows /\ read' = read
        /\ target' = [target EXCEPT ![t] = NoRow] /\ missed' = missed
    BY <1>6 DEF CloseHakemusById
  <2>2. CASE v # NoRow /\ Free(t, v) /\ View(t)[v].state = "open" /\ Write(t, v, e)
    <3>1. v \in Versions /\ View(t)[v] \in Entry
      BY <2>2, ViewType DEF TypeOK
    <3>2. e \in Entry /\ e.state # "absent"
      BY <3>1 DEF Entry, Log!Entry, Log!States
    <3>3. /\ Disjoint' /\ ViewsOrdered' /\ LockedRowsLive' /\ HolderHasOpen'
          /\ \A u \in Tx : u # t => locks'[u] = locks[u] /\ own'[u] = own[u]
          /\ locks' \in [Tx -> SUBSET Versions]
          /\ own' \in [Tx -> [Versions -> Entry]]
      BY <2>1, <2>2, <3>1, <3>2, TakeRow
    <3>4. TypeOK' /\ Ordered(rows)'
      BY <2>1, <3>3 DEF TypeOK, Statements, Ordered
    <3>5. IdleHoldsNothing' /\ GotOpen'
      BY <2>1, <3>3 DEF IdleHoldsNothing, GotOpen, TypeOK
    <3> QED
      BY <3>3, <3>4, <3>5
  <2>3. CASE UNCHANGED <<locks, own>>
    <3>1. TypeOK'
      BY <2>1, <2>3 DEF TypeOK, Statements
    <3>2. IdleHoldsNothing' /\ GotOpen'
      BY <2>1, <2>3 DEF IdleHoldsNothing, GotOpen, TypeOK
    <3> QED
      BY <2>1, <2>3, <3>1, <3>2, DataUnchanged
  <2> QED
    BY <1>6, <2>2, <2>3 DEF CloseHakemusById
<1>7. ASSUME NEW t \in Tx, FindVersionToUpdate(t) PROVE Safe'
  <2>1. TypeOK'
    BY <1>7 DEF FindVersionToUpdate, Found, TypeOK, Statements
  <2>2. IdleHoldsNothing' /\ GotOpen'
    BY <1>7 DEF FindVersionToUpdate, IdleHoldsNothing, GotOpen, TypeOK
  <2> QED
    BY <1>7, <2>1, <2>2, DataUnchanged DEF FindVersionToUpdate
<1>8. ASSUME NEW t \in Tx, UpdateOpenVersion(t) PROVE Safe'
  <2> DEFINE v == target[t]
  <2>1. /\ pc' = [pc EXCEPT ![t] = "updated"] /\ rows' = rows /\ read' = read
        /\ target' = [target EXCEPT ![t] = NoRow] /\ missed' = missed
    BY <1>8 DEF UpdateOpenVersion
  <2>2. ASSUME NEW c \in Contents, v # NoRow, Free(t, v), View(t)[v].state = "open",
               Write(t, v, [state |-> "open", content |-> c])
        PROVE  Safe'
    <3>1. v \in Versions
      BY <2>2 DEF TypeOK
    <3>2. [state |-> "open", content |-> c] \in Entry
      BY DEF Entry, Log!Entry, Log!States
    <3>3. /\ Disjoint' /\ ViewsOrdered' /\ LockedRowsLive' /\ HolderHasOpen'
          /\ \A u \in Tx : u # t => locks'[u] = locks[u] /\ own'[u] = own[u]
          /\ locks' \in [Tx -> SUBSET Versions]
          /\ own' \in [Tx -> [Versions -> Entry]]
      BY <2>1, <2>2, <3>1, <3>2, TakeRow
    <3>4. TypeOK' /\ Ordered(rows)'
      BY <2>1, <3>3 DEF TypeOK, Statements, Ordered
    <3>5. IdleHoldsNothing' /\ GotOpen'
      BY <2>1, <3>3 DEF IdleHoldsNothing, GotOpen, TypeOK
    <3> QED
      BY <3>3, <3>4, <3>5
  <2>3. CASE UNCHANGED <<locks, own>>
    <3>1. TypeOK'
      BY <2>1, <2>3 DEF TypeOK, Statements
    <3>2. IdleHoldsNothing' /\ GotOpen'
      BY <2>1, <2>3 DEF IdleHoldsNothing, GotOpen, TypeOK
    <3> QED
      BY <2>1, <2>3, <3>1, <3>2, DataUnchanged
  <2> QED
    BY <1>8, <2>2, <2>3 DEF UpdateOpenVersion
<1>9. ASSUME NEW t \in Tx, Commit(t) PROVE Safe'
  BY <1>9, EndStep DEF Commit
<1>10. ASSUME NEW t \in Tx, Abort(t) PROVE Safe'
  BY <1>10, EndStep DEF Abort
<1>11. CASE UNCHANGED vars
  <2>1. TypeOK' /\ IdleHoldsNothing' /\ GotOpen'
    BY <1>11 DEF vars, TypeOK, IdleHoldsNothing, GotOpen
  <2> QED
    BY <1>11, <2>1, DataUnchanged DEF vars
<1> QED
  BY <1>1, <1>2, <1>3, <1>4, <1>5, <1>6, <1>7, <1>8, <1>9, <1>10, <1>11 DEF Next

-----------------------------------------------------------------------------
(* History                                                                 *)

\* The invariant holds in every reachable state.
THEOREM Safety == Spec => []Safe
<1> QED
  BY SafeInit, SafeStep, PTL DEF Spec

\* Types.
THEOREM TypeCorrect == Spec => []TypeOK
<1>1. Safe => TypeOK
  BY DEF Safe
<1> QED
  BY <1>1, Safety, PTL

\* No application ever has two open versions.
THEOREM OneOpenVersion == Spec => []AtMostOneOpenVersion
<1>1. Safe => AtMostOneOpenVersion
  BY DEF Safe, AtMostOneOpenVersion
<1> QED
  BY <1>1, Safety, PTL

\* A closed version is never written again.
THEOREM HistoryIsKept == Spec => ClosedVersionsNeverChange
<1>1. Safe /\ [Next]_vars =>
        [\A v \in Versions : rows[v].state = "closed" => rows'[v] = rows[v]]_vars
  <2> SUFFICES ASSUME Safe, [Next]_vars, NEW v \in Versions, rows[v].state = "closed"
               PROVE  rows'[v] = rows[v]
    OBVIOUS
  <2>1. rows' = rows \/ \E t \in Tx : rows' = View(t)
    BY DEF Next, GetLockedHakemusVersionForUpdate, FindOpenVersion, GetHakemusByIdLocking,
           CreateNewHakemusVersion, CloseAndInsert, FindVersionToClose, CloseHakemusById,
           FindVersionToUpdate, UpdateOpenVersion, Commit, Abort, vars
  <2>2. ASSUME NEW t \in Tx PROVE v \notin locks[t]
    BY DEF Safe, LockedRowsLive
  <2> QED
    BY <2>1, <2>2 DEF View
<1> QED
  BY <1>1, Safety, PTL DEF Spec, ClosedVersionsNeverChange

-----------------------------------------------------------------------------
(* The log                                                                 *)

\* Rows and views without an open version are those of a SELECT that lost its row.
OpenUnlessMissed == missed \/ (HasOpen(rows) /\ \A t \in Tx : HasOpen(View(t)))

\* The SELECT of a transaction that holds rows found the open one among them, if any is.
FoundWhole ==
  \A t \in Tx : pc[t] = "found" =>
    /\ target[t] = NoRow => missed
    /\ target[t] = NoRow \/ View(t)[target[t]].state # "open" =>
         locks[t] = {} \/ ~ HasOpen(View(t))

\* A transaction whose SELECT returned nothing holds nothing, or sees no open version.
Empty(t) == pc[t] = "closing" \/ (pc[t] = "got" /\ read[t] = NoRow)
EmptyMissed ==
  \A t \in Tx : Empty(t) => missed /\ (locks[t] = {} \/ ~ HasOpen(View(t)))

\* A view is the committed table, or continues it, or has edited its open version, or has
\* lost it.
ViewsStep ==
  \A t \in Tx :
    \/ View(t) = rows
    \/ Log!Continues(rows, View(t))
    \/ pc[t] = "updated" /\ Log!Edits(rows, View(t))
    \/ missed /\ Loses(rows, View(t))

Logged ==
  /\ Safe
  /\ OpenUnlessMissed
  /\ FoundWhole
  /\ EmptyMissed
  /\ ViewsStep

\* An open version of an ordered table is its end.
LEMMA OpenIsEnd ==
  ASSUME NEW r \in [Versions -> Entry], Ordered(r), NEW v \in Versions, r[v].state = "open"
  PROVE  Log!EndsAt(r, v)
<1> SUFFICES ASSUME NEW u \in Versions
             PROVE  r[u].state = (IF u < v THEN "closed" ELSE IF u = v THEN "open" ELSE "absent")
  BY DEF Log!EndsAt
<1>1. u \in Nat /\ v \in Nat
  BY MaxVersionAssumption DEF Versions
<1>2. CASE u < v
  BY <1>2 DEF Ordered
<1>3. CASE v < u
  BY <1>1, <1>3 DEF Ordered
<1> QED
  BY <1>1, <1>2, <1>3

\* A table ends in one place.
LEMMA EndIsOpen ==
  ASSUME NEW r, NEW v \in Versions, NEW w \in Versions, Log!EndsAt(r, v), r[w].state = "open"
  PROVE  v = w
BY DEF Log!EndsAt

\* A table that has lost its open version has none.
LEMMA LostHasNone ==
  ASSUME NEW a \in [Versions -> Entry], NEW b, Loses(a, b)
  PROVE  ~ HasOpen(b)
<1>1. PICK v \in Versions : Log!EndsAt(a, v) /\ b = [a EXCEPT ![v].state = "closed"]
  BY DEF Loses
<1>2. b[v].state = "closed" /\ \A w \in Versions : w # v => b[w] = a[w]
  BY <1>1 DEF Entry, Log!Entry
<1> QED
  BY <1>1, <1>2 DEF HasOpen, Log!EndsAt

\* A new application has its first version open and every transaction sees just that.
LEMMA LoggedInit == Init => Logged
<1> SUFFICES ASSUME Init PROVE Logged
  OBVIOUS
<1>1. Safe
  BY SafeInit
<1>2. \A t \in Tx : View(t) = rows
  BY <1>1 DEF Init, View, Safe, TypeOK
<1>3. HasOpen(rows)
  BY MaxVersionAssumption, NoWritesType DEF Init, HasOpen, Versions
<1>4. OpenUnlessMissed /\ ViewsStep
  BY <1>2, <1>3 DEF OpenUnlessMissed, ViewsStep
<1>5. FoundWhole /\ EmptyMissed
  BY DEF Init, FoundWhole, EmptyMissed, Empty
<1> QED
  BY <1>1, <1>4, <1>5 DEF Logged

\* What a view is of the rows depends on the two and on what t has come to.
StepOf(a, b, updated, m) ==
  b = a \/ Log!Continues(a, b) \/ (updated /\ Log!Edits(a, b)) \/ (m /\ Loses(a, b))
LEMMA ViewsStepIs == ViewsStep <=> \A t \in Tx : StepOf(rows, View(t), pc[t] = "updated", missed)
BY DEF ViewsStep, StepOf
LEMMA ViewsStepNext ==
  ViewsStep' <=> \A t \in Tx : StepOf(rows', View(t)', pc'[t] = "updated", missed')
BY DEF ViewsStep, StepOf, Log!Continues, Log!Edits, Log!EndsAt, Loses

\* A step that leaves the rows and every view alone, and moves only t, which had not
\* updated in place.
LEMMA ViewsUnchanged ==
  ASSUME Logged, NEW t \in Tx, rows' = rows, \A u \in Tx : View(u)' = View(u),
         \A u \in Tx : u # t => /\ pc'[u] = pc[u] /\ target'[u] = target[u] /\ read'[u] = read[u]
                              /\ locks'[u] = locks[u],
         pc[t] # "updated", missed => missed', missed' \in BOOLEAN,
         pc'[t] = "found" =>
           /\ target'[t] = NoRow => missed'
           /\ target'[t] = NoRow \/ View(t)[target'[t]].state # "open" =>
                locks'[t] = {} \/ ~ HasOpen(View(t)),
         Empty(t)' => missed' /\ (locks'[t] = {} \/ ~ HasOpen(View(t))),
         Safe'
  PROVE  Logged'
<1>0. OpenUnlessMissed /\ FoundWhole /\ EmptyMissed /\ ViewsStep
  BY DEF Logged
<1>1. OpenUnlessMissed'
  BY <1>0 DEF OpenUnlessMissed, HasOpen
<1>2. FoundWhole'
  BY <1>0 DEF FoundWhole, HasOpen
<1>3. EmptyMissed'
  BY <1>0 DEF EmptyMissed, Empty, HasOpen
<1>4. ViewsStep'
  <2>1. \A u \in Tx : StepOf(rows, View(u), pc[u] = "updated", missed)
    BY <1>0, ViewsStepIs
  <2>2. \A u \in Tx : StepOf(rows', View(u)', pc'[u] = "updated", missed')
    BY <2>1 DEF StepOf
  <2> QED
    BY <2>2, ViewsStepNext
<1> QED
  BY <1>1, <1>2, <1>3, <1>4 DEF Logged

\* A new version at the end of a view that is the committed table or continues it.
LEMMA Extend ==
  ASSUME NEW a \in [Versions -> Entry], NEW b \in [Versions -> Entry], NEW d \in [Versions -> Entry],
         NEW r \in Versions, r + 1 \in Versions,
         Log!EndsAt(b, r), b = a \/ Log!Continues(a, b),
         \A u \in Versions : u # r /\ u # r + 1 => d[u] = b[u],
         d[r].state = "closed", d[r].content = b[r].content, d[r + 1].state = "open"
  PROVE  Log!Continues(a, d)
<1>1. PICK v \in Versions : /\ v <= r /\ Log!EndsAt(a, v)
                            /\ \A u \in Versions : u <= v => b[u].content = a[u].content
  <2>1. CASE b = a
    BY <2>1, MaxVersionAssumption DEF Versions
  <2>2. CASE Log!Continues(a, b)
    <3>1. PICK v \in Versions, w \in Versions :
            /\ v < w /\ Log!EndsAt(a, v) /\ Log!EndsAt(b, w)
            /\ \A u \in Versions : u <= v => b[u].content = a[u].content
      BY <2>2 DEF Log!Continues
    <3>2. b[r].state = "open"
      BY MaxVersionAssumption DEF Log!EndsAt, Versions
    <3>3. w = r
      BY <3>1, <3>2, EndIsOpen
    <3> QED
      BY <3>1, <3>3, MaxVersionAssumption DEF Versions
  <2> QED
    BY <2>1, <2>2
<1>2. v < r + 1
  BY <1>1, MaxVersionAssumption DEF Versions
<1>3. Log!EndsAt(d, r + 1)
  <2> SUFFICES ASSUME NEW u \in Versions
               PROVE  d[u].state = (IF u < r + 1 THEN "closed" ELSE IF u = r + 1 THEN "open" ELSE "absent")
    BY DEF Log!EndsAt
  <2>1. u \in Nat /\ r \in Nat
    BY MaxVersionAssumption DEF Versions
  <2>2. CASE u = r \/ u = r + 1
    BY <2>1, <2>2
  <2>3. CASE u # r /\ u # r + 1
    BY <2>1, <2>3 DEF Log!EndsAt
  <2> QED
    BY <2>2, <2>3
<1>4. ASSUME NEW u \in Versions, u <= v PROVE d[u].content = a[u].content
  <2>1. CASE u = r
    BY <1>1, <1>4, <2>1
  <2>2. CASE u # r
    BY <1>1, <1>4, <2>2, MaxVersionAssumption DEF Versions
  <2> QED
    BY <2>1, <2>2
<1> QED
  BY <1>1, <1>2, <1>3, <1>4 DEF Log!Continues

\* The close and the insert keep the rest of the invariant.
LEMMA CreateLogged ==
  ASSUME Logged, NEW t \in Tx, CreateNewHakemusVersion(t)
  PROVE  Logged'
<1> DEFINE r == read[t]
           n == read[t] + 1
<1>0. Safe /\ OpenUnlessMissed /\ FoundWhole /\ EmptyMissed /\ ViewsStep
  BY DEF Logged
<1>1. /\ pc[t] = "got" /\ r # NoRow /\ r \in Versions /\ n \in Versions
      /\ r \in locks[t] /\ own[t][r].state = "open" /\ rows' = rows /\ missed' = missed
  BY <1>0 DEF CreateNewHakemusVersion, CloseAndInsert, Safe, TypeOK, GotOpen
<1>2. r # n
  BY <1>1, MaxVersionAssumption DEF Versions
<1>3. PICK c \in Contents :
        /\ own' = [own EXCEPT ![t] = [@ EXCEPT ![r] = [View(t)[r] EXCEPT !.state = "closed"],
                                              ![n] = [state |-> "open", content |-> c]]]
        /\ locks' = [locks EXCEPT ![t] = @ \cup {r, n}]
        /\ pc' = [pc EXCEPT ![t] = "written"]
        /\ read' = [read EXCEPT ![t] = NoRow]
        /\ target' = target
  BY DEF CreateNewHakemusVersion, CloseAndInsert
<1>4. /\ \A u \in Tx : u # t => /\ locks'[u] = locks[u] /\ own'[u] = own[u]
                              /\ pc'[u] = pc[u] /\ read'[u] = read[u]
      /\ locks'[t] = locks[t] \cup {r, n}
      /\ own'[t] = [own[t] EXCEPT ![r] = [View(t)[r] EXCEPT !.state = "closed"],
                                  ![n] = [state |-> "open", content |-> c]]
      /\ pc'[t] = "written"
  BY <1>0, <1>3 DEF Safe, TypeOK
<1>5. Safe'
  BY <1>0, CreateStep
<1>6. \A u \in Tx : u # t => View(u)' = View(u)
  BY <1>1, <1>4 DEF View
<1>7. View(t) \in [Versions -> Entry] /\ View(t)' \in [Versions -> Entry]
      /\ View(t)[r].state = "open"
  <2>1. View(t)' \in [Versions -> Entry]
    BY <1>5 DEF Safe, TypeOK, View
  <2> QED
    BY <1>0, <1>1, <2>1, ViewType DEF View, Safe
<1>8. View(t)' = [View(t) EXCEPT ![r] = [View(t)[r] EXCEPT !.state = "closed"],
                                ![n] = [state |-> "open", content |-> c]]
  BY <1>0, <1>1, <1>2, <1>4 DEF View, Safe, TypeOK
<1>9. /\ View(t)'[r].state = "closed" /\ View(t)'[r].content = View(t)[r].content
      /\ View(t)'[n].state = "open"
      /\ \A u \in Versions : u # r /\ u # n => View(t)'[u] = View(t)[u]
  BY <1>1, <1>2, <1>7, <1>8 DEF Entry, Log!Entry
<1>10. Log!EndsAt(View(t), r)
  BY <1>0, <1>1, <1>7, OpenIsEnd DEF Safe, ViewsOrdered
<1>11. Log!Continues(rows, View(t)')
  <2>1. rows \in [Versions -> Entry]
    BY <1>0 DEF Safe, TypeOK
  <2>2. HasOpen(View(t))
    BY <1>1, <1>7 DEF HasOpen
  <2>3. View(t) = rows \/ Log!Continues(rows, View(t))
    BY <1>0, <1>1, <2>1, <2>2, LostHasNone DEF ViewsStep
  <2> QED
    BY <1>1, <1>7, <1>9, <1>10, <2>1, <2>3, Extend
<1>12. OpenUnlessMissed'
  BY <1>0, <1>1, <1>6, <1>9 DEF OpenUnlessMissed, HasOpen
<1>13. FoundWhole' /\ EmptyMissed'
  BY <1>0, <1>1, <1>3, <1>4, <1>6 DEF FoundWhole, EmptyMissed, Empty, HasOpen
<1>14. ViewsStep'
  <2>1. \A u \in Tx : u # t => StepOf(rows', View(u)', pc'[u] = "updated", missed')
    BY <1>0, <1>1, <1>4, <1>6, ViewsStepIs DEF StepOf
  <2>2. StepOf(rows', View(t)', pc'[t] = "updated", missed')
    BY <1>1, <1>11 DEF StepOf
  <2> QED
    BY <2>1, <2>2, ViewsStepNext
<1> QED
  BY <1>5, <1>12, <1>13, <1>14 DEF Logged

\* An in-place update is an edit of the open version.
LEMMA UpdateLogged ==
  ASSUME Logged, NEW t \in Tx, UpdateOpenVersion(t), Safe'
  PROVE  Logged'
<1> DEFINE v == target[t]
<1>0. Safe /\ OpenUnlessMissed /\ FoundWhole /\ EmptyMissed /\ ViewsStep
  BY DEF Logged
<1>1. /\ pc[t] = "updating" /\ rows' = rows /\ read' = read /\ locks[t] = {} /\ missed' = missed
      /\ \A u \in Tx : u # t => pc'[u] = pc[u] /\ target'[u] = target[u]
      /\ pc'[t] = "updated"
  BY <1>0 DEF UpdateOpenVersion, Safe, TypeOK, IdleHoldsNothing
<1>2. View(t) = rows
  BY <1>0, <1>1 DEF View, Safe, TypeOK
<1>3. \A u \in Tx : u # t => View(u)' = View(u) /\ locks'[u] = locks[u]
  <2>1. \A u \in Tx : u # t => locks'[u] = locks[u] /\ own'[u] = own[u]
    BY <1>0 DEF UpdateOpenVersion, Write, Safe, TypeOK
  <2> QED
    BY <1>1, <2>1 DEF View
<1>4. (HasOpen(rows) => HasOpen(View(t)')) /\ (View(t)' = rows \/ Log!Edits(rows, View(t)'))
  <2>1. ASSUME NEW c \in Contents, v # NoRow, Free(t, v), View(t)[v].state = "open",
               Write(t, v, [state |-> "open", content |-> c])
        PROVE  HasOpen(View(t)') /\ Log!Edits(rows, View(t)')
    <3> DEFINE e == [state |-> "open", content |-> c]
    <3>1. v \in Versions /\ e \in Entry /\ e.state # "absent" /\ rows \in [Versions -> Entry]
      BY <1>0, <2>1 DEF Safe, TypeOK, Entry, Log!Entry, Log!States
    <3>2. View(t)' = [rows EXCEPT ![v] = e] /\ Ordered(View(t)')
      <4>1. View(t)' = [View(t) EXCEPT ![v] = e] /\ ViewsOrdered'
        BY <1>0, <1>1, <2>1, <3>1, TakeRow
      <4> QED
        BY <1>2, <4>1 DEF ViewsOrdered, Ordered
    <3>3. View(t)' \in [Versions -> Entry] /\ View(t)'[v].state = "open"
      BY <3>1, <3>2
    <3>4. Log!EndsAt(rows, v)
      BY <1>0, <1>2, <2>1, <3>1, OpenIsEnd DEF Safe
    <3>5. Log!EndsAt(View(t)', v)
      BY <3>1, <3>2, <3>3, OpenIsEnd
    <3>6. \A u \in Versions : u < v => View(t)'[u].content = rows[u].content
      BY <3>1, <3>2, MaxVersionAssumption DEF Versions
    <3> QED
      BY <3>1, <3>3, <3>4, <3>5, <3>6 DEF Log!Edits, HasOpen
  <2>2. CASE UNCHANGED <<locks, own>>
    <3>1. View(t)' = rows
      BY <1>1, <1>2, <2>2 DEF View
    <3> QED
      BY <3>1
  <2> QED
    BY <2>1, <2>2 DEF UpdateOpenVersion
<1>5. OpenUnlessMissed'
  BY <1>0, <1>1, <1>3, <1>4 DEF OpenUnlessMissed, HasOpen
<1>6. FoundWhole' /\ EmptyMissed'
  BY <1>0, <1>1, <1>3 DEF FoundWhole, EmptyMissed, Empty, HasOpen
<1>7. ViewsStep'
  <2>1. \A u \in Tx : u # t => StepOf(rows', View(u)', pc'[u] = "updated", missed')
    BY <1>0, <1>1, <1>3, ViewsStepIs DEF StepOf
  <2>2. StepOf(rows', View(t)', pc'[t] = "updated", missed')
    BY <1>1, <1>4 DEF StepOf
  <2> QED
    BY <2>1, <2>2, ViewsStepNext
<1> QED
  BY <1>5, <1>6, <1>7 DEF Logged

\* A close without a row to copy loses the open version.
LEMMA CloseLogged ==
  ASSUME Logged, NEW t \in Tx, CloseHakemusById(t), Safe'
  PROVE  Logged'
<1> DEFINE v == target[t]
           e == [View(t)[v] EXCEPT !.state = "closed"]
<1>0. Safe /\ OpenUnlessMissed /\ FoundWhole /\ EmptyMissed /\ ViewsStep
  BY DEF Logged
<1>1. /\ pc[t] = "closing" /\ rows' = rows /\ read' = read /\ missed' = missed
      /\ \A u \in Tx : u # t => pc'[u] = pc[u] /\ target'[u] = target[u]
      /\ pc'[t] = "written"
  BY <1>0 DEF CloseHakemusById, Safe, TypeOK
<1>2. missed /\ (locks[t] = {} \/ ~ HasOpen(View(t)))
  BY <1>0, <1>1 DEF EmptyMissed, Empty
<1>3. CASE v # NoRow /\ Free(t, v) /\ View(t)[v].state = "open" /\ Write(t, v, e)
  <2>1. v \in Versions /\ View(t)[v] \in Entry /\ rows \in [Versions -> Entry]
    BY <1>0, <1>3, ViewType DEF Safe, TypeOK
  <2>2. locks[t] = {}
    BY <1>2, <1>3, <2>1 DEF HasOpen
  <2>3. View(t) = rows
    BY <1>0, <2>2 DEF View, Safe, TypeOK
  <2>4. e \in Entry /\ e.state # "absent"
    BY <2>1 DEF Entry, Log!Entry, Log!States
  <2>5. /\ View(t)' = [View(t) EXCEPT ![v] = e]
        /\ \A u \in Tx : u # t => View(u)' = View(u) /\ locks'[u] = locks[u]
    <3>1. PICK w \in Versions, d \in Entry : w = v /\ d = e
      BY <2>1, <2>4
    <3>2. Safe /\ Free(t, w) /\ View(t)[w].state = "open" /\ Write(t, w, d) /\ rows' = rows /\ d.state # "absent"
      BY <1>0, <1>1, <1>3, <2>4, <3>1
    <3>3. View(t)' = [View(t) EXCEPT ![w] = d]
      <4>1. locks'[t] = locks[t] \cup {w} /\ own'[t] = [own[t] EXCEPT ![w] = d]
        BY <3>2 DEF Write, Safe, TypeOK
      <4> QED
        BY <3>2, <4>1 DEF View, Safe, TypeOK
    <3>4. \A u \in Tx : u # t => View(u)' = View(u) /\ locks'[u] = locks[u]
      BY <3>2, TakeRow, Zenon
    <3> QED
      BY <3>1, <3>3, <3>4
  <2>6. Log!EndsAt(rows, v)
    BY <1>0, <1>3, <2>1, <2>3, OpenIsEnd DEF Safe
  <2>7. View(t)' = [rows EXCEPT ![v].state = "closed"]
    BY <2>1, <2>3, <2>5
  <2>8. Loses(rows, View(t)')
    BY <2>1, <2>6, <2>7 DEF Loses
  <2>9. ViewsStep'
    <3>1. \A u \in Tx : u # t => StepOf(rows', View(u)', pc'[u] = "updated", missed')
      BY <1>0, <1>1, <2>5, ViewsStepIs DEF StepOf
    <3>2. StepOf(rows', View(t)', pc'[t] = "updated", missed')
      BY <1>1, <1>2, <2>8 DEF StepOf
    <3> QED
      BY <3>1, <3>2, ViewsStepNext
  <2>10. OpenUnlessMissed'
    BY <1>1, <1>2 DEF OpenUnlessMissed
  <2>11. FoundWhole' /\ EmptyMissed'
    BY <1>0, <1>1, <2>5 DEF FoundWhole, EmptyMissed, Empty, HasOpen
  <2> QED
    BY <2>9, <2>10, <2>11 DEF Logged
<1>4. CASE UNCHANGED <<locks, own>>
  <2>1. \A u \in Tx : View(u)' = View(u)
    BY <1>1, <1>4 DEF View
  <2>2. missed' \in BOOLEAN /\ ~ Empty(t)'
    BY <1>1 DEF Safe, TypeOK, Empty
  <2> QED
    BY <1>1, <1>4, <2>1, <2>2, ViewsUnchanged
<1> QED
  BY <1>3, <1>4 DEF CloseHakemusById

\* The end of a transaction.
LEMMA EndLogged ==
  ASSUME Logged, NEW t \in Tx, End(t), rows' = rows \/ rows' = View(t), missed' = missed
  PROVE  Logged'
<1>0. Safe /\ OpenUnlessMissed /\ FoundWhole /\ EmptyMissed /\ ViewsStep
  BY DEF Logged
<1>1. Safe'
  BY <1>0, EndStep
<1>2. /\ \A u \in Tx : u # t => /\ locks'[u] = locks[u] /\ own'[u] = own[u]
                              /\ pc'[u] = pc[u] /\ read'[u] = read[u] /\ target'[u] = target[u]
      /\ locks'[t] = {} /\ pc'[t] = "idle"
  BY <1>0 DEF End, Safe, TypeOK
<1>3. rows' = rows \/ \A u \in Tx \ {t} : locks[u] = {}
  <2>1. CASE locks[t] = {}
    BY <1>0, <2>1 DEF View, Safe, TypeOK
  <2>2. CASE locks[t] # {}
    BY <1>0, <2>2, OneHolder
  <2> QED
    BY <2>1, <2>2
<1>4. rows' = [v \in Versions |-> rows'[v]]
  BY <1>1 DEF Safe, TypeOK
<1>5. \A u \in Tx : View(u)' = rows' \/ (rows' = rows /\ u # t /\ View(u)' = View(u))
  BY <1>2, <1>3, <1>4 DEF View
<1>6. OpenUnlessMissed'
  <2>1. missed \/ HasOpen(rows')
    BY <1>0 DEF OpenUnlessMissed
  <2> QED
    BY <1>0, <1>5, <2>1 DEF OpenUnlessMissed, HasOpen
<1>7. \A u \in Tx : u # t /\ locks[u] # {} => View(u)' = View(u)
  <2>1. ASSUME NEW u \in Tx, u # t, locks[u] # {} PROVE View(u)' = View(u)
    <3>1. rows' = rows
      BY <1>3, <2>1
    <3> QED
      BY <1>2, <2>1, <3>1 DEF View
  <2> QED
    BY <2>1
<1>8. FoundWhole'
  BY <1>0, <1>2, <1>7 DEF FoundWhole, HasOpen
<1>9. EmptyMissed'
  BY <1>0, <1>2, <1>7 DEF EmptyMissed, Empty, HasOpen
<1>10. ViewsStep'
  <2>1. ASSUME NEW u \in Tx PROVE StepOf(rows', View(u)', pc'[u] = "updated", missed')
    <3>1. CASE View(u)' = rows'
      BY <3>1 DEF StepOf
    <3>2. CASE rows' = rows /\ u # t /\ View(u)' = View(u)
      BY <1>0, <1>2, <3>2, ViewsStepIs DEF StepOf
    <3> QED
      BY <1>5, <3>1, <3>2
  <2> QED
    BY <2>1, ViewsStepNext
<1> QED
  BY <1>1, <1>6, <1>8, <1>9, <1>10 DEF Logged

\* Every step keeps the invariant.
LEMMA LoggedStep == Logged /\ [Next]_vars => Logged'
<1> SUFFICES ASSUME Logged, [Next]_vars PROVE Logged'
  OBVIOUS
<1>0. Safe /\ OpenUnlessMissed /\ FoundWhole /\ EmptyMissed /\ ViewsStep
  BY DEF Logged
<1>s. Safe'
  BY <1>0, SafeStep
<1>m. missed' \in BOOLEAN
  BY <1>s DEF Safe, TypeOK
<1>1. ASSUME NEW t \in Tx, NEW base \in Versions, GetLockedHakemusVersionForUpdate(t, base)
      PROVE  Logged'
  <2>1. /\ pc[t] = "idle" /\ rows' = rows /\ pc'[t] = "begun" /\ missed' = missed
        /\ \A u \in Tx : u # t => /\ pc'[u] = pc[u] /\ target'[u] = target[u] /\ read'[u] = read[u]
                                /\ locks'[u] = locks[u]
    BY <1>0, <1>1 DEF GetLockedHakemusVersionForUpdate, Write, Safe, TypeOK
  <2>2. /\ Free(t, base) /\ Write(t, base, rows[base]) /\ locks[t] = {}
        /\ rows[base] \in Entry /\ rows[base].state = "open"
    BY <1>0, <1>1 DEF GetLockedHakemusVersionForUpdate, Safe, TypeOK, IdleHoldsNothing
  <2>3. View(t)[base] = rows[base] /\ View(t) \in [Versions -> Entry]
    BY <1>0, <2>2, ViewType DEF View, Safe
  <2>4. \A u \in Tx : View(u)' = View(u)
    BY <1>0, <2>1, <2>2, <2>3, LockRow DEF Safe
  <2>5. ~ Empty(t)'
    BY <2>1 DEF Empty
  <2> QED
    BY <1>s, <1>m, <2>1, <2>4, <2>5, ViewsUnchanged
<1>2. ASSUME NEW t \in Tx, FindOpenVersion(t) PROVE Logged'
  <2>1. /\ pc[t] \in {"idle", "begun", "written"} /\ rows' = rows /\ pc'[t] = "found"
        /\ missed' = missed /\ locks' = locks
        /\ \A u \in Tx : u # t => pc'[u] = pc[u] /\ target'[u] = target[u] /\ read'[u] = read[u]
    BY <1>0, <1>2 DEF FindOpenVersion, Safe, TypeOK
  <2>2. \A u \in Tx : View(u)' = View(u)
    BY <1>2 DEF FindOpenVersion, View
  <2>3. target'[t] \in Found(View(t))
    BY <1>0, <1>2 DEF FindOpenVersion, Safe, TypeOK
  <2>4. CASE HasOpen(View(t))
    <3>1. target'[t] \in Versions /\ View(t)[target'[t]].state = "open"
      BY <2>3, <2>4 DEF Found, HasOpen
    <3>2. target'[t] # NoRow
      BY <3>1, NoRowAssumption DEF Versions
    <3>3. ~ Empty(t)'
      BY <2>1 DEF Empty
    <3> QED
      BY <1>s, <1>m, <2>1, <2>2, <3>1, <3>2, <3>3, ViewsUnchanged
  <2>5. CASE ~ HasOpen(View(t))
    <3>1. missed
      BY <1>0, <2>5 DEF OpenUnlessMissed
    <3>2. ~ Empty(t)'
      BY <2>1 DEF Empty
    <3> QED
      BY <1>s, <1>m, <2>1, <2>2, <2>5, <3>1, <3>2, ViewsUnchanged
  <2> QED
    BY <2>4, <2>5
<1>3. ASSUME NEW t \in Tx, GetHakemusByIdLocking(t) PROVE Logged'
  <2> DEFINE v == target[t]
  <2>1. /\ pc[t] = "found" /\ rows' = rows /\ pc'[t] = "got"
        /\ \A u \in Tx : u # t => /\ pc'[u] = pc[u] /\ target'[u] = target[u] /\ read'[u] = read[u]
                                /\ locks'[u] = locks[u]
    BY <1>0, <1>3 DEF GetHakemusByIdLocking, Write, Safe, TypeOK
  <2>2. CASE /\ v # NoRow /\ Free(t, v) /\ View(t)[v].state = "open"
             /\ Write(t, v, View(t)[v]) /\ read' = [read EXCEPT ![t] = v] /\ missed' = missed
    <3>1. v \in Versions /\ View(t) \in [Versions -> Entry] /\ View(t)[v] \in Entry
      BY <1>0, <2>2, ViewType DEF Safe, TypeOK
    <3>2. \A u \in Tx : View(u)' = View(u)
      BY <1>0, <2>1, <2>2, <3>1, LockRow DEF Safe
    <3>3. ~ Empty(t)'
      BY <1>0, <2>1, <2>2 DEF Empty, Safe, TypeOK
    <3> QED
      BY <1>s, <1>m, <2>1, <2>2, <3>2, <3>3, ViewsUnchanged
  <2>3. CASE /\ v # NoRow => View(t)[v].state # "open"
             /\ missed' = (missed \/ v # NoRow) /\ UNCHANGED <<locks, own>>
    <3>1. \A u \in Tx : View(u)' = View(u)
      BY <2>1, <2>3 DEF View
    <3>2. missed' /\ (missed => missed') /\ (locks[t] = {} \/ ~ HasOpen(View(t)))
      BY <1>0, <2>1, <2>3 DEF FoundWhole
    <3> QED
      BY <1>s, <1>m, <2>1, <2>3, <3>1, <3>2, ViewsUnchanged
  <2> QED
    BY <1>3, <2>2, <2>3 DEF GetHakemusByIdLocking
<1>4. ASSUME NEW t \in Tx, CreateNewHakemusVersion(t) PROVE Logged'
  BY <1>4, CreateLogged
<1>5. ASSUME NEW t \in Tx, FindVersionToClose(t) PROVE Logged'
  <2>1. /\ pc[t] = "got" /\ read[t] = NoRow /\ rows' = rows /\ pc'[t] = "closing"
        /\ missed' = missed /\ locks' = locks
        /\ \A u \in Tx : u # t => pc'[u] = pc[u] /\ target'[u] = target[u] /\ read'[u] = read[u]
    BY <1>0, <1>5 DEF FindVersionToClose, Safe, TypeOK
  <2>2. \A u \in Tx : View(u)' = View(u)
    BY <1>5 DEF FindVersionToClose, View
  <2>3. missed /\ (locks[t] = {} \/ ~ HasOpen(View(t)))
    BY <1>0, <2>1 DEF EmptyMissed, Empty
  <2> QED
    BY <1>s, <1>m, <2>1, <2>2, <2>3, ViewsUnchanged
<1>6. ASSUME NEW t \in Tx, CloseHakemusById(t) PROVE Logged'
  BY <1>s, <1>6, CloseLogged
<1>7. ASSUME NEW t \in Tx, FindVersionToUpdate(t) PROVE Logged'
  <2>1. /\ pc[t] = "idle" /\ rows' = rows /\ pc'[t] = "updating" /\ missed' = missed /\ locks' = locks
        /\ \A u \in Tx : u # t => pc'[u] = pc[u] /\ target'[u] = target[u] /\ read'[u] = read[u]
    BY <1>0, <1>7 DEF FindVersionToUpdate, Safe, TypeOK
  <2>2. \A u \in Tx : View(u)' = View(u)
    BY <1>7 DEF FindVersionToUpdate, View
  <2>3. ~ Empty(t)'
    BY <2>1 DEF Empty
  <2> QED
    BY <1>s, <1>m, <2>1, <2>2, <2>3, ViewsUnchanged
<1>8. ASSUME NEW t \in Tx, UpdateOpenVersion(t) PROVE Logged'
  BY <1>s, <1>8, UpdateLogged
<1>9. ASSUME NEW t \in Tx, Commit(t) PROVE Logged'
  BY <1>9, EndLogged DEF Commit
<1>10. ASSUME NEW t \in Tx, Abort(t) PROVE Logged'
  BY <1>10, EndLogged DEF Abort
<1>11. CASE UNCHANGED vars
  <2>1. \A u \in Tx : View(u)' = View(u)
    BY <1>11 DEF vars, View
  <2>2. ViewsStep'
    BY <1>0, <1>11, <2>1, ViewsStepIs, ViewsStepNext DEF vars
  <2>3. OpenUnlessMissed' /\ FoundWhole' /\ EmptyMissed'
    BY <1>0, <1>11, <2>1 DEF vars, OpenUnlessMissed, FoundWhole, EmptyMissed, Empty, HasOpen
  <2> QED
    BY <1>s, <2>2, <2>3 DEF Logged
<1> QED
  BY <1>1, <1>2, <1>3, <1>4, <1>5, <1>6, <1>7, <1>8, <1>9, <1>10, <1>11 DEF Next

\* The invariant holds in every reachable state.
THEOREM LogInvariance == Spec => []Logged
<1> QED
  BY LoggedInit, LoggedStep, PTL DEF Spec

\* An application has an open version unless a locking SELECT lost the row it had found.
THEOREM AnOpenVersion == Spec => []SomeVersionIsOpen
<1>1. Logged => SomeVersionIsOpen
  BY DEF Logged, OpenUnlessMissed, SomeVersionIsOpen
<1> QED
  BY <1>1, LogInvariance, PTL

\* create-new-hakemus-version and the in-place updates implement the append-only log, which
\* may lose its open version only after a locking SELECT lost its row.
THEOREM Refinement == Spec => ImplementsVersionLog
<1>1. Init => Log!LogInit
  <2> SUFFICES ASSUME Init PROVE Log!LogInit
    OBVIOUS
  <2>1. 0 \in Versions /\ rows[0].state = "open"
    BY MaxVersionAssumption, NoWritesType DEF Init, Versions
  <2>2. rows \in [Versions -> Entry] /\ Ordered(rows)
    BY SafeInit DEF Safe, TypeOK
  <2>3. Log!EndsAt(rows, 0)
    BY <2>1, <2>2, OpenIsEnd
  <2> QED
    BY <2>2, <2>3 DEF Log!LogInit, Entry
<1>2. Logged /\ [Next]_vars => [Log!LogNext \/ (missed /\ Loses(rows, rows'))]_rows
  <2> SUFFICES ASSUME Logged, [Next]_vars, rows' # rows
               PROVE  Log!LogNext \/ (missed /\ Loses(rows, rows'))
    OBVIOUS
  <2>1. PICK t \in Tx : Commit(t)
    BY DEF Next, GetLockedHakemusVersionForUpdate, FindOpenVersion, GetHakemusByIdLocking,
           CreateNewHakemusVersion, CloseAndInsert, FindVersionToClose, CloseHakemusById,
           FindVersionToUpdate, UpdateOpenVersion, Abort, vars
  <2>2. rows' = View(t)
    BY <2>1 DEF Commit
  <2>3. rows' \in [Versions -> Entry]
    BY <2>2, ViewType DEF Logged, Safe
  <2>4. StepOf(rows, rows', pc[t] = "updated", missed)
    BY <2>2, ViewsStepIs DEF Logged
  <2> QED
    BY <2>3, <2>4 DEF StepOf, Log!LogNext, Entry
<1> QED
  BY <1>1, <1>2, LogInvariance, PTL DEF Spec, ImplementsVersionLog

=============================================================================
