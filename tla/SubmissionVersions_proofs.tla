------------------------ MODULE SubmissionVersions_proofs ------------------------
(***************************************************************************)
(* Proofs about SubmissionVersions, for any number of transactions,        *)
(* contents and versions: the first version is a mutex for the close, the  *)
(* insert and the commit, so the versions of the answers implement the     *)
(* append-only log.                                                        *)
(***************************************************************************)
EXTENDS SubmissionVersions, TLAPS

-----------------------------------------------------------------------------
(* The invariant *)

\* The committed versions are a log with an end.
HasEnd == \E v \in Versions : Log!EndsAt(rows, v)

\* No row is held twice.
Disjoint == \A t, u \in Tx : t # u => locks[t] \cap locks[u] = {}

\* The first version is found by every locking SELECT, so it is held from then on.
HoldsFirst ==
  \A t \in Tx : /\ pc[t] = "idle" => locks[t] = {}
                /\ pc[t] = "locking" => 0 \in found[t]
                /\ pc[t] \in {"closing", "closed", "written"} => 0 \in locks[t]

\* Until it closes something a transaction sees what is committed.
SeesCommitted == \A t \in Tx : pc[t] \in {"locking", "closing"} => View(t) = rows

\* What it closes is the end of the log.
FoundEnd == \A t \in Tx : pc[t] = "closing" => found[t] = {v \in Versions : rows[v].state = "open"}

\* b is a with its end v closed.
Closes(a, b, v) ==
  /\ Log!EndsAt(a, v)
  /\ b[v].state = "closed" /\ b[v].content = a[v].content
  /\ \A u \in Versions : u # v => b[u] = a[u]

ClosedView == \A t \in Tx : pc[t] = "closed" => \E v \in Versions : Closes(rows, View(t), v)

WrittenView == \A t \in Tx : pc[t] = "written" => Log!Continues(rows, View(t))

IInv ==
  /\ TypeOK
  /\ HasEnd
  /\ Disjoint
  /\ HoldsFirst
  /\ SeesCommitted
  /\ FoundEnd
  /\ ClosedView
  /\ WrittenView

-----------------------------------------------------------------------------
(* Lemmas *)

\* Version numbers are natural numbers, the first one is 0.
LEMMA VersionsNat == 0 \in Versions /\ \A v \in Versions : v \in Nat
BY MaxVersionAssumption DEF Versions

\* The value of own for a transaction with no writes has its type.
LEMMA NoWritesType == NoWrites \in [Versions -> Entry]
BY ContentsAssumption DEF NoWrites, Entry, Log!Entry, Log!States

\* A view is a table of versions.
LEMMA ViewType ==
  ASSUME TypeOK, NEW t \in Tx
  PROVE  View(t) \in [Versions -> Entry]
BY DEF TypeOK, View

\* Of two transactions at most one is past its locking SELECT.
LEMMA Mutex ==
  ASSUME IInv, NEW t \in Tx, NEW u \in Tx,
         pc[t] \in {"closing", "closed", "written"}, pc[u] \in {"closing", "closed", "written"}
  PROVE  t = u
BY DEF IInv, HoldsFirst, Disjoint

\* What is said of a transaction that a step leaves alone, with the rows, stays true.
Says(t) ==
  /\ pc[t] = "idle" => locks[t] = {}
  /\ pc[t] = "locking" => 0 \in found[t]
  /\ pc[t] \in {"closing", "closed", "written"} => 0 \in locks[t]
  /\ pc[t] \in {"locking", "closing"} => View(t) = rows
  /\ pc[t] = "closing" => found[t] = {v \in Versions : rows[v].state = "open"}
  /\ pc[t] = "closed" => \E v \in Versions : Closes(rows, View(t), v)
  /\ pc[t] = "written" => Log!Continues(rows, View(t))

\* The invariant, gathered by what it says of each transaction.
LEMMA SaysAll == IInv <=> TypeOK /\ HasEnd /\ Disjoint /\ \A t \in Tx : Says(t)
BY DEF IInv, HoldsFirst, SeesCommitted, FoundEnd, ClosedView, WrittenView, Says

\* The same of the next state.
LEMMA SaysAllNext == IInv' <=> TypeOK' /\ HasEnd' /\ Disjoint' /\ \A t \in Tx : Says(t)'
BY DEF IInv, HoldsFirst, SeesCommitted, FoundEnd, ClosedView, WrittenView, Says

\* A step that leaves a transaction and the committed rows alone leaves what is said of it.
LEMMA SaysUnchanged ==
  ASSUME NEW t \in Tx, Says(t), rows' = rows,
         pc'[t] = pc[t], locks'[t] = locks[t], own'[t] = own[t], found'[t] = found[t]
  PROVE  Says(t)'
<1>1. View(t)' = View(t)
  BY DEF View
<1> QED
  BY <1>1 DEF Says, Closes, Log!Continues, Log!EndsAt

\* The rest of the invariant for a step of t that leaves the rows alone.
LEMMA StepOf ==
  ASSUME IInv, NEW t \in Tx, rows' = rows, TypeOK', Disjoint', Says(t)',
         \A u \in Tx : u # t => /\ pc'[u] = pc[u] /\ locks'[u] = locks[u]
                                /\ own'[u] = own[u] /\ found'[u] = found[u]
  PROVE  IInv'
<1>1. \A u \in Tx : Says(u)
  BY SaysAll
<1>2. \A u \in Tx : Says(u)'
  BY <1>1, SaysUnchanged
<1>3. HasEnd'
  BY DEF IInv, HasEnd, Log!EndsAt
<1> QED
  BY <1>2, <1>3, SaysAllNext

\* New answers have their first version open and no transaction.
LEMMA InitInv == Init => IInv
<1> SUFFICES ASSUME Init PROVE IInv
  OBVIOUS
<1> USE VersionsNat
<1>1. PICK c \in Contents : rows = [NoWrites EXCEPT ![0] = [state |-> "open", content |-> c]]
  BY DEF Init
<1>2. rows \in [Versions -> Entry]
  BY <1>1, NoWritesType DEF Entry, Log!Entry, Log!States
<1>3. \A v \in Versions : rows[v].state = IF v = 0 THEN "open" ELSE "absent"
  BY <1>1, NoWritesType DEF NoWrites
<1>4. Log!EndsAt(rows, 0)
  BY <1>3 DEF Log!EndsAt
<1>5. TypeOK
  BY <1>2, NoWritesType DEF Init, TypeOK
<1>6. HasEnd
  BY <1>4 DEF HasEnd
<1> QED
  BY <1>5, <1>6 DEF Init, IInv, Disjoint, HoldsFirst, SeesCommitted, FoundEnd, ClosedView, WrittenView

\* The insert continues the log.
LEMMA InsertContinues ==
  ASSUME NEW a \in [Versions -> Entry], NEW b \in [Versions -> Entry], NEW d \in [Versions -> Entry],
         NEW v \in Versions, NEW n \in Versions, Closes(a, b, v),
         b[n].state = "absent", \E m \in Versions : n = m + 1 /\ b[m].state # "absent",
         d[n].state = "open", \A u \in Versions : u # n => d[u] = b[u]
  PROVE  Log!Continues(a, d)
<1> USE VersionsNat
<1>1. \A u \in Versions : b[u].state = IF u <= v THEN "closed" ELSE "absent"
  BY DEF Closes, Log!EndsAt
<1>2. PICK m \in Versions : n = m + 1 /\ b[m].state # "absent"
  OBVIOUS
<1>3. m <= v /\ ~ (n <= v)
  BY <1>1, <1>2
<1>4. n = v + 1
  BY <1>2, <1>3
<1>5. Log!EndsAt(d, n)
  <2> SUFFICES ASSUME NEW u \in Versions
               PROVE  d[u].state = (IF u < n THEN "closed" ELSE IF u = n THEN "open" ELSE "absent")
    BY DEF Log!EndsAt
  <2>1. CASE u = n
    BY <2>1
  <2>2. CASE u # n
    BY <2>2, <1>1, <1>4
  <2> QED
    BY <2>1, <2>2
<1>6. \A u \in Versions : u <= v => d[u].content = a[u].content
  BY <1>4 DEF Closes
<1> QED
  BY <1>4, <1>5, <1>6 DEF Log!Continues, Closes

-----------------------------------------------------------------------------
(* The steps *)

\* Every statement, commit and roll-back keeps the invariant.
LEMMA StepInv == IInv /\ [Next]_vars => IInv'
<1> SUFFICES ASSUME IInv, [Next]_vars PROVE IInv'
  OBVIOUS
<1> USE VersionsNat
<1>0. TypeOK /\ HasEnd /\ Disjoint /\ \A t \in Tx : Says(t)
  BY SaysAll
<1>1. ASSUME NEW t \in Tx, FindVersions(t) PROVE IInv'
  <2>1. /\ rows' = rows /\ locks[t] = {} /\ locks' = locks /\ own' = own
        /\ pc'[t] = "locking" /\ found'[t] = {v \in Versions : rows[v].state # "absent"}
        /\ \A u \in Tx : u # t => pc'[u] = pc[u] /\ found'[u] = found[u]
    BY <1>0, <1>1 DEF FindVersions, TypeOK, Says
  <2>2. TypeOK'
    BY <1>0, <1>1 DEF FindVersions, TypeOK
  <2>3. rows[0].state # "absent"
    BY <1>0 DEF HasEnd, Log!EndsAt
  <2>4. View(t)' = rows
    BY <1>0, <2>1 DEF View, TypeOK
  <2>5. Says(t)'
    BY <2>1, <2>3, <2>4 DEF Says
  <2>6. Disjoint'
    BY <1>0, <2>1 DEF Disjoint
  <2> QED
    BY <2>1, <2>2, <2>5, <2>6, StepOf
<1>2. ASSUME NEW t \in Tx, LockSubmission(t) PROVE IInv'
  <2>1. PICK v \in found[t] \ locks[t] :
          /\ Free(t, v)
          /\ locks' = [locks EXCEPT ![t] = @ \cup {v}]
          /\ own' = [own EXCEPT ![t][v] = rows[v]]
    BY <1>2 DEF LockSubmission
  <2>2. v \in Versions /\ pc[t] = "locking" /\ UNCHANGED <<rows, found, pc>>
    BY <1>0, <1>2, <2>1 DEF LockSubmission, TypeOK
  <2>3. TypeOK'
    BY <1>0, <2>1, <2>2 DEF TypeOK
  <2>4. /\ locks'[t] = locks[t] \cup {v} /\ own'[t] = [own[t] EXCEPT ![v] = rows[v]]
        /\ \A u \in Tx : u # t => locks'[u] = locks[u] /\ own'[u] = own[u]
    BY <1>0, <2>1 DEF TypeOK
  <2>5. Disjoint'
    BY <1>0, <2>1, <2>4 DEF Disjoint, Free
  <2>6. View(t)' = rows
    <3>1. View(t) = rows
      BY <1>0, <2>2 DEF Says
    <3>2. \A x \in Versions : View(t)'[x] = rows[x]
      BY <1>0, <2>2, <2>4, <3>1 DEF View, TypeOK
    <3>3. View(t)' \in [Versions -> Entry] /\ rows \in [Versions -> Entry]
      BY <1>0, <2>3 DEF View, TypeOK
    <3> QED
      BY <3>2, <3>3
  <2>7. Says(t)'
    BY <1>0, <2>2, <2>6 DEF Says
  <2> QED
    BY <2>2, <2>3, <2>4, <2>5, <2>7, StepOf
<1>3. ASSUME NEW t \in Tx, FindOpenVersions(t) PROVE IInv'
  <2>1. /\ rows' = rows /\ locks' = locks /\ own' = own /\ pc[t] = "locking"
        /\ found[t] \subseteq locks[t]
        /\ pc'[t] = "closing" /\ found'[t] = {v \in Versions : View(t)[v].state = "open"}
        /\ \A u \in Tx : u # t => pc'[u] = pc[u] /\ found'[u] = found[u]
    BY <1>0, <1>3 DEF FindOpenVersions, TypeOK
  <2>2. TypeOK'
    BY <1>0, <1>3 DEF FindOpenVersions, TypeOK
  <2>3. 0 \in locks'[t] /\ View(t) = rows /\ View(t)' = View(t)
    BY <1>0, <2>1 DEF Says, View
  <2>4. Says(t)'
    BY <2>1, <2>3 DEF Says
  <2>5. Disjoint'
    BY <1>0, <2>1 DEF Disjoint
  <2> QED
    BY <2>1, <2>2, <2>4, <2>5, StepOf
<1>4. ASSUME NEW t \in Tx, CloseExistingSubmission(t) PROVE IInv'
  <2> DEFINE new == [v \in Versions |-> IF v \in found[t] /\ View(t)[v].state = "open"
                                        THEN [View(t)[v] EXCEPT !.state = "closed"]
                                        ELSE IF v \in found[t] THEN View(t)[v] ELSE own[t][v]]
  <2>1. /\ rows' = rows /\ pc[t] = "closing" /\ \A v \in found[t] : Free(t, v)
        /\ locks'[t] = locks[t] \cup found[t] /\ own'[t] = new
        /\ found'[t] = {} /\ pc'[t] = "closed"
        /\ \A u \in Tx : u # t => /\ pc'[u] = pc[u] /\ locks'[u] = locks[u]
                                  /\ own'[u] = own[u] /\ found'[u] = found[u]
    BY <1>0, <1>4 DEF CloseExistingSubmission, TypeOK
  <2>2. View(t) = rows /\ found[t] = {v \in Versions : rows[v].state = "open"} /\ 0 \in locks[t]
    BY <1>0, <2>1 DEF Says
  <2>3. \A v \in Versions : rows[v] \in Entry /\ [rows[v] EXCEPT !.state = "closed"] \in Entry
    BY <1>0 DEF TypeOK, Entry, Log!Entry, Log!States
  <2>4. new \in [Versions -> Entry]
    BY <1>0, <2>2, <2>3 DEF TypeOK
  <2>5. TypeOK'
    BY <1>0, <1>4, <2>4 DEF CloseExistingSubmission, TypeOK
  <2>6. Disjoint'
    BY <1>0, <2>1 DEF Disjoint, Free
  <2>7. PICK v \in Versions : Log!EndsAt(rows, v)
    BY <1>0 DEF HasEnd
  <2>8. found[t] = {v}
    BY <2>2, <2>7 DEF Log!EndsAt
  <2>9. \A u \in Versions : View(t)'[u] = IF u = v THEN [rows[v] EXCEPT !.state = "closed"]
                                          ELSE rows[u]
    BY <2>1, <2>2, <2>8 DEF View
  <2>10. Closes(rows, View(t)', v)
    BY <2>3, <2>7, <2>9 DEF Closes, Entry, Log!Entry
  <2>11. Says(t)'
    <3>1. \E x \in Versions : Closes(rows', View(t)', x)
      BY <2>1, <2>10 DEF Closes, Log!EndsAt
    <3> QED
      BY <2>1, <2>2, <3>1 DEF Says, Closes, Log!EndsAt
  <2> QED
    BY <2>1, <2>5, <2>6, <2>11, StepOf
<1>5. ASSUME NEW t \in Tx, UpdateSubmission(t) PROVE IInv'
  <2>1. PICK n \in Versions, c \in Contents :
          /\ IsNext(t, n) /\ Free(t, n)
          /\ locks' = [locks EXCEPT ![t] = @ \cup {n}]
          /\ own' = [own EXCEPT ![t][n] = [state |-> "open", content |-> c]]
    BY <1>5 DEF UpdateSubmission
  <2>2. /\ rows' = rows /\ found' = found /\ pc[t] = "closed" /\ pc'[t] = "written"
        /\ locks'[t] = locks[t] \cup {n}
        /\ own'[t] = [own[t] EXCEPT ![n] = [state |-> "open", content |-> c]]
        /\ \A u \in Tx : u # t => pc'[u] = pc[u] /\ locks'[u] = locks[u] /\ own'[u] = own[u]
    BY <1>0, <1>5, <2>1 DEF UpdateSubmission, TypeOK
  <2>3. [state |-> "open", content |-> c] \in Entry
    BY DEF Entry, Log!Entry, Log!States
  <2>4. TypeOK'
    BY <1>0, <1>5, <2>1, <2>3 DEF UpdateSubmission, TypeOK
  <2>5. Disjoint'
    BY <1>0, <2>1, <2>2 DEF Disjoint, Free
  <2>6. /\ View(t)'[n].state = "open"
        /\ \A u \in Versions : u # n => View(t)'[u] = View(t)[u]
    BY <1>0, <2>2 DEF View, TypeOK
  <2>7. /\ rows \in [Versions -> Entry] /\ View(t) \in [Versions -> Entry]
        /\ View(t)' \in [Versions -> Entry]
    BY <1>0, <2>4, ViewType DEF View, TypeOK
  <2>8. PICK v \in Versions : Closes(rows, View(t), v)
    BY <1>0, <2>2 DEF Says
  <2>9. Log!Continues(rows, View(t)')
    BY <2>1, <2>6, <2>7, <2>8, InsertContinues DEF IsNext
  <2>10. Log!Continues(rows', View(t)')
    BY <2>2, <2>9 DEF Log!Continues, Log!EndsAt
  <2>11. 0 \in locks'[t]
    BY <1>0, <2>2 DEF Says
  <2>12. Says(t)'
    BY <2>2, <2>10, <2>11 DEF Says, Log!Continues, Log!EndsAt
  <2> QED
    BY <2>2, <2>4, <2>5, <2>12, StepOf
<1>6. ASSUME NEW t \in Tx, End(t), rows' = rows PROVE IInv'
  <2>1. /\ locks'[t] = {} /\ pc'[t] = "idle"
        /\ \A u \in Tx : u # t => /\ pc'[u] = pc[u] /\ locks'[u] = locks[u]
                                  /\ own'[u] = own[u] /\ found'[u] = found[u]
    BY <1>0, <1>6 DEF End, TypeOK
  <2>2. TypeOK'
    BY <1>0, <1>6, NoWritesType DEF End, TypeOK
  <2>3. Disjoint' /\ Says(t)'
    BY <1>0, <2>1 DEF Disjoint, Says
  <2> QED
    BY <1>6, <2>1, <2>2, <2>3, StepOf
<1>7. ASSUME NEW t \in Tx, Commit(t) PROVE IInv'
  <2>1. /\ locks'[t] = {} /\ pc'[t] = "idle" /\ pc[t] = "written" /\ rows' = View(t)
        /\ \A u \in Tx : u # t => /\ pc'[u] = pc[u] /\ locks'[u] = locks[u]
                                  /\ own'[u] = own[u] /\ found'[u] = found[u]
    BY <1>0, <1>7 DEF Commit, End, TypeOK
  <2>2. TypeOK'
    BY <1>0, <1>7, ViewType, NoWritesType DEF Commit, End, TypeOK
  <2>3. HasEnd'
    <3>1. Log!Continues(rows, rows')
      BY <1>0, <2>1 DEF Says
    <3> QED
      BY <3>1 DEF HasEnd, Log!Continues, Log!EndsAt
  <2>4. Disjoint'
    BY <1>0, <2>1 DEF Disjoint
  <2>5. ASSUME NEW u \in Tx PROVE Says(u)'
    <3>1. CASE u = t
      BY <2>1, <3>1 DEF Says
    <3>2. CASE u # t
      <4>1. pc[u] \in {"idle", "locking"}
        BY <1>0, <2>1, <3>2, Mutex DEF TypeOK
      <4>2. \A v \in locks[u] : rows'[v] = rows[v]
        BY <1>0, <2>1, <3>2 DEF Disjoint, View, TypeOK
      <4>3. CASE pc[u] = "idle"
        BY <1>0, <2>1, <3>2, <4>3 DEF Says
      <4>4. CASE pc[u] = "locking"
        <5>1. View(u) = rows
          BY <1>0, <4>4 DEF Says
        <5>2. \A v \in Versions : View(u)'[v] = rows'[v]
          BY <1>0, <2>1, <3>2, <4>2, <5>1 DEF View, TypeOK
        <5>3. View(u)' = rows'
          BY <2>2, <5>2 DEF View, TypeOK
        <5> QED
          BY <1>0, <2>1, <3>2, <4>4, <5>3 DEF Says
      <4> QED
        BY <4>1, <4>3, <4>4
    <3> QED
      BY <3>1, <3>2
  <2> QED
    BY <2>2, <2>3, <2>4, <2>5, SaysAllNext
<1>8. CASE UNCHANGED vars
  <2>1. \A t \in Tx : Says(t)'
    BY <1>0, <1>8, SaysUnchanged DEF vars
  <2>2. TypeOK' /\ HasEnd' /\ Disjoint'
    BY <1>0, <1>8 DEF vars, TypeOK, HasEnd, Disjoint, Log!EndsAt
  <2> QED
    BY <2>1, <2>2, SaysAllNext
<1> QED
  BY <1>1, <1>2, <1>3, <1>4, <1>5, <1>6, <1>7, <1>8 DEF Next, Abort

\* The invariant holds in every reachable state.
THEOREM Invariance == Spec => []IInv
<1> QED
  BY InitInv, StepInv, PTL DEF Spec

\* Types.
THEOREM TypeCorrect == Spec => []TypeOK
<1>1. IInv => TypeOK
  BY DEF IInv
<1> QED
  BY <1>1, Invariance, PTL

\* The versions of the answers implement the append-only log.
THEOREM Refinement == Spec => ImplementsVersionLog
<1>1. Init => Log!LogInit
  <2> SUFFICES ASSUME Init PROVE Log!LogInit
    OBVIOUS
  <2>1. PICK v \in Versions : Log!EndsAt(rows, v)
    BY InitInv DEF IInv, HasEnd
  <2>2. rows[0].state = "open" /\ rows \in [Versions -> Entry]
    <3>1. PICK c \in Contents : rows = [NoWrites EXCEPT ![0] = [state |-> "open", content |-> c]]
      BY DEF Init
    <3>2. rows[0].state = "open"
      BY <3>1, VersionsNat, NoWritesType
    <3>3. rows \in [Versions -> Entry]
      BY InitInv DEF IInv, TypeOK
    <3> QED
      BY <3>2, <3>3
  <2>3. v = 0
    BY <2>1, <2>2, VersionsNat DEF Log!EndsAt
  <2> QED
    BY <2>1, <2>2, <2>3 DEF Log!LogInit, Entry
<1>2. IInv /\ [Next]_vars => [Log!LogNext]_rows
  <2> SUFFICES ASSUME IInv, [Next]_vars, rows' # rows PROVE Log!LogNext
    OBVIOUS
  <2>1. PICK t \in Tx : Commit(t)
    BY DEF Next, FindVersions, LockSubmission, FindOpenVersions, CloseExistingSubmission,
           UpdateSubmission, Abort, vars
  <2>2. rows' = View(t) /\ pc[t] = "written"
    BY <2>1 DEF Commit
  <2>3. rows' \in [Versions -> Entry] /\ Log!Continues(rows, rows')
    BY <2>2, ViewType DEF IInv, WrittenView
  <2> QED
    BY <2>3 DEF Log!LogNext, Entry
<1> QED
  BY <1>1, <1>2, Invariance, PTL DEF Spec, ImplementsVersionLog, Log!LogSpec

=============================================================================
