----------------------------- MODULE HakemusVersions -----------------------------
(***************************************************************************)
(* How a transaction of the server makes a new version of one application  *)
(* (hakemus), statement by statement, as PostgreSQL runs it at READ        *)
(* COMMITTED.  oph.va.hakemus.db/create-new-hakemus-version is             *)
(*                                                                         *)
(*   SELECT ... WHERE version_closed IS NULL FOR UPDATE NOWAIT   (lock)    *)
(*   UPDATE ... SET version_closed = now() WHERE ... IS NULL     (close)   *)
(*   INSERT ... SELECT (version + 1) ...                         (insert)  *)
(*                                                                         *)
(* and every writer of an existing application goes through it, except the *)
(* in-place updates of the open version.  A statement sees the rows        *)
(* committed when it starts and the transaction's own writes; a row it     *)
(* must lock is examined again as it is when the lock is granted.          *)
(***************************************************************************)
EXTENDS Naturals

CONSTANTS Tx,           \* database transactions (one per pooled connection)
          Contents,     \* what a version may hold
          MaxVersion,   \* bound: the highest version number explored
          NoRow         \* "the statement returned no row"

ASSUME MaxVersionAssumption == MaxVersion \in Nat
ASSUME ContentsAssumption == Contents # {}
ASSUME NoRowAssumption == NoRow \notin 0..MaxVersion

Versions == 0..MaxVersion

VARIABLES rows,     \* the committed versions of the application
          locks,    \* [Tx -> SUBSET Versions]: rows the transaction has locked or inserted
          own,      \* [Tx -> rows]: its uncommitted values of the rows in locks
          pc,       \* [Tx -> statement the transaction has reached]
          target,   \* [Tx -> row its running statement found, or NoRow]
          read,     \* [Tx -> version its locking SELECT returned, or NoRow]
          missed    \* history: a locking SELECT lost the row that it had found, for a
                    \* commit fell between its snapshot and its lock

vars == <<rows, locks, own, pc, target, read, missed>>

Log == INSTANCE VersionLog WITH log <- rows

Entry == Log!Entry

\* idle: no transaction.  begun: holds its first lock.  found: the locking SELECT has
\* its snapshot.  got: it has returned.  closing, updating: an UPDATE has its snapshot.
\* written: a new version is in place.  updated: an in-place update is done.
Statements == {"idle", "begun", "found", "got", "closing", "updating", "written", "updated"}

-----------------------------------------------------------------------------
(* Helpers *)

\* What transaction t sees: its own writes over the committed rows.
View(t) == [v \in Versions |-> IF v \in locks[t] THEN own[t][v] ELSE rows[v]]

\* No other transaction holds row v.
Free(t, v) == \A u \in Tx \ {t} : v \notin locks[u]

\* The rows a statement with the condition version_closed IS NULL finds in snapshot s.
Found(s) == LET open == {v \in Versions : s[v].state = "open"}
            IN IF open = {} THEN {NoRow} ELSE open

\* The private values of a transaction that has none.
NoWrites == [v \in Versions |-> [state |-> "absent", content |-> CHOOSE c \in Contents : TRUE]]

\* t takes row v with the value e (v was locked, or is locked or inserted now).
Write(t, v, e) ==
  /\ locks' = [locks EXCEPT ![t] = @ \cup {v}]
  /\ own' = [own EXCEPT ![t][v] = e]

\* t ends and gives up its locks.
End(t) ==
  /\ locks' = [locks EXCEPT ![t] = {}]
  /\ pc' = [pc EXCEPT ![t] = "idle"]
  /\ target' = [target EXCEPT ![t] = NoRow]
  /\ read' = [read EXCEPT ![t] = NoRow]
  /\ own' = [own EXCEPT ![t] = NoWrites]

-----------------------------------------------------------------------------
(* Actions *)

Init ==
  /\ \E c \in Contents : rows = [NoWrites EXCEPT ![0] = [state |-> "open", content |-> c]]
  /\ own = [t \in Tx |-> NoWrites]
  /\ locks = [t \in Tx |-> {}]
  /\ pc = [t \in Tx |-> "idle"]
  /\ target = [t \in Tx |-> NoRow]
  /\ read = [t \in Tx |-> NoRow]
  /\ missed = FALSE

\* SELECT * ... WHERE user_key = ? AND version = ? FOR UPDATE NOWAIT: an applicant's
\* save locks the version it is based on.  A row held by another transaction is an error
\* and a closed row is a conflict: both end the transaction with nothing done.
GetLockedHakemusVersionForUpdate(t, base) ==
  /\ pc[t] = "idle"
  /\ Free(t, base)
  /\ rows[base].state = "open"
  /\ Write(t, base, rows[base])
  /\ pc' = [pc EXCEPT ![t] = "begun"]
  /\ UNCHANGED <<rows, target, read, missed>>

\* The locking SELECT takes its snapshot; also the second one of a transaction that
\* makes two versions (submit-hakemus, keskeyta-aloittamatta).
FindOpenVersion(t) ==
  /\ pc[t] \in {"idle", "begun", "written"}
  /\ \E v \in Found(View(t)) : target' = [target EXCEPT ![t] = v]
  /\ pc' = [pc EXCEPT ![t] = "found"]
  /\ UNCHANGED <<rows, locks, own, read, missed>>

\* ... and locks the row it found.  NOWAIT: a row held by another transaction is an
\* error (Abort).  A row no longer open is left out of the result.
GetHakemusByIdLocking(t) ==
  /\ pc[t] = "found"
  /\ pc' = [pc EXCEPT ![t] = "got"]
  /\ \/ /\ target[t] # NoRow
        /\ Free(t, target[t])
        /\ View(t)[target[t]].state = "open"
        /\ Write(t, target[t], View(t)[target[t]])
        /\ read' = [read EXCEPT ![t] = target[t]]
        /\ UNCHANGED missed
     \/ /\ target[t] # NoRow => /\ Free(t, target[t])
                                /\ View(t)[target[t]].state # "open"
        /\ read' = [read EXCEPT ![t] = NoRow]
        /\ missed' = (missed \/ target[t] # NoRow)
        /\ UNCHANGED <<locks, own>>
  /\ target' = [target EXCEPT ![t] = NoRow]
  /\ UNCHANGED rows

\* The close and the insert, for the version the SELECT returned and locked: that row
\* becomes `closed`, the new one is `inserted`.
CloseAndInsert(t, closed, inserted) ==
  /\ pc[t] = "got"
  /\ read[t] # NoRow
  /\ read[t] + 1 \in Versions
  /\ Free(t, read[t] + 1)
  /\ View(t)[read[t] + 1].state = "absent"
  /\ own' = [own EXCEPT ![t] = [@ EXCEPT ![read[t]] = closed, ![read[t] + 1] = inserted]]
  /\ locks' = [locks EXCEPT ![t] = @ \cup {read[t], read[t] + 1}]
  /\ pc' = [pc EXCEPT ![t] = "written"]
  /\ read' = [read EXCEPT ![t] = NoRow]
  /\ UNCHANGED <<rows, target, missed>>

\* Mutants: the copy gets no content; the copy keeps version_closed; the old version is
\* not closed; the callers' UPDATE lacks its version and reaches the old version too.
CreateWithoutContent(t) ==
  CloseAndInsert(t, [View(t)[read[t]] EXCEPT !.state = "closed"],
                    [state |-> "open", content |-> NoRow])

CreateClosedCopy(t) ==
  CloseAndInsert(t, [View(t)[read[t]] EXCEPT !.state = "closed"],
                    [View(t)[read[t]] EXCEPT !.state = "closed"])

CreateWithoutClose(t) ==
  CloseAndInsert(t, View(t)[read[t]], View(t)[read[t]])

CreateAndUpdateEveryVersion(t) ==
  \E c \in Contents : CloseAndInsert(t, [state |-> "closed", content |-> c],
                                       [state |-> "open", content |-> c])

\* Closes the version that was read and inserts its copy, to which the caller's UPDATE
\* ... WHERE version = ? in the same transaction gives its contents.
CreateNewHakemusVersion(t) ==
  \E c \in Contents : CloseAndInsert(t, [View(t)[read[t]] EXCEPT !.state = "closed"],
                                       [state |-> "open", content |-> c])

\* The close when the SELECT returned nothing: its own snapshot may hold an open version.
FindVersionToClose(t) ==
  /\ pc[t] = "got"
  /\ read[t] = NoRow
  /\ \E v \in Found(View(t)) : target' = [target EXCEPT ![t] = v]
  /\ pc' = [pc EXCEPT ![t] = "closing"]
  /\ UNCHANGED <<rows, locks, own, read, missed>>

\* ... it waits for the row's lock and closes the row if it is still open.  The INSERT
\* then copies no row, for it looks for version NULL.
CloseHakemusById(t) ==
  /\ pc[t] = "closing"
  /\ \/ /\ target[t] # NoRow
        /\ Free(t, target[t])
        /\ View(t)[target[t]].state = "open"
        /\ Write(t, target[t], [View(t)[target[t]] EXCEPT !.state = "closed"])
     \/ /\ target[t] # NoRow => /\ Free(t, target[t])
                                /\ View(t)[target[t]].state # "open"
        /\ UNCHANGED <<locks, own>>
  /\ pc' = [pc EXCEPT ![t] = "written"]
  /\ target' = [target EXCEPT ![t] = NoRow]
  /\ UNCHANGED <<rows, read, missed>>

\* An in-place UPDATE ... WHERE version_closed IS NULL in a transaction of its own
\* (update-submitted-hakemus-version, update-loppuselvitys-status, ...).
FindVersionToUpdate(t) ==
  /\ pc[t] = "idle"
  /\ \E v \in Found(rows) : target' = [target EXCEPT ![t] = v]
  /\ pc' = [pc EXCEPT ![t] = "updating"]
  /\ UNCHANGED <<rows, locks, own, read, missed>>

\* Mutant: the row is not examined again once its lock is granted.
UpdateStaleVersion(t) ==
  /\ pc[t] = "updating"
  /\ target[t] # NoRow
  /\ Free(t, target[t])
  /\ \E c \in Contents : Write(t, target[t], [state |-> "open", content |-> c])
  /\ pc' = [pc EXCEPT ![t] = "updated"]
  /\ target' = [target EXCEPT ![t] = NoRow]
  /\ UNCHANGED <<rows, read, missed>>

\* ... it waits for the row's lock and updates the row if it is still open, else no row.
UpdateOpenVersion(t) ==
  /\ pc[t] = "updating"
  /\ \/ /\ target[t] # NoRow
        /\ Free(t, target[t])
        /\ View(t)[target[t]].state = "open"
        /\ \E c \in Contents : Write(t, target[t], [state |-> "open", content |-> c])
     \/ /\ target[t] # NoRow => /\ Free(t, target[t])
                                /\ View(t)[target[t]].state # "open"
        /\ UNCHANGED <<locks, own>>
  /\ pc' = [pc EXCEPT ![t] = "updated"]
  /\ target' = [target EXCEPT ![t] = NoRow]
  /\ UNCHANGED <<rows, read, missed>>

Commit(t) ==
  /\ pc[t] \in {"written", "updated"}
  /\ rows' = View(t)
  /\ End(t)
  /\ UNCHANGED missed

\* An exception (NOWAIT, a failed validation, a lost connection, a crash) rolls back.
Abort(t) ==
  /\ pc[t] # "idle"
  /\ End(t)
  /\ UNCHANGED <<rows, missed>>

Next ==
  \E t \in Tx :
    \/ \E base \in Versions : GetLockedHakemusVersionForUpdate(t, base)
    \/ FindOpenVersion(t)
    \/ GetHakemusByIdLocking(t)
    \/ CreateNewHakemusVersion(t)
    \/ FindVersionToClose(t)
    \/ CloseHakemusById(t)
    \/ FindVersionToUpdate(t)
    \/ UpdateOpenVersion(t)
    \/ Commit(t)
    \/ Abort(t)

Spec == Init /\ [][Next]_vars

-----------------------------------------------------------------------------
(* Properties *)

TypeOK ==
  /\ rows \in [Versions -> Entry]
  /\ locks \in [Tx -> SUBSET Versions]
  /\ own \in [Tx -> [Versions -> Entry]]
  /\ pc \in [Tx -> Statements]
  /\ target \in [Tx -> Versions \cup {NoRow}]
  /\ read \in [Tx -> Versions \cup {NoRow}]
  /\ missed \in BOOLEAN

\* Nothing follows an open version and nothing but closed versions precede a version,
\* so an id never has two open versions: every query of the application that says
\* version_closed IS NULL relies on getting at most one row.
Ordered(r) ==
  \A v, w \in Versions : v < w /\ r[w].state # "absent" => r[v].state = "closed"

AtMostOneOpenVersion == Ordered(rows)

HasOpen(r) == \E v \in Versions : r[v].state = "open"

\* There is always an open version, so an application is never lost from the queries that
\* say version_closed IS NULL; unless a locking SELECT found a row and lost it to a commit.
SomeVersionIsOpen == HasOpen(rows) \/ missed

\* A closed version is history: no later transaction changes it.  The in-place updates
\* test version_closed when their lock is granted, not when they start.
ClosedVersionsNeverChange ==
  [][\A v \in Versions : rows[v].state = "closed" => rows'[v] = rows[v]]_vars

\* b is a with its open version closed and none after it.
Loses(a, b) ==
  \E v \in Versions : Log!EndsAt(a, v) /\ b = [a EXCEPT ![v].state = "closed"]

\* The protocol implements the append-only log; but after a locking SELECT lost its row the
\* open version may be closed with no new one after it, and the log then stays as it is.
ImplementsVersionLog ==
  Log!LogInit /\ [][Log!LogNext \/ (missed /\ Loses(rows, rows'))]_rows

=============================================================================
