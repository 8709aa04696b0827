---------------------------- MODULE SubmissionVersions ----------------------------
(***************************************************************************)
(* How a transaction makes a new version of a form's answers               *)
(* (form_submissions), statement by statement at READ COMMITTED:           *)
(*                                                                         *)
(*   SELECT 1 ... WHERE id = ? FOR UPDATE NOWAIT           (lock.sql)      *)
(*   UPDATE ... SET version_closed = now() ... IS NULL     (close-existing)*)
(*   INSERT ... SELECT max(version) + 1                    (update.sql)    *)
(*                                                                         *)
(* Unlike create-new-hakemus-version it locks every version, the closed    *)
(* ones too, so its first version works as a mutex.                      *)
(***************************************************************************)
EXTENDS Naturals

CONSTANTS Tx,          \* database transactions
          Contents,    \* the answers a version may hold
          MaxVersion   \* bound: the highest version number explored

ASSUME MaxVersionAssumption == MaxVersion \in Nat
ASSUME ContentsAssumption == Contents # {}

Versions == 0..MaxVersion

VARIABLES rows,    \* the committed versions of the answers
          locks,   \* [Tx -> SUBSET Versions]: rows the transaction has locked or inserted
          own,     \* [Tx -> rows]: its uncommitted values of the rows in locks
          found,   \* [Tx -> SUBSET Versions]: rows its running statement found
          pc       \* [Tx -> statement the transaction has reached]

vars == <<rows, locks, own, found, pc>>

Log == INSTANCE VersionLog WITH log <- rows

Entry == Log!Entry

NoWrites == [v \in Versions |-> [state |-> "absent", content |-> CHOOSE c \in Contents : TRUE]]

-----------------------------------------------------------------------------
(* Helpers *)

\* What transaction t sees: its own writes over the committed rows.
View(t) == [v \in Versions |-> IF v \in locks[t] THEN own[t][v] ELSE rows[v]]

\* No other transaction holds row v.
Free(t, v) == \A u \in Tx \ {t} : v \notin locks[u]

End(t) ==
  /\ locks' = [locks EXCEPT ![t] = {}]
  /\ own' = [own EXCEPT ![t] = NoWrites]
  /\ found' = [found EXCEPT ![t] = {}]
  /\ pc' = [pc EXCEPT ![t] = "idle"]

-----------------------------------------------------------------------------
(* Actions *)

\* create-submission!: version 0.
Init ==
  /\ \E c \in Contents : rows = [NoWrites EXCEPT ![0] = [state |-> "open", content |-> c]]
  /\ locks = [t \in Tx |-> {}]
  /\ own = [t \in Tx |-> NoWrites]
  /\ found = [t \in Tx |-> {}]
  /\ pc = [t \in Tx |-> "idle"]

\* lock.sql takes its snapshot of the versions, ...
FindVersions(t) ==
  /\ pc[t] = "idle"
  /\ found' = [found EXCEPT ![t] = {v \in Versions : rows[v].state # "absent"}]
  /\ pc' = [pc EXCEPT ![t] = "locking"]
  /\ UNCHANGED <<rows, locks, own>>

\* ... then locks them one by one, in any order, as they are by then.  NOWAIT: a row held
\* by another transaction fails this one (Abort).
LockSubmission(t) ==
  /\ pc[t] = "locking"
  /\ \E v \in found[t] \ locks[t] :
       /\ Free(t, v)
       /\ locks' = [locks EXCEPT ![t] = @ \cup {v}]
       /\ own' = [own EXCEPT ![t][v] = rows[v]]
  /\ UNCHANGED <<rows, found, pc>>

\* Mutant: close-existing.sql does not await the lock of every version.
FindOpenVersionsUnlocked(t) ==
  /\ pc[t] = "locking"
  /\ found' = [found EXCEPT ![t] = {v \in Versions : View(t)[v].state = "open"}]
  /\ pc' = [pc EXCEPT ![t] = "closing"]
  /\ UNCHANGED <<rows, locks, own>>

\* close-existing.sql takes its snapshot, ...
FindOpenVersions(t) ==
  /\ pc[t] = "locking"
  /\ found[t] \subseteq locks[t]
  /\ found' = [found EXCEPT ![t] = {v \in Versions : View(t)[v].state = "open"}]
  /\ pc' = [pc EXCEPT ![t] = "closing"]
  /\ UNCHANGED <<rows, locks, own>>

\* ... waits for the locks of the rows it found and closes those still open.
CloseExistingSubmission(t) ==
  /\ pc[t] = "closing"
  /\ \A v \in found[t] : Free(t, v)
  /\ locks' = [locks EXCEPT ![t] = @ \cup found[t]]
  /\ own' = [own EXCEPT ![t] =
       [v \in Versions |-> IF v \in found[t] /\ View(t)[v].state = "open"
                           THEN [View(t)[v] EXCEPT !.state = "closed"]
                           ELSE IF v \in found[t] THEN View(t)[v] ELSE own[t][v]]]
  /\ found' = [found EXCEPT ![t] = {}]
  /\ pc' = [pc EXCEPT ![t] = "closed"]
  /\ UNCHANGED rows

\* The number update.sql gives the new version: one more than the highest it sees.
IsNext(t, n) ==
  /\ View(t)[n].state = "absent"
  /\ \E m \in Versions : n = m + 1 /\ View(t)[m].state # "absent"
  /\ \A v \in Versions : v > n => View(t)[v].state = "absent"

\* Mutant: the insert leaves the answers out.
InsertWithoutAnswers(t) ==
  /\ pc[t] = "closed"
  /\ \E n \in Versions :
       /\ IsNext(t, n)
       /\ Free(t, n)
       /\ locks' = [locks EXCEPT ![t] = @ \cup {n}]
       /\ own' = [own EXCEPT ![t][n] = [state |-> "open", content |-> "null"]]
  /\ pc' = [pc EXCEPT ![t] = "written"]
  /\ UNCHANGED <<rows, found>>

\* update.sql.  An uncommitted row with the same key makes it wait; a committed one would
\* break the primary key (Abort).
UpdateSubmission(t) ==
  /\ pc[t] = "closed"
  /\ \E n \in Versions, c \in Contents :
       /\ IsNext(t, n)
       /\ Free(t, n)
       /\ locks' = [locks EXCEPT ![t] = @ \cup {n}]
       /\ own' = [own EXCEPT ![t][n] = [state |-> "open", content |-> c]]
  /\ pc' = [pc EXCEPT ![t] = "written"]
  /\ UNCHANGED <<rows, found>>

Commit(t) ==
  /\ pc[t] = "written"
  /\ rows' = View(t)
  /\ End(t)

\* An exception (NOWAIT, a lost connection, a crash) rolls back.
Abort(t) ==
  /\ pc[t] # "idle"
  /\ End(t)
  /\ UNCHANGED rows

Next ==
  \E t \in Tx :
    \/ FindVersions(t)
    \/ LockSubmission(t)
    \/ FindOpenVersions(t)
    \/ CloseExistingSubmission(t)
    \/ UpdateSubmission(t)
    \/ Commit(t)
    \/ Abort(t)

Spec == Init /\ [][Next]_vars

-----------------------------------------------------------------------------
(* Properties *)

TypeOK ==
  /\ rows \in [Versions -> Entry]
  /\ locks \in [Tx -> SUBSET Versions]
  /\ own \in [Tx -> [Versions -> Entry]]
  /\ found \in [Tx -> SUBSET Versions]
  /\ pc \in [Tx -> {"idle", "locking", "closing", "closed", "written"}]

\* The versions of the answers are an append-only log with one open version at its end,
\* whatever commits fall between a statement's snapshot and the locks it takes:
\* update-submission! and update-submission-tx! lose no version and never leave two open.
ImplementsVersionLog == Log!LogSpec

=============================================================================
