------------------------------ MODULE Hakemus_proofs ------------------------------
(***************************************************************************)
(* What holds of one application for any number of requests, whatever they *)
(* ask and wherever the application starts: every invariant the runs       *)
(* check.  All of them follow from one inductive invariant, which says     *)
(* what each request may still rely on of what it has read.                *)
(***************************************************************************)
EXTENDS Hakemus, TLAPS, SequenceTheorems

Pcs == {"idle", "asked", "checked", "read", "written", "marking", "ended"}

(* The versions R of an application and S of its answers *)

CauseT(n, m) == [kind : Kinds \cup {"set_submitted_version"}, token : BOOLEAN, open : BOOLEAN,
                 seen : 0..n, loaded : 0..m]

VersionT(n, m) == [status : Statuses, submission : 1..m, refused : BOOLEAN, submitted : 0..n,
                   cause : CauseT(n, m)]

\* The version x of the application supersedes the answers S as SavesLoseNoAnswers says.
SaveOK(S, x) ==
  x.cause.kind = "save" => \A n \in (x.cause.loaded + 1)..(x.submission - 1) : S[n] \in SplitKinds

\* The version x may follow the version v, which is old.
EditOK(old, v, x) ==
  x.cause.kind \in EditKinds =>
    \/ x.cause.open
    \/ old.status \in {"pending_change_request", "applicant_edit"}
    \/ old.status = "officer_edit" /\ x.cause.token
    \/ x.cause.kind # "save" /\ x.cause.seen < v

CancelOK(old, v, x) ==
  old.status = "cancelled" /\ x.status # "cancelled" => x.cause.kind = "status" \/ x.cause.seen < v

\* The two causes a pointer p may be behind for.
AnswersAhead(R, S) ==
  S[Len(S)] \in SplitKinds /\ \A v \in 1..Len(R) : R[v].submission # Len(S)

StaleVersion(R, p) ==
  \E v \in 1..Len(R) :
    /\ R[v].cause.kind \in SplitKinds \cup StalePointerKinds
    /\ R[v].submission = p
    /\ R[v].cause.seen < v - 1

\* Of a version an officer's status change submitted, and that is yet to be marked.
Unmarked(R, v) ==
  R[v].cause.kind = "status" /\ R[v].status = "submitted" /\ R[v].submitted # v

LastOK(R, S) ==
  /\ R[Len(R)].submission # Len(S) => AnswersAhead(R, S) \/ StaleVersion(R, R[Len(R)].submission)
  /\ R[Len(R)].submitted > 0 =>
       \/ R[R[Len(R)].submitted].status = "submitted"
       \/ \E v \in 1..(R[Len(R)].submitted - 1) : Unmarked(R, v)

VersionsOK(R, S) ==
  /\ R \in Seq(VersionT(Len(R), Len(S))) /\ S \in Seq(Kinds)
  /\ R # <<>> => S # <<>> /\ LastOK(R, S)
  /\ \A v \in 1..Len(R) : SaveOK(S, R[v])
  /\ \A v \in 1..(Len(R) - 1) : EditOK(R[v], v, R[v + 1]) /\ CancelOK(R[v], v, R[v + 1])

-----------------------------------------------------------------------------
(* The versions after a step *)

LEMMA Monotone ==
  ASSUME NEW n \in Nat, NEW m \in Nat, NEW i \in Nat, NEW j \in Nat, n <= i, m <= j
  PROVE  VersionT(n, m) \subseteq VersionT(i, j)
<1>1. CauseT(n, m) \subseteq CauseT(i, j)
  BY DEF CauseT
<1> SUFFICES ASSUME NEW x \in VersionT(n, m) PROVE x \in VersionT(i, j)
  OBVIOUS
<1>2. x = [status |-> x.status, submission |-> x.submission, refused |-> x.refused,
           submitted |-> x.submitted, cause |-> x.cause]
  BY DEF VersionT
<1>3. x.cause \in CauseT(i, j)
  BY <1>1 DEF VersionT
<1> QED BY <1>3 DEF VersionT

\* The answers T are S or more.
Extends(S, T) ==
  /\ S \in Seq(Kinds) /\ T \in Seq(Kinds) /\ Len(S) <= Len(T)
  /\ \A m \in 1..Len(S) : T[m] = S[m]

LEMMA Answers ==
  ASSUME NEW S \in Seq(Kinds), NEW k \in Kinds
  PROVE  /\ Extends(S, S) /\ Extends(S, Append(S, k))
         /\ Append(S, k) # <<>> /\ Len(Append(S, k)) = Len(S) + 1 /\ Append(S, k)[Len(S) + 1] = k
         /\ Len(S) \in Nat
BY AppendProperties, LenProperties DEF Extends

LEMMA Versions ==
  ASSUME NEW R, NEW S, VersionsOK(R, S)
  PROVE  /\ Len(R) \in Nat /\ Len(S) \in Nat
         /\ \A v \in 1..Len(R) : R[v] \in VersionT(Len(R), Len(S))
         /\ R # <<>> => Len(R) > 0 /\ Len(S) > 0
BY LenProperties, ElementOfSeq, EmptySeq DEF VersionsOK

\* What the version x of the application and the answers T do to R and S.
Follows(R, S, T, x) ==
  LET n == Len(R)
      last == R[n]
  IN /\ x \in VersionT(n + 1, Len(T))
     /\ SaveOK(T, x) /\ EditOK(last, n, x) /\ CancelOK(last, n, x)
     /\ \/ x.submission = Len(T)
        \/ /\ T = S
           /\ \/ x.submission = last.submission
              \/ x.cause.kind \in SplitKinds \cup StalePointerKinds /\ x.cause.seen < n
              \/ AnswersAhead(R, S)
     /\ \/ x.submitted = last.submitted
        \/ x.submitted = n + 1 /\ x.status = "submitted"

LEMMA OneMore ==
  ASSUME NEW R, NEW S, NEW T, NEW x,
         VersionsOK(R, S), R # <<>>, Extends(S, T), Follows(R, S, T, x)
  PROVE  VersionsOK(Append(R, x), T)
<1> DEFINE n == Len(R)
           Q == Append(R, x)
<1>1. /\ n \in Nat /\ Len(S) \in Nat /\ n > 0 /\ Len(S) > 0 /\ Len(T) \in Nat /\ Len(S) <= Len(T)
      /\ \A v \in 1..n : R[v] \in VersionT(n, Len(S))
  BY Versions, LenProperties DEF Extends
<1>2. /\ R \in Seq(VersionT(n + 1, Len(T))) /\ x \in VersionT(n + 1, Len(T))
  <2>1. VersionT(n, Len(S)) \subseteq VersionT(n + 1, Len(T))
    BY <1>1, Monotone
  <2> QED BY <2>1, SeqMonotonic DEF VersionsOK, Follows
<1>3. /\ Q \in Seq(VersionT(n + 1, Len(T))) /\ Len(Q) = n + 1 /\ Q # <<>>
      /\ \A v \in 1..n : Q[v] = R[v]
      /\ Q[n + 1] = x
  BY <1>2, AppendProperties
<1>4. T \in Seq(Kinds) /\ T # <<>>
  BY <1>1, EmptySeq DEF Extends
<1>5. \A v \in 1..n : SaveOK(T, R[v])
  <2> SUFFICES ASSUME NEW v \in 1..n, R[v].cause.kind = "save",
                      NEW m \in (R[v].cause.loaded + 1)..(R[v].submission - 1)
               PROVE  T[m] \in SplitKinds
    BY DEF SaveOK
  <2>1. R[v].submission \in 1..Len(S) /\ R[v].cause.loaded \in 0..Len(S)
    BY <1>1 DEF VersionT, CauseT
  <2>2. m \in 1..Len(S)
    BY <2>1, <1>1
  <2> QED BY <2>2 DEF VersionsOK, SaveOK, Extends
<1>6. \A v \in 1..(n + 1) : SaveOK(T, Q[v])
  <2> SUFFICES ASSUME NEW v \in 1..(n + 1) PROVE SaveOK(T, Q[v])
    OBVIOUS
  <2>1. CASE v = n + 1
    BY <2>1, <1>3 DEF Follows
  <2>2. CASE v \in 1..n
    BY <2>2, <1>3, <1>5
  <2> QED BY <2>1, <2>2, <1>1
<1>7. \A v \in 1..n : EditOK(Q[v], v, Q[v + 1]) /\ CancelOK(Q[v], v, Q[v + 1])
  <2> SUFFICES ASSUME NEW v \in 1..n PROVE EditOK(Q[v], v, Q[v + 1]) /\ CancelOK(Q[v], v, Q[v + 1])
    OBVIOUS
  <2>1. CASE v = n
    BY <2>1, <1>1, <1>3 DEF Follows
  <2>2. CASE v \in 1..(n - 1)
    BY <2>2, <1>1, <1>3 DEF VersionsOK
  <2> QED BY <2>1, <2>2, <1>1
<1>8. x.submission # Len(T) => AnswersAhead(Q, T) \/ StaleVersion(Q, x.submission)
  <2> SUFFICES ASSUME x.submission # Len(T)
               PROVE  AnswersAhead(Q, T) \/ StaleVersion(Q, x.submission)
    OBVIOUS
  <2>1. ASSUME AnswersAhead(R, S), T = S PROVE AnswersAhead(Q, T)
    BY <2>1, <1>1, <1>3 DEF AnswersAhead
  <2>2. ASSUME StaleVersion(R, x.submission) PROVE StaleVersion(Q, x.submission)
    BY <2>2, <1>1, <1>3 DEF StaleVersion
  <2>3. ASSUME x.cause.kind \in SplitKinds \cup StalePointerKinds, x.cause.seen < n
        PROVE  StaleVersion(Q, x.submission)
    BY <2>3, <1>1, <1>3 DEF StaleVersion
  <2>4. ASSUME x.submission = R[n].submission, T = S
        PROVE  AnswersAhead(R, S) \/ StaleVersion(R, x.submission)
    BY <2>4 DEF VersionsOK, LastOK
  <2> QED BY <2>1, <2>2, <2>3, <2>4 DEF Follows
<1>9. x.submitted > 0 =>
        \/ Q[x.submitted].status = "submitted"
        \/ \E v \in 1..(x.submitted - 1) : Unmarked(Q, v)
  <2> SUFFICES ASSUME x.submitted > 0
               PROVE  \/ Q[x.submitted].status = "submitted"
                      \/ \E v \in 1..(x.submitted - 1) : Unmarked(Q, v)
    OBVIOUS
  <2>1. CASE x.submitted = n + 1 /\ x.status = "submitted"
    BY <2>1, <1>3
  <2>2. CASE x.submitted = R[n].submitted
    <3>1. x.submitted \in 1..n
      BY <2>2, <1>1 DEF VersionT
    <3>2. \/ R[x.submitted].status = "submitted"
          \/ \E v \in 1..(x.submitted - 1) : Unmarked(R, v)
      BY <2>2 DEF VersionsOK, LastOK
    <3>3. ASSUME NEW v \in 1..(x.submitted - 1), Unmarked(R, v) PROVE Unmarked(Q, v)
      BY <3>1, <3>3, <1>1, <1>3 DEF Unmarked
    <3> QED BY <3>1, <3>2, <3>3, <1>3
  <2> QED BY <2>1, <2>2 DEF Follows
<1>10. LastOK(Q, T)
  BY <1>3, <1>8, <1>9 DEF LastOK
<1> HIDE DEF n, Q
<1> QED BY <1>1, <1>3, <1>4, <1>6, <1>7, <1>10 DEF VersionsOK, Q

LEMMA AnswersFirst ==
  ASSUME NEW R, NEW S, NEW k \in SplitKinds, VersionsOK(R, S), R # <<>>
  PROVE  VersionsOK(R, Append(S, k))
<1> DEFINE n == Len(R)
           T == Append(S, k)
<1>1. /\ n \in Nat /\ Len(S) \in Nat /\ n > 0 /\ Len(S) > 0
      /\ \A v \in 1..n : R[v] \in VersionT(n, Len(S))
  BY Versions
<1>2. Extends(S, T) /\ T # <<>> /\ Len(T) = Len(S) + 1 /\ T[Len(T)] = k
  BY Answers DEF VersionsOK, SplitKinds, Kinds
<1>3. R \in Seq(VersionT(n, Len(T)))
  <2>1. VersionT(n, Len(S)) \subseteq VersionT(n, Len(T))
    BY <1>1, <1>2, Monotone
  <2> QED BY <2>1, SeqMonotonic DEF VersionsOK
<1>4. \A v \in 1..n : SaveOK(T, R[v])
  <2> SUFFICES ASSUME NEW v \in 1..n, R[v].cause.kind = "save",
                      NEW m \in (R[v].cause.loaded + 1)..(R[v].submission - 1)
               PROVE  T[m] \in SplitKinds
    BY DEF SaveOK
  <2>1. R[v].submission \in 1..Len(S) /\ R[v].cause.loaded \in 0..Len(S)
    BY <1>1 DEF VersionT, CauseT
  <2>2. m \in 1..Len(S)
    BY <2>1, <1>1
  <2> QED BY <2>2, <1>2 DEF VersionsOK, SaveOK, Extends
<1>5. AnswersAhead(R, T)
  BY <1>1, <1>2 DEF AnswersAhead, VersionT
<1>6. LastOK(R, T)
  BY <1>5 DEF VersionsOK, LastOK
<1>7. T \in Seq(Kinds)
  BY <1>2 DEF Extends
<1> HIDE DEF n, T
<1> QED BY <1>2, <1>3, <1>4, <1>6, <1>7 DEF VersionsOK, n, T

\* The application's first version, made with its first answers.
LEMMA First ==
  ASSUME NEW x \in VersionT(1, 1), x.cause.kind = "create",
         x.submitted = 0 \/ (x.submitted = 1 /\ x.status = "submitted")
  PROVE  VersionsOK(<<x>>, <<"create">>)
<1> DEFINE R == <<x>>
           S == <<"create">>
<1>1. /\ R \in Seq(VersionT(1, 1)) /\ Len(R) = 1 /\ R[1] = x /\ R # <<>>
      /\ S \in Seq(Kinds) /\ Len(S) = 1 /\ S # <<>>
  BY DEF Kinds
<1> HIDE DEF R, S
<1>2. LastOK(R, S) /\ SaveOK(S, x)
  BY <1>1 DEF LastOK, SaveOK, VersionT
<1> QED BY <1>1, <1>2 DEF VersionsOK, R, S

LEMMA NoneYet == VersionsOK(<<>>, <<>>) /\ VersionsOK(<<>>, <<"create">>)
BY EmptySeq DEF VersionsOK, Kinds

\* The mark that a status change leaves late on the open version.
LEMMA Mark ==
  ASSUME NEW R, NEW S, VersionsOK(R, S), R # <<>>, NEW u \in 1..Len(R), Unmarked(R, u)
  PROVE  LET n == Len(R)
             Q == [R EXCEPT ![n] = [@ EXCEPT !.submitted = n]]
         IN /\ VersionsOK(Q, S) /\ Q # <<>> /\ Len(Q) = n
            /\ \A v \in 1..(n - 1) : Q[v] = R[v]
            /\ Q[n] = [R[n] EXCEPT !.submitted = n]
<1> DEFINE n == Len(R)
           x == [R[n] EXCEPT !.submitted = n]
           Q == [R EXCEPT ![n] = [@ EXCEPT !.submitted = n]]
<1>1. /\ n \in Nat /\ Len(S) \in Nat /\ n > 0 /\ R \in Seq(VersionT(n, Len(S)))
      /\ R[n] \in VersionT(n, Len(S))
  BY Versions DEF VersionsOK
<1>2. /\ x \in VersionT(n, Len(S)) /\ x.submitted = n
      /\ x.status = R[n].status /\ x.submission = R[n].submission /\ x.cause = R[n].cause
  BY <1>1 DEF VersionT
<1>3. Q = [R EXCEPT ![n] = x]
  OBVIOUS
<1>4. /\ Q \in Seq(VersionT(n, Len(S))) /\ Len(Q) = n /\ Q[n] = x
      /\ \A v \in 1..n : v # n => Q[v] = R[v]
  BY <1>1, <1>2, <1>3, ExceptSeq
<1> HIDE DEF x, Q
<1>5. \A v \in 1..n : Q[v].status = R[v].status /\ Q[v].submission = R[v].submission /\ Q[v].cause = R[v].cause
  BY <1>2, <1>4
<1>6. Q # <<>>
  BY <1>1, <1>4, EmptySeq
<1>7. \A v \in 1..n : SaveOK(S, Q[v])
  BY <1>5 DEF SaveOK, VersionsOK
<1>8. \A v \in 1..(n - 1) : EditOK(Q[v], v, Q[v + 1]) /\ CancelOK(Q[v], v, Q[v + 1])
  <2> SUFFICES ASSUME NEW v \in 1..(n - 1) PROVE EditOK(Q[v], v, Q[v + 1]) /\ CancelOK(Q[v], v, Q[v + 1])
    OBVIOUS
  <2>1. v \in 1..n /\ v + 1 \in 1..n
    BY <1>1
  <2> QED BY <2>1, <1>5 DEF VersionsOK, EditOK, CancelOK
<1>9. LastOK(Q, S)
  <2>1. AnswersAhead(R, S) => AnswersAhead(Q, S)
    BY <1>4, <1>5 DEF AnswersAhead
  <2>2. StaleVersion(R, R[n].submission) => StaleVersion(Q, Q[n].submission)
    BY <1>1, <1>4, <1>5 DEF StaleVersion
  <2>3. \/ Q[n].status = "submitted"
        \/ \E v \in 1..(n - 1) : Unmarked(Q, v)
    <3>1. CASE u = n
      BY <3>1, <1>1, <1>2, <1>4 DEF Unmarked
    <3>2. CASE u # n
      <4>1. u \in 1..(n - 1) /\ Unmarked(Q, u)
        BY <3>2, <1>1, <1>4 DEF Unmarked
      <4> QED BY <4>1
    <3> QED BY <3>1, <3>2
  <2> QED BY <2>1, <2>2, <2>3, <1>1, <1>2, <1>4, <1>5 DEF LastOK, VersionsOK
<1>10. VersionsOK(Q, S)
  BY <1>4, <1>6, <1>7, <1>8, <1>9 DEF VersionsOK
<1>11. \A v \in 1..(n - 1) : Q[v] = R[v]
  BY <1>1, <1>4
<1> QED BY <1>4, <1>6, <1>10, <1>11 DEF Q, x

-----------------------------------------------------------------------------
(* The requests *)

RequestType == [kind : Kinds, token : BOOLEAN, status : Statuses, open : BOOLEAN, pc : Pcs,
                base : 0..Current, loaded : 0..Len(submissions), seen : 0..Current,
                pointer : 0..Len(submissions) + 1]

\* No version points behind the answers n, and whatever answers there are behind them were
\* put there by a handler that commits answers and application apart.
Behind(n) ==
  \A m \in (n + 1)..Len(submissions) :
    submissions[m] \in SplitKinds /\ \A v \in 1..Current : rows[v].submission # m

Under(x, pcs) == x.pc \in pcs

Active(x) == ~ Under(x, {"idle", "ended"}) /\ x.kind # "create"

\* A request that creates the application has it for itself.
Creates(x) == x.kind = "create" /\ x.pc = "written"
CreateOK(x) ==
  /\ x.kind = "create" => Under(x, {"idle", "asked", "written", "ended"})
  /\ Creates(x) => rows = <<>> /\ submissions = <<"create">>

\* The page of a request shows an application there is; as long as its version is the open
\* one nothing but split handlers' answers have come to those the page shows.
BasedOK(x) ==
  Active(x) => x.base \in 1..Current /\ (x.base = Current => Behind(x.loaded))

\* What was checked still holds of the open version, if it is still the one the page shows.
CheckedOK(x) ==
  x.kind \in EditKinds /\ Under(x, {"checked", "read", "written"}) =>
    /\ x.pc # "checked" => x.seen = x.base
    /\ x.base = Current =>
         \/ x.open
         \/ rows[x.base].status \in {"pending_change_request", "applicant_edit"}
         \/ rows[x.base].status = "officer_edit" /\ x.token

\* A save holds the version it supersedes; a transaction that has written the answers holds
\* them.
LocksOK(r, x) ==
  /\ x.kind = "save" /\ Under(x, {"read", "written"}) => rowLock = r /\ x.seen = Current
  /\ x.kind \in {"save", "submit"} /\ Under(x, {"written"}) =>
       submissionLock = r /\ x.pointer = Len(submissions) + 1

\* A handler that reads the open version does not read a cancelled one.
SeenOK(x) ==
  /\ x.kind \in (EditKinds \ {"save"}) \cup (StalePointerKinds \ {"status"})
     /\ Under(x, {"read", "written"}) => x.seen # 0 /\ rows[x.seen].status # "cancelled"
  /\ x.kind \in StalePointerKinds \cup {"refuse"} /\ Under(x, {"read", "written"}) => x.seen # 0

\* The answers a request is about to point the application at.
PointerOK(x) ==
  /\ x.kind \in SplitKinds /\ Under(x, {"written"}) =>
       x.pointer \in (x.loaded + 1)..Len(submissions)
  /\ x.kind \in {"applicant_edit_open", "status"} /\ Under(x, {"written"}) =>
       x.pointer = rows[x.seen].submission
  /\ x.kind = "get_current_answers" /\ Under(x, {"written"}) =>
       x.pointer \in 1..Len(submissions) /\ (x.seen = Current => Behind(x.pointer))

KindOK(x) ==
  /\ x.pc = "checked" => x.kind \in EditKinds
  /\ x.pc = "read" => x.kind \in EditKinds \cup {"get_current_answers"}
  /\ x.pc = "marking" => x.kind = "status"

RequestOK(r, x) ==
  /\ x \in RequestType
  /\ CreateOK(x) /\ BasedOK(x) /\ CheckedOK(x) /\ LocksOK(r, x) /\ SeenOK(x) /\ PointerOK(x)
  /\ KindOK(x)

Marking == {r \in Requests : req[r].pc = "marking"}

\* Each request that is about to mark a version has one of its own that is not marked: the
\* one it made, or, when another request has marked that, the one the other made.
MarksInv ==
  \E f \in [Marking -> 1..Current] :
    /\ \A r \in Marking : Unmarked(rows, f[r])
    /\ \A q, r \in Marking : f[q] = f[r] => q = r

RequestsInv ==
  /\ req = [r \in Requests |-> req[r]]
  /\ \A r \in Requests : RequestOK(r, req[r])
  /\ \A q, r \in Requests : Creates(req[q]) /\ Creates(req[r]) => q = r

HakemusInv ==
  /\ VersionsOK(rows, submissions)
  /\ phase \in Phases /\ {rowLock, submissionLock} \subseteq Requests \cup {NoRequest}
  /\ RequestsInv /\ MarksInv

-----------------------------------------------------------------------------
(* The requests after a step *)

\* What a step of the request r leaves the others.
Frame(r) ==
  /\ Current' \in Nat /\ Len(submissions') \in Nat
  /\ Current <= Current' /\ Len(submissions) <= Len(submissions')
  /\ \A v \in 1..Current :
       rows'[v].status = rows[v].status /\ rows'[v].submission = rows[v].submission
  /\ \A m \in 1..Len(submissions) : submissions'[m] = submissions[m]
  /\ Current' = Current /\ Current > 0 =>
       \A m \in (Len(submissions) + 1)..Len(submissions') : submissions'[m] \in SplitKinds
  /\ Current' # Current => rowLock \in {NoRequest, r} \/ Current = 0
  /\ Len(submissions') # Len(submissions) => submissionLock \in {NoRequest, r} \/ Current = 0
  /\ \A q \in Requests \ {r} :
       (rowLock = q => rowLock' = q) /\ (submissionLock = q => submissionLock' = q)
  /\ rows = <<>> /\ submissions = <<"create">> /\ ~ Creates(req[r]) =>
       rows' = rows /\ submissions' = submissions

LEMMA Sizes ==
  ASSUME HakemusInv
  PROVE  /\ Current \in Nat /\ Len(submissions) \in Nat
         /\ \A v \in 1..Current : rows[v] \in VersionT(Current, Len(submissions))
         /\ rows # <<>> => Current > 0 /\ Len(submissions) > 0
         /\ rows = <<>> => Current = 0
         /\ Current = 0 => rows = <<>>
BY Versions, EmptySeq DEF HakemusInv, VersionsOK, Current

LEMMA BehindStays ==
  ASSUME HakemusInv, NEW r, Frame(r), Current' = Current, Current > 0,
         NEW n \in 0..Len(submissions), Behind(n)
  PROVE  Behind(n)'
<1> SUFFICES ASSUME NEW m \in (n + 1)..Len(submissions')
             PROVE  submissions'[m] \in SplitKinds /\ \A v \in 1..Current' : rows'[v].submission # m
  BY DEF Behind
<1>1. \A v \in 1..Current : rows[v].submission \in 1..Len(submissions)
  BY Sizes DEF VersionT
<1>2. CASE m \in (n + 1)..Len(submissions)
  BY <1>2, Sizes DEF Behind, Frame
<1>3. CASE m \in (Len(submissions) + 1)..Len(submissions')
  BY <1>1, <1>3, Sizes DEF Frame
<1> QED BY <1>2, <1>3, Sizes DEF Frame

LEMMA TypeGrows ==
  ASSUME HakemusInv, NEW r, Frame(r), NEW x \in RequestType
  PROVE  x \in RequestType'
BY Sizes DEF Frame, RequestType

LEMMA OthersGoOn ==
  ASSUME HakemusInv, NEW r \in Requests, NEW q \in Requests, q # r, Frame(r), NEW x,
         RequestOK(q, x), ~ (Creates(x) /\ Creates(req[r]))
  PROVE  RequestOK(q, x)'
<1>1. x \in RequestType /\ x \in RequestType'
  BY TypeGrows DEF RequestOK
<1>2. q # NoRequest
  BY NoRequestAssumption
<1>3. CreateOK(x)'
  BY DEF RequestOK, CreateOK, Frame, Creates, Under
<1>4. BasedOK(x)'
  <2> SUFFICES ASSUME Active(x) PROVE x.base \in 1..Current' /\ (x.base = Current' => Behind(x.loaded)')
    BY DEF BasedOK, Active, Under
  <2>1. x.base \in 1..Current /\ (x.base = Current => Behind(x.loaded))
    BY DEF RequestOK, BasedOK
  <2>2. x.base = Current' => Current' = Current
    BY <2>1, Sizes DEF Frame
  <2>3. x.loaded \in 0..Len(submissions)
    BY <1>1 DEF RequestType
  <2>4. x.base = Current' => Behind(x.loaded)'
    BY <2>1, <2>2, <2>3, BehindStays, Sizes
  <2> QED BY <2>1, <2>4, Sizes DEF Frame
<1>5. Active(x) => Current > 0
  BY Sizes DEF RequestOK, BasedOK
<1>6. CheckedOK(x)'
  <2> SUFFICES ASSUME x.kind \in EditKinds, Under(x, {"checked", "read", "written"}), x.base = Current'
               PROVE  rows'[x.base].status = rows[x.base].status /\ x.base = Current
    BY DEF CheckedOK, RequestOK, Under
  <2>1. Active(x)
    BY DEF Active, Under, EditKinds, SplitKinds
  <2> QED BY <2>1, Sizes DEF RequestOK, BasedOK, Frame
<1>7. LocksOK(q, x)'
  <2>1. ASSUME x.kind = "save", Under(x, {"read", "written"}) PROVE rowLock' = q /\ x.seen = Current'
    <3>1. rowLock = q /\ x.seen = Current
      BY <2>1 DEF RequestOK, LocksOK
    <3>2. Active(x)
      BY <2>1 DEF Active, Under
    <3> QED BY <3>1, <3>2, <1>2, <1>5, Sizes DEF Frame
  <2>2. ASSUME x.kind \in {"save", "submit"}, Under(x, {"written"})
        PROVE  submissionLock' = q /\ x.pointer = Len(submissions') + 1
    <3>1. submissionLock = q /\ x.pointer = Len(submissions) + 1
      BY <2>2 DEF RequestOK, LocksOK
    <3>2. Active(x)
      BY <2>2 DEF Active, Under
    <3> QED BY <3>1, <3>2, <1>2, <1>5, Sizes DEF Frame
  <2> QED BY <2>1, <2>2 DEF LocksOK, Under
<1>8. SeenOK(x)'
  BY <1>1, Sizes DEF SeenOK, RequestOK, Under, Frame, RequestType
<1>9. PointerOK(x)'
  <2>1. x.kind \in SplitKinds /\ Under(x, {"written"}) => x.pointer \in (x.loaded + 1)..Len(submissions')
    BY <1>1, Sizes DEF RequestOK, PointerOK, Frame, RequestType
  <2>2. ASSUME x.kind \in {"applicant_edit_open", "status"}, Under(x, {"written"})
        PROVE  x.pointer = rows'[x.seen].submission
    <3>1. x.seen \in 1..Current
      BY <1>1, <2>2, Sizes DEF RequestOK, SeenOK, RequestType, StalePointerKinds, Under
    <3> QED BY <2>2, <3>1 DEF RequestOK, PointerOK, Frame
  <2>3. ASSUME x.kind = "get_current_answers", Under(x, {"written"})
        PROVE  x.pointer \in 1..Len(submissions') /\ (x.seen = Current' => Behind(x.pointer)')
    <3>1. x.pointer \in 1..Len(submissions) /\ (x.seen = Current => Behind(x.pointer))
      BY <2>3 DEF RequestOK, PointerOK
    <3>2. x.seen = Current' => Current' = Current
      BY <1>1, Sizes DEF RequestType, Frame
    <3>3. x.seen = Current' => Behind(x.pointer)'
      BY <1>5, <2>3, <3>1, <3>2, BehindStays, Sizes DEF Active, Under
    <3> QED BY <3>1, <3>3, Sizes DEF Frame
  <2> QED BY <2>1, <2>2, <2>3 DEF PointerOK, Under
<1>10. KindOK(x)'
  BY DEF RequestOK, KindOK
<1> QED BY <1>1, <1>3, <1>4, <1>6, <1>7, <1>8, <1>9, <1>10 DEF RequestOK

\* A step of r that makes it y.
LEMMA RequestsGoOn ==
  ASSUME HakemusInv, NEW r \in Requests, Frame(r), NEW y,
         req' = [req EXCEPT ![r] = y], RequestOK(r, y)',
         Creates(y) => submissions = <<>> \/ Creates(req[r])
  PROVE  RequestsInv'
<1>1. /\ req = [q \in Requests |-> req[q]]
      /\ \A q \in Requests : RequestOK(q, req[q])
      /\ \A p, q \in Requests : Creates(req[p]) /\ Creates(req[q]) => p = q
  BY DEF HakemusInv, RequestsInv
<1>2. req' = [q \in Requests |-> IF q = r THEN y ELSE req[q]]
  BY <1>1
<1>3. req'[r] = y /\ \A q \in Requests \ {r} : req'[q] = req[q]
  BY <1>2
<1>4. req' = [q \in Requests |-> req'[q]]
  BY <1>2
<1>5. ASSUME NEW q \in Requests PROVE RequestOK(q, req[q])'
  <2>1. CASE q = r
    BY <2>1, <1>3 DEF RequestOK, CreateOK, BasedOK, CheckedOK, LocksOK, SeenOK, PointerOK, KindOK,
                      Creates, Active, Under
  <2>2. CASE q # r
    <3>1. PICK z : z = req[q]
      OBVIOUS
    <3>2. RequestOK(q, z) /\ ~ (Creates(z) /\ Creates(req[r]))
      BY <1>1, <2>2, <3>1
    <3>3. RequestOK(q, z)'
      BY <2>2, <3>2, OthersGoOn
    <3>4. req'[q] = z
      BY <1>3, <2>2, <3>1
    <3> QED BY <3>3, <3>4 DEF RequestOK, CreateOK, BasedOK, CheckedOK, LocksOK, SeenOK, PointerOK, KindOK,
                              Creates, Active, Under
  <2> QED BY <2>1, <2>2
<1>6. \A p, q \in Requests : Creates(req'[p]) /\ Creates(req'[q]) => p = q
  <2>1. \A q \in Requests \ {r} : Creates(y) => ~ Creates(req[q])
    <3> SUFFICES ASSUME NEW q \in Requests \ {r}, Creates(y), Creates(req[q]) PROVE FALSE
      OBVIOUS
    <3>1. submissions = <<"create">>
      BY <1>1 DEF RequestOK, CreateOK
    <3> QED BY <3>1, <1>1
  <2> QED BY <2>1, <1>1, <1>3
<1> QED BY <1>4, <1>5, <1>6 DEF RequestsInv, Creates

-----------------------------------------------------------------------------
(* One step of a request *)

LockTypes == {rowLock, submissionLock} \subseteq Requests \cup {NoRequest}

\* The request r becomes y.
Becomes(r, y) == req' = [req EXCEPT ![r] = y]

\* The locks of the others.
LocksKept(r) ==
  /\ LockTypes'
  /\ \A q \in Requests \ {r} :
       (rowLock = q => rowLock' = q) /\ (submissionLock = q => submissionLock' = q)

LEMMA Locks ==
  ASSUME HakemusInv, NEW r \in Requests,
         \/ UNCHANGED <<rowLock, submissionLock>>
         \/ Release(r)
         \/ rowLock = NoRequest /\ rowLock' = r /\ submissionLock' = submissionLock
         \/ submissionLock = NoRequest /\ submissionLock' = r /\ rowLock' = rowLock
  PROVE  LocksKept(r)
BY NoRequestAssumption DEF LocksKept, LockTypes, HakemusInv, Release

LEMMA Step ==
  ASSUME HakemusInv, NEW r \in Requests, NEW y,
         Frame(r), Becomes(r, y), RequestOK(r, y)',
         Creates(y) => submissions = <<>> \/ Creates(req[r]),
         VersionsOK(rows', submissions'), MarksInv', phase' \in Phases, LocksKept(r)
  PROVE  HakemusInv'
<1>1. RequestsInv'
  BY RequestsGoOn DEF Becomes
<1> QED BY <1>1 DEF HakemusInv, LocksKept, LockTypes

\* Every version so far is as it was.
VersionsKept == \A v \in 1..Current : rows'[v] = rows[v]

\* Marks are safe from a step that makes versions and marks none.
LEMMA MarksStay ==
  ASSUME HakemusInv, NEW r \in Requests, NEW y, Becomes(r, y),
         y.pc = "marking" => req[r].pc = "marking",
         Current' \in Nat, Current <= Current', VersionsKept
  PROVE  MarksInv'
<1>1. Marking' \subseteq Marking
  BY DEF Marking, HakemusInv, RequestsInv, Becomes
<1>2. PICK f \in [Marking -> 1..Current] :
        /\ \A q \in Marking : Unmarked(rows, f[q])
        /\ \A p, q \in Marking : f[p] = f[q] => p = q
  BY DEF HakemusInv, MarksInv
<1>3. PICK g : g = [q \in Marking' |-> f[q]]
  OBVIOUS
<1>4. g \in [Marking' -> 1..Current']
  BY <1>1, <1>2, <1>3, Sizes
<1>5. \A q \in Marking' : Unmarked(rows', g[q])
  BY <1>1, <1>2, <1>3 DEF Unmarked, VersionsKept
<1>6. \A p, q \in Marking' : g[p] = g[q] => p = q
  BY <1>1, <1>2, <1>3
<1> QED BY <1>4, <1>5, <1>6 DEF MarksInv

LEMMA IdleType ==
  ASSUME NEW n \in Nat, NEW m \in Nat
  PROVE  Idle \in [kind : Kinds, token : BOOLEAN, status : Statuses, open : BOOLEAN, pc : Pcs,
                   base : 0..n, loaded : 0..m, seen : 0..n, pointer : 0..m + 1]
<1>1. "create" \in Kinds /\ "new" \in Statuses /\ "idle" \in Pcs
  BY DEF Kinds, Statuses, Pcs
<1> QED BY <1>1 DEF Idle

LEMMA Over ==
  ASSUME NEW r, Current' \in Nat, Len(submissions') \in Nat
  PROVE  RequestOK(r, Ended)' /\ ~ Creates(Ended) /\ Ended.pc # "marking"
<1>1. Ended \in RequestType'
  <2>1. "ended" \in Pcs
    BY DEF Pcs
  <2>2. Idle \in RequestType'
    BY IdleType DEF RequestType
  <2> QED BY <2>1, <2>2 DEF Ended, RequestType
<1> QED BY <1>1 DEF RequestOK, CreateOK, BasedOK, CheckedOK, LocksOK, SeenOK, PointerOK, KindOK,
                    Creates, Active, Under, Ended, Idle, EditKinds, SplitKinds, StalePointerKinds

LEMMA FrameSame ==
  ASSUME HakemusInv, NEW r, UNCHANGED <<rows, submissions>>, LocksKept(r)
  PROVE  Frame(r)
BY Sizes DEF Frame, LocksKept, Current

\* A step that changes the request and perhaps its locks.
LEMMA RequestStep ==
  ASSUME HakemusInv, NEW r \in Requests, NEW y, UNCHANGED <<rows, submissions, phase>>,
         Becomes(r, y), RequestOK(r, y)', ~ Creates(y), y.pc # "marking",
         LocksKept(r)
  PROVE  HakemusInv'
<1>1. VersionsOK(rows', submissions') /\ phase' \in Phases
  BY DEF HakemusInv
<1>2. Current' = Current /\ Current \in Nat
  BY Sizes DEF Current
<1>3. MarksInv'
  <2>1. VersionsKept
    BY DEF VersionsKept
  <2>2. y.pc = "marking" => req[r].pc = "marking"
    OBVIOUS
  <2> QED BY <1>2, <2>1, <2>2, MarksStay
<1> QED BY <1>1, <1>3, Step, FrameSame

LEMMA EndStep ==
  ASSUME HakemusInv, NEW r \in Requests, UNCHANGED <<rows, submissions, phase>>, End(r), LocksKept(r)
  PROVE  HakemusInv'
<1>1. RequestOK(r, Ended)' /\ ~ Creates(Ended) /\ Ended.pc # "marking"
  BY Over, Sizes DEF Current
<1> QED BY <1>1, RequestStep DEF End, Becomes

\* A step that makes versions, after which the request is over.
LEMMA CommitStep ==
  ASSUME HakemusInv, NEW r \in Requests, End(r), Frame(r), VersionsOK(rows', submissions'),
         phase' = phase, LocksKept(r), VersionsKept
  PROVE  HakemusInv'
<1>1. RequestOK(r, Ended)' /\ ~ Creates(Ended) /\ Ended.pc # "marking"
  BY Over DEF Frame
<1>2. MarksInv'
  BY <1>1, MarksStay DEF Frame, End, Becomes
<1> QED BY <1>1, <1>2, Step DEF End, HakemusInv, Becomes

\* What is known of the request that takes a step.
LEMMA Taking ==
  ASSUME HakemusInv, NEW r \in Requests
  PROVE  RequestOK(r, req[r]) /\ req[r] \in RequestType /\ r # NoRequest
BY NoRequestAssumption DEF HakemusInv, RequestsInv, RequestOK

LEMMA AskKeeps == ASSUME HakemusInv, NEW r \in Requests, Ask(r) PROVE HakemusInv'
<1>1. PICK a \in Asks :
        /\ IF a.kind = "create" THEN rows = <<>> /\ submissions = <<>> ELSE rows # <<>>
        /\ req' = [req EXCEPT ![r] =
             [Idle EXCEPT !.kind = a.kind, !.token = a.token, !.status = a.status, !.pc = "asked",
                          !.base = Current, !.loaded = Len(submissions)]]
  BY DEF Ask
<1>2. PICK y : y = [Idle EXCEPT !.kind = a.kind, !.token = a.token, !.status = a.status, !.pc = "asked",
                                !.base = Current, !.loaded = Len(submissions)]
  OBVIOUS
<1>3. a.kind \in Kinds /\ a.token \in BOOLEAN /\ a.status \in Statuses
  BY AsksAssumption DEF AllAsks
<1>4. /\ y.pc = "asked" /\ y.kind = a.kind /\ y.base = Current /\ y.loaded = Len(submissions)
  BY <1>2 DEF Idle
<1>5. UNCHANGED <<rows, submissions, phase, rowLock, submissionLock>>
  BY DEF Ask
<1>6. BasedOK(y)'
  BY <1>1, <1>4, <1>5, Sizes DEF BasedOK, Active, Behind, Current
<1>7. y \in RequestType'
  <2>1. "asked" \in Pcs /\ Current' = Current /\ submissions' = submissions
    BY <1>5 DEF Pcs, Current
  <2>2. Idle \in RequestType'
    BY <2>1, Sizes, IdleType DEF RequestType
  <2>3. Current \in 0..Current' /\ Len(submissions) \in 0..Len(submissions')
    BY <2>1, Sizes
  <2> QED BY <1>2, <1>3, <2>1, <2>2, <2>3 DEF RequestType
<1>8. RequestOK(r, y)' /\ ~ Creates(y) /\ y.pc # "marking"
  BY <1>4, <1>6, <1>7 DEF RequestOK, CreateOK, CheckedOK, LocksOK, SeenOK, PointerOK, KindOK, Creates, Under
<1>9. Becomes(r, y)
  BY <1>1, <1>2 DEF Becomes
<1> QED BY <1>5, <1>8, <1>9, RequestStep, Locks

LEMMA CreateSubmissionKeeps ==
  ASSUME HakemusInv, NEW r \in Requests, CreateSubmission(r)
  PROVE  HakemusInv'
<1>1. UNCHANGED <<rows, phase, rowLock, submissionLock>> /\ LocksKept(r)
  BY Locks DEF CreateSubmission
<1>2. CASE End(r) /\ UNCHANGED submissions
  BY <1>1, <1>2, EndStep
<1>3. CASE /\ submissions = <<>> /\ submissions' = <<"create">>
           /\ req' = [req EXCEPT ![r] = [@ EXCEPT !.pc = "written", !.pointer = 1, !.open = TRUE]]
  <2>1. rows = <<>> /\ rows' = <<>>
    BY <1>1, <1>3 DEF HakemusInv, VersionsOK
  <2>2. Current = 0 /\ Len(submissions) = 0 /\ Len(submissions') = 1 /\ Current' = 0
    BY <1>3, <2>1, EmptySeq DEF Current
  <2>3. PICK x : x = req[r]
    OBVIOUS
  <2>4. x \in RequestType /\ x.kind = "create"
    BY <2>3, Taking DEF CreateSubmission
  <2>5. PICK y : y = [x EXCEPT !.pc = "written", !.pointer = 1, !.open = TRUE]
    OBVIOUS
  <2>6. y \in RequestType' /\ y.kind = "create" /\ y.pc = "written"
    <3>1. "written" \in Pcs
      BY DEF Pcs
    <3>2. y \in RequestType'
      <4>1. x \in RequestType'
        BY <2>2, <2>4 DEF RequestType
      <4>2. 1 \in 0..Len(submissions') + 1
        BY <2>2
      <4> QED BY <2>5, <3>1, <4>1, <4>2 DEF RequestType
    <3>3. y.kind = "create" /\ y.pc = "written"
      BY <2>4, <2>5 DEF RequestType
    <3> QED BY <3>2, <3>3
  <2>7. Becomes(r, y)
    BY <1>3, <2>3, <2>5 DEF HakemusInv, RequestsInv, Becomes
  <2>8. RequestOK(r, y)'
    BY <1>3, <2>1, <2>6 DEF RequestOK, CreateOK, BasedOK, CheckedOK, LocksOK, SeenOK, PointerOK, KindOK, Creates,
          Active, Under, EditKinds, SplitKinds, StalePointerKinds
  <2>9. Frame(r)
    BY <1>1, <1>3, <2>1, <2>2 DEF Frame, LocksKept
  <2>10. MarksInv'
    <3>1. VersionsKept
      BY <2>2 DEF VersionsKept
    <3>2. y.pc # "marking" /\ Current' \in Nat /\ Current <= Current'
      BY <2>2, <2>6
    <3> QED BY <2>7, <3>1, <3>2, MarksStay
  <2> QED BY <1>1, <1>3, <2>1, <2>6, <2>7, <2>8, <2>9, <2>10, NoneYet, Step DEF HakemusInv
<1> QED BY <1>2, <1>3 DEF CreateSubmission

LEMMA CreateHakemusKeeps ==
  ASSUME HakemusInv, NEW r \in Requests, CreateHakemus(r)
  PROVE  HakemusInv'
<1> DEFINE x == [status |-> "new", submission |-> 1, refused |-> FALSE, submitted |-> 0,
                 cause |-> Cause(r)]
<1>1. rows = <<>> /\ submissions = <<"create">>
  BY Taking DEF CreateHakemus, At, RequestOK, CreateOK, Creates
<1>2. Current = 0 /\ Len(submissions) = 1
  BY <1>1, EmptySeq DEF Current
<1>3. Cause(r) \in CauseT(1, 1)
  BY <1>2, Taking DEF Cause, CauseT, RequestType
<1>4. x \in VersionT(1, 1) /\ x.cause.kind = "create" /\ x.submitted = 0
  BY <1>3 DEF VersionT, Statuses, CreateHakemus, Cause
<1> HIDE DEF x
<1>5. rows' = <<x>> /\ submissions' = submissions /\ End(r) /\ phase' = phase /\ LocksKept(r)
  BY Locks DEF CreateHakemus, x
<1>6. VersionsOK(rows', submissions')
  BY <1>1, <1>4, <1>5, First
<1>7. Current' = 1
  BY <1>5 DEF Current
<1>8. Creates(req[r])
  BY DEF CreateHakemus, At, Creates
<1>9. Frame(r)
  BY <1>2, <1>5, <1>7, <1>8 DEF Frame, LocksKept
<1> QED BY <1>2, <1>5, <1>6, <1>9, CommitStep DEF VersionsKept

LEMMA FailKeeps == ASSUME HakemusInv, NEW r \in Requests, Fail(r) PROVE HakemusInv'
BY EndStep, Locks DEF Fail

LEMMA SameView ==
  ASSUME NEW r, NEW y, UNCHANGED <<rows, submissions>>, y \in RequestType,
         CreateOK(y), BasedOK(y), CheckedOK(y), LocksOK(r, y)', SeenOK(y), PointerOK(y), KindOK(y)
  PROVE  RequestOK(r, y)'
BY DEF RequestOK, CreateOK, BasedOK, CheckedOK, LocksOK, SeenOK, PointerOK, KindOK, Creates, Active,
       Under, RequestType, Behind, Current

LEMMA CanUpdateHakemusKeeps ==
  ASSUME HakemusInv, NEW r \in Requests, CanUpdateHakemus(r)
  PROVE  HakemusInv'
<1>1. UNCHANGED <<rows, submissions, phase>> /\ LocksKept(r)
  BY Locks DEF CanUpdateHakemus
<1>2. CASE End(r)
  BY <1>1, <1>2, EndStep
<1>3. CASE /\ MayUpdate(IF Visible THEN Hakemus.status ELSE "none", req[r].token)
           /\ req' = [req EXCEPT ![r] = [@ EXCEPT !.pc = "checked", !.open = (phase = "current")]]
  <2>1. PICK x : x = req[r]
    OBVIOUS
  <2>2. RequestOK(r, x) /\ x \in RequestType /\ x.kind \in EditKinds /\ x.pc = "asked"
    BY <2>1, Taking DEF CanUpdateHakemus, At
  <2>3. PICK y : y = [x EXCEPT !.pc = "checked", !.open = (phase = "current")]
    OBVIOUS
  <2>4. /\ y.pc = "checked" /\ y.open = (phase = "current") /\ y.kind = x.kind /\ y.token = x.token
        /\ y.base = x.base /\ y.loaded = x.loaded
    BY <2>2, <2>3 DEF RequestType
  <2>5. y \in RequestType
    <3>1. "checked" \in Pcs
      BY DEF Pcs
    <3> QED BY <2>2, <2>3, <3>1 DEF RequestType
  <2>6. Becomes(r, y)
    BY <1>3, <2>1, <2>3 DEF Becomes
  <2>7. x.kind # "create" /\ Active(x)
    BY <2>2 DEF EditKinds, SplitKinds, Active, Under
  <2>8. BasedOK(y)
    BY <2>2, <2>4, <2>7 DEF RequestOK, BasedOK, Active
  <2>9. CheckedOK(y)
    BY <1>3, <2>1, <2>4 DEF CheckedOK, MayUpdate, Hakemus, Current
  <2>10. LocksOK(r, y)' /\ CreateOK(y) /\ SeenOK(y) /\ PointerOK(y) /\ KindOK(y)
    BY <2>2, <2>4, <2>7 DEF LocksOK, CreateOK, SeenOK, PointerOK, KindOK, Creates, Under
  <2>11. RequestOK(r, y)'
    BY <1>1, <2>5, <2>8, <2>9, <2>10, SameView
  <2> QED BY <1>1, <2>4, <2>6, <2>11, RequestStep DEF Creates
<1> QED BY <1>2, <1>3 DEF CanUpdateHakemus

LEMMA GetLockedHakemusVersionForUpdateKeeps ==
  ASSUME HakemusInv, NEW r \in Requests, GetLockedHakemusVersionForUpdate(r)
  PROVE  HakemusInv'
<1>1. UNCHANGED <<rows, submissions, phase, submissionLock>>
  BY DEF GetLockedHakemusVersionForUpdate
<1>2. CASE End(r) /\ UNCHANGED rowLock
  BY <1>1, <1>2, EndStep, Locks
<1>3. CASE /\ rowLock = NoRequest /\ rowLock' = r /\ req[r].base = Current
           /\ req' = [req EXCEPT ![r] = [@ EXCEPT !.pc = "read", !.seen = req[r].base]]
  <2>1. PICK x : x = req[r]
    OBVIOUS
  <2>2. RequestOK(r, x) /\ x \in RequestType /\ x.kind = "save" /\ x.pc = "checked"
    BY <2>1, Taking DEF GetLockedHakemusVersionForUpdate, At
  <2>3. PICK y : y = [x EXCEPT !.pc = "read", !.seen = x.base]
    OBVIOUS
  <2>4. /\ y.pc = "read" /\ y.seen = x.base /\ y.open = x.open /\ y.kind = x.kind /\ y.token = x.token
        /\ y.base = x.base /\ y.loaded = x.loaded
    BY <2>2, <2>3 DEF RequestType
  <2>5. y \in RequestType
    <3>1. "read" \in Pcs
      BY DEF Pcs
    <3> QED BY <2>2, <2>3, <3>1 DEF RequestType
  <2>6. Becomes(r, y)
    BY <1>3, <2>1, <2>3 DEF Becomes
  <2>7. BasedOK(y) /\ CheckedOK(y)
    BY <2>2, <2>4 DEF RequestOK, BasedOK, CheckedOK, Active, Under
  <2>8. LocksOK(r, y)'
    BY <1>1, <1>3, <2>1, <2>2, <2>4 DEF LocksOK, Under, Current
  <2>9. CreateOK(y) /\ SeenOK(y) /\ PointerOK(y) /\ KindOK(y)
    BY <2>2, <2>4 DEF CreateOK, SeenOK, PointerOK, KindOK, Creates, Under, EditKinds, SplitKinds,
                      StalePointerKinds
  <2>10. RequestOK(r, y)'
    BY <1>1, <2>5, <2>7, <2>8, <2>9, SameView
  <2> QED BY <1>1, <1>3, <2>4, <2>6, <2>10, RequestStep, Locks DEF Creates
<1> QED BY <1>2, <1>3 DEF GetLockedHakemusVersionForUpdate

LEMMA GetHakemusKeeps ==
  ASSUME HakemusInv, NEW r \in Requests, GetHakemus(r)
  PROVE  HakemusInv'
<1>1. UNCHANGED <<rows, submissions, phase>> /\ LocksKept(r)
  BY Locks DEF GetHakemus
<1>2. CASE End(r)
  BY <1>1, <1>2, EndStep
<1>3. CASE /\ Proceeds(r)
           /\ req' = [req EXCEPT ![r] = [@ EXCEPT
                !.pc = IF req[r].kind \in EditKinds \cup {"get_current_answers"} THEN "read" ELSE "written",
                !.seen = Current,
                !.pointer = IF req[r].kind \in {"applicant_edit_open", "status"}
                            THEN Hakemus.submission ELSE 0]]
  <2>1. PICK x : x = req[r]
    OBVIOUS
  <2>2. /\ RequestOK(r, x) /\ x \in RequestType
        /\ \/ x.pc = "checked" /\ x.kind \in EditKinds \ {"save"}
           \/ x.pc = "asked" /\ x.kind \in StalePointerKinds \cup {"refuse"}
    BY <2>1, Taking DEF GetHakemus, At
  <2>3. PICK pc, n, p : /\ pc = IF x.kind \in EditKinds \cup {"get_current_answers"} THEN "read" ELSE "written"
                        /\ n = Current
                        /\ p = IF x.kind \in {"applicant_edit_open", "status"} THEN Hakemus.submission ELSE 0
    OBVIOUS
  <2>4. PICK y : y = [x EXCEPT !.pc = pc, !.seen = n, !.pointer = p]
    OBVIOUS
  <2>5. Becomes(r, y)
    BY <1>3, <2>1, <2>3, <2>4 DEF Becomes
  <2>6. /\ x.kind \in EditKinds \cup StalePointerKinds \cup {"refuse"} /\ x.kind # "save"
        /\ Active(x)
    BY <2>2 DEF Active, Under, EditKinds, StalePointerKinds, SplitKinds
  <2>7. x.base \in 1..Current /\ Current > 0 /\ n > 0 /\ n \in 0..Current /\ rows[n] \in VersionT(Current, Len(submissions))
    BY <2>2, <2>3, <2>6, Sizes DEF RequestOK, BasedOK
  <2>8. p \in 0..Len(submissions) /\ (x.kind \in {"applicant_edit_open", "status"} => p = rows[n].submission)
    BY <2>3, <2>7, Sizes DEF Hakemus, Current, VersionT
  <2>9. /\ y.pc = pc /\ y.seen = n /\ y.pointer = p /\ y.open = x.open /\ y.kind = x.kind
        /\ y.token = x.token /\ y.base = x.base /\ y.loaded = x.loaded
    BY <2>2, <2>4 DEF RequestType
  <2>10. y \in RequestType
    <3>1. pc \in Pcs
      BY <2>3 DEF Pcs
    <3>2. p \in 0..Len(submissions) + 1
      BY <2>8, Sizes
    <3> QED BY <2>2, <2>4, <2>7, <3>1, <3>2 DEF RequestType
  <2>11. x.kind \in EditKinds => x.base = n
    BY <1>3, <2>1, <2>3, <2>6 DEF Proceeds, EditKinds, SplitKinds
  <2>12. x.kind \notin {"status", "refuse"} => rows[n].status # "cancelled"
    BY <1>3, <2>1, <2>3, <2>6 DEF Proceeds, Visible, Hakemus, Current, EditKinds, SplitKinds, StalePointerKinds
  <2>13. CheckedOK(y)
    BY <2>2, <2>9, <2>11 DEF RequestOK, CheckedOK, Under, StalePointerKinds, EditKinds, SplitKinds
  <2>14. BasedOK(y)
    BY <2>2, <2>6, <2>9 DEF RequestOK, BasedOK, Active
  <2>15. x.kind # "create" /\ LocksOK(r, y)' /\ CreateOK(y)
    BY <2>3, <2>6, <2>9 DEF LocksOK, CreateOK, Creates, Under, EditKinds, StalePointerKinds, SplitKinds
  <2>16. SeenOK(y)
    BY <2>7, <2>9, <2>12 DEF SeenOK, StalePointerKinds, EditKinds, SplitKinds
  <2>17. PointerOK(y)
    BY <2>3, <2>8, <2>9 DEF PointerOK, Under, EditKinds
  <2>18. KindOK(y)
    BY <2>3, <2>9 DEF KindOK
  <2>19. RequestOK(r, y)'
    BY <1>1, <2>10, <2>13, <2>14, <2>15, <2>16, <2>17, <2>18, SameView
  <2>20. ~ Creates(y) /\ y.pc # "marking"
    BY <2>3, <2>9, <2>15 DEF Creates
  <2> QED BY <1>1, <2>5, <2>19, <2>20, RequestStep
<1> QED BY <1>2, <1>3 DEF GetHakemus

LEMMA GetFormSubmissionKeeps ==
  ASSUME HakemusInv, NEW r \in Requests, GetFormSubmission(r)
  PROVE  HakemusInv'
<1>1. UNCHANGED <<rows, submissions, phase>> /\ LocksKept(r)
  BY Locks DEF GetFormSubmission
<1>2. CASE End(r)
  BY <1>1, <1>2, EndStep
<1>3. CASE req' = [req EXCEPT ![r] = [@ EXCEPT !.pc = "written", !.pointer = Len(submissions)]]
  <2>1. PICK x : x = req[r]
    OBVIOUS
  <2>2. RequestOK(r, x) /\ x \in RequestType /\ x.kind = "get_current_answers" /\ x.pc = "read"
    BY <2>1, Taking DEF GetFormSubmission, At
  <2>3. PICK p : p = Len(submissions)
    OBVIOUS
  <2>4. PICK y : y = [x EXCEPT !.pc = "written", !.pointer = p]
    OBVIOUS
  <2>5. Becomes(r, y)
    BY <1>3, <2>1, <2>3, <2>4 DEF Becomes
  <2>6. /\ y.pc = "written" /\ y.pointer = p /\ y.kind = x.kind /\ y.base = x.base /\ y.loaded = x.loaded
        /\ y.seen = x.seen
    BY <2>2, <2>4 DEF RequestType
  <2>7. Active(x) /\ BasedOK(y)
    BY <2>2, <2>6 DEF RequestOK, BasedOK, Active, Under
  <2>8. Current > 0 /\ p \in 1..Len(submissions)
    BY <2>2, <2>3, <2>7, Sizes DEF RequestOK, BasedOK
  <2>9. y \in RequestType
    <3>1. "written" \in Pcs /\ p \in 0..Len(submissions) + 1
      BY <2>8, Sizes DEF Pcs
    <3> QED BY <2>2, <2>4, <3>1 DEF RequestType
  <2>10. Behind(p)
    BY <2>3, Sizes DEF Behind
  <2>11. CheckedOK(y) /\ LocksOK(r, y)' /\ CreateOK(y) /\ KindOK(y) /\ ~ Creates(y)
    BY <2>2, <2>6 DEF CheckedOK, LocksOK, CreateOK, KindOK, Creates, Under, EditKinds, SplitKinds
  <2>12. SeenOK(y) /\ PointerOK(y)
    BY <2>2, <2>6, <2>8, <2>10 DEF RequestOK, SeenOK, PointerOK, Under, EditKinds, SplitKinds
  <2>13. RequestOK(r, y)'
    BY <1>1, <2>7, <2>9, <2>11, <2>12, SameView
  <2> QED BY <1>1, <2>5, <2>6, <2>11, <2>13, RequestStep
<1> QED BY <1>2, <1>3 DEF GetFormSubmission

LEMMA UpdateSubmissionTxKeeps ==
  ASSUME HakemusInv, NEW r \in Requests, UpdateSubmissionTx(r)
  PROVE  HakemusInv'
<1>1. UNCHANGED <<rows, submissions, phase, rowLock>> /\ submissionLock' = r /\ LocksKept(r)
  BY Locks DEF UpdateSubmissionTx
<1>2. PICK x : x = req[r]
  OBVIOUS
<1>3. RequestOK(r, x) /\ x \in RequestType /\ x.kind \in {"save", "submit"} /\ x.pc = "read"
  BY <1>2, Taking DEF UpdateSubmissionTx, At
<1>4. PICK p : p = Len(submissions) + 1
  OBVIOUS
<1>5. PICK y : y = [x EXCEPT !.pc = "written", !.pointer = p]
  OBVIOUS
<1>6. Becomes(r, y)
  BY <1>2, <1>4, <1>5 DEF Becomes, UpdateSubmissionTx
<1>7. /\ y.pc = "written" /\ y.pointer = p /\ y.kind = x.kind /\ y.base = x.base /\ y.loaded = x.loaded
      /\ y.seen = x.seen /\ y.open = x.open /\ y.token = x.token
  BY <1>3, <1>5 DEF RequestType
<1>8. y \in RequestType
  <2>1. "written" \in Pcs /\ p \in 0..Len(submissions) + 1
    BY <1>4, Sizes DEF Pcs
  <2> QED BY <1>3, <1>5, <2>1 DEF RequestType
<1>9. BasedOK(y) /\ CheckedOK(y)
  BY <1>3, <1>7 DEF RequestOK, BasedOK, CheckedOK, Active, Under
<1>10. LocksOK(r, y)'
  BY <1>1, <1>3, <1>4, <1>7 DEF RequestOK, LocksOK, Under, Current
<1>11. CreateOK(y) /\ KindOK(y) /\ SeenOK(y) /\ PointerOK(y) /\ ~ Creates(y)
  BY <1>3, <1>7 DEF RequestOK, CreateOK, KindOK, SeenOK, PointerOK, Creates, Under, StalePointerKinds,
                    SplitKinds
<1>12. RequestOK(r, y)'
  BY <1>1, <1>8, <1>9, <1>10, <1>11, SameView
<1> QED BY <1>1, <1>6, <1>7, <1>11, <1>12, RequestStep

LEMMA UpdateSubmissionKeeps ==
  ASSUME HakemusInv, NEW r \in Requests, UpdateSubmission(r)
  PROVE  HakemusInv'
<1>1. UNCHANGED <<rows, phase>> /\ LocksKept(r) /\ submissionLock = NoRequest /\ Current' = Current
  BY Locks DEF UpdateSubmission, Current
<1>2. PICK x : x = req[r]
  OBVIOUS
<1>3. RequestOK(r, x) /\ x \in RequestType /\ x.kind \in SplitKinds /\ x.pc = "read"
  BY <1>2, Taking DEF UpdateSubmission, At
<1>4. PICK p : p = Len(submissions) + 1
  OBVIOUS
<1>5. PICK y : y = [x EXCEPT !.pc = "written", !.pointer = p]
  OBVIOUS
<1>6. Becomes(r, y)
  BY <1>2, <1>4, <1>5 DEF Becomes, UpdateSubmission
<1>7. /\ y.pc = "written" /\ y.pointer = p /\ y.kind = x.kind /\ y.base = x.base /\ y.loaded = x.loaded
      /\ y.seen = x.seen /\ y.open = x.open /\ y.token = x.token
  BY <1>3, <1>5 DEF RequestType
<1>8. Active(x) /\ x.base \in 1..Current /\ (x.base = Current => Behind(x.loaded)) /\ Current > 0
  BY <1>3, Sizes DEF RequestOK, BasedOK, Active, Under, SplitKinds
<1>9. /\ submissions' = Append(submissions, x.kind) /\ x.kind \in Kinds
      /\ Extends(submissions, submissions') /\ Len(submissions') = p /\ submissions'[p] = x.kind
  BY <1>2, <1>3, <1>4, Answers DEF UpdateSubmission, HakemusInv, VersionsOK, SplitKinds, Kinds
<1>10. VersionsOK(rows', submissions')
  BY <1>1, <1>3, <1>8, <1>9, AnswersFirst, Sizes DEF HakemusInv
<1>11. Frame(r)
  BY <1>1, <1>3, <1>4, <1>8, <1>9, Sizes DEF Frame, Extends, LocksKept
<1>12. y \in RequestType'
  <2>1. "written" \in Pcs /\ p \in 0..Len(submissions') + 1
    BY <1>4, <1>9, Sizes DEF Pcs
  <2>2. x \in RequestType'
    BY <1>3, <1>11, TypeGrows
  <2> QED BY <1>5, <2>1, <2>2 DEF RequestType
<1>13. x.loaded \in 0..Len(submissions) /\ x.seen \in 0..Current
  BY <1>3 DEF RequestType
<1>14. BasedOK(y)'
  <2>1. x.base = Current' => Behind(x.loaded)'
    BY <1>1, <1>8, <1>11, <1>13, BehindStays
  <2> QED BY <1>1, <1>7, <1>8, <2>1 DEF BasedOK
<1>15. CheckedOK(y)' /\ CreateOK(y)' /\ LocksOK(r, y)' /\ KindOK(y)' /\ SeenOK(y)' /\ ~ Creates(y)
  BY <1>1, <1>3, <1>7 DEF RequestOK, CheckedOK, CreateOK, LocksOK, KindOK, SeenOK, Creates, Under,
                          EditKinds, SplitKinds, StalePointerKinds
<1>16. PointerOK(y)'
  BY <1>3, <1>4, <1>7, <1>9, <1>13, Sizes DEF PointerOK, SplitKinds
<1>17. RequestOK(r, y)'
  BY <1>12, <1>14, <1>15, <1>16 DEF RequestOK
<1>18. MarksInv'
  <2>1. y.pc # "marking" /\ Current' \in Nat /\ Current <= Current'
    BY <1>1, <1>7, Sizes
  <2>2. VersionsKept
    BY <1>1 DEF VersionsKept
  <2> QED BY <1>6, <2>1, <2>2, MarksStay
<1> QED BY <1>1, <1>6, <1>10, <1>11, <1>15, <1>17, <1>18, Step DEF HakemusInv

-----------------------------------------------------------------------------
(* Steps that make versions *)

\* The request r holds what it writes.
Commits(r) ==
  /\ Current > 0 /\ LocksKept(r) /\ rowLock \in {NoRequest, r}
  /\ Extends(submissions, submissions')
  /\ submissions' = submissions \/ submissionLock = r

LEMMA FrameMade ==
  ASSUME HakemusInv, NEW r, Commits(r), Current' \in Nat, Current < Current', VersionsKept
  PROVE  Frame(r)
<1>1. rows # <<>> /\ Current \in Nat
  BY Sizes DEF Commits
<1>2. Len(submissions') \in Nat
  BY LenProperties DEF Extends, Commits
<1> QED BY <1>1, <1>2 DEF Frame, Extends, LocksKept, Commits, VersionsKept

\* What the open version and the request tell the version made of them.
LEMMA Making ==
  ASSUME HakemusInv, NEW r \in Requests, Active(req[r])
  PROVE  /\ Current > 0 /\ rows # <<>>
         /\ Hakemus \in VersionT(Current, Len(submissions)) /\ Hakemus = rows[Current]
         /\ Cause(r) \in CauseT(Current, Len(submissions))
         /\ Cause(r).kind = req[r].kind /\ Cause(r).token = req[r].token
         /\ Cause(r).open = req[r].open /\ Cause(r).seen = req[r].seen
         /\ Cause(r).loaded = req[r].loaded
<1>1. req[r] \in RequestType /\ BasedOK(req[r])
  BY Taking DEF RequestOK
<1>2. Current > 0 /\ rows # <<>>
  BY <1>1, Sizes DEF BasedOK
<1>3. Cause(r) \in CauseT(Current, Len(submissions))
  BY <1>1 DEF Cause, CauseT, RequestType
<1> QED BY <1>2, <1>3, Sizes DEF Hakemus, Current, Cause

LEMMA AppendAny ==
  ASSUME NEW T, NEW s \in Seq(T), NEW z
  PROVE  /\ Len(Append(s, z)) = Len(s) + 1 /\ Append(s, z)[Len(s) + 1] = z
         /\ \A v \in 1..Len(s) : Append(s, z)[v] = s[v]
<1> DEFINE U == T \cup {z}
<1>1. s \in Seq(U)
  BY SeqMonotonic
<1> QED BY <1>1, AppendProperties

LEMMA MadeOne ==
  ASSUME HakemusInv, NEW r, Commits(r), NEW a, rows' = Append(rows, a),
         Follows(rows, submissions, submissions', a)
  PROVE  /\ VersionsOK(rows', submissions') /\ Frame(r)
         /\ Current' = Current + 1 /\ rows'[Current + 1] = a
         /\ VersionsKept
<1>1. Current' = Current + 1 /\ rows'[Current + 1] = a /\ VersionsKept
  BY AppendAny DEF HakemusInv, VersionsOK, Current, VersionsKept
<1>2. VersionsOK(rows', submissions')
  BY Sizes, OneMore DEF HakemusInv, Commits
<1>3. Current \in Nat
  BY Sizes
<1>4. Frame(r)
  BY <1>1, <1>3, FrameMade
<1> QED BY <1>1, <1>2, <1>4

LEMMA UpdateHakemusKeeps ==
  ASSUME HakemusInv, NEW r \in Requests, UpdateHakemus(r)
  PROVE  HakemusInv'
<1>1. phase' = phase /\ LocksKept(r) /\ End(r)
  BY Locks DEF UpdateHakemus
<1>2. PICK x : x = req[r]
  OBVIOUS
<1>3. RequestOK(r, x) /\ x \in RequestType /\ x.kind = "save" /\ x.pc = "written" /\ Active(x)
  BY <1>2, Taking DEF UpdateHakemus, At, Active, Under
<1>4. PICK c : c = Cause(r)
  OBVIOUS
<1>5. PICK z : z = [Hakemus EXCEPT !.submission = x.pointer, !.cause = c]
  OBVIOUS
<1>6. /\ Current > 0 /\ rows # <<>> /\ Hakemus \in VersionT(Current, Len(submissions)) /\ Hakemus = rows[Current]
      /\ c \in CauseT(Current, Len(submissions))
      /\ c.kind = x.kind /\ c.token = x.token /\ c.open = x.open /\ c.seen = x.seen /\ c.loaded = x.loaded
  BY <1>2, <1>3, <1>4, Making
<1>7. /\ rowLock = r /\ submissionLock = r /\ x.seen = Current /\ x.base = Current
      /\ x.pointer = Len(submissions) + 1
  BY <1>3 DEF RequestOK, LocksOK, CheckedOK, Under, EditKinds
<1>8. /\ submissions' = Append(submissions, "save") /\ Extends(submissions, submissions')
      /\ Len(submissions') = Len(submissions) + 1
  BY Answers DEF UpdateHakemus, HakemusInv, VersionsOK, Kinds
<1>9. rows' = Append(rows, z)
  BY <1>2, <1>4, <1>5, <1>6 DEF UpdateHakemus, NewVersion, VersionT
<1>10. /\ z.status = Hakemus.status /\ z.submission = x.pointer /\ z.submitted = Hakemus.submitted
       /\ z.cause = c
  BY <1>5, <1>6 DEF VersionT
<1>11. z \in VersionT(Current + 1, Len(submissions'))
  <2>1. Hakemus \in VersionT(Current + 1, Len(submissions'))
    BY <1>6, <1>8, Sizes, Monotone
  <2>2. c \in CauseT(Current + 1, Len(submissions'))
    BY <1>6, <1>8, Sizes DEF CauseT
  <2>3. x.pointer \in 1..Len(submissions')
    BY <1>7, <1>8, Sizes
  <2> QED BY <1>5, <2>1, <2>2, <2>3 DEF VersionT
<1>12. SaveOK(submissions', z)
  <2>1. Behind(x.loaded)
    BY <1>3, <1>7 DEF RequestOK, BasedOK
  <2> SUFFICES ASSUME NEW n \in (z.cause.loaded + 1)..(z.submission - 1) PROVE submissions'[n] \in SplitKinds
    BY DEF SaveOK
  <2>2. x.loaded \in 0..Len(submissions)
    BY <1>3 DEF RequestType
  <2>3. n \in (x.loaded + 1)..Len(submissions) /\ n \in 1..Len(submissions)
    BY <1>6, <1>7, <1>10, <2>2, Sizes
  <2> QED BY <1>8, <2>1, <2>3 DEF Behind, Extends
<1>13. EditOK(Hakemus, Current, z)
  BY <1>3, <1>6, <1>7, <1>10 DEF EditOK, RequestOK, CheckedOK, Under
<1>14. CancelOK(Hakemus, Current, z)
  BY <1>10 DEF CancelOK
<1>15. Follows(rows, submissions, submissions', z)
  BY <1>6, <1>7, <1>8, <1>10, <1>11, <1>12, <1>13, <1>14 DEF Follows, Current
<1>16. /\ VersionsOK(rows', submissions') /\ Frame(r)
       /\ VersionsKept
  BY <1>1, <1>6, <1>7, <1>8, <1>9, <1>15, MadeOne DEF Commits
<1> QED BY <1>1, <1>16, CommitStep

LEMMA TwoMore ==
  ASSUME NEW T, NEW s \in Seq(T), NEW a \in T, NEW b \in T
  PROVE  s \o <<a, b>> = Append(Append(s, a), b)
<1> DEFINE p == s \o <<a, b>>
           q == Append(Append(s, a), b)
           e == <<a, b>>
<1>1. e \in Seq(T) /\ Len(e) = 2 /\ e[1] = a /\ e[2] = b
  OBVIOUS
<1>2. Append(s, a) \in Seq(T) /\ Len(Append(s, a)) = Len(s) + 1 /\ Len(s) \in Nat
      /\ (\A i \in 1..Len(s) : Append(s, a)[i] = s[i]) /\ Append(s, a)[Len(s) + 1] = a
  BY AppendProperties, LenProperties
<1>3. q \in Seq(T) /\ Len(q) = Len(s) + 2 /\ (\A i \in 1..(Len(s) + 1) : q[i] = Append(s, a)[i])
      /\ q[Len(s) + 2] = b
  <2> HIDE DEF q
  <2>1. /\ q \in Seq(T) /\ Len(q) = Len(Append(s, a)) + 1
        /\ \A i \in 1..Len(Append(s, a)) : q[i] = Append(s, a)[i]
        /\ q[Len(Append(s, a)) + 1] = b
    BY <1>2, AppendProperties DEF q
  <2> QED BY <1>2, <2>1
<1>4. /\ s \o e \in Seq(T) /\ Len(s \o e) = Len(s) + Len(e)
      /\ \A i \in 1..(Len(s) + Len(e)) : (s \o e)[i] = IF i <= Len(s) THEN s[i] ELSE e[i - Len(s)]
  BY <1>1, ConcatProperties
<1>5. p \in Seq(T) /\ Len(p) = Len(s) + 2 /\ (\A i \in 1..Len(s) : p[i] = s[i])
      /\ p[Len(s) + 1] = a /\ p[Len(s) + 2] = b
  <2>1. p = s \o e
    OBVIOUS
  <2> HIDE DEF p, e
  <2> QED BY <1>1, <1>2, <1>4, <2>1
<1> HIDE DEF p, q
<1>6. \A i \in 1..Len(p) : p[i] = q[i]
  BY <1>2, <1>3, <1>5
<1>7. p = q
  BY <1>3, <1>5, <1>6, SeqEqual
<1> QED BY <1>7 DEF p, q

LEMMA MadeTwo ==
  ASSUME HakemusInv, NEW r, Commits(r), NEW a, NEW b, rows' = rows \o <<a, b>>,
         Follows(rows, submissions, submissions', a),
         Follows(Append(rows, a), submissions', submissions', b)
  PROVE  /\ VersionsOK(rows', submissions') /\ Frame(r)
         /\ VersionsKept
<1> DEFINE T == VersionT(Current, Len(submissions)) \cup {a, b}
           R == Append(rows, a)
<1>1. rows \in Seq(T)
  BY SeqMonotonic DEF HakemusInv, VersionsOK, Current
<1>2. a \in T /\ b \in T
  OBVIOUS
<1> HIDE DEF T
<1>3. R \in Seq(T) /\ Len(R) = Current + 1 /\ (\A v \in 1..Current : R[v] = rows[v]) /\ R # <<>>
  BY <1>1, <1>2, AppendProperties DEF Current
<1>4. rows' = Append(R, b)
  BY <1>1, <1>2, TwoMore
<1> HIDE DEF R
<1>5. Len(Append(R, b)) = Len(R) + 1 /\ \A v \in 1..Len(R) : Append(R, b)[v] = R[v]
  BY <1>2, <1>3, AppendProperties
<1>6. Current' = Current + 2 /\ VersionsKept
  BY <1>3, <1>4, <1>5, Sizes DEF Current, VersionsKept
<1>7. VersionsOK(R, submissions')
  BY Sizes, OneMore DEF HakemusInv, Commits, R
<1>8. Extends(submissions', submissions')
  BY LenProperties DEF Extends, Commits
<1>9. VersionsOK(rows', submissions')
  BY <1>3, <1>4, <1>7, <1>8, OneMore DEF R
<1>10. Current' \in Nat /\ Current < Current'
  BY <1>6, Sizes
<1>11. Frame(r)
  BY <1>6, <1>10, FrameMade
<1> QED BY <1>6, <1>9, <1>11

LEMMA SubmitHakemusKeeps ==
  ASSUME HakemusInv, NEW r \in Requests, SubmitHakemus(r)
  PROVE  HakemusInv'
<1>1. phase' = phase /\ LocksKept(r) /\ End(r) /\ rowLock = NoRequest
  BY Locks DEF SubmitHakemus
<1>2. PICK x : x = req[r]
  OBVIOUS
<1>3. /\ RequestOK(r, x) /\ x \in RequestType /\ x.kind \in SplitKinds \cup {"submit"} /\ x.pc = "written"
      /\ Active(x)
  BY <1>2, Taking DEF SubmitHakemus, At, Active, Under, EditKinds, SplitKinds
<1>4. PICK c : c = Cause(r)
  OBVIOUS
<1>5. PICK a : a = [Hakemus EXCEPT !.status = "submitted", !.submission = x.pointer, !.cause = c]
  OBVIOUS
<1>6. /\ Current > 0 /\ rows # <<>> /\ Hakemus \in VersionT(Current, Len(submissions)) /\ Hakemus = rows[Current]
      /\ c \in CauseT(Current, Len(submissions))
      /\ c.kind = x.kind /\ c.token = x.token /\ c.open = x.open /\ c.seen = x.seen /\ c.loaded = x.loaded
  BY <1>2, <1>3, <1>4, Making
<1>7. PICK d : d = [c EXCEPT !.kind = "set_submitted_version", !.seen = Current + 1]
  OBVIOUS
<1>8. PICK b : b = [a EXCEPT !.submitted = Current + 2, !.cause = d]
  OBVIOUS
<1>9. x.seen = x.base /\ x.seen \in 1..Current /\ rows[x.seen].status # "cancelled" /\ x.loaded \in 0..Len(submissions)
  BY <1>3, Sizes DEF RequestOK, CheckedOK, SeenOK, RequestType, Under, EditKinds, SplitKinds
<1>10. /\ Extends(submissions, submissions')
       /\ submissions' = submissions \/ submissionLock = r
       /\ \/ x.kind = "submit" /\ x.pointer = Len(submissions')
          \/ /\ x.kind \in SplitKinds /\ submissions' = submissions
             /\ x.pointer \in (x.loaded + 1)..Len(submissions)
  <2>1. submissions \in Seq(Kinds)
    BY DEF HakemusInv, VersionsOK
  <2>2. CASE x.kind = "submit"
    <3>1. submissions' = Append(submissions, "submit") /\ submissionLock = r /\ x.pointer = Len(submissions) + 1
      BY <1>2, <1>3, <2>2 DEF SubmitHakemus, RequestOK, LocksOK, Under
    <3> QED BY <2>1, <2>2, <3>1, Answers DEF Kinds
  <2>3. CASE x.kind \in SplitKinds
    <3>1. submissions' = submissions
      BY <1>2, <2>3 DEF SubmitHakemus, SplitKinds
    <3>2. x.pointer \in (x.loaded + 1)..Len(submissions)
      BY <1>3, <2>3 DEF RequestOK, PointerOK, Under
    <3> QED BY <2>1, <2>3, <3>1, <3>2 DEF Extends
  <2> QED BY <1>3, <2>2, <2>3
<1>11. /\ Len(submissions) \in Nat /\ Len(submissions') \in Nat /\ Len(submissions) <= Len(submissions')
       /\ x.pointer \in 1..Len(submissions') /\ Current \in Nat
  <2>1. Len(submissions) > 0 /\ Len(submissions') \in Nat /\ Len(submissions) \in Nat /\ Len(submissions) <= Len(submissions')
    <3>1. Len(submissions) > 0 /\ Len(submissions) \in Nat
      BY <1>6, Sizes
    <3>2. Len(submissions') \in Nat
      BY <1>10, LenProperties DEF Extends
    <3> QED BY <1>10, <3>1, <3>2 DEF Extends
  <2> QED BY <1>9, <1>10, <2>1, Sizes
<1>12. /\ a.status = "submitted" /\ a.submission = x.pointer /\ a.submitted = Hakemus.submitted /\ a.cause = c
       /\ a \in VersionT(Current + 1, Len(submissions'))
  <2>1. Hakemus \in VersionT(Current + 1, Len(submissions'))
    BY <1>6, <1>11, Monotone
  <2>2. c \in CauseT(Current + 1, Len(submissions'))
    BY <1>6, <1>11 DEF CauseT
  <2>3. "submitted" \in Statuses
    BY DEF Statuses
  <2>4. a \in VersionT(Current + 1, Len(submissions'))
    BY <1>5, <1>11, <2>1, <2>2, <2>3 DEF VersionT
  <2>5. a.status = "submitted" /\ a.submission = x.pointer /\ a.submitted = Hakemus.submitted /\ a.cause = c
    BY <1>5, <1>6 DEF VersionT
  <2> QED BY <2>4, <2>5
<1>13. /\ b.status = "submitted" /\ b.submission = a.submission /\ b.submitted = Current + 2
       /\ b.cause.kind = "set_submitted_version"
       /\ b \in VersionT(Current + 2, Len(submissions'))
  <2>1. a \in VersionT(Current + 2, Len(submissions'))
    BY <1>11, <1>12, Monotone
  <2>2. d \in CauseT(Current + 2, Len(submissions')) /\ d.kind = "set_submitted_version"
    <3>1. c \in CauseT(Current + 2, Len(submissions')) /\ Current + 1 \in 0..Current + 2
      BY <1>6, <1>11 DEF CauseT
    <3> QED BY <1>7, <3>1 DEF CauseT
  <2>3. b \in VersionT(Current + 2, Len(submissions'))
    <3>1. Current + 2 \in 0..Current + 2
      BY <1>11
    <3> QED BY <1>8, <2>1, <2>2, <3>1 DEF VersionT
  <2>4. b.status = "submitted" /\ b.submission = a.submission /\ b.submitted = Current + 2 /\ b.cause = d
    BY <1>8, <1>12, <2>1 DEF VersionT
  <2> QED BY <2>2, <2>3, <2>4
<1>14. SaveOK(submissions', a) /\ SaveOK(submissions', b) /\ EditOK(a, Current + 1, b) /\ CancelOK(a, Current + 1, b)
  BY <1>3, <1>6, <1>12, <1>13 DEF SaveOK, EditOK, CancelOK, SplitKinds, EditKinds
<1>15. EditOK(Hakemus, Current, a) /\ CancelOK(Hakemus, Current, a)
  <2>1. CASE x.seen < Current
    BY <1>3, <1>6, <1>12, <2>1 DEF EditOK, CancelOK, SplitKinds
  <2>2. CASE x.seen = Current
    BY <1>3, <1>6, <1>9, <1>12, <2>2 DEF EditOK, CancelOK, RequestOK, CheckedOK, Under, EditKinds
  <2> QED BY <1>9, <1>11, <2>1, <2>2
<1>16. \/ a.submission = Len(submissions')
       \/ /\ submissions' = submissions
          /\ \/ a.cause.kind \in SplitKinds /\ a.cause.seen < Current
             \/ AnswersAhead(rows, submissions)
  <2>1. CASE x.kind = "submit"
    BY <1>10, <1>12, <2>1 DEF SplitKinds
  <2>2. CASE x.seen < Current /\ x.kind \in SplitKinds
    BY <1>6, <1>10, <1>12, <2>2 DEF SplitKinds
  <2>3. CASE x.seen = Current /\ x.kind \in SplitKinds /\ x.pointer # Len(submissions)
    <3>1. Behind(x.loaded)
      BY <1>3, <1>9, <2>3 DEF RequestOK, BasedOK
    <3>2. Len(submissions) \in (x.loaded + 1)..Len(submissions) /\ submissions' = submissions
      BY <1>9, <1>10, <1>11, <2>3 DEF SplitKinds
    <3> QED BY <3>1, <3>2 DEF Behind, AnswersAhead, Current
  <2>4. CASE x.kind \in SplitKinds /\ x.pointer = Len(submissions)
    BY <1>10, <1>12, <2>4 DEF SplitKinds
  <2> QED BY <1>3, <1>9, <1>11, <2>1, <2>2, <2>3, <2>4
<1>17. Follows(rows, submissions, submissions', a)
  BY <1>6, <1>12, <1>14, <1>15, <1>16 DEF Follows, Current
<1>18. Follows(Append(rows, a), submissions', submissions', b)
  <2>1. PICK R : R = Append(rows, a)
    OBVIOUS
  <2>2. Len(R) = Current + 1 /\ R[Len(R)] = a
    BY <2>1, AppendAny DEF HakemusInv, VersionsOK, Current
  <2>3. Len(R) + 1 = Current + 2
    BY <1>11, <2>2
  <2> QED BY <1>12, <1>13, <1>14, <2>1, <2>2, <2>3 DEF Follows
<1>19. rows' = rows \o <<a, b>>
  <2>1. a = NewVersion(r, [Hakemus EXCEPT !.status = "submitted", !.submission = req[r].pointer])
    BY <1>2, <1>4, <1>5, <1>6 DEF NewVersion, VersionT
  <2>2. b = SubmittedVersion(a, Current + 1)
    <3>1. (Current + 1) + 1 = Current + 2
      BY <1>11
    <3> QED BY <1>7, <1>8, <1>12, <3>1 DEF SubmittedVersion
  <2> QED BY <2>1, <2>2 DEF SubmitHakemus
<1>20. /\ VersionsOK(rows', submissions') /\ Frame(r)
       /\ VersionsKept
  <2>1. Commits(r)
    BY <1>1, <1>6, <1>10 DEF Commits
  <2> QED BY <1>17, <1>18, <1>19, <2>1, MadeTwo
<1> QED BY <1>1, <1>20, CommitStep

LEMMA RefuseApplicationKeeps ==
  ASSUME HakemusInv, NEW r \in Requests, RefuseApplication(r)
  PROVE  HakemusInv'
<1>1. phase' = phase /\ LocksKept(r) /\ End(r) /\ rowLock = NoRequest /\ submissions' = submissions
  BY Locks DEF RefuseApplication
<1>2. req[r].kind = "refuse" /\ Active(req[r])
  BY DEF RefuseApplication, At, Active, Under
<1>3. PICK c : c = Cause(r)
  OBVIOUS
<1>4. PICK a : a = [Hakemus EXCEPT !.refused = TRUE, !.cause = c]
  OBVIOUS
<1>5. /\ Current > 0 /\ rows # <<>> /\ Hakemus \in VersionT(Current, Len(submissions)) /\ Hakemus = rows[Current]
      /\ c \in CauseT(Current, Len(submissions)) /\ c.kind = "refuse"
  BY <1>2, <1>3, Making
<1>6. /\ a.status = Hakemus.status /\ a.submission = Hakemus.submission /\ a.submitted = Hakemus.submitted
      /\ a.cause = c /\ a \in VersionT(Current + 1, Len(submissions))
  <2>1. Hakemus \in VersionT(Current + 1, Len(submissions))
    BY <1>5, Sizes, Monotone
  <2>2. c \in CauseT(Current + 1, Len(submissions))
    BY <1>5, Sizes DEF CauseT
  <2> QED BY <1>4, <2>1, <2>2 DEF VersionT
<1>7. SaveOK(submissions, a) /\ EditOK(Hakemus, Current, a) /\ CancelOK(Hakemus, Current, a)
  BY <1>5, <1>6 DEF SaveOK, EditOK, CancelOK, EditKinds, SplitKinds
<1>8. Follows(rows, submissions, submissions', a)
  BY <1>1, <1>5, <1>6, <1>7 DEF Follows, Current
<1>9. rows' = Append(rows, a)
  BY <1>3, <1>4, <1>5 DEF RefuseApplication, NewVersion, VersionT
<1>10. Commits(r)
  BY <1>1, <1>5, Answers DEF Commits, HakemusInv, VersionsOK, Extends
<1> QED BY <1>1, <1>8, <1>9, <1>10, MadeOne, CommitStep

LEMMA KeskeytaAloittamattaKeeps ==
  ASSUME HakemusInv, NEW r \in Requests, KeskeytaAloittamatta(r)
  PROVE  HakemusInv'
<1>1. phase' = phase /\ LocksKept(r) /\ End(r) /\ rowLock = NoRequest /\ submissions' = submissions
  BY Locks DEF KeskeytaAloittamatta
<1>2. req[r].kind \in {"keskeyta_aloittamatta", "peru_keskeytys"} /\ Active(req[r])
  BY DEF KeskeytaAloittamatta, At, Active, Under
<1>3. PICK c : c = [Cause(r) EXCEPT !.seen = Current]
  OBVIOUS
<1>4. PICK d : d = [Cause(r) EXCEPT !.seen = Current + 1]
  OBVIOUS
<1>5. /\ Current > 0 /\ rows # <<>> /\ Hakemus \in VersionT(Current, Len(submissions)) /\ Hakemus = rows[Current]
      /\ Cause(r) \in CauseT(Current, Len(submissions))
      /\ Cause(r).kind \in {"keskeyta_aloittamatta", "peru_keskeytys"} /\ Current \in Nat
  BY <1>2, Making, Sizes
<1>6. /\ c \in CauseT(Current + 1, Len(submissions)) /\ c.kind \in {"keskeyta_aloittamatta", "peru_keskeytys"}
      /\ d \in CauseT(Current + 2, Len(submissions)) /\ d.kind \in {"keskeyta_aloittamatta", "peru_keskeytys"}
  <2>1. /\ Cause(r) \in CauseT(Current + 1, Len(submissions)) /\ Current \in 0..Current + 1
        /\ Cause(r) \in CauseT(Current + 2, Len(submissions)) /\ Current + 1 \in 0..Current + 2
    BY <1>5 DEF CauseT
  <2>2. c \in CauseT(Current + 1, Len(submissions)) /\ c.kind = Cause(r).kind
    BY <1>3, <2>1 DEF CauseT
  <2>3. d \in CauseT(Current + 2, Len(submissions)) /\ d.kind = Cause(r).kind
    BY <1>4, <2>1 DEF CauseT
  <2> QED BY <1>5, <2>2, <2>3
<1>7. PICK refused : refused = (req[r].kind = "keskeyta_aloittamatta")
  OBVIOUS
<1>8. PICK a : a = [Hakemus EXCEPT !.refused = refused, !.cause = c]
  OBVIOUS
<1>9. PICK b : b = [a EXCEPT !.cause = d]
  OBVIOUS
<1>10. /\ a.status = Hakemus.status /\ a.submission = Hakemus.submission /\ a.submitted = Hakemus.submitted
       /\ a.cause = c /\ a \in VersionT(Current + 1, Len(submissions))
  <2>1. Hakemus \in VersionT(Current + 1, Len(submissions))
    BY <1>5, Sizes, Monotone
  <2>2. refused \in BOOLEAN
    BY <1>7
  <2> QED BY <1>6, <1>8, <2>1, <2>2 DEF VersionT
<1>11. /\ b.status = a.status /\ b.submission = a.submission /\ b.submitted = a.submitted
       /\ b.cause = d /\ b \in VersionT(Current + 2, Len(submissions))
  <2>1. a \in VersionT(Current + 2, Len(submissions))
    BY <1>5, <1>10, Sizes, Monotone
  <2> QED BY <1>6, <1>9, <2>1 DEF VersionT
<1>12. /\ SaveOK(submissions, a) /\ EditOK(Hakemus, Current, a) /\ CancelOK(Hakemus, Current, a)
       /\ SaveOK(submissions, b) /\ EditOK(a, Current + 1, b) /\ CancelOK(a, Current + 1, b)
  BY <1>6, <1>10, <1>11 DEF SaveOK, EditOK, CancelOK, EditKinds, SplitKinds
<1>13. Follows(rows, submissions, submissions', a)
  BY <1>1, <1>5, <1>10, <1>12 DEF Follows, Current
<1>14. Follows(Append(rows, a), submissions', submissions', b)
  <2>1. PICK R : R = Append(rows, a)
    OBVIOUS
  <2>2. Len(R) = Current + 1 /\ R[Len(R)] = a
    BY <2>1, AppendAny DEF HakemusInv, VersionsOK, Current
  <2>3. Len(R) + 1 = Current + 2
    BY <1>5, <2>2
  <2> QED BY <1>1, <1>11, <1>12, <2>1, <2>2, <2>3 DEF Follows
<1>15. rows' = rows \o <<a, b>>
  BY <1>3, <1>4, <1>7, <1>8, <1>9 DEF KeskeytaAloittamatta
<1>16. Commits(r)
  BY <1>1, <1>5 DEF Commits, HakemusInv, VersionsOK, Extends
<1> QED BY <1>1, <1>13, <1>14, <1>15, <1>16, MadeTwo, CommitStep

\* The request of an officer's status change, when the version is made that it is to mark.
LEMMA Unmarking ==
  ASSUME HakemusInv, NEW r \in Requests, NEW y, Becomes(r, y), y.pc = "marking",
         Current' = Current + 1, VersionsKept, Unmarked(rows', Current + 1)
  PROVE  MarksInv'
<1>1. Marking' \subseteq Marking \cup {r}
  BY DEF Marking, HakemusInv, RequestsInv, Becomes
<1>2. PICK f \in [Marking -> 1..Current] :
        /\ \A q \in Marking : Unmarked(rows, f[q])
        /\ \A p, q \in Marking : f[p] = f[q] => p = q
  BY DEF HakemusInv, MarksInv
<1>3. PICK g : g = [q \in Marking' |-> IF q = r THEN Current + 1 ELSE f[q]]
  OBVIOUS
<1>4. \A q \in Marking : f[q] \in 1..Current
  BY <1>2
<1>5. g \in [Marking' -> 1..Current']
  BY <1>1, <1>3, <1>4, Sizes
<1>6. \A q \in Marking' : Unmarked(rows', g[q])
  BY <1>1, <1>2, <1>3, <1>4 DEF Unmarked, VersionsKept
<1>7. \A p, q \in Marking' : g[p] = g[q] => p = q
  BY <1>1, <1>2, <1>3, <1>4, Sizes
<1> QED BY <1>5, <1>6, <1>7 DEF MarksInv

LEMMA UpdateStatusKeeps ==
  ASSUME HakemusInv, NEW r \in Requests, UpdateStatus(r)
  PROVE  HakemusInv'
<1>1. phase' = phase /\ LocksKept(r) /\ rowLock = NoRequest /\ submissions' = submissions
  BY Locks DEF UpdateStatus
<1>2. PICK x : x = req[r]
  OBVIOUS
<1>3. /\ RequestOK(r, x) /\ x \in RequestType /\ x.kind \in StalePointerKinds /\ x.pc = "written"
      /\ Active(x)
  BY <1>2, Taking DEF UpdateStatus, At, Active, Under, StalePointerKinds
<1>4. PICK c : c = Cause(r)
  OBVIOUS
<1>5. PICK status : status = CASE req[r].kind = "applicant_edit_open" -> "applicant_edit"
                               [] req[r].kind = "get_current_answers" -> "draft"
                               [] req[r].kind = "status" -> req[r].status
  OBVIOUS
<1>6. status \in Statuses
  BY <1>2, <1>3, <1>5 DEF StalePointerKinds, Statuses, RequestType
<1>7. PICK a : a = [Hakemus EXCEPT !.status = status, !.submission = x.pointer, !.cause = c]
  OBVIOUS
<1>8. /\ Current > 0 /\ rows # <<>> /\ Hakemus \in VersionT(Current, Len(submissions)) /\ Hakemus = rows[Current]
      /\ c \in CauseT(Current, Len(submissions)) /\ c.kind = x.kind /\ c.seen = x.seen
  BY <1>2, <1>3, <1>4, Making
<1>9. Current \in Nat /\ Len(submissions) \in Nat /\ x.seen \in 1..Current
  BY <1>3, Sizes DEF RequestOK, SeenOK, RequestType, Under
<1>10. /\ x.kind \in {"applicant_edit_open", "status"} => x.pointer = rows[x.seen].submission
       /\ x.kind = "get_current_answers" =>
            x.pointer \in 1..Len(submissions) /\ (x.seen = Current => Behind(x.pointer))
       /\ x.kind # "status" => rows[x.seen].status # "cancelled"
  BY <1>3 DEF RequestOK, PointerOK, SeenOK, Under, StalePointerKinds
<1>11. x.pointer \in 1..Len(submissions)
  BY <1>3, <1>9, <1>10, Sizes DEF StalePointerKinds, VersionT
<1>12. /\ a.status = status /\ a.submission = x.pointer /\ a.submitted = Hakemus.submitted
       /\ a.cause = c /\ a \in VersionT(Current + 1, Len(submissions))
  <2>1. Hakemus \in VersionT(Current + 1, Len(submissions))
    BY <1>8, <1>9, Monotone
  <2>2. c \in CauseT(Current + 1, Len(submissions))
    BY <1>8, <1>9 DEF CauseT
  <2> QED BY <1>6, <1>7, <1>11, <2>1, <2>2 DEF VersionT
<1>13. SaveOK(submissions, a) /\ EditOK(Hakemus, Current, a)
  BY <1>3, <1>8, <1>12 DEF SaveOK, EditOK, EditKinds, SplitKinds, StalePointerKinds
<1>14. CancelOK(Hakemus, Current, a)
  BY <1>3, <1>8, <1>9, <1>10, <1>12 DEF CancelOK, StalePointerKinds
<1>15. \/ a.submission = Len(submissions)
       \/ a.submission = Hakemus.submission
       \/ a.cause.kind \in StalePointerKinds /\ a.cause.seen < Current
       \/ AnswersAhead(rows, submissions)
  <2>1. CASE x.seen < Current
    BY <1>3, <1>8, <1>12, <2>1
  <2>2. CASE x.seen = Current /\ x.kind # "get_current_answers"
    BY <1>3, <1>8, <1>10, <1>12, <2>2 DEF StalePointerKinds
  <2>3. CASE x.seen = Current /\ x.kind = "get_current_answers" /\ x.pointer # Len(submissions)
    <3>1. Len(submissions) \in (x.pointer + 1)..Len(submissions) /\ Behind(x.pointer)
      BY <1>9, <1>10, <2>3
    <3> QED BY <3>1 DEF Behind, AnswersAhead, Current
  <2> QED BY <1>9, <1>12, <2>1, <2>2, <2>3
<1>16. Follows(rows, submissions, submissions', a)
  BY <1>1, <1>8, <1>12, <1>13, <1>14, <1>15 DEF Follows, Current
<1>17. rows' = Append(rows, a)
  BY <1>2, <1>4, <1>5, <1>7, <1>8 DEF UpdateStatus, NewVersion, VersionT
<1>18. Commits(r)
  BY <1>1, <1>8 DEF Commits, HakemusInv, VersionsOK, Extends
<1>19. /\ VersionsOK(rows', submissions') /\ Frame(r)
       /\ Current' = Current + 1 /\ rows'[Current + 1] = a /\ VersionsKept
  BY <1>16, <1>17, <1>18, MadeOne
<1>20. CASE End(r)
  BY <1>1, <1>19, <1>20, CommitStep
<1>21. CASE x.kind = "status" /\ status = "submitted" /\ Goto(r, "marking")
  <2>1. PICK y : y = [x EXCEPT !.pc = "marking"]
    OBVIOUS
  <2>2. Becomes(r, y)
    BY <1>2, <1>21, <2>1 DEF Becomes, Goto
  <2>3. y \in RequestType'
    <3>1. x \in RequestType' /\ "marking" \in Pcs
      BY <1>3, <1>19, TypeGrows DEF Pcs
    <3> QED BY <2>1, <3>1 DEF RequestType
  <2>4. y.pc = "marking" /\ y.kind = "status" /\ y.base = x.base
    BY <1>3, <1>21, <2>1 DEF RequestType
  <2>5. BasedOK(y)'
    <3>1. x.base \in 1..Current
      BY <1>3 DEF RequestOK, BasedOK
    <3>2. x.base \in 1..Current' /\ x.base # Current'
      BY <1>9, <1>19, <3>1
    <3> QED BY <2>4, <3>2 DEF BasedOK
  <2>6. RequestOK(r, y)' /\ ~ Creates(y)
    BY <2>3, <2>4, <2>5 DEF RequestOK, CreateOK, CheckedOK, LocksOK, SeenOK, PointerOK, KindOK, Creates, Under
  <2>7. Unmarked(rows', Current + 1)
    <3>1. a.submitted \in 0..Current
      BY <1>8, <1>12 DEF VersionT
    <3> QED BY <1>8, <1>9, <1>12, <1>19, <1>21, <3>1 DEF Unmarked
  <2>8. MarksInv'
    BY <1>19, <2>2, <2>4, <2>7, Unmarking
  <2>9. phase' \in Phases
    BY <1>1 DEF HakemusInv
  <2> QED BY <1>1, <1>19, <2>2, <2>6, <2>8, <2>9, Step
<1> QED BY <1>2, <1>5, <1>20, <1>21 DEF UpdateStatus

\* After a mark, the request that had the marked version to mark has the marking one's.
LEMMA Remarking ==
  ASSUME HakemusInv, NEW r \in Requests, End(r), r \in Marking, Current' = Current, Current > 0,
         \A v \in 1..(Current - 1) : rows'[v] = rows[v]
  PROVE  MarksInv'
<1>1. Marking' = Marking \ {r}
  BY DEF Marking, HakemusInv, RequestsInv, End, Ended, Idle
<1>2. PICK f \in [Marking -> 1..Current] :
        /\ \A q \in Marking : Unmarked(rows, f[q])
        /\ \A p, q \in Marking : f[p] = f[q] => p = q
  BY DEF HakemusInv, MarksInv
<1>3. PICK g : g = [q \in Marking' |-> IF f[q] = Current THEN f[r] ELSE f[q]]
  OBVIOUS
<1>4. \A q \in Marking : f[q] \in 1..Current
  BY <1>2
<1>5. \A q \in Marking' : g[q] \in 1..(Current - 1)
  BY <1>1, <1>2, <1>3, <1>4, Sizes
<1>6. g \in [Marking' -> 1..Current']
  BY <1>3, <1>5, Sizes
<1>7. \A q \in Marking' : Unmarked(rows', g[q])
  BY <1>1, <1>2, <1>3, <1>5 DEF Unmarked
<1>8. \A p, q \in Marking' : g[p] = g[q] => p = q
  BY <1>1, <1>2, <1>3, <1>4, Sizes
<1> QED BY <1>6, <1>7, <1>8 DEF MarksInv

LEMMA UpdateSubmittedHakemusVersionKeeps ==
  ASSUME HakemusInv, NEW r \in Requests, UpdateSubmittedHakemusVersion(r)
  PROVE  HakemusInv'
<1>1. /\ phase' = phase /\ LocksKept(r) /\ End(r) /\ submissions' = submissions
      /\ rows' = [rows EXCEPT ![Current] = [@ EXCEPT !.submitted = Current]]
  BY Locks DEF UpdateSubmittedHakemusVersion
<1>2. r \in Marking
  BY DEF UpdateSubmittedHakemusVersion, At, Marking
<1>3. PICK u \in 1..Current : Unmarked(rows, u)
  BY <1>2 DEF HakemusInv, MarksInv
<1>4. Current \in Nat /\ Current > 0 /\ rows # <<>> /\ Len(submissions) \in Nat
  BY <1>3, Sizes
<1>5. /\ VersionsOK(rows', submissions') /\ Current' = Current
      /\ \A v \in 1..(Current - 1) : rows'[v] = rows[v]
      /\ rows'[Current] = [rows[Current] EXCEPT !.submitted = Current]
  BY <1>1, <1>3, <1>4, Mark DEF HakemusInv, Current
<1>6. \A v \in 1..Current : rows'[v].status = rows[v].status /\ rows'[v].submission = rows[v].submission
  <2>1. rows[Current] \in VersionT(Current, Len(submissions))
    BY <1>4, Sizes
  <2>2. rows'[Current].status = rows[Current].status /\ rows'[Current].submission = rows[Current].submission
    BY <1>5, <2>1 DEF VersionT
  <2>3. \A v \in 1..(Current - 1) : rows'[v].status = rows[v].status /\ rows'[v].submission = rows[v].submission
    BY <1>5
  <2>4. \A v \in 1..Current : v = Current \/ v \in 1..(Current - 1)
    BY <1>4
  <2> QED BY <2>2, <2>3, <2>4
<1>7. Frame(r)
  BY <1>1, <1>4, <1>5, <1>6 DEF Frame, LocksKept
<1>8. MarksInv'
  BY <1>1, <1>2, <1>4, <1>5, Remarking
<1>9. RequestOK(r, Ended)' /\ ~ Creates(Ended) /\ Becomes(r, Ended)
  BY <1>1, <1>4, <1>5, Over DEF Becomes, End
<1>10. phase' \in Phases
  BY <1>1 DEF HakemusInv
<1> QED BY <1>1, <1>5, <1>7, <1>8, <1>9, <1>10, Step

-----------------------------------------------------------------------------
(* The theorems *)

LEMMA InitInv == Init => HakemusInv
<1> SUFFICES ASSUME Init PROVE HakemusInv
  OBVIOUS
<1>1. VersionsOK(rows, submissions)
  <2>1. CASE rows = <<>> /\ submissions = <<>>
    BY <2>1, NoneYet
  <2>2. CASE rows # <<>>
    <3>1. PICK s \in FirstStatuses :
            rows = <<[status |-> s, submission |-> 1, refused |-> FALSE,
                      submitted |-> IF s = "submitted" THEN 1 ELSE 0,
                      cause |-> [kind |-> "create", token |-> FALSE, open |-> TRUE, seen |-> 0, loaded |-> 0]]>>
      BY <2>2 DEF Init
    <3>2. submissions = <<"create">>
      BY <2>2 DEF Init
    <3>3. PICK c : c = [kind |-> "create", token |-> FALSE, open |-> TRUE, seen |-> 0, loaded |-> 0]
      OBVIOUS
    <3>4. PICK n : n = IF s = "submitted" THEN 1 ELSE 0
      OBVIOUS
    <3>5. PICK x : x = [status |-> s, submission |-> 1, refused |-> FALSE, submitted |-> n, cause |-> c]
      OBVIOUS
    <3>6. c \in CauseT(1, 1) /\ c.kind = "create"
      BY <3>3 DEF CauseT, Kinds
    <3>7. s \in Statuses
      BY FirstStatusesAssumption
    <3>8. x \in VersionT(1, 1) /\ x.cause = c /\ x.submitted = n /\ x.status = s
      BY <3>4, <3>5, <3>6, <3>7 DEF VersionT
    <3>9. VersionsOK(<<x>>, <<"create">>)
      BY <3>4, <3>6, <3>8, First
    <3>10. rows = <<x>>
      BY <3>1, <3>3, <3>4, <3>5
    <3> QED BY <3>2, <3>9, <3>10
  <2> QED BY <2>1, <2>2 DEF Init
<1>2. Current \in Nat /\ Len(submissions) \in Nat
  BY <1>1, Versions DEF Current
<1>3. ASSUME NEW r \in Requests PROVE RequestOK(r, Idle) /\ ~ Creates(Idle)
  <2>1. Idle \in RequestType
    BY <1>2, IdleType DEF RequestType
  <2> QED BY <2>1 DEF RequestOK, CreateOK, BasedOK, CheckedOK, LocksOK, SeenOK, PointerOK, KindOK,
                      Creates, Active, Under, Idle, EditKinds, SplitKinds, StalePointerKinds
<1>4. req = [r \in Requests |-> Idle]
  BY DEF Init
<1>5. RequestsInv
  BY <1>3, <1>4 DEF RequestsInv
<1>6. MarksInv
  <2>1. Marking = {}
    BY <1>4 DEF Marking, Idle
  <2>2. PICK f : f = [q \in Marking |-> 1]
    OBVIOUS
  <2>3. f \in [Marking -> 1..Current]
    BY <2>1, <2>2
  <2> QED BY <2>1, <2>3 DEF MarksInv
<1> QED BY <1>1, <1>5, <1>6 DEF Init, HakemusInv

LEMMA NextInv == HakemusInv /\ [Next]_vars => HakemusInv'
<1> SUFFICES ASSUME HakemusInv, [Next]_vars PROVE HakemusInv'
  OBVIOUS
<1>1. CASE UNCHANGED <<rows, submissions, rowLock, submissionLock, req>> /\ phase' \in Phases
  <2>1. Marking' = Marking /\ Current' = Current
    BY <1>1 DEF Marking, Current
  <2>2. MarksInv'
    BY <1>1, <2>1 DEF HakemusInv, MarksInv
  <2>3. ASSUME NEW r \in Requests PROVE RequestOK(r, req[r])'
    <3>1. RequestOK(r, req[r])
      BY Taking
    <3> QED BY <1>1, <3>1 DEF RequestOK, CreateOK, BasedOK, CheckedOK, LocksOK, SeenOK, PointerOK, KindOK,
                              Creates, Active, Under, RequestType, Behind, Current
  <2>4. RequestsInv'
    BY <1>1, <2>3 DEF HakemusInv, RequestsInv
  <2> QED BY <1>1, <2>2, <2>4 DEF HakemusInv
<1>2. CASE \E r \in Requests : Ask(r) \/ Serve(r) \/ Abort(r)
  <2>1. PICK r \in Requests : Ask(r) \/ Serve(r) \/ Abort(r)
    BY <1>2
  <2>2. CASE Ask(r)
    BY <2>2, AskKeeps
  <2>3. CASE CreateSubmission(r)
    BY <2>3, CreateSubmissionKeeps
  <2>4. CASE CreateHakemus(r)
    BY <2>4, CreateHakemusKeeps
  <2>5. CASE CanUpdateHakemus(r)
    BY <2>5, CanUpdateHakemusKeeps
  <2>6. CASE GetLockedHakemusVersionForUpdate(r)
    BY <2>6, GetLockedHakemusVersionForUpdateKeeps
  <2>7. CASE GetHakemus(r)
    BY <2>7, GetHakemusKeeps
  <2>8. CASE GetFormSubmission(r)
    BY <2>8, GetFormSubmissionKeeps
  <2>9. CASE UpdateSubmissionTx(r)
    BY <2>9, UpdateSubmissionTxKeeps
  <2>10. CASE UpdateSubmission(r)
    BY <2>10, UpdateSubmissionKeeps
  <2>11. CASE UpdateHakemus(r)
    BY <2>11, UpdateHakemusKeeps
  <2>12. CASE SubmitHakemus(r)
    BY <2>12, SubmitHakemusKeeps
  <2>13. CASE UpdateStatus(r)
    BY <2>13, UpdateStatusKeeps
  <2>14. CASE UpdateSubmittedHakemusVersion(r)
    BY <2>14, UpdateSubmittedHakemusVersionKeeps
  <2>15. CASE RefuseApplication(r)
    BY <2>15, RefuseApplicationKeeps
  <2>16. CASE KeskeytaAloittamatta(r)
    BY <2>16, KeskeytaAloittamattaKeeps
  <2>17. CASE LockNotAvailable(r) \/ Abort(r)
    BY <2>17, FailKeeps DEF LockNotAvailable, Abort
  <2> QED BY <2>1, <2>2, <2>3, <2>4, <2>5, <2>6, <2>7, <2>8, <2>9, <2>10, <2>11, <2>12, <2>13, <2>14,
             <2>15, <2>16, <2>17 DEF Serve
<1> QED BY <1>1, <1>2 DEF Next, SetPhase, vars, HakemusInv

\* The inductive invariant holds of every run.
THEOREM Invariance == Spec => []HakemusInv
BY InitInv, NextInv, PTL DEF Spec

LEMMA InvType == HakemusInv => TypeOK
<1> SUFFICES ASSUME HakemusInv PROVE TypeOK
  OBVIOUS
<1>1. VersionT(Current, Len(submissions)) =
        [status : Statuses, submission : 1..Len(submissions), refused : BOOLEAN,
         submitted : 0..Current, cause : CauseType]
  BY DEF VersionT, CauseT, CauseType
<1>2. \A r \in Requests : req[r] \in RequestType
  BY Taking
<1>3. req \in [Requests -> RequestType]
  BY <1>2 DEF HakemusInv, RequestsInv
<1> QED BY <1>1, <1>3 DEF TypeOK, HakemusInv, VersionsOK, RequestType, Pcs, Current

LEMMA InvProperties ==
  ASSUME HakemusInv
  PROVE  /\ SavesLoseNoAnswers /\ EditingNeedsPermission /\ CancelledStaysCancelled
         /\ PointerBehindHasACause /\ SubmittedVersionIsASubmission
<1>1. SavesLoseNoAnswers
  BY DEF HakemusInv, VersionsOK, SaveOK, SavesLoseNoAnswers, Current
<1>2. EditingNeedsPermission
  BY DEF HakemusInv, VersionsOK, EditOK, EditingNeedsPermission, Current
<1>3. CancelledStaysCancelled
  BY DEF HakemusInv, VersionsOK, CancelOK, CancelledStaysCancelled, Current
<1>4. PointerBehindHasACause
  BY DEF HakemusInv, VersionsOK, LastOK, AnswersAhead, StaleVersion, PointerBehindHasACause, Hakemus, Current
<1>5. SubmittedVersionIsASubmission
  BY DEF HakemusInv, VersionsOK, LastOK, Unmarked, SubmittedVersionIsASubmission, Hakemus, Current
<1> QED BY <1>1, <1>2, <1>3, <1>4, <1>5

\* Types, and the foreign key by which a version points at an existing version of the
\* answers.
THEOREM Typing == Spec => []TypeOK
BY Invariance, InvType, PTL

\* A save supersedes only answers its author had before them: what it supersedes unseen was
\* put there by a handler that commits answers and application apart.
THEOREM SavesAreKept == Spec => []SavesLoseNoAnswers
BY Invariance, InvProperties, PTL

\* A version is edited by leave of the grant's phase, of its status or of the officer's
\* token, as they were when the request was checked.
THEOREM EditingIsPermitted == Spec => []EditingNeedsPermission
BY Invariance, InvProperties, PTL

\* A cancelled application comes back only by an officer's hand, or by a request that read
\* it before it was cancelled.
THEOREM CancelledStays == Spec => []CancelledStaysCancelled
BY Invariance, InvProperties, PTL

\* The open version points at the newest answers, unless the handlers that do not lock what
\* they read came between.
THEOREM PointerAgrees == Spec => []PointerBehindHasACause
BY Invariance, InvProperties, PTL

\* submitted_version names a version that was submitted, unless it is the late mark of a
\* status change that another version overtook.
THEOREM MarksAgree == Spec => []SubmittedVersionIsASubmission
BY Invariance, InvProperties, PTL

=============================================================================
