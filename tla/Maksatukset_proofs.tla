---------------------------- MODULE Maksatukset_proofs ----------------------------
(***************************************************************************)
(* What holds of the payments of a grant for any applications, maksuerat,  *)
(* officers, runs of the feedback job, attempts, days and bounds.  First:  *)
(* feedback is applied to the payment it is about before its file is       *)
(* deleted, and the token of an application ends with its payment.  No row *)
(* is ever taken away, so what the two properties need is carried by rows  *)
(* with the same payment, status and user, whatever their version.         *)
(*                                                                         *)
(* Second: a payment goes out once and is paid once.  Although             *)
(* update-payment closes a version without asking whether it is still      *)
(* open, a payment keeps one open version as long as no two requests send  *)
(* on one day.  The argument is about whose hands a payment is in.  A      *)
(* request that sends holds payments nobody has settled, in their current  *)
(* version; the feedback job only takes payments that are settled; so no   *)
(* two of them ever write versions of one payment from an old one.         *)
(***************************************************************************)
EXTENDS Maksatukset, TLAPS, FiniteSetTheorems, SequenceTheorems, WellFoundedInduction

Settled == {"sent", "paid"}
Users == {"officer", "rondo"}

\* A row, whatever its version and batch.
IsRow(r) == r \in [id : Nat, ver : {r.ver}, app : Apps, phase : Phases, status : Statuses,
                   batch : {r.batch}, xml : BOOLEAN, user : Users, closed : BOOLEAN, deleted : BOOLEAN]

\* Two rows tell the same of the same payment.
Same(r, s) ==
  r.id = s.id /\ r.app = s.app /\ r.phase = s.phase /\ r.status = s.status /\ r.user = s.user

\* There is such a payment, of that application.
Known(p) == \E r \in rows : r.id = p.id /\ r.app = p.app

AttemptType == [id : Nat, app : Apps, phase : Phases, step : {"started", "stored", "ended"},
                put : BOOLEAN, ok : BOOLEAN, confirmed : BOOLEAN]

\* Payments have the numbers 1..k, each one application.
RowsInv ==
  /\ \A r \in rows : IsRow(r)
  /\ \E k \in Nat : Ids = 1..k
  /\ \A r, s \in rows : r.id = s.id => r.app = s.app

AttemptsInv ==
  /\ attempts \in Seq(AttemptType)
  /\ files \subseteq answered /\ answered \subseteq DOMAIN attempts

\* A payment that an officer's request works on is of the application it works on.
Mine(x, p) == IsRow(p) /\ Known(p) /\ p.app = x.app

OfficerOK(x) ==
  /\ x \in [pc : {x.pc}, op : {x.op}, batch : {x.batch}, apps : {x.apps}, app : {x.app},
             list : {x.list}, pay : {x.pay}, n : {x.n}]
  /\ x.pc = "create" => x.apps \subseteq Apps
  /\ \A p \in x.list : Mine(x, p) /\ p.status \in Unpaid
  /\ x.pc = "wait" => Mine(x, x.pay)
  /\ x.pc = "mark" => x.pay = Payment0 \/ Mine(x, x.pay)

OfficersInv ==
  /\ officer = [o \in Officers |-> officer[o]]
  /\ \A o \in Officers : OfficerOK(officer[o])

About(n, r) == r.app = attempts[n].app /\ r.phase = attempts[n].phase

\* A run of the job marks a payment that was sent and that its file is about, and deletes a
\* file of a paid payment.
JobOK(x) ==
  /\ x \in [pc : {x.pc}, todo : {x.todo}, file : {x.file}, pay : {x.pay}]
  /\ x.todo \subseteq answered
  /\ x.pc \in {"update", "delete"} => x.file \in answered
  /\ x.pc = "update" =>
       /\ IsRow(x.pay) /\ Known(x.pay) /\ About(x.file, x.pay)
       /\ \E r \in rows : r.app = x.pay.app /\ r.status = "sent"
  /\ x.pc = "delete" => \E r \in rows : About(x.file, r) /\ r.status = "paid"

JobsInv ==
  /\ job = [j \in Jobs |-> job[j]]
  /\ \A j \in Jobs : JobOK(job[j])

PaymentsInv == RowsInv /\ AttemptsInv /\ OfficersInv /\ JobsInv

-----------------------------------------------------------------------------
(* What a step may do to the rows *)

\* Each row is still told, and the rows tell what they did or what P does.
Changes(P) ==
  /\ \A r \in rows : \E s \in rows' : Same(r, s)
  /\ \A s \in rows' : IsRow(s) /\ \E r \in rows \cup P : Same(r, s)

LEMMA RowFields ==
  ASSUME NEW r, IsRow(r), NEW v
  PROVE  /\ IsRow([r EXCEPT !.closed = TRUE]) /\ Same(r, [r EXCEPT !.closed = TRUE])
         /\ IsRow([r EXCEPT !.deleted = TRUE]) /\ Same(r, [r EXCEPT !.deleted = TRUE])
         /\ IsRow([r EXCEPT !.xml = TRUE]) /\ Same(r, [r EXCEPT !.xml = TRUE])
         /\ LET s == [r EXCEPT !.ver = v, !.closed = FALSE, !.deleted = FALSE] IN IsRow(s) /\ Same(r, s)
<1>1. IsRow([r EXCEPT !.closed = TRUE]) /\ Same(r, [r EXCEPT !.closed = TRUE])
  BY DEF IsRow, Same
<1>2. IsRow([r EXCEPT !.deleted = TRUE]) /\ Same(r, [r EXCEPT !.deleted = TRUE])
  BY DEF IsRow, Same
<1>3. IsRow([r EXCEPT !.xml = TRUE]) /\ Same(r, [r EXCEPT !.xml = TRUE])
  BY DEF IsRow, Same
<1>4. LET s == [r EXCEPT !.ver = v, !.closed = FALSE, !.deleted = FALSE] IN IsRow(s) /\ Same(r, s)
  BY DEF IsRow, Same
<1> QED BY <1>1, <1>2, <1>3, <1>4

\* What is written of a payment when it is given to an attempt, and when it is marked.
Tells(s, p, status, user) ==
  IsRow(s) /\ s.id = p.id /\ s.app = p.app /\ s.phase = p.phase /\ s.status = status /\ s.user = user

LEMMA Given ==
  ASSUME NEW p, IsRow(p), NEW b
  PROVE  Tells([p EXCEPT !.batch = b, !.user = "officer"], p, p.status, "officer")
BY DEF Tells, IsRow, Users

LEMMA Marked ==
  ASSUME NEW p, IsRow(p), NEW status \in Statuses, NEW user \in Users
  PROVE  Tells([p EXCEPT !.status = status, !.user = user], p, status, user)
BY DEF Tells, IsRow

LEMMA Unchanged == ASSUME RowsInv, rows' = rows PROVE Changes({})
BY DEF Changes, RowsInv, Same

LEMMA Update ==
  ASSUME RowsInv, NEW p, IsRow(p), UpdatePayment(p)
  PROVE  Changes({p}) /\ IsRow(NewVersion(p)) /\ Same(p, NewVersion(p))
<1>1. IsRow(NewVersion(p)) /\ Same(p, NewVersion(p))
  BY RowFields DEF NewVersion
<1>2. \A r \in rows : IsRow(r) /\ Same(r, r) /\ IsRow([r EXCEPT !.closed = TRUE]) /\ Same(r, [r EXCEPT !.closed = TRUE])
  BY RowFields DEF RowsInv, Same
<1>3. \A r \in rows : \E s \in rows' : Same(r, s)
  <2> SUFFICES ASSUME NEW r \in rows PROVE \E s \in rows' : Same(r, s)
    OBVIOUS
  <2> DEFINE q == IF r.id = p.id /\ r.ver = p.ver /\ ~ r.deleted THEN [r EXCEPT !.closed = TRUE] ELSE r
  <2>1. q \in rows'
    BY DEF UpdatePayment, CloseVersion
  <2> QED BY <2>1, <1>2
<1>4. \A s \in rows' : s = NewVersion(p) \/ \E r \in rows : s = r \/ s = [r EXCEPT !.closed = TRUE]
  BY DEF UpdatePayment, CloseVersion
<1>5. ASSUME NEW s \in rows' PROVE IsRow(s) /\ \E r \in rows \cup {p} : Same(r, s)
  <2>1. CASE s = NewVersion(p)
    BY <2>1, <1>1
  <2>2. CASE \E r \in rows : s = r \/ s = [r EXCEPT !.closed = TRUE]
    BY <2>2, <1>2
  <2> QED BY <1>4, <2>1, <2>2
<1> QED BY <1>1, <1>3, <1>5 DEF Changes

\* The rows after a change that makes no new payment.
LEMMA RowsStay ==
  ASSUME RowsInv, NEW P, Changes(P), \A p \in P : Known(p)
  PROVE  RowsInv' /\ \A p : Known(p) => Known(p)'
<1>1. Ids' = Ids
  BY DEF Changes, Same, Known, Ids
<1>2. \A s \in rows' : \E r \in rows : r.id = s.id /\ r.app = s.app
  BY DEF Changes, Same, Known
<1>3. \A r, s \in rows' : r.id = s.id => r.app = s.app
  BY <1>2 DEF RowsInv
<1> QED BY <1>1, <1>3 DEF Changes, RowsInv, Known, Same

RowsGoOn(P) == RowsInv' /\ Changes(P) /\ \A p : Known(p) => Known(p)'

\* A new payment has a number of its own.
LEMMA RowsGrow ==
  ASSUME RowsInv, NEW a \in Apps, NEW phase \in Phases, NEW status \in Statuses, StorePayment(a, phase, status)
  PROVE  \E p : p.app = a /\ p.status = status /\ p.user = "officer" /\ RowsGoOn({p})
<1> DEFINE p == [id |-> Cardinality(Ids) + 1, ver |-> 0, app |-> a, phase |-> phase,
                 status |-> status, batch |-> 0, xml |-> FALSE, user |-> "officer",
                 closed |-> FALSE, deleted |-> FALSE]
<1>1. PICK k \in Nat : Ids = 1..k
  BY DEF RowsInv
<1>2. Cardinality(Ids) = k
  BY <1>1, FS_Interval
<1>3. rows' = rows \cup {p}
  BY DEF StorePayment
<1>4. IsRow(p) /\ Same(p, p) /\ p.id = k + 1
  BY <1>2 DEF IsRow, Same, Users
<1>5. Ids' = 1..(k + 1)
  <2>1. Ids' = Ids \cup {k + 1}
    BY <1>3, <1>4 DEF Ids
  <2> QED BY <2>1, <1>1
<1>6. \A r \in rows : r.id # p.id
  BY <1>1, <1>4 DEF Ids
<1>7. \A r, s \in rows' : r.id = s.id => r.app = s.app
  BY <1>3, <1>6 DEF RowsInv
<1>8. RowsInv'
  <2>1. k + 1 \in Nat
    OBVIOUS
  <2> HIDE DEF p
  <2> QED BY <1>3, <1>4, <1>5, <1>7, <2>1 DEF RowsInv
<1>9. \A q : Known(q) => Known(q)'
  BY <1>3 DEF Known
<1>10. Changes({p})
  BY <1>3, <1>4 DEF Changes, RowsInv, Same
<1> QED BY <1>8, <1>9, <1>10 DEF RowsGoOn

-----------------------------------------------------------------------------
(* What a step may do to the rest *)

Inv == PaymentsInv /\ TokenEndsWithPayment /\ FeedbackIsKept

\* Attempts come after one another and stay attempts to send what they were.
AttemptsGrow ==
  /\ AttemptsInv'
  /\ DOMAIN attempts \subseteq DOMAIN attempts' /\ answered \subseteq answered'
  /\ \A n \in DOMAIN attempts : attempts'[n].app = attempts[n].app /\ attempts'[n].phase = attempts[n].phase


LEMMA RowsUntouched == ASSUME RowsInv, rows' = rows PROVE RowsGoOn({})
BY Unchanged, RowsStay DEF RowsGoOn

LEMMA RowsUpdated ==
  ASSUME RowsInv, NEW p, IsRow(p), Known(p), UpdatePayment(p)
  PROVE  RowsGoOn({p}) /\ IsRow(NewVersion(p)) /\ Same(p, NewVersion(p))
BY Update, RowsStay DEF RowsGoOn

LEMMA AttemptsUntouched ==
  ASSUME AttemptsInv, UNCHANGED <<attempts, files, answered>>
  PROVE  AttemptsGrow
BY DEF AttemptsGrow, AttemptsInv

LEMMA OfficerGoesOn ==
  ASSUME NEW P, RowsGoOn(P), NEW x, OfficerOK(x)
  PROVE  OfficerOK(x)'
BY DEF RowsGoOn, OfficerOK, Mine

LEMMA JobGoesOn ==
  ASSUME NEW P, RowsGoOn(P), AttemptsInv, AttemptsGrow, NEW x, JobOK(x)
  PROVE  JobOK(x)'
<1>1. x.todo \subseteq answered'
  BY DEF JobOK, AttemptsGrow
<1>2. \A n \in answered : \A r, s : About(n, r) /\ Same(r, s) => About(n, s)'
  BY DEF About, Same, AttemptsInv, AttemptsGrow
<1>3. x.pc \in {"update", "delete"} => x.file \in answered /\ x.file \in answered'
  BY DEF JobOK, AttemptsGrow
<1>4. x.pc = "update" =>
        /\ IsRow(x.pay) /\ Known(x.pay)' /\ About(x.file, x.pay)'
        /\ \E r \in rows' : r.app = x.pay.app /\ r.status = "sent"
  <2> SUFFICES ASSUME x.pc = "update"
               PROVE  /\ Known(x.pay)' /\ About(x.file, x.pay)'
                      /\ \E r \in rows' : r.app = x.pay.app /\ r.status = "sent"
    BY DEF JobOK
  <2>1. About(x.file, x.pay)'
    BY <1>2, <1>3 DEF JobOK, Same
  <2>2. \E r \in rows' : r.app = x.pay.app /\ r.status = "sent"
    BY DEF JobOK, RowsGoOn, Changes, Same
  <2> QED BY <2>1, <2>2 DEF JobOK, RowsGoOn
<1>5. x.pc = "delete" => \E r \in rows' : About(x.file, r)' /\ r.status = "paid"
  <2> SUFFICES ASSUME x.pc = "delete" PROVE \E r \in rows' : About(x.file, r)' /\ r.status = "paid"
    OBVIOUS
  <2>1. PICK r \in rows : About(x.file, r) /\ r.status = "paid"
    BY DEF JobOK
  <2>2. PICK s \in rows' : Same(r, s)
    BY DEF RowsGoOn, Changes
  <2> QED BY <1>2, <1>3, <2>1, <2>2 DEF Same
<1> QED BY <1>1, <1>3, <1>4, <1>5 DEF JobOK

\* Officers and runs that a step leaves alone, and the one it moves.
LEMMA OfficersGoOn ==
  ASSUME NEW P, RowsGoOn(P), OfficersInv, NEW o \in Officers, NEW y, OfficerOK(y),
         officer' = [officer EXCEPT ![o] = y]
  PROVE  /\ OfficersInv'
         /\ officer'[o] = y /\ \A q \in Officers \ {o} : officer'[q] = officer[q]
<1>1. /\ officer' = [q \in Officers |-> officer'[q]]
      /\ officer'[o] = y /\ \A q \in Officers \ {o} : officer'[q] = officer[q]
  BY DEF OfficersInv
<1>2. \A q \in Officers : OfficerOK(officer'[q])
  BY <1>1 DEF OfficersInv
<1>3. ASSUME NEW q \in Officers PROVE OfficerOK(officer[q])'
  <2>1. PICK x : x = officer'[q]
    OBVIOUS
  <2>2. OfficerOK(x)'
    BY <1>2, <2>1, OfficerGoesOn
  <2> QED BY <2>1, <2>2 DEF OfficerOK, Mine, Known
<1> QED BY <1>1, <1>3 DEF OfficersInv

LEMMA OfficersStay ==
  ASSUME NEW P, RowsGoOn(P), OfficersInv, UNCHANGED officer
  PROVE  OfficersInv'
<1>1. ASSUME NEW q \in Officers PROVE OfficerOK(officer[q])'
  <2>1. PICK x : x = officer[q]
    OBVIOUS
  <2>2. OfficerOK(x)'
    BY <2>1, OfficerGoesOn DEF OfficersInv
  <2> QED BY <2>1, <2>2 DEF OfficerOK, Mine, Known
<1> QED BY <1>1 DEF OfficersInv

LEMMA JobMoves ==
  ASSUME NEW P, RowsGoOn(P), AttemptsInv, AttemptsGrow, JobsInv, NEW j \in Jobs, NEW y, JobOK(y)',
         job' = [job EXCEPT ![j] = y]
  PROVE  JobsInv'
<1>1. job' = [i \in Jobs |-> job'[i]] /\ job'[j] = y /\ \A i \in Jobs \ {j} : job'[i] = job[i]
  BY DEF JobsInv
<1>2. ASSUME NEW i \in Jobs PROVE JobOK(job[i])'
  <2>1. PICK x : x = job'[i]
    OBVIOUS
  <2>2. JobOK(x)'
    <3>1. CASE i = j
      BY <1>1, <2>1, <3>1
    <3>2. CASE i # j
      BY <1>1, <2>1, <3>2, JobGoesOn DEF JobsInv
    <3> QED BY <3>1, <3>2
  <2> QED BY <2>1, <2>2 DEF JobOK, Known, About
<1> QED BY <1>1, <1>2 DEF JobsInv

LEMMA JobsGoOn ==
  ASSUME NEW P, RowsGoOn(P), AttemptsInv, AttemptsGrow, JobsInv, NEW j \in Jobs, NEW y, JobOK(y),
         job' = [job EXCEPT ![j] = y]
  PROVE  JobsInv'
BY JobGoesOn, JobMoves

LEMMA JobsStay ==
  ASSUME NEW P, RowsGoOn(P), AttemptsInv, AttemptsGrow, JobsInv, UNCHANGED job
  PROVE  JobsInv'
<1>2. ASSUME NEW i \in Jobs PROVE JobOK(job[i])'
  <2>1. PICK x : x = job[i]
    OBVIOUS
  <2>2. JobOK(x)'
    BY <2>1, JobGoesOn DEF JobsInv
  <2> QED BY <2>1, <2>2 DEF JobOK, Known, About
<1> QED BY <1>2 DEF JobsInv

\* The token of a payment sent or paid: no request between the two transactions is forgotten,
\* and what is marked now is marked by such a request, or was settled before.
LEMMA TokenStays ==
  ASSUME TokenEndsWithPayment, NEW P, Changes(P), token' \subseteq token,
         spared \cap token' \subseteq spared',
         \A o \in Officers : At(o, "revoke") =>
           \/ officer'[o].pc = "revoke" /\ officer'[o].app = officer[o].app
           \/ officer[o].app \notin token'
           \/ officer[o].app \in spared',
         \A p \in P : p.status \in Settled =>
           \/ \E s \in rows : s.status \in Settled /\ s.app = p.app
           \/ \E o \in Officers : officer'[o].pc = "revoke" /\ officer'[o].app = p.app
  PROVE  TokenEndsWithPayment'
<1>1. SUFFICES ASSUME NEW r \in rows', r.status \in Settled, r.app \in token', r.app \notin spared'
               PROVE  \E o \in Officers : officer'[o].pc = "revoke" /\ officer'[o].app = r.app
  BY DEF TokenEndsWithPayment, PaymentIsOut, At, Settled
<1>2. (\E s \in rows : s.status \in Settled /\ s.app = r.app)
      => \E o \in Officers : officer'[o].pc = "revoke" /\ officer'[o].app = r.app
  <2>1. SUFFICES ASSUME NEW s \in rows, s.status \in Settled, s.app = r.app
                 PROVE  \E o \in Officers : officer'[o].pc = "revoke" /\ officer'[o].app = r.app
    OBVIOUS
  <2>2. r.app \in token /\ r.app \notin spared /\ PaymentIsOut(r.app)
    BY <1>1, <2>1 DEF PaymentIsOut, Settled
  <2>3. \E o \in Officers : At(o, "revoke") /\ officer[o].app = r.app
    BY <2>2 DEF TokenEndsWithPayment
  <2> QED BY <1>1, <2>3
<1> QED BY <1>1, <1>2 DEF Changes, Same

\* Feedback: what loses its file now is paid, and what Rondo's feedback pays is what it is about.
LEMMA FeedbackStays ==
  ASSUME FeedbackIsKept, AttemptsInv, AttemptsGrow, NEW P, Changes(P),
         \A n \in answered' \ files' :
           n \in answered \ files \/ (n \in answered /\ \E r \in rows : About(n, r) /\ r.status = "paid"),
         \A p \in P : p.status = "paid" /\ p.user = "rondo" => \E n \in answered : About(n, p)
  PROVE  FeedbackIsKept'
<1>1. \A n \in answered : \A r, s : About(n, r) /\ Same(r, s) => About(n, s)'
  BY DEF About, Same, AttemptsInv, AttemptsGrow
<1>2. ASSUME NEW n \in answered' \ files'
      PROVE  \E s \in rows' : About(n, s)' /\ s.status = "paid"
  <2>1. n \in answered /\ \E r \in rows : About(n, r) /\ r.status = "paid"
    BY <1>2 DEF FeedbackIsKept, DeletedFeedbackWasApplied, About
  <2> QED BY <1>1, <2>1 DEF Changes, Same
<1>3. ASSUME NEW s \in rows', s.status = "paid", s.user = "rondo"
      PROVE  \E n \in answered' : About(n, s)'
  <2>1. PICK r \in rows \cup P : Same(r, s)
    BY DEF Changes
  <2>2. \E n \in answered : About(n, r)
    BY <1>3, <2>1 DEF FeedbackIsKept, FeedbackPaysItsOwn, About, Same
  <2> QED BY <1>1, <2>1, <2>2 DEF AttemptsGrow
<1>4. DeletedFeedbackWasApplied'
  BY <1>2 DEF DeletedFeedbackWasApplied, About
<1>5. FeedbackPaysItsOwn'
  BY <1>3 DEF FeedbackPaysItsOwn, About
<1> QED BY <1>4, <1>5 DEF FeedbackIsKept

-----------------------------------------------------------------------------
(* The kinds of steps *)

\* A step of the service, of an attempt or of the world: officers and runs are not touched.
LEMMA OthersStep ==
  ASSUME Inv, RowsGoOn({}), AttemptsGrow, answered' \ files' \subseteq answered \ files,
         UNCHANGED <<token, spared, officer, job>>
  PROVE  Inv'
<1>1. RowsInv' /\ Changes({}) /\ AttemptsInv'
  BY DEF RowsGoOn, AttemptsGrow
<1>2. OfficersInv' /\ JobsInv'
  BY OfficersStay, JobsStay DEF Inv, PaymentsInv
<1>3. TokenEndsWithPayment'
  BY <1>1, TokenStays DEF Inv, At
<1>4. FeedbackIsKept'
  BY <1>1, FeedbackStays DEF Inv, PaymentsInv
<1> QED BY <1>1, <1>2, <1>3, <1>4 DEF Inv, PaymentsInv

\* A request of an officer goes on and writes nothing.
LEMMA OfficerStep ==
  ASSUME Inv, NEW o \in Officers, NEW y, OfficerOK(y), ~ At(o, "revoke"),
         officer' = [officer EXCEPT ![o] = y],
         UNCHANGED <<rows, token, spared, attempts, files, answered, job>>
  PROVE  Inv'
<1>1. RowsGoOn({}) /\ AttemptsGrow
  BY RowsUntouched, AttemptsUntouched DEF Inv, PaymentsInv
<1>2. RowsInv' /\ Changes({}) /\ AttemptsInv'
  BY <1>1 DEF RowsGoOn, AttemptsGrow
<1>3. /\ OfficersInv' /\ JobsInv'
      /\ officer'[o] = y /\ \A q \in Officers \ {o} : officer'[q] = officer[q]
  BY <1>1, OfficersGoOn, JobsStay DEF Inv, PaymentsInv
<1>4. TokenEndsWithPayment'
  BY <1>2, <1>3, TokenStays DEF Inv, At
<1>5. FeedbackIsKept'
  BY <1>1, <1>2, FeedbackStays DEF Inv, PaymentsInv
<1> QED BY <1>2, <1>3, <1>4, <1>5 DEF Inv, PaymentsInv

\* A request of an officer writes a payment; if that settles it, its token is next.
LEMMA OfficerWrites ==
  ASSUME Inv, NEW p, IsRow(p), Known(p), UpdatePayment(p), p.user = "officer",
         NEW o \in Officers, NEW y, OfficerOK(y), ~ At(o, "revoke"),
         officer' = [officer EXCEPT ![o] = y],
         p.status \in Settled => y.pc = "revoke" /\ y.app = p.app,
         AttemptsGrow, UNCHANGED <<token, spared, files, answered, job>>
  PROVE  Inv'
<1>1. RowsGoOn({p})
  BY RowsUpdated DEF Inv, PaymentsInv
<1>2. RowsInv' /\ Changes({p}) /\ AttemptsInv'
  BY <1>1 DEF RowsGoOn, AttemptsGrow
<1>3. /\ OfficersInv' /\ JobsInv'
      /\ officer'[o] = y /\ \A q \in Officers \ {o} : officer'[q] = officer[q]
  BY <1>1, OfficersGoOn, JobsStay DEF Inv, PaymentsInv
<1>4. TokenEndsWithPayment'
  BY <1>2, <1>3, TokenStays DEF Inv, At
<1>5. FeedbackIsKept'
  BY <1>2, FeedbackStays DEF Inv, PaymentsInv
<1> QED BY <1>2, <1>3, <1>4, <1>5 DEF Inv, PaymentsInv

\* A new payment, which is neither sent nor paid; the officers' requests go on as o does.
LEMMA PaymentIsMade ==
  ASSUME Inv, NEW a \in Apps, NEW phase \in Phases, NEW status \in Unpaid, StorePayment(a, phase, status),
         \/ UNCHANGED officer
         \/ \E o \in Officers : \E y : OfficerOK(y) /\ ~ At(o, "revoke") /\ officer' = [officer EXCEPT ![o] = y],
         UNCHANGED <<token, spared, attempts, files, answered, job>>
  PROVE  Inv'
<1>1. PICK p : p.status = status /\ p.user = "officer" /\ RowsGoOn({p})
  <2>1. status \in Statuses /\ RowsInv
    BY DEF Unpaid, Statuses, Inv, PaymentsInv
  <2> QED BY <2>1, RowsGrow
<1>2. AttemptsGrow
  BY AttemptsUntouched DEF Inv, PaymentsInv
<1>3. RowsInv' /\ Changes({p}) /\ AttemptsInv' /\ JobsInv'
  BY <1>1, <1>2, JobsStay DEF RowsGoOn, AttemptsGrow, Inv, PaymentsInv
<1>4. OfficersInv' /\ \A q \in Officers : At(q, "revoke") => officer'[q] = officer[q]
  <2>1. CASE UNCHANGED officer
    BY <2>1, <1>1, OfficersStay DEF Inv, PaymentsInv
  <2>2. CASE \E o \in Officers : \E y : OfficerOK(y) /\ ~ At(o, "revoke") /\ officer' = [officer EXCEPT ![o] = y]
    <3>1. PICK o \in Officers : \E y : OfficerOK(y) /\ ~ At(o, "revoke") /\ officer' = [officer EXCEPT ![o] = y]
      BY <2>2
    <3>2. PICK y : OfficerOK(y) /\ ~ At(o, "revoke") /\ officer' = [officer EXCEPT ![o] = y]
      BY <3>1
    <3> QED BY <3>2, <1>1, OfficersGoOn DEF Inv, PaymentsInv
  <2> QED BY <2>1, <2>2
<1>5. p.status \notin Settled
  BY <1>1 DEF Unpaid, Settled
<1>6. TokenEndsWithPayment'
  BY <1>3, <1>4, <1>5, TokenStays DEF Inv, At
<1>7. FeedbackIsKept'
  BY <1>1, <1>2, <1>3, FeedbackStays DEF Inv, PaymentsInv
<1> QED BY <1>3, <1>4, <1>6, <1>7 DEF Inv, PaymentsInv

\* A run of the job goes on; the file it deletes, if any, is of a paid payment.
LEMMA JobStep ==
  ASSUME Inv, NEW j \in Jobs, NEW y, JobOK(y), job' = [job EXCEPT ![j] = y],
         files' \subseteq files,
         \A n \in files \ files' : \E r \in rows : About(n, r) /\ r.status = "paid",
         UNCHANGED <<rows, token, spared, attempts, answered, officer>>
  PROVE  Inv'
<1>1. RowsGoOn({}) /\ AttemptsGrow
  BY RowsUntouched DEF Inv, PaymentsInv, AttemptsGrow, AttemptsInv
<1>2. RowsInv' /\ Changes({}) /\ AttemptsInv'
  BY <1>1 DEF RowsGoOn, AttemptsGrow
<1>3. OfficersInv' /\ JobsInv'
  BY <1>1, OfficersStay, JobsGoOn DEF Inv, PaymentsInv
<1>4. TokenEndsWithPayment'
  BY <1>2, TokenStays DEF Inv, At
<1>5. FeedbackIsKept'
  <2>1. \A n \in answered' \ files' :
           n \in answered \ files \/ (n \in answered /\ \E r \in rows : About(n, r) /\ r.status = "paid")
    OBVIOUS
  <2> QED BY <1>1, <1>2, <2>1, FeedbackStays DEF Inv, PaymentsInv
<1> QED BY <1>2, <1>3, <1>4, <1>5 DEF Inv, PaymentsInv

-----------------------------------------------------------------------------
(* The steps *)

\* The fields of a request that goes on.
LEMMA IdleOK == OfficerOK(IdleOfficer) /\ JobOK(IdleJob)
BY DEF OfficerOK, IdleOfficer, JobOK, IdleJob

LEMMA CreateGrantPaymentsStep ==
  ASSUME Inv, NEW o \in Officers, CreateGrantPayments(o)
  PROVE  Inv'
<1>1. PICK V \in SUBSET Apps :
        officer' = [officer EXCEPT ![o] = [IdleOfficer EXCEPT !.pc = "create", !.op = "create", !.apps = V]]
  BY DEF CreateGrantPayments
<1> DEFINE y == [IdleOfficer EXCEPT !.pc = "create", !.op = "create", !.apps = V]
<1>2. OfficerOK(y)
  <2>1. OfficerOK(IdleOfficer) /\ IdleOfficer.list = {}
    BY IdleOK DEF IdleOfficer
  <2> QED BY <2>1 DEF OfficerOK
<1> HIDE DEF y
<1>3. ~ At(o, "revoke")
  BY DEF CreateGrantPayments, At
<1> QED BY <1>1, <1>2, <1>3, OfficerStep DEF CreateGrantPayments, y

LEMMA CreatePaymentStep ==
  ASSUME Inv, NEW o \in Officers, NEW a \in Apps, CreatePayment(o, a)
  PROVE  Inv'
<1> DEFINE x == officer[o]
           y == IF x.apps = {a} THEN IdleOfficer ELSE [x EXCEPT !.apps = x.apps \ {a}]
<1>1. OfficerOK(x) /\ x.pc = "create"
  BY DEF Inv, PaymentsInv, OfficersInv, CreatePayment, At
<1>2. OfficerOK(y)
  <2>1. OfficerOK([x EXCEPT !.apps = x.apps \ {a}])
    <3> HIDE DEF x
    <3> QED BY <1>1 DEF OfficerOK, Mine
  <2> QED BY <2>1, IdleOK
<1>3. officer' = [officer EXCEPT ![o] = y]
  <2>1. CASE x.apps = {a}
    BY <2>1 DEF CreatePayment
  <2>2. CASE x.apps # {a}
    BY <2>2 DEF CreatePayment
  <2> QED BY <2>1, <2>2
<1>4. ~ At(o, "revoke")
  BY <1>1 DEF At
<1> HIDE DEF y
<1> QED BY <1>2, <1>3, <1>4, PaymentIsMade, PhasesAssumption DEF CreatePayment, Unpaid

LEMMA AddPaymentStep ==
  ASSUME Inv, NEW a \in Apps, NEW phase \in Phases, AddPayment(a, phase)
  PROVE  Inv'
BY PaymentIsMade DEF AddPayment, Unpaid

LEMMA DeleteStep ==
  ASSUME Inv, NEW doomed, Delete(doomed)
  PROVE  Inv'
<1>1. Changes({})
  <2>1. \A r \in rows : LET s == IF r \in doomed THEN [r EXCEPT !.deleted = TRUE] ELSE r
                        IN IsRow(s) /\ Same(r, s)
    BY RowFields DEF Inv, PaymentsInv, RowsInv, Same
  <2>2. \A s \in rows' : \E r \in rows : s = IF r \in doomed THEN [r EXCEPT !.deleted = TRUE] ELSE r
    BY DEF Delete
  <2>3. ASSUME NEW r \in rows PROVE \E s \in rows' : Same(r, s)
    <3> DEFINE q == IF r \in doomed THEN [r EXCEPT !.deleted = TRUE] ELSE r
    <3>1. q \in rows'
      BY DEF Delete
    <3> QED BY <3>1, <2>1
  <2>4. ASSUME NEW s \in rows' PROVE IsRow(s) /\ \E r \in rows \cup {} : Same(r, s)
    <3>1. PICK r \in rows : s = IF r \in doomed THEN [r EXCEPT !.deleted = TRUE] ELSE r
      BY <2>2
    <3> QED BY <2>1, <3>1
  <2> QED BY <2>3, <2>4 DEF Changes
<1>2. RowsGoOn({})
  BY <1>1, RowsStay DEF RowsGoOn, Inv, PaymentsInv
<1>3. AttemptsGrow
  BY AttemptsUntouched DEF Delete, Inv, PaymentsInv
<1> QED BY <1>2, <1>3, OthersStep DEF Delete

\* An attempt goes on.
LEMMA AttemptGoesOn ==
  ASSUME AttemptsInv, NEW n, NEW e,
         n \in DOMAIN attempts =>
           e \in AttemptType /\ e.app = attempts[n].app /\ e.phase = attempts[n].phase,
         attempts' = [attempts EXCEPT ![n] = e], files' = files, answered' = answered
  PROVE  AttemptsGrow
<1>1. CASE n \in DOMAIN attempts
  <2>1. /\ attempts \in Seq(AttemptType) /\ e \in AttemptType
        /\ n \in 1..Len(attempts) /\ DOMAIN attempts = 1..Len(attempts)
    BY <1>1 DEF AttemptsInv
  <2>2. attempts' \in Seq(AttemptType) /\ DOMAIN attempts' = DOMAIN attempts
    BY <2>1, ExceptSeq
  <2>3. \A m \in DOMAIN attempts : attempts'[m] = IF m = n THEN e ELSE attempts[m]
    BY <2>1
  <2> QED BY <1>1, <2>2, <2>3 DEF AttemptsGrow, AttemptsInv
<1>2. CASE n \notin DOMAIN attempts
  <2>1. attempts = [m \in DOMAIN attempts |-> attempts[m]]
    BY DEF AttemptsInv
  <2>2. attempts' = attempts
    BY <1>2, <2>1
  <2> QED BY <2>2, AttemptsUntouched
<1> QED BY <1>1, <1>2

LEMMA AttemptStarts ==
  ASSUME AttemptsInv, NEW e \in AttemptType,
         attempts' = Append(attempts, e), files' = files, answered' = answered
  PROVE  AttemptsGrow
<1>1. /\ attempts' \in Seq(AttemptType) /\ Len(attempts') = Len(attempts) + 1
      /\ \A n \in 1..Len(attempts) : attempts'[n] = attempts[n]
  BY AppendProperties DEF AttemptsInv
<1>2. DOMAIN attempts = 1..Len(attempts) /\ DOMAIN attempts' = 1..Len(attempts') /\ Len(attempts) \in Nat
  BY <1>1 DEF AttemptsInv
<1>3. DOMAIN attempts \subseteq DOMAIN attempts'
  BY <1>1, <1>2
<1> QED BY <1>1, <1>2, <1>3 DEF AttemptsGrow, AttemptsInv

\* Requests that write nothing.
LEMMA OfficerQuietly ==
  ASSUME Inv, NEW o \in Officers,
         \/ FindBatches(o) \/ CreateBatch(o) \/ ListApplications(o) \/ EndRequest(o) \/ GiveUp(o)
         \/ (\E a \in Apps : ListUnsentPayments(o, a)) \/ SendSucceeded(o)
  PROVE  Inv'
<1> DEFINE x == officer[o]
<1>0. OfficerOK(x)
  BY DEF Inv, PaymentsInv, OfficersInv
<1>1. ASSUME NEW y, OfficerOK(y), x.pc # "revoke", officer' = [officer EXCEPT ![o] = y],
             UNCHANGED <<rows, token, spared, attempts, files, answered, job>>
      PROVE  Inv'
  BY <1>1, OfficerStep DEF At
<1>2. CASE FindBatches(o)
  <2>1. PICK op : officer' = [officer EXCEPT ![o] = [IdleOfficer EXCEPT !.pc = "checked", !.op = op]]
    BY <1>2 DEF FindBatches
  <2>2. OfficerOK(IdleOfficer) /\ IdleOfficer.list = {}
    BY IdleOK DEF IdleOfficer
  <2>3. OfficerOK([IdleOfficer EXCEPT !.pc = "checked", !.op = op])
    BY <2>2 DEF OfficerOK
  <2> QED BY <1>1, <1>2, <2>1, <2>3 DEF FindBatches, At
<1>3. CASE CreateBatch(o)
  <2>1. OfficerOK([x EXCEPT !.pc = "batch", !.batch = Len(batches) + 1])
    <3> HIDE DEF x
    <3> QED BY <1>0 DEF OfficerOK, Mine
  <2> QED BY <1>1, <1>3, <2>1 DEF CreateBatch, At
<1>4. CASE ListApplications(o)
  <2>1. OfficerOK([x EXCEPT !.pc = "loop", !.apps = Apps \ refused])
    <3> HIDE DEF x
    <3> QED BY <1>0 DEF OfficerOK, Mine
  <2> QED BY <1>1, <1>4, <2>1 DEF ListApplications, At
<1>5. CASE EndRequest(o)
  BY <1>1, <1>5, IdleOK DEF EndRequest, At
<1>6. CASE GiveUp(o)
  <2>1. OfficerOK([x EXCEPT !.pc = "loop", !.pay = Payment0, !.n = 0])
    <3> HIDE DEF x
    <3> QED BY <1>0 DEF OfficerOK, Mine
  <2> QED BY <1>1, <1>6, <2>1 DEF GiveUp, At
<1>7. CASE \E a \in Apps : ListUnsentPayments(o, a)
  <2>1. PICK a \in Apps : ListUnsentPayments(o, a)
    BY <1>7
  <2>2. \A p \in Unsent(a) : IsRow(p) /\ Known(p) /\ p.app = a /\ p.status \in Unpaid
    BY DEF Unsent, Open, Inv, PaymentsInv, RowsInv, Known
  <2>3. x.pc = "loop"
    BY <2>1 DEF ListUnsentPayments, At
  <2>4. OfficerOK([x EXCEPT !.apps = x.apps \ {a}, !.app = a, !.list = Unsent(a)])
    <3> HIDE DEF x
    <3> QED BY <1>0, <2>2, <2>3 DEF OfficerOK, Mine
  <2> QED BY <1>1, <2>1, <2>3, <2>4 DEF ListUnsentPayments
<1>8. CASE SendSucceeded(o)
  <2> DEFINE found == Version(x.pay.id, x.pay.ver)
             q == IF found = {} THEN Payment0 ELSE CHOOSE r \in found : TRUE
  <2>1. x.pc = "wait"
    BY <1>8 DEF SendSucceeded, At
  <2>2. \A r \in found : Mine(x, r)
    BY <1>0, <2>1 DEF Version, OfficerOK, Mine, Known, Inv, PaymentsInv, RowsInv
  <2>3. q = Payment0 \/ Mine(x, q)
    <3> HIDE DEF found
    <3> QED BY <2>2
  <2>4. OfficerOK([x EXCEPT !.pc = "mark", !.pay = q])
    <3> HIDE DEF x, q
    <3> QED BY <1>0, <2>3 DEF OfficerOK, Mine
  <2> QED BY <1>1, <1>8, <2>1, <2>4 DEF SendSucceeded
<1> QED BY <1>2, <1>3, <1>4, <1>5, <1>6, <1>7, <1>8

\* A request that hangs, or goes back to its list, keeps it.
LEMMA RequestOn ==
  ASSUME NEW x, OfficerOK(x), NEW list, list \subseteq x.list, NEW n
  PROVE  /\ OfficerOK([x EXCEPT !.pc = "hung"]) /\ OfficerOK([x EXCEPT !.pc = "loop"])
         /\ LET y == [x EXCEPT !.pc = "revoke", !.list = list]
            IN OfficerOK(y) /\ y.pc = "revoke" /\ y.app = x.app
         /\ LET y == [x EXCEPT !.pc = "revoke", !.pay = Payment0, !.n = n]
            IN OfficerOK(y) /\ y.pc = "revoke" /\ y.app = x.app
         /\ \A p : Mine(x, p) => OfficerOK([x EXCEPT !.pc = "wait", !.list = list, !.pay = p, !.n = n])
<1>1. OfficerOK([x EXCEPT !.pc = "hung"]) /\ OfficerOK([x EXCEPT !.pc = "loop"])
  BY DEF OfficerOK, Mine
<1>2. LET y == [x EXCEPT !.pc = "revoke", !.list = list]
      IN OfficerOK(y) /\ y.pc = "revoke" /\ y.app = x.app
  BY DEF OfficerOK, Mine
<1>3. LET y == [x EXCEPT !.pc = "revoke", !.pay = Payment0, !.n = n]
      IN OfficerOK(y) /\ y.pc = "revoke" /\ y.app = x.app
  BY DEF OfficerOK, Mine
<1>4. ASSUME NEW p, Mine(x, p)
      PROVE  OfficerOK([x EXCEPT !.pc = "wait", !.list = list, !.pay = p, !.n = n])
  BY <1>4 DEF OfficerOK, Mine
<1> QED BY <1>1, <1>2, <1>3, <1>4

LEMMA SendPaymentStep ==
  ASSUME Inv, NEW o \in Officers, NEW p \in officer[o].list, SendPayment(o, p)
  PROVE  Inv'
<1> DEFINE x == officer[o]
           given == [p EXCEPT !.batch = x.batch, !.user = "officer"]
           q == NewVersion(given)
           list == x.list \ {p}
           n == Len(attempts) + 1
           e == [id |-> p.id, app |-> p.app, phase |-> p.phase, step |-> "started",
                 put |-> FALSE, ok |-> FALSE, confirmed |-> FALSE]
<1>1. OfficerOK(x) /\ x.pc = "loop" /\ UNCHANGED <<token, spared, files, answered, job>>
  <2>1. OfficerOK(x)
    BY DEF Inv, PaymentsInv, OfficersInv
  <2>2. token' = token
    BY DEF SendPayment, Hang
  <2> QED BY <2>1, <2>2 DEF SendPayment, At
<1>2. Mine(x, p) /\ p.status \in Unpaid
  BY <1>1 DEF OfficerOK
<1>3. CASE UpdateFails(p)
  <2>1. OfficerOK([x EXCEPT !.pc = "hung"])
    BY <1>1, RequestOn
  <2>2. Hang(o)
    BY <1>3 DEF SendPayment
  <2> QED BY <1>1, <2>1, <2>2, OfficerStep DEF Hang, At
<1>4. CASE ~ UpdateFails(p)
  <2>1. Tells(given, p, p.status, "officer")
    BY <1>2, Given DEF Mine
  <2>2. /\ UpdatePayment(given) /\ attempts' = Append(attempts, e)
        /\ officer' = [officer EXCEPT ![o] = [x EXCEPT !.pc = "wait", !.list = list, !.pay = q, !.n = n]]
    BY <1>4 DEF SendPayment
  <2>3. IsRow(given) /\ Known(given) /\ given.user = "officer" /\ given.status \notin Settled
    BY <1>2, <2>1 DEF Tells, Mine, Known, Unpaid, Settled
  <2>4. IsRow(q) /\ Same(given, q)
    BY <2>2, <2>3, RowsUpdated DEF Inv, PaymentsInv
  <2>5. Mine(x, q)
    <3> HIDE DEF x, given, q
    <3> QED BY <1>2, <2>1, <2>4 DEF Mine, Known, Same, Tells
  <2>6. OfficerOK([x EXCEPT !.pc = "wait", !.list = list, !.pay = q, !.n = n])
    <3>1. list \subseteq x.list
      OBVIOUS
    <3> HIDE DEF x, given, q, list, n
    <3> QED BY <1>1, <2>5, <3>1, RequestOn
  <2>7. e \in AttemptType
    BY <1>2 DEF Mine, IsRow, AttemptType
  <2>8. AttemptsGrow
    <3> HIDE DEF e
    <3> QED BY <1>1, <2>2, <2>7, AttemptStarts DEF Inv, PaymentsInv
  <2>9. ~ At(o, "revoke")
    BY <1>1 DEF At
  <2> HIDE DEF x, given, q, list, n
  <2> QED BY <1>1, <2>2, <2>3, <2>6, <2>8, <2>9, OfficerWrites
<1> QED BY <1>3, <1>4

LEMMA MarkSentStep ==
  ASSUME Inv, NEW o \in Officers, MarkSent(o)
  PROVE  Inv'
<1> DEFINE x == officer[o]
           p == x.pay
           q == [p EXCEPT !.status = "sent", !.user = "officer"]
           y == [x EXCEPT !.pc = "revoke", !.pay = Payment0, !.n = 0]
           e == [attempts[x.n] EXCEPT !.confirmed = TRUE]
<1>1. OfficerOK(x) /\ x.pc = "mark" /\ UNCHANGED <<token, spared, files, answered, job>>
  <2>1. OfficerOK(x)
    BY DEF Inv, PaymentsInv, OfficersInv
  <2>2. token' = token
    BY DEF MarkSent, Hang
  <2> QED BY <2>1, <2>2 DEF MarkSent, At
<1>2. CASE p = Payment0 \/ (p # Payment0 /\ UpdateFails(p))
  <2>1. OfficerOK([x EXCEPT !.pc = "hung"])
    BY <1>1, RequestOn
  <2>2. Hang(o)
    BY <1>2 DEF MarkSent
  <2> QED BY <1>1, <2>1, <2>2, OfficerStep DEF Hang, At
<1>3. CASE ~ (p = Payment0 \/ (p # Payment0 /\ UpdateFails(p)))
  <2>1. Mine(x, p)
    BY <1>1, <1>3 DEF OfficerOK
  <2>2. Tells(q, p, "sent", "officer")
    BY <2>1, Marked DEF Mine, Statuses, Users
  <2>3. UpdatePayment(q) /\ attempts' = [attempts EXCEPT ![x.n] = e] /\ officer' = [officer EXCEPT ![o] = y]
    BY <1>3 DEF MarkSent
  <2>4. IsRow(q) /\ Known(q) /\ q.user = "officer" /\ q.app = x.app
    BY <2>1, <2>2 DEF Tells, Mine, Known
  <2>5. OfficerOK(y) /\ y.pc = "revoke" /\ y.app = x.app
    BY <1>1, RequestOn
  <2>6. x.n \in DOMAIN attempts => e \in AttemptType /\ e.app = attempts[x.n].app /\ e.phase = attempts[x.n].phase
    <3> SUFFICES ASSUME x.n \in DOMAIN attempts
                 PROVE  e \in AttemptType /\ e.app = attempts[x.n].app /\ e.phase = attempts[x.n].phase
      OBVIOUS
    <3>1. attempts[x.n] \in AttemptType
      BY DEF Inv, PaymentsInv, AttemptsInv
    <3> QED BY <3>1 DEF AttemptType
  <2>7. AttemptsGrow
    <3> HIDE DEF e, x
    <3> QED BY <1>1, <2>3, <2>6, AttemptGoesOn DEF Inv, PaymentsInv
  <2>8. ~ At(o, "revoke")
    BY <1>1 DEF At
  <2> HIDE DEF x, p, q, y
  <2> QED BY <1>1, <2>3, <2>4, <2>5, <2>7, <2>8, OfficerWrites
<1> QED BY <1>2, <1>3

LEMMA SetPaymentPaidStep ==
  ASSUME Inv, NEW o \in Officers, NEW p \in officer[o].list, SetPaymentPaid(o, p)
  PROVE  Inv'
<1> DEFINE x == officer[o]
           q == [p EXCEPT !.status = "paid", !.user = "officer"]
           list == x.list \ {p}
           y == [x EXCEPT !.pc = "revoke", !.list = list]
<1>1. OfficerOK(x) /\ x.pc = "loop" /\ UNCHANGED <<token, spared, attempts, files, answered, job>>
  BY DEF Inv, PaymentsInv, OfficersInv, SetPaymentPaid, At
<1>2. CASE UpdateFails(p)
  BY <1>1, <1>2, IdleOK, OfficerStep DEF SetPaymentPaid, At
<1>3. CASE ~ UpdateFails(p)
  <2>1. Mine(x, p)
    BY <1>1 DEF OfficerOK
  <2>2. Tells(q, p, "paid", "officer")
    BY <2>1, Marked DEF Mine, Statuses, Users
  <2>3. UpdatePayment(q) /\ officer' = [officer EXCEPT ![o] = y]
    BY <1>3 DEF SetPaymentPaid
  <2>4. IsRow(q) /\ Known(q) /\ q.user = "officer" /\ q.app = x.app
    BY <2>1, <2>2 DEF Tells, Mine, Known
  <2>5. OfficerOK(y) /\ y.pc = "revoke" /\ y.app = x.app
    <3>1. list \subseteq x.list
      OBVIOUS
    <3> HIDE DEF x, list
    <3> QED BY <1>1, <3>1, RequestOn
  <2>6. AttemptsGrow
    BY <1>1, AttemptsUntouched DEF Inv, PaymentsInv
  <2>7. ~ At(o, "revoke")
    BY <1>1 DEF At
  <2> HIDE DEF x, q, y
  <2> QED BY <1>1, <2>3, <2>4, <2>5, <2>6, <2>7, OfficerWrites
<1> QED BY <1>2, <1>3

LEMMA RevokeStep ==
  ASSUME Inv, NEW o \in Officers, RevokeApplicationTokens(o)
  PROVE  Inv'
<1> DEFINE x == officer[o]
           y == [x EXCEPT !.pc = "loop"]
<1>1. OfficerOK(y) /\ officer' = [officer EXCEPT ![o] = y]
  BY RequestOn DEF Inv, PaymentsInv, OfficersInv, RevokeApplicationTokens
<1> HIDE DEF y
<1>2. RowsGoOn({}) /\ AttemptsGrow
  BY RowsUntouched, AttemptsUntouched DEF Inv, PaymentsInv, RevokeApplicationTokens
<1>3. RowsInv' /\ Changes({}) /\ AttemptsInv'
  BY <1>2 DEF RowsGoOn, AttemptsGrow
<1>4. /\ OfficersInv' /\ JobsInv'
      /\ \A q \in Officers \ {o} : officer'[q] = officer[q]
  BY <1>1, <1>2, OfficersGoOn, JobsStay DEF Inv, PaymentsInv, RevokeApplicationTokens
<1>5. TokenEndsWithPayment'
  BY <1>3, <1>4, TokenStays DEF Inv, At, RevokeApplicationTokens
<1>6. FeedbackIsKept'
  BY <1>2, <1>3, FeedbackStays DEF Inv, PaymentsInv, RevokeApplicationTokens
<1> QED BY <1>3, <1>4, <1>5, <1>6 DEF Inv, PaymentsInv

LEMMA StoreXmlStep ==
  ASSUME Inv, NEW n \in DOMAIN attempts, StoreOutgoingPaymentXml(n)
  PROVE  Inv'
<1> DEFINE found == Newest(attempts[n].id)
           stored == {r \in found : r.status \in Unpaid}
           step == IF found = {} THEN "ended" ELSE "stored"
           e == [attempts[n] EXCEPT !.step = step]
<1>1. /\ attempts' = [attempts EXCEPT ![n] = e]
      /\ rows' = (rows \ stored) \cup {[r EXCEPT !.xml = TRUE] : r \in stored}
      /\ UNCHANGED <<token, spared, officer, files, answered, job>>
  BY DEF StoreOutgoingPaymentXml
<1>2. Changes({})
  <2>1. stored \subseteq rows
    BY DEF Newest, Open
  <2>2. \A r \in rows : IsRow(r) /\ Same(r, r) /\ IsRow([r EXCEPT !.xml = TRUE]) /\ Same(r, [r EXCEPT !.xml = TRUE])
    BY RowFields DEF Inv, PaymentsInv, RowsInv, Same
  <2> HIDE DEF stored
  <2>3. ASSUME NEW s \in rows' PROVE IsRow(s) /\ \E r \in rows \cup {} : Same(r, s)
    <3>1. s \in rows \/ \E r \in stored : s = [r EXCEPT !.xml = TRUE]
      BY <1>1
    <3> QED BY <2>1, <2>2, <3>1
  <2>4. ASSUME NEW r \in rows PROVE \E s \in rows' : Same(r, s)
    <3>1. CASE r \in stored
      BY <1>1, <2>2, <3>1
    <3>2. CASE r \notin stored
      BY <1>1, <2>2, <3>2
    <3> QED BY <3>1, <3>2
  <2> QED BY <2>3, <2>4 DEF Changes
<1>3. RowsGoOn({})
  BY <1>2, RowsStay DEF RowsGoOn, Inv, PaymentsInv
<1>4. e \in AttemptType /\ e.app = attempts[n].app /\ e.phase = attempts[n].phase
  <2>1. attempts[n] \in AttemptType
    BY DEF Inv, PaymentsInv, AttemptsInv
  <2> HIDE DEF found
  <2> QED BY <2>1 DEF AttemptType
<1>5. AttemptsGrow
  <2> HIDE DEF e
  <2> QED BY <1>1, <1>4, AttemptGoesOn DEF Inv, PaymentsInv
<1> QED BY <1>1, <1>3, <1>5, OthersStep

LEMMA PutInvoiceStep ==
  ASSUME Inv, NEW n \in DOMAIN attempts, PutInvoice(n)
  PROVE  Inv'
<1>1. PICK put \in BOOLEAN, ok \in BOOLEAN :
        attempts' = [attempts EXCEPT ![n] =
                       [attempts[n] EXCEPT !.step = "ended", !.put = put, !.ok = ok]]
  BY DEF PutInvoice
<1> DEFINE e == [attempts[n] EXCEPT !.step = "ended", !.put = put, !.ok = ok]
<1>2. e \in AttemptType /\ e.app = attempts[n].app /\ e.phase = attempts[n].phase
  <2>1. attempts[n] \in AttemptType
    BY DEF Inv, PaymentsInv, AttemptsInv
  <2> QED BY <2>1 DEF AttemptType
<1>3. AttemptsGrow
  <2> HIDE DEF e
  <2> QED BY <1>1, <1>2, AttemptGoesOn DEF e, Inv, PaymentsInv, PutInvoice
<1>4. RowsGoOn({})
  BY RowsUntouched DEF Inv, PaymentsInv, PutInvoice
<1> QED BY <1>3, <1>4, OthersStep DEF PutInvoice

LEMMA PaidByRondoStep ==
  ASSUME Inv, NEW n \in DOMAIN attempts, PaidByRondo(n)
  PROVE  Inv'
<1>1. AttemptsGrow
  BY DEF Inv, PaymentsInv, AttemptsInv, AttemptsGrow, PaidByRondo
<1>2. RowsGoOn({})
  BY RowsUntouched DEF Inv, PaymentsInv, PaidByRondo
<1>3. answered' \ files' \subseteq answered \ files
  BY DEF PaidByRondo
<1> QED BY <1>1, <1>2, <1>3, OthersStep DEF PaidByRondo

\* Nothing that the invariant is about: a refusal, midnight, a step of nothing.
LEMMA OutsideStep ==
  ASSUME Inv, UNCHANGED <<rows, token, spared, officer, attempts, files, answered, job>>
  PROVE  Inv'
<1>1. AttemptsGrow /\ RowsGoOn({})
  BY AttemptsUntouched, RowsUntouched DEF Inv, PaymentsInv
<1> QED BY <1>1, OthersStep

\* A token is made: if a payment of the application is out, the history says so.
LEMMA CreateTokenStep ==
  ASSUME Inv, NEW a \in Apps, CreateApplicationToken(a)
  PROVE  Inv'
<1>1. /\ UNCHANGED <<rows, officer, attempts, files, answered, job>>
      /\ token' = token \cup {a} /\ spared \subseteq spared'
      /\ PaymentIsOut(a) => a \in spared'
  BY DEF CreateApplicationToken
<1>2. AttemptsGrow /\ RowsGoOn({})
  BY <1>1, AttemptsUntouched, RowsUntouched DEF Inv, PaymentsInv
<1>3. RowsInv' /\ Changes({}) /\ AttemptsInv'
  BY <1>2 DEF RowsGoOn, AttemptsGrow
<1>4. OfficersInv' /\ JobsInv'
  BY <1>1, <1>2, OfficersStay, JobsStay DEF Inv, PaymentsInv
<1>5. TokenEndsWithPayment'
  BY <1>1 DEF Inv, TokenEndsWithPayment, PaymentIsOut, At
<1>6. FeedbackIsKept'
  BY <1>1, <1>2, <1>3, FeedbackStays DEF Inv, PaymentsInv
<1> QED BY <1>3, <1>4, <1>5, <1>6 DEF Inv, PaymentsInv

\* A run of the job: it lists the files, looks a payment up, ends.
LEMMA JobQuietly ==
  ASSUME Inv, NEW j \in Jobs,
         \/ GetRemoteFileList(j) \/ AllFilesSeen(j) \/ JobFails(j)
         \/ \E n \in job[j].todo : FindPaymentsByResponse(j, n)
  PROVE  Inv'
<1> DEFINE x == job[j]
<1>0. JobOK(x) /\ files \subseteq answered /\ \A r \in rows : IsRow(r)
  BY DEF Inv, PaymentsInv, JobsInv, AttemptsInv, RowsInv
<1>1. ASSUME NEW y, JobOK(y), job' = [job EXCEPT ![j] = y],
             UNCHANGED <<rows, token, spared, attempts, files, answered, officer>>
      PROVE  Inv'
  BY <1>1, JobStep
<1>2. CASE GetRemoteFileList(j)
  <2>1. JobOK([x EXCEPT !.pc = "files", !.todo = files])
    <3> HIDE DEF x
    <3> QED BY <1>0 DEF JobOK
  <2> QED BY <1>1, <1>2, <2>1 DEF GetRemoteFileList
<1>3. CASE AllFilesSeen(j)
  BY <1>1, <1>3, IdleOK DEF AllFilesSeen, JobEnds
<1>4. CASE JobFails(j)
  BY <1>1, <1>4, IdleOK DEF JobFails, JobEnds
<1>5. CASE \E n \in x.todo : FindPaymentsByResponse(j, n)
  <2>1. PICK n \in x.todo : FindPaymentsByResponse(j, n)
    BY <1>5
  <2> DEFINE found == OfFile(n)
             p == CHOOSE r \in found : TRUE
             atDelete == [x EXCEPT !.pc = "delete", !.file = n]
             atUpdate == [x EXCEPT !.pc = "update", !.file = n, !.pay = p]
             seen == [x EXCEPT !.todo = x.todo \ {n}]
  <2>2. n \in answered /\ x.pc = "files" /\ UNCHANGED <<rows, token, spared, attempts, files, answered, officer>>
    BY <1>0, <2>1 DEF JobOK, FindPaymentsByResponse
  <2>3. \A r \in found : r \in rows /\ About(n, r)
    BY DEF OfFile, Open, About
  <2>4. AlreadyPaid(found) => JobOK(atDelete)
    <3>1. AlreadyPaid(found) => \E r \in rows : About(n, r) /\ r.status = "paid"
      BY <2>3 DEF AlreadyPaid
    <3> HIDE DEF x, found
    <3> QED BY <1>0, <2>2, <3>1 DEF JobOK
  <2>5. found # {} /\ MaySetPaid(p) => JobOK(atUpdate)
    <3> SUFFICES ASSUME found # {}, MaySetPaid(p) PROVE JobOK(atUpdate)
      OBVIOUS
    <3>1. p \in found
      <4> HIDE DEF found
      <4> QED OBVIOUS
    <3>2. /\ IsRow(p) /\ Known(p) /\ About(n, p)
          /\ \E r \in rows : r.app = p.app /\ r.status = "sent"
      <4> HIDE DEF p, found
      <4> QED BY <1>0, <2>3, <3>1 DEF MaySetPaid, Known
    <3> HIDE DEF x, p
    <3> QED BY <1>0, <2>2, <3>2 DEF JobOK
  <2>6. JobOK(seen)
    <3> HIDE DEF x
    <3> QED BY <1>0, <2>2 DEF JobOK
  <2>7. \/ JobEnds(j)
        \/ AlreadyPaid(found) /\ job' = [job EXCEPT ![j] = atDelete]
        \/ found # {} /\ MaySetPaid(p) /\ job' = [job EXCEPT ![j] = atUpdate]
        \/ job' = [job EXCEPT ![j] = seen]
    <3> HIDE DEF found, p
    <3> QED BY <2>1 DEF FindPaymentsByResponse, found, p
  <2>8. CASE JobEnds(j)
    BY <1>1, <2>2, <2>8, IdleOK DEF JobEnds
  <2>9. CASE ~ JobEnds(j)
    <3> HIDE DEF found, p, atDelete, atUpdate, seen
    <3> QED BY <1>1, <2>2, <2>4, <2>5, <2>6, <2>7, <2>9
  <2> QED BY <2>8, <2>9
<1> QED BY <1>2, <1>3, <1>4, <1>5

LEMMA UpdateByResponseStep ==
  ASSUME Inv, NEW j \in Jobs, UpdatePaymentstatusByResponse(j)
  PROVE  Inv'
<1> DEFINE x == job[j]
           p == x.pay
           q == [p EXCEPT !.status = "paid", !.user = "rondo"]
           y == [x EXCEPT !.pc = "delete", !.pay = Payment0]
<1>1. JobOK(x) /\ x.pc = "update"
  BY DEF Inv, PaymentsInv, JobsInv, UpdatePaymentstatusByResponse
<1>2. UNCHANGED <<token, spared, attempts, files, answered, officer>>
  BY DEF UpdatePaymentstatusByResponse
<1>3. CASE UpdateFails(p)
  BY <1>2, <1>3, IdleOK, JobStep DEF UpdatePaymentstatusByResponse, JobEnds
<1>4. CASE ~ UpdateFails(p)
  <2>1. UpdatePayment(q) /\ job' = [job EXCEPT ![j] = y]
    BY <1>4 DEF UpdatePaymentstatusByResponse
  <2>2. /\ IsRow(p) /\ Known(p) /\ About(x.file, p) /\ x.file \in answered
        /\ \E r \in rows : r.app = p.app /\ r.status = "sent"
    BY <1>1 DEF JobOK
  <2>3. Tells(q, p, "paid", "rondo")
    BY <2>2, Marked DEF Statuses, Users
  <2>4. IsRow(q) /\ Known(q) /\ About(x.file, q) /\ q.status = "paid" /\ q.app = p.app
    BY <2>2, <2>3 DEF Tells, Known, About
  <2> HIDE DEF q
  <2>5. RowsGoOn({q}) /\ Same(q, NewVersion(q)) /\ NewVersion(q) \in rows'
    BY <2>1, <2>4, RowsUpdated DEF Inv, PaymentsInv, UpdatePayment
  <2>6. AttemptsGrow
    BY <1>2, AttemptsUntouched DEF Inv, PaymentsInv
  <2>7. RowsInv' /\ Changes({q}) /\ AttemptsInv'
    BY <2>5, <2>6 DEF RowsGoOn, AttemptsGrow
  <2>8. PICK z : z = y
    OBVIOUS
  <2>9. z \in [pc : {z.pc}, todo : {z.todo}, file : {z.file}, pay : {z.pay}]
        /\ z.pc = "delete" /\ z.file = x.file /\ z.todo = x.todo
    <3> HIDE DEF x
    <3> QED BY <1>1, <2>8 DEF JobOK
  <2>10. JobOK(z)'
    <3>1. \E r \in rows' : About(z.file, r)' /\ r.status = "paid"
      <4>1. About(z.file, NewVersion(q)) /\ NewVersion(q).status = "paid"
        BY <2>4, <2>5, <2>9 DEF Same, About
      <4>2. PICK r : r = NewVersion(q)
        OBVIOUS
      <4> QED BY <1>2, <2>5, <4>1, <4>2 DEF About
    <3> QED BY <1>1, <1>2, <2>2, <2>9, <3>1 DEF JobOK
  <2>11. JobsInv' /\ OfficersInv'
    BY <1>2, <2>1, <2>5, <2>6, <2>8, <2>10, JobMoves, OfficersStay DEF Inv, PaymentsInv
  <2>12. TokenEndsWithPayment'
    BY <1>2, <2>2, <2>4, <2>7, TokenStays DEF Inv, At, Settled
  <2>13. FeedbackIsKept'
    BY <1>2, <2>2, <2>4, <2>6, <2>7, FeedbackStays DEF Inv, PaymentsInv
  <2> QED BY <2>7, <2>11, <2>12, <2>13 DEF Inv, PaymentsInv
<1> QED BY <1>3, <1>4

LEMMA DeleteRemoteFileStep ==
  ASSUME Inv, NEW j \in Jobs, DeleteRemoteFile(j)
  PROVE  Inv'
<1> DEFINE x == job[j]
           n == x.file
           y == [x EXCEPT !.pc = "files", !.file = 0, !.todo = x.todo \ {n}]
<1>1. JobOK(x) /\ x.pc = "delete"
  BY DEF Inv, PaymentsInv, JobsInv, DeleteRemoteFile
<1>2. /\ files' = files \ {n}
      /\ job' = [job EXCEPT ![j] = y] \/ job' = [job EXCEPT ![j] = IdleJob]
      /\ UNCHANGED <<rows, token, spared, attempts, answered, officer>>
  BY DEF DeleteRemoteFile, JobEnds
<1>3. JobOK(y)
  <2> HIDE DEF x, n
  <2> QED BY <1>1 DEF JobOK
<1>4. \E r \in rows : About(n, r) /\ r.status = "paid"
  BY <1>1 DEF JobOK
<1>5. files' \subseteq files /\ \A m \in files \ files' : \E r \in rows : About(m, r) /\ r.status = "paid"
  BY <1>2, <1>4
<1> HIDE DEF y
<1> QED BY <1>2, <1>3, <1>5, IdleOK, JobStep

\* The server is restarted: what it was between two transactions on is spared.
LEMMA CrashStep ==
  ASSUME Inv, Crash
  PROVE  Inv'
<1>1. RowsGoOn({})
  BY RowsUntouched DEF Inv, PaymentsInv, Crash
<1>2. AttemptsGrow
  <2> DEFINE cut(n) == [attempts[n] EXCEPT !.step = "ended", !.ok = FALSE]
  <2>1. \A n \in DOMAIN attempts :
          cut(n) \in AttemptType /\ cut(n).app = attempts[n].app /\ cut(n).phase = attempts[n].phase
    <3> SUFFICES ASSUME NEW n \in DOMAIN attempts
                 PROVE  cut(n) \in AttemptType /\ cut(n).app = attempts[n].app /\ cut(n).phase = attempts[n].phase
      OBVIOUS
    <3>1. attempts[n] \in AttemptType
      BY DEF Inv, PaymentsInv, AttemptsInv
    <3> QED BY <3>1 DEF AttemptType
  <2>2. attempts' = [n \in DOMAIN attempts |-> cut(n)] /\ UNCHANGED <<files, answered>>
    BY DEF Crash
  <2> HIDE DEF cut
  <2>3. DOMAIN attempts = 1..Len(attempts) /\ Len(attempts) \in Nat
    BY DEF Inv, PaymentsInv, AttemptsInv
  <2>4. attempts' \in [1..Len(attempts) -> AttemptType]
    BY <2>1, <2>2, <2>3
  <2>5. attempts' \in Seq(AttemptType) /\ DOMAIN attempts' = DOMAIN attempts
    BY <2>3, <2>4, SeqDef
  <2> QED BY <2>1, <2>2, <2>5 DEF AttemptsGrow, Inv, PaymentsInv, AttemptsInv
<1>3. RowsInv' /\ Changes({}) /\ AttemptsInv'
  BY <1>1, <1>2 DEF RowsGoOn, AttemptsGrow
<1>4. OfficersInv'
  <2>1. OfficerOK(IdleOfficer)'
    BY DEF OfficerOK, IdleOfficer
  <2>2. officer' = [o \in Officers |-> IdleOfficer]
    BY DEF Crash
  <2> QED BY <2>1, <2>2 DEF OfficersInv
<1>5. JobsInv'
  <2>1. JobOK(IdleJob)'
    BY DEF JobOK, IdleJob
  <2>2. job' = [j \in Jobs |-> IdleJob]
    BY DEF Crash
  <2> QED BY <2>1, <2>2 DEF JobsInv
<1>6. TokenEndsWithPayment'
  <2>1. \A o \in Officers : At(o, "revoke") => officer[o].app \in spared'
    BY DEF Crash
  <2>2. token' \subseteq token /\ spared \cap token' \subseteq spared'
    BY DEF Crash
  <2> QED BY <1>3, <2>1, <2>2, TokenStays DEF Inv
<1>7. FeedbackIsKept'
  BY <1>2, <1>3, FeedbackStays DEF Inv, PaymentsInv, Crash
<1> QED BY <1>3, <1>4, <1>5, <1>6, <1>7 DEF Inv, PaymentsInv

-----------------------------------------------------------------------------
(* The invariant *)

LEMMA InitInv == Init => Inv
<1> SUFFICES ASSUME Init PROVE Inv
  OBVIOUS
<1>1. RowsInv
  <2>1. Ids = 1..0
    BY DEF Init, Ids
  <2> QED BY <2>1 DEF Init, RowsInv
<1>2. AttemptsInv
  BY EmptySeq DEF Init, AttemptsInv
<1>3. OfficersInv
  BY IdleOK DEF Init, OfficersInv
<1>4. JobsInv
  BY IdleOK DEF Init, JobsInv
<1>5. TokenEndsWithPayment /\ FeedbackIsKept
  BY DEF Init, TokenEndsWithPayment, FeedbackIsKept, DeletedFeedbackWasApplied, FeedbackPaysItsOwn
<1> QED BY <1>1, <1>2, <1>3, <1>4, <1>5 DEF Inv, PaymentsInv

LEMMA StepInv == Inv /\ [Next]_vars => Inv'
<1> SUFFICES ASSUME Inv, [Next]_vars PROVE Inv'
  OBVIOUS
<1>1. ASSUME NEW o \in Officers, CreateGrantPayments(o) \/ FindBatches(o) \/ Serve(o) PROVE Inv'
  BY <1>1, CreateGrantPaymentsStep, OfficerQuietly, CreatePaymentStep, SendPaymentStep, MarkSentStep,
     SetPaymentPaidStep, RevokeStep DEF Serve
<1>2. ASSUME NEW a \in Apps, NEW phase \in Phases, AddPayment(a, phase) PROVE Inv'
  BY <1>2, AddPaymentStep
<1>3. ASSUME NEW id \in Ids, DeletePayment(id) PROVE Inv'
  BY <1>3, DeleteStep DEF DeletePayment
<1>4. CASE DeleteGrantPayments
  BY <1>4, DeleteStep DEF DeleteGrantPayments
<1>5. ASSUME NEW n \in DOMAIN attempts, StoreOutgoingPaymentXml(n) \/ PutInvoice(n) \/ PaidByRondo(n)
      PROVE  Inv'
  BY <1>5, StoreXmlStep, PutInvoiceStep, PaidByRondoStep
<1>6. ASSUME NEW j \in Jobs, RunJob(j) \/ JobFails(j) PROVE Inv'
  BY <1>6, JobQuietly, UpdateByResponseStep, DeleteRemoteFileStep DEF RunJob
<1>7. ASSUME NEW a \in Apps, CreateApplicationToken(a) \/ Refuse(a) PROVE Inv'
  BY <1>7, CreateTokenStep, OutsideStep DEF Refuse
<1>8. CASE Midnight
  BY <1>8, OutsideStep DEF Midnight
<1>9. CASE Crash
  BY <1>9, CrashStep
<1>10. CASE UNCHANGED vars
  BY <1>10, OutsideStep DEF vars
<1> QED BY <1>1, <1>2, <1>3, <1>4, <1>5, <1>6, <1>7, <1>8, <1>9, <1>10 DEF Next

THEOREM Invariance == Spec => []Inv
BY InitInv, StepInv, PTL DEF Spec

\* With a payment of it sent or paid an application can be refused no more, but for the moment
\* between the two transactions of marking (send-payments, set-payments-paid) and revoking, for a
\* crash in it, and for a token that create-application-token made after the payment.
THEOREM TokenEnds == Spec => []TokenEndsWithPayment
<1>1. Inv => TokenEndsWithPayment
  BY DEF Inv
<1> QED BY <1>1, Invariance, PTL

\* What a feedback file says is applied to the payment it is about before the file is deleted
\* (pop-remote-files), with any number of runs of the job, crashes, deletions and late attempts.
THEOREM FeedbackKept == Spec => []FeedbackIsKept
<1>1. Inv => FeedbackIsKept
  BY DEF Inv
<1> QED BY <1>1, Invariance, PTL

-----------------------------------------------------------------------------
(* A payment goes out once                                                   *)

IsSettled(id) == \E r \in rows : r.id = id /\ r.status \in Settled

\* A request that sends or marks payments, its batch made.
Active == {"batch", "loop", "wait", "mark", "revoke"}

MoreJobs == Cardinality(Jobs) > 1

\* Two versions are allowed side by side only if two runs of the job wrote them.
ByJobs(r, s) == MoreJobs /\ r.user = "rondo" /\ s.user = "rondo"

Numbered(p) == p.ver \in Nat /\ p.batch \in 0..Len(batches)

SameKey(r, s) == r.id = s.id /\ r.ver = s.ver

\* The primary key, and what is never deleted.
VersionsInv ==
  /\ \A r \in rows : Numbered(r)
  /\ \E m \in Nat : \A r \in rows : r.ver <= m
  /\ \A r, s \in rows : SameKey(r, s) => r = s
  /\ \A r \in rows : (r.deleted => r.status \notin Settled) /\ (r.user = "rondo" => r.status = "paid")

\* What the rows say of the payment service.
RowsD ==
  /\ \A r \in rows : r.status = "sent" => \E n \in DOMAIN attempts : attempts[n].id = r.id /\ attempts[n].put
  /\ \A r \in rows : r.status = "paid" /\ r.user = "rondo" =>
       \E s \in rows : s.id = r.id /\ s.status = "sent" /\ s.ver < r.ver

AttemptD(a) == (a.ok => a.put) /\ (a.put => a.step = "ended") /\ (a.confirmed => IsSettled(a.id))
AttemptsD == \A n \in DOMAIN attempts : AttemptD(attempts[n])

\* A request works in its batch, which was made today; the payment it waits for or marks is
\* the one its attempt is about.
OfficerD(x) ==
  /\ x.batch \in 0..Len(batches) /\ x.n \in 0..Len(attempts)
  /\ x.pc \in Active => x.batch # 0 /\ batches[x.batch] = day
  /\ x.pc = "checked" => x.list = {}
  /\ \A p \in x.list : Numbered(p)
  /\ x.pc = "wait" => Numbered(x.pay) /\ x.n # 0 /\ attempts[x.n].id = x.pay.id
  /\ x.pc = "mark" /\ x.pay # Payment0 =>
       Numbered(x.pay) /\ x.n # 0 /\ attempts[x.n].id = x.pay.id /\ attempts[x.n].put

\* Each request has a batch of its own.
Turns ==
  \A o, q \in Officers :
    officer[o].pc \in Active /\ officer[q].pc \in Active /\ officer[o].batch = officer[q].batch => o = q

\* The job is about to pay a version that was sent.
JobD(x) ==
  x.pc = "update" =>
    \E s \in rows : SameKey(s, x.pay) /\ s.status = "sent" /\ x.pay.status = "sent" /\ s.batch = x.pay.batch

OfficersD == \A o \in Officers : OfficerD(officer[o])
JobsD == \A j \in Jobs : JobD(job[j])

\* With one request sending at a time: how the versions of a payment follow one another.
RowsN ==
  /\ \A r, s \in rows : r.id = s.id /\ r.status = "sent" /\ s.status = "sent" => r = s
  /\ \A r, s \in rows : r.id = s.id /\ r.status = "paid" /\ s.status = "sent" => s.closed
  /\ \A r \in Open : r.status \in Unpaid => ~ IsSettled(r.id)
  /\ \A r, s \in Open : r.id = s.id => r = s \/ ByJobs(r, s)
  /\ \A r, s \in rows : r.id = s.id /\ r.status = "paid" /\ s.status = "paid" => r = s \/ ByJobs(r, s)
  /\ \A r \in rows : r.status = "sent" => r.xml /\ r.batch # 0

AttemptsN ==
  \A m, n \in DOMAIN attempts : attempts[m].id = attempts[n].id /\ attempts[m].confirmed => n <= m

\* A payment in the hands of a request: no version but this one is open, none settled.
InHand(p) == ~ IsSettled(p.id) /\ \A r \in Open : r.id = p.id => r.ver = p.ver

\* The version an attempt was made for stays open until it is deleted, and gets the invoice
\* the attempt stores.
AwaitsInvoice(p, n) ==
  \A r \in rows : SameKey(r, p) =>
    /\ ~ r.closed /\ r.status \in Unpaid /\ r.batch # 0
    /\ r.deleted \/ r.xml \/ attempts[n].step = "started"

OfficerN(x) ==
  x.pc \in Active =>
    /\ \A p \in x.list : InHand(p)
    /\ \A p, q \in x.list : p.id = q.id => p = q
    /\ x.pc \in {"wait", "mark"} => x.n = Len(attempts)
    /\ x.pc = "wait" \/ (x.pc = "mark" /\ x.pay # Payment0) =>
         InHand(x.pay) /\ \A p \in x.list : p.id # x.pay.id
    /\ x.pc = "wait" => AwaitsInvoice(x.pay, x.n)
    /\ x.pc = "mark" /\ x.pay # Payment0 => x.pay.xml /\ x.pay.batch # 0

JobN(x) == x.pc = "update" => \A r \in rows : r.id = x.pay.id /\ r.status = "paid" => MoreJobs /\ r.user = "rondo"

OfficersN == \A o \in Officers : OfficerN(officer[o])
JobsN == \A j \in Jobs : JobN(job[j])

BatchesInv == batches \in Seq(Nat) /\ day \in Nat

DeliveryInv == RowsD /\ AttemptsD /\ OfficersD /\ Turns /\ JobsD /\ BatchesInv
SenderInv == NoDuplicateBatch => RowsN /\ AttemptsN /\ OfficersN /\ JobsN

OnceInv == VersionsInv /\ DeliveryInv /\ SenderInv

-----------------------------------------------------------------------------
(* The next version *)

LEMMA NatMax ==
  ASSUME NEW T, T \subseteq Nat, T # {}, NEW m \in Nat, \A t \in T : t <= m
  PROVE  \E t \in T : \A u \in T : u <= t
<1> DEFINE D == {m - t : t \in T}
<1>1. D \subseteq Nat /\ D # {}
  <2>1. \A t \in T : m - t \in Nat
    OBVIOUS
  <2> QED BY <2>1
<1>2. IsWellFoundedOn(OpToRel(<, Nat), Nat)
  BY NatLessThanWellFounded
<1>3. \E d \in D : \A e \in D : ~ (<<e, d>> \in OpToRel(<, Nat))
  BY <1>1, <1>2, WFMin
<1>4. PICK d \in D : \A e \in D : ~ (<<e, d>> \in OpToRel(<, Nat))
  BY <1>3
<1>5. \A e \in D : ~ (e < d)
  <2>1. OpToRel(<, Nat) = {p \in Nat \X Nat : p[1] < p[2]}
    BY Zenon DEF OpToRel
  <2>2. \A e \in D : <<e, d>> \notin {p \in Nat \X Nat : p[1] < p[2]}
    BY <1>4, <2>1, Zenon
  <2> QED BY <1>1, <2>2
<1>6. PICK t \in T : d = m - t
  BY <1>4
<1>7. \A u \in T : u <= t
  <2> SUFFICES ASSUME NEW u \in T PROVE u <= t
    OBVIOUS
  <2>1. m - u \in D
    OBVIOUS
  <2>2. ~ (m - u < m - t)
    BY <2>1, <1>5, <1>6
  <2>3. t \in Nat /\ u \in Nat
    OBVIOUS
  <2> QED BY ONLY <2>2, <2>3, m \in Nat
<1> QED BY <1>7

LEMMA NextVersionFollows ==
  ASSUME RowsInv, VersionsInv, NEW id
  PROVE  /\ NextVersion(id) \in Nat
         /\ \A r \in rows : r.id = id /\ ~ r.deleted => r.ver < NextVersion(id)
<1> DEFINE used == {0} \cup {r.ver : r \in {s \in rows : s.id = id /\ ~ s.deleted}}
<1>1. used \subseteq Nat /\ used # {}
  BY DEF VersionsInv, Numbered
<1>2. PICK m \in Nat : \A r \in rows : r.ver <= m
  BY DEF VersionsInv
<1>3. \A t \in used : t <= m
  BY <1>2
<1>4. PICK t \in used : \A u \in used : u <= t
  <2> HIDE DEF used
  <2> QED BY <1>1, <1>3, NatMax
<1>5. t + 1 \in {u + 1 : u \in used} /\ \A u \in used : u < t + 1
  <2> HIDE DEF used
  <2> QED BY <1>1, <1>4
<1> DEFINE v == CHOOSE v \in {u + 1 : u \in used} : \A u \in used : u < v
<1>6. v \in {u + 1 : u \in used} /\ \A u \in used : u < v
  <2> HIDE DEF used
  <2> QED BY <1>5
<1>7. v \in Nat
  <2> HIDE DEF used, v
  <2> QED BY <1>1, <1>6
<1>8. NextVersion(id) = v
  BY DEF NextVersion
<1>9. \A r \in rows : r.id = id /\ ~ r.deleted => r.ver \in used
  OBVIOUS
<1> HIDE DEF used, v
<1> QED BY <1>6, <1>7, <1>8, <1>9

-----------------------------------------------------------------------------
(* What a step does to the versions *)

\* A version after a step: deleted only if it was not settled.
Kin(r, s) ==
  /\ Same(r, s) /\ s.ver = r.ver /\ s.batch = r.batch
  /\ r.closed => s.closed
  /\ r.xml => s.xml
  /\ r.deleted => s.deleted
  /\ s.deleted => r.deleted \/ r.status \notin Settled

\* A version that is inserted.
Inserted(q) ==
  /\ q.ver \in Nat /\ q.batch \in 0..Len(batches) /\ \A r \in rows : ~ SameKey(r, q)
  /\ ~ q.closed /\ ~ q.deleted
  /\ q.user = "rondo" => q.status = "paid"

\* The versions go on as f says, and at most one, in P, is inserted.
Moves(f, P) ==
  /\ rows' = {f[r] : r \in rows} \cup P
  /\ \A r \in rows : Kin(r, f[r]) /\ (f[r].closed => r.closed \/ \E q \in P : q.id = r.id)
  /\ \A p, q \in P : p = q
  /\ \A q \in P : Inserted(q)

\* Every version is still there, and the others are those of P.
Kept == \A r \in rows : \E s \in rows' : Kin(r, s)
Told(P) ==
  \A s \in rows' :
    s \in P \/ \E r \in rows : Kin(r, s) /\ (s.closed => r.closed \/ \E q \in P : q.id = r.id)

\* P is what a step inserts into the versions.
Grows(P) == VersionsInv' /\ Kept /\ Told(P) /\ P \subseteq rows' /\ \A q \in P : Inserted(q)

BatchesGrow ==
  /\ batches' \in Seq(Nat) /\ Len(batches) <= Len(batches')
  /\ \A b \in DOMAIN batches : b \in DOMAIN batches' /\ batches'[b] = batches[b]

LEMMA MovesGrow ==
  ASSUME RowsInv, VersionsInv, BatchesInv, BatchesGrow, NEW f, NEW P, Moves(f, P)
  PROVE  Grows(P)
<1>1. /\ rows' = {f[r] : r \in rows} \cup P
      /\ \A r \in rows : Kin(r, f[r]) /\ (f[r].closed => r.closed \/ \E q \in P : q.id = r.id)
      /\ \A p, q \in P : p = q
      /\ \A q \in P : Inserted(q)
  BY DEF Moves
<1>2. \A s \in rows' : s \in P \/ \E r \in rows : s = f[r]
  BY <1>1
<1>3. Kept
  BY <1>1 DEF Kept
<1>4. Told(P)
  BY <1>1, <1>2 DEF Told
<1>5. Len(batches) \in Nat /\ Len(batches') \in Nat /\ Len(batches) <= Len(batches')
  BY DEF BatchesInv, BatchesGrow
<1>6. \A s \in rows' : s.ver \in Nat /\ s.batch \in 0..Len(batches')
  <2>1. \A s \in rows' : s.ver \in Nat /\ s.batch \in 0..Len(batches)
    BY <1>1, <1>2 DEF VersionsInv, Numbered, Kin, Inserted
  <2> QED BY <2>1, <1>5
<1>7. \E m \in Nat : \A s \in rows' : s.ver <= m
  <2>1. PICK m \in Nat : \A r \in rows : r.ver <= m
    BY DEF VersionsInv
  <2>2. \A r \in rows : r.ver \in Nat
    BY DEF VersionsInv, Numbered
  <2>3. CASE P = {}
    <3>1. \A s \in rows' : s.ver <= m
      BY <1>1, <1>2, <2>1, <2>3 DEF Kin
    <3> QED BY <3>1
  <2>4. CASE P # {}
    <3>1. PICK q \in P : Inserted(q)
      BY <1>1, <2>4
    <3>2. q.ver \in Nat /\ P = {q}
      BY <1>1, <3>1 DEF Inserted
    <3>3. \A s \in rows' : s.ver = q.ver \/ \E r \in rows : s.ver = r.ver
      BY <1>1, <1>2, <3>2 DEF Kin
    <3>4. \A s \in rows' : s.ver <= m + q.ver
      BY <2>1, <2>2, <3>2, <3>3
    <3>5. m + q.ver \in Nat
      BY <3>2
    <3> QED BY <3>4, <3>5
  <2> QED BY <2>3, <2>4
<1>8. \A s, t \in rows' : SameKey(s, t) => s = t
  <2> SUFFICES ASSUME NEW s \in rows', NEW t \in rows', SameKey(s, t) PROVE s = t
    OBVIOUS
  <2>1. CASE s \in P /\ t \in P
    BY <1>1, <2>1
  <2>2. CASE s \in P /\ t \notin P
    BY <1>1, <1>2, <2>2 DEF Inserted, SameKey, Kin, Same
  <2>3. CASE s \notin P /\ t \in P
    BY <1>1, <1>2, <2>3 DEF Inserted, SameKey, Kin, Same
  <2>4. CASE s \notin P /\ t \notin P
    <3>1. PICK r \in rows : s = f[r]
      BY <1>2, <2>4
    <3>2. PICK u \in rows : t = f[u]
      BY <1>2, <2>4
    <3>3. SameKey(r, u)
      BY <1>1, <3>1, <3>2 DEF SameKey, Kin, Same
    <3> QED BY <3>1, <3>2, <3>3 DEF VersionsInv
  <2> QED BY <2>1, <2>2, <2>3, <2>4
<1>9. \A s \in rows' : (s.deleted => s.status \notin Settled) /\ (s.user = "rondo" => s.status = "paid")
  <2> SUFFICES ASSUME NEW s \in rows'
               PROVE  (s.deleted => s.status \notin Settled) /\ (s.user = "rondo" => s.status = "paid")
    OBVIOUS
  <2>1. CASE s \in P
    BY <1>1, <2>1 DEF Inserted
  <2>2. CASE s \notin P
    <3>1. PICK r \in rows : Kin(r, s)
      BY <1>1, <1>2, <2>2
    <3> QED BY <3>1 DEF VersionsInv, Kin, Same
  <2> QED BY <2>1, <2>2
<1>10. VersionsInv'
  BY <1>6, <1>7, <1>8, <1>9 DEF VersionsInv, Numbered, SameKey
<1> QED BY <1>1, <1>3, <1>4, <1>10 DEF Grows

LEMMA KinFields ==
  ASSUME NEW r, IsRow(r)
  PROVE  /\ Kin(r, r)
         /\ Kin(r, [r EXCEPT !.closed = TRUE])
         /\ r.status \notin Settled => Kin(r, [r EXCEPT !.deleted = TRUE])
         /\ Kin(r, [r EXCEPT !.xml = TRUE])
         /\ [r EXCEPT !.closed = TRUE].closed
         /\ [r EXCEPT !.deleted = TRUE].closed = r.closed
         /\ [r EXCEPT !.xml = TRUE].closed = r.closed /\ [r EXCEPT !.xml = TRUE].xml
<1>1. Kin(r, r)
  BY DEF Kin, Same
<1>2. Kin(r, [r EXCEPT !.closed = TRUE]) /\ [r EXCEPT !.closed = TRUE].closed
  BY DEF IsRow, Kin, Same
<1>3. /\ r.status \notin Settled => Kin(r, [r EXCEPT !.deleted = TRUE])
      /\ [r EXCEPT !.deleted = TRUE].closed = r.closed
  BY DEF IsRow, Kin, Same
<1>4. /\ Kin(r, [r EXCEPT !.xml = TRUE]) /\ [r EXCEPT !.xml = TRUE].xml
      /\ [r EXCEPT !.xml = TRUE].closed = r.closed
  BY DEF IsRow, Kin, Same
<1> QED BY <1>1, <1>2, <1>3, <1>4

LEMMA QuietlyGrow ==
  ASSUME RowsInv, VersionsInv, BatchesInv, BatchesGrow, rows' = rows
  PROVE  Grows({})
<1> DEFINE f == [r \in rows |-> r]
<1>1. Moves(f, {})
  BY KinFields DEF Moves, RowsInv
<1> HIDE DEF f
<1> QED BY <1>1, MovesGrow

\* Update: the version given is closed, the next one inserted; what the payment is told to be
\* is what the caller gives.
Updates(p, q) ==
  /\ Grows({q})
  /\ Same(p, q) /\ q.batch = p.batch /\ q.xml = p.xml
  /\ \A r \in rows : r.id = p.id /\ ~ r.deleted => r.ver < q.ver
  /\ \A s \in rows' : s = q \/ (SameKey(s, p) => s.closed \/ s.deleted)

LEMMA UpdateGrows ==
  ASSUME RowsInv, VersionsInv, BatchesInv, BatchesGrow, NEW p, IsRow(p), UpdatePayment(p), ~ UpdateFails(p),
         p.batch \in 0..Len(batches), p.user = "rondo" => p.status = "paid"
  PROVE  Updates(p, NewVersion(p))
<1> DEFINE q == NewVersion(p)
           g(r) == IF r.id = p.id /\ r.ver = p.ver /\ ~ r.deleted THEN [r EXCEPT !.closed = TRUE] ELSE r
           f == [r \in rows |-> g(r)]
<1>1. /\ NextVersion(p.id) \in Nat
      /\ \A r \in rows : r.id = p.id /\ ~ r.deleted => r.ver < NextVersion(p.id)
  BY NextVersionFollows
<1>2. q.ver = NextVersion(p.id) /\ q.batch = p.batch /\ q.xml = p.xml /\ ~ q.closed /\ ~ q.deleted
  BY DEF NewVersion, IsRow
<1>3. Same(p, q)
  BY RowFields DEF NewVersion
<1>4. \A r \in rows : ~ SameKey(r, q)
  BY <1>2, <1>3 DEF UpdateFails, SameKey, Same
<1>5. Inserted(q)
  <2> HIDE DEF q
  <2> QED BY <1>1, <1>2, <1>3, <1>4 DEF Inserted, Same
<1>6. rows' = {f[r] : r \in rows} \cup {q}
  BY DEF UpdatePayment, CloseVersion
<1>7. \A r \in rows : Kin(r, g(r)) /\ (g(r).closed => r.closed \/ r.id = p.id)
  BY KinFields DEF RowsInv
<1>8. \A r \in rows : f[r] = g(r)
  OBVIOUS
<1>9. Moves(f, {q})
  <2> HIDE DEF q, g, f
  <2> QED BY <1>3, <1>5, <1>6, <1>7, <1>8 DEF Moves, Same
<1>10. Grows({q})
  <2> HIDE DEF q, f
  <2> QED BY <1>9, MovesGrow
<1>11. \A s \in rows' : s = q \/ (SameKey(s, p) => s.closed \/ s.deleted)
  <2> SUFFICES ASSUME NEW s \in rows', s # q, SameKey(s, p), ~ s.deleted PROVE s.closed
    OBVIOUS
  <2>1. PICK r \in rows : s = g(r)
    BY <1>6
  <2>2. Kin(r, s) /\ IsRow(r)
    BY <1>7, <2>1 DEF RowsInv
  <2>3. r.id = p.id /\ r.ver = p.ver /\ ~ r.deleted
    BY <2>2 DEF Kin, Same, SameKey
  <2>4. s = [r EXCEPT !.closed = TRUE]
    BY <2>1, <2>3
  <2> QED BY <2>2, <2>4, KinFields
<1> QED BY <1>1, <1>2, <1>3, <1>10, <1>11 DEF Updates

\* A new payment is a payment nobody knows.
LEMMA NewPaymentGrows ==
  ASSUME RowsInv, VersionsInv, BatchesInv, BatchesGrow, NEW a \in Apps, NEW phase \in Phases,
         NEW status \in Unpaid, StorePayment(a, phase, status)
  PROVE  \E q : Grows({q}) /\ q.status = status /\ q.user = "officer" /\ \A r \in rows : r.id # q.id
<1> DEFINE q == [id |-> Cardinality(Ids) + 1, ver |-> 0, app |-> a, phase |-> phase,
                 status |-> status, batch |-> 0, xml |-> FALSE, user |-> "officer",
                 closed |-> FALSE, deleted |-> FALSE]
           f == [r \in rows |-> r]
<1>1. PICK k \in Nat : Ids = 1..k
  BY DEF RowsInv
<1>2. Cardinality(Ids) = k
  BY <1>1, FS_Interval
<1>3. \A r \in rows : r.id # q.id
  BY <1>1, <1>2 DEF Ids
<1>4. q.ver = 0 /\ q.batch = 0 /\ ~ q.closed /\ ~ q.deleted /\ q.user = "officer" /\ q.status = status
  OBVIOUS
<1>5. Len(batches) \in Nat
  BY DEF BatchesInv
<1>6. rows' = rows \cup {q}
  BY DEF StorePayment
<1> HIDE DEF q
<1>7. Inserted(q)
  BY <1>3, <1>4, <1>5 DEF Inserted, SameKey
<1>8. Moves(f, {q})
  BY <1>6, <1>7, KinFields DEF Moves, RowsInv
<1> HIDE DEF f
<1> QED BY <1>3, <1>4, <1>8, MovesGrow

LEMMA DeleteGrows ==
  ASSUME RowsInv, VersionsInv, BatchesInv, BatchesGrow, NEW doomed, Delete(doomed),
         \A r \in doomed : r.status \in Unpaid
  PROVE  Grows({})
<1> DEFINE g(r) == IF r \in doomed THEN [r EXCEPT !.deleted = TRUE] ELSE r
           f == [r \in rows |-> g(r)]
<1>1. \A r \in rows : Kin(r, g(r)) /\ g(r).closed = r.closed
  BY KinFields DEF RowsInv, Settled, Unpaid
<1>2. rows' = {f[r] : r \in rows} \cup {}
  BY DEF Delete
<1>3. \A r \in rows : f[r] = g(r)
  OBVIOUS
<1>4. Moves(f, {})
  <2> HIDE DEF g, f
  <2> QED BY <1>1, <1>2, <1>3 DEF Moves
<1> HIDE DEF f
<1> QED BY <1>4, MovesGrow

\* The invoice is stored with the current versions.
LEMMA XmlGrows ==
  ASSUME RowsInv, VersionsInv, BatchesInv, BatchesGrow, NEW stored, stored \subseteq rows,
         rows' = (rows \ stored) \cup {[r EXCEPT !.xml = TRUE] : r \in stored}
  PROVE  /\ Grows({})
         /\ \A s \in rows' : \A r \in stored : SameKey(r, s) => s.xml
<1> DEFINE g(r) == IF r \in stored THEN [r EXCEPT !.xml = TRUE] ELSE r
           f == [r \in rows |-> g(r)]
<1>1. \A r \in rows : Kin(r, g(r)) /\ g(r).closed = r.closed /\ (r \in stored => g(r).xml)
  BY KinFields DEF RowsInv
<1>2. rows' = {f[r] : r \in rows} \cup {}
  OBVIOUS
<1>3. \A r \in rows : f[r] = g(r)
  OBVIOUS
<1>4. Moves(f, {})
  <2> HIDE DEF g, f
  <2> QED BY <1>1, <1>2, <1>3 DEF Moves
<1>5. Grows({})
  <2> HIDE DEF f
  <2> QED BY <1>4, MovesGrow
<1>6. \A s \in rows' : \A r \in stored : SameKey(r, s) => s.xml
  <2> SUFFICES ASSUME NEW s \in rows', NEW r \in stored, SameKey(r, s) PROVE s.xml
    OBVIOUS
  <2>1. PICK u \in rows : s = g(u)
    BY <1>2, <1>3
  <2>2. SameKey(r, u)
    BY <1>1, <2>1 DEF SameKey, Kin, Same
  <2>3. r = u
    BY <2>2 DEF VersionsInv
  <2> HIDE DEF g
  <2> QED BY <1>1, <2>1, <2>3
<1> QED BY <1>5, <1>6

-----------------------------------------------------------------------------
(* What goes on while others write *)

\* Attempts are about the payment they were made for, and what was put stays put.
AttemptsGo ==
  /\ attempts' \in Seq(AttemptType) /\ Len(attempts) <= Len(attempts')
  /\ \A n \in DOMAIN attempts :
       n \in DOMAIN attempts' /\ attempts'[n].id = attempts[n].id /\ (attempts[n].put => attempts'[n].put)

LEMMA SettledStays ==
  ASSUME Kept, NEW id, IsSettled(id)
  PROVE  IsSettled(id)'
BY DEF Kept, IsSettled, Kin, Same

\* Settled now: before, or by what was inserted.
LEMMA SettledBy ==
  ASSUME NEW P, Told(P), NEW id, IsSettled(id)', ~ IsSettled(id)
  PROVE  \E q \in P : q.id = id /\ q.status \in Settled
BY DEF Told, IsSettled, Kin, Same

\* Open now: open before, and not of a payment that was written, or closed by nobody.
LEMMA OpenBefore ==
  ASSUME NEW P, Told(P), NEW s \in Open'
  PROVE  s \in P \/ \E r \in Open : Kin(r, s)
<1>1. s \in rows' /\ ~ s.closed /\ ~ s.deleted
  BY DEF Open
<1>2. CASE s \in P
  BY <1>2
<1>3. CASE \E r \in rows : Kin(r, s)
  <2>1. PICK r \in rows : Kin(r, s)
    BY <1>3
  <2>2. r \in Open
    BY <1>1, <2>1 DEF Open, Kin
  <2> QED BY <2>1, <2>2
<1> QED BY <1>1, <1>2, <1>3 DEF Told

LEMMA InHandStays ==
  ASSUME NEW P, Told(P), NEW p, InHand(p), \A q \in P : q.id # p.id
  PROVE  InHand(p)'
<1>1. ~ IsSettled(p.id)'
  BY SettledBy DEF InHand
<1>2. ASSUME NEW s \in Open', s.id = p.id PROVE s.ver = p.ver
  <2>1. PICK r \in Open : Kin(r, s)
    BY <1>2, OpenBefore
  <2> QED BY <1>2, <2>1 DEF InHand, Kin, Same
<1> QED BY <1>1, <1>2 DEF InHand

\* The version a request waits for stays as it is while nobody writes its payment and its
\* attempt has not read it yet.
LEMMA AwaitsStays ==
  ASSUME NEW P, Told(P), NEW p, NEW n, AwaitsInvoice(p, n), \A q \in P : q.id # p.id,
         attempts[n].step = "started" => attempts'[n].step = "started"
  PROVE  AwaitsInvoice(p, n)'
<1> SUFFICES ASSUME NEW s \in rows', SameKey(s, p)
             PROVE  /\ ~ s.closed /\ s.status \in Unpaid /\ s.batch # 0
                    /\ s.deleted \/ s.xml \/ attempts'[n].step = "started"
  BY DEF AwaitsInvoice, SameKey
<1>1. s \notin P
  BY DEF SameKey
<1>2. PICK r \in rows : Kin(r, s) /\ (s.closed => r.closed \/ \E q \in P : q.id = r.id)
  BY <1>1 DEF Told
<1>3. SameKey(r, p) /\ r.id = p.id
  BY <1>2 DEF Kin, Same, SameKey
<1>4. /\ ~ r.closed /\ r.status \in Unpaid /\ r.batch # 0
      /\ r.deleted \/ r.xml \/ attempts[n].step = "started"
  BY <1>3 DEF AwaitsInvoice
<1>5. ~ s.closed
  BY <1>2, <1>3, <1>4
<1>6. s.status \in Unpaid /\ s.batch # 0
  BY <1>2, <1>4 DEF Kin, Same
<1>7. s.deleted \/ s.xml \/ attempts'[n].step = "started"
  BY <1>2, <1>4 DEF Kin
<1> QED BY <1>5, <1>6, <1>7

LEMMA NumberedStays ==
  ASSUME BatchesInv, BatchesGrow, NEW p, Numbered(p)
  PROVE  Numbered(p)'
<1>1. Len(batches) \in Nat /\ Len(batches') \in Nat
  BY DEF BatchesInv, BatchesGrow
<1> QED BY <1>1 DEF Numbered, BatchesGrow

LEMMA OfficerDStays ==
  ASSUME BatchesInv, BatchesGrow, AttemptsInv, AttemptsGo, NEW x, OfficerD(x), x.pc \in Active => day' = day
  PROVE  OfficerD(x)'
<1>1. /\ Len(batches) \in Nat /\ Len(batches') \in Nat /\ Len(batches) <= Len(batches')
      /\ DOMAIN batches = 1..Len(batches)
      /\ \A b \in DOMAIN batches : batches'[b] = batches[b]
  BY DEF BatchesInv, BatchesGrow
<1>2. /\ Len(attempts) \in Nat /\ Len(attempts') \in Nat /\ Len(attempts) <= Len(attempts')
      /\ DOMAIN attempts = 1..Len(attempts)
      /\ \A n \in DOMAIN attempts : attempts'[n].id = attempts[n].id /\ (attempts[n].put => attempts'[n].put)
  BY DEF AttemptsInv, AttemptsGo
<1>3. x.batch \in 0..Len(batches') /\ x.n \in 0..Len(attempts')
  BY <1>1, <1>2 DEF OfficerD
<1>4. x.pc \in Active => x.batch # 0 /\ batches'[x.batch] = day'
  <2> SUFFICES ASSUME x.pc \in Active PROVE x.batch # 0 /\ batches'[x.batch] = day'
    OBVIOUS
  <2>1. x.batch \in 0..Len(batches) /\ x.batch # 0 /\ batches[x.batch] = day /\ day' = day
    BY DEF OfficerD
  <2>2. x.batch \in DOMAIN batches
    BY <1>1, <2>1
  <2> QED BY <1>1, <2>1, <2>2
<1>5. \A p : Numbered(p) => Numbered(p)'
  BY NumberedStays
<1>6. \A n \in 0..Len(attempts) : n # 0 => n \in DOMAIN attempts
  BY <1>2
<1>7. x.pc = "wait" => Numbered(x.pay)' /\ x.n # 0 /\ attempts'[x.n].id = x.pay.id
  BY <1>2, <1>5, <1>6 DEF OfficerD
<1>8. x.pc = "mark" /\ x.pay # Payment0 =>
        Numbered(x.pay)' /\ x.n # 0 /\ attempts'[x.n].id = x.pay.id /\ attempts'[x.n].put
  BY <1>2, <1>5, <1>6 DEF OfficerD
<1>9. \A p \in x.list : Numbered(p)'
  BY <1>5 DEF OfficerD
<1> QED BY <1>3, <1>4, <1>7, <1>8, <1>9 DEF OfficerD, Numbered

\* No payment of P is in the hands of a request.
Apart(P, x) ==
  x.pc \in Active =>
    \A q \in P :
      /\ \A p \in x.list : q.id # p.id
      /\ x.pc = "wait" \/ (x.pc = "mark" /\ x.pay # Payment0) => q.id # x.pay.id

LEMMA OfficerNGoesOn ==
  ASSUME NEW P, Told(P), NEW x, OfficerN(x), Apart(P, x), Len(attempts') = Len(attempts),
         x.pc = "wait" => AwaitsInvoice(x.pay, x.n)'
  PROVE  OfficerN(x)'
<1> SUFFICES ASSUME x.pc \in Active
             PROVE  /\ \A p \in x.list : InHand(p)'
                    /\ \A p, q \in x.list : p.id = q.id => p = q
                    /\ x.pc \in {"wait", "mark"} => x.n = Len(attempts')
                    /\ x.pc = "wait" \/ (x.pc = "mark" /\ x.pay # Payment0) =>
                         InHand(x.pay)' /\ \A p \in x.list : p.id # x.pay.id
                    /\ x.pc = "wait" => AwaitsInvoice(x.pay, x.n)'
                    /\ x.pc = "mark" /\ x.pay # Payment0 => x.pay.xml /\ x.pay.batch # 0
  BY DEF OfficerN, InHand, IsSettled, Open, AwaitsInvoice
<1>1. \A p \in x.list : InHand(p)'
  BY InHandStays DEF OfficerN, Apart
<1>2. x.pc = "wait" \/ (x.pc = "mark" /\ x.pay # Payment0) => InHand(x.pay)'
  BY InHandStays DEF OfficerN, Apart
<1> QED BY <1>1, <1>2 DEF OfficerN

LEMMA OfficerNStays ==
  ASSUME NEW P, Told(P), NEW x, OfficerN(x), Apart(P, x), Len(attempts') = Len(attempts),
         x.pc = "wait" /\ attempts[x.n].step = "started" => attempts'[x.n].step = "started"
  PROVE  OfficerN(x)'
<1>1. CASE x.pc \in Active
  <2>1. x.pc = "wait" => AwaitsInvoice(x.pay, x.n)'
    <3> SUFFICES ASSUME x.pc = "wait" PROVE AwaitsInvoice(x.pay, x.n)'
      OBVIOUS
    <3>1. AwaitsInvoice(x.pay, x.n) /\ \A q \in P : q.id # x.pay.id
      BY <1>1 DEF OfficerN, Apart
    <3>2. PICK p, n : p = x.pay /\ n = x.n
      OBVIOUS
    <3>3. AwaitsInvoice(p, n)'
      BY <3>1, <3>2, AwaitsStays
    <3> QED BY <3>2, <3>3
  <2> QED BY <2>1, OfficerNGoesOn
<1>2. CASE x.pc \notin Active
  BY <1>2 DEF OfficerN
<1> QED BY <1>1, <1>2

LEMMA JobDStays ==
  ASSUME Kept, NEW x, JobD(x)
  PROVE  JobD(x)'
BY DEF Kept, JobD, Kin, Same, SameKey

\* The feedback a run is about to apply: only another run may pay its payment meanwhile.
LEMMA JobNStays ==
  ASSUME NEW P, Told(P), NEW x, JobN(x),
         \A q \in P : q.status = "paid" /\ x.pc = "update" /\ q.id = x.pay.id => MoreJobs /\ q.user = "rondo"
  PROVE  JobN(x)'
<1> SUFFICES ASSUME x.pc = "update", NEW s \in rows', s.id = x.pay.id, s.status = "paid"
             PROVE  MoreJobs /\ s.user = "rondo"
  BY DEF JobN, MoreJobs
<1>1. CASE s \in P
  BY <1>1
<1>2. CASE \E r \in rows : Kin(r, s)
  BY <1>2 DEF JobN, Kin, Same
<1> QED BY <1>1, <1>2 DEF Told

-----------------------------------------------------------------------------
(* The parts of the invariant after a step *)

LEMMA NoDuplicateBefore ==
  ASSUME BatchesInv, BatchesGrow, NoDuplicateBatch'
  PROVE  NoDuplicateBatch
BY DEF BatchesInv, BatchesGrow, NoDuplicateBatch

\* With no duplicate batch one request sends at a time.
LEMMA Alone ==
  ASSUME NoDuplicateBatch, BatchesInv, OfficersD, Turns, NEW o \in Officers, NEW q \in Officers,
         officer[o].pc \in Active, officer[q].pc \in Active
  PROVE  o = q
<1>1. /\ officer[o].batch \in 0..Len(batches) /\ officer[o].batch # 0 /\ batches[officer[o].batch] = day
      /\ officer[q].batch \in 0..Len(batches) /\ officer[q].batch # 0 /\ batches[officer[q].batch] = day
  BY DEF OfficersD, OfficerD
<1>2. Len(batches) \in Nat /\ DOMAIN batches = 1..Len(batches)
  BY DEF BatchesInv
<1>3. officer[o].batch \in DOMAIN batches /\ officer[q].batch \in DOMAIN batches
  BY <1>1, <1>2
<1>4. officer[o].batch = officer[q].batch
  BY <1>1, <1>3 DEF NoDuplicateBatch
<1> QED BY <1>4 DEF Turns

LEMMA BatchesSame == ASSUME BatchesInv, batches' = batches PROVE BatchesGrow
<1>1. Len(batches) \in Nat
  BY DEF BatchesInv
<1> QED BY <1>1 DEF BatchesInv, BatchesGrow

LEMMA AttemptsSame == ASSUME AttemptsInv, attempts' = attempts PROVE AttemptsGo
<1>1. Len(attempts) \in Nat
  BY DEF AttemptsInv
<1> QED BY <1>1 DEF AttemptsInv, AttemptsGo

\* What is inserted: an invoice at the service for "sent", a sent version for Rondo's "paid".
Justified(q) ==
  /\ q.status = "sent" => \E n \in DOMAIN attempts : attempts[n].id = q.id /\ attempts[n].put
  /\ q.status = "paid" /\ q.user = "rondo" => \E s \in rows : s.id = q.id /\ s.status = "sent" /\ s.ver < q.ver

LEMMA RowsDStays ==
  ASSUME RowsD, AttemptsGo, Kept, NEW P, Told(P), \A q \in P : Justified(q)
  PROVE  RowsD'
<1>1. \A id : (\E n \in DOMAIN attempts : attempts[n].id = id /\ attempts[n].put) =>
                \E n \in DOMAIN attempts' : attempts'[n].id = id /\ attempts'[n].put
  BY DEF AttemptsGo
<1>2. \A r : (\E s \in rows : s.id = r.id /\ s.status = "sent" /\ s.ver < r.ver) =>
                \E s \in rows' : s.id = r.id /\ s.status = "sent" /\ s.ver < r.ver
  BY DEF Kept, Kin, Same
<1>3. ASSUME NEW s \in rows'
      PROVE  /\ s.status = "sent" => \E n \in DOMAIN attempts' : attempts'[n].id = s.id /\ attempts'[n].put
             /\ s.status = "paid" /\ s.user = "rondo" =>
                  \E t \in rows' : t.id = s.id /\ t.status = "sent" /\ t.ver < s.ver
  <2>1. CASE s \in P
    BY <1>1, <1>2, <2>1 DEF Justified
  <2>2. CASE \E r \in rows : Kin(r, s)
    <3>1. PICK r \in rows : Kin(r, s)
      BY <2>2
    <3>2. r.status = s.status /\ r.id = s.id /\ r.ver = s.ver /\ r.user = s.user
      BY <3>1 DEF Kin, Same
    <3> QED BY <1>1, <1>2, <3>2 DEF RowsD
  <2> QED BY <2>1, <2>2 DEF Told
<1> QED BY <1>3 DEF RowsD

LEMMA AttemptDStays ==
  ASSUME Kept, NEW a, AttemptD(a)
  PROVE  AttemptD(a)'
BY SettledStays DEF AttemptD

\* Of the attempts those that changed need looking at.
LEMMA AttemptsDMove ==
  ASSUME AttemptsD, Kept, \A n \in DOMAIN attempts' : \A a : a = attempts'[n] => AttemptD(a) \/ AttemptD(a)'
  PROVE  AttemptsD'
<1> SUFFICES ASSUME NEW n \in DOMAIN attempts' PROVE AttemptD(attempts[n])'
  BY DEF AttemptsD
<1>1. PICK a : a = attempts'[n]
  OBVIOUS
<1>2. AttemptD(a)'
  BY <1>1, AttemptDStays
<1> QED BY <1>1, <1>2 DEF AttemptD, IsSettled

LEMMA AttemptsDStay ==
  ASSUME AttemptsD, Kept, attempts' = attempts
  PROVE  AttemptsD'
BY AttemptsDMove DEF AttemptsD

\* One request moves on, in its batch or in one that is new.
LEMMA OfficersDMove ==
  ASSUME Inv, OfficersD, Turns, BatchesInv, BatchesGrow, AttemptsGo, day' = day,
         NEW o \in Officers, NEW y, OfficerD(y)', officer' = [officer EXCEPT ![o] = y],
         y.pc \in Active => \/ officer[o].pc \in Active /\ y.batch = officer[o].batch
                            \/ y.batch \notin 0..Len(batches)
  PROVE  OfficersD' /\ Turns'
<1>1. officer'[o] = y /\ \A q \in Officers \ {o} : officer'[q] = officer[q]
  BY DEF Inv, PaymentsInv, OfficersInv
<1>2. OfficersD'
  <2> SUFFICES ASSUME NEW q \in Officers PROVE OfficerD(officer[q])'
    BY DEF OfficersD
  <2>1. PICK x : x = officer'[q]
    OBVIOUS
  <2>2. CASE q = o
    BY <1>1, <2>2
  <2>3. CASE q # o
    <3>1. OfficerD(x)
      BY <1>1, <2>1, <2>3 DEF OfficersD
    <3>2. OfficerD(x)'
      BY <3>1, OfficerDStays DEF Inv, PaymentsInv
    <3> QED BY <2>1, <3>2
  <2> QED BY <2>2, <2>3
<1>3. \A q \in Officers \ {o} : officer'[q].batch \in 0..Len(batches)
  BY <1>1 DEF OfficersD, OfficerD
<1>4. Turns'
  BY <1>1, <1>3 DEF Turns
<1> QED BY <1>2, <1>4

LEMMA OfficersDStay ==
  ASSUME Inv, OfficersD, Turns, BatchesInv, BatchesGrow, AttemptsGo, officer' = officer,
         day' = day \/ \A o \in Officers : officer[o].pc \notin Active
  PROVE  OfficersD' /\ Turns'
<1>1. OfficersD'
  <2> SUFFICES ASSUME NEW q \in Officers PROVE OfficerD(officer[q])'
    BY DEF OfficersD
  <2>1. PICK x : x = officer[q]
    OBVIOUS
  <2>2. OfficerD(x)'
    BY <2>1, OfficerDStays DEF Inv, PaymentsInv, OfficersD
  <2> QED BY <2>1, <2>2
<1> QED BY <1>1 DEF Turns


LEMMA OfficersNMove ==
  ASSUME Inv, NEW o \in Officers, NEW y, OfficerN(y)', officer' = [officer EXCEPT ![o] = y],
         \A q \in Officers \ {o} : \A x : x = officer[q] => OfficerN(x)'
  PROVE  OfficersN'
<1>1. officer'[o] = y /\ \A q \in Officers \ {o} : officer'[q] = officer[q]
  BY DEF Inv, PaymentsInv, OfficersInv
<1> SUFFICES ASSUME NEW q \in Officers PROVE OfficerN(officer[q])'
  BY DEF OfficersN
<1>2. PICK x : x = officer'[q]
  OBVIOUS
<1>3. OfficerN(x)'
  BY <1>1, <1>2
<1> QED BY <1>2, <1>3

LEMMA OfficersNStay ==
  ASSUME officer' = officer, \A q \in Officers : \A x : x = officer[q] => OfficerN(x)'
  PROVE  OfficersN'
<1> SUFFICES ASSUME NEW q \in Officers PROVE OfficerN(officer[q])'
  BY DEF OfficersN
<1>1. PICK x : x = officer[q]
  OBVIOUS
<1> QED BY <1>1

\* One run moves on, and what it is about to do it may do.
LEMMA JobsDMove ==
  ASSUME Inv, JobsD, Kept, NEW j \in Jobs, NEW y, JobD(y)', job' = [job EXCEPT ![j] = y]
  PROVE  JobsD'
<1>1. job'[j] = y /\ \A i \in Jobs \ {j} : job'[i] = job[i]
  BY DEF Inv, PaymentsInv, JobsInv
<1> SUFFICES ASSUME NEW i \in Jobs PROVE JobD(job[i])'
  BY DEF JobsD
<1>2. PICK x : x = job'[i]
  OBVIOUS
<1>3. i # j => JobD(x)
  BY <1>1, <1>2 DEF JobsD
<1>4. JobD(x)'
  BY <1>1, <1>2, <1>3, JobDStays
<1> QED BY <1>2, <1>4 DEF JobD

LEMMA JobsDStay ==
  ASSUME JobsD, Kept, job' = job
  PROVE  JobsD'
<1> SUFFICES ASSUME NEW i \in Jobs PROVE JobD(job[i])'
  BY DEF JobsD
<1>1. PICK x : x = job[i]
  OBVIOUS
<1>2. JobD(x)'
  BY <1>1, JobDStays DEF JobsD
<1> QED BY <1>1, <1>2 DEF JobD

\* What is inserted is not the payment of the feedback that i is about to apply.
Aside(P, i) == \A q \in P : q.status = "paid" /\ job[i].pc = "update" /\ q.id = job[i].pay.id => MoreJobs /\ q.user = "rondo"

LEMMA JobsNMove ==
  ASSUME Inv, JobsN, NEW P, Told(P), NEW j \in Jobs, NEW y, JobN(y)', job' = [job EXCEPT ![j] = y],
         \A i \in Jobs \ {j} : Aside(P, i)
  PROVE  JobsN'
<1>1. job'[j] = y /\ \A i \in Jobs \ {j} : job'[i] = job[i]
  BY DEF Inv, PaymentsInv, JobsInv
<1> SUFFICES ASSUME NEW i \in Jobs PROVE JobN(job[i])'
  BY DEF JobsN
<1>2. PICK x : x = job'[i]
  OBVIOUS
<1>3. JobN(x)'
  <2>1. CASE i = j
    BY <1>1, <1>2, <2>1
  <2>2. CASE i # j
    <3>1. JobN(x) /\ Aside(P, i) /\ x = job[i]
      BY <1>1, <1>2, <2>2 DEF JobsN
    <3> QED BY <3>1, JobNStays DEF Aside
  <2> QED BY <2>1, <2>2
<1> QED BY <1>2, <1>3 DEF JobN, MoreJobs

LEMMA JobsNStay ==
  ASSUME JobsN, NEW P, Told(P), job' = job, \A i \in Jobs : Aside(P, i)
  PROVE  JobsN'
<1> SUFFICES ASSUME NEW i \in Jobs PROVE JobN(job[i])'
  BY DEF JobsN
<1>1. PICK x : x = job[i]
  OBVIOUS
<1>2. JobN(x) /\ Aside(P, i)
  BY <1>1 DEF JobsN
<1>3. JobN(x)'
  BY <1>1, <1>2, JobNStays DEF Aside
<1> QED BY <1>1, <1>3 DEF JobN, MoreJobs

\* The version that is inserted follows those there are.
Fits(q) ==
  /\ q.status \in Settled \/ ~ IsSettled(q.id)
  /\ q.status = "sent" => ~ IsSettled(q.id) /\ q.xml /\ q.batch # 0
  /\ q.status = "paid" => /\ \A r \in rows : r.id = q.id /\ r.status = "paid" => ByJobs(r, q)
                          /\ \A s \in rows' : s.id = q.id /\ s.status = "sent" => s.closed
  /\ \A s \in Open' : s.id = q.id => s = q \/ ByJobs(s, q)

LEMMA RowsNStays ==
  ASSUME RowsInv, VersionsInv, RowsN, NEW P, Grows(P), \A p, q \in P : p = q, \A q \in P : Fits(q)
  PROVE  RowsN'
<1>0. VersionsInv' /\ Kept /\ Told(P)
  BY DEF Grows
<1>1. \A s \in rows' : s \in P \/ \E r \in rows : Kin(r, s)
  BY <1>0 DEF Told
<1>2. \A s, t \in rows' : SameKey(s, t) => s = t
  BY <1>0 DEF VersionsInv, SameKey
<1>3. ASSUME NEW s \in rows', NEW t \in rows', s.id = t.id, s.status = "sent", t.status = "sent"
      PROVE  s = t
  <2>1. CASE s \in P \/ t \in P
    BY <1>1, <1>3, <2>1 DEF Fits, IsSettled, Kin, Same, Settled
  <2>2. CASE s \notin P /\ t \notin P
    <3>1. PICK r \in rows : Kin(r, s)
      BY <1>1, <2>2
    <3>2. PICK u \in rows : Kin(u, t)
      BY <1>1, <2>2
    <3>3. r = u
      BY <1>3, <3>1, <3>2 DEF RowsN, Kin, Same
    <3>4. SameKey(s, t)
      BY <3>1, <3>2, <3>3 DEF Kin, Same, SameKey
    <3> QED BY <1>2, <3>4
  <2> QED BY <2>1, <2>2
<1>4. ASSUME NEW s \in rows', NEW t \in rows', s.id = t.id, s.status = "paid", t.status = "sent"
      PROVE  t.closed
  <2>1. CASE s \in P
    BY <1>4, <2>1 DEF Fits
  <2>2. CASE s \notin P /\ t \in P
    BY <1>1, <1>4, <2>2 DEF Fits, IsSettled, Kin, Same, Settled
  <2>3. CASE s \notin P /\ t \notin P
    <3>1. PICK r \in rows : Kin(r, s)
      BY <1>1, <2>3
    <3>2. PICK u \in rows : Kin(u, t)
      BY <1>1, <2>3
    <3>3. r.id = u.id /\ r.status = "paid" /\ u.status = "sent"
      BY <1>4, <3>1, <3>2 DEF Kin, Same
    <3> QED BY <3>2, <3>3 DEF RowsN, Kin
  <2> QED BY <2>1, <2>2, <2>3
<1>5. ASSUME NEW s \in Open', s.status \in Unpaid, IsSettled(s.id)'
      PROVE  FALSE
  <2>0. s \in rows' /\ s.status \notin Settled
    BY <1>5 DEF Open, Unpaid, Settled
  <2>1. CASE s \in P
    <3>1. ~ IsSettled(s.id)
      BY <2>0, <2>1 DEF Fits
    <3>2. PICK q \in P : q.id = s.id /\ q.status \in Settled
      BY <1>0, <1>5, <3>1, SettledBy
    <3> QED BY <2>0, <2>1, <3>2
  <2>2. CASE s \notin P
    <3>1. PICK r \in Open : Kin(r, s)
      BY <1>0, <2>2, OpenBefore
    <3>2. ~ IsSettled(s.id)
      BY <1>5, <3>1 DEF RowsN, Kin, Same
    <3>3. PICK q \in P : q.id = s.id /\ q.status \in Settled
      BY <1>0, <1>5, <3>2, SettledBy
    <3>4. s.user = "rondo"
      BY <1>5, <2>2, <3>3 DEF Fits, ByJobs
    <3>5. s.status = "paid"
      BY <1>0, <2>0, <3>4 DEF VersionsInv
    <3> QED BY <1>5, <3>5 DEF Unpaid
  <2> QED BY <2>1, <2>2
<1>6. ASSUME NEW s \in Open', NEW t \in Open', s.id = t.id
      PROVE  s = t \/ ByJobs(s, t)
  <2>0. s \in rows' /\ t \in rows'
    BY DEF Open
  <2>1. CASE s \in P \/ t \in P
    BY <1>6, <2>1 DEF Fits, ByJobs
  <2>2. CASE s \notin P /\ t \notin P
    <3>1. PICK r \in Open : Kin(r, s)
      BY <1>0, <2>2, OpenBefore
    <3>2. PICK u \in Open : Kin(u, t)
      BY <1>0, <2>2, OpenBefore
    <3>3. r = u \/ ByJobs(r, u)
      BY <1>6, <3>1, <3>2 DEF RowsN, Kin, Same
    <3>4. CASE r = u
      <4>1. SameKey(s, t)
        BY <3>1, <3>2, <3>4 DEF Kin, Same, SameKey
      <4> QED BY <1>2, <2>0, <4>1
    <3>5. CASE ByJobs(r, u)
      BY <3>1, <3>2, <3>5 DEF ByJobs, Kin, Same
    <3> QED BY <3>3, <3>4, <3>5
  <2> QED BY <2>1, <2>2
<1>7. ASSUME NEW s \in rows', NEW t \in rows', s.id = t.id, s.status = "paid", t.status = "paid"
      PROVE  s = t \/ ByJobs(s, t)
  <2>1. CASE s \in P /\ t \in P
    BY <2>1
  <2>2. CASE s \in P /\ t \notin P
    <3>1. PICK u \in rows : Kin(u, t)
      BY <1>1, <2>2
    <3>2. ByJobs(u, s)
      BY <1>7, <2>2, <3>1 DEF Fits, Kin, Same
    <3> QED BY <3>1, <3>2 DEF ByJobs, Kin, Same
  <2>3. CASE s \notin P /\ t \in P
    <3>1. PICK u \in rows : Kin(u, s)
      BY <1>1, <2>3
    <3>2. ByJobs(u, t)
      BY <1>7, <2>3, <3>1 DEF Fits, Kin, Same
    <3> QED BY <3>1, <3>2 DEF ByJobs, Kin, Same
  <2>4. CASE s \notin P /\ t \notin P
    <3>1. PICK r \in rows : Kin(r, s)
      BY <1>1, <2>4
    <3>2. PICK u \in rows : Kin(u, t)
      BY <1>1, <2>4
    <3>3. r = u \/ ByJobs(r, u)
      BY <1>7, <3>1, <3>2 DEF RowsN, Kin, Same
    <3>4. CASE r = u
      <4>1. SameKey(s, t)
        BY <3>1, <3>2, <3>4 DEF Kin, Same, SameKey
      <4> QED BY <1>2, <4>1
    <3>5. CASE ByJobs(r, u)
      BY <3>1, <3>2, <3>5 DEF ByJobs, Kin, Same
    <3> QED BY <3>3, <3>4, <3>5
  <2> QED BY <2>1, <2>2, <2>3, <2>4
<1>8. ASSUME NEW s \in rows', s.status = "sent"
      PROVE  s.xml /\ s.batch # 0
  <2>1. CASE s \in P
    BY <1>8, <2>1 DEF Fits
  <2>2. CASE s \notin P
    <3>1. PICK r \in rows : Kin(r, s)
      BY <1>1, <2>2
    <3>2. r.xml /\ r.batch # 0
      BY <1>8, <3>1 DEF RowsN, Kin, Same
    <3> QED BY <3>1, <3>2 DEF Kin
  <2> QED BY <2>1, <2>2
<1> QED BY <1>3, <1>4, <1>5, <1>6, <1>7, <1>8 DEF RowsN, ByJobs, MoreJobs

LEMMA AttemptsNStays ==
  ASSUME AttemptsN, DOMAIN attempts' = DOMAIN attempts,
         \A n \in DOMAIN attempts :
           attempts'[n].id = attempts[n].id /\ attempts'[n].confirmed = attempts[n].confirmed
  PROVE  AttemptsN'
BY DEF AttemptsN

-----------------------------------------------------------------------------
(* The steps of officers that write nothing *)

LEMMA Untouched ==
  ASSUME Inv, OnceInv, rows' = rows, batches' = batches, attempts' = attempts
  PROVE  /\ BatchesGrow /\ AttemptsGo /\ Grows({}) /\ Kept /\ Told({}) /\ VersionsInv'
         /\ RowsD' /\ AttemptsD' /\ NoDuplicateBatch' = NoDuplicateBatch
         /\ NoDuplicateBatch => RowsN' /\ AttemptsN'
<1>1. BatchesGrow /\ AttemptsGo
  BY BatchesSame, AttemptsSame DEF Inv, PaymentsInv, OnceInv, DeliveryInv
<1>2. Grows({})
  BY <1>1, QuietlyGrow DEF Inv, PaymentsInv, OnceInv, DeliveryInv
<1>3. Kept /\ Told({}) /\ VersionsInv'
  BY <1>2 DEF Grows
<1>4. RowsD' /\ AttemptsD'
  BY <1>1, <1>3, RowsDStays, AttemptsDStay DEF OnceInv, DeliveryInv
<1>5. NoDuplicateBatch' = NoDuplicateBatch
  BY DEF NoDuplicateBatch
<1>6. NoDuplicateBatch => RowsN' /\ AttemptsN'
  BY <1>2, RowsNStays, AttemptsNStays DEF OnceInv, SenderInv, Inv, PaymentsInv
<1> QED BY <1>1, <1>2, <1>3, <1>4, <1>5, <1>6

\* Requests go on while no version is written.
LEMMA OthersN ==
  ASSUME Told({}), OfficersN, attempts' = attempts, NEW q \in Officers
  PROVE  \A x : x = officer[q] => OfficerN(x)'
<1> SUFFICES ASSUME NEW x, x = officer[q] PROVE OfficerN(x)'
  OBVIOUS
<1>1. OfficerN(x) /\ Apart({}, x)
  BY DEF OfficersN, Apart
<1> QED BY <1>1, OfficerNStays

LEMMA OfficerQuietly2 ==
  ASSUME Inv, OnceInv, NEW o \in Officers, NEW y, OfficerD(y), NoDuplicateBatch => OfficerN(y),
         y.pc \in Active => officer[o].pc \in Active /\ y.batch = officer[o].batch,
         officer' = [officer EXCEPT ![o] = y], UNCHANGED <<rows, batches, day, attempts, job>>
  PROVE  OnceInv'
<1>1. /\ BatchesGrow /\ AttemptsGo /\ Grows({}) /\ Kept /\ Told({}) /\ VersionsInv'
      /\ RowsD' /\ AttemptsD' /\ NoDuplicateBatch' = NoDuplicateBatch
      /\ NoDuplicateBatch => RowsN' /\ AttemptsN'
  BY Untouched
<1>2. JobsD' /\ (NoDuplicateBatch => JobsN')
  BY <1>1, JobsDStay, JobsNStay DEF OnceInv, DeliveryInv, SenderInv, Aside
<1>3. PICK z : z = y
  OBVIOUS
<1>4. OfficerD(z)'
  BY <1>1, <1>3, OfficerDStays DEF OnceInv, DeliveryInv, Inv, PaymentsInv
<1>5. OfficersD' /\ Turns'
  BY <1>1, <1>3, <1>4, OfficersDMove DEF OnceInv, DeliveryInv
<1>6. NoDuplicateBatch => OfficersN'
  <2> SUFFICES ASSUME NoDuplicateBatch PROVE OfficersN'
    OBVIOUS
  <2>1. OfficersN
    BY DEF OnceInv, SenderInv
  <2>2. OfficerN(z)'
    <3>1. OfficerN(z) /\ Apart({}, z)
      BY <1>3 DEF Apart
    <3> QED BY <1>1, <3>1, OfficerNStays
  <2>3. \A q \in Officers \ {o} : \A x : x = officer[q] => OfficerN(x)'
    BY <1>1, <2>1, OthersN
  <2> QED BY <1>3, <2>2, <2>3, OfficersNMove
<1>7. BatchesInv'
  BY DEF OnceInv, DeliveryInv, BatchesInv
<1> QED BY <1>1, <1>2, <1>5, <1>6, <1>7 DEF OnceInv, DeliveryInv, SenderInv

\* The fields of a request.
HasFields(x) ==
  x \in [pc : {x.pc}, op : {x.op}, batch : {x.batch}, apps : {x.apps}, app : {x.app},
         list : {x.list}, pay : {x.pay}, n : {x.n}]

\* A request that works in no batch, or no more.
LEMMA Passive ==
  ASSUME BatchesInv, AttemptsInv, NEW y, y.pc \notin Active, y.batch \in 0..Len(batches), y.n \in 0..Len(attempts),
         y.pc = "checked" => y.list = {}, \A p \in y.list : Numbered(p)
  PROVE  OfficerD(y) /\ OfficerN(y)
BY DEF OfficerD, OfficerN, Active

LEMMA IdlePassive ==
  ASSUME BatchesInv, AttemptsInv
  PROVE  /\ OfficerD(IdleOfficer) /\ OfficerN(IdleOfficer) /\ IdleOfficer.pc \notin Active
         /\ \A V : LET y == [IdleOfficer EXCEPT !.pc = "create", !.op = "create", !.apps = V]
                   IN OfficerD(y) /\ OfficerN(y) /\ y.pc \notin Active
         /\ \A op : LET y == [IdleOfficer EXCEPT !.pc = "checked", !.op = op]
                    IN OfficerD(y) /\ OfficerN(y) /\ y.pc \notin Active
<1>1. Len(batches) \in Nat /\ Len(attempts) \in Nat
  BY DEF BatchesInv, AttemptsInv
<1>2. 0 \in 0..Len(batches) /\ 0 \in 0..Len(attempts)
  BY <1>1
<1>3. /\ HasFields(IdleOfficer) /\ IdleOfficer.batch = 0 /\ IdleOfficer.n = 0 /\ IdleOfficer.list = {}
      /\ IdleOfficer.pc = "idle"
  BY DEF IdleOfficer, HasFields
<1>4. OfficerD(IdleOfficer) /\ OfficerN(IdleOfficer) /\ IdleOfficer.pc \notin Active
  BY <1>2, <1>3, Passive DEF Active
<1>6. ASSUME NEW V
      PROVE  LET y == [IdleOfficer EXCEPT !.pc = "create", !.op = "create", !.apps = V]
             IN OfficerD(y) /\ OfficerN(y) /\ y.pc \notin Active
  <2> DEFINE y == [IdleOfficer EXCEPT !.pc = "create", !.op = "create", !.apps = V]
  <2>1. y.batch = 0 /\ y.n = 0 /\ y.list = {} /\ y.pc = "create"
    BY <1>3 DEF HasFields
  <2> HIDE DEF y
  <2>2. OfficerD(y) /\ OfficerN(y) /\ y.pc \notin Active
    BY <1>2, <2>1, Passive DEF Active
  <2> QED BY <2>2 DEF y
<1>7. ASSUME NEW op
      PROVE  LET y == [IdleOfficer EXCEPT !.pc = "checked", !.op = op]
             IN OfficerD(y) /\ OfficerN(y) /\ y.pc \notin Active
  <2> DEFINE y == [IdleOfficer EXCEPT !.pc = "checked", !.op = op]
  <2>1. y.batch = 0 /\ y.n = 0 /\ y.list = {} /\ y.pc = "checked"
    BY <1>3 DEF HasFields
  <2> HIDE DEF y
  <2>2. OfficerD(y) /\ OfficerN(y) /\ y.pc \notin Active
    BY <1>2, <2>1, Passive DEF Active
  <2> QED BY <2>2 DEF y
<1> QED BY <1>4, <1>6, <1>7

\* A request that stops: nothing is left of what it held.
LEMMA StopsOK ==
  ASSUME BatchesInv, AttemptsInv, NEW x, HasFields(x), OfficerD(x)
  PROVE  LET y == [x EXCEPT !.pc = "hung"] IN OfficerD(y) /\ OfficerN(y) /\ y.pc \notin Active
<1> DEFINE y == [x EXCEPT !.pc = "hung"]
<1>1. y.pc = "hung" /\ y.batch = x.batch /\ y.n = x.n /\ y.list = x.list
  BY DEF HasFields
<1>2. y.batch \in 0..Len(batches) /\ y.n \in 0..Len(attempts) /\ \A p \in y.list : Numbered(p)
  BY <1>1 DEF OfficerD
<1> HIDE DEF y
<1>3. OfficerD(y) /\ OfficerN(y) /\ y.pc \notin Active
  BY <1>1, <1>2, Passive DEF Active
<1> QED BY <1>3 DEF y

\* A request that goes on with its list, or the rest of it.
LEMMA GoesOnOK ==
  ASSUME BatchesInv, AttemptsInv, NEW x, HasFields(x), OfficerD(x), x.pc \in Active,
         NEW y, HasFields(y), y.batch = x.batch, y.n \in 0..Len(attempts), y.list \subseteq x.list,
         y.pc \in {"loop", "revoke"}
  PROVE  OfficerD(y) /\ (OfficerN(x) => OfficerN(y))
<1>1. OfficerD(y)
  BY DEF OfficerD, Active
<1>2. OfficerN(x) => OfficerN(y)
  BY DEF OfficerN, Active
<1> QED BY <1>1, <1>2

LEMMA UnsentInHand ==
  ASSUME RowsInv, VersionsInv, RowsN, NEW a
  PROVE  /\ \A p \in Unsent(a) : InHand(p)
         /\ \A p, q \in Unsent(a) : p.id = q.id => p = q
<1>1. \A p \in Unsent(a) : p \in Open /\ p \in rows /\ p.status \in Unpaid
  BY DEF Unsent, Open
<1>2. \A p \in Unsent(a) : p.user # "rondo"
  BY <1>1 DEF VersionsInv, Unpaid
<1>3. \A p \in Unsent(a) : \A r \in Open : r.id = p.id => r = p
  BY <1>1, <1>2 DEF RowsN, ByJobs
<1> QED BY <1>1, <1>3 DEF InHand, RowsN

LEMMA OfficersQuietSteps ==
  ASSUME Inv, OnceInv, NEW o \in Officers,
         \/ CreateGrantPayments(o) \/ FindBatches(o) \/ ListApplications(o) \/ EndRequest(o)
         \/ GiveUp(o) \/ RevokeApplicationTokens(o)
  PROVE  OnceInv'
<1> DEFINE x == officer[o]
<1>0. /\ HasFields(x) /\ OfficerD(x) /\ BatchesInv /\ AttemptsInv /\ (NoDuplicateBatch => OfficerN(x))
      /\ x.n \in 0..Len(attempts) /\ 0 \in 0..Len(attempts)
  <2>1. HasFields(x)
    BY DEF Inv, PaymentsInv, OfficersInv, OfficerOK, HasFields
  <2>2. OfficerD(x) /\ BatchesInv /\ AttemptsInv /\ (NoDuplicateBatch => OfficerN(x))
    BY DEF Inv, PaymentsInv, OnceInv, DeliveryInv, SenderInv, OfficersD, OfficersN
  <2>3. Len(attempts) \in Nat
    BY <2>2 DEF AttemptsInv
  <2> HIDE DEF x
  <2>4. x.n \in 0..Len(attempts) /\ 0 \in 0..Len(attempts)
    BY <2>2, <2>3 DEF OfficerD
  <2> QED BY <2>1, <2>2, <2>4
<1>1. ASSUME NEW y, OfficerD(y), NoDuplicateBatch => OfficerN(y),
             y.pc \in Active => x.pc \in Active /\ y.batch = x.batch, officer' = [officer EXCEPT ![o] = y],
             UNCHANGED <<rows, batches, day, attempts, job>>
      PROVE  OnceInv'
  BY <1>1, OfficerQuietly2
<1>2. CASE CreateGrantPayments(o)
  <2>1. PICK V : officer' = [officer EXCEPT ![o] = [IdleOfficer EXCEPT !.pc = "create", !.op = "create", !.apps = V]]
    BY <1>2 DEF CreateGrantPayments
  <2> QED BY <1>0, <1>1, <1>2, <2>1, IdlePassive DEF CreateGrantPayments
<1>3. CASE FindBatches(o)
  <2>1. PICK op : officer' = [officer EXCEPT ![o] = [IdleOfficer EXCEPT !.pc = "checked", !.op = op]]
    BY <1>3 DEF FindBatches
  <2> QED BY <1>0, <1>1, <1>3, <2>1, IdlePassive DEF FindBatches
<1>4. CASE ListApplications(o)
  <2> DEFINE y == [x EXCEPT !.pc = "loop", !.apps = Apps \ refused]
  <2>1. x.pc \in Active
    BY <1>4 DEF ListApplications, At, Active
  <2>2. HasFields(y) /\ y.pc = "loop" /\ y.batch = x.batch /\ y.list = x.list /\ y.n = x.n
    <3> HIDE DEF x
    <3> QED BY <1>0 DEF HasFields
  <2>3. officer' = [officer EXCEPT ![o] = y] /\ UNCHANGED <<rows, batches, day, attempts, job>>
    BY <1>4 DEF ListApplications
  <2> HIDE DEF x, y
  <2>4. OfficerD(y) /\ (NoDuplicateBatch => OfficerN(y))
    BY <1>0, <2>1, <2>2, GoesOnOK
  <2> QED BY <1>1, <2>1, <2>2, <2>3, <2>4
<1>5. CASE EndRequest(o)
  BY <1>0, <1>1, <1>5, IdlePassive DEF EndRequest
<1>6. CASE GiveUp(o)
  <2> DEFINE y == [x EXCEPT !.pc = "loop", !.pay = Payment0, !.n = 0]
  <2>1. x.pc \in Active
    BY <1>6 DEF GiveUp, At, Active
  <2>2. HasFields(y) /\ y.pc = "loop" /\ y.batch = x.batch /\ y.list = x.list /\ y.n = 0
    <3> HIDE DEF x
    <3> QED BY <1>0 DEF HasFields
  <2>3. officer' = [officer EXCEPT ![o] = y] /\ UNCHANGED <<rows, batches, day, attempts, job>>
    BY <1>6 DEF GiveUp
  <2> HIDE DEF x, y
  <2>4. OfficerD(y) /\ (NoDuplicateBatch => OfficerN(y))
    BY <1>0, <2>1, <2>2, GoesOnOK
  <2> QED BY <1>1, <2>1, <2>2, <2>3, <2>4
<1>7. CASE RevokeApplicationTokens(o)
  <2> DEFINE y == [x EXCEPT !.pc = "loop"]
  <2>1. x.pc \in Active
    BY <1>7 DEF RevokeApplicationTokens, At, Active
  <2>2. HasFields(y) /\ y.pc = "loop" /\ y.batch = x.batch /\ y.list = x.list /\ y.n = x.n
    <3> HIDE DEF x
    <3> QED BY <1>0 DEF HasFields
  <2>3. officer' = [officer EXCEPT ![o] = y] /\ UNCHANGED <<rows, batches, day, attempts, job>>
    BY <1>7 DEF RevokeApplicationTokens
  <2> HIDE DEF x, y
  <2>4. OfficerD(y) /\ (NoDuplicateBatch => OfficerN(y))
    BY <1>0, <2>1, <2>2, GoesOnOK
  <2> QED BY <1>1, <2>1, <2>2, <2>3, <2>4
<1> QED BY <1>2, <1>3, <1>4, <1>5, <1>6, <1>7

\* What a request reads it holds: the unsent payments, and the version its attempt was made for.
LEMMA ListUnsentPaymentsOnce ==
  ASSUME Inv, OnceInv, NEW o \in Officers, NEW a \in Apps, ListUnsentPayments(o, a)
  PROVE  OnceInv'
<1> DEFINE x == officer[o]
           list == Unsent(a)
           y == [x EXCEPT !.apps = x.apps \ {a}, !.app = a, !.list = list]
<1>1. HasFields(x) /\ x.pc = "loop" /\ officer' = [officer EXCEPT ![o] = y]
      /\ UNCHANGED <<rows, batches, day, attempts, job>>
  BY DEF Inv, PaymentsInv, OfficersInv, OfficerOK, HasFields, ListUnsentPayments, At
<1>2. OfficerD(x) /\ (NoDuplicateBatch => OfficerN(x) /\ RowsN) /\ RowsInv /\ VersionsInv
  BY DEF Inv, PaymentsInv, OnceInv, DeliveryInv, SenderInv, OfficersD, OfficersN
<1>3. HasFields(y) /\ y.pc = "loop" /\ y.batch = x.batch /\ y.list = list /\ y.n = x.n
  <2> HIDE DEF x, list
  <2> QED BY <1>1 DEF HasFields
<1>4. /\ \A p \in list : Numbered(p)
      /\ NoDuplicateBatch => (\A p \in list : InHand(p)) /\ \A p, q \in list : p.id = q.id => p = q
  <2>1. \A p \in list : Numbered(p)
    BY <1>2 DEF VersionsInv, Unsent, Open
  <2>2. NoDuplicateBatch => (\A p \in list : InHand(p)) /\ \A p, q \in list : p.id = q.id => p = q
    BY <1>2, UnsentInHand
  <2> QED BY <2>1, <2>2
<1> HIDE DEF x, y, list
<1>5. OfficerD(y)
  BY <1>1, <1>2, <1>3, <1>4 DEF OfficerD, Active
<1>6. NoDuplicateBatch => OfficerN(y)
  BY <1>3, <1>4 DEF OfficerN
<1>7. y.pc \in Active => x.pc \in Active /\ y.batch = x.batch
  BY <1>1, <1>3
<1> QED BY <1>1, <1>5, <1>6, <1>7, OfficerQuietly2 DEF x

LEMMA SendSucceededOnce ==
  ASSUME Inv, OnceInv, NEW o \in Officers, SendSucceeded(o)
  PROVE  OnceInv'
<1> DEFINE x == officer[o]
           found == Version(x.pay.id, x.pay.ver)
           q == IF found = {} THEN Payment0 ELSE CHOOSE r \in found : TRUE
           y == [x EXCEPT !.pc = "mark", !.pay = q]
<1>1. HasFields(x) /\ x.pc = "wait" /\ officer' = [officer EXCEPT ![o] = y] /\ attempts[x.n].ok
      /\ UNCHANGED <<rows, batches, day, attempts, job>>
  BY DEF Inv, PaymentsInv, OfficersInv, OfficerOK, HasFields, SendSucceeded, At
<1>2. OfficerD(x) /\ (NoDuplicateBatch => OfficerN(x) /\ RowsN) /\ VersionsInv /\ AttemptsD /\ AttemptsInv
  BY DEF Inv, PaymentsInv, OnceInv, DeliveryInv, SenderInv, OfficersD, OfficersN
<1>3. HasFields(y) /\ y.pc = "mark" /\ y.batch = x.batch /\ y.list = x.list /\ y.n = x.n /\ y.pay = q
  <2> HIDE DEF x, q
  <2> QED BY <1>1 DEF HasFields
<1>4. q # Payment0 => q \in rows /\ q.id = x.pay.id /\ q.ver = x.pay.ver /\ ~ q.deleted
  <2>1. q # Payment0 => q \in found
    <3> HIDE DEF found
    <3> QED OBVIOUS
  <2> QED BY <2>1 DEF Version
<1> HIDE DEF x, y, q
<1>5. x.n \in DOMAIN attempts /\ attempts[x.n].put /\ attempts[x.n].step = "ended" /\ attempts[x.n].id = x.pay.id
  <2>1. x.n \in 0..Len(attempts) /\ x.n # 0 /\ attempts[x.n].id = x.pay.id
    BY <1>1, <1>2 DEF OfficerD
  <2>2. Len(attempts) \in Nat /\ DOMAIN attempts = 1..Len(attempts)
    BY <1>2 DEF AttemptsInv
  <2>3. x.n \in DOMAIN attempts
    BY <2>1, <2>2
  <2> QED BY <1>1, <1>2, <2>1, <2>3 DEF AttemptsD, AttemptD
<1>6. x.pc \in Active /\ y.pc \in Active
  BY <1>1, <1>3 DEF Active
<1>7. OfficerD(y)
  <2>1. q # Payment0 => Numbered(q) /\ attempts[x.n].id = q.id
    BY <1>2, <1>4, <1>5 DEF VersionsInv
  <2> QED BY <1>1, <1>2, <1>3, <1>5, <1>6, <2>1 DEF OfficerD
<1>8. ASSUME NoDuplicateBatch PROVE OfficerN(y)
  <2>1. OfficerN(x)
    BY <1>2, <1>8
  <2>2. /\ \A p \in x.list : InHand(p)
        /\ \A p, r \in x.list : p.id = r.id => p = r
        /\ x.n = Len(attempts) /\ InHand(x.pay) /\ \A p \in x.list : p.id # x.pay.id
        /\ AwaitsInvoice(x.pay, x.n)
    BY <1>1, <1>6, <2>1 DEF OfficerN
  <2>3. q # Payment0 => InHand(q) /\ \A p \in x.list : p.id # q.id
    BY <1>4, <2>2 DEF InHand
  <2>4. q # Payment0 => q.xml /\ q.batch # 0
    BY <1>4, <1>5, <2>2 DEF AwaitsInvoice, SameKey
  <2> QED BY <1>3, <2>2, <2>3, <2>4 DEF OfficerN
<1> QED BY <1>1, <1>3, <1>6, <1>7, <1>8, OfficerQuietly2 DEF x

\* The batch of a request is its own, and with no duplicate batch the request is alone.
LEMMA CreateBatchOnce ==
  ASSUME Inv, OnceInv, NEW o \in Officers, CreateBatch(o)
  PROVE  OnceInv'
<1> DEFINE x == officer[o]
           b == Len(batches) + 1
           y == [x EXCEPT !.pc = "batch", !.batch = b]
<1>1. /\ HasFields(x) /\ x.pc = "checked" /\ batches' = Append(batches, day)
      /\ officer' = [officer EXCEPT ![o] = y] /\ UNCHANGED <<rows, day, attempts, job>>
  BY DEF Inv, PaymentsInv, OfficersInv, OfficerOK, HasFields, CreateBatch, At
<1>2. /\ OfficerD(x) /\ BatchesInv /\ VersionsInv /\ RowsInv /\ AttemptsInv /\ OfficersD /\ Turns
      /\ RowsD /\ AttemptsD /\ JobsD
      /\ NoDuplicateBatch => RowsN /\ AttemptsN /\ OfficersN /\ JobsN
  BY DEF Inv, PaymentsInv, OnceInv, DeliveryInv, SenderInv, OfficersD
<1>3. /\ Len(batches) \in Nat /\ DOMAIN batches = 1..Len(batches)
      /\ batches' \in Seq(Nat) /\ Len(batches') = b /\ batches'[b] = day
      /\ \A c \in 1..Len(batches) : batches'[c] = batches[c]
      /\ DOMAIN batches' = 1..b
  BY <1>1, <1>2, AppendProperties, LenProperties DEF BatchesInv
<1>4. BatchesGrow
  BY <1>3 DEF BatchesGrow
<1>5. AttemptsGo /\ Grows({}) /\ Kept /\ Told({}) /\ VersionsInv'
  BY <1>1, <1>2, <1>4, AttemptsSame, QuietlyGrow DEF Grows
<1>6. RowsD' /\ AttemptsD' /\ JobsD'
  BY <1>1, <1>2, <1>5, RowsDStays, AttemptsDStay, JobsDStay
<1>7. PICK z : z = y
  OBVIOUS
<1>8. HasFields(z) /\ z.pc = "batch" /\ z.batch = b /\ z.list = {} /\ z.n = x.n
  <2>1. x.list = {}
    BY <1>1, <1>2 DEF OfficerD
  <2> HIDE DEF x
  <2> QED BY <1>1, <1>7, <2>1 DEF HasFields
<1> HIDE DEF x, y
<1>9. OfficerD(z)'
  <2>1. z.batch \in 0..Len(batches') /\ z.batch # 0 /\ batches'[z.batch] = day' /\ z.n \in 0..Len(attempts')
    BY <1>1, <1>2, <1>3, <1>8 DEF OfficerD
  <2> QED BY <1>8, <2>1 DEF OfficerD
<1>10. OfficersD' /\ Turns'
  <2>1. z.batch \notin 0..Len(batches)
    BY <1>3, <1>8
  <2> QED BY <1>1, <1>2, <1>4, <1>5, <1>7, <1>9, <2>1, OfficersDMove
<1>11. ASSUME NoDuplicateBatch' PROVE RowsN' /\ AttemptsN' /\ OfficersN' /\ JobsN'
  <2>1. NoDuplicateBatch
    BY <1>2, <1>4, <1>11, NoDuplicateBefore
  <2>2. RowsN' /\ AttemptsN' /\ JobsN'
    BY <1>1, <1>2, <1>5, <2>1, RowsNStays, AttemptsNStays, JobsNStay DEF Aside
  <2>3. OfficerN(z)'
    BY <1>8 DEF OfficerN
  <2>4. \A q \in Officers \ {o} : \A u : u = officer[q] => OfficerN(u)'
    BY <1>1, <1>2, <1>5, <2>1, OthersN
  <2>5. OfficersN'
    BY <1>1, <1>7, <2>3, <2>4, OfficersNMove
  <2> QED BY <2>2, <2>5
<1>12. BatchesInv'
  BY <1>1, <1>2, <1>3 DEF BatchesInv
<1> QED BY <1>5, <1>6, <1>10, <1>11, <1>12 DEF OnceInv, DeliveryInv, SenderInv

-----------------------------------------------------------------------------
(* New payments and deletions *)

\* A version of a payment nobody holds.
LEMMA ApartFromNew ==
  ASSUME OfficersInv, NEW o \in Officers, NEW q, \A r \in rows : r.id # q.id
  PROVE  \A x : x = officer[o] => Apart({q}, x)
BY DEF OfficersInv, OfficerOK, Mine, Known, Apart

LEMMA NewPaymentOnce ==
  ASSUME Inv, OnceInv, NEW a \in Apps, NEW phase \in Phases, NEW status \in Unpaid, StorePayment(a, phase, status),
         \/ UNCHANGED officer
         \/ \E o \in Officers : \E y :
              OfficerD(y) /\ OfficerN(y) /\ y.pc \notin Active /\ officer' = [officer EXCEPT ![o] = y],
         UNCHANGED <<batches, day, attempts, job>>
  PROVE  OnceInv'
<1>1. /\ BatchesInv /\ VersionsInv /\ RowsInv /\ AttemptsInv /\ OfficersInv /\ OfficersD /\ Turns
      /\ RowsD /\ AttemptsD /\ JobsD
      /\ NoDuplicateBatch => RowsN /\ AttemptsN /\ OfficersN /\ JobsN
  BY DEF Inv, PaymentsInv, OnceInv, DeliveryInv, SenderInv
<1>2. BatchesGrow /\ AttemptsGo
  BY <1>1, BatchesSame, AttemptsSame
<1>3. PICK q : Grows({q}) /\ q.status = status /\ q.user = "officer" /\ \A r \in rows : r.id # q.id
  BY <1>1, <1>2, NewPaymentGrows
<1>4. Kept /\ Told({q}) /\ VersionsInv' /\ q.status \notin Settled /\ q.status # "sent" /\ q.status # "paid"
  BY <1>3 DEF Grows, Settled, Unpaid
<1>5. RowsD' /\ AttemptsD' /\ JobsD'
  <2>1. Justified(q)
    BY <1>4 DEF Justified
  <2> QED BY <1>1, <1>2, <1>4, <2>1, RowsDStays, AttemptsDStay, JobsDStay
<1>6. NoDuplicateBatch' = NoDuplicateBatch
  BY DEF NoDuplicateBatch
<1>7. ASSUME NoDuplicateBatch PROVE RowsN' /\ AttemptsN' /\ JobsN'
  <2>1. Fits(q)
    <3>1. ~ IsSettled(q.id)
      BY <1>3 DEF IsSettled
    <3>2. \A s \in Open' : s.id = q.id => s = q
      BY <1>3, <1>4 DEF Told, Open, Kin, Same
    <3> QED BY <1>4, <3>1, <3>2 DEF Fits
  <2>2. RowsN'
    BY <1>1, <1>3, <1>7, <2>1, RowsNStays
  <2> QED BY <1>1, <1>4, <1>7, <2>2, AttemptsNStays, JobsNStay DEF Aside
<1>8. ASSUME NoDuplicateBatch, NEW p \in Officers PROVE \A x : x = officer[p] => OfficerN(x)'
  <2> SUFFICES ASSUME NEW x, x = officer[p] PROVE OfficerN(x)'
    OBVIOUS
  <2>1. OfficerN(x) /\ Apart({q}, x)
    BY <1>1, <1>3, <1>8, ApartFromNew DEF OfficersN
  <2> QED BY <1>4, <2>1, OfficerNStays
<1>9. OfficersD' /\ Turns' /\ (NoDuplicateBatch => OfficersN')
  <2>1. CASE UNCHANGED officer
    BY <1>1, <1>2, <1>8, <2>1, OfficersDStay, OfficersNStay
  <2>2. CASE \E o \in Officers : \E y :
               OfficerD(y) /\ OfficerN(y) /\ y.pc \notin Active /\ officer' = [officer EXCEPT ![o] = y]
    <3>1. PICK o \in Officers : \E y :
            OfficerD(y) /\ OfficerN(y) /\ y.pc \notin Active /\ officer' = [officer EXCEPT ![o] = y]
      BY <2>2
    <3>2. PICK y : OfficerD(y) /\ OfficerN(y) /\ y.pc \notin Active /\ officer' = [officer EXCEPT ![o] = y]
      BY <3>1
    <3>3. OfficerD(y)' /\ OfficerN(y)'
      <4>1. OfficerN(y)'
        BY <3>2 DEF OfficerN
      <4> QED BY <1>1, <1>2, <3>2, <4>1, OfficerDStays
    <3>4. OfficersD' /\ Turns'
      BY <1>1, <1>2, <3>2, <3>3, OfficersDMove
    <3>5. NoDuplicateBatch => OfficersN'
      BY <1>8, <3>2, <3>3, OfficersNMove
    <3> QED BY <3>4, <3>5
  <2> QED BY <2>1, <2>2
<1>10. BatchesInv'
  BY <1>1 DEF BatchesInv
<1> QED BY <1>4, <1>5, <1>6, <1>7, <1>9, <1>10 DEF OnceInv, DeliveryInv, SenderInv

LEMMA CreatePaymentOnce ==
  ASSUME Inv, OnceInv, NEW o \in Officers, NEW a \in Apps, CreatePayment(o, a)
  PROVE  OnceInv'
<1> DEFINE x == officer[o]
           on == [x EXCEPT !.apps = x.apps \ {a}]
           y == IF x.apps = {a} THEN IdleOfficer ELSE on
<1>1. /\ HasFields(x) /\ x.pc = "create" /\ OfficerD(x) /\ BatchesInv /\ AttemptsInv
      /\ UNCHANGED <<batches, day, attempts, job>> /\ StorePayment(a, 0, "created")
  BY DEF Inv, PaymentsInv, OfficersInv, OfficerOK, HasFields, OnceInv, DeliveryInv, OfficersD, CreatePayment, At
<1>2. OfficerD(on) /\ OfficerN(on) /\ on.pc \notin Active
  <2>1. on.pc = "create" /\ on.batch = x.batch /\ on.n = x.n /\ on.list = x.list
    <3> HIDE DEF x
    <3> QED BY <1>1 DEF HasFields
  <2>2. on.batch \in 0..Len(batches) /\ on.n \in 0..Len(attempts) /\ \A p \in on.list : Numbered(p)
    BY <1>1, <2>1 DEF OfficerD
  <2> HIDE DEF on
  <2> QED BY <1>1, <2>1, <2>2, Passive DEF Active
<1>3. officer' = [officer EXCEPT ![o] = y]
  <2>1. CASE x.apps = {a}
    BY <2>1 DEF CreatePayment
  <2>2. CASE x.apps # {a}
    BY <2>2 DEF CreatePayment
  <2> QED BY <2>1, <2>2
<1>4. OfficerD(y) /\ OfficerN(y) /\ y.pc \notin Active
  <2> HIDE DEF on, x
  <2> QED BY <1>1, <1>2, IdlePassive
<1>5. 0 \in Phases /\ "created" \in Unpaid
  BY PhasesAssumption DEF Unpaid
<1> HIDE DEF y
<1> QED BY <1>1, <1>3, <1>4, <1>5, NewPaymentOnce

LEMMA AddPaymentOnce ==
  ASSUME Inv, OnceInv, NEW a \in Apps, NEW phase \in Phases, AddPayment(a, phase)
  PROVE  OnceInv'
BY NewPaymentOnce DEF AddPayment, Unpaid

\* Rows change, but nobody holds what changes and no version is inserted.
LEMMA RowsOnlyOnce ==
  ASSUME Inv, OnceInv, Grows({}), UNCHANGED <<batches, day, officer, attempts, job>>
  PROVE  OnceInv'
<1>1. /\ BatchesInv /\ VersionsInv /\ RowsInv /\ AttemptsInv /\ OfficersD /\ Turns
      /\ RowsD /\ AttemptsD /\ JobsD
      /\ NoDuplicateBatch => RowsN /\ AttemptsN /\ OfficersN /\ JobsN
  BY DEF Inv, PaymentsInv, OnceInv, DeliveryInv, SenderInv
<1>2. BatchesGrow /\ AttemptsGo /\ Kept /\ Told({}) /\ VersionsInv'
  BY <1>1, BatchesSame, AttemptsSame DEF Grows
<1>3. RowsD' /\ AttemptsD' /\ JobsD' /\ OfficersD' /\ Turns'
  BY <1>1, <1>2, RowsDStays, AttemptsDStay, JobsDStay, OfficersDStay
<1>4. NoDuplicateBatch' = NoDuplicateBatch
  BY DEF NoDuplicateBatch
<1>5. ASSUME NoDuplicateBatch PROVE RowsN' /\ AttemptsN' /\ OfficersN' /\ JobsN'
  <2>1. OfficersN'
    BY <1>1, <1>2, <1>5, OthersN, OfficersNStay
  <2> QED BY <1>1, <1>2, <1>5, <2>1, RowsNStays, AttemptsNStays, JobsNStay DEF Aside
<1>6. BatchesInv'
  BY <1>1 DEF BatchesInv
<1> QED BY <1>2, <1>3, <1>4, <1>5, <1>6 DEF OnceInv, DeliveryInv, SenderInv

LEMMA DeleteOnce ==
  ASSUME Inv, OnceInv, NEW doomed, Delete(doomed), \A r \in doomed : r.status \in Unpaid
  PROVE  OnceInv'
<1>1. Grows({})
  BY BatchesSame, DeleteGrows DEF Delete, Inv, PaymentsInv, OnceInv, DeliveryInv
<1> QED BY <1>1, RowsOnlyOnce DEF Delete

-----------------------------------------------------------------------------
(* The steps of officers that write *)

\* A payment in hand has no open version now but the one inserted.
LEMMA Replaced ==
  ASSUME NEW p, NEW q, Updates(p, q), InHand(p)
  PROVE  \A s \in Open' : s.id = q.id => s = q
<1> SUFFICES ASSUME NEW s \in Open', s.id = q.id, s # q PROVE FALSE
  OBVIOUS
<1>1. Told({q}) /\ Same(p, q) /\ \A t \in rows' : t = q \/ (SameKey(t, p) => t.closed \/ t.deleted)
  BY DEF Updates, Grows
<1>2. PICK r \in Open : Kin(r, s)
  BY <1>1, OpenBefore
<1>3. SameKey(s, p)
  BY <1>1, <1>2 DEF InHand, Kin, Same, SameKey
<1> QED BY <1>1, <1>3 DEF Open

LEMMA OfficerWritesOnce ==
  ASSUME Inv, OnceInv, NEW o \in Officers, officer[o].pc \in Active,
         NEW p, NEW q, Updates(p, q), q.user = "officer", Justified(q),
         NoDuplicateBatch => InHand(p) /\ (q.status = "sent" => q.xml /\ q.batch # 0),
         NEW y, OfficerD(y)', y.pc \in Active, y.batch = officer[o].batch, NoDuplicateBatch => OfficerN(y)',
         officer' = [officer EXCEPT ![o] = y],
         AttemptsGo, AttemptsD', NoDuplicateBatch => AttemptsN', UNCHANGED <<batches, day, job>>
  PROVE  OnceInv'
<1>1. /\ BatchesInv /\ VersionsInv /\ RowsInv /\ AttemptsInv /\ OfficersD /\ Turns
      /\ RowsD /\ AttemptsD /\ JobsD
      /\ NoDuplicateBatch => RowsN /\ AttemptsN /\ OfficersN /\ JobsN
  BY DEF Inv, PaymentsInv, OnceInv, DeliveryInv, SenderInv
<1>2. BatchesGrow /\ Grows({q}) /\ Same(p, q) /\ Kept /\ Told({q}) /\ VersionsInv'
  BY <1>1, BatchesSame DEF Updates, Grows
<1>3. RowsD' /\ JobsD'
  BY <1>1, <1>2, RowsDStays, JobsDStay
<1>4. OfficersD' /\ Turns'
  BY <1>1, <1>2, OfficersDMove
<1>5. NoDuplicateBatch' = NoDuplicateBatch
  BY DEF NoDuplicateBatch
<1>6. ASSUME NoDuplicateBatch PROVE RowsN' /\ OfficersN' /\ JobsN'
  <2>1. ~ IsSettled(q.id)
    BY <1>2, <1>6 DEF InHand, Same
  <2>2. Fits(q)
    <3>1. \A s \in Open' : s.id = q.id => s = q
      BY <1>6, Replaced
    <3>2. q.status = "paid" => /\ \A r \in rows : r.id = q.id /\ r.status = "paid" => ByJobs(r, q)
                               /\ \A s \in rows' : s.id = q.id /\ s.status = "sent" => s.closed
      BY <1>2, <2>1 DEF IsSettled, Settled, Told, Kin, Same
    <3> QED BY <1>6, <2>1, <3>1, <3>2 DEF Fits
  <2>3. RowsN'
    BY <1>1, <1>2, <1>6, <2>2, RowsNStays
  <2>4. \A i \in Jobs : Aside({q}, i)
    <3> SUFFICES ASSUME NEW i \in Jobs, job[i].pc = "update", q.id = job[i].pay.id PROVE FALSE
      BY DEF Aside
    <3>1. IsSettled(q.id)
      BY <1>1 DEF JobsD, JobD, IsSettled, SameKey, Settled
    <3> QED BY <2>1, <3>1
  <2>5. JobsN'
    BY <1>1, <1>2, <1>6, <2>4, JobsNStay
  <2>6. \A u \in Officers \ {o} : \A x : x = officer[u] => OfficerN(x)'
    <3> SUFFICES ASSUME NEW u \in Officers \ {o}, NEW x, x = officer[u] PROVE OfficerN(x)'
      OBVIOUS
    <3>1. x.pc \notin Active
      BY <1>1, <1>6, Alone
    <3> QED BY <3>1 DEF OfficerN
  <2>7. OfficersN'
    BY <1>6, <2>6, OfficersNMove
  <2> QED BY <2>3, <2>5, <2>7
<1>7. BatchesInv'
  BY <1>1 DEF BatchesInv
<1> QED BY <1>2, <1>3, <1>4, <1>5, <1>6, <1>7 DEF OnceInv, DeliveryInv, SenderInv

\* A request that hangs.
LEMMA HangOnce ==
  ASSUME Inv, OnceInv, NEW o \in Officers, Hang(o), UNCHANGED <<batches, day, job>>
  PROVE  OnceInv'
<1> DEFINE x == officer[o]
           y == [x EXCEPT !.pc = "hung"]
<1>1. HasFields(x) /\ OfficerD(x) /\ BatchesInv /\ AttemptsInv
  BY DEF Inv, PaymentsInv, OfficersInv, OfficerOK, HasFields, OnceInv, DeliveryInv, OfficersD
<1>2. officer' = [officer EXCEPT ![o] = y] /\ UNCHANGED <<rows, attempts>>
  BY DEF Hang
<1>3. OfficerD(y) /\ OfficerN(y) /\ y.pc \notin Active
  <2> HIDE DEF x
  <2> QED BY <1>1, StopsOK
<1> HIDE DEF y
<1> QED BY <1>2, <1>3, OfficerQuietly2

LEMMA SendPaymentOnce ==
  ASSUME Inv, OnceInv, NEW o \in Officers, NEW p \in officer[o].list, SendPayment(o, p)
  PROVE  OnceInv'
<1> DEFINE x == officer[o]
           given == [p EXCEPT !.batch = x.batch, !.user = "officer"]
           next == NewVersion(given)
           n == Len(attempts) + 1
           e == [id |-> p.id, app |-> p.app, phase |-> p.phase, step |-> "started",
                 put |-> FALSE, ok |-> FALSE, confirmed |-> FALSE]
           y == [x EXCEPT !.pc = "wait", !.list = x.list \ {p}, !.pay = next, !.n = n]
<1>1. /\ HasFields(x) /\ x.pc = "loop" /\ OfficerD(x) /\ IsRow(p) /\ p.status \in Unpaid /\ Numbered(p)
      /\ BatchesInv /\ AttemptsInv /\ RowsInv /\ VersionsInv /\ AttemptsD
      /\ NoDuplicateBatch => OfficerN(x) /\ AttemptsN
      /\ UNCHANGED <<batches, day, job>>
  BY DEF Inv, PaymentsInv, OfficersInv, OfficerOK, HasFields, Mine, OnceInv, DeliveryInv, SenderInv, OfficersD,
         OfficersN, OfficerD, SendPayment, At
<1>2. CASE UpdateFails(p)
  BY <1>1, <1>2, HangOnce DEF SendPayment
<1>3. CASE ~ UpdateFails(p)
  <2>1. UpdatePayment(given) /\ attempts' = Append(attempts, e) /\ officer' = [officer EXCEPT ![o] = y]
    BY <1>3 DEF SendPayment
  <2>2. Tells(given, p, p.status, "officer") /\ given.batch = x.batch
    BY <1>1, Given DEF IsRow
  <2>3. x.pc \in Active /\ x.batch \in 0..Len(batches) /\ x.batch # 0 /\ batches[x.batch] = day
    BY <1>1 DEF OfficerD, Active
  <2>4. ~ UpdateFails(given)
    BY <1>3, <2>2 DEF UpdateFails, Tells
  <2> HIDE DEF given
  <2>5. Updates(given, next)
    BY <1>1, <2>1, <2>2, <2>3, <2>4, BatchesSame, UpdateGrows DEF Tells
  <2>6. PICK q : q = next
    OBVIOUS
  <2>7. /\ Updates(given, q) /\ q.id = p.id /\ q.user = "officer" /\ q.status \in Unpaid /\ q.batch = x.batch
        /\ q \in rows' /\ ~ q.closed /\ ~ q.deleted /\ Grows({q}) /\ Kept /\ Told({q}) /\ VersionsInv'
        /\ q.ver \in Nat
    BY <1>1, <2>2, <2>5, <2>6 DEF Updates, Grows, Same, Tells, Inserted
  <2>8. q.status \notin Settled
    BY <2>7 DEF Unpaid, Settled
  <2>9. /\ attempts' \in Seq(AttemptType) /\ Len(attempts') = n /\ attempts'[n] = e
        /\ \A m \in 1..Len(attempts) : attempts'[m] = attempts[m]
        /\ DOMAIN attempts = 1..Len(attempts) /\ DOMAIN attempts' = 1..n /\ Len(attempts) \in Nat
    <3>1. e \in AttemptType
      BY <1>1 DEF IsRow, AttemptType
    <3> HIDE DEF e
    <3> QED BY <1>1, <2>1, <3>1, AppendProperties, LenProperties DEF AttemptsInv
  <2>10. /\ attempts'[n].id = p.id /\ attempts'[n].step = "started" /\ ~ attempts'[n].put /\ ~ attempts'[n].ok
         /\ ~ attempts'[n].confirmed
    BY <2>9
  <2> HIDE DEF e
  <2>11. AttemptsGo
    BY <2>9 DEF AttemptsGo
  <2>12. AttemptsD'
    <3> SUFFICES ASSUME NEW m \in DOMAIN attempts', NEW a, a = attempts'[m] PROVE AttemptD(a)
      BY <1>1, <2>7, AttemptsDMove
    <3>1. CASE m = n
      BY <2>10, <3>1 DEF AttemptD
    <3>2. CASE m # n
      BY <1>1, <2>9, <3>2 DEF AttemptsD
    <3> QED BY <3>1, <3>2
  <2>13. PICK z : z = y
    OBVIOUS
  <2>14. /\ HasFields(z) /\ z.pc = "wait" /\ z.batch = x.batch /\ z.list = x.list \ {p}
         /\ z.pay = q /\ z.n = n /\ z.pc \in Active
    <3> HIDE DEF x, next, n
    <3> QED BY <1>1, <2>6, <2>13 DEF HasFields, Active
  <2>15. OfficerD(z)'
    <3>1. \A r \in z.list : Numbered(r)'
      BY <1>1, <2>14, BatchesSame, NumberedStays DEF OfficerD
    <3>2. Numbered(q)'
      BY <1>1, <2>3, <2>7 DEF Numbered
    <3>3. z.batch \in 0..Len(batches') /\ z.batch # 0 /\ batches'[z.batch] = day' /\ z.n \in 0..Len(attempts') /\ z.n # 0
      BY <1>1, <2>3, <2>9, <2>14
    <3>4. attempts'[z.n].id = z.pay.id
      BY <2>7, <2>10, <2>14
    <3> QED BY <2>14, <3>1, <3>2, <3>3, <3>4 DEF OfficerD, Numbered
  <2>16. ASSUME NoDuplicateBatch PROVE InHand(given) /\ OfficerN(z)' /\ AttemptsN'
    <3>1. /\ \A r \in x.list : InHand(r)
          /\ \A r, s \in x.list : r.id = s.id => r = s
          /\ AttemptsN
      BY <1>1, <2>3, <2>16 DEF OfficerN
    <3>2. given.id = p.id /\ given.ver = p.ver
      <4>1. given.ver = p.ver
        BY <1>1 DEF given, IsRow
      <4> QED BY <2>2, <4>1 DEF Tells
    <3>3. InHand(given)
      BY <3>1, <3>2 DEF InHand
    <3>4. \A r \in z.list : InHand(r)' /\ r.id # q.id
      <4> SUFFICES ASSUME NEW r \in z.list PROVE InHand(r)' /\ r.id # q.id
        OBVIOUS
      <4>1. r \in x.list /\ r.id # q.id /\ InHand(r)
        BY <2>7, <2>14, <3>1
      <4> QED BY <2>7, <4>1, InHandStays
    <3>5. InHand(q)'
      <4>1. ~ IsSettled(q.id)
        BY <2>7, <3>2, <3>3 DEF InHand
      <4>2. ~ IsSettled(q.id)'
        BY <2>7, <2>8, <4>1, SettledBy
      <4>3. \A s \in Open' : s.id = q.id => s = q
        BY <2>7, <3>3, Replaced
      <4> QED BY <4>2, <4>3 DEF InHand
    <3>6. AwaitsInvoice(z.pay, z.n)'
      <4>1. \A s \in rows' : SameKey(s, q) => s = q
        BY <2>7 DEF VersionsInv, SameKey
      <4> QED BY <2>3, <2>7, <2>10, <2>14, <4>1 DEF AwaitsInvoice, SameKey
    <3>7. OfficerN(z)'
      <4>1. \A r, s \in z.list : r.id = s.id => r = s
        BY <2>14, <3>1
      <4>2. InHand(z.pay)' /\ \A r \in z.list : r.id # z.pay.id
        BY <2>14, <3>4, <3>5 DEF InHand
      <4> QED BY <2>9, <2>14, <3>4, <3>6, <4>1, <4>2 DEF OfficerN
    <3>8. AttemptsN'
      <4> SUFFICES ASSUME NEW k \in DOMAIN attempts', NEW m \in DOMAIN attempts',
                          attempts'[k].id = attempts'[m].id, attempts'[k].confirmed
                   PROVE  m <= k
        BY DEF AttemptsN
      <4>1. k # n
        BY <2>10
      <4>2. k \in DOMAIN attempts /\ attempts'[k] = attempts[k]
        BY <2>9, <4>1
      <4>3. IsSettled(attempts[k].id)
        BY <1>1, <3>1, <4>2 DEF AttemptsD, AttemptD
      <4>4. m # n
        BY <2>10, <3>2, <3>3, <4>2, <4>3 DEF InHand
      <4> QED BY <2>9, <3>1, <4>2, <4>4 DEF AttemptsN
    <3> QED BY <3>3, <3>7, <3>8
  <2>17. Justified(q)
    BY <2>8 DEF Justified, Settled
  <2>18. q.status # "sent"
    BY <2>8 DEF Settled
  <2> HIDE DEF y
  <2> QED BY <1>1, <2>1, <2>3, <2>7, <2>11, <2>12, <2>13, <2>14, <2>15, <2>16, <2>17, <2>18, OfficerWritesOnce
<1> QED BY <1>2, <1>3

\* The request that settles a payment keeps the rest of its list in hand.
LEMMA SettlesOK ==
  ASSUME NEW x, OfficerN(x), x.pc \in Active, NEW z, z.pc = "revoke", z.list \subseteq x.list,
         NEW q, Told({q}), \A r \in z.list : r.id # q.id
  PROVE  OfficerN(z)'
<1>1. \A r \in z.list : InHand(r) /\ InHand(r)'
  <2> SUFFICES ASSUME NEW r \in z.list PROVE InHand(r) /\ InHand(r)'
    OBVIOUS
  <2>1. InHand(r) /\ r.id # q.id
    BY DEF OfficerN
  <2> QED BY <2>1, InHandStays
<1>2. \A r, s \in z.list : r.id = s.id => r = s
  BY DEF OfficerN
<1> QED BY <1>1, <1>2 DEF OfficerN

LEMMA MarkSentOnce ==
  ASSUME Inv, OnceInv, NEW o \in Officers, MarkSent(o)
  PROVE  OnceInv'
<1> DEFINE x == officer[o]
           p == x.pay
           given == [p EXCEPT !.status = "sent", !.user = "officer"]
           next == NewVersion(given)
           n == x.n
           e == [attempts[n] EXCEPT !.confirmed = TRUE]
           y == [x EXCEPT !.pc = "revoke", !.pay = Payment0, !.n = 0]
<1>1. /\ HasFields(x) /\ x.pc = "mark" /\ OfficerD(x) /\ OfficerOK(x)
      /\ BatchesInv /\ AttemptsInv /\ RowsInv /\ VersionsInv /\ AttemptsD
      /\ NoDuplicateBatch => OfficerN(x) /\ AttemptsN
      /\ UNCHANGED <<batches, day, job>>
  BY DEF Inv, PaymentsInv, OfficersInv, OfficerOK, HasFields, OnceInv, DeliveryInv, SenderInv, OfficersD,
         OfficersN, MarkSent, At
<1>2. CASE p = Payment0 \/ (p # Payment0 /\ UpdateFails(p))
  BY <1>1, <1>2, HangOnce DEF MarkSent
<1>3. CASE ~ (p = Payment0 \/ (p # Payment0 /\ UpdateFails(p)))
  <2>0. IsRow(p) /\ Numbered(p)
    BY <1>1, <1>3 DEF OfficerOK, Mine, OfficerD
  <2>1. UpdatePayment(given) /\ attempts' = [attempts EXCEPT ![n] = e] /\ officer' = [officer EXCEPT ![o] = y]
    BY <1>3 DEF MarkSent
  <2>2. Tells(given, p, "sent", "officer")
    BY <2>0, Marked DEF Statuses, Users
  <2>3. given.batch = p.batch /\ given.ver = p.ver /\ given.xml = p.xml
    <3> HIDE DEF p
    <3> QED BY <2>0 DEF IsRow
  <2>4. /\ x.pc \in Active /\ x.batch \in 0..Len(batches) /\ x.batch # 0 /\ batches[x.batch] = day
        /\ n \in DOMAIN attempts /\ attempts[n].id = p.id /\ attempts[n].put
    <3>1. x.n \in 0..Len(attempts) /\ x.n # 0 /\ attempts[x.n].id = x.pay.id /\ attempts[x.n].put
      BY <1>1, <1>3 DEF OfficerD
    <3>2. Len(attempts) \in Nat /\ DOMAIN attempts = 1..Len(attempts)
      BY <1>1 DEF AttemptsInv
    <3>3. n \in DOMAIN attempts
      BY <3>1, <3>2
    <3> QED BY <1>1, <3>1, <3>3 DEF OfficerD, Active
  <2>5. ~ UpdateFails(given)
    BY <1>3, <2>2 DEF UpdateFails, Tells
  <2> HIDE DEF given
  <2>6. Updates(given, next)
    BY <1>1, <2>0, <2>1, <2>2, <2>3, <2>5, BatchesSame, UpdateGrows DEF Tells, Numbered
  <2>7. PICK q : q = next
    OBVIOUS
  <2>8. /\ Updates(given, q) /\ q.id = p.id /\ q.user = "officer" /\ q.status = "sent" /\ q.batch = p.batch
        /\ q.xml = p.xml /\ q \in rows' /\ Kept /\ Told({q})
    BY <2>2, <2>3, <2>6, <2>7 DEF Updates, Grows, Same, Tells
  <2>9. PICK a : a = e
    OBVIOUS
  <2>10. a \in AttemptType /\ a.id = p.id /\ a.put /\ a.confirmed /\ a.ok = attempts[n].ok /\ a.step = attempts[n].step
    <3>1. attempts[n] \in AttemptType
      BY <1>1, <2>4 DEF AttemptsInv
    <3> HIDE DEF p, n
    <3> QED BY <2>4, <2>9, <3>1 DEF AttemptType
  <2> HIDE DEF e
  <2>11. /\ attempts' \in Seq(AttemptType) /\ DOMAIN attempts' = DOMAIN attempts /\ Len(attempts') = Len(attempts)
         /\ \A m \in DOMAIN attempts : attempts'[m] = IF m = n THEN a ELSE attempts[m]
    <3>1. attempts \in Seq(AttemptType) /\ attempts' = [attempts EXCEPT ![n] = a] /\ n \in DOMAIN attempts
      BY <1>1, <2>1, <2>4, <2>9 DEF AttemptsInv
    <3> HIDE DEF n
    <3> QED BY <2>10, <3>1, ExceptSeq
  <2>12. AttemptsGo
    <3>1. Len(attempts) \in Nat
      BY <1>1 DEF AttemptsInv
    <3> QED BY <2>4, <2>10, <2>11, <3>1 DEF AttemptsGo
  <2>13. AttemptsD'
    <3> SUFFICES ASSUME NEW m \in DOMAIN attempts', NEW b, b = attempts'[m] PROVE AttemptD(b) \/ AttemptD(b)'
      BY <1>1, <2>8, AttemptsDMove
    <3>1. CASE m = n
      <4>1. IsSettled(b.id)'
        BY <2>8, <2>10, <2>11, <3>1 DEF IsSettled, Settled
      <4>2. (b.ok => b.put) /\ (b.put => b.step = "ended")
        BY <1>1, <2>4, <2>10, <2>11, <3>1 DEF AttemptsD, AttemptD
      <4> QED BY <4>1, <4>2 DEF AttemptD
    <3>2. CASE m # n
      BY <1>1, <2>11, <3>2 DEF AttemptsD
    <3> QED BY <3>1, <3>2
  <2>14. PICK z : z = y
    OBVIOUS
  <2>15. HasFields(z) /\ z.pc = "revoke" /\ z.batch = x.batch /\ z.list = x.list /\ z.n = 0 /\ z.pc \in Active
    <3> HIDE DEF x
    <3> QED BY <1>1, <2>14 DEF HasFields, Active
  <2>16. OfficerD(z)'
    <3>1. \A r \in z.list : Numbered(r)'
      BY <1>1, <2>15, BatchesSame, NumberedStays DEF OfficerD
    <3>2. Len(attempts') \in Nat
      BY <2>11
    <3>3. z.batch \in 0..Len(batches') /\ z.batch # 0 /\ batches'[z.batch] = day' /\ z.n \in 0..Len(attempts')
      BY <1>1, <2>4, <2>15, <3>2
    <3> QED BY <2>15, <3>1, <3>3 DEF OfficerD, Numbered
  <2>17. ASSUME NoDuplicateBatch PROVE InHand(given) /\ q.xml /\ q.batch # 0 /\ OfficerN(z)' /\ AttemptsN'
    <3>1. /\ OfficerN(x) /\ AttemptsN /\ n = Len(attempts)
          /\ InHand(p) /\ (\A r \in x.list : r.id # p.id) /\ p.xml /\ p.batch # 0
      BY <1>1, <1>3, <2>4, <2>17 DEF OfficerN
    <3>2. InHand(given)
      BY <2>2, <2>3, <3>1 DEF InHand, Tells
    <3>3. OfficerN(z)'
      BY <2>4, <2>8, <2>15, <3>1, SettlesOK
    <3>4. AttemptsN'
      <4> SUFFICES ASSUME NEW k \in DOMAIN attempts', NEW m \in DOMAIN attempts',
                          attempts'[k].id = attempts'[m].id, attempts'[k].confirmed
                   PROVE  m <= k
        BY DEF AttemptsN
      <4>1. DOMAIN attempts = 1..Len(attempts) /\ Len(attempts) \in Nat
        BY <1>1 DEF AttemptsInv
      <4>2. \A i \in DOMAIN attempts : attempts'[i].id = attempts[i].id
        BY <2>4, <2>10, <2>11
      <4>3. CASE k = n
        BY <2>11, <3>1, <4>1, <4>3
      <4>4. CASE k # n
        BY <2>11, <3>1, <4>2, <4>4 DEF AttemptsN
      <4> QED BY <4>3, <4>4
    <3> QED BY <2>8, <3>1, <3>2, <3>3, <3>4
  <2>18. Justified(q)
    BY <2>4, <2>8 DEF Justified
  <2> HIDE DEF y
  <2> QED BY <1>1, <2>1, <2>4, <2>8, <2>12, <2>13, <2>14, <2>15, <2>16, <2>17, <2>18, OfficerWritesOnce
<1> QED BY <1>2, <1>3

LEMMA SetPaymentPaidOnce ==
  ASSUME Inv, OnceInv, NEW o \in Officers, NEW p \in officer[o].list, SetPaymentPaid(o, p)
  PROVE  OnceInv'
<1> DEFINE x == officer[o]
           given == [p EXCEPT !.status = "paid", !.user = "officer"]
           next == NewVersion(given)
           y == [x EXCEPT !.pc = "revoke", !.list = x.list \ {p}]
<1>1. /\ HasFields(x) /\ x.pc = "loop" /\ OfficerD(x) /\ IsRow(p) /\ Numbered(p)
      /\ BatchesInv /\ AttemptsInv /\ RowsInv /\ VersionsInv /\ AttemptsD
      /\ NoDuplicateBatch => OfficerN(x) /\ AttemptsN
      /\ UNCHANGED <<batches, day, attempts, job>>
  BY DEF Inv, PaymentsInv, OfficersInv, OfficerOK, HasFields, Mine, OnceInv, DeliveryInv, SenderInv, OfficersD,
         OfficersN, OfficerD, SetPaymentPaid, At
<1>2. CASE UpdateFails(p)
  BY <1>1, <1>2, IdlePassive, OfficerQuietly2 DEF SetPaymentPaid
<1>3. CASE ~ UpdateFails(p)
  <2>1. UpdatePayment(given) /\ officer' = [officer EXCEPT ![o] = y]
    BY <1>3 DEF SetPaymentPaid
  <2>2. Tells(given, p, "paid", "officer")
    BY <1>1, Marked DEF Statuses, Users
  <2>3. given.batch = p.batch /\ given.ver = p.ver
    BY <1>1 DEF IsRow
  <2>4. x.pc \in Active /\ x.batch \in 0..Len(batches) /\ x.batch # 0 /\ batches[x.batch] = day
    BY <1>1 DEF OfficerD, Active
  <2>5. ~ UpdateFails(given)
    BY <1>3, <2>2 DEF UpdateFails, Tells
  <2> HIDE DEF given
  <2>6. Updates(given, next)
    BY <1>1, <2>1, <2>2, <2>3, <2>5, BatchesSame, UpdateGrows DEF Tells, Numbered
  <2>7. PICK q : q = next
    OBVIOUS
  <2>8. Updates(given, q) /\ q.id = p.id /\ q.user = "officer" /\ q.status = "paid" /\ Kept /\ Told({q})
    BY <2>2, <2>6, <2>7 DEF Updates, Grows, Same, Tells
  <2>9. AttemptsGo /\ AttemptsD' /\ (NoDuplicateBatch => AttemptsN')
    BY <1>1, <2>8, AttemptsSame, AttemptsDStay, AttemptsNStays
  <2>10. PICK z : z = y
    OBVIOUS
  <2>11. HasFields(z) /\ z.pc = "revoke" /\ z.batch = x.batch /\ z.list = x.list \ {p} /\ z.n = x.n /\ z.pc \in Active
    <3> HIDE DEF x
    <3> QED BY <1>1, <2>10 DEF HasFields, Active
  <2>12. OfficerD(z)'
    <3>1. \A r \in z.list : Numbered(r)'
      BY <1>1, <2>11, BatchesSame, NumberedStays DEF OfficerD
    <3>2. z.batch \in 0..Len(batches') /\ z.batch # 0 /\ batches'[z.batch] = day' /\ z.n \in 0..Len(attempts')
      BY <1>1, <2>4, <2>11 DEF OfficerD
    <3> QED BY <2>11, <3>1, <3>2 DEF OfficerD, Numbered
  <2>13. ASSUME NoDuplicateBatch PROVE InHand(given) /\ OfficerN(z)'
    <3>1. OfficerN(x) /\ InHand(p) /\ \A r \in x.list : r.id = p.id => r = p
      BY <1>1, <2>4, <2>13 DEF OfficerN
    <3>2. InHand(given)
      BY <2>2, <2>3, <3>1 DEF InHand, Tells
    <3>3. \A r \in z.list : r.id # q.id
      BY <2>8, <2>11, <3>1
    <3>4. OfficerN(z)'
      BY <2>4, <2>8, <2>11, <3>1, <3>3, SettlesOK
    <3> QED BY <3>2, <3>4
  <2>14. Justified(q) /\ q.status # "sent"
    BY <2>8 DEF Justified
  <2> HIDE DEF y
  <2> QED BY <1>1, <2>1, <2>4, <2>8, <2>9, <2>10, <2>11, <2>12, <2>13, <2>14, OfficerWritesOnce
<1> QED BY <1>2, <1>3

-----------------------------------------------------------------------------
(* The steps of attempts *)

\* An attempt goes on as a; the requests that wait for it still wait for its invoice.
LEMMA AttemptStepOnce ==
  ASSUME Inv, OnceInv, Grows({}), NEW n \in DOMAIN attempts, NEW a \in AttemptType,
         attempts' = [attempts EXCEPT ![n] = a],
         a.id = attempts[n].id, a.confirmed = attempts[n].confirmed, attempts[n].put => a.put,
         a.ok => a.put, a.put => a.step = "ended",
         NoDuplicateBatch => \A o \in Officers : \A x :
           x = officer[o] /\ x.pc = "wait" /\ x.n = n => AwaitsInvoice(x.pay, x.n)',
         UNCHANGED <<batches, day, officer, job>>
  PROVE  OnceInv'
<1>1. /\ BatchesInv /\ VersionsInv /\ RowsInv /\ AttemptsInv /\ OfficersD /\ Turns
      /\ RowsD /\ AttemptsD /\ JobsD
      /\ NoDuplicateBatch => RowsN /\ AttemptsN /\ OfficersN /\ JobsN
  BY DEF Inv, PaymentsInv, OnceInv, DeliveryInv, SenderInv
<1>2. BatchesGrow /\ Kept /\ Told({}) /\ VersionsInv'
  BY <1>1, BatchesSame DEF Grows
<1>3. /\ attempts' \in Seq(AttemptType) /\ DOMAIN attempts' = DOMAIN attempts /\ Len(attempts') = Len(attempts)
      /\ \A m \in DOMAIN attempts : attempts'[m] = IF m = n THEN a ELSE attempts[m]
  BY <1>1, ExceptSeq DEF AttemptsInv
<1>4. AttemptsGo
  <2>1. Len(attempts) \in Nat
    BY <1>1 DEF AttemptsInv
  <2> QED BY <1>3, <2>1 DEF AttemptsGo
<1>5. AttemptsD'
  <2> SUFFICES ASSUME NEW m \in DOMAIN attempts', NEW b, b = attempts'[m] PROVE AttemptD(b)
    BY <1>1, <1>2, AttemptsDMove
  <2> QED BY <1>1, <1>3 DEF AttemptsD, AttemptD
<1>6. RowsD' /\ JobsD' /\ OfficersD' /\ Turns'
  BY <1>1, <1>2, <1>4, RowsDStays, JobsDStay, OfficersDStay
<1>7. NoDuplicateBatch' = NoDuplicateBatch
  BY DEF NoDuplicateBatch
<1>8. ASSUME NoDuplicateBatch PROVE RowsN' /\ AttemptsN' /\ OfficersN' /\ JobsN'
  <2>1. AttemptsN'
    BY <1>1, <1>3, <1>8, AttemptsNStays
  <2>2. ASSUME NEW o \in Officers, NEW x, x = officer[o] PROVE OfficerN(x)'
    <3>1. OfficerN(x) /\ OfficerD(x) /\ Apart({}, x)
      BY <1>1, <1>8, <2>2 DEF OfficersN, OfficersD, Apart
    <3>2. CASE x.pc = "wait" /\ x.n = n
      <4>1. AwaitsInvoice(x.pay, x.n)'
        BY <1>8, <2>2, <3>2
      <4> QED BY <1>2, <1>3, <3>1, <4>1, OfficerNGoesOn
    <3>3. CASE x.pc = "wait" /\ x.n # n
      <4>1. x.n \in 0..Len(attempts) /\ x.n # 0 /\ Len(attempts) \in Nat /\ DOMAIN attempts = 1..Len(attempts)
        BY <1>1, <3>1, <3>3 DEF OfficerD, AttemptsInv
      <4>2. x.n \in DOMAIN attempts
        BY <4>1
      <4>3. attempts'[x.n] = attempts[x.n]
        BY <1>3, <3>3, <4>2
      <4> QED BY <1>2, <1>3, <3>1, <4>3, OfficerNStays
    <3>4. CASE x.pc # "wait"
      BY <1>2, <1>3, <3>1, <3>4, OfficerNStays
    <3> QED BY <3>2, <3>3, <3>4
  <2>3. OfficersN'
    BY <2>2, OfficersNStay
  <2> QED BY <1>1, <1>2, <1>8, <2>1, <2>3, RowsNStays, JobsNStay DEF Aside
<1>9. BatchesInv'
  BY <1>1 DEF BatchesInv
<1> QED BY <1>2, <1>5, <1>6, <1>7, <1>8, <1>9 DEF OnceInv, DeliveryInv, SenderInv

\* The invoice is stored with the version the attempt was made for, unless it is deleted.
LEMMA StoreXmlOnce ==
  ASSUME Inv, OnceInv, NEW n \in DOMAIN attempts, StoreOutgoingPaymentXml(n)
  PROVE  OnceInv'
<1> DEFINE found == Newest(attempts[n].id)
           stored == {r \in found : r.status \in Unpaid}
           e == [attempts[n] EXCEPT !.step = IF found = {} THEN "ended" ELSE "stored"]
<1>1. /\ attempts[n].step = "started" /\ attempts' = [attempts EXCEPT ![n] = e]
      /\ rows' = (rows \ stored) \cup {[r EXCEPT !.xml = TRUE] : r \in stored}
      /\ UNCHANGED <<batches, day, officer, job>>
  BY DEF StoreOutgoingPaymentXml
<1>2. /\ BatchesInv /\ VersionsInv /\ RowsInv /\ AttemptsInv /\ OfficersD /\ AttemptsD
      /\ NoDuplicateBatch => OfficersN
  BY DEF Inv, PaymentsInv, OnceInv, DeliveryInv, SenderInv
<1>3. stored \subseteq rows
  BY DEF Newest, Open
<1>4. \A r \in Open : r.id = attempts[n].id /\ r.status \in Unpaid /\ (\A s \in Open : s.id = r.id => s.ver = r.ver)
        => r \in stored
  <2>1. \A r \in Open : r.ver \in Nat
    BY <1>2 DEF VersionsInv, Numbered, Open
  <2> QED BY <2>1 DEF Newest
<1>5. e \in AttemptType /\ e.id = attempts[n].id /\ e.confirmed = attempts[n].confirmed
      /\ e.put = attempts[n].put /\ ~ e.ok /\ ~ e.put
  <2>1. attempts[n] \in AttemptType /\ ~ attempts[n].ok /\ ~ attempts[n].put
    BY <1>1, <1>2 DEF AttemptsInv, AttemptsD, AttemptD
  <2>2. (IF found = {} THEN "ended" ELSE "stored") \in {"started", "stored", "ended"}
    OBVIOUS
  <2> HIDE DEF found
  <2> QED BY <2>1, <2>2 DEF AttemptType
<1> HIDE DEF e, stored
<1>6. Grows({}) /\ \A s \in rows' : \A r \in stored : SameKey(r, s) => s.xml
  BY <1>1, <1>2, <1>3, BatchesSame, XmlGrows
<1>7. Told({}) /\ VersionsInv'
  BY <1>6 DEF Grows
<1>8. ASSUME NoDuplicateBatch, NEW o \in Officers, NEW x, x = officer[o], x.pc = "wait", x.n = n
      PROVE  AwaitsInvoice(x.pay, x.n)'
  <2>1. /\ AwaitsInvoice(x.pay, x.n) /\ InHand(x.pay) /\ attempts[n].id = x.pay.id
    BY <1>2, <1>8 DEF OfficersN, OfficerN, OfficersD, OfficerD, Active
  <2> SUFFICES ASSUME NEW s \in rows', SameKey(s, x.pay)
               PROVE  ~ s.closed /\ s.status \in Unpaid /\ s.batch # 0 /\ (s.deleted \/ s.xml)
    BY DEF AwaitsInvoice, SameKey
  <2>2. PICK r \in rows : Kin(r, s) /\ (s.closed => r.closed)
    BY <1>7 DEF Told
  <2>3. SameKey(r, x.pay) /\ SameKey(r, s)
    BY <2>2 DEF Kin, Same, SameKey
  <2>4. ~ r.closed /\ r.status \in Unpaid /\ r.batch # 0
    BY <2>1, <2>3 DEF AwaitsInvoice
  <2>5. ~ s.closed /\ s.status \in Unpaid /\ s.batch # 0
    BY <2>2, <2>4 DEF Kin, Same
  <2>6. CASE r.deleted
    BY <2>2, <2>5, <2>6 DEF Kin
  <2>7. CASE ~ r.deleted
    <3>1. r \in Open /\ r.id = attempts[n].id
      BY <2>1, <2>3, <2>4, <2>7 DEF Open, SameKey
    <3>2. r \in stored
      BY <1>4, <2>1, <2>3, <2>4, <3>1 DEF InHand, SameKey
    <3> QED BY <1>6, <2>3, <2>5, <3>2
  <2> QED BY <2>6, <2>7
<1> QED BY <1>1, <1>5, <1>6, <1>8, AttemptStepOnce

LEMMA PutInvoiceOnce ==
  ASSUME Inv, OnceInv, NEW n \in DOMAIN attempts, PutInvoice(n)
  PROVE  OnceInv'
<1>1. /\ attempts[n].step = "stored" /\ UNCHANGED <<rows, batches, day, officer, job>>
      /\ \E put, ok \in BOOLEAN :
           (ok => put) /\ attempts' = [attempts EXCEPT ![n] = [@ EXCEPT !.step = "ended", !.put = put, !.ok = ok]]
  BY DEF PutInvoice
<1>2. PICK put \in BOOLEAN, ok \in BOOLEAN :
        (ok => put) /\ attempts' = [attempts EXCEPT ![n] = [attempts[n] EXCEPT !.step = "ended", !.put = put, !.ok = ok]]
  BY <1>1
<1> DEFINE e == [attempts[n] EXCEPT !.step = "ended", !.put = put, !.ok = ok]
<1>3. /\ VersionsInv /\ RowsInv /\ BatchesInv /\ AttemptsInv
      /\ NoDuplicateBatch => OfficersN
  BY DEF Inv, PaymentsInv, OnceInv, DeliveryInv, SenderInv
<1>4. ~ attempts[n].put
  BY <1>1 DEF OnceInv, DeliveryInv, AttemptsD, AttemptD
<1>5. e \in AttemptType /\ e.id = attempts[n].id /\ e.confirmed = attempts[n].confirmed
      /\ (e.ok => e.put) /\ e.step = "ended"
  <2>1. attempts[n] \in AttemptType
    BY <1>3 DEF AttemptsInv
  <2> QED BY <1>2, <2>1 DEF AttemptType
<1>6. Grows({}) /\ Told({})
  BY <1>1, <1>3, BatchesSame, QuietlyGrow DEF Grows
<1>7. ASSUME NoDuplicateBatch, NEW o \in Officers, NEW x, x = officer[o], x.pc = "wait", x.n = n
      PROVE  AwaitsInvoice(x.pay, x.n)'
  <2>1. AwaitsInvoice(x.pay, x.n) /\ attempts[x.n].step # "started"
    BY <1>1, <1>3, <1>7 DEF OfficersN, OfficerN, Active
  <2>2. PICK p, m : p = x.pay /\ m = x.n
    OBVIOUS
  <2>3. AwaitsInvoice(p, m)'
    BY <1>6, <2>1, <2>2, AwaitsStays
  <2> QED BY <2>2, <2>3
<1>8. attempts' = [attempts EXCEPT ![n] = e]
  BY <1>2
<1>9. UNCHANGED <<batches, day, officer, job>>
  BY <1>1
<1> HIDE DEF e
<1> QED BY <1>4, <1>5, <1>6, <1>7, <1>8, <1>9, AttemptStepOnce

-----------------------------------------------------------------------------
(* The steps of the feedback job *)

LEMMA JobQuietOnce ==
  ASSUME Inv, OnceInv, NEW j \in Jobs, NEW y, JobD(y), NoDuplicateBatch => JobN(y),
         job' = [job EXCEPT ![j] = y], UNCHANGED <<rows, batches, day, officer, attempts>>
  PROVE  OnceInv'
<1>1. /\ BatchesGrow /\ AttemptsGo /\ Grows({}) /\ Kept /\ Told({}) /\ VersionsInv'
      /\ RowsD' /\ AttemptsD' /\ NoDuplicateBatch' = NoDuplicateBatch
      /\ NoDuplicateBatch => RowsN' /\ AttemptsN'
  BY Untouched
<1>2. OfficersD' /\ Turns'
  BY <1>1, OfficersDStay DEF OnceInv, DeliveryInv
<1>3. NoDuplicateBatch => OfficersN'
  BY <1>1, OthersN, OfficersNStay DEF OnceInv, SenderInv
<1>4. PICK z : z = y
  OBVIOUS
<1>5. JobsD'
  <2>1. JobD(z)'
    BY <1>1, <1>4, JobDStays
  <2> QED BY <1>1, <1>4, <2>1, JobsDMove DEF OnceInv, DeliveryInv
<1>6. ASSUME NoDuplicateBatch PROVE JobsN'
  <2>1. JobN(z)'
    BY <1>1, <1>4, <1>6, JobNStays
  <2>2. JobsN /\ \A i \in Jobs : Aside({}, i)
    BY <1>6 DEF OnceInv, SenderInv, Aside
  <2> QED BY <1>1, <1>4, <2>1, <2>2, JobsNMove
<1>7. BatchesInv'
  BY DEF OnceInv, DeliveryInv, BatchesInv
<1> QED BY <1>1, <1>2, <1>3, <1>5, <1>6, <1>7 DEF OnceInv, DeliveryInv, SenderInv

\* A run that ends, or is at its files: nothing is about to be paid.
LEMMA NotUpdating ==
  ASSUME NEW y, y.pc # "update"
  PROVE  JobD(y) /\ JobN(y)
BY DEF JobD, JobN

LEMMA JobEndsOnce ==
  ASSUME Inv, OnceInv, NEW j \in Jobs, JobEnds(j), UNCHANGED <<rows, batches, day, officer, attempts>>
  PROVE  OnceInv'
<1>1. IdleJob.pc # "update"
  BY DEF IdleJob
<1> QED BY <1>1, NotUpdating, JobQuietOnce DEF JobEnds

LEMMA JobsQuietSteps ==
  ASSUME Inv, OnceInv, NEW j \in Jobs,
         JobFails(j) \/ GetRemoteFileList(j) \/ DeleteRemoteFile(j) \/ AllFilesSeen(j)
  PROVE  OnceInv'
<1> DEFINE x == job[j]
<1>0. x \in [pc : {x.pc}, todo : {x.todo}, file : {x.file}, pay : {x.pay}]
  BY DEF Inv, PaymentsInv, JobsInv, JobOK
<1>1. CASE JobFails(j)
  BY <1>1, JobEndsOnce DEF JobFails
<1>2. CASE AllFilesSeen(j)
  BY <1>2, JobEndsOnce DEF AllFilesSeen
<1>3. CASE GetRemoteFileList(j)
  <2> DEFINE y == [x EXCEPT !.pc = "files", !.todo = files]
  <2>1. y.pc = "files"
    <3> HIDE DEF x
    <3> QED BY <1>0
  <2>2. job' = [job EXCEPT ![j] = y] /\ UNCHANGED <<rows, batches, day, officer, attempts>>
    BY <1>3 DEF GetRemoteFileList
  <2> HIDE DEF y
  <2> QED BY <2>1, <2>2, NotUpdating, JobQuietOnce
<1>4. CASE DeleteRemoteFile(j)
  <2> DEFINE y == [x EXCEPT !.pc = "files", !.file = 0, !.todo = x.todo \ {x.file}]
  <2>1. y.pc = "files"
    <3> HIDE DEF x
    <3> QED BY <1>0
  <2>2. JobEnds(j) \/ job' = [job EXCEPT ![j] = y]
    BY <1>4 DEF DeleteRemoteFile
  <2>3. UNCHANGED <<rows, batches, day, officer, attempts>>
    BY <1>4 DEF DeleteRemoteFile
  <2> HIDE DEF y
  <2> QED BY <2>1, <2>2, <2>3, NotUpdating, JobQuietOnce, JobEndsOnce
<1> QED BY <1>1, <1>2, <1>3, <1>4

\* The version found was sent, and no other of its payment is paid.
LEMMA FindPaymentsOnce ==
  ASSUME Inv, OnceInv, NEW j \in Jobs, NEW n \in job[j].todo, FindPaymentsByResponse(j, n)
  PROVE  OnceInv'
<1> DEFINE x == job[j]
           found == OfFile(n)
           p == CHOOSE r \in found : TRUE
           atDelete == [x EXCEPT !.pc = "delete", !.file = n]
           atUpdate == [x EXCEPT !.pc = "update", !.file = n, !.pay = p]
           seen == [x EXCEPT !.todo = x.todo \ {n}]
<1>1. /\ x \in [pc : {x.pc}, todo : {x.todo}, file : {x.file}, pay : {x.pay}] /\ x.pc = "files"
      /\ VersionsInv /\ (NoDuplicateBatch => RowsN)
      /\ UNCHANGED <<rows, batches, day, officer, attempts>>
  BY DEF Inv, PaymentsInv, JobsInv, JobOK, OnceInv, SenderInv, FindPaymentsByResponse
<1>2. \/ JobEnds(j)
      \/ job' = [job EXCEPT ![j] = atDelete]
      \/ found # {} /\ MaySetPaid(p) /\ job' = [job EXCEPT ![j] = atUpdate]
      \/ job' = [job EXCEPT ![j] = seen]
  <2> HIDE DEF found, p
  <2> QED BY DEF FindPaymentsByResponse, found, p
<1>3. atDelete.pc = "delete" /\ seen.pc = "files" /\ atUpdate.pc = "update" /\ atUpdate.pay = p
  <2> HIDE DEF x, p
  <2> QED BY <1>1
<1>4. ASSUME found # {}, MaySetPaid(p) PROVE JobD(atUpdate) /\ (NoDuplicateBatch => JobN(atUpdate))
  <2>1. p \in found
    <3> HIDE DEF found
    <3> QED BY <1>4
  <2>2. p \in rows /\ ~ p.closed /\ p.status = "sent"
    <3>1. p \in rows /\ ~ p.closed
      BY <2>1 DEF OfFile, Open
    <3> HIDE DEF p
    <3> QED BY <1>4, <3>1 DEF MaySetPaid
  <2> HIDE DEF p, atUpdate
  <2>3. JobD(atUpdate)
    BY <1>3, <2>2 DEF JobD, SameKey
  <2>4. NoDuplicateBatch => JobN(atUpdate)
    BY <1>1, <1>3, <2>2 DEF JobN, RowsN
  <2> QED BY <2>3, <2>4
<1>5. CASE JobEnds(j)
  BY <1>1, <1>5, JobEndsOnce
<1>6. CASE ~ JobEnds(j)
  <2> HIDE DEF found, p, atDelete, atUpdate, seen
  <2> QED BY <1>1, <1>2, <1>3, <1>4, <1>6, NotUpdating, JobQuietOnce
<1> QED BY <1>5, <1>6

LEMMA TwoJobs == \A i, j \in Jobs : i # j => MoreJobs
<1> SUFFICES ASSUME NEW i \in Jobs, NEW j \in Jobs, i # j PROVE Cardinality(Jobs) > 1
  BY DEF MoreJobs
<1>1. IsFiniteSet(Jobs)
  BY JobsAssumption
<1>2. Cardinality(Jobs \ {i}) = Cardinality(Jobs) - 1 /\ IsFiniteSet(Jobs \ {i})
  BY <1>1, FS_RemoveElement
<1>3. Cardinality((Jobs \ {i}) \ {j}) = Cardinality(Jobs \ {i}) - 1 /\ IsFiniteSet((Jobs \ {i}) \ {j})
  BY <1>2, FS_RemoveElement
<1>4. Cardinality((Jobs \ {i}) \ {j}) \in Nat /\ Cardinality(Jobs) \in Nat
  BY <1>1, <1>3, FS_CardinalityType
<1> QED BY <1>2, <1>3, <1>4

\* Rondo's "paid" follows the version that was sent, which nobody holds.
LEMMA UpdateByResponseOnce ==
  ASSUME Inv, OnceInv, NEW j \in Jobs, UpdatePaymentstatusByResponse(j)
  PROVE  OnceInv'
<1> DEFINE x == job[j]
           p == x.pay
           given == [p EXCEPT !.status = "paid", !.user = "rondo"]
           next == NewVersion(given)
           y == [x EXCEPT !.pc = "delete", !.pay = Payment0]
<1>1. /\ JobOK(x) /\ x.pc = "update" /\ JobD(x)
      /\ BatchesInv /\ VersionsInv /\ RowsInv /\ AttemptsInv /\ OfficersD /\ Turns
      /\ RowsD /\ AttemptsD /\ JobsD
      /\ NoDuplicateBatch => RowsN /\ AttemptsN /\ OfficersN /\ JobsN /\ JobN(x)
      /\ UNCHANGED <<batches, day, officer, attempts>>
  BY DEF Inv, PaymentsInv, JobsInv, OnceInv, DeliveryInv, SenderInv, JobsD, JobsN, UpdatePaymentstatusByResponse
<1>2. CASE UpdateFails(p)
  BY <1>1, <1>2, JobEndsOnce DEF UpdatePaymentstatusByResponse
<1>3. CASE ~ UpdateFails(p)
  <2>1. UpdatePayment(given) /\ job' = [job EXCEPT ![j] = y]
    BY <1>3 DEF UpdatePaymentstatusByResponse
  <2>2. PICK t \in rows : SameKey(t, p) /\ t.status = "sent" /\ t.batch = p.batch
    BY <1>1 DEF JobD
  <2>3. IsRow(p)
    BY <1>1 DEF JobOK
  <2>4. Tells(given, p, "paid", "rondo") /\ given.batch = p.batch /\ given.ver = p.ver
    <3>1. Tells(given, p, "paid", "rondo")
      BY <2>3, Marked DEF Statuses, Users
    <3> HIDE DEF p
    <3> QED BY <2>3, <3>1 DEF IsRow
  <2>5. given.batch \in 0..Len(batches) /\ ~ t.deleted /\ t.status \in Settled /\ t.id = p.id /\ t.ver = p.ver
    BY <1>1, <2>2, <2>4 DEF VersionsInv, Numbered, Settled, SameKey
  <2>6. ~ UpdateFails(given)
    BY <1>3, <2>4 DEF UpdateFails, Tells
  <2> HIDE DEF given
  <2>7. Updates(given, next)
    BY <1>1, <2>1, <2>4, <2>5, <2>6, BatchesSame, UpdateGrows DEF Tells
  <2>8. PICK q : q = next
    OBVIOUS
  <2>9. /\ Grows({q}) /\ Kept /\ Told({q}) /\ VersionsInv' /\ q.id = p.id /\ q.user = "rondo" /\ q.status = "paid"
        /\ t.ver < q.ver /\ \A s \in rows' : s = q \/ (SameKey(s, p) => s.closed \/ s.deleted)
    BY <2>4, <2>5, <2>7, <2>8 DEF Updates, Grows, Same, Tells, SameKey
  <2>10. IsSettled(q.id)
    BY <2>5, <2>9 DEF IsSettled
  <2>11. Justified(q)
    BY <2>2, <2>5, <2>9 DEF Justified
  <2>12. BatchesGrow /\ AttemptsGo
    BY <1>1, BatchesSame, AttemptsSame
  <2>13. RowsD' /\ AttemptsD' /\ OfficersD' /\ Turns'
    BY <1>1, <2>9, <2>11, <2>12, RowsDStays, AttemptsDStay, OfficersDStay
  <2>14. PICK z : z = y
    OBVIOUS
  <2>15. z.pc = "delete"
    <3> HIDE DEF x
    <3> QED BY <1>1, <2>14 DEF JobOK
  <2> HIDE DEF y, next
  <2>16. JobD(z)' /\ JobN(z)'
    BY <2>15 DEF JobD, JobN
  <2>17. JobsD'
    BY <1>1, <2>1, <2>9, <2>14, <2>16, JobsDMove
  <2>18. NoDuplicateBatch' = NoDuplicateBatch
    BY <1>1 DEF NoDuplicateBatch
  <2>19. ASSUME NoDuplicateBatch PROVE RowsN' /\ AttemptsN' /\ OfficersN' /\ JobsN'
    <3>1. RowsN /\ AttemptsN /\ OfficersN /\ JobsN /\ JobN(x)
      BY <1>1, <2>19
    <3>2. \A r \in rows : r.id = q.id /\ r.status = "paid" => ByJobs(r, q)
      BY <1>1, <2>9, <3>1 DEF JobN, ByJobs
    <3>3. ASSUME NEW s \in rows', s.id = q.id, s.status = "sent" PROVE s.closed
      <4>1. PICK r \in rows : Kin(r, s)
        BY <2>9, <3>3 DEF Told
      <4>2. r = t
        BY <2>2, <2>5, <2>9, <3>1, <3>3, <4>1 DEF RowsN, Kin, Same
      <4>3. SameKey(s, p) /\ ~ s.deleted
        BY <2>5, <2>9, <3>3, <4>1, <4>2 DEF Kin, Same, SameKey, VersionsInv, Settled
      <4> QED BY <2>9, <3>3, <4>3
    <3>4. ASSUME NEW s \in Open', s.id = q.id PROVE s = q \/ ByJobs(s, q)
      <4>1. CASE s # q
        <5>1. PICK r \in Open : Kin(r, s)
          BY <2>9, <4>1, OpenBefore
        <5>2. r \in rows /\ r.status \in Statuses /\ r.id = q.id /\ r.status = s.status /\ r.user = s.user
          BY <1>1, <3>4, <5>1 DEF Open, RowsInv, IsRow, Kin, Same
        <5>3. r.status \notin Unpaid
          BY <2>10, <3>1, <5>1, <5>2 DEF RowsN
        <5>4. r.status # "sent"
          BY <3>3, <3>4, <5>2 DEF Open
        <5>5. ByJobs(r, q)
          BY <3>2, <5>2, <5>3, <5>4 DEF Statuses, Unpaid
        <5> QED BY <5>2, <5>5 DEF ByJobs
      <4> QED BY <4>1
    <3>5. Fits(q)
      BY <2>9, <3>2, <3>3, <3>4 DEF Fits, Settled
    <3>6. RowsN'
      BY <1>1, <2>9, <3>1, <3>5, RowsNStays
    <3>7. AttemptsN'
      BY <1>1, <3>1, AttemptsNStays
    <3>8. \A i \in Jobs \ {j} : Aside({q}, i)
      BY <2>9, TwoJobs DEF Aside
    <3>9. JobsN'
      BY <2>1, <2>9, <2>14, <2>16, <3>1, <3>8, JobsNMove
    <3>10. ASSUME NEW o \in Officers, NEW w, w = officer[o] PROVE OfficerN(w)'
      <4>1. OfficerN(w) /\ attempts' = attempts
        BY <1>1, <3>1, <3>10 DEF OfficersN
      <4>2. Apart({q}, w)
        BY <2>10, <4>1 DEF Apart, OfficerN, InHand
      <4> QED BY <2>9, <4>1, <4>2, OfficerNStays
    <3>11. OfficersN'
      BY <1>1, <3>10, OfficersNStay
    <3> QED BY <3>6, <3>7, <3>9, <3>11
  <2>20. BatchesInv'
    BY <1>1 DEF BatchesInv
  <2> QED BY <2>9, <2>13, <2>17, <2>18, <2>19, <2>20 DEF OnceInv, DeliveryInv, SenderInv
<1> QED BY <1>2, <1>3

-----------------------------------------------------------------------------
(* The world around *)

\* After a restart nobody holds anything.
LEMMA CrashOnce ==
  ASSUME Inv, OnceInv, Crash
  PROVE  OnceInv'
<1> DEFINE cut(n) == [attempts[n] EXCEPT !.step = "ended", !.ok = FALSE]
<1>1. /\ BatchesInv /\ VersionsInv /\ RowsInv /\ AttemptsInv /\ RowsD /\ AttemptsD
      /\ NoDuplicateBatch => RowsN /\ AttemptsN
      /\ UNCHANGED <<rows, batches, day>>
      /\ officer' = [o \in Officers |-> IdleOfficer] /\ job' = [j \in Jobs |-> IdleJob]
      /\ attempts' = [n \in DOMAIN attempts |-> cut(n)]
  <2>1. /\ UNCHANGED <<rows, batches, day>>
        /\ officer' = [o \in Officers |-> IdleOfficer] /\ job' = [j \in Jobs |-> IdleJob]
        /\ attempts' = [n \in DOMAIN attempts |-> cut(n)]
    BY DEF Crash
  <2> HIDE DEF cut
  <2> QED BY <2>1 DEF Inv, PaymentsInv, OnceInv, DeliveryInv, SenderInv
<1>2. \A n \in DOMAIN attempts :
        /\ cut(n) \in AttemptType /\ cut(n).id = attempts[n].id /\ cut(n).put = attempts[n].put
        /\ cut(n).confirmed = attempts[n].confirmed /\ ~ cut(n).ok /\ cut(n).step = "ended"
  <2> SUFFICES ASSUME NEW n \in DOMAIN attempts
               PROVE  /\ cut(n) \in AttemptType /\ cut(n).id = attempts[n].id /\ cut(n).put = attempts[n].put
                      /\ cut(n).confirmed = attempts[n].confirmed /\ ~ cut(n).ok /\ cut(n).step = "ended"
    OBVIOUS
  <2>1. attempts[n] \in AttemptType
    BY DEF Inv, PaymentsInv, AttemptsInv
  <2> QED BY <2>1 DEF AttemptType
<1> HIDE DEF cut
<1>3. DOMAIN attempts = 1..Len(attempts) /\ Len(attempts) \in Nat
  BY <1>1 DEF AttemptsInv
<1>4. attempts' \in Seq(AttemptType) /\ DOMAIN attempts' = DOMAIN attempts /\ Len(attempts') = Len(attempts)
  <2>1. attempts' \in [1..Len(attempts) -> AttemptType]
    BY <1>1, <1>2, <1>3
  <2>2. attempts' \in Seq(AttemptType) /\ DOMAIN attempts' = 1..Len(attempts)
    BY <1>3, <2>1, SeqDef
  <2>3. Len(attempts') \in Nat /\ DOMAIN attempts' = 1..Len(attempts')
    BY <2>2
  <2> QED BY <1>3, <2>2, <2>3
<1>5. AttemptsGo
  BY <1>1, <1>2, <1>3, <1>4 DEF AttemptsGo
<1>6. BatchesGrow /\ Grows({}) /\ Kept /\ Told({}) /\ VersionsInv'
  BY <1>1, BatchesSame, QuietlyGrow DEF Grows
<1>7. AttemptsD'
  <2> SUFFICES ASSUME NEW n \in DOMAIN attempts', NEW a, a = attempts'[n] PROVE AttemptD(a)
    BY <1>1, <1>6, AttemptsDMove
  <2> QED BY <1>1, <1>2, <1>4 DEF AttemptsD, AttemptD
<1>8. RowsD'
  BY <1>1, <1>5, <1>6, RowsDStays
<1>9. OfficersD' /\ Turns'
  <2>1. IdleOfficer.pc \notin Active /\ OfficerD(IdleOfficer)
    BY <1>1, IdlePassive
  <2>2. PICK x : x = IdleOfficer
    OBVIOUS
  <2>3. OfficerD(x)'
    BY <1>1, <1>5, <1>6, <2>1, <2>2, OfficerDStays
  <2> HIDE DEF IdleOfficer
  <2>4. \A o \in Officers : officer'[o] = x
    BY <1>1, <2>2
  <2> QED BY <2>1, <2>2, <2>3, <2>4 DEF OfficersD, Turns, OfficerD, Numbered
<1>10. OfficersN'
  BY <1>1, IdlePassive DEF OfficersN, OfficerN
<1>11. JobsD' /\ JobsN'
  <2>1. IdleJob.pc # "update"
    BY DEF IdleJob
  <2>2. \A j \in Jobs : job'[j].pc # "update"
    BY <1>1, <2>1
  <2> QED BY <2>2 DEF JobsD, JobD, JobsN, JobN
<1>12. NoDuplicateBatch' = NoDuplicateBatch
  BY <1>1 DEF NoDuplicateBatch
<1>13. ASSUME NoDuplicateBatch PROVE RowsN' /\ AttemptsN'
  <2>1. RowsN'
    BY <1>1, <1>6, <1>13, RowsNStays
  <2>2. AttemptsN'
    BY <1>1, <1>2, <1>4, <1>13, AttemptsNStays
  <2> QED BY <2>1, <2>2
<1>14. BatchesInv'
  BY <1>1 DEF BatchesInv
<1> QED BY <1>6, <1>7, <1>8, <1>9, <1>10, <1>11, <1>12, <1>13, <1>14 DEF OnceInv, DeliveryInv, SenderInv

\* Another day, with no request under way, or something that concerns no payment.
LEMMA OutsideOnce ==
  ASSUME Inv, OnceInv, UNCHANGED <<rows, batches, officer, attempts, job>>,
         day' \in Nat, day' = day \/ \A o \in Officers : officer[o].pc \notin Active
  PROVE  OnceInv'
<1>1. /\ BatchesGrow /\ AttemptsGo /\ Kept /\ Told({}) /\ VersionsInv' /\ RowsD' /\ AttemptsD'
      /\ NoDuplicateBatch' = NoDuplicateBatch
      /\ NoDuplicateBatch => RowsN' /\ AttemptsN'
  BY Untouched
<1>2. OfficersD' /\ Turns' /\ JobsD'
  BY <1>1, OfficersDStay, JobsDStay DEF OnceInv, DeliveryInv
<1>3. ASSUME NoDuplicateBatch PROVE OfficersN' /\ JobsN'
  <2>1. OfficersN /\ JobsN /\ \A i \in Jobs : Aside({}, i)
    BY <1>3 DEF OnceInv, SenderInv, Aside
  <2>2. OfficersN'
    BY <1>1, <2>1, OthersN, OfficersNStay
  <2>3. JobsN'
    BY <1>1, <2>1, JobsNStay
  <2> QED BY <2>2, <2>3
<1>4. BatchesInv'
  BY DEF OnceInv, DeliveryInv, BatchesInv
<1> QED BY <1>1, <1>2, <1>3, <1>4 DEF OnceInv, DeliveryInv, SenderInv

-----------------------------------------------------------------------------
(* The invariant *)

LEMMA InitOnce == Init => OnceInv
<1> SUFFICES ASSUME Init PROVE OnceInv
  OBVIOUS
<1>1. /\ rows = {} /\ batches = <<>> /\ attempts = <<>> /\ day = 1
      /\ \A o \in Officers : officer[o] = IdleOfficer
      /\ \A j \in Jobs : job[j] = IdleJob
  BY DEF Init
<1>2. VersionsInv
  <2>1. 0 \in Nat /\ \A r \in rows : r.ver <= 0
    BY <1>1
  <2> QED BY <1>1, <2>1 DEF VersionsInv
<1>3. RowsD /\ AttemptsD /\ RowsN /\ AttemptsN
  BY <1>1 DEF RowsD, AttemptsD, RowsN, AttemptsN, Open
<1>4. BatchesInv
  BY <1>1, EmptySeq DEF BatchesInv
<1>5. AttemptsInv
  BY InitInv DEF Inv, PaymentsInv
<1>6. OfficerD(IdleOfficer) /\ OfficerN(IdleOfficer) /\ IdleOfficer.pc \notin Active
  BY <1>4, <1>5, IdlePassive
<1>7. OfficersD /\ Turns /\ OfficersN
  BY <1>1, <1>6 DEF OfficersD, Turns, OfficersN
<1>8. IdleJob.pc # "update"
  BY DEF IdleJob
<1>9. JobsD /\ JobsN
  BY <1>1, <1>8 DEF JobsD, JobD, JobsN, JobN
<1> QED BY <1>2, <1>3, <1>4, <1>7, <1>9 DEF OnceInv, DeliveryInv, SenderInv

LEMMA StepOnce ==
  ASSUME Inv, OnceInv, [Next]_vars
  PROVE  OnceInv'
<1>0. day \in Nat
  BY DEF OnceInv, DeliveryInv, BatchesInv
<1>1. ASSUME NEW o \in Officers, CreateGrantPayments(o) \/ FindBatches(o) \/ Serve(o) PROVE OnceInv'
  <2>1. CASE CreateGrantPayments(o) \/ FindBatches(o) \/ ListApplications(o) \/ EndRequest(o)
             \/ GiveUp(o) \/ RevokeApplicationTokens(o)
    BY <2>1, OfficersQuietSteps
  <2>2. CASE CreateBatch(o) \/ SendSucceeded(o) \/ MarkSent(o)
    BY <2>2, CreateBatchOnce, SendSucceededOnce, MarkSentOnce
  <2>3. CASE \E a \in Apps : CreatePayment(o, a) \/ ListUnsentPayments(o, a)
    BY <2>3, CreatePaymentOnce, ListUnsentPaymentsOnce
  <2>4. CASE \E p \in officer[o].list : SendPayment(o, p) \/ SetPaymentPaid(o, p)
    BY <2>4, SendPaymentOnce, SetPaymentPaidOnce
  <2> QED BY <1>1, <2>1, <2>2, <2>3, <2>4 DEF Serve
<1>2. ASSUME NEW a \in Apps, NEW phase \in Phases, AddPayment(a, phase) PROVE OnceInv'
  BY <1>2, AddPaymentOnce
<1>3. ASSUME NEW id \in Ids, DeletePayment(id) PROVE OnceInv'
  BY <1>3, DeleteOnce DEF DeletePayment, Unpaid
<1>4. CASE DeleteGrantPayments
  BY <1>4, DeleteOnce DEF DeleteGrantPayments
<1>5. ASSUME NEW n \in DOMAIN attempts, StoreOutgoingPaymentXml(n) \/ PutInvoice(n) \/ PaidByRondo(n)
      PROVE  OnceInv'
  <2>1. CASE PaidByRondo(n)
    BY <1>0, <2>1, OutsideOnce DEF PaidByRondo
  <2> QED BY <1>5, <2>1, StoreXmlOnce, PutInvoiceOnce
<1>6. ASSUME NEW j \in Jobs, RunJob(j) \/ JobFails(j) PROVE OnceInv'
  <2>1. CASE \E n \in job[j].todo : FindPaymentsByResponse(j, n)
    BY <2>1, FindPaymentsOnce
  <2> QED BY <1>6, <2>1, JobsQuietSteps, UpdateByResponseOnce DEF RunJob
<1>7. ASSUME NEW a \in Apps, CreateApplicationToken(a) \/ Refuse(a) PROVE OnceInv'
  BY <1>0, <1>7, OutsideOnce DEF CreateApplicationToken, Refuse
<1>8. CASE Midnight
  <2>1. day' \in Nat
    BY <1>0, <1>8 DEF Midnight
  <2>2. \A o \in Officers : officer[o].pc \notin Active
    BY <1>8 DEF Midnight, At, Active
  <2> QED BY <1>8, <2>1, <2>2, OutsideOnce DEF Midnight
<1>9. CASE Crash
  BY <1>9, CrashOnce
<1>10. CASE UNCHANGED vars
  BY <1>0, <1>10, OutsideOnce DEF vars
<1> QED BY <1>1, <1>2, <1>3, <1>4, <1>5, <1>6, <1>7, <1>8, <1>9, <1>10 DEF Next

THEOREM OnceInvariance == Spec => [](Inv /\ OnceInv)
<1>1. Inv /\ OnceInv /\ [Next]_vars => Inv' /\ OnceInv'
  BY StepInv, StepOnce
<1> QED BY <1>1, InitInv, InitOnce, PTL DEF Spec

\* update-payment closes the version it was given without asking whether it is still open.
\* Still a payment has one open version, with any number of officers, attempts, crashes and
\* deletions, unless two officers sent on one day or two runs of the job paid it together.
THEOREM OneOpen == Spec => []OneOpenVersion
<1>1. OnceInv => OneOpenVersion
  BY DEF OnceInv, SenderInv, RowsN, OneOpenVersion, ByJobs, MoreJobs
<1> QED BY <1>1, OnceInvariance, PTL

\* Once the server knows that an invoice went out, no further attempt of its payment begins,
\* and a payment is marked as paid once.
THEOREM OutOnce == Spec => []PaymentsGoOutOnce
<1>1. OnceInv => PaymentsGoOutOnce
  BY DEF OnceInv, SenderInv, RowsN, AttemptsN, PaymentsGoOutOnce, ConfirmedSendIsTheLast, PaidOnce, ByJobs, MoreJobs
<1> QED BY <1>1, OnceInvariance, PTL

\* A payment marked as sent has its invoice at the payment service and carries it; Rondo's
\* feedback pays only what was sent.
THEOREM Delivered == Spec => []SentWasDelivered
<1>1. OnceInv => SentWasDelivered
  BY DEF OnceInv, DeliveryInv, SenderInv, RowsD, RowsN, SentWasDelivered
<1> QED BY <1>1, OnceInvariance, PTL

-----------------------------------------------------------------------------
(* The status goes forward *)

\* No step takes away what the rows say.
LEMMA NothingIsForgotten ==
  ASSUME Inv, [Next]_vars
  PROVE  Kept
<1>0. \A r \in rows : IsRow(r) /\ Kin(r, r)
  BY KinFields DEF Inv, PaymentsInv, RowsInv
<1>1. CASE rows \subseteq rows'
  BY <1>0, <1>1 DEF Kept
<1>2. ASSUME NEW p, UpdatePayment(p) PROVE Kept
  <2> SUFFICES ASSUME NEW r \in rows PROVE \E s \in rows' : Kin(r, s)
    BY DEF Kept
  <2> DEFINE q == IF r.id = p.id /\ r.ver = p.ver /\ ~ r.deleted THEN [r EXCEPT !.closed = TRUE] ELSE r
  <2>1. q \in rows'
    BY <1>2 DEF UpdatePayment, CloseVersion
  <2>2. Kin(r, q)
    BY <1>0, KinFields
  <2> QED BY <2>1, <2>2
<1>3. ASSUME NEW doomed, Delete(doomed), \A r \in doomed : r.status \in Unpaid PROVE Kept
  <2> SUFFICES ASSUME NEW r \in rows PROVE \E s \in rows' : Kin(r, s)
    BY DEF Kept
  <2> DEFINE q == IF r \in doomed THEN [r EXCEPT !.deleted = TRUE] ELSE r
  <2>1. q \in rows'
    BY <1>3 DEF Delete
  <2>2. Kin(r, q)
    BY <1>0, <1>3, KinFields DEF Settled, Unpaid
  <2> QED BY <2>1, <2>2
<1>4. ASSUME NEW n \in DOMAIN attempts, StoreOutgoingPaymentXml(n)
      PROVE  Kept
  <2> SUFFICES ASSUME NEW r \in rows PROVE \E s \in rows' : Kin(r, s)
    BY DEF Kept
  <2>1. r \in rows' \/ [r EXCEPT !.xml = TRUE] \in rows'
    BY <1>4 DEF StoreOutgoingPaymentXml
  <2> QED BY <1>0, <2>1, KinFields
<1>5. ASSUME NEW o \in Officers, CreateGrantPayments(o) \/ FindBatches(o) \/ Serve(o)
      PROVE  rows \subseteq rows' \/ \E p : UpdatePayment(p)
  <2>1. CASE CreateGrantPayments(o) \/ FindBatches(o) \/ ListApplications(o) \/ EndRequest(o)
             \/ GiveUp(o) \/ RevokeApplicationTokens(o) \/ CreateBatch(o) \/ SendSucceeded(o)
    BY <2>1 DEF CreateGrantPayments, FindBatches, ListApplications, EndRequest, GiveUp, RevokeApplicationTokens,
                CreateBatch, SendSucceeded
  <2>2. CASE MarkSent(o)
    BY <2>2 DEF MarkSent, Hang
  <2>3. CASE \E a \in Apps : CreatePayment(o, a) \/ ListUnsentPayments(o, a)
    BY <2>3 DEF CreatePayment, StorePayment, ListUnsentPayments
  <2>4. CASE \E p \in officer[o].list : SendPayment(o, p) \/ SetPaymentPaid(o, p)
    BY <2>4 DEF SendPayment, SetPaymentPaid, Hang
  <2> QED BY <1>5, <2>1, <2>2, <2>3, <2>4 DEF Serve
<1>6. ASSUME NEW j \in Jobs, RunJob(j) \/ JobFails(j) PROVE rows \subseteq rows' \/ \E p : UpdatePayment(p)
  BY <1>6 DEF RunJob, JobFails, GetRemoteFileList, UpdatePaymentstatusByResponse, DeleteRemoteFile, AllFilesSeen,
              FindPaymentsByResponse
<1>7. ASSUME NEW a \in Apps, NEW phase \in Phases, AddPayment(a, phase) PROVE rows \subseteq rows'
  BY <1>7 DEF AddPayment, StorePayment
<1>8. CASE (\E id \in Ids : DeletePayment(id)) \/ DeleteGrantPayments
  BY <1>3, <1>8 DEF DeletePayment, DeleteGrantPayments, Unpaid
<1>9. CASE \E n \in DOMAIN attempts : StoreOutgoingPaymentXml(n) \/ PutInvoice(n) \/ PaidByRondo(n)
  <2>1. ASSUME NEW n \in DOMAIN attempts, PutInvoice(n) \/ PaidByRondo(n) PROVE rows' = rows
    BY <2>1 DEF PutInvoice, PaidByRondo
  <2> QED BY <1>1, <1>4, <1>9, <2>1
<1>10. CASE (\E a \in Apps : CreateApplicationToken(a) \/ Refuse(a)) \/ Midnight \/ Crash \/ UNCHANGED vars
  BY <1>1, <1>10 DEF CreateApplicationToken, Refuse, Midnight, Crash, vars
<1> QED BY <1>1, <1>2, <1>5, <1>6, <1>7, <1>8, <1>9, <1>10 DEF Next

\* No late attempt, stale list or feedback takes a sent or paid payment back.
THEOREM ForwardOnly == Spec => StatusGoesForward
<1> DEFINE Forward ==
      \A r \in Open, s \in Open' :
        r.id = s.id /\ NoDuplicateBatch' =>
          /\ r.status = "sent" => s.status \in {"sent", "paid"}
          /\ r.status = "paid" => s.status = "paid"
<1>1. ASSUME Inv, OnceInv, Inv', OnceInv', [Next]_vars PROVE Forward
  <2> SUFFICES ASSUME NEW r \in Open, NEW s \in Open', r.id = s.id, NoDuplicateBatch'
               PROVE  /\ r.status = "sent" => s.status \in {"sent", "paid"}
                      /\ r.status = "paid" => s.status = "paid"
    OBVIOUS
  <2>1. RowsN' /\ s \in rows' /\ ~ s.closed /\ s.status \in Statuses
    BY <1>1 DEF OnceInv, SenderInv, Inv, PaymentsInv, RowsInv, IsRow, Open
  <2>2. PICK u \in rows' : Same(r, u)
    BY <1>1, NothingIsForgotten DEF Open, Kept, Kin
  <2>3. r.status \in Settled => s.status \notin Unpaid
    BY <2>1, <2>2 DEF RowsN, IsSettled, Same
  <2>4. r.status = "paid" => s.status # "sent"
    BY <2>1, <2>2 DEF RowsN, Same
  <2> QED BY <2>1, <2>3, <2>4 DEF Settled, Unpaid, Statuses
<1>2. (Inv /\ OnceInv) /\ (Inv /\ OnceInv)' /\ [Next]_vars => [Forward]_vars
  BY <1>1
<1> QED BY <1>2, OnceInvariance, PTL DEF Spec, StatusGoesForward

-----------------------------------------------------------------------------
(* Types *)

OfficerPcs == {"idle", "create", "checked", "batch", "loop", "wait", "mark", "revoke", "hung"}
JobPcs == {"idle", "files", "update", "delete"}

\* Only a request that marked a payment, which is an application's, is about to revoke.
OfficerT(x) == x.pc \in OfficerPcs /\ (x.pc = "revoke" => x.app \in Apps)

OfficersT == \A o \in Officers : OfficerT(officer[o])
JobsT == \A j \in Jobs : job[j].pc \in JobPcs
DaysT == batches \in Seq(1..day) /\ day \in 1..(MaxDay + 1)
WorldT == token \subseteq Apps /\ refused \subseteq Apps /\ spared \subseteq Apps /\ faults \in 0..MaxFaults

TypesInv == OfficersT /\ JobsT /\ DaysT /\ WorldT

LEMMA OfficerTMoves ==
  ASSUME Inv, OfficersT, NEW o \in Officers, NEW y, OfficerT(y), officer' = [officer EXCEPT ![o] = y]
  PROVE  OfficersT'
<1>1. officer'[o] = y /\ \A q \in Officers \ {o} : officer'[q] = officer[q]
  BY DEF Inv, PaymentsInv, OfficersInv
<1> QED BY <1>1 DEF OfficersT, OfficerT

LEMMA HangT ==
  ASSUME Inv, OfficersT, NEW o \in Officers, Hang(o)
  PROVE  OfficersT'
<1> DEFINE x == officer[o]
           y == [x EXCEPT !.pc = "hung"]
<1>1. HasFields(x)
  BY DEF Inv, PaymentsInv, OfficersInv, OfficerOK, HasFields
<1>2. OfficerT(y)
  <2> HIDE DEF x
  <2> QED BY <1>1 DEF HasFields, OfficerT, OfficerPcs
<1>3. officer' = [officer EXCEPT ![o] = y]
  BY DEF Hang
<1> HIDE DEF y
<1> QED BY <1>2, <1>3, OfficerTMoves

\* Steps after which a request neither waits for an attempt nor hangs.
Working == {"idle", "create", "checked", "batch", "loop", "revoke"}
IsQuiet(y) == y.pc \in Working /\ (y.pc = "revoke" => y.app \in Apps)
Quiet(o) == \E y : IsQuiet(y) /\ officer' = [officer EXCEPT ![o] = y]

LEMMA QuietSteps ==
  ASSUME Inv, NEW o \in Officers,
         \/ CreateGrantPayments(o) \/ FindBatches(o) \/ CreateBatch(o) \/ ListApplications(o) \/ EndRequest(o)
         \/ GiveUp(o) \/ RevokeApplicationTokens(o) \/ (MarkSent(o) /\ ~ Hang(o))
         \/ \E a \in Apps : CreatePayment(o, a) \/ ListUnsentPayments(o, a)
         \/ \E p \in officer[o].list : SetPaymentPaid(o, p)
  PROVE  Quiet(o)
<1> DEFINE x == officer[o]
<1>0. HasFields(x) /\ OfficerOK(x)
  BY DEF Inv, PaymentsInv, OfficersInv, OfficerOK, HasFields
<1>1. /\ IsQuiet(IdleOfficer)
      /\ \A V : IsQuiet([IdleOfficer EXCEPT !.pc = "create", !.op = "create", !.apps = V])
      /\ \A op : IsQuiet([IdleOfficer EXCEPT !.pc = "checked", !.op = op])
  BY DEF IdleOfficer, IsQuiet, Working
<1>2. ASSUME NEW y, IsQuiet(y), officer' = [officer EXCEPT ![o] = y] PROVE Quiet(o)
  BY <1>2 DEF Quiet
<1>3. CASE CreateGrantPayments(o)
  <2>1. PICK V : officer' = [officer EXCEPT ![o] = [IdleOfficer EXCEPT !.pc = "create", !.op = "create", !.apps = V]]
    BY <1>3 DEF CreateGrantPayments
  <2> QED BY <1>1, <1>2, <2>1
<1>4. CASE FindBatches(o)
  <2>1. PICK op : officer' = [officer EXCEPT ![o] = [IdleOfficer EXCEPT !.pc = "checked", !.op = op]]
    BY <1>4 DEF FindBatches
  <2> QED BY <1>1, <1>2, <2>1
<1>5. ASSUME NEW a \in Apps, CreatePayment(o, a) PROVE Quiet(o)
  <2> DEFINE on == [x EXCEPT !.apps = x.apps \ {a}]
  <2>1. IsQuiet(on)
    <3>1. x.pc = "create"
      BY <1>5 DEF CreatePayment, At
    <3> HIDE DEF x
    <3> QED BY <1>0, <3>1 DEF HasFields, IsQuiet, Working
  <2>2. officer' = [officer EXCEPT ![o] = IdleOfficer] \/ officer' = [officer EXCEPT ![o] = on]
    BY <1>5 DEF CreatePayment
  <2> HIDE DEF on
  <2> QED BY <1>1, <1>2, <2>1, <2>2
<1>6. CASE CreateBatch(o)
  <2> DEFINE y == [x EXCEPT !.pc = "batch", !.batch = Len(batches) + 1]
  <2>1. IsQuiet(y)
    <3> HIDE DEF x
    <3> QED BY <1>0 DEF HasFields, IsQuiet, Working
  <2>2. officer' = [officer EXCEPT ![o] = y]
    BY <1>6 DEF CreateBatch
  <2> HIDE DEF y
  <2> QED BY <1>2, <2>1, <2>2
<1>7. CASE ListApplications(o)
  <2> DEFINE y == [x EXCEPT !.pc = "loop", !.apps = Apps \ refused]
  <2>1. IsQuiet(y)
    <3> HIDE DEF x
    <3> QED BY <1>0 DEF HasFields, IsQuiet, Working
  <2>2. officer' = [officer EXCEPT ![o] = y]
    BY <1>7 DEF ListApplications
  <2> HIDE DEF y
  <2> QED BY <1>2, <2>1, <2>2
<1>8. ASSUME NEW a \in Apps, ListUnsentPayments(o, a) PROVE Quiet(o)
  <2> DEFINE y == [x EXCEPT !.apps = x.apps \ {a}, !.app = a, !.list = Unsent(a)]
  <2>1. IsQuiet(y)
    <3>1. x.pc = "loop"
      BY <1>8 DEF ListUnsentPayments, At
    <3> HIDE DEF x
    <3> QED BY <1>0, <3>1 DEF HasFields, IsQuiet, Working
  <2>2. officer' = [officer EXCEPT ![o] = y]
    BY <1>8 DEF ListUnsentPayments
  <2> HIDE DEF y
  <2> QED BY <1>2, <2>1, <2>2
<1>9. CASE EndRequest(o)
  BY <1>1, <1>2, <1>9 DEF EndRequest
<1>10. CASE GiveUp(o)
  <2> DEFINE y == [x EXCEPT !.pc = "loop", !.pay = Payment0, !.n = 0]
  <2>1. IsQuiet(y)
    <3> HIDE DEF x
    <3> QED BY <1>0 DEF HasFields, IsQuiet, Working
  <2>2. officer' = [officer EXCEPT ![o] = y]
    BY <1>10 DEF GiveUp
  <2> HIDE DEF y
  <2> QED BY <1>2, <2>1, <2>2
<1>11. CASE MarkSent(o) /\ ~ Hang(o)
  <2> DEFINE y == [x EXCEPT !.pc = "revoke", !.pay = Payment0, !.n = 0]
  <2>1. x.pay # Payment0 /\ x.pc = "mark" /\ officer' = [officer EXCEPT ![o] = y]
    BY <1>11 DEF MarkSent, At
  <2>2. x.pay # Payment0 /\ x.pc = "mark" => x.app \in Apps
    BY <1>0 DEF OfficerOK, Mine, IsRow
  <2>3. x.app \in Apps => IsQuiet(y)
    <3> HIDE DEF x
    <3> QED BY <1>0 DEF HasFields, IsQuiet, Working
  <2> HIDE DEF y
  <2> QED BY <1>2, <2>1, <2>2, <2>3
<1>12. ASSUME NEW p \in x.list, SetPaymentPaid(o, p) PROVE Quiet(o)
  <2> DEFINE y == [x EXCEPT !.pc = "revoke", !.list = x.list \ {p}]
  <2>1. x.app \in Apps
    BY <1>0 DEF OfficerOK, Mine, IsRow
  <2>2. IsQuiet(y)
    <3> HIDE DEF x
    <3> QED BY <1>0, <2>1 DEF HasFields, IsQuiet, Working
  <2>3. officer' = [officer EXCEPT ![o] = IdleOfficer] \/ officer' = [officer EXCEPT ![o] = y]
    BY <1>12 DEF SetPaymentPaid
  <2> HIDE DEF y
  <2> QED BY <1>1, <1>2, <2>2, <2>3
<1>13. CASE RevokeApplicationTokens(o)
  <2> DEFINE y == [x EXCEPT !.pc = "loop"]
  <2>1. IsQuiet(y)
    <3> HIDE DEF x
    <3> QED BY <1>0 DEF HasFields, IsQuiet, Working
  <2>2. officer' = [officer EXCEPT ![o] = y]
    BY <1>13 DEF RevokeApplicationTokens
  <2> HIDE DEF y
  <2> QED BY <1>2, <2>1, <2>2
<1>14. CASE \E a \in Apps : CreatePayment(o, a) \/ ListUnsentPayments(o, a)
  BY <1>5, <1>8, <1>14
<1>15. CASE \E p \in officer[o].list : SetPaymentPaid(o, p)
  BY <1>12, <1>15
<1> QED BY <1>3, <1>4, <1>6, <1>7, <1>9, <1>10, <1>11, <1>13, <1>14, <1>15

LEMMA OfficersTStep ==
  ASSUME Inv, OfficersT, NEW o \in Officers, CreateGrantPayments(o) \/ FindBatches(o) \/ Serve(o)
  PROVE  OfficersT'
<1> DEFINE x == officer[o]
<1>0. HasFields(x)
  BY DEF Inv, PaymentsInv, OfficersInv, OfficerOK, HasFields
<1>1. ASSUME NEW y, OfficerT(y), officer' = [officer EXCEPT ![o] = y] PROVE OfficersT'
  BY <1>1, OfficerTMoves
<1>2. CASE Quiet(o)
  BY <1>1, <1>2 DEF Quiet, IsQuiet, Working, OfficerT, OfficerPcs
<1>3. CASE Hang(o)
  BY <1>3, HangT
<1>4. ASSUME NEW p \in x.list, SendPayment(o, p) PROVE OfficersT'
  <2> DEFINE next == NewVersion([p EXCEPT !.batch = x.batch, !.user = "officer"])
             y == [x EXCEPT !.pc = "wait", !.list = x.list \ {p}, !.pay = next, !.n = Len(attempts) + 1]
  <2>1. OfficerT(y)
    <3> HIDE DEF x, next
    <3> QED BY <1>0 DEF HasFields, OfficerT, OfficerPcs
  <2>2. Hang(o) \/ officer' = [officer EXCEPT ![o] = y]
    BY <1>4 DEF SendPayment
  <2> HIDE DEF y
  <2> QED BY <1>1, <1>3, <2>1, <2>2
<1>5. CASE SendSucceeded(o)
  <2> DEFINE found == Version(x.pay.id, x.pay.ver)
             q == IF found = {} THEN Payment0 ELSE CHOOSE r \in found : TRUE
             y == [x EXCEPT !.pc = "mark", !.pay = q]
  <2>1. OfficerT(y)
    <3> HIDE DEF x, q
    <3> QED BY <1>0 DEF HasFields, OfficerT, OfficerPcs
  <2>2. officer' = [officer EXCEPT ![o] = y]
    BY <1>5 DEF SendSucceeded
  <2> HIDE DEF y
  <2> QED BY <1>1, <2>1, <2>2
<1>6. CASE \E p \in officer[o].list : SendPayment(o, p)
  BY <1>4, <1>6
<1> QED BY <1>2, <1>3, <1>5, <1>6, QuietSteps DEF Serve

LEMMA JobsTStep ==
  ASSUME Inv, JobsT, NEW j \in Jobs, RunJob(j) \/ JobFails(j)
  PROVE  JobsT'
<1> DEFINE x == job[j]
<1>0. x \in [pc : {x.pc}, todo : {x.todo}, file : {x.file}, pay : {x.pay}]
  BY DEF Inv, PaymentsInv, JobsInv, JobOK
<1>1. ASSUME NEW y, y.pc \in JobPcs, job' = [job EXCEPT ![j] = y] PROVE JobsT'
  <2>1. job'[j] = y /\ \A i \in Jobs \ {j} : job'[i] = job[i]
    BY <1>1 DEF Inv, PaymentsInv, JobsInv
  <2> QED BY <1>1, <2>1 DEF JobsT
<1>2. CASE JobEnds(j)
  <2>1. IdleJob.pc \in JobPcs
    BY DEF IdleJob, JobPcs
  <2> HIDE DEF x
  <2> QED BY <1>1, <1>2, <2>1 DEF JobEnds
<1>3. CASE GetRemoteFileList(j)
  <2> DEFINE y == [x EXCEPT !.pc = "files", !.todo = files]
  <2>1. y.pc \in JobPcs
    <3> HIDE DEF x
    <3> QED BY <1>0 DEF JobPcs
  <2>2. job' = [job EXCEPT ![j] = y]
    BY <1>3 DEF GetRemoteFileList
  <2> HIDE DEF y
  <2> QED BY <1>1, <2>1, <2>2
<1>4. CASE UpdatePaymentstatusByResponse(j)
  <2> DEFINE y == [x EXCEPT !.pc = "delete", !.pay = Payment0]
  <2>1. y.pc \in JobPcs
    <3> HIDE DEF x
    <3> QED BY <1>0 DEF JobPcs
  <2>2. JobEnds(j) \/ job' = [job EXCEPT ![j] = y]
    BY <1>4 DEF UpdatePaymentstatusByResponse
  <2> HIDE DEF y
  <2> QED BY <1>1, <1>2, <2>1, <2>2
<1>5. CASE DeleteRemoteFile(j)
  <2> DEFINE y == [x EXCEPT !.pc = "files", !.file = 0, !.todo = x.todo \ {x.file}]
  <2>1. y.pc \in JobPcs
    <3> HIDE DEF x
    <3> QED BY <1>0 DEF JobPcs
  <2>2. JobEnds(j) \/ job' = [job EXCEPT ![j] = y]
    BY <1>5 DEF DeleteRemoteFile
  <2> HIDE DEF y
  <2> QED BY <1>1, <1>2, <2>1, <2>2
<1>6. ASSUME NEW n \in x.todo, FindPaymentsByResponse(j, n) PROVE JobsT'
  <2> DEFINE found == OfFile(n)
             p == CHOOSE r \in found : TRUE
             atDelete == [x EXCEPT !.pc = "delete", !.file = n]
             atUpdate == [x EXCEPT !.pc = "update", !.file = n, !.pay = p]
             seen == [x EXCEPT !.todo = x.todo \ {n}]
  <2>1. x.pc = "files"
    BY <1>6 DEF FindPaymentsByResponse
  <2>2. atDelete.pc \in JobPcs /\ atUpdate.pc \in JobPcs /\ seen.pc \in JobPcs
    <3> HIDE DEF x, p
    <3> QED BY <1>0, <2>1 DEF JobPcs
  <2>3. \/ JobEnds(j)
        \/ job' = [job EXCEPT ![j] = atDelete]
        \/ job' = [job EXCEPT ![j] = atUpdate]
        \/ job' = [job EXCEPT ![j] = seen]
    <3> HIDE DEF found, p
    <3> QED BY <1>6 DEF FindPaymentsByResponse, found, p
  <2> HIDE DEF atDelete, atUpdate, seen
  <2> QED BY <1>1, <1>2, <2>2, <2>3
<1>7. CASE \E n \in job[j].todo : FindPaymentsByResponse(j, n)
  BY <1>6, <1>7
<1> QED BY <1>2, <1>3, <1>4, <1>5, <1>7 DEF RunJob, JobFails, AllFilesSeen

LEMMA InitTypes == Init => TypesInv
<1> SUFFICES ASSUME Init PROVE TypesInv
  OBVIOUS
<1>1. MaxDay \in Nat /\ MaxFaults \in Nat
  BY BoundsAssumption
<1>2. OfficersT /\ JobsT
  BY DEF Init, OfficersT, JobsT, OfficerT, IdleOfficer, IdleJob, OfficerPcs, JobPcs
<1>3. DaysT
  <2>1. 1 \in 1..(MaxDay + 1)
    BY <1>1
  <2> QED BY <2>1, EmptySeq DEF Init, DaysT
<1>4. WorldT
  BY <1>1 DEF Init, WorldT
<1> QED BY <1>2, <1>3, <1>4 DEF TypesInv

LEMMA StepTypes ==
  ASSUME Inv, TypesInv, [Next]_vars
  PROVE  TypesInv'
<1>0. /\ OfficersT /\ JobsT /\ DaysT /\ WorldT /\ MaxDay \in Nat /\ MaxFaults \in Nat
      /\ \A o \in Officers : officer[o].pc = "revoke" => officer[o].app \in Apps
  BY BoundsAssumption DEF TypesInv, OfficersT, OfficerT
<1>1. ASSUME NEW o \in Officers, CreateGrantPayments(o) \/ FindBatches(o) \/ Serve(o) PROVE TypesInv'
  <2>1. OfficersT'
    BY <1>0, <1>1, OfficersTStep
  <2>2. UNCHANGED <<day, refused, faults, job>> /\ token' \subseteq token /\ spared' \subseteq spared
        /\ (batches' = batches \/ batches' = Append(batches, day))
    <3>1. CASE CreateGrantPayments(o) \/ FindBatches(o) \/ CreateBatch(o) \/ ListApplications(o) \/ EndRequest(o)
               \/ GiveUp(o) \/ SendSucceeded(o) \/ RevokeApplicationTokens(o)
      BY <3>1 DEF CreateGrantPayments, FindBatches, CreateBatch, ListApplications, EndRequest, GiveUp, SendSucceeded,
                  RevokeApplicationTokens
    <3>2. CASE MarkSent(o)
      BY <3>2 DEF MarkSent, Hang
    <3>3. CASE \E a \in Apps : CreatePayment(o, a) \/ ListUnsentPayments(o, a)
      BY <3>3 DEF CreatePayment, ListUnsentPayments
    <3>4. CASE \E p \in officer[o].list : SendPayment(o, p) \/ SetPaymentPaid(o, p)
      BY <3>4 DEF SendPayment, SetPaymentPaid, Hang
    <3> QED BY <1>1, <3>1, <3>2, <3>3, <3>4 DEF Serve
  <2>3. DaysT'
    <3>1. day \in 1..day
      BY <1>0 DEF DaysT
    <3>2. Append(batches, day) \in Seq(1..day)
      BY <1>0, <3>1, AppendProperties DEF DaysT
    <3> QED BY <1>0, <2>2, <3>2 DEF DaysT
  <2>4. WorldT' /\ JobsT'
    BY <1>0, <2>2 DEF WorldT, JobsT
  <2> QED BY <2>1, <2>3, <2>4 DEF TypesInv
<1>2. ASSUME NEW j \in Jobs, RunJob(j) \/ JobFails(j) PROVE TypesInv'
  <2>1. JobsT'
    BY <1>0, <1>2, JobsTStep
  <2>2. UNCHANGED <<batches, day, token, refused, spared, officer>>
        /\ (faults' = faults \/ (faults < MaxFaults /\ faults' = faults + 1))
    BY <1>2 DEF RunJob, GetRemoteFileList, UpdatePaymentstatusByResponse, DeleteRemoteFile, AllFilesSeen,
                FindPaymentsByResponse, JobFails
  <2>3. WorldT'
    BY <1>0, <2>2 DEF WorldT
  <2>4. OfficersT' /\ DaysT'
    BY <1>0, <2>2 DEF OfficersT, DaysT
  <2> QED BY <2>1, <2>3, <2>4 DEF TypesInv
<1>3. CASE Midnight
  <2>1. day' = day + 1 /\ day < MaxDay /\ UNCHANGED <<batches, token, refused, spared, officer, job, faults>>
    BY <1>3 DEF Midnight
  <2>2. DaysT'
    <3>1. day' \in 1..(MaxDay + 1) /\ (1..day) \subseteq 1..day'
      BY <1>0, <2>1 DEF DaysT
    <3>2. batches \in Seq(1..day')
      BY <1>0, <3>1 DEF DaysT
    <3> QED BY <2>1, <3>1, <3>2 DEF DaysT
  <2>3. OfficersT' /\ JobsT' /\ WorldT'
    BY <1>0, <2>1 DEF OfficersT, JobsT, WorldT
  <2> QED BY <2>2, <2>3 DEF TypesInv
<1>4. CASE Crash
  <2>1. /\ UNCHANGED <<batches, day, token, refused>> /\ faults < MaxFaults /\ faults' = faults + 1
        /\ spared' = spared \cup {officer[o].app : o \in {x \in Officers : At(x, "revoke")}}
        /\ officer' = [o \in Officers |-> IdleOfficer] /\ job' = [j \in Jobs |-> IdleJob]
    BY <1>4 DEF Crash
  <2>2. OfficersT' /\ JobsT'
    BY <2>1 DEF OfficersT, JobsT, OfficerT, IdleOfficer, IdleJob, OfficerPcs, JobPcs
  <2>3. spared' \subseteq Apps
    BY <1>0, <2>1 DEF WorldT, At
  <2>4. WorldT' /\ DaysT'
    BY <1>0, <2>1, <2>3 DEF WorldT, DaysT
  <2> QED BY <2>2, <2>4 DEF TypesInv
<1>5. ASSUME NEW a \in Apps, CreateApplicationToken(a) \/ Refuse(a) PROVE TypesInv'
  BY <1>0, <1>5 DEF CreateApplicationToken, Refuse, TypesInv, OfficersT, JobsT, DaysT, WorldT
<1>6. ASSUME UNCHANGED <<batches, day, token, refused, spared, officer, job, faults>> PROVE TypesInv'
  BY <1>0, <1>6 DEF TypesInv, OfficersT, JobsT, DaysT, WorldT
<1>7. ASSUME NEW a \in Apps, NEW phase \in Phases, AddPayment(a, phase) PROVE TypesInv'
  BY <1>6, <1>7 DEF AddPayment
<1>8. CASE (\E id \in Ids : DeletePayment(id)) \/ DeleteGrantPayments
  BY <1>6, <1>8 DEF DeletePayment, DeleteGrantPayments, Delete
<1>9. CASE \E n \in DOMAIN attempts : StoreOutgoingPaymentXml(n) \/ PutInvoice(n) \/ PaidByRondo(n)
  BY <1>6, <1>9 DEF StoreOutgoingPaymentXml, PutInvoice, PaidByRondo
<1>10. CASE UNCHANGED vars
  BY <1>6, <1>10 DEF vars
<1> QED BY <1>1, <1>2, <1>3, <1>4, <1>5, <1>7, <1>8, <1>9, <1>10 DEF Next

\* The types of the state, and the primary key of payments: a version is never inserted twice.
THEOREM PaymentsTyping == Spec => []TypeOK
<1>1. Inv /\ OnceInv /\ TypesInv => TypeOK
  <2> SUFFICES ASSUME Inv, OnceInv, TypesInv PROVE TypeOK
    OBVIOUS
  <2>1. \A p : IsRow(p) /\ Numbered(p) => p \in PaymentType
    BY DEF IsRow, Numbered, PaymentType, Users
  <2>2. \A r \in rows : r \in PaymentType
    BY <2>1 DEF Inv, PaymentsInv, RowsInv, OnceInv, VersionsInv
  <2>3. \A r, s \in rows : r.id = s.id /\ r.ver = s.ver => r = s
    BY DEF OnceInv, VersionsInv, SameKey
  <2>4. ASSUME NEW o \in Officers
        PROVE  officer[o].pc \in OfficerPcs /\ officer[o].n \in 0..Len(attempts)
               /\ \A p \in officer[o].list : p \in PaymentType
    <3>1. OfficerOK(officer[o]) /\ OfficerD(officer[o]) /\ OfficerT(officer[o])
      BY DEF Inv, PaymentsInv, OfficersInv, OnceInv, DeliveryInv, OfficersD, TypesInv, OfficersT
    <3> QED BY <2>1, <3>1 DEF OfficerOK, Mine, OfficerD, OfficerT
  <2>5. \A j \in Jobs : job[j].pc \in JobPcs /\ job[j].todo \subseteq answered
    BY DEF Inv, PaymentsInv, JobsInv, JobOK, TypesInv, JobsT
  <2>6. files \subseteq answered /\ answered \subseteq DOMAIN attempts
    BY DEF Inv, PaymentsInv, AttemptsInv
  <2>7. DaysT /\ WorldT
    BY DEF TypesInv
  <2> QED BY <2>2, <2>3, <2>4, <2>5, <2>6, <2>7 DEF TypeOK, DaysT, WorldT, OfficerPcs, JobPcs
<1>2. Inv /\ TypesInv /\ [Next]_vars => TypesInv'
  BY StepTypes
<1>3. Spec => []TypesInv
  BY <1>2, InitTypes, Invariance, PTL DEF Spec
<1> QED BY <1>1, <1>3, OnceInvariance, PTL

-----------------------------------------------------------------------------
(* A request that hangs *)

Gone(a) == \E r \in rows : r.deleted /\ r.app = a

\* A request waits for a version there is; if it finds none, or cannot write the next one, a
\* payment of its application was deleted.
CutOff(x) ==
  /\ x.pc = "hung" => Gone(x.app)
  /\ x.pc = "wait" => \E r \in rows : SameKey(r, x.pay)
  /\ x.pc = "mark" /\ x.pay = Payment0 => Gone(x.app)

CutOffInv == \A o \in Officers : CutOff(officer[o])

\* The version the insert meets is one that is deleted.
LEMMA FailsOverDeletion ==
  ASSUME RowsInv, VersionsInv, NEW p, Known(p), UpdateFails(p)
  PROVE  Gone(p.app)
<1>1. PICK r \in rows : r.id = p.id /\ r.ver = NextVersion(p.id)
  BY DEF UpdateFails
<1>2. r.ver \in Nat /\ (~ r.deleted => r.ver < NextVersion(p.id))
  BY <1>1, NextVersionFollows DEF VersionsInv, Numbered
<1>3. r.deleted
  BY <1>1, <1>2
<1>4. r.app = p.app
  BY <1>1 DEF Known, RowsInv
<1> QED BY <1>3, <1>4 DEF Gone

LEMMA CutOffStays ==
  ASSUME Kept, NEW x, CutOff(x)
  PROVE  CutOff(x)'
<1>1. \A a : Gone(a) => Gone(a)'
  BY DEF Gone, Kept, Kin, Same
<1>2. (\E r \in rows : SameKey(r, x.pay)) => \E r \in rows' : SameKey(r, x.pay)
  BY DEF Kept, Kin, Same, SameKey
<1> QED BY <1>1, <1>2 DEF CutOff, Gone, SameKey

LEMMA CutOffMoves ==
  ASSUME Inv, CutOffInv, Kept, NEW o \in Officers, NEW y, CutOff(y)', officer' = [officer EXCEPT ![o] = y]
  PROVE  CutOffInv'
<1>1. officer'[o] = y /\ \A q \in Officers \ {o} : officer'[q] = officer[q]
  BY DEF Inv, PaymentsInv, OfficersInv
<1> SUFFICES ASSUME NEW q \in Officers PROVE CutOff(officer[q])'
  BY DEF CutOffInv
<1>2. PICK x : x = officer'[q]
  OBVIOUS
<1>3. CutOff(x)'
  <2>1. CASE q = o
    BY <1>1, <1>2, <2>1
  <2>2. CASE q # o
    <3>1. CutOff(x)
      BY <1>1, <1>2, <2>2 DEF CutOffInv
    <3> QED BY <3>1, CutOffStays
  <2> QED BY <2>1, <2>2
<1> QED BY <1>2, <1>3 DEF CutOff, Gone, SameKey

LEMMA HangCutOff ==
  ASSUME Inv, CutOffInv, Kept, NEW o \in Officers, Hang(o), Gone(officer[o].app)
  PROVE  CutOffInv'
<1> DEFINE x == officer[o]
           y == [x EXCEPT !.pc = "hung"]
<1>1. HasFields(x)
  BY DEF Inv, PaymentsInv, OfficersInv, OfficerOK, HasFields
<1>2. PICK z : z = y
  OBVIOUS
<1>3. z.pc = "hung" /\ z.app = x.app
  <2> HIDE DEF x
  <2> QED BY <1>1, <1>2 DEF HasFields
<1>4. officer' = [officer EXCEPT ![o] = y]
  BY DEF Hang
<1> HIDE DEF y
<1>5. CutOff(z)
  BY <1>3 DEF CutOff
<1>6. CutOff(z)'
  BY <1>5, CutOffStays
<1> QED BY <1>2, <1>4, <1>6, CutOffMoves

LEMMA CutOffOfficers ==
  ASSUME Inv, OnceInv, CutOffInv, Kept, NEW o \in Officers, CreateGrantPayments(o) \/ FindBatches(o) \/ Serve(o)
  PROVE  CutOffInv'
<1> DEFINE x == officer[o]
<1>0. HasFields(x) /\ OfficerOK(x) /\ CutOff(x) /\ RowsInv /\ VersionsInv
  BY DEF Inv, PaymentsInv, OfficersInv, OfficerOK, HasFields, CutOffInv, OnceInv
<1>1. CASE Quiet(o)
  <2>1. PICK y : IsQuiet(y) /\ officer' = [officer EXCEPT ![o] = y]
    BY <1>1 DEF Quiet
  <2>2. CutOff(y)'
    BY <2>1 DEF CutOff, IsQuiet, Working
  <2> QED BY <2>1, <2>2, CutOffMoves
<1>2. CASE MarkSent(o) /\ Hang(o)
  <2>1. /\ x.pc = "mark" /\ officer' = [officer EXCEPT ![o] = [x EXCEPT !.pc = "hung"]]
        /\ \/ x.pay = Payment0 \/ UpdateFails(x.pay)
           \/ officer' = [officer EXCEPT ![o] = [x EXCEPT !.pc = "revoke", !.pay = Payment0, !.n = 0]]
    BY <1>2 DEF MarkSent, Hang, At
  <2>2. x.pay = Payment0 \/ UpdateFails(x.pay)
    <3>1. [x EXCEPT !.pc = "hung"].pc = "hung" /\ [x EXCEPT !.pc = "revoke", !.pay = Payment0, !.n = 0].pc = "revoke"
      <4> HIDE DEF x
      <4> QED BY <1>0 DEF HasFields
    <3>2. officer = [q \in Officers |-> officer[q]]
      BY DEF Inv, PaymentsInv, OfficersInv
    <3> DEFINE y == [x EXCEPT !.pc = "hung"]
               z == [x EXCEPT !.pc = "revoke", !.pay = Payment0, !.n = 0]
    <3>3. y # z
      BY <3>1
    <3> HIDE DEF y, z
    <3>4. officer' = [officer EXCEPT ![o] = y] => officer'[o] = y
      BY <3>2
    <3>5. officer' = [officer EXCEPT ![o] = z] => officer'[o] = z
      BY <3>2
    <3> QED BY <2>1, <3>3, <3>4, <3>5 DEF y, z
  <2>3. Gone(x.app)
    <3>1. CASE x.pay = Payment0
      BY <1>0, <2>1, <3>1 DEF CutOff
    <3>2. CASE x.pay # Payment0
      <4>1. Known(x.pay) /\ x.pay.app = x.app
        BY <1>0, <2>1, <3>2 DEF OfficerOK, Mine
      <4> QED BY <1>0, <2>2, <3>2, <4>1, FailsOverDeletion
    <3> QED BY <3>1, <3>2
  <2> QED BY <1>2, <2>3, HangCutOff
<1>3. ASSUME NEW p \in x.list, SendPayment(o, p) PROVE CutOffInv'
  <2> DEFINE next == NewVersion([p EXCEPT !.batch = x.batch, !.user = "officer"])
             y == [x EXCEPT !.pc = "wait", !.list = x.list \ {p}, !.pay = next, !.n = Len(attempts) + 1]
  <2>1. \/ UpdateFails(p) /\ Hang(o)
        \/ next \in rows' /\ officer' = [officer EXCEPT ![o] = y]
    BY <1>3 DEF SendPayment, UpdatePayment
  <2>2. CASE UpdateFails(p) /\ Hang(o)
    <3>1. Known(p) /\ p.app = x.app
      BY <1>0 DEF OfficerOK, Mine
    <3>2. Gone(x.app)
      BY <1>0, <2>2, <3>1, FailsOverDeletion
    <3> QED BY <2>2, <3>2, HangCutOff
  <2>3. CASE next \in rows' /\ officer' = [officer EXCEPT ![o] = y]
    <3>1. PICK q : q = next
      OBVIOUS
    <3>2. PICK z : z = y
      OBVIOUS
    <3>3. z.pc = "wait" /\ z.pay = q
      <4> HIDE DEF x, next
      <4> QED BY <1>0, <3>1, <3>2 DEF HasFields
    <3>4. CutOff(z)'
      <4>1. q \in rows'
        BY <2>3, <3>1
      <4> QED BY <3>3, <4>1 DEF CutOff, SameKey
    <3> HIDE DEF y
    <3> QED BY <2>3, <3>2, <3>4, CutOffMoves
  <2> QED BY <2>1, <2>2, <2>3
<1>4. CASE SendSucceeded(o)
  <2> DEFINE found == Version(x.pay.id, x.pay.ver)
             q == IF found = {} THEN Payment0 ELSE CHOOSE r \in found : TRUE
             y == [x EXCEPT !.pc = "mark", !.pay = q]
  <2>1. x.pc = "wait" /\ officer' = [officer EXCEPT ![o] = y]
    BY <1>4 DEF SendSucceeded, At
  <2>2. q = Payment0 => found = {}
    <3>1. \A r \in rows : r # Payment0
      <4> SUFFICES ASSUME NEW r \in rows, r = Payment0 PROVE FALSE
        OBVIOUS
      <4>1. IsRow(r) /\ r.ver \in Nat /\ r.batch \in Nat
        <5>1. Len(batches) \in Nat
          BY DEF OnceInv, DeliveryInv, BatchesInv
        <5> QED BY <1>0, <5>1 DEF RowsInv, VersionsInv, Numbered
      <4> QED BY <4>1, Payment0Assumption DEF IsRow, Users
    <3>2. found # {} => q \in found
      <4> HIDE DEF found
      <4> QED OBVIOUS
    <3>3. found \subseteq rows
      BY DEF Version
    <3> HIDE DEF found, q
    <3> QED BY <3>1, <3>2, <3>3
  <2>3. found = {} => Gone(x.app)
    <3>1. Known(x.pay) /\ x.pay.app = x.app
      BY <1>0, <2>1 DEF OfficerOK, Mine
    <3>2. PICK r \in rows : SameKey(r, x.pay)
      BY <1>0, <2>1 DEF CutOff
    <3>3. found = {} => r.deleted
      BY <3>2 DEF Version, SameKey
    <3>4. r.app = x.app
      BY <1>0, <3>1, <3>2 DEF Known, RowsInv, SameKey
    <3> QED BY <3>3, <3>4 DEF Gone
  <2>4. PICK z : z = y
    OBVIOUS
  <2>5. z.pc = "mark" /\ z.pay = q /\ z.app = x.app
    <3> HIDE DEF x, q
    <3> QED BY <1>0, <2>4 DEF HasFields
  <2>6. CutOff(z)
    <3> HIDE DEF found, q, y
    <3> QED BY <2>2, <2>3, <2>5 DEF CutOff
  <2>7. CutOff(z)'
    BY <2>6, CutOffStays
  <2> HIDE DEF y
  <2> QED BY <2>1, <2>4, <2>7, CutOffMoves
<1>5. CASE \E p \in officer[o].list : SendPayment(o, p)
  BY <1>3, <1>5
<1>6. CASE \E a \in Apps : CreatePayment(o, a) \/ ListUnsentPayments(o, a)
  BY <1>1, <1>6, QuietSteps
<1>7. CASE \E p \in officer[o].list : SetPaymentPaid(o, p)
  BY <1>1, <1>7, QuietSteps
<1>8. CASE CreateGrantPayments(o) \/ FindBatches(o) \/ CreateBatch(o) \/ ListApplications(o) \/ EndRequest(o)
           \/ GiveUp(o) \/ RevokeApplicationTokens(o) \/ MarkSent(o)
  BY <1>1, <1>2, <1>8, QuietSteps
<1> QED BY <1>4, <1>5, <1>6, <1>7, <1>8 DEF Serve

LEMMA CutOffStep ==
  ASSUME Inv, OnceInv, CutOffInv, [Next]_vars
  PROVE  CutOffInv'
<1>0. Kept
  BY NothingIsForgotten
<1>1. ASSUME NEW o \in Officers, CreateGrantPayments(o) \/ FindBatches(o) \/ Serve(o) PROVE CutOffInv'
  BY <1>0, <1>1, CutOffOfficers
<1>2. CASE officer' = officer
  <2> SUFFICES ASSUME NEW o \in Officers PROVE CutOff(officer[o])'
    BY DEF CutOffInv
  <2>1. PICK x : x = officer[o]
    OBVIOUS
  <2>2. CutOff(x)'
    BY <1>0, <2>1, CutOffStays DEF CutOffInv
  <2> QED BY <1>2, <2>1, <2>2 DEF CutOff, Gone, SameKey
<1>3. CASE Crash
  <2>1. \A o \in Officers : officer'[o].pc = "idle"
    BY <1>3 DEF Crash, IdleOfficer
  <2> QED BY <2>1 DEF CutOffInv, CutOff
<1>4. ASSUME NEW a \in Apps, NEW phase \in Phases, AddPayment(a, phase) PROVE officer' = officer
  BY <1>4 DEF AddPayment
<1>5. CASE (\E id \in Ids : DeletePayment(id)) \/ DeleteGrantPayments
  BY <1>2, <1>5 DEF DeletePayment, DeleteGrantPayments, Delete
<1>6. CASE \E n \in DOMAIN attempts : StoreOutgoingPaymentXml(n) \/ PutInvoice(n) \/ PaidByRondo(n)
  BY <1>2, <1>6 DEF StoreOutgoingPaymentXml, PutInvoice, PaidByRondo
<1>7. ASSUME NEW j \in Jobs, RunJob(j) \/ JobFails(j) PROVE officer' = officer
  BY <1>7 DEF RunJob, GetRemoteFileList, UpdatePaymentstatusByResponse, DeleteRemoteFile, AllFilesSeen,
              FindPaymentsByResponse, JobFails
<1>8. CASE (\E a \in Apps : CreateApplicationToken(a) \/ Refuse(a)) \/ Midnight \/ UNCHANGED vars
  BY <1>2, <1>8 DEF CreateApplicationToken, Refuse, Midnight, vars
<1> QED BY <1>1, <1>2, <1>3, <1>4, <1>5, <1>6, <1>7, <1>8 DEF Next

\* A request that never ends was cut off by a deletion of its application's payment: a request
\* finds the version it waits for, and may write the next one, unless they were deleted.
THEOREM HangsOnlyOverDeletion == Spec => []HangsOverDeletion
<1>1. Init => CutOffInv
  BY DEF Init, CutOffInv, CutOff, IdleOfficer
<1>2. Inv /\ OnceInv /\ CutOffInv /\ [Next]_vars => CutOffInv'
  BY CutOffStep
<1>3. CutOffInv => HangsOverDeletion
  BY DEF CutOffInv, CutOff, Gone, HangsOverDeletion, At
<1> QED BY <1>1, <1>2, <1>3, OnceInvariance, PTL DEF Spec
=============================================================================
