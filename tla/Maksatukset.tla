------------------------------- MODULE Maksatukset -------------------------------
(***************************************************************************)
(* The payments (maksatukset) of one grant: officers create, delete, send  *)
(* and mark them; an attempt to send runs beside the request that waits    *)
(* for it and may outlive it; the payment service (Rondo) answers with     *)
(* feedback files, which a scheduled job applies.                          *)
(*                                                                         *)
(* A payment is a set of rows with one id: an update closes the row it was *)
(* given and inserts the next version, in one transaction that does not    *)
(* check that the row was still open.                                      *)
(***************************************************************************)
EXTENDS Naturals, Sequences, FiniteSets

CONSTANTS Apps,          \* the accepted applications of the grant
          Phases,        \* maksuerat; 0 is the one the decision creates
          Officers,      \* requests of officers, one after another each
          Jobs,          \* runs of RondoJob that may be under way together
          Payment0,      \* the payment of an officer or a job that has none
          MaxPayments,   \* bound: payments created
          MaxAttempts,   \* bound: invoices the officers attempt to send
          MaxFeedback,   \* bound: feedback files
          MaxDay,        \* bound: days
          MaxFaults      \* bound: crashes of the server and failed connections of a job

ASSUME PhasesAssumption == 0 \in Phases /\ Phases \subseteq Nat
ASSUME JobsAssumption == IsFiniteSet(Jobs)
ASSUME BoundsAssumption == {MaxPayments, MaxAttempts, MaxFeedback, MaxDay, MaxFaults} \subseteq Nat

VARIABLES rows,       \* virkailija.payments
          batches,    \* virkailija.payment_batches: the day each was made
          day,        \* today
          token,      \* applications with a token that is not revoked
          refused,    \* applications their applicant has refused
          spared,     \* history: applications with a token that a crash left after payment or a
            \* decision mailed later made anew
          officer,    \* the officers' requests
          attempts,   \* the attempts to send an invoice, in order
          files,      \* feedback files at Rondo, by the number of the attempt
          answered,   \* history: every feedback file there has been
          job,        \* the runs of the feedback job
          faults      \* crashes and failures so far

vars == <<rows, batches, day, token, refused, spared, officer, attempts, files, answered, job, faults>>

Statuses == {"created", "waiting", "sent", "paid"}
Unpaid == {"created", "waiting"}

ASSUME Payment0Assumption ==
  Payment0 \notin [id : Nat, ver : Nat, app : Apps, phase : Phases, status : Statuses, batch : Nat,
                   xml : BOOLEAN, user : {"officer", "rondo"}, closed : BOOLEAN, deleted : BOOLEAN]

IdleOfficer == [pc |-> "idle", op |-> "send", batch |-> 0, apps |-> {}, app |-> Payment0,
                list |-> {}, pay |-> Payment0, n |-> 0]

IdleJob == [pc |-> "idle", todo |-> {}, file |-> 0, pay |-> Payment0]

-----------------------------------------------------------------------------
(* Queries and updates *)

Open == {r \in rows : ~ r.closed /\ ~ r.deleted}

\* Mutant: get-unsent-payments without its condition on the status.
UnsentOfAnyStatus(a) == {r \in Open : r.app = a}

\* get-unsent-payments
Unsent(a) == {r \in Open : r.app = a /\ r.status \in Unpaid}

\* has-no-payments?
HasNoPayments(a) == \A r \in Open : r.app # a

\* find-payments-by-response: the payments a feedback file is about.
OfFile(n) == {r \in Open : r.app = attempts[n].app /\ r.phase = attempts[n].phase}

\* get-payment by id, empty if there is none.
Newest(id) == {r \in Open : r.id = id /\ \A s \in Open : s.id = id => s.ver <= r.ver}

\* get-payment by id and version.
Version(id, ver) == {r \in rows : r.id = id /\ r.ver = ver /\ ~ r.deleted}

Ids == {r.id : r \in rows}

\* Mutant: the largest version is taken for the next one.
LargestVersion(id) ==
  LET used == {0} \cup {r.ver : r \in {s \in rows : s.id = id /\ ~ s.deleted}}
  IN CHOOSE v \in used : \A u \in used : u <= v

\* GREATEST(MAX(version), 0) + 1 over the rows that are not deleted.
NextVersion(id) ==
  LET used == {0} \cup {r.ver : r \in {s \in rows : s.id = id /\ ~ s.deleted}}
  IN CHOOSE v \in {u + 1 : u \in used} : \A u \in used : u < v

\* The insert meets the primary key of a row that is deleted.
UpdateFails(p) == \E r \in rows : r.id = p.id /\ r.ver = NextVersion(p.id)

\* Mutant: the version that is updated stays open.
LeaveVersion(p) == rows

\* payment-close-version
CloseVersion(p) ==
  {IF r.id = p.id /\ r.ver = p.ver /\ ~ r.deleted THEN [r EXCEPT !.closed = TRUE] ELSE r : r \in rows}

\* Mutant: the insert leaves the version to the column's default.
UnnumberedVersion(p) == [p EXCEPT !.ver = 0, !.closed = FALSE, !.deleted = FALSE]

NewVersion(p) == [p EXCEPT !.ver = NextVersion(p.id), !.closed = FALSE, !.deleted = FALSE]

\* update-payment: everything but the version is what the caller gives, however old.
UpdatePayment(p) == rows' = CloseVersion(p) \cup {NewVersion(p)}

StorePayment(a, phase, status) ==
  rows' = rows \cup {[id |-> Cardinality(Ids) + 1, ver |-> 0, app |-> a, phase |-> phase,
                      status |-> status, batch |-> 0, xml |-> FALSE, user |-> "officer",
                      closed |-> FALSE, deleted |-> FALSE]}

-----------------------------------------------------------------------------
(* Creating and deleting payments *)

Init ==
  /\ rows = {} /\ batches = <<>> /\ day = 1 /\ token = {} /\ refused = {} /\ spared = {}
  /\ officer = [o \in Officers |-> IdleOfficer]
  /\ attempts = <<>> /\ files = {} /\ answered = {}
  /\ job = [j \in Jobs |-> IdleJob]
  /\ faults = 0

At(o, pc) == officer[o].pc = pc

\* create-grant-payments begins: it filters valid-for-payment? before it creates.
CreateGrantPayments(o) ==
  /\ At(o, "idle")
  /\ LET valid == {a \in Apps \ refused : HasNoPayments(a)}
     IN /\ valid # {}
        /\ Cardinality(Ids) + Cardinality(valid) <= MaxPayments
        /\ officer' = [officer EXCEPT ![o] = [IdleOfficer EXCEPT !.pc = "create", !.op = "create", !.apps = valid]]
  /\ UNCHANGED <<rows, batches, day, token, refused, spared, attempts, files, answered, job, faults>>

\* create-payment for the next application, the first maksuera.
CreatePayment(o, a) ==
  /\ At(o, "create") /\ a \in officer[o].apps
  /\ StorePayment(a, 0, "created")
  /\ officer' = [officer EXCEPT ![o] =
       IF @.apps = {a} THEN IdleOfficer ELSE [@ EXCEPT !.apps = officer[o].apps \ {a}]]
  /\ UNCHANGED <<batches, day, token, refused, spared, attempts, files, answered, job, faults>>

\* POST payments, as the officers' page sends it: a further maksuera, in wait.
AddPayment(a, phase) ==
  /\ phase # 0
  /\ Cardinality(Ids) + Cardinality({o \in Officers : At(o, "create")}) < MaxPayments
  /\ StorePayment(a, phase, "waiting")
  /\ UNCHANGED <<batches, day, token, refused, spared, officer, attempts, files, answered, job, faults>>

Delete(doomed) ==
  /\ rows' = {IF r \in doomed THEN [r EXCEPT !.deleted = TRUE] ELSE r : r \in rows}
  /\ UNCHANGED <<batches, day, token, refused, spared, officer, attempts, files, answered, job, faults>>

\* DELETE payments/:id
DeletePayment(id) ==
  /\ \E r \in Newest(id) : r.status = "waiting"
  /\ Delete({r \in rows : r.id = id /\ r.status = "waiting"})

\* DELETE grants/:id/payments: the closed versions too.
DeleteGrantPayments ==
  /\ \E r \in rows : ~ r.deleted /\ r.status \in Unpaid
  /\ Delete({r \in rows : r.status \in Unpaid})

-----------------------------------------------------------------------------
(* Sending and marking *)

\* POST payment-batches, its check: no batch of the grant was made today.
FindBatches(o) ==
  /\ At(o, "idle") /\ day \notin {batches[b] : b \in DOMAIN batches}
  /\ \E op \in {"send", "set_paid"} :
       officer' = [officer EXCEPT ![o] = [IdleOfficer EXCEPT !.pc = "checked", !.op = op]]
  /\ UNCHANGED <<rows, batches, day, token, refused, spared, attempts, files, answered, job, faults>>

\* POST payment-batches, its insert.
CreateBatch(o) ==
  /\ At(o, "checked")
  /\ batches' = Append(batches, day)
  /\ officer' = [officer EXCEPT ![o] = [@ EXCEPT !.pc = "batch", !.batch = Len(batches) + 1]]
  /\ UNCHANGED <<rows, day, token, refused, spared, attempts, files, answered, job, faults>>

\* send-payments and set-payments-paid begin: valid-for-send-payment? is asked once, here.
ListApplications(o) ==
  /\ At(o, "batch")
  /\ officer' = [officer EXCEPT ![o] = [@ EXCEPT !.pc = "loop", !.apps = Apps \ refused]]
  /\ UNCHANGED <<rows, batches, day, token, refused, spared, attempts, files, answered, job, faults>>

\* The next application: its payments are read, and used one after another.
ListUnsentPayments(o, a) ==
  /\ At(o, "loop") /\ officer[o].list = {} /\ a \in officer[o].apps
  /\ officer' = [officer EXCEPT ![o] = [@ EXCEPT !.apps = officer[o].apps \ {a}, !.app = a, !.list = Unsent(a)]]
  /\ UNCHANGED <<rows, batches, day, token, refused, spared, attempts, files, answered, job, faults>>

EndRequest(o) ==
  /\ At(o, "loop") /\ officer[o].list = {} /\ officer[o].apps = {}
  /\ officer' = [officer EXCEPT ![o] = IdleOfficer]
  /\ UNCHANGED <<rows, batches, day, token, refused, spared, attempts, files, answered, job, faults>>

\* An exception inside the go block of send-payments leaves its channel open: the request
\* that reads it waits until the server is restarted.
Hang(o) == officer' = [officer EXCEPT ![o] = [@ EXCEPT !.pc = "hung"]] /\ UNCHANGED <<rows, attempts, token>>

\* send-payment: the batch goes into the payment, an attempt starts.
SendPayment(o, p) ==
  /\ At(o, "loop") /\ officer[o].op = "send" /\ p \in officer[o].list
  /\ Len(attempts) < MaxAttempts
  /\ LET given == [p EXCEPT !.batch = officer[o].batch, !.user = "officer"] IN
     IF UpdateFails(p) THEN Hang(o)
     ELSE /\ UpdatePayment(given)
          /\ attempts' = Append(attempts, [id |-> p.id, app |-> p.app, phase |-> p.phase, step |-> "started",
                                           put |-> FALSE, ok |-> FALSE, confirmed |-> FALSE])
          /\ officer' = [officer EXCEPT ![o] = [@ EXCEPT !.pc = "wait", !.list = officer[o].list \ {p},
                                                    !.pay = NewVersion(given), !.n = Len(attempts) + 1]]
          /\ UNCHANGED token
  /\ UNCHANGED <<batches, day, refused, spared, files, answered, job, faults>>

\* Mutant: the attempt is waited for, however long it takes.
GiveUpAfterTheEnd(o) ==
  /\ At(o, "wait") /\ attempts[officer[o].n].step = "ended"
  /\ officer' = [officer EXCEPT ![o] = [@ EXCEPT !.pc = "loop", !.pay = Payment0, !.n = 0]]
  /\ UNCHANGED <<rows, batches, day, token, refused, spared, attempts, files, answered, job, faults>>

\* with-timeout: the attempt has failed, or has not ended in time and goes on alone.
GiveUp(o) ==
  /\ At(o, "wait")
  /\ officer' = [officer EXCEPT ![o] = [@ EXCEPT !.pc = "loop", !.pay = Payment0, !.n = 0]]
  /\ UNCHANGED <<rows, batches, day, token, refused, spared, attempts, files, answered, job, faults>>

\* Mutant: the result of the attempt is not looked at.
SendEnded(o) ==
  /\ At(o, "wait") /\ attempts[officer[o].n].step = "ended"
  /\ LET found == Version(officer[o].pay.id, officer[o].pay.ver) IN
       officer' = [officer EXCEPT ![o] = [@ EXCEPT !.pc = "mark",
                             !.pay = IF found = {} THEN Payment0 ELSE CHOOSE r \in found : TRUE]]
  /\ UNCHANGED <<rows, batches, day, token, refused, spared, attempts, files, answered, job, faults>>

\* The attempt succeeded in time: the updated payment is read again.
SendSucceeded(o) ==
  /\ At(o, "wait") /\ attempts[officer[o].n].ok
  /\ LET found == Version(officer[o].pay.id, officer[o].pay.ver) IN
       officer' = [officer EXCEPT ![o] = [@ EXCEPT !.pc = "mark",
                             !.pay = IF found = {} THEN Payment0 ELSE CHOOSE r \in found : TRUE]]
  /\ UNCHANGED <<rows, batches, day, token, refused, spared, attempts, files, answered, job, faults>>

\* The payment read becomes "sent".
MarkSent(o) ==
  /\ At(o, "mark")
  /\ LET p == officer[o].pay IN
     IF p = Payment0 \/ (p # Payment0 /\ UpdateFails(p)) THEN Hang(o)
     ELSE /\ UpdatePayment([p EXCEPT !.status = "sent", !.user = "officer"])
          /\ attempts' = [attempts EXCEPT ![officer[o].n] = [@ EXCEPT !.confirmed = TRUE]]
          /\ officer' = [officer EXCEPT ![o] = [@ EXCEPT !.pc = "revoke", !.pay = Payment0, !.n = 0]]
          /\ UNCHANGED token
  /\ UNCHANGED <<batches, day, refused, spared, files, answered, job, faults>>

\* set-payments-paid for the next payment listed; an exception ends the request.
SetPaymentPaid(o, p) ==
  /\ At(o, "loop") /\ officer[o].op = "set_paid" /\ p \in officer[o].list
  /\ IF UpdateFails(p)
     THEN officer' = [officer EXCEPT ![o] = IdleOfficer] /\ UNCHANGED rows
     ELSE /\ UpdatePayment([p EXCEPT !.status = "paid", !.user = "officer"])
          /\ officer' = [officer EXCEPT ![o] = [@ EXCEPT !.pc = "revoke", !.list = officer[o].list \ {p}]]
  /\ UNCHANGED <<batches, day, token, refused, spared, attempts, files, answered, job, faults>>

\* Mutant: the token stays.
KeepTokens(o) ==
  /\ At(o, "revoke")
  /\ officer' = [officer EXCEPT ![o] = [@ EXCEPT !.pc = "loop"]]
  /\ UNCHANGED <<rows, batches, day, token, refused, spared, attempts, files, answered, job, faults>>

\* revoke-application-tokens
RevokeApplicationTokens(o) ==
  /\ At(o, "revoke")
  /\ token' = token \ {officer[o].app} /\ spared' = spared \ {officer[o].app}
  /\ officer' = [officer EXCEPT ![o] = [@ EXCEPT !.pc = "loop"]]
  /\ UNCHANGED <<rows, batches, day, refused, attempts, files, answered, job, faults>>

-----------------------------------------------------------------------------
(* An attempt: send-to-rondo! and send-payment! *)

\* The payment is read by id and its invoice stored with it; without a payment there is
\* an exception, which is caught.
StoreOutgoingPaymentXml(n) ==
  /\ attempts[n].step = "started"
  /\ LET found == Newest(attempts[n].id)
         stored == {r \in found : r.status \in Unpaid}
     IN /\ attempts' = [attempts EXCEPT ![n] = [@ EXCEPT !.step = IF found = {} THEN "ended" ELSE "stored"]]
        /\ rows' = (rows \ stored) \cup {[r EXCEPT !.xml = TRUE] : r \in stored}
  /\ UNCHANGED <<batches, day, token, refused, spared, officer, files, answered, job, faults>>

\* The file is put to Rondo, or is not; the connection may break after it is.
PutInvoice(n) ==
  /\ attempts[n].step = "stored"
  /\ \E put, ok \in BOOLEAN :
       /\ ok => put
       /\ attempts' = [attempts EXCEPT ![n] = [@ EXCEPT !.step = "ended", !.put = put, !.ok = ok]]
  /\ UNCHANGED <<rows, batches, day, token, refused, spared, officer, files, answered, job, faults>>

-----------------------------------------------------------------------------
(* Feedback *)

\* Rondo has paid the invoice and leaves a file.
PaidByRondo(n) ==
  /\ attempts[n].put /\ n \notin answered /\ Cardinality(answered) < MaxFeedback
  /\ files' = files \cup {n} /\ answered' = answered \cup {n}
  /\ UNCHANGED <<rows, batches, day, token, refused, spared, officer, attempts, job, faults>>

\* fetch-feedback-from-rondo: the schedule or the retry of a run that failed.
GetRemoteFileList(j) ==
  /\ job[j].pc = "idle" /\ files # {}
  /\ job' = [job EXCEPT ![j] = [@ EXCEPT !.pc = "files", !.todo = files]]
  /\ UNCHANGED <<rows, batches, day, token, refused, spared, officer, attempts, files, answered, faults>>

\* The run ends: all files seen, or an exception that pop-remote-files does not catch.
JobEnds(j) == job' = [job EXCEPT ![j] = IdleJob]

\* Mutant: a payment not yet sent is taken for one that is.
SentOrUnsent(p) == TRUE

MaySetPaid(p) == p.status = "sent"

\* Mutant: no payment at all is taken for a paid one.
PaidOrNone(found) == \A r \in found : r.status = "paid"

\* Mutant: feedback on a paid payment fails like any other exception.
NeverPaid(found) == FALSE

AlreadyPaid(found) == \E r \in found : r.status = "paid"

\* The next file is fetched and its payment looked up.  "no-payment" keeps the file; more
\* than one payment or a payment not sent are exceptions with no clause of their own in the
\* case form, so the run fails.
FindPaymentsByResponse(j, n) ==
  /\ job[j].pc = "files" /\ n \in job[j].todo
  /\ LET found == OfFile(n)
         p == CHOOSE r \in found : TRUE
     IN IF n \notin files \/ Cardinality(found) > 1 THEN JobEnds(j)
        ELSE IF AlreadyPaid(found) THEN job' = [job EXCEPT ![j] = [@ EXCEPT !.pc = "delete", !.file = n]]
        ELSE IF found = {} THEN job' = [job EXCEPT ![j] = [@ EXCEPT !.todo = job[j].todo \ {n}]]
        ELSE IF MaySetPaid(p)
             THEN job' = [job EXCEPT ![j] = [@ EXCEPT !.pc = "update", !.file = n, !.pay = p]]
             ELSE JobEnds(j)
  /\ UNCHANGED <<rows, batches, day, token, refused, spared, officer, attempts, files, answered, faults>>

\* update-paymentstatus-by-response: the payment found becomes "paid".
UpdatePaymentstatusByResponse(j) ==
  /\ job[j].pc = "update"
  /\ IF UpdateFails(job[j].pay) THEN JobEnds(j) /\ UNCHANGED rows
     ELSE /\ UpdatePayment([job[j].pay EXCEPT !.status = "paid", !.user = "rondo"])
          /\ job' = [job EXCEPT ![j] = [@ EXCEPT !.pc = "delete", !.pay = Payment0]]
  /\ UNCHANGED <<batches, day, token, refused, spared, officer, attempts, files, answered, faults>>

\* delete-remote-file!; a file that is gone already is an exception.
DeleteRemoteFile(j) ==
  /\ job[j].pc = "delete"
  /\ files' = files \ {job[j].file}
  /\ IF job[j].file \in files
     THEN job' = [job EXCEPT ![j] = [@ EXCEPT !.pc = "files", !.file = 0, !.todo = job[j].todo \ {job[j].file}]]
     ELSE JobEnds(j)
  /\ UNCHANGED <<rows, batches, day, token, refused, spared, officer, attempts, answered, faults>>

AllFilesSeen(j) ==
  /\ job[j].pc = "files" /\ job[j].todo = {}
  /\ JobEnds(j)
  /\ UNCHANGED <<rows, batches, day, token, refused, spared, officer, attempts, files, answered, faults>>

-----------------------------------------------------------------------------
(* The world around *)

\* Some payment of the application is sent or paid.
PaymentIsOut(a) == \E r \in rows : r.app = a /\ r.status \in {"sent", "paid"}

\* create-application-token: the mail of a decision, its repetition and the mail of a decision on
\* a request for change need a token; an application without a live one gets a new one,
\* whatever its payments.
CreateApplicationToken(a) ==
  /\ a \notin token /\ token' = token \cup {a}
  /\ spared' = IF PaymentIsOut(a) THEN spared \cup {a} ELSE spared
  /\ UNCHANGED <<rows, batches, day, refused, officer, attempts, files, answered, job, faults>>

\* The applicant refuses the grant by the link of the decision (Hakemus, kind "refuse").
Refuse(a) ==
  /\ a \in token \ refused
  /\ refused' = refused \cup {a}
  /\ UNCHANGED <<rows, batches, day, token, spared, officer, attempts, files, answered, job, faults>>

\* No request goes on past midnight, but an attempt left alone may.
Midnight ==
  /\ day < MaxDay /\ day' = day + 1
  /\ \A o \in Officers : At(o, "idle") \/ At(o, "hung")
  /\ UNCHANGED <<rows, batches, token, refused, spared, officer, attempts, files, answered, job, faults>>

\* A connection of the job fails.
JobFails(j) ==
  /\ job[j].pc # "idle" /\ faults < MaxFaults /\ faults' = faults + 1
  /\ JobEnds(j)
  /\ UNCHANGED <<rows, batches, day, token, refused, spared, officer, attempts, files, answered>>

\* The server is restarted: requests, attempts and runs are gone.
Crash ==
  /\ faults < MaxFaults /\ faults' = faults + 1
  /\ spared' = spared \cup {officer[o].app : o \in {x \in Officers : At(x, "revoke")}}
  /\ officer' = [o \in Officers |-> IdleOfficer]
  /\ attempts' = [n \in DOMAIN attempts |-> [attempts[n] EXCEPT !.step = "ended", !.ok = FALSE]]
  /\ job' = [j \in Jobs |-> IdleJob]
  /\ UNCHANGED <<rows, batches, day, token, refused, files, answered>>

\* What the server does for an officer's request.
Serve(o) ==
  \/ CreateBatch(o) \/ ListApplications(o) \/ EndRequest(o)
  \/ GiveUp(o) \/ SendSucceeded(o) \/ MarkSent(o) \/ RevokeApplicationTokens(o)
  \/ \E a \in Apps : CreatePayment(o, a) \/ ListUnsentPayments(o, a)
  \/ \E p \in officer[o].list : SendPayment(o, p) \/ SetPaymentPaid(o, p)

RunJob(j) ==
  \/ GetRemoteFileList(j) \/ UpdatePaymentstatusByResponse(j) \/ DeleteRemoteFile(j) \/ AllFilesSeen(j)
  \/ \E n \in job[j].todo : FindPaymentsByResponse(j, n)

Next ==
  \/ \E o \in Officers : CreateGrantPayments(o) \/ FindBatches(o) \/ Serve(o)
  \/ \E a \in Apps, phase \in Phases : AddPayment(a, phase)
  \/ \E id \in Ids : DeletePayment(id)
  \/ DeleteGrantPayments
  \/ \E n \in DOMAIN attempts : StoreOutgoingPaymentXml(n) \/ PutInvoice(n) \/ PaidByRondo(n)
  \/ \E j \in Jobs : RunJob(j) \/ JobFails(j)
  \/ \E a \in Apps : CreateApplicationToken(a) \/ Refuse(a)
  \/ Midnight \/ Crash

Spec == Init /\ [][Next]_vars

\* Requests are served to the end; the job is scheduled every day and its failed runs are
\* repeated until they succeed.
FairSpec == Spec /\ (\A o \in Officers : WF_vars(Serve(o))) /\ (\A j \in Jobs : WF_vars(RunJob(j)))

-----------------------------------------------------------------------------
(* Properties *)

PaymentType == [id : Nat, ver : Nat, app : Apps, phase : Phases, status : Statuses,
                batch : 0..Len(batches), xml : BOOLEAN, user : {"officer", "rondo"},
                closed : BOOLEAN, deleted : BOOLEAN]

\* Types, and the primary key (id, version) of payments.
TypeOK ==
  /\ \A r \in rows : r \in PaymentType
  /\ \A r, s \in rows : r.id = s.id /\ r.ver = s.ver => r = s
  /\ batches \in Seq(1..day) /\ day \in 1..(MaxDay + 1)
  /\ token \subseteq Apps /\ refused \subseteq Apps /\ spared \subseteq Apps
  /\ \A o \in Officers :
       /\ officer[o].pc \in {"idle", "create", "checked", "batch", "loop", "wait", "mark", "revoke", "hung"}
       /\ officer[o].n \in 0..Len(attempts)
       /\ \A p \in officer[o].list : p \in PaymentType
  /\ files \subseteq answered /\ answered \subseteq DOMAIN attempts
  /\ \A j \in Jobs : job[j].pc \in {"idle", "files", "update", "delete"} /\ job[j].todo \subseteq answered
  /\ faults \in 0..MaxFaults

\* "prevents duplicate payment batches" (payment_batches_spec.clj:50): no day has two
\* batches.  The check of POST payment-batches is also what keeps two officers from sending
\* on one day; two requests that check before either inserts break it.
NoDuplicateBatch == \A b, c \in DOMAIN batches : batches[b] = batches[c] => b = c

\* update-payment does not check that the row it closes is open, yet a payment has one open
\* version, as the feedback job needs, unless two officers sent on one day or two runs of
\* the job applied the same feedback; deletions, late attempts and crashes do not break it.
OneOpenVersion ==
  NoDuplicateBatch =>
    \A r, s \in Open : r.id = s.id =>
      \/ r = s
      \/ Cardinality(Jobs) > 1 /\ r.user = "rondo" /\ s.user = "rondo"

\* A payment is "sent" only when its invoice is at the payment service, whatever timed out,
\* failed or was lost; Rondo's "paid" only follows "sent"; and a sent payment carries the
\* invoice that was sent, through the updates that merge old versions into new ones.
SentWasDelivered ==
  /\ \A r \in rows : r.status = "sent" =>
       \E n \in DOMAIN attempts : attempts[n].id = r.id /\ attempts[n].put
  /\ \A r \in rows : r.status = "paid" /\ r.user = "rondo" =>
       \E s \in rows : s.id = r.id /\ s.status = "sent" /\ s.ver < r.ver
  /\ NoDuplicateBatch => \A r \in rows : r.status = "sent" => r.xml /\ r.batch # 0

\* A second invoice of a payment always follows attempts the server could not confirm: once
\* an attempt is confirmed no further one begins.
ConfirmedSendIsTheLast ==
  NoDuplicateBatch =>
    \A m, n \in DOMAIN attempts :
      attempts[m].id = attempts[n].id /\ attempts[m].confirmed => n <= m

\* The payment's status only goes forward while the payment lives: no late attempt, stale
\* list or feedback takes a sent or paid payment back.
StatusGoesForward ==
  [][\A r \in Open, s \in Open' :
       r.id = s.id /\ NoDuplicateBatch' =>
         /\ r.status = "sent" => s.status \in {"sent", "paid"}
         /\ r.status = "paid" => s.status = "paid"]_vars

\* Feedback is not lost: a file is deleted at Rondo only when its payment is paid, whenever
\* a run of the job ends or crashes.
DeletedFeedbackWasApplied ==
  \A n \in answered \ files :
    \E r \in rows : r.app = attempts[n].app /\ r.phase = attempts[n].phase /\ r.status = "paid"

\* Feedback pays the maksuera it is about, never another one of the application.
FeedbackPaysItsOwn ==
  \A r \in rows : r.status = "paid" /\ r.user = "rondo" =>
    \E n \in answered : attempts[n].app = r.app /\ attempts[n].phase = r.phase

\* What feedback says is applied before its file is deleted, to the payment it is about.
FeedbackIsKept == DeletedFeedbackWasApplied /\ FeedbackPaysItsOwn

\* A payment is paid once, by Rondo or by an officer, whatever is sent twice, repeated or
\* cut off, unless two runs of the job apply the same feedback.
PaidOnce ==
  NoDuplicateBatch =>
    \A r, s \in rows : r.id = s.id /\ r.status = "paid" /\ s.status = "paid" =>
      \/ r = s
      \/ Cardinality(Jobs) > 1 /\ r.user = "rondo" /\ s.user = "rondo"

\* A payment goes out once and is paid once, as far as the server can know.
PaymentsGoOutOnce == ConfirmedSendIsTheLast /\ PaidOnce

\* With a payment of it sent or paid an application can be refused no more, but for the moment
\* between the two transactions, for a crash in it, and for a token that a decision mailed
\* after the payment made anew: until the next payment of the application revokes that too.
TokenEndsWithPayment ==
  \A a \in token : PaymentIsOut(a) =>
    a \in spared \/ \E o \in Officers : At(o, "revoke") /\ officer[o].app = a

\* A request that never ends was cut off by a deletion of its application's payment, and by
\* nothing else: another officer who sends on the same day cannot do it.
HangsOverDeletion ==
  \A o \in Officers : At(o, "hung") => \E r \in rows : r.deleted /\ r.app = officer[o].app

\* A request to send or to mark payments ends though Rondo may never answer, or hangs.
RequestEnds == \A o \in Officers : ~ At(o, "idle") ~> At(o, "idle") \/ At(o, "hung")

\* A file on which a run of the job fails, each time: its payment is not marked as sent, or
\* there are several.
Poisoned == \E n \in files : Cardinality(OfFile(n)) > 1 \/ \E r \in OfFile(n) : r.status \in Unpaid

\* Feedback on a sent payment is applied, unless a file that fails the job stays among the
\* files.
FeedbackIsApplied ==
  <>[] ~ Poisoned =>
    \A n \in 1..MaxAttempts :
      n \in files /\ OfFile(n) # {} /\ (\A r \in OfFile(n) : r.status = "sent") ~> n \notin files

=============================================================================
