# A specification of the valtionavustus (VA) service

TLA+ modules, TLC runs and TLAPS proofs about the server and the pages of
`Opetushallitus/va`, the Finnish National Agency for Education's service for
discretionary government grants. Paths below are relative to `src/`; Clojure
namespaces `oph.*` live in `src/server/src/clojure/oph`.

## 1. The system

A grant (*avustushaku*) opens for a period. Applicants fill in an application
(*hakemus*) with a form in the browser that saves itself; officers
(*virkailija*) evaluate it, ask for changes, decide, pay, and later receive
reports (*selvitys*) and requests for change (*muutoshakemus*). One JVM serves
two HTTP applications (hakija, virkailija) over one PostgreSQL database and runs
scheduled jobs; it sends email by SMTP and payments by SFTP.

All state that lasts is in PostgreSQL. Tables that matter keep every version of a
row: `(id, version)` is the key, `version_closed` is null on the current version,
and a change closes the current version and inserts the next. Transactions run at
READ COMMITTED; explicit row locks are `FOR UPDATE NOWAIT`. The pages keep redux
stores of their own that save with a delay and show a change before it is stored.

| part | state | operations | interacts with | what is hard | what makes it correct |
|---|---|---|---|---|---|
| versions of an application (`va/hakemus/db.clj`) | `hakemukset` | create a version, edit the open one in place | every writer of an application | interleaved statements, stale snapshots, roll-back | one open version, closed ones never change, none is lost |
| versions of answers (`soresu/form/db.clj`) | `form_submissions` | lock, close, insert | the same handlers | the same | the same |
| requests on one application (`va/hakija/handlers.clj`, `va/virkailija/hakemus_routes.clj`) | status, pointer to the answers, refused, submitted_version | create, save, submit, change request response, officer and applicant edit, verify, officer's status, refuse, keskeytä aloittamatta | both tables, the grant's phase | reads without a lock used later, two transactions per request, failure between them, NOWAIT failures | no save overwrites another, no edit without leave, a version's pointer is right or its lag is explained, cancelled stays cancelled |
| payments (`payments_data`, `payment_batches_data`) | `payments`, `payment_batches` | create, send, mark sent or paid, delete, batch | payment service, feedback job, officers | time-out of a transfer that goes on, crash between transfer and mark, two officers | a payment has one open version, is delivered once, is paid only after it was sent |
| payment feedback (`rondo_scheduling`) | files at the service | fetch, apply, delete | payments | poison files, feedback before the mark, rerun after a crash | each feedback is applied and to its own payment |
| the applicant's form (`soresu-form/web/form`) | values, saved object, save in progress; rows and files of growing sets | edit, autosave, submit, add and remove rows, upload | the server's save | typing during a save, conflicts, retries, rows that move under their files | what is typed is saved in the end; what the form says is true |
| budget (`va/budget.clj`, `VaBudgetCalculator.js`) | amounts and shares, sums at the server, what is granted | fill in, submit, grant by item or as a sum | form, evaluation | rounding twice, at equality and zero | page and server sum alike |
| trainee days | scopes and persons of each part | fill in, grant | form, evaluation | rows that come and go under the officer's grants | totals are of the rows there are |
| evaluation page (`hakemusten-arviointi-page`, `va/virkailija/db.clj`, `scoring.clj`) | redux store; `arviot`, changelog, scores, comments | edit, delayed save, load, optimistic settings | officers, server | one debounce for all applications, answers out of order, failures of optimistic calls | what an officer gave is stored, or a known cause lost it; the changelog is a chain |
| grant editor (`hakujen-hallinta-page`) and its tools | redux store; grant, roles, forms; legislation, duties, decisions, batches | edit, delayed save; mail decisions, send payments, invite reports | server, officers | late answers put back old values; mailing twice; batches of three requests | a page at rest shows what is stored; a decision is mailed once per command |
| accounts, units and projects (*talousarviotilit*, *koodistot*) | codes with visibility, uses by grants | create, change, hide, delete, use | grant editor | a deletion against a use | what is used exists |
| lists of grants and applications | filters, sort, decision lists | filter, move, open a list | browser storage | filters that outlive their list | what is hidden is hidden for a reason |
| reports (`va/hakija/selvitys/routes.clj`) | child applications, the parent's report status | create, save, submit, verify, accept, change request | versions, email | three transactions, unlocked checks | one report per kind, an accepted report stays accepted |
| change requests (`muutoshakemus`) | `muutoshakemus`, `paatos`, menoluokat | apply, decide | email, tokens | two officers decide | what applies is what was decided last |
| messages and email (`common/email.clj`) | `email`, `email_event`, forms of the page | write, send, record, retry | SMTP, project | crash before an event, retry against a late success | a message goes to its project, once, and is listed |
| connection pool (`soresu/common/db.clj`) | ten connections | take, give back, nested transactions | all handlers | everyone holds one and waits for another | some request always proceeds |
| reminders and notifications | `raportointivelvoite.muistutus_lahetetty` | mark and send | email | failure in the middle | each reminder is sent once |
| validation of forms; login; reports and exports; pages without state | none, or sessions | pure functions, look-ups, reading, rendering | | little | |

The hazards these parts are exposed to, each at its line and with the properties
that would catch it, are in `PROJECT.json`.

## 2. Modules

| module | models | run | proofs |
|---|---|---|---|
| `VersionLog` | abstract specification: an append-only log whose last entry is the only open one | | |
| `HakemusVersions` | `create-new-hakemus-version` and in-place updates, statement by statement | `versions` | `HakemusVersions_proofs` |
| `SubmissionVersions` | `update-submission!`, statement by statement | `submissions` | `SubmissionVersions_proofs` |
| `Hakemus` | the requests on one application | `hakemus_*` | `Hakemus_proofs` |
| `Maksatukset` | payments, batches, attempts to send them, feedback of the payment service | `payments*` | `Maksatukset_proofs` |
| `Yhteiset` | the constants that pages share: officers, grants | | |
| `Arviointi` | the evaluation page, its requests and the rows they meet | `virkailija` | `Virkailija_proofs` |
| `HakuEditori` | the grant editor | `virkailija` | `Hallinta_proofs` |
| `HakuToiminnot` | the tools of the grant editor | `virkailija` | `Hallinta_proofs` |
| `Koodienhallinta` | budget accounts, units, projects and their use | `virkailija` | `Virkailija_proofs` |
| `Listaus` | the lists of grants and of applications | `virkailija`, `listaus_paivat` | `Virkailija_proofs` |
| `Lomake` | the autosave of the applicant's form | `hakija` | `Hakija_proofs` |
| `KasvavaJoukko` | a growing set of the form, with files | `hakija` | `Hakija_proofs` |
| `Budjetti` | the budget: page, server, granted | `hakija` | `Hakija_proofs` |
| `Koulutuspaivat` | trainee days | `hakija` | `Hakija_proofs` |
| `Selvitys` | reports | `hakija` | `Hanke_proofs` |
| `Muutoshakemus` | requests for change | `hakija` | `Hanke_proofs` |
| `Viestit` | messages to a project and the mails behind them | `hakija` | `Hakija_proofs` |
| `MCVirkailija`, `MCHakija` | all pages of officers; all pages of applicants and of a project | `virkailija`, `hakija` | `Virkailija_proofs`, `Hakija_proofs` |
| `MCMaksatuksetLaaja`, other `MC*` | instances for TLC | | |

`HakemusVersions` and `SubmissionVersions` lie under `Hakemus`: what they show of one
transaction (a version is made whole or not at all, by one writer at a time) is what lets
`Hakemus` take a locked read and what follows as one step. The page modules do not
share variables in the browser, so `MCVirkailija` and `MCHakija` put them side by side: a
variable `place` says in which page a behaviour takes place, every step is a step of that
page, and the state spaces add up instead of multiplying.

### VersionLog, HakemusVersions

`rows` is the committed table of one application: a state (absent, open, closed)
and a content per version number. A transaction `t` has the rows it has locked or
inserted (`locks[t]`), its uncommitted values of them (`own[t]`) and the
statement it has reached (`pc[t]`). `View(t)` is what its next statement sees: its
own writes over what is committed when the statement starts. A locking statement
is two actions, one that takes the snapshot (`FindOpenVersion`,
`FindVersionToClose`, `FindVersionToUpdate`) and one that gets the row's lock and
looks at the row again (`GetHakemusByIdLocking`, `CloseHakemusById`,
`UpdateOpenVersion`), because PostgreSQL does so and other transactions commit in
between. `NOWAIT` failures, exceptions, lost connections and crashes are `Abort`,
possible at every statement. The two halves of a version's creation (close and
insert) are one action: after the SELECT has locked the only open row no other
transaction can see or disturb what happens between them.

A commit may fall between the snapshot of the *locking SELECT* and the moment it locks the
row it found. The SELECT then leaves the row out of its result, `create-new-hakemus-version`
goes on with no row, closes whichever version is open by then, inserts nothing, and its
caller's UPDATE touches no row; committed, the application has no open version. PostgreSQL
allows it and so does the model. `missed` is history: it remembers that a locking SELECT lost
the row it had found. No guard reads it; the properties that speak of an open version
(`SomeVersionIsOpen`, `ImplementsVersionLog`) allow a loss only after it, and
`AtMostOneOpenVersion` and `ClosedVersionsNeverChange` do not speak of it at all.
`SubmissionVersions` has no such case.

### SubmissionVersions

The same picture for a form's answers. `lock.sql` locks *every* version, closed
ones too, in an order of the database's choosing, and only versions it has found.
Version 0 is always among them, so it works as a mutex for what follows.

### Hakemus

Above the versions, one step is one transaction or one unlocked read. `rows` is
the sequence of versions (numbered from 1 here, from 0 in the database) with
status, pointer to the answers, refused and submitted_version; `submissions` the
versions of the answers; each version also keeps its `cause`: which kind of request
made it, what that request had read and loaded. `cause` is history for the
properties; no guard reads it. `req[r]` is a request:
`asked` (arrived, based on the version its page had loaded), `checked` (past
`can-update-hakemus`), `read` (has read the application), `written` (answers
written, application to come), `marking` (the officer's second transaction),
`ended`. `rowLock` and `submissionLock` are the row locks a transaction
keeps over several steps; a lock that is taken and released within one step does
not show.

What the model decides and the reader may want to know:
- the phase of the grant and the application are read in one step by the check of
  the routes and by the read of the handlers; between the two anything may happen;
- the browser's load of version and answers (`Ask`) is one step;
- validation of answers is a failure at will (`Abort`), and so is an exception;
- `refused` is in the schema's list of statuses and not in the database's type, so an
  officer who asks for it gets an error, which `Abort` is;
- saves are accepted for a cancelled application while the grant is current, since
  neither check looks at the status then, and `applicant-edit-open` looks at neither
  status nor phase. Both are in the model because they are in the code.

### Maksatukset

The payments of one grant. `rows` is `virkailija.payments`, every version of every
payment, closed and deleted ones included; it is a set and does not assume the key
`(id, version)`, which `TypeOK` checks. Four kinds of actor change it:

- `officer[o]`, the request of an officer: `create` (create-grant-payments, one
  payment after another), `checked` / `batch` (the two transactions of
  POST payment-batches), then the loop of `send-payments` or `set-payments-paid`:
  `loop`, `wait` (for an attempt), `mark`, `revoke`. As on the officers' page, every
  request to send or mark begins with a batch of its own;
- `attempts[n]`, what `with-timeout` starts: read the payment, store its invoice, put
  the file. It runs beside its request, which may give up at any moment (`GiveUp`), and
  nobody waits for it then. A transfer may succeed and still be reported as failed;
- `job[j]`, a run of `RondoJob`: it lists files, and for each finds the payment,
  updates it, deletes the file. Any exception that `pop-remote-files` does not catch
  ends the run (`JobEnds`) and `retry-job` begins another. `:else` in its `case` is a
  constant like any other, so a payment that is not sent, and several payments,
  are such exceptions;
- the applicant who refuses with the token of the decision, and the clock;
- whoever mails a decision: `CreateApplicationToken(a)` makes a live token for an application that
  has none, at any time. The first decision of an application, a decision that is mailed
  again and each decision on a request for change do so (`va/virkailija/paatos.clj:69, 93, 118`,
  `hakemus_routes.clj:75`); the payment revokes what is live then.

`update-payment` is one action, its read of the old version included: what it merges
from there is not changed in place by anybody else. It does not check that the version it
closes is open, and `NextVersion` counts only rows that are not deleted while the key
counts all, so an update can fail (`UpdateFails`). In `send-payments` that
happens inside a `go` block: the channel stays open and the request waits for ever
(`Hang`).

What the model decides:
- lists come from the database in an order of its own; the code's order of payments
  within an application is left free;
- `spared` is history: applications with a live token that was made after payment, or that
  a crash between payment and revocation left. `TokenEndsWithPayment` says that there are no
  others, and that a later revocation takes such a token too;
- `should-pay` and the decision itself do not change, refusal does;
- no request is under way at midnight;
- DELETE of one payment, a check and an update that repeats its condition, is one
  step;
- feedback names an application and a maksuera and arrives only for an invoice that was
  put; a file on which the job can do nothing else than fail (no XML, no reference) is not
  modelled.

Behaviours the model has that nothing in the repository promises against: a payment sent
and not confirmed stays unsent and is sent again another day; feedback for it meanwhile
is a *poison file*, on which each run of the job fails, and the files after it wait
(`Poisoned`, the premise of `FeedbackIsApplied`); two sendall requests create two
payments of one application, which is poison too.

### Arviointi

`store[o]` is the redux store of an officer's page: each application with its evaluation
(`arvio`), whether the page holds unsaved edits of it, and the one `timer` and the one
`saveStatus` that serve all of them. An edit is a number; `mine` remembers, for the
properties, what each officer last gave. `requests` are the thunks under way:
a save is read-existing, upsert, answer (`ReadExisting`, `UpsertArvio`, `ArvioSaved`), two
statements at the server without a transaction; a load replaces what the page
shows; a setting with a request of its own is stored and, for scores and the
status, read again. Optimistic settings put back the negation of what was asked when they
fail. `cause` names the ways in which the code loses an edit without telling;
`LossHasACause` says that there are no others.

### HakuEditori, HakuToiminnot, Koodienhallinta, Listaus

`HakuEditori`: the grant is saved whole three seconds after the last edit, its roles, forms,
projects and accounts by requests of their own; an answer brings parts of the grant back into
the page (`Brings`). `HakuToiminnot`: one tab at a time, whose state goes with it: the list of
legislation that a click sends whole, the rows of duties that are saved as they are typed, the
mailing of decisions, the three requests of a batch of payments, invitations to report. A decision
is mailed and logged (`SendPaatos`) and then marked as sent (`AddPaatosSentEmails`), in two steps; an
exception of the mail is caught and the decision marked all the same (`SendPaatosFails`), and
a request may fail at every step (`ToolFails`), also between the mail and its mark (`CutOff`): the
next sendall then mails that decision again.
`Koodienhallinta`: the cached list of codes, forms that keep the values they were first shown
with, the server's deletion in steps (looks at the uses, deletes), the grant that takes a
code in use in a transaction of its own, and the triggers that guard accounts but not codes.
`Listaus`: what filters hide, which of them survive a move to another grant, and decision
lists handed over through one key of the browser's storage.

### Lomake, KasvavaJoukko

`Lomake` is `FormStateTransitions.ts` with the server's save: one post at a time, a timer,
versions that conflict, errors that are retried and errors that are not, files. Saves
carry all answers; the server refuses a save whose base version is no longer current.
`KasvavaJoukko` is one growing set: the closed last row, the move of all rows when the
first is emptied, and uploads and deletions whose answers come late.

### Budjetti, Koulutuspaivat

The page's sum and the server's are two operators, each from its own source
(`VaBudgetCalculator.js`, `va/budget.clj`), with the rounding each makes; so are the
trainee days of the applicant and of the officer's overriding calculators.

### Selvitys, Muutoshakemus, Viestit

`Selvitys`: a handler is a record in `handlers` at its next step; each transaction and each
unlocked read is a step. `history.events` records, for the properties, whether a write of one
handler came between check and write of another (`crossed`), whether one failed, and whether an
officer acted on a view that was behind. `Muutoshakemus`: the applicant's form keeps what it sent,
times out and may send again; officers decide from lists that may be behind. `Viestit`: forms
live as long as they are mounted and what an earlier mount asked for goes on; each mail has a first
attempt, an event for each attempt and retries by two runs that do not know of each other.

What these decide:
- text, layout and the many fields of a form are elements of small sets;
- the save of an evaluation is atomic in `Budjetti` (its races are `Arviointi`'s), and the
  write of a report's version is atomic in `Selvitys` (its statements are `HakemusVersions`');
- in the lists, the filters on a grant's name and phase work as the one on its status.

## 3. Runs

| run | question | instance | distinct states | expects |
|---|---|---|---|---|
| `versions` | is a version log implemented, whatever falls inside a statement? | 3 transactions, 2 contents, versions 0..3 | 55 700 | pass |
| `submissions` | do the answers implement the log? | 3 transactions, 2 contents, versions 0..3 | 19 798 | pass |
| `hakemus_pairs` | any two requests, from any status; does each end? | 2 requests of every kind and status, weak fairness | 252 999 | pass |
| `hakemus_form` | three requests at an application under review | 3 requests of the kinds that meet there | 1 667 250 | pass |
| `hakemus_refuse` | is an application refused once? | 2 refusals | | violation |
| `payments` | is a payment sent, marked and paid as it should? | 1 officer, 1 run of the job, 1 payment of either of two maksuerat, 2 attempts, 2 feedback files, 2 days, 1 crash or failure, tokens made at any time; weak fairness | 123 340 | pass |
| `payments_wide` | what holds when two officers send on one day, or two runs of the job overlap? what can a request hang over? | 2 officers and 1 maksuera, or 2 runs and 2 maksuerat; 2 payments, 2 attempts, 2 files; decisions are mailed and refused before the first payment | 1 312 492 | pass |
| `payments_batch` | is there one batch a day? | 2 officers | | violation |
| `virkailija` | do the officers' pages show and store what officers gave? | see below | 835 861 | pass |
| `hakija` | the same of applicants, and of a granted project | see below | 623 559 | pass |
| `listaus_paivat` | does the day filter do what its label says? | 2 grants, 3 acts | | violation |

Bounds. Two transactions suffice to race; the third lets one commit into another's
statement while a third one waits. Versions 0..3 leave room for three creations by
three transactions. Each request is made once; three requests give read,
intervening change, and write on top of another's write. Transactions and requests
are interchangeable, so symmetry is used in the safety runs and not in
`hakemus_pairs`, `payments` and `hakija`, which check liveness. Two attempts are a first one
and a repetition; two days let the second one happen in a batch of its own. One application
is enough for what the payments' properties relate (a payment's versions, its attempts,
its files); two maksuerat show that they are kept apart. `MCMaksatuksetLaaja` takes either two
officers or two runs: together they are too many, and neither reads what the other
writes but the rows.

In `virkailija` and `hakija` a behaviour takes place in one page. Where two
dimensions are too many together the instance has two places for one page: one officer, two
applications and a failure, or two officers, one application and no failure (`Arviointi`);
one officer and every outcome, or two officers who accept with changes and nothing that fails
(`Muutoshakemus`, where the one officer's instance has requests that fail or requests that time
out, not both); the page with its requests, or one message with the mail behind it (`Viestit`: at
most two moves and messages together, and three with the faults). Three acts of an officer are an edit, a second one (of the same or another
application) that interferes with its save, and a load; two edits with a move and a failure are
what the grant editor's causes of loss need; two applicant's tabs and two officers with four
calls let a check of one handler be crossed by two others (the fourth call is for final reports
without a failure: interim reports have no verification, and three calls show what a failure does).
The officer's third act in `Budjetti` is about detailed costs. `hakija` gives money a bound of 1
and a multiplier of 3/2, with amounts up to one above the bound, and percentages of self-financing
0, 50 and 100: equality, zero and one beyond; what this leaves open about larger amounts and
other percentages, the theorems `SumsAgree` and `GrantsAgree` settle.

Deadlock is checked in the runs of the versions and of `Hakemus`. It is not in those of
`Maksatukset`, `MCVirkailija`, `MCHakija` and `Listaus`, where the bounds on payments, acts,
calls and days are used up and the system, with all work done, stops.

Fairness. `Hakemus`: weak fairness of `Serve(r)`, that is, a server thread runs its
handler to the end. Nothing is assumed of clients, officers, clocks or failures.
The code's part in it is that `NOWAIT` never waits for a lock and that transactions
release locks however they end (`with-tx`). `Maksatukset`: weak fairness of an
officer's request (`Serve(o)`) and of a run of the job (`RunJob(j)`), which cron starts
every day and `retry-job` repeats without limit. Nothing is assumed of the payment service
or of attempts: `RequestEnds` rests on the time-out alone. `Lomake`: weak fairness of the
page's timer (`OnSave`: the browser runs a timeout that was set), of the server's
handling of a post and of the page's handling of an answer. What the applicant types and
which requests fail is left free.

Most of what the payments promise (one open version, sent and paid once, no way back, an
invoice with what was sent) has the premise `NoDuplicateBatch`, which the next section shows
to fail: the batch of the day is all that keeps two officers from sending at once.

### Findings

`hakemus_refuse`: `on-refuse-application` (`va/hakija/handlers.clj:243`) tests
`refused` and the version on a read made before the transaction that refuses and
locks nothing. Two refusals that both read first are both accepted; each makes a
version and mails the officers and the applicant. The test "prevents refusing already
refused application" (`server/spec/oph/va/hakija/hakija_server_spec.clj:600`)
tries them one after the other only.

`payments_batch`: POST payment-batches (`va/virkailija/payment_batches_routes.clj:32`) looks
for a batch and inserts one in another transaction, and no constraint forbids the second. The
test "prevents duplicate payment batches"
(`server/spec/oph/va/virkailija/payment_batches_spec.clj:50`) posts them one after the
other. With two batches of a day two requests list the same unsent payments, and what
the premise excludes happens: a payment is delivered twice and has two open versions,
which the feedback job cannot apply.

`listaus_paivat`: the filter of grants by the days of their period
(`va-virkailija/web/va/hakujen-hallinta-page/haku-list/HakuListing.tsx:674`) compares
strings made of days without leading zeros, so that "2023-9-30" is not before "2023-10-1". The
label of the control (line 443) promises the grants that start on the chosen day or later.
`ListHidesForAReason` shows the filter right for days and months of as many digits.

## 4. Proofs

For any sets of transactions, requests, officers, runs of the job, applications, contents,
grants and codes, and any bounds; the runs show the same of small instances.

`HakemusVersions_proofs`. `AtMostOneOpenVersion` is not inductive: it says nothing of what
transactions have written and not committed. `Safe` adds that every view is ordered like the
table, that no row has two holders, that a locked row is not closed, and the heart of the
argument, `HolderHasOpen`: a transaction that holds any row holds the open one. There is only
one open row, so at most one transaction holds anything, and its commit cannot disturb
another's view. From `Safe` follow `TypeCorrect`, `OneOpenVersion` and, since a commit changes
only rows its transaction holds and these are not closed, `HistoryIsKept`. `Logged` is about the
open version, and needs no assumption on when commits fall: an open row is in every view until a
locking SELECT has missed (`OpenUnlessMissed`), a transaction that holds rows already finds the
open one and finds it still open (`FoundWhole`), one that goes on with no row has missed
(`EmptyMissed`), and each view is the table, continues it, edits its open version
or, after a miss, closes it (`ViewsStep`). From `Logged` follow `AnOpenVersion` and `Refinement`,
which maps each commit to a step of `VersionLog` or to the loss a miss causes, and every other
step to a stutter.

`SubmissionVersions_proofs`. `IInv`: who is past `lock.sql` holds version 0, so there is one
such transaction; until it closes something it sees the committed table, then the table with
its end closed, then a continuation of it; its commit is a step of `VersionLog`.

`Hakemus_proofs`. Every safety property of the requests, from one inductive invariant,
`HakemusInv`. The properties speak of versions that are there; a step adds a version made of
what its request read earlier, so the invariant must say what each request may still rely on:
- `VersionsOK`: what is true of the versions and answers alone. It holds the properties, and
  says of an open version that points behind the answers which of two causes it is behind for;
- `RequestsInv`: of each request by its kind and its place (`CreateOK`, `BasedOK`, `CheckedOK`,
  `LocksOK`, `SeenOK`, `PointerOK`). The central one is that what was read is either still
  current or older than the open version, and that in the first case everything that was
  checked still holds: `x.base = Current => ...`. A request that ignores the second case makes
  a version whose cause tells that it did, which is what the properties allow;
- `MarksInv`: the officers' late marks. Two requests may each mark what the other made, so it is
  not true that a request's own version is still unmarked; what holds is that the requests about
  to mark can be given different unmarked versions, an injection from requests to versions.
From it: `Typing`, `SavesAreKept`, `EditingIsPermitted`, `CancelledStays`, `PointerAgrees`,
`MarksAgree`.

`Maksatukset_proofs`. No row is ever taken away, and no row's payment, application, maksuera,
status or user ever changes: `Changes(P)` says so of every step, with `P` the rows it adds.
What officers, attempts and runs of the job hold is of rows there are (`OfficersInv`,
`AttemptsInv`, `JobsInv`), and so remains true whatever others do. From it: `TokenEnds`,
`FeedbackKept`.

The second half of the module: that a payment has one open version, goes out once and is paid once.
No constraint of the database nor check of `update-payment` says so: it follows from who may
touch a payment when.
- `VersionsInv`: versions of a payment, the open one and the deleted ones;
- `DeliveryInv`, which holds of any number of batches: what was sent was put, a request that
  waits or marks speaks of its own attempt, requests that send have different batches or are
  one, the job holds a version that was sent;
- `SenderInv`, under `NoDuplicateBatch`: a payment on the list of a sending request is
  unsettled, has the listed version as its only open one, and is in no other request's hands;
  the job touches settled payments only, so neither disturbs the other. An attempt that
  outlives its request can store its invoice only in a version that stays open until it is
  deleted (`AwaitsInvoice`);
- `CutOffInv`: an update fails only on a version whose number a deleted row has, so a request
  that hangs was cut off by a deletion.
That a next version exists is the maximum of a bounded set of naturals, which comes from
well-founded induction (`NatMax`). `ForwardOnly` compares a state with the next: it needs that
a step keeps or closes each open row (`NothingIsForgotten`). From these: `OneOpen`, `OutOnce`,
`Delivered`, `ForwardOnly`, `HangsOnlyOverDeletion`, `PaymentsTyping`.
`HangsOnlyOverDeletion` holds of any number of batches: two batches of a day cannot make a
request hang, only a deletion can.

The theorem about tokens, `TokenEnds`, follows `spared`: a token that is live while the payment is
out was made after it, was left by a crash, or is about to be revoked by the request that marked
the payment, of which the invariant says that it is still before `revoke`.

`Hanke_proofs`. A granted project, for any tabs, officers, calls and requests.
- `ReportInv`: `CheckHolds` says of each handler past its check that what it has checked
  still holds when it writes, while no write of another came between (`crossed`); then the
  application says of its report what the report is (`HakemusAgrees`), and while officers act on
  what there is, one at a time, the acceptance is mailed once (`OfficersAgree`). From it:
  `ReportsAgree`, and the action property `VerifiedStay`.
- `ChangeInv`: a request is decided once while officers decide on what there is (`DecidedOnce`),
  one request is open while no form was sent again (`OpenOnce`), decisions follow requests
  (`DecidedInOrder`). From it: `RequestsAgree`. The proof found what TLC's instance did not
  reach at first: two open requests need a fetch that is under way while the form is ticked.

`Hakija_proofs`. The pages of applicants, one by one, then together.
- Budget: page and server sum alike for every largest amount, every percentage from 0 to 100 and
  number of acts. Both totals agree where each amount is valid (`SameTotal`); where one is too large the
  server's is larger and both sides refuse it (`ServerTotalIsLarger`); the rounded percentage of a
  sum lies between nothing and the sum (`PercentRoundedUp`). For what is granted the two
  roundings, away from zero and up, leave the same share or none (`RoundingsAgree`), for any ratio.
- Trainee days: each table's rows are sound and each total is of its own row; what an officer has
  not changed is what was applied for (`CalcInv`).
- The form's saves: `NothingIsLost` says that, while no cause is noted, the page shows what was given
  and the save the server took last is one the page waits for; `NoConflict` that a
  conflict needs a rival, an overlap or a lost answer.
- Growing sets: `RowsOK` and `AnswersIn` give the shape of the rows; `NamesFollow` ties file, name and
  the request under way, until a row moves under it.
- Messages: a form speaks of the project it was mounted for (`FormIsOfItsProject`, `KutsutOK`); a mail
  without doubt has one attempt, was delivered, or failed (`MailsOK`); a message that is not listed
  is in an answer under way (`ListWillTell`).
- Together: a step of one page leaves the others alone, so each invariant holds of `AllSpec`; from
  them `FormsSayTruth`, `GrantsAgree`, `ProjectsAgree`, `MessagesArrive` and `HakijaTyping`.
The property about messages was found too strong by its proof (an answer that brings a list older
than the one shown), and was corrected to what the code does.

`Hallinta_proofs`. The pages that manage a grant, for any grants, acts and failures. None of the
properties is inductive: they speak of a page at rest, and what makes them true is what was
true while something was under way.
- The grant editor: `EditsKept` says of each grant that lost nothing that each part shown is what
  was given and is stored or on its way, and `EditorBusy` that each indicator has its request
  or delay.
- The tools: `Calm` says, while no cause is noted, what each tab shows against what is stored and
  asked: one request at a time and about the grant that is open (`Solo`), rows of duties with
  identities and drafts of their own (`RowsCalm`). `MailedAsMarked` says that a decision not marked
  was not mailed and a marked one was, but for overlapping requests, one cut off between mail
  and mark, and mails that failed; `DocumentsFollow` that the documents stored and those to come are
  those of every instalment. Proving that pages agree showed two behaviours no run had met: an
  identity given again after a deletion (the model counts as the database's sequence does)
  and a delayed edit whose row is taken away before the delay ends, which is a cause of its own.

`Virkailija_proofs`. The evaluation page, codes and lists, for any officers, applications, codes,
edits and failures, and then all pages of officers. Of the evaluation page `ArviointiInv` says
- `NothingElseIsLost`: while no cause is noted, what the officer gave last is on the page and in
  every save under way, so whichever save is stored last stores it. Each of the six causes is
  the step that would break this: a reload, an edit during a save, leaving the grant;
- `UnsavedIsAwaited`: what the server lacks is delayed, with a request that has not been stored,
  or told to have failed. A delay that is taken by an edit of another application, another
  officer's save and an error that is overwritten would break this, and are the other causes;
- `ChangesInv`: the changelog is a chain, and so is what a save has read of it (`ArvioOK`): a
  save puts row and log back together, as one save saw them;
- `CallsInv`: of a call of a setting that met no other, what the page shows meanwhile, what the
  server holds once it has stored it, and what the answer says. Others leave it alone because a
  request that could disturb it would have ended `alone` for both (`RequestSet`).
From it: `LossesHaveACause`, `ChangelogTells`, `SavingEnds`, `CallsEnd`. Of codes: what grants use
exists unless use and deletion crossed; the invariant follows a deletion from its look at the uses
to its write (`UsedCodes`). Of lists: only filters that were left behind are not shown, and while
windows have not met, one waits for the one list that is stored or told (`ListInv`). Of all pages, each of which
keeps its invariant while it is left alone (`PagesInv`): `PagesShowWhatIsStored`, `IndicatorsEnd`,
`SentWhole`, `VirkailijaTyping`.

Assumptions on the constants: bounds are natural numbers, `MaxVersion` among them; `Contents`
is not empty; `NoRow`, `NoRequest` and `Payment0` are no version, request and payment; 0 is a
maksuera; `NoHakemus` is no application, `NoHaku` no grant and `NoHanke` no project; percentages are
between 0 and 100; the requests and first statuses of an instance are among those there are; there are
two different values of a code; the runs of the job are finitely many (for the number of them
that `OneOpenVersion` mentions). No theorem assumes that officers, applications or requests are
finitely many.

Only model-checked:
- `EveryRequestIsAnswered`, `RequestEnds`, `FeedbackIsApplied`, `EventuallySaved`: liveness under
  fairness, which needs ENABLED;
- the three properties the code violates, which have a counterexample each (see Findings);
- that the operators which fold over rows of a form (`Koulutuspaivat`, `Muutoshakemus`) sum what
  they should for every number of rows: induction over data.

## 5. Plan

1. `Hakemus` shown to refine `VersionLog`, one transaction to one step, so that the refinements
   of the statements below it reach up to the requests.
2. The connection pool: nested transactions, deadlock and time-out.
3. The older queue of mails, and reminders of duties.

## 6. Not modelled

- Connection pool: handlers that take a second connection while they hold one
  (`with-tx` inside `with-tx`) may wait for each other when ten do; each transaction of the
  modules has a connection of its own.
- Scheduled notifications and reminders: jobs that read and send mail; only reminders of duties
  keep a mark, written in the transaction that sends.
- The older queue of mails (a channel read by one loop, with the same events and retries).
- Validation of forms and rules: pure functions, seen by the modules as a choice whether answers
  are valid; those of the budget are `Budjetti`'s.
- The register number of an application, creation of grants, the regeneration of one decision,
  e-mails and sums of a batch of payments, the deletion of all payments of a grant.
- Of the forms: sets within sets, previews, languages, attachments of a report, decimals.
- Login and user look-up, reports, exports and spreadsheets, rendering, search, deployment,
  browser tests (read as documentation).

What each component leaves out is in its note in `PROJECT.json`.
