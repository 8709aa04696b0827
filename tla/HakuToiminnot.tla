-------------------------------- MODULE HakuToiminnot --------------------------------
(***************************************************************************)
(* The tools of the grant editor that keep a state of their own beside     *)
(* the redux store and ask the server by themselves: the legislation and   *)
(* the reporting obligations of a grant, the mailing of its decisions, the *)
(* sending of its payments, the requests for its reports.                  *)
(*                                                                         *)
(* One tab is shown at a time and its state goes with it, so that a        *)
(* behaviour is the life of one tab, in which grants are opened.  What an  *)
(* officer types is the number of the act that typed it.                   *)
(***************************************************************************)
EXTENDS Yhteiset, Naturals, FiniteSets, Sequences, SequencesExt

CONSTANTS Lait,                    \* the options of the legislation
          MaxToimet, MaxVirheet    \* acts of the officer; requests that fail

ToolTabs == {"laki", "velvoitteet", "paatokset", "maksatukset", "selvitys"}
Phases == {0, 1}                   \* instalments that have unsent payments
NoRow == 0                         \* the id of an obligation that is not stored

VARIABLES
  tab, openHaku,
  shown,      \* the state of the tab
  stored,     \* what the server keeps of each grant
  asked,      \* requests whose answer has not been handled
  toolsUsed,  \* how much of each bound is used
  clicked,    \* ghost: what the officer's clicks make of the legislation
  why         \* ghost: what happened that the page does not tell

toolVars == <<tab, openHaku, shown, stored, asked, toolsUsed, clicked, why>>

Shows(t) == tab = t /\ openHaku # NoHaku
Hurried(when) == why' = IF when THEN why \cup {"hurried"} ELSE why
Spending == toolsUsed' = [toolsUsed EXCEPT !.acts = @ + 1]
\* An act, or a delayed save, before the answer to an earlier one.
Hurry == Hurried(asked # {})
Act == Spending /\ Hurry
\* An act that takes away rows in which something is typed and delayed.
RowsGo == Spending /\ Hurried(asked # {} \/ shown.delays # {})
CanAct(t) == Shows(t) /\ toolsUsed.acts < MaxToimet
Mark == toolsUsed.acts + 1

FreshAsk == CHOOSE n \in 1..(Cardinality(asked) + 1) : \A c \in asked : c.id # n
Ask(kind, h, arg) == [id |-> FreshAsk, kind |-> kind, h |-> h, at |-> "sent", arg |-> arg, got |-> {}]
\* The page asks, once it has handled what it waited for.
Then(c, kind, h, arg) == (asked \ {c}) \cup {[Ask(kind, h, arg) EXCEPT !.id = c.id]}
Waiting(kinds) == {c \in asked : c.kind \in kinds}
Note(what) == why' = why \cup {what}

--------------------------------------------------------------------------------
(* Legislation *)

LakiCalls == {"getLaki", "postLaki"}

\* A click sends the list shown with one option added or taken away; the list shown changes
\* when the answer comes.
Lainsaadanto(l) ==
  LET on == l \notin shown.laki
      Toggled(set) == IF on THEN set \cup {l} ELSE set \ {l} IN
  /\ CanAct("laki")
  /\ asked' = asked \cup {Ask("postLaki", openHaku, Toggled(shown.laki))}
  /\ shown' = [shown EXCEPT !.manual = TRUE]
  /\ clicked' = [clicked EXCEPT ![openHaku] = Toggled(@)]
  /\ Act /\ UNCHANGED <<tab, openHaku, stored>>

LakiAnswered(c) ==
  /\ c.kind \in LakiCalls /\ c.at = "answered"
  /\ asked' = asked \ {c}
  /\ shown' = IF c.kind = "getLaki" THEN [shown EXCEPT !.laki = c.got]
              ELSE [shown EXCEPT !.laki = c.arg, !.manual = FALSE]
  /\ UNCHANGED <<tab, openHaku, stored, toolsUsed, clicked, why>>

--------------------------------------------------------------------------------
(* Reporting obligations: stored rows, and at the end a row for a new one *)

RowCalls == {"putRow", "postRow", "deleteRow"}
\* key: the instance of the component; draft: the instance a stored row was first typed in.
EmptyRow(key) == [id |-> NoRow, key |-> key, draft |-> key, value |-> 0]

\* Raportointivelvoite: an edit of a row that has what it needs restarts the row's delay.
Raportointivelvoite(i) ==
  LET row == shown.rows[i] IN
  /\ CanAct("velvoitteet")
  /\ shown' = [shown EXCEPT !.rows[i].value = Mark, !.manual = TRUE,
                 !.delays = {d \in @ : d.row.key # row.key}
                              \cup {[h |-> openHaku, row |-> [row EXCEPT !.value = Mark]]}]
  /\ Act /\ UNCHANGED <<tab, openHaku, stored, asked, clicked>>

\* The delay is over: a row without an id is put, another one posted.
DebouncedRaportointivelvoite(d) ==
  /\ shown' = [shown EXCEPT !.delays = @ \ {d}]
  /\ asked' = asked \cup {Ask(IF d.row.id = NoRow THEN "putRow" ELSE "postRow", d.h, d.row)}
  /\ Hurry /\ UNCHANGED <<tab, openHaku, stored, toolsUsed, clicked>>

DeleteRaportointivelvoite(i) ==
  /\ CanAct("velvoitteet") /\ shown.rows[i].id # NoRow
  /\ asked' = asked \cup {Ask("deleteRow", openHaku, shown.rows[i])}
  /\ shown' = [shown EXCEPT !.manual = TRUE]
  /\ RowsGo /\ UNCHANGED <<tab, openHaku, stored, clicked>>

\* insert, update and delete of one row; an update of a row that is gone changes nothing.
StoreRow(rows, c) ==
  LET at == {i \in DOMAIN rows : rows[i].id = c.arg.id} IN
  CASE c.kind = "putRow" -> Append(rows, [c.arg EXCEPT !.id = stored.ids + 1])
    [] c.kind = "postRow" -> [i \in DOMAIN rows |-> IF i \in at THEN [rows[i] EXCEPT !.value = c.arg.value] ELSE rows[i]]
    [] OTHER -> IF at = {} THEN rows ELSE RemoveAt(rows, CHOOSE i \in at : TRUE)
RowsOf(h) == stored.rows[h]

\* The answer, good or bad, has the list fetched again.
RowAnswered(c) ==
  /\ c.kind \in RowCalls /\ c.at = "answered"
  /\ asked' = Then(c, "getRows", openHaku, {})
  /\ shown' = [shown EXCEPT !.manual = FALSE]
  /\ UNCHANGED <<tab, openHaku, stored, toolsUsed, clicked, why>>

\* A new list of the open grant: a row with the same place and id keeps what is typed in it,
\* the others and the empty row start anew.  The rows of another grant are shown until then.
Raportointivelvoitteet(c) ==
  LET old == shown.rows
      Kept(i) == i \in DOMAIN old /\ old[i].id = c.got[i].id
      Row(i) == IF Kept(i) THEN old[i] ELSE [c.got[i] EXCEPT !.key = shown.keys + i]
  IN
  /\ c.kind = "getRows" /\ c.at = "answered"
  /\ asked' = asked \ {c}
  /\ shown' = IF c.h # openHaku THEN shown ELSE
       [shown EXCEPT !.rows = [i \in 1..Len(c.got) |-> Row(i)] \o <<EmptyRow(shown.keys)>>,
                     !.keys = @ + Len(c.got) + 1]
  /\ UNCHANGED <<tab, openHaku, stored, toolsUsed, clicked, why>>

--------------------------------------------------------------------------------
(* Mailing the decisions of a grant *)

MailCalls == {"sendall", "resendall"}
Mails == shown.mail.of = openHaku /\ ~shown.mail.sending

\* "Lähetä": the button to confirm is shown for five seconds.
OnPreview ==
  /\ CanAct("paatokset") /\ Mails /\ ~shown.mail.sent /\ ~shown.mail.preview
  /\ shown' = [shown EXCEPT !.mail.preview = TRUE]
  /\ Act /\ UNCHANGED <<tab, openHaku, stored, asked, clicked>>
PreviewEnds ==
  /\ shown.mail.preview
  /\ shown' = [shown EXCEPT !.mail.preview = FALSE]
  /\ UNCHANGED <<tab, openHaku, stored, asked, toolsUsed, clicked, why>>

DecisionDateAndSend ==
  /\ Shows("paatokset") /\ shown.mail.preview
  /\ asked' = asked \cup {Ask("sendall", openHaku, {})}
  /\ shown' = [shown EXCEPT !.mail.sending = TRUE, !.mail.preview = FALSE]
  /\ Hurry /\ UNCHANGED <<tab, openHaku, stored, toolsUsed, clicked>>

ResendDecisions ==
  /\ CanAct("paatokset") /\ Mails /\ shown.mail.sent /\ shown.mail.resend # "resending"
  /\ asked' = asked \cup {Ask("resendall", openHaku, {})}
  /\ shown' = [shown EXCEPT !.mail.resend = "resending"]
  /\ Act /\ UNCHANGED <<tab, openHaku, stored, clicked>>

\* Not told when it fails.
RegenerateDecisions ==
  /\ CanAct("paatokset") /\ Mails /\ shown.mail.sent /\ shown.mail.regenerate = ""
  /\ asked' = asked \cup {Ask("regenerate", openHaku, {})}
  /\ shown' = [shown EXCEPT !.mail.regenerate = "regenerating"]
  /\ Act /\ UNCHANGED <<tab, openHaku, stored, clicked>>

\* The server lists the applications that have not been mailed, ...
GetHakemusIdsToSend(c) ==
  /\ c.kind = "sendall" /\ c.at = "sent"
  /\ asked' = (asked \ {c}) \cup
       {[c EXCEPT !.at = IF stored.marked[c.h] THEN "mailed" ELSE "listed"]}
  /\ why' = IF \E d \in Waiting({"sendall"}) : d.h = c.h /\ d.at \in {"listed", "posted"}
            THEN why \cup {"sent_twice"} ELSE why
  /\ UNCHANGED <<tab, openHaku, shown, stored, toolsUsed, clicked>>

\* ... mails the decision, and logs that; ...
SendPaatos(c) ==
  /\ c.kind = "sendall" /\ c.at = "listed"
  /\ stored' = [stored EXCEPT !.mailed[c.h] = @ + 1]
  /\ asked' = (asked \ {c}) \cup {[c EXCEPT !.at = "posted"]}
  /\ UNCHANGED <<tab, openHaku, shown, toolsUsed, clicked, why>>
\* (an exception there is caught, and the request goes on as if the mail were out)
SendPaatosFails(c) ==
  /\ c.kind = "sendall" /\ c.at = "listed" /\ toolsUsed.failures < MaxVirheet
  /\ toolsUsed' = [toolsUsed EXCEPT !.failures = @ + 1]
  /\ asked' = (asked \ {c}) \cup {[c EXCEPT !.at = "posted"]}
  /\ Note("unmailed")
  /\ UNCHANGED <<tab, openHaku, shown, stored, clicked>>
\* Mutant: what was mailed is not marked.
NoSentEmails(c) ==
  /\ c.kind = "sendall" /\ c.at = "posted"
  /\ asked' = (asked \ {c}) \cup {[c EXCEPT !.at = "mailed"]}
  /\ UNCHANGED <<tab, openHaku, shown, stored, toolsUsed, clicked, why>>
\* ... and only then marks it as mailed.
AddPaatosSentEmails(c) ==
  /\ c.kind = "sendall" /\ c.at = "posted"
  /\ stored' = [stored EXCEPT !.marked[c.h] = TRUE]
  /\ asked' = (asked \ {c}) \cup {[c EXCEPT !.at = "mailed"]}
  /\ UNCHANGED <<tab, openHaku, shown, toolsUsed, clicked, why>>
SendPaatosForAll(c) == SendPaatos(c) \/ SendPaatosFails(c) \/ AddPaatosSentEmails(c)

NoMail == [of |-> NoHaku, sent |-> FALSE, preview |-> FALSE, sending |-> FALSE,
           resend |-> "", regenerate |-> ""]
\* fetchEmailState: what comes is shown for whatever grant is open.
EmailStateFetched(c) ==
  /\ c.kind = "getSent" /\ c.at = "answered"
  /\ shown' = [shown EXCEPT !.mail.of = openHaku, !.mail.sent = c.got]
  /\ asked' = asked \ {c}
  /\ UNCHANGED <<tab, openHaku, stored, toolsUsed, clicked, why>>
SendAnswered(c) ==
  /\ c.kind = "sendall" /\ c.at = "answered"
  /\ shown' = [shown EXCEPT !.mail.of = openHaku, !.mail.sent = c.got, !.mail.sending = FALSE]
  /\ asked' = asked \ {c}
  /\ UNCHANGED <<tab, openHaku, stored, toolsUsed, clicked, why>>
\* A component that was taken away with the old grant is not told.
ResendAnswered(c) ==
  /\ c.kind = "resendall" /\ c.at = "answered"
  /\ IF c.h = openHaku
     THEN /\ shown' = [shown EXCEPT !.mail.resend = "completed"]
          /\ asked' = Then(c, "getSent", c.h, {})
     ELSE /\ asked' = asked \ {c} /\ UNCHANGED shown
  /\ UNCHANGED <<tab, openHaku, stored, toolsUsed, clicked, why>>
RegenerateAnswered(c) ==
  /\ c.kind = "regenerate" /\ c.at = "answered"
  /\ shown' = IF c.h = openHaku THEN [shown EXCEPT !.mail.regenerate = "completed"] ELSE shown
  /\ asked' = asked \ {c}
  /\ UNCHANGED <<tab, openHaku, stored, toolsUsed, clicked, why>>

--------------------------------------------------------------------------------
(* Sending the payments of a grant *)

\* Mutant: instalments are numbered from one.
DocumentEditorFromOne(p) ==
  /\ CanAct("maksatukset") /\ shown.pay.unsent /\ shown.pay.sending = ""
  /\ shown' = [shown EXCEPT !.pay.docs = IF p \in @ THEN @ \ {p} ELSE @ \cup {p + 1}]
  /\ Act /\ UNCHANGED <<tab, openHaku, stored, asked, clicked>>
\* DocumentEditor: the document of an instalment is added or taken away.
DocumentEditor(p) ==
  /\ CanAct("maksatukset") /\ shown.pay.unsent /\ shown.pay.sending = ""
  /\ shown' = [shown EXCEPT !.pay.docs = IF p \in @ THEN @ \ {p} ELSE @ \cup {p}]
  /\ Act /\ UNCHANGED <<tab, openHaku, stored, asked, clicked>>

\* The two buttons: send to the payment service, or set as paid.
LahtevatMaksatukset(mode) ==
  /\ Shows("maksatukset")
  /\ shown.pay.unsent /\ shown.pay.sending = "" /\ shown.pay.docs = Phases
  /\ shown' = [shown EXCEPT !.pay.sending = mode]
  /\ asked' = asked \cup {Ask("batch", openHaku, [mode |-> mode, docs |-> shown.pay.docs])}
  /\ Hurry /\ UNCHANGED <<tab, openHaku, stored, toolsUsed, clicked>>

NextDocument(c) == CHOOSE p \in c.arg.docs : TRUE
\* createPaymentBatches: the documents follow the batch one after another, ...
CreatePaymentBatches(c) ==
  /\ c.kind \in {"batch", "document"} /\ c.at = "answered"
  /\ LET left == IF c.kind = "batch" THEN c.arg.docs ELSE c.arg.docs \ {NextDocument(c)}
     IN asked' = Then(c, IF left = {} THEN "payments" ELSE "document", c.h,
                      [c.arg EXCEPT !.docs = left])
  /\ UNCHANGED <<tab, openHaku, shown, stored, toolsUsed, clicked, why>>

\* ... and then the payments.  After they were set as paid the buttons stay closed.
PaymentsAnswered(c) ==
  /\ c.kind = "payments" /\ c.at = "answered"
  /\ shown' = [shown EXCEPT !.pay.sending = IF c.arg.mode = "paid" THEN @ ELSE ""]
  /\ asked' = Then(c, "getPayments", c.h, {})
  /\ UNCHANGED <<tab, openHaku, stored, toolsUsed, clicked, why>>

\* refreshPayments: what comes is shown, whatever grant is open.
MaksatuksetPage(c) ==
  /\ c.kind = "getPayments" /\ c.at = "answered"
  /\ shown' = [shown EXCEPT !.pay.unsent = c.got]
  /\ asked' = asked \ {c}
  /\ UNCHANGED <<tab, openHaku, stored, toolsUsed, clicked, why>>

\* The tools of an administrator make the payments of a grant, or delete them.
AdminTools(make) ==
  /\ CanAct("maksatukset")
  /\ shown' = [shown EXCEPT !.manual = TRUE]
  /\ asked' = asked \cup {Ask("admin", openHaku, make)}
  /\ Act /\ UNCHANGED <<tab, openHaku, stored, clicked>>
AdminAnswered(c) ==
  /\ c.kind = "admin" /\ c.at = "answered"
  /\ asked' = Then(c, "adminRefresh", c.h, {})
  /\ UNCHANGED <<tab, openHaku, shown, stored, toolsUsed, clicked, why>>
AdminRefreshed(c) ==
  /\ c.kind = "adminRefresh" /\ c.at = "answered"
  /\ shown' = [shown EXCEPT !.pay.unsent = c.got, !.manual = FALSE]
  /\ asked' = asked \ {c}
  /\ UNCHANGED <<tab, openHaku, stored, toolsUsed, clicked, why>>

--------------------------------------------------------------------------------
(* Requests for reports *)

OnSendSelvitys ==
  /\ CanAct("selvitys") /\ ~shown.report.sending
  /\ shown' = [shown EXCEPT !.report.sending = TRUE]
  /\ asked' = asked \cup {Ask("notify", openHaku, {})}
  /\ Act /\ UNCHANGED <<tab, openHaku, stored, clicked>>
\* Whoever is told of the count: the log is fetched of the grant it was sent for.
SelvitysSent(c) ==
  /\ c.kind = "notify" /\ c.at = "answered"
  /\ shown' = [shown EXCEPT !.report = [sending |-> FALSE, count |-> c.h, log |-> NoHaku]]
  /\ asked' = Then(c, "getLog", c.h, {})
  /\ UNCHANGED <<tab, openHaku, stored, toolsUsed, clicked, why>>
FetchTapahtumaloki(c) ==
  /\ c.kind = "getLog" /\ c.at = "answered"
  /\ shown' = [shown EXCEPT !.report.log = c.h]
  /\ asked' = asked \ {c}
  /\ UNCHANGED <<tab, openHaku, stored, toolsUsed, clicked, why>>

--------------------------------------------------------------------------------
(* Opening a grant; the server; failures *)

Fetches(t) == CASE t = "laki" -> "getLaki" [] t = "velvoitteet" -> "getRows"
                [] t = "paatokset" -> "getSent" [] t = "maksatukset" -> "getPayments"
                [] OTHER -> "getLog"

\* Another grant is opened under the tab: part of what is shown starts anew.
OpenHaku(h) ==
  /\ openHaku # h /\ toolsUsed.acts < MaxToimet
  /\ openHaku' = h
  /\ shown' = [shown EXCEPT !.mail = NoMail,
                 !.report = [sending |-> FALSE, count |-> NoHaku, log |-> NoHaku]]
  /\ asked' = asked \cup {Ask(Fetches(tab), h, {})}
  /\ RowsGo /\ UNCHANGED <<tab, stored, clicked>>

\* What a request finds on the server when it is answered.
Found(c) ==
  CASE c.kind = "getLaki" -> stored.laki[c.h]
    [] c.kind = "getRows" -> RowsOf(c.h)
    [] c.kind \in {"getSent", "sendall"} -> stored.marked[c.h]
    [] c.kind \in {"getPayments", "adminRefresh"} -> stored.unsent[c.h]
    [] OTHER -> {}
AnswerTool(c) ==
  /\ \/ c.kind \in {"getLaki", "getRows", "getSent", "getLog", "getPayments", "adminRefresh",
                     "resendall", "regenerate", "notify"} /\ c.at = "sent"
     \/ c.kind = "sendall" /\ c.at = "mailed"
  /\ asked' = (asked \ {c}) \cup {[c EXCEPT !.at = "answered", !.got = Found(c)]}
  /\ UNCHANGED <<tab, openHaku, shown, stored, toolsUsed, clicked, why>>

\* A second batch of a grant is refused on the same day.
BatchOf(h) == stored.batch[h]
Refused(c) == c.kind = "batch" /\ c.at = "sent" /\ BatchOf(c.h) # "none"
After(c) ==
  CASE c.kind = "postLaki" -> [stored EXCEPT !.laki[c.h] = c.arg]
    [] c.kind \in RowCalls -> [stored EXCEPT !.rows[c.h] = StoreRow(@, c),
                                               !.ids = IF c.kind = "putRow" THEN @ + 1 ELSE @]
    [] c.kind = "batch" -> [stored EXCEPT !.batch[c.h] = "open"]
    [] c.kind = "document" -> [stored EXCEPT !.docs[c.h] = @ \cup {NextDocument(c)}]
    [] c.kind = "payments" -> [stored EXCEPT !.batch[c.h] = "sent", !.unsent[c.h] = FALSE]
    [] OTHER -> [stored EXCEPT !.unsent[c.h] = c.arg]
StoreTool(c) ==
  /\ c.kind \in RowCalls \cup {"postLaki", "batch", "document", "payments", "admin"}
  /\ c.at = "sent" /\ ~Refused(c)
  /\ stored' = After(c)
  /\ asked' = (asked \ {c}) \cup {[c EXCEPT !.at = "answered"]}
  /\ UNCHANGED <<tab, openHaku, shown, toolsUsed, clicked, why>>

\* What the page does when told of a failure: mostly nothing.
Told(c) ==
  CASE c.kind \in RowCalls -> [shown EXCEPT !.manual = FALSE]
    [] c.kind = "sendall" -> [shown EXCEPT !.mail.sending = FALSE]
    [] c.kind = "resendall" /\ c.h = openHaku -> [shown EXCEPT !.mail.resend = ""]
    [] c.kind \in {"batch", "document", "payments"} -> [shown EXCEPT !.pay.sending = ""]
    [] OTHER -> shown
AfterFailure(c) ==
  IF c.kind \in RowCalls THEN Then(c, "getRows", openHaku, {})
  ELSE IF c.kind = "resendall" /\ c.h = openHaku THEN Then(c, "getSent", openHaku, {})
  ELSE asked \ {c}
\* A request fails wherever the server, or the way to it, has got to; if that is between a mail
\* and its mark, the decision is out and not marked.
CutOff(c) == IF c.at = "posted" THEN {"failed", "unmarked"} ELSE {"failed"}
ToolFails(c) ==
  /\ \/ Refused(c) /\ UNCHANGED toolsUsed
     \/ toolsUsed.failures < MaxVirheet
        /\ toolsUsed' = [toolsUsed EXCEPT !.failures = @ + 1]
  /\ shown' = Told(c)
  /\ asked' = AfterFailure(c)
  /\ why' = why \cup CutOff(c)
  /\ UNCHANGED <<tab, openHaku, stored, clicked>>

--------------------------------------------------------------------------------
ToolsInit ==
  /\ tab \in ToolTabs /\ openHaku \in Haut
  /\ shown = [laki |-> {}, manual |-> FALSE, rows |-> <<EmptyRow(0)>>, keys |-> 1, delays |-> {},
              mail |-> NoMail, pay |-> [unsent |-> FALSE, docs |-> {}, sending |-> ""],
              report |-> [sending |-> FALSE, count |-> NoHaku, log |-> NoHaku]]
  /\ stored = [laki |-> [h \in Haut |-> Lait], rows |-> [h \in Haut |-> <<>>], ids |-> 0,
               mailed |-> [h \in Haut |-> 0], marked |-> [h \in Haut |-> FALSE],
               unsent |-> [h \in Haut |-> TRUE], batch |-> [h \in Haut |-> "none"],
               docs |-> [h \in Haut |-> {}]]
  /\ asked = {[id |-> 1, kind |-> Fetches(tab), h |-> openHaku, at |-> "sent", arg |-> {},
               got |-> {}]}
  /\ toolsUsed = [acts |-> 0, failures |-> 0]
  /\ clicked = [h \in Haut |-> Lait]
  /\ why = {}

ToolsNext ==
  \/ \E l \in Lait : Lainsaadanto(l)
  \/ \E i \in DOMAIN shown.rows : Raportointivelvoite(i) \/ DeleteRaportointivelvoite(i)
  \/ \E d \in shown.delays : DebouncedRaportointivelvoite(d)
  \/ OnPreview \/ PreviewEnds \/ DecisionDateAndSend \/ ResendDecisions \/ RegenerateDecisions
  \/ \E p \in Phases : DocumentEditor(p)
  \/ \E mode \in {"send", "paid"} : LahtevatMaksatukset(mode)
  \/ \E make \in BOOLEAN : AdminTools(make)
  \/ OnSendSelvitys
  \/ \E h \in Haut : OpenHaku(h)
  \/ \E c \in asked :
       \/ AnswerTool(c) \/ StoreTool(c) \/ GetHakemusIdsToSend(c) \/ SendPaatosForAll(c)
       \/ LakiAnswered(c) \/ RowAnswered(c) \/ Raportointivelvoitteet(c)
       \/ EmailStateFetched(c) \/ SendAnswered(c) \/ ResendAnswered(c) \/ RegenerateAnswered(c)
       \/ CreatePaymentBatches(c) \/ PaymentsAnswered(c) \/ MaksatuksetPage(c)
       \/ AdminAnswered(c) \/ AdminRefreshed(c)
       \/ SelvitysSent(c) \/ FetchTapahtumaloki(c)
       \/ ToolFails(c)

ToolsSpec == ToolsInit /\ [][ToolsNext]_toolVars

--------------------------------------------------------------------------------
ToolsTypeOK ==
  /\ tab \in ToolTabs /\ openHaku \in Haut
  /\ shown.laki \subseteq Lait /\ shown.manual \in BOOLEAN
  /\ shown.pay \in [unsent: BOOLEAN, docs: SUBSET Phases, sending: {"", "send", "paid"}]
  /\ shown.mail \in [of: Haut \cup {NoHaku}, sent: BOOLEAN, preview: BOOLEAN, sending: BOOLEAN,
                     resend: {"", "resending", "completed"},
                     regenerate: {"", "regenerating", "completed"}]
  /\ stored.mailed \in [Haut -> Nat] /\ clicked \in [Haut -> SUBSET Lait]

\* When nothing is under way, the tab shows what the server stores for the open grant, and of
\* the legislation that is what the officer clicked, and one typed obligation is stored once;
\* unless the officer acted, or opened a grant, before an earlier request was answered (a click
\* then loses the one before it, an edit of a new row stores it twice, an answer is shown for
\* another grant), opened a grant or removed an obligation before the delay of an edit was over
\* (its row is shown again as it was), or a request failed.
ToolsAgree ==
  asked = {} /\ shown.delays = {} /\ why = {} =>
    CASE tab = "laki" -> shown.laki = stored.laki[openHaku] /\ stored.laki = clicked
      [] tab = "velvoitteet" ->
           LET rows == RowsOf(openHaku) IN
           /\ Len(shown.rows) = Len(rows) + 1
           /\ \A i \in DOMAIN rows :
                rows[i].id = shown.rows[i].id /\ rows[i].value = shown.rows[i].value
           /\ \A g, h \in Haut : \A i \in DOMAIN RowsOf(g), j \in DOMAIN RowsOf(h) :
                RowsOf(g)[i].draft = RowsOf(h)[j].draft => g = h /\ i = j
      [] tab = "paatokset" -> shown.mail.of = openHaku /\ shown.mail.sent = stored.marked[openHaku]
      [] tab = "maksatukset" -> shown.pay.unsent = stored.unsent[openHaku]
      [] OTHER -> shown.report.log = openHaku /\ shown.report.count \in {NoHaku, openHaku}

\* The indicators of the tools are on only while something is under way that turns them off,
\* unless a request failed or payments were set as paid.
ToolsBusyHasAReason ==
  "failed" \notin why =>
    /\ shown.manual => shown.delays # {}
         \/ Waiting(RowCalls \cup {"postLaki", "admin", "adminRefresh"}) # {}
    /\ shown.mail.sending => Waiting({"sendall"}) # {}
    /\ shown.pay.sending = "send" => Waiting({"batch", "document", "payments"}) # {}
    /\ shown.report.sending => Waiting({"notify"}) # {}

\* The decision of an application is mailed once, unless two requests to mail the decisions of
\* the grant overlap on the server, or one is cut off between the mail and its mark (the next
\* request then mails again); and a decision that is marked was mailed, unless the mail failed.
DecisionsMailedOnce ==
  \A h \in Haut :
    /\ why \cap {"sent_twice", "unmarked"} = {} => stored.mailed[h] <= 1
    /\ "unmailed" \notin why /\ stored.marked[h] => stored.mailed[h] >= 1

\* Payments go out only with a batch that holds the document of every instalment.
SentBatchHasDocuments ==
  \A h \in Haut : stored.batch[h] = "sent" => stored.docs[h] = Phases

================================================================================
