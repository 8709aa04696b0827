-------------------------------- MODULE Viestit --------------------------------
(***************************************************************************)
(* Messages of an officer to a project: the tab of free messages           *)
(* ("viesti"), the reminder of a missing final report ("muistutus"), the   *)
(* log of what was sent, and the mails behind it, which a first attempt    *)
(* and then the runs of a retry job deliver.                               *)
(*                                                                         *)
(* The state of a form lives as long as the form is mounted: it is         *)
(* unmounted while any application is being loaded.  What an earlier       *)
(* mount asked for goes on at the server and is not shown.                 *)
(***************************************************************************)
EXTENDS Naturals, FiniteSets, Sequences, FiniteSetsExt

CONSTANTS Hankkeet, NoHanke,                \* projects (applications that were granted money)
          MaxSiirrot, MaxViestit, MaxAjot,  \* moves between pages, messages, runs of the retry
          MaxViestiviat                     \* faults

ASSUME ViestitAssumption ==
  NoHanke \notin Hankkeet /\ {MaxSiirrot, MaxViestit, MaxAjot, MaxViestiviat} \subseteq Nat

Viestityypit == {"viesti", "muistutus"}
NoPosti == 0

VARIABLES
  nakyma,      \* the page: the project, what is loading or known, the mounted form and list
  kutsut,    \* requests under way
  postit,    \* server: the mails, each with its log entry and its last event
  yritykset, \* attempts to deliver a mail
  ajot,      \* runs of the retry: the mails each has still to try
  kulutettu  \* how much of each bound is used

viestiVars == <<nakyma, kutsut, postit, yritykset, ajot, kulutettu>>

PostiIds == 1..Len(postit)
Kuluta(what) == kulutettu[what] > 0 /\ kulutettu' = [kulutettu EXCEPT ![what] = @ - 1]

--------------------------------------------------------------------------------
(* The page *)

\* The receivers are in the details of the project, which only a loaded one has.
GenerateInitialEmail(hanke, known) == IF hanke \in known THEN hanke ELSE NoHanke
\* Neither form is shown while something loads; the reminder needs the details.
OnNakyvissa(s) == s.loading = NoHanke /\ (s.tab = "muistutus" => s.hanke \in s.known)
\* Each move and each message leaves at most one request under way.
KutsuIds == 1..(MaxSiirrot + MaxViestit + 2)
NewKutsu(kind, s) ==
  [id |-> Min(KutsuIds \ {k.id : k \in kutsut}), kind |-> kind, hanke |-> s.hanke, tab |-> s.tab,
   mount |-> s.mount, to |-> s.to, blank |-> GenerateInitialEmail(s.hanke, s.known),
   posti |-> NoPosti, got |-> {}, ends |-> FALSE, at |-> "sent"]
Mounted(s) == [s EXCEPT !.mount = @ + 1, !.to = GenerateInitialEmail(s.hanke, s.known),
                        !.open = s.tab = "viesti", !.preview = FALSE, !.error = FALSE,
                        !.listed = {}, !.doubt = FALSE]
\* Mutant: the form of the tab of messages stays while a project is loaded.
BecomingUnaware(s, others) ==
  IF nakyma.tab = s.tab /\ s.tab = "viesti"
  THEN /\ nakyma' = s /\ kutsut' = others \cup {NewKutsu("lista", s)}
  ELSE LET new == IF OnNakyvissa(s) THEN Mounted(s) ELSE [s EXCEPT !.mount = @ + 1] IN
       /\ nakyma' = new
       /\ kutsut' = {k \in others : k.kind # "lista"}
                      \cup (IF OnNakyvissa(s) THEN {NewKutsu("lista", new)} ELSE {})
\* The page becomes s; a form that appears is new, and asks for its list.  Requests of lists are
\* forgotten with the form that asked.
Becoming(s, others) ==
  LET new == IF OnNakyvissa(s) THEN Mounted(s) ELSE [s EXCEPT !.mount = @ + 1] IN
  /\ nakyma' = new
  /\ kutsut' = {k \in others : k.kind # "lista"}
                 \cup (IF OnNakyvissa(s) THEN {NewKutsu("lista", new)} ELSE {})

\* Another project is clicked: its details are asked for unless that is under way.
SelectHanke(h) ==
  LET s == [nakyma EXCEPT !.hanke = h, !.loading = h] IN
  /\ h # nakyma.hanke /\ Kuluta("siirrot")
  /\ Becoming(s, kutsut \cup (IF nakyma.loading = h THEN {} ELSE {NewKutsu("load", s)}))
  /\ UNCHANGED <<postit, yritykset, ajot>>

OpenTab(t) ==
  /\ t # nakyma.tab /\ Kuluta("siirrot")
  /\ Becoming([nakyma EXCEPT !.tab = t], kutsut)
  /\ UNCHANGED <<postit, yritykset, ajot>>

\* The answer, whichever project it is about, ends the loading: a form may appear before the
\* details of its project do, and then its list is asked for again when they come.
HakemusLoaded(k) ==
  LET known == IF k.at = "error" THEN nakyma.known ELSE nakyma.known \cup {k.hanke}
      s == [nakyma EXCEPT !.loading = NoHanke, !.known = known] IN
  /\ k.kind = "load" /\ k.at \in {"sent", "error"}
  /\ IF ~OnNakyvissa(nakyma) THEN Becoming(s, kutsut \ {k})
     ELSE /\ nakyma' = s
          /\ kutsut' = (kutsut \ {k}) \cup (IF s.tab = "viesti" /\ k.hanke = s.hanke /\ k.at # "error"
                                            THEN {NewKutsu("lista", s)} ELSE {})
  /\ UNCHANGED <<postit, yritykset, ajot, kulutettu>>

OpenForm ==
  /\ OnNakyvissa(nakyma) /\ ~nakyma.open
  /\ nakyma' = [nakyma EXCEPT !.open = TRUE]
  /\ UNCHANGED <<kutsut, postit, yritykset, ajot, kulutettu>>
\* An address given by hand, by an officer who sees which project the page is about.
AddRecipient ==
  /\ OnNakyvissa(nakyma) /\ nakyma.open /\ ~nakyma.preview /\ nakyma.to = NoHanke
  /\ nakyma' = [nakyma EXCEPT !.to = nakyma.hanke]
  /\ UNCHANGED <<kutsut, postit, yritykset, ajot, kulutettu>>
\* The content is required; that of a reminder is given.
Preview ==
  /\ OnNakyvissa(nakyma) /\ nakyma.open /\ ~nakyma.preview
  /\ nakyma' = [nakyma EXCEPT !.preview = TRUE]
  /\ UNCHANGED <<kutsut, postit, yritykset, ajot, kulutettu>>
\* Peruuta: the preview is left, or the form of a reminder is closed.
CancelForm ==
  /\ OnNakyvissa(nakyma) /\ nakyma.open
  /\ \/ nakyma.preview /\ nakyma' = [nakyma EXCEPT !.preview = FALSE]
     \/ /\ ~nakyma.preview /\ nakyma.tab = "muistutus"
        /\ nakyma' = [nakyma EXCEPT !.open = FALSE, !.error = FALSE,
                                !.to = GenerateInitialEmail(nakyma.hanke, nakyma.known)]
  /\ UNCHANGED <<kutsut, postit, yritykset, ajot, kulutettu>>

\* The form can be edited, and sent again, while a message is being sent.
SendForm ==
  /\ OnNakyvissa(nakyma) /\ nakyma.open /\ nakyma.preview /\ Kuluta("viestit")
  /\ nakyma' = [nakyma EXCEPT !.preview = FALSE, !.error = @ /\ nakyma.tab = "muistutus"]
  /\ kutsut' = kutsut \cup {NewKutsu("laheta", nakyma)}
  /\ UNCHANGED <<postit, yritykset, ajot>>

ListAfter(s, ends) == [NewKutsu("lista", s) EXCEPT !.ends = ends]
\* The free message: the form is a new one, or tells the error; then the list is asked for.  The
\* reminder: the form is closed only when the list has come too.
Lahetetty(k) ==
  LET shown == OnNakyvissa(nakyma) /\ k.mount = nakyma.mount
      ok == k.at = "done"
      s == IF ~ok THEN [nakyma EXCEPT !.error = TRUE]
           ELSE IF k.tab = "viesti" THEN [nakyma EXCEPT !.to = k.blank]
           ELSE nakyma IN
  /\ k.kind = "laheta" /\ k.at \in {"done", "error"}
  /\ nakyma' = IF shown THEN s ELSE nakyma
  /\ kutsut' = (kutsut \ {k}) \cup (IF shown /\ (ok \/ k.tab = "viesti")
                                    THEN {ListAfter(s, k.tab = "muistutus")} ELSE {})
  /\ postit' = IF ok \/ k.posti = NoPosti THEN postit ELSE [postit EXCEPT ![k.posti].told = "error"]
  /\ UNCHANGED <<yritykset, ajot, kulutettu>>

\* setSentEmails: the last answer to come is shown, and an error of the free list is not told.
ListFetched(k) ==
  /\ k.kind = "lista" /\ k.at \in {"done", "error"}
  /\ k.mount = nakyma.mount
  /\ nakyma' = IF k.at = "error" THEN [nakyma EXCEPT !.doubt = TRUE, !.error = @ \/ k.ends]
             ELSE LET s == [nakyma EXCEPT !.listed = k.got,
                                        !.doubt = @ \/ ~(nakyma.listed \subseteq k.got)] IN
                  IF ~k.ends THEN s
                  ELSE [s EXCEPT !.open = FALSE, !.preview = FALSE, !.error = FALSE, !.to = k.blank]
  /\ kutsut' = kutsut \ {k}
  /\ UNCHANGED <<postit, yritykset, ajot, kulutettu>>

--------------------------------------------------------------------------------
(* The server *)

Siirtyy(k, new) == kutsut' = (kutsut \ {k}) \cup {new}

\* A message that has no receiver is refused.  The row of the mail is written, and then its first
\* attempt is under way whatever becomes of the request.
TrySendEmail(k) ==
  /\ k.kind = "laheta" /\ k.at = "sent"
  /\ IF k.to = NoHanke THEN Siirtyy(k, [k EXCEPT !.at = "error"]) /\ UNCHANGED <<postit, yritykset>>
     ELSE /\ postit' = Append(postit, [hanke |-> k.hanke, to |-> k.to, tab |-> k.tab, mount |-> k.mount,
                                       logged |-> FALSE, told |-> "no", event |-> "none",
                                       delivered |-> 0, doubt |-> FALSE])
          /\ yritykset' = yritykset \cup {[by |-> "first", posti |-> Len(postit) + 1, at |-> "send"]}
          /\ Siirtyy(k, [k EXCEPT !.at = "stored", !.posti = Len(postit) + 1])
  /\ UNCHANGED <<nakyma, ajot, kulutettu>>

CreateLogEntry(k) ==
  /\ k.kind = "laheta" /\ k.at = "stored"
  /\ postit' = [postit EXCEPT ![k.posti].logged = TRUE]
  /\ Siirtyy(k, [k EXCEPT !.at = "done"])
  /\ UNCHANGED <<nakyma, yritykset, ajot, kulutettu>>

Lokissa(h, t) == {m \in PostiIds : postit[m].logged /\ postit[m].hanke = h /\ postit[m].tab = t}
GetTapahtumaloki(k) ==
  /\ k.kind = "lista" /\ k.at = "sent"
  /\ Siirtyy(k, [k EXCEPT !.at = "done", !.got = Lokissa(k.hanke, k.tab)])
  /\ UNCHANGED <<nakyma, postit, yritykset, ajot, kulutettu>>

\* The handler ends where it is, or its answer is lost.
KutsuFails(k) ==
  /\ k.at # "error" /\ Kuluta("viat")
  /\ Siirtyy(k, [k EXCEPT !.at = "error"])
  /\ UNCHANGED <<nakyma, postit, yritykset, ajot>>

--------------------------------------------------------------------------------
(* The mails: at most one attempt of a run, and the first one of each mail *)

AttemptAt(y, at) == yritykset' = (yritykset \ {y}) \cup {[y EXCEPT !.at = at]}
Doubted(m) == [postit EXCEPT ![m].doubt = TRUE]

SendMail(y) ==
  /\ y.at = "send"
  /\ postit' = [postit EXCEPT ![y.posti].delivered = @ + 1]
  /\ AttemptAt(y, "sent")
  /\ UNCHANGED <<nakyma, kutsut, ajot, kulutettu>>

\* An exception: the mail server took the mail, or did not.
SendMailFails(y) ==
  /\ y.at = "send" /\ Kuluta("viat")
  /\ \/ UNCHANGED postit
     \/ postit' = [postit EXCEPT ![y.posti].delivered = @ + 1, ![y.posti].doubt = TRUE]
  /\ AttemptAt(y, "failed")
  /\ UNCHANGED <<nakyma, kutsut, ajot>>

CreateEmailEvent(y) ==
  /\ y.at \in {"sent", "failed"}
  /\ postit' = [postit EXCEPT ![y.posti].event = y.at]
  /\ yritykset' = yritykset \ {y}
  /\ UNCHANGED <<nakyma, kutsut, ajot, kulutettu>>
\* The event cannot be stored: that is logged, and the mail is left as it was.
CreateEmailEventFails(y) ==
  /\ y.at \in {"sent", "failed"} /\ Kuluta("viat")
  /\ postit' = Doubted(y.posti)
  /\ yritykset' = yritykset \ {y}
  /\ UNCHANGED <<nakyma, kutsut, ajot>>

\* A run, of the job or of the officer's command, reads the mails whose last event is a failure.
StartRetry(r) ==
  LET failed == {m \in PostiIds : postit[m].event = "failed"} IN
  /\ ajot[r] = {} /\ \A y \in yritykset : y.by # r
  /\ failed # {} /\ Kuluta("ajot")
  /\ ajot' = [ajot EXCEPT ![r] = failed]
  /\ UNCHANGED <<nakyma, kutsut, postit, yritykset>>

\* The next of them, in the order of the mails.  Another run may have it in hand, or sent.
TrySendMsg(r) ==
  LET m == Min(ajot[r]) IN
  /\ ajot[r] # {} /\ \A y \in yritykset : y.by # r
  /\ yritykset' = yritykset \cup {[by |-> r, posti |-> m, at |-> "send"]}
  /\ ajot' = [ajot EXCEPT ![r] = @ \ {m}]
  /\ postit' = IF postit[m].event # "sent" /\ \A y \in yritykset : y.posti # m THEN postit
                ELSE Doubted(m)
  /\ UNCHANGED <<nakyma, kutsut, kulutettu>>

\* The server stops: its requests, attempts and runs are gone.
PalvelinKaatuu ==
  /\ Kuluta("viat")
  /\ kutsut' = {[k EXCEPT !.at = "error"] : k \in kutsut}
  /\ postit' = [m \in PostiIds |-> [postit[m] EXCEPT !.doubt = @ \/ \E y \in yritykset : y.posti = m]]
  /\ yritykset' = {} /\ ajot' = [r \in DOMAIN ajot |-> {}]
  /\ UNCHANGED nakyma

--------------------------------------------------------------------------------

\* A page just opened.
ViestiInit ==
  \E h \in Hankkeet, t \in Viestityypit :
    /\ nakyma = [hanke |-> h, loading |-> h, known |-> {}, tab |-> t, mount |-> 0,
               to |-> NoHanke, open |-> FALSE, preview |-> FALSE, error |-> FALSE,
               listed |-> {}, doubt |-> FALSE]
    /\ kutsut = {[id |-> 1, kind |-> "load", hanke |-> h, tab |-> t, mount |-> 0, to |-> NoHanke,
                  blank |-> NoHanke, posti |-> NoPosti, got |-> {}, ends |-> FALSE, at |-> "sent"]}
    /\ postit = <<>> /\ yritykset = {} /\ ajot = [r \in {"job", "command"} |-> {}]
    /\ kulutettu = [siirrot |-> MaxSiirrot, viestit |-> MaxViestit, ajot |-> MaxAjot,
                     viat |-> MaxViestiviat]

SivuNext ==
  \/ \E h \in Hankkeet : SelectHanke(h)
  \/ \E t \in Viestityypit : OpenTab(t)
  \/ OpenForm \/ AddRecipient \/ Preview \/ CancelForm \/ SendForm
  \/ \E k \in kutsut : \/ HakemusLoaded(k) \/ Lahetetty(k) \/ ListFetched(k)
                       \/ TrySendEmail(k) \/ CreateLogEntry(k) \/ GetTapahtumaloki(k) \/ KutsuFails(k)
PostiNext ==
  \/ \E y \in yritykset : \/ SendMail(y) \/ SendMailFails(y)
                           \/ CreateEmailEvent(y) \/ CreateEmailEventFails(y)
  \/ \E r \in DOMAIN ajot : StartRetry(r) \/ TrySendMsg(r)
  \/ PalvelinKaatuu
ViestiNext == SivuNext \/ PostiNext
ViestiSpec == ViestiInit /\ [][ViestiNext]_viestiVars

--------------------------------------------------------------------------------

\* Types of the page, of its requests, and of the mails and their attempts.
ViestiTypeOK ==
  /\ {nakyma.hanke} \cup nakyma.known \subseteq Hankkeet
  /\ {nakyma.loading, nakyma.to} \subseteq Hankkeet \cup {NoHanke}
  /\ nakyma.tab \in Viestityypit /\ nakyma.mount \in Nat
  /\ {nakyma.open, nakyma.preview, nakyma.error, nakyma.doubt} \subseteq BOOLEAN
  /\ nakyma.listed \subseteq PostiIds
  /\ \A k \in kutsut : /\ k.hanke \in Hankkeet /\ k.to \in Hankkeet \cup {NoHanke}
                       /\ k.posti \in PostiIds \cup {NoPosti} /\ k.got \subseteq PostiIds
  /\ \A m \in PostiIds : /\ {postit[m].hanke, postit[m].to} \subseteq Hankkeet
                         /\ postit[m].delivered \in Nat /\ postit[m].event \in {"none", "sent", "failed"}
  /\ \A y \in yritykset : y.posti \in PostiIds /\ y.at \in {"send", "sent", "failed"}
  /\ \A r \in DOMAIN ajot : ajot[r] \subseteq PostiIds

\* A message goes to the receivers of the project on whose page it was sent, though the officer
\* moves between projects whose details are still being loaded.
MessagesReachTheirProject == \A m \in PostiIds : postit[m].to = postit[m].hanke

\* A mail is delivered once or is still to be: it is delivered twice, or forgotten, only when the
\* mail server's answer or the event of an attempt was lost, or two runs of the retry had it.
MailsGoOutOnce ==
  \A m \in PostiIds : postit[m].doubt
    \/ /\ postit[m].delivered <= 1
       /\ postit[m].delivered = 1 \/ postit[m].event = "failed" \/ \E y \in yritykset : y.posti = m

\* At rest the list shows every message logged, save those that an earlier form had sent, those
\* whose sending was told to have failed, and when answers crossed or a list could not be had.
ListTellsWhatWasSent ==
  OnNakyvissa(nakyma) /\ (\A k \in kutsut : k.mount # nakyma.mount) =>
    /\ nakyma.listed \subseteq Lokissa(nakyma.hanke, nakyma.tab)
    /\ \A m \in Lokissa(nakyma.hanke, nakyma.tab) \ nakyma.listed :
         nakyma.doubt \/ postit[m].mount # nakyma.mount \/ postit[m].told = "error"

================================================================================
