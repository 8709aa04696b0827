---------------------------- MODULE Muutoshakemus ----------------------------
(***************************************************************************)
(* Requests to change a granted application (muutoshakemukset): the form  *)
(* in the applicant's browser tabs, the officers who decide the requests  *)
(* and the handlers that store both.  A request is known by its id, in    *)
(* the order of creation; what it asks for is a set of parts, and the     *)
(* budget or end date a decision fixes is named by the decision.          *)
(***************************************************************************)
EXTENDS Yhteiset, Naturals, Sequences, FiniteSets

CONSTANTS Sivut,       \* the pages applicants have open
          Asks,        \* the sets of parts an applicant may tick
          Verdicts,    \* the outcomes an officer may choose
          MaxPosts,    \* bound: forms the applicant sends
          MaxDecisions \* bound: decisions the officers send

VARIABLES pyynnot,     \* virkailija.muutoshakemus: parts and decision (0: none)
          paatokset,   \* virkailija.paatos: the request decided and how
          sivu,        \* the form in each tab: ticked parts, contact details changed
          desk,        \* the list of requests each officer sees
          sent,        \* requests under way
          mailed,      \* the decisions mailed to the applicant
          past         \* counters, and what has happened

changeVars == <<pyynnot, paatokset, sivu, desk, sent, mailed, past>>

ChangeParts     == {"talousarvio", "jatkoaika", "sisaltomuutos"}
Outcomes  == {"accepted", "accepted_with_changes", "rejected"}

ASSUME ChangeAssumption ==
    /\ Asks \subseteq SUBSET ChangeParts /\ Verdicts \subseteq Outcomes
    /\ MaxPosts \in Nat /\ MaxDecisions \in Nat

Undecided == 0
Happened  == {"stale", "meanwhile", "failure", "timeout", "again", "two_open"}

Requests  == DOMAIN pyynnot
Accepted(d) == paatokset[d].status \in {"accepted", "accepted_with_changes"}

\* What a list of requests shows: the parts of each, and its decision.
New(list)  == {i \in DOMAIN list : list[i].paatos = Undecided}
Newest(S)  == CHOOSE i \in S : \A j \in S : j <= i

\* The budget in force: of the newest request whose decision accepted one.
GetTalousarvio(list) ==
    LET accepted == {i \in DOMAIN list : /\ "talousarvio" \in list[i].parts
                                         /\ list[i].paatos # Undecided
                                         /\ Accepted(list[i].paatos)}
    IN  IF accepted = {} THEN Undecided ELSE list[Newest(accepted)].paatos

\* The end of the project: asked for, or fixed by a decision with changes.
GetProjectEndMoment(list) ==
    LET accepted == {i \in DOMAIN list : /\ "jatkoaika" \in list[i].parts
                                         /\ list[i].paatos # Undecided
                                         /\ Accepted(list[i].paatos)}
        newest   == Newest(accepted)
    IN  CASE accepted = {} -> <<"avustushaku", 0>>
          [] accepted # {} /\ paatokset[list[newest].paatos].status = "accepted_with_changes"
               -> <<"paatos", list[newest].paatos>>
          [] OTHER -> <<"haettu", newest>>

Occurs(s) == past' = [past EXCEPT !.events = @ \union s]
InFlight(S) == \E c \in sent : c.step \in S

(**************************** The applicant's form *************************)

Dirty(t)   == sivu[t].contact \/ sivu[t].asked # sivu[t].clean
HasProps(t)  == sivu[t].loaded

FetchProps(t) ==      \* the page is loaded, or loaded again: an empty form and the list
    /\ ~sivu[t].submitting /\ (HasProps(t) => sivu[t].list # pyynnot)
    /\ ~\E c \in sent : c.who = t
    /\ sivu' = [sivu EXCEPT ![t] = [loaded |-> TRUE, list |-> pyynnot, asked |-> {},
                                    contact |-> FALSE, clean |-> {}, submitting |-> FALSE]]
    /\ UNCHANGED <<pyynnot, paatokset, desk, sent, mailed, past>>

MuutoshakemusFormSection(t) ==   \* shown while no request is seen waiting
    /\ HasProps(t) /\ New(sivu[t].list) = {}
    /\ \E asked \in Asks : sivu[t].asked # asked /\ sivu' = [sivu EXCEPT ![t].asked = asked]
    /\ Occurs(IF \E c \in sent : c.step = "fetch" /\ c.who = t THEN {"again"} ELSE {})
    /\ UNCHANGED <<pyynnot, paatokset, desk, sent, mailed>>

ContactPerson(t) ==
    /\ HasProps(t) /\ ~sivu[t].contact
    /\ sivu' = [sivu EXCEPT ![t].contact = TRUE]
    /\ UNCHANGED <<pyynnot, paatokset, desk, sent, mailed, past>>

OnSubmitMuutoshakemus(t) ==
    /\ HasProps(t) /\ Dirty(t) /\ ~sivu[t].submitting /\ past.posts < MaxPosts
    /\ sent' = sent \union {[step |-> "post", who |-> t, nr |-> past.posts, request |-> 0,
                             parts |-> sivu[t].asked, answered |-> TRUE]}
    /\ sivu' = [sivu EXCEPT ![t].submitting = TRUE]
    /\ past' = [past EXCEPT !.posts = @ + 1, !.events = @
          \union (IF sivu[t].list # pyynnot THEN {"stale"} ELSE {})
          \union (IF InFlight({"post"}) THEN {"meanwhile"} ELSE {})
          \union (IF sivu[t].asked # {} /\ sivu[t].clean # {}
                  THEN {"again"} ELSE {})]
    /\ UNCHANGED <<pyynnot, paatokset, desk, mailed>>

Timeout(c) ==         \* the client gives up after ten seconds; the server does not
    /\ c.step \in {"post", "posted"} /\ c.answered
    /\ sent' = (sent \ {c}) \union {[c EXCEPT !.answered = FALSE]}
    /\ sivu' = [sivu EXCEPT ![c.who].submitting = FALSE]
    /\ Occurs({"timeout"})
    /\ UNCHANGED <<pyynnot, paatokset, desk, mailed>>

\* The form as sent becomes the clean one, its ticked parts included.
PostSucceeded(c) ==
    /\ c.step = "posted"
    /\ \/ /\ c.answered
          /\ sivu' = [sivu EXCEPT ![c.who].submitting = FALSE, ![c.who].asked = c.parts, ![c.who].contact = FALSE,
                                  ![c.who].clean = c.parts]
          /\ sent' = (sent \ {c}) \union {[c EXCEPT !.step = "fetch"]}
       \/ ~c.answered /\ sent' = sent \ {c} /\ UNCHANGED sivu
    /\ UNCHANGED <<pyynnot, paatokset, desk, mailed, past>>

FetchMuutoshakemukset(c) ==
    /\ c.step = "fetch" /\ sent' = sent \ {c}
    /\ sivu' = [sivu EXCEPT ![c.who].list = pyynnot]
    /\ UNCHANGED <<pyynnot, paatokset, desk, mailed, past>>

(******************************* The server ********************************)

AddMuutoshakemus(parts) ==
    IF parts = {} THEN pyynnot ELSE Append(pyynnot, [parts |-> parts, paatos |-> Undecided])

OnPostMuutoshakemus(c) ==
    /\ c.step = "post"
    /\ pyynnot' = AddMuutoshakemus(c.parts)
    /\ sent' = (sent \ {c}) \union {[c EXCEPT !.step = "posted"]}
    /\ Occurs(IF Cardinality(New(pyynnot')) > 1 THEN {"two_open"} ELSE {})
    /\ UNCHANGED <<paatokset, sivu, desk, mailed>>

StoreMuutoshakemusPaatos(c) ==
    /\ c.step \in Outcomes
    /\ paatokset' = Append(paatokset, [request |-> c.request, status |-> c.step])
    /\ pyynnot' = [pyynnot EXCEPT ![c.request].paatos = Len(paatokset')]
    /\ sent' = (sent \ {c}) \union {[c EXCEPT !.step = "mail", !.nr = Len(paatokset')]}
    /\ UNCHANGED <<sivu, desk, mailed, past>>

SendMuutoshakemusPaatos(c) ==
    /\ c.step = "mail"
    /\ mailed' = mailed \union {c.nr}
    /\ sent' = sent \ {c}
    /\ desk' = [desk EXCEPT ![c.who] = pyynnot]
    /\ UNCHANGED <<pyynnot, paatokset, sivu, past>>

RequestFails(c) ==
    /\ c.step \in Outcomes \union {"post", "mail", "fetch"}
    /\ sent' = sent \ {c} /\ Occurs({"failure"})
    /\ sivu' = IF c.step = "post" /\ c.answered
               THEN [sivu EXCEPT ![c.who].submitting = FALSE]
               ELSE sivu
    /\ UNCHANGED <<pyynnot, paatokset, desk, mailed>>

(****************************** The officers *******************************)

MuutoshakemusTab(o) ==
    /\ desk[o] # pyynnot /\ desk' = [desk EXCEPT ![o] = pyynnot]
    /\ UNCHANGED <<pyynnot, paatokset, sivu, sent, mailed, past>>

MuutoshakemusForm(o) ==   \* shown for a request seen without a decision
    /\ past.decisions < MaxDecisions
    /\ ~\E c \in sent : c.who = o
    /\ \E i \in New(desk[o]), outcome \in Verdicts :
         /\ sent' = sent \union {[step |-> outcome, who |-> o, nr |-> 0, request |-> i,
                                  parts |-> {}, answered |-> TRUE]}
         /\ past' = [past EXCEPT !.decisions = @ + 1, !.events = @
               \union (IF desk[o] # pyynnot THEN {"stale"} ELSE {})
               \union (IF \E c \in sent : c.request = i THEN {"meanwhile"} ELSE {})]
    /\ UNCHANGED <<pyynnot, paatokset, sivu, desk, mailed>>

ChangeInit ==
    /\ pyynnot = <<>> /\ paatokset = <<>>
    /\ sivu = [t \in Sivut |-> [loaded |-> FALSE, list |-> <<>>, asked |-> {},
                               contact |-> FALSE, clean |-> {}, submitting |-> FALSE]]
    /\ desk = [o \in Officers |-> <<>>]
    /\ sent = {} /\ mailed = {}
    /\ past = [posts |-> 0, decisions |-> 0, events |-> {}]

ChangeNext ==
    \/ \E t \in Sivut : \/ FetchProps(t) \/ MuutoshakemusFormSection(t)
                       \/ ContactPerson(t) \/ OnSubmitMuutoshakemus(t)
    \/ \E o \in Officers : MuutoshakemusTab(o) \/ MuutoshakemusForm(o)
    \/ \E c \in sent : \/ Timeout(c) \/ PostSucceeded(c) \/ FetchMuutoshakemukset(c)
                       \/ OnPostMuutoshakemus(c) \/ StoreMuutoshakemusPaatos(c)
                       \/ SendMuutoshakemusPaatos(c) \/ RequestFails(c)

ChangeSpec == ChangeInit /\ [][ChangeNext]_changeVars

(******************************* Properties ********************************)

\* Requests, decisions and forms hold the values the code gives them.
ChangeTypeOK ==
    /\ pyynnot \in Seq([parts : SUBSET ChangeParts, paatos : Nat])
    /\ paatokset \in Seq([request : Requests, status : Outcomes])
    /\ \A i \in Requests : pyynnot[i].paatos \in {Undecided} \union DOMAIN paatokset
    /\ \A t \in Sivut : /\ sivu[t].loaded \in BOOLEAN
                       /\ sivu[t].asked \subseteq ChangeParts
                       /\ sivu[t].submitting \in BOOLEAN /\ sivu[t].contact \in BOOLEAN
    /\ mailed \subseteq DOMAIN paatokset
    /\ past.posts \in 0..MaxPosts /\ past.decisions \in 0..MaxDecisions
    /\ past.events \subseteq Happened

FreeOf(events) == past.events \intersect events = {}

\* The decision an applicant was mailed is the one its request keeps, unless
\* an officer decided on an old list, as after a failure, or before another
\* decision of the same request was answered: the handler replaces the
\* decision of a request without looking for an earlier one.
MailedDecisionHolds ==
    FreeOf({"stale", "meanwhile"}) =>
        \A d \in mailed : pyynnot[paatokset[d].request].paatos = d

\* One request at a time waits for a decision, which only the form sees to:
\* the form is hidden while the page shows an open request.  Two wait after
\* one is sent from a page that is behind, as after a time-out or a failed
\* fetch, or while another is under way, and when the ticked parts of a hidden
\* form are sent with changed contact details: those of the request before it,
\* or those ticked while the list was fetched that hides the form.
OneOpenRequest ==
    FreeOf({"stale", "meanwhile", "again"}) => Cardinality(New(pyynnot)) <= 1

LatestAccepted(part) ==
    LET accepted == {d \in DOMAIN paatokset : /\ Accepted(d)
                                              /\ part \in pyynnot[paatokset[d].request].parts}
    IN  IF accepted = {} THEN Undecided ELSE Newest(accepted)

\* The budget and the end date in force are those of the decision made last,
\* although the pages pick them by the age of the request: the two orders
\* agree as long as no two requests were open together.
InForceIsDecidedLast ==
    FreeOf({"two_open", "stale", "meanwhile"}) =>
        /\ GetTalousarvio(pyynnot) = LatestAccepted("talousarvio")
        /\ LET d == LatestAccepted("jatkoaika") IN
           GetProjectEndMoment(pyynnot) =
             CASE d = Undecided -> <<"avustushaku", 0>>
               [] d # Undecided /\ paatokset[d].status = "accepted_with_changes" -> <<"paatos", d>>
               [] OTHER -> <<"haettu", paatokset[d].request>>

ChangesAgree == MailedDecisionHolds /\ OneOpenRequest /\ InForceIsDecidedLast
=============================================================================
