-------------------------------- MODULE MCHakija --------------------------------
(***************************************************************************)
(* Small instances of the pages of applicants and of what officers and     *)
(* applicants do about one project: the form and its growing sets; the     *)
(* budget, the trainee days, reports, requests for change and messages.  A *)
(* behaviour takes place in one of them and leaves the others alone: the   *)
(* state spaces add up, they do not multiply.                              *)
(***************************************************************************)
EXTENDS Lomake, KasvavaJoukko, Budjetti, Koulutuspaivat, Selvitys, Muutoshakemus, Viestit

VARIABLE place

Places == {"lomake", "rivit", "budjetti", "koulutus", "selvitys", "muutos", "virkailijat", "viestit", "posti"}

allVars == <<place, lomakeVars, rowVars, budgetVars, calcVars, reportVars, changeVars, viestiVars>>

AllInit ==
  /\ place \in Places
  /\ LomakeInit /\ RowsInit /\ BudgetInit /\ CalcInit /\ ReportInit /\ ChangeInit
  \* One initial state of the parts left alone.
  /\ place # "lomake" => page.mode = "edit"
  /\ place # "budjetti" =>
       /\ spec = [increments |-> FirstTable, selfField |-> FALSE, counted |-> {}, percentage |-> CHOOSE p \in Percentages : TRUE]
       /\ amounts = [f \in Fields |-> 0] /\ reported /\ stored.status = "draft"
  /\ place # "koulutus" => calcs = NoRows
  /\ place # "selvitys" => kind = "loppuselvitys"
  /\ ViestiInit /\ nakyma.hanke = CHOOSE h \in Hankkeet : TRUE
  /\ nakyma.tab = "viesti"

InLomake ==
  /\ place = "lomake" /\ LomakeNext
  /\ UNCHANGED <<place, rowVars, budgetVars, calcVars, reportVars, changeVars, viestiVars>>
InRivit ==
  /\ place = "rivit" /\ RowsNext
  /\ UNCHANGED <<place, lomakeVars, budgetVars, calcVars, reportVars, changeVars, viestiVars>>
\* The officer's last act is about detailed costs.
InBudjetti ==
  /\ place = "budjetti" /\ BudgetNext
  /\ budgetActs'.officer = MaxOfficerActs => arvio'.detailed
  /\ UNCHANGED <<place, lomakeVars, rowVars, calcVars, reportVars, changeVars, viestiVars>>
InKoulutuspaivat ==
  /\ place = "koulutus" /\ CalcNext
  /\ UNCHANGED <<place, lomakeVars, rowVars, budgetVars, reportVars, changeVars, viestiVars>>
\* The interim report, which is not verified, has one call less, and so do requests that fail.
InSelvitys ==
  /\ place = "selvitys" /\ ReportNext
  /\ (IsLoppuselvitys /\ "failure" \notin history'.events) \/ history'.calls < MaxCalls
  /\ UNCHANGED <<place, lomakeVars, rowVars, budgetVars, calcVars, changeVars, viestiVars>>
\* One officer, every outcome, and either requests that fail or requests that time out; or more
\* officers who accept with changes, and neither.
InMuutos ==
  /\ place \in {"muutos", "virkailijat"} /\ ChangeNext
  /\ place = "muutos" => \A o \in Officers : desk'[o] = <<>> \/ o = CHOOSE p \in Officers : TRUE
  /\ place = "muutos" => ~({"failure", "timeout"} \subseteq past'.events)
  /\ place = "virkailijat" => /\ \A c \in sent' : c.step \notin {"accepted", "rejected"}
                              /\ past'.events \cap {"failure", "timeout"} = {}
  /\ UNCHANGED <<place, lomakeVars, rowVars, budgetVars, calcVars, reportVars, viestiVars>>
\* The page and its requests, with two of the moves and messages and three of those and faults; or
\* one message and the mail behind it.
Spent2(k) == (MaxSiirrot - k.siirrot) + (MaxViestit - k.viestit)
Spent3(k) == Spent2(k) + (MaxViestiviat - k.viat)
InViestit ==
  /\ \/ place = "viestit" /\ SivuNext /\ Spent2(kulutettu') <= 2 /\ Spent3(kulutettu') <= 3
     \/ /\ place = "posti" /\ ViestiNext
        /\ kulutettu'.siirrot = MaxSiirrot /\ kulutettu'.viestit >= MaxViestit - 1
  /\ UNCHANGED <<place, lomakeVars, rowVars, budgetVars, calcVars, reportVars, changeVars>>

AllNext ==
  InLomake \/ InRivit \/ InBudjetti \/ InKoulutuspaivat \/ InSelvitys \/ InMuutos \/ InViestit

\* Fairness is that of the form alone.
AllSpec == AllInit /\ [][AllNext]_allVars /\ LomakeFairness

AsksOfMuutos == {{"talousarvio", "jatkoaika"}}

--------------------------------------------------------------------------------

\* The variables of the page that a behaviour takes place in have their types.
HakijaTypeOK ==
  CASE place = "lomake" -> LomakeTypeOK
    [] place = "rivit" -> RowsTypeOK
    [] place = "budjetti" -> BudgetTypeOK
    [] place = "koulutus" -> CalcTypeOK
    [] place = "selvitys" -> ReportTypeOK
    [] place \in {"viestit", "posti"} -> ViestiTypeOK
    [] OTHER -> ChangeTypeOK

\* What the form says of its saves is true: "saved", and "in conflict"; and its rows show the
\* answers and files that are stored for them.
FormSaysTruth == SavedMeansSaved /\ ConflictHasACause /\ RowsAgree

\* What happens to a granted project is told alike to its applicant and its officers: the state of
\* its report, and the changes that are in force.
ProjectAgrees == ReportAgrees /\ ChangesAgree

\* The money and the days granted are what the officer gave, on the page and stored.
GrantedAgrees == GrantedIsShown /\ TraineeDaysAgree

\* A message to a project goes to that project, once, and is listed.
MessagesAgree == MessagesReachTheirProject /\ MailsGoOutOnce /\ ListTellsWhatWasSent

=============================================================================
