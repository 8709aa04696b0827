-------------------------------- MODULE MCVirkailija --------------------------------
(***************************************************************************)
(* Small instances of the pages of the officers' application.  They share  *)
(* no state in the browser, so a behaviour takes place in one of them and  *)
(* leaves the others alone: the state spaces add up, they do not multiply. *)
(***************************************************************************)
EXTENDS Arviointi, HakuEditori, HakuToiminnot, Koodienhallinta, Listaus

VARIABLE place

Places == {"arviointi", "virkailijat", "editori", "toiminnot", "koodit", "listat"}

FirstOfficer == CHOOSE o \in Officers : TRUE
FirstHakemus == CHOOSE h \in Hakemukset : TRUE

arviointiVars == vars
allVars == <<place, arviointiVars, editorVars, toolVars, koodiVars, listVars>>

AllInit ==
  /\ place \in Places
  /\ Init /\ EditorInit
  \* One initial state of the parts left alone, and one of two grants opened first.
  /\ editor.open = CHOOSE h \in Haut : TRUE
  /\ ToolsInit /\ openHaku = editor.open
  /\ place # "toiminnot" => tab = "laki"
  /\ KoodiInit
  /\ place # "koodit" => koodiTab = "koodit"
  /\ ListInit
  /\ place # "listat" => lists = "hakemukset" /\ avoin = editor.open /\ \A h \in Haut : tiedot[h] = Ordinary

\* One officer, all applications and a request that fails; or all officers, one application
\* and none that fails.
InArviointi ==
  /\ place \in {"arviointi", "virkailijat"} /\ Next
  /\ place = "arviointi" => \A o \in Officers \ {FirstOfficer} : store'[o] = store[o]
  /\ place = "virkailijat" =>
       /\ \A o \in Officers : {store'[o].timer, store'[o].selected} \subseteq {FirstHakemus, NoHakemus}
       /\ \A r \in requests' : r.h \in {FirstHakemus, NoHakemus}
       /\ used'.faults = 0
  /\ UNCHANGED <<place, editorVars, toolVars, koodiVars, listVars>>
\* Three of the edits, openings and failures.
InEditori ==
  /\ place = "editori" /\ EditorNext
  /\ spent'.edits + spent'.openings + spent'.failures <= 3
  /\ UNCHANGED <<place, arviointiVars, toolVars, koodiVars, listVars>>
\* Three acts and failures.
InToiminnot ==
  /\ place = "toiminnot" /\ ToolsNext
  /\ toolsUsed'.acts + toolsUsed'.failures <= MaxToimet
  /\ UNCHANGED <<place, arviointiVars, editorVars, koodiVars, listVars>>
InKoodienhallinta ==
  /\ place = "koodit" /\ KoodiNext
  /\ UNCHANGED <<place, arviointiVars, editorVars, toolVars, listVars>>
InListaus ==
  /\ place = "listat" /\ ListNext
  /\ UNCHANGED <<place, arviointiVars, editorVars, toolVars, koodiVars>>
AllNext == InArviointi \/ InEditori \/ InToiminnot \/ InKoodienhallinta \/ InListaus

AllSpec == AllInit /\ [][AllNext]_allVars

--------------------------------------------------------------------------------

\* The variables of the page that a behaviour takes place in have their types.
VirkailijaTypeOK ==
  CASE place = "editori" -> EditorTypeOK
    [] place = "toiminnot" -> ToolsTypeOK
    [] place = "koodit" -> KoodiTypeOK
    [] place = "listat" -> ListTypeOK
    [] OTHER -> TypeOK

\* A page at rest that reports no error shows what the server stores, and that is what the
\* officer gave (EditsAreStored, ToolsAgree, CodesAgree); lists hide what they were asked to,
\* and a decision list is of the grant it was asked for.
PagesAgree ==
  /\ ListHidesForAReason /\ DecisionListIsTheOneClicked
  /\ place = "editori" => EditsAreStored
  /\ place = "toiminnot" => ToolsAgree
  /\ place = "koodit" => CodesAgree

\* No page says it is busy for ever (SavingHasAReason, BusyHasAReason, ToolsBusyHasAReason).
IndicatorsHaveAReason ==
  /\ place \in {"arviointi", "virkailijat"} => SavingHasAReason
  /\ place = "editori" => BusyHasAReason
  /\ place = "toiminnot" => ToolsBusyHasAReason

\* What officers send goes out once and whole: decisions, and payments with their documents.
SentOnceAndWhole == DecisionsMailedOnce /\ SentBatchHasDocuments

================================================================================
