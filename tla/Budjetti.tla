-------------------------------- MODULE Budjetti --------------------------------
(***************************************************************************)
(* The budget of an application: the applicant fills it in, the page sums  *)
(* it and says what is wrong with it, and the server sums it again when it *)
(* is stored.  An officer grants less, item by item or as one sum, on a    *)
(* page that sums with the same code as the applicant's, and the server    *)
(* computes what is granted when the evaluation is stored.                 *)
(***************************************************************************)
EXTENDS Integers

CONSTANTS MaxMoney,                    \* the largest valid amount (9999999)
          MultiplierNum, MultiplierDen,  \* fixedMultiplier (25 * 86 / 100)
          Percentages,                 \* percentages of self-financing that a grant may ask for
          MaxApplicantActs, MaxOfficerActs  \* bounds: acts of the applicant, of officers

ASSUME MoneyAssumption == MaxMoney \in Nat
ASSUME MultiplierAssumption == MultiplierNum \in Nat /\ MultiplierDen \in Nat \ {0}
ASSUME PercentagesAssumption == Percentages \subseteq 0..100
ASSUME ActsAssumption == MaxApplicantActs \in Nat /\ MaxOfficerActs \in Nat

VARIABLES
  spec,        \* the budget of the form
  amounts,     \* answers on the applicant's page
  reported,    \* the page reports what is wrong with the sums
  stored,      \* the application on the server
  arvioStored, \* its evaluation on the server
  granted,     \* budget_granted
  opened,      \* the application on the officer's page; all "" until it is opened
  arvio,       \* the evaluation on the officer's page
  unsaved,     \* hasChanges
  budgetActs,  \* how much of each bound is used
  moved        \* ghost: the application was stored after the evaluation

budgetVars == <<spec, amounts, reported, stored, arvioStored, granted, opened, arvio, unsaved, budgetActs, moved>>

--------------------------------------------------------------------------------
(* Answers and forms *)

NoAmount == -1
Mistyped == -2
Texts == Mistyped..(MaxMoney + 1)
IsValidMoney(text) == text \in 0..MaxMoney
\* The server counts any number, and nothing else.
ParseInteger(text) == IF text < 0 THEN 0 ELSE text

\* The rows of the first table, of the others, and the answer about self-financing.
Items == {"palkat", "muut", "tulot"}
Fields == Items \cup {"omarahoitus"}
FirstTable == {"palkat", "muut"}
\* The costs are the rows that increment the total; an income may be in the first table too.  A
\* cost may be counted from another field.  The grant sets the percentage freely.
BudgetForms ==
  {form \in [increments : {{"palkat"}, FirstTable}, selfField : BOOLEAN, counted : SUBSET {"muut"}, percentage : Percentages] :
     form.counted \subseteq form.increments}

SumOver(items, value) ==
  LET part(i) == IF i \in items THEN value[i] ELSE 0 IN part("palkat") + part("muut") + part("tulot")

Coefficient(i) == IF i \in spec.increments THEN 1 ELSE -1
CeilDiv(n, d) == -((-n) \div d)
\* Big.round with mode 3 goes away from zero, Math/ceil goes up.
RoundedUp(fraction, total) ==
  LET n == fraction[1] * total IN IF n < 0 THEN -CeilDiv(-n, fraction[2]) ELSE CeilDiv(n, fraction[2])
ShareRoundedUp(fraction, total) == CeilDiv(fraction[1] * total, fraction[2])
Percentage == <<spec.percentage, 100>>

--------------------------------------------------------------------------------
(* VaBudgetCalculator, on the page *)

\* What is not valid money counts as nothing.
AmountValue(a, i) == IF IsValidMoney(a[i]) THEN Coefficient(i) * a[i] ELSE 0
Subtotal(a, items) == SumOver(items, [i \in Items |-> AmountValue(a, i)])
TotalNeeded(a, detailed, costs) ==
  Subtotal(a, Items \ FirstTable) + IF detailed THEN Subtotal(a, FirstTable) ELSE costs

NoRatio == <<0, 0>>
NotANumber == [self |-> NoAmount, oph |-> NoAmount, valid |-> FALSE]
\* Mutant: the smallest share of self-financing is rounded down.
FinancingFloored(a, total, ratio) ==
  LET least == (spec.percentage * total) \div 100
      self == IF ~spec.selfField THEN least ELSE a["omarahoitus"] IN
  [self |-> self, oph |-> total - self, valid |-> self >= least /\ self <= total]
\* Mutant: the ratio of the application is not used.
FinancingAnswered(a, total, ratio) ==
  LET self == IF spec.selfField THEN a["omarahoitus"] ELSE RoundedUp(Percentage, total) IN
  [self |-> self, oph |-> total - self, valid |-> self >= 0]
Financing(a, total, ratio) ==
  LET least == RoundedUp(Percentage, total)
      share(self, valid) == [self |-> self, oph |-> total - self, valid |-> valid]
      answered == a["omarahoitus"] IN
  IF ~spec.selfField THEN share(least, TRUE)
  ELSE IF ratio # NoRatio THEN share(RoundedUp(ratio, total), TRUE)
  ELSE IF IsValidMoney(answered) THEN share(answered, answered >= least /\ answered <= total)
  ELSE NotANumber

\* A counted amount is not checked on its own: its error is that of the field it is counted from.
FieldsOK(a) ==
  /\ \A i \in Items \ spec.counted : IsValidMoney(a[i])
  /\ spec.selfField => IsValidMoney(a["omarahoitus"])
BudgetOK(a) ==
  LET total == TotalNeeded(a, TRUE, 0) IN total > 0 /\ Financing(a, total, NoRatio).valid
PageAccepts == FieldsOK(amounts) /\ (reported => BudgetOK(amounts))

--------------------------------------------------------------------------------
(* budget.clj, on the server *)

RowSum(a, items) == SumOver(items, [i \in Items |-> Coefficient(i) * ParseInteger(a[i])])
Larger(x, y) == IF x > y THEN x ELSE y

TotalsHakija(a) ==
  LET total == RowSum(a, Items)
      least == ShareRoundedUp(Percentage, total)
      self == IF spec.selfField THEN Larger(ParseInteger(a["omarahoitus"]), least) ELSE least IN
  [total |-> total, oph |-> Larger(total - self, 0)]
ValidBudget(a) ==
  LET totals == TotalsHakija(a) IN
  /\ totals.total > 0
  /\ spec.selfField => ParseInteger(a["omarahoitus"]) >= totals.total - totals.oph
\* Fields that are required have an answer.
ServerAccepts(a) == ValidBudget(a) /\ \A f \in Items \cup (IF spec.selfField THEN {"omarahoitus"} ELSE {}) : a[f] # NoAmount

\* With one sum, no cost is counted, but every income is.
TotalVirkailija(e) ==
  IF e.detailed THEN RowSum(e.answers, Items) ELSE RowSum(e.answers, Items \ spec.increments) + e.costs
BudgetGranted(e, h) ==
  LET total == TotalVirkailija(e)
      ratio == IF h.total > 0 THEN <<h.total - h.oph, h.total>> ELSE <<0, 1>>
      self == ShareRoundedUp(IF spec.selfField THEN ratio ELSE Percentage, total) IN
  IF e.rejected THEN 0 ELSE Larger(total - self, 0)

--------------------------------------------------------------------------------
(* The applicant *)

CanType == budgetActs.applicant < MaxApplicantActs
CanEvaluate == budgetActs.officer < MaxOfficerActs
BudgetAct(who) == budgetActs' = [budgetActs EXCEPT ![who] = @ + 1]
OfOfficer == <<arvioStored, granted, opened, arvio, unsaved>>

CanFillIn == stored.status \in {"draft", "pending_change_request"}

\* A moneyField or vaSelfFinancingField is updated: the sums are made anew, and reported.
TypeAmount(f, text) ==
  /\ CanType /\ CanFillIn /\ amounts[f] # text
  /\ f \notin spec.counted /\ (f = "omarahoitus" => spec.selfField)
  /\ amounts' = [amounts EXCEPT ![f] = text] /\ reported' = TRUE
  /\ BudgetAct("applicant")
  /\ UNCHANGED <<spec, stored, OfOfficer, moved>>

\* handleFixedMultiplierUpdate
TypeCount(count) ==
  /\ CanType /\ CanFillIn /\ spec.counted # {}
  /\ LET value == IF count = Mistyped THEN Mistyped ELSE (MultiplierNum * ParseInteger(count)) \div MultiplierDen
         text == IF value > MaxMoney THEN MaxMoney + 1 ELSE value IN
     /\ \E i \in spec.counted : amounts[i] # text /\ amounts' = [amounts EXCEPT ![i] = text]
  /\ reported' = TRUE
  /\ BudgetAct("applicant")
  /\ UNCHANGED <<spec, stored, OfOfficer, moved>>

StoredHakemus(a, status) ==
  [answers |-> a, status |-> status, total |-> TotalsHakija(a).total, oph |-> TotalsHakija(a).oph]
StoreHakemus(status) ==
  /\ stored' = StoredHakemus(amounts, status)
  /\ moved' = TRUE
  /\ UNCHANGED <<spec, amounts, reported, OfOfficer>>

\* A draft is stored with its totals, right or wrong.
SaveDraft ==
  /\ CanType /\ CanFillIn /\ stored.answers # amounts
  /\ StoreHakemus(stored.status)
  /\ BudgetAct("applicant")

SubmitHakemus ==
  /\ CanType /\ CanFillIn /\ PageAccepts /\ ServerAccepts(amounts)
  /\ StoreHakemus("submitted")
  /\ BudgetAct("applicant")

--------------------------------------------------------------------------------
(* The officer *)

NotOpened == [answers |-> [f \in Fields |-> NoAmount], total |-> 0, oph |-> 0]
HakemusRead == [answers |-> stored.answers, total |-> stored.total, oph |-> stored.oph]
OfApplicant == <<spec, amounts, reported>>

\* The answers of an officer, with what the application brings for the rows that officers do not
\* change: an amount is 0 at first, and later what was answered.
Fresh(overridden, f) == IF f # "omarahoitus" /\ overridden[f] = NoAmount THEN 0 ELSE overridden[f]
FromApplication(f) == f \notin spec.increments /\ (f = "omarahoitus" => spec.selfField)
Defaulted(overridden, answers) ==
  [f \in Fields |-> IF FromApplication(f) /\ answers[f] # NoAmount THEN answers[f] ELSE Fresh(overridden, f)]
\* Something other than a first 0 was brought.
IsBrought(overridden, answers) ==
  \E f \in Fields : FromApplication(f) /\ answers[f] \notin {NoAmount, Fresh(overridden, f)}

\* selectHakemus: what is brought stays in the page until the next save; the save that is made of
\* it posts the copy the page had before.
OpenHakemus ==
  /\ CanEvaluate /\ stored.status # "draft"
  /\ opened' = HakemusRead
  /\ arvio' = [arvioStored EXCEPT !.answers = Defaulted(@, stored.answers)]
  /\ unsaved' = FALSE
  /\ IF IsBrought(arvioStored.answers, stored.answers)
     THEN arvioStored' = arvio /\ granted' = BudgetGranted(arvio, stored) /\ moved' = FALSE
     ELSE UNCHANGED <<arvioStored, granted, moved>>
  /\ BudgetAct("officer")
  /\ UNCHANGED <<OfApplicant, stored>>

EditEvaluation(e) ==
  /\ CanEvaluate /\ opened # NotOpened /\ e # arvio
  /\ arvio' = e /\ unsaved' = TRUE
  /\ BudgetAct("officer")
  /\ UNCHANGED <<OfApplicant, stored, arvioStored, granted, opened, moved>>

\* BudgetBusinessRules: the costs are shown row by row, or as one sum.
ShowDetailedCosts(i) == arvio.detailed \/ i \notin spec.increments
\* Only a cost is edited.
OverrideAnswer(i, text) ==
  /\ i \in spec.increments /\ ShowDetailedCosts(i)
  /\ text = NoAmount \/ IsValidMoney(text)
  /\ EditEvaluation([arvio EXCEPT !.answers[i] = ParseInteger(text)])

\* The original amounts are copied when none is granted yet.
CopiedOriginals ==
  [f \in Fields |-> IF f \in Items /\ opened.answers[f] \in 0..MaxMoney \cup {NoAmount}
                    THEN ParseInteger(opened.answers[f]) ELSE arvio.answers[f]]
ToggleDetailedCosts ==
  LET costs == SumOver(spec.increments, [i \in Items |-> ParseInteger(arvio.answers[i])]) IN
  EditEvaluation([arvio EXCEPT !.detailed = ~@, !.answers = IF costs = 0 THEN CopiedOriginals ELSE @])

\* Any number is taken.
SetCostsGranted(n) == ~arvio.detailed /\ EditEvaluation([arvio EXCEPT !.costs = n])
SetRejected(r) == EditEvaluation([arvio EXCEPT !.rejected = r])

\* saveHakemusArvio
SaveArvio ==
  /\ unsaved
  /\ arvioStored' = arvio /\ granted' = BudgetGranted(arvio, stored) /\ unsaved' = FALSE /\ moved' = FALSE
  /\ UNCHANGED <<OfApplicant, stored, opened, arvio, budgetActs>>

\* The application is sent back to the applicant, who opens it.
RequestChange ==
  /\ stored.status = "submitted" /\ opened # NotOpened
  /\ stored' = [stored EXCEPT !.status = "pending_change_request"]
  /\ amounts' = stored.answers /\ reported' = TRUE
  /\ UNCHANGED <<spec, OfOfficer, budgetActs, moved>>

--------------------------------------------------------------------------------

BudgetInit ==
  /\ spec \in BudgetForms
  /\ amounts \in [Fields -> 0..MaxMoney]
  /\ ~spec.selfField => amounts["omarahoitus"] = 0
  \* Nothing is reported of the first version of an application, where every amount is 0.
  /\ reported \in BOOLEAN /\ (reported \/ \A f \in Fields : amounts[f] = 0)
  /\ \E status \in {"draft", "submitted"} :
       /\ status = "submitted" => PageAccepts /\ ServerAccepts(amounts)
       /\ stored = StoredHakemus(amounts, status)
  /\ arvioStored = [answers |-> NotOpened.answers, detailed |-> FALSE, costs |-> 0, rejected |-> FALSE]
  /\ granted = 0
  /\ opened = NotOpened /\ arvio = arvioStored /\ unsaved = FALSE
  /\ budgetActs = [applicant |-> 0, officer |-> 0] /\ moved = FALSE

BudgetNext ==
  \/ \E f \in Fields, text \in Texts : TypeAmount(f, text)
  \/ \E count \in Texts : TypeCount(count)
  \/ SaveDraft \/ SubmitHakemus
  \/ OpenHakemus \/ RequestChange
  \/ \E i \in Items, text \in Texts : OverrideAnswer(i, text)
  \/ ToggleDetailedCosts
  \/ \E n \in 0..(MaxMoney + 1) : SetCostsGranted(n)
  \/ \E r \in BOOLEAN : SetRejected(r)
  \/ SaveArvio

BudgetSpec == BudgetInit /\ [][BudgetNext]_budgetVars

--------------------------------------------------------------------------------

BudgetTypeOK ==
  /\ spec \in BudgetForms /\ amounts \in [Fields -> Texts]
  /\ stored.answers \in [Fields -> Texts] /\ stored.status \in {"draft", "submitted", "pending_change_request"}
  /\ {arvio.answers, arvioStored.answers} \subseteq [Fields -> Texts]
  /\ granted \in Nat /\ budgetActs \in [applicant : 0..MaxApplicantActs, officer : 0..MaxOfficerActs]
  /\ {reported, unsaved, moved, arvio.detailed, arvio.rejected} \subseteq BOOLEAN

\* An amount beyond the largest is nothing on a page, and a number on the server.
TooLarge(a, items) == \E i \in items : a[i] > MaxMoney

\* A budget in which the page finds no fault is accepted by the server with the same sums, unless
\* a counted amount is too large; and the shares of a submitted application make up its total.
PageAndServerSumAlike ==
  /\ FieldsOK(amounts) /\ BudgetOK(amounts) /\ ~TooLarge(amounts, spec.counted) =>
       LET total == TotalNeeded(amounts, TRUE, 0) IN
       /\ ValidBudget(amounts)
       /\ TotalsHakija(amounts) = [total |-> total, oph |-> Financing(amounts, total, NoRatio).oph]
  /\ stored.status = "submitted" /\ spec.selfField =>
       stored.answers["omarahoitus"] + stored.oph = stored.total

\* Shares of an application that are both there.
FixedRatio == IF opened.oph # 0 /\ opened.total # 0 THEN <<opened.total - opened.oph, opened.total>> ELSE NoRatio
ShownOph ==
  Financing(arvio.answers, TotalNeeded(arvio.answers, arvio.detailed, arvio.costs), FixedRatio).oph

\* What the officer's page shows as granted is what is stored, once all edits are saved; unless
\* what the application brought is not stored yet, the application was stored after the
\* evaluation or its opening, the sum granted meets an income among the costs, an income is too
\* large, or nothing was applied for.
GrantedIsShown ==
  opened # NotOpened /\ ~unsaved =>
    \/ granted = IF arvio.rejected THEN 0 ELSE Larger(ShownOph, 0)
    \/ arvioStored # arvio
    \/ moved \/ opened # HakemusRead
    \/ ~arvio.detailed /\ \E i \in FirstTable \ spec.increments : arvio.answers[i] > 0
    \/ TooLarge(arvio.answers, Items \ spec.increments)
    \/ spec.selfField /\ FixedRatio = NoRatio

=============================================================================
