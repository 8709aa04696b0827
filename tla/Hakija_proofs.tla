----------------------------- MODULE Hakija_proofs -----------------------------
(***************************************************************************)
(* Theorems about the pages of applicants and of a project: the budget     *)
(* and what is granted of it, the trainee days, and all pages together.    *)
(***************************************************************************)
EXTENDS MCHakija, Hanke_proofs

-----------------------------------------------------------------------------
(* The budget of an application                                              *)

\* A percentage of a sum, rounded up, is between nothing and the sum; of a negative sum, it is no
\* less than the sum.
LEMMA PercentRoundedUp ==
  ASSUME NEW p \in 0..100, NEW n \in Int
  PROVE  /\ CeilDiv(p * n, 100) \in Int
         /\ n >= 0 => CeilDiv(p * n, 100) \in 0..n
         /\ n < 0 => CeilDiv(p * n, 100) >= n
<1>1. PICK m \in Int : m = p * n
  OBVIOUS
<1>2. n >= 0 => 0 <= m /\ m <= 100 * n
  <2> SUFFICES ASSUME n >= 0 PROVE 0 <= p * n /\ p * n <= 100 * n
    BY <1>1
  <2>1. PICK q \in Nat : q = 100 - p
    OBVIOUS
  <2>2. q * n >= 0 /\ p * n >= 0
    BY <2>1
  <2>3. q * n = 100 * n - p * n
    BY <2>1
  <2> QED BY <2>2, <2>3
<1>3. n < 0 => 100 * n <= m
  <2> SUFFICES ASSUME n < 0 PROVE 100 * n <= p * n
    BY <1>1
  <2>1. PICK q \in Nat : q = 100 - p
    OBVIOUS
  <2>2. PICK k \in Nat : k = -n
    OBVIOUS
  <2>3. q * k >= 0
    OBVIOUS
  <2>4. q * k = p * n - 100 * n
    BY <2>1, <2>2
  <2> QED BY <2>3, <2>4
<1>4. CeilDiv(m, 100) = -((-m) \div 100)
  BY DEF CeilDiv
<1> QED BY <1>1, <1>2, <1>3, <1>4

\* What the server reads of an answer is a natural number.
LEMMA ParsedIsNat ==
  ASSUME NEW text \in Texts
  PROVE  ParseInteger(text) \in Nat
BY MoneyAssumption DEF ParseInteger, Texts, Mistyped

\* A form of the budget, taken apart.
LEMMA FormsTyped ==
  ASSUME spec \in BudgetForms
  PROVE  /\ spec.percentage \in 0..100 /\ spec.selfField \in BOOLEAN
         /\ spec.counted \subseteq {"muut"} /\ spec.counted \subseteq spec.increments
         /\ spec.increments \in {{"palkat"}, FirstTable}
BY PercentagesAssumption DEF BudgetForms

\* The server's total of a budget is an integer, and so is the page's.
LEMMA TotalsAreInt ==
  ASSUME NEW a \in [Fields -> Texts]
  PROVE  RowSum(a, Items) \in Int /\ TotalNeeded(a, TRUE, 0) \in Int
<1>1. \A f \in Fields : a[f] \in Int
  BY MoneyAssumption DEF Texts, Mistyped
<1>2. \A f \in Fields : ParseInteger(a[f]) \in Int
  BY <1>1 DEF ParseInteger
<1>3. \A i \in Items : Coefficient(i) * ParseInteger(a[i]) \in Int /\ AmountValue(a, i) \in Int
  BY <1>1, <1>2 DEF Coefficient, AmountValue, Fields
<1> QED BY <1>3 DEF RowSum, TotalNeeded, Subtotal, SumOver, Items, FirstTable

\* Where every amount is valid, counts as nothing on both sides, or is a counted one that is not
\* too large, page and server have one total.
LEMMA SameTotal ==
  ASSUME spec \in BudgetForms, NEW a \in [Fields -> Texts],
         FieldsOK(a), ~TooLarge(a, spec.counted)
  PROVE  RowSum(a, Items) = TotalNeeded(a, TRUE, 0)
<1>1. \A i \in Items : AmountValue(a, i) = Coefficient(i) * ParseInteger(a[i])
  <2> SUFFICES ASSUME NEW i \in Items
               PROVE  AmountValue(a, i) = Coefficient(i) * ParseInteger(a[i])
    OBVIOUS
  <2>1. a[i] \in Int
    BY MoneyAssumption DEF Texts, Mistyped, Fields
  <2>2. CASE IsValidMoney(a[i])
    BY <2>1, <2>2, MoneyAssumption DEF AmountValue, ParseInteger, IsValidMoney
  <2>3. CASE ~IsValidMoney(a[i])
    <3>1. i \in spec.counted
      BY <2>3 DEF FieldsOK
    <3>2. a[i] < 0
      BY <3>1, <2>1, <2>3, MoneyAssumption DEF TooLarge, IsValidMoney
    <3> QED BY <3>2, <2>3 DEF AmountValue, ParseInteger, Coefficient
  <2> QED BY <2>2, <2>3
<1>2. \A i \in Items : Coefficient(i) * ParseInteger(a[i]) \in Int
  BY MoneyAssumption DEF Coefficient, ParseInteger, Texts, Mistyped, Fields
<1> QED BY <1>1, <1>2 DEF RowSum, TotalNeeded, Subtotal, SumOver, Items, FirstTable

\* The server's total is at least the page's, whatever counted amount is too large: what the page
\* leaves out are costs.
LEMMA ServerTotalIsLarger ==
  ASSUME spec \in BudgetForms, NEW a \in [Fields -> Texts], FieldsOK(a)
  PROVE  RowSum(a, Items) >= TotalNeeded(a, TRUE, 0)
<1>1. \A i \in Items : AmountValue(a, i) <= Coefficient(i) * ParseInteger(a[i])
  <2> SUFFICES ASSUME NEW i \in Items
               PROVE  AmountValue(a, i) <= Coefficient(i) * ParseInteger(a[i])
    OBVIOUS
  <2>1. a[i] \in Int
    BY MoneyAssumption DEF Texts, Mistyped, Fields
  <2>2. CASE IsValidMoney(a[i])
    BY <2>1, <2>2, MoneyAssumption DEF AmountValue, ParseInteger, IsValidMoney, Coefficient
  <2>3. CASE ~IsValidMoney(a[i])
    <3>1. i \in spec.counted
      BY <2>3 DEF FieldsOK
    <3>2. Coefficient(i) = 1
      BY <3>1, FormsTyped DEF Coefficient
    <3> QED BY <2>1, <2>3, <3>2 DEF AmountValue, ParseInteger
  <2> QED BY <2>2, <2>3
<1>2. \A i \in Items : Coefficient(i) * ParseInteger(a[i]) \in Int /\ AmountValue(a, i) \in Int
  BY MoneyAssumption DEF Coefficient, ParseInteger, AmountValue, Texts, Mistyped, Fields
<1> QED BY <1>1, <1>2 DEF RowSum, TotalNeeded, Subtotal, SumOver, Items, FirstTable

\* What the server makes of a budget with a positive total: shares that are natural numbers, and
\* the least share of self-financing is at most the total.
LEMMA LeastShare ==
  ASSUME spec \in BudgetForms, NEW n \in Int, n > 0
  PROVE  /\ ShareRoundedUp(Percentage, n) = CeilDiv(spec.percentage * n, 100)
         /\ RoundedUp(Percentage, n) = CeilDiv(spec.percentage * n, 100)
         /\ CeilDiv(spec.percentage * n, 100) \in 0..n
<1>1. Percentage = <<spec.percentage, 100>> /\ spec.percentage \in 0..100
  BY FormsTyped DEF Percentage
<1>2. CeilDiv(spec.percentage * n, 100) \in 0..n
  <2>1. PICK p \in 0..100 : p = spec.percentage
    BY <1>1
  <2>2. n >= 0 => CeilDiv(p * n, 100) \in 0..n
    BY PercentRoundedUp
  <2> QED BY <2>1, <2>2
<1>3. spec.percentage * n >= 0
  BY <1>1
<1> QED BY <1>1, <1>2, <1>3 DEF ShareRoundedUp, RoundedUp

\* A budget in which the page finds no fault is accepted by the server with the same sums.
LEMMA PageAndServerAgree ==
  ASSUME spec \in BudgetForms, NEW a \in [Fields -> Texts],
         FieldsOK(a), BudgetOK(a), ~TooLarge(a, spec.counted)
  PROVE  LET total == TotalNeeded(a, TRUE, 0) IN
         /\ ValidBudget(a)
         /\ TotalsHakija(a) = [total |-> total, oph |-> Financing(a, total, NoRatio).oph]
<1> DEFINE total == TotalNeeded(a, TRUE, 0)
           least == CeilDiv(spec.percentage * total, 100)
           answered == a["omarahoitus"]
<1>1. total \in Int /\ total > 0 /\ RowSum(a, Items) = total
  BY TotalsAreInt, SameTotal DEF BudgetOK
<1>2. /\ ShareRoundedUp(Percentage, total) = least /\ RoundedUp(Percentage, total) = least
      /\ least \in 0..total
  BY <1>1, LeastShare
<1>3. Financing(a, total, NoRatio).valid
  BY DEF BudgetOK
<1>4. spec.selfField \in BOOLEAN
  BY FormsTyped
<1> HIDE DEF total, least
<1>5. CASE ~spec.selfField
  <2>1. Financing(a, total, NoRatio).oph = total - least
    BY <1>2, <1>5 DEF Financing
  <2>2. TotalsHakija(a) = [total |-> total, oph |-> total - least]
    BY <1>1, <1>2, <1>5 DEF TotalsHakija, Larger
  <2>3. ValidBudget(a)
    BY <1>1, <1>5, <2>2 DEF ValidBudget
  <2> QED BY <2>1, <2>2, <2>3 DEF total
<1>6. CASE spec.selfField
  <2>1. IsValidMoney(answered)
    BY <1>6 DEF FieldsOK
  <2>2. answered \in Nat /\ ParseInteger(answered) = answered
    BY <2>1, MoneyAssumption DEF IsValidMoney, ParseInteger
  <2>3. Financing(a, total, NoRatio).oph = total - answered
    BY <1>6, <2>1 DEF Financing
  <2>4. answered >= least /\ answered <= total
    BY <1>2, <1>3, <1>6, <2>1 DEF Financing
  <2>5. Larger(answered, least) = answered /\ Larger(total - answered, 0) = total - answered
    BY <1>1, <1>2, <2>2, <2>4 DEF Larger
  <2>6. TotalsHakija(a) = [total |-> total, oph |-> total - answered]
    BY <1>1, <1>2, <1>6, <2>2, <2>5 DEF TotalsHakija
  <2>7. ValidBudget(a)
    BY <1>1, <2>2, <2>6 DEF ValidBudget
  <2> QED BY <2>3, <2>6, <2>7 DEF total
<1> QED BY <1>4, <1>5, <1>6

\* What the page lets through and the server accepts is stored with shares that make up its total,
\* counted amounts that are too large included.
LEMMA SharesMakeUpTotal ==
  ASSUME spec \in BudgetForms, NEW a \in [Fields -> Texts], spec.selfField,
         FieldsOK(a), ValidBudget(a), BudgetOK(a)
  PROVE  a["omarahoitus"] + TotalsHakija(a).oph = TotalsHakija(a).total
<1> DEFINE total == RowSum(a, Items)
           shown == TotalNeeded(a, TRUE, 0)
           least == CeilDiv(spec.percentage * total, 100)
           answered == a["omarahoitus"]
<1>1. total \in Int /\ shown \in Int /\ shown <= total
  BY TotalsAreInt, ServerTotalIsLarger
<1>2. TotalsHakija(a).total = total /\ total > 0
  BY DEF ValidBudget, TotalsHakija
<1>3. ShareRoundedUp(Percentage, total) = least /\ least \in 0..total
  BY <1>1, <1>2, LeastShare
<1>4. IsValidMoney(answered)
  BY DEF FieldsOK
<1>5. answered \in Nat /\ ParseInteger(answered) = answered
  BY <1>4, MoneyAssumption DEF IsValidMoney, ParseInteger
<1>6. answered <= shown
  BY <1>4 DEF BudgetOK, Financing
<1> HIDE DEF total, shown, least
<1>7. TotalsHakija(a).oph = Larger(total - Larger(answered, least), 0)
  BY <1>3, <1>5 DEF TotalsHakija, total
<1>8. answered >= total - TotalsHakija(a).oph
  BY <1>2, <1>5 DEF ValidBudget
<1> QED BY <1>1, <1>2, <1>3, <1>5, <1>6, <1>7, <1>8 DEF Larger

-----------------------------------------------------------------------------
(* The invariant: types; nothing but a first version is unreported; and a    *)
(* submitted application went through the page and the server.               *)

Application == [answers : [Fields -> Texts], status : {"draft", "submitted", "pending_change_request"},
                total : Int, oph : Int]
Evaluation == [answers : [Fields -> Texts], detailed : BOOLEAN, costs : 0..(MaxMoney + 1), rejected : BOOLEAN]
OpenedApplication == [answers : [Fields -> Texts], total : Int, oph : Int]

Typed ==
  /\ spec \in BudgetForms
  /\ amounts \in [Fields -> Texts]
  /\ stored \in Application
  /\ arvioStored \in Evaluation
  /\ arvio \in Evaluation
  /\ opened \in OpenedApplication
  /\ granted \in Nat
  /\ budgetActs \in [applicant : 0..MaxApplicantActs, officer : 0..MaxOfficerActs]
  /\ reported \in BOOLEAN /\ unsaved \in BOOLEAN /\ moved \in BOOLEAN

ReportedOrFirst == reported \/ \A f \in Fields : amounts[f] = 0

SharesAddUp ==
  stored.status = "submitted" /\ spec.selfField =>
    stored.answers["omarahoitus"] + stored.oph = stored.total

BudgetInv == Typed /\ ReportedOrFirst /\ SharesAddUp

LEMMA StoredHakemusTyped ==
  ASSUME spec \in BudgetForms, NEW a \in [Fields -> Texts],
         NEW status \in {"draft", "submitted", "pending_change_request"}
  PROVE  StoredHakemus(a, status) \in Application
<1> DEFINE total == RowSum(a, Items)
           least == ShareRoundedUp(Percentage, total)
<1>1. total \in Int
  BY TotalsAreInt
<1>2. Percentage = <<spec.percentage, 100>> /\ spec.percentage \in 0..100
  BY FormsTyped DEF Percentage
<1>3. least \in Int
  BY <1>1, <1>2, PercentRoundedUp DEF ShareRoundedUp
<1>4. ParseInteger(a["omarahoitus"]) \in Nat
  BY ParsedIsNat DEF Fields
<1> HIDE DEF total, least
<1>5. TotalsHakija(a).total \in Int /\ TotalsHakija(a).oph \in Int
  BY <1>1, <1>3, <1>4 DEF TotalsHakija, Larger, total, least
<1> QED BY <1>5 DEF StoredHakemus, Application

LEMMA AcceptedAddsUp ==
  ASSUME spec \in BudgetForms, amounts \in [Fields -> Texts], ReportedOrFirst,
         PageAccepts, ServerAccepts(amounts), spec.selfField
  PROVE  amounts["omarahoitus"] + TotalsHakija(amounts).oph = TotalsHakija(amounts).total
<1>1. CASE reported
  BY <1>1, SharesMakeUpTotal DEF PageAccepts, ServerAccepts
<1>2. CASE ~reported
  <2>1. \A f \in Fields : amounts[f] = 0
    BY <1>2 DEF ReportedOrFirst
  <2>2. RowSum(amounts, Items) = 0
    BY <2>1 DEF RowSum, SumOver, Items, Fields, Coefficient, ParseInteger
  <2>3. ~ValidBudget(amounts)
    BY <2>2 DEF ValidBudget, TotalsHakija
  <2> QED BY <2>3 DEF ServerAccepts
<1> QED BY <1>1, <1>2

LEMMA GrantedIsNat ==
  ASSUME spec \in BudgetForms, NEW e \in Evaluation, NEW h \in Application
  PROVE  BudgetGranted(e, h) \in Nat
<1> DEFINE total == TotalVirkailija(e)
           ratio == IF h.total > 0 THEN <<h.total - h.oph, h.total>> ELSE <<0, 1>>
           fraction == IF spec.selfField THEN ratio ELSE Percentage
<1>1. \A f \in Fields : ParseInteger(e.answers[f]) \in Int
  BY ParsedIsNat DEF Evaluation
<1>2. \A i \in Items : Coefficient(i) * ParseInteger(e.answers[i]) \in Int
  BY <1>1 DEF Coefficient, Fields
<1>3. total \in Int
  BY <1>2, MoneyAssumption DEF TotalVirkailija, RowSum, SumOver, Items, Evaluation
<1>4. fraction[1] \in Int /\ fraction[2] \in Nat \ {0}
  BY FormsTyped DEF Application, Percentage
<1> HIDE DEF total, fraction
<1>5. fraction[1] * total \in Int
  BY <1>3, <1>4
<1>6. ShareRoundedUp(fraction, total) \in Int
  BY <1>4, <1>5 DEF ShareRoundedUp, CeilDiv
<1> QED BY <1>3, <1>6 DEF BudgetGranted, Larger, total, fraction

-----------------------------------------------------------------------------
(* Initially, and step by step.                                              *)

LEMMA InitEstablishes ==
  ASSUME BudgetInit
  PROVE  BudgetInv
<1>1. spec \in BudgetForms /\ amounts \in [Fields -> Texts]
  BY MoneyAssumption DEF BudgetInit, Texts, Mistyped
<1>2. ReportedOrFirst
  BY DEF BudgetInit, ReportedOrFirst
<1>3. PICK status \in {"draft", "submitted"} :
        /\ status = "submitted" => PageAccepts /\ ServerAccepts(amounts)
        /\ stored = StoredHakemus(amounts, status)
  BY DEF BudgetInit
<1>4. stored \in Application
  BY <1>1, <1>3, StoredHakemusTyped
<1>5. [f \in Fields |-> NoAmount] \in [Fields -> Texts]
  BY MoneyAssumption DEF Texts, NoAmount, Mistyped
<1>6. arvioStored \in Evaluation /\ arvio \in Evaluation /\ opened \in OpenedApplication
  BY <1>5, MoneyAssumption DEF BudgetInit, Evaluation, OpenedApplication, NotOpened
<1>7. Typed
  <2>1. granted \in Nat /\ budgetActs \in [applicant : 0..MaxApplicantActs, officer : 0..MaxOfficerActs]
    BY ActsAssumption DEF BudgetInit
  <2>2. reported \in BOOLEAN /\ unsaved \in BOOLEAN /\ moved \in BOOLEAN
    BY DEF BudgetInit
  <2> QED BY <1>1, <1>4, <1>6, <2>1, <2>2 DEF Typed
<1>8. SharesAddUp
  <2> SUFFICES ASSUME stored.status = "submitted", spec.selfField
               PROVE  stored.answers["omarahoitus"] + stored.oph = stored.total
    BY DEF SharesAddUp
  <2>1. PageAccepts /\ ServerAccepts(amounts)
    BY <1>3 DEF StoredHakemus
  <2>2. amounts["omarahoitus"] + TotalsHakija(amounts).oph = TotalsHakija(amounts).total
    BY <1>1, <1>2, <2>1, AcceptedAddsUp
  <2> QED BY <1>3, <2>2 DEF StoredHakemus
<1> QED BY <1>2, <1>7, <1>8 DEF BudgetInv

\* What the officer does leaves the application and the applicant's page alone.
LEMMA OfficerKeepsApplication ==
  ASSUME BudgetInv, Typed', UNCHANGED <<spec, amounts, reported, stored>>
  PROVE  BudgetInv'
BY DEF BudgetInv, ReportedOrFirst, SharesAddUp

LEMMA CountsTyped ==
  ASSUME Typed, NEW who \in {"applicant", "officer"}, BudgetAct(who),
         who = "applicant" => CanType, who = "officer" => CanEvaluate
  PROVE  budgetActs' \in [applicant : 0..MaxApplicantActs, officer : 0..MaxOfficerActs]
BY ActsAssumption DEF Typed, BudgetAct, CanType, CanEvaluate

LEMMA TypingPreserves ==
  ASSUME BudgetInv, UNCHANGED <<spec, stored, OfOfficer, moved>>, reported' = TRUE,
         amounts' \in [Fields -> Texts], CanType, BudgetAct("applicant")
  PROVE  BudgetInv'
<1>1. budgetActs' \in [applicant : 0..MaxApplicantActs, officer : 0..MaxOfficerActs]
  BY CountsTyped DEF BudgetInv
<1> QED BY <1>1 DEF BudgetInv, Typed, ReportedOrFirst, SharesAddUp, OfOfficer

LEMMA StoringPreserves ==
  ASSUME BudgetInv, NEW status \in {"draft", "submitted", "pending_change_request"},
         StoreHakemus(status), CanType, BudgetAct("applicant"),
         status = "submitted" => PageAccepts /\ ServerAccepts(amounts)
  PROVE  BudgetInv'
<1>1. budgetActs' \in [applicant : 0..MaxApplicantActs, officer : 0..MaxOfficerActs]
  BY CountsTyped DEF BudgetInv
<1>2. stored' \in Application
  BY StoredHakemusTyped DEF BudgetInv, Typed, StoreHakemus
<1>3. Typed'
  BY <1>1, <1>2 DEF BudgetInv, Typed, StoreHakemus, OfOfficer
<1>4. ReportedOrFirst'
  BY DEF BudgetInv, ReportedOrFirst, StoreHakemus
<1>5. stored'.status = status /\ stored'.answers = amounts
      /\ stored'.total = TotalsHakija(amounts).total /\ stored'.oph = TotalsHakija(amounts).oph
  BY DEF StoreHakemus, StoredHakemus
<1>6. status = "submitted" /\ spec.selfField =>
        amounts["omarahoitus"] + TotalsHakija(amounts).oph = TotalsHakija(amounts).total
  BY AcceptedAddsUp DEF BudgetInv, Typed
<1>7. SharesAddUp'
  BY <1>5, <1>6 DEF SharesAddUp, StoreHakemus
<1> QED BY <1>3, <1>4, <1>7 DEF BudgetInv

\* What an application brings to the officer's answers is an answer for every field.
LEMMA DefaultedTyped ==
  ASSUME spec \in BudgetForms, NEW o \in [Fields -> Texts], NEW a \in [Fields -> Texts]
  PROVE  Defaulted(o, a) \in [Fields -> Texts]
<1>1. 0 \in Texts
  BY MoneyAssumption DEF Texts, Mistyped
<1>2. ASSUME NEW f \in Fields
      PROVE  Defaulted(o, a)[f] \in {0, o[f], a[f]}
  BY DEF Defaulted, Fresh
<1> QED BY <1>1, <1>2 DEF Defaulted

LEMMA EditPreserves ==
  ASSUME BudgetInv, NEW e \in Evaluation, EditEvaluation(e)
  PROVE  BudgetInv'
<1>1. budgetActs' \in [applicant : 0..MaxApplicantActs, officer : 0..MaxOfficerActs]
  BY CountsTyped DEF BudgetInv, EditEvaluation
<1>2. Typed'
  BY <1>1 DEF BudgetInv, Typed, EditEvaluation, OfApplicant
<1> QED BY <1>2, OfficerKeepsApplication DEF EditEvaluation, OfApplicant

\* One act after another.
LEMMA StepPreserves ==
  ASSUME BudgetInv, [BudgetNext]_budgetVars
  PROVE  BudgetInv'
<1> USE DEF BudgetInv
<1>0. /\ spec \in BudgetForms /\ 0 \in Texts
      /\ arvio \in Evaluation /\ arvioStored \in Evaluation /\ stored \in Application
  BY MoneyAssumption DEF Typed, Texts, Mistyped
<1>1. ASSUME NEW f \in Fields, NEW text \in Texts, TypeAmount(f, text)
      PROVE  BudgetInv'
  <2>1. amounts' \in [Fields -> Texts]
    BY <1>1 DEF TypeAmount, Typed
  <2> QED BY <1>1, <2>1, TypingPreserves DEF TypeAmount
<1>2. ASSUME NEW count \in Texts, TypeCount(count)
      PROVE  BudgetInv'
  <2>1. PICK i \in spec.counted, text \in Int :
          /\ text = Mistyped \/ text \in Nat
          /\ text <= MaxMoney + 1
          /\ amounts' = [amounts EXCEPT ![i] = text]
    <3> DEFINE value == IF count = Mistyped THEN Mistyped
                        ELSE (MultiplierNum * ParseInteger(count)) \div MultiplierDen
               text == IF value > MaxMoney THEN MaxMoney + 1 ELSE value
    <3>1. MultiplierNum * ParseInteger(count) \in Nat
      BY ParsedIsNat, MultiplierAssumption
    <3>2. value = Mistyped \/ value \in Nat
      BY <3>1, MultiplierAssumption
    <3>3. /\ text \in Int /\ text <= MaxMoney + 1
          /\ text = Mistyped \/ text \in Nat
      BY <3>2, MoneyAssumption DEF Mistyped
    <3>4. \E i \in spec.counted : amounts' = [amounts EXCEPT ![i] = text]
      BY <1>2 DEF TypeCount
    <3> QED BY <3>3, <3>4
  <2>2. text \in Texts
    BY <2>1, MoneyAssumption DEF Texts, Mistyped
  <2>3. amounts' \in [Fields -> Texts]
    BY <2>1, <2>2 DEF Typed
  <2> QED BY <1>2, <2>3, TypingPreserves DEF TypeCount
<1>3. CASE SaveDraft
  <2>1. stored.status \in {"draft", "pending_change_request"}
    BY <1>3 DEF SaveDraft, CanFillIn
  <2> QED BY <1>3, <2>1, StoringPreserves DEF SaveDraft
<1>4. CASE SubmitHakemus
  BY <1>4, StoringPreserves DEF SubmitHakemus
<1>5. CASE OpenHakemus
  <2>1. HakemusRead \in OpenedApplication
    BY <1>0 DEF HakemusRead, OpenedApplication, Application
  <2>2. Defaulted(arvioStored.answers, stored.answers) \in [Fields -> Texts]
    BY <1>0, DefaultedTyped DEF Evaluation, Application
  <2>3. arvio' \in Evaluation
    BY <1>0, <1>5, <2>2 DEF OpenHakemus, Evaluation
  <2>4. arvioStored' \in Evaluation /\ granted' \in Nat /\ moved' \in BOOLEAN
    BY <1>0, <1>5, GrantedIsNat DEF OpenHakemus, Typed
  <2>5. budgetActs' \in [applicant : 0..MaxApplicantActs, officer : 0..MaxOfficerActs]
    BY <1>5, CountsTyped DEF OpenHakemus
  <2>6. Typed'
    BY <1>5, <2>1, <2>3, <2>4, <2>5 DEF OpenHakemus, Typed, OfApplicant
  <2> QED BY <1>5, <2>6, OfficerKeepsApplication DEF OpenHakemus, OfApplicant
<1>6. CASE RequestChange
  <2>1. stored' \in Application /\ amounts' \in [Fields -> Texts]
    BY <1>0, <1>6 DEF RequestChange, Application
  <2>2. stored'.status # "submitted"
    BY <1>0, <1>6 DEF RequestChange, Application
  <2> QED BY <1>6, <2>1, <2>2 DEF RequestChange, Typed, ReportedOrFirst, SharesAddUp, OfOfficer
<1>7. ASSUME NEW i \in Items, NEW text \in Texts, OverrideAnswer(i, text)
      PROVE  BudgetInv'
  <2>1. ParseInteger(text) \in Texts
    BY MoneyAssumption DEF ParseInteger, Texts, Mistyped
  <2>2. [arvio EXCEPT !.answers[i] = ParseInteger(text)] \in Evaluation
    BY <1>0, <2>1 DEF Evaluation, Fields
  <2> QED BY <1>7, <2>2, EditPreserves DEF OverrideAnswer
<1>8. CASE ToggleDetailedCosts
  <2>1. CopiedOriginals \in [Fields -> Texts]
    BY <1>0, MoneyAssumption DEF CopiedOriginals, Evaluation, ParseInteger, Texts, NoAmount, Mistyped
  <2>2. PICK brought \in [Fields -> Texts] :
          EditEvaluation([arvio EXCEPT !.detailed = ~@, !.answers = brought])
    BY <1>0, <1>8, <2>1 DEF ToggleDetailedCosts, Evaluation
  <2>3. [arvio EXCEPT !.detailed = ~@, !.answers = brought] \in Evaluation
    BY <1>0 DEF Evaluation
  <2> QED BY <2>2, <2>3, EditPreserves
<1>9. ASSUME NEW n \in 0..(MaxMoney + 1), SetCostsGranted(n)
      PROVE  BudgetInv'
  <2>1. [arvio EXCEPT !.costs = n] \in Evaluation
    BY <1>0 DEF Evaluation
  <2> QED BY <1>9, <2>1, EditPreserves DEF SetCostsGranted
<1>10. ASSUME NEW r \in BOOLEAN, SetRejected(r)
       PROVE  BudgetInv'
  <2>1. [arvio EXCEPT !.rejected = r] \in Evaluation
    BY <1>0 DEF Evaluation
  <2> QED BY <1>10, <2>1, EditPreserves DEF SetRejected
<1>11. CASE SaveArvio
  <2>1. Typed'
    BY <1>0, <1>11, GrantedIsNat DEF SaveArvio, Typed, OfApplicant
  <2> QED BY <1>11, <2>1, OfficerKeepsApplication DEF SaveArvio, OfApplicant
<1>12. CASE UNCHANGED budgetVars
  BY <1>12 DEF budgetVars, Typed, ReportedOrFirst, SharesAddUp
<1> QED BY <1>1, <1>2, <1>3, <1>4, <1>5, <1>6, <1>7, <1>8, <1>9, <1>10, <1>11, <1>12 DEF BudgetNext

-----------------------------------------------------------------------------
(* The theorems *)

\* The inductive invariant of the budget: types, and what reporting and submitting leave behind.
THEOREM BudgetInvariance == BudgetSpec => []BudgetInv
<1>1. BudgetInit => BudgetInv
  BY InitEstablishes
<1>2. BudgetInv /\ [BudgetNext]_budgetVars => BudgetInv'
  BY StepPreserves
<1> QED BY <1>1, <1>2, PTL DEF BudgetSpec

\* Types of the budget, for every largest amount, multiplier and number of acts.
THEOREM BudgetTyping == BudgetSpec => []BudgetTypeOK
<1>1. BudgetInv => BudgetTypeOK
  <2> SUFFICES ASSUME BudgetInv PROVE BudgetTypeOK
    OBVIOUS
  <2>1. /\ stored.answers \in [Fields -> Texts]
        /\ stored.status \in {"draft", "submitted", "pending_change_request"}
    BY DEF BudgetInv, Typed, Application
  <2>2. /\ {arvio.answers, arvioStored.answers} \subseteq [Fields -> Texts]
        /\ {arvio.detailed, arvio.rejected} \subseteq BOOLEAN
    BY DEF BudgetInv, Typed, Evaluation
  <2>3. {reported, unsaved, moved} \subseteq BOOLEAN
    BY DEF BudgetInv, Typed
  <2> QED BY <2>1, <2>2, <2>3 DEF BudgetInv, Typed, BudgetTypeOK
<1> QED BY <1>1, BudgetInvariance, PTL

\* Page and server sum a budget alike, and the shares of a submitted application make up its
\* total, for every largest amount and multiplier.
THEOREM SumsAgree == BudgetSpec => []PageAndServerSumAlike
<1>1. BudgetInv => PageAndServerSumAlike
  BY PageAndServerAgree DEF BudgetInv, Typed, SharesAddUp, PageAndServerSumAlike
<1> QED BY <1>1, BudgetInvariance, PTL
-----------------------------------------------------------------------------
(* What is granted: the sums of the officer's page and of the server         *)

LEMMA QuotientAtLeast ==
  ASSUME NEW n \in Int, NEW d \in Nat \ {0}, NEW k \in Int, d * k <= n
  PROVE  k <= n \div d /\ n \div d \in Int
<1>1. PICK q \in Int : q = n \div d
  OBVIOUS
<1>2. n < d * (q + 1)
  BY <1>1
<1>3. ASSUME q + 1 <= k PROVE FALSE
  <2>1. d * (q + 1) <= d * k
    BY <1>3
  <2>2. d * (q + 1) \in Int /\ d * k \in Int
    OBVIOUS
  <2> QED BY <1>2, <2>1, <2>2
<1> QED BY <1>1, <1>3

LEMMA QuotientAtMost ==
  ASSUME NEW n \in Int, NEW d \in Nat \ {0}, NEW k \in Int, n <= d * k
  PROVE  n \div d <= k /\ n \div d \in Int
<1>1. PICK q \in Int : q = n \div d
  OBVIOUS
<1>2. d * q <= n
  BY <1>1
<1>3. ASSUME k + 1 <= q PROVE FALSE
  <2>1. d * (k + 1) <= d * q
    BY <1>3
  <2>2. d * (k + 1) = d * k + d /\ d * k \in Int /\ d * q \in Int
    OBVIOUS
  <2> QED BY <1>2, <2>1, <2>2
<1> QED BY <1>1, <1>3

\* The page rounds away from zero and the server up: the shares that remain differ only where
\* neither is positive.
LEMMA RoundingsAgree ==
  ASSUME NEW c \in Nat, NEW d \in Nat \ {0}, c <= d, NEW total \in Int
  PROVE  /\ RoundedUp(<<c, d>>, total) \in Int /\ ShareRoundedUp(<<c, d>>, total) \in Int
         /\ Larger(total - RoundedUp(<<c, d>>, total), 0) = Larger(total - ShareRoundedUp(<<c, d>>, total), 0)
<1>1. PICK n \in Int : n = c * total
  OBVIOUS
<1>2. /\ RoundedUp(<<c, d>>, total) = IF n < 0 THEN -CeilDiv(-n, d) ELSE CeilDiv(n, d)
      /\ ShareRoundedUp(<<c, d>>, total) = CeilDiv(n, d)
  BY <1>1 DEF RoundedUp, ShareRoundedUp
<1>3. n \div d \in Int /\ (-n) \div d \in Int
  BY <1>1
<1>4. CeilDiv(n, d) = -((-n) \div d) /\ CeilDiv(-n, d) = -(n \div d)
  BY <1>1 DEF CeilDiv
<1>5. CASE n >= 0
  BY <1>1, <1>2, <1>3, <1>4, <1>5
<1>6. CASE n < 0
  <2>1. total < 0
    BY <1>1, <1>6
  <2>2. d * total <= n
    <3>1. PICK t \in Nat : t = -total
      BY <2>1
    <3>2. c * t <= d * t /\ c * t \in Int /\ d * t \in Int
      BY <3>1
    <3>3. c * t = -n /\ d * t = -(d * total)
      BY <1>1, <3>1
    <3> QED BY <1>1, <3>2, <3>3
  <2>3. total <= n \div d
    BY <1>1, <2>2, QuotientAtLeast
  <2>4. -n <= d * (-total)
    <3>1. d * (-total) = -(d * total) /\ d * total \in Int
      OBVIOUS
    <3> QED BY <1>1, <2>2, <3>1
  <2>5. (-n) \div d <= -total
    BY <1>1, <2>4, QuotientAtMost
  <2> QED BY <1>2, <1>3, <1>4, <1>6, <2>3, <2>5 DEF Larger
<1> QED BY <1>1, <1>5, <1>6

\* Where no cost and no income is too large, and the sum granted meets no income among the costs,
\* both sides have one total of what is granted.
LEMMA SameTotalGranted ==
  ASSUME spec \in BudgetForms, NEW e \in Evaluation,
         \A i \in spec.increments : e.answers[i] <= MaxMoney,
         ~TooLarge(e.answers, Items \ spec.increments),
         ~(~e.detailed /\ \E i \in FirstTable \ spec.increments : e.answers[i] > 0)
  PROVE  /\ TotalNeeded(e.answers, e.detailed, e.costs) = TotalVirkailija(e)
         /\ TotalVirkailija(e) \in Int
<1>1. PICK a \in [Fields -> Texts] : a = e.answers
  BY DEF Evaluation
<1>2. \A i \in Items : a[i] \in Int
  BY <1>1, MoneyAssumption DEF Texts, Mistyped, Fields
<1>3. \A i \in Items : /\ AmountValue(a, i) = Coefficient(i) * ParseInteger(a[i])
                       /\ AmountValue(a, i) \in Int
  <2> SUFFICES ASSUME NEW i \in Items
               PROVE  AmountValue(a, i) = Coefficient(i) * ParseInteger(a[i]) /\ AmountValue(a, i) \in Int
    OBVIOUS
  <2>1. a[i] <= MaxMoney
    BY <1>1, <1>2, MoneyAssumption DEF TooLarge
  <2> QED BY <1>2, <2>1, MoneyAssumption DEF AmountValue, IsValidMoney, ParseInteger, Coefficient
<1>4. e.costs \in Int /\ e.detailed \in BOOLEAN
  BY MoneyAssumption DEF Evaluation
<1>5. PICK v : v = [i \in Items |-> AmountValue(a, i)]
  OBVIOUS
<1>6. [i \in Items |-> Coefficient(i) * ParseInteger(a[i])] = v
  BY <1>3, <1>5
<1>7. \A i \in Items : v[i] \in Int
  BY <1>3, <1>5
<1>8. /\ TotalNeeded(a, e.detailed, e.costs)
           = SumOver(Items \ FirstTable, v) + IF e.detailed THEN SumOver(FirstTable, v) ELSE e.costs
      /\ TotalVirkailija(e) = IF e.detailed THEN SumOver(Items, v)
                              ELSE SumOver(Items \ spec.increments, v) + e.costs
  BY <1>1, <1>5, <1>6 DEF TotalNeeded, Subtotal, TotalVirkailija, RowSum
<1>9. spec.increments \in {{"palkat"}, FirstTable}
  BY FormsTyped
<1>10. CASE e.detailed
  <2>1. PICK p \in Int, m \in Int, t \in Int : p = v["palkat"] /\ m = v["muut"] /\ t = v["tulot"]
    BY <1>7 DEF Items
  <2>2. SumOver(Items \ FirstTable, v) = t /\ SumOver(FirstTable, v) = p + m /\ SumOver(Items, v) = p + m + t
    BY <2>1 DEF SumOver, Items, FirstTable
  <2> QED BY <1>1, <1>8, <1>10, <2>1, <2>2
<1>11. CASE ~e.detailed
  <2>1. \A i \in FirstTable \ spec.increments : v[i] = 0
    <3> SUFFICES ASSUME NEW i \in FirstTable \ spec.increments PROVE v[i] = 0
      OBVIOUS
    <3>1. i \in Items /\ a[i] \in Int /\ ~(a[i] > 0)
      BY <1>1, <1>2, <1>11 DEF Items, FirstTable
    <3>2. v[i] = AmountValue(a, i) /\ Coefficient(i) \in {1, -1}
      BY <1>5, <3>1 DEF Coefficient
    <3>3. a[i] = 0 \/ ~IsValidMoney(a[i])
      BY <3>1, MoneyAssumption DEF IsValidMoney
    <3> QED BY <3>2, <3>3 DEF AmountValue
  <2>2. SumOver(Items \ spec.increments, v) = SumOver(Items \ FirstTable, v)
    BY <1>7, <1>9, <2>1 DEF SumOver, Items, FirstTable
  <2>3. PICK t \in Int : t = v["tulot"]
    BY <1>7 DEF Items
  <2>4. SumOver(Items \ FirstTable, v) = t
    BY <2>3 DEF SumOver, Items, FirstTable
  <2> QED BY <1>1, <1>4, <1>8, <1>11, <2>2, <2>3, <2>4
<1> QED BY <1>1, <1>4, <1>10, <1>11

\* The totals of an application that the server stored: a grant is positive and no more than the
\* total, or there is none.
SharesOf(h) == h.oph \in Nat /\ (h.oph # 0 => h.total \in Nat \ {0} /\ h.oph <= h.total)

LEMMA StoredShares ==
  ASSUME spec \in BudgetForms, NEW a \in [Fields -> Texts], NEW status
  PROVE  SharesOf(StoredHakemus(a, status))
<1> DEFINE total == RowSum(a, Items)
           least == ShareRoundedUp(Percentage, total)
<1>1. total \in Int
  BY TotalsAreInt
<1>2. Percentage = <<spec.percentage, 100>> /\ spec.percentage \in 0..100
  BY FormsTyped DEF Percentage
<1>3. least \in Int /\ (total >= 0 => least >= 0) /\ (total < 0 => least >= total)
  <2>1. PICK p \in 0..100 : p = spec.percentage
    BY <1>2
  <2>2. PICK t \in Int : t = total
    BY <1>1
  <2>3. least = CeilDiv(p * t, 100)
    BY <1>2, <2>1, <2>2 DEF ShareRoundedUp
  <2>4. CeilDiv(p * t, 100) \in Int /\ (t >= 0 => CeilDiv(p * t, 100) \in 0..t) /\ (t < 0 => CeilDiv(p * t, 100) >= t)
    BY PercentRoundedUp
  <2> QED BY <2>2, <2>3, <2>4
<1>4. ParseInteger(a["omarahoitus"]) \in Nat
  BY ParsedIsNat DEF Fields
<1> HIDE DEF total, least
<1>5. PICK self \in Int : /\ TotalsHakija(a) = [total |-> total, oph |-> Larger(total - self, 0)]
                          /\ self >= least
  BY <1>1, <1>3, <1>4 DEF TotalsHakija, Larger, total, least
<1>6. StoredHakemus(a, status).total = total /\ StoredHakemus(a, status).oph = Larger(total - self, 0)
  BY <1>5 DEF StoredHakemus
<1> QED BY <1>1, <1>3, <1>5, <1>6 DEF SharesOf, Larger

-----------------------------------------------------------------------------
(* The invariant of the grant: unless the application moved on, what is      *)
(* granted is what the stored evaluation makes of it.                        *)

CostsBounded(e) == \A i \in spec.increments : e.answers[i] <= MaxMoney

GrantInv ==
  /\ ~moved => granted = BudgetGranted(arvioStored, stored)
  /\ CostsBounded(arvio) /\ CostsBounded(arvioStored)
  /\ SharesOf(stored)

LEMMA GrantStarts ==
  ASSUME BudgetInit, BudgetInv
  PROVE  GrantInv
<1>1. spec \in BudgetForms /\ stored \in Application /\ amounts \in [Fields -> Texts]
  BY DEF BudgetInv, Typed
<1>2. SharesOf(stored)
  BY <1>1, StoredShares DEF BudgetInit
<1>3. CostsBounded(arvio) /\ CostsBounded(arvioStored)
  BY <1>1, FormsTyped, MoneyAssumption DEF BudgetInit, CostsBounded, NotOpened, NoAmount, Fields, Items, FirstTable
<1>4. \A f \in Fields : ParseInteger(arvioStored.answers[f]) = 0
  BY DEF BudgetInit, NotOpened, NoAmount, ParseInteger
<1>5. arvioStored.costs = 0 /\ ~arvioStored.detailed /\ ~arvioStored.rejected
  BY DEF BudgetInit
<1>6. \A i \in Items : Coefficient(i) * ParseInteger(arvioStored.answers[i]) = 0
  BY <1>4 DEF Coefficient, Fields
<1>7. TotalVirkailija(arvioStored) = 0
  BY <1>5, <1>6 DEF TotalVirkailija, RowSum, SumOver, Items
<1>8. PICK c \in Int, d \in Nat \ {0} :
        (IF spec.selfField THEN (IF stored.total > 0 THEN <<stored.total - stored.oph, stored.total>> ELSE <<0, 1>>)
         ELSE Percentage) = <<c, d>>
  BY <1>1, FormsTyped DEF Application, Percentage
<1>9. ShareRoundedUp(<<c, d>>, 0) = 0
  <2>1. c * 0 = 0
    OBVIOUS
  <2>2. 0 \div d = 0
    <3>1. d * 0 = 0
      OBVIOUS
    <3>2. 0 <= 0 \div d /\ 0 \div d <= 0 /\ 0 \div d \in Int
      BY ONLY <3>1, QuotientAtLeast, QuotientAtMost, d \in Nat \ {0}
    <3> QED BY <3>2
  <2> QED BY <2>1, <2>2 DEF ShareRoundedUp, CeilDiv
<1>10. BudgetGranted(arvioStored, stored) = 0
  BY <1>5, <1>7, <1>8, <1>9 DEF BudgetGranted, Larger
<1>11. granted = 0
  BY DEF BudgetInit
<1> QED BY <1>2, <1>3, <1>10, <1>11 DEF GrantInv

\* Unless something of the application was stored since, what is granted does not change with it.
LEMMA GrantKept ==
  ASSUME GrantInv, UNCHANGED <<spec, granted, arvioStored, moved>>,
         moved \/ (stored'.total = stored.total /\ stored'.oph = stored.oph),
         SharesOf(stored)', CostsBounded(arvio)'
  PROVE  GrantInv'
<1>1. CostsBounded(arvioStored)'
  BY DEF GrantInv, CostsBounded
<1>2. ~moved' => granted' = BudgetGranted(arvioStored', stored')
  BY DEF GrantInv, BudgetGranted, TotalVirkailija, RowSum, Coefficient, Percentage
<1> QED BY <1>1, <1>2 DEF GrantInv, BudgetGranted, TotalVirkailija, RowSum, Coefficient, Percentage

LEMMA StoringGrant ==
  ASSUME BudgetInv, GrantInv, NEW status, StoreHakemus(status)
  PROVE  GrantInv'
<1>1. UNCHANGED spec /\ spec \in BudgetForms /\ amounts \in [Fields -> Texts] /\ moved'
      /\ stored' = StoredHakemus(amounts, status) /\ UNCHANGED <<arvio, arvioStored>>
  BY DEF StoreHakemus, BudgetInv, Typed, OfOfficer
<1>2. SharesOf(stored')
  BY <1>1, StoredShares
<1> QED BY <1>1, <1>2 DEF GrantInv, SharesOf, CostsBounded

LEMMA EditGrant ==
  ASSUME BudgetInv, GrantInv, NEW e, EditEvaluation(e), CostsBounded(e)
  PROVE  GrantInv'
<1>1. UNCHANGED <<spec, granted, arvioStored, moved, stored>> /\ arvio' = e
  BY DEF EditEvaluation, OfApplicant
<1>2. SharesOf(stored)' /\ CostsBounded(arvio)'
  BY <1>1 DEF GrantInv, SharesOf, CostsBounded
<1> QED BY <1>1, <1>2, GrantKept

LEMMA GrantStep ==
  ASSUME BudgetInv, GrantInv, [BudgetNext]_budgetVars
  PROVE  GrantInv'
<1>0. /\ spec \in BudgetForms /\ arvio \in Evaluation /\ arvioStored \in Evaluation /\ stored \in Application
      /\ opened \in OpenedApplication
  BY DEF BudgetInv, Typed
<1>1. ASSUME UNCHANGED <<spec, stored, OfOfficer, moved>>
      PROVE  GrantInv'
  BY <1>1, GrantKept DEF OfOfficer, GrantInv, SharesOf, CostsBounded
<1>2. ASSUME NEW i \in Items, NEW text \in Texts, OverrideAnswer(i, text)
      PROVE  GrantInv'
  <2>1. PICK e : e = [arvio EXCEPT !.answers[i] = ParseInteger(text)] /\ EditEvaluation(e)
    BY <1>2 DEF OverrideAnswer
  <2>2. ParseInteger(text) <= MaxMoney
    BY <1>2, MoneyAssumption DEF OverrideAnswer, ParseInteger, IsValidMoney, NoAmount
  <2>3. e.answers = [arvio.answers EXCEPT ![i] = ParseInteger(text)]
    BY <1>0, <2>1 DEF Evaluation
  <2>4. CostsBounded(e)
    BY <1>0, <2>2, <2>3 DEF GrantInv, CostsBounded, Evaluation
  <2> QED BY <2>1, <2>4, EditGrant
<1>3. CASE ToggleDetailedCosts
  <2>1. PICK b \in BOOLEAN : b = ~arvio.detailed
    OBVIOUS
  <2>2. PICK o : o \in {CopiedOriginals, arvio.answers}
                 /\ EditEvaluation([arvio EXCEPT !.detailed = b, !.answers = o])
    BY <1>3, <2>1 DEF ToggleDetailedCosts
  <2>3. PICK e : e = [arvio EXCEPT !.detailed = b, !.answers = o]
    OBVIOUS
  <2>4. e.answers = o
    BY <1>0, <2>3 DEF Evaluation
  <2>5. \A i \in spec.increments : CopiedOriginals[i] <= MaxMoney
    <3> TAKE i \in spec.increments
    <3>1. i \in Items /\ i \in Fields
      BY <1>0, FormsTyped DEF Items, Fields, FirstTable
    <3>2. CopiedOriginals[i] = IF opened.answers[i] \in 0..MaxMoney \cup {NoAmount}
                               THEN ParseInteger(opened.answers[i]) ELSE arvio.answers[i]
      BY <3>1 DEF CopiedOriginals
    <3>3. arvio.answers[i] <= MaxMoney
      BY DEF GrantInv, CostsBounded
    <3> QED BY <3>2, <3>3, MoneyAssumption DEF ParseInteger, NoAmount
  <2>6. CostsBounded(e)
    BY <2>2, <2>4, <2>5 DEF GrantInv, CostsBounded
  <2> QED BY <2>2, <2>3, <2>6, EditGrant
<1>4. ASSUME NEW n, SetCostsGranted(n)
      PROVE  GrantInv'
  <2>1. PICK e : e = [arvio EXCEPT !.costs = n] /\ EditEvaluation(e)
    BY <1>4 DEF SetCostsGranted
  <2>2. e.answers = arvio.answers
    BY <1>0, <2>1 DEF Evaluation
  <2> QED BY <2>1, <2>2, EditGrant DEF GrantInv, CostsBounded
<1>5. ASSUME NEW r \in BOOLEAN, SetRejected(r)
      PROVE  GrantInv'
  <2>1. PICK e : e = [arvio EXCEPT !.rejected = r] /\ EditEvaluation(e)
    BY <1>5 DEF SetRejected
  <2>2. e.answers = arvio.answers
    BY <1>0, <2>1 DEF Evaluation
  <2> QED BY <2>1, <2>2, EditGrant DEF GrantInv, CostsBounded
<1>6. ASSUME UNCHANGED <<spec, stored>>, CostsBounded(arvio)',
             \/ arvioStored' = arvio /\ granted' = BudgetGranted(arvio, stored) /\ moved' = FALSE
             \/ UNCHANGED <<arvioStored, granted, moved>>
      PROVE  GrantInv'
  <2>1. CASE UNCHANGED <<arvioStored, granted, moved>>
    BY <1>6, <2>1, GrantKept DEF GrantInv, SharesOf
  <2>2. CASE arvioStored' = arvio /\ granted' = BudgetGranted(arvio, stored) /\ moved' = FALSE
    <3>1. CostsBounded(arvioStored)' /\ SharesOf(stored)'
      BY <1>6, <2>2 DEF GrantInv, CostsBounded, SharesOf
    <3>2. granted' = BudgetGranted(arvioStored', stored')
      BY <1>6, <2>2
    <3>3. BudgetGranted(arvioStored, stored)' = BudgetGranted(arvioStored', stored')
      BY <1>6 DEF BudgetGranted, TotalVirkailija, RowSum, Coefficient, Percentage
    <3> QED BY <1>6, <3>1, <3>2, <3>3 DEF GrantInv
  <2> QED BY <1>6, <2>1, <2>2
<1>7. CASE OpenHakemus
  <2>1. PICK d : d = Defaulted(arvioStored.answers, stored.answers)
    OBVIOUS
  <2>2. arvio' = [arvioStored EXCEPT !.answers = d]
    BY <1>7, <2>1 DEF OpenHakemus
  <2>3. arvio'.answers = d
    BY <1>0, <2>2 DEF Evaluation
  <2>4. \A i \in spec.increments : d[i] <= MaxMoney
    <3> TAKE i \in spec.increments
    <3>1. i \in Fields /\ i # "omarahoitus"
      BY <1>0, FormsTyped DEF Items, Fields, FirstTable
    <3>2. d[i] = IF arvioStored.answers[i] = NoAmount THEN 0 ELSE arvioStored.answers[i]
      BY <2>1, <3>1 DEF Defaulted, FromApplication, Fresh
    <3> QED BY <3>2, MoneyAssumption DEF GrantInv, CostsBounded
  <2>5. UNCHANGED <<spec, stored>>
    BY <1>7 DEF OpenHakemus, OfApplicant
  <2>6. CostsBounded(arvio)'
    BY <2>3, <2>4, <2>5 DEF CostsBounded
  <2> QED BY <1>6, <1>7, <2>5, <2>6 DEF OpenHakemus
<1>8. CASE SaveArvio
  BY <1>6, <1>8 DEF SaveArvio, OfApplicant, GrantInv, CostsBounded
<1>9. CASE RequestChange
  <2>1. stored'.total = stored.total /\ stored'.oph = stored.oph
    BY <1>0, <1>9 DEF RequestChange, Application
  <2>2. SharesOf(stored)' /\ CostsBounded(arvio)' /\ UNCHANGED <<spec, granted, arvioStored, moved>>
    BY <1>9, <2>1 DEF RequestChange, OfOfficer, GrantInv, SharesOf, CostsBounded
  <2> QED BY <2>1, <2>2, GrantKept
<1>10. ASSUME NEW f \in Fields, NEW text \in Texts, TypeAmount(f, text)
       PROVE  GrantInv'
  BY <1>1, <1>10 DEF TypeAmount
<1>11. ASSUME NEW count \in Texts, TypeCount(count)
       PROVE  GrantInv'
  BY <1>1, <1>11 DEF TypeCount
<1>12. CASE SaveDraft \/ SubmitHakemus
  BY <1>12, StoringGrant DEF SaveDraft, SubmitHakemus
<1>13. CASE UNCHANGED budgetVars
  BY <1>1, <1>13 DEF budgetVars, OfOfficer
<1> QED BY <1>2, <1>3, <1>4, <1>5, <1>7, <1>8, <1>9, <1>10, <1>11, <1>12, <1>13 DEF BudgetNext

THEOREM GrantInvariance == BudgetSpec => []GrantInv
<1>1. BudgetInit => BudgetInv /\ GrantInv
  BY InitEstablishes, GrantStarts
<1>2. BudgetInv /\ GrantInv /\ [BudgetNext]_budgetVars => (BudgetInv /\ GrantInv)'
  BY StepPreserves, GrantStep
<1> QED BY <1>1, <1>2, PTL DEF BudgetSpec

LEMMA GrantShown ==
  ASSUME BudgetInv, GrantInv
  PROVE  GrantedIsShown
<1> SUFFICES ASSUME arvioStored = arvio, ~moved, opened = HakemusRead,
                    ~(~arvio.detailed /\ \E i \in FirstTable \ spec.increments : arvio.answers[i] > 0),
                    ~TooLarge(arvio.answers, Items \ spec.increments),
                    ~(spec.selfField /\ FixedRatio = NoRatio)
             PROVE  granted = IF arvio.rejected THEN 0 ELSE Larger(ShownOph, 0)
  BY DEF GrantedIsShown
<1>1. spec \in BudgetForms /\ arvio \in Evaluation /\ stored \in Application
  BY DEF BudgetInv, Typed
<1>2. PICK total \in Int : /\ total = TotalVirkailija(arvio)
                           /\ total = TotalNeeded(arvio.answers, arvio.detailed, arvio.costs)
  BY <1>1, SameTotalGranted DEF GrantInv, CostsBounded
<1>3. opened.total = stored.total /\ opened.oph = stored.oph
  BY DEF HakemusRead
<1>4. PICK c \in Nat, d \in Nat \ {0} :
        /\ c <= d
        /\ ShownOph = total - RoundedUp(<<c, d>>, total)
        /\ BudgetGranted(arvio, stored) = IF arvio.rejected THEN 0
                                          ELSE Larger(total - ShareRoundedUp(<<c, d>>, total), 0)
  <2>1. CASE ~spec.selfField
    <3>1. Percentage = <<spec.percentage, 100>> /\ spec.percentage \in 0..100
      BY <1>1, FormsTyped DEF Percentage
    <3>2. ShownOph = total - RoundedUp(<<spec.percentage, 100>>, total)
      BY <1>2, <2>1, <3>1 DEF ShownOph, Financing
    <3>3. BudgetGranted(arvio, stored) = IF arvio.rejected THEN 0
                                          ELSE Larger(total - ShareRoundedUp(<<spec.percentage, 100>>, total), 0)
      BY <1>2, <2>1, <3>1 DEF BudgetGranted
    <3>4. PICK c \in Nat, d \in Nat \ {0} : c = spec.percentage /\ d = 100 /\ c <= d
      BY <3>1
    <3>5. /\ ShownOph = total - RoundedUp(<<c, d>>, total)
          /\ BudgetGranted(arvio, stored) = IF arvio.rejected THEN 0
                                            ELSE Larger(total - ShareRoundedUp(<<c, d>>, total), 0)
      BY ONLY <3>2, <3>3, <3>4
    <3> QED BY ONLY <3>4, <3>5
  <2>2. CASE spec.selfField
    <3>1. opened.oph # 0 /\ opened.total # 0 /\ FixedRatio = <<opened.total - opened.oph, opened.total>>
          /\ FixedRatio # NoRatio
      BY <2>2 DEF FixedRatio
    <3>2. PICK c \in Nat, d \in Nat \ {0} : c = stored.total - stored.oph /\ d = stored.total /\ c <= d
      BY <1>3, <3>1 DEF GrantInv, SharesOf
    <3>3. ShownOph = total - RoundedUp(<<c, d>>, total)
      BY <1>2, <1>3, <2>2, <3>1, <3>2 DEF ShownOph, Financing
    <3>4. BudgetGranted(arvio, stored) = IF arvio.rejected THEN 0
                                          ELSE Larger(total - ShareRoundedUp(<<c, d>>, total), 0)
      BY <1>2, <2>2, <3>2 DEF BudgetGranted
    <3> QED BY <3>2, <3>3, <3>4
  <2> QED BY <1>1, <2>1, <2>2, FormsTyped
<1>5. Larger(ShownOph, 0) = Larger(total - ShareRoundedUp(<<c, d>>, total), 0)
  BY <1>4, RoundingsAgree
<1>6. granted = BudgetGranted(arvio, stored)
  BY DEF GrantInv
<1> QED BY <1>4, <1>5, <1>6

\* What the officer's page shows as granted is what the server stores, though each sums and rounds
\* by code of its own; for every largest amount, every form and number of acts.
THEOREM GrantsAreShown == BudgetSpec => []GrantedIsShown
<1>1. BudgetInv /\ GrantInv => GrantedIsShown
  BY GrantShown
<1> QED BY <1>1, BudgetInvariance, GrantInvariance, PTL
-----------------------------------------------------------------------------
(* Trainee days                                                              *)

\* A calculator whose total is its own, and rows of such.
Sound == {c \in Calculators : c.total = ComposeTotal(c)}
SoundRows(rows) == DOMAIN rows \subseteq Osiot /\ rows \in [DOMAIN rows -> Sound]

\* Rows of the officer are those of the application but for what was edited, changed or removed.
Excused(r) == r \in granter \cup altered
Follow(rows) ==
  /\ DOMAIN rows \subseteq DOMAIN calcsStored \cup altered
  /\ \A r \in DOMAIN rows \cap DOMAIN calcsStored : rows[r] = calcsStored[r] \/ Excused(r)

CalcInv ==
  /\ SoundRows(calcs) /\ SoundRows(calcsStored) /\ SoundRows(calcsOpened)
  /\ SoundRows(grants) /\ SoundRows(grantsStored)
  /\ calcsGiven \in BOOLEAN /\ grantsUnsaved \in BOOLEAN /\ granter \cup altered \subseteq Osiot
  /\ DOMAIN calcsStored \subseteq DOMAIN calcs \cup altered
  /\ Follow(grants) /\ Follow(grantsStored)
  /\ DOMAIN grants = DOMAIN calcsOpened
  /\ \A r \in DOMAIN grants : /\ grants[r].type = calcsOpened[r].type
                              /\ grants[r] = calcsOpened[r] \/ Excused(r)

WithTotal(d) == [d EXCEPT !.total = ComposeTotal(d)]

LEMMA TotalSet ==
  ASSUME NEW type \in {"op", "kp"}, NEW scope \in 0..MaxScope, NEW persons \in 0..MaxPersons, NEW total,
         NEW d, d = [type |-> type, scope |-> scope, persons |-> persons, total |-> total]
  PROVE  WithTotal(d) \in Sound /\ WithTotal(d).type = type
<1>1. PICK n : n = ComposeTotal(d)
  OBVIOUS
<1>2. n = (IF type = "op" THEN 45 ELSE 10) * scope * persons
  BY <1>1 DEF ComposeTotal
<1>3. n \in Nat
  <2>1. PICK k \in Nat : k = IF type = "op" THEN 45 ELSE 10
    OBVIOUS
  <2>2. scope \in Nat /\ persons \in Nat
    BY CalcAssumption
  <2>3. k * scope \in Nat
    BY <2>2
  <2>4. (k * scope) * persons \in Nat
    BY <2>2, <2>3
  <2> QED BY <1>2, <2>1, <2>4
<1>4. PICK e : e = [type |-> type, scope |-> scope, persons |-> persons, total |-> n]
  OBVIOUS
<1>5. WithTotal(d) = e
  BY <1>1, <1>4 DEF WithTotal
<1>6. e \in Calculators
  BY <1>3, <1>4 DEF Calculators
<1>7. e.total = ComposeTotal(e)
  BY <1>2, <1>4 DEF ComposeTotal
<1> QED BY <1>4, <1>5, <1>6, <1>7 DEF Sound

\* A change of a subfield leaves a calculator with the total of its row.
LEMMA ChangedIsSound ==
  ASSUME NEW c \in Calculators, NEW subfield \in DOMAIN SubfieldValues, NEW value \in SubfieldValues[subfield]
  PROVE  /\ Changed(c, subfield, value) \in Sound
         /\ subfield # "type" => Changed(c, subfield, value).type = c.type
         /\ subfield = "type" => Changed(c, subfield, value).type = value
<1>1. c = [type |-> c.type, scope |-> c.scope, persons |-> c.persons, total |-> c.total]
      /\ c.type \in {"op", "kp"} /\ c.scope \in 0..MaxScope /\ c.persons \in 0..MaxPersons
  BY DEF Calculators
<1>2. PICK d : d = [c EXCEPT ![subfield] = value]
  OBVIOUS
<1>3. Changed(c, subfield, value) = WithTotal(d)
  BY <1>2 DEF Changed, WithTotal
<1>4. CASE subfield = "type"
  <2>1. value \in {"op", "kp"}
    BY <1>4 DEF SubfieldValues
  <2>2. d = [type |-> value, scope |-> c.scope, persons |-> c.persons, total |-> c.total]
    BY <1>1, <1>2, <1>4
  <2> QED BY <1>1, <1>3, <1>4, <2>1, <2>2, TotalSet
<1>5. CASE subfield = "scope"
  <2>1. value \in 0..MaxScope
    BY <1>5 DEF SubfieldValues
  <2>2. d = [type |-> c.type, scope |-> value, persons |-> c.persons, total |-> c.total]
    BY <1>1, <1>2, <1>5
  <2> QED BY <1>1, <1>3, <1>5, <2>1, <2>2, TotalSet
<1>6. CASE subfield = "persons"
  <2>1. value \in 0..MaxPersons
    BY <1>6 DEF SubfieldValues
  <2>2. d = [type |-> c.type, scope |-> c.scope, persons |-> value, total |-> c.total]
    BY <1>1, <1>2, <1>6
  <2> QED BY <1>1, <1>3, <1>6, <2>1, <2>2, TotalSet
<1> QED BY <1>4, <1>5, <1>6 DEF SubfieldValues

LEMMA EmptyIsSound ==
  EmptySubfields \in Sound
<1>1. EmptySubfields \in Calculators
  BY CalcAssumption DEF EmptySubfields, Calculators
<1>2. 45 * 0 * 0 = 0
  OBVIOUS
<1>3. ComposeTotal(EmptySubfields) = 0
  BY <1>2 DEF ComposeTotal, EmptySubfields
<1> QED BY <1>1, <1>3 DEF Sound, EmptySubfields

\* The rows an opened application brings are those of the application, of its kinds, and what was
\* granted before but for what is excused.
LEMMA FollowedRows ==
  ASSUME NEW g, NEW a, SoundRows(g), SoundRows(a)
  PROVE  /\ SoundRows(Followed(g, a)) /\ DOMAIN Followed(g, a) = DOMAIN a
         /\ \A r \in DOMAIN a : /\ Followed(g, a)[r].type = a[r].type
                                /\ r \notin DOMAIN g => Followed(g, a)[r] = a[r]
                                /\ r \in DOMAIN g /\ g[r] = a[r] => Followed(g, a)[r] = a[r]
<1>1. DOMAIN Followed(g, a) = DOMAIN a /\ Followed(g, a) = [r \in DOMAIN a |-> Followed(g, a)[r]]
  BY DEF Followed
<1>2. ASSUME NEW r \in DOMAIN a
      PROVE  /\ Followed(g, a)[r] \in Sound /\ Followed(g, a)[r].type = a[r].type
             /\ r \notin DOMAIN g => Followed(g, a)[r] = a[r]
             /\ r \in DOMAIN g /\ g[r] = a[r] => Followed(g, a)[r] = a[r]
  <2>1. a[r] \in Sound /\ a[r].type \in {"op", "kp"}
    BY DEF SoundRows, Sound, Calculators
  <2>2. CASE r \notin DOMAIN g
    <3>1. Followed(g, a)[r] = a[r]
      BY <2>2 DEF Followed
    <3> QED BY <2>1, <2>2, <3>1
  <2>3. CASE r \in DOMAIN g /\ g[r].type # a[r].type
    <3>1. Followed(g, a)[r] = Changed(g[r], "type", a[r].type)
      BY <2>3 DEF Followed, Retyped
    <3>2. g[r] \in Calculators
      BY <2>3 DEF SoundRows, Sound
    <3>3. "type" \in DOMAIN SubfieldValues /\ a[r].type \in SubfieldValues["type"]
      BY <2>1 DEF SubfieldValues
    <3> QED BY <2>3, <3>1, <3>2, <3>3, ChangedIsSound
  <2>4. CASE r \in DOMAIN g /\ g[r].type = a[r].type
    <3>1. Followed(g, a)[r] = g[r]
      BY <2>4 DEF Followed
    <3> QED BY <2>4, <3>1 DEF SoundRows
  <2> QED BY <2>2, <2>3, <2>4
<1> QED BY <1>1, <1>2 DEF SoundRows

LEMMA RowSet ==
  ASSUME NEW rows, SoundRows(rows), NEW r \in Osiot, NEW c \in Sound
  PROVE  /\ SoundRows([s \in DOMAIN rows \cup {r} |-> IF s = r THEN c ELSE rows[s]])
         /\ r \in DOMAIN rows => SoundRows([rows EXCEPT ![r] = c])
BY DEF SoundRows

LEMMA CalcStarts ==
  ASSUME CalcInit
  PROVE  CalcInv
<1>1. \A t \in {"op", "kp"} :
        Changed(Changed([EmptySubfields EXCEPT !.type = t], "scope", 1), "persons", 1) \in Sound
  <2> TAKE t \in {"op", "kp"}
  <2>1. PICK c : c = [EmptySubfields EXCEPT !.type = t]
    OBVIOUS
  <2>2. c \in Calculators
    BY <2>1, CalcAssumption DEF EmptySubfields, Calculators
  <2>3. "scope" \in DOMAIN SubfieldValues /\ 1 \in SubfieldValues["scope"]
        /\ "persons" \in DOMAIN SubfieldValues /\ 1 \in SubfieldValues["persons"]
    BY CalcAssumption DEF SubfieldValues
  <2>4. PICK d : d = Changed(c, "scope", 1) /\ d \in Calculators
    BY <2>2, <2>3, ChangedIsSound DEF Sound
  <2>5. Changed(d, "persons", 1) \in Sound
    BY <2>3, <2>4, ChangedIsSound
  <2> QED BY <2>1, <2>4, <2>5
<1>2. PICK R \in SUBSET Osiot :
        calcs \in [R -> {Changed(Changed([EmptySubfields EXCEPT !.type = t], "scope", 1), "persons", 1) : t \in {"op", "kp"}}]
  BY DEF CalcInit, RowsOf
<1>3. SoundRows(calcs)
  <2>1. DOMAIN calcs = R /\ calcs = [r \in R |-> calcs[r]] /\ \A r \in R : calcs[r] \in Sound
    BY <1>1, <1>2
  <2> QED BY <2>1 DEF SoundRows
<1>4. SoundRows(NoRows) /\ DOMAIN NoRows = {}
  BY DEF SoundRows, NoRows
<1> QED BY <1>3, <1>4 DEF CalcInit, CalcInv, Follow

LEMMA CalcStep ==
  ASSUME CalcInv, [CalcNext]_calcVars
  PROVE  CalcInv'
<1>1. ASSUME NEW r \in Osiot, NEW subfield \in DOMAIN SubfieldValues, NEW value \in SubfieldValues[subfield],
             ChangeCalc(r, subfield, value)
      PROVE  CalcInv'
  <2>1. PICK c \in Sound : c = IF r \in DOMAIN calcs THEN calcs[r] ELSE EmptySubfields
    BY EmptyIsSound DEF CalcInv, SoundRows
  <2>2. PICK d \in Sound : d = Changed(c, subfield, value)
    BY ChangedIsSound DEF Sound
  <2>3. calcs' = [s \in DOMAIN calcs \cup {r} |-> IF s = r THEN d ELSE calcs[s]]
    BY <1>1, <2>1, <2>2 DEF ChangeCalc
  <2>4. SoundRows(calcs)' /\ DOMAIN calcs' = DOMAIN calcs \cup {r}
    BY <2>3, RowSet DEF CalcInv, SoundRows
  <2>5. UNCHANGED <<calcsStored, calcsGiven, calcsOpened, grants, grantsStored, grantsUnsaved, granter, altered>>
    BY <1>1 DEF ChangeCalc, GrantVars
  <2> QED BY <2>4, <2>5 DEF CalcInv, SoundRows, Follow, Excused
<1>2. ASSUME NEW r \in Osiot, RemoveCalc(r)
      PROVE  CalcInv'
  <2>1. calcs' = [s \in DOMAIN calcs \ {r} |-> calcs[s]] /\ altered' = altered \cup {r}
        /\ UNCHANGED <<calcsStored, calcsGiven, calcsOpened, grants, grantsStored, grantsUnsaved, granter>>
    BY <1>2 DEF RemoveCalc, GrantVars
  <2>2. SoundRows(calcs)'
    BY <2>1 DEF CalcInv, SoundRows
  <2>3. Follow(grants)' /\ Follow(grantsStored)'
    BY <2>1 DEF CalcInv, Follow, Excused
  <2> QED BY <2>1, <2>2, <2>3 DEF CalcInv, SoundRows, Excused
<1>3. ASSUME NEW submitted \in BOOLEAN, StoreCalcs(submitted)
      PROVE  CalcInv'
  <2>1. /\ calcsStored' = calcs /\ calcsGiven' = ~submitted
        /\ altered' = altered \cup {r \in DOMAIN calcs \cap DOMAIN calcsStored : calcs[r] # calcsStored[r]}
        /\ UNCHANGED <<calcs, calcsOpened, grants, grantsStored, grantsUnsaved, granter>>
    BY <1>3 DEF StoreCalcs, GrantVars
  <2>2. altered \subseteq altered' /\ granter \cup altered' \subseteq Osiot
    BY <2>1 DEF CalcInv, SoundRows
  <2>3. ASSUME NEW rows, Follow(rows)
        PROVE  /\ DOMAIN rows \subseteq DOMAIN calcs \cup altered'
               /\ \A r \in DOMAIN rows \cap DOMAIN calcs : rows[r] = calcs[r] \/ r \in granter \cup altered'
    <3>1. DOMAIN rows \subseteq DOMAIN calcs \cup altered'
      BY <2>1, <2>3 DEF Follow, CalcInv
    <3>2. ASSUME NEW r \in DOMAIN rows \cap DOMAIN calcs, r \notin granter \cup altered'
          PROVE  rows[r] = calcs[r]
      <4>1. r \in DOMAIN calcsStored
        BY <2>2, <2>3, <3>2 DEF Follow
      <4>2. rows[r] = calcsStored[r]
        BY <2>2, <2>3, <3>2, <4>1 DEF Follow, Excused
      <4> QED BY <2>1, <3>2, <4>1, <4>2
    <3> QED BY <3>1, <3>2
  <2>4. Follow(grants)' /\ Follow(grantsStored)'
    BY <2>1, <2>3 DEF CalcInv, Follow, Excused
  <2> QED BY <2>1, <2>2, <2>4 DEF CalcInv, SoundRows, Excused
<1>4. CASE OpenCalcs
  <2>1. /\ calcsOpened' = calcsStored /\ grants' = Followed(grantsStored, calcsStored) /\ grantsUnsaved' = FALSE
        /\ grantsStored' \in {grants, grantsStored}
        /\ UNCHANGED <<calcs, calcsStored, calcsGiven, granter, altered>>
    BY <1>4 DEF OpenCalcs
  <2>2. /\ SoundRows(grants') /\ DOMAIN grants' = DOMAIN calcsStored
        /\ \A r \in DOMAIN calcsStored : /\ grants'[r].type = calcsStored[r].type
                                         /\ r \notin DOMAIN grantsStored => grants'[r] = calcsStored[r]
                                         /\ r \in DOMAIN grantsStored /\ grantsStored[r] = calcsStored[r]
                                              => grants'[r] = calcsStored[r]
    BY <2>1, FollowedRows DEF CalcInv
  <2>3. \A r \in DOMAIN calcsStored : grants'[r] = calcsStored[r] \/ Excused(r)
    BY <2>2 DEF CalcInv, Follow
  <2>4. Follow(grants)' /\ Follow(grantsStored)'
    BY <2>1, <2>2, <2>3 DEF CalcInv, Follow, Excused
  <2> QED BY <2>1, <2>2, <2>3, <2>4 DEF CalcInv, SoundRows, Excused
<1>5. ASSUME NEW r \in Osiot, NEW subfield \in {"scope", "persons"}, NEW value \in SubfieldValues[subfield],
             GrantCalc(r, subfield, value)
      PROVE  CalcInv'
  <2>1. r \in DOMAIN grants /\ subfield \in DOMAIN SubfieldValues /\ grants[r] \in Calculators
    BY <1>5 DEF GrantCalc, SubfieldValues, CalcInv, SoundRows, Sound
  <2>2. PICK d \in Sound : d = Changed(grants[r], subfield, value) /\ d.type = grants[r].type
    BY <2>1, ChangedIsSound
  <2>3. /\ grants' = [grants EXCEPT ![r] = d] /\ grantsUnsaved' = TRUE /\ granter' = granter \cup {r}
        /\ UNCHANGED <<calcs, calcsStored, calcsGiven, calcsOpened, grantsStored, altered>>
    BY <1>5, <2>2 DEF GrantCalc
  <2>4. SoundRows(grants)' /\ DOMAIN grants' = DOMAIN grants /\ grants'[r] = d
        /\ \A s \in DOMAIN grants : s # r => grants'[s] = grants[s]
    BY <2>1, <2>3, RowSet DEF CalcInv, SoundRows
  <2>5. Follow(grants)' /\ Follow(grantsStored)'
    BY <2>3, <2>4 DEF CalcInv, Follow, Excused
  <2> QED BY <2>2, <2>3, <2>4, <2>5 DEF CalcInv, SoundRows, Excused
<1>6. CASE SaveGrants
  BY <1>6 DEF SaveGrants, CalcInv, SoundRows, Follow, Excused
<1>7. CASE ReturnCalcs
  BY <1>7 DEF ReturnCalcs, GrantVars, CalcInv, SoundRows, Follow, Excused
<1>8. CASE UNCHANGED calcVars
  BY <1>8 DEF calcVars, CalcInv, SoundRows, Follow, Excused
<1> QED BY <1>1, <1>2, <1>3, <1>4, <1>5, <1>6, <1>7, <1>8 DEF CalcNext

\* The inductive invariant of the trainee days: what is granted follows the application, but for the
\* rows that the officer edited and the applicant changed or removed.
THEOREM CalcInvariance == CalcSpec => []CalcInv
<1>1. CalcInit => CalcInv
  BY CalcStarts
<1>2. CalcInv /\ [CalcNext]_calcVars => CalcInv'
  BY CalcStep
<1> QED BY <1>1, <1>2, PTL DEF CalcSpec

\* Types of the trainee days, for any rows, scopes and persons.
THEOREM CalcTyping == CalcSpec => []CalcTypeOK
<1>1. CalcInv => CalcTypeOK
  BY DEF CalcInv, CalcTypeOK, SoundRows, Sound
<1> QED BY <1>1, CalcInvariance, PTL

\* Totals are those of their rows, and what is granted follows the application; for any rows,
\* scopes, persons and acts of both.
THEOREM DaysAgree == CalcSpec => []TraineeDaysAgree
<1>1. CalcInv => TraineeDaysAgree
  BY DEF CalcInv, TraineeDaysAgree, SoundRows, Sound, Excused
<1> QED BY <1>1, CalcInvariance, PTL
-----------------------------------------------------------------------------
(* The applicant's form and its saves                                        *)

FileKinds == {"put", "delete"}
PostKinds == Saves \cup FileKinds \cup {"get"}
Got == [version : Nat, values : Answers, submitted : BOOLEAN, refused : BOOLEAN]
PostOK(p) ==
  /\ p \in [id : {p.id}, kind : PostKinds, at : {"sent", "ok", "conflict", "not-allowed"}, got : Got,
            base : Nat, values : Answers]
  /\ p.at \notin {"sent", "ok"} => p.kind \in Saves
Hakemus == [version : Nat, values : Answers, submitted : BOOLEAN, refused : BOOLEAN,
            file : Nat, open : BOOLEAN]

LomakeTyped ==
  /\ page \in Page /\ given \in Answers /\ lomake \in Hakemus
  /\ tally \in [acts : Nat, faults : Nat, changes : Nat]
  /\ \A p \in posts : PostOK(p)

\* Posts of the page by their kinds and places.
SentSave(p)  == p.kind \in Saves /\ p.at = "sent"
SavedSave(p) == p.kind \in Saves /\ p.at = "ok"
OfFile(p)    == p.kind \in FileKinds
Clear(pg)    == ~pg.saveInProgress /\ pg.serverError = ""

\* What the server answered, it had: if it has no newer version, it still has it.
AnswersWereTrue ==
  \A p \in posts : p.at = "ok" /\ p.kind \in Saves \cup {"get"} =>
    /\ p.got.version <= lomake.version
    /\ p.got.version = lomake.version =>
         p.got.values = lomake.values /\ p.got.refused = lomake.refused

\* One request about a file at most; the page's file is the server's until it is answered.
FilesInv ==
  /\ page.file = page.values.file
  /\ \A p, q \in posts : OfFile(p) /\ OfFile(q) => p = q
  /\ \A p \in posts : OfFile(p) => p.at \in {"sent", "ok"} /\ (p.at = "ok" => lomake.file = p.values.file)
  /\ (\A p \in posts : OfFile(p) => p.at = "sent") => lomake.file = page.file

\* A save that the server took is newer than the page, and no other one can be taken before the
\* page has its answer; a page that neither saves nor shows an error awaits nothing.
SavesInv ==
  /\ page.version <= lomake.version
  /\ \A p \in posts : SentSave(p) => p.base <= page.version
  /\ \A p \in posts : SavedSave(p) => p.got.version = lomake.version /\ page.version < lomake.version
  /\ \A p, q \in posts : SavedSave(p) /\ SavedSave(q) => p = q
  /\ Clear(page) => \A p \in posts : SentSave(p) => p.base # lomake.version
  /\ Clear(page) /\ (\A p \in posts : p.kind \in Saves) => lomake.values = page.values

Unexcused == whyLost \cap Excuses = {}
NothingIsLost == Unexcused => page.values = given /\ FilesInv /\ SavesInv

\* One save at a time meets the version it was based on.
Causes == {"other", "overlap", "lost_answer", "refresh_crossed"}
NoConflict ==
  whyLost \cap Causes = {} =>
    /\ lomake.open /\ page.serverError # "conflict-save-error"
    /\ \A p, q \in posts : p.kind \in Saves /\ q.kind \in Saves => p = q
    /\ \A p \in posts : p.at \in {"sent", "ok"}
    /\ \A p \in posts : SentSave(p) => p.base = lomake.version /\ (p.kind = "refuse" => ~lomake.refused)
    /\ \A p \in posts : SavedSave(p) => p.got.version = lomake.version /\ p.got.refused = lomake.refused
    /\ (\A p \in posts : ~SavedSave(p)) => page.version = lomake.version /\ page.refused = lomake.refused

LomakeInv == LomakeTyped /\ AnswersWereTrue /\ NothingIsLost /\ NoConflict

\* What the properties tell of a page.
PageIs(q, values, saving, error, version, refused, file) ==
  /\ q \in Page /\ q.values = values /\ q.saveInProgress = saving /\ q.serverError = error
  /\ q.version = version /\ q.refused = refused /\ q.file = file

LEMMA PageShape ==
  ASSUME NEW p \in Page
  PROVE  p = [at |-> p.at, mode |-> p.mode, values |-> p.values, changes |-> p.changes,
              saveInProgress |-> p.saveInProgress, serverError |-> p.serverError, version |-> p.version,
              submitted |-> p.submitted, refused |-> p.refused, file |-> p.file, stored |-> p.stored,
              autoSave |-> p.autoSave]
BY DEF Page

LEMMA AutoSaving ==
  ASSUME NEW p \in Page
  PROVE  PageIs(StartAutoSave(p), p.values, TRUE, p.serverError, p.version, p.refused, p.file)
BY PageShape DEF Page, PageIs, StartAutoSave

LEMMA WithError ==
  ASSUME NEW p \in Page, NEW e \in Errors
  PROVE  PageIs(ServerError(p, e), p.values, FALSE, e, p.version, p.refused, p.file)
BY PageShape DEF Page, PageIs, ServerError

\* A new post of the page.
LEMMA PostIs ==
  ASSUME LomakeTyped, NEW k \in PostKinds
  PROVE  /\ PostOK(Post(k)) /\ Post(k).kind = k /\ Post(k).at = "sent"
         /\ k \in Saves => Post(k).base = page.version
<1>1. page.version \in Nat /\ page.values \in Answers /\ EmptyAnswers \in Answers /\ NoAnswer \in Got
  BY DEF LomakeTyped, Page, EmptyAnswers, Answers, NoAnswer, Got, NoAttachment
<1> QED BY <1>1 DEF Post, PostOK, PostKinds

\* Edits, and pages that change nothing of what is told.
LEMMA PageEdited ==
  ASSUME LomakeInv, UNCHANGED <<lomake, posts, whyLost>>,
         NEW v \in Answers, NEW b \in BOOLEAN,
         PageIs(page', v, b, page.serverError, page.version, page.refused, page.file),
         v.file = page.values.file,
         b \/ (b = page.saveInProgress /\ v = page.values),
         given' \in Answers, page.values = given => v = given',
         tally' \in [acts : Nat, faults : Nat, changes : Nat]
  PROVE  LomakeInv'
<1>1. LomakeTyped'
  BY DEF LomakeInv, LomakeTyped, PageIs
<1>2. AnswersWereTrue'
  BY DEF LomakeInv, AnswersWereTrue
<1>3. NothingIsLost'
  <2> SUFFICES ASSUME Unexcused' PROVE (page.values = given /\ FilesInv /\ SavesInv)'
    BY DEF NothingIsLost
  <2>0. page.values = given /\ FilesInv /\ SavesInv
    BY DEF LomakeInv, NothingIsLost, Unexcused
  <2>1. page'.values = given'
    BY <2>0 DEF PageIs
  <2>2. FilesInv'
    BY <2>0 DEF FilesInv, PageIs
  <2>3. SavesInv'
    BY <2>0 DEF SavesInv, PageIs, Clear
  <2> QED BY <2>1, <2>2, <2>3
<1>4. NoConflict'
  BY DEF LomakeInv, NoConflict, PageIs
<1> QED BY <1>1, <1>2, <1>3, <1>4 DEF LomakeInv

LEMMA ActTyped ==
  ASSUME LomakeTyped, Act
  PROVE  tally' \in [acts : Nat, faults : Nat, changes : Nat]
BY DEF LomakeTyped, Act

LEMMA Updates ==
  ASSUME LomakeInv, OnUpdateField
  PROVE  LomakeInv'
<1>1. tally' \in [acts : Nat, faults : Nat, changes : Nat] /\ N \in Nat /\ page \in Page /\ given \in Answers
  BY ActTyped DEF LomakeInv, LomakeTyped, OnUpdateField, N
<1>2. PICK b \in BOOLEAN, n \in Nat : b = TRUE /\ n = N
  BY <1>1
<1>3. PICK q : q = [page EXCEPT !.values.text = n, !.changes = b, !.stored = b]
  OBVIOUS
<1>4. PageIs(q, [page.values EXCEPT !.text = n], page.saveInProgress, page.serverError, page.version, page.refused, page.file)
  BY <1>1, <1>3, PageShape DEF Page, PageIs, Answers
<1>5. page' = StartAutoSave(q) /\ given' = [given EXCEPT !.text = n]
  BY <1>2, <1>3 DEF OnUpdateField
<1>6. PICK v \in Answers : v = [page.values EXCEPT !.text = n] /\ v.file = page.values.file
  <2>1. page.values \in Answers
    BY <1>1 DEF Page
  <2>2. PICK v : v = [text |-> n, rows |-> page.values.rows, file |-> page.values.file]
    OBVIOUS
  <2>3. v \in Answers /\ v = [page.values EXCEPT !.text = n] /\ v.file = page.values.file
    BY <2>1, <2>2 DEF Answers
  <2> QED BY <2>3
<1>7. PageIs(page', v, TRUE, page.serverError, page.version, page.refused, page.file)
  <2>1. q \in Page BY <1>4 DEF PageIs
  <2> QED BY <1>4, <1>5, <1>6, <2>1, AutoSaving DEF PageIs
<1>8. given' \in Answers /\ (page.values = given => v = given')
  BY <1>1, <1>5, <1>6 DEF Answers
<1> QED BY <1>1, <1>6, <1>7, <1>8, PageEdited DEF OnUpdateField

LEMMA Removes ==
  ASSUME LomakeInv, NEW r \in Rows, OnRemoveField(r)
  PROVE  LomakeInv'
<1>1. tally' \in [acts : Nat, faults : Nat, changes : Nat] /\ page \in Page /\ given \in Answers
  BY ActTyped DEF LomakeInv, LomakeTyped, OnRemoveField
<1>2. PICK b \in BOOLEAN : b = TRUE
  OBVIOUS
<1>3. PICK q : q = [page EXCEPT !.values.rows = @ \ {r}, !.changes = b]
  OBVIOUS
<1>4. PageIs(q, [page.values EXCEPT !.rows = @ \ {r}], page.saveInProgress, page.serverError, page.version, page.refused, page.file)
  BY <1>1, <1>3, PageShape DEF Page, PageIs, Answers
<1>5. page' = StartAutoSave(q) /\ given' = [given EXCEPT !.rows = @ \ {r}]
  BY <1>2, <1>3 DEF OnRemoveField
<1>6. PICK v \in Answers : v = [page.values EXCEPT !.rows = @ \ {r}] /\ v.file = page.values.file
  <2>1. page.values \in Answers
    BY <1>1 DEF Page
  <2>2. PICK v : v = [text |-> page.values.text, rows |-> page.values.rows \ {r}, file |-> page.values.file]
    OBVIOUS
  <2>3. v \in Answers /\ v = [page.values EXCEPT !.rows = @ \ {r}] /\ v.file = page.values.file
    BY <2>1, <2>2 DEF Answers
  <2> QED BY <2>3
<1>7. PageIs(page', v, TRUE, page.serverError, page.version, page.refused, page.file)
  <2>1. q \in Page BY <1>4 DEF PageIs
  <2> QED BY <1>4, <1>5, <1>6, <2>1, AutoSaving DEF PageIs
<1>8. given' \in Answers /\ (page.values = given => v = given')
  BY <1>1, <1>5, <1>6 DEF Answers
<1> QED BY <1>1, <1>6, <1>7, <1>8, PageEdited DEF OnRemoveField

\* A save, a submission or a refusal is posted.
LEMMA SavePosted ==
  ASSUME LomakeInv, NEW k \in Saves, posts' = posts \cup {Post(k)},
         PageIs(page', page.values, TRUE, page.serverError, page.version, page.refused, page.file),
         IF Saving THEN Blame("overlap") ELSE UNCHANGED whyLost,
         k = "refuse" => ~page.refused,
         UNCHANGED <<lomake, given>>,
         tally' \in [acts : Nat, faults : Nat, changes : Nat]
  PROVE  LomakeInv'
<1>1. PICK n : /\ n = Post(k) /\ PostOK(n) /\ n.kind = k /\ n.at = "sent" /\ n.base = page.version
  BY PostIs DEF LomakeInv, PostKinds
<1>2. posts' = posts \cup {n}
  BY <1>1
<1>3. LomakeTyped'
  BY <1>1, <1>2 DEF LomakeInv, LomakeTyped, PageIs
<1>4. AnswersWereTrue'
  BY <1>1, <1>2 DEF LomakeInv, AnswersWereTrue
<1>5. NothingIsLost'
  <2> SUFFICES ASSUME Unexcused' PROVE (page.values = given /\ FilesInv /\ SavesInv)'
    BY DEF NothingIsLost
  <2>0. page.values = given /\ FilesInv /\ SavesInv
    BY DEF LomakeInv, NothingIsLost, Unexcused, Blame
  <2>1. page'.values = given'
    BY <2>0 DEF PageIs
  <2>2. FilesInv'
    BY <1>1, <1>2, <2>0 DEF FilesInv, PageIs, OfFile, FileKinds, Saves
  <2>3. SavesInv'
    <3>1. page.version \in Nat
      BY DEF LomakeInv, LomakeTyped, Page
    <3>2. ~Clear(page')
      BY DEF PageIs, Clear
    <3>3. page'.version = page.version /\ UNCHANGED lomake
      BY DEF PageIs
    <3> QED BY <1>1, <1>2, <2>0, <3>1, <3>2, <3>3 DEF SavesInv, SentSave, SavedSave
  <2> QED BY <2>1, <2>2, <2>3
<1>6. NoConflict'
  <2> SUFFICES ASSUME whyLost' \cap Causes = {} PROVE NoConflict'
    BY DEF NoConflict
  <2>1. whyLost \cap Causes = {} /\ ~Saving
    BY DEF Blame, Causes
  <2>2. /\ lomake.open /\ page.serverError # "conflict-save-error"
        /\ \A p, q \in posts : p.kind \in Saves /\ q.kind \in Saves => p = q
        /\ \A p \in posts : p.at \in {"sent", "ok"}
        /\ page.version = lomake.version /\ page.refused = lomake.refused
    BY <2>1 DEF LomakeInv, NoConflict, Saving, SavedSave
  <2>3. \A p \in posts : p.kind \notin Saves
    BY <2>1 DEF Saving
  <2> QED BY <1>1, <1>2, <2>2, <2>3 DEF NoConflict, PageIs, SentSave, SavedSave
<1> QED BY <1>3, <1>4, <1>5, <1>6 DEF LomakeInv

LEMMA SaveStarted ==
  ASSUME LomakeInv, NEW k \in Saves, UpdateOld(k), k = "refuse" => ~page.refused,
         UNCHANGED <<lomake, given>>, tally' \in [acts : Nat, faults : Nat, changes : Nat]
  PROVE  LomakeInv'
<1>1. page \in Page
  BY DEF LomakeInv, LomakeTyped
<1>2. PICK b, a \in BOOLEAN : b = TRUE /\ a = (IF k = "save" THEN FALSE ELSE page.autoSave)
  BY <1>1 DEF Page
<1>3. page' = [page EXCEPT !.saveInProgress = b, !.autoSave = a]
  BY <1>2 DEF UpdateOld
<1>4. PageIs(page', page.values, b, page.serverError, page.version, page.refused, page.file)
  BY <1>1, <1>2, <1>3, PageShape DEF Page, PageIs
<1> QED BY <1>2, <1>4, SavePosted DEF UpdateOld

LEMMA Submits ==
  ASSUME LomakeInv, OnSubmit
  PROVE  LomakeInv'
BY SaveStarted, ActTyped DEF LomakeInv, OnSubmit, Saves

LEMMA RefusesIt ==
  ASSUME LomakeInv, OnRefuseApplication
  PROVE  LomakeInv'
BY SaveStarted, ActTyped DEF LomakeInv, OnRefuseApplication, Saves

LEMMA SavesItself ==
  ASSUME LomakeInv, OnSave
  PROVE  LomakeInv'
<1>1. page \in Page /\ given \in Answers /\ tally' \in [acts : Nat, faults : Nat, changes : Nat]
  BY DEF LomakeInv, LomakeTyped, OnSave
<1>2. CASE page.changes
  BY <1>1, <1>2, SaveStarted DEF OnSave, Saves
<1>3. CASE ~page.changes
  <2>1. PICK b \in BOOLEAN : b = FALSE
    OBVIOUS
  <2>2. page' = [page EXCEPT !.autoSave = b] /\ UNCHANGED <<lomake, posts, whyLost, given>>
    BY <1>3, <2>1 DEF OnSave
  <2>3. PageIs(page', page.values, page.saveInProgress, page.serverError, page.version, page.refused, page.file)
    BY <1>1, <2>2, PageShape DEF Page, PageIs
  <2>4. page.values \in Answers /\ page.saveInProgress \in BOOLEAN
    BY <1>1 DEF Page
  <2> QED BY <1>1, <2>2, <2>3, <2>4, PageEdited
<1> QED BY <1>2, <1>3

LEMMA Unloads ==
  ASSUME LomakeInv, NEW stays \in BOOLEAN, OnBeforeUnload(stays)
  PROVE  LomakeInv'
<1>1. page \in Page /\ given \in Answers /\ tally' \in [acts : Nat, faults : Nat, changes : Nat]
  BY ActTyped DEF LomakeInv, LomakeTyped, OnBeforeUnload
<1>2. PICK a : a = (IF ~stays THEN "left" ELSE IF page.changes THEN page.at ELSE "dead")
               /\ a \in {"open", "dead", "left"}
  BY <1>1 DEF Page
<1>3. PICK b \in BOOLEAN : b = (page.saveInProgress \/ page.changes)
  OBVIOUS
<1>4. page' = [page EXCEPT !.at = a, !.saveInProgress = b] /\ UNCHANGED <<lomake, given>>
  BY <1>2, <1>3 DEF OnBeforeUnload
<1>5. PageIs(page', page.values, b, page.serverError, page.version, page.refused, page.file)
  BY <1>1, <1>2, <1>3, <1>4, PageShape DEF Page, PageIs
<1>6. page.values \in Answers
  BY <1>1 DEF Page
<1>7. CASE page.changes
  <2>1. b = TRUE
    BY <1>3, <1>7
  <2>2. "save" \in Saves /\ "save" # "refuse"
    BY DEF Saves
  <2>3. posts' = posts \cup {Post("save")} /\ (IF Saving THEN Blame("overlap") ELSE UNCHANGED whyLost)
    BY <1>7 DEF OnBeforeUnload
  <2> QED BY <1>1, <1>4, <1>5, <2>1, <2>2, <2>3, SavePosted
<1>8. CASE ~page.changes
  <2>1. UNCHANGED <<posts, whyLost>> /\ b = page.saveInProgress
    BY <1>1, <1>3, <1>8 DEF OnBeforeUnload, Page
  <2> QED BY <1>1, <1>4, <1>5, <1>6, <2>1, PageEdited
<1> QED BY <1>7, <1>8

\* A request about the file is posted.
LEMMA FilePosted ==
  ASSUME LomakeInv, NEW k \in FileKinds, NEW f \in Nat, AttachmentRequest(k, f),
         UNCHANGED <<lomake, page, given>>, tally' \in [acts : Nat, faults : Nat, changes : Nat]
  PROVE  LomakeInv'
<1>1. PICK o : /\ o = Post(k) /\ PostOK(o) /\ o.kind = k /\ o.at = "sent"
  BY PostIs DEF LomakeInv, PostKinds
<1>2. PICK n : n = [o EXCEPT !.values.file = f]
  OBVIOUS
<1>3. PostOK(n) /\ n.kind = k /\ n.at = "sent"
  <2>1. PICK v : v = [o.values EXCEPT !.file = f]
    OBVIOUS
  <2>2. v \in Answers
    BY <1>1, <2>1 DEF PostOK, Answers
  <2>3. n = [o EXCEPT !.values = v]
    BY <1>2, <2>1
  <2> QED BY <1>1, <2>2, <2>3 DEF PostOK
<1>4. posts' = posts \cup {n}
  BY <1>1, <1>2 DEF AttachmentRequest
<1>5. LomakeTyped'
  BY <1>3, <1>4 DEF LomakeInv, LomakeTyped
<1>6. AnswersWereTrue'
  BY <1>3, <1>4 DEF LomakeInv, AnswersWereTrue
<1>7. n.kind \notin Saves \cup {"get"} /\ OfFile(n)
  BY <1>3 DEF FileKinds, Saves, OfFile
<1>8. NothingIsLost'
  <2> SUFFICES ASSUME Unexcused' PROVE (page.values = given /\ FilesInv /\ SavesInv)'
    BY DEF NothingIsLost
  <2>0. page.values = given /\ FilesInv /\ SavesInv /\ \A p \in posts : ~OfFile(p)
    BY DEF LomakeInv, NothingIsLost, Unexcused, Blame, Excuses, AttachmentRequest, OfFile, FileKinds
  <2>1. FilesInv'
    BY <1>3, <1>4, <1>7, <2>0 DEF FilesInv, OfFile
  <2>2. SavesInv'
    BY <1>4, <1>7, <2>0 DEF SavesInv, SentSave, SavedSave
  <2> QED BY <2>0, <2>1, <2>2
<1>9. NoConflict'
  <2> SUFFICES ASSUME whyLost' \cap Causes = {} PROVE NoConflict'
    BY DEF NoConflict
  <2>1. whyLost \cap Causes = {}
    BY DEF AttachmentRequest, Blame
  <2> QED BY <1>3, <1>4, <1>7, <2>1 DEF LomakeInv, NoConflict, SentSave, SavedSave
<1> QED BY <1>5, <1>6, <1>8, <1>9 DEF LomakeInv

LEMMA FileRequested ==
  ASSUME LomakeInv, OnUploadAttachment \/ OnRemoveAttachment
  PROVE  LomakeInv'
<1>1. N \in Nat /\ NoAttachment \in Nat /\ {"put", "delete"} \subseteq FileKinds
  BY DEF LomakeInv, LomakeTyped, N, NoAttachment, FileKinds
<1>2. CASE OnUploadAttachment
  BY <1>1, <1>2, FilePosted, ActTyped DEF OnUploadAttachment, LomakeInv
<1>3. CASE OnRemoveAttachment
  BY <1>1, <1>3, FilePosted, ActTyped DEF OnRemoveAttachment, LomakeInv
<1> QED BY <1>2, <1>3

\* An answer tells what the server has.
LEMMA AnswerIs ==
  ASSUME NEW p, PostOK(p), NEW h \in Hakemus, Answer(p, h)
  PROVE  \E n : /\ PostOK(n) /\ n.kind = p.kind /\ n.at = "ok"
                /\ n.got.version = h.version /\ n.got.values = h.values /\ n.got.refused = h.refused
                /\ posts' = (posts \ {p}) \cup {n}
<1>1. PICK g : g = [version |-> h.version, values |-> h.values, submitted |-> h.submitted,
                    refused |-> h.refused]
  OBVIOUS
<1>2. g \in Got
  BY <1>1 DEF Got, Hakemus
<1>3. PICK e : e \in Answers /\ e = EmptyAnswers
  BY DEF EmptyAnswers, Answers, NoAttachment
<1>4. PICK n : n = [p EXCEPT !.at = "ok", !.base = 0, !.values = e, !.got = g]
  OBVIOUS
<1>5. posts' = (posts \ {p}) \cup {n}
  BY <1>1, <1>3, <1>4 DEF Answer, Replaced
<1>6. PostOK(n) /\ n.kind = p.kind /\ n.at = "ok" /\ n.got = g
  BY <1>2, <1>3, <1>4 DEF PostOK
<1>7. g.version = h.version /\ g.values = h.values /\ g.refused = h.refused
  BY <1>1
<1> QED BY <1>5, <1>6, <1>7

LEMMA NextVersionIs ==
  ASSUME lomake \in Hakemus, NEW p, PostOK(p)
  PROVE  /\ NextVersion(p) \in Hakemus
         /\ NextVersion(p).version = lomake.version + 1
         /\ NextVersion(p).file = lomake.file /\ NextVersion(p).open = lomake.open
<1>1. p.values \in Answers
  BY DEF PostOK
<1>2. PICK v : v \in Answers /\ v = (IF p.kind = "refuse" THEN lomake.values ELSE p.values)
  BY <1>1 DEF Hakemus
<1>3. PICK s \in BOOLEAN : s = (lomake.submitted \/ p.kind = "submit")
  OBVIOUS
<1>4. PICK r \in BOOLEAN : r = (lomake.refused \/ p.kind = "refuse")
  OBVIOUS
<1>5. PICK m \in Nat : m = lomake.version + 1
  BY DEF Hakemus
<1>6. NextVersion(p) = [lomake EXCEPT !.version = m, !.values = v, !.submitted = s, !.refused = r]
  BY <1>2, <1>3, <1>4, <1>5 DEF NextVersion
<1>7. PICK h : h = [lomake EXCEPT !.version = m, !.values = v, !.submitted = s, !.refused = r]
  OBVIOUS
<1>8. h \in Hakemus /\ h.version = m /\ h.file = lomake.file /\ h.open = lomake.open
  BY <1>2, <1>7 DEF Hakemus
<1> QED BY <1>5, <1>6, <1>7, <1>8

LEMMA Takes ==
  ASSUME LomakeInv, NEW p \in posts, OnHakemusUpdate(p),
         p.base = lomake.version, ~(p.kind = "refuse" /\ lomake.refused)
  PROVE  LomakeInv'
<1>1. /\ page \in Page /\ lomake \in Hakemus /\ PostOK(p) /\ SentSave(p)
      /\ UNCHANGED <<page, tally, given, whyLost>>
  BY DEF LomakeInv, LomakeTyped, OnHakemusUpdate, SentSave
<1>2. lomake' = NextVersion(p) /\ Answer(p, NextVersion(p))
  BY DEF OnHakemusUpdate
<1>3. /\ lomake' \in Hakemus /\ lomake'.version = lomake.version + 1
      /\ lomake'.file = lomake.file /\ lomake'.open = lomake.open
  BY <1>1, <1>2, NextVersionIs
<1>4. PICK n : /\ PostOK(n) /\ n.kind = p.kind /\ n.at = "ok"
               /\ n.got.version = lomake'.version /\ n.got.values = lomake'.values
               /\ n.got.refused = lomake'.refused
               /\ posts' = (posts \ {p}) \cup {n}
  BY <1>1, <1>2, <1>3, AnswerIs
<1>5. lomake.version \in Nat /\ page.version \in Nat /\ \A q \in posts : q.got.version \in Nat /\ q.base \in Nat
  BY <1>1 DEF Hakemus, Page, LomakeInv, LomakeTyped, PostOK, Got
<1>6. n.kind \in Saves /\ n.kind \notin FileKinds
  BY <1>1, <1>4 DEF SentSave, Saves, FileKinds
<1>7. LomakeTyped'
  BY <1>1, <1>3, <1>4 DEF LomakeInv, LomakeTyped
<1>8. AnswersWereTrue'
  <2> SUFFICES ASSUME NEW q \in posts', q.at = "ok", q.kind \in Saves \cup {"get"}
               PROVE  /\ q.got.version <= lomake'.version
                      /\ q.got.version = lomake'.version =>
                           q.got.values = lomake'.values /\ q.got.refused = lomake'.refused
    BY DEF AnswersWereTrue
  <2>1. CASE q = n
    BY <1>3, <1>4, <1>5, <2>1
  <2>2. CASE q \in posts
    <3>1. q.got.version <= lomake.version
      BY <2>2 DEF LomakeInv, AnswersWereTrue
    <3> QED BY <1>3, <1>5, <2>2, <3>1
  <2> QED BY <1>4, <2>1, <2>2
<1>9. NothingIsLost'
  <2> SUFFICES ASSUME Unexcused' PROVE (page.values = given /\ FilesInv /\ SavesInv)'
    BY DEF NothingIsLost
  <2>0. page.values = given /\ FilesInv /\ SavesInv
    BY <1>1 DEF LomakeInv, NothingIsLost, Unexcused
  <2>1. FilesInv'
    BY <1>1, <1>3, <1>4, <1>6, <2>0 DEF FilesInv, OfFile, SentSave, Saves, FileKinds
  <2>2. page.version = lomake.version /\ ~Clear(page)
    BY <1>1, <1>5, <2>0 DEF SavesInv
  <2>3. \A q \in posts : ~SavedSave(q)
    BY <1>5, <2>0, <2>2 DEF SavesInv
  <2>4. SavesInv'
    BY <1>1, <1>3, <1>4, <1>5, <2>0, <2>2, <2>3 DEF SavesInv, SentSave, SavedSave
  <2> QED BY <1>1, <2>0, <2>1, <2>4
<1>10. NoConflict'
  <2> SUFFICES ASSUME whyLost' \cap Causes = {} PROVE NoConflict'
    BY DEF NoConflict
  <2>1. /\ lomake.open /\ page.serverError # "conflict-save-error"
        /\ \A q \in posts : q.kind \in Saves => p = q
        /\ \A q \in posts : q.at \in {"sent", "ok"}
    BY <1>1 DEF LomakeInv, NoConflict, SentSave
  <2> QED BY <1>1, <1>3, <1>4, <1>6, <2>1 DEF NoConflict, SentSave, SavedSave
<1> QED BY <1>7, <1>8, <1>9, <1>10 DEF LomakeInv

\* A save is not taken: it met another, or the grant is closed.
LEMMA TurnsDown ==
  ASSUME LomakeInv, NEW p \in posts, SentSave(p), UNCHANGED <<lomake, page, tally, given, whyLost>>,
         NEW n, PostOK(n), n.kind = p.kind, n.at \in {"conflict", "not-allowed"},
         posts' = (posts \ {p}) \cup {n},
         ~lomake.open \/ p.base # lomake.version \/ (p.kind = "refuse" /\ lomake.refused)
  PROVE  LomakeInv'
<1>1. n.kind \in Saves /\ n.kind \notin FileKinds /\ p.kind \notin FileKinds
  BY DEF SentSave, Saves, FileKinds
<1>2. LomakeTyped'
  BY DEF LomakeInv, LomakeTyped
<1>3. AnswersWereTrue'
  BY DEF LomakeInv, AnswersWereTrue
<1>4. NothingIsLost'
  <2> SUFFICES ASSUME Unexcused' PROVE (page.values = given /\ FilesInv /\ SavesInv)'
    BY DEF NothingIsLost
  <2>0. page.values = given /\ FilesInv /\ SavesInv
    BY DEF LomakeInv, NothingIsLost, Unexcused
  <2>1. FilesInv'
    BY <1>1, <2>0 DEF FilesInv, OfFile
  <2>2. SavesInv'
    BY <1>1, <2>0 DEF SavesInv, SentSave, SavedSave
  <2> QED BY <2>0, <2>1, <2>2
<1>5. NoConflict'
  BY DEF LomakeInv, NoConflict, SentSave
<1> QED BY <1>2, <1>3, <1>4, <1>5 DEF LomakeInv

LEMMA Conflicts ==
  ASSUME LomakeInv, NEW p \in posts, OnHakemusUpdate(p),
         ~(p.base = lomake.version /\ ~(p.kind = "refuse" /\ lomake.refused))
  PROVE  LomakeInv'
<1>1. PostOK(p) /\ SentSave(p) /\ UNCHANGED <<lomake, page, tally, given, whyLost>>
  BY DEF LomakeInv, LomakeTyped, OnHakemusUpdate, SentSave
<1>2. PICK e : e \in Answers /\ e = EmptyAnswers
  BY DEF EmptyAnswers, Answers, NoAttachment
<1>3. PICK n : n = [p EXCEPT !.at = "conflict", !.values = e]
  OBVIOUS
<1>4. PostOK(n) /\ n.kind = p.kind /\ n.at = "conflict"
  BY <1>1, <1>2, <1>3 DEF PostOK, SentSave
<1>5. posts' = (posts \ {p}) \cup {n}
  BY <1>2, <1>3 DEF OnHakemusUpdate, Replaced
<1> QED BY <1>1, <1>4, <1>5, TurnsDown

LEMMA IsClosed ==
  ASSUME LomakeInv, NEW p \in posts, SaveNotAllowed(p)
  PROVE  LomakeInv'
<1>1. PostOK(p) /\ SentSave(p) /\ UNCHANGED <<lomake, page, tally, given, whyLost>> /\ ~lomake.open
  BY DEF LomakeInv, LomakeTyped, SaveNotAllowed, SentSave
<1>2. PICK n : n = [p EXCEPT !.at = "not-allowed"]
  OBVIOUS
<1>3. PostOK(n) /\ n.kind = p.kind /\ n.at = "not-allowed"
  BY <1>1, <1>2 DEF PostOK, SentSave
<1>4. posts' = (posts \ {p}) \cup {n}
  BY <1>2 DEF SaveNotAllowed, Replaced
<1> QED BY <1>1, <1>3, <1>4, TurnsDown

LEMMA FileStored ==
  ASSUME LomakeInv, NEW p \in posts, OnAttachment(p)
  PROVE  LomakeInv'
<1>1. /\ PostOK(p) /\ OfFile(p) /\ p.at = "sent" /\ lomake \in Hakemus
      /\ UNCHANGED <<page, tally, given, whyLost>>
  BY DEF LomakeInv, LomakeTyped, OnAttachment, OfFile, FileKinds
<1>2. p.values.file \in Nat
  BY <1>1 DEF PostOK, Answers
<1>3. /\ lomake' \in Hakemus /\ lomake'.file = p.values.file /\ lomake'.version = lomake.version
      /\ lomake'.values = lomake.values /\ lomake'.refused = lomake.refused /\ lomake'.open = lomake.open
  BY <1>1, <1>2 DEF OnAttachment, Hakemus
<1>4. PICK n : n = [p EXCEPT !.at = "ok"]
  OBVIOUS
<1>5. PostOK(n) /\ n.kind = p.kind /\ n.at = "ok" /\ n.values = p.values
  BY <1>1, <1>4 DEF PostOK
<1>6. posts' = (posts \ {p}) \cup {n}
  BY <1>4 DEF OnAttachment, Replaced
<1>7. OfFile(n) /\ n.kind \notin Saves \cup {"get"}
  BY <1>1, <1>5 DEF OfFile, FileKinds, Saves
<1>8. LomakeTyped'
  BY <1>1, <1>3, <1>5, <1>6 DEF LomakeInv, LomakeTyped
<1>9. AnswersWereTrue'
  BY <1>3, <1>6, <1>7 DEF LomakeInv, AnswersWereTrue
<1>10. NothingIsLost'
  <2> SUFFICES ASSUME Unexcused' PROVE (page.values = given /\ FilesInv /\ SavesInv)'
    BY DEF NothingIsLost
  <2>0. page.values = given /\ FilesInv /\ SavesInv
    BY <1>1 DEF LomakeInv, NothingIsLost, Unexcused
  <2>1. \A q \in posts : OfFile(q) => q = p
    BY <1>1, <2>0 DEF FilesInv
  <2>2. FilesInv'
    BY <1>1, <1>3, <1>5, <1>6, <1>7, <2>0, <2>1 DEF FilesInv
  <2>3. SavesInv'
    BY <1>1, <1>3, <1>6, <1>7, <2>0 DEF SavesInv, SentSave, SavedSave
  <2> QED BY <1>1, <2>0, <2>2, <2>3
<1>11. NoConflict'
  BY <1>1, <1>3, <1>5, <1>6, <1>7 DEF LomakeInv, NoConflict, SentSave, SavedSave
<1> QED BY <1>8, <1>9, <1>10, <1>11 DEF LomakeInv

LEMMA Fetched ==
  ASSUME LomakeInv, NEW p \in posts, OnGetHakemus(p)
  PROVE  LomakeInv'
<1>1. PostOK(p) /\ p.kind = "get" /\ lomake \in Hakemus /\ UNCHANGED <<lomake, page, tally, given, whyLost>>
  BY DEF LomakeInv, LomakeTyped, OnGetHakemus
<1>2. PICK n : /\ PostOK(n) /\ n.kind = p.kind /\ n.at = "ok"
               /\ n.got.version = lomake.version /\ n.got.values = lomake.values
               /\ n.got.refused = lomake.refused
               /\ posts' = (posts \ {p}) \cup {n}
  BY <1>1, AnswerIs DEF OnGetHakemus
<1>3. n.kind \notin Saves /\ p.kind \notin Saves /\ ~OfFile(n) /\ ~OfFile(p)
  BY <1>1, <1>2 DEF Saves, OfFile, FileKinds
<1>4. LomakeTyped'
  BY <1>1, <1>2 DEF LomakeInv, LomakeTyped
<1>5. AnswersWereTrue'
  <2>1. lomake.version \in Nat
    BY <1>1 DEF Hakemus
  <2> QED BY <1>1, <1>2, <2>1 DEF LomakeInv, AnswersWereTrue
<1>6. NothingIsLost'
  <2> SUFFICES ASSUME Unexcused' PROVE (page.values = given /\ FilesInv /\ SavesInv)'
    BY DEF NothingIsLost
  <2>0. page.values = given /\ FilesInv /\ SavesInv
    BY <1>1 DEF LomakeInv, NothingIsLost, Unexcused
  <2>1. FilesInv'
    BY <1>1, <1>2, <1>3, <2>0 DEF FilesInv
  <2>2. SavesInv'
    BY <1>1, <1>2, <1>3, <2>0 DEF SavesInv, SentSave, SavedSave
  <2> QED BY <1>1, <2>0, <2>1, <2>2
<1>7. NoConflict'
  BY <1>1, <1>2, <1>3 DEF LomakeInv, NoConflict, SentSave, SavedSave
<1> QED BY <1>4, <1>5, <1>6, <1>7 DEF LomakeInv

LEMMA OthersSave ==
  ASSUME LomakeInv, OtherSession
  PROVE  LomakeInv'
<1>1. "other" \in whyLost' /\ UNCHANGED <<page, posts, given>>
  BY DEF OtherSession, Blame
<1>2. NothingIsLost' /\ NoConflict'
  BY <1>1 DEF NothingIsLost, NoConflict, Unexcused, Excuses, Causes
<1>3. tally' \in [acts : Nat, faults : Nat, changes : Nat] /\ lomake \in Hakemus /\ MaxActs + 1 \in Nat
  BY LomakeAssumption DEF LomakeInv, LomakeTyped, OtherSession
<1>4. PICK m \in Nat, b \in BOOLEAN : m = MaxActs + 1 /\ b = FALSE
  BY <1>3
<1>5. CASE lomake' = [lomake EXCEPT !.version = @ + 1, !.values.text = m]
  <2>0. PICK v \in Answers : v = [lomake.values EXCEPT !.text = m]
    BY <1>3 DEF Hakemus, Answers
  <2>4. PICK k \in Nat : k = lomake.version + 1 /\ lomake.version \in Nat
    BY <1>3 DEF Hakemus
  <2>5. lomake' = [lomake EXCEPT !.version = k, !.values = v]
    BY <1>5, <2>0, <2>4
  <2>6. lomake' \in Hakemus /\ lomake'.version = k
    BY <1>3, <2>0, <2>5 DEF Hakemus
  <2>1. lomake' \in Hakemus /\ lomake'.version = lomake.version + 1 /\ lomake.version \in Nat
    BY <2>4, <2>6
  <2>2. \A q \in posts : q.got.version \in Nat
    BY DEF LomakeInv, LomakeTyped, PostOK, Got
  <2>3. AnswersWereTrue'
    BY <1>1, <2>1, <2>2 DEF LomakeInv, AnswersWereTrue
  <2> QED BY <1>1, <1>2, <1>3, <2>1, <2>3 DEF LomakeInv, LomakeTyped
<1>6. CASE lomake' = [lomake EXCEPT !.open = b]
  <2>1. lomake' \in Hakemus /\ lomake'.version = lomake.version /\ lomake'.values = lomake.values /\ lomake'.refused = lomake.refused
    BY <1>3, <1>4, <1>6 DEF Hakemus
  <2>2. AnswersWereTrue'
    BY <1>1, <2>1 DEF LomakeInv, AnswersWereTrue
  <2> QED BY <1>1, <1>2, <1>3, <2>1, <2>2 DEF LomakeInv, LomakeTyped
<1> QED BY <1>4, <1>5, <1>6 DEF OtherSession

LEMMA CompletedIs ==
  ASSUME page \in Page, NEW g \in Got
  PROVE  \E v \in Answers, b \in BOOLEAN :
           /\ v = (IF page.stored THEN page.values ELSE g.values)
           /\ b = (page.values # g.values)
           /\ PageIs(SaveCompleted(page, g), v, b, "", g.version, g.refused, page.file)
<1>1. PICK v \in Answers : v = (IF page.stored THEN page.values ELSE g.values)
  BY DEF Page, Got
<1>2. PICK b \in BOOLEAN, t \in BOOLEAN, f \in BOOLEAN : b = (page.values # g.values) /\ t = TRUE /\ f = FALSE
  OBVIOUS
<1>3. PICK q : q = [page EXCEPT !.changes = b, !.saveInProgress = f, !.serverError = "",
                      !.version = g.version, !.submitted = g.submitted, !.refused = g.refused,
                      !.values = v, !.stored = t]
  OBVIOUS
<1>4. g.version \in Nat /\ g.submitted \in BOOLEAN /\ g.refused \in BOOLEAN /\ "" \in Errors
  BY DEF Got, Errors
<1>5. q \in Page
  <2>1. PICK r : r = [page EXCEPT !.changes = b, !.saveInProgress = f, !.serverError = "", !.values = v]
    OBVIOUS
  <2>2. r \in Page
    BY ONLY <1>1, <1>2, <1>4, <2>1, page \in Page DEF Page
  <2>3. q = [r EXCEPT !.version = g.version, !.submitted = g.submitted, !.refused = g.refused, !.stored = t]
    BY ONLY <1>3, <2>1, page \in Page DEF Page
  <2> QED BY ONLY <1>2, <1>4, <2>2, <2>3 DEF Page
<1>6. /\ q.values = v /\ q.saveInProgress = f /\ q.serverError = "" /\ q.version = g.version
      /\ q.refused = g.refused /\ q.file = page.file
  BY ONLY <1>3, page \in Page DEF Page
<1>7. PageIs(q, v, FALSE, "", g.version, g.refused, page.file)
  BY <1>2, <1>5, <1>6 DEF PageIs
<1>8. SaveCompleted(page, g) = IF b THEN StartAutoSave(q) ELSE q
  BY <1>1, <1>2, <1>3 DEF SaveCompleted
<1>9. CASE b
  <2>1. PageIs(StartAutoSave(q), v, TRUE, "", g.version, g.refused, page.file)
    BY <1>5, <1>6, AutoSaving DEF PageIs
  <2>2. b = TRUE
    BY <1>9
  <2> QED BY <1>1, <1>2, <1>8, <1>9, <2>1, <2>2
<1>10. CASE ~b
  <2>1. b = FALSE
    BY <1>10, <1>2
  <2> QED BY <1>1, <1>2, <1>7, <1>8, <1>10, <2>1
<1> QED BY <1>9, <1>10

LEMMA Completes ==
  ASSUME LomakeInv, NEW p \in posts, OnSaveCompleted(p)
  PROVE  LomakeInv'
<1>1. /\ PostOK(p) /\ p.at = "ok" /\ p.kind \in Saves \cup {"get"} /\ page \in Page
      /\ posts' = posts \ {p} /\ UNCHANGED <<lomake, tally, given>>
  BY DEF LomakeInv, LomakeTyped, OnSaveCompleted, Done
<1>2. PICK g \in Got : g = p.got
  BY <1>1 DEF PostOK
<1>3. PICK v \in Answers, b \in BOOLEAN :
        /\ v = (IF page.stored THEN page.values ELSE g.values)
        /\ b = (page.values # g.values)
        /\ PageIs(page', v, b, "", g.version, g.refused, page.file)
  BY <1>1, <1>2, CompletedIs DEF OnSaveCompleted
<1>4. /\ g.version <= lomake.version
      /\ g.version = lomake.version => g.values = lomake.values /\ g.refused = lomake.refused
  BY <1>1, <1>2 DEF LomakeInv, AnswersWereTrue
<1>5. g.version \in Nat /\ lomake.version \in Nat /\ page.version \in Nat
      /\ \A q \in posts : q.base \in Nat
  BY <1>1 DEF Got, Hakemus, Page, LomakeInv, LomakeTyped, PostOK
<1>6. /\ whyLost \subseteq whyLost'
      /\ p.kind = "get" /\ (Saving \/ g.version < lomake.version) => "refresh_crossed" \in whyLost'
      /\ ~page.stored /\ page.values # g.values => "removal_undone" \in whyLost'
  BY <1>2 DEF OnSaveCompleted
<1>7. ~OfFile(p)
  BY <1>1 DEF OfFile, FileKinds, Saves
<1>8. LomakeTyped'
  BY <1>1, <1>3 DEF LomakeInv, LomakeTyped, PageIs
<1>9. AnswersWereTrue'
  BY <1>1 DEF LomakeInv, AnswersWereTrue
<1>10. NothingIsLost'
  <2> SUFFICES ASSUME Unexcused' PROVE (page.values = given /\ FilesInv /\ SavesInv)'
    BY DEF NothingIsLost
  <2>0. page.values = given /\ FilesInv /\ SavesInv
    BY <1>6 DEF LomakeInv, NothingIsLost, Unexcused
  <2>1. v = page.values
    BY <1>3, <1>6 DEF Unexcused, Excuses
  <2>2. p.kind = "get" => ~Saving /\ g.version = lomake.version
    BY <1>4, <1>5, <1>6 DEF Unexcused, Excuses
  <2>3. p.kind \in Saves => SavedSave(p) /\ g.version = lomake.version /\ page.version < lomake.version
    BY <1>1, <1>2, <2>0 DEF SavesInv, SavedSave
  <2>4. g.version = lomake.version /\ g.values = lomake.values
    BY <1>1, <1>4, <2>2, <2>3
  <2>5. page'.values = given'
    BY <1>1, <1>3, <2>0, <2>1 DEF PageIs
  <2>6. FilesInv'
    BY <1>1, <1>3, <1>7, <2>0, <2>1 DEF FilesInv, PageIs
  <2>7. /\ page'.version = g.version /\ page'.values = v
        /\ Clear(page') => page.values = g.values
    BY <1>3 DEF PageIs, Clear
  <2>8. \A q \in posts' : SentSave(q) \/ SavedSave(q) => p.kind \in Saves
    BY <1>1, <2>2 DEF Saving, SentSave, SavedSave
  <2>9. \A q \in posts' : ~SavedSave(q)
    BY <1>1, <2>0, <2>3, <2>8 DEF SavesInv
  <2>10. \A q \in posts' : SentSave(q) => q.base <= lomake.version /\ q.base # lomake.version
    BY <1>1, <1>5, <2>0, <2>3, <2>8 DEF SavesInv
  <2>11. SavesInv'
    BY <1>1, <1>5, <2>1, <2>4, <2>7, <2>9, <2>10 DEF SavesInv
  <2> QED BY <2>5, <2>6, <2>11
<1>11. NoConflict'
  <2> SUFFICES ASSUME whyLost' \cap Causes = {} PROVE NoConflict'
    BY DEF NoConflict
  <2>1. /\ lomake.open
        /\ \A q, r \in posts : q.kind \in Saves /\ r.kind \in Saves => q = r
        /\ \A q \in posts : q.at \in {"sent", "ok"}
        /\ \A q \in posts : SavedSave(q) => q.got.version = lomake.version /\ q.got.refused = lomake.refused
    BY <1>6 DEF LomakeInv, NoConflict
  <2>2. p.kind = "get" => ~Saving /\ g.version = lomake.version
    BY <1>4, <1>5, <1>6 DEF Causes
  <2>3. g.version = lomake.version /\ g.refused = lomake.refused
    BY <1>1, <1>2, <1>4, <2>1, <2>2 DEF SavedSave
  <2>4. \A q \in posts' : q.kind \notin Saves
    BY <1>1, <2>1, <2>2 DEF Saving
  <2>5. page'.version = g.version /\ page'.refused = g.refused /\ page'.serverError = ""
    BY <1>3 DEF PageIs
  <2> QED BY <1>1, <2>1, <2>3, <2>4, <2>5 DEF NoConflict, SentSave, SavedSave
<1> QED BY <1>8, <1>9, <1>10, <1>11 DEF LomakeInv

LEMMA FileAnswers ==
  ASSUME LomakeInv, NEW p \in posts, NEW k \in FileKinds, OnAttachmentCompleted(p, k)
  PROVE  LomakeInv'
<1>1. /\ PostOK(p) /\ p.at = "ok" /\ OfFile(p) /\ page \in Page /\ given \in Answers
      /\ UNCHANGED <<lomake, tally, whyLost>>
  BY DEF LomakeInv, LomakeTyped, OnAttachmentCompleted, OfFile
<1>2. PICK f \in Nat, b \in BOOLEAN : f = p.values.file /\ b = TRUE
  BY <1>1 DEF PostOK, Answers
<1>3. PICK v \in Answers : v = [page.values EXCEPT !.file = f] /\ v.file = f
  <2>1. page.values \in Answers
    BY <1>1 DEF Page
  <2>2. PICK v : v = [text |-> page.values.text, rows |-> page.values.rows, file |-> f]
    OBVIOUS
  <2>3. v \in Answers /\ v = [page.values EXCEPT !.file = f] /\ v.file = f
    BY <2>1, <2>2 DEF Answers
  <2> QED BY <2>3
<1>4. page' = [page EXCEPT !.file = f, !.values = v, !.stored = b]
  BY <1>2, <1>3 DEF OnAttachmentCompleted
<1>5. PageIs(page', v, page.saveInProgress, page.serverError, page.version, page.refused, f)
  BY <1>1, <1>3, <1>4, PageShape DEF Page, PageIs
<1>6. given' \in Answers /\ (page.values = given => given' = v)
  BY <1>1, <1>2, <1>3 DEF OnAttachmentCompleted, Answers
<1>7. PICK o : o = Post("get") /\ PostOK(o) /\ o.kind = "get" /\ o.at = "sent"
  BY PostIs DEF LomakeInv, PostKinds
<1>8. PICK n : n = [o EXCEPT !.id = p.id]
  OBVIOUS
<1>9. PostOK(n) /\ n.kind = "get" /\ n.at = "sent"
  BY <1>7, <1>8 DEF PostOK
<1>10. posts' = (posts \ {p}) \cup {n}
  BY <1>7, <1>8 DEF OnAttachmentCompleted
<1>11. n.kind \notin Saves /\ ~OfFile(n) /\ p.kind \notin Saves
  BY <1>1, <1>9 DEF Saves, OfFile, FileKinds
<1>12. LomakeTyped'
  BY <1>1, <1>5, <1>6, <1>9, <1>10 DEF LomakeInv, LomakeTyped, PageIs
<1>13. AnswersWereTrue'
  BY <1>1, <1>9, <1>10 DEF LomakeInv, AnswersWereTrue
<1>14. NothingIsLost'
  <2> SUFFICES ASSUME Unexcused' PROVE (page.values = given /\ FilesInv /\ SavesInv)'
    BY DEF NothingIsLost
  <2>0. page.values = given /\ FilesInv /\ SavesInv
    BY <1>1 DEF LomakeInv, NothingIsLost, Unexcused
  <2>1. page'.values = v /\ page'.file = f /\ page'.version = page.version
        /\ (Clear(page') <=> Clear(page))
    BY <1>5 DEF PageIs, Clear
  <2>2. f = lomake.file /\ \A q \in posts : OfFile(q) => q = p
    BY <1>1, <1>2, <2>0 DEF FilesInv
  <2>3. FilesInv'
    BY <1>1, <1>3, <1>10, <1>11, <2>1, <2>2 DEF FilesInv
  <2>4. SavesInv'
    BY <1>1, <1>10, <1>11, <2>0, <2>1 DEF SavesInv, SentSave, SavedSave
  <2> QED BY <1>6, <2>0, <2>1, <2>3, <2>4
<1>15. NoConflict'
  <2>1. page'.version = page.version /\ page'.refused = page.refused /\ page'.serverError = page.serverError
    BY <1>5 DEF PageIs
  <2> QED BY <1>1, <1>9, <1>10, <1>11, <2>1 DEF LomakeInv, NoConflict, SentSave, SavedSave
<1> QED BY <1>12, <1>13, <1>14, <1>15 DEF LomakeInv

\* A post ends with an error on the page.
LEMMA ErrorShown ==
  ASSUME LomakeInv, NEW p \in posts, posts' = posts \ {p}, p.kind \in Saves,
         NEW b \in BOOLEAN, NEW e \in Errors, e # "",
         PageIs(page', page.values, b, e, page.version, page.refused, page.file),
         UNCHANGED <<lomake, given>>, tally' \in [acts : Nat, faults : Nat, changes : Nat],
         whyLost \subseteq whyLost',
         e = "conflict-save-error" => p.at = "conflict",
         p.at = "ok" => "lost_answer" \in whyLost'
  PROVE  LomakeInv'
<1>1. LomakeTyped' /\ AnswersWereTrue'
  BY DEF LomakeInv, LomakeTyped, AnswersWereTrue, PageIs
<1>2. p.kind \notin FileKinds
  BY DEF Saves, FileKinds
<1>3. NothingIsLost'
  <2> SUFFICES ASSUME Unexcused' PROVE (page.values = given /\ FilesInv /\ SavesInv)'
    BY DEF NothingIsLost
  <2>0. page.values = given /\ FilesInv /\ SavesInv
    BY DEF LomakeInv, NothingIsLost, Unexcused
  <2>1. page'.values = given'
    BY <2>0 DEF PageIs
  <2>2. FilesInv'
    BY <1>2, <2>0 DEF FilesInv, PageIs, OfFile
  <2>3. ~Clear(page') /\ page'.version = page.version /\ UNCHANGED lomake
    BY DEF PageIs, Clear
  <2>4. SavesInv'
    BY <2>0, <2>3 DEF SavesInv
  <2> QED BY <2>1, <2>2, <2>4
<1>4. NoConflict'
  <2> SUFFICES ASSUME whyLost' \cap Causes = {} PROVE NoConflict'
    BY DEF NoConflict
  <2>1. /\ lomake.open
        /\ \A q, r \in posts : q.kind \in Saves /\ r.kind \in Saves => q = r
        /\ \A q \in posts : q.at \in {"sent", "ok"}
        /\ (\A q \in posts : ~SavedSave(q)) => page.version = lomake.version /\ page.refused = lomake.refused
    BY DEF LomakeInv, NoConflict
  <2>2. p.at = "sent" /\ e # "conflict-save-error"
    BY <2>1 DEF Causes
  <2>3. \A q \in posts : ~SavedSave(q)
    BY <2>1, <2>2 DEF SavedSave
  <2>4. \A q \in posts' : q.kind \notin Saves
    BY <2>1
  <2>5. page'.version = page.version /\ page'.refused = page.refused /\ page'.serverError = e
    BY DEF PageIs
  <2> QED BY <2>1, <2>2, <2>3, <2>4, <2>5 DEF NoConflict, SentSave, SavedSave
<1> QED BY <1>1, <1>3, <1>4 DEF LomakeInv

LEMMA ToldOfConflict ==
  ASSUME LomakeInv, NEW p \in posts, Conflict(p)
  PROVE  LomakeInv'
<1>1. /\ PostOK(p) /\ p.at = "conflict" /\ p.kind \in Saves /\ page \in Page
      /\ posts' = posts \ {p} /\ UNCHANGED <<lomake, tally, given, whyLost>>
  BY DEF LomakeInv, LomakeTyped, Conflict, Done, PostOK
<1>2. PICK b \in BOOLEAN, e \in Errors : b = FALSE /\ e = "conflict-save-error" /\ e # ""
  BY DEF Errors
<1>3. PageIs(page', page.values, b, e, page.version, page.refused, page.file)
  BY <1>1, <1>2, WithError DEF Conflict
<1>4. tally' \in [acts : Nat, faults : Nat, changes : Nat]
  BY <1>1 DEF LomakeInv, LomakeTyped
<1> QED BY <1>1, <1>2, <1>3, <1>4, ErrorShown

LEMMA SeesPreview ==
  ASSUME LomakeInv, NEW p \in posts, NotAllowed(p)
  PROVE  LomakeInv'
<1>1. /\ PostOK(p) /\ p.at = "not-allowed" /\ p.kind \in Saves /\ page \in Page
      /\ posts' = posts \ {p} /\ UNCHANGED <<lomake, tally, given, whyLost>>
  BY DEF LomakeInv, LomakeTyped, NotAllowed, Done, PostOK
<1>2. PageIs(page', page.values, page.saveInProgress, page.serverError, page.version, page.refused, page.file)
  BY <1>1, PageShape DEF NotAllowed, Page, PageIs
<1>3. p.kind \notin FileKinds
  BY <1>1 DEF Saves, FileKinds
<1>4. LomakeTyped' /\ AnswersWereTrue'
  BY <1>1, <1>2 DEF LomakeInv, LomakeTyped, AnswersWereTrue, PageIs
<1>5. NothingIsLost'
  <2> SUFFICES ASSUME Unexcused' PROVE (page.values = given /\ FilesInv /\ SavesInv)'
    BY DEF NothingIsLost
  <2>0. page.values = given /\ FilesInv /\ SavesInv
    BY <1>1 DEF LomakeInv, NothingIsLost, Unexcused
  <2>1. page'.values = given'
    BY <1>1, <1>2, <2>0 DEF PageIs
  <2>2. FilesInv'
    BY <1>1, <1>2, <1>3, <2>0 DEF FilesInv, PageIs, OfFile
  <2>3. page'.version = page.version /\ page'.values = page.values /\ (Clear(page') <=> Clear(page))
    BY <1>2 DEF PageIs, Clear
  <2>4. SavesInv'
    BY <1>1, <2>0, <2>3 DEF SavesInv
  <2> QED BY <2>1, <2>2, <2>4
<1>6. NoConflict'
  <2> SUFFICES ASSUME whyLost' \cap Causes = {} PROVE FALSE
    BY DEF NoConflict
  <2> QED BY <1>1 DEF LomakeInv, NoConflict
<1> QED BY <1>4, <1>5, <1>6 DEF LomakeInv

LEMMA FailsAtIt ==
  ASSUME LomakeInv, NEW p \in posts, Fails(p)
  PROVE  LomakeInv'
<1>1. /\ PostOK(p) /\ p.at \in {"sent", "ok"} /\ page \in Page
      /\ posts' = posts \ {p} /\ UNCHANGED <<lomake, given>>
      /\ tally' \in [acts : Nat, faults : Nat, changes : Nat]
  BY DEF LomakeInv, LomakeTyped, Fails, Done
<1>2. CASE p.kind \in Saves
  <2>1. p.kind \notin {"get", "put", "delete"}
    BY <1>2 DEF Saves
  <2>2. whyLost \subseteq whyLost' /\ (p.at = "ok" => "lost_answer" \in whyLost')
    BY <1>2, <2>1 DEF Fails, Blame
  <2>3. PICK b \in BOOLEAN, e \in Errors :
          /\ e \in {"unexpected-save-error", "unexpected-submit-error", "submit-validation-errors"}
          /\ PageIs(page', page.values, b, e, page.version, page.refused, page.file)
    <3>1. PICK t \in BOOLEAN, f \in BOOLEAN : t = TRUE /\ f = FALSE
      OBVIOUS
    <3>2. {"unexpected-save-error", "unexpected-submit-error", "submit-validation-errors"} \subseteq Errors
      BY DEF Errors
    <3>3. CASE page' = ServerError(page, "submit-validation-errors")
      BY <1>1, <3>1, <3>2, <3>3, WithError
    <3>4. CASE page' = Unexpected(page, p.kind)
      <4>1. CASE p.kind = "save"
        <5>1. PICK q : q = ServerError(page, "unexpected-save-error")
          OBVIOUS
        <5>2. q \in Page /\ PageIs(q, page.values, FALSE, "unexpected-save-error", page.version, page.refused, page.file)
          BY <1>1, <3>2, <5>1, WithError DEF PageIs
        <5>3. page' = StartAutoSave(q)
          BY <3>4, <4>1, <5>1 DEF Unexpected
        <5>4. PageIs(page', page.values, TRUE, "unexpected-save-error", page.version, page.refused, page.file)
          BY <5>2, <5>3, AutoSaving DEF PageIs
        <5> QED BY <3>1, <3>2, <5>4
      <4>2. CASE p.kind = "submit"
        <5>1. page' = ServerError(page, "unexpected-submit-error")
          BY <3>4, <4>2 DEF Unexpected
        <5> QED BY <1>1, <3>1, <3>2, <5>1, WithError
      <4>3. CASE p.kind = "refuse"
        <5>1. page' = ServerError(page, "unexpected-save-error")
          BY <3>4, <4>3 DEF Unexpected
        <5> QED BY <1>1, <3>1, <3>2, <5>1, WithError
      <4> QED BY <1>2, <4>1, <4>2, <4>3 DEF Saves
    <3> QED BY <3>3, <3>4 DEF Fails
  <2> QED BY <1>1, <1>2, <2>2, <2>3, ErrorShown
<1>3. CASE p.kind \notin Saves
  <2>1. p.kind \in {"get", "put", "delete"} /\ p.kind # "save" /\ p.kind # "submit" /\ p.kind # "refuse"
    BY <1>1, <1>3 DEF PostOK, PostKinds, FileKinds, Saves
  <2>2. page' = page /\ whyLost' = whyLost \cup {"file_failed"}
    BY <1>3, <2>1 DEF Fails, Unexpected, Blame
  <2>3. LomakeTyped' /\ AnswersWereTrue'
    BY <1>1, <2>2 DEF LomakeInv, LomakeTyped, AnswersWereTrue
  <2>4. NothingIsLost'
    BY <2>2 DEF NothingIsLost, Unexcused, Excuses
  <2>5. NoConflict'
    BY <1>1, <1>3, <2>2 DEF LomakeInv, NoConflict, SentSave, SavedSave
  <2> QED BY <2>3, <2>4, <2>5 DEF LomakeInv
<1> QED BY <1>2, <1>3

LEMMA LomakeStep ==
  ASSUME LomakeInv, [LomakeNext]_lomakeVars
  PROVE  LomakeInv'
<1>1. CASE Applicant
  BY <1>1, Updates, Removes, FileRequested, Submits, RefusesIt, Unloads DEF Applicant
<1>2. CASE OnSave \/ OtherSession
  BY <1>2, SavesItself, OthersSave
<1>3. ASSUME NEW p \in posts, Serve(p) \/ Handle(p) \/ Fails(p)
      PROVE  LomakeInv'
  <2>1. CASE Serve(p)
    BY <2>1, Takes, Conflicts, IsClosed, FileStored, Fetched DEF Serve
  <2>2. CASE Handle(p)
    <3>1. "put" \in FileKinds /\ "delete" \in FileKinds
      BY DEF FileKinds
    <3> QED BY <2>2, <3>1, Completes, FileAnswers, ToldOfConflict, SeesPreview
            DEF Handle, OnAttachmentUploadCompleted, OnAttachmentRemovalCompleted
  <2> QED BY <1>3, <2>1, <2>2, FailsAtIt
<1>4. CASE UNCHANGED lomakeVars
  <2>1. UNCHANGED <<lomake, page, posts, tally, given, whyLost>>
    BY <1>4 DEF lomakeVars
  <2>2. LomakeTyped' /\ AnswersWereTrue'
    BY <2>1 DEF LomakeInv, LomakeTyped, AnswersWereTrue
  <2>3. NothingIsLost'
    BY <2>1 DEF LomakeInv, NothingIsLost, Unexcused, FilesInv, SavesInv
  <2>4. NoConflict'
    BY <2>1 DEF LomakeInv, NoConflict
  <2> QED BY <2>2, <2>3, <2>4 DEF LomakeInv
<1> QED BY <1>1, <1>2, <1>3, <1>4 DEF LomakeNext

LEMMA LomakeStart ==
  ASSUME LomakeInit
  PROVE  LomakeInv
<1>1. EmptyAnswers \in Answers /\ EmptyAnswers.file = NoAttachment /\ NoAttachment = 0
  BY DEF EmptyAnswers, Answers, NoAttachment
<1>0. PICK t \in BOOLEAN, f \in BOOLEAN, one \in Nat, nil \in Nat :
        t = TRUE /\ f = FALSE /\ one = 1 /\ nil = NoAttachment
  BY <1>1
<1>2. lomake \in Hakemus /\ lomake.version = one /\ lomake.values = EmptyAnswers /\ lomake.refused = f
      /\ lomake.file = nil /\ lomake.open = t
  <2>1. lomake = [version |-> one, values |-> EmptyAnswers, submitted |-> f, refused |-> f,
                  file |-> nil, open |-> t]
    BY <1>0 DEF LomakeInit
  <2>2. lomake \in Hakemus
    BY <1>0, <1>1, <2>1 DEF Hakemus
  <2> QED BY <2>1, <2>2
<1>3. PageIs(page, EmptyAnswers, f, "", one, f, nil)
  <2>1. PICK mode \in {"edit", "refuse"} :
          page = [at |-> "open", mode |-> mode, values |-> EmptyAnswers, changes |-> f,
                  saveInProgress |-> f, serverError |-> "", version |-> one, submitted |-> f,
                  refused |-> f, file |-> nil, stored |-> f, autoSave |-> f]
    BY <1>0 DEF LomakeInit
  <2>2. "" \in Errors
    BY DEF Errors
  <2>3. page \in Page
    <3>1. EmptyAnswers \in Answers
      BY <1>1
    <3>2. mode \in {"edit", "refuse"}
      BY <2>1
    <3> QED BY ONLY t \in BOOLEAN, f \in BOOLEAN, one \in Nat, nil \in Nat, <2>1, <2>2, <3>1, <3>2 DEF Page
  <2>4. /\ page.values = EmptyAnswers /\ page.saveInProgress = f /\ page.serverError = ""
        /\ page.version = one /\ page.refused = f /\ page.file = nil
    BY <2>1
  <2> QED BY <2>3, <2>4 DEF PageIs
<1>4. posts = {} /\ given = EmptyAnswers /\ whyLost = {} /\ tally \in [acts : Nat, faults : Nat, changes : Nat]
  BY DEF LomakeInit
<1>5. LomakeTyped /\ AnswersWereTrue
  BY <1>1, <1>2, <1>3, <1>4 DEF LomakeTyped, AnswersWereTrue, PageIs
<1>6. NothingIsLost
  <2>1. FilesInv
    BY <1>0, <1>1, <1>2, <1>3, <1>4 DEF FilesInv, PageIs
  <2>2. SavesInv
    <3>0. page.version = one /\ lomake.version = one /\ page.values = lomake.values
      BY <1>2, <1>3 DEF PageIs
    <3>1. page.version <= lomake.version /\ page.values = lomake.values
      BY ONLY <3>0, one \in Nat
    <3> QED BY <1>4, <3>1 DEF SavesInv
  <2> QED BY <1>3, <1>4, <2>1, <2>2 DEF NothingIsLost, PageIs
<1>7. NoConflict
  BY <1>0, <1>2, <1>3, <1>4 DEF NoConflict, PageIs
<1> QED BY <1>5, <1>6, <1>7 DEF LomakeInv

\* The inductive invariant of the form: saves, their answers and the file.
THEOREM LomakeInvariance == LomakeInit /\ [][LomakeNext]_lomakeVars => []LomakeInv
BY LomakeStart, LomakeStep, PTL

\* "Saved" means it: the server stores the answers as they were given and the page shows them, but
\* for the causes named, for any rows and however saves, files, refreshes and failures meet.
THEOREM SavedIsSaved == LomakeInit /\ [][LomakeNext]_lomakeVars => []SavedMeansSaved
<1>1. LomakeInv => SavedMeansSaved
  BY DEF LomakeInv, NothingIsLost, Unexcused, SavesInv, FilesInv, Clear, SavedMeansSaved
<1> QED BY <1>1, LomakeInvariance, PTL

\* The applicant is told of a conflict only where there was another writer, overlapping posts, a
\* lost answer or a refresh that crossed a save.
THEOREM ConflictsHaveACause == LomakeInit /\ [][LomakeNext]_lomakeVars => []ConflictHasACause
<1>1. LomakeInv => ConflictHasACause
  BY DEF LomakeInv, NoConflict, Causes, ConflictHasACause
<1> QED BY <1>1, LomakeInvariance, PTL

THEOREM LomakeTyping == LomakeInit /\ [][LomakeNext]_lomakeVars => []LomakeTypeOK
<1>1. LomakeInv => LomakeTypeOK
  BY DEF LomakeInv, LomakeTyped, LomakeTypeOK, Hakemus, PostOK, Got
<1> QED BY <1>1, LomakeInvariance, PTL
-----------------------------------------------------------------------------
(* The rows of a growing set and their files                                 *)

RowFields == [id : Ids, on : BOOLEAN, required : BOOLEAN]
RowAnswers == [text : {0, 1}, file : Nat]
CallOK(c) == c \in [n : {c.n}, kind : {"put", "delete"}, id : Ids, file : Nat, at : {"sent", "answered"}]
AnswersTyped(ans) == DOMAIN ans \subseteq Ids /\ ans \in [DOMAIN ans -> RowAnswers]

\* Rows ascend from the first; the last is closed, and those before the last open one are required.
RowsOK(rows) ==
  /\ rows \in Seq(RowFields) /\ Len(rows) >= 2
  /\ rows[1].id = 1
  /\ \A i, j \in 1..Len(rows) : i < j => rows[i].id < rows[j].id
  /\ \A i \in 1..(Len(rows) - 1) : rows[i].on
  /\ ~rows[Len(rows)].on
  /\ \A i \in 1..(Len(rows) - 2) : rows[i].required

\* Answers are in rows before the last open one, or empty ones in the only row.
AnswersIn(rows, ans) ==
  /\ \A id \in DOMAIN ans :
       \/ \E i \in 1..(Len(rows) - 2) : rows[i].id = id
       \/ Len(rows) = 2 /\ id = 1 /\ IsEmpty(ans[1]) /\ rows[1].required
  /\ Len(rows) > 2 => 1 \in DOMAIN ans

RowsTyped ==
  /\ AnswersTyped(answers)
  /\ attachments \in [Ids -> Nat] /\ files \in [Ids -> Nat] /\ everFile \subseteq Ids
  /\ rowActs \in Nat
  /\ \A c \in fileCalls : CallOK(c) /\ c.id < content[Last1].id /\ (c.kind = "delete" => c.file = NoFile)

\* What no request was ever about has no file, and what is answered was stored.
FilesKnown ==
  /\ \A id \in Ids \ everFile : files[id] = NoFile /\ attachments[id] = NoFile
  /\ \A c \in fileCalls : c.at = "answered" => c.id \in everFile

InRow(id) == \E i \in 1..(Last1 - 1) : content[i].id = id
Named(id) == AnswerOf(answers, id).file = files[id] /\ attachments[id] = files[id]
\* While nothing has parted a file from its name: one request about a row, whose file is as the page
\* shows it until the request is stored.
NamesFollow ==
  fileCause = {} =>
    /\ \A c, d \in fileCalls : c.id = d.id => c = d
    /\ \A id \in Ids : Meets(id) \/ Named(id)
    /\ \A c \in fileCalls :
         /\ c.kind = "put" => InRow(c.id)
         /\ c.kind = "put" /\ c.at = "sent" => Named(c.id)
         /\ c.id \notin everFile => AnswerOf(answers, c.id).file = NoFile
         /\ c.at = "answered" => files[c.id] = c.file

RowsInv == RowsOK(content) /\ AnswersIn(content, answers) /\ RowsTyped /\ FilesKnown /\ NamesFollow

LEMMA RowsAssumed == MaxRow \in Nat /\ MaxRow >= 2 /\ Ids = 1..MaxRow /\ 1 \in Ids /\ 2 \in Ids /\ IsFiniteSet(Ids)
<1>1. MaxRow \in Nat /\ MaxRow >= 2
  BY RowsAssumption
<1>2. IsFiniteSet(1..MaxRow)
  BY <1>1, FS_Interval
<1> QED BY <1>1, <1>2 DEF Ids

\* A set of rows has its numbers in ascending order.
Orders(s, n) == \A i, j \in 1..n : i < j => s[i] < s[j]
LEMMA OrderExists ==
  ASSUME NEW S \in SUBSET Ids
  PROVE  /\ Cardinality(S) \in Nat
         /\ \E s \in [1..Cardinality(S) -> S] : Orders(s, Cardinality(S))
<1> DEFINE Ordered(T) == \E s \in [1..Cardinality(T) -> T] : Orders(s, Cardinality(T))
           Bad == {n \in Nat : \E T \in SUBSET Ids : Cardinality(T) = n /\ ~Ordered(T)}
<1>1. \A T \in SUBSET Ids : IsFiniteSet(T) /\ Cardinality(T) \in Nat
  BY RowsAssumed, FS_Subset, FS_CardinalityType
<1>2. Bad = {}
  <2> SUFFICES ASSUME Bad # {} PROVE FALSE
    OBVIOUS
  <2>1. IsWellFoundedOn(OpToRel(<, Nat), Nat)
    BY NatLessThanWellFounded
  <2>2. Bad \subseteq Nat
    OBVIOUS
  <2> HIDE DEF Bad
  <2>3. PICK n \in Bad : \A m \in Bad : ~(<<m, n>> \in OpToRel(<, Nat))
    <3>1. \E x \in Bad : \A y \in Bad : ~(<<y, x>> \in OpToRel(<, Nat))
      BY <2>1, <2>2, WFMin
    <3> QED BY <3>1
  <2>4. \A m \in Bad : ~(m < n)
    <3>1. OpToRel(<, Nat) = {p \in Nat \X Nat : p[1] < p[2]}
      BY Zenon DEF OpToRel
    <3>2. \A m \in Bad : <<m, n>> \notin {p \in Nat \X Nat : p[1] < p[2]}
      BY <2>3, <3>1, Zenon
    <3> QED BY <2>2, <3>2
  <2>5. PICK T \in SUBSET Ids : Cardinality(T) = n /\ ~Ordered(T)
    BY <2>3 DEF Bad
  <2>6. IsFiniteSet(T) /\ n \in Nat
    BY <1>1, <2>2, <2>3
  <2>7. T # {}
    <3> SUFFICES ASSUME T = {} PROVE FALSE
      OBVIOUS
    <3>1. n = 0
      BY <2>5, FS_EmptySet
    <3>2. PICK s : s = [i \in 1..0 |-> 0]
      OBVIOUS
    <3>3. s \in [1..0 -> T] /\ Orders(s, 0)
      BY <3>2 DEF Orders
    <3> QED BY <2>5, <3>1, <3>3
  <2>8. PICK m \in T : \A t \in T : t <= m
    <3>1. T \subseteq Nat /\ \A t \in T : t <= MaxRow
      BY RowsAssumed
    <3> QED BY <2>7, <3>1, RowsAssumed, NatMax
  <2>9. PICK U : U = T \ {m}
    OBVIOUS
  <2>10. U \in SUBSET Ids /\ Cardinality(U) = n - 1 /\ n - 1 \in Nat
    <3>1. U \in SUBSET Ids /\ Cardinality(U) = n - 1
      BY <2>5, <2>6, <2>9, FS_RemoveElement
    <3> QED BY <1>1, <3>1
  <2>11. n - 1 \notin Bad
    BY <2>4, <2>6
  <2>12. PICK s \in [1..(n - 1) -> U] : Orders(s, n - 1)
    BY <2>10, <2>11 DEF Bad
  <2>13. PICK t : t = [i \in 1..n |-> IF i = n THEN m ELSE s[i]]
    OBVIOUS
  <2>14. \A i \in 1..(n - 1) : s[i] \in T /\ s[i] < m
    <3> SUFFICES ASSUME NEW i \in 1..(n - 1) PROVE s[i] \in T /\ s[i] < m
      OBVIOUS
    <3>1. s[i] \in T /\ s[i] # m
      BY <2>9, <2>12
    <3>2. s[i] \in Nat /\ m \in Nat
      <4>1. s[i] \in Ids /\ m \in Ids
        BY <2>5, <2>8, <3>1
      <4> QED BY <4>1, RowsAssumed
    <3> QED BY <2>8, <3>1, <3>2
  <2>15. t \in [1..n -> T]
    BY <2>6, <2>13, <2>14
  <2>16. Orders(t, n)
    <3> SUFFICES ASSUME NEW i \in 1..n, NEW j \in 1..n, i < j PROVE t[i] < t[j]
      BY DEF Orders
    <3>1. i \in 1..(n - 1) /\ t[i] = s[i]
      BY <2>6, <2>13
    <3>2. CASE j = n
      BY <2>13, <2>14, <3>1, <3>2
    <3>3. CASE j # n
      <4>1. j \in 1..(n - 1) /\ t[j] = s[j]
        BY <2>6, <2>13, <3>3
      <4> QED BY <2>12, <3>1, <4>1 DEF Orders
    <3> QED BY <3>2, <3>3
  <2> QED BY <2>5, <2>15, <2>16
<1>3. Ordered(S)
  BY <1>1, <1>2
<1> QED BY <1>1, <1>3

LEMMA InOrderIs ==
  ASSUME NEW S \in SUBSET Ids
  PROVE  \E n \in Nat : /\ n = Cardinality(S)
                        /\ InOrder(S) \in [1..n -> S]
                        /\ \A i, j \in 1..n : i < j => InOrder(S)[i] < InOrder(S)[j]
                        /\ \A id \in S : \E i \in 1..n : InOrder(S)[i] = id
<1>1. PICK n \in Nat : n = Cardinality(S)
  BY OrderExists
<1>2. InOrder(S) \in [1..n -> S] /\ Orders(InOrder(S), n)
  <2>1. \E s \in [1..n -> S] : Orders(s, n)
    BY <1>1, OrderExists
  <2>2. InOrder(S) = CHOOSE s \in [1..n -> S] : Orders(s, n)
    BY <1>1 DEF InOrder, Orders
  <2> QED BY <2>1, <2>2
<1>3. PICK f : f = InOrder(S)
  OBVIOUS
<1>4. f \in [1..n -> S] /\ \A i, j \in 1..n : i < j => f[i] < f[j]
  BY <1>2, <1>3 DEF Orders
<1>5. f \in Injection(1..n, S)
  <2>1. \A i \in 1..n : f[i] \in Nat
    <3>1. \A i \in 1..n : f[i] \in Ids
      BY <1>4
    <3> QED BY <3>1, RowsAssumed
  <2>2. \A i, j \in 1..n : f[i] = f[j] => i = j
    <3> SUFFICES ASSUME NEW i \in 1..n, NEW j \in 1..n, f[i] = f[j], i # j PROVE FALSE
      OBVIOUS
    <3>1. i < j \/ j < i
      OBVIOUS
    <3>2. f[i] < f[j] \/ f[j] < f[i]
      BY <1>4, <3>1
    <3> QED BY <2>1, <3>2
  <2> QED BY <1>4, <2>2 DEF Injection, IsInjective
<1>6. IsFiniteSet(S)
  BY RowsAssumed, FS_Subset
<1>7. Cardinality(1..n) = n
  BY FS_Interval
<1>8. f \in Surjection(1..n, S)
  BY <1>1, <1>5, <1>6, <1>7, FS_Injection
<1>9. \A id \in S : \E i \in 1..n : f[i] = id
  BY <1>8 DEF Surjection
<1> QED BY <1>1, <1>3, <1>4, <1>9

-----------------------------------------------------------------------------

LEMMA RowIs ==
  ASSUME NEW rows, RowsOK(rows)
  PROVE  /\ Len(rows) \in Nat /\ Len(rows) >= 2 /\ rows \in [1..Len(rows) -> RowFields]
         /\ \A k \in 1..Len(rows) : rows[k] \in RowFields /\ rows[k].id \in Ids /\ rows[k].id \in Nat /\ rows[k].id <= MaxRow
<1>1. rows \in Seq(RowFields) /\ Len(rows) >= 2
  BY DEF RowsOK
<1>2. Len(rows) \in Nat /\ rows \in [1..Len(rows) -> RowFields]
  BY <1>1
<1>3. \A k \in 1..Len(rows) : rows[k] \in RowFields
  BY <1>2
<1>4. \A f \in RowFields : f.id \in Ids
  BY DEF RowFields
<1> QED BY <1>1, <1>2, <1>3, <1>4, RowsAssumed

\* A row of its own: open and required, as the prototype is.
Prototype(id) == Field(id, TRUE, TRUE)
LEMMA PrototypeIs ==
  ASSUME NEW id \in Ids
  PROVE  Prototype(id) \in RowFields /\ Prototype(id).id = id /\ Prototype(id).on /\ Prototype(id).required
<1>1. PICK t \in BOOLEAN : t = TRUE
  OBVIOUS
<1>2. PICK f : f = [id |-> id, on |-> t, required |-> t]
  OBVIOUS
<1>3. Prototype(id) = f
  BY <1>1, <1>2 DEF Prototype, Field
<1>4. f \in RowFields /\ f.id = id /\ f.on = t /\ f.required = t
  BY <1>2 DEF RowFields
<1> QED BY <1>1, <1>3, <1>4

HasNewChild(d, rows, on) ==
  /\ d \in Seq(RowFields) /\ Len(d) = Len(rows) + 1
  /\ \A k \in 1..Len(rows) : d[k] = rows[k]
  /\ d[Len(rows) + 1].id = rows[Len(rows)].id + 1 /\ d[Len(rows) + 1].on = on
LEMMA NewChildIs ==
  ASSUME NEW rows \in Seq(RowFields), Len(rows) >= 1, NEW on \in BOOLEAN, rows[Len(rows)].id < MaxRow
  PROVE  HasNewChild(NewChild(rows, on), rows, on)
<1>1. PICK f : f = Field(rows[Len(rows)].id + 1, on, FALSE)
  OBVIOUS
<1>2. rows[Len(rows)].id \in Ids
  <2>1. rows[Len(rows)] \in RowFields
    OBVIOUS
  <2> QED BY <2>1 DEF RowFields
<1>3. PICK m : m = rows[Len(rows)].id + 1 /\ m \in Ids
  BY <1>2, RowsAssumed
<1>4. f \in RowFields /\ f.id = m /\ f.on = on
  BY <1>1, <1>3 DEF Field, RowFields
<1>5. PICK d : d = Append(rows, f)
  OBVIOUS
<1>6. NewChild(rows, on) = d
  BY <1>1, <1>5 DEF NewChild, Last
<1>7. HasNewChild(d, rows, on)
  BY <1>3, <1>4, <1>5 DEF HasNewChild
<1> QED BY <1>6, <1>7

HasChild(d, rows) ==
  /\ d \in Seq(RowFields) /\ Len(d) = Len(rows) + 1
  /\ \A k \in 1..Len(rows) : d[k] = rows[k]
  /\ d[Len(rows) + 1].id = rows[Len(rows)].id + 1
LEMMA ChildIs ==
  ASSUME NEW rows \in Seq(RowFields), Len(rows) >= 1, rows[Len(rows)].id < MaxRow, NEW d
  PROVE  /\ d = NewChild(rows, FALSE) => HasChild(d, rows) /\ ~d[Len(rows) + 1].on
         /\ d = NewChild(rows, TRUE) => HasChild(d, rows) /\ d[Len(rows) + 1].on
<1>1. ASSUME NEW on \in BOOLEAN, d = NewChild(rows, on)
      PROVE  HasChild(d, rows) /\ d[Len(rows) + 1].on = on
  <2>1. HasNewChild(d, rows, on)
    BY <1>1, NewChildIs
  <2> QED BY <2>1 DEF HasNewChild, HasChild
<1>2. ASSUME d = NewChild(rows, FALSE) PROVE HasChild(d, rows) /\ ~d[Len(rows) + 1].on
  <2>1. PICK f \in BOOLEAN : f = FALSE
    OBVIOUS
  <2>2. d = NewChild(rows, f)
    BY <1>2, <2>1
  <2>3. HasChild(d, rows) /\ d[Len(rows) + 1].on = f
    BY <1>1, <2>1, <2>2
  <2> QED BY <2>1, <2>3
<1>3. ASSUME d = NewChild(rows, TRUE) PROVE HasChild(d, rows) /\ d[Len(rows) + 1].on
  <2>1. PICK t \in BOOLEAN : t = TRUE
    OBVIOUS
  <2>2. d = NewChild(rows, t)
    BY <1>3, <2>1
  <2>3. HasChild(d, rows) /\ d[Len(rows) + 1].on = t
    BY <1>1, <2>1, <2>2
  <2> QED BY <2>1, <2>3
<1> QED BY <1>2, <1>3

\* The growing of rows at their last open one.
LEMMA Grows ==
  ASSUME NEW rows, RowsOK(rows), NEW i \in 1..(Len(rows) - 1), rows[Len(rows)].id < MaxRow
  PROVE  LET d == Expanded(rows, i) IN
         /\ RowsOK(d) /\ Len(d) \in {Len(rows), Len(rows) + 1} /\ i \in 1..(Len(d) - 2)
         /\ \A k \in 1..Len(rows) : d[k].id = rows[k].id
         /\ rows[Len(rows)].id <= d[Len(d)].id
<1>1. PICK n \in Nat : n = Len(rows) /\ n >= 2
  BY RowIs
<1>2. rows \in [1..n -> RowFields] /\ \A k \in 1..n : rows[k] \in RowFields /\ rows[k].id \in Ids /\ rows[k].id \in Nat
  BY <1>1, RowIs
<1>3. CASE i # n - 1
  BY <1>1, <1>2, <1>3, RowsAssumed DEF Expanded
<1>4. CASE i = n - 1
  <2>1. PICK b \in BOOLEAN : b = TRUE
    OBVIOUS
  <2>2. PICK e : e = [rows EXCEPT ![i].required = b, ![i + 1].on = b]
    OBVIOUS
  <2>3. /\ e \in Seq(RowFields) /\ Len(e) = n
        /\ \A k \in 1..n : e[k].id = rows[k].id
        /\ \A k \in 1..(n - 1) : e[k].on = rows[k].on
        /\ \A k \in 1..(n - 2) : e[k].required = rows[k].required
        /\ e[n].on = b /\ e[n - 1].required = b
    <3>1. PICK f : f = [rows[i] EXCEPT !.required = b]
      OBVIOUS
    <3>2. PICK g : g = [rows[n] EXCEPT !.on = b]
      OBVIOUS
    <3>3. f \in RowFields /\ f.id = rows[i].id /\ f.on = rows[i].on /\ f.required = b
      BY <1>1, <1>2, <3>1 DEF RowFields
    <3>4. g \in RowFields /\ g.id = rows[n].id /\ g.on = b
      BY <1>1, <1>2, <3>2 DEF RowFields
    <3>5. PICK h : h = [rows EXCEPT ![i].required = b]
      OBVIOUS
    <3>6a. e = [h EXCEPT ![n].on = b]
      <4>1. e = [h EXCEPT ![i + 1].on = b]
        BY <2>2, <3>5
      <4> QED BY <1>1, <1>4, <4>1
    <3>6b. h = [k \in 1..n |-> IF k = i THEN f ELSE rows[k]]
      BY <1>1, <1>2, <3>1, <3>5
    <3>6c. h[n] = rows[n] /\ DOMAIN h = 1..n
      BY <1>1, <1>4, <3>6b
    <3>6d. e = [k \in 1..n |-> IF k = n THEN g ELSE h[k]]
      BY <1>1, <3>2, <3>6a, <3>6c
    <3>6. e = [k \in 1..n |-> IF k = n THEN g ELSE IF k = i THEN f ELSE rows[k]]
      BY <3>6b, <3>6d
    <3>7. e \in [1..n -> RowFields]
      BY <1>2, <3>3, <3>4, <3>6
    <3>8. e \in Seq(RowFields) /\ Len(e) = n
      BY <1>1, <3>7
    <3> QED BY <1>1, <1>4, <3>3, <3>4, <3>6, <3>8
  <2>4. Expanded(rows, i) = NewChild(e, FALSE)
    BY <1>1, <1>4, <2>1, <2>2 DEF Expanded
  <2>5. PICK d : d = NewChild(e, FALSE)
    OBVIOUS
  <2>6. e[n].id < MaxRow
    BY <1>1, <2>3
  <2>7. /\ d \in Seq(RowFields) /\ Len(d) = n + 1
        /\ \A k \in 1..n : d[k] = e[k]
        /\ d[n + 1].id = e[n].id + 1 /\ ~d[n + 1].on
    <3>1. e \in Seq(RowFields) /\ Len(e) = n /\ n >= 1
      BY <1>1, <2>3
    <3>2. HasChild(d, e) /\ ~d[Len(e) + 1].on
      BY <2>5, <2>6, <3>1, ChildIs
    <3> QED BY <3>1, <3>2 DEF HasChild
  <2>8. \A k \in 1..n : d[k].id = rows[k].id /\ d[k].id \in Nat
    BY <1>2, <2>3, <2>7, RowsAssumed
  <2>9. \A k, l \in 1..(n + 1) : k < l => d[k].id < d[l].id
    <3> SUFFICES ASSUME NEW k \in 1..(n + 1), NEW l \in 1..(n + 1), k < l PROVE d[k].id < d[l].id
      OBVIOUS
    <3>1. k \in 1..n
      BY <1>1
    <3>2. CASE l \in 1..n
      BY <1>1, <2>8, <3>1, <3>2 DEF RowsOK
    <3>3. CASE l = n + 1
      <4>1. d[k].id <= d[n].id
        <5>1. CASE k = n
          BY <1>1, <2>8, <5>1
        <5>2. CASE k # n
          <6>1. k < n /\ n \in 1..n
            BY <1>1, <3>1, <5>2
          <6>2. rows[k].id < rows[n].id
            BY <1>1, <3>1, <6>1 DEF RowsOK
          <6> QED BY <2>8, <3>1, <6>1, <6>2
        <5> QED BY <5>1, <5>2
      <4>2. d[n + 1].id = d[n].id + 1 /\ d[n].id \in Nat /\ d[k].id \in Nat
        BY <1>1, <2>3, <2>7, <2>8, <3>1
      <4> QED BY <3>3, <4>1, <4>2
    <3> QED BY <1>1, <3>2, <3>3
  <2>10. RowsOK(d)
    <3>1. d[1].id = 1
      BY <1>1, <2>8 DEF RowsOK
    <3>2. \A k \in 1..n : d[k].on
      <4> SUFFICES ASSUME NEW k \in 1..n PROVE d[k].on
        OBVIOUS
      <4>1. CASE k = n
        BY <1>1, <2>1, <2>3, <2>7, <4>1
      <4>2. CASE k # n
        <5>1. k \in 1..(n - 1)
          BY <1>1, <4>2
        <5>2. rows[k].on
          BY <1>1, <5>1 DEF RowsOK
        <5>3. d[k] = e[k] /\ e[k].on = rows[k].on
          BY <2>3, <2>7, <5>1
        <5> QED BY <5>2, <5>3
      <4> QED BY <4>1, <4>2
    <3>3. \A k \in 1..(n - 1) : d[k].required
      <4> SUFFICES ASSUME NEW k \in 1..(n - 1) PROVE d[k].required
        OBVIOUS
      <4>0. d[k] = e[k]
        BY <1>1, <2>7
      <4>1. CASE k = n - 1
        BY <2>1, <2>3, <4>0, <4>1
      <4>2. CASE k # n - 1
        <5>1. k \in 1..(n - 2)
          BY <1>1, <4>2
        <5>2. rows[k].required
          BY <1>1, <5>1 DEF RowsOK
        <5> QED BY <2>3, <4>0, <5>1, <5>2
      <4> QED BY <4>1, <4>2
    <3>4. ~d[Len(d)].on
      BY <2>7
    <3>5. Len(d) >= 2 /\ Len(d) - 1 = n /\ Len(d) - 2 = n - 1
      BY <1>1, <2>7
    <3> QED BY <2>7, <2>9, <3>1, <3>2, <3>3, <3>4, <3>5 DEF RowsOK
  <2>11. rows[n].id <= d[n + 1].id /\ i \in 1..(n - 1)
    BY <1>1, <1>2, <1>4, <2>3, <2>7, RowsAssumed
  <2>12. Len(d) = n + 1 /\ i \in 1..(Len(d) - 2) /\ \A k \in 1..n : d[k].id = rows[k].id
    BY <2>7, <2>8, <2>11
  <2>13. rows[n].id <= d[Len(d)].id
    BY <2>11, <2>12
  <2> HIDE DEF RowsOK
  <2> QED BY <1>1, <2>4, <2>5, <2>10, <2>12, <2>13
<1> QED BY <1>3, <1>4

\* What is written in a row is in a row that has been filled.
IsWritten(w, ans, id, a) ==
  /\ AnswersTyped(w) /\ DOMAIN w = DOMAIN ans \cup {id}
  /\ \A k \in Ids : AnswerOf(w, k) = IF k = id THEN a ELSE AnswerOf(ans, k)
LEMMA WrittenIs ==
  ASSUME NEW ans, AnswersTyped(ans), NEW id \in Ids, NEW a \in RowAnswers
  PROVE  IsWritten(Written(ans, id, a), ans, id, a)
BY DEF AnswersTyped, Written, AnswerOf, IsWritten

IsWithout(w, ans, id) ==
  /\ AnswersTyped(w) /\ DOMAIN w = DOMAIN ans \ {id}
  /\ \A k \in Ids : AnswerOf(w, k) = IF k = id THEN Empty ELSE AnswerOf(ans, k)
LEMMA WithoutIs ==
  ASSUME NEW ans, AnswersTyped(ans), NEW id \in Ids
  PROVE  IsWithout(Without(ans, id), ans, id)
BY DEF AnswersTyped, Without, AnswerOf, IsWithout

LEMMA AnswerTyped ==
  ASSUME NEW ans, AnswersTyped(ans), NEW id \in Ids
  PROVE  AnswerOf(ans, id) \in RowAnswers /\ Empty \in RowAnswers /\ Empty.file = NoFile /\ NoFile \in Nat
BY DEF AnswersTyped, AnswerOf, Empty, RowAnswers, NoFile

LEMMA WrittenInRow ==
  ASSUME NEW rows, RowsOK(rows), NEW i \in 1..(Len(rows) - 1), rows[Len(rows)].id < MaxRow,
         NEW ans, AnswersTyped(ans), AnswersIn(rows, ans), NEW a \in RowAnswers
  PROVE  AnswersIn(Expanded(rows, i), Written(ans, rows[i].id, a))
<1>0. PICK k \in Ids : k = rows[i].id
  BY RowIs
<1>1. PICK d, w : d = Expanded(rows, i) /\ w = Written(ans, k, a)
  OBVIOUS
<1>2. /\ Len(d) \in {Len(rows), Len(rows) + 1} /\ i \in 1..(Len(d) - 2)
      /\ \A l \in 1..Len(rows) : d[l].id = rows[l].id
      /\ Len(rows) \in Nat /\ Len(rows) >= 2
  BY <1>1, Grows, RowIs
<1>3. DOMAIN w = DOMAIN ans \cup {k}
  BY <1>0, <1>1, WrittenIs DEF IsWritten
<1>4. d[i].id = k
  BY <1>0, <1>2
<1>5. \A id \in DOMAIN w : \E l \in 1..(Len(d) - 2) : d[l].id = id
  <2> SUFFICES ASSUME NEW id \in DOMAIN w PROVE \E l \in 1..(Len(d) - 2) : d[l].id = id
    OBVIOUS
  <2>1. CASE id = k
    BY <1>2, <1>4, <2>1
  <2>2. CASE id \in DOMAIN ans /\ Len(rows) = 2 /\ id = 1
    <3>1. i = 1 /\ rows[1].id = 1
      BY <2>2 DEF RowsOK
    <3> QED BY <1>2, <2>2, <3>1
  <2>3. CASE \E l \in 1..(Len(rows) - 2) : rows[l].id = id
    <3>1. PICK n, m \in Nat : n = Len(rows) /\ m = Len(d) /\ m \in {n, n + 1}
      BY <1>2
    <3>2. PICK l \in 1..(n - 2) : rows[l].id = id
      BY <2>3, <3>1
    <3>3. l \in 1..n /\ l \in 1..(m - 2)
      BY <3>1, <3>2
    <3>4. d[l].id = id
      BY <1>2, <3>1, <3>2, <3>3
    <3> QED BY <3>1, <3>3, <3>4
  <2> QED BY <1>3, <2>1, <2>2, <2>3 DEF AnswersIn
<1>6. Len(d) > 2 => 1 \in DOMAIN w
  <2>1. PICK n \in Nat : n = Len(rows) /\ n >= 2
    BY <1>2
  <2>2. CASE n > 2
    BY <1>3, <2>1, <2>2 DEF AnswersIn
  <2>3. CASE n = 2
    BY <1>0, <1>3, <2>1, <2>3 DEF RowsOK
  <2> QED BY <2>1, <2>2, <2>3
<1> QED BY <1>0, <1>1, <1>5, <1>6 DEF AnswersIn

\* What is opened again: a row for each answered one, an open and a closed one after them.
LEMMA RenderIs ==
  ASSUME NEW ans, AnswersTyped(ans), NEW rows, RowsOK(rows), AnswersIn(rows, ans)
  PROVE  RowsOK(InitialRender(ans)) /\ AnswersIn(InitialRender(ans), ans)
<1>1. PICK S \in SUBSET Ids : S = DOMAIN ans
  BY DEF AnswersTyped
<1>3. PICK r : r = IF DOMAIN ans = {} THEN <<Prototype(1)>>
                   ELSE [i \in DOMAIN InOrder(DOMAIN ans) |-> Prototype(InOrder(DOMAIN ans)[i])]
  OBVIOUS
<1>4. PICK b \in BOOLEAN : b <=> (Len(r) > 1 \/ (r[1].id \in DOMAIN ans /\ ~IsEmpty(ans[r[1].id])))
  OBVIOUS
<1>5. /\ ~b => InitialRender(ans) = NewChild(r, FALSE)
      /\ b => InitialRender(ans) = NewChild(NewChild(r, TRUE), FALSE)
  BY <1>3, <1>4, Zenon DEF InitialRender, Prototype
<1>6. \A id \in Ids : Prototype(id) \in RowFields /\ Prototype(id).id = id
                      /\ Prototype(id).on /\ Prototype(id).required
  BY PrototypeIs
<1>7. CASE S = {}
  <2>1. r = <<Prototype(1)>>
    BY <1>1, <1>3, <1>7
  <2>2. r \in Seq(RowFields) /\ Len(r) = 1 /\ r[1].id = 1 /\ r[1].on /\ r[1].required
    BY <1>6, <2>1, RowsAssumed
  <2>3. PICK d : d = NewChild(r, FALSE)
    OBVIOUS
  <2>4. InitialRender(ans) = d
    <3>1. ~b
      BY <1>1, <1>4, <1>7, <2>2
    <3> QED BY <1>5, <2>3, <3>1, Zenon
  <2>5. d \in Seq(RowFields) /\ Len(d) = 2 /\ d[1] = r[1] /\ d[2].id = 2 /\ ~d[2].on
    <3>1. r[Len(r)].id < MaxRow /\ Len(r) >= 1
      BY <2>2, RowsAssumed
    <3>2. HasChild(d, r) /\ ~d[Len(r) + 1].on
      BY <2>2, <2>3, <3>1, ChildIs
    <3> QED BY <2>2, <3>2 DEF HasChild
  <2>6. RowsOK(d)
    <3>1. \A i, j \in 1..Len(d) : i < j => i = 1 /\ j = 2
      BY <2>5
    <3> QED BY <2>2, <2>5, <3>1 DEF RowsOK
  <2>7. AnswersIn(d, ans)
    BY <1>1, <1>7, <2>5 DEF AnswersIn
  <2> QED BY <2>4, <2>6, <2>7
<1>8. CASE S # {}
  <2>1. PICK n \in Nat : /\ InOrder(S) \in [1..n -> S]
                         /\ \A i, j \in 1..n : i < j => InOrder(S)[i] < InOrder(S)[j]
                         /\ \A id \in S : \E i \in 1..n : InOrder(S)[i] = id
    BY InOrderIs
  <2>2. PICK o : o = InOrder(S)
    OBVIOUS
  <2>3. /\ o \in [1..n -> S] /\ \A i \in 1..n : o[i] \in Ids
        /\ \A i, j \in 1..n : i < j => o[i] < o[j]
        /\ \A id \in S : \E i \in 1..n : o[i] = id
    BY <2>1, <2>2
  <2>4. n >= 1 /\ 1 \in 1..n /\ n \in 1..n
    BY <1>8, <2>3
  <2>5. r = [i \in 1..n |-> Prototype(o[i])]
    BY <1>1, <1>3, <1>8, <2>2, <2>3
  <2>6. /\ r \in Seq(RowFields) /\ Len(r) = n
        /\ \A i \in 1..n : r[i].id = o[i] /\ r[i].on /\ r[i].required
    <3>1. \A i \in 1..n : r[i] = Prototype(o[i])
      BY <2>5
    <3>2. r \in [1..n -> RowFields]
      BY <1>6, <2>3, <2>5
    <3>3. r \in Seq(RowFields) /\ Len(r) = n
      BY <3>2
    <3> QED BY <1>6, <2>3, <3>1, <3>3
  <2>7. 1 \in S
    <3>1. PICK id \in S : TRUE
      BY <1>8
    <3>2. PICK m \in Nat : m = Len(rows) /\ m >= 2
      BY RowIs
    <3>3. CASE m > 2
      BY <1>1, <3>2, <3>3 DEF AnswersIn
    <3>4. CASE m = 2
      BY <1>1, <3>1, <3>2, <3>4 DEF AnswersIn
    <3> QED BY <3>2, <3>3, <3>4
  <2>8. o[1] = 1
    <3>1. PICK i \in 1..n : o[i] = 1
      BY <2>3, <2>7
    <3>2. o[1] \in Nat /\ o[1] >= 1
      BY <2>3, <2>4, RowsAssumed
    <3>3. CASE i = 1
      BY <3>1, <3>3
    <3>4. CASE i # 1
      BY <2>3, <2>4, <3>1, <3>2, <3>4
    <3> QED BY <3>3, <3>4
  <2>9. CASE ~b
    <3>0. r[1].id = 1 /\ 1 \in DOMAIN ans
      BY <1>1, <2>4, <2>6, <2>7, <2>8
    <3>1. n = 1 /\ IsEmpty(ans[1])
      <4>1. ~(Len(r) > 1) /\ ~(r[1].id \in DOMAIN ans /\ ~IsEmpty(ans[r[1].id]))
        BY <1>4, <2>9
      <4>2. ~(n > 1)
        BY <2>6, <4>1
      <4>3. IsEmpty(ans[1])
        BY <3>0, <4>1, Zenon
      <4> QED BY <2>4, <4>2, <4>3
    <3>2. PICK d : d = NewChild(r, FALSE)
      OBVIOUS
    <3>3. InitialRender(ans) = d
      BY <1>5, <2>9, <3>2, Zenon
    <3>4. d \in Seq(RowFields) /\ Len(d) = 2 /\ d[1] = r[1] /\ d[2].id = 2 /\ ~d[2].on
      <4>1. r \in Seq(RowFields) /\ Len(r) = 1 /\ r[Len(r)].id = 1 /\ r[Len(r)].id < MaxRow /\ Len(r) >= 1
        BY <2>6, <3>0, <3>1, RowsAssumed
      <4>2. HasChild(d, r) /\ ~d[Len(r) + 1].on
        BY <3>2, <4>1, ChildIs
      <4> QED BY <4>1, <4>2 DEF HasChild
    <3>5. RowsOK(d)
      <4>1. \A i, j \in 1..Len(d) : i < j => i = 1 /\ j = 2
        BY <3>4
      <4> QED BY <2>4, <2>6, <2>8, <3>4, <4>1 DEF RowsOK
    <3>6. \A id \in S : id = 1
      BY <2>3, <2>8, <3>1
    <3>7. d[1].required
      BY <2>4, <2>6, <3>4
    <3>8. AnswersIn(d, ans)
      BY <1>1, <3>1, <3>4, <3>6, <3>7 DEF AnswersIn
    <3> QED BY <3>3, <3>5, <3>8
  <2>10. CASE b
    <3>1. o[n] + 2 <= MaxRow
      <4>1. o[n] \in DOMAIN ans /\ o[n] \in Nat
        BY <1>1, <2>3, <2>4, RowsAssumed
      <4>2. CASE \E i \in 1..(Len(rows) - 2) : rows[i].id = o[n]
        <5>1. PICK i \in 1..(Len(rows) - 2) : rows[i].id = o[n]
          BY <4>2
        <5>2. PICK m \in Nat : m = Len(rows) /\ m >= 3 /\ i <= m - 2
          BY <5>1, RowIs
        <5>3. i \in 1..m /\ m - 1 \in 1..m /\ m \in 1..m /\ i < m - 1 /\ m - 1 < m
          BY <5>2
        <5>4. rows[i].id < rows[m - 1].id /\ rows[m - 1].id < rows[m].id
          BY <5>2, <5>3 DEF RowsOK
        <5>5. rows[m - 1].id \in Nat /\ rows[m].id \in Nat /\ rows[m].id <= MaxRow
          BY <5>2, <5>3, RowIs
        <5> QED BY <4>1, <5>1, <5>4, <5>5, RowsAssumed
      <4>3. CASE Len(rows) = 2 /\ IsEmpty(ans[1])
        <5>1. \A id \in S : id = 1
          BY <1>1, <4>3 DEF AnswersIn
        <5>2. n = 1
          <6>1. o[n] = 1
            BY <2>3, <2>4, <5>1
          <6> QED BY <2>3, <2>4, <2>8, <6>1
        <5>3. Len(r) = 1 /\ r[1].id = 1
          BY <2>4, <2>6, <2>8, <5>2
        <5>4. ~b
          BY <1>4, <4>3, <5>3
        <5> QED BY <2>10, <5>4
      <4> QED BY <4>1, <4>2, <4>3 DEF AnswersIn
    <3>2. PICK e : e = NewChild(r, TRUE)
      OBVIOUS
    <3>3. PICK d : d = NewChild(e, FALSE)
      OBVIOUS
    <3>4. InitialRender(ans) = d
      BY <1>5, <2>10, <3>2, <3>3, Zenon
    <3>5. o[n] \in Nat /\ r[Len(r)].id = o[n]
      BY <2>3, <2>4, <2>6, RowsAssumed
    <3>6. /\ e \in Seq(RowFields) /\ Len(e) = n + 1
          /\ \A k \in 1..n : e[k] = r[k]
          /\ e[n + 1].id = o[n] + 1 /\ e[n + 1].on
      <4>1. r \in Seq(RowFields) /\ Len(r) = n /\ Len(r) >= 1 /\ r[Len(r)].id < MaxRow
        BY <2>4, <2>6, <3>1, <3>5, RowsAssumed
      <4>2. HasChild(e, r) /\ e[Len(r) + 1].on
        BY <3>2, <4>1, ChildIs
      <4> QED BY <3>5, <4>1, <4>2 DEF HasChild
    <3>7. /\ d \in Seq(RowFields) /\ Len(d) = n + 2
          /\ \A k \in 1..(n + 1) : d[k] = e[k]
          /\ d[n + 2].id = o[n] + 2 /\ ~d[n + 2].on
      <4>1. e \in Seq(RowFields) /\ Len(e) = n + 1 /\ Len(e) >= 1 /\ e[Len(e)].id < MaxRow
        BY <2>4, <3>1, <3>5, <3>6, RowsAssumed
      <4>2. HasChild(d, e) /\ ~d[Len(e) + 1].on
        BY <3>3, <4>1, ChildIs
      <4>3. Len(e) + 1 = n + 2 /\ e[Len(e)].id + 1 = o[n] + 2
        BY <3>5, <3>6
      <4> QED BY <3>6, <4>1, <4>2, <4>3 DEF HasChild
    <3>8. \A k \in 1..n : d[k].id = o[k] /\ d[k].on /\ d[k].required
      BY <2>6, <3>6, <3>7
    <3>9. d[n + 1].id = o[n] + 1 /\ d[n + 1].on
      BY <3>6, <3>7
    <3>10. \A i, j \in 1..(n + 2) : i < j => d[i].id < d[j].id
      <4>1. \A i \in 1..n : o[i] \in Nat /\ o[i] <= o[n]
        <5> SUFFICES ASSUME NEW i \in 1..n PROVE o[i] \in Nat /\ o[i] <= o[n]
          OBVIOUS
        <5>1. o[i] \in Nat
          BY <2>3, RowsAssumed
        <5>2. CASE i = n
          BY <5>1, <5>2
        <5>3. CASE i # n
          BY <2>3, <2>4, <3>5, <5>1, <5>3
        <5> QED BY <5>2, <5>3
      <4> SUFFICES ASSUME NEW i \in 1..(n + 2), NEW j \in 1..(n + 2), i < j PROVE d[i].id < d[j].id
        OBVIOUS
      <4>2. CASE j \in 1..n
        BY <2>3, <3>8, <4>2
      <4>3. CASE i \in 1..n /\ j \in {n + 1, n + 2}
        <5>1. d[i].id \in Nat /\ d[i].id <= o[n]
          BY <3>8, <4>1, <4>3
        <5>2. d[n + 1].id = o[n] + 1 /\ d[n + 2].id = o[n] + 2
          BY <3>7, <3>9
        <5> QED BY <3>5, <4>3, <5>1, <5>2
      <4>4. CASE i = n + 1 /\ j = n + 2
        BY <3>5, <3>7, <3>9, <4>4
      <4> QED BY <4>2, <4>3, <4>4
    <3>11. RowsOK(d)
      <4>1. \A i \in 1..(Len(d) - 1) : d[i].on
        <5> SUFFICES ASSUME NEW i \in 1..(n + 1) PROVE d[i].on
          BY <3>7
        <5> QED BY <3>8, <3>9
      <4>2. \A i \in 1..(Len(d) - 2) : d[i].required
        BY <3>7, <3>8
      <4>3. d[1].id = 1 /\ ~d[Len(d)].on /\ Len(d) >= 2
        BY <2>4, <2>8, <3>7, <3>8
      <4> QED BY <3>7, <3>10, <4>1, <4>2, <4>3 DEF RowsOK
    <3>12. AnswersIn(d, ans)
      <4>1. \A id \in S : \E i \in 1..(Len(d) - 2) : d[i].id = id
        BY <2>3, <3>7, <3>8
      <4> QED BY <1>1, <2>7, <4>1 DEF AnswersIn
    <3> QED BY <3>4, <3>11, <3>12
  <2> QED BY <1>4, <2>9, <2>10
<1> QED BY <1>7, <1>8

LEMMA RemoveAtIs ==
  ASSUME NEW rows \in Seq(RowFields), NEW i \in 1..Len(rows)
  PROVE  LET d == RemoveAt(rows, i) IN
         /\ d \in Seq(RowFields) /\ Len(d) = Len(rows) - 1
         /\ \A k \in 1..(Len(rows) - 1) : d[k] = IF k < i THEN rows[k] ELSE rows[k + 1]
<1>1. PICK n \in Nat : n = Len(rows)
  OBVIOUS
<1>2. PICK a : a = SubSeq(rows, 1, i - 1)
  OBVIOUS
<1>3. PICK b : b = SubSeq(rows, i + 1, n)
  OBVIOUS
<1>4. a \in Seq(RowFields) /\ Len(a) = i - 1 /\ \A k \in 1..(i - 1) : a[k] = rows[k]
  BY <1>1, <1>2
<1>5. b \in Seq(RowFields) /\ Len(b) = n - i /\ \A k \in 1..(n - i) : b[k] = rows[i + k]
  BY <1>1, <1>3
<1>6. PICK d : d = a \o b
  OBVIOUS
<1>7. RemoveAt(rows, i) = d
  BY <1>1, <1>2, <1>3, <1>6 DEF RemoveAt
<1>8. d \in Seq(RowFields) /\ Len(d) = n - 1
  BY <1>1, <1>4, <1>5, <1>6
<1>9. \A k \in 1..(n - 1) : d[k] = IF k < i THEN rows[k] ELSE rows[k + 1]
  <2> SUFFICES ASSUME NEW k \in 1..(n - 1) PROVE d[k] = IF k < i THEN rows[k] ELSE rows[k + 1]
    OBVIOUS
  <2>1. CASE k < i
    <3>1. k \in 1..(i - 1)
      BY <2>1
    <3>2. d[k] = a[k]
      BY <1>4, <1>5, <1>6, <3>1
    <3> QED BY <1>4, <2>1, <3>1, <3>2
  <2>2. CASE ~(k < i)
    <3>1. PICK m \in 1..(n - i) : m = k - (i - 1) /\ i + m = k + 1
      BY <1>1, <2>2
    <3>2. d[k] = b[m]
      BY <1>1, <1>4, <1>5, <1>6, <2>2, <3>1
    <3> QED BY <1>5, <2>2, <3>1, <3>2
  <2> QED BY <2>1, <2>2
<1> QED BY <1>1, <1>7, <1>8, <1>9

\* A row is removed, and the first of those that are left is the first row.
IsRemoved(rows, i, n, id, old, ans, d, w) ==
  /\ RowsOK(d) /\ Len(d) = n - 1 /\ d[n - 1].id = rows[n].id
  /\ \A k \in 1..n : k # i /\ rows[k].id # old =>
       \E l \in 1..(n - 1) : l <= k /\ (k = n \/ l < n - 1) /\ d[l].id = rows[k].id
  /\ AnswersTyped(w) /\ AnswersIn(d, w)
  /\ old \in Ids /\ old # id /\ (old # 1 => i = 1)
  /\ \A k \in Ids : AnswerOf(w, k) = IF k = 1 THEN AnswerOf(ans, old)
                                     ELSE IF k \in {old, id} THEN Empty ELSE AnswerOf(ans, k)
LEMMA RemovesRow ==
  ASSUME NEW rows, RowsOK(rows), NEW i \in 1..(Len(rows) - 2),
         NEW ans, AnswersTyped(ans), AnswersIn(rows, ans),
         NEW n \in Nat, n = Len(rows), NEW id, id = rows[i].id,
         NEW rest, rest = RemoveAt(rows, i), NEW old, old = rest[1].id,
         NEW left, left = Without(ans, id), NEW d, d = EnsureFirstChild(rest), NEW w, w = MovedAnswers(left, old)
  PROVE  IsRemoved(rows, i, n, id, old, ans, d, w) /\ AnswerOf(left, old) = AnswerOf(ans, old)
<1>1. n = Len(rows) /\ n >= 3 /\ i <= n - 2
  OBVIOUS
<1>2. rest = RemoveAt(rows, i)
  OBVIOUS
<1>3. old = rest[1].id
  OBVIOUS
<1>4. /\ rest \in Seq(RowFields) /\ Len(rest) = n - 1
      /\ \A k \in 1..(n - 1) : rest[k] = IF k < i THEN rows[k] ELSE rows[k + 1]
  <2>1. rows \in Seq(RowFields) /\ i \in 1..Len(rows)
    BY <1>1 DEF RowsOK
  <2> QED BY <1>1, <1>2, <2>1, RemoveAtIs
<1>5. /\ \A k \in 1..n : rows[k] \in RowFields /\ rows[k].id \in Ids /\ rows[k].id \in Nat
      /\ \A k, l \in 1..n : k < l => rows[k].id < rows[l].id
      /\ \A k \in 1..(n - 1) : rows[k].on
      /\ ~rows[n].on /\ rows[1].id = 1
      /\ \A k \in 1..(n - 2) : rows[k].required
  <2>1. \A k \in 1..n : rows[k] \in RowFields /\ rows[k].id \in Ids /\ rows[k].id \in Nat
    BY <1>1, RowIs
  <2> QED BY <1>1, <2>1 DEF RowsOK
<1>6. PICK t : t = TRUE
  OBVIOUS
<1>7. PICK g : g = Field(1, rest[1].on, t)
  OBVIOUS
<1>8. d = [rest EXCEPT ![1] = g]
  BY <1>4, <1>6, <1>7 DEF EnsureFirstChild
<1>10. rest[1] \in RowFields /\ (rest[1] = rows[1] \/ (i = 1 /\ rest[1] = rows[2]))
  BY <1>1, <1>4, <1>5
<1>11. g \in RowFields /\ g.id = 1 /\ g.on = rest[1].on /\ g.required
  BY <1>6, <1>7, <1>10, RowsAssumed DEF Field, RowFields
<1>12. /\ d \in Seq(RowFields) /\ Len(d) = n - 1 /\ d[1] = g
       /\ \A k \in 2..(n - 1) : d[k] = rest[k]
  <2>1. d = [k \in 1..(n - 1) |-> IF k = 1 THEN g ELSE rest[k]]
    <3>1. rest \in [1..(n - 1) -> RowFields] /\ 1 \in 1..(n - 1)
      BY <1>1, <1>4
    <3> QED BY <1>8, <3>1
  <2>2. d \in [1..(n - 1) -> RowFields]
    BY <1>4, <1>11, <2>1
  <2>3. d \in Seq(RowFields) /\ Len(d) = n - 1
    BY <1>1, <2>2
  <2> QED BY <1>1, <2>1, <2>3
<1>13. \A k \in 2..(n - 1) : d[k] = IF k < i THEN rows[k] ELSE rows[k + 1]
  BY <1>4, <1>12
<1>14. RowsOK(d)
  <2>1. \A k, l \in 1..Len(d) : k < l => d[k].id < d[l].id
    <3> SUFFICES ASSUME NEW k \in 1..(n - 1), NEW l \in 1..(n - 1), k < l PROVE d[k].id < d[l].id
      BY <1>12
    <3>0. l \in 2..(n - 1)
      OBVIOUS
    <3>1. PICK m \in 2..n : d[l] = rows[m] /\ m \in {l, l + 1} /\ (l < i => m = l) /\ (~(l < i) => m = l + 1)
      <4>1. CASE l < i
        BY <1>13, <3>0, <4>1
      <4>2. CASE ~(l < i)
        BY <1>1, <1>13, <3>0, <4>2
      <4> QED BY <4>1, <4>2
    <3>2. CASE k = 1
      <4>1. 1 \in 1..n /\ m \in 1..n /\ 1 < m
        BY <1>1
      <4>2. rows[1].id < rows[m].id
        BY <1>5, <4>1
      <4> QED BY <1>5, <1>11, <1>12, <3>1, <3>2, <4>2
    <3>3. CASE k # 1
      <4>1. PICK p \in 2..n : d[k] = rows[p] /\ p \in {k, k + 1} /\ (k < i => p = k) /\ (~(k < i) => p = k + 1)
        <5>0. k \in 2..(n - 1)
          BY <3>3
        <5>1. CASE k < i
          BY <1>13, <5>0, <5>1
        <5>2. CASE ~(k < i)
          BY <1>1, <1>13, <5>0, <5>2
        <5> QED BY <5>1, <5>2
      <4>2. p \in 1..n /\ m \in 1..n /\ p < m
        BY <3>1, <4>1
      <4> QED BY <1>5, <3>1, <4>1, <4>2
    <3> QED BY <3>2, <3>3
  <2>2. \A k \in 1..(Len(d) - 1) : d[k].on
    <3> SUFFICES ASSUME NEW k \in 1..(n - 2) PROVE d[k].on
      BY <1>1, <1>12
    <3>1. CASE k = 1
      BY <1>1, <1>5, <1>10, <1>11, <1>12, <3>1
    <3>2. CASE k # 1
      <4>1. k \in 2..(n - 1) /\ k \in 1..(n - 1) /\ k + 1 \in 1..(n - 1)
        BY <3>2
      <4> QED BY <1>5, <1>13, <4>1
    <3> QED BY <3>1, <3>2
  <2>3. ~d[Len(d)].on
    <3>1. n - 1 \in 2..(n - 1) /\ ~(n - 1 < i) /\ (n - 1) + 1 = n
      BY <1>1
    <3>2. d[n - 1] = rows[n]
      BY <1>13, <3>1
    <3> QED BY <1>5, <1>12, <3>2
  <2>4. \A k \in 1..(Len(d) - 2) : d[k].required
    <3> SUFFICES ASSUME NEW k \in 1..(n - 3) PROVE d[k].required
      BY <1>1, <1>12
    <3>1. CASE k = 1
      BY <1>11, <1>12, <3>1
    <3>2. CASE k # 1
      <4>1. k \in 2..(n - 1) /\ k \in 1..(n - 2) /\ k + 1 \in 1..(n - 2)
        BY <3>2
      <4> QED BY <1>5, <1>13, <4>1
    <3> QED BY <3>1, <3>2
  <2>5. d \in Seq(RowFields) /\ Len(d) >= 2 /\ d[1].id = 1
    BY <1>1, <1>11, <1>12
  <2> QED BY <2>1, <2>2, <2>3, <2>4, <2>5 DEF RowsOK
<1>15. d[n - 1].id = rows[n].id
  <2>1. n - 1 \in 2..(n - 1) /\ ~(n - 1 < i) /\ (n - 1) + 1 = n
    BY <1>1
  <2> QED BY <1>13, <2>1
<1>16. old \in Ids /\ old # rows[i].id /\ (old # 1 => i = 1)
  <2>1. CASE i = 1
    <3>1. rest[1] = rows[2] /\ 1 \in 1..n /\ 2 \in 1..n
      BY <1>1, <1>4, <2>1
    <3> QED BY <1>3, <1>5, <2>1, <3>1
  <2>2. CASE i # 1
    <3>1. rest[1] = rows[1] /\ 1 \in 1..n /\ i \in 1..n /\ 1 < i
      BY <1>1, <1>4, <2>2
    <3> QED BY <1>3, <1>5, <2>2, <3>1
  <2> QED BY <2>1, <2>2
<1>17. \A k \in 1..n : k # i /\ rows[k].id # old => \E l \in 1..(n - 1) : l <= k /\ (k = n \/ l < n - 1) /\ d[l].id = rows[k].id
  <2> SUFFICES ASSUME NEW k \in 1..n, k # i, rows[k].id # old
               PROVE \E l \in 1..(n - 1) : l <= k /\ (k = n \/ l < n - 1) /\ d[l].id = rows[k].id
    OBVIOUS
  <2>1. CASE k < i
    <3>1. CASE k = 1
      <4>1. d[1].id = rows[k].id /\ 1 \in 1..(n - 1) /\ 1 < n - 1
        BY <1>1, <1>5, <1>11, <1>12, <2>1, <3>1
      <4> QED BY <3>1, <4>1
    <3>2. CASE k # 1
      <4>1. k \in 2..(n - 1) /\ k \in 1..(n - 1) /\ k < n - 1
        BY <1>1, <2>1, <3>2
      <4>2. d[k] = rows[k]
        BY <1>13, <2>1, <4>1
      <4> QED BY <4>1, <4>2
    <3> QED BY <3>1, <3>2
  <2>2. CASE i < k
    <3>1. PICK l \in 1..(n - 1) : l = k - 1 /\ ~(l < i) /\ l + 1 = k
      BY <1>1, <2>2
    <3>2. l # 1
      <4> SUFFICES ASSUME l = 1 PROVE FALSE
        OBVIOUS
      <4>1. rest[1] = rows[k]
        BY <1>1, <1>4, <3>1
      <4> QED BY <1>3, <4>1
    <3>3. d[l] = rows[k]
      BY <1>13, <3>1, <3>2
    <3> QED BY <3>1, <3>3
  <2> QED BY <2>1, <2>2
<1>18. id \in Ids /\ id = rows[i].id
  BY <1>1, <1>5
<1>19. left = Without(ans, id)
  OBVIOUS
<1>20. /\ AnswersTyped(left) /\ DOMAIN left = DOMAIN ans \ {id}
       /\ \A k \in Ids : AnswerOf(left, k) = IF k = id THEN Empty ELSE AnswerOf(ans, k)
  <2>1. IsWithout(left, ans, id)
    BY <1>18, <1>19, WithoutIs
  <2> QED BY <2>1 DEF IsWithout
<1>21. PICK more : more = Without(left, old)
  OBVIOUS
<1>22. /\ AnswersTyped(more) /\ DOMAIN more = (DOMAIN ans \ {id}) \ {old}
       /\ \A k \in Ids : AnswerOf(more, k) = IF k = old THEN Empty ELSE AnswerOf(left, k)
  <2>1. old \in Ids /\ AnswersTyped(left)
    BY <1>16, <1>20
  <2>2. IsWithout(more, left, old)
    BY <1>21, <2>1, WithoutIs
  <2> QED BY <1>20, <2>2 DEF IsWithout
<1>23. PICK a \in RowAnswers : a = AnswerOf(left, old)
  BY <1>16, <1>20, AnswerTyped
<1>24. w = Written(more, 1, a)
  BY <1>21, <1>23 DEF MovedAnswers
<1>25. /\ AnswersTyped(w) /\ DOMAIN w = ((DOMAIN ans \ {id}) \ {old}) \cup {1}
       /\ \A k \in Ids : AnswerOf(w, k) = IF k = 1 THEN a ELSE AnswerOf(more, k)
  <2>1. PICK one \in Ids : one = 1
    BY RowsAssumed
  <2>2. a \in RowAnswers /\ AnswersTyped(more) /\ one \in Ids /\ w = Written(more, one, a)
    BY <1>22, <1>23, <1>24, <2>1
  <2>3. IsWritten(w, more, one, a)
    BY <2>2, WrittenIs
  <2> QED BY <1>22, <2>1, <2>3 DEF IsWritten
<1>27. AnswersIn(d, w)
  <2>1. \A x \in DOMAIN ans : \E l \in 1..(n - 2) : rows[l].id = x
    BY <1>1 DEF AnswersIn
  <2>2. CASE n = 3
    <3>1. i = 1 /\ rest[1] = rows[2] /\ id = 1 /\ old = rows[2].id
      BY <1>1, <1>3, <1>4, <1>5, <1>18, <2>2
    <3>2. \A x \in DOMAIN ans : x = 1
      BY <1>5, <2>1, <2>2
    <3>3. 1 \in 1..n /\ 2 \in 1..n
      BY <2>2
    <3>4. old # 1
      BY <1>5, <3>1, <3>3
    <3>5. old \notin DOMAIN left
      BY <1>20, <3>2, <3>4
    <3>6. a = Empty
      BY <1>23, <3>5 DEF AnswerOf
    <3>7. DOMAIN w = {1} /\ w[1] = a
      BY <1>25, <1>24, <3>1, <3>2, RowsAssumed DEF Written
    <3> QED BY <1>11, <1>12, <2>2, <3>6, <3>7 DEF AnswersIn, IsEmpty
  <2>3. CASE n # 3
    <3>1. \A x \in DOMAIN w : \E l \in 1..(n - 3) : d[l].id = x
      <4> SUFFICES ASSUME NEW x \in DOMAIN w PROVE \E l \in 1..(n - 3) : d[l].id = x
        OBVIOUS
      <4>1. CASE x = 1
        BY <1>1, <1>11, <1>12, <2>3, <4>1
      <4>2. CASE x # 1
        <5>1. x \in DOMAIN ans /\ x # id /\ x # old
          BY <1>25, <4>2
        <5>2. PICK k \in 1..(n - 2) : rows[k].id = x
          BY <2>1, <5>1
        <5>3. k # i
          BY <1>18, <5>1, <5>2
        <5>4. CASE k < i
          <6>1. k # 1 /\ k \in 2..(n - 1) /\ k \in 1..(n - 3)
            BY <1>1, <1>5, <4>2, <5>2, <5>4
          <6>2. d[k] = rows[k]
            BY <1>13, <5>4, <6>1
          <6> QED BY <5>2, <6>1, <6>2
        <5>5. CASE i < k
          <6>1. PICK l \in 1..(n - 3) : l = k - 1 /\ ~(l < i) /\ l + 1 = k
            BY <1>1, <5>5
          <6>2. l # 1
            <7> SUFFICES ASSUME l = 1 PROVE FALSE
              OBVIOUS
            <7>1. rest[1] = rows[k]
              BY <1>1, <1>4, <6>1
            <7> QED BY <1>3, <5>1, <5>2, <7>1
          <6>3. d[l] = rows[k]
            BY <1>1, <1>13, <6>1, <6>2
          <6> QED BY <5>2, <6>1, <6>3
        <5> QED BY <5>3, <5>4, <5>5
      <4> QED BY <4>1, <4>2
    <3> QED BY <1>1, <1>12, <1>25, <3>1 DEF AnswersIn
  <2> QED BY <2>2, <2>3
<1>28. \A k \in Ids : AnswerOf(w, k) = IF k = 1 THEN AnswerOf(left, old)
                                       ELSE IF k \in {old, id} THEN Empty ELSE AnswerOf(ans, k)
  BY <1>20, <1>22, <1>23, <1>25
<1>29. AnswerOf(left, old) = AnswerOf(ans, old)
  BY <1>16, <1>18, <1>20
<1>30. Len(d) = n - 1 /\ d[n - 1].id = rows[n].id
  BY <1>12, <1>15
<1>31. \A k \in Ids : AnswerOf(w, k) = IF k = 1 THEN AnswerOf(ans, old)
                                       ELSE IF k \in {old, id} THEN Empty ELSE AnswerOf(ans, k)
  BY <1>28, <1>29
<1> QED BY <1>14, <1>16, <1>17, <1>18, <1>25, <1>27, <1>29, <1>30, <1>31, Zenon DEF IsRemoved

-----------------------------------------------------------------------------

\* A row that is on, or that a request is about, is not the last.
LEMMA OpenRow ==
  ASSUME RowsInv, NEW i \in DOMAIN content, content[i].on
  PROVE  i \in 1..(Len(content) - 1) /\ content[i].id \in Ids /\ content[i].id < content[Last1].id /\ InRow(content[i].id)
<1>0. RowsOK(content)
  BY DEF RowsInv
<1>1. PICK n \in Nat : n = Len(content) /\ n >= 2 /\ DOMAIN content = 1..n
  BY <1>0, RowIs
<1>2. i \in 1..(n - 1)
  BY <1>0, <1>1 DEF RowsOK
<1>3. content[i].id < content[n].id /\ content[i].id \in Ids
  <2>1. content[i].id < content[n].id
    BY <1>0, <1>1, <1>2 DEF RowsOK
  <2> QED BY <1>0, <1>1, <1>2, <2>1, RowIs
<1> QED BY <1>1, <1>2, <1>3 DEF Last1, InRow

\* What a growing of the rows, and what is written in one, leaves true of requests.
LEMMA Extends ==
  ASSUME NEW rows, RowsOK(rows), NEW i \in 1..(Len(rows) - 1), rows[Len(rows)].id < MaxRow
  PROVE  \A k \in 1..(Len(rows) - 1) :
           k \in 1..(Len(Expanded(rows, i)) - 1) /\ Expanded(rows, i)[k].id = rows[k].id
<1>1. PICK n \in Nat : n = Len(rows) /\ n >= 2
  BY DEF RowsOK
<1>2. PICK d : d = Expanded(rows, i)
  OBVIOUS
<1>3. Len(d) \in {n, n + 1} /\ \A k \in 1..n : d[k].id = rows[k].id
  BY <1>1, <1>2, Grows
<1> QED BY <1>1, <1>2, <1>3

LEMMA EditKeeps ==
  ASSUME RowsInv, NEW i \in DOMAIN content, EditRow(i)
  PROVE  RowsInv'
<1>1. PICK text \in {0, 1} :
        /\ RoomToGrow /\ content[i].on /\ rowActs < MaxRowActs
        /\ answers' = Written(answers, content[i].id, [AnswerOf(answers, content[i].id) EXCEPT !.text = text])
        /\ content' = Expanded(content, i) /\ rowActs' = rowActs + 1
        /\ UNCHANGED <<attachments, files, everFile, fileCalls, fileCause>>
  BY Zenon DEF EditRow, CanActOnRow, ActOnRow
<1>2. i \in 1..(Len(content) - 1) /\ content[i].id \in Ids /\ Len(content) \in Nat /\ Len(content) >= 2
  BY <1>1, OpenRow DEF RowsInv, RowsOK
<1>3. PICK id \in Ids, old \in RowAnswers : id = content[i].id /\ old = AnswerOf(answers, id)
  BY <1>2, AnswerTyped DEF RowsInv, RowsTyped
<1>4. PICK a : a = [old EXCEPT !.text = text]
  OBVIOUS
<1>4a. a \in RowAnswers /\ a.file = old.file
  BY <1>3, <1>4 DEF RowAnswers
<1>5. answers' = Written(answers, id, a)
  BY <1>1, <1>3, <1>4
<1>5a. AnswersTyped(answers)
  BY DEF RowsInv, RowsTyped
<1>6. content[Len(content)].id < MaxRow
  BY <1>1 DEF RoomToGrow, Last
<1>7. RowsOK(content') /\ content[Last1].id <= content'[Len(content')].id
  BY <1>1, <1>2, <1>6, Grows DEF RowsInv, Last1
<1>8. AnswersIn(content', answers')
  BY <1>1, <1>2, <1>3, <1>4a, <1>5, <1>5a, <1>6, WrittenInRow DEF RowsInv
<1>9. /\ AnswersTyped(answers')
      /\ \A k \in Ids : AnswerOf(answers', k).file = AnswerOf(answers, k).file
  <2>1. /\ AnswersTyped(answers')
        /\ \A k \in Ids : AnswerOf(answers', k) = IF k = id THEN a ELSE AnswerOf(answers, k)
    <3>1. id \in Ids /\ a \in RowAnswers
      BY <1>3, <1>4a
    <3>2. IsWritten(answers', answers, id, a)
      BY <1>5, <1>5a, <3>1, WrittenIs
    <3> QED BY <3>2 DEF IsWritten
  <2> QED BY <1>3, <1>4a, <2>1
<1>10. \A k \in Ids : InRow(k) => InRow(k)'
  BY <1>1, <1>2, <1>6, Extends DEF RowsInv, InRow, Last1
<1>11. \A c \in fileCalls : CallOK(c) /\ c.id \in Ids /\ c.id \in Nat /\ c.id < content[Last1].id
  BY RowsAssumed DEF RowsInv, RowsTyped, CallOK
<1>12. content[Last1].id \in Nat /\ content'[Len(content')].id \in Nat
  <2>1. content[Last1] \in RowFields /\ content'[Len(content')] \in RowFields
    BY <1>7 DEF RowsInv, RowsOK, Last1
  <2> QED BY <2>1, RowsAssumed DEF RowFields
<1>13. RowsTyped'
  <2>1. \A c \in fileCalls : c.id < content'[Len(content')].id
    BY <1>7, <1>11, <1>12
  <2> QED BY <1>1, <1>9, <1>11, <2>1 DEF RowsInv, RowsTyped, Last1
<1>14. FilesKnown'
  BY <1>1 DEF RowsInv, FilesKnown
<1>15. NamesFollow'
  <2>1. \A k \in Ids : Named(k)' <=> Named(k)
    BY <1>1, <1>9 DEF Named
  <2>2. \A k : Meets(k)' <=> Meets(k)
    BY <1>1 DEF Meets
  <2> QED BY <1>1, <1>9, <1>10, <1>11, <2>1, <2>2 DEF RowsInv, NamesFollow
<1> QED BY <1>7, <1>8, <1>13, <1>14, <1>15 DEF RowsInv

\* A request about a row that none is about yet.
LEMMA CallIs ==
  ASSUME NEW how \in {"put", "delete"}, NEW id \in Ids, NEW file \in Nat
  PROVE  LET c == FileCall(how, id, file) IN
         CallOK(c) /\ c.kind = how /\ c.id = id /\ c.file = file /\ c.at = "sent"
<1>1. PICK n : n = CHOOSE m \in 1..(Cardinality(fileCalls) + 1) : \A c \in fileCalls : c.n # m
  OBVIOUS
<1>2. PICK at : at = "sent"
  OBVIOUS
<1>3. PICK c : c = [n |-> n, kind |-> how, id |-> id, file |-> file, at |-> at]
  OBVIOUS
<1>4. FileCall(how, id, file) = c
  BY <1>1, <1>2, <1>3 DEF FileCall
<1>5. CallOK(c) /\ c.kind = how /\ c.id = id /\ c.file = file /\ c.at = at
  BY <1>2, <1>3 DEF CallOK
<1> QED BY <1>2, <1>4, <1>5

\* The page asks for a file to be put or deleted, and nothing else changes.
LEMMA AsksKeeps ==
  ASSUME RowsInv, NEW i \in DOMAIN content, content[i].on,
         NEW how \in {"put", "delete"}, NEW file \in Nat, how = "delete" => file = NoFile,
         fileCalls' = fileCalls \cup {FileCall(how, content[i].id, file)},
         BlameFile(IF Meets(content[i].id) THEN {"calls_met"} ELSE {}),
         rowActs' = rowActs + 1, UNCHANGED <<content, answers, attachments, files, everFile>>
  PROVE  RowsInv'
<1>1. PICK id \in Ids : id = content[i].id /\ id < content[Last1].id /\ InRow(id)
  BY OpenRow
<1>2. PICK e : e = FileCall(how, id, file)
  OBVIOUS
<1>3. CallOK(e) /\ e.kind = how /\ e.id = id /\ e.file = file /\ e.at = "sent"
  BY <1>2, CallIs
<1>4. fileCalls' = fileCalls \cup {e}
  BY <1>1, <1>2
<1>5. RowsOK(content') /\ AnswersIn(content', answers')
  BY DEF RowsInv
<1>6. RowsTyped'
  BY <1>1, <1>3, <1>4 DEF RowsInv, RowsTyped, Last1
<1>7. FilesKnown'
  BY <1>3, <1>4 DEF RowsInv, FilesKnown
<1>8. NamesFollow'
  <2> SUFFICES ASSUME fileCause' = {} PROVE NamesFollow'
    BY DEF NamesFollow
  <2>1. fileCause = {} /\ ~Meets(id)
    BY <1>1 DEF BlameFile
  <2>2. /\ \A c, d \in fileCalls : c.id = d.id => c = d
        /\ \A k \in Ids : Meets(k) \/ Named(k)
        /\ \A c \in fileCalls :
             /\ c.kind = "put" => InRow(c.id)
             /\ c.kind = "put" /\ c.at = "sent" => Named(c.id)
             /\ c.id \notin everFile => AnswerOf(answers, c.id).file = NoFile
             /\ c.at = "answered" => files[c.id] = c.file
    BY <2>1 DEF RowsInv, NamesFollow
  <2>3. \A c \in fileCalls : c.id # id
    BY <2>1 DEF Meets
  <2>4. Named(id) /\ \A k \in Ids : Named(k)' <=> Named(k)
    BY <2>1, <2>2 DEF Named
  <2>5. \A k : InRow(k)' <=> InRow(k)
    BY DEF InRow, Last1
  <2>6. \A k \in Ids : Meets(k) => Meets(k)'
    BY <1>4 DEF Meets
  <2>7. \A c \in fileCalls : c.id \in Ids
    BY DEF RowsInv, RowsTyped, CallOK
  <2>8. id \notin everFile => AnswerOf(answers, id).file = NoFile
    BY <2>4 DEF RowsInv, FilesKnown, Named
  <2>9. \A c, d \in fileCalls' : c.id = d.id => c = d
    BY <1>3, <1>4, <2>2, <2>3
  <2>10. \A k \in Ids : Meets(k)' \/ Named(k)'
    BY <2>2, <2>4, <2>6
  <2>11. \A c \in fileCalls' :
             /\ c.kind = "put" => InRow(c.id)'
             /\ c.kind = "put" /\ c.at = "sent" => Named(c.id)'
             /\ c.id \notin everFile => AnswerOf(answers, c.id).file = NoFile
             /\ c.at = "answered" => files[c.id] = c.file
    BY <1>1, <1>3, <1>4, <2>2, <2>4, <2>5, <2>7, <2>8
  <2> QED BY <2>9, <2>10, <2>11 DEF NamesFollow
<1> QED BY <1>5, <1>6, <1>7, <1>8 DEF RowsInv

LEMMA UploadKeeps ==
  ASSUME RowsInv, NEW i \in DOMAIN content, UploadFile(i)
  PROVE  RowsInv'
<1>1. /\ content[i].on /\ fileCalls' = fileCalls \cup {FileCall("put", content[i].id, rowActs + 1)}
      /\ BlameFile(IF Meets(content[i].id) THEN {"calls_met"} ELSE {})
      /\ rowActs' = rowActs + 1 /\ UNCHANGED <<content, answers, attachments, files, everFile>>
  BY Zenon DEF UploadFile, ActOnRow
<1>2. rowActs + 1 \in Nat
  BY DEF RowsInv, RowsTyped
<1> QED BY <1>1, <1>2, AsksKeeps

LEMMA DeleteKeeps ==
  ASSUME RowsInv, NEW i \in DOMAIN content, DeleteFile(i)
  PROVE  RowsInv'
<1>1. /\ content[i].on /\ fileCalls' = fileCalls \cup {FileCall("delete", content[i].id, NoFile)}
      /\ BlameFile(IF Meets(content[i].id) THEN {"calls_met"} ELSE {})
      /\ rowActs' = rowActs + 1 /\ UNCHANGED <<content, answers, attachments, files, everFile>>
  BY Zenon DEF DeleteFile, ActOnRow
<1>2. NoFile \in Nat
  BY DEF NoFile
<1> QED BY <1>1, <1>2, AsksKeeps

LEMMA RemoveKeeps ==
  ASSUME RowsInv, NEW i \in DOMAIN content, RemoveRow(i)
  PROVE  RowsInv'
<1>1. PICK rest, left, old, id :
        /\ rest = RemoveAt(content, i) /\ id = content[i].id /\ left = Without(answers, id) /\ old = rest[1].id
        /\ content[i].on /\ i # Last1 - 1
        /\ content' = EnsureFirstChild(rest) /\ answers' = MovedAnswers(left, old)
        /\ fileCalls' = fileCalls \cup {FileCall("delete", id, NoFile)}
        /\ BlameFile((IF Meets(id) THEN {"calls_met"} ELSE {})
             \cup (IF old # 1 /\ (AnswerOf(left, old).file # NoFile \/ Meets(old)) THEN {"file_moved"} ELSE {}))
        /\ rowActs' = rowActs + 1 /\ UNCHANGED <<attachments, files, everFile>>
  BY Zenon DEF RemoveRow, ActOnRow
<1>2. PICK n \in Nat : n = Len(content) /\ n >= 3 /\ i \in 1..(n - 2)
  <2>1. Len(content) \in Nat
    BY DEF RowsInv, RowsOK
  <2> QED BY <1>1, <2>1, OpenRow DEF Last1
<1>3. /\ id \in Ids /\ id < content[n].id
      /\ RowsOK(content) /\ AnswersIn(content, answers) /\ AnswersTyped(answers)
  BY <1>1, <1>2, OpenRow DEF RowsInv, RowsTyped, Last1
<1>4. /\ RowsOK(content') /\ Len(content') = n - 1 /\ content'[n - 1].id = content[n].id
      /\ \A k \in 1..n : k # i /\ content[k].id # old =>
           \E l \in 1..(n - 1) : l <= k /\ (k = n \/ l < n - 1) /\ content'[l].id = content[k].id
      /\ AnswersTyped(answers') /\ AnswersIn(content', answers')
      /\ old \in Ids /\ old # id /\ (old # 1 => i = 1)
      /\ \A k \in Ids : AnswerOf(answers', k) = IF k = 1 THEN AnswerOf(left, old)
                                                ELSE IF k \in {old, id} THEN Empty ELSE AnswerOf(answers, k)
      /\ AnswerOf(left, old) = AnswerOf(answers, old)
  <2>1. i \in 1..(Len(content) - 2)
    BY <1>2
  <2>2. IsRemoved(content, i, n, id, old, answers, content', answers') /\ AnswerOf(left, old) = AnswerOf(answers, old)
    BY <1>1, <1>2, <1>3, <2>1, RemovesRow
  <2> QED BY <2>2 DEF IsRemoved
<1>5. PICK e : e = FileCall("delete", id, NoFile)
  OBVIOUS
<1>6. CallOK(e) /\ e.kind = "delete" /\ e.id = id /\ e.file = NoFile /\ e.at = "sent"
  BY <1>3, <1>5, CallIs DEF NoFile
<1>7. fileCalls' = fileCalls \cup {e}
  BY <1>1, <1>5
<1>8. RowsTyped'
  <2>1. Last1' = n - 1 /\ Last1 = n
    BY <1>2, <1>4 DEF Last1
  <2> QED BY <1>1, <1>3, <1>4, <1>6, <1>7, <2>1 DEF RowsInv, RowsTyped
<1>9. FilesKnown'
  BY <1>1, <1>6, <1>7 DEF RowsInv, FilesKnown
<1>10. NamesFollow'
  <2> SUFFICES ASSUME fileCause' = {} PROVE NamesFollow'
    BY DEF NamesFollow
  <2>1. fileCause = {} /\ ~Meets(id) /\ (old # 1 => AnswerOf(left, old).file = NoFile /\ ~Meets(old))
    BY <1>1 DEF BlameFile
  <2>2. /\ \A c, d \in fileCalls : c.id = d.id => c = d
        /\ \A k \in Ids : Meets(k) \/ Named(k)
        /\ \A c \in fileCalls :
             /\ c.kind = "put" => InRow(c.id)
             /\ c.kind = "put" /\ c.at = "sent" => Named(c.id)
             /\ c.id \notin everFile => AnswerOf(answers, c.id).file = NoFile
             /\ c.at = "answered" => files[c.id] = c.file
    BY <2>1 DEF RowsInv, NamesFollow
  <2>3. content[1].id = 1 /\ (id = 1 => i = 1)
    <3>1. content[1].id = 1
      BY <1>3 DEF RowsOK
    <3>2. i # 1 => content[1].id < content[i].id
      BY <1>2, <1>3 DEF RowsOK
    <3> QED BY <1>1, <1>3, <3>1, <3>2, RowsAssumed
  <2>4. \A c \in fileCalls : c.id \in Ids /\ c.id # id /\ (old # 1 => c.id # old)
    BY <2>1 DEF Meets, RowsInv, RowsTyped, CallOK
  <2>5. old = 1 => id # 1
    BY <1>4
  <2>6. \A k \in Ids : k # id /\ (old = 1 \/ k \notin {1, old}) => AnswerOf(answers', k) = AnswerOf(answers, k)
    BY <1>4
  <2>7. id = 1 => old # 1
    BY <1>4
  <2>8. old # 1 => id = 1
    BY <1>1, <1>4, <2>3
  <2>9. \A k \in Ids : k # id /\ Named(k) => Named(k)'
    <3> SUFFICES ASSUME NEW k \in Ids, k # id, Named(k) PROVE Named(k)'
      OBVIOUS
    <3>1. CASE old = 1 \/ k \notin {1, old}
      BY <1>1, <2>6, <3>1 DEF Named
    <3>2. CASE old # 1 /\ k = old
      <4>1. AnswerOf(answers', k).file = NoFile
        BY <1>4, <3>2 DEF Empty
      <4>2. AnswerOf(answers, k).file = NoFile
        BY <1>4, <2>1, <3>2
      <4> QED BY <1>1, <4>1, <4>2 DEF Named
    <3>3. CASE old # 1 /\ k = 1
      BY <2>8, <3>3
    <3> QED BY <3>1, <3>2, <3>3
  <2>10. \A c, d \in fileCalls' : c.id = d.id => c = d
    BY <1>6, <1>7, <2>2, <2>4
  <2>11. \A k \in Ids : Meets(k)' \/ Named(k)'
    <3>1. Meets(id)' /\ \A k \in Ids : Meets(k) => Meets(k)'
      BY <1>6, <1>7 DEF Meets
    <3> QED BY <2>2, <2>9, <3>1
  <2>12. id \notin everFile => AnswerOf(answers', id).file = NoFile
    <3>1. CASE id = 1
      BY <1>3, <1>4, <2>1, <2>7, <3>1
    <3>2. CASE id # 1
      BY <1>3, <1>4, <3>2 DEF Empty
    <3> QED BY <3>1, <3>2
  <2>13. ASSUME NEW c \in fileCalls
         PROVE  /\ c.kind = "put" => InRow(c.id)'
                /\ c.kind = "put" /\ c.at = "sent" => Named(c.id)'
                /\ c.id \notin everFile => AnswerOf(answers', c.id).file = NoFile
                /\ c.at = "answered" => files[c.id] = c.file
    <3>1. AnswerOf(answers', c.id) = AnswerOf(answers, c.id)
      BY <2>4, <2>6, <2>8
    <3>2. c.kind = "put" => InRow(c.id)'
      <4> SUFFICES ASSUME c.kind = "put" PROVE InRow(c.id)'
        OBVIOUS
      <4>1. PICK k \in 1..(n - 1) : content[k].id = c.id
        BY <1>2, <2>2 DEF InRow, Last1
      <4>2. k # i
        BY <1>1, <2>4, <4>1
      <4>3. CASE c.id = old
        <5>1. c.id = 1 /\ content'[1].id = 1
          BY <1>4, <2>4, <4>3 DEF RowsOK
        <5>2. 1 \in 1..(n - 2)
          BY <1>2
        <5> QED BY <1>2, <1>4, <5>1, <5>2 DEF InRow, Last1
      <4>4. CASE c.id # old
        <5>1. PICK l \in 1..(n - 1) : l <= k /\ (k = n \/ l < n - 1) /\ content'[l].id = content[k].id
          BY <1>2, <1>4, <4>1, <4>2, <4>4
        <5>2. l \in 1..(n - 2)
          BY <1>2, <4>1, <5>1
        <5> QED BY <1>2, <1>4, <4>1, <5>1, <5>2 DEF InRow, Last1
      <4> QED BY <4>3, <4>4
    <3> QED BY <2>2, <2>4, <2>9, <3>1, <3>2
  <2> QED BY <1>1, <1>6, <1>7, <2>10, <2>11, <2>12, <2>13 DEF NamesFollow
<1> QED BY <1>4, <1>8, <1>9, <1>10 DEF RowsInv

LEMMA ReloadKeeps ==
  ASSUME RowsInv, Reload
  PROVE  RowsInv'
<1>1. /\ fileCalls = {} /\ content' = InitialRender(answers) /\ attachments' = files /\ rowActs' = rowActs + 1
      /\ UNCHANGED <<answers, files, everFile, fileCalls, fileCause>>
  BY Zenon DEF Reload, ActOnRow
<1>2. RowsOK(content') /\ AnswersIn(content', answers')
  <2> HIDE DEF RowsOK, AnswersIn, AnswersTyped, InitialRender
  <2> QED BY <1>1, RenderIs DEF RowsInv, RowsTyped
<1>3. RowsTyped'
  BY <1>1 DEF RowsInv, RowsTyped
<1>4. FilesKnown'
  BY <1>1 DEF RowsInv, FilesKnown
<1>5. NamesFollow'
  <2> SUFFICES ASSUME fileCause' = {} PROVE NamesFollow'
    BY DEF NamesFollow
  <2>1. \A k \in Ids : Named(k)
    BY <1>1 DEF RowsInv, NamesFollow, Meets
  <2>2. \A k \in Ids : Named(k)'
    BY <1>1, <2>1 DEF Named
  <2> QED BY <1>1, <2>2 DEF NamesFollow
<1> QED BY <1>2, <1>3, <1>4, <1>5 DEF RowsInv

LEMMA StoreKeeps ==
  ASSUME RowsInv, NEW c \in fileCalls, StoreFile(c)
  PROVE  RowsInv'
<1>1. c.at = "sent" /\ UNCHANGED <<content, answers, attachments, rowActs, fileCause>>
  BY Zenon DEF StoreFile
<1>2. RowsOK(content') /\ AnswersIn(content', answers')
  BY <1>1 DEF RowsInv
<1>3. /\ AnswersTyped(answers) /\ files \in [Ids -> Nat] /\ everFile \subseteq Ids
      /\ \A d \in fileCalls : CallOK(d) /\ d.id \in Ids /\ d.id < content[Last1].id /\ (d.kind = "delete" => d.file = NoFile)
  BY DEF RowsInv, RowsTyped, CallOK
<1>4. /\ \A id \in Ids \ everFile : files[id] = NoFile /\ attachments[id] = NoFile
      /\ \A d \in fileCalls : d.at = "answered" => d.id \in everFile
  BY DEF RowsInv, FilesKnown
<1>5. ASSUME fileCause' = {}
      PROVE  /\ \A d, e \in fileCalls : d.id = e.id => d = e
             /\ \A id \in Ids : Meets(id) \/ Named(id)
             /\ \A d \in fileCalls :
                  /\ d.kind = "put" => InRow(d.id)
                  /\ d.kind = "put" /\ d.at = "sent" => Named(d.id)
                  /\ d.id \notin everFile => AnswerOf(answers, d.id).file = NoFile
                  /\ d.at = "answered" => files[d.id] = d.file
  BY <1>1, <1>5 DEF RowsInv, NamesFollow
<1>6. \A k : InRow(k)' <=> InRow(k)
  BY <1>1 DEF InRow, Last1
<1>7. CASE c.kind = "delete" /\ c.id \notin everFile
  <2>1. fileCalls' = fileCalls \ {c} /\ UNCHANGED <<files, everFile>>
    BY <1>7 DEF StoreFile
  <2>2. RowsTyped'
    BY <1>1, <2>1 DEF RowsInv, RowsTyped, Last1
  <2>3. FilesKnown'
    BY <1>1, <2>1 DEF RowsInv, FilesKnown
  <2>4. NamesFollow'
    <3> SUFFICES ASSUME fileCause' = {} PROVE NamesFollow'
      BY DEF NamesFollow
    <3>1. \A k \in Ids : Named(k)' <=> Named(k)
      BY <1>1, <2>1 DEF Named
    <3>2. Named(c.id)
      BY <1>3, <1>4, <1>5, <1>7 DEF Named
    <3>3. \A k \in Ids : Meets(k)' \/ Named(k)'
      BY <1>5, <2>1, <3>1, <3>2 DEF Meets
    <3> QED BY <1>1, <1>3, <1>5, <1>6, <2>1, <3>1, <3>3 DEF NamesFollow
  <2> QED BY <1>2, <2>2, <2>3, <2>4 DEF RowsInv
<1>8. CASE ~(c.kind = "delete" /\ c.id \notin everFile)
  <2>1. PICK at : at = "answered"
    OBVIOUS
  <2>2. PICK e : e = [c EXCEPT !.at = at]
    OBVIOUS
  <2>3. /\ files' = [files EXCEPT ![c.id] = c.file] /\ everFile' = everFile \cup {c.id}
        /\ fileCalls' = (fileCalls \ {c}) \cup {e}
    BY <1>8, <2>1, <2>2 DEF StoreFile
  <2>4. CallOK(e) /\ e.id = c.id /\ e.kind = c.kind /\ e.file = c.file /\ e.at = "answered" /\ c.file \in Nat
    BY <1>3, <2>1, <2>2 DEF CallOK
  <2>5. files' \in [Ids -> Nat] /\ files'[c.id] = c.file /\ \A k \in Ids : k # c.id => files'[k] = files[k]
    BY <1>3, <2>3, <2>4
  <2>6. RowsTyped'
    <3>1. \A d \in fileCalls' : CallOK(d) /\ d.id < content[Last1].id /\ (d.kind = "delete" => d.file = NoFile)
      BY <1>3, <2>3, <2>4
    <3> QED BY <1>1, <1>3, <2>3, <2>5, <3>1 DEF RowsInv, RowsTyped, Last1
  <2>7. FilesKnown'
    <3>1. \A id \in Ids \ everFile' : files'[id] = NoFile /\ attachments'[id] = NoFile
      BY <1>1, <1>4, <2>3, <2>5
    <3>2. \A d \in fileCalls' : d.at = "answered" => d.id \in everFile'
      BY <1>4, <2>3, <2>4
    <3> QED BY <3>1, <3>2 DEF FilesKnown
  <2>8. NamesFollow'
    <3> SUFFICES ASSUME fileCause' = {} PROVE NamesFollow'
      BY DEF NamesFollow
    <3>1. \A k \in Ids : k # c.id => (Named(k)' <=> Named(k))
      BY <1>1, <2>5 DEF Named
    <3>2. \A d \in fileCalls : d # c => d.id # c.id
      BY <1>5
    <3>3. \A d, f \in fileCalls' : d.id = f.id => d = f
      BY <1>5, <2>3, <2>4, <3>2
    <3>4. \A k \in Ids : Meets(k) => Meets(k)'
      BY <2>3, <2>4 DEF Meets
    <3>5. Meets(c.id)
      BY DEF Meets
    <3>6. \A k \in Ids : Meets(k)' \/ Named(k)'
      BY <1>5, <3>1, <3>4, <3>5
    <3>7. \A d \in fileCalls' :
             /\ d.kind = "put" => InRow(d.id)'
             /\ d.kind = "put" /\ d.at = "sent" => Named(d.id)'
             /\ d.id \notin everFile' => AnswerOf(answers', d.id).file = NoFile
             /\ d.at = "answered" => files'[d.id] = d.file
      <4> SUFFICES ASSUME NEW d \in fileCalls'
                   PROVE  /\ d.kind = "put" => InRow(d.id)'
                          /\ d.kind = "put" /\ d.at = "sent" => Named(d.id)'
                          /\ d.id \notin everFile' => AnswerOf(answers', d.id).file = NoFile
                          /\ d.at = "answered" => files'[d.id] = d.file
        OBVIOUS
      <4>1. CASE d = e
        BY <1>5, <1>6, <2>3, <2>4, <2>5, <4>1
      <4>2. CASE d # e
        <5>1. d \in fileCalls /\ d # c /\ d.id # c.id /\ d.id \in Ids
          BY <1>3, <2>3, <3>2, <4>2
        <5> QED BY <1>1, <1>5, <1>6, <2>3, <2>5, <3>1, <5>1
      <4> QED BY <4>1, <4>2
    <3> QED BY <3>3, <3>6, <3>7 DEF NamesFollow
  <2> QED BY <1>2, <2>6, <2>7, <2>8 DEF RowsInv
<1> QED BY <1>7, <1>8

LEMMA AnsweredKeeps ==
  ASSUME RowsInv, NEW c \in fileCalls, FileAnswered(c)
  PROVE  RowsInv'
<1>1. /\ c.at = "answered" /\ RoomToGrow /\ fileCalls' = fileCalls \ {c}
      /\ attachments' = [attachments EXCEPT ![c.id] = c.file]
      /\ UNCHANGED <<files, everFile, rowActs, fileCause>>
  BY Zenon DEF FileAnswered
<1>2. \/ (\A i \in DOMAIN content : content[i].id # c.id) /\ UNCHANGED <<content, answers>>
      \/ \E i \in DOMAIN content :
           /\ content[i].id = c.id
           /\ answers' = Written(answers, c.id, [AnswerOf(answers, c.id) EXCEPT !.file = c.file])
           /\ content' = Expanded(content, i)
  <2>1. CASE {i \in DOMAIN content : content[i].id = c.id} = {}
    BY <2>1 DEF FileAnswered
  <2>2. CASE {i \in DOMAIN content : content[i].id = c.id} # {}
    <3>1. \E i \in {j \in DOMAIN content : content[j].id = c.id} :
            /\ answers' = Written(answers, c.id, [AnswerOf(answers, c.id) EXCEPT !.file = c.file])
            /\ content' = Expanded(content, i)
      BY <2>2, Zenon DEF FileAnswered
    <3> QED BY <3>1, Zenon
  <2> QED BY <2>1, <2>2
<1>3. /\ AnswersTyped(answers) /\ attachments \in [Ids -> Nat] /\ c.id \in Ids /\ c.file \in Nat /\ c.id \in Nat
      /\ c.kind \in {"put", "delete"} /\ (c.kind = "delete" => c.file = NoFile)
      /\ \A d \in fileCalls : CallOK(d) /\ d.id \in Ids /\ d.id \in Nat /\ d.id < content[Last1].id
  BY RowsAssumed DEF RowsInv, RowsTyped, CallOK
<1>4. PICK n \in Nat : n = Len(content) /\ n >= 2 /\ DOMAIN content = 1..n /\ content[n].id < MaxRow /\ content[n].id \in Nat
  <2>0. RowsOK(content)
    BY DEF RowsInv
  <2>1. PICK n \in Nat : n = Len(content) /\ n >= 2 /\ DOMAIN content = 1..n
    BY <2>0, RowIs
  <2>2. content[n].id \in Nat
    BY <2>0, <2>1, RowIs
  <2> QED BY <1>1, <2>1, <2>2 DEF RoomToGrow, Last
<1>5. /\ attachments' \in [Ids -> Nat] /\ attachments'[c.id] = c.file
      /\ \A k \in Ids : k # c.id => attachments'[k] = attachments[k]
  BY <1>1, <1>3
<1> DEFINE RowsFollow ==
        /\ RowsOK(content') /\ content[n].id <= content'[Len(content')].id
        /\ content'[Len(content')].id \in Nat
        /\ AnswersTyped(answers') /\ AnswersIn(content', answers')
        /\ \A k \in Ids : k # c.id => AnswerOf(answers', k) = AnswerOf(answers, k)
        /\ fileCause = {} => AnswerOf(answers', c.id).file = c.file
        /\ \A k \in Ids : InRow(k) => InRow(k)'
<1>6. RowsFollow
  <2>1. CASE (\A i \in DOMAIN content : content[i].id # c.id) /\ UNCHANGED <<content, answers>>
    <3>1. \A k \in Ids : InRow(k) => InRow(k)'
      BY <2>1 DEF InRow, Last1
    <3>2. fileCause = {} => AnswerOf(answers, c.id).file = c.file
      <4> SUFFICES ASSUME fileCause = {} PROVE AnswerOf(answers, c.id).file = c.file
        OBVIOUS
      <4>1. c.kind # "put"
        <5> SUFFICES ASSUME c.kind = "put" PROVE FALSE
          OBVIOUS
        <5>1. InRow(c.id)
          BY DEF RowsInv, NamesFollow
        <5> QED BY <1>4, <2>1, <5>1 DEF InRow, Last1
      <4>2. c.file = NoFile
        BY <1>3, <4>1
      <4>3. c.id \notin DOMAIN answers
        <5> SUFFICES ASSUME c.id \in DOMAIN answers PROVE FALSE
          OBVIOUS
        <5>1. CASE \E i \in 1..(Len(content) - 2) : content[i].id = c.id
          BY <1>4, <2>1, <5>1
        <5>2. CASE c.id = 1
          BY <1>4, <2>1, <5>2 DEF RowsInv, RowsOK
        <5> QED BY <5>1, <5>2 DEF RowsInv, AnswersIn
      <4> QED BY <4>2, <4>3 DEF AnswerOf, Empty
    <3> QED BY <1>3, <1>4, <2>1, <3>1, <3>2 DEF RowsInv
  <2>2. ASSUME NEW i \in DOMAIN content, content[i].id = c.id,
               answers' = Written(answers, c.id, [AnswerOf(answers, c.id) EXCEPT !.file = c.file]),
               content' = Expanded(content, i)
        PROVE  RowsFollow
    <3>1. i \in 1..(Len(content) - 1)
      BY <1>3, <1>4, <2>2 DEF Last1
    <3>2. PICK old \in RowAnswers : old = AnswerOf(answers, c.id)
      BY <1>3, AnswerTyped
    <3>3. PICK a : a = [old EXCEPT !.file = c.file]
      OBVIOUS
    <3>3a. a \in RowAnswers /\ a.file = c.file
      BY <1>3, <3>2, <3>3 DEF RowAnswers
    <3>4. answers' = Written(answers, content[i].id, a) /\ answers' = Written(answers, c.id, a)
      BY <2>2, <3>2, <3>3
    <3>5. RowsOK(content) /\ AnswersIn(content, answers) /\ content[Len(content)].id < MaxRow
      BY <1>4 DEF RowsInv
    <3>6. RowsOK(content') /\ content[n].id <= content'[Len(content')].id
      BY <1>4, <2>2, <3>1, <3>5, Grows
    <3>7. AnswersIn(content', answers')
      BY <1>3, <2>2, <3>1, <3>3a, <3>4, <3>5, WrittenInRow
    <3>8. /\ AnswersTyped(answers')
          /\ \A k \in Ids : AnswerOf(answers', k) = IF k = c.id THEN a ELSE AnswerOf(answers, k)
      <4>1. c.id \in Ids /\ a \in RowAnswers /\ AnswersTyped(answers) /\ answers' = Written(answers, c.id, a)
        BY <1>3, <3>3a, <3>4
      <4>2. IsWritten(answers', answers, c.id, a)
        BY <4>1, WrittenIs
      <4> QED BY <4>2 DEF IsWritten
    <3>9. \A k \in Ids : InRow(k) => InRow(k)'
      BY <2>2, <3>1, <3>5, Extends DEF InRow, Last1
    <3>10. content'[Len(content')].id \in Nat
      <4>1. PICK m \in Nat : m = Len(content') /\ m >= 2
        BY <3>6, RowIs
      <4> QED BY <3>6, <4>1, RowIs
    <3> QED BY <1>3, <3>3a, <3>6, <3>7, <3>8, <3>9, <3>10
  <2> QED BY <1>2, <2>1, <2>2
<1>7. RowsTyped'
  <2>1. \A d \in fileCalls' : d \in fileCalls
    BY <1>1
  <2>2. \A d \in fileCalls' : d.id < content'[Len(content')].id
    <3> SUFFICES ASSUME NEW d \in fileCalls' PROVE d.id < content'[Len(content')].id
      OBVIOUS
    <3>1. d.id \in Nat /\ d.id < content[n].id
      BY <1>3, <1>4, <2>1 DEF Last1
    <3> QED BY <1>4, <1>6, <3>1
  <2> QED BY <1>1, <1>5, <1>6, <2>1, <2>2 DEF RowsInv, RowsTyped, Last1
<1>8. FilesKnown'
  <2>1. c.id \in everFile
    BY <1>1 DEF RowsInv, FilesKnown
  <2> QED BY <1>1, <1>5, <2>1 DEF RowsInv, FilesKnown
<1>9. NamesFollow'
  <2> SUFFICES ASSUME fileCause' = {} PROVE NamesFollow'
    BY DEF NamesFollow
  <2>1. /\ fileCause = {}
        /\ \A d, e \in fileCalls : d.id = e.id => d = e
        /\ \A id \in Ids : Meets(id) \/ Named(id)
        /\ \A d \in fileCalls :
             /\ d.kind = "put" => InRow(d.id)
             /\ d.kind = "put" /\ d.at = "sent" => Named(d.id)
             /\ d.id \notin everFile => AnswerOf(answers, d.id).file = NoFile
             /\ d.at = "answered" => files[d.id] = d.file
    BY <1>1 DEF RowsInv, NamesFollow
  <2>2. Named(c.id)'
    BY <1>1, <1>5, <1>6, <2>1 DEF Named
  <2>3. \A k \in Ids : k # c.id => (Named(k)' <=> Named(k))
    BY <1>1, <1>5, <1>6 DEF Named
  <2>4. \A d \in fileCalls' : d \in fileCalls /\ d.id # c.id /\ d.id \in Ids
    BY <1>1, <1>3, <2>1
  <2>5. \A k \in Ids : k # c.id /\ Meets(k) => Meets(k)'
    BY <1>1 DEF Meets
  <2>6. \A k \in Ids : Meets(k)' \/ Named(k)'
    BY <2>1, <2>2, <2>3, <2>5
  <2> QED BY <1>1, <1>6, <2>1, <2>3, <2>4, <2>6 DEF NamesFollow
<1> QED BY <1>6, <1>7, <1>8, <1>9 DEF RowsInv

LEMMA FailedKeeps ==
  ASSUME RowsInv, NEW c \in fileCalls, FileFailed(c)
  PROVE  RowsInv'
<1>1. /\ fileCalls' = fileCalls \ {c} /\ BlameFile({"failed"})
      /\ UNCHANGED <<content, answers, attachments, files, everFile, rowActs>>
  BY Zenon DEF FileFailed
<1>2. fileCause' # {}
  BY <1>1 DEF BlameFile
<1>3. RowsTyped'
  BY <1>1 DEF RowsInv, RowsTyped, Last1
<1>4. FilesKnown'
  BY <1>1 DEF RowsInv, FilesKnown
<1>5. RowsOK(content') /\ AnswersIn(content', answers')
  BY <1>1 DEF RowsInv
<1> QED BY <1>2, <1>3, <1>4, <1>5 DEF RowsInv, NamesFollow

-----------------------------------------------------------------------------

LEMMA RowsStep == RowsInv /\ [RowsNext]_rowVars => RowsInv'
<1> SUFFICES ASSUME RowsInv, [RowsNext]_rowVars PROVE RowsInv'
  OBVIOUS
<1>1. CASE UNCHANGED rowVars
  <2>1. UNCHANGED <<content, answers, attachments, files, everFile, fileCalls, rowActs, fileCause>>
    BY <1>1, Zenon DEF rowVars
  <2>2. RowsOK(content') /\ AnswersIn(content', answers')
    BY <2>1 DEF RowsInv
  <2>3. RowsTyped'
    BY <2>1 DEF RowsInv, RowsTyped, Last1
  <2>4. FilesKnown'
    BY <2>1 DEF RowsInv, FilesKnown
  <2>5. NamesFollow'
    <3>1. \A k : (Named(k)' <=> Named(k)) /\ (Meets(k)' <=> Meets(k)) /\ (InRow(k)' <=> InRow(k))
      BY <2>1 DEF Named, Meets, InRow, Last1
    <3> QED BY <2>1, <3>1 DEF RowsInv, NamesFollow
  <2> QED BY <2>2, <2>3, <2>4, <2>5 DEF RowsInv
<1>2. ASSUME NEW i \in DOMAIN content, EditRow(i) PROVE RowsInv'
  BY <1>2, EditKeeps
<1>3. ASSUME NEW i \in DOMAIN content, UploadFile(i) PROVE RowsInv'
  BY <1>3, UploadKeeps
<1>4. ASSUME NEW i \in DOMAIN content, DeleteFile(i) PROVE RowsInv'
  BY <1>4, DeleteKeeps
<1>5. ASSUME NEW i \in DOMAIN content, RemoveRow(i) PROVE RowsInv'
  BY <1>5, RemoveKeeps
<1>6. CASE Reload
  BY <1>6, ReloadKeeps
<1>7. ASSUME NEW c \in fileCalls, StoreFile(c) PROVE RowsInv'
  BY <1>7, StoreKeeps
<1>8. ASSUME NEW c \in fileCalls, FileAnswered(c) PROVE RowsInv'
  BY <1>8, AnsweredKeeps
<1>9. ASSUME NEW c \in fileCalls, FileFailed(c) PROVE RowsInv'
  BY <1>9, FailedKeeps
<1> QED BY <1>1, <1>2, <1>3, <1>4, <1>5, <1>6, <1>7, <1>8, <1>9, Zenon DEF RowsNext

LEMMA RowsStart == RowsInit => RowsInv
<1> SUFFICES ASSUME RowsInit PROVE RowsInv
  OBVIOUS
<1>1. PICK none : none = <<>>
  OBVIOUS
<1>2. /\ answers = none /\ content = InitialRender(none) /\ attachments = [id \in Ids |-> NoFile]
      /\ files = attachments /\ everFile = {} /\ fileCalls = {} /\ rowActs = 0 /\ fileCause = {}
  BY <1>1 DEF RowsInit
<1>3. DOMAIN none = {} /\ AnswersTyped(none)
  <2>1. none \in Seq(RowAnswers) /\ Len(none) = 0
    BY <1>1
  <2>2. DOMAIN none = 1..0 /\ none \in [1..0 -> RowAnswers]
    BY <2>1
  <2> QED BY <2>2 DEF AnswersTyped
<1>4. \E rows : RowsOK(rows) /\ AnswersIn(rows, none)
  <2>1. PICK a, b : a = [id |-> 1, on |-> TRUE, required |-> TRUE] /\ b = [id |-> 2, on |-> FALSE, required |-> TRUE]
    OBVIOUS
  <2>2. PICK r : r = <<a, b>>
    OBVIOUS
  <2>3. a \in RowFields /\ b \in RowFields /\ a.id = 1 /\ b.id = 2 /\ a.on /\ ~b.on
    BY <2>1, RowsAssumed DEF RowFields
  <2>4. r \in Seq(RowFields) /\ Len(r) = 2 /\ r[1] = a /\ r[2] = b
    BY <2>2, <2>3
  <2>5. \A i, j \in 1..Len(r) : i < j => i = 1 /\ j = 2
    BY <2>4
  <2>6. RowsOK(r)
    BY <2>3, <2>4, <2>5 DEF RowsOK
  <2>7. AnswersIn(r, none)
    BY <1>3, <2>4 DEF AnswersIn
  <2> QED BY <2>6, <2>7
<1>5. RowsOK(content) /\ AnswersIn(content, answers)
  BY <1>2, <1>3, <1>4, RenderIs
<1>6. RowsTyped
  BY <1>2, <1>3 DEF RowsTyped, NoFile
<1>7. FilesKnown
  BY <1>2 DEF FilesKnown
<1>8. \A k \in Ids : AnswerOf(answers, k).file = NoFile
  BY <1>2, <1>3 DEF AnswerOf, Empty
<1>9. NamesFollow
  BY <1>2, <1>8 DEF NamesFollow, Named, Meets
<1> QED BY <1>5, <1>6, <1>7, <1>9 DEF RowsInv

THEOREM RowsInvariance == RowsInit /\ [][RowsNext]_rowVars => []RowsInv
BY RowsStart, RowsStep, PTL

THEOREM RowsAgreeing == RowsInit /\ [][RowsNext]_rowVars => []RowsAgree
<1>1. RowsInv => RowsAgree
  <2> SUFFICES ASSUME RowsInv PROVE RowsAgree
    OBVIOUS
  <2>1. PICK n \in Nat : n = Len(content) /\ n >= 2
    BY DEF RowsInv, RowsOK
  <2>2. /\ content[1].id = 1 /\ ~content[n].on
        /\ \A i, j \in 1..n : i < j => content[i].id < content[j].id
        /\ \A i \in 1..(n - 1) : content[i].on
        /\ \A i \in 1..(n - 2) : content[i].required
    BY <2>1 DEF RowsInv, RowsOK
  <2>3. \A i \in 1..(n - 1) : content[i].id < content[i + 1].id
    BY <2>2
  <2>4. \A i \in 1..(n - 1) : content[i].required \/ i = n - 1
    BY <2>2
  <2>5. \A id \in DOMAIN answers : \E i \in 1..(n - 1) : content[i].id = id /\ content[i].required
    <3> SUFFICES ASSUME NEW id \in DOMAIN answers
                 PROVE \E i \in 1..(n - 1) : content[i].id = id /\ content[i].required
      OBVIOUS
    <3>1. CASE \E i \in 1..(n - 2) : content[i].id = id
      BY <2>2, <3>1
    <3>2. CASE n = 2 /\ id = 1 /\ content[1].required
      <4>1. 1 \in 1..(n - 1)
        BY <3>2
      <4> QED BY <2>2, <3>2, <4>1
    <3> QED BY <2>1, <3>1, <3>2 DEF RowsInv, AnswersIn
  <2>6. RowsHoldTheAnswers
    BY <2>1, <2>2, <2>3, <2>4, <2>5 DEF RowsHoldTheAnswers, Last1
  <2>7. RowsNameTheirFiles
    <3> SUFFICES ASSUME fileCalls = {}, fileCause = {}, NEW i \in 1..(n - 1)
                 PROVE /\ AnswerOf(answers, content[i].id).file = files[content[i].id]
                       /\ attachments[content[i].id] = files[content[i].id]
      BY <2>1, Zenon DEF RowsNameTheirFiles, Last1
    <3>1. content[i].id \in Ids
      <4>1. RowsOK(content) /\ i \in 1..n
        BY <2>1 DEF RowsInv
      <4> QED BY <2>1, <4>1, RowIs
    <3> QED BY <3>1 DEF RowsInv, NamesFollow, Meets, Named
  <2> QED BY <2>6, <2>7 DEF RowsAgree
<1> QED BY <1>1, RowsInvariance, PTL

THEOREM RowsTyping == RowsInit /\ [][RowsNext]_rowVars => []RowsTypeOK
<1>1. RowsInv => RowsTypeOK
  <2> SUFFICES ASSUME RowsInv PROVE RowsTypeOK
    OBVIOUS
  <2>1. \A i \in DOMAIN content : content[i] \in RowFields
    BY DEF RowsInv, RowsOK
  <2> QED BY <2>1 DEF RowsInv, RowsTyped, AnswersTyped, RowsTypeOK, RowFields
<1> QED BY <1>1, RowsInvariance, PTL
-----------------------------------------------------------------------------
(* The messages to projects, and their mails                                 *)

ViestiHankkeet == Hankkeet \cup {NoHanke}
Ajajat == {"job", "command"}
Nakymat ==
  [hanke : Hankkeet, loading : ViestiHankkeet, known : SUBSET Hankkeet, tab : Viestityypit,
   mount : Nat, to : ViestiHankkeet, open : BOOLEAN, preview : BOOLEAN, error : BOOLEAN,
   listed : SUBSET Nat, doubt : BOOLEAN]
Tunnukset == Nat \cup {Min(S) : S \in SUBSET KutsuIds}
Kutsut ==
  [id : Tunnukset, kind : {"load", "lista", "laheta"}, hanke : Hankkeet, tab : Viestityypit,
   mount : Nat, to : ViestiHankkeet, blank : ViestiHankkeet, posti : Nat, got : SUBSET Nat,
   ends : BOOLEAN, at : {"sent", "stored", "done", "error"}]
Postit ==
  [hanke : Hankkeet, to : Hankkeet, tab : Viestityypit, mount : Nat, logged : BOOLEAN,
   told : {"no", "error"}, event : {"none", "sent", "failed"}, delivered : Nat, doubt : BOOLEAN]
Yritykset == [by : {"first"} \cup Ajajat, posti : Nat, at : {"send", "sent", "failed"}]

ViestitTyped ==
  /\ nakyma \in Nakymat /\ kutsut \subseteq Kutsut /\ postit \in Seq(Postit)
  /\ yritykset \subseteq Yritykset /\ \A y \in yritykset : y.posti \in PostiIds
  /\ ajot \in [Ajajat -> SUBSET PostiIds]

\* A form that is shown is about the project of the page: its receiver, and what it lists.
FormIsOfItsProject ==
  /\ nakyma.listed \subseteq PostiIds
  /\ OnNakyvissa(nakyma) => /\ nakyma.to \in {NoHanke, nakyma.hanke}
                            /\ nakyma.listed \subseteq Lokissa(nakyma.hanke, nakyma.tab)

\* What a form asked is about the project and the tab it was mounted for.
KutsuOK(k) ==
  /\ k.mount <= nakyma.mount /\ k.blank \in {NoHanke, k.hanke}
  /\ k.kind = "lista" => k.mount = nakyma.mount /\ OnNakyvissa(nakyma)
  /\ k.kind # "load" /\ k.mount = nakyma.mount => k.hanke = nakyma.hanke /\ k.tab = nakyma.tab
  /\ k.kind = "laheta" => k.to \in {NoHanke, k.hanke}
  /\ k.at = "stored" => k.posti # NoPosti
  /\ k.at = "sent" => k.posti = NoPosti
  /\ k.posti # NoPosti => k.posti \in PostiIds /\ postit[k.posti].mount = k.mount
  /\ k.got \subseteq Lokissa(k.hanke, k.tab)
KutsutOK == \A k \in kutsut : KutsuOK(k)

\* A mail of which nothing is in doubt has one attempt under way, or was delivered, or is to be
\* tried again.
MailOK(m) ==
  /\ \A y, z \in yritykset : y.posti = m /\ z.posti = m => y = z
  /\ \A y \in yritykset : y.posti = m =>
       /\ postit[m].delivered = IF y.at = "sent" THEN 1 ELSE 0
       /\ postit[m].event # "sent"
  /\ (\A y \in yritykset : y.posti # m) =>
       \/ postit[m].delivered = 1 /\ postit[m].event = "sent"
       \/ postit[m].delivered = 0 /\ postit[m].event = "failed"
MailsOK ==
  \A m \in PostiIds : /\ postit[m].to = postit[m].hanke /\ postit[m].mount <= nakyma.mount
                      /\ postit[m].doubt \/ MailOK(m)

\* A message that the list leaves out is in an answer under way, or will be in one.
Kertoo(k, m) ==
  /\ k.mount = nakyma.mount
  /\ \/ k.kind = "lista" /\ (k.at = "done" => m \in k.got)
     \/ k.kind = "laheta" /\ k.posti = m
ListWillTell ==
  OnNakyvissa(nakyma) =>
    \A m \in Lokissa(nakyma.hanke, nakyma.tab) \ nakyma.listed :
      \/ nakyma.doubt \/ postit[m].mount # nakyma.mount \/ postit[m].told = "error"
      \/ \E k \in kutsut : Kertoo(k, m)

ViestiInv == ViestitTyped /\ FormIsOfItsProject /\ KutsutOK /\ MailsOK /\ ListWillTell

LEMMA ViestiAssumed ==
  NoHanke \notin Hankkeet /\ MaxSiirrot \in Nat /\ MaxViestit \in Nat /\ KutsuIds \subseteq Nat
BY ViestitAssumption DEF KutsuIds

\* A request is about the page that sends it, and its answer is open.
KutsuIs(k, s) ==
  /\ k \in Kutsut /\ k.hanke = s.hanke /\ k.tab = s.tab /\ k.mount = s.mount /\ k.to = s.to
  /\ k.blank \in {NoHanke, k.hanke} /\ k.posti = NoPosti /\ k.got = {} /\ k.at = "sent"
LEMMA KutsuIsNew ==
  ASSUME NEW s \in Nakymat, NEW kd \in {"load", "lista", "laheta"}
  PROVE  KutsuIs(NewKutsu(kd, s), s) /\ NewKutsu(kd, s).kind = kd
<1>1. PICK i : i = Min(KutsuIds \ {k.id : k \in kutsut})
  OBVIOUS
<1>2. i \in Tunnukset
  <2>1. PICK S \in SUBSET KutsuIds : S = KutsuIds \ {k.id : k \in kutsut}
    OBVIOUS
  <2> QED BY <1>1, <2>1 DEF Tunnukset
<1>3. PICK b \in {NoHanke, s.hanke} : b = GenerateInitialEmail(s.hanke, s.known)
  BY DEF GenerateInitialEmail
<1>4. PICK n \in Nat : n = NoPosti
  BY DEF NoPosti
<1>5. PICK k : k = [id |-> i, kind |-> kd, hanke |-> s.hanke, tab |-> s.tab,
                    mount |-> s.mount, to |-> s.to, blank |-> b,
                    posti |-> n, got |-> {}, ends |-> FALSE, at |-> "sent"]
  OBVIOUS
<1>6. NewKutsu(kd, s) = k
  BY <1>1, <1>3, <1>4, <1>5 DEF NewKutsu
<1>7. /\ s.hanke \in Hankkeet /\ s.tab \in Viestityypit /\ s.mount \in Nat
      /\ s.to \in ViestiHankkeet /\ b \in ViestiHankkeet
  BY <1>3 DEF Nakymat, ViestiHankkeet
<1>8. k \in Kutsut
  BY <1>2, <1>4, <1>5, <1>7 DEF Kutsut
<1>9. KutsuIs(k, s) /\ k.kind = kd
  BY <1>3, <1>4, <1>5, <1>8 DEF KutsuIs
<1> QED BY <1>6, <1>9

\* A form that appears is empty.
IsMounted(p, s) ==
  /\ p \in Nakymat /\ p.hanke = s.hanke /\ p.loading = s.loading /\ p.known = s.known
  /\ p.tab = s.tab /\ p.mount = s.mount + 1 /\ p.listed \in {s.listed, {}}
LEMMA MountedIs ==
  ASSUME NEW s \in Nakymat
  PROVE  /\ IsMounted(Mounted(s), s) /\ Mounted(s).listed = {}
         /\ Mounted(s).to \in {NoHanke, s.hanke}
         /\ IsMounted([s EXCEPT !.mount = @ + 1], s)
<1>1. PICK n \in Nat : n = s.mount + 1
  BY DEF Nakymat
<1>2. PICK b \in {NoHanke, s.hanke} : b = GenerateInitialEmail(s.hanke, s.known)
  BY DEF GenerateInitialEmail
<1>3. s.hanke \in Hankkeet /\ b \in ViestiHankkeet /\ (s.tab = "viesti") \in BOOLEAN
  BY <1>2 DEF Nakymat, ViestiHankkeet
<1>4. PICK o \in BOOLEAN : o = (s.tab = "viesti")
  BY <1>3
<1>5. PICK p : p = [s EXCEPT !.mount = n, !.to = b, !.open = o, !.preview = FALSE,
                    !.error = FALSE, !.listed = {}, !.doubt = FALSE]
  OBVIOUS
<1>6. Mounted(s) = p
  BY <1>1, <1>2, <1>4, <1>5 DEF Mounted
<1>7. /\ p \in Nakymat /\ p.hanke = s.hanke /\ p.loading = s.loading /\ p.known = s.known
      /\ p.tab = s.tab /\ p.mount = n /\ p.listed = {} /\ p.to = b
  BY <1>3, <1>5 DEF Nakymat
<1>8. PICK q : q = [s EXCEPT !.mount = n]
  OBVIOUS
<1>9. /\ q \in Nakymat /\ q.hanke = s.hanke /\ q.loading = s.loading /\ q.known = s.known
      /\ q.tab = s.tab /\ q.mount = n /\ q.listed = s.listed
  BY <1>8 DEF Nakymat
<1>10. [s EXCEPT !.mount = @ + 1] = q
  BY <1>1, <1>8
<1> QED BY <1>1, <1>2, <1>6, <1>7, <1>9, <1>10 DEF IsMounted

\* The fields of a page, of a request and of a mail.
LEMMA NakymaHas ==
  ASSUME ViestitTyped
  PROVE  /\ nakyma \in Nakymat
         /\ nakyma.hanke \in Hankkeet /\ nakyma.loading \in ViestiHankkeet
         /\ nakyma.known \subseteq Hankkeet /\ nakyma.tab \in Viestityypit /\ nakyma.mount \in Nat
         /\ nakyma.to \in ViestiHankkeet /\ nakyma.open \in BOOLEAN /\ nakyma.preview \in BOOLEAN
         /\ nakyma.error \in BOOLEAN /\ nakyma.listed \subseteq Nat /\ nakyma.doubt \in BOOLEAN
BY DEF ViestitTyped, Nakymat
LEMMA KutsuHas ==
  ASSUME ViestitTyped, NEW k \in kutsut
  PROVE  /\ k \in Kutsut
         /\ k.id \in Tunnukset /\ k.kind \in {"load", "lista", "laheta"} /\ k.hanke \in Hankkeet
         /\ k.tab \in Viestityypit /\ k.mount \in Nat /\ k.to \in ViestiHankkeet
         /\ k.blank \in ViestiHankkeet /\ k.posti \in Nat /\ k.got \subseteq Nat
         /\ k.ends \in BOOLEAN /\ k.at \in {"sent", "stored", "done", "error"}
<1>1. k \in Kutsut
  BY DEF ViestitTyped
<1> QED BY <1>1 DEF Kutsut
LEMMA PostiHas ==
  ASSUME ViestitTyped, NEW m \in PostiIds
  PROVE  /\ postit[m] \in Postit
         /\ postit[m].hanke \in Hankkeet /\ postit[m].to \in Hankkeet /\ postit[m].tab \in Viestityypit
         /\ postit[m].mount \in Nat /\ postit[m].logged \in BOOLEAN
         /\ postit[m].told \in {"no", "error"} /\ postit[m].event \in {"none", "sent", "failed"}
         /\ postit[m].delivered \in Nat /\ postit[m].doubt \in BOOLEAN
<1>1. postit[m] \in Postit
  BY DEF ViestitTyped, PostiIds
<1> QED BY <1>1 DEF Postit

\* One mail changes.
PostiChanges(q, m, r) ==
  /\ q \in Seq(Postit) /\ Len(q) = Len(postit) /\ q[m] = r
  /\ \A i \in PostiIds : i # m => q[i] = postit[i]
LEMMA OnePostiChanges ==
  ASSUME ViestitTyped, NEW m \in PostiIds, NEW r \in Postit
  PROVE  PostiChanges([postit EXCEPT ![m] = r], m, r)
<1>1. postit \in Seq(Postit)
  BY DEF ViestitTyped
<1> QED BY <1>1 DEF PostiChanges, PostiIds

\* The page goes on, and the mails keep what they are about.
Stays ==
  /\ nakyma' \in Nakymat /\ nakyma'.hanke = nakyma.hanke /\ nakyma'.tab = nakyma.tab
  /\ nakyma'.mount = nakyma.mount /\ OnNakyvissa(nakyma') = OnNakyvissa(nakyma)
MailsGrow ==
  /\ postit' \in Seq(Postit) /\ Len(postit') >= Len(postit)
  /\ \A m \in PostiIds :
       /\ postit'[m].hanke = postit[m].hanke /\ postit'[m].to = postit[m].to
       /\ postit'[m].tab = postit[m].tab /\ postit'[m].mount = postit[m].mount
       /\ postit[m].logged => postit'[m].logged
       /\ postit[m].told = "error" => postit'[m].told = "error"
LEMMA SameStays ==
  ASSUME ViestitTyped, UNCHANGED nakyma
  PROVE  Stays
BY DEF ViestitTyped, Stays
LEMMA UnchangedGrow ==
  ASSUME ViestitTyped, UNCHANGED postit
  PROVE  MailsGrow
BY DEF ViestitTyped, MailsGrow
LEMMA IdsGrow ==
  ASSUME ViestitTyped, MailsGrow
  PROVE  PostiIds \subseteq PostiIds'
<1>1. PICK n \in Nat : n = Len(postit)
  BY DEF ViestitTyped
<1>2. PICK p \in Nat : p = Len(postit')
  BY DEF MailsGrow
<1> QED BY <1>1, <1>2 DEF PostiIds, MailsGrow
LEMMA LokissaGrows ==
  ASSUME ViestitTyped, MailsGrow, NEW h, NEW t
  PROVE  Lokissa(h, t) \subseteq Lokissa(h, t)'
BY IdsGrow DEF Lokissa, MailsGrow

\* A request under way stays what it was while its page and the mails do.
LEMMA KutsuStays ==
  ASSUME ViestiInv, Stays, MailsGrow, NEW k \in kutsut
  PROVE  KutsuOK(k)'
<1>1. ViestitTyped /\ KutsuOK(k)
  BY DEF ViestiInv, KutsutOK
<1>2. k.got \subseteq Lokissa(k.hanke, k.tab)'
  BY <1>1, LokissaGrows DEF KutsuOK
<1>3. k.posti # NoPosti => k.posti \in PostiIds' /\ postit'[k.posti].mount = k.mount
  BY <1>1, IdsGrow DEF KutsuOK, MailsGrow
<1> QED BY <1>1, <1>2, <1>3 DEF KutsuOK, Stays

\* What becomes of the page and its requests when the page moves.
LoadOK(k) ==
  /\ k \in Kutsut /\ k.kind = "load" /\ k.mount = nakyma.mount /\ k.blank \in {NoHanke, k.hanke}
  /\ k.posti = NoPosti /\ k.got = {} /\ k.at = "sent"
ListaOK(k, p) == KutsuIs(k, p) /\ k.kind = "lista" /\ OnNakyvissa(p)
LEMMA BecomingIs ==
  ASSUME ViestitTyped, NEW s \in Nakymat, NEW others \in SUBSET Kutsut, Becoming(s, others)
  PROVE  /\ IsMounted(nakyma', s)
         /\ OnNakyvissa(nakyma') => nakyma'.listed = {} /\ nakyma'.to \in {NoHanke, s.hanke}
         /\ \A k \in kutsut' : (k \in others /\ k.kind # "lista") \/ ListaOK(k, nakyma')
<1>1. PICK p : p = IF OnNakyvissa(s) THEN Mounted(s) ELSE [s EXCEPT !.mount = @ + 1]
  OBVIOUS
<1>2. nakyma' = p
  BY <1>1 DEF Becoming
<1>3. IsMounted(p, s) /\ (OnNakyvissa(s) => p.listed = {} /\ p.to \in {NoHanke, s.hanke})
  BY <1>1, MountedIs
<1>4. OnNakyvissa(p) <=> OnNakyvissa(s)
  BY <1>3 DEF OnNakyvissa, IsMounted
<1>5. PICK n : n = NewKutsu("lista", p)
  OBVIOUS
<1>6. KutsuIs(n, p) /\ n.kind = "lista"
  <2>1. p \in Nakymat
    BY <1>3 DEF IsMounted
  <2> QED BY <1>5, <2>1, KutsuIsNew
<1>7. kutsut' = {k \in others : k.kind # "lista"} \cup (IF OnNakyvissa(s) THEN {n} ELSE {})
  BY <1>1, <1>5 DEF Becoming
<1>8. \A k \in kutsut' : (k \in others /\ k.kind # "lista") \/ (k = n /\ OnNakyvissa(s))
  BY <1>7
<1>9. OnNakyvissa(s) => ListaOK(n, p)
  BY <1>4, <1>6 DEF ListaOK
<1> QED BY <1>2, <1>3, <1>4, <1>8, <1>9

LEMMA BecomingKeeps ==
  ASSUME ViestiInv, NEW s \in Nakymat, s.mount = nakyma.mount, s.listed = nakyma.listed,
         NEW others \in SUBSET Kutsut, \A k \in others : k \in kutsut \/ LoadOK(k),
         Becoming(s, others), UNCHANGED <<postit, yritykset, ajot>>
  PROVE  ViestiInv'
<1>1. ViestitTyped /\ KutsutOK /\ MailsOK
  BY DEF ViestiInv
<1>2. /\ IsMounted(nakyma', s)
      /\ OnNakyvissa(nakyma') => nakyma'.listed = {} /\ nakyma'.to \in {NoHanke, s.hanke}
      /\ \A k \in kutsut' : (k \in others /\ k.kind # "lista") \/ ListaOK(k, nakyma')
  BY <1>1, BecomingIs
<1>3. PICK n \in Nat : n = nakyma.mount /\ nakyma'.mount = n + 1
  BY <1>1, <1>2, NakymaHas DEF IsMounted
<1>4. nakyma' \in Nakymat /\ nakyma'.hanke = s.hanke
  BY <1>2 DEF IsMounted
<1>5. ViestitTyped'
  <2>1. kutsut' \subseteq Kutsut
    BY <1>2 DEF ListaOK, KutsuIs
  <2> QED BY <1>1, <1>4, <2>1 DEF ViestitTyped, PostiIds
<1>6. FormIsOfItsProject'
  <2>1. nakyma'.listed \in {nakyma.listed, {}} /\ nakyma.listed \subseteq PostiIds
    BY <1>2 DEF IsMounted, ViestiInv, FormIsOfItsProject
  <2> QED BY <1>2, <1>4, <2>1 DEF FormIsOfItsProject, PostiIds
<1>7. KutsutOK'
  <2>1. SUFFICES ASSUME NEW k \in kutsut' PROVE KutsuOK(k)'
    BY DEF KutsutOK
  <2>2. CASE k \in kutsut /\ k.kind # "lista"
    <3>1. KutsuOK(k) /\ k.mount \in Nat
      BY <1>1, <2>2, KutsuHas DEF KutsutOK
    <3>2. k.mount <= nakyma'.mount /\ k.mount # nakyma'.mount
      BY <1>3, <3>1 DEF KutsuOK
    <3> QED BY <2>2, <3>1, <3>2 DEF KutsuOK, PostiIds, Lokissa
  <2>3. CASE LoadOK(k)
    <3>1. k.mount <= nakyma'.mount
      BY <1>3, <2>3 DEF LoadOK
    <3> QED BY <2>3, <3>1 DEF KutsuOK, LoadOK, NoPosti
  <2>4. CASE ListaOK(k, nakyma')
    <3>1. k.mount = nakyma'.mount /\ k.mount <= nakyma'.mount
      BY <1>3, <2>4 DEF ListaOK, KutsuIs
    <3> QED BY <2>4, <3>1 DEF KutsuOK, ListaOK, KutsuIs, NoPosti
  <2> QED BY <1>2, <2>1, <2>2, <2>3, <2>4
<1>8. \A m \in PostiIds : postit[m].mount <= n /\ postit[m].mount \in Nat
  BY <1>1, <1>3, PostiHas DEF MailsOK
<1>9. MailsOK'
  <2>1. SUFFICES ASSUME NEW m \in PostiIds
                 PROVE  /\ postit[m].to = postit[m].hanke /\ postit[m].mount <= nakyma'.mount
                        /\ postit[m].doubt \/ MailOK(m)'
    BY DEF MailsOK, PostiIds
  <2>2. postit[m].mount <= nakyma'.mount
    BY <1>3, <1>8
  <2>3. MailOK(m)' <=> MailOK(m)
    BY DEF MailOK
  <2> QED BY <1>1, <2>2, <2>3 DEF MailsOK
<1>10. ListWillTell'
  <2>1. \A m \in PostiIds : postit[m].mount # nakyma'.mount
    BY <1>3, <1>8
  <2> QED BY <2>1 DEF ListWillTell, Lokissa, PostiIds
<1> QED BY <1>5, <1>6, <1>7, <1>9, <1>10 DEF ViestiInv

\* What a step that lets the page go on has to show of it.
FormStays ==
  /\ nakyma'.listed \subseteq PostiIds'
  /\ OnNakyvissa(nakyma') => /\ nakyma'.to \in {NoHanke, nakyma.hanke}
                             /\ nakyma'.listed \subseteq Lokissa(nakyma.hanke, nakyma.tab)'
TellStays(m) ==
  \/ m \in nakyma'.listed \/ nakyma'.doubt \/ postit'[m].told = "error"
  \/ postit'[m].mount # nakyma.mount \/ \E k \in kutsut' : Kertoo(k, m)
LEMMA PageGoesOn ==
  ASSUME ViestiInv, Stays, MailsGrow, ViestitTyped', MailsOK', FormStays,
         \A k \in kutsut' : k \in kutsut \/ KutsuOK(k)',
         OnNakyvissa(nakyma) =>
           \A m \in Lokissa(nakyma.hanke, nakyma.tab)' : TellStays(m)
  PROVE  ViestiInv'
<1>1. KutsutOK'
  BY KutsuStays DEF KutsutOK
<1>2. FormIsOfItsProject'
  BY DEF FormIsOfItsProject, FormStays, Stays
<1>3. ListWillTell'
  <2>1. SUFFICES ASSUME OnNakyvissa(nakyma'), NEW m \in Lokissa(nakyma.hanke, nakyma.tab)',
                        m \notin nakyma'.listed
                 PROVE  \/ nakyma'.doubt \/ postit'[m].mount # nakyma'.mount
                        \/ postit'[m].told = "error"
                        \/ \E k \in kutsut' : Kertoo(k, m)'
    BY DEF ListWillTell, Stays
  <2>2. TellStays(m)
    BY <2>1 DEF Stays
  <2>3. \A k \in kutsut' : Kertoo(k, m) => Kertoo(k, m)'
    BY DEF Kertoo, Stays
  <2> QED BY <2>1, <2>2, <2>3 DEF TellStays, Stays
<1> QED BY <1>1, <1>2, <1>3 DEF ViestiInv

\* A message that was to be told by a request that stays is still to be told.
LEMMA StillTold ==
  ASSUME ViestiInv, Stays, MailsGrow, OnNakyvissa(nakyma), nakyma.doubt => nakyma'.doubt,
         NEW m \in Lokissa(nakyma.hanke, nakyma.tab),
         m \in nakyma.listed => m \in nakyma'.listed \/ nakyma'.doubt
  PROVE  TellStays(m) \/ \E k \in kutsut \ kutsut' : Kertoo(k, m)
<1>1. m \in PostiIds
  BY DEF Lokissa
<1>2. \/ m \in nakyma.listed \/ nakyma.doubt \/ postit[m].mount # nakyma.mount
      \/ postit[m].told = "error" \/ \E k \in kutsut : Kertoo(k, m)
  BY DEF ViestiInv, ListWillTell
<1> QED BY <1>1, <1>2 DEF TellStays, MailsGrow

LEMMA PageMails ==
  ASSUME ViestiInv, Stays, UNCHANGED <<postit, yritykset, ajot>>, kutsut' \subseteq Kutsut
  PROVE  MailsOK' /\ MailsGrow /\ ViestitTyped'
<1>1. ViestitTyped /\ MailsOK
  BY DEF ViestiInv
<1>2. MailsOK'
  <2>1. \A m : MailOK(m)' <=> MailOK(m)
    BY DEF MailOK
  <2> QED BY <1>1, <2>1 DEF MailsOK, PostiIds, Stays
<1>3. ViestitTyped'
  BY <1>1 DEF ViestitTyped, Stays, PostiIds
<1> QED BY <1>1, <1>2, <1>3, UnchangedGrow

\* A form that goes on, all of whose requests stay, keeps what it lists.
QuietPage(p) ==
  /\ p \in Nakymat /\ p.hanke = nakyma.hanke /\ p.loading = nakyma.loading /\ p.known = nakyma.known
  /\ p.tab = nakyma.tab /\ p.mount = nakyma.mount /\ p.to \in {nakyma.to, NoHanke, nakyma.hanke}
  /\ p.listed = nakyma.listed /\ p.doubt = nakyma.doubt
LEMMA QuietKeeps ==
  ASSUME ViestiInv, NEW p, QuietPage(p), nakyma' = p, kutsut \subseteq kutsut',
         \A k \in kutsut' : k \in kutsut \/ (k \in Kutsut /\ KutsuOK(k)),
         UNCHANGED <<postit, yritykset, ajot>>
  PROVE  ViestiInv'
<1>1. ViestitTyped /\ FormIsOfItsProject
  BY DEF ViestiInv
<1>2. Stays
  BY DEF Stays, QuietPage, OnNakyvissa
<1>3. kutsut' \subseteq Kutsut
  BY <1>1, KutsuHas
<1>4. MailsOK' /\ MailsGrow /\ ViestitTyped'
  BY <1>2, <1>3, PageMails
<1>5. FormStays
  BY <1>1 DEF FormStays, FormIsOfItsProject, QuietPage, OnNakyvissa, Lokissa, PostiIds
<1>6. \A k \in kutsut' : k \in kutsut \/ KutsuOK(k)'
  BY <1>2, <1>3 DEF KutsuOK, Stays, Lokissa, PostiIds
<1>7. ASSUME OnNakyvissa(nakyma), NEW m \in Lokissa(nakyma.hanke, nakyma.tab)'
      PROVE  TellStays(m)
  <2>1. m \in Lokissa(nakyma.hanke, nakyma.tab)
    BY <1>2, <1>7 DEF Lokissa, PostiIds, Stays
  <2>2. TellStays(m) \/ \E k \in kutsut \ kutsut' : Kertoo(k, m)
    BY <1>2, <1>4, <1>7, <2>1, StillTold DEF QuietPage
  <2> QED BY <2>2
<1> QED BY <1>2, <1>4, <1>5, <1>6, <1>7, PageGoesOn

LEMMA OpenFormKeeps == ViestiInv /\ OpenForm => ViestiInv'
<1> SUFFICES ASSUME ViestiInv, OpenForm PROVE ViestiInv'
  OBVIOUS
<1>1. nakyma \in Nakymat /\ nakyma.to \in ViestiHankkeet
  BY NakymaHas DEF ViestiInv
<1>2. PICK p : p = [nakyma EXCEPT !.open = TRUE]
  OBVIOUS
<1>3. QuietPage(p)
  BY <1>1, <1>2 DEF QuietPage, Nakymat
<1>4. nakyma' = p /\ UNCHANGED <<kutsut, postit, yritykset, ajot>>
  BY <1>2 DEF OpenForm
<1> QED BY <1>3, <1>4, QuietKeeps

LEMMA AddRecipientKeeps == ViestiInv /\ AddRecipient => ViestiInv'
<1> SUFFICES ASSUME ViestiInv, AddRecipient PROVE ViestiInv'
  OBVIOUS
<1>1. nakyma \in Nakymat /\ nakyma.hanke \in ViestiHankkeet
  BY NakymaHas DEF ViestiInv, ViestiHankkeet
<1>2. PICK p : p = [nakyma EXCEPT !.to = nakyma.hanke]
  OBVIOUS
<1>3. QuietPage(p)
  BY <1>1, <1>2 DEF QuietPage, Nakymat
<1>4. nakyma' = p /\ UNCHANGED <<kutsut, postit, yritykset, ajot>>
  BY <1>2 DEF AddRecipient
<1> QED BY <1>3, <1>4, QuietKeeps

LEMMA PreviewKeeps == ViestiInv /\ Preview => ViestiInv'
<1> SUFFICES ASSUME ViestiInv, Preview PROVE ViestiInv'
  OBVIOUS
<1>1. nakyma \in Nakymat
  BY NakymaHas DEF ViestiInv
<1>2. PICK p : p = [nakyma EXCEPT !.preview = TRUE]
  OBVIOUS
<1>3. QuietPage(p)
  BY <1>1, <1>2 DEF QuietPage, Nakymat
<1>4. nakyma' = p /\ UNCHANGED <<kutsut, postit, yritykset, ajot>>
  BY <1>2 DEF Preview
<1> QED BY <1>3, <1>4, QuietKeeps

LEMMA CancelFormKeeps == ViestiInv /\ CancelForm => ViestiInv'
<1> SUFFICES ASSUME ViestiInv, CancelForm PROVE ViestiInv'
  OBVIOUS
<1>1. nakyma \in Nakymat /\ nakyma.hanke \in ViestiHankkeet
  BY NakymaHas DEF ViestiInv, ViestiHankkeet
<1>2. PICK b \in {NoHanke, nakyma.hanke} : b = GenerateInitialEmail(nakyma.hanke, nakyma.known)
  BY DEF GenerateInitialEmail
<1>3. PICK p : p = [nakyma EXCEPT !.preview = FALSE]
  OBVIOUS
<1>4. PICK q : q = [nakyma EXCEPT !.open = FALSE, !.error = FALSE, !.to = b]
  OBVIOUS
<1>5. QuietPage(p)
  BY <1>1, <1>3 DEF QuietPage, Nakymat
<1>6. QuietPage(q)
  BY <1>1, <1>2, <1>4 DEF QuietPage, Nakymat, ViestiHankkeet
<1>7. (nakyma' = p \/ nakyma' = q) /\ UNCHANGED <<kutsut, postit, yritykset, ajot>>
  BY <1>2, <1>3, <1>4 DEF CancelForm
<1> QED BY <1>5, <1>6, <1>7, QuietKeeps

LEMMA SendFormKeeps == ViestiInv /\ SendForm => ViestiInv'
<1> SUFFICES ASSUME ViestiInv, SendForm PROVE ViestiInv'
  OBVIOUS
<1>1. nakyma \in Nakymat /\ nakyma.error \in BOOLEAN /\ nakyma.mount \in Nat
  BY NakymaHas DEF ViestiInv
<1>2. PICK e \in BOOLEAN : e <=> (nakyma.error /\ nakyma.tab = "muistutus")
  OBVIOUS
<1>3. PICK p : p = [nakyma EXCEPT !.preview = FALSE, !.error = e]
  OBVIOUS
<1>4. QuietPage(p)
  BY <1>1, <1>3 DEF QuietPage, Nakymat
<1>5. e = (nakyma.error /\ nakyma.tab = "muistutus")
  BY <1>2
<1>6. nakyma' = p /\ UNCHANGED <<postit, yritykset, ajot>>
  BY <1>3, <1>5 DEF SendForm
<1>7. PICK n : n = NewKutsu("laheta", nakyma)
  OBVIOUS
<1>8. KutsuIs(n, nakyma) /\ n.kind = "laheta"
  BY <1>1, <1>7, KutsuIsNew
<1>9. n.to \in {NoHanke, n.hanke}
  BY <1>8 DEF SendForm, ViestiInv, FormIsOfItsProject, KutsuIs
<1>10. n \in Kutsut /\ KutsuOK(n)
  <2>1. n.mount <= nakyma.mount
    BY <1>1, <1>8 DEF KutsuIs
  <2> QED BY <1>8, <1>9, <2>1 DEF KutsuIs, KutsuOK, NoPosti
<1>11. kutsut' = kutsut \cup {n}
  BY <1>7 DEF SendForm
<1> QED BY <1>4, <1>6, <1>10, <1>11, QuietKeeps

LEMMA SelectHankeKeeps ==
  ASSUME ViestiInv, NEW h \in Hankkeet, SelectHanke(h)
  PROVE  ViestiInv'
<1>1. ViestitTyped /\ nakyma \in Nakymat /\ h \in ViestiHankkeet
  BY NakymaHas DEF ViestiInv, ViestiHankkeet
<1>2. PICK s : s = [nakyma EXCEPT !.hanke = h, !.loading = h]
  OBVIOUS
<1>3. s \in Nakymat /\ s.mount = nakyma.mount /\ s.listed = nakyma.listed
  BY <1>1, <1>2 DEF Nakymat
<1>4. PICK n : n = NewKutsu("load", s)
  OBVIOUS
<1>5. KutsuIs(n, s) /\ n.kind = "load"
  BY <1>3, <1>4, KutsuIsNew
<1>6. PICK others : others = kutsut \cup (IF nakyma.loading = h THEN {} ELSE {n})
  OBVIOUS
<1>7. Becoming(s, others) /\ UNCHANGED <<postit, yritykset, ajot>>
  BY <1>2, <1>4, <1>6 DEF SelectHanke
<1>8. LoadOK(n)
  BY <1>3, <1>5 DEF KutsuIs, LoadOK
<1>9. others \in SUBSET Kutsut /\ \A k \in others : k \in kutsut \/ LoadOK(k)
  BY <1>1, <1>6, <1>8 DEF ViestitTyped, LoadOK
<1> QED BY <1>3, <1>7, <1>9, BecomingKeeps

LEMMA OpenTabKeeps ==
  ASSUME ViestiInv, NEW t \in Viestityypit, OpenTab(t)
  PROVE  ViestiInv'
<1>1. ViestitTyped /\ nakyma \in Nakymat
  BY NakymaHas DEF ViestiInv
<1>2. PICK s : s = [nakyma EXCEPT !.tab = t]
  OBVIOUS
<1>3. s \in Nakymat /\ s.mount = nakyma.mount /\ s.listed = nakyma.listed
  BY <1>1, <1>2 DEF Nakymat
<1>4. Becoming(s, kutsut) /\ UNCHANGED <<postit, yritykset, ajot>>
  BY <1>2 DEF OpenTab
<1>5. kutsut \in SUBSET Kutsut
  BY <1>1 DEF ViestitTyped
<1> QED BY <1>3, <1>4, <1>5, BecomingKeeps

\* The details of the project come: the list is asked for again, or a form appears.
LEMMA HakemusLoadedKeeps ==
  ASSUME ViestiInv, NEW k \in kutsut, HakemusLoaded(k)
  PROVE  ViestiInv'
<1>1. ViestitTyped /\ nakyma \in Nakymat /\ nakyma.known \subseteq Hankkeet /\ k.hanke \in Hankkeet
  BY NakymaHas, KutsuHas DEF ViestiInv
<1>2. PICK kn \in SUBSET Hankkeet :
        kn = (IF k.at = "error" THEN nakyma.known ELSE nakyma.known \cup {k.hanke})
  BY <1>1
<1>3. PICK s : s = [nakyma EXCEPT !.loading = NoHanke, !.known = kn]
  OBVIOUS
<1>4. /\ s \in Nakymat /\ s.mount = nakyma.mount /\ s.hanke = nakyma.hanke /\ s.tab = nakyma.tab
      /\ s.to = nakyma.to /\ s.listed = nakyma.listed /\ s.doubt = nakyma.doubt
      /\ s.loading = NoHanke /\ nakyma.known \subseteq s.known
  BY <1>1, <1>2, <1>3 DEF Nakymat, ViestiHankkeet
<1>5. k.kind = "load" /\ UNCHANGED <<postit, yritykset, ajot>>
  BY DEF HakemusLoaded
<1>6. CASE ~OnNakyvissa(nakyma)
  <2>1. Becoming(s, kutsut \ {k})
    BY <1>2, <1>3, <1>6 DEF HakemusLoaded
  <2>2. kutsut \ {k} \in SUBSET Kutsut
    BY <1>1 DEF ViestitTyped
  <2> QED BY <1>4, <1>5, <2>1, <2>2, BecomingKeeps
<1>7. CASE OnNakyvissa(nakyma)
  <2>1. PICK n : n = NewKutsu("lista", s)
    OBVIOUS
  <2>2. nakyma' = s /\ kutsut' \in {kutsut \ {k}, (kutsut \ {k}) \cup {n}}
    BY <1>2, <1>3, <1>7, <2>1 DEF HakemusLoaded
  <2>3. KutsuIs(n, s) /\ n.kind = "lista"
    BY <1>4, <2>1, KutsuIsNew
  <2>4. OnNakyvissa(s)
    BY <1>4, <1>7 DEF OnNakyvissa
  <2>5. Stays
    BY <1>4, <1>7, <2>2, <2>4 DEF Stays
  <2>6. kutsut' \subseteq Kutsut
    BY <1>1, <2>2, <2>3 DEF ViestitTyped, KutsuIs
  <2>7. MailsOK' /\ MailsGrow /\ ViestitTyped'
    BY <1>5, <2>5, <2>6, PageMails
  <2>8. FormStays
    BY <1>4, <1>5, <1>7, <2>2 DEF ViestiInv, FormIsOfItsProject, FormStays, Lokissa, PostiIds
  <2>9. KutsuOK(n)'
    <3>1. n.mount = nakyma'.mount /\ n.mount <= nakyma'.mount
      BY <2>2, <2>3, <2>7, NakymaHas, <1>1, <1>4 DEF KutsuIs, Nakymat
    <3> QED BY <2>2, <2>3, <2>4, <3>1 DEF KutsuIs, KutsuOK, NoPosti
  <2>10. ASSUME NEW m \in Lokissa(nakyma.hanke, nakyma.tab)'
         PROVE  TellStays(m)
    <3>1. m \in Lokissa(nakyma.hanke, nakyma.tab)
      BY <1>5, <2>5, <2>10 DEF Lokissa, PostiIds, Stays
    <3>2. TellStays(m) \/ \E i \in kutsut \ kutsut' : Kertoo(i, m)
      BY <1>4, <1>7, <2>2, <2>5, <2>7, <3>1, StillTold
    <3>3. \A i \in kutsut \ kutsut' : i = k
      BY <2>2
    <3> QED BY <1>5, <3>2, <3>3 DEF Kertoo
  <2> QED BY <2>2, <2>5, <2>7, <2>8, <2>9, <2>10, PageGoesOn
<1> QED BY <1>6, <1>7

\* An answer that is listed: what it leaves out is in another one, or in doubt.
LEMMA ListFetchedKeeps ==
  ASSUME ViestiInv, NEW k \in kutsut, ListFetched(k)
  PROVE  ViestiInv'
<1>1. ViestitTyped /\ nakyma \in Nakymat /\ KutsuOK(k)
  BY NakymaHas DEF ViestiInv, KutsutOK
<1>2. /\ k.kind = "lista" /\ k.at \in {"done", "error"} /\ k.mount = nakyma.mount
      /\ kutsut' = kutsut \ {k} /\ UNCHANGED <<postit, yritykset, ajot>>
  BY DEF ListFetched
<1>3. OnNakyvissa(nakyma) /\ k.hanke = nakyma.hanke /\ k.tab = nakyma.tab
  BY <1>1, <1>2 DEF KutsuOK
<1>4. /\ nakyma.doubt \in BOOLEAN /\ nakyma.error \in BOOLEAN /\ k.ends \in BOOLEAN
      /\ k.got \subseteq Nat /\ k.blank \in ViestiHankkeet /\ nakyma.listed \subseteq Nat
  BY <1>1, NakymaHas, KutsuHas
<1>5. PICK d \in BOOLEAN : d = (nakyma.doubt \/ ~(nakyma.listed \subseteq k.got))
  BY <1>4
<1>6. PICK e \in BOOLEAN : e = (nakyma.error \/ k.ends)
  BY <1>4
<1>7. PICK f : f = [nakyma EXCEPT !.doubt = TRUE, !.error = e]
  OBVIOUS
<1>8. PICK s : s = [nakyma EXCEPT !.listed = k.got, !.doubt = d]
  OBVIOUS
<1>9. PICK t : t = [s EXCEPT !.open = FALSE, !.preview = FALSE, !.error = FALSE, !.to = k.blank]
  OBVIOUS
<1>10. (k.at = "error" /\ nakyma' = f) \/ (k.at = "done" /\ nakyma' \in {s, t})
  <2>1. s = [nakyma EXCEPT !.listed = k.got, !.doubt = @ \/ ~(nakyma.listed \subseteq k.got)]
    BY <1>5, <1>8
  <2>2. f = [nakyma EXCEPT !.doubt = TRUE, !.error = @ \/ k.ends]
    BY <1>6, <1>7
  <2> QED BY <1>2, <1>9, <2>1, <2>2 DEF ListFetched
<1>11. /\ f \in Nakymat /\ f.hanke = nakyma.hanke /\ f.loading = nakyma.loading
       /\ f.known = nakyma.known /\ f.tab = nakyma.tab /\ f.mount = nakyma.mount
       /\ f.to = nakyma.to /\ f.listed = nakyma.listed /\ f.doubt
  BY <1>1, <1>7 DEF Nakymat
<1>12. /\ s \in Nakymat /\ s.hanke = nakyma.hanke /\ s.loading = nakyma.loading
       /\ s.known = nakyma.known /\ s.tab = nakyma.tab /\ s.mount = nakyma.mount
       /\ s.to = nakyma.to /\ s.listed = k.got /\ s.doubt = d
  BY <1>1, <1>4, <1>8 DEF Nakymat
<1>13. /\ t \in Nakymat /\ t.hanke = nakyma.hanke /\ t.loading = nakyma.loading
       /\ t.known = nakyma.known /\ t.tab = nakyma.tab /\ t.mount = nakyma.mount
       /\ t.to = k.blank /\ t.listed = k.got /\ t.doubt = d
  BY <1>4, <1>9, <1>12 DEF Nakymat
<1>14. /\ nakyma' \in Nakymat /\ nakyma'.hanke = nakyma.hanke /\ nakyma'.loading = nakyma.loading
       /\ nakyma'.known = nakyma.known /\ nakyma'.tab = nakyma.tab /\ nakyma'.mount = nakyma.mount
       /\ nakyma'.to \in {nakyma.to, k.blank} /\ nakyma'.listed \in {nakyma.listed, k.got}
       /\ k.at = "error" => nakyma'.doubt
       /\ k.at = "done" => nakyma'.listed = k.got /\ nakyma'.doubt = d
  BY <1>2, <1>10, <1>11, <1>12, <1>13
<1>15. Stays
  BY <1>14 DEF Stays, OnNakyvissa
<1>16. kutsut' \subseteq Kutsut
  BY <1>1, <1>2 DEF ViestitTyped
<1>17. MailsOK' /\ MailsGrow /\ ViestitTyped'
  BY <1>2, <1>15, <1>16, PageMails
<1>18. FormStays
  BY <1>1, <1>2, <1>3, <1>14 DEF ViestiInv, FormIsOfItsProject, FormStays, KutsuOK, Lokissa, PostiIds
<1>19. ASSUME NEW m \in Lokissa(nakyma.hanke, nakyma.tab)'
       PROVE  TellStays(m)
  <2>1. m \in Lokissa(nakyma.hanke, nakyma.tab)
    BY <1>2, <1>15, <1>19 DEF Lokissa, PostiIds, Stays
  <2>2. nakyma.doubt => nakyma'.doubt
    BY <1>2, <1>5, <1>14
  <2>3. m \in nakyma.listed => m \in nakyma'.listed \/ nakyma'.doubt
    BY <1>2, <1>5, <1>14
  <2>4. TellStays(m) \/ \E i \in kutsut \ kutsut' : Kertoo(i, m)
    BY <1>3, <1>15, <1>17, <2>1, <2>2, <2>3, StillTold
  <2>5. \A i \in kutsut \ kutsut' : i = k
    BY <1>2
  <2>6. Kertoo(k, m) => m \in nakyma'.listed \/ nakyma'.doubt
    BY <1>2, <1>14 DEF Kertoo
  <2> QED BY <2>4, <2>5, <2>6 DEF TellStays
<1>20. \A i \in kutsut' : i \in kutsut
  BY <1>2
<1> QED BY <1>15, <1>17, <1>18, <1>19, <1>20, PageGoesOn

\* The answer to a message: the list is asked for, or an error is told.
LEMMA LahetettyKeeps ==
  ASSUME ViestiInv, NEW k \in kutsut, Lahetetty(k)
  PROVE  ViestiInv'
<1>1. ViestitTyped /\ nakyma \in Nakymat /\ KutsuOK(k) /\ MailsOK
  BY NakymaHas DEF ViestiInv, KutsutOK
<1>2. k \in Kutsut /\ k.blank \in ViestiHankkeet /\ k.posti \in Nat /\ (k.posti # NoPosti => k.posti \in PostiIds)
  BY <1>1, KutsuHas DEF KutsuOK
<1>3. PICK sh \in BOOLEAN : sh <=> (OnNakyvissa(nakyma) /\ k.mount = nakyma.mount)
  OBVIOUS
<1>4. PICK a : a = [nakyma EXCEPT !.error = TRUE]
  OBVIOUS
<1>5. PICK b : b = [nakyma EXCEPT !.to = k.blank]
  OBVIOUS
<1>6. PICK s : s = IF k.at # "done" THEN a ELSE IF k.tab = "viesti" THEN b ELSE nakyma
  OBVIOUS
<1>7. /\ k.kind = "laheta" /\ k.at \in {"done", "error"} /\ UNCHANGED <<yritykset, ajot>>
      /\ nakyma' = IF sh THEN s ELSE nakyma
  BY <1>3, <1>4, <1>5, <1>6 DEF Lahetetty
<1>8. PICK e \in BOOLEAN : e = (k.tab = "muistutus")
  OBVIOUS
<1>9. PICK l : l = NewKutsu("lista", s)
  OBVIOUS
<1>10. PICK n : n = [l EXCEPT !.ends = e]
  OBVIOUS
<1>11. kutsut' = (kutsut \ {k}) \cup (IF sh /\ (k.at = "done" \/ k.tab = "viesti") THEN {n} ELSE {})
  <2>1. ListAfter(s, k.tab = "muistutus") = n
    BY <1>8, <1>9, <1>10 DEF ListAfter
  <2> QED BY <1>3, <1>4, <1>5, <1>6, <2>1 DEF Lahetetty
<1>12. /\ a \in Nakymat /\ a.hanke = nakyma.hanke /\ a.loading = nakyma.loading
       /\ a.known = nakyma.known /\ a.tab = nakyma.tab /\ a.mount = nakyma.mount
       /\ a.to = nakyma.to /\ a.listed = nakyma.listed /\ a.doubt = nakyma.doubt
  BY <1>1, <1>4 DEF Nakymat
<1>13. /\ b \in Nakymat /\ b.hanke = nakyma.hanke /\ b.loading = nakyma.loading
       /\ b.known = nakyma.known /\ b.tab = nakyma.tab /\ b.mount = nakyma.mount
       /\ b.to = k.blank /\ b.listed = nakyma.listed /\ b.doubt = nakyma.doubt
  BY <1>1, <1>2, <1>5 DEF Nakymat
<1>14. /\ s \in Nakymat /\ s.hanke = nakyma.hanke /\ s.loading = nakyma.loading
       /\ s.known = nakyma.known /\ s.tab = nakyma.tab /\ s.mount = nakyma.mount
       /\ s.to \in {nakyma.to, k.blank} /\ s.listed = nakyma.listed /\ s.doubt = nakyma.doubt
  BY <1>1, <1>6, <1>12, <1>13
<1>15. /\ nakyma' \in Nakymat /\ nakyma'.hanke = nakyma.hanke /\ nakyma'.loading = nakyma.loading
       /\ nakyma'.known = nakyma.known /\ nakyma'.tab = nakyma.tab /\ nakyma'.mount = nakyma.mount
       /\ nakyma'.listed = nakyma.listed /\ nakyma'.doubt = nakyma.doubt
       /\ sh => nakyma'.to \in {nakyma.to, k.blank}
       /\ ~sh => nakyma'.to = nakyma.to
  BY <1>1, <1>7, <1>14
<1>16. Stays
  BY <1>15 DEF Stays, OnNakyvissa
<1>17. sh => k.hanke = nakyma.hanke /\ k.tab = nakyma.tab /\ k.blank \in {NoHanke, nakyma.hanke}
  BY <1>1, <1>3, <1>7 DEF KutsuOK
<1>18. KutsuIs(l, s) /\ l.kind = "lista"
  BY <1>9, <1>14, KutsuIsNew
<1>19. KutsuIs(n, s) /\ n.kind = "lista"
  <2>1. l \in Kutsut
    BY <1>18 DEF KutsuIs
  <2>2. /\ n \in Kutsut /\ n.hanke = l.hanke /\ n.tab = l.tab /\ n.mount = l.mount /\ n.to = l.to
        /\ n.blank = l.blank /\ n.posti = l.posti /\ n.got = l.got /\ n.at = l.at /\ n.kind = l.kind
    BY <1>10, <2>1 DEF Kutsut
  <2> QED BY <1>18, <2>2 DEF KutsuIs
<1>20. kutsut' \subseteq Kutsut
  BY <1>1, <1>11, <1>19 DEF ViestitTyped, KutsuIs
<1>21. PICK c \in BOOLEAN : c <=> (k.at # "done" /\ k.posti # NoPosti)
  OBVIOUS
<1>22. /\ ~c => postit' = postit
       /\ c => postit' = [postit EXCEPT ![k.posti].told = "error"]
  BY <1>21 DEF Lahetetty
<1>23. ASSUME c PROVE k.posti \in PostiIds
                      /\ PostiChanges(postit', k.posti, [postit[k.posti] EXCEPT !.told = "error"])
  <2>1. k.posti \in PostiIds /\ postit[k.posti] \in Postit
    BY <1>1, <1>2, <1>21, <1>23, PostiHas
  <2>2. PICK r : r = [postit[k.posti] EXCEPT !.told = "error"]
    OBVIOUS
  <2>3. r \in Postit
    BY <2>1, <2>2 DEF Postit
  <2>4. postit' = [postit EXCEPT ![k.posti] = r]
    BY <1>22, <1>23, <2>2
  <2> QED BY <1>1, <2>1, <2>2, <2>3, <2>4, OnePostiChanges
<1>24. /\ postit' \in Seq(Postit) /\ Len(postit') = Len(postit)
       /\ \A m \in PostiIds :
            /\ postit'[m].hanke = postit[m].hanke /\ postit'[m].to = postit[m].to
            /\ postit'[m].tab = postit[m].tab /\ postit'[m].mount = postit[m].mount
            /\ postit'[m].logged = postit[m].logged /\ postit'[m].event = postit[m].event
            /\ postit'[m].delivered = postit[m].delivered /\ postit'[m].doubt = postit[m].doubt
            /\ postit[m].told = "error" => postit'[m].told = "error"
            /\ c /\ m = k.posti => postit'[m].told = "error"
  <2>1. CASE ~c
    BY <1>1, <1>22, <2>1 DEF ViestitTyped
  <2>2. CASE c
    <3>1. \A m \in PostiIds : postit[m] \in Postit
      BY <1>1, PostiHas
    <3>2. PICK r : r = [postit[k.posti] EXCEPT !.told = "error"]
      OBVIOUS
    <3>3. PICK o \in Postit : o = postit[k.posti]
      BY <1>23, <2>2, <3>1
    <3>4. /\ r.hanke = o.hanke /\ r.to = o.to /\ r.tab = o.tab /\ r.mount = o.mount
          /\ r.logged = o.logged /\ r.event = o.event /\ r.delivered = o.delivered
          /\ r.doubt = o.doubt /\ r.told = "error"
      BY <3>2, <3>3 DEF Postit
    <3>5. PostiChanges(postit', k.posti, r)
      BY <1>23, <2>2, <3>2
    <3> QED BY <3>3, <3>4, <3>5 DEF PostiChanges
  <2> QED BY <2>1, <2>2
<1>25. PICK z \in Nat : z = Len(postit) /\ PostiIds = 1..z /\ PostiIds' = 1..z
  BY <1>1, <1>24 DEF ViestitTyped, PostiIds
<1>26. MailsGrow
  BY <1>24, <1>25 DEF MailsGrow
<1>27. ViestitTyped'
  BY <1>1, <1>7, <1>15, <1>20, <1>24, <1>25 DEF ViestitTyped
<1>28. MailsOK'
  <2>1. \A m \in PostiIds : MailOK(m)' <=> MailOK(m)
    BY <1>7, <1>24 DEF MailOK
  <2> QED BY <1>1, <1>15, <1>24, <1>25, <2>1 DEF MailsOK
<1>29. Lokissa(nakyma.hanke, nakyma.tab)' = Lokissa(nakyma.hanke, nakyma.tab)
  BY <1>15, <1>24, <1>25 DEF Lokissa
<1>30. FormStays
  BY <1>3, <1>15, <1>17, <1>25, <1>29 DEF ViestiInv, FormIsOfItsProject, FormStays, OnNakyvissa
<1>31. sh => KutsuOK(n)'
  <2>1. HAVE sh
  <2>2. n.mount = nakyma'.mount /\ n.mount <= nakyma'.mount /\ OnNakyvissa(nakyma')
    BY <1>3, <1>14, <1>15, <1>16, <1>19, <2>1, NakymaHas, <1>1 DEF KutsuIs, Stays
  <2> QED BY <1>14, <1>15, <1>19, <2>2 DEF KutsuIs, KutsuOK, NoPosti
<1>32. ASSUME OnNakyvissa(nakyma), NEW m \in Lokissa(nakyma.hanke, nakyma.tab)'
       PROVE  TellStays(m)
  <2>1. m \in Lokissa(nakyma.hanke, nakyma.tab) /\ m \in PostiIds
    BY <1>29, <1>32 DEF Lokissa
  <2>2. TellStays(m) \/ \E i \in kutsut \ kutsut' : Kertoo(i, m)
    BY <1>15, <1>16, <1>26, <1>32, <2>1, StillTold
  <2>3. \A i \in kutsut \ kutsut' : i = k
    BY <1>11
  <2>4. ASSUME Kertoo(k, m) PROVE TellStays(m)
    <3>1. sh /\ k.posti = m /\ m # NoPosti
      BY <1>3, <1>7, <1>25, <1>32, <2>1, <2>4 DEF Kertoo, NoPosti
    <3>2. CASE k.at = "done"
      <4>1. n \in kutsut'
        BY <1>11, <3>1, <3>2
      <4>2. Kertoo(n, m)
        BY <1>14, <1>19 DEF Kertoo, KutsuIs
      <4> QED BY <4>1, <4>2 DEF TellStays
    <3>3. CASE k.at # "done"
      BY <1>21, <1>24, <2>1, <3>1, <3>3 DEF TellStays
    <3> QED BY <3>2, <3>3
  <2> QED BY <2>2, <2>3, <2>4
<1>33. \A i \in kutsut' : i \in kutsut \/ KutsuOK(i)'
  BY <1>11, <1>31
<1> QED BY <1>16, <1>26, <1>27, <1>28, <1>30, <1>32, <1>33, PageGoesOn

\* A request moves on at the server.
LEMMA PageServes ==
  ASSUME ViestiInv, UNCHANGED nakyma, MailsGrow, ViestitTyped', MailsOK', NEW k \in kutsut, NEW n,
         kutsut' = (kutsut \ {k}) \cup {n}, KutsuOK(n)',
         \A m \in Lokissa(nakyma.hanke, nakyma.tab) : Kertoo(k, m) => Kertoo(n, m),
         \A m \in Lokissa(nakyma.hanke, nakyma.tab)' \ Lokissa(nakyma.hanke, nakyma.tab) : TellStays(m)
  PROVE  ViestiInv'
<1>1. ViestitTyped /\ FormIsOfItsProject
  BY DEF ViestiInv
<1>2. Stays
  BY <1>1, SameStays
<1>3. FormStays
  BY <1>1, IdsGrow, LokissaGrows DEF FormIsOfItsProject, FormStays
<1>4. ASSUME OnNakyvissa(nakyma), NEW m \in Lokissa(nakyma.hanke, nakyma.tab)'
      PROVE  TellStays(m)
  <2>1. CASE m \notin Lokissa(nakyma.hanke, nakyma.tab)
    BY <1>4, <2>1
  <2>2. CASE m \in Lokissa(nakyma.hanke, nakyma.tab)
    <3>1. TellStays(m) \/ \E i \in kutsut \ kutsut' : Kertoo(i, m)
      BY <1>2, <1>4, <2>2, StillTold
    <3>2. \A i \in kutsut \ kutsut' : i = k
      OBVIOUS
    <3>3. Kertoo(k, m) => TellStays(m)
      BY <2>2 DEF TellStays
    <3> QED BY <3>1, <3>2, <3>3
  <2> QED BY <2>1, <2>2
<1>5. \A i \in kutsut' : i \in kutsut \/ KutsuOK(i)'
  OBVIOUS
<1> QED BY <1>2, <1>3, <1>4, <1>5, PageGoesOn

\* A request that goes on as n, with nothing else changed.
LEMMA KutsuKeeps ==
  ASSUME ViestiInv, UNCHANGED <<nakyma, postit, yritykset, ajot>>, NEW k \in kutsut, NEW n \in Kutsut,
         kutsut' = (kutsut \ {k}) \cup {n}, KutsuOK(n),
         \A m \in Lokissa(nakyma.hanke, nakyma.tab) : Kertoo(k, m) => Kertoo(n, m)
  PROVE  ViestiInv'
<1>1. ViestitTyped
  BY DEF ViestiInv
<1>2. kutsut' \subseteq Kutsut
  BY <1>1 DEF ViestitTyped
<1>3. Stays
  BY <1>1, SameStays
<1>4. MailsOK' /\ MailsGrow /\ ViestitTyped'
  BY <1>2, <1>3, PageMails
<1>5. KutsuOK(n)'
  BY DEF KutsuOK, Lokissa, PostiIds
<1>6. Lokissa(nakyma.hanke, nakyma.tab)' = Lokissa(nakyma.hanke, nakyma.tab)
  BY DEF Lokissa, PostiIds
<1> QED BY <1>4, <1>5, <1>6, PageServes

LEMMA KutsuFailsKeeps ==
  ASSUME ViestiInv, NEW k \in kutsut, KutsuFails(k)
  PROVE  ViestiInv'
<1>1. ViestitTyped /\ KutsuOK(k) /\ k \in Kutsut
  BY KutsuHas DEF ViestiInv, KutsutOK
<1>2. PICK n : n = [k EXCEPT !.at = "error"]
  OBVIOUS
<1>3. /\ n \in Kutsut /\ n.kind = k.kind /\ n.hanke = k.hanke /\ n.tab = k.tab /\ n.mount = k.mount
      /\ n.to = k.to /\ n.blank = k.blank /\ n.posti = k.posti /\ n.got = k.got /\ n.at = "error"
  BY <1>1, <1>2 DEF Kutsut
<1>4. kutsut' = (kutsut \ {k}) \cup {n} /\ UNCHANGED <<nakyma, postit, yritykset, ajot>>
  BY <1>2 DEF KutsuFails, Siirtyy
<1>5. KutsuOK(n)
  BY <1>1, <1>3 DEF KutsuOK
<1>6. \A m : Kertoo(k, m) => Kertoo(n, m)
  BY <1>3 DEF Kertoo
<1> QED BY <1>3, <1>4, <1>5, <1>6, KutsuKeeps

LEMMA GetTapahtumalokiKeeps ==
  ASSUME ViestiInv, NEW k \in kutsut, GetTapahtumaloki(k)
  PROVE  ViestiInv'
<1>1. ViestitTyped /\ KutsuOK(k) /\ k \in Kutsut
  BY KutsuHas DEF ViestiInv, KutsutOK
<1>2. PICK g \in SUBSET Nat : g = Lokissa(k.hanke, k.tab)
  <2>1. PICK z \in Nat : z = Len(postit)
    BY <1>1 DEF ViestitTyped
  <2>2. Lokissa(k.hanke, k.tab) \subseteq 1..z
    BY <2>1 DEF Lokissa, PostiIds
  <2> QED BY <2>2
<1>3. PICK n : n = [k EXCEPT !.at = "done", !.got = g]
  OBVIOUS
<1>4. /\ n \in Kutsut /\ n.kind = k.kind /\ n.hanke = k.hanke /\ n.tab = k.tab /\ n.mount = k.mount
      /\ n.to = k.to /\ n.blank = k.blank /\ n.posti = k.posti /\ n.got = g /\ n.at = "done"
  BY <1>1, <1>3 DEF Kutsut
<1>5. /\ k.kind = "lista" /\ k.at = "sent" /\ kutsut' = (kutsut \ {k}) \cup {n}
      /\ UNCHANGED <<nakyma, postit, yritykset, ajot>>
  BY <1>2, <1>3 DEF GetTapahtumaloki, Siirtyy
<1>6. KutsuOK(n)
  BY <1>1, <1>2, <1>4, <1>5 DEF KutsuOK
<1>7. \A m \in Lokissa(nakyma.hanke, nakyma.tab) : Kertoo(k, m) => Kertoo(n, m)
  BY <1>1, <1>2, <1>4, <1>5 DEF Kertoo, KutsuOK
<1> QED BY <1>4, <1>5, <1>6, <1>7, KutsuKeeps

\* The mails and their attempts change, and what the mails are about does not.
SameMails ==
  /\ postit' \in Seq(Postit) /\ Len(postit') = Len(postit)
  /\ \A m \in PostiIds :
       /\ postit'[m].hanke = postit[m].hanke /\ postit'[m].to = postit[m].to
       /\ postit'[m].tab = postit[m].tab /\ postit'[m].mount = postit[m].mount
       /\ postit'[m].logged = postit[m].logged /\ postit'[m].told = postit[m].told
AttemptsTyped ==
  /\ yritykset' \subseteq Yritykset /\ \A y \in yritykset' : y.posti \in PostiIds
  /\ ajot' \in [Ajajat -> SUBSET PostiIds]
MailsHold == \A m \in PostiIds : postit'[m].doubt \/ MailOK(m)'
LEMMA SameMailsGrow ==
  ASSUME ViestiInv, UNCHANGED nakyma, SameMails, AttemptsTyped, kutsut' \subseteq Kutsut, MailsHold
  PROVE  /\ MailsGrow /\ ViestitTyped' /\ MailsOK' /\ PostiIds' = PostiIds
         /\ \A h, t : Lokissa(h, t)' = Lokissa(h, t)
<1>1. ViestitTyped /\ MailsOK
  BY DEF ViestiInv
<1>2. PICK z \in Nat : z = Len(postit) /\ PostiIds = 1..z /\ PostiIds' = 1..z
  BY <1>1 DEF ViestitTyped, PostiIds, SameMails
<1>3. MailsGrow
  BY <1>2 DEF MailsGrow, SameMails
<1>4. ViestitTyped'
  BY <1>1, <1>2 DEF ViestitTyped, SameMails, AttemptsTyped
<1>5. MailsOK'
  BY <1>1, <1>2 DEF MailsOK, MailsHold, SameMails
<1>6. \A h, t : Lokissa(h, t)' = Lokissa(h, t)
  BY <1>2 DEF Lokissa, SameMails
<1> QED BY <1>2, <1>3, <1>4, <1>5, <1>6

LEMMA MailStepKeeps ==
  ASSUME ViestiInv, UNCHANGED <<nakyma, kutsut>>, SameMails, AttemptsTyped, MailsHold
  PROVE  ViestiInv'
<1>1. ViestitTyped /\ FormIsOfItsProject
  BY DEF ViestiInv
<1>2. MailsGrow /\ ViestitTyped' /\ MailsOK' /\ \A h, t : Lokissa(h, t)' = Lokissa(h, t)
  <2>1. kutsut' \subseteq Kutsut
    BY <1>1 DEF ViestitTyped
  <2> QED BY <2>1, SameMailsGrow
<1>3. Stays
  BY <1>1, SameStays
<1>4. FormStays
  BY <1>1, <1>2, IdsGrow, LokissaGrows DEF FormIsOfItsProject, FormStays
<1>5. ASSUME OnNakyvissa(nakyma), NEW m \in Lokissa(nakyma.hanke, nakyma.tab)'
      PROVE  TellStays(m)
  <2>1. m \in Lokissa(nakyma.hanke, nakyma.tab)
    BY <1>1, <1>2, <1>5 DEF Lokissa, SameMails, PostiIds
  <2> QED BY <1>2, <1>3, <1>5, <2>1, StillTold
<1> QED BY <1>2, <1>3, <1>4, <1>5, PageGoesOn

\* The change of one mail.
MailChanges(m, r) ==
  /\ m \in PostiIds /\ r \in Postit /\ postit' = [postit EXCEPT ![m] = r]
  /\ r.hanke = postit[m].hanke /\ r.to = postit[m].to /\ r.tab = postit[m].tab
  /\ r.mount = postit[m].mount /\ r.logged = postit[m].logged /\ r.told = postit[m].told
LEMMA MailChangesIs ==
  ASSUME ViestitTyped, NEW m, NEW r, MailChanges(m, r)
  PROVE  SameMails /\ PostiChanges(postit', m, r)
<1>1. PostiChanges(postit', m, r)
  BY OnePostiChanges DEF MailChanges
<1> QED BY <1>1 DEF MailChanges, PostiChanges, SameMails

\* The attempts about one mail are those of no other.
Of(m) == {y \in yritykset : y.posti = m}
LEMMA MailUntouched ==
  ASSUME NEW m, MailOK(m), Of(m)' = Of(m),
         postit'[m].delivered = postit[m].delivered, postit'[m].event = postit[m].event
  PROVE  MailOK(m)'
<1>1. \A y : y \in yritykset /\ y.posti = m <=> y \in yritykset' /\ y.posti = m
  BY DEF Of
<1> QED BY <1>1 DEF MailOK

LEMMA AttemptHas ==
  ASSUME ViestitTyped, NEW y \in yritykset
  PROVE  /\ y \in Yritykset /\ y.by \in {"first"} \cup Ajajat /\ y.posti \in PostiIds /\ y.posti \in Nat
         /\ y.at \in {"send", "sent", "failed"}
<1>1. y \in Yritykset /\ y.posti \in PostiIds
  BY DEF ViestitTyped
<1> QED BY <1>1 DEF Yritykset

\* An attempt goes on as w, and its mail as r.
LEMMA AttemptMoves ==
  ASSUME ViestiInv, NEW y \in yritykset, NEW w \in Yritykset, w.posti = y.posti,
         yritykset' = (yritykset \ {y}) \cup {w}, UNCHANGED <<nakyma, kutsut, ajot>>,
         NEW r, MailChanges(y.posti, r),
         r.doubt \/ (/\ ~postit[y.posti].doubt
                     /\ (MailOK(y.posti) =>
                          /\ r.delivered = IF w.at = "sent" THEN 1 ELSE 0
                          /\ r.event # "sent"))
  PROVE  ViestiInv'
<1>1. ViestitTyped /\ MailsOK
  BY DEF ViestiInv
<1>2. SameMails /\ PostiChanges(postit', y.posti, r) /\ y.posti \in PostiIds
  BY <1>1, MailChangesIs, AttemptHas
<1>3. AttemptsTyped
  BY <1>1, <1>2 DEF AttemptsTyped, ViestitTyped
<1>4. MailsHold
  <2>1. SUFFICES ASSUME NEW m \in PostiIds, ~postit'[m].doubt PROVE MailOK(m)'
    BY DEF MailsHold
  <2>2. CASE m # y.posti
    <3>1. postit'[m] = postit[m]
      BY <1>2, <2>2 DEF PostiChanges
    <3>2. Of(m)' = Of(m)
      BY <2>2 DEF Of
    <3> QED BY <1>1, <2>1, <3>1, <3>2, MailUntouched DEF MailsOK
  <2>3. CASE m = y.posti
    <3>1. postit'[m] = r
      BY <1>2, <2>3 DEF PostiChanges
    <3>2. MailOK(m)
      BY <1>1, <2>1, <2>3, <3>1 DEF MailsOK
    <3>3. r.delivered = (IF w.at = "sent" THEN 1 ELSE 0) /\ r.event # "sent"
      BY <2>1, <2>3, <3>1, <3>2
    <3>4. \A z \in yritykset' : z.posti = m => z = w
      BY <2>3, <3>2 DEF MailOK
    <3>5. w \in yritykset' /\ w.posti = m
      BY <2>3
    <3> QED BY <3>1, <3>3, <3>4, <3>5 DEF MailOK
  <2> QED BY <2>2, <2>3
<1> QED BY <1>2, <1>3, <1>4, MailStepKeeps

\* An attempt ends, and its mail is r.
LEMMA AttemptEnds ==
  ASSUME ViestiInv, NEW y \in yritykset,
         yritykset' = yritykset \ {y}, UNCHANGED <<nakyma, kutsut, ajot>>,
         NEW r, MailChanges(y.posti, r),
         r.doubt \/ (/\ ~postit[y.posti].doubt
                     /\ (MailOK(y.posti) => \/ r.delivered = 1 /\ r.event = "sent"
                                            \/ r.delivered = 0 /\ r.event = "failed"))
  PROVE  ViestiInv'
<1>1. ViestitTyped /\ MailsOK
  BY DEF ViestiInv
<1>2. SameMails /\ PostiChanges(postit', y.posti, r) /\ y.posti \in PostiIds
  BY <1>1, MailChangesIs, AttemptHas
<1>3. AttemptsTyped
  BY <1>1, <1>2 DEF AttemptsTyped, ViestitTyped
<1>4. MailsHold
  <2>1. SUFFICES ASSUME NEW m \in PostiIds, ~postit'[m].doubt PROVE MailOK(m)'
    BY DEF MailsHold
  <2>2. CASE m # y.posti
    <3>1. postit'[m] = postit[m]
      BY <1>2, <2>2 DEF PostiChanges
    <3>2. Of(m)' = Of(m)
      BY <2>2 DEF Of
    <3> QED BY <1>1, <2>1, <3>1, <3>2, MailUntouched DEF MailsOK
  <2>3. CASE m = y.posti
    <3>1. postit'[m] = r
      BY <1>2, <2>3 DEF PostiChanges
    <3>2. MailOK(m)
      BY <1>1, <2>1, <2>3, <3>1 DEF MailsOK
    <3>3. \/ r.delivered = 1 /\ r.event = "sent"
          \/ r.delivered = 0 /\ r.event = "failed"
      BY <2>1, <2>3, <3>1, <3>2
    <3>4. \A z \in yritykset' : z.posti # m
      BY <2>3, <3>2 DEF MailOK
    <3> QED BY <3>1, <3>3, <3>4 DEF MailOK
  <2> QED BY <2>2, <2>3
<1> QED BY <1>2, <1>3, <1>4, MailStepKeeps

LEMMA SendMailKeeps ==
  ASSUME ViestiInv, NEW y \in yritykset, SendMail(y)
  PROVE  ViestiInv'
<1>1. ViestitTyped
  BY DEF ViestiInv
<1>2. y \in Yritykset /\ y.posti \in PostiIds
  BY <1>1, AttemptHas
<1>3. PICK o \in Postit : o = postit[y.posti]
  BY <1>1, <1>2, PostiHas
<1>4. PICK d \in Nat : d = o.delivered + 1
  BY <1>3 DEF Postit
<1>5. PICK r : r = [o EXCEPT !.delivered = d]
  OBVIOUS
<1>6. /\ r \in Postit /\ r.hanke = o.hanke /\ r.to = o.to /\ r.tab = o.tab /\ r.mount = o.mount
      /\ r.logged = o.logged /\ r.told = o.told /\ r.delivered = d /\ r.event = o.event
      /\ r.doubt = o.doubt /\ r.doubt \in BOOLEAN
  BY <1>3, <1>5 DEF Postit
<1>7. PICK w : w = [y EXCEPT !.at = "sent"]
  OBVIOUS
<1>8. w \in Yritykset /\ w.posti = y.posti /\ w.at = "sent"
  BY <1>2, <1>7 DEF Yritykset
<1>9. /\ y.at = "send" /\ yritykset' = (yritykset \ {y}) \cup {w} /\ UNCHANGED <<nakyma, kutsut, ajot>>
      /\ postit' = [postit EXCEPT ![y.posti] = r]
  BY <1>3, <1>4, <1>5, <1>7 DEF SendMail, AttemptAt
<1>10. MailChanges(y.posti, r)
  BY <1>2, <1>3, <1>6, <1>9 DEF MailChanges
<1>11. MailOK(y.posti) => d = 1 /\ o.event # "sent"
  BY <1>3, <1>4, <1>9 DEF MailOK
<1>12. r.doubt \/ (/\ ~postit[y.posti].doubt
                   /\ (MailOK(y.posti) => /\ r.delivered = IF w.at = "sent" THEN 1 ELSE 0
                                          /\ r.event # "sent"))
  BY <1>3, <1>6, <1>8, <1>11
<1> QED BY <1>8, <1>9, <1>10, <1>12, AttemptMoves

LEMMA SendMailFailsKeeps ==
  ASSUME ViestiInv, NEW y \in yritykset, SendMailFails(y)
  PROVE  ViestiInv'
<1>1. ViestitTyped
  BY DEF ViestiInv
<1>2. y \in Yritykset /\ y.posti \in PostiIds
  BY <1>1, AttemptHas
<1>3. PICK o \in Postit : o = postit[y.posti]
  BY <1>1, <1>2, PostiHas
<1>4. PICK d \in Nat : d = o.delivered + 1
  BY <1>3 DEF Postit
<1>5. PICK r : r = [o EXCEPT !.delivered = d, !.doubt = TRUE]
  OBVIOUS
<1>6. /\ r \in Postit /\ r.hanke = o.hanke /\ r.to = o.to /\ r.tab = o.tab /\ r.mount = o.mount
      /\ r.logged = o.logged /\ r.told = o.told /\ r.doubt
  BY <1>3, <1>5 DEF Postit
<1>7. PICK w : w = [y EXCEPT !.at = "failed"]
  OBVIOUS
<1>8. w \in Yritykset /\ w.posti = y.posti /\ w.at = "failed"
  BY <1>2, <1>7 DEF Yritykset
<1>9. /\ y.at = "send" /\ yritykset' = (yritykset \ {y}) \cup {w} /\ UNCHANGED <<nakyma, kutsut, ajot>>
      /\ postit' = postit \/ postit' = [postit EXCEPT ![y.posti] = r]
  BY <1>3, <1>4, <1>5, <1>7 DEF SendMailFails, AttemptAt
<1>10. CASE postit' = [postit EXCEPT ![y.posti] = r]
  <2>1. MailChanges(y.posti, r)
    BY <1>2, <1>3, <1>6, <1>10 DEF MailChanges
  <2> QED BY <1>6, <1>8, <1>9, <2>1, AttemptMoves
<1>11. CASE postit' = postit
  <2>1. postit' = [postit EXCEPT ![y.posti] = o]
    BY <1>1, <1>2, <1>3, <1>11 DEF ViestitTyped, PostiIds
  <2>2. MailChanges(y.posti, o)
    BY <1>2, <1>3, <2>1 DEF MailChanges
  <2>3. MailOK(y.posti) => o.delivered = 0 /\ o.event # "sent"
    BY <1>3, <1>9 DEF MailOK
  <2>4. o.doubt \/ (/\ ~postit[y.posti].doubt
                    /\ (MailOK(y.posti) => /\ o.delivered = IF w.at = "sent" THEN 1 ELSE 0
                                           /\ o.event # "sent"))
    BY <1>3, <1>8, <2>3
  <2> QED BY <1>8, <1>9, <2>2, <2>4, AttemptMoves
<1> QED BY <1>9, <1>10, <1>11

LEMMA CreateEmailEventKeeps ==
  ASSUME ViestiInv, NEW y \in yritykset, CreateEmailEvent(y)
  PROVE  ViestiInv'
<1>1. ViestitTyped
  BY DEF ViestiInv
<1>2. y \in Yritykset /\ y.posti \in PostiIds /\ y.at \in {"sent", "failed"}
  BY <1>1, AttemptHas DEF CreateEmailEvent
<1>3. PICK o \in Postit : o = postit[y.posti]
  BY <1>1, <1>2, PostiHas
<1>4. PICK r : r = [o EXCEPT !.event = y.at]
  OBVIOUS
<1>5. /\ r \in Postit /\ r.hanke = o.hanke /\ r.to = o.to /\ r.tab = o.tab /\ r.mount = o.mount
      /\ r.logged = o.logged /\ r.told = o.told /\ r.delivered = o.delivered /\ r.event = y.at
      /\ r.doubt = o.doubt
  BY <1>2, <1>3, <1>4 DEF Postit
<1>6. /\ yritykset' = yritykset \ {y} /\ UNCHANGED <<nakyma, kutsut, ajot>>
      /\ postit' = [postit EXCEPT ![y.posti] = r]
  BY <1>3, <1>4 DEF CreateEmailEvent
<1>7. MailChanges(y.posti, r)
  BY <1>2, <1>3, <1>5, <1>6 DEF MailChanges
<1>8. MailOK(y.posti) => o.delivered = IF y.at = "sent" THEN 1 ELSE 0
  BY <1>3 DEF MailOK
<1>9. r.doubt \/ (/\ ~postit[y.posti].doubt
                  /\ (MailOK(y.posti) => \/ r.delivered = 1 /\ r.event = "sent"
                                         \/ r.delivered = 0 /\ r.event = "failed"))
  BY <1>2, <1>3, <1>5, <1>8
<1> QED BY <1>6, <1>7, <1>9, AttemptEnds

\* The mail of which something is in doubt.
LEMMA DoubtedIs ==
  ASSUME ViestitTyped, NEW m \in PostiIds, postit' = Doubted(m)
  PROVE  \E r : MailChanges(m, r) /\ r.doubt
<1>1. PICK o \in Postit : o = postit[m]
  BY PostiHas
<1>2. PICK r : r = [o EXCEPT !.doubt = TRUE]
  OBVIOUS
<1>3. /\ r \in Postit /\ r.hanke = o.hanke /\ r.to = o.to /\ r.tab = o.tab /\ r.mount = o.mount
      /\ r.logged = o.logged /\ r.told = o.told /\ r.doubt
  BY <1>1, <1>2 DEF Postit
<1>4. postit' = [postit EXCEPT ![m] = r]
  BY <1>1, <1>2 DEF Doubted
<1>5. MailChanges(m, r)
  BY <1>1, <1>3, <1>4 DEF MailChanges
<1> QED BY <1>3, <1>5

LEMMA CreateEmailEventFailsKeeps ==
  ASSUME ViestiInv, NEW y \in yritykset, CreateEmailEventFails(y)
  PROVE  ViestiInv'
<1>1. ViestitTyped /\ y.posti \in PostiIds
  BY AttemptHas DEF ViestiInv
<1>2. PICK r : MailChanges(y.posti, r) /\ r.doubt
  BY <1>1, DoubtedIs DEF CreateEmailEventFails
<1>3. yritykset' = yritykset \ {y} /\ UNCHANGED <<nakyma, kutsut, ajot>>
  BY DEF CreateEmailEventFails
<1> QED BY <1>2, <1>3, AttemptEnds

LEMMA LeastIs ==
  ASSUME NEW S \in SUBSET Nat, S # {}
  PROVE  Min(S) \in S
<1>1. PICK x \in S : \A y \in S : ~ (<<y, x>> \in OpToRel(<, Nat))
  BY NatLessThanWellFounded, WFMin
<1>2. \A y \in S : y \in Nat /\ x \in Nat
  BY <1>1
<1>3. \A y \in S : ~ (y < x)
  <2>1. OpToRel(<, Nat) = {p \in Nat \X Nat : p[1] < p[2]}
    BY Zenon DEF OpToRel
  <2>2. \A y \in S : <<y, x>> \notin {p \in Nat \X Nat : p[1] < p[2]}
    BY <1>1, <2>1, Zenon
  <2> QED BY <1>2, <2>2
<1>4. \A y \in S : x <= y
  BY <1>2, <1>3
<1> QED BY <1>1, <1>4 DEF Min

\* A run of the retry reads the mails that failed.
LEMMA StartRetryKeeps ==
  ASSUME ViestiInv, NEW r \in Ajajat, StartRetry(r)
  PROVE  ViestiInv'
<1>1. ViestitTyped /\ MailsOK
  BY DEF ViestiInv
<1>2. PICK F \in SUBSET PostiIds : F = {m \in PostiIds : postit[m].event = "failed"}
  OBVIOUS
<1>3. ajot' = [ajot EXCEPT ![r] = F] /\ UNCHANGED <<nakyma, kutsut, postit, yritykset>>
  BY <1>2 DEF StartRetry
<1>4. AttemptsTyped
  BY <1>1, <1>2, <1>3 DEF AttemptsTyped, ViestitTyped
<1>5. SameMails
  BY <1>1, <1>3 DEF SameMails, ViestitTyped
<1>6. MailsHold
  BY <1>1, <1>3 DEF MailsHold, MailsOK, MailOK
<1> QED BY <1>3, <1>4, <1>5, <1>6, MailStepKeeps

\* The next of them is tried: it is in doubt when another attempt has it, or sent it.
LEMMA TrySendMsgKeeps ==
  ASSUME ViestiInv, NEW r \in Ajajat, TrySendMsg(r)
  PROVE  ViestiInv'
<1>1. ViestitTyped /\ MailsOK
  BY DEF ViestiInv
<1>2. PICK z \in Nat : z = Len(postit) /\ PostiIds = 1..z
  BY <1>1 DEF ViestitTyped, PostiIds
<1>3. PICK m \in PostiIds : m = Min(ajot[r])
  <2>1. ajot[r] \in SUBSET PostiIds /\ ajot[r] # {}
    BY <1>1 DEF TrySendMsg, ViestitTyped
  <2>2. ajot[r] \in SUBSET Nat
    BY <1>2, <2>1
  <2> QED BY <2>1, <2>2, LeastIs
<1>4. PICK w : w = [by |-> r, posti |-> m, at |-> "send"]
  OBVIOUS
<1>5. w \in Yritykset /\ w.posti = m /\ w.at = "send"
  BY <1>2, <1>4 DEF Yritykset
<1>6. /\ yritykset' = yritykset \cup {w} /\ ajot' = [ajot EXCEPT ![r] = ajot[r] \ {m}]
      /\ UNCHANGED <<nakyma, kutsut>>
  BY <1>3, <1>4 DEF TrySendMsg
<1>7. AttemptsTyped
  BY <1>1, <1>5, <1>6 DEF AttemptsTyped, ViestitTyped
<1>8. \A i \in PostiIds \ {m} : Of(i)' = Of(i)
  BY <1>5, <1>6 DEF Of
<1>9. CASE postit[m].event # "sent" /\ (\A y \in yritykset : y.posti # m) /\ postit' = postit
  <2>1. SameMails
    BY <1>1, <1>9 DEF SameMails, ViestitTyped
  <2>2. MailsHold
    <3>1. SUFFICES ASSUME NEW i \in PostiIds, ~postit[i].doubt PROVE MailOK(i)'
      BY <1>9 DEF MailsHold
    <3>2. MailOK(i)
      BY <1>1, <3>1 DEF MailsOK
    <3>3. CASE i # m
      BY <1>8, <1>9, <3>2, <3>3, MailUntouched
    <3>4. CASE i = m
      <4>1. postit'[m].delivered = 0 /\ postit'[m].event # "sent"
        BY <1>9, <3>2, <3>4 DEF MailOK
      <4>2. \A y \in yritykset' : y.posti = m => y = w
        BY <1>6, <1>9
      <4> QED BY <1>5, <1>6, <3>4, <4>1, <4>2 DEF MailOK
    <3> QED BY <3>3, <3>4
  <2> QED BY <1>6, <1>7, <2>1, <2>2, MailStepKeeps
<1>10. CASE postit' = Doubted(m)
  <2>1. PICK q : MailChanges(m, q) /\ q.doubt
    BY <1>1, <1>10, DoubtedIs
  <2>2. SameMails /\ PostiChanges(postit', m, q)
    BY <1>1, <2>1, MailChangesIs
  <2>3. MailsHold
    <3>1. SUFFICES ASSUME NEW i \in PostiIds, ~postit'[i].doubt PROVE MailOK(i)'
      BY DEF MailsHold
    <3>2. i # m /\ postit'[i] = postit[i]
      BY <2>1, <2>2, <3>1 DEF PostiChanges
    <3>3. MailOK(i)
      BY <1>1, <3>1, <3>2 DEF MailsOK
    <3> QED BY <1>8, <3>2, <3>3, MailUntouched
  <2> QED BY <1>6, <1>7, <2>2, <2>3, MailStepKeeps
<1>11. \/ postit[m].event # "sent" /\ (\A y \in yritykset : y.posti # m) /\ postit' = postit
       \/ postit' = Doubted(m)
  BY <1>3 DEF TrySendMsg
<1> QED BY <1>9, <1>10, <1>11

\* The server stops: what was being sent is in doubt, and every request is told to have failed.
LEMMA PalvelinKaatuuKeeps == ViestiInv /\ PalvelinKaatuu => ViestiInv'
<1> SUFFICES ASSUME ViestiInv, PalvelinKaatuu PROVE ViestiInv'
  OBVIOUS
<1>1. ViestitTyped /\ MailsOK /\ FormIsOfItsProject /\ KutsutOK
  BY DEF ViestiInv
<1>2. PICK z \in Nat : z = Len(postit) /\ PostiIds = 1..z
  BY <1>1 DEF ViestitTyped, PostiIds
<1>3. /\ kutsut' = {[k EXCEPT !.at = "error"] : k \in kutsut}
      /\ postit' = [m \in PostiIds |-> [postit[m] EXCEPT !.doubt = @ \/ \E y \in yritykset : y.posti = m]]
      /\ yritykset' = {} /\ ajot' = [r \in DOMAIN ajot |-> {}] /\ nakyma' = nakyma
  BY DEF PalvelinKaatuu
<1>4. \A m \in PostiIds :
        /\ postit'[m] \in Postit
        /\ postit'[m].hanke = postit[m].hanke /\ postit'[m].to = postit[m].to
        /\ postit'[m].tab = postit[m].tab /\ postit'[m].mount = postit[m].mount
        /\ postit'[m].logged = postit[m].logged /\ postit'[m].told = postit[m].told
        /\ postit'[m].delivered = postit[m].delivered /\ postit'[m].event = postit[m].event
        /\ ~postit'[m].doubt => ~postit[m].doubt /\ \A y \in yritykset : y.posti # m
  <2>1. SUFFICES ASSUME NEW m \in PostiIds
                 PROVE  /\ postit'[m] \in Postit
                        /\ postit'[m].hanke = postit[m].hanke /\ postit'[m].to = postit[m].to
                        /\ postit'[m].tab = postit[m].tab /\ postit'[m].mount = postit[m].mount
                        /\ postit'[m].logged = postit[m].logged /\ postit'[m].told = postit[m].told
                        /\ postit'[m].delivered = postit[m].delivered /\ postit'[m].event = postit[m].event
                        /\ ~postit'[m].doubt => ~postit[m].doubt /\ \A y \in yritykset : y.posti # m
    OBVIOUS
  <2>2. PICK o \in Postit : o = postit[m]
    BY <1>1, PostiHas
  <2>3. o.doubt \in BOOLEAN
    BY <2>2 DEF Postit
  <2>4. PICK d \in BOOLEAN : d = (o.doubt \/ \E y \in yritykset : y.posti = m)
    BY <2>3
  <2>5. PICK q : q = [o EXCEPT !.doubt = d]
    OBVIOUS
  <2>6. /\ q \in Postit /\ q.hanke = o.hanke /\ q.to = o.to /\ q.tab = o.tab /\ q.mount = o.mount
        /\ q.logged = o.logged /\ q.told = o.told /\ q.delivered = o.delivered /\ q.event = o.event
        /\ q.doubt = d
    BY <2>2, <2>5 DEF Postit
  <2>7. postit'[m] = q
    BY <1>3, <2>1, <2>2, <2>4, <2>5
  <2> QED BY <2>2, <2>3, <2>4, <2>6, <2>7
<1>5. postit' \in Seq(Postit) /\ Len(postit') = z
  <2>1. postit' \in [1..z -> Postit]
    BY <1>2, <1>3, <1>4
  <2> QED BY <1>2, <2>1
<1>6. SameMails
  BY <1>2, <1>4, <1>5 DEF SameMails
<1>7. AttemptsTyped
  BY <1>1, <1>3 DEF AttemptsTyped, ViestitTyped
<1>8. MailsHold
  <2>1. SUFFICES ASSUME NEW m \in PostiIds, ~postit'[m].doubt PROVE MailOK(m)'
    BY DEF MailsHold
  <2>2. ~postit[m].doubt /\ \A y \in yritykset : y.posti # m
    BY <1>4, <2>1
  <2>3. MailOK(m)
    BY <1>1, <2>2 DEF MailsOK
  <2>4. \/ postit'[m].delivered = 1 /\ postit'[m].event = "sent"
        \/ postit'[m].delivered = 0 /\ postit'[m].event = "failed"
    BY <1>4, <2>2, <2>3 DEF MailOK
  <2> QED BY <1>3, <2>4 DEF MailOK
<1>9. \A k \in kutsut : \E n \in kutsut' :
        /\ n \in Kutsut /\ n.kind = k.kind /\ n.hanke = k.hanke /\ n.tab = k.tab
        /\ n.mount = k.mount /\ n.to = k.to /\ n.blank = k.blank /\ n.posti = k.posti
        /\ n.got = k.got /\ n.at = "error"
  <2>1. TAKE k \in kutsut
  <2>2. PICK n : n = [k EXCEPT !.at = "error"]
    OBVIOUS
  <2>3. k \in Kutsut
    BY <1>1, KutsuHas
  <2>4. /\ n \in Kutsut /\ n.kind = k.kind /\ n.hanke = k.hanke /\ n.tab = k.tab
        /\ n.mount = k.mount /\ n.to = k.to /\ n.blank = k.blank /\ n.posti = k.posti
        /\ n.got = k.got /\ n.at = "error"
    BY <2>2, <2>3 DEF Kutsut
  <2>5. n \in kutsut'
    BY <1>3, <2>1, <2>2
  <2> QED BY <2>4, <2>5
<1>10. \A n \in kutsut' : \E k \in kutsut :
        /\ n \in Kutsut /\ n.kind = k.kind /\ n.hanke = k.hanke /\ n.tab = k.tab
        /\ n.mount = k.mount /\ n.to = k.to /\ n.blank = k.blank /\ n.posti = k.posti
        /\ n.got = k.got /\ n.at = "error"
  <2>1. TAKE n \in kutsut'
  <2>2. PICK k \in kutsut : n = [k EXCEPT !.at = "error"]
    BY <1>3
  <2>3. k \in Kutsut
    BY <1>1, KutsuHas
  <2>4. /\ n \in Kutsut /\ n.kind = k.kind /\ n.hanke = k.hanke /\ n.tab = k.tab
        /\ n.mount = k.mount /\ n.to = k.to /\ n.blank = k.blank /\ n.posti = k.posti
        /\ n.got = k.got /\ n.at = "error"
    BY <2>2, <2>3 DEF Kutsut
  <2> QED BY <2>4
<1>11. kutsut' \subseteq Kutsut
  BY <1>10
<1>12. /\ MailsGrow /\ ViestitTyped' /\ MailsOK' /\ PostiIds' = PostiIds
       /\ \A h, t : Lokissa(h, t)' = Lokissa(h, t)
  BY <1>3, <1>6, <1>7, <1>8, <1>11, SameMailsGrow
<1>13. Stays
  BY <1>1, <1>3, SameStays
<1>14. FormStays
  BY <1>1, <1>3, <1>12, LokissaGrows DEF FormIsOfItsProject, FormStays
<1>15. ASSUME NEW n \in kutsut' PROVE KutsuOK(n)'
  <2>1. PICK k \in kutsut :
        /\ n \in Kutsut /\ n.kind = k.kind /\ n.hanke = k.hanke /\ n.tab = k.tab
        /\ n.mount = k.mount /\ n.to = k.to /\ n.blank = k.blank /\ n.posti = k.posti
        /\ n.got = k.got /\ n.at = "error"
    BY <1>10, <1>15
  <2>2. KutsuOK(k)'
    BY <1>12, <1>13, <2>1, KutsuStays
  <2> QED BY <2>1, <2>2 DEF KutsuOK
<1>16. ASSUME OnNakyvissa(nakyma), NEW m \in Lokissa(nakyma.hanke, nakyma.tab)'
       PROVE  TellStays(m)
  <2>1. m \in Lokissa(nakyma.hanke, nakyma.tab)
    BY <1>2, <1>3, <1>4, <1>12, <1>16 DEF Lokissa
  <2>2. TellStays(m) \/ \E k \in kutsut \ kutsut' : Kertoo(k, m)
    BY <1>3, <1>12, <1>13, <1>16, <2>1, StillTold
  <2>3. ASSUME NEW k \in kutsut, Kertoo(k, m) PROVE TellStays(m)
    <3>1. PICK n \in kutsut' :
            /\ n \in Kutsut /\ n.kind = k.kind /\ n.hanke = k.hanke /\ n.tab = k.tab
            /\ n.mount = k.mount /\ n.to = k.to /\ n.blank = k.blank /\ n.posti = k.posti
            /\ n.got = k.got /\ n.at = "error"
      BY <1>9, <2>3
    <3>2. Kertoo(n, m)
      BY <2>3, <3>1 DEF Kertoo
    <3> QED BY <3>1, <3>2 DEF TellStays
  <2> QED BY <2>2, <2>3
<1> QED BY <1>12, <1>13, <1>14, <1>15, <1>16, PageGoesOn

\* A message is stored, and its first attempt is under way.
LEMMA TrySendEmailKeeps ==
  ASSUME ViestiInv, NEW k \in kutsut, TrySendEmail(k)
  PROVE  ViestiInv'
<1>1. ViestitTyped /\ KutsuOK(k) /\ k \in Kutsut /\ MailsOK
  BY KutsuHas DEF ViestiInv, KutsutOK
<1>2. k.kind = "laheta" /\ k.at = "sent" /\ UNCHANGED <<nakyma, ajot, kulutettu>>
  BY DEF TrySendEmail
<1>3. CASE k.to = NoHanke
  <2>1. PICK n : n = [k EXCEPT !.at = "error"]
    OBVIOUS
  <2>2. /\ n \in Kutsut /\ n.kind = k.kind /\ n.hanke = k.hanke /\ n.tab = k.tab /\ n.mount = k.mount
        /\ n.to = k.to /\ n.blank = k.blank /\ n.posti = k.posti /\ n.got = k.got /\ n.at = "error"
    BY <1>1, <2>1 DEF Kutsut
  <2>3. kutsut' = (kutsut \ {k}) \cup {n} /\ UNCHANGED <<nakyma, postit, yritykset, ajot>>
    BY <1>2, <1>3, <2>1 DEF TrySendEmail, Siirtyy
  <2>4. KutsuOK(n)
    BY <1>1, <2>2 DEF KutsuOK
  <2>5. \A m : Kertoo(k, m) => Kertoo(n, m)
    BY <2>2 DEF Kertoo
  <2> QED BY <2>2, <2>3, <2>4, <2>5, KutsuKeeps
<1>4. CASE k.to # NoHanke
  <2>1. PICK z \in Nat : z = Len(postit) /\ PostiIds = 1..z
    BY <1>1 DEF ViestitTyped, PostiIds
  <2>2. PICK i \in Nat : i = z + 1
    BY <2>1
  <2>3. PICK h \in Hankkeet : h = k.hanke /\ h = k.to
    BY <1>1, <1>2, <1>4, KutsuHas DEF KutsuOK
  <2>4. k.tab \in Viestityypit /\ k.mount \in Nat /\ k.posti = NoPosti
    BY <1>1, <1>2, KutsuHas DEF KutsuOK
  <2>5. PICK d \in Nat : d = 0
    OBVIOUS
  <2>6. PICK r : r = [hanke |-> h, to |-> h, tab |-> k.tab, mount |-> k.mount, logged |-> FALSE,
                      told |-> "no", event |-> "none", delivered |-> d, doubt |-> FALSE]
    OBVIOUS
  <2>7. /\ r \in Postit /\ r.hanke = h /\ r.to = h /\ r.tab = k.tab /\ r.mount = k.mount
        /\ ~r.logged /\ r.event = "none" /\ r.delivered = 0
    BY <2>3, <2>4, <2>5, <2>6 DEF Postit
  <2>8. PICK n : n = [k EXCEPT !.at = "stored", !.posti = i]
    OBVIOUS
  <2>9. /\ n \in Kutsut /\ n.kind = k.kind /\ n.hanke = k.hanke /\ n.tab = k.tab /\ n.mount = k.mount
        /\ n.to = k.to /\ n.blank = k.blank /\ n.posti = i /\ n.got = k.got /\ n.at = "stored"
    BY <1>1, <2>2, <2>8 DEF Kutsut
  <2>10. PICK w : w = [by |-> "first", posti |-> i, at |-> "send"]
    OBVIOUS
  <2>11. w \in Yritykset /\ w.posti = i /\ w.at = "send"
    BY <2>2, <2>10 DEF Yritykset
  <2>12. postit' = Append(postit, r) /\ yritykset' = yritykset \cup {w} /\ kutsut' = (kutsut \ {k}) \cup {n}
    BY <1>4, <2>1, <2>2, <2>3, <2>5, <2>6, <2>8, <2>10 DEF TrySendEmail, Siirtyy
  <2>13. /\ postit' \in Seq(Postit) /\ Len(postit') = i /\ postit'[i] = r
         /\ \A m \in PostiIds : postit'[m] = postit[m]
    <3>1. postit \in Seq(Postit)
      BY <1>1 DEF ViestitTyped
    <3> QED BY <2>1, <2>2, <2>7, <2>12, <3>1
  <2>14. PostiIds' = 1..i /\ i \notin PostiIds /\ PostiIds' = PostiIds \cup {i}
    BY <2>1, <2>2, <2>13 DEF PostiIds
  <2>15. MailsGrow
    BY <2>1, <2>2, <2>13 DEF MailsGrow
  <2>16. ViestitTyped'
    <3>1. yritykset' \subseteq Yritykset /\ \A y \in yritykset' : y.posti \in PostiIds'
      BY <1>1, <2>11, <2>12, <2>14, AttemptHas
    <3>2. ajot' \in [Ajajat -> SUBSET PostiIds']
      BY <1>1, <1>2, <2>14 DEF ViestitTyped
    <3> QED BY <1>1, <1>2, <2>9, <2>12, <2>13, <3>1, <3>2 DEF ViestitTyped
  <2>17. MailsOK'
    <3>1. SUFFICES ASSUME NEW m \in PostiIds'
                   PROVE  /\ postit'[m].to = postit'[m].hanke /\ postit'[m].mount <= nakyma'.mount
                          /\ postit'[m].doubt \/ MailOK(m)'
      BY DEF MailsOK
    <3>2. CASE m \in PostiIds
      <4>1. postit'[m] = postit[m]
        BY <2>13, <3>2
      <4>2. Of(m)' = Of(m)
        BY <2>11, <2>12, <2>14, <3>2 DEF Of
      <4>3. MailOK(m) => MailOK(m)'
        BY <4>1, <4>2, MailUntouched
      <4> QED BY <1>1, <1>2, <3>2, <4>1, <4>3 DEF MailsOK
    <3>3. CASE m = i
      <4>1. r.mount <= nakyma'.mount
        BY <1>1, <1>2, <2>7 DEF KutsuOK
      <4>2. \A y \in yritykset' : y.posti = i => y = w
        BY <1>1, <2>12, <2>14, AttemptHas
      <4>3. MailOK(m)'
        BY <2>7, <2>11, <2>12, <2>13, <3>3, <4>2 DEF MailOK
      <4> QED BY <2>7, <2>13, <3>3, <4>1, <4>3
    <3> QED BY <2>14, <3>1, <3>2, <3>3
  <2>18. KutsuOK(n)'
    <3>1. KutsuOK(k)'
      BY <1>1, <1>2, <2>15, SameStays, KutsuStays
    <3>2. i \in PostiIds' /\ postit'[i].mount = k.mount /\ i # NoPosti
      BY <2>2, <2>7, <2>13, <2>14 DEF NoPosti
    <3> QED BY <2>9, <3>1, <3>2 DEF KutsuOK
  <2>19. \A m \in Lokissa(nakyma.hanke, nakyma.tab) : ~Kertoo(k, m)
    <3>1. \A m \in Lokissa(nakyma.hanke, nakyma.tab) : m # NoPosti
      BY <2>1 DEF Lokissa, NoPosti
    <3> QED BY <1>2, <2>4, <3>1 DEF Kertoo
  <2>20. \A m \in Lokissa(nakyma.hanke, nakyma.tab)' : m \in Lokissa(nakyma.hanke, nakyma.tab)
    BY <1>2, <2>7, <2>13, <2>14 DEF Lokissa
  <2> QED BY <1>2, <2>12, <2>15, <2>16, <2>17, <2>18, <2>19, <2>20, PageServes
<1> QED BY <1>3, <1>4

\* The message is logged: the page that sent it will ask for the list.
LEMMA CreateLogEntryKeeps ==
  ASSUME ViestiInv, NEW k \in kutsut, CreateLogEntry(k)
  PROVE  ViestiInv'
<1>1. ViestitTyped /\ KutsuOK(k) /\ k \in Kutsut /\ MailsOK
  BY KutsuHas DEF ViestiInv, KutsutOK
<1>2. k.kind = "laheta" /\ k.at = "stored" /\ UNCHANGED <<nakyma, yritykset, ajot>>
  BY DEF CreateLogEntry
<1>3. PICK i \in PostiIds : i = k.posti /\ postit[i].mount = k.mount
  BY <1>1, <1>2 DEF KutsuOK
<1>4. PICK o \in Postit : o = postit[i]
  BY <1>1, PostiHas
<1>5. PICK r : r = [o EXCEPT !.logged = TRUE]
  OBVIOUS
<1>6. /\ r \in Postit /\ r.hanke = o.hanke /\ r.to = o.to /\ r.tab = o.tab /\ r.mount = o.mount
      /\ r.logged /\ r.told = o.told /\ r.delivered = o.delivered /\ r.event = o.event
      /\ r.doubt = o.doubt
  BY <1>4, <1>5 DEF Postit
<1>7. PICK n : n = [k EXCEPT !.at = "done"]
  OBVIOUS
<1>8. /\ n \in Kutsut /\ n.kind = k.kind /\ n.hanke = k.hanke /\ n.tab = k.tab /\ n.mount = k.mount
      /\ n.to = k.to /\ n.blank = k.blank /\ n.posti = k.posti /\ n.got = k.got /\ n.at = "done"
  BY <1>1, <1>7 DEF Kutsut
<1>9. postit' = [postit EXCEPT ![i] = r] /\ kutsut' = (kutsut \ {k}) \cup {n}
  BY <1>3, <1>4, <1>5, <1>7 DEF CreateLogEntry, Siirtyy
<1>10. PostiChanges(postit', i, r)
  BY <1>1, <1>6, <1>9, OnePostiChanges
<1>11. PICK z \in Nat : z = Len(postit) /\ PostiIds = 1..z /\ PostiIds' = 1..z
  BY <1>1, <1>10 DEF ViestitTyped, PostiIds, PostiChanges
<1>12. MailsGrow
  BY <1>4, <1>6, <1>10, <1>11 DEF MailsGrow, PostiChanges
<1>13. ViestitTyped'
  BY <1>1, <1>2, <1>8, <1>9, <1>10, <1>11 DEF ViestitTyped, PostiChanges
<1>14. MailsOK'
  <2>1. \A m \in PostiIds : MailOK(m)' <=> MailOK(m)
    BY <1>2, <1>4, <1>6, <1>10 DEF MailOK, PostiChanges
  <2> QED BY <1>1, <1>2, <1>4, <1>6, <1>10, <1>11, <2>1 DEF MailsOK, PostiChanges
<1>15. KutsuOK(n)'
  <2>1. KutsuOK(k)'
    BY <1>1, <1>2, <1>12, SameStays, KutsuStays
  <2> QED BY <1>8, <2>1 DEF KutsuOK
<1>16. \A m : Kertoo(k, m) => Kertoo(n, m)
  BY <1>2, <1>8 DEF Kertoo
<1>17. ASSUME NEW m \in Lokissa(nakyma.hanke, nakyma.tab)', m \notin Lokissa(nakyma.hanke, nakyma.tab)
       PROVE  TellStays(m)
  <2>1. m = i
    BY <1>2, <1>10, <1>11, <1>17 DEF Lokissa, PostiChanges
  <2>2. n \in kutsut' /\ (n.mount = nakyma.mount => Kertoo(n, m))
    BY <1>2, <1>3, <1>8, <1>9, <2>1 DEF Kertoo
  <2>3. postit'[m].mount = n.mount
    BY <1>3, <1>4, <1>6, <1>8, <1>10, <2>1 DEF PostiChanges
  <2> QED BY <2>2, <2>3 DEF TellStays
<1> QED BY <1>2, <1>9, <1>12, <1>13, <1>14, <1>15, <1>16, <1>17, PageServes

--------------------------------------------------------------------------------

LEMMA ViestiInitHolds == ViestiInit => ViestiInv
<1> SUFFICES ASSUME ViestiInit PROVE ViestiInv
  OBVIOUS
<1>1. PICK h \in Hankkeet, t \in Viestityypit :
        /\ nakyma = [hanke |-> h, loading |-> h, known |-> {}, tab |-> t, mount |-> 0,
                     to |-> NoHanke, open |-> FALSE, preview |-> FALSE, error |-> FALSE,
                     listed |-> {}, doubt |-> FALSE]
        /\ kutsut = {[id |-> 1, kind |-> "load", hanke |-> h, tab |-> t, mount |-> 0, to |-> NoHanke,
                      blank |-> NoHanke, posti |-> NoPosti, got |-> {}, ends |-> FALSE, at |-> "sent"]}
        /\ postit = <<>> /\ yritykset = {} /\ ajot = [r \in Ajajat |-> {}]
  BY DEF ViestiInit, Ajajat
<1>2. PICK b, a, z, y : b = FALSE /\ a = NoHanke /\ z = 0 /\ y = 1
  OBVIOUS
<1>3. /\ b \in BOOLEAN /\ a \in ViestiHankkeet /\ z \in Nat /\ y \in Tunnukset /\ h \in ViestiHankkeet
      /\ z <= z /\ a = NoHanke /\ z = NoPosti
  <2>1. y \in Nat /\ z \in Nat /\ z <= z
    BY <1>2
  <2>2. y \in Tunnukset
    BY <2>1, Zenon DEF Tunnukset
  <2>3. a \in ViestiHankkeet /\ h \in ViestiHankkeet /\ z = NoPosti
    BY <1>2 DEF ViestiHankkeet, NoPosti
  <2> QED BY <1>2, <2>1, <2>2, <2>3
<1>4. nakyma = [hanke |-> h, loading |-> h, known |-> {}, tab |-> t, mount |-> z,
                to |-> a, open |-> b, preview |-> b, error |-> b, listed |-> {}, doubt |-> b]
  BY <1>1, <1>2
<1>5. PICK k : k = [id |-> y, kind |-> "load", hanke |-> h, tab |-> t, mount |-> z, to |-> a,
                    blank |-> a, posti |-> z, got |-> {}, ends |-> b, at |-> "sent"]
  OBVIOUS
<1>6. kutsut = {k}
  BY <1>1, <1>2, <1>5 DEF NoPosti
<1>7. nakyma \in Nakymat /\ nakyma.loading = h /\ nakyma.mount = z
  BY <1>3, <1>4 DEF Nakymat
<1>8. /\ k \in Kutsut /\ k.kind = "load" /\ k.mount = z /\ k.blank = a /\ k.posti = z /\ k.got = {}
      /\ k.at = "sent"
  BY <1>3, <1>5 DEF Kutsut
<1>9. PostiIds = {}
  BY <1>1 DEF PostiIds
<1>10. ViestitTyped
  <2>1. postit \in Seq(Postit)
    BY <1>1
  <2> QED BY <1>1, <1>6, <1>7, <1>8, <2>1 DEF ViestitTyped
<1>11. ~OnNakyvissa(nakyma)
  BY <1>7, ViestiAssumed DEF OnNakyvissa
<1>12. KutsutOK
  <2>1. KutsuOK(k)
    BY <1>3, <1>7, <1>8 DEF KutsuOK
  <2> QED BY <1>6, <2>1 DEF KutsutOK
<1>13. nakyma.listed = {}
  BY <1>4
<1>14. FormIsOfItsProject /\ ListWillTell
  BY <1>11, <1>13 DEF FormIsOfItsProject, ListWillTell
<1> QED BY <1>9, <1>10, <1>12, <1>14 DEF ViestiInv, MailsOK

\* Every step of the page, of the server and of the mails keeps the invariant.
LEMMA ViestiNextKeeps == ViestiInv /\ [ViestiNext]_viestiVars => ViestiInv'
<1> SUFFICES ASSUME ViestiInv, [ViestiNext]_viestiVars PROVE ViestiInv'
  OBVIOUS
<1>1. DOMAIN ajot = Ajajat
  BY DEF ViestiInv, ViestitTyped
<1>2. CASE SivuNext
  <2>1. CASE \E k \in kutsut : \/ HakemusLoaded(k) \/ Lahetetty(k) \/ ListFetched(k)
                               \/ TrySendEmail(k) \/ CreateLogEntry(k) \/ GetTapahtumaloki(k)
                               \/ KutsuFails(k)
    BY <2>1, HakemusLoadedKeeps, LahetettyKeeps, ListFetchedKeeps, TrySendEmailKeeps,
       CreateLogEntryKeeps, GetTapahtumalokiKeeps, KutsuFailsKeeps
  <2>2. CASE OpenForm \/ AddRecipient \/ Preview \/ CancelForm \/ SendForm
    BY <2>2, OpenFormKeeps, AddRecipientKeeps, PreviewKeeps, CancelFormKeeps, SendFormKeeps
  <2>3. CASE \/ \E h \in Hankkeet : SelectHanke(h)
             \/ \E t \in Viestityypit : OpenTab(t)
    BY <2>3, SelectHankeKeeps, OpenTabKeeps
  <2> QED BY <1>2, <2>1, <2>2, <2>3 DEF SivuNext
<1>3. CASE PostiNext
  <2>1. CASE \E y \in yritykset : \/ SendMail(y) \/ SendMailFails(y)
                                  \/ CreateEmailEvent(y) \/ CreateEmailEventFails(y)
    BY <2>1, SendMailKeeps, SendMailFailsKeeps, CreateEmailEventKeeps, CreateEmailEventFailsKeeps
  <2>2. CASE \E r \in DOMAIN ajot : StartRetry(r) \/ TrySendMsg(r)
    BY <1>1, <2>2, StartRetryKeeps, TrySendMsgKeeps
  <2>3. CASE PalvelinKaatuu
    BY <2>3, PalvelinKaatuuKeeps
  <2> QED BY <1>3, <2>1, <2>2, <2>3 DEF PostiNext
<1>4. CASE UNCHANGED viestiVars
  <2>1. ViestitTyped' /\ FormIsOfItsProject'
    BY <1>4 DEF viestiVars, ViestiInv, ViestitTyped, FormIsOfItsProject, PostiIds, Lokissa
  <2>2. KutsutOK' /\ ListWillTell'
    BY <1>4 DEF viestiVars, ViestiInv, KutsutOK, KutsuOK, ListWillTell, Kertoo, PostiIds, Lokissa
  <2>3. MailsOK'
    BY <1>4 DEF viestiVars, ViestiInv, MailsOK, MailOK, PostiIds
  <2> QED BY <2>1, <2>2, <2>3 DEF ViestiInv
<1> QED BY <1>2, <1>3, <1>4 DEF ViestiNext

\* The invariant of the messages: what the form, its requests and the mails know of each other.
THEOREM ViestiInvariance == ViestiInit /\ [][ViestiNext]_viestiVars => []ViestiInv
BY ViestiInitHolds, ViestiNextKeeps, PTL

\* The variables of the messages keep their types.
THEOREM ViestiTyping == ViestiInit /\ [][ViestiNext]_viestiVars => []ViestiTypeOK
<1>1. ViestiInv => ViestiTypeOK
  <2> SUFFICES ASSUME ViestiInv PROVE ViestiTypeOK
    OBVIOUS
  <2>1. ViestitTyped /\ KutsutOK
    BY DEF ViestiInv
  <2>2. \A k \in kutsut : /\ k.hanke \in Hankkeet /\ k.to \in Hankkeet \cup {NoHanke}
                          /\ k.posti \in PostiIds \cup {NoPosti} /\ k.got \subseteq PostiIds
    BY <2>1, KutsuHas DEF KutsutOK, KutsuOK, ViestiHankkeet, Lokissa
  <2>3. \A m \in PostiIds : /\ {postit[m].hanke, postit[m].to} \subseteq Hankkeet
                            /\ postit[m].delivered \in Nat /\ postit[m].event \in {"none", "sent", "failed"}
    BY <2>1, PostiHas
  <2>4. \A y \in yritykset : y.posti \in PostiIds /\ y.at \in {"send", "sent", "failed"}
    BY <2>1, AttemptHas
  <2>5. \A r \in DOMAIN ajot : ajot[r] \subseteq PostiIds
    BY <2>1 DEF ViestitTyped
  <2>6. nakyma.listed \subseteq PostiIds
    BY DEF ViestiInv, FormIsOfItsProject
  <2> QED BY <2>1, <2>2, <2>3, <2>4, <2>5, <2>6, NakymaHas DEF ViestiTypeOK, ViestiHankkeet
<1> QED BY <1>1, ViestiInvariance, PTL

\* A message goes to the project on whose page it was written; it is delivered once, unless an
\* answer was lost or two runs had it; and the page lists it.
THEOREM MessagesAlike ==
  ViestiInit /\ [][ViestiNext]_viestiVars
    => [](MessagesReachTheirProject /\ MailsGoOutOnce /\ ListTellsWhatWasSent)
<1>1. ViestiInv => MessagesReachTheirProject
  BY DEF ViestiInv, MailsOK, MessagesReachTheirProject
<1>2. ViestiInv => MailsGoOutOnce
  <2> SUFFICES ASSUME ViestiInv, NEW m \in PostiIds, ~postit[m].doubt
               PROVE  /\ postit[m].delivered <= 1
                      /\ \/ postit[m].delivered = 1 \/ postit[m].event = "failed"
                         \/ \E y \in yritykset : y.posti = m
    BY DEF MailsGoOutOnce
  <2>1. MailOK(m)
    BY DEF ViestiInv, MailsOK
  <2>2. CASE \E y \in yritykset : y.posti = m
    <3>1. postit[m].delivered \in {0, 1}
      BY <2>1, <2>2 DEF MailOK
    <3> QED BY <2>2, <3>1
  <2>3. CASE \A y \in yritykset : y.posti # m
    BY <2>1, <2>3 DEF MailOK
  <2> QED BY <2>2, <2>3
<1>3. ViestiInv => ListTellsWhatWasSent
  <2> SUFFICES ASSUME ViestiInv, OnNakyvissa(nakyma), \A k \in kutsut : k.mount # nakyma.mount
               PROVE  /\ nakyma.listed \subseteq Lokissa(nakyma.hanke, nakyma.tab)
                      /\ \A m \in Lokissa(nakyma.hanke, nakyma.tab) \ nakyma.listed :
                           \/ nakyma.doubt \/ postit[m].mount # nakyma.mount
                           \/ postit[m].told = "error"
    BY DEF ListTellsWhatWasSent
  <2> QED BY DEF ViestiInv, FormIsOfItsProject, ListWillTell, Kertoo
<1> QED BY <1>1, <1>2, <1>3, ViestiInvariance, PTL
-----------------------------------------------------------------------------
(* The pages together                                                        *)

\* A step of the pages together is a step of the report, or leaves it alone.
LEMMA PagesAreReports ==
  /\ AllInit => ReportInit
  /\ [AllNext]_allVars => [ReportNext]_reportVars
<1>1. AllInit => ReportInit
  BY DEF AllInit
<1>2. [AllNext]_allVars => [ReportNext]_reportVars
  BY Zenon DEF AllNext, InLomake, InRivit, InBudjetti, InKoulutuspaivat, InSelvitys, InMuutos, InViestit, allVars
<1> QED BY <1>1, <1>2

\* ... of the requests for change.
LEMMA PagesAreChanges ==
  /\ AllInit => ChangeInit
  /\ [AllNext]_allVars => [ChangeNext]_changeVars
<1>1. AllInit => ChangeInit
  BY DEF AllInit
<1>2. [AllNext]_allVars => [ChangeNext]_changeVars
  BY Zenon DEF AllNext, InLomake, InRivit, InBudjetti, InKoulutuspaivat, InSelvitys, InMuutos, InViestit, allVars
<1> QED BY <1>1, <1>2

\* ... of the budget.
LEMMA PagesAreBudgets ==
  /\ AllInit => BudgetInit
  /\ [AllNext]_allVars => [BudgetNext]_budgetVars
<1>1. AllInit => BudgetInit
  BY DEF AllInit
<1>2. [AllNext]_allVars => [BudgetNext]_budgetVars
  BY Zenon DEF AllNext, InLomake, InRivit, InBudjetti, InKoulutuspaivat, InSelvitys, InMuutos, InViestit, allVars
<1> QED BY <1>1, <1>2

\* ... of the trainee days.
LEMMA PagesAreCalcs ==
  /\ AllInit => CalcInit
  /\ [AllNext]_allVars => [CalcNext]_calcVars
<1>1. AllInit => CalcInit
  BY DEF AllInit
<1>2. [AllNext]_allVars => [CalcNext]_calcVars
  BY Zenon DEF AllNext, InLomake, InRivit, InBudjetti, InKoulutuspaivat, InSelvitys, InMuutos, InViestit, allVars
<1> QED BY <1>1, <1>2

\* What happens to a granted project is told alike to its applicant and its officers: the state of
\* its report (GET selvitys and the page's copy of it) and the changes in force (the latest decided
\* request of each kind), whatever the other pages do meanwhile.
THEOREM ProjectsAgree == AllSpec => []ProjectAgrees
<1>1. AllSpec => ReportSpec
  BY PagesAreReports, PTL DEF AllSpec, ReportSpec
<1>2. AllSpec => ChangeSpec
  BY PagesAreChanges, PTL DEF AllSpec, ChangeSpec
<1> QED BY <1>1, <1>2, ReportsAgree, RequestsAgree, PTL DEF ProjectAgrees

\* The money and the trainee days granted are what the officer gave, on the page and stored.
THEOREM GrantsAgree == AllSpec => []GrantedAgrees
<1>1. AllSpec => BudgetSpec
  BY PagesAreBudgets, PTL DEF AllSpec, BudgetSpec
<1>2. AllSpec => CalcSpec
  BY PagesAreCalcs, PTL DEF AllSpec, CalcSpec
<1> QED BY <1>1, <1>2, GrantsAreShown, DaysAgree, PTL DEF GrantedAgrees

\* ... of the form.
LEMMA PagesAreForms ==
  /\ AllInit => LomakeInit
  /\ [AllNext]_allVars => [LomakeNext]_lomakeVars
<1>1. AllInit => LomakeInit
  BY DEF AllInit
<1>2. [AllNext]_allVars => [LomakeNext]_lomakeVars
  BY Zenon DEF AllNext, InLomake, InRivit, InBudjetti, InKoulutuspaivat, InSelvitys, InMuutos, InViestit, allVars
<1> QED BY <1>1, <1>2

\* ... of the rows.
LEMMA PagesAreRows ==
  /\ AllInit => RowsInit
  /\ [AllNext]_allVars => [RowsNext]_rowVars
<1>1. AllInit => RowsInit
  BY DEF AllInit
<1>2. [AllNext]_allVars => [RowsNext]_rowVars
  BY Zenon DEF AllNext, InLomake, InRivit, InBudjetti, InKoulutuspaivat, InSelvitys, InMuutos, InViestit, allVars
<1> QED BY <1>1, <1>2

\* What the form says of its saves is true, "saved" and "in conflict" alike, and its rows show the
\* answers and the files that are stored for them (FormStateTransitions.ts, FormBranchGrower).
THEOREM FormsSayTruth == AllSpec => []FormSaysTruth
<1>1. AllSpec => LomakeInit /\ [][LomakeNext]_lomakeVars
  BY PagesAreForms, PTL DEF AllSpec
<1>2. AllSpec => RowsInit /\ [][RowsNext]_rowVars
  BY PagesAreRows, PTL DEF AllSpec
<1> QED BY <1>1, <1>2, SavedIsSaved, ConflictsHaveACause, RowsAgreeing, PTL DEF FormSaysTruth

\* ... of the messages.
LEMMA PagesAreMessages ==
  /\ AllInit => ViestiInit
  /\ [AllNext]_allVars => [ViestiNext]_viestiVars
<1>1. AllInit => ViestiInit
  BY DEF AllInit
<1>2. [AllNext]_allVars => [ViestiNext]_viestiVars
  <2>1. InViestit => ViestiNext
    BY Zenon DEF InViestit, ViestiNext
  <2> QED BY <2>1, Zenon DEF AllNext, InLomake, InRivit, InBudjetti, InKoulutuspaivat, InSelvitys, InMuutos, allVars
<1> QED BY <1>1, <1>2

\* A message goes to the project on whose page it was written, is delivered once unless its fate is
\* in doubt, and is listed (sentEmails.ts, tapahtumaloki, email.clj), whatever the other pages do.
THEOREM MessagesArrive == AllSpec => []MessagesAgree
<1>1. AllSpec => ViestiInit /\ [][ViestiNext]_viestiVars
  BY PagesAreMessages, PTL DEF AllSpec
<1> QED BY <1>1, MessagesAlike, PTL DEF MessagesAgree

\* The variables of the page that a behaviour takes place in have their types.
THEOREM HakijaTyping == AllSpec => []HakijaTypeOK
<1>1. AllSpec => ReportSpec /\ ChangeSpec
  BY PagesAreReports, PagesAreChanges, PTL DEF AllSpec, ReportSpec, ChangeSpec
<1>2. AllSpec => BudgetSpec /\ CalcSpec
  BY PagesAreBudgets, PagesAreCalcs, PTL DEF AllSpec, BudgetSpec, CalcSpec
<1>3. AllSpec => /\ LomakeInit /\ [][LomakeNext]_lomakeVars
                 /\ RowsInit /\ [][RowsNext]_rowVars
  BY PagesAreForms, PagesAreRows, PTL DEF AllSpec
<1>4. AllSpec => ViestiInit /\ [][ViestiNext]_viestiVars
  BY PagesAreMessages, PTL DEF AllSpec
<1>5. LomakeTypeOK /\ RowsTypeOK /\ BudgetTypeOK /\ CalcTypeOK /\ ReportTypeOK /\ ViestiTypeOK
        /\ ChangeTypeOK => HakijaTypeOK
  BY DEF HakijaTypeOK
<1>6. AllSpec => [](LomakeTypeOK /\ RowsTypeOK)
  BY <1>3, LomakeTyping, RowsTyping, PTL
<1>7. AllSpec => [](BudgetTypeOK /\ CalcTypeOK)
  BY <1>2, BudgetTyping, CalcTyping, PTL
<1>8. AllSpec => [](ReportTypeOK /\ ChangeTypeOK)
  BY <1>1, ReportTyping, ChangeTyping, PTL
<1>9. AllSpec => []ViestiTypeOK
  BY <1>4, ViestiTyping, PTL
<1> QED BY <1>5, <1>6, <1>7, <1>8, <1>9, PTL
=============================================================================
