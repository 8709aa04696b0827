-------------------------------- MODULE Koulutuspaivat --------------------------------
(***************************************************************************)
(* The trainee days of an application: for each part of a training, its    *)
(* scope in credits (op) or course days (kp) times the number of persons.  *)
(* An officer grants other scopes and numbers; the rows and the kind of    *)
(* scope follow the application whenever the officer opens it.             *)
(***************************************************************************)
EXTENDS Integers

CONSTANTS Osiot,                       \* rows an application may have
          MaxScope, MaxPersons,
          MaxRowEdits, MaxGrantActs    \* acts of the applicant and the officer

ASSUME CalcAssumption == {MaxScope, MaxPersons} \subseteq Nat \ {0}

VARIABLES
  calcs,         \* row -> calculator, on the applicant's page
  calcsStored,   \* the same on the server
  calcsGiven,    \* the application may be edited
  calcsOpened,   \* the application on the officer's page, once it is opened
  grants,        \* row -> calculator as granted, on the officer's page (overridden-answers)
  grantsStored,  \* the same on the server
  grantsUnsaved, \* hasChanges
  calcActs,      \* how much of each bound is used
  granter,       \* ghost: rows that the officer edited
  altered        \* ghost: rows that the applicant changed or removed after they were stored

calcVars == <<calcs, calcsStored, calcsGiven, calcsOpened, grants, grantsStored, grantsUnsaved, calcActs,
              granter, altered>>

NoRows == <<>>
Calculators == [type : {"op", "kp"}, scope : 0..MaxScope, persons : 0..MaxPersons, total : Nat]
RowsOf(S) == UNION {[R -> S] : R \in SUBSET Osiot}

--------------------------------------------------------------------------------
(* VaTraineeDayUtil *)

\* In tenths, as formatFloat shows it: a credit is 4.5 days.
ComposeTotal(c) == (IF c.type = "op" THEN 45 ELSE 10) * c.scope * c.persons
EmptySubfields == [type |-> "op", scope |-> 0, persons |-> 0, total |-> 0]

\* VaTraineeDayCalculator.onChange: every change of a subfield makes the total anew.
Changed(c, subfield, value) ==
  LET d == [c EXCEPT ![subfield] = value] IN [d EXCEPT !.total = ComposeTotal(d)]
SubfieldValues == [type |-> {"op", "kp"}, scope |-> 0..MaxScope, persons |-> 0..MaxPersons]

--------------------------------------------------------------------------------
(* The applicant *)

CalcAct(who, max) == calcActs[who] < max /\ calcActs' = [calcActs EXCEPT ![who] = @ + 1]
GrantVars == <<calcsOpened, grants, grantsStored, grantsUnsaved, granter>>

ChangeCalc(r, subfield, value) ==
  LET c == IF r \in DOMAIN calcs THEN calcs[r] ELSE EmptySubfields IN
  /\ calcsGiven /\ CalcAct("applicant", MaxRowEdits)
  /\ c[subfield] # value
  /\ calcs' = [s \in DOMAIN calcs \cup {r} |-> IF s = r THEN Changed(c, subfield, value) ELSE calcs[s]]
  /\ UNCHANGED <<calcsStored, calcsGiven, GrantVars, altered>>

\* The id of a removed row may be given to a new one.
RemoveCalc(r) ==
  /\ calcsGiven /\ CalcAct("applicant", MaxRowEdits)
  /\ r \in DOMAIN calcs
  /\ calcs' = [s \in DOMAIN calcs \ {r} |-> calcs[s]]
  /\ altered' = altered \cup {r}
  /\ UNCHANGED <<calcsStored, calcsGiven, GrantVars>>

\* A draft is stored as it is; an application is submitted when every total is positive.
StoreCalcs(submitted) ==
  /\ calcsGiven /\ (submitted \/ calcs # calcsStored)
  /\ submitted => \A r \in DOMAIN calcs : calcs[r].total > 0
  /\ calcsStored' = calcs /\ calcsGiven' = ~submitted
  /\ altered' = altered \cup {r \in DOMAIN calcs \cap DOMAIN calcsStored : calcs[r] # calcsStored[r]}
  /\ UNCHANGED <<calcs, GrantVars, calcActs>>

--------------------------------------------------------------------------------
(* The officer *)

\* Mutant: the kind of scope follows the application, the total does not.
RetypedOnly(c, type) == [c EXCEPT !.type = type]
Retyped(c, type) == Changed(c, "type", type)

\* Rows that are not granted yet are copied, those that are follow the kind of scope, and those
\* of removed rows are deleted.
Followed(granted, answers) ==
  [r \in DOMAIN answers |->
     CASE r \notin DOMAIN granted -> answers[r]
       [] r \in DOMAIN granted /\ granted[r].type # answers[r].type -> Retyped(granted[r], answers[r].type)
       [] OTHER -> granted[r]]

\* selectHakemus: if anything was updated, the copy the page had before is posted.
OpenCalcs ==
  /\ CalcAct("officer", MaxGrantActs)
  /\ calcsOpened' = calcsStored
  /\ grants' = Followed(grantsStored, calcsStored)
  /\ grantsUnsaved' = FALSE
  /\ grantsStored' = IF Followed(grantsStored, calcsStored) # grantsStored THEN grants ELSE grantsStored
  /\ UNCHANGED <<calcs, calcsStored, calcsGiven, granter, altered>>

\* Only the scope and the number of persons are edited.
GrantCalc(r, subfield, value) ==
  /\ CalcAct("officer", MaxGrantActs)
  /\ r \in DOMAIN grants /\ r \in DOMAIN calcsOpened /\ grants[r][subfield] # value
  /\ grants' = [grants EXCEPT ![r] = Changed(@, subfield, value)]
  /\ grantsUnsaved' = TRUE
  /\ granter' = granter \cup {r}
  /\ UNCHANGED <<calcs, calcsStored, calcsGiven, calcsOpened, grantsStored, altered>>

SaveGrants ==
  /\ grantsUnsaved
  /\ grantsStored' = grants /\ grantsUnsaved' = FALSE
  /\ UNCHANGED <<calcs, calcsStored, calcsGiven, calcsOpened, grants, calcActs, granter, altered>>

\* The application is sent back to the applicant, who opens it.
ReturnCalcs ==
  /\ ~calcsGiven
  /\ calcsGiven' = TRUE /\ calcs' = calcsStored
  /\ UNCHANGED <<calcsStored, GrantVars, calcActs, altered>>

--------------------------------------------------------------------------------

CalcInit ==
  \* A submitted application, where each row is one unit of scope for one person.
  /\ calcs \in RowsOf({Changed(Changed([EmptySubfields EXCEPT !.type = t], "scope", 1), "persons", 1) : t \in {"op", "kp"}})
  /\ calcsStored = calcs /\ calcsGiven = FALSE
  /\ calcsOpened = NoRows /\ grants = NoRows /\ grantsStored = NoRows /\ grantsUnsaved = FALSE
  /\ calcActs = [applicant |-> 0, officer |-> 0]
  /\ granter = {} /\ altered = {}

CalcNext ==
  \/ \E r \in Osiot, subfield \in DOMAIN SubfieldValues :
       \E value \in SubfieldValues[subfield] : ChangeCalc(r, subfield, value)
  \/ \E r \in Osiot : RemoveCalc(r)
  \/ \E submitted \in BOOLEAN : StoreCalcs(submitted)
  \/ OpenCalcs
  \/ \E r \in Osiot, subfield \in {"scope", "persons"} :
       \E value \in SubfieldValues[subfield] : GrantCalc(r, subfield, value)
  \/ SaveGrants \/ ReturnCalcs

CalcSpec == CalcInit /\ [][CalcNext]_calcVars

--------------------------------------------------------------------------------

CalcTypeOK ==
  /\ \A rows \in {calcs, calcsStored, calcsOpened, grants, grantsStored} :
       DOMAIN rows \subseteq Osiot /\ \A r \in DOMAIN rows : rows[r] \in Calculators
  /\ {calcsGiven, grantsUnsaved} \subseteq BOOLEAN
  /\ granter \cup altered \subseteq Osiot

\* Every total is that of its own row; the rows granted are those of the application, of the same
\* kind; and a row that no officer edited is granted as applied for, unless the applicant changed
\* or removed it after it was stored.
TraineeDaysAgree ==
  /\ \A rows \in {calcs, calcsStored, grants, grantsStored} :
       \A r \in DOMAIN rows : rows[r].total = ComposeTotal(rows[r])
  /\ DOMAIN grants = DOMAIN calcsOpened
  /\ \A r \in DOMAIN grants :
       /\ grants[r].type = calcsOpened[r].type
       /\ grants[r] = calcsOpened[r] \/ r \in granter \cup altered

=============================================================================
