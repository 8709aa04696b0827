\* Each page of an applicant.
CONSTANTS
  Rows = {1, 2}
  MaxActs = 2
  MaxFaults = 1
  MaxChanges = 1
  MaxRow = 5
  MaxRowActs = 4
  Tabs = {t1, t2}
  Sivut = {s1}
  Officers = {o1, o2}
  Haut = {}
  NoHaku = NoHaku
  MaxCalls = 4
  Asks <- AsksOfMuutos
  Verdicts = {"accepted", "accepted_with_changes", "rejected"}
  MaxPosts = 2
  MaxDecisions = 2
  MaxMoney = 1
  MultiplierNum = 3
  MultiplierDen = 2
  Percentages = {0, 50, 100}
  MaxApplicantActs = 2
  MaxOfficerActs = 3
  Osiot = {1, 2}
  MaxScope = 1
  MaxPersons = 1
  MaxRowEdits = 2
  MaxGrantActs = 2
  Hankkeet = {p1, p2}
  NoHanke = NoHanke
  MaxSiirrot = 2
  MaxViestit = 2
  MaxAjot = 2
  MaxViestiviat = 2
SPECIFICATION AllSpec
INVARIANTS HakijaTypeOK FormSaysTruth PageAndServerSumAlike GrantedAgrees ProjectAgrees MessagesAgree
PROPERTIES VerifiedAnswersStay EventuallySaved
CHECK_DEADLOCK FALSE
