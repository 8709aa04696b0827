\* Each page of the officers' application.
CONSTANTS
  Officers = {o1, o2}
  Hakemukset = {h1, h2}
  NoHakemus = NoHakemus
  MaxActs = 3
  MaxFaults = 1
  Haut = {g1, g2}
  NoHaku = NoHaku
  MaxEdits = 2
  MaxOpenings = 1
  MaxFailures = 1
  Lait = {l1, l2}
  MaxToimet = 3
  MaxVirheet = 1
  Arvot = {v1, v2, v3}
  MaxKoodi = 3
  MaxKoodiActs = 3
  MaxKoodiFaults = 1
  MaxRajaukset = 3
  MaxListat = 2
  MaxListavirheet = 1
SPECIFICATION AllSpec
INVARIANTS VirkailijaTypeOK LossHasACause ChangelogTellsStatus PagesAgree IndicatorsHaveAReason UsedCodesExist SentOnceAndWhole
PROPERTIES CallsEndAsShown
CHECK_DEADLOCK FALSE
