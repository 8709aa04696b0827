CONSTANTS
  Haut = {g1, g2}
  NoHaku = NoHaku
  Officers = {o1}
  MaxRajaukset = 3
  MaxListat = 2
  MaxListavirheet = 1
SPECIFICATION ListSpec
INVARIANTS EarlierGrantsAreNotListed
CHECK_DEADLOCK FALSE
