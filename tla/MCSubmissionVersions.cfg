\* Three transactions save answers over each other.
CONSTANTS
  Tx = {t1, t2, t3}
  Contents = {c1, c2}
  MaxVersion = 3
SPECIFICATION Spec
INVARIANTS TypeOK
PROPERTIES ImplementsVersionLog
SYMMETRY Symmetry
