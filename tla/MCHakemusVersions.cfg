\* Three transactions; a commit may fall anywhere, inside the locking SELECT too.
CONSTANTS
  Tx = {t1, t2, t3}
  Contents = {c1, c2}
  MaxVersion = 3
  NoRow = NoRow
SPECIFICATION Spec
INVARIANTS TypeOK AtMostOneOpenVersion SomeVersionIsOpen
PROPERTIES ClosedVersionsNeverChange ImplementsVersionLog
SYMMETRY Symmetry
