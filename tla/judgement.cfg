SPECIFICATION Spec
CONSTANTS
  Pdvs = {p1, p2}
  Phones = {t1, t2}
  Malformed = {x1}
  None = None
  pdv = p1
  otherPdv = p2
  phone = t1
  otherPhone = t2
  MaxDoubts = 3
INVARIANTS NothingInvented  DecisionsAreReachable
CHECK_DEADLOCK FALSE
