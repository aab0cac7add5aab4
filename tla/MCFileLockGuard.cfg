SPECIFICATION Spec

CONSTANTS
  Clients = {c1, c2, c3}
  MaxGen = 3

INVARIANTS
  OneHolder


SYMMETRY Symmetry
CHECK_DEADLOCK FALSE
