SPECIFICATION Spec
CONSTANTS
  Procs = {p1, p2, p3}
  MaxFaults = 2
SYMMETRY Symmetry
INVARIANTS OneActive ClientHasAddress
CHECK_DEADLOCK FALSE
