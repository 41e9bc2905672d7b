SPECIFICATION Spec
CONSTANTS
  None = None
  Workers = {w1}
  Generates = {g1, g2, g3}
  Actions = {a1, a2, a3}
  Officials = {o1, o2}
  Fingerprints = {f1, f2}
  MaxFaults = 1
SYMMETRY MCSymmetry
INVARIANTS
  TrailMatchesRow
  CreditMatchesTrail
PROPERTIES
  BoardSpec
