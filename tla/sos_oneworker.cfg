SPECIFICATION Spec
CONSTANTS
  None = None
  anita = anita
  bina = bina
  officer = officer
  photo = photo
  Workers = {w1}
  Creates = {c1, c2}
  Actions = {a1, a2}
  Citizens = {anita}
  Officials = {officer}
  Verified = {anita}
  Keys = {k1}
  Evidence = {}
  OwnerOf <- MCOwnerOf
  Severities = {"HIGH"}
  MaxFaults = 0
SYMMETRY MCSymmetry
INVARIANTS
  AuditChain
  EventsTellHistory
PROPERTIES
  LedgerSpec
