SPECIFICATION FairSpec
CONSTANTS
  None = None
  anita = anita
  bina = bina
  officer = officer
  photo = photo
  Workers = {w1, w2}
  Creates = {c1, c2}
  Actions = {}
  Citizens = {anita, bina}
  Officials = {officer}
  Verified = {anita, officer}
  Keys = {}
  Evidence = {photo}
  OwnerOf <- MCOwnerOf
  Severities = {"HIGH"}
  MaxFaults = 2
INVARIANTS
  AlertLinkSound
  EvidenceOfReporter
PROPERTIES
  EverySosAnnounced
