SPECIFICATION Spec
CONSTANTS
  Nothing = Nothing
  Users = {u1}
  Types = {emergency, critical}
  MaxItems = 2
  Configured = {"AADHAAR", "DIGILOCKER"}
  MaxTrail = 3
  MaxCommits = 4
  MaxIssued = 2
  MaxFiles = 2
INVARIANTS
  PreferencesAreAnswered
  TrailExplainsStatus
  EvidenceIsSound
