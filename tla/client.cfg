SPECIFICATION Spec
CONSTANTS
  MaxAttempts = 1
  p1 = p1
  p2 = p2
  Places = {p1, p2}
  Nowhere = Nowhere
  MaxCalls = 2
  Alerts <- MCAlerts
  Announced <- MCAnnounced
  Critical <- MCCritical
  Place <- MCPlace
  PageSize = 1
  MaxActs = 1
  InFlight = 2
INVARIANTS
  
  NoActiveAlertMissed
  
PROPERTIES
  ComesBack
