CONSTANTS
    amit = amit
    bina = bina
    officer = officer
    k1 = k1
    photo = photo
    Users <- MCUsers
    Officials <- MCOfficials
    Keys = {k1}
    NoKey = NoKey
    Headers <- MCHeaders
    Observations <- MCObservations
    Evidence = {photo}
    NoEvidence = NoEvidence
    Owner <- MCOwner
    Recognised = {officer}
    Verdicts = {"ACCEPTED", "REJECTED"}
    MaxReports = 3
    MaxAudits = 4
    MaxWeeks = 1
SYMMETRY CitizenSymmetry
SPECIFICATION Spec
INVARIANTS GroupHasOneRoot   
PROPERTY RegisterSpec
CHECK_DEADLOCK FALSE
