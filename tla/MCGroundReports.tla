---------------------------- MODULE MCGroundReports ----------------------------
\* Constants of the runs of GroundReports: observations by a road in a hazard zone,
\* 200 m and more apart, of two types that support each other.
EXTENDS GroundReports, TLC

CONSTANTS amit, bina, officer, k1, photo

Place(at) == [at |-> at, inIndia |-> TRUE, landslide |-> 5, road |-> 1]
MCUsers == {amit, bina, officer}
MCOfficials == {officer}
MCOwner == [e \in Evidence |-> officer]
MCObservations ==
    {[place |-> Place(1), type |-> "LANDSLIDE", text |-> "slope", ago |-> 0],
     [place |-> Place(2), type |-> "LANDSLIDE", text |-> "mud", ago |-> 0],
     [place |-> Place(2), type |-> "DEBRIS", text |-> "mud", ago |-> 0]}
MCHeaders == [u \in MCUsers |-> IF u = officer THEN {NoKey} ELSE {k1, NoKey}]
CitizenSymmetry == Permutations({amit, bina})
=============================================================================
