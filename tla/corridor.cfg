CONSTANTS
    ab = ab
    parallel = parallel
    bc = bc
    ca = ca
    spur = spur
    a = a
    b = b
    c = c
    d = d
    Slides = {1, 2, 3, 4, 5, 6, 7, 8, 9, 10}
    Dated = {2, 3}
    Segments = {ab, parallel, bc, ca, spur}
    OsmBridges = {bc}
    Batches <- MCBatches
    Distance <- MCDistance
    Ends <- MCEnds
    Reach <- MCReach
    Skies <- MCSkies
    Anomalies <- MCAnomalies
    Grounds <- MCGrounds
    Radii = {1, 3}
    SearchRadius = 1
SPECIFICATION Spec
INVARIANTS MoreRainNeverSafer CompositeIsBetween OlderIsNotSurer BridgeIsCut 
 
