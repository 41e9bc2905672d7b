----------------------------- MODULE MCCorridor -----------------------------
\* Constants of the runs of Corridor: a ring of three junctions with a parallel
\* segment, a spur that the radius may leave out, and slides of every distance.
EXTENDS Corridor

CONSTANTS ab, parallel, bc, ca, spur, a, b, c, d

MCDistance == [s \in Slides |-> CASE s = 1 -> 25 [] s = 2 -> 1 [] s = 3 -> 9 [] s \in 4..10 -> 2]
MCBatches == {{1}, {2}, {3}, 4..10}
MCEnds == [r \in Segments |-> CASE r \in {ab, parallel} -> {a, b} [] r = bc -> {b, c}
                                [] r = ca -> {c, a} [] r = spur -> {c, d}]
MCReach == [r \in Segments |-> CASE r \in {ab, parallel} -> 0 [] r = bc -> 2 [] r \in {ca, spur} -> 3]
Sky(rain, humid, age) == [known |-> TRUE, rain |-> rain, humid |-> humid, age |-> age]
MCSkies == {NoSky, Sky(10, TRUE, 0), Sky(80, TRUE, 0), Sky(400, FALSE, 0), Sky(400, TRUE, 0), Sky(80, TRUE, 2600)}
MCAnomalies == {[observed |-> o, mean |-> 300, deviation |-> 40] : o \in {100, 317, 390, 600}}
               \cup {[observed |-> 500, mean |-> 300, deviation |-> 0]}
MCGrounds == {NoGround, [trust |-> "HIGH", score |-> 850, count |-> 2], [trust |-> "LOW", score |-> 550, count |-> 1]}
=============================================================================
