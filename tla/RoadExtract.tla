---------------------------- MODULE RoadExtract ----------------------------
(***************************************************************************)
(* The road extract as it was written, and the road network that Ingestion *)
(* makes of it.  An extract lists its ways and its nodes in the clear      *)
(* (Plain); the file holds their ids as differences, in zigzag varints of  *)
(* any length, the way OpenStreetMap's tools write them.                   *)
(***************************************************************************)
EXTENDS Ingestion

CONSTANT Plain   \* edition -> its ways (way, highway, refs) and its nodes, in the clear

ZigZagged(n) == IF n >= 0 THEN 2 * n ELSE -2 * n - 1

\* Seven bits to a byte, the least significant first.
Varint(n) ==
    LET bytes[m \in 0 .. n] ==
            IF m < 128 THEN <<m>> ELSE <<128 + (m % 128)>> \o bytes[m \div 128]
    IN  bytes[n]

Deltas(ids) ==
    [i \in 1 .. Len(ids) |-> ZigZagged(IF i = 1 THEN ids[i] ELSE ids[i] - ids[i - 1])]

Encoded(ids) ==
    LET written[i \in 0 .. Len(ids)] ==
            IF i = 0 THEN <<>> ELSE written[i - 1] \o Varint(Deltas(ids)[i])
    IN  written[Len(ids)]

Osm(e) ==
    LET ways == Plain[e].ways
    IN  [ways  |-> [i \in 1 .. Len(ways) |-> [way |-> ways[i].way, highway |-> ways[i].highway,
                                              refs |-> Encoded(ways[i].refs)]],
         dense |-> Encoded(Plain[e].nodes)]

\* The ids are numbers, and what the runner loads is what the parser makes of
\* the file.
ASSUME ExtractAssumption ==
    \A e \in Editions :
        /\ Plain[e].nodes \in Seq(Int) /\ IsList(Plain[e].ways)
        /\ \A w \in ToSet(Plain[e].ways) : w.refs \in Seq(Int)
        /\ \A l \in Limits : /\ Contents[e].nodes[l] = NodeRows(Osm(e), l)
                             /\ Contents[e].segments[l] = EdgeRows(Osm(e), l)

-----------------------------------------------------------------------------

\* A line goes through exactly those stops of a list that are in a set, in the
\* order of the list.
Along(line, stops, set) ==
    \E at \in [DOMAIN line -> DOMAIN stops] :
        /\ \A i \in DOMAIN line : line[i] = stops[at[i]]
        /\ \A i, j \in DOMAIN line : i < j => at[i] < at[j]
        /\ {at[i] : i \in DOMAIN line} = {p \in DOMAIN stops : stops[p] \in set}

\* The road network is that of one extract, never a mixture of two: each of its
\* edges is a road of the extract as it was written, between its first and its
\* last node, along exactly those of its nodes that the network has.  Varints,
\* zigzag and delta decoding and the two passes put each coordinate where it
\* belongs, and a load that was killed leaves nothing of the edition before it
\* (osm_parser.py:84-120, 195-241, 377-430, runner.py:469-567).
RoadsAreAsWritten ==
    \E e \in Editions : \A row \in table["osm"] : \E w \in ToSet(Plain[e].ways) :
        /\ w.highway \in HighwayClasses
        /\ row.content.way = w.way
        /\ row.content.from = Head(w.refs) /\ row.content.to = Last(w.refs)
        /\ Along(row.content.line, w.refs, Keys("nodes"))
=============================================================================
