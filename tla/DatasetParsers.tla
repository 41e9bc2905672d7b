--------------------------- MODULE DatasetParsers ---------------------------
(***************************************************************************)
(* What the parsers of app/services/ingestion read out of the source       *)
(* files: the GSI landslide catalogue, the IMD rainfall table, the two     *)
(* Census workbooks and the OpenStreetMap extract.  A file is the sequence *)
(* of its lines, rows or ways; a record carries the fields that identify   *)
(* it and the content that its hash covers.  Text extraction (PDF streams, *)
(* CSV quoting, XML, protobuf framing) is abstracted: a line is the fields *)
(* that the parser finds in it.                                            *)
(***************************************************************************)
EXTENDS Integers, Sequences, FiniteSets, SequencesExt

CONSTANT None   \* a missing text or number

\* The first n elements; limit = None reads everything (`if limit and ...`).
UpTo(seq, limit) ==
    IF limit = None \/ limit >= Len(seq) THEN seq ELSE SubSeq(seq, 1, limit)

-----------------------------------------------------------------------------
(* GSI: a line has the slide number found in it (or None), the position in *)
(* units of the sixth decimal, the state, and whether it lies in India.    *)

\* How a position is written with four and with three decimals.
FourDecimals(pos) == pos \div 100
ThreeDecimals(pos) == pos \div 1000

SlideNumber(line) ==
    IF line.no # None THEN <<line.no>>
    ELSE <<"GSI", line.state, FourDecimals(line.pos)>>

\* A number that has been seen gets the coordinates appended, once.
Distinguished(no, line, records) ==
    IF \E r \in ToSet(records) : r.key = no
    THEN Append(no, ThreeDecimals(line.pos))
    ELSE no

Landslides(lines) ==
    LET usable == SelectSeq(lines, LAMBDA l : l.located /\ l.inIndia)
        Record(records, l) ==
            LET no == Distinguished(SlideNumber(l), l, records)
            IN  Append(records, [key |-> no, content |-> <<no, l.pos, l.state>>])
    IN  FoldLeft(Record, <<>>, usable)

-----------------------------------------------------------------------------
(* IMD: a row has a subdivision as written, the name it is normalised to,  *)
(* a year and the raw value of each month.                                 *)

UsableRow(row) == row.sub # None /\ row.year # None /\ row.year \in 1800 .. 2100

\* A value that is missing, not a number or negative is stored as NULL.
Rainfall(raw) == IF raw # None /\ raw >= 0 THEN raw ELSE None

Observations(rows) ==
    FlattenSeq([i \in 1 .. Len(rows) |->
        IF UsableRow(rows[i])
        THEN [m \in 1 .. Len(rows[i].months) |->
                 [key     |-> <<rows[i].sub, rows[i].year, m>>,
                  content |-> Rainfall(rows[i].months[m])]]
        ELSE <<>>])

\* get_subdivisions keeps rows whose year is unusable.
Subdivisions(rows) ==
    {[name |-> r.sub, normal |-> r.normal] : r \in {x \in ToSet(rows) : x.sub # None}}

\* calculate_climatology: one entry for each subdivision and month that has a
\* value; mean and deviation are functions of years, total and extremes.
Climatology(observations) ==
    LET valid == {i \in DOMAIN observations : observations[i].content # None}
        SubOf(i) == observations[i].key[1]
        MonthOf(i) == observations[i].key[3]
        Group(i) == {j \in valid : SubOf(j) = SubOf(i) /\ MonthOf(j) = MonthOf(i)}
        Years(i) == {observations[j].key[2] : j \in {k \in valid : SubOf(k) = SubOf(i)}}
    IN  {[key   |-> <<SubOf(i), MonthOf(i)>>,
          years |-> Cardinality(Group(i)),
          total |-> FoldSet(LAMBDA j, acc : acc + observations[j].content, 0, Group(i)),
          least |-> Min({observations[j].content : j \in Group(i)}),
          most  |-> Max({observations[j].content : j \in Group(i)}),
          from  |-> Min(Years(i)),
          to    |-> Max(Years(i))] : i \in valid}

-----------------------------------------------------------------------------
(* Census: a row has its codes, its level, and the number of its cells.    *)

Villages(rows, limit) ==
    LET kept == SelectSeq(rows, LAMBDA r : r.cells >= 14 /\ r.level \in {"VILLAGE", "TOWN"})
    IN  UpTo([i \in 1 .. Len(kept) |-> [key |-> kept[i].codes, content |-> kept[i].people]], limit)

AreaReferences(rows) ==
    LET body == SubSeq(rows, 5, Len(rows))                 \* rows 1-4 are headers
        kept == SelectSeq(body, LAMBDA r : r.cells >= 6)
    IN  [i \in 1 .. Len(kept) |-> [key |-> kept[i].codes, content |-> kept[i].people]]

-----------------------------------------------------------------------------
(* OpenStreetMap: numbers are zigzag varints, ids are delta-encoded.        *)

\* Mutation: an odd number loses the bit that the complement adds.
ZigZagNegated(raw) == IF raw % 2 = 0 THEN raw \div 2 ELSE -(raw \div 2)

\* (raw >> 1) ^ -(raw & 1)
ZigZag(raw) == IF raw % 2 = 0 THEN raw \div 2 ELSE -(raw \div 2) - 1

\* One byte of the varint loop: its seven bits are added above those read so
\* far; a byte without the high bit ends the number.
NextByte(at, b) ==
    LET value == at.value + (b % 128) * at.unit
    IN  IF b >= 128 THEN [done |-> at.done, value |-> value, unit |-> at.unit * 128]
        ELSE [done |-> Append(at.done, value), value |-> 0, unit |-> 1]

\* Where the loop stands when the bytes are read.
Reader(bytes) ==
    LET at[p \in 0 .. Len(bytes)] ==
            IF p = 0 THEN [done |-> <<>>, value |-> 0, unit |-> 1]
            ELSE NextByte(at[p - 1], bytes[p])
    IN  at[Len(bytes)]

Varints(bytes) == Reader(bytes).done

\* Each number is the distance from the id before it, the first from 0.
Undelta(raw) ==
    LET id[i \in 0 .. Len(raw)] == IF i = 0 THEN 0 ELSE id[i - 1] + ZigZag(raw[i])
    IN  [i \in 1 .. Len(raw) |-> id[i]]

Ids(bytes) == Undelta(Varints(bytes))

\* The loop that keeps what is in a set, in the order of the list.
Kept(list, set) ==
    LET kept[p \in 0 .. Len(list)] ==
            IF p = 0 THEN <<>>
            ELSE IF list[p] \in set THEN Append(kept[p - 1], list[p])
            ELSE kept[p - 1]
    IN  kept[Len(list)]

HighwayClasses == {"motorway", "trunk", "primary", "secondary", "tertiary",
    "unclassified", "residential", "service", "track", "living_street",
    "motorway_link", "trunk_link", "primary_link", "secondary_link", "tertiary_link"}

\* parse_road_ways
RoadWays(ways, limit) ==
    LET read == [i \in 1 .. Len(ways) |-> [ways[i] EXCEPT !.refs = Ids(ways[i].refs)]]
    IN  UpTo(Kept(read, {w \in ToSet(read) : w.highway \in HighwayClasses /\ Len(w.refs) >= 2}), limit)

\* collect_road_node_ids, then collect_node_coordinates: a dict in the order of
\* the file.
FoundNodes(osm, limit) ==
    LET required == UNION {ToSet(w.refs) : w \in ToSet(RoadWays(osm.ways, limit))}
    IN  Kept(Ids(osm.dense), required)

\* parse_road_ways_with_coords: its limit counts the ways it can resolve, not
\* the ways it reads.
Segments(osm, limit) ==
    LET roads == RoadWays(osm.ways, None)
        known == ToSet(FoundNodes(osm, limit))
        all == [i \in 1 .. Len(roads) |->
                   [way  |-> roads[i].way,
                    from |-> Head(roads[i].refs),
                    to   |-> Last(roads[i].refs),
                    line |-> Kept(roads[i].refs, known)]]
    IN  UpTo(Kept(all, {s \in ToSet(all) : Len(s.line) >= 2}), limit)

\* The rows that the runner makes of them.
NodeRows(osm, limit) ==
    LET found == FoundNodes(osm, limit)
    IN  [i \in 1 .. Len(found) |-> [key |-> found[i], content |-> None]]
EdgeRows(osm, limit) ==
    LET segments == Segments(osm, limit)
    IN  [i \in 1 .. Len(segments) |-> [key |-> segments[i].way, content |-> segments[i]]]

-----------------------------------------------------------------------------
(* The command: the five files of an edition, for every limit it may have.  *)

Parsed(f, limits) ==
    [gsi          |-> Landslides(f.gsi),
     rainfall     |-> Observations(f.rainfall),
     subdivisions |-> Subdivisions(f.rainfall),
     climatology  |-> Climatology(Observations(f.rainfall)),
     census       |-> [l \in limits |-> Villages(f.census, l)],
     a1           |-> AreaReferences(f.a1),
     nodes        |-> [l \in limits |-> NodeRows(f.osm, l)],
     segments     |-> [l \in limits |-> EdgeRows(f.osm, l)]]
=============================================================================
