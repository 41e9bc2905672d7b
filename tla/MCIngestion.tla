---------------------------- MODULE MCIngestion ----------------------------
(***************************************************************************)
(* Ingestion over two editions of small files.                             *)
(***************************************************************************)
EXTENDS RoadExtract

MCPlain ==
    << [ways  |-> <<[way |-> 1, highway |-> "primary", refs |-> <<300, 7>>],
                    [way |-> 2, highway |-> "footway", refs |-> <<7, 8>>],
                    [way |-> 3, highway |-> "track", refs |-> <<7, 300, 9>>]>>,
        nodes |-> <<7, 8, 300>>],
       [ways  |-> <<[way |-> 1, highway |-> "primary", refs |-> <<300, 16700>>]>>,
        nodes |-> <<300, 16700>>] >>

\* One number twice at places that differ, once more at the second of them.
Line(no, pos) == [no |-> no, pos |-> pos, state |-> "Assam", located |-> TRUE, inIndia |-> TRUE]
Gsi(e) == IF e = 1 THEN <<Line("A", 25000), Line("A", 31000), Line(None, 31000)>>
          ELSE <<Line("A", 25000), Line("A", 31000), Line("A", 31100),
                 [Line("B", 1000) EXCEPT !.inIndia = FALSE]>>

Row(year, months) == [sub |-> "KASHMIR & LADAKH", normal |-> "KASHMIR AND LADAKH",
                      year |-> year, months |-> months]
Rain(e) == IF e = 1 THEN <<Row(1901, <<5, None>>), Row(None, <<1, 1>>)>>
           ELSE <<Row(1901, <<5, None>>), Row(1902, <<-1, 4>>)>>

Person(codes, level, cells) == [codes |-> codes, level |-> level, cells |-> cells, people |-> 10]
Census == <<Person(<<"01", "001">>, "DISTRICT", 40), Person(<<"01", "001", "1">>, "VILLAGE", 40)>>
Heading == Person(<<>>, "", 20)
Areas == <<Heading, Heading, Heading, Heading,
           Person(<<"01", "001">>, "DISTRICT", 20), Person(<<"01">>, "STATE", 3)>>

MCFiles ==
    [e \in {1, 2} |->
        [gsi |-> Gsi(e), rainfall |-> Rain(e), census |-> Census, a1 |-> Areas,
         osm |-> Osm(e)]]
MCLimits == {None, 1}
Readings == [e \in DOMAIN MCFiles |-> Parsed(MCFiles[e], MCLimits)]
MCContents == Readings

ASSUME OneSpelling == SpellingsApart

=============================================================================
