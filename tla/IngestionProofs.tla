-------------------------- MODULE IngestionProofs --------------------------
(***************************************************************************)
(* Proofs about Ingestion for any editions of the files, any limits and    *)
(* batches, and any number of commands, kills and faults: a load that is   *)
(* not whole can be told, and the loaders that look can be run again.      *)
(*                                                                         *)
(* The argument: while a loop reads, every record of its list is in the    *)
(* table or has yet to be read (NothingSkipped), and a loader that looks   *)
(* knows exactly what is in its table (KnowsTheTable).  Tables only grow,  *)
(* but for the roads, whose run is open as long as they are not whole.     *)
(*                                                                         *)
(* The roads: decoding undoes encoding byte by byte (IdsAreRead), and the  *)
(* tables of the network hold rows of one extract (OneExtract).            *)
(***************************************************************************)
EXTENDS RoadExtract, FiniteSetTheorems, WellFoundedInduction, TLAPS

Phases == {"idle", "source", "run", "subdivisions", "rows", "climatology", "clear", "nodes", "finish"}

\* What the tables hold: records of the lists, names of subdivisions, climatology.
ListsOf(e) ==
    {Contents[e].gsi, Contents[e].rainfall, Contents[e].a1}
    \cup UNION {{Contents[e].census[l], Contents[e].nodes[l], Contents[e].segments[l]} : l \in Limits}
Listed == UNION {UNION {ToSet(list) : list \in ListsOf(e)} : e \in Editions}
Spellings == {[key |-> s.name, content |-> s.normal] :
                 s \in UNION {Contents[e].subdivisions : e \in Editions}}
AllRows == Listed \cup Spellings \cup UNION {Contents[e].climatology : e \in Editions}

Command == [todo : Seq(Datasets), phase : Phases, limit : Limits, rest : Seq(Listed),
            known : SUBSET AllRows, inserted : Nat, updated : Nat]
Run == [dataset : Datasets, status : {"running", "success", "failed"},
        inserted : Nat, updated : Nat, struck : BOOLEAN]
SourceRow == [status : {"pending", "completed", "failed"}, count : Nat]

TypeOK ==
    /\ file \in Editions
    /\ table \in [Tables -> SUBSET AllRows]
    /\ source \in [Datasets -> SourceRow \cup {None}]
    /\ runs \in Seq(Run)
    /\ cmd \in Command
    /\ wanted \in [Datasets -> SUBSET (Tables \X {r.key : r \in AllRows})]
    /\ faults \in Nat /\ commands \in Nat

Loading == cmd.phase \notin {"idle", "source", "run"}

\* The run of the command is the last one, and it is open.
OneOpenRun ==
    /\ cmd.phase = "idle" <=> cmd.todo = <<>>
    /\ cmd.phase \in {"subdivisions", "climatology"} => Dataset = "rainfall"
    /\ cmd.phase \in {"clear", "nodes"} => Dataset = "osm"
    /\ Loading => /\ runs # <<>>
                  /\ runs[Current].dataset = Dataset /\ runs[Current].status = "running"

\* A record is in table t, or the loop has yet to read it.
Ahead(t, list) == \A r \in ToSet(list) : r.key \in Keys(t) \/ r \in ToSet(cmd.rest)
Arrived(t, list) == \A r \in ToSet(list) : r.key \in Keys(t)
Only(t, list) == Keys(t) \subseteq {r.key : r \in ToSet(list)}

ListOf(d) == Records(d, cmd.limit)
RoadList == Read.segments[cmd.limit]

NothingSkipped ==
    /\ Loading /\ Dataset # "osm" =>
          /\ cmd.phase \in {"subdivisions", "rows"} => Ahead(Dataset, ListOf(Dataset))
          /\ cmd.phase \in {"climatology", "finish"} => Arrived(Dataset, ListOf(Dataset))
          /\ cmd.phase = "finish" /\ Dataset = "rainfall" =>
                \A c \in Read.climatology : c.key \in Keys("climatology")
    /\ Loading /\ Dataset = "osm" =>
          /\ cmd.phase \in {"clear", "nodes"} => ToSet(cmd.rest) \subseteq ToSet(ListOf("osm"))
          /\ cmd.phase = "clear" => cmd.rest = ListOf("osm")
          /\ cmd.phase = "nodes" => Keys("osm") = {} /\ Ahead("nodes", ListOf("osm"))
          /\ cmd.phase = "rows" => /\ Arrived("nodes", ListOf("osm")) /\ Ahead("osm", RoadList)
                                   /\ ToSet(cmd.rest) \subseteq ToSet(RoadList)
          /\ cmd.phase = "finish" => Arrived("nodes", ListOf("osm")) /\ Arrived("osm", RoadList)
          /\ cmd.phase \in {"nodes", "rows", "finish"} =>
                Only("nodes", ListOf("osm")) /\ Only("osm", RoadList)

\* What was asked for is there; of the roads, unless a load has begun since.
WantedIsThere ==
    /\ \A d \in Datasets : \A w \in wanted[d] :
          IF d = "osm" THEN w[1] \in {"nodes", "osm"}
          ELSE w[1] \in {d, "climatology"} /\ w[2] \in Keys(w[1])
    /\ \A d \in Datasets : source[d] # None /\ source[d].status = "completed" => RunsOf(d) # {}

\* The loaders that look know what is in the table.
KnowsTheTable ==
    /\ cmd.phase \in {"subdivisions", "rows"} /\ Dataset \in {"gsi", "rainfall"}
          => cmd.known = table[Dataset]
    /\ cmd.phase = "clear" => cmd.known = {}
    /\ cmd.phase = "nodes" => cmd.known = table["nodes"]
    /\ table["subdivisions"] \subseteq Spellings

\* The roads are what was asked for, unless the last run of theirs is open.
RoadsAreWhole ==
    source["osm"] # None /\ source["osm"].status = "completed" /\ LastRun("osm").status # "running"
    => /\ \A w \in wanted["osm"] : w[2] \in Keys(w[1])
       /\ \A t \in {"nodes", "osm"} : \A k \in Keys(t) : <<t, k>> \in wanted["osm"]

IInv ==
    /\ TypeOK /\ OneOpenRun /\ NothingSkipped /\ WantedIsThere /\ KnowsTheTable
    /\ RoadsAreWhole

-----------------------------------------------------------------------------
(* The lists.                                                              *)

(* A set of numbers that is not empty has a least element. *)
LEMMA LeastElement ==
  ASSUME NEW S \in SUBSET Nat, S # {} PROVE \E x \in S : \A y \in S : x <= y
<1> DEFINE Below == OpToRel(<, Nat)
<1>1. \A x, y \in Nat : <<y, x>> \in Below <=> y < x
  BY DEF OpToRel
<1>2. IsWellFoundedOn(Below, Nat)
  BY NatLessThanWellFounded
<1> HIDE DEF Below
<1>3. PICK x \in S : \A y \in S : ~ (<<y, x>> \in Below)
  BY <1>2, WFMin, Zenon
<1>4. ASSUME NEW y \in S PROVE x <= y
  <2>1. x \in Nat /\ y \in Nat
    OBVIOUS
  <2>2. ~ (y < x)
    BY <1>1, <1>3, <2>1, Zenon
  <2> QED
    BY <2>1, <2>2
<1> QED
  BY <1>4

LEMMA DatasetsAre ==
  /\ Datasets = {"gsi", "rainfall", "census", "census-a1", "osm"}
  /\ Order \in Seq(Datasets) /\ Order # <<>> /\ Datasets \subseteq Tables
<1>1. Datasets = {"gsi", "rainfall", "census", "census-a1", "osm"}
  <2>1. DOMAIN Order = 1 .. 5
    BY DEF Order
  <2>2. Datasets = {Order[i] : i \in 1 .. 5}
    BY <2>1 DEF Datasets, ToSet
  <2>3. 1 .. 5 = {1, 2, 3, 4, 5}
    OBVIOUS
  <2> QED
    BY <2>2, <2>3 DEF Order
<1> QED
  BY <1>1 DEF Order, Tables

LEMMA Elements ==
  ASSUME NEW s, NEW S, s \in Seq(S)
  PROVE  /\ DOMAIN s = 1 .. Len(s) /\ Len(s) \in Nat
         /\ ToSet(s) = {s[i] : i \in 1 .. Len(s)} /\ ToSet(s) \subseteq S
  BY DEF ToSet

LEMMA WiderList ==
  ASSUME NEW s, NEW S, s \in Seq(ToSet(s)), ToSet(s) \subseteq S PROVE s \in Seq(S)
<1>1. Len(s) \in Nat /\ DOMAIN s = 1 .. Len(s) /\ \A i \in 1 .. Len(s) : s[i] \in S
  BY DEF ToSet
<1>2. s \in [1 .. Len(s) -> ToSet(s)]
  OBVIOUS
<1>3. s = [i \in 1 .. Len(s) |-> s[i]]
  BY <1>2
<1> QED
  BY <1>1, <1>3

(* Every list is one of records that are Listed. *)
LEMMA ListsAreListed ==
  ASSUME NEW e \in Editions, NEW l \in Limits
  PROVE  /\ {Contents[e].gsi, Contents[e].rainfall, Contents[e].a1} \subseteq Seq(Listed)
         /\ {Contents[e].census[l], Contents[e].nodes[l], Contents[e].segments[l]} \subseteq Seq(Listed)
<1> DEFINE G == {Contents[e].gsi, Contents[e].rainfall, Contents[e].a1}
           L == {Contents[e].census[l], Contents[e].nodes[l], Contents[e].segments[l]}
<1>1. \A s \in G \cup L : IsList(s)
  BY IngestionAssumption
<1>2. G \cup L \subseteq ListsOf(e)
  BY Zenon DEF ListsOf
<1>3. ASSUME NEW s \in ListsOf(e) PROVE ToSet(s) \subseteq Listed
  <2> DEFINE all == UNION {ToSet(list) : list \in ListsOf(e)}
  <2>1. ToSet(s) \subseteq all
    OBVIOUS
  <2>2. all \subseteq Listed
    BY DEF Listed
  <2> QED
    BY <2>1, <2>2
<1>4. \A s \in G \cup L : s \in Seq(Listed)
  BY <1>1, <1>2, <1>3, WiderList DEF IsList
<1> QED
  BY <1>4

(* What a loop reads, and what it may leave to be read. *)
LEMMA RestIsList ==
  ASSUME NEW S, NEW s \in Seq(S), NEW m \in Nat, NEW n \in Nat, n <= Len(s)
  PROVE  /\ SubSeq(s, m + 1, n) \in Seq(S)
         /\ \A x \in ToSet(SubSeq(s, m + 1, n)) : x \in ToSet(s)
         /\ \A i \in m + 1 .. n : s[i] \in ToSet(SubSeq(s, m + 1, n))
         /\ m >= n => SubSeq(s, m + 1, n) = <<>>
<1> DEFINE q == SubSeq(s, m + 1, n)
<1>1. q \in Seq(S)
  OBVIOUS
<1>2. Len(q) = IF m >= n THEN 0 ELSE n - m
  OBVIOUS
<1>3. \A i \in 1 .. Len(q) : q[i] = s[i + m]
  OBVIOUS
<1> HIDE DEF q
<1>4. ToSet(q) = {q[i] : i \in 1 .. Len(q)} /\ ToSet(s) = {s[i] : i \in 1 .. Len(s)}
  BY <1>1, Elements
<1>5. ASSUME NEW i \in m + 1 .. n PROVE s[i] \in ToSet(q)
  <2>1. i - m \in 1 .. Len(q) /\ (i - m) + m = i
    BY <1>2
  <2> QED
    BY <1>3, <1>4, <2>1
<1>6. ASSUME NEW i \in 1 .. Len(q) PROVE q[i] \in ToSet(s)
  <2>1. i + m \in 1 .. Len(s)
    BY <1>2
  <2> QED
    BY <1>3, <1>4, <2>1
<1>7. m >= n => q = <<>>
  BY <1>1, <1>2
<1> QED
  BY <1>1, <1>4, <1>5, <1>6, <1>7 DEF q

LEMMA RecordsAreListed ==
  ASSUME file \in Editions, NEW d \in Datasets, NEW l \in Limits
  PROVE  Records(d, l) \in Seq(Listed) /\ Read.segments[l] \in Seq(Listed)
<1>1. UpTo(Read.gsi, l) \in Seq(Listed)
  <2>1. Read.gsi \in Seq(Listed)
    BY ListsAreListed DEF Read
  <2>2. CASE l = None \/ l >= Len(Read.gsi)
    BY <2>1, <2>2 DEF UpTo
  <2>3. CASE ~ (l = None \/ l >= Len(Read.gsi))
    <3>1. l \in Int /\ Len(Read.gsi) \in Nat /\ l <= Len(Read.gsi)
      BY <2>1, <2>3, IngestionAssumption
    <3>2. SubSeq(Read.gsi, 1, l) \in Seq(Listed)
      BY <2>1, <3>1
    <3> QED
      BY <2>3, <3>2 DEF UpTo
  <2> QED
    BY <2>2, <2>3
<1> QED
  BY <1>1, ListsAreListed, DatasetsAre DEF Read, Records

-----------------------------------------------------------------------------
(* One batch.                                                              *)

(* The loop goes on by one record at least, and what it has read is new or *)
(* has a key that is known or new in the batch.                            *)
LEMMA BatchIsRead ==
  ASSUME TypeOK, cmd.rest # <<>>, NEW t
  PROVE  /\ BatchEnd(t) \in 1 .. Len(cmd.rest)
         /\ Fresh(t, BatchEnd(t)) \subseteq 1 .. BatchEnd(t)
         /\ \A i \in 1 .. BatchEnd(t) :
              \/ i \in Fresh(t, BatchEnd(t))
              \/ LooksUp(t) /\ \E k \in cmd.known : k.key = cmd.rest[i].key
              \/ LooksUp(t) /\ \E j \in Fresh(t, BatchEnd(t)) : cmd.rest[j].key = cmd.rest[i].key
         /\ LooksUp(t) => \A i, j \in Fresh(t, BatchEnd(t)) : cmd.rest[i].key = cmd.rest[j].key => i = j
         /\ LooksUp(t) => \A i \in Fresh(t, BatchEnd(t)) : \A k \in cmd.known : k.key # cmd.rest[i].key
<1> DEFINE rest == cmd.rest
           n == BatchEnd(t)
           F == Fresh(t, n)
<1>1. rest \in Seq(Listed) /\ Len(rest) \in Nat /\ Len(rest) >= 1 /\ DOMAIN rest = 1 .. Len(rest)
  BY DEF TypeOK, Command
<1>2. n \in 1 .. Len(rest)
  <2> DEFINE full == {m \in DOMAIN cmd.rest : Cardinality(Fresh(t, m)) = BatchSize}
  <2>1. n = IF full = {} THEN Len(rest) ELSE Min(full)
    BY DEF BatchEnd
  <2>2. full \in SUBSET Nat /\ full \subseteq 1 .. Len(rest)
    BY <1>1
  <2> HIDE DEF full
  <2>3. ASSUME full # {} PROVE Min(full) \in full
    BY <2>2, <2>3, LeastElement DEF Min
  <2> HIDE DEF n
  <2>4. CASE full = {}
    BY <1>1, <2>1, <2>4
  <2>5. CASE full # {}
    <3>1. n = Min(full)
      BY <2>1, <2>5
    <3>2. n \in full
      BY <2>3, <2>5, <3>1
    <3> QED
      BY <2>2, <3>2
  <2> QED
    BY <2>4, <2>5
<1>3. F = {i \in 1 .. n : IsNew(t, cmd.known, rest, i)}
  BY DEF Fresh
<1> HIDE DEF n, F, rest
<1>4. ASSUME NEW i \in 1 .. n, LooksUp(t)
      PROVE  \/ i \in F \/ \E k \in cmd.known : k.key = rest[i].key
             \/ \E j \in F : rest[j].key = rest[i].key
  <2> SUFFICES ASSUME ~ \E k \in cmd.known : k.key = rest[i].key
               PROVE  \E j \in F : rest[j].key = rest[i].key
    OBVIOUS
  <2> DEFINE same == {j \in 1 .. n : rest[j].key = rest[i].key}
  <2>1. same \in SUBSET Nat /\ same # {}
    BY <1>2
  <2>2. PICK j \in same : \A m \in same : j <= m
    BY <2>1, LeastElement
  <2>3. j \in 1 .. n /\ rest[j].key = rest[i].key
    OBVIOUS
  <2>4. \A m \in 1 .. j - 1 : rest[m].key # rest[j].key
    BY <1>2, <2>2, <2>3
  <2>5. IsNew(t, cmd.known, rest, j)
    BY <2>3, <2>4 DEF IsNew
  <2> QED
    BY <1>3, <2>3, <2>5
<1>5. ~ LooksUp(t) => \A i \in 1 .. n : i \in F
  BY <1>3 DEF IsNew
<1>6. ASSUME LooksUp(t), NEW i \in F, NEW j \in F, rest[i].key = rest[j].key PROVE i = j
  <2>1. i \in 1 .. n /\ j \in 1 .. n
    BY <1>3
  <2>2. \A a \in F, b \in F : b \in 1 .. a - 1 => rest[b].key # rest[a].key
    BY <1>3, <1>6 DEF IsNew
  <2> QED
    BY <1>2, <1>6, <2>1, <2>2
<1>7. LooksUp(t) => \A i \in F : \A k \in cmd.known : k.key # rest[i].key
  BY <1>3 DEF IsNew
<1>8. F \subseteq 1 .. n
  BY <1>3
<1> QED
  BY <1>2, <1>4, <1>5, <1>6, <1>7, <1>8 DEF n, F, rest

\* A commit of the loop over table t: rows of what was left to read, and what is left now.
Loads(t, rest, rows) ==
    /\ rest \in Seq(Listed) /\ ToSet(rest) \subseteq ToSet(cmd.rest)
    /\ rows \subseteq Listed /\ rows \subseteq ToSet(cmd.rest)
    /\ \A r \in ToSet(cmd.rest) : r \in ToSet(rest) \/ \E k \in table[t] \cup rows : k.key = r.key
    /\ table' = [table EXCEPT ![t] = @ \cup rows]
    /\ \E n, m \in Nat : cmd' = [cmd EXCEPT !.rest = rest, !.known = @ \cup rows,
                                          !.inserted = n, !.updated = m]
    /\ UNCHANGED <<file, source, runs, faults, commands, wanted>>

Refuses(t) ==
    /\ ~ LooksUp(t) /\ t # "osm" /\ FailedRun(FALSE)
    /\ UNCHANGED <<file, table, faults, commands, wanted>>

LEMMA LoadIs ==
  ASSUME TypeOK, NEW t \in Tables, Load(t), LooksUp(t) => cmd.known = table[t]
  PROVE  Refuses(t) \/ \E rest, rows : Loads(t, rest, rows)
<1> DEFINE upto == BatchEnd(t)
           fresh == Fresh(t, upto)
           rows == {cmd.rest[i] : i \in fresh}
           rest == SubSeq(cmd.rest, upto + 1, Len(cmd.rest))
<1>1. /\ upto \in 1 .. Len(cmd.rest) /\ fresh \subseteq 1 .. upto
      /\ \A i \in 1 .. upto :
              \/ i \in fresh
              \/ LooksUp(t) /\ \E k \in cmd.known : k.key = cmd.rest[i].key
              \/ LooksUp(t) /\ \E j \in fresh : cmd.rest[j].key = cmd.rest[i].key
      /\ LooksUp(t) => \A i, j \in fresh : cmd.rest[i].key = cmd.rest[j].key => i = j
      /\ LooksUp(t) => \A i \in fresh : \A k \in cmd.known : k.key # cmd.rest[i].key
  BY BatchIsRead DEF Load
<1>2. /\ UNCHANGED <<file, faults, commands, wanted>>
      /\ \/ Refused(t, fresh) /\ FailedRun(FALSE) /\ UNCHANGED table
         \/ /\ table' = [table EXCEPT ![t] = @ \cup rows]
            /\ cmd' = [cmd EXCEPT !.rest = rest, !.known = @ \cup rows,
                                  !.inserted = @ + Cardinality(fresh),
                                  !.updated = @ + Cardinality(Changed(t, upto))]
            /\ UNCHANGED <<runs, source>>
  BY DEF Load
<1>3. /\ cmd.rest \in Seq(Listed) /\ Len(cmd.rest) \in Nat
      /\ ToSet(cmd.rest) = {cmd.rest[i] : i \in 1 .. Len(cmd.rest)} /\ ToSet(cmd.rest) \subseteq Listed
      /\ cmd.inserted \in Nat /\ cmd.updated \in Nat
  BY Elements DEF TypeOK, Command
<1>4. Cardinality(fresh) \in Nat /\ Cardinality(Changed(t, upto)) \in Nat
  <2>1. upto \in Nat
    BY <1>1, <1>3
  <2>2. IsFiniteSet(1 .. upto)
    BY <2>1, FS_Interval
  <2>3. Changed(t, upto) \subseteq 1 .. upto
    BY DEF Changed
  <2> QED
    BY <1>1, <2>2, <2>3, FS_Subset, FS_CardinalityType
<1>5. CASE Refused(t, fresh) /\ FailedRun(FALSE) /\ UNCHANGED table
  <2>1. ~ LooksUp(t)
    BY <1>1, <1>5 DEF Refused, Keys
  <2> QED
    BY <1>2, <1>5, <2>1 DEF Refuses, Refused
<1>6. /\ rest \in Seq(Listed) /\ ToSet(rest) \subseteq ToSet(cmd.rest)
      /\ \A i \in upto + 1 .. Len(cmd.rest) : cmd.rest[i] \in ToSet(rest)
  <2> DEFINE s == cmd.rest
             m == upto
             n == Len(s)
  <2>1. s \in Seq(Listed) /\ m \in Nat /\ n \in Nat /\ n <= Len(s)
    BY <1>1, <1>3
  <2> HIDE DEF s, m, n
  <2>2. /\ SubSeq(s, m + 1, n) \in Seq(Listed)
        /\ \A x \in ToSet(SubSeq(s, m + 1, n)) : x \in ToSet(s)
        /\ \A i \in m + 1 .. n : s[i] \in ToSet(SubSeq(s, m + 1, n))
    BY <2>1, RestIsList
  <2> QED
    BY <2>2 DEF s, m, n
<1>7. rows \subseteq ToSet(cmd.rest)
  BY <1>1, <1>3
<1> HIDE DEF upto, rest, fresh
<1>8. ASSUME NEW r \in ToSet(cmd.rest)
      PROVE  r \in ToSet(rest) \/ \E k \in table[t] \cup rows : k.key = r.key
  <2>1. PICK i \in 1 .. Len(cmd.rest) : r = cmd.rest[i]
    BY <1>3
  <2>2. CASE i \in 1 .. upto
    <3>1. CASE i \in fresh
      BY <2>1, <3>1
    <3>2. CASE LooksUp(t) /\ \E k \in cmd.known : k.key = cmd.rest[i].key
      BY <2>1, <3>2
    <3>3. CASE \E j \in fresh : cmd.rest[j].key = cmd.rest[i].key
      BY <2>1, <3>3
    <3> QED
      BY <1>1, <2>2, <3>1, <3>2, <3>3
  <2>3. CASE i \notin 1 .. upto
    <3>1. i \in upto + 1 .. Len(cmd.rest)
      BY <1>1, <1>3, <2>1, <2>3
    <3> QED
      BY <1>6, <2>1, <3>1
  <2> QED
    BY <2>2, <2>3
<1>9. CASE /\ table' = [table EXCEPT ![t] = @ \cup rows]
           /\ cmd' = [cmd EXCEPT !.rest = rest, !.known = @ \cup rows,
                                 !.inserted = @ + Cardinality(fresh),
                                 !.updated = @ + Cardinality(Changed(t, upto))]
           /\ UNCHANGED <<runs, source>>
  <2> HIDE DEF rows
  <2>1. \E n, m \in Nat : cmd' = [cmd EXCEPT !.rest = rest, !.known = @ \cup rows,
                                            !.inserted = n, !.updated = m]
    <3>1. cmd.inserted + Cardinality(fresh) \in Nat /\ cmd.updated + Cardinality(Changed(t, upto)) \in Nat
      BY <1>3, <1>4
    <3> QED
      BY <1>9, <3>1
  <2>2. Loads(t, rest, rows)
    BY <1>2, <1>3, <1>6, <1>7, <1>8, <1>9, <2>1, Zenon DEF Loads
  <2> QED
    BY <2>2
<1> QED
  BY <1>2, <1>5, <1>9

-----------------------------------------------------------------------------
(* The end of a command, and steps within a load.                          *)

LEMMA ListedRows == Listed \subseteq AllRows /\ Spellings \subseteq AllRows
  BY DEF AllRows

LEMMA IdleIsCommand == Idle \in Command
  BY IngestionAssumption DEF Idle, Command, Phases

(* The last run of a dataset is one of its runs. *)
LEMMA LastIndex ==
  ASSUME NEW n \in Nat, NEW R \in SUBSET (1 .. n), R # {}
  PROVE  Max(R) \in R /\ \A i \in R : i <= Max(R)
<1> DEFINE S == {n - i : i \in R}
<1>1. S \in SUBSET Nat /\ S # {}
  <2>1. ASSUME NEW i \in R PROVE n - i \in Nat
    OBVIOUS
  <2> QED
    BY <2>1
<1>2. PICK x \in S : \A y \in S : x <= y
  BY <1>1, LeastElement
<1>3. PICK i \in R : x = n - i
  BY <1>2
<1>4. ASSUME NEW j \in R PROVE j <= i
  <2>1. x <= n - j
    BY <1>2
  <2> QED
    BY <1>3, <2>1
<1> QED
  BY <1>4 DEF Max

LEMMA OwnRuns == ASSUME TypeOK, NEW d PROVE Current \in Nat /\ RunsOf(d) \in SUBSET (1 .. Current)
  BY Elements DEF TypeOK, Current, RunsOf

(* The roads stay what they are if their runs do. *)
LEMMA RoadsStay ==
  ASSUME TypeOK, TypeOK', WantedIsThere, RoadsAreWhole,
         source'["osm"] = source["osm"], wanted'["osm"] = wanted["osm"],
         table'["nodes"] = table["nodes"], table'["osm"] = table["osm"],
         RunsOf("osm")' = RunsOf("osm"), \A i \in RunsOf("osm") : runs'[i].status = runs[i].status
  PROVE  RoadsAreWhole'
<1> SUFFICES ASSUME source["osm"] # None, source["osm"].status = "completed",
                    LastRun("osm")'.status # "running"
             PROVE  /\ \A w \in wanted["osm"] : w[2] \in Keys(w[1])'
                    /\ \A t \in {"nodes", "osm"} : \A k \in Keys(t)' : <<t, k>> \in wanted["osm"]
  BY DEF RoadsAreWhole
<1>1. RunsOf("osm") # {}
  BY DatasetsAre DEF WantedIsThere
<1>2. LastRun("osm").status # "running"
  BY <1>1, OwnRuns, LastIndex DEF LastRun
<1>3. \A t \in {"nodes", "osm"} : Keys(t)' = Keys(t)
  BY DEF Keys
<1>4. \A w \in wanted["osm"] : w[1] \in {"nodes", "osm"}
  BY DatasetsAre DEF WantedIsThere
<1> QED
  BY <1>2, <1>3, <1>4 DEF RoadsAreWhole

(* While the roads are loaded their last run is open, whatever is in the tables. *)
LEMMA RoadsAreLoading ==
  ASSUME TypeOK', OneOpenRun', Loading', Dataset' = "osm" PROVE RoadsAreWhole'
<1> DEFINE R == RunsOf("osm")'
           n == Len(runs')
<1>1. runs' \in Seq(Run) /\ runs' # <<>> /\ runs'[n].dataset = "osm" /\ runs'[n].status = "running"
  BY DEF OneOpenRun, Current, TypeOK
<1>2. n \in Nat /\ DOMAIN runs' = 1 .. n /\ n >= 1
  BY <1>1
<1>3. R \in SUBSET (1 .. n) /\ n \in R
  BY <1>1, <1>2 DEF RunsOf
<1> HIDE DEF R, n
<1>4. Max(R) = n
  <2>1. Max(R) \in 1 .. n /\ n <= Max(R)
    BY <1>2, <1>3, LastIndex
  <2> QED
    BY <1>2, <2>1
<1>5. LastRun("osm")' = runs'[Max(R)]
  BY DEF LastRun, R
<1> QED
  BY <1>1, <1>4, <1>5 DEF RoadsAreWhole

(* What a step within a command knows of it. *)
LEMMA InLoad ==
  ASSUME IInv, Loading
  PROVE  /\ cmd.todo \in Seq(Datasets) /\ cmd.todo # <<>> /\ Dataset \in Datasets /\ Dataset \in Tables
         /\ cmd.limit \in Limits /\ file \in Editions
         /\ runs \in Seq(Run) /\ Current \in DOMAIN runs /\ Current \in 1 .. Len(runs)
         /\ runs[Current].dataset = Dataset /\ runs[Current].status = "running"
<1>1. cmd.phase # "idle" /\ cmd.todo \in Seq(Datasets) /\ cmd.limit \in Limits /\ runs \in Seq(Run)
  BY DEF IInv, TypeOK, Command, Loading
<1>2. cmd.todo # <<>> /\ runs # <<>>
  BY <1>1 DEF IInv, OneOpenRun, Loading
<1>3. Dataset \in Datasets
  BY <1>1, <1>2 DEF Dataset
<1>4. Len(runs) \in Nat /\ Len(runs) >= 1 /\ DOMAIN runs = 1 .. Len(runs)
  BY <1>1, <1>2
<1> QED
  BY <1>1, <1>2, <1>3, <1>4, DatasetsAre DEF IInv, OneOpenRun, TypeOK, Current

LEMMA FailedFields ==
  ASSUME TypeOK, Current \in 1 .. Len(runs), NEW b \in BOOLEAN, FailedRun(b), Dataset \in Datasets
  PROVE  /\ runs' \in Seq(Run) /\ Len(runs') = Len(runs)
         /\ \A i \in 1 .. Len(runs) : runs'[i].dataset = runs[i].dataset
         /\ \A i \in 1 .. Len(runs) : i # Current => runs'[i] = runs[i]
         /\ runs'[Current].status = "failed" /\ runs'[Current].struck = b
         /\ source' \in [Datasets -> SourceRow \cup {None}]
         /\ source'[Dataset] = [status |-> "failed", count |-> 0]
         /\ \A d \in Datasets \ {Dataset} : source'[d] = source[d]
         /\ cmd' = Idle
<1> DEFINE r == [runs[Current] EXCEPT !.status = "failed", !.struck = b]
<1>1. runs \in Seq(Run) /\ runs[Current] \in Run
  BY DEF TypeOK
<1>2. r \in Run /\ r.dataset = runs[Current].dataset /\ r.status = "failed" /\ r.struck = b
  BY <1>1 DEF Run
<1>3. runs' = [runs EXCEPT ![Current] = r]
  BY <1>1 DEF FailedRun
<1> HIDE DEF r
<1>4. /\ runs' \in Seq(Run) /\ Len(runs') = Len(runs) /\ runs'[Current] = r
      /\ \A i \in 1 .. Len(runs) : i # Current => runs'[i] = runs[i]
  BY <1>1, <1>2, <1>3
<1>5. [status |-> "failed", count |-> 0] \in SourceRow
  BY DEF SourceRow
<1>6. source \in [Datasets -> SourceRow \cup {None}]
  BY DEF TypeOK
<1>7. /\ source' \in [Datasets -> SourceRow \cup {None}]
      /\ source'[Dataset] = [status |-> "failed", count |-> 0]
      /\ \A d \in Datasets \ {Dataset} : source'[d] = source[d]
  BY <1>5, <1>6 DEF FailedRun
<1> QED
  BY <1>2, <1>4, <1>7 DEF FailedRun

LEMMA SameRuns ==
  ASSUME TypeOK, runs' \in Seq(Run), Len(runs') = Len(runs),
         \A i \in 1 .. Len(runs) : runs'[i].dataset = runs[i].dataset
  PROVE  \A d : RunsOf(d)' = RunsOf(d)
<1>1. runs \in Seq(Run)
  BY DEF TypeOK
<1>2. DOMAIN runs = 1 .. Len(runs) /\ DOMAIN runs' = 1 .. Len(runs)
  BY <1>1
<1> QED
  BY <1>2 DEF RunsOf

(* A failure on record: the run is closed, the source says so. *)
LEMMA FailedKeeps ==
  ASSUME IInv, Loading, NEW b \in BOOLEAN, FailedRun(b),
         UNCHANGED <<file, table, commands, wanted>>, faults' \in Nat
  PROVE  IInv'
<1>1. TypeOK /\ Current \in 1 .. Len(runs) /\ Dataset \in Datasets /\ runs[Current].dataset = Dataset
  BY InLoad DEF IInv
<1>2. /\ runs' \in Seq(Run) /\ Len(runs') = Len(runs)
      /\ \A i \in 1 .. Len(runs) : runs'[i].dataset = runs[i].dataset
      /\ \A i \in 1 .. Len(runs) : i # Current => runs'[i] = runs[i]
      /\ source' \in [Datasets -> SourceRow \cup {None}]
      /\ source'[Dataset] = [status |-> "failed", count |-> 0]
      /\ \A d \in Datasets \ {Dataset} : source'[d] = source[d]
      /\ cmd' = Idle
  BY <1>1, FailedFields
<1>3. TypeOK'
  BY <1>1, <1>2, IdleIsCommand DEF TypeOK
<1>4. cmd'.phase = "idle" /\ cmd'.todo = <<>>
  BY <1>2 DEF Idle
<1>5. OneOpenRun' /\ NothingSkipped'
  BY <1>4 DEF OneOpenRun, NothingSkipped, Loading
<1>6. \A d : RunsOf(d)' = RunsOf(d)
  BY <1>1, <1>2, SameRuns
<1>7. \A t : Keys(t)' = Keys(t)
  BY DEF Keys
<1>8. WantedIsThere'
  BY <1>2, <1>6, <1>7 DEF WantedIsThere, IInv
<1>9. KnowsTheTable'
  BY <1>4 DEF KnowsTheTable, IInv
<1>10. RoadsAreWhole'
  <2>1. CASE Dataset = "osm"
    BY <1>2, <2>1 DEF RoadsAreWhole
  <2>2. CASE Dataset # "osm"
    <3>1. \A i \in RunsOf("osm") : i \in 1 .. Len(runs) /\ i # Current
      BY <1>1, <2>2, OwnRuns DEF RunsOf, Current
    <3>2. source'["osm"] = source["osm"]
      BY <1>2, <2>2, DatasetsAre
    <3> QED
      BY <1>1, <1>2, <1>3, <1>6, <3>1, <3>2, RoadsStay DEF IInv
  <2> QED
    BY <2>1, <2>2
<1> QED
  BY <1>3, <1>5, <1>8, <1>9, <1>10 DEF IInv

(* A step of a load that goes on, which takes nothing out of a table of others. *)
LEMMA LoadGoesOn ==
  ASSUME IInv, Loading,
         table' \in [Tables -> SUBSET AllRows], cmd' \in Command,
         cmd'.todo = cmd.todo, Loading',
         cmd'.phase \in {"subdivisions", "climatology"} => Dataset = "rainfall",
         cmd'.phase \in {"clear", "nodes"} => Dataset = "osm",
         \A t \in Tables \ {"nodes", "osm"} : table[t] \subseteq table'[t],
         Dataset # "osm" => table'["nodes"] = table["nodes"] /\ table'["osm"] = table["osm"],
         UNCHANGED <<file, runs, source, faults, commands, wanted>>
  PROVE  TypeOK' /\ OneOpenRun' /\ WantedIsThere' /\ RoadsAreWhole'
<1>1. TypeOK'
  BY DEF IInv, TypeOK
<1>2. Dataset' = Dataset /\ cmd.todo # <<>> /\ Current' = Current /\ runs # <<>>
  BY InLoad DEF Dataset, Current, IInv, OneOpenRun
<1>3. OneOpenRun'
  BY <1>2, InLoad DEF OneOpenRun, IInv, Loading
<1>4. \A t \in Tables \ {"nodes", "osm"} : Keys(t) \subseteq Keys(t)'
  BY DEF Keys
<1>5. \A d : RunsOf(d)' = RunsOf(d)
  BY DEF RunsOf
<1>6. WantedIsThere'
  <2>1. ASSUME NEW d \in Datasets, NEW w \in wanted[d], d # "osm"
        PROVE  w[1] \in {d, "climatology"} /\ w[2] \in Keys(w[1])'
    <3>1. w[1] \in {d, "climatology"} /\ w[2] \in Keys(w[1])
      BY <2>1 DEF IInv, WantedIsThere
    <3>2. w[1] \in Tables \ {"nodes", "osm"}
      BY <2>1, <3>1, DatasetsAre DEF Tables
    <3> QED
      BY <1>4, <3>1, <3>2
  <2>2. \A w \in wanted["osm"] : w[1] \in {"nodes", "osm"}
    BY DatasetsAre DEF IInv, WantedIsThere
  <2> QED
    BY <1>5, <2>1, <2>2 DEF IInv, WantedIsThere
<1>7. RoadsAreWhole'
  <2>1. CASE Dataset = "osm"
    BY <1>1, <1>2, <1>3, <2>1, RoadsAreLoading
  <2>2. CASE Dataset # "osm"
    BY <1>1, <1>5, <2>2, RoadsStay DEF IInv
  <2> QED
    BY <2>1, <2>2
<1> QED
  BY <1>1, <1>3, <1>6, <1>7

-----------------------------------------------------------------------------
(* The actions.                                                            *)

LEMMA KilledKeeps == ASSUME IInv, Killed PROVE IInv'
<1>1. TypeOK'
  BY IdleIsCommand, IngestionAssumption DEF IInv, TypeOK, Killed
<1>2. cmd' = Idle /\ cmd'.phase = "idle" /\ cmd'.todo = <<>>
  BY DEF Idle, Killed
<1>3. UNCHANGED <<file, table, source, runs, commands, wanted>>
  BY DEF Killed
<1>4. OneOpenRun' /\ NothingSkipped'
  BY <1>2 DEF OneOpenRun, NothingSkipped, Loading
<1>5. WantedIsThere'
  BY <1>3 DEF IInv, WantedIsThere, Keys, RunsOf
<1>6. KnowsTheTable'
  BY <1>2, <1>3 DEF IInv, KnowsTheTable
<1>7. RoadsAreWhole'
  BY <1>3 DEF IInv, RoadsAreWhole, Keys, LastRun, RunsOf
<1> QED
  BY <1>1, <1>4, <1>5, <1>6, <1>7 DEF IInv

LEMMA StruckKeeps == ASSUME IInv, Struck PROVE IInv'
<1>1. Loading
  BY DEF Struck, Loading, IInv, OneOpenRun
<1>2. faults' \in Nat
  BY IngestionAssumption DEF Struck, IInv, TypeOK
<1> QED
  BY <1>1, <1>2, FailedKeeps DEF Struck

LEMMA IngestKeeps ==
  ASSUME IInv, NEW c \in Datasets \cup {"all"}, NEW l \in Limits, Ingest(c, l) PROVE IInv'
<1> DEFINE todo == IF c = "all" THEN Order ELSE <<c>>
<1>1. todo \in Seq(Datasets) /\ todo # <<>>
  <2>1. CASE c = "all"
    BY <2>1, DatasetsAre
  <2>2. CASE c # "all"
    <3>1. c \in Datasets
      BY <2>2
    <3> QED
      BY <2>2, <3>1
  <2> QED
    BY <2>1, <2>2
<1> HIDE DEF todo
<1>2. cmd' = [Idle EXCEPT !.todo = todo, !.limit = l, !.phase = "source"]
  BY DEF Ingest, todo
<1>3. cmd' \in Command /\ cmd'.phase = "source" /\ cmd'.todo = todo
  BY <1>1, <1>2, IdleIsCommand DEF Command, Phases
<1>4. UNCHANGED <<file, table, source, runs, faults, wanted>> /\ commands' \in Nat
  BY DEF Ingest, IInv, TypeOK
<1>5. TypeOK'
  BY <1>3, <1>4 DEF IInv, TypeOK
<1>6. OneOpenRun' /\ NothingSkipped'
  BY <1>1, <1>3 DEF OneOpenRun, NothingSkipped, Loading
<1>7. WantedIsThere'
  BY <1>4 DEF IInv, WantedIsThere, Keys, RunsOf
<1>8. KnowsTheTable'
  BY <1>3, <1>4 DEF IInv, KnowsTheTable
<1>9. RoadsAreWhole'
  BY <1>4 DEF IInv, RoadsAreWhole, Keys, LastRun, RunsOf
<1> QED
  BY <1>5, <1>6, <1>7, <1>8, <1>9 DEF IInv

LEMMA ReplaceKeeps == ASSUME IInv, NEW e \in Editions, Replace(e) PROVE IInv'
<1>1. UNCHANGED <<table, source, runs, cmd, faults, commands, wanted>> /\ file' = e /\ cmd.phase = "idle"
  BY DEF Replace
<1>2. TypeOK'
  BY <1>1 DEF IInv, TypeOK
<1>3. OneOpenRun' /\ NothingSkipped'
  BY <1>1 DEF IInv, OneOpenRun, NothingSkipped, Loading, Dataset
<1>4. WantedIsThere' /\ KnowsTheTable'
  BY <1>1 DEF IInv, WantedIsThere, KnowsTheTable, Keys, RunsOf
<1>5. RoadsAreWhole'
  BY <1>1 DEF IInv, RoadsAreWhole, Keys, LastRun, RunsOf
<1> QED
  BY <1>2, <1>3, <1>4, <1>5 DEF IInv

LEMMA RegisterKeeps == ASSUME IInv, Register PROVE IInv'
<1>1. cmd.phase = "source" /\ cmd.todo # <<>> /\ cmd.todo \in Seq(Datasets)
  BY DEF IInv, TypeOK, Command, Register, At
<1>2. Dataset \in Datasets
  BY <1>1 DEF Dataset
<1>3. cmd' = [cmd EXCEPT !.phase = "run"] /\ UNCHANGED <<file, table, runs, faults, commands, wanted>>
  BY DEF Register
<1>4. cmd' \in Command /\ cmd'.phase = "run" /\ cmd'.todo = cmd.todo
  BY <1>3 DEF IInv, TypeOK, Command, Phases
<1>5. NewSource \in SourceRow /\ NewSource.status # "completed"
  BY DEF NewSource, SourceRow
<1>6. source' \in [Datasets -> SourceRow \cup {None}]
      /\ \A d \in Datasets : source'[d] = source[d] \/ source'[d] = NewSource
  BY <1>2, <1>5 DEF Register, IInv, TypeOK
<1>7. TypeOK'
  BY <1>3, <1>4, <1>6 DEF IInv, TypeOK
<1>8. OneOpenRun' /\ NothingSkipped'
  BY <1>1, <1>4 DEF IInv, OneOpenRun, NothingSkipped, Loading
<1>9. WantedIsThere'
  BY <1>3, <1>5, <1>6 DEF IInv, WantedIsThere, Keys, RunsOf
<1>10. KnowsTheTable'
  BY <1>3, <1>4 DEF IInv, KnowsTheTable
<1>11. RoadsAreWhole'
  BY <1>3, <1>5, <1>6, DatasetsAre DEF IInv, RoadsAreWhole, Keys, LastRun, RunsOf
<1> QED
  BY <1>7, <1>8, <1>9, <1>10, <1>11 DEF IInv

LEMMA AppendedRun ==
  ASSUME TypeOK, NEW r \in Run, runs' = Append(runs, r)
  PROVE  /\ runs' \in Seq(Run) /\ Len(runs') = Len(runs) + 1 /\ runs' # <<>>
         /\ runs'[Len(runs')] = r
         /\ \A i \in 1 .. Len(runs) : runs'[i] = runs[i]
         /\ \A d : RunsOf(d) \subseteq RunsOf(d)'
         /\ \A d : d # r.dataset => RunsOf(d)' = RunsOf(d)
<1>1. runs \in Seq(Run) /\ DOMAIN runs = 1 .. Len(runs) /\ Len(runs) \in Nat
  BY DEF TypeOK
<1>2. /\ runs' \in Seq(Run) /\ Len(runs') = Len(runs) + 1 /\ runs' # <<>>
      /\ DOMAIN runs' = 1 .. Len(runs) + 1
      /\ runs'[Len(runs) + 1] = r
      /\ \A i \in 1 .. Len(runs) : runs'[i] = runs[i]
  BY <1>1
<1>3. \A d : RunsOf(d) \subseteq RunsOf(d)'
  BY <1>1, <1>2 DEF RunsOf
<1>4. \A d : d # r.dataset => RunsOf(d)' \subseteq RunsOf(d)
  BY <1>1, <1>2 DEF RunsOf
<1>5. ASSUME NEW d, d # r.dataset PROVE RunsOf(d)' = RunsOf(d)
  BY <1>1, <1>2, <1>5 DEF RunsOf
<1>6. runs'[Len(runs')] = r
  BY <1>2
<1> QED
  BY <1>2, <1>3, <1>5, <1>6, Zenon

LEMMA StartRunKeeps == ASSUME IInv, StartRun PROVE IInv'
<1>1. cmd.phase = "run" /\ cmd.todo # <<>> /\ cmd.todo \in Seq(Datasets) /\ cmd.limit \in Limits
      /\ file \in Editions /\ TypeOK /\ cmd \in Command
  BY DEF IInv, TypeOK, Command, StartRun, At
<1>2. Dataset \in Datasets /\ Dataset \in Tables
  BY <1>1, DatasetsAre DEF Dataset
<1>3. NewRun(Dataset) \in Run /\ NewRun(Dataset).dataset = Dataset /\ NewRun(Dataset).status = "running"
  BY <1>2 DEF NewRun, Run
<1>4. /\ runs' = Append(runs, NewRun(Dataset))
      /\ cmd' = [cmd EXCEPT !.phase = FirstPhase(Dataset), !.rest = Records(Dataset, cmd.limit),
                            !.known = Known(Dataset), !.inserted = 0, !.updated = 0]
      /\ UNCHANGED <<file, table, source, faults, commands, wanted>>
  BY DEF StartRun
<1>5. /\ runs' \in Seq(Run) /\ runs' # <<>> /\ runs'[Len(runs')] = NewRun(Dataset)
      /\ \A i \in 1 .. Len(runs) : runs'[i] = runs[i]
      /\ \A d : RunsOf(d) \subseteq RunsOf(d)'
      /\ \A d : d # Dataset => RunsOf(d)' = RunsOf(d)
  BY <1>1, <1>3, <1>4, AppendedRun
<1>6. FirstPhase(Dataset) = IF Dataset = "rainfall" THEN "subdivisions"
                            ELSE IF Dataset = "osm" THEN "clear" ELSE "rows"
  BY <1>2, DatasetsAre DEF FirstPhase
<1>7. Records(Dataset, cmd.limit) \in Seq(Listed)
  BY <1>1, <1>2, RecordsAreListed
<1>8. Known(Dataset) \in SUBSET AllRows
  BY <1>1, <1>2 DEF Known, TypeOK
<1>9. /\ cmd' \in Command /\ cmd'.todo = cmd.todo /\ cmd'.limit = cmd.limit
      /\ cmd'.phase = FirstPhase(Dataset) /\ cmd'.rest = Records(Dataset, cmd.limit)
      /\ cmd'.known = Known(Dataset)
  <2>1. FirstPhase(Dataset) \in Phases
    BY <1>6 DEF Phases
  <2> QED
    BY <1>1, <1>4, <1>7, <1>8, <2>1 DEF Command
<1>10. Dataset' = Dataset /\ ListOf(Dataset)' = cmd'.rest
  BY <1>4, <1>9 DEF Dataset, ListOf, Records, Read, UpTo
<1>11. TypeOK'
  BY <1>4, <1>5, <1>9 DEF IInv, TypeOK
<1>12. OneOpenRun'
  BY <1>1, <1>3, <1>5, <1>6, <1>9, <1>10 DEF OneOpenRun, Current
<1>13. NothingSkipped'
  BY <1>6, <1>9, <1>10 DEF NothingSkipped, Ahead
<1>14. WantedIsThere'
  BY <1>4, <1>5 DEF IInv, WantedIsThere, Keys
<1>15. KnowsTheTable'
  BY <1>4, <1>6, <1>9, <1>10 DEF IInv, KnowsTheTable, Known
<1>16. RoadsAreWhole'
  <2>1. CASE Dataset = "osm"
    <3>1. Loading'
      BY <1>6, <1>9 DEF Loading
    <3> QED
      BY <1>10, <1>11, <1>12, <2>1, <3>1, RoadsAreLoading
  <2>2. CASE Dataset # "osm"
    <3>1. \A i \in RunsOf("osm") : runs'[i].status = runs[i].status
      BY <1>1, <1>5, OwnRuns DEF Current
    <3> QED
      BY <1>1, <1>4, <1>5, <1>11, <2>2, <3>1, RoadsStay DEF IInv
  <2> QED
    BY <2>1, <2>2
<1> QED
  BY <1>11, <1>12, <1>13, <1>14, <1>15, <1>16 DEF IInv

(* What a commit of rows changes. *)
LEMMA LoadsFields ==
  ASSUME IInv, NEW t \in Tables, NEW rest, NEW rows, Loads(t, rest, rows)
  PROVE  /\ cmd' \in Command /\ cmd'.todo = cmd.todo /\ cmd'.limit = cmd.limit
         /\ cmd'.phase = cmd.phase /\ cmd'.rest = rest /\ cmd'.known = cmd.known \cup rows
         /\ table' \in [Tables -> SUBSET AllRows] /\ table'[t] = table[t] \cup rows
         /\ \A u \in Tables \ {t} : table'[u] = table[u] /\ Keys(u)' = Keys(u)
         /\ Keys(t)' = Keys(t) \cup {r.key : r \in rows}
         /\ \A list : Ahead(t, list) => Ahead(t, list)'
         /\ \A list : Only(t, list) /\ ToSet(cmd.rest) \subseteq ToSet(list) => Only(t, list)'
<1>1. rows \subseteq Listed /\ rows \subseteq AllRows /\ rest \in Seq(Listed)
  BY ListedRows DEF Loads
<1>2. cmd \in Command /\ table \in [Tables -> SUBSET AllRows]
  BY DEF IInv, TypeOK
<1>3. PICK n \in Nat, m \in Nat : cmd' = [cmd EXCEPT !.rest = rest, !.known = @ \cup rows,
                                                   !.inserted = n, !.updated = m]
  BY DEF Loads
<1>4. /\ cmd' \in Command /\ cmd'.todo = cmd.todo /\ cmd'.limit = cmd.limit
      /\ cmd'.phase = cmd.phase /\ cmd'.rest = rest /\ cmd'.known = cmd.known \cup rows
  BY <1>1, <1>2, <1>3 DEF Command
<1>5. /\ table' \in [Tables -> SUBSET AllRows] /\ table'[t] = table[t] \cup rows
      /\ \A u \in Tables \ {t} : table'[u] = table[u]
  BY <1>1, <1>2 DEF Loads
<1>6. /\ Keys(t)' = Keys(t) \cup {r.key : r \in rows}
      /\ \A u \in Tables \ {t} : Keys(u)' = Keys(u)
  BY <1>5 DEF Keys
<1>7. ASSUME NEW list, Ahead(t, list) PROVE Ahead(t, list)'
  <2>1. ASSUME NEW r \in ToSet(list) PROVE r.key \in Keys(t)' \/ r \in ToSet(rest)
    <3>1. CASE r.key \in Keys(t)
      BY <1>6, <3>1
    <3>2. CASE r \in ToSet(cmd.rest)
      <4>1. r \in ToSet(rest) \/ \E k \in table[t] \cup rows : k.key = r.key
        BY <3>2 DEF Loads
      <4> QED
        BY <1>5, <4>1 DEF Keys
    <3> QED
      BY <1>7, <2>1, <3>1, <3>2 DEF Ahead
  <2> QED
    BY <1>4, <2>1 DEF Ahead
<1>8. \A list : Only(t, list) /\ ToSet(cmd.rest) \subseteq ToSet(list) => Only(t, list)'
  BY <1>6 DEF Only, Loads
<1> QED
  BY <1>4, <1>5, <1>6, <1>7, <1>8

LEMMA RowsKeep == ASSUME IInv, Rows PROVE IInv'
<1>1. cmd.phase = "rows" /\ cmd.todo # <<>> /\ Loading
  BY DEF Rows, At, Loading
<1>2. TypeOK /\ cmd \in Command /\ Listed \subseteq AllRows
  BY ListedRows DEF IInv, TypeOK
<1>3. PICK d \in Datasets : d = Dataset /\ d \in Tables
  BY <1>1, InLoad
<1>4. CASE Load(d)
  <2>1. LooksUp(d) => d \in {"gsi", "rainfall"}
    BY DatasetsAre DEF LooksUp
  <2>2. d \in {"gsi", "rainfall"} => cmd.known = table[d]
    BY <1>3, <1>1 DEF IInv, KnowsTheTable
  <2>3. Refuses(d) \/ \E rest, rows : Loads(d, rest, rows)
    BY <1>3, <1>2, <1>4, <2>1, <2>2, LoadIs
  <2>4. CASE Refuses(d)
    <3>1. faults' \in Nat
      BY <1>2, <2>4 DEF Refuses, TypeOK
    <3> QED
      BY <1>1, <2>4, <3>1, FailedKeeps DEF Refuses
  <2>5. ASSUME NEW rest, NEW rows, Loads(d, rest, rows) PROVE IInv'
    <3>1. /\ cmd' \in Command /\ cmd'.todo = cmd.todo /\ cmd'.limit = cmd.limit
          /\ cmd'.phase = "rows" /\ cmd'.rest = rest /\ cmd'.known = cmd.known \cup rows
          /\ table' \in [Tables -> SUBSET AllRows] /\ table'[d] = table[d] \cup rows
          /\ \A u \in Tables \ {d} : table'[u] = table[u] /\ Keys(u)' = Keys(u)
          /\ \A list : Ahead(d, list) => Ahead(d, list)'
          /\ \A list : Only(d, list) /\ ToSet(cmd.rest) \subseteq ToSet(list) => Only(d, list)'
      BY <1>3, <1>1, <1>2, <2>5, LoadsFields
    <3>2. UNCHANGED <<file, source, runs, faults, commands, wanted>> /\ ToSet(rest) \subseteq ToSet(cmd.rest)
      BY <2>5 DEF Loads
    <3>3. Dataset' = d /\ Loading' /\ ListOf(d)' = ListOf(d) /\ ListOf("osm")' = ListOf("osm")
          /\ RoadList' = RoadList
      BY <1>3, <3>1, <3>2 DEF Dataset, Loading, ListOf, RoadList, Records, Read
    <3>4. {"nodes", "osm", "subdivisions"} \subseteq Tables
      BY DEF Tables
    <3>5. d \notin {"nodes", "subdivisions"}
      BY DatasetsAre
    <3>6. TypeOK' /\ OneOpenRun' /\ WantedIsThere' /\ RoadsAreWhole'
      <4>1. \A t \in Tables \ {"nodes", "osm"} : table[t] \subseteq table'[t]
        BY <3>1
      <4>2. d # "osm" => table'["nodes"] = table["nodes"] /\ table'["osm"] = table["osm"]
        BY <3>1, <3>4, <3>5
      <4> QED
        BY <1>3, <1>1, <3>1, <3>2, <3>3, <4>1, <4>2, LoadGoesOn
    <3>7. NothingSkipped'
      <4>1. CASE d # "osm"
        <5>1. Ahead(d, ListOf(d))
          BY <1>3, <1>1, <4>1 DEF IInv, NothingSkipped
        <5>2. Ahead(d, ListOf(d))'
          BY <1>3, <3>1, <3>3, <5>1 DEF Ahead
        <5> QED
          BY <3>1, <3>3, <4>1, <5>2 DEF NothingSkipped
      <4>2. CASE d = "osm"
        <5>1. /\ Arrived("nodes", ListOf("osm")) /\ Ahead("osm", RoadList)
              /\ ToSet(cmd.rest) \subseteq ToSet(RoadList)
              /\ Only("nodes", ListOf("osm")) /\ Only("osm", RoadList)
          BY <1>3, <1>1, <4>2 DEF IInv, NothingSkipped
        <5>2. Keys("nodes")' = Keys("nodes")
          BY <3>1, <3>4, <4>2
        <5>3. Arrived("nodes", ListOf("osm"))' /\ Only("nodes", ListOf("osm"))'
          BY <3>3, <5>1, <5>2 DEF Arrived, Only
        <5>4. Ahead("osm", RoadList)' /\ Only("osm", RoadList)'
          BY <3>1, <3>3, <4>2, <5>1 DEF Ahead, Only
        <5>5. ToSet(cmd'.rest) \subseteq ToSet(RoadList)'
          BY <3>1, <3>2, <3>3, <5>1
        <5> QED
          BY <3>1, <3>3, <4>2, <5>3, <5>4, <5>5 DEF NothingSkipped
      <4> QED
        BY <4>1, <4>2
    <3>8. KnowsTheTable'
      <4>1. d \in {"gsi", "rainfall"} => cmd'.known = table'[d]
        BY <1>1, <2>2, <3>1
      <4>2. table'["subdivisions"] \subseteq Spellings
        BY <3>1, <3>4, <3>5 DEF IInv, KnowsTheTable
      <4> QED
        BY <3>1, <3>3, <4>1, <4>2 DEF KnowsTheTable
    <3> QED
      BY <3>6, <3>7, <3>8 DEF IInv
  <2> QED
    BY <2>3, <2>4, <2>5
<1>5. CASE LoopOver(IF d = "rainfall" THEN "climatology" ELSE "finish")
  <2> DEFINE next == IF d = "rainfall" THEN "climatology" ELSE "finish"
  <2>1. /\ cmd.rest = <<>> /\ cmd' = [cmd EXCEPT !.phase = next]
        /\ UNCHANGED <<file, table, source, runs, faults, commands, wanted>>
    BY <1>5 DEF LoopOver
  <2>2. next \in {"climatology", "finish"} /\ (next = "climatology" <=> d = "rainfall")
    OBVIOUS
  <2> HIDE DEF next
  <2>3. /\ cmd' \in Command /\ cmd'.todo = cmd.todo /\ cmd'.limit = cmd.limit /\ cmd'.phase = next
        /\ cmd'.rest = <<>>
    BY <1>2, <2>1, <2>2 DEF Command, Phases
  <2>4. Dataset' = d /\ Loading' /\ ListOf(d)' = ListOf(d) /\ ListOf("osm")' = ListOf("osm")
        /\ RoadList' = RoadList
    BY <1>3, <2>1, <2>2, <2>3 DEF Dataset, Loading, ListOf, RoadList, Records, Read
  <2>5. \A t : Keys(t)' = Keys(t)
    BY <1>3, <2>1 DEF Keys
  <2>6. ToSet(cmd.rest) = {}
    BY <2>1 DEF ToSet
  <2>7. TypeOK' /\ OneOpenRun' /\ WantedIsThere' /\ RoadsAreWhole'
    BY <1>3, <1>1, <1>2, <2>1, <2>2, <2>3, <2>4, LoadGoesOn DEF TypeOK
  <2>8. NothingSkipped'
    <3>1. CASE d # "osm"
      <4>1. Ahead(d, ListOf(d))
        BY <1>3, <1>1, <3>1 DEF IInv, NothingSkipped
      <4>2. Arrived(d, ListOf(d))'
        BY <2>4, <2>5, <2>6, <4>1 DEF Ahead, Arrived
      <4> QED
        BY <2>2, <2>3, <2>4, <3>1, <4>2 DEF NothingSkipped
    <3>2. CASE d = "osm"
      <4>1. /\ Arrived("nodes", ListOf("osm")) /\ Ahead("osm", RoadList)
            /\ Only("nodes", ListOf("osm")) /\ Only("osm", RoadList)
        BY <1>3, <1>1, <3>2 DEF IInv, NothingSkipped
      <4>2. /\ Arrived("nodes", ListOf("osm"))' /\ Arrived("osm", RoadList)'
            /\ Only("nodes", ListOf("osm"))' /\ Only("osm", RoadList)'
        BY <2>4, <2>5, <2>6, <4>1 DEF Ahead, Arrived, Only
      <4> QED
        BY <2>2, <2>3, <2>4, <3>2, <4>2 DEF NothingSkipped
    <3> QED
      BY <3>1, <3>2
  <2>9. KnowsTheTable'
    BY <2>1, <2>2, <2>3 DEF IInv, KnowsTheTable
  <2> QED
    BY <2>7, <2>8, <2>9 DEF IInv
<1> QED
  BY <1>3, <1>4, <1>5 DEF Rows
(* What is wanted of a dataset: records of its list, and the climatology or the segments. *)
LEMMA WantedIs ==
  ASSUME TypeOK, NEW d \in Datasets, NEW l \in Limits
  PROVE  /\ Wanted(d, l) \in SUBSET (Tables \X {r.key : r \in AllRows})
         /\ \A w \in Wanted(d, l) :
               \/ \E r \in ToSet(Records(d, l)) : w = <<IF d = "osm" THEN "nodes" ELSE d, r.key>>
               \/ d = "rainfall" /\ \E c \in Read.climatology : w = <<"climatology", c.key>>
               \/ d = "osm" /\ \E s \in ToSet(Read.segments[l]) : w = <<"osm", s.key>>
         /\ d = "osm" => /\ \A r \in ToSet(Records(d, l)) : <<"nodes", r.key>> \in Wanted(d, l)
                         /\ \A s \in ToSet(Read.segments[l]) : <<"osm", s.key>> \in Wanted(d, l)
<1> DEFINE list == Records(d, l)
           own == IF d = "osm" THEN "nodes" ELSE d
           more == IF d = "osm" THEN {<<"osm", s.key>> : s \in ToSet(Read.segments[l])}
                   ELSE IF d = "rainfall" THEN {<<"climatology", c.key>> : c \in Read.climatology} ELSE {}
<1>1. Wanted(d, l) = {<<own, r.key>> : r \in ToSet(list)} \cup more
  <2>1. CASE d = "rainfall"
    BY <2>1 DEF Wanted, Records
  <2>2. CASE d = "osm"
    BY <2>2 DEF Wanted, Records
  <2>3. CASE d \notin {"rainfall", "osm"}
    BY <2>3 DEF Wanted
  <2> QED
    BY <2>1, <2>2, <2>3
<1>2. file \in Editions /\ list \in Seq(Listed) /\ Read.segments[l] \in Seq(Listed)
  BY RecordsAreListed DEF TypeOK
<1>3. ToSet(list) \subseteq AllRows /\ ToSet(Read.segments[l]) \subseteq AllRows
  BY <1>2, Elements, ListedRows
<1>4. Read.climatology \subseteq AllRows
  <2> DEFINE all == UNION {Contents[e].climatology : e \in Editions}
  <2>1. Contents[file].climatology \subseteq all
    BY <1>2
  <2>2. all \subseteq AllRows
    BY DEF AllRows
  <2> QED
    BY <2>1, <2>2 DEF Read
<1>5. own \in Tables /\ {"osm", "climatology"} \subseteq Tables
  BY DatasetsAre DEF Tables
<1> HIDE DEF list, own
<1>6. Wanted(d, l) \in SUBSET (Tables \X {r.key : r \in AllRows})
  BY <1>1, <1>3, <1>4, <1>5
<1> QED
  BY <1>1, <1>6 DEF list, own

LEMMA MoreToDo ==
  ASSUME NEW S, NEW s \in Seq(S), s # <<>>, Len(s) # 1 PROVE Tail(s) \in Seq(S) /\ Tail(s) # <<>>
<1>1. Len(s) \in Nat /\ Len(s) # 0
  OBVIOUS
<1>2. PICK q \in Seq(S) : q = Tail(s) /\ Len(q) = Len(s) - 1
  <2>1. Tail(s) \in Seq(S)
    OBVIOUS
  <2>2. Len(Tail(s)) = Len(s) - 1
    BY <1>1
  <2> QED
    BY <2>1, <2>2
<1>3. Len(q) # 0
  BY <1>1, <1>2
<1>4. q # <<>>
  BY <1>3
<1> QED
  BY <1>2, <1>4

LEMMA FinishRunKeeps == ASSUME IInv, FinishRun PROVE IInv'
<1>1. cmd.phase = "finish" /\ cmd.todo # <<>> /\ Loading
  BY DEF FinishRun, At, Loading
<1>2. PICK d \in Datasets : d = Dataset
  BY <1>1, InLoad
<1>3. PICK n \in 1 .. Len(runs) : n = Current
  BY <1>1, InLoad
<1>4. /\ TypeOK /\ cmd \in Command /\ cmd.limit \in Limits /\ runs \in Seq(Run) /\ runs[n] \in Run
      /\ runs[n].dataset = d /\ cmd.todo \in Seq(Datasets)
  BY <1>1, <1>2, <1>3, InLoad DEF IInv, TypeOK
<1>5. PICK W : W = Wanted(d, cmd.limit)
  OBVIOUS
<1>6. PICK r \in Run : r.dataset = d /\ runs' = [runs EXCEPT ![n] = r]
  <2>1. cmd.inserted \in Nat /\ cmd.updated \in Nat
    BY <1>4 DEF Command
  <2> DEFINE q == [runs[n] EXCEPT !.status = "success", !.inserted = cmd.inserted, !.updated = cmd.updated]
  <2>2. q \in Run /\ q.dataset = d
    BY <1>4, <2>1 DEF Run
  <2>3. runs' = [runs EXCEPT ![n] = q]
    BY <1>3, <1>4 DEF FinishRun
  <2> QED
    BY <2>2, <2>3
<1>7. PICK row \in SourceRow : source' = [source EXCEPT ![d] = row]
  <2>1. [status |-> "completed", count |-> cmd.inserted + cmd.updated] \in SourceRow
    BY <1>4 DEF Command, SourceRow
  <2> QED
    BY <1>2, <2>1 DEF FinishRun
<1>8. wanted' = [wanted EXCEPT ![d] = W] /\ UNCHANGED <<file, table, faults, commands>>
  BY <1>2, <1>5 DEF FinishRun
<1>9. cmd' \in Command /\ cmd'.phase \in {"idle", "source"} /\ (cmd'.phase = "idle" <=> cmd'.todo = <<>>)
  <2>1. CASE Len(cmd.todo) = 1
    BY <2>1, IdleIsCommand DEF FinishRun, Idle
  <2>2. CASE Len(cmd.todo) # 1
    <3>1. PICK todo \in Seq(Datasets) : todo = Tail(cmd.todo) /\ todo # <<>>
      BY <1>1, <1>4, <2>2, MoreToDo
    <3>2. cmd' = [Idle EXCEPT !.todo = todo, !.limit = cmd.limit, !.phase = "source"]
      BY <2>2, <3>1 DEF FinishRun
    <3>3. cmd' \in Command /\ cmd'.phase = "source" /\ cmd'.todo = todo
      BY <1>4, <3>2, IdleIsCommand DEF Command, Phases
    <3> QED
      BY <3>1, <3>3
  <2> QED
    BY <2>1, <2>2
<1>10. /\ runs' \in Seq(Run) /\ Len(runs') = Len(runs)
       /\ \A i \in 1 .. Len(runs) : runs'[i].dataset = runs[i].dataset
       /\ \A i \in 1 .. Len(runs) : i # n => runs'[i] = runs[i]
  BY <1>4, <1>6
<1>11. /\ W \in SUBSET (Tables \X {k.key : k \in AllRows})
       /\ \A w \in W :
             \/ \E k \in ToSet(ListOf(d)) : w = <<IF d = "osm" THEN "nodes" ELSE d, k.key>>
             \/ d = "rainfall" /\ \E c \in Read.climatology : w = <<"climatology", c.key>>
             \/ d = "osm" /\ \E s \in ToSet(RoadList) : w = <<"osm", s.key>>
       /\ d = "osm" => /\ \A k \in ToSet(ListOf("osm")) : <<"nodes", k.key>> \in W
                       /\ \A s \in ToSet(RoadList) : <<"osm", s.key>> \in W
  BY <1>4, <1>5, WantedIs DEF ListOf, RoadList
<1>12. TypeOK'
  BY <1>4, <1>7, <1>8, <1>9, <1>10, <1>11 DEF TypeOK
<1>13. OneOpenRun' /\ NothingSkipped'
  BY <1>9 DEF OneOpenRun, NothingSkipped, Loading
<1>14. \A e : RunsOf(e)' = RunsOf(e)
  BY <1>4, <1>10, SameRuns
<1>15. \A t : Keys(t)' = Keys(t)
  BY <1>8 DEF Keys
<1>16. RunsOf(d) # {}
  BY <1>3, <1>4 DEF RunsOf
<1>17. wanted'[d] = W /\ \A e \in Datasets \ {d} : wanted'[e] = wanted[e] /\ source'[e] = source[e]
  BY <1>4, <1>7, <1>8 DEF TypeOK
<1>18. d # "osm" => \A w \in W : w[1] \in {d, "climatology"} /\ w[2] \in Keys(w[1])
  <2> SUFFICES ASSUME d # "osm", NEW w \in W PROVE w[1] \in {d, "climatology"} /\ w[2] \in Keys(w[1])
    OBVIOUS
  <2>1. Arrived(d, ListOf(d)) /\ (d = "rainfall" => \A c \in Read.climatology : c.key \in Keys("climatology"))
    BY <1>1, <1>2 DEF IInv, NothingSkipped
  <2> QED
    BY <1>11, <2>1 DEF Arrived
<1>19. d = "osm" => /\ \A w \in W : w[1] \in {"nodes", "osm"} /\ w[2] \in Keys(w[1])
                    /\ \A t \in {"nodes", "osm"} : \A k \in Keys(t) : <<t, k>> \in W
  <2> SUFFICES ASSUME d = "osm"
               PROVE  /\ \A w \in W : w[1] \in {"nodes", "osm"} /\ w[2] \in Keys(w[1])
                      /\ \A t \in {"nodes", "osm"} : \A k \in Keys(t) : <<t, k>> \in W
    OBVIOUS
  <2>1. /\ Arrived("nodes", ListOf("osm")) /\ Arrived("osm", RoadList)
        /\ Only("nodes", ListOf("osm")) /\ Only("osm", RoadList)
    BY <1>1, <1>2 DEF IInv, NothingSkipped
  <2>2. \A w \in W : w[1] \in {"nodes", "osm"} /\ w[2] \in Keys(w[1])
    BY <1>11, <2>1 DEF Arrived
  <2>3. \A t \in {"nodes", "osm"} : \A k \in Keys(t) : <<t, k>> \in W
    BY <1>11, <2>1 DEF Only
  <2> QED
    BY <2>2, <2>3
<1>20. WantedIsThere'
  BY <1>14, <1>15, <1>16, <1>17, <1>18, <1>19 DEF IInv, WantedIsThere
<1>21. KnowsTheTable'
  BY <1>8, <1>9 DEF IInv, KnowsTheTable
<1>22. RoadsAreWhole'
  <2>1. CASE d = "osm"
    BY <1>15, <1>17, <1>19, <2>1 DEF RoadsAreWhole
  <2>2. CASE d # "osm"
    <3>1. \A i \in RunsOf("osm") : i \in 1 .. Len(runs) /\ i # n
      BY <1>4, <2>2, OwnRuns DEF RunsOf, Current
    <3>2. wanted'["osm"] = wanted["osm"] /\ source'["osm"] = source["osm"]
      BY <1>17, <2>2, DatasetsAre
    <3> QED
      BY <1>4, <1>8, <1>10, <1>12, <1>14, <3>1, <3>2, RoadsStay DEF IInv
  <2> QED
    BY <2>1, <2>2
<1> QED
  BY <1>12, <1>13, <1>20, <1>21, <1>22 DEF IInv
LEMMA AddSubdivisionsKeeps == ASSUME IInv, AddSubdivisions PROVE IInv'
<1>1. cmd.phase = "subdivisions" /\ cmd.todo # <<>> /\ Loading
  BY DEF AddSubdivisions, At, Loading
<1>2. TypeOK /\ cmd \in Command /\ Dataset = "rainfall" /\ Spellings \subseteq AllRows /\ file \in Editions
  BY <1>1, ListedRows DEF IInv, TypeOK, OneOpenRun
<1>3. CASE FailedRun(FALSE) /\ UNCHANGED table
  <2>1. UNCHANGED <<file, table, commands, wanted>> /\ faults' \in Nat
    BY <1>2, <1>3 DEF AddSubdivisions, TypeOK
  <2> QED
    BY <1>1, <1>3, <2>1, FailedKeeps
<1>4. CASE ~ (FailedRun(FALSE) /\ UNCHANGED table)
  <2>1. PICK more : /\ more \subseteq Spellings
                    /\ table' = [table EXCEPT !["subdivisions"] = @ \cup more]
    <3> DEFINE missing == {s \in Read.subdivisions : s.name \notin Keys("subdivisions")}
               more == {[key |-> s.name, content |-> s.normal] : s \in missing}
    <3>1. table' = [table EXCEPT !["subdivisions"] = @ \cup more]
      BY <1>4 DEF AddSubdivisions
    <3>2. more \subseteq Spellings
      <4> DEFINE all == UNION {Contents[e].subdivisions : e \in Editions}
      <4>1. Contents[file].subdivisions \subseteq all
        BY <1>2
      <4>2. Spellings = {[key |-> s.name, content |-> s.normal] : s \in all}
        BY DEF Spellings
      <4> QED
        BY <4>1, <4>2 DEF Read
    <3> QED
      BY <3>1, <3>2
  <2>2. cmd' = [cmd EXCEPT !.phase = "rows"] /\ UNCHANGED <<file, runs, source, faults, commands, wanted>>
    BY <1>4 DEF AddSubdivisions
  <2>3. /\ cmd' \in Command /\ cmd'.todo = cmd.todo /\ cmd'.phase = "rows" /\ cmd'.limit = cmd.limit
        /\ cmd'.rest = cmd.rest /\ cmd'.known = cmd.known
    BY <1>2, <2>2 DEF Command, Phases
  <2>4. {"rainfall", "nodes", "osm", "subdivisions"} \subseteq Tables
    BY DEF Tables
  <2>5. /\ table' \in [Tables -> SUBSET AllRows] /\ table'["subdivisions"] = table["subdivisions"] \cup more
        /\ \A t \in Tables \ {"subdivisions"} : table'[t] = table[t]
    BY <1>2, <2>1, <2>4 DEF TypeOK
  <2>6. Dataset' = "rainfall" /\ Loading' /\ ListOf("rainfall")' = ListOf("rainfall")
    BY <1>2, <2>2, <2>3 DEF Dataset, Loading, ListOf, Records, Read
  <2>7. TypeOK' /\ OneOpenRun' /\ WantedIsThere' /\ RoadsAreWhole'
    <3>1. \A t \in Tables \ {"nodes", "osm"} : table[t] \subseteq table'[t]
      BY <2>5
    <3>2. table'["nodes"] = table["nodes"] /\ table'["osm"] = table["osm"]
      BY <2>4, <2>5
    <3> QED
      BY <1>1, <1>2, <2>2, <2>3, <2>5, <2>6, <3>1, <3>2, LoadGoesOn
  <2>8. NothingSkipped'
    <3>1. Ahead("rainfall", ListOf("rainfall"))
      BY <1>1, <1>2 DEF IInv, NothingSkipped
    <3>2. Keys("rainfall")' = Keys("rainfall")
      BY <2>4, <2>5 DEF Keys
    <3>3. Ahead("rainfall", ListOf("rainfall"))'
      BY <2>3, <2>6, <3>1, <3>2 DEF Ahead
    <3> QED
      BY <2>3, <2>6, <3>3 DEF NothingSkipped
  <2>9. KnowsTheTable'
    BY <1>1, <1>2, <2>1, <2>3, <2>4, <2>5, <2>6 DEF IInv, KnowsTheTable
  <2> QED
    BY <2>7, <2>8, <2>9 DEF IInv
<1> QED
  BY <1>3, <1>4

LEMMA AddClimatologyKeeps == ASSUME IInv, AddClimatology PROVE IInv'
<1>1. cmd.phase = "climatology" /\ cmd.todo # <<>> /\ Loading
  BY DEF AddClimatology, At, Loading
<1>2. TypeOK /\ cmd \in Command /\ Dataset = "rainfall" /\ file \in Editions
  BY <1>1 DEF IInv, TypeOK, OneOpenRun
<1>3. PICK more : /\ more = {c \in Read.climatology : c.key \notin Keys("climatology")}
                  /\ table' = [table EXCEPT !["climatology"] = @ \cup more]
  BY DEF AddClimatology
<1>4. more \subseteq AllRows
  <2> DEFINE all == UNION {Contents[e].climatology : e \in Editions}
  <2>1. Contents[file].climatology \subseteq all
    BY <1>2
  <2>2. all \subseteq AllRows
    BY DEF AllRows
  <2> QED
    BY <1>3, <2>1, <2>2 DEF Read
<1>5. cmd' = [cmd EXCEPT !.phase = "finish"] /\ UNCHANGED <<file, runs, source, faults, commands, wanted>>
  BY DEF AddClimatology
<1>6. cmd' \in Command /\ cmd'.todo = cmd.todo /\ cmd'.phase = "finish" /\ cmd'.limit = cmd.limit
  BY <1>2, <1>5 DEF Command, Phases
<1>7. {"rainfall", "climatology", "nodes", "osm", "subdivisions"} \subseteq Tables
  BY DEF Tables
<1>8. /\ table' \in [Tables -> SUBSET AllRows] /\ table'["climatology"] = table["climatology"] \cup more
      /\ \A t \in Tables \ {"climatology"} : table'[t] = table[t]
  BY <1>2, <1>3, <1>4, <1>7 DEF TypeOK
<1>9. Dataset' = "rainfall" /\ Loading' /\ ListOf("rainfall")' = ListOf("rainfall") /\ Read' = Read
  BY <1>2, <1>5, <1>6 DEF Dataset, Loading, ListOf, Records, Read
<1>10. TypeOK' /\ OneOpenRun' /\ WantedIsThere' /\ RoadsAreWhole'
  <2>1. \A t \in Tables \ {"nodes", "osm"} : table[t] \subseteq table'[t]
    BY <1>8
  <2>2. table'["nodes"] = table["nodes"] /\ table'["osm"] = table["osm"]
    BY <1>7, <1>8
  <2> QED
    BY <1>1, <1>2, <1>5, <1>6, <1>8, <1>9, <2>1, <2>2, LoadGoesOn
<1>11. NothingSkipped'
  <2>1. Arrived("rainfall", ListOf("rainfall"))
    BY <1>1, <1>2 DEF IInv, NothingSkipped
  <2>2. Keys("rainfall")' = Keys("rainfall")
    BY <1>7, <1>8 DEF Keys
  <2>3. Arrived("rainfall", ListOf("rainfall"))'
    BY <1>9, <2>1, <2>2 DEF Arrived
  <2>4. \A c \in Read.climatology : c.key \in Keys("climatology")'
    BY <1>3, <1>8 DEF Keys
  <2> QED
    BY <1>6, <1>9, <2>3, <2>4 DEF NothingSkipped
<1>12. KnowsTheTable'
  BY <1>6, <1>7, <1>8 DEF IInv, KnowsTheTable
<1> QED
  BY <1>10, <1>11, <1>12 DEF IInv

LEMMA ClearRoadsKeeps == ASSUME IInv, ClearRoads PROVE IInv'
<1>1. cmd.phase = "clear" /\ cmd.todo # <<>> /\ Loading
  BY DEF ClearRoads, At, Loading
<1>2. TypeOK /\ cmd \in Command /\ Dataset = "osm"
  BY <1>1 DEF IInv, TypeOK, OneOpenRun
<1>3. cmd' = [cmd EXCEPT !.phase = "nodes"] /\ UNCHANGED <<file, runs, source, faults, commands, wanted>>
  BY DEF ClearRoads
<1>4. /\ cmd' \in Command /\ cmd'.todo = cmd.todo /\ cmd'.phase = "nodes" /\ cmd'.limit = cmd.limit
      /\ cmd'.rest = cmd.rest /\ cmd'.known = cmd.known
  BY <1>2, <1>3 DEF Command, Phases
<1>5. {"nodes", "osm", "subdivisions"} \subseteq Tables
  BY DEF Tables
<1>6. /\ table' \in [Tables -> SUBSET AllRows] /\ table'["nodes"] = {} /\ table'["osm"] = {}
      /\ \A t \in Tables \ {"nodes", "osm"} : table'[t] = table[t]
  BY <1>2, <1>5 DEF TypeOK, ClearRoads
<1>7. Dataset' = "osm" /\ Loading' /\ ListOf("osm")' = ListOf("osm") /\ RoadList' = RoadList
  BY <1>2, <1>3, <1>4 DEF Dataset, Loading, ListOf, RoadList, Records, Read
<1>8. TypeOK' /\ OneOpenRun' /\ WantedIsThere' /\ RoadsAreWhole'
  <2>1. \A t \in Tables \ {"nodes", "osm"} : table[t] \subseteq table'[t]
    BY <1>6
  <2> QED
    BY <1>1, <1>2, <1>3, <1>4, <1>6, <1>7, <2>1, LoadGoesOn
<1>9. NothingSkipped'
  <2>1. cmd.rest = ListOf("osm")
    BY <1>1, <1>2 DEF IInv, NothingSkipped
  <2>2. Keys("nodes")' = {} /\ Keys("osm")' = {}
    BY <1>6 DEF Keys
  <2>3. /\ ToSet(cmd'.rest) \subseteq ToSet(ListOf("osm"))' /\ Ahead("nodes", ListOf("osm"))'
        /\ Only("nodes", ListOf("osm"))' /\ Only("osm", RoadList)'
    BY <1>4, <1>7, <2>1, <2>2 DEF Ahead, Only
  <2> QED
    BY <1>4, <1>7, <2>2, <2>3 DEF NothingSkipped
<1>10. KnowsTheTable'
  BY <1>1, <1>4, <1>5, <1>6 DEF IInv, KnowsTheTable
<1> QED
  BY <1>8, <1>9, <1>10 DEF IInv
LEMMA AddNodesKeeps == ASSUME IInv, AddNodes PROVE IInv'
<1>1. cmd.phase = "nodes" /\ cmd.todo # <<>> /\ Loading
  BY DEF AddNodes, At, Loading
<1>2. TypeOK /\ cmd \in Command /\ Dataset = "osm" /\ file \in Editions /\ cmd.limit \in Limits
  BY <1>1 DEF IInv, TypeOK, OneOpenRun, Command
<1>3. {"nodes", "osm", "subdivisions"} \subseteq Tables
  BY DEF Tables
<1>4. /\ ToSet(cmd.rest) \subseteq ToSet(ListOf("osm")) /\ Keys("osm") = {} /\ Ahead("nodes", ListOf("osm"))
      /\ Only("nodes", ListOf("osm")) /\ Only("osm", RoadList)
  BY <1>1, <1>2 DEF IInv, NothingSkipped
<1>5. CASE Load("nodes")
  <2>1. cmd.known = table["nodes"] /\ LooksUp("nodes")
    BY <1>1 DEF IInv, KnowsTheTable, LooksUp
  <2>2. PICK rest, rows : Loads("nodes", rest, rows)
    BY <1>2, <1>3, <1>5, <2>1, LoadIs DEF Refuses
  <2>3. /\ cmd' \in Command /\ cmd'.todo = cmd.todo /\ cmd'.limit = cmd.limit
        /\ cmd'.phase = "nodes" /\ cmd'.rest = rest /\ cmd'.known = cmd.known \cup rows
        /\ table' \in [Tables -> SUBSET AllRows] /\ table'["nodes"] = table["nodes"] \cup rows
        /\ \A u \in Tables \ {"nodes"} : table'[u] = table[u] /\ Keys(u)' = Keys(u)
        /\ \A list : Ahead("nodes", list) => Ahead("nodes", list)'
        /\ \A list : Only("nodes", list) /\ ToSet(cmd.rest) \subseteq ToSet(list) => Only("nodes", list)'
    BY <1>1, <1>3, <2>2, LoadsFields
  <2>4. UNCHANGED <<file, source, runs, faults, commands, wanted>> /\ ToSet(rest) \subseteq ToSet(cmd.rest)
    BY <2>2 DEF Loads
  <2>5. Dataset' = "osm" /\ Loading' /\ ListOf("osm")' = ListOf("osm") /\ RoadList' = RoadList
    BY <1>2, <2>3, <2>4 DEF Dataset, Loading, ListOf, RoadList, Records, Read
  <2>6. TypeOK' /\ OneOpenRun' /\ WantedIsThere' /\ RoadsAreWhole'
    <3>1. \A t \in Tables \ {"nodes", "osm"} : table[t] \subseteq table'[t]
      BY <2>3
    <3> QED
      BY <1>1, <1>2, <2>3, <2>4, <2>5, <3>1, LoadGoesOn
  <2>7. NothingSkipped'
    <3>1. Keys("osm")' = {}
      BY <1>3, <1>4, <2>3
    <3>2. Ahead("nodes", ListOf("osm"))' /\ Only("nodes", ListOf("osm"))' /\ Only("osm", RoadList)'
      BY <1>4, <2>3, <2>5, <3>1 DEF Ahead, Only
    <3>3. ToSet(cmd'.rest) \subseteq ToSet(ListOf("osm"))'
      BY <1>4, <2>3, <2>4, <2>5
    <3> QED
      BY <2>3, <2>5, <3>1, <3>2, <3>3 DEF NothingSkipped
  <2>8. KnowsTheTable'
    BY <1>3, <2>1, <2>3 DEF IInv, KnowsTheTable
  <2> QED
    BY <2>6, <2>7, <2>8 DEF IInv
<1>6. CASE /\ cmd.rest = <<>>
           /\ cmd' = [cmd EXCEPT !.phase = "rows", !.rest = RoadList]
           /\ UNCHANGED <<file, table, source, runs, faults, commands, wanted>>
  <2>1. RoadList \in Seq(Listed)
    BY <1>2, RecordsAreListed, DatasetsAre DEF RoadList
  <2>2. /\ cmd' \in Command /\ cmd'.todo = cmd.todo /\ cmd'.limit = cmd.limit /\ cmd'.phase = "rows"
        /\ cmd'.rest = RoadList
    <3> HIDE DEF RoadList
    <3> QED
      BY <1>2, <1>6, <2>1 DEF Command, Phases
  <2>3. Dataset' = "osm" /\ Loading' /\ ListOf("osm")' = ListOf("osm") /\ RoadList' = RoadList
    BY <1>2, <1>6, <2>2 DEF Dataset, Loading, ListOf, RoadList, Records, Read
  <2>4. \A t : Keys(t)' = Keys(t)
    BY <1>6 DEF Keys
  <2>5. TypeOK' /\ OneOpenRun' /\ WantedIsThere' /\ RoadsAreWhole'
    BY <1>1, <1>2, <1>6, <2>2, <2>3, LoadGoesOn DEF TypeOK
  <2>6. NothingSkipped'
    <3>1. ToSet(cmd.rest) = {}
      BY <1>6 DEF ToSet
    <3>2. Arrived("nodes", ListOf("osm"))' /\ Only("nodes", ListOf("osm"))' /\ Only("osm", RoadList)'
      BY <1>4, <2>3, <2>4, <3>1 DEF Ahead, Arrived, Only
    <3>3. Ahead("osm", RoadList)' /\ ToSet(cmd'.rest) \subseteq ToSet(RoadList)'
      BY <2>2, <2>3 DEF Ahead
    <3> QED
      BY <2>2, <2>3, <3>2, <3>3 DEF NothingSkipped
  <2>7. KnowsTheTable'
    BY <1>2, <1>6, <2>2, <2>3 DEF IInv, KnowsTheTable
  <2> QED
    BY <2>5, <2>6, <2>7 DEF IInv
<1> QED
  BY <1>5, <1>6 DEF AddNodes, RoadList

LEMMA InitHolds == Init => IInv
<1> SUFFICES ASSUME Init PROVE IInv
  OBVIOUS
<1>1. TypeOK
  BY IdleIsCommand DEF Init, TypeOK
<1>2. cmd.phase = "idle" /\ cmd.todo = <<>>
  BY DEF Init, Idle
<1>3. OneOpenRun /\ NothingSkipped
  BY <1>2 DEF OneOpenRun, NothingSkipped, Loading
<1>4. WantedIsThere /\ RoadsAreWhole
  BY DatasetsAre DEF Init, WantedIsThere, RoadsAreWhole
<1>5. KnowsTheTable
  BY <1>2 DEF Init, KnowsTheTable, Tables
<1> QED
  BY <1>1, <1>3, <1>4, <1>5 DEF IInv

LEMMA StutterKeeps == ASSUME IInv, UNCHANGED vars PROVE IInv'
<1>1. UNCHANGED <<file, table, source, runs, cmd, wanted, faults, commands>>
  BY DEF vars
<1>2. Dataset' = Dataset /\ Loading' = Loading /\ Current' = Current /\ RoadList' = RoadList
      /\ (\A d : ListOf(d)' = ListOf(d)) /\ (\A t : Keys(t)' = Keys(t)) /\ (\A d : RunsOf(d)' = RunsOf(d))
  BY <1>1 DEF Dataset, Loading, Current, RoadList, ListOf, Records, Read, Keys, RunsOf
<1>3. TypeOK' /\ OneOpenRun'
  BY <1>1, <1>2 DEF IInv, TypeOK, OneOpenRun
<1>4. NothingSkipped'
  BY <1>1, <1>2 DEF IInv, NothingSkipped, Ahead, Arrived, Only, Read
<1>5. WantedIsThere' /\ KnowsTheTable' /\ RoadsAreWhole'
  BY <1>1, <1>2 DEF IInv, WantedIsThere, KnowsTheTable, RoadsAreWhole, LastRun
<1> QED
  BY <1>3, <1>4, <1>5 DEF IInv

LEMMA NextKeeps == ASSUME IInv, [Next]_vars PROVE IInv'
<1>1. ASSUME NEW c \in Datasets \cup {"all"}, NEW l \in Limits, Ingest(c, l) PROVE IInv'
  BY <1>1, IngestKeeps
<1>2. ASSUME NEW e \in Editions, Replace(e) PROVE IInv'
  BY <1>2, ReplaceKeeps
<1>3. CASE Steps
  BY <1>3, RegisterKeeps, StartRunKeeps, RowsKeep, FinishRunKeeps, AddSubdivisionsKeeps,
     AddClimatologyKeeps, ClearRoadsKeeps, AddNodesKeeps DEF Steps
<1>4. CASE Struck \/ Killed
  BY <1>4, StruckKeeps, KilledKeeps
<1>5. CASE Rest \/ UNCHANGED vars
  BY <1>5, StutterKeeps DEF Rest
<1> QED
  BY <1>1, <1>2, <1>3, <1>4, <1>5 DEF Next

LEMMA Inductive == Spec => []IInv
<1>1. Init => IInv
  BY InitHolds
<1>2. IInv /\ [Next]_vars => IInv'
  BY NextKeeps
<1> QED
  BY <1>1, <1>2, PTL DEF Spec

-----------------------------------------------------------------------------
(* The theorems.                                                           *)

(* The tables hold what the files held, the sources and the runs are rows  *)
(* of their tables, and the command is one that cli.py can be in.          *)
THEOREM TypeCorrect == Spec => []TypeOK
<1>1. IInv => TypeOK
  BY DEF IInv
<1> QED
  BY <1>1, Inductive, PTL

(* However loads were killed or failed, a dataset that its source and its  *)
(* last run call loaded is in the tables as a whole (runner.py:73-98).     *)
THEOREM PartialLoadCanBeTold == Spec => []PartialLoadIsVisible
<1>1. IInv => PartialLoadIsVisible
  <2> SUFFICES ASSUME IInv, NEW d \in Datasets, source[d] # None, source[d].status = "completed",
                      LastRun(d).status # "running"
               PROVE  /\ \A w \in wanted[d] : w[2] \in Keys(w[1])
                      /\ d = "osm" => \A t \in {"nodes", "osm"} : \A k \in Keys(t) : <<t, k>> \in wanted[d]
    BY DEF PartialLoadIsVisible
  <2>1. CASE d = "osm"
    BY <2>1 DEF IInv, RoadsAreWhole
  <2>2. CASE d # "osm"
    BY <2>2 DEF IInv, WantedIsThere
  <2> QED
    BY <2>1, <2>2
<1> QED
  BY <1>1, Inductive, PTL
(* A run that ends by a failure: struck, or of a dataset that does not look. *)
LEMMA FailedAsAllowed ==
  ASSUME IInv, Loading, RepeatableRunSucceeds, NEW b \in BOOLEAN, FailedRun(b), b \/ Dataset \notin Looked
  PROVE  RepeatableRunSucceeds'
<1>1. TypeOK /\ Current \in 1 .. Len(runs) /\ Dataset \in Datasets /\ runs[Current].dataset = Dataset
      /\ runs \in Seq(Run)
  BY InLoad DEF IInv
<1>2. /\ runs' \in Seq(Run) /\ Len(runs') = Len(runs)
      /\ \A i \in 1 .. Len(runs) : runs'[i].dataset = runs[i].dataset
      /\ \A i \in 1 .. Len(runs) : i # Current => runs'[i] = runs[i]
      /\ runs'[Current].struck = b
  BY <1>1, FailedFields
<1>3. DOMAIN runs' = 1 .. Len(runs) /\ DOMAIN runs = 1 .. Len(runs)
  BY <1>1, <1>2
<1> QED
  BY <1>1, <1>2, <1>3, Zenon DEF RepeatableRunSucceeds

(* A loader that looks is not refused. *)
LEMMA RefusedAsAllowed ==
  ASSUME IInv, SpellingsApart, RepeatableRunSucceeds, Rows \/ AddSubdivisions \/ AddNodes
  PROVE  RepeatableRunSucceeds'
<1>1. Loading /\ TypeOK
  BY DEF Rows, AddSubdivisions, AddNodes, At, Loading, IInv
<1>2. ASSUME UNCHANGED runs PROVE RepeatableRunSucceeds'
  BY <1>2 DEF RepeatableRunSucceeds
<1>3. ASSUME NEW t \in Tables, Load(t), LooksUp(t) => cmd.known = table[t], t \in {"nodes", Dataset}
      PROVE  RepeatableRunSucceeds'
  <2>1. CASE Refuses(t)
    <3>1. Dataset \notin Looked /\ FailedRun(FALSE)
      BY <1>3, <2>1 DEF Refuses, LooksUp, Looked
    <3> QED
      BY <1>1, <3>1, FailedAsAllowed
  <2>2. CASE \E rest, rows : Loads(t, rest, rows)
    BY <1>2, <2>2 DEF Loads
  <2> QED
    BY <1>1, <1>3, <2>1, <2>2, LoadIs
<1>4. CASE Rows
  <2>1. CASE Load(Dataset)
    <3>1. Dataset \in Datasets /\ Dataset \in Tables
      BY <1>1, InLoad
    <3>2. LooksUp(Dataset) => cmd.known = table[Dataset]
      BY <1>4, <3>1, DatasetsAre DEF Rows, At, IInv, KnowsTheTable, LooksUp
    <3> QED
      BY <1>3, <2>1, <3>1, <3>2
  <2>2. CASE ~ Load(Dataset)
    BY <1>2, <1>4, <2>2 DEF Rows, LoopOver
  <2> QED
    BY <2>1, <2>2
<1>5. CASE AddNodes
  <2>1. CASE Load("nodes")
    BY <1>3, <1>5, <2>1 DEF AddNodes, At, IInv, KnowsTheTable, Tables
  <2>2. CASE ~ Load("nodes")
    BY <1>2, <1>5, <2>2 DEF AddNodes
  <2> QED
    BY <2>1, <2>2
<1>6. CASE AddSubdivisions
  <2> DEFINE missing == {s \in Read.subdivisions : s.name \notin Keys("subdivisions")}
             taken == {r.content : r \in table["subdivisions"]}
  <2>1. file \in Editions /\ table["subdivisions"] \subseteq Spellings
    BY <1>1 DEF IInv, TypeOK, KnowsTheTable
  <2>2. ASSUME NEW s \in missing, s.normal \in taken PROVE FALSE
    <3>1. PICK r \in table["subdivisions"] : r.content = s.normal
      BY <2>2
    <3>2. \E e \in Editions : \E u \in Contents[e].subdivisions : r = [key |-> u.name, content |-> u.normal]
      BY <2>1 DEF Spellings
    <3>3. r.key = s.name
      BY <2>1, <3>1, <3>2 DEF SpellingsApart, Read
    <3>4. s.name \in Keys("subdivisions")
      BY <3>3 DEF Keys
    <3> QED
      BY <3>4
  <2>3. ASSUME NEW s \in missing, NEW u \in missing, s # u, s.normal = u.normal PROVE FALSE
    BY <2>1, <2>3 DEF SpellingsApart, Read
  <2>4. UNCHANGED runs
    BY <1>6, <2>2, <2>3 DEF AddSubdivisions
  <2> QED
    BY <1>2, <2>4
<1> QED
  BY <1>4, <1>5, <1>6

LEMMA RepeatableStep ==
  ASSUME IInv, SpellingsApart, RepeatableRunSucceeds, [Next]_vars PROVE RepeatableRunSucceeds'
<1>1. TypeOK /\ runs \in Seq(Run) /\ DOMAIN runs = 1 .. Len(runs)
  BY DEF IInv, TypeOK
<1>2. CASE UNCHANGED runs
  BY <1>2 DEF RepeatableRunSucceeds
<1>3. CASE Rows \/ AddSubdivisions \/ AddNodes
  BY <1>3, RefusedAsAllowed
<1>4. CASE Struck
  <2>1. Loading
    BY <1>4 DEF Struck, Loading, IInv, OneOpenRun
  <2> QED
    BY <1>4, <2>1, FailedAsAllowed DEF Struck
<1>5. CASE StartRun
  <2>1. Dataset \in Datasets
    BY <1>5 DEF StartRun, At, Dataset, IInv, TypeOK, Command
  <2>2. PICK r \in Run : r.status = "running" /\ runs' = Append(runs, r)
    BY <1>5, <2>1 DEF StartRun, NewRun, Run
  <2>3. /\ runs' \in Seq(Run) /\ Len(runs') = Len(runs) + 1 /\ runs'[Len(runs')] = r
        /\ \A i \in 1 .. Len(runs) : runs'[i] = runs[i]
    BY <1>1, <2>2, AppendedRun
  <2>4. ASSUME NEW i \in DOMAIN runs' PROVE i = Len(runs') \/ i \in 1 .. Len(runs)
    BY <1>1, <2>3
  <2> QED
    BY <1>1, <2>2, <2>3, <2>4 DEF RepeatableRunSucceeds
<1>6. CASE FinishRun
  <2>1. Current \in 1 .. Len(runs)
    BY <1>6, InLoad DEF FinishRun, At, Loading
  <2>2. runs' = [runs EXCEPT ![Current] = [@ EXCEPT !.status = "success",
                    !.inserted = cmd.inserted, !.updated = cmd.updated]]
    BY <1>6 DEF FinishRun
  <2>3. DOMAIN runs' = 1 .. Len(runs) /\ \A i \in 1 .. Len(runs) :
          runs'[i] = runs[i] \/ runs'[i].status # "failed"
    BY <1>1, <2>1, <2>2 DEF Run
  <2> QED
    BY <1>1, <2>3 DEF RepeatableRunSucceeds
<1> QED
  BY <1>2, <1>3, <1>4, <1>5, <1>6
  DEF Next, Steps, Ingest, Replace, Register, AddClimatology, ClearRoads, Killed, Rest, vars

(* As long as the editions write a subdivision in one way, a load of the    *)
(* landslides, the rainfall or the roads that nothing strikes is not        *)
(* refused, whatever was loaded, killed or replaced before it               *)
(* (runner.py:119-150, 209-289, 469-567).                                   *)
THEOREM LoadsCanBeRepeated == SpellingsApart => (Spec => []RepeatableRunSucceeds)
<1> SUFFICES ASSUME SpellingsApart PROVE Spec => []RepeatableRunSucceeds
  OBVIOUS
<1>1. Init => RepeatableRunSucceeds
  BY DEF Init, RepeatableRunSucceeds
<1>2. IInv /\ RepeatableRunSucceeds /\ [Next]_vars => RepeatableRunSucceeds'
  BY RepeatableStep
<1> QED
  BY <1>1, <1>2, Inductive, PTL DEF Spec

-----------------------------------------------------------------------------
(* Recursion: what a loop over 0 .. N has computed.                        *)

(* What holds of a number as soon as it holds of the smaller ones holds of  *)
(* every number up to N.                                                   *)
LEMMA AllUpTo ==
  ASSUME NEW N \in Nat, NEW S,
         \A m \in 0 .. N : (\A k \in 0 .. N : k < m => k \in S) => m \in S
  PROVE  \A m \in 0 .. N : m \in S
<1> DEFINE Bad == {m \in 0 .. N : m \notin S}
<1>1. Bad \in SUBSET Nat
  OBVIOUS
<1>2. SUFFICES ASSUME Bad # {} PROVE FALSE
  OBVIOUS
<1>3. PICK m \in Bad : \A k \in Bad : m <= k
  <2> HIDE DEF Bad
  <2> QED
    BY <1>1, <1>2, LeastElement
<1>4. m \in 0 .. N /\ m \notin S
  OBVIOUS
<1>5. ASSUME NEW k \in 0 .. N, k < m PROVE k \in S
  <2>1. ~ (m <= k)
    BY <1>4, <1>5
  <2> QED
    BY <1>3, <2>1
<1> QED
  BY <1>4, <1>5

\* A recursion over 0 .. N that goes back to a smaller number, and its values.
Recursion(N, V, start, prev, step) ==
    /\ N \in Nat /\ start \in V
    /\ prev \in [1 .. N -> Nat] /\ \A m \in 1 .. N : prev[m] < m
    /\ step \in [(1 .. N) \X V -> V]
Values(N, V, start, prev, step) ==
    {g \in [0 .. N -> V] : g[0] = start /\ \A m \in 1 .. N : g[m] = step[<<m, g[prev[m]]>>]}

LEMMA RecursionHasValues ==
  ASSUME NEW N, NEW V, NEW start, NEW prev, NEW step, Recursion(N, V, start, prev, step)
  PROVE  Values(N, V, start, prev, step) # {}
<1> SUFFICES \E g \in [0 .. N -> V] :
                g[0] = start /\ \A m \in 1 .. N : g[m] = step[<<m, g[prev[m]]>>]
  BY DEF Values
<1> USE DEF Recursion
<1> DEFINE Good(g, n) == g[0] = start /\ \A m \in 1 .. n : g[m] = step[<<m, g[prev[m]]>>]
           S == {n \in 0 .. N : \E g \in [0 .. n -> V] : Good(g, n)}
<1>1. ASSUME NEW n \in 0 .. N, \A k \in 0 .. N : k < n => k \in S PROVE n \in S
  <2>1. CASE n = 0
    <3> DEFINE g == [m \in 0 .. 0 |-> start]
    <3>1. g \in [0 .. 0 -> V] /\ Good(g, 0)
      OBVIOUS
    <3> QED
      BY <2>1, <3>1
  <2>2. CASE n # 0
    <3>1. n - 1 \in 0 .. N /\ n - 1 < n /\ n \in 1 .. N
      BY <2>2
    <3>2. PICK g \in [0 .. n - 1 -> V] : Good(g, n - 1)
      <4>1. n - 1 \in S
        BY <1>1, <3>1
      <4> QED
        BY <4>1
    <3> DEFINE h == [m \in 0 .. n |-> IF m = n THEN step[<<n, g[prev[n]]>>] ELSE g[m]]
    <3>3. prev[n] \in 0 .. n - 1
      BY <3>1
    <3>4. step[<<n, g[prev[n]]>>] \in V
      <4>1. g[prev[n]] \in V
        BY <3>3
      <4> QED
        BY <3>1, <4>1
    <3>5. ASSUME NEW m \in 0 .. n, m # n PROVE m \in 0 .. n - 1 /\ h[m] = g[m]
      BY <3>5
    <3>6. h[n] = step[<<n, g[prev[n]]>>]
      BY <3>1
    <3>7. h \in [0 .. n -> V]
      <4>1. ASSUME NEW m \in 0 .. n PROVE (IF m = n THEN step[<<n, g[prev[n]]>>] ELSE g[m]) \in V
        <5>1. CASE m = n
          BY <3>4, <5>1
        <5>2. CASE m # n
          BY <3>5, <5>2
        <5> QED
          BY <5>1, <5>2
      <4> QED
        BY <4>1
    <3> HIDE DEF h
    <3>8. ASSUME NEW m \in 1 .. n PROVE h[m] = step[<<m, h[prev[m]]>>]
      <4>1. prev[m] \in 0 .. n /\ prev[m] # n
        <5>1. m \in 1 .. N
          BY <3>1
        <5> QED
          BY <5>1, <3>1
      <4>2. h[prev[m]] = g[prev[m]]
        BY <3>5, <4>1
      <4>3. CASE m = n
        BY <3>6, <4>2, <4>3
      <4>4. CASE m # n
        <5>1. m \in 1 .. n - 1 /\ m \in 0 .. n
          BY <3>1, <4>4
        <5>2. g[m] = step[<<m, g[prev[m]]>>]
          BY <3>2, <5>1
        <5> QED
          BY <3>5, <4>2, <4>4, <5>1, <5>2
      <4> QED
        BY <4>3, <4>4
    <3>9. h[0] = start
      <4>1. 0 \in 0 .. n /\ 0 # n
        BY <3>1
      <4> QED
        BY <3>2, <3>5, <4>1
    <3>10. Good(h, n)
      BY <3>8, <3>9
    <3> QED
      BY <3>7, <3>10
  <2> QED
    BY <2>1, <2>2
<1> HIDE DEF S
<1>2. N \in S
  <2>1. N \in 0 .. N
    OBVIOUS
  <2>2. \A n \in 0 .. N : (\A k \in 0 .. N : k < n => k \in S) => n \in S
    BY <1>1
  <2>3. \A n \in 0 .. N : n \in S
    BY <2>2, AllUpTo
  <2> QED
    BY <2>1, <2>3
<1> QED
  BY <1>2 DEF S

-----------------------------------------------------------------------------
(* The varint reader.                                                      *)

Places == [done : Seq(Nat), value : Nat, unit : Nat]

LEMMA NextByteIsPlace ==
  ASSUME NEW at \in Places, NEW b \in Nat PROVE NextByte(at, b) \in Places
<1>1. b % 128 \in Nat
  OBVIOUS
<1>2. at.value + (b % 128) * at.unit \in Nat /\ at.unit * 128 \in Nat
  <2>1. \A x, y \in Nat : x * y \in Nat
    OBVIOUS
  <2>2. (b % 128) * at.unit \in Nat /\ at.value \in Nat /\ at.unit \in Nat
    BY <1>1, <2>1 DEF Places
  <2> QED
    BY <2>2
<1>3. Append(at.done, at.value + (b % 128) * at.unit) \in Seq(Nat)
  BY <1>2 DEF Places
<1> QED
  BY <1>2, <1>3 DEF NextByte, Places

Start == [done |-> <<>>, value |-> 0, unit |-> 1]

(* Where the reader stands: at the start, then a byte further.             *)
LEMMA ReaderSteps ==
  ASSUME NEW s \in Seq(Nat)
  PROVE  \E at \in [0 .. Len(s) -> Places] :
            /\ at[0] = Start /\ \A p \in 1 .. Len(s) : at[p] = NextByte(at[p - 1], s[p])
            /\ Reader(s) = at[Len(s)]
<1> DEFINE N == Len(s)
           Body(g) == [p \in 0 .. N |-> IF p = 0 THEN [done |-> <<>>, value |-> 0, unit |-> 1]
                                        ELSE NextByte(g[p - 1], s[p])]
           at == CHOOSE g : g = Body(g)
<1>1. N \in Nat /\ \A p \in 1 .. N : s[p] \in Nat
  OBVIOUS
<1>2. Reader(s) = at[N]
  BY DEF Reader
<1>3. Start \in Places
  BY DEF Start, Places
<1> HIDE DEF N
<1>4. \E g : g = Body(g)
  <2> DEFINE prev == [m \in 1 .. N |-> m - 1]
             step == [x \in (1 .. N) \X Places |-> NextByte(x[2], s[x[1]])]
  <2>1. prev \in [1 .. N -> Nat] /\ \A m \in 1 .. N : prev[m] < m
    BY <1>1
  <2>2. step \in [(1 .. N) \X Places -> Places]
    BY <1>1, NextByteIsPlace
  <2>3. \A m \in 1 .. N, v \in Places : step[<<m, v>>] = NextByte(v, s[m])
    OBVIOUS
  <2>4. \A m \in 1 .. N : prev[m] = m - 1
    OBVIOUS
  <2> HIDE DEF prev, step
  <2>5. PICK g \in [0 .. N -> Places] :
           g[0] = Start /\ \A m \in 1 .. N : g[m] = step[<<m, g[prev[m]]>>]
    <3>1. Recursion(N, Places, Start, prev, step)
      BY <1>1, <1>3, <2>1, <2>2 DEF Recursion
    <3>2. Values(N, Places, Start, prev, step) # {}
      BY <3>1, RecursionHasValues, Zenon
    <3> QED
      BY <3>2 DEF Values
  <2>6. ASSUME NEW p \in 0 .. N PROVE g[p] = IF p = 0 THEN Start ELSE NextByte(g[p - 1], s[p])
    <3>1. CASE p = 0
      BY <2>5, <3>1
    <3>2. CASE p # 0
      <4>1. p \in 1 .. N /\ p - 1 \in 0 .. N
        BY <1>1, <3>2
      <4>2. g[p] = step[<<p, g[p - 1]>>] /\ g[p - 1] \in Places
        BY <2>4, <2>5, <4>1
      <4> QED
        BY <2>3, <3>2, <4>1, <4>2
    <3> QED
      BY <3>1, <3>2
  <2>7. g = [p \in 0 .. N |-> IF p = 0 THEN Start ELSE NextByte(g[p - 1], s[p])]
    BY <2>6
  <2> QED
    BY <2>7 DEF Start
<1>5. at = Body(at)
  <2> HIDE DEF Body
  <2> QED
    BY <1>4, Zenon
<1> HIDE DEF at
<1>6. at[0] = Start /\ \A p \in 1 .. N : at[p] = NextByte(at[p - 1], s[p])
  BY <1>1, <1>5 DEF Start
<1>7. \A p \in 0 .. N : at[p] \in Places
  <2> DEFINE S == {p \in 0 .. N : at[p] \in Places}
  <2>1. ASSUME NEW p \in 0 .. N, \A k \in 0 .. N : k < p => k \in S PROVE p \in S
    <3>1. CASE p = 0
      BY <1>3, <1>6, <3>1
    <3>2. CASE p # 0
      <4>1. p \in 1 .. N /\ p - 1 \in 0 .. N /\ p - 1 < p
        BY <1>1, <3>2
      <4>2. p - 1 \in S
        BY <2>1, <4>1
      <4> QED
        BY <1>1, <1>6, <4>1, <4>2, NextByteIsPlace
    <3> QED
      BY <3>1, <3>2
  <2>2. \A p \in 0 .. N : p \in S
    <3> HIDE DEF S
    <3> QED
      BY <1>1, <2>1, AllUpTo
  <2> QED
    BY <2>2
<1>8. at \in [0 .. N -> Places]
  <2>1. at = [p \in 0 .. N |-> at[p]]
    BY <1>5
  <2> QED
    BY <1>7, <2>1
<1> QED
  BY <1>2, <1>6, <1>8 DEF N

LEMMA ReaderAppends ==
  ASSUME NEW s \in Seq(Nat), NEW b \in Nat
  PROVE  /\ Reader(s) \in Places /\ Reader(<<>>) = Start
         /\ Reader(Append(s, b)) = NextByte(Reader(s), b)
<1> DEFINE N == Len(s)
           t == Append(s, b)
<1>1. /\ N \in Nat /\ t \in Seq(Nat) /\ Len(t) = N + 1 /\ t[N + 1] = b
      /\ \A p \in 1 .. N : t[p] = s[p]
  OBVIOUS
<1>2. PICK at \in [0 .. N -> Places] :
         /\ at[0] = Start /\ \A p \in 1 .. N : at[p] = NextByte(at[p - 1], s[p])
         /\ Reader(s) = at[N]
  BY ReaderSteps
<1> HIDE DEF t
<1>3. PICK au \in [0 .. N + 1 -> Places] :
         /\ au[0] = Start /\ \A p \in 1 .. N + 1 : au[p] = NextByte(au[p - 1], t[p])
         /\ Reader(t) = au[N + 1]
  BY <1>1, ReaderSteps
<1> HIDE DEF N
<1> DEFINE S == {p \in 0 .. N : au[p] = at[p]}
<1>4. ASSUME NEW p \in 0 .. N, \A k \in 0 .. N : k < p => k \in S PROVE p \in S
  <2>1. CASE p = 0
    BY <1>2, <1>3, <2>1
  <2>2. CASE p # 0
    <3>1. p \in 1 .. N /\ p - 1 \in 0 .. N /\ p - 1 < p /\ p \in 1 .. N + 1
      BY <1>1, <2>2
    <3>2. au[p - 1] = at[p - 1]
      BY <1>4, <3>1
    <3> QED
      BY <1>1, <1>2, <1>3, <3>1, <3>2
  <2> QED
    BY <2>1, <2>2
<1>5. au[N] = at[N]
  <2> HIDE DEF S
  <2>1. \A p \in 0 .. N : p \in S
    BY <1>1, <1>4, AllUpTo
  <2>2. N \in S
    BY <1>1, <2>1
  <2> QED
    BY <2>2 DEF S
<1>6. Reader(t) = NextByte(Reader(s), b)
  <2>1. N + 1 \in 1 .. N + 1 /\ (N + 1) - 1 = N
    BY <1>1
  <2> QED
    BY <1>1, <1>2, <1>3, <1>5, <2>1
<1>7. Reader(s) \in Places
  BY <1>1, <1>2
<1>8. Reader(<<>>) = Start
  <2>1. <<>> \in Seq(Nat) /\ Len(<<>>) = 0
    OBVIOUS
  <2> QED
    BY <2>1, ReaderSteps
<1> QED
  BY <1>6, <1>7, <1>8 DEF t

-----------------------------------------------------------------------------
(* Varints.                                                                *)

Group(m, rest) == IF m < 128 THEN <<m>> ELSE <<128 + (m % 128)>> \o rest
Bytes(g, n) == [m \in 0 .. n |-> Group(m, g[m \div 128])]

LEMMA Groups ==
  ASSUME NEW n \in Nat
  PROVE  /\ n \div 128 \in Nat /\ n % 128 \in Nat /\ n % 128 < 128
         /\ n = 128 * (n \div 128) + (n % 128)
         /\ n >= 128 => n \div 128 < n
         /\ n < 128 => n % 128 = n
<1>1. n \div 128 \in Nat /\ n % 128 \in Nat /\ n % 128 < 128
  OBVIOUS
<1>2. n = 128 * (n \div 128) + (n % 128)
  OBVIOUS
<1>3. n >= 128 => n \div 128 < n
  OBVIOUS
<1>4. n < 128 => n % 128 = n
  OBVIOUS
<1> QED
  BY <1>1, <1>2, <1>3, <1>4

LEMMA OneByte ==
  ASSUME NEW n \in Nat, NEW w
  PROVE  /\ n < 128 => Group(n, w) = <<n>> /\ Group(n, w) \in Seq(Nat)
         /\ n >= 128 => Group(n, w) = <<128 + (n % 128)>> \o w
         /\ w \in Seq(Nat) => Group(n, w) \in Seq(Nat)
<1>1. n < 128 => Group(n, w) = <<n>> /\ Group(n, w) \in Seq(Nat)
  BY DEF Group
<1>2. n >= 128 => Group(n, w) = <<128 + (n % 128)>> \o w
  BY DEF Group
<1>3. ASSUME w \in Seq(Nat), n >= 128 PROVE Group(n, w) \in Seq(Nat)
  <2>1. 128 + (n % 128) \in Nat
    BY Groups
  <2>2. \A b \in Nat : <<b>> \o w \in Seq(Nat)
    BY <1>3
  <2> QED
    BY <1>2, <1>3, <2>1, <2>2
<1> QED
  BY <1>1, <1>2, <1>3

LEMMA BytesHaveValues ==
  ASSUME NEW n \in Nat
  PROVE  \E g \in [0 .. n -> Seq(Nat)] : g = Bytes(g, n) /\ Varint(n) = g[n]
<1> DEFINE at == CHOOSE g : g = Bytes(g, n)
           N == n
<1>1. Varint(n) = at[n]
  BY DEF Varint, Bytes, Group
<1>2. \E g : g = Bytes(g, n)
  <2> DEFINE prev == [m \in 1 .. N |-> IF m < 128 THEN 0 ELSE m \div 128]
             step == [x \in (1 .. N) \X Seq(Nat) |-> Group(x[1], x[2])]
  <2>1. prev \in [1 .. N -> Nat] /\ \A m \in 1 .. N : prev[m] < m
    BY Groups
  <2>2. step \in [(1 .. N) \X Seq(Nat) -> Seq(Nat)]
    <3>1. ASSUME NEW x \in (1 .. N) \X Seq(Nat) PROVE Group(x[1], x[2]) \in Seq(Nat)
      <4>1. x[1] \in Nat /\ x[2] \in Seq(Nat)
        OBVIOUS
      <4> QED
        BY <4>1, OneByte, Zenon
    <3> QED
      BY <3>1
  <2>3. <<0>> \in Seq(Nat)
    OBVIOUS
  <2>4. \A m \in 1 .. N, v \in Seq(Nat) :
           step[<<m, v>>] = Group(m, v)
    OBVIOUS
  <2>5. \A m \in 1 .. N : m >= 128 => prev[m] = m \div 128
    OBVIOUS
  <2> HIDE DEF prev, step
  <2>6. PICK g \in [0 .. N -> Seq(Nat)] :
           g[0] = <<0>> /\ \A m \in 1 .. N : g[m] = step[<<m, g[prev[m]]>>]
    <3>1. Recursion(N, Seq(Nat), <<0>>, prev, step)
      BY <2>1, <2>2, <2>3 DEF Recursion
    <3>2. Values(N, Seq(Nat), <<0>>, prev, step) # {}
      BY <3>1, RecursionHasValues, Zenon
    <3> QED
      BY <3>2 DEF Values
  <2>7. ASSUME NEW m \in 0 .. N
        PROVE g[m] = Group(m, g[m \div 128])
    <3>1. CASE m = 0
      <4>1. Group(0, g[0 \div 128]) = <<0>>
        <5>1. 0 \in Nat /\ 0 < 128
          OBVIOUS
        <5> QED
          BY <5>1, OneByte, Zenon
      <4> QED
        BY <2>6, <3>1, <4>1, Zenon
    <3>2. CASE m # 0
      <4>1. m \in 1 .. N /\ prev[m] \in 0 .. N
        BY <2>1, <3>2
      <4>2. g[m] = step[<<m, g[prev[m]]>>] /\ g[prev[m]] \in Seq(Nat)
        BY <2>6, <4>1
      <4>3. g[m] = Group(m, g[prev[m]])
        BY <2>4, <4>1, <4>2
      <4>4. CASE m < 128
        <5>1. m \in Nat
          OBVIOUS
        <5>2. Group(m, g[prev[m]]) = <<m>> /\ Group(m, g[m \div 128]) = <<m>>
          BY <4>4, <5>1, OneByte, Zenon
        <5> QED
          BY <4>3, <5>2, Zenon
      <4>5. CASE m >= 128
        <5>1. prev[m] = m \div 128
          BY <2>5, <4>1, <4>5
        <5> QED
          BY <4>3, <5>1, Zenon
      <4> QED
        BY <4>1, <4>4, <4>5
    <3> QED
      BY <3>1, <3>2
  <2>8. g = [m \in 0 .. N |-> Group(m, g[m \div 128])]
    BY <2>7
  <2> QED
    BY <2>8 DEF Bytes
<1>3. at = Bytes(at, n)
  BY <1>2, Zenon
<1> HIDE DEF at
<1>4. ASSUME NEW m \in 0 .. n
      PROVE at[m] = Group(m, at[m \div 128])
  BY <1>3 DEF Bytes
<1>5. \A m \in 0 .. n : at[m] \in Seq(Nat)
  <2> DEFINE S == {m \in 0 .. n : at[m] \in Seq(Nat)}
  <2>1. ASSUME NEW m \in 0 .. n, \A k \in 0 .. n : k < m => k \in S PROVE m \in S
    <3>1. PICK w : w = at[m \div 128]
      OBVIOUS
    <3>2. m \in Nat /\ at[m] = Group(m, w)
      BY <1>4, <3>1
    <3>3. CASE m < 128
      <4>1. m \in Nat
        OBVIOUS
      <4>2. Group(m, w) \in Seq(Nat)
        <5> HIDE DEF S, at
        <5> QED
          BY <3>3, <4>1, OneByte, Zenon
      <4> QED
        BY <3>2, <4>2
    <3>4. CASE m >= 128
      <4>1. m \div 128 \in 0 .. n /\ m \div 128 < m
        BY <3>4, Groups
      <4>2. w \in Seq(Nat)
        BY <2>1, <3>1, <4>1
      <4> QED
        BY <3>2, <4>2, OneByte
    <3> QED
      BY <3>2, <3>3, <3>4
  <2> HIDE DEF S
  <2>2. \A m \in 0 .. n : m \in S
    BY <2>1, AllUpTo, Zenon
  <2> QED
    BY <2>2 DEF S
<1>6. at \in [0 .. n -> Seq(Nat)]
  <2>1. at = [m \in 0 .. n |-> at[m]]
    BY <1>3 DEF Bytes
  <2> QED
    BY <1>5, <2>1
<1> QED
  BY <1>1, <1>3, <1>6

(* A varint is its low seven bits and the varint of the rest.              *)
LEMMA VarintIs ==
  ASSUME NEW n \in Nat
  PROVE  /\ Varint(n) \in Seq(Nat)
         /\ n < 128 => Varint(n) = <<n>>
         /\ n >= 128 => Varint(n) = <<128 + (n % 128)>> \o Varint(n \div 128)
<1>1. PICK g \in [0 .. n -> Seq(Nat)] : g = Bytes(g, n) /\ Varint(n) = g[n]
  BY BytesHaveValues
<1>2. ASSUME NEW m \in 0 .. n
      PROVE g[m] = Group(m, g[m \div 128])
  BY <1>1 DEF Bytes
<1>3. n >= 128 => g[n \div 128] = Varint(n \div 128)
  <2> SUFFICES ASSUME n >= 128 PROVE g[n \div 128] = Varint(n \div 128)
    OBVIOUS
  <2>1. PICK k \in Nat : k = n \div 128
    BY Groups
  <2>2. k < n
    BY <2>1, Groups
  <2>3. PICK h \in [0 .. k -> Seq(Nat)] : h = Bytes(h, k) /\ Varint(k) = h[k]
    BY BytesHaveValues
  <2>4. ASSUME NEW m \in 0 .. k
        PROVE h[m] = Group(m, h[m \div 128])
    BY <2>3 DEF Bytes
  <2> DEFINE S == {m \in 0 .. k : g[m] = h[m]}
  <2>5. ASSUME NEW m \in 0 .. k, \A j \in 0 .. k : j < m => j \in S PROVE m \in S
    <3>1. m \in 0 .. n
      BY <2>2
    <3>2. CASE m < 128
      <4>1. m \in Nat /\ g[m] = Group(m, g[m \div 128]) /\ h[m] = Group(m, h[m \div 128])
        BY <1>2, <2>4, <3>1
      <4>2. g[m] = <<m>> /\ h[m] = <<m>>
        BY <3>2, <4>1, OneByte, Zenon
      <4> QED
        BY <4>2
    <3>3. CASE m >= 128
      <4>1. m \div 128 \in 0 .. k /\ m \div 128 < m
        BY <3>3, Groups
      <4>2. g[m \div 128] = h[m \div 128]
        BY <2>5, <4>1
      <4> QED
        BY <1>2, <2>4, <3>1, <3>3, <4>2
    <3> QED
      BY <3>2, <3>3
  <2> HIDE DEF S
  <2>6. \A m \in 0 .. k : m \in S
    BY <2>5, AllUpTo, Zenon
  <2>7. k \in S
    BY <2>6
  <2> QED
    BY <2>1, <2>3, <2>7 DEF S
<1>4. Varint(n) = Group(n, g[n \div 128]) /\ Varint(n) \in Seq(Nat)
  <2>1. n \in 0 .. n
    OBVIOUS
  <2> QED
    BY <1>1, <1>2, <2>1
<1>5. n < 128 => Varint(n) = <<n>>
  BY <1>4, OneByte, Zenon
<1>6. n >= 128 => Varint(n) = <<128 + (n % 128)>> \o Varint(n \div 128)
  <2>1. ASSUME n >= 128 PROVE Group(n, g[n \div 128]) = <<128 + (n % 128)>> \o g[n \div 128]
    BY <2>1, OneByte, Zenon
  <2> QED
    BY <1>3, <1>4, <2>1, Zenon
<1> QED
  BY <1>4, <1>5, <1>6

-----------------------------------------------------------------------------

(* The arithmetic of one byte more.                                        *)
LEMMA OneByteMore ==
  ASSUME NEW n \in Nat, NEW q \in Nat, NEW r \in Nat, n = 128 * q + r, NEW v \in Nat, NEW u \in Nat
  PROVE  (v + r * u) + q * (u * 128) = v + n * u
<1>1. n * u = (128 * q + r) * u
  OBVIOUS
<1>2. (128 * q + r) * u = q * (u * 128) + r * u
  OBVIOUS
<1>3. r * u \in Nat /\ q * (u * 128) \in Nat /\ n * u \in Nat
  OBVIOUS
<1> QED
  BY <1>1, <1>2, <1>3

(* What the reader makes of a varint: the number, added to what it holds.  *)
ReadsAs(n, s) ==
    LET at == Reader(s)
    IN  Reader(s \o Varint(n)) = [done |-> Append(at.done, at.value + n * at.unit),
                                  value |-> 0, unit |-> 1]

LEMMA VarintIsRead ==
  ASSUME NEW N \in Nat, NEW s \in Seq(Nat) PROVE ReadsAs(N, s)
<1> DEFINE S == {n \in 0 .. N : \A t \in Seq(Nat) : ReadsAs(n, t)}
<1>1. ASSUME NEW n \in 0 .. N, \A k \in 0 .. N : k < n => k \in S PROVE n \in S
  <2>1. SUFFICES ASSUME NEW t \in Seq(Nat) PROVE ReadsAs(n, t)
    OBVIOUS
  <2>2. PICK at \in Places : at = Reader(t)
    BY ReaderAppends
  <2>3. n \in Nat /\ at.done \in Seq(Nat) /\ at.value \in Nat /\ at.unit \in Nat
    BY DEF Places
  <2>4. CASE n < 128
    <3>1. t \o Varint(n) = Append(t, n)
      <4>1. Varint(n) = <<n>>
        BY <2>3, <2>4, VarintIs, Zenon
      <4>2. t \o <<n>> = Append(t, n)
        BY <2>3
      <4> QED
        BY <4>1, <4>2
    <3>2. Reader(Append(t, n)) = NextByte(at, n)
      BY <2>2, <2>3, ReaderAppends
    <3>3. n % 128 = n /\ ~ (n >= 128)
      BY <2>3, <2>4, Groups
    <3>4. NextByte(at, n) = [done |-> Append(at.done, at.value + n * at.unit), value |-> 0, unit |-> 1]
      BY <3>3, Zenon DEF NextByte
    <3> QED
      BY <2>2, <3>1, <3>2, <3>4, Zenon DEF ReadsAs
  <2>5. CASE n >= 128
    <3>1. PICK q \in Nat, r \in Nat : q = n \div 128 /\ r = n % 128
      BY <2>3, Groups
    <3>2. q < n /\ r < 128 /\ n = 128 * q + r
      BY <2>3, <2>5, <3>1, Groups
    <3> DEFINE b == 128 + r
               more == Append(t, b)
    <3>3. b \in Nat /\ b >= 128 /\ b % 128 = r
      BY <3>2
    <3>4. t \o Varint(n) = more \o Varint(q)
      <4>1. Varint(n) = <<b>> \o Varint(q) /\ Varint(q) \in Seq(Nat)
        BY <2>3, <2>5, <3>1, VarintIs
      <4>2. ASSUME NEW w \in Seq(Nat) PROVE t \o (<<b>> \o w) = Append(t, b) \o w
        BY <3>3
      <4> QED
        BY <4>1, <4>2
    <3> HIDE DEF b
    <3>5. Reader(more) = NextByte(at, b) /\ more \in Seq(Nat)
      BY <2>2, <3>3, ReaderAppends
    <3>6. NextByte(at, b) = [done |-> at.done, value |-> at.value + r * at.unit, unit |-> at.unit * 128]
      BY <2>3, <3>3 DEF NextByte
    <3>7. ReadsAs(q, more)
      <4>1. q \in 0 .. N /\ q < n
        BY <3>2
      <4>2. q \in S
        BY <1>1, <4>1
      <4> QED
        BY <3>5, <4>2
    <3>8. Reader(more \o Varint(q)) =
             [done |-> Append(at.done, (at.value + r * at.unit) + q * (at.unit * 128)),
              value |-> 0, unit |-> 1]
      <4> DEFINE place == [done |-> at.done, value |-> at.value + r * at.unit, unit |-> at.unit * 128]
      <4>1. Reader(more) = place
        BY <3>5, <3>6
      <4>2. /\ place.done = at.done /\ place.value = at.value + r * at.unit
            /\ place.unit = at.unit * 128
        OBVIOUS
      <4>3. Reader(more \o Varint(q)) =
               [done |-> Append(Reader(more).done, Reader(more).value + q * Reader(more).unit),
                value |-> 0, unit |-> 1]
        BY <3>7 DEF ReadsAs
      <4> HIDE DEF place
      <4> QED
        BY <4>1, <4>2, <4>3, Zenon
    <3>9. (at.value + r * at.unit) + q * (at.unit * 128) = at.value + n * at.unit
      BY <2>3, <3>2, OneByteMore
    <3> QED
      BY <2>2, <3>4, <3>8, <3>9 DEF ReadsAs
  <2> QED
    BY <2>3, <2>4, <2>5
<1>2. N \in S
  <2> HIDE DEF S
  <2>1. \A n \in 0 .. N : n \in S
    BY <1>1, AllUpTo, Zenon
  <2> QED
    BY <2>1
<1> QED
  BY <1>2

LEMMA ZigZagUndone ==
  ASSUME NEW n \in Int PROVE ZigZagged(n) \in Nat /\ ZigZag(ZigZagged(n)) = n
<1>1. CASE n >= 0
  <2>1. ZigZagged(n) = 2 * n /\ (2 * n) % 2 = 0 /\ (2 * n) \div 2 = n
    BY <1>1 DEF ZigZagged
  <2> QED
    BY <1>1, <2>1 DEF ZigZag
<1>2. CASE n < 0
  <2>1. ZigZagged(n) = -2 * n - 1 /\ ZigZagged(n) \in Nat
    BY <1>2 DEF ZigZagged
  <2>2. PICK k \in Nat : k = -n - 1
    BY <1>2
  <2>3. ZigZagged(n) = 2 * k + 1 /\ n = -k - 1
    BY <2>1, <2>2
  <2>4. (2 * k + 1) % 2 = 1 /\ (2 * k + 1) \div 2 = k
    OBVIOUS
  <2>5. ZigZag(2 * k + 1) = -k - 1
    BY <2>4 DEF ZigZag
  <2> QED
    BY <2>1, <2>3, <2>5
<1> QED
  BY <1>1, <1>2

LEMMA DeltasAre ==
  ASSUME NEW ids \in Seq(Int)
  PROVE  /\ Deltas(ids) \in Seq(Nat) /\ Len(Deltas(ids)) = Len(ids)
         /\ \A i \in 1 .. Len(ids) :
               ZigZag(Deltas(ids)[i]) = IF i = 1 THEN ids[i] ELSE ids[i] - ids[i - 1]
<1> DEFINE d(i) == IF i = 1 THEN ids[i] ELSE ids[i] - ids[i - 1]
           N == Len(ids)
<1>1. N \in Nat /\ \A i \in 1 .. N : d(i) \in Int
  OBVIOUS
<1>2. Deltas(ids) = [i \in 1 .. N |-> ZigZagged(d(i))]
  BY DEF Deltas
<1> HIDE DEF d, N
<1>3. \A i \in 1 .. N : ZigZagged(d(i)) \in Nat /\ ZigZag(ZigZagged(d(i))) = d(i)
  BY <1>1, ZigZagUndone
<1>4. Deltas(ids) \in Seq(Nat) /\ Len(Deltas(ids)) = N
  BY <1>1, <1>2, <1>3
<1>5. \A i \in 1 .. N : ZigZag(Deltas(ids)[i]) = d(i)
  BY <1>2, <1>3
<1> QED
  BY <1>4, <1>5 DEF d, N

(* What is written after so many of the numbers.                           *)
LEMMA EncodedSteps ==
  ASSUME NEW ids \in Seq(Int)
  PROVE  \E w \in [0 .. Len(ids) -> Seq(Nat)] :
            /\ w[0] = <<>> /\ \A i \in 1 .. Len(ids) : w[i] = w[i - 1] \o Varint(Deltas(ids)[i])
            /\ Encoded(ids) = w[Len(ids)]
<1> DEFINE N == Len(ids)
           Body(g) == [i \in 0 .. N |-> IF i = 0 THEN <<>> ELSE g[i - 1] \o Varint(Deltas(ids)[i])]
           w == CHOOSE g : g = Body(g)
<1>1. N \in Nat
  OBVIOUS
<1>2. Encoded(ids) = w[N]
  BY DEF Encoded
<1>3. \A i \in 1 .. N : Varint(Deltas(ids)[i]) \in Seq(Nat)
  <2>1. ASSUME NEW i \in 1 .. N PROVE Deltas(ids)[i] \in Nat
    BY DeltasAre
  <2> QED
    BY <2>1, VarintIs
<1>4. <<>> \in Seq(Nat)
  OBVIOUS
<1> HIDE DEF N
<1>5. \E g : g = Body(g)
  <2> DEFINE prev == [m \in 1 .. N |-> m - 1]
             step == [x \in (1 .. N) \X Seq(Nat) |-> x[2] \o Varint(Deltas(ids)[x[1]])]
  <2>1. prev \in [1 .. N -> Nat] /\ \A m \in 1 .. N : prev[m] < m
    BY <1>1
  <2>2. step \in [(1 .. N) \X Seq(Nat) -> Seq(Nat)]
    <3>1. ASSUME NEW x \in (1 .. N) \X Seq(Nat) PROVE x[2] \o Varint(Deltas(ids)[x[1]]) \in Seq(Nat)
      <4>1. x[1] \in 1 .. N /\ x[2] \in Seq(Nat)
        OBVIOUS
      <4> QED
        BY <1>3, <4>1
    <3> QED
      BY <3>1
  <2>3. \A m \in 1 .. N, v \in Seq(Nat) : step[<<m, v>>] = v \o Varint(Deltas(ids)[m])
    OBVIOUS
  <2>4. \A m \in 1 .. N : prev[m] = m - 1
    OBVIOUS
  <2> HIDE DEF prev, step
  <2>5. PICK g \in [0 .. N -> Seq(Nat)] :
           g[0] = <<>> /\ \A m \in 1 .. N : g[m] = step[<<m, g[prev[m]]>>]
    <3>1. Recursion(N, Seq(Nat), <<>>, prev, step)
      BY <1>1, <1>4, <2>1, <2>2 DEF Recursion
    <3>2. Values(N, Seq(Nat), <<>>, prev, step) # {}
      BY <3>1, RecursionHasValues, Zenon
    <3> QED
      BY <3>2 DEF Values
  <2>6. ASSUME NEW i \in 0 .. N PROVE g[i] = IF i = 0 THEN <<>> ELSE g[i - 1] \o Varint(Deltas(ids)[i])
    <3>1. CASE i = 0
      BY <2>5, <3>1
    <3>2. CASE i # 0
      <4>1. i \in 1 .. N /\ i - 1 \in 0 .. N
        BY <1>1, <3>2
      <4>2. g[i] = step[<<i, g[i - 1]>>] /\ g[i - 1] \in Seq(Nat)
        BY <2>4, <2>5, <4>1
      <4> QED
        BY <2>3, <3>2, <4>1, <4>2
    <3> QED
      BY <3>1, <3>2
  <2>7. g = [i \in 0 .. N |-> IF i = 0 THEN <<>> ELSE g[i - 1] \o Varint(Deltas(ids)[i])]
    BY <2>6
  <2> QED
    BY <2>7
<1>6. w = Body(w)
  <2> HIDE DEF Body
  <2> QED
    BY <1>5, Zenon
<1> HIDE DEF w
<1>7. w[0] = <<>> /\ \A i \in 1 .. N : w[i] = w[i - 1] \o Varint(Deltas(ids)[i])
  <2>1. ASSUME NEW i \in 0 .. N
        PROVE w[i] = IF i = 0 THEN <<>> ELSE w[i - 1] \o Varint(Deltas(ids)[i])
    BY <1>6, Zenon
  <2>2. 0 \in 0 .. N /\ \A i \in 1 .. N : i \in 0 .. N /\ i # 0
    BY <1>1
  <2> QED
    BY <2>1, <2>2, Zenon
<1>8. \A i \in 0 .. N : w[i] \in Seq(Nat)
  <2> DEFINE S == {i \in 0 .. N : w[i] \in Seq(Nat)}
  <2>1. ASSUME NEW i \in 0 .. N, \A k \in 0 .. N : k < i => k \in S PROVE i \in S
    <3>1. CASE i = 0
      BY <1>4, <1>7, <3>1
    <3>2. CASE i # 0
      <4>1. i \in 1 .. N /\ i - 1 \in 0 .. N /\ i - 1 < i
        BY <1>1, <3>2
      <4>2. w[i - 1] \in Seq(Nat)
        BY <2>1, <4>1
      <4> QED
        <5>1. PICK v \in Seq(Nat), x \in Seq(Nat) : v = w[i - 1] /\ x = Varint(Deltas(ids)[i])
          BY <1>3, <4>1, <4>2
        <5>2. w[i] = v \o x
          BY <1>7, <4>1, <5>1, Zenon
        <5>3. v \o x \in Seq(Nat)
          OBVIOUS
        <5> QED
          BY <5>2, <5>3
    <3> QED
      BY <3>1, <3>2
  <2> HIDE DEF S
  <2>2. \A i \in 0 .. N : i \in S
    BY <1>1, <2>1, AllUpTo, Zenon
  <2> QED
    BY <2>2 DEF S
<1>9. w \in [0 .. N -> Seq(Nat)]
  <2>1. w = [i \in 0 .. N |-> w[i]]
    BY <1>6
  <2> QED
    BY <1>8, <2>1
<1> QED
  BY <1>2, <1>7, <1>9 DEF N

(* The reader finds every number that was written.                         *)
LEMMA VarintsAreRead ==
  ASSUME NEW ids \in Seq(Int) PROVE Varints(Encoded(ids)) = Deltas(ids)
<1> DEFINE N == Len(ids)
           raw == Deltas(ids)
           Done(i) == [j \in 1 .. i |-> raw[j]]
<1>1. N \in Nat /\ raw \in Seq(Nat) /\ Len(raw) = N
  BY DeltasAre
<1>2. PICK w \in [0 .. N -> Seq(Nat)] :
         /\ w[0] = <<>> /\ \A i \in 1 .. N : w[i] = w[i - 1] \o Varint(raw[i])
         /\ Encoded(ids) = w[N]
  BY EncodedSteps
<1> HIDE DEF raw, N
<1> DEFINE S == {i \in 0 .. N : Reader(w[i]) = [done |-> Done(i), value |-> 0, unit |-> 1]}
<1>3. ASSUME NEW i \in 0 .. N, \A k \in 0 .. N : k < i => k \in S PROVE i \in S
  <2>1. CASE i = 0
    <3>1. Reader(<<>>) = Start
      <4>1. <<>> \in Seq(Nat) /\ 0 \in Nat
        OBVIOUS
      <4> QED
        BY <4>1, ReaderAppends, Zenon
    <3>2. Done(0) = <<>>
      OBVIOUS
    <3> HIDE DEF Done
    <3> QED
      BY <1>2, <2>1, <3>1, <3>2 DEF Start
  <2>2. CASE i # 0
    <3>1. i \in 1 .. N /\ i - 1 \in 0 .. N /\ i - 1 < i
      BY <1>1, <2>2
    <3>2. Reader(w[i - 1]) = [done |-> Done(i - 1), value |-> 0, unit |-> 1]
      BY <1>3, <3>1
    <3>3. raw[i] \in Nat /\ w[i - 1] \in Seq(Nat) /\ w[i] = w[i - 1] \o Varint(raw[i])
      <4>1. raw[i] \in Nat
        BY <1>1, <3>1
      <4>2. w[i - 1] \in Seq(Nat)
        BY <3>1
      <4>3. w[i] = w[i - 1] \o Varint(raw[i])
        BY <1>2, <3>1, Zenon
      <4> QED
        BY <4>1, <4>2, <4>3, Zenon
    <3>4. Append(Done(i - 1), raw[i]) = Done(i)
      <4>1. \A j \in 1 .. N : raw[j] \in Nat
        BY <1>1
      <4>2. ASSUME NEW k \in 0 .. N PROVE Done(k) \in Seq(Nat) /\ Len(Done(k)) = k
        <5>1. k \in Nat /\ \A j \in 1 .. k : raw[j] \in Nat
          BY <1>1, <4>1
        <5>2. Done(k) \in Seq(Nat)
          BY <5>1
        <5>3. Len(Done(k)) = k
          BY <5>1
        <5> QED
          BY <5>2, <5>3
      <4>3. /\ Done(i - 1) \in Seq(Nat) /\ Len(Done(i - 1)) = i - 1
            /\ Done(i) \in Seq(Nat) /\ Len(Done(i)) = i
        BY <3>1, <4>2, Zenon
      <4>4. Append(Done(i - 1), raw[i]) \in Seq(Nat) /\ Len(Append(Done(i - 1), raw[i])) = i
        BY <3>1, <3>3, <4>3
      <4>5. ASSUME NEW j \in 1 .. i PROVE Append(Done(i - 1), raw[i])[j] = Done(i)[j]
        BY <3>1, <3>3, <4>3
      <4> HIDE DEF Done
      <4> QED
        BY <4>3, <4>4, <4>5
    <3>5. ReadsAs(raw[i], w[i - 1])
      BY <3>3, VarintIsRead
    <3>6. raw[i] * 1 = raw[i] /\ 0 + raw[i] * 1 = raw[i]
      BY <3>3
    <3> HIDE DEF Done
    <3>7. Reader(w[i]) = [done |-> Append(Done(i - 1), 0 + raw[i] * 1), value |-> 0, unit |-> 1]
      <4> DEFINE place == [done |-> Done(i - 1), value |-> 0, unit |-> 1]
      <4>1. place.done = Done(i - 1) /\ place.value = 0 /\ place.unit = 1
        OBVIOUS
      <4>2. Reader(w[i]) = [done |-> Append(Reader(w[i - 1]).done,
                               Reader(w[i - 1]).value + raw[i] * Reader(w[i - 1]).unit),
                            value |-> 0, unit |-> 1]
        BY <3>3, <3>5 DEF ReadsAs
      <4>3. Reader(w[i - 1]) = place
        BY <3>2
      <4> HIDE DEF place
      <4> QED
        BY <4>1, <4>2, <4>3, Zenon
    <3> QED
      BY <3>4, <3>6, <3>7
  <2> QED
    BY <2>1, <2>2
<1>4. N \in S
  <2> HIDE DEF S
  <2>1. \A i \in 0 .. N : i \in S
    BY <1>1, <1>3, AllUpTo, Zenon
  <2> QED
    BY <1>1, <2>1
<1>5. Reader(Encoded(ids)).done = Done(N)
  BY <1>2, <1>4
<1>6. Done(N) = raw
  BY <1>1
<1> QED
  BY <1>5, <1>6 DEF Varints, raw

(* The distances add up to the ids.                                        *)
LEMMA DeltasAddUp ==
  ASSUME NEW ids \in Seq(Int), NEW raw \in Seq(Nat), Len(raw) = Len(ids),
         \A i \in 1 .. Len(ids) : ZigZag(raw[i]) = IF i = 1 THEN ids[i] ELSE ids[i] - ids[i - 1]
  PROVE  Undelta(raw) = ids
<1> DEFINE N == Len(raw)
           Body(g) == [i \in 0 .. N |-> IF i = 0 THEN 0 ELSE g[i - 1] + ZigZag(raw[i])]
           id == CHOOSE g : g = Body(g)
           z == [i \in 1 .. N |-> ZigZag(raw[i])]
<1>1. N \in Nat /\ ids \in [1 .. N -> Int] /\ z \in [1 .. N -> Int]
  <2>1. ids \in [1 .. N -> Int] /\ N \in Nat
    OBVIOUS
  <2>2. ASSUME NEW i \in 1 .. N PROVE ZigZag(raw[i]) \in Int
    <3>1. i # 1 => i - 1 \in 1 .. N
      OBVIOUS
    <3>2. ids[i] \in Int /\ (i # 1 => ids[i - 1] \in Int)
      BY <2>1, <3>1
    <3> QED
      BY <3>2
  <2> QED
    BY <2>1, <2>2
<1>2. Undelta(raw) = [i \in 1 .. N |-> id[i]]
  BY DEF Undelta
<1>3. \A i \in 1 .. N : z[i] = ZigZag(raw[i]) /\ z[i] = IF i = 1 THEN ids[i] ELSE ids[i] - ids[i - 1]
  OBVIOUS
<1> DEFINE f == [i \in 0 .. N |-> IF i = 0 THEN 0 ELSE ids[i]]
<1>4. \E g : g = Body(g)
  <2>1. ASSUME NEW i \in 0 .. N PROVE f[i] = IF i = 0 THEN 0 ELSE f[i - 1] + ZigZag(raw[i])
    <3>1. CASE i = 0
      BY <3>1
    <3>2. CASE i = 1
      <4>1. f[1] = ids[1] /\ f[0] = 0 /\ ids[1] \in Int /\ ZigZag(raw[1]) = ids[1]
        BY <1>1, <3>2
      <4> HIDE DEF f
      <4> QED
        BY <3>2, <4>1
    <3>3. CASE i # 0 /\ i # 1
      <4>1. i \in 1 .. N /\ i - 1 \in 1 .. N
        BY <1>1, <3>3
      <4>2. f[i] = ids[i] /\ f[i - 1] = ids[i - 1] /\ ids[i] \in Int /\ ids[i - 1] \in Int
        BY <1>1, <4>1
      <4>3. ZigZag(raw[i]) = ids[i] - ids[i - 1]
        BY <3>3, <4>1
      <4> HIDE DEF f
      <4> QED
        BY <3>3, <4>2, <4>3
    <3> QED
      BY <3>1, <3>2, <3>3
  <2>2. f = [i \in 0 .. N |-> f[i]]
    OBVIOUS
  <2> HIDE DEF f
  <2>3. f = Body(f)
    BY <2>1, <2>2
  <2> QED
    BY <2>3
<1> HIDE DEF N
<1>5. id = Body(id)
  <2> HIDE DEF Body
  <2> QED
    BY <1>4, Zenon
<1> HIDE DEF id, z, f
<1> DEFINE S == {i \in 0 .. N : i # 0 => id[i] = ids[i]}
<1>6. ASSUME NEW i \in 0 .. N, \A k \in 0 .. N : k < i => k \in S PROVE i \in S
  <2>1. CASE i = 0
    BY <2>1
  <2>2. CASE i = 1
    <3>1. id[1] = id[0] + ZigZag(raw[1]) /\ id[0] = 0 /\ 1 \in 1 .. N
      BY <1>1, <1>5, <2>2
    <3>2. ZigZag(raw[1]) = ids[1] /\ ids[1] \in Int
      BY <1>1, <1>3, <3>1
    <3> QED
      BY <2>2, <3>1, <3>2
  <2>3. CASE i # 0 /\ i # 1
    <3>1. i \in 1 .. N /\ i - 1 \in 0 .. N /\ i - 1 < i /\ i - 1 \in 1 .. N
      BY <1>1, <2>3
    <3>2. id[i - 1] = ids[i - 1]
      BY <1>6, <3>1
    <3>3. id[i] = id[i - 1] + ZigZag(raw[i])
      BY <1>5, <2>3
    <3>4. ZigZag(raw[i]) = ids[i] - ids[i - 1] /\ ids[i] \in Int /\ ids[i - 1] \in Int
      BY <1>1, <1>3, <2>3, <3>1
    <3> QED
      BY <3>2, <3>3, <3>4
  <2> QED
    BY <2>1, <2>2, <2>3
<1>7. \A i \in 0 .. N : i \in S
  <2> HIDE DEF S
  <2> QED
    BY <1>1, <1>6, AllUpTo, Zenon
<1>8. \A i \in 1 .. N : id[i] = ids[i]
  BY <1>1, <1>7
<1> QED
  BY <1>1, <1>2, <1>8

(* The ids that the parser reads are the ids that were written, whatever   *)
(* numbers they are and however many bytes each takes: the varint loop,    *)
(* the zigzag bit and the sums undo the encoding                           *)
(* (osm_parser.py:62-142, 411-430).                                        *)
THEOREM IdsAreRead ==
  ASSUME NEW ids \in Seq(Int) PROVE Ids(Encoded(ids)) = ids
<1>1. Varints(Encoded(ids)) = Deltas(ids)
  BY VarintsAreRead
<1>2. PICK raw : raw = Deltas(ids)
  OBVIOUS
<1>3. /\ raw \in Seq(Nat) /\ Len(raw) = Len(ids)
      /\ \A i \in 1 .. Len(ids) : ZigZag(raw[i]) = IF i = 1 THEN ids[i] ELSE ids[i] - ids[i - 1]
  BY <1>2, DeltasAre
<1>4. Undelta(raw) = ids
  BY <1>3, DeltasAddUp
<1> QED
  BY <1>1, <1>2, <1>4 DEF Ids

-----------------------------------------------------------------------------
(* The loops that keep some items of a list, and what they make of the ways. *)


\* What the loop has kept after so many items.
Keeps(kept, T, list, set) ==
    /\ kept \in [0 .. Len(list) -> Seq(T)]
    /\ kept[0] = <<>> /\ Kept(list, set) = kept[Len(list)]
    /\ \A p \in 1 .. Len(list) :
          kept[p] = IF list[p] \in set THEN Append(kept[p - 1], list[p]) ELSE kept[p - 1]

LEMMA KeptSteps ==
  ASSUME NEW T, NEW list \in Seq(T), NEW set PROVE \E kept : Keeps(kept, T, list, set)
<1> DEFINE N == Len(list)
           After(before, p) == IF list[p] \in set THEN Append(before, list[p]) ELSE before
           Body(g) == [p \in 0 .. N |-> IF p = 0 THEN <<>> ELSE After(g[p - 1], p)]
           kept == CHOOSE g : g = Body(g)
<1>1. N \in Nat /\ \A p \in 1 .. N : list[p] \in T
  OBVIOUS
<1>2. Kept(list, set) = kept[N]
  BY DEF Kept
<1>3. <<>> \in Seq(T)
  OBVIOUS
<1> HIDE DEF N
<1>4. ASSUME NEW before \in Seq(T), NEW p \in 1 .. N PROVE After(before, p) \in Seq(T)
  BY <1>1
<1> HIDE DEF After
<1>5. \E g : g = Body(g)
  <2> DEFINE prev == [m \in 1 .. N |-> m - 1]
             step == [x \in (1 .. N) \X Seq(T) |-> After(x[2], x[1])]
  <2>1. prev \in [1 .. N -> Nat] /\ \A m \in 1 .. N : prev[m] < m
    BY <1>1
  <2>2. step \in [(1 .. N) \X Seq(T) -> Seq(T)]
    BY <1>4
  <2>3. \A m \in 1 .. N, v \in Seq(T) : step[<<m, v>>] = After(v, m)
    OBVIOUS
  <2>4. \A m \in 1 .. N : prev[m] = m - 1
    OBVIOUS
  <2> HIDE DEF prev, step
  <2>5. PICK g \in [0 .. N -> Seq(T)] :
           g[0] = <<>> /\ \A m \in 1 .. N : g[m] = step[<<m, g[prev[m]]>>]
    <3>1. Recursion(N, Seq(T), <<>>, prev, step)
      BY <1>1, <1>3, <2>1, <2>2 DEF Recursion
    <3>2. Values(N, Seq(T), <<>>, prev, step) # {}
      BY <3>1, RecursionHasValues, Zenon
    <3> QED
      BY <3>2 DEF Values
  <2>6. ASSUME NEW p \in 0 .. N PROVE g[p] = IF p = 0 THEN <<>> ELSE After(g[p - 1], p)
    <3>1. CASE p = 0
      BY <2>5, <3>1
    <3>2. CASE p # 0
      <4>1. p \in 1 .. N /\ p - 1 \in 0 .. N
        BY <1>1, <3>2
      <4>2. g[p] = step[<<p, g[p - 1]>>] /\ g[p - 1] \in Seq(T)
        BY <2>4, <2>5, <4>1
      <4> QED
        BY <2>3, <3>2, <4>1, <4>2
    <3> QED
      BY <3>1, <3>2
  <2>7. g = [p \in 0 .. N |-> IF p = 0 THEN <<>> ELSE After(g[p - 1], p)]
    BY <2>6
  <2> QED
    BY <2>7
<1>6. kept = Body(kept)
  <2> HIDE DEF Body
  <2> QED
    BY <1>5, Zenon
<1> HIDE DEF kept
<1>7. kept[0] = <<>> /\ \A p \in 1 .. N : kept[p] = After(kept[p - 1], p)
  <2>1. ASSUME NEW p \in 0 .. N PROVE kept[p] = IF p = 0 THEN <<>> ELSE After(kept[p - 1], p)
    BY <1>6, Zenon
  <2>2. 0 \in 0 .. N /\ \A p \in 1 .. N : p \in 0 .. N /\ p # 0
    BY <1>1
  <2> QED
    BY <2>1, <2>2, Zenon
<1>8. \A p \in 0 .. N : kept[p] \in Seq(T)
  <2> DEFINE S == {p \in 0 .. N : kept[p] \in Seq(T)}
  <2>1. ASSUME NEW p \in 0 .. N, \A k \in 0 .. N : k < p => k \in S PROVE p \in S
    <3>1. CASE p = 0
      BY <1>3, <1>7, <3>1
    <3>2. CASE p # 0
      <4>1. p \in 1 .. N /\ p - 1 \in 0 .. N /\ p - 1 < p
        BY <1>1, <3>2
      <4>2. kept[p - 1] \in Seq(T)
        BY <2>1, <4>1
      <4> QED
        BY <1>4, <1>7, <4>1, <4>2
    <3> QED
      BY <3>1, <3>2
  <2> HIDE DEF S
  <2>2. \A p \in 0 .. N : p \in S
    BY <1>1, <2>1, AllUpTo, Zenon
  <2> QED
    BY <2>2 DEF S
<1>9. kept \in [0 .. N -> Seq(T)]
  <2>1. kept = [p \in 0 .. N |-> kept[p]]
    BY <1>6
  <2> QED
    BY <1>8, <2>1
<1> QED
  BY <1>2, <1>7, <1>9 DEF Keeps, N, After

\* The first p items of a list, kept at the places at.
Picked(kept, at, list, p, set) ==
    /\ at \in [1 .. Len(kept) -> 1 .. p]
    /\ \A i \in 1 .. Len(kept) : kept[i] = list[at[i]]
    /\ \A i, j \in 1 .. Len(kept) : i < j => at[i] < at[j]
    /\ \A q \in 1 .. p : list[q] \in set <=> \E i \in 1 .. Len(kept) : at[i] = q

(* The loop keeps the items of the set, in order, and nothing else.        *)
LEMMA KeptIs ==
  ASSUME NEW T, NEW list \in Seq(T), NEW set
  PROVE  /\ Kept(list, set) \in Seq(T) /\ Along(Kept(list, set), list, set)
         /\ ToSet(Kept(list, set)) = {x \in ToSet(list) : x \in set}
<1> DEFINE N == Len(list)
<1>1. PICK kept \in [0 .. N -> Seq(T)] :
            /\ kept[0] = <<>> /\ Kept(list, set) = kept[N]
            /\ \A p \in 1 .. N :
                  kept[p] = IF list[p] \in set THEN Append(kept[p - 1], list[p]) ELSE kept[p - 1]
  <2>1. PICK kept : Keeps(kept, T, list, set)
    BY KeptSteps, Zenon
  <2> QED
    BY <2>1 DEF Keeps
<1>2. /\ N \in Nat /\ DOMAIN list = 1 .. N /\ \A p \in 1 .. N : list[p] \in T
      /\ ToSet(list) = {list[p] : p \in 1 .. N}
  BY DEF ToSet
<1> HIDE DEF N
<1> DEFINE S == {p \in 0 .. N : \E at : Picked(kept[p], at, list, p, set)}
<1>3. ASSUME NEW p \in 0 .. N, \A k \in 0 .. N : k < p => k \in S PROVE p \in S
  <2>1. CASE p = 0
    <3>1. Len(kept[0]) = 0
      BY <1>1
    <3>2. Picked(kept[0], <<>>, list, 0, set)
      BY <3>1 DEF Picked
    <3> QED
      BY <2>1, <3>2
  <2>2. CASE p # 0
    <3>1. p \in 1 .. N /\ p - 1 \in 0 .. N /\ p - 1 < p
      BY <1>2, <2>2
    <3>2. PICK at : Picked(kept[p - 1], at, list, p - 1, set)
      BY <1>3, <3>1
    <3>3. PICK k \in Seq(T) : k = kept[p - 1]
      BY <3>1
    <3>4. PICK n \in Nat : n = Len(k)
      OBVIOUS
    <3>5. /\ at \in [1 .. n -> 1 .. p - 1] /\ \A i \in 1 .. n : k[i] = list[at[i]]
          /\ \A i, j \in 1 .. n : i < j => at[i] < at[j]
          /\ \A q \in 1 .. p - 1 : list[q] \in set <=> \E i \in 1 .. n : at[i] = q
      BY <3>2, <3>3, <3>4 DEF Picked
    <3>6. CASE list[p] \notin set
      <4>1. kept[p] = k
        BY <1>1, <3>1, <3>3, <3>6
      <4>2. \A i \in 1 .. n : at[i] \in 1 .. p
        BY <3>1, <3>5
      <4>3. at \in [1 .. n -> 1 .. p]
        BY <3>5, <4>2
      <4>4. ASSUME NEW q \in 1 .. p PROVE list[q] \in set <=> \E i \in 1 .. n : at[i] = q
        <5>1. CASE q = p
          BY <3>1, <3>5, <3>6, <5>1
        <5>2. CASE q # p
          <6>1. q \in 1 .. p - 1
            BY <3>1, <5>2
          <6> QED
            BY <3>5, <6>1
        <5> QED
          BY <5>1, <5>2
      <4>5. Picked(k, at, list, p, set)
        BY <3>4, <3>5, <4>3, <4>4 DEF Picked
      <4> QED
        BY <4>1, <4>5
    <3>7. CASE list[p] \in set
      <4> DEFINE more == Append(k, list[p])
                 to == [i \in 1 .. n + 1 |-> IF i = n + 1 THEN p ELSE at[i]]
      <4>1. kept[p] = more
        BY <1>1, <3>1, <3>3, <3>7
      <4>2. Len(more) = n + 1 /\ more[n + 1] = list[p] /\ \A i \in 1 .. n : more[i] = k[i]
        BY <1>2, <3>1, <3>4
      <4>3. /\ to[n + 1] = p /\ \A i \in 1 .. n : i \in 1 .. n + 1 /\ i # n + 1 /\ to[i] = at[i]
            /\ DOMAIN to = 1 .. n + 1 /\ n + 1 \in 1 .. n + 1
            /\ \A i \in 1 .. n + 1 : i # n + 1 => i \in 1 .. n
        OBVIOUS
      <4> HIDE DEF more
      <4>4. to \in [1 .. n + 1 -> 1 .. p]
        <5>1. ASSUME NEW i \in 1 .. n + 1 PROVE (IF i = n + 1 THEN p ELSE at[i]) \in 1 .. p
          <6>1. i # n + 1 => at[i] \in 1 .. p - 1
            BY <3>5, <4>3
          <6> QED
            BY <3>1, <6>1
        <5> QED
          BY <5>1
      <4> HIDE DEF to
      <4>5. ASSUME NEW i \in 1 .. n + 1 PROVE more[i] = list[to[i]]
        BY <3>5, <4>2, <4>3
      <4>6. ASSUME NEW i \in 1 .. n + 1, NEW j \in 1 .. n + 1, i < j PROVE to[i] < to[j]
        <5>1. i # n + 1 /\ i \in 1 .. n
          BY <4>6
        <5>2. to[i] = at[i] /\ at[i] \in 1 .. p - 1
          BY <3>5, <4>3, <5>1
        <5>3. CASE j = n + 1
          BY <3>1, <4>3, <5>2, <5>3
        <5>4. CASE j # n + 1
          BY <3>5, <4>3, <4>6, <5>1, <5>2, <5>4
        <5> QED
          BY <5>3, <5>4
      <4>7. ASSUME NEW q \in 1 .. p PROVE list[q] \in set <=> \E i \in 1 .. n + 1 : to[i] = q
        <5>1. CASE q = p
          BY <3>7, <4>3, <5>1
        <5>2. CASE q # p
          <6>1. q \in 1 .. p - 1
            BY <3>1, <5>2
          <6>2. ASSUME NEW i \in 1 .. n + 1, to[i] = q PROVE i \in 1 .. n /\ at[i] = q
            BY <4>3, <5>2, <6>2
          <6> QED
            BY <3>5, <4>3, <6>1, <6>2
        <5> QED
          BY <5>1, <5>2
      <4>8. Picked(more, to, list, p, set)
        BY <4>2, <4>4, <4>5, <4>6, <4>7 DEF Picked
      <4> QED
        BY <4>1, <4>8
    <3> QED
      BY <3>6, <3>7
  <2> QED
    BY <2>1, <2>2
<1>4. PICK at : Picked(kept[N], at, list, N, set)
  <2> HIDE DEF S
  <2>1. \A p \in 0 .. N : p \in S
    BY <1>2, <1>3, AllUpTo, Zenon
  <2> QED
    BY <1>2, <2>1 DEF S
<1>5. PICK k \in Seq(T) : k = Kept(list, set)
  BY <1>1, <1>2
<1>6. PICK n \in Nat : n = Len(k) /\ DOMAIN k = 1 .. n /\ ToSet(k) = {k[i] : i \in 1 .. n}
  BY DEF ToSet
<1>7. /\ at \in [1 .. n -> 1 .. N] /\ \A i \in 1 .. n : k[i] = list[at[i]]
      /\ \A i, j \in 1 .. n : i < j => at[i] < at[j]
      /\ \A q \in 1 .. N : list[q] \in set <=> \E i \in 1 .. n : at[i] = q
  BY <1>1, <1>4, <1>5, <1>6 DEF Picked
<1>8. {at[i] : i \in 1 .. n} = {q \in 1 .. N : list[q] \in set}
  BY <1>7
<1>9. Along(k, list, set)
  <2>1. at \in [DOMAIN k -> DOMAIN list]
    BY <1>2, <1>6, <1>7
  <2> QED
    BY <1>2, <1>6, <1>7, <1>8, <2>1, Zenon DEF Along
<1>10. ToSet(k) = {x \in ToSet(list) : x \in set}
  <2>1. ASSUME NEW i \in 1 .. n PROVE k[i] \in ToSet(list) /\ k[i] \in set
    BY <1>2, <1>7
  <2>2. ASSUME NEW q \in 1 .. N, list[q] \in set PROVE list[q] \in ToSet(k)
    <3>1. PICK i \in 1 .. n : at[i] = q
      BY <1>7, <2>2
    <3> QED
      BY <1>6, <1>7, <3>1
  <2> QED
    BY <1>2, <1>6, <2>1, <2>2
<1> QED
  BY <1>5, <1>9, <1>10

LEMMA UpToIs ==
  ASSUME NEW S, NEW s \in Seq(S), NEW l \in Int \cup {None}
  PROVE  UpTo(s, l) \in Seq(S) /\ UpTo(s, None) = s
<1>1. CASE l = None \/ l >= Len(s)
  BY <1>1 DEF UpTo
<1>2. CASE ~ (l = None \/ l >= Len(s))
  <2>1. l \in Int /\ Len(s) \in Nat /\ l <= Len(s)
    BY <1>2
  <2>2. SubSeq(s, 1, l) \in Seq(S)
    BY <2>1
  <2> QED
    BY <1>2, <2>2 DEF UpTo
<1> QED
  BY <1>1, <1>2 DEF UpTo

\* The roads of an extract, as they were written.
Roads(e) ==
    {[way |-> w.way, highway |-> w.highway, refs |-> w.refs] :
        w \in {x \in ToSet(Plain[e].ways) : x.highway \in HighwayClasses}}

LEMMA PlainIs ==
  ASSUME NEW e \in Editions
  PROVE  /\ Plain[e].nodes \in Seq(Int) /\ Plain[e].ways \in Seq(ToSet(Plain[e].ways))
         /\ \A w \in ToSet(Plain[e].ways) : w.refs \in Seq(Int)
  BY ExtractAssumption DEF IsList

LEMMA RoadsAreRead ==
  ASSUME NEW e \in Editions, NEW l \in Int \cup {None}
  PROVE  RoadWays(Osm(e).ways, l) \in Seq(Roads(e))
<1> DEFINE plain == Plain[e].ways
           n == Len(plain)
           ways == Osm(e).ways
           read == [i \in 1 .. Len(ways) |-> [ways[i] EXCEPT !.refs = Ids(ways[i].refs)]]
           usable == {w \in ToSet(read) : w.highway \in HighwayClasses /\ Len(w.refs) >= 2}
           All == {[way |-> w.way, highway |-> w.highway, refs |-> w.refs] : w \in ToSet(plain)}
<1>1. n \in Nat /\ \A i \in 1 .. n : plain[i] \in ToSet(plain) /\ plain[i].refs \in Seq(Int)
  <2>1. plain \in Seq(ToSet(plain)) /\ \A w \in ToSet(plain) : w.refs \in Seq(Int)
    BY PlainIs
  <2> HIDE DEF plain
  <2> QED
    BY <2>1
<1>2. ways = [i \in 1 .. n |-> [way |-> plain[i].way, highway |-> plain[i].highway,
                                refs |-> Encoded(plain[i].refs)]]
  BY DEF Osm
<1>3. RoadWays(ways, l) = UpTo(Kept(read, usable), l)
  BY DEF RoadWays
<1> HIDE DEF plain, n, ways
<1>4. Len(ways) = n
  BY <1>1, <1>2
<1>5. ASSUME NEW i \in 1 .. n
      PROVE [ways[i] EXCEPT !.refs = Ids(ways[i].refs)]
               = [way |-> plain[i].way, highway |-> plain[i].highway, refs |-> plain[i].refs]
  <2>1. Ids(Encoded(plain[i].refs)) = plain[i].refs
    BY <1>1, IdsAreRead
  <2>2. ways[i] = [way |-> plain[i].way, highway |-> plain[i].highway, refs |-> Encoded(plain[i].refs)]
    BY <1>2
  <2> QED
    BY <2>1, <2>2
<1>6. read = [i \in 1 .. n |-> [way |-> plain[i].way, highway |-> plain[i].highway,
                                refs |-> plain[i].refs]]
  BY <1>4, <1>5
<1>7. \A i \in 1 .. n : [way |-> plain[i].way, highway |-> plain[i].highway, refs |-> plain[i].refs] \in All
  BY <1>1
<1>8. read \in Seq(All)
  <2> HIDE DEF read, All
  <2> QED
    BY <1>1, <1>6, <1>7
<1>9. /\ Kept(read, usable) \in Seq(All)
      /\ ToSet(Kept(read, usable)) = {x \in ToSet(read) : x \in usable}
  <2> HIDE DEF read, usable, All
  <2> QED
    BY <1>8, KeptIs
<1>10. ASSUME NEW x \in usable, x \in ToSet(read) PROVE x \in Roads(e)
  <2>1. x \in All /\ x.highway \in HighwayClasses
    <3>1. ToSet(read) \subseteq All
      <4> HIDE DEF read, All
      <4> QED
        BY <1>8 DEF ToSet
    <3> HIDE DEF read, All
    <3> QED
      BY <1>10, <3>1
  <2>2. PICK w \in ToSet(plain) : x = [way |-> w.way, highway |-> w.highway, refs |-> w.refs]
    BY <2>1
  <2>3. w.highway \in HighwayClasses
    BY <2>1, <2>2
  <2> QED
    BY <2>2, <2>3 DEF Roads, plain
<1>11. Kept(read, usable) \in Seq(Roads(e))
  <2> DEFINE k == Kept(read, usable)
  <2>1. \A x \in ToSet(k) : x \in Roads(e)
    BY <1>9, <1>10
  <2>2. k \in Seq(All)
    BY <1>9
  <2> HIDE DEF k, All
  <2>3. \A i \in 1 .. Len(k) : k[i] \in Roads(e)
    BY <2>1, <2>2 DEF ToSet
  <2>4. k = [i \in 1 .. Len(k) |-> k[i]] /\ Len(k) \in Nat
    BY <2>2
  <2>5. k \in Seq(Roads(e))
    BY <2>3, <2>4
  <2> QED
    BY <2>5 DEF k
<1> HIDE DEF read, usable
<1>12. UpTo(Kept(read, usable), l) \in Seq(Roads(e))
  BY <1>11, UpToIs
<1> QED
  BY <1>3, <1>12 DEF ways

(* The nodes that the network has are the nodes that were found.           *)
LEMMA NodesAreRead ==
  ASSUME NEW e \in Editions, NEW l
  PROVE  /\ FoundNodes(Osm(e), l) \in Seq(Int)
         /\ {r.key : r \in ToSet(NodeRows(Osm(e), l))} = ToSet(FoundNodes(Osm(e), l))
<1> DEFINE required == UNION {ToSet(w.refs) : w \in ToSet(RoadWays(Osm(e).ways, l))}
           found == FoundNodes(Osm(e), l)
           rows == NodeRows(Osm(e), l)
<1>1. Osm(e).dense = Encoded(Plain[e].nodes)
  BY DEF Osm
<1>2. Ids(Osm(e).dense) = Plain[e].nodes /\ Plain[e].nodes \in Seq(Int)
  BY <1>1, PlainIs, IdsAreRead
<1>3. found = Kept(Ids(Osm(e).dense), required)
  BY Zenon DEF FoundNodes
<1> HIDE DEF required
<1>4. found \in Seq(Int)
  <2>1. Kept(Plain[e].nodes, required) \in Seq(Int)
    BY <1>2, KeptIs
  <2> HIDE DEF found
  <2> QED
    BY <1>2, <1>3, <2>1
<1>5. rows = [i \in 1 .. Len(found) |-> [key |-> found[i], content |-> None]]
  BY DEF NodeRows
<1> HIDE DEF found, rows
<1>6. Len(found) \in Nat /\ DOMAIN found = 1 .. Len(found) /\ DOMAIN rows = 1 .. Len(found)
  BY <1>4, <1>5
<1>7. \A i \in 1 .. Len(found) : rows[i].key = found[i]
  BY <1>5
<1>8. ToSet(found) = {found[i] : i \in 1 .. Len(found)} /\ ToSet(rows) = {rows[i] : i \in 1 .. Len(found)}
  BY <1>6 DEF ToSet
<1>9. {r.key : r \in ToSet(rows)} = ToSet(found)
  BY <1>7, <1>8
<1> QED
  BY <1>4, <1>9 DEF found, rows

\* An edge that is a road of the extract, along the nodes of a set.
AsWritten(edge, e, nodes) ==
    \E w \in ToSet(Plain[e].ways) :
        /\ w.highway \in HighwayClasses
        /\ edge.way = w.way
        /\ edge.from = Head(w.refs) /\ edge.to = Last(w.refs)
        /\ Along(edge.line, w.refs, nodes)

LEMMA SegmentsAreWritten ==
  ASSUME NEW e \in Editions, NEW l \in Int \cup {None}
  PROVE  \A i \in 1 .. Len(Segments(Osm(e), l)) :
            AsWritten(Segments(Osm(e), l)[i], e, ToSet(FoundNodes(Osm(e), l)))
<1> DEFINE roads == RoadWays(Osm(e).ways, None)
           n == Len(roads)
           known == ToSet(FoundNodes(Osm(e), l))
           Segment(r) == [way |-> r.way, from |-> Head(r.refs), to |-> Last(r.refs),
                          line |-> Kept(r.refs, known)]
           all == [i \in 1 .. n |-> Segment(roads[i])]
           long == {x \in ToSet(all) : Len(x.line) >= 2}
           Every == {Segment(r) : r \in Roads(e)}
<1>1. roads \in Seq(Roads(e))
  BY RoadsAreRead
<1>2. Segments(Osm(e), l) = UpTo(Kept(all, long), l)
  BY DEF Segments
<1> HIDE DEF roads
<1>3. n \in Nat /\ \A i \in 1 .. n : roads[i] \in Roads(e)
  BY <1>1
<1>4. \A i \in 1 .. n : Segment(roads[i]) \in Every
  BY <1>3
<1>5. all \in Seq(Every)
  <2> HIDE DEF n, Segment, Every
  <2> QED
    BY <1>3, <1>4
<1> HIDE DEF all, long, Every
<1>6. Kept(all, long) \in Seq(Every)
  BY <1>5, KeptIs
<1>7. UpTo(Kept(all, long), l) \in Seq(Every)
  BY <1>6, UpToIs
<1>8. SUFFICES ASSUME NEW s \in Every PROVE AsWritten(s, e, known)
  <2> DEFINE q == UpTo(Kept(all, long), l)
  <2>1. \A i \in 1 .. Len(q) : q[i] \in Every
    BY <1>7
  <2> HIDE DEF q, Every
  <2>2. q = Segments(Osm(e), l)
    BY <1>2 DEF q
  <2> QED
    BY <2>1, <2>2
<1>9. PICK r \in Roads(e) : s = Segment(r)
  BY DEF Every
<1>10. PICK w \in ToSet(Plain[e].ways) :
         /\ w.highway \in HighwayClasses
         /\ r = [way |-> w.way, highway |-> w.highway, refs |-> w.refs]
  BY DEF Roads
<1>11. /\ s.way = w.way /\ s.from = Head(w.refs) /\ s.to = Last(w.refs)
       /\ s.line = Kept(w.refs, known)
  <2> HIDE DEF known
  <2> QED
    BY <1>9, <1>10
<1>12. Along(Kept(w.refs, known), w.refs, known)
  <2>1. w.refs \in Seq(Int)
    BY PlainIs
  <2> HIDE DEF known
  <2> QED
    BY <2>1, KeptIs
<1> QED
  BY <1>10, <1>11, <1>12, Zenon DEF AsWritten

(* What the runner makes of an extract is what was written.                *)
LEMMA EdgesAreWritten ==
  ASSUME NEW e \in Editions, NEW l \in Limits, NEW row \in ToSet(Contents[e].segments[l])
  PROVE  AsWritten(row.content, e, {r.key : r \in ToSet(Contents[e].nodes[l])})
<1> DEFINE segments == Segments(Osm(e), l)
           rows == EdgeRows(Osm(e), l)
<1>1. Contents[e].segments[l] = rows /\ Contents[e].nodes[l] = NodeRows(Osm(e), l)
  BY ExtractAssumption
<1>2. l \in Int \cup {None}
  BY IngestionAssumption
<1>3. rows = [i \in 1 .. Len(segments) |-> [key |-> segments[i].way, content |-> segments[i]]]
  BY DEF EdgeRows
<1> HIDE DEF segments, rows
<1>4. row \in ToSet(rows)
  BY <1>1
<1>5. PICK i \in 1 .. Len(segments) : row = [key |-> segments[i].way, content |-> segments[i]]
  BY <1>3, <1>4 DEF ToSet
<1>6. row.content = segments[i]
  BY <1>5
<1>7. AsWritten(segments[i], e, ToSet(FoundNodes(Osm(e), l)))
  BY <1>2, SegmentsAreWritten DEF segments
<1>8. {r.key : r \in ToSet(Contents[e].nodes[l])} = ToSet(FoundNodes(Osm(e), l))
  BY <1>1, NodesAreRead
<1> QED
  BY <1>6, <1>7, <1>8, Zenon

-----------------------------------------------------------------------------
(* The road network.                                                       *)

\* While the edges are loaded, the table holds edges of the list.
EdgesOfList ==
    cmd.phase = "rows" /\ cmd.todo # <<>> /\ Dataset = "osm" => table["osm"] \subseteq ToSet(RoadList)

\* The road network is that of one extract, for one limit.
Network(e, l) ==
    /\ table["osm"] \subseteq ToSet(Contents[e].segments[l])
    /\ Keys("nodes") = {r.key : r \in ToSet(Contents[e].nodes[l])}
OneExtract == table["osm"] = {} \/ \E e \in Editions, l \in Limits : Network(e, l)

LEMMA NetworkStays ==
  ASSUME OneExtract, table'["nodes"] = table["nodes"], table'["osm"] = table["osm"] PROVE OneExtract'
<1>1. Keys("nodes")' = Keys("nodes")
  BY DEF Keys
<1>2. CASE table["osm"] = {}
  BY <1>2 DEF OneExtract
<1>3. ASSUME NEW e \in Editions, NEW l \in Limits, Network(e, l) PROVE Network(e, l)'
  BY <1>1, <1>3 DEF Network
<1> QED
  BY <1>2, <1>3 DEF OneExtract

LEMMA RowsKeepNetwork ==
  ASSUME IInv, IInv', EdgesOfList, OneExtract, Rows PROVE EdgesOfList' /\ OneExtract'
<1>1. cmd.phase = "rows" /\ cmd.todo # <<>> /\ Loading
  BY DEF Rows, At, Loading
<1>2. TypeOK /\ cmd \in Command
  BY DEF IInv, TypeOK
<1>3. PICK d \in Datasets : d = Dataset /\ d \in Tables /\ d # "nodes"
  BY <1>1, InLoad, DatasetsAre
<1>4. {"nodes", "osm"} \subseteq Tables /\ file \in Editions /\ cmd.limit \in Limits
  BY <1>1, InLoad DEF Tables
<1>5. CASE Load(d)
  <2>1. LooksUp(d) => cmd.known = table[d]
    BY <1>1, <1>3, DatasetsAre DEF IInv, KnowsTheTable, LooksUp
  <2>2. Refuses(d) \/ \E rest, rows : Loads(d, rest, rows)
    BY <1>2, <1>3, <1>5, <2>1, LoadIs
  <2>3. CASE Refuses(d)
    <3>1. cmd'.phase = "idle" /\ table' = table
      BY <2>3 DEF Refuses, FailedRun, Idle
    <3> QED
      BY <3>1, NetworkStays DEF EdgesOfList
  <2>4. ASSUME NEW rest, NEW rows, Loads(d, rest, rows) PROVE EdgesOfList' /\ OneExtract'
    <3>1. /\ cmd'.todo = cmd.todo /\ cmd'.limit = cmd.limit
          /\ table'[d] = table[d] \cup rows
          /\ \A u \in Tables \ {d} : table'[u] = table[u] /\ Keys(u)' = Keys(u)
      BY <1>1, <1>2, <1>3, <2>4, LoadsFields
    <3>2. Dataset' = d /\ file' = file /\ rows \subseteq ToSet(cmd.rest)
      BY <1>3, <2>4, <3>1 DEF Loads, Dataset
    <3>3. CASE d # "osm"
      <4>1. table'["nodes"] = table["nodes"] /\ table'["osm"] = table["osm"]
        BY <1>3, <1>4, <3>1, <3>3
      <4> QED
        BY <3>2, <3>3, <4>1, NetworkStays DEF EdgesOfList
    <3>4. CASE d = "osm"
      <4>1. RoadList' = RoadList
        BY <3>1, <3>2 DEF RoadList, Read
      <4>2. /\ Arrived("nodes", ListOf("osm")) /\ Only("nodes", ListOf("osm"))
            /\ ToSet(cmd.rest) \subseteq ToSet(RoadList)
        BY <1>1, <1>3, <3>4 DEF IInv, NothingSkipped
      <4>3. table'["osm"] \subseteq ToSet(RoadList)
        BY <1>1, <1>3, <3>1, <3>2, <3>4, <4>2 DEF EdgesOfList
      <4>4. ListOf("osm") = Contents[file].nodes[cmd.limit] /\ RoadList = Contents[file].segments[cmd.limit]
        BY DEF ListOf, Records, RoadList, Read
      <4>5. Keys("nodes")' = {r.key : r \in ToSet(Contents[file].nodes[cmd.limit])}
        <5>1. Keys("nodes")' = Keys("nodes")
          BY <1>4, <3>1, <3>4
        <5> QED
          BY <4>2, <4>4, <5>1 DEF Arrived, Only
      <4>6. PICK e \in Editions, l \in Limits : e = file /\ l = cmd.limit
        BY <1>4
      <4>7. Network(e, l)'
        BY <4>3, <4>4, <4>5, <4>6 DEF Network
      <4> QED
        BY <4>1, <4>3, <4>7 DEF EdgesOfList, OneExtract
    <3> QED
      BY <3>3, <3>4
  <2> QED
    BY <2>2, <2>3, <2>4
<1>6. CASE ~ Load(d)
  <2>1. cmd' = [cmd EXCEPT !.phase = IF Dataset = "rainfall" THEN "climatology" ELSE "finish"]
        /\ table' = table
    BY <1>3, <1>6 DEF Rows, LoopOver
  <2>2. cmd'.phase # "rows"
    BY <1>2, <2>1 DEF Command
  <2> QED
    BY <2>1, <2>2, NetworkStays DEF EdgesOfList
<1> QED
  BY <1>5, <1>6

LEMMA AddNodesKeepsNetwork ==
  ASSUME IInv, IInv', EdgesOfList, OneExtract, AddNodes PROVE EdgesOfList' /\ OneExtract'
<1>1. cmd.phase = "nodes" /\ cmd.todo # <<>> /\ Loading
  BY DEF AddNodes, At, Loading
<1>2. TypeOK /\ cmd \in Command /\ Dataset = "osm" /\ {"nodes", "osm"} \subseteq Tables
  BY <1>1 DEF IInv, TypeOK, OneOpenRun, Tables
<1>3. table["osm"] = {}
  <2>1. Keys("osm") = {}
    BY <1>1, <1>2 DEF IInv, NothingSkipped
  <2> QED
    BY <2>1 DEF Keys
<1>4. CASE Load("nodes")
  <2>1. cmd.known = table["nodes"] /\ LooksUp("nodes")
    BY <1>1 DEF IInv, KnowsTheTable, LooksUp
  <2>2. PICK rest, rows : Loads("nodes", rest, rows)
    BY <1>2, <1>4, <2>1, LoadIs DEF Refuses
  <2>3. cmd'.phase = "nodes" /\ table'["osm"] = table["osm"]
    BY <1>1, <1>2, <2>2, LoadsFields
  <2> QED
    BY <1>3, <2>3 DEF EdgesOfList, OneExtract
<1>5. CASE ~ Load("nodes")
  <2>1. table' = table
    BY <1>5 DEF AddNodes
  <2> QED
    BY <1>3, <2>1 DEF EdgesOfList, OneExtract
<1> QED
  BY <1>4, <1>5

LEMMA NetworkIsKept ==
  ASSUME IInv, IInv', EdgesOfList, OneExtract, [Next]_vars PROVE EdgesOfList' /\ OneExtract'
<1>1. TypeOK /\ cmd \in Command /\ {"nodes", "osm", "subdivisions", "climatology"} \subseteq Tables
      /\ table \in [Tables -> SUBSET AllRows]
  BY DEF IInv, TypeOK, Tables
<1>2. CASE UNCHANGED <<table, file, cmd>>
  <2>1. Dataset' = Dataset /\ RoadList' = RoadList
    BY <1>2 DEF Dataset, RoadList, Read
  <2> QED
    BY <1>2, <2>1, NetworkStays DEF EdgesOfList
<1>3. CASE UNCHANGED table /\ cmd'.phase # "rows"
  BY <1>3, NetworkStays DEF EdgesOfList
<1>4. ASSUME NEW c \in Datasets \cup {"all"}, NEW l \in Limits, Ingest(c, l)
      PROVE  EdgesOfList' /\ OneExtract'
  <2>1. UNCHANGED table /\ cmd'.phase = "source"
    BY <1>4 DEF Ingest, Idle
  <2> QED
    BY <1>3, <2>1
<1>5. ASSUME NEW e \in Editions, Replace(e) PROVE EdgesOfList' /\ OneExtract'
  BY <1>3, <1>5 DEF Replace
<1>6. CASE Register
  <2>1. UNCHANGED table /\ cmd'.phase = "run"
    BY <1>1, <1>6 DEF Register, Command
  <2> QED
    BY <1>3, <2>1
<1>7. CASE StartRun
  <2>1. UNCHANGED table /\ cmd'.phase = FirstPhase(Dataset) /\ Dataset' = Dataset
    BY <1>1, <1>7 DEF StartRun, Command, Dataset
  <2>2. Dataset = "osm" => FirstPhase(Dataset) = "clear"
    BY DEF FirstPhase
  <2> QED
    BY <2>1, <2>2, NetworkStays DEF EdgesOfList
<1>8. CASE FinishRun
  <2>1. UNCHANGED table /\ cmd'.phase # "rows"
    BY <1>8 DEF FinishRun, Idle
  <2> QED
    BY <1>3, <2>1
<1>9. CASE AddSubdivisions
  <2>1. Dataset = "rainfall"
    BY <1>9 DEF AddSubdivisions, At, IInv, OneOpenRun
  <2>2. table'["nodes"] = table["nodes"] /\ table'["osm"] = table["osm"]
    BY <1>1, <1>9 DEF AddSubdivisions
  <2>3. cmd'.phase = "idle" \/ Dataset' = "rainfall"
    BY <1>1, <1>9, <2>1 DEF AddSubdivisions, FailedRun, Idle, Dataset, Command
  <2> QED
    BY <2>2, <2>3, NetworkStays DEF EdgesOfList
<1>10. CASE AddClimatology
  <2>1. cmd'.phase = "finish"
    BY <1>1, <1>10 DEF AddClimatology, Command
  <2>2. table'["nodes"] = table["nodes"] /\ table'["osm"] = table["osm"]
    BY <1>1, <1>10 DEF AddClimatology
  <2> QED
    BY <2>1, <2>2, NetworkStays DEF EdgesOfList
<1>11. CASE ClearRoads
  <2>1. cmd'.phase = "nodes"
    BY <1>1, <1>11 DEF ClearRoads, Command
  <2>2. table'["osm"] = {}
    BY <1>1, <1>11 DEF ClearRoads
  <2> QED
    BY <2>1, <2>2 DEF EdgesOfList, OneExtract
<1>12. CASE Struck \/ Killed
  <2>1. UNCHANGED table /\ cmd'.phase = "idle"
    BY <1>12 DEF Struck, Killed, FailedRun, Idle
  <2> QED
    BY <1>3, <2>1
<1>13. CASE Rest \/ UNCHANGED vars
  BY <1>2, <1>13 DEF Rest, vars
<1> QED
  BY <1>4, <1>5, <1>6, <1>7, <1>8, <1>9, <1>10, <1>11, <1>12, <1>13,
     RowsKeepNetwork, AddNodesKeepsNetwork DEF Next, Steps

(* For any extracts, whatever numbers their ids are and however their      *)
(* loads were batched, limited, killed, struck or repeated: the road       *)
(* network is that of one extract, each edge of it a road as it was        *)
(* written, along exactly those of its nodes that the network has          *)
(* (osm_parser.py:84-120, 195-241, 377-430, runner.py:469-567).            *)
THEOREM NetworkIsAsWritten == Spec => []RoadsAreAsWritten
<1>1. Init => EdgesOfList /\ OneExtract
  BY DEF Init, Idle, EdgesOfList, OneExtract, Tables
<1>2. IInv /\ IInv' /\ EdgesOfList /\ OneExtract /\ [Next]_vars => EdgesOfList' /\ OneExtract'
  BY NetworkIsKept
<1>3. IInv /\ OneExtract => RoadsAreAsWritten
  <2> SUFFICES ASSUME IInv, OneExtract PROVE RoadsAreAsWritten
    OBVIOUS
  <2>1. file \in Editions
    BY DEF IInv, TypeOK
  <2>2. CASE table["osm"] = {}
    BY <2>1, <2>2 DEF RoadsAreAsWritten
  <2>3. ASSUME NEW e \in Editions, NEW l \in Limits, Network(e, l) PROVE RoadsAreAsWritten
    <3>1. ASSUME NEW row \in table["osm"] PROVE AsWritten(row.content, e, Keys("nodes"))
      <4>1. row \in ToSet(Contents[e].segments[l])
        BY <2>3 DEF Network
      <4>2. AsWritten(row.content, e, {r.key : r \in ToSet(Contents[e].nodes[l])})
        BY <4>1, EdgesAreWritten
      <4> QED
        BY <2>3, <4>2 DEF Network
    <3> QED
      BY <3>1, Zenon DEF AsWritten, RoadsAreAsWritten
  <2> QED
    BY <2>2, <2>3 DEF OneExtract
<1> QED
  BY <1>1, <1>2, <1>3, Inductive, PTL DEF Spec
=============================================================================
