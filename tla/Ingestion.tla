------------------------------ MODULE Ingestion ------------------------------
(***************************************************************************)
(* The ingestion command (app/cli.py) and the runner it drives             *)
(* (app/services/ingestion/runner.py) over the database.                   *)
(*                                                                         *)
(* One operator runs one command at a time.  A command loads one dataset,  *)
(* or all five in a fixed order, and stops at the first that fails.  Every *)
(* commit is a step, and between two commits the process may be killed     *)
(* (Killed) or a statement may fail (Struck), at most MaxFaults times.     *)
(* Between commands the files may be replaced by another edition.          *)
(***************************************************************************)
EXTENDS DatasetParsers

CONSTANTS Contents,    \* edition of the files -> what the parsers read out of it
          BatchSize,   \* rows added in one commit
          Limits,      \* values of --limit, None among them
          MaxCommands, \* how often the command is run
          MaxFaults    \* kills and failed statements

Order == <<"gsi", "rainfall", "census", "census-a1", "osm">>
Datasets == ToSet(Order)
Tables == {"gsi", "subdivisions", "rainfall", "climatology", "census", "census-a1", "nodes", "osm"}

Editions == DOMAIN Contents

IsList(s) == s \in Seq(ToSet(s))

\* What a parser returns is a list; of the census and the roads, one for each limit.
\* `--limit 0` is no limit to the code, that is None.
ASSUME IngestionAssumption ==
    /\ BatchSize \in Nat \ {0} /\ MaxCommands \in Nat /\ MaxFaults \in Nat
    /\ None \in Limits /\ Limits \subseteq (Int \ {0}) \cup {None}
    /\ \A e \in Editions :
          /\ IsList(Contents[e].gsi) /\ IsList(Contents[e].rainfall) /\ IsList(Contents[e].a1)
          /\ \A l \in Limits : /\ IsList(Contents[e].census[l])
                               /\ IsList(Contents[e].nodes[l]) /\ IsList(Contents[e].segments[l])

VARIABLES file,     \* the edition that is on disk
          table,    \* table -> its rows
          source,   \* dataset_sources: dataset -> None or [status, count]
          runs,     \* ingestion_runs in the order of their start
          cmd,      \* the running command
          wanted,   \* history: what the file held when the dataset was last loaded
          faults, commands

vars == <<file, table, source, runs, cmd, wanted, faults, commands>>

\* A new row of dataset_sources, and one of ingestion_runs; struck is history:
\* a fault ended the run.
NewSource == [status |-> "pending", count |-> 0]
NewRun(d) == [dataset |-> d, status |-> "running", inserted |-> 0, updated |-> 0, struck |-> FALSE]

\* The unique keys that are taken in a table.
Keys(t) == {r.key : r \in table[t]}

\* The command between two steps: the datasets still to load, where it stands
\* in the first of them, the records not yet read, the records it knows to be
\* in the table, and what it has counted.
Idle == [todo |-> <<>>, phase |-> "idle", limit |-> None, rest |-> <<>>, known |-> {},
         inserted |-> 0, updated |-> 0]

Init ==
    /\ file \in Editions
    /\ table = [t \in Tables |-> {}]
    /\ source = [d \in Datasets |-> None]
    /\ runs = <<>>
    /\ cmd = Idle
    /\ wanted = [d \in Datasets |-> {}]
    /\ faults = 0 /\ commands = 0

Dataset == Head(cmd.todo)
At(phase) == cmd.phase = phase /\ cmd.todo # <<>>
Current == Len(runs)   \* only the last run can be open

-----------------------------------------------------------------------------
(* The command line.                                                       *)

\* The operator starts the command for one dataset or for all.
Ingest(chosen, limit) ==
    /\ cmd.phase = "idle" /\ commands < MaxCommands
    /\ commands' = commands + 1
    /\ cmd' = [Idle EXCEPT !.todo = IF chosen = "all" THEN Order ELSE <<chosen>>,
                           !.limit = limit, !.phase = "source"]
    /\ UNCHANGED <<file, table, source, runs, faults, wanted>>

\* The files are replaced while no command runs.
Replace(edition) ==
    /\ cmd.phase = "idle" /\ commands < MaxCommands
    /\ edition # file
    /\ file' = edition
    /\ UNCHANGED <<table, source, runs, cmd, faults, commands, wanted>>

-----------------------------------------------------------------------------
(* What the files hold.                                                    *)

\* The records that the loop of a dataset reads.  The command passes `limit or
\* 1000` to the roads: the extracts of the model have fewer ways than that.
Read == Contents[file]
Records(d, limit) ==
    CASE d = "gsi"       -> UpTo(Read.gsi, limit)
      [] d = "rainfall"  -> Read.rainfall
      [] d = "census"    -> Read.census[limit]
      [] d = "census-a1" -> Read.a1
      [] d = "osm"       -> Read.nodes[limit]

\* What the file holds for a dataset, as rows of the tables it fills.
Wanted(d, limit) ==
    CASE d = "rainfall" -> {<<"rainfall", r.key>> : r \in ToSet(Read.rainfall)}
                           \cup {<<"climatology", c.key>> : c \in Read.climatology}
      [] d = "osm"      -> {<<"nodes", n.key>> : n \in ToSet(Read.nodes[limit])}
                           \cup {<<"osm", s.key>> : s \in ToSet(Read.segments[limit])}
      [] OTHER          -> {<<d, r.key>> : r \in ToSet(Records(d, limit))}

-----------------------------------------------------------------------------
(* The steps that every dataset has.                                       *)

\* get_or_create_source
Register ==
    /\ At("source")
    /\ source' = IF source[Dataset] # None THEN source
                 ELSE [source EXCEPT ![Dataset] = NewSource]
    /\ cmd' = [cmd EXCEPT !.phase = "run"]
    /\ UNCHANGED <<file, table, runs, faults, commands, wanted>>

\* What the run knows to be in the table before it reads the file: the slide
\* numbers with their hashes, the observation keys; the others do not look.
Known(d) ==
    IF d \in {"gsi", "rainfall"} THEN table[d] ELSE {}

FirstPhase(d) ==
    CASE d = "rainfall" -> "subdivisions"
      [] d = "osm"      -> "clear"
      [] OTHER          -> "rows"

\* start_run, and the parser and the select of existing rows that follow it.
StartRun ==
    /\ At("run")
    /\ runs' = Append(runs, NewRun(Dataset))
    /\ cmd' = [cmd EXCEPT !.phase = FirstPhase(Dataset),
                          !.rest = Records(Dataset, cmd.limit),
                          !.known = Known(Dataset),
                          !.inserted = 0, !.updated = 0]
    /\ UNCHANGED <<file, table, source, faults, commands, wanted>>

\* A record is new when its key is neither known nor read before in this run.
\* The census and the road edges are added without a look.
LooksUp(d) == d \in {"gsi", "rainfall", "nodes"}
IsNew(d, known, recs, i) ==
    LooksUp(d) => /\ \A k \in known : k.key # recs[i].key
                  /\ \A j \in 1 .. i - 1 : recs[j].key # recs[i].key

\* The loop up to its next commit: as many records as hold BatchSize new ones.
Fresh(d, upto) == {i \in 1 .. upto : IsNew(d, cmd.known, cmd.rest, i)}
BatchEnd(d) ==
    LET full == {n \in DOMAIN cmd.rest : Cardinality(Fresh(d, n)) = BatchSize}
    IN  IF full = {} THEN Len(cmd.rest) ELSE Min(full)

Changed(d, upto) ==
    IF d # "gsi" THEN {}
    ELSE {i \in (1 .. upto) \ Fresh(d, upto) :
            \A k \in cmd.known \cup {cmd.rest[j] : j \in Fresh(d, upto) \cap 1 .. i} :
                k.key = cmd.rest[i].key => k.content # cmd.rest[i].content}

\* Road edges have no unique key; every other table refuses a second row.
Refused(t, fresh) ==
    /\ t # "osm"
    /\ \/ \E i \in fresh : cmd.rest[i].key \in Keys(t)
       \/ \E i, j \in fresh : i # j /\ cmd.rest[i].key = cmd.rest[j].key

\* finish_run after a failure: the uncommitted batch is rolled back, the
\* counters with it, and the exception ends the command.
FailedRun(struck) ==
    /\ runs' = [runs EXCEPT ![Current].status = "failed", ![Current].struck = struck]
    /\ source' = [source EXCEPT ![Dataset] = [status |-> "failed", count |-> 0]]
    /\ cmd' = Idle

\* One commit of the loop over the rows of table t.
Load(t) ==
    LET upto == BatchEnd(t)
        fresh == Fresh(t, upto)
        rows == {cmd.rest[i] : i \in fresh}
    IN  /\ cmd.rest # <<>>
        /\ \/ /\ Refused(t, fresh)
              /\ FailedRun(FALSE)
              /\ UNCHANGED table
           \/ /\ ~ Refused(t, fresh)
              /\ table' = [table EXCEPT ![t] = @ \cup rows]
              /\ cmd' = [cmd EXCEPT !.rest = SubSeq(cmd.rest, upto + 1, Len(cmd.rest)),
                                    !.known = @ \cup rows,
                                    !.inserted = @ + Cardinality(fresh),
                                    !.updated = @ + Cardinality(Changed(t, upto))]
              /\ UNCHANGED <<runs, source>>
        /\ UNCHANGED <<file, faults, commands, wanted>>

\* Mutation: the loop leaves when the rest does not fill a batch any more.
LoopOverEarly(next) ==
    /\ Len(cmd.rest) < BatchSize
    /\ cmd' = [cmd EXCEPT !.phase = next, !.rest = <<>>]
    /\ UNCHANGED <<file, table, source, runs, faults, commands, wanted>>

\* The loop is over when every record has been read.
LoopOver(next) ==
    /\ cmd.rest = <<>>
    /\ cmd' = [cmd EXCEPT !.phase = next]
    /\ UNCHANGED <<file, table, source, runs, faults, commands, wanted>>

Rows ==
    /\ At("rows")
    /\ \/ Load(Dataset)
       \/ LoopOver(IF Dataset = "rainfall" THEN "climatology" ELSE "finish")

\* finish_run(success): the counters, the source and the status in one commit;
\* the command goes on with its next dataset.
FinishRun ==
    /\ At("finish")
    /\ runs' = [runs EXCEPT ![Current] = [@ EXCEPT !.status = "success",
                    !.inserted = cmd.inserted, !.updated = cmd.updated]]
    /\ wanted' = [wanted EXCEPT ![Dataset] = Wanted(Dataset, cmd.limit)]
    /\ source' = [source EXCEPT ![Dataset] =
                    [status |-> "completed", count |-> cmd.inserted + cmd.updated]]
    /\ cmd' = IF Len(cmd.todo) = 1 THEN Idle
              ELSE [Idle EXCEPT !.todo = Tail(cmd.todo), !.limit = cmd.limit, !.phase = "source"]
    /\ UNCHANGED <<file, table, faults, commands>>

-----------------------------------------------------------------------------
(* Rainfall: the subdivisions before the rows, the climatology after them. *)

\* Names are looked up as written; the normalised name is unique too.
AddSubdivisions ==
    LET missing == {s \in Read.subdivisions : s.name \notin Keys("subdivisions")}
        taken == {r.content : r \in table["subdivisions"]}
        clash == \/ \E s \in missing : s.normal \in taken
                 \/ \E s, u \in missing : s # u /\ s.normal = u.normal
    IN  /\ At("subdivisions")
        /\ \/ /\ clash
              /\ FailedRun(FALSE)
              /\ UNCHANGED table
           \/ /\ ~ clash
              /\ table' = [table EXCEPT !["subdivisions"] =
                     @ \cup {[key |-> s.name, content |-> s.normal] : s \in missing}]
              /\ cmd' = [cmd EXCEPT !.phase = "rows"]
              /\ UNCHANGED <<runs, source>>
        /\ UNCHANGED <<file, faults, commands, wanted>>

\* Mutation: the climatology goes back to the rows.
AddClimatologyAgain ==
    /\ At("climatology")
    /\ cmd' = [cmd EXCEPT !.phase = "rows"]
    /\ UNCHANGED <<file, table, source, runs, faults, commands, wanted>>

\* An entry is derived from the file and added where the table has none; an
\* entry that is there is kept as it is.
AddClimatology ==
    /\ At("climatology")
    /\ table' = [table EXCEPT !["climatology"] =
           @ \cup {c \in Read.climatology : c.key \notin Keys("climatology")}]
    /\ cmd' = [cmd EXCEPT !.phase = "finish"]
    /\ UNCHANGED <<file, source, runs, faults, commands, wanted>>

-----------------------------------------------------------------------------
(* Roads: the tables are emptied, then the nodes and then the edges.       *)

\* Mutation: only the edges are deleted.
ClearEdges ==
    /\ At("clear")
    /\ table' = [table EXCEPT !["osm"] = {}]
    /\ cmd' = [cmd EXCEPT !.phase = "nodes"]
    /\ UNCHANGED <<file, source, runs, faults, commands, wanted>>

ClearRoads ==
    /\ At("clear")
    /\ table' = [table EXCEPT !["nodes"] = {}, !["osm"] = {}]
    /\ cmd' = [cmd EXCEPT !.phase = "nodes"]
    /\ UNCHANGED <<file, source, runs, faults, commands, wanted>>

AddNodes ==
    /\ At("nodes")
    /\ \/ Load("nodes")
       \/ /\ cmd.rest = <<>>
          /\ cmd' = [cmd EXCEPT !.phase = "rows", !.rest = Read.segments[cmd.limit]]
          /\ UNCHANGED <<file, table, source, runs, faults, commands, wanted>>

-----------------------------------------------------------------------------
(* Faults.                                                                 *)

\* A statement or the parser fails inside the try block.
Struck ==
    /\ faults < MaxFaults /\ faults' = faults + 1
    /\ cmd.todo # <<>> /\ cmd.phase \notin {"source", "run"}
    /\ FailedRun(TRUE)
    /\ UNCHANGED <<file, table, commands, wanted>>

\* The process ends: killed, or a failure outside the try block or while the
\* failure is being recorded.  The run stays "running".
Killed ==
    /\ faults < MaxFaults /\ faults' = faults + 1
    /\ cmd.todo # <<>>
    /\ cmd' = Idle
    /\ UNCHANGED <<file, table, source, runs, commands, wanted>>

\* Nothing is left to do.
Rest == cmd.phase = "idle" /\ commands = MaxCommands /\ UNCHANGED vars

Steps == \/ Register \/ StartRun \/ Rows \/ FinishRun
         \/ AddSubdivisions \/ AddClimatology \/ ClearRoads \/ AddNodes

Next ==
    \/ \E c \in Datasets \cup {"all"}, l \in Limits : Ingest(c, l)
    \/ \E e \in Editions : Replace(e)
    \/ Steps \/ Struck \/ Killed \/ Rest

Spec == Init /\ [][Next]_vars /\ WF_vars(Steps)

-----------------------------------------------------------------------------
(* Properties.                                                             *)

RunsOf(d) == {i \in DOMAIN runs : runs[i].dataset = d}
LastRun(d) == runs[Max(RunsOf(d))]

\* A dataset whose source is "completed" and whose last run is not left
\* "running" is in the tables as a whole: every record the file held when it was
\* last loaded, and for the roads nothing else.  However runs were killed or
\* failed before (an emptied road network, half a catalogue), a reader of
\* dataset_sources and ingestion_runs can tell (runner.py:73-98).
PartialLoadIsVisible ==
    \A d \in Datasets :
        source[d] # None /\ source[d].status = "completed" /\ LastRun(d).status # "running"
        => /\ \A w \in wanted[d] : w[2] \in Keys(w[1])
           /\ d = "osm" => \A t \in {"nodes", "osm"} : \A k \in Keys(t) : <<t, k>> \in wanted[d]

\* The editions write a subdivision in one way: its normalised name is unique.
SpellingsApart ==
    \A e, f \in Editions : \A s \in Contents[e].subdivisions, u \in Contents[f].subdivisions :
        s.normal = u.normal => s = u

Looked == {"gsi", "rainfall", "osm"}

\* The landslides, the rainfall and the roads can be loaded again at any time,
\* from any edition that writes the subdivisions as the others do and after any
\* kill or failure: a run of theirs that nothing strikes is not refused by a
\* unique index (runner.py:119-150, 209-289, 469-567).
RepeatableRunSucceeds ==
    \A i \in DOMAIN runs :
        (runs[i].status = "failed" /\ ~ runs[i].struck) => runs[i].dataset \notin Looked

\* A command ends, so that there is none again and again: each loop reads its
\* file to the end (runner.py:127-180).
EveryCommandEnds == []<>(cmd.phase = "idle")
=============================================================================
