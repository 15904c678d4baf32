--------------------------- MODULE SchemaMigration ---------------------------
(***************************************************************************)
(* Opening a SQLite database: SqliteStorage::open of                        *)
(* ast-graph-storage/src/sqlite/mod.rs, create_schema and migrate_schema of *)
(* sqlite/schema.rs, by processes that may die at any statement and share   *)
(* the file.                                                                *)
(*                                                                          *)
(* Kept of the file: the objects that exist, the columns that edges has     *)
(* beyond source_id, target_id and kind, the highest version stamped, and   *)
(* of the data whether symbols are stored and how many of them symbol_fts   *)
(* has rows for.  `CREATE ... IF NOT EXISTS` of an object whose absence no  *)
(* statement can notice (the other indexes) is left out.                    *)
(***************************************************************************)
EXTENDS Integers, Sequences

CONSTANTS
    Openers,    \* processes that open the file
    Origins,    \* what the file may be at the start, names of OriginFiles
    MayCrash    \* whether processes die in the middle

SCHEMA_VERSION == 4

Triggers == {"nodes_fts_ai", "nodes_fts_ad", "nodes_fts_au"}
EdgeIndexes == {"idx_edges_source_line", "idx_edges_confidence"}
BaseTables == {"schema_version", "nodes", "edges", "file_hashes"}
AllColumns == {"source_line", "confidence"}

\* create_schema, statement by statement.
CreateStatements ==
    <<"schema_version", "nodes", "edges", "symbol_fts", "file_hashes",
      "idx_edges_source_line", "idx_edges_confidence",
      "nodes_fts_ai", "nodes_fts_ad", "nodes_fts_au">>

AllObjects == {CreateStatements[k] : k \in 1 .. Len(CreateStatements)}

\* The columns that the index on edges names.
NeededColumns(object) ==
    CASE object = "idx_edges_source_line" -> {"source_line"}
      [] object = "idx_edges_confidence" -> {"confidence"}
      [] OTHER -> {}

DropStatements == <<"nodes_fts_ai", "nodes_fts_ad", "nodes_fts_au", "symbol_fts">>

\* The files that releases of the program left behind, by schema version
\* (schema.rs:5-9), with or without a scan saved.  "v0" has the first layout
\* and no stamp; "half" is version 3 with the column of version 4, as "a
\* half-finished run" leaves it (schema.rs:226).
OriginFiles ==
    [fresh |-> [objects |-> {}, columns |-> {}, version |-> 0],
     v0 |-> [objects |-> BaseTables, columns |-> {}, version |-> 0],
     v1 |-> [objects |-> BaseTables, columns |-> {}, version |-> 1],
     v2 |-> [objects |-> BaseTables, columns |-> {}, version |-> 2],
     v3 |-> [objects |-> BaseTables \cup {"idx_edges_source_line"},
             columns |-> {"source_line"}, version |-> 3],
     half |-> [objects |-> BaseTables \cup {"idx_edges_source_line"},
               columns |-> AllColumns, version |-> 3],
     v4 |-> [objects |-> AllObjects, columns |-> AllColumns, version |-> 4]]

ASSUME OriginsAssumption == Origins \subseteq DOMAIN OriginFiles

VARIABLES
    objects,    \* tables, indexes and triggers that exist
    columns,    \* columns of edges beyond the first three
    version,    \* SELECT MAX(version) FROM schema_version, 0 when empty
    rows,       \* whether nodes and edges have rows
    indexed,    \* whether symbol_fts has rows for "none", "some" or "all" of them
    stage,      \* where each process is
    at,         \* the next statement of the batch it executes
    seen,       \* the version it read
    counted,    \* whether it counted any row
    disturbed   \* whether a migration died or another process used the file meanwhile

file == <<objects, columns, version, rows, indexed>>
local == <<stage, at, seen, counted>>
schemaVars == <<file, local, disturbed>>

SchemaInit ==
    /\ \E name \in Origins :
        LET f == OriginFiles[name] IN
        /\ objects = f.objects /\ columns = f.columns /\ version = f.version
        /\ rows \in IF name = "fresh" THEN {FALSE} ELSE BOOLEAN
        /\ indexed = IF rows /\ "symbol_fts" \in objects THEN "all" ELSE "none"
    /\ stage = [p \in Openers |-> "closed"]
    /\ at = [p \in Openers |-> 1]
    /\ seen = [p \in Openers |-> 0]
    /\ counted = [p \in Openers |-> FALSE]
    /\ disturbed = FALSE

Goto(p, l) == stage' = [stage EXCEPT ![p] = l]

\* Connection::open and the pragmas.
Open(p) ==
    /\ stage[p] = "closed"
    /\ Goto(p, "create")
    /\ at' = [at EXCEPT ![p] = 1]
    /\ seen' = [seen EXCEPT ![p] = 0]
    /\ counted' = [counted EXCEPT ![p] = FALSE]
    /\ UNCHANGED <<file>>

\* The first call of create_schema is followed by migrate_schema, the one at
\* the end of migrate_schema by the backfill.
AfterCreate(p) == IF stage[p] = "create" THEN "read_version" ELSE "count_fts"

\* CREATE ... IF NOT EXISTS.  A new edges table has the latest columns.
Create(object) ==
    /\ objects' = objects \cup {object}
    /\ columns' = IF object = "edges" /\ object \notin objects THEN AllColumns ELSE columns
    /\ UNCHANGED indexed

\* Mutants: errors of the batch are ignored; the batch ends where `nodes` is
\* found to exist.
CreateStep_IgnoreErrors(p) ==
    /\ stage[p] \in {"create", "create_again"}
    /\ IF NeededColumns(CreateStatements[at[p]]) \subseteq columns
       THEN Create(CreateStatements[at[p]])
       ELSE UNCHANGED <<objects, columns, indexed>>
    /\ at' = [at EXCEPT ![p] = IF @ = Len(CreateStatements) THEN 1 ELSE @ + 1]
    /\ Goto(p, IF at[p] = Len(CreateStatements) THEN AfterCreate(p) ELSE stage[p])
    /\ UNCHANGED <<version, rows, seen, counted>>
CreateStep_SkipIfNodes(p) ==
    /\ stage[p] \in {"create", "create_again"}
    /\ IF CreateStatements[at[p]] = "nodes" /\ "nodes" \in objects
       THEN /\ at' = [at EXCEPT ![p] = 1]
            /\ Goto(p, AfterCreate(p))
            /\ UNCHANGED <<objects, columns, indexed>>
       ELSE /\ Create(CreateStatements[at[p]])
            /\ at' = [at EXCEPT ![p] = IF @ = Len(CreateStatements) THEN 1 ELSE @ + 1]
            /\ Goto(p, IF at[p] = Len(CreateStatements) THEN AfterCreate(p) ELSE stage[p])
    /\ UNCHANGED <<version, rows, seen, counted>>

\* One statement of create_schema's batch, autocommitted.  An index over a
\* column that edges does not have is an error, which ends the open.
CreateStep(p) ==
    /\ stage[p] \in {"create", "create_again"}
    /\ LET object == CreateStatements[at[p]]
           last == at[p] = Len(CreateStatements) IN
       IF object \notin objects /\ ~(NeededColumns(object) \subseteq columns)
       THEN /\ Goto(p, "failed")
            /\ UNCHANGED <<objects, columns, indexed, at>>
       ELSE /\ Create(object)
            /\ at' = [at EXCEPT ![p] = IF last THEN 1 ELSE @ + 1]
            /\ Goto(p, IF last THEN AfterCreate(p) ELSE stage[p])
    /\ UNCHANGED <<version, rows, seen, counted>>

ReadVersion(p) ==
    /\ stage[p] = "read_version"
    /\ seen' = [seen EXCEPT ![p] = version]
    /\ Goto(p, IF version >= SCHEMA_VERSION THEN "opened" ELSE "count_nodes")
    /\ UNCHANGED <<file, at, counted>>

CountNodes(p) ==
    /\ stage[p] = "count_nodes"
    /\ counted' = [counted EXCEPT ![p] = rows]
    /\ Goto(p, "count_edges")
    /\ UNCHANGED <<file, at, seen>>

\* The migration steps still to run for the version read.
FirstMigration(v) == IF v < 2 THEN "to_v2" ELSE IF v < 3 THEN "to_v3" ELSE "to_v4"

CountEdges(p) ==
    /\ stage[p] = "count_edges"
    /\ counted' = [counted EXCEPT ![p] = @ \/ rows]
    /\ Goto(p, IF seen[p] = 0 /\ ~counted'[p] THEN "stamp" ELSE FirstMigration(seen[p]))
    /\ UNCHANGED <<file, at, seen>>

\* A fresh database is stamped with the current version.
StampFresh(p) ==
    /\ stage[p] = "stamp"
    /\ version' = SCHEMA_VERSION
    /\ Goto(p, "opened")
    /\ UNCHANGED <<objects, columns, rows, indexed, at, seen, counted>>

\* v1 -> v2 and v2 -> v3: rename, recreate, copy in one transaction, which
\* takes the indexes and triggers of the dropped tables along.  The first
\* copies edges with SELECT * into three columns and fails if there are more.
Rebuild(p) ==
    /\ stage[p] \in {"to_v2", "to_v3"}
    /\ IF stage[p] = "to_v2" /\ columns # {}
       THEN Goto(p, "failed") /\ UNCHANGED <<objects, columns, version>>
       ELSE LET v2 == stage[p] = "to_v2" IN
            /\ objects' = objects \ (EdgeIndexes \cup IF v2 THEN Triggers ELSE {})
            /\ columns' = IF v2 THEN {} ELSE {"source_line"}
            /\ version' = IF v2 THEN (IF version < 2 THEN 2 ELSE version)
                                ELSE (IF version < 3 THEN 3 ELSE version)
            /\ Goto(p, IF v2 THEN "to_v3" ELSE "to_v4")
    /\ UNCHANGED <<rows, indexed, at, seen, counted>>

\* v3 -> v4, first the batch that drops the full-text objects,
DropFts(p) ==
    /\ stage[p] = "to_v4"
    /\ LET object == DropStatements[at[p]]
           last == at[p] = Len(DropStatements) IN
       /\ objects' = objects \ {object}
       /\ indexed' = IF object = "symbol_fts" THEN "none" ELSE indexed
       /\ at' = [at EXCEPT ![p] = IF last THEN 1 ELSE @ + 1]
       /\ Goto(p, IF last THEN "add_column" ELSE "to_v4")
    /\ UNCHANGED <<columns, version, rows, seen, counted>>

\* then the new column, whose error (it is there already) is ignored,
AddColumn(p) ==
    /\ stage[p] = "add_column"
    /\ columns' = columns \cup {"confidence"}
    /\ Goto(p, "stamp_v4")
    /\ UNCHANGED <<objects, version, rows, indexed, at, seen, counted>>

\* then the stamp, and create_schema again.
StampV4(p) ==
    /\ stage[p] = "stamp_v4"
    /\ version' = 4
    /\ Goto(p, "create_again")
    /\ UNCHANGED <<objects, columns, rows, indexed, at, seen, counted>>

CountFts(p) ==
    /\ stage[p] = "count_fts"
    /\ Goto(p, IF indexed # "none" \/ ~rows THEN "opened" ELSE "backfill")
    /\ UNCHANGED <<file, at, seen, counted>>

Backfill(p) ==
    /\ stage[p] = "backfill"
    /\ indexed' = IF "symbol_fts" \in objects THEN "all" ELSE indexed
    /\ Goto(p, IF "symbol_fts" \in objects THEN "opened" ELSE "failed")
    /\ UNCHANGED <<objects, columns, version, rows, at, seen, counted>>

\* save_graph of a process that has the file open; nodes_fts_ai, when it
\* exists, indexes what is inserted.
Save(p) ==
    /\ stage[p] = "opened"
    /\ "symbol_fts" \in objects \/ "nodes_fts_ai" \notin objects
    /\ rows' = TRUE
    /\ indexed' = CASE "nodes_fts_ai" \notin objects -> IF indexed = "all" THEN "some" ELSE indexed
                    [] rows /\ indexed = "none" -> "some"
                    [] OTHER -> IF rows THEN indexed ELSE "all"
    /\ UNCHANGED <<objects, columns, version, local>>

\* The command ends, or reports the error of its open.
Close(p) ==
    /\ stage[p] \in {"opened", "failed"}
    /\ Goto(p, "closed")
    /\ UNCHANGED <<file, at, seen, counted>>

Die(p) ==
    /\ MayCrash
    /\ stage[p] \notin {"closed", "opened", "failed"}
    /\ Goto(p, "closed")
    /\ UNCHANGED <<file, at, seen, counted>>

OpenStep(p) ==
    \/ CreateStep(p) \/ ReadVersion(p) \/ CountNodes(p) \/ CountEdges(p)
    \/ StampFresh(p) \/ Rebuild(p) \/ DropFts(p) \/ AddColumn(p) \/ StampV4(p)
    \/ CountFts(p) \/ Backfill(p)

\* From the first DROP of the last migration to the end of the backfill.
Migrating(p) ==
    stage[p] \in {"to_v4", "add_column", "stamp_v4", "create_again", "count_fts", "backfill"}

Disturbs ==
    \/ \E p \in Openers : Migrating(p) /\ stage'[p] = "closed"
    \/ \E p, q \in Openers : p # q /\ Migrating(p)' /\ stage'[q] # "closed"

SchemaNext ==
    /\ \E p \in Openers : Open(p) \/ OpenStep(p) \/ Save(p) \/ Close(p) \/ Die(p)
    /\ disturbed' = (disturbed \/ Disturbs)

SchemaSpec == SchemaInit /\ [][SchemaNext]_schemaVars

(***************************************************************************)
(* Properties.                                                              *)
(***************************************************************************)

\* The stamp is not ahead of the tables: a file stamped with the current
\* version has the current columns, whatever crashed before the stamp
\* (schema.rs:120, 132-138).
StampMeansColumns == version = SCHEMA_VERSION => columns = AllColumns

\* A process that was let in finds every table, index and trigger, also when
\* an earlier open died between two statements of create_schema, and whatever
\* other processes open and save meanwhile (schema.rs:16-105), and it finds all
\* symbols that are stored through the index: a migrated file is backfilled
\* before its open returns (schema.rs:238-254).  The exception is a migration
\* during which others use the file: it drops objects, and stamps the version
\* before the index is recreated and filled.
OpenedIsUsable ==
    ~disturbed /\ (\E p \in Openers : stage[p] = "opened") =>
        objects = AllObjects /\ (rows => indexed = "all")

\* schema.rs:107 says that an existing database is migrated to the current
\* version: an open does not fail.
MigrationSucceeds == \A p \in Openers : stage[p] # "failed"
=============================================================================
