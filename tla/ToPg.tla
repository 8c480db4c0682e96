-------------------------------- MODULE ToPg --------------------------------
(***************************************************************************)
(* The to-pg command, as the infer command runs it once the artifacts are  *)
(* in place: collections whose names differ in the last word only share a  *)
(* table (add_grouped_key), every other collection gets an SQL file of its *)
(* own, and with a base_dir in object storage both are worked on in a      *)
(* staged copy and uploaded again.                                         *)
(*                                                                         *)
(* to-pg gives way at no point but the transfers: its steps are those a    *)
(* kill or a failing file access can fall between.                         *)
(***************************************************************************)
EXTENDS Infer

CONSTANT Grouping    \* add_grouped_key

ASSUME ToPgAssumption == Grouping \in BOOLEAN

VARIABLES
    staged,      \* remote: the copy of the artifacts to-pg works on
    sql,         \* the SQL files, in the project directory or the bucket
    stagedSql    \* remote: the SQL files not uploaded yet

VARIABLES
    groupsLeft,  \* the groups that are still to be looked at
    membersLeft, \* of the group at hand, the members still to be rewritten
    groupOf,     \* the group a collection belongs to, <<>> for none
    sqlLeft,     \* the collections whose SQL is to be written
    outcome      \* ghost: how to-pg ended, "none" while it has not

toPgVars == <<staged, sql, stagedSql, groupsLeft, membersLeft, groupOf, sqlLeft, outcome>>
vars == <<inferVars, toPgVars>>

-----------------------------------------------------------------------------
\* Names and files

\* What stands before the last '_' of the name of a collection.
Prefix(c) == SubSeq(c, 1, Len(c) - 1)

SqlNames == (Collections \cup {Prefix(c) : c \in Collections}) \ {<<>>}
NoSql == [tables |-> {}, whole |-> TRUE]

\* The artifacts to-pg reads and rewrites.
Source(c) == IF remote THEN staged[c] ELSE disk[c]
Readable(c) == Source(c).json \in {"empty", "whole"} /\ ~Torn(Source(c))

PutSource(c, dir) ==
    IF remote
    THEN staged' = [staged EXCEPT ![c] = dir] /\ UNCHANGED disk
    ELSE disk' = [disk EXCEPT ![c] = dir] /\ UNCHANGED staged

PutSql(name, file) ==
    IF remote
    THEN stagedSql' = [stagedSql EXCEPT ![name] = file] /\ UNCHANGED sql
    ELSE sql' = [sql EXCEPT ![name] = file] /\ UNCHANGED stagedSql

\* detect_candidate_groups: at least two collections with the same prefix.
Members(g, present) == Pick(Order, {c \in present : Prefix(c) = g})
CandidateGroups(present) ==
    {g \in {Prefix(c) : c \in present} \ {<<>>} : Len(Members(g, present)) >= 2}

HasJson == {c \in Collections : Source(c).json # "none"}
Representative(g) == Head(Members(g, HasJson))

\* validate_group_schema_compatibility: every schema can be read, and
\* neighbours have a field besides _id in common, as all but empty ones do.
Compatible(g) == \A c \in ToSet(Members(g, HasJson)) : Source(c).json = "whole"

\* The mapping file of a member that is rewritten: the one of its root, or the
\* first by name when that is missing.
RootFile(c) ==
    LET roots == {f \in Source(c).files : f.stem = c}
    IN CHOOSE f \in IF roots # {} THEN roots ELSE Source(c).files : TRUE

Mapped(g) == Pick(Members(g, HasJson), {c \in Collections : Source(c).files # {}})

\* The mapping of each member is parsed before any is rewritten.
Loadable(g) == Mapped(g) # <<>> /\ \A c \in ToSet(Mapped(g)) : RootFile(c).whole

-----------------------------------------------------------------------------
\* Begin

ToPgInit ==
    /\ InferInit
    /\ staged = [c \in Collections |-> NoArtifacts]
    /\ sql = [n \in SqlNames |-> NoSql]
    /\ stagedSql = [n \in SqlNames |-> NoSql]
    /\ groupsLeft = {}
    /\ membersLeft = <<>>
    /\ groupOf = [c \in Collections |-> <<>>]
    /\ sqlLeft = <<>>
    /\ outcome = "none"

\* The command begins with infer.
Begin ==
    /\ BeginRun
    /\ outcome' = "none"
    /\ groupOf' = [c \in Collections |-> <<>>]
    /\ UNCHANGED <<staged, sql, stagedSql, groupsLeft, membersLeft, sqlLeft>>

\* to-pg finds the collections that have a schema.  With nothing in the bucket
\* there is nothing to stage, and the command fails.
BeginToPg ==
    /\ phase = "topg"
    /\ IF remote /\ \A c \in Collections : bucket[c] = NoArtifacts
       THEN /\ phase' = "idle"
            /\ warned' = TRUE
            /\ UNCHANGED <<staged, groupsLeft, sqlLeft>>
       ELSE LET dir == IF remote THEN bucket ELSE disk
                present == {c \in Collections : dir[c].json # "none"}
            IN /\ staged' = IF remote THEN bucket ELSE staged
               /\ groupsLeft' = IF Grouping THEN CandidateGroups(present) ELSE {}
               /\ sqlLeft' = Pick(Order, present)
               /\ phase' = "group"
               /\ UNCHANGED warned
    /\ UNCHANGED <<remote, runs, plan, faults, jobVars, fileVars, sql, stagedSql,
                   membersLeft, groupOf, outcome>>

-----------------------------------------------------------------------------
\* Groups

\* A group whose members do not fit, or cannot be read, is left alone.
SkipGroup(g) ==
    /\ phase = "group"
    /\ membersLeft = <<>>
    /\ g \in groupsLeft
    /\ ~(Compatible(g) /\ Loadable(g))
    /\ groupsLeft' = groupsLeft \ {g}
    /\ warned' = TRUE
    /\ UNCHANGED <<remote, runs, phase, plan, faults, jobVars, fileVars, staged, sql, stagedSql,
                   membersLeft, groupOf, sqlLeft, outcome>>

OpenGroup(g) ==
    /\ phase = "group"
    /\ membersLeft = <<>>
    /\ g \in groupsLeft
    /\ Compatible(g)
    /\ Loadable(g)
    /\ membersLeft' = Mapped(g)
    /\ UNCHANGED <<runVars, jobVars, fileVars, staged, sql, stagedSql,
                   groupsLeft, groupOf, sqlLeft, outcome>>

Rewritten(c, table, whole) ==
    LET root == RootFile(c)
    IN [Source(c) EXCEPT !.files = (@ \ {root}) \cup {File(root.stem, table, root.with, whole)}]

\* The root of a member is mapped to the table of its group.  With the last
\* member the group is settled, for the members without a mapping as well.
RewriteMember ==
    LET c == Head(membersLeft)
        g == Prefix(c)
    IN /\ membersLeft # <<>>
       /\ PutSource(c, Rewritten(c, g, TRUE))
       /\ membersLeft' = Tail(membersLeft)
       /\ IF Tail(membersLeft) = <<>>
          THEN /\ groupOf' = [d \in Collections |->
                                IF d \in ToSet(Members(g, HasJson)) THEN g ELSE groupOf[d]]
               /\ groupsLeft' = groupsLeft \ {g}
          ELSE UNCHANGED <<groupOf, groupsLeft>>
       /\ UNCHANGED <<runVars, jobVars, bucket, moved, settled, sql, stagedSql, sqlLeft, outcome>>

\* Writing a member's mapping fails: its file is torn, the members before it
\* keep the table of the group, and the group is skipped with a warning.
RewriteFails ==
    LET c == Head(membersLeft)
    IN /\ membersLeft # <<>>
       /\ Fault
       /\ PutSource(c, Rewritten(c, Prefix(c), FALSE))
       /\ membersLeft' = <<>>
       /\ groupsLeft' = groupsLeft \ {Prefix(c)}
       /\ settled' = [settled EXCEPT ![c] = {}]
       /\ warned' = TRUE
       /\ UNCHANGED <<remote, runs, phase, plan, jobVars, bucket, moved, sql, stagedSql,
                      groupOf, sqlLeft, outcome>>

GroupsDone ==
    /\ phase = "group"
    /\ membersLeft = <<>>
    /\ groupsLeft = {}
    /\ phase' = "sql"
    /\ UNCHANGED <<remote, runs, plan, warned, faults, jobVars, fileVars, toPgVars>>

-----------------------------------------------------------------------------
\* SQL

SqlName(c) == IF groupOf[c] = <<>> THEN c ELSE groupOf[c]
Represents(c) == c = IF groupOf[c] = <<>> THEN c ELSE Representative(groupOf[c])

\* load_mapping_ddl_tables: the tables of all mapping files of the directory;
\* without any the schema alone gives the table of the collection.
Tables(c) == IF Source(c).files = {} THEN {SqlName(c)} ELSE TablesIn(Source(c))

\* Fault: the SQL file a member had of its own stays.
Stays(c) == UNCHANGED <<sql, stagedSql>>

\* The SQL file a member had before it was grouped is removed.
RemoveOwn(c) == PutSql(c, NoSql)

NextSql == sqlLeft # <<>> /\ phase = "sql"

\* One collection of the list: an SQL file for one that stands for itself or
\* for its group, none for the other members.
WriteSql ==
    LET c == Head(sqlLeft)
    IN /\ NextSql
       /\ \/ /\ ~Represents(c)
             /\ RemoveOwn(c)
          \/ /\ Represents(c)
             /\ Readable(c)
             /\ PutSql(SqlName(c), [tables |-> Tables(c), whole |-> TRUE])
       /\ sqlLeft' = Tail(sqlLeft)
       /\ UNCHANGED <<runVars, jobVars, fileVars, staged, groupsLeft, membersLeft, groupOf, outcome>>

\* A schema or mapping that cannot be parsed, or a failing write, ends the
\* work on this database.
SqlFails ==
    LET c == Head(sqlLeft)
    IN /\ NextSql
       /\ Represents(c)
       /\ \/ /\ ~Readable(c)
             /\ UNCHANGED <<sql, stagedSql, faults>>
          \/ /\ Readable(c)
             /\ Fault
             /\ PutSql(SqlName(c), [tables |-> Tables(c), whole |-> FALSE])
       /\ sqlLeft' = <<>>
       /\ outcome' = "failed"
       /\ warned' = TRUE
       /\ UNCHANGED <<remote, runs, phase, plan, jobVars, fileVars, staged,
                      groupsLeft, membersLeft, groupOf>>

\* The list is done; a staged copy is uploaded.
SqlDone ==
    /\ phase = "sql"
    /\ sqlLeft = <<>>
    /\ phase' = IF remote THEN "publish" ELSE "idle"
    /\ outcome' = IF outcome = "none" THEN "ok" ELSE outcome
    /\ UNCHANGED <<remote, runs, plan, warned, faults, jobVars, fileVars, staged, sql, stagedSql,
                   groupsLeft, membersLeft, groupOf, sqlLeft>>

-----------------------------------------------------------------------------
\* The upload of the staged copy

\* The artifacts of some collections and some SQL files reach the bucket.
PutInBucket(collections, names) ==
    /\ bucket' = [c \in Collections |->
                    IF c \in collections THEN Overlay(bucket[c], staged[c]) ELSE bucket[c]]
    /\ sql' = [n \in SqlNames |->
                 IF n \in names /\ stagedSql[n] # NoSql THEN stagedSql[n] ELSE sql[n]]

DropStage ==
    /\ staged' = [c \in Collections |-> NoArtifacts]
    /\ stagedSql' = [n \in SqlNames |-> NoSql]

Publish ==
    /\ phase = "publish"
    /\ PutInBucket(Collections, SqlNames)
    /\ DropStage
    /\ phase' = "idle"
    /\ UNCHANGED <<remote, runs, plan, warned, faults, jobVars, disk, moved, settled,
                   groupsLeft, membersLeft, groupOf, sqlLeft, outcome>>

\* An upload fails, or the process is killed, with some of the files there.
PublishFails ==
    /\ phase = "publish"
    /\ Fault
    /\ \E collections \in SUBSET Collections, names \in SUBSET SqlNames :
         PutInBucket(collections, names)
    /\ DropStage
    /\ phase' = "idle"
    /\ outcome' = "failed"
    /\ warned' = TRUE
    /\ UNCHANGED <<remote, runs, plan, jobVars, disk, moved, settled,
                   groupsLeft, membersLeft, groupOf, sqlLeft>>

\* The process is killed between two steps of to-pg: the staged copy is lost.
KillToPg ==
    /\ phase \in {"topg", "group", "sql"}
    /\ Fault
    /\ phase' = "idle"
    /\ warned' = TRUE
    /\ outcome' = "failed"
    /\ groupsLeft' = {}
    /\ membersLeft' = <<>>
    /\ sqlLeft' = <<>>
    /\ DropStage
    /\ UNCHANGED <<remote, runs, plan, jobVars, fileVars, sql, groupOf>>

\* Between runs the project may be left as it is; a run that is stuck is a
\* deadlock.
Rest == phase = "idle" /\ UNCHANGED vars

GroupStep ==
    \/ \E g \in groupsLeft : SkipGroup(g) \/ OpenGroup(g)
    \/ RewriteMember
    \/ RewriteFails
    \/ GroupsDone

SqlStep == WriteSql \/ SqlFails \/ SqlDone

Next ==
    \/ Begin
    \/ InferNext /\ UNCHANGED toPgVars
    \/ BeginToPg
    \/ GroupStep
    \/ SqlStep
    \/ Publish
    \/ PublishFails
    \/ KillToPg
    \/ Rest

Spec == ToPgInit /\ [][Next]_vars

-----------------------------------------------------------------------------
\* Properties

Phases == {"idle", "infer", "move", "purge", "topg", "group", "sql", "publish"}

TypeOK ==
    /\ InferTypeOK
    /\ phase \in Phases
    /\ \A c \in Collections : staged[c].json \in Jsons
    /\ groupOf \in [Collections -> SqlNames \cup {<<>>}]
    /\ outcome \in {"none", "ok", "failed"}

\* A document is counted once, and once more for each time its chunk was read
\* again: the statistics of a sample are those of its documents.  Nothing of a
\* $sample that broke off is left in them (infer.rs: the analyzer is made anew).
RecountedOnlyByRetries ==
    \A c \in Collections : \A d \in Ids(c) : counted[c][d] <= 1 + refusals[c]

\* A sample that is complete is as large as asked for, or holds the whole
\* collection, whatever errors its chunks met and wherever they broke off;
\* only an error before the first document of a chunk may cut it short.
SampleIsFull ==
    \A c \in Collections :
        job[c] = "write" /\ ~cut[c] =>
            Cardinality({d \in Ids(c) : counted[c][d] > 0}) >= Fewest(SampleSize, Len(Docs[c]))

\* In a local project two collections share a table only as the members of a
\* group, or when the one was inferred by a run that had excluded the other:
\* no order in which the jobs finish gives one name to two of their tables.
OneCollectionPerTable ==
    LET grouped(f) == f.table # f.stem
        excluded(c, f, g) == f.table = c /\ c \notin g.with
    IN ~remote =>
         \A c \in Collections : \A d \in Collections \ {c} :
             \A f \in disk[c].files, g \in disk[d].files :
                 f.table = g.table =>
                     grouped(f) \/ grouped(g) \/ excluded(c, f, g) \/ excluded(d, g, f)

\* A mapping file that was written stays in the project directory until it is
\* in the bucket, whichever upload fails and wherever the process is killed.
NothingLostByMove ==
    \A c \in Collections :
        settled[c] \subseteq {f.stem : f \in {g \in disk[c].files \cup bucket[c].files : g.whole}}

\* When to-pg came to its end the SQL files say what the mapping files say:
\* each collection's tables are in its own SQL file or its group's, all
\* members of a group are mapped to the group's table, and in a local project
\* no member that stands behind another still has an SQL file.  A collection
\* with the name of a group shares an SQL file with it; nothing is said of it.
SqlMatchesMappings ==
    LET home(c) == IF remote THEN bucket[c] ELSE disk[c]
        tables(c) == IF home(c).files = {} THEN {c} ELSE TablesIn(home(c))
        present(c) == home(c).json # "none"
        alone(c) == groupOf[c] = <<>>
        stands(c) == c = Head(Pick(Order, {d \in Collections : groupOf[d] = groupOf[c]}))
        shared(n) == n \in Collections /\ \E d \in Collections : groupOf[d] = n
    IN phase = "idle" /\ outcome = "ok" =>
         \A c \in Collections :
             /\ present(c) /\ alone(c) /\ ~shared(c) =>
                  sql[c] = [tables |-> tables(c), whole |-> TRUE]
             /\ ~alone(c) =>
                  /\ ~shared(groupOf[c]) => groupOf[c] \in sql[groupOf[c]].tables
                  /\ \A f \in home(c).files : f.stem = c => f.table = groupOf[c]
                  /\ ~remote /\ ~stands(c) /\ ~shared(c) => sql[c] = NoSql
=============================================================================
