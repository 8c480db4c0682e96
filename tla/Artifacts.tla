----------------------------- MODULE Artifacts -----------------------------
(***************************************************************************)
(* What mongo2pg export and mongo2pg import share: the source collections, *)
(* the SQL files to-pg has written, and the CSV files that the one command *)
(* leaves, in a directory or in a bucket, for the other.                   *)
(*                                                                         *)
(* An SQL file is named for a collection or for a group of collections and *)
(* declares a root table and a child table.  A document is the number its  *)
(* _id is ordered by; its row in the root table has that key, its rows in  *)
(* the child table have numbers the export counts out.                     *)
(***************************************************************************)
EXTENDS Naturals, Sequences, FiniteSets, SequencesExt, FiniteSetsExt, Subsequences

CONSTANTS
    Docs,           \* documents, ordered as their _id
    CollOf,         \* the collection of each
    KidsOf,         \* the number of child rows of each
    SqlFiles,       \* names of the SQL files, in order
    FileOf,         \* the SQL file a collection is exported through
    RootOf,         \* SQL file: its root table
    ChildOf,        \* SQL file: its child table
    AliasOf,        \* table: the name its file is copied to, or None
    DirOrder,       \* names of data directories, in the order of paths
    None            \* no alias, no document

Colls      == DOMAIN FileOf
Tables     == Range(RootOf) \union Range(ChildOf)
TablesOf(g) == {RootOf[g], ChildOf[g]}
Aliases    == Range(AliasOf) \ {None}

\* A collection with an SQL file of its own name is exported through that one.
\* A table is declared once, and an alias is not a table of the same SQL file.
ASSUME ArtifactsAssumption ==
    /\ Docs \subseteq Nat \ {0} /\ IsFiniteSet(Docs)
    /\ CollOf \in [Docs -> Colls] /\ KidsOf \in [Docs -> Nat]
    /\ SqlFiles \in Seq(Range(SqlFiles)) /\ IsInjective(SqlFiles)
    /\ SqlFiles # <<>> /\ None \notin Range(SqlFiles) \union Docs
    /\ FileOf \in [Colls -> Range(SqlFiles)]
    /\ \A c \in Colls \intersect Range(SqlFiles) : FileOf[c] = c
    /\ DOMAIN RootOf = Range(SqlFiles) /\ DOMAIN ChildOf = Range(SqlFiles)
    /\ IsInjective(RootOf) /\ IsInjective(ChildOf)
    /\ Range(RootOf) \intersect Range(ChildOf) = {}
    /\ DOMAIN AliasOf = Tables
    /\ \A g \in Range(SqlFiles) : \A t \in TablesOf(g) :
         AliasOf[t] \notin TablesOf(g)
    /\ DirOrder \in Seq(Range(DirOrder)) /\ IsInjective(DirOrder)
    /\ Colls \union Range(SqlFiles) \subseteq Range(DirOrder)

VARIABLES
    natural,        \* collection: documents in the order a scan returns them
    remote,         \* artifacts go to a bucket
    files,          \* local CSV files: path to content
    objects         \* CSV files of the bucket: key to content

Line == [key : Nat, doc : Docs]
Path == Range(DirOrder) \X (Tables \union Aliases)
File == [lines : Seq(Line), whole : BOOLEAN]

\* f has no entry for the paths in P.
Without(f, P) == [p \in DOMAIN f \ P |-> f[p]]

InDir(dir) == {p \in DOMAIN files : p[1] = dir}

Stored == UNION {Range(natural[c]) : c \in Colls}
============================================================================
