---------------------------- MODULE ReportRules ----------------------------
(***************************************************************************)
(* What the post-import report decides from counts and checksums, and from *)
(* which column of a table its reading can be resumed.                     *)
(***************************************************************************)
EXTENDS Bson

\* The table of the collection itself: of its name, or the first of the script.
RootTableName(sql, name) ==
    LET same == SelectSeq(sql, LAMBDA t : t.name = Sanitize(name))
    IN  IF same # << >> THEN Head(same).name ELSE Head(sql).name

\* The column a reading of the table can be resumed from, if one is compared.
ResumeColumn(target) ==
    LET byId == SelectSeq(target.cols, LAMBDA c : c.src = << "_id" >>)
        id   == SelectSeq(target.cols, LAMBDA c : c.col = "id")
    IN  IF byId # << >> THEN Some(Head(byId).col)
        ELSE IF id # << >> THEN Some("id") ELSE None

(***************************************************************************)
(* Warnings.  A checksum that agrees overrules a count that does not, and  *)
(* a difference of counts is only reported when the checksums of the table *)
(* show differing rows.  `md5` maps the tables that were hashed to whether *)
(* the two sides agree.                                                    *)
(***************************************************************************)
MismatchTables(counts, rows, md5) ==
    { c.table : c \in { x \in counts : /\ x.count # Len(rows[x.table])
                                       /\ ~ (x.table \in DOMAIN md5 /\ md5[x.table]) } }

\* Fault: only counts are warned of.
CountWarnings(counts, rows, md5, diffs) ==
    { << t, "rowcount_mismatch" >> : t \in MismatchTables(counts, rows, md5) }

\* `diffs` are the checksums the differences of the counts are explained with.
WarningEntries(counts, rows, md5, diffs) ==
    { << t, "md5_mismatch" >> :
        t \in { c.table : c \in { x \in counts : x.table \in DOMAIN md5 /\ ~ md5[x.table] } } }
    \cup
    { << t, "rowcount_mismatch" >> :
        t \in { x \in MismatchTables(counts, rows, md5) : x \in DOMAIN diffs /\ ~ diffs[x] } }
=============================================================================
