-------------------------------- MODULE SchemaOps --------------------------------
(****************************************************************************)
(* One SQL Server database as a consolidation script sees it, and what the  *)
(* T-SQL blocks that sqlserver/ddl_renderer.py renders do to it.  Every     *)
(* operator takes a database `d' and a step `s' and is pure; the order in   *)
(* which a script runs the blocks is in MigrationScript.                    *)
(*                                                                          *)
(* A column type is a width: type w holds the values 1..w.  A value too     *)
(* wide for its new type is cut to w by a type that rounds (a decimal of    *)
(* fewer digits, a datetime2 of fewer fractions) and refused by any other   *)
(* (a shorter text, an integer that would overflow).  0 stands for NULL,    *)
(* for "no default", for "no fill value" and, as a type, for a column that  *)
(* is not there.                                                            *)
(****************************************************************************)
EXTENDS Naturals, Sequences

CONSTANTS
  Tables,       \* tables, by schema and name
  Columns,      \* column names
  RowIds,       \* identities of rows, so that equal rows stay two rows
  MaxWidth,     \* the widest column type
  Rounding,     \* the types that round a value too wide for them
  Texts,        \* the lengths of a text type
  Asked,        \* pairs of types for which the rows that would lose data are asked for
  Constraints,  \* indexes, keys, checks, foreign keys and blockers that may exist
  Bare,         \* the name of a table without its schema
  MaxSteps      \* the longest script

Null == 0
Types == 1 .. MaxWidth
Cells == 0 .. MaxWidth
Numbers == 1 .. MaxSteps

(* ColumnAttributes: what a comparison knows of a column.                   *)
Attributes == [type: Cells, null: BOOLEAN, dflt: Cells, ident: BOOLEAN]
NoAttributes == [type |-> 0, null |-> TRUE, dflt |-> 0, ident |-> FALSE]

(* A dependent is a key, a unique or other index, check, default or foreign *)
(* key, or a blocker that no script recreates: "other" (an index that is    *)
(* not rowstore, is partitioned or full-text) or "bound" (a schema-bound    *)
(* object).  `ref' and `refcols' matter to a foreign key; `val' is what a   *)
(* default gives, or what a check refuses a row that has it in all columns  *)
(* of the check (0: it refuses nothing, since a NULL passes).               *)
Default(t, c, v) == [kind |-> "default", tbl |-> t, cols |-> {c},
                     ref |-> t, refcols |-> {}, val |-> v]
Dependents ==
  Constraints \cup {Default(t, c, v) : t \in Tables, c \in Columns, v \in 1 .. MaxWidth}
DependentRecords ==
  [kind: {"pk", "unique", "index", "check", "default", "fk", "other", "bound"},
   tbl: Tables, cols: SUBSET Columns, ref: Tables, refcols: SUBSET Columns, val: Cells]

(* A backup is named after the bare table name, the column it keeps (none   *)
(* for a whole table) and the script it belongs to: TRUE is the undo one.   *)
Whole == {}
BackupNames == {Bare[t] : t \in Tables} \X ({Whole} \cup {{c} : c \in Columns}) \X BOOLEAN
BackupName(t, cs, undo) == <<Bare[t], cs, undo>>

Rows == [Columns -> Cells]
RowSets == UNION {[S -> Rows] : S \in SUBSET RowIds}
NoRows == [r \in {} |-> [c \in Columns |-> Null]]
Backups == [cols: SUBSET Columns, rows: RowSets]
NoBackup == [cols |-> {}, rows |-> NoRows]

(* The stored part of a column: its default is a dependent of its own.      *)
Stored(a) == [type |-> a.type, null |-> a.null, ident |-> a.ident]
StoredColumns == [type: Cells, null: BOOLEAN, ident: BOOLEAN]
NoColumns == [c \in Columns |-> Stored(NoAttributes)]

(* A journal: each step that drops adds what it dropped, under its number.  *)
Entries == [step: Numbers, deps: SUBSET Dependents]
Journals == [made: BOOLEAN, entries: Seq(Entries)]
NoJournal == [made |-> FALSE, entries |-> <<>>]

Databases == [cols: [Tables -> [Columns -> StoredColumns]],
              rows: [Tables -> RowSets],
              deps: SUBSET Dependents,
              bak: [BackupNames -> Backups],
              journal: [BOOLEAN -> Journals]]

Kinds == {"create_table", "drop_table", "drop_column", "add_column", "modify_column",
          "restore_table", "restore_column", "unsupported"}
Steps == [kind: Kinds, tbl: Tables, col: Columns,
          target: Attributes,               \* what the column must become
          observed: Attributes,             \* what the comparison saw, or NoAttributes
          table: [Columns -> Attributes],   \* the columns of a table to create or restore
          backfill: Cells,                  \* the user's fill value, or 0
          accept: BOOLEAN,                  \* the user accepted a loss of data
          num: Numbers]                     \* the forward step a restore undoes

ASSUME SchemaAssumption ==
  /\ MaxWidth \in Nat \ {0} /\ MaxSteps \in Nat \ {0}
  /\ Constraints \subseteq DependentRecords
  /\ \A x \in Constraints : /\ x.kind # "default"
                            /\ IF x.kind = "fk" THEN x.refcols # {} ELSE x.ref = x.tbl
  /\ DOMAIN Bare = Tables
(* A text is never rounded: storing one that is too long is an error.       *)
ASSUME TypesAssumption ==
  /\ Rounding \subseteq Types /\ Texts \subseteq Types /\ Asked \subseteq Types \X Types
  /\ Rounding \cap Texts = {}
------------------------------------------------------------------------------------
(* Conditions the scripts evaluate.                                         *)

HasColumn(d, t, c) == d.cols[t][c].type # 0
Exists(d, t) == \E c \in Columns : HasColumn(d, t, c)
Present(d) == {t \in Tables : Exists(d, t)}

DefaultsOn(d, t, c) == {x \in d.deps : x.kind = "default" /\ x.tbl = t /\ x.cols = {c}}

ColumnIs(d, t, c, a) ==
  /\ HasColumn(d, t, c)
  /\ d.cols[t][c] = Stored(a)
  /\ {x.val : x \in DefaultsOn(d, t, c)} = IF a.dflt = Null THEN {} ELSE {a.dflt}

TableIs(d, t, def) ==
  /\ Exists(d, t)
  /\ \A c \in Columns : IF def[c].type = 0 THEN ~HasColumn(d, t, c)
                                           ELSE ColumnIs(d, t, c, def[c])

BackedUp(d, name) == d.bak[name].cols # {}

PkColumns(d, t) == UNION {x.cols : x \in {y \in d.deps : y.kind = "pk" /\ y.tbl = t}}

OnColumn(x, t, c) == \/ x.tbl = t /\ c \in x.cols
                     \/ x.kind = "fk" /\ x.ref = t /\ c \in x.refcols
OnTable(x, t) == x.tbl = t \/ (x.kind = "fk" /\ x.ref = t)

Recreatable == {"pk", "unique", "index", "check", "default", "fk"}

(* Storing v in a column of a type: whether it can be, and what is stored.  *)
Stores(v, type) == v <= type \/ type \in Rounding
Cut(v, type) == IF v > type THEN type ELSE v

(* What the observed column and the target decide when the script is        *)
(* rendered: whether the type or nullability changes, whether the default   *)
(* does, whether text only gets longer, whether rows that lose data are     *)
(* asked for.                                                               *)
Alters(s) == s.observed.type = 0 \/ s.observed.type # s.target.type
                                 \/ s.observed.null # s.target.null
DefaultChanges(s) == s.observed.type = 0 \/ s.observed.dflt # s.target.dflt
OnlyWidens(s) == /\ s.observed.type # 0
                 /\ s.observed.null = s.target.null
                 /\ {s.observed.type, s.target.type} \subseteq Texts
                 /\ s.target.type >= s.observed.type
MayLoseData(s) == <<s.observed.type, s.target.type>> \in Asked

FillsNulls(s) == Alters(s) /\ ~s.target.null /\ (s.observed.type = 0 \/ s.observed.null)
Fill(s) == IF s.backfill # 0 THEN Cut(s.backfill, s.target.type) ELSE s.target.dflt
FillFits(s) == Stores(s.backfill, s.target.type)

Blockers(d, s, widen) ==
  {x \in d.deps : /\ x.tbl = s.tbl /\ s.col \in x.cols
                  /\ x.kind = "bound" \/ (x.kind = "other" /\ ~widen)}

(* Collected by _collect_dependents: recorded, dropped and perhaps          *)
(* recreated around a change.                                               *)
TableDependents(d, s) == {x \in d.deps : x.kind \in Recreatable /\ OnTable(x, s.tbl)}
ColumnDependents(d, s) == {x \in d.deps : x.kind \in Recreatable /\ OnColumn(x, s.tbl, s.col)}
AlterDependents(d, s) ==
  {x \in ColumnDependents(d, s) :
     /\ Alters(s)
     /\ OnlyWidens(s) => x.kind = "fk"
     /\ DefaultChanges(s) => x.kind # "default"}
Keys(X) == {x \in X : x.kind = "fk"}

Column(rows, c) == {rows[r][c] : r \in DOMAIN rows}
------------------------------------------------------------------------------------
(* Phase 1, the checks: "go", "skip" when the step is already in its final  *)
(* state, "abort" when the script throws.                                   *)

NeedsValue(s) == ~s.target.null /\ s.target.dflt = 0 /\ ~s.target.ident

CheckCreateTable(d, s) ==
  IF Exists(d, s.tbl)
    THEN IF TableIs(d, s.tbl, s.table) THEN "skip" ELSE "abort"
    ELSE "go"

CheckDropTable(d, s, undo) ==
  IF ~Exists(d, s.tbl) THEN "skip"
  ELSE IF BackedUp(d, BackupName(s.tbl, Whole, undo)) THEN "abort" ELSE "go"

CheckDropColumn(d, s, undo) ==
  IF ~HasColumn(d, s.tbl, s.col) THEN "skip"
  ELSE IF \/ Blockers(d, s, FALSE) # {}
          \/ BackedUp(d, BackupName(s.tbl, {s.col}, undo))
    THEN "abort" ELSE "go"

CheckAddUnfilled(d, s) ==   \* mutant: does not ask whether the table has rows
  IF HasColumn(d, s.tbl, s.col)
    THEN IF ColumnIs(d, s.tbl, s.col, s.target) THEN "skip" ELSE "abort"
  ELSE IF ~Exists(d, s.tbl) \/ (NeedsValue(s) /\ ~FillFits(s)) THEN "abort" ELSE "go"
CheckAddColumn(d, s) ==
  IF HasColumn(d, s.tbl, s.col)
    THEN IF ColumnIs(d, s.tbl, s.col, s.target) THEN "skip" ELSE "abort"
  ELSE IF \/ ~Exists(d, s.tbl)
          \/ NeedsValue(s) /\ s.backfill = 0 /\ DOMAIN d.rows[s.tbl] # {}
          \/ NeedsValue(s) /\ ~FillFits(s)
    THEN "abort" ELSE "go"

(* The rows that lose data: their value does not convert to the new type,   *)
(* or does not come back from it.  Text that becomes something else is only *)
(* asked whether it converts.                                               *)
LosesUnconvertible(d, s) ==   \* mutant: asks of every value whether it converts
  \E v \in Column(d.rows[s.tbl], s.col) : v # Null /\ ~Stores(v, s.target.type)
LosesRows(d, s) ==
  \E v \in Column(d.rows[s.tbl], s.col) : v # Null /\
    \/ ~Stores(v, s.target.type)
    \/ Cut(v, s.target.type) # v /\ (s.observed.type \in Texts => s.target.type \in Texts)

CheckModifyColumn(d, s) ==
  IF ColumnIs(d, s.tbl, s.col, s.target) THEN "skip"
  ELSE IF \/ ~HasColumn(d, s.tbl, s.col)
          \/ s.observed.type # 0 /\ ~ColumnIs(d, s.tbl, s.col, s.observed)
          \/ d.cols[s.tbl][s.col].ident # s.target.ident
          \/ Alters(s) /\ Blockers(d, s, OnlyWidens(s)) # {}
          \/ FillsNulls(s) /\ Fill(s) = 0 /\ Null \in Column(d.rows[s.tbl], s.col)
          \/ FillsNulls(s) /\ ~FillFits(s)
          \/ Alters(s) /\ MayLoseData(s) /\ ~s.accept /\ LosesRows(d, s)
    THEN "abort" ELSE "go"

CheckRestoreTable(d, s) ==
  IF Exists(d, s.tbl)
    THEN IF TableIs(d, s.tbl, s.table) THEN "skip" ELSE "abort"
  ELSE IF BackedUp(d, BackupName(s.tbl, Whole, FALSE)) /\ d.journal[FALSE].made
    THEN "go" ELSE "abort"

(* The columns by which a restored column finds its rows: the primary key,  *)
(* when the backup holds exactly it and the column; {} when it cannot.      *)
MatchColumns(d, s) ==
  LET kept == d.bak[BackupName(s.tbl, {s.col}, FALSE)].cols \ {s.col}
  IN IF PkColumns(d, s.tbl) = kept THEN kept ELSE {}

CheckRestoreColumn(d, s) ==
  IF ColumnIs(d, s.tbl, s.col, s.target) THEN "skip"
  ELSE IF \/ HasColumn(d, s.tbl, s.col) \/ ~Exists(d, s.tbl)
          \/ ~BackedUp(d, BackupName(s.tbl, {s.col}, FALSE))
          \/ ~d.journal[FALSE].made
          \/ ~s.target.null /\ MatchColumns(d, s) = {}
    THEN "abort" ELSE "go"

Check(d, s, undo) ==
  CASE s.kind = "create_table"   -> CheckCreateTable(d, s)
    [] s.kind = "drop_table"     -> CheckDropTable(d, s, undo)
    [] s.kind = "drop_column"    -> CheckDropColumn(d, s, undo)
    [] s.kind = "add_column"     -> CheckAddColumn(d, s)
    [] s.kind = "modify_column"  -> CheckModifyColumn(d, s)
    [] s.kind = "restore_table"  -> CheckRestoreTable(d, s)
    [] s.kind = "restore_column" -> CheckRestoreColumn(d, s)
    [] OTHER                     -> "abort"
------------------------------------------------------------------------------------
(* Phase 2, the changes.  Can... is what SQL Server itself demands of the   *)
(* statements: when it is false a statement fails.                          *)

BackupKeyless(d, s) ==      \* mutant: the dropped column without its key
  IF s.kind = "drop_column" THEN {s.col} ELSE {c \in Columns : HasColumn(d, s.tbl, c)}
Backup(d, s) ==
  LET pk == PkColumns(d, s.tbl)
  IN IF s.kind = "drop_column" /\ pk # {} /\ s.col \notin pk
       THEN pk \cup {s.col}
       ELSE {c \in Columns : HasColumn(d, s.tbl, c)}
BackupOf(s, undo) ==
  BackupName(s.tbl, IF s.kind = "drop_column" THEN {s.col} ELSE Whole, undo)

(* SELECT ... INTO the backup, after creating the journal when missing.     *)
CanCopy(d, s, undo) == Backup(d, s) # {} /\ ~BackedUp(d, BackupOf(s, undo))
Copy(d, s, undo) ==
  [d EXCEPT !.journal[undo].made = TRUE,
            !.bak[BackupOf(s, undo)] =
               [cols |-> Backup(d, s),
                rows |-> [r \in DOMAIN d.rows[s.tbl] |->
                           [c \in Columns |-> IF c \in Backup(d, s)
                                                THEN d.rows[s.tbl][r][c] ELSE Null]]]]

Journaled(d, X, n, undo) ==
  [d EXCEPT !.journal[undo].entries = Append(@, [step |-> n, deps |-> X])]

CanDropTable(d, s) == Exists(d, s.tbl) /\ \A x \in d.deps : ~(x.tbl = s.tbl /\ x.kind = "bound")
DropTable(d, s, n, undo) ==
  [Journaled(d, TableDependents(d, s), n, undo) EXCEPT
     !.cols[s.tbl] = NoColumns,
     !.rows[s.tbl] = NoRows,
     !.deps = {x \in @ : ~OnTable(x, s.tbl)}]

CanDropColumn(d, s) ==
  /\ HasColumn(d, s.tbl, s.col)
  /\ \E c \in Columns \ {s.col} : HasColumn(d, s.tbl, c)
  /\ Blockers(d, s, FALSE) = {}
DropColumn(d, s, n, undo) ==
  [Journaled(d, ColumnDependents(d, s), n, undo) EXCEPT
     !.cols[s.tbl][s.col] = Stored(NoAttributes),
     !.rows[s.tbl] = [r \in DOMAIN @ |-> [@[r] EXCEPT ![s.col] = Null]],
     !.deps = @ \ ColumnDependents(d, s)]

(* Whether a dependent can be created on `d', itself counted as present: a  *)
(* primary key needs distinct, never NULL values; a unique index distinct   *)
(* ones, where NULL equals NULL; a check no row that it refuses; a foreign  *)
(* key (of one column here) a primary key of the same type that holds its   *)
(* values.                                                                  *)
Distinct(d, t, cs) ==
  \A q, r \in DOMAIN d.rows[t] :
    q # r => \E c \in cs : d.rows[t][q][c] # d.rows[t][r][c]
KeyHolds(d, t, cs) == Distinct(d, t, cs) /\ \A c \in cs : ~d.cols[t][c].null
CheckHolds(d, x) ==
  x.val = Null \/ \A r \in DOMAIN d.rows[x.tbl] : \E c \in x.cols : d.rows[x.tbl][r][c] # x.val
ReferenceHolds(d, x) ==
  /\ x.refcols = PkColumns(d, x.ref)
  /\ \A c \in x.cols, e \in x.refcols :
       /\ d.cols[x.tbl][c].type = d.cols[x.ref][e].type
       /\ Column(d.rows[x.tbl], c) \subseteq Column(d.rows[x.ref], e) \cup {Null}
Addable(d, x) ==
  /\ x.tbl \in Present(d)
  /\ \A c \in x.cols : HasColumn(d, x.tbl, c)
  /\ x.kind = "pk" => /\ KeyHolds(d, x.tbl, x.cols)
                      /\ \A y \in d.deps : y.kind = "pk" /\ y.tbl = x.tbl => y = x
  /\ x.kind = "unique" => Distinct(d, x.tbl, x.cols)
  /\ x.kind = "check" => CheckHolds(d, x)
  /\ x.kind = "fk" => ReferenceHolds(d, x)
  /\ x.kind = "default" => \A c \in x.cols : DefaultsOn(d, x.tbl, c) \subseteq {x}

AddAll(d, X) == [d EXCEPT !.deps = @ \cup X]
CanAddAll(d, X) == X \cap d.deps = {} /\ \A x \in X : Addable(AddAll(d, X), x)

NewDefaults(s) == IF s.target.dflt = 0 THEN {} ELSE {Default(s.tbl, s.col, s.target.dflt)}

CanCreateTable(d, s) == ~Exists(d, s.tbl)
CreateTable(d, s) ==
  [d EXCEPT !.cols[s.tbl] = [c \in Columns |-> Stored(s.table[c])],
            !.rows[s.tbl] = NoRows,
            !.deps = @ \cup {Default(s.tbl, c, s.table[c].dflt) :
                               c \in {e \in Columns : s.table[e].type # 0 /\ s.table[e].dflt # 0}}]

(* What the existing rows get in a new column: a nullable one stays NULL    *)
(* even with a default, IDENTITY numbers the rows (abstracted to 1).        *)
NewValue(s) == IF s.target.ident THEN 1
               ELSE IF s.target.null THEN Null
               ELSE IF s.target.dflt # 0 THEN s.target.dflt ELSE s.backfill
NewCell(s) == Cut(NewValue(s), s.target.type)
CanAddColumn(d, s) ==
  /\ Exists(d, s.tbl) /\ ~HasColumn(d, s.tbl, s.col)
  /\ NeedsValue(s) /\ s.backfill = 0 => DOMAIN d.rows[s.tbl] = {}
  /\ DOMAIN d.rows[s.tbl] # {} => Stores(NewValue(s), s.target.type)
  /\ s.target.ident => \A c \in Columns : HasColumn(d, s.tbl, c) => ~d.cols[s.tbl][c].ident
AddColumn(d, s) ==
  [d EXCEPT !.cols[s.tbl][s.col] = Stored(s.target),
            !.rows[s.tbl] = [r \in DOMAIN @ |-> [@[r] EXCEPT ![s.col] = NewCell(s)]],
            !.deps = @ \cup NewDefaults(s)]

(* ALTER COLUMN after an UPDATE has filled NULL, while the column still has *)
(* its old type; its foreign keys stay dropped until every step has run,    *)
(* its other dependents are recreated at once.                              *)
Filled(old, s, v) == IF v = Null /\ FillsNulls(s) THEN Cut(Fill(s), old) ELSE v
Altered(old, s, v) == IF Alters(s) THEN Cut(Filled(old, s, v), s.target.type) ELSE v
CanAlter(old, s, v) ==
  /\ v = Null /\ FillsNulls(s) => Stores(Fill(s), old)
  /\ Stores(Filled(old, s, v), s.target.type)
  /\ Altered(old, s, v) = Null => s.target.null
AlteredColumn(d, s) ==
  IF Alters(s) THEN [Stored(s.target) EXCEPT !.ident = d.cols[s.tbl][s.col].ident]
               ELSE d.cols[s.tbl][s.col]
AlteredRows(d, s) ==
  [r \in DOMAIN d.rows[s.tbl] |->
    [d.rows[s.tbl][r] EXCEPT
       ![s.col] = Altered(d.cols[s.tbl][s.col].type, s, d.rows[s.tbl][r][s.col])]]
AlteredDeps(d, s) ==
  (IF DefaultChanges(s) THEN (d.deps \ DefaultsOn(d, s.tbl, s.col)) \cup NewDefaults(s)
                        ELSE d.deps) \ Keys(AlterDependents(d, s))
ModifyColumn(d, s) ==
  [d EXCEPT !.cols[s.tbl][s.col] = AlteredColumn(d, s),
            !.rows[s.tbl] = AlteredRows(d, s),
            !.deps = AlteredDeps(d, s)]
CanModifyColumn(d, s) ==
  /\ HasColumn(d, s.tbl, s.col)
  /\ Alters(s) => Blockers(d, s, OnlyWidens(s)) = {}
  /\ Alters(s) => \A v \in Column(d.rows[s.tbl], s.col) :
                    CanAlter(d.cols[s.tbl][s.col].type, s, v)
  /\ \A x \in AlterDependents(d, s) \ Keys(d.deps) : Addable(ModifyColumn(d, s), x)

CanRestoreTable(d, s) ==
  LET bak == d.bak[BackupName(s.tbl, Whole, FALSE)]
  IN /\ ~Exists(d, s.tbl)
     /\ \A c \in Columns : s.table[c].type # 0 =>
          /\ c \in bak.cols
          /\ \A v \in Column(bak.rows, c) : v <= s.table[c].type /\ (v = Null => s.table[c].null)
RestoreTable(d, s) ==
  LET old == d.bak[BackupName(s.tbl, Whole, FALSE)].rows
  IN [d EXCEPT !.cols[s.tbl] = [c \in Columns |-> Stored(s.table[c])],
               !.rows[s.tbl] = [r \in DOMAIN old |->
                                 [c \in Columns |-> IF s.table[c].type # 0 THEN old[r][c] ELSE Null]]]

(* UPDATE ... FROM the backup joined by primary key; NULL where no backup   *)
(* row matches.                                                             *)
Matches(old, row, by) == {old[r] : r \in {q \in DOMAIN old : \A k \in by : old[q][k] = row[k]}}
RestoredCell(d, s, row, by) ==
  LET found == Matches(d.bak[BackupName(s.tbl, {s.col}, FALSE)].rows, row, by)
  IN IF by = {} \/ found = {} THEN Null ELSE (CHOOSE b \in found : TRUE)[s.col]
CanRestoreColumn(d, s, by) ==
  /\ Exists(d, s.tbl) /\ ~HasColumn(d, s.tbl, s.col)
  /\ \A k \in by : HasColumn(d, s.tbl, k)
  /\ \A r \in DOMAIN d.rows[s.tbl] :
       /\ RestoredCell(d, s, d.rows[s.tbl][r], by) <= s.target.type
       /\ ~s.target.null => RestoredCell(d, s, d.rows[s.tbl][r], by) # Null
RestoreColumn(d, s, by) ==
  [d EXCEPT !.cols[s.tbl][s.col] = Stored(s.target),
            !.rows[s.tbl] = [r \in DOMAIN @ |->
                              [@[r] EXCEPT ![s.col] = RestoredCell(d, s, d.rows[s.tbl][r], by)]]]
====================================================================================
