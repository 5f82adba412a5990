----------------------------- MODULE MigrationProofs -----------------------------
(****************************************************************************)
(* Theorems about MigrationScript for every set of tables, decisions,       *)
(* databases and bounds: types and rollback; from SameNotions on, that      *)
(* MigrationScript implements AtomicScript, a script keeps its promise to   *)
(* the other sessions; from OnlyCommitCommits on, what a committed script,  *)
(* or undo script, has done to the database.                                *)
(****************************************************************************)
EXTENDS MigrationSafety, SequenceTheorems, TLAPS

(* A set of rows is a function from some row identities to rows.            *)
LEMMA RowSetIntro ==
  ASSUME NEW S \in SUBSET RowIds, NEW f \in [S -> Rows]
  PROVE  f \in RowSets
  BY DEF RowSets

LEMMA RowSetElim ==
  ASSUME NEW f \in RowSets
  PROVE  DOMAIN f \in SUBSET RowIds /\ f \in [DOMAIN f -> Rows]
  BY DEF RowSets

(* What a database is made of, one fact per field.                          *)
LEMMA DatabaseFields ==
  ASSUME NEW d \in Databases, NEW t \in Tables
  PROVE  /\ d.cols[t] \in [Columns -> StoredColumns]
         /\ d.rows[t] \in RowSets
         /\ d.deps \in SUBSET Dependents
         /\ \A b \in BackupNames : d.bak[b] \in Backups
         /\ \A u \in BOOLEAN : d.journal[u] \in Journals
  BY DEF Databases

(* Changing one table, the dependents and one journal of a database gives a *)
(* database.                                                                *)
LEMMA DatabaseUpdate ==
  ASSUME NEW d \in Databases, NEW t \in Tables,
         NEW cols \in [Columns -> StoredColumns], NEW rows \in RowSets,
         NEW deps \in SUBSET Dependents, NEW u \in BOOLEAN, NEW j \in Journals
  PROVE  [d EXCEPT !.cols[t] = cols, !.rows[t] = rows, !.deps = deps,
                   !.journal[u] = j] \in Databases
  BY DEF Databases

(* Types of columns, defaults and backup names.                             *)
LEMMA Zero == 0 \in Cells /\ 1 \in Cells
  BY SchemaAssumption DEF Cells

LEMMA StoredType ==
  ASSUME NEW a \in Attributes
  PROVE  Stored(a) \in StoredColumns
  BY DEF Stored, Attributes, StoredColumns

LEMMA NoAttributesType == NoAttributes \in Attributes /\ Stored(NoAttributes) \in StoredColumns
  BY Zero, StoredType DEF NoAttributes, Attributes

LEMMA NoColumnsType == NoColumns \in [Columns -> StoredColumns] /\ NoRows \in RowSets
  <1>1. NoColumns \in [Columns -> StoredColumns]
    BY NoAttributesType DEF NoColumns
  <1>2. NoRows \in [{} -> Rows]
    BY Zero DEF NoRows, Rows, Null
  <1>3. QED  BY <1>1, <1>2, RowSetIntro

LEMMA DefaultType ==
  ASSUME NEW t \in Tables, NEW c \in Columns, NEW v \in Cells, v # 0
  PROVE  Default(t, c, v) \in Dependents
  <1>1. v \in 1 .. MaxWidth
    BY SchemaAssumption DEF Cells
  <1>2. QED  BY <1>1 DEF Dependents

LEMMA DependentType ==
  ASSUME NEW x \in Dependents
  PROVE  /\ x \in DependentRecords
         /\ x.kind # "fk" => x.ref = x.tbl
  <1>1. CASE x \in Constraints
    BY <1>1, SchemaAssumption
  <1>2. CASE \E t \in Tables, c \in Columns, v \in 1 .. MaxWidth : x = Default(t, c, v)
    BY <1>2, SchemaAssumption DEF Default, DependentRecords, Cells
  <1>3. QED  BY <1>1, <1>2 DEF Dependents

LEMMA BackupNameType ==
  ASSUME NEW t \in Tables, NEW c \in Columns, NEW u \in BOOLEAN
  PROVE  BackupName(t, Whole, u) \in BackupNames /\ BackupName(t, {c}, u) \in BackupNames
  BY DEF BackupName, BackupNames
-----------------------------------------------------------------------------------
(* Every change of phase 2 takes a database to a database.                  *)

LEMMA StepFields ==
  ASSUME NEW s \in Steps
  PROVE  /\ s.kind \in Kinds /\ s.tbl \in Tables /\ s.col \in Columns
         /\ s.target \in Attributes /\ s.observed \in Attributes
         /\ s.table \in [Columns -> Attributes]
         /\ s.backfill \in Cells /\ s.accept \in BOOLEAN /\ s.num \in Numbers
  BY DEF Steps

LEMMA PkColumnsType ==
  ASSUME NEW d \in Databases, NEW t \in Tables
  PROVE  PkColumns(d, t) \subseteq Columns
  <1>1. \A x \in d.deps : x.cols \subseteq Columns
    BY DatabaseFields, DependentType DEF DependentRecords
  <1>2. QED  BY <1>1 DEF PkColumns

LEMMA BackupType ==
  ASSUME NEW d \in Databases, NEW s \in Steps, NEW u \in BOOLEAN
  PROVE  Backup(d, s) \subseteq Columns /\ BackupOf(s, u) \in BackupNames
  <1>1. Backup(d, s) \subseteq Columns
    BY StepFields, PkColumnsType DEF Backup
  <1>2. BackupOf(s, u) \in BackupNames
    BY StepFields, BackupNameType DEF BackupOf
  <1>3. QED  BY <1>1, <1>2

LEMMA CopyType ==
  ASSUME NEW d \in Databases, NEW s \in Steps, NEW u \in BOOLEAN
  PROVE  Copy(d, s, u) \in Databases
  <1> DEFINE new == [cols |-> Backup(d, s),
                     rows |-> [r \in DOMAIN d.rows[s.tbl] |->
                                [c \in Columns |-> IF c \in Backup(d, s)
                                                     THEN d.rows[s.tbl][r][c] ELSE Null]]]
  <1>1. d.rows[s.tbl] \in RowSets
    BY StepFields, DatabaseFields
  <1>2. \A r \in DOMAIN d.rows[s.tbl] : d.rows[s.tbl][r] \in Rows
    BY <1>1, RowSetElim
  <1>3. new.rows \in [DOMAIN d.rows[s.tbl] -> Rows]
    BY <1>2, Zero DEF Rows, Null
  <1>4. new \in Backups
    BY <1>1, <1>3, RowSetElim, RowSetIntro, BackupType DEF Backups
  <1>5. d.journal[u] \in Journals /\ [d.journal[u] EXCEPT !.made = TRUE] \in Journals
    BY DatabaseFields, StepFields DEF Journals
  <1>6. [d.journal EXCEPT ![u].made = TRUE] \in [BOOLEAN -> Journals]
    BY <1>5 DEF Databases
  <1>7. [d.bak EXCEPT ![BackupOf(s, u)] = new] \in [BackupNames -> Backups]
    BY <1>4, BackupType DEF Databases
  <1> HIDE DEF new
  <1>8. [d EXCEPT !.journal[u].made = TRUE, !.bak[BackupOf(s, u)] = new] \in Databases
    BY <1>6, <1>7 DEF Databases
  <1>9. QED  BY <1>8 DEF Copy, new

LEMMA JournaledType ==
  ASSUME NEW d \in Databases, NEW X \in SUBSET Dependents, NEW n \in Numbers, NEW u \in BOOLEAN
  PROVE  /\ Journaled(d, X, n, u) \in Databases
         /\ Journaled(d, X, n, u).cols = d.cols
         /\ Journaled(d, X, n, u).rows = d.rows
         /\ Journaled(d, X, n, u).deps = d.deps
  <1> DEFINE e == [step |-> n, deps |-> X]
  <1>1. e \in Entries
    BY DEF Entries
  <1>2. d.journal[u] \in Journals
    BY DEF Databases
  <1>3. Append(d.journal[u].entries, e) \in Seq(Entries)
    BY <1>1, <1>2 DEF Journals
  <1> HIDE DEF e
  <1>4. [d.journal[u] EXCEPT !.entries = Append(d.journal[u].entries, e)] \in Journals
    BY <1>2, <1>3 DEF Journals
  <1>5. [d EXCEPT !.journal[u].entries = Append(@, e)] \in Databases
    BY <1>4 DEF Databases
  <1>6. QED  BY <1>5 DEF Journaled, e, Databases

LEMMA CollectedType ==
  ASSUME NEW d \in Databases, NEW s \in Steps
  PROVE  /\ TableDependents(d, s) \in SUBSET Dependents
         /\ ColumnDependents(d, s) \in SUBSET Dependents
         /\ AlterDependents(d, s) \in SUBSET Dependents
  BY DatabaseFields, StepFields DEF TableDependents, ColumnDependents, AlterDependents

LEMMA NewDefaultsType ==
  ASSUME NEW s \in Steps
  PROVE  NewDefaults(s) \in SUBSET Dependents
  <1>1. s.target.dflt \in Cells
    BY StepFields DEF Attributes
  <1>2. QED  BY <1>1, StepFields, DefaultType DEF NewDefaults

(* Overwriting one column of every row.                                     *)
LEMMA ColumnOverwritten ==
  ASSUME NEW rows \in RowSets, NEW c \in Columns, NEW new \in [DOMAIN rows -> Cells]
  PROVE  [r \in DOMAIN rows |-> [rows[r] EXCEPT ![c] = new[r]]] \in RowSets
  <1>1. \A r \in DOMAIN rows : rows[r] \in Rows
    BY RowSetElim
  <1>2. \A r \in DOMAIN rows : [rows[r] EXCEPT ![c] = new[r]] \in Rows
    BY <1>1 DEF Rows
  <1>3. QED  BY <1>2, RowSetElim, RowSetIntro

LEMMA DropTableType ==
  ASSUME NEW d \in Databases, NEW s \in Steps, NEW n \in Numbers, NEW u \in BOOLEAN
  PROVE  DropTable(d, s, n, u) \in Databases
  <1> DEFINE j == Journaled(d, TableDependents(d, s), n, u)
  <1>1. j \in Databases
    BY CollectedType, JournaledType
  <1> HIDE DEF j
  <1>2. [j EXCEPT !.cols[s.tbl] = NoColumns, !.rows[s.tbl] = NoRows,
                  !.deps = {x \in @ : ~OnTable(x, s.tbl)}] \in Databases
    BY <1>1, StepFields, NoColumnsType DEF Databases
  <1>3. QED  BY <1>2 DEF DropTable, j

LEMMA DropColumnType ==
  ASSUME NEW d \in Databases, NEW s \in Steps, NEW n \in Numbers, NEW u \in BOOLEAN
  PROVE  DropColumn(d, s, n, u) \in Databases
  <1> DEFINE j == Journaled(d, ColumnDependents(d, s), n, u)
             old == j.rows[s.tbl]
             new == [r \in DOMAIN old |-> Null]
             rows == [r \in DOMAIN old |-> [old[r] EXCEPT ![s.col] = new[r]]]
  <1>1. j \in Databases
    BY CollectedType, JournaledType
  <1>2. rows \in RowSets
    <2>1. old \in RowSets /\ s.col \in Columns /\ new \in [DOMAIN old -> Cells]
      BY <1>1, StepFields, DatabaseFields, Zero DEF Null
    <2> HIDE DEF old, new
    <2>2. QED  BY <2>1, ColumnOverwritten
  <1>3. Stored(NoAttributes) \in StoredColumns
    BY NoAttributesType
  <1>a. rows = [r \in DOMAIN old |-> [old[r] EXCEPT ![s.col] = Null]]
    OBVIOUS
  <1> HIDE DEF j, rows
  <1>4. [j EXCEPT !.cols[s.tbl][s.col] = Stored(NoAttributes), !.rows[s.tbl] = rows,
                  !.deps = @ \ ColumnDependents(d, s)] \in Databases
    BY <1>1, <1>2, <1>3, StepFields DEF Databases
  <1>5. QED  BY <1>4, <1>a DEF DropColumn, j

LEMMA CreateTableType ==
  ASSUME NEW d \in Databases, NEW s \in Steps
  PROVE  CreateTable(d, s) \in Databases
  <1> DEFINE cols == [c \in Columns |-> Stored(s.table[c])]
             X == {Default(s.tbl, c, s.table[c].dflt) :
                     c \in {e \in Columns : s.table[e].type # 0 /\ s.table[e].dflt # 0}}
  <1>1. cols \in [Columns -> StoredColumns]
    BY StepFields, StoredType
  <1>2. \A c \in Columns : s.table[c].dflt \in Cells
    BY StepFields DEF Attributes
  <1>3. X \in SUBSET Dependents
    BY <1>2, StepFields, DefaultType
  <1> HIDE DEF cols, X
  <1>4. [d EXCEPT !.cols[s.tbl] = cols, !.rows[s.tbl] = NoRows, !.deps = @ \cup X] \in Databases
    BY <1>1, <1>3, StepFields, NoColumnsType DEF Databases
  <1>5. QED  BY <1>4 DEF CreateTable, cols, X

LEMMA NewValueType ==
  ASSUME NEW s \in Steps
  PROVE  NewValue(s) \in Cells
  BY StepFields, Zero DEF NewValue, Attributes, Null, Cells

LEMMA AddColumnType ==
  ASSUME NEW d \in Databases, NEW s \in Steps
  PROVE  AddColumn(d, s) \in Databases
  <1> DEFINE old == d.rows[s.tbl]
             new == [r \in DOMAIN old |-> NewCell(s)]
             rows == [r \in DOMAIN old |-> [old[r] EXCEPT ![s.col] = new[r]]]
  <1>1. NewCell(s) \in Cells
    BY StepFields, NewValueType DEF NewCell, Cut, Attributes, Cells
  <1>2. rows \in RowSets
    <2>1. old \in RowSets /\ s.col \in Columns /\ new \in [DOMAIN old -> Cells]
      BY <1>1, StepFields, DatabaseFields
    <2> HIDE DEF old, new
    <2>2. QED  BY <2>1, ColumnOverwritten
  <1>3. Stored(s.target) \in StoredColumns
    BY StepFields, StoredType
  <1>a. rows = [r \in DOMAIN old |-> [old[r] EXCEPT ![s.col] = NewCell(s)]]
    OBVIOUS
  <1> HIDE DEF rows
  <1>4. [d EXCEPT !.cols[s.tbl][s.col] = Stored(s.target), !.rows[s.tbl] = rows,
                  !.deps = @ \cup NewDefaults(s)] \in Databases
    BY <1>2, <1>3, StepFields, NewDefaultsType DEF Databases
  <1>5. QED  BY <1>4, <1>a DEF AddColumn

LEMMA AlteredType ==
  ASSUME NEW s \in Steps, NEW v \in Cells, NEW old \in Cells
  PROVE  Altered(old, s, v) \in Cells /\ Filled(old, s, v) \in Cells
  <1>1. s.target.type \in Cells /\ s.target.dflt \in Cells /\ s.backfill \in Cells
    BY StepFields DEF Attributes
  <1>2. Fill(s) \in Cells
    BY <1>1 DEF Fill, Cut, Cells
  <1>3. Filled(old, s, v) \in Cells
    BY <1>2 DEF Filled, Cut, Cells
  <1> HIDE DEF Filled
  <1>4. QED  BY <1>1, <1>3 DEF Altered, Cut, Cells

LEMMA ModifyColumnType ==
  ASSUME NEW d \in Databases, NEW s \in Steps
  PROVE  ModifyColumn(d, s) \in Databases
  <1> DEFINE old == d.rows[s.tbl]
             type == d.cols[s.tbl][s.col].type
             new == [r \in DOMAIN old |-> Altered(type, s, old[r][s.col])]
             rows == [r \in DOMAIN old |-> [old[r] EXCEPT ![s.col] = new[r]]]
  <1>1. d.cols[s.tbl][s.col] \in StoredColumns /\ Stored(s.target) \in StoredColumns
    BY StepFields, DatabaseFields, StoredType
  <1>2. AlteredColumn(d, s) \in StoredColumns
    BY <1>1 DEF StoredColumns, AlteredColumn
  <1>3. old \in RowSets /\ \A r \in DOMAIN old : old[r][s.col] \in Cells
    BY StepFields, DatabaseFields, RowSetElim DEF Rows
  <1>4. rows \in RowSets
    <2>1. s.col \in Columns /\ new \in [DOMAIN old -> Cells]
      BY <1>1, <1>3, AlteredType, StepFields DEF StoredColumns
    <2> HIDE DEF old, new
    <2>2. QED  BY <1>3, <2>1, ColumnOverwritten
  <1>5. AlteredDeps(d, s) \in SUBSET Dependents
    BY DatabaseFields, StepFields, NewDefaultsType DEF AlteredDeps
  <1>6. rows = AlteredRows(d, s)
    BY DEF AlteredRows
  <1> HIDE DEF rows
  <1>7. [d EXCEPT !.cols[s.tbl][s.col] = AlteredColumn(d, s), !.rows[s.tbl] = rows,
                  !.deps = AlteredDeps(d, s)] \in Databases
    BY <1>2, <1>4, <1>5, StepFields DEF Databases
  <1>8. QED  BY <1>6, <1>7 DEF ModifyColumn

LEMMA RestoreTableType ==
  ASSUME NEW d \in Databases, NEW s \in Steps
  PROVE  RestoreTable(d, s) \in Databases
  <1> DEFINE name == BackupName(s.tbl, Whole, FALSE)
             old == d.bak[name].rows
             cols == [c \in Columns |-> Stored(s.table[c])]
             rows == [r \in DOMAIN old |->
                       [c \in Columns |-> IF s.table[c].type # 0 THEN old[r][c] ELSE Null]]
  <1>1. cols \in [Columns -> StoredColumns]
    BY StepFields, StoredType
  <1>2. name \in BackupNames
    BY StepFields, BackupNameType
  <1>3. old \in RowSets
    BY <1>2, DatabaseFields, StepFields DEF Backups
  <1>4. rows \in [DOMAIN old -> Rows]
    BY <1>3, RowSetElim, Zero DEF Rows, Null
  <1>5. rows \in RowSets
    BY <1>3, <1>4, RowSetElim, RowSetIntro
  <1> HIDE DEF cols, rows
  <1>6. [d EXCEPT !.cols[s.tbl] = cols, !.rows[s.tbl] = rows] \in Databases
    BY <1>1, <1>5, StepFields DEF Databases
  <1>7. QED  BY <1>6 DEF RestoreTable, cols, rows

LEMMA RestoredCellType ==
  ASSUME NEW d \in Databases, NEW s \in Steps, NEW row, NEW by
  PROVE  RestoredCell(d, s, row, by) \in Cells
  <1> DEFINE rows == d.bak[BackupName(s.tbl, {s.col}, FALSE)].rows
             found == Matches(rows, row, by)
  <1>1. rows \in RowSets
    BY StepFields, BackupNameType, DatabaseFields DEF Backups
  <1>2. found \subseteq Rows
    BY <1>1, RowSetElim DEF Matches
  <1>3. found # {} => (CHOOSE b \in found : TRUE) \in Rows
    BY <1>2
  <1> HIDE DEF found
  <1>4. found # {} => (CHOOSE b \in found : TRUE)[s.col] \in Cells
    BY <1>3, StepFields DEF Rows
  <1>5. QED  BY <1>4, Zero DEF RestoredCell, found, Null

LEMMA RestoreColumnType ==
  ASSUME NEW d \in Databases, NEW s \in Steps, NEW by
  PROVE  RestoreColumn(d, s, by) \in Databases
  <1> DEFINE old == d.rows[s.tbl]
             new == [r \in DOMAIN old |-> RestoredCell(d, s, old[r], by)]
             rows == [r \in DOMAIN old |-> [old[r] EXCEPT ![s.col] = new[r]]]
  <1>1. rows \in RowSets
    <2>1. old \in RowSets /\ s.col \in Columns /\ new \in [DOMAIN old -> Cells]
      BY StepFields, DatabaseFields, RestoredCellType
    <2> HIDE DEF old, new
    <2>2. QED  BY <2>1, ColumnOverwritten
  <1>2. Stored(s.target) \in StoredColumns
    BY StepFields, StoredType
  <1>3. rows = [r \in DOMAIN old |-> [old[r] EXCEPT ![s.col] = RestoredCell(d, s, old[r], by)]]
    OBVIOUS
  <1> HIDE DEF rows
  <1>4. [d EXCEPT !.cols[s.tbl][s.col] = Stored(s.target), !.rows[s.tbl] = rows] \in Databases
    BY <1>1, <1>2, StepFields DEF Databases
  <1>5. QED  BY <1>3, <1>4 DEF RestoreColumn

LEMMA AddAllType ==
  ASSUME NEW d \in Databases, NEW X \in SUBSET Dependents
  PROVE  AddAll(d, X) \in Databases
  BY DEF AddAll, Databases
-----------------------------------------------------------------------------------
(* The steps of a script, of its undo, and what they keep of their types.   *)

(* Sequences of steps of some kinds are sequences of steps.                  *)
LEMMA StepsThatType ==
  ASSUME NEW kinds
  PROVE  Seq(StepsThat(kinds)) \subseteq Seq(Steps)
  BY DEF StepsThat

(* The steps of a forward script and their order: nothing is dropped after  *)
(* a column was added or changed.                                           *)
ForwardKinds == {"create_table", "drop_table", "drop_column", "add_column", "modify_column"}
ColumnKinds == {"add_column", "modify_column"}
LEMMA ForwardOpsSteps ==
  ASSUME NEW decided \in Decisions
  PROVE  LET ops == ForwardOps(decided) IN
         /\ ops \in Seq(Steps) /\ Len(ops) \in Numbers
         /\ \A n \in 1 .. Len(ops) : /\ ops[n].kind \in ForwardKinds
                                     /\ ops[n].kind \in ColumnKinds => ops[n].target.type # 0
                                     /\ ops[n].kind = "create_table" =>
                                          \E c \in Columns : ops[n].table[c].type # 0
         /\ \A m, n \in 1 .. Len(ops) :
              m < n /\ ops[m].kind \in ColumnKinds => ops[n].kind \in ColumnKinds
  <1> DEFINE T == decided.tables
             D == decided.tableDrops
             C == decided.columnDrops
             X == decided.columns
  <1>1. /\ T \in Seq({s \in StepsThat({"create_table"}) : \E c \in Columns : s.table[c].type # 0})
        /\ D \in Seq(StepsThat({"drop_table"}))
        /\ C \in Seq(StepsThat({"drop_column"}))
        /\ X \in Seq({s \in StepsThat(ColumnKinds) : s.target.type # 0})
    BY ScriptAssumption DEF Choices, ColumnKinds
  <1> HIDE DEF T, D, C, X
  <1>2. /\ \A n \in 1 .. Len(T) : /\ T[n] \in Steps /\ T[n].kind = "create_table"
                                   /\ \E c \in Columns : T[n].table[c].type # 0
        /\ \A n \in 1 .. Len(D) : D[n] \in Steps /\ D[n].kind = "drop_table"
        /\ \A n \in 1 .. Len(C) : C[n] \in Steps /\ C[n].kind = "drop_column"
        /\ \A n \in 1 .. Len(X) : X[n] \in Steps /\ X[n].kind \in ColumnKinds /\ X[n].target.type # 0
    BY <1>1 DEF StepsThat
  <1>3. T \in Seq(Steps) /\ D \in Seq(Steps) /\ C \in Seq(Steps) /\ X \in Seq(Steps)
    <2>1. Seq({s \in StepsThat(ColumnKinds) : s.target.type # 0}) \subseteq Seq(Steps)
      BY DEF StepsThat
    <2>2. Seq({s \in StepsThat({"create_table"}) : \E c \in Columns : s.table[c].type # 0})
             \subseteq Seq(Steps)
      BY DEF StepsThat
    <2>3. QED  BY <1>1, <2>1, <2>2, StepsThatType
  <1> DEFINE drops == (T \o D) \o C
             ops == drops \o X
  <1>4. drops \in Seq(Steps) /\ Len(drops) = Len(T) + Len(D) + Len(C)
    BY <1>3
  <1>5. \A n \in 1 .. Len(drops) :
           /\ drops[n].kind \in {"create_table", "drop_table", "drop_column"}
           /\ drops[n].kind = "create_table" => \E c \in Columns : drops[n].table[c].type # 0
    <2>1. T \o D \in Seq(Steps) /\ Len(T \o D) = Len(T) + Len(D)
      BY <1>3
    <2>2. \A n \in 1 .. Len(T \o D) :
             /\ (T \o D)[n].kind \in {"create_table", "drop_table"}
             /\ (T \o D)[n].kind = "create_table" => \E c \in Columns : (T \o D)[n].table[c].type # 0
      BY <1>2, <1>3, <2>1
    <2>3. QED  BY <1>2, <1>3, <2>1, <2>2
  <1> HIDE DEF drops
  <1>6. /\ ops \in Seq(Steps) /\ Len(ops) = Len(drops) + Len(X)
        /\ \A n \in 1 .. Len(ops) : ops[n] = IF n <= Len(drops) THEN drops[n] ELSE X[n - Len(drops)]
        /\ Len(drops) \in Nat /\ Len(X) \in Nat
    <2>1. ops \in Seq(Steps) /\ Len(ops) = Len(drops) + Len(X)
      BY <1>3, <1>4, ConcatProperties
    <2>2. \A n \in 1 .. Len(drops) + Len(X) :
             ops[n] = IF n <= Len(drops) THEN drops[n] ELSE X[n - Len(drops)]
      BY <1>3, <1>4
    <2>3. Len(drops) \in Nat /\ Len(X) \in Nat
      BY <1>3, <1>4
    <2> HIDE DEF ops
    <2>4. QED  BY <2>1, <2>2, <2>3
  <1> HIDE DEF ops
  <1>7. \A n \in 1 .. Len(ops) :
           /\ n <= Len(drops) => ops[n].kind \in {"create_table", "drop_table", "drop_column"}
           /\ n > Len(drops) => ops[n].kind \in ColumnKinds /\ ops[n].target.type # 0
           /\ ops[n].kind = "create_table" => \E c \in Columns : ops[n].table[c].type # 0
    <2> SUFFICES ASSUME NEW n \in 1 .. Len(ops)
                 PROVE  /\ n <= Len(drops) => ops[n].kind \in {"create_table", "drop_table", "drop_column"}
                        /\ ops[n].kind = "create_table" => \E c \in Columns : ops[n].table[c].type # 0
                        /\ n > Len(drops) => ops[n].kind \in ColumnKinds /\ ops[n].target.type # 0
      OBVIOUS
    <2>1. CASE n <= Len(drops)
      BY <1>5, <1>6, <2>1
    <2>2. CASE n > Len(drops)
      <3>1. n - Len(drops) \in 1 .. Len(X) /\ ops[n] = X[n - Len(drops)]
        BY <1>6, <2>2
      <3>2. QED  BY <1>2, <1>6, <2>2, <3>1 DEF ColumnKinds
    <2>3. QED  BY <2>1, <2>2, <1>6
  <1>8. ForwardOps(decided) = ops
    BY DEF ForwardOps, T, D, C, X, ops, drops
  <1>9. Len(ops) \in Numbers
    BY <1>8, ScriptAssumption
  <1>10. \A m, n \in 1 .. Len(ops) :
              m < n /\ ops[m].kind \in ColumnKinds => ops[n].kind \in ColumnKinds
    BY <1>6, <1>7 DEF ColumnKinds
  <1>11. QED  BY <1>6, <1>7, <1>8, <1>9, <1>10 DEF ForwardKinds, ColumnKinds

LEMMA UndoOpType ==
  ASSUME NEW op \in Steps, NEW n \in Numbers
  PROVE  UndoOp(op, n) \in Steps
  <1> USE DEF Steps, Kinds
  <1>1. Null \in Cells /\ 0 \in Cells
    BY Zero DEF Null
  <1>2. [op EXCEPT !.kind = "drop_table"] \in Steps /\ [op EXCEPT !.kind = "drop_column"] \in Steps
    OBVIOUS
  <1>3. [op EXCEPT !.kind = "restore_table", !.num = n] \in Steps
    OBVIOUS
  <1>4. [op EXCEPT !.kind = "restore_column", !.num = n, !.target = op.observed] \in Steps
    OBVIOUS
  <1>5. [op EXCEPT !.target = op.observed, !.observed = op.target,
                   !.backfill = 0, !.accept = FALSE] \in Steps
    BY <1>1
  <1>6. [op EXCEPT !.kind = "unsupported"] \in Steps
    OBVIOUS
  <1>7. QED  BY <1>2, <1>3, <1>4, <1>5, <1>6 DEF UndoOp

LEMMA UndoOpsType ==
  ASSUME NEW ops \in Seq(Steps), Len(ops) \in Numbers
  PROVE  UndoOps(ops) \in Seq(Steps) /\ Len(UndoOps(ops)) = Len(ops)
  <1>1. \A n \in 1 .. Len(ops) : Len(ops) + 1 - n \in 1 .. Len(ops)
    OBVIOUS
  <1>2. \A n \in 1 .. Len(ops) : Len(ops) + 1 - n \in Numbers
    BY <1>1, SchemaAssumption DEF Numbers
  <1>3. \A n \in 1 .. Len(ops) : UndoOp(ops[Len(ops) + 1 - n], Len(ops) + 1 - n) \in Steps
    BY <1>1, <1>2, UndoOpType
  <1>4. QED  BY <1>3 DEF UndoOps

(* Under TypeOK the script is at one of its steps.                          *)
LEMMA AtStep ==
  ASSUME TypeOK
  PROVE  /\ AllSteps \in Seq(Steps) /\ Len(AllSteps) = Len(script)
         /\ Step \in Steps
         /\ run.at \in Numbers /\ run.undo \in BOOLEAN
         /\ run \in Runs /\ work \in Databases /\ db \in Databases
  <1>1. AllSteps \in Seq(Steps) /\ Len(AllSteps) = Len(script)
    BY UndoOpsType DEF TypeOK, AllSteps
  <1>2. Step \in Steps
    BY <1>1 DEF TypeOK, Step
  <1>3. run.at \in Numbers /\ run.undo \in BOOLEAN
    BY SchemaAssumption DEF TypeOK, Numbers, Runs
  <1>4. QED  BY <1>1, <1>2, <1>3 DEF TypeOK

LEMMA ChangedType ==
  ASSUME TypeOK
  PROVE  Changed(work, Step) \in Databases
  BY AtStep, CreateTableType, DropTableType, DropColumnType, AddColumnType, ModifyColumnType,
     RestoreTableType, RestoreColumnType DEF Changed

LEMMA MatchColumnsType ==
  ASSUME NEW d \in Databases, NEW s \in Steps
  PROVE  MatchColumns(d, s) \in SUBSET Columns
  BY PkColumnsType, StepFields DEF MatchColumns

LEMMA DroppedKeysType ==
  ASSUME NEW d \in Databases, NEW s \in Steps
  PROVE  DroppedKeys(d, s) \in SUBSET Dependents
  BY CollectedType DEF DroppedKeys, Keys

LEMMA EndsType ==
  ASSUME NEW X \in SUBSET Dependents
  PROVE  Ends(X) \in SUBSET Tables
  BY DependentType DEF Ends, DependentRecords

LEMMA NeedsType ==
  ASSUME NEW d \in Databases, NEW s \in Steps
  PROVE  Needs(d, s) \in SUBSET Tables
  BY StepFields, DroppedKeysType, EndsType DEF Needs

LEMMA ReplayedType ==
  ASSUME NEW d \in Databases
  PROVE  Replayed(d) \in SUBSET Dependents
  <1> DEFINE es == d.journal[FALSE].entries
  <1>1. es \in Seq(Entries)
    BY DEF Databases, Journals
  <1> HIDE DEF es
  <1>2. \A j \in 1 .. Len(es) : es[j] \in Entries
    BY <1>1
  <1>3. \A e \in Entries : e.deps \in SUBSET Dependents
    BY DEF Entries
  <1>4. \A j \in 1 .. Len(es) : es[j].deps \in SUBSET Dependents
    BY <1>2, <1>3
  <1>5. QED  BY <1>4 DEF Replayed, ReplayedEntries, es

LEMMA AdvanceType ==
  ASSUME TypeOK, NEW r \in Runs, r.at = run.at
  PROVE  Advance(r) \in Runs /\ Advance(r).at \in 1 .. Len(script)
  <1> DEFINE at == IF r.at = Len(script) THEN 1 ELSE r.at + 1
             phase == IF r.at = Len(script) THEN "keys" ELSE r.phase
  <1>1. Len(script) \in Nat /\ run.at \in 1 .. Len(script)
    BY DEF TypeOK
  <1>2. at \in 1 .. Len(script) /\ at \in Nat
    BY <1>1
  <1>3. phase \in Phases
    BY DEF Runs, Phases
  <1> HIDE DEF at, phase
  <1>4. [r EXCEPT !.at = at, !.phase = phase, !.copied = FALSE] \in Runs
    BY <1>2, <1>3 DEF Runs
  <1>5. [r EXCEPT !.at = at, !.phase = phase, !.copied = FALSE].at = at
    BY DEF Runs
  <1>6. Advance(r) = [r EXCEPT !.at = at, !.phase = phase, !.copied = FALSE]
    BY DEF Advance, at, phase
  <1>7. QED  BY <1>2, <1>4, <1>5, <1>6

LEMMA IdleType == Idle \in Runs /\ Idle.at = 1
  BY DEF Idle, Runs, Phases
-----------------------------------------------------------------------------------
(* Type correctness.                                                        *)

LEMMA RollBackType ==
  ASSUME TypeOK, NEW outcome \in Outcomes, RollBack(outcome)
  PROVE  TypeOK'
  <1>1. Len(script) \in Nat /\ 1 \in 1 .. Len(script)
    BY DEF TypeOK
  <1>2. past' \in Histories
    BY AtStep DEF TypeOK, RollBack, Histories
  <1>3. QED  BY <1>1, <1>2, IdleType DEF TypeOK, RollBack

LEMMA CleanUpType ==
  ASSUME TypeOK, NEW d \in Databases, CleanUp(d)
  PROVE  TypeOK'
  BY DEF TypeOK, CleanUp

(* One step of a run of the script.                                         *)
LEMMA ScriptStepType ==
  ASSUME TypeOK, ScriptStep
  PROVE  TypeOK'
  <1> USE AtStep DEF TypeOK
  <1>1. Len(script) \in Nat /\ run.at \in 1 .. Len(script)
    OBVIOUS
  <1>2. CASE CheckStep
    <2> DEFINE skip == IF Check(work, Step, run.undo) = "skip" THEN run.skip \cup {run.at} ELSE run.skip
               cols == IF Step.kind = "restore_column" THEN MatchColumns(work, Step) ELSE {}
               at == IF run.at = Len(script) THEN 1 ELSE run.at + 1
               phase == IF run.at = Len(script) THEN "apply" ELSE run.phase
    <2>1. skip \in SUBSET Numbers
      BY DEF Runs
    <2>2. cols \in SUBSET Columns
      BY MatchColumnsType
    <2>3. at \in 1 .. Len(script) /\ at \in Nat
      BY <1>1
    <2>4. phase \in Phases
      BY DEF Runs, Phases
    <2> HIDE DEF skip, cols, at, phase
    <2>5. [run EXCEPT !.skip = skip, !.by[run.at] = cols, !.at = at, !.phase = phase] \in Runs
      BY <2>1, <2>2, <2>3, <2>4 DEF Runs
    <2>6. run' = [run EXCEPT !.skip = skip, !.by[run.at] = cols, !.at = at, !.phase = phase]
      BY <1>2 DEF CheckStep, skip, cols, at, phase
    <2>7. run'.at = at
      BY <2>6 DEF Runs
    <2>8. QED  BY <1>2, <2>3, <2>5, <2>6, <2>7 DEF CheckStep
  <1>3. CASE Refuse
    BY <1>3, RollBackType DEF Refuse, Outcomes
  <1>4. CASE SkipStep
    BY <1>4, AdvanceType DEF SkipStep
  <1>5. CASE CopyStep
    <2>1. work' \in Databases
      BY <1>5, CopyType DEF CopyStep
    <2>2. run' \in Runs /\ run'.at = run.at
      BY <1>5 DEF CopyStep, Runs
    <2>3. QED  BY <1>5, <2>1, <2>2 DEF CopyStep
  <1>6. CASE ChangeStep
    <2> DEFINE keys == IF Step.kind = "modify_column" THEN run.keys \cup DroppedKeys(work, Step)
                                                      ELSE run.keys
               replay == IF Step.kind \in {"restore_table", "restore_column"}
                           THEN run.replay \cup {Step.num} ELSE run.replay
    <2>1. work' \in Databases
      BY <1>6, ChangedType DEF ChangeStep
    <2>2. locked' \subseteq Tables
      BY <1>6, NeedsType DEF ChangeStep
    <2>3. keys \in SUBSET Dependents /\ replay \in SUBSET Numbers
      BY DroppedKeysType, StepFields DEF Runs
    <2> HIDE DEF keys, replay
    <2>4. [run EXCEPT !.keys = keys, !.replay = replay] \in Runs
      BY <2>3 DEF Runs
    <2>5. [run EXCEPT !.keys = keys, !.replay = replay].at = run.at
      BY DEF Runs
    <2>6. run' = Advance([run EXCEPT !.keys = keys, !.replay = replay])
      BY <1>6 DEF ChangeStep, keys, replay
    <2>7. run' \in Runs /\ run'.at \in 1 .. Len(script)
      BY <2>4, <2>5, <2>6, AdvanceType
    <2>8. QED  BY <1>6, <2>1, <2>2, <2>7 DEF ChangeStep
  <1>7. CASE RecreateKeys
    <2>1. run.keys \in SUBSET Dependents
      BY DEF Runs
    <2>2. work' \in Databases /\ locked' \subseteq Tables
      BY <1>7, <2>1, AddAllType, EndsType DEF RecreateKeys
    <2>3. run' \in Runs /\ run'.at = run.at
      BY <1>7 DEF RecreateKeys, Runs, Phases
    <2>4. QED  BY <1>7, <2>2, <2>3 DEF RecreateKeys
  <1>8. CASE Replay
    <2>1. work' \in Databases /\ locked' \subseteq Tables
      BY <1>8, ReplayedType, AddAllType, EndsType DEF Replay
    <2>2. run' \in Runs /\ run'.at = run.at
      BY <1>8 DEF Replay, Runs, Phases
    <2>3. QED  BY <1>8, <2>1, <2>2 DEF Replay
  <1>9. CASE StatementFails
    BY <1>9, RollBackType DEF StatementFails, Outcomes
  <1>10. CASE Commit
    <2>1. past' \in Histories
      BY <1>10 DEF Commit, Histories, Outcomes
    <2>2. QED  BY <1>1, <1>10, <2>1, IdleType DEF Commit
  <1>11. CASE VerifyFails
    BY <1>11, RollBackType DEF VerifyFails, Outcomes
  <1>12. QED
    BY <1>2, <1>3, <1>4, <1>5, <1>6, <1>7, <1>8, <1>9, <1>10, <1>11 DEF ScriptStep

LEMMA WriteType ==
  ASSUME TypeOK, NEW t \in Tables, Write(t)
  PROVE  TypeOK'
  <1>1. PICK rows \in RowSets : /\ db' = [db EXCEPT !.rows[t] = rows]
                                /\ work' = [work EXCEPT !.rows[t] = rows]
    BY DEF Write, OneRowChanges
  <1>2. db' \in Databases /\ work' \in Databases
    BY <1>1 DEF TypeOK, Databases
  <1>3. past' \in Histories
    BY DEF Write, TypeOK, Histories
  <1>4. QED  BY <1>2, <1>3 DEF Write, TypeOK

LEMMA InitType ==
  ASSUME Init
  PROVE  TypeOK
  <1>1. script \in Seq(Steps) /\ Len(script) \in Numbers
    BY ForwardOpsSteps DEF Init
  <1>2. db \in Databases /\ work \in Databases
    BY ScriptAssumption DEF Init
  <1>3. run \in Runs /\ run.at \in 1 .. Len(script)
    BY <1>1, IdleType, SchemaAssumption DEF Init, Numbers
  <1>4. past \in Histories
    BY <1>2 DEF Init, Histories, Outcomes
  <1>5. QED  BY <1>1, <1>2, <1>3, <1>4 DEF Init, TypeOK

LEMMA NextType ==
  ASSUME TypeOK, [Next]_vars
  PROVE  TypeOK'
  <1>1. ASSUME NEW undo \in BOOLEAN, Start(undo)  PROVE TypeOK'
    <2>1. run' \in Runs /\ run'.at = 1
      BY <1>1, IdleType DEF Start, Runs, Phases, Idle
    <2>2. 1 \in 1 .. Len(script)
      BY DEF TypeOK
    <2>3. QED  BY <1>1, <2>1, <2>2 DEF TypeOK, Start
  <1>2. CASE ScriptStep
    BY <1>2, ScriptStepType
  <1>3. CASE Interrupt \/ LockTimeout
    BY <1>3, RollBackType DEF Interrupt, LockTimeout, Outcomes
  <1>4. ASSUME NEW t \in Tables, Write(t)  PROVE TypeOK'
    BY <1>4, WriteType
  <1>5. ASSUME NEW t \in Tables, Hold(t) \/ Release(t)  PROVE TypeOK'
    BY <1>5 DEF Hold, Release, TypeOK
  <1>6. ASSUME NEW b \in BackupNames, RemoveBackup(b)  PROVE TypeOK'
    <2>1. NoBackup \in Backups
      BY NoColumnsType DEF NoBackup, Backups
    <2>2. [db EXCEPT !.bak[b] = NoBackup] \in Databases
      BY <2>1 DEF TypeOK, Databases
    <2>3. QED  BY <1>6, <2>2, CleanUpType DEF RemoveBackup
  <1>7. ASSUME NEW u \in BOOLEAN, RemoveJournal(u)  PROVE TypeOK'
    <2>1. NoJournal \in Journals
      BY DEF NoJournal, Journals
    <2>2. [db EXCEPT !.journal[u] = NoJournal] \in Databases
      BY <2>1 DEF TypeOK, Databases
    <2>3. QED  BY <1>7, <2>2, CleanUpType DEF RemoveJournal
  <1>8. CASE UNCHANGED vars
    BY <1>8 DEF vars, TypeOK, AllSteps
  <1>9. QED
    BY <1>1, <1>2, <1>3, <1>4, <1>5, <1>6, <1>7, <1>8 DEF Next

(* Every variable keeps its type, whatever the script, the database and the *)
(* other sessions do.                                                       *)
THEOREM TypeCorrect == Spec => []TypeOK
  <1>1. QED  BY InitType, NextType, PTL DEF Spec
-----------------------------------------------------------------------------------
(* Rolling back is safe.  What a change of a step may touch is confined to  *)
(* the tables its statements lock.                                          *)
Confined(d, e, L) ==
  /\ \A t \in Tables \ L : e.cols[t] = d.cols[t] /\ e.rows[t] = d.rows[t]
  /\ \A x \in Dependents : (x \in e.deps) # (x \in d.deps) => Ends({x}) \subseteq L

LEMMA EndsOf ==
  ASSUME NEW X, NEW x \in X
  PROVE  Ends({x}) = {x.tbl, x.ref} /\ Ends({x}) \subseteq Ends(X)
  BY DEF Ends

(* A dependent on a table is a foreign key to or from it, or has both its   *)
(* ends there.                                                              *)
LEMMA EndsOnTable ==
  ASSUME NEW x \in Dependents, NEW t \in Tables, OnTable(x, t), x.kind # "fk"
  PROVE  Ends({x}) = {t}
  BY EndsOf, DependentType DEF OnTable

LEMMA OnColumnOnTable ==
  ASSUME NEW x, NEW t, NEW c, OnColumn(x, t, c)
  PROVE  OnTable(x, t)
  BY DEF OnColumn, OnTable

LEMMA DefaultEnds ==
  ASSUME NEW s \in Steps, NEW x \in NewDefaults(s)
  PROVE  Ends({x}) = {s.tbl}
  BY DEF NewDefaults, Default, Ends

LEMMA DropTableConfined ==
  ASSUME NEW d \in Databases, NEW s \in Steps, NEW n \in Numbers, NEW u \in BOOLEAN,
         s.kind = "drop_table"
  PROVE  Confined(d, DropTable(d, s, n, u), Needs(d, s))
  <1> DEFINE e == DropTable(d, s, n, u)
             j == Journaled(d, TableDependents(d, s), n, u)
  <1>1. j \in Databases /\ j.cols = d.cols /\ j.rows = d.rows /\ j.deps = d.deps
    BY CollectedType, JournaledType
  <1>2. e = [j EXCEPT !.cols[s.tbl] = NoColumns, !.rows[s.tbl] = NoRows,
                      !.deps = {x \in @ : ~OnTable(x, s.tbl)}]
    BY DEF DropTable
  <1> HIDE DEF j
  <1>3. /\ \A t \in Tables \ {s.tbl} : e.cols[t] = d.cols[t] /\ e.rows[t] = d.rows[t]
        /\ e.deps = {x \in d.deps : ~OnTable(x, s.tbl)}
    BY <1>1, <1>2, StepFields DEF Databases
  <1>4. ASSUME NEW x \in Dependents, x \in d.deps, OnTable(x, s.tbl)
        PROVE  Ends({x}) \subseteq Needs(d, s)
    <2>1. CASE x.kind = "fk"
      <3>1. x \in DroppedKeys(d, s)
        BY <1>4, <2>1 DEF DroppedKeys, Keys, TableDependents, Recreatable
      <3>2. QED  BY <3>1, EndsOf DEF Needs
    <2>2. CASE x.kind # "fk"
      BY <1>4, <2>2, EndsOnTable, StepFields DEF Needs
    <2>3. QED  BY <2>1, <2>2
  <1> HIDE DEF e
  <1>5. QED  BY <1>3, <1>4 DEF Confined, Needs, e

LEMMA DropColumnConfined ==
  ASSUME NEW d \in Databases, NEW s \in Steps, NEW n \in Numbers, NEW u \in BOOLEAN,
         s.kind = "drop_column"
  PROVE  Confined(d, DropColumn(d, s, n, u), Needs(d, s))
  <1> DEFINE e == DropColumn(d, s, n, u)
             j == Journaled(d, ColumnDependents(d, s), n, u)
             X == ColumnDependents(d, s)
  <1>1. j \in Databases /\ j.cols = d.cols /\ j.rows = d.rows /\ j.deps = d.deps
    BY CollectedType, JournaledType
  <1>2. e = [j EXCEPT !.cols[s.tbl][s.col] = Stored(NoAttributes),
                      !.rows[s.tbl] = [r \in DOMAIN @ |-> [@[r] EXCEPT ![s.col] = Null]],
                      !.deps = @ \ X]
    BY DEF DropColumn
  <1> HIDE DEF j, X
  <1>3. /\ \A t \in Tables \ {s.tbl} : e.cols[t] = d.cols[t] /\ e.rows[t] = d.rows[t]
        /\ e.deps = d.deps \ X
    BY <1>1, <1>2, StepFields DEF Databases
  <1>4. ASSUME NEW x \in Dependents, x \in X
        PROVE  Ends({x}) \subseteq Needs(d, s)
    <2>1. CASE x.kind = "fk"
      <3>1. x \in DroppedKeys(d, s)
        BY <1>4, <2>1 DEF DroppedKeys, Keys, X
      <3>2. QED  BY <3>1, EndsOf DEF Needs
    <2>2. CASE x.kind # "fk"
      <3>1. OnTable(x, s.tbl)
        BY <1>4, OnColumnOnTable DEF X, ColumnDependents
      <3>2. QED  BY <3>1, <2>2, EndsOnTable, StepFields DEF Needs
    <2>3. QED  BY <2>1, <2>2
  <1> HIDE DEF e
  <1>5. QED  BY <1>3, <1>4 DEF Confined, Needs, e

LEMMA ModifyColumnConfined ==
  ASSUME NEW d \in Databases, NEW s \in Steps, s.kind = "modify_column"
  PROVE  Confined(d, ModifyColumn(d, s), Needs(d, s))
  <1> DEFINE e == ModifyColumn(d, s)
  <1>1. /\ \A t \in Tables \ {s.tbl} : e.cols[t] = d.cols[t] /\ e.rows[t] = d.rows[t]
        /\ e.deps = AlteredDeps(d, s)
    BY StepFields DEF Databases, ModifyColumn
  <1>2. ASSUME NEW x \in Dependents, (x \in AlteredDeps(d, s)) # (x \in d.deps)
        PROVE  Ends({x}) \subseteq Needs(d, s)
    <2>1. \/ x \in Keys(AlterDependents(d, s))
          \/ x \in DefaultsOn(d, s.tbl, s.col)
          \/ x \in NewDefaults(s)
      BY <1>2 DEF AlteredDeps
    <2>2. CASE x \in Keys(AlterDependents(d, s))
      BY <2>2, EndsOf DEF Needs, DroppedKeys
    <2>3. CASE x \in DefaultsOn(d, s.tbl, s.col)
      <3>1. OnTable(x, s.tbl) /\ x.kind # "fk"
        BY <2>3 DEF DefaultsOn, OnTable
      <3>2. QED  BY <3>1, EndsOnTable, StepFields DEF Needs
    <2>4. CASE x \in NewDefaults(s)
      BY <2>4, DefaultEnds DEF Needs
    <2>5. QED  BY <2>1, <2>2, <2>3, <2>4
  <1> HIDE DEF e
  <1>3. QED  BY <1>1, <1>2 DEF Confined, Needs, e

(* Steps that only add: no foreign key is dropped, nothing is removed.      *)
LEMMA AdditionConfined ==
  ASSUME NEW d \in Databases, NEW s \in Steps, NEW by
  PROVE  /\ Confined(d, CreateTable(d, s), Needs(d, s))
         /\ Confined(d, AddColumn(d, s), Needs(d, s))
         /\ Confined(d, RestoreTable(d, s), Needs(d, s))
         /\ Confined(d, RestoreColumn(d, s, by), Needs(d, s))
  <1>1. s.tbl \in Needs(d, s) /\ s.tbl \in Tables /\ s.col \in Columns
    BY StepFields DEF Needs
  <1>2. Confined(d, CreateTable(d, s), Needs(d, s))
    <2> DEFINE X == {Default(s.tbl, c, s.table[c].dflt) :
                       c \in {c1 \in Columns : s.table[c1].type # 0 /\ s.table[c1].dflt # 0}}
               e == CreateTable(d, s)
    <2>1. /\ \A t \in Tables \ {s.tbl} : e.cols[t] = d.cols[t] /\ e.rows[t] = d.rows[t]
          /\ e.deps = d.deps \cup X
      BY <1>1 DEF Databases, CreateTable
    <2>2. \A x \in X : Ends({x}) = {s.tbl}
      BY DEF Default, Ends
    <2> HIDE DEF e, X
    <2>3. QED  BY <1>1, <2>1, <2>2 DEF Confined, e
  <1>3. Confined(d, AddColumn(d, s), Needs(d, s))
    <2> DEFINE e == AddColumn(d, s)
    <2>1. /\ \A t \in Tables \ {s.tbl} : e.cols[t] = d.cols[t] /\ e.rows[t] = d.rows[t]
          /\ e.deps = d.deps \cup NewDefaults(s)
      BY <1>1 DEF Databases, AddColumn
    <2> HIDE DEF e
    <2>2. QED  BY <1>1, <2>1, DefaultEnds DEF Confined, e
  <1>4. Confined(d, RestoreTable(d, s), Needs(d, s))
    BY <1>1 DEF Confined, RestoreTable, Databases
  <1>5. Confined(d, RestoreColumn(d, s, by), Needs(d, s))
    BY <1>1 DEF Confined, RestoreColumn, Databases
  <1>6. QED  BY <1>2, <1>3, <1>4, <1>5

LEMMA ChangedConfined ==
  ASSUME TypeOK
  PROVE  Confined(work, Changed(work, Step), Needs(work, Step))
  <1>1. Step \in Steps /\ work \in Databases /\ run.at \in Numbers /\ run.undo \in BOOLEAN
    BY AtStep
  <1>2. Confined(work, work, Needs(work, Step))
    BY DEF Confined
  <1>3. QED
    BY <1>1, <1>2, DropTableConfined, DropColumnConfined, ModifyColumnConfined, AdditionConfined
    DEF Changed

LEMMA CopyConfined ==
  ASSUME NEW d \in Databases, NEW s \in Steps, NEW u \in BOOLEAN
  PROVE  /\ Copy(d, s, u).cols = d.cols
         /\ Copy(d, s, u).rows = d.rows
         /\ Copy(d, s, u).deps = d.deps
  BY DEF Copy, Databases

LEMMA AddAllConfined ==
  ASSUME NEW d \in Databases, NEW X \in SUBSET Dependents
  PROVE  Confined(d, AddAll(d, X), Ends(X))
  <1>1. AddAll(d, X).cols = d.cols /\ AddAll(d, X).rows = d.rows /\ AddAll(d, X).deps = d.deps \cup X
    BY DEF AddAll, Databases
  <1>2. QED  BY <1>1, EndsOf DEF Confined

(* Changes that are confined one after the other are confined together.     *)
LEMMA ConfinedThen ==
  ASSUME NEW d, NEW e, NEW f, NEW L, NEW M, Confined(d, e, L), Confined(e, f, M)
  PROVE  Confined(d, f, L \cup M)
  BY DEF Confined

Settled == run.phase \in {"idle", "check"} => work = db

LEMMA ConfinedIs == OnlyLockedTablesDiffer <=> Settled /\ Confined(db, work, locked)
  BY DEF OnlyLockedTablesDiffer, Settled, Confined

LEMMA SameConfined ==
  ASSUME NEW d, NEW L
  PROVE  Confined(d, d, L)
  BY DEF Confined

LEMMA RollBackSettles ==
  ASSUME NEW outcome, RollBack(outcome)
  PROVE  Settled' /\ Confined(db, work, locked)'
  BY SameConfined DEF RollBack, Settled, Confined

LEMMA NextConfined ==
  ASSUME TypeOK, Settled, Confined(db, work, locked), [Next]_vars
  PROVE  Settled' /\ Confined(db, work, locked)'
  <1>0. /\ Step \in Steps /\ run.undo \in BOOLEAN /\ run \in Runs
        /\ work \in Databases /\ db \in Databases
    BY AtStep
  <1>1. ASSUME NEW undo \in BOOLEAN, Start(undo)  PROVE Settled' /\ Confined(db, work, locked)'
    <2>1. work = db
      BY <1>1 DEF Start, Running, Settled
    <2>2. QED  BY <1>1, <2>1 DEF Start, Settled, Confined
  <1>2. CASE CheckStep
    <2>1. work = db /\ work' = db'
      BY <1>2 DEF CheckStep, Settled
    <2>2. QED  BY <1>2, <2>1 DEF CheckStep, Settled, Confined
  <1>3. CASE Refuse \/ StatementFails \/ VerifyFails \/ Interrupt \/ LockTimeout
    BY <1>3, RollBackSettles DEF Refuse, StatementFails, VerifyFails, Interrupt, LockTimeout
  <1>4. CASE SkipStep
    <2>1. run'.phase \in {"apply", "keys"}
      BY <1>0, <1>4 DEF SkipStep, Advance, Runs
    <2>2. QED  BY <1>4, <2>1 DEF SkipStep, Settled, Confined
  <1>5. CASE CopyStep
    <2>1. run'.phase = "apply"
      BY <1>0, <1>5 DEF CopyStep, AtCopy, Applying, Runs
    <2>2. work'.cols = work.cols /\ work'.rows = work.rows /\ work'.deps = work.deps
      BY <1>0, <1>5, CopyConfined DEF CopyStep
    <2>3. QED  BY <1>5, <2>1, <2>2 DEF CopyStep, Settled, Confined
  <1>6. CASE ChangeStep
    <2>1. run'.phase \in {"apply", "keys"}
      BY <1>0, <1>6 DEF ChangeStep, AtChange, Applying, Advance, Runs
    <2>2. Confined(work, work', Needs(work, Step))
      BY <1>6, ChangedConfined DEF ChangeStep
    <2>3. Confined(db, work', locked')
      BY <1>6, <2>2, ConfinedThen DEF ChangeStep
    <2>4. db' = db
      BY <1>6 DEF ChangeStep
    <2>5. QED  BY <2>1, <2>3, <2>4 DEF Settled, Confined
  <1>7. CASE RecreateKeys
    <2>1. run'.phase = "replay"
      BY <1>0, <1>7 DEF RecreateKeys, Runs
    <2>2. Confined(work, work', Ends(run.keys))
      BY <1>0, <1>7, AddAllConfined DEF RecreateKeys, Runs
    <2>3. Confined(db, work', locked') /\ db' = db
      BY <1>7, <2>2, ConfinedThen DEF RecreateKeys
    <2>4. QED  BY <2>1, <2>3 DEF Settled, Confined
  <1>8. CASE Replay
    <2>1. run'.phase = "verify"
      BY <1>0, <1>8 DEF Replay, Runs
    <2>2. Confined(work, work', Ends(Replayed(work)))
      BY <1>0, <1>8, AddAllConfined, ReplayedType DEF Replay
    <2>3. Confined(db, work', locked') /\ db' = db
      BY <1>8, <2>2, ConfinedThen DEF Replay
    <2>4. QED  BY <2>1, <2>3 DEF Settled, Confined
  <1>9. CASE Commit
    BY <1>9, SameConfined DEF Commit, Settled, Confined
  <1>10. ASSUME NEW t \in Tables, Write(t)  PROVE Settled' /\ Confined(db, work, locked)'
    <2>1. PICK rows \in RowSets : /\ db' = [db EXCEPT !.rows[t] = rows]
                                  /\ work' = [work EXCEPT !.rows[t] = rows]
      BY <1>10 DEF Write, OneRowChanges
    <2>2. /\ db'.cols = db.cols /\ work'.cols = work.cols
          /\ db'.deps = db.deps /\ work'.deps = work.deps
          /\ \A v \in Tables : /\ db'.rows[v] = IF v = t THEN rows ELSE db.rows[v]
                              /\ work'.rows[v] = IF v = t THEN rows ELSE work.rows[v]
      BY <1>0, <2>1 DEF Databases
    <2>3. run' = run /\ locked' = locked
      BY <1>10 DEF Write
    <2>4. Settled'
      BY <2>1, <2>3 DEF Settled
    <2>5. Confined(db, work, locked)'
      BY <2>2, <2>3 DEF Confined
    <2>6. QED  BY <2>4, <2>5
  <1>11. ASSUME NEW t \in Tables, Hold(t) \/ Release(t)
         PROVE  Settled' /\ Confined(db, work, locked)'
    BY <1>11 DEF Hold, Release, Settled, Confined
  <1>12. ASSUME NEW d, CleanUp(d)  PROVE Settled' /\ Confined(db, work, locked)'
    BY <1>12 DEF CleanUp, Settled, Confined
  <1>13. CASE UNCHANGED vars
    BY <1>13 DEF vars, Settled, Confined
  <1>14. QED
    BY <1>1, <1>2, <1>3, <1>4, <1>5, <1>6, <1>7, <1>8, <1>9, <1>10, <1>11, <1>12, <1>13
    DEF Next, ScriptStep, RemoveBackup, RemoveJournal

(* A script's uncommitted changes never leave the tables it holds locked,   *)
(* so a rollback loses no row another session has committed.                *)
THEOREM RollBackIsSafe == Spec => []OnlyLockedTablesDiffer
  <1>1. Init => Settled /\ Confined(db, work, locked)
    BY SameConfined DEF Init, Settled
  <1>2. TypeOK /\ Settled /\ Confined(db, work, locked) /\ [Next]_vars
          => Settled' /\ Confined(db, work, locked)'
    BY NextConfined
  <1>3. QED
    BY <1>1, <1>2, TypeCorrect, ConfinedIs, PTL DEF Spec

-----------------------------------------------------------------------------------
(* The promise is about the same databases.                                 *)
LEMMA SameNotions ==
  /\ Promise!RowSets = RowSets
  /\ Promise!Databases = Databases
  /\ Promise!BackupNames = BackupNames
  /\ Promise!NoBackup = NoBackup
  /\ Promise!NoJournal = NoJournal
  /\ Promise!Dependents = Dependents
  /\ \A x, t : Promise!OnTable(x, t) <=> OnTable(x, t)
  /\ \A d, b : Promise!BackedUp(d, b) <=> BackedUp(d, b)
  BY DEF Promise!RowSets, RowSets, Promise!Rows, Rows, Promise!Cells, Cells,
         Promise!Null, Null, Promise!Whole, Whole,
         Promise!NoRows, NoRows, Promise!NoBackup, NoBackup,
         Promise!NoJournal, NoJournal, Promise!Dependents, Dependents,
         Promise!Default, Default, Promise!BackupNames, BackupNames,
         Promise!OnTable, OnTable, Promise!BackedUp, BackedUp,
         Promise!StoredColumns, StoredColumns, Promise!Backups, Backups,
         Promise!Numbers, Numbers, Promise!Entries, Entries,
         Promise!Journals, Journals, Promise!Databases, Databases
-----------------------------------------------------------------------------------
(* What one step changes is local to the table it names.                    *)
Near(x, T) == \E t \in T : OnTable(x, t)

(* Every dependent the forward journal holds is on one of the tables T.     *)
JournalNear(d, T) ==
  \A j \in DOMAIN d.journal[FALSE].entries :
    \A x \in d.journal[FALSE].entries[j].deps : Near(x, T)

Local(d, e, T) ==
  /\ \A t \in Tables \ T : e.cols[t] = d.cols[t] /\ e.rows[t] = d.rows[t]
  /\ \A x \in Dependents : (x \in e.deps) # (x \in d.deps) => Near(x, T)
  /\ \A b \in BackupNames : BackedUp(d, b) => e.bak[b] = d.bak[b]
  /\ \A u \in BOOLEAN : d.journal[u].made => e.journal[u].made

LEMMA SameLocal ==
  ASSUME NEW d, NEW T
  PROVE  Local(d, d, T)
  BY DEF Local

LEMMA LocalThen ==
  ASSUME NEW d, NEW e, NEW f, NEW T, Local(d, e, T), Local(e, f, T)
  PROVE  Local(d, f, T)
  <1>1. \A b \in BackupNames : BackedUp(d, b) => BackedUp(e, b)
    BY DEF Local, BackedUp
  <1>2. QED  BY <1>1 DEF Local

LEMMA JournaledNear ==
  ASSUME NEW d \in Databases, NEW X \in SUBSET Dependents, NEW n \in Numbers, NEW u \in BOOLEAN,
         NEW T, \A x \in X : Near(x, T), JournalNear(d, T)
  PROVE  /\ JournalNear(Journaled(d, X, n, u), T)
         /\ Journaled(d, X, n, u).bak = d.bak
         /\ \A v \in BOOLEAN : Journaled(d, X, n, u).journal[v].made = d.journal[v].made
  <1> DEFINE e == Journaled(d, X, n, u)
             old == d.journal[FALSE].entries
             new == e.journal[FALSE].entries
             entry == [step |-> n, deps |-> X]
  <1>1. old \in Seq(Entries) /\ d.journal[u] \in Journals
    BY DEF Databases, Journals
  <1>2. new = old \/ new = Append(old, entry)
    BY <1>1 DEF Journaled, Databases, Journals
  <1>3. e.bak = d.bak /\ \A v \in BOOLEAN : e.journal[v].made = d.journal[v].made
    BY <1>1 DEF Journaled, Databases, Journals
  <1>4. \A j \in DOMAIN old : \A x \in old[j].deps : Near(x, T)
    BY DEF JournalNear
  <1>5. \A x \in entry.deps : Near(x, T)
    OBVIOUS
  <1> HIDE DEF old, entry
  <1>6. CASE new = Append(old, entry)
    <2>1. \A j \in DOMAIN new : (j \in DOMAIN old /\ new[j] = old[j]) \/ new[j] = entry
      BY <1>1, <1>6
    <2>2. QED  BY <2>1, <1>3, <1>4, <1>5 DEF JournalNear
  <1>7. QED  BY <1>2, <1>3, <1>4, <1>6 DEF JournalNear

LEMMA CollectedNear ==
  ASSUME NEW d, NEW s, NEW T, s.tbl \in T
  PROVE  /\ \A x \in TableDependents(d, s) : Near(x, T)
         /\ \A x \in ColumnDependents(d, s) : Near(x, T)
         /\ \A x \in AlterDependents(d, s) : Near(x, T)
         /\ \A x \in DroppedKeys(d, s) : Near(x, T)
  BY DEF TableDependents, ColumnDependents, AlterDependents, DroppedKeys, Keys,
         OnColumn, OnTable, Near

LEMMA NewDefaultsNear ==
  ASSUME NEW s, NEW T, s.tbl \in T
  PROVE  \A x \in NewDefaults(s) : Near(x, T)
  BY DEF NewDefaults, Default, OnTable, Near

(* A change of table t that moves only dependents near T is local.          *)
LEMMA LocalIntro ==
  ASSUME NEW d, NEW e, NEW j, NEW t, NEW T, t \in T, NEW X,
         \A v \in Tables \ {t} : e.cols[v] = d.cols[v] /\ e.rows[v] = d.rows[v],
         \A x \in (e.deps \ d.deps) \cup (d.deps \ e.deps) : x \in X,
         \A x \in X : Near(x, T),
         e.bak = d.bak, \A u \in BOOLEAN : j.journal[u].made = d.journal[u].made,
         e.journal = j.journal, JournalNear(j, T)
  PROVE  Local(d, e, T) /\ JournalNear(e, T)
  <1>1. JournalNear(e, T)
    BY DEF JournalNear
  <1>2. \A x \in Dependents : (x \in e.deps) # (x \in d.deps) => Near(x, T)
    OBVIOUS
  <1>3. Local(d, e, T)
    BY <1>2 DEF Local
  <1>4. QED  BY <1>1, <1>3

LEMMA ChangedLocal ==
  ASSUME TypeOK, NEW T \in SUBSET Tables, Step.tbl \in T, JournalNear(work, T)
  PROVE  Local(work, Changed(work, Step), T) /\ JournalNear(Changed(work, Step), T)
  <1> DEFINE d == work
             s == Step
  <1>0. s \in Steps /\ d \in Databases /\ run.at \in Numbers /\ run.undo \in BOOLEAN
    BY AtStep
  <1> HIDE DEF d, s
  <1>a. s.tbl \in T /\ s.tbl \in Tables /\ s.col \in Columns /\ JournalNear(d, T)
    BY <1>0, StepFields DEF d, s
  <1>1. CASE s.kind = "create_table"
    <2> DEFINE e == CreateTable(d, s)
               X == {Default(s.tbl, c, s.table[c].dflt) :
                       c \in {c1 \in Columns : s.table[c1].type # 0 /\ s.table[c1].dflt # 0}}
    <2>1. /\ \A t \in Tables \ {s.tbl} : e.cols[t] = d.cols[t] /\ e.rows[t] = d.rows[t]
          /\ e.deps = d.deps \cup X /\ e.bak = d.bak /\ e.journal = d.journal
      BY <1>0, <1>a DEF Databases, CreateTable
    <2>2. \A x \in X : Near(x, T)
      BY <1>a DEF Default, OnTable, Near
    <2> HIDE DEF e, X
    <2>3. Local(d, e, T) /\ JournalNear(e, T)
      BY <1>a, <2>1, <2>2, LocalIntro
    <2>4. QED  BY <1>1, <2>3 DEF Changed, d, s, e
  <1>2. CASE s.kind = "drop_table"
    <2> DEFINE e == DropTable(d, s, run.at, run.undo)
               j == Journaled(d, TableDependents(d, s), run.at, run.undo)
               X == {x \in d.deps : OnTable(x, s.tbl)}
    <2>1. /\ TableDependents(d, s) \in SUBSET Dependents
          /\ \A x \in TableDependents(d, s) : Near(x, T)
      BY <1>0, <1>a, CollectedType, CollectedNear
    <2>2. /\ j \in Databases /\ j.cols = d.cols /\ j.rows = d.rows /\ j.deps = d.deps
          /\ j.bak = d.bak /\ \A u \in BOOLEAN : j.journal[u].made = d.journal[u].made
          /\ JournalNear(j, T)
      BY <1>0, <1>a, <2>1, JournaledType, JournaledNear
    <2>3. e = [j EXCEPT !.cols[s.tbl] = NoColumns, !.rows[s.tbl] = NoRows,
                        !.deps = {x \in @ : ~OnTable(x, s.tbl)}]
      BY DEF DropTable
    <2> HIDE DEF j
    <2>4. /\ \A t \in Tables \ {s.tbl} : e.cols[t] = d.cols[t] /\ e.rows[t] = d.rows[t]
          /\ e.deps = d.deps \ X /\ e.bak = d.bak /\ e.journal = j.journal
      BY <1>a, <2>2, <2>3 DEF Databases
    <2>5. \A x \in X : Near(x, T)
      BY <1>a DEF Near
    <2> HIDE DEF e, X
    <2>6. Local(d, e, T) /\ JournalNear(e, T)
      BY <1>a, <2>2, <2>4, <2>5, LocalIntro
    <2>7. QED  BY <1>2, <2>6 DEF Changed, d, s, e
  <1>3. CASE s.kind = "drop_column"
    <2> DEFINE e == DropColumn(d, s, run.at, run.undo)
               X == ColumnDependents(d, s)
               j == Journaled(d, X, run.at, run.undo)
    <2>1. X \in SUBSET Dependents /\ \A x \in X : Near(x, T)
      BY <1>0, <1>a, CollectedType, CollectedNear
    <2> HIDE DEF X
    <2>2. /\ j \in Databases /\ j.cols = d.cols /\ j.rows = d.rows /\ j.deps = d.deps
          /\ j.bak = d.bak /\ \A u \in BOOLEAN : j.journal[u].made = d.journal[u].made
          /\ JournalNear(j, T)
      BY <1>0, <1>a, <2>1, JournaledType, JournaledNear
    <2>3. e = [j EXCEPT !.cols[s.tbl][s.col] = Stored(NoAttributes),
                        !.rows[s.tbl] = [r \in DOMAIN @ |-> [@[r] EXCEPT ![s.col] = Null]],
                        !.deps = @ \ X]
      BY DEF DropColumn, X
    <2> HIDE DEF j
    <2>4. /\ \A t \in Tables \ {s.tbl} : e.cols[t] = d.cols[t] /\ e.rows[t] = d.rows[t]
          /\ e.deps = d.deps \ X /\ e.bak = d.bak /\ e.journal = j.journal
      BY <1>a, <2>2, <2>3 DEF Databases
    <2> HIDE DEF e
    <2>5. Local(d, e, T) /\ JournalNear(e, T)
      BY <1>a, <2>1, <2>2, <2>4, LocalIntro
    <2>6. QED  BY <1>3, <2>5 DEF Changed, d, s, e
  <1>4. CASE s.kind = "add_column"
    <2> DEFINE e == AddColumn(d, s)
               X == NewDefaults(s)
    <2>1. /\ \A t \in Tables \ {s.tbl} : e.cols[t] = d.cols[t] /\ e.rows[t] = d.rows[t]
          /\ e.deps = d.deps \cup X /\ e.bak = d.bak /\ e.journal = d.journal
      BY <1>0, <1>a DEF Databases, AddColumn
    <2>2. \A x \in X : Near(x, T)
      BY <1>a, NewDefaultsNear
    <2> HIDE DEF e, X
    <2>3. Local(d, e, T) /\ JournalNear(e, T)
      BY <1>a, <2>1, <2>2, LocalIntro
    <2>4. QED  BY <1>4, <2>3 DEF Changed, d, s, e
  <1>5. CASE s.kind = "modify_column"
    <2> DEFINE e == ModifyColumn(d, s)
               X == AlterDependents(d, s) \cup DefaultsOn(d, s.tbl, s.col) \cup NewDefaults(s)
    <2>1. /\ \A t \in Tables \ {s.tbl} : e.cols[t] = d.cols[t] /\ e.rows[t] = d.rows[t]
          /\ e.deps = AlteredDeps(d, s) /\ e.bak = d.bak /\ e.journal = d.journal
      BY <1>0, <1>a DEF Databases, ModifyColumn
    <2>2. \A x \in (e.deps \ d.deps) \cup (d.deps \ e.deps) : x \in X
      BY <2>1 DEF AlteredDeps, Keys
    <2>3. \A x \in DefaultsOn(d, s.tbl, s.col) : Near(x, T)
      BY <1>a DEF DefaultsOn, OnTable, Near
    <2>4. \A x \in X : Near(x, T)
      BY <1>a, <2>3, CollectedNear, NewDefaultsNear
    <2> HIDE DEF e, X
    <2>5. Local(d, e, T) /\ JournalNear(e, T)
      BY <1>a, <2>1, <2>2, <2>4, LocalIntro
    <2>6. QED  BY <1>5, <2>5 DEF Changed, d, s, e
  <1>6. CASE s.kind = "restore_table"
    <2> DEFINE e == RestoreTable(d, s)
               X == {}
    <2>1. /\ \A t \in Tables \ {s.tbl} : e.cols[t] = d.cols[t] /\ e.rows[t] = d.rows[t]
          /\ e.deps = d.deps \cup X /\ e.bak = d.bak /\ e.journal = d.journal
          /\ \A x \in X : Near(x, T)
      BY <1>0, <1>a DEF Databases, RestoreTable
    <2> HIDE DEF e, X
    <2>2. Local(d, e, T) /\ JournalNear(e, T)
      BY <1>a, <2>1, LocalIntro
    <2>3. QED  BY <1>6, <2>2 DEF Changed, d, s, e
  <1>7. CASE s.kind = "restore_column"
    <2> DEFINE e == RestoreColumn(d, s, run.by[run.at])
               X == {}
    <2>1. /\ \A t \in Tables \ {s.tbl} : e.cols[t] = d.cols[t] /\ e.rows[t] = d.rows[t]
          /\ e.deps = d.deps \cup X /\ e.bak = d.bak /\ e.journal = d.journal
          /\ \A x \in X : Near(x, T)
      BY <1>0, <1>a DEF Databases, RestoreColumn
    <2> HIDE DEF e, X
    <2>2. Local(d, e, T) /\ JournalNear(e, T)
      BY <1>a, <2>1, LocalIntro
    <2>3. QED  BY <1>7, <2>2 DEF Changed, d, s, e
  <1>8. CASE s.kind = "unsupported"
    BY <1>8, <1>a, SameLocal DEF Changed, d, s
  <1>9. QED
    BY <1>0, <1>1, <1>2, <1>3, <1>4, <1>5, <1>6, <1>7, <1>8, StepFields DEF Kinds

LEMMA CopyLocal ==
  ASSUME NEW d \in Databases, NEW s \in Steps, NEW u \in BOOLEAN, NEW T,
         CanCopy(d, s, u), JournalNear(d, T)
  PROVE  Local(d, Copy(d, s, u), T) /\ JournalNear(Copy(d, s, u), T)
  <1> DEFINE e == Copy(d, s, u)
  <1>1. d.journal[u] \in Journals
    BY DEF Databases
  <1>2. /\ e.cols = d.cols /\ e.rows = d.rows /\ e.deps = d.deps
        /\ \A b \in BackupNames : b # BackupOf(s, u) => e.bak[b] = d.bak[b]
        /\ \A v \in BOOLEAN : /\ d.journal[v].made => e.journal[v].made
                             /\ e.journal[v].entries = d.journal[v].entries
    BY <1>1 DEF Copy, Databases, Journals
  <1>3. ~BackedUp(d, BackupOf(s, u))
    BY DEF CanCopy
  <1> HIDE DEF e
  <1>4. e.journal[FALSE].entries = d.journal[FALSE].entries
    BY <1>2
  <1>5. QED  BY <1>2, <1>3, <1>4 DEF Local, JournalNear, e

LEMMA AddAllLocal ==
  ASSUME NEW d \in Databases, NEW X, NEW T, \A x \in X : Near(x, T), JournalNear(d, T)
  PROVE  Local(d, AddAll(d, X), T) /\ JournalNear(AddAll(d, X), T)
  <1> DEFINE e == AddAll(d, X)
  <1>1. /\ e.cols = d.cols /\ e.rows = d.rows /\ e.deps = d.deps \cup X
        /\ e.bak = d.bak /\ e.journal = d.journal
    BY DEF AddAll, Databases
  <1> HIDE DEF e
  <1>2. JournalNear(e, T)
    BY <1>1 DEF JournalNear
  <1>3. Local(d, e, T)
    BY <1>1 DEF Local
  <1>4. QED  BY <1>2, <1>3 DEF e

LEMMA ReplayedNear ==
  ASSUME NEW d \in Databases, NEW T, JournalNear(d, T)
  PROVE  \A x \in Replayed(d) : Near(x, T)
  <1> DEFINE es == d.journal[FALSE].entries
  <1>1. es \in Seq(Entries)
    BY DEF Databases, Journals
  <1>2. \A j \in DOMAIN es : \A x \in es[j].deps : Near(x, T)
    BY DEF JournalNear
  <1> HIDE DEF es
  <1>3. \A j \in 1 .. Len(es) : \A x \in es[j].deps : Near(x, T)
    BY <1>1, <1>2
  <1>4. QED  BY <1>3 DEF Replayed, ReplayedEntries, es

LEMMA StepInScript ==
  ASSUME TypeOK
  PROVE  Step.tbl \in ScriptTables
  <1>1. run.at \in 1 .. Len(script) /\ script \in Seq(Steps) /\ Len(script) \in Nat
    BY DEF TypeOK
  <1>2. CASE ~run.undo
    BY <1>1, <1>2 DEF Step, AllSteps, ScriptTables
  <1>3. CASE run.undo
    <2> DEFINE n == Len(script) + 1 - run.at
    <2>1. n \in 1 .. Len(script)
      BY <1>1
    <2>2. Step = UndoOp(script[n], n)
      BY <1>1, <1>3 DEF Step, AllSteps, UndoOps
    <2>3. script[n] \in Steps
      BY <1>1, <2>1
    <2> HIDE DEF n
    <2>4. UndoOp(script[n], n).tbl = script[n].tbl
      BY <2>3 DEF UndoOp, Steps
    <2>5. QED  BY <2>1, <2>2, <2>4 DEF ScriptTables
  <1>4. QED  BY <1>2, <1>3

LEMMA ScriptTablesType ==
  ASSUME TypeOK
  PROVE  ScriptTables \in SUBSET Tables /\ ScriptTables # {}
  <1>1. \A n \in 1 .. Len(script) : script[n].tbl \in Tables
    BY StepFields DEF TypeOK
  <1>2. 1 \in 1 .. Len(script)
    BY DEF TypeOK
  <1>3. QED  BY <1>1, <1>2 DEF ScriptTables
-----------------------------------------------------------------------------------
(* The invariant: all the script has changed and not committed is near the  *)
(* tables it names, and so is all it may still recreate.                    *)
Near1 == Local(db, work, ScriptTables)
Near2 == JournalNear(db, ScriptTables) /\ JournalNear(work, ScriptTables)
Near3 == \A x \in run.keys : Near(x, ScriptTables)
Inside == Near1 /\ Near2 /\ Near3

LEMMA InitInside ==
  ASSUME Init
  PROVE  Inside
  <1>1. db.journal[FALSE].entries = <<>>
    <2>1. db \in InitialDbs /\ FALSE \in BOOLEAN
      BY DEF Init
    <2>2. db.journal[FALSE] = NoJournal
      BY <2>1, ScriptAssumption
    <2>3. QED  BY <2>2 DEF NoJournal
  <1>2. JournalNear(db, ScriptTables) /\ work = db /\ run.keys = {}
    BY <1>1 DEF Init, JournalNear, Idle
  <1>3. QED  BY <1>2, SameLocal DEF Inside, Near1, Near2, Near3

LEMMA RollBackInside ==
  ASSUME NEW outcome, Inside, RollBack(outcome)
  PROVE  Inside'
  <1>1. /\ work' = db /\ db' = db /\ run'.keys = {} /\ ScriptTables' = ScriptTables
    BY DEF RollBack, Idle, ScriptTables
  <1>2. Near1'
    BY <1>1, SameLocal DEF Near1
  <1>3. Near2' /\ Near3'
    BY <1>1 DEF Inside, Near2, Near3
  <1>4. QED  BY <1>2, <1>3 DEF Inside

LEMMA WriteInside ==
  ASSUME TypeOK, Inside, NEW t \in Tables, Write(t)
  PROVE  Inside'
  <1>1. PICK rows \in RowSets : /\ db' = [db EXCEPT !.rows[t] = rows]
                                /\ work' = [work EXCEPT !.rows[t] = rows]
    BY DEF Write, OneRowChanges
  <1>2. /\ db'.cols = db.cols /\ work'.cols = work.cols
        /\ db'.deps = db.deps /\ work'.deps = work.deps
        /\ db'.bak = db.bak /\ work'.bak = work.bak
        /\ db'.journal = db.journal /\ work'.journal = work.journal
        /\ \A v \in Tables : /\ db'.rows[v] = IF v = t THEN rows ELSE db.rows[v]
                            /\ work'.rows[v] = IF v = t THEN rows ELSE work.rows[v]
    BY <1>1 DEF TypeOK, Databases
  <1>3. ScriptTables' = ScriptTables /\ run' = run
    BY DEF Write, ScriptTables
  <1>4. Near1'
    BY <1>2, <1>3 DEF Inside, Near1, Local, BackedUp
  <1>5. Near2' /\ Near3'
    BY <1>2, <1>3 DEF Inside, Near2, Near3, JournalNear
  <1>6. QED  BY <1>4, <1>5 DEF Inside

LEMMA CleanUpInside ==
  ASSUME Inside, NEW d, CleanUp(d), JournalNear(d, ScriptTables)
  PROVE  Inside'
  <1>1. db' = d /\ work' = d /\ run' = run /\ ScriptTables' = ScriptTables
    BY DEF CleanUp, ScriptTables
  <1>2. Near1'
    BY <1>1, SameLocal DEF Near1
  <1>3. Near2' /\ Near3'
    BY <1>1 DEF Inside, Near2, Near3
  <1>4. QED  BY <1>2, <1>3 DEF Inside

(* A step of phase 2 that takes work from one database to another.          *)
LEMMA WorkInside ==
  ASSUME Inside, UNCHANGED <<script, db>>, Local(work, work', ScriptTables),
         JournalNear(work', ScriptTables), \A x \in run'.keys : Near(x, ScriptTables)
  PROVE  Inside'
  <1>1. ScriptTables' = ScriptTables
    BY DEF ScriptTables
  <1>2. Near1'
    BY <1>1, LocalThen DEF Inside, Near1
  <1>3. Near2' /\ Near3'
    BY <1>1 DEF Inside, Near2, Near3
  <1>4. QED  BY <1>2, <1>3 DEF Inside

LEMMA ScriptStepInside ==
  ASSUME TypeOK, Inside, ScriptStep
  PROVE  Inside'
  <1>0. /\ Step \in Steps /\ run.undo \in BOOLEAN /\ run \in Runs
        /\ work \in Databases /\ db \in Databases
        /\ Step.tbl \in ScriptTables /\ ScriptTables \in SUBSET Tables
        /\ JournalNear(work, ScriptTables)
        /\ \A x \in run.keys : Near(x, ScriptTables)
    BY AtStep, StepInScript, ScriptTablesType DEF Inside, Near2, Near3
  <1>1. CASE CheckStep
    <2>1. run'.keys = run.keys /\ work' = work /\ UNCHANGED <<script, db>>
      BY <1>0, <1>1 DEF CheckStep, Runs
    <2>2. QED  BY <1>0, <2>1, SameLocal, WorkInside
  <1>2. CASE Refuse \/ StatementFails \/ VerifyFails
    BY <1>2, RollBackInside DEF Refuse, StatementFails, VerifyFails
  <1>3. CASE SkipStep
    <2>1. run'.keys = run.keys /\ work' = work /\ UNCHANGED <<script, db>>
      BY <1>0, <1>3 DEF SkipStep, Advance, Runs
    <2>2. QED  BY <1>0, <2>1, SameLocal, WorkInside
  <1>4. CASE CopyStep
    <2>1. run'.keys = run.keys /\ UNCHANGED <<script, db>>
      BY <1>0, <1>4 DEF CopyStep, Runs
    <2>2. Local(work, work', ScriptTables) /\ JournalNear(work', ScriptTables)
      BY <1>0, <1>4, CopyLocal DEF CopyStep
    <2>3. QED  BY <1>0, <2>1, <2>2, WorkInside
  <1>5. CASE ChangeStep
    <2>1. run'.keys \subseteq run.keys \cup DroppedKeys(work, Step)
      BY <1>0, <1>5 DEF ChangeStep, Advance, Runs
    <2>2. \A x \in run'.keys : Near(x, ScriptTables)
      BY <1>0, <2>1, CollectedNear
    <2>3. Local(work, work', ScriptTables) /\ JournalNear(work', ScriptTables)
      BY <1>0, <1>5, ChangedLocal DEF ChangeStep
    <2>4. UNCHANGED <<script, db>>
      BY <1>5 DEF ChangeStep
    <2>5. QED  BY <2>2, <2>3, <2>4, WorkInside
  <1>6. CASE RecreateKeys
    <2>1. run'.keys = run.keys /\ UNCHANGED <<script, db>>
      BY <1>0, <1>6 DEF RecreateKeys, Runs
    <2>2. Local(work, work', ScriptTables) /\ JournalNear(work', ScriptTables)
      BY <1>0, <1>6, AddAllLocal DEF RecreateKeys
    <2>3. QED  BY <1>0, <2>1, <2>2, WorkInside
  <1>7. CASE Replay
    <2>1. run'.keys = run.keys /\ UNCHANGED <<script, db>>
      BY <1>0, <1>7 DEF Replay, Runs
    <2>2. Local(work, work', ScriptTables) /\ JournalNear(work', ScriptTables)
      BY <1>0, <1>7, ReplayedNear, AddAllLocal DEF Replay
    <2>3. QED  BY <1>0, <2>1, <2>2, WorkInside
  <1>8. CASE Commit
    <2>1. work' = work /\ db' = work /\ run'.keys = {} /\ ScriptTables' = ScriptTables
      BY <1>8 DEF Commit, Idle, ScriptTables
    <2>2. Near1'
      BY <2>1, SameLocal DEF Near1
    <2>3. Near2' /\ Near3'
      BY <1>0, <2>1 DEF Near2, Near3
    <2>4. QED  BY <2>2, <2>3 DEF Inside
  <1>9. QED
    BY <1>1, <1>2, <1>3, <1>4, <1>5, <1>6, <1>7, <1>8 DEF ScriptStep

LEMMA NextInside ==
  ASSUME TypeOK, Inside, [Next]_vars
  PROVE  Inside'
  <1>0. db \in Databases /\ JournalNear(db, ScriptTables) /\ JournalNear(work, ScriptTables)
    BY DEF TypeOK, Inside, Near2
  <1>1. ASSUME NEW undo \in BOOLEAN, Start(undo)  PROVE Inside'
    <2>1. run'.keys = {} /\ work' = work /\ UNCHANGED <<script, db>>
      BY <1>1 DEF Start, Idle
    <2>2. QED  BY <1>0, <2>1, SameLocal, WorkInside
  <1>2. CASE ScriptStep
    BY <1>2, ScriptStepInside
  <1>3. CASE Interrupt \/ LockTimeout
    BY <1>3, RollBackInside DEF Interrupt, LockTimeout
  <1>4. ASSUME NEW t \in Tables, Write(t)  PROVE Inside'
    BY <1>4, WriteInside
  <1>5. ASSUME NEW t \in Tables, Hold(t) \/ Release(t)  PROVE Inside'
    <2>1. run' = run /\ work' = work /\ UNCHANGED <<script, db>>
      BY <1>5 DEF Hold, Release
    <2>2. QED  BY <1>0, <2>1, SameLocal, WorkInside DEF Inside, Near3
  <1>6. ASSUME NEW b \in BackupNames, RemoveBackup(b)  PROVE Inside'
    <2>1. [db EXCEPT !.bak[b] = NoBackup].journal = db.journal
      BY <1>0 DEF Databases
    <2>2. JournalNear([db EXCEPT !.bak[b] = NoBackup], ScriptTables)
      BY <1>0, <2>1 DEF JournalNear
    <2>3. QED  BY <1>6, <2>2, CleanUpInside DEF RemoveBackup
  <1>7. ASSUME NEW u \in BOOLEAN, RemoveJournal(u)  PROVE Inside'
    <2> DEFINE d == [db EXCEPT !.journal[u] = NoJournal]
    <2>1. d.journal[FALSE].entries \in {<<>>, db.journal[FALSE].entries}
      BY <1>0 DEF Databases, NoJournal
    <2> HIDE DEF d
    <2>2. d.journal[FALSE].entries = <<>> => JournalNear(d, ScriptTables)
      BY DEF JournalNear
    <2>3. d.journal[FALSE].entries = db.journal[FALSE].entries => JournalNear(d, ScriptTables)
      BY <1>0 DEF JournalNear
    <2>4. QED  BY <1>7, <2>1, <2>2, <2>3, CleanUpInside DEF RemoveJournal, d
  <1>8. CASE UNCHANGED vars
    <2>1. run' = run /\ work' = work /\ UNCHANGED <<script, db>>
      BY <1>8 DEF vars
    <2>2. QED  BY <1>0, <2>1, SameLocal, WorkInside DEF Inside, Near3
  <1>9. QED
    BY <1>1, <1>2, <1>3, <1>4, <1>5, <1>6, <1>7, <1>8 DEF Next
-----------------------------------------------------------------------------------
(* Every step of a script is a step of the promise, or none.                *)
Names == IF Running THEN ScriptTables ELSE {}

LEMMA ScriptNames ==
  ASSUME TypeOK
  PROVE  Names \in SUBSET Tables /\ (Names # {} <=> Running)
  BY ScriptTablesType DEF Names

LEMMA StillRunning ==
  ASSUME UNCHANGED <<script, db>>, Running' = Running
  PROVE  UNCHANGED <<db, Names>>
  BY DEF Names, ScriptTables

LEMMA RollBackAbandons ==
  ASSUME TypeOK, Running, NEW outcome, RollBack(outcome)
  PROVE  Promise!Abandon
  <1>1. Names # {}
    BY ScriptNames
  <1>2. db' = db /\ ~Running'
    BY DEF RollBack, Running, Idle
  <1>3. QED  BY <1>1, <1>2 DEF Promise!Abandon, Names

LEMMA CommitTakes ==
  ASSUME TypeOK, TypeOK', Inside, Commit
  PROVE  Promise!Take
  <1>1. Running /\ ~Running' /\ db' = work /\ db' \in Databases
    BY DEF Commit, Running, Idle, TypeOK
  <1>2. Names # {} /\ Names = ScriptTables /\ Names' = {}
    BY <1>1, ScriptNames DEF Names
  <1>3. Local(db, db', Names)
    BY <1>1, <1>2 DEF Inside, Near1
  <1>4. /\ \A t \in Tables \ Names : db'.cols[t] = db.cols[t] /\ db'.rows[t] = db.rows[t]
        /\ \A x \in Dependents : (x \in db.deps) # (x \in db'.deps) => \E t \in Names : OnTable(x, t)
        /\ \A b \in BackupNames : BackedUp(db, b) => db'.bak[b] = db.bak[b]
        /\ \A u \in BOOLEAN : db.journal[u].made => db'.journal[u].made
    BY <1>3 DEF Local, Near
  <1>5. QED
    BY <1>1, <1>2, <1>4, SameNotions DEF Promise!Take, Names

LEMMA StepKeepsPromise ==
  ASSUME TypeOK, TypeOK', Inside, [Next]_vars
  PROVE  Promise!Next \/ UNCHANGED <<db, Names>>
  <1>0. run \in Runs
    BY DEF TypeOK
  <1>1. ASSUME NEW undo \in BOOLEAN, Start(undo)  PROVE Promise!Begin
    <2>1. ~Running /\ Running' /\ db' = db
      BY <1>1 DEF Start, Running, Idle
    <2>2. Names = {} /\ Names' \in SUBSET Tables /\ Names' # {}
      <3>1. ScriptTables' = ScriptTables
        BY <1>1 DEF Start, ScriptTables
      <3>2. QED  BY <2>1, <3>1, ScriptTablesType DEF Names
    <2>3. QED  BY <2>1, <2>2 DEF Promise!Begin, Names
  <1>2. CASE Refuse \/ StatementFails \/ VerifyFails \/ Interrupt \/ LockTimeout
    <2>1. Running
      BY <1>2 DEF Refuse, StatementFails, VerifyFails, Interrupt, LockTimeout, Waits,
                  AtCopy, AtChange, Applying, Running
    <2>2. PICK outcome : RollBack(outcome)
      BY <1>2 DEF Refuse, StatementFails, VerifyFails, Interrupt, LockTimeout
    <2>3. QED  BY <2>1, <2>2, RollBackAbandons DEF Promise!Next
  <1>3. CASE CheckStep \/ SkipStep \/ CopyStep \/ ChangeStep \/ RecreateKeys \/ Replay
    <2>1. Running /\ Running' /\ UNCHANGED <<script, db>>
      BY <1>0, <1>3 DEF CheckStep, SkipStep, CopyStep, ChangeStep, RecreateKeys, Replay,
                        AtCopy, AtChange, Applying, Advance, Running, Runs
    <2>2. QED  BY <2>1, StillRunning
  <1>4. CASE Commit
    BY <1>4, CommitTakes DEF Promise!Next
  <1>5. ASSUME NEW t \in Tables, Write(t)  PROVE Promise!Share
    <2>1. PICK rows \in RowSets : db' = [db EXCEPT !.rows[t] = rows]
      BY <1>5 DEF Write, OneRowChanges
    <2>2. UNCHANGED Names
      BY <1>5 DEF Write, Names, Running, ScriptTables
    <2>3. QED  BY <2>1, <2>2, SameNotions DEF Promise!Share, Names
  <1>6. ASSUME NEW t \in Tables, Hold(t) \/ Release(t)  PROVE UNCHANGED <<db, Names>>
    BY <1>6, StillRunning DEF Hold, Release, Running
  <1>7. ASSUME NEW d, CleanUp(d)  PROVE db' = d /\ Names = {} /\ UNCHANGED Names
    BY <1>7 DEF CleanUp, Names, Running
  <1>8. ASSUME NEW b \in BackupNames, RemoveBackup(b)  PROVE Promise!Clear
    BY <1>7, <1>8, SameNotions DEF RemoveBackup, Promise!Clear, Names
  <1>9. ASSUME NEW u \in BOOLEAN, RemoveJournal(u)  PROVE Promise!Clear
    BY <1>7, <1>9, SameNotions DEF RemoveJournal, Promise!Clear, Names
  <1>10. CASE UNCHANGED vars
    BY <1>10, StillRunning DEF vars, Running
  <1>11. QED
    BY <1>1, <1>2, <1>3, <1>4, <1>5, <1>6, <1>8, <1>9, <1>10
    DEF Next, ScriptStep, Promise!Next

LEMMA InitKeepsPromise ==
  ASSUME Init
  PROVE  Promise!Init
  BY DEF Init, Promise!Init, Running, Idle

(* A script happens entirely or not at all, touches nothing but the tables  *)
(* it names, and never undoes what another session has committed.           *)
THEOREM PromiseImplemented == Spec => PromiseKept
  <1>1. TypeOK /\ TypeOK' /\ Inside /\ [Next]_vars => [Promise!Next]_(Promise!avars)
    BY StepKeepsPromise DEF Promise!avars, Names
  <1>2. QED
    BY <1>1, InitInside, NextInside, InitKeepsPromise, TypeCorrect, PTL
    DEF Spec, PromiseKept, Promise!Spec

-----------------------------------------------------------------------------------
(* What a committed script, or undo script, has done to the database.       *)


(* Only COMMIT ends a run with a commit.                                    *)
LEMMA OnlyCommitCommits ==
  ASSUME TypeOK, [Next]_vars, Committing
  PROVE  Commit
  <1>0. run \in Runs /\ past \in Histories /\ run.phase = "verify" /\ run'.phase = "idle"
    BY DEF TypeOK, Committing
  <1>1. ASSUME NEW outcome, RollBack(outcome), outcome # "committed"  PROVE FALSE
    BY <1>0, <1>1 DEF RollBack, Committing, Histories
  <1>2. ~(Refuse \/ StatementFails \/ VerifyFails \/ Interrupt \/ LockTimeout)
    BY <1>1 DEF Refuse, StatementFails, VerifyFails, Interrupt, LockTimeout
  <1>3. ~(CheckStep \/ SkipStep \/ CopyStep \/ ChangeStep \/ RecreateKeys \/ Replay)
    BY <1>0 DEF CheckStep, SkipStep, CopyStep, AtCopy, ChangeStep, AtChange, Applying,
                RecreateKeys, Replay
  <1>4. ~(\E undo \in BOOLEAN : Start(undo))
    BY <1>0 DEF Start, Running
  <1>5. run' # run
    BY <1>0
  <1>6. ~(\E t \in Tables : Write(t) \/ Hold(t) \/ Release(t))
    BY <1>5 DEF Write, Hold, Release
  <1>7. ~(\E b \in BackupNames : RemoveBackup(b)) /\ ~(\E u \in BOOLEAN : RemoveJournal(u))
    BY <1>5 DEF RemoveBackup, RemoveJournal, CleanUp
  <1>8. Next
    BY <1>5 DEF vars
  <1>9. QED
    BY <1>2, <1>3, <1>4, <1>6, <1>7, <1>8 DEF Next, ScriptStep

-----------------------------------------------------------------------------------
(* A script run again after it was committed.  Every step is then in its    *)
(* final state, and whoever else uses the database cannot take it out of    *)
(* it: they only write rows, and the user only removes backups.             *)

LEMMA GoalIsSkip ==
  ASSUME NEW d, NEW s \in Steps, NEW u, s.kind # "unsupported", Goal(d, s)
  PROVE  Check(d, s, u) = "skip"
  <1>1. s.kind \in Kinds
    BY StepFields
  <1>2. QED
    BY <1>1 DEF Kinds, Goal, Check, TableIs, ColumnIs, CheckCreateTable, CheckDropTable, CheckDropColumn,
              CheckAddColumn, CheckModifyColumn, CheckRestoreTable, CheckRestoreColumn

LEMMA UnsupportedAborts ==
  ASSUME NEW d, NEW s, NEW u, s.kind = "unsupported"
  PROVE  Check(d, s, u) = "abort"
  BY DEF Check

SameSchema(d, e) == d.cols = e.cols /\ d.deps = e.deps

LEMMA GoalBySchema ==
  ASSUME NEW d, NEW e, SameSchema(d, e), NEW s
  PROVE  Goal(d, s) <=> Goal(e, s)
  BY DEF SameSchema, Goal, TableIs, ColumnIs, Exists, HasColumn, DefaultsOn

AppliedSteps == IF past.state = "undone" THEN UndoOps(script) ELSE script
AllApplied == past.state # "new" => \A n \in 1 .. Len(script) : Goal(db, AppliedSteps[n])

Again == Running /\ past.state = (IF run.undo THEN "undone" ELSE "applied")
NothingToDo ==
  Again => /\ work = db /\ run.keys = {} /\ run.replay = {}
           /\ run.phase = "check" => 1 .. run.at - 1 \subseteq run.skip
           /\ run.phase # "check" => 1 .. Len(script) \subseteq run.skip

(* What the other sessions and the user's cleaning do to a database.        *)
LEMMA OthersKeepSchema ==
  ASSUME TypeOK,
         \/ \E t \in Tables : Write(t) \/ Hold(t) \/ Release(t)
         \/ \E b \in BackupNames : RemoveBackup(b)
         \/ \E u \in BOOLEAN : RemoveJournal(u)
  PROVE  /\ SameSchema(db, db') /\ (work = db => work' = db')
         /\ UNCHANGED <<script, run>> /\ past'.state = past.state
         /\ SameSchema(work, work') \/ ~Running
  <1>0. db \in Databases /\ work \in Databases /\ past \in Histories
    BY DEF TypeOK
  <1>1. ASSUME NEW t \in Tables, Write(t)
        PROVE  /\ SameSchema(db, db') /\ (work = db => work' = db')
               /\ UNCHANGED <<script, run>> /\ past'.state = past.state
               /\ SameSchema(work, work')
    <2>1. PICK rows : /\ db' = [db EXCEPT !.rows[t] = rows]
                      /\ work' = [work EXCEPT !.rows[t] = rows]
      BY <1>1 DEF Write
    <2>2. SameSchema(db, db') /\ SameSchema(work, work') /\ (work = db => work' = db')
      BY <1>0, <2>1 DEF SameSchema, Databases
    <2>3. UNCHANGED <<script, run>> /\ past'.state = past.state
      BY <1>0, <1>1 DEF Write, Histories
    <2>4. QED  BY <2>2, <2>3
  <1>2. ASSUME NEW t \in Tables, Hold(t) \/ Release(t)
        PROVE  UNCHANGED <<script, db, work, run, past>>
    BY <1>2 DEF Hold, Release
  <1>3. ASSUME NEW b \in BackupNames, RemoveBackup(b)
        PROVE  /\ SameSchema(db, db') /\ work' = db'
               /\ UNCHANGED <<script, run, past>> /\ ~Running
    BY <1>0, <1>3 DEF RemoveBackup, CleanUp, SameSchema, Databases
  <1>4. ASSUME NEW u \in BOOLEAN, RemoveJournal(u)
        PROVE  /\ SameSchema(db, db') /\ work' = db'
               /\ UNCHANGED <<script, run, past>> /\ ~Running
    BY <1>0, <1>4 DEF RemoveJournal, CleanUp, SameSchema, Databases
  <1>5. QED
    BY <1>1, <1>2, <1>3, <1>4 DEF SameSchema

LEMMA NextAllApplied ==
  ASSUME TypeOK, AllApplied, [Next]_vars
  PROVE  AllApplied'
  <1>0. past \in Histories /\ Len(script) \in Nat /\ run \in Runs
    BY DEF TypeOK
  <1>1. ASSUME SameSchema(db, db'), script' = script, past'.state = past.state
        PROVE  AllApplied'
    BY <1>1, GoalBySchema DEF AllApplied, AppliedSteps
  <1>2. CASE Commit
    <2>1. AppliedSteps' = AllSteps /\ db' = work /\ script' = script
      BY <1>0, <1>2 DEF Commit, AppliedSteps, AllSteps, Histories
    <2>2. \A n \in 1 .. Len(script) : Goal(work, AllSteps[n])
      BY <1>2 DEF Commit, Verified
    <2>3. QED  BY <2>1, <2>2 DEF AllApplied
  <1>3. ASSUME NEW outcome, RollBack(outcome)  PROVE AllApplied'
    BY <1>0, <1>1, <1>3 DEF RollBack, SameSchema, Histories
  <1>4. CASE Refuse \/ StatementFails \/ VerifyFails \/ Interrupt \/ LockTimeout
    BY <1>3, <1>4 DEF Refuse, StatementFails, VerifyFails, Interrupt, LockTimeout
  <1>5. CASE \E undo \in BOOLEAN : Start(undo)
    BY <1>1, <1>5 DEF Start, SameSchema
  <1>6. CASE CheckStep \/ SkipStep \/ CopyStep \/ ChangeStep \/ RecreateKeys \/ Replay
    BY <1>1, <1>6 DEF CheckStep, SkipStep, CopyStep, ChangeStep, RecreateKeys, Replay, SameSchema
  <1>7. CASE UNCHANGED vars
    BY <1>1, <1>7 DEF vars, SameSchema
  <1>8. QED
    BY <1>1, <1>2, <1>4, <1>5, <1>6, <1>7, OthersKeepSchema DEF Next, ScriptStep

LEMMA AgainApplied ==
  ASSUME TypeOK, AllApplied, Again, NEW n \in 1 .. Len(script)
  PROVE  Goal(db, AllSteps[n]) /\ AllSteps[n] \in Steps
  <1>1. AllSteps = AppliedSteps /\ past.state # "new"
    BY DEF Again, AllSteps, AppliedSteps, TypeOK, Histories, Runs
  <1>2. QED  BY <1>1, AtStep DEF AllApplied

LEMMA NextNothingToDo ==
  ASSUME TypeOK, Settled, AllApplied, NothingToDo, [Next]_vars
  PROVE  NothingToDo'
  <1>0. /\ past \in Histories /\ run \in Runs /\ run.at \in 1 .. Len(script) /\ Len(script) \in Nat
        /\ run.at \in Numbers /\ run.undo \in BOOLEAN /\ run.phase \in Phases /\ work \in Databases
    BY AtStep DEF TypeOK, Runs
  <1>1. ASSUME NEW undo \in BOOLEAN, Start(undo)  PROVE NothingToDo'
    <2>1. work' = db' /\ run'.keys = {} /\ run'.replay = {} /\ run'.phase = "check" /\ run'.at = 1
      BY <1>1 DEF Start, Running, Settled, Idle
    <2>2. QED  BY <2>1 DEF NothingToDo
  <1>2. CASE CheckStep
    <2> SUFFICES ASSUME Again'  PROVE NothingToDo'
      BY DEF NothingToDo
    <2>1. /\ run' = [run EXCEPT
               !.skip = IF Check(work, Step, run.undo) = "skip" THEN @ \cup {run.at} ELSE @,
               !.by[run.at] = IF Step.kind = "restore_column" THEN MatchColumns(work, Step) ELSE {},
               !.at = IF run.at = Len(script) THEN 1 ELSE @ + 1,
               !.phase = IF run.at = Len(script) THEN "apply" ELSE @]
          /\ Check(work, Step, run.undo) # "abort" /\ run.phase = "check"
          /\ UNCHANGED <<script, db, work, past>>
      BY <1>2 DEF CheckStep
    <2>2. Again
      BY <1>0, <2>1 DEF Again, Running, Runs
    <2>3. Goal(db, Step) /\ Step \in Steps /\ work = db
      BY <1>0, <2>2, AgainApplied DEF Step, NothingToDo
    <2>4. Check(work, Step, run.undo) = "skip"
      BY <2>1, <2>3, GoalIsSkip, UnsupportedAborts
    <2>5. /\ run'.skip = run.skip \cup {run.at} /\ run'.keys = run.keys /\ run'.replay = run.replay
          /\ run'.at = IF run.at = Len(script) THEN 1 ELSE run.at + 1
          /\ run'.phase = IF run.at = Len(script) THEN "apply" ELSE run.phase
      BY <1>0, <2>1, <2>4 DEF Runs
    <2>6. 1 .. run.at \subseteq run'.skip
      BY <1>0, <2>1, <2>2, <2>5 DEF NothingToDo
    <2>7. QED  BY <1>0, <2>1, <2>2, <2>5, <2>6 DEF NothingToDo
  <1>3. ASSUME NEW outcome, RollBack(outcome)  PROVE NothingToDo'
    BY <1>3 DEF RollBack, NothingToDo, Again, Running, Idle
  <1>4. CASE Refuse \/ StatementFails \/ VerifyFails \/ Interrupt \/ LockTimeout
    BY <1>3, <1>4 DEF Refuse, StatementFails, VerifyFails, Interrupt, LockTimeout
  <1>5. CASE SkipStep
    <2>1. /\ run'.skip = run.skip /\ run'.keys = run.keys /\ run'.replay = run.replay
          /\ run'.undo = run.undo /\ run'.phase # "check"
      BY <1>0, <1>5 DEF SkipStep, Advance, Runs
    <2>2. QED  BY <1>0, <1>5, <2>1 DEF SkipStep, NothingToDo, Again, Running
  <1>6. CASE CopyStep \/ ChangeStep
    <2>1. /\ run.phase = "apply" /\ run.at \notin run.skip /\ past' = past
          /\ run'.undo = run.undo
      BY <1>0, <1>6 DEF CopyStep, ChangeStep, AtCopy, AtChange, Applying, Advance, Runs
    <2>2. ~Again
      BY <1>0, <2>1 DEF NothingToDo
    <2>3. ~Again'
      BY <2>1, <2>2 DEF Again, Running
    <2>4. QED  BY <2>3 DEF NothingToDo
  <1>7. CASE RecreateKeys
    <2>1. /\ run'.skip = run.skip /\ run'.keys = run.keys /\ run'.replay = run.replay
          /\ run'.undo = run.undo /\ run'.phase # "check" /\ run.phase = "keys" /\ past' = past
          /\ db' = db /\ script' = script /\ work' = AddAll(work, run.keys)
      BY <1>0, <1>7 DEF RecreateKeys, Runs
    <2>2. run.keys = {} => work' = work
      BY <1>0, <2>1 DEF AddAll, Databases
    <2>3. QED  BY <2>1, <2>2 DEF NothingToDo, Again, Running
  <1>8. CASE Replay
    <2>1. /\ run'.skip = run.skip /\ run'.keys = run.keys /\ run'.replay = run.replay
          /\ run'.undo = run.undo /\ run'.phase # "check" /\ run.phase = "replay" /\ past' = past
          /\ db' = db /\ script' = script /\ work' = AddAll(work, Replayed(work))
      BY <1>0, <1>8 DEF Replay, Runs
    <2>2. run.replay = {} => Replayed(work) = {}
      BY DEF Replayed, ReplayedEntries
    <2>3. run.replay = {} => work' = work
      BY <1>0, <2>1, <2>2 DEF AddAll, Databases
    <2>4. QED  BY <2>1, <2>3 DEF NothingToDo, Again, Running
  <1>9. CASE Commit
    BY <1>9 DEF Commit, NothingToDo, Again, Running, Idle
  <1>10. CASE \/ \E t \in Tables : Write(t) \/ Hold(t) \/ Release(t)
              \/ \E b \in BackupNames : RemoveBackup(b)
              \/ \E u \in BOOLEAN : RemoveJournal(u)
    BY <1>10, OthersKeepSchema DEF NothingToDo, Again, Running
  <1>11. CASE UNCHANGED vars
    BY <1>11 DEF vars, NothingToDo, Again, Running
  <1>12. QED
    BY <1>1, <1>2, <1>4, <1>5, <1>6, <1>7, <1>8, <1>9, <1>10, <1>11 DEF Next, ScriptStep

(* Committing a script, or its undo, right after it was committed leaves    *)
(* the database as it is, whoever else writes to it in between.             *)
THEOREM RerunIsNoOp == Spec => RerunChangesNothing
  <1>1. Init => AllApplied /\ NothingToDo
    BY DEF Init, AllApplied, NothingToDo, Again, Running, Idle
  <1>2. TypeOK /\ AllApplied /\ [Next]_vars => AllApplied'
    BY NextAllApplied
  <1>3. TypeOK /\ OnlyLockedTablesDiffer /\ AllApplied /\ NothingToDo /\ [Next]_vars => NothingToDo'
    BY NextNothingToDo, ConfinedIs
  <1>4. TypeOK /\ NothingToDo /\ [Next]_vars
          => [Committing /\ past.state = (IF run.undo THEN "undone" ELSE "applied") => db' = db]_vars
    <2> SUFFICES ASSUME TypeOK, NothingToDo, [Next]_vars, Committing,
                        past.state = (IF run.undo THEN "undone" ELSE "applied")
                 PROVE  db' = db
      OBVIOUS
    <2>1. Again /\ work = db
      BY DEF Again, Committing, Running, NothingToDo
    <2>2. QED  BY <2>1, OnlyCommitCommits DEF Commit
  <1>5. QED
    BY <1>1, <1>2, <1>3, <1>4, TypeCorrect, RollBackIsSafe, PTL DEF Spec, RerunChangesNothing

-----------------------------------------------------------------------------------
(* A dependent the forward script removes is one of what it drops, or a     *)
(* default it was asked to change, or a foreign key it will recreate.       *)
Excused(x) ==
  \E n \in 1 .. Len(script) :
    \/ script[n].kind = "drop_table" /\ OnTable(x, script[n].tbl)
    \/ script[n].kind = "drop_column" /\ OnColumn(x, script[n].tbl, script[n].col)
    \/ /\ script[n].kind = "modify_column" /\ DefaultChanges(script[n])
       /\ x.kind = "default" /\ OnColumn(x, script[n].tbl, script[n].col)
ToRecreate == IF run.phase \in {"apply", "keys"} THEN run.keys ELSE {}
LostAreExcused ==
  Running /\ ~run.undo => \A x \in db.deps \ work.deps : Excused(x) \/ x \in ToRecreate

LEMMA ChangeLoses ==
  ASSUME TypeOK, ~run.undo, NEW x \in work.deps \ Changed(work, Step).deps
  PROVE  \/ Excused(x)
         \/ Step.kind = "modify_column" /\ x \in DroppedKeys(work, Step)
  <1>0. /\ Step = script[run.at] /\ run.at \in 1 .. Len(script) /\ Step \in Steps
        /\ work \in Databases /\ run.at \in Numbers /\ run.undo \in BOOLEAN
    BY AtStep DEF TypeOK, Step, AllSteps
  <1>1. CASE Step.kind = "drop_table"
    <2> DEFINE j == Journaled(work, TableDependents(work, Step), run.at, run.undo)
    <2>1. j \in Databases /\ j.deps = work.deps
      BY <1>0, CollectedType, JournaledType
    <2>2. Changed(work, Step) = [j EXCEPT !.cols[Step.tbl] = NoColumns, !.rows[Step.tbl] = NoRows,
                                          !.deps = {y \in @ : ~OnTable(y, Step.tbl)}]
      BY <1>1 DEF Changed, DropTable
    <2> HIDE DEF j
    <2>3. OnTable(x, Step.tbl)
      BY <2>1, <2>2 DEF Databases
    <2>4. QED  BY <1>0, <1>1, <2>3 DEF Excused
  <1>2. CASE Step.kind = "drop_column"
    <2> DEFINE j == Journaled(work, ColumnDependents(work, Step), run.at, run.undo)
               X == ColumnDependents(work, Step)
    <2>1. j \in Databases /\ j.deps = work.deps
      BY <1>0, CollectedType, JournaledType
    <2>2. Changed(work, Step) =
            [j EXCEPT !.cols[Step.tbl][Step.col] = Stored(NoAttributes),
                      !.rows[Step.tbl] = [r \in DOMAIN @ |-> [@[r] EXCEPT ![Step.col] = Null]],
                      !.deps = @ \ X]
      BY <1>2 DEF Changed, DropColumn
    <2> HIDE DEF j, X
    <2>3. x \in X
      BY <2>1, <2>2 DEF Databases
    <2>4. OnColumn(x, Step.tbl, Step.col)
      BY <2>3 DEF X, ColumnDependents
    <2>5. QED  BY <1>0, <1>2, <2>4 DEF Excused
  <1>3. CASE Step.kind = "modify_column"
    <2>1. Changed(work, Step).deps = AlteredDeps(work, Step)
      BY <1>0, <1>3 DEF Changed, ModifyColumn, Databases
    <2>2. \/ x \in Keys(AlterDependents(work, Step))
          \/ DefaultChanges(Step) /\ x \in DefaultsOn(work, Step.tbl, Step.col)
      BY <2>1 DEF AlteredDeps
    <2>3. QED  BY <1>0, <1>3, <2>2 DEF Excused, DefaultsOn, OnColumn, DroppedKeys
  <1>4. CASE Step.kind \notin {"drop_table", "drop_column", "modify_column"}
    <2>1. work.deps \subseteq Changed(work, Step).deps
      BY <1>0, <1>4 DEF Changed, CreateTable, AddColumn, RestoreTable, RestoreColumn, Databases
    <2>2. QED  BY <2>1
  <1>5. QED  BY <1>1, <1>2, <1>3, <1>4

LEMMA NextLostAreExcused ==
  ASSUME TypeOK, Settled, LostAreExcused, [Next]_vars
  PROVE  LostAreExcused'
  <1>0. /\ run \in Runs /\ work \in Databases /\ db \in Databases /\ run.undo \in BOOLEAN
        /\ Step \in Steps
    BY AtStep
  <1>1. ASSUME NEW undo \in BOOLEAN, Start(undo)  PROVE LostAreExcused'
    BY <1>1 DEF Start, Running, Settled, LostAreExcused
  <1>2. CASE CheckStep
    BY <1>2 DEF CheckStep, Settled, LostAreExcused
  <1>3. ASSUME NEW outcome, RollBack(outcome)  PROVE LostAreExcused'
    BY <1>3 DEF RollBack, LostAreExcused
  <1>4. CASE Refuse \/ StatementFails \/ VerifyFails \/ Interrupt \/ LockTimeout
    BY <1>3, <1>4 DEF Refuse, StatementFails, VerifyFails, Interrupt, LockTimeout
  <1>5. CASE SkipStep
    <2>1. /\ run.phase = "apply" /\ run'.phase \in {"apply", "keys"}
          /\ run'.keys = run.keys /\ run'.undo = run.undo
      BY <1>0, <1>5 DEF SkipStep, Advance, Runs
    <2>2. QED  BY <1>5, <2>1 DEF SkipStep, LostAreExcused, ToRecreate, Running, Excused
  <1>6. CASE CopyStep
    <2>1. run'.phase = run.phase /\ run'.keys = run.keys /\ run'.undo = run.undo
      BY <1>0, <1>6 DEF CopyStep, Runs
    <2>2. work'.deps = work.deps
      BY <1>0, <1>6, CopyConfined DEF CopyStep
    <2>3. QED  BY <1>6, <2>1, <2>2 DEF CopyStep, LostAreExcused, ToRecreate, Running, Excused
  <1>7. CASE ChangeStep
    <2> SUFFICES ASSUME ~run'.undo, NEW x \in db'.deps \ work'.deps
                 PROVE  (Excused(x) \/ x \in ToRecreate)'
      BY DEF LostAreExcused
    <2>1. /\ run.phase = "apply" /\ run'.phase \in {"apply", "keys"} /\ run'.undo = run.undo
          /\ run'.keys = IF Step.kind = "modify_column" THEN run.keys \cup DroppedKeys(work, Step)
                                                        ELSE run.keys
          /\ db' = db /\ script' = script /\ work' = Changed(work, Step)
      BY <1>0, <1>7 DEF ChangeStep, AtChange, Applying, Advance, Runs
    <2>2. CASE x \in work.deps
      BY <2>1, <2>2, ChangeLoses DEF ToRecreate, Excused
    <2>3. CASE x \notin work.deps
      <3>1. Excused(x) \/ x \in run.keys
        BY <2>1, <2>3 DEF LostAreExcused, Running, ToRecreate
      <3>2. QED  BY <2>1, <3>1 DEF ToRecreate, Excused
    <2>4. QED  BY <2>2, <2>3
  <1>8. CASE RecreateKeys
    <2>1. /\ run.phase = "keys" /\ run'.undo = run.undo
          /\ db' = db /\ script' = script /\ work'.deps = work.deps \cup run.keys
      BY <1>0, <1>8 DEF RecreateKeys, AddAll, Runs, Databases
    <2>2. QED  BY <2>1 DEF LostAreExcused, ToRecreate, Running, Excused
  <1>9. CASE Replay
    <2>1. /\ run.phase = "replay" /\ run'.undo = run.undo
          /\ db' = db /\ script' = script /\ work.deps \subseteq work'.deps
      BY <1>0, <1>9 DEF Replay, AddAll, Runs, Databases
    <2>2. QED  BY <2>1 DEF LostAreExcused, ToRecreate, Running, Excused
  <1>10. CASE Commit
    BY <1>10 DEF Commit, LostAreExcused
  <1>11. CASE \/ \E t \in Tables : Write(t) \/ Hold(t) \/ Release(t)
              \/ \E b \in BackupNames : RemoveBackup(b)
              \/ \E u \in BOOLEAN : RemoveJournal(u)
    BY <1>11, OthersKeepSchema DEF SameSchema, LostAreExcused, ToRecreate, Running, Excused
  <1>12. CASE UNCHANGED vars
    BY <1>12 DEF vars, LostAreExcused, ToRecreate, Running, Excused
  <1>13. QED
    BY <1>1, <1>2, <1>4, <1>5, <1>6, <1>7, <1>8, <1>9, <1>10, <1>11, <1>12 DEF Next, ScriptStep

(* A commit of the forward script loses a dependent only with a table or a  *)
(* column it drops, or a default it was asked to change: every foreign key  *)
(* it takes out of the way is there again.                                  *)
THEOREM DependentsAreKept == Spec => DependentsSurvive
  <1>1. Init => LostAreExcused
    BY DEF Init, LostAreExcused
  <1>2. TypeOK /\ OnlyLockedTablesDiffer /\ LostAreExcused /\ [Next]_vars => LostAreExcused'
    BY NextLostAreExcused, ConfinedIs
  <1>3. ASSUME TypeOK, LostAreExcused, [Next]_vars, Committing, ~run.undo, NEW x \in db.deps \ db'.deps
        PROVE  Excused(x)
    <2>1. db' = work /\ run.phase = "verify"
      BY <1>3, OnlyCommitCommits DEF Commit
    <2>2. QED  BY <1>3, <2>1 DEF LostAreExcused, Running, ToRecreate
  <1>4. TypeOK /\ LostAreExcused /\ [Next]_vars
          => [Committing /\ ~run.undo => \A x \in db.deps \ db'.deps : Excused(x)]_vars
    BY <1>3
  <1>5. Spec => [][Committing /\ ~run.undo => \A x \in db.deps \ db'.deps : Excused(x)]_vars
    BY <1>1, <1>2, <1>4, TypeCorrect, RollBackIsSafe, PTL DEF Spec
  <1>6. QED
    BY <1>5 DEF DependentsSurvive, Excused

-----------------------------------------------------------------------------------
(* What a change does to the columns and rows of a database, one column or  *)
(* one table at a time.                                                     *)
ColumnBecomes(d, e, t0, c0, col, new) ==
  \A t \in Tables :
    /\ DOMAIN e.rows[t] = DOMAIN d.rows[t]
    /\ \A c \in Columns :
         /\ e.cols[t][c] = IF t = t0 /\ c = c0 THEN col ELSE d.cols[t][c]
         /\ \A r \in DOMAIN d.rows[t] :
              e.rows[t][r][c] = IF t = t0 /\ c = c0 THEN new[r] ELSE d.rows[t][r][c]
TableBecomes(d, e, t0, cols, rows) ==
  \A t \in Tables : /\ e.cols[t] = IF t = t0 THEN cols ELSE d.cols[t]
                    /\ e.rows[t] = IF t = t0 THEN rows ELSE d.rows[t]

LEMMA ColumnUpdate ==
  ASSUME NEW d \in Databases, NEW t0 \in Tables, NEW c0 \in Columns, NEW col, NEW new, NEW e,
         e.cols = [d.cols EXCEPT ![t0][c0] = col],
         e.rows = [d.rows EXCEPT ![t0] = [r \in DOMAIN d.rows[t0] |->
                                            [d.rows[t0][r] EXCEPT ![c0] = new[r]]]]
  PROVE  ColumnBecomes(d, e, t0, c0, col, new)
  <1>1. /\ d.cols \in [Tables -> [Columns -> StoredColumns]]
        /\ d.rows \in [Tables -> RowSets]
    BY DEF Databases
  <1>2. \A t \in Tables : \A r \in DOMAIN d.rows[t] : d.rows[t][r] \in Rows
    BY <1>1, RowSetElim
  <1>3. \A t \in Tables : \A r \in DOMAIN d.rows[t] : DOMAIN d.rows[t][r] = Columns
    BY <1>2 DEF Rows
  <1>4. \A t \in Tables, c \in Columns :
           e.cols[t][c] = IF t = t0 /\ c = c0 THEN col ELSE d.cols[t][c]
    BY <1>1
  <1>5. \A t \in Tables : e.rows[t] = IF t = t0
                                       THEN [r \in DOMAIN d.rows[t0] |->
                                               [d.rows[t0][r] EXCEPT ![c0] = new[r]]]
                                       ELSE d.rows[t]
    BY <1>1
  <1>6. \A t \in Tables : DOMAIN e.rows[t] = DOMAIN d.rows[t]
    BY <1>5
  <1>7. \A t \in Tables, c \in Columns : \A r \in DOMAIN d.rows[t] :
           e.rows[t][r][c] = IF t = t0 /\ c = c0 THEN new[r] ELSE d.rows[t][r][c]
    BY <1>3, <1>5
  <1>8. QED  BY <1>4, <1>6, <1>7 DEF ColumnBecomes

LEMMA DropTableShape ==
  ASSUME NEW d \in Databases, NEW s \in Steps, NEW n \in Numbers, NEW u \in BOOLEAN
  PROVE  LET e == DropTable(d, s, n, u) IN
         /\ TableBecomes(d, e, s.tbl, NoColumns, NoRows)
         /\ e.deps = {x \in d.deps : ~OnTable(x, s.tbl)}
         /\ e.bak = d.bak
  <1> DEFINE j == Journaled(d, TableDependents(d, s), n, u)
             e == DropTable(d, s, n, u)
  <1>1. j \in Databases /\ j.cols = d.cols /\ j.rows = d.rows /\ j.deps = d.deps
    BY CollectedType, JournaledType
  <1>2. j.bak = d.bak
    BY DEF Journaled, Databases
  <1>3. e = [j EXCEPT !.cols[s.tbl] = NoColumns, !.rows[s.tbl] = NoRows,
                      !.deps = {x \in @ : ~OnTable(x, s.tbl)}]
    BY DEF DropTable
  <1> HIDE DEF j, e
  <1>4. /\ e.cols = [d.cols EXCEPT ![s.tbl] = NoColumns]
        /\ e.rows = [d.rows EXCEPT ![s.tbl] = NoRows]
        /\ e.deps = {x \in d.deps : ~OnTable(x, s.tbl)}
        /\ e.bak = d.bak
    BY <1>1, <1>2, <1>3 DEF Databases
  <1>5. TableBecomes(d, e, s.tbl, NoColumns, NoRows)
    BY <1>4, StepFields DEF TableBecomes, Databases
  <1>6. QED  BY <1>4, <1>5 DEF e

EmptiedColumns(d, s) == [d.cols EXCEPT ![s.tbl][s.col] = Stored(NoAttributes)]
EmptiedRows(d, s) ==
  [d.rows EXCEPT ![s.tbl] = [r \in DOMAIN d.rows[s.tbl] |->
                               [d.rows[s.tbl][r] EXCEPT ![s.col] = Null]]]
LEMMA DropColumnFields ==
  ASSUME NEW d \in Databases, NEW s \in Steps, NEW n \in Numbers, NEW u \in BOOLEAN
  PROVE  /\ DropColumn(d, s, n, u).cols = EmptiedColumns(d, s)
         /\ DropColumn(d, s, n, u).rows = EmptiedRows(d, s)
         /\ DropColumn(d, s, n, u).deps = d.deps \ ColumnDependents(d, s)
         /\ DropColumn(d, s, n, u).bak = d.bak
  <1> DEFINE j == Journaled(d, ColumnDependents(d, s), n, u)
             e == DropColumn(d, s, n, u)
  <1>1. j \in Databases /\ j.cols = d.cols /\ j.rows = d.rows /\ j.deps = d.deps
    BY CollectedType, JournaledType
  <1>2. j.bak = d.bak
    BY DEF Journaled, Databases
  <1>3. e = [j EXCEPT !.cols[s.tbl][s.col] = Stored(NoAttributes),
                      !.rows[s.tbl] = [r \in DOMAIN @ |-> [@[r] EXCEPT ![s.col] = Null]],
                      !.deps = @ \ ColumnDependents(d, s)]
    BY DEF DropColumn
  <1> HIDE DEF j, e
  <1>4. /\ e.cols = EmptiedColumns(d, s)
        /\ e.rows = EmptiedRows(d, s)
        /\ e.deps = d.deps \ ColumnDependents(d, s)
        /\ e.bak = d.bak
    BY <1>1, <1>2, <1>3 DEF Databases, EmptiedColumns, EmptiedRows
  <1>5. QED  BY <1>4 DEF e

LEMMA DropColumnShape ==
  ASSUME NEW d \in Databases, NEW s \in Steps, NEW n \in Numbers, NEW u \in BOOLEAN
  PROVE  ColumnBecomes(d, DropColumn(d, s, n, u), s.tbl, s.col, Stored(NoAttributes),
                       [r \in DOMAIN d.rows[s.tbl] |-> Null])
  <1> DEFINE e == DropColumn(d, s, n, u)
             new == [r \in DOMAIN d.rows[s.tbl] |-> Null]
  <1>1. [r \in DOMAIN d.rows[s.tbl] |-> [d.rows[s.tbl][r] EXCEPT ![s.col] = Null]]
          = [r \in DOMAIN d.rows[s.tbl] |-> [d.rows[s.tbl][r] EXCEPT ![s.col] = new[r]]]
    OBVIOUS
  <1>2. /\ e.cols = EmptiedColumns(d, s)
        /\ e.rows = EmptiedRows(d, s)
    BY DropColumnFields
  <1> HIDE DEF new, e
  <1>3. ColumnBecomes(d, e, s.tbl, s.col, Stored(NoAttributes), new)
    BY <1>1, <1>2, StepFields, ColumnUpdate DEF EmptiedColumns, EmptiedRows
  <1>4. QED  BY <1>3 DEF e, new

LEMMA AddColumnShape ==
  ASSUME NEW d \in Databases, NEW s \in Steps
  PROVE  LET e == AddColumn(d, s) IN
         /\ ColumnBecomes(d, e, s.tbl, s.col, Stored(s.target),
                          [r \in DOMAIN d.rows[s.tbl] |-> NewCell(s)])
         /\ e.deps = d.deps \cup NewDefaults(s)
         /\ e.bak = d.bak
  <1> DEFINE e == AddColumn(d, s)
             new == [r \in DOMAIN d.rows[s.tbl] |-> NewCell(s)]
  <1>1. /\ e.cols = [d.cols EXCEPT ![s.tbl][s.col] = Stored(s.target)]
        /\ e.rows = [d.rows EXCEPT ![s.tbl] = [r \in DOMAIN d.rows[s.tbl] |->
                                                 [d.rows[s.tbl][r] EXCEPT ![s.col] = NewCell(s)]]]
        /\ e.deps = d.deps \cup NewDefaults(s)
        /\ e.bak = d.bak
    BY DEF Databases, AddColumn
  <1>2. [r \in DOMAIN d.rows[s.tbl] |-> [d.rows[s.tbl][r] EXCEPT ![s.col] = NewCell(s)]]
          = [r \in DOMAIN d.rows[s.tbl] |-> [d.rows[s.tbl][r] EXCEPT ![s.col] = new[r]]]
    OBVIOUS
  <1> HIDE DEF new, e
  <1>3. ColumnBecomes(d, e, s.tbl, s.col, Stored(s.target), new)
    BY <1>1, <1>2, StepFields, ColumnUpdate
  <1>4. QED  BY <1>1, <1>3 DEF e, new

LEMMA ModifyColumnShape ==
  ASSUME NEW d \in Databases, NEW s \in Steps
  PROVE  LET e == ModifyColumn(d, s) IN
         /\ ColumnBecomes(d, e, s.tbl, s.col, AlteredColumn(d, s),
                          [r \in DOMAIN d.rows[s.tbl] |->
                             Altered(d.cols[s.tbl][s.col].type, s, d.rows[s.tbl][r][s.col])])
         /\ e.deps = AlteredDeps(d, s)
         /\ e.bak = d.bak
  <1> DEFINE e == ModifyColumn(d, s)
             new == [r \in DOMAIN d.rows[s.tbl] |->
                       Altered(d.cols[s.tbl][s.col].type, s, d.rows[s.tbl][r][s.col])]
  <1>1. /\ e.cols = [d.cols EXCEPT ![s.tbl][s.col] = AlteredColumn(d, s)]
        /\ e.rows = [d.rows EXCEPT ![s.tbl] = AlteredRows(d, s)]
        /\ e.deps = AlteredDeps(d, s)
        /\ e.bak = d.bak
    BY DEF Databases, ModifyColumn
  <1>2. AlteredRows(d, s)
          = [r \in DOMAIN d.rows[s.tbl] |-> [d.rows[s.tbl][r] EXCEPT ![s.col] = new[r]]]
    BY DEF AlteredRows
  <1> HIDE DEF new, e
  <1>3. ColumnBecomes(d, e, s.tbl, s.col, AlteredColumn(d, s), new)
    BY <1>1, <1>2, StepFields, ColumnUpdate
  <1>4. QED  BY <1>1, <1>3 DEF e, new

LEMMA RestoreColumnShape ==
  ASSUME NEW d \in Databases, NEW s \in Steps, NEW by
  PROVE  LET e == RestoreColumn(d, s, by) IN
         /\ ColumnBecomes(d, e, s.tbl, s.col, Stored(s.target),
                          [r \in DOMAIN d.rows[s.tbl] |-> RestoredCell(d, s, d.rows[s.tbl][r], by)])
         /\ e.deps = d.deps
         /\ e.bak = d.bak
  <1> DEFINE e == RestoreColumn(d, s, by)
             new == [r \in DOMAIN d.rows[s.tbl] |-> RestoredCell(d, s, d.rows[s.tbl][r], by)]
  <1>1. /\ e.cols = [d.cols EXCEPT ![s.tbl][s.col] = Stored(s.target)]
        /\ e.rows = [d.rows EXCEPT ![s.tbl] =
                      [r \in DOMAIN d.rows[s.tbl] |->
                         [d.rows[s.tbl][r] EXCEPT ![s.col] = RestoredCell(d, s, d.rows[s.tbl][r], by)]]]
        /\ e.deps = d.deps
        /\ e.bak = d.bak
    BY DEF Databases, RestoreColumn
  <1>2. [r \in DOMAIN d.rows[s.tbl] |->
           [d.rows[s.tbl][r] EXCEPT ![s.col] = RestoredCell(d, s, d.rows[s.tbl][r], by)]]
          = [r \in DOMAIN d.rows[s.tbl] |-> [d.rows[s.tbl][r] EXCEPT ![s.col] = new[r]]]
    OBVIOUS
  <1> HIDE DEF new, e
  <1>3. ColumnBecomes(d, e, s.tbl, s.col, Stored(s.target), new)
    BY <1>1, <1>2, StepFields, ColumnUpdate
  <1>4. QED  BY <1>1, <1>3 DEF e, new

MadeColumns(s) == [c \in Columns |-> Stored(s.table[c])]
RestoredRows(d, s) ==
  LET old == d.bak[BackupName(s.tbl, Whole, FALSE)].rows
  IN [r \in DOMAIN old |-> [c \in Columns |-> IF s.table[c].type # 0 THEN old[r][c] ELSE Null]]
MadeDefaults(s) == {Default(s.tbl, c, s.table[c].dflt) :
                      c \in {c1 \in Columns : s.table[c1].type # 0 /\ s.table[c1].dflt # 0}}
LEMMA MakeTableShape ==
  ASSUME NEW d \in Databases, NEW s \in Steps
  PROVE  /\ TableBecomes(d, CreateTable(d, s), s.tbl, MadeColumns(s), NoRows)
         /\ CreateTable(d, s).deps = d.deps \cup MadeDefaults(s)
         /\ CreateTable(d, s).bak = d.bak
         /\ TableBecomes(d, RestoreTable(d, s), s.tbl, MadeColumns(s), RestoredRows(d, s))
         /\ RestoreTable(d, s).deps = d.deps
         /\ RestoreTable(d, s).bak = d.bak
  <1>1. /\ CreateTable(d, s).cols = [d.cols EXCEPT ![s.tbl] = MadeColumns(s)]
        /\ CreateTable(d, s).rows = [d.rows EXCEPT ![s.tbl] = NoRows]
        /\ CreateTable(d, s).deps = d.deps \cup MadeDefaults(s)
        /\ CreateTable(d, s).bak = d.bak
    BY DEF Databases, CreateTable, MadeColumns, MadeDefaults
  <1>2. /\ RestoreTable(d, s).cols = [d.cols EXCEPT ![s.tbl] = MadeColumns(s)]
        /\ RestoreTable(d, s).rows = [d.rows EXCEPT ![s.tbl] = RestoredRows(d, s)]
        /\ RestoreTable(d, s).deps = d.deps
        /\ RestoreTable(d, s).bak = d.bak
    BY DEF Databases, RestoreTable, MadeColumns, RestoredRows
  <1>3. QED  BY <1>1, <1>2, StepFields DEF TableBecomes, Databases

(* Rows fit their columns, and the columns of a primary key are there and   *)
(* never NULL.                                                              *)
Fits(d) ==
  \A t \in Tables, c \in Columns : \A r \in DOMAIN d.rows[t] :
    d.rows[t][r][c] <= d.cols[t][c].type
KeysSound(d) ==
  \A x \in d.deps : x.kind = "pk" =>
    \A c \in x.cols : HasColumn(d, x.tbl, c) /\ ~d.cols[x.tbl][c].null

LEMMA FitsByColumn ==
  ASSUME NEW d, NEW e, NEW t0 \in Tables, NEW c0 \in Columns, NEW col, NEW new,
         ColumnBecomes(d, e, t0, c0, col, new), Fits(d),
         \A r \in DOMAIN d.rows[t0] : new[r] <= col.type
  PROVE  Fits(e)
  BY DEF ColumnBecomes, Fits

LEMMA FitsByTable ==
  ASSUME NEW d, NEW e, NEW t0 \in Tables, NEW cols, NEW rows,
         TableBecomes(d, e, t0, cols, rows), Fits(d),
         \A r \in DOMAIN rows, c \in Columns : rows[r][c] <= cols[c].type
  PROVE  Fits(e)
  BY DEF TableBecomes, Fits

LEMMA CutFits ==
  ASSUME NEW v \in Nat, NEW w \in Nat
  PROVE  Cut(v, w) <= w /\ (v <= w => Cut(v, w) = v)
  BY DEF Cut

LEMMA CellsOf ==
  ASSUME NEW d \in Databases, NEW t \in Tables, NEW c \in Columns, NEW r \in DOMAIN d.rows[t]
  PROVE  d.rows[t][r][c] \in Cells
  <1>1. d.rows[t][r] \in Rows
    BY DatabaseFields, RowSetElim
  <1>2. QED  BY <1>1 DEF Rows

LEMMA AttributesFields ==
  ASSUME NEW a \in Attributes
  PROVE  /\ a.type \in Nat /\ a.dflt \in Nat /\ a.null \in BOOLEAN /\ a.ident \in BOOLEAN
         /\ Stored(a).type = a.type /\ Stored(a).null = a.null
  BY DEF Attributes, Cells, Stored

LEMMA ModifyColumnFits ==
  ASSUME NEW d \in Databases, NEW s \in Steps, Fits(d)
  PROVE  Fits(ModifyColumn(d, s))
  <1> DEFINE old == d.cols[s.tbl][s.col].type
             new == [r \in DOMAIN d.rows[s.tbl] |-> Altered(old, s, d.rows[s.tbl][r][s.col])]
  <1>1. s.tbl \in Tables /\ s.col \in Columns /\ s.target.type \in Nat
    BY StepFields, AttributesFields
  <1>2. ASSUME NEW r \in DOMAIN d.rows[s.tbl]  PROVE new[r] <= AlteredColumn(d, s).type
    <2> DEFINE v == d.rows[s.tbl][r][s.col]
    <2>1. v \in Cells /\ v <= old /\ old \in Cells
      BY <1>1, CellsOf, StepFields, DatabaseFields DEF Fits, StoredColumns
    <2>2. CASE Alters(s)
      <3>1. d.cols[s.tbl][s.col] \in StoredColumns
        BY <1>1, DatabaseFields
      <3>2. AlteredColumn(d, s).type = s.target.type
        BY <2>2, <3>1 DEF AlteredColumn, Stored, StoredColumns
      <3>3. Altered(old, s, v) = Cut(Filled(old, s, v), s.target.type)
        BY <2>2 DEF Altered
      <3>4. Filled(old, s, v) \in Nat
        <4>1. Filled(old, s, v) \in Cells
          BY <2>1, AlteredType
        <4>2. QED  BY <4>1 DEF Cells
      <3>5. QED  BY <1>1, <3>2, <3>3, <3>4, CutFits
    <2>3. CASE ~Alters(s)
      BY <2>1, <2>3 DEF AlteredColumn, Altered
    <2>4. QED  BY <2>2, <2>3
  <1> HIDE DEF new, old
  <1>3. ColumnBecomes(d, ModifyColumn(d, s), s.tbl, s.col, AlteredColumn(d, s), new)
    BY ModifyColumnShape DEF new, old
  <1>4. QED
    <2>1. \A r \in DOMAIN d.rows[s.tbl] : new[r] <= AlteredColumn(d, s).type
      BY <1>2
    <2>2. QED  BY <1>1, <1>3, <2>1, FitsByColumn

LEMMA RestoreTableFits ==
  ASSUME NEW d \in Databases, NEW s \in Steps, Fits(d), CanRestoreTable(d, s)
  PROVE  Fits(RestoreTable(d, s))
  <1> DEFINE bak == d.bak[BackupName(s.tbl, Whole, FALSE)]
  <1>1. s.tbl \in Tables /\ \A c \in Columns : s.table[c] \in Attributes
    BY StepFields
  <1>2. DOMAIN RestoredRows(d, s) = DOMAIN bak.rows
    BY DEF RestoredRows
  <1>3. ASSUME NEW r \in DOMAIN bak.rows, NEW c \in Columns
        PROVE  RestoredRows(d, s)[r][c] <= MadeColumns(s)[c].type
    <2>1. RestoredRows(d, s)[r][c] = IF s.table[c].type # 0 THEN bak.rows[r][c] ELSE Null
      BY DEF RestoredRows
    <2>2. MadeColumns(s)[c].type = s.table[c].type
      BY <1>1, AttributesFields DEF MadeColumns
    <2>3. CASE s.table[c].type # 0
      <3>1. bak.rows[r][c] \in Column(bak.rows, c)
        BY DEF Column
      <3>2. bak.rows[r][c] <= s.table[c].type
        BY <2>3, <3>1 DEF CanRestoreTable
      <3>3. QED  BY <2>1, <2>2, <2>3, <3>2
    <2>4. CASE s.table[c].type = 0
      BY <2>1, <2>2, <2>4 DEF Null
    <2>5. QED  BY <2>3, <2>4
  <1> HIDE DEF bak
  <1>4. \A r \in DOMAIN RestoredRows(d, s), c \in Columns :
           RestoredRows(d, s)[r][c] <= MadeColumns(s)[c].type
    BY <1>2, <1>3
  <1>5. QED  BY <1>1, <1>4, MakeTableShape, FitsByTable

LEMMA ChangedFits ==
  ASSUME TypeOK, Fits(work), CanChange(work, Step)
  PROVE  Fits(Changed(work, Step))
  <1>0. /\ Step \in Steps /\ work \in Databases /\ run.at \in Numbers /\ run.undo \in BOOLEAN
        /\ Step.tbl \in Tables /\ Step.col \in Columns /\ Step.target \in Attributes
    BY AtStep, StepFields
  <1>1. Stored(NoAttributes).type = 0 /\ DOMAIN NoRows = {} /\ Null = 0
    BY DEF Stored, NoAttributes, NoRows, Null
  <1>2. CASE Step.kind = "create_table"
    BY <1>0, <1>1, <1>2, MakeTableShape, FitsByTable DEF Changed
  <1>3. CASE Step.kind = "drop_table"
    <2>1. TableBecomes(work, Changed(work, Step), Step.tbl, NoColumns, NoRows)
      BY <1>0, <1>3, DropTableShape DEF Changed
    <2>2. QED  BY <1>0, <1>1, <2>1, FitsByTable
  <1>4. CASE Step.kind = "drop_column"
    <2> DEFINE new == [r \in DOMAIN work.rows[Step.tbl] |-> Null]
    <2>1. \A r \in DOMAIN work.rows[Step.tbl] : new[r] <= Stored(NoAttributes).type
      BY <1>1
    <2> HIDE DEF new
    <2>2. ColumnBecomes(work, Changed(work, Step), Step.tbl, Step.col, Stored(NoAttributes), new)
      BY <1>0, <1>4, DropColumnShape DEF Changed, new
    <2>3. QED  BY <1>0, <2>1, <2>2, FitsByColumn
  <1>5. CASE Step.kind = "add_column"
    <2> DEFINE new == [r \in DOMAIN work.rows[Step.tbl] |-> NewCell(Step)]
    <2>2. \A r \in DOMAIN work.rows[Step.tbl] : new[r] <= Stored(Step.target).type
      BY <1>0, NewValueType, AttributesFields DEF NewCell, Cut, Cells
    <2> HIDE DEF new
    <2>3. ColumnBecomes(work, Changed(work, Step), Step.tbl, Step.col, Stored(Step.target), new)
      BY <1>0, <1>5, AddColumnShape DEF Changed, new
    <2>4. QED  BY <1>0, <2>2, <2>3, FitsByColumn
  <1>6. CASE Step.kind = "modify_column"
    BY <1>0, <1>6, ModifyColumnFits DEF Changed
  <1>7. CASE Step.kind = "restore_table"
    BY <1>0, <1>7, RestoreTableFits DEF Changed, CanChange
  <1>8. CASE Step.kind = "restore_column"
    <2> DEFINE new == [r \in DOMAIN work.rows[Step.tbl] |->
                         RestoredCell(work, Step, work.rows[Step.tbl][r], run.by[run.at])]
    <2>1. CanRestoreColumn(work, Step, run.by[run.at])
      BY <1>8 DEF CanChange
    <2>2. \A r \in DOMAIN work.rows[Step.tbl] : new[r] <= Stored(Step.target).type
      BY <1>0, <2>1, AttributesFields DEF CanRestoreColumn
    <2> HIDE DEF new
    <2>3. ColumnBecomes(work, Changed(work, Step), Step.tbl, Step.col, Stored(Step.target), new)
      BY <1>0, <1>8, RestoreColumnShape DEF Changed, new
    <2>4. QED  BY <1>0, <2>2, <2>3, FitsByColumn
  <1>9. CASE Step.kind = "unsupported"
    BY <1>9 DEF Changed
  <1>10. QED
    BY <1>0, <1>2, <1>3, <1>4, <1>5, <1>6, <1>7, <1>8, <1>9, StepFields DEF Kinds

(* What a change does to column c of table t: nothing, or it drops it, makes *)
(* it where there was none, or alters it.                                   *)
Keeps(d, e, t, c) ==
  /\ e.cols[t][c] = d.cols[t][c]
  /\ DOMAIN e.rows[t] = DOMAIN d.rows[t]
  /\ \A r \in DOMAIN d.rows[t] : e.rows[t][r][c] = d.rows[t][r][c]
Drops(s, e, t, c) == /\ Copies(s) /\ t = s.tbl
                     /\ s.kind = "drop_column" => c = s.col
                     /\ ~HasColumn(e, t, c)
Makes(s, d, t, c) ==
  /\ \/ s.kind \in {"create_table", "restore_table"}
     \/ s.kind \in {"add_column", "restore_column"} /\ c = s.col
  /\ t = s.tbl /\ ~HasColumn(d, t, c)
Alter(s, d, e, t, c) ==
  /\ s.kind = "modify_column" /\ t = s.tbl /\ c = s.col
  /\ e.cols[t][c] = AlteredColumn(d, s)
  /\ DOMAIN e.rows[t] = DOMAIN d.rows[t]
  /\ \A r \in DOMAIN d.rows[t] : e.rows[t][r][c] = Altered(d.cols[t][c].type, s, d.rows[t][r][c])

Becomes(d, e, t, c, col, new) ==
  /\ e.cols[t][c] = col
  /\ DOMAIN e.rows[t] = DOMAIN d.rows[t]
  /\ \A r \in DOMAIN d.rows[t] : e.rows[t][r][c] = new[r]

LEMMA KeepsByColumn ==
  ASSUME NEW d, NEW e, NEW t0 \in Tables, NEW c0 \in Columns, NEW col, NEW new,
         ColumnBecomes(d, e, t0, c0, col, new), NEW t \in Tables, NEW c \in Columns
  PROVE  Keeps(d, e, t, c) \/ (t = t0 /\ c = c0 /\ Becomes(d, e, t, c, col, new))
  BY DEF ColumnBecomes, Keeps, Becomes

LEMMA KeepsByTable ==
  ASSUME NEW d, NEW e, NEW t0 \in Tables, NEW cols, NEW rows,
         TableBecomes(d, e, t0, cols, rows), NEW t \in Tables, NEW c \in Columns
  PROVE  Keeps(d, e, t, c) \/ (t = t0 /\ e.cols[t] = cols)
  BY DEF TableBecomes, Keeps

LEMMA ChangeDoes ==
  ASSUME TypeOK, CanChange(work, Step), NEW t \in Tables, NEW c \in Columns
  PROVE  \/ Keeps(work, Changed(work, Step), t, c)
         \/ Drops(Step, Changed(work, Step), t, c)
         \/ Makes(Step, work, t, c)
         \/ Alter(Step, work, Changed(work, Step), t, c)
  <1>0. /\ Step \in Steps /\ work \in Databases /\ run.at \in Numbers /\ run.undo \in BOOLEAN
        /\ Step.tbl \in Tables /\ Step.col \in Columns /\ Step.target \in Attributes
    BY AtStep, StepFields
  <1>1. Stored(NoAttributes).type = 0 /\ NoColumns[c].type = 0
    BY DEF Stored, NoAttributes, NoColumns
  <1>2. CASE Step.kind \in {"create_table", "restore_table"}
    <2>1. ~Exists(work, Step.tbl)
      BY <1>2 DEF CanChange, CanCreateTable, CanRestoreTable
    <2>2. PICK rows : TableBecomes(work, Changed(work, Step), Step.tbl, MadeColumns(Step), rows)
      BY <1>0, <1>2, MakeTableShape DEF Changed
    <2>3. Keeps(work, Changed(work, Step), t, c) \/ t = Step.tbl
      BY <1>0, <2>2, KeepsByTable
    <2>4. QED  BY <1>2, <2>1, <2>3 DEF Makes, Exists
  <1>3. CASE Step.kind = "drop_table"
    <2>1. TableBecomes(work, Changed(work, Step), Step.tbl, NoColumns, NoRows)
      BY <1>0, <1>3, DropTableShape DEF Changed
    <2>2. Keeps(work, Changed(work, Step), t, c)
          \/ (t = Step.tbl /\ Changed(work, Step).cols[t] = NoColumns)
      BY <1>0, <2>1, KeepsByTable
    <2>3. QED  BY <1>1, <1>3, <2>2 DEF Drops, Copies, HasColumn
  <1>4. CASE Step.kind = "drop_column"
    <2> DEFINE new == [r \in DOMAIN work.rows[Step.tbl] |-> Null]
    <2>1. ColumnBecomes(work, Changed(work, Step), Step.tbl, Step.col, Stored(NoAttributes), new)
      BY <1>0, <1>4, DropColumnShape DEF Changed
    <2> HIDE DEF new
    <2>2. Keeps(work, Changed(work, Step), t, c)
          \/ (t = Step.tbl /\ c = Step.col
              /\ Becomes(work, Changed(work, Step), t, c, Stored(NoAttributes), new))
      BY <1>0, <2>1, KeepsByColumn
    <2>3. QED  BY <1>1, <1>4, <2>2 DEF Drops, Copies, HasColumn, Becomes
  <1>5. CASE Step.kind = "add_column"
    <2> DEFINE new == [r \in DOMAIN work.rows[Step.tbl] |-> NewCell(Step)]
    <2>1. ColumnBecomes(work, Changed(work, Step), Step.tbl, Step.col, Stored(Step.target), new)
      BY <1>0, <1>5, AddColumnShape DEF Changed
    <2> HIDE DEF new
    <2>2. Keeps(work, Changed(work, Step), t, c) \/ (t = Step.tbl /\ c = Step.col)
      BY <1>0, <2>1, KeepsByColumn
    <2>3. QED  BY <1>5, <2>2 DEF Makes, CanChange, CanAddColumn
  <1>6. CASE Step.kind = "restore_column"
    <2> DEFINE new == [r \in DOMAIN work.rows[Step.tbl] |->
                         RestoredCell(work, Step, work.rows[Step.tbl][r], run.by[run.at])]
    <2>1. ColumnBecomes(work, Changed(work, Step), Step.tbl, Step.col, Stored(Step.target), new)
      BY <1>0, <1>6, RestoreColumnShape DEF Changed
    <2> HIDE DEF new
    <2>2. Keeps(work, Changed(work, Step), t, c) \/ (t = Step.tbl /\ c = Step.col)
      BY <1>0, <2>1, KeepsByColumn
    <2>3. QED  BY <1>6, <2>2 DEF Makes, CanChange, CanRestoreColumn
  <1>7. CASE Step.kind = "modify_column"
    <2> DEFINE old == work.cols[Step.tbl][Step.col].type
               new == [r \in DOMAIN work.rows[Step.tbl] |->
                         Altered(old, Step, work.rows[Step.tbl][r][Step.col])]
    <2>1. ColumnBecomes(work, Changed(work, Step), Step.tbl, Step.col, AlteredColumn(work, Step), new)
      BY <1>0, <1>7, ModifyColumnShape DEF Changed
    <2>2. \A r \in DOMAIN work.rows[Step.tbl] :
             new[r] = Altered(old, Step, work.rows[Step.tbl][r][Step.col])
      OBVIOUS
    <2> HIDE DEF new
    <2>3. \/ Keeps(work, Changed(work, Step), t, c)
          \/ /\ t = Step.tbl /\ c = Step.col
             /\ Becomes(work, Changed(work, Step), t, c, AlteredColumn(work, Step), new)
      BY <1>0, <2>1, KeepsByColumn
    <2>4. QED  BY <1>7, <2>2, <2>3 DEF Alter, Becomes
  <1>8. CASE Step.kind = "unsupported"
    BY <1>8 DEF Changed, Keeps
  <1>9. QED
    BY <1>0, <1>2, <1>3, <1>4, <1>5, <1>6, <1>7, <1>8, StepFields DEF Kinds

(* What a change does to the dependents, and that it leaves the backups.    *)
LEMMA ChangedDeps ==
  ASSUME TypeOK, NEW x
  PROVE  /\ x \in Changed(work, Step).deps \ work.deps => x.kind = "default"
         /\ x \in work.deps \ Changed(work, Step).deps /\ x.kind = "pk" =>
              \/ Step.kind = "drop_table" /\ x.tbl = Step.tbl
              \/ Step.kind = "drop_column" /\ x.tbl = Step.tbl /\ Step.col \in x.cols
         /\ x \in Changed(work, Step).deps /\ x.tbl = Step.tbl /\ x.kind = "pk" =>
              /\ Step.kind # "drop_table"
              /\ Step.kind = "drop_column" => Step.col \notin x.cols
         /\ Changed(work, Step).bak = work.bak
  <1>0. /\ Step \in Steps /\ work \in Databases /\ run.at \in Numbers /\ run.undo \in BOOLEAN
    BY AtStep
  <1>1. CASE Step.kind = "create_table"
    <2>1. /\ Changed(work, Step).deps = work.deps \cup MadeDefaults(Step)
          /\ Changed(work, Step).bak = work.bak
      BY <1>0, <1>1, MakeTableShape DEF Changed
    <2>2. \A y \in MadeDefaults(Step) : y.kind = "default"
      BY DEF MadeDefaults, Default
    <2>3. QED  BY <1>1, <2>1, <2>2
  <1>2. CASE Step.kind = "restore_table"
    BY <1>0, <1>2, MakeTableShape DEF Changed
  <1>3. CASE Step.kind = "drop_table"
    <2>1. /\ Changed(work, Step).deps = {y \in work.deps : ~OnTable(y, Step.tbl)}
          /\ Changed(work, Step).bak = work.bak
      BY <1>0, <1>3, DropTableShape DEF Changed
    <2>2. QED  BY <1>3, <2>1 DEF OnTable
  <1>4. CASE Step.kind = "drop_column"
    <2>1. Changed(work, Step) = DropColumn(work, Step, run.at, run.undo)
      BY <1>4 DEF Changed
    <2>2. /\ Changed(work, Step).deps = work.deps \ ColumnDependents(work, Step)
          /\ Changed(work, Step).bak = work.bak
      BY <1>0, <2>1, DropColumnFields
    <2>3. QED  BY <1>4, <2>2 DEF ColumnDependents, OnColumn, Recreatable
  <1>5. CASE Step.kind = "add_column"
    <2>1. /\ Changed(work, Step).deps = work.deps \cup NewDefaults(Step)
          /\ Changed(work, Step).bak = work.bak
      BY <1>0, <1>5, AddColumnShape DEF Changed
    <2>2. QED  BY <1>5, <2>1 DEF NewDefaults, Default
  <1>6. CASE Step.kind = "restore_column"
    BY <1>0, <1>6, RestoreColumnShape DEF Changed
  <1>7. CASE Step.kind = "modify_column"
    <2>1. /\ Changed(work, Step).deps = AlteredDeps(work, Step)
          /\ Changed(work, Step).bak = work.bak
      BY <1>0, <1>7, ModifyColumnShape DEF Changed
    <2>2. QED
      BY <1>7, <2>1 DEF AlteredDeps, NewDefaults, Default, DefaultsOn, Keys
  <1>8. CASE Step.kind = "unsupported"
    BY <1>8 DEF Changed
  <1>9. QED
    BY <1>0, <1>1, <1>2, <1>3, <1>4, <1>5, <1>6, <1>7, <1>8, StepFields DEF Kinds

(* What is known of the steps of a script and of its undo.                  *)
FromDecisions == \E decided \in Decisions : script = ForwardOps(decided)

LEMMA StepFacts ==
  ASSUME TypeOK, FromDecisions, NEW n \in 1 .. Len(script)
  PROVE  /\ AllSteps[n] \in Steps
         /\ ~run.undo => AllSteps[n] = script[n]
         /\ run.undo /\ AllSteps[n].kind = "modify_column" =>
              ~AllSteps[n].accept /\ AllSteps[n].observed.type # 0
  <1>1. AllSteps[n] \in Steps
    BY AtStep
  <1>2. ~run.undo => AllSteps[n] = script[n]
    BY DEF AllSteps
  <1>3. ASSUME run.undo, AllSteps[n].kind = "modify_column"
        PROVE  ~AllSteps[n].accept /\ AllSteps[n].observed.type # 0
    <2> DEFINE m == Len(script) + 1 - n
               op == script[m]
    <2>1. m \in 1 .. Len(script) /\ AllSteps[n] = UndoOp(op, m)
      BY <1>3 DEF AllSteps, UndoOps, TypeOK
    <2>2. op \in Steps /\ (op.kind \in ColumnKinds => op.target.type # 0)
      <3>1. op \in Steps
        BY <2>1 DEF TypeOK
      <3>2. \A k \in 1 .. Len(script) : script[k].kind \in ColumnKinds => script[k].target.type # 0
        <4>1. PICK decided \in Decisions : script = ForwardOps(decided)
          BY DEF FromDecisions
        <4>2. \A k \in 1 .. Len(ForwardOps(decided)) :
                 ForwardOps(decided)[k].kind \in ColumnKinds => ForwardOps(decided)[k].target.type # 0
          BY ForwardOpsSteps
        <4>3. QED  BY <4>1, <4>2
      <3>3. QED  BY <2>1, <3>1, <3>2
    <2> HIDE DEF m, op
    <2>3. op.kind = "modify_column" /\ UndoOp(op, m) = [op EXCEPT !.target = op.observed,
                                             !.observed = op.target, !.backfill = 0, !.accept = FALSE]
      <3>1. /\ [op EXCEPT !.kind = "drop_table"].kind # "modify_column"
            /\ [op EXCEPT !.kind = "drop_column"].kind # "modify_column"
            /\ [op EXCEPT !.kind = "restore_table", !.num = m].kind # "modify_column"
            /\ [op EXCEPT !.kind = "restore_column", !.num = m, !.target = op.observed].kind
                 # "modify_column"
            /\ [op EXCEPT !.kind = "unsupported"].kind # "modify_column"
        BY <2>2 DEF Steps
      <3>2. UndoOp(op, m).kind = "modify_column"
        BY <1>3, <2>1
      <3>3. QED  BY <3>1, <3>2 DEF UndoOp
    <2>4. UndoOp(op, m).accept = FALSE /\ UndoOp(op, m).observed = op.target
      BY <2>2, <2>3 DEF Steps
    <2>5. QED  BY <2>1, <2>2, <2>3, <2>4 DEF ColumnKinds
  <1>4. QED  BY <1>1, <1>2, <1>3

LEMMA DropsFirst ==
  ASSUME TypeOK, FromDecisions, ~run.undo, NEW m \in 1 .. Len(script), NEW n \in 1 .. Len(script),
         m < n, AllSteps[m].kind = "modify_column"
  PROVE  ~Copies(AllSteps[n])
  <1>1. AllSteps[m] = script[m] /\ AllSteps[n] = script[n]
    BY StepFacts
  <1>2. script[n].kind \in ColumnKinds
    BY <1>1, ForwardOpsSteps DEF FromDecisions, ColumnKinds
  <1>3. QED  BY <1>1, <1>2 DEF Copies, ColumnKinds

-----------------------------------------------------------------------------------
(* The keys of a database stay sound.                                       *)
Sound(d) == Fits(d) /\ KeysSound(d)
AsObserved == Step.kind = "modify_column" /\ Step.observed.type # 0 =>
                ColumnIs(db, Step.tbl, Step.col, Step.observed)
NoNewKeys == \A x \in work.deps \ db.deps : x.kind = "default"

LEMMA AlteredKey ==
  ASSUME TypeOK, KeysSound(work), KeysSound(db), NoNewKeys, AsObserved, CanChange(work, Step),
         Step.kind = "modify_column",
         NEW x \in work.deps, x.kind = "pk", x.tbl = Step.tbl, Step.col \in x.cols
  PROVE  /\ AlteredColumn(work, Step).type # 0
         /\ ~AlteredColumn(work, Step).null
  <1>0. /\ Step \in Steps /\ work \in Databases /\ db \in Databases
        /\ Step.tbl \in Tables /\ Step.col \in Columns
        /\ Step.target \in Attributes /\ Step.observed \in Attributes
    BY AtStep, StepFields
  <1>1. CASE ~Alters(Step)
    BY <1>0, <1>1 DEF AlteredColumn, KeysSound, HasColumn
  <1>2. CASE Alters(Step) /\ OnlyWidens(Step)
    <2>1. x \in db.deps
      BY DEF NoNewKeys
    <2>2. db.cols[Step.tbl][Step.col] = Stored(Step.observed)
      BY <1>2 DEF AsObserved, OnlyWidens, ColumnIs
    <2>3. ~Step.observed.null
      BY <1>0, <2>1, <2>2, AttributesFields DEF KeysSound
    <2>4. Step.target.type # 0 /\ ~Step.target.null
      BY <1>0, <1>2, <2>3, AttributesFields DEF OnlyWidens
    <2>5. AlteredColumn(work, Step) = [Stored(Step.target) EXCEPT !.ident = work.cols[Step.tbl][Step.col].ident]
      BY <1>2 DEF AlteredColumn
    <2>6. QED  BY <2>4, <2>5 DEF Stored
  <1>3. CASE Alters(Step) /\ ~OnlyWidens(Step)
    <2>1. x \in AlterDependents(work, Step) \ Keys(work.deps)
      BY <1>3 DEF AlterDependents, ColumnDependents, OnColumn, Recreatable, Keys
    <2>2. Addable(ModifyColumn(work, Step), x)
      BY <2>1 DEF CanChange, CanModifyColumn
    <2>3. ModifyColumn(work, Step).cols[Step.tbl][Step.col] = AlteredColumn(work, Step)
      BY <1>0 DEF ModifyColumn, Databases
    <2>4. QED  BY <2>2, <2>3 DEF Addable, KeyHolds, HasColumn
  <1>4. QED  BY <1>1, <1>2, <1>3

LEMMA ChangedKeysSound ==
  ASSUME TypeOK, KeysSound(work), KeysSound(db), NoNewKeys, AsObserved, CanChange(work, Step)
  PROVE  KeysSound(Changed(work, Step))
  <1> SUFFICES ASSUME NEW x \in Changed(work, Step).deps, x.kind = "pk", NEW c \in x.cols
               PROVE  HasColumn(Changed(work, Step), x.tbl, c) /\ ~Changed(work, Step).cols[x.tbl][c].null
    BY DEF KeysSound
  <1>1. x \in work.deps
    BY ChangedDeps
  <1>2. x.tbl \in Tables /\ c \in Columns
    BY <1>1, AtStep, DatabaseFields, DependentType, StepFields DEF DependentRecords
  <1>3. HasColumn(work, x.tbl, c) /\ ~work.cols[x.tbl][c].null
    BY <1>1 DEF KeysSound
  <1>4. CASE Keeps(work, Changed(work, Step), x.tbl, c)
    BY <1>3, <1>4 DEF Keeps, HasColumn
  <1>5. CASE Drops(Step, Changed(work, Step), x.tbl, c)
    BY <1>5, ChangedDeps DEF Drops, Copies
  <1>6. CASE Makes(Step, work, x.tbl, c)
    BY <1>3, <1>6 DEF Makes
  <1>7. CASE Alter(Step, work, Changed(work, Step), x.tbl, c)
    BY <1>1, <1>7, AlteredKey DEF Alter, HasColumn
  <1>8. QED  BY <1>2, <1>4, <1>5, <1>6, <1>7, ChangeDoes

LEMMA AddAllSound ==
  ASSUME NEW d \in Databases, NEW X, Sound(d), CanAddAll(d, X)
  PROVE  Sound(AddAll(d, X))
  <1>1. /\ AddAll(d, X).cols = d.cols /\ AddAll(d, X).rows = d.rows
        /\ AddAll(d, X).deps = d.deps \cup X
    BY DEF AddAll, Databases
  <1>2. Fits(AddAll(d, X))
    BY <1>1 DEF Sound, Fits
  <1>3. \A x \in X : x.kind = "pk" =>
           \A c \in x.cols : HasColumn(AddAll(d, X), x.tbl, c) /\ ~AddAll(d, X).cols[x.tbl][c].null
    BY DEF CanAddAll, Addable, KeyHolds
  <1>4. \A x \in d.deps : x.kind = "pk" =>
           \A c \in x.cols : HasColumn(AddAll(d, X), x.tbl, c) /\ ~AddAll(d, X).cols[x.tbl][c].null
    BY <1>1 DEF Sound, KeysSound, HasColumn
  <1>5. KeysSound(AddAll(d, X))
    BY <1>1, <1>3, <1>4 DEF KeysSound
  <1>6. QED  BY <1>2, <1>5 DEF Sound

LEMMA InitSound ==
  ASSUME Init
  PROVE  Sound(db)
  <1>1. db \in InitialDbs /\ db \in Databases
    BY ScriptAssumption DEF Init
  <1>2. \A t \in Tables : Legal(db, t, db.rows[t])
    BY <1>1, DatabaseAssumption
  <1>3. Fits(db)
    BY <1>2 DEF Legal, RowFits, Fits
  <1>4. ASSUME NEW x \in db.deps, x.kind = "pk", NEW c \in x.cols
        PROVE  HasColumn(db, x.tbl, c) /\ ~db.cols[x.tbl][c].null
    <2>1. x.tbl \in Tables
      BY <1>1, DependentType DEF Databases, DependentRecords
    <2>2. Legal(db, x.tbl, db.rows[x.tbl])
      BY <1>2, <2>1
    <2>3. [db EXCEPT !.rows[x.tbl] = db.rows[x.tbl]] = db
      BY <1>1 DEF Databases
    <2>4. Addable(db, x)
      BY <2>2, <2>3 DEF Legal, OnTable
    <2>5. QED  BY <1>4, <2>4 DEF Addable, KeyHolds
  <1>5. KeysSound(db)
    BY <1>4 DEF KeysSound
  <1>6. QED  BY <1>3, <1>5 DEF Sound

-----------------------------------------------------------------------------------
(* A run while nobody else writes.  The checks that passed are about the    *)
(* committed database, which stays as it is while the script runs.          *)
Active == run.phase \in {"apply", "keys", "replay", "verify"}
Passed == {n \in 1 .. Len(script) : Active \/ (run.phase = "check" /\ n < run.at)}
ChecksPassed ==
  \A n \in Passed : Check(db, AllSteps[n], run.undo) = IF n \in run.skip THEN "skip" ELSE "go"

(* The steps carried out so far, and those that changed column c of t.      *)
Performed == {n \in (1 .. Len(script)) \ run.skip :
                Active /\ (run.phase = "apply" => n < run.at)}
Modifying(t, c) == {n \in Performed : /\ AllSteps[n].kind = "modify_column"
                                      /\ AllSteps[n].tbl = t /\ AllSteps[n].col = c}

(* A value of a column that is still there is the committed one, unless a   *)
(* step that may change it was carried out.                                 *)
Shortens(s, v) == Lossy(s) /\ v > s.target.type
CellKept(t, c, r) ==
  \/ work.rows[t][r][c] = db.rows[t][r][c]
  \/ \E n \in Modifying(t, c) :
       \/ Shortens(AllSteps[n], db.rows[t][r][c])
       \/ FillsNulls(AllSteps[n]) /\ db.rows[t][r][c] = Null
RowsKept(t, c) == /\ DOMAIN work.rows[t] = DOMAIN db.rows[t]
                  /\ \A r \in DOMAIN db.rows[t] : CellKept(t, c, r)
CellsKept ==
  Active => \A t \in Tables, c \in Columns :
              HasColumn(db, t, c) /\ HasColumn(work, t, c) => RowsKept(t, c)

(* A step that is carried out was checked against the committed database.   *)
LEMMA StepChecked ==
  ASSUME TypeOK, ChecksPassed, Applying
  PROVE  Check(db, Step, run.undo) = "go"
  <1>1. run.at \in Passed /\ run.at \notin run.skip
    BY DEF Passed, Active, Applying, TypeOK
  <1>2. QED  BY <1>1 DEF ChecksPassed, Step

LEMMA GoFacts ==
  ASSUME NEW d, NEW s \in Steps, NEW u, Check(d, s, u) = "go"
  PROVE  /\ s.kind \in {"create_table", "restore_table"} => ~Exists(d, s.tbl)
         /\ s.kind \in {"add_column", "restore_column"} => ~HasColumn(d, s.tbl, s.col)
         /\ s.kind = "modify_column" =>
              /\ s.observed.type # 0 => ColumnIs(d, s.tbl, s.col, s.observed)
              /\ Alters(s) /\ MayLoseData(s) /\ ~s.accept => ~LosesRows(d, s)
  <1>1. CASE s.kind = "create_table"
    BY <1>1 DEF Check, CheckCreateTable
  <1>2. CASE s.kind = "restore_table"
    BY <1>2 DEF Check, CheckRestoreTable
  <1>3. CASE s.kind = "add_column"
    BY <1>3 DEF Check, CheckAddColumn
  <1>4. CASE s.kind = "restore_column"
    BY <1>4 DEF Check, CheckRestoreColumn
  <1>5. CASE s.kind = "modify_column"
    <2>1. CheckModifyColumn(d, s) = "go"
      BY <1>5 DEF Check
    <2>2. QED  BY <1>5, <2>1 DEF CheckModifyColumn
  <1>6. QED  BY <1>1, <1>2, <1>3, <1>4, <1>5

LEMMA AsObservedAtChange ==
  ASSUME TypeOK, ChecksPassed, Applying
  PROVE  AsObserved
  BY StepChecked, GoFacts, AtStep DEF AsObserved

(* A step that changes a column changes no value it was not allowed to.     *)
LEMMA AlteredKept ==
  ASSUME TypeOK, ChecksPassed, Applying, Fits(db), Step.kind = "modify_column",
         NEW r \in DOMAIN db.rows[Step.tbl], NEW old,
         Alters(Step) => CanAlter(old, Step, db.rows[Step.tbl][r][Step.col])
  PROVE  LET v == db.rows[Step.tbl][r][Step.col] IN
         Altered(old, Step, v) = v \/ Shortens(Step, v) \/ (FillsNulls(Step) /\ v = Null)
  <1> DEFINE v == db.rows[Step.tbl][r][Step.col]
             w == Step.target.type
  <1>0. /\ Step \in Steps /\ db \in Databases /\ Step.tbl \in Tables /\ Step.col \in Columns
        /\ w \in Nat /\ Step.observed.type \in Nat
    BY AtStep, StepFields, AttributesFields
  <1>1. v \in Nat /\ v <= db.cols[Step.tbl][Step.col].type
    BY <1>0, CellsOf DEF Fits, Cells
  <1>2. v \in Column(db.rows[Step.tbl], Step.col)
    BY DEF Column
  <1>3. Check(db, Step, run.undo) = "go"
    BY StepChecked
  <1> SUFFICES ASSUME ~Shortens(Step, v), ~(FillsNulls(Step) /\ v = Null)
               PROVE  Altered(old, Step, v) = v
    OBVIOUS
  <1>a. Filled(old, Step, v) = v
    BY DEF Filled
  <1>b. Alters(Step) => Stores(v, w)
    BY <1>a DEF CanAlter
  <1> HIDE DEF v
  <1>4. Altered(old, Step, v) = IF Alters(Step) THEN Cut(v, w) ELSE v
    BY <1>a DEF Altered
  <1>5. CASE v <= w
    BY <1>0, <1>1, <1>4, <1>5, CutFits
  <1>6. CASE Alters(Step) /\ v > w
    <2>1. w \in Rounding
      BY <1>b, <1>0, <1>1, <1>6 DEF Stores
    <2>0. ~Lossy(Step)
      BY <1>6 DEF Shortens
    <2>2. Step.observed.type # 0
      BY <2>0, <2>1 DEF Lossy, LossGoesUnseen
    <2>3. db.cols[Step.tbl][Step.col].type = Step.observed.type
      <3>1. ColumnIs(db, Step.tbl, Step.col, Step.observed)
        BY <1>0, <1>3, <2>2, GoFacts
      <3>2. QED  BY <3>1 DEF ColumnIs, Stored
    <2>4. MayLoseData(Step) /\ Step.observed.type \notin Texts /\ ~Step.accept
      BY <1>0, <1>1, <1>6, <2>0, <2>1, <2>2, <2>3 DEF Lossy, LossGoesUnseen
    <2>5. ~LosesRows(db, Step)
      BY <1>0, <1>3, <1>6, <2>4, GoFacts
    <2>6. v # Null
      BY <1>0, <1>6 DEF Null
    <2>7. Cut(v, w) = v
      BY <1>2, <2>4, <2>5, <2>6 DEF LosesRows
    <2>8. QED  BY <1>4, <2>7
  <1>7. CASE ~Alters(Step)
    BY <1>4, <1>7
  <1>8. QED  BY <1>0, <1>1, <1>5, <1>6, <1>7
-----------------------------------------------------------------------------------
(* The progress of a run.                                                   *)

LEMMA Advances ==
  ASSUME TypeOK, run.phase = "apply", script' = script,
         NEW r \in Runs, r.at = run.at, r.phase = run.phase, r.skip = run.skip, r.undo = run.undo,
         run' = Advance(r)
  PROVE  /\ run'.phase \in {"apply", "keys"} /\ ~run'.copied
         /\ run'.undo = run.undo /\ run'.skip = run.skip /\ AllSteps' = AllSteps
         /\ Active /\ Active' /\ Passed' = Passed
         /\ Performed' = Performed \cup ({run.at} \ run.skip)
  <1>0. run.at \in 1 .. Len(script) /\ Len(script) \in Nat
    BY DEF TypeOK
  <1>1. /\ run'.phase = IF run.at = Len(script) THEN "keys" ELSE "apply"
        /\ run'.at = IF run.at = Len(script) THEN 1 ELSE run.at + 1
        /\ ~run'.copied /\ run'.undo = run.undo /\ run'.skip = run.skip
    BY DEF Advance, Runs
  <1>2. Active /\ Active'
    BY <1>1 DEF Active
  <1>3. Performed = {n \in (1 .. Len(script)) \ run.skip : n < run.at}
    BY <1>2 DEF Performed
  <1>4. Performed' = {n \in (1 .. Len(script)) \ run.skip : run'.phase = "apply" => n < run'.at}
    BY <1>1, <1>2 DEF Performed
  <1>5. Performed' = Performed \cup ({run.at} \ run.skip)
    BY <1>0, <1>1, <1>3, <1>4
  <1>6. AllSteps' = AllSteps
    BY <1>1 DEF AllSteps
  <1>7. Passed' = Passed
    BY <1>2 DEF Passed
  <1>8. QED  BY <1>1, <1>2, <1>5, <1>6, <1>7

LEMMA Continues ==
  ASSUME TypeOK, script' = script, run.phase \in {"keys", "replay"},
         NEW p \in {"replay", "verify"}, run' = [run EXCEPT !.phase = p]
  PROVE  /\ run'.phase = p /\ run'.copied = run.copied
         /\ run'.undo = run.undo /\ run'.skip = run.skip /\ AllSteps' = AllSteps
         /\ Active /\ Active' /\ Passed' = Passed /\ Performed' = Performed
  <1>1. /\ run'.phase = p /\ run'.copied = run.copied
        /\ run'.undo = run.undo /\ run'.skip = run.skip
    BY DEF TypeOK, Runs
  <1>2. QED  BY <1>1 DEF AllSteps, Active, Passed, Performed

LEMMA ModifyingGrows ==
  ASSUME AllSteps' = AllSteps, Performed \subseteq Performed', NEW t, NEW c
  PROVE  Modifying(t, c) \subseteq Modifying(t, c)'
  BY DEF Modifying

LEMMA KeptStays ==
  ASSUME AllSteps' = AllSteps, Performed \subseteq Performed', db' = db, NEW t, NEW c, NEW r,
         work'.rows[t][r][c] = work.rows[t][r][c], CellKept(t, c, r)
  PROVE  CellKept(t, c, r)'
  BY ModifyingGrows DEF CellKept

LEMMA CellsStay ==
  ASSUME AllSteps' = AllSteps, Performed \subseteq Performed', db' = db, Active, CellsKept,
         work'.cols = work.cols, work'.rows = work.rows
  PROVE  CellsKept'
  <1> SUFFICES ASSUME NEW t \in Tables, NEW c \in Columns,
                      HasColumn(db', t, c), HasColumn(work', t, c)
               PROVE  RowsKept(t, c)'
    BY DEF CellsKept
  <1>1. RowsKept(t, c)
    BY DEF CellsKept, HasColumn
  <1>2. QED  BY <1>1, KeptStays DEF RowsKept

LEMMA ChangeKeepsCells ==
  ASSUME TypeOK, ChecksPassed, Fits(db), CellsKept, Applying, CanChange(work, Step),
         AllSteps' = AllSteps, Performed \subseteq Performed', run.at \in Performed', db' = db,
         work' = Changed(work, Step)
  PROVE  CellsKept'
  <1> SUFFICES ASSUME NEW t \in Tables, NEW c \in Columns,
                      HasColumn(db, t, c), HasColumn(work', t, c)
               PROVE  RowsKept(t, c)'
    BY DEF CellsKept
  <1>0. Step \in Steps /\ Check(db, Step, run.undo) = "go" /\ Active
    BY AtStep, StepChecked DEF Applying, Active
  <1>1. CASE Keeps(work, work', t, c)
    <2>1. HasColumn(work, t, c)
      BY <1>1 DEF Keeps, HasColumn
    <2>2. RowsKept(t, c)
      BY <1>0, <2>1 DEF CellsKept
    <2>3. QED  BY <1>1, <2>2, KeptStays DEF RowsKept, Keeps
  <1>2. ~Drops(Step, work', t, c)
    BY DEF Drops
  <1>3. ~Makes(Step, work, t, c)
    BY <1>0, GoFacts DEF Makes, Exists
  <1>4. CASE Alter(Step, work, work', t, c)
    <2>0. /\ Step.kind = "modify_column" /\ t = Step.tbl /\ c = Step.col
          /\ DOMAIN work'.rows[t] = DOMAIN work.rows[t]
          /\ \A r \in DOMAIN work.rows[t] : work'.rows[t][r][c] = Altered(work.cols[t][c].type, Step, work.rows[t][r][c])
      BY <1>4 DEF Alter
    <2>1. HasColumn(work, t, c)
      BY <1>4 DEF Alter, CanChange, CanModifyColumn
    <2>2. RowsKept(t, c)
      BY <1>0, <2>1 DEF CellsKept
    <2>3. run.at \in Modifying(t, c)'
      BY <2>0 DEF Modifying, Step
    <2>4. ASSUME NEW r \in DOMAIN db.rows[t]  PROVE CellKept(t, c, r)'
      <3>1. CellKept(t, c, r) /\ r \in DOMAIN work.rows[t]
        BY <2>2, <2>4 DEF RowsKept
      <3>2. CASE work.rows[t][r][c] = db.rows[t][r][c]
        <4>1. work'.rows[t][r][c] = Altered(work.cols[t][c].type, Step, db.rows[t][r][c])
          BY <2>0, <3>1, <3>2
        <4>2. Alters(Step) => CanAlter(work.cols[t][c].type, Step, db.rows[t][r][c])
          BY <2>0, <3>1, <3>2 DEF CanChange, CanModifyColumn, Column
        <4>3. \/ Altered(work.cols[t][c].type, Step, db.rows[t][r][c]) = db.rows[t][r][c]
              \/ Shortens(Step, db.rows[t][r][c])
              \/ FillsNulls(Step) /\ db.rows[t][r][c] = Null
          BY <2>0, <4>2, AlteredKept
        <4>4. QED  BY <2>3, <4>1, <4>3 DEF CellKept, Step
      <3>3. CASE work.rows[t][r][c] # db.rows[t][r][c]
        BY <3>1, <3>3, ModifyingGrows DEF CellKept
      <3>4. QED  BY <3>2, <3>3
    <2>5. QED  BY <2>0, <2>2, <2>4 DEF RowsKept
  <1>5. QED  BY <1>1, <1>2, <1>3, <1>4, ChangeDoes

(* While nobody else writes, a run changes only the values it may change.   *)
Undisturbed ==
  /\ Sound(db) /\ Sound(work) /\ ChecksPassed /\ CellsKept
  /\ run.phase = "check" => run.skip \subseteq Passed
  /\ run.phase = "apply" => NoNewKeys

LEMMA OutOfRun ==
  ASSUME Sound(db'), Sound(work'),
         run'.phase = "idle" \/ (run'.phase = "check" /\ run'.at = 1 /\ run'.skip = {})
  PROVE  Undisturbed'
  <1>1. ~Active' /\ Passed' = {} /\ run'.phase # "apply"
    BY DEF Active, Passed
  <1>2. QED  BY <1>1 DEF Undisturbed, ChecksPassed, CellsKept

LEMMA RollBackUndisturbed ==
  ASSUME Undisturbed, NEW outcome, RollBack(outcome)
  PROVE  Undisturbed'
  BY OutOfRun DEF RollBack, Undisturbed, Idle

LEMMA SoundBySchema ==
  ASSUME NEW d, NEW e, SameSchema(d, e), d.rows = e.rows, Sound(d)
  PROVE  Sound(e)
  BY DEF SameSchema, Sound, Fits, KeysSound, HasColumn

LEMMA CleanUpKeeps ==
  ASSUME TypeOK, \/ \E b \in BackupNames : RemoveBackup(b)
                 \/ \E u \in BOOLEAN : RemoveJournal(u)
  PROVE  /\ SameSchema(db, db') /\ db.rows = db'.rows
         /\ work' = db' /\ run.phase = "idle" /\ run' = run
  BY DEF TypeOK, Databases, RemoveBackup, RemoveJournal, CleanUp, SameSchema, Running

LEMMA CheckUndisturbed ==
  ASSUME TypeOK, Settled, Undisturbed, CheckStep
  PROVE  Undisturbed'
  <1>0. /\ run \in Runs /\ run.at \in Nat /\ Len(script) \in Nat /\ run.at \in 1 .. Len(script)
    BY AtStep DEF TypeOK, Runs
  <1>1. /\ work = db /\ run.phase = "check" /\ Check(work, Step, run.undo) # "abort"
        /\ UNCHANGED <<script, db, work>>
    BY DEF CheckStep, Settled
  <1>2. /\ run'.undo = run.undo
        /\ run'.skip = IF Check(db, Step, run.undo) = "skip" THEN run.skip \cup {run.at} ELSE run.skip
        /\ run'.at = IF run.at = Len(script) THEN 1 ELSE run.at + 1
        /\ run'.phase = IF run.at = Len(script) THEN "apply" ELSE "check"
    BY <1>0, <1>1 DEF CheckStep, Runs
  <1>3. AllSteps' = AllSteps
    BY <1>1, <1>2 DEF AllSteps
  <1>4. Passed = {n \in 1 .. Len(script) : n < run.at}
    BY <1>1 DEF Passed, Active
  <1>5. Passed' = {n \in 1 .. Len(script) : n <= run.at}
    BY <1>0, <1>1, <1>2 DEF Passed, Active
  <1>6. Check(db, Step, run.undo) \in {"go", "skip", "abort"}
    BY DEF Check, CheckCreateTable, CheckDropTable, CheckDropColumn, CheckAddColumn,
           CheckModifyColumn, CheckRestoreTable, CheckRestoreColumn
  <1>7. run.at \notin run.skip
    BY <1>0, <1>1, <1>4 DEF Undisturbed
  <1>8. ChecksPassed'
    <2> SUFFICES ASSUME NEW n \in Passed'
                 PROVE  Check(db, AllSteps[n], run.undo) = IF n \in run'.skip THEN "skip" ELSE "go"
      BY <1>1, <1>2, <1>3 DEF ChecksPassed
    <2>1. CASE n = run.at
      BY <1>1, <1>2, <1>6, <1>7, <2>1 DEF Step
    <2>2. CASE n # run.at
      <3>1. n \in Passed
        BY <1>0, <1>4, <1>5, <2>2
      <3>2. QED  BY <1>2, <2>2, <3>1 DEF Undisturbed, ChecksPassed
    <2>3. QED  BY <2>1, <2>2
  <1>9. CellsKept'
    <2>1. ASSUME NEW t \in Tables, NEW c \in Columns  PROVE RowsKept(t, c)'
      BY <1>1 DEF RowsKept, CellKept
    <2>2. QED  BY <2>1 DEF CellsKept
  <1>10. run'.phase = "check" => run'.skip \subseteq Passed'
    BY <1>0, <1>1, <1>2, <1>4, <1>5 DEF Undisturbed
  <1>11. NoNewKeys'
    BY <1>1 DEF NoNewKeys
  <1>12. QED
    BY <1>1, <1>8, <1>9, <1>10, <1>11 DEF Undisturbed

LEMMA ChangeUndisturbed ==
  ASSUME TypeOK, Undisturbed, ChangeStep
  PROVE  Undisturbed'
  <1> DEFINE keys == IF Step.kind = "modify_column" THEN run.keys \cup DroppedKeys(work, Step)
                                                    ELSE run.keys
             replay == IF Step.kind \in {"restore_table", "restore_column"}
                         THEN run.replay \cup {Step.num} ELSE run.replay
             r == [run EXCEPT !.keys = keys, !.replay = replay]
  <1>0. /\ Applying /\ run.phase = "apply" /\ run.at \notin run.skip /\ CanChange(work, Step)
        /\ work' = Changed(work, Step) /\ db' = db /\ script' = script /\ run' = Advance(r)
    BY DEF ChangeStep, AtChange, Applying
  <1>1. keys \in SUBSET Dependents /\ replay \in SUBSET Numbers
    BY AtStep, DroppedKeysType, StepFields DEF Runs
  <1> HIDE DEF keys, replay
  <1>2. r \in Runs /\ r.at = run.at /\ r.phase = run.phase /\ r.skip = run.skip /\ r.undo = run.undo
    BY <1>1, AtStep DEF Runs
  <1> HIDE DEF r
  <1>3. /\ run'.phase \in {"apply", "keys"} /\ run'.undo = run.undo /\ run'.skip = run.skip
        /\ AllSteps' = AllSteps /\ Active /\ Passed' = Passed
        /\ Performed' = Performed \cup ({run.at} \ run.skip)
    BY <1>0, <1>2, Advances
  <1>4. ChecksPassed'
    BY <1>0, <1>3 DEF ChecksPassed, Undisturbed
  <1>5. CellsKept'
    BY <1>0, <1>3, ChangeKeepsCells DEF Undisturbed, Sound
  <1>6. AsObserved
    BY <1>0, AsObservedAtChange DEF Undisturbed
  <1>7. Sound(work')
    BY <1>0, <1>6, ChangedFits, ChangedKeysSound DEF Undisturbed, Sound
  <1>8. NoNewKeys'
    BY <1>0, ChangedDeps DEF Undisturbed, NoNewKeys
  <1>9. QED
    BY <1>0, <1>3, <1>4, <1>5, <1>7, <1>8 DEF Undisturbed

LEMMA AdditionUndisturbed ==
  ASSUME TypeOK, Undisturbed, script' = script, db' = db, run.phase \in {"keys", "replay"},
         NEW p \in {"replay", "verify"}, run' = [run EXCEPT !.phase = p],
         NEW X, CanAddAll(work, X), work' = AddAll(work, X)
  PROVE  Undisturbed'
  <1>0. work \in Databases
    BY DEF TypeOK
  <1>1. work'.cols = work.cols /\ work'.rows = work.rows
    BY <1>0 DEF AddAll, Databases
  <1>2. /\ run'.phase = p /\ run'.undo = run.undo /\ run'.skip = run.skip /\ AllSteps' = AllSteps
        /\ Active /\ Passed' = Passed /\ Performed' = Performed
    BY Continues
  <1>3. CellsKept'
    BY <1>1, <1>2, CellsStay DEF Undisturbed
  <1>4. Sound(work')
    BY <1>0, AddAllSound DEF Undisturbed
  <1>5. ChecksPassed'
    BY <1>2 DEF ChecksPassed, Undisturbed
  <1>6. QED
    BY <1>2, <1>3, <1>4, <1>5 DEF Undisturbed

LEMMA NextUndisturbed ==
  ASSUME MaxWrites = 0, TypeOK, Settled, Undisturbed, [Next]_vars
  PROVE  Undisturbed'
  <1>0. run \in Runs /\ work \in Databases /\ db \in Databases /\ used.writes \in Nat /\ Step \in Steps
    BY AtStep DEF TypeOK
  <1>1. ASSUME NEW undo \in BOOLEAN, Start(undo)  PROVE Undisturbed'
    BY <1>1, OutOfRun DEF Start, Undisturbed, Idle
  <1>2. CASE Refuse \/ StatementFails \/ VerifyFails \/ Interrupt \/ LockTimeout
    BY <1>2, RollBackUndisturbed DEF Refuse, StatementFails, VerifyFails, Interrupt, LockTimeout
  <1>3. CASE SkipStep
    <2>1. /\ run'.phase \in {"apply", "keys"} /\ run'.undo = run.undo /\ run'.skip = run.skip
          /\ AllSteps' = AllSteps /\ Active /\ Passed' = Passed
          /\ Performed' = Performed \cup ({run.at} \ run.skip)
          /\ UNCHANGED <<script, db, work>> /\ run.phase = "apply"
      BY <1>0, <1>3, Advances DEF SkipStep
    <2>2. CellsKept'
      BY <2>1, CellsStay DEF Undisturbed
    <2>3. QED  BY <2>1, <2>2 DEF Undisturbed, ChecksPassed, NoNewKeys
  <1>4. CASE CopyStep
    <2>1. /\ run' = [run EXCEPT !.copied = TRUE] /\ run.phase = "apply"
          /\ work' = Copy(work, Step, run.undo) /\ UNCHANGED <<script, db>>
      BY <1>4 DEF CopyStep, AtCopy, Applying
    <2>2. /\ run'.phase = run.phase /\ run'.undo = run.undo /\ run'.skip = run.skip
          /\ run'.at = run.at
      BY <1>0, <2>1 DEF Runs
    <2>3. /\ AllSteps' = AllSteps /\ Active /\ Passed' = Passed /\ Performed' = Performed
      BY <2>1, <2>2 DEF AllSteps, Active, Passed, Performed
    <2>4. work'.cols = work.cols /\ work'.rows = work.rows /\ work'.deps = work.deps
      BY <1>0, <2>1 DEF Copy, Databases
    <2>5. CellsKept'
      BY <2>1, <2>3, <2>4, CellsStay DEF Undisturbed
    <2>6. Sound(work')
      BY <2>4, SoundBySchema DEF Undisturbed, SameSchema
    <2>7. ChecksPassed' /\ NoNewKeys'
      BY <2>1, <2>2, <2>3, <2>4 DEF Undisturbed, ChecksPassed, NoNewKeys
    <2>8. QED  BY <2>1, <2>2, <2>5, <2>6, <2>7 DEF Undisturbed
  <1>5. CASE RecreateKeys
    BY <1>5, AdditionUndisturbed DEF RecreateKeys
  <1>6. CASE Replay
    BY <1>6, AdditionUndisturbed DEF Replay
  <1>7. CASE Commit
    BY <1>7, OutOfRun DEF Commit, Undisturbed, Idle
  <1>8. CASE \E t \in Tables : Write(t) \/ Hold(t) \/ Release(t)
    <2>1. \A t \in Tables : ~Write(t)
      BY <1>0 DEF Write
    <2>2. UNCHANGED <<script, db, work, run>>
      BY <1>8, <2>1 DEF Hold, Release
    <2>3. QED
      BY <2>2 DEF Undisturbed, ChecksPassed, CellsKept, RowsKept, CellKept, Modifying, Performed,
                  Passed, Active, AllSteps, NoNewKeys
  <1>9. CASE \/ \E b \in BackupNames : RemoveBackup(b)
             \/ \E u \in BOOLEAN : RemoveJournal(u)
    <2>1. Sound(db') /\ Sound(work') /\ run'.phase = "idle"
      BY <1>9, CleanUpKeeps, SoundBySchema DEF Undisturbed
    <2>2. QED  BY <2>1, OutOfRun
  <1>10. CASE UNCHANGED vars
    BY <1>10 DEF vars, Undisturbed, ChecksPassed, CellsKept, RowsKept, CellKept, Modifying, Performed,
                 Passed, Active, AllSteps, NoNewKeys
  <1>11. QED
    BY <1>1, <1>2, <1>3, <1>4, <1>5, <1>6, <1>7, <1>8, <1>9, <1>10, CheckUndisturbed, ChangeUndisturbed
    DEF Next, ScriptStep

LEMMA NextFromDecisions ==
  ASSUME FromDecisions, [Next]_vars
  PROVE  FromDecisions'
  <1>1. script' = script
    BY DEF Next, vars, Start, ScriptStep, CheckStep, Refuse, SkipStep, CopyStep, ChangeStep,
           RecreateKeys, Replay, StatementFails, Commit, VerifyFails, Interrupt, LockTimeout,
           RollBack, Write, Hold, Release, RemoveBackup, RemoveJournal, CleanUp
  <1>2. QED  BY <1>1 DEF FromDecisions

LEMMA InitUndisturbed ==
  ASSUME Init
  PROVE  Undisturbed /\ FromDecisions
  <1>1. Sound(db) /\ Sound(work)
    BY InitSound DEF Init
  <1>2. run.phase = "idle"
    BY DEF Init, Idle
  <1>3. ~Active /\ Passed = {}
    BY <1>2 DEF Active, Passed
  <1>4. QED
    BY <1>1, <1>2, <1>3 DEF Undisturbed, ChecksPassed, CellsKept, FromDecisions, Init

LEMMA LossIsKnown ==
  ASSUME TypeOK, Undisturbed, run.phase = "verify",
         NEW t \in Tables, NEW c \in Columns, NEW r \in DOMAIN db.rows[t],
         HasColumn(work, t, c)
  PROVE  db.rows[t][r][c] \in {Null, work.rows[t][r][c]} \/ Loses(AllSteps, t, c)
  <1>0. db.rows[t][r][c] \in Nat /\ db.cols[t][c].type \in Nat
    BY AtStep, CellsOf, DatabaseFields DEF Cells, StoredColumns
  <1>1. SUFFICES ASSUME db.rows[t][r][c] # Null
                 PROVE  db.rows[t][r][c] = work.rows[t][r][c] \/ Loses(AllSteps, t, c)
    OBVIOUS
  <1>2. HasColumn(db, t, c)
    <2>1. db.rows[t][r][c] <= db.cols[t][c].type
      BY DEF Undisturbed, Sound, Fits
    <2>2. QED  BY <1>0, <1>1, <2>1 DEF HasColumn, Null
  <1>3. CellKept(t, c, r)
    BY <1>2 DEF Undisturbed, CellsKept, Active, RowsKept
  <1>4. ASSUME NEW n \in Modifying(t, c), Lossy(AllSteps[n])
        PROVE  Loses(AllSteps, t, c)
    BY <1>4 DEF Modifying, Performed, Loses
  <1>5. QED  BY <1>1, <1>3, <1>4 DEF CellKept, Shortens

(* A script, or its undo, that commits while nobody else writes has changed *)
(* no value of a column that is still there, except where a step of it is   *)
(* one the user accepted to lose data or one whose loss the code does not   *)
(* ask about.                                                               *)
THEOREM NoLossUnaccepted ==
  ASSUME MaxWrites = 0
  PROVE  Spec => NoSilentLoss
  <1>1. Init => Undisturbed /\ FromDecisions
    BY InitUndisturbed
  <1>2. TypeOK /\ OnlyLockedTablesDiffer /\ Undisturbed /\ FromDecisions /\ [Next]_vars
          => Undisturbed' /\ FromDecisions'
    BY NextUndisturbed, NextFromDecisions, ConfinedIs
  <1>3. ASSUME TypeOK, Undisturbed, FromDecisions, [Next]_vars, Committing,
               NEW t \in Tables, NEW c \in Columns,
               NEW r \in (DOMAIN db.rows[t]) \cap DOMAIN db'.rows[t]
        PROVE  \/ db.rows[t][r][c] \in {Null, db'.rows[t][r][c]}
               \/ Dropped(t, c) \/ Loses(AllSteps, t, c)
    <2>1. db' = work /\ run.phase = "verify"
      BY <1>3, OnlyCommitCommits DEF Commit
    <2>2. CASE HasColumn(work, t, c)
      BY <1>3, <2>1, <2>2, LossIsKnown
    <2>3. CASE ~HasColumn(work, t, c) /\ HasColumn(db, t, c)
      BY <2>1, <2>3 DEF Dropped
    <2>4. CASE ~HasColumn(db, t, c)
      <3>1. db.rows[t][r][c] \in Nat /\ db.rows[t][r][c] <= db.cols[t][c].type
        BY <1>3, AtStep, CellsOf DEF Cells, Undisturbed, Sound, Fits
      <3>2. QED  BY <2>4, <3>1 DEF HasColumn, Null
    <2>5. QED  BY <2>2, <2>3, <2>4
  <1>4. TypeOK /\ Undisturbed /\ FromDecisions /\ [Next]_vars
          => [Committing =>
                \A t \in Tables, c \in Columns : \A r \in (DOMAIN db.rows[t]) \cap DOMAIN db'.rows[t] :
                  \/ db.rows[t][r][c] \in {Null, db'.rows[t][r][c]}
                  \/ Dropped(t, c) \/ Loses(AllSteps, t, c)]_vars
    BY <1>3
  <1>5. QED
    BY <1>1, <1>2, <1>4, TypeCorrect, RollBackIsSafe, PTL DEF Spec, NoSilentLoss

-----------------------------------------------------------------------------------
(* What a run drops it has saved before.                                    *)

(* A backup of the run holds what was committed in column c of t, beside    *)
(* the key of each row; a column that a step changed must be there in the   *)
(* end, so that it needs no backup.                                         *)
Saves(name, t, c) ==
  /\ name[1] = Bare[t] /\ name[3] = run.undo
  /\ PkColumns(db, t) \cup {c} \subseteq work.bak[name].cols
  /\ \A r \in DOMAIN db.rows[t] :
       /\ r \in DOMAIN work.bak[name].rows
       /\ work.bak[name].rows[r][c] = db.rows[t][r][c]
       /\ \A k \in PkColumns(db, t) : \/ work.bak[name].rows[r][k] = db.rows[t][r][k]
                                     \/ Loses(AllSteps, t, k)
Saved(t, c) == (\E name \in BackupNames : Saves(name, t, c)) \/ Modifying(t, c) # {}
AllSaved(t) == \A c \in Columns : HasColumn(db, t, c) => Saved(t, c)

LostAreSaved ==
  Active => \A t \in Tables, c \in Columns :
              HasColumn(db, t, c) /\ ~HasColumn(work, t, c) => Saved(t, c)
(* Once the key of a table is lost no backup could hold it any more.        *)
LostKeysAreSaved ==
  run.phase = "apply" =>
    \A t \in Tables : PkColumns(work, t) = PkColumns(db, t) \/ AllSaved(t)

CopyOf(d, s) ==
  [cols |-> Backup(d, s),
   rows |-> [r \in DOMAIN d.rows[s.tbl] |->
              [c \in Columns |-> IF c \in Backup(d, s) THEN d.rows[s.tbl][r][c] ELSE Null]]]
CopyIsCurrent ==
  run.copied => /\ run.phase = "apply" /\ Copies(Step)
                /\ work.bak[BackupOf(Step, run.undo)] = CopyOf(work, Step)

LEMMA SavedStays ==
  ASSUME db' = db, script' = script, run'.undo = run.undo, AllSteps' = AllSteps,
         Performed \subseteq Performed',
         \A name \in BackupNames : BackedUp(work, name) => work'.bak[name] = work.bak[name],
         NEW t, NEW c, Saved(t, c)
  PROVE  Saved(t, c)'
  <1>1. ASSUME NEW name \in BackupNames, Saves(name, t, c)  PROVE Saves(name, t, c)'
    <2>1. work'.bak[name] = work.bak[name]
      BY <1>1 DEF Saves, BackedUp
    <2>2. Loses(AllSteps, t, c)' <=> Loses(AllSteps, t, c)
      BY DEF Loses
    <2>3. QED  BY <1>1, <2>1 DEF Saves, Loses
  <1>2. QED  BY <1>1, ModifyingGrows DEF Saved

LEMMA SamePk ==
  ASSUME NEW d, NEW e, NEW t,
         \A x : x.kind = "pk" /\ x.tbl = t => (x \in d.deps <=> x \in e.deps)
  PROVE  PkColumns(d, t) = PkColumns(e, t)
  <1>1. {y \in d.deps : y.kind = "pk" /\ y.tbl = t} = {y \in e.deps : y.kind = "pk" /\ y.tbl = t}
    OBVIOUS
  <1>2. QED  BY <1>1 DEF PkColumns

(* The columns a drop copies.                                               *)
LEMMA BackupCovers ==
  ASSUME NEW d \in Databases, NEW s \in Steps, KeysSound(d), Copies(s)
  PROVE  /\ PkColumns(d, s.tbl) \subseteq Backup(d, s)
         /\ s.kind = "drop_column" /\ HasColumn(d, s.tbl, s.col) => s.col \in Backup(d, s)
         /\ s.kind = "drop_table" \/ s.col \in PkColumns(d, s.tbl) =>
              \A c \in Columns : HasColumn(d, s.tbl, c) => c \in Backup(d, s)
  <1>1. \A k \in PkColumns(d, s.tbl) : k \in Columns /\ HasColumn(d, s.tbl, k)
    BY PkColumnsType, StepFields DEF PkColumns, KeysSound
  <1>2. QED  BY <1>1, StepFields DEF Backup, Copies

(* At a drop the values of a key are still the committed ones: in the       *)
(* forward script nothing has been changed yet, and an undo step that loses *)
(* no value changes only a NULL, of which a key has none.                   *)
LEMMA KeyUnchanged ==
  ASSUME TypeOK, FromDecisions, Undisturbed, Applying, Copies(Step),
         NEW t \in Tables, NEW k \in PkColumns(db, t), HasColumn(work, t, k),
         NEW r \in DOMAIN db.rows[t]
  PROVE  work.rows[t][r][k] = db.rows[t][r][k] \/ Loses(AllSteps, t, k)
  <1>1. k \in Columns /\ HasColumn(db, t, k) /\ ~db.cols[t][k].null
    <2>1. PICK x \in db.deps : x.kind = "pk" /\ x.tbl = t /\ k \in x.cols
      BY DEF PkColumns
    <2>2. QED  BY <2>1, PkColumnsType, AtStep DEF Undisturbed, Sound, KeysSound
  <1>2. CellKept(t, k, r)
    BY <1>1 DEF Undisturbed, CellsKept, RowsKept, Active, Applying
  <1>3. ASSUME NEW n \in Modifying(t, k)
        PROVE  ~FillsNulls(AllSteps[n]) /\ (Lossy(AllSteps[n]) => Loses(AllSteps, t, k))
    <2>1. /\ n \in 1 .. Len(script) /\ n < run.at /\ n \notin run.skip /\ n \in Passed
          /\ AllSteps[n].kind = "modify_column" /\ AllSteps[n].tbl = t /\ AllSteps[n].col = k
      BY <1>3 DEF Modifying, Performed, Applying, Passed
    <2>2. run.undo
      BY <2>1, DropsFirst DEF Step, TypeOK
    <2>3. AllSteps[n] \in Steps /\ AllSteps[n].observed.type # 0
      BY <2>1, <2>2, StepFacts
    <2>4. Check(db, AllSteps[n], run.undo) = "go"
      BY <2>1 DEF Undisturbed, ChecksPassed
    <2>5. ColumnIs(db, t, k, AllSteps[n].observed)
      BY <2>1, <2>3, <2>4, GoFacts
    <2>6. db.cols[t][k].null = AllSteps[n].observed.null
      BY <2>5 DEF ColumnIs, Stored
    <2>7. QED  BY <1>1, <2>1, <2>3, <2>6 DEF FillsNulls, Loses
  <1>4. QED  BY <1>2, <1>3 DEF CellKept, Shortens

(* A column in the copy of a drop is saved by it.                           *)
LEMMA DropSaves ==
  ASSUME TypeOK, FromDecisions, Undisturbed, CopyIsCurrent, AtChange, Copies(Step),
         PkColumns(work, Step.tbl) = PkColumns(db, Step.tbl),
         NEW c \in Backup(work, Step), HasColumn(db, Step.tbl, c), HasColumn(work, Step.tbl, c)
  PROVE  Saved(Step.tbl, c)
  <1> DEFINE t == Step.tbl
             name == BackupOf(Step, run.undo)
             pk == PkColumns(db, t)
  <1>0. /\ Step \in Steps /\ t \in Tables /\ run.undo \in BOOLEAN /\ name \in BackupNames
        /\ work \in Databases /\ db \in Databases /\ Applying /\ run.copied
        /\ Backup(work, Step) \subseteq Columns /\ c \in Columns
    BY AtStep, StepFields, BackupType DEF AtChange
  <1>1. name[1] = Bare[t] /\ name[3] = run.undo
    BY DEF BackupOf, BackupName
  <1>2. work.bak[name] = CopyOf(work, Step)
    BY <1>0 DEF CopyIsCurrent
  <1>3. pk \cup {c} \subseteq Backup(work, Step)
    BY <1>0, BackupCovers DEF Undisturbed, Sound
  <1>4. RowsKept(t, c)
    BY <1>0 DEF Undisturbed, CellsKept, Active, Applying
  <1>5. \A k \in pk : HasColumn(work, t, k)
    BY <1>0 DEF PkColumns, Undisturbed, Sound, KeysSound
  <1>6. \A k \in pk, r \in DOMAIN db.rows[t] :
          work.rows[t][r][k] = db.rows[t][r][k] \/ Loses(AllSteps, t, k)
    BY <1>0, <1>5, KeyUnchanged
  <1> HIDE DEF name, pk, t
  <1>7. CASE Modifying(t, c) = {}
    <2>1. \A r \in DOMAIN db.rows[t] : work.rows[t][r][c] = db.rows[t][r][c]
      BY <1>4, <1>7 DEF RowsKept, CellKept
    <2>2. \A r \in DOMAIN db.rows[t], k \in pk \cup {c} :
             r \in DOMAIN CopyOf(work, Step).rows
               /\ CopyOf(work, Step).rows[r][k] = work.rows[t][r][k]
      BY <1>0, <1>3, <1>4 DEF CopyOf, RowsKept, t
    <2>3. work.bak[name].cols = Backup(work, Step)
      BY <1>2 DEF CopyOf
    <2>4. Saves(name, t, c)
      BY <1>1, <1>2, <1>3, <1>6, <2>1, <2>2, <2>3 DEF Saves, pk
    <2>5. QED  BY <1>0, <2>4 DEF Saved, t
  <1>8. CASE Modifying(t, c) # {}
    BY <1>8 DEF Saved, t
  <1>9. QED  BY <1>7, <1>8

LEMMA ChangeSaves ==
  ASSUME TypeOK, FromDecisions, Undisturbed, LostAreSaved, LostKeysAreSaved, CopyIsCurrent,
         AtChange, CanChange(work, Step),
         AllSteps' = AllSteps, Performed \subseteq Performed', run.at \in Performed', db' = db,
         script' = script, run'.undo = run.undo, work' = Changed(work, Step)
  PROVE  /\ \A t \in Tables, c \in Columns :
              HasColumn(db, t, c) /\ ~HasColumn(work', t, c) => Saved(t, c)'
         /\ \A t \in Tables : PkColumns(work', t) = PkColumns(db, t) \/ AllSaved(t)'
  <1>0. /\ Step \in Steps /\ Step.tbl \in Tables /\ work \in Databases /\ Applying
        /\ run.phase = "apply" /\ Active
    BY AtStep, StepFields DEF AtChange, Applying, Active
  <1>1. ASSUME NEW t, NEW c, Saved(t, c)  PROVE Saved(t, c)'
    <2>1. work'.bak = work.bak
      BY ChangedDeps
    <2>2. QED  BY <1>1, <2>1, SavedStays
  <1>2. ASSUME NEW t, AllSaved(t)  PROVE AllSaved(t)'
    BY <1>1, <1>2 DEF AllSaved
  <1>3. ASSUME Copies(Step), NEW c \in Columns, HasColumn(db, Step.tbl, c),
               c \in Backup(work, Step) \/ ~HasColumn(work, Step.tbl, c)
        PROVE  Saved(Step.tbl, c)
    <2>1. CASE ~HasColumn(work, Step.tbl, c)
      BY <1>0, <1>3, <2>1 DEF LostAreSaved
    <2>2. CASE AllSaved(Step.tbl)
      BY <1>3, <2>2 DEF AllSaved
    <2>3. CASE /\ HasColumn(work, Step.tbl, c)
               /\ PkColumns(work, Step.tbl) = PkColumns(db, Step.tbl)
      BY <1>3, <2>3, DropSaves
    <2>4. QED  BY <1>0, <2>1, <2>2, <2>3 DEF LostKeysAreSaved
  <1>4. ASSUME NEW t \in Tables, NEW c \in Columns, HasColumn(db, t, c), ~HasColumn(work', t, c)
        PROVE  Saved(t, c)'
    <2>1. CASE ~HasColumn(work, t, c)
      BY <1>0, <1>1, <1>4, <2>1 DEF LostAreSaved
    <2>2. CASE HasColumn(work, t, c) /\ Drops(Step, work', t, c)
      <3>1. c \in Backup(work, Step)
        BY <1>0, <2>2, BackupCovers DEF Drops, Copies, Undisturbed, Sound
      <3>2. QED  BY <1>1, <1>3, <1>4, <2>2, <3>1 DEF Drops
    <2>3. CASE Alter(Step, work, work', t, c)
      BY <2>3 DEF Alter, Saved, Modifying, Step
    <2>4. CASE HasColumn(work, t, c) /\ (Keeps(work, work', t, c) \/ Makes(Step, work, t, c))
      BY <1>4, <2>4 DEF Keeps, Makes, HasColumn
    <2>5. QED  BY <2>1, <2>2, <2>3, <2>4, ChangeDoes
  <1>5. ASSUME NEW t \in Tables  PROVE PkColumns(work', t) = PkColumns(db, t) \/ AllSaved(t)'
    <2>1. CASE AllSaved(t)
      BY <1>2, <2>1
    <2>2. CASE /\ Copies(Step) /\ t = Step.tbl
               /\ Step.kind = "drop_table" \/ Step.col \in PkColumns(work, t)
      <3>1. \A c \in Columns : HasColumn(work, t, c) => c \in Backup(work, Step)
        BY <1>0, <2>2, BackupCovers DEF Undisturbed, Sound
      <3>2. AllSaved(t)
        BY <1>3, <2>2, <3>1 DEF AllSaved
      <3>3. QED  BY <1>2, <3>2
    <2>3. CASE ~(/\ Copies(Step) /\ t = Step.tbl
                 /\ Step.kind = "drop_table" \/ Step.col \in PkColumns(work, t))
               /\ PkColumns(work, t) = PkColumns(db, t)
      <3>1. \A x : x.kind = "pk" /\ x.tbl = t => (x \in work.deps <=> x \in work'.deps)
        BY <2>3, ChangedDeps DEF Copies, PkColumns
      <3>2. QED  BY <2>3, <3>1, SamePk
    <2>4. QED  BY <1>0, <2>1, <2>2, <2>3 DEF LostKeysAreSaved
  <1>6. QED  BY <1>4, <1>5

DropsAreSaved == LostAreSaved /\ LostKeysAreSaved /\ CopyIsCurrent

LEMMA NothingLost ==
  ASSUME work = db, ~run.copied
  PROVE  DropsAreSaved
  BY DEF DropsAreSaved, LostAreSaved, LostKeysAreSaved, CopyIsCurrent

LEMMA RollBackSaved ==
  ASSUME NEW outcome, RollBack(outcome)
  PROVE  DropsAreSaved'
  BY NothingLost DEF RollBack, Idle, DropsAreSaved, LostAreSaved, LostKeysAreSaved, CopyIsCurrent, Active

LEMMA CopySaved ==
  ASSUME TypeOK, DropsAreSaved, CopyStep
  PROVE  DropsAreSaved'
  <1>0. /\ Step \in Steps /\ work \in Databases /\ run \in Runs /\ run.undo \in BOOLEAN
        /\ BackupOf(Step, run.undo) \in BackupNames
    BY AtStep, BackupType
  <1>1. /\ run' = [run EXCEPT !.copied = TRUE] /\ run.phase = "apply" /\ Copies(Step) /\ ~run.copied
        /\ work' = Copy(work, Step, run.undo) /\ UNCHANGED <<script, db>>
        /\ ~BackedUp(work, BackupOf(Step, run.undo))
    BY DEF CopyStep, AtCopy, Applying, CanCopy
  <1>2. /\ run'.phase = run.phase /\ run'.undo = run.undo /\ run'.skip = run.skip
        /\ run'.at = run.at
    BY <1>0, <1>1 DEF Runs
  <1>3. /\ AllSteps' = AllSteps /\ Active /\ Performed' = Performed /\ Step' = Step
    BY <1>1, <1>2 DEF AllSteps, Active, Performed, Step
  <1>4. /\ work'.cols = work.cols /\ work'.rows = work.rows /\ work'.deps = work.deps
        /\ work'.bak = [work.bak EXCEPT ![BackupOf(Step, run.undo)] = CopyOf(work, Step)]
    BY <1>0, <1>1 DEF Copy, CopyOf, Databases
  <1>5. /\ work'.bak[BackupOf(Step, run.undo)] = CopyOf(work, Step)
        /\ \A name \in BackupNames : name # BackupOf(Step, run.undo) => work'.bak[name] = work.bak[name]
    BY <1>0, <1>4 DEF Databases
  <1>6. ASSUME NEW t, NEW c, Saved(t, c)  PROVE Saved(t, c)'
    <2>1. \A name \in BackupNames : BackedUp(work, name) => work'.bak[name] = work.bak[name]
      BY <1>1, <1>5
    <2>2. QED  BY <1>1, <1>2, <1>3, <1>6, <2>1, SavedStays
  <1>7. LostAreSaved'
    BY <1>1, <1>3, <1>4, <1>6 DEF DropsAreSaved, LostAreSaved, HasColumn
  <1>8. LostKeysAreSaved'
    <2>1. \A t \in Tables : PkColumns(work', t) = PkColumns(work, t)
      BY <1>4 DEF PkColumns
    <2>2. ASSUME NEW t, AllSaved(t)  PROVE AllSaved(t)'
      BY <1>1, <1>6, <2>2 DEF AllSaved
    <2>3. QED  BY <1>1, <2>1, <2>2 DEF DropsAreSaved, LostKeysAreSaved
  <1>9. Backup(work', Step) = Backup(work, Step)
    BY <1>4 DEF Backup, PkColumns, HasColumn
  <1>10. CopyOf(work', Step) = CopyOf(work, Step)
    BY <1>4, <1>9 DEF CopyOf
  <1>11. CopyIsCurrent'
    BY <1>1, <1>2, <1>3, <1>5, <1>10 DEF CopyIsCurrent
  <1>12. QED  BY <1>7, <1>8, <1>11 DEF DropsAreSaved

LEMMA ChangeSaved ==
  ASSUME TypeOK, FromDecisions, Undisturbed, DropsAreSaved, ChangeStep
  PROVE  DropsAreSaved'
  <1> DEFINE keys == IF Step.kind = "modify_column" THEN run.keys \cup DroppedKeys(work, Step)
                                                    ELSE run.keys
             replay == IF Step.kind \in {"restore_table", "restore_column"}
                         THEN run.replay \cup {Step.num} ELSE run.replay
             r == [run EXCEPT !.keys = keys, !.replay = replay]
  <1>0. /\ AtChange /\ run.phase = "apply" /\ run.at \notin run.skip /\ CanChange(work, Step)
        /\ work' = Changed(work, Step) /\ db' = db /\ script' = script /\ run' = Advance(r)
    BY DEF ChangeStep, AtChange, Applying
  <1>1. keys \in SUBSET Dependents /\ replay \in SUBSET Numbers
    BY AtStep, DroppedKeysType, StepFields DEF Runs
  <1> HIDE DEF keys, replay
  <1>2. r \in Runs /\ r.at = run.at /\ r.phase = run.phase /\ r.skip = run.skip /\ r.undo = run.undo
    BY <1>1, AtStep DEF Runs
  <1> HIDE DEF r
  <1>3. /\ run'.undo = run.undo /\ ~run'.copied /\ AllSteps' = AllSteps
        /\ Performed' = Performed \cup ({run.at} \ run.skip)
    BY <1>0, <1>2, Advances
  <1>4. /\ \A t \in Tables, c \in Columns :
              HasColumn(db, t, c) /\ ~HasColumn(work', t, c) => Saved(t, c)'
        /\ \A t \in Tables : PkColumns(work', t) = PkColumns(db, t) \/ AllSaved(t)'
    BY <1>0, <1>3, ChangeSaves DEF DropsAreSaved
  <1>5. QED
    BY <1>0, <1>3, <1>4 DEF DropsAreSaved, LostAreSaved, LostKeysAreSaved, CopyIsCurrent

LEMMA AdditionSaved ==
  ASSUME TypeOK, DropsAreSaved, script' = script, db' = db, run.phase \in {"keys", "replay"},
         NEW p \in {"replay", "verify"}, run' = [run EXCEPT !.phase = p],
         NEW X, work' = AddAll(work, X)
  PROVE  DropsAreSaved'
  <1>1. work'.cols = work.cols /\ work'.bak = work.bak
    BY DEF TypeOK, AddAll, Databases
  <1>2. /\ run'.phase = p /\ run'.undo = run.undo /\ run'.copied = run.copied
        /\ AllSteps' = AllSteps /\ Active /\ Performed' = Performed
    BY Continues
  <1>3. \A t, c : Saved(t, c) => Saved(t, c)'
    BY <1>1, <1>2, SavedStays
  <1>4. LostAreSaved'
    BY <1>1, <1>2, <1>3 DEF DropsAreSaved, LostAreSaved, HasColumn
  <1>5. QED
    BY <1>2, <1>4 DEF DropsAreSaved, LostKeysAreSaved, CopyIsCurrent

LEMMA NextSaved ==
  ASSUME MaxWrites = 0, TypeOK, Settled, FromDecisions, Undisturbed, DropsAreSaved, [Next]_vars
  PROVE  DropsAreSaved'
  <1>0. run \in Runs /\ work \in Databases /\ db \in Databases /\ used.writes \in Nat /\ Step \in Steps
    BY AtStep DEF TypeOK
  <1>1. ASSUME NEW undo \in BOOLEAN, Start(undo)  PROVE DropsAreSaved'
    BY <1>1 DEF Start, Idle, DropsAreSaved, LostAreSaved, LostKeysAreSaved, CopyIsCurrent, Active
  <1>2. CASE Refuse \/ StatementFails \/ VerifyFails \/ Interrupt \/ LockTimeout
    BY <1>2, RollBackSaved DEF Refuse, StatementFails, VerifyFails, Interrupt, LockTimeout
  <1>3. CASE CheckStep
    <2>1. work' = db' /\ run'.copied = run.copied /\ ~run.copied
      BY <1>0, <1>3 DEF CheckStep, Settled, DropsAreSaved, CopyIsCurrent, Runs
    <2>2. QED
      BY <2>1 DEF DropsAreSaved, LostAreSaved, LostKeysAreSaved, CopyIsCurrent
  <1>4. CASE SkipStep
    <2>1. /\ run'.phase \in {"apply", "keys"} /\ run'.undo = run.undo /\ ~run'.copied
          /\ AllSteps' = AllSteps /\ Active
          /\ Performed' = Performed \cup ({run.at} \ run.skip)
          /\ UNCHANGED <<script, db, work>> /\ run.phase = "apply"
      BY <1>0, <1>4, Advances DEF SkipStep
    <2>2. \A t, c : Saved(t, c) => Saved(t, c)'
      BY <2>1, SavedStays
    <2>3. \A t : AllSaved(t) => AllSaved(t)'
      BY <2>1, <2>2 DEF AllSaved
    <2>4. QED
      BY <2>1, <2>2, <2>3 DEF DropsAreSaved, LostAreSaved, LostKeysAreSaved, CopyIsCurrent
  <1>5. CASE RecreateKeys
    BY <1>5, AdditionSaved DEF RecreateKeys
  <1>6. CASE Replay
    BY <1>6, AdditionSaved DEF Replay
  <1>7. CASE Commit
    BY <1>7 DEF Commit, Idle, DropsAreSaved, LostAreSaved, LostKeysAreSaved, CopyIsCurrent, Active
  <1>8. CASE \E t \in Tables : Write(t) \/ Hold(t) \/ Release(t)
    <2>1. \A t \in Tables : ~Write(t)
      BY <1>0 DEF Write
    <2>2. UNCHANGED <<script, db, work, run>>
      BY <1>8, <2>1 DEF Hold, Release
    <2>3. QED
      BY <2>2 DEF DropsAreSaved, LostAreSaved, LostKeysAreSaved, CopyIsCurrent, AllSaved, Saved, Saves,
                  Loses, Modifying, Performed, Active, AllSteps, Step
  <1>9. CASE \/ \E b \in BackupNames : RemoveBackup(b)
             \/ \E u \in BOOLEAN : RemoveJournal(u)
    BY <1>9, CleanUpKeeps DEF DropsAreSaved, LostAreSaved, LostKeysAreSaved, CopyIsCurrent, Active
  <1>10. CASE UNCHANGED vars
    <2>1. UNCHANGED <<script, db, work, run>>
      BY <1>10 DEF vars
    <2>2. QED
      BY <2>1 DEF DropsAreSaved, LostAreSaved, LostKeysAreSaved, CopyIsCurrent, AllSaved, Saved, Saves,
                  Loses, Modifying, Performed, Active, AllSteps, Step
  <1>11. QED
    BY <1>1, <1>2, <1>3, <1>4, <1>5, <1>6, <1>7, <1>8, <1>9, <1>10, CopySaved, ChangeSaved
    DEF Next, ScriptStep

(* Every column or table that a script, or its undo, removes while nobody   *)
(* else writes is, with every value committed in it and the key of its row, *)
(* in a backup of that script.                                              *)
THEOREM DropsHaveBackups ==
  ASSUME MaxWrites = 0
  PROVE  Spec => DropsAreBackedUp
  <1>1. Init => Undisturbed /\ FromDecisions /\ DropsAreSaved
    BY InitUndisturbed, NothingLost DEF Init, Idle
  <1>2. TypeOK /\ OnlyLockedTablesDiffer /\ Undisturbed /\ FromDecisions /\ DropsAreSaved /\ [Next]_vars
          => Undisturbed' /\ FromDecisions' /\ DropsAreSaved'
    BY NextUndisturbed, NextFromDecisions, NextSaved, ConfinedIs
  <1>3. ASSUME TypeOK, DropsAreSaved, [Next]_vars, Committing,
               NEW t \in Tables, NEW c \in Columns, Dropped(t, c)
        PROVE  BackupHolds(t, c)
    <2>1. db' = work /\ Verified /\ run.phase = "verify"
      BY <1>3, OnlyCommitCommits DEF Commit
    <2>2. Saved(t, c)
      BY <1>3, <2>1 DEF DropsAreSaved, LostAreSaved, Active, Dropped
    <2>3. Modifying(t, c) = {}
      <3>1. ASSUME NEW n \in Modifying(t, c)  PROVE FALSE
        <4>1. /\ n \in 1 .. Len(script) /\ AllSteps[n].kind = "modify_column"
              /\ AllSteps[n].tbl = t /\ AllSteps[n].col = c
          BY <3>1 DEF Modifying, Performed
        <4>2. HasColumn(work, t, c)
          BY <2>1, <4>1 DEF Verified, Goal, ColumnIs
        <4>3. QED  BY <1>3, <2>1, <4>2 DEF Dropped
      <3>2. QED  BY <3>1
    <2>4. QED  BY <2>1, <2>2, <2>3 DEF Saved, Saves, BackupHolds, KeptIn
  <1>4. TypeOK /\ DropsAreSaved /\ [Next]_vars
          => [Committing => \A t \in Tables, c \in Columns : Dropped(t, c) => BackupHolds(t, c)]_vars
    BY <1>3
  <1>5. QED
    BY <1>1, <1>2, <1>4, TypeCorrect, RollBackIsSafe, PTL DEF Spec, DropsAreBackedUp
====================================================================================
