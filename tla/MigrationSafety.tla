----------------------------- MODULE MigrationSafety -----------------------------
(****************************************************************************)
(* What must hold of MigrationScript.                                       *)
(****************************************************************************)
EXTENDS MigrationScript

(* Every variable has its type.                                             *)
TypeOK ==
  /\ script \in Seq(Steps) /\ Len(script) \in Numbers
  /\ db \in Databases /\ work \in Databases
  /\ run \in Runs /\ run.at \in 1 .. Len(script)
  /\ locked \subseteq Tables /\ busy \subseteq Tables
  /\ past \in Histories
  /\ used \in [runs: Nat, writes: Nat, holds: Nat, cleanups: Nat]

(* The script's uncommitted changes are confined to tables it holds locked, *)
(* and there are none before every check has passed: rolling back can lose  *)
(* nobody's committed row, and nobody can have seen a half-made change.     *)
OnlyLockedTablesDiffer ==
  /\ run.phase \in {"idle", "check"} => work = db
  /\ \A t \in Tables \ locked : work.cols[t] = db.cols[t] /\ work.rows[t] = db.rows[t]
  /\ \A x \in Dependents : (x \in work.deps) # (x \in db.deps) => Ends({x}) \subseteq locked

ScriptTables == {script[n].tbl : n \in 1 .. Len(script)}

(* The script implements its promise to the other sessions.                 *)
Promise == INSTANCE AtomicScript
             WITH names <- IF Running THEN ScriptTables ELSE {}
PromiseKept == Promise!Spec

Committing == run.phase = "verify" /\ run'.phase = "idle" /\ past'.outcome = "committed"
Dropped(t, c) == HasColumn(db, t, c) /\ ~HasColumn(db', t, c)

(* A step that may change values it is not asked about: the user accepted   *)
(* the loss, or the code does not see it, since the new type rounds what    *)
(* the comparison did not see, what no row is asked about (datetime to      *)
(* datetime2(0), and types that the query cannot convert) or what was text  *)
(* and is only asked whether it converts.                                   *)
LossGoesUnseen(s) ==
  /\ s.target.type \in Rounding
  /\ \/ s.observed.type = 0
     \/ /\ s.target.type < s.observed.type
        /\ ~MayLoseData(s) \/ s.observed.type \in Texts
Lossy(s) == s.accept \/ LossGoesUnseen(s)
Loses(steps, t, c) ==
  \E n \in 1 .. Len(script) : /\ steps[n].kind = "modify_column" /\ Lossy(steps[n])
                              /\ steps[n].tbl = t /\ steps[n].col = c

(* "Antes de cada eliminacion copia los datos" (README.md:112): when a      *)
(* commit removes a table or a column, every value the other sessions had   *)
(* committed there is in one of the script's backups of that table, beside  *)
(* the key of its row, as it was or as the same script's loss of data has   *)
(* left it.                                                                 *)
KeptIn(name, t, c) ==
  LET pk == PkColumns(db, t)
      bak == db'.bak[name]
  IN /\ pk \cup {c} \subseteq bak.cols
     /\ \A r \in DOMAIN db.rows[t] :
          /\ r \in DOMAIN bak.rows /\ bak.rows[r][c] = db.rows[t][r][c]
          /\ \A k \in pk : bak.rows[r][k] = db.rows[t][r][k] \/ Loses(AllSteps, t, k)
BackupHolds(t, c) ==
  \E name \in BackupNames :
    name[1] = Bare[t] /\ name[3] = run.undo /\ KeptIn(name, t, c)
DropsAreBackedUp ==
  [][Committing => \A t \in Tables, c \in Columns : Dropped(t, c) => BackupHolds(t, c)]_vars

(* "comprueba antes [...] que no se pierden datos" (README.md:110): a value *)
(* of a column that survives is unchanged by a commit, except where a step  *)
(* of the script may lose it.                                               *)
NoSilentLoss ==
  [][Committing =>
       \A t \in Tables, c \in Columns : \A r \in (DOMAIN db.rows[t]) \cap DOMAIN db'.rows[t] :
         \/ db.rows[t][r][c] \in {Null, db'.rows[t][r][c]}
         \/ Dropped(t, c) \/ Loses(AllSteps, t, c)]_vars

(* "recrea indices y restricciones afectados" (README.md:112): a commit of  *)
(* the forward script loses a dependent only with a table or column it      *)
(* drops, or a default it was asked to change.                              *)
DependentsSurvive ==
  [][Committing /\ ~run.undo =>
       \A x \in db.deps \ db'.deps : \E n \in 1 .. Len(script) :
         \/ script[n].kind = "drop_table" /\ OnTable(x, script[n].tbl)
         \/ script[n].kind = "drop_column" /\ OnColumn(x, script[n].tbl, script[n].col)
         \/ /\ script[n].kind = "modify_column" /\ DefaultChanges(script[n])
            /\ x.kind = "default" /\ OnColumn(x, script[n].tbl, script[n].col)]_vars

(* "ejecutarlo dos veces no cambia nada la segunda": committing a script,   *)
(* or its undo, right after it was committed leaves the database as it is.  *)
RerunChangesNothing ==
  [][Committing /\ past.state = (IF run.undo THEN "undone" ELSE "applied") => db' = db]_vars

(* A step meets its object as the comparison saw it.                        *)
AsCompared(d, s) ==
  CASE s.kind = "create_table" -> ~Exists(d, s.tbl)
    [] s.kind = "add_column"   -> ~HasColumn(d, s.tbl, s.col)
    [] s.kind = "drop_table"   -> TableIs(d, s.tbl, s.table)
    [] OTHER                   -> ColumnIs(d, s.tbl, s.col, s.observed)
NoDrift(d) == \A n \in 1 .. Len(script) : AsCompared(d, script[n])

(* On a database that is as it was compared, passing every check is enough: *)
(* no statement fails and every step is verified, of the script and of its  *)
(* undo, unless somebody else interferes or the decisions cannot be carried *)
(* out.  The decision screen lets a user drop a table and change one of its *)
(* columns, decide twice about one column, drop every column of a table,    *)
(* lose data of a column that a key, unique index or check is on, let a     *)
(* primary key's column hold NULL, retype one end of a foreign key only, or *)
(* fill a column with a value that its foreign key, unique index or check   *)
(* refuses.  Nor do the checks ask for a schema-bound object on a dropped   *)
(* table, a second IDENTITY column, a default that does not fit its new     *)
(* column, a fill value that the column's old type refuses, a value that    *)
(* the new type refuses though its loss was accepted or not asked for, two  *)
(* drops whose backups would have one name, or a unique index on a dropped  *)
(* column whose values the undo script cannot bring back.                   *)
Contradictory ==
  \E m, n \in 1 .. Len(script) :
    /\ m # n /\ script[m].tbl = script[n].tbl
    /\ script[m].kind \in {"create_table", "drop_table"} \/ script[m].col = script[n].col
EmptiesTable(d) ==
  \E t \in Tables :
    /\ Exists(d, t)
    /\ \A c \in Columns : HasColumn(d, t, c) =>
         \E n \in 1 .. Len(script) :
           script[n].kind = "drop_column" /\ script[n].tbl = t /\ script[n].col = c
CutsKey(d) ==
  \E x \in d.deps, c \in Columns : /\ x.kind \in {"pk", "fk", "unique", "check"}
                                  /\ OnColumn(x, x.tbl, c) /\ Loses(script, x.tbl, c)
ChangesOf(t, c) ==
  {n \in 1 .. Len(script) : /\ script[n].kind = "modify_column"
                            /\ script[n].tbl = t /\ script[n].col = c}
NullsKey(d) ==
  \E t \in Tables : \E c \in PkColumns(d, t) : \E n \in ChangesOf(t, c) : script[n].target.null
TypesAfter(d, t, c) ==
  IF ChangesOf(t, c) = {} THEN {d.cols[t][c].type}
                          ELSE {script[n].target.type : n \in ChangesOf(t, c)}
SplitsReference(d) ==
  \E x \in Keys(d.deps) : \E c \in x.cols, e \in x.refcols :
    TypesAfter(d, x.tbl, c) # TypesAfter(d, x.ref, e)
FillOf(d, s) == Altered(d.cols[s.tbl][s.col].type, s, Null)
FillsReference(d) ==
  \E x \in Keys(d.deps) : \E c \in x.cols, e \in x.refcols : \E n \in ChangesOf(x.tbl, c) :
    /\ FillsNulls(script[n]) /\ Null \in Column(d.rows[x.tbl], c)
    /\ FillOf(d, script[n]) \notin Column(d.rows[x.ref], e)
(* The fill equals a value that is there, or one that the check refuses.    *)
FillsConstraint(d) ==
  \E x \in d.deps : \E c \in x.cols : \E n \in ChangesOf(x.tbl, c) :
    /\ FillsNulls(script[n]) /\ Null \in Column(d.rows[x.tbl], c)
    /\ \/ x.kind = "unique" /\ FillOf(d, script[n]) \in Column(d.rows[x.tbl], c) \ {Null}
       \/ x.kind = "check" /\ FillOf(d, script[n]) = x.val
RefusesFill(d) ==
  \E n \in 1 .. Len(script) :
    LET s == script[n]
        old == d.cols[s.tbl][s.col].type
    IN /\ s.kind = "modify_column" /\ FillsNulls(s) /\ Null \in Column(d.rows[s.tbl], s.col)
       /\ ~CanAlter(old, s, Null)
(* ALTER COLUMN is left to decide.                                          *)
RefusesValue(d) ==
  \E n \in 1 .. Len(script) :
    LET s == script[n]
    IN /\ s.kind = "modify_column" /\ Alters(s) /\ (s.accept \/ ~MayLoseData(s))
       /\ \E v \in Column(d.rows[s.tbl], s.col) : ~Stores(v, s.target.type)
DropsBound(d) ==
  \E n \in 1 .. Len(script) : /\ script[n].kind = "drop_table"
                              /\ \E x \in d.deps : x.kind = "bound" /\ x.tbl = script[n].tbl
AddsIdentity(n, t) ==
  script[n].kind = "add_column" /\ script[n].target.ident /\ script[n].tbl = t
SecondIdentity(d) ==
  \E n \in 1 .. Len(script), t \in Tables :
    /\ AddsIdentity(n, t)
    /\ \/ \E m \in (1 .. Len(script)) \ {n} : AddsIdentity(m, t)
       \/ \E c \in Columns :
            /\ HasColumn(d, t, c) /\ d.cols[t][c].ident
            /\ ~\E m \in 1 .. Len(script) :
                 script[m].kind = "drop_column" /\ script[m].tbl = t /\ script[m].col = c
MisfitsColumn ==
  \E n \in 1 .. Len(script) :
    /\ script[n].kind = "add_column"
    /\ ~Stores(NewValue(script[n]), script[n].target.type)
SharesBackup ==
  \E m, n \in 1 .. Len(script) :
    /\ script[m].tbl # script[n].tbl /\ script[m].kind = script[n].kind
    /\ script[m].kind \notin {"create_table", "drop_table"} => script[m].col = script[n].col
    /\ Bare[script[m].tbl] = Bare[script[n].tbl]
(* A dropped column finds its rows again by the primary key its backup      *)
(* holds: not when there is none, or the script drops or cuts one of its    *)
(* columns.                                                                 *)
LossyColumns == {p \in Tables \X Columns : Loses(script, p[1], p[2])}
DroppedColumns ==
  {<<script[n].tbl, script[n].col>> :
     n \in {m \in 1 .. Len(script) : script[m].kind = "drop_column"}}
KeepsKey(d, t) ==
  LET pk == PkColumns(d, t)
  IN pk # {} /\ \A k \in pk : <<t, k>> \notin DroppedColumns \cup LossyColumns
DropsUnique(d) ==
  \E x \in d.deps : \E c \in x.cols :
    x.kind = "unique" /\ <<x.tbl, c>> \in DroppedColumns /\ ~KeepsKey(d, x.tbl)
Unforeseen(d) ==
  \/ Contradictory \/ EmptiesTable(d) \/ CutsKey(d) \/ NullsKey(d) \/ SplitsReference(d)
  \/ FillsReference(d) \/ FillsConstraint(d) \/ RefusesFill(d) \/ RefusesValue(d)
  \/ DropsBound(d) \/ SecondIdentity(d) \/ MisfitsColumn \/ SharesBackup \/ DropsUnique(d)
Compared == IF past.state = "new" THEN db ELSE past.origin
ChecksSuffice ==
  past.outcome = "rolled_back" /\ ~past.disturbed /\ used.cleanups = 0 =>
    Unforeseen(Compared) \/ ~NoDrift(Compared)

(* The undo script leaves schema, dependents and data as they were before   *)
(* the script, if that one met what was compared and nobody else interfered. *)
(* `lost' are the columns whose values it may leave different.  An index    *)
(* that no script recreates goes with its table, as a warning at the drop   *)
(* says.                                                                    *)
DroppedTables == {script[n].tbl : n \in {m \in 1 .. Len(script) : script[m].kind = "drop_table"}}
Restores(lost) ==
  /\ \A t \in Tables, c \in Columns :
       HasColumn(db, t, c) \/ HasColumn(past.origin, t, c) =>
         db.cols[t][c] = past.origin.cols[t][c]
  /\ db.deps = {x \in past.origin.deps : x.kind \in Recreatable \/ x.tbl \notin DroppedTables}
  /\ \A t \in Tables :
       /\ DOMAIN db.rows[t] = DOMAIN past.origin.rows[t]
       /\ \A r \in DOMAIN db.rows[t], c \in Columns :
            <<t, c>> \notin lost => db.rows[t][r][c] = past.origin.rows[t][r][c]
FilledColumns ==
  {<<script[n].tbl, script[n].col>> :
     n \in {m \in 1 .. Len(script) : script[m].kind = "modify_column" /\ FillsNulls(script[m])}}
UnkeyedColumns == {p \in DroppedColumns : ~KeepsKey(past.origin, p[1])}
UndoRestores ==
  past.state = "undone" /\ NoDrift(past.origin) /\ ~past.disturbed =>
    Restores(LossyColumns \cup FilledColumns \cup UnkeyedColumns)

(* A run always ends: LOCK_TIMEOUT keeps it from waiting for ever.          *)
RunsEnd == Running ~> ~Running
------------------------------------------------------------------------------------
(* A statement of the documentation that the scripts do not keep.           *)

(* "aplicar un script [...] y despues su .deshacer.sql deja esquema,        *)
(* indices, restricciones y datos como estaban": also when a step of the    *)
(* script was already applied and it skipped it.                            *)
UndoRestoresAfterSkip ==
  /\ past.state = "undone" /\ ~past.disturbed
  /\ \A n \in 1 .. Len(script) :
       AsCompared(past.origin, script[n]) \/ Goal(past.origin, script[n])
  => Restores(LossyColumns \cup FilledColumns \cup UnkeyedColumns)

====================================================================================
