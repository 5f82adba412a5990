------------------------------- MODULE SufficeProofs -------------------------------
(****************************************************************************)
(* Passing every check is enough: ChecksSuffice, for every set of tables,   *)
(* decisions and databases, while nobody else writes.                       *)
(*                                                                          *)
(* Each condition a statement of phase 2 needs was asked of the committed   *)
(* database by a check, follows from what was compared, or is one that      *)
(* Unforeseen names.  SufficeInv, the inductive invariant, adds to UndoInv  *)
(* what carries these facts to the moment the statement is executed:        *)
(*   - foreign keys, unique indexes and checks hold at every moment         *)
(*     (References, RowsKnown);                                             *)
(*   - what a step that was carried out has done stays done, since no other *)
(*     step is about the same column (Effects);                             *)
(*   - what is missing from the copy a run works on, a step of this run has *)
(*     removed (ColumnsKnown, BackupsKnown, KeysOut);                       *)
(*   - the journal and the backups hold what is to come back, once and only *)
(*     while it is gone (JournalInv, DefaultsJournaled, BackupsLeft);       *)
(*   - the values of an applied and of an undone script (PastCells).        *)
(****************************************************************************)
EXTENDS UndoProofs

(* Every foreign key has its key, its type and its values.                  *)
ReferencesHold(d) == \A x \in d.deps : x.kind = "fk" => ReferenceHolds(d, x)
References == ReferencesHold(db) /\ ReferencesHold(work) /\ ReferencesHold(past.origin)

(* Every unique index tells its rows apart and every check accepts them.    *)
RowsHold(d) ==
  \A x \in d.deps : /\ x.kind = "unique" => Distinct(d, x.tbl, x.cols)
                    /\ x.kind = "check" => CheckHolds(d, x)
RowsKnown == RowsHold(db) /\ RowsHold(work) /\ RowsHold(past.origin)

(* The script's backups are left when it was undone.                        *)
BackupsLeft ==
  used.cleanups = 0 /\ past.state = "undone" =>
    \A n \in 1 .. Len(script) : Copies(script[n]) => BackedUp(db, BackupOf(script[n], FALSE))

(* What a run has removed, or copied.                                       *)
Copying == IF run.copied /\ run.at \notin run.skip THEN {run.at} ELSE {}
BackupsKnown ==
  Active => \A b \in BackupNames : BackedUp(work, b) =>
    \/ BackedUp(db, b)
    \/ \E m \in Performed \cup Copying :
         Copies(AllSteps[m]) /\ b = BackupOf(AllSteps[m], run.undo)
ColumnsKnown ==
  Active => \A t \in Tables, c \in Columns : HasColumn(db, t, c) =>
    \/ HasColumn(work, t, c)
    \/ \E m \in Performed : Copies(AllSteps[m]) /\ Touches(AllSteps[m], t, c)

(* A foreign key that is to be recreated is not there, and its columns are. *)
PlacedIn(d, x) ==
  /\ Exists(d, x.tbl) /\ \A c \in x.cols : HasColumn(d, x.tbl, c)
  /\ Exists(d, x.ref) /\ \A c \in x.refcols : HasColumn(d, x.ref, c)
KeysOut ==
  Running /\ run.phase \in {"apply", "keys"} /\ (run.undo => NoDrift(past.origin)) =>
    \A x \in run.keys :
      /\ x \notin work.deps /\ PlacedIn(work, x)
      /\ \E m \in Performed : AllSteps[m].kind = "modify_column"

(* What a step that was carried out has done.                               *)
CellBecomes(s) ==
  \A r \in DOMAIN work.rows[s.tbl] :
    work.rows[s.tbl][r][s.col]
      = Altered(db.cols[s.tbl][s.col].type, s, db.rows[s.tbl][r][s.col])
DefaultsOut(t, c) ==
  \A x \in DefaultsOn(work, t, c) : run.phase = "verify" /\ InJournal(work, x)
StepDone(m) ==
  LET s == AllSteps[m] IN
  /\ s.kind \notin RestoreKinds => Goal(work, s)
  /\ s.kind = "drop_column" => work.cols[s.tbl][s.col] = Stored(NoAttributes)
  /\ s.kind = "modify_column" => CellBecomes(s)
  /\ s.kind = "restore_table" => /\ work.cols[s.tbl] = MadeColumns(s)
                                 /\ \A c \in Columns : DefaultsOut(s.tbl, c)
  /\ s.kind = "restore_column" =>
       /\ work.cols[s.tbl][s.col] = Stored(s.target) /\ DefaultsOut(s.tbl, s.col)
       /\ MatchColumns(db, s) = {} =>
            \A r \in DOMAIN work.rows[s.tbl] : work.rows[s.tbl][r][s.col] = Null
Effects == ~Contradictory => \A m \in Performed : StepDone(m)
Tidy == used.cleanups = 0 /\ ~Contradictory

(* The journal holds each dependent once, and only while it is gone.        *)
JournalGone(d) == \A x \in Dependents : InJournal(d, x) => x \notin d.deps
EntriesApart(d) ==
  \A i, j \in EntryNumbers(d) : i # j => Entry(d, i).deps \cap Entry(d, j).deps = {}
JournalInv ==
  Tidy =>
    /\ past.state = "new" => EntryNumbers(db) = {}
    /\ past.state = "applied" /\ NoDrift(past.origin) => JournalGone(db) /\ EntriesApart(db)
    /\ Forward /\ Active /\ NoDrift(db) =>
         /\ JournalGone(work) /\ EntriesApart(work)
         /\ \A x \in run.keys : ~InJournal(work, x)
    /\ Undoing /\ Active /\ run.phase # "verify" /\ NoDrift(past.origin) => JournalGone(work)

(* The defaults that go with what is dropped are in the journal.            *)
DefaultsIn(d, e, s) ==
  \A x \in d.deps : x.kind = "default" /\ InScope(x, s) => InJournal(e, x)
DefaultsJournaled ==
  Tidy =>
    /\ Forward => \A m \in Performed : Copies(script[m]) => DefaultsIn(db, work, script[m])
    /\ past.state = "applied" /\ NoDrift(past.origin) =>
         \A n \in 1 .. Len(script) : Copies(script[n]) => DefaultsIn(past.origin, db, script[n])

(* The database an applied script met.                                      *)
TablesExtended ==
  past.state = "applied" /\ NoDrift(past.origin) =>
    \A n \in 1 .. Len(script) :
      script[n].kind = "add_column" => Exists(past.origin, script[n].tbl)
PastCell(s, r) ==
  LET v == past.origin.rows[s.tbl][r][s.col]
      w == db.rows[s.tbl][r][s.col]
  IN /\ past.state = "applied" => /\ w = Altered(past.origin.cols[s.tbl][s.col].type, s, v)
                                  /\ FillsNulls(s) => w # Null
     /\ past.state = "undone" => /\ w = Null => v = Null /\ ~FillsNulls(s)
                                 /\ Alters(s) => w <= s.target.type
PastCells ==
  ~Contradictory /\ past.state # "new" /\ NoDrift(past.origin) =>
    \A n \in 1 .. Len(script) : script[n].kind = "modify_column" =>
      \A r \in DOMAIN db.rows[script[n].tbl] : PastCell(script[n], r)

SufficeInv ==
  /\ UndoInv /\ References /\ RowsKnown /\ BackupsLeft /\ BackupsKnown /\ ColumnsKnown
  /\ KeysOut /\ Effects /\ JournalInv /\ DefaultsJournaled /\ TablesExtended /\ PastCells
-----------------------------------------------------------------------------------
(* No two steps are about one column, unless the decisions contradict each  *)
(* other.  Source(n) is the step of the script that step n of a run is, or  *)
(* undoes.                                                                  *)
Source(n) == IF run.undo THEN Undone(n) ELSE n
LEMMA StepSource ==
  ASSUME Known, NEW n \in 1 .. Len(script)
  PROVE  /\ Source(n) \in 1 .. Len(script) /\ script[Source(n)] \in Steps
         /\ script[Source(n)].kind \in ForwardKinds
         /\ AllSteps[n].tbl = script[Source(n)].tbl /\ AllSteps[n].col = script[Source(n)].col
         /\ AllSteps[n].kind \in TableKinds => script[Source(n)].kind \in {"create_table", "drop_table"}
  <1>1. TypeOK /\ FromDecisions
    BY DEF Known
  <1>2. CASE ~run.undo
    BY <1>1, <1>2, RunStep, ForwardStep DEF Source, TableKinds, ForwardKinds
  <1>3. CASE run.undo
    <2>1. Undone(n) \in 1 .. Len(script) /\ Undoes(AllSteps[n], script[Undone(n)], Undone(n))
      BY <1>1, <1>3, RunStep, UndoStepFacts
    <2>2. script[Undone(n)] \in Steps /\ script[Undone(n)].kind \in ForwardKinds
      BY <1>1, <2>1, ForwardStep
    <2>3. QED  BY <1>3, <2>1, <2>2 DEF Source, Undoes, TableKinds, UndoKinds
  <1>4. QED  BY <1>2, <1>3

LEMMA SourcesDiffer ==
  ASSUME Known, NEW m \in 1 .. Len(script), NEW n \in 1 .. Len(script), m # n
  PROVE  Source(m) # Source(n)
  BY DEF Source, Undone, Known, TypeOK

LEMMA StepsApart ==
  ASSUME Known, ~Contradictory, NEW m \in 1 .. Len(script), NEW n \in 1 .. Len(script), m # n,
         AllSteps[m].tbl = AllSteps[n].tbl
  PROVE  /\ AllSteps[m].col # AllSteps[n].col /\ AllSteps[m].kind \notin TableKinds
         /\ script[Source(m)].kind \notin {"create_table", "drop_table"}
  <1>1. Source(m) # Source(n)
    BY SourcesDiffer
  <1>2. /\ Source(m) \in 1 .. Len(script) /\ Source(n) \in 1 .. Len(script)
        /\ script[Source(m)].tbl = script[Source(n)].tbl
    BY StepSource
  <1>3. /\ script[Source(m)].kind \notin {"create_table", "drop_table"}
        /\ script[Source(m)].col # script[Source(n)].col
    BY <1>1, <1>2 DEF Contradictory
  <1>4. QED  BY <1>3, StepSource

(* What a step that was not carried out is about is as it was committed.    *)
LEMMA NotTouched ==
  ASSUME Known, RunFrame, ~Contradictory, NEW n \in (1 .. Len(script)) \ Performed,
         NEW t \in Tables, NEW c \in Columns, Touches(AllSteps[n], t, c)
  PROVE  SameColumn(db, work, t, c)
  <1>1. ASSUME NEW m \in Performed, Touches(AllSteps[m], t, c)
        PROVE  FALSE
    <2>1. m \in 1 .. Len(script) /\ m # n
      BY DEF Performed
    <2>2. AllSteps[m].tbl = t /\ AllSteps[n].tbl = t
      BY <1>1 DEF Touches
    <2>3. AllSteps[m].col # AllSteps[n].col
      BY <2>1, <2>2, StepsApart
    <2>4. AllSteps[m].kind \notin TableKinds
      BY <2>1, <2>2, StepsApart
    <2>5. AllSteps[n].kind \notin TableKinds
      BY <2>1, <2>2, StepsApart
    <2>6. QED  BY <1>1, <2>3, <2>4, <2>5 DEF Touches
  <1>2. \A s \in Done : ~Touches(s, t, c)
    BY <1>1 DEF Done
  <1>3. QED  BY <1>2 DEF RunFrame, Frame

LEMMA NotRetabled ==
  ASSUME Known, RunFrame, ~Contradictory, NEW n \in 1 .. Len(script),
         n \notin Performed \/ AllSteps[n].kind \notin TableKinds
  PROVE  DOMAIN work.rows[AllSteps[n].tbl] = DOMAIN db.rows[AllSteps[n].tbl]
  <1>1. ASSUME NEW m \in Performed, Retables(AllSteps[m], AllSteps[n].tbl)
        PROVE  FALSE
    <2>1. m \in 1 .. Len(script) /\ m # n
      BY <1>1 DEF Performed, Retables
    <2>2. QED  BY <1>1, <2>1, StepsApart DEF Retables
  <1>2. \A s \in Done : ~Retables(s, AllSteps[n].tbl)
    BY <1>1 DEF Done
  <1>3. AllSteps[n].tbl \in Tables
    BY StepSource DEF Steps
  <1>4. QED  BY <1>2, <1>3 DEF RunFrame, Frame

(* The step a run has come to was checked, and meets what was committed.    *)
LEMMA AtApply ==
  ASSUME UndoInv, Applying
  PROVE  /\ TypeOK /\ FromDecisions /\ Active /\ Running /\ run.phase = "apply"
         /\ run.at \in 1 .. Len(script) /\ run.at \notin Performed /\ Step = AllSteps[run.at]
         /\ Step \in Steps /\ Step.tbl \in Tables /\ Step.col \in Columns
         /\ Check(db, Step, run.undo) = "go" /\ Step.kind # "unsupported"
         /\ Forward \/ Undoing \/ Again
         /\ Known /\ RunFrame
         /\ db \in Databases /\ work \in Databases /\ past.origin \in Databases
  <1>1. /\ TypeOK /\ FromDecisions /\ run.phase = "apply" /\ Active /\ Running
        /\ run.at \in 1 .. Len(script) /\ ChecksPassed /\ Known /\ RunFrame
        /\ Running /\ run.undo => past.state # "new"
    BY DEF UndoInv, ToRecreateKnown, UndoStarted, Known, Undisturbed, Applying, Active, Running, TypeOK
  <1>2. Step = AllSteps[run.at] /\ Step \in Steps /\ Check(db, Step, run.undo) = "go"
    BY <1>1, AtStep, StepChecked DEF Step
  <1>3. Step.tbl \in Tables /\ Step.col \in Columns
    BY <1>2 DEF Steps
  <1>4. run.at \notin Performed
    BY <1>1 DEF Performed, TypeOK
  <1>5. past.state \in {"new", "applied", "undone"} /\ past.origin \in Databases
    BY <1>1 DEF TypeOK, Histories
  <1>6. Step.kind # "unsupported"
    BY <1>2, UnsupportedAborts
  <1>7. QED
    BY <1>1, <1>2, <1>3, <1>4, <1>5, <1>6 DEF Forward, Undoing, Again, TypeOK

LEMMA AtScope ==
  ASSUME UndoInv, ~Contradictory, Applying
  PROVE  /\ \A t \in Tables, c \in Columns : Touches(Step, t, c) => SameColumn(db, work, t, c)
         /\ DOMAIN work.rows[Step.tbl] = DOMAIN db.rows[Step.tbl]
         /\ SameColumn(db, work, Step.tbl, Step.col)
  <1>1. /\ run.at \in (1 .. Len(script)) \ Performed /\ Step = AllSteps[run.at]
        /\ Step.tbl \in Tables /\ Step.col \in Columns /\ Known /\ RunFrame
    BY AtApply
  <1>2. \A t \in Tables, c \in Columns : Touches(Step, t, c) => SameColumn(db, work, t, c)
    BY <1>1, NotTouched
  <1>3. DOMAIN work.rows[Step.tbl] = DOMAIN db.rows[Step.tbl]
    BY <1>1, NotRetabled
  <1>4. QED  BY <1>1, <1>2, <1>3 DEF Touches

-----------------------------------------------------------------------------------
(* Foreign keys.  One that stays keeps its columns and the key it is to.    *)
LEMMA ReferenceColumn ==
  ASSUME TypeOK, FromDecisions, CanChange(work, Step), NEW x \in work.deps,
         x \in Changed(work, Step).deps, x.kind = "fk",
         NEW t \in Tables, NEW c \in Columns, OnColumn(x, t, c), HasColumn(work, t, c)
  PROVE  /\ Changed(work, Step).cols[t][c] = work.cols[t][c]
         /\ Column(Changed(work, Step).rows[t], c) = Column(work.rows[t], c)
  <1> DEFINE e == Changed(work, Step)
  <1>1. work \in Databases /\ Step \in Steps
    BY AtStep
  <1>2. ~Drops(Step, e, t, c)
    BY StaysOn, OnColumnOnTable DEF Drops, Copies
  <1>3. ~Makes(Step, work, t, c)
    BY DEF Makes
  <1>4. ASSUME Alter(Step, work, e, t, c)
        PROVE  Keeps(work, e, t, c)
    <2>1. Step.kind = "modify_column" /\ t = Step.tbl /\ c = Step.col
      BY <1>4 DEF Alter
    <2>2. e.deps = AlteredDeps(work, Step)
      BY <1>1, <2>1, ModifyColumnShape DEF Changed
    <2>3. ~Alters(Step)
      <3>1. x \notin Keys(AlterDependents(work, Step))
        BY <2>2 DEF AlteredDeps
      <3>2. x \in ColumnDependents(work, Step)
        BY <2>1 DEF ColumnDependents, Recreatable
      <3>3. QED  BY <3>1, <3>2 DEF Keys, AlterDependents
    <2>4. e.cols[t][c] = work.cols[t][c] /\ DOMAIN e.rows[t] = DOMAIN work.rows[t]
      BY <1>4, <2>1, <2>3 DEF Alter, AlteredColumn
    <2>5. \A r \in DOMAIN work.rows[t] : e.rows[t][r][c] = work.rows[t][r][c]
      BY <1>4, <2>3 DEF Alter, Altered
    <2>6. QED  BY <2>4, <2>5 DEF Keeps
  <1>5. Keeps(work, e, t, c)
    BY <1>2, <1>3, <1>4, ChangeDoes
  <1>6. QED  BY <1>5 DEF Keeps, Column

LEMMA ChangeReferences ==
  ASSUME TypeOK, FromDecisions, Placed(work), CanChange(work, Step), ReferencesHold(work)
  PROVE  ReferencesHold(Changed(work, Step))
  <1> DEFINE e == Changed(work, Step)
  <1> SUFFICES ASSUME NEW x \in e.deps, x.kind = "fk"
               PROVE  ReferenceHolds(e, x)
    BY DEF ReferencesHold
  <1>1. work \in Databases /\ e \in Databases /\ work.deps \subseteq Dependents
    BY AtStep, ChangedType DEF Databases
  <1>2. x \in work.deps /\ ReferenceHolds(work, x)
    BY ChangedDeps DEF ReferencesHold
  <1>3. /\ x.tbl \in Tables /\ x.ref \in Tables /\ x.cols \subseteq Columns
        /\ x.refcols \subseteq Columns
    BY <1>1, <1>2, DependentType DEF DependentRecords
  <1>4. /\ \A c \in x.cols : HasColumn(work, x.tbl, c)
        /\ \A c \in x.refcols : HasColumn(work, x.ref, c)
    BY <1>2 DEF Placed
  <1>5. /\ \A c \in x.cols : /\ e.cols[x.tbl][c] = work.cols[x.tbl][c]
                             /\ Column(e.rows[x.tbl], c) = Column(work.rows[x.tbl], c)
        /\ \A c \in x.refcols : /\ e.cols[x.ref][c] = work.cols[x.ref][c]
                                /\ Column(e.rows[x.ref], c) = Column(work.rows[x.ref], c)
    BY <1>2, <1>3, <1>4, ReferenceColumn DEF OnColumn
  <1>6. PkColumns(e, x.ref) = PkColumns(work, x.ref)
    <2>1. ASSUME NEW y \in work.deps, y.kind = "pk", y.tbl = x.ref, y \notin e.deps
          PROVE  FALSE
      <3>1. y.cols \subseteq x.refcols
        BY <1>2, <2>1 DEF ReferenceHolds, PkColumns
      <3>2. \/ Step.kind = "drop_table" /\ x.ref = Step.tbl
            \/ Step.kind = "drop_column" /\ x.ref = Step.tbl /\ Step.col \in x.refcols
        BY <2>1, <3>1, ChangedDeps
      <3>3. QED  BY <1>2, <3>2, StaysOn DEF OnTable, OnColumn
    <2>2. \A y : y.kind = "pk" /\ y.tbl = x.ref => (y \in e.deps <=> y \in work.deps)
      BY <2>1, ChangedDeps
    <2>3. QED  BY <2>2, SamePk
  <1>7. QED  BY <1>2, <1>5, <1>6 DEF ReferenceHolds

(* Adding dependents, none of them there before, gives no table a key it    *)
(* has already.                                                             *)
LEMMA AddAllReferences ==
  ASSUME NEW d \in Databases, NEW X \in SUBSET Dependents, ReferencesHold(d), CanAddAll(d, X)
  PROVE  ReferencesHold(AddAll(d, X))
  <1> DEFINE e == AddAll(d, X)
  <1>1. e.cols = d.cols /\ e.rows = d.rows /\ e.deps = d.deps \cup X /\ d.deps \subseteq Dependents
    BY DEF AddAll, Databases
  <1> SUFFICES ASSUME NEW x \in e.deps, x.kind = "fk"
               PROVE  ReferenceHolds(e, x)
    BY DEF ReferencesHold
  <1>2. CASE x \in X
    BY <1>2 DEF CanAddAll, Addable
  <1>3. CASE x \in d.deps
    <2>1. ReferenceHolds(d, x)
      BY <1>3 DEF ReferencesHold
    <2>2. PICK z \in d.deps : z.kind = "pk" /\ z.tbl = x.ref
      <3>1. PkColumns(d, x.ref) # {}
        BY <1>1, <1>3, <2>1, ReferenceColumns DEF ReferenceHolds
      <3>2. QED  BY <3>1 DEF PkColumns
    <2>3. ASSUME NEW y \in X, y.kind = "pk", y.tbl = x.ref
          PROVE  FALSE
      <3>1. Addable(e, y) /\ y \notin d.deps
        BY <2>3 DEF CanAddAll
      <3>2. z = y
        BY <1>1, <2>2, <2>3, <3>1 DEF Addable
      <3>3. QED  BY <2>2, <3>1, <3>2
    <2>4. PkColumns(e, x.ref) = PkColumns(d, x.ref)
      BY <1>1, <2>3, SamePk
    <2>5. QED  BY <1>1, <2>1, <2>4 DEF ReferenceHolds
  <1>4. QED  BY <1>1, <1>2, <1>3

LEMMA ReferencesBySchema ==
  ASSUME NEW d, NEW e, e.cols = d.cols, e.rows = d.rows, e.deps = d.deps, ReferencesHold(d)
  PROVE  ReferencesHold(e)
  <1>1. \A t : PkColumns(e, t) = PkColumns(d, t)
    BY DEF PkColumns
  <1>2. QED  BY <1>1 DEF ReferencesHold, ReferenceHolds

LEMMA NextReferences ==
  ASSUME MaxWrites = 0, UndoInv, References, [Next]_vars
  PROVE  References'
  <1>0. TypeOK /\ TypeOK' /\ Settled /\ RunStart /\ FromDecisions /\ Placed(work)
    BY NextType DEF UndoInv, Known, CoherentRun, Coherent
  <1>1. CASE Stays \/ Blanks
    <2>1. db' = db /\ (work' = work \/ work' = db) /\ past'.origin = past.origin
      BY <1>0, <1>1, StaysDoes, BlanksDoes
    <2>2. QED  BY <2>1 DEF References
  <1>2. CASE SkipStep \/ CopyStep
    <2>1. /\ db' = db /\ past' = past
          /\ work'.cols = work.cols /\ work'.rows = work.rows /\ work'.deps = work.deps
      BY <1>0, <1>2, SkipDoes, CopyDoes DEF SameRest
    <2>2. QED  BY <2>1, ReferencesBySchema DEF References
  <1>3. CASE ChangeStep
    <2>1. db' = db /\ past' = past /\ work' = Changed(work, Step) /\ CanChange(work, Step)
      BY <1>0, <1>3, ChangeStepDoes DEF SameRest
    <2>2. QED  BY <1>0, <2>1, ChangeReferences DEF References
  <1>4. CASE RecreateKeys \/ Replay
    <2>1. /\ db' = db /\ past' = past /\ work' = AddAll(work, Recreated)
          /\ CanAddAll(work, Recreated) /\ Recreated \in SUBSET Dependents /\ work \in Databases
      BY <1>0, <1>4, AdditionDoes DEF SameRest, TypeOK
    <2>2. QED  BY <2>1, AddAllReferences DEF References
  <1>5. CASE Commit
    <2>1. db' = work /\ work' = work /\ past'.origin \in {past.origin, db}
      BY <1>0, <1>5, CommitDoes
    <2>2. QED  BY <2>1 DEF References
  <1>6. CASE CleansUp
    <2>1. /\ past' = past /\ work' = db'
          /\ db'.cols = db.cols /\ db'.rows = db.rows /\ db'.deps = db.deps
      BY <1>0, <1>6, CleansUpDoes
    <2>2. QED  BY <2>1, ReferencesBySchema DEF References
  <1>7. QED  BY <1>0, <1>1, <1>2, <1>3, <1>4, <1>5, <1>6, NextDoes

LEMMA InitReferences ==
  ASSUME Init
  PROVE  References
  <1>1. work = db /\ past.origin = db /\ db \in InitialDbs /\ db \in Databases
    BY ScriptAssumption DEF Init
  <1>2. ASSUME NEW x \in db.deps, x.kind = "fk"
        PROVE  ReferenceHolds(db, x)
    <2>1. x.tbl \in Tables /\ OnTable(x, x.tbl)
      BY <1>1, <1>2, DependentType DEF Databases, DependentRecords, OnTable
    <2>2. Addable([db EXCEPT !.rows[x.tbl] = db.rows[x.tbl]], x)
      BY <1>1, <2>1, DatabaseAssumption DEF Legal
    <2>3. [db EXCEPT !.rows[x.tbl] = db.rows[x.tbl]] = db
      BY <1>1, <2>1 DEF Databases
    <2>4. QED  BY <1>2, <2>2, <2>3 DEF Addable
  <1>3. QED  BY <1>1, <1>2 DEF References, ReferencesHold

-----------------------------------------------------------------------------------
(* Unique indexes and checks.  One that stays without being recreated keeps *)
(* the values of its columns.                                               *)
LEMMA ConstraintColumn ==
  ASSUME TypeOK, FromDecisions, CanChange(work, Step), NEW x \in work.deps,
         x \in Changed(work, Step).deps, x.kind \in {"unique", "check"},
         Step.kind = "modify_column" => x \notin AlterDependents(work, Step),
         x.tbl \in Tables, NEW c \in Columns, c \in x.cols, HasColumn(work, x.tbl, c)
  PROVE  \A r \in DOMAIN work.rows[x.tbl] :
           Changed(work, Step).rows[x.tbl][r][c] = work.rows[x.tbl][r][c]
  <1> DEFINE e == Changed(work, Step)
  <1>1. work \in Databases /\ Step \in Steps
    BY AtStep
  <1>2. ~Drops(Step, e, x.tbl, c)
    BY StaysOn DEF Drops, Copies, OnTable, OnColumn
  <1>3. ~Makes(Step, work, x.tbl, c)
    BY DEF Makes
  <1>4. ASSUME Alter(Step, work, e, x.tbl, c), NEW r \in DOMAIN work.rows[x.tbl]
        PROVE  e.rows[x.tbl][r][c] = work.rows[x.tbl][r][c]
    <2> DEFINE v == work.rows[x.tbl][r][c]
               old == work.cols[x.tbl][c].type
    <2>1. Step.kind = "modify_column" /\ x.tbl = Step.tbl /\ c = Step.col
          /\ e.rows[x.tbl][r][c] = Altered(old, Step, v)
      BY <1>4 DEF Alter
    <2>2. ~Alters(Step) \/ OnlyWidens(Step)
      BY <2>1 DEF AlterDependents, ColumnDependents, Recreatable, OnColumn
    <2>3. CASE ~Alters(Step)
      BY <2>1, <2>3 DEF Altered
    <2>4. CASE Alters(Step) /\ OnlyWidens(Step)
      <3>1. ~FillsNulls(Step)
        BY <2>4 DEF FillsNulls, OnlyWidens
      <3>2. Step.target.type \in Texts /\ Step.target.type \notin Rounding
        BY <2>4, TypesAssumption DEF OnlyWidens
      <3>3. v \in Column(work.rows[Step.tbl], Step.col)
        BY <2>1 DEF Column
      <3>4. CanAlter(old, Step, v)
        BY <2>1, <2>4, <3>3 DEF CanChange, CanModifyColumn
      <3>5. Filled(old, Step, v) = v
        BY <3>1 DEF Filled
      <3>6. v <= Step.target.type
        BY <3>2, <3>4, <3>5 DEF CanAlter, Stores
      <3>7. v \in Nat /\ Step.target.type \in Nat
        BY <1>1, <2>1, CellsOf, StepFields, AttributesFields DEF Cells
      <3>8. QED  BY <2>1, <2>4, <3>5, <3>6, <3>7, CutFits DEF Altered
    <2>5. QED  BY <2>2, <2>3, <2>4
  <1>5. QED  BY <1>2, <1>3, <1>4, ChangeDoes DEF Keeps

LEMMA ChangeHolds ==
  ASSUME TypeOK, FromDecisions, Placed(work), CanChange(work, Step), RowsHold(work)
  PROVE  RowsHold(Changed(work, Step))
  <1> DEFINE e == Changed(work, Step)
  <1> SUFFICES ASSUME NEW x \in e.deps, x.kind \in {"unique", "check"}
               PROVE  /\ x.kind = "unique" => Distinct(e, x.tbl, x.cols)
                      /\ x.kind = "check" => CheckHolds(e, x)
    BY DEF RowsHold
  <1>1. x \in work.deps
    BY ChangedDeps
  <1>2. x \in Dependents /\ x.tbl \in Tables /\ x.cols \subseteq Columns
    BY <1>1, AtStep, DependentType DEF Databases, DependentRecords
  <1>3. CASE Step.kind = "modify_column" /\ x \in AlterDependents(work, Step)
    <2>1. Addable(ModifyColumn(work, Step), x)
      BY <1>3 DEF CanChange, CanModifyColumn, Keys
    <2>2. e = ModifyColumn(work, Step)
      BY <1>3 DEF Changed
    <2> HIDE DEF e
    <2>3. QED  BY <2>1, <2>2 DEF Addable
  <1>4. CASE ~(Step.kind = "modify_column" /\ x \in AlterDependents(work, Step))
    <2>1. Exists(work, x.tbl) /\ \A c \in x.cols : HasColumn(work, x.tbl, c)
      BY <1>1 DEF Placed
    <2>2. ~Retables(Step, x.tbl)
      <3>1. Step.kind = "drop_table" => ~OnTable(x, Step.tbl)
        BY <1>1, StaysOn
      <3>2. Step.kind \in {"create_table", "restore_table"} => ~Exists(work, Step.tbl)
        BY DEF CanChange, CanCreateTable, CanRestoreTable
      <3>3. QED  BY <2>1, <3>1, <3>2 DEF Retables, TableKinds, OnTable
    <2>3. DOMAIN e.rows[x.tbl] = DOMAIN work.rows[x.tbl]
      BY <1>2, <2>2, ChangeRows
    <2>4. \A c \in x.cols : \A r \in DOMAIN work.rows[x.tbl] :
            e.rows[x.tbl][r][c] = work.rows[x.tbl][r][c]
      BY <1>1, <1>2, <1>4, <2>1, ConstraintColumn
    <2> HIDE DEF e
    <2>5. ASSUME x.kind = "unique", NEW q \in DOMAIN e.rows[x.tbl], NEW r \in DOMAIN e.rows[x.tbl],
                 q # r
          PROVE  \E c \in x.cols : e.rows[x.tbl][q][c] # e.rows[x.tbl][r][c]
      <3>1. PICK c \in x.cols : work.rows[x.tbl][q][c] # work.rows[x.tbl][r][c]
        BY <1>1, <2>3, <2>5 DEF RowsHold, Distinct
      <3>2. QED  BY <2>3, <2>4, <2>5, <3>1
    <2>6. ASSUME x.kind = "check", x.val # Null, NEW r \in DOMAIN e.rows[x.tbl]
          PROVE  \E c \in x.cols : e.rows[x.tbl][r][c] # x.val
      <3>1. PICK c \in x.cols : work.rows[x.tbl][r][c] # x.val
        BY <1>1, <2>3, <2>6 DEF RowsHold, CheckHolds
      <3>2. QED  BY <2>3, <2>4, <2>6, <3>1
    <2>7. QED  BY <2>5, <2>6 DEF Distinct, CheckHolds
  <1>5. QED  BY <1>3, <1>4

LEMMA AddAllHolds ==
  ASSUME NEW d \in Databases, NEW X, RowsHold(d), CanAddAll(d, X)
  PROVE  RowsHold(AddAll(d, X))
  <1> DEFINE e == AddAll(d, X)
  <1>1. e.rows = d.rows /\ e.deps = d.deps \cup X
    BY DEF AddAll, Databases
  <1>2. \A x \in X : Addable(e, x)
    BY DEF CanAddAll
  <1> HIDE DEF e
  <1>3. ASSUME NEW x \in e.deps
        PROVE  /\ x.kind = "unique" => Distinct(e, x.tbl, x.cols)
               /\ x.kind = "check" => CheckHolds(e, x)
    <2>1. CASE x \in X
      BY <1>2, <2>1 DEF Addable
    <2>2. CASE x \in d.deps
      BY <1>1, <2>2 DEF RowsHold, Distinct, CheckHolds
    <2>3. QED  BY <1>1, <2>1, <2>2
  <1>4. QED  BY <1>3 DEF RowsHold, e

LEMMA HoldsBySchema ==
  ASSUME NEW d, NEW e, e.rows = d.rows, e.deps = d.deps, RowsHold(d)
  PROVE  RowsHold(e)
  BY DEF RowsHold, Distinct, CheckHolds

LEMMA NextRowsKnown ==
  ASSUME MaxWrites = 0, UndoInv, RowsKnown, [Next]_vars
  PROVE  RowsKnown'
  <1>0. TypeOK /\ TypeOK' /\ Settled /\ RunStart /\ FromDecisions /\ Placed(work)
    BY NextType DEF UndoInv, Known, CoherentRun, Coherent
  <1>1. CASE Stays \/ Blanks
    <2>1. db' = db /\ (work' = work \/ work' = db) /\ past'.origin = past.origin
      BY <1>0, <1>1, StaysDoes, BlanksDoes
    <2>2. QED  BY <2>1 DEF RowsKnown
  <1>2. CASE SkipStep \/ CopyStep
    <2>1. /\ db' = db /\ past' = past
          /\ work'.rows = work.rows /\ work'.deps = work.deps
      BY <1>0, <1>2, SkipDoes, CopyDoes DEF SameRest
    <2>2. QED  BY <2>1, HoldsBySchema DEF RowsKnown
  <1>3. CASE ChangeStep
    <2>1. db' = db /\ past' = past /\ work' = Changed(work, Step) /\ CanChange(work, Step)
      BY <1>0, <1>3, ChangeStepDoes DEF SameRest
    <2>2. QED  BY <1>0, <2>1, ChangeHolds DEF RowsKnown
  <1>4. CASE RecreateKeys \/ Replay
    <2>1. /\ db' = db /\ past' = past /\ work' = AddAll(work, Recreated)
          /\ CanAddAll(work, Recreated) /\ work \in Databases
      BY <1>0, <1>4, AdditionDoes DEF SameRest, TypeOK
    <2>2. QED  BY <2>1, AddAllHolds DEF RowsKnown
  <1>5. CASE Commit
    <2>1. db' = work /\ work' = work /\ past'.origin \in {past.origin, db}
      BY <1>0, <1>5, CommitDoes
    <2>2. QED  BY <2>1 DEF RowsKnown
  <1>6. CASE CleansUp
    <2>1. past' = past /\ work' = db' /\ db'.rows = db.rows /\ db'.deps = db.deps
      BY <1>0, <1>6, CleansUpDoes
    <2>2. QED  BY <2>1, HoldsBySchema DEF RowsKnown
  <1>7. QED  BY <1>0, <1>1, <1>2, <1>3, <1>4, <1>5, <1>6, NextDoes

LEMMA InitRowsKnown ==
  ASSUME Init
  PROVE  RowsKnown
  <1>1. work = db /\ past.origin = db /\ db \in InitialDbs /\ db \in Databases
    BY ScriptAssumption DEF Init
  <1>2. ASSUME NEW x \in db.deps
        PROVE  Addable(db, x)
    <2>1. x.tbl \in Tables /\ OnTable(x, x.tbl)
      BY <1>1, <1>2, DependentType DEF Databases, DependentRecords, OnTable
    <2>2. Addable([db EXCEPT !.rows[x.tbl] = db.rows[x.tbl]], x)
      BY <1>1, <2>1, DatabaseAssumption DEF Legal
    <2>3. [db EXCEPT !.rows[x.tbl] = db.rows[x.tbl]] = db
      BY <1>1, <2>1 DEF Databases
    <2>4. QED  BY <2>2, <2>3
  <1>3. RowsHold(db)
    BY <1>2 DEF RowsHold, Addable
  <1>4. QED  BY <1>1, <1>3 DEF RowsKnown

-----------------------------------------------------------------------------------
(* What is known at every step of the system; a user who cleans up does not *)
(* go unnoticed.                                                            *)
LEMMA AnyStep ==
  ASSUME MaxWrites = 0, UndoInv, [Next]_vars
  PROVE  /\ TypeOK /\ TypeOK' /\ Settled /\ RunStart /\ FromDecisions /\ Known /\ Known' /\ UndoInv'
         /\ script' = script
         /\ used'.cleanups = 0 => used.cleanups = 0 /\ ~CleansUp
  <1>1. TypeOK /\ TypeOK' /\ Settled /\ RunStart /\ FromDecisions /\ Known /\ UndoInv' /\ Known'
    BY NextType, NextUndo DEF UndoInv, Known
  <1>2. script' = script
    BY <1>1, NextDoes, StaysDoes, BlanksDoes, SkipDoes, CopyDoes, ChangeStepDoes, AdditionDoes,
       CommitDoes, CleansUpDoes DEF SameRest
  <1>3. used.cleanups \in Nat /\ used \in [runs: Nat, writes: Nat, holds: Nat, cleanups: Nat]
    BY <1>1 DEF TypeOK
  <1>4. ASSUME NEW d, CleanUp(d)
        PROVE  used'.cleanups # 0
    BY <1>3, <1>4 DEF CleanUp
  <1>5. CleansUp => used'.cleanups # 0
    BY <1>4 DEF CleansUp, RemoveBackup, RemoveJournal
  <1>6. CASE ~CleansUp
    <2>1. used'.cleanups = used.cleanups
      BY <1>3, <1>6 DEF Next, ScriptStep, Start, CheckStep, Refuse, SkipStep, CopyStep, ChangeStep,
         RecreateKeys, Replay, StatementFails, Commit, VerifyFails, Interrupt, LockTimeout, RollBack,
         Write, Hold, Release, CleansUp, vars
    <2>2. QED  BY <1>1, <1>2, <1>6, <2>1
  <1>7. QED  BY <1>1, <1>2, <1>5, <1>6

(* An undo script that is committed has found the backups of the script.    *)
LEMMA NextBackupsLeft ==
  ASSUME MaxWrites = 0, UndoInv, BackupsLeft, [Next]_vars
  PROVE  BackupsLeft'
  <1>0. /\ TypeOK /\ TypeOK' /\ Settled /\ RunStart /\ Known /\ script' = script /\ UndoBackups
        /\ used'.cleanups = 0 => used.cleanups = 0 /\ ~CleansUp
    BY AnyStep DEF UndoInv
  <1>1. CASE Stays \/ Blanks \/ SkipStep \/ CopyStep \/ ChangeStep \/ RecreateKeys \/ Replay
    <2>1. db' = db /\ past'.state = past.state
      BY <1>0, <1>1, StaysDoes, BlanksDoes, SkipDoes, CopyDoes, ChangeStepDoes, AdditionDoes
         DEF SameRest
    <2>2. QED  BY <1>0, <2>1 DEF BackupsLeft
  <1>2. CASE Commit
    <2> SUFFICES ASSUME used'.cleanups = 0, past'.state = "undone", NEW n \in 1 .. Len(script),
                        Copies(script[n])
                 PROVE  BackedUp(db', BackupOf(script[n], FALSE))
      BY <1>0 DEF BackupsLeft
    <2>1. db' = work /\ run.undo /\ Active /\ Running /\ past.state \in {"new", "applied", "undone"}
      BY <1>0, <1>2, CommitDoes DEF TypeOK, Histories
    <2>2. CASE past.state = "undone"
      <3>1. db' = db
        BY <1>0, <2>1, <2>2 DEF Known, NothingToDo, Again
      <3>2. QED  BY <1>0, <2>2, <3>1 DEF BackupsLeft
    <2>3. CASE past.state # "undone"
      <3> DEFINE s == AllSteps[Undone(n)]
      <3>1. Undoing
        BY <2>1, <2>3 DEF UndoInv, ToRecreateKnown, UndoStarted, Undoing
      <3>2. /\ Check(db, s, TRUE) = "go" /\ s.kind \in RestoreKinds
            /\ s.tbl = script[n].tbl /\ s.col = script[n].col
            /\ s.kind = "restore_table" => script[n].kind = "drop_table"
            /\ s.kind = "restore_column" => script[n].kind = "drop_column"
        BY <1>0, <2>1, <3>1, UndoneDropGoes DEF Undoes
      <3> HIDE DEF s
      <3>3. CASE s.kind = "restore_table"
        <4>1. BackedUp(db, BackupName(s.tbl, Whole, FALSE))
          BY <3>2, <3>3 DEF Check, CheckRestoreTable
        <4>2. QED  BY <3>1, <3>2, <3>3, <4>1, <2>1 DEF UndoBackups, UndoInv, BackedUp, BackupOf
      <3>4. CASE s.kind = "restore_column"
        <4>1. BackedUp(db, BackupName(s.tbl, {s.col}, FALSE))
          BY <3>2, <3>4 DEF Check, CheckRestoreColumn
        <4>2. QED  BY <3>1, <3>2, <3>4, <4>1, <2>1 DEF UndoBackups, UndoInv, BackedUp, BackupOf
      <3>5. QED  BY <3>2, <3>3, <3>4 DEF RestoreKinds
    <2>4. QED  BY <2>2, <2>3
  <1>3. CASE CleansUp
    BY <1>0, <1>3 DEF BackupsLeft
  <1>4. QED  BY <1>0, <1>1, <1>2, <1>3, NextDoes

(* What a run has removed or copied, its own steps are about.               *)
LEMMA NextBackupsKnown ==
  ASSUME MaxWrites = 0, UndoInv, BackupsKnown, [Next]_vars
  PROVE  BackupsKnown'
  <1>0. TypeOK /\ TypeOK' /\ Settled /\ RunStart /\ Known
    BY AnyStep
  <1>1. CASE Stays \/ Blanks
    <2>1. CASE Stays
      BY <2>1, StaysDoes DEF BackupsKnown, Copying
    <2>2. CASE Blanks
      BY <1>0, <2>2, BlanksDoes DEF BackupsKnown
    <2>3. QED  BY <1>1, <2>1, <2>2
  <1>2. CASE SkipStep \/ RecreateKeys \/ Replay
    <2>1. /\ SameRest /\ work'.bak = work.bak /\ Active /\ Performed' = Performed
          /\ run.copied => run'.copied \/ run.phase = "apply"
      BY <1>0, <1>2, SkipDoes, AdditionDoes
    <2>2. Copying \subseteq Copying'
      <3>1. CASE SkipStep
        BY <3>1 DEF Copying, SkipStep
      <3>2. CASE RecreateKeys \/ Replay
        <4>1. run'.copied = run.copied /\ run'.at = run.at /\ run'.skip = run.skip
          BY <1>0, <3>2, AdditionDoes, AtStep DEF RecreateKeys, Replay, Runs
        <4>2. QED  BY <4>1 DEF Copying
      <3>3. QED  BY <1>2, <3>1, <3>2
    <2>3. QED  BY <2>1, <2>2 DEF BackupsKnown, SameRest, BackedUp
  <1>3. CASE CopyStep
    <2>1. /\ SameRest /\ work' = Copy(work, Step, run.undo) /\ Active /\ Performed' = Performed
          /\ Copies(Step) /\ run'.copied /\ run'.at = run.at /\ Step = AllSteps[run.at]
      BY <1>0, <1>3, CopyDoes DEF Step
    <2>2. ~run.copied /\ run.at \notin run.skip /\ run'.skip = run.skip
      BY <1>0, <1>3, AtStep DEF CopyStep, AtCopy, Applying, Runs
    <2>3. \A b \in BackupNames : b # BackupOf(Step, run.undo) => work'.bak[b] = work.bak[b]
      <3>1. work \in Databases /\ Step \in Steps /\ run.undo \in BOOLEAN
        BY <1>0, AtStep
      <3>2. QED  BY <2>1, <3>1, CopyJournal
    <2>4. Copying' = {run.at} /\ Copying = {}
      BY <2>1, <2>2 DEF Copying
    <2>5. QED  BY <2>1, <2>3, <2>4 DEF BackupsKnown, SameRest, BackedUp
  <1>4. CASE ChangeStep
    <2>1. /\ SameRest /\ work' = Changed(work, Step) /\ Active
          /\ Performed' = Performed \cup {run.at}
      BY <1>0, <1>4, ChangeStepDoes
    <2>2. work'.bak = work.bak
      BY <1>0, <2>1, ChangedDeps
    <2>3. Performed \cup Copying \subseteq Performed'
      BY <2>1 DEF Copying
    <2>4. QED  BY <2>1, <2>2, <2>3 DEF BackupsKnown, SameRest, BackedUp
  <1>5. CASE Commit \/ CleansUp
    BY <1>0, <1>5, CommitDoes, CleansUpDoes DEF BackupsKnown
  <1>6. QED  BY <1>0, <1>1, <1>2, <1>3, <1>4, <1>5, NextDoes

LEMMA NextColumnsKnown ==
  ASSUME MaxWrites = 0, UndoInv, ColumnsKnown, [Next]_vars
  PROVE  ColumnsKnown'
  <1>0. TypeOK /\ TypeOK' /\ Settled /\ RunStart /\ FromDecisions
    BY AnyStep
  <1>1. CASE Stays \/ Blanks
    BY <1>0, <1>1, StaysDoes, BlanksDoes DEF ColumnsKnown
  <1>2. CASE SkipStep \/ CopyStep \/ RecreateKeys \/ Replay
    <2>1. SameRest /\ work'.cols = work.cols /\ Active /\ Performed' = Performed
      BY <1>0, <1>2, SkipDoes, CopyDoes, AdditionDoes
    <2>2. QED  BY <2>1 DEF ColumnsKnown, SameRest, HasColumn
  <1>3. CASE ChangeStep
    <2>1. /\ SameRest /\ work' = Changed(work, Step) /\ Active /\ CanChange(work, Step)
          /\ Performed' = Performed \cup {run.at} /\ Step = AllSteps[run.at]
      BY <1>0, <1>3, ChangeStepDoes DEF Step
    <2>2. ASSUME NEW t \in Tables, NEW c \in Columns, HasColumn(work, t, c), ~HasColumn(work', t, c)
          PROVE  Copies(Step) /\ Touches(Step, t, c)
      BY <1>0, <2>1, <2>2, ColumnStays DEF Copies, Touches, TableKinds
    <2>3. QED  BY <2>1, <2>2 DEF ColumnsKnown, SameRest
  <1>4. CASE Commit \/ CleansUp
    BY <1>0, <1>4, CommitDoes, CleansUpDoes DEF ColumnsKnown
  <1>5. QED  BY <1>0, <1>1, <1>2, <1>3, <1>4, NextDoes

(* A foreign key taken away for a change stays away, and what it is on      *)
(* stays: the script drops before it changes, and the undo script drops     *)
(* only what the script made.                                               *)
LEMMA KeyOutStays ==
  ASSUME UndoInv, KeysOut, ChangeStep, NEW x \in run.keys, run.undo => NoDrift(past.origin)
  PROVE  /\ x \notin Changed(work, Step).deps /\ PlacedIn(Changed(work, Step), x)
         /\ \E m \in Performed : AllSteps[m].kind = "modify_column"
  <1>0. /\ TypeOK /\ FromDecisions /\ Running /\ Applying /\ run.phase = "apply"
        /\ run.at \in 1 .. Len(script) /\ Step = AllSteps[run.at] /\ Step \in Steps
        /\ work \in Databases /\ past.origin \in Databases
        /\ Forward \/ Undoing \/ Again
    BY AtApply DEF ChangeStep, AtChange
  <1>1. CanChange(work, Step)
    BY DEF ChangeStep
  <1>2. PICK m \in Performed : AllSteps[m].kind = "modify_column"
    BY <1>0 DEF KeysOut
  <1>3. x \notin work.deps /\ PlacedIn(work, x)
    BY <1>0 DEF KeysOut
  <1>4. x \in db.deps /\ x.kind = "fk" /\ x \in Dependents
    BY <1>0 DEF UndoInv, ToRecreateKnown, KeysKnown, Keys, TypeOK, Databases
  <1>5. x \notin Changed(work, Step).deps
    BY <1>0, <1>3, <1>4, ChangedDeps
  <1>6. /\ x.tbl \in Tables /\ x.ref \in Tables /\ x.cols \subseteq Columns
        /\ x.refcols \subseteq Columns
    BY <1>4, DependentType DEF DependentRecords
  <1>7. /\ Step.kind = "drop_table" => ~OnTable(x, Step.tbl)
        /\ Step.kind = "drop_column" => ~OnColumn(x, Step.tbl, Step.col)
    <2>1. CASE ~run.undo
      <3>1. m < run.at /\ m \in 1 .. Len(script)
        BY <1>0 DEF Performed
      <3>2. ~Copies(Step)
        BY <1>0, <1>2, <2>1, <3>1, DropsFirst
      <3>3. QED  BY <3>2 DEF Copies
    <2>2. CASE run.undo
      <3>1. Undoing
        <4>1. ~Again
          BY <1>0, <1>2, AtApply DEF UndoInv, Known, NothingToDo, Performed
        <4>2. QED  BY <1>0, <2>2, <4>1 DEF Forward
      <3>2. x \in past.origin.deps
        BY <1>4, <3>1 DEF UndoInv, PastGained, Undoing
      <3>3. PlacedIn(past.origin, x)
        BY <1>4, <3>2 DEF UndoInv, CoherentRun, Coherent, Placed, PlacedIn
      <3>4. /\ Undone(run.at) \in 1 .. Len(script)
            /\ Undoes(Step, script[Undone(run.at)], Undone(run.at))
            /\ AsCompared(past.origin, script[Undone(run.at)])
        BY <1>0, <2>2, RunStep, UndoStepFacts DEF NoDrift
      <3>5. /\ Step.kind = "drop_table" => ~Exists(past.origin, Step.tbl)
            /\ Step.kind = "drop_column" => ~HasColumn(past.origin, Step.tbl, Step.col)
        BY <3>4 DEF Undoes, AsCompared
      <3>6. QED  BY <3>3, <3>5 DEF PlacedIn, OnTable, OnColumn
    <2>3. QED  BY <2>1, <2>2
  <1>8. \A t \in Tables, c \in Columns : OnColumn(x, t, c) /\ HasColumn(work, t, c) =>
          HasColumn(Changed(work, Step), t, c)
    BY <1>0, <1>1, <1>7, ColumnStays, OnColumnOnTable
  <1>9. \A t \in Tables : OnTable(x, t) /\ Exists(work, t) => Exists(Changed(work, Step), t)
    BY <1>0, <1>1, <1>7, TableStays
  <1>10. PlacedIn(Changed(work, Step), x)
    BY <1>3, <1>4, <1>6, <1>8, <1>9 DEF PlacedIn, OnColumn, OnTable
  <1>11. QED  BY <1>2, <1>5, <1>10

LEMMA NewKeyOut ==
  ASSUME UndoInv, ChangeStep, Step.kind = "modify_column", NEW x \in DroppedKeys(work, Step)
  PROVE  x \notin Changed(work, Step).deps /\ PlacedIn(Changed(work, Step), x)
  <1>0. /\ TypeOK /\ FromDecisions /\ Step \in Steps /\ work \in Databases
    BY AtApply DEF ChangeStep, AtChange
  <1>1. CanChange(work, Step) /\ Placed(work)
    BY DEF ChangeStep, UndoInv, CoherentRun, Coherent
  <1>2. x \in Keys(AlterDependents(work, Step)) /\ x \in work.deps /\ x.kind = "fk" /\ x \in Dependents
    BY <1>0 DEF DroppedKeys, Keys, AlterDependents, ColumnDependents, Databases
  <1>3. x \notin Changed(work, Step).deps
    BY <1>0, <1>2, ModifyColumnShape DEF Changed, AlteredDeps
  <1>4. PlacedIn(work, x)
    BY <1>1, <1>2 DEF Placed, PlacedIn
  <1>5. /\ x.tbl \in Tables /\ x.ref \in Tables /\ x.cols \subseteq Columns
        /\ x.refcols \subseteq Columns
    BY <1>2, DependentType DEF DependentRecords
  <1>6. \A t \in Tables, c \in Columns : HasColumn(work, t, c) => HasColumn(Changed(work, Step), t, c)
    BY <1>0, <1>1, ColumnStays
  <1>7. \A t \in Tables : Exists(work, t) => Exists(Changed(work, Step), t)
    BY <1>0, <1>1, TableStays
  <1>8. QED  BY <1>3, <1>4, <1>5, <1>6, <1>7 DEF PlacedIn

LEMMA NextKeysOut ==
  ASSUME MaxWrites = 0, UndoInv, KeysOut, [Next]_vars
  PROVE  KeysOut'
  <1>0. TypeOK /\ TypeOK' /\ Settled /\ RunStart /\ script' = script
    BY AnyStep
  <1>1. CASE Stays
    BY <1>0, <1>1, StaysDoes, NoDriftStays DEF KeysOut
  <1>2. CASE Blanks
    BY <1>0, <1>2, BlanksDoes DEF KeysOut
  <1>3. CASE SkipStep \/ CopyStep
    <2>1. /\ SameRest /\ work'.cols = work.cols /\ work'.deps = work.deps /\ run'.keys = run.keys
          /\ Performed' = Performed /\ run.phase = "apply" /\ Running
      BY <1>0, <1>3, SkipDoes, CopyDoes DEF Running
    <2>2. NoDrift(past.origin)' <=> NoDrift(past.origin)
      BY <2>1, NoDriftStays DEF SameRest
    <2>3. \A x : PlacedIn(work, x) => PlacedIn(work', x)
      BY <2>1 DEF PlacedIn, Exists, HasColumn
    <2>4. QED  BY <2>1, <2>2, <2>3 DEF KeysOut, SameRest
  <1>4. CASE ChangeStep
    <2>1. /\ SameRest /\ work' = Changed(work, Step) /\ Performed' = Performed \cup {run.at}
          /\ run'.keys = IF Step.kind = "modify_column"
                           THEN run.keys \cup DroppedKeys(work, Step) ELSE run.keys
          /\ Step = AllSteps[run.at]
      BY <1>0, <1>4, ChangeStepDoes DEF Step
    <2>2. NoDrift(past.origin)' <=> NoDrift(past.origin)
      BY <2>1, NoDriftStays DEF SameRest
    <2> SUFFICES ASSUME run.undo => NoDrift(past.origin), NEW x \in run'.keys
                 PROVE  /\ x \notin work'.deps /\ PlacedIn(work', x)
                        /\ \E m \in Performed' : AllSteps'[m].kind = "modify_column"
      BY <2>1, <2>2 DEF KeysOut, SameRest
    <2>3. CASE x \in run.keys
      BY <1>4, <2>1, <2>3, KeyOutStays DEF SameRest
    <2>4. CASE Step.kind = "modify_column" /\ x \in DroppedKeys(work, Step)
      BY <1>4, <2>1, <2>4, NewKeyOut DEF SameRest
    <2>5. QED  BY <2>1, <2>3, <2>4
  <1>5. CASE RecreateKeys \/ Replay \/ Commit \/ CleansUp
    <2>1. run'.phase \notin {"apply", "keys"} \/ ~Running'
      BY <1>0, <1>5, AdditionDoes, CommitDoes, CleansUpDoes
    <2>2. QED  BY <2>1 DEF KeysOut
  <1>6. QED  BY <1>0, <1>1, <1>2, <1>3, <1>4, <1>5, NextDoes

-----------------------------------------------------------------------------------
(* What a step that is carried out does to its own columns.                 *)
LEMMA NoDefaultsOn ==
  ASSUME NEW d \in Databases, Placed(d), NEW t, NEW c, ~HasColumn(d, t, c)
  PROVE  DefaultsOn(d, t, c) = {}
  BY DEF DefaultsOn, Placed

LEMMA TableMade ==
  ASSUME UndoInv, ~Contradictory, ChangeStep, Step.kind = "create_table"
  PROVE  TableIs(Changed(work, Step), Step.tbl, Step.table)
  <1> DEFINE e == Changed(work, Step)
             t == Step.tbl
             def == Step.table
  <1>0. /\ TypeOK /\ FromDecisions /\ Step \in Steps /\ work \in Databases /\ t \in Tables
        /\ run.at \in 1 .. Len(script) /\ Step = AllSteps[run.at]
        /\ def \in [Columns -> Attributes]
    BY AtApply, StepFields DEF ChangeStep, AtChange
  <1>1. /\ e.cols[t] = MadeColumns(Step) /\ e.deps = work.deps \cup MadeDefaults(Step)
    BY <1>0, MakeTableShape DEF Changed, TableBecomes
  <1>2. ~Exists(work, t) /\ Placed(work)
    BY DEF ChangeStep, CanChange, CanCreateTable, UndoInv, CoherentRun, Coherent
  <1>3. \A c \in Columns : e.cols[t][c] = Stored(def[c]) /\ def[c] \in Attributes
    BY <1>0, <1>1 DEF MadeColumns
  <1>4. \A c \in Columns : HasColumn(e, t, c) <=> def[c].type # 0
    BY <1>3, AttributesFields DEF HasColumn
  <1>5. \E c \in Columns : def[c].type # 0
    <2>1. ~run.undo
      BY <1>0, RunStep DEF UndoKinds
    <2>2. QED  BY <1>0, <2>1, RunStep, ForwardStep
  <1>6. ASSUME NEW c \in Columns, def[c].type # 0
        PROVE  {x.val : x \in DefaultsOn(e, t, c)} = IF def[c].dflt = Null THEN {} ELSE {def[c].dflt}
    <2>1. DefaultsOn(work, t, c) = {}
      BY <1>0, <1>2, NoDefaultsOn DEF Exists
    <2>2. DefaultsOn(e, t, c) = {x \in MadeDefaults(Step) : x.kind = "default" /\ x.tbl = t /\ x.cols = {c}}
      BY <1>1, <2>1 DEF DefaultsOn
    <2>3. CASE def[c].dflt = 0
      <3>1. DefaultsOn(e, t, c) = {}
        BY <2>2, <2>3 DEF MadeDefaults, Default
      <3>2. QED  BY <3>1, <2>3 DEF Null
    <2>4. CASE def[c].dflt # 0
      <3>1. DefaultsOn(e, t, c) = {Default(t, c, def[c].dflt)}
        BY <1>6, <2>2, <2>4 DEF MadeDefaults, Default
      <3>2. QED  BY <3>1, <2>4 DEF Null, Default
    <2>5. QED  BY <2>3, <2>4
  <1>7. QED  BY <1>3, <1>4, <1>5, <1>6 DEF TableIs, ColumnIs, Exists

LEMMA NewDefaultsValue ==
  ASSUME NEW s \in Steps, NEW e, DefaultsOn(e, s.tbl, s.col) = NewDefaults(s)
  PROVE  {x.val : x \in DefaultsOn(e, s.tbl, s.col)} =
           IF s.target.dflt = Null THEN {} ELSE {s.target.dflt}
  <1>1. CASE s.target.dflt = 0
    BY <1>1 DEF NewDefaults, Null
  <1>2. CASE s.target.dflt # 0
    <2>1. DefaultsOn(e, s.tbl, s.col) = {Default(s.tbl, s.col, s.target.dflt)}
      BY <1>2 DEF NewDefaults
    <2>2. QED  BY <1>2, <2>1 DEF Default, Null
  <1>3. QED  BY <1>1, <1>2

LEMMA ColumnAdded ==
  ASSUME UndoInv, ChangeStep, Step.kind = "add_column"
  PROVE  ColumnIs(Changed(work, Step), Step.tbl, Step.col, Step.target)
  <1> DEFINE e == Changed(work, Step)
  <1>0. /\ TypeOK /\ FromDecisions /\ Step \in Steps /\ work \in Databases
        /\ Step.tbl \in Tables /\ Step.col \in Columns
        /\ run.at \in 1 .. Len(script) /\ Step = AllSteps[run.at]
    BY AtApply DEF ChangeStep, AtChange
  <1>1. Step.target.type # 0
    BY <1>0, RunStep
  <1>2. /\ e.cols[Step.tbl][Step.col] = Stored(Step.target) /\ e.deps = work.deps \cup NewDefaults(Step)
    <2>1. e = AddColumn(work, Step)
      BY DEF Changed
    <2>2. /\ ColumnBecomes(work, e, Step.tbl, Step.col, Stored(Step.target),
                           [r \in DOMAIN work.rows[Step.tbl] |-> NewCell(Step)])
          /\ e.deps = work.deps \cup NewDefaults(Step)
      BY <1>0, <2>1, AddColumnShape
    <2>3. QED  BY <1>0, <2>2 DEF ColumnBecomes
  <1>3. DefaultsOn(work, Step.tbl, Step.col) = {}
    <2>1. ~HasColumn(work, Step.tbl, Step.col) /\ Placed(work)
      BY DEF ChangeStep, CanChange, CanAddColumn, UndoInv, CoherentRun, Coherent
    <2>2. QED  BY <1>0, <2>1, NoDefaultsOn
  <1>4. DefaultsOn(e, Step.tbl, Step.col) = NewDefaults(Step)
    <2>1. \A x \in NewDefaults(Step) : x.kind = "default" /\ x.tbl = Step.tbl /\ x.cols = {Step.col}
      BY <1>0, NewDefaultsOn
    <2>2. QED  BY <1>2, <1>3, <2>1 DEF DefaultsOn
  <1>5. HasColumn(e, Step.tbl, Step.col)
    BY <1>1, <1>2 DEF HasColumn, Stored
  <1>6. {x.val : x \in DefaultsOn(e, Step.tbl, Step.col)} =
          IF Step.target.dflt = Null THEN {} ELSE {Step.target.dflt}
    BY <1>0, <1>4, NewDefaultsValue
  <1> HIDE DEF e
  <1>7. QED  BY <1>2, <1>5, <1>6 DEF ColumnIs, e

(* A changed column is what it was to become: what the change left as it    *)
(* was, the comparison saw to be so.                                        *)
LEMMA ModifyChecked ==
  ASSUME NEW d, NEW s \in Steps, NEW u, s.kind = "modify_column", Check(d, s, u) = "go"
  PROVE  /\ HasColumn(d, s.tbl, s.col) /\ d.cols[s.tbl][s.col].ident = s.target.ident
         /\ s.observed.type # 0 => ColumnIs(d, s.tbl, s.col, s.observed)
         /\ ~(FillsNulls(s) /\ Fill(s) = 0 /\ Null \in Column(d.rows[s.tbl], s.col))
         /\ Alters(s) => Blockers(d, s, OnlyWidens(s)) = {}
         /\ FillsNulls(s) => FillFits(s)
         /\ Alters(s) /\ MayLoseData(s) /\ ~s.accept => ~LosesRows(d, s)
  <1>1. CheckModifyColumn(d, s) = "go"
    BY DEF Check
  <1>2. QED  BY <1>1 DEF CheckModifyColumn

LEMMA ColumnModified ==
  ASSUME UndoInv, ~Contradictory, ChangeStep, Step.kind = "modify_column"
  PROVE  ColumnIs(Changed(work, Step), Step.tbl, Step.col, Step.target)
  <1> DEFINE e == Changed(work, Step)
             t == Step.tbl
             c == Step.col
  <1>0. /\ TypeOK /\ FromDecisions /\ Step \in Steps /\ work \in Databases /\ db \in Databases
        /\ t \in Tables /\ c \in Columns /\ Step.target \in Attributes /\ Step.observed \in Attributes
        /\ run.at \in 1 .. Len(script) /\ Step = AllSteps[run.at]
        /\ Check(db, Step, run.undo) = "go" /\ SameColumn(db, work, t, c)
    BY AtApply, AtScope, StepFields DEF ChangeStep, AtChange
  <1>1. Step.target.type # 0
    BY <1>0, RunStep
  <1>2. /\ e.cols[t][c] = AlteredColumn(work, Step) /\ e.deps = AlteredDeps(work, Step)
    <2>1. e = ModifyColumn(work, Step)
      BY DEF Changed
    <2>2. /\ ColumnBecomes(work, e, t, c, AlteredColumn(work, Step),
               [r \in DOMAIN work.rows[t] |->
                  Altered(work.cols[t][c].type, Step, work.rows[t][r][c])])
          /\ e.deps = AlteredDeps(work, Step)
      BY <1>0, <2>1, ModifyColumnShape
    <2>3. QED  BY <1>0, <2>2 DEF ColumnBecomes
  <1>3. /\ db.cols[t][c].ident = Step.target.ident
        /\ Step.observed.type # 0 => ColumnIs(db, t, c, Step.observed)
    BY <1>0, ModifyChecked
  <1>4. work.cols[t][c] = db.cols[t][c] /\ DefaultsOn(work, t, c) = DefaultsOn(db, t, c)
    BY <1>0 DEF SameColumn, Keeps
  <1>5. e.cols[t][c] = Stored(Step.target)
    <2>1. CASE Alters(Step)
      BY <1>2, <1>3, <1>4, <2>1 DEF AlteredColumn, Stored
    <2>2. CASE ~Alters(Step)
      <3>1. /\ Step.observed.type # 0 /\ Step.observed.type = Step.target.type
            /\ Step.observed.null = Step.target.null
        BY <2>2 DEF Alters
      <3>2. db.cols[t][c] = Stored(Step.observed)
        BY <1>3, <3>1 DEF ColumnIs
      <3>3. Step.observed.ident = Step.target.ident
        BY <1>3, <3>2 DEF Stored
      <3>4. Stored(Step.observed) = Stored(Step.target)
        BY <3>1, <3>3 DEF Stored
      <3>5. QED  BY <1>2, <1>4, <2>2, <3>2, <3>4 DEF AlteredColumn
    <2>3. QED  BY <2>1, <2>2
  <1>6. {x.val : x \in DefaultsOn(e, t, c)} = IF Step.target.dflt = Null THEN {} ELSE {Step.target.dflt}
    <2>1. CASE DefaultChanges(Step)
      <3>1. \A x \in NewDefaults(Step) : x.kind = "default" /\ x.tbl = t /\ x.cols = {c}
        BY <1>0, NewDefaultsOn
      <3>2. DefaultsOn(e, t, c) = NewDefaults(Step)
        BY <1>2, <2>1, <3>1 DEF AlteredDeps, DefaultsOn, Keys
      <3>3. QED  BY <1>0, <3>2, NewDefaultsValue
    <2>2. CASE ~DefaultChanges(Step)
      <3>1. DefaultsOn(e, t, c) = DefaultsOn(work, t, c)
        BY <1>2, <2>2 DEF AlteredDeps, DefaultsOn, Keys
      <3>2. Step.observed.type # 0 /\ Step.observed.dflt = Step.target.dflt
        BY <2>2 DEF DefaultChanges
      <3>3. QED  BY <1>3, <1>4, <3>1, <3>2 DEF ColumnIs
    <2>3. QED  BY <2>1, <2>2
  <1>7. HasColumn(e, t, c)
    BY <1>1, <1>5 DEF HasColumn, Stored
  <1> HIDE DEF e
  <1>8. QED  BY <1>5, <1>6, <1>7 DEF ColumnIs, e

LEMMA CellsModified ==
  ASSUME UndoInv, ~Contradictory, ChangeStep, Step.kind = "modify_column"
  PROVE  \A r \in DOMAIN Changed(work, Step).rows[Step.tbl] :
           Changed(work, Step).rows[Step.tbl][r][Step.col] =
             Altered(db.cols[Step.tbl][Step.col].type, Step, db.rows[Step.tbl][r][Step.col])
  <1> DEFINE e == Changed(work, Step)
             t == Step.tbl
             c == Step.col
  <1>0. /\ TypeOK /\ Step \in Steps /\ work \in Databases /\ t \in Tables /\ c \in Columns
        /\ SameColumn(db, work, t, c)
    BY AtApply, AtScope DEF ChangeStep, AtChange
  <1>1. /\ ColumnBecomes(work, e, t, c, AlteredColumn(work, Step),
             [r \in DOMAIN work.rows[t] |->
                  Altered(work.cols[t][c].type, Step, work.rows[t][r][c])])
    <2>1. e = ModifyColumn(work, Step)
      BY DEF Changed
    <2>2. QED  BY <1>0, <2>1, ModifyColumnShape
  <1>2. DOMAIN e.rows[t] = DOMAIN work.rows[t]
        /\ \A r \in DOMAIN work.rows[t] :
             e.rows[t][r][c] = Altered(work.cols[t][c].type, Step, work.rows[t][r][c])
    BY <1>0, <1>1 DEF ColumnBecomes
  <1>3. /\ \A r \in DOMAIN work.rows[t] : work.rows[t][r][c] = db.rows[t][r][c]
        /\ work.cols[t][c] = db.cols[t][c]
    BY <1>0 DEF SameColumn, Keeps
  <1>4. QED  BY <1>2, <1>3

(* A restored table or column has the columns it was to have and no default *)
(* before the journal is replayed.                                          *)
LEMMA TableGivenBack ==
  ASSUME UndoInv, ChangeStep, Step.kind = "restore_table"
  PROVE  /\ Changed(work, Step).cols[Step.tbl] = MadeColumns(Step)
         /\ \A c \in Columns : DefaultsOn(Changed(work, Step), Step.tbl, c) = {}
  <1>0. TypeOK /\ Step \in Steps /\ work \in Databases /\ Step.tbl \in Tables
    BY AtApply DEF ChangeStep, AtChange
  <1>1. /\ Changed(work, Step).cols[Step.tbl] = MadeColumns(Step)
        /\ Changed(work, Step).deps = work.deps
    BY <1>0, MakeTableShape DEF Changed, TableBecomes
  <1>2. ~Exists(work, Step.tbl) /\ Placed(work)
    BY DEF ChangeStep, CanChange, CanRestoreTable, UndoInv, CoherentRun, Coherent
  <1>3. \A c \in Columns : DefaultsOn(work, Step.tbl, c) = {}
    BY <1>0, <1>2, NoDefaultsOn DEF Exists
  <1>4. QED  BY <1>1, <1>3 DEF DefaultsOn

LEMMA ColumnGivenBack ==
  ASSUME UndoInv, ChangeStep, Step.kind = "restore_column"
  PROVE  LET e == Changed(work, Step) IN
         /\ e.cols[Step.tbl][Step.col] = Stored(Step.target)
         /\ DefaultsOn(e, Step.tbl, Step.col) = {}
         /\ MatchColumns(db, Step) = {} =>
              \A r \in DOMAIN e.rows[Step.tbl] : e.rows[Step.tbl][r][Step.col] = Null
  <1> DEFINE e == Changed(work, Step)
  <1>0. /\ TypeOK /\ Step \in Steps /\ work \in Databases /\ Step.tbl \in Tables
        /\ Step.col \in Columns /\ run.at \in 1 .. Len(script) /\ Step = AllSteps[run.at]
        /\ run.phase = "apply"
    BY AtApply DEF ChangeStep, AtChange
  <1>1. run.by[run.at] = MatchColumns(db, Step)
    BY <1>0 DEF UndoInv, ByKnown, Passed, Active
  <1>2. /\ ColumnBecomes(work, e, Step.tbl, Step.col, Stored(Step.target),
             [r \in DOMAIN work.rows[Step.tbl] |->
               RestoredCell(work, Step, work.rows[Step.tbl][r], run.by[run.at])])
        /\ e.deps = work.deps
    <2>1. e = RestoreColumn(work, Step, run.by[run.at])
      BY DEF Changed
    <2>2. QED  BY <1>0, <2>1, RestoreColumnShape
  <1>3. e.cols[Step.tbl][Step.col] = Stored(Step.target)
    BY <1>0, <1>2 DEF ColumnBecomes
  <1>4. DefaultsOn(e, Step.tbl, Step.col) = {}
    <2>1. ~HasColumn(work, Step.tbl, Step.col) /\ Placed(work)
      BY DEF ChangeStep, CanChange, CanRestoreColumn, UndoInv, CoherentRun, Coherent
    <2>2. DefaultsOn(work, Step.tbl, Step.col) = {}
      BY <1>0, <2>1, NoDefaultsOn
    <2>3. QED  BY <1>2, <2>2 DEF DefaultsOn
  <1>5. ASSUME MatchColumns(db, Step) = {}, NEW r \in DOMAIN e.rows[Step.tbl]
        PROVE  e.rows[Step.tbl][r][Step.col] = Null
    <2>1. /\ r \in DOMAIN work.rows[Step.tbl]
          /\ e.rows[Step.tbl][r][Step.col]
               = RestoredCell(work, Step, work.rows[Step.tbl][r], run.by[run.at])
      BY <1>0, <1>2, <1>5 DEF ColumnBecomes
    <2>2. QED  BY <1>1, <1>5, <2>1 DEF RestoredCell
  <1>6. QED  BY <1>3, <1>4, <1>5

(* The step carried out now is done.                                        *)
LEMMA StepDoneNow ==
  ASSUME UndoInv, ~Contradictory, ChangeStep, NEW m, m = run.at
  PROVE  StepDone(m)'
  <1> DEFINE e == Changed(work, Step)
  <1>0. /\ TypeOK /\ Step \in Steps /\ work \in Databases /\ Step.tbl \in Tables
        /\ Step.col \in Columns /\ run.at \in 1 .. Len(script)
        /\ Step.kind # "unsupported" /\ Step.kind \in Kinds
    BY AtApply, StepFields DEF ChangeStep, AtChange
  <1>1. /\ db' = db /\ AllSteps' = AllSteps /\ work' = e /\ Step = AllSteps[m]
        /\ CanChange(work, Step)
    BY <1>0, ChangeStepDoes DEF SameRest, Step
  <1>2. CASE Step.kind = "create_table"
    <2>1. TableIs(e, Step.tbl, Step.table)
      BY <1>2, TableMade
    <2>2. Goal(work', Step)
      BY <1>1, <1>2, <2>1 DEF Goal
    <2> HIDE DEF e
    <2>3. QED  BY <1>1, <1>2, <2>2 DEF StepDone, RestoreKinds
  <1>3. CASE Step.kind = "drop_table"
    <2>1. e.cols[Step.tbl] = NoColumns
      BY <1>0, <1>3, DropTableShape, AtStep DEF Changed, TableBecomes
    <2>2. ~Exists(e, Step.tbl)
      BY <2>1 DEF Exists, HasColumn, NoColumns, Stored, NoAttributes
    <2>3. Goal(work', Step)
      BY <1>1, <1>3, <2>2 DEF Goal
    <2> HIDE DEF e
    <2>4. QED  BY <1>1, <1>3, <2>3 DEF StepDone, RestoreKinds
  <1>4. CASE Step.kind = "drop_column"
    <2>1. e.cols[Step.tbl][Step.col] = Stored(NoAttributes)
      <3>1. e = DropColumn(work, Step, run.at, run.undo)
        BY <1>4 DEF Changed
      <3>2. ColumnBecomes(work, e, Step.tbl, Step.col, Stored(NoAttributes),
                          [r \in DOMAIN work.rows[Step.tbl] |-> Null])
        BY <1>0, <3>1, DropColumnShape, AtStep
      <3>3. QED  BY <1>0, <3>2 DEF ColumnBecomes
    <2>2. ~HasColumn(e, Step.tbl, Step.col)
      BY <2>1 DEF HasColumn, Stored, NoAttributes
    <2>3. Goal(work', Step)
      BY <1>1, <1>4, <2>2 DEF Goal
    <2> HIDE DEF e
    <2>4. QED  BY <1>1, <1>4, <2>1, <2>3 DEF StepDone, RestoreKinds
  <1>5. CASE Step.kind = "add_column"
    <2>1. Goal(work', Step)
      BY <1>1, <1>5, ColumnAdded DEF Goal
    <2> HIDE DEF e
    <2>2. QED  BY <1>1, <1>5, <2>1 DEF StepDone, RestoreKinds
  <1>6. CASE Step.kind = "modify_column"
    <2>1. Goal(work', Step)
      BY <1>1, <1>6, ColumnModified DEF Goal
    <2>2. \A r \in DOMAIN work'.rows[Step.tbl] :
            work'.rows[Step.tbl][r][Step.col]
              = Altered(db'.cols[Step.tbl][Step.col].type, Step, db'.rows[Step.tbl][r][Step.col])
      BY <1>1, <1>6, CellsModified
    <2> HIDE DEF e
    <2>3. QED  BY <1>1, <1>6, <2>1, <2>2 DEF StepDone, RestoreKinds, CellBecomes
  <1>7. CASE Step.kind = "restore_table"
    <2>1. /\ work'.cols[Step.tbl] = MadeColumns(Step)
          /\ \A c \in Columns : DefaultsOn(work', Step.tbl, c) = {}
      BY <1>1, <1>7, TableGivenBack
    <2> HIDE DEF e
    <2>2. QED  BY <1>1, <1>7, <2>1 DEF StepDone, RestoreKinds, DefaultsOut
  <1>8. CASE Step.kind = "restore_column"
    <2>1. /\ work'.cols[Step.tbl][Step.col] = Stored(Step.target)
          /\ DefaultsOn(work', Step.tbl, Step.col) = {}
          /\ MatchColumns(db', Step) = {} =>
              \A r \in DOMAIN work'.rows[Step.tbl] : work'.rows[Step.tbl][r][Step.col] = Null
      BY <1>1, <1>8, ColumnGivenBack
    <2> HIDE DEF e
    <2>2. QED  BY <1>1, <1>8, <2>1 DEF StepDone, RestoreKinds, DefaultsOut
  <1>9. QED  BY <1>0, <1>2, <1>3, <1>4, <1>5, <1>6, <1>7, <1>8 DEF Kinds

(* A step stays done while its columns stay as they are.                    *)
LEMMA GoalStays ==
  ASSUME NEW d, NEW e, NEW s \in Steps, s.kind \notin RestoreKinds, Goal(d, s),
         \A t \in Tables, c \in Columns : Touches(s, t, c) => SameColumn(d, e, t, c)
  PROVE  Goal(e, s)
  <1>0. s.tbl \in Tables /\ s.col \in Columns /\ s.kind \in Kinds
    BY StepFields
  <1>1. ASSUME NEW c \in Columns, Touches(s, s.tbl, c)
        PROVE  /\ HasColumn(e, s.tbl, c) <=> HasColumn(d, s.tbl, c)
               /\ \A a : ColumnIs(e, s.tbl, c, a) <=> ColumnIs(d, s.tbl, c, a)
    <2>1. e.cols[s.tbl][c] = d.cols[s.tbl][c] /\ DefaultsOn(e, s.tbl, c) = DefaultsOn(d, s.tbl, c)
      BY <1>0, <1>1 DEF SameColumn, Keeps
    <2>2. QED  BY <2>1 DEF HasColumn, ColumnIs
  <1>2. CASE s.kind \in TableKinds
    <2>1. \A c \in Columns : Touches(s, s.tbl, c)
      BY <1>2 DEF Touches
    <2>2. QED  BY <1>1, <1>2, <2>1 DEF Goal, TableIs, Exists, TableKinds, RestoreKinds
  <1>3. CASE s.kind \notin TableKinds
    <2>1. Touches(s, s.tbl, s.col)
      BY DEF Touches
    <2>2. QED  BY <1>0, <1>1, <1>3, <2>1 DEF Goal, TableKinds, RestoreKinds, Kinds
  <1>4. QED  BY <1>2, <1>3

LEMMA StepDoneStays ==
  ASSUME work \in Databases, work' \in Databases, db' = db, AllSteps' = AllSteps,
         run.phase = "verify" => run'.phase = "verify",
         \A x : InJournal(work, x) => InJournal(work', x),
         NEW m, NEW s \in Steps, s = AllSteps[m], StepDone(m),
         \A t \in Tables, c \in Columns : Touches(s, t, c) => SameColumn(work, work', t, c)
  PROVE  StepDone(m)'
  <1>0. s \in Steps /\ s.tbl \in Tables /\ s.col \in Columns /\ Touches(s, s.tbl, s.col)
    BY StepFields DEF Touches
  <1>1. s.kind \notin RestoreKinds => Goal(work', s)
    BY <1>0, GoalStays DEF StepDone
  <1>2. /\ work'.cols[s.tbl][s.col] = work.cols[s.tbl][s.col]
        /\ DOMAIN work'.rows[s.tbl] = DOMAIN work.rows[s.tbl]
        /\ \A r \in DOMAIN work.rows[s.tbl] : work'.rows[s.tbl][r][s.col] = work.rows[s.tbl][r][s.col]
        /\ DefaultsOn(work', s.tbl, s.col) = DefaultsOn(work, s.tbl, s.col)
    BY <1>0 DEF SameColumn, Keeps
  <1>3. ASSUME s.kind = "restore_table"
        PROVE  \A c \in Columns : /\ work'.cols[s.tbl][c] = work.cols[s.tbl][c]
                                  /\ DefaultsOn(work', s.tbl, c) = DefaultsOn(work, s.tbl, c)
    <2>1. \A c \in Columns : Touches(s, s.tbl, c)
      BY <1>3 DEF Touches, TableKinds
    <2>2. QED  BY <1>0, <2>1 DEF SameColumn, Keeps
  <1>4. s.kind = "restore_table" => work'.cols[s.tbl] = work.cols[s.tbl]
    <2>1. /\ work.cols[s.tbl] \in [Columns -> StoredColumns]
          /\ work'.cols[s.tbl] \in [Columns -> StoredColumns]
      BY <1>0, DatabaseFields
    <2>2. QED  BY <1>3, <2>1
  <1>5. s.kind = "restore_table" /\ (\A c \in Columns : DefaultsOut(s.tbl, c)) =>
          \A c \in Columns : DefaultsOut(s.tbl, c)'
    BY <1>3 DEF DefaultsOut
  <1>6. DefaultsOut(s.tbl, s.col) => DefaultsOut(s.tbl, s.col)'
    BY <1>2 DEF DefaultsOut
  <1>7. s.kind = "modify_column" /\ CellBecomes(s) =>
          \A r \in DOMAIN work'.rows[s.tbl] :
            work'.rows[s.tbl][r][s.col]
              = Altered(db'.cols[s.tbl][s.col].type, s, db'.rows[s.tbl][r][s.col])
    BY <1>2 DEF CellBecomes
  <1>8. s.kind = "restore_column" =>
          /\ work'.cols[s.tbl][s.col] = Stored(s.target)
          /\ MatchColumns(db', s) = {} =>
               \A r \in DOMAIN work'.rows[s.tbl] : work'.rows[s.tbl][r][s.col] = Null
    BY <1>2 DEF StepDone
  <1>9. /\ s.kind = "drop_column" => work'.cols[s.tbl][s.col] = Stored(NoAttributes)
        /\ s.kind = "restore_table" => work'.cols[s.tbl] = MadeColumns(s)
    BY <1>2, <1>4 DEF StepDone
  <1>10. s.kind = "modify_column" =>
          \A r \in DOMAIN work'.rows[s.tbl] :
            work'.rows[s.tbl][r][s.col]
              = Altered(db'.cols[s.tbl][s.col].type, s, db'.rows[s.tbl][r][s.col])
    BY <1>7 DEF StepDone
  <1>11. /\ s.kind = "restore_table" => \A c \in Columns : DefaultsOut(s.tbl, c)'
         /\ s.kind = "restore_column" => DefaultsOut(s.tbl, s.col)'
    BY <1>5, <1>6 DEF StepDone
  <1>12. s = AllSteps'[m]
    OBVIOUS
  <1>13. QED  BY <1>1, <1>8, <1>9, <1>10, <1>11, <1>12 DEF StepDone, CellBecomes

(* The foreign keys to recreate are no default, and what is replayed is on  *)
(* the columns that a restoring step is about.                              *)
LEMMA AdditionKeeps ==
  ASSUME UndoInv, ~Contradictory, RecreateKeys \/ Replay, NEW m \in Performed,
         RecreateKeys \/ AllSteps[m].kind \notin RestoreKinds,
         NEW t \in Tables, NEW c \in Columns, Touches(AllSteps[m], t, c)
  PROVE  SameColumn(work, work', t, c)
  <1>0. /\ TypeOK /\ Known /\ ToRecreateKnown /\ Active /\ Running /\ m \in 1 .. Len(script)
        /\ work'.cols = work.cols /\ work'.rows = work.rows /\ work'.deps = work.deps \cup Recreated
        /\ Recreated = IF run.phase = "keys" THEN run.keys ELSE Replayed(work)
        /\ RecreateKeys => run.phase = "keys"
        /\ Replay => run.phase = "replay"
    BY AdditionDoes DEF UndoInv, Known, Recreated, Performed, Active, Running
  <1>1. \A x \in Recreated : ~(x.kind = "default" /\ x.tbl = t /\ x.cols = {c})
    <2> SUFFICES ASSUME NEW x \in Recreated, x.kind = "default", x.tbl = t, x.cols = {c}
                 PROVE  FALSE
      OBVIOUS
    <2>1. run.phase # "keys"
      BY <1>0 DEF ToRecreateKnown, KeysKnown, Keys
    <2>2. x \in Replayed(work) /\ AllSteps[m].kind \notin RestoreKinds
      BY <1>0, <2>1
    <2>3. PICK n \in Performed : /\ AllSteps[n].kind \in RestoreKinds
                                 /\ x.kind \in Recreatable /\ InScope(x, script[Undone(n)])
      BY <1>0, <2>2, ReplayedScope
    <2>4. /\ n \in 1 .. Len(script) /\ n # m
          /\ Undoes(AllSteps[n], script[Undone(n)], Undone(n)) /\ Copies(script[Undone(n)])
      BY <1>0, <2>2, <2>3, RestoringStep DEF Performed
    <2>5. Touches(AllSteps[n], t, c)
      BY <2>3, <2>4 DEF Undoes, UndoKinds, Copies, InScope, OnTable, OnColumn, Touches, TableKinds,
         RestoreKinds
    <2>6. AllSteps[m].tbl = AllSteps[n].tbl
      BY <2>5 DEF Touches
    <2>7. AllSteps[m].col # AllSteps[n].col /\ AllSteps[m].kind \notin TableKinds
      BY <1>0, <2>4, <2>6, StepsApart
    <2>8. AllSteps[n].kind \notin TableKinds
      BY <1>0, <2>4, <2>6, StepsApart
    <2>9. QED  BY <2>5, <2>7, <2>8 DEF Touches
  <1>2. DefaultsOn(work', t, c) = DefaultsOn(work, t, c)
    BY <1>0, <1>1 DEF DefaultsOn
  <1>3. QED  BY <1>0, <1>2 DEF SameColumn, Keeps

LEMMA ReplayKeepsDone ==
  ASSUME UndoInv, ~Contradictory, Replay, NEW m \in Performed, StepDone(m),
         AllSteps[m].kind \in RestoreKinds
  PROVE  StepDone(m)'
  <1>0. /\ TypeOK /\ db' = db /\ AllSteps' = AllSteps /\ run'.phase = "verify"
        /\ work'.cols = work.cols /\ work'.rows = work.rows
        /\ work'.deps = work.deps \cup Replayed(work) /\ work'.journal = work.journal
        /\ run.phase = "replay" /\ Known /\ ToRecreateKnown /\ Running
    BY AdditionDoes DEF UndoInv, Known, Recreated, SameRest, Running
  <1>1. \A x \in Replayed(work) : InJournal(work, x)
    BY <1>0, ReplayUndoes
  <1>2. \A x : InJournal(work', x) <=> InJournal(work, x)
    BY <1>0, SameJournal
  <1>3. ASSUME NEW t, NEW c, DefaultsOut(t, c)
        PROVE  \A x \in DefaultsOn(work', t, c) : run'.phase = "verify" /\ InJournal(work', x)
    BY <1>0, <1>1, <1>2, <1>3 DEF DefaultsOut, DefaultsOn
  <1>4. QED  BY <1>0, <1>3 DEF StepDone, RestoreKinds, DefaultsOut

LEMMA NextEffects ==
  ASSUME MaxWrites = 0, UndoInv, Effects, [Next]_vars
  PROVE  Effects'
  <1>0. /\ TypeOK /\ TypeOK' /\ Settled /\ RunStart /\ FromDecisions /\ script' = script
        /\ work \in Databases /\ work' \in Databases /\ Known
    BY AnyStep DEF TypeOK
  <1> SUFFICES ASSUME ~Contradictory, NEW m \in Performed'
               PROVE  StepDone(m)'
    BY <1>0 DEF Effects, Contradictory
  <1>1. CASE Stays
    <2>1. /\ UNCHANGED <<script, db, work, run>> /\ AllSteps' = AllSteps /\ m \in Performed
      BY <1>1, StaysDoes
    <2>2. QED  BY <2>1 DEF Effects, StepDone, CellBecomes, DefaultsOut
  <1>2. CASE Blanks \/ Commit \/ CleansUp
    <2>1. Performed' = {}
      <3>1. CASE Blanks \/ Commit
        BY <1>0, <3>1, BlanksDoes, CommitDoes
      <3>2. CASE CleansUp
        BY <1>0, <3>2, CleansUpDoes DEF Performed
      <3>3. QED  BY <1>2, <3>1, <3>2
    <2>2. QED  BY <2>1
  <1>3. CASE SkipStep \/ CopyStep \/ ChangeStep \/ RecreateKeys \/ Replay
    <2>1. /\ SameRest /\ Active /\ run.phase # "verify"
      BY <1>0, <1>3, SkipDoes, CopyDoes, ChangeStepDoes, AdditionDoes
    <2>2. \A x : InJournal(work, x) => InJournal(work', x)
      <3>1. CASE SkipStep \/ RecreateKeys \/ Replay
        <4>1. work'.journal = work.journal
          BY <1>0, <3>1, SkipDoes, AdditionDoes
        <4>2. QED  BY <4>1, SameJournal
      <3>2. CASE CopyStep
        <4>1. Step \in Steps /\ run.undo \in BOOLEAN /\ work' = Copy(work, Step, run.undo)
          BY <1>0, <3>2, CopyDoes, AtStep
        <4>2. work'.journal[FALSE].entries = work.journal[FALSE].entries
          BY <1>0, <4>1, CopyJournal
        <4>3. QED  BY <4>2, SameEntries
      <3>3. CASE ChangeStep
        BY <1>0, <3>3, InJournalStays
      <3>4. QED  BY <1>3, <3>1, <3>2, <3>3
    <2>3. CASE ChangeStep /\ m = run.at
      BY <2>3, StepDoneNow
    <2>4. CASE ~(ChangeStep /\ m = run.at)
      <3>1. m \in Performed /\ StepDone(m) /\ m \in 1 .. Len(script) /\ AllSteps[m] \in Steps
        <4>1. m \in Performed
          BY <1>0, <1>3, <2>4, SkipDoes, CopyDoes, ChangeStepDoes, AdditionDoes
        <4>2. QED  BY <1>0, <4>1, RunStep DEF Effects, Performed
      <3>2. CASE Replay /\ AllSteps[m].kind \in RestoreKinds
        BY <3>1, <3>2, ReplayKeepsDone
      <3>3. CASE ~(Replay /\ AllSteps[m].kind \in RestoreKinds)
        <4>1. ASSUME NEW t \in Tables, NEW c \in Columns, Touches(AllSteps[m], t, c)
              PROVE  SameColumn(work, work', t, c)
          <5>1. CASE SkipStep \/ CopyStep
            <6>1. work'.cols = work.cols /\ work'.rows = work.rows /\ work'.deps = work.deps
              BY <1>0, <5>1, SkipDoes, CopyDoes
            <6>2. QED  BY <6>1 DEF SameColumn, Keeps, DefaultsOn
          <5>2. CASE ChangeStep
            <6>1. /\ work' = Changed(work, Step) /\ CanChange(work, Step) /\ Step = AllSteps[run.at]
                  /\ run.at \in 1 .. Len(script) /\ m # run.at
              BY <1>0, <2>4, <5>2, ChangeStepDoes DEF Step, TypeOK
            <6>2. ~Touches(Step, t, c)
              <7>1. SUFFICES ASSUME Step.tbl = AllSteps[m].tbl PROVE ~Touches(Step, t, c)
                BY <4>1 DEF Touches
              <7>2. AllSteps[m].col # Step.col /\ AllSteps[m].kind \notin TableKinds
                BY <1>0, <3>1, <6>1, <7>1, StepsApart
              <7>3. Step.kind \notin TableKinds
                BY <1>0, <3>1, <6>1, <7>1, StepsApart
              <7>4. QED  BY <4>1, <7>2, <7>3 DEF Touches
            <6>3. QED  BY <1>0, <6>1, <6>2, ChangeKeepsOthers
          <5>3. CASE RecreateKeys \/ Replay
            <6>1. RecreateKeys \/ AllSteps[m].kind \notin RestoreKinds
              BY <3>3, <5>3
            <6>2. QED  BY <3>1, <4>1, <5>3, <6>1, AdditionKeeps
          <5>4. QED  BY <1>3, <5>1, <5>2, <5>3
        <4>2. PICK s \in Steps : s = AllSteps[m]
          BY <3>1
        <4>3. QED  BY <1>0, <2>1, <2>2, <3>1, <4>1, <4>2, StepDoneStays DEF SameRest
      <3>4. QED  BY <3>2, <3>3
    <2>5. QED  BY <2>3, <2>4
  <1>4. QED  BY <1>0, <1>1, <1>2, <1>3, NextDoes

-----------------------------------------------------------------------------------
(* A script that drops something is refused once it has been undone.        *)
LEMMA NoDropAgain ==
  ASSUME UndoInv, BackupsLeft, used.cleanups = 0, past.state = "undone", Running, ~run.undo,
         NoDrift(db), NEW n \in Passed
  PROVE  ~Copies(script[n])
  <1>0. TypeOK /\ n \in 1 .. Len(script) /\ ChecksPassed
    BY DEF UndoInv, Known, Undisturbed, Passed
  <1> SUFFICES ASSUME Copies(script[n])
               PROVE  FALSE
    OBVIOUS
  <1>1. BackedUp(db, BackupOf(script[n], FALSE)) /\ AsCompared(db, script[n])
    BY <1>0 DEF BackupsLeft, NoDrift
  <1>2. ~run.undo /\ run.undo \in BOOLEAN /\ AllSteps[n] = script[n]
    BY <1>0, AtStep DEF AllSteps
  <1>3. Check(db, script[n], FALSE) # "abort"
    BY <1>0, <1>2 DEF ChecksPassed
  <1>4. CASE script[n].kind = "drop_table"
    <2>1. Exists(db, script[n].tbl)
      BY <1>1, <1>4 DEF AsCompared, TableIs
    <2>2. QED  BY <1>1, <1>3, <1>4, <2>1 DEF Check, CheckDropTable, BackupOf
  <1>5. CASE script[n].kind = "drop_column"
    <2>1. HasColumn(db, script[n].tbl, script[n].col)
      BY <1>1, <1>5 DEF AsCompared, ColumnIs
    <2>2. QED  BY <1>1, <1>3, <1>5, <2>1 DEF Check, CheckDropColumn, BackupOf
  <1>6. QED  BY <1>4, <1>5 DEF Copies

(* What a change adds, no other step has dropped.                           *)
LEMMA GainedNotJournaled ==
  ASSUME UndoInv, ~Contradictory, ChangeStep, NEW x \in Changed(work, Step).deps, x \notin work.deps
  PROVE  ~InJournal(work, x)
  <1>0. /\ TypeOK /\ FromDecisions /\ Known /\ Step \in Steps /\ run.at \in 1 .. Len(script)
        /\ Step = AllSteps[run.at] /\ EntriesOk(work) /\ Step.kind # "unsupported"
    BY AtApply DEF ChangeStep, AtChange, UndoInv, ToRecreateKnown
  <1>1. \/ Step.kind = "create_table" /\ x \in MadeDefaults(Step)
        \/ Step.kind \in {"add_column", "modify_column"} /\ x \in NewDefaults(Step)
    BY <1>0, ChangeGainsOnly
  <1>2. /\ x.kind = "default" /\ x.tbl = Step.tbl
        /\ Step.kind # "create_table" => x.cols = {Step.col}
    BY <1>0, <1>1, MadeDefaultsOn, NewDefaultsOn
  <1> SUFFICES ASSUME InJournal(work, x)
               PROVE  FALSE
    OBVIOUS
  <1>3. PICK n \in 1 .. Len(script) : Copies(script[n]) /\ InScope(x, script[n])
    BY <1>0 DEF InJournal, EntriesOk
  <1>4. /\ script[n].tbl = Step.tbl
        /\ script[n].kind = "drop_column" => script[n].col \in x.cols
    BY <1>2, <1>3 DEF InScope, OnTable, OnColumn, Copies
  <1>5. PICK k \in 1 .. Len(script) : k = Source(run.at)
    BY <1>0, StepSource
  <1>6. /\ script[k].tbl = Step.tbl /\ script[k].col = Step.col
        /\ Step.kind \in TableKinds => script[k].kind \in {"create_table", "drop_table"}
    BY <1>0, <1>5, StepSource
  <1>7. ~Copies(script[k])
    <2>1. CASE ~run.undo
      BY <1>0, <1>1, <1>5, <2>1, RunStep DEF Source, Copies
    <2>2. CASE run.undo
      <3>1. Undoes(Step, script[k], k) /\ Step.kind \in UndoKinds
        BY <1>0, <1>5, <2>2, RunStep DEF Source
      <3>2. Step.kind = "modify_column"
        BY <1>1, <3>1 DEF UndoKinds
      <3>3. QED  BY <3>1, <3>2 DEF Undoes, Copies
    <2>3. QED  BY <2>1, <2>2
  <1>8. k # n
    BY <1>3, <1>7
  <1>9. script[n].kind # "drop_table" /\ script[k].kind # "create_table" /\ script[n].col # script[k].col
    BY <1>4, <1>6, <1>8 DEF Contradictory
  <1>10. script[n].kind = "drop_column" /\ Step.kind # "create_table"
    BY <1>1, <1>3, <1>6, <1>7, <1>9 DEF Copies, TableKinds
  <1>11. QED  BY <1>2, <1>4, <1>6, <1>9, <1>10

(* The journal while the script drops.                                      *)
LEMMA ForwardJournal ==
  ASSUME UndoInv, KeysOut, ~Contradictory, ChangeStep, Forward, JournalGone(work),
         EntriesApart(work), \A x \in run.keys : ~InJournal(work, x)
  PROVE  /\ JournalGone(work') /\ EntriesApart(work')
         /\ \A x \in run'.keys : ~InJournal(work', x)
  <1>0. /\ TypeOK /\ FromDecisions /\ Known /\ Step \in Steps /\ run.at \in 1 .. Len(script)
        /\ Step = AllSteps[run.at] /\ work \in Databases /\ run.phase = "apply" /\ ~run.undo
        /\ work.deps \subseteq Dependents /\ Running
    BY AtApply DEF ChangeStep, AtChange, Databases, Forward
  <1>1. /\ work' = Changed(work, Step)
        /\ run'.keys = IF Step.kind = "modify_column"
                         THEN run.keys \cup DroppedKeys(work, Step) ELSE run.keys
    BY <1>0, ChangeStepDoes
  <1>2. CASE ~Copies(Step)
    <2>1. work'.journal[FALSE] = work.journal[FALSE]
      BY <1>0, <1>2, ChangeEntries
    <2>2. /\ EntryNumbers(work') = EntryNumbers(work) /\ \A j : Entry(work', j) = Entry(work, j)
          /\ \A x : InJournal(work', x) <=> InJournal(work, x)
      BY <2>1, SameJournal
    <2>3. JournalGone(work')
      BY <1>1, <2>2, GainedNotJournaled DEF JournalGone
    <2>4. ASSUME NEW x \in run'.keys
          PROVE  ~InJournal(work', x)
      <3>1. CASE x \in run.keys
        BY <2>2, <3>1
      <3>2. CASE x \in DroppedKeys(work, Step) /\ Step.kind = "modify_column"
        <4>1. x \in work.deps
          BY <3>2 DEF DroppedKeys, Keys, AlterDependents, ColumnDependents
        <4>2. QED  BY <1>0, <2>2, <4>1 DEF JournalGone
      <3>3. QED  BY <1>1, <2>4, <3>1, <3>2
    <2>5. EntriesApart(work')
      BY <2>2 DEF EntriesApart
    <2>6. QED  BY <2>3, <2>4, <2>5
  <1>3. CASE Copies(Step)
    <2> DEFINE new == [step |-> run.at, deps |-> DroppedDeps(work, Step)]
               old == work.journal[FALSE].entries
    <2>1. work'.journal[FALSE].entries = Append(old, new) /\ old \in Seq(Entries) /\ Len(old) \in Nat
      <3>1. work.journal[FALSE] \in Journals
        BY <1>0, StepFields, DatabaseFields
      <3>2. work'.journal[FALSE].entries = Append(old, new)
        BY <1>0, <1>1, <1>3, ChangedJournal
      <3>3. old \in Seq(Entries)
        BY <3>1 DEF Journals
      <3> HIDE DEF old
      <3>4. Len(old) \in Nat
        BY <3>3
      <3>5. QED  BY <3>2, <3>3, <3>4
    <2> HIDE DEF new
    <2>2. /\ EntryNumbers(work') = EntryNumbers(work) \cup {Len(old) + 1}
          /\ Len(old) + 1 \notin EntryNumbers(work)
          /\ Entry(work', Len(old) + 1) = new
          /\ \A j \in EntryNumbers(work) : Entry(work', j) = Entry(work, j)
      <3>1. /\ Len(work'.journal[FALSE].entries) = Len(old) + 1
            /\ work'.journal[FALSE].entries[Len(old) + 1] = new
            /\ \A j \in 1 .. Len(old) : work'.journal[FALSE].entries[j] = old[j]
        <4> HIDE DEF old
        <4>1. QED  BY <2>1
      <3>2. /\ EntryNumbers(work) = 1 .. Len(old) /\ EntryNumbers(work') = 1 .. Len(old) + 1
            /\ \A j : Entry(work, j) = old[j] /\ Entry(work', j) = work'.journal[FALSE].entries[j]
        BY <3>1 DEF EntryNumbers, Entry
      <3> HIDE DEF old
      <3>3. 1 .. Len(old) + 1 = (1 .. Len(old)) \cup {Len(old) + 1} /\ Len(old) + 1 \notin 1 .. Len(old)
        BY <2>1
      <3>4. QED  BY <3>1, <3>2, <3>3
    <2>3. DroppedDeps(work, Step) \subseteq work.deps
      BY <1>3, DroppedDepsScope
    <2>4. work'.deps \cap DroppedDeps(work, Step) = {} /\ work'.deps \subseteq work.deps
      <3>1. CASE Step.kind = "drop_table"
        <4>1. work'.deps = {x \in work.deps : ~OnTable(x, Step.tbl)}
          BY <1>0, <1>1, <3>1, DropTableShape, AtStep DEF Changed
        <4>2. QED  BY <3>1, <4>1 DEF DroppedDeps, TableDependents
      <3>2. CASE Step.kind = "drop_column"
        <4>1. work'.deps = work.deps \ ColumnDependents(work, Step)
          BY <1>0, <1>1, <3>2, DropColumnFields, AtStep DEF Changed
        <4>2. QED  BY <3>2, <4>1 DEF DroppedDeps
      <3>3. QED  BY <1>3, <3>1, <3>2 DEF Copies
    <2> HIDE DEF old
    <2>5. new.deps = DroppedDeps(work, Step)
      BY DEF new
    <2>6. JournalGone(work')
      <3> SUFFICES ASSUME NEW x \in Dependents, InJournal(work', x)
                   PROVE  x \notin work'.deps
        BY DEF JournalGone
      <3>1. InJournal(work, x) \/ x \in DroppedDeps(work, Step)
        BY <2>2, <2>5 DEF InJournal
      <3>2. QED  BY <2>4, <3>1 DEF JournalGone
    <2>7. EntriesApart(work')
      <3>1. ASSUME NEW j \in EntryNumbers(work)
            PROVE  Entry(work, j).deps \cap DroppedDeps(work, Step) = {}
        BY <1>0, <2>3 DEF JournalGone, InJournal
      <3>2. QED  BY <2>2, <2>5, <3>1 DEF EntriesApart
    <2>8. run'.keys = {}
      <3>1. Step.kind # "modify_column"
        BY <1>3 DEF Copies
      <3>2. ASSUME NEW x \in run.keys
            PROVE  FALSE
        <4>1. PICK m \in Performed : AllSteps[m].kind = "modify_column"
          BY <1>0 DEF KeysOut
        <4>2. m < run.at /\ m \in 1 .. Len(script)
          BY <1>0 DEF Performed
        <4>3. QED  BY <1>0, <1>3, <4>1, <4>2, DropsFirst
      <3>3. QED  BY <1>1, <3>1, <3>2
    <2>9. QED  BY <2>6, <2>7, <2>8
  <1>4. QED  BY <1>2, <1>3

(* The same of the next state.                                              *)
LEMMA FreshIs ==
  UndoInv /\ BackupsLeft /\ past.state = "undone" /\ Tidy /\ Forward /\ Active /\ NoDrift(db) =>
    EntryNumbers(db) = {}
  <1> SUFFICES ASSUME UndoInv, BackupsLeft, past.state = "undone", Tidy, Forward, Active, NoDrift(db)
               PROVE  EntryNumbers(db) = {}
    OBVIOUS
  <1>1. Running /\ ~run.undo
    BY DEF Forward
  <1>2. Passed = 1 .. Len(script)
    BY DEF Passed
  <1>3. \A n \in 1 .. Len(script) : ~Copies(script[n])
    BY <1>1, <1>2, NoDropAgain DEF Tidy
  <1>4. QED  BY <1>3 DEF UndoInv, ToRecreateKnown, EntriesOk

LEMMA NextFresh ==
  (UndoInv /\ BackupsLeft /\ past.state = "undone" /\ Tidy /\ Forward /\ Active /\ NoDrift(db) =>
    EntryNumbers(db) = {})'
  BY FreshIs, PTL

LEMMA NextJournalInv ==
  ASSUME MaxWrites = 0, UndoInv, BackupsLeft, KeysOut, JournalInv, [Next]_vars
  PROVE  JournalInv'
  <1> SUFFICES ASSUME Tidy'
               PROVE  /\ past'.state = "new" => EntryNumbers(db') = {}
                      /\ past'.state = "applied" /\ NoDrift(past.origin)' =>
                           JournalGone(db') /\ EntriesApart(db')
                      /\ Forward' /\ Active' /\ NoDrift(db)' =>
                           /\ JournalGone(work') /\ EntriesApart(work')
                           /\ \A x \in run'.keys : ~InJournal(work', x)
                      /\ Undoing' /\ Active' /\ run'.phase # "verify" /\ NoDrift(past.origin)' =>
                           JournalGone(work')
    BY DEF JournalInv
  <1>0. /\ TypeOK /\ TypeOK' /\ Settled /\ RunStart /\ Known /\ Known' /\ UndoInv' /\ script' = script
        /\ Tidy /\ ~CleansUp /\ BackupsLeft' /\ ToRecreateKnown /\ FromDecisions
    BY AnyStep, NextBackupsLeft DEF Tidy, Contradictory, UndoInv
  <1>1. past.state \in {"new", "applied", "undone"} /\ past'.state \in {"new", "applied", "undone"}
    BY <1>0 DEF TypeOK, Histories
  <1>2. CASE Stays
    <2>1. (NoDrift(past.origin)' <=> NoDrift(past.origin)) /\ (NoDrift(db)' <=> NoDrift(db))
      BY <1>0, <1>2, StaysDoes, NoDriftStays DEF NoDrift
    <2>2. QED  BY <1>0, <1>2, <2>1, StaysDoes DEF JournalInv, Forward, Undoing
  <1>3. CASE Blanks
    <2>1. /\ db' = db /\ work' = db /\ run'.keys = {} /\ past'.state = past.state
          /\ past'.origin = past.origin
      BY <1>0, <1>3, BlanksDoes
    <2>2. NoDrift(past.origin)' <=> NoDrift(past.origin)
      BY <1>0, <2>1, NoDriftStays
    <2>3. ASSUME Forward', Active', NoDrift(db)'
          PROVE  EntryNumbers(db') = {}
      <3>1. CASE past.state = "new"
        BY <1>0, <2>1, <3>1 DEF JournalInv
      <3>2. CASE past.state = "undone"
        BY <1>0, <2>1, <2>3, <3>2, NextFresh
      <3>3. QED  BY <1>1, <2>1, <2>3, <3>1, <3>2 DEF Forward
    <2>4. EntryNumbers(db') = {} => JournalGone(work') /\ EntriesApart(work')
      BY <2>1 DEF JournalGone, EntriesApart, InJournal
    <2>5. QED  BY <1>0, <2>1, <2>2, <2>3, <2>4 DEF JournalInv, Undoing
  <1>4. CASE SkipStep \/ CopyStep
    <2>1. /\ SameRest /\ work'.deps = work.deps /\ run'.keys = run.keys /\ Active
          /\ run.phase = "apply"
      BY <1>0, <1>4, SkipDoes, CopyDoes
    <2>2. work'.journal[FALSE].entries = work.journal[FALSE].entries
      <3>1. CASE SkipStep
        BY <1>0, <3>1, SkipDoes
      <3>2. CASE CopyStep
        <4>1. Step \in Steps /\ run.undo \in BOOLEAN /\ work \in Databases
              /\ work' = Copy(work, Step, run.undo)
          BY <1>0, <3>2, CopyDoes, AtStep
        <4>2. QED  BY <4>1, CopyJournal
      <3>3. QED  BY <1>4, <3>1, <3>2
    <2>3. /\ EntryNumbers(work') = EntryNumbers(work) /\ \A j : Entry(work', j) = Entry(work, j)
          /\ \A x : InJournal(work', x) <=> InJournal(work, x)
      BY <2>2, SameEntries
    <2>4. (JournalGone(work') <=> JournalGone(work)) /\ (EntriesApart(work') <=> EntriesApart(work))
      BY <2>1, <2>3 DEF JournalGone, EntriesApart
    <2>5. /\ NoDrift(past.origin)' <=> NoDrift(past.origin)
          /\ NoDrift(db)' <=> NoDrift(db)
      BY <1>0, <2>1, NoDriftStays DEF SameRest, NoDrift
    <2>6. (Forward' => Forward) /\ (Undoing' => Undoing) /\ run.phase # "verify"
      BY <2>1 DEF SameRest, Forward, Undoing, Running
    <2>7. QED  BY <1>0, <2>1, <2>3, <2>4, <2>5, <2>6 DEF JournalInv, SameRest
  <1>5. CASE ChangeStep
    <2>1. SameRest /\ work' = Changed(work, Step) /\ Active /\ run.phase = "apply"
      BY <1>0, <1>5, ChangeStepDoes
    <2>2. /\ NoDrift(past.origin)' <=> NoDrift(past.origin)
          /\ NoDrift(db)' <=> NoDrift(db)
      BY <1>0, <2>1, NoDriftStays DEF SameRest, NoDrift
    <2>3. (Forward' => Forward) /\ (Undoing' => Undoing) /\ run.phase # "verify"
      BY <2>1 DEF SameRest, Forward, Undoing, Running
    <2>4. ASSUME Forward', NoDrift(db)'
          PROVE  /\ JournalGone(work') /\ EntriesApart(work')
                 /\ \A x \in run'.keys : ~InJournal(work', x)
      <3>1. /\ JournalGone(work) /\ EntriesApart(work) /\ \A x \in run.keys : ~InJournal(work, x)
            /\ Forward
        BY <1>0, <2>1, <2>2, <2>3, <2>4 DEF JournalInv
      <3>2. QED  BY <1>0, <1>5, <3>1, ForwardJournal DEF Tidy
    <2>5. ASSUME Undoing', NoDrift(past.origin)'
          PROVE  JournalGone(work')
      <3>1. JournalGone(work) /\ run.undo
        BY <1>0, <2>1, <2>2, <2>3, <2>5 DEF JournalInv, Undoing
      <3>2. work'.journal[FALSE] = work.journal[FALSE]
        BY <1>0, <1>5, <3>1, ChangeEntries
      <3>3. \A x : InJournal(work', x) <=> InJournal(work, x)
        BY <3>2, SameJournal
      <3>4. QED  BY <1>0, <1>5, <2>1, <3>1, <3>3, GainedNotJournaled DEF JournalGone, Tidy
    <2>6. QED  BY <1>0, <2>1, <2>2, <2>4, <2>5 DEF JournalInv, SameRest
  <1>6. CASE RecreateKeys \/ Replay
    <2>1. /\ SameRest /\ Active /\ work'.deps = work.deps \cup Recreated /\ run'.keys = run.keys
          /\ work'.journal = work.journal
          /\ RecreateKeys => run.phase = "keys"
          /\ Replay => run.phase = "replay" /\ run'.phase = "verify"
          /\ run.phase \in {"keys", "replay"} /\ Running
      BY <1>0, <1>6, AdditionDoes DEF Running
    <2>2. /\ NoDrift(past.origin)' <=> NoDrift(past.origin)
          /\ NoDrift(db)' <=> NoDrift(db)
      BY <1>0, <2>1, NoDriftStays DEF SameRest, NoDrift
    <2>3. (Forward' => Forward) /\ (Undoing' => Undoing) /\ run.phase # "verify"
      BY <2>1 DEF SameRest, Forward, Undoing
    <2>4. /\ EntryNumbers(work') = EntryNumbers(work) /\ \A j : Entry(work', j) = Entry(work, j)
          /\ \A x : InJournal(work', x) <=> InJournal(work, x)
      BY <2>1, SameJournal
    <2>5. ASSUME Forward', NoDrift(db)'
          PROVE  /\ JournalGone(work') /\ EntriesApart(work')
                 /\ \A x \in run'.keys : ~InJournal(work', x)
      <3>1. /\ JournalGone(work) /\ EntriesApart(work) /\ \A x \in run.keys : ~InJournal(work, x)
            /\ Forward /\ ~run.undo
        BY <1>0, <2>1, <2>2, <2>3, <2>5 DEF JournalInv, Forward
      <3>2. \A x \in Recreated : ~InJournal(work, x)
        <4>1. Replayed(work) = {}
          BY <1>0, <2>1, <3>1, ReplayUndoes DEF Undoing
        <4>2. QED  BY <3>1, <4>1 DEF Recreated
      <3>3. JournalGone(work')
        BY <2>1, <2>4, <3>1, <3>2 DEF JournalGone
      <3>4. QED  BY <2>1, <2>4, <3>1, <3>3 DEF EntriesApart
    <2>6. ASSUME Undoing', NoDrift(past.origin)', run'.phase # "verify"
          PROVE  JournalGone(work')
      <3>1. JournalGone(work) /\ JournalGone(db) /\ Undoing /\ RecreateKeys
        BY <1>0, <1>6, <2>1, <2>2, <2>3, <2>6 DEF JournalInv, Undoing
      <3>2. Recreated \subseteq db.deps
        BY <1>0, <2>1, <3>1 DEF Recreated, ToRecreateKnown, KeysKnown, Keys
      <3>3. work.journal[FALSE] = db.journal[FALSE] /\ db.deps \subseteq Dependents
        BY <1>0, <3>1 DEF UndoInv, JournalsHold, TypeOK, Databases
      <3>4. \A x : InJournal(work, x) <=> InJournal(db, x)
        BY <3>3, SameJournal
      <3>5. QED  BY <2>1, <2>4, <3>1, <3>2, <3>3, <3>4 DEF JournalGone
    <2>7. QED  BY <1>0, <2>1, <2>2, <2>5, <2>6 DEF JournalInv, SameRest
  <1>7. CASE Commit
    <2>1. /\ db' = work /\ ~Active' /\ Active /\ Running /\ past'.state # "new"
          /\ run.undo => past'.state = "undone"
          /\ ~run.undo /\ past.state = "applied" => past'.origin = past.origin
          /\ ~run.undo /\ past.state # "applied" => past'.origin = db
      BY <1>0, <1>7, CommitDoes
    <2>2. ASSUME past'.state = "applied", NoDrift(past.origin)'
          PROVE  JournalGone(db') /\ EntriesApart(db')
      <3>1. ~run.undo
        BY <2>1, <2>2
      <3>2. CASE past.state = "applied"
        <4>1. work = db
          BY <1>0, <2>1, <3>1, <3>2 DEF Known, NothingToDo, Again
        <4>2. NoDrift(past.origin)
          BY <1>0, <2>1, <2>2, <3>1, <3>2, NoDriftStays
        <4>3. QED  BY <1>0, <2>1, <3>2, <4>1, <4>2 DEF JournalInv
      <3>3. CASE past.state # "applied"
        <4>1. Forward /\ NoDrift(db)
          BY <1>0, <2>1, <2>2, <3>1, <3>3, NoDriftBecomes DEF Forward
        <4>2. QED  BY <1>0, <2>1, <4>1 DEF JournalInv
      <3>4. QED  BY <3>2, <3>3
    <2>3. QED  BY <2>1, <2>2
  <1>8. QED  BY <1>0, <1>2, <1>3, <1>4, <1>5, <1>6, <1>7, NextDoes

(* A default that goes with what a step drops was committed and is still    *)
(* there when the step is carried out.                                      *)
LEMMA DroppedDefaults ==
  ASSUME UndoInv, ~Contradictory, ChangeStep, Forward, Copies(Step),
         NEW x \in db.deps, x.kind = "default", InScope(x, Step)
  PROVE  InJournal(work', x)
  <1>0. /\ TypeOK /\ Known /\ Applying /\ ~run.undo /\ db \in Databases /\ Step \in Steps
    BY AtApply DEF ChangeStep, AtChange, Forward
  <1>1. PICK t \in Tables, c \in Columns : x.tbl = t /\ x.cols = {c}
    BY <1>0, DefaultIs DEF Databases
  <1>2. Touches(Step, t, c)
    BY <1>1 DEF InScope, OnTable, OnColumn, Touches, TableKinds, Copies
  <1>3. DefaultsOn(work, t, c) = DefaultsOn(db, t, c)
    BY <1>0, <1>1, <1>2, AtScope DEF SameColumn
  <1>4. x \in work.deps
    BY <1>1, <1>3 DEF DefaultsOn
  <1>5. x \in DroppedDeps(work, Step)
    BY <1>4 DEF DroppedDeps, TableDependents, ColumnDependents, InScope, Copies, Recreatable
  <1>6. PICK j \in EntryNumbers(work') : Entry(work', j) = [step |-> run.at, deps |-> DroppedDeps(work, Step)]
    BY <1>0, ChangeEntries
  <1>7. QED  BY <1>5, <1>6 DEF InJournal

LEMMA NextDefaultsJournaled ==
  ASSUME MaxWrites = 0, UndoInv, DefaultsJournaled, [Next]_vars
  PROVE  DefaultsJournaled'
  <1> SUFFICES ASSUME Tidy'
               PROVE  /\ Forward' => \A m \in Performed' :
                           Copies(script'[m]) => DefaultsIn(db', work', script'[m])
                      /\ past'.state = "applied" /\ NoDrift(past.origin)' =>
                           \A n \in 1 .. Len(script') :
                             Copies(script'[n]) => DefaultsIn(past'.origin, db', script'[n])
    BY DEF DefaultsJournaled
  <1>0. /\ TypeOK /\ TypeOK' /\ Settled /\ RunStart /\ Known /\ Known' /\ script' = script
        /\ Tidy /\ ~CleansUp
    BY AnyStep DEF Tidy, Contradictory
  <1>1. CASE Stays \/ Blanks
    <2>1. /\ db' = db /\ past'.state = past.state /\ past'.origin = past.origin
          /\ Stays \/ Performed' = {}
      BY <1>0, <1>1, StaysDoes, BlanksDoes
    <2>2. NoDrift(past.origin)' <=> NoDrift(past.origin)
      BY <1>0, <2>1, NoDriftStays
    <2>3. Stays => work' = work /\ Performed' = Performed /\ (Forward' => Forward)
      BY StaysDoes DEF Forward
    <2>4. QED  BY <1>0, <2>1, <2>2, <2>3 DEF DefaultsJournaled
  <1>2. CASE SkipStep \/ CopyStep \/ ChangeStep \/ RecreateKeys \/ Replay
    <2>1. SameRest /\ Running
      BY <1>0, <1>2, SkipDoes, CopyDoes, ChangeStepDoes, AdditionDoes DEF Running
    <2>2. /\ NoDrift(past.origin)' <=> NoDrift(past.origin)
          /\ Forward' => Forward
      BY <1>0, <2>1, NoDriftStays DEF SameRest, Forward
    <2>3. \A x : InJournal(work, x) => InJournal(work', x)
      <3>1. CASE SkipStep \/ RecreateKeys \/ Replay
        <4>1. work'.journal = work.journal
          BY <1>0, <3>1, SkipDoes, AdditionDoes
        <4>2. QED  BY <4>1, SameJournal
      <3>2. CASE CopyStep
        <4>1. Step \in Steps /\ run.undo \in BOOLEAN /\ work' = Copy(work, Step, run.undo)
              /\ work \in Databases
          BY <1>0, <3>2, CopyDoes, AtStep
        <4>2. work'.journal[FALSE].entries = work.journal[FALSE].entries
          BY <1>0, <4>1, CopyJournal
        <4>3. QED  BY <4>2, SameEntries
      <3>3. CASE ChangeStep
        BY <1>0, <3>3, InJournalStays
      <3>4. QED  BY <1>2, <3>1, <3>2, <3>3
    <2>4. ASSUME Forward, NEW m \in Performed', Copies(script[m]), NEW x \in db.deps,
                 x.kind = "default", InScope(x, script[m])
          PROVE  InJournal(work', x)
      <3>1. CASE m \in Performed
        BY <1>0, <2>3, <2>4, <3>1 DEF DefaultsJournaled, DefaultsIn
      <3>2. CASE m \notin Performed
        <4>1. ChangeStep /\ m = run.at
          BY <1>0, <1>2, <2>4, <3>2, SkipDoes, CopyDoes, ChangeStepDoes, AdditionDoes
        <4>2. Step = script[m]
          BY <2>4, <4>1 DEF Step, AllSteps, Forward
        <4>3. QED  BY <1>0, <2>4, <4>1, <4>2, DroppedDefaults DEF Tidy
      <3>3. QED  BY <3>1, <3>2
    <2>5. QED  BY <1>0, <2>1, <2>2, <2>4 DEF DefaultsJournaled, DefaultsIn, SameRest
  <1>3. CASE Commit
    <2>1. /\ db' = work /\ ~Running' /\ Active /\ Running /\ run.phase = "verify"
          /\ run.undo => past'.state = "undone"
          /\ ~run.undo /\ past.state = "applied" => past'.origin = past.origin
          /\ ~run.undo /\ past.state # "applied" => past'.origin = db
      BY <1>0, <1>3, CommitDoes
    <2>2. ASSUME past'.state = "applied", NoDrift(past.origin)', NEW n \in 1 .. Len(script),
                 Copies(script[n])
          PROVE  DefaultsIn(past'.origin, db', script[n])
      <3>1. ~run.undo
        BY <2>1, <2>2
      <3>2. CASE past.state = "applied"
        <4>1. work = db
          BY <1>0, <2>1, <3>1, <3>2 DEF Known, NothingToDo, Again
        <4>2. NoDrift(past.origin)
          BY <1>0, <2>1, <2>2, <3>1, <3>2, NoDriftStays
        <4>3. QED  BY <1>0, <2>1, <2>2, <3>1, <3>2, <4>1, <4>2 DEF DefaultsJournaled
      <3>3. CASE past.state # "applied"
        <4>1. Forward /\ NoDrift(db)
          BY <1>0, <2>1, <2>2, <3>1, <3>3, NoDriftBecomes DEF Forward
        <4>2. n \in Performed
          BY <1>0, <2>1, <2>2, <3>1, <4>1, CopiesGoes DEF Performed
        <4>3. QED  BY <1>0, <2>1, <2>2, <3>1, <3>3, <4>1, <4>2 DEF DefaultsJournaled
      <3>4. QED  BY <3>2, <3>3
    <2>3. QED  BY <1>0, <2>1, <2>2 DEF Forward
  <1>4. QED  BY <1>0, <1>1, <1>2, <1>3, NextDoes

LEMMA NextTablesExtended ==
  ASSUME MaxWrites = 0, UndoInv, TablesExtended, [Next]_vars
  PROVE  TablesExtended'
  <1>0. /\ TypeOK /\ TypeOK' /\ Settled /\ RunStart /\ Known /\ script' = script /\ FromDecisions
    BY AnyStep
  <1>1. CASE ~Commit
    <2>1. past'.state = past.state /\ past'.origin = past.origin
      BY <1>0, <1>1, NextDoes, StaysDoes, BlanksDoes, SkipDoes, CopyDoes, ChangeStepDoes,
         AdditionDoes, CleansUpDoes DEF SameRest
    <2>2. QED  BY <1>0, <2>1, NoDriftStays DEF TablesExtended
  <1>2. CASE Commit
    <2>1. /\ Active /\ Running
          /\ run.undo => past'.state = "undone"
          /\ ~run.undo /\ past.state = "applied" => past'.origin = past.origin
          /\ ~run.undo /\ past.state # "applied" => past'.origin = db
      BY <1>0, <1>2, CommitDoes
    <2> SUFFICES ASSUME past'.state = "applied", NoDrift(past.origin)', NEW n \in 1 .. Len(script),
                        script[n].kind = "add_column"
                 PROVE  Exists(past'.origin, script[n].tbl)
      BY <1>0 DEF TablesExtended
    <2>2. CASE past.state = "applied"
      BY <1>0, <2>1, <2>2, NoDriftStays DEF TablesExtended
    <2>3. CASE past.state # "applied"
      <3>1. NoDrift(db) /\ past'.origin = db /\ ~run.undo
        BY <1>0, <2>1, <2>3, NoDriftBecomes
      <3>2. ~HasColumn(db, script[n].tbl, script[n].col)
        BY <3>1 DEF NoDrift, AsCompared
      <3>3. script[n] \in Steps /\ AllSteps[n] = script[n]
        BY <1>0, <3>1, RunStep
      <3>4. Check(db, script[n], run.undo) \in {"skip", "go"}
        BY <1>0, <2>1, <3>3 DEF Known, Undisturbed, ChecksPassed, Passed
      <3>5. Check(db, script[n], run.undo) = "go"
        BY <3>2, <3>4 DEF Check, CheckAddColumn
      <3>6. QED  BY <3>1, <3>3, <3>5, GoNeeds
    <2>4. QED  BY <2>2, <2>3
  <1>3. QED  BY <1>1, <1>2

(* The values of an applied and of an undone script.                        *)
LEMMA CellIsNat ==
  ASSUME NEW v \in Cells
  PROVE  v \in Nat
  BY DEF Cells

LEMMA AlteredThere ==
  ASSUME NEW s \in Steps, s.target.type # 0, NEW v \in Cells, v # Null, NEW old
  PROVE  Altered(old, s, v) # Null
  BY StepFields, AttributesFields DEF Altered, Filled, Cut, Null, Cells

LEMMA AppliedCell ==
  ASSUME UndoInv, Effects, ~Contradictory, Forward, Active, run.phase # "apply", NoDrift(db),
         NEW n \in 1 .. Len(script), script[n].kind = "modify_column",
         NEW r \in DOMAIN work.rows[script[n].tbl]
  PROVE  /\ work.rows[script[n].tbl][r][script[n].col]
              = Altered(db.cols[script[n].tbl][script[n].col].type, script[n],
                        db.rows[script[n].tbl][r][script[n].col])
         /\ FillsNulls(script[n]) => work.rows[script[n].tbl][r][script[n].col] # Null
  <1> DEFINE s == script[n]
  <1>0. /\ TypeOK /\ FromDecisions /\ Known /\ RunFrame /\ AllSteps[n] = s /\ s \in Steps
        /\ ~run.undo /\ s.tbl \in Tables /\ s.col \in Columns
        /\ Check(db, s, FALSE) = IF n \in run.skip THEN "skip" ELSE "go"
    <2>1. TypeOK /\ FromDecisions /\ Known /\ RunFrame /\ ~run.undo /\ ChecksPassed
      BY DEF UndoInv, Known, Forward, Undisturbed
    <2>2. AllSteps[n] = s /\ s \in Steps
      BY <2>1, RunStep
    <2>3. s.tbl \in Tables /\ s.col \in Columns
      BY <2>2, StepFields
    <2>4. run.undo = FALSE
      BY <2>1, AtStep
    <2>5. QED  BY <2>1, <2>2, <2>3, <2>4 DEF ChecksPassed, Passed
  <1>1. CASE n \in Performed
    <2> DEFINE v == db.rows[s.tbl][r][s.col]
               old == db.cols[s.tbl][s.col].type
    <2>1. work.rows[s.tbl][r][s.col] = Altered(old, s, v)
      BY <1>0, <1>1 DEF Effects, StepDone, CellBecomes
    <2>2. db \in Databases /\ r \in DOMAIN db.rows[s.tbl] /\ s.target.type # 0
      <3>1. DOMAIN work.rows[s.tbl] = DOMAIN db.rows[s.tbl]
        BY <1>0, NotRetabled DEF TableKinds
      <3>2. QED  BY <1>0, <3>1, ForwardStep DEF TypeOK, ColumnKinds
    <2>3. v \in Cells
      BY <1>0, <2>2, CellsOf
    <2>4. n \notin run.skip
      BY <1>1 DEF Performed
    <2>5. ASSUME FillsNulls(s), v = Null
          PROVE  Altered(old, s, v) # Null
      <3>1. Null \in Column(db.rows[s.tbl], s.col)
        BY <2>2, <2>5 DEF Column
      <3>2. HasColumn(db, s.tbl, s.col) /\ Fill(s) # 0
        BY <1>0, <2>4, <2>5, <3>1, ModifyChecked
      <3>3. old # 0
        BY <3>2 DEF HasColumn
      <3>4. Filled(old, s, v) # 0
        BY <2>5, <3>2, <3>3 DEF Filled, Cut
      <3>5. Alters(s)
        BY <2>5 DEF FillsNulls
      <3>6. QED  BY <2>2, <3>4, <3>5 DEF Altered, Cut, Null
    <2>6. v # Null => Altered(old, s, v) # Null
      BY <1>0, <2>2, <2>3, AlteredThere
    <2>7. QED  BY <2>1, <2>5, <2>6
  <1>2. CASE n \notin Performed
    <2>1. n \in run.skip
      BY <1>2 DEF Performed
    <2>2. ColumnIs(db, s.tbl, s.col, s.target) /\ ColumnIs(db, s.tbl, s.col, s.observed)
      BY <1>0, <2>1 DEF Check, CheckModifyColumn, NoDrift, AsCompared
    <2>3. /\ s.observed.type = s.target.type /\ s.observed.null = s.target.null
          /\ s.observed.type # 0
      <3>1. Stored(s.observed) = Stored(s.target) /\ Stored(s.observed).type # 0
        BY <2>2 DEF ColumnIs, HasColumn
      <3>2. s.observed \in Attributes /\ s.target \in Attributes
        BY <1>0, StepFields
      <3>3. QED  BY <3>1, <3>2, AttributesFields
    <2>4. \A old, v : Altered(old, s, v) = v
      BY <2>3 DEF Altered, Alters
    <2>5. SameColumn(db, work, s.tbl, s.col)
      BY <1>0, <1>2, NotTouched DEF Touches
    <2>6. ~FillsNulls(s)
      BY <2>3 DEF FillsNulls, Alters
    <2>7. QED  BY <2>4, <2>5, <2>6 DEF SameColumn, Keeps
  <1>3. QED  BY <1>1, <1>2

LEMMA UndoneCell ==
  ASSUME UndoInv, Effects, PastCells, ~Contradictory, Undoing, Active, NoDrift(past.origin),
         NEW n \in 1 .. Len(script), script[n].kind = "modify_column",
         NEW r \in DOMAIN work.rows[script[n].tbl]
  PROVE  /\ work.rows[script[n].tbl][r][script[n].col] = Null =>
              /\ past.origin.rows[script[n].tbl][r][script[n].col] = Null
              /\ ~FillsNulls(script[n])
         /\ Alters(script[n]) =>
              work.rows[script[n].tbl][r][script[n].col] <= script[n].target.type
  <1> DEFINE s == script[n]
             m == Undone(n)
             u == AllSteps[m]
             v == past.origin.rows[s.tbl][r][s.col]
             x == db.rows[s.tbl][r][s.col]
  <1>0. /\ TypeOK /\ FromDecisions /\ Known /\ RunFrame /\ run.undo /\ m \in 1 .. Len(script)
        /\ u \in Steps /\ u.tbl = s.tbl /\ u.col = s.col /\ u.kind = "modify_column"
        /\ u.target.type # 0 /\ s \in Steps /\ s.target.type # 0
        /\ u.target = s.observed
        /\ s.tbl \in Tables /\ s.col \in Columns
    <2>1. TypeOK /\ FromDecisions /\ Known /\ RunFrame /\ run.undo /\ ChecksPassed
      BY DEF UndoInv, Known, Undoing, Undisturbed
    <2>2. m \in 1 .. Len(script) /\ Undone(m) = n
      BY <2>1, UndoStepFacts
    <2>3. u \in Steps /\ Undoes(u, s, n) /\ u.kind \in UndoKinds
      BY <2>1, <2>2, RunStep
    <2>4. u.kind # "unsupported"
      BY <2>1, <2>2, <2>3, UnsupportedAborts DEF ChecksPassed, Passed
    <2>5. /\ u.kind = "modify_column" /\ u.target.type # 0 /\ u.tbl = s.tbl /\ u.col = s.col
          /\ u.target = s.observed
      BY <2>3, <2>4 DEF Undoes, UndoKinds
    <2>6. s \in Steps /\ s.target.type # 0
      BY <2>1, ForwardStep DEF ColumnKinds
    <2>7. QED  BY <2>1, <2>2, <2>3, <2>5, <2>6, StepFields
  <1> HIDE DEF m, u
  <1>1. DOMAIN work.rows[s.tbl] = DOMAIN db.rows[s.tbl]
    <2>1. AllSteps[m].kind \notin TableKinds
      BY <1>0 DEF u, TableKinds
    <2>2. QED  BY <1>0, <2>1, NotRetabled DEF u
  <1>2. /\ x = Altered(past.origin.cols[s.tbl][s.col].type, s, v)
        /\ FillsNulls(s) => x # Null
    BY <1>1 DEF PastCells, PastCell, Undoing
  <1>3. /\ past.origin \in Databases /\ r \in DOMAIN past.origin.rows[s.tbl]
        /\ v \in Cells /\ x \in Cells /\ past.origin.cols[s.tbl][s.col].type \in Cells
    <2>1. past.origin \in Databases /\ db \in Databases /\ r \in DOMAIN db.rows[s.tbl]
      BY <1>0, <1>1 DEF TypeOK, Histories
    <2>2. r \in DOMAIN past.origin.rows[s.tbl]
      <3>1. \A q \in ScriptSteps : q.tbl = s.tbl => q.kind \notin TableKinds
        <4>1. \A k \in 1 .. Len(script) : script[k].tbl = s.tbl => script[k].kind \notin TableKinds
          <5> SUFFICES ASSUME NEW k \in 1 .. Len(script), script[k].tbl = s.tbl,
                              script[k].kind \in TableKinds
                       PROVE  FALSE
            OBVIOUS
          <5>1. script[k].kind \in {"create_table", "drop_table"}
            BY <1>0, ForwardStep DEF TableKinds, ForwardKinds
          <5>2. k # n
            BY <5>1
          <5>3. QED  BY <5>1, <5>2 DEF Contradictory
        <4>2. QED  BY <4>1 DEF ScriptSteps
      <3>2. QED  BY <1>0, <2>1, <3>1 DEF UndoInv, OriginFrame, Frame, Retables
    <2>3. past.origin.cols[s.tbl][s.col].type \in Cells
      <3>1. past.origin.cols[s.tbl] \in [Columns -> StoredColumns]
        BY <1>0, <2>1, DatabaseFields
      <3>2. QED  BY <1>0, <3>1 DEF StoredColumns
    <2>4. QED  BY <1>0, <2>1, <2>2, <2>3, CellsOf
  <1>4. /\ x = Null => v = Null /\ ~FillsNulls(s)
        /\ Alters(s) => x <= s.target.type
    <2>1. v # Null => x # Null
      BY <1>0, <1>2, <1>3, AlteredThere
    <2>2. Alters(s) => x = Cut(Filled(past.origin.cols[s.tbl][s.col].type, s, v), s.target.type)
      BY <1>2 DEF Altered
    <2>3. Filled(past.origin.cols[s.tbl][s.col].type, s, v) \in Nat /\ s.target.type \in Nat
      BY <1>0, <1>3, AlteredType, StepFields, AttributesFields, CellIsNat
    <2>4. ASSUME Alters(s)
          PROVE  x <= s.target.type
      BY <2>2, <2>3, <2>4, CutFits
    <2>5. QED  BY <1>2, <2>1, <2>4
  <1>5. CASE m \in Performed
    <2> DEFINE old == db.cols[s.tbl][s.col].type
    <2>1. work.rows[s.tbl][r][s.col] = Altered(old, u, x)
      <3>1. CellBecomes(u)
        BY <1>0, <1>5 DEF Effects, StepDone, u
      <3>2. QED  BY <1>0, <3>1 DEF CellBecomes
    <2>2. x # Null => Altered(old, u, x) # Null
      BY <1>0, <1>3, AlteredThere
    <2>3. ASSUME FillsNulls(u), x = Null
          PROVE  FALSE
      <3>1. ColumnIs(past.origin, s.tbl, s.col, s.observed) /\ ~s.observed.null
        BY <1>0, <2>3 DEF NoDrift, AsCompared, FillsNulls
      <3>2. HasColumn(past.origin, s.tbl, s.col) /\ ~past.origin.cols[s.tbl][s.col].null
        BY <3>1 DEF ColumnIs, Stored
      <3>3. NullsFit(past.origin) /\ v = Null
        BY <1>4, <2>3 DEF UndoInv, CoherentRun, Coherent
      <3>4. QED  BY <1>0, <1>3, <3>2, <3>3 DEF NullsFit
    <2>4. Altered(old, u, x) <= x
      <3>1. Altered(old, u, x) = x \/ Altered(old, u, x) = Cut(x, u.target.type)
        BY <2>3 DEF Altered, Filled
      <3>2. u.target.type \in Nat /\ x \in Nat
        BY <1>0, <1>3, StepFields, AttributesFields DEF Cells
      <3>3. QED  BY <3>1, <3>2 DEF Cut
    <2>5. Altered(old, u, x) \in Nat /\ s.target.type \in Nat /\ x \in Nat
      <3>1. old \in Cells
        <4>1. db.cols[s.tbl] \in [Columns -> StoredColumns]
          BY <1>0, DatabaseFields DEF TypeOK
        <4>2. QED  BY <1>0, <4>1 DEF StoredColumns
      <3>2. QED  BY <1>0, <1>3, <3>1, AlteredType, StepFields, AttributesFields, CellIsNat
    <2> HIDE DEF old, x, v
    <2>6. Alters(s) => Altered(old, u, x) <= s.target.type
      BY <1>4, <2>4, <2>5
    <2>7. QED  BY <1>4, <2>1, <2>2, <2>6 DEF v
  <1>6. CASE m \notin Performed
    <2>1. Touches(AllSteps[m], s.tbl, s.col)
      BY <1>0 DEF u, Touches
    <2>2. SameColumn(db, work, s.tbl, s.col)
      BY <1>0, <1>6, <2>1, NotTouched
    <2>3. QED  BY <1>1, <1>4, <2>2 DEF SameColumn, Keeps
  <1>7. QED  BY <1>1, <1>5, <1>6

LEMMA NextPastCells ==
  ASSUME MaxWrites = 0, UndoInv, Effects, PastCells, [Next]_vars
  PROVE  PastCells'
  <1>0. /\ TypeOK /\ TypeOK' /\ Settled /\ RunStart /\ Known /\ script' = script /\ FromDecisions
    BY AnyStep
  <1> SUFFICES ASSUME ~Contradictory, past'.state # "new", NoDrift(past.origin)',
                      NEW n \in 1 .. Len(script), script[n].kind = "modify_column",
                      NEW r \in DOMAIN db'.rows[script[n].tbl]
               PROVE  PastCell(script[n], r)'
    BY <1>0 DEF PastCells, Contradictory
  <1>1. CASE ~Commit
    <2>1. past'.state = past.state /\ past'.origin = past.origin /\ db'.rows = db.rows
      BY <1>0, <1>1, NextDoes, StaysDoes, BlanksDoes, SkipDoes, CopyDoes, ChangeStepDoes,
         AdditionDoes, CleansUpDoes DEF SameRest
    <2>2. NoDrift(past.origin)
      BY <1>0, <2>1, NoDriftStays
    <2>3. PastCell(script[n], r)
      BY <2>1, <2>2 DEF PastCells
    <2>4. QED  BY <1>0, <2>1, <2>3 DEF PastCell
  <1>2. CASE Commit
    <2>1. /\ Active /\ Running /\ db' = work /\ run.phase = "verify"
          /\ run.undo => past'.state = "undone" /\ past'.origin = past.origin
          /\ ~run.undo /\ past.state = "applied" => past'.state = "applied"
                                                    /\ past'.origin = past.origin
          /\ ~run.undo /\ past.state # "applied" => past'.state = "applied" /\ past'.origin = db
      BY <1>0, <1>2, CommitDoes
    <2>2. CASE Again
      <3>1. work = db /\ past'.state = past.state /\ past'.origin = past.origin
        BY <1>0, <2>1, <2>2 DEF Known, NothingToDo, Again
      <3>2. NoDrift(past.origin)
        BY <1>0, <3>1, NoDriftStays
      <3>3. PastCell(script[n], r)
        BY <2>1, <3>1, <3>2 DEF PastCells
      <3>4. QED  BY <1>0, <2>1, <3>1, <3>3 DEF PastCell
    <2>3. CASE Forward
      <3>1. NoDrift(db) /\ past'.origin = db /\ past'.state = "applied"
        BY <1>0, <2>1, <2>3, NoDriftBecomes DEF Forward
      <3>2. /\ work.rows[script[n].tbl][r][script[n].col]
                = Altered(db.cols[script[n].tbl][script[n].col].type, script[n],
                          db.rows[script[n].tbl][r][script[n].col])
            /\ FillsNulls(script[n]) => work.rows[script[n].tbl][r][script[n].col] # Null
        BY <2>1, <2>3, <3>1, AppliedCell
      <3>3. QED  BY <1>0, <2>1, <3>1, <3>2 DEF PastCell
    <2>4. CASE Undoing
      <3>1. past'.origin = past.origin /\ past'.state = "undone" /\ NoDrift(past.origin)
        BY <1>0, <2>1, <2>4, NoDriftStays DEF Undoing
      <3>2. /\ work.rows[script[n].tbl][r][script[n].col] = Null =>
                 /\ past.origin.rows[script[n].tbl][r][script[n].col] = Null
                 /\ ~FillsNulls(script[n])
            /\ Alters(script[n]) =>
                 work.rows[script[n].tbl][r][script[n].col] <= script[n].target.type
        BY <2>1, <2>4, <3>1, UndoneCell
      <3>3. QED  BY <1>0, <2>1, <3>1, <3>2 DEF PastCell
    <2>5. Again \/ Forward \/ Undoing
      BY <1>0, <2>1, UndoingIs DEF Again, Forward, UndoInv, ToRecreateKnown
    <2>6. QED  BY <2>2, <2>3, <2>4, <2>5
  <1>3. QED  BY <1>1, <1>2

-----------------------------------------------------------------------------------
LEMMA InitSuffice ==
  ASSUME Init
  PROVE  SufficeInv
  <1>1. /\ past.state = "new" /\ ~Running /\ ~Active /\ db \in InitialDbs
        /\ TypeOK
    BY InitType DEF Init, Idle, Running, Active
  <1>2. EntryNumbers(db) = {}
    <2>1. db.journal[FALSE] = NoJournal
      BY <1>1, ScriptAssumption
    <2>2. QED  BY <2>1, EmptyJournal
  <1>3. UndoInv /\ References /\ RowsKnown
    BY InitUndo, InitReferences, InitRowsKnown
  <1>4. Performed = {}
    BY <1>1 DEF Performed
  <1>5. QED
    BY <1>1, <1>2, <1>3, <1>4 DEF SufficeInv, BackupsLeft, BackupsKnown, ColumnsKnown, KeysOut,
       Effects, JournalInv, DefaultsJournaled, TablesExtended, PastCells, Forward, Undoing

LEMMA NextSuffice ==
  ASSUME MaxWrites = 0, SufficeInv, [Next]_vars
  PROVE  SufficeInv'
  <1>1. /\ UndoInv' /\ References' /\ RowsKnown' /\ BackupsLeft' /\ BackupsKnown' /\ ColumnsKnown'
        /\ KeysOut'
    BY NextUndo, NextReferences, NextRowsKnown, NextBackupsLeft, NextBackupsKnown,
       NextColumnsKnown, NextKeysOut DEF SufficeInv
  <1>2. Effects' /\ JournalInv' /\ DefaultsJournaled' /\ TablesExtended' /\ PastCells'
    BY NextEffects, NextJournalInv, NextDefaultsJournaled, NextTablesExtended, NextPastCells
       DEF SufficeInv
  <1>3. QED  BY <1>1, <1>2 DEF SufficeInv

-----------------------------------------------------------------------------------
(* A run on a database that is as it was compared, with decisions that can  *)
(* be carried out.                                                          *)
Fine == SufficeInv /\ used.cleanups = 0 /\ NoDrift(Compared) /\ ~Unforeseen(Compared)

LEMMA FineIs ==
  ASSUME Fine
  PROVE  /\ UndoInv /\ References /\ RowsKnown
         /\ BackupsLeft /\ BackupsKnown /\ ColumnsKnown /\ KeysOut
         /\ Effects /\ JournalInv /\ DefaultsJournaled /\ TablesExtended /\ PastCells
         /\ Tidy /\ ~Contradictory /\ ~MisfitsColumn /\ ~SharesBackup
  BY DEF Fine, SufficeInv, Tidy, Unforeseen

LEMMA UndoingMeets ==
  ASSUME Fine, Undoing
  PROVE  /\ NoDrift(past.origin) /\ ~EmptiesTable(past.origin) /\ ~CutsKey(past.origin)
         /\ ~FillsReference(past.origin) /\ ~FillsConstraint(past.origin)
         /\ ~DropsUnique(past.origin)
  BY DEF Fine, Undoing, Compared, Unforeseen

(* A database that the undo script left as it was is as it was compared.    *)
LEMMA BackMeets ==
  ASSUME TypeOK, FromDecisions, NEW d, NEW e, BackTo(d, e), NoDrift(d)
  PROVE  NoDrift(e)
  <1>1. \A t \in Tables, c \in Columns :
          /\ HasColumn(e, t, c) <=> HasColumn(d, t, c)
          /\ HasColumn(e, t, c) => e.cols[t][c] = d.cols[t][c]
    BY DEF BackTo, HasColumn
  <1>2. \A t, c : DefaultsOn(e, t, c) = DefaultsOn(d, t, c)
    BY DEF BackTo, DefaultsOn, Recreatable
  <1>3. \A t \in Tables, c \in Columns : \A a : ColumnIs(e, t, c, a) <=> ColumnIs(d, t, c, a)
    BY <1>1, <1>2 DEF ColumnIs
  <1>4. \A t \in Tables : \A def : TableIs(e, t, def) <=> TableIs(d, t, def)
    BY <1>1, <1>3 DEF TableIs, Exists
  <1>5. SUFFICES ASSUME NEW n \in 1 .. Len(script)
                 PROVE  AsCompared(e, script[n])
    BY DEF NoDrift
  <1>6. AsCompared(d, script[n]) /\ script[n].tbl \in Tables /\ script[n].col \in Columns
    BY ForwardStep, StepFields DEF NoDrift
  <1>7. QED  BY <1>1, <1>3, <1>4, <1>6 DEF AsCompared, Exists

(* A key's column is filled nowhere and cut nowhere.                        *)
LEMMA KeyKept ==
  ASSUME TypeOK, FromDecisions, NEW d, ~CutsKey(d), NoDrift(d), KeysSound(d),
         NEW t \in Tables, NEW e \in Columns, e \in PkColumns(d, t)
  PROVE  ~Loses(script, t, e) /\ <<t, e>> \notin LossyColumns /\ <<t, e>> \notin FilledColumns
  <1>1. PICK x \in d.deps : x.kind = "pk" /\ x.tbl = t /\ e \in x.cols
    BY DEF PkColumns
  <1>2. ~Loses(script, t, e)
    BY <1>1 DEF CutsKey, OnColumn
  <1>3. ASSUME NEW n \in 1 .. Len(script), script[n].kind = "modify_column",
               FillsNulls(script[n]), script[n].tbl = t, script[n].col = e
        PROVE  FALSE
    <2>1. ColumnIs(d, t, e, script[n].observed)
      BY <1>3 DEF NoDrift, AsCompared
    <2>2. HasColumn(d, t, e) /\ ~d.cols[t][e].null
      BY <1>1 DEF KeysSound
    <2>3. script[n].observed.type # 0 /\ ~script[n].observed.null
      BY <2>1, <2>2 DEF ColumnIs, HasColumn, Stored
    <2>4. QED  BY <2>3, <1>3 DEF FillsNulls
  <1>4. <<t, e>> \notin FilledColumns
    BY <1>3 DEF FilledColumns
  <1>5. QED  BY <1>2, <1>4 DEF LossyColumns

(* The database a script runs on meets what was compared, also when the     *)
(* script was undone before.                                                *)
LEMMA ForwardMeets ==
  ASSUME Fine, Forward, Active
  PROVE  NoDrift(db) /\ ~Unforeseen(db)
  <1>0. UndoInv /\ Known /\ TypeOK /\ FromDecisions /\ CoherentRun
    BY FineIs DEF UndoInv, Known
  <1>1. CASE past.state = "new"
    BY <1>1 DEF Fine, Compared
  <1>2. CASE past.state # "new"
    <2>1. past.state = "undone" /\ Compared = past.origin /\ Running /\ ~run.undo
      BY <1>0, <1>2 DEF Forward, TypeOK, Histories, Compared
    <2>2. NoDrift(past.origin) /\ ~Unforeseen(past.origin)
      BY <2>1 DEF Fine
    <2>3. BackTo(past.origin, db)
      BY <1>0, <2>1, <2>2, BackToIs DEF UndoInv
    <2>4. NoDrift(db)
      BY <1>0, <2>2, <2>3, BackMeets
    <2>5. Passed = 1 .. Len(script)
      BY DEF Passed
    <2>6. \A n \in 1 .. Len(script) : ~Copies(script[n])
      BY <1>0, <2>1, <2>4, <2>5, NoDropAgain, FineIs DEF Fine
    <2>7. \A n \in 1 .. Len(script) : script[n].kind \notin {"drop_table", "drop_column"}
      BY <2>6 DEF Copies
    <2>8. DroppedTables = {} /\ DroppedColumns = {}
      BY <2>7 DEF DroppedTables, DroppedColumns
    <2>9. /\ db.deps = past.origin.deps
          /\ \A t \in Tables, c \in Columns :
               /\ HasColumn(db, t, c) <=> HasColumn(past.origin, t, c)
               /\ HasColumn(db, t, c) => db.cols[t][c] = past.origin.cols[t][c]
          /\ \A t \in Tables : DOMAIN db.rows[t] = DOMAIN past.origin.rows[t]
      BY <2>3, <2>8 DEF BackTo, HasColumn
    <2>10. \A t : PkColumns(db, t) = PkColumns(past.origin, t)
      BY <2>9 DEF PkColumns
    <2>11. ~EmptiesTable(db) /\ ~DropsBound(db)
      BY <2>7 DEF EmptiesTable, DropsBound, Exists
    <2>12. ~CutsKey(db) /\ ~NullsKey(db)
      BY <2>2, <2>9, <2>10 DEF Unforeseen, CutsKey, NullsKey
    <2>13. \A x \in Keys(db.deps) :
             /\ x \in db.deps /\ x.kind = "fk" /\ x \in Dependents
             /\ x.tbl \in Tables /\ x.ref \in Tables
             /\ x.cols \subseteq Columns /\ x.refcols \subseteq Columns
             /\ \A c \in x.cols : HasColumn(db, x.tbl, c)
             /\ \A c \in x.refcols : HasColumn(db, x.ref, c)
      BY <1>0, DependentType DEF Keys, TypeOK, Databases, CoherentRun, Coherent, Placed,
         DependentRecords
    <2>14. ~SplitsReference(db)
      <3>1. \A t \in Tables, c \in Columns :
              HasColumn(db, t, c) => TypesAfter(db, t, c) = TypesAfter(past.origin, t, c)
        BY <2>9 DEF TypesAfter
      <3>2. ~SplitsReference(past.origin)
        BY <2>2 DEF Unforeseen
      <3>3. SUFFICES ASSUME NEW x \in Keys(db.deps), NEW c \in x.cols, NEW e \in x.refcols
                     PROVE  TypesAfter(db, x.tbl, c) = TypesAfter(db, x.ref, e)
        BY DEF SplitsReference
      <3>4. TypesAfter(past.origin, x.tbl, c) = TypesAfter(past.origin, x.ref, e)
        BY <3>2, <2>9 DEF SplitsReference
      <3>5. QED  BY <3>1, <3>4, <2>13
    <2>15. ASSUME NEW n \in 1 .. Len(script), script[n].kind = "modify_column"
           PROVE  /\ FillsNulls(script[n]) => Null \notin Column(db.rows[script[n].tbl], script[n].col)
                  /\ Alters(script[n]) =>
                       \A v \in Column(db.rows[script[n].tbl], script[n].col) :
                         Stores(v, script[n].target.type)
      <3>1. ASSUME NEW r \in DOMAIN db.rows[script[n].tbl]
            PROVE  PastCell(script[n], r)
        BY <2>15, <3>1, <2>1, <2>2, FineIs DEF PastCells, Tidy
      <3>2. QED  BY <2>1, <3>1 DEF PastCell, Column, Stores
    <2>16. ~FillsReference(db) /\ ~FillsConstraint(db) /\ ~RefusesFill(db)
      BY <2>15 DEF FillsReference, FillsConstraint, RefusesFill, ChangesOf
    <2>17. ~RefusesValue(db) /\ ~DropsUnique(db)
      BY <2>8, <2>15 DEF RefusesValue, DropsUnique
    <2>18. ~SecondIdentity(db)
      <3>1. ~SecondIdentity(past.origin)
        BY <2>2 DEF Unforeseen
      <3>2. QED  BY <3>1, <2>9 DEF SecondIdentity
    <2>19. ~Contradictory /\ ~MisfitsColumn /\ ~SharesBackup
      BY FineIs
    <2>20. QED  BY <2>4, <2>11, <2>12, <2>14, <2>16, <2>17, <2>18, <2>19 DEF Unforeseen
  <1>3. QED  BY <1>1, <1>2

-----------------------------------------------------------------------------------
(* Phase 2.  The step a run has come to is one of the script, or of the     *)
(* undo script, on a database that is as it was compared.                   *)
LEMMA FineApply ==
  ASSUME Fine, Applying
  PROVE  /\ UndoInv /\ Known /\ TypeOK /\ FromDecisions /\ Active /\ Running /\ run.phase = "apply"
         /\ CoherentRun /\ ~Contradictory /\ ~MisfitsColumn /\ ~SharesBackup
         /\ run.at \in 1 .. Len(script) /\ run.at \notin Performed /\ Step = AllSteps[run.at]
         /\ Step \in Steps /\ Step.tbl \in Tables /\ Step.col \in Columns
         /\ Step.kind # "unsupported" /\ Check(db, Step, run.undo) = "go"
         /\ db \in Databases /\ work \in Databases /\ past.origin \in Databases
         /\ \/ Forward /\ NoDrift(db) /\ ~Unforeseen(db)
            \/ Undoing /\ NoDrift(past.origin) /\ ~Unforeseen(past.origin)
  <1>1. UndoInv /\ ~Contradictory /\ ~MisfitsColumn /\ ~SharesBackup /\ CoherentRun
    BY FineIs DEF UndoInv
  <1>2. ~Again
    <2>1. ASSUME Again PROVE FALSE
      <3>1. 1 .. Len(script) \subseteq run.skip
        BY <1>1, <2>1, AtApply DEF Known, NothingToDo
      <3>2. QED  BY <1>1, <3>1, AtApply DEF Applying
    <2>2. QED  BY <2>1
  <1>3. Forward \/ Undoing
    BY <1>1, <1>2, AtApply
  <1>4. Forward => NoDrift(db) /\ ~Unforeseen(db)
    BY <1>1, AtApply, ForwardMeets
  <1>5. Undoing => NoDrift(past.origin) /\ ~Unforeseen(past.origin)
    BY DEF Undoing, Fine, Compared
  <1>6. QED  BY <1>1, <1>3, <1>4, <1>5, AtApply

(* What an undo step undoes.                                                *)
LEMMA UndoingSource ==
  ASSUME Known, Undoing, NEW n \in 1 .. Len(script)
  PROVE  /\ Undone(n) \in 1 .. Len(script) /\ Undoes(AllSteps[n], script[Undone(n)], Undone(n))
         /\ script[Undone(n)] \in Steps /\ script[Undone(n)].kind \in ForwardKinds
         /\ AllSteps[n].kind \in UndoKinds /\ AllSteps[n] \in Steps /\ Source(n) = Undone(n)
  BY RunStep, ForwardStep, UndoStepFacts DEF Known, Undoing, Undoes, Source

(* What the script left in a column fits what the column was, and holds     *)
(* NULL only where that was allowed.                                        *)
LEMMA UndoneFits ==
  ASSUME Fine, Undoing, NEW n \in 1 .. Len(script), AllSteps[n].kind = "modify_column",
         HasColumn(db, AllSteps[n].tbl, AllSteps[n].col),
         NEW r \in DOMAIN db.rows[AllSteps[n].tbl]
  PROVE  LET s == AllSteps[n]
             w == db.rows[s.tbl][r][s.col]
         IN w \in Cells /\ w <= s.target.type /\ (w = Null => s.target.null)
  <1> DEFINE s == AllSteps[n]
             op == script[Undone(n)]
             old == past.origin
             type == old.cols[s.tbl][s.col].type
             v == old.rows[s.tbl][r][s.col]
             w == db.rows[s.tbl][r][s.col]
  <1>1. /\ UndoInv /\ Known /\ TypeOK /\ FromDecisions /\ ~Contradictory /\ NoDrift(old)
        /\ past.state = "applied" /\ Fits(old) /\ NullsFit(old)
        /\ old \in Databases /\ db \in Databases
    <2>1. UndoInv /\ Known /\ TypeOK /\ FromDecisions /\ ~Contradictory /\ NoDrift(old)
      BY FineIs, UndoingMeets DEF UndoInv, Known
    <2>2. Fits(old) /\ NullsFit(old)
      BY <2>1 DEF UndoInv, CoherentRun, Coherent, Sound
    <2>3. QED  BY <2>1, <2>2 DEF Undoing, TypeOK, Histories
  <1>2. /\ Undone(n) \in 1 .. Len(script) /\ op \in Steps /\ op.kind = "modify_column"
        /\ op.tbl = s.tbl /\ op.col = s.col /\ s.target = op.observed
        /\ s.tbl \in Tables /\ s.col \in Columns /\ s \in Steps /\ op.target.type # 0
    <2>1. /\ Undone(n) \in 1 .. Len(script) /\ op \in Steps /\ op.kind = "modify_column"
          /\ op.tbl = s.tbl /\ op.col = s.col /\ s.target = op.observed /\ s \in Steps
      BY <1>1, UndoingSource DEF Undoes
    <2>2. QED  BY <1>1, <2>1, StepFields, ForwardStep DEF ColumnKinds
  <1>3. ColumnIs(old, s.tbl, s.col, op.observed)
    BY <1>1, <1>2 DEF NoDrift, AsCompared
  <1>4. /\ HasColumn(old, s.tbl, s.col) /\ type = s.target.type
        /\ old.cols[s.tbl][s.col].null = s.target.null
    BY <1>2, <1>3 DEF ColumnIs, Stored
  <1>5. r \in DOMAIN old.rows[s.tbl]
    BY <1>1, <1>2, <1>4 DEF UndoInv, OriginCells
  <1>6. v \in Cells /\ w \in Cells /\ v <= type /\ type \in Cells /\ (v = Null => s.target.null)
    <2>1. v \in Cells /\ w \in Cells
      BY <1>1, <1>2, <1>5, CellsOf
    <2>2. type \in Cells
      <3>1. old.cols[s.tbl] \in [Columns -> StoredColumns]
        BY <1>1, <1>2, DatabaseFields
      <3>2. QED  BY <1>2, <3>1 DEF StoredColumns
    <2>3. QED  BY <1>1, <1>2, <1>4, <1>5, <2>1, <2>2 DEF Fits, NullsFit
  <1>7. w = Altered(type, op, v)
    <2>1. PastCell(op, r)
      BY <1>1, <1>2, FineIs DEF PastCells
    <2>2. QED  BY <1>1, <1>2, <2>1 DEF PastCell
  <1>8. w = Null => v = Null
    BY <1>2, <1>6, <1>7, AlteredThere
  <1> HIDE DEF v, w, type
  <1>9. w <= type
    <2>1. Filled(type, op, v) <= type
      BY <1>6, CutFits, StepFields, AttributesFields, <1>2 DEF Filled, Cut, Fill, Cells
    <2>2. Filled(type, op, v) \in Nat /\ type \in Nat /\ op.target.type \in Nat
      BY <1>2, <1>6, AlteredType, StepFields, AttributesFields, CellIsNat
    <2>3. QED  BY <1>6, <1>7, <2>1, <2>2 DEF Altered, Cut
  <1>10. QED  BY <1>4, <1>6, <1>8, <1>9 DEF w

(* A backup's name is free: no other step of the run has taken it.          *)
LEMMA CopyGoes ==
  ASSUME Fine, AtCopy
  PROVE  CanCopy(work, Step, run.undo)
  <1> DEFINE s == Step
             b == BackupOf(Step, run.undo)
  <1>0. Applying /\ Copies(s) /\ ~run.copied
    BY DEF AtCopy
  <1>1. /\ UndoInv /\ Known /\ Active /\ ~Contradictory /\ ~SharesBackup
        /\ run.at \in 1 .. Len(script) /\ run.at \notin Performed /\ s = AllSteps[run.at]
        /\ s \in Steps /\ s.tbl \in Tables /\ s.col \in Columns
        /\ Check(db, s, run.undo) = "go" /\ run.undo \in BOOLEAN /\ db \in Databases
        /\ Forward \/ Undoing
    BY <1>0, FineApply, AtStep
  <1>2. /\ s.kind = "drop_table" => Exists(db, s.tbl)
        /\ s.kind = "drop_column" => HasColumn(db, s.tbl, s.col)
    BY <1>1, GoNeeds
  <1>3. ~BackedUp(db, b)
    <2>1. CASE s.kind = "drop_table"
      <3>1. CheckDropTable(db, s, run.undo) = "go"
        BY <1>1, <2>1 DEF Check
      <3>2. QED  BY <2>1, <3>1 DEF CheckDropTable, BackupOf
    <2>2. CASE s.kind = "drop_column"
      <3>1. CheckDropColumn(db, s, run.undo) = "go"
        BY <1>1, <2>2 DEF Check
      <3>2. QED  BY <2>2, <3>1 DEF CheckDropColumn, BackupOf
    <2>3. QED  BY <1>0, <2>1, <2>2 DEF Copies
  <1>4. Backup(work, s) # {}
    <2>1. CASE s.kind = "drop_table"
      <3>1. PICK c \in Columns : HasColumn(db, s.tbl, c)
        BY <1>2, <2>1 DEF Exists
      <3>2. SameColumn(db, work, s.tbl, c)
        BY <1>0, <1>1, <2>1, AtScope DEF Touches, TableKinds
      <3>3. HasColumn(work, s.tbl, c)
        BY <3>1, <3>2 DEF SameColumn, Keeps, HasColumn
      <3>4. c \in Backup(work, s)
        BY <2>1, <3>3 DEF Backup
      <3>5. QED  BY <3>4
    <2>2. CASE s.kind = "drop_column"
      <3>1. SameColumn(db, work, s.tbl, s.col)
        BY <1>0, <1>1, AtScope
      <3>2. HasColumn(work, s.tbl, s.col)
        BY <1>2, <2>2, <3>1 DEF SameColumn, Keeps, HasColumn
      <3>3. s.col \in Backup(work, s)
        BY <1>1, <3>2 DEF Backup
      <3>4. QED  BY <3>3
    <2>3. QED  BY <1>0, <2>1, <2>2 DEF Copies
  <1>5. ASSUME BackedUp(work, b) PROVE FALSE
    <2>1. b \in BackupNames
      BY <1>1, BackupType
    <2>2. Copying = {}
      BY <1>0 DEF Copying
    <2>3. PICK m \in Performed : Copies(AllSteps[m]) /\ b = BackupOf(AllSteps[m], run.undo)
      BY <1>1, <1>3, <1>5, <2>1, <2>2, FineIs DEF BackupsKnown
    <2>4. m \in 1 .. Len(script) /\ m # run.at
      BY <1>1 DEF Performed
    <2>5. /\ Bare[AllSteps[m].tbl] = Bare[s.tbl] /\ AllSteps[m].kind = s.kind
          /\ s.kind = "drop_column" => AllSteps[m].col = s.col
      BY <1>0, <2>3 DEF BackupOf, BackupName, Copies, Whole
    <2>6. AllSteps[m].tbl # s.tbl
      <3>1. CASE AllSteps[m].tbl = s.tbl
        <4>1. AllSteps[m].col # s.col /\ AllSteps[m].kind \notin TableKinds
          BY <1>1, <2>4, <3>1, StepsApart
        <4>2. QED  BY <1>0, <2>5, <4>1 DEF TableKinds, Copies
      <3>2. QED  BY <3>1
    <2>7. /\ Source(m) \in 1 .. Len(script) /\ Source(run.at) \in 1 .. Len(script)
          /\ script[Source(m)].tbl = AllSteps[m].tbl /\ script[Source(run.at)].tbl = s.tbl
          /\ script[Source(m)].col = AllSteps[m].col /\ script[Source(run.at)].col = s.col
      BY <1>1, <2>4, StepSource
    <2>8. /\ script[Source(m)].kind = script[Source(run.at)].kind
          /\ script[Source(m)].kind \notin {"create_table", "drop_table"} => s.kind = "drop_column"
      <3>1. CASE Forward
        BY <1>0, <1>1, <2>4, <2>5, <3>1, RunStep DEF Forward, Source, Copies, Known
      <3>2. CASE Undoing
        <4>1. /\ Undoes(AllSteps[m], script[Source(m)], Source(m))
              /\ Undoes(s, script[Source(run.at)], Source(run.at))
          BY <1>1, <2>4, <3>2, UndoingSource
        <4>2. QED  BY <1>0, <2>5, <4>1 DEF Undoes, Copies
      <3>3. QED  BY <1>1, <3>1, <3>2
    <2>9. QED  BY <1>1, <2>5, <2>6, <2>7, <2>8 DEF SharesBackup
  <1>6. QED  BY <1>4, <1>5 DEF CanCopy

(* A table whose columns are changed keeps one of them.                     *)
LEMMA OneStays ==
  ASSUME Fine, Applying, Step.kind \in {"drop_column", "add_column", "restore_column"}
  PROVE  \E c \in Columns \ {Step.col} : HasColumn(work, Step.tbl, c)
  <1> DEFINE t == Step.tbl
  <1>1. /\ UndoInv /\ Known /\ TypeOK /\ FromDecisions /\ Active /\ ~Contradictory
        /\ run.at \in 1 .. Len(script) /\ run.at \notin Performed /\ Step = AllSteps[run.at]
        /\ Step \in Steps /\ t \in Tables /\ Step.col \in Columns
        /\ Check(db, Step, run.undo) = "go"
        /\ \/ Forward /\ NoDrift(db) /\ ~Unforeseen(db)
           \/ Undoing /\ NoDrift(past.origin) /\ ~Unforeseen(past.origin)
    BY FineApply
  <1>2. \A m \in Performed :
          /\ m \in 1 .. Len(script)
          /\ AllSteps[m].tbl = t => AllSteps[m].kind \notin TableKinds
    BY <1>1, StepsApart DEF Performed
  <1>3. \A c \in Columns : HasColumn(db, t, c) =>
          \/ HasColumn(work, t, c)
          \/ \E m \in Performed : AllSteps[m].kind = "drop_column" /\ AllSteps[m].tbl = t
                                  /\ AllSteps[m].col = c
    BY <1>1, <1>2, FineIs DEF ColumnsKnown, Touches, Copies, TableKinds
  <1>4. CASE Forward /\ NoDrift(db) /\ ~Unforeseen(db)
    <2>1. ~run.undo
      BY <1>4 DEF Forward
    <2>2. Step = script[run.at] /\ Step.kind \in {"drop_column", "add_column"}
      BY <1>1, <2>1, RunStep DEF ForwardKinds
    <2>3. Exists(db, t) /\ (Step.kind = "add_column" => ~HasColumn(db, t, Step.col))
      BY <1>1, <2>2, GoNeeds DEF Exists
    <2>4. PICK c \in Columns :
            /\ HasColumn(db, t, c)
            /\ ~\E n \in 1 .. Len(script) :
                 script[n].kind = "drop_column" /\ script[n].tbl = t /\ script[n].col = c
      BY <1>1, <1>4, <2>3 DEF Unforeseen, EmptiesTable
    <2>5. \A m \in Performed : AllSteps[m] = script[m]
      BY <1>1, <1>2, <2>1, RunStep
    <2>6. HasColumn(work, t, c)
      BY <1>2, <1>3, <2>4, <2>5
    <2>7. c # Step.col
      BY <1>1, <2>2, <2>3, <2>4
    <2>8. QED  BY <2>6, <2>7
  <1>5. CASE Undoing /\ NoDrift(past.origin) /\ ~Unforeseen(past.origin)
    <2> DEFINE old == past.origin
               u == Undone(run.at)
    <2>1. /\ u \in 1 .. Len(script) /\ Undoes(Step, script[u], u)
          /\ Step.kind \in UndoKinds /\ past.state = "applied"
      BY <1>1, <1>5, UndoingSource DEF Undoing
    <2>2. /\ Step.kind = "drop_column" => script[u].kind = "add_column"
          /\ Step.kind = "restore_column" => script[u].kind = "drop_column"
          /\ Step.kind \in {"drop_column", "restore_column"}
          /\ script[u].tbl = t /\ script[u].col = Step.col
      BY <2>1 DEF Undoes, UndoKinds
    <2>3. AsCompared(old, script[u])
      BY <1>5, <2>1 DEF NoDrift
    <2>4. Exists(old, t)
      <3>1. CASE Step.kind = "drop_column"
        BY <1>5, <2>1, <2>2, <3>1, FineIs DEF TablesExtended
      <3>2. CASE Step.kind = "restore_column"
        <4>1. HasColumn(old, t, Step.col)
          BY <2>2, <2>3, <3>2 DEF AsCompared, ColumnIs
        <4>2. QED  BY <1>1, <4>1 DEF Exists
      <3>3. QED  BY <2>2, <3>1, <3>2
    <2>5. PICK c \in Columns :
            /\ HasColumn(old, t, c)
            /\ ~\E n \in 1 .. Len(script) :
                 script[n].kind = "drop_column" /\ script[n].tbl = t /\ script[n].col = c
      BY <1>1, <1>5, <2>4 DEF Unforeseen, EmptiesTable
    <2>6. \A n \in 1 .. Len(script) :
            script[n].kind = "add_column" /\ script[n].tbl = t => script[n].col # c
      <3>1. \A n \in 1 .. Len(script) : AsCompared(old, script[n])
        BY <1>5 DEF NoDrift
      <3>2. QED  BY <2>5, <3>1 DEF AsCompared
    <2>7. c # Step.col
      BY <2>1, <2>2, <2>5, <2>6
    <2>8. HasColumn(db, t, c)
      <3>1. CASE \A n \in 1 .. Len(script) : ~Touches(script[n], t, c)
        <4>1. SameColumn(old, db, t, c)
          BY <1>1, <3>1 DEF UndoInv, OriginFrame, Frame, ScriptSteps
        <4>2. QED  BY <2>5, <4>1 DEF SameColumn, Keeps, HasColumn
      <3>2. ASSUME NEW n \in 1 .. Len(script), Touches(script[n], t, c)
            PROVE  HasColumn(db, t, c)
        <4>1. script[n].tbl = t /\ script[n] \in Steps /\ script[n].kind \in ForwardKinds
          BY <1>1, <3>2, ForwardStep DEF Touches
        <4>2. script[n].kind \notin {"create_table", "drop_table"}
          <5>1. CASE n = u
            BY <2>2, <5>1
          <5>2. CASE n # u
            BY <1>1, <2>1, <2>2, <4>1, <5>2 DEF Contradictory
          <5>3. QED  BY <5>1, <5>2
        <4>3. script[n].col = c
          BY <3>2, <4>1, <4>2 DEF Touches, TableKinds, ForwardKinds
        <4>4. script[n].kind = "modify_column"
          BY <2>5, <2>6, <4>1, <4>2, <4>3 DEF ForwardKinds
        <4>5. Goal(db, script[n])
          BY <1>1, <2>1 DEF Known, AllApplied, AppliedSteps
        <4>6. QED  BY <4>1, <4>3, <4>4, <4>5 DEF Goal, ColumnIs
      <3>3. QED  BY <3>1, <3>2
    <2>9. \A m \in Performed : AllSteps[m].kind = "drop_column" /\ AllSteps[m].tbl = t =>
            AllSteps[m].col # c
      <3>1. SUFFICES ASSUME NEW m \in Performed, AllSteps[m].kind = "drop_column",
                            AllSteps[m].tbl = t
                     PROVE  AllSteps[m].col # c
        OBVIOUS
      <3>2. /\ Undone(m) \in 1 .. Len(script)
            /\ Undoes(AllSteps[m], script[Undone(m)], Undone(m))
        BY <1>1, <1>2, <1>5, UndoingSource
      <3>3. QED  BY <2>6, <3>1, <3>2 DEF Undoes
    <2>10. QED  BY <1>3, <2>7, <2>8, <2>9
  <1>6. QED  BY <1>1, <1>4, <1>5

-----------------------------------------------------------------------------------
(* What each change needs of the database the run works on.                 *)
LEMMA CreateGoes ==
  ASSUME Fine, Applying, Step.kind \in {"create_table", "restore_table"}
  PROVE  ~Exists(work, Step.tbl)
  <1>1. UndoInv /\ ~Contradictory /\ Step \in Steps /\ Step.tbl \in Tables
        /\ Check(db, Step, run.undo) = "go"
    BY FineApply
  <1>2. ~Exists(db, Step.tbl)
    BY <1>1, GoNeeds
  <1>3. \A c \in Columns : SameColumn(db, work, Step.tbl, c)
    BY <1>1, AtScope DEF Touches, TableKinds
  <1>4. QED  BY <1>2, <1>3 DEF Exists, HasColumn, SameColumn, Keeps

(* A dependent that no script recreates was committed.                      *)
LEMMA OldDependent ==
  ASSUME Fine, Applying, NEW x \in work.deps, x.kind # "default"
  PROVE  x \in db.deps /\ (Undoing => x \in past.origin.deps)
  <1>1. UndoInv /\ Active /\ run.phase = "apply"
    BY FineApply
  <1>2. x \in db.deps
    BY <1>1 DEF UndoInv, Gained
  <1>3. QED  BY <1>1, <1>2 DEF UndoInv, PastGained, Undoing

LEMMA DropTableGoes ==
  ASSUME Fine, Applying, Step.kind = "drop_table"
  PROVE  CanDropTable(work, Step)
  <1>1. /\ UndoInv /\ ~Contradictory /\ Step \in Steps /\ Step.tbl \in Tables
        /\ Check(db, Step, run.undo) = "go" /\ run.at \in 1 .. Len(script)
        /\ Known /\ TypeOK /\ FromDecisions /\ Step = AllSteps[run.at] /\ CoherentRun
        /\ \/ Forward /\ ~Unforeseen(db)
           \/ Undoing /\ NoDrift(past.origin)
    BY FineApply
  <1>2. Exists(db, Step.tbl)
    BY <1>1, GoNeeds
  <1>3. \A c \in Columns : SameColumn(db, work, Step.tbl, c)
    BY <1>1, AtScope DEF Touches, TableKinds
  <1>4. Exists(work, Step.tbl)
    BY <1>2, <1>3 DEF Exists, HasColumn, SameColumn, Keeps
  <1>5. ASSUME NEW x \in work.deps, x.tbl = Step.tbl, x.kind = "bound"
        PROVE  FALSE
    <2>1. x \in db.deps /\ (Undoing => x \in past.origin.deps)
      BY <1>5, OldDependent
    <2>2. CASE Forward /\ ~Unforeseen(db)
      <3>1. Step = script[run.at]
        BY <1>1, <2>2, RunStep DEF Forward
      <3>2. QED  BY <1>1, <1>5, <2>1, <2>2, <3>1 DEF Unforeseen, DropsBound
    <2>3. CASE Undoing /\ NoDrift(past.origin)
      <3>1. Undone(run.at) \in 1 .. Len(script)
            /\ Undoes(Step, script[Undone(run.at)], Undone(run.at))
        BY <1>1, <2>3, UndoingSource
      <3>2. AsCompared(past.origin, script[Undone(run.at)])
        BY <2>3, <3>1 DEF NoDrift
      <3>3. ~Exists(past.origin, Step.tbl)
        BY <3>1, <3>2 DEF Undoes, AsCompared
      <3>4. Placed(past.origin)
        BY <1>1 DEF CoherentRun, Coherent
      <3>5. QED  BY <1>5, <2>1, <2>3, <3>3, <3>4 DEF Placed
    <2>4. QED  BY <1>1, <2>2, <2>3
  <1>6. QED  BY <1>4, <1>5 DEF CanDropTable

LEMMA DropColumnGoes ==
  ASSUME Fine, Applying, Step.kind = "drop_column"
  PROVE  CanDropColumn(work, Step)
  <1>1. /\ UndoInv /\ ~Contradictory /\ Step \in Steps
        /\ Check(db, Step, run.undo) = "go"
    BY FineApply
  <1>2. HasColumn(db, Step.tbl, Step.col)
    BY <1>1, GoNeeds
  <1>3. HasColumn(work, Step.tbl, Step.col)
    BY <1>1, <1>2, AtScope DEF SameColumn, Keeps, HasColumn
  <1>4. Blockers(db, Step, FALSE) = {}
    <2>1. CheckDropColumn(db, Step, run.undo) = "go"
      BY <1>1 DEF Check
    <2>2. QED  BY <2>1 DEF CheckDropColumn
  <1>5. Blockers(work, Step, FALSE) = {}
    BY <1>4, OldDependent DEF Blockers
  <1>6. QED  BY <1>3, <1>5, OneStays DEF CanDropColumn

(* A table has one IDENTITY column: the script drops it before it adds one. *)
LEMMA OneIdentity ==
  ASSUME Fine, Applying, Step.kind = "add_column", Step.target.ident,
         NEW c \in Columns, HasColumn(work, Step.tbl, c)
  PROVE  ~work.cols[Step.tbl][c].ident
  <1> DEFINE t == Step.tbl
  <1>1. /\ UndoInv /\ Known /\ TypeOK /\ FromDecisions /\ Active /\ ~Contradictory
        /\ run.at \in 1 .. Len(script) /\ run.at \notin Performed /\ Step = AllSteps[run.at]
        /\ Step \in Steps /\ t \in Tables /\ Step.col \in Columns
        /\ Check(db, Step, run.undo) = "go"
        /\ \/ Forward /\ NoDrift(db) /\ ~Unforeseen(db)
           \/ Undoing
    BY FineApply
  <1>2. Forward /\ NoDrift(db) /\ ~Unforeseen(db) /\ ~run.undo
    <2>1. CASE Undoing
      BY <1>1, <2>1, UndoingSource DEF UndoKinds
    <2>2. QED  BY <1>1, <2>1 DEF Forward
  <1>3. \A n \in 1 .. Len(script) : AllSteps[n] = script[n]
    BY <1>1, <1>2, RunStep
  <1>4. AddsIdentity(run.at, t)
    BY <1>1, <1>3 DEF AddsIdentity
  <1>5. /\ \A m \in (1 .. Len(script)) \ {run.at} : ~AddsIdentity(m, t)
        /\ HasColumn(db, t, c) /\ db.cols[t][c].ident =>
             \E m \in 1 .. Len(script) :
               script[m].kind = "drop_column" /\ script[m].tbl = t /\ script[m].col = c
    BY <1>1, <1>2, <1>4 DEF Unforeseen, SecondIdentity
  <1>6. ASSUME HasColumn(db, t, c), db.cols[t][c].ident,
               ~\E m \in Performed : AllSteps[m].kind = "drop_column" /\ AllSteps[m].tbl = t
                                     /\ AllSteps[m].col = c
        PROVE  FALSE
    <2>1. PICK m \in 1 .. Len(script) :
            script[m].kind = "drop_column" /\ script[m].tbl = t /\ script[m].col = c
      BY <1>5, <1>6
    <2>2. m # run.at /\ m \in Nat /\ run.at \in Nat
      BY <1>1, <1>3, <2>1
    <2>3. ~(run.at < m)
      BY <1>1, <1>3, <2>1, DropOrder DEF ColumnKinds
    <2>4. m \notin Performed
      BY <1>3, <1>6, <2>1
    <2>5. m \in run.skip
      BY <1>1, <2>1, <2>2, <2>3, <2>4 DEF Performed
    <2>6. Check(db, script[m], run.undo) = "skip"
      <3>1. m \in Passed /\ ChecksPassed
        BY <1>1, <2>1 DEF Passed, Known, Undisturbed
      <3>2. QED  BY <1>3, <2>1, <2>5, <3>1 DEF ChecksPassed
    <2>7. CheckDropColumn(db, script[m], run.undo) = "skip"
      BY <2>1, <2>6 DEF Check
    <2>8. QED  BY <1>6, <2>1, <2>7 DEF CheckDropColumn
  <1>7. CASE \E m \in Performed : Touches(AllSteps[m], t, c)
    <2>1. PICK m \in Performed : Touches(AllSteps[m], t, c)
      BY <1>7
    <2>2. m \in 1 .. Len(script) /\ m # run.at /\ AllSteps[m] = script[m]
      BY <1>1, <1>3 DEF Performed
    <2>3. /\ script[m].tbl = t /\ script[m].col = c /\ script[m].kind \notin TableKinds
          /\ script[m] \in Steps /\ script[m].kind \in ForwardKinds
      BY <1>1, <2>1, <2>2, StepsApart, ForwardStep DEF Touches
    <2>4. StepDone(m)
      BY <1>1, FineIs DEF Effects
    <2>5. Goal(work, script[m])
      BY <2>2, <2>3, <2>4 DEF StepDone, RestoreKinds, TableKinds, ForwardKinds
    <2>6. CASE script[m].kind = "drop_column"
      BY <2>3, <2>5, <2>6 DEF Goal
    <2>7. CASE script[m].kind = "add_column"
      <3>1. ColumnIs(work, t, c, script[m].target)
        BY <2>3, <2>5, <2>7 DEF Goal
      <3>2. ~script[m].target.ident
        BY <1>5, <2>2, <2>3, <2>7 DEF AddsIdentity
      <3>3. QED  BY <3>1, <3>2 DEF ColumnIs, Stored
    <2>8. CASE script[m].kind = "modify_column"
      <3>1. ColumnIs(work, t, c, script[m].target)
        BY <2>3, <2>5, <2>8 DEF Goal
      <3>2. Check(db, script[m], run.undo) = "go"
        BY <1>1, <2>2, PerformedChecked DEF Known, Undisturbed
      <3>3. HasColumn(db, t, c) /\ db.cols[t][c].ident = script[m].target.ident
        <4>1. /\ HasColumn(db, script[m].tbl, script[m].col)
              /\ db.cols[script[m].tbl][script[m].col].ident = script[m].target.ident
          BY <2>3, <2>8, <3>2, ModifyChecked
        <4>2. QED  BY <2>3, <4>1
      <3>4. work.cols[t][c].ident = db.cols[t][c].ident
        BY <3>1, <3>3 DEF ColumnIs, Stored
      <3>5. ~\E k \in Performed : AllSteps[k].kind = "drop_column" /\ AllSteps[k].tbl = t
                                  /\ AllSteps[k].col = c
        <4>1. SUFFICES ASSUME NEW k \in Performed, AllSteps[k].kind = "drop_column",
                              AllSteps[k].tbl = t, AllSteps[k].col = c
                       PROVE  FALSE
          OBVIOUS
        <4>2. k \in 1 .. Len(script) /\ k # m
          BY <2>2, <2>8, <4>1 DEF Performed
        <4>3. QED  BY <1>1, <2>2, <2>3, <4>1, <4>2, StepsApart
      <3>6. QED  BY <1>6, <3>3, <3>4, <3>5
    <2>9. QED  BY <2>3, <2>6, <2>7, <2>8 DEF ForwardKinds, TableKinds
  <1>8. CASE ~\E m \in Performed : Touches(AllSteps[m], t, c)
    <2>1. SameColumn(db, work, t, c)
      BY <1>1, <1>8 DEF UndoInv, RunFrame, Frame, Done
    <2>2. HasColumn(db, t, c) /\ db.cols[t][c] = work.cols[t][c]
      BY <2>1 DEF SameColumn, Keeps, HasColumn
    <2>3. QED  BY <1>6, <1>8, <2>2 DEF Touches
  <1>9. QED  BY <1>7, <1>8

LEMMA AddColumnGoes ==
  ASSUME Fine, Applying, Step.kind = "add_column"
  PROVE  CanAddColumn(work, Step)
  <1>1. /\ UndoInv /\ Known /\ TypeOK /\ FromDecisions /\ ~Contradictory /\ ~MisfitsColumn
        /\ run.at \in 1 .. Len(script) /\ Step = AllSteps[run.at]
        /\ Step \in Steps /\ Check(db, Step, run.undo) = "go"
        /\ Forward \/ Undoing
    BY FineApply
  <1>2. Step = script[run.at]
    <2>1. CASE Undoing
      BY <1>1, <2>1, UndoingSource DEF UndoKinds
    <2>2. QED  BY <1>1, <2>1, RunStep DEF Forward
  <1>3. ~HasColumn(work, Step.tbl, Step.col) /\ DOMAIN work.rows[Step.tbl] = DOMAIN db.rows[Step.tbl]
    <2>1. ~HasColumn(db, Step.tbl, Step.col)
      BY <1>1, GoNeeds
    <2>2. QED  BY <1>1, <2>1, AtScope DEF SameColumn, Keeps, HasColumn
  <1>4. Exists(work, Step.tbl)
    BY OneStays DEF Exists
  <1>5. NeedsValue(Step) /\ Step.backfill = 0 => DOMAIN db.rows[Step.tbl] = {}
    <2>1. CheckAddColumn(db, Step) = "go"
      BY <1>1 DEF Check
    <2>2. QED  BY <2>1 DEF CheckAddColumn
  <1>6. Stores(NewValue(Step), Step.target.type)
    BY <1>1, <1>2 DEF MisfitsColumn
  <1>7. QED  BY <1>3, <1>4, <1>5, <1>6, OneIdentity DEF CanAddColumn

(* What a change is about is as it was committed, and what a step of the    *)
(* script was decided on.                                                   *)
LEMMA ModifyAt ==
  ASSUME Fine, Applying, Step.kind = "modify_column"
  PROVE  /\ SameColumn(db, work, Step.tbl, Step.col)
         /\ HasColumn(db, Step.tbl, Step.col) /\ Step.target.type # 0
         /\ \/ /\ Forward /\ NoDrift(db) /\ ~Unforeseen(db) /\ Step = script[run.at]
               /\ run.at \in ChangesOf(Step.tbl, Step.col)
            \/ Undoing
         /\ Undoing => \A r \in DOMAIN db.rows[Step.tbl] :
              /\ db.rows[Step.tbl][r][Step.col] <= Step.target.type
              /\ db.rows[Step.tbl][r][Step.col] = Null => Step.target.null
  <1>1. /\ UndoInv /\ Known /\ TypeOK /\ FromDecisions /\ ~Contradictory
        /\ run.at \in 1 .. Len(script) /\ Step = AllSteps[run.at]
        /\ Step \in Steps /\ Check(db, Step, run.undo) = "go"
        /\ \/ Forward /\ NoDrift(db) /\ ~Unforeseen(db)
           \/ Undoing
    BY FineApply
  <1>2. SameColumn(db, work, Step.tbl, Step.col)
    BY <1>1, AtScope
  <1>3. HasColumn(db, Step.tbl, Step.col) /\ Step.target.type # 0
    BY <1>1, ModifyChecked, RunStep
  <1>4. Forward => Step = script[run.at] /\ run.at \in ChangesOf(Step.tbl, Step.col)
    BY <1>1, RunStep DEF Forward, ChangesOf
  <1>5. Undoing => \A r \in DOMAIN db.rows[Step.tbl] :
          /\ db.rows[Step.tbl][r][Step.col] <= Step.target.type
          /\ db.rows[Step.tbl][r][Step.col] = Null => Step.target.null
    BY <1>1, <1>3, UndoneFits
  <1>6. QED  BY <1>1, <1>2, <1>3, <1>4, <1>5

(* Every value of a changed column can be stored in its new type.           *)
LEMMA ChangedCell ==
  ASSUME Fine, Applying, Step.kind = "modify_column", Alters(Step),
         NEW r \in DOMAIN work.rows[Step.tbl]
  PROVE  /\ r \in DOMAIN db.rows[Step.tbl]
         /\ work.rows[Step.tbl][r][Step.col] = db.rows[Step.tbl][r][Step.col]
         /\ CanAlter(work.cols[Step.tbl][Step.col].type, Step, work.rows[Step.tbl][r][Step.col])
  <1> DEFINE t == Step.tbl
             c == Step.col
             v == work.rows[t][r][c]
             old == work.cols[t][c].type
  <1>1. /\ UndoInv /\ TypeOK /\ FromDecisions /\ CoherentRun
        /\ Step \in Steps /\ t \in Tables /\ c \in Columns /\ Check(db, Step, run.undo) = "go"
        /\ db \in Databases /\ Coherent(db) /\ work \in Databases
    BY FineApply DEF CoherentRun
  <1>2. /\ r \in DOMAIN db.rows[t] /\ v = db.rows[t][r][c] /\ v \in Cells
        /\ old = db.cols[t][c].type
        /\ v \in Column(db.rows[t], c)
    BY <1>1, ModifyAt, CellsOf DEF SameColumn, Keeps, Column
  <1>3. Step.target.type \in Nat /\ Step.target.type # 0 /\ v \in Nat
    BY <1>1, <1>2, ModifyAt, StepFields, AttributesFields DEF Cells
  <1> HIDE DEF v, old
  <1>4. CASE Undoing
    <2>1. v <= Step.target.type /\ (v = Null => Step.target.null)
      BY <1>2, <1>4, ModifyAt DEF v
    <2>2. Filled(old, Step, v) = v
      BY <2>1 DEF Filled, FillsNulls
    <2>3. Altered(old, Step, v) = v
      BY <1>3, <2>1, <2>2, CutFits DEF Altered
    <2>4. CanAlter(old, Step, v)
      BY <2>1, <2>2, <2>3 DEF CanAlter, Stores, FillsNulls
    <2>5. QED  BY <1>2, <2>4 DEF v, old
  <1>5. CASE Forward /\ ~Unforeseen(db) /\ Step = script[run.at]
    <2>1. run.at \in 1 .. Len(script)
      BY FineApply
    <2>2. CASE v = Null /\ FillsNulls(Step)
      <3>1. ~RefusesFill(db)
        BY <1>5 DEF Unforeseen
      <3>2. CanAlter(db.cols[t][c].type, Step, Null)
        BY <1>2, <1>5, <2>1, <2>2, <3>1 DEF RefusesFill
      <3>3. QED  BY <1>2, <2>2, <3>2 DEF v, old
    <2>3. CASE v = Null /\ ~FillsNulls(Step)
      <3>1. Filled(old, Step, v) = 0 /\ 0 <= Step.target.type
        BY <1>3, <2>3 DEF Filled, Null
      <3>2. ASSUME ~Step.target.null PROVE FALSE
        <4>1. Step.observed.type # 0 /\ ~Step.observed.null
          BY <2>3, <3>2 DEF FillsNulls
        <4>2. ColumnIs(db, t, c, Step.observed)
          BY <1>1, <4>1, ModifyChecked
        <4>3. HasColumn(db, t, c) /\ ~db.cols[t][c].null
          BY <4>1, <4>2 DEF ColumnIs, Stored
        <4>4. QED  BY <1>1, <1>2, <2>3, <4>3 DEF Coherent, NullsFit, v
      <3>3. CanAlter(old, Step, v)
        BY <2>3, <3>1, <3>2 DEF CanAlter, Stores
      <3>4. QED  BY <1>2, <3>3 DEF v, old
    <2>4. CASE v # Null
      <3>1. Stores(v, Step.target.type)
        <4>1. CASE Step.accept \/ ~MayLoseData(Step)
          <5>1. ~RefusesValue(db)
            BY <1>5 DEF Unforeseen
          <5>2. QED  BY <1>2, <1>5, <2>1, <4>1, <5>1 DEF RefusesValue
        <4>2. CASE ~Step.accept /\ MayLoseData(Step)
          <5>1. ~LosesRows(db, Step)
            BY <1>1, <4>2, ModifyChecked
          <5>2. QED  BY <1>2, <2>4, <5>1 DEF LosesRows
        <4>3. QED  BY <4>1, <4>2
      <3>2. Altered(old, Step, v) # Null
        BY <1>1, <1>2, <1>3, <2>4, AlteredThere
      <3>3. CanAlter(old, Step, v)
        BY <2>4, <3>1, <3>2 DEF CanAlter, Filled
      <3>4. QED  BY <1>2, <3>3 DEF v, old
    <2>5. QED  BY <2>2, <2>3, <2>4
  <1>6. QED  BY <1>4, <1>5, ModifyAt

(* A column that the script may not shorten keeps its values, and what      *)
(* fills its NULLs is the fill of the step.                                 *)
LEMMA ChangedSame ==
  ASSUME Fine, Applying, Step.kind = "modify_column", Alters(Step),
         ~Loses(script, Step.tbl, Step.col), NEW r \in DOMAIN work.rows[Step.tbl]
  PROVE  LET v == work.rows[Step.tbl][r][Step.col]
             a == Altered(work.cols[Step.tbl][Step.col].type, Step, v)
         IN a = v \/ (Forward /\ FillsNulls(Step) /\ v = Null)
  <1> DEFINE t == Step.tbl
             c == Step.col
             v == work.rows[t][r][c]
             old == work.cols[t][c].type
  <1>1. /\ TypeOK /\ ChecksPassed /\ Fits(db) /\ Step \in Steps
        /\ run.at \in 1 .. Len(script)
    BY FineApply DEF CoherentRun, Known, Undisturbed, Coherent, Sound
  <1>2. r \in DOMAIN db.rows[t] /\ v = db.rows[t][r][c] /\ CanAlter(old, Step, v)
    BY ChangedCell
  <1>3. Altered(old, Step, v) = v \/ Shortens(Step, v) \/ (FillsNulls(Step) /\ v = Null)
    BY <1>1, <1>2, AlteredKept
  <1>4. CASE Undoing
    <2>1. v <= Step.target.type /\ (v = Null => Step.target.null)
      BY <1>2, <1>4, ModifyAt
    <2>2. Step.target.type \in Nat /\ v \in Nat
      BY <1>1, <1>2, FineApply, CellsOf, StepFields, AttributesFields DEF Cells
    <2> HIDE DEF v, old
    <2>3. ~Shortens(Step, v) /\ ~(FillsNulls(Step) /\ v = Null)
      BY <2>1, <2>2 DEF Shortens, FillsNulls
    <2>4. QED  BY <1>3, <2>3 DEF v, old
  <1>5. CASE Forward /\ Step = script[run.at]
    <2>1. ~Lossy(Step)
      BY <1>1, <1>5 DEF Loses
    <2>2. QED  BY <1>3, <1>5, <2>1 DEF Shortens
  <1>6. QED  BY <1>4, <1>5, ModifyAt

(* A change of a column keeps its key: it holds no NULL, stays one, and its *)
(* values are those that were committed.                                    *)
LEMMA ChangedKey ==
  ASSUME Fine, Applying, Step.kind = "modify_column", Alters(Step),
         NEW x \in work.deps, x.kind = "pk", x.tbl = Step.tbl, Step.col \in x.cols
  PROVE  /\ ~Step.target.null
         /\ \A r \in DOMAIN work.rows[Step.tbl] :
              Altered(work.cols[Step.tbl][Step.col].type, Step, work.rows[Step.tbl][r][Step.col])
                = work.rows[Step.tbl][r][Step.col]
  <1> DEFINE t == Step.tbl
             c == Step.col
  <1>1. /\ UndoInv /\ Known /\ TypeOK /\ FromDecisions /\ CoherentRun /\ ~Contradictory
        /\ run.at \in 1 .. Len(script) /\ Step = AllSteps[run.at]
        /\ Step \in Steps /\ t \in Tables /\ c \in Columns
        /\ db \in Databases /\ Coherent(db) /\ Coherent(past.origin)
    BY FineApply DEF CoherentRun, Known, Undisturbed
  <1>2. x \in db.deps /\ (Undoing => x \in past.origin.deps)
    BY OldDependent
  <1>3. ~Step.target.null /\ ~Loses(script, t, c)
    <2>1. CASE Forward /\ ~Unforeseen(db) /\ Step = script[run.at] /\ run.at \in ChangesOf(t, c)
      <3>1. c \in PkColumns(db, t)
        BY <1>2 DEF PkColumns
      <3>2. ~Step.target.null
        BY <1>1, <2>1, <3>1 DEF Unforeseen, NullsKey
      <3>3. ~Loses(script, t, c)
        BY <1>1, <1>2, <2>1 DEF Unforeseen, CutsKey, OnColumn
      <3>4. QED  BY <3>2, <3>3
    <2>2. CASE Undoing
      <3> DEFINE op == script[Undone(run.at)]
      <3>1. Undone(run.at) \in 1 .. Len(script) /\ Undoes(Step, op, Undone(run.at))
        BY <1>1, <2>2, UndoingSource
      <3>2. op.kind = "modify_column" /\ Step.target = op.observed /\ op.tbl = t /\ op.col = c
        BY <3>1 DEF Undoes
      <3>3. ColumnIs(past.origin, t, c, Step.target)
        BY <2>2, <3>1, <3>2, UndoingMeets DEF NoDrift, AsCompared
      <3>4. ~past.origin.cols[t][c].null
        BY <1>1, <1>2, <2>2 DEF Coherent, Sound, KeysSound
      <3>5. ~Loses(script, t, c)
        BY <1>1, <1>2, <2>2, UndoingMeets DEF CutsKey, OnColumn
      <3>6. QED  BY <3>3, <3>4, <3>5 DEF ColumnIs, Stored
    <2>3. QED  BY <2>1, <2>2, ModifyAt
  <1>4. ASSUME NEW r \in DOMAIN work.rows[t]
        PROVE  Altered(work.cols[t][c].type, Step, work.rows[t][r][c]) = work.rows[t][r][c]
    <2>1. r \in DOMAIN db.rows[t] /\ work.rows[t][r][c] = db.rows[t][r][c]
      BY <1>1, <1>4, AtScope DEF SameColumn, Keeps
    <2>2. c \in PkColumns(db, t)
      BY <1>2 DEF PkColumns
    <2>3. work.rows[t][r][c] # Null
      BY <1>1, <2>1, <2>2, KeyNotNull DEF Coherent
    <2>4. QED  BY <1>3, <2>3, ChangedSame
  <1>5. QED  BY <1>3, <1>4

(* A value of a column of a unique index or check stays, or is a NULL that  *)
(* is filled with one that is new to the index and suits the check.         *)
LEMMA ChangedConstraint ==
  ASSUME Fine, Applying, Step.kind = "modify_column", Alters(Step),
         NEW x \in work.deps, x.kind \in {"unique", "check"}, x.tbl = Step.tbl,
         x \in Dependents, Step.col \in x.cols, NEW r \in DOMAIN work.rows[Step.tbl]
  PROVE  LET v == work.rows[Step.tbl][r][Step.col]
             a == Altered(work.cols[Step.tbl][Step.col].type, Step, v)
         IN \/ a = v
            \/ /\ v = Null
               /\ x.kind = "unique" => a \notin Column(work.rows[Step.tbl], Step.col) \ {Null}
               /\ x.kind = "check" => a # x.val
  <1> DEFINE t == Step.tbl
             c == Step.col
             v == work.rows[t][r][c]
             old == work.cols[t][c].type
  <1>1. x \in db.deps /\ (Undoing => x \in past.origin.deps)
    BY OldDependent
  <1>2. c \in Columns /\ OnColumn(x, x.tbl, c)
    BY FineApply DEF OnColumn
  <1>3. ~Loses(script, t, c)
    <2>1. CASE Undoing
      BY <1>1, <1>2, <2>1, UndoingMeets DEF CutsKey
    <2>2. CASE ~Unforeseen(db)
      BY <1>1, <1>2, <2>2 DEF Unforeseen, CutsKey
    <2>3. QED  BY <2>1, <2>2, ModifyAt
  <1>4. Altered(old, Step, v) = v \/ (Forward /\ FillsNulls(Step) /\ v = Null)
    BY <1>3, ChangedSame
  <1>5. CASE Forward /\ FillsNulls(Step) /\ v = Null
    <2>1. /\ ~Unforeseen(db) /\ Step = script[run.at] /\ run.at \in ChangesOf(t, c)
          /\ SameColumn(db, work, t, c)
      BY <1>5, ModifyAt DEF Forward, Undoing
    <2>2. /\ Column(work.rows[t], c) = Column(db.rows[t], c) /\ old = db.cols[t][c].type
          /\ Null \in Column(db.rows[t], c)
      <3>1. /\ work.cols[t][c] = db.cols[t][c] /\ DOMAIN work.rows[t] = DOMAIN db.rows[t]
            /\ \A q \in DOMAIN db.rows[t] : work.rows[t][q][c] = db.rows[t][q][c]
        BY <2>1 DEF SameColumn, Keeps
      <3>2. Column(work.rows[t], c) = Column(db.rows[t], c)
        BY <3>1 DEF Column
      <3>3. v \in Column(work.rows[t], c)
        BY DEF Column
      <3>4. QED  BY <1>5, <3>1, <3>2, <3>3
    <2>3. Altered(old, Step, v) = FillOf(db, Step)
      BY <1>5, <2>2 DEF FillOf
    <2>4. ~FillsConstraint(db)
      BY <2>1 DEF Unforeseen
    <2>5. /\ x.kind = "unique" => FillOf(db, Step) \notin Column(db.rows[t], c) \ {Null}
          /\ x.kind = "check" => FillOf(db, Step) # x.val
      BY <1>1, <1>5, <2>1, <2>2, <2>4 DEF FillsConstraint
    <2>6. QED  BY <1>5, <2>2, <2>3, <2>5
  <1>6. QED  BY <1>4, <1>5

LEMMA ModifyColumnGoes ==
  ASSUME Fine, Applying, Step.kind = "modify_column"
  PROVE  CanModifyColumn(work, Step)
  <1> DEFINE s == Step
             t == Step.tbl
             c == Step.col
             e == ModifyColumn(work, Step)
  <1>1. /\ UndoInv /\ ~Contradictory /\ TypeOK /\ FromDecisions /\ CoherentRun /\ Known
        /\ run.at \in 1 .. Len(script) /\ s = AllSteps[run.at]
        /\ s \in Steps /\ t \in Tables /\ c \in Columns /\ Check(db, s, run.undo) = "go"
        /\ db \in Databases /\ Coherent(db) /\ work \in Databases /\ Coherent(work)
        /\ s.target.type # 0
    BY FineApply, RunStep DEF CoherentRun
  <1>2. SameColumn(db, work, t, c)
    BY <1>1, AtScope
  <1>3. HasColumn(work, t, c)
    <2>1. HasColumn(db, t, c)
      BY <1>1, ModifyChecked
    <2>2. QED  BY <1>2, <2>1 DEF SameColumn, Keeps, HasColumn
  <1>4. Alters(s) => Blockers(work, s, OnlyWidens(s)) = {}
    <2>1. Alters(s) => Blockers(db, s, OnlyWidens(s)) = {}
      BY <1>1, ModifyChecked
    <2>2. QED  BY <2>1, OldDependent DEF Blockers
  <1>5. ASSUME NEW x \in AlterDependents(work, s) \ Keys(work.deps)
        PROVE  Addable(e, x)
    <2>1. /\ x \in work.deps /\ x \in Dependents /\ x.kind \in Recreatable \ {"fk"}
          /\ x.tbl = t /\ c \in x.cols /\ Alters(s)
          /\ x.cols \subseteq Columns
          /\ DefaultChanges(s) => x.kind # "default"
      <3>1. x \in work.deps /\ x \in Dependents /\ x.kind \in Recreatable /\ x.kind # "fk"
            /\ OnColumn(x, t, c) /\ Alters(s) /\ (DefaultChanges(s) => x.kind # "default")
        BY <1>1, <1>5, DatabaseFields DEF AlterDependents, ColumnDependents, Keys
      <3>2. QED  BY <3>1, DependentType DEF OnColumn, DependentRecords
    <2>2. /\ ColumnBecomes(work, e, t, c, AlteredColumn(work, s),
                          [r \in DOMAIN work.rows[t] |->
                             Altered(work.cols[t][c].type, s, work.rows[t][r][c])])
          /\ e.deps = AlteredDeps(work, s)
      BY <1>1, ModifyColumnShape
    <2>3. /\ AlteredColumn(work, s).type = s.target.type
          /\ AlteredColumn(work, s).null = s.target.null
      BY <2>1 DEF AlteredColumn, Stored
    <2>4. /\ e.cols[t][c].type = s.target.type /\ e.cols[t][c].null = s.target.null
          /\ \A k \in Columns \ {c} : e.cols[t][k] = work.cols[t][k]
          /\ DOMAIN e.rows[t] = DOMAIN work.rows[t]
          /\ \A r \in DOMAIN work.rows[t] :
               /\ e.rows[t][r][c] = Altered(work.cols[t][c].type, s, work.rows[t][r][c])
               /\ \A k \in Columns \ {c} : e.rows[t][r][k] = work.rows[t][r][k]
      BY <1>1, <2>2, <2>3 DEF ColumnBecomes
    <2> HIDE DEF e
    <2>5. \A k \in x.cols : HasColumn(e, t, k)
      <3>1. \A k \in x.cols : HasColumn(work, t, k)
        BY <1>1, <2>1 DEF Coherent, Placed
      <3>2. QED  BY <1>1, <2>1, <2>4, <3>1 DEF HasColumn
    <2>6. x.tbl \in Present(e)
      BY <1>1, <2>1, <2>5 DEF Present, Exists
    <2>7. \A y \in e.deps : y \in work.deps \/ y.kind = "default"
      BY <1>1, <2>2, NewDefaultsOn DEF AlteredDeps
    <2>8. ASSUME x.kind = "pk"
          PROVE  /\ KeyHolds(e, t, x.cols)
                 /\ \A y \in e.deps : y.kind = "pk" /\ y.tbl = t => y = x
      <3>1. /\ ~s.target.null
            /\ \A r \in DOMAIN work.rows[t] :
                 Altered(work.cols[t][c].type, s, work.rows[t][r][c]) = work.rows[t][r][c]
        BY <2>1, <2>8, ChangedKey
      <3>2. \A k \in x.cols : ~work.cols[t][k].null
        BY <1>1, <2>1, <2>8 DEF Coherent, Sound, KeysSound
      <3>3. \A k \in x.cols : ~e.cols[t][k].null
        BY <2>1, <2>4, <3>1, <3>2
      <3>4. \A r \in DOMAIN work.rows[t], k \in x.cols : e.rows[t][r][k] = work.rows[t][r][k]
        BY <2>1, <2>4, <3>1
      <3>5. /\ \A y \in work.deps : y.kind = "pk" /\ y.tbl = t => y = x
            /\ \A q, r \in DOMAIN work.rows[t] :
                 q # r => \E k \in x.cols : work.rows[t][q][k] # work.rows[t][r][k]
        <4>1. KeysUnique(work) /\ x \in work.deps /\ x.tbl = t
          BY <1>1, <2>1 DEF Coherent
        <4>2. QED  BY <2>8, <4>1 DEF KeysUnique
      <3>6. \A q, r \in DOMAIN e.rows[t] :
              q # r => \E k \in x.cols : e.rows[t][q][k] # e.rows[t][r][k]
        BY <2>4, <3>4, <3>5
      <3>7. QED  BY <2>7, <3>3, <3>5, <3>6 DEF KeyHolds, Distinct
    <2>9. ASSUME x.kind = "default", NEW k \in x.cols
          PROVE  DefaultsOn(e, t, k) \subseteq {x}
      <3>1. x.cols = {c} /\ k = c
        BY <2>1, <2>9, DefaultIs
      <3>2. ~DefaultChanges(s) /\ s.observed.type # 0
        BY <2>1, <2>9 DEF DefaultChanges
      <3>3. DefaultsOn(e, t, c) \subseteq DefaultsOn(work, t, c)
        BY <2>2, <3>2 DEF AlteredDeps, DefaultsOn
      <3>4. DefaultsOn(work, t, c) = DefaultsOn(db, t, c) /\ x \in DefaultsOn(work, t, c)
        BY <1>2, <2>1, <2>9, <3>1 DEF SameColumn, DefaultsOn
      <3>5. ColumnIs(db, t, c, s.observed)
        BY <1>1, <3>2, ModifyChecked
      <3>6. \A y \in DefaultsOn(db, t, c) :
              y \in Dependents /\ y.kind = "default" /\ y.tbl = t /\ y.cols = {c}
              /\ y.val = s.observed.dflt
        <4>1. SUFFICES ASSUME NEW y \in DefaultsOn(db, t, c)
                       PROVE  y.val = s.observed.dflt
          BY <1>1, DatabaseFields DEF DefaultsOn
        <4>2. y.val \in {z.val : z \in DefaultsOn(db, t, c)}
          OBVIOUS
        <4>3. QED  BY <3>5, <4>2 DEF ColumnIs
      <3>7. \A y \in DefaultsOn(db, t, c) : y = Default(t, c, s.observed.dflt)
        <4>1. SUFFICES ASSUME NEW y \in DefaultsOn(db, t, c)
                       PROVE  y = Default(t, c, s.observed.dflt)
          OBVIOUS
        <4>2. y \in Dependents /\ y.kind = "default" /\ y.tbl = t /\ y.cols = {c}
              /\ y.val = s.observed.dflt
          BY <3>6, <4>1
        <4>3. PICK t1 \in Tables, c1 \in Columns, v1 \in 1 .. MaxWidth :
                y = Default(t1, c1, v1) /\ y.tbl = t1 /\ y.cols = {c1} /\ y.val = v1
          BY <4>2, DefaultIs
        <4>4. t1 = t /\ c1 = c /\ v1 = s.observed.dflt
          BY <4>2, <4>3
        <4>5. QED  BY <4>3, <4>4
      <3>8. QED  BY <3>1, <3>3, <3>4, <3>7
    <2>10. ASSUME x.kind \in {"unique", "check"}, NEW r \in DOMAIN work.rows[t]
           PROVE  \/ e.rows[t][r][c] = work.rows[t][r][c]
                  \/ /\ work.rows[t][r][c] = Null
                     /\ x.kind = "unique" =>
                          e.rows[t][r][c] \notin Column(work.rows[t], c) \ {Null}
                     /\ x.kind = "check" => e.rows[t][r][c] # x.val
      <3> DEFINE v == work.rows[t][r][c]
                 a == Altered(work.cols[t][c].type, s, v)
      <3>1. \/ a = v
            \/ /\ v = Null
               /\ x.kind = "unique" => a \notin Column(work.rows[t], c) \ {Null}
               /\ x.kind = "check" => a # x.val
        <4>1. x \in work.deps /\ x \in Dependents /\ x.tbl = t /\ c \in x.cols /\ Alters(s)
          BY <2>1
        <4>2. QED  BY <4>1, <2>10, ChangedConstraint
      <3>2. e.rows[t][r][c] = a
        BY <2>4, <2>10
      <3> HIDE DEF v, a
      <3>3. \/ e.rows[t][r][c] = v
            \/ /\ v = Null
               /\ x.kind = "unique" => e.rows[t][r][c] \notin Column(work.rows[t], c) \ {Null}
               /\ x.kind = "check" => e.rows[t][r][c] # x.val
        BY <3>1, <3>2
      <3>4. QED  BY <3>3 DEF v
    <2>11. RowsHold(work)
      BY FineIs DEF RowsKnown
    <2>12. ASSUME x.kind = "unique"
           PROVE  Distinct(e, t, x.cols)
      <3> SUFFICES ASSUME NEW q \in DOMAIN work.rows[t], NEW r \in DOMAIN work.rows[t], q # r
                   PROVE  \E k \in x.cols : e.rows[t][q][k] # e.rows[t][r][k]
        BY <2>4 DEF Distinct
      <3>1. PICK k \in x.cols : work.rows[t][q][k] # work.rows[t][r][k]
        BY <2>1, <2>11, <2>12 DEF RowsHold, Distinct
      <3>2. CASE k # c
        BY <2>1, <2>4, <3>1, <3>2
      <3>3. CASE k = c
        <4>1. /\ work.rows[t][q][c] \in Column(work.rows[t], c)
              /\ work.rows[t][r][c] \in Column(work.rows[t], c)
          BY DEF Column
        <4>2. e.rows[t][q][c] # e.rows[t][r][c]
          BY <2>10, <2>12, <3>1, <3>3, <4>1
        <4>3. QED  BY <3>3, <4>2
      <3>4. QED  BY <3>2, <3>3
    <2>13. ASSUME x.kind = "check"
           PROVE  CheckHolds(e, x)
      <3> SUFFICES ASSUME x.val # Null, NEW r \in DOMAIN work.rows[t]
                   PROVE  \E k \in x.cols : e.rows[t][r][k] # x.val
        BY <2>1, <2>4 DEF CheckHolds
      <3>1. PICK k \in x.cols : work.rows[t][r][k] # x.val
        BY <2>1, <2>11, <2>13 DEF RowsHold, CheckHolds
      <3>2. CASE k # c
        BY <2>1, <2>4, <3>1, <3>2
      <3>3. CASE k = c
        BY <2>10, <2>13, <3>1, <3>3
      <3>4. QED  BY <3>2, <3>3
    <2>14. QED  BY <2>1, <2>5, <2>6, <2>8, <2>9, <2>12, <2>13 DEF Addable
  <1>6. ASSUME Alters(s), NEW v \in Column(work.rows[t], c)
        PROVE  CanAlter(work.cols[t][c].type, s, v)
    <2>1. PICK r \in DOMAIN work.rows[t] : v = work.rows[t][r][c]
      BY DEF Column
    <2>2. QED  BY <1>6, <2>1, ChangedCell
  <1>7. QED  BY <1>3, <1>4, <1>5, <1>6 DEF CanModifyColumn

(* What the script dropped comes back as it was, and so fits.               *)
LEMMA RestoreTableGoes ==
  ASSUME Fine, Applying, Step.kind = "restore_table"
  PROVE  CanRestoreTable(work, Step)
  <1> DEFINE t == Step.tbl
             u == Undone(run.at)
             old == past.origin
             name == BackupName(Step.tbl, Whole, FALSE)
  <1>1. /\ UndoInv /\ Known /\ TypeOK /\ FromDecisions /\ CoherentRun
        /\ run.at \in 1 .. Len(script) /\ Step = AllSteps[run.at]
        /\ Step \in Steps /\ t \in Tables /\ Check(db, Step, run.undo) = "go"
        /\ old \in Databases /\ Coherent(old)
        /\ \/ Forward
           \/ Undoing /\ NoDrift(old)
    BY FineApply DEF CoherentRun
  <1>2. Undoing /\ NoDrift(old)
    <2>1. CASE Forward
      BY <1>1, <2>1, RunStep DEF Forward, ForwardKinds
    <2>2. QED  BY <1>1, <2>1
  <1>3. u \in 1 .. Len(script) /\ Undoes(Step, script[u], u)
    BY <1>1, <1>2, UndoingSource
  <1>4. script[u].kind = "drop_table" /\ script[u].tbl = t /\ script[u].table = Step.table
    BY <1>3 DEF Undoes
  <1>5. BackedUp(db, name)
    <2>1. CheckRestoreTable(db, Step) = "go"
      BY <1>1 DEF Check
    <2>2. QED  BY <2>1 DEF CheckRestoreTable
  <1>6. BackupOf(script[u], FALSE) = name /\ Keepable(old, script[u])
    BY <1>4 DEF BackupOf, Keepable
  <1>7. work.bak[name] = CopyOf(old, script[u])
    BY <1>1, <1>2, <1>3, <1>5, <1>6 DEF UndoInv, PastBackups, UndoBackups, Undoing
  <1>8. TableIs(old, t, Step.table)
    <2>1. AsCompared(old, script[u])
      BY <1>2, <1>3 DEF NoDrift
    <2>2. QED  BY <1>4, <2>1 DEF AsCompared
  <1>9. ASSUME NEW c \in Columns, Step.table[c].type # 0
        PROVE  /\ c \in work.bak[name].cols
               /\ \A v \in Column(work.bak[name].rows, c) :
                    v <= Step.table[c].type /\ (v = Null => Step.table[c].null)
    <2>1. HasColumn(old, t, c) /\ old.cols[t][c] = Stored(Step.table[c])
      BY <1>8, <1>9 DEF TableIs, ColumnIs
    <2>2. c \in Backup(old, script[u])
      BY <1>4, <2>1 DEF Backup
    <2>3. /\ CopyOf(old, script[u]).cols = Backup(old, script[u])
          /\ DOMAIN CopyOf(old, script[u]).rows = DOMAIN old.rows[t]
          /\ \A r \in DOMAIN old.rows[t] :
               CopyOf(old, script[u]).rows[r][c] = old.rows[t][r][c]
      BY <1>4, <2>2 DEF CopyOf
    <2>4. \A r \in DOMAIN old.rows[t] :
            /\ old.rows[t][r][c] <= old.cols[t][c].type
            /\ old.rows[t][r][c] = Null => old.cols[t][c].null
      BY <1>1, <2>1 DEF Coherent, Sound, Fits, NullsFit
    <2>5. old.cols[t][c].type = Step.table[c].type /\ old.cols[t][c].null = Step.table[c].null
      BY <2>1 DEF Stored
    <2>6. \A v \in Column(work.bak[name].rows, c) :
            \E r \in DOMAIN old.rows[t] : v = old.rows[t][r][c]
      BY <1>7, <2>3 DEF Column
    <2>7. QED  BY <1>7, <2>2, <2>3, <2>4, <2>5, <2>6
  <1>10. ~Exists(work, t)
    BY CreateGoes
  <1>11. QED  BY <1>9, <1>10 DEF CanRestoreTable

(* A table that has a key when its script is undone has had it before, and  *)
(* the script left it alone.                                                *)
LEMMA KeyOfBefore ==
  ASSUME Fine, Undoing, NEW t \in Tables, PkColumns(db, t) # {}
  PROVE  KeepsKey(past.origin, t)
  <1> DEFINE old == past.origin
  <1>1. /\ UndoInv /\ Known /\ past.state = "applied" /\ db \in Databases
        /\ Coherent(old) /\ Coherent(db) /\ ~CutsKey(old)
    BY FineIs, UndoingMeets DEF UndoInv, Known, CoherentRun, Undoing, TypeOK
  <1>2. PICK x \in db.deps : x.kind = "pk" /\ x.tbl = t
    BY DEF PkColumns
  <1>3. x \in old.deps
    BY <1>1, <1>2 DEF UndoInv, PastGained
  <1>4. \A y \in old.deps : y.kind = "pk" /\ y.tbl = t => y = x
    BY <1>1, <1>2, <1>3 DEF Coherent, KeysUnique
  <1>5. PkColumns(old, t) = x.cols
    BY <1>2, <1>3, <1>4 DEF PkColumns
  <1>6. PkColumns(db, t) \subseteq PkColumns(old, t)
    BY <1>1 DEF UndoInv, PastGained, PkColumns
  <1>7. \A k \in x.cols : HasColumn(db, t, k)
    BY <1>1, <1>2 DEF Coherent, Sound, KeysSound
  <1>8. \A k \in x.cols : k \in Columns /\ ~Loses(script, t, k)
    <2>1. x.cols \subseteq Columns
      BY <1>1, <1>2, DatabaseFields, DependentType DEF DependentRecords
    <2>2. QED  BY <1>1, <1>2, <1>3, <2>1 DEF CutsKey, OnColumn
  <1>9. ASSUME NEW k \in x.cols, <<t, k>> \in DroppedColumns
        PROVE  FALSE
    <2>1. PICK n \in 1 .. Len(script) :
            script[n].kind = "drop_column" /\ script[n].tbl = t /\ script[n].col = k
      BY <1>9 DEF DroppedColumns
    <2>2. Goal(db, script[n])
      BY <1>1 DEF Known, AllApplied, AppliedSteps
    <2>3. QED  BY <1>7, <1>9, <2>1, <2>2 DEF Goal
  <1>10. \A k \in x.cols : <<t, k>> \notin LossyColumns
    BY <1>8 DEF LossyColumns
  <1>11. QED  BY <1>5, <1>6, <1>9, <1>10 DEF KeepsKey

(* The key by which a column is restored is the one the script met.         *)
LEMMA MatchedKey ==
  ASSUME Fine, Applying, Step.kind = "restore_column", Undoing
  PROVE  /\ run.by[run.at] = MatchColumns(db, Step)
         /\ \A k \in run.by[run.at] : k \in PkColumns(db, Step.tbl)
         /\ run.by[run.at] # {} => KeepsKey(past.origin, Step.tbl)
  <1> DEFINE t == Step.tbl
             u == Undone(run.at)
             old == past.origin
  <1>1. /\ UndoInv /\ Known /\ TypeOK /\ FromDecisions /\ CoherentRun /\ ~Contradictory /\ Active
        /\ run.at \in 1 .. Len(script) /\ Step = AllSteps[run.at]
        /\ Step \in Steps /\ t \in Tables /\ past.state = "applied" /\ db \in Databases
        /\ Coherent(old) /\ Coherent(db)
    BY FineApply DEF CoherentRun, Undoing
  <1>2. u \in 1 .. Len(script) /\ Undoes(Step, script[u], u) /\ ~CutsKey(old)
    BY <1>1, UndoingSource, UndoingMeets
  <1>3. script[u].kind = "drop_column" /\ script[u].tbl = t /\ script[u].col = Step.col
    BY <1>2 DEF Undoes
  <1>4. run.by[run.at] = MatchColumns(db, Step)
    <2>1. run.at \in Passed
      BY <1>1 DEF Passed
    <2>2. QED  BY <1>1, <2>1 DEF UndoInv, ByKnown
  <1>5. MatchColumns(db, Step) # {} => MatchColumns(db, Step) = PkColumns(db, t)
    BY DEF MatchColumns
  <1>6. PkColumns(db, t) # {} => KeepsKey(past.origin, t)
    BY <1>1, KeyOfBefore
  <1>7. QED  BY <1>4, <1>5, <1>6

LEMMA RestoreColumnGoes ==
  ASSUME Fine, Applying, Step.kind = "restore_column"
  PROVE  CanRestoreColumn(work, Step, run.by[run.at])
  <1> DEFINE t == Step.tbl
             c == Step.col
             u == Undone(run.at)
             old == past.origin
             by == run.by[run.at]
  <1>1. /\ UndoInv /\ Known /\ TypeOK /\ FromDecisions /\ CoherentRun /\ ~Contradictory /\ Active
        /\ run.at \in 1 .. Len(script) /\ Step = AllSteps[run.at] /\ run.at \notin Performed
        /\ Step \in Steps /\ t \in Tables /\ c \in Columns /\ Check(db, Step, run.undo) = "go"
        /\ old \in Databases /\ db \in Databases /\ Coherent(old) /\ Coherent(db)
        /\ \/ Forward
           \/ Undoing /\ NoDrift(old)
    BY FineApply DEF CoherentRun
  <1>2. Undoing /\ NoDrift(old)
    <2>1. CASE Forward
      BY <1>1, <2>1, RunStep DEF Forward, ForwardKinds
    <2>2. QED  BY <1>1, <2>1
  <1>3. u \in 1 .. Len(script) /\ Undoes(Step, script[u], u)
    BY <1>1, <1>2, UndoingSource
  <1>4. /\ script[u].kind = "drop_column" /\ script[u].tbl = t /\ script[u].col = c
        /\ Step.target = script[u].observed
    BY <1>3 DEF Undoes
  <1>5. Exists(work, t)
    BY OneStays DEF Exists
  <1>6. ~HasColumn(work, t, c)
    <2>1. ~HasColumn(db, t, c)
      BY <1>1, GoNeeds
    <2>2. QED  BY <1>1, <2>1, AtScope DEF SameColumn, Keeps, HasColumn
  <1>7. /\ by = MatchColumns(db, Step)
        /\ \A k \in by : k \in PkColumns(db, t)
        /\ by # {} => KeepsKey(past.origin, t)
    BY <1>2, MatchedKey
  <1>8. ASSUME NEW k \in by PROVE HasColumn(work, t, k)
    <2>1. PICK x \in db.deps : x.kind = "pk" /\ x.tbl = t /\ k \in x.cols
      BY <1>7, <1>8 DEF PkColumns
    <2>2. k \in Columns /\ HasColumn(db, t, k) /\ HasColumn(old, t, k)
      <3>1. x \in old.deps
        BY <1>1, <1>2, <2>1 DEF UndoInv, PastGained, Undoing
      <3>2. x.cols \subseteq Columns
        BY <1>1, <2>1, DatabaseFields, DependentType DEF DependentRecords
      <3>3. QED  BY <1>1, <2>1, <3>1, <3>2 DEF Coherent, Sound, KeysSound
    <2>3. SUFFICES ASSUME NEW m \in Performed, Copies(AllSteps[m]), Touches(AllSteps[m], t, k)
                   PROVE  FALSE
      BY <1>1, <2>2, FineIs DEF ColumnsKnown
    <2>4. m \in 1 .. Len(script) /\ m # run.at /\ AllSteps[m].tbl = t
      BY <1>1, <2>3 DEF Performed, Touches
    <2>5. AllSteps[m].kind \notin TableKinds
      BY <1>1, <2>4, StepsApart
    <2>6. AllSteps[m].kind = "drop_column" /\ AllSteps[m].col = k
      BY <2>3, <2>5 DEF Touches, Copies, TableKinds
    <2>7. Undone(m) \in 1 .. Len(script) /\ Undoes(AllSteps[m], script[Undone(m)], Undone(m))
      BY <1>1, <1>2, <2>4, UndoingSource
    <2>8. /\ script[Undone(m)].kind = "add_column" /\ script[Undone(m)].tbl = t
          /\ script[Undone(m)].col = k
      BY <2>4, <2>6, <2>7 DEF Undoes
    <2>9. AsCompared(old, script[Undone(m)])
      BY <1>2, <2>7 DEF NoDrift
    <2>10. QED  BY <2>2, <2>8, <2>9 DEF AsCompared
  <1>9. ASSUME NEW r \in DOMAIN work.rows[t]
        PROVE  /\ RestoredCell(work, Step, work.rows[t][r], by) <= Step.target.type
               /\ ~Step.target.null => RestoredCell(work, Step, work.rows[t][r], by) # Null
    <2>1. CASE by = {}
      <3>1. RestoredCell(work, Step, work.rows[t][r], by) = Null
        BY <2>1 DEF RestoredCell
      <3>2. CheckRestoreColumn(db, Step) = "go"
        BY <1>1 DEF Check
      <3>3. Step.target.null
        BY <1>7, <2>1, <3>2 DEF CheckRestoreColumn
      <3>4. Step.target.type \in Nat
        BY <1>1, StepFields, AttributesFields
      <3>5. QED  BY <3>1, <3>3, <3>4 DEF Null
    <2>2. CASE by # {}
      <3>1. /\ r \in DOMAIN old.rows[t]
            /\ RestoredCell(work, Step, work.rows[t][r], by) = old.rows[t][r][c]
        BY <1>1, <1>2, <1>7, <1>8, <1>9, <2>2, RestoredValue DEF UndoInv
      <3>2. ColumnIs(old, t, c, Step.target)
        <4>1. AsCompared(old, script[u])
          BY <1>2, <1>3 DEF NoDrift
        <4>2. QED  BY <1>4, <4>1 DEF AsCompared
      <3>3. HasColumn(old, t, c) /\ old.cols[t][c] = Stored(Step.target)
        BY <3>2 DEF ColumnIs
      <3>4. /\ old.rows[t][r][c] <= old.cols[t][c].type
            /\ old.rows[t][r][c] = Null => old.cols[t][c].null
        BY <1>1, <3>1, <3>3 DEF Coherent, Sound, Fits, NullsFit
      <3>5. old.cols[t][c].type = Step.target.type /\ old.cols[t][c].null = Step.target.null
        BY <3>3 DEF Stored
      <3>6. QED  BY <3>1, <3>4, <3>5
    <2>3. QED  BY <2>1, <2>2
  <1>10. QED  BY <1>5, <1>6, <1>8, <1>9 DEF CanRestoreColumn

(* No statement of phase 2 that applies a step fails.                       *)
LEMMA ChangeGoes ==
  ASSUME Fine, AtChange
  PROVE  CanChange(work, Step)
  <1>1. Applying /\ Step.kind \in Kinds
    BY FineApply, StepFields DEF AtChange
  <1>2. CASE Step.kind = "create_table"
    BY <1>1, <1>2, CreateGoes DEF CanChange, CanCreateTable
  <1>3. CASE Step.kind = "drop_table"
    BY <1>1, <1>3, DropTableGoes DEF CanChange
  <1>4. CASE Step.kind = "drop_column"
    BY <1>1, <1>4, DropColumnGoes DEF CanChange
  <1>5. CASE Step.kind = "add_column"
    BY <1>1, <1>5, AddColumnGoes DEF CanChange
  <1>6. CASE Step.kind = "modify_column"
    BY <1>1, <1>6, ModifyColumnGoes DEF CanChange
  <1>7. CASE Step.kind = "restore_table"
    BY <1>1, <1>7, RestoreTableGoes DEF CanChange
  <1>8. CASE Step.kind = "restore_column"
    BY <1>1, <1>8, RestoreColumnGoes DEF CanChange
  <1>9. CASE Step.kind = "unsupported"
    BY <1>1, <1>9, FineApply
  <1>10. QED  BY <1>1, <1>2, <1>3, <1>4, <1>5, <1>6, <1>7, <1>8, <1>9 DEF Kinds

-----------------------------------------------------------------------------------
(* When every step was carried out or skipped.                              *)
LEMMA FineActive ==
  ASSUME Fine, Active
  PROVE  /\ UndoInv /\ Known /\ TypeOK /\ FromDecisions /\ Running /\ CoherentRun /\ ~Contradictory
         /\ RunFrame /\ OriginFrame /\ ChecksPassed
         /\ db \in Databases /\ work \in Databases /\ past.origin \in Databases
         /\ Coherent(db) /\ Coherent(work) /\ Coherent(past.origin)
         /\ \/ Forward /\ NoDrift(db) /\ ~Unforeseen(db)
            \/ Undoing /\ NoDrift(past.origin) /\ ~Unforeseen(past.origin)
            \/ Again
  <1>1. /\ UndoInv /\ Known /\ TypeOK /\ FromDecisions /\ CoherentRun /\ ~Contradictory
        /\ RunFrame /\ OriginFrame /\ ChecksPassed
    BY FineIs DEF UndoInv, Known, Undisturbed
  <1>2. Running /\ (run.undo => past.state # "new")
    BY <1>1 DEF Active, Running, UndoInv, ToRecreateKnown, UndoStarted
  <1>3. /\ past.state \in {"new", "applied", "undone"} /\ run.undo \in BOOLEAN
        /\ db \in Databases /\ work \in Databases /\ past.origin \in Databases
    BY <1>1 DEF TypeOK, Histories, Runs
  <1>4. Forward \/ Undoing \/ Again
    BY <1>2, <1>3 DEF Forward, Undoing, Again
  <1>5. Forward => NoDrift(db) /\ ~Unforeseen(db)
    BY ForwardMeets
  <1>6. Undoing => NoDrift(past.origin) /\ ~Unforeseen(past.origin)
    BY DEF Undoing, Fine, Compared
  <1>7. QED  BY <1>1, <1>2, <1>3, <1>4, <1>5, <1>6 DEF CoherentRun

LEMMA StepTaken ==
  ASSUME Fine, Active, run.phase # "apply", NEW n \in 1 .. Len(script)
  PROVE  /\ AllSteps[n] \in Steps /\ AllSteps[n].kind # "unsupported"
         /\ \/ n \in Performed /\ StepDone(n)
            \/ /\ Check(db, AllSteps[n], run.undo) = "skip"
               /\ \A t \in Tables, c \in Columns :
                    Touches(AllSteps[n], t, c) => SameColumn(db, work, t, c)
  <1>1. /\ UndoInv /\ Known /\ TypeOK /\ FromDecisions /\ ~Contradictory /\ RunFrame
        /\ ChecksPassed
    BY FineActive
  <1>2. AllSteps[n] \in Steps
    BY <1>1, RunStep
  <1>3. n \in Passed
    BY DEF Passed
  <1>4. Check(db, AllSteps[n], run.undo) = IF n \in run.skip THEN "skip" ELSE "go"
    BY <1>1, <1>3 DEF ChecksPassed
  <1>5. AllSteps[n].kind # "unsupported"
    BY <1>2, <1>4, UnsupportedAborts
  <1>6. CASE n \in run.skip
    <2>1. n \notin Performed
      BY <1>6 DEF Performed
    <2>2. QED  BY <1>1, <1>2, <1>4, <1>5, <1>6, <2>1, NotTouched
  <1>7. CASE n \notin run.skip
    <2>1. n \in Performed
      BY <1>7 DEF Performed
    <2>2. QED  BY <1>1, <1>2, <1>5, <2>1, FineIs DEF Effects
  <1>8. QED  BY <1>6, <1>7

(* A step that was skipped was in its final state.                          *)
LEMMA SkipIsGoal ==
  ASSUME NEW d, NEW s \in Steps, NEW u, Check(d, s, u) = "skip"
  PROVE  Goal(d, s)
  BY StepFields DEF Check, Goal, Kinds, CheckCreateTable, CheckDropTable, CheckDropColumn,
     CheckAddColumn, CheckModifyColumn, CheckRestoreTable, CheckRestoreColumn

(* The type of a column when the script has applied its steps.              *)
LEMMA TypeAfter ==
  ASSUME Fine, Forward, Active, run.phase # "apply", NEW t \in Tables, NEW c \in Columns,
         HasColumn(db, t, c), HasColumn(work, t, c)
  PROVE  TypesAfter(db, t, c) = {work.cols[t][c].type}
  <1>1. /\ UndoInv /\ Known /\ TypeOK /\ FromDecisions /\ ~Contradictory /\ RunFrame
        /\ ~run.undo /\ ChecksPassed
    BY FineActive DEF Forward
  <1>2. \A n \in 1 .. Len(script) : AllSteps[n] = script[n] /\ script[n].kind \in ForwardKinds
                                    /\ script[n] \in Steps
    BY <1>1, RunStep
  <1>3. CASE ChangesOf(t, c) = {}
    <2>1. ASSUME NEW m \in Performed, Touches(AllSteps[m], t, c)
          PROVE  FALSE
      <3>1. m \in 1 .. Len(script) /\ AllSteps[m] = script[m] /\ script[m] \in Steps
            /\ script[m].kind \in ForwardKinds /\ Touches(script[m], t, c)
        BY <1>2, <2>1 DEF Performed
      <3>2. Check(db, script[m], run.undo) = "go" /\ StepDone(m)
        BY <1>1, <2>1, <3>1, PerformedChecked, FineIs DEF Effects
      <3>3. script[m].tbl = t
        BY <3>1 DEF Touches
      <3>4. CASE script[m].kind = "create_table"
        <4>1. ~Exists(db, script[m].tbl)
          BY <3>1, <3>2, <3>4, GoNeeds
        <4>2. QED  BY <3>3, <4>1 DEF Exists
      <3>5. CASE script[m].kind = "drop_table"
        <4>1. Goal(work, script[m])
          BY <3>1, <3>2, <3>5 DEF StepDone, RestoreKinds
        <4>2. QED  BY <3>3, <3>5, <4>1 DEF Goal, Exists
      <3>6. CASE script[m].kind \notin TableKinds
        <4>1. script[m].col = c
          BY <3>1, <3>6 DEF Touches
        <4>2. script[m].kind # "modify_column"
          BY <1>3, <3>1, <3>3, <4>1 DEF ChangesOf
        <4>3. CASE script[m].kind = "drop_column"
          <5>1. Goal(work, script[m])
            BY <3>1, <3>2, <4>3 DEF StepDone, RestoreKinds
          <5>2. QED  BY <3>3, <4>1, <4>3, <5>1 DEF Goal
        <4>4. CASE script[m].kind = "add_column"
          <5>1. ~HasColumn(db, script[m].tbl, script[m].col)
            BY <3>1, <3>2, <4>4, GoNeeds
          <5>2. QED  BY <3>3, <4>1, <5>1
        <4>5. QED  BY <3>1, <3>6, <4>2, <4>3, <4>4 DEF ForwardKinds, TableKinds
      <3>7. QED  BY <3>1, <3>4, <3>5, <3>6 DEF TableKinds, ForwardKinds
    <2>2. SameColumn(db, work, t, c)
      BY <1>1, <2>1 DEF RunFrame, Frame, Done
    <2>3. QED  BY <1>3, <2>2 DEF TypesAfter, SameColumn, Keeps
  <1>4. ASSUME NEW n \in ChangesOf(t, c)
        PROVE  TypesAfter(db, t, c) = {work.cols[t][c].type}
    <2>1. n \in 1 .. Len(script) /\ script[n].kind = "modify_column"
          /\ script[n].tbl = t /\ script[n].col = c /\ AllSteps[n] = script[n]
          /\ script[n] \in Steps
      BY <1>2, <1>4 DEF ChangesOf
    <2>2. \A m \in ChangesOf(t, c) : m = n
      BY <1>1, <2>1 DEF ChangesOf, Contradictory
    <2>3. TypesAfter(db, t, c) = {script[n].target.type}
      BY <1>4, <2>2 DEF TypesAfter
    <2>4. ColumnIs(work, t, c, script[n].target)
      <3>1. CASE StepDone(n)
        BY <2>1, <3>1 DEF StepDone, Goal, RestoreKinds
      <3>2. CASE Check(db, AllSteps[n], run.undo) = "skip" /\ SameColumn(db, work, t, c)
        <4>1. Goal(db, script[n])
          BY <2>1, <3>2, SkipIsGoal
        <4>2. ColumnIs(db, t, c, script[n].target)
          BY <2>1, <4>1 DEF Goal
        <4>3. QED  BY <3>2, <4>2 DEF ColumnIs, SameColumn, Keeps, HasColumn
      <3>3. Touches(AllSteps[n], t, c)
        BY <2>1 DEF Touches
      <3>4. QED  BY <2>1, <3>1, <3>2, <3>3, StepTaken
    <2>5. QED  BY <2>3, <2>4 DEF ColumnIs, Stored
  <1>5. QED  BY <1>3, <1>4

(* A column that the undo script has restored, or left, is as it was.       *)
LEMMA UndoneColumn ==
  ASSUME Fine, Undoing, Active, run.phase # "apply", NEW t \in Tables, NEW c \in Columns,
         HasColumn(past.origin, t, c)
  PROVE  work.cols[t][c] = past.origin.cols[t][c]
  <1> DEFINE old == past.origin
  <1>1. /\ UndoInv /\ Known /\ TypeOK /\ FromDecisions /\ ~Contradictory /\ RunFrame /\ OriginFrame
        /\ NoDrift(old) /\ Running /\ run.undo
    BY FineActive, UndoingMeets DEF Undoing
  <1>2. CASE \A n \in 1 .. Len(script) : ~Touches(script[n], t, c)
    <2>1. Frame(old, work, ScriptSteps)
      BY <1>1, CoveredFrame DEF OriginFrame
    <2>2. QED  BY <1>2, <2>1 DEF Frame, ScriptSteps, SameColumn, Keeps
  <1>3. ASSUME NEW n \in 1 .. Len(script), Touches(script[n], t, c)
        PROVE  work.cols[t][c] = old.cols[t][c]
    <2> DEFINE m == Undone(n)
               s == AllSteps[m]
               op == script[n]
    <2>1. /\ m \in 1 .. Len(script) /\ Undone(m) = n
          /\ Undoes(s, op, n) /\ s \in Steps /\ op \in Steps /\ op.kind \in ForwardKinds
      BY <1>1, UndoStepFacts, RunStep, ForwardStep
    <2>2. AsCompared(old, op) /\ op.tbl = t /\ (op.kind \notin TableKinds => op.col = c)
      BY <1>1, <1>3 DEF NoDrift, Touches
    <2>3. op.kind \notin {"create_table", "add_column"}
      BY <2>2 DEF AsCompared, Exists, TableKinds
    <2>4. /\ s.kind # "unsupported"
          /\ \/ m \in Performed /\ StepDone(m)
             \/ Check(db, s, run.undo) = "skip" /\ (Touches(s, t, c) => SameColumn(db, work, t, c))
      BY <2>1, StepTaken
    <2>5. CASE Copies(op)
      <3>1. s.kind \in RestoreKinds /\ m \notin run.skip
        BY <1>1, <1>3, <2>5, UndoneDropGoes
      <3>2. m \in Performed
        BY <2>1, <3>1 DEF Performed
      <3>3. StepDone(m)
        BY <1>1, <3>2, FineIs DEF Effects
      <3>4. CASE s.kind = "restore_table"
        <4>1. op.kind = "drop_table" /\ s.table = op.table /\ s.tbl = t
          BY <2>1, <2>2, <3>4 DEF Undoes
        <4>2. work.cols[t] = MadeColumns(s)
          BY <3>3, <3>4, <4>1 DEF StepDone
        <4>3. TableIs(old, t, op.table)
          BY <2>2, <4>1 DEF AsCompared
        <4>4. old.cols[t][c] = Stored(op.table[c])
          BY <4>3 DEF TableIs, ColumnIs
        <4>5. QED  BY <4>1, <4>2, <4>4 DEF MadeColumns
      <3>5. CASE s.kind = "restore_column"
        <4>1. op.kind = "drop_column" /\ s.target = op.observed /\ s.tbl = t /\ s.col = op.col
          BY <2>1, <2>2, <3>5 DEF Undoes
        <4>2. op.col = c
          BY <2>2, <4>1 DEF TableKinds
        <4>3. work.cols[t][c] = Stored(op.observed)
          BY <3>3, <3>5, <4>1, <4>2 DEF StepDone
        <4>4. ColumnIs(old, t, c, op.observed)
          BY <2>2, <4>1, <4>2 DEF AsCompared
        <4>5. QED  BY <4>3, <4>4 DEF ColumnIs
      <3>6. QED  BY <3>1, <3>4, <3>5 DEF RestoreKinds
    <2>6. CASE op.kind = "modify_column"
      <3>1. op.col = c /\ s.tbl = t /\ s.col = c
        BY <2>1, <2>2, <2>6 DEF Undoes, TableKinds
      <3>2. s.kind = "modify_column" /\ s.target = op.observed
        BY <2>1, <2>4, <2>6 DEF Undoes, UndoKinds
      <3>3. ColumnIs(old, t, c, op.observed)
        BY <2>2, <2>6, <3>1 DEF AsCompared
      <3>4. ColumnIs(work, t, c, s.target)
        <4>1. CASE StepDone(m)
          BY <3>1, <3>2, <4>1 DEF StepDone, Goal, RestoreKinds
        <4>2. CASE Check(db, s, run.undo) = "skip" /\ SameColumn(db, work, t, c)
          <5>1. Goal(db, s)
            BY <2>1, <4>2, SkipIsGoal
          <5>2. ColumnIs(db, t, c, s.target)
            BY <3>1, <3>2, <5>1 DEF Goal
          <5>3. QED  BY <4>2, <5>2 DEF ColumnIs, SameColumn, Keeps, HasColumn
        <4>3. Touches(s, t, c)
          BY <3>1 DEF Touches
        <4>4. QED  BY <2>4, <4>1, <4>2, <4>3
      <3>5. QED  BY <3>2, <3>3, <3>4 DEF ColumnIs
    <2>7. QED  BY <2>1, <2>3, <2>5, <2>6 DEF ForwardKinds, Copies
  <1>4. QED  BY <1>2, <1>3

(* A step that restores nothing has reached its goal.                       *)
LEMMA StepReached ==
  ASSUME Fine, Active, run.phase # "apply", NEW n \in 1 .. Len(script),
         AllSteps[n].kind \notin RestoreKinds
  PROVE  Goal(work, AllSteps[n])
  <1> DEFINE s == AllSteps[n]
  <1>1. s \in Steps
    BY StepTaken
  <1>2. CASE StepDone(n)
    BY <1>2 DEF StepDone
  <1>3. CASE /\ Check(db, s, run.undo) = "skip"
             /\ \A t \in Tables, c \in Columns : Touches(s, t, c) => SameColumn(db, work, t, c)
    <2>1. Goal(db, s)
      BY <1>1, <1>3, SkipIsGoal
    <2>2. QED  BY <1>1, <1>3, <2>1, GoalStays
  <1>4. QED  BY <1>2, <1>3, StepTaken

(* The undo script changes no value that it finds, but gives back the NULL  *)
(* that the script has filled.                                              *)
LEMMA UndoCellSame ==
  ASSUME Fine, Undoing, Active, NEW t \in Tables, NEW c \in Columns,
         HasColumn(past.origin, t, c), HasColumn(db, t, c), HasColumn(work, t, c)
  PROVE  /\ DOMAIN work.rows[t] = DOMAIN db.rows[t]
         /\ \A r \in DOMAIN db.rows[t] : work.rows[t][r][c] = db.rows[t][r][c]
  <1> DEFINE old == past.origin
  <1>1. /\ UndoInv /\ Known /\ TypeOK /\ FromDecisions /\ ~Contradictory /\ NoDrift(old)
        /\ Running /\ run.undo /\ past.state = "applied" /\ NullsFit(old)
        /\ old \in Databases
    BY FineActive, UndoingMeets DEF Undoing, Coherent
  <1>2. RowsKept(t, c)
    BY <1>1 DEF Known, Undisturbed, CellsKept
  <1>3. ASSUME NEW r \in DOMAIN db.rows[t], NEW n \in Modifying(t, c)
        PROVE  /\ ~Shortens(AllSteps[n], db.rows[t][r][c])
               /\ ~(FillsNulls(AllSteps[n]) /\ db.rows[t][r][c] = Null)
    <2> DEFINE s == AllSteps[n]
               w == db.rows[t][r][c]
    <2>1. n \in 1 .. Len(script) /\ s.kind = "modify_column" /\ s.tbl = t /\ s.col = c
      BY <1>3 DEF Modifying, Performed
    <2>2. w \in Cells /\ w <= s.target.type /\ (w = Null => s.target.null)
      BY <1>3, <2>1, UndoneFits
    <2>3. w \in Nat /\ s.target.type \in Nat
      BY <1>1, <2>1, <2>2, RunStep, StepFields, AttributesFields DEF Cells
    <2> HIDE DEF s, w
    <2>4. ~Shortens(s, w) /\ ~(FillsNulls(s) /\ w = Null)
      BY <2>2, <2>3 DEF Shortens, FillsNulls
    <2>5. QED  BY <2>4 DEF s, w
  <1>4. QED  BY <1>2, <1>3 DEF RowsKept, CellKept

-----------------------------------------------------------------------------------
(* The foreign keys that changed columns needed dropped can be recreated.   *)
(* The key that one of them is to is still the one it was to.               *)
LEMMA KeyStands ==
  ASSUME Fine, run.phase = "keys", ~Again, NEW x \in run.keys
  PROVE  /\ x \in db.deps /\ x.kind = "fk" /\ x \notin work.deps
         /\ x.tbl \in Tables /\ x.ref \in Tables
         /\ x.cols \subseteq Columns /\ x.refcols \subseteq Columns
         /\ PlacedIn(db, x) /\ PlacedIn(work, x) /\ ReferenceHolds(db, x)
         /\ Undoing => /\ x \in past.origin.deps /\ PlacedIn(past.origin, x)
                       /\ ReferenceHolds(past.origin, x)
         /\ PkColumns(work, x.ref) = PkColumns(db, x.ref)
  <1> DEFINE old == past.origin
  <1>1. Active /\ run.phase # "apply" /\ run.phase # "verify"
    BY DEF Active
  <1>2. /\ UndoInv /\ Known /\ TypeOK /\ FromDecisions /\ Running
        /\ db \in Databases /\ work \in Databases /\ old \in Databases
        /\ Placed(db) /\ Placed(old) /\ (Forward \/ Undoing)
        /\ ReferencesHold(db) /\ ReferencesHold(old)
    BY <1>1, FineActive, FineIs DEF Coherent, References
  <1>3. Undoing => NoDrift(old)
    BY UndoingMeets
  <1>4. x \in db.deps /\ x.kind = "fk"
    BY <1>2 DEF UndoInv, ToRecreateKnown, KeysKnown, Keys
  <1>5. x \in Dependents
    BY <1>2, <1>4 DEF Databases
  <1>6. x.tbl \in Tables /\ x.ref \in Tables /\ x.cols \subseteq Columns /\ x.refcols \subseteq Columns
    BY <1>5, DependentType DEF DependentRecords
  <1>7. x \notin work.deps /\ PlacedIn(work, x)
    <2>1. KeysOut
      BY FineIs
    <2>2. run.undo => NoDrift(old)
      BY <1>2, <1>3 DEF Forward
    <2>3. QED  BY <1>2, <2>1, <2>2 DEF KeysOut
  <1>8. PlacedIn(db, x) /\ ReferenceHolds(db, x)
    BY <1>2, <1>4 DEF Placed, PlacedIn, ReferencesHold
  <1>9. ASSUME Undoing
        PROVE  x \in old.deps /\ PlacedIn(old, x) /\ ReferenceHolds(old, x)
    <2>1. x \in old.deps
      BY <1>2, <1>4, <1>9 DEF UndoInv, PastGained, Undoing
    <2>2. QED  BY <1>2, <1>4, <2>1 DEF Placed, PlacedIn, ReferencesHold
  <1>10. \A y \in run.keys : y.kind = "fk"
    BY <1>2 DEF UndoInv, ToRecreateKnown, KeysKnown, Keys
  <1>11. ASSUME NEW y \in db.deps, y.kind = "pk", y.tbl = x.ref
         PROVE  y \in work.deps
    <2>1. \A c \in y.cols : c \in x.refcols
      BY <1>8, <1>11 DEF ReferenceHolds, PkColumns
    <2>2. SUFFICES ASSUME y \notin work.deps PROVE FALSE
      OBVIOUS
    <2>3. CASE Forward
      <3>1. Excused(y)
        BY <1>2, <1>10, <1>11, <2>2, <2>3 DEF Known, LostAreExcused, Forward, ToRecreate
      <3>2. PICK n \in 1 .. Len(script) :
              \/ script[n].kind = "drop_table" /\ OnTable(y, script[n].tbl)
              \/ script[n].kind = "drop_column" /\ OnColumn(y, script[n].tbl, script[n].col)
        BY <1>11, <3>1 DEF Excused
      <3>3. AllSteps[n] = script[n]
        BY <1>2, <2>3, RunStep DEF Forward
      <3>4. Goal(work, script[n])
        BY <1>1, <3>2, <3>3, StepReached DEF RestoreKinds
      <3>5. CASE script[n].kind = "drop_table" /\ OnTable(y, script[n].tbl)
        BY <1>7, <1>11, <3>4, <3>5 DEF Goal, OnTable, PlacedIn
      <3>6. CASE script[n].kind = "drop_column" /\ OnColumn(y, script[n].tbl, script[n].col)
        BY <1>7, <1>11, <2>1, <3>4, <3>6 DEF Goal, OnColumn, PlacedIn
      <3>7. QED  BY <3>2, <3>5, <3>6
    <2>4. CASE Undoing
      <3>1. WithMade(y)
        BY <1>2, <1>10, <1>11, <2>2, <2>4 DEF UndoInv, UndoLoses, WithMade, ToRecreate
      <3>2. PICK n \in 1 .. Len(script) :
              \/ script[n].kind = "create_table" /\ OnTable(y, script[n].tbl)
              \/ script[n].kind = "add_column" /\ OnColumn(y, script[n].tbl, script[n].col)
        BY <3>1 DEF WithMade
      <3>3. AsCompared(old, script[n]) /\ PlacedIn(old, x)
        BY <1>3, <1>9, <2>4 DEF NoDrift
      <3>4. QED  BY <1>11, <2>1, <3>2, <3>3 DEF AsCompared, OnTable, OnColumn, PlacedIn
    <2>5. QED  BY <1>2, <2>3, <2>4
  <1>12. ASSUME NEW y \in work.deps, y.kind = "pk"
         PROVE  y \in db.deps
    BY <1>1, <1>2, <1>12 DEF UndoInv, Gained
  <1>13. PkColumns(work, x.ref) = PkColumns(db, x.ref)
    BY <1>11, <1>12, SamePk
  <1>14. QED  BY <1>4, <1>6, <1>7, <1>8, <1>9, <1>13

LEMMA KeyCells ==
  ASSUME Fine, run.phase = "keys", ~Again, NEW x \in run.keys, NEW e \in x.refcols
  PROVE  /\ DOMAIN work.rows[x.ref] = DOMAIN db.rows[x.ref]
         /\ \A r \in DOMAIN db.rows[x.ref] : work.rows[x.ref][r][e] = db.rows[x.ref][r][e]
  <1>1. Active
    BY DEF Active
  <1>2. /\ Known /\ TypeOK /\ FromDecisions /\ KeysSound(db) /\ Running
        /\ (Forward /\ NoDrift(db) /\ ~Unforeseen(db)) \/ Undoing
    BY <1>1, FineActive DEF Coherent, Sound
  <1>3. /\ x.ref \in Tables /\ e \in Columns /\ HasColumn(db, x.ref, e) /\ HasColumn(work, x.ref, e)
        /\ e \in PkColumns(db, x.ref)
        /\ Undoing => HasColumn(past.origin, x.ref, e)
    BY KeyStands DEF PlacedIn, ReferenceHolds
  <1>4. CASE Forward /\ NoDrift(db) /\ ~Unforeseen(db)
    <2>1. ~CutsKey(db) /\ ~run.undo
      BY <1>4 DEF Unforeseen, Forward
    <2>2. ~Loses(script, x.ref, e) /\ <<x.ref, e>> \notin FilledColumns
      BY <1>2, <1>3, <1>4, <2>1, KeyKept
    <2>3. QED  BY <1>1, <1>2, <1>3, <1>4, <2>1, <2>2, ForwardCell
  <1>5. CASE Undoing
    BY <1>1, <1>3, <1>5, UndoCellSame
  <1>6. QED  BY <1>2, <1>4, <1>5

LEMMA KeyTypes ==
  ASSUME Fine, run.phase = "keys", ~Again, NEW x \in run.keys, NEW c \in x.cols, NEW e \in x.refcols
  PROVE  work.cols[x.tbl][c].type = work.cols[x.ref][e].type
  <1> DEFINE old == past.origin
  <1>1. Active /\ run.phase # "apply"
    BY DEF Active
  <1>2. (Forward /\ NoDrift(db) /\ ~Unforeseen(db)) \/ Undoing
    BY <1>1, FineActive
  <1>3. /\ x \in db.deps /\ x.kind = "fk" /\ x.tbl \in Tables /\ x.ref \in Tables
        /\ c \in Columns /\ e \in Columns
        /\ HasColumn(db, x.tbl, c) /\ HasColumn(work, x.tbl, c)
        /\ HasColumn(db, x.ref, e) /\ HasColumn(work, x.ref, e)
    BY KeyStands DEF PlacedIn
  <1>4. CASE Forward /\ NoDrift(db) /\ ~Unforeseen(db)
    <2>1. TypesAfter(db, x.tbl, c) = TypesAfter(db, x.ref, e)
      BY <1>3, <1>4 DEF Unforeseen, SplitsReference, Keys
    <2>2. TypesAfter(db, x.tbl, c) = {work.cols[x.tbl][c].type}
      BY <1>1, <1>3, <1>4, TypeAfter
    <2>3. TypesAfter(db, x.ref, e) = {work.cols[x.ref][e].type}
      BY <1>1, <1>3, <1>4, TypeAfter
    <2>4. QED  BY <2>1, <2>2, <2>3
  <1>5. CASE Undoing
    <2>1. HasColumn(old, x.tbl, c) /\ HasColumn(old, x.ref, e) /\ ReferenceHolds(old, x)
      BY <1>5, KeyStands DEF PlacedIn
    <2>2. work.cols[x.tbl][c] = old.cols[x.tbl][c]
      BY <1>1, <1>3, <1>5, <2>1, UndoneColumn
    <2>3. work.cols[x.ref][e] = old.cols[x.ref][e]
      BY <1>1, <1>3, <1>5, <2>1, UndoneColumn
    <2>4. QED  BY <2>1, <2>2, <2>3 DEF ReferenceHolds
  <1>6. QED  BY <1>2, <1>4, <1>5

(* Its values are in the key: those it had, or one it was filled with.      *)
LEMMA KeyValues ==
  ASSUME Fine, run.phase = "keys", ~Again, NEW x \in run.keys, NEW c \in x.cols, NEW e \in x.refcols,
         NEW r \in DOMAIN work.rows[x.tbl], work.rows[x.tbl][r][c] # Null
  PROVE  work.rows[x.tbl][r][c] \in Column(work.rows[x.ref], e)
  <1>1. Active /\ run.phase # "apply"
    BY DEF Active
  <1>2. /\ UndoInv /\ Known /\ TypeOK /\ FromDecisions /\ Running /\ ~Contradictory /\ Effects
        /\ (Forward /\ NoDrift(db) /\ ~Unforeseen(db)) \/ Undoing
    BY <1>1, FineActive, FineIs
  <1>3. /\ x \in db.deps /\ x.kind = "fk" /\ x.tbl \in Tables /\ x.ref \in Tables
        /\ c \in Columns /\ e \in Columns
        /\ HasColumn(db, x.tbl, c) /\ HasColumn(work, x.tbl, c) /\ ReferenceHolds(db, x)
        /\ Undoing => HasColumn(past.origin, x.tbl, c)
    BY KeyStands DEF PlacedIn
  <1>4. Column(work.rows[x.ref], e) = Column(db.rows[x.ref], e)
    <2>1. /\ DOMAIN work.rows[x.ref] = DOMAIN db.rows[x.ref]
          /\ \A q \in DOMAIN db.rows[x.ref] : work.rows[x.ref][q][e] = db.rows[x.ref][q][e]
      BY KeyCells
    <2>2. QED  BY <2>1 DEF Column
  <1>5. \A q \in DOMAIN db.rows[x.tbl] :
          db.rows[x.tbl][q][c] \in Column(db.rows[x.ref], e) \cup {Null}
    <2>1. Column(db.rows[x.tbl], c) \subseteq Column(db.rows[x.ref], e) \cup {Null}
      BY <1>3 DEF ReferenceHolds
    <2>2. QED  BY <2>1 DEF Column
  <1>6. CASE Forward /\ NoDrift(db) /\ ~Unforeseen(db)
    <2>1. ~CutsKey(db) /\ ~FillsReference(db) /\ ~run.undo
      BY <1>6 DEF Unforeseen, Forward
    <2>2. ~Loses(script, x.tbl, c)
      BY <1>3, <2>1 DEF CutsKey, OnColumn
    <2>3. /\ r \in DOMAIN db.rows[x.tbl]
          /\ \/ work.rows[x.tbl][r][c] = db.rows[x.tbl][r][c]
             \/ <<x.tbl, c>> \in FilledColumns /\ db.rows[x.tbl][r][c] = Null
      BY <1>1, <1>2, <1>3, <1>6, <2>1, <2>2, ForwardCell
    <2>4. CASE <<x.tbl, c>> \in FilledColumns /\ db.rows[x.tbl][r][c] = Null
      <3>1. PICK n \in 1 .. Len(script) : /\ script[n].kind = "modify_column" /\ FillsNulls(script[n])
                                          /\ script[n].tbl = x.tbl /\ script[n].col = c
        BY <2>4 DEF FilledColumns
      <3>2. work.rows[x.tbl][r][c] = FillOf(db, script[n])
        <4>1. r \in DOMAIN work.rows[script[n].tbl]
          BY <3>1
        <4>2. work.rows[script[n].tbl][r][script[n].col]
                = Altered(db.cols[script[n].tbl][script[n].col].type, script[n],
                          db.rows[script[n].tbl][r][script[n].col])
          BY <1>1, <1>2, <1>6, <3>1, <4>1, AppliedCell
        <4>3. QED  BY <2>4, <3>1, <4>2 DEF FillOf
      <3>3. n \in ChangesOf(x.tbl, c)
        BY <3>1 DEF ChangesOf
      <3>4. Null \in Column(db.rows[x.tbl], c)
        BY <2>3, <2>4 DEF Column
      <3>5. FillOf(db, script[n]) \in Column(db.rows[x.ref], e)
        BY <1>3, <2>1, <3>1, <3>3, <3>4 DEF FillsReference, Keys
      <3>6. QED  BY <1>4, <3>2, <3>5
    <2>5. QED  BY <1>4, <1>5, <2>3, <2>4
  <1>7. CASE Undoing
    <2>1. r \in DOMAIN db.rows[x.tbl] /\ work.rows[x.tbl][r][c] = db.rows[x.tbl][r][c]
      BY <1>1, <1>3, <1>7, UndoCellSame
    <2>2. QED  BY <1>4, <1>5, <2>1
  <1>8. QED  BY <1>2, <1>6, <1>7

LEMMA KeysGo ==
  ASSUME Fine, run.phase = "keys"
  PROVE  CanAddAll(work, run.keys)
  <1>1. Active
    BY DEF Active
  <1>2. CASE Again
    <2>1. run.keys = {}
      BY <1>1, <1>2, FineActive DEF Known, NothingToDo
    <2>2. QED  BY <2>1 DEF CanAddAll
  <1>3. ASSUME ~Again, NEW x \in run.keys
        PROVE  x \notin work.deps /\ Addable(AddAll(work, run.keys), x)
    <2> DEFINE e == AddAll(work, run.keys)
    <2>1. /\ work \in Databases /\ run.keys \in SUBSET Dependents
      BY <1>1, FineActive DEF TypeOK, Runs
    <2>2. e.cols = work.cols /\ e.rows = work.rows /\ e.deps = work.deps \cup run.keys
      BY <2>1 DEF AddAll, Databases
    <2>3. \A y \in run.keys : y.kind = "fk"
      BY <1>3, KeyStands
    <2>4. PkColumns(e, x.ref) = PkColumns(work, x.ref)
      <3>1. \A y : y.kind = "pk" /\ y.tbl = x.ref => (y \in e.deps <=> y \in work.deps)
        BY <2>2, <2>3
      <3>2. QED  BY <3>1, SamePk
    <2>5. /\ x \notin work.deps /\ x.kind = "fk" /\ x.tbl \in Tables
          /\ PlacedIn(work, x) /\ x.refcols = PkColumns(work, x.ref)
      BY <1>3, KeyStands DEF ReferenceHolds
    <2>6. \A c \in x.cols, k \in x.refcols : work.cols[x.tbl][c].type = work.cols[x.ref][k].type
      BY <1>3, KeyTypes
    <2>7. \A c \in x.cols, k \in x.refcols :
            Column(work.rows[x.tbl], c) \subseteq Column(work.rows[x.ref], k) \cup {Null}
      BY <1>3, KeyValues DEF Column
    <2>8. ReferenceHolds(e, x)
      BY <2>2, <2>4, <2>5, <2>6, <2>7 DEF ReferenceHolds
    <2>9. x.tbl \in Present(e) /\ \A c \in x.cols : HasColumn(e, x.tbl, c)
      BY <2>2, <2>5 DEF PlacedIn, Present, Exists, HasColumn
    <2>10. QED  BY <2>5, <2>8, <2>9 DEF Addable
  <1>4. QED  BY <1>2, <1>3 DEF CanAddAll

-----------------------------------------------------------------------------------
(* What the journal holds can be replayed.                                  *)
(* What restores a dropped column or table was carried out.                 *)
LEMMA RestoreDone ==
  ASSUME Fine, Undoing, Active, run.phase # "apply", NEW n \in 1 .. Len(script), Copies(script[n])
  PROVE  LET m == Undone(n)
             s == AllSteps[m]
         IN /\ m \in Performed /\ m \in 1 .. Len(script) /\ s \in Steps
            /\ Undoes(s, script[n], n) /\ s.kind \in RestoreKinds
            /\ script[n].kind = "drop_table" => s.kind = "restore_table"
            /\ script[n].kind = "drop_column" => s.kind = "restore_column"
            /\ s.tbl = script[n].tbl /\ s.col = script[n].col
            /\ RestoredStep(s) /\ StepDone(m) /\ Check(db, s, TRUE) = "go"
            /\ AsCompared(past.origin, script[n])
  <1> DEFINE m == Undone(n)
             s == AllSteps[m]
  <1>1. /\ UndoInv /\ Known /\ TypeOK /\ FromDecisions /\ ~Contradictory /\ NoDrift(past.origin)
    BY FineActive, UndoingMeets
  <1>2. /\ m \in 1 .. Len(script) /\ Undone(m) = n /\ m \notin run.skip /\ s.kind \in RestoreKinds
        /\ Undoes(s, script[n], n) /\ Check(db, s, TRUE) = "go"
    BY <1>1, UndoneDropGoes
  <1>3. m \in Performed
    BY <1>2 DEF Performed
  <1>4. StepDone(m)
    BY <1>1, <1>3, FineIs DEF Effects
  <1>5. RestoredStep(s)
    BY <1>1, <1>3, RestoredIs DEF UndoInv
  <1>6. /\ script[n].kind = "drop_table" => s.kind = "restore_table"
        /\ script[n].kind = "drop_column" => s.kind = "restore_column"
        /\ s.tbl = script[n].tbl /\ s.col = script[n].col /\ s \in Steps
    BY <1>2 DEF Undoes, RestoreKinds
  <1>7. AsCompared(past.origin, script[n])
    BY <1>1 DEF NoDrift
  <1>8. QED  BY <1>2, <1>3, <1>4, <1>5, <1>6, <1>7

(* Only a column that is in no key was dropped: the check of its undo step  *)
(* asks for the key by which it finds its rows.                             *)
LEMMA KeyNotDropped ==
  ASSUME Fine, Undoing, Active, run.phase # "apply", NEW n \in 1 .. Len(script),
         script[n].kind = "drop_column"
  PROVE  script[n].col \notin PkColumns(past.origin, script[n].tbl)
  <1> DEFINE old == past.origin
             op == script[n]
             s == AllSteps[Undone(n)]
  <1>1. /\ Undoes(s, op, n) /\ s.kind = "restore_column" /\ s.tbl = op.tbl /\ s.col = op.col
        /\ s \in Steps /\ Check(db, s, TRUE) = "go" /\ AsCompared(old, op)
    BY RestoreDone DEF Copies
  <1>2. op.tbl \in Tables /\ op.col \in Columns
    BY <1>1, StepFields
  <1>3. SUFFICES ASSUME op.col \in PkColumns(old, op.tbl) PROVE FALSE
    OBVIOUS
  <1>4. ~old.cols[op.tbl][op.col].null
    BY <1>3, FineActive DEF Coherent, Sound, KeysSound, PkColumns
  <1>5. ~s.target.null
    <2>1. s.target = op.observed /\ ColumnIs(old, op.tbl, op.col, op.observed)
      BY <1>1 DEF Undoes, AsCompared
    <2>2. QED  BY <1>4, <2>1 DEF ColumnIs, Stored
  <1>6. MatchColumns(db, s) # {}
    BY <1>1, <1>5 DEF Check, CheckRestoreColumn
  <1>7. PkColumns(db, op.tbl) # {}
    BY <1>1, <1>6 DEF MatchColumns
  <1>8. KeepsKey(past.origin, op.tbl)
    BY <1>2, <1>7, KeyOfBefore
  <1>9. <<op.tbl, op.col>> \in DroppedColumns
    BY DEF DroppedColumns
  <1>10. QED  BY <1>3, <1>8, <1>9 DEF KeepsKey

LEMMA KeyIsKept ==
  ASSUME Fine, Undoing, Active, run.phase # "apply", NEW t \in Tables, PkColumns(past.origin, t) # {}
  PROVE  KeepsKey(past.origin, t)
  <1>1. /\ TypeOK /\ FromDecisions /\ ~CutsKey(past.origin) /\ NoDrift(past.origin)
        /\ KeysSound(past.origin) /\ past.origin \in Databases
    BY FineActive, UndoingMeets DEF Coherent, Sound
  <1>2. PkColumns(past.origin, t) \subseteq Columns
    BY <1>1, PkColumnsType
  <1>3. \A k \in PkColumns(past.origin, t) : <<t, k>> \notin LossyColumns
    BY <1>1, <1>2, KeyKept
  <1>4. \A k \in PkColumns(past.origin, t) : <<t, k>> \notin DroppedColumns
    BY KeyNotDropped DEF DroppedColumns
  <1>5. QED  BY <1>3, <1>4 DEF KeepsKey

LEMMA JournalIsReplayed ==
  ASSUME Fine, Undoing, run.phase = "replay", NEW x, InJournal(work, x)
  PROVE  x \in Replayed(work)
  <1>1. Active /\ run.phase # "apply" /\ Running
    BY DEF Active, Running
  <1>2. EntriesOk(work) /\ ReplayKnown
    BY <1>1, FineActive DEF UndoInv, ToRecreateKnown
  <1>3. PICK j \in EntryNumbers(work) : x \in Entry(work, j).deps
    BY DEF InJournal
  <1>4. Entry(work, j).step \in 1 .. Len(script) /\ Copies(script[Entry(work, j).step])
    BY <1>2, <1>3 DEF EntriesOk
  <1>5. PICK m \in Performed : AllSteps[m].kind \in RestoreKinds /\ Undone(m) = Entry(work, j).step
    <2>1. Undone(Entry(work, j).step) \in Performed
          /\ AllSteps[Undone(Entry(work, j).step)].kind \in RestoreKinds
      BY <1>1, <1>4, RestoreDone
    <2>2. Undone(Undone(Entry(work, j).step)) = Entry(work, j).step
      BY <1>1, <1>4, FineActive, UndoStepFacts
    <2>3. QED  BY <2>1, <2>2
  <1>6. AllSteps[m].num = Entry(work, j).step
    BY <1>1, <1>5, FineActive, RestoringStep
  <1>7. Entry(work, j).step \in run.replay
    BY <1>1, <1>2, <1>5, <1>6 DEF ReplayKnown
  <1>8. QED  BY <1>3, <1>7 DEF Replayed, ReplayedEntries, EntryNumbers, Entry

(* What is replayed was there when the script ran, and is gone.             *)
LEMMA ReplayedOld ==
  ASSUME Fine, run.phase = "replay", NEW x \in Replayed(work)
  PROVE  /\ Undoing /\ x \in Dependents /\ x.tbl \in Tables /\ x.ref \in Tables
         /\ x.cols \subseteq Columns /\ x.refcols \subseteq Columns
         /\ x \in past.origin.deps /\ x \notin work.deps
         /\ Exists(work, x.tbl) /\ \A c \in x.cols : HasColumn(work, x.tbl, c)
         /\ x.kind = "fk" => PlacedIn(past.origin, x) /\ ReferenceHolds(past.origin, x)
         /\ \E n \in 1 .. Len(script) : Copies(script[n]) /\ InScope(x, script[n])
  <1> DEFINE old == past.origin
  <1>1. Active /\ run.phase # "apply" /\ run.phase # "verify"
    BY DEF Active
  <1>2. /\ UndoInv /\ Known /\ ToRecreateKnown /\ Running /\ Coherent(old) /\ Placed(old)
        /\ old \in Databases /\ Tidy
    BY <1>1, FineActive, FineIs DEF UndoInv, Coherent
  <1>3. Undoing /\ InJournal(work, x) /\ past.state = "applied"
    BY <1>2, ReplayUndoes DEF Undoing
  <1>4. NoDrift(old)
    BY <1>3, UndoingMeets
  <1>5. x \in old.deps
    <2>1. work.journal[FALSE] = db.journal[FALSE] /\ JournalWithin(db, old.deps)
      BY <1>2, <1>3 DEF UndoInv, JournalsHold, JournalBound
    <2>2. InJournal(db, x)
      BY <1>3, <2>1, SameJournal
    <2>3. QED  BY <2>1, <2>2 DEF JournalWithin, InJournal
  <1>6. x \in Dependents
    BY <1>2, <1>5 DEF Databases
  <1>7. /\ x.tbl \in Tables /\ x.ref \in Tables /\ x.cols \subseteq Columns
        /\ x.refcols \subseteq Columns
    BY <1>6, DependentType DEF DependentRecords
  <1>8. x \notin work.deps
    <2>1. JournalGone(work)
      BY <1>1, <1>2, <1>3, <1>4, FineIs DEF JournalInv
    <2>2. QED  BY <1>3, <1>6, <2>1 DEF JournalGone
  <1>9. \A c \in Columns : HasColumn(old, x.tbl, c) => HasColumn(work, x.tbl, c)
    BY <1>1, <1>3, <1>7, UndoneColumn DEF HasColumn
  <1>10. Exists(work, x.tbl) /\ \A c \in x.cols : HasColumn(work, x.tbl, c)
    BY <1>2, <1>5, <1>7, <1>9 DEF Placed, Exists
  <1>11. x.kind = "fk" => PlacedIn(old, x) /\ ReferenceHolds(old, x)
    <2>1. ReferencesHold(old)
      BY FineIs DEF References
    <2>2. QED  BY <1>2, <1>5, <2>1 DEF Placed, PlacedIn, ReferencesHold
  <1>12. \E n \in 1 .. Len(script) : Copies(script[n]) /\ InScope(x, script[n])
    <2>1. PICK m \in Performed : AllSteps[m].kind \in RestoreKinds /\ InScope(x, script[Undone(m)])
      BY <1>2, ReplayedScope
    <2>2. QED  BY <1>2, <2>1, RestoringStep
  <1>13. QED  BY <1>3, <1>5, <1>6, <1>7, <1>8, <1>10, <1>11, <1>12

(* With what is replayed, every table has the key it had.                   *)
LEMMA ReplayedPk ==
  ASSUME Fine, run.phase = "replay", Undoing, NEW y, y.kind = "pk"
  PROVE  y \in AddAll(work, Replayed(work)).deps <=> y \in past.origin.deps
  <1> DEFINE old == past.origin
  <1>1. Active /\ run.phase # "apply" /\ run.phase # "verify"
    BY DEF Active
  <1>2. /\ UndoInv /\ Known /\ ToRecreateKnown /\ Running /\ Placed(old) /\ NoDrift(old)
        /\ work \in Databases /\ old \in Databases /\ past.state = "applied" /\ run.undo
    BY <1>1, FineActive, UndoingMeets DEF UndoInv, Coherent, Undoing
  <1>3. AddAll(work, Replayed(work)).deps = work.deps \cup Replayed(work)
    BY <1>2 DEF AddAll, Databases
  <1>4. y \in work.deps => y \in old.deps
    BY <1>1, <1>2 DEF UndoInv, Gained, PastGained
  <1>5. y \in Replayed(work) => y \in old.deps
    BY ReplayedOld
  <1>6. ASSUME y \in old.deps, y \in db.deps
        PROVE  y \in work.deps
    <2>1. SUFFICES ASSUME y \notin work.deps PROVE FALSE
      OBVIOUS
    <2>2. WithMade(y)
      BY <1>1, <1>2, <1>6, <2>1 DEF UndoInv, UndoLoses, WithMade, ToRecreate
    <2>3. PICK n \in 1 .. Len(script) :
            \/ script[n].kind = "create_table" /\ OnTable(y, script[n].tbl)
            \/ script[n].kind = "add_column" /\ OnColumn(y, script[n].tbl, script[n].col)
      BY <2>2 DEF WithMade
    <2>4. AsCompared(old, script[n])
      BY <1>2 DEF NoDrift
    <2>5. QED  BY <1>2, <1>6, <2>3, <2>4 DEF AsCompared, OnTable, OnColumn, Placed
  <1>7. ASSUME y \in old.deps, y \notin db.deps
        PROVE  y \in Replayed(work)
    <2>1. DropsSome /\ (db.journal[FALSE].made => InJournal(db, y))
      BY <1>2, <1>7 DEF UndoInv, PastLost, GoneForGood, Recreatable
    <2>2. PICK n \in 1 .. Len(script) : Copies(script[n])
      BY <2>1 DEF DropsSome
    <2>3. db.journal[FALSE].made
      <3>1. PICK s \in Steps : s.kind \in RestoreKinds /\ Check(db, s, TRUE) = "go"
        BY <1>1, <2>2, RestoreDone
      <3>2. QED  BY <3>1, GoNeeds
    <2>4. work.journal[FALSE] = db.journal[FALSE]
      BY <1>2 DEF UndoInv, JournalsHold
    <2>5. InJournal(work, y)
      BY <2>1, <2>3, <2>4, SameJournal
    <2>6. QED  BY <2>5, JournalIsReplayed
  <1>8. QED  BY <1>3, <1>4, <1>5, <1>6, <1>7

(* The rows of a table that was there before the script are there again.    *)
LEMMA OldRows ==
  ASSUME Fine, Undoing, Active, run.phase # "apply", NEW t \in Tables, Exists(past.origin, t)
  PROVE  /\ DOMAIN work.rows[t] = DOMAIN past.origin.rows[t]
         /\ t \in DroppedTables => work.rows[t] = past.origin.rows[t]
  <1> DEFINE old == past.origin
  <1>1. /\ Known /\ RunFrame /\ OriginFrame /\ NoDrift(old)
    BY FineActive, UndoingMeets
  <1>2. ASSUME NEW n \in 1 .. Len(script), script[n].kind = "drop_table", script[n].tbl = t
        PROVE  work.rows[t] = old.rows[t]
    <2>1. Copies(script[n])
      BY <1>2 DEF Copies
    <2>2. PICK s \in Steps : RestoredStep(s) /\ s.kind = "restore_table" /\ s.tbl = t
      BY <1>2, <2>1, RestoreDone
    <2>3. QED  BY <2>2 DEF RestoredStep
  <1>3. CASE t \in DroppedTables
    BY <1>2, <1>3 DEF DroppedTables
  <1>4. CASE t \notin DroppedTables
    <2>1. Frame(old, work, ScriptSteps)
      BY <1>1, CoveredFrame DEF OriginFrame
    <2>2. ASSUME NEW n \in 1 .. Len(script), Retables(script[n], t)
          PROVE  FALSE
      <3>1. script[n].kind \in ForwardKinds /\ AsCompared(old, script[n])
        BY <1>1, ForwardStep DEF Known, NoDrift
      <3>2. script[n].tbl = t /\ script[n].kind = "create_table"
        BY <1>4, <2>2, <3>1 DEF Retables, TableKinds, ForwardKinds, DroppedTables
      <3>3. QED  BY <3>1, <3>2 DEF AsCompared
    <2>3. DOMAIN work.rows[t] = DOMAIN old.rows[t]
      BY <2>1, <2>2 DEF Frame, ScriptSteps
    <2>4. QED  BY <1>4, <2>3
  <1>5. QED  BY <1>3, <1>4

LEMMA KeyCellsBack ==
  ASSUME Fine, Undoing, Active, run.phase # "apply", NEW t \in Tables,
         NEW k \in PkColumns(past.origin, t)
  PROVE  /\ DOMAIN work.rows[t] = DOMAIN past.origin.rows[t]
         /\ \A r \in DOMAIN work.rows[t] : work.rows[t][r][k] = past.origin.rows[t][r][k]
  <1> DEFINE old == past.origin
  <1>1. /\ UndoInv /\ Known /\ CoherentRun /\ NoDrift(old) /\ Sound(old) /\ NullsFit(old)
        /\ old \in Databases
    BY FineActive, UndoingMeets DEF Coherent
  <1>2. k \in Columns /\ HasColumn(old, t, k) /\ Exists(old, t)
    <2>1. k \in Columns
      BY <1>1, PkColumnsType
    <2>2. QED  BY <1>1, <2>1, KeyNotNull DEF Exists
  <1>3. CASE t \in DroppedTables
    BY <1>2, <1>3, OldRows
  <1>4. CASE t \notin DroppedTables
    <2>1. KeepsKey(past.origin, t)
      BY KeyIsKept
    <2>2. HasColumn(work, t, k)
      BY <1>2, UndoneColumn DEF HasColumn
    <2>3. QED  BY <1>1, <1>4, <2>1, <2>2, OriginKey DEF UndoInv
  <1>5. QED  BY <1>3, <1>4

(* A column that the script did not drop was there when it was applied.     *)
LEMMA OldColumn ==
  ASSUME Fine, Undoing, Active, NEW t \in Tables, NEW c \in Columns, HasColumn(past.origin, t, c),
         t \notin DroppedTables, <<t, c>> \notin DroppedColumns
  PROVE  HasColumn(db, t, c)
  <1> DEFINE old == past.origin
  <1>1. /\ Known /\ OriginFrame /\ NoDrift(old) /\ AllApplied /\ past.state = "applied"
    BY FineActive, UndoingMeets DEF Known, Undoing
  <1>2. CASE \A n \in 1 .. Len(script) : ~Touches(script[n], t, c)
    BY <1>1, <1>2 DEF OriginFrame, Frame, ScriptSteps, SameColumn, Keeps, HasColumn
  <1>3. ASSUME NEW n \in 1 .. Len(script), Touches(script[n], t, c)
        PROVE  HasColumn(db, t, c)
    <2>1. /\ script[n].kind \in ForwardKinds /\ AsCompared(old, script[n]) /\ Goal(db, script[n])
          /\ script[n].tbl = t /\ (script[n].kind \notin TableKinds => script[n].col = c)
      BY <1>1, <1>3, ForwardStep DEF Known, NoDrift, AllApplied, AppliedSteps, Touches
    <2>2. script[n].kind \notin {"create_table", "add_column"}
      BY <2>1 DEF AsCompared, Exists, TableKinds
    <2>3. script[n].kind \notin {"drop_table", "drop_column"}
      BY <2>1 DEF DroppedTables, DroppedColumns, TableKinds
    <2>4. script[n].kind = "modify_column"
      BY <2>1, <2>2, <2>3 DEF ForwardKinds
    <2>5. QED  BY <2>1, <2>4 DEF Goal, ColumnIs, TableKinds
  <1>4. QED  BY <1>2, <1>3

(* The values of what is replayed: those it had, a NULL where the column was *)
(* dropped without a key to find its rows by, or a fill.                    *)
ReplayedWith(x, c, r) ==
  LET t == x.tbl
      v == past.origin.rows[t][r][c]
      w == work.rows[t][r][c]
  IN \/ w = v
     \/ w = Null /\ <<t, c>> \in DroppedColumns /\ ~KeepsKey(past.origin, t)
     \/ /\ v = Null
        /\ \E n \in ChangesOf(t, c) : FillsNulls(script[n]) /\ w = FillOf(past.origin, script[n])
LEMMA ReplayedCell ==
  ASSUME Fine, Undoing, Active, run.phase # "apply", NEW x \in past.origin.deps,
         x.kind \in {"fk", "unique", "check"}, x \in Dependents, NEW c \in x.cols,
         NEW r \in DOMAIN work.rows[x.tbl]
  PROVE  r \in DOMAIN past.origin.rows[x.tbl] /\ ReplayedWith(x, c, r)
  <1> DEFINE old == past.origin
             t == x.tbl
  <1>1. /\ UndoInv /\ Known /\ NoDrift(old) /\ Placed(old)
        /\ past.state = "applied" /\ ~Contradictory /\ ~CutsKey(old)
    BY FineActive, FineIs, UndoingMeets DEF Coherent, Undoing
  <1>2. t \in Tables /\ c \in Columns
    BY DependentType DEF DependentRecords
  <1>3. HasColumn(old, t, c) /\ Exists(old, t)
    BY <1>1 DEF Placed
  <1>4. DOMAIN work.rows[t] = DOMAIN old.rows[t]
    BY <1>2, <1>3, OldRows
  <1>5. CASE work.rows[t][r][c] = old.rows[t][r][c]
    BY <1>4, <1>5 DEF ReplayedWith
  <1>6. CASE t \in DroppedTables
    BY <1>2, <1>3, <1>5, <1>6, OldRows
  <1>7. CASE <<t, c>> \in DroppedColumns
    <2>1. PICK n \in 1 .. Len(script) :
            script[n].kind = "drop_column" /\ script[n].tbl = t /\ script[n].col = c
      BY <1>7 DEF DroppedColumns
    <2> DEFINE s == AllSteps[Undone(n)]
    <2>2. Copies(script[n])
      BY <2>1 DEF Copies
    <2>3. /\ s.kind = "restore_column" /\ s.tbl = t /\ s.col = c
          /\ RestoredStep(s) /\ StepDone(Undone(n))
      BY <2>1, <2>2, RestoreDone
    <2>4. CASE KeepsKey(past.origin, t)
      <3>1. work.rows[t][r][c] = old.rows[t][r][c]
        BY <2>3, <2>4 DEF RestoredStep
      <3>2. QED  BY <1>5, <3>1
    <2>5. CASE ~KeepsKey(past.origin, t)
      <3>1. PkColumns(db, t) = {}
        BY <1>2, <2>5, KeyOfBefore
      <3>2. MatchColumns(db, s) = {}
        BY <2>3, <3>1 DEF MatchColumns
      <3>3. work.rows[t][r][c] = Null
        BY <2>3, <3>2 DEF StepDone
      <3>4. QED  BY <1>4, <1>7, <2>5, <3>3 DEF ReplayedWith
    <2>6. QED  BY <2>4, <2>5
  <1>8. CASE t \notin DroppedTables /\ <<t, c>> \notin DroppedColumns
    <2>1. HasColumn(db, t, c)
      BY <1>2, <1>3, <1>8, OldColumn
    <2>2. HasColumn(work, t, c)
      BY <1>2, <1>3, UndoneColumn DEF HasColumn
    <2>3. /\ DOMAIN work.rows[t] = DOMAIN db.rows[t]
          /\ work.rows[t][r][c] = db.rows[t][r][c]
      BY <1>2, <1>3, <2>1, <2>2, UndoCellSame
    <2>4. ~Loses(script, t, c)
      BY <1>1, <1>2 DEF CutsKey, OnColumn
    <2>5. \/ db.rows[t][r][c] = old.rows[t][r][c]
          \/ <<t, c>> \in FilledColumns /\ old.rows[t][r][c] = Null
      BY <1>1, <1>2, <1>3, <2>1, <2>3, <2>4 DEF UndoInv, OriginCells
    <2>6. CASE <<t, c>> \in FilledColumns /\ old.rows[t][r][c] = Null
      <3>1. PICK n \in 1 .. Len(script) : /\ script[n].kind = "modify_column" /\ FillsNulls(script[n])
                                          /\ script[n].tbl = t /\ script[n].col = c
        BY <2>6 DEF FilledColumns
      <3>2. PastCell(script[n], r)
        <4>1. r \in DOMAIN db.rows[script[n].tbl]
          BY <2>3, <3>1
        <4>2. QED  BY <1>1, <3>1, <4>1, FineIs DEF PastCells
      <3>3. db.rows[t][r][c] = FillOf(old, script[n])
        BY <1>1, <2>6, <3>1, <3>2 DEF PastCell, FillOf
      <3>4. n \in ChangesOf(t, c)
        BY <3>1 DEF ChangesOf
      <3>5. QED  BY <1>4, <2>3, <2>6, <3>1, <3>3, <3>4 DEF ReplayedWith
    <2>7. QED  BY <1>5, <2>3, <2>5, <2>6
  <1>9. QED  BY <1>6, <1>7, <1>8

(* A foreign key's are in the key it is to.                                 *)
LEMMA ReplayedValues ==
  ASSUME Fine, Undoing, Active, run.phase # "apply", NEW x \in past.origin.deps, x.kind = "fk",
         x \in Dependents, NEW c \in x.cols, NEW e \in x.refcols,
         NEW r \in DOMAIN work.rows[x.tbl], work.rows[x.tbl][r][c] # Null
  PROVE  work.rows[x.tbl][r][c] \in Column(past.origin.rows[x.ref], e)
  <1> DEFINE old == past.origin
             t == x.tbl
  <1>1. ReferencesHold(old) /\ ~FillsReference(old)
    BY FineActive, FineIs, UndoingMeets DEF References
  <1>2. r \in DOMAIN old.rows[t] /\ ReplayedWith(x, c, r)
    BY ReplayedCell
  <1>3. old.rows[t][r][c] \in Column(old.rows[x.ref], e) \cup {Null}
    <2>1. Column(old.rows[t], c) \subseteq Column(old.rows[x.ref], e) \cup {Null}
      BY <1>1 DEF ReferencesHold, ReferenceHolds
    <2>2. QED  BY <1>2, <2>1 DEF Column
  <1>4. CASE work.rows[t][r][c] = old.rows[t][r][c]
    BY <1>3, <1>4
  <1>5. ASSUME old.rows[t][r][c] = Null, NEW n \in ChangesOf(t, c), FillsNulls(script[n])
        PROVE  FillOf(old, script[n]) \in Column(old.rows[x.ref], e)
    <2>1. Null \in Column(old.rows[t], c)
      BY <1>2, <1>5 DEF Column
    <2>2. x \in Keys(old.deps)
      BY DEF Keys
    <2>3. QED  BY <1>1, <1>5, <2>1, <2>2 DEF FillsReference
  <1>6. QED  BY <1>2, <1>4, <1>5 DEF ReplayedWith

(* A fill that no unique index and no check refuses.                        *)
LEMMA ReplayedFill ==
  ASSUME ~FillsConstraint(past.origin), NEW x \in past.origin.deps, NEW c \in x.cols,
         NEW n \in ChangesOf(x.tbl, c), FillsNulls(script[n]),
         NEW r \in DOMAIN past.origin.rows[x.tbl], past.origin.rows[x.tbl][r][c] = Null
  PROVE  LET w == FillOf(past.origin, script[n]) IN
         /\ x.kind = "unique" => w \notin Column(past.origin.rows[x.tbl], c) \ {Null}
         /\ x.kind = "check" => w # x.val
  <1>1. Null \in Column(past.origin.rows[x.tbl], c)
    BY DEF Column
  <1>2. QED  BY <1>1 DEF FillsConstraint

LEMMA ReplayedUniqueGoes ==
  ASSUME Fine, run.phase = "replay", NEW x \in Replayed(work), x.kind = "unique"
  PROVE  Distinct(AddAll(work, Replayed(work)), x.tbl, x.cols)
  <1> DEFINE old == past.origin
             e == AddAll(work, Replayed(work))
             t == x.tbl
  <1>1. Active /\ run.phase # "apply"
    BY DEF Active
  <1>2. Undoing /\ x \in old.deps /\ x \in Dependents
    BY ReplayedOld
  <1>3. /\ work \in Databases /\ RowsHold(old) /\ t \in Tables /\ Exists(old, t)
        /\ ~FillsConstraint(old) /\ ~DropsUnique(old)
    BY <1>1, <1>2, FineActive, FineIs, UndoingMeets, ReplayedOld DEF RowsKnown, Coherent, Placed
  <1>4. e.rows = work.rows
    BY <1>3 DEF AddAll, Databases
  <1>5. ASSUME NEW q \in DOMAIN work.rows[t], NEW r \in DOMAIN work.rows[t], q # r
        PROVE  \E c \in x.cols : work.rows[t][q][c] # work.rows[t][r][c]
    <2>1. \A c \in x.cols : /\ q \in DOMAIN old.rows[t] /\ ReplayedWith(x, c, q)
                            /\ r \in DOMAIN old.rows[t] /\ ReplayedWith(x, c, r)
      BY <1>1, <1>2, <1>5, ReplayedCell
    <2>2. DOMAIN work.rows[t] = DOMAIN old.rows[t]
      BY <1>1, <1>2, <1>3, OldRows
    <2>3. PICK c \in x.cols : old.rows[t][q][c] # old.rows[t][r][c]
      BY <1>2, <1>3, <1>5, <2>1, <2>2 DEF RowsHold, Distinct
    <2>4. ~(<<t, c>> \in DroppedColumns /\ ~KeepsKey(old, t))
      BY <1>2, <1>3 DEF DropsUnique
    <2>5. ASSUME NEW i \in {q, r}
          PROVE  \/ work.rows[t][i][c] = old.rows[t][i][c]
                 \/ /\ old.rows[t][i][c] = Null
                    /\ work.rows[t][i][c] \notin Column(old.rows[t], c) \ {Null}
      <3>1. i \in DOMAIN old.rows[t] /\ ReplayedWith(x, c, i)
        BY <2>1, <2>5
      <3>2. ASSUME old.rows[t][i][c] = Null, NEW n \in ChangesOf(t, c), FillsNulls(script[n])
            PROVE  FillOf(old, script[n]) \notin Column(old.rows[t], c) \ {Null}
        BY <1>2, <1>3, <3>1, <3>2, ReplayedFill
      <3>3. QED  BY <2>4, <3>1, <3>2 DEF ReplayedWith
    <2>6. old.rows[t][q][c] \in Column(old.rows[t], c) /\ old.rows[t][r][c] \in Column(old.rows[t], c)
      BY <2>1 DEF Column
    <2>7. work.rows[t][q][c] # work.rows[t][r][c]
      BY <2>3, <2>5, <2>6
    <2>8. QED  BY <2>7
  <1>6. QED  BY <1>4, <1>5 DEF Distinct

LEMMA ReplayedCheckGoes ==
  ASSUME Fine, run.phase = "replay", NEW x \in Replayed(work), x.kind = "check"
  PROVE  CheckHolds(AddAll(work, Replayed(work)), x)
  <1> DEFINE old == past.origin
             e == AddAll(work, Replayed(work))
             t == x.tbl
  <1>1. Active /\ run.phase # "apply"
    BY DEF Active
  <1>2. Undoing /\ x \in old.deps /\ x \in Dependents
    BY ReplayedOld
  <1>3. /\ work \in Databases /\ RowsHold(old) /\ t \in Tables /\ Exists(old, t)
        /\ ~FillsConstraint(old)
    BY <1>1, <1>2, FineActive, FineIs, UndoingMeets, ReplayedOld DEF RowsKnown, Coherent, Placed
  <1>4. e.rows = work.rows
    BY <1>3 DEF AddAll, Databases
  <1>5. ASSUME x.val # Null, NEW r \in DOMAIN work.rows[t]
        PROVE  \E c \in x.cols : work.rows[t][r][c] # x.val
    <2>1. \A c \in x.cols : r \in DOMAIN old.rows[t] /\ ReplayedWith(x, c, r)
      BY <1>1, <1>2, <1>5, ReplayedCell
    <2>2. DOMAIN work.rows[t] = DOMAIN old.rows[t]
      BY <1>1, <1>2, <1>3, OldRows
    <2>3. PICK c \in x.cols : old.rows[t][r][c] # x.val
      BY <1>2, <1>3, <1>5, <2>1, <2>2 DEF RowsHold, CheckHolds
    <2>4. ASSUME old.rows[t][r][c] = Null, NEW n \in ChangesOf(t, c), FillsNulls(script[n])
          PROVE  FillOf(old, script[n]) # x.val
      BY <1>2, <1>3, <2>1, <2>4, ReplayedFill
    <2>5. work.rows[t][r][c] # x.val
      BY <1>5, <2>1, <2>3, <2>4 DEF ReplayedWith
    <2>6. QED  BY <2>5
  <1>6. QED  BY <1>4, <1>5 DEF CheckHolds

LEMMA ReplayedKeyGoes ==
  ASSUME Fine, run.phase = "replay", NEW x \in Replayed(work), x.kind = "pk"
  PROVE  LET e == AddAll(work, Replayed(work)) IN
         /\ KeyHolds(e, x.tbl, x.cols)
         /\ \A y \in e.deps : y.kind = "pk" /\ y.tbl = x.tbl => y = x
  <1> DEFINE old == past.origin
             e == AddAll(work, Replayed(work))
  <1>1. Active /\ run.phase # "apply"
    BY DEF Active
  <1>2. /\ Undoing /\ x \in old.deps /\ x.tbl \in Tables /\ x.cols \subseteq Columns
    BY ReplayedOld
  <1>3. /\ KeysSound(old) /\ KeysUnique(old) /\ work \in Databases
    BY <1>1, FineActive DEF Coherent, Sound
  <1>4. e.cols = work.cols /\ e.rows = work.rows
    BY <1>3 DEF AddAll, Databases
  <1>5. \A y \in e.deps : y.kind = "pk" /\ y.tbl = x.tbl => y = x
    BY <1>2, <1>3, ReplayedPk DEF KeysUnique
  <1>6. \A c \in x.cols : c \in PkColumns(old, x.tbl)
    BY <1>2 DEF PkColumns
  <1>7. \A c \in x.cols : ~work.cols[x.tbl][c].null
    BY <1>1, <1>2, <1>3, UndoneColumn DEF KeysSound
  <1>8. ASSUME NEW q \in DOMAIN work.rows[x.tbl], NEW r \in DOMAIN work.rows[x.tbl], q # r
        PROVE  \E c \in x.cols : work.rows[x.tbl][q][c] # work.rows[x.tbl][r][c]
    <2>1. Exists(old, x.tbl)
      BY <1>1, <1>2, FineActive DEF Coherent, Placed
    <2>2. DOMAIN work.rows[x.tbl] = DOMAIN old.rows[x.tbl]
      BY <1>1, <1>2, <2>1, OldRows
    <2>3. PICK c \in x.cols : old.rows[x.tbl][q][c] # old.rows[x.tbl][r][c]
      BY <1>2, <1>3, <1>8, <2>2 DEF KeysUnique, Distinct
    <2>4. /\ work.rows[x.tbl][q][c] = old.rows[x.tbl][q][c]
          /\ work.rows[x.tbl][r][c] = old.rows[x.tbl][r][c]
      BY <1>1, <1>2, <1>6, <1>8, KeyCellsBack
    <2>5. QED  BY <2>3, <2>4
  <1>9. KeyHolds(e, x.tbl, x.cols)
    BY <1>4, <1>7, <1>8 DEF KeyHolds, Distinct
  <1>10. QED  BY <1>5, <1>9

LEMMA OneDefault ==
  ASSUME NEW d \in Databases, NEW t \in Tables, NEW c \in Columns, NEW a, ColumnIs(d, t, c, a),
         NEW x \in DefaultsOn(d, t, c), NEW y \in DefaultsOn(d, t, c)
  PROVE  x = y
  <1>1. x \in Dependents /\ x.kind = "default" /\ x.tbl = t /\ x.cols = {c}
    BY DEF DefaultsOn, Databases
  <1>2. y \in Dependents /\ y.kind = "default" /\ y.tbl = t /\ y.cols = {c}
    BY DEF DefaultsOn, Databases
  <1>3. x.val = y.val
    BY DEF ColumnIs
  <1>4. x = Default(t, c, x.val)
    BY <1>1, DefaultIs
  <1>5. y = Default(t, c, y.val)
    BY <1>2, DefaultIs
  <1>6. QED  BY <1>3, <1>4, <1>5

LEMMA ReplayedDefaultGoes ==
  ASSUME Fine, run.phase = "replay", NEW x \in Replayed(work), x.kind = "default", NEW c \in x.cols
  PROVE  DefaultsOn(AddAll(work, Replayed(work)), x.tbl, c) \subseteq {x}
  <1> DEFINE old == past.origin
             e == AddAll(work, Replayed(work))
             t == x.tbl
  <1>1. Active /\ run.phase # "apply" /\ run.phase # "verify"
    BY DEF Active
  <1>2. /\ Undoing /\ x \in old.deps /\ t \in Tables /\ c \in Columns /\ x \in Dependents
    BY ReplayedOld
  <1>3. work \in Databases /\ old \in Databases /\ Placed(old)
    BY <1>1, FineActive DEF Coherent
  <1>4. e.deps = work.deps \cup Replayed(work)
    BY <1>3 DEF AddAll, Databases
  <1>5. x.cols = {c} /\ x.kind # "fk"
    BY <1>2, DefaultIs
  <1>6. PICK n \in 1 .. Len(script) : Copies(script[n]) /\ InScope(x, script[n])
    BY ReplayedOld
  <1> DEFINE s == AllSteps[Undone(n)]
  <1>7. /\ s.kind \in RestoreKinds /\ s.tbl = script[n].tbl /\ s.col = script[n].col
        /\ script[n].kind = "drop_table" => s.kind = "restore_table"
        /\ script[n].kind = "drop_column" => s.kind = "restore_column"
        /\ StepDone(Undone(n)) /\ AsCompared(old, script[n])
    BY <1>1, <1>2, <1>6, RestoreDone
  <1>8. t = script[n].tbl /\ (script[n].kind = "drop_column" => c = script[n].col)
    BY <1>5, <1>6 DEF InScope, OnTable, OnColumn, Copies
  <1>9. DefaultsOn(work, t, c) = {}
    <2>1. DefaultsOut(t, c)
      BY <1>2, <1>6, <1>7, <1>8 DEF StepDone, Copies
    <2>2. QED  BY <1>1, <2>1 DEF DefaultsOut
  <1>10. HasColumn(old, t, c)
    BY <1>2, <1>3 DEF Placed
  <1>11. \E a : ColumnIs(old, t, c, a)
    <2>1. CASE script[n].kind = "drop_table"
      BY <1>2, <1>7, <1>8, <1>10, <2>1 DEF AsCompared, TableIs
    <2>2. CASE script[n].kind = "drop_column"
      BY <1>7, <1>8, <2>2 DEF AsCompared
    <2>3. QED  BY <1>6, <2>1, <2>2 DEF Copies
  <1>12. ASSUME NEW y \in DefaultsOn(e, t, c)
         PROVE  y = x
    <2>1. y \in Replayed(work) /\ y.kind = "default" /\ y.tbl = t /\ y.cols = {c}
      BY <1>4, <1>9, <1>12 DEF DefaultsOn
    <2>2. y \in old.deps
      BY <2>1, ReplayedOld
    <2>3. y \in DefaultsOn(old, t, c) /\ x \in DefaultsOn(old, t, c)
      BY <1>2, <1>5, <2>1, <2>2 DEF DefaultsOn
    <2>4. QED  BY <1>2, <1>3, <1>11, <2>3, OneDefault
  <1>13. QED  BY <1>12

LEMMA ReplayedReferenceGoes ==
  ASSUME Fine, run.phase = "replay", NEW x \in Replayed(work), x.kind = "fk"
  PROVE  ReferenceHolds(AddAll(work, Replayed(work)), x)
  <1> DEFINE old == past.origin
             e == AddAll(work, Replayed(work))
  <1>1. Active /\ run.phase # "apply"
    BY DEF Active
  <1>2. /\ Undoing /\ x \in old.deps /\ x.tbl \in Tables /\ x.ref \in Tables /\ x \in Dependents
        /\ x.cols \subseteq Columns /\ x.refcols \subseteq Columns
        /\ PlacedIn(old, x) /\ ReferenceHolds(old, x)
    BY ReplayedOld
  <1>3. work \in Databases
    BY <1>1, FineActive
  <1>4. e.cols = work.cols /\ e.rows = work.rows
    BY <1>3 DEF AddAll, Databases
  <1>5. x.refcols = PkColumns(e, x.ref)
    <2>1. \A y : y.kind = "pk" /\ y.tbl = x.ref => (y \in e.deps <=> y \in old.deps)
      BY <1>2, ReplayedPk
    <2>2. PkColumns(e, x.ref) = PkColumns(old, x.ref)
      BY <2>1, SamePk
    <2>3. QED  BY <1>2, <2>2 DEF ReferenceHolds
  <1>6. ASSUME NEW c \in x.cols, NEW k \in x.refcols
        PROVE  /\ work.cols[x.tbl][c].type = work.cols[x.ref][k].type
               /\ Column(work.rows[x.tbl], c) \subseteq Column(work.rows[x.ref], k) \cup {Null}
    <2>1. HasColumn(old, x.tbl, c) /\ HasColumn(old, x.ref, k) /\ k \in PkColumns(old, x.ref)
          /\ c \in Columns /\ k \in Columns
          /\ old.cols[x.tbl][c].type = old.cols[x.ref][k].type
      BY <1>2, <1>6 DEF PlacedIn, ReferenceHolds
    <2>2. work.cols[x.tbl][c] = old.cols[x.tbl][c]
      BY <1>1, <1>2, <2>1, UndoneColumn
    <2>3. work.cols[x.ref][k] = old.cols[x.ref][k]
      BY <1>1, <1>2, <2>1, UndoneColumn
    <2>4. /\ DOMAIN work.rows[x.ref] = DOMAIN old.rows[x.ref]
          /\ \A r \in DOMAIN work.rows[x.ref] : work.rows[x.ref][r][k] = old.rows[x.ref][r][k]
      BY <1>1, <1>2, <2>1, KeyCellsBack
    <2>5. Column(work.rows[x.ref], k) = Column(old.rows[x.ref], k)
      BY <2>4 DEF Column
    <2>6. \A r \in DOMAIN work.rows[x.tbl] :
            work.rows[x.tbl][r][c] # Null => work.rows[x.tbl][r][c] \in Column(old.rows[x.ref], k)
      BY <1>1, <1>2, <1>6, ReplayedValues
    <2>7. Column(work.rows[x.tbl], c) \subseteq Column(old.rows[x.ref], k) \cup {Null}
      <3>1. ASSUME NEW v \in Column(work.rows[x.tbl], c), v # Null
            PROVE  v \in Column(old.rows[x.ref], k)
        <4>1. PICK r \in DOMAIN work.rows[x.tbl] : v = work.rows[x.tbl][r][c]
          BY <3>1 DEF Column
        <4>2. QED  BY <2>6, <3>1, <4>1
      <3>2. QED  BY <3>1
    <2>8. QED  BY <2>1, <2>2, <2>3, <2>5, <2>7
  <1>7. QED  BY <1>4, <1>5, <1>6 DEF ReferenceHolds

LEMMA ReplayGoes ==
  ASSUME Fine, run.phase = "replay"
  PROVE  ReplayedOnce(work) /\ CanAddAll(work, Replayed(work))
  <1> DEFINE e == AddAll(work, Replayed(work))
  <1>1. Active
    BY DEF Active
  <1>2. UndoInv /\ Running /\ work \in Databases /\ ReplayKnown /\ Known
    BY <1>1, FineActive DEF UndoInv, ToRecreateKnown
  <1>3. ASSUME NEW i \in ReplayedEntries(work), NEW j \in ReplayedEntries(work), i # j
        PROVE  Entry(work, i).deps \cap Entry(work, j).deps = {}
    <2>1. PICK m \in Performed : AllSteps[m].kind \in RestoreKinds
      BY <1>2 DEF ReplayedEntries, ReplayKnown
    <2>2. run.undo /\ run.replay # {}
      BY <1>2, <2>1, RestoringStep DEF ReplayedEntries
    <2>3. Undoing
      BY <1>2, <2>2, UndoingIs DEF UndoInv, ToRecreateKnown, Known, NothingToDo
    <2>4. EntriesApart(db)
      BY <2>3, FineIs, UndoingMeets DEF JournalInv, Undoing
    <2>5. work.journal[FALSE] = db.journal[FALSE]
      BY <1>2, <2>3 DEF UndoInv, JournalsHold
    <2>6. i \in EntryNumbers(db) /\ j \in EntryNumbers(db)
      BY <2>5 DEF ReplayedEntries, EntryNumbers
    <2>7. Entry(work, i) = Entry(db, i) /\ Entry(work, j) = Entry(db, j)
      BY <2>5 DEF Entry
    <2>8. QED  BY <1>3, <2>4, <2>6, <2>7 DEF EntriesApart
  <1>4. ASSUME NEW x \in Replayed(work)
        PROVE  x \notin work.deps /\ Addable(e, x)
    <2>1. e.cols = work.cols
      BY <1>2 DEF AddAll, Databases
    <2>2. /\ x \notin work.deps /\ x.tbl \in Tables
          /\ Exists(work, x.tbl) /\ \A c \in x.cols : HasColumn(work, x.tbl, c)
      BY <1>4, ReplayedOld
    <2>3. x.tbl \in Present(e) /\ \A c \in x.cols : HasColumn(e, x.tbl, c)
      BY <2>1, <2>2 DEF Present, Exists, HasColumn
    <2>4. x.kind = "pk" => /\ KeyHolds(e, x.tbl, x.cols)
                           /\ \A y \in e.deps : y.kind = "pk" /\ y.tbl = x.tbl => y = x
      BY <1>4, ReplayedKeyGoes
    <2>5. x.kind = "fk" => ReferenceHolds(e, x)
      BY <1>4, ReplayedReferenceGoes
    <2>6. x.kind = "default" => \A c \in x.cols : DefaultsOn(e, x.tbl, c) \subseteq {x}
      BY <1>4, ReplayedDefaultGoes
    <2>7. x.kind = "unique" => Distinct(e, x.tbl, x.cols)
      BY <1>4, ReplayedUniqueGoes
    <2>8. x.kind = "check" => CheckHolds(e, x)
      BY <1>4, ReplayedCheckGoes
    <2>9. QED  BY <2>2, <2>3, <2>4, <2>5, <2>6, <2>7, <2>8 DEF Addable
  <1>5. ReplayedOnce(work)
    BY <1>3 DEF ReplayedOnce, Entry
  <1>6. QED  BY <1>4, <1>5 DEF CanAddAll

-----------------------------------------------------------------------------------
(* Every step is verified.                                                  *)
(* What is given back has the defaults it had.                              *)
LEMMA DefaultsGivenBack ==
  ASSUME Fine, Undoing, run.phase = "verify", NEW n \in 1 .. Len(script), Copies(script[n]),
         NEW c \in Columns, script[n].kind = "drop_column" => c = script[n].col
  PROVE  DefaultsOn(work, script[n].tbl, c) = DefaultsOn(past.origin, script[n].tbl, c)
  <1> DEFINE old == past.origin
             t == script[n].tbl
             s == AllSteps[Undone(n)]
  <1>1. Active /\ run.phase # "apply"
    BY DEF Active
  <1>2. /\ UndoInv /\ Known /\ ToRecreateKnown /\ AllReplayed /\ Tidy /\ NoDrift(old)
        /\ past.state = "applied" /\ work \in Databases
    BY <1>1, FineActive, FineIs, UndoingMeets DEF UndoInv, Undoing
  <1>3. /\ s.kind \in RestoreKinds /\ s.tbl = t /\ s.col = script[n].col
        /\ script[n].kind = "drop_table" => s.kind = "restore_table"
        /\ script[n].kind = "drop_column" => s.kind = "restore_column"
        /\ StepDone(Undone(n))
    BY <1>1, RestoreDone
  <1>4. work.journal[FALSE] = db.journal[FALSE] /\ JournalWithin(db, old.deps)
    BY <1>2 DEF UndoInv, JournalsHold, JournalBound
  <1>5. ASSUME NEW x \in DefaultsOn(work, t, c)
        PROVE  x \in DefaultsOn(old, t, c)
    <2>1. DefaultsOut(t, c)
      BY <1>3 DEF StepDone, Copies
    <2>2. InJournal(work, x)
      BY <1>5, <2>1 DEF DefaultsOut
    <2>3. InJournal(db, x)
      BY <1>4, <2>2, SameJournal
    <2>4. x \in old.deps
      BY <1>4, <2>3 DEF JournalWithin, InJournal
    <2>5. QED  BY <1>5, <2>4 DEF DefaultsOn
  <1>6. ASSUME NEW x \in DefaultsOn(old, t, c)
        PROVE  x \in DefaultsOn(work, t, c)
    <2>1. x \in old.deps /\ x.kind = "default" /\ x.tbl = t /\ x.cols = {c}
      BY <1>6 DEF DefaultsOn
    <2>2. InScope(x, script[n])
      BY <2>1 DEF InScope, OnTable, OnColumn, Copies
    <2>3. DefaultsIn(old, db, script[n])
      BY <1>2, FineIs DEF DefaultsJournaled
    <2>4. InJournal(db, x)
      BY <2>1, <2>2, <2>3 DEF DefaultsIn
    <2>5. InJournal(work, x)
      BY <1>4, <2>4, SameJournal
    <2>6. JournalWithin(work, work.deps)
      BY <1>2, JournalReplayed
    <2>7. x \in work.deps
      BY <2>5, <2>6 DEF JournalWithin, InJournal
    <2>8. QED  BY <2>1, <2>7 DEF DefaultsOn
  <1>7. QED  BY <1>5, <1>6

LEMMA VerifyGoes ==
  ASSUME Fine, run.phase = "verify"
  PROVE  Verified
  <1> DEFINE old == past.origin
  <1>1. Active /\ run.phase # "apply"
    BY DEF Active
  <1>2. /\ UndoInv /\ Known /\ TypeOK /\ FromDecisions /\ AllApplied /\ NothingToDo /\ Running
        /\ (Forward \/ Undoing \/ Again)
    BY <1>1, FineActive DEF Known
  <1>3. SUFFICES ASSUME NEW n \in 1 .. Len(script) PROVE Goal(work, AllSteps[n])
    BY DEF Verified
  <1>4. CASE Again
    BY <1>2, <1>4, AgainApplied DEF NothingToDo
  <1>5. CASE AllSteps[n].kind \notin RestoreKinds
    BY <1>1, <1>5, StepReached
  <1>6. CASE ~Again /\ AllSteps[n].kind \in RestoreKinds
    <2> DEFINE s == AllSteps[n]
               op == script[Undone(n)]
               t == op.tbl
    <2>1. Undoing
      <3>1. ~Forward
        BY <1>2, <1>6, RunStep DEF Forward, ForwardKinds, RestoreKinds
      <3>2. QED  BY <1>2, <1>6, <3>1
    <2>2. Undone(n) \in 1 .. Len(script) /\ Undone(Undone(n)) = n
      BY <1>2, UndoStepFacts
    <2>3. Copies(op) /\ Undoes(s, op, Undone(n))
      BY <1>2, <1>6, <2>1, UndoingSource DEF Undoes, RestoreKinds, Copies
    <2>4. /\ s \in Steps /\ s.tbl = t /\ s.col = op.col
          /\ op.kind = "drop_table" => s.kind = "restore_table"
          /\ op.kind = "drop_column" => s.kind = "restore_column"
          /\ RestoredStep(s) /\ StepDone(n) /\ AsCompared(old, op)
      <3> DEFINE u == Undone(Undone(n))
      <3>1. /\ AllSteps[u] \in Steps /\ AllSteps[u].tbl = t /\ AllSteps[u].col = op.col
            /\ op.kind = "drop_table" => AllSteps[u].kind = "restore_table"
            /\ op.kind = "drop_column" => AllSteps[u].kind = "restore_column"
            /\ RestoredStep(AllSteps[u]) /\ StepDone(u) /\ AsCompared(old, op)
        BY <1>1, <2>1, <2>2, <2>3, RestoreDone
      <3>2. QED  BY <2>2, <3>1
    <2>5. \A c \in Columns : (op.kind = "drop_column" => c = op.col) =>
            DefaultsOn(work, t, c) = DefaultsOn(old, t, c)
      BY <2>1, <2>2, <2>3, DefaultsGivenBack
    <2>6. CASE op.kind = "drop_table"
      <3>1. s.kind = "restore_table" /\ s.table = op.table
        BY <2>3, <2>4, <2>6 DEF Undoes
      <3>2. Exists(work, t) /\ work.cols[t] = [c \in Columns |-> Stored(op.table[c])]
        BY <2>4, <3>1 DEF RestoredStep, StepDone, MadeColumns
      <3>3. TableIs(old, t, op.table)
        BY <2>4, <2>6 DEF AsCompared
      <3>4. ASSUME NEW c \in Columns, op.table[c].type = 0
            PROVE  ~HasColumn(work, t, c)
        BY <3>2, <3>4 DEF HasColumn, Stored
      <3>5. ASSUME NEW c \in Columns, op.table[c].type # 0
            PROVE  ColumnIs(work, t, c, op.table[c])
        <4>1. ColumnIs(old, t, c, op.table[c])
          BY <3>3, <3>5 DEF TableIs
        <4>2. DefaultsOn(work, t, c) = DefaultsOn(old, t, c)
          BY <2>5, <2>6
        <4>3. work.cols[t][c] = Stored(op.table[c]) /\ HasColumn(work, t, c)
          BY <3>2, <3>5 DEF HasColumn, Stored
        <4>4. QED  BY <4>1, <4>2, <4>3 DEF ColumnIs
      <3>6. TableIs(work, t, op.table)
        BY <3>2, <3>4, <3>5 DEF TableIs
      <3>7. QED  BY <2>4, <3>1, <3>6 DEF Goal
    <2>7. CASE op.kind = "drop_column"
      <3>1. s.kind = "restore_column" /\ s.target = op.observed /\ s.col \in Columns
        BY <2>3, <2>4, <2>7, StepFields DEF Undoes
      <3>2. ColumnIs(old, t, s.col, s.target)
        BY <2>4, <2>7, <3>1 DEF AsCompared
      <3>3. work.cols[t][s.col] = Stored(s.target) /\ HasColumn(work, t, s.col)
        BY <2>4, <3>1 DEF StepDone, RestoredStep
      <3>4. DefaultsOn(work, t, s.col) = DefaultsOn(old, t, s.col)
        BY <2>4, <2>5, <3>1
      <3>5. ColumnIs(work, t, s.col, s.target)
        BY <3>2, <3>3, <3>4 DEF ColumnIs
      <3>6. QED  BY <2>4, <3>1, <3>5 DEF Goal
    <2>8. QED  BY <2>3, <2>6, <2>7 DEF Copies
  <1>7. QED  BY <1>4, <1>5, <1>6

-----------------------------------------------------------------------------------
(* So nothing a script does after its checks fails.                         *)
LEMMA NothingFails ==
  ASSUME Fine
  PROVE  ~StatementFails /\ ~VerifyFails
  BY CopyGoes, ChangeGoes, KeysGo, ReplayGoes, VerifyGoes DEF StatementFails, VerifyFails

(* What was compared and decided stays so until a commit or a cleaning.     *)
LEMMA ComparedStays ==
  ASSUME script' = script, db' = db, past'.state = past.state, past'.origin = past.origin
  PROVE  (Unforeseen(Compared) \/ ~NoDrift(Compared))' <=> Unforeseen(Compared) \/ ~NoDrift(Compared)
  <1>1. Compared' = Compared
    BY DEF Compared
  <1>2. NoDrift(Compared)' <=> NoDrift(Compared)
    BY <1>1 DEF NoDrift
  <1>3. /\ Contradictory' <=> Contradictory
        /\ MisfitsColumn' <=> MisfitsColumn
        /\ SharesBackup' <=> SharesBackup
    BY DEF Contradictory, MisfitsColumn, SharesBackup
  <1>4. EmptiesTable(Compared)' <=> EmptiesTable(Compared)
    BY <1>1 DEF EmptiesTable
  <1>5. CutsKey(Compared)' <=> CutsKey(Compared)
    BY <1>1 DEF CutsKey, Loses, Lossy
  <1>6. NullsKey(Compared)' <=> NullsKey(Compared)
    BY <1>1 DEF NullsKey, ChangesOf
  <1>7. SplitsReference(Compared)' <=> SplitsReference(Compared)
    BY <1>1 DEF SplitsReference, TypesAfter, ChangesOf
  <1>8. FillsReference(Compared)' <=> FillsReference(Compared)
    BY <1>1 DEF FillsReference, FillOf, ChangesOf
  <1>9. DropsBound(Compared)' <=> DropsBound(Compared)
    BY <1>1 DEF DropsBound
  <1>10. SecondIdentity(Compared)' <=> SecondIdentity(Compared)
    BY <1>1 DEF SecondIdentity, AddsIdentity
  <1>11. FillsConstraint(Compared)' <=> FillsConstraint(Compared)
    BY <1>1 DEF FillsConstraint, FillOf, ChangesOf
  <1>12. /\ RefusesFill(Compared)' <=> RefusesFill(Compared)
         /\ RefusesValue(Compared)' <=> RefusesValue(Compared)
    BY <1>1 DEF RefusesFill, RefusesValue
  <1>13. DropsUnique(Compared)' <=> DropsUnique(Compared)
    <2>1. DroppedColumns' = DroppedColumns
      BY DEF DroppedColumns
    <2>2. LossyColumns' = LossyColumns
      BY DEF LossyColumns, Loses, Lossy
    <2>3. QED  BY <1>1, <2>1, <2>2 DEF DropsUnique, KeepsKey
  <1>14. Unforeseen(Compared)' <=> Unforeseen(Compared)
    BY <1>3, <1>4, <1>5, <1>6, <1>7, <1>8, <1>9, <1>10, <1>11, <1>12, <1>13 DEF Unforeseen
  <1>15. QED  BY <1>2, <1>14

LEMMA NextChecks ==
  ASSUME MaxWrites = 0, SufficeInv, ChecksSuffice, [Next]_vars
  PROVE  ChecksSuffice'
  <1>1. /\ TypeOK
        /\ script' = script
        /\ used'.cleanups = 0 => used.cleanups = 0 /\ ~CleansUp
    BY AnyStep DEF SufficeInv
  <1>2. SUFFICES ASSUME past'.outcome = "rolled_back", used'.cleanups = 0, ~past'.disturbed
                 PROVE  (Unforeseen(Compared) \/ ~NoDrift(Compared))'
    BY DEF ChecksSuffice
  <1>3. ASSUME UNCHANGED <<db, past>>
        PROVE  (Unforeseen(Compared) \/ ~NoDrift(Compared))'
    <2>1. Unforeseen(Compared) \/ ~NoDrift(Compared)
      BY <1>1, <1>2, <1>3 DEF ChecksSuffice
    <2>2. QED  BY <1>1, <1>3, <2>1, ComparedStays
  <1>4. ASSUME NEW outcome \in {"refused", "interrupted"}, RollBack(outcome)
        PROVE  FALSE
    BY <1>1, <1>2, <1>4 DEF RollBack, TypeOK, Histories
  <1>5. ASSUME StatementFails \/ VerifyFails
        PROVE  (Unforeseen(Compared) \/ ~NoDrift(Compared))'
    <2>1. Unforeseen(Compared) \/ ~NoDrift(Compared)
      BY <1>1, <1>2, <1>5, NothingFails DEF Fine
    <2>2. UNCHANGED <<script, db>> /\ past'.state = past.state /\ past'.origin = past.origin
      BY <1>1, <1>5 DEF StatementFails, VerifyFails, RollBack, TypeOK, Histories
    <2>3. QED  BY <2>1, <2>2, ComparedStays
  <1>6. ASSUME Commit
        PROVE  FALSE
    BY <1>1, <1>2, <1>6 DEF Commit, TypeOK, Histories
  <1>7. CASE \E undo \in BOOLEAN : Start(undo)
    BY <1>3, <1>7 DEF Start
  <1>8. CASE ScriptStep
    BY <1>3, <1>4, <1>5, <1>6, <1>8
       DEF ScriptStep, CheckStep, Refuse, SkipStep, CopyStep, ChangeStep, RecreateKeys, Replay
  <1>9. CASE Interrupt \/ LockTimeout
    BY <1>4, <1>9 DEF Interrupt, LockTimeout
  <1>10. CASE \E t \in Tables : Write(t) \/ Hold(t) \/ Release(t)
    <2>1. PICK t \in Tables : Write(t) \/ Hold(t) \/ Release(t)
      BY <1>10
    <2>2. ~Write(t)
      BY <1>1 DEF Write, TypeOK
    <2>3. UNCHANGED <<db, past>>
      BY <2>1, <2>2 DEF Hold, Release
    <2>4. QED  BY <1>3, <2>3
  <1>11. CASE CleansUp
    BY <1>1, <1>2, <1>11
  <1>12. CASE UNCHANGED vars
    BY <1>3, <1>12 DEF vars
  <1>13. QED  BY <1>7, <1>8, <1>9, <1>10, <1>11, <1>12 DEF Next, CleansUp

(* While nobody else writes, no statement of a script or of its undo fails  *)
(* and every step is verified, once all checks have passed on a database    *)
(* that is as it was compared, unless the decisions are ones that the       *)
(* checks do not foresee.                                                   *)
THEOREM ChecksAreEnough ==
  ASSUME MaxWrites = 0
  PROVE  Spec => []ChecksSuffice
  <1>1. Init => ChecksSuffice
    BY DEF Init, ChecksSuffice
  <1>2. SufficeInv /\ ChecksSuffice /\ [Next]_vars => SufficeInv' /\ ChecksSuffice'
    BY NextSuffice, NextChecks
  <1>3. QED  BY <1>1, <1>2, InitSuffice, PTL DEF Spec

====================================================================================
