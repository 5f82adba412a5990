----------------------------------- MODULE UndoProofs -----------------------------------
(****************************************************************************)
(* The undo script is the inverse of the script: UndoRestores, for every    *)
(* set of tables, decisions and databases, while nobody else writes.        *)
(*                                                                          *)
(* An undo script works from what two committed runs left: the database and *)
(* the backups and the journal beside it.  UndoInv, the inductive           *)
(* invariant, therefore relates the database the script met (past.origin)   *)
(* to the committed one (db), and db to the copy a run works on (work):     *)
(*   - frames: only what a step names may differ (RunFrame, OriginFrame);   *)
(*   - coherence: dependents are on columns that are there, keys tell rows  *)
(*     apart, NULL is where a column takes it (CoherentRun);                *)
(*   - dependents: what a run adds or takes away, and that what it takes    *)
(*     away is in its journal (Gained to PastLost);                         *)
(*   - backups: those of the script hold what it met, and the undo script   *)
(*     leaves them alone (ForwardBackups, PastBackups, UndoBackups);        *)
(*   - values: the script changed no value it was not to change             *)
(*     (OriginCells), and every restoring step so far gave back its table   *)
(*     or column (Restored).                                                *)
(* When the undo script commits, these say of every column, dependent and   *)
(* cell that it is as it was (FinishingBack).                               *)
(****************************************************************************)
EXTENDS MigrationProofs

(* A run of the script on a database it was not yet applied to, and a run   *)
(* of the undo script on one it was.                                        *)
Forward == Running /\ ~run.undo /\ past.state # "applied"
Undoing == Running /\ run.undo /\ past.state = "applied"

(* Frames: d and e agree on every column and table that none of the steps   *)
(* is about.                                                                *)
TableKinds == {"create_table", "drop_table", "restore_table"}
RestoreKinds == {"restore_table", "restore_column"}
Touches(s, t, c) == s.tbl = t /\ (s.kind \in TableKinds \/ s.col = c)
Retables(s, t) == s.tbl = t /\ s.kind \in TableKinds
SameColumn(d, e, t, c) == Keeps(d, e, t, c) /\ DefaultsOn(d, t, c) = DefaultsOn(e, t, c)
Frame(d, e, steps) ==
  /\ \A t \in Tables, c \in Columns :
       (\A s \in steps : ~Touches(s, t, c)) => SameColumn(d, e, t, c)
  /\ \A t \in Tables : (\A s \in steps : ~Retables(s, t)) => DOMAIN e.rows[t] = DOMAIN d.rows[t]
Done == {AllSteps[n] : n \in Performed}
ScriptSteps == {script[n] : n \in 1 .. Len(script)}
RunFrame == Frame(db, work, Done)
OriginFrame == Frame(past.origin, db, ScriptSteps)

(* Coherence: what the engine guarantees of a database at every moment.     *)
Placed(d) ==
  \A x \in d.deps :
    /\ Exists(d, x.tbl) /\ \A c \in x.cols : HasColumn(d, x.tbl, c)
    /\ x.kind = "fk" => Exists(d, x.ref) /\ \A c \in x.refcols : HasColumn(d, x.ref, c)
NoStray(d) == \A t \in Tables : ~Exists(d, t) => DOMAIN d.rows[t] = {}
NullsFit(d) ==
  \A t \in Tables, c \in Columns : \A r \in DOMAIN d.rows[t] :
    HasColumn(d, t, c) /\ d.rows[t][r][c] = Null => d.cols[t][c].null
KeysUnique(d) ==
  \A x \in d.deps : x.kind = "pk" =>
    /\ \A y \in d.deps : y.kind = "pk" /\ y.tbl = x.tbl => y = x
    /\ \A q, r \in DOMAIN d.rows[x.tbl] :
         q # r => \E c \in x.cols : d.rows[x.tbl][q][c] # d.rows[x.tbl][r][c]
Coherent(d) == Sound(d) /\ Placed(d) /\ NoStray(d) /\ NullsFit(d) /\ KeysUnique(d)

(* While its steps are applied, no value in a key has become greater than   *)
(* the committed one; a key column that is only widened keeps it.           *)
KeysTight ==
  run.phase = "apply" =>
    \A x \in work.deps : x.kind = "pk" =>
      \A c \in x.cols : \A r \in DOMAIN db.rows[x.tbl] :
        work.rows[x.tbl][r][c] <= db.rows[x.tbl][r][c]

(* What a run recreates comes from the committed database and from the      *)
(* steps that restore.                                                      *)
RunStart == run.phase = "check" => run.keys = {} /\ run.replay = {} /\ ~run.copied
KeysKnown == Running => run.keys \subseteq Keys(db.deps)
ReplayKnown ==
  Running =>
    run.replay = {AllSteps[m].num : m \in {n \in Performed : AllSteps[n].kind \in RestoreKinds}}

(* The journal of the forward script: one entry for a step that dropped     *)
(* something, with the dependents that went with it.                        *)
InScope(x, s) == IF s.kind = "drop_table" THEN OnTable(x, s.tbl) ELSE OnColumn(x, s.tbl, s.col)
Entry(d, j) == d.journal[FALSE].entries[j]
EntryNumbers(d) == 1 .. Len(d.journal[FALSE].entries)
EntriesOk(d) ==
  \A j \in EntryNumbers(d) :
    /\ Entry(d, j).step \in 1 .. Len(script)
    /\ Copies(script[Entry(d, j).step])
    /\ \A x \in Entry(d, j).deps : x.kind \in Recreatable /\ InScope(x, script[Entry(d, j).step])
InJournal(d, x) == \E j \in EntryNumbers(d) : x \in Entry(d, j).deps
JournalWithin(d, X) == \A j \in EntryNumbers(d) : Entry(d, j).deps \subseteq X

(* Dependents: what a run has added so far and what it has taken away, and  *)
(* how the applied database differs from the one the script met.            *)
Gained ==
  Active => \A x \in work.deps \ db.deps :
    x.kind = "default" \/ (Undoing /\ run.phase = "verify" /\ InJournal(work, x))
Earlier == 1 .. run.at - 1
OnCreated ==
  Forward /\ run.phase = "apply" /\ (\A m \in Earlier : script[m].kind \notin ColumnKinds) =>
    \A x \in work.deps \ db.deps : ~Exists(db, x.tbl)
GoneForGood(x) == x.kind \notin Recreatable /\ x.tbl \in DroppedTables
DropsSome == \E n \in 1 .. Len(script) : Copies(script[n])
LostJournaled ==
  Forward => \A x \in db.deps \ work.deps :
    \/ x.kind = "default" \/ x \in ToRecreate \/ GoneForGood(x)
    \/ DropsSome /\ InJournal(work, x)
UndoLoses ==
  Undoing => \A x \in db.deps \ work.deps :
    \/ x.kind = "default" \/ x \in ToRecreate
    \/ \E n \in 1 .. Len(script) :
         \/ script[n].kind = "create_table" /\ OnTable(x, script[n].tbl)
         \/ script[n].kind = "add_column" /\ OnColumn(x, script[n].tbl, script[n].col)
PastGained == past.state = "applied" => \A x \in db.deps \ past.origin.deps : x.kind = "default"
PastLost ==
  past.state = "applied" => \A x \in past.origin.deps \ db.deps :
    \/ x.kind = "default"
    \/ /\ Excused(x)
       /\ GoneForGood(x) \/ (DropsSome /\ (db.journal[FALSE].made => InJournal(db, x)))

(* Backups: a dropped table, or a dropped column of a table that keeps its  *)
(* key, is copied as the script met it, and the copy is still so when the   *)
(* undo script reads it.                                                    *)
Keepable(d, s) ==
  \/ s.kind = "drop_table"
  \/ s.kind = "drop_column" /\ KeepsKey(d, s.tbl) /\ s.tbl \notin DroppedTables
ForwardBackups ==
  Forward => \A n \in 1 .. Len(script) :
    (n \in Performed \/ (n = run.at /\ run.copied)) /\ Copies(script[n]) =>
      /\ BackedUp(work, BackupOf(script[n], FALSE))
      /\ Keepable(db, script[n]) => work.bak[BackupOf(script[n], FALSE)] = CopyOf(db, script[n])
PastBackups ==
  past.state = "applied" /\ NoDrift(past.origin) =>
    \A n \in 1 .. Len(script) :
      Keepable(past.origin, script[n]) /\ BackedUp(db, BackupOf(script[n], FALSE)) =>
        db.bak[BackupOf(script[n], FALSE)] = CopyOf(past.origin, script[n])
UndoBackups ==
  Undoing => \A n \in 1 .. Len(script) :
    work.bak[BackupOf(script[n], FALSE)] = db.bak[BackupOf(script[n], FALSE)]
ByKnown ==
  \A n \in Passed : AllSteps[n].kind = "restore_column" => run.by[n] = MatchColumns(db, AllSteps[n])

(* Values: those of the applied database that the script was not to change, *)
(* and those an undo script has restored so far.                            *)
OriginCells ==
  past.state = "applied" /\ NoDrift(past.origin) =>
    \A t \in Tables, c \in Columns :
      HasColumn(past.origin, t, c) /\ HasColumn(db, t, c) =>
        /\ DOMAIN db.rows[t] = DOMAIN past.origin.rows[t]
        /\ \A r \in DOMAIN db.rows[t] :
             \/ db.rows[t][r][c] = past.origin.rows[t][r][c]
             \/ Loses(script, t, c)
             \/ <<t, c>> \in FilledColumns /\ past.origin.rows[t][r][c] = Null
Restored ==
  Undoing /\ NoDrift(past.origin) => \A m \in Performed :
    LET s == AllSteps[m] IN
    /\ s.kind = "restore_table" => /\ Exists(work, s.tbl)
                                   /\ work.rows[s.tbl] = past.origin.rows[s.tbl]
    /\ s.kind = "restore_column" => HasColumn(work, s.tbl, s.col)
    /\ s.kind = "restore_column" /\ KeepsKey(past.origin, s.tbl) =>
         \A r \in DOMAIN work.rows[s.tbl] :
           work.rows[s.tbl][r][s.col] = past.origin.rows[s.tbl][r][s.col]
-----------------------------------------------------------------------------------------
(* Nothing of a run has been carried out yet.                               *)
Blank == work = db /\ Performed = {} /\ run.keys = {} /\ run.replay = {} /\ ~run.copied
SamePast == UNCHANGED <<script, db>> /\ past'.state = past.state /\ past'.origin = past.origin
Stays == SamePast /\ UNCHANGED <<work, run>>
Blanks == SamePast /\ Blank'
    /\ (Running' /\ run'.undo => (Running /\ run.undo) \/ past.state # "new")
CleansUp == \/ \E b \in BackupNames : RemoveBackup(b)
            \/ \E u \in BOOLEAN : RemoveJournal(u)

LEMMA RunStartBlank ==
  ASSUME TypeOK, Settled, RunStart, run.phase = "check"
  PROVE  Blank
  BY DEF Settled, RunStart, Blank, Performed, Active

LEMMA RollBackBlanks ==
  ASSUME TypeOK, NEW outcome, RollBack(outcome)
  PROVE  Blanks
  <1>1. past'.state = past.state /\ past'.origin = past.origin
    BY DEF RollBack, TypeOK, Histories
  <1>2. Performed' = {}
    BY DEF RollBack, Idle, Performed, Active
  <1>3. ~Running'
    BY DEF RollBack, Idle, Running
  <1>4. QED  BY <1>1, <1>2, <1>3 DEF RollBack, Blanks, SamePast, Blank, Idle

LEMMA CheckBlanks ==
  ASSUME TypeOK, Settled, RunStart, CheckStep
  PROVE  Blanks /\ RunStart' /\ run'.phase \in {"check", "apply"}
  <1>1. /\ run \in Runs /\ run.at \in 1 .. Len(script) /\ Len(script) \in Nat
        /\ run.phase = "check" /\ UNCHANGED <<script, db, work, past>>
    BY DEF TypeOK, CheckStep
  <1>2. Blank
    BY <1>1, RunStartBlank
  <1>3. /\ run'.keys = run.keys /\ run'.replay = run.replay /\ run'.copied = run.copied
        /\ run'.phase = IF run.at = Len(script) THEN "apply" ELSE "check"
        /\ run'.at = IF run.at = Len(script) THEN 1 ELSE run.at + 1
        /\ run'.undo = run.undo
    BY <1>1 DEF CheckStep, Runs
  <1>4. Performed' = {}
    BY <1>1, <1>3 DEF Performed, Active
  <1>5. QED  BY <1>1, <1>2, <1>3, <1>4 DEF Blank, Blanks, SamePast, RunStart, Running

(* What a step of the system does to the database and the run.              *)
LEMMA NextDoes ==
  ASSUME MaxWrites = 0, TypeOK, Settled, RunStart, [Next]_vars
  PROVE  \/ Stays \/ Blanks
         \/ SkipStep \/ CopyStep \/ ChangeStep \/ RecreateKeys \/ Replay \/ Commit
         \/ CleansUp
  <1>1. ASSUME NEW undo \in BOOLEAN, Start(undo)  PROVE Blanks
    <2>1. work' = db' /\ Performed' = {}
      BY <1>1 DEF Start, Settled, Running, Idle, Performed, Active
    <2>2. run'.undo = undo
      BY <1>1 DEF Start, Idle
    <2>3. QED  BY <1>1, <2>1, <2>2 DEF Start, Blanks, SamePast, Blank, Idle
  <1>2. CASE Refuse \/ StatementFails \/ VerifyFails \/ Interrupt \/ LockTimeout
    BY <1>2, RollBackBlanks DEF Refuse, StatementFails, VerifyFails, Interrupt, LockTimeout
  <1>3. CASE CheckStep
    BY <1>3, CheckBlanks
  <1>4. CASE \E t \in Tables : Write(t) \/ Hold(t) \/ Release(t)
    <2>1. \A t \in Tables : ~Write(t)
      BY DEF Write, TypeOK
    <2>2. QED  BY <1>4, <2>1 DEF Hold, Release, Stays, SamePast
  <1>5. CASE UNCHANGED vars
    BY <1>5 DEF vars, Stays, SamePast
  <1>6. QED
    BY <1>1, <1>2, <1>3, <1>4, <1>5 DEF Next, ScriptStep, CleansUp

(* A run starts with nothing to recreate.                                   *)
LEMMA NextRunStart ==
  ASSUME TypeOK, Settled, RunStart, [Next]_vars
  PROVE  RunStart'
  <1>0. run \in Runs
    BY DEF TypeOK
  <1>1. ASSUME NEW undo \in BOOLEAN, Start(undo)  PROVE RunStart'
    BY <1>1 DEF Start, Idle, RunStart
  <1>2. ASSUME NEW outcome, RollBack(outcome)  PROVE RunStart'
    BY <1>2 DEF RollBack, Idle, RunStart
  <1>3. CASE CheckStep
    BY <1>3, CheckBlanks
  <1>4. CASE SkipStep \/ ChangeStep
    <2>1. run'.phase \in {"apply", "keys"}
      BY <1>0, <1>4 DEF SkipStep, ChangeStep, AtChange, Applying, Advance, Runs
    <2>2. QED  BY <2>1 DEF RunStart
  <1>5. CASE CopyStep \/ RecreateKeys \/ Replay
    <2>1. run'.phase \in {"apply", "replay", "verify"}
      BY <1>0, <1>5 DEF CopyStep, AtCopy, Applying, RecreateKeys, Replay, Runs
    <2>2. QED  BY <2>1 DEF RunStart
  <1>6. CASE Commit
    BY <1>6 DEF Commit, Idle, RunStart
  <1>7. CASE UNCHANGED run
    BY <1>7 DEF RunStart
  <1>8. QED
    BY <1>1, <1>2, <1>3, <1>4, <1>5, <1>6, <1>7
    DEF Next, ScriptStep, Refuse, StatementFails, VerifyFails, Interrupt, LockTimeout,
        Write, Hold, Release, RemoveBackup, RemoveJournal, CleanUp, vars

-----------------------------------------------------------------------------------------
(* What a change does to the dependents, exactly.                           *)
DroppedDeps(d, s) == IF s.kind = "drop_table" THEN TableDependents(d, s) ELSE ColumnDependents(d, s)

LEMMA ChangeLosesOnly ==
  ASSUME TypeOK, NEW x \in work.deps, x \notin Changed(work, Step).deps
  PROVE  \/ Step.kind = "drop_table" /\ OnTable(x, Step.tbl)
         \/ Step.kind = "drop_column" /\ x \in ColumnDependents(work, Step)
         \/ Step.kind = "modify_column" /\ x \in DroppedKeys(work, Step)
         \/ /\ Step.kind = "modify_column" /\ DefaultChanges(Step)
            /\ x \in DefaultsOn(work, Step.tbl, Step.col)
  <1>0. /\ Step \in Steps /\ work \in Databases /\ run.at \in Numbers /\ run.undo \in BOOLEAN
    BY AtStep
  <1>1. CASE Step.kind = "drop_table"
    <2>1. Changed(work, Step).deps = {y \in work.deps : ~OnTable(y, Step.tbl)}
      BY <1>0, <1>1, DropTableShape DEF Changed
    <2>2. QED  BY <1>1, <2>1
  <1>2. CASE Step.kind = "drop_column"
    <2>1. Changed(work, Step) = DropColumn(work, Step, run.at, run.undo)
      BY <1>2 DEF Changed
    <2>2. Changed(work, Step).deps = work.deps \ ColumnDependents(work, Step)
      BY <1>0, <2>1, DropColumnFields
    <2>3. QED  BY <1>2, <2>2
  <1>3. CASE Step.kind = "modify_column"
    <2>1. Changed(work, Step).deps = AlteredDeps(work, Step)
      BY <1>0, <1>3, ModifyColumnShape DEF Changed
    <2>2. QED  BY <1>3, <2>1 DEF AlteredDeps, DroppedKeys
  <1>4. CASE Step.kind \notin {"drop_table", "drop_column", "modify_column"}
    <2>1. work.deps \subseteq Changed(work, Step).deps
      BY <1>0, <1>4 DEF Changed, CreateTable, AddColumn, RestoreTable, RestoreColumn, Databases
    <2>2. QED  BY <2>1
  <1>5. QED  BY <1>1, <1>2, <1>3, <1>4

LEMMA ChangeGainsOnly ==
  ASSUME TypeOK, NEW x \in Changed(work, Step).deps, x \notin work.deps
  PROVE  \/ Step.kind = "create_table" /\ x \in MadeDefaults(Step)
         \/ Step.kind \in {"add_column", "modify_column"} /\ x \in NewDefaults(Step)
  <1>0. /\ Step \in Steps /\ work \in Databases /\ run.at \in Numbers /\ run.undo \in BOOLEAN
    BY AtStep
  <1>1. CASE Step.kind = "create_table"
    <2>1. Changed(work, Step).deps = work.deps \cup MadeDefaults(Step)
      BY <1>0, <1>1, MakeTableShape DEF Changed
    <2>2. QED  BY <1>1, <2>1
  <1>2. CASE Step.kind = "restore_table"
    <2>1. Changed(work, Step).deps = work.deps
      BY <1>0, <1>2, MakeTableShape DEF Changed
    <2>2. QED  BY <2>1
  <1>3. CASE Step.kind = "drop_table"
    <2>1. Changed(work, Step).deps = {y \in work.deps : ~OnTable(y, Step.tbl)}
      BY <1>0, <1>3, DropTableShape DEF Changed
    <2>2. QED  BY <2>1
  <1>4. CASE Step.kind = "drop_column"
    <2>1. Changed(work, Step) = DropColumn(work, Step, run.at, run.undo)
      BY <1>4 DEF Changed
    <2>2. Changed(work, Step).deps = work.deps \ ColumnDependents(work, Step)
      BY <1>0, <2>1, DropColumnFields
    <2>3. QED  BY <2>2
  <1>5. CASE Step.kind = "add_column"
    <2>1. Changed(work, Step).deps = work.deps \cup NewDefaults(Step)
      BY <1>0, <1>5, AddColumnShape DEF Changed
    <2>2. QED  BY <1>5, <2>1
  <1>6. CASE Step.kind = "restore_column"
    <2>1. Changed(work, Step).deps = work.deps
      BY <1>0, <1>6, RestoreColumnShape DEF Changed
    <2>2. QED  BY <2>1
  <1>7. CASE Step.kind = "modify_column"
    <2>1. Changed(work, Step).deps = AlteredDeps(work, Step)
      BY <1>0, <1>7, ModifyColumnShape DEF Changed
    <2>2. QED  BY <1>7, <2>1 DEF AlteredDeps
  <1>8. CASE Step.kind = "unsupported"
    BY <1>8 DEF Changed
  <1>9. QED
    BY <1>0, <1>1, <1>2, <1>3, <1>4, <1>5, <1>6, <1>7, <1>8, StepFields DEF Kinds

(* The defaults a step gives are on its own columns.                        *)
LEMMA MadeDefaultsOn ==
  ASSUME NEW s \in Steps, NEW x \in MadeDefaults(s)
  PROVE  /\ x.kind = "default" /\ x.tbl = s.tbl
         /\ \E c \in Columns : x.cols = {c} /\ s.table[c].type # 0
  BY DEF MadeDefaults, Default

LEMMA NewDefaultsOn ==
  ASSUME NEW s \in Steps, NEW x \in NewDefaults(s)
  PROVE  x.kind = "default" /\ x.tbl = s.tbl /\ x.cols = {s.col}
  BY DEF NewDefaults, Default

(* What a change writes in the journals.                                    *)
LEMMA JournaledJournal ==
  ASSUME NEW d \in Databases, NEW X, NEW n, NEW u \in BOOLEAN
  PROVE  LET j == Journaled(d, X, n, u).journal IN
         /\ j[u].made = d.journal[u].made
         /\ j[u].entries = Append(d.journal[u].entries, [step |-> n, deps |-> X])
         /\ j[~u] = d.journal[~u]
  BY DEF Journaled, Databases, Journals

LEMMA ChangedJournal ==
  ASSUME TypeOK
  PROVE  LET j == Changed(work, Step).journal IN
         /\ run.undo \/ ~Copies(Step) => j[FALSE] = work.journal[FALSE]
         /\ ~run.undo /\ Copies(Step) =>
              /\ j[FALSE].made = work.journal[FALSE].made
              /\ j[FALSE].entries = Append(work.journal[FALSE].entries,
                                           [step |-> run.at, deps |-> DroppedDeps(work, Step)])
  <1>0. /\ Step \in Steps /\ work \in Databases /\ run.at \in Numbers /\ run.undo \in BOOLEAN
    BY AtStep
  <1>1. CASE Step.kind = "drop_table"
    <2> DEFINE k == Journaled(work, TableDependents(work, Step), run.at, run.undo)
    <2>1. k \in Databases
      BY <1>0, CollectedType, JournaledType
    <2>2. /\ k.journal[run.undo].made = work.journal[run.undo].made
          /\ k.journal[run.undo].entries = Append(work.journal[run.undo].entries,
                                           [step |-> run.at, deps |-> TableDependents(work, Step)])
          /\ k.journal[~run.undo] = work.journal[~run.undo]
      BY <1>0, JournaledJournal, ZenonT(60)
    <2>3. Changed(work, Step) = [k EXCEPT !.cols[Step.tbl] = NoColumns, !.rows[Step.tbl] = NoRows,
                                          !.deps = {y \in @ : ~OnTable(y, Step.tbl)}]
      BY <1>1 DEF Changed, DropTable
    <2> HIDE DEF k
    <2>4. Changed(work, Step).journal = k.journal
      BY <2>1, <2>3 DEF Databases
    <2>5. QED  BY <1>0, <1>1, <2>2, <2>4 DEF DroppedDeps, Copies
  <1>2. CASE Step.kind = "drop_column"
    <2> DEFINE X == ColumnDependents(work, Step)
               k == Journaled(work, X, run.at, run.undo)
    <2>1. k \in Databases
      BY <1>0, CollectedType, JournaledType
    <2>2. /\ k.journal[run.undo].made = work.journal[run.undo].made
          /\ k.journal[run.undo].entries = Append(work.journal[run.undo].entries,
                                                  [step |-> run.at, deps |-> X])
          /\ k.journal[~run.undo] = work.journal[~run.undo]
      BY <1>0, JournaledJournal, ZenonT(60)
    <2>3. Changed(work, Step) =
            [k EXCEPT !.cols[Step.tbl][Step.col] = Stored(NoAttributes),
                      !.rows[Step.tbl] = [r \in DOMAIN @ |-> [@[r] EXCEPT ![Step.col] = Null]],
                      !.deps = @ \ X]
      BY <1>2 DEF Changed, DropColumn
    <2> HIDE DEF k
    <2>4. Changed(work, Step).journal = k.journal
      BY <2>1, <2>3 DEF Databases
    <2>5. QED  BY <1>0, <1>2, <2>2, <2>4 DEF DroppedDeps, Copies
  <1>3. CASE ~Copies(Step)
    <2>1. Changed(work, Step).journal = work.journal
      BY <1>0, <1>3 DEF Changed, CreateTable, AddColumn, ModifyColumn, RestoreTable, RestoreColumn,
                        Databases, Copies
    <2>2. QED  BY <1>3, <2>1
  <1>4. QED  BY <1>1, <1>2, <1>3 DEF Copies

(* An entry more in the journal.                                            *)
LEMMA EntryAppended ==
  ASSUME NEW d \in Databases, NEW e \in Databases, NEW new,
         e.journal[FALSE].entries = Append(d.journal[FALSE].entries, new)
  PROVE  /\ EntryNumbers(d) \subseteq EntryNumbers(e)
         /\ \A j \in EntryNumbers(e) : \/ j \in EntryNumbers(d) /\ Entry(e, j) = Entry(d, j)
                                       \/ Entry(e, j) = new
         /\ \A j \in EntryNumbers(d) : Entry(e, j) = Entry(d, j)
         /\ \E j \in EntryNumbers(e) : Entry(e, j) = new
  <1> DEFINE es == d.journal[FALSE].entries
  <1>1. es \in Seq(Entries)
    BY DEF Databases, Journals
  <1> HIDE DEF es
  <1>2. /\ Len(Append(es, new)) = Len(es) + 1 /\ Len(es) \in Nat
        /\ \A j \in 1 .. Len(es) : Append(es, new)[j] = es[j]
        /\ Append(es, new)[Len(es) + 1] = new
    BY <1>1
  <1>3. e.journal[FALSE].entries = Append(es, new)
    BY DEF es
  <1>4. /\ EntryNumbers(d) = 1 .. Len(es) /\ EntryNumbers(e) = 1 .. Len(es) + 1
        /\ \A j : Entry(d, j) = es[j] /\ Entry(e, j) = Append(es, new)[j]
    BY <1>2, <1>3 DEF EntryNumbers, Entry, es
  <1>5. QED  BY <1>2, <1>4

LEMMA SameJournal ==
  ASSUME NEW d, NEW e, e.journal[FALSE] = d.journal[FALSE]
  PROVE  /\ EntryNumbers(e) = EntryNumbers(d) /\ \A j : Entry(e, j) = Entry(d, j)
         /\ EntriesOk(e) <=> EntriesOk(d)
         /\ \A x : InJournal(e, x) <=> InJournal(d, x)
         /\ \A X : JournalWithin(e, X) <=> JournalWithin(d, X)
  BY DEF EntryNumbers, Entry, EntriesOk, InJournal, JournalWithin

-----------------------------------------------------------------------------------------
(* The steps of a script and of its undo.                                   *)
LEMMA ForwardStep ==
  ASSUME TypeOK, FromDecisions, NEW n \in 1 .. Len(script)
  PROVE  /\ script[n] \in Steps /\ script[n].kind \in ForwardKinds
         /\ script[n].kind \in ColumnKinds => script[n].target.type # 0
         /\ script[n].kind = "create_table" => \E c \in Columns : script[n].table[c].type # 0
  <1>1. PICK decided \in Decisions : script = ForwardOps(decided)
    BY DEF FromDecisions
  <1>2. \A k \in 1 .. Len(ForwardOps(decided)) :
           /\ ForwardOps(decided)[k].kind \in ForwardKinds
           /\ ForwardOps(decided)[k].kind \in ColumnKinds => ForwardOps(decided)[k].target.type # 0
           /\ ForwardOps(decided)[k].kind = "create_table" =>
                \E c \in Columns : ForwardOps(decided)[k].table[c].type # 0
    BY ForwardOpsSteps
  <1>3. script[n] \in Steps
    BY DEF TypeOK
  <1>4. QED  BY <1>1, <1>2, <1>3

LEMMA ConcatThree ==
  ASSUME NEW s \in Seq(Steps), NEW t \in Seq(Steps), NEW u \in Seq(Steps)
  PROVE  (s \o t) \o u = s \o (t \o u)
  OBVIOUS

(* Before a table is dropped, tables are made and dropped; before a column  *)
(* is, no column is added or changed.                                       *)
LEMMA DropOrder ==
  ASSUME TypeOK, FromDecisions, NEW m \in 1 .. Len(script), NEW n \in 1 .. Len(script), m < n
  PROVE  /\ script[n].kind = "drop_table" => script[m].kind \in {"create_table", "drop_table"}
         /\ script[n].kind = "drop_column" => script[m].kind \notin ColumnKinds
  <1>1. PICK decided \in Decisions : script = ForwardOps(decided)
    BY DEF FromDecisions
  <1> DEFINE T == decided.tables
             D == decided.tableDrops
             C == decided.columnDrops
             X == decided.columns
             rest == C \o X
             tables == T \o D
  <1> DEFINE made == {s \in StepsThat({"create_table"}) : \E c \in Columns : s.table[c].type # 0}
  <1>2. /\ T \in Seq(made) /\ D \in Seq(StepsThat({"drop_table"}))
        /\ C \in Seq(StepsThat({"drop_column"}))
        /\ X \in Seq({s \in StepsThat(ColumnKinds) : s.target.type # 0})
    BY ScriptAssumption DEF Choices, ColumnKinds
  <1>3. script = ((T \o D) \o C) \o X
    BY <1>1 DEF ForwardOps
  <1> HIDE DEF T, D, C, X
  <1>4. /\ \A k \in 1 .. Len(T) : T[k].kind = "create_table"
        /\ \A k \in 1 .. Len(D) : D[k].kind = "drop_table"
        /\ \A k \in 1 .. Len(C) : C[k].kind = "drop_column"
        /\ \A k \in 1 .. Len(X) : X[k].kind \in ColumnKinds
    BY <1>2 DEF StepsThat
  <1>5. T \in Seq(Steps) /\ D \in Seq(Steps) /\ C \in Seq(Steps) /\ X \in Seq(Steps)
    <2>1. Seq({s \in StepsThat(ColumnKinds) : s.target.type # 0}) \subseteq Seq(Steps)
      BY DEF StepsThat
    <2>2. Seq(made) \subseteq Seq(Steps)
      BY DEF StepsThat
    <2>3. QED  BY <1>2, <2>1, <2>2, StepsThatType
  <1>6. tables \in Seq(Steps) /\ rest \in Seq(Steps)
        /\ Len(tables) \in Nat /\ Len(rest) \in Nat
    BY <1>5
  <1>7. \A k \in 1 .. Len(tables) : tables[k].kind \in {"create_table", "drop_table"}
    BY <1>4, <1>5
  <1>8. \A k \in 1 .. Len(rest) : rest[k].kind \in {"drop_column"} \cup ColumnKinds
    BY <1>4, <1>5
  <1>9. script = tables \o rest
    <2>1. tables \in Seq(Steps)
      BY <1>6
    <2> HIDE DEF tables
    <2>2. (tables \o C) \o X = tables \o (C \o X)
      BY <1>5, <2>1, ConcatThree, ZenonT(60)
    <2>3. QED  BY <1>3, <2>2 DEF tables
  <1> HIDE DEF tables, rest
  <1>10. /\ Len(script) = Len(tables) + Len(rest)
         /\ \A k \in 1 .. Len(script) :
              script[k] = IF k <= Len(tables) THEN tables[k] ELSE rest[k - Len(tables)]
    BY <1>6, <1>9
  <1>11. \A k \in 1 .. Len(script) :
           script[k].kind \in IF k <= Len(tables) THEN {"create_table", "drop_table"}
                                                  ELSE {"drop_column"} \cup ColumnKinds
    <2> SUFFICES ASSUME NEW k \in 1 .. Len(script)
                 PROVE  script[k].kind \in IF k <= Len(tables) THEN {"create_table", "drop_table"}
                                                  ELSE {"drop_column"} \cup ColumnKinds
      OBVIOUS
    <2>1. CASE k <= Len(tables)
      BY <1>6, <1>7, <1>10, <2>1
    <2>2. CASE k > Len(tables)
      <3>1. k - Len(tables) \in 1 .. Len(rest) /\ script[k] = rest[k - Len(tables)]
        BY <1>6, <1>10, <2>2
      <3>2. QED  BY <1>6, <1>8, <2>2, <3>1
    <2>3. QED  BY <1>6, <2>1, <2>2
  <1>12. script[n].kind = "drop_table" => script[m].kind \in {"create_table", "drop_table"}
    BY <1>6, <1>11 DEF ColumnKinds
  <1>13. script[n].kind = "drop_column" => script[m].kind \notin ColumnKinds
    <2>1. \A k, l \in 1 .. Len(ForwardOps(decided)) :
             k < l /\ ForwardOps(decided)[k].kind \in ColumnKinds
               => ForwardOps(decided)[l].kind \in ColumnKinds
      BY ForwardOpsSteps
    <2>2. QED  BY <1>1, <2>1 DEF ColumnKinds
  <1>14. QED  BY <1>12, <1>13

UndoKinds == {"drop_table", "drop_column", "restore_table", "restore_column", "modify_column",
              "unsupported"}
LEMMA UndoOpFacts ==
  ASSUME NEW op \in Steps, NEW n \in Numbers, op.kind \in ForwardKinds
  PROVE  LET s == UndoOp(op, n) IN
         /\ s \in Steps /\ s.kind \in UndoKinds
         /\ s.tbl = op.tbl /\ s.col = op.col /\ s.table = op.table
         /\ s.kind = "drop_table" => op.kind = "create_table"
         /\ s.kind = "drop_column" => op.kind = "add_column"
         /\ s.kind = "restore_table" => /\ op.kind = "drop_table" /\ s.num = n
                                        /\ \E c \in Columns : s.table[c].type # 0
         /\ s.kind = "restore_column" => /\ op.kind = "drop_column" /\ s.num = n
                                         /\ s.target = op.observed /\ s.target.type # 0
         /\ s.kind = "modify_column" => /\ op.kind = "modify_column"
                                        /\ s.target = op.observed /\ s.observed = op.target
                                        /\ ~s.accept /\ s.target.type # 0
  <1>0. UndoOp(op, n) \in Steps
    BY UndoOpType
  <1>1. CASE op.kind = "create_table"
    <2>1. UndoOp(op, n) = [op EXCEPT !.kind = "drop_table"]
      BY <1>1 DEF UndoOp
    <2>2. QED  BY <1>0, <1>1, <2>1 DEF Steps, UndoKinds
  <1>2. CASE op.kind = "add_column"
    <2>1. UndoOp(op, n) = [op EXCEPT !.kind = "drop_column"]
      BY <1>2 DEF UndoOp
    <2>2. QED  BY <1>0, <1>2, <2>1 DEF Steps, UndoKinds
  <1>3. CASE op.kind = "drop_table"
    <2>1. CASE \E c \in Columns : op.table[c].type # 0
      <3>1. UndoOp(op, n) = [op EXCEPT !.kind = "restore_table", !.num = n]
        BY <1>3, <2>1 DEF UndoOp
      <3>2. QED  BY <1>0, <1>3, <2>1, <3>1 DEF Steps, UndoKinds
    <2>2. CASE ~\E c \in Columns : op.table[c].type # 0
      <3>1. UndoOp(op, n) = [op EXCEPT !.kind = "unsupported"]
        BY <1>3, <2>2 DEF UndoOp
      <3>2. QED  BY <1>0, <1>3, <3>1 DEF Steps, UndoKinds
    <2>3. QED  BY <2>1, <2>2
  <1>4. CASE op.kind = "drop_column"
    <2>1. CASE op.observed.type # 0 /\ ~op.observed.ident
      <3>1. UndoOp(op, n) = [op EXCEPT !.kind = "restore_column", !.num = n, !.target = op.observed]
        BY <1>4, <2>1 DEF UndoOp
      <3>2. QED  BY <1>0, <1>4, <2>1, <3>1 DEF Steps, UndoKinds
    <2>2. CASE ~(op.observed.type # 0 /\ ~op.observed.ident)
      <3>1. UndoOp(op, n) = [op EXCEPT !.kind = "unsupported"]
        BY <1>4, <2>2 DEF UndoOp
      <3>2. QED  BY <1>0, <1>4, <3>1 DEF Steps, UndoKinds
    <2>3. QED  BY <2>1, <2>2
  <1>5. CASE op.kind = "modify_column"
    <2>1. CASE op.observed.type # 0
      <3>1. UndoOp(op, n) = [op EXCEPT !.target = op.observed, !.observed = op.target,
                                       !.backfill = 0, !.accept = FALSE]
        BY <1>5, <2>1 DEF UndoOp
      <3>2. QED  BY <1>0, <1>5, <2>1, <3>1 DEF Steps, UndoKinds
    <2>2. CASE op.observed.type = 0
      <3>1. UndoOp(op, n) = [op EXCEPT !.kind = "unsupported"]
        BY <1>5, <2>2 DEF UndoOp
      <3>2. QED  BY <1>0, <1>5, <3>1 DEF Steps, UndoKinds
    <2>3. QED  BY <2>1, <2>2
  <1>6. QED  BY <1>1, <1>2, <1>3, <1>4, <1>5 DEF ForwardKinds

(* Step m of the undo script undoes step Undone(m) of the script.           *)
Undone(m) == Len(script) + 1 - m
Undoes(s, op, n) ==
  /\ s \in Steps /\ s.kind \in UndoKinds
  /\ s.tbl = op.tbl /\ s.col = op.col /\ s.table = op.table
  /\ s.kind = "drop_table" => op.kind = "create_table"
  /\ s.kind = "drop_column" => op.kind = "add_column"
  /\ s.kind = "restore_table" => /\ op.kind = "drop_table" /\ s.num = n
                                 /\ \E c \in Columns : s.table[c].type # 0
  /\ s.kind = "restore_column" => /\ op.kind = "drop_column" /\ s.num = n
                                  /\ s.target = op.observed /\ s.target.type # 0
  /\ s.kind = "modify_column" => /\ op.kind = "modify_column"
                                 /\ s.target = op.observed /\ s.observed = op.target
                                 /\ ~s.accept /\ s.target.type # 0
LEMMA UndoStepFacts ==
  ASSUME TypeOK, FromDecisions, NEW m \in 1 .. Len(script)
  PROVE  /\ Undone(m) \in 1 .. Len(script) /\ Undone(Undone(m)) = m
         /\ Undone(m) \in Numbers
         /\ Undoes(UndoOps(script)[m], script[Undone(m)], Undone(m))
  <1>1. Undone(m) \in 1 .. Len(script) /\ Undone(Undone(m)) = m /\ Undone(m) \in Numbers
    BY SchemaAssumption DEF Undone, TypeOK, Numbers
  <1>2. UndoOps(script)[m] = UndoOp(script[Undone(m)], Undone(m))
    BY DEF UndoOps, Undone
  <1>3. script[Undone(m)] \in Steps /\ script[Undone(m)].kind \in ForwardKinds
    BY <1>1, ForwardStep
  <1>4. QED  BY <1>1, <1>2, <1>3, UndoOpFacts DEF Undoes

(* What is known of every step of a run.                                    *)
LEMMA RunStep ==
  ASSUME TypeOK, FromDecisions, NEW n \in 1 .. Len(script)
  PROVE  /\ AllSteps[n] \in Steps
         /\ ~run.undo => /\ AllSteps[n] = script[n] /\ AllSteps[n].kind \in ForwardKinds
         /\ run.undo => /\ AllSteps[n] = UndoOps(script)[n]
                        /\ AllSteps[n].kind \in UndoKinds
                        /\ Undoes(AllSteps[n], script[Undone(n)], Undone(n))
         /\ AllSteps[n].kind \in {"add_column", "modify_column", "restore_column"} =>
              AllSteps[n].target.type # 0
         /\ AllSteps[n].kind \in {"create_table", "restore_table"} =>
              \E c \in Columns : AllSteps[n].table[c].type # 0
  <1>1. AllSteps[n] \in Steps
    BY AtStep
  <1>2. CASE ~run.undo
    BY <1>1, <1>2, ForwardStep DEF AllSteps, ForwardKinds, ColumnKinds
  <1>3. CASE run.undo
    <2>1. AllSteps[n] = UndoOps(script)[n]
      BY <1>3 DEF AllSteps
    <2>2. QED  BY <1>1, <1>3, <2>1, UndoStepFacts DEF Undoes, UndoKinds
  <1>4. QED  BY <1>2, <1>3

(* What a check that lets a step go asked of the database.                  *)
LEMMA GoNeeds ==
  ASSUME NEW d, NEW s \in Steps, NEW u, Check(d, s, u) = "go"
  PROVE  /\ s.kind # "unsupported"
         /\ s.kind \in {"create_table", "restore_table"} => ~Exists(d, s.tbl)
         /\ s.kind \in {"add_column", "restore_column"} =>
              ~HasColumn(d, s.tbl, s.col) /\ Exists(d, s.tbl)
         /\ s.kind = "drop_table" => Exists(d, s.tbl)
         /\ s.kind \in {"drop_column", "modify_column"} => HasColumn(d, s.tbl, s.col)
         /\ s.kind \in RestoreKinds => d.journal[FALSE].made
  <1>1. CASE s.kind = "create_table"
    BY <1>1 DEF Check, CheckCreateTable, RestoreKinds
  <1>2. CASE s.kind = "drop_table"
    BY <1>2 DEF Check, CheckDropTable, RestoreKinds
  <1>3. CASE s.kind = "drop_column"
    BY <1>3 DEF Check, CheckDropColumn, RestoreKinds
  <1>4. CASE s.kind = "add_column"
    BY <1>4 DEF Check, CheckAddColumn, RestoreKinds
  <1>5. CASE s.kind = "modify_column"
    <2>1. CheckModifyColumn(d, s) = "go"
      BY <1>5 DEF Check
    <2>2. QED  BY <1>5, <2>1 DEF CheckModifyColumn, RestoreKinds
  <1>6. CASE s.kind = "restore_table"
    BY <1>6 DEF Check, CheckRestoreTable, RestoreKinds
  <1>7. CASE s.kind = "restore_column"
    BY <1>7 DEF Check, CheckRestoreColumn, RestoreKinds
  <1>8. CASE s.kind = "unsupported"
    BY <1>8, UnsupportedAborts
  <1>9. QED
    BY <1>1, <1>2, <1>3, <1>4, <1>5, <1>6, <1>7, <1>8, StepFields DEF Kinds

(* A step that was carried out was checked against the committed database.  *)
LEMMA PerformedChecked ==
  ASSUME TypeOK, ChecksPassed, NEW n \in Performed
  PROVE  n \in 1 .. Len(script) /\ Check(db, AllSteps[n], run.undo) = "go"
  BY DEF ChecksPassed, Performed, Passed

-----------------------------------------------------------------------------------------
(* What a change leaves alone.                                              *)
LEMMA ChangeRows ==
  ASSUME TypeOK, NEW t \in Tables, ~Retables(Step, t)
  PROVE  DOMAIN Changed(work, Step).rows[t] = DOMAIN work.rows[t]
  <1>0. /\ Step \in Steps /\ work \in Databases /\ run.at \in Numbers /\ run.undo \in BOOLEAN
        /\ Step.tbl \in Tables /\ Step.col \in Columns
    BY AtStep, StepFields
  <1>1. CASE Step.kind \in {"create_table", "restore_table"}
    <2>1. PICK rows : TableBecomes(work, Changed(work, Step), Step.tbl, MadeColumns(Step), rows)
      BY <1>0, <1>1, MakeTableShape DEF Changed
    <2>2. QED  BY <1>1, <2>1 DEF TableBecomes, Retables, TableKinds
  <1>2. CASE Step.kind = "drop_table"
    <2>1. TableBecomes(work, Changed(work, Step), Step.tbl, NoColumns, NoRows)
      BY <1>0, <1>2, DropTableShape DEF Changed
    <2>2. QED  BY <1>2, <2>1 DEF TableBecomes, Retables, TableKinds
  <1>3. CASE Step.kind \in {"drop_column", "add_column", "restore_column", "modify_column"}
    <2>1. CASE Step.kind = "drop_column"
      <3>1. ColumnBecomes(work, Changed(work, Step), Step.tbl, Step.col, Stored(NoAttributes),
                          [r \in DOMAIN work.rows[Step.tbl] |-> Null])
        BY <1>0, <2>1, DropColumnShape DEF Changed
      <3>2. QED  BY <3>1 DEF ColumnBecomes
    <2>2. CASE Step.kind = "add_column"
      <3>1. ColumnBecomes(work, Changed(work, Step), Step.tbl, Step.col, Stored(Step.target),
                          [r \in DOMAIN work.rows[Step.tbl] |-> NewCell(Step)])
        BY <1>0, <2>2, AddColumnShape DEF Changed
      <3>2. QED  BY <3>1 DEF ColumnBecomes
    <2>3. CASE Step.kind = "restore_column"
      <3>1. ColumnBecomes(work, Changed(work, Step), Step.tbl, Step.col, Stored(Step.target),
                          [r \in DOMAIN work.rows[Step.tbl] |->
                             RestoredCell(work, Step, work.rows[Step.tbl][r], run.by[run.at])])
        BY <1>0, <2>3, RestoreColumnShape DEF Changed
      <3>2. QED  BY <3>1 DEF ColumnBecomes
    <2>4. CASE Step.kind = "modify_column"
      <3>1. ColumnBecomes(work, Changed(work, Step), Step.tbl, Step.col, AlteredColumn(work, Step),
                          [r \in DOMAIN work.rows[Step.tbl] |->
                             Altered(work.cols[Step.tbl][Step.col].type, Step,
                                     work.rows[Step.tbl][r][Step.col])])
        BY <1>0, <2>4, ModifyColumnShape DEF Changed
      <3>2. QED  BY <3>1 DEF ColumnBecomes
    <2>5. QED  BY <1>3, <2>1, <2>2, <2>3, <2>4
  <1>4. CASE Step.kind = "unsupported"
    BY <1>4 DEF Changed
  <1>5. QED  BY <1>0, <1>1, <1>2, <1>3, <1>4, StepFields DEF Kinds

LEMMA ChangeDefaults ==
  ASSUME TypeOK, NEW t \in Tables, NEW c \in Columns, ~Touches(Step, t, c)
  PROVE  DefaultsOn(Changed(work, Step), t, c) = DefaultsOn(work, t, c)
  <1>0. Step \in Steps
    BY AtStep
  <1>1. ASSUME NEW x \in DefaultsOn(work, t, c), x \notin Changed(work, Step).deps  PROVE FALSE
    <2>1. x \in work.deps /\ x.kind = "default" /\ x.tbl = t /\ x.cols = {c}
      BY <1>1 DEF DefaultsOn
    <2>2. \/ Step.kind = "drop_table" /\ OnTable(x, Step.tbl)
          \/ Step.kind = "drop_column" /\ x \in ColumnDependents(work, Step)
          \/ Step.kind = "modify_column" /\ x \in DroppedKeys(work, Step)
          \/ /\ Step.kind = "modify_column" /\ DefaultChanges(Step)
             /\ x \in DefaultsOn(work, Step.tbl, Step.col)
      BY <1>1, <2>1, ChangeLosesOnly
    <2>3. ~(Step.kind = "modify_column" /\ x \in DroppedKeys(work, Step))
      BY <2>1 DEF DroppedKeys, Keys
    <2>4. QED
      BY <2>1, <2>2, <2>3 DEF OnTable, ColumnDependents, OnColumn, DefaultsOn, Touches, TableKinds
  <1>2. ASSUME NEW x \in DefaultsOn(Changed(work, Step), t, c), x \notin work.deps  PROVE FALSE
    <2>1. x \in Changed(work, Step).deps /\ x.kind = "default" /\ x.tbl = t /\ x.cols = {c}
      BY <1>2 DEF DefaultsOn
    <2>2. \/ Step.kind = "create_table" /\ x \in MadeDefaults(Step)
          \/ Step.kind \in {"add_column", "modify_column"} /\ x \in NewDefaults(Step)
      BY <1>2, <2>1, ChangeGainsOnly
    <2>3. \/ Step.kind = "create_table" /\ x.tbl = Step.tbl
          \/ x.tbl = Step.tbl /\ x.cols = {Step.col}
      BY <1>0, <2>2, MadeDefaultsOn, NewDefaultsOn
    <2>4. QED  BY <2>1, <2>3 DEF Touches, TableKinds
  <1>3. QED  BY <1>1, <1>2 DEF DefaultsOn

LEMMA ChangeKeepsOthers ==
  ASSUME TypeOK, CanChange(work, Step), NEW t \in Tables, NEW c \in Columns, ~Touches(Step, t, c)
  PROVE  SameColumn(work, Changed(work, Step), t, c)
  <1>1. \/ Keeps(work, Changed(work, Step), t, c)
        \/ Drops(Step, Changed(work, Step), t, c)
        \/ Makes(Step, work, t, c)
        \/ Alter(Step, work, Changed(work, Step), t, c)
    BY ChangeDoes
  <1>2. Keeps(work, Changed(work, Step), t, c)
    BY <1>1 DEF Drops, Makes, Alter, Touches, TableKinds, Copies
  <1>3. QED  BY <1>2, ChangeDefaults DEF SameColumn

LEMMA ChangeFrame ==
  ASSUME TypeOK, CanChange(work, Step)
  PROVE  Frame(work, Changed(work, Step), {Step})
  BY ChangeRows, ChangeKeepsOthers DEF Frame

(* Frames compose.                                                          *)
LEMMA FrameThen ==
  ASSUME NEW d, NEW e, NEW f, NEW S, NEW T, NEW U,
         Frame(d, e, S), Frame(e, f, T),
         \A s \in S \cup T : \E u \in U :
            /\ \A t \in Tables, c \in Columns : Touches(s, t, c) => Touches(u, t, c)
            /\ \A t \in Tables : Retables(s, t) => Retables(u, t)
  PROVE  Frame(d, f, U)
  <1>1. ASSUME NEW t \in Tables, NEW c \in Columns, \A u \in U : ~Touches(u, t, c)
        PROVE  SameColumn(d, f, t, c)
    <2>1. \A s \in S \cup T : ~Touches(s, t, c)
      BY <1>1
    <2>2. SameColumn(d, e, t, c) /\ SameColumn(e, f, t, c)
      BY <2>1 DEF Frame
    <2>3. QED  BY <2>2 DEF SameColumn, Keeps
  <1>2. ASSUME NEW t \in Tables, \A u \in U : ~Retables(u, t)
        PROVE  DOMAIN f.rows[t] = DOMAIN d.rows[t]
    <2>1. \A s \in S \cup T : ~Retables(s, t)
      BY <1>2
    <2>2. QED  BY <2>1 DEF Frame
  <1>3. QED  BY <1>1, <1>2 DEF Frame

LEMMA SameFrame ==
  ASSUME NEW d, NEW S
  PROVE  Frame(d, d, S)
  BY DEF Frame, SameColumn, Keeps

LEMMA NextFrame ==
  ASSUME NEW d, NEW e, NEW f, NEW S, NEW T, Frame(d, e, S), Frame(e, f, T)
  PROVE  Frame(d, f, S \cup T)
  <1>1. ASSUME NEW t \in Tables, NEW c \in Columns, \A u \in S \cup T : ~Touches(u, t, c)
        PROVE  SameColumn(d, f, t, c)
    BY <1>1 DEF Frame, SameColumn, Keeps
  <1>2. QED  BY <1>1 DEF Frame

(* Adding dependents leaves what is not their own table and column alone.   *)
LEMMA AddAllFrame ==
  ASSUME NEW d \in Databases, NEW X, NEW S,
         \A x \in X : x.kind = "default" =>
            \A c \in Columns : x.cols = {c} => \E s \in S : Touches(s, x.tbl, c)
  PROVE  Frame(d, AddAll(d, X), S)
  <1>1. /\ AddAll(d, X).cols = d.cols /\ AddAll(d, X).rows = d.rows
        /\ AddAll(d, X).deps = d.deps \cup X
    BY DEF AddAll, Databases
  <1>2. ASSUME NEW t \in Tables, NEW c \in Columns, \A s \in S : ~Touches(s, t, c)
        PROVE  DefaultsOn(AddAll(d, X), t, c) = DefaultsOn(d, t, c)
    BY <1>1, <1>2 DEF DefaultsOn
  <1>3. QED  BY <1>1, <1>2 DEF Frame, SameColumn, Keeps

LEMMA SameSchemaFrame ==
  ASSUME NEW d, NEW e, NEW S, e.cols = d.cols, e.rows = d.rows, e.deps = d.deps
  PROVE  Frame(d, e, S)
  BY DEF Frame, SameColumn, Keeps, DefaultsOn

-----------------------------------------------------------------------------------------
(* A column that is there stays unless it is dropped, and so does a table.  *)
LEMMA AlteredStays ==
  ASSUME TypeOK, FromDecisions, NEW t \in Tables, NEW c \in Columns, HasColumn(work, t, c),
         Alter(Step, work, Changed(work, Step), t, c)
  PROVE  HasColumn(Changed(work, Step), t, c)
  <1>1. Step \in Steps /\ Step.target.type # 0
    <2>1. run.at \in 1 .. Len(script) /\ Step = AllSteps[run.at]
      BY DEF TypeOK, Step
    <2>2. Step.kind = "modify_column"
      BY DEF Alter
    <2>3. QED  BY <2>1, <2>2, RunStep
  <1>2. CASE Alters(Step)
    BY <1>1, <1>2 DEF Alter, AlteredColumn, HasColumn, Stored
  <1>3. CASE ~Alters(Step)
    BY <1>3 DEF Alter, AlteredColumn, HasColumn
  <1>4. QED  BY <1>2, <1>3

LEMMA ColumnStays ==
  ASSUME TypeOK, FromDecisions, CanChange(work, Step),
         NEW t \in Tables, NEW c \in Columns, HasColumn(work, t, c)
  PROVE  \/ HasColumn(Changed(work, Step), t, c)
         \/ t = Step.tbl
             /\ (Step.kind = "drop_table" \/ (Step.kind = "drop_column" /\ c = Step.col))
  <1>1. \/ Keeps(work, Changed(work, Step), t, c)
        \/ Drops(Step, Changed(work, Step), t, c)
        \/ Alter(Step, work, Changed(work, Step), t, c)
    BY ChangeDoes DEF Makes
  <1>2. CASE Keeps(work, Changed(work, Step), t, c)
    BY <1>2 DEF Keeps, HasColumn
  <1>3. CASE Drops(Step, Changed(work, Step), t, c)
    BY <1>3 DEF Drops, Copies
  <1>4. CASE Alter(Step, work, Changed(work, Step), t, c)
    BY <1>4, AlteredStays
  <1>5. QED  BY <1>1, <1>2, <1>3, <1>4

LEMMA TableStays ==
  ASSUME TypeOK, FromDecisions, CanChange(work, Step), NEW t \in Tables, Exists(work, t)
  PROVE  \/ Exists(Changed(work, Step), t)
         \/ t = Step.tbl /\ Step.kind = "drop_table"
  <1>1. CASE Step.kind = "drop_column" /\ t = Step.tbl
    <2>1. PICK c \in Columns \ {Step.col} : HasColumn(work, Step.tbl, c)
      BY <1>1 DEF CanChange, CanDropColumn
    <2>2. HasColumn(Changed(work, Step), t, c)
      BY <1>1, <2>1, ColumnStays
    <2>3. QED  BY <2>1, <2>2 DEF Exists
  <1>2. CASE ~(Step.kind = "drop_column" /\ t = Step.tbl)
    <2>1. PICK c \in Columns : HasColumn(work, t, c)
      BY DEF Exists
    <2>2. QED  BY <1>2, <2>1, ColumnStays DEF Exists
  <1>3. QED  BY <1>1, <1>2

(* What a dependent that stays is on, stays.                                *)
LEMMA StaysOn ==
  ASSUME TypeOK, FromDecisions, CanChange(work, Step),
         NEW x \in work.deps, x \in Changed(work, Step).deps
  PROVE  /\ Step.kind = "drop_table" => ~OnTable(x, Step.tbl)
         /\ Step.kind = "drop_column" => ~OnColumn(x, Step.tbl, Step.col)
  <1>0. /\ Step \in Steps /\ work \in Databases /\ run.at \in Numbers /\ run.undo \in BOOLEAN
        /\ work.deps \in SUBSET Dependents /\ x \in Dependents
    BY AtStep, DatabaseFields, StepFields
  <1>1. CASE Step.kind = "drop_table"
    <2>1. Changed(work, Step).deps = {y \in work.deps : ~OnTable(y, Step.tbl)}
      BY <1>0, <1>1, DropTableShape DEF Changed
    <2>2. QED  BY <1>1, <2>1
  <1>2. CASE Step.kind = "drop_column"
    <2>1. Changed(work, Step) = DropColumn(work, Step, run.at, run.undo)
      BY <1>2 DEF Changed
    <2>2. Changed(work, Step).deps = work.deps \ ColumnDependents(work, Step)
      BY <1>0, <2>1, DropColumnFields
    <2>3. x \notin ColumnDependents(work, Step)
      BY <2>2
    <2>4. Blockers(work, Step, FALSE) = {}
      BY <1>2 DEF CanChange, CanDropColumn
    <2>5. x.kind \in Recreatable \cup {"other", "bound"}
      BY <1>0, DependentType DEF DependentRecords, Recreatable
    <2>6. QED  BY <1>2, <2>3, <2>4, <2>5 DEF ColumnDependents, Blockers, OnColumn, Recreatable
  <1>3. QED  BY <1>1, <1>2

LEMMA ChangePlaced ==
  ASSUME TypeOK, FromDecisions, CanChange(work, Step), Placed(work)
  PROVE  Placed(Changed(work, Step))
  <1>0. /\ Step \in Steps /\ work \in Databases /\ run.at \in Numbers /\ run.undo \in BOOLEAN
        /\ Step.tbl \in Tables /\ Step.col \in Columns /\ Step.table \in [Columns -> Attributes]
        /\ run.at \in 1 .. Len(script) /\ Step = AllSteps[run.at]
    BY AtStep, StepFields DEF TypeOK, Step
  <1>1. ASSUME NEW x \in work.deps, x \in Changed(work, Step).deps
        PROVE  /\ Exists(Changed(work, Step), x.tbl)
               /\ \A c \in x.cols : HasColumn(Changed(work, Step), x.tbl, c)
               /\ x.kind = "fk" => /\ Exists(Changed(work, Step), x.ref)
                                   /\ \A c \in x.refcols : HasColumn(Changed(work, Step), x.ref, c)
    <2>1. /\ x.tbl \in Tables /\ x.ref \in Tables /\ x.cols \subseteq Columns
          /\ x.refcols \subseteq Columns
      BY <1>0, <1>1, DatabaseFields, DependentType DEF DependentRecords
    <2>2. /\ Step.kind = "drop_table" => ~OnTable(x, Step.tbl)
          /\ Step.kind = "drop_column" => ~OnColumn(x, Step.tbl, Step.col)
      BY <1>1, StaysOn
    <2>3. /\ Exists(work, x.tbl) /\ \A c \in x.cols : HasColumn(work, x.tbl, c)
          /\ x.kind = "fk" => Exists(work, x.ref) /\ \A c \in x.refcols : HasColumn(work, x.ref, c)
      BY <1>1 DEF Placed
    <2>4. Exists(Changed(work, Step), x.tbl)
      BY <2>1, <2>2, <2>3, TableStays DEF OnTable
    <2>5. \A c \in x.cols : HasColumn(Changed(work, Step), x.tbl, c)
      BY <2>1, <2>2, <2>3, ColumnStays DEF OnTable, OnColumn
    <2>6. x.kind = "fk" => Exists(Changed(work, Step), x.ref)
      BY <2>1, <2>2, <2>3, TableStays DEF OnTable
    <2>7. x.kind = "fk" => \A c \in x.refcols : HasColumn(Changed(work, Step), x.ref, c)
      BY <2>1, <2>2, <2>3, ColumnStays DEF OnTable, OnColumn
    <2>8. QED  BY <2>4, <2>5, <2>6, <2>7
  <1>2. ASSUME NEW x \in Changed(work, Step).deps, x \notin work.deps
        PROVE  /\ x.kind = "default" /\ x.tbl \in Tables /\ x.cols \subseteq Columns
               /\ \E c \in Columns : c \in x.cols
               /\ \A c \in x.cols : HasColumn(Changed(work, Step), x.tbl, c)
    <2>1. CASE Step.kind = "create_table" /\ x \in MadeDefaults(Step)
      <3>1. Changed(work, Step).cols[Step.tbl] = MadeColumns(Step)
        BY <1>0, <2>1, MakeTableShape DEF Changed, TableBecomes
      <3>2. PICK c \in Columns : x.cols = {c} /\ Step.table[c].type # 0
        BY <1>0, <2>1, MadeDefaultsOn
      <3>3. x.kind = "default" /\ x.tbl = Step.tbl
        BY <1>0, <2>1, MadeDefaultsOn
      <3>4. HasColumn(Changed(work, Step), Step.tbl, c)
        BY <3>1, <3>2 DEF HasColumn, MadeColumns, Stored
      <3>5. QED  BY <1>0, <3>2, <3>3, <3>4
    <2>2. CASE Step.kind \in {"add_column", "modify_column"} /\ x \in NewDefaults(Step)
      <3>1. x.kind = "default" /\ x.tbl = Step.tbl /\ x.cols = {Step.col}
        BY <1>0, <2>2, NewDefaultsOn
      <3>2. Step.target.type # 0
        BY <1>0, <2>2, RunStep
      <3>3. HasColumn(Changed(work, Step), Step.tbl, Step.col)
        <4>1. CASE Step.kind = "add_column"
          <5>1. Changed(work, Step).cols[Step.tbl][Step.col] = Stored(Step.target)
            BY <1>0, <4>1, AddColumnShape DEF Changed, ColumnBecomes
          <5>2. QED  BY <3>2, <5>1 DEF HasColumn, Stored
        <4>2. CASE Step.kind = "modify_column"
          <5>1. HasColumn(work, Step.tbl, Step.col)
            BY <4>2 DEF CanChange, CanModifyColumn
          <5>2. QED  BY <1>0, <4>2, <5>1, ColumnStays
        <4>3. QED  BY <2>2, <4>1, <4>2
      <3>4. QED  BY <1>0, <3>1, <3>3
    <2>3. QED  BY <1>2, <2>1, <2>2, ChangeGainsOnly
  <1>3. SUFFICES ASSUME NEW x \in Changed(work, Step).deps
                 PROVE  /\ Exists(Changed(work, Step), x.tbl)
                        /\ \A c \in x.cols : HasColumn(Changed(work, Step), x.tbl, c)
                        /\ x.kind = "fk" => /\ Exists(Changed(work, Step), x.ref)
                                            /\ \A c \in x.refcols : HasColumn(Changed(work, Step),
                                                x.ref, c)
    BY DEF Placed
  <1>4. CASE x \in work.deps
    BY <1>1, <1>4
  <1>5. CASE x \notin work.deps
    <2>1. /\ x.kind = "default" /\ \E c \in Columns : c \in x.cols
          /\ \A c \in x.cols : HasColumn(Changed(work, Step), x.tbl, c)
      BY <1>2, <1>5
    <2>2. Exists(Changed(work, Step), x.tbl)
      BY <2>1 DEF Exists
    <2>3. QED  BY <2>1, <2>2
  <1>6. QED  BY <1>4, <1>5

LEMMA ChangeNoStray ==
  ASSUME TypeOK, FromDecisions, CanChange(work, Step), NoStray(work)
  PROVE  NoStray(Changed(work, Step))
  <1>0. /\ Step \in Steps /\ work \in Databases /\ run.at \in Numbers /\ run.undo \in BOOLEAN
        /\ Step.tbl \in Tables /\ run.at \in 1 .. Len(script) /\ Step = AllSteps[run.at]
    BY AtStep, StepFields DEF TypeOK, Step
  <1>1. SUFFICES ASSUME NEW t \in Tables, ~Exists(Changed(work, Step), t)
                 PROVE  DOMAIN Changed(work, Step).rows[t] = {}
    BY DEF NoStray
  <1>2. CASE ~Retables(Step, t)
    <2>1. ~Exists(work, t)
      BY <1>1, <1>2, TableStays DEF Retables, TableKinds
    <2>2. QED  BY <1>2, <2>1, ChangeRows DEF NoStray
  <1>3. CASE Retables(Step, t) /\ Step.kind = "create_table"
    <2>1. Changed(work, Step).rows[t] = NoRows
      BY <1>0, <1>3, MakeTableShape DEF Changed, TableBecomes, Retables
    <2>2. QED  BY <2>1 DEF NoRows
  <1>4. CASE Retables(Step, t) /\ Step.kind = "drop_table"
    <2>1. Changed(work, Step).rows[t] = NoRows
      BY <1>0, <1>4, DropTableShape DEF Changed, TableBecomes, Retables
    <2>2. QED  BY <2>1 DEF NoRows
  <1>5. CASE Retables(Step, t) /\ Step.kind = "restore_table"
    <2>1. Changed(work, Step).cols[t] = MadeColumns(Step)
      BY <1>0, <1>5, MakeTableShape DEF Changed, TableBecomes, Retables
    <2>2. PICK c \in Columns : Step.table[c].type # 0
      BY <1>0, <1>5, RunStep
    <2>3. QED  BY <1>1, <2>1, <2>2 DEF Exists, HasColumn, MadeColumns, Stored
  <1>6. QED  BY <1>2, <1>3, <1>4, <1>5 DEF Retables, TableKinds

-----------------------------------------------------------------------------------------
(* NULL is only where the column allows it.                                 *)
LEMMA MadeNullsFit ==
  ASSUME TypeOK, CanChange(work, Step), NEW t \in Tables, NEW c \in Columns,
         Makes(Step, work, t, c),
         NEW r \in DOMAIN Changed(work, Step).rows[t],
         HasColumn(Changed(work, Step), t, c), Changed(work, Step).rows[t][r][c] = Null
  PROVE  Changed(work, Step).cols[t][c].null
  <1>0. /\ Step \in Steps /\ work \in Databases /\ run.at \in Numbers /\ run.undo \in BOOLEAN
        /\ Step.tbl \in Tables /\ Step.col \in Columns /\ t = Step.tbl
        /\ Step.target \in Attributes /\ Step.table \in [Columns -> Attributes]
    BY AtStep, StepFields DEF Makes
  <1>1. CASE Step.kind = "create_table"
    <2>1. Changed(work, Step).rows[t] = NoRows
      BY <1>0, <1>1, MakeTableShape DEF Changed, TableBecomes
    <2>2. QED  BY <2>1 DEF NoRows
  <1>2. CASE Step.kind = "restore_table"
    <2> DEFINE bak == work.bak[BackupName(Step.tbl, Whole, FALSE)]
    <2>1. /\ Changed(work, Step).cols[t] = MadeColumns(Step)
          /\ Changed(work, Step).rows[t] = RestoredRows(work, Step)
      BY <1>0, <1>2, MakeTableShape DEF Changed, TableBecomes
    <2>2. Step.table[c].type # 0
      BY <2>1 DEF HasColumn, MadeColumns, Stored
    <2>3. RestoredRows(work, Step)
            = [q \in DOMAIN bak.rows |-> [k \in Columns |-> IF Step.table[k].type # 0
                                                             THEN bak.rows[q][k] ELSE Null]]
      BY DEF RestoredRows
    <2> HIDE DEF bak
    <2>31. r \in DOMAIN bak.rows /\ bak.rows[r][c] = Null
      BY <2>1, <2>2, <2>3
    <2>4. Null \in Column(bak.rows, c)
      BY <2>31 DEF Column
    <2>5. Step.table[c].null
      BY <1>2, <2>2, <2>4 DEF CanChange, CanRestoreTable, bak
    <2>6. QED  BY <2>1, <2>5 DEF MadeColumns, Stored
  <1>3. CASE Step.kind = "add_column"
    <2>0. ColumnBecomes(work, Changed(work, Step), Step.tbl, Step.col, Stored(Step.target),
                        [q \in DOMAIN work.rows[Step.tbl] |-> NewCell(Step)])
      BY <1>0, <1>3, AddColumnShape DEF Changed
    <2>1. /\ Changed(work, Step).cols[t][c] = Stored(Step.target)
          /\ r \in DOMAIN work.rows[t] /\ Changed(work, Step).rows[t][r][c] = NewCell(Step)
      BY <1>0, <1>3, <2>0 DEF ColumnBecomes, Makes
    <2>2. ~(NeedsValue(Step) /\ Step.backfill = 0)
      BY <1>0, <1>3, <2>1 DEF CanChange, CanAddColumn
    <2>3. NewCell(Step) = 0 /\ Step.target.type # 0
      BY <1>0, <2>1, AttributesFields DEF Null, HasColumn
    <2>4. NewValue(Step) = 0
      BY <2>3 DEF NewCell, Cut
    <2>5. Step.target.null
      BY <1>0, <2>2, <2>4, AttributesFields DEF NewValue, NeedsValue, Null
    <2>6. QED  BY <2>1, <2>5 DEF Stored
  <1>4. CASE Step.kind = "restore_column"
    <2> DEFINE new == [q \in DOMAIN work.rows[Step.tbl] |->
                         RestoredCell(work, Step, work.rows[Step.tbl][q], run.by[run.at])]
    <2>0. ColumnBecomes(work, Changed(work, Step), Step.tbl, Step.col, Stored(Step.target), new)
      BY <1>0, <1>4, RestoreColumnShape DEF Changed
    <2>00. \A q \in DOMAIN work.rows[Step.tbl] :
             new[q] = RestoredCell(work, Step, work.rows[Step.tbl][q], run.by[run.at])
      OBVIOUS
    <2> HIDE DEF new
    <2>1. /\ Changed(work, Step).cols[t][c] = Stored(Step.target)
          /\ r \in DOMAIN work.rows[t]
          /\ Changed(work, Step).rows[t][r][c]
               = RestoredCell(work, Step, work.rows[Step.tbl][r], run.by[run.at])
      BY <1>0, <1>4, <2>0, <2>00 DEF ColumnBecomes, Makes
    <2>2. Step.target.null
      BY <1>0, <1>4, <2>1 DEF CanChange, CanRestoreColumn
    <2>3. QED  BY <2>1, <2>2 DEF Stored
  <1>5. QED  BY <1>1, <1>2, <1>3, <1>4 DEF Makes

LEMMA ChangeNullsFit ==
  ASSUME TypeOK, CanChange(work, Step), NullsFit(work)
  PROVE  NullsFit(Changed(work, Step))
  <1>0. Step \in Steps /\ work \in Databases /\ Step.target \in Attributes
        /\ Step.tbl \in Tables /\ Step.col \in Columns
    BY AtStep, StepFields
  <1>1. SUFFICES ASSUME NEW t \in Tables, NEW c \in Columns,
                        NEW r \in DOMAIN Changed(work, Step).rows[t],
                        HasColumn(Changed(work, Step), t, c),
                            Changed(work, Step).rows[t][r][c] = Null
                 PROVE  Changed(work, Step).cols[t][c].null
    BY DEF NullsFit
  <1>2. CASE Keeps(work, Changed(work, Step), t, c)
    BY <1>1, <1>2 DEF Keeps, HasColumn, NullsFit
  <1>3. CASE Drops(Step, Changed(work, Step), t, c)
    BY <1>1, <1>3 DEF Drops
  <1>4. CASE Makes(Step, work, t, c)
    BY <1>1, <1>4, MadeNullsFit
  <1>5. CASE Alter(Step, work, Changed(work, Step), t, c)
    <2> DEFINE v == work.rows[t][r][c]
    <2>1. /\ Step.kind = "modify_column" /\ t = Step.tbl /\ c = Step.col
          /\ r \in DOMAIN work.rows[t]
          /\ Changed(work, Step).rows[t][r][c] = Altered(work.cols[t][c].type, Step, v)
          /\ Changed(work, Step).cols[t][c] = AlteredColumn(work, Step)
      BY <1>5 DEF Alter
    <2>2. CASE ~Alters(Step)
      <3>1. HasColumn(work, t, c)
        BY <2>1 DEF CanChange, CanModifyColumn
      <3>2. QED  BY <1>1, <2>1, <2>2, <3>1 DEF Altered, AlteredColumn, NullsFit
    <2>3. CASE Alters(Step)
      <3>1. v \in Column(work.rows[Step.tbl], Step.col)
        BY <2>1 DEF Column
      <3>2. Step.target.null
        BY <1>1, <2>1, <2>3, <3>1 DEF CanChange, CanModifyColumn, CanAlter
      <3>3. AlteredColumn(work, Step).null = Step.target.null
        BY <2>3 DEF AlteredColumn, Stored
      <3>4. QED  BY <2>1, <3>2, <3>3
    <2>4. QED  BY <2>2, <2>3
  <1>6. QED  BY <1>2, <1>3, <1>4, <1>5, ChangeDoes

(* The rows of a table with a key stay distinct in it.                      *)
LEMMA KeyColumnStays ==
  ASSUME TypeOK, FromDecisions, KeysSound(work), CanChange(work, Step),
         NEW x \in work.deps, x \in Changed(work, Step).deps, x.kind = "pk", NEW c \in x.cols
  PROVE  /\ x.tbl \in Tables /\ c \in Columns /\ HasColumn(work, x.tbl, c)
         /\ ~work.cols[x.tbl][c].null
         /\ \/ Keeps(work, Changed(work, Step), x.tbl, c)
            \/ Alter(Step, work, Changed(work, Step), x.tbl, c)
  <1>1. x.tbl \in Tables /\ c \in Columns
    <2>1. x \in Dependents
      BY AtStep, DatabaseFields DEF Databases
    <2>2. QED  BY <2>1, DependentType DEF DependentRecords
  <1>2. HasColumn(work, x.tbl, c) /\ ~work.cols[x.tbl][c].null
    BY DEF KeysSound
  <1>3. /\ Step.kind = "drop_table" => ~OnTable(x, Step.tbl)
        /\ Step.kind = "drop_column" => ~OnColumn(x, Step.tbl, Step.col)
    BY StaysOn
  <1>4. ~Drops(Step, Changed(work, Step), x.tbl, c)
    BY <1>3 DEF Drops, Copies, OnTable, OnColumn
  <1>5. QED  BY <1>1, <1>2, <1>4, ChangeDoes DEF Makes

(* A wider column keeps its values.                                         *)
LEMMA WidenedSame ==
  ASSUME TypeOK, Fits(db), AsObserved, Step.kind = "modify_column", OnlyWidens(Step),
         NEW v \in Cells, NEW r \in DOMAIN db.rows[Step.tbl],
         v <= db.rows[Step.tbl][r][Step.col], NEW old
  PROVE  Altered(old, Step, v) = v
  <1>0. /\ Step \in Steps /\ db \in Databases /\ Step.tbl \in Tables /\ Step.col \in Columns
        /\ Step.target \in Attributes /\ Step.observed \in Attributes
    BY AtStep, StepFields
  <1>1. db.cols[Step.tbl][Step.col] = Stored(Step.observed)
    BY DEF AsObserved, OnlyWidens, ColumnIs
  <1>2. db.rows[Step.tbl][r][Step.col] <= Step.observed.type
    BY <1>0, <1>1, AttributesFields DEF Fits
  <1>3. v \in Nat /\ db.rows[Step.tbl][r][Step.col] \in Nat
        /\ Step.observed.type \in Nat /\ Step.target.type \in Nat
    <2>1. db.rows[Step.tbl][r][Step.col] \in Cells
      BY <1>0, CellsOf
    <2>2. Cells \subseteq Nat
      BY SchemaAssumption DEF Cells
    <2>3. QED  BY <1>0, <2>1, <2>2, AttributesFields
  <1>4. v <= Step.target.type
    BY <1>2, <1>3 DEF OnlyWidens
  <1>5. ~FillsNulls(Step)
    BY <1>0, AttributesFields DEF FillsNulls, OnlyWidens
  <1>6. CASE Alters(Step)
    <2>1. Altered(old, Step, v) = Cut(v, Step.target.type)
      BY <1>5, <1>6 DEF Altered, Filled
    <2>2. QED  BY <1>3, <1>4, <2>1, CutFits
  <1>7. CASE ~Alters(Step)
    BY <1>7 DEF Altered
  <1>8. QED  BY <1>6, <1>7

LEMMA KeyRows ==
  ASSUME TypeOK, Sound(db), Sound(work), CellsKept, NoNewKeys, Active,
         NEW x \in work.deps, x.kind = "pk", NEW c \in x.cols
  PROVE  /\ x \in db.deps /\ x.tbl \in Tables /\ c \in Columns
         /\ DOMAIN work.rows[x.tbl] = DOMAIN db.rows[x.tbl]
  <1>1. x \in db.deps
    BY DEF NoNewKeys
  <1>2. x.tbl \in Tables /\ c \in Columns
    <2>1. x \in Dependents
      BY AtStep, DatabaseFields DEF Databases
    <2>2. QED  BY <2>1, DependentType DEF DependentRecords
  <1>3. HasColumn(work, x.tbl, c) /\ HasColumn(db, x.tbl, c)
    BY <1>1 DEF Sound, KeysSound
  <1>4. RowsKept(x.tbl, c)
    BY <1>2, <1>3 DEF CellsKept
  <1>5. QED  BY <1>1, <1>2, <1>4 DEF RowsKept

LEMMA ChangeKeysUnique ==
  ASSUME TypeOK, FromDecisions, Sound(db), Sound(work), CellsKept, NoNewKeys, Active, KeysTight,
         AsObserved, run.phase = "apply", CanChange(work, Step), KeysUnique(work), Placed(work)
  PROVE  KeysUnique(Changed(work, Step))
  <1>0. Step \in Steps /\ work \in Databases /\ Step.tbl \in Tables /\ Step.col \in Columns
    BY AtStep, StepFields
  <1>1. SUFFICES ASSUME NEW x \in Changed(work, Step).deps, x.kind = "pk"
                 PROVE  /\ \A y \in Changed(work, Step).deps : y.kind = "pk" /\ y.tbl = x.tbl
                           => y = x
                        /\ \A q, r \in DOMAIN Changed(work, Step).rows[x.tbl] : q # r =>
                             \E c \in x.cols : Changed(work, Step).rows[x.tbl][q][c]
                                                 # Changed(work, Step).rows[x.tbl][r][c]
    BY DEF KeysUnique
  <1>2. \A y \in Changed(work, Step).deps : y.kind = "pk" => y \in work.deps
    BY ChangedDeps
  <1>3. x \in work.deps /\ \A y \in Changed(work, Step).deps : y.kind = "pk" /\ y.tbl = x.tbl
      => y = x
    BY <1>1, <1>2 DEF KeysUnique
  <1>4. ASSUME NEW q \in DOMAIN Changed(work, Step).rows[x.tbl],
               NEW r \in DOMAIN Changed(work, Step).rows[x.tbl], q # r
        PROVE  \E c \in x.cols : Changed(work, Step).rows[x.tbl][q][c] #
                               Changed(work, Step).rows[x.tbl][r][c]
    <2>1. x \in Dependents /\ x.tbl \in Tables /\ x.cols \subseteq Columns
      BY <1>0, <1>3, DatabaseFields, DependentType DEF DependentRecords
    <2>2. DOMAIN Changed(work, Step).rows[x.tbl] = DOMAIN work.rows[x.tbl]
        \/ Step.kind = "create_table"
      <3>1. CASE Retables(Step, x.tbl)
        <4>1. Step.kind # "drop_table"
          BY <1>1, <1>3, <3>1, StaysOn DEF OnTable, Retables
        <4>2. Exists(work, x.tbl)
          BY <1>3 DEF Placed
        <4>3. Step.kind # "restore_table"
          BY <3>1, <4>2 DEF Retables, CanChange, CanRestoreTable
        <4>4. QED  BY <3>1, <4>1, <4>3 DEF Retables, TableKinds
      <3>2. CASE ~Retables(Step, x.tbl)
        BY <2>1, <3>2, ChangeRows
      <3>3. QED  BY <3>1, <3>2
    <2>3. ~(Step.kind = "create_table" /\ Step.tbl = x.tbl)
      BY <1>3 DEF Placed, CanChange, CanCreateTable
    <2>4. DOMAIN Changed(work, Step).rows[x.tbl] = DOMAIN work.rows[x.tbl]
      BY <2>1, <2>2, <2>3, ChangeRows DEF Retables
    <2>5. PICK c \in x.cols : work.rows[x.tbl][q][c] # work.rows[x.tbl][r][c]
      BY <1>1, <1>3, <1>4, <2>4 DEF KeysUnique
    <2>6. /\ c \in Columns /\ HasColumn(work, x.tbl, c)
          /\ \/ Keeps(work, Changed(work, Step), x.tbl, c)
             \/ Alter(Step, work, Changed(work, Step), x.tbl, c)
      BY <1>1, <1>3, KeyColumnStays DEF Sound
    <2>7. CASE Keeps(work, Changed(work, Step), x.tbl, c)
      BY <1>4, <2>4, <2>5, <2>7, SMTT(40) DEF Keeps
    <2> DEFINE old == work.cols[x.tbl][c].type
    <2> HIDE DEF old
    <2>8. CASE /\ Alter(Step, work, Changed(work, Step), x.tbl, c)
               /\ Altered(old, Step, work.rows[x.tbl][q][c]) = work.rows[x.tbl][q][c]
               /\ Altered(old, Step, work.rows[x.tbl][r][c]) = work.rows[x.tbl][r][c]
      BY <1>4, <2>4, <2>5, <2>8 DEF Alter, old
    <2>9. CASE Alter(Step, work, Changed(work, Step), x.tbl, c) /\ Alters(Step) /\ ~OnlyWidens(Step)
      <3>1. x \in AlterDependents(work, Step) \ Keys(work.deps)
        BY <1>1, <1>3, <2>5, <2>9
           DEF AlterDependents, ColumnDependents, OnColumn, Recreatable, Keys, Alter
      <3>2. Addable(ModifyColumn(work, Step), x)
        BY <2>9, <3>1 DEF CanChange, CanModifyColumn, Alter
      <3>3. KeyHolds(Changed(work, Step), x.tbl, x.cols)
        BY <1>1, <2>9, <3>2 DEF Addable, Changed, Alter
      <3>4. QED  BY <1>4, <3>3 DEF KeyHolds, Distinct
    <2>10. CASE Alter(Step, work, Changed(work, Step), x.tbl, c) /\ ~Alters(Step)
      BY <2>8, <2>10 DEF Altered
    <2>11. CASE Alter(Step, work, Changed(work, Step), x.tbl, c) /\ OnlyWidens(Step)
      <3>1. Step.kind = "modify_column" /\ x.tbl = Step.tbl /\ c = Step.col
        BY <2>11 DEF Alter
      <3>2. q \in DOMAIN work.rows[x.tbl] /\ r \in DOMAIN work.rows[x.tbl]
            /\ DOMAIN work.rows[x.tbl] = DOMAIN db.rows[x.tbl]
        BY <1>1, <1>3, <1>4, <2>4, KeyRows
      <3>3. work.rows[x.tbl][q][c] \in Cells /\ work.rows[x.tbl][r][c] \in Cells
        BY <1>0, <2>1, <2>6, <3>2, CellsOf
      <3>4. /\ work.rows[x.tbl][q][c] <= db.rows[x.tbl][q][c]
            /\ work.rows[x.tbl][r][c] <= db.rows[x.tbl][r][c]
        BY <1>1, <1>3, <3>2 DEF KeysTight
      <3>5. Altered(old, Step, work.rows[x.tbl][q][c]) = work.rows[x.tbl][q][c]
        BY <2>11, <3>1, <3>2, <3>3, <3>4, WidenedSame DEF Sound
      <3>6. Altered(old, Step, work.rows[x.tbl][r][c]) = work.rows[x.tbl][r][c]
        BY <2>11, <3>1, <3>2, <3>3, <3>4, WidenedSame DEF Sound
      <3>7. QED  BY <2>8, <2>11, <3>5, <3>6
    <2>12. QED  BY <2>6, <2>7, <2>9, <2>10, <2>11
  <1>5. QED  BY <1>3, <1>4

(* A step never makes the values of a key greater.                          *)
LEMMA ChangeKeysTight ==
  ASSUME TypeOK, FromDecisions, Sound(db), Sound(work), CellsKept, NoNewKeys, Active, KeysTight,
         run.phase = "apply", CanChange(work, Step), NullsFit(work),
         NEW x \in Changed(work, Step).deps, x.kind = "pk", NEW c \in x.cols,
         NEW r \in DOMAIN db.rows[x.tbl]
  PROVE  Changed(work, Step).rows[x.tbl][r][c] <= db.rows[x.tbl][r][c]
  <1>0. Step \in Steps /\ work \in Databases /\ db \in Databases
        /\ Step.target \in Attributes /\ Step.target.type \in Nat
    BY AtStep, StepFields, AttributesFields
  <1>1. x \in work.deps
    BY ChangedDeps
  <1>2. /\ x.tbl \in Tables /\ c \in Columns /\ DOMAIN work.rows[x.tbl] = DOMAIN db.rows[x.tbl]
    BY <1>1, KeyRows
  <1>3. /\ HasColumn(work, x.tbl, c) /\ ~work.cols[x.tbl][c].null
        /\ \/ Keeps(work, Changed(work, Step), x.tbl, c)
           \/ Alter(Step, work, Changed(work, Step), x.tbl, c)
    BY <1>1, KeyColumnStays DEF Sound
  <1> DEFINE v == work.rows[x.tbl][r][c]
             w == db.rows[x.tbl][r][c]
  <1>4. v <= w /\ v # Null
    BY <1>1, <1>2, <1>3 DEF KeysTight, NullsFit
  <1>5. v \in Nat /\ w \in Nat
    <2>1. v \in Cells /\ w \in Cells
      BY <1>0, <1>2, CellsOf
    <2>2. Cells \subseteq Nat
      BY SchemaAssumption DEF Cells
    <2>3. QED  BY <2>1, <2>2
  <1>6. CASE Keeps(work, Changed(work, Step), x.tbl, c)
    BY <1>2, <1>4, <1>6 DEF Keeps
  <1>7. CASE Alter(Step, work, Changed(work, Step), x.tbl, c)
    <2> DEFINE old == work.cols[x.tbl][c].type
    <2>1. Changed(work, Step).rows[x.tbl][r][c] = Altered(old, Step, v)
      BY <1>2, <1>7 DEF Alter
    <2> HIDE DEF v, w, old
    <2>2. Altered(old, Step, v) = v \/ Altered(old, Step, v) = Cut(v, Step.target.type)
      BY <1>4 DEF Altered, Filled
    <2>3. Altered(old, Step, v) <= w
      BY <1>0, <1>4, <1>5, <2>2 DEF Cut
    <2>4. QED  BY <2>1, <2>3 DEF v, w
  <1>8. QED  BY <1>3, <1>6, <1>7

(* Coherent databases.                                                      *)
LEMMA CoherentBySchema ==
  ASSUME NEW d, NEW e, e.cols = d.cols, e.rows = d.rows, e.deps = d.deps, Coherent(d)
  PROVE  Coherent(e)
  <1>1. Sound(e)
    BY SoundBySchema DEF SameSchema, Coherent
  <1>2. \A t, c : HasColumn(e, t, c) <=> HasColumn(d, t, c)
    BY DEF HasColumn
  <1>3. \A t : Exists(e, t) <=> Exists(d, t)
    BY <1>2 DEF Exists
  <1>4. QED
    BY <1>1, <1>2, <1>3 DEF Coherent, Placed, NoStray, NullsFit, KeysUnique

LEMMA ReferenceColumns ==
  ASSUME NEW x \in Dependents, x.kind = "fk"
  PROVE  \E c \in Columns : c \in x.refcols
  <1>1. x \in Constraints
    BY DEF Dependents, Default
  <1>2. x.refcols # {} /\ x.refcols \subseteq Columns
    BY <1>1, SchemaAssumption DEF DependentRecords
  <1>3. QED  BY <1>2

LEMMA AddablePlaced ==
  ASSUME NEW d \in Databases, KeysSound(d), NEW x \in Dependents, Addable(d, x)
  PROVE  /\ Exists(d, x.tbl) /\ \A c \in x.cols : HasColumn(d, x.tbl, c)
         /\ x.kind = "fk" => Exists(d, x.ref) /\ \A c \in x.refcols : HasColumn(d, x.ref, c)
  <1>1. Exists(d, x.tbl) /\ \A c \in x.cols : HasColumn(d, x.tbl, c)
    BY DEF Addable, Present
  <1>2. ASSUME x.kind = "fk"
        PROVE  Exists(d, x.ref) /\ \A c \in x.refcols : HasColumn(d, x.ref, c)
    <2>1. x.refcols = PkColumns(d, x.ref)
      BY <1>2 DEF Addable, ReferenceHolds
    <2>2. \A c \in PkColumns(d, x.ref) : HasColumn(d, x.ref, c)
      BY DEF PkColumns, KeysSound
    <2>3. PICK c \in Columns : c \in x.refcols
      BY <1>2, ReferenceColumns
    <2>4. QED  BY <2>1, <2>2, <2>3 DEF Exists
  <1>3. QED  BY <1>1, <1>2

LEMMA AddAllCoherent ==
  ASSUME NEW d \in Databases, NEW X \in SUBSET Dependents, Coherent(d), CanAddAll(d, X)
  PROVE  Coherent(AddAll(d, X))
  <1> DEFINE e == AddAll(d, X)
  <1>1. e.cols = d.cols /\ e.rows = d.rows /\ e.deps = d.deps \cup X /\ e \in Databases
    BY AddAllType DEF AddAll, Databases
  <1>2. Sound(e)
    BY AddAllSound DEF Coherent
  <1>3. \A x \in X : Addable(e, x)
    BY DEF CanAddAll
  <1> HIDE DEF e
  <1>4. /\ \A t, c : HasColumn(e, t, c) <=> HasColumn(d, t, c)
        /\ \A t : Exists(e, t) <=> Exists(d, t)
    BY <1>1 DEF HasColumn, Exists
  <1>5. NoStray(e) /\ NullsFit(e)
    BY <1>1, <1>4 DEF Coherent, NoStray, NullsFit
  <1>6. Placed(e)
    <2>1. SUFFICES ASSUME NEW x \in e.deps
                   PROVE  /\ Exists(e, x.tbl) /\ \A c \in x.cols : HasColumn(e, x.tbl, c)
                          /\ x.kind = "fk" => Exists(e, x.ref)
                              /\ \A c \in x.refcols : HasColumn(e, x.ref, c)
      BY DEF Placed
    <2>2. CASE x \in d.deps
      BY <1>4, <2>2 DEF Coherent, Placed
    <2>3. CASE x \in X
      BY <1>1, <1>2, <1>3, <2>3, AddablePlaced DEF Sound
    <2>4. QED  BY <1>1, <2>2, <2>3
  <1>7. KeysUnique(e)
    <2>1. SUFFICES ASSUME NEW x \in e.deps, x.kind = "pk"
                   PROVE  /\ \A y \in e.deps : y.kind = "pk" /\ y.tbl = x.tbl => y = x
                          /\ \A q, r \in DOMAIN e.rows[x.tbl] :
                               q # r => \E c \in x.cols : e.rows[x.tbl][q][c] # e.rows[x.tbl][r][c]
      BY DEF KeysUnique
    <2>2. CASE x \in X
      BY <1>3, <2>1, <2>2 DEF Addable, KeyHolds, Distinct
    <2>3. CASE x \in d.deps
      <3>1. \A y \in d.deps : y.kind = "pk" /\ y.tbl = x.tbl => y = x
        BY <2>1, <2>3 DEF Coherent, KeysUnique
      <3>2. \A y \in X : y.kind = "pk" /\ y.tbl = x.tbl => y = x
        BY <1>3, <2>1 DEF Addable
      <3>3. QED  BY <1>1, <2>1, <2>3, <3>1, <3>2 DEF Coherent, KeysUnique
    <2>4. QED  BY <1>1, <2>2, <2>3
  <1>8. Coherent(e)
    BY <1>2, <1>5, <1>6, <1>7 DEF Coherent
  <1>9. QED  BY <1>8 DEF e

LEMMA InitCoherent ==
  ASSUME Init
  PROVE  Coherent(db)
  <1>1. db \in InitialDbs /\ db \in Databases
    BY ScriptAssumption DEF Init
  <1>2. ASSUME NEW t \in Tables
        PROVE  [db EXCEPT !.rows[t] = db.rows[t]] = db
    BY <1>1 DEF Databases
  <1>3. /\ \A t \in Tables : Exists(db, t) \/ db.rows[t] = NoRows
        /\ \A t \in Tables : \A r \in DOMAIN db.rows[t] : RowFits(db, t, db.rows[t][r])
        /\ \A t \in Tables : \A x \in db.deps : OnTable(x, t) => Addable(db, x)
    BY <1>1, <1>2, DatabaseAssumption DEF Legal
  <1>4. \A x \in db.deps : x \in Dependents /\ x.tbl \in Tables /\ Addable(db, x)
    BY <1>1, <1>3, DatabaseFields, DependentType DEF OnTable, DependentRecords, Databases
  <1>5. Sound(db)
    BY InitSound
  <1>6. NoStray(db) /\ NullsFit(db)
    BY <1>3 DEF NoStray, NullsFit, NoRows, RowFits
  <1>7. Placed(db)
    BY <1>1, <1>4, <1>5, AddablePlaced DEF Placed, Sound
  <1>8. KeysUnique(db)
    BY <1>4 DEF KeysUnique, Addable, KeyHolds, Distinct
  <1>9. QED  BY <1>5, <1>6, <1>7, <1>8 DEF Coherent

-----------------------------------------------------------------------------------------
(* What each step of a run does to the run.                                 *)
SameRest == UNCHANGED <<script, db, past>> /\ AllSteps' = AllSteps /\ run'.undo = run.undo

LEMMA SkipDoes ==
  ASSUME TypeOK, SkipStep
  PROVE  /\ SameRest /\ work' = work /\ Active /\ Active' /\ Performed' = Performed
         /\ run.phase = "apply" /\ run'.phase \in {"apply", "keys"} /\ ~run'.copied
         /\ run'.phase = "apply" => run'.at = run.at + 1
         /\ run'.keys = run.keys /\ run'.replay = run.replay
  <1>1. run \in Runs /\ run.phase = "apply" /\ run.at \in run.skip /\ run' = Advance(run)
        /\ script' = script
    BY DEF TypeOK, SkipStep
  <1>2. /\ run'.phase \in {"apply", "keys"} /\ ~run'.copied /\ run'.undo = run.undo
        /\ AllSteps' = AllSteps /\ Active /\ Active' /\ Performed' = Performed
    BY <1>1, Advances
  <1>3. /\ run'.keys = run.keys /\ run'.replay = run.replay
        /\ run'.phase = "apply" => run'.at = run.at + 1
    BY <1>1 DEF Advance, Runs
  <1>4. QED  BY <1>1, <1>2, <1>3 DEF SkipStep, SameRest

LEMMA CopyDoes ==
  ASSUME TypeOK, CopyStep
  PROVE  /\ SameRest /\ work' = Copy(work, Step, run.undo) /\ Active /\ Active'
         /\ Performed' = Performed /\ Step' = Step /\ Copies(Step)
         /\ run.phase = "apply" /\ run'.phase = "apply" /\ run'.copied /\ run'.at = run.at
         /\ run'.keys = run.keys /\ run'.replay = run.replay
         /\ work'.cols = work.cols /\ work'.rows = work.rows /\ work'.deps = work.deps
  <1>0. Step \in Steps /\ work \in Databases /\ run.undo \in BOOLEAN /\ run \in Runs
    BY AtStep
  <1>1. /\ run.phase = "apply" /\ run' = [run EXCEPT !.copied = TRUE] /\ script' = script
        /\ work' = Copy(work, Step, run.undo) /\ Copies(Step)
    BY DEF CopyStep, AtCopy, Applying
  <1>2. work'.cols = work.cols /\ work'.rows = work.rows /\ work'.deps = work.deps
    BY <1>0, <1>1, CopyConfined
  <1>3. /\ run'.phase = run.phase /\ run'.at = run.at /\ run'.skip = run.skip
        /\ run'.undo = run.undo
        /\ run'.keys = run.keys /\ run'.replay = run.replay /\ run'.copied
    BY <1>0, <1>1 DEF Runs
  <1>4. AllSteps' = AllSteps /\ Active /\ Active'
    BY <1>1, <1>3 DEF AllSteps, Active
  <1>5. Performed' = Performed /\ Step' = Step
    BY <1>1, <1>3, <1>4 DEF Performed, Step
  <1>6. QED  BY <1>1, <1>2, <1>3, <1>4, <1>5 DEF CopyStep, SameRest

LEMMA ChangeStepDoes ==
  ASSUME TypeOK, ChangeStep
  PROVE  /\ SameRest /\ work' = Changed(work, Step) /\ CanChange(work, Step) /\ Active /\ Active'
         /\ Applying /\ AtChange /\ run.at \in Performed' /\ run.at \notin Performed
         /\ Performed' = Performed \cup {run.at}
         /\ run.phase = "apply" /\ run'.phase \in {"apply", "keys"} /\ ~run'.copied
         /\ run'.phase = "apply" => run'.at = run.at + 1
         /\ run'.keys = IF Step.kind = "modify_column"
                          THEN run.keys \cup DroppedKeys(work, Step) ELSE run.keys
         /\ run'.replay = IF Step.kind \in RestoreKinds THEN run.replay \cup {Step.num}
             ELSE run.replay
         /\ ToRecreate' = run'.keys /\ ToRecreate = run.keys
  <1> DEFINE keys == IF Step.kind = "modify_column" THEN run.keys \cup DroppedKeys(work, Step)
      ELSE run.keys
             replay == IF Step.kind \in RestoreKinds THEN run.replay \cup {Step.num} ELSE run.replay
             r == [run EXCEPT !.keys = keys, !.replay = replay]
  <1>0. Step \in Steps /\ work \in Databases /\ run \in Runs /\ run.at \in 1 .. Len(script)
    BY AtStep DEF TypeOK
  <1>1. /\ run.phase = "apply" /\ run.at \notin run.skip /\ script' = script
        /\ work' = Changed(work, Step) /\ CanChange(work, Step) /\ AtChange /\ Applying
        /\ UNCHANGED <<db, past>>
    BY DEF ChangeStep, AtChange, Applying
  <1>2. run' = Advance(r)
    BY DEF ChangeStep, RestoreKinds
  <1>3. keys \in SUBSET Dependents /\ replay \in SUBSET Numbers
    BY <1>0, DroppedKeysType, StepFields DEF Runs
  <1> HIDE DEF keys, replay
  <1>4. r \in Runs /\ r.at = run.at /\ r.phase = run.phase /\ r.skip = run.skip /\ r.undo = run.undo
        /\ r.keys = keys /\ r.replay = replay
    BY <1>0, <1>3 DEF Runs
  <1> HIDE DEF r
  <1>5. /\ run'.phase \in {"apply", "keys"} /\ ~run'.copied /\ run'.undo = run.undo
        /\ AllSteps' = AllSteps /\ Active /\ Active'
        /\ Performed' = Performed \cup ({run.at} \ run.skip)
    BY <1>1, <1>2, <1>4, Advances
  <1>6. /\ run'.keys = keys /\ run'.replay = replay
        /\ run'.phase = "apply" => run'.at = run.at + 1
    BY <1>1, <1>2, <1>4 DEF Advance, Runs
  <1>7. Performed' = Performed \cup {run.at} /\ run.at \notin Performed
    BY <1>0, <1>1, <1>5 DEF Performed
  <1>8. ToRecreate' = run'.keys /\ ToRecreate = run.keys
    BY <1>1, <1>5 DEF ToRecreate
  <1>9. QED
    BY <1>1, <1>5, <1>6, <1>7, <1>8 DEF SameRest, keys, replay

(* The dependents a run recreates once its steps are done.                  *)
Recreated == IF run.phase = "keys" THEN run.keys ELSE Replayed(work)
LEMMA AdditionDoes ==
  ASSUME TypeOK, RecreateKeys \/ Replay
  PROVE  /\ SameRest /\ work' = AddAll(work, Recreated) /\ CanAddAll(work, Recreated)
         /\ Recreated \in SUBSET Dependents /\ Active /\ Active' /\ Performed' = Performed
         /\ RecreateKeys => run.phase = "keys" /\ run'.phase = "replay"
         /\ Replay => run.phase = "replay" /\ run'.phase = "verify"
         /\ run'.keys = run.keys /\ run'.replay = run.replay /\ run'.copied = run.copied
         /\ work'.cols = work.cols /\ work'.rows = work.rows
         /\ work'.deps = work.deps \cup Recreated
         /\ work'.bak = work.bak /\ work'.journal = work.journal
         /\ run.phase \in {"keys", "replay"} /\ run'.phase \in {"replay", "verify"}
         /\ ToRecreate' = {}
  <1>0. run \in Runs /\ work \in Databases
    BY AtStep
  <1>1. PICK p \in {"replay", "verify"} :
           /\ run' = [run EXCEPT !.phase = p]
           /\ work' = AddAll(work, Recreated) /\ CanAddAll(work, Recreated)
           /\ Recreated \in SUBSET Dependents
           /\ script' = script /\ db' = db /\ past' = past /\ run.phase \in {"keys", "replay"}
           /\ RecreateKeys => run.phase = "keys" /\ p = "replay"
           /\ Replay => run.phase = "replay" /\ p = "verify"
    <2>1. CASE RecreateKeys
      <3>1. Recreated = run.keys /\ run.keys \in SUBSET Dependents
        BY <1>0, <2>1 DEF RecreateKeys, Recreated, Runs
      <3>2. run' = [run EXCEPT !.phase = "replay"] /\ ~Replay
        BY <2>1 DEF RecreateKeys, Replay
      <3>3. QED  BY <2>1, <3>1, <3>2 DEF RecreateKeys
    <2>2. CASE Replay
      <3>1. Recreated = Replayed(work) /\ Replayed(work) \in SUBSET Dependents
        BY <1>0, <2>2, ReplayedType DEF Replay, Recreated
      <3>2. run' = [run EXCEPT !.phase = "verify"] /\ ~RecreateKeys
        BY <2>2 DEF RecreateKeys, Replay
      <3>3. QED  BY <2>2, <3>1, <3>2 DEF Replay
    <2>3. QED  BY <2>1, <2>2
  <1>2. /\ run'.phase = p /\ run'.copied = run.copied
        /\ run'.undo = run.undo /\ AllSteps' = AllSteps
        /\ Active /\ Active' /\ Performed' = Performed
    BY <1>1, Continues
  <1>3. run'.keys = run.keys /\ run'.replay = run.replay
    BY <1>0, <1>1 DEF Runs
  <1>4. /\ work'.cols = work.cols /\ work'.rows = work.rows /\ work'.deps = work.deps \cup Recreated
        /\ work'.bak = work.bak /\ work'.journal = work.journal
    BY <1>0, <1>1 DEF AddAll, Databases
  <1>5. ToRecreate' = {}
    BY <1>1, <1>2 DEF ToRecreate
  <1>6. QED
    BY <1>1, <1>2, <1>3, <1>4, <1>5 DEF SameRest

LEMMA CommitDoes ==
  ASSUME TypeOK, Commit
  PROVE  /\ run.phase = "verify" /\ Verified /\ Active /\ Running /\ script' = script
         /\ db' = work /\ work' = work /\ run'.phase = "idle" /\ ~Running' /\ ~Active'
         /\ Performed' = {}
         /\ ToRecreate = {}
         /\ run.undo => past'.state = "undone" /\ past'.origin = past.origin
         /\ ~run.undo /\ past.state = "applied" => past'.state = "applied"
             /\ past'.origin = past.origin
         /\ ~run.undo /\ past.state # "applied" => past'.state = "applied" /\ past'.origin = db
  <1>1. run' = Idle /\ run.phase = "verify" /\ past \in Histories
    BY DEF Commit, TypeOK
  <1>2. /\ run'.phase = "idle" /\ ~Running' /\ ~Active' /\ Performed' = {} /\ Active
        /\ Running /\ ToRecreate = {}
    BY <1>1 DEF Idle, Running, Active, Performed, ToRecreate
  <1>3. /\ run.undo => past'.state = "undone" /\ past'.origin = past.origin
        /\ ~run.undo /\ past.state = "applied" => past'.state = "applied"
            /\ past'.origin = past.origin
        /\ ~run.undo /\ past.state # "applied" => past'.state = "applied" /\ past'.origin = db
    BY <1>1 DEF Commit, Histories
  <1>4. QED  BY <1>1, <1>2, <1>3 DEF Commit

(* The user's cleaning.                                                     *)
LEMMA CleansUpDoes ==
  ASSUME TypeOK, CleansUp
  PROVE  /\ script' = script /\ run' = run /\ past' = past /\ ~Running /\ ~Active /\ work' = db'
         /\ ~Running' /\ ~Active' /\ AllSteps' = AllSteps
         /\ db'.cols = db.cols /\ db'.rows = db.rows /\ db'.deps = db.deps
         /\ \A b \in BackupNames : db'.bak[b] = db.bak[b] \/ db'.bak[b] = NoBackup
         /\ db'.journal[FALSE] = db.journal[FALSE] \/ db'.journal[FALSE] = NoJournal
  <1>0. db \in Databases
    BY AtStep
  <1>1. CASE \E b \in BackupNames : RemoveBackup(b)
    <2>1. PICK b \in BackupNames : RemoveBackup(b)
      BY <1>1
    <2>2. /\ db' = [db EXCEPT !.bak[b] = NoBackup] /\ work' = db' /\ run' = run /\ script' = script
          /\ past' = past /\ ~Running
      BY <2>1 DEF RemoveBackup, CleanUp
    <2>3. /\ db'.cols = db.cols /\ db'.rows = db.rows /\ db'.deps = db.deps
          /\ db'.journal = db.journal
          /\ \A a \in BackupNames : db'.bak[a] = db.bak[a] \/ db'.bak[a] = NoBackup
      BY <1>0, <2>2 DEF Databases
    <2>4. QED  BY <2>2, <2>3 DEF Running, Active, AllSteps
  <1>2. CASE \E u \in BOOLEAN : RemoveJournal(u)
    <2>1. PICK u \in BOOLEAN : RemoveJournal(u)
      BY <1>2
    <2>2. /\ db' = [db EXCEPT !.journal[u] = NoJournal] /\ work' = db' /\ run' = run
          /\ script' = script
          /\ past' = past /\ ~Running
      BY <2>1 DEF RemoveJournal, CleanUp
    <2>3. /\ db'.cols = db.cols /\ db'.rows = db.rows /\ db'.deps = db.deps /\ db'.bak = db.bak
          /\ db'.journal[FALSE] = db.journal[FALSE] \/ db'.journal[FALSE] = NoJournal
      BY <1>0, <2>2 DEF Databases
    <2>4. QED  BY <2>2, <2>3 DEF Running, Active, AllSteps
  <1>3. QED  BY <1>1, <1>2 DEF CleansUp

LEMMA BlanksDoes ==
  ASSUME TypeOK, TypeOK', Blanks
  PROVE  /\ script' = script /\ db' = db /\ work' = db /\ Performed' = {} /\ run'.keys = {}
         /\ run'.replay = {} /\ ~run'.copied /\ ToRecreate' = {}
         /\ past'.state = past.state /\ past'.origin = past.origin
  BY DEF Blanks, SamePast, Blank, ToRecreate

LEMMA StaysDoes ==
  ASSUME Stays
  PROVE  /\ UNCHANGED <<script, db, work, run>> /\ past'.state = past.state
         /\ past'.origin = past.origin
         /\ AllSteps' = AllSteps /\ Performed' = Performed /\ (Active' <=> Active)
         /\ (Running' <=> Running) /\ ToRecreate' = ToRecreate
  BY DEF Stays, SamePast, AllSteps, Performed, Active, Running, ToRecreate

(* What the earlier theorems rest on.                                       *)
Known ==
  /\ TypeOK /\ Settled /\ FromDecisions /\ Undisturbed /\ LostAreExcused
  /\ AllApplied /\ NothingToDo /\ DropsAreSaved /\ RunStart /\ Confined(db, work, locked)

LEMMA NextKnown ==
  ASSUME MaxWrites = 0, Known, [Next]_vars
  PROVE  Known'
  <1>1. /\ TypeOK /\ Settled /\ FromDecisions /\ Undisturbed /\ LostAreExcused
        /\ AllApplied /\ NothingToDo /\ DropsAreSaved /\ RunStart /\ Confined(db, work, locked)
    BY DEF Known
  <1>2. TypeOK' /\ FromDecisions' /\ LostAreExcused' /\ RunStart'
    BY <1>1, NextType, NextFromDecisions, NextLostAreExcused, NextRunStart
  <1>3. Settled' /\ Confined(db, work, locked)'
    BY <1>1, NextConfined
  <1>4. Undisturbed' /\ DropsAreSaved'
    BY <1>1, NextUndisturbed, NextSaved
  <1>5. AllApplied' /\ NothingToDo'
    BY <1>1, NextAllApplied, NextNothingToDo
  <1>6. QED  BY <1>2, <1>3, <1>4, <1>5 DEF Known

CoherentRun == Coherent(db) /\ Coherent(work) /\ Coherent(past.origin) /\ KeysTight

LEMMA SameTight ==
  ASSUME NEW d \in Databases, NEW x \in d.deps, NEW c \in x.cols, NEW r \in DOMAIN d.rows[x.tbl]
  PROVE  d.rows[x.tbl][r][c] <= d.rows[x.tbl][r][c]
  <1>1. x.tbl \in Tables /\ c \in Columns
    BY DatabaseFields, DependentType DEF Databases, DependentRecords
  <1>2. d.rows[x.tbl][r][c] \in Cells
    BY <1>1, CellsOf
  <1>3. QED  BY <1>2, SchemaAssumption DEF Cells

LEMMA ChangeCoherent ==
  ASSUME Known, CoherentRun, ChangeStep
  PROVE  Coherent(work') /\ KeysTight'
  <1>1. /\ SameRest /\ work' = Changed(work, Step) /\ CanChange(work, Step) /\ Active /\ Applying
        /\ run.phase = "apply"
    BY ChangeStepDoes DEF Known
  <1>2. TypeOK /\ FromDecisions /\ Sound(db) /\ Sound(work) /\ CellsKept /\ NoNewKeys
    BY <1>1 DEF Known, Undisturbed
  <1>3. AsObserved
    BY <1>1, AsObservedAtChange DEF Known, Undisturbed
  <1>4. Sound(Changed(work, Step))
    BY <1>1, <1>2, <1>3, ChangedFits, ChangedKeysSound DEF Sound
  <1>5. Placed(Changed(work, Step)) /\ NoStray(Changed(work, Step)) /\ NullsFit(Changed(work, Step))
    BY <1>1, <1>2, ChangePlaced, ChangeNoStray, ChangeNullsFit DEF CoherentRun, Coherent
  <1>6. KeysUnique(Changed(work, Step))
    BY <1>1, <1>2, <1>3, ChangeKeysUnique DEF CoherentRun, Coherent
  <1>7. \A x \in Changed(work, Step).deps : x.kind = "pk" =>
           \A c \in x.cols : \A r \in DOMAIN db.rows[x.tbl] :
             Changed(work, Step).rows[x.tbl][r][c] <= db.rows[x.tbl][r][c]
    BY <1>1, <1>2, ChangeKeysTight DEF CoherentRun, Coherent
  <1>8. QED
    BY <1>1, <1>4, <1>5, <1>6, <1>7 DEF Coherent, KeysTight, SameRest

LEMMA NextCoherent ==
  ASSUME MaxWrites = 0, Known, CoherentRun, [Next]_vars
  PROVE  CoherentRun'
  <1>0. TypeOK /\ TypeOK' /\ Settled /\ RunStart
    BY NextType DEF Known
  <1>1. CASE Stays
    <2>1. UNCHANGED <<db, work, run>> /\ past'.origin = past.origin
      BY <1>1, StaysDoes
    <2>2. QED  BY <2>1 DEF CoherentRun, KeysTight
  <1>2. CASE Blanks
    <2>1. db' = db /\ work' = db /\ past'.origin = past.origin
      BY <1>0, <1>2, BlanksDoes
    <2>2. KeysTight'
      BY <1>0, <2>1, SameTight DEF KeysTight, TypeOK
    <2>3. QED  BY <2>1, <2>2 DEF CoherentRun
  <1>3. CASE SkipStep \/ CopyStep
    <2>1. /\ db' = db /\ past' = past /\ run.phase = "apply"
          /\ work'.cols = work.cols /\ work'.rows = work.rows /\ work'.deps = work.deps
      BY <1>0, <1>3, SkipDoes, CopyDoes DEF SameRest
    <2>2. Coherent(work')
      BY <2>1, CoherentBySchema DEF CoherentRun
    <2>3. KeysTight'
      BY <2>1 DEF KeysTight, CoherentRun
    <2>4. QED  BY <2>1, <2>2, <2>3 DEF CoherentRun
  <1>4. CASE ChangeStep
    BY <1>0, <1>4, ChangeCoherent, ChangeStepDoes DEF CoherentRun, SameRest
  <1>5. CASE RecreateKeys \/ Replay
    <2>1. /\ db' = db /\ past' = past /\ work' = AddAll(work, Recreated)
          /\ CanAddAll(work, Recreated)
          /\ Recreated \in SUBSET Dependents /\ run'.phase \in {"replay", "verify"}
      BY <1>0, <1>5, AdditionDoes DEF SameRest
    <2>2. Coherent(work')
      BY <1>0, <2>1, AddAllCoherent DEF CoherentRun, TypeOK
    <2>3. QED  BY <2>1, <2>2 DEF CoherentRun, KeysTight
  <1>6. CASE Commit
    <2>1. db' = work /\ work' = work /\ run'.phase = "idle" /\ past'.origin \in {past.origin, db}
      BY <1>0, <1>6, CommitDoes
    <2>2. QED  BY <2>1 DEF CoherentRun, KeysTight
  <1>7. CASE CleansUp
    <2>1. /\ past' = past /\ ~Active' /\ work' = db'
          /\ db'.cols = db.cols /\ db'.rows = db.rows /\ db'.deps = db.deps
      BY <1>0, <1>7, CleansUpDoes
    <2>2. Coherent(db')
      BY <2>1, CoherentBySchema DEF CoherentRun
    <2>3. QED  BY <2>1, <2>2 DEF CoherentRun, KeysTight, Active
  <1>8. QED  BY <1>0, <1>1, <1>2, <1>3, <1>4, <1>5, <1>6, <1>7, NextDoes

-----------------------------------------------------------------------------------------
(* What a run will recreate.                                                *)
UndoStarted == Running /\ run.undo => past.state # "new"
ToRecreateKnown == UndoStarted /\ KeysKnown /\ ReplayKnown /\ EntriesOk(db) /\ EntriesOk(work)

LEMMA NextUndoStarted ==
  ASSUME MaxWrites = 0, Known, UndoStarted, [Next]_vars
  PROVE  UndoStarted'
  <1>0. TypeOK /\ TypeOK' /\ Settled /\ RunStart
    BY NextType DEF Known
  <1>1. CASE Stays
    BY <1>1 DEF Stays, SamePast, UndoStarted, Running
  <1>2. CASE Blanks
    BY <1>2 DEF Blanks, SamePast, UndoStarted, Running
  <1>3. CASE SkipStep \/ CopyStep \/ ChangeStep \/ RecreateKeys \/ Replay
    <2>1. past' = past /\ run'.undo = run.undo /\ Active
      BY <1>0, <1>3, SkipDoes, CopyDoes, ChangeStepDoes, AdditionDoes DEF SameRest
    <2>2. QED  BY <2>1 DEF UndoStarted, Running, Active
  <1>4. CASE Commit
    BY <1>0, <1>4, CommitDoes DEF UndoStarted
  <1>5. CASE CleansUp
    BY <1>0, <1>5, CleansUpDoes DEF UndoStarted
  <1>6. QED  BY <1>0, <1>1, <1>2, <1>3, <1>4, <1>5, NextDoes

LEMMA SameEntries ==
  ASSUME NEW d, NEW e, e.journal[FALSE].entries = d.journal[FALSE].entries
  PROVE  /\ EntryNumbers(e) = EntryNumbers(d) /\ \A j : Entry(e, j) = Entry(d, j)
         /\ EntriesOk(e) <=> EntriesOk(d)
         /\ \A x : InJournal(e, x) <=> InJournal(d, x)
         /\ \A X : JournalWithin(e, X) <=> JournalWithin(d, X)
  BY DEF EntryNumbers, Entry, EntriesOk, InJournal, JournalWithin

LEMMA EmptyJournal ==
  ASSUME NEW d, d.journal[FALSE] = NoJournal
  PROVE  EntryNumbers(d) = {} /\ ~d.journal[FALSE].made
  BY DEF NoJournal, EntryNumbers

LEMMA CopyJournal ==
  ASSUME NEW d \in Databases, NEW s \in Steps, NEW u \in BOOLEAN
  PROVE  /\ Copy(d, s, u).journal[FALSE].entries = d.journal[FALSE].entries
         /\ u => Copy(d, s, u).journal[FALSE] = d.journal[FALSE]
         /\ Copy(d, s, u).bak[BackupOf(s, u)] = CopyOf(d, s)
         /\ \A b \in BackupNames : b # BackupOf(s, u) => Copy(d, s, u).bak[b] = d.bak[b]
  <1>1. BackupOf(s, u) \in BackupNames
    BY BackupType
  <1>2. Copy(d, s, u) = [d EXCEPT !.journal[u].made = TRUE, !.bak[BackupOf(s, u)] = CopyOf(d, s)]
    BY DEF Copy, CopyOf
  <1>3. d.journal \in [BOOLEAN -> Journals] /\ d.bak \in [BackupNames -> Backups]
    BY DEF Databases
  <1>4. /\ Copy(d, s, u).journal = [d.journal EXCEPT ![u].made = TRUE]
        /\ Copy(d, s, u).bak = [d.bak EXCEPT ![BackupOf(s, u)] = CopyOf(d, s)]
    BY <1>2 DEF Databases
  <1>5. /\ Copy(d, s, u).journal[FALSE].entries = d.journal[FALSE].entries
        /\ u => Copy(d, s, u).journal[FALSE] = d.journal[FALSE]
    <2>1. CASE u
      <3>1. u = TRUE
        BY <2>1
      <3>2. Copy(d, s, u).journal[FALSE] = d.journal[FALSE]
        BY <1>3, <1>4, <3>1
      <3>3. QED  BY <3>2
    <2>2. CASE ~u
      <3>1. u = FALSE
        BY <2>2
      <3>2. d.journal[FALSE] \in Journals
        BY <1>3
      <3>3. Copy(d, s, u).journal[FALSE] = [d.journal[FALSE] EXCEPT !.made = TRUE]
        BY <1>3, <1>4, <3>1
      <3>4. Copy(d, s, u).journal[FALSE].entries = d.journal[FALSE].entries
        BY <3>2, <3>3 DEF Journals
      <3>5. QED  BY <2>2, <3>4
    <2>3. QED  BY <2>1, <2>2
  <1>6. QED  BY <1>1, <1>3, <1>4, <1>5

LEMMA NextKeysKnown ==
  ASSUME MaxWrites = 0, Known, KeysKnown, [Next]_vars
  PROVE  KeysKnown'
  <1>0. TypeOK /\ TypeOK' /\ Settled /\ RunStart
    BY NextType DEF Known
  <1>1. CASE Stays
    BY <1>1 DEF Stays, SamePast, KeysKnown, Running
  <1>2. CASE Blanks
    BY <1>0, <1>2, BlanksDoes DEF KeysKnown
  <1>3. CASE SkipStep \/ CopyStep \/ RecreateKeys \/ Replay
    <2>1. db' = db /\ run'.keys = run.keys /\ Active
      BY <1>0, <1>3, SkipDoes, CopyDoes, AdditionDoes DEF SameRest
    <2>2. QED  BY <2>1 DEF KeysKnown, Running, Active
  <1>4. CASE ChangeStep
    <2>1. /\ db' = db /\ Active /\ run.phase = "apply"
          /\ run'.keys = IF Step.kind = "modify_column"
                           THEN run.keys \cup DroppedKeys(work, Step) ELSE run.keys
      BY <1>0, <1>4, ChangeStepDoes DEF SameRest
    <2>2. Step.kind = "modify_column" => DroppedKeys(work, Step) \subseteq Keys(work.deps)
      BY DEF DroppedKeys, Keys, AlterDependents, ColumnDependents
    <2>3. Keys(work.deps) \subseteq Keys(db.deps)
      BY <2>1 DEF Known, Undisturbed, NoNewKeys, Keys
    <2>4. run.keys \subseteq Keys(db.deps)
      BY <2>1 DEF KeysKnown, Running, Active
    <2>5. run'.keys \subseteq Keys(db.deps)
      BY <2>1, <2>2, <2>3, <2>4
    <2>6. QED  BY <2>1, <2>5 DEF KeysKnown
  <1>5. CASE Commit
    BY <1>0, <1>5, CommitDoes DEF KeysKnown
  <1>6. CASE CleansUp
    BY <1>0, <1>6, CleansUpDoes DEF KeysKnown
  <1>7. QED  BY <1>0, <1>1, <1>2, <1>3, <1>4, <1>5, <1>6, NextDoes

LEMMA NextReplayKnown ==
  ASSUME MaxWrites = 0, Known, ReplayKnown, [Next]_vars
  PROVE  ReplayKnown'
  <1>0. TypeOK /\ TypeOK' /\ Settled /\ RunStart
    BY NextType DEF Known
  <1>1. CASE Stays
    <2>1. run' = run /\ AllSteps' = AllSteps /\ Performed' = Performed
      BY <1>1, StaysDoes
    <2>2. QED  BY <2>1 DEF ReplayKnown, Running
  <1>2. CASE Blanks
    <2>1. run'.replay = {} /\ Performed' = {}
      BY <1>0, <1>2, BlanksDoes
    <2>2. QED  BY <2>1 DEF ReplayKnown
  <1>3. CASE SkipStep \/ CopyStep \/ RecreateKeys \/ Replay
    <2>1. AllSteps' = AllSteps /\ run'.replay = run.replay /\ Performed' = Performed /\ Active
      BY <1>0, <1>3, SkipDoes, CopyDoes, AdditionDoes DEF SameRest
    <2>2. Running
      BY <2>1 DEF Running, Active
    <2>3. QED  BY <2>1, <2>2 DEF ReplayKnown
  <1>4. CASE ChangeStep
    <2>1. /\ AllSteps' = AllSteps /\ Active /\ Performed' = Performed \cup {run.at}
          /\ run'.replay = IF Step.kind \in RestoreKinds THEN run.replay \cup {Step.num}
              ELSE run.replay
      BY <1>0, <1>4, ChangeStepDoes DEF SameRest
    <2>2. Running /\ Step = AllSteps[run.at]
      BY <2>1 DEF Running, Active, Step
    <2>3. run'.replay =
            {AllSteps[m].num : m \in {n \in Performed' : AllSteps[n].kind \in RestoreKinds}}
      BY <2>1, <2>2 DEF ReplayKnown
    <2>4. QED  BY <2>1, <2>3 DEF ReplayKnown
  <1>5. CASE Commit
    BY <1>0, <1>5, CommitDoes DEF ReplayKnown
  <1>6. CASE CleansUp
    BY <1>0, <1>6, CleansUpDoes DEF ReplayKnown
  <1>7. QED  BY <1>0, <1>1, <1>2, <1>3, <1>4, <1>5, <1>6, NextDoes

-----------------------------------------------------------------------------------------
(* The journal holds what the script's own drops collected.                 *)
LEMMA DroppedDepsScope ==
  ASSUME NEW d, NEW s, Copies(s), NEW x \in DroppedDeps(d, s)
  PROVE  x \in d.deps /\ x.kind \in Recreatable /\ InScope(x, s)
  BY DEF DroppedDeps, InScope, TableDependents, ColumnDependents, Copies

LEMMA ChangeEntries ==
  ASSUME Known, ChangeStep
  PROVE  /\ run.undo \/ ~Copies(Step) => work'.journal[FALSE] = work.journal[FALSE]
         /\ ~run.undo /\ Copies(Step) =>
              /\ work'.journal[FALSE].made = work.journal[FALSE].made
              /\ EntryNumbers(work) \subseteq EntryNumbers(work')
              /\ \A j \in EntryNumbers(work') :
                   \/ j \in EntryNumbers(work) /\ Entry(work', j) = Entry(work, j)
                   \/ Entry(work', j) = [step |-> run.at, deps |-> DroppedDeps(work, Step)]
              /\ \A j \in EntryNumbers(work) : Entry(work', j) = Entry(work, j)
              /\ \E j \in EntryNumbers(work') :
                   Entry(work', j) = [step |-> run.at, deps |-> DroppedDeps(work, Step)]
  <1>1. TypeOK /\ TypeOK' /\ work \in Databases /\ work' \in Databases
    BY ScriptStepType DEF Known, ScriptStep, TypeOK
  <1>2. work' = Changed(work, Step)
    BY <1>1, ChangeStepDoes
  <1>3. /\ run.undo \/ ~Copies(Step) => work'.journal[FALSE] = work.journal[FALSE]
        /\ ~run.undo /\ Copies(Step) =>
             /\ work'.journal[FALSE].made = work.journal[FALSE].made
             /\ work'.journal[FALSE].entries = Append(work.journal[FALSE].entries,
                                      [step |-> run.at, deps |-> DroppedDeps(work, Step)])
    BY <1>1, <1>2, ChangedJournal
  <1>4. ASSUME ~run.undo, Copies(Step)
        PROVE  /\ EntryNumbers(work) \subseteq EntryNumbers(work')
               /\ \A j \in EntryNumbers(work') :
                    \/ j \in EntryNumbers(work) /\ Entry(work', j) = Entry(work, j)
                    \/ Entry(work', j) = [step |-> run.at, deps |-> DroppedDeps(work, Step)]
               /\ \A j \in EntryNumbers(work) : Entry(work', j) = Entry(work, j)
               /\ \E j \in EntryNumbers(work') :
                    Entry(work', j) = [step |-> run.at, deps |-> DroppedDeps(work, Step)]
    <2> DEFINE new == [step |-> run.at, deps |-> DroppedDeps(work, Step)]
    <2>1. work'.journal[FALSE].entries = Append(work.journal[FALSE].entries, new)
      BY <1>3, <1>4
    <2> HIDE DEF new
    <2>2. /\ EntryNumbers(work) \subseteq EntryNumbers(work')
          /\ \A j \in EntryNumbers(work') : \/ j \in EntryNumbers(work)
                                               /\ Entry(work', j) = Entry(work, j)
                                            \/ Entry(work', j) = new
          /\ \A j \in EntryNumbers(work) : Entry(work', j) = Entry(work, j)
          /\ \E j \in EntryNumbers(work') : Entry(work', j) = new
      BY <1>1, <2>1, EntryAppended
    <2>3. QED  BY <2>2 DEF new
  <1>5. QED  BY <1>3, <1>4

LEMMA NextEntriesOk ==
  ASSUME MaxWrites = 0, Known, EntriesOk(db), EntriesOk(work), [Next]_vars
  PROVE  EntriesOk(db)' /\ EntriesOk(work)'
  <1>0. TypeOK /\ TypeOK' /\ Settled /\ RunStart /\ FromDecisions
    BY NextType DEF Known
  <1>1. CASE Stays
    BY <1>1, StaysDoes DEF EntriesOk, EntryNumbers, Entry
  <1>2. CASE Blanks
    <2>1. script' = script /\ db' = db /\ work' = db
      BY <1>0, <1>2, BlanksDoes
    <2>2. QED  BY <2>1 DEF EntriesOk, EntryNumbers, Entry
  <1>3. CASE SkipStep \/ CopyStep \/ RecreateKeys \/ Replay
    <2>1. script' = script /\ db' = db /\ work'.journal[FALSE].entries = work.journal[FALSE].entries
      <3>1. CASE CopyStep
        <4>1. work \in Databases /\ Step \in Steps /\ run.undo \in BOOLEAN
          BY <1>0, AtStep
        <4>2. work' = Copy(work, Step, run.undo) /\ script' = script /\ db' = db
          BY <1>0, <3>1, CopyDoes DEF SameRest
        <4>3. QED  BY <4>1, <4>2, CopyJournal
      <3>2. QED  BY <1>0, <1>3, <3>1, SkipDoes, AdditionDoes DEF SameRest
    <2>2. EntriesOk(work') /\ EntriesOk(db')
      BY <2>1, SameEntries
    <2>3. QED  BY <2>1, <2>2 DEF EntriesOk, EntryNumbers, Entry
  <1>4. CASE ChangeStep
    <2>1. script' = script /\ db' = db /\ run.at \in 1 .. Len(script)
      BY <1>0, <1>4, ChangeStepDoes DEF SameRest, TypeOK
    <2>2. CASE run.undo \/ ~Copies(Step)
      <3>1. work'.journal[FALSE] = work.journal[FALSE]
        BY <1>4, <2>2, ChangeEntries
      <3>2. EntriesOk(work')
        BY <3>1, SameJournal
      <3>3. QED  BY <2>1, <3>2 DEF EntriesOk, EntryNumbers, Entry
    <2>3. CASE ~run.undo /\ Copies(Step)
      <3>1. Step = script[run.at]
        BY <2>3 DEF Step, AllSteps
      <3> DEFINE new == [step |-> run.at, deps |-> DroppedDeps(work, Step)]
      <3>2. \A j \in EntryNumbers(work') :
              \/ j \in EntryNumbers(work) /\ Entry(work', j) = Entry(work, j)
              \/ Entry(work', j) = new
        BY <1>4, <2>3, ChangeEntries
      <3>3. ASSUME NEW j \in EntryNumbers(work')
            PROVE  /\ Entry(work', j).step \in 1 .. Len(script)
                   /\ Copies(script[Entry(work', j).step])
                   /\ \A x \in Entry(work', j).deps :
                        x.kind \in Recreatable /\ InScope(x, script[Entry(work', j).step])
        <4>1. CASE Entry(work', j) = new
          BY <2>1, <2>3, <3>1, <4>1, DroppedDepsScope
        <4>2. CASE j \in EntryNumbers(work) /\ Entry(work', j) = Entry(work, j)
          BY <4>2 DEF EntriesOk
        <4>3. QED  BY <3>2, <4>1, <4>2
      <3>4. EntriesOk(work')
        BY <3>3 DEF EntriesOk
      <3>5. QED  BY <2>1, <3>4 DEF EntriesOk, EntryNumbers, Entry
    <2>4. QED  BY <2>2, <2>3
  <1>5. CASE Commit
    <2>1. script' = script /\ db' = work /\ work' = work
      BY <1>0, <1>5, CommitDoes
    <2>2. QED  BY <2>1 DEF EntriesOk, EntryNumbers, Entry
  <1>6. CASE CleansUp
    <2>1. /\ script' = script /\ work' = db'
          /\ db'.journal[FALSE] = db.journal[FALSE] \/ db'.journal[FALSE] = NoJournal
      BY <1>0, <1>6, CleansUpDoes
    <2>2. EntriesOk(db')
      BY <2>1, SameJournal, EmptyJournal DEF EntriesOk
    <2>3. QED  BY <2>1, <2>2 DEF EntriesOk, EntryNumbers, Entry
  <1>7. QED  BY <1>0, <1>1, <1>2, <1>3, <1>4, <1>5, <1>6, NextDoes

(* What is to be replayed is replayed before the verification.              *)
AllReplayed == run.phase = "verify" => Replayed(work) \subseteq work.deps

LEMMA NextAllReplayed ==
  ASSUME MaxWrites = 0, Known, AllReplayed, [Next]_vars
  PROVE  AllReplayed'
  <1>0. TypeOK /\ TypeOK' /\ Settled /\ RunStart
    BY NextType DEF Known
  <1>1. CASE Stays
    BY <1>1, StaysDoes DEF AllReplayed, Replayed, ReplayedEntries
  <1>2. CASE Blanks
    <2>1. run'.replay = {}
      BY <1>0, <1>2, BlanksDoes
    <2>2. QED  BY <2>1 DEF AllReplayed, Replayed, ReplayedEntries
  <1>3. CASE SkipStep \/ CopyStep \/ ChangeStep \/ RecreateKeys
    <2>1. run'.phase # "verify"
      BY <1>0, <1>3, SkipDoes, CopyDoes, ChangeStepDoes, AdditionDoes
    <2>2. QED  BY <2>1 DEF AllReplayed
  <1>4. CASE Replay
    <2>1. /\ work'.deps = work.deps \cup Recreated /\ work'.journal = work.journal
          /\ run'.replay = run.replay /\ Recreated = Replayed(work)
      BY <1>0, <1>4, AdditionDoes DEF Recreated
    <2>2. Replayed(work)' = Replayed(work)
      BY <2>1 DEF Replayed, ReplayedEntries
    <2>3. QED  BY <2>1, <2>2 DEF AllReplayed
  <1>5. CASE Commit
    BY <1>0, <1>5, CommitDoes DEF AllReplayed
  <1>6. CASE CleansUp
    BY <1>0, <1>6, CleansUpDoes DEF AllReplayed, Active
  <1>7. QED  BY <1>0, <1>1, <1>2, <1>3, <1>4, <1>5, <1>6, NextDoes

-----------------------------------------------------------------------------------------
(* What is replayed, an undo step that was carried out had dropped.         *)
LEMMA RestoringStep ==
  ASSUME Known, Running, NEW m \in Performed, AllSteps[m].kind \in RestoreKinds
  PROVE  /\ run.undo /\ m \in 1 .. Len(script) /\ Undone(m) \in 1 .. Len(script)
         /\ AllSteps[m] \in Steps /\ AllSteps[m].num = Undone(m)
         /\ Undoes(AllSteps[m], script[Undone(m)], Undone(m))
         /\ Copies(script[Undone(m)])
  <1>1. TypeOK /\ FromDecisions /\ m \in 1 .. Len(script)
    BY DEF Known, Performed
  <1>2. run.undo
    BY <1>1, RunStep DEF ForwardKinds, RestoreKinds
  <1>3. AllSteps[m] \in Steps /\ Undoes(AllSteps[m], script[Undone(m)], Undone(m))
    BY <1>1, <1>2, RunStep
  <1>4. Undone(m) \in 1 .. Len(script)
    BY <1>1, UndoStepFacts
  <1>5. AllSteps[m].num = Undone(m) /\ Copies(script[Undone(m)])
    BY <1>3 DEF Undoes, RestoreKinds, Copies
  <1>6. QED  BY <1>1, <1>2, <1>3, <1>4, <1>5

LEMMA ReplayedScope ==
  ASSUME Known, ToRecreateKnown, Running, NEW x \in Replayed(work)
  PROVE  \E m \in Performed :
           /\ AllSteps[m].kind \in RestoreKinds
           /\ x.kind \in Recreatable /\ InScope(x, script[Undone(m)])
           /\ \E j \in EntryNumbers(work) : x \in Entry(work, j).deps
               /\ Entry(work, j).step = Undone(m)
  <1>1. PICK j \in EntryNumbers(work) : x \in Entry(work, j).deps
      /\ Entry(work, j).step \in run.replay
    BY DEF Replayed, ReplayedEntries, EntryNumbers, Entry
  <1>2. run.replay = {AllSteps[m].num : m \in {n \in Performed : AllSteps[n].kind \in RestoreKinds}}
    BY DEF ToRecreateKnown, ReplayKnown
  <1>3. PICK m \in Performed : AllSteps[m].kind \in RestoreKinds
      /\ Entry(work, j).step = AllSteps[m].num
    BY <1>1, <1>2
  <1>4. AllSteps[m].num = Undone(m)
    BY <1>3, RestoringStep
  <1>5. x.kind \in Recreatable /\ InScope(x, script[Undone(m)])
    BY <1>1, <1>3, <1>4 DEF ToRecreateKnown, EntriesOk
  <1>6. QED  BY <1>1, <1>3, <1>4, <1>5

LEMMA RecreatedTouched ==
  ASSUME Known, ToRecreateKnown, Running, RecreateKeys \/ Replay,
         NEW x \in Recreated, x.kind = "default", NEW c \in Columns, x.cols = {c}
  PROVE  \E s \in Done : Touches(s, x.tbl, c)
  <1>1. CASE run.phase = "keys"
    <2>1. x \in Keys(db.deps)
      BY <1>1 DEF Recreated, ToRecreateKnown, KeysKnown
    <2>2. QED  BY <2>1 DEF Keys
  <1>2. CASE run.phase # "keys"
    <2>1. x \in Replayed(work)
      BY <1>2 DEF Recreated
    <2>2. PICK m \in Performed : /\ AllSteps[m].kind \in RestoreKinds
                                 /\ InScope(x, script[Undone(m)])
      BY <2>1, ReplayedScope
    <2>3. Undoes(AllSteps[m], script[Undone(m)], Undone(m)) /\ Copies(script[Undone(m)])
      BY <2>2, RestoringStep
    <2>4. Touches(AllSteps[m], x.tbl, c)
      BY <2>2, <2>3 DEF InScope, OnTable, OnColumn, Touches, TableKinds, Undoes, Copies,
         RestoreKinds
    <2>5. AllSteps[m] \in Done
      BY DEF Done
    <2>6. QED  BY <2>4, <2>5
  <1>3. QED  BY <1>1, <1>2

LEMMA SameDone ==
  ASSUME AllSteps' = AllSteps, Performed' = Performed
  PROVE  Done' = Done
  BY DEF Done

(* A run has touched only what its steps are about.                         *)
LEMMA NextRunFrame ==
  ASSUME MaxWrites = 0, Known, ToRecreateKnown, RunFrame, [Next]_vars
  PROVE  RunFrame'
  <1>0. TypeOK /\ TypeOK' /\ Settled /\ RunStart
    BY NextType DEF Known
  <1>1. CASE Stays
    <2>1. db' = db /\ work' = work /\ Done' = Done
      BY <1>1, StaysDoes, SameDone
    <2>2. QED  BY <2>1 DEF RunFrame
  <1>2. CASE Blanks \/ Commit \/ CleansUp
    <2>1. work' = db'
      <3>1. CASE Blanks
        BY <1>0, <3>1, BlanksDoes
      <3>2. CASE Commit
        BY <1>0, <3>2, CommitDoes
      <3>3. CASE CleansUp
        BY <1>0, <3>3, CleansUpDoes
      <3>4. QED  BY <1>2, <3>1, <3>2, <3>3
    <2>2. Frame(db', db', Done')
      BY SameFrame
    <2>3. QED  BY <2>1, <2>2 DEF RunFrame
  <1>3. CASE SkipStep \/ CopyStep
    <2>1. /\ db' = db /\ Done' = Done
          /\ work'.cols = work.cols /\ work'.rows = work.rows /\ work'.deps = work.deps
      BY <1>0, <1>3, SkipDoes, CopyDoes, SameDone DEF SameRest
    <2>2. Frame(work, work', Done)
      BY <2>1, SameSchemaFrame
    <2>3. Frame(db, work', Done \cup Done)
      BY <2>2, NextFrame DEF RunFrame
    <2>4. Done \cup Done = Done
      OBVIOUS
    <2>5. QED  BY <2>1, <2>3, <2>4 DEF RunFrame
  <1>4. CASE ChangeStep
    <2>1. /\ db' = db /\ work' = Changed(work, Step) /\ CanChange(work, Step)
          /\ AllSteps' = AllSteps /\ Performed' = Performed \cup {run.at}
      BY <1>0, <1>4, ChangeStepDoes DEF SameRest
    <2>2. Done' = Done \cup {Step}
      BY <2>1 DEF Done, Step
    <2>3. Frame(work, work', {Step})
      BY <1>0, <2>1, ChangeFrame
    <2>4. Frame(db, work', Done \cup {Step})
      BY <2>3, NextFrame DEF RunFrame
    <2>5. QED  BY <2>1, <2>2, <2>4 DEF RunFrame
  <1>5. CASE RecreateKeys \/ Replay
    <2>1. db' = db /\ work' = AddAll(work, Recreated) /\ Done' = Done /\ Running
      BY <1>0, <1>5, AdditionDoes, SameDone DEF SameRest, Active, Running
    <2>2. \A x \in Recreated : x.kind = "default" =>
             \A c \in Columns : x.cols = {c} => \E s \in Done : Touches(s, x.tbl, c)
      BY <1>5, <2>1, RecreatedTouched
    <2>3. Frame(work, AddAll(work, Recreated), Done)
      BY <1>0, <2>2, AddAllFrame DEF TypeOK
    <2>4. Frame(db, work', Done \cup Done)
      BY <2>1, <2>3, NextFrame DEF RunFrame
    <2>5. Done \cup Done = Done
      OBVIOUS
    <2>6. QED  BY <2>1, <2>4, <2>5 DEF RunFrame
  <1>6. QED  BY <1>0, <1>1, <1>2, <1>3, <1>4, <1>5, NextDoes

(* Every step of a run is about what a step of the script is about.         *)
LEMMA DoneCovered ==
  ASSUME Known, NEW s \in Done
  PROVE  \E u \in ScriptSteps : /\ \A t \in Tables, c \in Columns : Touches(s, t, c)
                                   => Touches(u, t, c)
                                /\ \A t \in Tables : Retables(s, t) => Retables(u, t)
  <1>1. PICK m \in 1 .. Len(script) : s = AllSteps[m]
    BY DEF Done, Performed
  <1>2. TypeOK /\ FromDecisions
    BY DEF Known
  <1>3. CASE ~run.undo
    BY <1>1, <1>2, <1>3, RunStep DEF ScriptSteps
  <1>4. CASE run.undo
    <2>1. Undone(m) \in 1 .. Len(script) /\ Undoes(s, script[Undone(m)], Undone(m))
      BY <1>1, <1>2, <1>4, RunStep, UndoStepFacts
    <2> DEFINE op == script[Undone(m)]
    <2>2. op \in ScriptSteps
      BY <2>1 DEF ScriptSteps
    <2>3. s.tbl = op.tbl /\ s.col = op.col /\ (s.kind \in TableKinds => op.kind \in TableKinds)
      BY <2>1 DEF Undoes, TableKinds, UndoKinds
    <2>4. QED  BY <2>2, <2>3 DEF Touches, Retables
  <1>5. QED  BY <1>3, <1>4

(* What the script touched since it met the database it changed.            *)
LEMMA CoveredFrame ==
  ASSUME Known, RunFrame, NEW d, Frame(d, db, ScriptSteps)
  PROVE  Frame(d, work, ScriptSteps)
  <1>1. Frame(db, work, Done)
    BY DEF RunFrame
  <1>2. \A s \in ScriptSteps \cup Done : \E u \in ScriptSteps :
            /\ \A t \in Tables, c \in Columns : Touches(s, t, c) => Touches(u, t, c)
            /\ \A t \in Tables : Retables(s, t) => Retables(u, t)
    BY DoneCovered
  <1>3. QED  BY <1>1, <1>2, FrameThen

LEMMA CommitFrame ==
  ASSUME Known, RunFrame, OriginFrame, Commit
  PROVE  Frame(past'.origin, db', ScriptSteps)
  <1>1. db' = work /\ past'.origin \in {past.origin, db}
    BY CommitDoes DEF Known
  <1>2. Frame(db, db, ScriptSteps) /\ Frame(past.origin, db, ScriptSteps)
    BY SameFrame DEF OriginFrame
  <1>3. Frame(db, work, ScriptSteps) /\ Frame(past.origin, work, ScriptSteps)
    BY <1>2, CoveredFrame
  <1>4. QED  BY <1>1, <1>3

LEMMA NextOriginFrame ==
  ASSUME MaxWrites = 0, Known, RunFrame, OriginFrame, [Next]_vars
  PROVE  OriginFrame'
  <1>0. TypeOK /\ TypeOK' /\ Settled /\ RunStart
    BY NextType DEF Known
  <1>1. CASE Commit
    <2>1. script' = script
      BY <1>0, <1>1, CommitDoes
    <2>2. ScriptSteps' = ScriptSteps
      BY <2>1 DEF ScriptSteps
    <2>3. QED  BY <1>1, <2>2, CommitFrame DEF OriginFrame
  <1>2. CASE CleansUp
    <2>1. /\ script' = script /\ past' = past
          /\ db'.cols = db.cols /\ db'.rows = db.rows /\ db'.deps = db.deps
      BY <1>0, <1>2, CleansUpDoes
    <2>2. ScriptSteps' = ScriptSteps
      BY <2>1 DEF ScriptSteps
    <2>3. Frame(db, db', ScriptSteps)
      BY <2>1, SameSchemaFrame
    <2>4. Frame(past.origin, db', ScriptSteps \cup ScriptSteps)
      BY <2>3, NextFrame DEF OriginFrame
    <2>5. ScriptSteps \cup ScriptSteps = ScriptSteps
      OBVIOUS
    <2>6. QED  BY <2>1, <2>2, <2>4, <2>5 DEF OriginFrame
  <1>3. CASE Stays \/ Blanks \/ SkipStep \/ CopyStep \/ ChangeStep \/ RecreateKeys \/ Replay
    <2>1. script' = script /\ db' = db /\ past'.origin = past.origin
      BY <1>0, <1>3, StaysDoes, BlanksDoes, SkipDoes, CopyDoes, ChangeStepDoes, AdditionDoes
         DEF SameRest
    <2>2. ScriptSteps' = ScriptSteps
      BY <2>1 DEF ScriptSteps
    <2>3. QED  BY <2>1, <2>2 DEF OriginFrame
  <1>4. QED  BY <1>0, <1>1, <1>2, <1>3, NextDoes

-----------------------------------------------------------------------------------------
(* An undo script with something to replay undoes a script just applied.    *)
LEMMA UndoingIs ==
  ASSUME Known, UndoStarted, Running, run.undo, ~Again
  PROVE  Undoing
  BY DEF Known, TypeOK, Histories, UndoStarted, Again, Undoing

LEMMA ReplayUndoes ==
  ASSUME Known, ToRecreateKnown, Running, NEW x \in Replayed(work)
  PROVE  Undoing /\ InJournal(work, x)
  <1>1. PICK m \in Performed : /\ AllSteps[m].kind \in RestoreKinds
                               /\ \E j \in EntryNumbers(work) : x \in Entry(work, j).deps
    BY ReplayedScope
  <1>2. run.undo
    BY <1>1, RestoringStep
  <1>3. run.replay # {}
    BY DEF Replayed, ReplayedEntries
  <1>4. ~Again
    BY <1>3 DEF Known, NothingToDo
  <1>5. QED  BY <1>1, <1>2, <1>4, UndoingIs DEF InJournal, ToRecreateKnown

(* What a run adds to the dependents: defaults, and in the end what an undo *)
(* script replays.                                                          *)
LEMMA NextGained ==
  ASSUME MaxWrites = 0, Known, ToRecreateKnown, Gained, [Next]_vars
  PROVE  Gained'
  <1>0. TypeOK /\ TypeOK' /\ Settled /\ RunStart
    BY NextType DEF Known
  <1>1. CASE Stays
    <2>1. /\ db' = db /\ work' = work /\ run' = run /\ past'.state = past.state
      BY <1>1, StaysDoes
    <2>2. QED  BY <2>1 DEF Gained, Active, Undoing, Running, InJournal, EntryNumbers, Entry
  <1>2. CASE Blanks
    BY <1>0, <1>2, BlanksDoes DEF Gained
  <1>3. CASE SkipStep \/ CopyStep
    <2>1. /\ db' = db /\ Active /\ run.phase = "apply" /\ work'.deps = work.deps
      BY <1>0, <1>3, SkipDoes, CopyDoes DEF SameRest
    <2>2. QED  BY <2>1 DEF Gained
  <1>4. CASE ChangeStep
    <2>1. /\ db' = db /\ Active /\ run.phase = "apply" /\ work' = Changed(work, Step)
      BY <1>0, <1>4, ChangeStepDoes DEF SameRest
    <2>2. \A x \in work'.deps \ work.deps : x.kind = "default"
      BY <1>0, <2>1, ChangedDeps
    <2>3. QED  BY <2>1, <2>2 DEF Gained
  <1>5. CASE RecreateKeys
    <2>1. /\ db' = db /\ Active /\ run.phase = "keys" /\ work'.deps = work.deps \cup run.keys
      BY <1>0, <1>5, AdditionDoes DEF SameRest, Recreated
    <2>2. run.keys \subseteq db.deps
      BY <2>1 DEF ToRecreateKnown, KeysKnown, Keys, Running
    <2>3. QED  BY <2>1, <2>2 DEF Gained
  <1>6. CASE Replay
    <2>1. /\ db' = db /\ Active /\ run.phase = "replay"
          /\ work'.deps = work.deps \cup Replayed(work)
          /\ work'.journal = work.journal /\ run'.phase = "verify" /\ run'.undo = run.undo
          /\ past' = past
      BY <1>0, <1>6, AdditionDoes DEF SameRest, Recreated
    <2>2. Running /\ Running'
      BY <2>1 DEF Running
    <2>3. \A x \in Replayed(work) : Undoing /\ InJournal(work, x)
      BY <2>2, ReplayUndoes
    <2>4. \A x \in Replayed(work) : Undoing' /\ InJournal(work', x)
      BY <2>1, <2>2, <2>3 DEF Undoing, InJournal, EntryNumbers, Entry
    <2>5. \A x \in work.deps \ db.deps : x.kind = "default"
      BY <2>1 DEF Gained
    <2>6. QED  BY <2>1, <2>4, <2>5 DEF Gained
  <1>7. CASE Commit \/ CleansUp
    BY <1>0, <1>7, CommitDoes, CleansUpDoes DEF Gained
  <1>8. QED  BY <1>0, <1>1, <1>2, <1>3, <1>4, <1>5, <1>6, <1>7, NextDoes

(* Until a column is added or changed only created tables have gained any.  *)
LEMMA NextOnCreated ==
  ASSUME MaxWrites = 0, Known, OnCreated, [Next]_vars
  PROVE  OnCreated'
  <1>0. TypeOK /\ TypeOK' /\ Settled /\ RunStart
    BY NextType DEF Known
  <1>1. CASE Stays
    <2>1. /\ db' = db /\ work' = work /\ run' = run /\ past'.state = past.state /\ script' = script
      BY <1>1, StaysDoes
    <2>2. QED  BY <2>1 DEF OnCreated, Forward, Running, Earlier, Exists, HasColumn
  <1>2. CASE Blanks
    BY <1>0, <1>2, BlanksDoes DEF OnCreated
  <1>3. CASE CopyStep \/ SkipStep
    <2>1. /\ db' = db /\ script' = script /\ past' = past /\ run'.undo = run.undo
          /\ run.phase = "apply" /\ work'.deps = work.deps
          /\ run'.phase = "apply" => run'.at \in {run.at, run.at + 1}
      BY <1>0, <1>3, SkipDoes, CopyDoes DEF SameRest
    <2>2. run.at \in Nat /\ (run'.phase = "apply" => Earlier \subseteq Earlier')
      <3>1. run.at \in Nat /\ run'.at \in Nat
        BY <1>0 DEF TypeOK, Runs
      <3>2. QED  BY <2>1, <3>1 DEF Earlier
    <2>3. Forward' => Forward
      BY <2>1 DEF Forward, Running
    <2>4. QED  BY <2>1, <2>2, <2>3 DEF OnCreated, Exists, HasColumn
  <1>4. CASE ChangeStep
    <2> SUFFICES ASSUME Forward', run'.phase = "apply",
                        (\A m \in Earlier : script[m].kind \notin ColumnKinds)',
                        NEW x \in work'.deps, x \notin db'.deps
                 PROVE  ~Exists(db, x.tbl)'
      BY DEF OnCreated
    <2>1. /\ db' = db /\ script' = script /\ past' = past /\ run'.undo = run.undo
          /\ run.phase = "apply" /\ work' = Changed(work, Step) /\ run'.at = run.at + 1 /\ Applying
      BY <1>0, <1>4, ChangeStepDoes DEF SameRest
    <2>2. Forward /\ Step = script[run.at] /\ run.at \in 1 .. Len(script)
      BY <1>0, <2>1 DEF Forward, Running, Step, AllSteps, TypeOK
    <2>3. Earlier' = Earlier \cup {run.at}
      <3>1. run.at \in Nat /\ run.at >= 1
        BY <1>0 DEF TypeOK, Runs
      <3>2. QED  BY <2>1, <3>1 DEF Earlier
    <2>4. (\A m \in Earlier : script[m].kind \notin ColumnKinds) /\ Step.kind \notin ColumnKinds
      BY <2>1, <2>2, <2>3
    <2>5. CASE x \in work.deps
      BY <2>1, <2>2, <2>4, <2>5 DEF OnCreated, Exists, HasColumn
    <2>6. CASE x \notin work.deps
      <3>1. Step.kind = "create_table" /\ x \in MadeDefaults(Step)
        BY <1>0, <2>1, <2>4, <2>6, ChangeGainsOnly DEF ColumnKinds
      <3>2. Step \in Steps
        BY <1>0, AtStep
      <3>3. x.tbl = Step.tbl
        BY <3>1, <3>2, MadeDefaultsOn
      <3>4. Check(db, Step, run.undo) = "go"
        BY <1>0, <2>1, StepChecked DEF Known, Undisturbed
      <3>5. ~Exists(db, Step.tbl)
        BY <3>1, <3>2, <3>4, GoNeeds
      <3>6. QED  BY <2>1, <3>3, <3>5
    <2>7. QED  BY <2>5, <2>6
  <1>5. CASE RecreateKeys \/ Replay
    BY <1>0, <1>5, AdditionDoes DEF OnCreated
  <1>6. CASE Commit \/ CleansUp
    BY <1>0, <1>6, CommitDoes, CleansUpDoes DEF OnCreated, Forward
  <1>7. QED  BY <1>0, <1>1, <1>2, <1>3, <1>4, <1>5, <1>6, NextDoes

(* What the forward script's drops collect was there when it started.       *)
LEMMA DropsOldOnly ==
  ASSUME Known, Gained, OnCreated, Forward, run.phase = "apply", Applying, Copies(Step),
         NEW x \in DroppedDeps(work, Step)
  PROVE  x \in db.deps
  <1>1. /\ TypeOK /\ FromDecisions /\ Active /\ Step = script[run.at] /\ run.at \in 1 .. Len(script)
        /\ Step \in Steps
    BY AtStep DEF Known, TypeOK, Active, Forward, Step, AllSteps
  <1>2. x \in work.deps /\ InScope(x, Step)
    BY DroppedDepsScope
  <1> SUFFICES ASSUME x \notin db.deps PROVE FALSE
    OBVIOUS
  <1>3. x.kind = "default"
    BY <1>1, <1>2 DEF Gained, Undoing, Forward
  <1>4. x.tbl = Step.tbl
    BY <1>2, <1>3 DEF InScope, OnTable, OnColumn
  <1>5. \A m \in Earlier : m \in 1 .. Len(script) /\ m < run.at
    BY <1>1 DEF TypeOK, Earlier
  <1>6. \A m \in Earlier : script[m].kind \notin ColumnKinds
    BY <1>1, <1>5, DropOrder DEF Copies, ColumnKinds
  <1>7. ~Exists(db, Step.tbl)
    BY <1>2, <1>4, <1>6 DEF OnCreated
  <1>8. Check(db, Step, run.undo) = "go"
    BY <1>1, StepChecked DEF Known, Undisturbed
  <1>9. Exists(db, Step.tbl)
    BY <1>1, <1>8, GoNeeds DEF Copies, Exists, Steps
  <1>10. QED  BY <1>7, <1>9

-----------------------------------------------------------------------------------------
(* An undo script of what was just applied carries out what it restores.    *)
LEMMA UndoneDropGoes ==
  ASSUME Known, Undoing, Active, NEW n \in 1 .. Len(script), Copies(script[n])
  PROVE  /\ Undone(n) \in 1 .. Len(script) /\ Undone(Undone(n)) = n
         /\ Undone(n) \notin run.skip /\ AllSteps[Undone(n)].kind \in RestoreKinds
         /\ Undoes(AllSteps[Undone(n)], script[n], n)
         /\ Check(db, AllSteps[Undone(n)], TRUE) = "go"
  <1> DEFINE m == Undone(n)
             s == AllSteps[m]
             op == script[n]
  <1>1. TypeOK /\ FromDecisions /\ run.undo /\ ChecksPassed
    BY DEF Known, Undoing, Undisturbed
  <1>2. m \in 1 .. Len(script) /\ Undone(m) = n
    BY <1>1, UndoStepFacts
  <1>3. Undoes(s, op, n) /\ s \in Steps
    BY <1>1, <1>2, RunStep
  <1>4. m \in Passed
    BY <1>2 DEF Passed
  <1>5. Check(db, s, TRUE) = IF m \in run.skip THEN "skip" ELSE "go"
    BY <1>1, <1>4 DEF ChecksPassed, TypeOK, Runs
  <1> HIDE DEF s, m
  <1>6. s.kind \in {"restore_table", "restore_column", "unsupported"}
    BY <1>3 DEF Undoes, UndoKinds, Copies
  <1>7. s.kind # "unsupported"
    BY <1>3, <1>5, UnsupportedAborts
  <1>8. Goal(db, op)
    BY DEF Known, AllApplied, AppliedSteps, Undoing
  <1>9. Check(db, s, TRUE) # "skip"
    <2>1. CASE s.kind = "restore_table"
      <3>1. op.kind = "drop_table" /\ s.tbl = op.tbl
        BY <1>3, <2>1 DEF Undoes
      <3>2. ~Exists(db, s.tbl)
        BY <1>8, <3>1 DEF Goal
      <3>3. Check(db, s, TRUE) = CheckRestoreTable(db, s)
        BY <2>1 DEF Check
      <3>4. QED  BY <3>2, <3>3 DEF CheckRestoreTable
    <2>2. CASE s.kind = "restore_column"
      <3>1. op.kind = "drop_column" /\ s.tbl = op.tbl /\ s.col = op.col
        BY <1>3, <2>2 DEF Undoes
      <3>2. ~HasColumn(db, s.tbl, s.col)
        BY <1>8, <3>1 DEF Goal
      <3>3. Check(db, s, TRUE) = CheckRestoreColumn(db, s)
        BY <2>2 DEF Check
      <3>4. QED  BY <3>2, <3>3 DEF CheckRestoreColumn, ColumnIs
    <2>3. QED  BY <1>6, <1>7, <2>1, <2>2
  <1>10. m \notin run.skip /\ Check(db, s, TRUE) = "go"
    BY <1>5, <1>9
  <1>11. s.kind \in RestoreKinds
    BY <1>6, <1>7 DEF RestoreKinds
  <1>12. QED  BY <1>2, <1>3, <1>10, <1>11 DEF s, m

LEMMA JournalReplayed ==
  ASSUME Known, ToRecreateKnown, AllReplayed, Undoing, run.phase = "verify"
  PROVE  JournalWithin(work, work.deps)
  <1>1. Active /\ Running /\ EntriesOk(work)
    BY DEF Active, Running, ToRecreateKnown
  <1>2. ASSUME NEW j \in EntryNumbers(work), NEW x \in Entry(work, j).deps
        PROVE  x \in work.deps
    <2> DEFINE n == Entry(work, j).step
    <2>1. n \in 1 .. Len(script) /\ Copies(script[n])
      BY <1>1 DEF EntriesOk
    <2>2. /\ Undone(n) \in 1 .. Len(script) /\ Undone(n) \notin run.skip /\ Undone(Undone(n)) = n
          /\ AllSteps[Undone(n)].kind \in RestoreKinds
      BY <1>1, <2>1, UndoneDropGoes
    <2>3. Undone(n) \in Performed
      BY <1>1, <2>2 DEF Performed
    <2>4. AllSteps[Undone(n)].num = n
      BY <1>1, <2>2, <2>3, RestoringStep
    <2>5. n \in run.replay
      BY <1>1, <2>2, <2>3, <2>4 DEF ToRecreateKnown, ReplayKnown
    <2>6. x \in Replayed(work)
      BY <2>5 DEF Replayed, ReplayedEntries, EntryNumbers, Entry
    <2>7. QED  BY <2>6 DEF AllReplayed
  <1>3. QED  BY <1>2 DEF JournalWithin

JournalBound == IF past.state = "applied" THEN past.origin.deps ELSE db.deps
JournalsHold ==
  /\ JournalWithin(db, JournalBound)
  /\ Forward => JournalWithin(work, db.deps)
  /\ Undoing => work.journal[FALSE] = db.journal[FALSE]

LEMMA CommitJournals ==
  ASSUME Known, ToRecreateKnown, AllReplayed, JournalsHold, Commit
  PROVE  JournalsHold'
  <1>1. /\ run.phase = "verify" /\ Running /\ db' = work /\ ~Running'
        /\ run.undo => past'.state = "undone"
        /\ ~run.undo => past'.state = "applied"
        /\ ~run.undo /\ past.state = "applied" => past'.origin = past.origin
        /\ ~run.undo /\ past.state # "applied" => past'.origin = db
    BY CommitDoes DEF Known
  <1>2. JournalWithin(work, JournalBound')
    <2>1. CASE Again
      <3>1. work = db
        BY <2>1 DEF Known, NothingToDo
      <3>2. JournalBound' = JournalBound
        BY <1>1, <2>1, <3>1 DEF JournalBound, Again
      <3>3. QED  BY <3>1, <3>2 DEF JournalsHold
    <2>2. CASE ~Again /\ run.undo
      <3>1. Undoing
        BY <1>1, <2>2, UndoingIs DEF ToRecreateKnown
      <3>2. JournalWithin(work, work.deps)
        BY <1>1, <3>1, JournalReplayed
      <3>3. JournalBound' = work.deps
        BY <1>1, <2>2 DEF JournalBound
      <3>4. QED  BY <3>2, <3>3
    <2>3. CASE ~Again /\ ~run.undo
      <3>1. Forward
        BY <1>1, <2>3 DEF Forward, Again
      <3>2. JournalBound' = db.deps
        BY <1>1, <2>3, <3>1 DEF JournalBound, Forward
      <3>3. QED  BY <3>1, <3>2 DEF JournalsHold
    <2>4. QED  BY <2>1, <2>2, <2>3
  <1>3. JournalWithin(db, JournalBound)'
    BY <1>1, <1>2 DEF JournalWithin, EntryNumbers, Entry
  <1>4. ~Forward' /\ ~Undoing'
    BY <1>1 DEF Forward, Undoing
  <1>5. QED  BY <1>3, <1>4 DEF JournalsHold

LEMMA ChangeJournals ==
  ASSUME Known, Gained, OnCreated, JournalsHold, ChangeStep
  PROVE  JournalsHold'
  <1>1. /\ db' = db /\ past' = past /\ run'.undo = run.undo /\ Active /\ Active'
        /\ run.phase = "apply"
        /\ Applying
    BY ChangeStepDoes DEF Known, SameRest
  <1>2. (Forward' <=> Forward) /\ (Undoing' <=> Undoing) /\ Running /\ Running'
    BY <1>1 DEF Forward, Undoing, Running, Active
  <1>3. JournalBound' = JournalBound
    BY <1>1 DEF JournalBound
  <1>4. JournalWithin(db, JournalBound)'
    BY <1>1, <1>3 DEF JournalsHold, JournalWithin, EntryNumbers, Entry
  <1>5. ASSUME Forward
        PROVE  JournalWithin(work', db.deps)
    <2>1. CASE ~Copies(Step)
      <3>1. work'.journal[FALSE] = work.journal[FALSE]
        BY <2>1, ChangeEntries
      <3>2. QED  BY <1>5, <3>1, SameJournal DEF JournalsHold
    <2>2. CASE Copies(Step)
      <3>1. \A j \in EntryNumbers(work') :
              \/ j \in EntryNumbers(work) /\ Entry(work', j) = Entry(work, j)
              \/ Entry(work', j) = [step |-> run.at, deps |-> DroppedDeps(work, Step)]
        BY <1>5, <2>2, ChangeEntries DEF Forward
      <3>2. DroppedDeps(work, Step) \subseteq db.deps
        BY <1>1, <1>5, <2>2, DropsOldOnly
      <3>3. \A j \in EntryNumbers(work') : Entry(work', j).deps \subseteq db.deps
        BY <1>5, <3>1, <3>2 DEF JournalsHold, JournalWithin
      <3>4. QED  BY <3>3 DEF JournalWithin
    <2>3. QED  BY <2>1, <2>2
  <1>6. Undoing => work'.journal[FALSE] = work.journal[FALSE]
    BY ChangeEntries DEF Undoing
  <1>7. Forward' => JournalWithin(work, db.deps)'
    BY <1>1, <1>2, <1>5 DEF JournalWithin, EntryNumbers, Entry
  <1>8. Undoing' => work'.journal[FALSE] = db'.journal[FALSE]
    BY <1>1, <1>2, <1>6 DEF JournalsHold
  <1>9. QED  BY <1>4, <1>7, <1>8 DEF JournalsHold

(* What the journal holds was there before the script ran.                  *)
LEMMA NextJournals ==
  ASSUME MaxWrites = 0, Known, ToRecreateKnown, AllReplayed, Gained, OnCreated, JournalsHold,
         [Next]_vars
  PROVE  JournalsHold'
  <1>0. TypeOK /\ TypeOK' /\ Settled /\ RunStart
    BY NextType DEF Known
  <1>1. CASE Stays
    <2>1. /\ db' = db /\ work' = work /\ run' = run /\ past'.state = past.state
          /\ past'.origin = past.origin
      BY <1>1, StaysDoes
    <2>2. QED
      BY <2>1 DEF JournalsHold, JournalBound, Forward, Undoing, Running, JournalWithin,
         EntryNumbers,
                  Entry
  <1>2. CASE Blanks
    <2>1. db' = db /\ work' = db /\ past'.state = past.state /\ past'.origin = past.origin
      BY <1>0, <1>2, BlanksDoes
    <2>2. JournalBound' = JournalBound /\ (Forward' => JournalBound = db.deps)
      BY <2>1 DEF JournalBound, Forward
    <2>3. JournalWithin(db, JournalBound)' /\ (Forward' => JournalWithin(work, db.deps)')
      BY <2>1, <2>2 DEF JournalsHold, JournalWithin, EntryNumbers, Entry
    <2>4. QED  BY <2>1, <2>3 DEF JournalsHold
  <1>3. CASE SkipStep \/ CopyStep \/ RecreateKeys \/ Replay
    <2>1. db' = db /\ past' = past /\ run'.undo = run.undo /\ Active /\ Active'
      BY <1>0, <1>3, SkipDoes, CopyDoes, AdditionDoes DEF SameRest
    <2>2. /\ work'.journal[FALSE].entries = work.journal[FALSE].entries
          /\ run.undo => work'.journal[FALSE] = work.journal[FALSE]
      <3>1. CASE CopyStep
        <4>1. work \in Databases /\ Step \in Steps /\ run.undo \in BOOLEAN
          BY <1>0, AtStep
        <4>2. work' = Copy(work, Step, run.undo)
          BY <1>0, <3>1, CopyDoes
        <4>3. QED  BY <4>1, <4>2, CopyJournal
      <3>2. QED  BY <1>0, <1>3, <3>1, SkipDoes, AdditionDoes
    <2>3. (Forward' <=> Forward) /\ (Undoing' <=> Undoing) /\ JournalBound' = JournalBound
      BY <2>1 DEF Forward, Undoing, Running, Active, JournalBound
    <2>4. JournalWithin(work', db.deps) <=> JournalWithin(work, db.deps)
      BY <2>2, SameEntries
    <2>5. JournalWithin(db, JournalBound)' /\ (Forward' => JournalWithin(work, db.deps)')
      BY <2>1, <2>3, <2>4 DEF JournalsHold, JournalWithin, EntryNumbers, Entry
    <2>6. Undoing' => work'.journal[FALSE] = db'.journal[FALSE]
      BY <2>1, <2>2, <2>3 DEF JournalsHold, Undoing
    <2>7. QED  BY <2>5, <2>6 DEF JournalsHold
  <1>4. CASE ChangeStep
    BY <1>4, ChangeJournals
  <1>5. CASE Commit
    BY <1>5, CommitJournals
  <1>6. CASE CleansUp
    <2>1. /\ past' = past /\ db'.deps = db.deps /\ ~Running'
          /\ db'.journal[FALSE] = db.journal[FALSE] \/ db'.journal[FALSE] = NoJournal
      BY <1>0, <1>6, CleansUpDoes
    <2>2. JournalBound' = JournalBound
      BY <2>1 DEF JournalBound
    <2>3. JournalWithin(db', JournalBound)
      BY <2>1, SameJournal, EmptyJournal DEF JournalsHold, JournalWithin
    <2>4. JournalWithin(db, JournalBound)'
      BY <2>2, <2>3 DEF JournalWithin, EntryNumbers, Entry
    <2>5. QED  BY <2>1, <2>4 DEF JournalsHold, Forward, Undoing
  <1>7. QED  BY <1>0, <1>1, <1>2, <1>3, <1>4, <1>5, <1>6, NextDoes

(* What the forward script takes away is in its journal.                    *)
LostIs(x) ==
  \/ x.kind = "default" \/ x \in ToRecreate \/ GoneForGood(x)
  \/ DropsSome /\ InJournal(work, x)

LEMMA InJournalStays ==
  ASSUME Known, ChangeStep, NEW x, InJournal(work, x)
  PROVE  InJournal(work', x)
  <1>1. CASE run.undo \/ ~Copies(Step)
    BY <1>1, ChangeEntries, SameJournal
  <1>2. CASE ~run.undo /\ Copies(Step)
    BY <1>2, ChangeEntries DEF InJournal
  <1>3. QED  BY <1>1, <1>2

LEMMA ScriptWords ==
  ASSUME script' = script
  PROVE  (DropsSome' <=> DropsSome) /\ DroppedTables' = DroppedTables
  BY DEF DropsSome, DroppedTables

LEMMA ForwardLoses ==
  ASSUME Known, Forward, ChangeStep, NEW x \in work.deps, x \notin work'.deps
  PROVE  \/ x.kind = "default" \/ x \in run'.keys \/ GoneForGood(x)
         \/ DropsSome /\ InJournal(work', x)
  <1>1. /\ TypeOK /\ work' = Changed(work, Step) /\ run.phase = "apply"
        /\ run'.keys = IF Step.kind = "modify_column"
                         THEN run.keys \cup DroppedKeys(work, Step) ELSE run.keys
    BY ChangeStepDoes DEF Known
  <1>2. ~run.undo /\ Step = script[run.at] /\ run.at \in 1 .. Len(script)
    BY <1>1 DEF Forward, Step, AllSteps, TypeOK
  <1>3. \/ Step.kind = "drop_table" /\ OnTable(x, Step.tbl)
        \/ Step.kind = "drop_column" /\ x \in ColumnDependents(work, Step)
        \/ Step.kind = "modify_column" /\ x \in DroppedKeys(work, Step)
        \/ Step.kind = "modify_column" /\ x \in DefaultsOn(work, Step.tbl, Step.col)
    BY <1>1, ChangeLosesOnly
  <1>4. ASSUME Copies(Step), x \in DroppedDeps(work, Step)
        PROVE  DropsSome /\ InJournal(work', x)
    <2>1. \E j \in EntryNumbers(work') :
             Entry(work', j) = [step |-> run.at, deps |-> DroppedDeps(work, Step)]
      BY <1>2, <1>4, ChangeEntries
    <2>2. InJournal(work', x)
      BY <1>4, <2>1 DEF InJournal
    <2>3. DropsSome
      BY <1>2, <1>4 DEF DropsSome
    <2>4. QED  BY <2>2, <2>3
  <1>5. CASE Step.kind = "drop_table" /\ OnTable(x, Step.tbl)
    <2>1. CASE x.kind \in Recreatable
      BY <1>4, <1>5, <2>1 DEF DroppedDeps, TableDependents, Copies
    <2>2. CASE x.kind \notin Recreatable
      <3>1. x.tbl = Step.tbl
        BY <1>5, <2>2 DEF OnTable, Recreatable
      <3>2. Step.tbl \in DroppedTables
        BY <1>2, <1>5 DEF DroppedTables
      <3>3. QED  BY <2>2, <3>1, <3>2 DEF GoneForGood
    <2>3. QED  BY <2>1, <2>2
  <1>6. CASE Step.kind = "drop_column" /\ x \in ColumnDependents(work, Step)
    BY <1>4, <1>6 DEF DroppedDeps, Copies
  <1>7. CASE Step.kind = "modify_column" /\ x \in DroppedKeys(work, Step)
    BY <1>1, <1>7
  <1>8. CASE Step.kind = "modify_column" /\ x \in DefaultsOn(work, Step.tbl, Step.col)
    BY <1>8 DEF DefaultsOn
  <1>9. QED  BY <1>3, <1>5, <1>6, <1>7, <1>8

LEMMA NextLostJournaled ==
  ASSUME MaxWrites = 0, Known, LostJournaled, [Next]_vars
  PROVE  LostJournaled'
  <1>0. TypeOK /\ TypeOK' /\ Settled /\ RunStart
    BY NextType DEF Known
  <1>1. CASE Stays
    <2>1. /\ db' = db /\ work' = work /\ run' = run /\ past'.state = past.state /\ script' = script
          /\ ToRecreate' = ToRecreate
      BY <1>1, StaysDoes
    <2>2. (Forward' <=> Forward) /\ (DropsSome' <=> DropsSome) /\ DroppedTables' = DroppedTables
      BY <2>1, ScriptWords DEF Forward, Running
    <2>3. QED  BY <2>1, <2>2 DEF LostJournaled, GoneForGood, InJournal, EntryNumbers, Entry
  <1>2. CASE Blanks
    BY <1>0, <1>2, BlanksDoes DEF LostJournaled
  <1>3. CASE SkipStep \/ CopyStep \/ RecreateKeys \/ Replay
    <2>1. /\ db' = db /\ past' = past /\ run'.undo = run.undo /\ Active /\ Active'
          /\ script' = script
      BY <1>0, <1>3, SkipDoes, CopyDoes, AdditionDoes DEF SameRest
    <2>2. /\ work'.journal[FALSE].entries = work.journal[FALSE].entries
          /\ work.deps \subseteq work'.deps
          /\ ToRecreate \subseteq ToRecreate' \cup work'.deps
      <3>1. CASE CopyStep
        <4>1. work \in Databases /\ Step \in Steps /\ run.undo \in BOOLEAN
          BY <1>0, AtStep
        <4>2. /\ work' = Copy(work, Step, run.undo) /\ work'.deps = work.deps
              /\ run'.keys = run.keys /\ run.phase = "apply" /\ run'.phase = "apply"
          BY <1>0, <3>1, CopyDoes
        <4>3. work'.journal[FALSE].entries = work.journal[FALSE].entries
          BY <4>1, <4>2, CopyJournal
        <4>4. QED  BY <4>2, <4>3 DEF ToRecreate
      <3>2. CASE SkipStep
        BY <1>0, <3>2, SkipDoes DEF ToRecreate
      <3>3. CASE RecreateKeys
        BY <1>0, <3>3, AdditionDoes DEF ToRecreate, Recreated
      <3>4. CASE Replay
        BY <1>0, <3>4, AdditionDoes DEF ToRecreate, Recreated
      <3>5. QED  BY <1>3, <3>1, <3>2, <3>3, <3>4
    <2>3. (Forward' <=> Forward) /\ (DropsSome' <=> DropsSome) /\ DroppedTables' = DroppedTables
      BY <2>1, ScriptWords DEF Forward, Running, Active
    <2>4. \A x : InJournal(work', x) <=> InJournal(work, x)
      BY <2>2, SameEntries
    <2>5. ASSUME Forward, NEW x \in db.deps, x \notin work'.deps
          PROVE  LostIs(x)'
      <3>1. LostIs(x)
        BY <2>2, <2>5 DEF LostJournaled, LostIs
      <3>2. QED  BY <2>2, <2>3, <2>4, <2>5, <3>1
          DEF LostIs, GoneForGood, InJournal, EntryNumbers, Entry
    <2>6. QED  BY <2>1, <2>3, <2>5 DEF LostJournaled, LostIs
  <1>4. CASE ChangeStep
    <2>1. /\ db' = db /\ past' = past /\ run'.undo = run.undo /\ Active /\ Active'
          /\ script' = script
          /\ run.phase = "apply" /\ ToRecreate' = run'.keys /\ ToRecreate = run.keys
          /\ run.keys \subseteq run'.keys
      BY <1>0, <1>4, ChangeStepDoes DEF SameRest
    <2>2. (Forward' <=> Forward) /\ (DropsSome' <=> DropsSome) /\ DroppedTables' = DroppedTables
      BY <2>1, ScriptWords DEF Forward, Running, Active
    <2>3. ASSUME Forward, NEW x \in db.deps, x \notin work'.deps
          PROVE  \/ x.kind = "default" \/ x \in run'.keys \/ GoneForGood(x)
                 \/ DropsSome /\ InJournal(work', x)
      <3>1. CASE x \in work.deps
        BY <1>4, <2>3, <3>1, ForwardLoses
      <3>2. CASE x \notin work.deps
        <4>1. LostIs(x)
          BY <2>3, <3>2 DEF LostJournaled, LostIs
        <4>2. QED  BY <1>4, <2>1, <4>1, InJournalStays DEF LostIs
      <3>3. QED  BY <3>1, <3>2
    <2>4. QED
      BY <2>1, <2>2, <2>3 DEF LostJournaled, GoneForGood, InJournal, EntryNumbers, Entry
  <1>5. CASE Commit \/ CleansUp
    BY <1>0, <1>5, CommitDoes, CleansUpDoes DEF LostJournaled, Forward
  <1>6. QED  BY <1>0, <1>1, <1>2, <1>3, <1>4, <1>5, NextDoes

(* The undo script takes away only with what the script made.               *)
WithMade(x) ==
  \E n \in 1 .. Len(script) :
    \/ script[n].kind = "create_table" /\ OnTable(x, script[n].tbl)
    \/ script[n].kind = "add_column" /\ OnColumn(x, script[n].tbl, script[n].col)

LEMMA UndoLosesStep ==
  ASSUME Known, run.undo, ChangeStep, NEW x \in work.deps, x \notin work'.deps
  PROVE  x.kind = "default" \/ x \in run'.keys \/ WithMade(x)
  <1>1. /\ TypeOK /\ FromDecisions /\ work' = Changed(work, Step) /\ run.phase = "apply"
        /\ run'.keys = IF Step.kind = "modify_column"
                         THEN run.keys \cup DroppedKeys(work, Step) ELSE run.keys
        /\ run.at \in 1 .. Len(script)
    BY ChangeStepDoes DEF Known, TypeOK
  <1>2. /\ Undone(run.at) \in 1 .. Len(script)
        /\ Undoes(Step, script[Undone(run.at)], Undone(run.at))
    BY <1>1, RunStep, UndoStepFacts DEF Step
  <1>3. \/ Step.kind = "drop_table" /\ OnTable(x, Step.tbl)
        \/ Step.kind = "drop_column" /\ x \in ColumnDependents(work, Step)
        \/ Step.kind = "modify_column" /\ x \in DroppedKeys(work, Step)
        \/ Step.kind = "modify_column" /\ x \in DefaultsOn(work, Step.tbl, Step.col)
    BY <1>1, ChangeLosesOnly
  <1>4. CASE Step.kind = "drop_table" /\ OnTable(x, Step.tbl)
    BY <1>2, <1>4 DEF Undoes, WithMade
  <1>5. CASE Step.kind = "drop_column" /\ x \in ColumnDependents(work, Step)
    BY <1>2, <1>5 DEF Undoes, WithMade, ColumnDependents
  <1>6. CASE Step.kind = "modify_column" /\ x \in DroppedKeys(work, Step)
    BY <1>1, <1>6
  <1>7. CASE Step.kind = "modify_column" /\ x \in DefaultsOn(work, Step.tbl, Step.col)
    BY <1>7 DEF DefaultsOn
  <1>8. QED  BY <1>3, <1>4, <1>5, <1>6, <1>7

LEMMA NextUndoLoses ==
  ASSUME MaxWrites = 0, Known, UndoLoses, [Next]_vars
  PROVE  UndoLoses'
  <1>0. TypeOK /\ TypeOK' /\ Settled /\ RunStart
    BY NextType DEF Known
  <1>1. CASE Stays
    <2>1. /\ db' = db /\ work' = work /\ run' = run /\ past'.state = past.state /\ script' = script
          /\ ToRecreate' = ToRecreate
      BY <1>1, StaysDoes
    <2>2. QED  BY <2>1 DEF UndoLoses, Undoing, Running
  <1>2. CASE Blanks
    BY <1>0, <1>2, BlanksDoes DEF UndoLoses
  <1>3. CASE SkipStep \/ CopyStep \/ RecreateKeys \/ Replay
    <2>1. /\ db' = db /\ past' = past /\ run'.undo = run.undo /\ Active /\ Active'
          /\ script' = script
      BY <1>0, <1>3, SkipDoes, CopyDoes, AdditionDoes DEF SameRest
    <2>2. /\ work.deps \subseteq work'.deps
          /\ ToRecreate \subseteq ToRecreate' \cup work'.deps
      BY <1>0, <1>3, SkipDoes, CopyDoes, AdditionDoes DEF ToRecreate, Recreated
    <2>3. Undoing' <=> Undoing
      BY <2>1 DEF Undoing, Running, Active
    <2>4. ASSUME Undoing, NEW x \in db.deps, x \notin work'.deps
          PROVE  x.kind = "default" \/ x \in ToRecreate' \/ WithMade(x)
      BY <2>2, <2>4 DEF UndoLoses, WithMade
    <2>5. QED  BY <2>1, <2>3, <2>4 DEF UndoLoses, WithMade
  <1>4. CASE ChangeStep
    <2>1. /\ db' = db /\ past' = past /\ run'.undo = run.undo /\ Active /\ Active'
          /\ script' = script
          /\ run.phase = "apply" /\ ToRecreate' = run'.keys /\ ToRecreate = run.keys
          /\ run.keys \subseteq run'.keys
      BY <1>0, <1>4, ChangeStepDoes DEF SameRest
    <2>2. Undoing' <=> Undoing
      BY <2>1 DEF Undoing, Running, Active
    <2>3. ASSUME Undoing, NEW x \in db.deps, x \notin work'.deps
          PROVE  x.kind = "default" \/ x \in run'.keys \/ WithMade(x)
      <3>1. CASE x \in work.deps
        BY <1>4, <2>3, <3>1, UndoLosesStep DEF Undoing
      <3>2. CASE x \notin work.deps
        BY <2>1, <2>3, <3>2 DEF UndoLoses, WithMade
      <3>3. QED  BY <3>1, <3>2
    <2>4. QED  BY <2>1, <2>2, <2>3 DEF UndoLoses, WithMade
  <1>5. CASE Commit \/ CleansUp
    BY <1>0, <1>5, CommitDoes, CleansUpDoes DEF UndoLoses, Undoing
  <1>6. QED  BY <1>0, <1>1, <1>2, <1>3, <1>4, <1>5, NextDoes

-----------------------------------------------------------------------------------------
(* How an applied database differs from the one the script met.             *)
LostFor(e, x) ==
  \/ x.kind = "default"
  \/ Excused(x) /\ (GoneForGood(x) \/ (DropsSome /\ (e.journal[FALSE].made => InJournal(e, x))))

LEMMA CommitPast ==
  ASSUME Known, Gained, LostJournaled, PastGained, PastLost, Commit
  PROVE  PastGained' /\ PastLost'
  <1>1. /\ run.phase = "verify" /\ Active /\ Running /\ db' = work /\ script' = script
        /\ ToRecreate = {}
        /\ run.undo => past'.state = "undone"
        /\ ~run.undo => past'.state = "applied"
        /\ ~run.undo /\ past.state = "applied" => past'.origin = past.origin
        /\ ~run.undo /\ past.state # "applied" => past'.origin = db
    BY CommitDoes DEF Known
  <1>2. DropsSome' = DropsSome /\ DroppedTables' = DroppedTables
      /\ \A x : Excused(x)' <=> Excused(x)
    BY <1>1 DEF DropsSome, DroppedTables, Excused
  <1>3. CASE run.undo
    BY <1>1, <1>3 DEF PastGained, PastLost
  <1>4. CASE ~run.undo /\ past.state = "applied"
    <2>1. work = db
      BY <1>1, <1>4 DEF Known, NothingToDo, Again
    <2>2. QED
      BY <1>1, <1>2, <1>4, <2>1
         DEF PastGained, PastLost, GoneForGood, InJournal, EntryNumbers, Entry
  <1>5. CASE ~run.undo /\ past.state # "applied"
    <2>1. Forward /\ ~Undoing
      BY <1>1, <1>5 DEF Forward, Undoing
    <2>2. \A x \in work.deps \ db.deps : x.kind = "default"
      BY <1>1, <2>1 DEF Gained
    <2>3. \A x \in db.deps \ work.deps : LostFor(work, x)
      <3>1. \A x \in db.deps \ work.deps : LostIs(x)
        BY <2>1 DEF LostJournaled, LostIs
      <3>2. \A x \in db.deps \ work.deps : Excused(x)
        BY <1>1, <1>5 DEF Known, LostAreExcused
      <3>3. QED  BY <1>1, <3>1, <3>2 DEF LostIs, LostFor
    <2>4. PastGained'
      BY <1>1, <1>5, <2>2 DEF PastGained
    <2>5. PastLost'
      BY <1>1, <1>2, <1>5, <2>3 DEF PastLost, LostFor, GoneForGood, InJournal, EntryNumbers, Entry
    <2>6. QED  BY <2>4, <2>5
  <1>6. QED  BY <1>3, <1>4, <1>5

LEMMA NextPast ==
  ASSUME MaxWrites = 0, Known, Gained, LostJournaled, PastGained, PastLost, [Next]_vars
  PROVE  PastGained' /\ PastLost'
  <1>0. TypeOK /\ TypeOK' /\ Settled /\ RunStart
    BY NextType DEF Known
  <1>1. CASE Commit
    BY <1>1, CommitPast
  <1>2. CASE CleansUp
    <2>1. /\ script' = script /\ past' = past /\ db'.deps = db.deps
          /\ db'.journal[FALSE] = db.journal[FALSE] \/ db'.journal[FALSE] = NoJournal
      BY <1>0, <1>2, CleansUpDoes
    <2>2. /\ DropsSome' = DropsSome /\ DroppedTables' = DroppedTables
          /\ \A x : Excused(x)' <=> Excused(x)
      BY <2>1 DEF DropsSome, DroppedTables, Excused
    <2>3. \A x : (db'.journal[FALSE].made => InJournal(db', x))
                   \/ ~(db.journal[FALSE].made => InJournal(db, x))
      <3>1. CASE db'.journal[FALSE] = db.journal[FALSE]
        BY <3>1, SameJournal
      <3>2. CASE db'.journal[FALSE] = NoJournal
        BY <3>2, EmptyJournal
      <3>3. QED  BY <2>1, <3>1, <3>2
    <2>4. PastGained'
      BY <2>1 DEF PastGained
    <2>5. ASSUME past.state = "applied", NEW x \in past.origin.deps, x \notin db'.deps
          PROVE  LostFor(db, x)'
      <3>1. LostFor(db, x)
        BY <2>1, <2>5 DEF PastLost, LostFor
      <3>2. QED
        BY <2>2, <2>3, <3>1 DEF LostFor, GoneForGood, InJournal, EntryNumbers, Entry
    <2>6. PastLost'
      BY <2>1, <2>5 DEF PastLost, LostFor
    <2>7. QED  BY <2>4, <2>6
  <1>3. CASE Stays \/ Blanks \/ SkipStep \/ CopyStep \/ ChangeStep \/ RecreateKeys \/ Replay
    <2>1. script' = script /\ db' = db /\ past'.origin = past.origin /\ past'.state = past.state
      BY <1>0, <1>3, StaysDoes, BlanksDoes, SkipDoes, CopyDoes, ChangeStepDoes, AdditionDoes
         DEF SameRest
    <2>2. /\ DropsSome' = DropsSome /\ DroppedTables' = DroppedTables
          /\ \A x : Excused(x)' <=> Excused(x)
      BY <2>1 DEF DropsSome, DroppedTables, Excused
    <2>3. QED
      BY <2>1, <2>2 DEF PastGained, PastLost, GoneForGood, InJournal, EntryNumbers, Entry
  <1>4. QED  BY <1>0, <1>1, <1>2, <1>3, NextDoes

-----------------------------------------------------------------------------------------
(* A copy depends on the columns it copies only.                            *)
LEMMA CopyBySame ==
  ASSUME NEW d, NEW e, NEW s, Backup(e, s) = Backup(d, s),
         DOMAIN e.rows[s.tbl] = DOMAIN d.rows[s.tbl],
         \A r \in DOMAIN d.rows[s.tbl], c \in Columns :
           c \in Backup(d, s) => e.rows[s.tbl][r][c] = d.rows[s.tbl][r][c]
  PROVE  CopyOf(e, s) = CopyOf(d, s)
  <1> DEFINE copied(x) == [r \in DOMAIN x.rows[s.tbl] |->
                             [c \in Columns |-> IF c \in Backup(d, s) THEN x.rows[s.tbl][r][c]
                                 ELSE Null]]
  <1>1. \A r \in DOMAIN d.rows[s.tbl] :
           [c \in Columns |-> IF c \in Backup(d, s) THEN e.rows[s.tbl][r][c] ELSE Null]
         = [c \in Columns |-> IF c \in Backup(d, s) THEN d.rows[s.tbl][r][c] ELSE Null]
    OBVIOUS
  <1>2. copied(e) = copied(d)
    BY <1>1
  <1>3. QED  BY <1>2 DEF CopyOf

(* What the steps of the forward script carried out before a drop were.     *)
LEMMA BeforeDrop ==
  ASSUME Known, Forward, run.phase = "apply", Applying, Copies(Step), NEW m \in Performed
  PROVE  /\ m \in 1 .. Len(script) /\ AllSteps[m] = script[m] /\ script[m] \in Steps
         /\ script[m].kind \in {"create_table", "drop_table", "drop_column"}
         /\ Step.kind = "drop_table" => script[m].kind # "drop_column"
         /\ script[m].kind = "create_table" => ~Exists(db, script[m].tbl)
  <1>1. /\ TypeOK /\ FromDecisions /\ ~run.undo /\ ChecksPassed /\ Step = script[run.at]
        /\ run.at \in 1 .. Len(script)
    BY DEF Known, Forward, Undisturbed, TypeOK, Step, AllSteps
  <1>2. m \in 1 .. Len(script) /\ m < run.at /\ Check(db, AllSteps[m], run.undo) = "go"
    BY <1>1, PerformedChecked DEF Performed
  <1>3. AllSteps[m] = script[m] /\ script[m] \in Steps /\ script[m].kind \in ForwardKinds
    BY <1>1, <1>2, RunStep
  <1>4. /\ Step.kind = "drop_table" => script[m].kind \in {"create_table", "drop_table"}
        /\ Step.kind = "drop_column" => script[m].kind \notin ColumnKinds
    BY <1>1, <1>2, DropOrder
  <1>5. script[m].kind = "create_table" => ~Exists(db, script[m].tbl)
    BY <1>2, <1>3, GoNeeds
  <1>6. QED  BY <1>2, <1>3, <1>4, <1>5 DEF Copies, ForwardKinds, ColumnKinds

(* The primary key of a table that is kept.                                 *)
LEMMA KeptPk ==
  ASSUME Known, Running, ~run.undo, run.phase = "apply", KeysKnown,
         NEW t \in Tables, KeepsKey(db, t), t \notin DroppedTables
  PROVE  PkColumns(work, t) = PkColumns(db, t)
  <1>1. ASSUME NEW x, x.kind = "pk", x.tbl = t, x \in db.deps
        PROVE  x \in work.deps
    <2> SUFFICES ASSUME x \notin work.deps PROVE FALSE
      OBVIOUS
    <2>1. Excused(x) \/ x \in ToRecreate
      BY <1>1 DEF Known, LostAreExcused
    <2>2. x \notin ToRecreate
      BY <1>1 DEF ToRecreate, KeysKnown, Keys
    <2>3. PICK n \in 1 .. Len(script) :
            \/ script[n].kind = "drop_table" /\ OnTable(x, script[n].tbl)
            \/ script[n].kind = "drop_column" /\ OnColumn(x, script[n].tbl, script[n].col)
      BY <1>1, <2>1, <2>2 DEF Excused
    <2>4. CASE script[n].kind = "drop_table" /\ OnTable(x, script[n].tbl)
      BY <1>1, <2>4 DEF OnTable, DroppedTables
    <2>5. CASE script[n].kind = "drop_column" /\ OnColumn(x, script[n].tbl, script[n].col)
      <3>1. script[n].tbl = t /\ script[n].col \in x.cols
        BY <1>1, <2>5 DEF OnColumn
      <3>2. script[n].col \in PkColumns(db, t)
        BY <1>1, <3>1 DEF PkColumns
      <3>3. <<t, script[n].col>> \in DroppedColumns
        BY <2>5, <3>1 DEF DroppedColumns
      <3>4. QED  BY <3>2, <3>3 DEF KeepsKey
    <2>6. QED  BY <2>3, <2>4, <2>5
  <1>2. ASSUME NEW x, x.kind = "pk", x.tbl = t, x \in work.deps
        PROVE  x \in db.deps
    BY <1>2 DEF Known, Undisturbed, NoNewKeys
  <1>3. QED  BY <1>1, <1>2, SamePk

LEMMA ToBackup ==
  ASSUME TypeOK, ForwardBackups, Forward, CopyStep, NEW m \in Performed,
         AllSteps[m] = script[m], m \in 1 .. Len(script), Copies(script[m])
  PROVE  BackupOf(script[m], FALSE) # BackupOf(Step, FALSE)
  <1>1. run.undo = FALSE
    BY AtStep DEF Forward
  <1>2. ~BackedUp(work, BackupOf(Step, FALSE))
    BY <1>1 DEF CopyStep, CanCopy
  <1>3. BackedUp(work, BackupOf(script[m], FALSE))
    BY DEF ForwardBackups
  <1>4. QED  BY <1>2, <1>3

LEMMA TableCopySame ==
  ASSUME Known, RunFrame, ForwardBackups, Forward, CopyStep, Step.kind = "drop_table"
  PROVE  CopyOf(work, Step) = CopyOf(db, Step)
  <1> DEFINE t == Step.tbl
  <1>1. /\ TypeOK /\ Applying /\ Copies(Step) /\ run.phase = "apply" /\ Step \in Steps
        /\ ChecksPassed
    BY AtStep DEF Known, CopyStep, AtCopy, Applying, Undisturbed
  <1>2. t \in Tables /\ Exists(db, t)
    BY <1>1, StepChecked, GoNeeds DEF Steps
  <1>3. ASSUME NEW s \in Done, s.tbl = t  PROVE FALSE
    <2>1. PICK m \in Performed : s = AllSteps[m]
      BY DEF Done
    <2>2. /\ m \in 1 .. Len(script) /\ s = script[m] /\ s.kind \in {"create_table", "drop_table"}
          /\ s.kind = "create_table" => ~Exists(db, s.tbl)
      BY <1>1, <2>1, BeforeDrop
    <2>3. s.kind = "drop_table"
      BY <1>2, <1>3, <2>2
    <2>4. BackupOf(s, FALSE) = BackupOf(Step, FALSE)
      BY <1>3, <2>3 DEF BackupOf
    <2>5. QED  BY <1>1, <2>1, <2>2, <2>3, <2>4, ToBackup DEF Copies
  <1>4. \A c \in Columns : SameColumn(db, work, t, c)
    BY <1>2, <1>3 DEF RunFrame, Frame, Touches
  <1>5. DOMAIN work.rows[t] = DOMAIN db.rows[t]
    BY <1>2, <1>3 DEF RunFrame, Frame, Retables
  <1>6. \A c \in Columns : HasColumn(work, t, c) <=> HasColumn(db, t, c)
    BY <1>4 DEF SameColumn, Keeps, HasColumn
  <1>7. Backup(work, Step) = Backup(db, Step)
    BY <1>6 DEF Backup
  <1>8. \A r \in DOMAIN db.rows[t], c \in Columns : work.rows[t][r][c] = db.rows[t][r][c]
    BY <1>4 DEF SameColumn, Keeps
  <1>9. QED  BY <1>5, <1>7, <1>8, CopyBySame

LEMMA ColumnCopySame ==
  ASSUME Known, RunFrame, KeysKnown, ForwardBackups, Forward, CopyStep, Step.kind = "drop_column",
         Keepable(db, Step)
  PROVE  CopyOf(work, Step) = CopyOf(db, Step)
  <1> DEFINE t == Step.tbl
             pk == PkColumns(db, t)
  <1>1. /\ TypeOK /\ Applying /\ Copies(Step) /\ run.phase = "apply" /\ Step \in Steps
        /\ ChecksPassed
        /\ Running /\ ~run.undo /\ Step = script[run.at] /\ run.at \in 1 .. Len(script)
    BY AtStep DEF Known, CopyStep, AtCopy, Applying, Undisturbed, Forward, Step, AllSteps, TypeOK
  <1>2. KeepsKey(db, t) /\ t \notin DroppedTables /\ t \in Tables /\ Step.col \in Columns
    BY <1>1 DEF Keepable, Steps
  <1>3. PkColumns(work, t) = pk /\ pk # {} /\ pk \subseteq Columns
    BY <1>1, <1>2, KeptPk, PkColumnsType DEF KeepsKey, TypeOK
  <1>4. <<t, Step.col>> \in DroppedColumns
    BY <1>1 DEF DroppedColumns
  <1>5. Step.col \notin pk
    BY <1>2, <1>4 DEF KeepsKey
  <1>6. Backup(work, Step) = pk \cup {Step.col} /\ Backup(db, Step) = pk \cup {Step.col}
    BY <1>3, <1>5 DEF Backup
  <1>7. Exists(db, t)
    BY <1>1, <1>2, StepChecked, GoNeeds DEF Exists
  <1>8. ASSUME NEW s \in Done, NEW c \in pk \cup {Step.col}, Touches(s, t, c)  PROVE FALSE
    <2>1. PICK m \in Performed : s = AllSteps[m]
      BY DEF Done
    <2>2. /\ m \in 1 .. Len(script) /\ s = script[m]
          /\ s.kind \in {"create_table", "drop_table", "drop_column"}
          /\ s.kind = "create_table" => ~Exists(db, s.tbl)
      BY <1>1, <2>1, BeforeDrop
    <2>3. s.tbl = t
      BY <1>8 DEF Touches
    <2>4. s.kind # "create_table"
      BY <1>7, <2>2, <2>3
    <2>5. s.kind # "drop_table"
      BY <1>2, <2>2, <2>3 DEF DroppedTables
    <2>6. s.kind = "drop_column" /\ s.col = c
      BY <1>8, <2>2, <2>4, <2>5 DEF Touches, TableKinds
    <2>7. CASE c \in pk
      <3>1. <<t, c>> \in DroppedColumns
        BY <2>2, <2>3, <2>6 DEF DroppedColumns
      <3>2. QED  BY <1>2, <2>7, <3>1 DEF KeepsKey
    <2>8. CASE c = Step.col
      <3>1. BackupOf(s, FALSE) = BackupOf(Step, FALSE)
        BY <2>3, <2>6, <2>8 DEF BackupOf
      <3>2. QED  BY <1>1, <2>1, <2>2, <2>6, <3>1, ToBackup DEF Copies
    <2>9. QED  BY <2>7, <2>8
  <1>9. \A c \in pk \cup {Step.col} : SameColumn(db, work, t, c)
    <2>1. \A c \in pk \cup {Step.col} : c \in Columns /\ \A s \in Done : ~Touches(s, t, c)
      BY <1>2, <1>3, <1>8
    <2>2. QED  BY <1>2, <2>1 DEF RunFrame, Frame
  <1>10. DOMAIN work.rows[t] = DOMAIN db.rows[t]
    BY <1>9 DEF SameColumn, Keeps
  <1>11. \A r \in DOMAIN db.rows[t], c \in Columns :
            c \in Backup(db, Step) => work.rows[t][r][c] = db.rows[t][r][c]
    BY <1>6, <1>9 DEF SameColumn, Keeps
  <1>12. Backup(work, Step) = Backup(db, Step)
    BY <1>6
  <1>13. QED  BY <1>10, <1>11, <1>12, CopyBySame

(* The steps whose backup is there.                                         *)
HasBackup(n) == (n \in Performed \/ (n = run.at /\ run.copied)) /\ Copies(script[n])
BackupKept(n) ==
  /\ BackedUp(work, BackupOf(script[n], FALSE))
  /\ Keepable(db, script[n]) => work.bak[BackupOf(script[n], FALSE)] = CopyOf(db, script[n])

LEMMA ForwardBackupsAre ==
  ForwardBackups <=> (Forward => \A n \in 1 .. Len(script) : HasBackup(n) => BackupKept(n))
  BY DEF ForwardBackups, HasBackup, BackupKept

LEMMA KeepableStays ==
  ASSUME script' = script, db' = db, NEW s
  PROVE  (Keepable(db, s)' <=> Keepable(db, s)) /\ CopyOf(db, s)' = CopyOf(db, s)
  BY DEF Keepable, KeepsKey, DroppedColumns, LossyColumns, Loses, DroppedTables, CopyOf

LEMMA CopyForwardBackups ==
  ASSUME Known, RunFrame, KeysKnown, ForwardBackups, CopyStep
  PROVE  ForwardBackups'
  <1> SUFFICES ASSUME Forward', NEW n \in 1 .. Len(script), HasBackup(n)'
               PROVE  BackupKept(n)'
    BY CopyDoes DEF Known, SameRest, ForwardBackups, HasBackup, BackupKept
  <1>1. /\ TypeOK /\ script' = script /\ db' = db /\ past' = past /\ run'.undo = run.undo
        /\ Active /\ Active'
        /\ Performed' = Performed /\ run'.at = run.at /\ Copies(Step)
        /\ work' = Copy(work, Step, run.undo) /\ AllSteps' = AllSteps
    BY CopyDoes DEF Known, SameRest
  <1>2. Forward /\ run.undo = FALSE /\ Step = script[run.at] /\ work \in Databases /\ Step \in Steps
    BY <1>1, AtStep DEF Forward, Running, Active, Step, AllSteps
  <1>3. /\ work'.bak[BackupOf(Step, FALSE)] = CopyOf(work, Step)
        /\ \A b \in BackupNames : b # BackupOf(Step, FALSE) => work'.bak[b] = work.bak[b]
    BY <1>1, <1>2, CopyJournal, ZenonT(60)
  <1>4. Copies(script[n]) /\ (n \in Performed \/ n = run.at)
    BY <1>1 DEF HasBackup
  <1>5. CASE n = run.at
    <2>1. Backup(work, Step) # {}
      BY DEF CopyStep, CanCopy
    <2>2. BackedUp(work', BackupOf(Step, FALSE))
      BY <1>3, <2>1 DEF BackedUp, CopyOf
    <2>3. Keepable(db, Step) => CopyOf(work, Step) = CopyOf(db, Step)
      BY <1>1, <1>2, TableCopySame, ColumnCopySame DEF Copies
    <2>4. Keepable(db, script[n])' => Keepable(db, Step)
      BY <1>1, <1>2, <1>5, KeepableStays
    <2>5. CopyOf(db, script[n])' = CopyOf(db, Step)
      BY <1>1, <1>2, <1>5, KeepableStays
    <2>6. QED
      BY <1>1, <1>2, <1>3, <1>5, <2>2, <2>3, <2>4, <2>5 DEF BackupKept, BackedUp
  <1>6. CASE n \in Performed /\ n # run.at
    <2>1. AllSteps[n] = script[n] /\ script[n] \in Steps
      BY <1>1, <1>2, RunStep DEF Known
    <2>2. BackupOf(script[n], FALSE) # BackupOf(Step, FALSE)
      BY <1>1, <1>2, <1>4, <1>6, <2>1, ToBackup
    <2>3. BackupOf(script[n], FALSE) \in BackupNames
      BY <1>2, <2>1, BackupType
    <2>4. work'.bak[BackupOf(script[n], FALSE)] = work.bak[BackupOf(script[n], FALSE)]
      BY <1>3, <2>2, <2>3
    <2>5. BackupKept(n)
      BY <1>2, <1>4, <1>6, ForwardBackupsAre DEF HasBackup
    <2>6. (Keepable(db, script[n])' => Keepable(db, script[n]))
        /\ CopyOf(db, script[n])' = CopyOf(db, script[n])
      BY <1>1, KeepableStays
    <2>7. QED  BY <1>1, <2>4, <2>5, <2>6 DEF BackupKept, BackedUp
  <1>7. QED  BY <1>4, <1>5, <1>6

LEMMA SameForwardBackups ==
  ASSUME script' = script, db' = db, Forward' => Forward, work'.bak = work.bak,
         \A n \in 1 .. Len(script) : HasBackup(n)' => HasBackup(n), ForwardBackups
  PROVE  ForwardBackups'
  <1>1. ASSUME Forward', NEW n \in 1 .. Len(script), HasBackup(n)'
        PROVE  BackupKept(n)'
    <2>1. BackupKept(n)
      BY <1>1, ForwardBackupsAre
    <2>2. (Keepable(db, script[n])' => Keepable(db, script[n]))
        /\ CopyOf(db, script[n])' = CopyOf(db, script[n])
      BY KeepableStays
    <2>3. QED  BY <2>1, <2>2 DEF BackupKept, BackedUp
  <1>2. QED  BY <1>1 DEF ForwardBackups, HasBackup, BackupKept

(* The forward script's backups are copies of what was committed.           *)
LEMMA NextForwardBackups ==
  ASSUME MaxWrites = 0, Known, RunFrame, KeysKnown, ForwardBackups, [Next]_vars
  PROVE  ForwardBackups'
  <1>0. TypeOK /\ TypeOK' /\ Settled /\ RunStart
    BY NextType DEF Known
  <1>1. CASE Stays
    <2>1. /\ db' = db /\ work' = work /\ run' = run /\ past'.state = past.state /\ script' = script
          /\ Performed' = Performed
      BY <1>1, StaysDoes
    <2>2. (Forward' => Forward) /\ \A n \in 1 .. Len(script) : HasBackup(n)' => HasBackup(n)
      BY <2>1 DEF Forward, Running, HasBackup
    <2>3. QED  BY <2>1, <2>2, SameForwardBackups
  <1>2. CASE Blanks
    BY <1>0, <1>2, BlanksDoes DEF ForwardBackups
  <1>3. CASE SkipStep \/ RecreateKeys \/ Replay
    <2>1. /\ script' = script /\ db' = db /\ past' = past /\ run'.undo = run.undo /\ Active
          /\ Active'
          /\ Performed' = Performed /\ work'.bak = work.bak
          /\ ~run'.copied \/ (run'.copied = run.copied /\ run.phase # "apply")
      BY <1>0, <1>3, SkipDoes, AdditionDoes DEF SameRest
    <2>2. ~run'.copied
      BY <2>1 DEF Known, DropsAreSaved, CopyIsCurrent
    <2>3. (Forward' => Forward) /\ \A n \in 1 .. Len(script) : HasBackup(n)' => HasBackup(n)
      BY <2>1, <2>2 DEF Forward, Running, Active, HasBackup
    <2>4. QED  BY <2>1, <2>3, SameForwardBackups
  <1>4. CASE CopyStep
    BY <1>4, CopyForwardBackups
  <1>5. CASE ChangeStep
    <2>1. /\ script' = script /\ db' = db /\ past' = past /\ run'.undo = run.undo /\ Active
          /\ Active'
          /\ Performed' = Performed \cup {run.at} /\ work' = Changed(work, Step)
          /\ ~run'.copied /\ AtChange
          /\ AllSteps' = AllSteps
      BY <1>0, <1>5, ChangeStepDoes DEF SameRest
    <2>2. work'.bak = work.bak
      BY <1>0, <2>1, ChangedDeps
    <2>3. Forward' => Forward
      BY <2>1 DEF Forward, Running, Active
    <2>4. CASE Forward
      <3>1. Step = script[run.at]
        BY <2>4 DEF Forward, Step, AllSteps
      <3>2. \A n \in 1 .. Len(script) : HasBackup(n)' => HasBackup(n)
        BY <2>1, <3>1 DEF HasBackup, AtChange
      <3>3. QED  BY <2>1, <2>2, <2>3, <3>2, SameForwardBackups
    <2>5. CASE ~Forward
      BY <2>3, <2>5 DEF ForwardBackups
    <2>6. QED  BY <2>4, <2>5
  <1>6. CASE Commit \/ CleansUp
    BY <1>0, <1>6, CommitDoes, CleansUpDoes DEF ForwardBackups, Forward
  <1>7. QED  BY <1>0, <1>1, <1>2, <1>3, <1>4, <1>5, <1>6, NextDoes

-----------------------------------------------------------------------------------------
(* Nothing of a script that meets what was compared is already applied.     *)
LEMMA CopiesGoes ==
  ASSUME Known, Running, ~run.undo, Active, NoDrift(db), NEW n \in 1 .. Len(script),
         Copies(script[n])
  PROVE  n \notin run.skip
  <1>1. /\ TypeOK /\ FromDecisions /\ AllSteps[n] = script[n] /\ script[n] \in Steps
    BY RunStep DEF Known
  <1>2. n \in Passed
    BY DEF Passed
  <1>3. Check(db, script[n], run.undo) = IF n \in run.skip THEN "skip" ELSE "go"
    BY <1>1, <1>2 DEF Known, Undisturbed, ChecksPassed
  <1>4. AsCompared(db, script[n])
    BY DEF NoDrift
  <1>5. CASE script[n].kind = "drop_table"
    <2>1. Exists(db, script[n].tbl)
      BY <1>4, <1>5 DEF AsCompared, TableIs
    <2>2. Check(db, script[n], run.undo) = CheckDropTable(db, script[n], run.undo)
      BY <1>5 DEF Check
    <2>3. QED  BY <1>3, <2>1, <2>2 DEF CheckDropTable
  <1>6. CASE script[n].kind = "drop_column"
    <2>1. HasColumn(db, script[n].tbl, script[n].col)
      BY <1>4, <1>6 DEF AsCompared, ColumnIs
    <2>2. Check(db, script[n], run.undo) = CheckDropColumn(db, script[n], run.undo)
      BY <1>6 DEF Check
    <2>3. QED  BY <1>3, <2>1, <2>2 DEF CheckDropColumn
  <1>7. QED  BY <1>5, <1>6 DEF Copies

LEMMA NoDriftStays ==
  ASSUME script' = script, past'.origin = past.origin
  PROVE  /\ NoDrift(past.origin)' <=> NoDrift(past.origin)
         /\ \A s : /\ Keepable(past.origin, s)' <=> Keepable(past.origin, s)
                   /\ CopyOf(past.origin, s)' = CopyOf(past.origin, s)
  BY DEF NoDrift, AsCompared, Keepable, KeepsKey, DroppedColumns, LossyColumns, Loses,
         DroppedTables, CopyOf

LEMMA NoDriftBecomes ==
  ASSUME script' = script, past'.origin = db
  PROVE  /\ NoDrift(past.origin)' <=> NoDrift(db)
         /\ \A s : /\ Keepable(past.origin, s)' <=> Keepable(db, s)
                   /\ CopyOf(past.origin, s)' = CopyOf(db, s)
  BY DEF NoDrift, AsCompared, Keepable, KeepsKey, DroppedColumns, LossyColumns, Loses,
         DroppedTables, CopyOf

LEMMA CommitPastBackups ==
  ASSUME Known, ForwardBackups, PastBackups, Commit
  PROVE  PastBackups'
  <1>1. /\ run.phase = "verify" /\ Active /\ Running /\ db' = work /\ script' = script
        /\ run.undo => past'.state = "undone"
        /\ ~run.undo /\ past.state = "applied" => past'.origin = past.origin
        /\ ~run.undo /\ past.state # "applied" => past'.origin = db
    BY CommitDoes DEF Known
  <1>2. CASE run.undo
    BY <1>1, <1>2 DEF PastBackups
  <1>3. CASE ~run.undo /\ past.state = "applied"
    <2>1. work = db
      BY <1>1, <1>3 DEF Known, NothingToDo, Again
    <2>2. ASSUME NoDrift(past.origin)', NEW n \in 1 .. Len(script),
                 Keepable(past.origin, script[n])', BackedUp(work, BackupOf(script[n], FALSE))
          PROVE  work.bak[BackupOf(script[n], FALSE)] = CopyOf(past.origin, script[n])'
      <3>1. /\ NoDrift(past.origin) /\ Keepable(past.origin, script[n])
            /\ CopyOf(past.origin, script[n])' = CopyOf(past.origin, script[n])
        BY <1>1, <1>3, <2>2, NoDriftStays
      <3>2. QED  BY <1>3, <2>1, <2>2, <3>1 DEF PastBackups
    <2>3. QED  BY <1>1, <2>2 DEF PastBackups, BackedUp
  <1>4. CASE ~run.undo /\ past.state # "applied"
    <2>1. ASSUME NoDrift(past.origin)', NEW n \in 1 .. Len(script),
                 Keepable(past.origin, script[n])'
          PROVE  work.bak[BackupOf(script[n], FALSE)] = CopyOf(past.origin, script[n])'
      <3>1. /\ NoDrift(db) /\ Keepable(db, script[n])
            /\ CopyOf(past.origin, script[n])' = CopyOf(db, script[n])
        BY <1>1, <1>4, <2>1, NoDriftBecomes
      <3>2. Copies(script[n])
        BY <3>1 DEF Keepable, Copies
      <3>3. n \in Performed
        BY <1>1, <1>4, <3>1, <3>2, CopiesGoes DEF Performed
      <3>4. Forward
        BY <1>1, <1>4 DEF Forward
      <3>5. QED  BY <3>1, <3>2, <3>3, <3>4 DEF ForwardBackups
    <2>2. QED  BY <1>1, <2>1 DEF PastBackups
  <1>5. QED  BY <1>2, <1>3, <1>4

(* The backups of an applied script hold what it met.                       *)
LEMMA NextPastBackups ==
  ASSUME MaxWrites = 0, Known, ForwardBackups, PastBackups, [Next]_vars
  PROVE  PastBackups'
  <1>0. TypeOK /\ TypeOK' /\ Settled /\ RunStart /\ FromDecisions
    BY NextType DEF Known
  <1>1. CASE Commit
    BY <1>1, CommitPastBackups
  <1>2. CASE CleansUp
    <2>1. /\ script' = script /\ past' = past
          /\ \A b \in BackupNames : db'.bak[b] = db.bak[b] \/ db'.bak[b] = NoBackup
      BY <1>0, <1>2, CleansUpDoes
    <2>2. ASSUME past.state = "applied", NoDrift(past.origin)', NEW n \in 1 .. Len(script),
                 Keepable(past.origin, script[n])', BackedUp(db', BackupOf(script[n], FALSE))
          PROVE  db'.bak[BackupOf(script[n], FALSE)] = CopyOf(past.origin, script[n])'
      <3>1. /\ NoDrift(past.origin) /\ Keepable(past.origin, script[n])
            /\ CopyOf(past.origin, script[n])' = CopyOf(past.origin, script[n])
        BY <2>1, <2>2, NoDriftStays
      <3>2. BackupOf(script[n], FALSE) \in BackupNames
        BY <1>0, ForwardStep, BackupType DEF TypeOK
      <3>3. db'.bak[BackupOf(script[n], FALSE)] # NoBackup
        <4>1. NoBackup.cols = {}
          BY DEF NoBackup
        <4>2. db'.bak[BackupOf(script[n], FALSE)].cols # {}
          BY <2>2 DEF BackedUp
        <4>3. QED  BY <4>1, <4>2
      <3>4. db'.bak[BackupOf(script[n], FALSE)] = db.bak[BackupOf(script[n], FALSE)]
        BY <2>1, <3>2, <3>3
      <3>5. QED  BY <2>2, <3>1, <3>4 DEF PastBackups, BackedUp
    <2>3. QED  BY <2>1, <2>2 DEF PastBackups, BackedUp
  <1>3. CASE Stays \/ Blanks \/ SkipStep \/ CopyStep \/ ChangeStep \/ RecreateKeys \/ Replay
    <2>1. script' = script /\ db' = db /\ past'.origin = past.origin /\ past'.state = past.state
      BY <1>0, <1>3, StaysDoes, BlanksDoes, SkipDoes, CopyDoes, ChangeStepDoes, AdditionDoes
         DEF SameRest
    <2>2. ASSUME past.state = "applied", NoDrift(past.origin)', NEW n \in 1 .. Len(script),
                 Keepable(past.origin, script[n])', BackedUp(db, BackupOf(script[n], FALSE))
          PROVE  db.bak[BackupOf(script[n], FALSE)] = CopyOf(past.origin, script[n])'
      <3>1. /\ NoDrift(past.origin) /\ Keepable(past.origin, script[n])
            /\ CopyOf(past.origin, script[n])' = CopyOf(past.origin, script[n])
        BY <2>1, <2>2, NoDriftStays
      <3>2. QED  BY <2>2, <3>1 DEF PastBackups
    <2>3. QED  BY <2>1, <2>2 DEF PastBackups, BackedUp
  <1>4. QED  BY <1>0, <1>1, <1>2, <1>3, NextDoes

(* The undo script leaves the backups of the script alone.                  *)
LEMMA NextUndoBackups ==
  ASSUME MaxWrites = 0, Known, UndoBackups, [Next]_vars
  PROVE  UndoBackups'
  <1>0. TypeOK /\ TypeOK' /\ Settled /\ RunStart /\ FromDecisions
    BY NextType DEF Known
  <1>1. CASE Stays
    <2>1. /\ db' = db /\ work' = work /\ run' = run /\ past'.state = past.state /\ script' = script
      BY <1>1, StaysDoes
    <2>2. QED  BY <2>1 DEF UndoBackups, Undoing, Running
  <1>2. CASE Blanks
    BY <1>0, <1>2, BlanksDoes DEF UndoBackups
  <1>3. CASE SkipStep \/ CopyStep \/ ChangeStep \/ RecreateKeys \/ Replay
    <2>1. /\ script' = script /\ db' = db /\ past' = past /\ run'.undo = run.undo /\ Active
          /\ Active'
      BY <1>0, <1>3, SkipDoes, CopyDoes, ChangeStepDoes, AdditionDoes DEF SameRest
    <2>2. Undoing' => Undoing
      BY <2>1 DEF Undoing, Running, Active
    <2>3. ASSUME Undoing, NEW n \in 1 .. Len(script)
          PROVE  work'.bak[BackupOf(script[n], FALSE)] = work.bak[BackupOf(script[n], FALSE)]
      <3>1. CASE CopyStep
        <4>1. work \in Databases /\ Step \in Steps /\ run.undo = TRUE
          BY <1>0, <2>3, AtStep DEF Undoing
        <4>2. work' = Copy(work, Step, TRUE)
          BY <1>0, <3>1, <4>1, CopyDoes
        <4>3. BackupOf(script[n], FALSE) # BackupOf(Step, TRUE)
          BY DEF BackupOf, BackupName
        <4>4. BackupOf(script[n], FALSE) \in BackupNames
          BY <1>0, ForwardStep, BackupType DEF TypeOK
        <4>5. QED  BY <4>1, <4>2, <4>3, <4>4, CopyJournal
      <3>2. CASE ChangeStep
        BY <1>0, <3>2, ChangeStepDoes, ChangedDeps
      <3>3. CASE SkipStep \/ RecreateKeys \/ Replay
        BY <1>0, <3>3, SkipDoes, AdditionDoes
      <3>4. QED  BY <1>3, <3>1, <3>2, <3>3
    <2>4. QED  BY <2>1, <2>2, <2>3 DEF UndoBackups
  <1>4. CASE Commit \/ CleansUp
    BY <1>0, <1>4, CommitDoes, CleansUpDoes DEF UndoBackups, Undoing
  <1>5. QED  BY <1>0, <1>1, <1>2, <1>3, <1>4, NextDoes

(* A restored column is matched by the columns its check found.             *)
LEMMA NextByKnown ==
  ASSUME MaxWrites = 0, Known, ByKnown, [Next]_vars
  PROVE  ByKnown'
  <1>0. /\ TypeOK /\ TypeOK' /\ Settled /\ RunStart /\ run \in Runs /\ run.at \in Nat
        /\ Len(script) \in Nat
        /\ run.at \in 1 .. Len(script)
    BY NextType, AtStep DEF Known, TypeOK, Runs
  <1>1. ASSUME NEW undo \in BOOLEAN, Start(undo)  PROVE ByKnown'
    BY <1>1 DEF Start, Idle, ByKnown, Passed, Active
  <1>2. CASE Refuse \/ StatementFails \/ VerifyFails \/ Interrupt \/ LockTimeout \/ Commit
    <2>1. run' = Idle
      BY <1>2 DEF Refuse, StatementFails, VerifyFails, Interrupt, LockTimeout, RollBack, Commit
    <2>2. QED  BY <2>1 DEF ByKnown, Passed, Active, Idle
  <1>3. CASE CheckStep
    <2>1. /\ UNCHANGED <<script, db, work>> /\ work = db
          /\ run'.undo = run.undo /\ run.phase = "check"
          /\ run'.at = IF run.at = Len(script) THEN 1 ELSE run.at + 1
          /\ run'.phase = IF run.at = Len(script) THEN "apply" ELSE "check"
          /\ run'.by = [run.by EXCEPT ![run.at] =
                          IF Step.kind = "restore_column" THEN MatchColumns(work, Step) ELSE {}]
      BY <1>0, <1>3 DEF CheckStep, Runs, Settled
    <2>2. AllSteps' = AllSteps
      BY <2>1 DEF AllSteps
    <2>3. Passed = {n \in 1 .. Len(script) : n < run.at}
      BY <2>1 DEF Passed, Active
    <2>4. Passed' = {n \in 1 .. Len(script) : n <= run.at}
      BY <1>0, <2>1 DEF Passed, Active
    <2>5. run.by \in [Numbers -> SUBSET Columns] /\ run.at \in Numbers
      BY <1>0, AtStep DEF Runs
    <2>6. ASSUME NEW n \in Passed', AllSteps[n].kind = "restore_column"
          PROVE  run'.by[n] = MatchColumns(db, AllSteps[n])
      <3>1. CASE n = run.at
        BY <2>1, <2>5, <2>6, <3>1 DEF Step
      <3>2. CASE n # run.at
        <4>1. n \in Passed
          BY <1>0, <2>3, <2>4, <3>2
        <4>2. run'.by[n] = run.by[n]
          BY <2>1, <2>5, <3>2
        <4>3. QED  BY <2>6, <4>1, <4>2 DEF ByKnown
      <3>3. QED  BY <3>1, <3>2
    <2>7. QED  BY <2>1, <2>2, <2>6 DEF ByKnown
  <1>4. CASE SkipStep \/ CopyStep \/ ChangeStep \/ RecreateKeys \/ Replay
    <2>1. db' = db /\ script' = script /\ AllSteps' = AllSteps /\ Active /\ Active'
      BY <1>0, <1>4, SkipDoes, CopyDoes, ChangeStepDoes, AdditionDoes DEF SameRest
    <2>2. run'.by = run.by
      BY <1>0, <1>4 DEF SkipStep, CopyStep, ChangeStep, RecreateKeys, Replay, Advance, Runs
    <2>3. Passed' = Passed
      BY <2>1 DEF Passed
    <2>4. QED  BY <2>1, <2>2, <2>3 DEF ByKnown
  <1>5. CASE CleansUp
    <2>1. ~Running'
      BY <1>0, <1>5, CleansUpDoes
    <2>2. QED  BY <2>1 DEF ByKnown, Passed, Active, Running
  <1>6. CASE \E t \in Tables : Write(t) \/ Hold(t) \/ Release(t)
    <2>1. \A t \in Tables : ~Write(t)
      BY <1>0 DEF Write, TypeOK
    <2>2. UNCHANGED <<script, db, work, run>>
      BY <1>6, <2>1 DEF Hold, Release
    <2>3. QED  BY <2>2 DEF ByKnown, Passed, Active, AllSteps
  <1>7. CASE UNCHANGED vars
    BY <1>7 DEF vars, ByKnown, Passed, Active, AllSteps
  <1>8. QED
    BY <1>1, <1>2, <1>3, <1>4, <1>5, <1>6, <1>7 DEF Next, ScriptStep, CleansUp

-----------------------------------------------------------------------------------------
(* The values of an applied database that the script was not to change.     *)
LEMMA ScriptWordsStay ==
  ASSUME script' = script
  PROVE  /\ FilledColumns' = FilledColumns /\ DroppedColumns' = DroppedColumns
         /\ DroppedTables' = DroppedTables /\ LossyColumns' = LossyColumns
         /\ \A t, c : Loses(script, t, c)' <=> Loses(script, t, c)
  BY DEF FilledColumns, DroppedColumns, DroppedTables, LossyColumns, Loses

(* What a forward script changed of a value.                                *)
LEMMA ForwardCell ==
  ASSUME Known, Running, ~run.undo, Active, NoDrift(db), NEW t \in Tables, NEW c \in Columns,
         HasColumn(db, t, c), HasColumn(work, t, c)
  PROVE  /\ DOMAIN work.rows[t] = DOMAIN db.rows[t]
         /\ \A r \in DOMAIN work.rows[t] :
              \/ work.rows[t][r][c] = db.rows[t][r][c]
              \/ Loses(script, t, c)
              \/ <<t, c>> \in FilledColumns /\ db.rows[t][r][c] = Null
  <1>1. RowsKept(t, c)
    BY DEF Known, Undisturbed, CellsKept
  <1>2. ASSUME NEW r \in DOMAIN db.rows[t], NEW n \in Modifying(t, c),
               \/ Shortens(AllSteps[n], db.rows[t][r][c])
               \/ FillsNulls(AllSteps[n]) /\ db.rows[t][r][c] = Null
        PROVE  Loses(script, t, c) \/ (<<t, c>> \in FilledColumns /\ db.rows[t][r][c] = Null)
    <2>1. /\ n \in 1 .. Len(script) /\ AllSteps[n].kind = "modify_column"
          /\ AllSteps[n].tbl = t /\ AllSteps[n].col = c
      BY DEF Modifying, Performed
    <2>2. AllSteps[n] = script[n]
      BY DEF AllSteps
    <2>3. CASE Shortens(AllSteps[n], db.rows[t][r][c])
      BY <2>1, <2>2, <2>3 DEF Loses, Shortens
    <2>4. CASE FillsNulls(script[n]) /\ db.rows[t][r][c] = Null
      BY <2>1, <2>2, <2>4 DEF FilledColumns
    <2>5. QED  BY <1>2, <2>2, <2>3, <2>4
  <1>3. QED  BY <1>1, <1>2 DEF RowsKept, CellKept

LEMMA CommitOriginCells ==
  ASSUME Known, OriginCells, Commit
  PROVE  OriginCells'
  <1>1. /\ run.phase = "verify" /\ Active /\ Running /\ db' = work /\ script' = script
        /\ run.undo => past'.state = "undone"
        /\ ~run.undo /\ past.state = "applied" => past'.origin = past.origin
        /\ ~run.undo /\ past.state # "applied" => past'.origin = db
    BY CommitDoes DEF Known
  <1>2. CASE run.undo
    BY <1>1, <1>2 DEF OriginCells
  <1>3. CASE ~run.undo /\ past.state = "applied"
    <2>1. work = db
      BY <1>1, <1>3 DEF Known, NothingToDo, Again
    <2>2. NoDrift(past.origin)' => NoDrift(past.origin)
      BY <1>1, <1>3, NoDriftStays
    <2>3. FilledColumns' = FilledColumns /\ \A t, c : Loses(script, t, c)' <=> Loses(script, t, c)
      BY <1>1, ScriptWordsStay
    <2>4. QED  BY <1>1, <1>3, <2>1, <2>2, <2>3 DEF OriginCells, HasColumn
  <1>4. CASE ~run.undo /\ past.state # "applied"
    <2>1. NoDrift(past.origin)' => NoDrift(db)
      BY <1>1, <1>4, NoDriftBecomes
    <2>2. FilledColumns' = FilledColumns /\ \A t, c : Loses(script, t, c)' <=> Loses(script, t, c)
      BY <1>1, ScriptWordsStay
    <2>3. ASSUME NoDrift(db), NEW t \in Tables, NEW c \in Columns, HasColumn(db, t, c),
                 HasColumn(work, t, c)
          PROVE  /\ DOMAIN work.rows[t] = DOMAIN db.rows[t]
                 /\ \A r \in DOMAIN work.rows[t] :
                      \/ work.rows[t][r][c] = db.rows[t][r][c]
                      \/ Loses(script, t, c)
                      \/ <<t, c>> \in FilledColumns /\ db.rows[t][r][c] = Null
      BY <1>1, <1>4, <2>3, ForwardCell
    <2>4. QED  BY <1>1, <1>4, <2>1, <2>2, <2>3 DEF OriginCells, HasColumn
  <1>5. QED  BY <1>2, <1>3, <1>4

LEMMA NextOriginCells ==
  ASSUME MaxWrites = 0, Known, OriginCells, [Next]_vars
  PROVE  OriginCells'
  <1>0. TypeOK /\ TypeOK' /\ Settled /\ RunStart
    BY NextType DEF Known
  <1>1. CASE Commit
    BY <1>1, CommitOriginCells
  <1>2. CASE Stays \/ Blanks \/ SkipStep \/ CopyStep \/ ChangeStep \/ RecreateKeys \/ Replay
             \/ CleansUp
    <2>1. /\ script' = script /\ db'.cols = db.cols /\ db'.rows = db.rows
          /\ past'.origin = past.origin /\ past'.state = past.state
      BY <1>0, <1>2, StaysDoes, BlanksDoes, SkipDoes, CopyDoes, ChangeStepDoes, AdditionDoes,
         CleansUpDoes
      DEF SameRest
    <2>2. NoDrift(past.origin)' => NoDrift(past.origin)
      BY <2>1, NoDriftStays
    <2>3. FilledColumns' = FilledColumns /\ \A t, c : Loses(script, t, c)' <=> Loses(script, t, c)
      BY <2>1, ScriptWordsStay
    <2>4. QED  BY <2>1, <2>2, <2>3 DEF OriginCells, HasColumn
  <1>3. QED  BY <1>0, <1>1, <1>2, NextDoes

(* The key of a table keeps its values.                                     *)
LEMMA OriginPk ==
  ASSUME Known, PastGained, PastLost, past.state = "applied", NEW t \in Tables,
         KeepsKey(past.origin, t),
         t \notin DroppedTables
  PROVE  /\ PkColumns(db, t) = PkColumns(past.origin, t)
         /\ \A x \in past.origin.deps : x.kind = "pk" /\ x.tbl = t => x \in db.deps
  <1>1. ASSUME NEW x, x.kind = "pk", x.tbl = t, x \in past.origin.deps
        PROVE  x \in db.deps
    <2> SUFFICES ASSUME x \notin db.deps PROVE FALSE
      OBVIOUS
    <2>1. Excused(x)
      BY <1>1 DEF PastLost
    <2>2. PICK n \in 1 .. Len(script) :
            \/ script[n].kind = "drop_table" /\ OnTable(x, script[n].tbl)
            \/ script[n].kind = "drop_column" /\ OnColumn(x, script[n].tbl, script[n].col)
      BY <1>1, <2>1 DEF Excused
    <2>3. CASE script[n].kind = "drop_table" /\ OnTable(x, script[n].tbl)
      BY <1>1, <2>3 DEF OnTable, DroppedTables
    <2>4. CASE script[n].kind = "drop_column" /\ OnColumn(x, script[n].tbl, script[n].col)
      <3>1. script[n].tbl = t /\ script[n].col \in x.cols
        BY <1>1, <2>4 DEF OnColumn
      <3>2. script[n].col \in PkColumns(past.origin, t)
        BY <1>1, <3>1 DEF PkColumns
      <3>3. <<t, script[n].col>> \in DroppedColumns
        BY <2>4, <3>1 DEF DroppedColumns
      <3>4. QED  BY <3>2, <3>3 DEF KeepsKey
    <2>5. QED  BY <2>2, <2>3, <2>4
  <1>2. ASSUME NEW x, x.kind = "pk", x.tbl = t, x \in db.deps
        PROVE  x \in past.origin.deps
    BY <1>2 DEF PastGained
  <1>3. PkColumns(db, t) = PkColumns(past.origin, t)
    BY <1>1, <1>2, SamePk
  <1>4. QED  BY <1>1, <1>3

LEMMA KeyNotNull ==
  ASSUME NEW d, Sound(d), NullsFit(d), NEW t \in Tables, NEW k \in Columns, k \in PkColumns(d, t)
  PROVE  /\ HasColumn(d, t, k)
         /\ \A r \in DOMAIN d.rows[t] : d.rows[t][r][k] # Null
  <1>1. PICK x \in d.deps : x.kind = "pk" /\ x.tbl = t /\ k \in x.cols
    BY DEF PkColumns
  <1>2. HasColumn(d, t, k) /\ ~d.cols[t][k].null
    BY <1>1 DEF Sound, KeysSound
  <1>3. QED  BY <1>2 DEF NullsFit

(* An undo script brings a column back to the type it had, which held every *)
(* value that was there.                                                    *)
LEMMA UndoShortensNothing ==
  ASSUME TypeOK, FromDecisions, Active, run.undo, past.state = "applied", NoDrift(past.origin),
         past.origin \in Databases, Fits(past.origin), NEW t \in Tables, NEW c \in Columns,
         NEW m \in Modifying(t, c), NEW r \in DOMAIN past.origin.rows[t]
  PROVE  /\ ~Shortens(AllSteps[m], past.origin.rows[t][r][c])
         /\ past.origin.cols[t][c].null = AllSteps[m].target.null
  <1>1. /\ m \in 1 .. Len(script) /\ AllSteps[m].kind = "modify_column"
        /\ AllSteps[m].tbl = t /\ AllSteps[m].col = c
    BY DEF Modifying, Performed
  <1>2. /\ Undone(m) \in 1 .. Len(script) /\ Undoes(AllSteps[m], script[Undone(m)], Undone(m))
        /\ AllSteps[m] \in Steps
    BY <1>1, UndoStepFacts, RunStep
  <1>3. ColumnIs(past.origin, t, c, AllSteps[m].target)
    BY <1>1, <1>2 DEF Undoes, NoDrift, AsCompared
  <1>4. AllSteps[m].target.type \in Nat /\ past.origin.rows[t][r][c] \in Nat
    <2>1. past.origin.rows[t][r][c] \in Cells
      BY CellsOf
    <2>2. Cells \subseteq Nat
      BY SchemaAssumption DEF Cells
    <2>3. QED  BY <1>2, <2>1, <2>2, StepFields, AttributesFields
  <1>5. past.origin.cols[t][c].type = AllSteps[m].target.type
        /\ past.origin.cols[t][c].null = AllSteps[m].target.null
    BY <1>3 DEF ColumnIs, Stored
  <1>6. past.origin.rows[t][r][c] <= AllSteps[m].target.type
    BY <1>5 DEF Fits
  <1>7. QED  BY <1>4, <1>5, <1>6 DEF Shortens

LEMMA OriginKey ==
  ASSUME Known, CoherentRun, PastGained, PastLost, OriginCells, Undoing, Active,
         NoDrift(past.origin),
         NEW t \in Tables, KeepsKey(past.origin, t), t \notin DroppedTables,
         NEW k \in PkColumns(past.origin, t),
         HasColumn(work, t, k)
  PROVE  /\ DOMAIN work.rows[t] = DOMAIN past.origin.rows[t]
         /\ \A r \in DOMAIN work.rows[t] : work.rows[t][r][k] = past.origin.rows[t][r][k]
  <1>1. /\ TypeOK /\ FromDecisions /\ run.undo /\ past.state = "applied"
        /\ past.origin \in Databases
        /\ Coherent(past.origin) /\ Coherent(db)
    BY DEF Known, Undoing, TypeOK, Histories, CoherentRun
  <1>2. k \in Columns /\ PkColumns(db, t) = PkColumns(past.origin, t)
    BY <1>1, PkColumnsType, OriginPk
  <1>3. /\ HasColumn(past.origin, t, k)
        /\ \A r \in DOMAIN past.origin.rows[t] : past.origin.rows[t][r][k] # Null
    BY <1>1, <1>2, KeyNotNull DEF Coherent
  <1>4. HasColumn(db, t, k) /\ \A r \in DOMAIN db.rows[t] : db.rows[t][r][k] # Null
    BY <1>1, <1>2, KeyNotNull DEF Coherent
  <1>5. ~Loses(script, t, k)
    BY <1>2 DEF KeepsKey, LossyColumns
  <1>6. /\ DOMAIN db.rows[t] = DOMAIN past.origin.rows[t]
        /\ \A r \in DOMAIN db.rows[t] : db.rows[t][r][k] = past.origin.rows[t][r][k]
    BY <1>1, <1>2, <1>3, <1>4, <1>5 DEF OriginCells
  <1>7. RowsKept(t, k)
    BY <1>2, <1>4 DEF Known, Undisturbed, CellsKept
  <1>8. ASSUME NEW n \in Modifying(t, k), NEW r \in DOMAIN db.rows[t]
        PROVE  ~Shortens(AllSteps[n], db.rows[t][r][k])
    <2>1. Fits(past.origin) /\ r \in DOMAIN past.origin.rows[t]
      BY <1>1, <1>6 DEF Coherent, Sound
    <2>2. db.rows[t][r][k] = past.origin.rows[t][r][k]
      BY <1>6
    <2>3. QED  BY <1>1, <1>2, <2>1, <2>2, UndoShortensNothing
  <1>9. DOMAIN work.rows[t] = DOMAIN db.rows[t]
      /\ \A r \in DOMAIN db.rows[t] : work.rows[t][r][k] = db.rows[t][r][k]
    BY <1>4, <1>7, <1>8 DEF RowsKept, CellKept
  <1>10. QED  BY <1>6, <1>9

RestoredStep(s) ==
  /\ s.kind = "restore_table" => /\ Exists(work, s.tbl)
                                 /\ work.rows[s.tbl] = past.origin.rows[s.tbl]
  /\ s.kind = "restore_column" => HasColumn(work, s.tbl, s.col)
  /\ s.kind = "restore_column" /\ KeepsKey(past.origin, s.tbl) =>
       \A r \in DOMAIN work.rows[s.tbl] :
         work.rows[s.tbl][r][s.col] = past.origin.rows[s.tbl][r][s.col]

LEMMA RestoredIs ==
  Restored <=> (Undoing /\ NoDrift(past.origin) => \A m \in Performed : RestoredStep(AllSteps[m]))
  BY DEF Restored, RestoredStep

LEMMA RowsEqual ==
  ASSUME NEW d \in Databases, NEW e \in Databases, NEW t \in Tables,
         DOMAIN e.rows[t] = DOMAIN d.rows[t],
         \A c \in Columns : \A r \in DOMAIN d.rows[t] : e.rows[t][r][c] = d.rows[t][r][c]
  PROVE  e.rows[t] = d.rows[t]
  <1> DEFINE S == DOMAIN d.rows[t]
  <1>1. d.rows[t] \in [S -> Rows] /\ e.rows[t] \in [S -> Rows]
    BY DatabaseFields, RowSetElim
  <1>2. \A r \in S : e.rows[t][r] = d.rows[t][r]
    BY <1>1 DEF Rows
  <1>3. QED  BY <1>1, <1>2

-----------------------------------------------------------------------------------------
(* What is known of an undo step and of the step of the script it undoes.   *)
LEMMA UndoingAt ==
  ASSUME Known, Undoing, Applying
  PROVE  /\ TypeOK /\ FromDecisions /\ Active /\ run.phase = "apply" /\ Step \in Steps
         /\ Undone(run.at) \in 1 .. Len(script)
         /\ Undoes(Step, script[Undone(run.at)], Undone(run.at))
         /\ Check(db, Step, TRUE) = "go" /\ Step.kind # "unsupported"
  <1>1. /\ TypeOK /\ FromDecisions /\ Active /\ run.phase = "apply" /\ Step \in Steps
        /\ ChecksPassed
    BY AtStep DEF Known, Undisturbed, Applying, Active
  <1>2. run.undo = TRUE /\ run.at \in 1 .. Len(script)
    BY <1>1, AtStep DEF Undoing, TypeOK
  <1>3. Undone(run.at) \in 1 .. Len(script) /\ Undoes(Step, script[Undone(run.at)], Undone(run.at))
    BY <1>1, <1>2, UndoStepFacts, RunStep DEF Step
  <1>4. Check(db, Step, TRUE) = "go"
    BY <1>1, <1>2, StepChecked
  <1>5. QED  BY <1>1, <1>3, <1>4, GoNeeds

LEMMA UndoingStep ==
  ASSUME Known, Undoing, ChangeStep
  PROVE  /\ TypeOK /\ FromDecisions /\ Active /\ run.phase = "apply" /\ Applying /\ Step \in Steps
         /\ Undone(run.at) \in 1 .. Len(script)
         /\ Undoes(Step, script[Undone(run.at)], Undone(run.at))
         /\ Check(db, Step, TRUE) = "go" /\ Step.kind # "unsupported"
         /\ work' = Changed(work, Step) /\ CanChange(work, Step)
  <1>1. Applying /\ work' = Changed(work, Step) /\ CanChange(work, Step)
    BY ChangeStepDoes DEF Known
  <1>2. QED  BY <1>1, UndoingAt

(* A step after one that restores leaves what was restored alone.           *)
LEMMA RestoredUntouched ==
  ASSUME Known, Undoing, NoDrift(past.origin), ChangeStep, NEW m \in Performed,
         RestoredStep(AllSteps[m]), NEW c \in Columns,
         AllSteps[m].kind = "restore_table"
             \/ (AllSteps[m].kind = "restore_column" /\ c = AllSteps[m].col)
  PROVE  ~Touches(Step, AllSteps[m].tbl, c)
  <1> DEFINE s == AllSteps[m]
             op == script[Undone(m)]
             after == script[Undone(run.at)]
  <1> SUFFICES ASSUME Touches(Step, s.tbl, c) PROVE FALSE
    OBVIOUS
  <1>1. /\ TypeOK /\ FromDecisions /\ Undone(run.at) \in 1 .. Len(script)
        /\ Undoes(Step, after, Undone(run.at)) /\ CanChange(work, Step) /\ Step \in Steps
        /\ Step.kind # "unsupported" /\ run.phase = "apply"
    BY UndoingStep
  <1>2. m \in 1 .. Len(script) /\ m < run.at /\ run.at \in 1 .. Len(script)
    BY <1>1 DEF Performed, TypeOK
  <1>3. Undone(m) \in 1 .. Len(script) /\ Undone(run.at) < Undone(m) /\ Undoes(s, op, Undone(m))
    <2>1. Undone(m) \in 1 .. Len(script) /\ Undoes(s, op, Undone(m))
      BY <1>1, <1>2, UndoStepFacts, RunStep DEF Undoing
    <2>2. Len(script) \in Nat
      BY <1>1 DEF TypeOK
    <2>3. QED  BY <1>2, <2>1, <2>2 DEF Undone
  <1>4. /\ op.kind = "drop_table" => after.kind \in {"create_table", "drop_table"}
        /\ op.kind = "drop_column" => after.kind \notin ColumnKinds
        /\ after.kind \in ForwardKinds
    BY <1>1, <1>3, DropOrder, ForwardStep
  <1>5. AsCompared(past.origin, op) /\ AsCompared(past.origin, after)
    BY <1>1, <1>3 DEF NoDrift
  <1>6. Step.tbl = s.tbl /\ (Step.kind \in TableKinds \/ Step.col = c)
    BY DEF Touches
  <1>7. s.tbl = op.tbl /\ s.col = op.col /\ Step.tbl = after.tbl
    BY <1>1, <1>3 DEF Undoes
  <1>8. CASE s.kind = "restore_table"
    <2>1. op.kind = "drop_table" /\ Exists(work, s.tbl)
      BY <1>3, <1>8 DEF Undoes, RestoredStep
    <2>2. Exists(past.origin, s.tbl)
      BY <1>5, <1>7, <2>1 DEF AsCompared, TableIs
    <2>3. after.kind # "create_table"
      BY <1>5, <1>6, <1>7, <2>2 DEF AsCompared
    <2>4. Step.kind = "restore_table"
      BY <1>1, <1>4, <2>1, <2>3 DEF Undoes, UndoKinds
    <2>5. ~Exists(work, Step.tbl)
      BY <1>1, <2>4 DEF CanChange, CanRestoreTable
    <2>6. QED  BY <1>6, <2>1, <2>5
  <1>9. CASE s.kind = "restore_column" /\ c = s.col
    <2>1. op.kind = "drop_column" /\ HasColumn(work, s.tbl, s.col)
      BY <1>3, <1>9, SMTT(40) DEF Undoes, RestoredStep
    <2>2. HasColumn(past.origin, s.tbl, s.col)
      BY <1>5, <1>7, <2>1 DEF AsCompared, ColumnIs
    <2>3. after.kind # "create_table"
      BY <1>5, <1>6, <1>7, <1>9, <2>2 DEF AsCompared, Exists
    <2>4. Step.kind \in {"restore_table", "restore_column"}
      BY <1>1, <1>4, <2>1, <2>3 DEF Undoes, UndoKinds, ColumnKinds
    <2>5. CASE Step.kind = "restore_table"
      <3>1. ~Exists(work, Step.tbl)
        BY <1>1, <2>5 DEF CanChange, CanRestoreTable
      <3>2. QED  BY <1>6, <1>9, <2>1, <3>1 DEF Exists
    <2>6. CASE Step.kind = "restore_column"
      <3>1. ~HasColumn(work, Step.tbl, Step.col)
        BY <1>1, <2>6 DEF CanChange, CanRestoreColumn
      <3>2. Step.col = s.col
        BY <1>6, <1>9, <2>6 DEF TableKinds
      <3>3. QED  BY <1>6, <2>1, <3>1, <3>2
    <2>7. QED  BY <2>4, <2>5, <2>6
  <1>10. QED  BY <1>8, <1>9

LEMMA RestoredStays ==
  ASSUME Known, Undoing, NoDrift(past.origin), ChangeStep, past'.origin = past.origin,
         script' = script,
         AllSteps' = AllSteps, NEW m \in Performed, RestoredStep(AllSteps[m])
  PROVE  RestoredStep(AllSteps[m])'
  <1> DEFINE s == AllSteps[m]
  <1>1. /\ TypeOK /\ FromDecisions /\ work' = Changed(work, Step) /\ CanChange(work, Step)
        /\ work \in Databases /\ work' \in Databases /\ m \in 1 .. Len(script) /\ s \in Steps
    BY UndoingStep, ScriptStepType, AtStep, RunStep DEF ScriptStep, TypeOK, Performed
  <1>2. Frame(work, work', {Step})
    BY <1>1, ChangeFrame
  <1>3. s.tbl \in Tables /\ s.col \in Columns
    BY <1>1 DEF Steps
  <1>4. KeepsKey(past.origin, s.tbl)' <=> KeepsKey(past.origin, s.tbl)
    BY <1>1, ScriptWordsStay DEF KeepsKey
  <1>5. CASE s.kind = "restore_table"
    <2>1. \A c \in Columns : ~Touches(Step, s.tbl, c)
      BY <1>5, RestoredUntouched
    <2>2. \A c \in Columns : SameColumn(work, work', s.tbl, c)
      BY <1>2, <1>3, <2>1 DEF Frame
    <2>3. \E c \in Columns : HasColumn(work, s.tbl, c)
      BY <1>5 DEF RestoredStep, Exists
    <2>4. Exists(work', s.tbl) /\ DOMAIN work'.rows[s.tbl] = DOMAIN work.rows[s.tbl]
      BY <2>2, <2>3 DEF Exists, HasColumn, SameColumn, Keeps
    <2>5. \A c \in Columns : \A r \in DOMAIN work.rows[s.tbl] :
             work'.rows[s.tbl][r][c] = work.rows[s.tbl][r][c]
      BY <2>2 DEF SameColumn, Keeps
    <2>6. work'.rows[s.tbl] = work.rows[s.tbl]
      BY <1>1, <1>3, <2>4, <2>5, RowsEqual, SMTT(40)
    <2>7. QED  BY <1>5, <2>4, <2>6 DEF RestoredStep, Exists, HasColumn
  <1>6. CASE s.kind = "restore_column"
    <2>1. SameColumn(work, work', s.tbl, s.col)
      BY <1>2, <1>3, <1>6, RestoredUntouched DEF Frame
    <2>2. HasColumn(work, s.tbl, s.col)
      BY <1>6, SMTT(40) DEF RestoredStep
    <2>3. /\ HasColumn(work', s.tbl, s.col) /\ DOMAIN work'.rows[s.tbl] = DOMAIN work.rows[s.tbl]
          /\ \A r \in DOMAIN work.rows[s.tbl] :
               work'.rows[s.tbl][r][s.col] = work.rows[s.tbl][r][s.col]
      BY <2>1, <2>2, ZenonT(60) DEF SameColumn, Keeps, HasColumn
    <2>4. QED  BY <1>4, <1>6, <2>3, ZenonT(60) DEF RestoredStep, HasColumn
  <1>7. CASE s.kind \notin RestoreKinds
    BY <1>7 DEF RestoredStep, RestoreKinds
  <1>8. QED  BY <1>5, <1>6, <1>7 DEF RestoreKinds

(* A restored table has the rows it had.                                    *)
LEMMA TableRestored ==
  ASSUME Known, CoherentRun, PastBackups, UndoBackups, Undoing, NoDrift(past.origin), ChangeStep,
         Step.kind = "restore_table"
  PROVE  /\ Exists(work', Step.tbl)
         /\ work'.rows[Step.tbl] = past.origin.rows[Step.tbl]
  <1> DEFINE t == Step.tbl
             op == script[Undone(run.at)]
             old == past.origin
  <1>1. /\ TypeOK /\ Undone(run.at) \in 1 .. Len(script) /\ Step \in Steps
        /\ Undoes(Step, op, Undone(run.at)) /\ Check(db, Step, TRUE) = "go"
        /\ work' = Changed(work, Step) /\ work \in Databases /\ work' \in Databases
        /\ old \in Databases /\ t \in Tables
    BY UndoingStep, AtStep, ScriptStepType DEF ScriptStep, TypeOK, Histories, Steps
  <1>2. /\ op.kind = "drop_table" /\ op.tbl = t /\ op.table = Step.table
        /\ \E c \in Columns : Step.table[c].type # 0
    BY <1>1 DEF Undoes
  <1>3. BackupOf(op, FALSE) = BackupName(t, Whole, FALSE)
    BY <1>2 DEF BackupOf
  <1>4. BackedUp(db, BackupName(t, Whole, FALSE))
    BY <1>1 DEF Check, CheckRestoreTable
  <1>5. work.bak[BackupName(t, Whole, FALSE)] = CopyOf(old, op)
    <2>1. db.bak[BackupOf(op, FALSE)] = CopyOf(old, op)
      BY <1>1, <1>2, <1>3, <1>4 DEF PastBackups, Keepable, Undoing
    <2>2. work.bak[BackupOf(op, FALSE)] = db.bak[BackupOf(op, FALSE)]
      BY <1>1 DEF UndoBackups
    <2>3. QED  BY <1>3, <2>1, <2>2
  <1>6. TableIs(old, t, Step.table)
    BY <1>1, <1>2 DEF NoDrift, AsCompared
  <1>7. ASSUME NEW c \in Columns
        PROVE  (Step.table[c].type # 0 <=> HasColumn(old, t, c))
               /\ (c \in Backup(old, op) <=> HasColumn(old, t, c))
    <2>1. Step.table[c].type # 0 <=> HasColumn(old, t, c)
      BY <1>6 DEF TableIs, ColumnIs
    <2>2. Backup(old, op) = {k \in Columns : HasColumn(old, t, k)}
      BY <1>2 DEF Backup
    <2>3. QED  BY <2>1, <2>2
  <1>8. work'.rows[t] = RestoredRows(work, Step) /\ work'.cols[t] = MadeColumns(Step)
    BY <1>1, MakeTableShape DEF Changed, TableBecomes
  <1>9. /\ DOMAIN CopyOf(old, op).rows = DOMAIN old.rows[t]
        /\ \A r \in DOMAIN old.rows[t], c \in Columns :
             CopyOf(old, op).rows[r][c] = IF c \in Backup(old, op) THEN old.rows[t][r][c] ELSE Null
    BY <1>2 DEF CopyOf
  <1>10. /\ DOMAIN RestoredRows(work, Step) = DOMAIN old.rows[t]
         /\ \A r \in DOMAIN old.rows[t], c \in Columns :
              RestoredRows(work, Step)[r][c] =
                IF Step.table[c].type # 0 THEN CopyOf(old, op).rows[r][c] ELSE Null
    BY <1>5, <1>9 DEF RestoredRows
  <1>11. ASSUME NEW c \in Columns, NEW r \in DOMAIN old.rows[t]
         PROVE  work'.rows[t][r][c] = old.rows[t][r][c]
    <2>1. CASE HasColumn(old, t, c)
      BY <1>7, <1>8, <1>9, <1>10, <2>1
    <2>2. CASE ~HasColumn(old, t, c)
      <3>1. old.rows[t][r][c] \in Nat /\ old.rows[t][r][c] <= 0
        <4>1. old.rows[t][r][c] \in Cells
          BY <1>1, CellsOf
        <4>2. old.rows[t][r][c] <= old.cols[t][c].type
          BY <1>1 DEF CoherentRun, Coherent, Sound, Fits
        <4>3. QED  BY <2>2, <4>1, <4>2, SchemaAssumption DEF HasColumn, Cells
      <3>2. old.rows[t][r][c] = 0
        BY <3>1
      <3>3. QED  BY <1>7, <1>8, <1>10, <2>2, <3>2 DEF Null
    <2>3. QED  BY <2>1, <2>2
  <1>12. work'.rows[t] = old.rows[t]
    BY <1>1, <1>8, <1>10, <1>11, RowsEqual
  <1>13. Exists(work', t)
    <2>1. PICK c \in Columns : Step.table[c].type # 0
      BY <1>2
    <2>2. work'.cols[t][c] = Stored(Step.table[c])
      BY <1>8, <2>1 DEF MadeColumns
    <2>3. QED  BY <2>1, <2>2 DEF Exists, HasColumn, Stored
  <1>14. QED  BY <1>12, <1>13

-----------------------------------------------------------------------------------------
(* The key of a table that has one tells its rows apart.                    *)
LEMMA KeyApart ==
  ASSUME NEW d \in Databases, KeysUnique(d), NEW t \in Tables, PkColumns(d, t) # {},
         NEW q \in DOMAIN d.rows[t], NEW r \in DOMAIN d.rows[t],
         \A k \in PkColumns(d, t) : d.rows[t][q][k] = d.rows[t][r][k]
  PROVE  q = r
  <1>1. PICK x \in d.deps : x.kind = "pk" /\ x.tbl = t
    BY DEF PkColumns
  <1>2. x.cols \subseteq PkColumns(d, t)
    BY <1>1 DEF PkColumns
  <1>3. QED  BY <1>1, <1>2 DEF KeysUnique

(* What a restored column finds its rows by.                                *)
LEMMA RestoredBy ==
  ASSUME Known, PastGained, PastLost, PastBackups, UndoBackups, ByKnown,
         Undoing, NoDrift(past.origin), Applying, Step.kind = "restore_column",
         KeepsKey(past.origin, Step.tbl)
  PROVE  LET op == script[Undone(run.at)] IN
         /\ Step.tbl \notin DroppedTables
         /\ op.kind = "drop_column" /\ op.tbl = Step.tbl /\ op.col = Step.col
         /\ run.by[run.at] = PkColumns(past.origin, Step.tbl)
         /\ Step.col \notin PkColumns(past.origin, Step.tbl)
         /\ Backup(past.origin, op) = PkColumns(past.origin, Step.tbl) \cup {Step.col}
         /\ work.bak[BackupName(Step.tbl, {Step.col}, FALSE)] = CopyOf(past.origin, op)
  <1> DEFINE t == Step.tbl
             op == script[Undone(run.at)]
             old == past.origin
             pk == PkColumns(past.origin, Step.tbl)
             name == BackupName(t, {Step.col}, FALSE)
  <1>1. /\ TypeOK /\ Undone(run.at) \in 1 .. Len(script) /\ Step \in Steps
        /\ Undoes(Step, op, Undone(run.at)) /\ Check(db, Step, TRUE) = "go"
        /\ t \in Tables /\ past.state = "applied" /\ Active
    BY UndoingAt DEF Steps, Undoing
  <1>2. op.kind = "drop_column" /\ op.tbl = t /\ op.col = Step.col
    BY <1>1 DEF Undoes
  <1>3. BackupOf(op, FALSE) = name
    BY <1>2 DEF BackupOf
  <1>4. t \notin DroppedTables
    <2> SUFFICES ASSUME NEW n \in 1 .. Len(script), script[n].kind = "drop_table", script[n].tbl = t
                 PROVE FALSE
      BY DEF DroppedTables
    <2>1. Goal(db, script[n])
      BY <1>1 DEF Known, AllApplied, AppliedSteps
    <2>2. ~Exists(db, t)
      BY <2>1 DEF Goal
    <2>3. QED  BY <1>1, <2>2, GoNeeds
  <1>5. Keepable(old, op)
    BY <1>2, <1>4 DEF KeepsKey, Keepable
  <1>6. BackedUp(db, name) /\ ~ColumnIs(db, t, Step.col, Step.target)
    BY <1>1 DEF Check, CheckRestoreColumn
  <1>7. db.bak[name] = CopyOf(old, op)
    BY <1>1, <1>3, <1>5, <1>6 DEF PastBackups
  <1>8. work.bak[name] = CopyOf(old, op)
    BY <1>1, <1>3, <1>7 DEF UndoBackups
  <1>9. Step.col \notin pk /\ pk # {}
    <2>1. <<t, Step.col>> \in DroppedColumns
      BY <1>1, <1>2 DEF DroppedColumns
    <2>2. QED  BY <2>1 DEF KeepsKey
  <1>10. Backup(old, op) = pk \cup {Step.col}
    BY <1>2, <1>9 DEF Backup
  <1>11. PkColumns(db, t) = pk
    BY <1>1, <1>4, OriginPk
  <1>12. run.by[run.at] = MatchColumns(db, Step)
    <2>1. run.at \in Passed
      BY <1>1 DEF Passed, TypeOK
    <2>2. QED  BY <2>1 DEF ByKnown, Step
  <1>13. db.bak[name].cols \ {Step.col} = pk
    <2>1. CopyOf(old, op).cols = Backup(old, op)
      BY DEF CopyOf
    <2>2. QED  BY <1>7, <1>9, <1>10, <2>1
  <1>14. MatchColumns(db, Step) = pk
    BY <1>11, <1>13 DEF MatchColumns
  <1>15. QED  BY <1>2, <1>4, <1>8, <1>9, <1>10, <1>12, <1>14

LEMMA RestoredValue ==
  ASSUME Known, CoherentRun, PastGained, PastLost, OriginCells, PastBackups, UndoBackups, ByKnown,
         Undoing, NoDrift(past.origin), Applying, Step.kind = "restore_column",
         KeepsKey(past.origin, Step.tbl), \A k \in run.by[run.at] : HasColumn(work, Step.tbl, k),
         NEW r \in DOMAIN work.rows[Step.tbl]
  PROVE  /\ r \in DOMAIN past.origin.rows[Step.tbl]
         /\ RestoredCell(work, Step, work.rows[Step.tbl][r], run.by[run.at]) =
              past.origin.rows[Step.tbl][r][Step.col]
  <1> DEFINE t == Step.tbl
             c == Step.col
             op == script[Undone(run.at)]
             old == past.origin
             pk == PkColumns(past.origin, Step.tbl)
             by == run.by[run.at]
             copy == CopyOf(past.origin, op).rows
  <1>1. /\ TypeOK /\ Step \in Steps /\ t \in Tables /\ c \in Columns /\ Active
        /\ work \in Databases /\ old \in Databases
    BY UndoingAt, AtStep DEF Steps, TypeOK, Histories
  <1>2. /\ t \notin DroppedTables /\ op.tbl = t /\ op.col = c /\ by = pk /\ c \notin pk
        /\ Backup(old, op) = pk \cup {c} /\ pk # {}
        /\ work.bak[BackupName(t, {c}, FALSE)] = CopyOf(old, op)
    BY RestoredBy DEF KeepsKey
  <1>3. \A k \in pk : HasColumn(work, t, k)
    BY <1>2
  <1>4. \A k \in pk : /\ DOMAIN work.rows[t] = DOMAIN old.rows[t]
                      /\ \A q \in DOMAIN work.rows[t] : work.rows[t][q][k] = old.rows[t][q][k]
    BY <1>1, <1>2, <1>3, OriginKey, SMTT(40)
  <1>5. r \in DOMAIN old.rows[t] /\ DOMAIN copy = DOMAIN old.rows[t]
    BY <1>2, <1>4 DEF CopyOf
  <1>6. pk \subseteq Columns
    BY <1>1, PkColumnsType, SMTT(40)
  <1>7. \A q \in DOMAIN old.rows[t], k \in Columns :
          k \in pk \cup {c} => copy[q][k] = old.rows[t][q][k]
    BY <1>2, <1>6 DEF CopyOf
  <1>8. \A k \in pk : copy[r][k] = work.rows[t][r][k]
    BY <1>4, <1>5, <1>6, <1>7
  <1>9. ASSUME NEW q \in DOMAIN copy, \A k \in pk : copy[q][k] = work.rows[t][r][k]
        PROVE  q = r
    <2>1. \A k \in pk : old.rows[t][q][k] = old.rows[t][r][k]
      BY <1>4, <1>5, <1>6, <1>7, <1>9
    <2>2. KeysUnique(old)
      BY DEF CoherentRun, Coherent
    <2>3. QED  BY <1>1, <1>2, <1>5, <1>9, <2>1, <2>2, KeyApart
  <1>10. RestoredCell(work, Step, work.rows[t][r], by) = copy[r][c]
    <2>1. work.bak[BackupName(Step.tbl, {Step.col}, FALSE)].rows = copy
      BY <1>2
    <2>2. \A q \in DOMAIN copy : (\A k \in pk : copy[q][k] = work.rows[t][r][k]) => q = r
      BY <1>9
    <2>3. r \in DOMAIN copy /\ pk # {} /\ by = pk
      BY <1>2, <1>5
    <2> HIDE DEF pk, copy, by
    <2>4. RestoredCell(work, Step, work.rows[t][r], pk) = copy[r][Step.col]
      <3>1. Matches(copy, work.rows[t][r], pk) = {copy[r]}
        BY <1>8, <2>2, <2>3 DEF Matches
      <3>2. (CHOOSE b \in {copy[r]} : TRUE) = copy[r]
        OBVIOUS
      <3>3. QED  BY <2>1, <2>3, <3>1, <3>2 DEF RestoredCell
    <2>5. QED  BY <2>3, <2>4
  <1>11. QED  BY <1>1, <1>5, <1>7, <1>10

LEMMA ColumnRestored ==
  ASSUME Known, CoherentRun, PastGained, PastLost, OriginCells, PastBackups, UndoBackups, ByKnown,
         Undoing, NoDrift(past.origin), ChangeStep, Step.kind = "restore_column"
  PROVE  /\ HasColumn(work', Step.tbl, Step.col)
         /\ KeepsKey(past.origin, Step.tbl) =>
              \A r \in DOMAIN work'.rows[Step.tbl] :
                work'.rows[Step.tbl][r][Step.col] = past.origin.rows[Step.tbl][r][Step.col]
  <1> DEFINE t == Step.tbl
             c == Step.col
             op == script[Undone(run.at)]
             old == past.origin
             by == run.by[run.at]
  <1>1. /\ TypeOK /\ Step \in Steps /\ Undoes(Step, op, Undone(run.at)) /\ Applying
        /\ t \in Tables /\ c \in Columns /\ Active /\ work \in Databases
        /\ work' = RestoreColumn(work, Step, by) /\ CanRestoreColumn(work, Step, by)
        /\ old \in Databases
    BY UndoingStep, AtStep DEF Steps, Changed, CanChange, TypeOK, Histories
  <1>2. ColumnBecomes(work, work', t, c, Stored(Step.target),
                      [r \in DOMAIN work.rows[t] |-> RestoredCell(work, Step, work.rows[t][r], by)])
    BY <1>1, RestoreColumnShape
  <1>3. HasColumn(work', t, c)
    <2>1. work'.cols[t][c] = Stored(Step.target) /\ Step.target.type # 0
      BY <1>1, <1>2, SMTT(40) DEF ColumnBecomes, Undoes
    <2>2. QED  BY <2>1, SMTT(40) DEF HasColumn, Stored
  <1>4. ASSUME KeepsKey(past.origin, t), NEW r \in DOMAIN work'.rows[t]
        PROVE  work'.rows[t][r][c] = old.rows[t][r][c]
    <2>1. \A k \in by : HasColumn(work, t, k)
      BY <1>1 DEF CanRestoreColumn
    <2>2. r \in DOMAIN work.rows[t]
      BY <1>1, <1>2 DEF ColumnBecomes
    <2>3. RestoredCell(work, Step, work.rows[t][r], by) = old.rows[t][r][c]
      BY <1>1, <1>4, <2>1, <2>2, RestoredValue
    <2>4. work'.rows[t][r][c] = RestoredCell(work, Step, work.rows[t][r], by)
      BY <1>1, <1>2, <2>2 DEF ColumnBecomes
    <2>5. QED  BY <2>3, <2>4
  <1>5. QED  BY <1>3, <1>4

(* What an undo script has restored is as it was.                           *)
LEMMA NextRestored ==
  ASSUME MaxWrites = 0, Known, CoherentRun, PastGained, PastLost, OriginCells, PastBackups,
         UndoBackups, ByKnown, Restored, [Next]_vars
  PROVE  Restored'
  <1>0. TypeOK /\ TypeOK' /\ Settled /\ RunStart
    BY NextType DEF Known
  <1>1. CASE Stays \/ SkipStep \/ CopyStep \/ RecreateKeys \/ Replay
    <2>1. /\ script' = script /\ work'.cols = work.cols /\ work'.rows = work.rows
          /\ past'.origin = past.origin /\ past'.state = past.state
          /\ AllSteps' = AllSteps /\ Performed' = Performed /\ (Undoing' => Undoing)
      BY <1>0, <1>1, StaysDoes, SkipDoes, CopyDoes, AdditionDoes
         DEF SameRest, Undoing, Running, Active, Stays
    <2>2. NoDrift(past.origin)' => NoDrift(past.origin)
      BY <2>1, NoDriftStays
    <2>3. \A t : KeepsKey(past.origin, t)' <=> KeepsKey(past.origin, t)
      BY <2>1, ScriptWordsStay DEF KeepsKey
    <2>4. QED  BY <2>1, <2>2, <2>3 DEF Restored, Exists, HasColumn
  <1>2. CASE Blanks
    BY <1>0, <1>2, BlanksDoes DEF Restored
  <1>3. CASE Commit \/ CleansUp
    BY <1>0, <1>3, CommitDoes, CleansUpDoes DEF Restored, Undoing
  <1>4. CASE ChangeStep
    <2>1. /\ script' = script /\ past' = past /\ AllSteps' = AllSteps
          /\ Performed' = Performed \cup {run.at} /\ (Undoing' => Undoing)
      BY <1>0, <1>4, ChangeStepDoes DEF SameRest, Undoing, Running, Active
    <2>2. NoDrift(past.origin)' => NoDrift(past.origin)
      BY <2>1, NoDriftStays
    <2>3. ASSUME Undoing, NoDrift(past.origin), NEW m \in Performed
          PROVE  RestoredStep(AllSteps[m])'
      BY <1>4, <2>1, <2>3, RestoredStays, RestoredIs
    <2>4. ASSUME Undoing, NoDrift(past.origin), NEW m \in {run.at}
          PROVE  RestoredStep(AllSteps[m])'
      <3>1. AllSteps[m] = Step
        BY DEF Step
      <3>2. Step.kind = "restore_table" => /\ Exists(work', Step.tbl)
                                           /\ work'.rows[Step.tbl] = past.origin.rows[Step.tbl]
        BY <1>4, <2>4, TableRestored
      <3>3. Step.kind = "restore_column" =>
              /\ HasColumn(work', Step.tbl, Step.col)
              /\ KeepsKey(past.origin, Step.tbl) =>
                   \A r \in DOMAIN work'.rows[Step.tbl] :
                     work'.rows[Step.tbl][r][Step.col] = past.origin.rows[Step.tbl][r][Step.col]
        BY <1>4, <2>4, ColumnRestored
      <3>4. KeepsKey(past.origin, AllSteps[m].tbl)' <=> KeepsKey(past.origin, AllSteps[m].tbl)
        BY <2>1, ScriptWordsStay DEF KeepsKey
      <3>5. /\ AllSteps'[m].kind = Step.kind /\ AllSteps'[m].tbl = Step.tbl
            /\ AllSteps'[m].col = Step.col
        BY <2>1, <3>1
      <3>6. KeepsKey(past.origin, AllSteps[m].tbl)' <=> KeepsKey(past.origin, Step.tbl)
        BY <3>1, <3>4
      <3>7. past'.origin = past.origin
        BY <2>1
      <3>8. CASE Step.kind = "restore_table"
        BY <3>2, <3>5, <3>7, <3>8 DEF RestoredStep, Exists, HasColumn
      <3>9. CASE Step.kind = "restore_column"
        BY <3>3, <3>5, <3>6, <3>7, <3>9 DEF RestoredStep, HasColumn
      <3>10. CASE Step.kind \notin RestoreKinds
        BY <3>5, <3>10 DEF RestoredStep, RestoreKinds
      <3>11. QED  BY <3>8, <3>9, <3>10 DEF RestoreKinds
    <2>5. Undoing' /\ NoDrift(past.origin)' => \A m \in Performed' : RestoredStep(AllSteps[m])'
      BY <2>1, <2>2, <2>3, <2>4
    <2>6. QED  BY <2>5 DEF Restored, RestoredStep
  <1>5. QED  BY <1>0, <1>1, <1>2, <1>3, <1>4, NextDoes

-----------------------------------------------------------------------------------------
(* An undo script about to be committed.                                    *)
Finishing ==
  /\ Known /\ CoherentRun /\ ToRecreateKnown /\ RunFrame /\ OriginFrame /\ AllReplayed
  /\ Gained /\ JournalsHold /\ UndoLoses /\ PastGained /\ PastLost /\ OriginCells /\ Restored
  /\ Undoing /\ run.phase = "verify" /\ Verified /\ NoDrift(past.origin)

LEMMA FinishingIs ==
  ASSUME Finishing
  PROVE  /\ TypeOK /\ FromDecisions /\ Active /\ Running /\ run.undo /\ past.state = "applied"
         /\ past.origin \in Databases /\ db \in Databases /\ work \in Databases
         /\ Coherent(past.origin) /\ Coherent(db) /\ Coherent(work)
         /\ Frame(past.origin, work, ScriptSteps)
         /\ \A n \in 1 .. Len(script) : Goal(db, script[n])
  <1>1. /\ TypeOK /\ FromDecisions /\ Active /\ Running /\ run.undo /\ past.state = "applied"
        /\ past.origin \in Databases /\ db \in Databases /\ work \in Databases
        /\ Coherent(past.origin) /\ Coherent(db) /\ Coherent(work)
    BY DEF Finishing, Known, Undoing, Active, TypeOK, Histories, CoherentRun
  <1>2. Frame(past.origin, work, ScriptSteps)
    BY CoveredFrame DEF Finishing, OriginFrame
  <1>3. \A n \in 1 .. Len(script) : Goal(db, script[n])
    BY <1>1 DEF Finishing, Known, AllApplied, AppliedSteps
  <1>4. QED  BY <1>1, <1>2, <1>3

(* The step that undoes step n of the script has reached its goal.          *)
LEMMA UndoneGoal ==
  ASSUME Finishing, NEW n \in 1 .. Len(script)
  PROVE  LET s == AllSteps[Undone(n)] IN
         /\ Undone(n) \in 1 .. Len(script) /\ script[n] \in Steps
         /\ Undoes(s, script[n], n) /\ s.kind # "unsupported" /\ Goal(work, s)
         /\ AsCompared(past.origin, script[n])
         /\ script[n].kind \in ForwardKinds
         /\ script[n].kind = "create_table" => s.kind = "drop_table"
         /\ script[n].kind = "drop_table" => s.kind = "restore_table"
         /\ script[n].kind = "drop_column" => s.kind = "restore_column"
         /\ script[n].kind = "add_column" => s.kind = "drop_column"
         /\ script[n].kind = "modify_column" => s.kind = "modify_column"
  <1> DEFINE m == Undone(n)
             s == AllSteps[m]
  <1>1. /\ TypeOK /\ FromDecisions /\ Active /\ run.undo = TRUE /\ NoDrift(past.origin) /\ Verified
        /\ ChecksPassed
    BY FinishingIs, AtStep DEF Finishing, Known, Undisturbed
  <1>2. m \in 1 .. Len(script) /\ Undone(m) = n
    BY <1>1, UndoStepFacts
  <1>3. Undoes(s, script[n], n)
    BY <1>1, <1>2, RunStep
  <1>4. s.kind # "unsupported"
    <2>1. m \in Passed
      BY <1>1, <1>2 DEF Passed
    <2>2. Check(db, s, TRUE) \in {"skip", "go"}
      BY <1>1, <2>1 DEF ChecksPassed
    <2>3. QED  BY <2>2, UnsupportedAborts
  <1>5. Goal(work, s) /\ AsCompared(past.origin, script[n])
    BY <1>1, <1>2 DEF Verified, NoDrift
  <1>6. script[n] \in Steps /\ script[n].kind \in ForwardKinds
    BY <1>1, ForwardStep
  <1>7. QED  BY <1>2, <1>3, <1>4, <1>5, <1>6 DEF Undoes, UndoKinds, ForwardKinds

(* A column that a step of the script is about is as it was.                *)
Alike(d, e, t, c) ==
  \/ ~HasColumn(d, t, c) /\ ~HasColumn(e, t, c)
  \/ \E a \in Attributes : ColumnIs(d, t, c, a) /\ ColumnIs(e, t, c, a)

LEMMA TouchedAlike ==
  ASSUME Finishing, NEW t \in Tables, NEW c \in Columns, NEW n \in 1 .. Len(script),
         Touches(script[n], t, c)
  PROVE  Alike(past.origin, work, t, c)
  <1> DEFINE op == script[n]
             s == AllSteps[Undone(n)]
  <1>1. /\ Undoes(s, op, n) /\ Goal(work, s) /\ AsCompared(past.origin, op) /\ op \in Steps
        /\ op.kind \in ForwardKinds
        /\ op.kind = "create_table" => s.kind = "drop_table"
        /\ op.kind = "drop_table" => s.kind = "restore_table"
        /\ op.kind = "drop_column" => s.kind = "restore_column"
        /\ op.kind = "add_column" => s.kind = "drop_column"
        /\ op.kind = "modify_column" => s.kind = "modify_column"
    BY UndoneGoal
  <1>2. /\ op.tbl = t /\ (op.kind \in TableKinds \/ op.col = c)
        /\ s.tbl = t /\ s.col = op.col /\ s.table = op.table
        /\ op.table[c] \in Attributes /\ op.observed \in Attributes
    BY <1>1, StepFields DEF Touches, Undoes
  <1>3. CASE op.kind = "create_table"
    <2>1. ~Exists(work, t) /\ ~Exists(past.origin, t)
      BY <1>1, <1>2, <1>3 DEF Goal, AsCompared
    <2>2. QED  BY <2>1 DEF Exists, Alike
  <1>4. CASE op.kind = "drop_table"
    <2>1. TableIs(work, t, op.table) /\ TableIs(past.origin, t, op.table)
      BY <1>1, <1>2, <1>4 DEF Goal, AsCompared
    <2>2. QED  BY <1>2, <2>1 DEF TableIs, Alike
  <1>5. CASE op.kind \in {"drop_column", "modify_column"}
    <2>1. op.col = c /\ s.target = op.observed
      BY <1>1, <1>2, <1>5 DEF Undoes, TableKinds
    <2>2. ColumnIs(work, t, c, op.observed) /\ ColumnIs(past.origin, t, c, op.observed)
      BY <1>1, <1>2, <1>5, <2>1 DEF Goal, AsCompared
    <2>3. QED  BY <1>2, <2>2 DEF Alike
  <1>6. CASE op.kind = "add_column"
    <2>1. op.col = c
      BY <1>2, <1>6 DEF TableKinds
    <2>2. ~HasColumn(work, t, c) /\ ~HasColumn(past.origin, t, c)
      BY <1>1, <1>2, <1>6, <2>1 DEF Goal, AsCompared
    <2>3. QED  BY <2>2 DEF Alike
  <1>7. QED  BY <1>1, <1>3, <1>4, <1>5, <1>6 DEF ForwardKinds

LEMMA UntouchedSame ==
  ASSUME Finishing, NEW t \in Tables, NEW c \in Columns,
         \A n \in 1 .. Len(script) : ~Touches(script[n], t, c)
  PROVE  SameColumn(past.origin, work, t, c)
  BY FinishingIs DEF Frame, ScriptSteps

(* The columns are as they were.                                            *)
LEMMA ColumnsBack ==
  ASSUME Finishing, NEW t \in Tables, NEW c \in Columns
  PROVE  /\ HasColumn(work, t, c) <=> HasColumn(past.origin, t, c)
         /\ HasColumn(work, t, c) => work.cols[t][c] = past.origin.cols[t][c]
  <1>1. CASE \E n \in 1 .. Len(script) : Touches(script[n], t, c)
    BY <1>1, TouchedAlike DEF Alike, ColumnIs
  <1>2. CASE \A n \in 1 .. Len(script) : ~Touches(script[n], t, c)
    BY <1>2, UntouchedSame DEF SameColumn, Keeps, HasColumn
  <1>3. QED  BY <1>1, <1>2

LEMMA DefaultIs ==
  ASSUME NEW x \in Dependents, x.kind = "default"
  PROVE  \E t \in Tables, c \in Columns, v \in 1 .. MaxWidth :
           x = Default(t, c, v) /\ x.tbl = t /\ x.cols = {c} /\ x.val = v
  BY SchemaAssumption DEF Dependents, Default

-----------------------------------------------------------------------------------------
(* The defaults are as they were.                                           *)
LEMMA SameDefaults ==
  ASSUME NEW d \in Databases, NEW e \in Databases, NEW t \in Tables, NEW c \in Columns,
         NEW a \in Attributes, ColumnIs(d, t, c, a), ColumnIs(e, t, c, a),
         NEW x \in DefaultsOn(d, t, c)
  PROVE  x \in e.deps
  <1>1. d.deps \in SUBSET Dependents /\ e.deps \in SUBSET Dependents
    BY DatabaseFields
  <1>2. x \in Dependents /\ x.kind = "default" /\ x.tbl = t /\ x.cols = {c}
    BY <1>1 DEF DefaultsOn
  <1>3. x = Default(t, c, x.val)
    BY <1>2, DefaultIs
  <1>4. x.val \in {y.val : y \in DefaultsOn(e, t, c)}
    <2>1. x.val \in {y.val : y \in DefaultsOn(d, t, c)}
      OBVIOUS
    <2>2. {y.val : y \in DefaultsOn(d, t, c)} = {y.val : y \in DefaultsOn(e, t, c)}
      BY DEF ColumnIs
    <2>3. QED  BY <2>1, <2>2
  <1>5. PICK y \in DefaultsOn(e, t, c) : y.val = x.val
    BY <1>4
  <1>6. y \in Dependents /\ y.kind = "default" /\ y.tbl = t /\ y.cols = {c} /\ y \in e.deps
    BY <1>1 DEF DefaultsOn
  <1>7. y = Default(t, c, y.val)
    BY <1>6, DefaultIs
  <1>8. QED  BY <1>3, <1>5, <1>6, <1>7

LEMMA DefaultsBack ==
  ASSUME Finishing, NEW x, x.kind = "default"
  PROVE  x \in work.deps <=> x \in past.origin.deps
  <1>1. /\ past.origin \in Databases /\ work \in Databases
        /\ Placed(past.origin) /\ Placed(work)
    BY FinishingIs DEF Coherent
  <1>2. SUFFICES ASSUME x \in work.deps \cup past.origin.deps
                 PROVE  x \in work.deps /\ x \in past.origin.deps
    OBVIOUS
  <1>3. x \in Dependents
    BY <1>1, <1>2 DEF Databases
  <1>4. PICK t \in Tables, c \in Columns : x.tbl = t /\ x.cols = {c}
    BY <1>3, DefaultIs
  <1>5. /\ x \in work.deps => x \in DefaultsOn(work, t, c) /\ HasColumn(work, t, c)
        /\ x \in past.origin.deps => x \in DefaultsOn(past.origin, t, c)
            /\ HasColumn(past.origin, t, c)
    BY <1>1, <1>4 DEF DefaultsOn, Placed
  <1>6. CASE \A n \in 1 .. Len(script) : ~Touches(script[n], t, c)
    <2>1. DefaultsOn(past.origin, t, c) = DefaultsOn(work, t, c)
      BY <1>6, UntouchedSame DEF SameColumn
    <2>2. QED  BY <1>2, <1>5, <2>1 DEF DefaultsOn
  <1>7. CASE \E n \in 1 .. Len(script) : Touches(script[n], t, c)
    <2>1. Alike(past.origin, work, t, c)
      BY <1>7, TouchedAlike
    <2>2. PICK a \in Attributes : ColumnIs(past.origin, t, c, a) /\ ColumnIs(work, t, c, a)
      BY <1>2, <1>5, <2>1 DEF Alike
    <2>3. QED  BY <1>1, <1>2, <1>5, <2>2, SameDefaults
  <1>8. QED  BY <1>6, <1>7

(* Nothing is left of what the script or its undo made.                     *)
LEMMA LeftWasThere ==
  ASSUME Finishing, NEW x \in work.deps, x.kind # "default"
  PROVE  x \in past.origin.deps /\ (x.kind \in Recreatable \/ x.tbl \notin DroppedTables)
  <1>1. /\ past.state = "applied" /\ Active /\ Coherent(db) /\ Running /\ run.undo
        /\ \A n \in 1 .. Len(script) : Goal(db, script[n])
    BY FinishingIs
  <1>2. CASE x \in db.deps
    <2>1. x \in past.origin.deps
      BY <1>1, <1>2 DEF Finishing, PastGained
    <2>2. ASSUME x.tbl \in DroppedTables PROVE FALSE
      <3>1. PICK n \in 1 .. Len(script) : script[n].kind = "drop_table" /\ script[n].tbl = x.tbl
        BY <2>2 DEF DroppedTables
      <3>2. ~Exists(db, x.tbl)
        BY <1>1, <3>1 DEF Goal
      <3>3. QED  BY <1>1, <1>2, <3>2 DEF Coherent, Placed
    <2>3. QED  BY <2>1, <2>2
  <1>3. CASE x \notin db.deps
    <2>1. PICK j \in EntryNumbers(work) : x \in Entry(work, j).deps
      BY <1>1, <1>3 DEF Finishing, Gained, InJournal
    <2>2. x.kind \in Recreatable
      BY <2>1 DEF Finishing, ToRecreateKnown, EntriesOk
    <2>3. work.journal[FALSE] = db.journal[FALSE] /\ JournalWithin(db, past.origin.deps)
      BY <1>1 DEF Finishing, JournalsHold, JournalBound
    <2>4. JournalWithin(work, past.origin.deps)
      BY <2>3, SameJournal
    <2>5. QED  BY <2>1, <2>2, <2>4 DEF JournalWithin
  <1>4. QED  BY <1>2, <1>3

(* What was there is there again.                                           *)
LEMMA MadeWasNotThere ==
  ASSUME Finishing, NEW x \in past.origin.deps
  PROVE  ~WithMade(x)
  <1> SUFFICES ASSUME NEW n \in 1 .. Len(script),
                      \/ script[n].kind = "create_table" /\ OnTable(x, script[n].tbl)
                      \/ script[n].kind = "add_column" /\ OnColumn(x, script[n].tbl, script[n].col)
               PROVE  FALSE
    BY DEF WithMade
  <1>1. AsCompared(past.origin, script[n]) /\ Placed(past.origin)
    BY FinishingIs, UndoneGoal DEF Coherent
  <1>2. CASE script[n].kind = "create_table" /\ OnTable(x, script[n].tbl)
    <2>1. ~Exists(past.origin, script[n].tbl)
      BY <1>1, <1>2 DEF AsCompared
    <2>2. QED  BY <1>1, <1>2, <2>1 DEF OnTable, Placed
  <1>3. CASE script[n].kind = "add_column" /\ OnColumn(x, script[n].tbl, script[n].col)
    <2>1. ~HasColumn(past.origin, script[n].tbl, script[n].col)
      BY <1>1, <1>3 DEF AsCompared
    <2>2. QED  BY <1>1, <1>3, <2>1 DEF OnColumn, Placed
  <1>4. QED  BY <1>2, <1>3

LEMMA WasThereIsBack ==
  ASSUME Finishing, NEW x \in past.origin.deps, x.kind # "default",
         x.kind \in Recreatable \/ x.tbl \notin DroppedTables
  PROVE  x \in work.deps
  <1>1. /\ past.state = "applied" /\ Active /\ Undoing /\ run.phase = "verify"
        /\ TypeOK /\ Known /\ ToRecreateKnown /\ AllReplayed
        /\ PastLost /\ UndoLoses /\ JournalsHold
    BY FinishingIs DEF Finishing
  <1>2. CASE x \in db.deps
    <2>1. ToRecreate = {} /\ ~WithMade(x)
      BY <1>1, MadeWasNotThere DEF ToRecreate
    <2>2. QED  BY <1>1, <1>2, <2>1 DEF UndoLoses, WithMade
  <1>3. CASE x \notin db.deps
    <2>1. DropsSome /\ (db.journal[FALSE].made => InJournal(db, x))
      BY <1>1, <1>3 DEF PastLost, GoneForGood
    <2>2. PICK n \in 1 .. Len(script) : Copies(script[n])
      BY <2>1 DEF DropsSome
    <2>3. /\ AllSteps[Undone(n)].kind \in RestoreKinds /\ AllSteps[Undone(n)] \in Steps
          /\ Check(db, AllSteps[Undone(n)], TRUE) = "go"
      BY <1>1, <2>2, UndoneDropGoes DEF Undoes
    <2>4. db.journal[FALSE].made
      BY <2>3, GoNeeds
    <2>5. JournalWithin(work, work.deps) /\ work.journal[FALSE] = db.journal[FALSE]
      BY <1>1, JournalReplayed DEF JournalsHold
    <2>6. InJournal(work, x)
      BY <2>1, <2>4, <2>5, SameJournal
    <2>7. QED  BY <2>5, <2>6 DEF InJournal, JournalWithin
  <1>4. QED  BY <1>2, <1>3

LEMMA DependentsBack ==
  ASSUME Finishing
  PROVE  work.deps = {x \in past.origin.deps : x.kind \in Recreatable \/ x.tbl \notin DroppedTables}
  <1>1. ASSUME NEW x
        PROVE  x \in work.deps <=>
                 x \in past.origin.deps /\ (x.kind \in Recreatable \/ x.tbl \notin DroppedTables)
    <2>1. CASE x.kind = "default"
      BY <2>1, DefaultsBack DEF Recreatable
    <2>2. CASE x.kind # "default"
      BY <2>2, LeftWasThere, WasThereIsBack
    <2>3. QED  BY <2>1, <2>2
  <1>2. QED  BY <1>1

-----------------------------------------------------------------------------------------
(* A step that restores was carried out.                                    *)
LEMMA RestorePerformed ==
  ASSUME Finishing, NEW n \in 1 .. Len(script), Copies(script[n])
  PROVE  /\ Undone(n) \in Performed /\ RestoredStep(AllSteps[Undone(n)])
         /\ AllSteps[Undone(n)].tbl = script[n].tbl /\ AllSteps[Undone(n)].col = script[n].col
         /\ script[n].kind = "drop_table" => AllSteps[Undone(n)].kind = "restore_table"
         /\ script[n].kind = "drop_column" => AllSteps[Undone(n)].kind = "restore_column"
  <1>1. Active /\ run.phase = "verify" /\ Known /\ Undoing /\ NoDrift(past.origin) /\ Restored
    BY FinishingIs DEF Finishing
  <1>2. Undone(n) \in 1 .. Len(script) /\ Undone(n) \notin run.skip
    BY <1>1, UndoneDropGoes
  <1>3. Undone(n) \in Performed
    BY <1>1, <1>2 DEF Performed
  <1>4. RestoredStep(AllSteps[Undone(n)])
    BY <1>1, <1>3, RestoredIs
  <1>5. QED  BY <1>3, <1>4, UndoneGoal DEF Undoes

LEMMA NoColumnNoCell ==
  ASSUME NEW d \in Databases, Fits(d), NEW t \in Tables, NEW c \in Columns, ~HasColumn(d, t, c),
         NEW r \in DOMAIN d.rows[t]
  PROVE  d.rows[t][r][c] = Null
  <1>1. d.rows[t][r][c] \in Nat /\ d.rows[t][r][c] <= 0
    BY CellsOf, SchemaAssumption DEF Cells, Fits, HasColumn
  <1>2. d.rows[t][r][c] = 0
    BY <1>1
  <1>3. QED  BY <1>2 DEF Null

(* The rows of a table that the script dropped, and of one it did not.      *)
LEMMA DroppedTableBack ==
  ASSUME Finishing, NEW t \in DroppedTables
  PROVE  work.rows[t] = past.origin.rows[t]
  <1>1. PICK n \in 1 .. Len(script) : script[n].kind = "drop_table" /\ script[n].tbl = t
    BY DEF DroppedTables
  <1>2. QED  BY <1>1, RestorePerformed DEF RestoredStep, Copies

LEMMA SameRowsThere ==
  ASSUME Finishing, NEW t \in Tables
  PROVE  DOMAIN work.rows[t] = DOMAIN past.origin.rows[t]
  <1>1. /\ Frame(past.origin, work, ScriptSteps)
        /\ NoStray(past.origin) /\ NoStray(work)
    BY FinishingIs DEF Coherent
  <1>2. CASE t \in DroppedTables
    BY <1>2, DroppedTableBack
  <1>3. CASE ~Exists(past.origin, t)
    <2>1. ~Exists(work, t)
      BY <1>3, ColumnsBack DEF Exists
    <2>2. QED  BY <1>1, <1>3, <2>1 DEF NoStray
  <1>4. CASE t \notin DroppedTables /\ Exists(past.origin, t)
    <2>1. ASSUME NEW n \in 1 .. Len(script) PROVE ~Retables(script[n], t)
      <3>1. AsCompared(past.origin, script[n]) /\ script[n].kind \in ForwardKinds
        BY UndoneGoal
      <3>2. script[n].kind = "create_table" => script[n].tbl # t
        BY <1>4, <3>1 DEF AsCompared
      <3>3. script[n].kind = "drop_table" => script[n].tbl # t
        BY <1>4 DEF DroppedTables
      <3>4. QED  BY <3>1, <3>2, <3>3 DEF Retables, TableKinds, ForwardKinds
    <2>2. QED  BY <1>1, <2>1 DEF Frame, ScriptSteps
  <1>5. QED  BY <1>2, <1>3, <1>4

(* A value the script changed nothing of.                                   *)
LEMMA ChangedCellBack ==
  ASSUME Finishing, NEW t \in Tables, NEW c \in Columns, HasColumn(past.origin, t, c),
         NEW n \in 1 .. Len(script), script[n].kind = "modify_column", script[n].tbl = t,
         script[n].col = c, <<t, c>> \notin LossyColumns \cup FilledColumns,
         NEW r \in DOMAIN work.rows[t]
  PROVE  work.rows[t][r][c] = past.origin.rows[t][r][c]
  <1>1. /\ TypeOK /\ FromDecisions /\ Active /\ run.undo = TRUE /\ past.state = "applied"
        /\ NoDrift(past.origin) /\ OriginCells /\ CellsKept /\ NullsFit(past.origin)
        /\ Goal(db, script[n]) /\ AsCompared(past.origin, script[n])
    BY FinishingIs, UndoneGoal, AtStep DEF Finishing, Coherent, Known, Undisturbed
  <1>2. HasColumn(db, t, c) /\ HasColumn(work, t, c)
    BY <1>1, ColumnsBack DEF Goal, ColumnIs
  <1>3. ~Loses(script, t, c)
    BY DEF LossyColumns
  <1>4. /\ DOMAIN db.rows[t] = DOMAIN past.origin.rows[t]
        /\ \A q \in DOMAIN db.rows[t] : db.rows[t][q][c] = past.origin.rows[t][q][c]
    BY <1>1, <1>2, <1>3 DEF OriginCells
  <1>5. RowsKept(t, c)
    BY <1>1, <1>2 DEF CellsKept
  <1>6. r \in DOMAIN db.rows[t] /\ CellKept(t, c, r)
    BY <1>5 DEF RowsKept
  <1>7. ASSUME NEW m \in Modifying(t, c),
               \/ Shortens(AllSteps[m], db.rows[t][r][c])
               \/ FillsNulls(AllSteps[m]) /\ db.rows[t][r][c] = Null
        PROVE  FALSE
    <2>1. /\ past.origin \in Databases /\ Fits(past.origin) /\ r \in DOMAIN past.origin.rows[t]
          /\ past.origin.rows[t][r][c] = db.rows[t][r][c]
      BY <1>4, <1>6, FinishingIs DEF Coherent, Sound
    <2>2. /\ ~Shortens(AllSteps[m], db.rows[t][r][c])
          /\ past.origin.cols[t][c].null = AllSteps[m].target.null
      BY <1>1, <2>1, UndoShortensNothing
    <2>3. ~past.origin.cols[t][c].null /\ past.origin.rows[t][r][c] = Null
      BY <1>7, <2>1, <2>2 DEF FillsNulls
    <2>4. QED  BY <1>1, <2>1, <2>3 DEF NullsFit
  <1>8. work.rows[t][r][c] = db.rows[t][r][c]
    BY <1>6, <1>7 DEF CellKept
  <1>9. QED  BY <1>4, <1>6, <1>8

LEMMA CellBack ==
  ASSUME Finishing, NEW t \in Tables, NEW c \in Columns, NEW r \in DOMAIN work.rows[t],
         <<t, c>> \notin LossyColumns \cup FilledColumns \cup UnkeyedColumns
  PROVE  work.rows[t][r][c] = past.origin.rows[t][r][c]
  <1>1. /\ work \in Databases /\ past.origin \in Databases /\ Fits(work) /\ Fits(past.origin)
        /\ r \in DOMAIN past.origin.rows[t]
    BY FinishingIs, SameRowsThere DEF Coherent, Sound
  <1>2. CASE ~HasColumn(past.origin, t, c)
    <2>1. ~HasColumn(work, t, c)
      BY <1>2, ColumnsBack
    <2>2. QED  BY <1>1, <1>2, <2>1, NoColumnNoCell
  <1>3. CASE t \in DroppedTables
    BY <1>3, DroppedTableBack
  <1>4. CASE <<t, c>> \in DroppedColumns
    <2>1. PICK n \in 1 .. Len(script) :
            script[n].kind = "drop_column" /\ script[n].tbl = t /\ script[n].col = c
      BY <1>4 DEF DroppedColumns
    <2>2. KeepsKey(past.origin, t)
      BY <1>4 DEF UnkeyedColumns
    <2>3. /\ RestoredStep(AllSteps[Undone(n)]) /\ AllSteps[Undone(n)].kind = "restore_column"
          /\ AllSteps[Undone(n)].tbl = t /\ AllSteps[Undone(n)].col = c
      BY <2>1, RestorePerformed DEF Copies
    <2>4. KeepsKey(past.origin, AllSteps[Undone(n)].tbl)
      BY <2>2, <2>3
    <2>5. QED  BY <2>3, <2>4 DEF RestoredStep
  <1>5. CASE \A n \in 1 .. Len(script) : ~Touches(script[n], t, c)
    BY <1>1, <1>5, UntouchedSame DEF SameColumn, Keeps
  <1>6. CASE /\ HasColumn(past.origin, t, c) /\ t \notin DroppedTables
             /\ <<t, c>> \notin DroppedColumns
             /\ \E n \in 1 .. Len(script) : Touches(script[n], t, c)
    <2>1. PICK n \in 1 .. Len(script) : Touches(script[n], t, c)
      BY <1>6
    <2>2. AsCompared(past.origin, script[n]) /\ script[n].kind \in ForwardKinds
      BY UndoneGoal
    <2>3. script[n].tbl = t /\ (script[n].kind \in TableKinds \/ script[n].col = c)
      BY <2>1 DEF Touches
    <2>4. script[n].kind # "create_table"
      BY <1>6, <2>2, <2>3 DEF AsCompared, Exists
    <2>5. script[n].kind # "drop_table"
      BY <1>6, <2>3 DEF DroppedTables
    <2>6. script[n].col = c /\ script[n].kind \notin TableKinds
      BY <2>2, <2>3, <2>4, <2>5 DEF TableKinds, ForwardKinds
    <2>7. script[n].kind # "drop_column"
      BY <1>6, <2>3, <2>6 DEF DroppedColumns
    <2>8. script[n].kind # "add_column"
      BY <1>6, <2>2, <2>3, <2>6 DEF AsCompared
    <2>9. script[n].kind = "modify_column"
      BY <2>2, <2>4, <2>5, <2>7, <2>8 DEF ForwardKinds
    <2>10. QED  BY <1>6, <2>3, <2>6, <2>9, ChangedCellBack
  <1>7. QED  BY <1>2, <1>3, <1>4, <1>5, <1>6

-----------------------------------------------------------------------------------------
(* What the undo script leaves is what the script met.                      *)
MayDiffer == LossyColumns \cup FilledColumns \cup UnkeyedColumns
UndoneBack == past.state = "undone" /\ NoDrift(past.origin) => Restores(MayDiffer)
BackTo(d, e) ==
  /\ \A t \in Tables, c \in Columns :
       HasColumn(e, t, c) \/ HasColumn(d, t, c) => e.cols[t][c] = d.cols[t][c]
  /\ e.deps = {x \in d.deps : x.kind \in Recreatable \/ x.tbl \notin DroppedTables}
  /\ \A t \in Tables :
       /\ DOMAIN e.rows[t] = DOMAIN d.rows[t]
       /\ \A r \in DOMAIN e.rows[t], c \in Columns :
            <<t, c>> \notin MayDiffer => e.rows[t][r][c] = d.rows[t][r][c]

LEMMA BackToIs ==
  UndoneBack <=> (past.state = "undone" /\ NoDrift(past.origin) => BackTo(past.origin, db))
  BY DEF UndoneBack, BackTo, Restores

LEMMA FinishingBack ==
  ASSUME Finishing
  PROVE  BackTo(past.origin, work)
  <1>1. ASSUME NEW t \in Tables, NEW c \in Columns,
               HasColumn(work, t, c) \/ HasColumn(past.origin, t, c)
        PROVE  work.cols[t][c] = past.origin.cols[t][c]
    BY <1>1, ColumnsBack
  <1>2. work.deps = {x \in past.origin.deps : x.kind \in Recreatable \/ x.tbl \notin DroppedTables}
    BY DependentsBack
  <1>3. ASSUME NEW t \in Tables
        PROVE  DOMAIN work.rows[t] = DOMAIN past.origin.rows[t]
    BY SameRowsThere
  <1>4. ASSUME NEW t \in Tables, NEW c \in Columns, NEW r \in DOMAIN work.rows[t],
               <<t, c>> \notin MayDiffer
        PROVE  work.rows[t][r][c] = past.origin.rows[t][r][c]
    BY <1>4, CellBack DEF MayDiffer
  <1>5. QED  BY <1>1, <1>2, <1>3, <1>4 DEF BackTo

LEMMA MayDifferStays ==
  ASSUME script' = script, past'.origin = past.origin
  PROVE  MayDiffer' = MayDiffer /\ DroppedTables' = DroppedTables
  <1>1. UnkeyedColumns' = UnkeyedColumns
    BY ScriptWordsStay DEF UnkeyedColumns, KeepsKey
  <1>2. QED  BY <1>1, ScriptWordsStay DEF MayDiffer

LEMMA BackStays ==
  ASSUME script' = script, past'.origin = past.origin, NEW e, BackTo(past.origin, e),
         db'.cols = e.cols, db'.rows = e.rows, db'.deps = e.deps
  PROVE  BackTo(past.origin, db)'
  <1>1. MayDiffer' = MayDiffer /\ DroppedTables' = DroppedTables
    BY MayDifferStays
  <1>2. QED  BY <1>1 DEF BackTo, HasColumn

UndoInv ==
  /\ Known /\ CoherentRun /\ ToRecreateKnown /\ RunFrame /\ OriginFrame /\ AllReplayed
  /\ Gained /\ OnCreated /\ JournalsHold /\ LostJournaled /\ UndoLoses /\ PastGained /\ PastLost
  /\ ForwardBackups /\ PastBackups /\ UndoBackups /\ ByKnown /\ OriginCells /\ Restored
  /\ UndoneBack

LEMMA NextUndoneBack ==
  ASSUME MaxWrites = 0, UndoInv, [Next]_vars
  PROVE  UndoneBack'
  <1>0. /\ TypeOK /\ TypeOK' /\ Settled /\ RunStart /\ Known /\ UndoneBack
    BY NextType DEF UndoInv, Known
  <1>1. CASE Stays \/ Blanks \/ SkipStep \/ CopyStep \/ ChangeStep \/ RecreateKeys \/ Replay
             \/ CleansUp
    <2>1. /\ script' = script /\ db'.cols = db.cols /\ db'.rows = db.rows /\ db'.deps = db.deps
          /\ past'.origin = past.origin /\ past'.state = past.state
      BY <1>0, <1>1, StaysDoes, BlanksDoes, SkipDoes, CopyDoes, ChangeStepDoes, AdditionDoes,
         CleansUpDoes
      DEF SameRest
    <2>2. NoDrift(past.origin)' => NoDrift(past.origin)
      BY <2>1, NoDriftStays
    <2>3. past.state = "undone" /\ NoDrift(past.origin) => BackTo(past.origin, db)
      BY <1>0, BackToIs
    <2>4. past'.state = "undone" /\ NoDrift(past.origin)' => BackTo(past.origin, db)'
      BY <2>1, <2>2, <2>3, BackStays
    <2>5. QED  BY <2>4 DEF UndoneBack, BackTo, Restores
  <1>2. CASE Commit
    <2>1. /\ run.phase = "verify" /\ Verified /\ Running /\ script' = script /\ db' = work
          /\ run.undo => past'.origin = past.origin
          /\ ~run.undo => past'.state = "applied"
      BY <1>0, <1>2, CommitDoes
    <2>2. CASE ~run.undo
      BY <2>1, <2>2 DEF UndoneBack
    <2>3. CASE run.undo /\ Again
      <3>1. past.state = "undone" /\ work = db
        BY <1>0, <2>3 DEF Known, NothingToDo, Again
      <3>2. NoDrift(past.origin)' => NoDrift(past.origin)
        BY <2>1, <2>3, NoDriftStays
      <3>3. NoDrift(past.origin) => BackTo(past.origin, db)
        BY <1>0, <3>1, BackToIs
      <3>4. NoDrift(past.origin)' => BackTo(past.origin, db)'
        BY <2>1, <2>3, <3>1, <3>2, <3>3, BackStays
      <3>5. QED  BY <3>4 DEF UndoneBack, BackTo, Restores
    <2>4. CASE run.undo /\ ~Again
      <3>1. Undoing
        BY <1>0, <2>1, <2>4, UndoingIs DEF UndoInv, ToRecreateKnown
      <3>2. NoDrift(past.origin)' => NoDrift(past.origin)
        BY <2>1, <2>4, NoDriftStays
      <3>3. NoDrift(past.origin) => Finishing
        BY <2>1, <3>1 DEF Finishing, UndoInv
      <3>4. NoDrift(past.origin)' => BackTo(past.origin, db)'
        BY <2>1, <2>4, <3>2, <3>3, FinishingBack, BackStays
      <3>5. QED  BY <3>4 DEF UndoneBack, BackTo, Restores
    <2>5. QED  BY <2>2, <2>3, <2>4
  <1>3. QED  BY <1>0, <1>1, <1>2, NextDoes

LEMMA InitUndo ==
  ASSUME Init
  PROVE  UndoInv
  <1>1. /\ work = db /\ past.origin = db /\ past.state = "new" /\ run = Idle /\ run.phase = "idle"
        /\ ~run.copied /\ run.keys = {} /\ ~Running /\ ~Active /\ Performed = {} /\ Passed = {}
    BY DEF Init, Idle, Running, Active, Performed, Passed
  <1>2. db.journal[FALSE] = NoJournal
    BY ScriptAssumption DEF Init
  <1>3. Known
    <2>1. TypeOK /\ Undisturbed /\ FromDecisions /\ DropsAreSaved
      BY <1>1, InitType, InitUndisturbed, NothingLost
    <2>2. /\ Settled /\ LostAreExcused /\ AllApplied /\ NothingToDo /\ RunStart
          /\ Confined(db, work, locked)
      BY <1>1, SameConfined DEF Settled, LostAreExcused, AllApplied, NothingToDo, Again, RunStart
    <2>3. QED  BY <2>1, <2>2 DEF Known
  <1>4. CoherentRun
    BY <1>1, InitCoherent DEF CoherentRun, KeysTight
  <1>5. EntryNumbers(db) = {}
    BY <1>2, EmptyJournal
  <1>6. ToRecreateKnown
    BY <1>1, <1>5 DEF ToRecreateKnown, UndoStarted, KeysKnown, ReplayKnown, EntriesOk
  <1>7. RunFrame /\ OriginFrame
    BY <1>1, SameFrame DEF RunFrame, OriginFrame
  <1>8. AllReplayed /\ Gained /\ OnCreated /\ LostJournaled /\ UndoLoses /\ PastGained /\ PastLost
    BY <1>1 DEF AllReplayed, Gained, OnCreated, LostJournaled, UndoLoses, PastGained, PastLost,
                Forward, Undoing
  <1>9. JournalsHold
    BY <1>1, <1>5 DEF JournalsHold, JournalWithin, Forward, Undoing
  <1>10. /\ ForwardBackups /\ PastBackups /\ UndoBackups /\ ByKnown /\ OriginCells /\ Restored
         /\ UndoneBack
    BY <1>1 DEF ForwardBackups, PastBackups, UndoBackups, ByKnown, OriginCells, Restored,
       UndoneBack,
                Forward, Undoing
  <1>11. QED
    BY <1>3, <1>4, <1>6, <1>7, <1>8, <1>9, <1>10 DEF UndoInv

LEMMA NextUndo ==
  ASSUME MaxWrites = 0, UndoInv, [Next]_vars
  PROVE  UndoInv'
  <1>1. /\ Known /\ CoherentRun /\ ToRecreateKnown /\ RunFrame /\ OriginFrame /\ AllReplayed
        /\ Gained /\ OnCreated /\ JournalsHold /\ LostJournaled /\ UndoLoses /\ PastGained
        /\ PastLost
        /\ ForwardBackups /\ PastBackups /\ UndoBackups /\ ByKnown /\ OriginCells /\ Restored
        /\ UndoStarted /\ KeysKnown /\ ReplayKnown /\ EntriesOk(db) /\ EntriesOk(work)
    BY DEF UndoInv, ToRecreateKnown
  <1>2. Known' /\ CoherentRun'
    BY <1>1, NextKnown, NextCoherent
  <1>3. ToRecreateKnown'
    <2>1. UndoStarted' /\ KeysKnown' /\ ReplayKnown' /\ EntriesOk(db)' /\ EntriesOk(work)'
      BY <1>1, NextUndoStarted, NextKeysKnown, NextReplayKnown, NextEntriesOk
    <2>2. QED  BY <2>1 DEF ToRecreateKnown
  <1>4. RunFrame' /\ OriginFrame' /\ AllReplayed'
    BY <1>1, NextRunFrame, NextOriginFrame, NextAllReplayed
  <1>5. Gained' /\ OnCreated' /\ JournalsHold'
    BY <1>1, NextGained, NextOnCreated, NextJournals
  <1>6. LostJournaled' /\ UndoLoses' /\ PastGained' /\ PastLost'
    BY <1>1, NextLostJournaled, NextUndoLoses, NextPast
  <1>7. ForwardBackups' /\ PastBackups' /\ UndoBackups' /\ ByKnown'
    BY <1>1, NextForwardBackups, NextPastBackups, NextUndoBackups, NextByKnown
  <1>8. OriginCells' /\ Restored' /\ UndoneBack'
    BY <1>1, NextOriginCells, NextRestored, NextUndoneBack
  <1>9. QED
    BY <1>2, <1>3, <1>4, <1>5, <1>6, <1>7, <1>8 DEF UndoInv

(* While nobody else writes, an undo script committed on a database that    *)
(* met what was compared leaves columns, dependents and rows as they were   *)
(* before the script.                                                       *)
THEOREM UndoIsInverse ==
  ASSUME MaxWrites = 0
  PROVE  Spec => []UndoRestores
  <1>1. Init => UndoInv
    BY InitUndo
  <1>2. UndoInv /\ [Next]_vars => UndoInv'
    BY NextUndo
  <1>3. UndoInv => UndoRestores
    BY DEF UndoInv, UndoneBack, UndoRestores, MayDiffer
  <1>4. QED  BY <1>1, <1>2, <1>3, PTL DEF Spec
=========================================================================================
