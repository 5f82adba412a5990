----------------------------- MODULE MigrationScript -----------------------------
(****************************************************************************)
(* A consolidation script and its undo script, run by hand against one      *)
(* profile's database while other sessions use it.  A script is one         *)
(* transaction: it checks every step, applies the ones that are not already *)
(* applied, recreates foreign keys, replays the journal of what it undoes,  *)
(* verifies every step and commits; anything that fails rolls it all back.  *)
(*                                                                          *)
(* `db' is what every session would see once the script rolls back: the     *)
(* committed state.  `work' is what the script's own transaction sees.      *)
(****************************************************************************)
EXTENDS SchemaOps

CONSTANTS
  Decisions,    \* decisions a user may have generated scripts from
  InitialDbs,   \* databases the scripts may be run against
  MaxRuns,      \* how many times a script is started
  MaxWrites,    \* how many rows other sessions write
  MaxHolds,     \* how often another session keeps a table locked
  MaxCleanups   \* how many backups or journals the user removes or renames

VARIABLES
  script,   \* the forward script: a sequence of steps
  db, work,
  run,      \* the execution in progress
  locked,   \* tables the script's transaction holds exclusively
  busy,     \* tables on which another session's transaction holds a lock
  past,     \* what earlier runs did
  used      \* how much of each bound has been used

vars == <<script, db, work, run, locked, busy, past, used>>

(* The order of _forward_ops: tables created, tables dropped, columns       *)
(* dropped, then columns added and modified in the order decided.           *)
ForwardOps(decided) ==
  decided.tables \o decided.tableDrops \o decided.columnDrops \o decided.columns

(* The decisions of a profile by what they do; a table to create has a      *)
(* column, and what a decision adds or changes has a type.  A script has at *)
(* least one step, since a profile with none gets no file, and its name     *)
(* holds the second it was generated in, so that none of its backups and no *)
(* journal of it exist before it first runs.                                *)
StepsThat(kinds) == {s \in Steps : s.kind \in kinds}
Choices == [tables: Seq({s \in StepsThat({"create_table"}) :
                           \E c \in Columns : s.table[c].type # 0}),
            tableDrops: Seq(StepsThat({"drop_table"})),
            columnDrops: Seq(StepsThat({"drop_column"})),
            columns: Seq({s \in StepsThat({"add_column", "modify_column"}) : s.target.type # 0})]
ASSUME ScriptAssumption ==
  /\ Decisions \subseteq Choices
  /\ \A decided \in Decisions : Len(ForwardOps(decided)) \in Numbers
  /\ InitialDbs \subseteq Databases
  /\ \A d \in InitialDbs, undo \in BOOLEAN : d.journal[undo] = NoJournal

(* What undoes step n; a change whose former definition is unknown, and a   *)
(* dropped IDENTITY column, cannot be undone.                               *)
UndoOp(op, n) ==
  CASE op.kind = "create_table" -> [op EXCEPT !.kind = "drop_table"]
    [] op.kind = "add_column"   -> [op EXCEPT !.kind = "drop_column"]
    [] op.kind = "drop_table" /\ \E c \in Columns : op.table[c].type # 0 ->
         [op EXCEPT !.kind = "restore_table", !.num = n]
    [] op.kind = "drop_column" /\ op.observed.type # 0 /\ ~op.observed.ident ->
         [op EXCEPT !.kind = "restore_column", !.num = n, !.target = op.observed]
    [] op.kind = "modify_column" /\ op.observed.type # 0 ->
         [op EXCEPT !.target = op.observed, !.observed = op.target,
                    !.backfill = 0, !.accept = FALSE]
    [] OTHER -> [op EXCEPT !.kind = "unsupported"]

UndoOpsByPosition(ops) ==   \* mutant: numbers an undo step by its own position
  [n \in 1 .. Len(ops) |-> UndoOp(ops[Len(ops) + 1 - n], n)]
UndoOps(ops) == [n \in 1 .. Len(ops) |-> UndoOp(ops[Len(ops) + 1 - n], Len(ops) + 1 - n)]

Phases == {"idle", "check", "apply", "keys", "replay", "verify"}
Runs == [undo: BOOLEAN, phase: Phases, at: Nat,
         skip: SUBSET Numbers,                \* @skip_n
         by: [Numbers -> SUBSET Columns],     \* @keyed_n and @pk_cols_n
         copied: BOOLEAN,                     \* the current drop has its backup
         keys: SUBSET Dependents,             \* @bdiff_fk with recreate = 1
         replay: SUBSET Numbers]              \* @bdiff_replay
Idle == [undo |-> FALSE, phase |-> "idle", at |-> 1, skip |-> {},
         by |-> [n \in Numbers |-> {}], copied |-> FALSE, keys |-> {}, replay |-> {}]

Outcomes == {"none", "committed", "refused", "rolled_back", "interrupted"}
Histories == [state: {"new", "applied", "undone"},
              outcome: Outcomes,    \* how the last run ended
              undo: BOOLEAN,        \* that run was the undo script
              origin: Databases,    \* the database the forward script changed
              disturbed: BOOLEAN]   \* somebody else changed something since

Running == run.phase # "idle"
AllSteps == IF run.undo THEN UndoOps(script) ELSE script
Step == AllSteps[run.at]
Copies(s) == s.kind \in {"drop_table", "drop_column"}

(* The final state of a step, verified before the COMMIT.                   *)
Goal(d, s) ==
  CASE s.kind \in {"create_table", "restore_table"} -> TableIs(d, s.tbl, s.table)
    [] s.kind = "drop_table"  -> ~Exists(d, s.tbl)
    [] s.kind = "drop_column" -> ~HasColumn(d, s.tbl, s.col)
    [] OTHER                  -> ColumnIs(d, s.tbl, s.col, s.target)

CanChange(d, s) ==
  CASE s.kind = "create_table"   -> CanCreateTable(d, s)
    [] s.kind = "drop_table"     -> CanDropTable(d, s)
    [] s.kind = "drop_column"    -> CanDropColumn(d, s)
    [] s.kind = "add_column"     -> CanAddColumn(d, s)
    [] s.kind = "modify_column"  -> CanModifyColumn(d, s)
    [] s.kind = "restore_table"  -> CanRestoreTable(d, s)
    [] s.kind = "restore_column" -> CanRestoreColumn(d, s, run.by[run.at])
    [] OTHER                     -> TRUE

Changed(d, s) ==
  CASE s.kind = "create_table"   -> CreateTable(d, s)
    [] s.kind = "drop_table"     -> DropTable(d, s, run.at, run.undo)
    [] s.kind = "drop_column"    -> DropColumn(d, s, run.at, run.undo)
    [] s.kind = "add_column"     -> AddColumn(d, s)
    [] s.kind = "modify_column"  -> ModifyColumn(d, s)
    [] s.kind = "restore_table"  -> RestoreTable(d, s)
    [] s.kind = "restore_column" -> RestoreColumn(d, s, run.by[run.at])
    [] OTHER                     -> d

(* Foreign keys a step drops and the tables its statements lock.            *)
DroppedKeys(d, s) ==
  CASE s.kind = "drop_table"    -> Keys(TableDependents(d, s))
    [] s.kind = "drop_column"   -> Keys(ColumnDependents(d, s))
    [] s.kind = "modify_column" -> Keys(AlterDependents(d, s))
    [] OTHER                    -> {}
Ends(X) == {x.tbl : x \in X} \cup {x.ref : x \in X}
Needs(d, s) == {s.tbl} \cup Ends(DroppedKeys(d, s))

(* Journal entries to recreate: what the undone steps had dropped.          *)
ReplayedEntries(d) ==
  {j \in 1 .. Len(d.journal[FALSE].entries) : d.journal[FALSE].entries[j].step \in run.replay}
Replayed(d) == UNION {d.journal[FALSE].entries[j].deps : j \in ReplayedEntries(d)}
ReplayedOnce(d) ==
  \A i, j \in ReplayedEntries(d) :
    i # j => d.journal[FALSE].entries[i].deps \cap d.journal[FALSE].entries[j].deps = {}
------------------------------------------------------------------------------------
Init ==
  /\ \E decided \in Decisions : script = ForwardOps(decided)
  /\ db \in InitialDbs
  /\ work = db
  /\ run = Idle
  /\ locked = {} /\ busy = {}
  /\ past = [state |-> "new", outcome |-> "none", undo |-> FALSE, origin |-> db,
             disturbed |-> FALSE]
  /\ used = [runs |-> 0, writes |-> 0, holds |-> 0, cleanups |-> 0]

(* A user runs the script, or its undo once the script has been applied.    *)
Start(undo) ==
  /\ ~Running /\ used.runs < MaxRuns
  /\ undo => past.state # "new"
  /\ run' = [Idle EXCEPT !.undo = undo, !.phase = "check"]
  /\ used' = [used EXCEPT !.runs = @ + 1]
  /\ UNCHANGED <<script, db, work, locked, busy, past>>

RollBackMissing(outcome) == \* mutant: the CATCH block does not roll back
  /\ run' = Idle
  /\ locked' = {}
  /\ past' = [past EXCEPT !.outcome = outcome, !.undo = run.undo]
  /\ UNCHANGED <<script, db, work, busy, used>>
RollBack(outcome) ==
  /\ work' = db
  /\ run' = Idle
  /\ locked' = {}
  /\ past' = [past EXCEPT !.outcome = outcome, !.undo = run.undo]
  /\ UNCHANGED <<script, db, busy, used>>

(* Phase 1: one step's check.                                               *)
CheckStep ==
  /\ run.phase = "check"
  /\ Check(work, Step, run.undo) # "abort"
  /\ run' = [run EXCEPT
       !.skip = IF Check(work, Step, run.undo) = "skip" THEN @ \cup {run.at} ELSE @,
       !.by[run.at] = IF Step.kind = "restore_column" THEN MatchColumns(work, Step) ELSE {},
       !.at = IF run.at = Len(script) THEN 1 ELSE @ + 1,
       !.phase = IF run.at = Len(script) THEN "apply" ELSE @]
  /\ UNCHANGED <<script, db, work, locked, busy, past, used>>

Refuse ==
  /\ run.phase = "check"
  /\ Check(work, Step, run.undo) = "abort"
  /\ RollBack("refused")

(* Phase 2.  A step that drops copies its data first; the copy reads        *)
(* committed rows and keeps no lock on them.                                *)
AdvancePastEnd(r) ==        \* mutant: leaves `at' beyond the last step
  [r EXCEPT !.at = @ + 1, !.phase = IF r.at = Len(script) THEN "keys" ELSE @,
            !.copied = FALSE]
AdvanceForgetting(r) ==     \* mutant: each step starts its own list of keys
  [r EXCEPT !.at = IF r.at = Len(script) THEN 1 ELSE @ + 1,
            !.phase = IF r.at = Len(script) THEN "keys" ELSE @,
            !.copied = FALSE,
            !.keys = IF r.at = Len(script) THEN @ ELSE {}]
Advance(r) == [r EXCEPT !.at = IF r.at = Len(script) THEN 1 ELSE @ + 1,
                        !.phase = IF r.at = Len(script) THEN "keys" ELSE @,
                        !.copied = FALSE]

SkipStepJournaling ==       \* mutant: writes the journal outside IF @skip_n = 0
  /\ run.phase = "apply" /\ run.at \in run.skip
  /\ run' = Advance(run)
  /\ work' = Journaled(work, {}, run.at, run.undo)
  /\ UNCHANGED <<script, db, locked, busy, past, used>>
SkipStep ==
  /\ run.phase = "apply" /\ run.at \in run.skip
  /\ run' = Advance(run)
  /\ UNCHANGED <<script, db, work, locked, busy, past, used>>

Applying == run.phase = "apply" /\ run.at \notin run.skip
AtCopy == Applying /\ Copies(Step) /\ ~run.copied
AtChange == Applying /\ (Copies(Step) => run.copied)

CopyStepCommitted ==        \* mutant: the backup is not part of the transaction
  /\ AtCopy /\ CanCopy(work, Step, run.undo)
  /\ work' = Copy(work, Step, run.undo)
  /\ db' = work'
  /\ run' = [run EXCEPT !.copied = TRUE]
  /\ UNCHANGED <<script, locked, busy, past, used>>
CopyStep ==
  /\ AtCopy /\ CanCopy(work, Step, run.undo)
  /\ work' = Copy(work, Step, run.undo)
  /\ run' = [run EXCEPT !.copied = TRUE]
  /\ UNCHANGED <<script, db, locked, busy, past, used>>

ChangeStep ==
  /\ AtChange /\ Needs(work, Step) \cap busy = {}
  /\ CanChange(work, Step)
  /\ work' = Changed(work, Step)
  /\ locked' = locked \cup Needs(work, Step)
  /\ run' = Advance([run EXCEPT
       !.keys = IF Step.kind = "modify_column" THEN @ \cup DroppedKeys(work, Step) ELSE @,
       !.replay = IF Step.kind \in {"restore_table", "restore_column"}
                    THEN @ \cup {Step.num} ELSE @])
  /\ UNCHANGED <<script, db, busy, past, used>>

(* Foreign keys the modified columns needed dropped.                        *)
RecreateKeys ==
  /\ run.phase = "keys" /\ Ends(run.keys) \cap busy = {}
  /\ CanAddAll(work, run.keys)
  /\ work' = AddAll(work, run.keys)
  /\ locked' = locked \cup Ends(run.keys)
  /\ run' = [run EXCEPT !.phase = "replay"]
  /\ UNCHANGED <<script, db, busy, past, used>>

Replay ==
  /\ run.phase = "replay" /\ Ends(Replayed(work)) \cap busy = {}
  /\ ReplayedOnce(work) /\ CanAddAll(work, Replayed(work))
  /\ work' = AddAll(work, Replayed(work))
  /\ locked' = locked \cup Ends(Replayed(work))
  /\ run' = [run EXCEPT !.phase = "verify"]
  /\ UNCHANGED <<script, db, busy, past, used>>

(* A statement of phase 2 raises an error.                                  *)
StatementFails ==
  /\ \/ AtCopy /\ ~CanCopy(work, Step, run.undo)
     \/ AtChange /\ Needs(work, Step) \cap busy = {} /\ ~CanChange(work, Step)
     \/ run.phase = "keys" /\ ~CanAddAll(work, run.keys)
     \/ run.phase = "replay" /\ ~(ReplayedOnce(work) /\ CanAddAll(work, Replayed(work)))
  /\ RollBack("rolled_back")

(* Phase 3 and COMMIT.                                                      *)
Verified == \A n \in 1 .. Len(script) : Goal(work, AllSteps[n])

Commit ==
  /\ run.phase = "verify" /\ Verified
  /\ db' = work
  /\ run' = Idle
  /\ locked' = {}
  /\ past' = IF run.undo
               THEN [past EXCEPT !.state = "undone", !.outcome = "committed", !.undo = TRUE]
             ELSE IF past.state = "applied"
               THEN [past EXCEPT !.outcome = "committed", !.undo = FALSE]
             ELSE [state |-> "applied", outcome |-> "committed", undo |-> FALSE,
                   origin |-> db, disturbed |-> FALSE]
  /\ UNCHANGED <<script, work, busy, used>>

VerifyFails ==
  /\ run.phase = "verify" /\ ~Verified
  /\ RollBack("rolled_back")

(* The session is killed, loses its connection or is a deadlock victim, or  *)
(* the server restarts.                                                     *)
Interrupt == Running /\ RollBack("interrupted")

Waits ==
  \/ AtChange /\ Needs(work, Step) \cap busy # {}
  \/ run.phase = "keys" /\ Ends(run.keys) \cap busy # {}
  \/ run.phase = "replay" /\ Ends(Replayed(work)) \cap busy # {}
WaitForEver == FALSE        \* mutant: no SET LOCK_TIMEOUT
LockTimeout == Waits /\ RollBack("interrupted")
------------------------------------------------------------------------------------
(* Other sessions.                                                          *)

RowFits(d, t, row) ==
  \A c \in Columns : /\ row[c] <= d.cols[t][c].type
                     /\ row[c] = Null => d.cols[t][c].null
Legal(d, t, rows) ==
  /\ \A r \in DOMAIN rows : RowFits(d, t, rows[r])
  /\ \A x \in d.deps : OnTable(x, t) => Addable([d EXCEPT !.rows[t] = rows], x)

(* SQL Server keeps rows, columns and constraints consistent.               *)
ASSUME DatabaseAssumption ==
  \A d \in InitialDbs : \A t \in Tables : /\ Exists(d, t) \/ d.rows[t] = NoRows
                                         /\ Legal(d, t, d.rows[t])

OneRowChanges(rows) ==
  {new \in RowSets : \E r \in RowIds :
     /\ (DOMAIN new) \ {r} = (DOMAIN rows) \ {r}
     /\ \A q \in (DOMAIN rows) \ {r} : new[q] = rows[q]}

Write(t) ==
  /\ Exists(db, t) /\ t \notin locked /\ used.writes < MaxWrites
  /\ \E rows \in OneRowChanges(db.rows[t]) :
       /\ rows # db.rows[t] /\ Legal(db, t, rows)
       /\ db' = [db EXCEPT !.rows[t] = rows]
       /\ work' = [work EXCEPT !.rows[t] = rows]
  /\ used' = [used EXCEPT !.writes = @ + 1]
  /\ past' = [past EXCEPT !.disturbed = TRUE]
  /\ UNCHANGED <<script, run, locked, busy>>

Hold(t) ==
  /\ t \notin locked \cup busy /\ used.holds < MaxHolds
  /\ busy' = busy \cup {t}
  /\ used' = [used EXCEPT !.holds = @ + 1]
  /\ UNCHANGED <<script, db, work, run, locked, past>>

Release(t) ==
  /\ t \in busy
  /\ busy' = busy \ {t}
  /\ UNCHANGED <<script, db, work, run, locked, past, used>>

(* The user removes or renames a backup, as message 50007 asks, or removes  *)
(* a journal.  BDIFF itself never does.                                     *)
CleanUp(d) ==
  /\ ~Running /\ used.cleanups < MaxCleanups
  /\ d # db
  /\ db' = d /\ work' = d
  /\ used' = [used EXCEPT !.cleanups = @ + 1]
  /\ UNCHANGED <<script, run, locked, busy, past>>
RemoveBackup(b) == CleanUp([db EXCEPT !.bak[b] = NoBackup])
RemoveJournal(u) == CleanUp([db EXCEPT !.journal[u] = NoJournal])
------------------------------------------------------------------------------------
ScriptStep == \/ CheckStep \/ Refuse \/ SkipStep \/ CopyStep \/ ChangeStep
              \/ RecreateKeys \/ Replay \/ StatementFails \/ Commit \/ VerifyFails

Next ==
  \/ \E undo \in BOOLEAN : Start(undo)
  \/ ScriptStep
  \/ Interrupt \/ LockTimeout
  \/ \E t \in Tables : Write(t) \/ Hold(t) \/ Release(t)
  \/ \E b \in BackupNames : RemoveBackup(b)
  \/ \E u \in BOOLEAN : RemoveJournal(u)

Spec == Init /\ [][Next]_vars

(* The server executes a running script and times its waits out; nothing    *)
(* makes a user start one or another session release its lock.              *)
FairSpec == Spec /\ WF_vars(ScriptStep) /\ WF_vars(LockTimeout)
====================================================================================
