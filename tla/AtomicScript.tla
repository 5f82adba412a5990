------------------------------ MODULE AtomicScript ------------------------------
(****************************************************************************)
(* What a script promises the sessions that share its database: it happens  *)
(* entirely or not at all, touches nothing but the tables it names, and     *)
(* never undoes what another session has committed.                         *)
(****************************************************************************)
EXTENDS SchemaOps

CONSTANT InitialDbs
VARIABLES
  db,       \* the committed database
  names     \* the tables the script in progress names; {} when none runs
avars == <<db, names>>

Init == db \in InitialDbs /\ names = {}

(* A script starts, or one that had started ends without effect.            *)
Begin == names = {} /\ names' \in SUBSET Tables /\ names' # {} /\ UNCHANGED db
Abandon == names # {} /\ names' = {} /\ UNCHANGED db

(* All its changes appear at once.  Dependents are recreated or dropped     *)
(* only on the tables it names, backups and journals are only added to.     *)
Take ==
  /\ names # {} /\ names' = {}
  /\ db' \in Databases
  /\ \A t \in Tables \ names : db'.cols[t] = db.cols[t] /\ db'.rows[t] = db.rows[t]
  /\ \A x \in Dependents : (x \in db.deps) # (x \in db'.deps) => \E t \in names : OnTable(x, t)
  /\ \A b \in BackupNames : BackedUp(db, b) => db'.bak[b] = db.bak[b]
  /\ \A u \in BOOLEAN : db.journal[u].made => db'.journal[u].made

(* Another session commits rows of one table; the user clears backups.      *)
Share ==
  /\ \E t \in Tables, rows \in RowSets : db' = [db EXCEPT !.rows[t] = rows]
  /\ UNCHANGED names
Clear ==
  /\ names = {}
  /\ \/ \E b \in BackupNames : db' = [db EXCEPT !.bak[b] = NoBackup]
     \/ \E u \in BOOLEAN : db' = [db EXCEPT !.journal[u] = NoJournal]
  /\ UNCHANGED names

Next == Begin \/ Abandon \/ Take \/ Share \/ Clear
Spec == Init /\ [][Next]_avars
==================================================================================
