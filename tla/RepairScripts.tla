------------------------------- MODULE RepairScripts -------------------------------
(****************************************************************************)
(* The repair scripts the routines screen saves: one file for each profile  *)
(* and a master with all of them, which a person runs later.  They list     *)
(* what an operation of the screen found, and the databases may have        *)
(* changed since.                                                           *)
(****************************************************************************)
EXTENDS Routines

CONSTANT SortedProfiles   \* the profiles by name, the order files are written in

VARIABLES
  wrote,  \* what the last step wrote, if it saved scripts
  late    \* routines signed since the screen's last operation of each kind began

rvars == <<modules, screens, opened, open, modal, used, wrote, late>>

ASSUME SortedAssumption ==
  /\ SortedProfiles \in [1 .. Len(ProfileOrder) -> Profiles]
  /\ {SortedProfiles[n] : n \in DOMAIN SortedProfiles} = Profiles

Kinds == {"validate", "refresh"}
Files == [profiles: SUBSET Profiles, master: BOOLEAN,
          recompiles: SUBSET (Profiles \X RoutineNames)]
NoFiles == [profiles |-> {}, master |-> FALSE, recompiles |-> {}]

RInit == Init /\ wrote = NoFiles /\ late = [k \in Kinds |-> {}]

(* The results the scripts are made from: a refresh of this screen comes    *)
(* first, however old.                                                      *)
SourceKind(screen) == IF screen.refreshed # NoResults THEN "refresh" ELSE "validate"
Source(screen) ==
  IF SourceKind(screen) = "refresh" THEN screen.refreshed ELSE screen.validated

BlockOfAll(p, report) == {<<p, i.routine>> : i \in report.items}  \* mutant: signed ones too
Block(p, report) ==
  {<<p, i.routine>> : i \in {j \in report.items : j.signature = "unsigned"}}

(* Writing stops at the first file that cannot be written, and leaves those *)
(* before it: with written = Len(SortedProfiles) only the master is missing. *)
Write(results, written, complete) ==
  LET done == {SortedProfiles[n] : n \in 1 .. written}
  IN [profiles |-> done, master |-> complete,
      recompiles |-> UNION {Block(p, results[p]) : p \in done}]

Save ==
  /\ AtScreen /\ ~screens[opened].busy
  /\ Source(screens[opened]) # NoResults
  /\ \/ wrote' = Write(Source(screens[opened]), Len(SortedProfiles), TRUE)
     \/ \E written \in 0 .. Len(SortedProfiles) :
          wrote' = Write(Source(screens[opened]), written, FALSE)
  /\ UNCHANGED <<vars, late>>

Begins(kind) ==
  \/ opened' # opened
  \/ opened > 0 /\ ~Working(opened) /\ screens'[opened].worker.kind = kind
Signed(before, after) ==
  {c \in Profiles \X RoutineNames : after[c[1]][c[2]].signed /\ ~before[c[1]][c[2]].signed}
RNext ==
  \/ /\ Next
     /\ wrote' = NoFiles
     /\ late' = [k \in Kinds |-> IF Begins(k) THEN {} ELSE late[k] \cup Signed(modules, modules')]
  \/ Save

RSpec == RInit /\ [][RNext]_rvars /\ \A s \in Screens : WF_vars(WorkerStep(s))
-----------------------------------------------------------------------------------
(* A saved script recompiles no signed routine (repair_script.py:81-83, :132,   *)
(* "Excluye automáticamente objetos con firma digital"), unless somebody    *)
(* signed it after the operation it is made from had begun.                 *)
RepairsSkipSigned ==
  [][\A c \in wrote'.recompiles :
       modules[c[1]][c[2]].signed => c \in late[SourceKind(screens[opened])]]_rvars
===================================================================================
