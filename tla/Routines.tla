--------------------------------- MODULE Routines ---------------------------------
(****************************************************************************)
(* The routines screen of the TUI: it validates the procedures, functions   *)
(* and views of every SQL Server profile, recompiles the unsigned ones once *)
(* the user confirms.  Each operation runs in a worker thread that outlives *)
(* the screen, one profile after another and one routine after another,     *)
(* every routine in a transaction of its own, while other sessions change   *)
(* the routines.                                                            *)
(****************************************************************************)
EXTENDS Naturals, Sequences, FiniteSets

CONSTANTS
  ProfileOrder,   \* the SQL Server profiles, in configuration order
  RoutineNames,   \* names a routine may have, finitely many
  Excluded,       \* those an exclude pattern matches
  InitialModules, \* what the databases may hold at first
  Changing,       \* the routines other sessions may change
  MaxOpens,       \* how many times the screen is opened
  MaxStarts,      \* how many operations the user starts on an open screen
  MaxEvents       \* how many database calls fail or routines others change

VARIABLES
  modules,  \* the routines of each profile's database
  screens,  \* every screen opened so far, with its worker
  opened,   \* how many that is
  open,     \* the last of them is on the display
  modal,    \* the plan its confirmation dialog shows
  used      \* of each bound, and whether a change raced a worker

vars == <<modules, screens, opened, open, modal, used>>

Profiles == {ProfileOrder[n] : n \in 1 .. Len(ProfileOrder)}
Screens == 1 .. MaxOpens

(* A routine: whether it exists, bears a signature, refers to something     *)
(* that does not exist.                                                     *)
Modules == [there: BOOLEAN, signed: BOOLEAN, broken: BOOLEAN]
NoModule == [there |-> FALSE, signed |-> FALSE, broken |-> FALSE]

ASSUME RoutinesAssumption ==
  /\ ProfileOrder \in Seq(Profiles) /\ ProfileOrder # <<>>
  /\ \A m, n \in 1 .. Len(ProfileOrder) : ProfileOrder[m] = ProfileOrder[n] => m = n
  /\ InitialModules \subseteq [Profiles -> [RoutineNames -> Modules]]
  /\ IsFiniteSet(RoutineNames)
  /\ Changing \subseteq Profiles \X RoutineNames
  /\ MaxOpens \in Nat /\ MaxStarts \in Nat /\ MaxEvents \in Nat

(* What an operation reports of a profile: nothing yet, that it could not   *)
(* be reached, or an item for each routine.                                 *)
Signatures == {"signed", "unsigned", "unknown"}
Outcomes == {"ok", "failed", "unverifiable"}
Items == [routine: RoutineNames, signature: Signatures, outcome: Outcomes]
Reports == [state: {"none", "unreached", "reached"}, items: SUBSET Items]
Report(state) == [state |-> state, items |-> {}]
Results == [Profiles -> Reports]
NoResults == [p \in Profiles |-> Report("none")]

Workers == [kind: {"none", "validate", "refresh"},
            phase: {"connect", "inspect", "run", "apply"},
            at: 1 .. Len(ProfileOrder),    \* the profile it is at
            todo: SUBSET RoutineNames,     \* targets it has yet to report on
            now: SUBSET RoutineNames,      \* the one it is about to run, if any
            signature: Signatures,         \* sig_status of that one
            found: Results]                \* results_map
NoWorker == [kind |-> "none", phase |-> "connect", at |-> 1, todo |-> {},
             now |-> {}, signature |-> "unknown", found |-> NoResults]
ScreenStates == [busy: BOOLEAN, worker: Workers, validated: Results, refreshed: Results,
                 did: SUBSET (Profiles \X RoutineNames)]  \* what its last refresh committed
NewScreen == [busy |-> FALSE, worker |-> NoWorker, validated |-> NoResults,
              refreshed |-> NoResults, did |-> {}]

Plans == [recompilable: Nat, skipped: Nat]
NoPlan == [recompilable |-> 0, skipped |-> 0]
Validated(results) == UNION {{p} \X results[p].items : p \in Profiles}
RefreshPlan(results) ==
  LET unsigned == {v \in Validated(results) : v[2].signature = "unsigned"}
  IN [recompilable |-> Cardinality(unsigned),
      skipped |-> Cardinality(Validated(results) \ unsigned)]
-----------------------------------------------------------------------------------
Init ==
  /\ modules \in InitialModules
  /\ screens = [s \in Screens |-> NewScreen]
  /\ opened = 0 /\ open = FALSE
  /\ modal = NoPlan
  /\ used = [starts |-> 0, events |-> 0, raced |-> FALSE]

Working(s) == screens[s].worker.kind # "none"
Started(screen, kind) ==
  IF screen.busy THEN screen
  ELSE [screen EXCEPT !.busy = TRUE, !.worker = [NoWorker EXCEPT !.kind = kind],
                      !.did = IF kind = "refresh" THEN {} ELSE @]

(* The user: v on the main screen, whose mount validates; Esc; v; r.        *)
Open ==
  /\ ~open /\ opened < MaxOpens
  /\ opened' = opened + 1 /\ open' = TRUE
  /\ screens' = [screens EXCEPT ![opened + 1] = Started(NewScreen, "validate")]
  /\ UNCHANGED <<modules, modal, used>>

AtScreen == open /\ modal = NoPlan
Close ==
  /\ AtScreen
  /\ open' = FALSE
  /\ UNCHANGED <<modules, screens, opened, modal, used>>

Validate ==
  /\ AtScreen /\ ~screens[opened].busy /\ used.starts < MaxStarts
  /\ screens' = [screens EXCEPT ![opened] = Started(@, "validate")]
  /\ used' = [used EXCEPT !.starts = @ + 1]
  /\ UNCHANGED <<modules, opened, open, modal>>

RequestWhileBusy ==         \* mutant: no _refuse_if_busy before the dialog
  /\ AtScreen
  /\ screens[opened].validated # NoResults
  /\ RefreshPlan(screens[opened].validated).recompilable # 0
  /\ modal' = RefreshPlan(screens[opened].validated)
  /\ UNCHANGED <<modules, screens, opened, open, used>>
RequestRefresh ==
  /\ AtScreen /\ ~screens[opened].busy
  /\ screens[opened].validated # NoResults
  /\ RefreshPlan(screens[opened].validated).recompilable # 0
  /\ modal' = RefreshPlan(screens[opened].validated)
  /\ UNCHANGED <<modules, screens, opened, open, used>>

Answer(confirmed) ==
  /\ modal # NoPlan /\ (confirmed => used.starts < MaxStarts)
  /\ modal' = NoPlan
  /\ IF confirmed
       THEN /\ screens' = [screens EXCEPT ![opened] = Started(@, "refresh")]
            /\ used' = [used EXCEPT !.starts = @ + 1]
       ELSE UNCHANGED <<screens, used>>
  /\ UNCHANGED <<modules, opened, open>>
-----------------------------------------------------------------------------------
(* The worker of a screen.                                                  *)
Work(s) == screens[s].worker
Profile(s) == ProfileOrder[Work(s).at]

NextProfile(w) ==
  [w EXCEPT !.todo = {}, !.now = {},
            !.at = IF w.at = Len(ProfileOrder) THEN 1 ELSE @ + 1,
            !.phase = IF w.at = Len(ProfileOrder) THEN "apply" ELSE "connect"]
NextRoutine(w, r) ==
  IF w.todo \subseteq {r} THEN NextProfile(w)
  ELSE [w EXCEPT !.todo = @ \ {r}, !.now = {}, !.phase = "inspect"]
WorkerMoves(s, w) ==
  /\ screens' = [screens EXCEPT ![s].worker = w]
  /\ UNCHANGED <<modules, opened, open, modal>>
Fault(happens) ==
  /\ happens => used.events < MaxEvents
  /\ used' = [used EXCEPT !.events = IF happens THEN @ + 1 ELSE @]
WithItem(found, p, item) == [found EXCEPT ![p].items = @ \cup {item}]
Item(r, signature, outcome) == [routine |-> r, signature |-> signature, outcome |-> outcome]
Reported(w, r, signature, outcome) ==
  NextRoutine([w EXCEPT !.found =
    WithItem(@, ProfileOrder[w.at], Item(r, signature, outcome))], r)

Targets(p) == {r \in RoutineNames : modules[p][r].there} \ Excluded
Connect(s) ==
  /\ Working(s) /\ Work(s).phase = "connect"
  /\ LET w == [Work(s) EXCEPT !.todo = Targets(Profile(s)), !.phase = "inspect",
                              !.found[Profile(s)] = Report("reached")]
     IN WorkerMoves(s, IF w.todo = {} THEN NextProfile(w) ELSE w)
  /\ UNCHANGED used

(* Connecting or enumerating fails, or an error escapes the operation: the  *)
(* profile counts as not reached, whatever was done in it.                  *)
UnreachedEnds(s) ==         \* mutant: the error ends the worker's thread
  /\ Working(s) /\ Work(s).phase \in {"connect", "inspect"}
  /\ WorkerMoves(s, NoWorker)
  /\ Fault(TRUE)
Unreached(s) ==
  /\ Working(s) /\ Work(s).phase \in {"connect", "inspect"}
  /\ WorkerMoves(s, NextProfile([Work(s) EXCEPT !.found[Profile(s)] = Report("unreached")]))
  /\ Fault(TRUE)

RefusedUnknown(kind, signature) == signature = "unknown"   \* mutant: the signed ones too
Refused(kind, signature) == signature = "unknown" \/ (kind = "refresh" /\ signature = "signed")
Inspect(s, r) ==
  /\ Working(s) /\ Work(s).phase = "inspect" /\ r \in Work(s).todo
  /\ \E signature \in {IF modules[Profile(s)][r].signed THEN "signed" ELSE "unsigned", "unknown"} :
       /\ WorkerMoves(s,
            IF Refused(Work(s).kind, signature)
              THEN Reported(Work(s), r, signature,
                            IF Work(s).kind = "validate" THEN "unverifiable" ELSE "failed")
              ELSE [Work(s) EXCEPT !.phase = "run", !.now = {r}, !.signature = signature])
       /\ Fault(signature = "unknown")

Runs(s, kind, r) ==
  Working(s) /\ Work(s).phase = "run" /\ Work(s).kind = kind /\ r \in Work(s).now
Sound(p, r) == modules[p][r].there /\ ~modules[p][r].broken

ValidateRoutine(s, r) ==
  /\ Runs(s, "validate", r) /\ Sound(Profile(s), r)
  /\ WorkerMoves(s, Reported(Work(s), r, Work(s).signature, "ok"))
  /\ UNCHANGED used

(* The routine is gone or refers to nothing, or the database answers with   *)
(* an error: the transaction is rolled back.                                *)
RoutineFails(s, r) ==
  /\ Runs(s, "validate", r) \/ Runs(s, "refresh", r)
  /\ WorkerMoves(s, Reported(Work(s), r, Work(s).signature, "failed"))
  /\ Fault(Sound(Profile(s), r))

(* sp_refreshsqlmodule and its commit; recompiling drops the signature.     *)
(* The answer to the commit may be lost.                                    *)
RefreshUncommitted(s, r, outcome) ==   \* mutant: reports success with no commit
  /\ Runs(s, "refresh", r) /\ Sound(Profile(s), r)
  /\ WorkerMoves(s, Reported(Work(s), r, Work(s).signature, outcome))
  /\ Fault(outcome = "failed")
RefreshRoutine(s, r, outcome) ==
  /\ Runs(s, "refresh", r) /\ Sound(Profile(s), r)
  /\ modules' = [modules EXCEPT ![Profile(s)][r].signed = FALSE]
  /\ screens' = [screens EXCEPT
       ![s].worker = Reported(Work(s), r, Work(s).signature, outcome),
       ![s].did = @ \cup {<<Profile(s), r>>}]
  /\ UNCHANGED <<opened, open, modal>>
  /\ Fault(outcome = "failed")

(* The results reach the screen, shown or not, in the thread of the TUI.    *)
ApplyTwice(s) ==            \* mutant: the worker does not end
  /\ Working(s) /\ Work(s).phase = "apply"
  /\ screens' = [screens EXCEPT ![s].worker.at = @ + 1]
  /\ UNCHANGED <<modules, opened, open, modal, used>>
Apply(s) ==
  /\ Working(s) /\ Work(s).phase = "apply"
  /\ screens' = [screens EXCEPT
       ![s].busy = FALSE,
       ![s].worker = NoWorker,
       ![s].validated = IF Work(s).kind = "validate" THEN Work(s).found ELSE @,
       ![s].refreshed = IF Work(s).kind = "refresh" THEN Work(s).found ELSE @]
  /\ UNCHANGED <<modules, opened, open, modal, used>>

(* Another session creates, drops, alters or signs a routine.               *)
At(s, p, r) == Working(s) /\ Work(s).phase = "run" /\ Profile(s) = p /\ r \in Work(s).now
Change(p, r) ==
  /\ used.events < MaxEvents
  /\ \E m \in Modules : /\ m # modules[p][r]
                        /\ m.there \/ m = NoModule
                        /\ modules' = [modules EXCEPT ![p][r] = m]
                        /\ used' = [used EXCEPT !.events = @ + 1,
                               !.raced = @ \/ (m.signed /\ \E s \in Screens : At(s, p, r))]
  /\ UNCHANGED <<screens, opened, open, modal>>
-----------------------------------------------------------------------------------
WorkerStep(s) ==
  \/ Connect(s) \/ Unreached(s) \/ Apply(s)
  \/ \E r \in RoutineNames :
       \/ Inspect(s, r) \/ ValidateRoutine(s, r) \/ RoutineFails(s, r)
       \/ \E outcome \in {"ok", "failed"} : RefreshRoutine(s, r, outcome)
User ==
  \/ Open \/ Close \/ Validate \/ RequestRefresh
  \/ \E confirmed \in BOOLEAN : Answer(confirmed)
Next ==
  \/ User
  \/ \E s \in Screens : WorkerStep(s)
  \/ \E c \in Changing : Change(c[1], c[2])

(* Every database call of a worker ends, since the connection has a timeout, *)
(* and the TUI's loop serves every callback.                                 *)
Spec == Init /\ [][Next]_vars /\ \A s \in Screens : WF_vars(WorkerStep(s))
-----------------------------------------------------------------------------------
(* Every variable has its type.                                             *)
TypeOK ==
  /\ modules \in [Profiles -> [RoutineNames -> Modules]]
  /\ screens \in [Screens -> ScreenStates]
  /\ opened \in 0 .. MaxOpens /\ open \in BOOLEAN /\ (open => opened > 0)
  /\ modal \in Plans
  /\ used \in [starts: 0 .. MaxStarts, events: 0 .. MaxEvents, raced: BOOLEAN]

(* The dialog counts what the screen's last validation found: no validation *)
(* ends behind it (routine_model.RefreshPlan: "What a recompilation would   *)
(* touch").                                                                 *)
PlanIsCurrent ==
  modal # NoPlan => modal = RefreshPlan(screens[opened].validated) /\ ~Working(opened)

(* A screen never claims a recompilation that was not committed.            *)
ClaimsOnlyCommitted ==
  \A s \in Screens : Work(s).kind # "refresh" =>
    \A p \in Profiles : \A i \in screens[s].refreshed[p].items :
      i.outcome = "ok" => <<p, i.routine>> \in screens[s].did

(* A routine loses its signature to a worker only if somebody signed it     *)
(* between the worker's look at sys.crypt_properties and its call           *)
(* ("fail-closed", CHANGELOG.md:66).                                        *)
SignaturesKept ==
  [][\A p \in Profiles, r \in RoutineNames :
       modules[p][r].signed /\ ~modules'[p][r].signed /\ screens' # screens => used.raced]_vars

(* A busy screen becomes free again, whatever fails.                        *)
BusyEnds == \A s \in Screens : screens[s].busy ~> ~screens[s].busy

(* "la pantalla de rutinas ejecuta una operación a la vez": the mutating    *)
(* refresh goes on beside no other operation, which it did when "V durante  *)
(* R deja la recompilación mutante corriendo mientras la tabla muestra la   *)
(* validación" (idd/archive/2026-10-21-tui-thread-safety/state.yaml:8-9).   *)
RefreshIsAlone == \A s, t \in Screens : Work(s).kind = "refresh" /\ Working(t) => s = t
===================================================================================
