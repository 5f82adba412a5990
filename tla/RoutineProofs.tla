------------------------------- MODULE RoutineProofs -------------------------------
(****************************************************************************)
(* Theorems about Routines and RepairScripts for every list of profiles, set *)
(* of names, and bound.                                                     *)
(****************************************************************************)
EXTENDS RepairScripts, FiniteSetTheorems, TLAPS

(* The results of a validation are finitely many, so a plan can count them. *)
LEMMA ItemsFinite == IsFiniteSet(Items)
  <1> DEFINE Triples == (RoutineNames \X Signatures) \X Outcomes
             f == [t \in Triples |-> [routine |-> t[1][1], signature |-> t[1][2],
                                      outcome |-> t[2]]]
  <1>1. IsFiniteSet(Signatures)
    <2>1. Signatures = ({"signed"} \cup {"unsigned"}) \cup {"unknown"}  BY DEF Signatures
    <2>2. QED  BY <2>1, FS_Singleton, FS_Union
  <1>2. IsFiniteSet(Outcomes)
    <2>1. Outcomes = ({"ok"} \cup {"failed"}) \cup {"unverifiable"}  BY DEF Outcomes
    <2>2. IsFiniteSet({"ok"}) /\ IsFiniteSet({"failed"}) /\ IsFiniteSet({"unverifiable"})
      BY FS_Singleton
    <2>3. QED  BY <2>1, <2>2, FS_Union
  <1>3. IsFiniteSet(Triples)
    <2>1. IsFiniteSet(RoutineNames \X Signatures)
      BY <1>1, FS_Product, RoutinesAssumption
    <2>2. QED  BY <1>2, <2>1, FS_Product
  <1>4. f \in Surjection(Triples, Items)
    <2>1. f \in [Triples -> Items]
      BY DEF Items
    <2>2. ASSUME NEW i \in Items  PROVE  \E t \in Triples : f[t] = i
      <3> DEFINE t == <<<<i.routine, i.signature>>, i.outcome>>
      <3>1. t \in Triples  BY DEF Items
      <3>2. f[t] = i  BY <3>1 DEF Items
      <3>3. QED  BY <3>1, <3>2
    <2>3. QED  BY <2>1, <2>2 DEF Surjection
  <1>5. QED  BY <1>3, <1>4, FS_Surjection

LEMMA ProfilesFinite == IsFiniteSet(Profiles)
  <1> DEFINE N == 1 .. Len(ProfileOrder)
             f == [n \in N |-> ProfileOrder[n]]
  <1>1. IsFiniteSet(N)  BY FS_Interval, RoutinesAssumption
  <1>2. f \in Surjection(N, Profiles)  BY DEF Profiles, Surjection
  <1>3. QED  BY <1>1, <1>2, FS_Surjection

LEMMA PlanType ==
  ASSUME NEW results \in Results
  PROVE  RefreshPlan(results) \in Plans
  <1> DEFINE V == Validated(results)
             U == {v \in V : v[2].signature = "unsigned"}
  <1>1. V \in SUBSET (Profiles \X Items)
    BY DEF Validated, Results, Reports
  <1>2. IsFiniteSet(V)
    <2>1. IsFiniteSet(Profiles \X Items)  BY FS_Product, ItemsFinite, ProfilesFinite
    <2>2. QED  BY <1>1, <2>1, FS_Subset
  <1> HIDE DEF V
  <1>3. Cardinality(U) \in Nat /\ Cardinality(V \ U) \in Nat
    BY <1>2, FS_Subset, FS_CardinalityType
  <1>4. QED  BY <1>3 DEF V, RefreshPlan, Plans

(* The order of the profiles is a sequence of profiles, with a first one.   *)
LEMMA OrderType ==
  /\ Len(ProfileOrder) \in Nat \ {0}
  /\ \A n \in 1 .. Len(ProfileOrder) : ProfileOrder[n] \in Profiles
  BY RoutinesAssumption DEF Profiles
-----------------------------------------------------------------------------------
(* How a worker proceeds.  What it has found grows only in the last lemma.  *)
LEMMA NoWorkerType ==
  NoResults \in Results /\ NoWorker \in Workers /\ NewScreen \in ScreenStates
  <1>1. NoResults \in Results  BY DEF NoResults, Results, Reports, Report
  <1>2. NoWorker \in Workers
    BY <1>1, OrderType DEF NoWorker, Workers, Signatures
  <1>3. QED  BY <1>1, <1>2 DEF NewScreen, ScreenStates

LEMMA NextProfileType ==
  ASSUME NEW w \in Workers
  PROVE  /\ NextProfile(w) \in Workers
         /\ NextProfile(w).kind = w.kind /\ NextProfile(w).found = w.found
         /\ NextProfile(w).now = {}
  <1> DEFINE last == w.at = Len(ProfileOrder)
             at == IF last THEN 1 ELSE w.at + 1
             phase == IF last THEN "apply" ELSE "connect"
  <1>1. at \in 1 .. Len(ProfileOrder)
    BY OrderType DEF Workers
  <1>2. phase \in {"connect", "inspect", "run", "apply"}
    OBVIOUS
  <1>3. NextProfile(w) = [w EXCEPT !.todo = {}, !.now = {}, !.at = at, !.phase = phase]
    BY DEF NextProfile, Workers
  <1> HIDE DEF at, phase
  <1>4. QED  BY <1>1, <1>2, <1>3 DEF Workers

LEMMA NextRoutineType ==
  ASSUME NEW w \in Workers, NEW r
  PROVE  /\ NextRoutine(w, r) \in Workers
         /\ NextRoutine(w, r).kind = w.kind /\ NextRoutine(w, r).found = w.found
         /\ NextRoutine(w, r).now = {}
  BY NextProfileType DEF NextRoutine, Workers

(* A worker claims nothing but what was done.                               *)
ClaimsOf(found, did) ==
  \A p \in Profiles : \A i \in found[p].items : i.outcome = "ok" => <<p, i.routine>> \in did

LEMMA WithItemType ==
  ASSUME NEW found \in Results, NEW p \in Profiles, NEW item \in Items
  PROVE  /\ WithItem(found, p, item) \in Results
         /\ \A did : /\ ClaimsOf(found, did)
                     /\ item.outcome = "ok" => <<p, item.routine>> \in did
                     => ClaimsOf(WithItem(found, p, item), did)
  BY DEF WithItem, Results, Reports, ClaimsOf

LEMMA ReportedType ==
  ASSUME NEW w \in Workers, NEW r \in RoutineNames, NEW signature \in Signatures,
         NEW outcome \in Outcomes
  PROVE  /\ Reported(w, r, signature, outcome) \in Workers
         /\ Reported(w, r, signature, outcome).kind = w.kind
         /\ Reported(w, r, signature, outcome).now = {}
         /\ Reported(w, r, signature, outcome).found =
              WithItem(w.found, ProfileOrder[w.at], Item(r, signature, outcome))
  <1> DEFINE found == WithItem(w.found, ProfileOrder[w.at], Item(r, signature, outcome))
             v == [w EXCEPT !.found = found]
  <1>1. ProfileOrder[w.at] \in Profiles /\ w.found \in Results
    BY OrderType DEF Workers
  <1>2. Item(r, signature, outcome) \in Items  BY DEF Item, Items
  <1>3. found \in Results  BY <1>1, <1>2, WithItemType
  <1> HIDE DEF found
  <1>4. v \in Workers /\ v.kind = w.kind /\ v.found = found
    BY <1>3 DEF Workers
  <1>5. Reported(w, r, signature, outcome) = NextRoutine(v, r)
    BY DEF Reported, Workers, found
  <1> HIDE DEF v
  <1>6. QED  BY <1>4, <1>5, NextRoutineType DEF found

LEMMA ReportedClaims ==
  ASSUME NEW w \in Workers, NEW r \in RoutineNames, NEW signature \in Signatures,
         NEW outcome \in Outcomes, NEW did,
         ClaimsOf(w.found, did), outcome = "ok" => <<ProfileOrder[w.at], r>> \in did
  PROVE  ClaimsOf(Reported(w, r, signature, outcome).found, did)
  <1> DEFINE item == Item(r, signature, outcome)
  <1>1. ProfileOrder[w.at] \in Profiles /\ w.found \in Results
    BY OrderType DEF Workers
  <1>2. item \in Items /\ item.outcome = outcome /\ item.routine = r  BY DEF Item, Items
  <1>3. Reported(w, r, signature, outcome).found = WithItem(w.found, ProfileOrder[w.at], item)
    BY ReportedType
  <1> HIDE DEF item
  <1>4. QED  BY <1>1, <1>2, <1>3, WithItemType
-----------------------------------------------------------------------------------
(* The inductive invariant.  A screen is busy exactly while its worker      *)
(* works; the dialog belongs to an open screen; a refresh under way has     *)
(* found no more than it did; a routine about to be refreshed bears a       *)
(* signature only if the change that signed it raced the worker.            *)
BusyWhileWorking == \A s \in Screens : screens[s].busy <=> Working(s)
DialogIsOpen == modal # NoPlan => open
FindsOnlyCommitted ==
  \A s \in Screens : Work(s).kind = "refresh" => ClaimsOf(Work(s).found, screens[s].did)
AboutToRefresh(s, r) ==
  Work(s).kind = "refresh" /\ Work(s).phase = "run" /\ r \in Work(s).now
UnsignedOrRaced ==
  \A s \in Screens, r \in RoutineNames :
    AboutToRefresh(s, r) /\ modules[Profile(s)][r].signed => used.raced
IInv ==
  /\ TypeOK /\ BusyWhileWorking /\ DialogIsOpen /\ PlanIsCurrent
  /\ FindsOnlyCommitted /\ ClaimsOnlyCommitted /\ UnsignedOrRaced


LEMMA InitIInv == Init => IInv
  <1> SUFFICES ASSUME Init  PROVE IInv
    OBVIOUS
  <1>1. screens = [s \in Screens |-> NewScreen] /\ modal = NoPlan /\ open = FALSE
    BY DEF Init
  <1>2. TypeOK
    <2>1. NoPlan \in Plans  BY DEF Plans, NoPlan
    <2>2. screens \in [Screens -> ScreenStates]  BY <1>1, NoWorkerType
    <2>3. used \in [starts: 0 .. MaxStarts, events: 0 .. MaxEvents, raced: BOOLEAN]
      BY RoutinesAssumption DEF Init
    <2>4. modules \in [Profiles -> [RoutineNames -> Modules]]
      BY RoutinesAssumption DEF Init
    <2>5. opened \in 0 .. MaxOpens /\ open \in BOOLEAN /\ (open => opened > 0)
      <3>1. opened = 0 /\ open = FALSE  BY DEF Init
      <3>2. MaxOpens \in Nat  BY RoutinesAssumption
      <3>3. opened \in 0 .. MaxOpens  BY <3>1, <3>2
      <3>4. open \in BOOLEAN /\ ~open  BY <3>1
      <3>5. QED  BY <3>3, <3>4
    <2>6. QED  BY <1>1, <2>1, <2>2, <2>3, <2>4, <2>5 DEF TypeOK
  <1>3. \A s \in Screens : ~Working(s) /\ ~screens[s].busy
    BY <1>1 DEF Working, NewScreen, NoWorker
  <1>4. ClaimsOnlyCommitted
    BY <1>1 DEF ClaimsOnlyCommitted, NewScreen, NoResults, Report
  <1>5. QED
    BY <1>1, <1>2, <1>3, <1>4 DEF IInv, BusyWhileWorking, DialogIsOpen, PlanIsCurrent,
       FindsOnlyCommitted, UnsignedOrRaced, AboutToRefresh, Working, Work

(* A screen's fields have their types.                                      *)
LEMMA ScreenFields ==
  ASSUME TypeOK, NEW s \in Screens
  PROVE  /\ screens[s] \in ScreenStates /\ Work(s) \in Workers
         /\ screens[s].validated \in Results /\ Profile(s) \in Profiles
         /\ opened \in Nat /\ (open => opened \in Screens)
  BY OrderType, RoutinesAssumption DEF TypeOK, ScreenStates, Work, Workers, Profile, Screens

(* A worker that goes on, and reports no more than it did, keeps the        *)
(* invariant, also when it removes signatures.                              *)
LEMMA WorkerKeeps ==
  ASSUME IInv, NEW s \in Screens, Working(s), UNCHANGED <<opened, open, modal>>,
         NEW w \in Workers, w.kind = Work(s).kind,
         NEW did \in SUBSET (Profiles \X RoutineNames), screens[s].did \subseteq did,
         screens' = [screens EXCEPT ![s] = [screens[s] EXCEPT !.worker = w, !.did = did]],
         w.kind = "refresh" => ClaimsOf(w.found, did),
         modules' \in [Profiles -> [RoutineNames -> Modules]],
         \A p \in Profiles, r \in RoutineNames :
           modules'[p][r].signed => modules[p][r].signed,
         used' \in [starts: 0 .. MaxStarts, events: 0 .. MaxEvents, raced: BOOLEAN],
         used'.raced = used.raced,
         \A r \in RoutineNames :
           w.phase = "run" /\ r \in w.now /\ w.kind = "refresh" =>
             (modules[ProfileOrder[w.at]][r].signed => used.raced)
  PROVE  IInv'
  <1> DEFINE screen == [screens[s] EXCEPT !.worker = w, !.did = did]
  <1>1. /\ screens[s] \in ScreenStates /\ screens \in [Screens -> ScreenStates]
        /\ open => opened \in Screens
    BY ScreenFields DEF IInv, TypeOK
  <1>2. /\ screen \in ScreenStates /\ screen.worker = w /\ screen.did = did
        /\ screen.busy = screens[s].busy /\ screen.validated = screens[s].validated
        /\ screen.refreshed = screens[s].refreshed
    BY <1>1 DEF ScreenStates
  <1> HIDE DEF screen
  <1>3. /\ screens'[s] = screen
        /\ \A t \in Screens : t # s => screens'[t] = screens[t]
        /\ screens' \in [Screens -> ScreenStates]
    BY <1>1, <1>2 DEF screen
  <1>4. TypeOK'
    BY <1>3 DEF IInv, TypeOK
  <1>5. BusyWhileWorking'
    BY <1>2, <1>3 DEF IInv, BusyWhileWorking, Working, Work
  <1>6. DialogIsOpen'
    BY DEF IInv, DialogIsOpen
  <1>7. PlanIsCurrent'
    <2> SUFFICES ASSUME modal # NoPlan
                 PROVE  modal = RefreshPlan(screens'[opened].validated) /\ ~Working(opened)'
      BY DEF PlanIsCurrent
    <2>1. opened # s /\ opened \in Screens
      BY <1>1 DEF IInv, PlanIsCurrent, DialogIsOpen
    <2>2. QED  BY <2>1, <1>3 DEF IInv, PlanIsCurrent, Working
  <1>8. FindsOnlyCommitted'
    BY <1>2, <1>3 DEF IInv, FindsOnlyCommitted, Work
  <1>9. ClaimsOnlyCommitted'
    BY <1>2, <1>3 DEF IInv, ClaimsOnlyCommitted, Work
  <1>10. UnsignedOrRaced'
    <2> SUFFICES ASSUME NEW t \in Screens, NEW r \in RoutineNames,
                        AboutToRefresh(t, r)', modules'[Profile(t)'][r].signed
                 PROVE  used.raced
      BY DEF UnsignedOrRaced
    <2>1. CASE t = s
      <3>1. Work(t)' = w /\ Profile(t)' = ProfileOrder[w.at]
        BY <2>1, <1>2, <1>3 DEF Work, Profile
      <3>2. ProfileOrder[w.at] \in Profiles
        BY OrderType DEF Workers
      <3>3. QED  BY <3>1, <3>2 DEF AboutToRefresh
    <2>2. CASE t # s
      <3>1. Work(t)' = Work(t) /\ Profile(t)' = Profile(t) /\ Profile(t) \in Profiles
        BY <2>2, <1>3, ScreenFields DEF Work, Profile, IInv
      <3>2. QED  BY <3>1 DEF AboutToRefresh, IInv, UnsignedOrRaced
    <2>3. QED  BY <2>1, <2>2
  <1>11. QED
    BY <1>4, <1>5, <1>6, <1>7, <1>8, <1>9, <1>10 DEF IInv

LEMMA MoveKeeps ==
  ASSUME IInv, NEW s \in Screens, Working(s),
         NEW w \in Workers, w.kind = Work(s).kind, WorkerMoves(s, w),
         w.kind = "refresh" => ClaimsOf(w.found, screens[s].did),
         used' \in [starts: 0 .. MaxStarts, events: 0 .. MaxEvents, raced: BOOLEAN],
         used'.raced = used.raced,
         \A r \in RoutineNames :
           w.phase = "run" /\ r \in w.now /\ w.kind = "refresh" =>
             (modules[ProfileOrder[w.at]][r].signed => used.raced)
  PROVE  IInv'
  <1>1. screens[s] \in ScreenStates /\ screens \in [Screens -> ScreenStates]
    BY ScreenFields DEF IInv, TypeOK
  <1>2. screens[s].did \in SUBSET (Profiles \X RoutineNames)
    BY <1>1 DEF ScreenStates
  <1>3. [screens[s] EXCEPT !.worker = w]
          = [screens[s] EXCEPT !.worker = w, !.did = screens[s].did]
    BY <1>1 DEF ScreenStates
  <1>4. screens' = [screens EXCEPT ![s] = [screens[s] EXCEPT !.worker = w,
                                                             !.did = screens[s].did]]
    BY <1>3 DEF WorkerMoves
  <1>5. /\ UNCHANGED <<opened, open, modal>> /\ modules' = modules
        /\ modules \in [Profiles -> [RoutineNames -> Modules]]
    BY DEF WorkerMoves, IInv, TypeOK
  <1>6. QED  BY <1>2, <1>4, <1>5, WorkerKeeps

LEMMA FaultType ==
  ASSUME TypeOK, NEW happens \in BOOLEAN, Fault(happens)
  PROVE  /\ used' \in [starts: 0 .. MaxStarts, events: 0 .. MaxEvents, raced: BOOLEAN]
         /\ used'.raced = used.raced
  BY RoutinesAssumption DEF TypeOK, Fault

(* Reporting on a routine keeps the invariant when the report is true.      *)
LEMMA ReportKeeps ==
  ASSUME IInv, NEW s \in Screens, Working(s), NEW r \in RoutineNames,
         NEW signature \in Signatures, NEW outcome \in Outcomes,
         outcome = "ok" /\ Work(s).kind = "refresh" => <<Profile(s), r>> \in screens[s].did,
         WorkerMoves(s, Reported(Work(s), r, signature, outcome)),
         used' \in [starts: 0 .. MaxStarts, events: 0 .. MaxEvents, raced: BOOLEAN],
         used'.raced = used.raced
  PROVE  IInv'
  <1> DEFINE next == Reported(Work(s), r, signature, outcome)
  <1>1. Work(s) \in Workers  BY ScreenFields DEF IInv
  <1>2. next \in Workers /\ next.kind = Work(s).kind /\ next.now = {}
    BY <1>1, ReportedType
  <1>3. next.kind = "refresh" => ClaimsOf(next.found, screens[s].did)
    <2> SUFFICES ASSUME Work(s).kind = "refresh"
                 PROVE  ClaimsOf(next.found, screens[s].did)
      BY <1>2
    <2>1. ClaimsOf(Work(s).found, screens[s].did)
      BY DEF IInv, FindsOnlyCommitted
    <2>2. outcome = "ok" => <<ProfileOrder[Work(s).at], r>> \in screens[s].did
      BY DEF Profile
    <2>3. QED  BY <1>1, <2>1, <2>2, ReportedClaims
  <1> HIDE DEF next
  <1>4. WorkerMoves(s, next)  BY DEF next
  <1>5. QED  BY <1>2, <1>3, <1>4, MoveKeeps

LEMMA ConnectKeeps ==
  ASSUME IInv, NEW s \in Screens, Connect(s)
  PROVE  IInv'
  <1> DEFINE p == Profile(s)
             found == [Work(s).found EXCEPT ![p] = Report("reached")]
             w == [Work(s) EXCEPT !.todo = Targets(p), !.phase = "inspect",
                                  !.found[p] = Report("reached")]
             next == IF w.todo = {} THEN NextProfile(w) ELSE w
  <1>1. Work(s) \in Workers /\ p \in Profiles  BY ScreenFields DEF IInv
  <1>2. found \in Results  BY <1>1 DEF Workers, Results, Reports, Report
  <1>3. Targets(p) \in SUBSET RoutineNames  BY DEF Targets
  <1>4. w = [Work(s) EXCEPT !.todo = Targets(p), !.phase = "inspect", !.found = found]
    BY <1>1 DEF Workers
  <1>5. w \in Workers /\ w.kind = Work(s).kind /\ w.found = found /\ w.phase = "inspect"
    BY <1>1, <1>2, <1>3, <1>4 DEF Workers
  <1>6. w.kind = "refresh" => ClaimsOf(found, screens[s].did)
    BY <1>1, <1>5 DEF IInv, FindsOnlyCommitted, ClaimsOf, Workers, Results, Report
  <1>7. Working(s) /\ WorkerMoves(s, next) /\ used' = used
    BY DEF Connect
  <1> HIDE DEF w, found
  <1>8. /\ next \in Workers /\ next.kind = w.kind /\ next.found = found
        /\ next.phase = "inspect" \/ next.now = {}
    BY <1>5, NextProfileType
  <1> HIDE DEF next
  <1>9. QED
    BY <1>5, <1>6, <1>7, <1>8, MoveKeeps DEF IInv, TypeOK

LEMMA UnreachedKeeps ==
  ASSUME IInv, NEW s \in Screens, Unreached(s)
  PROVE  IInv'
  <1> DEFINE p == Profile(s)
             found == [Work(s).found EXCEPT ![p] = Report("unreached")]
             w == [Work(s) EXCEPT !.found[p] = Report("unreached")]
             next == NextProfile(w)
  <1>1. Work(s) \in Workers /\ p \in Profiles  BY ScreenFields DEF IInv
  <1>2. found \in Results  BY <1>1 DEF Workers, Results, Reports, Report
  <1>3. w \in Workers /\ w.kind = Work(s).kind /\ w.found = found
    BY <1>1, <1>2 DEF Workers
  <1>4. w.kind = "refresh" => ClaimsOf(found, screens[s].did)
    BY <1>1, <1>3 DEF IInv, FindsOnlyCommitted, ClaimsOf, Workers, Results, Report
  <1>5. Working(s) /\ WorkerMoves(s, next) /\ Fault(TRUE)
    BY DEF Unreached
  <1>6. /\ used' \in [starts: 0 .. MaxStarts, events: 0 .. MaxEvents, raced: BOOLEAN]
        /\ used'.raced = used.raced
    BY <1>5, FaultType DEF IInv
  <1> HIDE DEF w, found
  <1>7. next \in Workers /\ next.kind = w.kind /\ next.found = found /\ next.now = {}
    BY <1>3, NextProfileType
  <1> HIDE DEF next
  <1>8. QED  BY <1>3, <1>4, <1>5, <1>6, <1>7, MoveKeeps

LEMMA InspectKeeps ==
  ASSUME IInv, NEW s \in Screens, NEW r \in RoutineNames, Inspect(s, r)
  PROVE  IInv'
  <1>1. Working(s) /\ Work(s) \in Workers /\ Profile(s) \in Profiles
    BY ScreenFields DEF IInv, Inspect
  <1>2. PICK signature \in {IF modules[Profile(s)][r].signed THEN "signed" ELSE "unsigned",
                            "unknown"} :
          /\ WorkerMoves(s,
               IF Refused(Work(s).kind, signature)
                 THEN Reported(Work(s), r, signature,
                               IF Work(s).kind = "validate" THEN "unverifiable" ELSE "failed")
                 ELSE [Work(s) EXCEPT !.phase = "run", !.now = {r}, !.signature = signature])
          /\ Fault(signature = "unknown")
    BY DEF Inspect
  <1>3. signature \in Signatures  BY DEF Signatures
  <1>4. /\ used' \in [starts: 0 .. MaxStarts, events: 0 .. MaxEvents, raced: BOOLEAN]
        /\ used'.raced = used.raced
    BY <1>2, FaultType DEF IInv
  <1>5. CASE Refused(Work(s).kind, signature)
    <2> DEFINE outcome == IF Work(s).kind = "validate" THEN "unverifiable" ELSE "failed"
    <2>1. outcome \in Outcomes /\ outcome # "ok"  BY DEF Outcomes
    <2>2. WorkerMoves(s, Reported(Work(s), r, signature, outcome))
      BY <1>2, <1>5
    <2> HIDE DEF outcome
    <2>3. QED  BY <1>1, <1>3, <1>4, <2>1, <2>2, ReportKeeps
  <1>6. CASE ~Refused(Work(s).kind, signature)
    <2> DEFINE w == [Work(s) EXCEPT !.phase = "run", !.now = {r}, !.signature = signature]
    <2>1. /\ w \in Workers /\ w.kind = Work(s).kind /\ w.found = Work(s).found
          /\ w.at = Work(s).at /\ w.now = {r}
      BY <1>1, <1>3 DEF Workers
    <2>2. WorkerMoves(s, w)  BY <1>2, <1>6
    <2> HIDE DEF w
    <2>3. w.kind = "refresh" => ~modules[Profile(s)][r].signed
      BY <1>2, <1>6, <2>1 DEF Refused
    <2>4. \A n \in RoutineNames :
            w.phase = "run" /\ n \in w.now /\ w.kind = "refresh" =>
              (modules[ProfileOrder[w.at]][n].signed => used.raced)
      BY <2>1, <2>3 DEF Profile
    <2>5. w.kind = "refresh" => ClaimsOf(w.found, screens[s].did)
      BY <2>1 DEF IInv, FindsOnlyCommitted
    <2>6. QED  BY <1>1, <1>4, <2>1, <2>2, <2>4, <2>5, MoveKeeps
  <1>7. QED  BY <1>5, <1>6

LEMMA ValidateRoutineKeeps ==
  ASSUME IInv, NEW s \in Screens, NEW r \in RoutineNames, ValidateRoutine(s, r)
  PROVE  IInv'
  <1>1. Working(s) /\ Work(s) \in Workers /\ Work(s).kind = "validate" /\ used' = used
    BY ScreenFields DEF IInv, ValidateRoutine, Runs
  <1>2. WorkerMoves(s, Reported(Work(s), r, Work(s).signature, "ok"))
    BY DEF ValidateRoutine
  <1>3. Work(s).signature \in Signatures /\ "ok" \in Outcomes
    BY <1>1 DEF Workers, Outcomes
  <1>4. used' \in [starts: 0 .. MaxStarts, events: 0 .. MaxEvents, raced: BOOLEAN]
    BY <1>1 DEF IInv, TypeOK
  <1>5. QED  BY <1>1, <1>2, <1>3, <1>4, ReportKeeps

LEMMA RoutineFailsKeeps ==
  ASSUME IInv, NEW s \in Screens, NEW r \in RoutineNames, RoutineFails(s, r)
  PROVE  IInv'
  <1>1. Working(s) /\ Work(s) \in Workers /\ Profile(s) \in Profiles
    BY ScreenFields DEF IInv, RoutineFails, Runs
  <1>2. WorkerMoves(s, Reported(Work(s), r, Work(s).signature, "failed"))
    BY DEF RoutineFails
  <1>3. Work(s).signature \in Signatures /\ "failed" \in Outcomes
    BY <1>1 DEF Workers, Outcomes
  <1>4. Fault(Sound(Profile(s), r)) /\ Sound(Profile(s), r) \in BOOLEAN
    BY <1>1 DEF RoutineFails, Sound, IInv, TypeOK, Modules
  <1>5. /\ used' \in [starts: 0 .. MaxStarts, events: 0 .. MaxEvents, raced: BOOLEAN]
        /\ used'.raced = used.raced
    BY <1>4, FaultType DEF IInv
  <1>6. QED  BY <1>1, <1>2, <1>3, <1>5, ReportKeeps

LEMMA RefreshRoutineKeeps ==
  ASSUME IInv, NEW s \in Screens, NEW r \in RoutineNames, NEW outcome \in {"ok", "failed"},
         RefreshRoutine(s, r, outcome)
  PROVE  IInv'
  <1> DEFINE p == Profile(s)
             w == Reported(Work(s), r, Work(s).signature, outcome)
             did == screens[s].did \cup {<<p, r>>}
  <1>1. /\ Working(s) /\ Work(s) \in Workers /\ p \in Profiles
        /\ Work(s).kind = "refresh" /\ UNCHANGED <<opened, open, modal>>
        /\ screens[s] \in ScreenStates /\ screens \in [Screens -> ScreenStates]
    BY ScreenFields DEF IInv, TypeOK, RefreshRoutine, Runs
  <1>2. Work(s).signature \in Signatures /\ outcome \in Outcomes
    BY <1>1 DEF Workers, Outcomes
  <1>3. w \in Workers /\ w.kind = Work(s).kind /\ w.now = {}
    BY <1>1, <1>2, ReportedType
  <1>4. ClaimsOf(w.found, did)
    <2>1. ClaimsOf(Work(s).found, did)
      BY <1>1 DEF IInv, FindsOnlyCommitted, ClaimsOf
    <2>2. <<ProfileOrder[Work(s).at], r>> \in did
      BY DEF Profile
    <2> HIDE DEF did
    <2>3. QED  BY <1>1, <1>2, <2>1, <2>2, ReportedClaims
  <1>5. did \in SUBSET (Profiles \X RoutineNames) /\ screens[s].did \subseteq did
    BY <1>1 DEF ScreenStates
  <1>6. screens' = [screens EXCEPT ![s] = [screens[s] EXCEPT !.worker = w, !.did = did]]
    BY <1>1 DEF RefreshRoutine, ScreenStates
  <1>7. /\ modules' \in [Profiles -> [RoutineNames -> Modules]]
        /\ \A q \in Profiles, n \in RoutineNames :
             modules'[q][n].signed => modules[q][n].signed
    <2>1. modules \in [Profiles -> [RoutineNames -> Modules]]  BY DEF IInv, TypeOK
    <2>2. modules' = [modules EXCEPT ![p][r].signed = FALSE]  BY DEF RefreshRoutine
    <2> DEFINE m == [modules[p][r] EXCEPT !.signed = FALSE]
               f == [modules[p] EXCEPT ![r] = m]
    <2>3. m \in Modules /\ ~m.signed
      <3>1. modules[p][r] \in Modules  BY <1>1, <2>1
      <3>2. QED  BY <3>1 DEF Modules
    <2>4. modules' = [modules EXCEPT ![p] = f]  BY <2>2
    <2> HIDE DEF m
    <2>5. f \in [RoutineNames -> Modules]  BY <1>1, <2>1, <2>3
    <2>6. \A n \in RoutineNames : f[n].signed => modules[p][n].signed
      BY <1>1, <2>1, <2>3
    <2> HIDE DEF f
    <2>7. QED  BY <1>1, <2>1, <2>4, <2>5, <2>6
  <1>8. /\ used' \in [starts: 0 .. MaxStarts, events: 0 .. MaxEvents, raced: BOOLEAN]
        /\ used'.raced = used.raced
    BY FaultType DEF IInv, RefreshRoutine
  <1> HIDE DEF w, did, p
  <1>9. QED  BY <1>1, <1>3, <1>4, <1>5, <1>6, <1>7, <1>8, WorkerKeeps

LEMMA ApplyKeeps ==
  ASSUME IInv, NEW s \in Screens, Apply(s)
  PROVE  IInv'
  <1> DEFINE old == screens[s]
             validated == IF Work(s).kind = "validate" THEN Work(s).found ELSE old.validated
             refreshed == IF Work(s).kind = "refresh" THEN Work(s).found ELSE old.refreshed
             screen == [old EXCEPT !.busy = FALSE, !.worker = NoWorker,
                                   !.validated = validated, !.refreshed = refreshed]
  <1>1. /\ Working(s) /\ UNCHANGED <<modules, opened, open, modal, used>>
        /\ old \in ScreenStates /\ screens \in [Screens -> ScreenStates]
        /\ Work(s) \in Workers /\ (open => opened \in Screens)
    BY ScreenFields DEF IInv, TypeOK, Apply
  <1>2. validated \in Results /\ refreshed \in Results
    BY <1>1 DEF ScreenStates, Workers
  <1>3. screens' = [screens EXCEPT ![s] = screen]
    BY <1>1 DEF Apply, ScreenStates
  <1>4. \A p \in Profiles : \A i \in refreshed[p].items :
          i.outcome = "ok" => <<p, i.routine>> \in old.did
    BY <1>1 DEF IInv, FindsOnlyCommitted, ClaimsOnlyCommitted, ClaimsOf
  <1> HIDE DEF validated, refreshed
  <1>5. /\ screen \in ScreenStates /\ screen.worker = NoWorker /\ ~screen.busy
        /\ screen.refreshed = refreshed /\ screen.did = old.did
    BY <1>1, <1>2, NoWorkerType DEF ScreenStates
  <1> HIDE DEF screen, old
  <1>6. /\ screens'[s] = screen /\ screens' \in [Screens -> ScreenStates]
        /\ \A t \in Screens : t # s => screens'[t] = screens[t]
    BY <1>1, <1>3, <1>5
  <1>7. TypeOK'
    BY <1>1, <1>6 DEF IInv, TypeOK
  <1>8. BusyWhileWorking'
    BY <1>5, <1>6 DEF IInv, BusyWhileWorking, Working, NoWorker
  <1>9. DialogIsOpen'
    BY <1>1 DEF IInv, DialogIsOpen
  <1>10. PlanIsCurrent'
    <2> SUFFICES ASSUME modal # NoPlan
                 PROVE  modal = RefreshPlan(screens'[opened].validated) /\ ~Working(opened)'
      BY <1>1 DEF PlanIsCurrent
    <2>1. opened # s /\ opened \in Screens
      BY <1>1 DEF IInv, PlanIsCurrent, DialogIsOpen
    <2>2. QED  BY <2>1, <1>1, <1>6 DEF IInv, PlanIsCurrent, Working
  <1>11. FindsOnlyCommitted'
    BY <1>5, <1>6 DEF IInv, FindsOnlyCommitted, Work, NoWorker
  <1>12. ClaimsOnlyCommitted'
    BY <1>4, <1>5, <1>6 DEF IInv, ClaimsOnlyCommitted, Work
  <1>13. UnsignedOrRaced'
    BY <1>1, <1>5, <1>6 DEF IInv, UnsignedOrRaced, AboutToRefresh, Work, Profile, NoWorker
  <1>14. QED
    BY <1>7, <1>8, <1>9, <1>10, <1>11, <1>12, <1>13 DEF IInv

LEMMA ChangeKeeps ==
  ASSUME IInv, NEW p \in Profiles, NEW r \in RoutineNames, Change(p, r)
  PROVE  IInv'
  <1>1. PICK m \in Modules :
          /\ modules' = [modules EXCEPT ![p][r] = m]
          /\ used' = [used EXCEPT !.events = @ + 1,
               !.raced = @ \/ (m.signed /\ \E s \in Screens : At(s, p, r))]
    BY DEF Change
  <1>2. /\ UNCHANGED <<screens, opened, open, modal>> /\ used.events < MaxEvents
        /\ modules \in [Profiles -> [RoutineNames -> Modules]]
        /\ used \in [starts: 0 .. MaxStarts, events: 0 .. MaxEvents, raced: BOOLEAN]
    BY DEF Change, IInv, TypeOK
  <1> DEFINE f == [modules[p] EXCEPT ![r] = m]
             raced == used.raced \/ (m.signed /\ \E s \in Screens : At(s, p, r))
  <1>3. /\ modules' = [modules EXCEPT ![p] = f] /\ f \in [RoutineNames -> Modules]
        /\ f[r] = m /\ \A n \in RoutineNames : n # r => f[n] = modules[p][n]
    BY <1>1, <1>2
  <1>4. raced \in BOOLEAN /\ used' = [used EXCEPT !.events = @ + 1, !.raced = raced]
    BY <1>1
  <1> HIDE DEF f, raced
  <1>5. /\ used' \in [starts: 0 .. MaxStarts, events: 0 .. MaxEvents, raced: BOOLEAN]
        /\ used'.raced = raced
    <2>1. MaxEvents \in Nat  BY RoutinesAssumption
    <2>2. used.events \in 0 .. MaxEvents  BY <1>2
    <2>3. used.events + 1 \in 0 .. MaxEvents  BY <1>2, <2>1, <2>2
    <2>4. QED  BY <1>2, <1>4, <2>3
  <1>6. TypeOK'
    BY <1>2, <1>3, <1>5 DEF IInv, TypeOK
  <1>7. UnsignedOrRaced'
    <2> SUFFICES ASSUME NEW s \in Screens, NEW n \in RoutineNames,
                        AboutToRefresh(s, n), modules'[Profile(s)][n].signed
                 PROVE  raced
      BY <1>2, <1>5 DEF UnsignedOrRaced, AboutToRefresh, Work, Profile
    <2>1. Profile(s) \in Profiles
      BY ScreenFields DEF IInv
    <2>2. CASE Profile(s) = p /\ n = r
      <3>1. m.signed  BY <1>2, <1>3, <2>2
      <3>2. At(s, p, r)
        BY <2>2 DEF AboutToRefresh, At, Working, Work
      <3>3. QED  BY <3>1, <3>2 DEF raced
    <2>3. CASE ~(Profile(s) = p /\ n = r)
      <3>1. modules[Profile(s)][n].signed  BY <1>2, <1>3, <2>1, <2>3
      <3>2. QED  BY <3>1 DEF raced, IInv, UnsignedOrRaced
    <2>4. QED  BY <2>2, <2>3
  <1>8. BusyWhileWorking' /\ DialogIsOpen' /\ PlanIsCurrent'
    BY <1>2 DEF IInv, BusyWhileWorking, DialogIsOpen, PlanIsCurrent, Working
  <1>9. FindsOnlyCommitted' /\ ClaimsOnlyCommitted'
    BY <1>2 DEF IInv, FindsOnlyCommitted, ClaimsOnlyCommitted, Work
  <1>10. QED  BY <1>6, <1>7, <1>8, <1>9 DEF IInv

(* Starting an operation on a screen that is free keeps the invariant.      *)
LEMMA StartKeeps ==
  ASSUME IInv, NEW s \in Screens, NEW screen \in ScreenStates,
         NEW kind \in {"validate", "refresh"}, ~screen.busy,
         \A p \in Profiles : \A i \in screen.refreshed[p].items :
           i.outcome = "ok" => <<p, i.routine>> \in screen.did,
         screens' = [screens EXCEPT ![s] = Started(screen, kind)],
         modules' = modules, modal' = NoPlan,
         opened' \in 0 .. MaxOpens, open' \in BOOLEAN, open' => opened' > 0,
         used' \in [starts: 0 .. MaxStarts, events: 0 .. MaxEvents, raced: BOOLEAN],
         used'.raced = used.raced
  PROVE  IInv'
  <1> DEFINE worker == [NoWorker EXCEPT !.kind = kind]
             did == IF kind = "refresh" THEN {} ELSE screen.did
             next == [screen EXCEPT !.busy = TRUE, !.worker = worker, !.did = did]
  <1>1. worker \in Workers /\ worker.kind = kind /\ worker.found = NoResults /\ worker.now = {}
    BY NoWorkerType DEF Workers, NoWorker
  <1>2. did \in SUBSET (Profiles \X RoutineNames)
    BY DEF ScreenStates
  <1>3. Started(screen, kind) = next
    BY DEF Started, ScreenStates
  <1>4. kind # "refresh" =>
          \A p \in Profiles : \A i \in screen.refreshed[p].items :
            i.outcome = "ok" => <<p, i.routine>> \in did
    OBVIOUS
  <1> HIDE DEF worker, did
  <1>5. /\ next \in ScreenStates /\ next.worker = worker /\ next.busy
        /\ next.refreshed = screen.refreshed /\ next.did = did
    BY <1>1, <1>2 DEF ScreenStates
  <1> HIDE DEF next
  <1>6. /\ screens'[s] = next /\ screens' \in [Screens -> ScreenStates]
        /\ \A t \in Screens : t # s => screens'[t] = screens[t]
    BY <1>3, <1>5 DEF IInv, TypeOK
  <1>7. NoPlan \in Plans  BY DEF NoPlan, Plans
  <1>8. TypeOK'
    BY <1>6, <1>7 DEF IInv, TypeOK
  <1>9. BusyWhileWorking'
    BY <1>1, <1>5, <1>6 DEF IInv, BusyWhileWorking, Working
  <1>10. DialogIsOpen' /\ PlanIsCurrent'
    BY DEF DialogIsOpen, PlanIsCurrent
  <1>11. FindsOnlyCommitted'
    <2>1. ClaimsOf(NoResults, did)  BY DEF ClaimsOf, NoResults, Report
    <2>2. QED  BY <1>1, <1>5, <1>6, <2>1 DEF IInv, FindsOnlyCommitted, Work
  <1>12. ClaimsOnlyCommitted'
    BY <1>1, <1>4, <1>5, <1>6 DEF IInv, ClaimsOnlyCommitted, Work
  <1>13. UnsignedOrRaced'
    BY <1>1, <1>5, <1>6 DEF IInv, UnsignedOrRaced, AboutToRefresh, Work, Profile
  <1>14. QED
    BY <1>8, <1>9, <1>10, <1>11, <1>12, <1>13 DEF IInv

(* What a screen with no worker claims, and what an operation uses up.      *)
LEMMA FreeClaims ==
  ASSUME IInv, NEW s \in Screens, ~screens[s].busy
  PROVE  \A p \in Profiles : \A i \in screens[s].refreshed[p].items :
           i.outcome = "ok" => <<p, i.routine>> \in screens[s].did
  BY DEF IInv, BusyWhileWorking, ClaimsOnlyCommitted, Working, Work

LEMMA StartUses ==
  ASSUME TypeOK, used.starts < MaxStarts, used' = [used EXCEPT !.starts = @ + 1]
  PROVE  /\ used' \in [starts: 0 .. MaxStarts, events: 0 .. MaxEvents, raced: BOOLEAN]
         /\ used'.raced = used.raced
  <1>1. used \in [starts: 0 .. MaxStarts, events: 0 .. MaxEvents, raced: BOOLEAN]
    BY DEF TypeOK
  <1>2. used.starts + 1 \in 0 .. MaxStarts
    <2>1. MaxStarts \in Nat  BY RoutinesAssumption
    <2>2. used.starts \in 0 .. MaxStarts  BY <1>1
    <2>3. QED  BY <2>1, <2>2
  <1>3. QED  BY <1>1, <1>2

LEMMA OpenKeeps ==
  ASSUME IInv, Open
  PROVE  IInv'
  <1>1. opened \in 0 .. MaxOpens /\ opened < MaxOpens /\ MaxOpens \in Nat
    BY RoutinesAssumption DEF IInv, TypeOK, Open
  <1>2. opened + 1 \in Screens /\ opened + 1 \in 0 .. MaxOpens /\ opened + 1 > 0
    BY <1>1 DEF Screens
  <1>3. /\ modules' = modules /\ modal' = NoPlan /\ used' = used
        /\ used \in [starts: 0 .. MaxStarts, events: 0 .. MaxEvents, raced: BOOLEAN]
    BY DEF Open, IInv, DialogIsOpen, TypeOK
  <1>4. /\ NewScreen \in ScreenStates /\ ~NewScreen.busy
        /\ \A p \in Profiles : \A i \in NewScreen.refreshed[p].items :
             i.outcome = "ok" => <<p, i.routine>> \in NewScreen.did
    BY NoWorkerType DEF NewScreen, NoResults, Report
  <1>5. /\ screens' = [screens EXCEPT ![opened + 1] = Started(NewScreen, "validate")]
        /\ opened' = opened + 1 /\ open' = TRUE
    BY DEF Open
  <1>6. opened' \in 0 .. MaxOpens /\ open' \in BOOLEAN /\ (open' => opened' > 0)
    BY <1>2, <1>5
  <1>7. QED  BY <1>2, <1>3, <1>4, <1>5, <1>6, StartKeeps

LEMMA StartShownKeeps ==
  ASSUME IInv, open, ~screens[opened].busy, NEW kind \in {"validate", "refresh"},
         screens' = [screens EXCEPT ![opened] = Started(@, kind)], modal' = NoPlan,
         UNCHANGED <<modules, opened, open>>, used.starts < MaxStarts,
         used' = [used EXCEPT !.starts = @ + 1]
  PROVE  IInv'
  <1>1. /\ opened \in Screens /\ opened \in 0 .. MaxOpens /\ open \in BOOLEAN /\ opened > 0
        /\ screens \in [Screens -> ScreenStates]
    BY RoutinesAssumption DEF IInv, TypeOK, Screens
  <1>2. screens[opened] \in ScreenStates  BY <1>1
  <1>3. screens' = [screens EXCEPT ![opened] = Started(screens[opened], kind)]
    BY <1>1
  <1>4. /\ used' \in [starts: 0 .. MaxStarts, events: 0 .. MaxEvents, raced: BOOLEAN]
        /\ used'.raced = used.raced
    BY StartUses DEF IInv
  <1>5. opened' \in 0 .. MaxOpens /\ open' \in BOOLEAN /\ (open' => opened' > 0)
    BY <1>1
  <1>6. QED  BY <1>1, <1>2, <1>3, <1>4, <1>5, FreeClaims, StartKeeps

LEMMA ValidateKeeps ==
  ASSUME IInv, Validate
  PROVE  IInv'
  BY StartShownKeeps DEF Validate, AtScreen

(* Steps that change only what is on the display.                           *)
LEMMA ShownKeeps ==
  ASSUME IInv, UNCHANGED <<modules, screens, opened, used>>,
         open' \in BOOLEAN, open' => opened > 0, modal' \in Plans, DialogIsOpen',
         modal' # NoPlan =>
           modal' = RefreshPlan(screens[opened].validated) /\ ~Working(opened)
  PROVE  IInv'
  <1>1. TypeOK'  BY DEF IInv, TypeOK
  <1>2. PlanIsCurrent'  BY DEF PlanIsCurrent, Working
  <1>3. BusyWhileWorking'  BY DEF IInv, BusyWhileWorking, Working
  <1>4. FindsOnlyCommitted' /\ ClaimsOnlyCommitted'
    BY DEF IInv, FindsOnlyCommitted, ClaimsOnlyCommitted, Work
  <1>5. UnsignedOrRaced'
    BY DEF IInv, UnsignedOrRaced, AboutToRefresh, Work, Profile
  <1>6. QED  BY <1>1, <1>2, <1>3, <1>4, <1>5 DEF IInv

LEMMA CloseKeeps ==
  ASSUME IInv, Close
  PROVE  IInv'
  <1>1. NoPlan \in Plans  BY DEF NoPlan, Plans
  <1>2. modal' = NoPlan /\ open' = FALSE /\ UNCHANGED <<modules, screens, opened, used>>
    BY DEF Close, AtScreen
  <1>3. DialogIsOpen'  BY <1>2 DEF DialogIsOpen
  <1>4. QED  BY <1>1, <1>2, <1>3, ShownKeeps

LEMMA RequestRefreshKeeps ==
  ASSUME IInv, RequestRefresh
  PROVE  IInv'
  <1>1. /\ open /\ open' = open /\ UNCHANGED <<modules, screens, opened, used>>
        /\ modal' = RefreshPlan(screens[opened].validated) /\ ~screens[opened].busy
    BY DEF RequestRefresh, AtScreen
  <1>2. opened \in Screens /\ opened > 0 /\ open \in BOOLEAN
    BY <1>1, ScreenFields, RoutinesAssumption DEF IInv, TypeOK, Screens
  <1>3. modal' \in Plans
    BY <1>1, <1>2, ScreenFields, PlanType DEF IInv
  <1>4. ~Working(opened)
    BY <1>1, <1>2 DEF IInv, BusyWhileWorking
  <1>5. DialogIsOpen'  BY <1>1 DEF DialogIsOpen
  <1>6. QED  BY <1>1, <1>2, <1>3, <1>4, <1>5, ShownKeeps

LEMMA AnswerKeeps ==
  ASSUME IInv, NEW confirmed \in BOOLEAN, Answer(confirmed)
  PROVE  IInv'
  <1>1. /\ modal' = NoPlan /\ open /\ UNCHANGED <<modules, opened, open>>
        /\ ~Working(opened)
    BY DEF Answer, IInv, DialogIsOpen, PlanIsCurrent
  <1>2. opened \in Screens /\ opened > 0 /\ open \in BOOLEAN
    BY <1>1, ScreenFields, RoutinesAssumption DEF IInv, TypeOK, Screens
  <1>3. ~screens[opened].busy
    BY <1>1, <1>2 DEF IInv, BusyWhileWorking
  <1>4. CASE confirmed
    BY <1>1, <1>3, <1>4, StartShownKeeps DEF Answer
  <1>5. CASE ~confirmed
    <2>1. NoPlan \in Plans  BY DEF NoPlan, Plans
    <2>2. UNCHANGED <<screens, used>>  BY <1>5 DEF Answer
    <2>3. DialogIsOpen'  BY <1>1 DEF DialogIsOpen
    <2>4. QED  BY <1>1, <1>2, <2>1, <2>2, <2>3, ShownKeeps
  <1>6. QED  BY <1>4, <1>5
-----------------------------------------------------------------------------------
LEMMA StepKeeps == IInv /\ [Next]_vars => IInv'
  <1> SUFFICES ASSUME IInv, [Next]_vars  PROVE IInv'
    OBVIOUS
  <1>1. CASE User
    BY <1>1, OpenKeeps, CloseKeeps, ValidateKeeps, RequestRefreshKeeps, AnswerKeeps DEF User
  <1>2. CASE \E s \in Screens : WorkerStep(s)
    BY <1>2, ConnectKeeps, UnreachedKeeps, ApplyKeeps, InspectKeeps, ValidateRoutineKeeps,
       RoutineFailsKeeps, RefreshRoutineKeeps DEF WorkerStep
  <1>3. CASE \E c \in Changing : Change(c[1], c[2])
    BY <1>3, ChangeKeeps, RoutinesAssumption
  <1>4. CASE UNCHANGED vars
    BY <1>4 DEF vars, IInv, TypeOK, BusyWhileWorking, DialogIsOpen, PlanIsCurrent,
       FindsOnlyCommitted, ClaimsOnlyCommitted, UnsignedOrRaced, AboutToRefresh, Working,
       Work, Profile
  <1>5. QED  BY <1>1, <1>2, <1>3, <1>4 DEF Next

THEOREM RoutinesInvariant == Spec => []IInv
  BY InitIInv, StepKeeps, PTL DEF Spec

(* Whatever profiles, routines, faults and openings there are, every        *)
(* variable has its type.                                                   *)
THEOREM RoutinesTypeCorrect == Spec => []TypeOK
  <1>1. IInv => TypeOK  BY DEF IInv
  <1>2. QED  BY <1>1, RoutinesInvariant, PTL

(* The plan in the dialog stays what the screen's last validation found.    *)
THEOREM ConfirmedPlanIsCurrent == Spec => []PlanIsCurrent
  <1>1. IInv => PlanIsCurrent  BY DEF IInv
  <1>2. QED  BY <1>1, RoutinesInvariant, PTL

(* A screen never claims a recompilation that was not committed.            *)
THEOREM ReportsAreTrue == Spec => []ClaimsOnlyCommitted
  <1>1. IInv => ClaimsOnlyCommitted  BY DEF IInv
  <1>2. QED  BY <1>1, RoutinesInvariant, PTL

(* A worker removes a signature only if a change that added one raced it.   *)
THEOREM SignaturesAreKept == Spec => SignaturesKept
  <1> DEFINE Kept == \A p \in Profiles, r \in RoutineNames :
               modules[p][r].signed /\ ~modules'[p][r].signed /\ screens' # screens
                 => used.raced
  <1>1. IInv /\ [Next]_vars => [Kept]_vars
    <2> SUFFICES ASSUME IInv, Next, NEW p \in Profiles, NEW r \in RoutineNames,
                        modules[p][r].signed, ~modules'[p][r].signed, screens' # screens
                 PROVE  used.raced
      BY DEF Kept
    <2>1. modules' # modules
      OBVIOUS
    <2>2. PICK s \in Screens, n \in RoutineNames, outcome \in {"ok", "failed"} :
            RefreshRoutine(s, n, outcome)
      BY <2>1 DEF Next, User, Open, Close, Validate, RequestRefresh, Answer, WorkerStep,
         Connect, Unreached, Apply, Inspect, ValidateRoutine, RoutineFails, WorkerMoves, Change
    <2>3. modules' = [modules EXCEPT ![Profile(s)][n].signed = FALSE]
      BY <2>2 DEF RefreshRoutine
    <2>4. Profile(s) = p /\ n = r
      BY <2>3 DEF IInv, TypeOK
    <2>5. AboutToRefresh(s, r)
      BY <2>2, <2>4 DEF RefreshRoutine, Runs, AboutToRefresh
    <2>6. QED  BY <2>4, <2>5 DEF IInv, UnsignedOrRaced
  <1>2. QED  BY <1>1, RoutinesInvariant, PTL DEF Spec, SignaturesKept
-----------------------------------------------------------------------------------
(* The repair scripts leave signed routines alone.                          *)

(* The unsigned items of some results are of routines that bear no signature *)
(* by now, or were signed late.                                             *)
Seen(m, results, after) ==
  \A p \in Profiles : \A i \in results[p].items :
    i.signature = "unsigned" /\ m[p][i.routine].signed => <<p, i.routine>> \in after

RunSeen(m, w, after) ==
  \A r \in RoutineNames :
    w.phase = "run" /\ r \in w.now /\ w.signature = "unsigned" /\ m[ProfileOrder[w.at]][r].signed
      => <<ProfileOrder[w.at], r>> \in after

(* Results that are being made again are not saved from.                    *)
ScreenSeen(m, screen, after) ==
  /\ screen.worker.kind \in Kinds =>
       Seen(m, screen.worker.found, after[screen.worker.kind])
         /\ RunSeen(m, screen.worker, after[screen.worker.kind])
  /\ screen.worker.kind # "validate" => Seen(m, screen.validated, after["validate"])
  /\ screen.worker.kind # "refresh" => Seen(m, screen.refreshed, after["refresh"])

LateInv == opened > 0 => ScreenSeen(modules, screens[opened], late)
-----------------------------------------------------------------------------------
LEMMA ScreenResults ==
  ASSUME TypeOK, NEW s \in Screens
  PROVE  /\ screens[s].validated \in Results /\ screens[s].refreshed \in Results
         /\ Work(s).found \in Results /\ Work(s).kind \in {"none"} \cup Kinds
  BY ScreenFields DEF ScreenStates, Workers, Kinds

LEMMA NothingSeen == \A m, after : Seen(m, NoResults, after)
  BY DEF Seen, NoResults, Report

(* Whatever is signed while an operation has not begun again counts as late. *)
LEMMA LateGrows ==
  ASSUME TypeOK, TypeOK', NEW k \in Kinds, late' = [j \in Kinds |->
           IF Begins(j) THEN {} ELSE late[j] \cup Signed(modules, modules')], ~Begins(k)
  PROVE  /\ \A results \in Results :
              Seen(modules, results, late[k]) => Seen(modules', results, late'[k])
         /\ \A p \in Profiles, r \in RoutineNames :
              (modules[p][r].signed => <<p, r>> \in late[k])
                => (modules'[p][r].signed => <<p, r>> \in late'[k])
  <1>1. late'[k] = late[k] \cup Signed(modules, modules')
    OBVIOUS
  <1>2. ASSUME NEW p \in Profiles, NEW r \in RoutineNames, modules'[p][r].signed,
               modules[p][r].signed => <<p, r>> \in late[k]
        PROVE  <<p, r>> \in late'[k]
    <2>1. CASE modules[p][r].signed
      BY <1>1, <1>2, <2>1
    <2>2. CASE ~modules[p][r].signed
      <3>1. <<p, r>> \in Signed(modules, modules')  BY <1>2, <2>2 DEF Signed
      <3>2. QED  BY <1>1, <3>1
    <2>3. QED  BY <2>1, <2>2
  <1>3. ASSUME NEW results \in Results, Seen(modules, results, late[k])
        PROVE  Seen(modules', results, late'[k])
    <2>1. \A p \in Profiles : \A i \in results[p].items : i.routine \in RoutineNames
      BY DEF Results, Reports, Items
    <2>2. QED  BY <1>2, <1>3, <2>1 DEF Seen
  <1>4. QED  BY <1>2, <1>3

(* The database changes, or a screen the user left works on.                *)
LEMMA ElsewhereKeeps ==
  ASSUME IInv, TypeOK', LateInv, opened' = opened,
         opened > 0 => screens'[opened] = screens[opened],
         late' = [j \in Kinds |->
           IF Begins(j) THEN {} ELSE late[j] \cup Signed(modules, modules')]
  PROVE  LateInv'
  <1> SUFFICES ASSUME opened > 0  PROVE ScreenSeen(modules', screens[opened], late')
    BY DEF LateInv
  <1>1. opened \in Screens /\ TypeOK
    BY RoutinesAssumption DEF IInv, TypeOK, Screens
  <1>2. \A k \in Kinds : ~Begins(k)
    BY <1>1, ScreenResults DEF Begins, Working, Kinds, Work
  <1>3. \A k \in Kinds : \A results \in Results :
          Seen(modules, results, late[k]) => Seen(modules', results, late'[k])
    BY <1>1, <1>2, LateGrows
  <1>4. \A k \in Kinds : \A p \in Profiles, r \in RoutineNames :
          (modules[p][r].signed => <<p, r>> \in late[k])
            => (modules'[p][r].signed => <<p, r>> \in late'[k])
    BY <1>1, <1>2, LateGrows
  <1> DEFINE w == screens[opened].worker
  <1>5. ScreenSeen(modules, screens[opened], late)
    BY DEF LateInv
  <1>6. /\ screens[opened].validated \in Results /\ screens[opened].refreshed \in Results
        /\ w.found \in Results /\ ProfileOrder[w.at] \in Profiles
    BY <1>1, ScreenResults, ScreenFields DEF Work, Profile
  <1>7. ASSUME w.kind \in Kinds  PROVE RunSeen(modules', w, late'[w.kind])
    <2>1. RunSeen(modules, w, late[w.kind])  BY <1>5, <1>7 DEF ScreenSeen
    <2>2. QED  BY <1>4, <1>6, <1>7, <2>1 DEF RunSeen
  <1>8. "validate" \in Kinds /\ "refresh" \in Kinds  BY DEF Kinds
  <1> HIDE DEF w
  <1>9. QED  BY <1>3, <1>5, <1>6, <1>7, <1>8 DEF ScreenSeen, w

(* The worker of the open screen goes on.                                   *)
LEMMA ProceedKeeps ==
  ASSUME IInv, TypeOK', LateInv, opened' = opened, opened > 0, Working(opened),
         NEW w, screens'[opened].worker = w, w.kind = Work(opened).kind,
         screens'[opened].validated = screens[opened].validated,
         screens'[opened].refreshed = screens[opened].refreshed,
         Seen(modules, w.found, late[w.kind]), w.found \in Results,
         \A r \in w.now : w.phase = "run" /\ w.signature = "unsigned"
                            => ~modules[ProfileOrder[w.at]][r].signed,
         ProfileOrder[w.at] \in Profiles,
         late' = [j \in Kinds |->
           IF Begins(j) THEN {} ELSE late[j] \cup Signed(modules, modules')]
  PROVE  LateInv'
  <1>1. opened \in Screens /\ TypeOK
    BY RoutinesAssumption DEF IInv, TypeOK, Screens
  <1>2. \A k \in Kinds : ~Begins(k)
    BY DEF Begins
  <1>3. \A k \in Kinds : \A results \in Results :
          Seen(modules, results, late[k]) => Seen(modules', results, late'[k])
    BY <1>1, <1>2, LateGrows
  <1>4. \A k \in Kinds : \A p \in Profiles, r \in RoutineNames :
          (modules[p][r].signed => <<p, r>> \in late[k])
            => (modules'[p][r].signed => <<p, r>> \in late'[k])
    BY <1>1, <1>2, LateGrows
  <1>5. ScreenSeen(modules, screens[opened], late) /\ screens[opened].worker.kind = w.kind
    BY DEF LateInv, Work
  <1>6. /\ screens[opened].validated \in Results /\ screens[opened].refreshed \in Results
        /\ w.kind \in Kinds
    BY <1>1, ScreenResults DEF Working, Work
  <1>7. RunSeen(modules', w, late'[w.kind])
    BY <1>4, <1>6 DEF RunSeen
  <1>8. "validate" \in Kinds /\ "refresh" \in Kinds  BY DEF Kinds
  <1>9. ScreenSeen(modules', screens'[opened], late')
    BY <1>3, <1>5, <1>6, <1>7, <1>8 DEF ScreenSeen
  <1>10. QED  BY <1>9 DEF LateInv

(* What a worker has found when it reports on a routine.                    *)
LEMMA ReportedSeen ==
  ASSUME NEW w \in Workers, NEW r \in RoutineNames, NEW signature \in Signatures,
         NEW outcome \in Outcomes, NEW m, NEW after, Seen(m, w.found, after),
         signature = "unsigned" /\ m[ProfileOrder[w.at]][r].signed
           => <<ProfileOrder[w.at], r>> \in after
  PROVE  Seen(m, Reported(w, r, signature, outcome).found, after)
  <1> DEFINE item == Item(r, signature, outcome)
             p == ProfileOrder[w.at]
  <1>1. p \in Profiles /\ w.found \in Results
    BY OrderType DEF Workers
  <1>2. item.signature = signature /\ item.routine = r  BY DEF Item
  <1>3. Reported(w, r, signature, outcome).found = WithItem(w.found, p, item)
    BY ReportedType
  <1> HIDE DEF item, p
  <1>4. \A q \in Profiles : WithItem(w.found, p, item)[q].items
          = IF q = p THEN w.found[p].items \cup {item} ELSE w.found[q].items
    BY <1>1 DEF WithItem, Results, Reports
  <1>5. QED  BY <1>2, <1>3, <1>4 DEF Seen, p
-----------------------------------------------------------------------------------
LateStep ==
  late' = [j \in Kinds |-> IF Begins(j) THEN {} ELSE late[j] \cup Signed(modules, modules')]

(* What the worker of the open screen did, it had seen before.              *)
LEMMA WorkingSees ==
  ASSUME IInv, LateInv, opened > 0, Working(opened)
  PROVE  /\ opened \in Screens /\ Work(opened) \in Workers /\ Profile(opened) \in Profiles
         /\ Seen(modules, Work(opened).found, late[Work(opened).kind])
         /\ RunSeen(modules, Work(opened), late[Work(opened).kind])
         /\ Work(opened).found \in Results
  <1>1. opened \in Screens /\ TypeOK
    BY RoutinesAssumption DEF IInv, TypeOK, Screens
  <1>2. Work(opened) \in Workers /\ Profile(opened) \in Profiles
    BY <1>1, ScreenFields
  <1>3. Work(opened).kind \in Kinds /\ Work(opened).found \in Results
    BY <1>1, ScreenResults DEF Working, Work
  <1>4. QED  BY <1>1, <1>2, <1>3 DEF LateInv, ScreenSeen, Work

LEMMA MoveSeen ==
  ASSUME IInv, TypeOK', LateInv, opened > 0, Working(opened), LateStep,
         NEW w \in Workers, WorkerMoves(opened, w), w.kind = Work(opened).kind,
         Seen(modules, w.found, late[w.kind]),
         \A r \in w.now : w.phase = "run" /\ w.signature = "unsigned"
                            => ~modules[ProfileOrder[w.at]][r].signed
  PROVE  LateInv'
  <1>1. opened \in Screens /\ screens[opened] \in ScreenStates
    BY RoutinesAssumption, ScreenFields DEF IInv, TypeOK, Screens
  <1>2. screens' = [screens EXCEPT ![opened].worker = w] /\ opened' = opened
    BY DEF WorkerMoves
  <1>3. screens'[opened] = [screens[opened] EXCEPT !.worker = w]
    BY <1>1, <1>2 DEF IInv, TypeOK
  <1>4. /\ screens'[opened].worker = w
        /\ screens'[opened].validated = screens[opened].validated
        /\ screens'[opened].refreshed = screens[opened].refreshed
    BY <1>1, <1>3 DEF ScreenStates
  <1>5. w.found \in Results /\ ProfileOrder[w.at] \in Profiles
    BY OrderType DEF Workers
  <1>6. QED  BY <1>2, <1>4, <1>5, ProceedKeeps DEF LateStep

LEMMA ReportSeen ==
  ASSUME IInv, TypeOK', LateInv, opened > 0, Working(opened), LateStep,
         NEW r \in RoutineNames, NEW signature \in Signatures, NEW outcome \in Outcomes,
         WorkerMoves(opened, Reported(Work(opened), r, signature, outcome)),
         signature = "unsigned" /\ modules[Profile(opened)][r].signed
           => <<Profile(opened), r>> \in late[Work(opened).kind]
  PROVE  LateInv'
  <1> DEFINE w == Reported(Work(opened), r, signature, outcome)
  <1>1. /\ Work(opened) \in Workers
        /\ Seen(modules, Work(opened).found, late[Work(opened).kind])
    BY WorkingSees
  <1>2. w \in Workers /\ w.kind = Work(opened).kind /\ w.now = {}
    BY <1>1, ReportedType
  <1>3. Seen(modules, w.found, late[Work(opened).kind])
    BY <1>1, ReportedSeen DEF Profile
  <1> HIDE DEF w
  <1>4. WorkerMoves(opened, w)  BY DEF w
  <1>5. QED  BY <1>2, <1>3, <1>4, MoveSeen

LEMMA WorkerSees ==
  ASSUME IInv, TypeOK', LateInv, LateStep, opened > 0, WorkerStep(opened)
  PROVE  LateInv'
  <1> DEFINE v == Work(opened)
             p == Profile(opened)
  <1>0. Working(opened)
    BY DEF WorkerStep, Connect, Unreached, Apply, Inspect, ValidateRoutine, RoutineFails,
           RefreshRoutine, Runs
  <1>1. /\ opened \in Screens /\ v \in Workers /\ p \in Profiles /\ v.found \in Results
        /\ Seen(modules, v.found, late[v.kind]) /\ RunSeen(modules, v, late[v.kind])
    BY <1>0, WorkingSees
  <1>2. ASSUME NEW state \in {"reached", "unreached"}
        PROVE  /\ [v.found EXCEPT ![p] = Report(state)] \in Results
               /\ Seen(modules, [v.found EXCEPT ![p] = Report(state)], late[v.kind])
    <2>1. [v.found EXCEPT ![p] = Report(state)] \in Results
      BY <1>1 DEF Results, Reports, Report
    <2>2. \A q \in Profiles : [v.found EXCEPT ![p] = Report(state)][q].items
                               = IF q = p THEN {} ELSE v.found[q].items
      BY <1>1 DEF Results, Report
    <2>3. QED  BY <1>1, <2>1, <2>2 DEF Seen
  <1>3. CASE Connect(opened)
    <2> DEFINE found == [v.found EXCEPT ![p] = Report("reached")]
               w == [v EXCEPT !.todo = Targets(p), !.phase = "inspect",
                              !.found[p] = Report("reached")]
               next == IF w.todo = {} THEN NextProfile(w) ELSE w
    <2>1. found \in Results /\ Seen(modules, found, late[v.kind])
      BY <1>2
    <2>2. Targets(p) \in SUBSET RoutineNames  BY DEF Targets
    <2>3. w = [v EXCEPT !.todo = Targets(p), !.phase = "inspect", !.found = found]
      BY <1>1 DEF Workers
    <2> HIDE DEF found
    <2>4. w \in Workers /\ w.kind = v.kind /\ w.found = found /\ w.phase = "inspect"
      BY <1>1, <2>1, <2>2, <2>3 DEF Workers
    <2> HIDE DEF w
    <2>5. /\ next \in Workers /\ next.kind = v.kind /\ next.found = found
          /\ next.phase # "run" \/ next.now = {}
      BY <2>4, NextProfileType
    <2>6. WorkerMoves(opened, next)  BY <1>3 DEF Connect, w
    <2> HIDE DEF next
    <2>7. QED  BY <1>0, <2>1, <2>5, <2>6, MoveSeen
  <1>4. CASE Unreached(opened)
    <2> DEFINE found == [v.found EXCEPT ![p] = Report("unreached")]
               w == [v EXCEPT !.found[p] = Report("unreached")]
    <2>1. found \in Results /\ Seen(modules, found, late[v.kind])
      BY <1>2
    <2>2. w = [v EXCEPT !.found = found]
      BY <1>1 DEF Workers
    <2> HIDE DEF found
    <2>3. w \in Workers /\ w.kind = v.kind /\ w.found = found
      BY <1>1, <2>1, <2>2 DEF Workers
    <2>4. WorkerMoves(opened, NextProfile(w))  BY <1>4 DEF Unreached
    <2> HIDE DEF w
    <2>5. /\ NextProfile(w) \in Workers /\ NextProfile(w).kind = v.kind
          /\ NextProfile(w).found = found /\ NextProfile(w).now = {}
      BY <2>3, NextProfileType
    <2>6. QED  BY <1>0, <2>1, <2>4, <2>5, MoveSeen
  <1>5. ASSUME NEW r \in RoutineNames, Inspect(opened, r)
        PROVE  LateInv'
    <2>1. PICK signature \in {IF modules[p][r].signed THEN "signed" ELSE "unsigned", "unknown"} :
             WorkerMoves(opened,
               IF Refused(v.kind, signature)
                 THEN Reported(v, r, signature,
                               IF v.kind = "validate" THEN "unverifiable" ELSE "failed")
                 ELSE [v EXCEPT !.phase = "run", !.now = {r}, !.signature = signature])
      BY <1>5 DEF Inspect
    <2>2. signature \in Signatures /\ (signature = "unsigned" => ~modules[p][r].signed)
      BY DEF Signatures
    <2>3. CASE Refused(v.kind, signature)
      <3> DEFINE outcome == IF v.kind = "validate" THEN "unverifiable" ELSE "failed"
      <3>1. outcome \in Outcomes  BY DEF Outcomes
      <3>2. WorkerMoves(opened, Reported(v, r, signature, outcome))
        BY <2>1, <2>3
      <3> HIDE DEF outcome
      <3>3. QED  BY <1>0, <2>2, <3>1, <3>2, ReportSeen
    <2>4. CASE ~Refused(v.kind, signature)
      <3> DEFINE w == [v EXCEPT !.phase = "run", !.now = {r}, !.signature = signature]
      <3>1. /\ w \in Workers /\ w.kind = v.kind /\ w.found = v.found /\ w.now = {r}
            /\ w.signature = signature /\ w.at = v.at
        BY <1>1, <2>2 DEF Workers
      <3>2. WorkerMoves(opened, w)  BY <2>1, <2>4
      <3> HIDE DEF w
      <3>3. \A x \in w.now : w.signature = "unsigned" => ~modules[ProfileOrder[w.at]][x].signed
        BY <2>2, <3>1 DEF Profile
      <3>4. QED  BY <1>0, <1>1, <3>1, <3>2, <3>3, MoveSeen
    <2>5. QED  BY <2>3, <2>4
  <1>6. ASSUME NEW r \in RoutineNames, r \in v.now, v.phase = "run"
        PROVE  /\ v.signature \in Signatures
               /\ v.signature = "unsigned" /\ modules[p][r].signed => <<p, r>> \in late[v.kind]
    BY <1>1, <1>6 DEF RunSeen, Workers, Profile
  <1>7. ASSUME NEW r \in RoutineNames, NEW outcome \in Outcomes, r \in v.now, v.phase = "run",
               WorkerMoves(opened, Reported(v, r, v.signature, outcome))
        PROVE  LateInv'
    BY <1>0, <1>6, <1>7, ReportSeen
  <1>8. ASSUME NEW r \in RoutineNames, ValidateRoutine(opened, r) \/ RoutineFails(opened, r)
        PROVE  LateInv'
    <2>1. r \in v.now /\ v.phase = "run"
      BY <1>8 DEF ValidateRoutine, RoutineFails, Runs
    <2>2. \E outcome \in Outcomes : WorkerMoves(opened, Reported(v, r, v.signature, outcome))
      BY <1>8 DEF ValidateRoutine, RoutineFails, Outcomes
    <2>3. QED  BY <1>7, <2>1, <2>2
  <1>9. ASSUME NEW r \in RoutineNames, NEW outcome \in {"ok", "failed"},
               RefreshRoutine(opened, r, outcome)
        PROVE  LateInv'
    <2> DEFINE w == Reported(v, r, v.signature, outcome)
               did == screens[opened].did \cup {<<p, r>>}
    <2>1. outcome \in Outcomes  BY DEF Outcomes
    <2>2. r \in v.now /\ v.phase = "run" /\ opened' = opened
          /\ screens' = [screens EXCEPT ![opened].worker = w, ![opened].did = did]
      BY <1>9 DEF RefreshRoutine, Runs
    <2>3. v.signature \in Signatures
          /\ (v.signature = "unsigned" /\ modules[p][r].signed => <<p, r>> \in late[v.kind])
      BY <1>6, <2>2
    <2>4. /\ w \in Workers /\ w.kind = v.kind /\ w.now = {}
          /\ Seen(modules, w.found, late[v.kind])
      <3>1. w \in Workers /\ w.kind = v.kind /\ w.now = {}
        BY <1>1, <2>1, <2>3, ReportedType
      <3>2. v.signature = "unsigned" /\ modules[ProfileOrder[v.at]][r].signed
              => <<ProfileOrder[v.at], r>> \in late[v.kind]
        BY <2>3 DEF Profile
      <3>3. Seen(modules, w.found, late[v.kind])
        BY <1>1, <2>1, <2>3, <3>2, ReportedSeen
      <3>4. QED  BY <3>1, <3>3
    <2> HIDE DEF w, did
    <2>5. /\ screens'[opened].worker = w
          /\ screens'[opened].validated = screens[opened].validated
          /\ screens'[opened].refreshed = screens[opened].refreshed
      <3>1. screens[opened] \in ScreenStates /\ screens \in [Screens -> ScreenStates]
        BY <1>1, ScreenFields DEF IInv, TypeOK
      <3>2. QED  BY <1>1, <2>2, <3>1 DEF ScreenStates
    <2>6. w.found \in Results /\ ProfileOrder[w.at] \in Profiles
      BY <2>4, OrderType DEF Workers
    <2>7. QED  BY <1>0, <2>2, <2>4, <2>5, <2>6, ProceedKeeps DEF LateStep
  <1>10. CASE Apply(opened)
    <2>1. screens[opened] \in ScreenStates /\ screens \in [Screens -> ScreenStates] /\ TypeOK
      BY <1>1, ScreenFields DEF IInv, TypeOK
    <2>2. /\ screens'[opened].worker = NoWorker /\ opened' = opened /\ modules' = modules
          /\ screens'[opened].validated
               = IF v.kind = "validate" THEN v.found ELSE screens[opened].validated
          /\ screens'[opened].refreshed
               = IF v.kind = "refresh" THEN v.found ELSE screens[opened].refreshed
      BY <1>1, <1>10, <2>1 DEF Apply, ScreenStates
    <2>3. \A k \in Kinds : ~Begins(k)
      BY <1>0, <2>2 DEF Begins
    <2>4. \A k \in Kinds : \A results \in Results :
            Seen(modules, results, late[k]) => Seen(modules', results, late'[k])
      BY <2>1, <2>3, LateGrows DEF LateStep
    <2>5. /\ screens[opened].validated \in Results /\ screens[opened].refreshed \in Results
      BY <1>1, <2>1, ScreenResults
    <2>6. /\ v.kind # "validate" => Seen(modules, screens[opened].validated, late["validate"])
          /\ v.kind # "refresh" => Seen(modules, screens[opened].refreshed, late["refresh"])
      BY DEF LateInv, ScreenSeen, Work
    <2>7. "validate" \in Kinds /\ "refresh" \in Kinds /\ NoWorker.kind \notin Kinds
      BY DEF Kinds, NoWorker
    <2>8. /\ Seen(modules', screens'[opened].validated, late'["validate"])
          /\ Seen(modules', screens'[opened].refreshed, late'["refresh"])
      BY <1>1, <2>2, <2>4, <2>5, <2>6, <2>7
    <2>9. QED  BY <2>2, <2>7, <2>8 DEF LateInv, ScreenSeen
  <1>11. QED
    BY <1>3, <1>4, <1>5, <1>8, <1>9, <1>10 DEF WorkerStep

(* An operation begins on the open screen.                                  *)
LEMMA StartSees ==
  ASSUME IInv, TypeOK', LateInv, LateStep, opened \in Screens, opened > 0, opened' = opened,
         modules' = modules, ~screens[opened].busy, NEW kind \in Kinds,
         screens' = [screens EXCEPT ![opened] = Started(@, kind)]
  PROVE  LateInv'
  <1>1. screens[opened] \in ScreenStates /\ screens \in [Screens -> ScreenStates] /\ TypeOK
    BY ScreenFields DEF IInv, TypeOK
  <1>2. ~Working(opened) /\ screens[opened].worker.kind = "none"
    BY DEF IInv, BusyWhileWorking, Working, Work
  <1> DEFINE w == [NoWorker EXCEPT !.kind = kind]
  <1>3. /\ screens'[opened].worker = w
        /\ screens'[opened].validated = screens[opened].validated
        /\ screens'[opened].refreshed = screens[opened].refreshed
    BY <1>1 DEF Started, ScreenStates
  <1>4. w.kind = kind /\ w.found = NoResults /\ w.now = {}
    BY DEF NoWorker
  <1> HIDE DEF w
  <1>5. \A k \in Kinds : k # kind => ~Begins(k)
    BY <1>3, <1>4 DEF Begins
  <1>6. \A k \in Kinds : k # kind => \A results \in Results :
          Seen(modules, results, late[k]) => Seen(modules', results, late'[k])
    BY <1>1, <1>5, LateGrows DEF LateStep
  <1>7. /\ screens[opened].validated \in Results /\ screens[opened].refreshed \in Results
    BY <1>1, ScreenResults
  <1>8. /\ Seen(modules, screens[opened].validated, late["validate"])
        /\ Seen(modules, screens[opened].refreshed, late["refresh"])
    BY <1>2 DEF LateInv, ScreenSeen
  <1>9. "validate" \in Kinds /\ "refresh" \in Kinds  BY DEF Kinds
  <1>10. Seen(modules', w.found, late'[kind]) /\ RunSeen(modules', w, late'[kind])
    BY <1>4, NothingSeen DEF RunSeen
  <1>11. QED
    BY <1>3, <1>4, <1>6, <1>7, <1>8, <1>9, <1>10 DEF LateInv, ScreenSeen

LEMMA OpenSees ==
  ASSUME IInv, Open  PROVE LateInv'
  <1>1. opened' = opened + 1 /\ opened + 1 \in Screens
    BY RoutinesAssumption DEF Open, IInv, TypeOK, Screens
  <1>2. screens'[opened + 1] = Started(NewScreen, "validate")
    BY <1>1 DEF Open, IInv, TypeOK
  <1>3. /\ screens'[opened'].worker.kind = "validate" /\ screens'[opened'].worker.now = {}
        /\ screens'[opened'].worker.found = NoResults
        /\ screens'[opened'].validated = NoResults /\ screens'[opened'].refreshed = NoResults
    BY <1>1, <1>2 DEF Started, NewScreen, NoWorker
  <1>4. QED  BY <1>3, NothingSeen DEF LateInv, ScreenSeen, RunSeen

LEMMA StepSees ==
  ASSUME IInv, IInv', LateInv, LateStep, Next
  PROVE  LateInv'
  <1>1. TypeOK' /\ (open => opened \in Screens /\ opened > 0) /\ (opened > 0 => opened \in Screens)
    BY RoutinesAssumption DEF IInv, TypeOK, Screens
  <1>2. CASE Open
    BY <1>2, OpenSees
  <1>3. CASE Close \/ RequestRefresh
    BY <1>1, <1>3, ElsewhereKeeps DEF Close, RequestRefresh, LateStep
  <1>4. CASE Validate
    <2>1. "validate" \in Kinds  BY DEF Kinds
    <2>2. /\ open /\ ~screens[opened].busy /\ opened' = opened /\ modules' = modules
          /\ screens' = [screens EXCEPT ![opened] = Started(@, "validate")]
      BY <1>4 DEF Validate, AtScreen
    <2>3. QED  BY <1>1, <2>1, <2>2, StartSees
  <1>5. ASSUME NEW confirmed \in BOOLEAN, Answer(confirmed)  PROVE LateInv'
    <2>1. opened' = opened /\ modules' = modules /\ modal # NoPlan
      BY <1>5 DEF Answer
    <2>2. CASE ~confirmed
      BY <1>1, <1>5, <2>1, <2>2, ElsewhereKeeps DEF Answer, LateStep
    <2>3. CASE confirmed
      <3>1. "refresh" \in Kinds  BY DEF Kinds
      <3>2. open /\ ~Working(opened)  BY <2>1 DEF IInv, DialogIsOpen, PlanIsCurrent
      <3>3. ~screens[opened].busy  BY <1>1, <3>2 DEF IInv, BusyWhileWorking
      <3>4. screens' = [screens EXCEPT ![opened] = Started(@, "refresh")]
        BY <1>5, <2>3 DEF Answer
      <3>5. QED  BY <1>1, <2>1, <3>1, <3>2, <3>3, <3>4, StartSees
    <2>4. QED  BY <2>2, <2>3
  <1>6. ASSUME NEW s \in Screens, WorkerStep(s)  PROVE LateInv'
    <2>1. opened' = opened
      BY <1>6 DEF WorkerStep, Connect, Unreached, Apply, Inspect, ValidateRoutine, RoutineFails,
                  RefreshRoutine, WorkerMoves
    <2>2. CASE s = opened /\ opened > 0
      BY <1>1, <1>6, <2>2, WorkerSees
    <2>3. CASE ~(s = opened /\ opened > 0)
      <3>1. \A t \in Screens : t # s => screens'[t] = screens[t]
        BY <1>6 DEF WorkerStep, Connect, Unreached, Apply, Inspect, ValidateRoutine, RoutineFails,
                    RefreshRoutine, WorkerMoves, IInv, TypeOK
      <3>2. opened > 0 => screens'[opened] = screens[opened]
        BY <1>1, <2>3, <3>1
      <3>3. QED  BY <1>1, <2>1, <3>2, ElsewhereKeeps DEF LateStep
    <2>4. QED  BY <2>2, <2>3
  <1>7. ASSUME NEW c \in Changing, Change(c[1], c[2])  PROVE LateInv'
    BY <1>1, <1>7, ElsewhereKeeps DEF Change, LateStep
  <1>8. QED  BY <1>2, <1>3, <1>4, <1>5, <1>6, <1>7 DEF Next, User
-----------------------------------------------------------------------------------
RIInv == IInv /\ LateInv

LEMMA InitRIInv == RInit => RIInv
  <1> SUFFICES ASSUME RInit  PROVE RIInv
    OBVIOUS
  <1>1. IInv  BY InitIInv DEF RInit
  <1>2. opened = 0  BY DEF RInit, Init
  <1>3. QED  BY <1>1, <1>2 DEF RIInv, LateInv

LEMMA RStepKeeps == RIInv /\ [RNext]_rvars => RIInv'
  <1> SUFFICES ASSUME RIInv, [RNext]_rvars  PROVE RIInv'
    OBVIOUS
  <1>1. CASE Next /\ LateStep
    <2>1. IInv'  BY <1>1, StepKeeps DEF RIInv
    <2>2. QED  BY <1>1, <2>1, StepSees DEF RIInv
  <1>2. CASE UNCHANGED <<vars, late>>
    <2>1. IInv'  BY <1>2, StepKeeps DEF RIInv
    <2>2. modules' = modules /\ screens' = screens /\ opened' = opened /\ late' = late
      BY <1>2 DEF vars
    <2>3. LateInv'
      BY <2>2 DEF RIInv, LateInv, ScreenSeen, Seen, RunSeen
    <2>4. QED  BY <2>1, <2>3 DEF RIInv
  <1>3. QED  BY <1>1, <1>2 DEF RNext, Save, rvars, vars, LateStep

(* What a save writes of the results in hand.                               *)
LEMMA SaveSkipsSigned ==
  ASSUME RIInv, Save, NEW c \in wrote'.recompiles, modules[c[1]][c[2]].signed
  PROVE  c \in late[SourceKind(screens[opened])]
  <1> DEFINE screen == screens[opened]
             results == Source(screen)
  <1>1. open /\ ~screen.busy /\ opened \in Screens /\ opened > 0
    BY RoutinesAssumption DEF Save, AtScreen, RIInv, IInv, TypeOK, Screens
  <1>2. screen.worker.kind = "none"
    BY <1>1 DEF RIInv, IInv, BusyWhileWorking, Working, Work
  <1>3. Seen(modules, results, late[SourceKind(screen)])
    <2>1. /\ Seen(modules, screen.validated, late["validate"])
          /\ Seen(modules, screen.refreshed, late["refresh"])
      BY <1>1, <1>2 DEF RIInv, LateInv, ScreenSeen
    <2>2. QED  BY <2>1 DEF Source, SourceKind
  <1>4. PICK written \in 0 .. Len(SortedProfiles), complete \in BOOLEAN :
          wrote' = Write(results, written, complete)
    <2>1. Len(SortedProfiles) \in 0 .. Len(SortedProfiles)
      BY OrderType, SortedAssumption
    <2>2. QED  BY <2>1 DEF Save
  <1> HIDE DEF screen, results
  <1>5. PICK n \in 1 .. written : c \in Block(SortedProfiles[n], results[SortedProfiles[n]])
    BY <1>4 DEF Write
  <1>6. SortedProfiles[n] \in Profiles
    BY <1>5, OrderType, SortedAssumption
  <1>7. PICK i \in results[SortedProfiles[n]].items :
          i.signature = "unsigned" /\ c = <<SortedProfiles[n], i.routine>>
    BY <1>5 DEF Block
  <1>8. c \in late[SourceKind(screen)]
    BY <1>3, <1>6, <1>7 DEF Seen
  <1>9. QED  BY <1>8 DEF screen

(* A saved script recompiles no signed routine that was not signed after    *)
(* the operation it is made from had begun, however the screens, their      *)
(* workers and the other sessions interleave.                               *)
THEOREM RepairsLeaveSignedAlone == RSpec => RepairsSkipSigned
  <1>1. RIInv /\ [RNext]_rvars
          => [\A c \in wrote'.recompiles :
                modules[c[1]][c[2]].signed => c \in late[SourceKind(screens[opened])]]_rvars
    <2> SUFFICES ASSUME RIInv, RNext, NEW c \in wrote'.recompiles, modules[c[1]][c[2]].signed
                 PROVE  c \in late[SourceKind(screens[opened])]
      OBVIOUS
    <2>1. CASE Save
      BY <2>1, SaveSkipsSigned
    <2>2. CASE wrote' = NoFiles
      BY <2>2 DEF NoFiles
    <2>3. QED  BY <2>1, <2>2 DEF RNext
  <1>2. QED
    BY <1>1, InitRIInv, RStepKeeps, PTL DEF RSpec, RepairsSkipSigned
===================================================================================
