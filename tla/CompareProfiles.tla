------------------------------ MODULE CompareProfiles ------------------------------
(****************************************************************************)
(* The comparison as it runs: CompareProfilesUseCase extracts one profile   *)
(* after another, each by the queries its provider makes in turn, while     *)
(* other sessions change the databases; then it filters and compares.  A    *)
(* failed query ends it with no result.                                     *)
(****************************************************************************)
EXTENDS SchemaCompare

CONSTANTS
  Catalogs,    \* what each database may hold: profile -> set of catalogs
  Selections,  \* sequences of profiles the user may ask to compare
  Exclusions,  \* the exclusions the user may ask for
  MaxChanges   \* how many times other sessions change a database meanwhile

VARIABLES
  databases,  \* the catalog of each profile chosen
  chosen,     \* profiles to compare, in the order asked for
  excluded,   \* ComparisonFilters
  at,         \* the query under way: [profile: index in chosen, query: index]
  read,       \* the rows read so far: snapshots, before they are built
  outcome,    \* "running", "refused", "failed", "done"
  findings,   \* entries of the ComparisonResult
  changes     \* changes made by other sessions

vars == <<databases, chosen, excluded, at, read, outcome, findings, changes>>

ASSUME SelectionsAssumption ==
  /\ \A s \in Selections : s \in Seq(Profiles) /\ IsInjective(s)
  /\ MaxChanges \in Nat
ASSUME CatalogsAssumption ==
  \A p \in Profiles : \A c \in Catalogs[p] : \A o \in c.tables \cup c.routines :
    o.schema \in Names /\ o.name \in Names

(* What the engine of a database sees to: the columns of a table differ in  *)
(* name, and so do the foreign keys and the indexes that were given one; a  *)
(* table has one primary key.                                               *)
TableRules(tables) ==
  /\ IsFiniteSet(tables)
  /\ \A t \in tables : /\ IsFiniteSet(t.columns)
                       /\ \A c, d \in t.columns : c.name = d.name => c = d
OneTable(rows, i, j) == rows[i].schema = rows[j].schema /\ rows[i].table = rows[j].table
NameRules(rows) ==
  \A i, j \in DOMAIN rows : OneTable(rows, i, j) /\ i # j => rows[i].given \cap rows[j].given = {}
PrimaryRules(rows) ==
  /\ rows \in Seq(Range(rows)) /\ \A i, j \in DOMAIN rows : OneTable(rows, i, j) => i = j
  /\ \A i \in DOMAIN rows : rows[i].columns \in Seq(Names)
ForeignRules(rows) ==
  /\ rows \in Seq(Range(rows)) /\ NameRules(rows)
  /\ \A i \in DOMAIN rows : /\ rows[i].columns \in Seq(Names) /\ rows[i].rcolumns \in Seq(Names)
                            /\ rows[i].rschema \in Names /\ rows[i].rtable \in Names
IndexRules(rows) ==
  /\ rows \in Seq(Range(rows)) /\ NameRules(rows)
  /\ \A i \in DOMAIN rows : rows[i].columns \in Seq(Names) /\ rows[i].included \in Seq(Names)
ASSUME CatalogRules ==
  \A p \in Profiles : \A c \in Catalogs[p] :
    /\ TableRules(c.tables) /\ IsFiniteSet(c.routines)
    /\ PrimaryRules(c.primary) /\ ForeignRules(c.foreign) /\ IndexRules(c.indexes)

Snapshots == [p \in Range(chosen) |-> Filtered(Snapshot(p, read[p]), excluded)]
-----------------------------------------------------------------------------------
Init ==
  /\ chosen \in Selections
  /\ databases \in {d \in [Range(chosen) -> UNION Range(Catalogs)] :
                      \A p \in Range(chosen) : d[p] \in Catalogs[p]}
  /\ excluded \in Exclusions
  /\ at = [profile |-> 1, query |-> 1]
  /\ read = [p \in Range(chosen) |-> NoRows]
  /\ outcome = "running"
  /\ findings = NoFindings
  /\ changes = 0

(* Fewer than two profiles are refused before any is extracted.             *)
Refuse ==
  /\ outcome = "running" /\ at = [profile |-> 1, query |-> 1]
  /\ Len(chosen) < 2
  /\ outcome' = "refused"
  /\ UNCHANGED <<databases, chosen, excluded, at, read, findings, changes>>

Extracting == outcome = "running" /\ Len(chosen) >= 2 /\ at.profile <= Len(chosen)

(* One query of introspect(), committed rows only.                          *)
Read ==
  /\ Extracting
  /\ LET p == chosen[at.profile] part == Queries[at.query]
     IN /\ read' = [read EXCEPT ![p][part] = databases[p][part]]
        /\ at' = IF at.query < QueriesOf(p)
                 THEN [at EXCEPT !.query = @ + 1]
                 ELSE [profile |-> at.profile + 1, query |-> 1]
  /\ UNCHANGED <<databases, chosen, excluded, outcome, findings, changes>>

(* The connection or the query fails; the error names the profile.          *)
ReadFailsPartly ==   \* mutant: compares what could be read
  /\ Extracting
  /\ findings' = CompareSnapshots(chosen, Snapshots)
  /\ outcome' = "failed"
  /\ UNCHANGED <<databases, chosen, excluded, at, read, changes>>
ReadFails ==
  /\ Extracting
  /\ outcome' = "failed"
  /\ UNCHANGED <<databases, chosen, excluded, at, read, findings, changes>>

Compare ==
  /\ outcome = "running" /\ Len(chosen) >= 2 /\ at.profile > Len(chosen)
  /\ findings' = CompareSnapshots(chosen, Snapshots)
  /\ outcome' = "done"
  /\ UNCHANGED <<databases, chosen, excluded, at, read, changes>>

(* Another session changes a database while it is being read.               *)
Alter ==
  /\ Extracting /\ changes < MaxChanges
  /\ \E p \in Range(chosen) : \E c \in Catalogs[p] \ {databases[p]} :
       databases' = [databases EXCEPT ![p] = c]
  /\ changes' = changes + 1
  /\ UNCHANGED <<chosen, excluded, at, read, outcome, findings>>

Next == Refuse \/ Read \/ ReadFails \/ Compare \/ Alter
Spec == Init /\ [][Next]_vars
===================================================================================
