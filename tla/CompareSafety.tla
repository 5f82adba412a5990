------------------------------- MODULE CompareSafety -------------------------------
(****************************************************************************)
(* What a comparison promises.  The reference definition of the differences *)
(* relates the objects of two snapshots directly, as ADR 0007 and 0008 say  *)
(* when they are the same one; it knows nothing of keys, of dictionaries or *)
(* of the renaming that SchemaCompare does first.                           *)
(****************************************************************************)
EXTENDS CompareProfiles

(* Type invariant.                                                          *)
TypeOK ==
  /\ DOMAIN databases = Range(chosen) /\ \A p \in Range(chosen) : databases[p] \in Catalogs[p]
  /\ chosen \in Selections /\ excluded \in Exclusions
  /\ at.profile \in 1 .. Len(chosen) + 1
  /\ at.query \in 1 .. (IF at.profile > Len(chosen) THEN 1 ELSE QueriesOf(chosen[at.profile]))
  /\ DOMAIN read = Range(chosen)
  /\ outcome \in {"running", "refused", "failed", "done"}
  /\ outcome # "done" => findings = NoFindings
  /\ changes \in 0 .. MaxChanges
-----------------------------------------------------------------------------------
(* ADR 0007: schemas match when both are the default one, or ignoring case; *)
(* names ignoring case, unless two objects of one database collide so: those*)
(* match by their exact name.                                               *)
SameSchema(S, p, s, q, r) ==
  \/ s \in S[p].default /\ r \in S[q].default
  \/ s \notin S[p].default /\ r \notin S[q].default /\ Fold[s] = Fold[r]
Alike(S, p, a, q, b) == SameSchema(S, p, a.schema, q, b.schema) /\ Fold[a.name] = Fold[b.name]
Ambiguous(S, kind, p, a) ==
  \E q \in DOMAIN S : \E b, c \in S[q][kind] : b # c /\ Alike(S, p, a, q, b) /\ Alike(S, p, a, q, c)
Same(S, kind, p, a, q, b) ==
  Alike(S, p, a, q, b) /\ (Ambiguous(S, kind, p, a) => a.name = b.name)

Objects(S, kind) == UNION {{p} \X S[p][kind] : p \in DOMAIN S}
Likes(S, kind, p, a) == {o \in Objects(S, kind) : Same(S, kind, p, a, o[1], o[2])}
Owners(objects) == {o[1] : o \in objects}
SpelledAs(S, kind, p, a) ==
  LET likes == Likes(S, kind, p, a)
      o == CHOOSE o \in likes : o[1] = Alphabetical(Owners(likes))
  IN QualifiedName(o[2])

(* What ADR 0007 leaves open: two schemas of one database that differ only  *)
(* in case, and an owner that is the default one elsewhere.                 *)
Clear(S, kind) ==
  /\ \A o \in Objects(S, kind) :
       Cardinality(Likes(S, kind, o[1], o[2])) = Cardinality(Owners(Likes(S, kind, o[1], o[2])))
  /\ \A o, u \in Objects(S, kind) :
       SpelledAs(S, kind, o[1], o[2]) = SpelledAs(S, kind, u[1], u[2])
         => Same(S, kind, o[1], o[2], u[1], u[2])

(* Columns m and n of the tables that likes holds, or names a key mentions. *)
SameColumn(likes, m, n) ==
  LET named(o) == {c \in o[2].columns : Fold[c.name] = Fold[m]}
  IN \/ m = n
     \/ /\ Fold[m] = Fold[n]
        /\ \A o \in likes : Cardinality(named(o)) <= 1
        /\ \E o \in likes : named(o) # {}
SameColumns(likes, ms, ns) ==
  Len(ms) = Len(ns) /\ \A i \in DOMAIN ms : SameColumn(likes, ms[i], ns[i])
HavingColumn(likes, n) == {o \in likes : \E c \in o[2].columns : SameColumn(likes, n, c.name)}
ColumnOf(likes, o, n) == CHOOSE c \in o[2].columns : SameColumn(likes, n, c.name)
SpelledColumn(likes, n) ==
  LET having == HavingColumn(likes, n)
      o == CHOOSE o \in having : o[1] = Alphabetical(Owners(having))
  IN ColumnOf(likes, o, n).name

(* ADR 0008: the name of a key counts; its columns and the table and columns*)
(* a foreign key refers to are compared as tables and columns are.          *)
SamePrimary(likes, k, l) == k.name = l.name /\ SameColumns(likes, k.columns, l.columns)
SameIndex(likes, i, j) ==
  /\ i.unique = j.unique
  /\ SameColumns(likes, i.columns, j.columns) /\ SameColumns(likes, i.included, j.included)
SameForeign(S, likes, p, f, q, g) ==
  LET ref(fk) == [schema |-> fk.rschema, name |-> fk.rtable]
      referred == Likes(S, "tables", p, ref(f))
  IN /\ f.rules = g.rules
     /\ SameColumns(likes, f.columns, g.columns)
     /\ IF referred # {}
        THEN /\ Same(S, "tables", p, ref(f), q, ref(g))
             /\ SameColumns(referred, f.rcolumns, g.rcolumns)
        ELSE ref(f) = ref(g) /\ f.rcolumns = g.rcolumns

(* A generated name is the structure it stands for, whatever the case its   *)
(* words have in each database; a given one counts as it is.                *)
SameWord(m, n) == m = n \/ (m \in Names /\ n \in Names /\ Fold[m] = Fold[n])
SameName(k, l) ==
  \/ k = l
  \/ /\ k.auto /\ l.auto /\ k.nth = l.nth /\ Len(k.text) = Len(l.text)
     /\ \A i \in DOMAIN k.text : SameWord(k.text[i], l.text[i])
Called(P, c) == {k \in P : SameName(k.name, c)}

(* What the code does not do: `_foreign_keys' and `_indexes' spell generated*)
(* names as the database does, before columns have their canonical names, so*)
(* two that differ in case alone are two findings, although ADR 0008 (line  *)
(* 45) promises no noise of generated names nor of case.                    *)
NoNoiseOfCase(S) ==
  \A o \in Objects(S, "tables") : \A u \in Likes(S, "tables", o[1], o[2]) :
    \A kind \in {"foreign", "indexes"} : \A k \in o[2][kind], l \in u[2][kind] :
      SameName(l.name, k.name) => l.name = k.name

(* The parts of two tables differ if one lacks what the other has.          *)
PartsDiffer(P, Q, SamePart(_, _)) ==
  \/ (P = {}) # (Q = {})
  \/ \E k \in P, l \in Q : ~SamePart(k, l)
-----------------------------------------------------------------------------------
(* The differences between snapshots S.  Objects are named as the first     *)
(* profile that has them does.                                              *)
ReferenceMissing(S, kind) ==
  UNION {{[object |-> SpelledAs(S, kind, o[1], o[2]), missing_from_profile |-> q] :
            q \in DOMAIN S \ Owners(Likes(S, kind, o[1], o[2]))} : o \in Objects(S, kind)}
ReferenceMissingColumns(S, o) ==
  LET likes == Likes(S, "tables", o[1], o[2])
  IN UNION {{[object |-> SpelledColumn(likes, c.name), missing_from_profile |-> q] :
               q \in Owners(likes) \ Owners(HavingColumn(likes, c.name))} : c \in o[2].columns}
ReferenceColumns(S, o) ==
  LET likes == Likes(S, "tables", o[1], o[2])
      values(n) == [p \in Owners(HavingColumn(likes, n)) |->
                      ColumnOf(likes, CHOOSE u \in likes : u[1] = p, n).attrs]
  IN {[object |-> SpelledColumn(likes, c.name), values_by_profile |-> values(c.name)] :
        c \in {c \in o[2].columns : \E p, q \in DOMAIN values(c.name) :
                                      values(c.name)[p] # values(c.name)[q]}}
KeyedPairs(S, o) ==
  {u \in Likes(S, "tables", o[1], o[2]) : S[u[1]].keyed /\ S[o[1]].keyed}
ReferenceParts(S, o, Part(_), SamePart(_, _, _, _, _)) ==
  LET likes == Likes(S, "tables", o[1], o[2])
      differ(c) == \E u, w \in KeyedPairs(S, o) :
                     PartsDiffer(Called(Part(u[2]), c), Called(Part(w[2]), c),
                                 LAMBDA k, l : SamePart(likes, u[1], k, w[1], l))
  IN {c \in {k.name : k \in Part(o[2])} : differ(c)}

OnTables(S, Reference(_, _)) ==
  UNION {ByTable(SpelledAs(S, "tables", o[1], o[2]), Reference(S, o)) : o \in Objects(S, "tables")}
ReferencePrimary(S) ==
  {SpelledAs(S, "tables", o[1], o[2]) : o \in
     {o \in Objects(S, "tables") :
        \E u, w \in KeyedPairs(S, o) :
          PartsDiffer(u[2].primary, w[2].primary,
                      LAMBDA k, l : SamePrimary(Likes(S, "tables", o[1], o[2]), k, l))}}
ReferenceForeign(S, o) ==
  ReferenceParts(S, o, LAMBDA t : t.foreign,
                 LAMBDA likes, p, f, q, g : SameForeign(S, likes, p, f, q, g))
ReferenceIndexes(S, o) ==
  ReferenceParts(S, o, LAMBDA t : t.indexes,
                 LAMBDA likes, p, i, q, j : SameIndex(likes, i, j))
ReferenceRoutines(S) ==
  {SpelledAs(S, "routines", o[1], o[2]) : o \in
     {o \in Objects(S, "routines") :
        \E u \in Likes(S, "routines", o[1], o[2]) : u[2].content # o[2].content}}

(* What is found is what differs: no difference is missed, none invented,   *)
(* whatever the order in which profiles were chosen, wherever the names,    *)
(* schemas and keys of the databases are spelled differently, and whatever  *)
(* other sessions changed between the queries of an extraction.  Except     *)
(* where names do not say what is the same object (Clear), and where names  *)
(* that SQL Server generated differ in case alone (NoNoiseOfCase).          *)
FindingsAreTheDifferences ==
  LET S == Snapshots
      parts(found) == {[table |-> f.table, finding |-> f.part] : f \in found}
      comparable == OneProvider(DOMAIN S)
  IN (outcome = "done" /\ Clear(S, "tables") /\ Clear(S, "routines") /\ NoNoiseOfCase(S)) =>
       /\ findings.missingTables = ReferenceMissing(S, "tables")
       /\ findings.missingColumns = OnTables(S, ReferenceMissingColumns)
       /\ findings.columns = OnTables(S, ReferenceColumns)
       /\ {f.table : f \in findings.primary} = ReferencePrimary(S)
       /\ parts(findings.foreign) = OnTables(S, ReferenceForeign)
       /\ parts(findings.indexes) = OnTables(S, ReferenceIndexes)
       /\ findings.missingRoutines =
            IF comparable THEN ReferenceMissing(S, "routines") ELSE {}
       /\ {f.object : f \in findings.routines} =
            IF comparable THEN ReferenceRoutines(S) ELSE {}

(* Excluding tables and routines hides findings about them and alters no    *)
(* other, although it is done before names are matched.  Except foreign     *)
(* keys that refer to an excluded table: those are compared as written.     *)
RefersToExcluded(f) ==
  \E p \in DOMAIN f.values_by_profile : \E fk \in f.values_by_profile[p] :
    Fold[fk.rtable] \in excluded.tables
Hidden(table) == Fold[table.name] \in excluded.tables
FilterOnlyHides ==
  LET everything == CompareSnapshots(chosen, [p \in Range(chosen) |-> Snapshot(p, read[p])])
      shown(found) == {f \in found : ~Hidden(f.table)}
      references(found) == {f \in shown(found) : ~RefersToExcluded(f)}
      objects(found, names) == {f \in found : Fold[f.object.name] \notin names}
  IN outcome = "done" =>
       /\ findings.missingTables = objects(everything.missingTables, excluded.tables)
       /\ findings.missingColumns = shown(everything.missingColumns)
       /\ findings.columns = shown(everything.columns)
       /\ findings.primary = shown(everything.primary)
       /\ references(findings.foreign) = references(everything.foreign)
       /\ findings.indexes = shown(everything.indexes)
       /\ findings.missingRoutines = objects(everything.missingRoutines, excluded.routines)
       /\ findings.routines = objects(everything.routines, excluded.routines)
===================================================================================
