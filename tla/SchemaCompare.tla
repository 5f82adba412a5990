------------------------------- MODULE SchemaCompare -------------------------------
(****************************************************************************)
(* What a comparison computes, as pure operators: the snapshot built from   *)
(* the rows of a catalog, the exclusions, the canonical names that make     *)
(* objects of several databases match (ADR 0007, 0008), and the differences *)
(* between the snapshots so renamed.                                        *)
(****************************************************************************)
EXTENDS Integers, Sequences, FiniteSets, Functions

CONSTANTS
  ProfileOrder,  \* the configured profiles, sorted by name
  Provider,      \* the engine of each: profile -> provider_id
  Session,       \* the session schema of an Oracle connection: profile -> name
  Alphabet,      \* every identifier, in code point order
  Fold           \* identifier -> its casefold()

Profiles == Range(ProfileOrder)
Names == Range(Alphabet)

ASSUME CompareAssumption ==
  /\ ProfileOrder \in Seq(Profiles) /\ IsInjective(ProfileOrder)
  /\ Alphabet \in Seq(Names) /\ IsInjective(Alphabet)
  /\ Provider \in [Profiles -> STRING] /\ Session \in [Profiles -> Names]
  /\ Fold \in [Names -> Names] /\ \A n \in Names : Fold[Fold[n]] = Fold[n]
  /\ "" \notin Names

(* sorted(): by qualified name, then as the code points come.               *)
Rank(n) == CHOOSE i \in 1 .. Len(Alphabet) : Alphabet[i] = n
Order(o) == Rank(o.schema) * (Len(Alphabet) + 1) + Rank(o.name)
First(S) == CHOOSE o \in S : \A other \in S : Order(o) <= Order(other)
Last(S) == CHOOSE o \in S : \A other \in S : Order(o) >= Order(other)
Alphabetical(S) == CHOOSE p \in S : \E i \in DOMAIN ProfileOrder :
                     ProfileOrder[i] = p /\ \A j \in 1 .. i - 1 : ProfileOrder[j] \notin S
QualifiedName(o) == [schema |-> o.schema, name |-> o.name]
-----------------------------------------------------------------------------------
(* The rows a catalog holds: tables with their columns; the constraints and *)
(* indexes of each table, in catalog order, with the name they were given   *)
(* ({} if SQL Server named them itself); routines with what of them counts. *)
Queries == <<"tables", "primary", "foreign", "indexes", "routines">>
NoRows == [tables |-> {}, primary |-> <<>>, foreign |-> <<>>, indexes |-> <<>>, routines |-> {}]
QueriesOf(p) == IF Provider[p] = "sqlserver" THEN Len(Queries) ELSE 1

(* Names.  One SQL Server made up is replaced by the structure it names,    *)
(* numbered when the table has that structure more than once.               *)
Given(row) == \E n \in row.given : TRUE
GivenName(row) == [auto |-> FALSE, text |-> <<CHOOSE n \in row.given : TRUE>>, nth |-> 1]
Structure(row) == row.columns \o IF "rtable" \in DOMAIN row
                                 THEN <<"->", row.rschema, row.rtable>> \o row.rcolumns
                                 ELSE <<>>
OfTable(row, t) == row.schema = t.schema /\ row.table = t.name
ConstraintName(rows, i) ==
  IF Given(rows[i]) THEN GivenName(rows[i])
  ELSE [auto |-> TRUE, text |-> Structure(rows[i]),
        nth |-> Cardinality({j \in 1 .. i : /\ ~Given(rows[j])
                                            /\ rows[j].schema = rows[i].schema
                                            /\ rows[j].table = rows[i].table
                                            /\ Structure(rows[j]) = Structure(rows[i])})]
PrimaryName(row) == IF Given(row) THEN GivenName(row)
                    ELSE [auto |-> TRUE, text |-> <<"PK">>, nth |-> 1]

RowsOf(rows, t) == {i \in DOMAIN rows : OfTable(rows[i], t)}
PrimaryKeyOf(rows, t) ==
  {[name |-> PrimaryName(rows[i]), columns |-> rows[i].columns] : i \in RowsOf(rows, t)}
ForeignKeysOf(rows, t) ==
  {[name |-> ConstraintName(rows, i), columns |-> rows[i].columns,
    rschema |-> rows[i].rschema, rtable |-> rows[i].rtable,
    rcolumns |-> rows[i].rcolumns, rules |-> rows[i].rules] : i \in RowsOf(rows, t)}
IndexesOf(rows, t) ==
  {[name |-> ConstraintName(rows, i), columns |-> rows[i].columns,
    included |-> rows[i].included, unique |-> rows[i].unique] : i \in RowsOf(rows, t)}

(* The schema that stands for the database itself, if one does.             *)
DefaultSchema(p, rows) ==
  LET schemas == {t.schema : t \in rows.tables}
  IN CASE Provider[p] \in {"mysql", "mariadb"} /\ Cardinality(schemas) = 1 -> schemas
       [] Provider[p] = "oracle" -> {Session[p]}
       [] OTHER -> {}

Snapshot(p, rows) ==
  [default |-> DefaultSchema(p, rows),
   keyed |-> Provider[p] = "sqlserver",   \* extracts SchemaFeature.KEYS
   tables |-> {[schema |-> t.schema, name |-> t.name, columns |-> t.columns,
                primary |-> PrimaryKeyOf(rows.primary, t),
                foreign |-> ForeignKeysOf(rows.foreign, t),
                indexes |-> IndexesOf(rows.indexes, t)] : t \in rows.tables},
   routines |-> rows.routines]

(* The exclusions.  A pattern is the set of names it occurs in, ignoring    *)
(* case; excluded.tables and .routines are unions of patterns.              *)
FilteredAsWritten(snap, excluded) ==   \* mutant: patterns match the case of a name
  [snap EXCEPT !.tables = {t \in @ : t.name \notin excluded.tables},
               !.routines = {r \in @ : r.name \notin excluded.routines}]
Filtered(snap, excluded) ==
  [snap EXCEPT !.tables = {t \in @ : Fold[t.name] \notin excluded.tables},
               !.routines = {r \in @ : Fold[r.name] \notin excluded.routines}]
-----------------------------------------------------------------------------------
(* Keys: how objects of several databases are recognised as the same.       *)
SchemaKeyAlways(snap, schema) == Fold[schema]   \* mutant: no default schema
SchemaKey(snap, schema) == IF schema \in snap.default THEN "" ELSE Fold[schema]
LooseKey(snap, o) == <<SchemaKey(snap, o.schema), Fold[o.name]>>
ExactKey(snap, o) == <<"exact", SchemaKey(snap, o.schema), o.name>>

(* _keys(): the key of every item of every profile, given the loose and the *)
(* exact one.  A loose key two items of one profile have is nobody's.       *)
Keys(loose, exact) ==
  LET twice == {k \in UNION {Range(loose[p]) : p \in DOMAIN loose} :
                  \E p \in DOMAIN loose : Cardinality({i \in DOMAIN loose[p] : loose[p][i] = k}) > 1}
  IN [p \in DOMAIN loose |->
        [i \in DOMAIN loose[p] |-> IF loose[p][i] \in twice THEN exact[p][i] ELSE loose[p][i]]]
ObjectKeys(snaps, items) ==
  Keys([p \in DOMAIN items |-> [o \in items[p] |-> LooseKey(snaps[p], o)]],
       [p \in DOMAIN items |-> [o \in items[p] |-> ExactKey(snaps[p], o)]])
ColumnKeys(items) ==
  Keys([p \in DOMAIN items |-> [c \in items[p] |-> <<Fold[c.name]>>]],
       [p \in DOMAIN items |-> [c \in items[p] |-> <<"exact", c.name>>]])
AllKeys(keyed) == UNION {Range(keyed[p]) : p \in DOMAIN keyed}
Holders(keyed, k) == {p \in DOMAIN keyed : k \in Range(keyed[p])}
ItemsAt(keyed, k, p) == {i \in DOMAIN keyed[p] : keyed[p][i] = k}

(* _canonical_names(): the spelling of the first profile that has the key.  *)
CanonicalObjects(keyed) ==
  [k \in AllKeys(keyed) |->
     QualifiedName(First(ItemsAt(keyed, k, Alphabetical(Holders(keyed, k)))))]
CanonicalColumns(keyed) ==
  [k \in AllKeys(keyed) |->
     (CHOOSE c \in ItemsAt(keyed, k, Alphabetical(Holders(keyed, k))) : TRUE).name]

(* _column_mapper(): as a key, a foreign key or an index mentions a column. *)
ColumnName(names, n) ==
  CASE <<"exact", n>> \in DOMAIN names -> names[<<"exact", n>>]
    [] <<"exact", n>> \notin DOMAIN names /\ <<Fold[n]>> \in DOMAIN names -> names[<<Fold[n]>>]
    [] OTHER -> n
ColumnNames(names, columns) == [i \in DOMAIN columns |-> ColumnName(names, columns[i])]

(* The table a foreign key refers to, if the snapshots have it.             *)
ReferencedKey(snap, keys, fk) ==
  LET ref == [schema |-> fk.rschema, name |-> fk.rtable]
      exact == ExactKey(snap, ref)
  IN IF exact \in keys THEN {exact} ELSE {LooseKey(snap, ref)} \cap keys
ForeignKey(snap, own, names, columnNames, fk) ==
  LET known == ReferencedKey(snap, DOMAIN names, fk)
      renamed == [fk EXCEPT !.columns = ColumnNames(own, @)]
  IN IF known = {} THEN renamed
     ELSE LET k == CHOOSE key \in known : TRUE
          IN [renamed EXCEPT !.rschema = names[k].schema, !.rtable = names[k].name,
                             !.rcolumns = ColumnNames(columnNames[k], @)]
Index(own, idx) ==
  [idx EXCEPT !.columns = ColumnNames(own, @), !.included = ColumnNames(own, @)]

(* A table written with canonical names.  Columns are a function from their *)
(* name to their attributes from here on.                                   *)
CanonicalTable(snap, columnKeys, own, names, columnNames, t) ==
  [columns |-> [n \in {own[k] : k \in Range(columnKeys)} |->
                  (CHOOSE c \in t.columns : own[columnKeys[c]] = n).attrs],
   primary |-> {[pk EXCEPT !.columns = ColumnNames(own, @)] : pk \in t.primary},
   foreign |-> {ForeignKey(snap, own, names, columnNames, fk) : fk \in t.foreign},
   indexes |-> {Index(own, idx) : idx \in t.indexes}]

(* Where tables_by_key first meets a key, profiles taken as they were       *)
(* chosen: of two tables a profile has under one name, the index of the     *)
(* engine keeps the one whose key came last.                                *)
Met(chosen, keyed, k) ==
  LET i == CHOOSE n \in DOMAIN chosen :
             /\ chosen[n] \in Holders(keyed, k)
             /\ \A m \in 1 .. n - 1 : chosen[m] \notin Holders(keyed, k)
      size == Len(Alphabet) + 1
  IN i * size * size + Order(First(ItemsAt(keyed, k, chosen[i])))

(* canonicalize(), and the engine's index by profile and canonical name.    *)
CanonicalTables(chosen, snaps) ==
  LET keyed == ObjectKeys(snaps, [p \in DOMAIN snaps |-> snaps[p].tables])
      keys == AllKeys(keyed)
      names == CanonicalObjects(keyed)
      tableAt == [k \in keys |-> [p \in Holders(keyed, k) |-> Last(ItemsAt(keyed, k, p))]]
      columnKeys == [k \in keys |->
                       ColumnKeys([p \in DOMAIN tableAt[k] |-> tableAt[k][p].columns])]
      columnNames == [k \in keys |-> CanonicalColumns(columnKeys[k])]
      named(p, n) == {k \in keys : names[k] = n /\ p \in DOMAIN tableAt[k]}
      kept(p, n) == CHOOSE k \in named(p, n) : \A other \in named(p, n) :
                      Met(chosen, keyed, other) <= Met(chosen, keyed, k)
      table(p, k) == CanonicalTable(snaps[p], columnKeys[k][p], columnNames[k], names,
                                    columnNames, tableAt[k][p])
  IN [p \in DOMAIN snaps |->
        [n \in {names[k] : k \in Range(keyed[p])} |-> table(p, kept(p, n))]]
CanonicalRoutines(snaps) ==
  LET keyed == ObjectKeys(snaps, [p \in DOMAIN snaps |-> snaps[p].routines])
      names == CanonicalObjects(keyed)
  IN [p \in DOMAIN snaps |->
        [n \in {names[k] : k \in Range(keyed[p])} |->
           Last({r \in snaps[p].routines : names[keyed[p][r]] = n}).content]]
-----------------------------------------------------------------------------------
(* The engine.  A "by profile" index maps each profile to a function from   *)
(* names to values.                                                         *)
Union(index, profiles) == UNION {DOMAIN index[p] : p \in profiles}
Having(index, profiles, n) == {p \in profiles : n \in DOMAIN index[p]}
Differ(f) == Cardinality(Range(f)) > 1

MissingObjects(index) ==
  {m \in [object: Union(index, DOMAIN index), missing_from_profile: DOMAIN index] :
     m.object \notin DOMAIN index[m.missing_from_profile]}
Mismatches(index, profiles) ==
  LET values(n) == [p \in Having(index, profiles, n) |-> index[p][n]]
  IN {[object |-> n, values_by_profile |-> values(n)] :
        n \in {n \in Union(index, profiles) : Differ(values(n))}}

(* Columns of the tables at least two profiles have.                        *)
ColumnsAt(tables, n) == [p \in Having(tables, DOMAIN tables, n) |-> tables[p][n].columns]
Shared(tables, profiles) ==
  {n \in Union(tables, profiles) : Cardinality(Having(tables, profiles, n)) > 1}
ByTable(n, findings) == {[table |-> n, finding |-> f] : f \in findings}
MissingColumns(tables) ==
  UNION {ByTable(n, MissingObjects(ColumnsAt(tables, n))) : n \in Shared(tables, DOMAIN tables)}
ColumnMismatches(tables) ==
  UNION {ByTable(n, LET columns == ColumnsAt(tables, n) IN Mismatches(columns, DOMAIN columns)) :
           n \in Shared(tables, DOMAIN tables)}

(* Keys and indexes: {} where a profile has none of that name.              *)
ByName(S, n) == {s \in S : s.name = n}
PrimaryKeyMismatches(tables, profiles) ==
  LET values(n) == [p \in Having(tables, profiles, n) |-> tables[p][n].primary]
  IN {[table |-> n, values_by_profile |-> values(n)] :
        n \in {n \in Shared(tables, profiles) : Differ(values(n))}}
NamedMismatches(tables, profiles, kind) ==
  LET values(n, c) == [p \in Having(tables, profiles, n) |-> ByName(tables[p][n][kind], c)]
      parts(n) == {s.name : s \in UNION {tables[p][n][kind] : p \in Having(tables, profiles, n)}}
  IN UNION {{[table |-> n, part |-> c, values_by_profile |-> values(n, c)] :
               c \in {c \in parts(n) : Differ(values(n, c))}} : n \in Shared(tables, profiles)}

(* RoutineComparisonPolicy.SAME_PROVIDER.                                   *)
OneProvider(profiles) == \A p, q \in profiles : Provider[p] = Provider[q]

NoFindings == [missingTables |-> {}, missingColumns |-> {}, columns |-> {}, primary |-> {},
               foreign |-> {}, indexes |-> {}, missingRoutines |-> {}, routines |-> {}]
CompareSnapshots(chosen, snaps) ==
  LET tables == CanonicalTables(chosen, snaps)
      routines == CanonicalRoutines(snaps)
      keyed == {p \in DOMAIN snaps : snaps[p].keyed}
      comparable == OneProvider(DOMAIN snaps)
  IN [missingTables |-> MissingObjects(tables),
      missingColumns |-> MissingColumns(tables),
      columns |-> ColumnMismatches(tables),
      primary |-> PrimaryKeyMismatches(tables, keyed),
      foreign |-> NamedMismatches(tables, keyed, "foreign"),
      indexes |-> NamedMismatches(tables, keyed, "indexes"),
      missingRoutines |-> IF comparable THEN MissingObjects(routines) ELSE {},
      routines |-> IF comparable THEN Mismatches(routines, DOMAIN routines) ELSE {}]
===================================================================================
