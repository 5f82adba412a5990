---------------------------- MODULE MCMigrationScript ----------------------------
(****************************************************************************)
(* Small instances of MigrationScript: table T(k, a, b), with its primary   *)
(* key on k, an index on a and b, a default on b and perhaps a check and a  *)
(* full-text index on a, and table U(k, a), whose a references T.k.  The    *)
(* decisions and the databases below are the values the configurations give *)
(* to Decisions and InitialDbs.                                             *)
(****************************************************************************)
EXTENDS MigrationSafety

MCTables == {"dbo.T", "dbo.U"}
MCColumns == {"k", "a", "b"}
T == "dbo.T"
U == "dbo.U"
MCBare == [t \in MCTables |-> t]

(* Types 1 and 2 round what they cannot hold, as numbers do; 3 and 4 are    *)
(* lengths of a text; 5 is a datetime, which becomes 1, a datetime2(0),     *)
(* without any row being asked for, and whose change to 3 only ALTER COLUMN *)
(* decides.                                                                 *)
MCAsked == {p \in Types \X Types : p[1] > p[2] \/ (p[1] \in Texts) # (p[2] \in Texts)}
             \ {<<5, 1>>, <<5, 3>>}

Dep(kind, t, cs, r, rcs) ==
  [kind |-> kind, tbl |-> t, cols |-> cs, ref |-> r, refcols |-> rcs, val |-> 0]
PkT == Dep("pk", T, {"k"}, T, {})
PkU == Dep("pk", U, {"k"}, U, {})
IxA == Dep("index", T, {"a", "b"}, T, {})
FkU == Dep("fk", U, {"a"}, T, {"k"})
CheckA == Dep("check", T, {"a"}, T, {})
TextA == Dep("other", T, {"a"}, T, {})
View == Dep("bound", T, {"b"}, T, {})
UniqueA == Dep("unique", T, {"a"}, T, {})
UniqueB == Dep("unique", T, {"b"}, T, {})
CheckB == [Dep("check", T, {"b"}, T, {}) EXCEPT !.val = 2]
MCConstraints == {PkT, PkU, IxA, FkU, CheckA, TextA, View, UniqueA, UniqueB, CheckB}

Col(type, null, dflt) == [type |-> type, null |-> null, dflt |-> dflt, ident |-> FALSE]
None == NoAttributes
NoTable == [c \in MCColumns |-> None]
Table(k, a, b) == [NoTable EXCEPT !["k"] = k, !["a"] = a, !["b"] = b]
TDef == Table(Col(2, FALSE, 0), Col(2, TRUE, 0), Col(1, TRUE, 1))
UDef == Table(Col(2, FALSE, 0), Col(2, TRUE, 0), None)

Row(k, a, b) == [c \in MCColumns |-> CASE c = "k" -> k [] c = "a" -> a [] OTHER -> b]
EmptyDb == [cols |-> [t \in MCTables |-> NoColumns],
            rows |-> [t \in MCTables |-> NoRows],
            deps |-> {},
            bak |-> [b \in BackupNames |-> NoBackup],
            journal |-> [u \in BOOLEAN |-> NoJournal]]
With(d, t, def, rows, X) ==
  [d EXCEPT !.cols[t] = [c \in MCColumns |-> Stored(def[c])],
            !.rows[t] = rows,
            !.deps = @ \cup X
              \cup {Default(t, c, def[c].dflt) : c \in {e \in MCColumns : def[e].dflt # 0}}]
TRows == [r \in {1, 2} |-> IF r = 1 THEN Row(1, 2, 1) ELSE Row(2, 1, 0)]
URows == [r \in {1} |-> Row(1, 2, 0)]

Base == With(With(EmptyDb, T, TDef, TRows, {PkT, IxA}), U, UDef, URows, {PkU, FkU})
NoKeys == With(With(EmptyDb, T, TDef, TRows, {IxA}), U, UDef, URows, {})
OnlyT == With(EmptyDb, T, TDef, TRows, {PkT, IxA})
Bound == With(With(EmptyDb, T, TDef, TRows, {PkT, IxA, View}), U, UDef, URows, {PkU, FkU})
(* T without b, its b wider than compared, its a of the target's width.     *)
NoB == With(EmptyDb, T, [TDef EXCEPT !["b"] = None],
            [r \in {1, 2} |-> Row(r, 3 - r, 0)], {PkT})
NoBEmpty == With(EmptyDb, T, [TDef EXCEPT !["b"] = None], NoRows, {PkT})
WideB == With(EmptyDb, T, [TDef EXCEPT !["b"] = Col(2, TRUE, 0)],
              [r \in {1, 2} |-> Row(r, 1, r)], {PkT})
NarrowA == With(EmptyDb, T, [TDef EXCEPT !["a"] = Col(1, TRUE, 0)],
                [r \in {1, 2} |-> Row(r, 1, 1)], {PkT, IxA})
NarrowKeys ==
  With(With(EmptyDb, T, [TDef EXCEPT !["k"] = Col(1, FALSE, 0)],
            [r \in {1} |-> Row(1, 2, 0)], {PkT, IxA}),
       U, [UDef EXCEPT !["a"] = Col(1, TRUE, 0)], [r \in {1} |-> Row(1, 1, 0)], {PkU, FkU})
Indexed ==
  With(With(EmptyDb, T, TDef, TRows, {PkT, CheckA, TextA}), U, UDef, URows, {PkU})
(* A row of U that refers to nothing yet; a T whose k numbers its rows.      *)
Unlinked ==
  With(With(EmptyDb, T, TDef, [r \in {1} |-> Row(1, 2, 1)], {PkT}),
       U, UDef, [r \in {1} |-> Row(1, 0, 0)], {PkU, FkU})
NumberedK == [TDef["k"] EXCEPT !.ident = TRUE]
Numbered == With(EmptyDb, T, [TDef EXCEPT !["k"] = NumberedK, !["b"] = None],
                 [r \in {1} |-> Row(1, 2, 0)], {PkT})
(* Texts, unique indexes and a check that refuses 2; dates.                 *)
Text(length) == Col(length, TRUE, 0)
TextDef == [TDef EXCEPT !["a"] = Text(4), !["b"] = Text(3)]
TextRows == [r \in {1, 2} |-> IF r = 1 THEN Row(1, 4, 3) ELSE Row(2, 1, 0)]
Worded == With(EmptyDb, T, TextDef, TextRows, {PkT, UniqueB, CheckB})
Unkeyed == With(EmptyDb, T, TextDef, TextRows, {UniqueA})
Date == Col(5, TRUE, 0)
Dated == With(EmptyDb, T, Table(Col(2, FALSE, 0), Date, None),
              [r \in {1, 2} |-> Row(r, 6 - r, 0)], {PkT})
DateKey == Col(5, FALSE, 0)
Timed == With(EmptyDb, T, Table(DateKey, Date, None), [r \in {1} |-> Row(5, 2, 0)], {PkT})
FewDbs == {Base, OnlyT, Bound, NoB}
FitDbs == {With(EmptyDb, T, TDef, [r \in {1} |-> Row(1, 1, 1)], {PkT})}
AllDbs == {Base, NoKeys, OnlyT, Bound, NoB, NoBEmpty, WideB, NarrowA, NarrowKeys, Indexed,
           Unlinked, Numbered, Worded, Unkeyed, Dated, Timed}

(* Steps and decisions.                                                     *)
Make(kind, t, c, target, observed, table, backfill, accept) ==
  [kind |-> kind, tbl |-> t, col |-> c, target |-> target, observed |-> observed,
   table |-> table, backfill |-> backfill, accept |-> accept, num |-> 1]
CreateT(t, def) == Make("create_table", t, "k", None, None, def, 0, FALSE)
DropT(t, def) == Make("drop_table", t, "k", None, None, def, 0, FALSE)
DropC(t, c, observed) == Make("drop_column", t, c, None, observed, NoTable, 0, FALSE)
AddC(t, c, target, fill) == Make("add_column", t, c, target, None, NoTable, fill, FALSE)
Modify(t, c, target, observed, fill, accept) ==
  Make("modify_column", t, c, target, observed, NoTable, fill, accept)
Decide(creates, drops, columnDrops, columns) ==
  [tables |-> creates, tableDrops |-> drops, columnDrops |-> columnDrops, columns |-> columns]

K == TDef["k"]
A == TDef["a"]
B == TDef["b"]
Drops ==
  {DropC(T, "k", NumberedK), DropT(T, TDef), DropT(U, UDef),
   DropC(T, "k", K), DropC(T, "a", A), DropC(T, "b", B),
   DropC(U, "k", UDef["k"]), DropC(U, "a", UDef["a"]),
   DropC(T, "b", Text(3)), DropC(T, "a", Text(4))}
Changes ==
  {Modify(T, "k", Col(1, FALSE, 0), K, 0, accept) : accept \in BOOLEAN}
  \cup {Modify(T, "a", Col(1, TRUE, 0), A, 0, accept) : accept \in BOOLEAN}
  \cup {Modify(T, "b", Col(2, FALSE, dflt), B, fill, FALSE) : dflt \in 0 .. 1, fill \in {0, 2}}
  \cup {Modify(T, "k", Col(2, TRUE, 0), K, 0, FALSE),
        Modify(T, "a", Col(2, FALSE, 1), A, 0, FALSE),
        Modify(T, "b", Col(1, TRUE, 0), B, 0, FALSE),
        Modify(T, "k", Col(2, FALSE, 0), Col(1, FALSE, 0), 0, FALSE),
        Modify(U, "a", Col(2, TRUE, 0), Col(1, TRUE, 0), 0, FALSE),
        Modify(U, "a", Col(1, TRUE, 0), UDef["a"], 0, TRUE),
        Modify(U, "a", Col(2, FALSE, 0), UDef["a"], 1, FALSE),
        Modify(U, "a", Col(2, FALSE, 0), UDef["a"], 2, FALSE),
        Modify(T, "a", Col(1, TRUE, 0), Text(4), 0, FALSE),
        Modify(T, "b", Col(1, TRUE, 0), Text(3), 0, FALSE),
        Modify(T, "a", Col(1, TRUE, 0), Date, 0, FALSE),
        Modify(T, "a", Text(3), Date, 0, FALSE)}
  \cup {Modify(T, "a", Text(3), Text(4), 0, accept) : accept \in BOOLEAN}
  \cup {Modify(T, "b", Col(4, FALSE, 0), Text(3), fill, FALSE) : fill \in 1 .. 4}
Additions ==
  {AddC(T, "b", Col(1, TRUE, 1), 0), AddC(T, "b", Col(1, FALSE, 1), 2),
   AddC(T, "b", Col(1, FALSE, 0), 0), AddC(T, "b", Col(1, FALSE, 0), 1),
   AddC(T, "b", Col(1, FALSE, 2), 0), AddC(T, "b", Col(3, FALSE, 4), 0),
   AddC(T, "b", [Col(2, FALSE, 0) EXCEPT !.ident = TRUE], 0),
   AddC(U, "b", Col(2, FALSE, 1), 0), CreateT(U, UDef), CreateT(T, TDef)}

(* Every decision of one or two such steps about what one database holds, a *)
(* card of the decision screen giving at most one; one of three steps; and  *)
(* two about a table and a column whose definition was not seen.            *)
Of(steps, kinds) == SelectSeq(steps, LAMBDA s : s.kind \in kinds)
Decided(steps) ==
  Decide(Of(steps, {"create_table"}), Of(steps, {"drop_table"}), Of(steps, {"drop_column"}),
         Of(steps, {"add_column", "modify_column"}))
SeenTogether(steps) == \E d \in AllDbs : \A s \in steps : AsCompared(d, s)
TwoCards(s, r) == s.kind # r.kind \/ s.tbl # r.tbl \/ s.col # r.col
AllDecisions ==
  LET steps == Drops \cup Changes \cup Additions
  IN {Decided(<<s>>) : s \in steps}
     \cup {Decided(<<p[1], p[2]>>) :
             p \in {q \in steps \X steps : TwoCards(q[1], q[2]) /\ SeenTogether({q[1], q[2]})}}
     \cup {Decided(<<DropT(U, UDef), DropC(T, "b", B), Modify(T, "a", Col(1, TRUE, 0), A, 0, TRUE)>>),
           Decided(<<AddC(T, "b", Col(1, TRUE, 1), 0), Modify(T, "k", DateKey, Col(1, FALSE, 0), 0, FALSE)>>),
           Decided(<<DropT(U, NoTable)>>),
           Decided(<<Modify(T, "a", Col(2, TRUE, 2), None, 0, FALSE)>>)}
FewDecisions ==
  {Decide(<<>>, <<DropT(U, UDef)>>, <<>>, <<Modify(T, "a", Col(1, TRUE, 0), A, 0, FALSE)>>),
   Decide(<<>>, <<DropT(T, TDef)>>, <<>>, <<>>),
   Decide(<<>>, <<>>, <<DropC(T, "a", A)>>, <<Modify(T, "b", Col(2, FALSE, 1), B, 2, FALSE)>>),
   Decide(<<>>, <<>>, <<>>, <<Modify(T, "k", Col(1, FALSE, 0), TDef["k"], 0, TRUE)>>),
   Decide(<<CreateT(U, UDef)>>, <<>>, <<>>, <<AddC(T, "b", Col(1, FALSE, 0), 1)>>)}
(* Narrows T.a with no loss to accept, and drops it.                        *)
NarrowAndDrop ==
  {Decide(<<>>, <<>>, <<>>, <<Modify(T, "a", Col(1, TRUE, 0), A, 0, FALSE)>>),
   Decide(<<>>, <<>>, <<DropC(T, "a", A)>>, <<>>)}
====================================================================================
