--------------------------------- MODULE MCCompare ---------------------------------
(****************************************************************************)
(* Small instances of CompareProfiles: three SQL Server databases that spell*)
(* their objects differently, and two Oracle ones whose owners differ.      *)
(****************************************************************************)
EXTENDS CompareSafety

MCProfiles == <<"dev", "ora", "prod", "qa", "test">>
MCProvider == [p \in {"dev", "ora", "prod", "qa", "test"} |->
                 IF p \in {"dev", "prod", "qa"} THEN "sqlserver" ELSE "oracle"]
MCSession == [p \in {"dev", "ora", "prod", "qa", "test"} |-> IF p = "ora" THEN "APP" ELSE "TST"]
MCAlphabet == <<"A", "APP", "B", "F", "I", "P", "T", "TST", "U", "a", "b", "dbo", "p", "t", "u">>
MCFold ==
  [n \in {MCAlphabet[i] : i \in 1 .. Len(MCAlphabet)} |->
     CASE n = "A" -> "a" [] n = "B" -> "b" [] n = "P" -> "p"
       [] n = "T" -> "t" [] n = "U" -> "u" [] OTHER -> n]

Column(n, attrs) == [name |-> n, attrs |-> attrs]
Table(s, n, columns) == [schema |-> s, name |-> n, columns |-> columns]
Primary(t, columns) ==
  [schema |-> "dbo", table |-> t, given |-> {"P"}, columns |-> columns]
Foreign(given, t, columns, u, rcolumns) ==
  [schema |-> "dbo", table |-> t, given |-> given, columns |-> columns,
   rschema |-> "dbo", rtable |-> u, rcolumns |-> rcolumns, rules |-> "none"]
MCIndex(given, t, columns, included) ==
  [schema |-> "dbo", table |-> t, given |-> given, columns |-> columns,
   included |-> included, unique |-> TRUE]
Routine(n, content) == [schema |-> "dbo", name |-> n, content |-> content]

(* T(A, B) with a key, an index and a foreign key to U(A), and a routine,   *)
(* in two spellings.                                                        *)
Sql(t, u, a, b, p, given) ==
  [tables |-> {Table("dbo", t, {Column(a, "int"), Column(b, "int")}),
               Table("dbo", u, {Column(a, "int")})},
   primary |-> <<Primary(t, <<a>>)>>,
   foreign |-> <<Foreign(given, t, <<b>>, u, <<a>>)>>,
   indexes |-> <<MCIndex({"I"}, t, <<b>>, <<a>>)>>,
   routines |-> {Routine(p, "x")}]
Upper == Sql("T", "U", "A", "B", "P", {"F"})
Lower == Sql("t", "u", "a", "b", "p", {"F"})

(* Variants: a column of another type; the same structure under a name SQL  *)
(* Server generated, in lower case, twice or once; a column less; colliding *)
(* columns and tables; a key on another column; no routine or another.      *)
Retyped == [Lower EXCEPT !.tables = {Table("dbo", "t", {Column("a", "int"), Column("b", "text")}),
                                     Table("dbo", "u", {Column("a", "int")})},
                         !.foreign = <<Foreign({}, "t", <<"b">>, "u", <<"a">>)>>,
                         !.routines = {Routine("p", "y")}]
Generated == [Upper EXCEPT !.foreign = @ \o <<Foreign({}, "T", <<"B">>, "U", <<"A">>),
                                              Foreign({}, "T", <<"B">>, "U", <<"A">>)>>]
GeneratedOnce == [Upper EXCEPT !.foreign = <<Foreign({}, "T", <<"B">>, "U", <<"A">>)>>]
Shorter == [Upper EXCEPT !.tables = {Table("dbo", "T", {Column("A", "int")})},
                         !.foreign = <<>>, !.indexes = <<>>, !.routines = {}]
TwinColumns == [Upper EXCEPT !.tables = {Table("dbo", "T", {Column("A", "int"), Column("a", "text"),
                                                            Column("B", "int")}),
                                         Table("dbo", "U", {Column("A", "int")})}]
TwinTables == [Lower EXCEPT !.tables = @ \cup {Table("dbo", "T", {Column("a", "int")})},
                            !.primary = <<Primary("t", <<"b">>)>>]
Oracle(owner, other, t) ==
  [NoRows EXCEPT !.tables = {Table(owner, t, {Column("A", "int"), Column("B", "int")}),
                             Table(other, "U", {Column("A", "int")})}]
(* An owner of "test" is named as the default one of "ora".                 *)
Homonyms == [NoRows EXCEPT !.tables = {Table("APP", "T", {Column("A", "int")}),
                                       Table("TST", "T", {Column("B", "int")})}]

MCCatalogs ==
  [p \in {"dev", "ora", "prod", "qa", "test"} |->
     CASE p = "dev" -> {Upper, Generated, TwinColumns}
       [] p = "prod" -> {Lower, Retyped, TwinTables, GeneratedOnce}
       [] p = "qa" -> {Shorter}
       [] p = "ora" -> {Oracle("APP", "APP", "T"), Oracle("APP", "TST", "T")}
       [] p = "test" -> {Oracle("TST", "TST", "t"), Oracle("TST", "APP", "T"), Homonyms}]
MCSelections == {<<"dev">>, <<"dev", "prod">>, <<"ora", "test">>, <<"test", "ora">>,
                 <<"qa", "prod", "dev">>, <<"test", "dev">>}
MCExclusions == {[tables |-> {}, routines |-> {}], [tables |-> {"u"}, routines |-> {"p"}]}
===================================================================================
