--------------------------- MODULE MCConsolidation ---------------------------
(***************************************************************************)
(* Consolidation for TLC: profiles whose names need care as file names, one*)
(* that names no database and one of another engine; comparisons with      *)
(* every kind of finding, alone and together.                              *)
(***************************************************************************)
EXTENDS ConsolidationSafety

MCProfileOrder == <<"dev", "DEV", "nodb", "ora", "qa", "undo">>
MCProvider == [p \in Range(MCProfileOrder) |-> IF p = "ora" THEN "oracle" ELSE "sqlserver"]
MCSession == [p \in Range(MCProfileOrder) |-> "dbo"]
MCAlphabet == <<"A", "B", "T", "U", "dbo">>
MCFold == [n \in Range(MCAlphabet) |-> n]
MCSpelling ==
    [p \in Range(MCProfileOrder) |->
       CASE p = "dev" -> <<"a">> [] p = "DEV" -> <<"A", ".", " ">>
         [] p = "undo" -> <<"a", ".", "deshacer">>
         [] p = "qa" -> <<"con", ".", "/">> [] OTHER -> <<p>>]
MCInvalid == {"/", ":", "\\"}
Pieces == {"a", "A", "_", ".", " ", "/", "con", "deshacer", "sql", "md", "profile",
           "impact_report", "nodb", "ora"}
            \cup {ToString(k) : k \in 1 .. Len(MCProfileOrder)}
MCFoldPiece == [x \in Pieces |-> IF x = "A" THEN "a" ELSE x]

T == [schema |-> "dbo", name |-> "T"]
U == [schema |-> "dbo", name |-> "U"]
MCKey == [n \in {T, U} |-> <<n.schema, ".", n.name>>]
MCLosing == {<<"text", "int">>}

Attrs(type, null, dflt) == [type |-> type, null |-> null, dflt |-> dflt]
Num == Attrs("int", TRUE, {})
Str == Attrs("text", TRUE, {})
IntNotNull == Attrs("int", FALSE, {})
IntDefault == Attrs("int", FALSE, {"zero"})
Has(n, columns) == [m \in {n} |-> [columns |-> columns]]
A1(x) == [c \in {"A"} |-> x]
B1(x) == [c \in {"B"} |-> x]
AB(x, y) == [c \in {"A", "B"} |-> IF c = "A" THEN x ELSE y]
Lacks == [m \in {} |-> [columns |-> <<>>]]

Two(p, x, q, y) == [r \in {p, q} |-> IF r = p THEN x ELSE y]
Three(x, y, z) == [r \in {"dev", "DEV", "qa"} |->
                     CASE r = "dev" -> x [] r = "DEV" -> y [] r = "qa" -> z]

MCComparisons ==
    {Three(Has(T, A1(Num)), Lacks, Lacks),                      \* a table, missing twice
     Three(Has(T, A1(Num)), Has(T, A1(Str)), Lacks),            \* and a column that differs
     Three(Has(T, AB(Num, Num)), Has(T, AB(Str, Num)), Has(T, B1(Num))),
     Three(Has(T, AB(Num, Num)), Has(T, AB(Str, Num)), Has(T, AB(Num, Str))),
     Three(Has(T, AB(Num, Num)), Has(T, B1(Num)), Lacks),       \* and one that is missing
     Two("dev", Has(T, A1(Num)), "DEV", Has(U, A1(Num))),       \* two tables
     Two("dev", Has(T, A1(IntNotNull)), "qa", Has(T, A1(Str))),
     Two("dev", Has(T, A1(Num)), "undo", Has(T, A1(Str))),
     Two("dev", Has(T, A1(Num)), "nodb", Has(T, A1(Str))),
     Two("dev", Has(T, A1(Num)), "ora", Has(T, A1(Str)))}
FillComparison == {Three(Has(T, A1(IntNotNull)), Has(T, A1(IntDefault)), Has(T, A1(Num)))}
=============================================================================
