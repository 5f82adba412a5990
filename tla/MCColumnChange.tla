--------------------------- MODULE MCColumnChange ---------------------------
(***************************************************************************)
(* ColumnChange for TLC: every pair of a set of types that reaches each    *)
(* branch of the rules, with values at and beyond the room of each type.   *)
(***************************************************************************)
EXTENDS ColumnChange

Plain(base) == [base |-> base, length |-> Unset, precision |-> Unset, scale |-> Unset,
                digits |-> Unset, page |-> "none"]
Text(base, n, page) == [Plain(base) EXCEPT !.length = n, !.page = page]
Decimal(p, s) == [Plain("decimal") EXCEPT !.precision = p, !.scale = s]
Fraction(base, n) == [Plain(base) EXCEPT !.digits = n]

MCTypes ==
    {Text("varchar", 2, "none"), Text("varchar", 4, "none"), Text("varchar", Max, "none"),
     Text("varchar", 4, "greek"), Text("nvarchar", 4, "none"), Text("nvarchar", 4, "greek"),
     Text("varbinary", 2, "none"),
     Text("varbinary", 4, "none"), Plain("tinyint"), Plain("int"), Plain("bigint"),
     Plain("bit"), Decimal(3, 1), Decimal(4, 1), Decimal(4, 2), Plain("date"),
     Plain("datetime"), Fraction("datetime2", 0), Fraction("datetime2", 3),
     Plain("datetime2"), Plain("uniqueidentifier")}

Value(kind, size, detail, parts) ==
    [kind |-> kind, size |-> size, detail |-> detail, parts |-> parts, spells |-> {}]
Says(v) == [Spelling(v) EXCEPT !.spells = {v}]

Small == Value("number", 1, 0, {})
Cents == Value("number", 4, 2, {})
Large == Value("number", 29, 0, {})
Moment(detail) == Value("moment", 2, detail, {"day", "hour"})
Day == Value("moment", 3, 0, {"day"})
MCValues ==
    {Small, Cents, Large, Value("number", 7, 0, {}), Value("number", 9, 1, {}), Day,
     Moment(2), Moment(5), Moment(9), Says(Small), Says(Cents),
     Value("text", 2, 0, {"ascii"}), Value("text", 4, 0, {"ascii", "greek"}),
     Value("text", 4, 0, {"ascii", "latin"}), Value("text", 9, 0, {"cjk"}),
     Value("bytes", 2, 0, {}), Value("bytes", 4, 0, {}), Value("other", 1, 0, {})}

Column(type, null, dflt) == [type |-> type, null |-> null, dflt |-> dflt, ident |-> FALSE]

Makes(o, t, fill, accept) == [observed |-> o, target |-> t, fill |-> fill, accept |-> accept]

(* Every pair of types; and columns that become NOT NULL, with or without a  *)
(* default and a fill value, of the same type or of a neighbouring one.      *)
Retyped == {Makes(Column(o, TRUE, {}), Column(t, TRUE, {}), {}, accept) :
              o \in MCTypes, t \in MCTypes, accept \in BOOLEAN}
Defaults(t) == {{}} \cup {{v} : v \in {u \in {Cents, Moment(5)} : Fits(u, t)}}
Filled == UNION {{Makes(Column(o, TRUE, {}), Column(t, FALSE, dflt), fill, accept) :
                    o \in {u \in MCTypes : Kind(u) = Kind(t)}, dflt \in Defaults(t),
                    fill \in {{}, {Says(Small)}, {Says(Cents)}}, accept \in BOOLEAN} : t \in MCTypes}
Redefined == {Makes(Column(t, TRUE, {}), [Column(t, TRUE, {}) EXCEPT !.ident = TRUE],
                    {}, FALSE) : t \in {Plain("int")}}
MCChanges == {c \in Retyped \cup Filled \cup Redefined : c.observed # c.target}
MCDrifted == {Column(Text("varchar", Max, "none"), TRUE, {})}

MCContents == {<<v, w>> : v \in MCValues \cup {Null}, w \in {Null}}
                \cup {<<v, Small>> : v \in {Cents, Large}}
=============================================================================
