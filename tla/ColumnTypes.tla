----------------------------- MODULE ColumnTypes -----------------------------
(***************************************************************************)
(* SQL Server column types as `sqlserver/ddl_renderer.py' judges a change  *)
(* of one into another, and what the conversion does to a value.           *)
(*                                                                         *)
(* A value is told by what a type must have room for: how much there is of *)
(* it (`size': characters, bytes, magnitude, years), how fine it is        *)
(* (`detail': decimals, fractions of a second) and what it is made of      *)
(* (`parts': the day, hour and zone of a moment, the scripts of a text).   *)
(* A conversion fails when there is too much of it and silently drops      *)
(* detail and parts that do not fit.                                       *)
(***************************************************************************)
EXTENDS Integers

Unset == -2     \* an attribute the comparison did not read
Max == -1       \* (MAX)
Longest == 8000

Strings == {"char", "varchar", "nchar", "nvarchar"}
Unicode == {"nchar", "nvarchar"}
Decimals == {"decimal", "numeric"}
Numbers == Decimals \cup {"bit", "tinyint", "smallint", "int", "bigint",
                          "float", "real", "money", "smallmoney"}
Fractional == {"datetime2", "time", "datetimeoffset"}
Moments == Fractional \cup {"date", "datetime", "smalldatetime"}
Bytes == {"binary", "varbinary"}
Others == {"xml", "uniqueidentifier", "text", "ntext", "image", "sql_variant"}

Families == {Strings, Numbers, Moments, Bytes}
Bases == (UNION Families) \cup Others

(* What a comparison knows of a type: a length, a precision and scale, the   *)
(* digits of a fraction of a second, the code page of an explicit collation. *)
Types == [base : Bases, length : (0..Longest) \cup {Unset, Max}, precision : Nat \cup {Unset},
          scale : Nat \cup {Unset}, digits : Nat \cup {Unset}, page : {"none", "latin", "greek"}]

SafeWidenings ==
    {<<"tinyint", "smallint">>, <<"tinyint", "int">>, <<"tinyint", "bigint">>,
     <<"smallint", "int">>, <<"smallint", "bigint">>, <<"int", "bigint">>,
     <<"smallmoney", "money">>, <<"real", "float">>, <<"smalldatetime", "datetime">>,
     <<"date", "datetime2">>, <<"datetime", "datetime2">>}

ShorterByLength(old, new) ==    \* mutant: MAX is a length like another
    new.length < old.length

Shorter(old, new) ==
    /\ new.length # Max
    /\ \/ old.length = Max \/ new.length = Unset \/ old.length = Unset
       \/ new.length < old.length

Precision(type) == IF type.precision \in {Unset, 0} THEN 18 ELSE type.precision
Scale(type) == IF type.scale = Unset THEN 0 ELSE type.scale
Digits(type) == IF type.digits = Unset THEN 7 ELSE type.digits

LosesInFamily(old, new) ==
    CASE old.base \in Decimals   -> \/ Scale(new) < Scale(old)
                                    \/ Precision(new) - Scale(new) < Precision(old) - Scale(old)
      [] old.base \in Fractional -> Digits(new) < Digits(old)
      [] OTHER                   -> FALSE

LosesByPrecision(old, new) ==   \* mutant: the integer digits are not compared
    CASE old.base \in Strings /\ new.base \in Strings ->
           (old.base \in Unicode /\ new.base \notin Unicode) \/ Shorter(old, new)
      [] old.base = new.base /\ old.base \in Decimals -> Scale(new) < Scale(old)
      [] old.base = new.base /\ old.base \notin Decimals \cup Strings -> LosesInFamily(old, new)
      [] OTHER -> <<old.base, new.base>> \notin SafeWidenings

MayLoseData(old, new) ==
    CASE old.base \in Strings /\ new.base \in Strings ->
           (old.base \in Unicode /\ new.base \notin Unicode) \/ Shorter(old, new)
      [] old.base = new.base /\ old.base \notin Strings -> LosesInFamily(old, new)
      [] OTHER -> <<old.base, new.base>> \notin SafeWidenings

(* The loss query converts between both types.                               *)
LossIsCheckable(old, new) ==
    /\ old.base \notin Others /\ new.base \notin Others
    /\ \/ \E f \in Families : old.base \in f /\ new.base \in f
       \/ old.base \in Strings \/ new.base \in Strings

-----------------------------------------------------------------------------
(* The server: what a type has room for.  Magnitudes are ranked: 10^n - 1    *)
(* is 3 * n, the bounds of the integer and money types fall in between.      *)

Endless == 10000
Scripts == {"ascii", "latin", "greek", "cjk"}

(* A type as the script names it: what is not said, the server says.         *)
TextRoom(type) == CASE type.length = Max   -> Endless
                    [] type.length = Unset -> 1
                    [] OTHER               -> type.length

NumberRoom(type) ==
    CASE type.base \in Decimals    -> 3 * (Precision(type) - Scale(type))
      [] type.base = "bit"         -> 1
      [] type.base = "tinyint"     -> 7      \* 255
      [] type.base = "smallint"    -> 13     \* 32767
      [] type.base = "smallmoney"  -> 16     \* 214748
      [] type.base = "int"         -> 28     \* 2147483647
      [] type.base = "money"       -> 43     \* 922337203685477
      [] type.base = "bigint"      -> 55     \* 9223372036854775807
      [] OTHER                     -> Endless

NumberDetail(type) ==
    CASE type.base \in Decimals              -> Scale(type)
      [] type.base \in {"money", "smallmoney"} -> 4
      [] type.base = "real"                  -> 7
      [] type.base = "float"                 -> 15
      [] OTHER                               -> 0

(* Years: of smalldatetime, of datetime, from the year 1.  Detail: a minute, *)
(* a second, the digits of its fraction; datetime counts milliseconds.       *)
MomentRoom(type) == CASE type.base = "smalldatetime" -> 1
                      [] type.base = "datetime"      -> 2
                      [] OTHER                       -> 3
MomentDetail(type) == CASE type.base = "date"          -> 0
                        [] type.base = "smalldatetime" -> 1
                        [] type.base = "datetime"      -> 5
                        [] OTHER                       -> 2 + Digits(type)
MomentParts(type) == CASE type.base = "date"           -> {"day"}
                       [] type.base = "time"           -> {"hour"}
                       [] type.base = "datetimeoffset" -> {"day", "hour", "zone"}
                       [] OTHER                        -> {"day", "hour"}

(* The scripts a text may hold; no page is the database's, Latin here.       *)
Letters(type) == CASE type.base \in Unicode -> Scripts
                   [] type.base \notin Unicode /\ type.page = "greek" -> {"ascii", "greek"}
                   [] OTHER -> {"ascii", "latin"}

Room(type) ==
    CASE type.base \in Strings -> [size |-> TextRoom(type), detail |-> 0, parts |-> Letters(type)]
      [] type.base \in Numbers -> [size |-> NumberRoom(type), detail |-> NumberDetail(type),
                                   parts |-> {}]
      [] type.base \in Moments -> [size |-> MomentRoom(type), detail |-> MomentDetail(type),
                                   parts |-> MomentParts(type)]
      [] type.base \in Bytes   -> [size |-> TextRoom(type), detail |-> 0, parts |-> {}]
      [] OTHER                 -> [size |-> Endless, detail |-> 0, parts |-> {}]

-----------------------------------------------------------------------------
(* Values and conversions.  A text may spell a value of another kind.        *)

Kind(type) == CASE type.base \in Strings -> "text"
                [] type.base \in Numbers -> "number"
                [] type.base \in Moments -> "moment"
                [] type.base \in Bytes   -> "bytes"
                [] OTHER                 -> "other"

Spelling(value) ==
    [kind |-> "text", size |-> value.size \div 3 + 1 + value.detail, detail |-> 0,
     parts |-> {"ascii"}, spells |-> {value}]

IsMeasured(value) ==
    /\ value = [kind |-> value.kind, size |-> value.size, detail |-> value.detail,
                parts |-> value.parts, spells |-> value.spells]
    /\ value.size \in Nat /\ value.detail \in Nat

IsValue(value) ==
    IsMeasured(value) /\ (value.kind = "text" => \A v \in value.spells : IsMeasured(v))

Fits(value, type) ==
    /\ value.kind = Kind(type)
    /\ value.size <= Room(type).size
    /\ value.detail <= Room(type).detail
    /\ value.parts \subseteq Room(type).parts

Least(m, n) == IF m <= n THEN m ELSE n

(* Detail and parts that do not fit are dropped; so is size where Cuts.      *)
Squeezed(value, type) ==
    [kind   |-> value.kind,
     size   |-> Least(value.size, Room(type).size),
     detail |-> Least(value.detail, Room(type).detail),
     parts  |-> value.parts \cap Room(type).parts,
     spells |-> value.spells]

(* CONVERT cuts texts and bytes; storing them, and ALTER COLUMN, do not.     *)
Cuts(type, storing) == type.base = "bit" \/ (~storing /\ type.base \in Strings \cup Bytes)

(* What a value becomes: {} when the conversion fails.                       *)
Into(value, type, storing) ==
    IF value.size <= Room(type).size \/ Cuts(type, storing)
    THEN {Squeezed(value, type)} ELSE {}

AsBytes(value) == [kind |-> "bytes", size |-> value.size, detail |-> value.detail,
                   parts |-> {}, spells |-> {}]

(* A text converts into bytes only when the statement says CONVERT.          *)
Converted(value, type, storing) ==
    CASE value.kind = Kind(type) -> Into(value, type, storing)
      [] value.kind # "text" /\ Kind(type) = "text" ->
            {w \in {Spelling(value)} : w.size <= Room(type).size}
      [] value.kind = "text" /\ Kind(type) = "bytes" ->
            IF storing THEN {} ELSE Into(AsBytes(value), type, storing)
      [] value.kind = "text" /\ Kind(type) \notin {"text", "bytes"} ->
            UNION {Into(v, type, storing) : v \in {u \in value.spells : u.kind = Kind(type)}}
      [] OTHER -> {}

TryConvert(value, type) == Converted(value, type, FALSE)
Stored(value, type) == Converted(value, type, TRUE)

(* `_type_sql' names no collation: a literal takes the database's, and the   *)
(* loss query leaves the text of a column in the code page it has.           *)
Named(type) == [type EXCEPT !.page = "none"]
Queried(old, new) == IF Kind(old) = "text" THEN [new EXCEPT !.page = old.page] ELSE Named(new)

LostIfUnconvertible(value, old, new) ==     \* mutant: not converted back
    TryConvert(value, Queried(old, new)) = {}

(* The condition of the loss query.                                          *)
Lost(value, old, new) ==
    \/ TryConvert(value, Queried(old, new)) = {}
    \/ /\ Kind(old) # "text" \/ Kind(new) = "text"
       /\ \A w \in TryConvert(value, Queried(old, new)) : TryConvert(w, old) # {value}

(* What a conversion ought to keep: the value, or its spelling.              *)
Survives(value, w) ==
    \/ w = value
    \/ value.kind # "text" /\ w.kind = "text" /\ w.spells = {value}
    \/ value.kind = "text" /\ w.kind # "text" /\ value.spells = {w}
=============================================================================
