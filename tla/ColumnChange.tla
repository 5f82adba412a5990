----------------------------- MODULE ColumnChange -----------------------------
(***************************************************************************)
(* The data of one column while the step of a consolidation script that    *)
(* modifies it runs (`_modify_column_step'): what is checked beforehand,   *)
(* what fills the NULLs, what ALTER COLUMN makes of each value.  The step  *)
(* among the others of its script, indexes and other sessions are in       *)
(* MigrationScript, where a type is only a width.                          *)
(***************************************************************************)
EXTENDS ColumnTypes

CONSTANTS
    Changes,    \* the resolutions of a column a script may be rendered from
    Drifted,    \* columns that are not as they were compared
    Contents    \* what the rows may hold

VARIABLES
    change,     \* the ColumnResolution: observed, target, fill (or {}), accept
    column,     \* the column as it is
    rows,       \* its values, by row
    stage,      \* how far the script is
    start       \* history: the column and the rows it was started on

vars == <<change, column, rows, stage, start>>

Null == [kind |-> "null"]

Stages == {"check", "fill", "alter", "done", "aborted"}

(* ColumnAttributes: `dflt' holds the value of the default, or is {}.        *)
Definition(d) == /\ d.type \in Types /\ d.null \in BOOLEAN /\ d.ident \in BOOLEAN
                 /\ \A v \in d.dflt : IsValue(v) /\ Fits(v, d.type)

(* A fill value is what the user typed, a text.                              *)
ColumnAssumption ==
    /\ \A c \in Changes :
         /\ Definition(c.observed) /\ Definition(c.target)
         /\ c.observed # c.target
         /\ c.accept \in BOOLEAN
         /\ \A v \in c.fill : IsValue(v) /\ v.kind = "text"
    /\ \A d \in Drifted : Definition(d)
    /\ \A values \in Contents : \A r \in DOMAIN values : values[r] # Null => IsValue(values[r])
ASSUME ColumnAssumption

Holds(d, values) ==
    \A r \in DOMAIN values :
        IF values[r] = Null THEN d.null ELSE Fits(values[r], d.type)

TypeOK ==
    /\ change \in Changes
    /\ stage \in Stages
    /\ column \in {change.observed, change.target} \cup Drifted
    /\ DOMAIN rows = DOMAIN start.rows
    /\ Holds(column, rows)      \* the server stores nothing else

-----------------------------------------------------------------------------
(* What is decided when the script is rendered.                              *)

observed == change.observed
target == change.target

AlteringType(d) == d.type       \* mutant: nullability is not compared
Altering(d) == <<d.type, d.null>>
Alters == Altering(observed) # Altering(target)
FillsNulls == Alters /\ ~target.null /\ observed.null

FillOfDefault ==                \* mutant: the default goes before the fill value
    IF target.dflt # {} THEN target.dflt
    ELSE UNION {TryConvert(v, Named(target.type)) : v \in change.fill}

(* `_fill_expression': {} if nothing fills, or it does not convert.          *)
Fill == IF change.fill # {} THEN UNION {TryConvert(v, Named(target.type)) : v \in change.fill}
                            ELSE target.dflt

FillsNothing == change.fill = {} /\ target.dflt = {}

(* `_fill_value_check': a text must not change on the way.                   *)
FillIsInvalid ==
    /\ change.fill # {}
    /\ \/ Fill = {}
       \/ Kind(target.type) = "text" /\ Fill # change.fill

ChecksLoss == /\ Alters
              /\ MayLoseData(observed.type, target.type)
              /\ LossIsCheckable(observed.type, target.type)

HasNulls == \E r \in DOMAIN rows : rows[r] = Null
LostRows == {r \in DOMAIN rows : rows[r] # Null /\ Lost(rows[r], observed.type, target.type)}

-----------------------------------------------------------------------------
Init ==
    /\ change \in Changes
    /\ column \in {change.observed, change.target} \cup Drifted
    /\ rows \in Contents /\ Holds(column, rows)
    /\ stage = "check"
    /\ start = [column |-> column, rows |-> rows]

Abort ==
    /\ stage' = "aborted"
    /\ column' = start.column /\ rows' = start.rows
    /\ UNCHANGED <<change, start>>

(* Phase 1.                                                                  *)
Skip == /\ stage = "check" /\ column = target
        /\ stage' = "done"
        /\ UNCHANGED <<change, column, rows, start>>

RefusedOnlyIfDrifted ==         \* mutant: the data are not checked
    column # observed \/ observed.ident # target.ident

Refused ==
    \/ column # observed
    \/ observed.ident # target.ident
    \/ FillsNulls /\ FillsNothing /\ HasNulls
    \/ FillsNulls /\ FillIsInvalid
    \/ ChecksLoss /\ ~change.accept /\ LostRows # {}

Refuse == stage = "check" /\ column # target /\ Refused /\ Abort

Pass == /\ stage = "check" /\ column # target /\ ~Refused
        /\ stage' = "fill"
        /\ UNCHANGED <<change, column, rows, start>>

(* Phase 2: UPDATE, which stores the fill value in the column as it was.     *)
FillStored == UNION {Stored(v, observed.type) : v \in Fill}

FillRows ==
    /\ stage = "fill"
    /\ FillsNulls /\ HasNulls => FillStored # {}
    /\ rows' = [r \in DOMAIN rows |->
                  IF FillsNulls /\ rows[r] = Null THEN CHOOSE v \in FillStored : TRUE
                                                  ELSE rows[r]]
    /\ stage' = "alter"
    /\ UNCHANGED <<change, column, start>>

FillFails == stage = "fill" /\ FillsNulls /\ HasNulls /\ FillStored = {} /\ Abort

(* ALTER COLUMN, which converts every value or fails.                        *)
Unconvertible ==
    Alters /\ \E r \in DOMAIN rows :
                 IF rows[r] = Null THEN ~target.null ELSE Stored(rows[r], target.type) = {}

AlterColumn ==
    /\ stage = "alter" /\ ~Unconvertible
    /\ rows' = [r \in DOMAIN rows |->
                  IF rows[r] # Null /\ Alters THEN CHOOSE w \in Stored(rows[r], target.type) : TRUE
                                              ELSE rows[r]]
    /\ column' = target
    /\ stage' = "done"
    /\ UNCHANGED <<change, start>>

AlterFails == stage = "alter" /\ Unconvertible /\ Abort

Next == Skip \/ Refuse \/ Pass \/ FillRows \/ FillFails \/ AlterColumn \/ AlterFails

Spec == Init /\ [][Next]_vars

-----------------------------------------------------------------------------
(* The properties.                                                           *)

(* What the script leaves of a value that was there.                         *)
Whole(r) == start.rows[r] # Null => Survives(start.rows[r], rows[r])

(* Losses the checks cannot see.  A datetime counts as safe in a datetime2   *)
(* of any precision; a text is converted to the code page it has, and stored *)
(* in the target's; one that becomes something else is only asked to convert. *)
RoundsMilliseconds == /\ observed.type.base = "datetime" /\ target.type.base = "datetime2"
                      /\ Digits(target.type) < 3
ChangesPage == /\ Kind(observed.type) = "text" /\ Kind(target.type) = "text"
               /\ (Letters(observed.type) \cap Letters(Queried(observed.type, target.type)))
                    \ Letters(target.type) # {}
ReadsText == Kind(observed.type) = "text" /\ Kind(target.type) # "text"
LossGoesUnseen == RoundsMilliseconds \/ ChangesPage \/ ReadsText

(* A script that is through has cut, rounded or replaced no value unless the *)
(* user accepted it, for every pair of types whose losses the checks see     *)
(* (`column_change_may_lose_data', `_lost_rows_query').                      *)
OnlyAcceptedLoss ==
    stage = "done" /\ ~change.accept /\ ~LossGoesUnseen => \A r \in DOMAIN rows : Whole(r)


(* A row that had no value has one only if the column became NOT NULL, and   *)
(* then the one the user gave, converted to the target type by name (the     *)
(* literal takes the database's code page), or else the default; the first   *)
(* UPDATE already squeezes it into the observed type, and what does not pass *)
(* there unchanged is left out.                                              *)
FillPassesUnchanged == \A v \in Fill : Fits(v, observed.type) /\ Fits(v, target.type)

NothingInvented ==
    stage = "done" =>
        \A r \in DOMAIN rows :
            start.rows[r] = Null /\ rows[r] # Null =>
                /\ observed.null /\ ~target.null
                /\ FillPassesUnchanged =>
                      IF change.fill = {} THEN rows[r] \in target.dflt
                      ELSE \E v \in change.fill :
                             rows[r] \in {Squeezed(w, Named(target.type)) :
                                            w \in {v, AsBytes(v)} \cup v.spells}

(* A script that passes its checks goes through: unless the user accepted    *)
(* losses, no value stops ALTER COLUMN once the rows were filled.  The code  *)
(* leaves to the server the types the loss query does not convert, binaries, *)
(* whose lengths it does not compare, and the texts turned into binaries,    *)
(* which CONVERT accepts and ALTER COLUMN refuses.                           *)
LeftToServer ==
    \/ MayLoseData(observed.type, target.type) /\ ~LossIsCheckable(observed.type, target.type)
    \/ Kind(observed.type) \in {"bytes", "text"} /\ Kind(target.type) = "bytes"
    \/ FillsNulls /\ ~FillPassesUnchanged

ChecksForesee == stage = "alter" /\ ~change.accept /\ ~LeftToServer => ~Unconvertible
=============================================================================
