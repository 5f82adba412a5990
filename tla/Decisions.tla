------------------------------ MODULE Decisions ------------------------------
(***************************************************************************)
(* What a user may decide about the findings of a comparison, and the      *)
(* resolutions that scripts are rendered from (`tui/decision_model.py').   *)
(* The tables compared are in their canonical names (SchemaCompare).       *)
(***************************************************************************)
EXTENDS SchemaCompare

CONSTANTS
    Key,        \* "schema.table" of a qualified name
    Losing      \* pairs of types `column_change_may_lose_data' is true of

Only(S) == CHOOSE x \in S : TRUE        \* the element of a singleton

-----------------------------------------------------------------------------
(* The findings, as DiffEntries carry them: `present' has the columns of a   *)
(* table, or the attributes of a column, by profile.                         *)

PresentColumns(tables, n) ==
    [p \in Having(tables, DOMAIN tables, n) |-> tables[p][n].columns]

PresentAttributes(tables, n, column) ==
    LET columns == ColumnsAt(tables, n)
    IN [p \in Having(columns, DOMAIN columns, column) |-> columns[p][column]]

Entries(tables) ==
    {[kind |-> "table", table |-> m.object, column |-> "",
      missing |-> {m.missing_from_profile}, present |-> PresentColumns(tables, m.object)] :
        m \in MissingObjects(tables)}
    \cup
    {[kind |-> "column", table |-> m.table, column |-> m.finding.object,
      missing |-> {m.finding.missing_from_profile},
      present |-> PresentAttributes(tables, m.table, m.finding.object)] :
        m \in MissingColumns(tables)}
    \cup
    {[kind |-> "mismatch", table |-> m.table, column |-> m.finding.object,
      missing |-> {}, present |-> m.finding.values_by_profile] :
        m \in ColumnMismatches(tables)}

-----------------------------------------------------------------------------
(* Cards: the missing tables and columns of several profiles are one.        *)

Siblings(entries, e) ==
    {f \in entries : /\ f.kind = e.kind /\ Key[f.table] = Key[e.table]
                     /\ f.column = e.column}

CardOfFirst(entries, e) ==      \* mutant: a card per table, of its first finding
    IF e.kind = "mismatch" THEN e ELSE Only(Siblings(entries, e))

CardOf(entries, e) ==
    IF e.kind = "mismatch" THEN e
    ELSE [Only(Siblings(entries, e)) EXCEPT
            !.missing = UNION {f.missing : f \in Siblings(entries, e)}]

GroupFindings(entries) == {CardOf(entries, e) : e \in entries}

-----------------------------------------------------------------------------
(* What may be decided about a card, and where it applies.                   *)

Nothing == [do |-> "nothing", as |-> {}]
Drop == [do |-> "drop", as |-> {}]
Make(x) == [do |-> "make", as |-> {x}]

PresentProfiles(card) == DOMAIN card.present

(* The radio buttons: a profile to take the table from, or a definition.     *)
Targets(card) ==
    {Nothing, Drop} \cup
    {Make(x) : x \in IF card.kind = "table" THEN PresentProfiles(card) ELSE Range(card.present)}

DestinationsHavingAny(card, target) ==      \* mutant: a drop where it is missing
    IF card.kind = "mismatch"
    THEN {p \in PresentProfiles(card) : card.present[p] \notin target.as}
    ELSE card.missing

DestinationChoices(card, target) ==
    CASE target = Drop            -> PresentProfiles(card)
      [] target # Drop /\ card.kind = "mismatch" ->
            {p \in PresentProfiles(card) : card.present[p] \notin target.as}
      [] OTHER                    -> card.missing

DefaultDestinations(card, target) ==
    IF target = Nothing THEN {} ELSE DestinationChoices(card, target)

NoOptions == [fill |-> {}, accept |-> FALSE]

NeedsFillValue(card, target) ==
    /\ card.kind # "table" /\ target.do = "make"
    /\ \A attrs \in target.as : ~attrs.null /\ attrs.dflt = {}

MayLose(card, target, dests) ==
    /\ card.kind = "mismatch" /\ target.do = "make"
    /\ \E p \in PresentProfiles(card) \cap dests :
          <<card.present[p].type, Only(target.as).type>> \in Losing

Decided(decision) == decision.target # Nothing /\ decision.dests # {}

-----------------------------------------------------------------------------
(* `build_resolutions'.                                                      *)

Allowed(card, decision) == decision.dests \cap DestinationChoices(card, decision.target)

Observed(card, dests) == [p \in PresentProfiles(card) \cap dests |-> card.present[p]]

(* A table is made of the columns of the profile chosen, if it has any.      *)
Definition(card, target) ==
    IF card.kind = "table" THEN {card.present[p] : p \in target.as \cap PresentProfiles(card)}
                           ELSE target.as
NoColumns(columns) == DOMAIN columns = {}

Action(card, target) ==
    CASE target = Drop /\ card.kind = "table"  -> "drop table"
      [] target = Drop /\ card.kind # "table"  -> "drop column"
      [] target # Drop /\ card.kind = "table"  -> "create table"
      [] target # Drop /\ card.kind = "column" -> "add column"
      [] OTHER                                 -> "modify column"

Resolution(card, decision, option) ==
    LET action == Action(card, decision.target)
        dests == Allowed(card, decision)
        fixes == action \in {"add column", "modify column"}
    IN [action |-> action, table |-> card.table, column |-> card.column,
        to |-> Definition(card, decision.target), dests |-> dests,
        observed |-> IF action \in {"create table", "add column"} THEN <<>>
                                                                  ELSE Observed(card, dests),
        fill |-> IF fixes THEN option.fill ELSE {},
        accept |-> fixes /\ option.accept]

Resolves(card, decision) ==
    /\ Decided(decision) /\ Allowed(card, decision) # {}
    /\ card.kind = "table" /\ decision.target.do = "make" =>
          \E columns \in Definition(card, decision.target) : ~NoColumns(columns)

BuildResolutions(decisions, options) ==
    {Resolution(card, decisions[card], options[card]) :
        card \in {c \in DOMAIN decisions : Resolves(c, decisions[c])}}

Drops(resolutions) == {r \in resolutions : r.action \in {"drop table", "drop column"}}

(* `drops_in': what the dialog lists.                                        *)
DropsIn(resolutions) ==
    {[action |-> r.action, name |-> <<Key[r.table], r.column>>, profiles |-> r.dests] :
        r \in Drops(resolutions)}

Step(p, r) ==
    [action |-> r.action, table |-> r.table, column |-> r.column, to |-> r.to,
     observed |-> {r.observed[q] : q \in {p} \cap DOMAIN r.observed},
     fill |-> r.fill, accept |-> r.accept]

StepsOfAll(p, resolutions) == {Step(p, r) : r \in resolutions}     \* mutant: not only its own

(* The steps of the script of a profile (`_forward_ops').                    *)
StepsOf(p, resolutions) == {Step(p, r) : r \in {r \in resolutions : p \in r.dests}}

Affected(resolutions) == UNION {r.dests : r \in resolutions}
=============================================================================
