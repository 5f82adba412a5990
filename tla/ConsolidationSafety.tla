------------------------- MODULE ConsolidationSafety -------------------------
(***************************************************************************)
(* What the user is promised between the boxes ticked and the files left   *)
(* in scripts-db.                                                          *)
(***************************************************************************)
EXTENDS Consolidation

Written(kind) == {f \in DOMAIN files : files[f].kind = kind}

(* A script drops nothing but what a dialog listed for its profile, and the  *)
(* user confirmed: what is handled while the dialog is up, or decided after  *)
(* a generation failed, does not get into it (`generate' in                  *)
(* `action_generate_sql' writes the resolutions the dialog was made of).     *)
DropsWereConfirmed ==
    \A f \in Written("forward") : \A step \in files[f].steps :
        step.action \in {"drop table", "drop column"} =>
            \E item \in confirmed : /\ item.action = step.action
                                    /\ item.name = <<Key[step.table], step.column>>
                                    /\ files[f].profile \in item.profiles

(* A folder with a report has, for every profile in it, a forward script and *)
(* the undo of that same script, under the names it gives, and lists what    *)
(* they do: a generation that failed has no report, and one that is tried    *)
(* again in the same second replaces what the failed one left.  Except that  *)
(* the script of a profile may be named as the undo script of another.       *)
UndoNameClash(sections) ==
    \E p, q \in DOMAIN sections :
        Folded(ForwardName(sections[p].stem)) = Folded(UndoName(sections[q].stem))

Lists(section, steps) ==
    LET of(actions) == {s \in steps : s.action \in actions}
    IN /\ section.created = {<<s.table, s.to>> : s \in of({"create table"})}
       /\ section.dropped = {s.table : s \in of({"drop table"})}
       /\ section.changed = {<<s.table, s.column, s.to>> :
                               s \in of({"add column", "modify column"})}
       /\ section.columnsDropped = {<<s.table, s.column>> : s \in of({"drop column"})}

Complete(second, p, section) ==
    LET forward == <<second, Folded(ForwardName(section.stem))>>
        undo == <<second, Folded(UndoName(section.stem))>>
    IN /\ {forward, undo} \subseteq DOMAIN files
       /\ files[forward].kind = "forward" /\ files[undo].kind = "undo"
       /\ files[forward].profile = p /\ files[undo].profile = p
       /\ files[forward].steps = files[undo].steps
       /\ files[forward].steps # {}
       /\ Lists(section, files[forward].steps)

ReportedIsComplete ==
    \A f \in Written("report") :
        LET sections == files[f].sections
        IN ~UndoNameClash(sections) =>
             \A p \in DOMAIN sections : Complete(f[1], p, sections[p])

-----------------------------------------------------------------------------
(* Two tables whose "schema.table" is the same get one card.                 *)
OneKeyEach == \A c \in Cards : \A e \in Entries(compared) :
                Key[c.table] = Key[e.table] => c.table = e.table

TableAt(p, n) == IF n \in DOMAIN compared[p] THEN {compared[p][n].columns} ELSE {}

ColumnAt(p, n, column) ==
    {columns[column] : columns \in {t \in TableAt(p, n) : column \in DOMAIN t}}

(* Every step of a script is about the database of its profile as it was     *)
(* compared: it makes what is missing there, and changes or drops what is    *)
(* there, as it is there, into something else.  So rendered scripts have the *)
(* decisions MigrationScript starts from.                                    *)
Fits(p, s) ==
    CASE s.action = "create table"  -> TableAt(p, s.table) = {} /\ s.to # {}
      [] s.action = "drop table"    -> TableAt(p, s.table) # {} /\ s.observed = TableAt(p, s.table)
      [] s.action = "add column"    -> /\ TableAt(p, s.table) # {} /\ s.to # {}
                                       /\ ColumnAt(p, s.table, s.column) = {}
      [] s.action = "drop column"   -> /\ ColumnAt(p, s.table, s.column) # {}
                                       /\ s.observed = ColumnAt(p, s.table, s.column)
      [] s.action = "modify column" -> /\ ColumnAt(p, s.table, s.column) # {}
                                       /\ s.observed = ColumnAt(p, s.table, s.column)
                                       /\ s.to # s.observed

StepsFitTheComparison ==
    OneKeyEach =>
        \A f \in Written("forward") : \A s \in files[f].steps : Fits(files[f].profile, s)

-----------------------------------------------------------------------------
(* What the scripts of the last generation, once executed, make of the       *)
(* tables compared: their columns by name.                                   *)

Reports == {f \in Written("report") : f[1] = last.second}

LastSteps(p) ==
    UNION {files[<<last.second, Folded(ForwardName(files[f].sections[p].stem))>>].steps :
             f \in {f \in Reports : p \in DOMAIN files[f].sections}}

Of(p, n, action) == {s \in LastSteps(p) : s.table = n /\ s.action = action}

ColumnsAfter(p, n) ==
    LET columns == Only(TableAt(p, n))
        dropped == {s.column : s \in Of(p, n, "drop column")}
        set == Of(p, n, "add column") \cup Of(p, n, "modify column")
    IN [c \in (DOMAIN columns \ dropped) \cup {s.column : s \in set} |->
          IF \E s \in set : s.column = c THEN Only((CHOOSE s \in set : s.column = c).to)
                                         ELSE columns[c]]

After(p, n) ==
    CASE Of(p, n, "create table") # {} -> Only(Of(p, n, "create table")).to
      [] Of(p, n, "drop table") # {}   -> {}
      [] OTHER -> {ColumnsAfter(p, n) : t \in TableAt(p, n)}

ColumnThen(p, n, column) ==
    {columns[column] : columns \in {t \in After(p, n) : column \in DOMAIN t}}

(* Nothing was on its way when `g' was pressed, and no two decisions are     *)
(* about one table, or column, of one profile.                               *)
Settled == last.asked.shown = last.asked.decisions

Contradictory ==
    \E c, d \in Cards :
        /\ c # d /\ c.table = d.table
        /\ c.column = d.column \/ "table" \in {c.kind, d.kind}
        /\ last.asked.shown[c].dests \cap last.asked.shown[d].dests # {}

Judged == outcome = "generated" /\ Settled /\ ~Contradictory /\ OneKeyEach
            /\ \A f \in Reports : ~UndoNameClash(files[f].sections)

AllTicked(card) ==
    last.asked.shown[card].dests = DestinationChoices(card, last.asked.shown[card].target)

Gone(card) ==
    LET target == last.asked.shown[card].target
        present == PresentProfiles(card)
        everywhere == DOMAIN compared
        now(p) == ColumnThen(p, card.table, card.column)
    IN CASE target = Nothing -> TRUE
         [] target = Drop /\ card.kind = "table" ->
              \A p \in everywhere : After(p, card.table) = {}
         [] target = Drop /\ card.kind # "table" -> \A p \in present : now(p) = {}
         [] target.do = "make" /\ card.kind = "table" ->
              \A p \in everywhere : After(p, card.table) # {}
         [] target.do = "make" /\ card.kind = "column" ->
              \A p \in everywhere \ present : TableAt(p, card.table) # {} => now(p) = target.as
         [] OTHER -> \A p \in present : now(p) \subseteq target.as

(* Once the scripts generated are executed, a finding for which all boxes of *)
(* a decision were ticked is gone: what was missing is there in every        *)
(* profile that lacked it, what differed is as chosen, what was to be dropped*)
(* is nowhere.  A column is added to the tables compared: one the same       *)
(* generation makes has the columns of the profile it is taken from.         *)
DecidedFindingsGo == Judged => \A card \in Cards : AllTicked(card) => Gone(card)

(* And a profile's table, or column, is as it was unless its box was ticked  *)
(* on a card about it, whatever is decided for the other profiles.           *)
OnlyTickedChange ==
    Judged =>
        \A p \in DOMAIN compared : \A c \in Cards :
            LET ticked == {d \in Cards : d.table = c.table /\ p \in last.asked.shown[d].dests}
            IN /\ ticked = {} => After(p, c.table) = TableAt(p, c.table)
               /\ (\A d \in ticked : d.kind # "table" /\ d.column # c.column) =>
                     ColumnThen(p, c.table, c.column) = ColumnAt(p, c.table, c.column)

-----------------------------------------------------------------------------
(* "A column fix asks for a fill value when it ends NOT NULL without a       *)
(* default" (decision_model.py:162): no script fills rows with a value typed *)
(* for another definition, which the screen no longer shows.                 *)
NoHiddenFill ==
    \A f \in Written("forward") : \A s \in files[f].steps :
        s.fill # {} => \A attrs \in s.to : ~attrs.null /\ attrs.dflt = {}
=============================================================================
