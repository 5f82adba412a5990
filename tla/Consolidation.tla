---------------------------- MODULE Consolidation ----------------------------
(***************************************************************************)
(* The decision screen (`tui/decision_screen.py') from the findings it is  *)
(* opened on to the files `write_sql_scripts' leaves in scripts-db.        *)
(*                                                                         *)
(* A radio button or a box changes when it is pressed; the message that    *)
(* makes the screen take note of it is handled later, so that what is      *)
(* shown may be ahead of what is decided.                                  *)
(***************************************************************************)
EXTENDS Decisions, ScriptFiles

CONSTANTS
    Comparisons,    \* the tables a screen may be opened on: profile -> tables
    Nameless,       \* profiles whose connection string names no database
    Spelling,       \* profile -> its name, in pieces
    FillValues,     \* what the user may type as fill value
    MaxEdits, MaxFailures, MaxClock     \* bounds

VARIABLES
    compared,   \* the tables the findings are of
    decisions,  \* decisions: card -> target and destinations
    shown,      \* the radio button pressed and the boxes ticked, by card
    options,    \* column_options, by card
    form,       \* the key of the table whose cards are on display, or {}
    dialog,     \* the ConfirmModal over the screen, if any
    outcome,    \* of the screen: "open", "left" or "generated"
    files,      \* scripts-db: <<second, name ignoring case>> -> content
    clock,      \* the second it is
    last,       \* history: the generation that ended the screen
    confirmed,  \* history: the drops the user confirmed
    used        \* how much of each bound was used

ASSUME ConsolidationAssumption ==
    /\ MaxEdits \in Nat /\ MaxFailures \in Nat /\ MaxClock \in Nat
    /\ \A tables \in Comparisons : DOMAIN tables \subseteq Profiles
    (* A table is made of the rows of its columns (`build_snapshot').            *)
    /\ \A tables \in Comparisons : \A p \in DOMAIN tables : \A n \in DOMAIN tables[p] :
         LET columns == tables[p][n].columns
         IN /\ columns = [c \in DOMAIN columns |-> columns[c]]
            /\ Provider[p] = "sqlserver" => DOMAIN columns # {}
    /\ \A p \in Profiles : Spelling[p] \in Seq(DOMAIN FoldPiece)
    (* Folding keeps apart extensions, and numbers.                          *)
    /\ FoldPiece["md"] # FoldPiece["sql"]
    /\ \A j, k \in 1 .. Len(ProfileOrder) :
         FoldPiece[ToString(j)] = FoldPiece[ToString(k)] => j = k

screen == <<decisions, shown, options, form>>
history == <<last, confirmed>>
vars == <<compared, screen, dialog, outcome, files, clock, history, used>>

Cards == DOMAIN decisions
Undecided == [target |-> Nothing, dests |-> {}]
NotAsked == [shown |-> <<>>, decisions |-> <<>>]    \* when `g' was pressed
NoDialog == [kind |-> "none", resolutions |-> {}, asked |-> NotAsked]
Open == outcome = "open" /\ dialog = NoDialog

-----------------------------------------------------------------------------
(* The form.                                                                 *)

OnForm(card) == Key[card.table] \in form

IsDecision(card, d) ==
    /\ d.target \in Targets(card)
    /\ d.dests \subseteq Profiles

TypeOK ==
    /\ compared \in Comparisons
    /\ Cards = GroupFindings(Entries(compared))
    /\ DOMAIN shown = Cards /\ DOMAIN options = Cards
    /\ \A c \in Cards : /\ IsDecision(c, decisions[c]) /\ IsDecision(c, shown[c])
                        /\ options[c].fill \subseteq FillValues
                        /\ options[c].accept \in BOOLEAN
                        (* every box ticked is one the list offers *)
                        /\ shown[c].dests \subseteq DestinationChoices(c, decisions[c].target)
    /\ form \subseteq {Key[c.table] : c \in Cards} /\ Cardinality(form) <= 1
    /\ dialog.kind \in {"none", "discard", "drop"}
    /\ outcome \in {"open", "left", "generated"}
    /\ clock \in 0..MaxClock
    /\ used.edits \in 0..MaxEdits /\ used.failures \in 0..MaxFailures

Init ==
    /\ compared \in Comparisons
    /\ decisions = [c \in GroupFindings(Entries(compared)) |-> Undecided]
    /\ shown = decisions
    /\ options = [c \in Cards |-> NoOptions]
    /\ form = {}
    /\ dialog = NoDialog
    /\ outcome = "open"
    /\ files = <<>>
    /\ clock = 0
    /\ last = [asked |-> NotAsked, second |-> 0] /\ confirmed = {}
    /\ used = [edits |-> 0, failures |-> 0]

Edit == /\ Open
        /\ used.edits < MaxEdits
        /\ used' = [used EXCEPT !.edits = @ + 1]
        /\ UNCHANGED <<compared, dialog, outcome, files, clock, history>>

(* The cards of a table, drawn from what is decided.                         *)
ShowForm ==
    /\ Open
    /\ \E card \in Cards : Key[card.table] \notin form /\ form' = {Key[card.table]}
    /\ shown' = decisions
    /\ UNCHANGED <<compared, decisions, options, dialog, outcome, files, clock, history, used>>

Press(card, target) ==
    /\ Edit /\ OnForm(card)
    /\ shown[card].target = decisions[card].target      \* the former press was handled
    /\ target # shown[card].target
    /\ shown' = [shown EXCEPT ![card].target = target]
    /\ UNCHANGED <<decisions, options, form>>

(* The list holds the choices of the target last handled.                    *)
Tick(card, p) ==
    /\ Edit /\ OnForm(card)
    /\ decisions[card].target # Nothing
    /\ p \in DestinationChoices(card, decisions[card].target)
    /\ shown' = [shown EXCEPT ![card].dests =
                   IF p \in @ THEN @ \ {p} ELSE @ \cup {p}]
    /\ UNCHANGED <<decisions, options, form>>

RetickKept(card) ==             \* mutant: the list keeps the ticks of the former target
    [target |-> shown[card].target, dests |-> shown[card].dests]

(* The default ticks of a target.                                            *)
Reticked(card) ==
    [target |-> shown[card].target,
     dests |-> DefaultDestinations(card, shown[card].target)]

(* `handle_radio_change'.                                                    *)
HandleRadio(card) ==
    /\ outcome = "open" /\ shown[card].target # decisions[card].target
    /\ decisions' = [decisions EXCEPT ![card] = Reticked(card)]
    /\ shown' = [shown EXCEPT ![card] = Reticked(card)]
    /\ UNCHANGED <<compared, options, form, dialog, outcome, files, clock, history, used>>

(* `handle_selection_change', which reads the list when it runs.             *)
HandleTicks(card) ==
    /\ outcome = "open" /\ shown[card].dests # decisions[card].dests
    /\ decisions' = [decisions EXCEPT ![card].dests = shown[card].dests]
    /\ UNCHANGED <<compared, shown, options, form, dialog, outcome, files, clock, history, used>>

(* The input and the checkbox are there only for targets that ask for them;  *)
(* what they hold stays when another target is chosen.                       *)
TypeFill(card, fill) ==
    /\ Edit /\ OnForm(card)
    /\ NeedsFillValue(card, decisions[card].target)
    /\ fill # options[card].fill
    /\ options' = [options EXCEPT ![card].fill = fill]
    /\ UNCHANGED <<decisions, shown, form>>

ToggleAccept(card) ==
    /\ Edit /\ OnForm(card)
    /\ MayLose(card, decisions[card].target, decisions[card].dests)
    /\ options' = [options EXCEPT ![card].accept = ~@]
    /\ UNCHANGED <<decisions, shown, form>>

-----------------------------------------------------------------------------
(* Writing: `write_sql_scripts'.                                             *)

Unsupported == {p \in DOMAIN compared : Provider[p] # "sqlserver"}

SortedProfiles(resolutions) ==
    LET sorted[n \in 0 .. Len(ProfileOrder)] ==
          IF n = 0 THEN <<>>
          ELSE IF ProfileOrder[n] \in Affected(resolutions)
               THEN Append(sorted[n - 1], ProfileOrder[n])
               ELSE sorted[n - 1]
    IN sorted[Len(ProfileOrder)]

StemOf(resolutions, p) ==
    LET profiles == SortedProfiles(resolutions)
        i == CHOOSE i \in DOMAIN profiles : profiles[i] = p
    IN Stems([j \in DOMAIN profiles |-> Spelling[profiles[j]]])[i]

ScriptContent(kind, p, resolutions) ==
    [kind |-> kind, profile |-> p, steps |-> StepsOf(p, resolutions)]

MineOfAll(p, resolutions) == resolutions    \* mutant: a section lists every change

Mine(p, resolutions) == {r \in resolutions : p \in r.dests}

(* A profile's section of `generate_impact_report'.                          *)
Section(p, resolutions) ==
    LET mine == Mine(p, resolutions)
        of(actions) == {r \in mine : r.action \in actions}
    IN [stem |-> StemOf(resolutions, p),
        created |-> {<<r.table, r.to>> : r \in of({"create table"})},
        dropped |-> {r.table : r \in of({"drop table"})},
        changed |-> {<<r.table, r.column, r.to>> : r \in of({"add column", "modify column"})},
        columnsDropped |-> {<<r.table, r.column>> : r \in of({"drop column"})},
        recompile |-> {r.table : r \in mine},
        backups |-> {<<r.table.name, r.column>> : r \in of({"drop table", "drop column"})}]

ReportContent(resolutions) ==
    [kind |-> "report",
     sections |-> [p \in Affected(resolutions) |-> Section(p, resolutions)]]

ReportFirst(resolutions) ==     \* mutant: the report before the scripts
    LET profiles == SortedProfiles(resolutions)
        pair(p) == <<[name |-> ForwardName(StemOf(resolutions, p)),
                      content |-> ScriptContent("forward", p, resolutions)],
                     [name |-> UndoName(StemOf(resolutions, p)),
                      content |-> ScriptContent("undo", p, resolutions)]>>
    IN <<[name |-> ReportName, content |-> ReportContent(resolutions)]>>
         \o [i \in 1 .. 2 * Len(profiles) |-> pair(profiles[(i + 1) \div 2])[2 - (i % 2)]]

(* Forward script and undo of each profile in turn, the report last.         *)
Plan(resolutions) ==
    LET profiles == SortedProfiles(resolutions)
        pair(p) == <<[name |-> ForwardName(StemOf(resolutions, p)),
                      content |-> ScriptContent("forward", p, resolutions)],
                     [name |-> UndoName(StemOf(resolutions, p)),
                      content |-> ScriptContent("undo", p, resolutions)]>>
    IN [i \in 1 .. 2 * Len(profiles) |-> pair(profiles[(i + 1) \div 2])[2 - (i % 2)]]
         \o <<[name |-> ReportName, content |-> ReportContent(resolutions)]>>

(* The disk after the first files of a plan were written; names that differ  *)
(* only in case are one file (Windows), and the last one written is kept.    *)
Put(disk, writes) ==
    LET at(i) == <<clock, Folded(writes[i].name)>>
        kept == {i \in DOMAIN writes : \A j \in DOMAIN writes : j > i => at(j) # at(i)}
    IN [f \in DOMAIN disk \cup {at(i) : i \in kept} |->
          IF \E i \in kept : at(i) = f THEN writes[CHOOSE i \in kept : at(i) = f].content
                                      ELSE disk[f]]

Torn == [kind |-> "torn"]

CanWrite(resolutions) == Unsupported = {} /\ Affected(resolutions) \cap Nameless = {}

WriteAll(resolutions, asked) ==
    /\ CanWrite(resolutions)
    /\ files' = Put(files, Plan(resolutions))
    /\ outcome' = "generated"
    /\ last' = [asked |-> asked, second |-> clock]
    /\ UNCHANGED used

(* The disk fills up after n files; the next may have been truncated.        *)
WriteSome(resolutions) ==
    /\ CanWrite(resolutions)
    /\ used.failures < MaxFailures
    /\ used' = [used EXCEPT !.failures = @ + 1]
    /\ \E n \in 0 .. Len(Plan(resolutions)) - 1 :
          LET done == SubSeq(Plan(resolutions), 1, n)
          IN \/ files' = Put(files, done)
             \/ files' = Put(files, Append(done, [Plan(resolutions)[n + 1] EXCEPT !.content = Torn]))
    /\ UNCHANGED <<outcome, last>>

(* Engines and databases are looked at before anything is written.           *)
WriteNothing(resolutions) ==
    /\ ~CanWrite(resolutions)
    /\ UNCHANGED <<files, outcome, last, used>>

WriteScripts(resolutions, asked) ==
    \/ WriteAll(resolutions, asked)
    \/ WriteSome(resolutions)
    \/ WriteNothing(resolutions)

(* `g'.  A generation that drops something is confirmed first.               *)
GenerateSql ==
    /\ Open
    /\ LET resolutions == BuildResolutions(decisions, options)
           asked == [shown |-> shown, decisions |-> decisions]
       IN /\ resolutions # {}
          /\ IF Drops(resolutions) = {}
             THEN WriteScripts(resolutions, asked) /\ UNCHANGED dialog
             ELSE /\ dialog' = [kind |-> "drop", resolutions |-> resolutions, asked |-> asked]
                  /\ UNCHANGED <<files, outcome, last, used>>
    /\ UNCHANGED <<compared, screen, clock, confirmed>>

ConfirmDropsRebuilt ==          \* mutant: built again once confirmed
    /\ dialog.kind = "drop"
    /\ dialog' = NoDialog
    /\ confirmed' = confirmed \cup DropsIn(dialog.resolutions)
    /\ WriteScripts(BuildResolutions(decisions, options), dialog.asked)
    /\ UNCHANGED <<compared, screen, clock>>

(* What is written is what the dialog was made of.                           *)
ConfirmDrops ==
    /\ dialog.kind = "drop"
    /\ dialog' = NoDialog
    /\ confirmed' = confirmed \cup DropsIn(dialog.resolutions)
    /\ WriteScripts(dialog.resolutions, dialog.asked)
    /\ UNCHANGED <<compared, screen, clock>>

(* Esc.  Decisions not generated yet are discarded only when confirmed.      *)
Back ==
    /\ Open
    /\ IF \E c \in Cards : Decided(decisions[c])
       THEN dialog' = [NoDialog EXCEPT !.kind = "discard"] /\ UNCHANGED outcome
       ELSE outcome' = "left" /\ UNCHANGED dialog
    /\ UNCHANGED <<compared, screen, files, clock, history, used>>

ConfirmDiscard ==
    /\ dialog.kind = "discard"
    /\ dialog' = NoDialog /\ outcome' = "left"
    /\ UNCHANGED <<compared, screen, files, clock, history, used>>

CancelDialog ==
    /\ dialog # NoDialog
    /\ dialog' = NoDialog
    /\ UNCHANGED <<compared, screen, outcome, files, clock, history, used>>

(* Which second it is only tells folders apart once there is one.            *)
NextSecond ==
    /\ outcome = "open" /\ clock < MaxClock /\ files # <<>>
    /\ clock' = clock + 1
    /\ UNCHANGED <<compared, screen, dialog, outcome, files, history, used>>

Next ==
    \/ ShowForm
    \/ \E card \in Cards :
         \/ \E target \in Targets(card) : Press(card, target)
         \/ \E p \in Profiles : Tick(card, p)
         \/ HandleRadio(card) \/ HandleTicks(card)
         \/ \E fill \in {{}} \cup {{v} : v \in FillValues} : TypeFill(card, fill)
         \/ ToggleAccept(card)
    \/ GenerateSql \/ ConfirmDrops \/ Back \/ ConfirmDiscard \/ CancelDialog
    \/ NextSecond

Spec == Init /\ [][Next]_vars
=============================================================================
