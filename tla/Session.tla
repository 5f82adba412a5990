------------------------------- MODULE Session -------------------------------
(***************************************************************************)
(* The TUI session of `tui/app.py`: the result on display, the exclusions, *)
(* the threads that compare and write reports, and the screens pushed over *)
(* the findings browser.  A thread touches the session only through        *)
(* `call_from_thread`, so every callback is one step; what a thread reads  *)
(* without it (the exclusions, the result to report) it reads when it      *)
(* runs, not when the user asked.                                          *)
(*                                                                         *)
(* `exclusive=True` cancels the workers started before.  One that no       *)
(* thread has taken yet never runs; one that runs is not interrupted.      *)
(***************************************************************************)
EXTENDS Naturals, Sequences

CONSTANTS
    Profiles,       \* the profiles the command line loaded
    Exclusions,     \* lists of exclusion patterns
    AtLaunch,       \* the one given on the command line
    Findings,       \* what there may be to find
    Outcomes,       \* the sets of findings a comparison may end with
    Consolidable,   \* findings on tables and columns
    Texts,          \* what the user may type in the filter
    NoText,         \* the empty filter
    Matches,        \* the findings that match a text
    MaxRuns, MaxReports, MaxScreens, MaxClock   \* bounds

ASSUME SessionAssumption ==
    /\ AtLaunch \in Exclusions
    /\ Consolidable \subseteq Findings /\ Outcomes \subseteq SUBSET Findings
    /\ NoText \in Texts
    /\ Matches \in [Texts -> SUBSET Findings]
    /\ {MaxRuns, MaxReports, MaxScreens, MaxClock} \subseteq Nat

VARIABLES
    result,     \* _result, with the run it is of (0 at launch) and the exclusions it used
    patterns,   \* _exclude_patterns
    busy,       \* the loading indicator of #content
    runs,       \* the comparisons asked for; Len(runs) is _run_id
    filter,     \* filter_text, which is what the filter input holds
    tree,       \* the findings the tree shows
    refilled,   \* history: a comparison refilled the tree under this filter
    reports,    \* the batches of reports asked for
    files,      \* the reports on disk
    clock,      \* the second it is
    screens,    \* the screens pushed over the browser
    over        \* the user has left

browser == <<filter, tree, refilled>>
disk == <<files, clock>>
vars == <<result, patterns, busy, runs, browser, reports, disk, screens, over>>

Formats == {"html", "pdf", "xlsx"}
Results == [run : 0..MaxRuns, patterns : Exclusions, findings : Outcomes]
RunStates == {"queued", "cancelled", "running", "ended"}
Comparisons == [state : RunStates, patterns : Exclusions]
Batches == [state : {"queued", "cancelled", "html", "pdf", "xlsx", "ended"},
            of : 0..MaxRuns, second : 0..MaxClock]
Files == [second : 0..MaxClock, format : Formats, of : 0..MaxRuns]
Screens == {"decision", "quit"}

TypeOK ==
    /\ result \in Results
    /\ patterns \in Exclusions
    /\ busy \in BOOLEAN
    /\ runs \in Seq(Comparisons) /\ Len(runs) <= MaxRuns
    /\ filter \in Texts /\ tree \subseteq Findings /\ refilled \in BOOLEAN
    /\ reports \in Seq(Batches) /\ Len(reports) <= MaxReports
    /\ files \subseteq Files
    /\ clock \in 0..MaxClock
    /\ screens \in Seq(Screens) /\ Len(screens) <= MaxScreens
    /\ over \in BOOLEAN

-----------------------------------------------------------------------------
(* What the tree shows.                                                      *)

EntryMatches(finding, text) == text = NoText \/ finding \in Matches[text]

Matching(findings, text) == {f \in findings : EntryMatches(f, text)}

(* The quit dialog is modal: the keys of the application do not pass it.     *)
KeysReachTheApp == ~over /\ \A i \in DOMAIN screens : screens[i] # "quit"

BrowserOnTop == ~over /\ screens = <<>>

Init ==
    /\ result \in Results /\ result.run = 0 /\ result.patterns = AtLaunch
    /\ patterns = AtLaunch
    /\ busy = FALSE
    /\ runs = <<>>
    /\ filter = NoText /\ tree = result.findings /\ refilled = FALSE
    /\ reports = <<>>
    /\ files = {} /\ clock = 0
    /\ screens = <<>>
    /\ over = FALSE

-----------------------------------------------------------------------------
(* What run_worker(exclusive=True) does to the workers already there.        *)

Cancelled(workers) ==
    [i \in DOMAIN workers |->
        IF workers[i].state = "queued"
        THEN [workers[i] EXCEPT !.state = "cancelled"]
        ELSE workers[i]]

-----------------------------------------------------------------------------
(* The user.                                                                 *)

(* `action_run_comparison`, with `exclusions` in force when it returns.      *)
StartComparison(exclusions) ==
    /\ Profiles # {}
    /\ Len(runs) < MaxRuns
    /\ busy' = TRUE
    /\ runs' = Append(Cancelled(runs), [state |-> "queued", patterns |-> exclusions])
    /\ reports' = Cancelled(reports)

Recompare ==
    /\ KeysReachTheApp
    /\ StartComparison(patterns)
    /\ UNCHANGED <<result, patterns, browser, disk, screens, over>>

EditUnsplit ==                  \* mutant: the text as typed, not split into patterns
    /\ BrowserOnTop
    /\ \E exclusions \in Exclusions : patterns' = <<exclusions>> /\ StartComparison(exclusions)
    /\ UNCHANGED <<result, browser, disk, screens, over>>

(* Enter in the exclusions editor.                                           *)
EditExclusions ==
    /\ BrowserOnTop
    /\ \E exclusions \in Exclusions :
          /\ patterns' = exclusions
          /\ IF Profiles = {} THEN UNCHANGED <<busy, runs, reports>>
                              ELSE StartComparison(exclusions)
    /\ UNCHANGED <<result, browser, disk, screens, over>>

(* There is an input to type in only while there are findings.               *)
TypeFilter ==
    /\ BrowserOnTop
    /\ result.findings # {}
    /\ \E text \in Texts \ {filter} :
          /\ filter' = text
          /\ tree' = Matching(result.findings, text)
    /\ refilled' = FALSE
    /\ UNCHANGED <<result, patterns, busy, runs, reports, disk, screens, over>>

(* `g`; over the decision screen that key generates scripts.                 *)
AskReports ==
    /\ BrowserOnTop
    /\ Len(reports) < MaxReports
    /\ reports' = Append(Cancelled(reports),
                         [state |-> "queued", of |-> 0, second |-> 0])
    /\ runs' = Cancelled(runs)
    /\ UNCHANGED <<result, patterns, busy, browser, disk, screens, over>>

(* `c`, which the decision screen leaves to the application: one may be      *)
(* pushed over another.                                                      *)
OpenDecisions ==
    /\ KeysReachTheApp
    /\ result.findings \cap Consolidable # {}
    /\ Len(screens) < MaxScreens
    /\ screens' = Append(screens, "decision")
    /\ UNCHANGED <<result, patterns, busy, runs, browser, reports, disk, over>>

AskToQuit ==
    /\ KeysReachTheApp
    /\ Len(screens) < MaxScreens
    /\ screens' = Append(screens, "quit")
    /\ UNCHANGED <<result, patterns, busy, runs, browser, reports, disk, over>>

(* The screen on top is dismissed: decisions discarded or generated, or the  *)
(* quit dialog refused.                                                      *)
CloseScreen ==
    /\ ~over /\ screens # <<>>
    /\ screens' = SubSeq(screens, 1, Len(screens) - 1)
    /\ UNCHANGED <<result, patterns, busy, runs, browser, reports, disk, over>>

(* Leaving cancels the workers, as far as that goes.                         *)
Quit ==
    /\ ~over /\ screens # <<>> /\ screens[Len(screens)] = "quit"
    /\ over' = TRUE
    /\ runs' = Cancelled(runs) /\ reports' = Cancelled(reports)
    /\ UNCHANGED <<result, patterns, busy, browser, disk, screens>>

-----------------------------------------------------------------------------
(* The thread of the n-th comparison, `_do_run_comparison`.                  *)

StartRun(n) ==
    /\ runs[n].state = "queued"
    /\ runs' = [runs EXCEPT ![n] = [state |-> "running", patterns |-> patterns]]
    /\ UNCHANGED <<result, patterns, busy, browser, reports, disk, screens, over>>

ShowUnderOldFilter(new) ==      \* mutant: the new body keeps the old filter text
    /\ result' = new
    /\ busy' = FALSE
    /\ tree' = new.findings
    /\ filter' = filter
    /\ refilled' = (refilled \/ ((result.findings = {}) = (new.findings = {}) /\ filter # NoText))

(* `_apply_new_result`: body and filter are made anew when the browser goes  *)
(* from findings to none or back; else the tree is filled with everything.   *)
Show(new) ==
    /\ result' = new
    /\ busy' = FALSE
    /\ tree' = new.findings
    /\ IF (result.findings = {}) # (new.findings = {})
       THEN filter' = NoText /\ refilled' = FALSE
       ELSE filter' = filter /\ refilled' = (refilled \/ filter # NoText)

EndAnyRun(n) ==                 \* mutant: run_id is not compared
    /\ runs[n].state = "running"
    /\ runs' = [runs EXCEPT ![n].state = "ended"]
    /\ \E found \in Outcomes :
          IF ~over THEN Show([run |-> n, patterns |-> runs[n].patterns, findings |-> found])
                   ELSE UNCHANGED <<result, busy, browser>>
    /\ UNCHANGED <<patterns, reports, disk, screens, over>>

(* Results of superseded runs are dropped.                                   *)
EndRun(n) ==
    /\ runs[n].state = "running"
    /\ runs' = [runs EXCEPT ![n].state = "ended"]
    /\ \E found \in Outcomes :
          IF n = Len(runs) /\ ~over
          THEN Show([run |-> n, patterns |-> runs[n].patterns, findings |-> found])
          ELSE UNCHANGED <<result, busy, browser>>
    /\ UNCHANGED <<patterns, reports, disk, screens, over>>

FailRunBusy(n) ==               \* mutant: the indicator stays on after a failure
    /\ runs[n].state = "running"
    /\ runs' = [runs EXCEPT ![n].state = "ended"]
    /\ UNCHANGED <<result, busy, patterns, browser, reports, disk, screens, over>>

(* `_report_run_failure`.                                                    *)
FailRun(n) ==
    /\ runs[n].state = "running"
    /\ runs' = [runs EXCEPT ![n].state = "ended"]
    /\ busy' = (busy /\ ~(n = Len(runs) /\ ~over))
    /\ UNCHANGED <<result, patterns, browser, reports, disk, screens, over>>

-----------------------------------------------------------------------------
(* The thread of the k-th batch of reports, `generate_all_reports`.          *)

StartBatch(k) ==
    /\ reports[k].state = "queued"
    /\ reports' = [reports EXCEPT ![k] =
                     [@ EXCEPT !.state = "html", !.of = result.run, !.second = clock]]
    /\ UNCHANGED <<result, patterns, busy, runs, browser, disk, screens, over>>

(* A file that is written replaces the one of that name; one that fails may  *)
(* have been truncated first.                                                *)
SameFile(k, format) ==
    {f \in files : f.second = reports[k].second /\ f.format = format}

WrittenOfShown(k, format) ==    \* mutant: each format reads self._result
    files' = (files \ SameFile(k, format))
               \cup {[second |-> reports[k].second, format |-> format, of |-> result.run]}

Written(k, format) ==
    files' = (files \ SameFile(k, format))
               \cup {[second |-> reports[k].second, format |-> format, of |-> reports[k].of]}

NotWritten(k, format) == files' \in {files, files \ SameFile(k, format)}

Goto(k, state) == reports' = [reports EXCEPT ![k].state = state]

(* The PDF is made of the rendered HTML, whether or not that could be saved; *)
(* without it there is none.                                                 *)
WriteHtml(k) ==
    /\ reports[k].state = "html"
    /\ \/ Written(k, "html") /\ Goto(k, "pdf")
       \/ NotWritten(k, "html") /\ Goto(k, "pdf")
       \/ UNCHANGED files /\ Goto(k, "xlsx")
    /\ UNCHANGED <<result, patterns, busy, runs, browser, clock, screens, over>>

WritePdf(k) ==
    /\ reports[k].state = "pdf"
    /\ Written(k, "pdf") \/ NotWritten(k, "pdf")
    /\ Goto(k, "xlsx")
    /\ UNCHANGED <<result, patterns, busy, runs, browser, clock, screens, over>>

WriteExcel(k) ==
    /\ reports[k].state = "xlsx"
    /\ Written(k, "xlsx") \/ NotWritten(k, "xlsx")
    /\ Goto(k, "ended")
    /\ UNCHANGED <<result, patterns, busy, runs, browser, clock, screens, over>>

Tick == /\ clock < MaxClock
        /\ clock' = clock + 1
        /\ UNCHANGED <<result, patterns, busy, runs, browser, reports, files, screens, over>>

-----------------------------------------------------------------------------
User == Recompare \/ EditExclusions \/ TypeFilter \/ AskReports \/ OpenDecisions
          \/ AskToQuit \/ CloseScreen \/ Quit

RunStep(n) == StartRun(n) \/ EndRun(n) \/ FailRun(n)

BatchStep(k) == StartBatch(k) \/ WriteHtml(k) \/ WritePdf(k) \/ WriteExcel(k)

Next == \/ User
        \/ \E n \in DOMAIN runs : RunStep(n)
        \/ \E k \in DOMAIN reports : BatchStep(k)
        \/ Tick

Spec == Init /\ [][Next]_vars

(* A thread that has work does it: connections and queries have timeouts.    *)
FairSpec == /\ Spec
            /\ \A n \in 1..MaxRuns : WF_vars(n \in DOMAIN runs /\ RunStep(n))
            /\ \A k \in 1..MaxReports : WF_vars(k \in DOMAIN reports /\ BatchStep(k))

-----------------------------------------------------------------------------
(* The properties.                                                           *)

(* The comparison waited for, in the terms of LatestResult.                  *)
Asked == IF busy THEN {[run |-> Len(runs), patterns |-> patterns]} ELSE {}

Latest == INSTANCE LatestResult WITH shown <- result, asked <- Asked

(* What is displayed answers the newest comparison, under the exclusions it  *)
(* was asked with, though the thread reads them later; a failed one leaves   *)
(* it as it was, and the indicator is on exactly while one is waited for     *)
(* (REQ-interactive-tui-011 and -012; "results of superseded runs are        *)
(* dropped", app.py).                                                        *)
NewestIsShown == Latest!Spec

(* The files of one folder are of one result, unless two batches started in  *)
(* the same second, for which the folder is named: a comparison that ends    *)
(* between two of them does not change what the rest are of ("sharing the    *)
(* same run timestamp", REQ-interactive-tui-013).                            *)
Started(k) == reports[k].state \notin {"queued", "cancelled"}

SharedSecond(second) ==
    \E j, k \in DOMAIN reports :
        /\ j # k /\ Started(j) /\ Started(k)
        /\ reports[j].second = second /\ reports[k].second = second

FolderOfOneResult ==
    \A f, g \in files :
        f.second = g.second => f.of = g.of \/ SharedSecond(f.second)

(* The tree hides what does not match the filter (REQ-interactive-tui-004),  *)
(* across comparisons that come and go; except that one that ends while a    *)
(* filter is set fills the tree with everything until the filter is touched. *)
FilterHides == ~refilled => tree = Matching(result.findings, filter)

(* The indicator goes off, unless asking for reports, or leaving, cancelled  *)
(* the comparison before a thread took it.                                   *)
CancelledUnstarted == runs # <<>> /\ runs[Len(runs)].state = "cancelled"

BusyEnds == busy ~> (~busy \/ over \/ CancelledUnstarted)
=============================================================================
