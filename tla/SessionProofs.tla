---------------------------- MODULE SessionProofs ----------------------------
(***************************************************************************)
(* Proofs about Session: the browser shows the newest comparison, reports  *)
(* of one folder are of one result, the tree hides what the filter hides.  *)
(***************************************************************************)
EXTENDS Session, SequenceTheorems, TLAPS

USE DEF vars, browser, disk

(* Cancelling workers changes the states of queued ones and nothing else.    *)
LEMMA CancelComparisons ==
    ASSUME NEW ws \in Seq(Comparisons)
    PROVE  /\ Cancelled(ws) \in Seq(Comparisons)
           /\ Len(Cancelled(ws)) = Len(ws)
           /\ \A i \in 1..Len(ws) :
                 /\ Cancelled(ws)[i].patterns = ws[i].patterns
                 /\ Cancelled(ws)[i].state =
                       IF ws[i].state = "queued" THEN "cancelled" ELSE ws[i].state
  <1>1. Len(ws) \in Nat /\ DOMAIN ws = 1..Len(ws) /\ ws \in [1..Len(ws) -> Comparisons]
    BY LenProperties
  <1>2. ASSUME NEW i \in 1..Len(ws)
        PROVE  /\ Cancelled(ws)[i] \in Comparisons
               /\ Cancelled(ws)[i].patterns = ws[i].patterns
               /\ Cancelled(ws)[i].state =
                     IF ws[i].state = "queued" THEN "cancelled" ELSE ws[i].state
    <2>1. ws[i] \in Comparisons
      BY <1>1
    <2>2. Cancelled(ws)[i] = IF ws[i].state = "queued"
                             THEN [ws[i] EXCEPT !.state = "cancelled"] ELSE ws[i]
      BY <1>1 DEF Cancelled
    <2> QED BY <2>1, <2>2 DEF Comparisons, RunStates
  <1>3. Cancelled(ws) \in [1..Len(ws) -> Comparisons]
    BY <1>1, <1>2 DEF Cancelled
  <1>4. Cancelled(ws) \in Seq(Comparisons)
    BY <1>1, <1>3, SeqDef
  <1>5. Len(Cancelled(ws)) = Len(ws)
    BY <1>1, <1>3, <1>4
  <1> QED BY <1>2, <1>4, <1>5

LEMMA CancelBatches ==
    ASSUME NEW ws \in Seq(Batches)
    PROVE  /\ Cancelled(ws) \in Seq(Batches)
           /\ Len(Cancelled(ws)) = Len(ws)
           /\ \A i \in 1..Len(ws) :
                 /\ Cancelled(ws)[i].of = ws[i].of
                 /\ Cancelled(ws)[i].second = ws[i].second
                 /\ Cancelled(ws)[i].state =
                       IF ws[i].state = "queued" THEN "cancelled" ELSE ws[i].state
  <1>1. Len(ws) \in Nat /\ DOMAIN ws = 1..Len(ws) /\ ws \in [1..Len(ws) -> Batches]
    BY LenProperties
  <1>2. ASSUME NEW i \in 1..Len(ws)
        PROVE  /\ Cancelled(ws)[i] \in Batches
               /\ Cancelled(ws)[i].of = ws[i].of
               /\ Cancelled(ws)[i].second = ws[i].second
               /\ Cancelled(ws)[i].state =
                     IF ws[i].state = "queued" THEN "cancelled" ELSE ws[i].state
    <2>1. ws[i] \in Batches
      BY <1>1
    <2>2. Cancelled(ws)[i] = IF ws[i].state = "queued"
                             THEN [ws[i] EXCEPT !.state = "cancelled"] ELSE ws[i]
      BY <1>1 DEF Cancelled
    <2> QED BY <2>1, <2>2 DEF Batches
  <1>3. Cancelled(ws) \in [1..Len(ws) -> Batches]
    BY <1>1, <1>2 DEF Cancelled
  <1>4. Cancelled(ws) \in Seq(Batches)
    BY <1>1, <1>3, SeqDef
  <1>5. Len(Cancelled(ws)) = Len(ws)
    BY <1>1, <1>3, <1>4
  <1> QED BY <1>2, <1>4, <1>5

(* A worker moves on.                                                        *)
LEMMA ComparisonMoves ==
    ASSUME NEW ws \in Seq(Comparisons), NEW n \in 1..Len(ws), NEW w \in Comparisons
    PROVE  /\ [ws EXCEPT ![n] = w] \in Seq(Comparisons)
           /\ Len([ws EXCEPT ![n] = w]) = Len(ws)
           /\ \A i \in 1..Len(ws) : [ws EXCEPT ![n] = w][i] = IF i = n THEN w ELSE ws[i]
  BY ExceptSeq

LEMMA BatchMoves ==
    ASSUME NEW ws \in Seq(Batches), NEW k \in 1..Len(ws), NEW w \in Batches
    PROVE  /\ [ws EXCEPT ![k] = w] \in Seq(Batches)
           /\ Len([ws EXCEPT ![k] = w]) = Len(ws)
           /\ \A i \in 1..Len(ws) : [ws EXCEPT ![k] = w][i] = IF i = k THEN w ELSE ws[i]
  BY ExceptSeq

LEMMA WorkersStay ==
    ASSUME NEW S, NEW ws \in Seq(S), NEW w \in S
    PROVE  \A i \in 1..Len(ws) : i \in DOMAIN Append(ws, w) /\ Append(ws, w)[i] = ws[i]
  <1>1. /\ Append(ws, w) \in Seq(S) /\ Len(Append(ws, w)) = Len(ws) + 1 /\ Len(ws) \in Nat
        /\ \A i \in 1..Len(ws) : Append(ws, w)[i] = ws[i]
    BY AppendProperties
  <1>2. DOMAIN Append(ws, w) = 1..(Len(ws) + 1)
    BY <1>1, LenProperties
  <1> QED BY <1>1, <1>2

(* What the user does keeps every type.                                      *)
LEMMA UserTypes == TypeOK /\ User => TypeOK'
  <1> SUFFICES ASSUME TypeOK, User PROVE TypeOK'
    OBVIOUS
  <1> USE SessionAssumption
  <1>0. Cancelled(runs) \in Seq(Comparisons) /\ Len(Cancelled(runs)) = Len(runs)
    BY CancelComparisons DEF TypeOK
  <1>00. Cancelled(reports) \in Seq(Batches) /\ Len(Cancelled(reports)) = Len(reports)
    BY CancelBatches DEF TypeOK
  <1>a. ASSUME NEW e \in Exclusions, StartComparison(e)
        PROVE  /\ busy' \in BOOLEAN
               /\ runs' \in Seq(Comparisons) /\ Len(runs') <= MaxRuns
               /\ reports' \in Seq(Batches) /\ Len(reports') <= MaxReports
    <2>1. [state |-> "queued", patterns |-> e] \in Comparisons
      BY DEF Comparisons, RunStates
    <2> QED BY <1>a, <1>0, <1>00, <2>1 DEF StartComparison, TypeOK
  <1>1. CASE Recompare
    BY <1>1, <1>a DEF Recompare, TypeOK
  <1>2. CASE EditExclusions
    BY <1>2, <1>a DEF EditExclusions, TypeOK
  <1>3. CASE TypeFilter
    BY <1>3 DEF TypeFilter, TypeOK, Matching, Results
  <1>4. CASE AskReports
    <2>1. [state |-> "queued", of |-> 0, second |-> 0] \in Batches
      BY DEF Batches
    <2> QED BY <1>4, <1>0, <1>00, <2>1 DEF AskReports, TypeOK
  <1>5. CASE OpenDecisions
    BY <1>5 DEF OpenDecisions, TypeOK, Screens
  <1>6. CASE AskToQuit
    BY <1>6 DEF AskToQuit, TypeOK, Screens
  <1>7. CASE CloseScreen
    BY <1>7 DEF CloseScreen, TypeOK
  <1>8. CASE Quit
    BY <1>8, <1>0, <1>00 DEF Quit, TypeOK
  <1> QED BY <1>1, <1>2, <1>3, <1>4, <1>5, <1>6, <1>7, <1>8 DEF User

LEMMA RunTypes ==
    ASSUME TypeOK, NEW n \in DOMAIN runs, RunStep(n)
    PROVE  TypeOK'
  <1> USE SessionAssumption
  <1>0. runs[n] \in Comparisons /\ n \in 1..Len(runs) /\ runs \in Seq(Comparisons)
    BY DEF TypeOK
  <1>e. /\ [runs EXCEPT ![n].state = "ended"] \in Seq(Comparisons)
        /\ Len([runs EXCEPT ![n].state = "ended"]) = Len(runs)
    <2> DEFINE w == [runs[n] EXCEPT !.state = "ended"]
    <2>1. w \in Comparisons
      BY <1>0 DEF Comparisons, RunStates
    <2>2. [runs EXCEPT ![n].state = "ended"] = [runs EXCEPT ![n] = w]
      OBVIOUS
    <2> HIDE DEF w
    <2> QED BY <1>0, <2>1, <2>2, ComparisonMoves
  <1>1. CASE StartRun(n)
    <2>1. [state |-> "running", patterns |-> patterns] \in Comparisons
      BY DEF TypeOK, Comparisons, RunStates
    <2>2. runs' \in Seq(Comparisons) /\ Len(runs') = Len(runs)
      BY <1>0, <1>1, <2>1, ComparisonMoves DEF StartRun
    <2> QED BY <1>1, <2>2 DEF StartRun, TypeOK
  <1>2. CASE EndRun(n)
    <2>1. runs' \in Seq(Comparisons) /\ Len(runs') = Len(runs)
      BY <1>e, <1>2 DEF EndRun
    <2>2. CASE UNCHANGED <<result, busy, browser>>
      BY <1>2, <2>1, <2>2 DEF EndRun, TypeOK
    <2>3. ASSUME NEW found \in Outcomes,
                 Show([run |-> n, patterns |-> runs[n].patterns, findings |-> found])
          PROVE  TypeOK'
      <3>1. [run |-> n, patterns |-> runs[n].patterns, findings |-> found] \in Results
        BY <1>0 DEF Results, Comparisons, TypeOK
      <3>2. result' \in Results /\ busy' \in BOOLEAN /\ tree' \subseteq Findings
        BY <2>3, <3>1 DEF Show
      <3>3. filter' \in Texts /\ refilled' \in BOOLEAN
        BY <2>3 DEF Show, TypeOK
      <3> QED BY <1>2, <2>1, <3>2, <3>3 DEF EndRun, TypeOK
    <2> QED BY <1>2, <2>2, <2>3 DEF EndRun
  <1>3. CASE FailRun(n)
    BY <1>e, <1>3 DEF FailRun, TypeOK
  <1> QED BY <1>1, <1>2, <1>3 DEF RunStep

LEMMA BatchTypes ==
    ASSUME TypeOK, NEW k \in DOMAIN reports, BatchStep(k)
    PROVE  TypeOK'
  <1> USE SessionAssumption
  <1>0. reports[k] \in Batches /\ k \in 1..Len(reports) /\ reports \in Seq(Batches)
    BY DEF TypeOK
  <1>a. ASSUME NEW state \in {"html", "pdf", "xlsx", "ended"}, Goto(k, state)
        PROVE  reports' \in Seq(Batches) /\ Len(reports') <= MaxReports
    <2> DEFINE w == [reports[k] EXCEPT !.state = state]
    <2>1. w \in Batches
      BY <1>0 DEF Batches
    <2>2. reports' = [reports EXCEPT ![k] = w]
      BY <1>a DEF Goto
    <2> HIDE DEF w
    <2> QED BY <1>0, <2>1, <2>2, BatchMoves DEF TypeOK
  <1>b. ASSUME NEW format \in Formats, Written(k, format) \/ NotWritten(k, format)
        PROVE  files' \subseteq Files
    BY <1>0, <1>b DEF Written, NotWritten, SameFile, TypeOK, Files, Batches
  <1>1. CASE StartBatch(k)
    <2> DEFINE w == [reports[k] EXCEPT !.state = "html", !.of = result.run, !.second = clock]
    <2>1. w \in Batches
      BY <1>0 DEF Batches, TypeOK, Results
    <2>2. reports' = [reports EXCEPT ![k] = w]
      BY <1>1 DEF StartBatch
    <2> HIDE DEF w
    <2>3. reports' \in Seq(Batches) /\ Len(reports') <= MaxReports
      BY <1>0, <2>1, <2>2, BatchMoves DEF TypeOK
    <2> QED BY <1>1, <2>3 DEF StartBatch, TypeOK
  <1>2. CASE WriteHtml(k)
    <2>1. files' \subseteq Files
      BY <1>2, <1>b DEF WriteHtml, Formats, TypeOK
    <2>2. reports' \in Seq(Batches) /\ Len(reports') <= MaxReports
      BY <1>2, <1>a DEF WriteHtml
    <2> QED BY <1>2, <2>1, <2>2 DEF WriteHtml, TypeOK
  <1>3. CASE WritePdf(k)
    <2>1. files' \subseteq Files
      BY <1>3, <1>b DEF WritePdf, Formats
    <2>2. reports' \in Seq(Batches) /\ Len(reports') <= MaxReports
      BY <1>3, <1>a DEF WritePdf
    <2> QED BY <1>3, <2>1, <2>2 DEF WritePdf, TypeOK
  <1>4. CASE WriteExcel(k)
    <2>1. files' \subseteq Files
      BY <1>4, <1>b DEF WriteExcel, Formats
    <2>2. reports' \in Seq(Batches) /\ Len(reports') <= MaxReports
      BY <1>4, <1>a DEF WriteExcel
    <2> QED BY <1>4, <2>1, <2>2 DEF WriteExcel, TypeOK
  <1> QED BY <1>1, <1>2, <1>3, <1>4 DEF BatchStep

LEMMA InitTypes == Init => TypeOK
  <1> SUFFICES ASSUME Init PROVE TypeOK
    OBVIOUS
  <1> USE SessionAssumption
  <1>1. runs \in Seq(Comparisons) /\ Len(runs) <= MaxRuns
    BY EmptySeq DEF Init
  <1>2. reports \in Seq(Batches) /\ Len(reports) <= MaxReports
    BY EmptySeq DEF Init
  <1>3. screens \in Seq(Screens) /\ Len(screens) <= MaxScreens
    BY EmptySeq DEF Init
  <1>4. tree \subseteq Findings
    BY DEF Init, Results
  <1>5. files \subseteq Files /\ clock \in 0..MaxClock
    BY DEF Init
  <1>6. /\ result \in Results /\ patterns \in Exclusions /\ busy \in BOOLEAN
        /\ filter \in Texts /\ refilled \in BOOLEAN /\ over \in BOOLEAN
    BY DEF Init
  <1> QED BY <1>1, <1>2, <1>3, <1>4, <1>5, <1>6 DEF TypeOK

LEMMA NextTypes == TypeOK /\ [Next]_vars => TypeOK'
  <1> SUFFICES ASSUME TypeOK, [Next]_vars PROVE TypeOK'
    OBVIOUS
  <1>1. CASE Tick
    BY <1>1, SessionAssumption DEF Tick, TypeOK
  <1>2. CASE UNCHANGED vars
    BY <1>2 DEF TypeOK
  <1> QED BY <1>1, <1>2, UserTypes, RunTypes, BatchTypes DEF Next

(* Every variable of the session keeps its type.                             *)
THEOREM SessionTypeCorrect == Spec => []TypeOK
  BY InitTypes, NextTypes, PTL DEF Spec

-----------------------------------------------------------------------------
(* The tree hides what does not match the filter, whatever is displayed.     *)

LEMMA FilterStarts == Init => FilterHides
  BY SessionAssumption DEF Init, FilterHides, Matching, EntryMatches

LEMMA FilterKept == TypeOK /\ FilterHides /\ [Next]_vars => FilterHides'
  <1> SUFFICES ASSUME TypeOK, FilterHides, [Next]_vars PROVE FilterHides'
    OBVIOUS
  <1>a. CASE UNCHANGED <<result, browser>>
    BY <1>a DEF FilterHides, Matching, EntryMatches
  <1>1. CASE TypeFilter
    BY <1>1 DEF TypeFilter, FilterHides, Matching, EntryMatches
  <1>2. CASE User /\ ~TypeFilter
    BY <1>a, <1>2 DEF User, Recompare, EditExclusions, AskReports, OpenDecisions,
                      AskToQuit, CloseScreen, Quit
  <1>3. ASSUME NEW n \in DOMAIN runs, RunStep(n) PROVE FilterHides'
    <2>1. CASE UNCHANGED <<result, browser>>
      BY <1>a, <2>1
    <2>2. ASSUME NEW new, Show(new) PROVE FilterHides'
      <3>1. ~refilled' => filter' = NoText
        BY <2>2, <1>3 DEF Show, TypeOK
      <3> QED BY <2>2, <3>1 DEF Show, FilterHides, Matching, EntryMatches
    <2> QED BY <1>3, <2>1, <2>2 DEF RunStep, StartRun, EndRun, FailRun
  <1>4. ASSUME NEW k \in DOMAIN reports, BatchStep(k) PROVE FilterHides'
    BY <1>a, <1>4 DEF BatchStep, StartBatch, WriteHtml, WritePdf, WriteExcel
  <1>5. CASE Tick \/ UNCHANGED vars
    BY <1>a, <1>5 DEF Tick
  <1> QED BY <1>1, <1>2, <1>3, <1>4, <1>5 DEF Next

(* The filter is applied to whatever result is on display, for every number  *)
(* of comparisons, texts and findings.                                       *)
THEOREM FilterAlwaysHides == Spec => []FilterHides
  BY InitTypes, NextTypes, FilterStarts, FilterKept, PTL DEF Spec

-----------------------------------------------------------------------------
(* Reports: every file is of a batch that started in its second.             *)

Source(f, k) == /\ Started(k)
                /\ reports[k].second = f.second
                /\ reports[k].of = f.of

FilesHaveSources == \A f \in files : \E k \in DOMAIN reports : Source(f, k)

LEMMA SourcesGiveOneResult == FilesHaveSources => FolderOfOneResult
  <1> SUFFICES ASSUME FilesHaveSources, NEW f \in files, NEW g \in files,
                      f.second = g.second
               PROVE  f.of = g.of \/ SharedSecond(f.second)
    BY DEF FolderOfOneResult
  <1>1. PICK j \in DOMAIN reports : Source(f, j)
    BY DEF FilesHaveSources
  <1>2. PICK k \in DOMAIN reports : Source(g, k)
    BY DEF FilesHaveSources
  <1>3. CASE j = k
    BY <1>1, <1>2, <1>3 DEF Source
  <1>4. CASE j # k
    BY <1>1, <1>2, <1>4 DEF Source, SharedSecond
  <1> QED BY <1>3, <1>4

(* A step that leaves the files alone and the batches that started as they   *)
(* are keeps the sources.                                                    *)
LEMMA SourcesStay ==
    ASSUME FilesHaveSources, files' \subseteq files,
           \A k \in DOMAIN reports :
              Started(k) => /\ k \in DOMAIN reports' /\ Started(k)'
                            /\ reports'[k].second = reports[k].second
                            /\ reports'[k].of = reports[k].of
    PROVE  FilesHaveSources'
  <1> SUFFICES ASSUME NEW f \in files' PROVE \E k \in DOMAIN reports' : Source(f, k)'
    BY DEF FilesHaveSources
  <1>1. PICK k \in DOMAIN reports : Source(f, k)
    BY DEF FilesHaveSources
  <1> QED BY <1>1 DEF Source

LEMMA BatchSources ==
    ASSUME TypeOK, FilesHaveSources, NEW k \in DOMAIN reports, BatchStep(k)
    PROVE  FilesHaveSources'
  <1>0. /\ reports[k] \in Batches /\ k \in 1..Len(reports) /\ reports \in Seq(Batches)
        /\ DOMAIN reports = 1..Len(reports)
    BY DEF TypeOK
  <1>a. ASSUME NEW state \in {"pdf", "xlsx", "ended"}, Goto(k, state), Started(k)
        PROVE  \A i \in DOMAIN reports :
                  Started(i) => /\ i \in DOMAIN reports' /\ Started(i)'
                                /\ reports'[i].second = reports[i].second
                                /\ reports'[i].of = reports[i].of
    <2> DEFINE w == [reports[k] EXCEPT !.state = state]
    <2>1. w \in Batches /\ w.second = reports[k].second /\ w.of = reports[k].of /\ w.state = state
      BY <1>0 DEF Batches
    <2>2. reports' = [reports EXCEPT ![k] = w]
      BY <1>a DEF Goto
    <2> HIDE DEF w
    <2>3. DOMAIN reports' = DOMAIN reports
      BY <2>2
    <2>4. \A i \in DOMAIN reports : reports'[i] = IF i = k THEN w ELSE reports[i]
      BY <2>2
    <2> QED BY <2>1, <2>3, <2>4 DEF Started
  <1>b. ASSUME NEW state \in {"pdf", "xlsx", "ended"}, Goto(k, state), Started(k),
               NEW format \in Formats, Written(k, format) \/ NotWritten(k, format)
        PROVE  FilesHaveSources'
    <2>1. \A f \in files' : f \in files \/ Source(f, k)
      BY <1>b DEF Written, NotWritten, SameFile, Source
    <2>2. \A f \in files' : \E i \in DOMAIN reports : Source(f, i)
      BY <2>1 DEF FilesHaveSources
    <2> QED BY <2>2, <1>a, <1>b DEF FilesHaveSources, Source
  <1>1. CASE StartBatch(k)
    <2>1. \A i \in DOMAIN reports : Started(i) => i # k
      BY <1>1 DEF StartBatch, Started
    <2>2. DOMAIN reports' = DOMAIN reports /\ files' = files
      BY <1>1 DEF StartBatch
    <2>3. \A i \in DOMAIN reports : i # k => reports'[i] = reports[i]
      BY <1>1 DEF StartBatch
    <2> QED BY <2>1, <2>2, <2>3, SourcesStay DEF Started
  <1>2. CASE WriteHtml(k)
    <2>1. Started(k)
      BY <1>2 DEF WriteHtml, Started
    <2>2. CASE UNCHANGED files /\ Goto(k, "xlsx")
      BY <2>1, <2>2, <1>a, SourcesStay
    <2> QED BY <1>2, <1>b, <2>1, <2>2 DEF WriteHtml, Formats
  <1>3. CASE WritePdf(k)
    <2>1. Started(k)
      BY <1>3 DEF WritePdf, Started
    <2> QED BY <1>3, <1>b, <2>1 DEF WritePdf, Formats
  <1>4. CASE WriteExcel(k)
    <2>1. Started(k)
      BY <1>4 DEF WriteExcel, Started
    <2> QED BY <1>4, <1>b, <2>1 DEF WriteExcel, Formats
  <1> QED BY <1>1, <1>2, <1>3, <1>4 DEF BatchStep

LEMMA SourcesKept == TypeOK /\ FilesHaveSources /\ [Next]_vars => FilesHaveSources'
  <1> SUFFICES ASSUME TypeOK, FilesHaveSources, [Next]_vars PROVE FilesHaveSources'
    OBVIOUS
  <1>0. reports \in Seq(Batches) /\ DOMAIN reports = 1..Len(reports) /\ Len(reports) \in Nat
    BY LenProperties DEF TypeOK
  <1>a. CASE UNCHANGED <<files, reports>>
    BY <1>a DEF FilesHaveSources, Source, Started
  <1>b. CASE files' = files /\ reports' = Cancelled(reports)
    <2>1. DOMAIN reports' = DOMAIN reports
      BY <1>b DEF Cancelled
    <2>2. \A k \in DOMAIN reports : Started(k) => reports'[k] = reports[k]
      BY <1>b DEF Cancelled, Started
    <2> QED BY <1>b, <2>1, <2>2, SourcesStay DEF Started
  <1>c. ASSUME NEW b \in Batches, files' = files, reports' = Append(Cancelled(reports), b)
        PROVE  FilesHaveSources'
    <2>1. Cancelled(reports) \in Seq(Batches) /\ Len(Cancelled(reports)) = Len(reports)
      BY <1>0, CancelBatches
    <2>2. \A k \in DOMAIN reports : k \in DOMAIN reports' /\ reports'[k] = Cancelled(reports)[k]
      <3>1. \A k \in 1..Len(reports) :
               /\ k \in DOMAIN Append(Cancelled(reports), b)
               /\ Append(Cancelled(reports), b)[k] = Cancelled(reports)[k]
        BY <2>1, <1>c, WorkersStay
      <3> QED BY <1>0, <1>c, <3>1
    <2>3. \A k \in DOMAIN reports : Started(k) => Cancelled(reports)[k] = reports[k]
      BY DEF Cancelled, Started
    <2> QED BY <1>c, <2>2, <2>3, SourcesStay DEF Started
  <1>1. CASE Recompare \/ EditExclusions
    BY <1>1, <1>a, <1>b DEF Recompare, EditExclusions, StartComparison
  <1>2. CASE AskReports
    <2>1. [state |-> "queued", of |-> 0, second |-> 0] \in Batches
      BY SessionAssumption DEF Batches
    <2> QED BY <1>2, <1>c, <2>1 DEF AskReports
  <1>3. CASE Quit
    BY <1>3, <1>b DEF Quit
  <1>4. CASE TypeFilter \/ OpenDecisions \/ AskToQuit \/ CloseScreen
    BY <1>4, <1>a DEF TypeFilter, OpenDecisions, AskToQuit, CloseScreen
  <1>5. ASSUME NEW n \in DOMAIN runs, RunStep(n) PROVE FilesHaveSources'
    BY <1>5, <1>a DEF RunStep, StartRun, EndRun, FailRun
  <1>6. CASE Tick \/ UNCHANGED vars
    BY <1>6, <1>a DEF Tick
  <1> QED BY <1>1, <1>2, <1>3, <1>4, <1>5, <1>6, BatchSources DEF Next, User

(* However many batches and comparisons there are, a report that follows     *)
(* another in the same folder is of the same result.                         *)
THEOREM FoldersAreOfOneResult == Spec => []FolderOfOneResult
  <1>1. Init => FilesHaveSources
    BY DEF Init, FilesHaveSources
  <1> QED BY <1>1, InitTypes, NextTypes, SourcesKept, SourcesGiveOneResult, PTL DEF Spec

-----------------------------------------------------------------------------
(* The refinement of LatestResult.  The newest comparison that may still     *)
(* end is waited for, and once its thread runs it holds the exclusions it    *)
(* was asked with: they change only together with a newer comparison.        *)

Newest == runs[Len(runs)]

NewestIsAwaited ==
    /\ runs # <<>> /\ Newest.state \in {"queued", "running"} => busy
    /\ runs # <<>> /\ Newest.state = "running" => Newest.patterns = patterns
    /\ busy => runs # <<>>
    /\ Profiles = {} => runs = <<>>
    /\ result.run <= Len(runs)

LEMMA AwaitedStarts == Init => NewestIsAwaited
  BY EmptySeq, SessionAssumption DEF Init, NewestIsAwaited

LEMMA RunsExtend ==
    ASSUME TypeOK, NEW e \in Exclusions, StartComparison(e)
    PROVE  /\ Len(runs') = Len(runs) + 1 /\ Len(runs) \in Nat
           /\ runs' # <<>> /\ Newest' = [state |-> "queued", patterns |-> e]
  <1> DEFINE w == [state |-> "queued", patterns |-> e]
  <1>1. w \in Comparisons
    BY DEF Comparisons, RunStates
  <1>2. Cancelled(runs) \in Seq(Comparisons) /\ Len(Cancelled(runs)) = Len(runs)
    BY CancelComparisons DEF TypeOK
  <1>3. runs' = Append(Cancelled(runs), w)
    BY DEF StartComparison
  <1> HIDE DEF w
  <1>4. /\ Append(Cancelled(runs), w) # <<>>
        /\ Len(Append(Cancelled(runs), w)) = Len(runs) + 1
        /\ Append(Cancelled(runs), w)[Len(runs) + 1] = w
    BY <1>1, <1>2, AppendProperties
  <1>5. Len(runs) \in Nat
    BY DEF TypeOK
  <1>6. Newest' = w
    BY <1>3, <1>4 DEF Newest
  <1> QED BY <1>3, <1>4, <1>5, <1>6 DEF w

(* Cancelling the comparisons leaves the newest awaited, or cancelled.       *)
LEMMA CancelledAwaited ==
    ASSUME TypeOK, NewestIsAwaited, runs' = Cancelled(runs),
           UNCHANGED <<result, patterns, busy>>
    PROVE  NewestIsAwaited' /\ Len(runs') = Len(runs)
  <1>1. runs \in Seq(Comparisons) /\ Len(runs) \in Nat
    BY LenProperties DEF TypeOK
  <1>2. Len(runs') = Len(runs) /\ runs' \in Seq(Comparisons)
    BY <1>1, CancelComparisons
  <1>3. CASE runs = <<>>
    <2>1. runs' = <<>>
      BY <1>1, <1>2, <1>3, EmptySeq
    <2> QED BY <1>2, <1>3, <2>1 DEF NewestIsAwaited
  <1>4. CASE runs # <<>>
    <2>1. Len(runs) \in 1..Len(runs)
      BY <1>1, <1>4, EmptySeq
    <2>2. /\ Newest'.patterns = Newest.patterns
          /\ Newest'.state = IF Newest.state = "queued" THEN "cancelled" ELSE Newest.state
      BY <1>1, <1>2, <2>1, CancelComparisons DEF Newest
    <2>3. runs' # <<>>
      BY <1>1, <1>2, <1>4, EmptySeq
    <2>4. Profiles # {}
      BY <1>4 DEF NewestIsAwaited
    <2> QED BY <1>2, <1>4, <2>2, <2>3, <2>4 DEF NewestIsAwaited
  <1> QED BY <1>2, <1>3, <1>4

(* Only asking changes what is waited for, and it is asked with the          *)
(* exclusions then in force.                                                 *)
LEMMA AskingRefines ==
    ASSUME TypeOK, NewestIsAwaited, NEW e \in Exclusions, StartComparison(e),
           patterns' = e, result' = result
    PROVE  NewestIsAwaited' /\ Latest!Ask
  <1>1. /\ Len(runs') = Len(runs) + 1 /\ Len(runs) \in Nat
        /\ runs' # <<>> /\ Newest' = [state |-> "queued", patterns |-> e]
    BY RunsExtend
  <1>2. busy' = TRUE /\ Profiles # {}
    BY DEF StartComparison
  <1>3. result.run \in Nat /\ result.run <= Len(runs)
    BY SessionAssumption DEF TypeOK, Results, NewestIsAwaited
  <1>4. NewestIsAwaited'
    BY <1>1, <1>2, <1>3 DEF NewestIsAwaited
  <1> DEFINE request == [run |-> Len(runs) + 1, patterns |-> e]
  <1>5. Asked' = {request}
    BY <1>1, <1>2 DEF Asked
  <1>6. request \in Latest!Requests
    BY <1>1 DEF Latest!Requests
  <1>7. \A earlier \in Asked : request.run > earlier.run
    BY <1>1 DEF Asked
  <1>8. request.run > result.run
    BY <1>1, <1>3
  <1> QED BY <1>4, <1>5, <1>6, <1>7, <1>8 DEF Latest!Ask

LEMMA RunRefines ==
    ASSUME TypeOK, NewestIsAwaited, NEW n \in DOMAIN runs, RunStep(n)
    PROVE  NewestIsAwaited' /\ (Latest!Next \/ UNCHANGED <<result, Asked>>)
  <1>0. /\ runs \in Seq(Comparisons) /\ n \in 1..Len(runs) /\ Len(runs) \in Nat
        /\ runs[n] \in Comparisons /\ runs # <<>> /\ Len(runs) \in 1..Len(runs)
        /\ Profiles # {} /\ result.run \in Nat /\ busy \in BOOLEAN
    BY LenProperties, EmptySeq, SessionAssumption DEF TypeOK, NewestIsAwaited, Results
  <1>a. ASSUME NEW w \in Comparisons, runs' = [runs EXCEPT ![n] = w]
        PROVE  /\ Len(runs') = Len(runs) /\ runs' # <<>>
               /\ Newest' = IF n = Len(runs) THEN w ELSE Newest
    <2>1. /\ Len(runs') = Len(runs) /\ runs' \in Seq(Comparisons)
          /\ runs'[Len(runs)] = IF n = Len(runs) THEN w ELSE runs[Len(runs)]
      BY <1>0, <1>a, ComparisonMoves
    <2> QED BY <1>0, <2>1, EmptySeq DEF Newest
  <1> DEFINE done == [runs[n] EXCEPT !.state = "ended"]
  <1>b. done \in Comparisons /\ done.state = "ended"
    BY <1>0 DEF Comparisons, RunStates
  <1>c. [runs EXCEPT ![n].state = "ended"] = [runs EXCEPT ![n] = done]
    OBVIOUS
  <1> HIDE DEF done
  <1>1. CASE StartRun(n)
    <2> DEFINE w == [state |-> "running", patterns |-> patterns]
    <2>1. w \in Comparisons
      BY DEF TypeOK, Comparisons, RunStates
    <2>2. runs' = [runs EXCEPT ![n] = w]
      BY <1>1 DEF StartRun
    <2>3. Len(runs') = Len(runs) /\ runs' # <<>> /\ Newest' = IF n = Len(runs) THEN w ELSE Newest
      <3> HIDE DEF w
      <3> QED BY <1>a, <2>1, <2>2
    <2>4. UNCHANGED <<result, patterns, busy>> /\ runs[n].state = "queued"
      BY <1>1 DEF StartRun
    <2>5. UNCHANGED <<result, Asked>>
      BY <2>3, <2>4 DEF Asked
    <2>6. NewestIsAwaited'
      BY <1>0, <2>3, <2>4 DEF NewestIsAwaited, Newest
    <2> QED BY <2>5, <2>6
  <1>d. ASSUME runs' = [runs EXCEPT ![n].state = "ended"], runs[n].state = "running",
               UNCHANGED patterns
        PROVE  /\ Len(runs') = Len(runs) /\ runs' # <<>>
               /\ n = Len(runs) => Newest'.state = "ended" /\ busy /\ runs[n].patterns = patterns
               /\ n # Len(runs) => Newest' = Newest
    BY <1>0, <1>a, <1>b, <1>c, <1>d DEF NewestIsAwaited, Newest
  <1>e. ASSUME runs' = [runs EXCEPT ![n].state = "ended"], runs[n].state = "running",
               UNCHANGED <<result, patterns, busy>>
        PROVE  NewestIsAwaited' /\ UNCHANGED <<result, Asked>>
    <2>1. UNCHANGED <<result, Asked>>
      BY <1>d, <1>e DEF Asked
    <2>2. NewestIsAwaited'
      BY <1>0, <1>d, <1>e DEF NewestIsAwaited
    <2> QED BY <2>1, <2>2
  <1>2. CASE EndRun(n)
    <2>1. /\ runs' = [runs EXCEPT ![n].state = "ended"] /\ runs[n].state = "running"
          /\ UNCHANGED patterns
      BY <1>2 DEF EndRun
    <2>2. ASSUME NEW found \in Outcomes, n = Len(runs),
                 Show([run |-> n, patterns |-> runs[n].patterns, findings |-> found])
          PROVE  NewestIsAwaited' /\ Latest!Answer
      <3>1. result' = [run |-> n, patterns |-> patterns, findings |-> found] /\ busy' = FALSE
        BY <1>d, <2>1, <2>2 DEF Show
      <3>2. NewestIsAwaited'
        BY <1>0, <1>d, <2>1, <2>2, <3>1 DEF NewestIsAwaited
      <3>3. Asked = {[run |-> n, patterns |-> patterns]} /\ Asked' = {}
        BY <1>d, <2>1, <2>2, <3>1 DEF Asked
      <3>4. result' \in Latest!Results
        BY <1>0, <3>1, SessionAssumption DEF Latest!Results, TypeOK
      <3> QED BY <3>1, <3>2, <3>3, <3>4 DEF Latest!Answer
    <2>3. CASE UNCHANGED <<result, busy>>
      BY <1>e, <2>1, <2>3
    <2> QED BY <1>2, <2>2, <2>3 DEF EndRun, Latest!Next
  <1>3. CASE FailRun(n)
    <2>1. /\ runs' = [runs EXCEPT ![n].state = "ended"] /\ runs[n].state = "running"
          /\ UNCHANGED <<result, patterns>>
          /\ busy' = (busy /\ ~(n = Len(runs) /\ ~over))
      BY <1>3 DEF FailRun
    <2>2. CASE n = Len(runs) /\ ~over
      <3>1. busy' = FALSE /\ busy
        BY <1>d, <2>1, <2>2
      <3>2. NewestIsAwaited'
        BY <1>0, <1>d, <2>1, <2>2, <3>1 DEF NewestIsAwaited
      <3>3. Asked # {} /\ Asked' = {}
        BY <3>1 DEF Asked
      <3> QED BY <2>1, <3>2, <3>3 DEF Latest!Fail, Latest!Next
    <2>3. CASE ~(n = Len(runs) /\ ~over)
      <3>1. busy' = busy
        BY <1>0, <2>1, <2>3
      <3> QED BY <1>e, <2>1, <3>1
    <2> QED BY <2>2, <2>3
  <1> QED BY <1>1, <1>2, <1>3 DEF RunStep

LEMMA StepRefines ==
    ASSUME TypeOK, NewestIsAwaited, [Next]_vars
    PROVE  NewestIsAwaited' /\ (Latest!Next \/ UNCHANGED <<result, Asked>>)
  <1>0. runs \in Seq(Comparisons) /\ patterns \in Exclusions
    BY DEF TypeOK
  <1>a. CASE UNCHANGED <<result, patterns, busy, runs>>
    BY <1>a DEF NewestIsAwaited, Newest, Asked
  <1>b. CASE runs' = Cancelled(runs) /\ UNCHANGED <<result, patterns, busy>>
    BY <1>b, CancelledAwaited DEF Asked
  <1>1. CASE Recompare
    BY <1>0, <1>1, AskingRefines DEF Recompare, Latest!Next
  <1>2. CASE EditExclusions
    <2>1. PICK e \in Exclusions :
             /\ patterns' = e
             /\ IF Profiles = {} THEN UNCHANGED <<busy, runs, reports>> ELSE StartComparison(e)
      BY <1>2 DEF EditExclusions
    <2>2. result' = result
      BY <1>2 DEF EditExclusions
    <2>3. CASE Profiles = {}
      <3>1. runs = <<>> /\ runs' = <<>> /\ ~busy /\ busy' = busy
        BY <2>1, <2>3 DEF NewestIsAwaited
      <3> QED BY <2>2, <3>1 DEF NewestIsAwaited, Asked
    <2> QED BY <2>1, <2>2, <2>3, AskingRefines DEF Latest!Next
  <1>3. CASE AskReports \/ Quit
    BY <1>3, <1>b DEF AskReports, Quit
  <1>4. CASE TypeFilter \/ OpenDecisions \/ AskToQuit \/ CloseScreen
    BY <1>4, <1>a DEF TypeFilter, OpenDecisions, AskToQuit, CloseScreen
  <1>5. ASSUME NEW k \in DOMAIN reports, BatchStep(k)
        PROVE  UNCHANGED <<result, patterns, busy, runs>>
    BY <1>5 DEF BatchStep, StartBatch, WriteHtml, WritePdf, WriteExcel
  <1>6. CASE Tick \/ UNCHANGED vars
    BY <1>6, <1>a DEF Tick
  <1> QED BY <1>1, <1>2, <1>3, <1>4, <1>5, <1>6, <1>a, RunRefines DEF Next, User

(* The session implements LatestResult, for every bound on its comparisons   *)
(* and reports: what is displayed answers the newest comparison.             *)
THEOREM NewestResultIsShown == Spec => NewestIsShown
  <1>1. Init => Latest!Init
    BY SessionAssumption DEF Init, Latest!Init, Latest!Results, Results, Asked
  <1>2. TypeOK /\ NewestIsAwaited /\ [Next]_vars
          => NewestIsAwaited' /\ [Latest!Next]_<<result, Asked>>
    BY StepRefines
  <1> QED BY <1>1, <1>2, InitTypes, NextTypes, AwaitedStarts, PTL
          DEF Spec, NewestIsShown, Latest!Spec
=============================================================================
