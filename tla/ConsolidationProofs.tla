-------------------------- MODULE ConsolidationProofs --------------------------
(***************************************************************************)
(* Proofs about the decision screen and the files it leaves: for every     *)
(* comparison, every sequence of clicks and failures, and every name.      *)
(***************************************************************************)
EXTENDS ConsolidationSafety, FiniteSetTheorems, WellFoundedInduction, TLAPS

-----------------------------------------------------------------------------
(* What a generation writes.                                                 *)

(* A file is torn, a report, an undo script, or the forward script of a      *)
(* profile, with the steps the resolutions have for it.                      *)
ContentOf(content, resolutions) ==
    \/ content.kind \in {"torn", "report", "undo"}
    \/ \E p : content = ScriptContent("forward", p, resolutions)

WriteOf(w, resolutions) ==
    w = [name |-> w.name, content |-> w.content] /\ ContentOf(w.content, resolutions)

AllOf(writes, resolutions) == \A i \in DOMAIN writes : WriteOf(writes[i], resolutions)

LEMMA PlanHasContent ==
    ASSUME NEW resolutions
    PROVE  /\ AllOf(Plan(resolutions), resolutions)
           /\ Plan(resolutions) \in Seq(Range(Plan(resolutions)))
<1> DEFINE profiles == SortedProfiles(resolutions)
           pair(p) == <<[name |-> ForwardName(StemOf(resolutions, p)),
                         content |-> ScriptContent("forward", p, resolutions)],
                        [name |-> UndoName(StemOf(resolutions, p)),
                         content |-> ScriptContent("undo", p, resolutions)]>>
           scripts == [i \in 1 .. 2 * Len(profiles) |-> pair(profiles[(i + 1) \div 2])[2 - (i % 2)]]
           report == [name |-> ReportName, content |-> ReportContent(resolutions)]
<1>1. Plan(resolutions) = scripts \o <<report>>
  BY DEF Plan
<1>2. \A p : WriteOf(pair(p)[1], resolutions) /\ WriteOf(pair(p)[2], resolutions)
  BY DEF WriteOf, ContentOf, ScriptContent
<1>3. WriteOf(report, resolutions)
  BY DEF WriteOf, ContentOf, ReportContent
<1>4. Len(profiles) \in Nat
  BY DEF SortedProfiles
<1>5. \A i \in 1 .. 2 * Len(profiles) : WriteOf(scripts[i], resolutions)
  <2> SUFFICES ASSUME NEW i \in 1 .. 2 * Len(profiles)
               PROVE  WriteOf(scripts[i], resolutions)
    OBVIOUS
  <2>1. 2 - (i % 2) \in {1, 2}
    BY <1>4
  <2>2. PICK p : scripts[i] = pair(p)[1] \/ scripts[i] = pair(p)[2]
    BY <2>1
  <2> HIDE DEF pair, scripts
  <2>3. QED
    BY <1>2, <2>2
<1> DEFINE all == Range(scripts) \cup {report}
<1> HIDE DEF pair, report, profiles
<1>6. scripts \in Seq(all)
  BY <1>4 DEF Range
<1>7. Len(scripts) = 2 * Len(profiles) /\ Len(scripts) \in Nat
  BY <1>4
<1> HIDE DEF scripts
<1> DEFINE plan == scripts \o <<report>>
<1>8. plan \in Seq(all) /\ Len(plan) = Len(scripts) + 1 /\ DOMAIN plan = 1 .. Len(plan)
  BY <1>6, <1>7
<1>9. \A i \in 1 .. Len(scripts) : plan[i] = scripts[i]
  BY <1>6, <1>7
<1>10. plan[Len(scripts) + 1] = report
  BY <1>6, <1>7
<1> HIDE DEF plan, all
<1>11. \A i \in DOMAIN plan : WriteOf(plan[i], resolutions)
  <2> SUFFICES ASSUME NEW i \in DOMAIN plan PROVE WriteOf(plan[i], resolutions)
    OBVIOUS
  <2>1. i \in 1 .. Len(scripts) \/ i = Len(scripts) + 1
    BY <1>7, <1>8
  <2>2. QED
    BY <1>3, <1>5, <1>7, <1>9, <1>10, <2>1
<1>12. Plan(resolutions) = plan
  BY <1>1 DEF plan
<1>13. plan \in Seq(Range(plan))
  BY <1>8 DEF Range
<1>14. QED
  BY <1>11, <1>12, <1>13 DEF AllOf

(* What is written keeps to what is confirmed.                               *)
DropConfirmed(content, items) ==
    content.kind = "forward" =>
        \A step \in content.steps :
            step.action \in {"drop table", "drop column"} =>
                \E item \in items : /\ item.action = step.action
                                    /\ item.name = <<Key[step.table], step.column>>
                                    /\ content.profile \in item.profiles

LEMMA ContentIsConfirmed ==
    ASSUME NEW resolutions, NEW content, ContentOf(content, resolutions)
    PROVE  DropConfirmed(content, DropsIn(resolutions))
<1> SUFFICES ASSUME content.kind = "forward", NEW step \in content.steps,
                    step.action \in {"drop table", "drop column"}
             PROVE  \E item \in DropsIn(resolutions) :
                        /\ item.action = step.action
                        /\ item.name = <<Key[step.table], step.column>>
                        /\ content.profile \in item.profiles
  BY DEF DropConfirmed
<1>1. PICK p : content = ScriptContent("forward", p, resolutions)
  BY DEF ContentOf
<1>2. content.profile = p /\ content.steps = StepsOf(p, resolutions)
  BY <1>1 DEF ScriptContent
<1>3. PICK r \in resolutions : p \in r.dests /\ step = Step(p, r)
  BY <1>2 DEF StepsOf
<1>4. step.action = r.action /\ step.table = r.table /\ step.column = r.column
  BY <1>3 DEF Step
<1>5. r \in Drops(resolutions)
  BY <1>4 DEF Drops
<1> DEFINE item == [action |-> r.action, name |-> <<Key[r.table], r.column>>, profiles |-> r.dests]
<1>6. item \in DropsIn(resolutions)
  BY <1>5 DEF DropsIn
<1>7. QED
  BY <1>2, <1>3, <1>4, <1>6

(* A file is one that was there, or one of those written.                    *)
LEMMA PutWrites ==
    ASSUME NEW disk, NEW writes, NEW f \in DOMAIN Put(disk, writes)
    PROVE  \/ f \in DOMAIN disk /\ Put(disk, writes)[f] = disk[f]
           \/ \E i \in DOMAIN writes : /\ f = <<clock, Folded(writes[i].name)>>
                                       /\ Put(disk, writes)[f] = writes[i].content
<1> DEFINE at(i) == <<clock, Folded(writes[i].name)>>
           kept == {i \in DOMAIN writes : \A j \in DOMAIN writes : j > i => at(j) # at(i)}
<1>1. Put(disk, writes) =
        [g \in DOMAIN disk \cup {at(i) : i \in kept} |->
           IF \E i \in kept : at(i) = g THEN writes[CHOOSE i \in kept : at(i) = g].content
                                       ELSE disk[g]]
  BY DEF Put
<1> HIDE DEF at
<1>2. f \in DOMAIN disk \cup {at(i) : i \in kept}
  BY <1>1
<1>3. CASE \E i \in kept : at(i) = f
  <2> DEFINE n == CHOOSE i \in kept : at(i) = f
  <2>1. n \in kept /\ at(n) = f
    BY <1>3
  <2>2. Put(disk, writes)[f] = writes[n].content
    BY <1>1, <1>2, <1>3
  <2>3. QED
    BY <2>1, <2>2 DEF at
<1>4. CASE ~\E i \in kept : at(i) = f
  BY <1>1, <1>2, <1>4
<1>5. QED
  BY <1>3, <1>4

(* What `write_sql_scripts' leaves, whether it ends or fails.                *)
LEMMA ScriptsAreWritten ==
    ASSUME NEW resolutions, NEW asked, WriteScripts(resolutions, asked), NEW f \in DOMAIN files'
    PROVE  \/ f \in DOMAIN files /\ files'[f] = files[f]
           \/ ContentOf(files'[f], resolutions)
<1> DEFINE plan == Plan(resolutions)
<1>1. AllOf(plan, resolutions) /\ plan \in Seq(Range(plan))
  BY PlanHasContent
<1>2. ASSUME NEW writes, files' = Put(files, writes), AllOf(writes, resolutions)
      PROVE  (f \in DOMAIN files /\ files'[f] = files[f]) \/ ContentOf(files'[f], resolutions)
  BY <1>2, PutWrites DEF AllOf, WriteOf
<1> HIDE DEF plan
<1>3. CASE WriteAll(resolutions, asked)
  BY <1>1, <1>2, <1>3 DEF WriteAll, plan
<1>4. CASE WriteSome(resolutions)
  <2>1. PICK n \in 0 .. Len(plan) - 1 :
          \/ files' = Put(files, SubSeq(plan, 1, n))
          \/ files' = Put(files, Append(SubSeq(plan, 1, n), [plan[n + 1] EXCEPT !.content = Torn]))
    BY <1>4 DEF WriteSome, plan
  <2> DEFINE done == SubSeq(plan, 1, n)
             torn == [plan[n + 1] EXCEPT !.content = Torn]
  <2>2. /\ done \in Seq(Range(plan)) /\ Len(done) = n /\ DOMAIN done = 1 .. n
        /\ \A i \in 1 .. n : done[i] = plan[i] /\ i \in DOMAIN plan
        /\ n + 1 \in DOMAIN plan
    BY <1>1
  <2>3. AllOf(done, resolutions)
    BY <1>1, <2>2 DEF AllOf
  <2>4. WriteOf(torn, resolutions)
    <3>1. WriteOf(plan[n + 1], resolutions)
      BY <1>1, <2>2 DEF AllOf
    <3>2. torn = [name |-> plan[n + 1].name, content |-> Torn]
      BY <3>1 DEF WriteOf
    <3>3. QED
      BY <3>2 DEF WriteOf, ContentOf, Torn
  <2> HIDE DEF done, torn
  <2>5. AllOf(Append(done, torn), resolutions)
    <3> DEFINE all == Range(plan) \cup {torn}
    <3>1. done \in Seq(all) /\ torn \in all
      <4>1. \A i \in 1 .. n : done[i] \in all
        BY <2>2
      <4>2. QED
        BY <2>2, <4>1
    <3> HIDE DEF all
    <3>2. /\ DOMAIN Append(done, torn) = 1 .. n + 1
          /\ Append(done, torn)[n + 1] = torn
          /\ \A i \in 1 .. n : Append(done, torn)[i] = done[i]
      BY <2>2, <3>1
    <3>3. \A i \in DOMAIN Append(done, torn) : i \in DOMAIN done \/ i = n + 1
      BY <2>2, <3>2
    <3>4. QED
      BY <2>2, <2>3, <2>4, <3>2, <3>3 DEF AllOf
  <2>6. QED
    BY <1>2, <2>1, <2>3, <2>5 DEF done, torn
<1>5. CASE WriteNothing(resolutions)
  BY <1>5 DEF WriteNothing
<1>6. QED
  BY <1>3, <1>4, <1>5 DEF WriteScripts

-----------------------------------------------------------------------------
(* The steps of the screen, by what they do to the disk.                     *)

LEMMA Disk ==
    ASSUME [Next]_vars
    PROVE  \/ UNCHANGED <<files, confirmed>>
           \/ /\ confirmed' = confirmed
              /\ \E asked : WriteScripts(BuildResolutions(decisions, options), asked)
              /\ Drops(BuildResolutions(decisions, options)) = {}
           \/ /\ dialog.kind = "drop" /\ confirmed' = confirmed \cup DropsIn(dialog.resolutions)
              /\ WriteScripts(dialog.resolutions, dialog.asked)
<1> USE DEF history, screen, Edit
<1>1. CASE GenerateSql
  BY <1>1 DEF GenerateSql
<1>2. CASE ConfirmDrops
  BY <1>2 DEF ConfirmDrops
<1>3. CASE ShowForm \/ Back \/ ConfirmDiscard \/ CancelDialog \/ NextSecond
  BY <1>3 DEF ShowForm, Back, ConfirmDiscard, CancelDialog, NextSecond
<1>4. CASE UNCHANGED vars
  BY <1>4 DEF vars
<1>5. ASSUME NEW card, \/ \E target \in Targets(card) : Press(card, target)
                       \/ \E p \in Profiles : Tick(card, p)
                       \/ HandleRadio(card) \/ HandleTicks(card)
                       \/ \E fill \in {{}} \cup {{v} : v \in FillValues} : TypeFill(card, fill)
                       \/ ToggleAccept(card)
      PROVE  UNCHANGED <<files, confirmed>>
  BY <1>5 DEF Press, Tick, HandleRadio, HandleTicks, TypeFill, ToggleAccept
<1>6. QED
  BY <1>1, <1>2, <1>3, <1>4, <1>5 DEF Next

(* A script drops nothing but what a dialog listed and the user confirmed,   *)
(* whatever is ticked, typed or fails meanwhile (`action_generate_sql').     *)
THEOREM NoUnconfirmedDrop == Spec => []DropsWereConfirmed
<1> DEFINE Confirmed == \A f \in DOMAIN files : DropConfirmed(files[f], confirmed)
<1>1. Confirmed <=> DropsWereConfirmed
  BY DEF DropsWereConfirmed, Written, DropConfirmed
<1>2. Init => Confirmed
  BY DEF Init
<1>3. Confirmed /\ [Next]_vars => Confirmed'
  <2> SUFFICES ASSUME Confirmed, [Next]_vars, NEW f \in DOMAIN files'
               PROVE  DropConfirmed(files'[f], confirmed')
    OBVIOUS
  <2>1. confirmed \subseteq confirmed'
    BY Disk
  <2>2. CASE f \in DOMAIN files /\ files'[f] = files[f]
    BY <2>1, <2>2 DEF DropConfirmed
  <2>3. ASSUME NEW resolutions, ContentOf(files'[f], resolutions),
               DropsIn(resolutions) \subseteq confirmed'
        PROVE  DropConfirmed(files'[f], confirmed')
    BY <2>3, ContentIsConfirmed DEF DropConfirmed
  <2>4. CASE UNCHANGED <<files, confirmed>>
    BY <2>2, <2>4
  <2>5. ASSUME NEW asked, WriteScripts(BuildResolutions(decisions, options), asked),
               Drops(BuildResolutions(decisions, options)) = {}
        PROVE  DropConfirmed(files'[f], confirmed')
    <3>1. DropsIn(BuildResolutions(decisions, options)) = {}
      BY <2>5 DEF DropsIn
    <3>2. QED
      BY <2>2, <2>3, <2>5, <3>1, ScriptsAreWritten
  <2>6. CASE /\ confirmed' = confirmed \cup DropsIn(dialog.resolutions)
             /\ WriteScripts(dialog.resolutions, dialog.asked)
    BY <2>2, <2>3, <2>6, ScriptsAreWritten
  <2>7. QED
    BY <2>4, <2>5, <2>6, Disk
<1>4. Spec => []Confirmed
  BY <1>2, <1>3, PTL DEF Spec
<1>5. QED
  BY <1>1, <1>4, PTL

-----------------------------------------------------------------------------
(* Cards and the tables compared.                                            *)

(* What a card says of the databases: where the table, or the column, is     *)
(* and as what, and where it is missing.                                     *)
TrueOfTables(card) ==
    /\ card.kind \in {"table", "column", "mismatch"}
    /\ PresentProfiles(card) \subseteq DOMAIN compared /\ card.missing \subseteq DOMAIN compared
    /\ \A p \in PresentProfiles(card) :
         /\ TableAt(p, card.table) # {}
         /\ card.kind = "table" => TableAt(p, card.table) = {card.present[p]}
         /\ card.kind # "table" => ColumnAt(p, card.table, card.column) = {card.present[p]}
    /\ \A p \in card.missing :
         /\ card.kind = "table" => TableAt(p, card.table) = {}
         /\ card.kind # "table" => /\ TableAt(p, card.table) # {}
                                   /\ ColumnAt(p, card.table, card.column) = {}

LEMMA ColumnOfTable ==
    ASSUME NEW p, NEW n, NEW columns, TableAt(p, n) = {columns}, NEW c
    PROVE  ColumnAt(p, n, c) = IF c \in DOMAIN columns THEN {columns[c]} ELSE {}
BY DEF ColumnAt

LEMMA TableEntry ==
    ASSUME NEW m \in MissingObjects(compared), NEW e,
           e = [kind |-> "table", table |-> m.object, column |-> "",
                missing |-> {m.missing_from_profile},
                present |-> PresentColumns(compared, m.object)]
    PROVE  TrueOfTables(e)
<1>1. /\ m.missing_from_profile \in DOMAIN compared
      /\ m.object \notin DOMAIN compared[m.missing_from_profile]
  BY DEF MissingObjects
<1>2. PresentProfiles(e) = {p \in DOMAIN compared : m.object \in DOMAIN compared[p]}
  BY DEF PresentProfiles, PresentColumns, Having
<1>3. \A p \in PresentProfiles(e) : e.present[p] = compared[p][m.object].columns
  BY <1>2 DEF PresentColumns, Having
<1>4. QED
  BY <1>1, <1>2, <1>3 DEF TrueOfTables, TableAt

LEMMA ColumnEntry ==
    ASSUME NEW m \in MissingColumns(compared), NEW e,
           e = [kind |-> "column", table |-> m.table, column |-> m.finding.object,
                missing |-> {m.finding.missing_from_profile},
                present |-> PresentAttributes(compared, m.table, m.finding.object)]
    PROVE  TrueOfTables(e)
<1> DEFINE columns == ColumnsAt(compared, m.table)
<1>1. m.finding \in MissingObjects(columns)
  BY DEF MissingColumns, ByTable
<1>2. /\ m.finding.missing_from_profile \in DOMAIN columns
      /\ m.finding.object \notin DOMAIN columns[m.finding.missing_from_profile]
  BY <1>1 DEF MissingObjects
<1>3. /\ DOMAIN columns = {p \in DOMAIN compared : m.table \in DOMAIN compared[p]}
      /\ \A p \in DOMAIN columns : columns[p] = compared[p][m.table].columns
  BY DEF ColumnsAt, Having
<1>4. /\ PresentProfiles(e) = {p \in DOMAIN columns : m.finding.object \in DOMAIN columns[p]}
      /\ \A p \in PresentProfiles(e) : e.present[p] = columns[p][m.finding.object]
  BY DEF PresentProfiles, PresentAttributes, Having
<1> HIDE DEF columns
<1>5. \A p \in DOMAIN columns : TableAt(p, m.table) = {columns[p]}
  BY <1>3 DEF TableAt
<1>6. \A p \in DOMAIN columns :
        ColumnAt(p, m.table, m.finding.object) =
          IF m.finding.object \in DOMAIN columns[p] THEN {columns[p][m.finding.object]} ELSE {}
  BY <1>5, ColumnOfTable
<1>7. DOMAIN columns \subseteq DOMAIN compared
  BY <1>3
<1>8. e.kind = "column" /\ e.table = m.table /\ e.column = m.finding.object
      /\ e.missing = {m.finding.missing_from_profile}
  OBVIOUS
<1>9. PresentProfiles(e) \subseteq DOMAIN columns
  BY <1>4
<1>10. \A p \in PresentProfiles(e) :
         /\ TableAt(p, e.table) = {columns[p]}
         /\ ColumnAt(p, e.table, e.column) = {e.present[p]}
  <2> TAKE p \in PresentProfiles(e)
  <2>1. p \in DOMAIN columns /\ m.finding.object \in DOMAIN columns[p]
        /\ e.present[p] = columns[p][m.finding.object]
    BY <1>4
  <2>2. ColumnAt(p, m.table, m.finding.object) = {columns[p][m.finding.object]}
    BY <1>6, <2>1
  <2>3. QED
    BY <1>5, <1>8, <2>1, <2>2
<1>11. \A p \in e.missing : /\ p \in DOMAIN columns /\ TableAt(p, e.table) = {columns[p]}
                            /\ ColumnAt(p, e.table, e.column) = {}
  BY <1>2, <1>5, <1>6, <1>8
<1>12. PresentProfiles(e) \subseteq DOMAIN compared /\ e.missing \subseteq DOMAIN compared
  BY <1>7, <1>9, <1>11
<1>13. \A p \in PresentProfiles(e) : TableAt(p, e.table) # {}
  BY <1>10
<1>14. \A p \in e.missing : TableAt(p, e.table) # {}
  BY <1>11
<1>15. e.kind = "column"
  BY <1>8
<1>16. QED
  BY <1>10, <1>11, <1>12, <1>13, <1>14, <1>15, Zenon DEF TrueOfTables

LEMMA MismatchEntry ==
    ASSUME NEW m \in ColumnMismatches(compared), NEW e,
           e = [kind |-> "mismatch", table |-> m.table, column |-> m.finding.object,
                missing |-> {}, present |-> m.finding.values_by_profile]
    PROVE  TrueOfTables(e)
<1> DEFINE columns == ColumnsAt(compared, m.table)
<1>1. m.finding \in Mismatches(columns, DOMAIN columns)
  BY DEF ColumnMismatches, ByTable
<1>2. m.finding.values_by_profile =
        [p \in Having(columns, DOMAIN columns, m.finding.object) |-> columns[p][m.finding.object]]
  <2> HIDE DEF columns
  <2> DEFINE values(n) == [p \in Having(columns, DOMAIN columns, n) |-> columns[p][n]]
  <2>1. Mismatches(columns, DOMAIN columns) =
          {[object |-> n, values_by_profile |-> values(n)] :
             n \in {n \in Union(columns, DOMAIN columns) : Differ(values(n))}}
    BY DEF Mismatches
  <2> HIDE DEF values
  <2>2. PICK n : m.finding = [object |-> n, values_by_profile |-> values(n)]
    BY <1>1, <2>1
  <2>3. m.finding.object = n /\ m.finding.values_by_profile = values(n)
    BY <2>2
  <2>4. QED
    BY <2>3 DEF values
<1>3. /\ DOMAIN columns = {p \in DOMAIN compared : m.table \in DOMAIN compared[p]}
      /\ \A p \in DOMAIN columns : columns[p] = compared[p][m.table].columns
  BY DEF ColumnsAt, Having
<1>4. /\ PresentProfiles(e) = {p \in DOMAIN columns : m.finding.object \in DOMAIN columns[p]}
      /\ \A p \in PresentProfiles(e) : e.present[p] = columns[p][m.finding.object]
  BY <1>2 DEF PresentProfiles, Having
<1> HIDE DEF columns
<1>5. \A p \in DOMAIN columns : TableAt(p, m.table) = {columns[p]}
  BY <1>3 DEF TableAt
<1>6. \A p \in DOMAIN columns :
        ColumnAt(p, m.table, m.finding.object) =
          IF m.finding.object \in DOMAIN columns[p] THEN {columns[p][m.finding.object]} ELSE {}
  BY <1>5, ColumnOfTable
<1>7. DOMAIN columns \subseteq DOMAIN compared
  BY <1>3
<1>8. e.kind = "mismatch" /\ e.table = m.table /\ e.column = m.finding.object
      /\ e.missing = {}
  OBVIOUS
<1>9. PresentProfiles(e) \subseteq DOMAIN columns
  BY <1>4
<1>10. \A p \in PresentProfiles(e) :
         /\ TableAt(p, e.table) = {columns[p]}
         /\ ColumnAt(p, e.table, e.column) = {e.present[p]}
  <2> TAKE p \in PresentProfiles(e)
  <2>1. p \in DOMAIN columns /\ m.finding.object \in DOMAIN columns[p]
        /\ e.present[p] = columns[p][m.finding.object]
    BY <1>4
  <2>2. ColumnAt(p, m.table, m.finding.object) = {columns[p][m.finding.object]}
    BY <1>6, <2>1
  <2>3. QED
    BY <1>5, <1>8, <2>1, <2>2
<1>11. QED
  BY <1>7, <1>8, <1>9, <1>10 DEF TrueOfTables

IsEntry(e) == e = [kind |-> e.kind, table |-> e.table, column |-> e.column,
                   missing |-> e.missing, present |-> e.present]

LEMMA EntriesAreTrue == \A e \in Entries(compared) : IsEntry(e) /\ TrueOfTables(e)
<1> SUFFICES ASSUME NEW e \in Entries(compared) PROVE IsEntry(e) /\ TrueOfTables(e)
  OBVIOUS
<1> DEFINE ofTable(m) ==
             [kind |-> "table", table |-> m.object, column |-> "",
              missing |-> {m.missing_from_profile}, present |-> PresentColumns(compared, m.object)]
           ofColumn(m) ==
             [kind |-> "column", table |-> m.table, column |-> m.finding.object,
              missing |-> {m.finding.missing_from_profile},
              present |-> PresentAttributes(compared, m.table, m.finding.object)]
           ofMismatch(m) ==
             [kind |-> "mismatch", table |-> m.table, column |-> m.finding.object,
              missing |-> {}, present |-> m.finding.values_by_profile]
<1>1. \/ \E m \in MissingObjects(compared) : e = ofTable(m)
      \/ \E m \in MissingColumns(compared) : e = ofColumn(m)
      \/ \E m \in ColumnMismatches(compared) : e = ofMismatch(m)
  BY DEF Entries
<1>2. CASE \E m \in MissingObjects(compared) : e = ofTable(m)
  BY <1>2, TableEntry DEF IsEntry
<1>3. CASE \E m \in MissingColumns(compared) : e = ofColumn(m)
  BY <1>3, ColumnEntry DEF IsEntry
<1>4. CASE \E m \in ColumnMismatches(compared) : e = ofMismatch(m)
  BY <1>4, MismatchEntry DEF IsEntry
<1>5. QED
  BY <1>1, <1>2, <1>3, <1>4

(* A card of several findings is true of every profile it is missing in.     *)
LEMMA CardsAreTrue ==
    ASSUME Cards = GroupFindings(Entries(compared)), OneKeyEach, NEW card \in Cards
    PROVE  TrueOfTables(card)
<1>1. PICK e \in Entries(compared) : card = CardOf(Entries(compared), e)
  BY DEF GroupFindings
<1>2. CASE e.kind = "mismatch"
  BY <1>1, <1>2, EntriesAreTrue DEF CardOf
<1>3. CASE e.kind # "mismatch"
  <2> DEFINE siblings == Siblings(Entries(compared), e)
             first == Only(siblings)
  <2>1. e \in siblings
    BY DEF Siblings
  <2>2. first \in siblings
    BY <2>1 DEF Only
  <2>3. card = [first EXCEPT !.missing = UNION {f.missing : f \in siblings}]
    BY <1>1, <1>3 DEF CardOf
  <2>4. \A f \in siblings : /\ f \in Entries(compared) /\ f.kind = e.kind
                            /\ Key[f.table] = Key[e.table] /\ f.column = e.column
    BY DEF Siblings
  <2> HIDE DEF siblings
  <2>5. IsEntry(first) /\ TrueOfTables(first)
    BY <2>2, <2>4, EntriesAreTrue
  <2>6. /\ card.kind = first.kind /\ card.table = first.table /\ card.column = first.column
        /\ card.present = first.present
        /\ card.missing = UNION {f.missing : f \in siblings}
    <3> HIDE DEF first
    <3> DEFINE missing == UNION {f.missing : f \in siblings}
    <3> HIDE DEF missing
    <3>1. card = [first EXCEPT !.missing = missing]
      BY <2>3 DEF missing
    <3>2. card = [kind |-> first.kind, table |-> first.table, column |-> first.column,
                  missing |-> missing, present |-> first.present]
      BY <2>5, <3>1 DEF IsEntry
    <3>3. QED
      BY <3>2 DEF missing
  <2>7. \A f \in siblings : f.table = card.table /\ f.kind = card.kind /\ f.column = card.column
    BY <2>2, <2>4, <2>6 DEF OneKeyEach
  <2> HIDE DEF first
  <2>8. \A p \in card.missing : \E f \in siblings : p \in f.missing
    BY <2>6
  <2>9. \A f \in siblings : TrueOfTables(f)
    BY <2>4, EntriesAreTrue
  <2>10. PresentProfiles(card) = PresentProfiles(first)
    BY <2>6 DEF PresentProfiles
  <2>11. QED
    BY <2>5, <2>6, <2>7, <2>8, <2>9, <2>10 DEF TrueOfTables
<1>4. QED
  BY <1>2, <1>3

(* So is what is decided about it (`build_resolutions').                     *)
ResolutionFits(r) == \A p \in r.dests : Fits(p, Step(p, r))

LEMMA ResolutionsFit ==
    ASSUME NEW card, TrueOfTables(card), NEW decision, NEW option,
           decision.target \in Targets(card), Resolves(card, decision)
    PROVE  ResolutionFits(Resolution(card, decision, option))
<1> DEFINE target == decision.target
           dests == Allowed(card, decision)
           r == Resolution(card, decision, option)
<1>1. /\ r.table = card.table /\ r.column = card.column /\ r.dests = dests
      /\ r.action = Action(card, target) /\ r.to = Definition(card, target)
      /\ r.observed = IF r.action \in {"create table", "add column"} THEN <<>>
                                                                     ELSE Observed(card, dests)
  BY DEF Resolution
<1>2. target = Drop \/ (target # Drop /\ target.do = "make" /\ \E x : target = Make(x))
  <2>1. target # Nothing
    BY DEF Resolves, Decided
  <2>2. target \in {Nothing, Drop} \/ \E x : target = Make(x)
    BY DEF Targets
  <2>3. \A x : Make(x) # Drop /\ Make(x).do = "make"
    BY DEF Make, Drop
  <2>4. QED
    BY <2>1, <2>2, <2>3
<1>3. card.kind \in {"table", "column", "mismatch"}
  BY DEF TrueOfTables
<1> SUFFICES ASSUME NEW p \in dests PROVE Fits(p, Step(p, r))
  BY <1>1 DEF ResolutionFits
<1>4. p \in DestinationChoices(card, target)
  BY DEF Allowed
<1> DEFINE s == Step(p, r)
<1>5. /\ s.action = r.action /\ s.table = card.table /\ s.column = card.column /\ s.to = r.to
      /\ s.observed = {r.observed[q] : q \in {p} \cap DOMAIN r.observed}
  BY <1>1 DEF Step
<1> SUFFICES Fits(p, s)
  OBVIOUS
<1> HIDE DEF r, s
<1>6. r.action \notin {"create table", "add column"} /\ p \in PresentProfiles(card)
        => s.observed = {card.present[p]}
  <2> SUFFICES ASSUME r.action \notin {"create table", "add column"}, p \in PresentProfiles(card)
               PROVE  s.observed = {card.present[p]}
    OBVIOUS
  <2>1. r.observed = [q \in PresentProfiles(card) \cap dests |-> card.present[q]]
    BY <1>1 DEF Observed
  <2>2. p \in DOMAIN r.observed /\ r.observed[p] = card.present[p]
    BY <2>1
  <2>3. QED
    BY <1>5, <2>2
<1> HIDE DEF dests
<1>7. CASE target = Drop
  <2>1. p \in PresentProfiles(card)
    BY <1>4, <1>7 DEF DestinationChoices
  <2>2. CASE card.kind = "table"
    <3>1. r.action = "drop table"
      BY <1>1, <1>7, <2>2 DEF Action
    <3>2. QED
      BY <1>5, <1>6, <2>1, <2>2, <3>1 DEF Fits, TrueOfTables
  <2>3. CASE card.kind # "table"
    <3>1. r.action = "drop column"
      BY <1>1, <1>7, <2>3 DEF Action
    <3>2. QED
      BY <1>5, <1>6, <2>1, <2>3, <3>1 DEF Fits, TrueOfTables
  <2>4. QED
    BY <2>2, <2>3
<1>8. CASE target # Drop /\ card.kind = "table"
  <2>1. r.action = "create table"
    BY <1>1, <1>8 DEF Action
  <2>2. p \in card.missing
    BY <1>4, <1>8 DEF DestinationChoices
  <2>3. r.to # {}
    BY <1>1, <1>2, <1>8 DEF Resolves
  <2>4. QED
    BY <1>5, <1>8, <2>1, <2>2, <2>3 DEF Fits, TrueOfTables
<1>9. CASE target # Drop /\ card.kind = "column"
  <2>1. r.action = "add column"
    BY <1>1, <1>9 DEF Action
  <2>2. p \in card.missing
    BY <1>4, <1>9 DEF DestinationChoices
  <2>3. r.to # {}
    <3>1. r.to = target.as
      BY <1>1, <1>9 DEF Definition
    <3>2. PICK x : target = Make(x)
      BY <1>2, <1>9
    <3>3. target.as = {x}
      BY <3>2 DEF Make
    <3>4. QED
      BY <3>1, <3>3
  <2>4. QED
    BY <1>5, <1>9, <2>1, <2>2, <2>3 DEF Fits, TrueOfTables
<1>10. CASE target # Drop /\ card.kind = "mismatch"
  <2>1. r.action = "modify column"
    BY <1>1, <1>10 DEF Action
  <2>2. p \in PresentProfiles(card) /\ card.present[p] \notin target.as
    BY <1>4, <1>10 DEF DestinationChoices
  <2>3. r.to = target.as
    BY <1>1, <1>10 DEF Definition
  <2>4. s.observed = {card.present[p]} /\ s.to # s.observed
    BY <1>5, <1>6, <2>1, <2>2, <2>3
  <2>5. QED
    BY <1>5, <1>10, <2>1, <2>2, <2>4 DEF Fits, TrueOfTables
<1>11. QED
  BY <1>3, <1>7, <1>8, <1>9, <1>10

-----------------------------------------------------------------------------
(* The form.                                                                 *)

LEMMA CardsAreOfProfiles ==
    ASSUME Cards = GroupFindings(Entries(compared)), NEW card \in Cards
    PROVE  PresentProfiles(card) \subseteq DOMAIN compared /\ card.missing \subseteq DOMAIN compared
<1>1. PICK e \in Entries(compared) : card = CardOf(Entries(compared), e)
  BY DEF GroupFindings
<1>2. CASE e.kind = "mismatch"
  BY <1>1, <1>2, EntriesAreTrue DEF CardOf, TrueOfTables
<1>3. CASE e.kind # "mismatch"
  <2> DEFINE siblings == Siblings(Entries(compared), e)
             first == Only(siblings)
             missing == UNION {f.missing : f \in siblings}
  <2>1. e \in siblings /\ siblings \subseteq Entries(compared)
    BY DEF Siblings
  <2>2. first \in siblings
    BY <2>1 DEF Only
  <2>3. card = [first EXCEPT !.missing = missing]
    BY <1>1, <1>3 DEF CardOf
  <2> HIDE DEF siblings, first
  <2>4. IsEntry(first) /\ TrueOfTables(first)
    BY <2>1, <2>2, EntriesAreTrue
  <2>5. missing \subseteq DOMAIN compared
    BY <2>1, EntriesAreTrue DEF TrueOfTables
  <2> HIDE DEF missing
  <2>6. card = [kind |-> first.kind, table |-> first.table, column |-> first.column,
                missing |-> missing, present |-> first.present]
    BY <2>3, <2>4 DEF IsEntry
  <2>7. card.missing = missing /\ PresentProfiles(card) = PresentProfiles(first)
    BY <2>6 DEF PresentProfiles
  <2>8. QED
    BY <2>4, <2>5, <2>7 DEF TrueOfTables
<1>4. QED
  BY <1>2, <1>3

DecisionOf(card) == [target : Targets(card), dests : SUBSET Profiles]
OptionsOf == [fill : SUBSET FillValues, accept : BOOLEAN]

FormInv ==
    /\ compared \in Comparisons
    /\ Cards = GroupFindings(Entries(compared))
    /\ DOMAIN shown = Cards /\ DOMAIN options = Cards
    /\ \A c \in Cards : /\ decisions[c] \in DecisionOf(c) /\ shown[c] \in DecisionOf(c)
                        /\ options[c] \in OptionsOf
                        /\ shown[c].dests \cup decisions[c].dests
                             \subseteq DestinationChoices(c, decisions[c].target)
    /\ form = {} \/ \E c \in Cards : form = {Key[c.table]}

RestInv ==
    /\ dialog.kind \in {"none", "discard", "drop"}
    /\ outcome \in {"open", "left", "generated"}
    /\ clock \in 0 .. MaxClock
    /\ used \in [edits : 0 .. MaxEdits, failures : 0 .. MaxFailures]

LEMMA ChoicesAreProfiles ==
    ASSUME FormInv, NEW card \in Cards, NEW target
    PROVE  DestinationChoices(card, target) \subseteq Profiles
<1>1. PresentProfiles(card) \subseteq DOMAIN compared /\ card.missing \subseteq DOMAIN compared
  BY CardsAreOfProfiles DEF FormInv
<1>2. DOMAIN compared \subseteq Profiles
  BY ConsolidationAssumption DEF FormInv
<1>3. DestinationChoices(card, target) \subseteq PresentProfiles(card) \cup card.missing
  BY DEF DestinationChoices
<1>4. QED
  BY <1>1, <1>2, <1>3

LEMMA FormStarts == Init => FormInv
<1> SUFFICES ASSUME Init PROVE FormInv
  OBVIOUS
<1>1. /\ compared \in Comparisons /\ shown = decisions /\ form = {}
      /\ decisions = [c \in GroupFindings(Entries(compared)) |-> Undecided]
      /\ options = [c \in Cards |-> NoOptions]
  BY DEF Init
<1>2. \A c : Undecided \in DecisionOf(c) /\ Undecided.dests = {}
  BY DEF Undecided, DecisionOf, Targets
<1>3. NoOptions \in OptionsOf
  BY DEF NoOptions, OptionsOf
<1>4. QED
  BY <1>1, <1>2, <1>3 DEF FormInv, Cards

(* What an edit of one card leaves it a decision that may be made.           *)
LEMMA CardEdits ==
    ASSUME FormInv, NEW card \in Cards, compared' = compared, form' = form,
           DOMAIN decisions' = Cards, DOMAIN shown' = Cards, DOMAIN options' = Cards,
           \A c \in Cards \ {card} : /\ decisions'[c] = decisions[c] /\ shown'[c] = shown[c]
                                     /\ options'[c] = options[c],
           decisions'[card] \in DecisionOf(card), shown'[card] \in DecisionOf(card),
           options'[card] \in OptionsOf,
           shown'[card].dests \cup decisions'[card].dests
             \subseteq DestinationChoices(card, decisions'[card].target)
    PROVE  FormInv'
BY DEF FormInv, Cards

LEMMA FormSafe == FormInv /\ [Next]_vars => FormInv'
<1> SUFFICES ASSUME FormInv, [Next]_vars PROVE FormInv'
  OBVIOUS
<1> USE DEF history, screen, Edit
<1>1. CASE UNCHANGED <<compared, decisions, shown, options, form>>
  BY <1>1 DEF FormInv, Cards
<1>2. CASE GenerateSql \/ ConfirmDrops \/ Back \/ ConfirmDiscard \/ CancelDialog \/ NextSecond
  BY <1>1, <1>2 DEF GenerateSql, ConfirmDrops, Back, ConfirmDiscard, CancelDialog, NextSecond
<1>3. CASE UNCHANGED vars
  BY <1>1, <1>3 DEF vars
<1>4. CASE ShowForm
  <2>1. PICK card \in Cards : form' = {Key[card.table]}
    BY <1>4 DEF ShowForm
  <2>2. shown' = decisions /\ UNCHANGED <<compared, decisions, options>>
    BY <1>4 DEF ShowForm
  <2>3. QED
    BY <2>1, <2>2 DEF FormInv, Cards
<1>5. ASSUME NEW card \in Cards,
             \/ \E target \in Targets(card) : Press(card, target)
             \/ \E p \in Profiles : Tick(card, p)
             \/ HandleRadio(card) \/ HandleTicks(card)
             \/ \E fill \in {{}} \cup {{v} : v \in FillValues} : TypeFill(card, fill)
             \/ ToggleAccept(card)
      PROVE  FormInv'
  <2>1. /\ compared \in Comparisons /\ DOMAIN shown = Cards /\ DOMAIN options = Cards
        /\ decisions[card] \in DecisionOf(card) /\ shown[card] \in DecisionOf(card)
        /\ options[card] \in OptionsOf
        /\ shown[card].dests \cup decisions[card].dests
             \subseteq DestinationChoices(card, decisions[card].target)
    BY DEF FormInv
  <2>2. \A target : DestinationChoices(card, target) \subseteq Profiles
    BY ChoicesAreProfiles
  <2> USE DEF Cards
  <2>3. ASSUME NEW target \in Targets(card), Press(card, target) PROVE FormInv'
    <3>1. /\ shown' = [shown EXCEPT ![card].target = target]
          /\ UNCHANGED <<compared, decisions, options, form>>
      BY <2>3 DEF Press
    <3>2. shown'[card] = [target |-> target, dests |-> shown[card].dests]
      BY <2>1, <3>1 DEF DecisionOf
    <3>3. QED
      BY <2>1, <3>1, <3>2, CardEdits DEF DecisionOf
  <2>4. ASSUME NEW p \in Profiles, Tick(card, p) PROVE FormInv'
    <3>1. /\ p \in DestinationChoices(card, decisions[card].target)
          /\ UNCHANGED <<compared, decisions, options, form>>
          /\ DOMAIN shown' = DOMAIN shown
          /\ \A c \in DOMAIN shown \ {card} : shown'[c] = shown[c]
      BY <2>4 DEF Tick
    <3>2. shown'[card] = [target |-> shown[card].target,
                          dests |-> IF p \in shown[card].dests THEN shown[card].dests \ {p}
                                                               ELSE shown[card].dests \cup {p}]
      BY <2>1, <2>4 DEF Tick, DecisionOf
    <3>3. QED
      BY <2>1, <3>1, <3>2, CardEdits DEF DecisionOf
  <2>5. CASE HandleRadio(card)
    <3> DEFINE d == Reticked(card)
    <3>1. /\ decisions' = [decisions EXCEPT ![card] = d] /\ shown' = [shown EXCEPT ![card] = d]
          /\ UNCHANGED <<compared, options, form>>
      BY <2>5 DEF HandleRadio
    <3>2. d = [target |-> shown[card].target, dests |-> d.dests]
          /\ d.dests \subseteq DestinationChoices(card, d.target)
      BY DEF Reticked, DefaultDestinations
    <3> HIDE DEF d
    <3>3. d \in DecisionOf(card)
      BY <2>1, <2>2, <3>2 DEF DecisionOf
    <3>4. QED
      BY <2>1, <3>1, <3>2, <3>3, CardEdits
  <2>6. CASE HandleTicks(card)
    <3>1. /\ decisions' = [decisions EXCEPT ![card].dests = shown[card].dests]
          /\ UNCHANGED <<compared, shown, options, form>>
      BY <2>6 DEF HandleTicks
    <3>2. decisions'[card] = [target |-> decisions[card].target, dests |-> shown[card].dests]
      BY <2>1, <3>1 DEF DecisionOf
    <3>3. QED
      BY <2>1, <3>1, <3>2, CardEdits DEF DecisionOf
  <2>7. ASSUME NEW fill \in {{}} \cup {{v} : v \in FillValues}, TypeFill(card, fill)
        PROVE  FormInv'
    <3>1. /\ options' = [options EXCEPT ![card].fill = fill]
          /\ UNCHANGED <<compared, decisions, shown, form>>
      BY <2>7 DEF TypeFill
    <3>2. options'[card] = [fill |-> fill, accept |-> options[card].accept]
      BY <2>1, <3>1 DEF OptionsOf
    <3>3. QED
      BY <2>1, <3>1, <3>2, CardEdits DEF OptionsOf
  <2>8. CASE ToggleAccept(card)
    <3>1. /\ options' = [options EXCEPT ![card].accept = ~@]
          /\ UNCHANGED <<compared, decisions, shown, form>>
      BY <2>8 DEF ToggleAccept
    <3>2. options'[card] = [fill |-> options[card].fill, accept |-> ~options[card].accept]
      BY <2>1, <3>1 DEF OptionsOf
    <3>3. QED
      BY <2>1, <3>1, <3>2, CardEdits DEF OptionsOf
  <2>9. QED
    BY <1>5, <2>3, <2>4, <2>5, <2>6, <2>7, <2>8
<1>6. QED
  BY <1>2, <1>3, <1>4, <1>5 DEF Next

LEMMA RestSafe == RestInv /\ [Next]_vars => RestInv'
<1> SUFFICES ASSUME RestInv, [Next]_vars PROVE RestInv'
  OBVIOUS
<1> USE DEF history, screen
<1>1. /\ used = [edits |-> used.edits, failures |-> used.failures]
      /\ used.edits \in 0 .. MaxEdits /\ used.failures \in 0 .. MaxFailures
      /\ MaxEdits \in Nat /\ MaxFailures \in Nat /\ MaxClock \in Nat
  BY ConsolidationAssumption DEF RestInv
<1>2. ASSUME NEW n, used' = [used EXCEPT !.edits = @ + n], n = 1, used.edits < MaxEdits
      PROVE  used' \in [edits : 0 .. MaxEdits, failures : 0 .. MaxFailures]
  <2>1. used' = [edits |-> used.edits + 1, failures |-> used.failures]
    BY <1>1, <1>2
  <2>2. used.edits + 1 \in 0 .. MaxEdits
    BY <1>1, <1>2
  <2>3. QED
    BY <1>1, <2>1, <2>2
<1>3. ASSUME NEW resolutions, NEW asked, WriteScripts(resolutions, asked)
      PROVE  /\ outcome' \in {"open", "left", "generated"}
             /\ used' \in [edits : 0 .. MaxEdits, failures : 0 .. MaxFailures]
  <2>1. CASE WriteAll(resolutions, asked) \/ WriteNothing(resolutions)
    BY <2>1 DEF WriteAll, WriteNothing, RestInv
  <2>2. CASE WriteSome(resolutions)
    <3>1. /\ used.failures < MaxFailures /\ used' = [used EXCEPT !.failures = @ + 1]
          /\ outcome' = outcome
      BY <2>2 DEF WriteSome
    <3>2. used' = [edits |-> used.edits, failures |-> used.failures + 1]
      BY <1>1, <3>1
    <3>3. used.failures + 1 \in 0 .. MaxFailures
      BY <1>1, <3>1
    <3>4. QED
      BY <1>1, <3>1, <3>2, <3>3 DEF RestInv
  <2>3. QED
    BY <1>3, <2>1, <2>2 DEF WriteScripts
<1>4. ASSUME NEW card, \/ \E target \in Targets(card) : Press(card, target)
                       \/ \E p \in Profiles : Tick(card, p)
                       \/ \E fill \in {{}} \cup {{v} : v \in FillValues} : TypeFill(card, fill)
                       \/ ToggleAccept(card)
      PROVE  RestInv'
  <2>1. Edit
    BY <1>4 DEF Press, Tick, TypeFill, ToggleAccept
  <2>2. used' \in [edits : 0 .. MaxEdits, failures : 0 .. MaxFailures]
    BY <1>2, <2>1 DEF Edit
  <2>3. QED
    BY <2>1, <2>2 DEF Edit, RestInv
<1>5. CASE \E card \in Cards : HandleRadio(card) \/ HandleTicks(card)
  BY <1>5 DEF HandleRadio, HandleTicks, RestInv
<1>6. CASE GenerateSql
  <2>1. clock' = clock
    BY <1>6 DEF GenerateSql
  <2>2. CASE Drops(BuildResolutions(decisions, options)) = {}
    <3>1. dialog' = dialog /\ \E asked : WriteScripts(BuildResolutions(decisions, options), asked)
      BY <1>6, <2>2 DEF GenerateSql
    <3>2. QED
      BY <1>3, <2>1, <3>1 DEF RestInv
  <2>3. CASE Drops(BuildResolutions(decisions, options)) # {}
    <3>1. dialog'.kind = "drop" /\ outcome' = outcome /\ used' = used
      BY <1>6, <2>3 DEF GenerateSql
    <3>2. QED
      BY <2>1, <3>1 DEF RestInv
  <2>4. QED
    BY <2>2, <2>3
<1>7. CASE ConfirmDrops
  <2>1. dialog' = NoDialog /\ clock' = clock /\ WriteScripts(dialog.resolutions, dialog.asked)
    BY <1>7 DEF ConfirmDrops
  <2>2. QED
    BY <1>3, <2>1 DEF RestInv, NoDialog
<1>8. CASE ShowForm \/ ConfirmDiscard \/ CancelDialog
  BY <1>8 DEF ShowForm, ConfirmDiscard, CancelDialog, NoDialog, RestInv
<1>9. CASE Back
  <2>1. dialog' = dialog \/ dialog' = [NoDialog EXCEPT !.kind = "discard"]
    BY <1>9 DEF Back
  <2>2. [NoDialog EXCEPT !.kind = "discard"].kind = "discard"
    BY DEF NoDialog
  <2>3. outcome' \in {outcome, "left"} /\ clock' = clock /\ used' = used
    BY <1>9 DEF Back
  <2>4. QED
    BY <2>1, <2>2, <2>3 DEF RestInv
<1>10. CASE NextSecond
  <2>1. clock' \in 0 .. MaxClock
    BY <1>1, <1>10 DEF NextSecond, RestInv
  <2>2. QED
    BY <1>10, <2>1 DEF NextSecond, RestInv
<1>11. CASE UNCHANGED vars
  BY <1>11 DEF vars, RestInv
<1>12. QED
  BY <1>4, <1>5, <1>6, <1>7, <1>8, <1>9, <1>10, <1>11 DEF Next

LEMMA Invariance == Spec => [](FormInv /\ RestInv)
<1>1. Init => RestInv
  BY ConsolidationAssumption DEF Init, RestInv, NoDialog
<1>2. QED
  BY <1>1, FormStarts, FormSafe, RestSafe, PTL DEF Spec

(* Whatever is pressed, ticked or typed in whatever order, no box ticked is  *)
(* one the list of the target decided does not offer.                        *)
THEOREM Typing == Spec => []TypeOK
<1>1. FormInv /\ RestInv => TypeOK
  <2> SUFFICES ASSUME FormInv, RestInv PROVE TypeOK
    OBVIOUS
  <2>1. form \subseteq {Key[c.table] : c \in Cards} /\ Cardinality(form) <= 1
    <3>1. CASE form = {}
      BY <3>1, FS_EmptySet
    <3>2. CASE \E c \in Cards : form = {Key[c.table]}
      <4>1. PICK c \in Cards : form = {Key[c.table]}
        BY <3>2
      <4>2. Cardinality({Key[c.table]}) = 1
        BY FS_Singleton
      <4>3. QED
        BY <4>1, <4>2
    <3>3. QED
      BY <3>1, <3>2 DEF FormInv
  <2>2. \A c \in Cards : /\ IsDecision(c, decisions[c]) /\ IsDecision(c, shown[c])
                         /\ options[c].fill \subseteq FillValues
                         /\ options[c].accept \in BOOLEAN
                         /\ shown[c].dests \subseteq DestinationChoices(c, decisions[c].target)
    BY DEF FormInv, IsDecision, DecisionOf, OptionsOf
  <2>3. used.edits \in 0 .. MaxEdits /\ used.failures \in 0 .. MaxFailures
    BY DEF RestInv
  <2>4. QED
    BY <2>1, <2>2, <2>3 DEF FormInv, RestInv, TypeOK
<1>2. QED
  BY <1>1, Invariance, PTL

-----------------------------------------------------------------------------
(* The scripts.                                                              *)

FileFits(file) ==
    file.kind = "forward" => \A s \in file.steps : Fits(file.profile, s)

FitInv ==
    OneKeyEach =>
        /\ dialog.kind = "drop" => \A r \in dialog.resolutions : ResolutionFits(r)
        /\ \A f \in DOMAIN files : FileFits(files[f])

LEMMA BuiltFit ==
    ASSUME FormInv, OneKeyEach
    PROVE  \A r \in BuildResolutions(decisions, options) : ResolutionFits(r)
<1> TAKE r \in BuildResolutions(decisions, options)
<1>1. PICK card \in Cards : /\ Resolves(card, decisions[card])
                            /\ r = Resolution(card, decisions[card], options[card])
  BY DEF BuildResolutions, Cards
<1>2. TrueOfTables(card) /\ decisions[card].target \in Targets(card)
  BY CardsAreTrue DEF FormInv, DecisionOf
<1>3. QED
  BY <1>1, <1>2, ResolutionsFit

LEMMA ContentFits ==
    ASSUME NEW resolutions, NEW content, ContentOf(content, resolutions),
           \A r \in resolutions : ResolutionFits(r)
    PROVE  FileFits(content)
<1> SUFFICES ASSUME content.kind = "forward", NEW s \in content.steps
             PROVE  Fits(content.profile, s)
  BY DEF FileFits
<1>1. PICK p : content = ScriptContent("forward", p, resolutions)
  BY DEF ContentOf
<1>2. content.profile = p /\ content.steps = StepsOf(p, resolutions)
  BY <1>1 DEF ScriptContent
<1>3. PICK r \in resolutions : p \in r.dests /\ s = Step(p, r)
  BY <1>2 DEF StepsOf
<1>4. QED
  BY <1>2, <1>3 DEF ResolutionFits

(* The dialog holds resolutions only as long as it is up.                    *)
LEMMA DialogOrigin ==
    ASSUME [Next]_vars, dialog'.kind = "drop"
    PROVE  dialog' = dialog \/ dialog'.resolutions = BuildResolutions(decisions, options)
<1> USE DEF history, screen, Edit
<1>1. CASE GenerateSql
  BY <1>1 DEF GenerateSql
<1>2. CASE ConfirmDrops \/ ConfirmDiscard \/ CancelDialog
  BY <1>2 DEF ConfirmDrops, ConfirmDiscard, CancelDialog, NoDialog
<1>3. CASE ShowForm \/ NextSecond
  BY <1>3 DEF ShowForm, NextSecond
<1>4. CASE Back
  <2>1. dialog' = dialog \/ dialog' = [NoDialog EXCEPT !.kind = "discard"]
    BY <1>4 DEF Back
  <2>2. [NoDialog EXCEPT !.kind = "discard"].kind = "discard"
    BY DEF NoDialog
  <2>3. QED
    BY <2>1, <2>2
<1>5. CASE UNCHANGED vars
  BY <1>5 DEF vars
<1>6. ASSUME NEW card, \/ \E target \in Targets(card) : Press(card, target)
                       \/ \E p \in Profiles : Tick(card, p)
                       \/ HandleRadio(card) \/ HandleTicks(card)
                       \/ \E fill \in {{}} \cup {{v} : v \in FillValues} : TypeFill(card, fill)
                       \/ ToggleAccept(card)
      PROVE  dialog' = dialog
  BY <1>6 DEF Press, Tick, HandleRadio, HandleTicks, TypeFill, ToggleAccept
<1>7. QED
  BY <1>1, <1>2, <1>3, <1>4, <1>5, <1>6 DEF Next

(* Every step of a script written is about the tables compared, as they were *)
(* compared, whichever comparison and decisions it comes from.               *)
THEOREM ScriptsFitTheComparison == Spec => []StepsFitTheComparison
<1>1. FitInv => StepsFitTheComparison
  BY DEF FitInv, FileFits, StepsFitTheComparison, Written
<1>2. Init => FitInv
  BY DEF Init, FitInv, NoDialog
<1>3. FormInv /\ FormInv' /\ FitInv /\ [Next]_vars => FitInv'
  <2> SUFFICES ASSUME FormInv, FormInv', FitInv, [Next]_vars, OneKeyEach' PROVE FitInv'
    BY DEF FitInv
  <2>1. compared' = compared
    <3> USE DEF history, screen, Edit
    <3>1. ASSUME NEW card, \/ \E target \in Targets(card) : Press(card, target)
                           \/ \E p \in Profiles : Tick(card, p)
                           \/ HandleRadio(card) \/ HandleTicks(card)
                           \/ \E fill \in {{}} \cup {{v} : v \in FillValues} : TypeFill(card, fill)
                           \/ ToggleAccept(card)
          PROVE  compared' = compared
      BY <3>1 DEF Press, Tick, HandleRadio, HandleTicks, TypeFill, ToggleAccept
    <3>2. CASE GenerateSql \/ ConfirmDrops \/ ShowForm \/ Back \/ ConfirmDiscard
                 \/ CancelDialog \/ NextSecond \/ UNCHANGED vars
      BY <3>2 DEF GenerateSql, ConfirmDrops, ShowForm, Back, ConfirmDiscard, CancelDialog,
                  NextSecond, vars
    <3>3. QED
      BY <3>1, <3>2 DEF Next
  <2>2. OneKeyEach
    BY <2>1 DEF OneKeyEach, FormInv
  <2>3. \A r \in BuildResolutions(decisions, options) : ResolutionFits(r)
    BY <2>2, BuiltFit
  <2>4. dialog'.kind = "drop" => \A r \in dialog'.resolutions : ResolutionFits(r)
    BY <2>2, <2>3, DialogOrigin DEF FitInv
  <2>5. ASSUME NEW f \in DOMAIN files' PROVE FileFits(files'[f])
    <3>1. CASE f \in DOMAIN files /\ files'[f] = files[f]
      BY <2>2, <3>1 DEF FitInv
    <3>2. ASSUME NEW resolutions, NEW asked, WriteScripts(resolutions, asked),
                 \A r \in resolutions : ResolutionFits(r)
          PROVE  FileFits(files'[f])
      BY <3>1, <3>2, ScriptsAreWritten, ContentFits
    <3>3. CASE UNCHANGED <<files, confirmed>>
      BY <3>1, <3>3
    <3>4. dialog.kind = "drop" => \A r \in dialog.resolutions : ResolutionFits(r)
      BY <2>2 DEF FitInv
    <3>5. QED
      BY <2>3, <3>2, <3>3, <3>4, Disk
  <2>6. ASSUME NEW p, NEW s, Fits(p, s) PROVE Fits(p, s)'
    BY <2>1, <2>6 DEF Fits, TableAt, ColumnAt
  <2>7. (dialog.kind = "drop" => \A r \in dialog.resolutions : ResolutionFits(r))'
    <3> SUFFICES ASSUME dialog'.kind = "drop", NEW r \in dialog'.resolutions, NEW p \in r.dests
                 PROVE  Fits(p, Step(p, r))'
      BY DEF ResolutionFits
    <3>1. Fits(p, Step(p, r))
      BY <2>4 DEF ResolutionFits
    <3>2. QED
      BY <2>6, <3>1
  <2>8. (\A f \in DOMAIN files : FileFits(files[f]))'
    <3> SUFFICES ASSUME NEW f \in DOMAIN files', files'[f].kind = "forward",
                        NEW s \in files'[f].steps, NEW p, p = files'[f].profile
                 PROVE  Fits(p, s)'
      BY DEF FileFits
    <3>1. Fits(p, s)
      BY <2>5 DEF FileFits
    <3>2. QED
      BY <2>6, <3>1
  <2>9. QED
    BY <2>7, <2>8 DEF FitInv
<1>4. Spec => []FitInv
  BY <1>2, <1>3, Invariance, PTL DEF Spec
<1>5. QED
  BY <1>1, <1>4, PTL

-----------------------------------------------------------------------------
(* Names of files.  Numbers first: induction, over a set.                    *)

LEMMA Smallest ==
    ASSUME NEW T \in SUBSET Nat, T # {}
    PROVE  \E x \in T : \A y \in T : x <= y
<1>1. IsWellFoundedOn(OpToRel(<, Nat), Nat)
  BY NatLessThanWellFounded
<1>2. PICK x \in T : \A y \in T : <<y, x>> \notin OpToRel(<, Nat)
  BY <1>1, WFMin
<1>3. \A y \in T : ~(y < x)
  BY <1>2 DEF OpToRel
<1>4. QED
  BY <1>3

LEMMA Induction ==
    ASSUME NEW S, 0 \in S, \A n \in Nat : n \in S => n + 1 \in S
    PROVE  Nat \subseteq S
<1> SUFFICES ASSUME Nat \ S # {} PROVE FALSE
  OBVIOUS
<1>1. PICK x \in Nat \ S : \A y \in Nat \ S : x <= y
  BY Smallest
<1>2. x - 1 \in Nat /\ x - 1 \notin Nat \ S
  BY <1>1
<1>3. QED
  BY <1>1, <1>2

(* Every piece a stem may have.                                              *)
StemPieces == DOMAIN FoldPiece \cup {"_", "profile", ".", "sql", "deshacer"}
                \cup {ToString(k) : k \in Nat}
Word == Seq(StemPieces)

(* What words are made of stays words.                                       *)
LEMMA Words ==
    /\ \A x, y \in StemPieces : /\ <<x>> \in Word
                                /\ <<x, y>> \in Word /\ Len(<<x, y>>) = 2 /\ <<x, y>>[2] = y
    /\ \A w \in Word : /\ Len(w) \in Nat /\ DOMAIN w = 1 .. Len(w)
                       /\ \A x \in StemPieces : Append(w, x) \in Word
    /\ \A v, w \in Word : /\ v \o w \in Word /\ Len(v \o w) = Len(v) + Len(w)
                          /\ \A i \in 1 .. Len(v) : (v \o w)[i] = v[i]
                          /\ \A i \in 1 .. Len(w) : (v \o w)[Len(v) + i] = w[i]
<1>1. \A x, y \in StemPieces : /\ <<x>> \in Word
                              /\ <<x, y>> \in Word /\ Len(<<x, y>>) = 2 /\ <<x, y>>[2] = y
  BY DEF Word
<1>2. \A w \in Word : Len(w) \in Nat /\ DOMAIN w = 1 .. Len(w)
  BY DEF Word
<1>3. \A w \in Word : \A x \in StemPieces : Append(w, x) \in Word
  BY DEF Word
<1>4. \A v, w \in Word : /\ v \o w \in Word /\ Len(v \o w) = Len(v) + Len(w)
                         /\ \A i \in 1 .. Len(v) : (v \o w)[i] = v[i]
                         /\ \A i \in 1 .. Len(w) : (v \o w)[Len(v) + i] = w[i]
  BY DEF Word
<1>5. QED
  BY <1>1, <1>2, <1>3, <1>4

LEMMA Tags == /\ {"_", "profile", ".", "sql", "deshacer"} \subseteq StemPieces
              /\ \A k \in Nat : ToString(k) \in StemPieces
BY DEF StemPieces

LEMMA MinOf ==
    ASSUME NEW S \in SUBSET Nat, S # {}
    PROVE  Min(S) \in S
BY Smallest DEF Min

LEMMA MaxOf ==
    ASSUME NEW S \in SUBSET Nat, S # {}, NEW n \in Nat, \A x \in S : x <= n
    PROVE  Max(S) \in S /\ \A x \in S : x <= Max(S)
<1> DEFINE D == {m \in Nat : n - m \in S}
<1>1. PICK s \in S : TRUE
  OBVIOUS
<1>2. n - s \in D
  BY <1>1
<1>3. PICK m \in D : \A d \in D : m <= d
  BY <1>2, Smallest
<1>4. n - m \in S /\ \A x \in S : x <= n - m
  <2>1. \A x \in S : n - x \in D
    OBVIOUS
  <2>2. QED
    BY <1>3, <2>1
<1>5. QED
  BY <1>4 DEF Max

(* `sanitize_filename' makes a name of pieces, and not an empty one.         *)
LEMMA SanitizedIsWord ==
    ASSUME NEW name \in Seq(DOMAIN FoldPiece)
    PROVE  Sanitized(name) \in Word
<1> DEFINE cleaned == Cleaned(name)
           trimmed == Trimmed(cleaned)
<1>1. cleaned \in Word /\ DOMAIN cleaned = 1 .. Len(cleaned) /\ Len(cleaned) \in Nat
  <2>1. DOMAIN name = 1 .. Len(name) /\ Len(name) \in Nat
        /\ \A i \in DOMAIN name : name[i] \in StemPieces
    <3> DEFINE D == DOMAIN FoldPiece
    <3>1. D \subseteq StemPieces
      BY DEF StemPieces
    <3>2. name \in Seq(D)
      OBVIOUS
    <3> HIDE DEF D
    <3>3. QED
      BY <3>1, <3>2
  <2>2. "_" \in StemPieces
    BY Tags
  <2>3. \A i \in 1 .. Len(name) : cleaned[i] \in StemPieces
    BY <2>1, <2>2 DEF Cleaned
  <2>4. cleaned = [i \in 1 .. Len(name) |-> cleaned[i]]
    BY <2>1 DEF Cleaned
  <2>5. cleaned \in Seq(StemPieces)
    <3> HIDE DEF cleaned
    <3>1. QED
      BY <2>1, <2>3, <2>4
  <2>6. QED
    <3> HIDE DEF cleaned
    <3>1. QED
      BY <2>5 DEF Word
<1> HIDE DEF cleaned
<1>2. trimmed \in Word
  <2> DEFINE kept == {i \in DOMAIN cleaned :
                        /\ \E j \in 1 .. i : cleaned[j] # " "
                        /\ \E j \in i .. Len(cleaned) : cleaned[j] \notin {".", " "}}
  <2>1. trimmed = IF kept = {} THEN <<>> ELSE SubSeq(cleaned, Min(kept), Max(kept))
    BY DEF Trimmed
  <2>2. kept \subseteq 1 .. Len(cleaned)
    BY <1>1
  <2> HIDE DEF kept
  <2>3. CASE kept = {}
    BY <2>1, <2>3 DEF Word
  <2>4. CASE kept # {}
    <3>1. Min(kept) \in 1 .. Len(cleaned) /\ Max(kept) \in 1 .. Len(cleaned)
      <4>1. kept \in SUBSET Nat /\ \A x \in kept : x <= Len(cleaned)
        BY <1>1, <2>2
      <4>2. QED
        BY <1>1, <2>2, <2>4, <4>1, MinOf, MaxOf
    <3>2. \A m, n \in 1 .. Len(cleaned) : SubSeq(cleaned, m, n) \in Seq(StemPieces)
      BY <1>1 DEF Word
    <3>3. QED
      BY <2>1, <2>4, <3>1, <3>2 DEF Word
  <2>5. QED
    BY <2>3, <2>4
<1>3. Sanitized(name) \in {<<"profile">>, Append(trimmed, "_"), trimmed}
  BY DEF Sanitized, cleaned
<1> HIDE DEF trimmed
<1>4. <<"profile">> \in Word /\ Append(trimmed, "_") \in Word
  BY <1>2, Tags, Words
<1>5. QED
  BY <1>2, <1>3, <1>4

LEMMA NumberedIsWord ==
    ASSUME NEW base \in Word, NEW k \in Nat
    PROVE  Numbered(base, k) \in Word
<1>1. <<"_", ToString(k)>> \in Word
  BY Tags, Words
<1>2. base \o <<"_", ToString(k)>> \in Word
  BY <1>1, Words
<1>3. QED
  BY <1>2 DEF Numbered

(* Numbers tell stems apart, whatever the case.                              *)
LEMMA NumberedDiffer ==
    ASSUME NEW base \in Word, NEW j \in 0 .. Len(ProfileOrder), NEW k \in 0 .. Len(ProfileOrder),
           Folded(Numbered(base, j)) = Folded(Numbered(base, k))
    PROVE  j = k
<1>0. Len(ProfileOrder) \in Nat
  <2>1. ProfileOrder \in Seq(Profiles)
    BY CompareAssumption, Zenon
  <2>2. QED
    BY <2>1
<1>1. Len(base) \in Nat
  BY DEF Word
<1>2. \A n \in Nat \ {0} : /\ DOMAIN Numbered(base, n) = 1 .. Len(base) + 2
                           /\ Numbered(base, n)[Len(base) + 2] = ToString(n)
  <2> TAKE n \in Nat \ {0}
  <2> DEFINE tail == <<"_", ToString(n)>>
  <2>1. /\ tail \in Word /\ Len(tail) = 2 /\ tail[2] = ToString(n)
    BY Tags, Words
  <2>2. Numbered(base, n) = base \o tail
    BY DEF Numbered
  <2> HIDE DEF tail
  <2>3. /\ DOMAIN (base \o tail) = 1 .. Len(base) + 2
        /\ (base \o tail)[Len(base) + 2] = tail[2]
    <3> DEFINE joined == base \o tail
    <3>0. /\ joined \in Word /\ Len(joined) = Len(base) + Len(tail)
          /\ \A i \in 1 .. Len(tail) : joined[Len(base) + i] = tail[i]
      <4>1. tail \in Word
        BY <2>1
      <4>2. QED
        BY <4>1, Words
    <3> HIDE DEF joined
    <3>1. joined \in Word /\ Len(joined) = Len(base) + 2
      BY <2>1, <3>0
    <3>2. DOMAIN joined = 1 .. Len(base) + 2
      BY <3>1, Words
    <3>3. 2 \in 1 .. Len(tail)
      BY <2>1
    <3>4. joined[Len(base) + 2] = tail[2]
      BY <2>1, <3>0, <3>3
    <3>5. QED
      BY <3>2, <3>4 DEF joined
  <2>4. QED
    BY <2>1, <2>2, <2>3
<1>3. Numbered(base, 0) = base /\ DOMAIN base = 1 .. Len(base)
  <2>1. Numbered(base, 0) = base
    BY DEF Numbered
  <2>2. QED
    BY <2>1, Words
<1>4. DOMAIN Numbered(base, j) = DOMAIN Numbered(base, k)
  <2>1. \A name : DOMAIN Folded(name) = DOMAIN name
    BY DEF Folded
  <2>2. QED
    BY <2>1
<1>5. CASE j = 0 \/ k = 0
  <2>0. (j \in Nat \ {0} \/ j = 0) /\ (k \in Nat \ {0} \/ k = 0)
    BY <1>0
  <2>1. 1 .. Len(base) # 1 .. Len(base) + 2
    <3>1. Len(base) + 2 \in 1 .. Len(base) + 2 /\ Len(base) + 2 \notin 1 .. Len(base)
      BY <1>1
    <3>2. QED
      BY <3>1
  <2>2. QED
    BY <1>2, <1>3, <1>4, <1>5, <2>0, <2>1
<1>6. CASE j # 0 /\ k # 0
  <2>1. /\ j \in Nat \ {0} /\ k \in Nat \ {0}
        /\ j \in 1 .. Len(ProfileOrder) /\ k \in 1 .. Len(ProfileOrder)
    BY <1>0, <1>6
  <2>2. Len(base) + 2 \in 1 .. Len(base) + 2
    BY <1>1
  <2>3. \A n \in {j, k} : Folded(Numbered(base, n))[Len(base) + 2] = FoldPiece[ToString(n)]
    BY <1>2, <2>1, <2>2 DEF Folded
  <2>4. FoldPiece[ToString(j)] = FoldPiece[ToString(k)]
    BY <2>3
  <2>5. QED
    BY <2>1, <2>4, ConsolidationAssumption
<1>7. QED
  BY <1>5, <1>6

(* So that one of them is free, as long as there are no more stems than      *)
(* profiles.                                                                 *)
LEMMA FreshIsFree ==
    ASSUME NEW base \in Word, NEW taken, IsFiniteSet(taken),
           Cardinality(taken) <= Len(ProfileOrder)
    PROVE  /\ Fresh(base, taken) \in Word
           /\ \A s \in taken : Folded(Fresh(base, taken)) # Folded(s)
<1> DEFINE n == Cardinality(taken)
           free == {k \in 0 .. n : \A s \in taken : Folded(Numbered(base, k)) # Folded(s)}
<1>0. n \in Nat
  BY FS_CardinalityType
<1>1. Len(ProfileOrder) \in Nat
  <2>1. ProfileOrder \in Seq(Profiles)
    BY CompareAssumption, Zenon
  <2>2. QED
    BY <2>1
<1>2. free # {}
  <2> SUFFICES ASSUME \A k \in 0 .. n : \E s \in taken : Folded(Numbered(base, k)) = Folded(s)
               PROVE  FALSE
    OBVIOUS
  <2> DEFINE at == [k \in 0 .. n |-> CHOOSE s \in taken : Folded(Numbered(base, k)) = Folded(s)]
  <2>1. \A k \in 0 .. n : at[k] \in taken /\ Folded(Numbered(base, k)) = Folded(at[k])
    OBVIOUS
  <2>2. at \in [0 .. n -> taken]
    BY <2>1
  <2> HIDE DEF at
  <2>3. IsFiniteSet(0 .. n) /\ Cardinality(0 .. n) = n + 1
    BY <1>0, FS_Interval
  <2>4. n < Cardinality(0 .. n)
    BY <1>0, <2>3
  <2> HIDE DEF n
  <2>5. \E j, k \in 0 .. n : j # k /\ at[j] = at[k]
    BY <2>2, <2>3, <2>4, FS_PigeonHole DEF n
  <2>6. PICK j \in 0 .. n : \E k \in 0 .. n : j # k /\ at[j] = at[k]
    BY <2>5
  <2>7. PICK k \in 0 .. n : j # k /\ at[j] = at[k]
    BY <2>6
  <2>8. Folded(Numbered(base, j)) = Folded(Numbered(base, k))
    BY <2>1, <2>7
  <2>9. j \in 0 .. Len(ProfileOrder) /\ k \in 0 .. Len(ProfileOrder)
    BY <1>0, <1>1 DEF n
  <2>10. QED
    BY <2>7, <2>8, <2>9, NumberedDiffer
<1>3. free \in SUBSET Nat
  BY <1>0
<1>4. Fresh(base, taken) = Numbered(base, Min(free))
  BY DEF Fresh
<1> HIDE DEF n
<1>5. Min(free) \in free
  <2> HIDE DEF free
  <2>1. QED
    BY <1>2, <1>3, MinOf
<1>6. Min(free) \in Nat /\ \A s \in taken : Folded(Numbered(base, Min(free))) # Folded(s)
  <2> DEFINE k == Min(free)
  <2>1. k \in free
    BY <1>5
  <2> HIDE DEF k
  <2>2. k \in Nat /\ \A s \in taken : Folded(Numbered(base, k)) # Folded(s)
    BY <1>3, <2>1
  <2>3. QED
    BY <2>2 DEF k
<1> HIDE DEF free
<1>7. QED
  BY <1>4, <1>6, NumberedIsWord

(* What `Stems' assigns to the first n names.                                *)
Assigns(f, names, n) ==
    /\ f = [m \in 0 .. n |-> f[m]]
    /\ f[0] = <<>>
    /\ \A m \in 1 .. n :
         f[m] = Append(f[m - 1], Fresh(Sanitized(names[m]), Range(f[m - 1])))

(* `assign_script_filenames' is defined for any names.                       *)
LEMMA AssignmentExists ==
    ASSUME NEW names, NEW N \in Nat
    PROVE  \E f : Assigns(f, names, N)
<1> DEFINE T == {n \in Nat : \E f : Assigns(f, names, n)}
<1>1. 0 \in T
  <2> DEFINE f == [m \in 0 .. 0 |-> <<>>]
  <2>1. f = [m \in 0 .. 0 |-> f[m]] /\ f[0] = <<>> /\ 1 .. 0 = {}
    OBVIOUS
  <2>2. Assigns(f, names, 0)
    BY <2>1 DEF Assigns
  <2>3. QED
    BY <2>2
<1>2. ASSUME NEW n \in Nat, n \in T PROVE n + 1 \in T
  <2>1. PICK f : Assigns(f, names, n)
    BY <1>2
  <2> DEFINE next == Append(f[n], Fresh(Sanitized(names[n + 1]), Range(f[n])))
             g == [m \in 0 .. n + 1 |-> IF m = n + 1 THEN next ELSE f[m]]
  <2> HIDE DEF next
  <2>2. /\ g = [m \in 0 .. n + 1 |-> g[m]] /\ g[0] = f[0]
        /\ \A m \in 1 .. n : g[m] = f[m] /\ g[m - 1] = f[m - 1]
        /\ g[n + 1] = next /\ g[(n + 1) - 1] = f[n]
    OBVIOUS
  <2> HIDE DEF g
  <2>3. \A m \in 1 .. n + 1 :
          g[m] = Append(g[m - 1], Fresh(Sanitized(names[m]), Range(g[m - 1])))
    <3> TAKE m \in 1 .. n + 1
    <3>1. CASE m \in 1 .. n
      BY <2>1, <2>2, <3>1 DEF Assigns
    <3>2. CASE m = n + 1
      BY <2>2, <3>2 DEF next
    <3>3. QED
      BY <3>1, <3>2
  <2>4. g[0] = <<>>
    BY <2>1, <2>2 DEF Assigns
  <2>5. Assigns(g, names, n + 1)
    BY <2>2, <2>3, <2>4 DEF Assigns
  <2>6. QED
    BY <2>5
<1> HIDE DEF T
<1>3. N \in T
  BY <1>1, <1>2, Induction
<1>4. QED
  BY <1>3 DEF T

LEMMA StemsAssign ==
    ASSUME NEW names, Len(names) \in Nat
    PROVE  \E f : Assigns(f, names, Len(names)) /\ Stems(names) = f[Len(names)]
<1> DEFINE N == Len(names)
           body(f, n) == IF n = 0 THEN <<>>
                         ELSE Append(f[n - 1], Fresh(Sanitized(names[n]), Range(f[n - 1])))
           chosen == CHOOSE f : f = [n \in 0 .. N |-> body(f, n)]
<1>1. Stems(names) = chosen[N]
  BY DEF Stems
<1>2. PICK g : Assigns(g, names, N)
  BY AssignmentExists
<1>3. g = [n \in 0 .. N |-> body(g, n)]
  <2> HIDE DEF N
  <2>1. N \in Nat
    BY DEF N
  <2>2. \A n \in 0 .. N : g[n] = body(g, n)
    BY <1>2, <2>1 DEF Assigns
  <2>3. g = [n \in 0 .. N |-> g[n]]
    BY <1>2 DEF Assigns
  <2> HIDE DEF body
  <2>4. QED
    BY <2>2, <2>3
<1>4. chosen = [n \in 0 .. N |-> body(chosen, n)]
  <2> HIDE DEF body, N
  <2>1. QED
    BY <1>3
<1> HIDE DEF chosen
<1>5. Assigns(chosen, names, N)
  <2>1. \A n \in 0 .. N : chosen[n] = body(chosen, n)
    <3> HIDE DEF body, N
    <3>1. QED
      BY <1>4
  <2>2. chosen = [n \in 0 .. N |-> chosen[n]]
    <3> HIDE DEF body, N
    <3>1. QED
      BY <1>4, <2>1
  <2>3. chosen[0] = <<>> /\ \A n \in 1 .. N : n \in 0 .. N /\ n # 0
    BY <2>1
  <2>4. QED
    BY <2>1, <2>2, <2>3 DEF Assigns
<1>6. QED
  BY <1>1, <1>5

(* Stems that are files of their own, in a folder that ignores case.         *)
Distinct(stems) ==
    /\ stems \in Seq(Word)
    /\ \A i, j \in DOMAIN stems : Folded(stems[i]) = Folded(stems[j]) => i = j

(* As many stems taken as there are names before.                            *)
LEMMA RangeOfStems ==
    ASSUME NEW stems \in Seq(Word)
    PROVE  IsFiniteSet(Range(stems)) /\ Cardinality(Range(stems)) <= Len(stems)
<1>1. DOMAIN stems = 1 .. Len(stems) /\ Len(stems) \in Nat
  OBVIOUS
<1>2. stems \in Surjection(1 .. Len(stems), Range(stems))
  <2>1. stems \in [1 .. Len(stems) -> Range(stems)]
    BY <1>1 DEF Range
  <2>2. \A s \in Range(stems) : \E i \in 1 .. Len(stems) : stems[i] = s
    BY <1>1 DEF Range
  <2>3. QED
    BY <2>1, <2>2 DEF Surjection
<1>3. IsFiniteSet(1 .. Len(stems)) /\ Cardinality(1 .. Len(stems)) = Len(stems)
  BY <1>1, FS_Interval
<1>4. QED
  BY <1>2, <1>3, FS_Surjection

(* So no two stems are one file name, whatever the case.                     *)
LEMMA StemsAreDistinct ==
    ASSUME NEW names, Len(names) \in 0 .. Len(ProfileOrder),
           \A i \in 1 .. Len(names) : names[i] \in Seq(DOMAIN FoldPiece)
    PROVE  Distinct(Stems(names)) /\ Len(Stems(names)) = Len(names)
<1> DEFINE N == Len(names)
<1>0. Len(ProfileOrder) \in Nat /\ N \in Nat /\ N <= Len(ProfileOrder)
  <2>1. ProfileOrder \in Seq(Profiles)
    BY CompareAssumption, Zenon
  <2>2. Len(ProfileOrder) \in Nat
    BY <2>1
  <2>3. QED
    BY <2>2
<1>1. PICK f : Assigns(f, names, N) /\ Stems(names) = f[N]
  BY <1>0, StemsAssign
<1> HIDE DEF N
<1> DEFINE T == {n \in Nat : n <= N => Distinct(f[n]) /\ Len(f[n]) = n}
<1>2. 0 \in T
  <2>1. f[0] = <<>>
    BY <1>1 DEF Assigns
  <2>2. Distinct(<<>>) /\ Len(<<>>) = 0
    BY DEF Distinct
  <2>3. QED
    BY <2>1, <2>2
<1>3. ASSUME NEW n \in Nat, n \in T PROVE n + 1 \in T
  <2> SUFFICES ASSUME n + 1 <= N PROVE Distinct(f[n + 1]) /\ Len(f[n + 1]) = n + 1
    OBVIOUS
  <2> DEFINE old == f[n]
             taken == Range(old)
             stem == Fresh(Sanitized(names[n + 1]), taken)
  <2>1. Distinct(old) /\ Len(old) = n
    BY <1>0, <1>3
  <2>2. IsFiniteSet(taken) /\ Cardinality(taken) <= Len(ProfileOrder)
    <3>1. IsFiniteSet(taken) /\ Cardinality(taken) <= n
      BY <2>1, RangeOfStems DEF Distinct
    <3>2. Cardinality(taken) \in Nat
      BY <3>1, FS_CardinalityType
    <3>3. QED
      BY <1>0, <3>1, <3>2
  <2>3. Sanitized(names[n + 1]) \in Word
    <3>1. n + 1 \in 1 .. Len(names)
      BY <1>0 DEF N
    <3>2. QED
      BY <3>1, SanitizedIsWord
  <2>4. stem \in Word /\ \A s \in taken : Folded(stem) # Folded(s)
    BY <2>2, <2>3, FreshIsFree
  <2>5. f[n + 1] = Append(old, stem)
    <3>1. n + 1 \in 1 .. N /\ (n + 1) - 1 = n
      BY <1>0
    <3>2. QED
      BY <1>1, <3>1 DEF Assigns
  <2> HIDE DEF old
  <2>6. \A i \in 1 .. n : old[i] \in taken
    BY <2>1 DEF Distinct, Range
  <2> HIDE DEF taken, stem
  <2> DEFINE new == Append(old, stem)
  <2>7. /\ new \in Seq(Word) /\ Len(new) = n + 1 /\ DOMAIN new = 1 .. n + 1
        /\ new[n + 1] = stem /\ \A i \in 1 .. n : new[i] = old[i]
    BY <2>1, <2>4 DEF Distinct
  <2> HIDE DEF new
  <2>8. ASSUME NEW i \in 1 .. n + 1, NEW j \in 1 .. n + 1, Folded(new[i]) = Folded(new[j])
        PROVE  i = j
    <3>1. CASE i \in 1 .. n /\ j \in 1 .. n
      <4>1. DOMAIN old = 1 .. n
        BY <2>1 DEF Distinct
      <4>2. QED
        BY <2>1, <2>7, <2>8, <3>1, <4>1 DEF Distinct
    <3>2. CASE i = n + 1 /\ j \in 1 .. n
      BY <2>4, <2>6, <2>7, <2>8, <3>2
    <3>3. CASE j = n + 1 /\ i \in 1 .. n
      BY <2>4, <2>6, <2>7, <2>8, <3>3
    <3>4. QED
      BY <3>1, <3>2, <3>3
  <2>9. Distinct(new)
    BY <2>7, <2>8 DEF Distinct
  <2>10. QED
    BY <2>5, <2>7, <2>9 DEF new
<1> HIDE DEF T
<1>4. N \in T
  BY <1>0, <1>2, <1>3, Induction
<1>5. QED
  BY <1>0, <1>1, <1>4 DEF T, N

-----------------------------------------------------------------------------
(* The profiles of a generation, each once.                                  *)
Sorts(f, A, n) ==
    /\ f = [m \in 0 .. n |-> f[m]]
    /\ f[0] = <<>>
    /\ \A m \in 1 .. n : f[m] = IF ProfileOrder[m] \in A THEN Append(f[m - 1], ProfileOrder[m])
                                                        ELSE f[m - 1]

(* The profiles a generation is for, each once, as `sorted' gives them.      *)
LEMMA SortingExists ==
    ASSUME NEW A, NEW N \in Nat
    PROVE  \E f : Sorts(f, A, N)
<1> DEFINE T == {n \in Nat : \E f : Sorts(f, A, n)}
<1>1. 0 \in T
  <2> DEFINE f == [m \in 0 .. 0 |-> <<>>]
  <2>1. f = [m \in 0 .. 0 |-> f[m]] /\ f[0] = <<>> /\ 1 .. 0 = {}
    OBVIOUS
  <2>2. Sorts(f, A, 0)
    BY <2>1 DEF Sorts
  <2>3. QED
    BY <2>2
<1>2. ASSUME NEW n \in Nat, n \in T PROVE n + 1 \in T
  <2>1. PICK f : Sorts(f, A, n)
    BY <1>2
  <2> DEFINE next == IF ProfileOrder[n + 1] \in A THEN Append(f[n], ProfileOrder[n + 1]) ELSE f[n]
             g == [m \in 0 .. n + 1 |-> IF m = n + 1 THEN next ELSE f[m]]
  <2> HIDE DEF next
  <2>2. /\ g = [m \in 0 .. n + 1 |-> g[m]] /\ g[0] = f[0]
        /\ \A m \in 1 .. n : g[m] = f[m] /\ g[m - 1] = f[m - 1]
        /\ g[n + 1] = next /\ g[(n + 1) - 1] = f[n]
    OBVIOUS
  <2> HIDE DEF g
  <2>3. \A m \in 1 .. n + 1 : g[m] = IF ProfileOrder[m] \in A THEN Append(g[m - 1], ProfileOrder[m])
                                                             ELSE g[m - 1]
    <3> TAKE m \in 1 .. n + 1
    <3>1. CASE m \in 1 .. n
      BY <2>1, <2>2, <3>1 DEF Sorts
    <3>2. CASE m = n + 1
      BY <2>2, <3>2 DEF next
    <3>3. QED
      BY <3>1, <3>2
  <2>4. g[0] = <<>>
    BY <2>1, <2>2 DEF Sorts
  <2>5. Sorts(g, A, n + 1)
    BY <2>2, <2>3, <2>4 DEF Sorts
  <2>6. QED
    BY <2>5
<1> HIDE DEF T
<1>3. N \in T
  BY <1>1, <1>2, Induction
<1>4. QED
  BY <1>3 DEF T

LEMMA ProfilesSort ==
    ASSUME NEW resolutions, Len(ProfileOrder) \in Nat
    PROVE  \E f : /\ Sorts(f, Affected(resolutions), Len(ProfileOrder))
                  /\ SortedProfiles(resolutions) = f[Len(ProfileOrder)]
<1> DEFINE N == Len(ProfileOrder)
           A == Affected(resolutions)
           body(f, n) == IF n = 0 THEN <<>>
                         ELSE IF ProfileOrder[n] \in A THEN Append(f[n - 1], ProfileOrder[n])
                                                       ELSE f[n - 1]
           chosen == CHOOSE f : f = [n \in 0 .. N |-> body(f, n)]
<1>1. SortedProfiles(resolutions) = chosen[N]
  BY DEF SortedProfiles
<1> HIDE DEF A
<1>2. PICK g : Sorts(g, A, N)
  BY SortingExists
<1>3. g = [n \in 0 .. N |-> body(g, n)]
  <2> HIDE DEF N
  <2>1. N \in Nat
    BY DEF N
  <2>2. \A n \in 0 .. N : g[n] = body(g, n)
    <3> TAKE n \in 0 .. N
    <3>1. n = 0 \/ n \in 1 .. N
      BY <2>1
    <3>2. QED
      BY <1>2, <3>1 DEF Sorts
  <2>3. g = [n \in 0 .. N |-> g[n]]
    BY <1>2 DEF Sorts
  <2> HIDE DEF body
  <2>4. QED
    BY <2>2, <2>3
<1>4. chosen = [n \in 0 .. N |-> body(chosen, n)]
  <2> HIDE DEF body, N
  <2>1. QED
    BY <1>3
<1> HIDE DEF chosen
<1>5. Sorts(chosen, A, N)
  <2>1. \A n \in 0 .. N : chosen[n] = body(chosen, n)
    <3> HIDE DEF body, N
    <3>1. QED
      BY <1>4
  <2>2. chosen = [n \in 0 .. N |-> chosen[n]]
    <3> HIDE DEF body, N
    <3>1. QED
      BY <1>4, <2>1
  <2>3. chosen[0] = <<>> /\ \A n \in 1 .. N : n \in 0 .. N /\ n # 0
    BY <2>1
  <2>4. QED
    BY <2>1, <2>2, <2>3 DEF Sorts
<1>6. QED
  BY <1>1, <1>5 DEF A

LEMMA EachAffectedOnce ==
    ASSUME NEW resolutions, Affected(resolutions) \subseteq Profiles
    PROVE  LET profiles == SortedProfiles(resolutions)
           IN /\ profiles \in Seq(Affected(resolutions))
              /\ Len(profiles) \in 0 .. Len(ProfileOrder)
              /\ \A i, j \in 1 .. Len(profiles) : profiles[i] = profiles[j] => i = j
              /\ \A p \in Affected(resolutions) : \E i \in 1 .. Len(profiles) : profiles[i] = p
<1> DEFINE N == Len(ProfileOrder)
           A == Affected(resolutions)
<1>0. ProfileOrder \in Seq(Profiles) /\ IsInjective(ProfileOrder)
  BY CompareAssumption, Zenon
<1>1. N \in Nat /\ DOMAIN ProfileOrder = 1 .. N
  BY <1>0
<1>2. \A i, j \in 1 .. N : ProfileOrder[i] = ProfileOrder[j] => i = j
  BY <1>0, <1>1 DEF IsInjective
<1>3. \A p \in A : \E i \in 1 .. N : ProfileOrder[i] = p
  BY <1>1 DEF Profiles, Range
<1>4. PICK f : Sorts(f, A, N) /\ SortedProfiles(resolutions) = f[N]
  BY <1>1, ProfilesSort
<1> HIDE DEF N, A
<1> DEFINE Good(s, n) ==
             /\ s \in Seq(A) /\ Len(s) \in 0 .. n
             /\ \A i, j \in 1 .. Len(s) : s[i] = s[j] => i = j
             /\ \A i \in 1 .. Len(s) : \E k \in 1 .. n : ProfileOrder[k] = s[i]
             /\ \A k \in 1 .. n : ProfileOrder[k] \in A =>
                                    \E i \in 1 .. Len(s) : s[i] = ProfileOrder[k]
           T == {n \in Nat : n <= N => Good(f[n], n)}
<1>5. 0 \in T
  <2>1. f[0] = <<>>
    BY <1>4 DEF Sorts
  <2>2. Good(<<>>, 0)
    OBVIOUS
  <2> HIDE DEF Good
  <2>3. QED
    BY <2>1, <2>2
<1>6. ASSUME NEW n \in Nat, n \in T PROVE n + 1 \in T
  <2> SUFFICES ASSUME n + 1 <= N PROVE Good(f[n + 1], n + 1)
    <3> HIDE DEF Good
    <3>1. QED
      OBVIOUS
  <2> DEFINE p == ProfileOrder[n + 1]
             old == f[n]
  <2>1. Good(old, n)
    BY <1>1, <1>6
  <2>2. f[n + 1] = IF p \in A THEN Append(old, p) ELSE old
    <3>1. n + 1 \in 1 .. N /\ (n + 1) - 1 = n
      BY <1>1
    <3>2. QED
      BY <1>4, <3>1 DEF Sorts
  <2>3. \A k \in 1 .. n : ProfileOrder[k] # p
    BY <1>1, <1>2
  <2>4. \A k \in 1 .. n + 1 : k \in 1 .. n \/ k = n + 1
    OBVIOUS
  <2>5. \A k \in 1 .. n : k \in 1 .. n + 1
    OBVIOUS
  <2> HIDE DEF old, p
  <2>6. CASE p \notin A
    <3>1. \A k \in 1 .. n + 1 : ProfileOrder[k] \in A => k \in 1 .. n
      BY <2>4, <2>6 DEF p
    <3>2. Len(old) \in 0 .. n + 1
      BY <2>1
    <3>3. Good(old, n + 1)
      BY <2>1, <2>5, <3>1, <3>2
    <3> HIDE DEF Good
    <3>4. QED
      BY <2>2, <2>6, <3>3
  <2>7. CASE p \in A
    <3> DEFINE new == Append(old, p)
               l == Len(old)
    <3>1. /\ new \in Seq(A) /\ Len(new) = l + 1 /\ l \in 0 .. n
          /\ new[l + 1] = p /\ \A i \in 1 .. l : new[i] = old[i]
      BY <2>1, <2>7
    <3>2. \A i \in 1 .. l : old[i] # p
      BY <2>1, <2>3
    <3> HIDE DEF new
    <3>3. \A i \in 1 .. l + 1 : i \in 1 .. l \/ i = l + 1
      BY <3>1
    <3>4. \A i, j \in 1 .. l : old[i] = old[j] => i = j
      BY <2>1
    <3>5. \A i, j \in 1 .. l + 1 : new[i] = new[j] => i = j
      BY <3>1, <3>2, <3>3, <3>4
    <3>6. \A i \in 1 .. l + 1 : \E k \in 1 .. n + 1 : ProfileOrder[k] = new[i]
      <4> TAKE i \in 1 .. l + 1
      <4>1. CASE i \in 1 .. l
        BY <2>1, <2>5, <3>1, <4>1
      <4>2. CASE i = l + 1
        <5>1. n + 1 \in 1 .. n + 1
          OBVIOUS
        <5>2. QED
          BY <3>1, <4>2, <5>1 DEF p
      <4>3. QED
        BY <3>3, <4>1, <4>2
    <3>7. \A k \in 1 .. n + 1 : ProfileOrder[k] \in A =>
                                  \E i \in 1 .. l + 1 : new[i] = ProfileOrder[k]
      <4> TAKE k \in 1 .. n + 1
      <4> HAVE ProfileOrder[k] \in A
      <4>0. l + 1 \in 1 .. l + 1 /\ \A i \in 1 .. l : i \in 1 .. l + 1
        BY <3>1
      <4>1. CASE k \in 1 .. n
        BY <2>1, <3>1, <4>0, <4>1
      <4>2. CASE k = n + 1
        BY <3>1, <4>0, <4>2 DEF p
      <4>3. QED
        BY <2>4, <4>1, <4>2
    <3>8. l + 1 \in 0 .. n + 1
      BY <3>1
    <3> HIDE DEF l
    <3>9. Good(new, n + 1)
      BY <3>1, <3>5, <3>6, <3>7, <3>8
    <3> HIDE DEF Good
    <3>10. QED
      BY <2>2, <2>7, <3>9 DEF new
  <2>8. QED
    BY <2>6, <2>7
<1> HIDE DEF T
<1>7. N \in T
  BY <1>1, <1>5, <1>6, Induction
<1>8. Good(f[N], N)
  BY <1>1, <1>7 DEF T
<1> DEFINE profiles == SortedProfiles(resolutions)
<1>9. Good(profiles, N)
  <2> HIDE DEF Good
  <2>1. QED
    BY <1>4, <1>8
<1> HIDE DEF profiles
<1>10. \A p \in A : \E i \in 1 .. Len(profiles) : profiles[i] = p
  <2> TAKE p \in A
  <2>1. PICK k \in 1 .. N : ProfileOrder[k] = p
    BY <1>3
  <2>2. QED
    BY <1>9, <2>1
<1>11. QED
  BY <1>9, <1>10 DEF N, A, profiles

(* Two profiles of a generation have two stems.                              *)
LEMMA StemsOfProfiles ==
    ASSUME NEW resolutions, Affected(resolutions) \subseteq Profiles
    PROVE  /\ \A p \in Affected(resolutions) : StemOf(resolutions, p) \in Word
           /\ \A p, q \in Affected(resolutions) :
                Folded(StemOf(resolutions, p)) = Folded(StemOf(resolutions, q)) => p = q
<1> DEFINE profiles == SortedProfiles(resolutions)
           names == [j \in DOMAIN profiles |-> Spelling[profiles[j]]]
           stems == Stems(names)
           A == Affected(resolutions)
           L == Len(profiles)
<1>1. /\ profiles \in Seq(A) /\ L \in 0 .. Len(ProfileOrder)
      /\ \A i, j \in 1 .. L : profiles[i] = profiles[j] => i = j
      /\ \A p \in A : \E i \in 1 .. L : profiles[i] = p
  BY EachAffectedOnce
<1>2. \A p : StemOf(resolutions, p) = stems[CHOOSE i \in DOMAIN profiles : profiles[i] = p]
  BY DEF StemOf
<1> HIDE DEF profiles, A
<1>3. L \in Nat /\ DOMAIN profiles = 1 .. L /\ \A j \in 1 .. L : profiles[j] \in A
  <2>1. ProfileOrder \in Seq(Profiles)
    BY CompareAssumption, Zenon
  <2>2. Len(ProfileOrder) \in Nat
    BY <2>1
  <2>3. QED
    BY <1>1, <2>2
<1> HIDE DEF L
<1>4. Len(names) = L /\ \A j \in 1 .. L : names[j] \in Seq(DOMAIN FoldPiece)
  <2>1. \A j \in 1 .. L : names[j] \in Seq(DOMAIN FoldPiece)
    <3> TAKE j \in 1 .. L
    <3>1. profiles[j] \in Profiles
      BY <1>3 DEF A
    <3>2. names[j] = Spelling[profiles[j]]
      BY <1>3
    <3>3. QED
      BY <3>1, <3>2, ConsolidationAssumption
  <2>2. names = [j \in 1 .. L |-> Spelling[profiles[j]]]
    BY <1>3
  <2>3. Len(names) = L
    BY <1>3, <2>2
  <2>4. QED
    BY <2>1, <2>3
<1> HIDE DEF names
<1>5. Distinct(stems) /\ Len(stems) = L
  BY <1>1, <1>4, StemsAreDistinct
<1>6. stems \in Seq(Word) /\ DOMAIN stems = 1 .. L
      /\ \A i \in 1 .. L : stems[i] \in Word
  BY <1>3, <1>5 DEF Distinct
<1> HIDE DEF stems
<1>7. \A p \in A : \E i \in 1 .. L : profiles[i] = p /\ StemOf(resolutions, p) = stems[i]
  <2> TAKE p \in A
  <2> DEFINE i == CHOOSE i \in DOMAIN profiles : profiles[i] = p
  <2>1. i \in 1 .. L /\ profiles[i] = p
    BY <1>1, <1>3
  <2>2. QED
    BY <1>2, <2>1
<1>8. ASSUME NEW p \in A, NEW q \in A,
             Folded(StemOf(resolutions, p)) = Folded(StemOf(resolutions, q))
      PROVE  p = q
  <2>1. PICK i \in 1 .. L : profiles[i] = p /\ StemOf(resolutions, p) = stems[i]
    BY <1>7
  <2>2. PICK j \in 1 .. L : profiles[j] = q /\ StemOf(resolutions, q) = stems[j]
    BY <1>7
  <2>3. i = j
    BY <1>5, <1>6, <1>8, <2>1, <2>2 DEF Distinct
  <2>4. QED
    BY <2>1, <2>2, <2>3
<1>9. QED
  BY <1>6, <1>7, <1>8 DEF A

LEMMA SameLength ==
    ASSUME NEW m \in Nat, NEW n \in Nat, 1 .. m = 1 .. n
    PROVE  m = n
<1>1. CASE m < n
  <2>1. n \in 1 .. n /\ n \notin 1 .. m
    BY <1>1
  <2>2. QED
    BY <2>1
<1>2. CASE n < m
  <2>1. m \in 1 .. m /\ m \notin 1 .. n
    BY <1>2
  <2>2. QED
    BY <2>1
<1>3. QED
  BY <1>1, <1>2

(* The names of files tell stems apart, and scripts from the report.         *)
LEMMA Suffixed ==
    ASSUME NEW v \in Word, NEW w \in Word, NEW t \in Word, Folded(v \o t) = Folded(w \o t)
    PROVE  Folded(v) = Folded(w)
<1> DEFINE vt == v \o t
           wt == w \o t
<1>1. /\ vt \in Word /\ Len(vt) = Len(v) + Len(t) /\ \A i \in 1 .. Len(v) : vt[i] = v[i]
      /\ wt \in Word /\ Len(wt) = Len(w) + Len(t) /\ \A i \in 1 .. Len(w) : wt[i] = w[i]
  BY Words
<1> HIDE DEF vt, wt
<1>2. /\ Len(v) \in Nat /\ Len(w) \in Nat /\ Len(t) \in Nat
      /\ DOMAIN v = 1 .. Len(v) /\ DOMAIN w = 1 .. Len(w)
      /\ DOMAIN vt = 1 .. Len(vt) /\ DOMAIN wt = 1 .. Len(wt)
  BY <1>1, Words
<1>3. Folded(vt) = Folded(wt)
  BY DEF vt, wt
<1>4. 1 .. Len(vt) = 1 .. Len(wt)
  BY <1>2, <1>3 DEF Folded
<1>5. Len(v) = Len(w)
  <2>1. Len(vt) = Len(wt)
    BY <1>1, <1>2, <1>4, SameLength
  <2>2. Len(v) + Len(t) = Len(w) + Len(t) /\ Len(v) \in Nat /\ Len(w) \in Nat /\ Len(t) \in Nat
    BY <1>1, <1>2, <2>1
  <2>3. \A a, b, c \in Nat : a + c = b + c => a = b
    OBVIOUS
  <2>4. QED
    BY <2>2, <2>3, Zenon
<1>6. \A i \in 1 .. Len(v) : FoldPiece[v[i]] = FoldPiece[w[i]]
  <2> TAKE i \in 1 .. Len(v)
  <2>1. i \in DOMAIN vt /\ i \in DOMAIN wt
    BY <1>1, <1>2, <1>5
  <2>2. Folded(vt)[i] = FoldPiece[v[i]] /\ Folded(wt)[i] = FoldPiece[w[i]]
    BY <1>1, <1>5, <2>1 DEF Folded
  <2>3. QED
    BY <1>3, <2>2
<1>7. QED
  BY <1>2, <1>5, <1>6 DEF Folded

LEMMA Suffixes ==
    /\ <<".", "sql">> \in Word /\ <<".", "deshacer", ".", "sql">> \in Word
    /\ \A v \in Word : \A t \in {<<".", "sql">>, <<".", "deshacer", ".", "sql">>} :
         Folded(v \o t) # Folded(ReportName)
<1>1. \A a, b, c, d \in StemPieces : /\ <<a, b, c, d>> \in Seq(StemPieces)
                                     /\ Len(<<a, b, c, d>>) = 4 /\ <<a, b, c, d>>[4] = d
  OBVIOUS
<1>2. \A a, b, c, d \in StemPieces : /\ <<a, b, c, d>> \in Word
                                     /\ Len(<<a, b, c, d>>) = 4 /\ <<a, b, c, d>>[4] = d
  BY <1>1 DEF Word
<1>3. <<".", "sql">> \in Word /\ <<".", "deshacer", ".", "sql">> \in Word
  BY <1>2, Tags, Words
<1>4. ASSUME NEW v \in Word, NEW t \in Word, t # <<>>, NEW l, l = Len(t), l >= 1, t[l] = "sql"
      PROVE  Folded(v \o t) # Folded(ReportName)
  <2> DEFINE vt == v \o t
  <2>1. /\ vt \in Word /\ Len(vt) = Len(v) + Len(t)
        /\ \A i \in 1 .. Len(t) : vt[Len(v) + i] = t[i]
    BY Words
  <2>2. Len(v) \in Nat /\ Len(t) \in Nat /\ DOMAIN vt = 1 .. Len(vt)
    BY <2>1, Words
  <2> HIDE DEF vt
  <2>3. Len(vt) \in DOMAIN vt /\ vt[Len(vt)] = "sql"
    <3>1. l \in 1 .. Len(t) /\ Len(v) + l = Len(vt) /\ Len(vt) \in 1 .. Len(vt)
      BY <1>4, <2>1, <2>2
    <3>2. vt[Len(v) + l] = t[l]
      BY <2>1, <3>1
    <3>3. QED
      BY <1>4, <2>2, <3>1, <3>2
  <2>4. Folded(vt)[Len(vt)] = FoldPiece["sql"]
    BY <2>3 DEF Folded
  <2>5. DOMAIN ReportName = 1 .. 3 /\ ReportName[3] = "md"
    BY DEF ReportName
  <2>6. Folded(ReportName)[3] = FoldPiece["md"] /\ DOMAIN Folded(ReportName) = 1 .. 3
    BY <2>5 DEF Folded
  <2>7. DOMAIN Folded(vt) = 1 .. Len(vt) /\ Len(vt) \in Nat
    BY <2>1, <2>2 DEF Folded
  <2> SUFFICES ASSUME Folded(vt) = Folded(ReportName) PROVE FALSE
    BY DEF vt
  <2>8. Len(vt) = 3
    BY <2>6, <2>7
  <2>9. QED
    BY <2>4, <2>6, <2>8, ConsolidationAssumption
<1>5. ASSUME NEW v \in Word PROVE Folded(v \o <<".", "sql">>) # Folded(ReportName)
  <2> DEFINE t == <<".", "sql">>
  <2>1. Len(t) = 2 /\ t[2] = "sql" /\ t # <<>> /\ t \in Word
    BY <1>3
  <2> HIDE DEF t
  <2>2. Folded(v \o t) # Folded(ReportName)
    BY <1>4, <2>1
  <2>3. QED
    BY <2>2 DEF t
<1>6. ASSUME NEW v \in Word
      PROVE  Folded(v \o <<".", "deshacer", ".", "sql">>) # Folded(ReportName)
  <2> DEFINE t == <<".", "deshacer", ".", "sql">>
  <2>1. Len(t) = 4 /\ t[4] = "sql" /\ t # <<>> /\ t \in Word
    BY <1>3
  <2> HIDE DEF t
  <2>2. Folded(v \o t) # Folded(ReportName)
    BY <1>4, <2>1
  <2>3. QED
    BY <2>2 DEF t
<1>7. QED
  BY <1>3, <1>5, <1>6

LEMMA NamesDiffer ==
    ASSUME NEW v \in Word, NEW w \in Word
    PROVE  /\ Folded(ForwardName(v)) = Folded(ForwardName(w)) => Folded(v) = Folded(w)
           /\ Folded(UndoName(v)) = Folded(UndoName(w)) => Folded(v) = Folded(w)
           /\ Folded(ForwardName(v)) # Folded(ReportName)
           /\ Folded(UndoName(v)) # Folded(ReportName)
<1> DEFINE sql == <<".", "sql">>
           undo == <<".", "deshacer", ".", "sql">>
<1>1. /\ sql \in Word /\ undo \in Word
      /\ \A t \in {sql, undo} : Folded(v \o t) # Folded(ReportName)
  BY Suffixes
<1>2. /\ ForwardName(v) = v \o sql /\ ForwardName(w) = w \o sql
      /\ UndoName(v) = v \o undo /\ UndoName(w) = w \o undo
  BY DEF ForwardName, UndoName
<1> HIDE DEF sql, undo
<1>3. QED
  BY <1>1, <1>2, Suffixed

-----------------------------------------------------------------------------
(* The plan of a generation.                                                 *)
ForwardFile(p, resolutions) ==
    [name |-> ForwardName(StemOf(resolutions, p)),
     content |-> ScriptContent("forward", p, resolutions)]
UndoFile(p, resolutions) ==
    [name |-> UndoName(StemOf(resolutions, p)),
     content |-> ScriptContent("undo", p, resolutions)]
ReportFile(resolutions) == [name |-> ReportName, content |-> ReportContent(resolutions)]

Pairs(resolutions) == 2 * Len(SortedProfiles(resolutions))

(* The plan of a generation, file by file.                                   *)
LEMMA PlanIs ==
    ASSUME NEW resolutions, Affected(resolutions) \subseteq Profiles
    PROVE  LET plan == Plan(resolutions)
               n == Pairs(resolutions)
           IN /\ n \in Nat /\ plan \in Seq(Range(plan)) /\ Len(plan) = n + 1
              /\ plan[n + 1] = ReportFile(resolutions)
              /\ \A i \in 1 .. n : \E p \in Affected(resolutions) :
                   plan[i] \in {ForwardFile(p, resolutions), UndoFile(p, resolutions)}
              /\ \A p \in Affected(resolutions) :
                   /\ \E i \in 1 .. n : plan[i] = ForwardFile(p, resolutions)
                   /\ \E i \in 1 .. n : plan[i] = UndoFile(p, resolutions)
<1> DEFINE profiles == SortedProfiles(resolutions)
           A == Affected(resolutions)
           n == 2 * Len(profiles)
           pair(p) == <<ForwardFile(p, resolutions), UndoFile(p, resolutions)>>
           scripts == [i \in 1 .. 2 * Len(profiles) |-> pair(profiles[(i + 1) \div 2])[2 - (i % 2)]]
           report == ReportFile(resolutions)
<1>1. Plan(resolutions) = scripts \o <<report>>
  BY DEF Plan, ForwardFile, UndoFile, ReportFile
<1>2. /\ profiles \in Seq(A)
      /\ \A p \in A : \E i \in 1 .. Len(profiles) : profiles[i] = p
  BY EachAffectedOnce
<1> HIDE DEF profiles, A
<1>3. Len(profiles) \in Nat /\ \A i \in 1 .. Len(profiles) : profiles[i] \in A
  BY <1>2
<1>4. \A p : pair(p)[1] = ForwardFile(p, resolutions) /\ pair(p)[2] = UndoFile(p, resolutions)
  OBVIOUS
<1> HIDE DEF pair, report
<1>5. \A i \in 1 .. n : \E p \in A :
        scripts[i] \in {ForwardFile(p, resolutions), UndoFile(p, resolutions)}
  <2> TAKE i \in 1 .. n
  <2>1. (i + 1) \div 2 \in 1 .. Len(profiles) /\ 2 - (i % 2) \in {1, 2}
    BY <1>3
  <2>2. scripts[i] = pair(profiles[(i + 1) \div 2])[2 - (i % 2)]
    OBVIOUS
  <2> HIDE DEF scripts
  <2>3. QED
    BY <1>3, <1>4, <2>1, <2>2
<1>6. \A k \in 1 .. Len(profiles) :
        /\ 2 * k - 1 \in 1 .. n /\ scripts[2 * k - 1] = pair(profiles[k])[1]
        /\ 2 * k \in 1 .. n /\ scripts[2 * k] = pair(profiles[k])[2]
  <2> TAKE k \in 1 .. Len(profiles)
  <2>1. /\ 2 * k - 1 \in 1 .. n /\ 2 * k \in 1 .. n
        /\ ((2 * k - 1) + 1) \div 2 = k /\ 2 - ((2 * k - 1) % 2) = 1
        /\ (2 * k + 1) \div 2 = k /\ 2 - ((2 * k) % 2) = 2
    BY <1>3
  <2>2. QED
    BY <2>1
<1> HIDE DEF scripts
<1>7. \A p \in A : /\ \E i \in 1 .. n : scripts[i] = ForwardFile(p, resolutions)
                   /\ \E i \in 1 .. n : scripts[i] = UndoFile(p, resolutions)
  <2> TAKE p \in A
  <2>1. PICK k \in 1 .. Len(profiles) : profiles[k] = p
    BY <1>2
  <2>2. /\ 2 * k - 1 \in 1 .. n /\ scripts[2 * k - 1] = pair(profiles[k])[1]
        /\ 2 * k \in 1 .. n /\ scripts[2 * k] = pair(profiles[k])[2]
    BY <1>6
  <2> HIDE DEF n
  <2>3. /\ scripts[2 * k - 1] = ForwardFile(p, resolutions)
        /\ scripts[2 * k] = UndoFile(p, resolutions)
    BY <1>4, <2>1, <2>2
  <2>4. QED
    BY <2>2, <2>3
<1> DEFINE all == Range(scripts) \cup {report}
<1>8. scripts \in Seq(all) /\ Len(scripts) = n /\ n \in Nat
  BY <1>3 DEF Range, scripts
<1> DEFINE plan == scripts \o <<report>>
<1> HIDE DEF n
<1>9. /\ plan \in Seq(all) /\ Len(plan) = n + 1 /\ plan[n + 1] = report
      /\ DOMAIN plan = 1 .. Len(plan)
      /\ \A i \in 1 .. n : plan[i] = scripts[i]
  <2> HIDE DEF all
  <2>1. report \in all
    BY DEF all
  <2>2. QED
    BY <1>8, <2>1
<1> HIDE DEF plan, all
<1>10. plan \in Seq(Range(plan))
  BY <1>9 DEF Range
<1>11. /\ \A i \in 1 .. n : \E p \in A :
            plan[i] \in {ForwardFile(p, resolutions), UndoFile(p, resolutions)}
       /\ \A p \in A : /\ \E i \in 1 .. n : plan[i] = ForwardFile(p, resolutions)
                       /\ \E i \in 1 .. n : plan[i] = UndoFile(p, resolutions)
  BY <1>5, <1>7, <1>9
<1>12. Plan(resolutions) = plan /\ Pairs(resolutions) = n
  BY <1>1 DEF plan, Pairs, n, profiles
<1>13. QED
  BY <1>8, <1>9, <1>10, <1>11, <1>12 DEF A, report

(* A name always written with one content holds it in the end.               *)
LEMMA PutKeeps ==
    ASSUME NEW disk, NEW writes, NEW m \in Nat, DOMAIN writes = 1 .. m, NEW i \in 1 .. m,
           NEW f, f = <<clock, Folded(writes[i].name)>>,
           \A j \in 1 .. m : Folded(writes[j].name) = Folded(writes[i].name)
                               => writes[j].content = writes[i].content
    PROVE  f \in DOMAIN Put(disk, writes) /\ Put(disk, writes)[f] = writes[i].content
<1> DEFINE at(j) == <<clock, Folded(writes[j].name)>>
           kept == {k \in DOMAIN writes : \A j \in DOMAIN writes : j > k => at(j) # at(k)}
           same == {j \in 1 .. m : at(j) = f}
<1>1. Put(disk, writes) =
        [g \in DOMAIN disk \cup {at(k) : k \in kept} |->
           IF \E k \in kept : at(k) = g THEN writes[CHOOSE k \in kept : at(k) = g].content
                                       ELSE disk[g]]
  BY DEF Put
<1>2. \A j \in 1 .. m : at(j) = f => writes[j].content = writes[i].content
  OBVIOUS
<1>3. at(i) = f
  OBVIOUS
<1> HIDE DEF at
<1>4. same \in SUBSET Nat /\ same # {} /\ \A x \in same : x <= m
  BY <1>3
<1> HIDE DEF same
<1>5. Max(same) \in same /\ \A x \in same : x <= Max(same)
  BY <1>4, MaxOf
<1> DEFINE last0 == Max(same)
<1>6. last0 \in same /\ \A x \in same : x <= last0
  BY <1>5
<1> HIDE DEF last0
<1>7. last0 \in kept /\ at(last0) = f
  BY <1>6 DEF same
<1>8. \E k \in kept : at(k) = f
  BY <1>7
<1> DEFINE k == CHOOSE k \in kept : at(k) = f
<1>9. k \in kept /\ at(k) = f
  BY <1>8
<1>10. f \in DOMAIN Put(disk, writes) /\ Put(disk, writes)[f] = writes[k].content
  BY <1>1, <1>8, <1>9
<1>11. QED
  BY <1>2, <1>9, <1>10

-----------------------------------------------------------------------------
(* What a generation that ends leaves on a disk that had no report.          *)
ReportAt(second) == <<second, Folded(ReportName)>>
ForwardAt(second, p, resolutions) == <<second, Folded(ForwardName(StemOf(resolutions, p)))>>
UndoAt(second, p, resolutions) == <<second, Folded(UndoName(StemOf(resolutions, p)))>>

Leaves(disk, second, resolutions) ==
    /\ \A f \in DOMAIN disk : disk[f].kind = "report" => f = ReportAt(second)
    /\ ReportAt(second) \in DOMAIN disk
    /\ disk[ReportAt(second)] = ReportContent(resolutions)
    /\ ~UndoNameClash(ReportContent(resolutions).sections) =>
         \A p \in Affected(resolutions) :
            /\ ForwardAt(second, p, resolutions) \in DOMAIN disk
            /\ UndoAt(second, p, resolutions) \in DOMAIN disk
            /\ disk[ForwardAt(second, p, resolutions)] = ScriptContent("forward", p, resolutions)
            /\ disk[UndoAt(second, p, resolutions)] = ScriptContent("undo", p, resolutions)

LEMMA SectionsOf ==
    ASSUME NEW resolutions
    PROVE  /\ ReportContent(resolutions).kind = "report"
           /\ DOMAIN ReportContent(resolutions).sections = Affected(resolutions)
           /\ \A p \in Affected(resolutions) :
                /\ ReportContent(resolutions).sections[p] = Section(p, resolutions)
                /\ Section(p, resolutions).stem = StemOf(resolutions, p)
<1>1. \A p : Section(p, resolutions).stem = StemOf(resolutions, p)
  BY DEF Section
<1> DEFINE sections == [p \in Affected(resolutions) |-> Section(p, resolutions)]
<1>2. ReportContent(resolutions).kind = "report" /\ ReportContent(resolutions).sections = sections
  BY DEF ReportContent
<1>3. QED
  BY <1>1, <1>2

LEMMA ScriptKinds ==
    \A p, resolutions : /\ ForwardFile(p, resolutions).content.kind = "forward"
                        /\ UndoFile(p, resolutions).content.kind = "undo"
                        /\ ForwardFile(p, resolutions).name = ForwardName(StemOf(resolutions, p))
                        /\ UndoFile(p, resolutions).name = UndoName(StemOf(resolutions, p))
                        /\ ForwardFile(p, resolutions).content
                             = ScriptContent("forward", p, resolutions)
                        /\ UndoFile(p, resolutions).content = ScriptContent("undo", p, resolutions)
                        /\ ReportFile(resolutions).name = ReportName
                        /\ ReportFile(resolutions).content = ReportContent(resolutions)
BY DEF ForwardFile, UndoFile, ReportFile, ScriptContent

(* A generation that ended left all its files, unless two have one name.     *)
LEMMA PlanLeaves ==
    ASSUME NEW disk, NEW resolutions, Affected(resolutions) \subseteq Profiles,
           \A f \in DOMAIN disk : disk[f].kind # "report"
    PROVE  Leaves(Put(disk, Plan(resolutions)), clock, resolutions)
<1> DEFINE plan == Plan(resolutions)
           n == Pairs(resolutions)
           A == Affected(resolutions)
           put == Put(disk, plan)
           fwd(p) == ForwardFile(p, resolutions)
           und(p) == UndoFile(p, resolutions)
           rep == ReportFile(resolutions)
           stem(p) == StemOf(resolutions, p)
           clash == UndoNameClash(ReportContent(resolutions).sections)
<1>1. /\ n \in Nat /\ plan \in Seq(Range(plan)) /\ Len(plan) = n + 1 /\ plan[n + 1] = rep
      /\ \A i \in 1 .. n : \E p \in A : plan[i] \in {fwd(p), und(p)}
      /\ \A p \in A : /\ \E i \in 1 .. n : plan[i] = fwd(p)
                      /\ \E i \in 1 .. n : plan[i] = und(p)
  BY PlanIs
<1>2. \A p \in A : stem(p) \in Word
  BY StemsOfProfiles
<1>3. \A p, q \in A : Folded(stem(p)) = Folded(stem(q)) => p = q
  BY StemsOfProfiles
<1>4. \A p : /\ fwd(p).content.kind = "forward" /\ und(p).content.kind = "undo"
             /\ fwd(p).name = ForwardName(stem(p)) /\ und(p).name = UndoName(stem(p))
             /\ fwd(p).content = ScriptContent("forward", p, resolutions)
             /\ und(p).content = ScriptContent("undo", p, resolutions)
  BY ScriptKinds
<1>5. /\ rep.name = ReportName /\ rep.content = ReportContent(resolutions)
      /\ rep.content.kind = "report"
  BY ScriptKinds, SectionsOf
<1>6. ~clash => \A p, q \in A : Folded(ForwardName(stem(p))) # Folded(UndoName(stem(q)))
  <2> DEFINE sections == ReportContent(resolutions).sections
  <2>1. DOMAIN sections = A /\ \A p \in A : sections[p].stem = stem(p)
    BY SectionsOf
  <2> HIDE DEF sections, A, stem
  <2>2. UndoNameClash(sections) <=>
          \E p, q \in A : Folded(ForwardName(stem(p))) = Folded(UndoName(stem(q)))
    BY <2>1 DEF UndoNameClash
  <2>3. QED
    BY <2>2 DEF sections
<1> HIDE DEF n, A, fwd, und, rep, stem, clash, plan
<1>7. DOMAIN plan = 1 .. n + 1
  BY <1>1
<1>8. \A i \in 1 .. n + 1 : i \in 1 .. n \/ i = n + 1
  BY <1>1
<1>9. \A p, q \in A : /\ Folded(fwd(p).name) = Folded(fwd(q).name) => p = q
                      /\ Folded(und(p).name) = Folded(und(q).name) => p = q
                      /\ Folded(fwd(p).name) # Folded(rep.name)
                      /\ Folded(und(p).name) # Folded(rep.name)
                      /\ ~clash => Folded(fwd(p).name) # Folded(und(q).name)
  <2> TAKE p, q \in A
  <2>1. stem(p) \in Word /\ stem(q) \in Word
    BY <1>2
  <2>2. QED
    BY <1>3, <1>4, <1>5, <1>6, <2>1, NamesDiffer
<1>10. ReportAt(clock) \in DOMAIN put /\ put[ReportAt(clock)] = ReportContent(resolutions)
  <2>1. ASSUME NEW j \in 1 .. n + 1, Folded(plan[j].name) = Folded(plan[n + 1].name)
        PROVE  plan[j].content = plan[n + 1].content
    <3>1. CASE j = n + 1
      BY <3>1
    <3>2. CASE j \in 1 .. n
      <4>1. PICK p \in A : plan[j] \in {fwd(p), und(p)}
        BY <1>1, <3>2
      <4>2. QED
        BY <1>1, <1>9, <2>1, <4>1
    <3>3. QED
      BY <1>8, <3>1, <3>2
  <2>2. n + 1 \in Nat /\ n + 1 \in 1 .. n + 1
    BY <1>1
  <2>3. ReportAt(clock) = <<clock, Folded(plan[n + 1].name)>>
    BY <1>1, <1>5 DEF ReportAt
  <2>4. ReportAt(clock) \in DOMAIN put /\ put[ReportAt(clock)] = plan[n + 1].content
    BY <1>7, <2>1, <2>2, <2>3, PutKeeps
  <2>5. QED
    BY <1>1, <1>5, <2>4
<1>11. ASSUME NEW f \in DOMAIN put, put[f].kind = "report" PROVE f = ReportAt(clock)
  <2>1. PICK i \in DOMAIN plan : /\ f = <<clock, Folded(plan[i].name)>>
                                 /\ put[f] = plan[i].content
    BY <1>11, PutWrites
  <2>2. CASE i = n + 1
    BY <1>1, <1>5, <2>1, <2>2 DEF ReportAt
  <2>3. CASE i \in 1 .. n
    <3>1. PICK p \in A : plan[i] \in {fwd(p), und(p)}
      BY <1>1, <2>3
    <3>2. QED
      BY <1>4, <1>11, <2>1, <3>1
  <2>4. QED
    BY <1>7, <1>8, <2>1, <2>2, <2>3
<1>12. ASSUME ~clash, NEW p \in A
       PROVE  /\ ForwardAt(clock, p, resolutions) \in DOMAIN put
              /\ put[ForwardAt(clock, p, resolutions)] = ScriptContent("forward", p, resolutions)
  <2>1. PICK i \in 1 .. n : plan[i] = fwd(p)
    BY <1>1
  <2>2. ASSUME NEW j \in 1 .. n + 1, Folded(plan[j].name) = Folded(plan[i].name)
        PROVE  plan[j].content = plan[i].content
    <3>1. CASE j = n + 1
      BY <1>1, <1>9, <2>1, <2>2, <3>1
    <3>2. CASE j \in 1 .. n
      <4>1. PICK q \in A : plan[j] \in {fwd(q), und(q)}
        BY <1>1, <3>2
      <4>2. QED
        BY <1>9, <1>12, <2>1, <2>2, <4>1
    <3>3. QED
      BY <1>8, <3>1, <3>2
  <2>3. n + 1 \in Nat /\ i \in 1 .. n + 1
    BY <1>1
  <2>4. ForwardAt(clock, p, resolutions) = <<clock, Folded(plan[i].name)>>
    BY <1>4, <2>1 DEF ForwardAt, stem
  <2>5. QED
    BY <1>4, <1>7, <2>1, <2>2, <2>3, <2>4, PutKeeps
<1>13. ASSUME ~clash, NEW p \in A
       PROVE  /\ UndoAt(clock, p, resolutions) \in DOMAIN put
              /\ put[UndoAt(clock, p, resolutions)] = ScriptContent("undo", p, resolutions)
  <2>1. PICK i \in 1 .. n : plan[i] = und(p)
    BY <1>1
  <2>2. ASSUME NEW j \in 1 .. n + 1, Folded(plan[j].name) = Folded(plan[i].name)
        PROVE  plan[j].content = plan[i].content
    <3>1. CASE j = n + 1
      BY <1>1, <1>9, <2>1, <2>2, <3>1
    <3>2. CASE j \in 1 .. n
      <4>1. PICK q \in A : plan[j] \in {fwd(q), und(q)}
        BY <1>1, <3>2
      <4>2. QED
        BY <1>9, <1>13, <2>1, <2>2, <4>1
    <3>3. QED
      BY <1>8, <3>1, <3>2
  <2>3. n + 1 \in Nat /\ i \in 1 .. n + 1
    BY <1>1
  <2>4. UndoAt(clock, p, resolutions) = <<clock, Folded(plan[i].name)>>
    BY <1>4, <2>1 DEF UndoAt, stem
  <2>5. QED
    BY <1>4, <1>7, <2>1, <2>2, <2>3, <2>4, PutKeeps
<1> HIDE DEF put
<1>14. Leaves(put, clock, resolutions)
  BY <1>10, <1>11, <1>12, <1>13 DEF Leaves, clash, A
<1>15. QED
  BY <1>14 DEF put, plan

(* Whatever else is written, a report is not, before the last file.          *)
LEMMA FailuresHaveNoReport ==
    ASSUME NEW resolutions, Affected(resolutions) \subseteq Profiles, WriteSome(resolutions),
           \A f \in DOMAIN files : files[f].kind # "report", NEW f \in DOMAIN files'
    PROVE  files'[f].kind # "report"
<1> DEFINE plan == Plan(resolutions)
           n == Pairs(resolutions)
<1>1. /\ n \in Nat /\ plan \in Seq(Range(plan)) /\ Len(plan) = n + 1
      /\ \A i \in 1 .. n : \E p \in Affected(resolutions) :
           plan[i] \in {ForwardFile(p, resolutions), UndoFile(p, resolutions)}
  BY PlanIs
<1> HIDE DEF n, plan
<1>2. \A i \in 1 .. n : plan[i].content.kind # "report"
  BY <1>1, ScriptKinds
<1>3. PICK k \in 0 .. Len(plan) - 1 :
        \/ files' = Put(files, SubSeq(plan, 1, k))
        \/ files' = Put(files, Append(SubSeq(plan, 1, k), [plan[k + 1] EXCEPT !.content = Torn]))
  BY DEF WriteSome, plan
<1> DEFINE done == SubSeq(plan, 1, k)
           torn == [plan[k + 1] EXCEPT !.content = Torn]
<1>4. /\ done \in Seq(Range(plan)) /\ Len(done) = k /\ DOMAIN done = 1 .. k
      /\ \A i \in 1 .. k : done[i] = plan[i] /\ i \in 1 .. n
  BY <1>1
<1>5. torn.content.kind # "report"
  <2>1. WriteOf(plan[k + 1], resolutions)
    <3>1. k + 1 \in DOMAIN plan
      BY <1>1
    <3>2. QED
      BY <3>1, PlanHasContent DEF AllOf, plan
  <2>2. torn = [name |-> plan[k + 1].name, content |-> Torn]
    BY <2>1 DEF WriteOf
  <2>3. QED
    BY <2>2 DEF Torn
<1> HIDE DEF done, torn
<1>6. \A i \in DOMAIN done : done[i].content.kind # "report"
  BY <1>2, <1>4
<1>7. \A i \in DOMAIN Append(done, torn) : Append(done, torn)[i].content.kind # "report"
  <2> DEFINE all == Range(plan) \cup {torn}
  <2>1. done \in Seq(all) /\ torn \in all
    <3>1. \A i \in 1 .. k : done[i] \in all
      BY <1>4
    <3>2. QED
      BY <1>4, <3>1
  <2> HIDE DEF all
  <2>2. /\ DOMAIN Append(done, torn) = 1 .. k + 1
        /\ Append(done, torn)[k + 1] = torn
        /\ \A i \in 1 .. k : Append(done, torn)[i] = done[i]
    BY <1>4, <2>1
  <2>3. \A i \in 1 .. k + 1 : i \in 1 .. k \/ i = k + 1
    BY <1>1
  <2>4. QED
    BY <1>4, <1>5, <1>6, <2>2, <2>3
<1>8. ASSUME NEW writes, files' = Put(files, writes),
             \A i \in DOMAIN writes : writes[i].content.kind # "report"
      PROVE  files'[f].kind # "report"
  <2>1. CASE f \in DOMAIN files /\ files'[f] = files[f]
    BY <2>1
  <2>2. CASE \E i \in DOMAIN writes : files'[f] = writes[i].content
    BY <1>8, <2>2
  <2>3. QED
    BY <1>8, <2>1, <2>2, PutWrites
<1>9. files' = Put(files, done) \/ files' = Put(files, Append(done, torn))
  BY <1>3 DEF done, torn
<1>10. QED
  BY <1>6, <1>7, <1>8, <1>9

-----------------------------------------------------------------------------
(* A generation, from when it is asked to when it ended.                     *)

(* What the resolutions asked for are made of.                               *)
MadeOfCards(cards, asked, resolutions) ==
    /\ DOMAIN asked.decisions = cards
    /\ \A c \in cards : /\ asked.decisions[c] \in DecisionOf(c)
                        /\ asked.decisions[c].dests
                             \subseteq DestinationChoices(c, asked.decisions[c].target)
    /\ \E opts : resolutions = BuildResolutions(asked.decisions, opts)

MadeOf(asked, resolutions) == MadeOfCards(Cards, asked, resolutions)

(* There is no report until a generation ends, and that ends the screen.     *)
GenerationInv ==
    /\ dialog.kind = "drop" => MadeOf(dialog.asked, dialog.resolutions)
    /\ outcome # "open" => dialog = NoDialog
    /\ outcome # "generated" => Written("report") = {}
    /\ outcome = "generated" => Unsupported = {}
    /\ outcome = "generated" =>
         \E resolutions : /\ MadeOf(last.asked, resolutions)
                          /\ Affected(resolutions) \subseteq Profiles
                          /\ Leaves(files, last.second, resolutions)

LEMMA MadeForProfiles ==
    ASSUME FormInv, NEW asked, NEW resolutions, MadeOf(asked, resolutions)
    PROVE  Affected(resolutions) \subseteq Profiles
<1> SUFFICES ASSUME NEW r \in resolutions PROVE r.dests \subseteq Profiles
  BY DEF Affected
<1>1. PICK opts : resolutions = BuildResolutions(asked.decisions, opts)
  BY DEF MadeOf, MadeOfCards
<1>2. PICK c \in Cards : r = Resolution(c, asked.decisions[c], opts[c])
  BY <1>1 DEF BuildResolutions, MadeOf, MadeOfCards
<1>3. r.dests = Allowed(c, asked.decisions[c])
  BY <1>2 DEF Resolution
<1>4. QED
  BY <1>3, ChoicesAreProfiles DEF Allowed

(* The steps of the screen, by what they do to a generation.                 *)
Idle ==
    /\ UNCHANGED <<files, last>>
    /\ outcome' = outcome \/ (outcome = "open" /\ outcome' = "left")
    /\ outcome' # "open" => dialog' = NoDialog
    /\ dialog'.kind = "drop" =>
         dialog' = dialog \/ MadeOf(dialog'.asked, dialog'.resolutions)

Writes ==
    /\ outcome = "open" /\ dialog' = NoDialog
    /\ \E asked : \E resolutions : MadeOf(asked, resolutions) /\ WriteScripts(resolutions, asked)

LEMMA DecisionsAsked ==
    ASSUME FormInv, NEW asked, asked.decisions = decisions
    PROVE  MadeOf(asked, BuildResolutions(decisions, options))
BY DEF MadeOf, MadeOfCards, FormInv, Cards

LEMMA GenerationSteps ==
    ASSUME FormInv, GenerationInv, [Next]_vars
    PROVE  compared' = compared /\ Cards' = Cards /\ (Idle \/ Writes)
<1> USE DEF history, screen
<1>0. FormInv'
  BY FormSafe
<1>1. compared' = compared
  <2> USE DEF Edit
  <2>1. ASSUME NEW card, \/ \E target \in Targets(card) : Press(card, target)
                         \/ \E p \in Profiles : Tick(card, p)
                         \/ HandleRadio(card) \/ HandleTicks(card)
                         \/ \E fill \in {{}} \cup {{v} : v \in FillValues} : TypeFill(card, fill)
                         \/ ToggleAccept(card)
        PROVE  compared' = compared
    BY <2>1 DEF Press, Tick, HandleRadio, HandleTicks, TypeFill, ToggleAccept
  <2>2. CASE GenerateSql \/ ConfirmDrops \/ ShowForm \/ Back \/ ConfirmDiscard
               \/ CancelDialog \/ NextSecond \/ UNCHANGED vars
    BY <2>2 DEF GenerateSql, ConfirmDrops, ShowForm, Back, ConfirmDiscard, CancelDialog,
                NextSecond, vars
  <2>3. QED
    BY <2>1, <2>2 DEF Next
<1>2. Cards' = Cards
  BY <1>0, <1>1 DEF FormInv
<1> SUFFICES Idle \/ Writes
  BY <1>1, <1>2
<1>3. dialog.kind = "drop" => MadeOf(dialog.asked, dialog.resolutions)
  BY DEF GenerationInv
<1>4. outcome # "open" => dialog = NoDialog
  BY DEF GenerationInv
<1>5. NoDialog.kind = "none"
  BY DEF NoDialog
<1>6. ASSUME NEW card, \/ \E target \in Targets(card) : Press(card, target)
                       \/ \E p \in Profiles : Tick(card, p)
                       \/ HandleRadio(card) \/ HandleTicks(card)
                       \/ \E fill \in {{}} \cup {{v} : v \in FillValues} : TypeFill(card, fill)
                       \/ ToggleAccept(card)
      PROVE  Idle
  <2>1. UNCHANGED <<files, last, outcome, dialog>>
    BY <1>6 DEF Press, Tick, HandleRadio, HandleTicks, TypeFill, ToggleAccept, Edit
  <2>2. QED
    BY <1>4, <2>1 DEF Idle
<1>7. CASE ShowForm \/ NextSecond \/ UNCHANGED vars
  <2>1. UNCHANGED <<files, last, outcome, dialog>>
    BY <1>7 DEF ShowForm, NextSecond, vars
  <2>2. QED
    BY <1>4, <2>1 DEF Idle
<1>8. CASE ConfirmDiscard \/ CancelDialog
  <2>1. UNCHANGED <<files, last>> /\ dialog' = NoDialog
        /\ (outcome' = outcome \/ (outcome' = "left" /\ dialog # NoDialog))
    BY <1>5, <1>8 DEF ConfirmDiscard, CancelDialog
  <2>2. QED
    BY <1>4, <1>5, <2>1 DEF Idle
<1>9. CASE Back
  <2>1. UNCHANGED <<files, last>> /\ Open
        /\ \/ outcome' = outcome /\ dialog' = [NoDialog EXCEPT !.kind = "discard"]
           \/ outcome' = "left" /\ dialog' = dialog
    BY <1>9 DEF Back
  <2>2. [NoDialog EXCEPT !.kind = "discard"].kind = "discard"
    BY DEF NoDialog
  <2>3. QED
    BY <1>5, <2>1, <2>2 DEF Idle, Open
<1>10. CASE GenerateSql
  <2> DEFINE resolutions == BuildResolutions(decisions, options)
             asked == [shown |-> shown, decisions |-> decisions]
  <2>1. MadeOf(asked, resolutions)
    BY DecisionsAsked
  <2>2. CASE Drops(resolutions) = {}
    <3>1. WriteScripts(resolutions, asked) /\ dialog' = dialog /\ Open
      BY <1>10, <2>2 DEF GenerateSql
    <3>2. QED
      BY <2>1, <3>1 DEF Writes, Open
  <2>3. CASE Drops(resolutions) # {}
    <3>1. dialog' = [kind |-> "drop", resolutions |-> resolutions, asked |-> asked]
          /\ UNCHANGED <<files, outcome, last>> /\ Open
      BY <1>10, <2>3 DEF GenerateSql
    <3> HIDE DEF resolutions, asked
    <3>2. dialog'.asked = asked /\ dialog'.resolutions = resolutions
      BY <3>1
    <3>3. QED
      BY <2>1, <3>1, <3>2 DEF Idle, Open
  <2>4. QED
    BY <2>2, <2>3
<1>11. CASE ConfirmDrops
  <2>1. dialog.kind = "drop" /\ dialog' = NoDialog /\ WriteScripts(dialog.resolutions, dialog.asked)
    BY <1>11 DEF ConfirmDrops
  <2>2. outcome = "open"
    BY <1>4, <1>5, <2>1
  <2>3. QED
    BY <1>3, <2>1, <2>2 DEF Writes
<1>12. QED
  BY <1>1, <1>2, <1>6, <1>7, <1>8, <1>9, <1>10, <1>11 DEF Next

LEMMA GenerationSafe == FormInv /\ GenerationInv /\ [Next]_vars => GenerationInv'
<1> SUFFICES ASSUME FormInv, GenerationInv, [Next]_vars PROVE GenerationInv'
  OBVIOUS
<1>1. compared' = compared /\ Cards' = Cards /\ (Idle \/ Writes)
  BY GenerationSteps
<1>3. /\ dialog.kind = "drop" => MadeOf(dialog.asked, dialog.resolutions)
      /\ outcome # "open" => dialog = NoDialog
      /\ outcome # "generated" => \A f \in DOMAIN files : files[f].kind # "report"
  BY DEF GenerationInv, Written
<1>4. NoDialog.kind = "none"
  BY DEF NoDialog
<1>5. CASE Idle
  <2>1. (dialog.kind = "drop" => MadeOf(dialog.asked, dialog.resolutions))'
    BY <1>1, <1>3, <1>5 DEF Idle, MadeOf
  <2>2. (outcome # "open" => dialog = NoDialog)'
    BY <1>5 DEF Idle
  <2>3. (outcome # "generated" => Written("report") = {})'
    BY <1>3, <1>5 DEF Idle, Written
  <2>4. ASSUME outcome' = "generated"
        PROVE  \E resolutions : /\ MadeOfCards(Cards', last'.asked, resolutions)
                                /\ Affected(resolutions) \subseteq Profiles
                                /\ Leaves(files', last'.second, resolutions)
    <3>1. outcome = "generated" /\ last' = last /\ files' = files
      BY <1>5, <2>4 DEF Idle
    <3>2. PICK resolutions : /\ MadeOf(last.asked, resolutions)
                             /\ Affected(resolutions) \subseteq Profiles
                             /\ Leaves(files, last.second, resolutions)
      BY <3>1 DEF GenerationInv
    <3>3. MadeOfCards(Cards', last'.asked, resolutions)
      BY <1>1, <3>1, <3>2 DEF MadeOf
    <3>4. QED
      BY <3>1, <3>2, <3>3
  <2>5. (outcome = "generated" => Unsupported = {})'
    BY <1>1, <1>5 DEF Idle, Unsupported, GenerationInv
  <2>6. QED
    BY <2>1, <2>2, <2>3, <2>4, <2>5 DEF GenerationInv, MadeOf
<1>6. CASE Writes
  <2>1. PICK asked : \E resolutions : MadeOf(asked, resolutions) /\ WriteScripts(resolutions, asked)
    BY <1>6 DEF Writes
  <2>2. PICK resolutions : MadeOf(asked, resolutions) /\ WriteScripts(resolutions, asked)
    BY <2>1
  <2>3. Affected(resolutions) \subseteq Profiles
    BY <2>2, MadeForProfiles
  <2>4. outcome = "open" /\ dialog' = NoDialog /\ \A f \in DOMAIN files : files[f].kind # "report"
    BY <1>3, <1>6 DEF Writes
  <2>5. CASE WriteAll(resolutions, asked)
    <3>1. /\ files' = Put(files, Plan(resolutions)) /\ outcome' = "generated"
          /\ last' = [asked |-> asked, second |-> clock]
      BY <2>5 DEF WriteAll
    <3>2. Leaves(files', clock, resolutions)
      BY <2>3, <2>4, <3>1, PlanLeaves
    <3>3. last'.asked = asked /\ last'.second = clock
      BY <3>1
    <3>4. MadeOf(last.asked, resolutions)'
      BY <1>1, <2>2, <3>3 DEF MadeOf
    <3>5. Unsupported' = {}
      BY <1>1, <2>5 DEF WriteAll, CanWrite, Unsupported
    <3>6. QED
      BY <1>4, <2>3, <2>4, <3>1, <3>2, <3>3, <3>4, <3>5 DEF GenerationInv
  <2>6. CASE WriteSome(resolutions)
    <3>1. outcome' = outcome /\ \A f \in DOMAIN files' : files'[f].kind # "report"
      BY <2>3, <2>4, <2>6, FailuresHaveNoReport DEF WriteSome
    <3>2. QED
      BY <1>4, <2>4, <3>1 DEF GenerationInv, Written
  <2>7. CASE WriteNothing(resolutions)
    BY <1>4, <2>4, <2>7 DEF WriteNothing, GenerationInv, Written
  <2>8. QED
    BY <2>2, <2>5, <2>6, <2>7 DEF WriteScripts
<1>7. QED
  BY <1>1, <1>5, <1>6

LEMMA Generations == Spec => [](FormInv /\ GenerationInv)
<1>1. Init => GenerationInv
  BY DEF Init, GenerationInv, NoDialog, Written
<1>2. QED
  BY <1>1, FormStarts, FormSafe, GenerationSafe, PTL DEF Spec

-----------------------------------------------------------------------------
(* What a report lists.                                                      *)

LEMMA StepFields ==
    \A p, r : /\ Step(p, r).action = r.action /\ Step(p, r).table = r.table
              /\ Step(p, r).column = r.column /\ Step(p, r).to = r.to
BY DEF Step

LEMMA SectionLists ==
    ASSUME NEW p, NEW resolutions
    PROVE  Lists(Section(p, resolutions), StepsOf(p, resolutions))
<1> DEFINE steps == StepsOf(p, resolutions)
           mine == Mine(p, resolutions)
           section == Section(p, resolutions)
           S(actions) == {s \in steps : s.action \in actions}
           R(actions) == {r \in mine : r.action \in actions}
<1>0. /\ \A s \in steps : \E r \in mine : s = Step(p, r)
      /\ \A r \in mine : Step(p, r) \in steps
  BY DEF StepsOf, Mine
<1> HIDE DEF steps, mine
<1>1. ASSUME NEW actions, NEW s \in S(actions)
      PROVE  \E r \in R(actions) : /\ r.table = s.table /\ r.column = s.column
                                   /\ r.to = s.to
  <2>1. s \in steps /\ s.action \in actions
    OBVIOUS
  <2>2. PICK r \in mine : s = Step(p, r)
    BY <1>0, <2>1
  <2>3. /\ r.action = s.action /\ r.table = s.table /\ r.column = s.column /\ r.to = s.to
    BY <2>2, StepFields
  <2>4. r \in R(actions)
    BY <2>1, <2>3
  <2>5. QED
    BY <2>3, <2>4
<1>2. ASSUME NEW actions, NEW r \in R(actions)
      PROVE  \E s \in S(actions) : /\ s.table = r.table /\ s.column = r.column
                                   /\ s.to = r.to
  <2> DEFINE s == Step(p, r)
  <2>1. r \in mine /\ r.action \in actions
    OBVIOUS
  <2>2. /\ r.action = s.action /\ r.table = s.table /\ r.column = s.column /\ r.to = s.to
    BY StepFields
  <2>3. s \in steps
    BY <1>0, <2>1
  <2> HIDE DEF s
  <2>4. s \in S(actions)
    BY <2>1, <2>2, <2>3
  <2>5. QED
    BY <2>2, <2>4
<1>3. section.created = {<<s.table, s.to>> : s \in S({"create table"})}
  <2> DEFINE ss == S({"create table"})
             rs == R({"create table"})
  <2>1. section.created = {<<r.table, r.to>> : r \in rs}
    BY DEF Section, mine
  <2>2. \A s \in ss : \E r \in rs : r.table = s.table /\ r.column = s.column /\ r.to = s.to
    <3> TAKE s \in ss
    <3>1. QED
      BY <1>1, Zenon
  <2>3. \A r \in rs : \E s \in ss : s.table = r.table /\ s.column = r.column /\ s.to = r.to
    <3> TAKE r \in rs
    <3>1. QED
      BY <1>2, Zenon
  <2> HIDE DEF ss, rs, section
  <2>4. section.created = {<<s.table, s.to>> : s \in ss}
    BY <2>1, <2>2, <2>3
  <2>5. QED
    BY <2>4 DEF ss
<1>4. section.dropped = {s.table : s \in S({"drop table"})}
  <2> DEFINE ss == S({"drop table"})
             rs == R({"drop table"})
  <2>1. section.dropped = {r.table : r \in rs}
    BY DEF Section, mine
  <2>2. \A s \in ss : \E r \in rs : r.table = s.table /\ r.column = s.column /\ r.to = s.to
    <3> TAKE s \in ss
    <3>1. QED
      BY <1>1, Zenon
  <2>3. \A r \in rs : \E s \in ss : s.table = r.table /\ s.column = r.column /\ s.to = r.to
    <3> TAKE r \in rs
    <3>1. QED
      BY <1>2, Zenon
  <2> HIDE DEF ss, rs, section
  <2>4. section.dropped = {s.table : s \in ss}
    BY <2>1, <2>2, <2>3
  <2>5. QED
    BY <2>4 DEF ss
<1>5. section.changed = {<<s.table, s.column, s.to>> : s \in S({"add column", "modify column"})}
  <2> DEFINE ss == S({"add column", "modify column"})
             rs == R({"add column", "modify column"})
  <2>1. section.changed = {<<r.table, r.column, r.to>> : r \in rs}
    BY DEF Section, mine
  <2>2. \A s \in ss : \E r \in rs : r.table = s.table /\ r.column = s.column /\ r.to = s.to
    <3> TAKE s \in ss
    <3>1. QED
      BY <1>1, Zenon
  <2>3. \A r \in rs : \E s \in ss : s.table = r.table /\ s.column = r.column /\ s.to = r.to
    <3> TAKE r \in rs
    <3>1. QED
      BY <1>2, Zenon
  <2> HIDE DEF ss, rs, section
  <2>4. section.changed = {<<s.table, s.column, s.to>> : s \in ss}
    BY <2>1, <2>2, <2>3
  <2>5. QED
    BY <2>4 DEF ss
<1>6. section.columnsDropped = {<<s.table, s.column>> : s \in S({"drop column"})}
  <2> DEFINE ss == S({"drop column"})
             rs == R({"drop column"})
  <2>1. section.columnsDropped = {<<r.table, r.column>> : r \in rs}
    BY DEF Section, mine
  <2>2. \A s \in ss : \E r \in rs : r.table = s.table /\ r.column = s.column /\ r.to = s.to
    <3> TAKE s \in ss
    <3>1. QED
      BY <1>1, Zenon
  <2>3. \A r \in rs : \E s \in ss : s.table = r.table /\ s.column = r.column /\ s.to = r.to
    <3> TAKE r \in rs
    <3>1. QED
      BY <1>2, Zenon
  <2> HIDE DEF ss, rs, section
  <2>4. section.columnsDropped = {<<s.table, s.column>> : s \in ss}
    BY <2>1, <2>2, <2>3
  <2>5. QED
    BY <2>4 DEF ss
<1>7. Lists(section, steps)
  BY <1>3, <1>4, <1>5, <1>6 DEF Lists
<1>8. QED
  BY <1>7 DEF section, steps

(* A report tells the truth about its folder: the scripts it names are there,*)
(* whole, whatever failed, was tried again or is spelled alike before it     *)
(* (`write_sql_scripts', `assign_script_filenames').                         *)
THEOREM ReportsAreComplete == Spec => []ReportedIsComplete
<1>1. FormInv /\ GenerationInv => ReportedIsComplete
  <2> SUFFICES ASSUME FormInv, GenerationInv, NEW f \in Written("report"),
                      ~UndoNameClash(files[f].sections), NEW p \in DOMAIN files[f].sections
               PROVE  Complete(f[1], p, files[f].sections[p])
    BY DEF ReportedIsComplete
  <2>1. f \in DOMAIN files /\ files[f].kind = "report" /\ outcome = "generated"
    BY DEF Written, GenerationInv
  <2>2. PICK resolutions : /\ Affected(resolutions) \subseteq Profiles
                           /\ Leaves(files, last.second, resolutions)
    BY <2>1 DEF GenerationInv
  <2> DEFINE second == last.second
             forward == ForwardAt(second, p, resolutions)
             undo == UndoAt(second, p, resolutions)
             section == Section(p, resolutions)
  <2>3. f = ReportAt(second) /\ files[f] = ReportContent(resolutions)
    BY <2>1, <2>2 DEF Leaves
  <2>4. f[1] = second
    BY <2>3 DEF ReportAt
  <2>5. p \in Affected(resolutions) /\ files[f].sections[p] = section
        /\ section.stem = StemOf(resolutions, p)
    BY <2>3, SectionsOf
  <2>6. /\ {forward, undo} \subseteq DOMAIN files
        /\ files[forward] = ScriptContent("forward", p, resolutions)
        /\ files[undo] = ScriptContent("undo", p, resolutions)
    BY <2>2, <2>3, <2>5 DEF Leaves
  <2>7. /\ files[forward].kind = "forward" /\ files[undo].kind = "undo"
        /\ files[forward].profile = p /\ files[undo].profile = p
        /\ files[forward].steps = StepsOf(p, resolutions)
        /\ files[undo].steps = StepsOf(p, resolutions)
    BY <2>6 DEF ScriptContent
  <2>8. StepsOf(p, resolutions) # {}
    BY <2>5 DEF Affected, StepsOf
  <2>9. Lists(section, StepsOf(p, resolutions))
    BY SectionLists
  <2>10. forward = <<second, Folded(ForwardName(section.stem))>>
         /\ undo = <<second, Folded(UndoName(section.stem))>>
    BY <2>5 DEF ForwardAt, UndoAt
  <2> HIDE DEF forward, undo, section, second
  <2>11. Complete(second, p, section)
    BY <2>6, <2>7, <2>8, <2>9, <2>10 DEF Complete
  <2>12. QED
    BY <2>4, <2>5, <2>11
<1>2. QED
  BY <1>1, Generations, PTL

-----------------------------------------------------------------------------
(* Cards are all there is to decide about, and each only once.               *)

(* A finding of one profile, of a kind that is missing somewhere.            *)
MissingFrom(e, p) == [kind |-> e.kind, table |-> e.table, column |-> e.column,
                      missing |-> {p}, present |-> e.present]

TableFinding(m) == [kind |-> "table", table |-> m.object, column |-> "",
               missing |-> {m.missing_from_profile},
               present |-> PresentColumns(compared, m.object)]
ColumnFinding(m) == [kind |-> "column", table |-> m.table, column |-> m.finding.object,
                missing |-> {m.finding.missing_from_profile},
                present |-> PresentAttributes(compared, m.table, m.finding.object)]
MismatchFinding(m) == [kind |-> "mismatch", table |-> m.table, column |-> m.finding.object,
                  missing |-> {}, present |-> m.finding.values_by_profile]

LEMMA EntriesAre ==
    ASSUME NEW e
    PROVE  e \in Entries(compared) <=>
             \/ \E m \in MissingObjects(compared) : e = TableFinding(m)
             \/ \E m \in MissingColumns(compared) : e = ColumnFinding(m)
             \/ \E m \in ColumnMismatches(compared) : e = MismatchFinding(m)
BY DEF Entries, TableFinding, ColumnFinding, MismatchFinding

LEMMA Kinds == \A m : /\ TableFinding(m).kind = "table" /\ ColumnFinding(m).kind = "column"
                      /\ MismatchFinding(m).kind = "mismatch"
BY DEF TableFinding, ColumnFinding, MismatchFinding

LEMMA TablesAreFound ==
    ASSUME NEW e \in Entries(compared), e.kind = "table"
    PROVE  /\ e.column = ""
           /\ \A p \in DOMAIN compared \ PresentProfiles(e) :
                MissingFrom(e, p) \in Entries(compared)
<1>1. PICK m \in MissingObjects(compared) : e = TableFinding(m)
  BY EntriesAre, Kinds
<1>2. /\ m = [object |-> m.object, missing_from_profile |-> m.missing_from_profile]
      /\ m.object \in Union(compared, DOMAIN compared)
  BY DEF MissingObjects
<1>3. PresentProfiles(e) = {p \in DOMAIN compared : m.object \in DOMAIN compared[p]}
  BY <1>1 DEF TableFinding, PresentProfiles, PresentColumns, Having
<1>4. ASSUME NEW p \in DOMAIN compared \ PresentProfiles(e)
      PROVE  MissingFrom(e, p) \in Entries(compared)
  <2> DEFINE lack == [object |-> m.object, missing_from_profile |-> p]
  <2>1. lack \in MissingObjects(compared)
    BY <1>2, <1>3, <1>4 DEF MissingObjects
  <2>2. TableFinding(lack) \in Entries(compared)
    BY <2>1, EntriesAre
  <2>3. TableFinding(lack) = MissingFrom(e, p)
    BY <1>1 DEF MissingFrom, TableFinding
  <2>4. QED
    BY <2>2, <2>3
<1>5. e.column = ""
  BY <1>1 DEF TableFinding
<1>6. QED
  BY <1>4, <1>5

LEMMA ColumnsAreFound ==
    ASSUME NEW e \in Entries(compared), e.kind = "column",
           NEW p \in DOMAIN compared \ PresentProfiles(e), TableAt(p, e.table) # {}
    PROVE  MissingFrom(e, p) \in Entries(compared)
<1>1. PICK m \in MissingColumns(compared) : e = ColumnFinding(m)
  BY EntriesAre, Kinds
<1> DEFINE columns == ColumnsAt(compared, m.table)
           lack == [object |-> m.finding.object, missing_from_profile |-> p]
           found == [table |-> m.table, finding |-> lack]
<1>2. PICK n \in Shared(compared, DOMAIN compared) :
        m \in ByTable(n, MissingObjects(ColumnsAt(compared, n)))
  BY DEF MissingColumns
<1>3. m.table = n /\ m.finding \in MissingObjects(columns)
  BY <1>2 DEF ByTable
<1>4. m.finding.object \in Union(columns, DOMAIN columns)
  BY <1>3 DEF MissingObjects
<1>5. /\ DOMAIN columns = {q \in DOMAIN compared : m.table \in DOMAIN compared[q]}
      /\ PresentProfiles(e) = {q \in DOMAIN columns : m.finding.object \in DOMAIN columns[q]}
  BY <1>1 DEF ColumnFinding, PresentProfiles, PresentAttributes, Having, ColumnsAt
<1> HIDE DEF columns
<1>6. e.table = m.table /\ p \in DOMAIN columns /\ m.finding.object \notin DOMAIN columns[p]
  BY <1>1, <1>5 DEF TableAt, ColumnFinding
<1>7. lack \in MissingObjects(columns)
  BY <1>4, <1>6 DEF MissingObjects
<1>8. found \in MissingColumns(compared)
  BY <1>2, <1>3, <1>7 DEF MissingColumns, ByTable, columns
<1>9. ColumnFinding(found) \in Entries(compared)
  BY <1>8, EntriesAre
<1>10. ColumnFinding(found) = MissingFrom(e, p)
  BY <1>1 DEF MissingFrom, ColumnFinding
<1>11. QED
  BY <1>9, <1>10

(* A column differs once.                                                    *)
LEMMA MismatchesAreOne ==
    ASSUME NEW e \in Entries(compared), NEW f \in Entries(compared),
           e.kind = "mismatch", f.kind = "mismatch", e.table = f.table, e.column = f.column
    PROVE  e = f
<1> DEFINE of(n, c) == LET columns == ColumnsAt(compared, n)
                       IN [p \in Having(columns, DOMAIN columns, c) |-> columns[p][c]]
<1>1. ASSUME NEW m \in ColumnMismatches(compared)
      PROVE  m.finding.values_by_profile = of(m.table, m.finding.object)
  <2> DEFINE columns == ColumnsAt(compared, m.table)
             values(n) == [p \in Having(columns, DOMAIN columns, n) |-> columns[p][n]]
  <2>1. m.finding \in Mismatches(columns, DOMAIN columns)
    BY DEF ColumnMismatches, ByTable
  <2>2. Mismatches(columns, DOMAIN columns) =
          {[object |-> n, values_by_profile |-> values(n)] :
             n \in {n \in Union(columns, DOMAIN columns) : Differ(values(n))}}
    BY DEF Mismatches
  <2>3. \A n : values(n) = of(m.table, n)
    OBVIOUS
  <2> HIDE DEF values, of, columns
  <2>4. PICK n : m.finding = [object |-> n, values_by_profile |-> values(n)]
    BY <2>1, <2>2
  <2>5. m.finding.object = n /\ m.finding.values_by_profile = values(n)
    BY <2>4
  <2>6. QED
    BY <2>3, <2>5
<1> HIDE DEF of
<1>2. ASSUME NEW g \in Entries(compared), g.kind = "mismatch"
      PROVE  g = [kind |-> "mismatch", table |-> g.table, column |-> g.column,
                  missing |-> {}, present |-> of(g.table, g.column)]
  <2>1. PICK m \in ColumnMismatches(compared) : g = MismatchFinding(m)
    BY <1>2, EntriesAre, Kinds
  <2>2. g.table = m.table /\ g.column = m.finding.object
    BY <2>1 DEF MismatchFinding
  <2>3. QED
    BY <1>1, <2>1, <2>2 DEF MismatchFinding
<1>3. QED
  BY <1>2

(* The finding a card comes from, and those it stands for.                   *)
LEMMA CardsStandForEntries ==
    ASSUME Cards = GroupFindings(Entries(compared)), OneKeyEach, NEW card \in Cards
    PROVE  \E e \in Entries(compared) :
             /\ card = CardOf(Entries(compared), e)
             /\ e.kind = card.kind /\ e.table = card.table /\ e.column = card.column
             /\ PresentProfiles(e) = PresentProfiles(card)
             /\ card.kind # "mismatch" =>
                  \A f \in Siblings(Entries(compared), e) : f.missing \subseteq card.missing
<1>1. PICK g \in Entries(compared) : card = CardOf(Entries(compared), g)
  BY DEF GroupFindings
<1>2. CASE g.kind = "mismatch"
  BY <1>1, <1>2 DEF CardOf
<1>3. CASE g.kind # "mismatch"
  <2> DEFINE siblings == Siblings(Entries(compared), g)
             first == Only(siblings)
             missing == UNION {f.missing : f \in siblings}
  <2>1. g \in siblings
    BY DEF Siblings
  <2>2. first \in siblings
    BY <2>1 DEF Only
  <2>3. card = [first EXCEPT !.missing = missing]
    BY <1>1, <1>3 DEF CardOf
  <2>4. /\ first \in Entries(compared) /\ first.kind = g.kind
        /\ Key[first.table] = Key[g.table] /\ first.column = g.column
    BY <2>2 DEF Siblings
  <2>5. Siblings(Entries(compared), first) = siblings
    <3> HIDE DEF first
    <3>1. QED
      BY <2>4 DEF Siblings
  <2>6. IsEntry(first)
    BY <2>4, EntriesAreTrue
  <2>7. \A f \in siblings : f.missing \subseteq missing
    OBVIOUS
  <2> HIDE DEF siblings, first, missing
  <2>8. card = [kind |-> first.kind, table |-> first.table, column |-> first.column,
                missing |-> missing, present |-> first.present]
    BY <2>3, <2>6 DEF IsEntry
  <2>9. /\ first.kind = card.kind /\ first.table = card.table /\ first.column = card.column
        /\ card.present = first.present /\ card.missing = missing
    BY <2>8
  <2>10. card = CardOf(Entries(compared), first)
    <3>1. CardOf(Entries(compared), first) = CardOf(Entries(compared), g)
      BY <1>3, <2>4, <2>5 DEF CardOf, siblings
    <3>2. QED
      BY <1>1, <3>1
  <2>11. QED
    BY <2>4, <2>5, <2>7, <2>9, <2>10 DEF PresentProfiles
<1>4. QED
  BY <1>2, <1>3

(* Every profile that lacks the table, or the column, is on the card.        *)
LEMMA CardsAreWhole ==
    ASSUME Cards = GroupFindings(Entries(compared)), OneKeyEach, NEW card \in Cards,
           NEW p \in DOMAIN compared \ PresentProfiles(card),
           card.kind = "table" \/ (card.kind = "column" /\ TableAt(p, card.table) # {})
    PROVE  p \in card.missing
<1>1. PICK e \in Entries(compared) :
        /\ e.kind = card.kind /\ e.table = card.table /\ e.column = card.column
        /\ PresentProfiles(e) = PresentProfiles(card)
        /\ card.kind # "mismatch" =>
             \A f \in Siblings(Entries(compared), e) : f.missing \subseteq card.missing
  BY CardsStandForEntries
<1>2. MissingFrom(e, p) \in Entries(compared)
  BY <1>1, TablesAreFound, ColumnsAreFound
<1>3. MissingFrom(e, p) \in Siblings(Entries(compared), e)
  BY <1>2 DEF Siblings, MissingFrom
<1>4. MissingFrom(e, p).missing = {p}
  BY DEF MissingFrom
<1>5. QED
  BY <1>1, <1>3, <1>4

LEMMA CardsAreOne ==
    ASSUME Cards = GroupFindings(Entries(compared)), OneKeyEach, NEW c \in Cards, NEW d \in Cards,
           c.kind = d.kind, c.table = d.table, c.kind = "table" \/ c.column = d.column
    PROVE  c = d
<1>1. PICK e \in Entries(compared) : /\ c = CardOf(Entries(compared), e)
                                     /\ e.kind = c.kind /\ e.table = c.table /\ e.column = c.column
  BY CardsStandForEntries
<1>2. PICK f \in Entries(compared) : /\ d = CardOf(Entries(compared), f)
                                     /\ f.kind = d.kind /\ f.table = d.table /\ f.column = d.column
  BY CardsStandForEntries
<1>3. e.kind = f.kind /\ e.table = f.table /\ e.column = f.column
  BY <1>1, <1>2, TablesAreFound
<1>4. CASE e.kind = "mismatch"
  <2>1. e = f
    BY <1>3, <1>4, MismatchesAreOne
  <2>2. QED
    BY <1>1, <1>2, <2>1
<1>5. CASE e.kind # "mismatch"
  <2>1. Siblings(Entries(compared), e) = Siblings(Entries(compared), f)
    BY <1>3 DEF Siblings
  <2>2. CardOf(Entries(compared), e) = CardOf(Entries(compared), f)
    BY <1>3, <1>5, <2>1 DEF CardOf
  <2>3. QED
    BY <1>1, <1>2, <2>2
<1>6. QED
  BY <1>4, <1>5

-----------------------------------------------------------------------------
(* What the scripts of a generation do to a database.                        *)

Asked == last.asked.shown
Acts(c, p) == Resolves(c, Asked[c]) /\ p \in Asked[c].dests
Does(s, c) == /\ s.action = Action(c, Asked[c].target) /\ s.table = c.table
              /\ s.column = c.column /\ s.to = Definition(c, Asked[c].target)

(* The cards of a generation that is judged.                                 *)
CardsJudged ==
    /\ Cards = GroupFindings(Entries(compared)) /\ OneKeyEach /\ ~Contradictory
    /\ compared \in Comparisons /\ Unsupported = {}
    /\ \A c \in Cards : /\ Asked[c].target \in Targets(c)
                        /\ Asked[c].dests \subseteq DestinationChoices(c, Asked[c].target)
    /\ \A p : /\ \A s \in LastSteps(p) : \E c \in Cards : Acts(c, p) /\ Does(s, c)
              /\ \A c \in Cards : Acts(c, p) => \E s \in LastSteps(p) : Does(s, c)

LEMMA StepsAreWritten ==
    ASSUME GenerationInv, Judged, NEW resolutions, Leaves(files, last.second, resolutions), NEW p
    PROVE  LastSteps(p) = StepsOf(p, resolutions)
<1> DEFINE second == last.second
           forward == ForwardAt(second, p, resolutions)
           report == ReportContent(resolutions)
<1>1. /\ \A f \in DOMAIN files : files[f].kind = "report" => f = ReportAt(second)
      /\ ReportAt(second) \in DOMAIN files /\ files[ReportAt(second)] = report
  BY DEF Leaves
<1>2. report.kind = "report" /\ DOMAIN report.sections = Affected(resolutions)
      /\ \A q \in Affected(resolutions) : report.sections[q].stem = StemOf(resolutions, q)
  BY SectionsOf
<1>3. ReportAt(second)[1] = second
  BY DEF ReportAt
<1> HIDE DEF report
<1>4. Reports = {ReportAt(second)}
  BY <1>1, <1>2, <1>3 DEF Reports, Written
<1> DEFINE at(f) == <<second, Folded(ForwardName(files[f].sections[p].stem))>>
<1>5. LastSteps(p) =
        UNION {files[at(f)].steps : f \in {f \in Reports : p \in DOMAIN files[f].sections}}
  BY DEF LastSteps
<1>6. CASE p \in Affected(resolutions)
  <2>1. files[ReportAt(second)].sections[p].stem = StemOf(resolutions, p)
    BY <1>1, <1>2, <1>6
  <2>2. at(ReportAt(second)) = forward
    BY <2>1 DEF ForwardAt
  <2>3. ~UndoNameClash(report.sections)
    BY <1>1, <1>4 DEF Judged
  <2>4. files[forward] = ScriptContent("forward", p, resolutions)
    BY <1>6, <2>3 DEF Leaves, report
  <2>5. files[forward].steps = StepsOf(p, resolutions)
    BY <2>4 DEF ScriptContent
  <2> HIDE DEF at, forward
  <2>6. {f \in Reports : p \in DOMAIN files[f].sections} = {ReportAt(second)}
    BY <1>1, <1>2, <1>4, <1>6
  <2>7. LastSteps(p) = UNION {files[at(ReportAt(second))].steps}
    BY <1>5, <2>6
  <2>8. QED
    BY <2>2, <2>5, <2>7
<1>7. CASE p \notin Affected(resolutions)
  <2>1. {f \in Reports : p \in DOMAIN files[f].sections} = {}
    BY <1>1, <1>2, <1>4, <1>7
  <2>2. LastSteps(p) = {}
    BY <1>5, <2>1
  <2>3. StepsOf(p, resolutions) = {}
    BY <1>7 DEF StepsOf, Affected
  <2>4. QED
    BY <2>2, <2>3
<1>8. QED
  BY <1>6, <1>7

LEMMA StepsAreAsked ==
    ASSUME FormInv, GenerationInv, Judged
    PROVE  CardsJudged
<1>1. outcome = "generated" /\ Settled /\ ~Contradictory /\ OneKeyEach
  BY DEF Judged
<1>2. PICK resolutions : /\ MadeOf(last.asked, resolutions)
                         /\ Leaves(files, last.second, resolutions)
  BY <1>1 DEF GenerationInv
<1>3. /\ last.asked.decisions = Asked /\ DOMAIN Asked = Cards
      /\ \A c \in Cards : /\ Asked[c].target \in Targets(c)
                          /\ Asked[c].dests \subseteq DestinationChoices(c, Asked[c].target)
  BY <1>1, <1>2 DEF MadeOf, MadeOfCards, Settled, Asked, DecisionOf
<1>4. PICK opts : resolutions = BuildResolutions(Asked, opts)
  BY <1>2, <1>3 DEF MadeOf, MadeOfCards
<1> DEFINE res(c) == Resolution(c, Asked[c], opts[c])
<1>5. ASSUME NEW c \in Cards
      PROVE  /\ res(c).dests = Asked[c].dests
             /\ \A p : Does(Step(p, res(c)), c)
  <2>1. /\ res(c).action = Action(c, Asked[c].target) /\ res(c).table = c.table
        /\ res(c).column = c.column /\ res(c).to = Definition(c, Asked[c].target)
        /\ res(c).dests = Allowed(c, Asked[c])
    BY DEF Resolution
  <2>2. Allowed(c, Asked[c]) = Asked[c].dests
    BY <1>3 DEF Allowed
  <2> HIDE DEF res
  <2>3. QED
    BY <2>1, <2>2, StepFields DEF Does
<1>6. resolutions = {res(c) : c \in {c \in Cards : Resolves(c, Asked[c])}}
  BY <1>3, <1>4 DEF BuildResolutions
<1> HIDE DEF res
<1>7. ASSUME NEW p
      PROVE  /\ \A s \in LastSteps(p) : \E c \in Cards : Acts(c, p) /\ Does(s, c)
             /\ \A c \in Cards : Acts(c, p) => \E s \in LastSteps(p) : Does(s, c)
  <2>1. LastSteps(p) = {Step(p, r) : r \in {r \in resolutions : p \in r.dests}}
    BY <1>2, StepsAreWritten DEF StepsOf
  <2>2. ASSUME NEW s \in LastSteps(p) PROVE \E c \in Cards : Acts(c, p) /\ Does(s, c)
    <3>1. PICK r \in resolutions : p \in r.dests /\ s = Step(p, r)
      BY <2>1
    <3>2. PICK c \in Cards : Resolves(c, Asked[c]) /\ r = res(c)
      BY <1>6
    <3>3. Acts(c, p) /\ Does(s, c)
      BY <1>5, <3>1, <3>2 DEF Acts
    <3>4. QED
      BY <3>3
  <2>3. ASSUME NEW c \in Cards, Acts(c, p) PROVE \E s \in LastSteps(p) : Does(s, c)
    <3>1. res(c) \in resolutions /\ p \in res(c).dests
      BY <1>5, <1>6, <2>3 DEF Acts
    <3>2. Step(p, res(c)) \in LastSteps(p)
      BY <2>1, <3>1
    <3>3. QED
      BY <1>5, <3>2
  <2>4. QED
    BY <2>2, <2>3
<1>8. Cards = GroupFindings(Entries(compared)) /\ compared \in Comparisons
  BY DEF FormInv
<1>9. Unsupported = {}
  BY <1>1 DEF GenerationInv
<1>10. QED
  BY <1>1, <1>3, <1>7, <1>8, <1>9 DEF CardsJudged

(* No two cards act on one table, or column, of one profile.                 *)
LEMMA OneActs ==
    ASSUME CardsJudged, NEW c \in Cards, NEW d \in Cards, NEW p,
           p \in Asked[c].dests, p \in Asked[d].dests, c.table = d.table,
           c.column = d.column \/ c.kind = "table" \/ d.kind = "table"
    PROVE  c = d
<1>1. ~(c # d /\ c.table = d.table /\ (c.column = d.column \/ "table" \in {c.kind, d.kind})
          /\ last.asked.shown[c].dests \cap last.asked.shown[d].dests # {})
  BY DEF CardsJudged, Contradictory
<1>2. p \in last.asked.shown[c].dests \cap last.asked.shown[d].dests
  BY DEF Asked
<1>3. QED
  BY <1>1, <1>2

(* What a card does.                                                         *)
LEMMA ActionsAre ==
    ASSUME CardsJudged, NEW c \in Cards, NEW p, Acts(c, p)
    PROVE  LET target == Asked[c].target IN
           /\ TrueOfTables(c)
           /\ target = Drop \/ \E x : target = Make(x) /\ target # Drop
           /\ p \in DestinationChoices(c, target)
           /\ target = Drop => p \in PresentProfiles(c)
           /\ target # Drop /\ c.kind # "mismatch" => p \in c.missing
           /\ target # Drop /\ c.kind = "mismatch" => p \in PresentProfiles(c)
           /\ target # Drop /\ c.kind # "table" => Definition(c, target) = target.as
<1> DEFINE target == Asked[c].target
<1>1. TrueOfTables(c)
  BY CardsAreTrue DEF CardsJudged
<1>2. target # Nothing /\ p \in DestinationChoices(c, target)
  BY DEF Acts, Resolves, Decided, CardsJudged
<1>3. target \in Targets(c)
  BY DEF CardsJudged
<1>4. target \in {Nothing, Drop} \/ \E x : target = Make(x)
  BY <1>3 DEF Targets
<1>5. \A x : Make(x) # Drop
  BY DEF Make, Drop
<1> HIDE DEF target
<1>6. target = Drop \/ \E x : target = Make(x) /\ target # Drop
  BY <1>2, <1>4, <1>5
<1>7. /\ target = Drop => p \in PresentProfiles(c)
      /\ target # Drop /\ c.kind # "mismatch" => p \in c.missing
      /\ target # Drop /\ c.kind = "mismatch" => p \in PresentProfiles(c)
  BY <1>2 DEF DestinationChoices
<1>8. c.kind # "table" => Definition(c, target) = target.as
  BY DEF Definition
<1>9. QED
  BY <1>1, <1>2, <1>6, <1>7, <1>8 DEF target

LEMMA OnlyOf == \A x : Only({x}) = x
BY DEF Only

LEMMA ActionOf ==
    \A c, target : LET action == Action(c, target) IN
      /\ c.kind = "table" => action = IF target = Drop THEN "drop table" ELSE "create table"
      /\ c.kind # "table" => action \in {"drop column", "add column", "modify column"}
      /\ c.kind # "table" => (action = "drop column" <=> target = Drop)
BY DEF Action

LEMMA TableActs ==
    ASSUME CardsJudged, NEW c \in Cards, NEW p, Acts(c, p), c.kind = "table"
    PROVE  After(p, c.table) = IF Asked[c].target = Drop THEN {}
                               ELSE Definition(c, Asked[c].target)
<1> DEFINE target == Asked[c].target
           n == c.table
           definition == Definition(c, target)
<1>1. \A s \in LastSteps(p) : s.table = n => s.action = Action(c, target) /\ s.to = definition
  <2> SUFFICES ASSUME NEW s \in LastSteps(p), s.table = n
               PROVE  s.action = Action(c, target) /\ s.to = definition
    OBVIOUS
  <2>1. PICK d \in Cards : Acts(d, p) /\ Does(s, d)
    BY DEF CardsJudged
  <2>2. d = c
    BY <2>1, OneActs DEF Acts, Does
  <2>3. QED
    BY <2>1, <2>2 DEF Does
<1>2. PICK s \in LastSteps(p) : s.table = n /\ s.action = Action(c, target)
  BY DEF CardsJudged, Does
<1> HIDE DEF target, definition
<1>3. CASE target = Drop
  <2>1. Action(c, target) = "drop table"
    BY <1>3, ActionOf
  <2>2. Of(p, n, "create table") = {} /\ Of(p, n, "drop table") # {}
    BY <1>1, <1>2, <2>1 DEF Of
  <2>3. After(p, n) = {}
    BY <2>2 DEF After
  <2>4. QED
    BY <1>3, <2>3 DEF target
<1>4. CASE target # Drop
  <2>1. Action(c, target) = "create table"
    BY <1>4, ActionOf
  <2> DEFINE steps == Of(p, n, "create table")
  <2>2. /\ steps # {} /\ \A t \in steps : t.to = definition
        /\ Of(p, n, "drop table") = {}
    BY <1>1, <1>2, <2>1 DEF Of
  <2>3. After(p, n) = Only(steps).to
    BY <2>2 DEF After
  <2> HIDE DEF steps
  <2>4. Only(steps) \in steps
    BY <2>2 DEF Only
  <2>5. QED
    BY <1>4, <2>2, <2>3, <2>4 DEF target, definition
<1>5. QED
  BY <1>3, <1>4

NoTableActs(p, n) == \A c \in Cards : Acts(c, p) /\ c.table = n => c.kind # "table"

LEMMA TableStays ==
    ASSUME CardsJudged, NEW p, NEW n, NoTableActs(p, n)
    PROVE  After(p, n) = {ColumnsAfter(p, n) : t \in TableAt(p, n)}
<1>1. \A s \in LastSteps(p) : s.table = n => s.action \notin {"create table", "drop table"}
  <2> SUFFICES ASSUME NEW s \in LastSteps(p), s.table = n
               PROVE  s.action \notin {"create table", "drop table"}
    OBVIOUS
  <2>1. PICK d \in Cards : Acts(d, p) /\ Does(s, d)
    BY DEF CardsJudged
  <2>2. d.kind # "table"
    BY <2>1 DEF NoTableActs, Does
  <2>3. QED
    BY <2>1, <2>2, ActionOf DEF Does
<1>2. Of(p, n, "create table") = {} /\ Of(p, n, "drop table") = {}
  BY <1>1 DEF Of
<1>3. QED
  BY <1>2 DEF After

LEMMA AtMostOneTable ==
    ASSUME NEW p, NEW n
    PROVE  TableAt(p, n) = {} \/ \E columns : TableAt(p, n) = {columns}
BY DEF TableAt

Dropped(p, n) == {s.column : s \in Of(p, n, "drop column")}
Settings(p, n) == Of(p, n, "add column") \cup Of(p, n, "modify column")
SetColumns(p, n) == {s.column : s \in Settings(p, n)}
SettingOf(p, n, c) == CHOOSE s \in Settings(p, n) : s.column = c
AttributesAfter(p, n, columns, c) ==
    IF \E s \in Settings(p, n) : s.column = c THEN Only(SettingOf(p, n, c).to) ELSE columns[c]

LEMMA ColumnsAfterIs ==
    ASSUME NEW p, NEW n, NEW columns, TableAt(p, n) = {columns}
    PROVE  ColumnsAfter(p, n) =
             [c \in (DOMAIN columns \ Dropped(p, n)) \cup SetColumns(p, n) |->
                AttributesAfter(p, n, columns, c)]
<1>1. Only(TableAt(p, n)) = columns
  BY OnlyOf
<1>2. QED
  BY <1>1 DEF ColumnsAfter, Dropped, Settings, SettingOf, SetColumns, AttributesAfter

LEMMA ColumnsAreKept ==
    ASSUME NEW p, NEW n, NEW columns, TableAt(p, n) = {columns},
           \A s \in LastSteps(p) : s.table # n
    PROVE  ColumnsAfter(p, n) = [c \in DOMAIN columns |-> columns[c]]
<1>1. Dropped(p, n) = {} /\ Settings(p, n) = {}
  BY DEF Dropped, Settings, Of
<1>2. SetColumns(p, n) = {} /\ \A c : AttributesAfter(p, n, columns, c) = columns[c]
  BY <1>1 DEF SetColumns, AttributesAfter
<1>3. (DOMAIN columns \ Dropped(p, n)) \cup SetColumns(p, n) = DOMAIN columns
  BY <1>1, <1>2
<1>4. ColumnsAfter(p, n) = [c \in DOMAIN columns |-> AttributesAfter(p, n, columns, c)]
  BY <1>3, ColumnsAfterIs, Zenon
<1>5. QED
  BY <1>2, <1>4

LEMMA ColumnStays ==
    ASSUME CardsJudged, NEW p, NEW n, NEW column, NoTableActs(p, n),
           \A c \in Cards : Acts(c, p) /\ c.table = n => c.column # column
    PROVE  ColumnThen(p, n, column) = ColumnAt(p, n, column)
<1>1. CASE TableAt(p, n) = {}
  <2>1. After(p, n) = {}
    BY <1>1, TableStays
  <2>2. QED
    BY <1>1, <2>1 DEF ColumnThen, ColumnAt
<1>2. ASSUME NEW columns, TableAt(p, n) = {columns}
      PROVE  ColumnThen(p, n, column) = ColumnAt(p, n, column)
  <2>1. \A s \in LastSteps(p) : s.table = n => s.column # column
    BY DEF CardsJudged, Does
  <2>2. column \notin Dropped(p, n) /\ \A s \in Settings(p, n) : s.column # column
    BY <2>1 DEF Dropped, Settings, Of
  <2> DEFINE after == ColumnsAfter(p, n)
  <2>a. after = [c \in (DOMAIN columns \ Dropped(p, n)) \cup SetColumns(p, n) |->
                    AttributesAfter(p, n, columns, c)]
    BY <1>2, ColumnsAfterIs
  <2>b. column \notin SetColumns(p, n)
        /\ AttributesAfter(p, n, columns, column) = columns[column]
    BY <2>2 DEF SetColumns, AttributesAfter
  <2> HIDE DEF after
  <2>3. /\ column \in DOMAIN after <=> column \in DOMAIN columns
        /\ column \in DOMAIN after => after[column] = columns[column]
    BY <2>2, <2>a, <2>b
  <2>4. After(p, n) = {after}
    BY <1>2, TableStays DEF after
  <2>5. ColumnThen(p, n, column) = IF column \in DOMAIN after THEN {after[column]} ELSE {}
    BY <2>4 DEF ColumnThen
  <2>6. QED
    BY <1>2, <2>3, <2>5, ColumnOfTable
<1>3. QED
  BY <1>1, <1>2, AtMostOneTable

LEMMA ColumnActs ==
    ASSUME CardsJudged, NEW c \in Cards, NEW p, Acts(c, p), c.kind # "table"
    PROVE  ColumnThen(p, c.table, c.column) = Asked[c].target.as
<1> DEFINE target == Asked[c].target
           n == c.table
           column == c.column
           after == ColumnsAfter(p, n)
<1>1. \A s \in LastSteps(p) : s.table = n /\ s.column = column =>
        s.action = Action(c, target) /\ s.to = Definition(c, target)
  <2> SUFFICES ASSUME NEW s \in LastSteps(p), s.table = n, s.column = column
               PROVE  s.action = Action(c, target) /\ s.to = Definition(c, target)
    OBVIOUS
  <2>1. PICK d \in Cards : Acts(d, p) /\ Does(s, d)
    BY DEF CardsJudged
  <2>2. d = c
    BY <2>1, OneActs DEF Acts, Does
  <2>3. QED
    BY <2>1, <2>2 DEF Does
<1>2. PICK s \in LastSteps(p) : /\ s.table = n /\ s.column = column
                                /\ s.action = Action(c, target)
  BY DEF CardsJudged, Does
<1>3. NoTableActs(p, n)
  <2> SUFFICES ASSUME NEW d \in Cards, Acts(d, p), d.table = n, d.kind = "table" PROVE FALSE
    BY DEF NoTableActs
  <2>1. d = c
    BY OneActs DEF Acts
  <2>2. QED
    BY <2>1
<1>4. /\ TrueOfTables(c)
      /\ target = Drop \/ \E x : target = Make(x) /\ target # Drop
      /\ target = Drop => p \in PresentProfiles(c)
      /\ target # Drop /\ c.kind # "mismatch" => p \in c.missing
      /\ target # Drop /\ c.kind = "mismatch" => p \in PresentProfiles(c)
      /\ target # Drop => Definition(c, target) = target.as
  BY ActionsAre
<1>5. TableAt(p, n) # {}
  BY <1>4 DEF TrueOfTables
<1>6. PICK columns : TableAt(p, n) = {columns}
  BY <1>5, AtMostOneTable
<1>7. ColumnThen(p, n, column) = IF column \in DOMAIN after THEN {after[column]} ELSE {}
  <2>1. After(p, n) = {after}
    BY <1>3, <1>6, TableStays
  <2> HIDE DEF after, column
  <2>2. QED
    BY <2>1 DEF ColumnThen
<1> HIDE DEF target, n, column
<1>8. after = [x \in (DOMAIN columns \ Dropped(p, n)) \cup SetColumns(p, n) |->
                 AttributesAfter(p, n, columns, x)]
  BY <1>6, ColumnsAfterIs DEF n
<1> HIDE DEF after
<1>9. CASE target = Drop
  <2>1. Action(c, target) = "drop column"
    BY <1>9, ActionOf
  <2>2. column \in Dropped(p, n)
    BY <1>2, <2>1 DEF Dropped, Of
  <2>3. \A t \in Settings(p, n) : t.column # column
    BY <1>1, <2>1 DEF Settings, Of
  <2>4. column \notin DOMAIN after
    BY <1>8, <2>2, <2>3 DEF SetColumns
  <2>5. target.as = {}
    BY <1>9 DEF Drop
  <2>6. QED
    BY <1>7, <2>4, <2>5 DEF target, n, column
<1>10. CASE target # Drop
  <2>1. Action(c, target) \in {"add column", "modify column"}
    BY <1>10, ActionOf
  <2>2. s \in Settings(p, n)
    BY <1>2, <2>1 DEF Settings, Of
  <2> DEFINE set == SettingOf(p, n, column)
  <2>3. set \in Settings(p, n) /\ set.column = column
    BY <1>2, <2>2 DEF SettingOf
  <2> HIDE DEF set
  <2>4. set \in LastSteps(p) /\ set.table = n
    BY <2>3 DEF Settings, Of
  <2>5. set.to = target.as
    BY <1>1, <1>4, <1>10, <2>3, <2>4
  <2>6. PICK x : target = Make(x)
    BY <1>4, <1>10
  <2>7. target.as = {x}
    BY <2>6 DEF Make
  <2>8. column \in SetColumns(p, n) /\ AttributesAfter(p, n, columns, column) = Only(set.to)
    BY <2>3 DEF SetColumns, AttributesAfter, set
  <2>9. column \in DOMAIN after /\ after[column] = Only(set.to)
    BY <1>8, <2>8
  <2>10. ColumnThen(p, n, column) = {x}
    BY <1>7, <2>5, <2>7, <2>9, OnlyOf
  <2>11. QED
    BY <2>7, <2>10 DEF target, n, column
<1>11. QED
  BY <1>9, <1>10

(* A table compared has its columns by name, and in SQL Server it has some.  *)
LEMMA TablesAre ==
    ASSUME CardsJudged, NEW p \in DOMAIN compared, NEW n, NEW columns, TableAt(p, n) = {columns}
    PROVE  columns = [c \in DOMAIN columns |-> columns[c]] /\ DOMAIN columns # {}
<1>1. n \in DOMAIN compared[p] /\ columns = compared[p][n].columns
  BY DEF TableAt
<1>2. Provider[p] = "sqlserver"
  BY DEF CardsJudged, Unsupported
<1>3. compared \in Comparisons
  BY DEF CardsJudged
<1>4. QED
  BY <1>1, <1>2, <1>3, ConsolidationAssumption

(* Whatever is generated, once executed, leaves tables and columns no box is *)
(* ticked for (`build_resolutions', `_forward_ops').                         *)
THEOREM NothingElseChanges == Spec => []OnlyTickedChange
<1>1. FormInv /\ GenerationInv => OnlyTickedChange
  <2> SUFFICES ASSUME FormInv, GenerationInv, Judged,
                      NEW p \in DOMAIN compared, NEW c \in Cards, NEW ticked,
                      ticked = {d \in Cards : d.table = c.table /\ p \in Asked[d].dests}
               PROVE  /\ ticked = {} => After(p, c.table) = TableAt(p, c.table)
                      /\ (\A d \in ticked : d.kind # "table" /\ d.column # c.column) =>
                            ColumnThen(p, c.table, c.column) = ColumnAt(p, c.table, c.column)
    BY DEF OnlyTickedChange, Asked
  <2> DEFINE n == c.table
  <2>1. CardsJudged
    BY StepsAreAsked
  <2>2. ASSUME ticked = {} PROVE After(p, n) = TableAt(p, n)
    <3>1. \A d \in Cards : Acts(d, p) => d.table # n
      BY <2>2 DEF Acts
    <3>2. NoTableActs(p, n)
      BY <3>1 DEF NoTableActs
    <3>3. \A s \in LastSteps(p) : s.table # n
      BY <2>1, <3>1 DEF CardsJudged, Does
    <3>4. After(p, n) = {ColumnsAfter(p, n) : t \in TableAt(p, n)}
      BY <2>1, <3>2, TableStays
    <3>5. CASE TableAt(p, n) = {}
      BY <3>4, <3>5
    <3>6. ASSUME NEW columns, TableAt(p, n) = {columns} PROVE After(p, n) = TableAt(p, n)
      <4>1. ColumnsAfter(p, n) = columns
        BY <2>1, <3>3, <3>6, ColumnsAreKept, TablesAre
      <4>2. QED
        BY <3>4, <3>6, <4>1
    <3>7. QED
      BY <3>5, <3>6, AtMostOneTable
  <2>3. ASSUME \A d \in ticked : d.kind # "table" /\ d.column # c.column
        PROVE  ColumnThen(p, n, c.column) = ColumnAt(p, n, c.column)
    <3>1. \A d \in Cards : Acts(d, p) /\ d.table = n => d.kind # "table" /\ d.column # c.column
      BY <2>3 DEF Acts
    <3>2. QED
      BY <2>1, <3>1, ColumnStays DEF NoTableActs
  <2>4. QED
    BY <2>2, <2>3
<1>2. QED
  BY <1>1, Generations, PTL

(* A table, missing somewhere, for which all boxes are ticked.               *)
LEMMA TablesGo ==
    ASSUME CardsJudged, NEW c \in Cards, c.kind = "table", AllTicked(c),
           Asked[c].target # Nothing, NEW p \in DOMAIN compared
    PROVE  IF Asked[c].target = Drop THEN After(p, c.table) = {} ELSE After(p, c.table) # {}
<1> DEFINE target == Asked[c].target
           n == c.table
<1>1. TrueOfTables(c) /\ (p \in PresentProfiles(c) \/ p \in c.missing)
  BY CardsAreTrue, CardsAreWhole DEF CardsJudged
<1>2. Asked[c].dests = DestinationChoices(c, target)
  BY DEF AllTicked, Asked
<1>3. target \in Targets(c)
  BY DEF CardsJudged
<1>4. p \notin Asked[c].dests => NoTableActs(p, n)
  <2> SUFFICES ASSUME p \notin Asked[c].dests, NEW d \in Cards, Acts(d, p), d.table = n,
                      d.kind = "table"
               PROVE  FALSE
    BY DEF NoTableActs
  <2>1. c = d
    BY CardsAreOne DEF CardsJudged
  <2>2. QED
    BY <2>1 DEF Acts
<1>5. p \notin Asked[c].dests => After(p, n) = {ColumnsAfter(p, n) : t \in TableAt(p, n)}
  BY <1>4, TableStays
<1>6. Allowed(c, Asked[c]) = Asked[c].dests
  BY <1>2 DEF Allowed
<1> HIDE DEF target
<1>7. CASE target = Drop
  <2>1. Asked[c].dests = PresentProfiles(c)
    BY <1>2, <1>7 DEF DestinationChoices
  <2>2. CASE p \in Asked[c].dests
    <3>1. Drop.do = "drop"
      BY DEF Drop
    <3>2. Acts(c, p)
      BY <1>6, <1>7, <2>2, <3>1 DEF Acts, Resolves, Decided, target
    <3>3. QED
      BY <1>7, <3>2, TableActs DEF target
  <2>3. CASE p \notin Asked[c].dests
    <3>1. TableAt(p, n) = {}
      BY <1>1, <2>1, <2>3 DEF TrueOfTables
    <3>2. QED
      BY <1>5, <1>7, <2>3, <3>1 DEF target
  <2>4. QED
    BY <2>2, <2>3
<1>8. CASE target # Drop
  <2>1. Asked[c].dests = c.missing
    BY <1>2, <1>8 DEF DestinationChoices
  <2>2. PICK q \in PresentProfiles(c) : target = Make(q)
    BY <1>3, <1>8 DEF Targets, target
  <2>3. Definition(c, target) = {c.present[q]}
    BY <2>2 DEF Definition, Make
  <2>4. CASE p \in Asked[c].dests
    <3>1. TableAt(q, n) = {c.present[q]} /\ q \in DOMAIN compared
      BY <1>1 DEF TrueOfTables
    <3>2. ~NoColumns(c.present[q])
      BY <3>1, TablesAre DEF NoColumns
    <3>3. Acts(c, p)
      BY <1>6, <2>3, <2>4, <3>2 DEF Acts, Resolves, Decided, target
    <3>4. After(p, n) = Definition(c, target)
      BY <1>8, <3>3, TableActs DEF target
    <3>5. QED
      BY <1>8, <2>3, <3>4 DEF target
  <2>5. CASE p \notin Asked[c].dests
    <3>1. TableAt(p, n) # {}
      BY <1>1, <2>1, <2>5 DEF TrueOfTables
    <3>2. QED
      BY <1>5, <1>8, <2>5, <3>1 DEF target
  <2>6. QED
    BY <2>4, <2>5
<1>9. QED
  BY <1>7, <1>8

(* A column, missing or different somewhere, for which all boxes are ticked. *)
LEMMA ColumnsGo ==
    ASSUME CardsJudged, NEW c \in Cards, c.kind # "table", AllTicked(c),
           Asked[c].target # Nothing, NEW p \in DestinationChoices(c, Asked[c].target)
    PROVE  ColumnThen(p, c.table, c.column) = Asked[c].target.as
<1>1. Asked[c].dests = DestinationChoices(c, Asked[c].target)
  BY DEF AllTicked, Asked
<1>2. Acts(c, p)
  BY <1>1 DEF Acts, Resolves, Decided, Allowed
<1>3. QED
  BY <1>2, ColumnActs

(* A column that is as chosen already stays, unless it is dropped.           *)
LEMMA ChosenColumnsStay ==
    ASSUME CardsJudged, NEW c \in Cards, c.kind = "mismatch", NEW p \in PresentProfiles(c),
           p \notin Asked[c].dests
    PROVE  ColumnThen(p, c.table, c.column) \subseteq {c.present[p]}
<1> DEFINE n == c.table
           column == c.column
<1>1. TrueOfTables(c) /\ ColumnAt(p, n, column) = {c.present[p]} /\ TableAt(p, n) # {}
  BY CardsAreTrue DEF CardsJudged, TrueOfTables
<1>2. ASSUME NEW d \in Cards, Acts(d, p), d.table = n, d.kind = "table"
      PROVE  ColumnThen(p, n, column) = {}
  <2>1. TrueOfTables(d) /\ (Asked[d].target # Drop => p \in d.missing)
    BY <1>2, ActionsAre
  <2>2. Asked[d].target = Drop
    BY <1>1, <1>2, <2>1 DEF TrueOfTables
  <2>3. After(p, n) = {}
    BY <1>2, <2>2, TableActs
  <2>4. QED
    BY <2>3 DEF ColumnThen
<1>3. ASSUME NEW d \in Cards, Acts(d, p), d.table = n, d.kind # "table", d.column = column
      PROVE  ColumnThen(p, n, column) = {}
  <2>1. /\ TrueOfTables(d)
        /\ Asked[d].target # Drop /\ d.kind # "mismatch" => p \in d.missing
    BY <1>3, ActionsAre
  <2>2. d.kind # "mismatch"
    <3>1. d.kind = "mismatch" => d = c
      BY <1>3, CardsAreOne DEF CardsJudged
    <3>2. QED
      BY <1>3, <3>1 DEF Acts
  <2>3. Asked[d].target = Drop
    BY <1>1, <1>3, <2>1, <2>2 DEF TrueOfTables
  <2>4. QED
    BY <1>3, <2>3, ColumnActs DEF Drop
<1>4. CASE \A d \in Cards : Acts(d, p) /\ d.table = n => d.kind # "table" /\ d.column # column
  BY <1>1, <1>4, ColumnStays DEF NoTableActs
<1>5. QED
  BY <1>2, <1>3, <1>4

(* Whatever findings the screen is opened on: those all boxes of a decision  *)
(* are ticked for are gone once the scripts are executed, in every profile   *)
(* (`group_findings', `destination_choices', `build_resolutions').           *)
THEOREM FindingsGo == Spec => []DecidedFindingsGo
<1>1. FormInv /\ GenerationInv => DecidedFindingsGo
  <2> SUFFICES ASSUME FormInv, GenerationInv, Judged, NEW c \in Cards, AllTicked(c)
               PROVE  Gone(c)
    BY DEF DecidedFindingsGo
  <2> DEFINE target == Asked[c].target
             now(p) == ColumnThen(p, c.table, c.column)
  <2>1. CardsJudged
    BY StepsAreAsked
  <2>2. target \in Targets(c) /\ TrueOfTables(c)
    BY <2>1, CardsAreTrue DEF CardsJudged
  <2>3. target \in {Nothing, Drop} \/ \E x : target = Make(x)
    BY <2>2 DEF Targets
  <2>4. /\ Nothing # Drop /\ Nothing.do = "nothing" /\ Drop.do = "drop"
        /\ \A x : Make(x) # Drop /\ Make(x) # Nothing /\ Make(x).do = "make"
    BY DEF Nothing, Drop, Make
  <2>5. Asked[c].dests = DestinationChoices(c, target)
    BY DEF AllTicked, Asked
  <2>6. c.kind \in {"table", "column", "mismatch"}
    BY <2>2 DEF TrueOfTables
  <2>7. last.asked.shown[c].target = target
    BY DEF Asked
  <2> HIDE DEF target
  <2>8. CASE target = Nothing
    BY <2>4, <2>7, <2>8 DEF Gone
  <2>9. CASE target # Nothing /\ c.kind = "table"
    <3>1. \A p \in DOMAIN compared : IF target = Drop THEN After(p, c.table) = {}
                                                      ELSE After(p, c.table) # {}
      BY <2>1, <2>9, TablesGo DEF target
    <3>2. target = Drop \/ target.do = "make"
      BY <2>3, <2>4, <2>9
    <3>3. QED
      BY <2>4, <2>7, <2>9, <3>1, <3>2 DEF Gone
  <2>10. CASE target = Drop /\ c.kind # "table"
    <3>1. \A p \in PresentProfiles(c) : now(p) = {}
      <4> TAKE p \in PresentProfiles(c)
      <4>1. p \in DestinationChoices(c, target)
        BY <2>10 DEF DestinationChoices
      <4>2. now(p) = target.as
        BY <2>1, <2>4, <2>10, <4>1, ColumnsGo DEF target
      <4>3. QED
        BY <2>10, <4>2 DEF Drop
    <3>2. QED
      BY <2>4, <2>7, <2>10, <3>1 DEF Gone
  <2>11. CASE target \notin {Nothing, Drop} /\ c.kind = "column"
    <3>1. ASSUME NEW p \in DOMAIN compared \ PresentProfiles(c), TableAt(p, c.table) # {}
          PROVE  now(p) = target.as
      <4>1. p \in c.missing
        BY <2>1, <2>11, <3>1, CardsAreWhole DEF CardsJudged
      <4>2. p \in DestinationChoices(c, target)
        BY <2>11, <4>1 DEF DestinationChoices
      <4>3. QED
        BY <2>1, <2>11, <4>2, ColumnsGo DEF target
    <3>2. target.do = "make"
      BY <2>3, <2>4, <2>11
    <3> HIDE DEF now
    <3>3. QED
      BY <2>4, <2>7, <2>11, <3>1, <3>2 DEF Gone, now
  <2>12. CASE target \notin {Nothing, Drop} /\ c.kind = "mismatch"
    <3>1. ASSUME NEW p \in PresentProfiles(c) PROVE now(p) \subseteq target.as
      <4>1. CASE p \in DestinationChoices(c, target)
        BY <2>1, <2>12, <4>1, ColumnsGo DEF target
      <4>2. CASE p \notin DestinationChoices(c, target)
        <5>1. c.present[p] \in target.as
          BY <2>12, <4>2 DEF DestinationChoices
        <5>2. now(p) \subseteq {c.present[p]}
          BY <2>1, <2>5, <2>12, <4>2, ChosenColumnsStay
        <5>3. QED
          BY <5>1, <5>2
      <4>3. QED
        BY <4>1, <4>2
    <3>2. target.do = "make"
      BY <2>3, <2>4, <2>12
    <3> HIDE DEF now
    <3>3. QED
      BY <2>4, <2>7, <2>12, <3>1, <3>2 DEF Gone, now
  <2>13. QED
    BY <2>6, <2>8, <2>9, <2>10, <2>11, <2>12
<1>2. QED
  BY <1>1, Generations, PTL
=============================================================================
