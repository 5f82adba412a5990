----------------------------- MODULE ScriptFiles -----------------------------
(***************************************************************************)
(* The names of the files a generation writes (`compare/consolidation.py').*)
(* A profile name is a sequence of pieces: the characters a file name may  *)
(* not have, dots and blanks are pieces of their own.                      *)
(***************************************************************************)
EXTENDS Naturals, Sequences, FiniteSetsExt, Functions, TLC

CONSTANTS
    Invalid,    \* path separators and other pieces no file name may have
    FoldPiece   \* piece -> its casefold()

Folded(name) == [i \in DOMAIN name |-> FoldPiece[name[i]]]

Devices == {"con", "prn", "aux", "nul", "com1", "com9", "lpt1", "lpt9"}

Cleaned(name) == [i \in DOMAIN name |-> IF name[i] \in Invalid THEN "_" ELSE name[i]]

(* strip(), then rstrip(". ").                                               *)
Trimmed(name) ==
    LET kept == {i \in DOMAIN name : /\ \E j \in 1..i : name[j] # " "
                                     /\ \E j \in i..Len(name) : name[j] \notin {".", " "}}
    IN IF kept = {} THEN <<>> ELSE SubSeq(name, Min(kept), Max(kept))

BeforeDot(name) ==
    LET dots == {i \in DOMAIN name : name[i] = "."}
    IN IF dots = {} THEN name ELSE SubSeq(name, 1, Min(dots) - 1)

NamesDevice(name) == \E d \in Devices : Folded(BeforeDot(name)) = <<d>>

Sanitized(name) ==
    LET trimmed == Trimmed(Cleaned(name))
    IN CASE trimmed = <<>>       -> <<"profile">>
         [] NamesDevice(trimmed) -> Append(trimmed, "_")
         [] OTHER                -> trimmed

Numbered(base, k) == IF k = 0 THEN base ELSE base \o <<"_", ToString(k)>>

FreshAsWritten(base, used) ==   \* mutant: unique, but for the case
    Numbered(base, Min({k \in 0..Cardinality(used) :
                          \A s \in used : Numbered(base, k) # s}))

(* The first of base, base_1, base_2... that no stem in use spells.          *)
Fresh(base, used) ==
    Numbered(base, Min({k \in 0..Cardinality(used) :
                          \A s \in used : Folded(Numbered(base, k)) # Folded(s)}))

(* `assign_script_filenames': the stems of names, in that order.             *)
Stems(names) ==
    LET assigned[n \in 0..Len(names)] ==
          IF n = 0 THEN <<>>
          ELSE Append(assigned[n - 1], Fresh(Sanitized(names[n]), Range(assigned[n - 1])))
    IN assigned[Len(names)]

ForwardName(stem) == stem \o <<".", "sql">>
UndoName(stem) == stem \o <<".", "deshacer", ".", "sql">>
ReportName == <<"impact_report", ".", "md">>
=============================================================================
