---------------------------- MODULE LatestResult ----------------------------
(***************************************************************************)
(* What the findings browser promises about the result it displays: it is  *)
(* the answer to the newest comparison that was asked for, computed with   *)
(* the exclusions that were in force when it was asked for.  A comparison  *)
(* that fails leaves what is displayed as it was, and one overtaken by a   *)
(* newer one is never displayed.                                           *)
(***************************************************************************)
EXTENDS Naturals

CONSTANTS Exclusions,   \* the lists of exclusion patterns a user may give
          Findings      \* what a comparison may find

VARIABLES shown,        \* the result on display
          asked         \* the comparison waited for: a set of at most one

Results == [run : Nat, patterns : Exclusions, findings : SUBSET Findings]
Requests == [run : Nat, patterns : Exclusions]

Init == /\ shown \in Results
        /\ asked = {}

Ask == /\ \E request \in asked' :
             /\ asked' = {request}
             /\ request \in Requests
             /\ request.run > shown.run
             /\ \A earlier \in asked : request.run > earlier.run
       /\ UNCHANGED shown

Answer == \E request \in asked :
             /\ shown' \in Results
             /\ shown'.run = request.run
             /\ shown'.patterns = request.patterns
             /\ asked' = {}

Fail == /\ asked # {}
        /\ asked' = {}
        /\ UNCHANGED shown

Next == Ask \/ Answer \/ Fail

Spec == Init /\ [][Next]_<<shown, asked>>
=============================================================================
