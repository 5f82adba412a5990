----------------------------- MODULE MCSession -----------------------------
(***************************************************************************)
(* An instance of Session for TLC: a finding on a table and one on a key,  *)
(* which is not consolidable; a filter that matches only the first.        *)
(***************************************************************************)
EXTENDS Session, TLC

MCFindings == {"table", "key"}
MCOutcomes == {{}, MCFindings}
MCConsolidable == {"table"}
MCTexts == {"", "table"}
MCMatches == ("" :> MCFindings) @@ ("table" :> {"table"})
=============================================================================
