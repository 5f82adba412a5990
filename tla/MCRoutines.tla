-------------------------------- MODULE MCRoutines --------------------------------
(****************************************************************************)
(* A small instance of RepairScripts: two profiles and two routine names.   *)
(****************************************************************************)
EXTENDS RepairScripts

MCProfiles == <<"qa", "prod">>
MCSorted == <<"prod", "qa">>
Plain == [there |-> TRUE, signed |-> FALSE, broken |-> FALSE]
SignedPlain == [Plain EXCEPT !.signed = TRUE]
Broken == [Plain EXCEPT !.broken = TRUE]
Nothing == [p \in Profiles |-> [r \in RoutineNames |-> NoModule]]
MCModules == {[Nothing EXCEPT !["qa"]["p"] = Plain, !["qa"]["q"] = SignedPlain]}
MCChanging == {<<"qa", "p">>}
===================================================================================
