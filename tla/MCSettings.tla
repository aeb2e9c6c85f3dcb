----------------------------- MODULE MCSettings -----------------------------
(* Values for model checking Settings. *)
EXTENDS Settings

RuleSets == {<<>>, <<"browser">>}
=============================================================================
