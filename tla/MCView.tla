-------------------------------- MODULE MCView --------------------------------
(***************************************************************************)
(* Two contracts; a hook on the first that pays and calls, a hook on the   *)
(* second that calls; an onSuccess hook that calls; an onFail hook.        *)
(***************************************************************************)
EXTENDS DeploymentView

InOrder == <<"token", "mint", "sale", "open", "success">>
OnFail == <<"tidy">>
Takes == [c \in Contracts |-> IF c = "sale" THEN {"token"} ELSE {}]
Declared == [h \in Hooks |-> CASE h = "mint" -> {"token"} [] h = "open" -> {"sale"} [] OTHER -> {}]
Sends == [h \in Hooks |-> CASE h = "mint" -> <<"transfer", "call">> [] OTHER -> <<"call">>]
===============================================================================
