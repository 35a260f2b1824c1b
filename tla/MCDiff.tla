-------------------------------- MODULE MCDiff --------------------------------
(* A token, a sale that takes it as argument, and a hook on the sale.      *)
EXTENDS Diff

Token == <<Contract("token", "old", "v"), Contract("sale", "old", "token"), Event("open", "afterDeploy", "sale")>>
===============================================================================
