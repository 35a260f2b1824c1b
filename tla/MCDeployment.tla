---------------------------- MODULE MCDeployment ----------------------------
(***************************************************************************)
(* Small modules for Deployment: a sale of a token, and a proxy a custom   *)
(* deploy function creates.                                                *)
(***************************************************************************)
EXTENDS DeploymentCalls

(* A token, a sale that takes the token, a hook after the sale is deployed *)
(* and a hook on completion.                                               *)
SaleContracts == {"token", "sale"}
SaleEvents == {"start", "fund", "complete", "alarm"}
SaleAccounts == {"owner"}
SaleOrder == <<"token", "sale", "fund", "complete">>
SaleOrderStart == <<"start">> \o SaleOrder
SaleArgs == [token |-> {}, sale |-> {"token"}]
SaleLibs == [token |-> {}, sale |-> {}]
SaleDeps == [start |-> {}, fund |-> {"token", "sale"}, complete |-> {}, alarm |-> {}]
SaleKind == [start |-> "onStart", fund |-> "deployed", complete |-> "outcome",
             alarm |-> "outcome"]
NoFn == [token |-> "none", sale |-> "none"]
NoHooks == <<>>
Alarm == <<"alarm">>

(* fund calls each contract once; the same one three times; a contract and *)
(* pays; the hook on failure calls the token, the one on completion the    *)
(* sale.                                                                   *)
CallEach == [start |-> <<>>, fund |-> <<"token", "sale">>, complete |-> <<>>,
             alarm |-> <<"token">>]
CallOnOutcome == [CallEach EXCEPT !["complete"] = <<"sale">>]
CallThrice == [CallEach EXCEPT !["fund"] = <<"token", "token", "token">>]
CallAndPay == [CallOnOutcome EXCEPT !["fund"] = <<"token", "owner">>]

(* A library, a proxy made by a deploy function that calls the library, a  *)
(* client linked with both that takes the library, hooks before and after, *)
(* and a contract whose deploy function works behind the tool's back.      *)
ProxyContracts == {"lib", "proxy", "client", "hidden"}
ProxyEvents == {"compiled", "ready", "Deployproxy", "Deployhidden"}
ProxyOrder == <<"compiled", "lib", "proxy", "client", "ready", "hidden">>
ProxyArgs == [lib |-> {}, proxy |-> {}, client |-> {"lib"}, hidden |-> {}]
ProxyLibs == [ProxyArgs EXCEPT !["client"] = {"lib", "proxy"}]
ProxyDeps == [compiled |-> {"lib"}, ready |-> {"client", "proxy"}, Deployproxy |-> {},
              Deployhidden |-> {}]
ProxyKind == [compiled |-> "compiled", ready |-> "deployed", Deployproxy |-> "deployFn",
              Deployhidden |-> "deployFn"]
ProxyCalls == [compiled |-> <<>>, ready |-> <<"proxy", "client">>,
               Deployproxy |-> <<"lib", "owner">>, Deployhidden |-> <<>>]
ProxyFn == [lib |-> "none", proxy |-> "Deployproxy", client |-> "none",
            hidden |-> "Deployhidden"]

(* What the theorems of DeploymentCallProofs ask of the modules that the   *)
(* runs about the calls of hooks deploy.                                   *)
ASSUME CallsAnswered ==
  /\ Calls = CallEach => DistinctCalls /\ NothingAnew /\ CallersWait
  /\ Calls = CallAndPay => ReceiptsKept /\ CalleesNew
=============================================================================
