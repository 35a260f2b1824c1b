---------------------------- MODULE ElementOrder ----------------------------
(***************************************************************************)
(* The order ModuleResolver gives the elements of a module: contracts with *)
(* what they need before them and hooks where they belong.  The resolver   *)
(* walks from each contract to what it needs and adds to one object; here  *)
(* the object is the sequence of its keys, and the stack of calls the list *)
(* of what they have still to do (module-resolver.ts).                     *)
(***************************************************************************)
EXTENDS ModuleBuilder, FiniteSets

VARIABLE order  \* the walk: the elements added, its error, what is to be done

NoOrder == [added |-> <<>>, err |-> "none", todo |-> <<>>]

(* An entry is a call still to be made, the check of a hook that uses      *)
(* others, an element to be put into the object, or the return of a call   *)
(* for a contract, with what was there when it began.  A call within       *)
(* itself that finds nothing new never ends: the stack overflows.          *)
Entry(do, x) == [do |-> do, of |-> x]
Calls(do, s) == [i \in DOMAIN s |-> Entry(do, s[i])]
Return(n) == Entry("return", <<n, order.added>>)

Now == Head(order.todo).of
Pending(do) == outcome = "resolving" /\ order.todo # <<>> /\ Head(order.todo).do = do
Has(x) == x \in Elems(order.added)
Continue(entries) == /\ order' = [order EXCEPT !.todo = entries \o Tail(@)]
                     /\ UNCHANGED builder
Fail(e) == /\ order' = [order EXCEPT !.err = e]
           /\ outcome' = "unresolvable"
           /\ UNCHANGED <<bindings, events, templates, started, depth, used>>

Deps(e) == Event(e).deps
EventDeps(e) == Event(e).eventDeps
Usage(e) == Event(e).usage
EventUsage(e) == Event(e).eventUsage
EventsDeps(n, type) == Binding(n).eventsDeps[type]

(* A slip: the contracts a deploy function uses are left out.              *)
NeedsOfConstructor(n) == Binding(n).args \o Libraries[Binding(n).contract]
(* What has to be there before a contract: the contracts among its         *)
(* arguments, its libraries, and what its deploy function uses.            *)
Needs(n) == Binding(n).args \o Libraries[Binding(n).contract] \o Binding(n).deps
(* A slip: the hooks before the deployment itself are forgotten.           *)
BeforeHooksOfCompiler(n) == EventsDeps(n, "beforeCompile") \o EventsDeps(n, "afterCompile")
BeforeHooks(n) == EventsDeps(n, "beforeCompile") \o EventsDeps(n, "afterCompile")
                  \o EventsDeps(n, "beforeDeploy")
AfterHooks(n) == EventsDeps(n, "afterDeploy") \o EventsDeps(n, "onChange")

(* What is there is passed over; only _addEvent does not ask.              *)
AlreadyThere ==
  /\ \E do \in {"contract", "before", "single", "add"} : Pending(do)
  /\ Has(Now)
  /\ Continue(<<>>)

(* An argument that is no contract, a library without a binding.           *)
NotBound == Pending("contract") /\ Now \notin Bound /\ ~Has(Now) /\ Continue(<<>>)

Recurses == Return(Now) \in Elems(order.todo)
ResolveContract ==
  /\ Pending("contract") /\ Now \in Bound /\ ~Has(Now) /\ ~Recurses
  /\ Continue((Calls("contract", Needs(Now)) \o Calls("before", BeforeHooks(Now)))
              \o <<Entry("add", Now)>>
              \o (Calls("after", AfterHooks(Now)) \o <<Return(Now)>>))
Overflow ==
  /\ Pending("contract") /\ Now \in Bound /\ ~Has(Now) /\ Recurses
  /\ Fail("overflow")
ContractResolved == Pending("return") /\ Continue(<<>>)

(* A slip: the contracts the hook uses are waited for as well.             *)
AddBeforeEventWaiting ==
  /\ Pending("before") /\ ~Has(Now)
  /\ Continue(Calls("deps", EventDeps(Now)) \o Calls("contract", Usage(Now))
              \o <<Entry("add", Now)>>)
(* A hook before the deployment waits for the contracts of the hooks it    *)
(* depends on, and insists on those of the hooks it uses.                  *)
AddBeforeEvent ==
  /\ Pending("before") /\ ~Has(Now)
  /\ Continue(Calls("deps", EventDeps(Now))
              \o <<Entry("check", Now)>> \o <<Entry("add", Now)>>)
ContractsOfDependency == Pending("deps") /\ Continue(Calls("contract", Deps(Now)))

AddEvent ==
  /\ Pending("after")
  /\ Continue(Calls("contract", Deps(Now)) \o Calls("single", EventDeps(Now))
              \o Calls("contract", Usage(Now)) \o <<Entry("check", Now)>> \o <<Entry("add", Now)>>)

ResolveSingleEvent ==
  /\ Pending("single") /\ ~Has(Now)
  /\ Continue(Calls("contract", Deps(Now)) \o Calls("single", EventDeps(Now))
              \o Calls("contract", Usage(Now)) \o Calls("single", EventUsage(Now))
              \o <<Entry("add", Now)>>)

UsagePresent(e) == \A u \in Elems(EventUsage(e)) : \A n \in Elems(Deps(u)) : Has(n)
UsageFound == Pending("check") /\ UsagePresent(Now) /\ Continue(<<>>)
UsageEventNotFound == Pending("check") /\ ~UsagePresent(Now) /\ Fail("usage")

Add ==
  /\ Pending("add") /\ ~Has(Now)
  /\ order' = [order EXCEPT !.added = Append(@, Now), !.todo = Tail(@)]
  /\ UNCHANGED builder

(* All contracts in the order of their declaration.                        *)
Resolve ==
  /\ outcome = "built"
  /\ order' = [order EXCEPT !.todo =
       Calls("contract", [i \in DOMAIN bindings |-> bindings[i].name])]
  /\ outcome' = "resolving"
  /\ UNCHANGED <<bindings, events, templates, started, depth, used>>
Resolved ==
  /\ outcome = "resolving" /\ order.todo = <<>>
  /\ outcome' = "resolved"
  /\ UNCHANGED <<bindings, events, templates, started, depth, used, order>>

Walk == \/ AlreadyThere \/ NotBound \/ ResolveContract \/ Overflow \/ ContractResolved
        \/ AddBeforeEvent \/ ContractsOfDependency \/ AddEvent \/ ResolveSingleEvent
        \/ UsageFound \/ UsageEventNotFound \/ Add

ResolveInit == Init /\ order = NoOrder
ResolveNext == (Call /\ UNCHANGED order) \/ Resolve \/ Walk \/ Resolved
ResolveSpec == ResolveInit /\ [][ResolveNext]_<<builder, order>>

(***************************************************************************)
(* Properties.                                                             *)
(***************************************************************************)
InOrder(x, y) == \E i, j \in DOMAIN order.added : i < j /\ order.added[i] = x /\ order.added[j] = y

(* What a contract needs is deployed before it: no contract is ever linked *)
(* with or constructed from one that comes later.                          *)
NeededFirst ==
  outcome = "resolved" => \A n \in Bound : \A x \in Bound :
    x \in Elems(Binding(n).args \o Libraries[Binding(n).contract] \o Binding(n).deps)
      => InOrder(x, n)

(* A hook comes before the contracts it prepares, or after the contracts   *)
(* and hooks it follows and the contracts it uses.                         *)
HooksInPlace ==
  outcome = "resolved" =>
    \A e \in Elems(order.added) \cap Hooks :
      IF Event(e).type \in BeforeTypes
      THEN \A n \in Elems(Deps(e)) : InOrder(e, n)
      ELSE \A x \in Elems(Deps(e)) \cup Elems(EventDeps(e)) \cup Elems(Usage(e)) : InOrder(x, e)

(* Whatever the order of the declarations, the order of the deployment     *)
(* goes by what needs what.                                                *)
DeclarationsRespected == NeededFirst /\ HooksInPlace

(* Every contract and every hook on a contract has exactly one place.      *)
NothingLost ==
  outcome = "resolved" =>
    /\ Bound \cup {e \in Hooked : Deps(e) # <<>>} \subseteq Elems(order.added)
    /\ Cardinality(Elems(order.added)) = Len(order.added)

(* The walk goes round in circles only when the declarations do: a         *)
(* contract needs itself, by way of arguments, libraries, deploy functions *)
(* or the hooks that come before it and the hooks these depend on; it is   *)
(* in every set of contracts that has what it needs and what those need.   *)
NeedsDirectly(n) ==
  (Elems(Needs(n)) \cap Bound) \cup
  UNION {UNION {Elems(Deps(d)) : d \in Elems(EventDeps(e))} : e \in Elems(BeforeHooks(n))}
Circular(n) ==
  \A S \in SUBSET Bound :
    NeedsDirectly(n) \subseteq S /\ (\A m \in S : NeedsDirectly(m) \subseteq S) => n \in S
OverflowMeansCircle == order.err = "overflow" => \E n \in Bound : Circular(n)
=============================================================================
