--------------------------- MODULE ModuleBuilder ---------------------------
(***************************************************************************)
(* How the function a user writes builds a module: the calls of            *)
(* ModuleBuilder, ContractBinding and GroupedDependencies that declare     *)
(* contracts and hooks, the use of other modules, and the validation at    *)
(* the end of a module (hardhat-ignition.ts, module-validator.ts,          *)
(* checker.ts).                                                            *)
(***************************************************************************)
EXTENDS Integers, Sequences

CONSTANTS
  Names,      \* names of contract bindings
  Hooks,      \* names of contract events
  Templates,  \* names of contract templates
  SubModules, \* modules that can be used by this one
  Literals,   \* the numbers that are passed as arguments
  Abi,        \* the parameter types of the constructor of a contract
  Libraries,  \* the libraries a contract links to, by binding name
  Compiled,   \* the contracts that have artifacts
  HookTypes,  \* the kinds of contract events that are used
  ModuleHooks,\* the kinds of module events that are used
  MaxArgs, MaxGroup, MaxBindings, MaxHooks  \* bounds on what is declared

ContractNames == Names \cup Templates
BeforeTypes == {"beforeCompile", "afterCompile", "beforeDeploy"}
AfterTypes == {"afterDeploy", "onChange"}
Integer(type) == type.kind \in {"int", "uint"}

ASSUME BuilderAssumption ==
  /\ Names \cap Templates = {} /\ Names \cap (Hooks \cup Literals) = {} /\ Hooks \cap Literals = {}
  /\ Literals \subseteq Int
  /\ Libraries \in [ContractNames -> Seq(Names)]
  /\ Abi \in [ContractNames -> Seq([kind : {"address", "int", "uint"}, bits : Nat])]
  /\ \A c \in ContractNames : \A i \in DOMAIN Abi[c] : Integer(Abi[c][i]) => Abi[c][i].bits > 0
  /\ Compiled \subseteq ContractNames
  /\ HookTypes \subseteq BeforeTypes \cup AfterTypes
  /\ {MaxArgs, MaxGroup, MaxBindings, MaxHooks} \subseteq Nat
  /\ ModuleHooks \cap (Names \cup Hooks) = {}

VARIABLES
  bindings,   \* the contract bindings, in the order of their declaration
  events,     \* the contract events, in the order of their declaration
  templates,  \* the templates declared
  started,    \* the kinds of module events that have a hook
  depth,      \* MODULE_DEPTH_NAME: the sub modules being built, outermost first
  used,       \* the sub modules that are initialized or being so
  outcome     \* building, built, or failed: the user function or init threw

builder == <<bindings, events, templates, started, depth, used, outcome>>

Elems(s) == {s[i] : i \in DOMAIN s}
Bound == {bindings[i].name : i \in DOMAIN bindings}
Hooked == {events[i].name : i \in DOMAIN events}
Binding(n) == bindings[CHOOSE i \in DOMAIN bindings : bindings[i].name = n]
Event(e) == events[CHOOSE i \in DOMAIN events : events[i].name = e]

(* The dependencies and usages of a hook, told apart by what they are.     *)
BaseEvent(e, type, deps, eventDeps, usage, eventUsage) ==
  [name |-> e, type |-> type, deps |-> deps, eventDeps |-> eventDeps,
   usage |-> usage, eventUsage |-> eventUsage, depth |-> depth]

(* The contracts among the arguments of a binding.                         *)
OnBindings(args) == Elems(args) \cap Names

UpTo(S, k) == UNION {[1 .. j -> S] : j \in 0 .. k}
Distinct(s) == \A i, j \in DOMAIN s : i # j => s[i] # s[j]
Args == UpTo(Bound \cup Literals, MaxArgs)

Calling == outcome = "building"
Throw == outcome' = "failed" /\ UNCHANGED <<bindings, events, templates, started, depth, used>>

New(n, contract, args, library) ==
  [name |-> n, contract |-> contract, args |-> args, library |-> library,
   custom |-> FALSE, deps |-> <<>>, depth |-> depth,
   eventsDeps |-> [type \in BeforeTypes \cup AfterTypes |-> <<>>]]
Bind(b) == /\ Len(bindings) < MaxBindings
           /\ bindings' = Append(bindings, b)
           /\ UNCHANGED <<events, templates, started, depth, used, outcome>>

Init ==
  /\ bindings = <<>> /\ events = <<>> /\ templates = {}
  /\ started = ModuleHooks
  /\ depth = <<>> /\ used = {} /\ outcome = "building"

(***************************************************************************)
(* Contracts.                                                              *)
(***************************************************************************)
Contract(n, args) == Calling /\ n \notin Bound /\ Bind(New(n, n, args, FALSE))
Library(n, args) == Calling /\ n \notin Bound /\ Bind(New(n, n, args, TRUE))

ContractTemplate(t) ==
  /\ Calling /\ t \notin templates
  /\ templates' = templates \cup {t}
  /\ UNCHANGED <<bindings, events, started, depth, used, outcome>>

BindTemplate(n, t, args) ==
  /\ Calling /\ n \notin Bound /\ t \in templates
  /\ Bind(New(n, t, args, FALSE))

(* The name is taken, or there is no such template. *)
BindFails(n, t) == Calling /\ (n \in Bound \/ t \notin templates) /\ Throw

(* The deployment of the binding is up to a function that uses others.     *)
DeployFn(n, deps) ==
  /\ Calling /\ n \in Bound /\ ~Binding(n).custom
  /\ bindings' = [i \in DOMAIN bindings |->
       IF bindings[i].name = n THEN [bindings[i] EXCEPT !.custom = TRUE, !.deps = deps]
                               ELSE bindings[i]]
  /\ UNCHANGED <<events, templates, started, depth, used, outcome>>

(* A child that a factory contract creates, with the factory as its        *)
(* dependency.                                                             *)
FactoryCreate(parent, child) ==
  /\ Calling /\ parent \in Bound /\ child \notin Bound
  /\ Bind([New(child, child, <<>>, FALSE) EXCEPT !.custom = TRUE, !.deps = <<parent>>])

(***************************************************************************)
(* Hooks.                                                                  *)
(***************************************************************************)
(* A hook is pushed to the list of its type of each contract it is on.     *)
PushTo(type, e, deps) == [i \in DOMAIN bindings |->
  IF bindings[i].name \in Elems(deps)
  THEN [bindings[i] EXCEPT !.eventsDeps[type] = Append(@, e)] ELSE bindings[i]]

(* A hook on one contract or on a group of contracts and hooks; the macros *)
(* (sendAfterDeploy, proxySetNewLogic) declare theirs this way.            *)
Hook(type, e, deps, eventDeps, usage, eventUsage) ==
  /\ Calling /\ e \notin Hooked /\ Len(events) < MaxHooks
  /\ deps \o eventDeps # <<>> /\ Distinct(deps \o eventDeps)
  /\ events' = Append(events, BaseEvent(e, type, deps, eventDeps, usage, eventUsage))
  /\ bindings' = PushTo(type, e, deps)
  /\ UNCHANGED <<templates, started, depth, used, outcome>>

HookNameExists(e) == Calling /\ e \in Hooked /\ Throw

(***************************************************************************)
(* Modules in modules: the same builder is handed on, and the stack of the *)
(* names of the modules tells where a declaration belongs.                 *)
(***************************************************************************)
UseModule(s) ==
  /\ Calling /\ s \notin used
  /\ depth' = Append(depth, s) /\ used' = used \cup {s}
  /\ UNCHANGED <<bindings, events, templates, started, outcome>>

UseModuleAgain(s) ==
  /\ Calling /\ s \in used \ Elems(depth) /\ Throw

(***************************************************************************)
(* Validation of arguments against the interface of the contract.          *)
(***************************************************************************)
(* BigNumber.from(2).pow(n) *)
Pow2[n \in Nat] == IF n = 0 THEN 1 ELSE 2 * Pow2[n - 1]
Abs(v) == IF v < 0 THEN -v ELSE v
(* A slip: the range is not halved for signed types. *)
HandleIntUnsigned(v, t) == /\ v < 0 => t.kind # "uint"
                           /\ Abs(v) <= Pow2[t.bits] - 1
HandleInt(v, t) ==
  LET range == IF t.kind = "uint" THEN Pow2[t.bits] - 1 ELSE (Pow2[t.bits] \div 2) - 1
  IN (v < 0 => t.kind # "uint") /\ Abs(v) <= range

HandleType(a, t) == IF a \in Names THEN t.kind = "address"
                    ELSE Integer(t) /\ HandleInt(a, t)

(* The number of arguments is free with a deploy function, but each of     *)
(* them needs a parameter whose type it has.                               *)
Valid(b) ==
  /\ Len(b.args) = Len(Abi[b.contract]) \/ b.custom
  /\ \A i \in DOMAIN b.args : /\ i \in DOMAIN Abi[b.contract]
                              /\ HandleType(b.args[i], Abi[b.contract][i])

HandleModule == \A i \in DOMAIN bindings :
  bindings[i].contract \in Compiled /\ Valid(bindings[i])

(* The function of a sub module returns: everything declared so far is     *)
(* validated, and the module is left.                                      *)
EndModule ==
  /\ Calling /\ depth # <<>> /\ HandleModule
  /\ depth' = SubSeq(depth, 1, Len(depth) - 1)
  /\ UNCHANGED <<bindings, events, templates, started, used, outcome>>

(* The function of the module itself returns. *)
Built ==
  /\ Calling /\ depth = <<>> /\ HandleModule
  /\ outcome' = "built"
  /\ UNCHANGED <<bindings, events, templates, started, depth, used>>

Invalid == Calling /\ ~HandleModule /\ Throw

Call == Calling /\
  \/ \E n \in Names, args \in Args : Contract(n, args) \/ Library(n, args)
  \/ \E t \in Templates : ContractTemplate(t)
  \/ \E n \in Names, t \in Templates :
       BindFails(n, t) \/ \E args \in Args : BindTemplate(n, t, args)
  \/ \E n \in Bound : \/ \E deps \in UpTo(Bound, 1) : DeployFn(n, deps)
                      \/ \E child \in Names : FactoryCreate(n, child)
  \/ \E type \in HookTypes, e \in Hooks :
     \E deps \in UpTo(Bound, MaxGroup), eventDeps \in UpTo(Hooked, MaxGroup),
        usage \in UpTo(Bound, 1), eventUsage \in UpTo(Hooked, 1) :
       /\ Len(deps \o eventDeps) <= MaxGroup /\ Len(usage \o eventUsage) <= 1
       /\ Hook(type, e, deps, eventDeps, usage, eventUsage)
  \/ \E e \in Hooks : HookNameExists(e)
  \/ \E s \in SubModules : UseModule(s) \/ UseModuleAgain(s)
  \/ EndModule \/ Built \/ Invalid

(***************************************************************************)
(* Properties.                                                             *)
(***************************************************************************)
(* Every number handed to a constructor by a module that was built is a    *)
(* value of the type of the parameter, and every contract handed over is   *)
(* taken by a parameter for an address (checker.ts computes the range of   *)
(* an integer type from its name).                                         *)
InElems(v, type) ==
  IF type.kind = "uint" THEN v \in 0 .. Pow2[type.bits] - 1
  ELSE v \in -(Pow2[type.bits - 1]) .. Pow2[type.bits - 1] - 1
ArgumentsFit ==
  outcome = "built" => \A i \in DOMAIN bindings :
    LET args == bindings[i].args
        parameters == Abi[bindings[i].contract]
    IN \A j \in DOMAIN args :
         IF args[j] \in Names THEN parameters[j].kind = "address"
         ELSE parameters[j].kind # "address" /\ InElems(args[j], parameters[j])
=============================================================================
