------------------------------ MODULE MCModules ------------------------------
(***************************************************************************)
(* Small modules for Batcher: a contract without parameters, two that take *)
(* an address, a template linked with the first and with one of these,     *)
(* with a number of three bits as its parameter, two hooks, and a module   *)
(* to use.                                                                 *)
(***************************************************************************)
EXTENDS Batcher, TLC

CONSTANTS a, b, c, t, e1, e2, s

Parameter(type, width) == [kind |-> type, bits |-> width]
SmallAbi == (a :> <<>>) @@ (b :> <<Parameter("address", 0)>>) @@ (c :> <<Parameter("address", 0)>>)
            @@ (t :> <<Parameter("int", 3)>>)
SmallLibraries == [n \in {a, b, c, t} |-> IF n = t THEN <<a, c>> ELSE <<>>]
AllCompiled == {a, b, c, t}
SmallNumbers == {-3, 4}

(* Bounds on the calls.  Names are used in one order, and contracts come    *)
(* before hooks; hooks are declared on modules that can be built, on groups *)
(* listed in one order, and use what they are not on.  The first hook is on *)
(* one contract, uses no other, and is none after the deployment; the       *)
(* second is none on change.  One binding is a library, of a template or    *)
(* has a deploy function; with one of the first two there is one hook, with *)
(* both of them none, and with a used module none.                          *)
NamesInOrder == \A i \in DOMAIN bindings : bindings[i].name = <<a, b, c>>[i]
HooksInOrder == \A i \in DOMAIN events : events[i].name = <<e1, e2>>[i]
Rank(x) == CHOOSE i \in 1 .. 5 : <<a, b, c, e1, e2>>[i] = x
Listed(q) == \A i, j \in DOMAIN q : i < j => Rank(q[i]) < Rank(q[j])
GroupsInOrder == \A i \in DOMAIN events :
  /\ Listed(events[i].deps) /\ Listed(events[i].eventDeps)
  /\ Elems(events[i].deps) \cap Elems(events[i].usage) = {}
  /\ Elems(events[i].eventDeps) \cap Elems(events[i].eventUsage) = {}
Special(x) == x.library \/ x.custom \/ x.contract = t
Specials == {i \in DOMAIN bindings : Special(bindings[i])}
Linked == /\ \E i, j \in Specials : bindings[i].library /\ bindings[j].contract = t
          /\ \A i \in Specials : ~bindings[i].custom
OneSpecial == Cardinality(Specials) <= 1 \/ (events = <<>> /\ Cardinality(Specials) = 2 /\ Linked)
KindsInOrder == \A i \in DOMAIN events : events[i].type # <<"afterDeploy", "onChange">>[i]
FirstHookPlain == events # <<>> => Len(events[1].deps) = 1 /\ events[1].usage = <<>>
FewHooks == \A i \in DOMAIN bindings :
  bindings[i].library \/ bindings[i].contract = t => Len(events) <= 1
SubModuleWithoutHooks == used = {} \/ events = <<>>
Small == /\ NamesInOrder /\ HooksInOrder /\ GroupsInOrder /\ OneSpecial
         /\ KindsInOrder /\ FirstHookPlain /\ FewHooks /\ SubModuleWithoutHooks
ContractsFirst == events = <<>> \/ events' # events \/ bindings' = bindings
SubModuleFirst == used' = used \/ (Len(bindings) = 1 /\ bindings[1].args = <<>>)
HooksWhereBuilt == events' = events \/ HandleModule
==============================================================================
