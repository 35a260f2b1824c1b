------------------------------- MODULE Batcher -------------------------------
(***************************************************************************)
(* How a parallel deployment cuts the elements of a resolved module into   *)
(* batches (TxExecutor._executeParallel, _handleElement, Batcher).  The    *)
(* batches run one after the other: the contracts of a batch are sent      *)
(* first, then its hooks run together.                                     *)
(***************************************************************************)
EXTENDS ElementOrder

VARIABLE batches  \* where each element is, the length of the list, its error,
                  \* and what the loops and the calls within have still to do

all == <<builder, order, batches>>

(* "undefined + 1": what ends up here is in no batch that is executed.     *)
NaN == -1

(* An entry is an element of the loop over the libraries or of the one     *)
(* over all elements, or a call of _handleElement for a contract, with the *)
(* arguments left and currentBatch.                                        *)
Element(loop, x) == [do |-> loop, of |-> x, left |-> <<>>, k |-> 0]
Elements(loop, s) == [i \in DOMAIN s |-> Element(loop, s[i])]
HandleElement(n, k) == [do |-> "handle", of |-> n, left |-> Binding(n).args, k |-> k]
NoBatches == [at |-> <<>>, len |-> 0, err |-> "none", todo |-> <<>>]

Current == Head(batches.todo)
Waiting(do) == outcome = "batching" /\ batches.todo # <<>> /\ Current.do = do
Batched == DOMAIN batches.at
Go(entries) == /\ batches' = [batches EXCEPT !.todo = entries \o Tail(@)]
               /\ UNCHANGED <<builder, order>>
Put(x, k) ==
  /\ batches' = [batches EXCEPT
       !.at = [y \in Batched \cup {x} |-> IF y = x THEN k ELSE batches.at[y]],
       !.len = IF k >= @ THEN k + 1 ELSE @,
       !.todo = Tail(@)]
  /\ UNCHANGED <<builder, order>>
Refuse(e) == /\ batches' = [batches EXCEPT !.err = e]
             /\ outcome' = "unbatched"
             /\ UNCHANGED <<bindings, events, templates, started, depth, used, order>>

(* The elements of the resolved module, the hooks of the module included.  *)
Started(type) == IF type \in started THEN <<type>> ELSE <<>>
ModuleElements ==
  Started("onStart") \o order.added \o Started("onSuccess") \o Started("onCompletion")

(* Libraries first; if there are any, everything else from the second      *)
(* batch on.                                                               *)
IsLibrary(x) == x \in Bound /\ Binding(x).library
From == IF \E x \in Elems(order.added) : IsLibrary(x) THEN 1 ELSE 0
ExecuteParallel ==
  /\ outcome = "resolved"
  /\ batches' = [batches EXCEPT !.todo =
       Elements("library", ModuleElements) \o Elements("element", ModuleElements)]
  /\ outcome' = "batching"
  /\ UNCHANGED <<bindings, events, templates, started, depth, used, order>>

Skip == /\ \/ Waiting("library") /\ (~IsLibrary(Current.of) \/ Current.of \in Batched)
           \/ Waiting("element") /\ Current.of \in Bound \cap Batched
        /\ Go(<<>>)
Library1 ==
  /\ Waiting("library") /\ IsLibrary(Current.of) /\ Current.of \notin Batched
  /\ Go(<<HandleElement(Current.of, 0)>>)
Contract1 ==
  /\ Waiting("element") /\ Current.of \in Bound \ Batched
  /\ Go(<<HandleElement(Current.of, From)>>)

(* A slip: a batch is left free in between.                                *)
AfterSkipping(k, dep) == IF dep # NaN /\ k # NaN /\ k < dep + 1 THEN dep + 2 ELSE k
(* currentBatch raised past the batch of an argument; a comparison with    *)
(* NaN is false.                                                           *)
After(k, dep) == IF dep # NaN /\ k # NaN /\ k < dep + 1 THEN dep + 1 ELSE k

(* An argument of the contract at hand.  Only libraries, which come first, *)
(* find arguments that have no batch yet; the batch of the library is then *)
(* computed from its own, which it does not have.                          *)
Argument == Head(Current.left)
Later(k) == [do |-> "handle", of |-> Current.of, left |-> Tail(Current.left), k |-> k]
HandleArgument == Waiting("handle") /\ Current.left # <<>> /\
  \/ Argument \notin Bound /\ Go(<<Later(Current.k)>>)
  \/ /\ Argument \in Bound \cap Batched
     /\ Go(<<Later(After(Current.k, batches.at[Argument]))>>)
  \/ /\ Argument \in Bound \ Batched
     /\ Go(<<HandleElement(Argument, Current.k), Later(NaN)>>)
PutContract == Waiting("handle") /\ Current.left = <<>> /\ Put(Current.of, Current.k)

Numbers(S) == {batches.at[x] : x \in S \cap Batched} \ {NaN}
Highest(S) == CHOOSE k \in S : \A l \in S : l <= k
Lowest(S) == CHOOSE k \in S : \A l \in S : k <= l
DepsOf(e) == Elems(Deps(e)) \cup Elems(EventDeps(e))
UsesOf(e) == Elems(Usage(e)) \cup Elems(EventUsage(e))

(* A hook before the deployment: what has no batch yet is passed over.     *)
HandleBeforeDeploy(e) ==
  LET shallowestDep == Lowest({batches.len} \cup Numbers(DepsOf(e)))
      deepestUsage == Highest({0} \cup Numbers(UsesOf(e)))
  IN IF deepestUsage > shallowestDep THEN Refuse("usage")
     ELSE Put(e, Lowest({deepestUsage + 1,
                         IF shallowestDep > 0 THEN shallowestDep - 1 ELSE 0}))

(* A slip: the contracts a hook uses are not waited for.                   *)
HandleAfterDeployUnused(e) ==
  IF DepsOf(e) \subseteq Batched THEN Put(e, Highest({0} \cup Numbers(DepsOf(e))) + 1)
  ELSE Refuse("not deployed")
(* A hook after it: later than everything it names.                        *)
HandleAfterDeploy(e) ==
  IF DepsOf(e) \cup UsesOf(e) \subseteq Batched
  THEN Put(e, Highest({0} \cup Numbers(DepsOf(e) \cup UsesOf(e))) + 1)
  ELSE Refuse("not deployed")

(* Module hooks go to the first batch, whatever their type.                *)
HandleEvent == Waiting("element") /\ Current.of \notin Bound /\
  LET e == Current.of IN
  \/ e \notin Hooked /\ Put(e, 0)
  \/ e \in Hooked /\ Event(e).type \in BeforeTypes /\ HandleBeforeDeploy(e)
  \/ e \in Hooked /\ Event(e).type \in AfterTypes /\ HandleAfterDeploy(e)

ExecuteBatches ==
  /\ outcome = "batching" /\ batches.todo = <<>>
  /\ outcome' = "batched"
  /\ UNCHANGED <<bindings, events, templates, started, depth, used, order, batches>>

Batching == Skip \/ Library1 \/ Contract1 \/ HandleArgument \/ PutContract \/ HandleEvent

BatchInit == ResolveInit /\ batches = NoBatches
BatchNext == \/ ResolveNext /\ UNCHANGED batches
             \/ ExecuteParallel \/ Batching \/ ExecuteBatches
BatchSpec == BatchInit /\ [][BatchNext]_all

(***************************************************************************)
(* Properties.                                                             *)
(***************************************************************************)
(* In an earlier batch, when both are in a batch that is executed.         *)
Earlier(x, y) ==
  /\ {x, y} \subseteq Batched
  /\ NaN \notin {batches.at[x], batches.at[y]} => batches.at[x] < batches.at[y]

(* The address of an argument is set at the end of its batch, so the       *)
(* contract that takes it is in a later one.                               *)
ArgumentsInEarlierBatch ==
  outcome = "batched" => \A n \in Bound : \A x \in OnBindings(Binding(n).args) : Earlier(x, n)

(* What a library takes: its arguments, theirs, and so on.                 *)
ForLibrary(x) ==
  \A S \in SUBSET Bound :
    /\ \A n \in Bound : IsLibrary(n) /\ OnBindings(Binding(n).args) # {} => n \in S
    /\ \A n \in S : OnBindings(Binding(n).args) \subseteq S
    => x \in S

(* A library is in the first batch, and a contract that is linked with it  *)
(* in a later one, unless one of the two is ForLibrary: a library with     *)
(* contracts among its arguments, or what such a library takes.            *)
LibrariesInEarlierBatch ==
  outcome = "batched" => \A n \in Bound : ~IsLibrary(n) /\ ~ForLibrary(n) =>
    \A l \in Elems(Libraries[Binding(n).contract]) \cap Bound :
      IsLibrary(l) /\ ~ForLibrary(l) => Earlier(l, n)

(* A hook after the deployment runs in a later batch than the contracts    *)
(* and hooks it follows and the contracts it uses; so its check of their   *)
(* addresses finds them.                                                   *)
HooksInLaterBatch ==
  outcome = "batched" => \A e \in Elems(order.added) \cap Hooks :
    Event(e).type \in AfterTypes =>
      batches.at[e] # NaN /\ \A x \in DepsOf(e) \cup UsesOf(e) : Earlier(x, e)

(* The addresses of a batch are set when it ends: so an element of a batch *)
(* that is executed finds those it needs, if what it needs is an argument, *)
(* such a library, or named by a hook after the deployment, and in a batch *)
(* that is executed, too.  The code promises no more: what a deploy        *)
(* function uses, what a hook before the deployment names, and libraries   *)
(* that link or take others or are declared as contracts may be in the     *)
(* same batch as the element that needs them, or in a later one.           *)
BatchesRespected == ArgumentsInEarlierBatch /\ LibrariesInEarlierBatch /\ HooksInLaterBatch

(* The loop over the batches meets every element: none of the batches up   *)
(* to the last is missing (it would throw), and only a library with        *)
(* contracts among its arguments, or what such a library takes, is left    *)
(* out.                                                                    *)
NoBatchMissing ==
  outcome = "batched" =>
    /\ Batched = Elems(ModuleElements)
    /\ \A k \in 0 .. batches.len - 1 : \E x \in Batched : batches.at[x] = k
    /\ \A x \in Batched : batches.at[x] = NaN => x \in Bound /\ ForLibrary(x)

(* What resolves can be batched: an order the resolver accepts never makes *)
(* the batcher throw, unless a hook before the deployment uses anything or *)
(* a hook after it uses a hook that does not come before it.               *)
OrderCanBeBatched ==
  outcome = "unbatched" =>
    \E e \in Hooked :
      \/ Event(e).type \in BeforeTypes /\ UsesOf(e) # {}
      \/ Event(e).type \in AfterTypes /\ \E u \in Elems(EventUsage(e)) : ~InOrder(u, e)

(* The parallel executor takes on every module that the sequential one     *)
(* does, and leaves out nothing of it, but for these exceptions.           *)
EverythingBatched == NoBatchMissing /\ OrderCanBeBatched
=============================================================================
