# Hardhat Ignition, specified

TLA+ specifications of the deployment engine in `src/packages/ignition-core`,
the TLC configurations that check them, and TLAPS proofs about them. Paths
below are relative to the repository, `C/` stands for
`src/packages/ignition-core/src/`.

A *module* of Ignition is a set of contracts (bindings) and hooks (events)
that a developer describes in TypeScript. Deploying it sends one creation
transaction per contract and runs the hooks, some of which send transactions
themselves. Everything that was achieved is kept in a state file, so that a
run that was interrupted can be started again and goes on where it stopped.
That promise, "without needing to start from scratch somewhere during the
process because something went wrong" (`README.md:24-25`), is what most of
this project is about.

## The system

### Components

| component | code | state it keeps | operations |
|---|---|---|---|
| Deployment run | `C/index.ts`, `C/services/ethereum/transactions/executor.ts`, `C/services/modules/events/handler.ts` | the resolved module state in memory, the current element | `deploy`, `_executeSync`, `_executeSingleBinding`, `_executeEvent`, `executeModuleEvents` |
| Parallel executor | `_executeParallel`, `_executeBatches`, `_executeEvents` in `executor.ts` | the batch, the transactions sent and not waited for | contracts of a batch, then its hooks, together |
| Batcher | `C/services/modules/events/batcher.ts` | none | splits a module into batches for the parallel executor |
| Resolver | `C/services/modules/module-resolver.ts` | none | order of elements, comparison with the state file, invalidation, `checkIfDiff`, `printDiffParams` |
| State repository | `C/services/modules/states/` | the state file of a module on a network; name of the current event | `getStateIfExist`, `storeNewState`, `storeSingleBinding`, `storeEventTransactionData`, `finishCurrentEvent`, `finishCurrentModuleEvent` |
| Event transactions | `C/services/ethereum/transactions/event-executor.ts` | pending calls by hook, one lock per sender | `add`, `executeSingle`, `executeAll` |
| Wrappers | `ContractInstance`, `IgnitionSigner` in `C/interfaces/hardhat-ignition.ts` | `contractTxProgress` of each binding | calls and transfers made by hooks, replay of stored receipts |
| Locks | `C/services/utils/mutex/` | a promise per key | `acquireQueued`, `release`, `isLocked` |
| Transactions | `C/services/ethereum/transactions/{generator,manager}.ts`, `C/services/ethereum/gas/` | next nonce of each wallet | `initTx`, `addLibraryAddresses`, nonces, signing, gas price backoff |
| Module builder | `Module`, `ModuleBuilder`, `ContractBinding`, `GroupedDependencies` in `C/interfaces/hardhat-ignition.ts`; `C/services/modules/validator/`, `C/services/types/checker.ts` | the module description | declarations, templates, hooks, used modules, validation of arguments |
| Macros and expectations | `C/interfaces/helper/` | none | `sendAfterDeploy`, `filler`; the three expectations |
| Diff | `diff` in `C/index.ts` | the module object it initialised | what a deployment would change |
| Logging | `C/services/utils/logging/` | what the terminal shows | one call for each thing that happens |
| Summary | `C/services/modules/module-deployment-summary.ts` | the state file as it was before | what is new, and the transactions it took |
| Migration, usage and typings, utilities, Hardhat plugin | remaining files | none that outlives a command | |

### How they interact

`IgnitionCore.deploy` initialises the module, reads the state file, lets the
resolver compare both, and hands the resolved state to `TxExecutor`, which
stores it before it does anything else. The executor walks the elements in
order. A contract is sent by the transaction generator and waited for in two
steps, each followed by a write of that contract alone. A hook runs user code,
which calls contracts through `ContractInstance`; a call looks into the state
file for a receipt of an earlier run, or is queued in `EventTxExecutor`, which
takes the sender's lock, sends, waits, and appends the receipt to the file.
When a hook returns, the event as the file has it is put into memory, and all
of the memory is written over the file. An error anywhere leaves the loop; the
`onFail` hooks of the module run, and the error is thrown on.

The file is thus written in three ways (one contract, one receipt, everything)
from two sources (the file read back, the memory), which is where the hard
questions come from.

What the resolver orders is what the user function declared through
`ModuleBuilder`. The parallel executor cuts the same order into batches; within
one, hooks run at the same time and meet in `EventTxExecutor`, in the nonces
and in the file. `diff` initialises and resolves as `deploy` does and prints
instead. Everything that happens is told to the logger, synchronously and from
inside the deployment, so that an error of the logger is one of the
deployment; the summary is made from the file before and after.

### Where it is hard

* *Crashes and reruns.* The process may be killed, or fail, between any two
  writes and be started again, with other bytecode or another module config.
* *Partial failure.* A transaction may be refused, revert, or be mined while
  the wait for it fails; user code may throw in the middle of a hook.
* *Replay.* A resumed hook is run from its beginning, and each call is matched
  with a stored receipt by counting.
* *Locks.* A failed call does not release the lock of its sender.
* *Concurrency.* The parallel executor runs all hooks of a batch at once; they
  share the pending calls, the locks, the nonces and the file.
* *Order.* Arguments, libraries, deploy functions, groups, hooks on hooks and
  used modules give an order that no single test describes.
* *Edits.* A module is edited between deployments; the state file goes by name
  and `diff` by position.
* *Boundaries.* Widths of integers, empty lists, forms of numbers, a batch
  computed from one that does not exist.

What makes each component correct: a run that reports success left nothing
undone; nothing on record is lost or made up; contracts are connected with
those they name; a call of a hook is sent once; a second run of a finished
deployment creates nothing and sends nothing for what is there; a run ends; a lock has one holder and reaches
everybody who waits; nonces have no duplicates and no gaps; the order of
elements respects every declared dependency, and so do the batches; what is
shown (progress, ticks, errors, summary, diff) is what the state file says and
what a deployment would do; an expectation accepts what was set and refuses
the rest.

## The modules

| module | what it is |
|---|---|
| `Deployment` | one Ignition module on one network over several runs: state machine and properties |
| `DeploymentInductive` | the inductive invariant of `Deployment` |
| `DeploymentCalls` | what becomes of the calls of hooks: conditions on a module, and the invariants they give |
| `DeploymentProofs` | proofs: types, the inductive invariant and the safety properties |
| `Checklist` | what a resumable deployment promises |
| `DeploymentChecklist` | the mapping of `Deployment` to `Checklist` |
| `DeploymentCallProofs` | proofs: `Deployment` implements `Checklist`; calls of hooks, contracts that stay, deploy functions |
| `MCDeployment` | two small Ignition modules for TLC |
| `KeyMutex` | the promise chain behind the lock of a sender |
| `FifoLock` | what such a lock promises |
| `KeyMutexProofs` | proofs: mutual exclusion, and that `KeyMutex` implements `FifoLock` |
| `ModuleBuilder` | the calls that declare a module, and its validation |
| `ElementOrder` | the order the resolver gives its elements; extends `ModuleBuilder` |
| `Batcher` | the batches of that order; extends `ElementOrder` |
| `ModuleProofs` | proofs: builder and arguments, the order, the batches |
| `MCModules` | the small modules for TLC |
| `ParallelRun` | the parallel executor, await by await |
| `ParallelProofs` | proofs: nonces, addresses in time, calls sent, what is on record |
| `MCParallel` | three batches for TLC |
| `DeploymentView` | what a deployment shows: progress, errors, summary |
| `ViewProofs` | proofs: ticks, errors, count and summary |
| `MCView` | a small module for TLC |
| `Diff` | edits of a module, `diff`, and the resolver by name |
| `DiffProofs` | proofs: what `diff` says, and what the resolver keeps |
| `MCDiff` | the first module for TLC |
| `Mutator` | the hook of `sendAfterDeploy` and the expectations |
| `MutatorProofs` | proofs: expectations, and how often the setter is called |

### Deployment

The shape of the Ignition module is given by constants: contracts, hooks, the
order the resolver computed, constructor arguments and libraries, the
dependencies of hooks, and for every hook the targets it calls in order. What
the developer may change between runs is the bytecode (`Edit`) and which
contracts the module config skips (`Configure`).

| variable | in the code |
|---|---|
| `file` | the state file: per contract `bytecode`, `deployMetaData.contractAddress`, `txData.output`; per event `executed` and `txData[binding].contractOutput` |
| `mem` | the `moduleState` object the executor works on |
| `custom` | bindings whose `deployMetaData.deploymentSpec.deployFn` is a function in this process |
| `status`, `pos`, `at`, `ci` | where `_executeSync` and the function it awaits have come |
| `progress` | `ContractBinding.contractTxProgress` |
| `locked` | the sender's entry in `EventTxExecutor._mutex` |
| `receipt`, `made` | the transaction being waited for, the contract it created |
| `code`, `skip` | compiled bytecode, `deploy: false` in the module config |
| `deployed`, `calls` | the chain: creations, and transactions sent by hooks |

Addresses are positions in `deployed` and receipts positions in `calls`, so
that "the address of which creation" can be asked of every address.

| actions | in the code |
|---|---|
| `StartRun` | `deploy` up to `TxExecutor.execute` storing the resolved state; `Resolved` is `ModuleResolver.resolve` with both invalidations |
| `SkipContract`, `NotLinkable`, `DeployFails`, `SendDeploy`, `StoreReceipt`, `RecordAddress`, `WaitFails` | the contract branch of `_executeSync`, `_executeSingleBinding`, `_sendTransactionAndWait` |
| `SkipEvent`, `DepsMissing`, `BeginEvent`, `FinishEvent` | the handlers of `EventHandler` and `finishCurrentEvent`/`finishCurrentModuleEvent` |
| `BeginDeployFn`, `FinishDeployFn`, `DeployFnSentNothing` | a binding with its own `deployFn` |
| `NotCallable`, `ReplayCall`, `SendCall`, `SendRevertingCall`, `RejectCall`, `ConfirmCall`, `CallWaitFails` | the wrapper of a contract function, `IgnitionSigner.sendTransaction`, `EventTxExecutor` |
| `FunctionThrows` | user code throws by itself |
| `EndRun` | the end of `execute`, or of the `onFail` hooks |
| `Crash`, `Edit`, `Configure` | the environment |

An error is one step, `Throw`: from the elements to the `onFail` hooks, from
these to the end of the run.

### Checklist

What is left of a deployment when chain, transactions and the two copies of
the state are taken away: a list of elements that is worked off over several
runs. `Settle` does the first element that is neither done nor skipped, of the
order or, after `Fail`, of the hooks on failure; `Fail` needs an element that
is due, `Succeed` that none is left, and `Stop` (a crash, or the end of a
failed run) may come at any time. `Begin` starts a run with some of what was
done, at its choice, but an executed hook only with all the contracts it
depends on that were done. Nothing else changes `done`.

`DeploymentChecklist` reads `done` off the state file: the contracts with an
address, and the executed hooks. A contract is thus settled by `RecordAddress`,
which stores the address, and a hook by `FinishEvent`; the steps before that,
writes of receipts to the file among them, settle nothing, and `StartRun`, with its invalidations, is one
`Begin`. The event of a deploy function is on file, but is no element.

### KeyMutex and FifoLock

A call of `acquireQueued` creates a promise, remembers the one that stood in
the lock, and waits for that. `KeyMutex` numbers the promises; `prev` is the
one a call waits for, `stage` how far it is, `lock` is `_lock`. Calls may come
at any time, from any number of callers, for any key. `FuncFails` is the
holder throwing before it releases, which `EventTxExecutor` allows
(`event-executor.ts:112`): the key is lost. `FifoLock` has a set of waiting
calls and a holder for each key, and serves the lowest number. The mapping
takes both from the stages of the calls. `Mutex` (`simple-mutex.ts`) is the
same code with one key.

### ModuleBuilder, ElementOrder and Batcher

Three modules, each extending the one before it as the code uses it: a user
function declares a module, the resolver orders its elements, the parallel
executor cuts the order into batches.

`ModuleBuilder` has one action per call of the user function (`Contract`,
`Library`, `ContractTemplate`, `BindTemplate`, `DeployFn`, `FactoryCreate`,
`Hook`, `UseModule` ...), each with the errors it throws, and `EndModule` for
the end of a module, where `HandleModule` validates the number and types of
constructor arguments. Its variables are the properties of `ModuleBuilder`
that these calls fill.

`ElementOrder` is the walk of the resolver, call by call. `order.added` is the
object the code adds elements to, as the sequence of its keys; `order.todo` is
the stack of calls, as the list of what they have still to do. An entry is a
call for a contract or a hook (`contract`, `before`, `after`, `single`, `deps`,
after the method that is called), the check of a hook that uses others, an
element to be put into the object, or the return of a call for a contract. An
action takes the head off and puts what the call does in its place. The code
looks into the object before it resolves anything, and so do the actions. The
state of a call is its contract and the object, so a call within a call for
the same contract that finds the object as the outer one did repeats it for
ever: that is the error "overflow", which `Return` keeps what is needed to
tell.

`Batcher` is `_executeParallel`, `_handleElement` and the `Batcher` class in
the same way: `batches.at` is `elementsBatches`, `batches.len` the length of
the list of batches, `batches.todo` the elements the two loops have still to
meet, with the calls of `_handleElement` within before them, each with the
arguments left and its `currentBatch`. `undefined + 1` is kept as what it is
(`NaN`, a batch that no loop over the batches meets).

What the batches promise is less than what the order does. Addresses are set
when a batch ends, so an element finds what it needs if that is in an earlier
batch. `BatchesRespected` says that it is for the arguments of a contract, for
the libraries it is linked with, and for the contracts and hooks a hook after a
deployment is on or uses. It does not say so, because the code does not make
it so, of what a deploy function uses, of what a hook before a deployment
names, of a library that takes contracts or is taken by one that does
(`ForLibrary`) or that was declared as a contract, and of elements in the
batch `NaN`, which is not executed.

### ParallelRun

One step is what stands between two awaits.

| variable | in the code |
|---|---|
| `main` | the loop of `_executeBatches`: where it is, the contracts left and sent, the state read from the file for a store under way |
| `hook` | each hook: what it awaits, its next call, the contracts left to store after it |
| `root` | `_rootEvents` of `EventTxExecutor` |
| `lanes`, `queue` | the promises `executeAll` makes, one for each hook, call and sender, and who has and waits for the key of a sender (`KeyMutex` is shown to be such a queue) |
| `progress` | `contractTxProgress` |
| `nonceMap`, `txs`, `mined` | the nonces of `TransactionManager`, and the chain |
| `mem`, `file`, `custom` | as in `Deployment` |

| actions | in the code |
|---|---|
| `SkipContract`, `LookUpForContract`, `SendContract` | `_executeBatches`, contract by contract; one is skipped that has its address or that the module config leaves out |
| `ContractFails`, `ContractRefused`, `ContractReverts` | it stops before the nonce is taken (an argument without address, a deploy function, a failing look-up or estimate); the node refuses what was signed, and the nonce is gone; what was sent is reverted |
| `ExecuteEvents`, `EventsExecuted`, `RecordAddress`, `StoreAddress`, `NextBatch` | `_executeEvents`, then the addresses of the batch; a hook that finds a contract without address (`Start`) throws |
| `Call`, `Leave`, `ComeBack`, `HookThrows` | user code of a hook |
| `FinishEvent`, `StoreFinished`, `ReadForDep`, `StoreDep`, `HookEnds` | `finishCurrentEvent` and the stores after a hook |
| `Func`, `LookUpForCall`, `SendCall`, `StoreInput`, `Release`, `Resolve` | a lane: the wrapper, the nonce, the transaction, its input, its receipt |
| `LookUpFails`, `CallFails`, `CallReverts` | the look-up or the gas price fails; the node refuses the call, and the nonce is gone; it was sent and the wait for it fails. The key is kept in each case, and the hook that waits throws |

JavaScript runs whatever can go on before it hears of the network or of a
timer: answers from outside need `Quiet`. Hooks and lanes take turns in any
order otherwise, also between the reading and the writing of a file.

The two kinds of failure before and after `getAndIncrementTransactionCount`
matter: it is called before the transaction is signed and sent
(`manager.ts:109`, then `executor.ts:782` and `:803`), so that a transaction
the node refuses leaves a gap in the nonces of its sender, and one that never
got so far does not. A contract that fails ends the loop (`threw`, `refused`); for
a hook that fails it waits for ever.

### DeploymentView

A deployment as in `Deployment`, with less of the chain and more of what the
developer sees: `view` is the state of `OverviewLogger` and `FileLogging` (the
elements shown, their status, the count behind the percentage, the message of
the error, the number of transactions in the summary, whether a call of the
logger threw), `old` is what `ModuleDeploymentSummaryService` compares the file
with. It is the state that was read at the beginning, but not as it was read:
the resolver works on it. It puts new events into it and shares the metadata
of an invalidated contract (`module-resolver.ts:125`, `:732`), whose new
address therefore shows up on both sides; so `Deploy` gives `old` the events of
the resolved state and the addresses of the file, and a contract deployed again
as an argument counts as an old one. The counters of contracts and hooks that
the service also keeps are never printed
(`module-deployment-summary.ts:148-159`) and not modelled. Operators on the view carry the names of the methods of the logger; the
actions are the steps of the deployment between them, and what a logger throws
ends the deployment as any other error (`Proceed`). The ghosts are `done` and
`sent`, what this run did, and `lost`, whether an input was ever stored
without its receipt.

### Diff

`Edit` changes an element of the module: code, argument, name, place, kind, or
removes or inserts one. `Deploy` is a deployment that stops after any element;
its `Resolve` compares by name, forgets what depends on what is made again and
asks once about contracts missing on the network (`Reset` makes them so).
`Diff` is the command: `Resolve` too, which changes what was read of the file,
then `CheckIfDiff` and `PrintDiff`, both by position. `report` keeps what was
said and both lists, so that the properties can ask what a deployment would
have done at that moment. A hook has its event type: hooks of the module stand
first or last, and an element whose kind or type is another than that of its
name on file makes the resolver throw. `made` tells what each contract on the network was
made of, which nothing on record does.

### Mutator

The hook `sendAfterDeploy` writes for a setter and its getter or slot. A
JavaScript value is what comparisons see of it: its kind, what it means, and
the form of a string. `ExpectFuncRead`, `GracefulExpectFuncRead` and
`ExpectSlotRead` are the three expectations, over every type of value and
every form it can be given in; `Run`, `Replay`, `Set`, `Confirm`, `Check` and
`Fail` are the hook and its interruptions, and `Other` is somebody else who
calls the setter.

Operators and actions whose comments begin with "A slip" are variants of a
definition as a plausible mistake would write it. No next-state relation uses
them; each is put in the place of its original to see that a property notices.

## What is checked

All runs are exhaustive. The process may stop for good (a finished run, a lost
key, the bound on runs), so deadlock is not an error.

| run | instance | what it shows |
|---|---|---|
| `resume` | a token, a sale that takes it as argument, hooks on start, after deployment, on completion and on failure; 3 runs, 1 edit per contract, skipping, all faults but `reject` | types; addresses on record are real; everything is wired to the right instance; the file is never behind between two elements; success means complete; `Deployment` implements `Checklist`; one more run of a complete deployment creates no contract, sends nothing for one and forgets nothing |
| `executed` | the same without failure hook and edits, 3 runs, all faults | every run ends; a hook on record as executed made all its calls to the present instances |
| `calledOnce` | a hook that calls and pays, a completion hook that calls; 3 runs, 1 edit, no crash and no lost answer | no call reaches the same instance twice |
| `proxy` | a library, a proxy made by a `deployFn`, a client linked with both that takes the library as argument as well, a contract whose `deployFn` goes behind the tool's back; 2 runs, 1 edit, all faults | the inductive invariant, with deploy functions; contracts made by deploy functions stay so; what is deployed and unchanged stays |
| `keyMutex` | 2 keys, 4 calls, holders may fail | `KeyMutex` implements `FifoLock`; `isLocked` is exact; who waits is served unless an earlier holder failed |
| `build` | every module of up to three bindings and two hooks, of the constraints below, that the builder accepts | arguments fit their types; the order has what is needed first, hooks in place, and loses nothing; the walk overflows only on circular declarations; batches put arguments, libraries and what hooks after a deployment name before those that need them (exceptions above), and all of the order is batched |
| `parallel` | a token that may be on record, a sale with perhaps a deploy function, four hooks in two batches, with one sender in the first and two in the second, each for a contract of its own; a contract the module config may leave out; look-ups that fail, contracts and calls that are refused or reverted, hooks that throw | nonces without duplicates, and without gaps unless the node refused something; executed hooks sent their calls; addresses in time, but those of contracts left out; what is done is on record; every deployment settles unless one of these failures happened |
| `view` | two contracts, two hooks, one at the end, one on failure; 4 runs, crashes and errors anywhere | progress and ticks are those of the state file, the kind of error shown is that of the error that ended the run, the number of transactions that of the deployment (exceptions below); a complete deployment is reported as failed only after a receipt was lost |
| `diff` | a token, a sale, a hook, of a contract or of the module; 2 edits, deployments that stop anywhere, resets of the network | "nothing changed" and the lines of a diff against what a deployment would do, but for hooks that are pending; what is untouched stays, what is missing is redone |
| `mutator` | six types of value, all forms, getter and slot; 2 interruptions, 1 foreign transaction | an expectation accepts just what means the same and can be compared, and refuses the rest unless it throws; the graceful one agrees; the setter is sent once, and once more for each lost receipt; the hook gets through at last |

Two runs show that the code does not do what its documentation says; TLC
finds a counterexample to the property in each.

| run | property | what happens |
|---|---|---|
| `replayTwice` | `ExecutedMeansCalled` | replaying a receipt appends it again (`event-executor.ts:130`), so the log grows ahead of the counter and a later call is taken for executed |
| `diffArgs` | `SilentMeansSame` | an edited constructor argument is put on record by the next deployment without the contract being made again, after which `diff` finds that nothing changed |

These bound what can be expected elsewhere: `executed` has no hook with two
calls to one contract and no edits, `calledOnce` no hook on failure and no
lost answer. In these settings the properties do hold, which is
what the passing runs say, and for any module that meets such conditions it is
proved (`CallsAnswered` in `MCDeployment` lets TLC see that the instances of
the two runs meet them). Exceptions that a property of another run names are
of the same kind, and each is described in the list of known behaviour:

* `RerunSendsNothing` leaves out the hooks of the module. The documentation
  wants those on start and on completion run every time
  (`docs/concepts/module_builder/events.md:41`, `:45`), the code skips them
  once they were executed (`handler.ts:218`); a property that demanded either
  would take sides.
* `BatchesRespected` and `EverythingBatched`: `ForLibrary`, deploy functions,
  hooks before a deployment. `EverythingBatched` is silent about a hook before
  a deployment in the first batch.
* `ExpectationExact`: pairs that are not `Comparable`.
* `DiffTruthful`, `LinesExact`: hooks that are pending, elements that moved or
  are gone.
* `SummaryExact`: hooks on success and on completion, contracts made again as
  arguments, hooks begun over.
* `CauseShown`: an error while the state is stored, before the logger knows
  the module; an error of an `onFail` hook, which takes the place of the cause.
* `ArgumentsFit` is about what is accepted, and says nothing of the smallest
  value of a signed type, which is refused.

### Bounds

`MaxRuns` bounds starts of the tool: three are needed for a run that resumes
what a resumed run left, and four in `view`, so that a summary can follow two
interrupted runs and a complete one. `MaxEdits` bounds recompilations per
contract in `Deployment`; one separates old from new bytecode, two edits of
the same contract between the same two runs are one. In `diff` two edits are
what it takes to move an element and change it, or to change two neighbours.
The modules have two to four contracts and hooks with up to three calls: two
contracts in a chain of arguments make every case of the invalidation, three
calls to one contract are needed to see the counters diverge. In `keyMutex`
four calls give a holder, two in line on the same key, and one on the other.

`build` declares at most three bindings, two hooks, one argument each and
groups of two; it has 958,865 distinct states. Some constraints take out what
differs only in names: names are used in one order, contracts are declared
before hooks, groups are listed in one order. Others keep the number of
modules in hand: one binding at most is special (a library, of a template, with
a deploy function), but for a library together with a template linked with it,
and a library or a template leaves one hook, both or a used module none; the
first hook is on one contract and comes before the deployment or on a change,
the second is on up to two elements and comes before the deployment or after
it. Three bindings give a chain and a triangle, two hooks one that depends on
the other or uses it.
One parameter has three bits, and the two numbers are the smallest it takes
and one above the largest; the types of other widths are left to the proof.

`parallel` has four hooks: two with different senders in one batch, two with
the same sender in the next, one of them with two calls. That gives lanes of
the same and of other hooks in line for one key, a lookup of a nonce with
another lane behind it, and a hook that ends while the calls of another are
waited for. One of its three contracts may be on record, one may be left out,
one may have a deploy function; any transaction, and any hook, may fail. It has
290,859 distinct states.
`view` has 54,467, and one of its three hooks is on success, which the summary
does not count. `diff` has 47,613.
`mutator` has two meanings, since every comparison is of two values, at most
three transactions of the hook and one of others.

### Fairness

`Deployment` assumes weak fairness of `Step`, the disjunction of what the
process does while it runs: one thread that keeps running, over a network that
answers every request, and user code that goes on when it can. Which outcome
of a request occurs (success, failure) is not constrained. Crashes, starts and
errors that user code throws by itself are outside `Step`: a hook that waits
for ever is not rescued by throwing. `KeyMutex` assumes that each call goes on
when it can: a promise callback runs once its promise is resolved, and what a
holder does comes to an end, by releasing or by failing. `ParallelRun` assumes
the same of the loop, of each hook and of the lanes together: a promise that
is resolved is run on, a node answers, a hook returns. `Mutator` assumes that
the hook is run and goes on; interruptions are bounded, and its liveness is
about a contract that others leave alone at last. `DeploymentView`, `Diff` and
the builder need no fairness: they claim nothing of the future.

## What is proved

TLAPS checks the following for every Ignition module (any constants that
satisfy `ShapeAssumption` and `OrderAssumption`), any set of faults, and any
number of runs, edits and calls.

| theorem | statement |
|---|---|
| `TypeCorrect` | `Spec => []TypeOK` |
| `InductiveInvariant` | `Spec => []Inductive` |
| `StaysInSync` | `Spec => []FileInSync` |
| `NeverForgets` | `Spec => RunNeverForgets` |
| `AddressesExist` | `Spec => []RecordedAddressesExist` |
| `Wired` | `Spec => []WiredCorrectly` |
| `SuccessIsComplete` | `Spec => DoneMeansDeployed` |
| `WorksOffChecklist` | `Spec => ImplementsChecklist` |
| `RerunIsSilent` | `Spec => RerunSendsNothing` |
| `StaysDeployed` | `Spec => KeepsDeployed` |
| `CustomByItsFunction` | `Spec => []CustomStaysCustom` |
| `Invariant`, `MutexExcludes`, `LockedIsExact`, `Implements` | of `KeyMutex`: the invariant, one holder per key, `isLocked`, and `Spec => FifoLock` |

The assumptions say what the resolver and the builder guarantee: the order has
every contract and nothing twice, hooks on failure are not in it, and the
event of a deploy function is in neither.

What becomes of the calls of hooks depends on the module, as `replayTwice` and
the list of known behaviour below show. Three theorems say on what
(the conditions are definitions of `DeploymentCalls`).

| theorem | statement | for modules and faults with |
|---|---|---|
| `ExecutedHooksCalled` | `Spec => []AllCallsMade`: every call of an executed hook is on the chain | `DistinctCalls`: no hook calls a contract twice |
| `ExecutedHooksReached` | `Spec => []ExecutedMeansCalled`: and it went to the instance on file | `DistinctCalls`; `NothingAnew`: no edits, nothing forced; `CallersWait`: a hook that calls and has dependencies comes after these and all that take them as arguments |
| `CallsNotRepeated` | `Spec => []NoRepeatedCall` | `ReceiptsKept`: no crash, no lost answer, no hooks on failure, no calls by deploy functions; `CalleesNew`: a hook that is reset meets new contracts only |

TLC evaluates them: `executed` meets those of the first two, `calledOnce`
those of the last.

**The argument for `Deployment`.** None of the properties is inductive: each
speaks of moments between elements, or of the file alone. `Inductive` adds
what is true in the middle. `Sync`: while the process lives, file and memory
agree on contracts and executed hooks, and on the logs of all hooks but the
one that is running; after an error the logs may differ, because the whole
memory is written back by the hooks on failure. `Place`: an element is in
execution only if it was not done before, so writing an address never
overwrites one. `InFlight`: `made` is a creation of the current contract with
the bytecode in memory, from the moment the transaction is out until the
address is recorded; for a deploy function this begins with its last call, and
that call is never a replay, which is `FnLog`: the event of a deploy function
is not resolved, so all its receipts are of this run, and the counter of each
binding is at least their number. `History`: no creation is of a later run, so
that starting a run makes "of this run" true of none. `Progress`: what lies
before the current element is done or skipped. `FailedAtSomething`: hooks on
failure run only if something is undone, without which a complete deployment
might still send.

Every action is shown to keep every part it can disturb, in a lemma per part.
Actions with the same effect are handled together: the steps that change
neither file nor memory nor chain (`QuietStep`), the two stores of a contract,
the two ends of a hook function. The properties then follow from the
invariant, the action properties with `FileSteps`, which lists how a step can
change addresses and executed hooks on file.

**The argument for what stays and what is called.** Invalidation is the least
set closed under arguments that contains what changed. Lemma `InvalidatedTaken`
uses that it is least: a contract in it that did not change itself is the
argument of another in it, since the set without it would be closed as well.
So a contract loses its address only if it changed, is forced, or one that
takes it has lost its own (`StaysDeployed`), and a deploy function forgotten
with an address belongs to an argument (`CustomByItsFunction`).
`AllCallsMade` needs `CallsBehind` (the hook that runs has made its calls up
to the present one), `Awaited` (the answer awaited is to that one) and
`ReceiptsOfCalls`: where a hook calls a contract once, a receipt on file is
that of the call, so that a replay stands for a call that was made. For
`ExecutedMeansCalled`, `DepsStay` says that what a hook depends on keeps its
address once the hook has begun. `NoRepeatedCall` is an argument by counting.
As long as the instance called is the present one (`Live`), the receipts on
file are at least as many as the calls they answer (`Logged`), and a hook
that is resumed has counted just the calls it has made anew (`Counted`); the
same call again would therefore find a receipt and be replayed
(`RepetitionReplays`). That no other hook moves the counter of that contract
before is `EarlierDone`.

**The argument for `Checklist`.** That a step settles the element that is due
is `Progress` and `Place` seen through `Sync`: all before it is done or
skipped, it is not, and the file says so too. `Auxiliary` adds what these
leave open: the contract in work is not a skipped one (`NotSkipped`), the
hooks on failure before the current one are executed (`FailProgress`), and a
contract with an address on file has a bytecode on file (`Coded`), so that one
that loses its address was redone, and hooks that depend on it are reset.
`SettleMap`, `BeginMap`, `ConfigureMap` and `QuietMap` give the step of
`Checklist` for each step of `Deployment`, `StutterMap` says that the others
change nothing of it. `NeverForgets` says a little more of the same: the
address that is kept within a run is the same address.

**The argument for `KeyMutex`.** `ChainLinks` says that between a call and
the one it waits for nobody is unreleased, `LockIsLast` that the lock holds
the last call for its key, `InOrder` that a call has had the key only after
all earlier ones released it. Together they are inductive; mutual exclusion is
`InOrder` twice, and the refinement maps each step to one of `FifoLock`, or to
a stutter when the holder fails.

Further theorems are about the other components.

| theorem | statement | assumes |
|---|---|---|
| `CallersInSequence` | `Spec => []InSequence(s)` of `ParallelRun` | `ParallelAssumption`; `s` signs no contract |
| `NoncesSafe` | `Spec => []NoncesInSequence` | `ParallelAssumption`; `SignsFirst(s)` for every sender |
| `NeedsMet` | `Spec => []AddressesInTime` | `ParallelAssumption`, `NeedsInEarlierBatch` |
| `ExecutedSent` | `Spec => []ExecutedMeansSent` | `ParallelAssumption`, `OneCaller`: no contract is called by two senders |
| `RecordedThroughout` | `Spec => []` (`main.copy = NoCopy` implies that `file` has the addresses and executed hooks of `mem`) | `ParallelAssumption`, `OneCaller`, `OneWithoutCalls`: at most one hook of a batch makes no call |
| `DoneRecorded` | `Spec => []DoneMeansRecorded` | the same |
| `Truthful`, `Caused` | `Spec => []StatusTruthful`, `Spec => []CauseShown` of `DeploymentView` | `ViewAssumption` |
| `CalledOnce`, `Exact`, `Graceful` | `Spec => []SetOnce`, `[]ExpectationExact`, `[]GracefulAgrees` of `Mutator` | nothing |
| `CountExact` | `Spec => []ProgressExact` of `DeploymentView` | `ViewAssumption`, a module that is not empty (of nothing there is no percentage) |
| `FailsAfterLoss` | `Spec => []SummaryFailsAfterLoss` | `ViewAssumption` |
| `Summed` | `Spec => []SummaryExact` | `ViewAssumption` |
| `WellRecorded` | `Spec => []Recorded` of `Diff`: the module stays one that can be built, and no name is on file twice | `DiffAssumption` |
| `TruthfulDiff`, `ExactLines` | `Spec => []DiffTruthful`, `Spec => []LinesExact` | `DiffAssumption` |
| `UntouchedIsKept`, `MissingRedone` | `Spec => UntouchedStays`, `Spec => MissingIsRedone` | `DiffAssumption` |
| `BuilderInvariant`, `ArgumentsAlwaysFit` | `BatchSpec => []Builder`, `BatchSpec => []ArgumentsFit` of `ModuleBuilder` | `BuilderAssumption` |
| `OrderInvariant`, `DeclarationsAlwaysRespected`, `NothingEverLost`, `OverflowAlwaysMeansCircle` | `BatchSpec => []Order`, `[]DeclarationsRespected`, `[]NothingLost`, `[]OverflowMeansCircle` of `ElementOrder` | `BuilderAssumption` |
| `BatchesInvariant`, `BatchesAlwaysRespected`, `EverythingAlwaysBatched` | `BatchSpec => []Batches`, `[]BatchesRespected`, `[]EverythingBatched` of `Batcher` | `BuilderAssumption` |

**The argument for nonces.** `InSequence(s)` says that no nonce of sender `s`
is used twice, and that none is left out unless the node refused a contract or
a call of his, whose nonce was taken by then (`Lost`). Whatever fails before
that, or after the transaction was sent, leaves no gap.
`NonceInv(s)` makes it inductive. `Exclusive`: of the lanes of a sender, only
one is between taking its turn and its answer, and that one has the key.
`LookedUp`: a lane with the answer of a lookup in its hands finds the map as
it was when it asked, so what it got is 0 and nobody has sent anything. That
is why the await between the test of the map and the write does no harm.
`Taken`: the nonces sent are below the one in the map, and all of those unless
one was lost. `Fresh`: a hook
that is about to call has no lane of that number, so no lane is ever restarted
under a lane that runs; this rests on hooks never going back, and so on no
batch running twice (`Idle`).

A sender who also signs contracts is another matter, for the loop over the
batches takes no key. `SignsFirst(s)` asks that one of his contracts is new in
a batch no later than the first hook that calls from him, which the `InOrder`
of `MCParallel` lets TLC see of `parallel`, with the other hypotheses of these
theorems. `Apart(s)` is the invariant behind
it: until such a contract is sent, nobody calls from him, so the loop alone
looks up and takes his nonces; afterwards his nonce is in the map, and nobody
looks it up at the node any more. A module in which his hooks call first and
his contract follows is not covered.

**The argument for addresses in time.** `NeedsInEarlierBatch` is what the
batcher is for. `BatchesAlwaysRespected` gives it for arguments and for hooks
after a deployment; for hooks before one, and where a library takes contracts,
it is an assumption, and the code breaks it for some modules (see below). What
the module config leaves out has no address, and is excepted.
`Placed`: a contract of a batch before the present one has its address or is
left out, and one of the present batch is ahead of the loop, sent, or one of
these. So a contract is sent, and a hook started, when the earlier batches are
through, and neither lacks an address but that of a contract left out
(`RefusedSkips`), whatever failed before.

**The argument for calls sent.** A hook goes on when the lane that does its call
resolves it, and a lane either sends the call or takes a receipt for its
answer; so all depends on no receipt being there that is not yet counted. A
receipt is counted in `progress` of its contract, but stored for one hook, in a
file that was read before an await, and other lanes write their copies over it.
`Counted` is the invariant: in whatever was read of the state, by anybody, no
hook has more receipts of a contract than the contract has progress, and fewer
while a call to it is waited for. The progress itself is written from what it
was when the lane had its turn; that nothing was added in between needs the
lanes that are at a call to this contract to have the same key, which is
`OneCaller` and `Queues`. `HaveCalls` says that a lane does calls of its sender
only, `Copies` that whoever is about to write has read, and `SentInv` follows
calls from the lane to the hook that went on, to the end of the hook and into
every copy of the file in which it is marked.

`OneCaller` is more than a device of the proof. When two senders call one
contract, their lanes have different keys and can be at it at once; the second
to store its input sets the progress back to what it had read, plus one. A call
made after that can find a receipt that looks unanswered, and is not sent. TLC
finds this with a hook that calls one contract from one sender, then another,
then the first, which `withSigner` allows, beside a hook with a call of its own
that starts the same pending calls once more.

**The argument for what is on record.** Everyone who writes the state file writes
back what he read before an await, with a change of his own. Nobody is in the
way because of turns: `Busy` is the set of those who have read the file or will
without waiting for anything outside - the loop while it does not wait, a hook
past its last call, a lane whose transaction was just sent or mined - and
`Alone` says that there is never more than one. Each step hands over from the
one who is busy to one other (a lane to the hook that waits for it, a hook that
ends to the loop), or starts one when nobody is (`QuietIdle`), since answers
from outside come one at a time. The exception is the start of a batch, when all
hooks without calls are at their end at once: hence `OneWithoutCalls`, with
`FirstCall` for those that have calls. `Held` follows from it: a copy that is
held is what the file says of addresses and hooks, and so is the memory
(`InSync`), but for the address the loop records. Receipts are another matter:
`StoreFinished` writes those the memory has, and what running hooks had stored
is lost until they end. TLC was given `Alone`, `FirstCall`, `Held` and `InSync`
on the instance of `parallel` before, and on two others in which a hook of one
batch, or one of each, makes no call; with two such hooks in the last batch it
finds `DoneMeansRecorded` violated.

**The argument for what is shown.** `Ticked` connects every tick with the
state file, `Spinning` the one spinner with the element in work, `LoggerKnows`
says that from the start of a module to its end the logger was told of it and
throws at nothing, `Blamed` that the message shown is of the kind of the error
that ended the run: the module, storing the state, a contract, a hook, missing
needs, the summary. It is not when storing the state failed, since the logger
then does not know the module, nor when an `onFail` hook fails. The assumption asks that hooks on failure have names of their own.
`Tally` makes the count exact: it is the number of elements passed that
are on record, and one that is passed is on record or was left out.
`Answered`: every input has its receipt but the one that is waited for, in
memory and on file, unless one was lost; the summary throws at nothing else.
The number of transactions in the summary comes from two states. `OnRecord`:
what is on file and is not in the old state was done by this deployment.
`LogsOfThis`: so were the receipts on file that the old state has not.
`SentByThis` counts: as long as no contract was made again that the old state
has and no hook begun that had receipts there (`Anew`), no call is replayed, and
what was sent are the contracts done, the calls of the hooks done and those
the present one has made. `Begun` says that all this is so after the resolver,
whatever earlier runs left, `Told` draws the sum at the end. Sums are recursive functions. That they exist, and what is
true of each of their values, is shown by the least number of which it is not
true (`Least`, from the library's theorem that `<` is well founded).

**The argument for `diff` and the resolver.** The resolver is a recursive
function over the positions of the module; `ResolveGoes` says it exists, and
`Loop` is its invariant, with a lemma per part and one for all the ways an
element can go (`StepCases`). `Kept`: what is kept is on file as what the
module says. `Unasked`: as long as the developer was asked nothing, an element
that is not kept has a cause, other code or an address that is missing from the
file. `OneGone`: an address the network lost is kept only when he says no, and
then it is the last one kept. `Unforced`: where nothing was lost, what is
unchanged is kept, and forgets its address only for a contract that changed and
takes it; `ForgottenArguments` shows that, through arguments of arguments
(`BackExists`). From the invariant at the end of the module, what `diff` prints
follows by cases, the first difference being that of the least position. What
the theorems leave out is what the code leaves out: `checkIfDiff` looks at no
more than the name of a hook (`module-resolver.ts:503`), so a hook that is on
file and was not executed is executed by the next deployment while `diff` is
silent; and a contract made again from the same bytecode has no line. The
assumption asks that the bindings of a module are no plain values and that the
name of the hook on failure is not one of them.

**The argument for modules.** `BuilderAssumption` says that names of
contracts, templates, hooks and numbers are different things, that a library
goes by the name of a binding, and that an integer has a positive number of
bits. Every theorem is about `BatchSpec`, the whole way from the first call to
the batches.

`Builder` is the invariant of the calls: a name is bound once, only what is
declared is named, and the lists a binding keeps of its hooks are those of the
hooks that are on it. `ArgumentsFit` follows from the check at the end of a
module, for every width, since the range the checker computes for a signed
type is `2^b \div 2 - 1`, of which one half is `2^(b-1)`; that the powers of
two exist as a recursive function, and are positive, is `Pow2Recursion`, from
the least number where they would not.

`Walking` is the invariant of the resolver, about what was added (`A`) and what
is to be done (`T`). `Placed`: what was added has before it what it has to wait
for. `ReadyToAdd`: what is to be added will have, since each thing it waits for
was added or has a call before it in the list. `AllCome`: every contract was
added or has a call, and where a contract will be added, its hooks after the
deployment come too. `Rounds` is what the overflow rests on. A call that met
itself while nothing was added came there through calls for what its contract
needs, for what that needs, and so on; and whatever set of contracts is closed
under needs and has the needs of the first contains all contracts on the way,
so also the contract itself. Calls that stand behind an element still to be
added are `Shielded`: they cannot be reached before something new was added,
and that ends the danger. Each action replaces the head of the list by the
calls it makes, and `ReplaceHead` says once for all what these have to satisfy
(`Block`); an element that is added is `AddHead`.

`Loop` is the invariant of the batcher. `Numbered`: no batch number below the
length is without an element, and what an element needs (arguments, and what a
hook after a deployment names) is in lower batches or in none that is executed. `Frames`: of the calls of `_handleElement` on the
stack, each is for an argument of the one below, so for one that comes earlier
in the order, and therefore never for one that is being handled; and only what
a library takes is handled within another. `Loops`: what has no batch is still
to be met by the loops, after all it waits for in the order, so that a hook
after the deployment finds the batches of what it names. This uses
`DeclarationsRespected` throughout: the batcher is right because the resolver
is. `LibrariesFirst` is about the other loop, which handles libraries before
anything else: a library is in the first batch, and once there is one, what is
no library comes after it (`Right`), unless a library takes it.

**The argument for expectations.** `ExpectationExact` is a full description:
accepted and executed only if expected and read value mean the same and are
`Comparable`, refused only if not; a comparison that throws is neither.
`Comparable` names the forms the code gets wrong (strings in different forms,
lists of `BigNumber`s, empty lists, what is read of a slot), for which nothing
else could be proved. Lemmas decide each pair of types by what
the comparison sees: `JudgesNumbers`, `JudgesAddresses`, `JudgesTexts` and
`JudgesLists`. `Checked` says that the last check is the verdict of the
expectation on what the contract held, `Counted` that transactions without a
receipt are those counted as lost.

**Only model-checked:**

* everything under fairness (`RunEnds`, `EventuallyServed`, `Settles`,
  `VerifiedAtLast`), which the prover does not reach;

## What the models leave out

* `txData.input` is kept only as the question whether a binding has it (all but
  those in `custom`); `logicallyDeployed` and `lastEventName` decide nothing
  that is modelled.
* Each write of the state file is one step, though `file-system.ts:62` writes
  in place and a killed process may leave half a file, and each read, change
  and write of the repository is one step, which is right as long as hooks run
  one after the other.
* What becomes of a transaction is decided when it is sent; `WaitFails` and
  `CallWaitFails` are the provider failing to tell. The chain forgets nothing:
  the check of `resolve` that the network has code at an address always
  answers yes.
* In `Deployment` all hooks send from one account as far as the lock is
  concerned, and the module has the same elements in every run; `ParallelRun`
  has several senders, `Diff` has edits of any kind.
* `Deployment` is `_executeSync`; the parallel executor is a module of its own.
* After an event the executor stores the bindings it depends on once more,
  with unchanged contents; in `ParallelRun`, where others write in between,
  these stores are steps.
* An error without an inner error makes the handler of
  `_sendTransaction` throw where nobody catches it (`executor.ts:806`);
  the model throws it normally.
* `ModuleBuilder`: names of contracts and hooks are disjoint, groups are not
  empty, `shouldRedeploy` and the force flag are those of `Deployment`, types
  other than addresses and integers are accepted or refused in the same way
  and left out, and so are parameters and custom services, and
  `proxySetNewLogic`.
* `ParallelRun`: hooks before a deployment, receipts on record from an earlier
  run, and contracts linked with libraries; failures of the state file, whole
  or in the middle of a write; and what the JavaScript engine does with a
  rejection nobody handles, which may end a process that is taken to wait for
  ever here. `Settles` says nothing of a deployment in which a hook throws or is
  refused, or one of its calls fails.
* `DeploymentView`: answers of a wrong network to `resolve`, and edits; what a
  summary then shows is that of `Resolved` with more contracts forgotten.
* Receipts that outlive a redeployment are met in `resume` and `calledOnce`, but
  `executed` and `replayTwice`, whose property they would break, have no edits;
  `RunEnds` is checked without hooks on failure.
* `Diff`: what is printed below a line, and the prompts other than the one
  about missing contracts.

Not modelled at all: the gas price and its backoff, which only wait; the
migration of `truffle` builds, marked for removal in the source; the
generation of typings and usage files, which reads artifacts and prints text;
the tasks of the Hardhat plugin, which ask for a file and call `deploy`,
`diff` and `genTypes`; the loggers that nothing constructs (only
`OverviewLogger` and `EmptyLogger` are); state files that a killed process
left half written.

### Known behaviour that no run shows

Of a sequential deployment:

* Contracts that take a redeployed contract as argument keep its old address,
  since the resolver walks from a contract to its arguments and not back
  (`module-resolver.ts:118`); a contract that failed to deploy, or a skipped one without an
  address, makes the next run forget the addresses of its arguments, which are
  then deployed again (`module-resolver.ts:125`).
* The receipts of a half-executed hook survive the redeployment of the
  contract they were for, and are then taken for those of calls to the new one
  (`module-resolver.ts:150`).
* Finishing an `onFail` hook writes the memory over the receipts of the hook
  that failed (`state-repo.ts:249`), so that its calls are repeated.
* A failed call never releases the key of its sender
  (`event-executor.ts:112`); an `onFail` hook that sends waits for ever.
* Plain transfers are not replayed (`hardhat-ignition.ts:1351`): a hook that
  pays and is resumed pays again.
* A deploy function does not survive the state file: a contract made by one
  and taken as argument by another is deployed as an ordinary contract when
  its address was forgotten. Calls a deploy function made before a crash are
  made again, since its event is not resolved.
* Hooks on start and on completion run once and not in every run
  (`handler.ts:218`), against `docs/concepts/module_builder/events.md:41` and
  `:45`; and those on completion do not run after an error, against
  `hardhat-ignition.ts:1866`.

Of the builder, the order and the batches:

* The resolver runs `beforeCompile` and `afterCompile` hooks where it meets
  them, not in the order of `docs/concepts/module_builder/events.md:6-9`.
* Hooks before the deployment of a contract do not wait for the contracts they
  use, and a hook declared on hooks alone that no contract leads to is never
  scheduled.
* The name of a contract given twice ends the process (`cli.exit(0)`) and not
  the declaration. The smallest value of a signed type, -2^(b-1), is refused
  by `checker.ts`, and a parameter of type `uint[]` is taken for an integer.
* The batcher knows nothing of what deploy functions use, nor of libraries
  that link to libraries; a library with contracts among its arguments gets
  the batch `NaN`, unless these were batched before it, and is never deployed;
  a contract it takes may end there as well, when that takes others. A hook
  before the deployment that uses what has a later batch than something it
  depends on, and a hook after it that uses a hook not scheduled before it, make the
  batcher throw on a module that the sequential executor deploys. `onSuccess` hooks run in the first
  batch, against `events.md:49`, as do all hooks of the module.

Of the parallel executor:

* It throws a `TypeError` at a contract with a deploy function
  (`executor.ts:352`), and what a batch sent before one of its contracts
  failed is never recorded.
* A nonce is taken before the transaction is signed and sent
  (`manager.ts:109`); one that the node refused leaves a gap in the nonces this
  process goes on with, for hooks on failure among others.
* An error in a hook is neither resolved nor rejected
  (`executor.ts:404`): the deployment waits for ever.
* Hooks of a batch execute each other's pending calls
  (`event-executor.ts:78`). This may send a call twice and, when two senders
  call one contract, mark a hook as executed whose call was answered by the
  receipt of another and never sent.
* Two hooks of the last batch that make no calls may leave the file behind,
  with one of them not marked as executed: what the other writes at its end
  (`storeSingleBinding`) was read before the first was marked.
* `index.ts` asks whether to run it experimentally without awaiting the
  answer.

Of what is shown:

* The summary pairs inputs and receipts by position and throws when an input
  has no receipt (`module-deployment-summary.ts:117`): a complete deployment is
  reported as failed. Transactions of `onSuccess` and `onCompletion` hooks are
  not counted, nor is a contract that was deployed again as an argument
  (`module-resolver.ts:125`); those a hook sent in an earlier run are, when it
  is executed in this one.
* An error before the module was started is replaced by
  `ModuleContextMissingInLogger` if there are hooks on failure; a transaction
  that was refused is logged as sent (`executor.ts:808`); `genTypes` always
  ends with an error under the default logger (`index.ts:358`).
* `diff` says that nothing changed while a hook on record is pending
  (`module-resolver.ts:503`), and though contracts are missing on the network; always says that a contract with contracts among its arguments
  changed, with no line for it; has no lines for what was removed; says
  nothing when two contracts of the same code swap names; throws a `TypeError`
  where a hook took the place of a contract; and leaves the module object
  initialised, so that a deployment of the same object ends at once. Answering
  no about missing contracts keeps the dead address of the first of them. The
  tasks `ignition:diff` and `ignition:genTypes` do not await the script they
  load (`src/packages/ignition-hardhat-plugin/src/index.ts:123`).

Of macros and expectations:

* A number never equals what is read of a slot, and lists of `BigNumber`s and
  empty lists never equal anything; the graceful expectation may throw,
  against its comment; `sendAfterDeploy` takes the last element out of the
  array its caller passed. A resumed setter is replayed, so a change that
  somebody else made in between is refused for ever.

## Plan

Done, in the order of what mattered most: `Deployment` with its invariant and
safety proofs; `Checklist` and `FifoLock` with the refinements by `Deployment`
and `KeyMutex`; `ElementOrder` and `Batcher` over all small modules, behind
`ModuleBuilder`; `ParallelRun` with its nonces; `DeploymentView`; `Diff`;
`Mutator`; the proofs about the last four; the proofs about builder, order and
batches.

Left:

1. `ParallelRun` against `Checklist`, of which the order would have to become
   one of batches.
2. Hooks before a deployment and receipts of earlier runs in `ParallelRun`.
3. A file that a killed process left half written, and what the next run makes
   of it.
4. The gas price backoff, which is asked for before the price is known
   (`manager.ts:120`).
