--------------------------------- MODULE Diff ---------------------------------
(***************************************************************************)
(* A module that is edited between deployments, the state file the         *)
(* resolver compares it with, and the diff command, which tells the        *)
(* developer what a deployment would change.                               *)
(*                                                                         *)
(* The resolver looks elements up by name, diff compares by position.      *)
(***************************************************************************)
EXTENDS Integers, Sequences, FiniteSets

CONSTANTS
  Names,    \* of contracts and hooks
  Codes,    \* bytecode a contract may be compiled to
  Values,   \* plain constructor arguments
  AtEnds,   \* event types of the hooks of the module: "onStart" or at its end
  Initial,  \* the module as it is written first
  FailHook, \* the name of its onFail hook
  MaxEdits  \* bound on the edits of the module

VARIABLES
  module, \* the elements in the order of the resolver
  file,   \* the state file, in the order of its keys
  made,   \* what each contract on the network was made of
  last,   \* what the last deployment created, and what it was answered
  report, \* what diff printed last
  edits

vars == <<module, file, made, last, report, edits>>

None == "none"
NameSet(m) == {m[i].name : i \in DOMAIN m}
At(m, n) == m[CHOOSE i \in DOMAIN m : m[i].name = n]
Pos(n) == CHOOSE i \in DOMAIN module : module[i].name = n
Smaller(a, b) == IF a < b THEN a ELSE b

(* code is the bytecode of a contract and the event type of a hook.        *)
Contract(n, code, on) == [name |-> n, kind |-> "contract", code |-> code, on |-> on]
Event(n, type, on) == [name |-> n, kind |-> "event", code |-> type, on |-> on]
Stage(e) == IF e.kind = "contract" \/ e.on # None THEN 1 ELSE IF e.code = "onStart" THEN 0 ELSE 2
(* Arguments, and the contracts of hooks, come first; hooks on start come  *)
(* before everything else, those on success and completion after it.       *)
WellFormed(m) ==
  /\ \A i, j \in DOMAIN m : i # j => m[i].name # m[j].name
  /\ \A i, j \in DOMAIN m : i < j => Stage(m[i]) <= Stage(m[j])
  /\ \A i \in DOMAIN m :
       \/ m[i].on \in (IF m[i].kind = "event" THEN {None} ELSE Values)
       \/ \E j \in 1 .. i - 1 : m[j].kind = "contract" /\ m[j].name = m[i].on
Elements == {Contract(n, c, a) : n \in Names, c \in Codes, a \in Values \cup Names}
            \cup {Event(n, "afterDeploy", a) : n \in Names, a \in Names}
            \cup {Event(n, t, None) : n \in Names, t \in AtEnds}
(* A binding given as argument is no plain value.                          *)
ASSUME DiffAssumption ==
  /\ Initial \in Seq(Elements) /\ WellFormed(Initial)
  /\ FailHook \notin Names /\ Names \cap (Values \cup {None}) = {}

Without(m, i) == SubSeq(m, 1, i - 1) \o SubSeq(m, i + 1, Len(m))
With(m, i, e) == SubSeq(m, 1, i - 1) \o <<e>> \o SubSeq(m, i, Len(m))

(***************************************************************************)
(* The resolver.  f is the state file, whose elements it changes on the    *)
(* way; keep the elements that stay; always the developer's answer to      *)
(* contracts missing on the network; blank the file dropped in reply.      *)
(***************************************************************************)
(* The addresses that are forgotten when this contract is made again: the  *)
(* arguments that have one, and theirs.                                    *)
Forgotten(f, keep, n) ==
  LET from[i \in DOMAIN module] ==
        LET a == module[i].on
        IN IF a \in keep /\ At(f, a).address # None THEN {a} \cup from[Pos(a)] ELSE {}
  IN from[Pos(n)]
(* A slip: everything after it is forgotten, too.                          *)
InvalidatedAll(f, keep, n) ==
  [i \in DOMAIN f |-> IF f[i].name # n THEN [f[i] EXCEPT !.address = None] ELSE f[i]]
Invalidated(f, keep, n) ==
  LET lost == Forgotten(f, keep, n)
      hooks == {e.name : e \in {module[i] : i \in {j \in DOMAIN module :
                  module[j].kind = "event" /\ module[j].on \in lost \cup {n}}}}
  IN [i \in DOMAIN f |->
        IF f[i].name \in lost THEN [f[i] EXCEPT !.address = None]
        ELSE IF f[i].name \in hooks /\ f[i].kind = "event" THEN [f[i] EXCEPT !.executed = FALSE]
        ELSE f[i]]

(* An element on file must be of the kind, and a hook of the type, it is   *)
(* in the module; hooks are not looked at once everything is made again.   *)
Misfit(s, rec, e) ==
  IF rec.kind = "contract" THEN e.kind # "contract"
  ELSE s.always # "yes" /\ (e.kind # "event" \/ rec.code # e.code)
Asked(s, rec) == s.always = None /\ rec.address = "gone"
(* A slip: the answer counts for the contract it was asked for.            *)
AgainUnasked(always, rec, e) == rec.code # e.code \/ rec.address = None
Again(always, rec, e) == always = "yes" \/ rec.code # e.code \/ rec.address = None

ResolveContract(s, rec, e, answer) ==
  LET always == IF Asked(s, rec) THEN answer ELSE s.always
      blank == Asked(s, rec) /\ answer = "no"
  IN IF ~Again(always, rec, e)
     THEN [s EXCEPT !.keep = @ \cup {e.name}, !.always = always, !.blank = blank]
     ELSE IF blank
     THEN [s EXCEPT !.always = always, !.blank = blank,
                    !.threw = Forgotten(s.f, s.keep, e.name) # {}]
     ELSE [s EXCEPT !.always = always, !.f = Invalidated(@, s.keep, e.name)]
ResolveElement(s, e, answer) ==
  IF s.threw \/ s.blank \/ e.name \notin NameSet(s.f) THEN s
  ELSE LET rec == At(s.f, e.name)
       IN IF Misfit(s, rec, e) THEN [s EXCEPT !.threw = TRUE]
          ELSE IF rec.kind # e.kind THEN s
          ELSE IF e.kind = "contract" THEN ResolveContract(s, rec, e, answer)
          ELSE IF s.always = "yes" THEN s ELSE [s EXCEPT !.keep = @ \cup {e.name}]
Resolve(answer) ==
  LET after[i \in 0 .. Len(module)] ==
        IF i = 0 THEN [f |-> file, keep |-> {}, always |-> None, blank |-> FALSE, threw |-> FALSE]
        ELSE ResolveElement(after[i - 1], module[i], answer)
  IN after[Len(module)]

New(e) == [name |-> e.name, kind |-> e.kind, code |-> e.code, on |-> e.on,
           address |-> None, executed |-> FALSE]
(* What is kept keeps its address, and takes its arguments from the module.*)
Resolved(s) ==
  [i \in DOMAIN module |->
     IF module[i].name \notin s.keep THEN New(module[i])
     ELSE LET rec == At(s.f, module[i].name)
          IN [New(module[i]) EXCEPT !.address = rec.address, !.executed = rec.executed]]
Finished(e) ==
  IF e.kind = "event" THEN [e EXCEPT !.executed = TRUE]
  ELSE IF e.address = None THEN [e EXCEPT !.address = "live"] ELSE e
ToDo(e) == Finished(e) # e

(***************************************************************************)
(* diff                                                                    *)
(***************************************************************************)
(* An argument that is a contract is another object than the one on file.  *)
CheckArgs(old, new) == old.on = new.on /\ old.on \in Values
Both(old, new, kind) == old.kind = kind /\ new.kind = kind
(* A slip: the address is not looked at.                                   *)
CompareCode(old, new) ==
  IF Both(old, new, "contract")
  THEN IF old.code # new.code \/ ~CheckArgs(old, new) THEN "changed" ELSE "nothing"
  ELSE IF Both(old, new, "event")
  THEN IF old.name # new.name /\ ~new.executed THEN "changed" ELSE "nothing"
  ELSE "threw"
Compare(old, new) ==
  IF Both(old, new, "contract")
  THEN IF old.code # new.code \/ ~CheckArgs(old, new) \/ old.address = None
       THEN "changed" ELSE "nothing"
  ELSE IF Both(old, new, "event")
  THEN IF old.name # new.name /\ ~new.executed THEN "changed" ELSE "nothing"
  ELSE "threw"
CheckIfDiff(old, new) ==
  IF Len(old) # Len(new) THEN "changed"
  ELSE LET found == {i \in DOMAIN old : Compare(old[i], new[i]) # "nothing"}
       IN IF found = {} THEN "nothing"
          ELSE LET i == CHOOSE i \in found : \A j \in found : i <= j
               IN Compare(old[i], new[i])

Modified(old, new) ==
  \/ Both(old, new, "contract") /\ old.code # new.code
  \/ Both(old, new, "event") /\ (old.code # new.code \/ old.name # new.name \/ ~old.executed)
(* A slip: the last one is left out.                                       *)
PrintDiffShort(old, new) ==
  {<<"~", new[i].name>> : i \in {j \in 1 .. Smaller(Len(old), Len(new)) : Modified(old[j], new[j])}}
  \cup {<<"+", new[i].name>> : i \in Len(old) + 1 .. Len(new) - 1}
PrintDiff(old, new) ==
  {<<"~", new[i].name>> : i \in {j \in 1 .. Smaller(Len(old), Len(new)) : Modified(old[j], new[j])}}
  \cup {<<"+", new[i].name>> : i \in Len(old) + 1 .. Len(new)}

NoneYet == [answer |-> None, sent |-> {}]
NoReport == [said |-> None, lines |-> {}, old |-> <<>>, new |-> <<>>, asked |-> FALSE]
(* Who is not asked answers either way.                                    *)
Answers == IF \E i \in DOMAIN file : file[i].address = "gone" THEN {"yes", "no"} ELSE {"yes"}
Diff ==
  /\ report = NoReport
  /\ \E answer \in Answers :
       LET s == Resolve(answer)
           new == Resolved(s)
           said == IF s.threw THEN "threw" ELSE CheckIfDiff(s.f, new)
       IN report' = [said |-> said, old |-> s.f, new |-> new, asked |-> s.always # None,
                     lines |-> IF said = "changed" THEN PrintDiff(s.f, new) ELSE {}]
  /\ UNCHANGED <<module, file, made, last, edits>>

(***************************************************************************)
(* Deployments, of which Deployment has the steps: the first k elements    *)
(* are finished; an error runs the onFail hook, a crash does not.          *)
(***************************************************************************)
Deploy ==
  /\ \E answer \in Answers :
       LET s == Resolve(answer)
           new == Resolved(s)
           hook == [New(Event(FailHook, None, None)) EXCEPT !.executed = TRUE]
       IN /\ ~s.threw
          /\ \E k \in 0 .. Len(module), failed \in BOOLEAN :
               LET todo == {i \in 1 .. k : ToDo(new[i])}
               IN /\ failed => k < Len(module)
                  /\ file' = [i \in DOMAIN new |-> IF i \in todo THEN Finished(new[i]) ELSE new[i]]
                             \o (IF failed THEN <<hook>> ELSE <<>>)
                  /\ last' = [answer |-> s.always,
                              sent |-> {new[i].name : i \in {j \in todo : new[j].kind = "contract"}}]
  /\ made' = [n \in Names |-> IF n \in last'.sent THEN At(module, n) ELSE made[n]]
  /\ report' = NoReport /\ UNCHANGED <<module, edits>>

(* The network is a local one and is started anew.                         *)
Reset ==
  /\ \E i \in DOMAIN file : file[i].address = "live"
  /\ file' = [i \in DOMAIN file |->
                IF file[i].address = "live" THEN [file[i] EXCEPT !.address = "gone"] ELSE file[i]]
  /\ last' = NoneYet /\ report' = NoReport /\ UNCHANGED <<module, made, edits>>

(* The developer adds, removes, moves or changes an element.               *)
Edit ==
  /\ edits < MaxEdits /\ edits' = edits + 1
  /\ \E i \in 1 .. Len(module) + 1 :
       \/ \E e \in Elements : module' = With(module, i, e)
       \/ i <= Len(module) /\
            \/ module' = Without(module, i)
            \/ \E e \in Elements : module' = [module EXCEPT ![i] = e]
            \/ \E j \in DOMAIN module : module' = With(Without(module, i), j, module[i])
  /\ module' # module /\ WellFormed(module')
  /\ last' = NoneYet /\ report' = NoReport /\ UNCHANGED <<file, made>>

Init ==
  /\ module = Initial /\ file = <<>> /\ made = [n \in Names |-> Event(n, None, None)]
  /\ last = NoneYet /\ report = NoReport /\ edits = 0
Next == Diff \/ Deploy \/ Reset \/ Edit
Spec == Init /\ [][Next]_vars

(***************************************************************************)
(* Properties.                                                             *)
(***************************************************************************)
Untouched(n) ==
  /\ n \in NameSet(file) \cap NameSet(module)
  /\ LET rec == At(file, n)
     IN rec.kind = "contract" /\ rec.kind = At(module, n).kind
        /\ rec.code = At(module, n).code /\ rec.address = "live"
(* The contracts a contract takes as argument, and theirs.                 *)
Arguments == [i \in DOMAIN module |->
                {module[j].name : j \in {k \in 1 .. i - 1 : module[k].name = module[i].on}}]
AllArguments ==
  LET all[i \in DOMAIN module] ==
        Arguments[i] \cup UNION {all[Pos(n)] : n \in Arguments[i]}
  IN all
(* Whatever becomes of its neighbours, a contract that is deployed and     *)
(* unchanged is not made again, unless contracts are missing on the        *)
(* network or it is an argument of one that is made again.                 *)
UntouchedStays ==
  [][\A n \in last'.sent :
       Untouched(n) => \/ \E i \in DOMAIN file : file[i].address = "gone"
                       \/ \E i \in DOMAIN module :
                            /\ module[i].kind = "contract" /\ ~Untouched(module[i].name)
                            /\ n \in AllArguments[i]]_<<file, last>>

(* A deployment leaves no contract on record that is missing on the        *)
(* network, if the developer goes on when told so.  Whoever says no keeps  *)
(* the address of the first that is missing, and of that one alone.        *)
Missing == {i \in DOMAIN file : file[i].address = "gone"}
MissingIsRedone ==
  [][last' # NoneYet => Cardinality(Missing') <= (IF last'.answer = "no" THEN 1 ELSE 0)]_<<file, last>>

(* When diff says that nothing changed and no contract is missing on the   *)
(* network, a deployment does nothing to an element that has its place on  *)
(* file, but for hooks on record that were not executed: it executes them, *)
(* although diff is silent (checkIfDiff compares the names of hooks and no *)
(* more, module-resolver.ts:503).  Elements that moved or have another     *)
(* name may be deployed, too: diff goes by position.                       *)
SilentKeepsTheRest ==
  report.said = "nothing" /\ ~report.asked =>
    \A i \in DOMAIN report.new :
      report.new[i].name = report.old[i].name /\ ToDo(report.new[i]) =>
        report.new[i].kind = "event" /\ ~report.old[i].executed

(* diff says that something changed only if a deployment would do          *)
(* something, elements moved or are gone, or an argument is a contract or  *)
(* was changed, which no deployment takes notice of: false alarms are of   *)
(* these three kinds.                                                      *)
AlarmHasCause ==
  report.said = "changed" =>
    \/ \E i \in DOMAIN report.new : ToDo(report.new[i])
    \/ [i \in DOMAIN report.old |-> report.old[i].name]
         # [i \in DOMAIN report.new |-> report.new[i].name]
    \/ \E i \in DOMAIN report.new :
         report.new[i].kind = "contract"
         /\ (report.new[i].on \notin Values \/ report.new[i].on # report.old[i].on)

(* What diff says in one word is what a deployment would do, but for the   *)
(* pending hooks and false alarms named above.                             *)
DiffTruthful == SilentKeepsTheRest /\ AlarmHasCause

(* When diff says that something changed, elements were only appended and  *)
(* no contract is missing on the network, its lines name what a deployment *)
(* would do and nothing else; contracts that are made again from the same  *)
(* bytecode, for want of an address, have none.  Where it says that        *)
(* nothing changed there are no lines, for pending hooks either.           *)
Appended == \A i \in 1 .. Len(report.old) :
              i <= Len(report.new) /\ report.old[i].name = report.new[i].name
LinesExact ==
  report.said = "changed" /\ Appended /\ ~report.asked =>
    {line[2] : line \in report.lines} =
      {report.new[i].name : i \in {j \in DOMAIN report.new :
         /\ ToDo(report.new[j])
         /\ j <= Len(report.old) /\ report.new[j].kind = "contract" =>
              report.old[j].code # report.new[j].code}}

(* When diff says that nothing changed, what is deployed is what the       *)
(* module says, but for names.                                             *)
SilentMeansSame ==
  report.said = "nothing" =>
    \A i \in DOMAIN module :
      module[i].kind = "contract" /\ module[i].name \in NameSet(file) =>
        made[module[i].name] = module[i]
===============================================================================
