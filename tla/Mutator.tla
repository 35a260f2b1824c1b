-------------------------------- MODULE Mutator --------------------------------
(***************************************************************************)
(* The hook that sendAfterDeploy writes: it calls a setter of a contract   *)
(* and expects the getter, or a storage slot, to tell the value back.  The *)
(* hook may be interrupted and resumed; its call is then replayed, and its *)
(* expectation is held against the contract as it is now.                  *)
(*                                                                         *)
(* A JavaScript value is modelled by what comparisons see of it: its kind, *)
(* its meaning, and the form of a string.  Strings have more than one      *)
(* character, so that none is taken for the list of its characters.        *)
(***************************************************************************)
EXTENDS Integers, Sequences

CONSTANTS
  Meanings,  \* integers that a contract may hold
  MaxSends,  \* bound on the transactions of the hook
  MaxFails,  \* bound on the interruptions
  MaxOthers  \* bound on the transactions of others

VARIABLES
  hook,    \* what the hook was written with: type, value, expected, via
  at,      \* how far it is in this run
  stored,  \* what the contract holds
  receipt, \* the receipt of its call is on record
  lost,    \* transactions whose receipt was never recorded
  sends, fails, others,
  check    \* the last check: how it ended, and what was read

vars == <<hook, at, stored, receipt, lost, sends, fails, others, check>>

(***************************************************************************)
(* Values.                                                                 *)
(***************************************************************************)
Undefined == [is |-> "undefined"]
Number(n) == [is |-> "number", n |-> n]
BigNumber(n) == [is |-> "BigNumber", n |-> n]
Binding(n) == [is |-> "binding", n |-> n]
String(form, n) == [is |-> "string", form |-> form, n |-> n]
Array(s) == [is |-> "array", items |-> s]

HasLength(v) == v.is \in {"string", "array"}
Items(v) == IF v.is = "array" THEN v.items ELSE <<v>>
IsNumeric(v) == v.is \in {"number", "BigNumber"} \/ (v.is = "string" /\ v.form # "text")
(* === : objects are the same only if they are one.                        *)
Same(v, w) == v = w /\ v.is \in {"number", "string", "undefined"}

(* What a contract takes a value for.                                      *)
Means(v) == IF v.is = "array" THEN [i \in DOMAIN v.items |-> v.items[i].n] ELSE <<v.n>>

(* What the getter of a contract that holds d returns, by its type.        *)
Read(type, d) ==
  CASE type = "uint" -> BigNumber(d[1])
    [] type = "uint8" -> Number(d[1])
    [] type = "address" -> String("address", d[1])
    [] type = "string" -> String("text", d[1])
    [] type = "uints" -> Array([i \in DOMAIN d |-> BigNumber(d[i])])
    [] type = "addresses" -> Array([i \in DOMAIN d |-> String("address", d[i])])
(* The 32 bytes of its slot, in hexadecimal.                               *)
Slot(d) == String("word", d[1])

Settable(type) ==
  CASE type \in {"uint", "uint8"} ->
         {Number(n) : n \in Meanings} \cup {BigNumber(n) : n \in Meanings}
         \cup {String(f, n) : f \in {"decimal", "word"}, n \in Meanings}
    [] type = "address" ->
         {Binding(n) : n \in Meanings} \cup {String(f, n) : f \in {"address", "lowercase"}, n \in Meanings}
    [] type = "string" -> {String("text", n) : n \in Meanings}
    [] type = "uints" -> {Array(<<>>)} \cup {Array(<<Number(n)>>) : n \in Meanings}
                         \cup {Array(<<BigNumber(n), BigNumber(m)>>) : n, m \in Meanings}
    [] type = "addresses" -> {Array(<<>>)} \cup {Array(<<String("address", n), String("address", m)>>) : n, m \in Meanings}
Single == {"uint", "uint8", "address", "string"}
Types == Single \cup {"uints", "addresses"}

(***************************************************************************)
(* Expectations.  "threw" is an error of BigNumber itself.                 *)
(***************************************************************************)
(* BigNumber.eq                                                            *)
Eq(v, w) == IF ~IsNumeric(w) THEN "threw" ELSE IF v.n = w.n THEN "accepted" ELSE "refused"
(* A slip: the loop returns after the first item.                          *)
SameItemsFirst(v, w) == Len(v) = Len(w) /\ Same(v[1], w[1])
SameItems(v, w) == Len(v) = Len(w) /\ \A i \in DOMAIN v : Same(v[i], w[i])
CompareItems(v, w) == IF SameItems(Items(v), Items(w)) THEN "accepted" ELSE "refused"
WithItems(v) == HasLength(v) /\ Len(Items(v)) > 0

IsAddress(value, expected) ==
  expected.is = "binding" /\ value = String("address", expected.n)
ExpectFuncRead(expected, value) ==
  CASE expected = Undefined -> "accepted"
    [] IsAddress(value, expected) -> "accepted"
    [] WithItems(value) /\ WithItems(expected) -> CompareItems(value, expected)
    [] expected.is = "BigNumber" /\ Eq(expected, value) # "refused" -> Eq(expected, value)
    [] expected.is # "BigNumber" /\ value.is = "BigNumber" /\ Eq(value, expected) # "refused" ->
         Eq(value, expected)
    [] OTHER -> IF Same(expected, value) THEN "accepted" ELSE "refused"
(* A slip: items are not compared.                                         *)
GracefulExpectLoose(expected, value) ==
  IF WithItems(value) /\ WithItems(expected) THEN "true"
  ELSE CASE ExpectFuncRead(expected, value) = "accepted" -> "true"
         [] ExpectFuncRead(expected, value) = "refused" -> "false"
         [] OTHER -> "threw"
GracefulExpectFuncRead(expected, value) ==
  CASE expected = Undefined \/ IsAddress(value, expected) -> "true"
    [] WithItems(value) /\ WithItems(expected) ->
         IF SameItems(Items(value), Items(expected)) THEN "true" ELSE "false"
    [] expected.is = "BigNumber" /\ Eq(expected, value) # "refused" ->
         IF Eq(expected, value) = "threw" THEN "threw" ELSE "true"
    [] expected.is # "BigNumber" /\ value.is = "BigNumber" /\ Eq(value, expected) # "refused" ->
         IF Eq(value, expected) = "threw" THEN "threw" ELSE "true"
    [] OTHER -> IF Same(expected, value) THEN "true" ELSE "false"
ExpectSlotRead(expected, value) ==
  CASE expected = Undefined -> "accepted"
    [] expected.is = "binding" /\ expected.n = value.n -> "accepted"
    [] WithItems(expected) -> CompareItems(value, expected)
    [] expected.is = "BigNumber" -> Eq(expected, value)
    [] OTHER -> "refused"

(***************************************************************************)
(* The hook.                                                               *)
(***************************************************************************)
NoCheck == [result |-> "none", value |-> Undefined]
(* Without an option the value that is set is the one that is expected.    *)
SendAfterDeploy(type, value, opts) ==
  [type |-> type, value |-> value, via |-> opts.via,
   expected |-> IF opts.expected = Undefined THEN value ELSE opts.expected]
Init ==
  /\ \E type \in Types : \E value \in Settable(type), other \in Settable(type) \cup {Undefined} :
       \E via \in IF type \in {"uint", "uint8", "address"} THEN {"getter", "slot"} ELSE {"getter"} :
         hook = SendAfterDeploy(type, value, [via |-> via, expected |-> other])
  /\ at = "idle" /\ stored = (IF hook.type \in Single THEN <<0>> ELSE <<>>)
  /\ receipt = FALSE /\ lost = 0 /\ sends = 0 /\ fails = 0 /\ others = 0 /\ check = NoCheck

Run == at = "idle" /\ at' = "setting" /\ check' = NoCheck
       /\ UNCHANGED <<hook, stored, receipt, lost, sends, fails, others>>
(* A slip: a call that was made before ends the hook.                      *)
ReplayEnds == at = "setting" /\ receipt /\ at' = "idle"
              /\ UNCHANGED <<hook, stored, receipt, lost, sends, fails, others, check>>
(* The call is the only one of the hook: a receipt on record is returned.  *)
Replay == at = "setting" /\ receipt /\ at' = "checking"
          /\ UNCHANGED <<hook, stored, receipt, lost, sends, fails, others, check>>
(* A slip: receipts are not looked for.                                    *)
SetAlways ==
  /\ at = "setting" /\ sends < MaxSends
  /\ sends' = sends + 1 /\ at' = "sent" /\ stored' = Means(hook.value)
  /\ UNCHANGED <<hook, receipt, lost, fails, others, check>>
(* The contract may have its own idea of a value.                          *)
Set ==
  /\ at = "setting" /\ ~receipt /\ sends < MaxSends
  /\ sends' = sends + 1 /\ at' = "sent" /\ stored' \in {Means(hook.value), stored}
  /\ UNCHANGED <<hook, receipt, lost, fails, others, check>>
Confirm == at = "sent" /\ at' = "checking" /\ receipt' = TRUE
           /\ UNCHANGED <<hook, stored, lost, sends, fails, others, check>>
Expectation ==
  IF hook.via = "slot" THEN ExpectSlotRead(hook.expected, Slot(stored))
  ELSE ExpectFuncRead(hook.expected, Read(hook.type, stored))
Check ==
  /\ at = "checking"
  /\ check' = [result |-> Expectation,
               value |-> IF hook.via = "slot" THEN Slot(stored) ELSE Read(hook.type, stored)]
  /\ at' = IF Expectation = "accepted" THEN "executed" ELSE "idle"
  /\ UNCHANGED <<hook, stored, receipt, lost, sends, fails, others>>
(* The process dies, or does not learn what became of its transaction.     *)
Fail ==
  /\ at \in {"setting", "sent", "checking"} /\ at' = "idle"
  /\ fails < MaxFails /\ fails' = fails + 1
  /\ lost' = IF at = "sent" THEN lost + 1 ELSE lost
  /\ UNCHANGED <<hook, stored, receipt, sends, others, check>>
(* Somebody else calls the setter.                                         *)
Other ==
  /\ others < MaxOthers /\ others' = others + 1
  /\ \E v \in Settable(hook.type) : stored' = Means(v)
  /\ UNCHANGED <<hook, at, receipt, lost, sends, fails, check>>
Next == Run \/ Replay \/ Set \/ Confirm \/ Check \/ Fail \/ Other
Spec == Init /\ [][Next]_vars /\ WF_vars(Run \/ Replay \/ Set \/ Confirm \/ Check)

(***************************************************************************)
(* Properties.                                                             *)
(***************************************************************************)
(* The pairs of values the comparisons can tell to be the same.  Not among *)
(* them are lists of numbers, empty lists, and a string with a number or   *)
(* with a string in another form, which are never found to be the same.    *)
Comparable(expected, value) ==
  \/ {expected.is, value.is} \cap {"BigNumber"} # {} /\ IsNumeric(expected) /\ IsNumeric(value)
  \/ expected.is = value.is /\ expected.is = "number"
  \/ expected.is = "binding"
  \/ expected.is = "string" /\ value.is = "string" /\ expected.form = value.form
  \/ /\ expected.is = "array" /\ Len(expected.items) > 0
     /\ \A i \in DOMAIN expected.items : expected.items[i].is = "string"
Agree == Means(check.value) = Means(hook.expected) /\ Comparable(hook.expected, check.value)

(* A hook on record as executed has seen the contract hold what was        *)
(* expected, in a form that can be compared; a hook whose expectation      *)
(* fails has read something else, or a form that cannot.  Comparisons that *)
(* throw judge nothing.                                                    *)
ExpectationExact ==
  /\ at = "executed" => Agree
  /\ check.result = "accepted" => Agree
  /\ check.result = "refused" => ~Agree

(* The graceful expectation and the strict one agree on what was read.     *)
GracefulAgrees ==
  check.value # Undefined /\ hook.via = "getter" =>
    (GracefulExpectFuncRead(hook.expected, check.value) = "true") = (check.result = "accepted")

(* The setter is called once, and once more for each receipt that was      *)
(* lost, however often the expectation fails.                              *)
SetOnce == sends <= 1 + lost

(* A hook that is run again and again, on a contract that took its value   *)
(* and that nobody else changes any more, is executed at last if the value *)
(* can be compared with what is read.                                      *)
Value == IF hook.via = "slot" THEN Slot(stored) ELSE Read(hook.type, stored)
Holds == Means(Value) = Means(hook.expected) /\ Comparable(hook.expected, Value)
VerifiedAtLast ==
  <>[](receipt /\ Holds) => <>(at = "executed")
================================================================================
