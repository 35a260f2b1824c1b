----------------------------- MODULE MutatorProofs -----------------------------
(***************************************************************************)
(* Proofs about Mutator, for every set of meanings and any number of       *)
(* transactions and interruptions: that an expectation tells apart what it *)
(* should, that the graceful form agrees with it, and that the setter is   *)
(* called once.                                                            *)
(***************************************************************************)
EXTENDS Mutator, TLAPS

(***************************************************************************)
(* The expectations as functions of two values.                            *)
(***************************************************************************)
(* The graceful expectation is true where the strict one accepts.          *)
LEMMA SameVerdict ==
  ASSUME NEW e, NEW v
  PROVE  (GracefulExpectFuncRead(e, v) = "true") = (ExpectFuncRead(e, v) = "accepted")
<1>1. Eq(e, v) \in {"threw", "accepted", "refused"} /\ Eq(v, e) \in {"threw", "accepted", "refused"}
  BY DEF Eq
<1>2. CompareItems(v, e) = IF SameItems(Items(v), Items(e)) THEN "accepted" ELSE "refused"
  BY DEF CompareItems
<1>3. QED
  BY <1>1, <1>2 DEF GracefulExpectFuncRead, ExpectFuncRead

(* A value with one meaning.                                               *)
Numbers == {"number", "BigNumber", "binding"}
Plain(v) == \/ \E n : v \in {Number(n), BigNumber(n), Binding(n)}
            \/ \E f, n : v = String(f, n)

(* What a contract may hold, by type.                                      *)
Fits(type, d) == IF type \in Single THEN \E n : d = <<n>> ELSE \E S : d \in Seq(S)

(* When an expectation and what was read of a contract stand for the same. *)
Judged(result, e, v) ==
  /\ result = "accepted" => Means(v) = Means(e) /\ Comparable(e, v)
  /\ result = "refused" => Means(v) # Means(e) \/ ~Comparable(e, v)

(* A number is read as a number of ethers or of JavaScript.                *)
LEMMA JudgesNumbers ==
  ASSUME NEW type \in {"uint", "uint8"}, NEW e \in Settable(type), NEW m
  PROVE  /\ Judged(ExpectFuncRead(e, Read(type, <<m>>)), e, Read(type, <<m>>))
         /\ Judged(ExpectSlotRead(e, Slot(<<m>>)), e, Slot(<<m>>))
<1> DEFINE v == Read(type, <<m>>)
           w == Slot(<<m>>)
<1>1. PICK n : e = Number(n) \/ e = BigNumber(n) \/ e = String("decimal", n) \/ e = String("word", n)
  BY DEF Settable
<1>2. v = BigNumber(m) \/ v = Number(m)
  BY DEF Read
<1>3. w = String("word", m)
  BY DEF Slot
<1> HIDE DEF v, w
<1>4. Means(v) = <<m>> /\ Means(w) = <<m>> /\ Means(e) = <<n>>
  BY <1>1, <1>2, <1>3 DEF Means, Number, BigNumber, String
<1>5. Judged(ExpectFuncRead(e, v), e, v)
  <2>1. ~WithItems(v) /\ e # Undefined /\ ~IsAddress(v, e)
    BY <1>1, <1>2 DEF WithItems, HasLength, Undefined, IsAddress, Number, BigNumber, String
  <2>2. /\ v.n = m /\ e.n = n /\ v.is \in {"BigNumber", "number"}
        /\ e.is \in {"BigNumber", "number", "string"}
    BY <1>1, <1>2 DEF Number, BigNumber, String
  <2>3. IsNumeric(v) /\ IsNumeric(e)
    BY <1>1, <1>2 DEF IsNumeric, Number, BigNumber, String
  <2>4. CASE "BigNumber" \in {e.is, v.is}
    <3>1. Comparable(e, v)
      BY <2>3, <2>4 DEF Comparable
    <3>2. ~Same(e, v)
      BY <2>4 DEF Same
    <3>3. ExpectFuncRead(e, v) = IF m = n THEN "accepted" ELSE "refused"
      BY <2>1, <2>2, <2>3, <2>4, <3>2 DEF ExpectFuncRead, Eq
    <3>4. QED
      BY <1>4, <3>1, <3>3 DEF Judged
  <2>5. CASE e.is = "number" /\ v.is = "number"
    <3>1. e = Number(n) /\ v = Number(m)
      BY <1>1, <1>2, <2>5 DEF Number, BigNumber, String
    <3>2. ExpectFuncRead(e, v) = IF e = v THEN "accepted" ELSE "refused"
      BY <2>1, <2>5 DEF ExpectFuncRead, Same
    <3>3. e = v <=> m = n
      BY <3>1 DEF Number
    <3>4. QED
      BY <1>4, <2>5, <3>2, <3>3 DEF Judged, Comparable
  <2>6. CASE e.is = "string" /\ v.is = "number"
    <3>1. ExpectFuncRead(e, v) = "refused"
      BY <2>1, <2>6 DEF ExpectFuncRead, Same
    <3>2. ~Comparable(e, v)
      BY <2>6 DEF Comparable
    <3>3. QED
      BY <3>1, <3>2 DEF Judged
  <2>7. QED
    BY <2>2, <2>4, <2>5, <2>6
<1>6. Judged(ExpectSlotRead(e, w), e, w)
  <2>1. /\ w.n = m /\ e.n = n /\ w.is = "string" /\ w.form = "word" /\ e # Undefined
        /\ e.is \in {"BigNumber", "number", "string"}
    BY <1>1, <1>3 DEF Number, BigNumber, String, Undefined
  <2>2. CASE e.is = "BigNumber"
    <3>1. IsNumeric(w) /\ IsNumeric(e) /\ Comparable(e, w)
      BY <2>1, <2>2 DEF IsNumeric, Comparable
    <3>2. ExpectSlotRead(e, w) = IF m = n THEN "accepted" ELSE "refused"
      BY <2>1, <2>2, <3>1 DEF ExpectSlotRead, Eq, WithItems, HasLength
    <3>3. QED
      BY <1>4, <3>1, <3>2 DEF Judged
  <2>3. CASE e.is = "number"
    <3>1. ExpectSlotRead(e, w) = "refused" /\ ~Comparable(e, w)
      BY <2>1, <2>3 DEF ExpectSlotRead, WithItems, HasLength, Comparable
    <3>2. QED
      BY <3>1 DEF Judged
  <2>4. CASE e.is = "string"
    <3>1. e = String("decimal", n) \/ e = String("word", n)
      BY <1>1, <2>4 DEF Number, BigNumber
    <3>2. ExpectSlotRead(e, w) = IF e = w THEN "accepted" ELSE "refused"
      BY <2>1, <2>4 DEF ExpectSlotRead, WithItems, HasLength, CompareItems, SameItems, Items, Same
    <3>3. e = w <=> e.form = "word" /\ m = n
      BY <1>3, <3>1 DEF String
    <3>4. Comparable(e, w) <=> e.form = "word"
      BY <2>1, <2>4 DEF Comparable
    <3>5. QED
      BY <1>4, <3>2, <3>3, <3>4 DEF Judged
  <2>5. QED
    BY <2>1, <2>2, <2>3, <2>4
<1>7. QED
  BY <1>5, <1>6 DEF v, w

(* An address is told from another in each form.                           *)
LEMMA JudgesAddresses ==
  ASSUME NEW e \in Settable("address"), NEW m
  PROVE  /\ Judged(ExpectFuncRead(e, Read("address", <<m>>)), e, Read("address", <<m>>))
         /\ Judged(ExpectSlotRead(e, Slot(<<m>>)), e, Slot(<<m>>))
<1> DEFINE v == Read("address", <<m>>)
           w == Slot(<<m>>)
<1>1. PICK n : e = Binding(n) \/ e = String("address", n) \/ e = String("lowercase", n)
  BY DEF Settable
<1>2. v = String("address", m) /\ w = String("word", m)
  BY DEF Read, Slot
<1> HIDE DEF v, w
<1>3. Means(v) = <<m>> /\ Means(w) = <<m>> /\ Means(e) = <<n>>
  BY <1>1, <1>2 DEF Means, Binding, String
<1>4. Judged(ExpectFuncRead(e, v), e, v)
  BY <1>1, <1>2, <1>3 DEF Judged, ExpectFuncRead, Comparable, Same, Binding, String, Undefined,
     IsAddress, WithItems, HasLength, CompareItems, SameItems, Items
<1>5. Judged(ExpectSlotRead(e, w), e, w)
  BY <1>1, <1>2, <1>3 DEF Judged, ExpectSlotRead, Comparable, Same, Binding, String, Undefined,
     WithItems, HasLength, CompareItems, SameItems, Items
<1>6. QED
  BY <1>4, <1>5 DEF v, w

(* A text is told from another.                                            *)
LEMMA JudgesTexts ==
  ASSUME NEW e \in Settable("string"), NEW m
  PROVE  Judged(ExpectFuncRead(e, Read("string", <<m>>)), e, Read("string", <<m>>))
<1> DEFINE v == Read("string", <<m>>)
<1>1. PICK n : e = String("text", n)
  BY DEF Settable
<1>2. v = String("text", m)
  BY DEF Read
<1> HIDE DEF v
<1>3. Means(v) = <<m>> /\ Means(e) = <<n>>
  BY <1>1, <1>2 DEF Means, String
<1>4. QED
  <2>1. Judged(ExpectFuncRead(e, v), e, v)
    BY <1>1, <1>2, <1>3 DEF Judged, ExpectFuncRead, Comparable, Same, String, Undefined,
       IsAddress, WithItems, HasLength, CompareItems, SameItems, Items
  <2>2. QED
    BY <2>1 DEF v

(* The lists that a setter is given.                                       *)
LEMMA ListsSet ==
  ASSUME NEW type \in {"uints", "addresses"}, NEW e \in Settable(type)
  PROVE  /\ e.is = "array" /\ e # Undefined
         /\ e.items = <<>> \/ (\E a : e.items = <<a>>) \/ (\E a, b : e.items = <<a, b>>)
         /\ type = "uints" => \A i \in DOMAIN e.items : e.items[i].is \in {"number", "BigNumber"}
         /\ type = "addresses" => \A i \in DOMAIN e.items : e.items[i] = String("address", e.items[i].n)
<1>1. CASE type = "uints"
  <2>1. e = Array(<<>>) \/ (\E n : e = Array(<<Number(n)>>))
        \/ (\E n, m : e = Array(<<BigNumber(n), BigNumber(m)>>))
    BY <1>1 DEF Settable
  <2>2. QED
    BY <1>1, <2>1 DEF Array, Number, BigNumber, Undefined
<1>2. CASE type = "addresses"
  <2>1. e = Array(<<>>) \/ \E n, m : e = Array(<<String("address", n), String("address", m)>>)
    BY <1>2 DEF Settable
  <2>2. QED
    BY <1>2, <2>1 DEF Array, String, Undefined
<1>3. QED
  BY <1>1, <1>2

(* Lists of numbers are never found to be the same; lists of addresses are *)
(* the same only if they have the same addresses.                          *)
LEMMA JudgesLists ==
  ASSUME NEW type \in {"uints", "addresses"}, NEW e \in Settable(type), NEW S, NEW d \in Seq(S)
  PROVE  Judged(ExpectFuncRead(e, Read(type, d)), e, Read(type, d))
<1> DEFINE v == Read(type, d)
<1>1. /\ e.is = "array" /\ e # Undefined /\ e.is # "BigNumber" /\ e.is # "binding"
      /\ e.items = <<>> \/ (\E a : e.items = <<a>>) \/ (\E a, b : e.items = <<a, b>>)
      /\ type = "uints" => \A i \in DOMAIN e.items : e.items[i].is \in {"number", "BigNumber"}
      /\ type = "addresses" => \A i \in DOMAIN e.items : e.items[i] = String("address", e.items[i].n)
  BY ListsSet
<1>2. \E T : e.items \in Seq(T)
  <2>1. CASE e.items = <<>>
    <3>1. e.items \in Seq({})
      BY <2>1
    <3>2. QED
      BY <3>1
  <2>2. ASSUME NEW a, e.items = <<a>> PROVE e.items \in Seq({a})
    BY <2>2
  <2>3. ASSUME NEW a, NEW b, e.items = <<a, b>> PROVE e.items \in Seq({a, b})
    BY <2>3
  <2>4. QED
    BY <1>1, <2>1, <2>2, <2>3
<1>3. /\ v.is = "array" /\ v.items \in Seq({v.items[i] : i \in DOMAIN d})
      /\ DOMAIN v.items = DOMAIN d /\ Len(v.items) = Len(d)
      /\ type = "uints" => \A i \in DOMAIN d : v.items[i] = BigNumber(d[i])
      /\ type = "addresses" => \A i \in DOMAIN d : v.items[i] = String("address", d[i])
  <2>1. CASE type = "uints"
    <3>1. v = Array([i \in DOMAIN d |-> BigNumber(d[i])])
      BY <2>1 DEF Read
    <3> HIDE DEF v
    <3>2. v.is = "array" /\ v.items = [i \in DOMAIN d |-> BigNumber(d[i])]
      BY <3>1 DEF Array
    <3>3. QED
      BY <2>1, <3>2
  <2>2. CASE type = "addresses"
    <3>1. v = Array([i \in DOMAIN d |-> String("address", d[i])])
      BY <2>2 DEF Read
    <3> HIDE DEF v
    <3>2. v.is = "array" /\ v.items = [i \in DOMAIN d |-> String("address", d[i])]
      BY <3>1 DEF Array
    <3>3. QED
      BY <2>2, <3>2
  <2>3. QED
    BY <2>1, <2>2
<1> HIDE DEF v
<1>4. /\ Means(v) = [i \in DOMAIN v.items |-> v.items[i].n]
      /\ Means(e) = [i \in DOMAIN e.items |-> e.items[i].n]
  BY <1>1, <1>3 DEF Means
<1>5. Items(v) = v.items /\ Items(e) = e.items
  BY <1>1, <1>3 DEF Items
<1>6. ~IsAddress(v, e) /\ ~Same(e, v) /\ v.is # "BigNumber"
  BY <1>1, <1>3 DEF IsAddress, Same
<1>7. CASE ~(WithItems(v) /\ WithItems(e))
  <2>1. ExpectFuncRead(e, v) = "refused"
    BY <1>1, <1>6, <1>7 DEF ExpectFuncRead
  <2>2. Len(d) = 0 \/ Len(e.items) = 0
    BY <1>1, <1>2, <1>3, <1>5, <1>7 DEF WithItems, HasLength
  <2>3. ASSUME Comparable(e, v) PROVE Means(v) # Means(e)
    <3>1. Len(e.items) > 0
      BY <1>1, <1>3, <2>3 DEF Comparable
    <3>2. DOMAIN Means(e) # DOMAIN Means(v)
      BY <1>2, <1>3, <1>4, <2>2, <3>1
    <3>3. QED
      BY <3>2
  <2>4. QED
    BY <2>1, <2>3 DEF v, Judged
<1>8. CASE WithItems(v) /\ WithItems(e)
  <2>1. /\ ExpectFuncRead(e, v) = IF SameItems(v.items, e.items) THEN "accepted" ELSE "refused"
        /\ Len(e.items) > 0 /\ Len(d) > 0
    BY <1>1, <1>3, <1>5, <1>6, <1>8 DEF ExpectFuncRead, CompareItems, WithItems
  <2>2. ASSUME SameItems(v.items, e.items) PROVE Means(v) = Means(e) /\ Comparable(e, v)
    <3>1. DOMAIN v.items = DOMAIN e.items
      BY <1>2, <1>3, <2>2 DEF SameItems
    <3>2. \A i \in DOMAIN e.items : v.items[i] = e.items[i]
      BY <2>2, <3>1 DEF SameItems, Same
    <3>3. \A i \in DOMAIN e.items : e.items[i].is \in {"number", "string", "undefined"}
      BY <2>2, <3>1, <3>2 DEF SameItems, Same
    <3>4. type = "addresses"
      <4>1. 1 \in DOMAIN e.items /\ 1 \in DOMAIN d
        BY <1>2, <1>3, <2>1
      <4>2. type = "uints" => v.items[1].is = "BigNumber"
        <5>1. type = "uints" => v.items[1] = BigNumber(d[1])
          BY <1>3, <4>1
        <5>2. QED
          BY <5>1 DEF BigNumber
      <4>3. QED
        BY <3>2, <3>3, <4>1, <4>2
    <3>5. \A i \in DOMAIN e.items : e.items[i].is = "string"
      <4>1. TAKE i \in DOMAIN e.items
      <4>2. PICK n : e.items[i] = String("address", n)
        BY <1>1, <3>4
      <4>3. QED
        BY <4>2 DEF String
    <3>6. Comparable(e, v)
      BY <1>1, <2>1, <3>5 DEF Comparable
    <3>7. QED
      BY <1>4, <3>1, <3>2, <3>6
  <2>3. ASSUME ~SameItems(v.items, e.items), Comparable(e, v) PROVE Means(v) # Means(e)
    <3>1. type = "addresses"
      <4>1. 1 \in DOMAIN e.items
        BY <1>2, <2>1
      <4>2. e.items[1].is = "string"
        BY <1>1, <1>3, <2>3, <4>1 DEF Comparable
      <4>3. QED
        BY <1>1, <4>1, <4>2
    <3>2. SUFFICES ASSUME Means(v) = Means(e) PROVE FALSE
      OBVIOUS
    <3>3. DOMAIN v.items = DOMAIN e.items
      BY <1>4, <3>2
    <3>4. \A i \in DOMAIN e.items : v.items[i].n = e.items[i].n
      BY <1>4, <3>2, <3>3
    <3>5. \A i \in DOMAIN v.items : v.items[i] = e.items[i] /\ v.items[i].is = "string"
      <4>1. TAKE i \in DOMAIN v.items
      <4>2. v.items[i] = String("address", d[i])
        BY <1>3, <3>1
      <4>3. v.items[i].n = d[i] /\ v.items[i].is = "string"
        BY <4>2 DEF String
      <4>4. e.items[i] = String("address", e.items[i].n)
        BY <1>1, <3>1, <3>3
      <4>5. QED
        BY <3>3, <3>4, <4>2, <4>3, <4>4
    <3>6. Len(v.items) = Len(e.items)
      BY <1>2, <1>3, <3>3
    <3>7. SameItems(v.items, e.items)
      BY <3>5, <3>6 DEF SameItems, Same
    <3>8. QED
      BY <2>3, <3>7
  <2>4. QED
    BY <2>1, <2>2, <2>3 DEF v, Judged
<1>9. QED
  BY <1>7, <1>8 DEF v

(***************************************************************************)
(* The setter.                                                             *)
(***************************************************************************)
Counted ==
  /\ sends \in Nat /\ lost \in Nat /\ receipt \in BOOLEAN
  /\ at \in {"idle", "setting", "sent", "checking", "executed"}
  /\ at = "sent" => ~receipt
  /\ at = "checking" => receipt
  /\ sends <= lost + 1
  /\ at # "sent" /\ ~receipt => sends <= lost

LEMMA CountedInvariant == Spec => []Counted
<1>1. Init => Counted
  <2> SUFFICES ASSUME Init PROVE Counted
    OBVIOUS
  <2>1. at = "idle" /\ sends = 0 /\ lost = 0 /\ receipt = FALSE
    BY DEF Init
  <2>2. sends \in Nat /\ lost \in Nat /\ sends <= lost + 1 /\ sends <= lost
    BY <2>1
  <2>3. receipt \in BOOLEAN /\ ~receipt
    BY <2>1
  <2>4. QED
    BY <2>1, <2>2, <2>3 DEF Counted
<1>2. Counted /\ [Next]_vars => Counted'
  <2> SUFFICES ASSUME Counted, [Next]_vars PROVE Counted'
    OBVIOUS
  <2>1. CASE Run
    BY <2>1 DEF Counted, Run
  <2>2. CASE Replay
    BY <2>2 DEF Counted, Replay
  <2>3. CASE Set
    BY <2>3 DEF Counted, Set
  <2>4. CASE Confirm
    BY <2>4 DEF Counted, Confirm
  <2>5. CASE Check
    BY <2>5 DEF Counted, Check
  <2>6. CASE Fail
    BY <2>6 DEF Counted, Fail
  <2>7. CASE Other
    BY <2>7 DEF Counted, Other
  <2>8. CASE UNCHANGED vars
    BY <2>8 DEF Counted, vars
  <2>9. QED
    BY <2>1, <2>2, <2>3, <2>4, <2>5, <2>6, <2>7, <2>8 DEF Next
<1>3. QED
  BY <1>1, <1>2, PTL DEF Spec

(* The setter is sent at most once, and once more for each transaction     *)
(* whose receipt was lost, however often the hook is resumed.              *)
THEOREM CalledOnce == Spec => []SetOnce
<1>1. Counted => SetOnce
  BY DEF Counted, SetOnce
<1>2. QED
  BY <1>1, CountedInvariant, PTL

(***************************************************************************)
(* What was checked.                                                       *)
(***************************************************************************)
(* The verdict of a hook on a contract that holds d.                       *)
ValueRead(d) == IF hook.via = "slot" THEN Slot(d) ELSE Read(hook.type, d)
Verdict(d) == IF hook.via = "slot" THEN ExpectSlotRead(hook.expected, Slot(d))
              ELSE ExpectFuncRead(hook.expected, Read(hook.type, d))

Checked ==
  /\ hook.type \in Types /\ hook.value \in Settable(hook.type)
  /\ hook.expected \in Settable(hook.type)
  /\ hook.via = "slot" => hook.type \in {"uint", "uint8", "address"}
  /\ Fits(hook.type, stored)
  /\ at = "executed" => check.result = "accepted"
  /\ \/ check = NoCheck
     \/ \E d : /\ Fits(hook.type, d)
               /\ check.value = ValueRead(d) /\ check.result = Verdict(d)

(* A contract takes what it is given for a value of its type.              *)
LEMMA MeaningFits ==
  ASSUME NEW type \in Types, NEW e \in Settable(type)
  PROVE  Fits(type, Means(e)) /\ e # Undefined
<1>1. CASE type \in Single
  <2>1. \E f, n : e = Number(n) \/ e = BigNumber(n) \/ e = Binding(n) \/ e = String(f, n)
    <3>1. CASE type \in {"uint", "uint8"}
      BY <3>1 DEF Settable
    <3>2. CASE type = "address"
      BY <3>2 DEF Settable
    <3>3. CASE type = "string"
      BY <3>3 DEF Settable
    <3>4. QED
      BY <1>1, <3>1, <3>2, <3>3 DEF Single
  <2>2. e.is # "array" /\ e # Undefined
    BY <2>1 DEF Number, BigNumber, Binding, String, Undefined
  <2>3. Means(e) = <<e.n>>
    BY <2>2 DEF Means
  <2>4. QED
    BY <1>1, <2>2, <2>3 DEF Fits
<1>2. CASE type \in {"uints", "addresses"}
  <2>1. /\ e.is = "array" /\ e # Undefined
        /\ e.items = <<>> \/ (\E a : e.items = <<a>>) \/ (\E a, b : e.items = <<a, b>>)
    BY <1>2, ListsSet
  <2>2. Means(e) = [i \in DOMAIN e.items |-> e.items[i].n]
    BY <2>1 DEF Means
  <2>3. PICK k \in Nat : DOMAIN e.items = 1 .. k
    <3>1. CASE e.items = <<>>
      BY <3>1
    <3>2. ASSUME NEW a, e.items = <<a>> PROVE DOMAIN e.items = 1 .. 1
      BY <3>2
    <3>3. ASSUME NEW a, NEW b, e.items = <<a, b>> PROVE DOMAIN e.items = 1 .. 2
      BY <3>3
    <3>4. QED
      BY <2>1, <3>1, <3>2, <3>3
  <2>4. Means(e) \in Seq({e.items[i].n : i \in 1 .. k})
    BY <2>2, <2>3
  <2>5. type \notin Single
    BY <1>2 DEF Single
  <2>6. QED
    BY <2>1, <2>4, <2>5 DEF Fits
<1>3. QED
  BY <1>1, <1>2 DEF Types

LEMMA CheckedInvariant == Spec => []Checked
<1>1. Init => Checked
  <2> SUFFICES ASSUME Init PROVE Checked
    OBVIOUS
  <2>1. PICK type \in Types : \E value \in Settable(type), other \in Settable(type) \cup {Undefined} :
          \E via \in IF type \in {"uint", "uint8", "address"} THEN {"getter", "slot"} ELSE {"getter"} :
            hook = SendAfterDeploy(type, value, [via |-> via, expected |-> other])
    BY DEF Init
  <2>2. PICK value \in Settable(type), other \in Settable(type) \cup {Undefined},
             via \in IF type \in {"uint", "uint8", "address"} THEN {"getter", "slot"} ELSE {"getter"} :
          hook = SendAfterDeploy(type, value, [via |-> via, expected |-> other])
    BY <2>1
  <2>3. /\ hook.type = type /\ hook.value = value /\ hook.via = via
        /\ hook.expected = IF other = Undefined THEN value ELSE other
    BY <2>2 DEF SendAfterDeploy
  <2>4. /\ hook.type \in Types /\ hook.value \in Settable(hook.type)
        /\ hook.expected \in Settable(hook.type)
        /\ hook.via = "slot" => hook.type \in {"uint", "uint8", "address"}
    BY <2>3
  <2>5. Fits(hook.type, stored)
    <3>1. stored = IF hook.type \in Single THEN <<0>> ELSE <<>>
      BY DEF Init
    <3>2. <<>> \in Seq({})
      OBVIOUS
    <3>3. QED
      BY <3>1, <3>2 DEF Fits
  <2>6. at = "idle" /\ check = NoCheck
    BY DEF Init
  <2>7. QED
    BY <2>4, <2>5, <2>6 DEF Checked
<1>2. Checked /\ [Next]_vars => Checked'
  <2> SUFFICES ASSUME Checked, [Next]_vars PROVE Checked'
    OBVIOUS
  <2>1. ASSUME hook' = hook, Fits(hook.type, stored'), check' = check \/ check' = NoCheck,
               at' = "executed" => at = "executed" /\ check' = check
        PROVE  Checked'
    BY <2>1 DEF Checked, ValueRead, Verdict
  <2>2. CASE Run
    BY <2>1, <2>2 DEF Checked, Run
  <2>3. CASE Replay
    BY <2>1, <2>3 DEF Checked, Replay
  <2>4. CASE Set
    <3>1. stored' \in {Means(hook.value), stored}
      BY <2>4 DEF Set
    <3>2. Fits(hook.type, stored')
      BY <3>1, MeaningFits DEF Checked
    <3>3. QED
      BY <2>1, <2>4, <3>2 DEF Set
  <2>5. CASE Confirm
    BY <2>1, <2>5 DEF Checked, Confirm
  <2>6. CASE Check
    <3>1. check'.result = Expectation /\ check'.value = ValueRead(stored)
      BY <2>6 DEF Check, ValueRead
    <3>2. Expectation = Verdict(stored)
      BY DEF Expectation, Verdict
    <3>3. hook' = hook /\ stored' = stored /\ (at' = "executed" => Expectation = "accepted")
      BY <2>6 DEF Check
    <3>4. QED
      BY <3>1, <3>2, <3>3 DEF Checked, ValueRead, Verdict
  <2>7. CASE Fail
    BY <2>1, <2>7 DEF Checked, Fail
  <2>8. CASE Other
    <3>1. Fits(hook.type, stored')
      BY <2>8, MeaningFits DEF Other, Checked
    <3>2. QED
      BY <2>1, <2>8, <3>1 DEF Other
  <2>9. CASE UNCHANGED vars
    BY <2>1, <2>9 DEF Checked, vars
  <2>10. QED
    BY <2>2, <2>3, <2>4, <2>5, <2>6, <2>7, <2>8, <2>9 DEF Next
<1>3. QED
  BY <1>1, <1>2, PTL DEF Spec

(* Every check judges the two values as it should.                         *)
LEMMA ChecksJudge ==
  ASSUME Checked, check # NoCheck
  PROVE  Judged(check.result, hook.expected, check.value)
<1>1. PICK d : /\ Fits(hook.type, d)
               /\ check.value = ValueRead(d) /\ check.result = Verdict(d)
  BY DEF Checked
<1>2. CASE hook.type \in {"uint", "uint8"}
  <2>1. PICK m : d = <<m>>
    BY <1>1, <1>2 DEF Fits, Single
  <2>2. QED
    BY <1>1, <1>2, <2>1, JudgesNumbers DEF Checked, ValueRead, Verdict
<1>3. CASE hook.type = "address"
  <2>1. PICK m : d = <<m>>
    BY <1>1, <1>3 DEF Fits, Single
  <2>2. QED
    BY <1>1, <1>3, <2>1, JudgesAddresses DEF Checked, ValueRead, Verdict
<1>4. CASE hook.type = "string"
  <2>1. PICK m : d = <<m>>
    BY <1>1, <1>4 DEF Fits, Single
  <2>2. QED
    BY <1>1, <1>4, <2>1, JudgesTexts DEF Checked, ValueRead, Verdict
<1>5. CASE hook.type \in {"uints", "addresses"}
  <2>1. PICK S : d \in Seq(S)
    BY <1>1, <1>5 DEF Fits, Single
  <2>2. QED
    BY <1>1, <1>5, <2>1, JudgesLists DEF Checked, ValueRead, Verdict
<1>6. QED
  BY <1>2, <1>3, <1>4, <1>5 DEF Checked, Types, Single

(***************************************************************************)
(* The theorems.                                                           *)
(***************************************************************************)
(* The verdict of an expectation, for any values: accepted are just those  *)
(* that mean the same and are Comparable, unless the comparison throws.    *)
(* Lists of numbers, empty lists and strings in different forms are not    *)
(* Comparable: they are refused though they mean the same (expectancy.ts). *)
THEOREM Exact == Spec => []ExpectationExact
<1>1. Checked => ExpectationExact
  <2> SUFFICES ASSUME Checked PROVE ExpectationExact
    OBVIOUS
  <2>1. check.result \in {"accepted", "refused"} => check # NoCheck
    BY DEF NoCheck
  <2>2. check.result = "accepted" => Agree
    BY <2>1, ChecksJudge DEF Agree, Judged
  <2>3. check.result = "refused" => ~Agree
    BY <2>1, ChecksJudge DEF Agree, Judged
  <2>4. QED
    BY <2>2, <2>3 DEF Checked, ExpectationExact
<1>2. QED
  BY <1>1, CheckedInvariant, PTL

(* The graceful expectation agrees with the strict one on all that is read. *)
THEOREM Graceful == Spec => []GracefulAgrees
<1>1. Checked => GracefulAgrees
  <2> SUFFICES ASSUME Checked, check.value # Undefined, hook.via = "getter"
               PROVE (GracefulExpectFuncRead(hook.expected, check.value) = "true")
                       = (check.result = "accepted")
    BY DEF GracefulAgrees
  <2>1. check # NoCheck
    BY DEF NoCheck
  <2>2. check.result = ExpectFuncRead(hook.expected, check.value)
    BY <2>1 DEF Checked, Verdict, ValueRead
  <2>3. QED
    BY <2>2, SameVerdict
<1>2. QED
  BY <1>1, CheckedInvariant, PTL
================================================================================
