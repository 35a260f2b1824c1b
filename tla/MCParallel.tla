------------------------------ MODULE MCParallel ------------------------------
(***************************************************************************)
(* A token, a vault, and a sale that takes the token.  In the batch of the *)
(* sale, two hooks on the token with calls to it from one sender, two of   *)
(* the one and one of the other; in the batch after it, two hooks on the   *)
(* sale with calls to it and to the token from two senders.  The           *)
(* configuration may leave the vault out, which one of these is declared   *)
(* on.                                                                     *)
(***************************************************************************)
EXTENDS ParallelRun

ThreeBatches == <<[contracts |-> <<"token", "vault">>, hooks |-> {}],
                  [contracts |-> <<"sale">>, hooks |-> {"mint", "grant"}],
                  [contracts |-> <<>>, hooks |-> {"open", "close"}]>>
TokenFirst == [c \in {"token", "vault", "sale"} |-> IF c = "sale" THEN {"token"} ELSE {}]
Declared == [h \in Hooks |->
  CASE h \in {"mint", "grant"} -> <<"token">>
    [] h = "open" -> <<"sale">>
    [] h = "close" -> <<"vault", "sale">>]
AllByAlice == [c \in {"token", "vault", "sale"} |-> "alice"]
CallTo(c, s) == [to |-> c, from |-> s]
FewCalls == [h \in Hooks |->
  CASE h = "mint" -> <<CallTo("token", "alice"), CallTo("token", "alice")>>
    [] h = "grant" -> <<CallTo("token", "alice")>>
    [] h = "open" -> <<CallTo("sale", "bob")>>
    [] h = "close" -> <<CallTo("token", "alice")>>]

(* What the theorems of ParallelProofs ask of a deployment.                *)
ASSUME InOrder ==
  /\ NeedsInEarlierBatch /\ OneCaller /\ OneWithoutCalls
  /\ \A s \in Senders : SignsFirst(s)
===============================================================================
