----------------------------- MODULE MCCheckout -----------------------------
(***************************************************************************)
(* Instances of Checkout for TLC.                                          *)
(***************************************************************************)
EXTENDS Checkout, TLC

CONSTANTS o1, o2, alone, pair

\* One traveller or two.
TwoParties == (alone :> 1) @@ (pair :> 2)

OneParty == (alone :> 1)

Alike == Permutations({o1, o2})

=============================================================================
