------------------------------ MODULE MCRefunds ------------------------------
(***************************************************************************)
(* Instances of Refunds for TLC: p1 is the older payment, p2 the newer.   *)
(***************************************************************************)
EXTENDS Refunds, TLC

CONSTANTS r1, r2, r3, p1, p2, s1, s2

\* Two rows on the older payment, one on the newer.
TwoPaymentsOf == (r1 :> p1) @@ (r2 :> p1) @@ (r3 :> p2)
TwoAmounts == (p1 :> 2) @@ (p2 :> 1)
TwoAges == (p1 :> 1) @@ (p2 :> 2)

\* The senders are alike, and so are the rows of one payment.
Alike == Permutations({s1, s2}) \union Permutations({r1, r2})

\* Two rows on one payment.
OnePaymentOf == (r1 :> p1) @@ (r2 :> p1)
OneAmount == (p1 :> 2)
OneAge == (p1 :> 1)

=============================================================================
