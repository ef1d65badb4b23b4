--------------------------- MODULE MCBookingOrders ---------------------------
(***************************************************************************)
(* Instances of BookingOrders for TLC.  b1 and b2 have the same email, b2  *)
(* and b3 the same phone; the travellers say how large each party is.      *)
(***************************************************************************)
EXTENDS BookingOrders, TLC

CONSTANTS b1, b2, b3, t1, t2, t3, t4, d1, p1, p2, p3

\* Three bookings on one date: b1 a party of two, the others travel alone.
OneDateBookingOf == (t1 :> b1) @@ (t2 :> b1) @@ (t3 :> b2) @@ (t4 :> b3)
OneDate == [b \in {b1, b2, b3} |-> d1]

\* One person's three tabs.
SameEmail == [b \in {b1, b2, b3} |-> "e1"]
SharedEmail == (b1 :> "e1") @@ (b2 :> "e1") @@ (b3 :> "e2")
SharedPhone == (b1 :> "f1") @@ (b2 :> "f2") @@ (b3 :> "f2")

\* One payment per booking, all paid in full.
OnePaymentOf == (p1 :> b1) @@ (p2 :> b2) @@ (p3 :> b3)
P1Only == (p1 :> b1)
FullTotal == [b \in {b1, b2, b3} |-> 1]

\* b1 alone pays a deposit, and its order may be paid twice.
SoloBookingOf == (t1 :> b1)
SoloDate == (b1 :> d1)
SoloContact == (b1 :> "x")
SoloPaymentOf == (p1 :> b1) @@ (p2 :> b1)
SoloTotal == (b1 :> 3)
SoloAsk == (b1 :> 1)

=============================================================================
