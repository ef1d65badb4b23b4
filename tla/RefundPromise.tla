---------------------------- MODULE RefundPromise ----------------------------
(***************************************************************************)
(* What refunds promise, whatever calls are lost, repeated or refused on   *)
(* the way: a planned refund leaves at most once, or is given up.  Money   *)
(* that left may bounce, and a refund given up or bounced never leaves     *)
(* again: what is still owed then goes back as a new refund.  Nothing more *)
(* is promised of a refund about whose key Razorpay broke its word.        *)
(***************************************************************************)
CONSTANT Rows

VARIABLE phase   (* refund -> none, planned, gone, bounced, dropped or      *)
                 (* disowned                                                *)

With(p) == {r \in Rows : phase[r] = p}

Become(R, p) == phase' = [r \in Rows |-> IF r \in R THEN p ELSE phase[r]]

Init == phase = [r \in Rows |-> "none"]

Plan == \E R \in SUBSET With("none") : Become(R, "planned")

\* Razorpay makes one refund, or the owner hands several back at once.
Leave == \E R \in SUBSET With("planned") : Become(R, "gone")

\* Razorpay could not complete a refund: at once, or days after it left.
Bounce == \E r \in With("planned") \union With("gone") : Become({r}, "bounced")

\* Razorpay refused it, and it was never made.
Drop == \E r \in With("planned") : Become({r}, "dropped")

\* Razorpay forgets the key, or makes a refund it had refused.
Disown == \E r \in Rows : phase[r] # "none" /\ Become({r}, "disowned")

Next == Plan \/ Leave \/ Bounce \/ Drop \/ Disown

Spec == Init /\ [][Next]_phase

=============================================================================
