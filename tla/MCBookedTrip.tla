---------------------------- MODULE MCBookedTrip ----------------------------
(***************************************************************************)
(* Instances of BookedTrip for TLC.                                        *)
(***************************************************************************)
EXTENDS BookedTrip, TLC

CONSTANTS d1, d2, b1, x1, transfer

\* Two dates, the second dearer and with its balance due already or not.
TwoCapacities == (d1 :> 2) @@ (d2 :> 1)
TwoFares == (d1 :> 2) @@ (d2 :> 3)

OnePrice == transfer :> 2

OneExtraOf == x1 :> transfer

\* Only the extra is paid for twice.
ExtraTwice == [o \in Orders |-> IF o \in Extras THEN 2 ELSE 1]

=============================================================================
