----------------------------- MODULE MCWaitlist -----------------------------
(***************************************************************************)
(* Instance of Waitlist for TLC.                                           *)
(***************************************************************************)
EXTENDS Waitlist, TLC

CONSTANTS ana, bo

\* A couple and someone alone.
Couples == (ana :> 2) @@ (bo :> 1)

=============================================================================
