----------------------------- MODULE SeatPromise -----------------------------
(***************************************************************************)
(* What the booking system promises about seats, whatever its holds,       *)
(* orders, captures and sweeps do in detail: a booking's seats are held,   *)
(* lapse, may be given back, are sold or closed; seats are given only when *)
(* they are free; a sold booking never loses them except by being closed,  *)
(* and a closed one never comes back.                                      *)
(***************************************************************************)
EXTENDS Integers, FiniteSets

CONSTANTS Bookings, Travellers, Departures, BookingOf, DepartureOf, SeatTotals, MaxAside

VARIABLES
  phase,   (* booking -> none, held, lapsed, sold or closed                 *)
  seats,   (* departure -> its number of seats                              *)
  aside    (* departure -> seats set aside for somebody else                *)

vars == <<phase, seats, aside>>

With(p) == {b \in Bookings : phase[b] = p}

Seated(d) ==
  {x \in Travellers : /\ phase[BookingOf[x]] \in {"held", "sold"}
                      /\ DepartureOf[BookingOf[x]] = d}

Room(d) == Cardinality(Seated(d)) + aside[d] <= seats[d]

Init ==
  /\ phase = [b \in Bookings |-> "none"]
  /\ seats \in [Departures -> SeatTotals]
  /\ aside = [d \in Departures |-> 0]

\* The bookings in H get seats, which needs room for them; holds in L lapse (one
\* may lapse as it is made, when making it takes longer than it lasts).
Reseat(H, L) ==
  /\ UNCHANGED <<seats, aside>>
  /\ phase' = [b \in Bookings |-> IF b \in H THEN "held"
                                  ELSE IF b \in L THEN "lapsed" ELSE phase[b]]
  /\ \A b \in H : Room(DepartureOf[b])'

\* Money makes the seats the customer's; a lapsed hold's must be free again.
Sell(b) ==
  /\ phase[b] \in {"held", "lapsed"}
  /\ phase' = [phase EXCEPT ![b] = "sold"]
  /\ \E n \in 0..aside[DepartureOf[b]] : aside' = [aside EXCEPT ![DepartureOf[b]] = n]
  /\ UNCHANGED seats
  /\ phase[b] = "lapsed" => Room(DepartureOf[b])'

\* Seats are set aside, or handed back: only free ones.
SetAside(d) ==
  /\ UNCHANGED <<phase, seats>>
  /\ \E n \in 0..MaxAside : aside' = [aside EXCEPT ![d] = n]
  /\ aside'[d] <= aside[d] \/ Room(d)'

\* The booking ends, and its seats may go to somebody else at once.
Close(b) ==
  /\ phase[b] \in {"held", "lapsed", "sold"}
  /\ phase' = [phase EXCEPT ![b] = "closed"]
  /\ \E n \in 0..MaxAside : aside' = [aside EXCEPT ![DepartureOf[b]] = n]
  /\ UNCHANGED seats
  /\ aside'[DepartureOf[b]] <= aside[DepartureOf[b]] \/ Room(DepartureOf[b])'

\* The owner changes the number of seats.
Resize(d) ==
  /\ UNCHANGED <<phase, aside>>
  /\ \E n \in SeatTotals : seats' = [seats EXCEPT ![d] = n]

Next ==
  \/ \E d \in Departures : SetAside(d) \/ Resize(d)
  \/ \E b \in Bookings : Sell(b) \/ Close(b)
  \/ \E H \in SUBSET (With("none") \union With("lapsed")),
        L \in SUBSET (With("none") \union With("held")) :
       Reseat(H, L)

Spec == Init /\ [][Next]_vars

=============================================================================
