----------------------------- MODULE BookedTrip -----------------------------
(***************************************************************************)
(* One booking after its deposit or its full price was paid: parts of the  *)
(* balance (services/booking/balance.py), add-ons bought later or taken    *)
(* off (extras.py), the customer's date change (changes.py), the owner's   *)
(* move (moves.py), a cancellation request and the daily tidy's cancelling *)
(* of an unpaid balance; every one of them while the others' Razorpay      *)
(* orders are open and may yet be paid, once or twice, early or late.      *)
(*                                                                         *)
(* Each handler decides under the locks of lock_booking or lock_change and *)
(* is one step.  An order is only an amount and what it is for: nothing on *)
(* the booking changes until a capture of it is settled.  Money is counted *)
(* in rupees; the discounts a booking earned keep their amount and are     *)
(* left out.                                                               *)
(***************************************************************************)
EXTENDS Integers, FiniteSets, FiniteSetsExt

CONSTANTS
  Dates,       (* the trip's departures                                     *)
  Capacity,    (* departure -> seats_total                                  *)
  Fare,        (* departure -> the fare of one traveller                    *)
  Near,        (* departures whose balance due day has come                 *)
  Fee,         (* the change fee of one traveller, by the booking's tier    *)
  Parties,     (* the party sizes the owner may make it                     *)
  Addons,      (* the package's add-ons                                     *)
  Price,       (* add-on -> its amount on this booking                      *)
  Changes,     (* the customer's date_changes rows, numbered as they come   *)
  Parts,       (* the orders for a part of the balance                      *)
  Extras,      (* the orders for an add-on ...                              *)
  AddonOf,     (* ... and which add-on                                      *)
  Wanted,      (* bound: the departures other people book                   *)
  MaxFees,     (* bound: the fees on a booking when the owner charges one   *)
  MaxPays,     (* bound: order -> the payments made on it                   *)
  None

Orders == Changes \union Parts \union Extras

ASSUME BookedTripAssumption ==
  /\ Capacity \in [Dates -> Nat] /\ Fare \in [Dates -> Nat \ {0}]
  /\ Near \subseteq Dates /\ Fee \in Nat
  /\ Changes \subseteq Nat /\ IsFiniteSet(Changes)
  /\ Changes \intersect Parts = {} /\ (Changes \union Parts) \intersect Extras = {}
  /\ Parties \subseteq Nat \ {0} /\ IsFiniteSet(Addons)
  /\ Price \in [Addons -> Nat \ {0}] /\ AddonOf \in [Extras -> Addons]
  /\ Wanted \subseteq Dates /\ MaxFees \in Nat /\ MaxPays \in [Orders -> Nat]
  /\ None \notin Dates

VARIABLES
  status,    (* partially_paid, confirmed or cancelled                      *)
  date,      (* departure_id                                                *)
  party,     (* its booking_travellers rows                                 *)
  total,     (* total_paise                                                 *)
  paid,      (* paid_paise: what the booking holds, planned refunds taken   *)
             (* off                                                         *)
  kept,      (* kept_paise of a cancelled booking                           *)
  fees,      (* the change fees in its quote                                *)
  overdue,   (* part-paid, and past the grace of balance_due_on             *)
  asked,     (* a cancellation request is open                              *)
  addon,     (* add-on -> its booking_addons row: none; came (with the      *)
             (* booking), off (came, and taken off); bought (later),        *)
             (* returned (bought, and taken off)                            *)
  change,    (* change -> its row (of one that is decided, only its state), *)
             (* and where start_change's call is                            *)
  order,     (* order -> whether it is open, the payments Razorpay took on  *)
             (* it, and those of them settled here                          *)
  part,      (* order for a part of the balance -> its amount               *)
  others     (* departure -> seats of other bookings, holds and offers      *)

booking == <<status, date, party, total, paid, kept, fees, overdue>>
money == <<order, part>>
vars == <<booking, asked, addon, change, money, others>>

Live == {"partially_paid", "confirmed"}
NoChange == [state |-> "none", from |-> None, to |-> None, net |-> 0, pay |-> 0,
             fee |-> 0, party |-> 0, age |-> "hold", call |-> "none"]

\* A change's row once it is decided.
Decided(row, state) == [NoChange EXCEPT !.state = state, !.call = row.call]

\* Mutant of Over: a difference is not held at zero.
Unclamped(n) == n

\* The larger of n and 0, and the smaller of m and n.
Over(n) == IF n > 0 THEN n ELSE 0
AtMost(m, n) == IF m < n THEN m ELSE n

\* Only a part-paid booking is overdue.
StaysOverdue == overdue' = (overdue /\ status' = "partially_paid")

\* 25 % of the total, rounded up to the rupee.
Deposit(n) == (n + 3) \div 4

-----------------------------------------------------------------------------
(* Seats.                                                                   *)

\* The change holds the view subtracts from d.
HeldOn(ch, d) ==
  MapThenSumSet(LAMBDA c : ch[c].party,
                {c \in Changes : /\ ch[c].state = "held" /\ ch[c].age = "hold"
                                 /\ ch[c].to = d})

SeatsLeft(ch, d) ==
  Capacity[d] - others[d] - HeldOn(ch, d)
  - (IF status \in Live /\ date = d THEN party ELSE 0)

\* Mutant of EndHolds: a change not yet paid for is left beside the new one.
EndsNothing(ch) == ch

\* end_holds: a change not yet paid for is replaced.
EndHolds(ch) ==
  [c \in Changes |-> IF ch[c].state = "held" THEN Decided(ch[c], "cancelled") ELSE ch[c]]

\* Other bookings come and go in the seats that are left.
Others(d, n) ==
  /\ d \in Wanted /\ n # others[d] /\ n \in 0..(others[d] + SeatsLeft(change, d))
  /\ others' = [others EXCEPT ![d] = n]
  /\ UNCHANGED <<booking, asked, addon, change, money>>

-----------------------------------------------------------------------------
(* Orders.                                                                  *)

Opens(o) == ~ order[o].open /\ order' = [order EXCEPT ![o].open = TRUE]

\* create_balance_order: a part of what is left.  (Any from 1,000 rupees up;
\* here the smallest, of one rupee, or all.)
OpenPart(o, n) ==
  /\ status = "partially_paid" /\ ~ asked
  /\ total > paid /\ n \in {1, total - paid}
  /\ Opens(o) /\ part' = [part EXCEPT ![o] = n]
  /\ UNCHANGED <<booking, asked, addon, change, others>>

\* create_extras_order: an add-on the booking never had.
OpenExtra(o) ==
  /\ status \in Live /\ ~ asked /\ addon[AddonOf[o]] = "none"
  /\ Opens(o)
  /\ UNCHANGED <<booking, asked, addon, change, part, others>>

\* The visitor pays an open order; Razorpay may take a second payment on it.
Pay(o) ==
  /\ order[o].open /\ order[o].pays < MaxPays[o]
  /\ order' = [order EXCEPT ![o].pays = @ + 1]
  /\ UNCHANGED <<booking, asked, addon, change, part, others>>

-----------------------------------------------------------------------------
(* The swap.                                                                *)

\* apply_swap's money, with `sum` paid: the status follows from the new total,
\* and what goes beyond it is sent back.
SwapMoney(net, sum) ==
  /\ total' = total + net
  /\ status' = IF sum >= total + net THEN "confirmed" ELSE "partially_paid"
  /\ paid' = AtMost(sum, total + net)

\* apply_swap: the balance is due on the new date's due day, or today.
Swap(d, net, fee, sum) ==
  /\ SwapMoney(net, sum)
  /\ date' = d /\ fees' = fees + fee /\ overdue' = FALSE
  /\ UNCHANGED kept

\* outcome: what a move worth net to d asks for now.
PayNow(d, net) ==
  IF status = "partially_paid" /\ d \notin Near
  THEN Over(Deposit(total + net) - paid)
  ELSE Over(total + net - paid)

\* One self-serve change per booking.
Used == \E c \in Changes : change[c].state = "done"

\* start_change, up to its call to Razorpay: a newer pick replaces a hold, and
\* the booking moves at once when there is nothing to pay.
StartChange(c, d) ==
  LET fee == Fee * party
      net == (Fare[d] - Fare[date]) * party + fee
      pay == PayNow(d, net)
      ended == EndHolds(change)
      row == [state |-> "held", from |-> date, to |-> d, net |-> net, pay |-> pay,
              fee |-> fee, party |-> party, age |-> "hold", call |-> "calling"]
  IN /\ change[c].state = "none" /\ \A b \in Changes : b < c => change[b].state # "none"
     /\ d # date
     /\ status \in Live /\ ~ asked /\ ~ Used
     /\ SeatsLeft(ended, d) >= party
     /\ IF pay = 0
        THEN /\ change' = [ended EXCEPT ![c].state = "done"]
             /\ Swap(d, net, fee, paid) /\ UNCHANGED party
        ELSE /\ change' = [ended EXCEPT ![c] = row]
             /\ UNCHANGED booking
     /\ UNCHANGED <<asked, addon, money, others>>

\* Razorpay opened the change's order, or refused it, which gives the seats
\* back (_cancel_change), or the request died on the way.
ChangeOpened(c) ==
  /\ change[c].call = "calling"
  /\ change' = [change EXCEPT ![c].call = "none"]
  /\ Opens(c)
  /\ UNCHANGED <<booking, asked, addon, part, others>>

ChangeRefused(c) ==
  /\ change[c].call = "calling"
  /\ change' = [change EXCEPT
       ![c] = [(IF @.state = "held" THEN Decided(@, "cancelled") ELSE @)
               EXCEPT !.call = "none"]]
  /\ UNCHANGED <<booking, asked, addon, money, others>>

ChangeLost(c) ==
  /\ change[c].call = "calling"
  /\ change' = [change EXCEPT ![c].call = "none"]
  /\ UNCHANGED <<booking, asked, addon, money, others>>

\* The ten minutes of a hold run out, and the hour after which its payment
\* moves nothing.
HoldAges(c) ==
  /\ change[c].state = "held" /\ change[c].age \in {"hold", "recent"}
  /\ change' = [change EXCEPT ![c].age = IF @ = "hold" THEN "recent" ELSE "old"]
  /\ UNCHANGED <<booking, asked, addon, money, others>>

-----------------------------------------------------------------------------
(* Captures.                                                                *)

\* Mutant of Fits: a late payment moves the booking without a look at the seats.
FitsUnseated(c) ==
  /\ change[c].state = "held" /\ status \in Live /\ date = change[c].from /\ ~ asked
  /\ change[c].age # "old"

\* settle_change: the change can still be made.
Fits(c) ==
  /\ change[c].state = "held" /\ status \in Live /\ date = change[c].from /\ ~ asked
  /\ \/ change[c].age = "hold"
     \/ change[c].age = "recent" /\ SeatsLeft(change, change[c].to) >= change[c].party

\* Mutant of Returned: the booking keeps the money of a change not made.
Pocketed(c) ==
  paid' = paid + change[c].pay /\ UNCHANGED <<status, date, party, total, kept, fees, overdue>>

\* plan_refund of all of it: the booking holds what it held.
Returned(c) == UNCHANGED booking

\* settle_change: the booking moves, or the money goes back in full.
SettleChange(c) ==
  /\ IF Fits(c)
     THEN /\ change' = [change EXCEPT ![c] = Decided(@, "done")]
          /\ Swap(change[c].to, change[c].net, change[c].fee, paid + change[c].pay)
          /\ UNCHANGED party
     ELSE /\ change' = [change EXCEPT
                ![c] = IF @.state = "held" THEN Decided(@, "lapsed") ELSE @]
          /\ Returned(c)
  /\ UNCHANGED addon

\* Mutant of SettleExtra: a second payment adds nothing and is kept.
ExtraKept(o) ==
  /\ IF addon[AddonOf[o]] = "none"
     THEN /\ addon' = [addon EXCEPT ![AddonOf[o]] = "bought"]
          /\ total' = total + Price[AddonOf[o]]
     ELSE UNCHANGED <<addon, total>>
  /\ paid' = paid + Price[AddonOf[o]]
  /\ UNCHANGED <<status, date, party, kept, fees, overdue, change>>

\* settle_extras: the add-on joins the booking with its money, or the booking
\* has had it already and the money goes back.
SettleExtra(o) ==
  /\ IF addon[AddonOf[o]] = "none"
     THEN /\ addon' = [addon EXCEPT ![AddonOf[o]] = "bought"]
          /\ total' = total + Price[AddonOf[o]] /\ paid' = paid + Price[AddonOf[o]]
     ELSE UNCHANGED <<addon, total, paid>>
  /\ UNCHANGED <<status, date, party, kept, fees, overdue, change>>

\* settle_capture of any other money: it clears the balance or a part of it,
\* and what the booking does not need goes back (refund_owed): beyond its
\* total, or beyond what a cancelled one kept.
SettleMoney(n) ==
  /\ status' = IF status = "partially_paid" /\ paid + n >= total THEN "confirmed" ELSE status
  /\ paid' = AtMost(paid + n, IF status = "cancelled" THEN kept ELSE total)

\* capture_razorpay_payment: each payment once.
Capture(o) ==
  /\ order[o].taken < order[o].pays
  /\ order' = [order EXCEPT ![o].taken = @ + 1]
  /\ \/ o \in Changes /\ SettleChange(o)
     \/ o \in Extras /\ status \in Live /\ SettleExtra(o)
     \/ /\ \/ o \in Parts /\ SettleMoney(part[o])
           \/ o \in Extras /\ status \notin Live /\ SettleMoney(Price[AddonOf[o]])
        /\ StaysOverdue
        /\ UNCHANGED <<date, party, total, kept, fees, addon, change>>
  /\ UNCHANGED <<asked, part, others>>

-----------------------------------------------------------------------------
(* The owner.                                                               *)

\* mark_balance_paid: all of it, offline.
MarkBalancePaid ==
  /\ status = "partially_paid" /\ total > paid
  /\ status' = "confirmed" /\ paid' = total /\ StaysOverdue
  /\ UNCHANGED <<date, party, total, kept, fees, asked, addon, change, money, others>>

\* move_booking: another date, another party or a fee; a rise is paid offline
\* or added to the balance.
OwnerMove(d, p, fee, settle) ==
  LET ended == EndHolds(change)
      net == Fare[d] * p - Fare[date] * party + fee
      rise == AtMost(Over(net), Over(total + net - paid))
  IN /\ status \in Live
     /\ d # date \/ p # party \/ fee > 0
     /\ fee = 0 \/ fees + fee <= MaxFees
     /\ SeatsLeft(ended, d) + (IF d = date THEN party ELSE 0) >= p
     /\ Swap(d, net, fee, paid + (IF settle = "offline" THEN rise ELSE 0))
     /\ party' = p /\ change' = ended
     /\ UNCHANGED <<asked, addon, money, others>>

\* remove_addon's refund, `due` being the total without the add-on: a bought
\* add-on's whole price; of one that came with a part-paid booking, only what
\* is paid beyond the new total.
GivenBack(a, due) ==
  IF status = "partially_paid" /\ addon[a] = "came"
  THEN AtMost(Price[a], Over(paid - due))
  ELSE AtMost(Price[a], paid)

\* remove_addon: a part-paid booking that now holds its total is confirmed,
\* and then the refund is taken off what it holds.
RemoveAddon(a) ==
  LET due == total - Price[a] IN
  /\ status \in Live /\ addon[a] \in {"came", "bought"}
  /\ addon' = [addon EXCEPT ![a] = IF @ = "came" THEN "off" ELSE "returned"]
  /\ total' = due
  /\ status' = IF status = "partially_paid" /\ paid >= due THEN "confirmed" ELSE status
  /\ paid' = paid - GivenBack(a, due) /\ StaysOverdue
  /\ UNCHANGED <<date, party, kept, fees, asked, change, money, others>>

\* The customer asks to cancel; the owner declines.
Ask ==
  /\ status \in Live /\ ~ asked
  /\ asked' = TRUE
  /\ UNCHANGED <<booking, addon, change, money, others>>

Decline ==
  /\ asked /\ asked' = FALSE
  /\ UNCHANGED <<booking, addon, change, money, others>>

\* The booking ends and keeps n of what it holds: the policy's tiers run from
\* all of it to nothing, and these two stand for them.
Ends(n) ==
  /\ status' = "cancelled" /\ kept' = n /\ paid' = n /\ StaysOverdue
  /\ UNCHANGED <<date, party, total, fees>>

\* The owner approves the request.
Approve ==
  /\ asked /\ status \in Live
  /\ \E n \in {0, paid} : Ends(n)
  /\ asked' = FALSE
  /\ UNCHANGED <<addon, change, money, others>>

\* The balance's due day and its grace pass; the owner gives more time.
DayPasses ==
  /\ status = "partially_paid" /\ ~ overdue /\ overdue' = TRUE
  /\ UNCHANGED <<status, date, party, total, paid, kept, fees, asked, addon, change, money,
                 others>>

ExtendDue ==
  /\ status = "partially_paid" /\ overdue /\ overdue' = FALSE
  /\ UNCHANGED <<status, date, party, total, paid, kept, fees, asked, addon, change, money,
                 others>>

\* _cancel_overdue: the daily tidy, which leaves an open request to the owner.
CancelOverdue ==
  /\ status = "partially_paid" /\ overdue /\ ~ asked
  /\ \E n \in {0, paid} : Ends(n)
  /\ UNCHANGED <<asked, addon, change, money, others>>

-----------------------------------------------------------------------------
OnNow(st) == {a \in Addons : st[a] \in {"came", "bought"}}
PriceOf(d, p, f, st) == Fare[d] * p + f + MapThenSumSet(LAMBDA a : Price[a], OnNow(st))

\* A booking on its deposit or paid in full, with or without an add-on.
Init ==
  /\ date \in Dates /\ party \in {p \in Parties : p <= Capacity[date]}
  /\ addon \in [Addons -> {"none", "came"}]
  /\ total = PriceOf(date, party, 0, addon)
  /\ \/ status = "confirmed" /\ paid = total
     \/ status = "partially_paid" /\ date \notin Near
        /\ paid = Deposit(total) /\ paid < total
  /\ kept = 0 /\ fees = 0 /\ overdue = FALSE /\ asked = FALSE
  /\ change = [c \in Changes |-> NoChange]
  /\ order = [o \in Orders |-> [open |-> FALSE, pays |-> 0, taken |-> 0]]
  /\ part = [o \in Parts |-> 0]
  /\ others = [d \in Dates |-> 0]

Next ==
  \/ \E d \in Dates : \E n \in 0..Capacity[d] : Others(d, n)
  \/ \E o \in Parts : \E n \in 1..total : OpenPart(o, n)
  \/ \E o \in Extras : OpenExtra(o)
  \/ \E o \in Orders : Pay(o) \/ Capture(o)
  \/ \E c \in Changes : \/ \E d \in Dates : StartChange(c, d)
                        \/ ChangeOpened(c) \/ ChangeRefused(c) \/ ChangeLost(c)
                        \/ HoldAges(c)
  \/ \E d \in Dates, p \in Parties, s \in {"offline", "balance"} :
       \E fee \in {0, Fee * p} : OwnerMove(d, p, fee, s)
  \/ \E a \in Addons : RemoveAddon(a)
  \/ MarkBalancePaid \/ Ask \/ Decline \/ Approve \/ DayPasses \/ ExtendDue \/ CancelOverdue

Spec == Init /\ [][Next]_vars

-----------------------------------------------------------------------------
(* Properties.                                                              *)

TypeOK ==
  /\ status \in {"partially_paid", "confirmed", "cancelled"}
  /\ date \in Dates /\ party \in Parties /\ total \in Nat /\ paid \in Nat /\ kept \in Nat
  /\ fees \in Nat /\ overdue \in BOOLEAN /\ asked \in BOOLEAN
  /\ addon \in [Addons -> {"none", "came", "off", "bought", "returned"}]
  /\ change \in [Changes ->
       [state : {"none", "held", "done", "cancelled", "lapsed"}, from : Dates \union {None},
        to : Dates \union {None}, net : Int, pay : Nat, fee : Nat, party : Nat,
        age : {"hold", "recent", "old"}, call : {"none", "calling"}]]
  /\ order \in [Orders -> [open : BOOLEAN, pays : Nat, taken : Nat]]
  /\ \A o \in Orders : order[o].taken <= order[o].pays /\ order[o].pays <= MaxPays[o]
  /\ part \in [Parts -> Nat]
  /\ others \in [Dates -> Nat]

\* A change's hold, a late payment and the owner's move never seat more people
\* on a date than it has seats.
NoDateOversold == \A d \in Dates : SeatsLeft(change, d) >= 0

\* The total is always the price of what is booked: the date and the party,
\* the fees, and the add-ons still on it, in whatever order changes, extras
\* and moves were paid for and settled.
TotalIsThePrice == status \in Live => total = PriceOf(date, party, fees, addon)

\* The booking holds what it should: a confirmed one its total, a part-paid
\* one less, a cancelled one what it kept; every other rupee is on its way
\* back.  (After a bought add-on was taken off, a confirmed one may hold less.)
HoldsItsMoney ==
  /\ status = "partially_paid" => paid < total
  /\ status = "cancelled" => paid = kept
  /\ status = "confirmed" =>
       paid <= total /\ (paid = total \/ \E a \in Addons : addon[a] = "returned")

\* "Nothing left to pay ...: the booking is paid in full" (extras.py): a
\* confirmed booking holds its total.
ConfirmedIsPaid == status = "confirmed" => paid >= total

\* The customer's money for a change moves the booking as it was offered, or
\* leaves everything as it was.
ChangeMoneyMovesOrReturns ==
  [][\A c \in Changes : order'[c].taken # order[c].taken =>
       \/ /\ change[c].state = "held" /\ change'[c].state = "done"
          /\ date' = change[c].to /\ total' = total + change[c].net
          /\ paid' >= AtMost(paid + change[c].pay, total')
       \/ UNCHANGED <<status, date, party, total, paid, fees>>]_vars

\* At most one change online, however many were started and paid for.
OneOnlineChange == Cardinality({c \in Changes : change[c].state = "done"}) <= 1

=============================================================================
