-------------------------- MODULE BookedTripProofs --------------------------
(***************************************************************************)
(* A booking changes its date online once at most, however many changes    *)
(* were started, paid for, lost or overtaken, for every number of changes. *)
(***************************************************************************)
EXTENDS BookedTrip, Sums

\* A change that is done, or may yet be done by its payment.
Active(c) == change[c].state \in {"held", "done"}

\* A date_changes row has its columns, whatever they hold.
IsRow(r) ==
  r = [state |-> r.state, from |-> r.from, to |-> r.to, net |-> r.net, pay |-> r.pay,
       fee |-> r.fee, party |-> r.party, age |-> r.age, call |-> r.call]

Rows ==
  /\ change = [c \in Changes |-> change[c]]
  /\ \A c \in Changes : IsRow(change[c])

\* A new change replaces the one still held, and none follows the one done.
OneActive == \A b, c \in Changes : Active(b) /\ Active(c) => b = c

ChangeInv == Rows /\ OneActive

-----------------------------------------------------------------------------
LEMMA NoChangeIsRow == IsRow(NoChange) /\ NoChange.state = "none"
  BY DEF IsRow, NoChange

LEMMA DecidedIsRow ==
  ASSUME NEW r, NEW s
  PROVE  IsRow(Decided(r, s)) /\ Decided(r, s).state = s
<1>. DEFINE u == [NoChange EXCEPT !.state = s]
<1>1. u.state = s /\ IsRow(u)
  BY NoChangeIsRow DEF IsRow, NoChange
<1>2. Decided(r, s) = [u EXCEPT !.call = r.call]
  BY DEF Decided, NoChange
<1>. QED
  BY <1>1, <1>2 DEF IsRow

LEMMA ExceptState ==
  ASSUME NEW r, IsRow(r), NEW s
  PROVE  IsRow([r EXCEPT !.state = s]) /\ [r EXCEPT !.state = s].state = s
  BY DEF IsRow

LEMMA ExceptCall ==
  ASSUME NEW r, IsRow(r), NEW s
  PROVE  IsRow([r EXCEPT !.call = s]) /\ [r EXCEPT !.call = s].state = r.state
  BY DEF IsRow

LEMMA ExceptAge ==
  ASSUME NEW r, IsRow(r), NEW s
  PROVE  IsRow([r EXCEPT !.age = s]) /\ [r EXCEPT !.age = s].state = r.state
  BY DEF IsRow

LEMMA InitRows == Init => ChangeInv
  BY NoChangeIsRow DEF Init, ChangeInv, Rows, OneActive, Active

\* end_holds leaves no change held, and what is done stays done.
LEMMA EndedHolds ==
  ASSUME Rows
  PROVE  /\ EndHolds(change) = [c \in Changes |-> EndHolds(change)[c]]
         /\ \A c \in Changes :
              /\ IsRow(EndHolds(change)[c])
              /\ EndHolds(change)[c].state # "held"
              /\ EndHolds(change)[c].state = "done" => change[c].state = "done"
<1>1. ASSUME NEW c \in Changes
      PROVE  /\ IsRow(EndHolds(change)[c])
             /\ EndHolds(change)[c].state # "held"
             /\ EndHolds(change)[c].state = "done" => change[c].state = "done"
  <2>1. CASE change[c].state = "held"
    <3>1. EndHolds(change)[c] = Decided(change[c], "cancelled")
      BY <2>1 DEF EndHolds
    <3>. QED
      BY <3>1, DecidedIsRow
  <2>2. CASE change[c].state # "held"
    <3>1. EndHolds(change)[c] = change[c]
      BY <2>2 DEF EndHolds
    <3>. QED
      BY <3>1, <2>2 DEF Rows
  <2>. QED
    BY <2>1, <2>2
<1>. QED
  BY <1>1 DEF EndHolds

-----------------------------------------------------------------------------
(* One lemma for the steps that only age, lapse, decide or finish rows.     *)

\* A step that changes the row of one change and activates none.
LEMMA OneRow ==
  ASSUME ChangeInv, NEW c \in Changes, NEW r, IsRow(r),
         change' = [change EXCEPT ![c] = r],
         r.state \in {"held", "done"} => Active(c)
  PROVE  ChangeInv'
<1>1. Rows'
  BY DEF ChangeInv, Rows
<1>2. ASSUME NEW b \in Changes, Active(b)'
      PROVE  Active(b)
  BY <1>2 DEF ChangeInv, Rows, Active
<1>. QED
  BY <1>1, <1>2 DEF ChangeInv, OneActive

LEMMA StartKeeps ==
  ASSUME ChangeInv, NEW c \in Changes, NEW d \in Dates, StartChange(c, d)
  PROVE  ChangeInv'
<1>. DEFINE ended == EndHolds(change)
<1>1. /\ ended = [b \in Changes |-> ended[b]]
      /\ \A b \in Changes : IsRow(ended[b]) /\ ended[b].state # "held"
                           /\ (ended[b].state = "done" => change[b].state = "done")
  BY EndedHolds DEF ChangeInv
<1>2. \A b \in Changes : change[b].state # "done"
  BY DEF StartChange, Used
<1>3. PICK r : IsRow(r) /\ change' = [ended EXCEPT ![c] = r]
  <2>1. CASE change' = [ended EXCEPT ![c].state = "done"]
    <3>1. change' = [ended EXCEPT ![c] = [ended[c] EXCEPT !.state = "done"]]
      BY <2>1
    <3>. QED
      BY <3>1, <1>1, ExceptState
  <2>2. CASE change' # [ended EXCEPT ![c].state = "done"]
    <3>1. \E x : IsRow(x) /\ change' = [ended EXCEPT ![c] = x]
      BY <2>2 DEF StartChange, IsRow
    <3>. QED
      BY <3>1
  <2>. QED
    BY <2>1, <2>2
<1>. HIDE DEF ended
<1>4. \A b \in Changes : b # c => change'[b] = ended[b]
  BY <1>3, <1>1
<1>5. Rows'
  BY <1>3, <1>1 DEF Rows
<1>6. ASSUME NEW b \in Changes, b # c
      PROVE  ~ Active(b)'
  BY <1>1, <1>2, <1>4, <1>6 DEF Active
<1>. QED
  BY <1>5, <1>6 DEF ChangeInv, OneActive

-----------------------------------------------------------------------------
LEMMA InvStep == ChangeInv /\ [Next]_vars => ChangeInv'
<1>. SUFFICES ASSUME ChangeInv, [Next]_vars
              PROVE  ChangeInv'
  OBVIOUS
<1>. USE DEF ChangeInv
<1>1. CASE UNCHANGED change
  BY <1>1 DEF Rows, OneActive, Active
<1>2. ASSUME NEW c \in Changes, NEW d \in Dates, StartChange(c, d)
      PROVE  ChangeInv'
  BY <1>2, StartKeeps
<1>3. ASSUME NEW c \in Changes, ChangeOpened(c) \/ ChangeLost(c)
      PROVE  ChangeInv'
  <2>1. change' = [change EXCEPT ![c] = [change[c] EXCEPT !.call = "none"]]
    BY <1>3 DEF ChangeOpened, ChangeLost
  <2>. QED
    BY <2>1, ExceptCall, OneRow DEF Rows, Active
<1>4. ASSUME NEW c \in Changes, ChangeRefused(c)
      PROVE  ChangeInv'
  <2>. DEFINE x == IF change[c].state = "held" THEN Decided(change[c], "cancelled") ELSE change[c]
  <2>1. IsRow(x) /\ (x.state \in {"held", "done"} => Active(c))
    BY DecidedIsRow DEF Rows, Active
  <2>2. change' = [change EXCEPT ![c] = [x EXCEPT !.call = "none"]]
    BY <1>4 DEF ChangeRefused
  <2>. HIDE DEF x
  <2>. QED
    BY <2>1, <2>2, ExceptCall, OneRow
<1>5. ASSUME NEW c \in Changes, HoldAges(c)
      PROVE  ChangeInv'
  <2>1. PICK a : change' = [change EXCEPT ![c] = [change[c] EXCEPT !.age = a]]
    BY <1>5 DEF HoldAges
  <2>. QED
    BY <2>1, ExceptAge, OneRow DEF Rows, Active
<1>6. ASSUME NEW c \in Changes, SettleChange(c)
      PROVE  ChangeInv'
  <2>1. CASE Fits(c)
    <3>1. change' = [change EXCEPT ![c] = Decided(change[c], "done")]
      BY <1>6, <2>1 DEF SettleChange
    <3>2. Active(c)
      BY <2>1 DEF Fits, Active
    <3>. QED
      BY <3>1, <3>2, DecidedIsRow, OneRow
  <2>2. CASE ~ Fits(c)
    <3>. DEFINE x == IF change[c].state = "held" THEN Decided(change[c], "lapsed") ELSE change[c]
    <3>1. IsRow(x) /\ (x.state \in {"held", "done"} => Active(c))
      BY DecidedIsRow DEF Rows, Active
    <3>2. change' = [change EXCEPT ![c] = x]
      BY <1>6, <2>2 DEF SettleChange
    <3>. HIDE DEF x
    <3>. QED
      BY <3>1, <3>2, OneRow
  <2>. QED
    BY <2>1, <2>2
<1>7. ASSUME NEW o \in Orders, Capture(o)
      PROVE  ChangeInv'
  <2>1. CASE o \in Changes /\ SettleChange(o)
    BY <2>1, <1>6
  <2>2. CASE UNCHANGED change
    BY <2>2, <1>1
  <2>. QED
    BY <1>7, <2>1, <2>2 DEF Capture, SettleExtra
<1>8. ASSUME NEW d \in Dates, NEW p \in Parties, NEW s \in {"offline", "balance"},
             NEW fee \in {0, Fee * p}, OwnerMove(d, p, fee, s)
      PROVE  ChangeInv'
  <2>1. change' = EndHolds(change)
    BY <1>8 DEF OwnerMove
  <2>2. Rows'
    BY <2>1, EndedHolds DEF Rows
  <2>3. ASSUME NEW b \in Changes, Active(b)'
        PROVE  Active(b)
    BY <2>1, <2>3, EndedHolds DEF Active
  <2>. QED
    BY <2>2, <2>3 DEF OneActive
<1>. QED
  BY <1>1, <1>2, <1>3, <1>4, <1>5, <1>7, <1>8
  DEF Next, vars, money, booking, Others, OpenPart, OpenExtra, Pay, RemoveAddon, MarkBalancePaid, Ask,
      Decline, Approve, DayPasses, ExtendDue, CancelOverdue

-----------------------------------------------------------------------------
\* The online changes of a booking that were made are one at most (_used,
\* end_holds and settle_change together): of several changes started and paid
\* for, in any order and however late, one moves the booking.
THEOREM ChangedOnce == Spec => []OneOnlineChange
<1>1. ChangeInv => OneOnlineChange
  <2>. SUFFICES ASSUME ChangeInv
                PROVE  OneOnlineChange
    OBVIOUS
  <2>. DEFINE S == {c \in Changes : change[c].state = "done"}
  <2>1. \A b, c \in S : b = c
    BY DEF ChangeInv, OneActive, Active
  <2>2. CASE S = {}
    BY <2>2, FS_EmptySet DEF OneOnlineChange
  <2>3. CASE S # {}
    <3>1. PICK c \in S : S = {c}
      BY <2>1, <2>3
    <3>2. Cardinality(S) = 1
      BY <3>1, FS_Singleton
    <3>. QED
      BY <3>2 DEF OneOnlineChange
  <2>. QED
    BY <2>2, <2>3
<1>. QED
  BY <1>1, InitRows, InvStep, PTL DEF Spec

-----------------------------------------------------------------------------
(* The price, the money and the seats of the booking.                       *)

\* A change not yet paid for asks for what moving this party costs.
HeldRow(r) ==
  /\ r.from \in Dates /\ r.to \in Dates
  /\ r.party = party /\ r.fee = Fee * party
  /\ r.net = (Fare[r.to] - Fare[r.from]) * party + r.fee

HeldRows == \A c \in Changes : change[c].state = "held" => HeldRow(change[c])

TripInv == TypeOK /\ TotalIsThePrice /\ HoldsItsMoney /\ HeldRows

\* What the add-ons on a booking cost.
AddonsPrice(st) == Sum(Price, OnNow(st))

LEMMA PriceIs ==
  ASSUME NEW d, NEW p, NEW f, NEW st
  PROVE  PriceOf(d, p, f, st) = Fare[d] * p + f + AddonsPrice(st)
BY DEF PriceOf, AddonsPrice, Sum

LEMMA OnIsFinite ==
  ASSUME NEW st
  PROVE  /\ IsFiniteSet(OnNow(st)) /\ \A a \in OnNow(st) : Price[a] \in Nat
         /\ AddonsPrice(st) \in Nat
<1>1. IsFiniteSet(OnNow(st))
  BY BookedTripAssumption, FS_Subset DEF OnNow
<1>2. \A a \in OnNow(st) : Price[a] \in Nat
  BY BookedTripAssumption DEF OnNow
<1>. QED
  BY <1>1, <1>2, SumNat DEF AddonsPrice

\* An add-on that joins the booking adds its price, one that leaves it takes
\* its price away.
LEMMA AddonJoins ==
  ASSUME NEW st, NEW a \in Addons, st[a] \notin {"came", "bought"}, st = [b \in Addons |-> st[b]],
         NEW s \in {"came", "bought"}
  PROVE  AddonsPrice([st EXCEPT ![a] = s]) = AddonsPrice(st) + Price[a]
<1>1. OnNow([st EXCEPT ![a] = s]) = OnNow(st) \union {a} /\ a \notin OnNow(st)
  BY DEF OnNow
<1>2. \A b \in OnNow(st) \union {a} : Price[b] \in Int
  BY BookedTripAssumption DEF OnNow
<1>. QED
  BY <1>1, <1>2, OnIsFinite, SumAdds DEF AddonsPrice

LEMMA AddonLeaves ==
  ASSUME NEW st, NEW a \in Addons, st[a] \in {"came", "bought"}, st = [b \in Addons |-> st[b]],
         NEW s \in {"off", "returned"}
  PROVE  /\ AddonsPrice([st EXCEPT ![a] = s]) = AddonsPrice(st) - Price[a]
         /\ Price[a] <= AddonsPrice(st)
<1>. DEFINE to == [st EXCEPT ![a] = s]
<1>1. OnNow(to) = OnNow(st) \ {a} /\ a \in OnNow(st)
  BY DEF OnNow
<1>2. AddonsPrice(st) = Price[a] + AddonsPrice(to)
  <2>1. \A b \in OnNow(st) : Price[b] \in Int
    BY OnIsFinite
  <2>. HIDE DEF to
  <2>. QED
    BY <1>1, <2>1, OnIsFinite, SumTakes DEF AddonsPrice
<1>3. AddonsPrice(to) \in Nat /\ AddonsPrice(st) \in Nat /\ Price[a] \in Nat
  BY OnIsFinite, BookedTripAssumption
<1>. QED
  BY <1>2, <1>3

-----------------------------------------------------------------------------
\* What the prices are made from.
LEMMA Numbers ==
  /\ \A d \in Dates : Fare[d] \in Nat /\ Capacity[d] \in Nat
  /\ \A p \in Parties : p \in Nat /\ Fee * p \in Nat
  /\ \A d \in Dates, p \in Parties : Fare[d] * p \in Nat
  /\ Fee \in Nat /\ \A a \in Addons : Price[a] \in Nat
<1>1. \A x, y \in Nat : x * y \in Nat
  OBVIOUS
<1>. QED
  BY <1>1, BookedTripAssumption

LEMMA Smaller ==
  \A m, n \in Nat : AtMost(m, n) \in Nat /\ AtMost(m, n) <= m /\ AtMost(m, n) <= n
BY DEF AtMost

\* apply_swap makes the total the price of the new date and party.
LEMMA SwapPrices ==
  ASSUME TypeOK, TotalIsThePrice, status \in Live,
         NEW d \in Dates, NEW p \in Parties, NEW fee \in Nat, NEW net \in Int, NEW sum \in Nat,
         net = Fare[d] * p - Fare[date] * party + fee,
         Swap(d, net, fee, sum), party' = p, addon' = addon
  PROVE  /\ total' = total + net /\ total' \in Nat /\ paid' \in Nat /\ fees' \in Nat
         /\ status' \in Live /\ date' = d /\ kept' = kept /\ overdue' \in BOOLEAN
         /\ TotalIsThePrice'
<1>1. /\ total' = total + net /\ date' = d /\ fees' = fees + fee /\ kept' = kept
      /\ overdue' = FALSE /\ status' \in Live /\ paid' = AtMost(sum, total + net)
  BY DEF Swap, SwapMoney, Live
<1>2. total = Fare[date] * party + fees + AddonsPrice(addon)
  BY PriceIs DEF TotalIsThePrice
<1>3. /\ Fare[date] * party \in Nat /\ Fare[d] * p \in Nat /\ fees \in Nat
      /\ AddonsPrice(addon) \in Nat
  BY Numbers, OnIsFinite DEF TypeOK
<1>4. total + net = Fare[d] * p + (fees + fee) + AddonsPrice(addon) /\ total + net \in Nat
  BY <1>2, <1>3
<1>5. TotalIsThePrice'
  <2>1. total' = PriceOf(d, p, fees + fee, addon)
    BY <1>1, <1>4, PriceIs
  <2>. QED
    BY <1>1, <2>1 DEF TotalIsThePrice
<1>6. total' \in Nat /\ paid' \in Nat /\ fees' \in Nat
  BY <1>1, <1>3, <1>4, Smaller
<1>. QED
  BY <1>1, <1>5, <1>6

-----------------------------------------------------------------------------
(* The rows of changes, and the two halves of TypeOK.                       *)

Row == [state : {"none", "held", "done", "cancelled", "lapsed"}, from : Dates \union {None},
        to : Dates \union {None}, net : Int, pay : Nat, fee : Nat, party : Nat,
        age : {"hold", "recent", "old"}, call : {"none", "calling"}]

BookingType ==
  /\ status \in {"partially_paid", "confirmed", "cancelled"}
  /\ date \in Dates /\ party \in Parties /\ total \in Nat /\ paid \in Nat /\ kept \in Nat
  /\ fees \in Nat /\ overdue \in BOOLEAN

OrdersType ==
  /\ order \in [Orders -> [open : BOOLEAN, pays : Nat, taken : Nat]]
  /\ \A o \in Orders : order[o].taken <= order[o].pays /\ order[o].pays <= MaxPays[o]
  /\ part \in [Parts -> Nat]

AddonsType == addon \in [Addons -> {"none", "came", "off", "bought", "returned"}]

RowsType == change \in [Changes -> Row]

LEMMA TypeParts ==
  TypeOK <=> /\ BookingType /\ OrdersType /\ AddonsType /\ RowsType
             /\ asked \in BOOLEAN /\ others \in [Dates -> Nat]
BY DEF TypeOK, BookingType, OrdersType, AddonsType, RowsType, Row

LEMMA TypeNext ==
  ASSUME BookingType', OrdersType', AddonsType', RowsType',
         asked' \in BOOLEAN, others' \in [Dates -> Nat]
  PROVE  TypeOK'
BY DEF TypeOK, BookingType, OrdersType, AddonsType, RowsType, Row

LEMMA RowKinds ==
  /\ NoChange \in Row
  /\ \A r \in Row, s \in {"none", "held", "done", "cancelled", "lapsed"} :
       /\ Decided(r, s) \in Row /\ Decided(r, s).state = s
       /\ [r EXCEPT !.state = s] \in Row
  /\ \A r \in Row, a \in {"hold", "recent", "old"} : [r EXCEPT !.age = a] \in Row
  /\ \A r \in Row, c \in {"none", "calling"} : [r EXCEPT !.call = c] \in Row
<1>1. NoChange \in Row
  BY DEF NoChange, Row
<1>2. ASSUME NEW r \in Row, NEW s \in {"none", "held", "done", "cancelled", "lapsed"}
      PROVE  [r EXCEPT !.state = s] \in Row
  BY <1>2 DEF Row
<1>3. ASSUME NEW r \in Row, NEW c \in {"none", "calling"}
      PROVE  [r EXCEPT !.call = c] \in Row
  BY <1>3 DEF Row
<1>4. ASSUME NEW r \in Row, NEW a \in {"hold", "recent", "old"}
      PROVE  [r EXCEPT !.age = a] \in Row
  BY <1>4 DEF Row
<1>5. ASSUME NEW r \in Row, NEW s \in {"none", "held", "done", "cancelled", "lapsed"}
      PROVE  Decided(r, s) \in Row /\ Decided(r, s).state = s
  <2>1. Decided(r, s) = [[NoChange EXCEPT !.state = s] EXCEPT !.call = r.call]
    BY DEF Decided, NoChange
  <2>2. r.call \in {"none", "calling"}
    BY DEF Row
  <2>3. Decided(r, s).state = s
    BY DecidedIsRow
  <2>4. [NoChange EXCEPT !.state = s] \in Row
    BY <1>1, <1>2
  <2>. QED
    BY <1>3, <2>1, <2>2, <2>3, <2>4
<1>. QED
  BY <1>1, <1>2, <1>3, <1>4, <1>5

\* end_holds leaves no row held.
LEMMA EndedRows ==
  ASSUME RowsType
  PROVE  /\ EndHolds(change) \in [Changes -> Row]
         /\ \A c \in Changes : EndHolds(change)[c].state # "held"
BY RowKinds DEF EndHolds, RowsType

\* A step that leaves the booking's dates and party, and holds no seats anew.
LEMMA RowsStay ==
  ASSUME RowsType, HeldRows, UNCHANGED party, NEW c \in Changes, NEW r \in Row,
         change' = [change EXCEPT ![c] = r],
         r.state = "held" =>
           /\ change[c].state = "held" /\ r.from = change[c].from /\ r.to = change[c].to
           /\ r.party = change[c].party /\ r.fee = change[c].fee /\ r.net = change[c].net
  PROVE  RowsType' /\ HeldRows'
<1>1. RowsType'
  BY DEF RowsType
<1>2. ASSUME NEW b \in Changes, change'[b].state = "held"
      PROVE  HeldRow(change[b])'
  <2>1. CASE b = c
    BY <1>2, <2>1 DEF RowsType, HeldRows, HeldRow
  <2>2. CASE b # c
    BY <1>2, <2>2 DEF RowsType, HeldRows, HeldRow
  <2>. QED
    BY <2>1, <2>2
<1>. QED
  BY <1>1, <1>2 DEF HeldRows

LEMMA HeldRowsSame ==
  ASSUME HeldRows, UNCHANGED <<party, change>>
  PROVE  HeldRows'
BY DEF HeldRows, HeldRow

-----------------------------------------------------------------------------
(* Payments on open orders.                                                 *)

LEMMA OrdersStep ==
  ASSUME OrdersType
  PROVE  /\ \A o \in Orders : Opens(o) /\ UNCHANGED part => OrdersType'
         /\ \A o \in Parts, n \in Nat : Opens(o) /\ part' = [part EXCEPT ![o] = n] => OrdersType'
         /\ \A o \in Orders : Pay(o) => OrdersType'
         /\ \A o \in Orders : Capture(o) => OrdersType'
         /\ UNCHANGED money => OrdersType'
<1>. USE DEF OrdersType, Opens
<1>1. ASSUME NEW o \in Orders, Opens(o), UNCHANGED part
      PROVE  OrdersType'
  BY <1>1
<1>2. ASSUME NEW o \in Parts, NEW n \in Nat, Opens(o), part' = [part EXCEPT ![o] = n]
      PROVE  OrdersType'
  BY <1>2 DEF Orders
<1>3. ASSUME NEW o \in Orders, Pay(o)
      PROVE  OrdersType'
  <2>1. MaxPays[o] \in Nat /\ order[o].pays \in Nat /\ order[o].pays + 1 <= MaxPays[o]
    <3>1. MaxPays[o] \in Nat
      BY BookedTripAssumption
    <3>2. order[o].pays \in Nat /\ order[o].pays < MaxPays[o]
      BY <1>3 DEF Pay
    <3>. QED
      BY <3>1, <3>2
  <2>2. order' = [order EXCEPT ![o] = [order[o] EXCEPT !.pays = order[o].pays + 1]] /\ part' = part
    BY <1>3 DEF Pay
  <2>. QED
    BY <2>1, <2>2
<1>4. ASSUME NEW o \in Orders, Capture(o)
      PROVE  OrdersType'
  BY <1>4 DEF Capture
<1>5. UNCHANGED money => OrdersType'
  BY DEF money
<1>. QED
  BY <1>1, <1>2, <1>3, <1>4, <1>5

-----------------------------------------------------------------------------
\* The price stays the price when nothing it is made from changes, or the
\* booking ends.
LEMMA PriceStays ==
  ASSUME TotalIsThePrice, status' \in Live => status \in Live,
         UNCHANGED <<date, party, fees, total, addon>>
  PROVE  TotalIsThePrice'
BY DEF TotalIsThePrice

LEMMA StartTrip ==
  ASSUME TripInv, NEW c \in Changes, NEW d \in Dates, StartChange(c, d)
  PROVE  TripInv'
<1>. DEFINE fee == Fee * party
            net == (Fare[d] - Fare[date]) * party + fee
            ended == EndHolds(change)
            row == [state |-> "held", from |-> date, to |-> d, net |-> net, pay |-> PayNow(d, net),
                    fee |-> fee, party |-> party, age |-> "hold", call |-> "calling"]
<1>1. /\ BookingType /\ OrdersType /\ AddonsType /\ RowsType
      /\ asked \in BOOLEAN /\ others \in [Dates -> Nat] /\ status \in Live
  BY TypeParts DEF TripInv, StartChange
<1>2. /\ fee \in Nat /\ net \in Int /\ net = Fare[d] * party - Fare[date] * party + fee
      /\ total \in Nat /\ paid \in Nat /\ date \in Dates /\ party \in Nat
  BY <1>1, Numbers DEF BookingType
<1>3. /\ UNCHANGED <<asked, addon, money, others, party>>
      /\ \/ /\ change' = [ended EXCEPT ![c] = [ended[c] EXCEPT !.state = "done"]]
            /\ Swap(d, net, fee, paid)
         \/ /\ change' = [ended EXCEPT ![c] = row]
            /\ UNCHANGED booking
  BY DEF StartChange, booking
<1>4. PayNow(d, net) \in Nat
  BY <1>2 DEF PayNow, Over, Deposit
<1>. HIDE DEF fee, net
<1>5. ended \in [Changes -> Row] /\ \A b \in Changes : ended[b].state # "held"
  BY <1>1, EndedRows
<1>6. row \in Row /\ HeldRow(row)
  BY <1>2, <1>4 DEF Row, HeldRow, fee, net
<1>7. RowsType' /\ HeldRows'
  <2>1. PICK r \in Row : change' = [ended EXCEPT ![c] = r] /\ (r.state = "held" => HeldRow(r))
    <3>1. CASE change' = [ended EXCEPT ![c] = row]
      BY <1>6, <3>1
    <3>2. CASE change' = [ended EXCEPT ![c] = [ended[c] EXCEPT !.state = "done"]]
      <4>1. [ended[c] EXCEPT !.state = "done"] \in Row
        BY <1>5, RowKinds
      <4>2. [ended[c] EXCEPT !.state = "done"].state # "held"
        BY <1>5 DEF Row
      <4>. QED
        BY <3>2, <4>1, <4>2
    <3>. QED
      BY <1>3, <3>1, <3>2
  <2>2. RowsType'
    BY <1>5, <2>1 DEF RowsType
  <2>3. ASSUME NEW b \in Changes, change'[b].state = "held"
        PROVE  HeldRow(change[b])'
    BY <1>3, <1>5, <2>1, <2>3 DEF HeldRow
  <2>. QED
    BY <2>2, <2>3 DEF HeldRows
<1>. HIDE DEF row, ended
<1>8. CASE Swap(d, net, fee, paid)
  <2>1. /\ total' = total + net /\ total' \in Nat /\ paid' \in Nat /\ fees' \in Nat
        /\ status' \in Live /\ date' = d /\ kept' = kept /\ overdue' \in BOOLEAN
        /\ TotalIsThePrice'
    BY <1>1, <1>2, <1>3, <1>8, SwapPrices DEF TripInv, BookingType
  <2>2. BookingType' /\ OrdersType' /\ AddonsType'
    BY <1>1, <1>3, <2>1, OrdersStep DEF BookingType, AddonsType, Live
  <2>3. HoldsItsMoney'
    BY <1>2, <1>8, <2>1 DEF Swap, SwapMoney, HoldsItsMoney, AtMost, Live
  <2>. QED
    BY <1>1, <1>3, <1>7, <2>1, <2>2, <2>3, TypeNext DEF TripInv
<1>9. CASE UNCHANGED booking
  <2>1. BookingType' /\ OrdersType' /\ AddonsType' /\ HoldsItsMoney' /\ TotalIsThePrice'
    BY <1>1, <1>3, <1>9, OrdersStep, PriceStays
    DEF TripInv, BookingType, AddonsType, booking, HoldsItsMoney
  <2>. QED
    BY <1>1, <1>3, <1>7, <2>1, TypeNext DEF TripInv
<1>. QED
  BY <1>3, <1>8, <1>9

\* A step of the booking alone, which no row and no order follows.
LEMMA BookingStep ==
  ASSUME TripInv, BookingType', TotalIsThePrice', HoldsItsMoney', asked' \in BOOLEAN,
         UNCHANGED <<party, addon, change, money, others>>
  PROVE  TripInv'
<1>1. OrdersType' /\ AddonsType' /\ RowsType' /\ HeldRows'
  BY TypeParts, OrdersStep, HeldRowsSame DEF TripInv, AddonsType, RowsType
<1>2. others' \in [Dates -> Nat]
  BY TypeParts DEF TripInv
<1>. QED
  BY <1>1, <1>2, TypeNext DEF TripInv

\* A step that leaves the booking as it was.
LEMMA BookingSame ==
  ASSUME TripInv, UNCHANGED <<booking, addon>>
  PROVE  BookingType' /\ AddonsType' /\ TotalIsThePrice' /\ HoldsItsMoney'
BY TypeParts, PriceStays DEF TripInv, BookingType, AddonsType, HoldsItsMoney, booking

\* The steps of a change's call, and of its clock.
LEMMA RowTrip ==
  ASSUME TripInv, NEW c \in Changes,
         ChangeOpened(c) \/ ChangeRefused(c) \/ ChangeLost(c) \/ HoldAges(c)
  PROVE  TripInv'
<1>1. /\ BookingType /\ OrdersType /\ AddonsType /\ RowsType
      /\ asked \in BOOLEAN /\ others \in [Dates -> Nat] /\ change[c] \in Row
  BY TypeParts DEF TripInv, RowsType
<1>2. UNCHANGED <<booking, asked, addon, others>>
  BY DEF ChangeOpened, ChangeRefused, ChangeLost, HoldAges
<1>3. OrdersType'
  BY <1>1, OrdersStep DEF ChangeOpened, ChangeRefused, ChangeLost, HoldAges, Orders, money
<1>4. \E r \in Row :
        /\ change' = [change EXCEPT ![c] = r]
        /\ r.state = "held" =>
             /\ change[c].state = "held" /\ r.from = change[c].from /\ r.to = change[c].to
             /\ r.party = change[c].party /\ r.fee = change[c].fee /\ r.net = change[c].net
  <2>1. CASE ChangeOpened(c) \/ ChangeLost(c)
    <3>1. change' = [change EXCEPT ![c] = [change[c] EXCEPT !.call = "none"]]
      BY <2>1 DEF ChangeOpened, ChangeLost
    <3>2. [change[c] EXCEPT !.call = "none"] \in Row
      BY <1>1, RowKinds
    <3>. QED
      BY <1>1, <3>1, <3>2 DEF Row
  <2>2. CASE HoldAges(c)
    <3>1. PICK a \in {"recent", "old"} : change' = [change EXCEPT ![c] = [change[c] EXCEPT !.age = a]]
      BY <2>2 DEF HoldAges
    <3>2. [change[c] EXCEPT !.age = a] \in Row
      BY <1>1, RowKinds
    <3>. QED
      BY <1>1, <3>1, <3>2 DEF Row
  <2>3. CASE ChangeRefused(c)
    <3>. DEFINE x == IF change[c].state = "held" THEN Decided(change[c], "cancelled") ELSE change[c]
    <3>1. x \in Row /\ x.state # "held"
      BY <1>1, RowKinds
    <3>2. change' = [change EXCEPT ![c] = [x EXCEPT !.call = "none"]]
      BY <2>3 DEF ChangeRefused
    <3>. HIDE DEF x
    <3>3. [x EXCEPT !.call = "none"] \in Row
      BY <3>1, RowKinds
    <3>4. [x EXCEPT !.call = "none"].state # "held"
      BY <3>1 DEF Row
    <3>. QED
      BY <3>2, <3>3, <3>4
  <2>. QED
    BY <2>1, <2>2, <2>3
<1>5. RowsType' /\ HeldRows'
  BY <1>1, <1>2, <1>4, RowsStay DEF TripInv, booking
<1>6. BookingType' /\ AddonsType' /\ TotalIsThePrice' /\ HoldsItsMoney'
  BY <1>2, BookingSame
<1>. QED
  BY <1>1, <1>2, <1>3, <1>5, <1>6, TypeNext DEF TripInv

\* The booking ends, is confirmed, or only its clocks and its request move.
LEMMA DeskTrip ==
  ASSUME TripInv,
         \/ MarkBalancePaid \/ Ask \/ Decline \/ Approve \/ DayPasses \/ ExtendDue
         \/ CancelOverdue
  PROVE  TripInv'
<1>1. BookingType /\ asked \in BOOLEAN
  BY TypeParts DEF TripInv
<1>2. TotalIsThePrice /\ HoldsItsMoney
  BY DEF TripInv
<1>3. CASE Ask \/ Decline
  BY <1>1, <1>3, BookingStep, BookingSame DEF Ask, Decline, booking
<1>4. CASE MarkBalancePaid
  <2>1. BookingType' /\ TotalIsThePrice' /\ HoldsItsMoney'
    BY <1>1, <1>2, <1>4, PriceStays
    DEF MarkBalancePaid, StaysOverdue, BookingType, HoldsItsMoney, Live
  <2>. QED
    BY <1>1, <1>4, <2>1, BookingStep DEF MarkBalancePaid
<1>5. CASE DayPasses \/ ExtendDue
  <2>1. BookingType' /\ TotalIsThePrice' /\ HoldsItsMoney'
    BY <1>1, <1>2, <1>5, PriceStays DEF DayPasses, ExtendDue, BookingType, HoldsItsMoney
  <2>. QED
    BY <1>1, <1>5, <2>1, BookingStep DEF DayPasses, ExtendDue
<1>6. CASE Approve \/ CancelOverdue
  <2>1. PICK n \in {0, paid} : Ends(n)
    BY <1>6 DEF Approve, CancelOverdue
  <2>2. BookingType' /\ TotalIsThePrice' /\ HoldsItsMoney'
    BY <1>1, <1>2, <1>6, <2>1, PriceStays
    DEF Approve, CancelOverdue, Ends, StaysOverdue, BookingType, HoldsItsMoney, Live
  <2>. QED
    BY <1>1, <1>6, <2>1, <2>2, BookingStep DEF Approve, CancelOverdue, Ends
<1>. QED
  BY <1>3, <1>4, <1>5, <1>6

\* Others' seats, and orders that open or are paid.
LEMMA OrderTrip ==
  ASSUME TripInv,
         \/ \E d \in Dates : \E n \in 0..Capacity[d] : Others(d, n)
         \/ \E o \in Parts, n \in 1..total : OpenPart(o, n)
         \/ \E o \in Extras : OpenExtra(o)
         \/ \E o \in Orders : Pay(o)
  PROVE  TripInv'
<1>1. /\ BookingType /\ OrdersType /\ AddonsType /\ RowsType
      /\ asked \in BOOLEAN /\ others \in [Dates -> Nat]
  BY TypeParts DEF TripInv
<1>2. UNCHANGED <<booking, asked, addon, change>>
  BY DEF Others, OpenPart, OpenExtra, Pay
<1>3. OrdersType'
  <2>1. CASE \E o \in Parts, n \in 1..total : OpenPart(o, n)
    <3>1. PICK o \in Parts, n \in 1..total : OpenPart(o, n)
      BY <2>1
    <3>2. n \in Nat
      BY <1>1 DEF BookingType
    <3>. QED
      BY <1>1, <3>1, <3>2, OrdersStep DEF OpenPart
  <2>2. CASE \E o \in Extras : OpenExtra(o)
    BY <1>1, <2>2, OrdersStep DEF OpenExtra, Orders
  <2>3. CASE \E o \in Orders : Pay(o)
    BY <1>1, <2>3, OrdersStep
  <2>4. CASE UNCHANGED money
    BY <1>1, <2>4, OrdersStep
  <2>. QED
    BY <2>1, <2>2, <2>3, <2>4 DEF Others
<1>4. others' \in [Dates -> Nat]
  <2>1. ASSUME NEW d \in Dates, NEW n \in 0 .. Capacity[d], Others(d, n)
        PROVE  others' \in [Dates -> Nat]
    <3>1. n \in Nat
      BY Numbers
    <3>. QED
      BY <1>1, <2>1, <3>1 DEF Others
  <2>. QED
    BY <1>1, <2>1 DEF OpenPart, OpenExtra, Pay
<1>5. BookingType' /\ AddonsType' /\ TotalIsThePrice' /\ HoldsItsMoney'
  BY <1>2, BookingSame
<1>6. RowsType' /\ HeldRows'
  BY <1>1, <1>2, HeldRowsSame DEF RowsType, TripInv, booking
<1>. QED
  BY <1>1, <1>2, <1>3, <1>4, <1>5, <1>6, TypeNext DEF TripInv

\* settle_change of one payment (Capture of a change).
LEMMA SettleChangeTrip ==
  ASSUME TripInv, NEW c \in Changes, SettleChange(c)
  PROVE  /\ BookingType' /\ AddonsType' /\ RowsType'
         /\ TotalIsThePrice' /\ HoldsItsMoney' /\ HeldRows'
<1>1. BookingType /\ AddonsType /\ RowsType /\ change[c] \in Row
  BY TypeParts DEF TripInv, RowsType
<1>2. CASE Fits(c)
  <2>1. /\ change[c].state = "held" /\ status \in Live /\ date = change[c].from
        /\ HeldRow(change[c])
    BY <1>2 DEF Fits, TripInv, HeldRows
  <2>2. /\ change' = [change EXCEPT ![c] = Decided(change[c], "done")]
        /\ Swap(change[c].to, change[c].net, change[c].fee, paid + change[c].pay)
        /\ party' = party /\ addon' = addon
    BY <1>2 DEF SettleChange
  <2>. DEFINE sum == paid + change[c].pay
              net == change[c].net
  <2>3. /\ sum \in Nat /\ net \in Int /\ change[c].to \in Dates /\ change[c].fee \in Nat
        /\ net = Fare[change[c].to] * party - Fare[date] * party + change[c].fee
        /\ total \in Nat /\ party \in Parties
    <3>1. /\ paid \in Nat /\ change[c].pay \in Nat /\ net \in Int /\ change[c].fee \in Nat
          /\ total \in Nat /\ party \in Parties /\ date \in Dates
      BY <1>1 DEF BookingType, Row
    <3>2. Fare[change[c].to] \in Nat /\ Fare[date] \in Nat /\ party \in Nat
      BY <2>1, <3>1, Numbers DEF HeldRow
    <3>3. net = (Fare[change[c].to] - Fare[date]) * party + change[c].fee
      BY <2>1 DEF HeldRow
    <3>4. change[c].to \in Dates
      BY <2>1 DEF HeldRow
    <3>. QED
      BY <3>1, <3>2, <3>3, <3>4
  <2>. HIDE DEF sum, net
  <2>4. Swap(change[c].to, net, change[c].fee, sum)
    BY <2>2 DEF sum, net
  <2>5. /\ total' = total + net /\ total' \in Nat /\ paid' \in Nat /\ fees' \in Nat
        /\ status' \in Live /\ date' = change[c].to /\ kept' = kept /\ overdue' \in BOOLEAN
        /\ TotalIsThePrice'
    BY <2>1, <2>2, <2>3, <2>4, SwapPrices DEF TripInv
  <2>6. BookingType' /\ AddonsType'
    BY <1>1, <2>2, <2>3, <2>5 DEF BookingType, AddonsType, Live
  <2>7. HoldsItsMoney'
    BY <2>3, <2>4, <2>5 DEF Swap, SwapMoney, HoldsItsMoney, AtMost, Live
  <2>8. Decided(change[c], "done") \in Row /\ Decided(change[c], "done").state = "done"
    BY <1>1, RowKinds
  <2>9. RowsType' /\ HeldRows'
    BY <1>1, <2>2, <2>8, RowsStay DEF TripInv
  <2>. QED
    BY <2>5, <2>6, <2>7, <2>9
<1>3. CASE ~ Fits(c)
  <2>. DEFINE x == IF change[c].state = "held" THEN Decided(change[c], "lapsed") ELSE change[c]
  <2>1. change' = [change EXCEPT ![c] = x] /\ UNCHANGED <<booking, addon>>
    BY <1>3 DEF SettleChange, Returned
  <2>2. x \in Row /\ x.state # "held"
    BY <1>1, RowKinds
  <2>. HIDE DEF x
  <2>3. RowsType' /\ HeldRows'
    BY <1>1, <2>1, <2>2, RowsStay DEF TripInv, booking
  <2>. QED
    BY <2>1, <2>3, BookingSame
<1>. QED
  BY <1>2, <1>3

\* settle_extras of one payment.
LEMMA SettleExtraTrip ==
  ASSUME TripInv, status \in Live, NEW o \in Extras, SettleExtra(o)
  PROVE  /\ BookingType' /\ AddonsType' /\ RowsType'
         /\ TotalIsThePrice' /\ HoldsItsMoney' /\ HeldRows'
<1>. DEFINE a == AddonOf[o]
<1>1. /\ BookingType /\ AddonsType /\ RowsType
      /\ a \in Addons /\ Price[a] \in Nat
  BY TypeParts, Numbers, BookedTripAssumption DEF TripInv
<1>. HIDE DEF a
<1>2. RowsType' /\ HeldRows'
  BY <1>1, HeldRowsSame DEF SettleExtra, TripInv, RowsType
<1>3. CASE addon[a] = "none"
  <2>1. /\ addon' = [addon EXCEPT ![a] = "bought"]
        /\ total' = total + Price[a] /\ paid' = paid + Price[a]
        /\ UNCHANGED <<status, date, party, kept, fees, overdue>>
    BY <1>3 DEF SettleExtra, a
  <2>2. BookingType' /\ AddonsType'
    BY <1>1, <2>1 DEF BookingType, AddonsType
  <2>3. TotalIsThePrice'
    <3>1. AddonsPrice(addon') = AddonsPrice(addon) + Price[a]
      BY <1>1, <1>3, <2>1, AddonJoins DEF AddonsType
    <3>2. total = Fare[date] * party + fees + AddonsPrice(addon)
      BY PriceIs DEF TripInv, TotalIsThePrice
    <3>3. /\ Fare[date] * party \in Nat /\ fees \in Nat /\ AddonsPrice(addon) \in Nat
      BY <1>1, Numbers, OnIsFinite DEF BookingType
    <3>4. total' = Fare[date] * party + fees + AddonsPrice(addon')
      BY <1>1, <2>1, <3>1, <3>2, <3>3
    <3>5. total' = PriceOf(date, party, fees, addon')
      BY <3>4, PriceIs
    <3>. QED
      BY <2>1, <3>5 DEF TotalIsThePrice
  <2>4. HoldsItsMoney'
    <3>1. \A b \in Addons : addon[b] = "returned" => addon'[b] = "returned"
      BY <1>1, <1>3, <2>1 DEF AddonsType
    <3>. QED
      BY <1>1, <2>1, <3>1 DEF HoldsItsMoney, TripInv, BookingType, Live
  <2>. QED
    BY <1>2, <2>2, <2>3, <2>4
<1>4. CASE addon[a] # "none"
  <2>1. UNCHANGED <<booking, addon>>
    BY <1>4 DEF SettleExtra, booking, a
  <2>. QED
    BY <1>2, <2>1, BookingSame
<1>. QED
  BY <1>3, <1>4

LEMMA CaptureTrip ==
  ASSUME TripInv, NEW o \in Orders, Capture(o)
  PROVE  TripInv'
<1>1. /\ BookingType /\ OrdersType /\ AddonsType /\ RowsType
      /\ asked \in BOOLEAN /\ others \in [Dates -> Nat]
  BY TypeParts DEF TripInv
<1>2. OrdersType' /\ UNCHANGED <<asked, others>>
  BY <1>1, OrdersStep DEF Capture
<1>3. /\ BookingType' /\ AddonsType' /\ RowsType'
      /\ TotalIsThePrice' /\ HoldsItsMoney' /\ HeldRows'
  <2>1. CASE o \in Changes /\ SettleChange(o)
    BY <2>1, SettleChangeTrip
  <2>2. CASE o \in Extras /\ status \in Live /\ SettleExtra(o)
    BY <2>2, SettleExtraTrip
  <2>3. ASSUME NEW n \in Nat, SettleMoney(n), StaysOverdue,
               UNCHANGED <<date, party, total, kept, fees, addon, change>>
        PROVE  /\ BookingType' /\ AddonsType' /\ RowsType'
               /\ TotalIsThePrice' /\ HoldsItsMoney' /\ HeldRows'
    <3>1. status' = status \/ (status = "partially_paid" /\ status' = "confirmed")
      BY <2>3 DEF SettleMoney
    <3>2. BookingType'
      <4>1. paid + n \in Nat /\ kept \in Nat /\ total \in Nat
        BY <1>1 DEF BookingType
      <4>2. paid' \in Nat
        BY <2>3, <4>1, Smaller DEF SettleMoney
      <4>. QED
        BY <1>1, <2>3, <3>1, <4>2 DEF StaysOverdue, BookingType
    <3>3. HoldsItsMoney'
      BY <1>1, <2>3 DEF SettleMoney, HoldsItsMoney, TripInv, BookingType, AtMost
    <3>4. TotalIsThePrice'
      BY <2>3, <3>1, PriceStays DEF TripInv, Live
    <3>. QED
      BY <1>1, <2>3, <3>2, <3>3, <3>4, HeldRowsSame DEF TripInv, AddonsType, RowsType
  <2>4. o \in Parts => part[o] \in Nat
    BY <1>1 DEF OrdersType
  <2>5. o \in Extras => Price[AddonOf[o]] \in Nat
    BY Numbers, BookedTripAssumption
  <2>. QED
    BY <2>1, <2>2, <2>3, <2>4, <2>5 DEF Capture
<1>. QED
  BY <1>1, <1>2, <1>3, TypeNext DEF TripInv

LEMMA OwnerMoveTrip ==
  ASSUME TripInv, NEW d \in Dates, NEW p \in Parties, NEW s \in {"offline", "balance"},
         NEW fee \in {0, Fee * p}, OwnerMove(d, p, fee, s)
  PROVE  TripInv'
<1>. DEFINE net == Fare[d] * p - Fare[date] * party + fee
            rise == AtMost(Over(net), Over(total + net - paid))
            sum == paid + (IF s = "offline" THEN rise ELSE 0)
<1>1. /\ BookingType /\ OrdersType /\ AddonsType /\ RowsType
      /\ asked \in BOOLEAN /\ others \in [Dates -> Nat]
  BY TypeParts DEF TripInv
<1>2. /\ status \in Live /\ Swap(d, net, fee, sum) /\ party' = p /\ change' = EndHolds(change)
      /\ UNCHANGED <<asked, addon, money, others>>
  BY DEF OwnerMove
<1>3. /\ fee \in Nat /\ net \in Int /\ sum \in Nat /\ total \in Nat
  <2>1. fee \in Nat /\ net \in Int
    BY <1>1, Numbers DEF BookingType
  <2>. HIDE DEF net
  <2>2. Over(net) \in Nat /\ Over(total + net - paid) \in Nat /\ paid \in Nat /\ total \in Nat
    BY <1>1, <2>1 DEF Over, BookingType
  <2>3. rise \in Nat
    BY <2>2, Smaller
  <2>. HIDE DEF rise
  <2>. QED
    BY <2>1, <2>2, <2>3
<1>4. /\ total' = total + net /\ total' \in Nat /\ paid' \in Nat /\ fees' \in Nat
      /\ status' \in Live /\ date' = d /\ kept' = kept /\ overdue' \in BOOLEAN
      /\ TotalIsThePrice'
  <2>1. net = Fare[d] * p - Fare[date] * party + fee
    OBVIOUS
  <2>. HIDE DEF net, sum
  <2>. QED
    BY <1>2, <1>3, <2>1, SwapPrices DEF TripInv
<1>. HIDE DEF net, sum
<1>5. BookingType' /\ OrdersType' /\ AddonsType'
  BY <1>1, <1>2, <1>4, OrdersStep DEF BookingType, AddonsType, Live
<1>6. HoldsItsMoney'
  BY <1>2, <1>3, <1>4 DEF Swap, SwapMoney, HoldsItsMoney, AtMost, Live
<1>7. RowsType' /\ HeldRows'
  BY <1>1, <1>2, EndedRows DEF RowsType, HeldRows
<1>. QED
  BY <1>1, <1>2, <1>4, <1>5, <1>6, <1>7, TypeNext DEF TripInv

LEMMA RemoveAddonTrip ==
  ASSUME TripInv, NEW a \in Addons, RemoveAddon(a)
  PROVE  TripInv'
<1>. DEFINE due == total - Price[a]
            back == GivenBack(a, due)
            s == IF addon[a] = "came" THEN "off" ELSE "returned"
<1>1. BookingType /\ OrdersType /\ AddonsType /\ RowsType /\ Price[a] \in Nat
  BY TypeParts, Numbers DEF TripInv
<1>2. /\ status \in Live /\ addon[a] \in {"came", "bought"} /\ addon' = [addon EXCEPT ![a] = s]
      /\ total' = due /\ paid' = paid - back /\ StaysOverdue
      /\ status' = IF status = "partially_paid" /\ paid >= due THEN "confirmed" ELSE status
      /\ UNCHANGED <<date, party, kept, fees, asked, change, money, others>>
  BY DEF RemoveAddon
<1>3. /\ AddonsPrice(addon') = AddonsPrice(addon) - Price[a] /\ Price[a] <= AddonsPrice(addon)
      /\ addon = [b \in Addons |-> addon[b]]
  BY <1>1, <1>2, AddonLeaves DEF AddonsType
<1>4. due \in Nat /\ TotalIsThePrice'
  <2>1. total = Fare[date] * party + fees + AddonsPrice(addon)
    BY <1>2, PriceIs DEF TripInv, TotalIsThePrice
  <2>2. Fare[date] * party \in Nat /\ fees \in Nat /\ AddonsPrice(addon) \in Nat
    BY <1>1, Numbers, OnIsFinite DEF BookingType
  <2>3. due = Fare[date] * party + fees + AddonsPrice(addon') /\ due \in Nat
    BY <1>1, <1>3, <2>1, <2>2
  <2>4. due = PriceOf(date, party, fees, addon')
    BY <2>3, PriceIs
  <2>. QED
    BY <1>2, <2>3, <2>4 DEF TotalIsThePrice
<1>. DEFINE given == IF status = "partially_paid" /\ addon[a] = "came"
                     THEN IF Price[a] < (IF paid > due THEN paid - due ELSE 0) THEN Price[a]
                          ELSE (IF paid > due THEN paid - due ELSE 0)
                     ELSE IF Price[a] < paid THEN Price[a] ELSE paid
<1>5. back = given
  BY <1>1, <1>4 DEF GivenBack, AtMost, Over, BookingType
<1>6. paid \in Nat /\ total \in Nat /\ due + Price[a] = total
  BY <1>1 DEF BookingType
<1>. HIDE DEF due, back
<1>7. paid - back \in Nat
  BY <1>1, <1>4, <1>5, <1>6
<1>8. BookingType' /\ AddonsType'
  BY <1>1, <1>2, <1>4, <1>7 DEF BookingType, AddonsType, StaysOverdue
<1>9. HoldsItsMoney'
  <2>1. /\ \A b \in Addons : addon[b] = "returned" => addon'[b] = "returned"
        /\ addon[a] = "bought" => addon'[a] = "returned"
    BY <1>1, <1>2 DEF AddonsType
  <2>2. /\ status = "partially_paid" => paid < total
        /\ status = "confirmed" =>
             paid <= total /\ (paid = total \/ \E b \in Addons : addon[b] = "returned")
    BY DEF HoldsItsMoney, TripInv
  <2>3. status' = "partially_paid" => paid' < total'
    BY <1>1, <1>2, <1>4, <1>5, <1>6, <1>7
  <2>4. status' = "confirmed" => paid' <= total'
    BY <1>1, <1>2, <1>4, <1>5, <1>6, <1>7, <2>2
  <2>5. status' = "confirmed" => paid' = total' \/ \E b \in Addons : addon'[b] = "returned"
    <3>1. CASE status = "confirmed"
      BY <1>1, <1>2, <1>4, <1>5, <1>6, <2>1, <2>2, <3>1
    <3>2. CASE status = "partially_paid" /\ addon[a] = "came"
      BY <1>1, <1>2, <1>4, <1>5, <1>6, <2>2, <3>2
    <3>3. CASE addon[a] = "bought"
      BY <2>1, <3>3
    <3>. QED
      BY <1>2, <3>1, <3>2, <3>3 DEF Live
  <2>6. status' # "cancelled"
    BY <1>2 DEF Live
  <2>. QED
    BY <2>3, <2>4, <2>5, <2>6 DEF HoldsItsMoney
<1>10. OrdersType' /\ RowsType' /\ HeldRows'
  BY <1>1, <1>2, OrdersStep, HeldRowsSame DEF RowsType, TripInv
<1>11. asked' \in BOOLEAN /\ others' \in [Dates -> Nat]
  BY <1>2, TypeParts DEF TripInv
<1>. QED
  BY <1>4, <1>8, <1>9, <1>10, <1>11, TypeNext DEF TripInv

LEMMA InitTrip == Init => TripInv
<1>. SUFFICES ASSUME Init
              PROVE  TripInv
  OBVIOUS
<1>1. /\ date \in Dates /\ party \in Parties /\ addon \in [Addons -> {"none", "came"}]
      /\ total = PriceOf(date, party, 0, addon) /\ kept = 0 /\ fees = 0
      /\ overdue = FALSE /\ asked = FALSE
  BY DEF Init
<1>2. total \in Nat
  <2>1. total = Fare[date] * party + 0 + AddonsPrice(addon)
    BY <1>1, PriceIs
  <2>. QED
    BY <1>1, <2>1, Numbers, OnIsFinite
<1>3. /\ status \in Live /\ paid \in Nat
      /\ status = "partially_paid" => paid < total
      /\ status = "confirmed" => paid = total
  BY <1>2 DEF Init, Deposit, Live
<1>4. BookingType /\ AddonsType
  BY <1>1, <1>2, <1>3 DEF BookingType, AddonsType, Live
<1>5. OrdersType
  <2>1. \A o \in Orders : MaxPays[o] \in Nat
    BY BookedTripAssumption
  <2>. QED
    BY <2>1 DEF Init, OrdersType
<1>6. RowsType /\ HeldRows /\ others \in [Dates -> Nat]
  <2>1. change = [c \in Changes |-> NoChange] /\ others = [d \in Dates |-> 0]
    BY DEF Init
  <2>2. NoChange \in Row /\ NoChange.state # "held"
    BY RowKinds, NoChangeIsRow
  <2>. QED
    BY <2>1, <2>2 DEF RowsType, HeldRows
<1>7. TypeOK
  BY <1>1, <1>4, <1>5, <1>6, TypeParts
<1>8. TotalIsThePrice /\ HoldsItsMoney
  BY <1>1, <1>2, <1>3 DEF TotalIsThePrice, HoldsItsMoney, Live
<1>. QED
  BY <1>6, <1>7, <1>8 DEF TripInv

LEMMA TripStep == TripInv /\ [Next]_vars => TripInv'
<1>. SUFFICES ASSUME TripInv, [Next]_vars
              PROVE  TripInv'
  OBVIOUS
<1>1. CASE UNCHANGED vars
  <2>1. UNCHANGED <<booking, party, asked, addon, change, money, others>>
    BY <1>1 DEF vars, booking
  <2>. QED
    BY <2>1, BookingStep, BookingSame, TypeParts DEF TripInv
<1>2. CASE \/ \E d \in Dates : \E n \in 0..Capacity[d] : Others(d, n)
           \/ \E o \in Parts, n \in 1..total : OpenPart(o, n)
           \/ \E o \in Extras : OpenExtra(o)
           \/ \E o \in Orders : Pay(o)
  BY <1>2, OrderTrip
<1>3. ASSUME NEW o \in Orders, Capture(o)
      PROVE  TripInv'
  BY <1>3, CaptureTrip
<1>4. ASSUME NEW c \in Changes, NEW d \in Dates, StartChange(c, d)
      PROVE  TripInv'
  BY <1>4, StartTrip
<1>5. ASSUME NEW c \in Changes,
             ChangeOpened(c) \/ ChangeRefused(c) \/ ChangeLost(c) \/ HoldAges(c)
      PROVE  TripInv'
  BY <1>5, RowTrip
<1>6. ASSUME NEW d \in Dates, NEW p \in Parties, NEW s \in {"offline", "balance"},
             NEW fee \in {0, Fee * p}, OwnerMove(d, p, fee, s)
      PROVE  TripInv'
  BY <1>6, OwnerMoveTrip
<1>7. ASSUME NEW a \in Addons, RemoveAddon(a)
      PROVE  TripInv'
  BY <1>7, RemoveAddonTrip
<1>8. CASE \/ MarkBalancePaid \/ Ask \/ Decline \/ Approve \/ DayPasses \/ ExtendDue
           \/ CancelOverdue
  BY <1>8, DeskTrip
<1>. QED
  BY <1>1, <1>2, <1>3, <1>4, <1>5, <1>6, <1>7, <1>8 DEF Next

\* Every row of the booking, its add-ons, changes and orders stays in range,
\* for any prices and any number of changes: in particular no step makes the
\* total or the money held negative.
THEOREM TripTypeCorrect == Spec => []TypeOK
<1>1. TripInv => TypeOK
  BY DEF TripInv
<1>. QED
  BY <1>1, InitTrip, TripStep, PTL DEF Spec

\* The total is the price of what is booked, in whatever order changes, moves,
\* extras and removals are settled (apply_swap, settle_extras, remove_addon).
THEOREM PriceKept == Spec => []TotalIsThePrice
<1>1. TripInv => TotalIsThePrice
  BY DEF TripInv
<1>. QED
  BY <1>1, InitTrip, TripStep, PTL DEF Spec

\* What the booking holds follows its status: a part-paid one less than its
\* total, a cancelled one what it kept, a confirmed one its total, or less once
\* a bought add-on was taken off.
THEOREM MoneyHeld == Spec => []HoldsItsMoney
<1>1. TripInv => HoldsItsMoney
  BY DEF TripInv
<1>. QED
  BY <1>1, InitTrip, TripStep, PTL DEF Spec

-----------------------------------------------------------------------------
(* Seats.                                                                   *)

Holds(r, d) == r.state = "held" /\ r.age = "hold" /\ r.to = d

\* The seats each change holds on d.
HeldSeats(ch, d) == [c \in Changes |-> IF Holds(ch[c], d) THEN ch[c].party ELSE 0]

LEMMA HeldOnIsSum ==
  ASSUME NEW ch \in [Changes -> Row], NEW d
  PROVE  /\ HeldOn(ch, d) = Sum(HeldSeats(ch, d), Changes)
         /\ \A c \in Changes : HeldSeats(ch, d)[c] \in Nat
         /\ HeldOn(ch, d) \in Nat
<1>. DEFINE S == {c \in Changes : Holds(ch[c], d)}
            F == [c \in Changes |-> ch[c].party]
            h == CHOOSE it : it = [s \in SUBSET S |->
                   IF s = {} THEN 0 ELSE ch[Pick(s)].party + it[s \ {Pick(s)}]]
<1>1. HeldOn(ch, d) = h[S]
  BY DEF HeldOn, Holds, MapThenSumSet, MapThenFoldSet, Pick
<1>2. IsFiniteSet(Changes) /\ S \in SUBSET Changes /\ IsFiniteSet(S)
  BY BookedTripAssumption, FS_Subset
<1>. HIDE DEF S
<1>3. PICK g : IsSums(g, F, S)
  BY <1>2, SumsExist
<1>4. g = [s \in SUBSET S |-> IF s = {} THEN 0 ELSE ch[Pick(s)].party + g[s \ {Pick(s)}]]
  BY <1>2, <1>3, PickIn DEF IsSums
<1>5. h = [s \in SUBSET S |-> IF s = {} THEN 0 ELSE ch[Pick(s)].party + h[s \ {Pick(s)}]]
  BY <1>4
<1>. HIDE DEF h
<1>6. IsSums(h, F, S)
  BY <1>2, <1>5, PickIn DEF IsSums
<1>7. /\ \A c \in Changes : HeldSeats(ch, d)[c] \in Nat /\ F[c] \in Nat
      /\ \A c \in S : HeldSeats(ch, d)[c] = F[c]
      /\ \A c \in Changes \ S : HeldSeats(ch, d)[c] = 0
  BY DEF HeldSeats, Row, S
<1>. HIDE DEF F
<1>8. Sum(F, S) = h[S] /\ Sum(F, S) = Sum(HeldSeats(ch, d), Changes)
  <2>1. \A c \in S : F[c] \in Int /\ F[c] = HeldSeats(ch, d)[c]
    BY <1>2, <1>7
  <2>. QED
    BY <1>2, <1>6, <1>7, <2>1, SumsAre, SumWithin
<1>9. Sum(HeldSeats(ch, d), Changes) \in Nat
  BY <1>2, <1>7, SumNat
<1>. QED
  BY <1>1, <1>7, <1>8, <1>9

\* One row's step changes the seats held by what that row holds.
LEMMA HeldMoves ==
  ASSUME NEW ch \in [Changes -> Row], NEW to \in [Changes -> Row], NEW c \in Changes,
         \A b \in Changes \ {c} : to[b] = ch[b], NEW d
  PROVE  HeldOn(to, d) = HeldOn(ch, d) - (IF Holds(ch[c], d) THEN ch[c].party ELSE 0)
                                       + (IF Holds(to[c], d) THEN to[c].party ELSE 0)
<1>. DEFINE F == HeldSeats(ch, d)
            G == HeldSeats(to, d)
<1>2. /\ F[c] = IF Holds(ch[c], d) THEN ch[c].party ELSE 0
      /\ G[c] = IF Holds(to[c], d) THEN to[c].party ELSE 0
      /\ \A b \in Changes \ {c} : F[b] = G[b]
  BY DEF HeldSeats
<1>3. /\ HeldOn(ch, d) = Sum(F, Changes) /\ HeldOn(to, d) = Sum(G, Changes)
      /\ \A b \in Changes : F[b] \in Int /\ G[b] \in Int
  BY HeldOnIsSum
<1>. HIDE DEF F, G
<1>4. Sum(G, Changes) = Sum(F, Changes) - F[c] + G[c]
  <2>1. IsFiniteSet(Changes)
    BY BookedTripAssumption
  <2>. QED
    BY <1>2, <1>3, <2>1, SumMoves
<1>. QED
  BY <1>2, <1>3, <1>4

\* With no change held, none holds seats.
LEMMA NoneHeld ==
  ASSUME NEW ch \in [Changes -> Row], \A c \in Changes : ch[c].state # "held", NEW d
  PROVE  HeldOn(ch, d) = 0
<1>1. \A c \in Changes : HeldSeats(ch, d)[c] = 0
  BY DEF HeldSeats, Holds
<1>2. IsFiniteSet(Changes)
  BY BookedTripAssumption
<1>3. Sum(HeldSeats(ch, d), Changes) = 0
  BY <1>1, <1>2, SumNothing
<1>. QED
  BY <1>3, HeldOnIsSum

Own(d) == IF status \in Live /\ date = d THEN party ELSE 0

LEMMA LeftIs ==
  ASSUME TypeOK, NEW ch \in [Changes -> Row], NEW d \in Dates
  PROVE  /\ SeatsLeft(ch, d) = Capacity[d] - others[d] - HeldOn(ch, d) - Own(d)
         /\ Capacity[d] \in Nat /\ others[d] \in Nat /\ HeldOn(ch, d) \in Nat /\ Own(d) \in Nat
         /\ party \in Nat
  BY HeldOnIsSum, TypeParts, Numbers DEF SeatsLeft, Own, BookingType

LEMMA LeftNext ==
  ASSUME TypeOK', NEW d \in Dates
  PROVE  /\ SeatsLeft(change, d)' = Capacity[d] - others'[d] - HeldOn(change', d) - Own(d)'
         /\ Capacity[d] \in Nat /\ others'[d] \in Nat /\ HeldOn(change', d) \in Nat
         /\ Own(d)' \in Nat
<1>1. change' \in [Changes -> Row] /\ others' \in [Dates -> Nat] /\ party' \in Parties
  BY DEF TypeOK, Row
<1>2. HeldOn(change', d) \in Nat
  BY <1>1, HeldOnIsSum
<1>3. SeatsLeft(change, d)' = Capacity[d] - others'[d] - HeldOn(change', d) - Own(d)'
  BY DEF SeatsLeft, Own
<1>. QED
  BY <1>1, <1>2, <1>3, Numbers DEF Own

\* No date has fewer seats left than before.
LEMMA Loosens ==
  ASSUME TypeOK, TypeOK', NoDateOversold, UNCHANGED others,
         \A d \in Dates : HeldOn(change', d) + Own(d)' <= HeldOn(change, d) + Own(d)
  PROVE  NoDateOversold'
<1>. SUFFICES ASSUME NEW d \in Dates
              PROVE  SeatsLeft(change, d)' >= 0
  BY DEF NoDateOversold
<1>1. change \in [Changes -> Row]
  BY DEF TypeOK, Row
<1>2. /\ SeatsLeft(change, d) >= 0
      /\ SeatsLeft(change, d) = Capacity[d] - others[d] - HeldOn(change, d) - Own(d)
      /\ Capacity[d] \in Nat /\ others[d] \in Nat /\ HeldOn(change, d) \in Nat /\ Own(d) \in Nat
  BY <1>1, LeftIs DEF NoDateOversold
<1>. QED
  BY <1>2, LeftNext

LEMMA StartSeats ==
  ASSUME TripInv, TypeOK', NoDateOversold, NEW c \in Changes, NEW d \in Dates, StartChange(c, d)
  PROVE  NoDateOversold'
<1>. DEFINE ended == EndHolds(change)
            row == change'[c]
<1>1. /\ TypeOK /\ change' \in [Changes -> Row] /\ ended \in [Changes -> Row]
      /\ \A b \in Changes : ended[b].state # "held"
  BY TypeParts, EndedRows DEF TripInv, TypeOK, Row, RowsType
<1>2. /\ d # date /\ status \in Live /\ SeatsLeft(ended, d) >= party
      /\ UNCHANGED <<others, party>>
  BY DEF StartChange, booking
<1>3. \A e \in Dates : HeldOn(ended, e) = 0
  <2>. HIDE DEF ended
  <2>. QED
    BY <1>1, NoneHeld
<1>4. SeatsLeft(ended, d) = Capacity[d] - others[d] - 0 - 0
  <2>1. Own(d) = 0
    BY <1>2 DEF Own
  <2>. HIDE DEF ended
  <2>. QED
    BY <1>1, <1>3, <2>1, LeftIs
<1>5. /\ change' = [ended EXCEPT ![c] = row] /\ row \in Row
      /\ \/ row.state = "done" /\ status' \in Live /\ date' = d
         \/ row.to = d /\ row.party = party /\ UNCHANGED <<status, date>>
  <2>1. CASE PayNow(d, (Fare[d] - Fare[date]) * party + Fee * party) = 0
    BY <1>1, <2>1 DEF StartChange, Swap, SwapMoney, Live, Row
  <2>2. CASE PayNow(d, (Fare[d] - Fare[date]) * party + Fee * party) # 0
    BY <1>1, <2>2 DEF StartChange, booking
  <2>. QED
    BY <2>1, <2>2
<1>6. \A e \in Dates : HeldOn(change', e) = IF Holds(row, e) THEN row.party ELSE 0
  <2>. SUFFICES ASSUME NEW e \in Dates
                PROVE  HeldOn(change', e) = IF Holds(row, e) THEN row.party ELSE 0
    OBVIOUS
  <2>3. \A b \in Changes \ {c} : change'[b] = ended[b]
    BY <1>1, <1>5
  <2>. HIDE DEF ended
  <2>1. HeldOn(change', e)
          = HeldOn(ended, e) - (IF Holds(ended[c], e) THEN ended[c].party ELSE 0)
                             + (IF Holds(row, e) THEN row.party ELSE 0)
    BY <1>1, <2>3, HeldMoves
  <2>. HIDE DEF row
  <2>2. ~ Holds(ended[c], e) /\ row.party \in Nat
    BY <1>1, <1>5 DEF Holds, Row
  <2>. QED
    BY <1>3, <1>5, <2>1, <2>2
<1>. HIDE DEF ended, row
<1>. SUFFICES ASSUME NEW e \in Dates
              PROVE  SeatsLeft(change, e)' >= 0
  BY DEF NoDateOversold
<1>7. /\ SeatsLeft(change, e) >= 0 /\ party \in Nat
      /\ SeatsLeft(change, e) = Capacity[e] - others[e] - HeldOn(change, e) - Own(e)
      /\ Capacity[e] \in Nat /\ others[e] \in Nat /\ HeldOn(change, e) \in Nat /\ Own(e) \in Nat
  <2>1. change \in [Changes -> Row]
    BY DEF TypeOK, Row, TripInv
  <2>. QED
    BY <1>1, <2>1, LeftIs DEF NoDateOversold
<1>8. /\ SeatsLeft(change, e)' = Capacity[e] - others[e] - HeldOn(change', e) - Own(e)'
      /\ HeldOn(change', e) \in Nat
  BY <1>2, LeftNext
<1>9. CASE row.state = "done" /\ status' \in Live /\ date' = d
  <2>1. HeldOn(change', e) = 0 /\ Own(e)' = IF e = d THEN party ELSE 0
    BY <1>2, <1>6, <1>9 DEF Holds, Own
  <2>. QED
    BY <1>2, <1>4, <1>7, <1>8, <2>1
<1>10. CASE row.to = d /\ row.party = party /\ UNCHANGED <<status, date>>
  <2>1. /\ Own(e)' = Own(e)
        /\ HeldOn(change', e) = IF e = d /\ Holds(row, e) THEN party ELSE 0
        /\ e = d => Own(e) = 0
    BY <1>2, <1>6, <1>10 DEF Holds, Own
  <2>. QED
    BY <1>2, <1>4, <1>7, <1>8, <2>1
<1>. QED
  BY <1>5, <1>9, <1>10

LEMMA OwnerMoveSeats ==
  ASSUME TripInv, TypeOK', NoDateOversold, NEW d \in Dates, NEW p \in Parties,
         NEW s \in {"offline", "balance"}, NEW fee \in {0, Fee * p}, OwnerMove(d, p, fee, s)
  PROVE  NoDateOversold'
<1>. DEFINE ended == EndHolds(change)
<1>1. /\ TypeOK /\ ended \in [Changes -> Row]
      /\ \A b \in Changes : ended[b].state # "held"
  BY TypeParts, EndedRows DEF TripInv
<1>2. /\ status \in Live /\ SeatsLeft(ended, d) + (IF d = date THEN party ELSE 0) >= p
      /\ change' = ended /\ party' = p /\ date' = d /\ UNCHANGED others
  BY DEF OwnerMove, Swap
<1>. HIDE DEF ended
<1>3. \A e \in Dates : HeldOn(ended, e) = 0
  BY <1>1, NoneHeld
<1>. SUFFICES ASSUME NEW e \in Dates
              PROVE  SeatsLeft(change, e)' >= 0
  BY DEF NoDateOversold
<1>4. /\ SeatsLeft(change, e) >= 0 /\ party \in Nat /\ p \in Nat
      /\ SeatsLeft(change, e) = Capacity[e] - others[e] - HeldOn(change, e) - Own(e)
      /\ Capacity[e] \in Nat /\ others[e] \in Nat /\ HeldOn(change, e) \in Nat /\ Own(e) \in Nat
  <2>1. change \in [Changes -> Row]
    BY DEF TypeOK, Row, TripInv
  <2>. QED
    BY <1>1, <2>1, LeftIs, Numbers DEF NoDateOversold
<1>5. SeatsLeft(ended, d) = Capacity[d] - others[d] - 0 - Own(d)
  BY <1>1, <1>3, LeftIs
<1>6. /\ SeatsLeft(change, e)' = Capacity[e] - others[e] - 0 - Own(e)'
  BY <1>2, <1>3, LeftNext
<1>7. Own(e)' <= IF e = d THEN p ELSE 0
  BY <1>2, <1>4 DEF Own
<1>8. Own(d) = IF d = date THEN party ELSE 0
  BY <1>2 DEF Own
<1>9. Own(e)' \in Nat
  BY LeftNext
<1>10. CASE e = d
  BY <1>2, <1>4, <1>5, <1>6, <1>7, <1>8, <1>9, <1>10
<1>11. CASE e # d
  BY <1>4, <1>6, <1>7, <1>9, <1>11
<1>. QED
  BY <1>10, <1>11

LEMMA SettleChangeSeats ==
  ASSUME TripInv, TypeOK', NoDateOversold, NEW c \in Changes, SettleChange(c), UNCHANGED others
  PROVE  NoDateOversold'
<1>. DEFINE was == change[c]
            row == change'[c]
<1>1. /\ TypeOK /\ change \in [Changes -> Row] /\ change' \in [Changes -> Row]
  BY DEF TripInv, TypeOK, Row
<1>2. change' = [change EXCEPT ![c] = row] /\ was \in Row /\ row \in Row
  BY <1>1 DEF SettleChange
<1>3. row.state \in {"done", "lapsed"} \/ row = was
  BY <1>1, DecidedIsRow DEF SettleChange
<1>4. \A e \in Dates :
        /\ HeldOn(change', e) = HeldOn(change, e) - (IF Holds(was, e) THEN was.party ELSE 0)
                                                  + (IF Holds(row, e) THEN row.party ELSE 0)
        /\ HeldOn(change, e) \in Nat /\ HeldOn(change', e) \in Nat
  <2>1. \A b \in Changes \ {c} : change'[b] = change[b]
    BY <1>1, <1>2
  <2>. QED
    BY <1>1, <2>1, HeldMoves, HeldOnIsSum
<1>5. CASE ~ Fits(c)
  <2>1. \A e \in Dates : Own(e)' = Own(e) /\ Own(e) \in Nat
    BY <1>1, <1>5, LeftIs DEF SettleChange, Returned, booking, Own
  <2>2. was.party \in Nat /\ row.party \in Nat
    BY <1>2 DEF Row
  <2>3. \A e \in Dates : Holds(row, e) => row = was
    BY <1>3 DEF Holds
  <2>. HIDE DEF was, row
  <2>4. \A e \in Dates : HeldOn(change', e) + Own(e)' <= HeldOn(change, e) + Own(e)
    BY <1>4, <2>1, <2>2, <2>3
  <2>. QED
    BY <1>1, <2>4, Loosens
<1>6. CASE Fits(c)
  <2>1. /\ was.state = "held" /\ status \in Live /\ date' = was.to /\ status' \in Live
        /\ row.state = "done" /\ party' = party /\ was.party = party /\ was.to \in Dates
        /\ was.age = "hold" \/ SeatsLeft(change, was.to) >= party
    BY <1>1, <1>6, DecidedIsRow
    DEF Fits, SettleChange, Swap, SwapMoney, TripInv, HeldRows, HeldRow, Live
  <2>. SUFFICES ASSUME NEW e \in Dates
                PROVE  SeatsLeft(change, e)' >= 0
    BY DEF NoDateOversold
  <2>2. /\ SeatsLeft(change, e) >= 0 /\ party \in Nat
        /\ SeatsLeft(change, e) = Capacity[e] - others[e] - HeldOn(change, e) - Own(e)
        /\ Capacity[e] \in Nat /\ others[e] \in Nat /\ HeldOn(change, e) \in Nat /\ Own(e) \in Nat
    BY <1>1, LeftIs DEF NoDateOversold
  <2>3. /\ SeatsLeft(change, e)' = Capacity[e] - others[e] - HeldOn(change', e) - Own(e)'
        /\ HeldOn(change', e) \in Nat
    BY LeftNext
  <2>4. HeldOn(change', e) = HeldOn(change, e) - (IF Holds(was, e) THEN party ELSE 0)
    <3>1. ~ Holds(row, e)
      BY <2>1 DEF Holds
    <3>. HIDE DEF was, row
    <3>. QED
      BY <1>4, <2>1, <2>2, <3>1
  <2>5. Own(e)' = IF e = was.to THEN party ELSE 0
    BY <2>1 DEF Own
  <2>6. e = was.to => Holds(was, e) \/ SeatsLeft(change, e) >= party
    BY <2>1 DEF Holds
  <2>. HIDE DEF was, row
  <2>7. CASE e = was.to
    BY <2>2, <2>3, <2>4, <2>5, <2>6, <2>7
  <2>8. CASE e # was.to
    BY <2>2, <2>3, <2>4, <2>5, <2>8
  <2>. QED
    BY <2>7, <2>8
<1>. QED
  BY <1>5, <1>6

\* Steps of the row of one change that hold no seats anew.
LEMMA RowSeats ==
  ASSUME TripInv, TypeOK', NoDateOversold, NEW c \in Changes,
         ChangeOpened(c) \/ ChangeRefused(c) \/ ChangeLost(c) \/ HoldAges(c)
  PROVE  NoDateOversold'
<1>. DEFINE was == change[c]
            row == change'[c]
<1>1. /\ TypeOK /\ change \in [Changes -> Row] /\ change' \in [Changes -> Row]
      /\ UNCHANGED <<booking, others>>
  BY DEF TripInv, TypeOK, Row, ChangeOpened, ChangeRefused, ChangeLost, HoldAges
<1>2. (\A b \in Changes \ {c} : change'[b] = change[b]) /\ was \in Row /\ row \in Row
  BY <1>1 DEF ChangeOpened, ChangeRefused, ChangeLost, HoldAges
<1>3. \/ row.state # "held" \/ row.age # "hold"
      \/ (row.party = was.party /\ row.to = was.to /\ row.state = was.state /\ row.age = was.age)
  <2>1. CASE ChangeOpened(c) \/ ChangeLost(c) \/ HoldAges(c)
    BY <1>1, <2>1 DEF ChangeOpened, ChangeLost, HoldAges, Row
  <2>2. CASE ChangeRefused(c)
    <3>. DEFINE x == IF was.state = "held" THEN Decided(was, "cancelled") ELSE was
    <3>1. x \in Row /\ x.state # "held"
      BY <1>2, RowKinds
    <3>2. row = [x EXCEPT !.call = "none"]
      BY <1>1, <2>2 DEF ChangeRefused
    <3>. HIDE DEF x, row
    <3>3. row.state # "held"
      BY <3>1, <3>2 DEF Row
    <3>. QED
      BY <3>3
  <2>. QED
    BY <2>1, <2>2
<1>4. \A e \in Dates :
        /\ HeldOn(change', e) = HeldOn(change, e) - (IF Holds(was, e) THEN was.party ELSE 0)
                                                  + (IF Holds(row, e) THEN row.party ELSE 0)
        /\ HeldOn(change, e) \in Nat /\ HeldOn(change', e) \in Nat
  BY <1>1, <1>2, HeldMoves, HeldOnIsSum
<1>5. \A e \in Dates : Own(e)' = Own(e) /\ Own(e) \in Nat
  BY <1>1, LeftIs DEF booking, Own
<1>6. was.party \in Nat /\ row.party \in Nat
  BY <1>2 DEF Row
<1>7. \A e \in Dates : Holds(row, e) => Holds(was, e) /\ row.party = was.party
  BY <1>3 DEF Holds
<1>. HIDE DEF was, row
<1>8. \A e \in Dates : HeldOn(change', e) + Own(e)' <= HeldOn(change, e) + Own(e)
  BY <1>4, <1>5, <1>6, <1>7
<1>. QED
  BY <1>1, <1>8, Loosens

\* Steps that neither change a row nor move the booking.
LEMMA StaySeats ==
  ASSUME TripInv, TypeOK', NoDateOversold, UNCHANGED <<change, others, date, party>>,
         status' \in Live => status \in Live
  PROVE  NoDateOversold'
<1>1. TypeOK /\ change \in [Changes -> Row]
  BY DEF TripInv, TypeOK, Row
<1>2. \A e \in Dates : /\ HeldOn(change', e) = HeldOn(change, e) /\ HeldOn(change, e) \in Nat
                       /\ Own(e)' <= Own(e) /\ Own(e) \in Nat /\ Own(e)' \in Nat
  BY <1>1, LeftIs, LeftNext DEF Own
<1>. QED
  BY <1>1, <1>2, Loosens

LEMMA OthersSeats ==
  ASSUME TripInv, TypeOK', NoDateOversold, NEW d \in Dates, NEW n \in 0 .. Capacity[d],
         Others(d, n)
  PROVE  NoDateOversold'
<1>1. TypeOK /\ change \in [Changes -> Row] /\ others \in [Dates -> Nat] /\ n \in Nat
  BY Numbers DEF TripInv, TypeOK, Row
<1>2. /\ others' = [others EXCEPT ![d] = n] /\ n \in 0..(others[d] + SeatsLeft(change, d))
      /\ UNCHANGED <<booking, change>>
  BY DEF Others
<1>. SUFFICES ASSUME NEW e \in Dates
              PROVE  SeatsLeft(change, e)' >= 0
  BY DEF NoDateOversold
<1>3. /\ SeatsLeft(change, e) >= 0
      /\ SeatsLeft(change, e) = Capacity[e] - others[e] - HeldOn(change, e) - Own(e)
      /\ Capacity[e] \in Nat /\ others[e] \in Nat /\ HeldOn(change, e) \in Nat /\ Own(e) \in Nat
  BY <1>1, LeftIs DEF NoDateOversold
<1>4. SeatsLeft(change, e)' = Capacity[e] - others'[e] - HeldOn(change, e) - Own(e)
  BY <1>2, LeftNext DEF Own, booking
<1>5. others'[e] = (IF e = d THEN n ELSE others[e])
  BY <1>1, <1>2
<1>6. CASE e = d
  <2>1. n <= others[e] + SeatsLeft(change, e)
    BY <1>2, <1>3, <1>6
  <2>. QED
    BY <1>1, <1>3, <1>4, <1>5, <1>6, <2>1
<1>7. CASE e # d
  BY <1>3, <1>4, <1>5, <1>7
<1>. QED
  BY <1>6, <1>7

LEMMA SeatsStep == TripInv /\ NoDateOversold /\ [Next]_vars => NoDateOversold'
<1>. SUFFICES ASSUME TripInv, NoDateOversold, [Next]_vars
              PROVE  NoDateOversold'
  OBVIOUS
<1>1. TypeOK'
  BY TripStep DEF TripInv
<1>2. ASSUME NEW d \in Dates, NEW n \in 0 .. Capacity[d], Others(d, n)
      PROVE  NoDateOversold'
  BY <1>1, <1>2, OthersSeats
<1>3. CASE \/ \E o \in Parts : \E n \in 1..total : OpenPart(o, n)
           \/ \E o \in Extras : OpenExtra(o)
           \/ \E o \in Orders : Pay(o)
           \/ UNCHANGED vars
  BY <1>1, <1>3, StaySeats DEF OpenPart, OpenExtra, Pay, vars, booking
<1>4. ASSUME NEW o \in Orders, Capture(o)
      PROVE  NoDateOversold'
  <2>1. UNCHANGED others
    BY <1>4 DEF Capture
  <2>2. CASE o \in Changes /\ SettleChange(o)
    BY <1>1, <2>1, <2>2, SettleChangeSeats
  <2>3. CASE /\ UNCHANGED <<change, date, party>>
             /\ status' \in Live => status \in Live
    BY <1>1, <2>1, <2>3, StaySeats
  <2>. QED
    BY <1>4, <2>2, <2>3 DEF Capture, SettleExtra, SettleMoney, Live
<1>5. ASSUME NEW c \in Changes, NEW d \in Dates, StartChange(c, d)
      PROVE  NoDateOversold'
  BY <1>1, <1>5, StartSeats
<1>6. ASSUME NEW c \in Changes,
             ChangeOpened(c) \/ ChangeRefused(c) \/ ChangeLost(c) \/ HoldAges(c)
      PROVE  NoDateOversold'
  BY <1>1, <1>6, RowSeats
<1>7. ASSUME NEW d \in Dates, NEW p \in Parties, NEW s \in {"offline", "balance"},
             NEW fee \in {0, Fee * p}, OwnerMove(d, p, fee, s)
      PROVE  NoDateOversold'
  BY <1>1, <1>7, OwnerMoveSeats
<1>8. CASE \/ \E a \in Addons : RemoveAddon(a)
           \/ MarkBalancePaid \/ Ask \/ Decline \/ Approve \/ DayPasses \/ ExtendDue
           \/ CancelOverdue
  <2>1. UNCHANGED <<change, others, date, party>> /\ (status' \in Live => status \in Live)
    BY <1>8
    DEF RemoveAddon, MarkBalancePaid, Ask, Decline, Approve, DayPasses, ExtendDue,
        CancelOverdue, Ends, booking, Live
  <2>. QED
    BY <1>1, <2>1, StaySeats
<1>. QED
  BY <1>2, <1>3, <1>4, <1>5, <1>6, <1>7, <1>8 DEF Next

\* No date is ever oversold by a change's hold, by a payment that comes late,
\* or by the owner's move, for any capacities and any number of changes.
THEOREM NoOverselling == Spec => []NoDateOversold
<1>1. Init => NoDateOversold
  <2>. SUFFICES ASSUME Init, NEW d \in Dates
                PROVE  SeatsLeft(change, d) >= 0
    BY DEF NoDateOversold
  <2>1. TypeOK /\ change \in [Changes -> Row]
    BY InitTrip DEF TripInv, TypeOK, Row
  <2>2. HeldOn(change, d) = 0
    <3>1. \A c \in Changes : change[c].state # "held"
      BY NoChangeIsRow DEF Init
    <3>. QED
      BY <2>1, <3>1, NoneHeld
  <2>3. others[d] = 0 /\ Own(d) <= Capacity[d]
    <3>1. others[d] = 0 /\ party <= Capacity[date] /\ Capacity[d] \in Nat
      BY Numbers DEF Init
    <3>. QED
      BY <3>1 DEF Own
  <2>. QED
    BY <2>1, <2>2, <2>3, LeftIs
<1>. QED
  BY <1>1, InitTrip, TripStep, SeatsStep, PTL DEF Spec

-----------------------------------------------------------------------------
\* A payment for a change is captured only by its settling: the change moves
\* the booking as it was offered, or everything stays and the money goes back.
THEOREM ChangeMoneySettles == Spec => ChangeMoneyMovesOrReturns
<1>. DEFINE Moves(c) == /\ change[c].state = "held" /\ change'[c].state = "done"
                        /\ date' = change[c].to /\ total' = total + change[c].net
                        /\ paid' >= AtMost(paid + change[c].pay, total')
            Stays == UNCHANGED <<status, date, party, total, paid, fees>>
            A == \A c \in Changes : order'[c].taken # order[c].taken => Moves(c) \/ Stays
<1>1. ASSUME TripInv, Next
      PROVE  A
  <2>. SUFFICES ASSUME NEW c \in Changes, order'[c].taken # order[c].taken
                PROVE  Moves(c) \/ Stays
    OBVIOUS
  <2>1. order \in [Orders -> [open : BOOLEAN, pays : Nat, taken : Nat]] /\ c \in Orders
    BY <1>1, TypeParts DEF TripInv, OrdersType, Orders
  <2>2. Capture(c)
    <3>1. ASSUME NEW o \in Orders, Opens(o)
          PROVE  FALSE
      BY <2>1, <3>1 DEF Opens
    <3>2. ASSUME NEW o \in Orders, Pay(o)
          PROVE  FALSE
      BY <2>1, <3>2 DEF Pay
    <3>3. ASSUME NEW o \in Orders, Capture(o)
          PROVE  o = c
      BY <2>1, <3>3 DEF Capture
    <3>4. ~ UNCHANGED money
      BY DEF money
    <3>. QED
      BY <1>1, <3>1, <3>2, <3>3, <3>4
      DEF Next, Others, OpenPart, OpenExtra, StartChange, ChangeOpened, ChangeRefused,
          ChangeLost, HoldAges, OwnerMove, RemoveAddon, MarkBalancePaid, Ask, Decline, Approve,
          DayPasses, ExtendDue, CancelOverdue, Orders
  <2>3. c \notin Parts /\ c \notin Extras
    BY BookedTripAssumption
  <2>4. SettleChange(c)
    BY <2>2, <2>3 DEF Capture
  <2>5. CASE Fits(c)
    <3>1. change' = [change EXCEPT ![c] = Decided(change[c], "done")] /\ change[c].state = "held"
      BY <2>4, <2>5 DEF SettleChange, Fits
    <3>2. change'[c].state = "done"
      BY <1>1, <3>1, DecidedIsRow DEF TripInv, TypeOK
    <3>3. /\ date' = change[c].to /\ total' = total + change[c].net
          /\ paid' = AtMost(paid + change[c].pay, total')
      BY <2>4, <2>5 DEF SettleChange, Swap, SwapMoney
    <3>4. paid' \in Nat
      BY <1>1, TripStep DEF TripInv, TypeOK
    <3>. QED
      BY <3>1, <3>2, <3>3, <3>4
  <2>6. CASE ~ Fits(c)
    BY <2>4, <2>6 DEF SettleChange, Returned, booking
  <2>. QED
    BY <2>5, <2>6
<1>2. TripInv /\ [Next]_vars =>
        [\A c \in Changes : order'[c].taken # order[c].taken =>
           \/ /\ change[c].state = "held" /\ change'[c].state = "done"
              /\ date' = change[c].to /\ total' = total + change[c].net
              /\ paid' >= AtMost(paid + change[c].pay, total')
           \/ UNCHANGED <<status, date, party, total, paid, fees>>]_vars
  BY <1>1
<1>. QED
  BY <1>2, InitTrip, TripStep, PTL DEF Spec, ChangeMoneyMovesOrReturns

=============================================================================
