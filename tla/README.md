# A verification project for TripSmith's booking core

TripSmith sells fixed-date group trips. A FastAPI service (`src/api`) holds seats while a customer
pays, takes money through Razorpay, and undoes both when something goes wrong; a Next.js front-end
(`src/web`) shows it. The rules that can be wrong in ways a test hardly reaches are about **seats**
(never sold twice, never lost by their owner) and **money** (never lost, never kept without a
reason, never paid out twice). They live in `src/api/app/services/booking`, in handlers that run
concurrently, wait for row locks, call Razorpay between transactions, and are retried.

This directory models that core in TLA+, model-checks it with TLC and proves its central safety
properties with TLAPS. Five modules divide the work: the order and its hold (`BookingOrders`), the
money on its way back (`Refunds`), the visitor's sheet and Razorpay's Checkout in the browser
(`Checkout`), the trip after it was paid for (`BookedTrip`), and the list of those who wait
(`Waitlist`).

## 1. The system

| part | state | operations | meets |
|---|---|---|---|
| Orders and holds (`orders.py`, `locking.py`, view in `alembic/versions/0019_date_changes.py`) | `bookings` (status, hold_expires_at), `booking_travellers`, the view `departure_availability` | quote, create order, release a contact's holds, undo | Razorpay, waitlist, captures, coupons |
| Captures (`payments.py`, `webhook.py`) | `payments`, `bookings.paid_paise`, status | Checkout callback, sync, webhook, failure event, settle | orders, refunds, extras, date changes |
| Refunds (`refunds.py`) | `refunds`, `refund_needed` | plan, send, apply outcome, refuse, revive, resend, by hand | Razorpay, every canceller |
| Desk (`desk.py`), requests and decisions (`account.py`, `resolve.py`) | `booking_cancellations`, `kept_paise` | mark paid, release, request, approve, reject | refunds, waitlist |
| Daily job (`routers/cron/daily.py`, `sweep.py`, `balance.py`) | all of it | lapse, complete, cancel overdue balances, walk the waitlist, resend refunds | everything |
| Waitlist (`waitlist.py`) | `waitlist_entries` | join, walk, offer, lapse, claim, unclaim, remove | orders, the view |
| Date changes (`changes.py`), owner moves (`moves.py`) | `date_changes` | start, hold, pay the difference, swap, lapse | captures, the view |
| Deposits and balances (`deposit.py`, `balance.py`) | `deposit_paise`, `balance_due_on` | balance order, extend, mark paid, cancel overdue | captures, refunds |
| Links and counter (`links.py`, `counter.py`), extras (`extras.py`), coupons (`coupons.py`) | `payments`, `booking_addons`, `coupons` | issue, cancel, learn the order late; add, remove; check a limit | captures |
| Booking sheet (`use-booking.ts`, `razorpay-checkout.ts`, `BookingDone.tsx`) | phase, held seats, last order, attempt, departures read | read, quote, pay, open Checkout, confirm, sync, watch, start over | orders, captures, Checkout |
| Prices (`pricing.py`, `gst/tax.py`) | none | pure arithmetic | orders |
| Catalogue, mail, documents, sign-in, enquiries, reports, other pages | content, ledgers, sessions | forms, rendering, reads | little |

How they interact: handlers that decide about seats take the departure's row lock (`lock_booking`,
`lock_change`; an order takes two advisory locks on the contact's email and phone first), then read
the view and write in one transaction. Razorpay is called outside transactions, so a call sits
between two of them. Money reaches a booking three ways (callback, sync, webhook), any number of
times; `capture_razorpay_payment` makes the second one a replay. Seats are set aside for others by
waitlist offers and by held date changes, both counted in the view.

What is hard: two clocks (`now()`, a transaction's start, in the view; `clock_timestamp()`, the
time the locks were granted, in `_lock_row`); a lapsed hold that money can still confirm; holds
released by an order that then fails and gives them back; repeated and reordered events; the
sweep, which takes no departure lock; orders that stay payable for ever, whatever the booking has
become; a browser that hears of all this through calls that get lost and a window that may vanish;
a list whose offers end by the clock but move on only when somebody walks it. `PROJECT.json` lists
these hazards line by line with the properties that cover each.

## 2. Modules

**`BookingOrders`** is the core: the life of a web booking from the hold to the money that settles
it. Its variables are the columns the decisions read.

| variable | code |
|---|---|
| `clock`, `day` | the database clock; where a departure's date lies |
| `seats`, `aside` | `departures.seats_total`; seats of unexpired offers and held date changes |
| `status`, `reason`, `hold`, `paid`, `kept` | the `bookings` columns |
| `refunded`, `offline` | the sum of its `refunds` rows; what `mark_paid` recorded |
| `asked`, `overdue` | `booking_cancellations.status`; past `balance_due_on` and its grace |
| `call`, `released` | where the request of `create_booking_order` is, and its in-memory list of replaced holds |
| `rzp`, `takenAt`, `row` | a payment at Razorpay, and its `payments` row |

One action per handler, or per transaction of a handler that calls Razorpay in between:
`PlaceOrder`, then `OrderOpened`, `OrderRefused` (`_undo_hold`) or `OrderLost` (the request died);
`Capture` (whatever its channel) and `RecordFailed`; `MarkPaid`, `ReleaseHold`,
`RequestCancellation`, `Approve`, `Reject`, `Sweep`, `SaveSeats`; for a deposit `MarkBalancePaid`,
`ExtendDue` and the tidy's `CancelOverdue`, which keeps any part of what was paid; the environment is
`Tick`, `DayPasses`, `GraceEnds`, `SetAside`, `PayFails`, `Pay`. `PlaceOrder`, `OrderRefused` and
`Capture` take the instant `t` at which their transaction began, at most `MaxWait` before now: everything read through the view or
compared with `now()` uses `t`, and only `Live`, which stands for `_lock_row`, uses the clock.
`OrderRefused` leaves the order in which replaced holds are tried open (the code's is the query's).
The `CONSTANTS` give bookings, travellers, amounts and contacts; the named assumptions say what
the schema guarantees (at least one traveller, positive amounts, a deposit within the total).

**`SeatPromise`** says in forty lines what all of that promises about seats: a booking's seats are
held, lapse, are sold or closed; whoever gets seats must fit; sold seats go only by closing, closed
bookings stay closed. `BookingOrders` instantiates it with `phase <- Phase` and states
`KeepsSeatPromise`.

**`Refunds`** takes one booking's money from the decision that some of it goes back to the last
webhook. Everything that touches that money holds the booking's row lock, so bookings are
independent, and each locked transaction is one step; between a step and the next lies a call to
Razorpay, with no transaction open.

| variable | code |
|---|---|
| `captured`, `due`, `over` | payments that hold money; the price or `kept_paise`; cancelled for good |
| `paid`, `flag` | `paid_paise`; `refund_needed` |
| `status`, `amount`, `rzpId` | the `refunds` columns ("none" before the row exists) |
| `made`, `turned` | Razorpay: the refunds made under each idempotency key, and the keys it refused |
| `todo`, `heard` | the rows a running `send_refunds` has read and not sent, and the answer it has not applied |

`Plan` is `plan_refund` with the split over payments, newest first; every handler that moves money
calls it, or moves money without calling it (`NoPlan`):

| action | code | what goes back |
|---|---|---|
| `Capture` | `settle_capture`; `settle_change` when the booking moves | what is held beyond the price, which the payment may raise |
| `CaptureSpare` | `settle_extras`; `settle_change` when it no longer moves | all of the payment but the new add-ons, whatever else is owed |
| `SeatsGone` | `settle_capture`, seats gone | all of it |
| `Cancel` | an approved cancellation, an unpaid balance, a hold given up | all but what is kept |
| `Move` | `apply_swap` with nothing to pay now | what is held beyond the new price; `plan_refund` is not called when that is nothing |
| `TakeOff` | `remove_addon` | the line's price, up to what is held; for a checkout add-on of a part-paid booking only what is beyond the new price (`LineOwed`) |
| `SendOwed` | the desk's button | what is owed |

`Read`, `Send`, `Check` and `Apply` are the steps of `send_refunds` around its calls, `SendLost`,
`CheckLost` and `Crash` what can happen to them; `Event` is the webhook, `RecordByHand` the owner's
button. `ApplyRefund` is `apply_refund` whole: the status, the Razorpay id, revival, the money and the
flag. Razorpay itself is `Repeats`, `Makes`, `Refuses` and `Settle`. Nothing is assumed of it: a key
may be forgotten at any time (a second refund is then made under it, up to `MaxMade`), and what was
refused may be made later (a balance that was topped up). Which keys it has kept its word about is
said by the state (`WordKept`), so that the properties speak of those, beside others that went wrong.
Left out: the sum for bookings decided before migration 0025; what the order asked for, a deposit or
the price (a booking counts as taken once it holds money); `refund()` (`refunds.py:785`), which only
tests call. After a failed refund of a bought add-on on a part-paid booking `SendOwed` sends nothing:
nothing is owed there, the money counts towards the balance.

**`RefundPromise`** says what that promises: a planned refund leaves at most once or is dropped, and
what left may bounce; dropped and bounced ones never leave again. A refund is *disowned* when Razorpay
breaks its word about its key, and nothing more is promised of it. `Refunds` states it as
`KeepsRefundPromise`.

**`Checkout`** is one visitor with the booking sheet open, the api as far as the sheet can tell, and
Razorpay's window between them.

| variable | code |
|---|---|
| `status`, `left`, `seatsOf`, `charged`, `others` | the api: each order's booking, its hold's clock, its party, whether Razorpay has the money; other visitors' seats |
| `form`, `chosen`, `gone`, `quote` | what the visitor picked, the date picked or lost, the quote's state |
| `list`, `added`, `held`, `reads` | the departures on screen with the stamp of their read, whether the own seats are added back, `held`, reads in flight |
| `lastOrder`, `phase`, `attempt` | the refs and the phase of `use-booking.ts` |
| `windows`, `calls` | Checkout windows alive, requests in flight with their answers |
| `told`, `twice`, `troubles` | history: orders whose outcome was shown; orders paid more than once; calls lost and windows hidden |

A handler of the sheet is one action, with the effects React runs after it (`Effects`); each `fetch`
ends the action and its answer starts another (`Pay`, `OrderMade`, `Opens`, `Succeeds`, `Confirmed`,
`AfterClose`, `Synced`, `Watchdog`). `Lose`, `Hides` and `Vanishes` are what may happen to a call and
a window, and a window takes money also for an order that was paid before (`PayIn`). The api finds a
payment when it is given the signature, or asks Razorpay, which `sync_payment` does only for a booking
that still awaits payment (`Finds`). The browser's clock is the api's; one departure; a form stands for everything the order's
body is made from.

**`BookedTrip`** is one booking from its first money to its end.

| variable | code |
|---|---|
| `status`, `date`, `party`, `total`, `paid`, `kept` | the `bookings` columns and its travellers |
| `fees`, `addon` | change fees in the quote; each add-on's `booking_addons` row |
| `overdue`, `asked` | past the grace of `balance_due_on`; an open cancellation request |
| `change` | the `date_changes` rows, and where the request of `start_change` is |
| `order`, `part` | Razorpay orders: open, paid, settled here; the amount of a balance part |
| `others` | seats of other travellers on each date |

`StartChange`, then `ChangeOpened`, `ChangeRefused` or `ChangeLost`; `Capture` with a branch for each
kind of order (`SettleChange`, `SettleExtra`, `SettleMoney`); `OwnerMove`, `RemoveAddon`,
`MarkBalancePaid`, `ExtendDue`, `CancelOverdue`, the request and its decision. `Swap` is `apply_swap`.
Orders never expire and may be paid more than once. `paid` is `paid_paise`, from which planned refunds
are already taken; where they go then is `Refunds`. Left out: discounts and coupons (their amount
stays), add-ons counted anew for another party, the days behind the tiers.

**`Waitlist`** is one departure's list.

| variable | code |
|---|---|
| `now` | the database's clock, in coarse ticks |
| `entry`, `ahead` | the `waitlist_entries` rows; which live place is before which, by position |
| `booking` | the bookings of the people on the list |
| `call` | a person's request between its own walk and its transaction, or before Razorpay's answer, with the holds it replaced |
| `others` | seats of everyone else |

`Walk` is `walk`: lapses, then the close or the offers. `Tick` walks; `Asks` walks and begins a
request, which `Join` or `Order` goes on with; `Opened` and `Refused` are what Razorpay answers;
`Capture`, `Cancel`, `OthersCancel` free or fill seats and touch the list the way their handlers do;
`OwnerRemove` and `OwnerOffer` are the desk. Where the code loops down a list and fills what is free,
the model states the result: `OfferDown` gives offers to exactly the places whose party fits beside
those before them, and `Refused` restores a set of holds to which none of the others can be added,
which is what each order of trying them leaves. E-mails, link signatures and a package taken off sale are
left out.

**How they fit.** Each module sees the others as far as its own decisions do. `BookingOrders` counts
the seats of offers and held changes as `aside`; `Waitlist` and `BookedTrip` say where those come
from, and see bookings outside as `others`, which take only seats that are left: the promise that
`BookingOrders` proves (`SeatsGivenOnlyWhenFree`). `BookedTrip` stops at a planned refund, where
`Refunds` begins. `Checkout` sees `settle_capture` as `Settled`, the answer by which the sheet goes on.

**`MCBookingOrders`**, **`MCRefunds`**, **`MCCheckout`**, **`MCBookedTrip`** and **`MCWaitlist`** hold the
instances for TLC; **`BookingOrdersProofs`**,
**`BookingSeatsProofs`**, **`RefundsProofs`**, **`RefundPromiseProofs`**, **`BookedTripProofs`**,
**`CheckoutProofs`** and **`WaitlistProofs`** hold the proofs, and **`Sums`** the facts about sums they share.

## 3. What TLC checks

| run | instance | shows |
|---|---|---|
| `seats` | 3 bookings, contacts overlapping by email and by phone, a party of two and two singles on 1 or 2 seats, holds of 2 ticks, lock waits of 1 | `SeatsGivenOnlyWhenFree`, `StrangersHoldsStand`, `KeepsSeatPromise` |
| `money` | b1 pays a deposit on an order paid twice, against a seat set aside for others; desk, request, decision, sweep, overdue balance; with `Fairness` | `TypeOK`, `MoneyAccounted`, `MoneyHasAHome`, `FinalCancellationStands`, `SoldSeatsStand`, `PendingEnds`, `CapturedMoneySettles` |
| `one_hold` | one person's three tabs, refused orders | violates `OneHoldPerContact` |
| `late` | as `seats` | violates `SeatsGoneOnlyWhenTaken` |
| `refund_books` | an online and a newer offline payment, 3 rows, an add-on, a move and a cancellation, one sender, with `Fairness` | `TypeOK`, `FlagTells`, `PaymentsHoldIt`, `RefundsEnd` |
| `refund_keys` | 2 rows on one payment of twice the price, an add-on, 2 senders; keys forgotten, refusals that pass | `MoneyAdds`, `BooksMatch`, `LeftIsOffTheBooks`, `KeepsRefundPromise` |
| `sheet_pay` | 2 orders for the last seat, one call lost or window hidden, with `Fairness` | `TypeOK`, `PaidTwiceOnlyAfterTrouble`, `OutcomesAreTrue`, `BusyEnds`, `TakenMoneyIsTold` |
| `sheet_said` | one order, nothing lost | violates `PaymentSaidIsTaken` |
| `sheet_seats` | 2 orders, a party of one and of two on one seat, a read in flight | `OwnSeatsCountOnce` |
| `trip` | 2 dates, 2 changes, a balance part, one add-on that came with the booking or is bought and perhaps paid twice, the owner, the tidy, another traveller on the second date | `TypeOK`, `NoDateOversold`, `TotalIsThePrice`, `HoldsItsMoney`, `OneOnlineChange`, `ChangeMoneyMovesOrReturns` |
| `trip_extras` | one extra on a part-paid booking | violates `ConfirmedIsPaid` |
| `waitlist` | a couple and one person, 2 seats, 2 bookings, 4 ticks | `TypeOK`, `NoSeatTwice`, `ClaimKeepsItsHold`, `ServedInOrder`, `ListEnds` |

Bounds. `MaxClock` stops new orders, not time: `Tick` goes on until every hold has lapsed for
`LapsedFor`, so each hold is seen alive, at its end and swept. `Hold` is at least one tick longer
than no time and `MaxWait` lets a transaction straddle a hold's end, which is all the two clocks can
tell apart. Three bookings are needed for a hold that is replaced by one order, given back by its
failure, and contested by a third; one for money, which no handler moves between bookings: `MaxAside`
of 1 lets an offer take the seat a hold gave up, and the money of others is not asked about.
`Attended` and `Passing` say which bookings the desk touches and which dates come nearer, to keep the
seat runs and the money run apart. Because orders, time and payments
are bounded, every behaviour stops: the runs check no deadlock.

For refunds, rows of one payment let a failed refund be planned again beside the old row, the others
are the other payments' shares, and two senders (`refund_keys`) are enough for one to act on
what the other has changed; each sends at most the rows it read. `refund_books` has one sender, which
is all that fairness asks for, beside the webhooks. `MaxMade` of 2 is a key forgotten once, and is 1 where
the property does not turn on it. The amounts give a plan that spans payments, one that leaves a rest,
a part by hand, and a surplus. The senders and the rows of one payment are interchangeable (`Alike`);
no run with a liveness property uses that.

For the sheet, two orders are the fewest with a hold that replaces another; `left` counts a hold as
worth reopening, nearly over, over (`REUSE_MIN_SECONDS` tells the first two apart); one trouble puts the sheet and the
api at odds about any one order. `TakenMoneyIsTold` promises nothing after a lost call.
One slot for a read suffices: only its stamp against the hold matters. For the trip, two changes give
one that replaces, overtakes or follows the other; `Wanted` lets a stranger take the seats of the
date a lapsed hold had; fares differ by one rupee so that a change may cost, cost nothing or give
back. For the list, a couple and one person on two seats give a party that does not fit, a claim for
fewer seats than were offered, and a smaller party behind a bigger one; `HoldFor` is shorter than an
offer, `MinOffer` as long as one, so that no offer goes out near the cutoff; `MaxOffers` of 1 lets a
person run out of them and the owner offer beyond; `MaxCalls` of 1 keeps two requests of the two people
from being between their walk and their transaction at once (visitors, captures, cancellations, the
owner and walks do come between). The `waitlist` run checks deadlock: a walk is always possible.

Fairness, in `money`: time passes (`Tick`), the cron runs (`Sweep`), an HTTP request ends one
way or another (`CallEnds`), and Razorpay repeats a webhook until it is answered, so a captured
payment is eventually applied (`Delivered`). Customers, the desk and the owner are never fair.
In `refund_books` the daily job reads stuck rows again and again, one of its
calls for a row is not lost some day and its answer is applied (strong fairness of `Send`, `Check`
and `Apply`: single attempts may all fail), and Razorpay completes pending refunds and repeats its
webhooks until they are answered. In `sheet_pay` requests are answered or time out, the answers are
handled, Checkout's script loads or fails, the watchdog's timer runs, and a window ends (it has a
timeout); visitors, holds, the desk and webhooks are never fair. `BookedTrip` and `Waitlist` state
safety only: nothing in them is obliged to happen, except by the daily job and the cron, whose
effects `ListEnds` states as what one walk does.

## 4. Where the code and its documents part

1. *Two active holds of one contact* (`one_hold`). Three tabs of one person: the second order
   replaces the first tab's hold, the third the second's. When Razorpay refuses an older order late,
   `_undo_hold` gives the hold *it* replaced back, looking at seats, status and old clock but not at
   the contact's other holds. Requirement R15 says at most one active hold per email or phone.
2. *A payable booking refunded as "seats gone"* (`late`). A capture's transaction begins while the
   hold lives and gets the departure lock after it ended. The hold is judged by
   `clock_timestamp()`: lapsed. The view compares with `now()`: the party is still counted. So
   `seats_short` asks for the party's seats a second time; on a full date the booking is cancelled
   and refunded although nobody else has its seats.
3. *A confirmed booking that owes* (`trip_extras`). A part-paid booking buys an extra; the extra is
   paid for on its own. Paid in parts, the booking comes close to its total; the owner takes the extra
   off. `remove_addon` first asks whether what is held covers the total without the extra, the
   extra's own money included, and confirms the booking; then it refunds the extra's whole price. The
   booking is confirmed, its tax invoice is issued, and the rest of its balance is never asked for.
   The requirements say that `confirmed` always means paid in full.
4. *"Payment received" of a booking nobody paid* (`sheet_said`). The hold is released at the desk, or
   lapses and is swept, while the window is open, and the window is closed unpaid. `afterClose` takes
   the answer `cancelled` for an outcome, and `BookingDone` has no screen for it but the last: Razorpay
   took your payment. Its comment promises honest outcomes.

Further observations made while modelling, which no run stands for:

*Refunds.* (a) A request dies, or its answer is lost, after Razorpay made the refund. The row has no
Razorpay id, so the daily job sends it again under its key; `find_refund` is asked only about a
refusal. If the key has been forgotten by then and the payment has room, Razorpay makes a second
refund. `resend_stale` says that nothing is refunded twice; the same file, the client and the tests say
that keys expire. (b) Two senders read one row; one is refused and fails the row, the owner sends what is
owed as a new row, and the other's call for the old one still lands. (c) A refusal heard by one sender
is applied after another's call was made and answered; the row is failed with a Razorpay id,
`apply_refund` never revives it, and what left is owed again. All three are states of `refund_keys`; (b)
and (c) need Razorpay to make what it had refused. The promise disowns such rows, and everything else
about refunds holds beside them. (d) A refund fails and its money is owed again, so `refund_needed` is
up. A move to a dearer date makes the price cover it; `apply_swap` plans nothing, and only `plan_refund`
and the outcomes of refunds recompute the flag. It stays up with nothing behind it until the desk
presses its button; the module's comment says it is recomputed after every step. `FlagTells` says only
that it is never down too early.

*The sheet.* (a) A sync asked by the watchdog may answer `pending` after the success callback has begun
to confirm, and puts the sheet back to Pay until the confirm's answer arrives. Both orders of answers
are in `sheet_pay`; it needs a window that hides, after which `PaidTwiceOnlyAfterTrouble` promises
nothing: that a second payment then goes back is the api's part (`MoneyHasAHome`). (b) When the answer
to an order is lost, the sheet's last order is one whose hold the lost order replaced. (c) A read asked
before a hold and served after it makes the visitor's own date look sold out until the next read.

*The waitlist.* (a) `_undo_hold` of a claim made again gives the offer back and may also restore the
hold of the first claim: one person's place holds its seats twice until one ends (never more than
there are: `NoSeatTwice`). (b) Between a request's own walk and its transaction a hold may lapse, so a
visitor may take seats the list has not been offered; the documents say the list goes first.
(c) `_to_back` owes no mail about the end of an offer whose own mail was not sent yet, but a mail
run may take that mail off a row whose offer has just ended before the walk sees it, which then owes
the mail about the end alone.

## 5. What is proved

For every value of the constants that meets the named assumptions:

| theorem | says |
|---|---|
| `TypeCorrect` | `Spec => []TypeOK` |
| `MoneyStaysAtHome` | `Spec => []MoneyHasAHome` |
| `MoneyIsAccounted` | `Spec => []MoneyAccounted` |
| `CancellationsStand`, `SoldStaysSold` | `Spec => FinalCancellationStands`, `Spec => SoldSeatsStand` |
| `NoDoubleSelling`, `HoldsStand` | `Spec => SeatsGivenOnlyWhenFree`, `Spec => StrangersHoldsStand` |
| `PromiseKept` | `Spec => KeepsSeatPromise`: `BookingOrders` implements `SeatPromise` |
| `TypeCorrect` (of `Refunds`) | `Spec => []TypeOK` |
| `FlagIsTrue` | `Spec => []FlagTells` |
| `MoneyConserved`, `MoneyIsThere` | `Spec => []MoneyAdds`, `Spec => []PaymentsHoldIt` |
| `BooksStayMatched`, `LeftStaysOff` | `Spec => []BooksMatch`, `Spec => []LeftIsOffTheBooks` |
| `RefundPromiseKept` | `Spec => KeepsRefundPromise`: `Refunds` implements `RefundPromise` |
| `TripTypeCorrect`, `PriceKept`, `MoneyHeld` (of `BookedTrip`) | `Spec => []TypeOK`, `Spec => []TotalIsThePrice`, `Spec => []HoldsItsMoney` |
| `NoOverselling` | `Spec => []NoDateOversold` |
| `ChangedOnce`, `ChangeMoneySettles` | `Spec => []OneOnlineChange`, `Spec => ChangeMoneyMovesOrReturns` |
| `SheetTypeCorrect` (of `Checkout`) | `Spec => []TypeOK`, with the api's free seats at least zero |
| `OutcomesStayTrue`, `OwnSeatsOnce` | `Spec => []OutcomesAreTrue`, `Spec => []OwnSeatsCountOnce` |
| `PaysOnce` | `Spec => []PaidTwiceOnlyAfterTrouble` |
| `ListTypeCorrect` (of `Waitlist`) | `Spec => []TypeOK` |
| `SeatsPromisedOnce`, `ClaimsAreHeld` | `Spec => []NoSeatTwice`, `Spec => []ClaimKeepsItsHold` |
| `ServedFirst`, `ListsEnd` | `Spec => ServedInOrder`, `Spec => ListEnds` |

The inductive invariant is `MoneyInv == TypeOK /\ MoneyHasAHome /\ KeptOnlyWhenFinal /\
OrdersExist`. `TypeOK` is not inductive alone: `mark_paid` records `total - paid`, a natural number
only because a booking still awaiting payment holds nothing, which is part of `MoneyHasAHome`. That
in turn needs that only finally cancelled bookings keep money (`KeptOnlyWhenFinal`: otherwise
`refund_owed` would hold back a share of a `seats_gone` payment) and that money lands only on
bookings that exist (`OrdersExist`). `SettleMoney` carries the case split of `settle_capture` once;
every action that captures money cites it. `MoneyAccounted` is then inductive relative to
`MoneyInv`: each capture adds one payment to `CapturedOf` and its amount to `paid + refunded`.

The seat theorems need only types and counting: `FitsMakesRoom` (a party that fits beside the
bookings in B can be seated with them) and `HoldingShrinks` (who holds seats now held them when the
transaction began, so a check against an older view is never too generous). `SeatsStep` collects,
for every step, the parties it seats and the room each was given; `NoDoubleSelling` follows, and
`PromiseStep` maps every action to `Reseat`, `Sell`, `Close`, `SetAside`, `Resize` or a stutter.

For refunds, `FlagInv` adds to the types that Razorpay hears only of rows that exist and are not by
hand (`NeverSent`, `TodoSendable`), that what a sender heard did happen (`HeardTrue`), and that a row
with an id was made (`IdsMade`): a report changes the flag's two sides alike, and a flag that is down
speaks of Razorpay only through the ids. No theorem about refunds assumes anything of Razorpay.
`WordInv` says of every key what follows from its own history: about a key whose word is kept (`WordKept`,
which once broken stays broken) there is one refund or a refusal, never both; a failed row was refused,
or was made, failed and has its id (so `_revive` never fires); a final answer still holds when it is
applied. Each action then turns rows from one phase to the next, or none, or disowns the one it breaks
the word about, which is `RefundPromise`.

For date changes, `ChangeInv` says that the rows keep their columns and that at most one change is held
or done (`OneActive`). It holds because `start_change` refuses once a change is done (`Used`) and ends
the one still held before it holds seats again (`EndedHolds`), and `settle_change` finishes only a
change that is still held: a late payment of a replaced one never revives it (`OneRow`).

Sums over rows, payments, bookings and add-ons are folds over finite sets. `Sums` proves what a sum
does (it is a natural number when its terms are, splits at an element or into parts, grows with its
terms, moves by what one term moves): the set for which such a fact fails has a smallest subset for
which it fails, since strict inclusion is well founded on finite sets, and taking from that one the
element the fold takes first contradicts its being smallest. So the constants summed over are assumed
finite (`Changes`, `Addons`, `Payments`, `Rows`, `Orders`, `People`, `Bookings` of `Waitlist`); the rows of one
booking, and of one departure's list, always are.

For refunds, `MoneyAdds` is inductive with the types: a plan takes off `paid` what it spreads over the
payments (`PlanGives`), and a row that fails or comes back moves its amount between the two sides
(`RowGives`). `PaymentsHoldIt` follows from it (`MoneyFits`: what the payments hold and have not given
back is what the books hold). `LeftIsOffTheBooks` follows from `MoneyAdds` and `WordInv`: a row that
is with the customer, its key's word kept, is not failed, so its amount is among what was taken off.

For a trip, `TripInv == TypeOK /\ TotalIsThePrice /\ HoldsItsMoney /\ HeldRows`. A held change's
price difference was computed when it started; it is still the right one when its money settles
because the party is the one it was computed for (`HeldRows`: the owner's move is all that alters the
party, and it ends every held change) and because `settle_change` asks itself whether the booking is
still on the old date. With it each capture adds to `paid` what it adds to
the total, or is returned. `NoDateOversold` is inductive relative to it: a swap takes the seats its own
row held (`HeldMoves`), so it never needs more than were set aside.

For the sheet, `BaseInv` adds to the types that calls, windows and the phase speak only of orders the
api made (`KnownOrders`). `SaidInv`: a
window that reports success, a confirm under way and the phase after it are of orders whose money was
taken, an answer that names an outcome names the booking's own, and a booking so settled stays as it
is; nothing lost or late can disturb that. `OwnInv`: a read
asked after a hold, and served, counts it. `SessionInv`: until a call is lost or a window hides there
is one call or one window (`OneThing`), it belongs to the phase and its order, and only that order may
be paid and not answered for; and the order about to be paid was never paid or answered for (`Fresh`:
a new order is known to nobody, and an order answered for is not reopened). From these
`PaidTwiceOnlyAfterTrouble` is immediate.

For the waitlist, `WaitInv` says that the list has one order; that a claim has a booking of its own,
its person's while unpaid, with a hold that ends with the offer or is gone (`ClaimRight`); that the hold
is there while the offer would run (`ClaimsLive`); and that the holds a refused order may give back
are nobody's claim (`CallGood`). Without that last part `ClaimKeepsItsHold` is not inductive: giving
back a hold would end the claim that follows it. The view's seats are two sums, over bookings and over
places, at a stated time (`SeatsAt`): time alone only frees seats (`SeatsGrow`), and a booking or an
offer that changes moves them by its own seats (`HoldMoves`, `OfferMoves`). A walk is taken in two
parts, what lapses and what is then offered. The places it serves are one set: it exists
(`GivenExists`: leave out the last place, `LastOne`, of the shortest list for which it would not), and
it fits what is free. After any walk every claim still running is live (`WalkGood`). `ServedInOrder` then
says that a place left out, with room for it beside what went to places behind it, would have been in
that set (`NobodyPassed`), and `ListEnds` that the walk after the cutoff serves nobody and takes
everyone off (`NobodyStays`).

Only model-checked: the liveness properties (they rest on fairness, which these provers do not
handle), and the four violations. Every invariant, action property and refinement that a passing run
checks is a theorem.

## 6. Limits and plan

Limits of the modules: in `BookingOrders`, waitlist and date changes appear only as seats set aside
within `MaxAside`, given only when free; the cron's walks are `SetAside`; captured payments pay an
order's amount. In `Refunds` the status of the booking is kept only as far as refunds ask for it.
`Checkout` follows one sheet in one tab.

In `Waitlist` and `BookedTrip` the date's seats (`Capacity`) are constant and the clocks are one. The
owner may save fewer seats than are taken (`admin_packages.py:806`), which `BookingOrders` has
(`SaveSeats`) and these do not: `Waitlist.SeatsLeft` is the view's number without its clamp at zero
(`0018_waitlist.py:33`), equal to it only while the seats never fall below what is taken, and with
fewer seats saved `orders.py:361` would add a claim's own seats to the clamped zero. In `BookedTrip` a
held change is judged by the same clock as the seats, where `changes.py:801` and `:842` use two: a late
capture may count its own party against itself, as finding 2 shows for orders. Further in `Waitlist`, a
person has one request under way (two tabs claiming at once are not modelled), and `Opened` takes the
payments row and the walk after it (`orders.py:506`), two transactions, as one step. In `BookedTrip`
the booking is alone with `others`, so the same person's second booking is a stranger's.

Mail, history rows, documents and cache refreshes change nothing decided in any of them.

### Not modelled

- *Payment links and counter bookings*: their captures settle like the core's; what is their own is a
  link's row, learnt late from webhooks, and its cancelling at Razorpay.
- *Coupons*: one count under the coupon's row lock.
- *Lock order*: each locked section is one step everywhere, so a deadlock between locks is not a state.
- *Prices, tax, deals, rooms*: pure arithmetic, covered by the repository's unit tests; the models need only that
  a total is a sum of its parts.
- *Mail, documents, vouchers, reports, catalogue texts, enquiries, reviews, saved trips, sign-in*: they
  decide nothing about seats or money.
- *The rest of the front-end, `api-types.ts`, `src/mockups`*: pages and forms that show what the api
  answers, a generated file, and static design sketches.

### Plan

Modules for payment links and counter bookings, for the order of locks across departures, and for a
coupon's last use, each with its promise composed with `BookingOrders` or `SeatPromise`; then the daily
job's walk over departures, one transaction each, when one of them fails.
