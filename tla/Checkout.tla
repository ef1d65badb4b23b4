------------------------------ MODULE Checkout ------------------------------
(***************************************************************************)
(* The booking sheet of one visitor in one browser tab (use-booking.ts):   *)
(* the choice of a date and a party, Pay, Razorpay's Checkout window and   *)
(* what the sheet says afterwards, against an api that answers late or not *)
(* at all and a window that may close, hide or call back at any moment.    *)
(*                                                                         *)
(* One departure is on sale.  A form stands for everything the body of an  *)
(* order is made from (party, add-ons, code, deposit or full), so two      *)
(* orders of one form have the same key.  The api and Razorpay are kept to *)
(* what the sheet can see of them.                                         *)
(***************************************************************************)
EXTENDS Integers, FiniteSets, FiniteSetsExt

CONSTANTS
  Orders,      (* the bookings this visitor may start                       *)
  Forms,       (* what the sheet may be filled in with                      *)
  Party,       (* form -> its travellers                                    *)
  Seats,       (* the departure's seats                                     *)
  Slots,       (* availability reads that may be in flight at once          *)
  MaxTroubles, (* bound: calls lost and windows hidden                      *)
  None

ASSUME CheckoutAssumption ==
  /\ IsFiniteSet(Orders) /\ Party \in [Forms -> Nat \ {0}]
  /\ Seats \in Nat /\ MaxTroubles \in Nat /\ None \notin Orders \union Forms

VARIABLES
  (* At the api and at Razorpay. *)
  status,      (* order -> its booking: none, held, ended (hold over or     *)
               (* replaced), swept, released, confirmed, refunding          *)
  left,        (* order -> its hold's time left: 2 more than 45 s, 1 less,  *)
               (* 0 over; the sheet counts down from the same expiry        *)
  seatsOf,     (* order -> the seats it asked for                           *)
  charged,     (* the orders Razorpay has taken the money of                *)
  others,      (* seats of other visitors                                   *)
  (* In the sheet. *)
  form, chosen, gone,   (* the form, whether the date is picked, or named   *)
                        (* as no longer available                           *)
  list,        (* the departures read last: seats, whether it was asked     *)
               (* after the present hold (at > since), and, of such a read, *)
               (* the holds it had subtracted (known to no one)             *)
  added,       (* the memo adds the visitor's own held seats back           *)
  held,        (* the visitor's hold: its order and form                    *)
  lastOrder,   (* the last order and its key                                *)
  quote,       (* idle, or without an answer; loading; ok                   *)
  phase,       (* where Pay has got to                                      *)
  attempt,     (* the attempt in progress, and whether a path took it       *)
  (* Between them. *)
  windows,     (* Checkout windows alive                                    *)
  calls,       (* requests in flight, and their answers                     *)
  reads,       (* availability reads in flight                              *)
  (* History. *)
  told,        (* orders whose outcome the visitor was shown                *)
  twice,       (* orders Razorpay took the money of more than once          *)
  troubles     (* calls lost, and windows hidden that could still be paid in *)

server == <<status, left, seatsOf, charged, others>>
choice == <<form, chosen, gone, quote>>
seen == <<list, added, held, reads>>
pay == <<lastOrder, phase, attempt>>
history == <<told, twice, troubles>>
vars == <<server, choice, seen, pay, windows, calls, history>>

Statuses == {"none", "held", "ended", "swept", "released", "confirmed", "refunding"}
Answers == {"asked", "lost", "pending", "cancelled", "confirmed", "refunding",
            "made", "full", "refused"}
Call == [kind : {"create", "load", "confirm", "sync"}, order : Orders \union {None},
         form : Forms \union {None}, answer : Answers]
Busy == {"starting", "opening", "paying", "checking"}
Finished == {"confirming", "unconfirmed", "done"}
Phase == [kind : {"choose", "dismissed"} \union Busy \union Finished,
          order : Orders \union {None}, result : Answers \union {None}]

At(kind, o) == [kind |-> kind, order |-> o, result |-> None]
Ask(kind, o, f) == [kind |-> kind, order |-> o, form |-> f, answer |-> "asked"]

-----------------------------------------------------------------------------
(* The api.                                                                 *)

Counting == {o \in Orders : status[o] \in {"held", "confirmed"}}
Mine(S) == MapThenSumSet(LAMBDA o : seatsOf[o], S)
Free == Seats - others - Mine(Counting)

\* What the api says of a booking.
Said(s) == CASE s \in {"held", "ended"} -> "pending"
             [] s \in {"swept", "released"} -> "cancelled"
             [] OTHER -> s

\* Mutant of Settled: late money is not checked against the seats left.
SettledUnchecked(o) ==
  IF status[o] \in {"held", "ended", "swept"} THEN "confirmed"
  ELSE IF status[o] = "released" THEN "refunding" ELSE status[o]

\* settle_capture of a charged order, here only as far as the sheet can tell.
Settled(o) ==
  CASE status[o] = "held" -> "confirmed"
    [] status[o] \in {"ended", "swept"} ->
         IF Free >= seatsOf[o] THEN "confirmed" ELSE "refunding"
    [] status[o] = "released" -> "refunding"
    [] OTHER -> status[o]

Answered(c, a) == calls' = (calls \ {c}) \union {[c EXCEPT !.answer = a]}

\* POST /bookings: a hold that replaces the visitor's own, or a refusal.
ServeCreate(c) ==
  LET own == {o \in Orders : status[o] = "held"} IN
  /\ c.kind = "create" /\ c.answer = "asked"
  /\ \/ \E o \in Orders :
          /\ status[o] = "none" /\ Free + Mine(own) >= Party[c.form]
          /\ status' = [p \in Orders |-> IF p = o THEN "held"
                                         ELSE IF p \in own THEN "ended" ELSE status[p]]
          /\ left' = [left EXCEPT ![o] = 2]
          /\ seatsOf' = [seatsOf EXCEPT ![o] = Party[c.form]]
          /\ calls' = (calls \ {c}) \union {[c EXCEPT !.answer = "made", !.order = o]}
     \/ /\ Free + Mine(own) < Party[c.form]
        /\ Answered(c, "full") /\ UNCHANGED <<status, left, seatsOf>>
     \/ Answered(c, "refused") /\ UNCHANGED <<status, left, seatsOf>>
  /\ UNCHANGED <<charged, others, choice, seen, pay, windows, history>>

\* Mutant of Finds: the sheet is believed that its order was paid.
FindsUnasked(c) == c.kind = "confirm" \/ status[c.order] \in {"held", "ended", "swept"}

\* The money the api finds at Razorpay: by the signature it is given, or, for a
\* booking that still awaits payment, by asking.
Finds(c) ==
  /\ c.order \in charged
  /\ c.kind = "confirm" \/ status[c.order] \in {"held", "ended", "swept"}

\* POST /confirm with Razorpay's signature, and POST /sync.
ServeOutcome(c) ==
  LET now == IF Finds(c) THEN Settled(c.order) ELSE status[c.order]
  IN /\ c.kind \in {"confirm", "sync"} /\ c.answer = "asked"
     /\ status' = [status EXCEPT ![c.order] = now]
     /\ Answered(c, Said(now))
     /\ UNCHANGED <<left, seatsOf, charged, others, choice, seen, pay, windows, history>>

\* Razorpay's webhook settles what was captured, with or without the sheet.
Webhook(o) ==
  /\ o \in charged /\ status[o] \in {"held", "ended", "swept", "released"}
  /\ status' = [status EXCEPT ![o] = Settled(o)]
  /\ UNCHANGED <<left, seatsOf, charged, others, choice, seen, pay, windows, calls, history>>

\* A hold runs down; over, it no longer counts.  (One nobody looks at stands.)
Tick(o) ==
  /\ left[o] > 0
  /\ status[o] = "held" \/ (lastOrder # None /\ lastOrder.order = o)
  /\ left' = [left EXCEPT ![o] = @ - 1]
  /\ status' = [status EXCEPT ![o] = IF left[o] = 1 /\ @ = "held" THEN "ended" ELSE @]
  /\ UNCHANGED <<seatsOf, charged, others, choice, seen, pay, windows, calls, history>>

\* The sweep cancels a lapsed hold; the desk releases one.
Cancel(o) ==
  /\ \/ status[o] = "ended" /\ left[o] = 0 /\ status' = [status EXCEPT ![o] = "swept"]
     \/ status[o] \in {"held", "ended"} /\ status' = [status EXCEPT ![o] = "released"]
  /\ UNCHANGED <<left, seatsOf, charged, others, choice, seen, pay, windows, calls, history>>

\* Other visitors book and cancel.
Others(n) ==
  /\ n # others /\ n \in 0..(others + Free)
  /\ others' = n
  /\ UNCHANGED <<status, left, seatsOf, charged, choice, seen, pay, windows, calls, history>>

-----------------------------------------------------------------------------
(* What the sheet shows.                                                    *)

\* Mutant of AddsBack: whatever is on screen gets the held seats added.
AddsBackAlways(h, fresh) == h # None /\ left[h.order] > 0

\* The departures memo: the visitor's seats are added back to a read asked
\* after the hold, while it lasts.
AddsBack(h, fresh) == h # None /\ left[h.order] > 0 /\ fresh

Shown(l, a, h) == l.seats + (IF a THEN Party[h.form] ELSE 0)

\* unbookableReason, for a date that is priced and far enough away.
Reason(n, f) == IF n <= 0 THEN "sold_out" ELSE IF n < Party[f] THEN "short" ELSE "none"

\* The effects that follow a handler that leaves the date picked (p) or named
\* as gone (g): a bookable date is picked unless one has gone, a sold-out one
\* is dropped, and the quote is asked again when what it is asked with changed.
Effects(p, g) ==
  LET was == Reason(Shown(list, added, held), form)
      r == Reason(Shown(list', added', held'), form')
      picked == p \/ (~ g /\ r = "none")
      own == held' # None /\ held'.form = form' /\ left[held'.order] > 0
  IN /\ chosen' = (picked /\ r # "sold_out")
     /\ gone' = (g \/ (picked /\ r = "sold_out"))
     /\ quote' = IF ~ chosen' \/ r # "none" THEN "idle"
                 ELSE IF <<chosen, form, held>>' = <<chosen, form, held>> /\ r = was THEN quote
                 ELSE IF own THEN "ok" ELSE "loading"

\* setHeld: what was read or asked before is older than a new hold.
Hold(h) ==
  /\ held' = h
  /\ list' = [list EXCEPT !.fresh = FALSE, !.counts = {}]
  /\ added' = FALSE

\* refresh: the departures are asked for, stamped after the hold in h or not.
\* (Where every slot is taken, an earlier read stands for this one.)
Idle == [state |-> "idle", fresh |-> FALSE, seats |-> 0, counts |-> {}]
Aged == [i \in Slots |-> [reads[i] EXCEPT !.fresh = FALSE, !.counts = {}]]
Asks(was, h) ==
  LET free == {i \in Slots : was[i].state = "idle"}
      asked == [Idle EXCEPT !.state = "asked", !.fresh = h # None]
  IN IF free = {} THEN reads' = was
     ELSE \E i \in free : reads' = [was EXCEPT ![i] = asked]

\* The sheet is opened again, or the visitor asks.
Refresh ==
  /\ phase.kind # "paying" /\ \E i \in Slots : reads[i].state = "idle"
  /\ Asks(reads, held)
  /\ UNCHANGED <<server, choice, list, added, held, pay, windows, calls, history>>

\* The api reads the view: live holds and sold seats are subtracted.
ServeRead(i) ==
  /\ reads[i].state = "asked"
  /\ reads' = [reads EXCEPT
       ![i].state = "told", ![i].seats = Free,
       ![i].counts = IF reads[i].fresh THEN {o \in Orders : status[o] = "held"} ELSE {}]
  /\ UNCHANGED <<server, choice, list, added, held, pay, windows, calls, history>>

\* The list arrives, with the stamp of when it was asked.
Arrives(i) ==
  /\ reads[i].state = "told"
  /\ list' = [seats |-> reads[i].seats, fresh |-> reads[i].fresh, counts |-> reads[i].counts]
  /\ added' = AddsBack(held, reads[i].fresh)
  /\ reads' = [reads EXCEPT ![i] = Idle]
  /\ UNCHANGED <<held, form>>
  /\ Effects(chosen, gone)
  /\ UNCHANGED <<server, pay, windows, calls, history>>

\* The read fails: the list on screen is still the last good one.
ReadFails(i) ==
  /\ reads[i].state # "idle"
  /\ reads' = [reads EXCEPT ![i] = Idle]
  /\ UNCHANGED <<server, choice, list, added, held, pay, windows, calls, history>>

\* The visitor changes the party, or whatever else the order is made from.
ChooseForm(f) ==
  /\ f # form /\ phase.kind \notin Finished \union {"paying"}
  /\ form' = f /\ UNCHANGED seen
  /\ Effects(chosen, gone)
  /\ UNCHANGED <<server, pay, windows, calls, history>>

\* chooseDeparture.
ChooseDate ==
  /\ ~ chosen /\ phase.kind \notin Finished \union {"paying"}
  /\ UNCHANGED <<form, seen>>
  /\ Effects(TRUE, FALSE)
  /\ UNCHANGED <<server, pay, windows, calls, history>>

\* The quote is answered: priced, refused for its seats (and the list is read
\* again), or not at all.  Answers to an older question are aborted.
Quoted ==
  /\ quote = "loading"
  /\ \/ Free >= Party[form] /\ quote' = "ok" /\ UNCHANGED reads
     \/ Free < Party[form] /\ quote' = "idle" /\ Asks(reads, held)
     \/ quote' = "idle" /\ UNCHANGED reads
  /\ UNCHANGED <<server, form, chosen, gone, list, added, held, pay, windows, calls, history>>

-----------------------------------------------------------------------------
(* Pay.                                                                     *)

CanPay ==
  /\ chosen /\ Reason(Shown(list, added, held), form) = "none"
  /\ quote = "ok" /\ phase.kind \in {"choose", "dismissed"}

\* The last order is reopened for the same form while its hold is worth it.
Reuses == lastOrder # None /\ lastOrder.form = form /\ left[lastOrder.order] = 2

\* startPayment, up to its first call.
Pay ==
  /\ CanPay
  /\ IF Reuses
     THEN /\ phase' = At("opening", lastOrder.order)
          /\ calls' = calls \union {Ask("load", lastOrder.order, None)}
     ELSE /\ phase' = At("starting", None)
          /\ calls' = calls \union {Ask("create", None, form)}
  /\ gone' = FALSE
  /\ UNCHANGED <<server, form, chosen, quote, seen, lastOrder, attempt, windows, history>>

\* 201: the order is the last one and its hold is the visitor's.
OrderMade(c) ==
  /\ c.kind = "create" /\ c.answer = "made"
  /\ lastOrder' = [order |-> c.order, form |-> c.form]
  /\ Hold([order |-> c.order, form |-> c.form]) /\ reads' = Aged
  /\ phase' = At("opening", c.order)
  /\ calls' = (calls \ {c}) \union {Ask("load", c.order, None)}
  /\ form' = form
  /\ Effects(chosen, gone)
  /\ UNCHANGED <<server, attempt, windows, history>>

\* 409: the date is gone (unbookable); the list is read again.
OrderFull(c) ==
  /\ c.kind = "create" /\ c.answer = "full"
  /\ lastOrder' = None /\ phase' = At("choose", None)
  /\ calls' = calls \ {c}
  /\ Hold(None) /\ Asks(Aged, None)
  /\ chosen' = FALSE /\ gone' = TRUE /\ quote' = "idle"
  /\ UNCHANGED <<server, form, attempt, windows, history>>

\* Any other refusal, or no answer: back to the form, with a banner.
OrderRefused(c) ==
  /\ c.kind = "create" /\ c.answer \in {"refused", "lost"}
  /\ phase' = At("choose", None)
  /\ calls' = calls \ {c}
  /\ UNCHANGED <<server, choice, seen, lastOrder, attempt, windows, history>>

\* Checkout's script is there: the window opens, and the attempt with it.
Opens(c) ==
  /\ c.kind = "load"
  /\ attempt' = [order |-> c.order, closed |-> FALSE]
  /\ windows' = windows \union {[order |-> c.order, shown |-> TRUE, paid |-> FALSE]}
  /\ phase' = IF phase.kind = "opening" THEN At("paying", c.order) ELSE phase
  /\ calls' = calls \ {c}
  /\ UNCHANGED <<server, choice, seen, lastOrder, history>>

\* The script does not load, or the window does not open.
OpenFails(c) ==
  /\ c.kind = "load"
  /\ phase' = At("dismissed", c.order)
  /\ calls' = calls \ {c}
  /\ UNCHANGED <<server, choice, seen, lastOrder, attempt, windows, history>>

-----------------------------------------------------------------------------
(* Razorpay's window, and what the sheet makes of it.                       *)

Close == IF attempt = None THEN None ELSE [attempt EXCEPT !.closed = TRUE]
Taken == attempt # None /\ attempt.closed

\* Mutant of AfterClose: a closed window is taken at its word.
AfterCloseUnasked(o) == phase' = At("dismissed", o) /\ UNCHANGED calls

\* afterClose: before Pay is offered again the api is asked about the order.
AfterClose(o) ==
  /\ phase' = At("checking", o)
  /\ calls' = calls \union {Ask("sync", o, None)}

Confirms(o) ==
  /\ phase' = At("confirming", o)
  /\ calls' = calls \union {Ask("confirm", o, None)}

\* The visitor pays in a window, though the order may be paid already.
PayIn(w) ==
  /\ ~ w.paid
  /\ charged' = charged \union {w.order}
  /\ twice' = twice \union (charged \intersect {w.order})
  /\ windows' = (windows \ {w}) \union {[w EXCEPT !.paid = TRUE]}
  /\ UNCHANGED <<status, left, seatsOf, others, choice, seen, pay, calls, told, troubles>>

\* handler: the success callback always wins.
Succeeds(w) ==
  /\ w.paid
  /\ attempt' = Close /\ Confirms(w.order)
  /\ windows' = windows \ {w}
  /\ UNCHANGED <<server, choice, seen, lastOrder, history>>

\* ondismiss: by the visitor, or by the timeout at the end of the hold.
Dismissed(w) ==
  /\ IF Taken THEN UNCHANGED <<phase, calls, attempt>>
     ELSE AfterClose(w.order) /\ attempt' = Close
  /\ windows' = windows \ {w}
  /\ UNCHANGED <<server, choice, seen, lastOrder, history>>

\* A window that hides may still be paid in, and call back.
Hides(w) ==
  /\ w.shown /\ troubles < MaxTroubles
  /\ windows' = (windows \ {w}) \union {[w EXCEPT !.shown = FALSE]}
  /\ troubles' = troubles + 1
  /\ UNCHANGED <<server, choice, seen, pay, calls, told, twice>>

\* A window that goes quietly calls nobody.
Vanishes(w) ==
  /\ windows' = windows \ {w}
  /\ UNCHANGED <<server, choice, seen, pay, calls, history>>

\* Mutant of Unseen: a window that is not on the page at all is not missed.
UnseenHidden == \E w \in windows : ~ w.shown

\* No window on the page, twice in a row.
Unseen == \A w \in windows : ~ w.shown

Watchdog ==
  /\ phase.kind = "paying" /\ Unseen
  /\ attempt # None /\ ~ attempt.closed
  /\ attempt' = Close /\ AfterClose(attempt.order)
  /\ UNCHANGED <<server, choice, seen, lastOrder, windows, history>>

\* The outcome of an order is shown; what was held for it is let go.
Done(c) ==
  /\ phase' = [kind |-> "done", order |-> c.order, result |-> c.answer]
  /\ told' = told \union {c.order}
  /\ lastOrder' = None
  /\ Hold(None) /\ reads' = Aged /\ form' = form
  /\ Effects(chosen, gone)

\* The answer to a confirm.
Confirmed(c) ==
  /\ c.kind = "confirm" /\ c.answer # "asked"
  /\ IF c.answer = "lost"
     THEN phase' = At("unconfirmed", c.order) /\ UNCHANGED <<choice, seen, lastOrder, told>>
     ELSE Done(c)
  /\ calls' = calls \ {c}
  /\ UNCHANGED <<server, attempt, windows, twice, troubles>>

\* Pay is offered again when nothing was paid, or nobody knows.
OffersAgain(a) == a \in {"lost", "pending"}

\* The answer to a sync.
Synced(c) ==
  /\ c.kind = "sync" /\ c.answer # "asked"
  /\ IF OffersAgain(c.answer)
     THEN phase' = At("dismissed", c.order) /\ UNCHANGED <<choice, seen, lastOrder, told>>
     ELSE Done(c)
  /\ calls' = calls \ {c}
  /\ UNCHANGED <<server, attempt, windows, twice, troubles>>

\* A request or its answer is lost, or the api fails: fetch throws, or !res.ok.
Lose(c) ==
  /\ c.kind # "load" /\ c.answer # "lost" /\ troubles < MaxTroubles
  /\ Answered(c, "lost")
  /\ troubles' = troubles + 1
  /\ UNCHANGED <<server, choice, seen, pay, windows, told, twice>>

RetryConfirm ==
  /\ phase.kind = "unconfirmed" /\ Confirms(phase.order)
  /\ UNCHANGED <<server, choice, seen, lastOrder, attempt, windows, history>>

\* What BookingDone says.
Screen ==
  CASE phase.kind \notin Finished -> "form"
    [] phase.kind = "done" /\ phase.result = "refunding" -> "refund"
    [] phase.kind = "done" /\ phase.result = "confirmed" -> "welcome"
    [] OTHER -> "received"

\* "Pick another date", after money that came too late.
StartOver ==
  /\ Screen = "refund"
  /\ phase' = At("choose", None) /\ lastOrder' = None
  /\ Hold(None) /\ Asks(Aged, None) /\ form' = form
  /\ Effects(chosen, gone)
  /\ UNCHANGED <<server, attempt, windows, calls, history>>

-----------------------------------------------------------------------------
\* The sheet is opened: the page's own list is on screen and is read again.
Init ==
  /\ status = [o \in Orders |-> "none"]
  /\ left = [o \in Orders |-> 0] /\ seatsOf = [o \in Orders |-> 0]
  /\ charged = {} /\ others = 0
  /\ form \in Forms /\ chosen = FALSE /\ gone = FALSE /\ quote = "idle"
  /\ list = [seats |-> Seats, fresh |-> FALSE, counts |-> {}]
  /\ added = FALSE /\ held = None
  /\ lastOrder = None /\ phase = At("choose", None) /\ attempt = None
  /\ windows = {} /\ calls = {}
  /\ reads \in [Slots -> {Idle, [Idle EXCEPT !.state = "asked"]}]
  /\ told = {} /\ twice = {} /\ troubles = 0

Serve(kinds) ==
  \E c \in calls : c.kind \in kinds /\ (ServeCreate(c) \/ ServeOutcome(c))
Ordered == \E c \in calls : OrderMade(c) \/ OrderFull(c) \/ OrderRefused(c)
Loaded == \E c \in calls : Opens(c) \/ OpenFails(c)
WindowEnds(o) ==
  \E w \in windows : w.order = o /\ (Succeeds(w) \/ Dismissed(w) \/ Vanishes(w))

Next ==
  \/ \E o \in Orders : Webhook(o) \/ Tick(o) \/ Cancel(o) \/ WindowEnds(o)
  \/ \E n \in 0..Seats : Others(n)
  \/ Refresh
  \/ \E i \in Slots : ServeRead(i) \/ Arrives(i) \/ ReadFails(i)
  \/ \E f \in Forms : ChooseForm(f)
  \/ ChooseDate \/ Quoted \/ Pay \/ Watchdog \/ RetryConfirm \/ StartOver
  \/ Serve({"create", "confirm", "sync"}) \/ Ordered \/ Loaded
  \/ \E c \in calls : Confirmed(c) \/ Synced(c) \/ Lose(c)
  \/ \E w \in windows : PayIn(w) \/ Hides(w)

Spec == Init /\ [][Next]_vars

\* Requests are answered or time out, a window closes at the latest when its
\* timeout runs out, and the watchdog's timer runs.  The visitor, the desk and
\* other visitors are never fair.
Fairness ==
  /\ \A k \in {"create", "confirm", "sync"} : WF_vars(Serve({k}))
  /\ WF_vars(Ordered) /\ WF_vars(Loaded) /\ WF_vars(Watchdog)
  /\ WF_vars(\E c \in calls : Confirmed(c)) /\ WF_vars(\E c \in calls : Synced(c))
  /\ \A o \in Orders : WF_vars(WindowEnds(o))

FairSpec == Spec /\ Fairness

-----------------------------------------------------------------------------
(* Properties.                                                              *)

TypeOK ==
  /\ status \in [Orders -> Statuses] /\ left \in [Orders -> 0..2]
  /\ seatsOf \in [Orders -> Nat] /\ charged \subseteq Orders
  /\ others \in Nat /\ Free >= 0
  /\ form \in Forms /\ chosen \in BOOLEAN /\ gone \in BOOLEAN
  /\ quote \in {"idle", "loading", "ok"}
  /\ list \in [seats : 0..Seats, fresh : BOOLEAN, counts : SUBSET Orders]
  /\ added \in BOOLEAN
  /\ held = None \/ held \in [order : Orders, form : Forms]
  /\ lastOrder = None \/ lastOrder \in [order : Orders, form : Forms]
  /\ phase \in Phase
  /\ attempt = None \/ attempt \in [order : Orders, closed : BOOLEAN]
  /\ windows \subseteq [order : Orders, shown : BOOLEAN, paid : BOOLEAN]
  /\ calls \subseteq Call
  /\ reads \in [Slots -> [state : {"idle", "asked", "told"}, fresh : BOOLEAN,
                         seats : 0..Seats, counts : SUBSET Orders]]
  /\ told \subseteq Orders /\ twice \subseteq Orders /\ troubles \in 0..MaxTroubles

\* The seats added back on screen are seats the list had subtracted: while the
\* hold stands, the visitor is never shown their own seats twice ("only a read
\* started after the hold gets the visitor's seats added back", use-booking.ts).
OwnSeatsCountOnce ==
  added /\ status[held.order] = "held" => held.order \in list.counts

\* Unless a call was lost or a window hid, the sheet never takes money twice
\* for one order, nor for two before it has said what became of the first.
PaidTwiceOnlyAfterTrouble ==
  troubles > 0 \/ (twice = {} /\ \A o, p \in charged \ told : o = p)

\* BookingDone's three outcomes are about money: a booking is shown confirmed,
\* or cancelled with a refund, only when that became of it and Razorpay took
\* its payment, and a payment is checked only when Razorpay took one.
OutcomesAreTrue ==
  /\ Screen = "welcome" => phase.order \in charged /\ status[phase.order] = "confirmed"
  /\ Screen = "refund" => phase.order \in charged /\ status[phase.order] = "refunding"
  /\ phase.kind \in {"confirming", "unconfirmed"} => phase.order \in charged

\* "Three honest outcomes ... and paid but not yet confirmed by us"
\* (BookingDone.tsx:31): "Payment received" is said only of a payment.
PaymentSaidIsTaken == Screen = "received" => phase.order \in charged

\* The sheet never stays busy: Pay, the window and the check after it end.
BusyEnds ==
  phase.kind \in Busy \union {"confirming"} ~> phase.kind \notin Busy \union {"confirming"}

\* Money taken is answered for on screen, whether the window called back, was
\* closed, or went without a word; or some call was lost on the way.
TakenMoneyIsTold == \A o \in Orders : o \in charged ~> (o \in told \/ troubles > 0)

=============================================================================
