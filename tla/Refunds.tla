------------------------------- MODULE Refunds -------------------------------
(***************************************************************************)
(* The refunds of one booking (services/booking/refunds.py): planned in    *)
(* the transaction that decides them, sent to Razorpay after its commit by *)
(* any number of requests and daily jobs at once, and moved on by answers  *)
(* and webhooks that come late, twice or not at all.                       *)
(*                                                                         *)
(* Everything that touches the booking's money runs under its row lock     *)
(* (lock_booking), so bookings are independent of one another and every    *)
(* such transaction is one step.  No lock is held across a call.           *)
(***************************************************************************)
EXTENDS Integers, FiniteSets, Sequences, FiniteSetsExt

CONSTANTS
  Rows,          (* refunds rows that may come to exist; a row's id is its  *)
                 (* X-Refund-Idempotency key                                *)
  Payments,      (* the booking's payments rows                             *)
  PaymentOf,     (* refund row -> the payment it gives back                 *)
  Amount, Age,   (* payment -> amount_paise, and its place in created_at    *)
  Offline,       (* the payments made outside Razorpay                      *)
  Total,         (* total_paise when it was booked                          *)
  Dues,          (* what a later decision may let the booking keep          *)
  Lines,         (* prices of the add-ons that may join or be taken off     *)
  Senders,       (* requests and daily jobs that may send at the same time  *)
  MaxMade        (* bound: the refunds Razorpay makes under one key         *)

ASSUME RefundsAssumption ==
  /\ IsFiniteSet(Rows) /\ IsFiniteSet(Payments)
  /\ PaymentOf \in [Rows -> Payments] /\ Offline \subseteq Payments
  /\ Amount \in [Payments -> Nat \ {0}] /\ Age \in [Payments -> Nat]
  /\ Total \in Nat /\ Dues \subseteq Nat /\ Lines \subseteq Nat \ {0}
  /\ MaxMade \in Nat \ {0}

VARIABLES
  captured,   (* the payments rows that hold money                          *)
  due,        (* what the booking may keep: its price, or what a            *)
              (* cancellation kept (kept_paise, 0 when nothing)             *)
  over,       (* it is cancelled for good                                   *)
  paid,       (* paid_paise                                                 *)
  flag,       (* refund_needed                                              *)
  status,     (* refund row -> status, "none" before it exists              *)
  amount,     (* refund row -> amount_paise                                 *)
  rzpId,      (* refund row -> razorpay_refund_id: which of the refunds     *)
              (* made under its key, 0 for NULL                             *)
  made,       (* key -> the refunds Razorpay made under it, by status       *)
  turned,     (* history: the keys under which Razorpay refused a refund    *)
              (* before it had made one                                     *)
  todo,       (* sender -> the rows it read and has yet to send             *)
  heard       (* sender -> the answer it has yet to apply, if any           *)

books == <<captured, due, over, paid, flag, status, amount, rzpId>>
vars == <<books, made, turned, todo, heard>>

Statuses == {"none", "requested", "processed", "failed"}
AtRazorpay == {"pending", "processed", "failed"}

\* What a sender may hear: a refund with its id and status, a refusal, or that
\* the refused refund was not made under our key either.
Answer == [row : Rows, what : {"made", "refused", "unmade"},
           id : 0..MaxMade, as : AtRazorpay]

ByHand(r) == PaymentOf[r] \in Offline

-----------------------------------------------------------------------------
(* Money.                                                                   *)

SumOver(f(_), S) == MapThenSumSet(f, S)

\* Mutant of Counted: a failed refund still takes up its payment's room.
CountedForGood(r) == status[r] # "none"

\* The refunds that take up room on their payment.
Counted(r) == status[r] \in {"requested", "processed"}

Given(p) ==
  SumOver(LAMBDA r : amount[r], {r \in Rows : PaymentOf[r] = p /\ Counted(r)})

\* What can still go back from payment p, when the payments in C hold money.
Room(C, p) == IF p \in C /\ Amount[p] > Given(p) THEN Amount[p] - Given(p) ELSE 0

\* refund_owed on a booking that holds `sum` and may keep `keep`.
OwedOn(sum, keep) == IF sum > keep THEN sum - keep ELSE 0

\* Mutant of Waiting: an offline share to hand back raises no flag.
WaitingOnline(st, ids) == \E r \in Rows : st[r] = "requested" /\ ids[r] = 0 /\ ~ ByHand(r)

\* A refund the owner has to see to: never at Razorpay, or to hand back.
Waiting(st, ids) == \E r \in Rows : st[r] = "requested" /\ (ByHand(r) \/ ids[r] = 0)

\* _settle_flag.
Needed(st, ids, sum, keep) == Waiting(st, ids) \/ OwedOn(sum, keep) > 0

\* take splits `want` over the payments in C, newest first.
Split(take, want, C) ==
  /\ SumOver(LAMBDA p : take[p], Payments) = want
  /\ \A p \in Payments : take[p] <= Room(C, p)
  /\ \A p, q \in Payments :
       take[p] > 0 /\ Age[q] > Age[p] => take[q] = Room(C, q)

\* new has one row for each payment that something is taken from.
RowsFor(take, new) ==
  /\ \A r \in new : status[r] = "none" /\ take[PaymentOf[r]] > 0
  /\ \A p \in Payments : take[p] > 0 =>
       \E r \in new : \A s \in new : PaymentOf[s] = p <=> s = r

\* The rows and what they take off the money are written.
Book(take, new, sum, want) ==
  /\ paid' = sum - want
  /\ status' = [r \in Rows |-> IF r \in new THEN "requested" ELSE status[r]]
  /\ amount' = [r \in Rows |-> IF r \in new THEN take[PaymentOf[r]] ELSE amount[r]]

\* plan_refund of `want` out of the `sum` that the payments in C gave a booking
\* which may keep `keep`: one row per payment it is taken from.  Where they do
\* not hold the amount the whole transaction is refused.
Plan(sum, want, keep, C) ==
  /\ \E take \in [Payments -> 0..want] :
       /\ Split(take, want, C)
       /\ \E new \in SUBSET Rows : RowsFor(take, new) /\ Book(take, new, sum, want)
  /\ captured' = C /\ due' = keep
  /\ flag' = (want > 0 \/ Needed(status, rzpId, sum, keep))
  /\ UNCHANGED <<rzpId, made, turned, todo, heard>>

\* The money and the price change, and plan_refund is not called.
NoPlan(sum, keep, C) ==
  /\ captured' = C /\ due' = keep /\ paid' = sum
  /\ UNCHANGED <<flag, status, amount, rzpId, made, turned, todo, heard>>

-----------------------------------------------------------------------------
Init ==
  /\ captured = {}
  /\ due = Total
  /\ over = FALSE
  /\ paid = 0
  /\ flag = FALSE
  /\ status = [r \in Rows |-> "none"]
  /\ amount = [r \in Rows |-> 0]
  /\ rzpId = [r \in Rows |-> 0]
  /\ made = [r \in Rows |-> << >>]
  /\ turned = {}
  /\ todo = [s \in Senders |-> {}]
  /\ heard = [s \in Senders |-> {}]

\* A booking that is taken: it may grow, be moved and lose its add-ons.  (What
\* it asked for first, a deposit or its price, is not told apart here.)
Taken == captured # {} /\ ~ over

\* settle_capture, and settle_change when the booking moves: payment p lands,
\* x of it for a rise of the price, and what is owed goes back at once.
Capture(p, x) ==
  LET want == OwedOn(paid + Amount[p], due + x) IN
  /\ p \notin captured /\ x <= Amount[p] /\ (x > 0 => Taken)
  /\ \/ /\ want > 0 \/ x = 0
        /\ Plan(paid + Amount[p], want, due + x, captured \union {p})
     \/ /\ want = 0 /\ ~ over
        /\ NoPlan(paid + Amount[p], due + x, captured \union {p})
  /\ UNCHANGED over

\* settle_extras, and settle_change when it can no longer move the booking: all
\* of the payment but x, for new add-ons, goes back, whatever else is owed.
CaptureSpare(p, x) ==
  LET want == Amount[p] - x IN
  /\ p \notin captured /\ captured # {} /\ x <= Amount[p] /\ (x > 0 => Taken)
  /\ IF want > 0 THEN Plan(paid + Amount[p], want, due + x, captured \union {p})
     ELSE NoPlan(paid + Amount[p], due + x, captured \union {p})
  /\ UNCHANGED over

\* settle_capture on a booking not yet taken whose seats have gone.
SeatsGone(p) ==
  /\ p \notin captured /\ ~ over /\ \A r \in Rows : status[r] = "none"
  /\ Plan(paid + Amount[p], OwedOn(paid + Amount[p], 0), 0, captured \union {p})
  /\ over' = TRUE

\* An approved cancellation or an unpaid balance, which may keep something, or
\* a booking given up before anything was paid.
Cancel(k) ==
  /\ ~ over /\ k <= due /\ k <= paid
  /\ Plan(paid, OwedOn(paid, k), k, captured)
  /\ over' = TRUE

\* apply_swap of a move with nothing to pay now: the booking has another price,
\* and a refund is planned where it holds more than that.
Move(k) ==
  LET want == OwedOn(paid, k) IN
  /\ Taken /\ k # due
  /\ IF want > 0 THEN Plan(paid, want, k, captured) ELSE NoPlan(paid, k, captured)
  /\ UNCHANGED over

\* What goes back for an add-on of price x: the line in full, but no more than
\* the booking holds; for a checkout add-on of a part-paid booking (paid < due)
\* only what is held beyond the new price.
LineOwed(x) ==
  LET UpTo(sum) == IF sum < x THEN sum ELSE x IN
  {UpTo(OwedOn(paid, 0))} \union {w \in {UpTo(OwedOn(paid, due - x))} : paid < due}

\* remove_addon.
TakeOff(x) ==
  /\ Taken /\ x <= due
  /\ \E want \in LineOwed(x) : Plan(paid, want, due - x, captured)
  /\ UNCHANGED over

\* send_owed: the desk's button, after a failure.  With nothing owed it settles
\* the flag and sends again what is stuck (Read).
SendOwed ==
  /\ OwedOn(paid, due) > 0 \/ flag
  /\ Plan(paid, OwedOn(paid, due), due, captured)
  /\ UNCHANGED over

\* record_by_hand: the owner handed the offline shares back.
RecordByHand ==
  LET mine == {r \in Rows : status[r] = "requested" /\ ByHand(r)} IN
  /\ mine # {}
  /\ status' = [r \in Rows |-> IF r \in mine THEN "processed" ELSE status[r]]
  /\ flag' = Needed(status', rzpId, paid, due)
  /\ UNCHANGED <<captured, due, over, paid, amount, rzpId, made, turned, todo, heard>>

-----------------------------------------------------------------------------
(* Sending.                                                                 *)

\* Mutant of Stuck: what reached Razorpay is sent again, not what never did.
SentAgain(r) == status[r] = "requested" /\ ~ ByHand(r) /\ rzpId[r] # 0

\* A refund to send: not by hand, and without a Razorpay id.
Stuck(r) == status[r] = "requested" /\ ~ ByHand(r) /\ rzpId[r] = 0

\* send_refunds reads what to send: after a plan, for the desk's button, or
\* for the daily job (resend_stale).
Read(s) ==
  /\ todo[s] = {} /\ heard[s] = {}
  /\ \E r \in Rows : Stuck(r)
  /\ todo' = [todo EXCEPT ![s] = {r \in Rows : Stuck(r)}]
  /\ UNCHANGED <<books, made, turned, heard>>

\* Razorpay's own account of a payment: what its refunds there come to.
Left(p) ==
  SumOver(LAMBDA r : amount[r] * Cardinality({e \in DOMAIN made[r] : made[r][e] # "failed"}),
          {r \in Rows : PaymentOf[r] = p})

Reply(r, what, e, as) == [row |-> r, what |-> what, id |-> e, as |-> as]

\* The last refund Razorpay made under key r.
Latest(r) == Reply(r, "made", Len(made[r]), made[r][Len(made[r])])

\* Razorpay knows the key: it answers with the refund it made under it.
Repeats(r, answer) ==
  /\ made[r] # << >>
  /\ answer = Latest(r)
  /\ UNCHANGED <<made, turned>>

\* The key is new to Razorpay, or forgotten: it makes a refund ...
Makes(r, answer) ==
  /\ Len(made[r]) < MaxMade
  /\ \E as \in AtRazorpay :
       /\ answer = Reply(r, "made", Len(made[r]) + 1, as)
       /\ made' = [made EXCEPT ![r] = Append(@, as)]
  /\ Left(PaymentOf[r]) + amount[r] <= Amount[PaymentOf[r]]
  /\ UNCHANGED turned

\* ... or refuses to.
Refuses(r, answer) ==
  /\ answer = Reply(r, "refused", 0, "failed")
  /\ turned' = turned \union {q \in {r} : made[q] = << >>}
  /\ UNCHANGED made

Reaches(r, answer) == Repeats(r, answer) \/ Makes(r, answer) \/ Refuses(r, answer)

\* Mutant of OnTimeout: no answer is taken for a refusal.
GivesUp(r) == {Reply(r, "unmade", 0, "failed")}

\* What a sender makes of no answer (_note_error): the row stays as it is.
OnTimeout(r) == {}

\* The call to Razorpay and its answer, with no transaction open.
Send(s, r) ==
  /\ r \in todo[s] /\ heard[s] = {}
  /\ todo' = [todo EXCEPT ![s] = @ \ {r}]
  /\ \E a \in Answer : Reaches(r, a) /\ heard' = [heard EXCEPT ![s] = {a}]
  /\ UNCHANGED books

\* The call or its answer is lost: whatever Razorpay did, nothing is heard.
SendLost(s, r) ==
  /\ r \in todo[s] /\ heard[s] = {}
  /\ todo' = [todo EXCEPT ![s] = @ \ {r}]
  /\ (\E a \in Answer : Reaches(r, a)) \/ UNCHANGED <<made, turned>>
  /\ heard' = [heard EXCEPT ![s] = OnTimeout(r)]
  /\ UNCHANGED books

\* A refusal is checked against Razorpay's list (_refused, find_refund).
Check(s) ==
  \E a \in heard[s] :
    /\ a.what = "refused"
    /\ heard' = [heard EXCEPT ![s] =
         IF made[a.row] = << >> THEN {Reply(a.row, "unmade", 0, "failed")}
         ELSE {Latest(a.row)}]
    /\ UNCHANGED <<books, made, turned, todo>>

\* Razorpay cannot be reached for that list: the row stays as it is.
CheckLost(s) ==
  \E a \in heard[s] :
    /\ a.what = "refused"
    /\ heard' = [heard EXCEPT ![s] = OnTimeout(a.row)]
    /\ UNCHANGED <<books, made, turned, todo>>

\* The request dies: what it had read and heard is forgotten.
Crash(s) ==
  /\ todo[s] # {} \/ heard[s] # {}
  /\ todo' = [todo EXCEPT ![s] = {}]
  /\ heard' = [heard EXCEPT ![s] = {}]
  /\ UNCHANGED <<books, made, turned>>

-----------------------------------------------------------------------------
(* Outcomes.                                                                *)

\* Mutant of StatusOf: Razorpay's word is stored as it comes.
StatusAsGiven(as) == as

\* Mutant of StatusOf: a refund Razorpay has not finished counts as failed.
PendingFails(as) == IF as = "processed" THEN "processed" ELSE "failed"

\* Razorpay's refund status as ours.
StatusOf(as) == IF as = "pending" THEN "requested" ELSE as

\* A refund that failed before it had an id, and was made after all (_revive).
Revives(r, e, st) ==
  status[r] = "failed" /\ rzpId[r] = 0 /\ e # 0 /\ st # "failed"

\* Mutant of PaidAfter: every report of a failure puts the money back.
PaidBackAgain(r, e, st) ==
  IF Revives(r, e, st) THEN paid - amount[r]
  ELSE IF st = "failed" THEN paid + amount[r] ELSE paid

\* Mutant of PaidAfter: a refund that comes back is not taken off again.
RevivedForFree(r, e, st) ==
  IF status[r] = "requested" /\ st = "failed" THEN paid + amount[r] ELSE paid

\* What the booking holds once refund r is reported as e with status st.
PaidAfter(r, e, st) ==
  IF Revives(r, e, st) THEN paid - amount[r]
  ELSE IF status[r] = "requested" /\ st = "failed" THEN paid + amount[r] ELSE paid

\* apply_refund: a refund moves on from requested, once; any report may bring
\* its Razorpay id.
ApplyRefund(r, e, st) ==
  /\ status' = [status EXCEPT
       ![r] = IF @ = "requested" \/ Revives(r, e, st) THEN st ELSE @]
  /\ rzpId' = [rzpId EXCEPT ![r] = IF @ = 0 THEN e ELSE @]
  /\ paid' = PaidAfter(r, e, st)
  /\ flag' = Needed(status', rzpId', paid', due)
  /\ UNCHANGED <<captured, due, over, amount, made, turned, todo>>

\* The answer to the call, or to the check of its refusal.
Apply(s) ==
  \E a \in heard[s] :
    /\ a.what # "refused"
    /\ ApplyRefund(a.row, a.id, StatusOf(a.as))
    /\ heard' = [heard EXCEPT ![s] = {}]

\* At Razorpay, a pending refund is completed or fails, days later.
Settle(r, e) ==
  /\ e \in DOMAIN made[r] /\ made[r][e] = "pending"
  /\ \E as \in {"processed", "failed"} : made' = [made EXCEPT ![r][e] = as]
  /\ UNCHANGED <<books, turned, todo, heard>>

\* The webhook refund.processed or refund.failed, any number of times; the row
\* is found by the Razorpay id or by our id in the refund's notes.
Event(r, e) ==
  /\ e \in DOMAIN made[r] /\ made[r][e] # "pending"
  /\ ApplyRefund(r, e, made[r][e])
  /\ UNCHANGED heard

-----------------------------------------------------------------------------
Next ==
  \/ \E p \in Payments, x \in Lines \union {0} : Capture(p, x) \/ CaptureSpare(p, x)
  \/ \E p \in Payments : SeatsGone(p)
  \/ \E k \in Dues : Cancel(k) \/ Move(k)
  \/ \E x \in Lines : TakeOff(x)
  \/ SendOwed
  \/ RecordByHand
  \/ \E s \in Senders : Read(s) \/ Check(s) \/ CheckLost(s) \/ Apply(s) \/ Crash(s)
  \/ \E s \in Senders, r \in Rows : Send(s, r) \/ SendLost(s, r)
  \/ \E r \in Rows, e \in 1..MaxMade : Settle(r, e) \/ Event(r, e)

Spec == Init /\ [][Next]_vars

\* The daily job resends what is stuck, and one day gets an answer it lives to
\* apply; Razorpay finishes what it began and repeats its webhooks until they
\* are answered.  The desk and the customer are never fair.
Fairness ==
  /\ \A s \in Senders : WF_vars(Read(s)) /\ SF_vars(Check(s)) /\ SF_vars(Apply(s))
  /\ \A r \in Rows : SF_vars(\E s \in Senders : Send(s, r))
  /\ \A r \in Rows, e \in 1..MaxMade : WF_vars(Settle(r, e)) /\ WF_vars(Event(r, e))

FairSpec == Spec /\ Fairness

-----------------------------------------------------------------------------
(* Properties.                                                              *)

TypeOK ==
  /\ captured \subseteq Payments
  /\ due \in Nat /\ over \in BOOLEAN /\ paid \in Int /\ flag \in BOOLEAN
  /\ status \in [Rows -> Statuses]
  /\ amount \in [Rows -> Nat]
  /\ rzpId \in [Rows -> 0..MaxMade]
  /\ made \in [Rows -> Seq(AtRazorpay)]
  /\ \A r \in Rows : Len(made[r]) <= MaxMade
  /\ turned \subseteq Rows
  /\ todo \in [Senders -> SUBSET Rows]
  /\ heard \in [Senders -> SUBSET Answer]

\* The refunds under key r that have left, or are on their way.
Alive(r) == {e \in DOMAIN made[r] : made[r][e] # "failed"}

CapturedMoney == SumOver(LAMBDA p : Amount[p], captured)

\* Conservation: what the booking holds and what its refunds that have not
\* failed took off it make up what it captured, however often outcomes are
\* reported, lost, or taken back by _revive.
MoneyAdds == paid + SumOver(Given, Payments) = CapturedMoney

\* plan_refund is never refused: the payments hold what the booking holds
\* (refunds.py:284 calls the other case a bug).
PaymentsHoldIt == paid <= SumOver(LAMBDA p : Room(captured, p), Payments)

\* Razorpay keeps its word about key r: it makes one refund under it, and none
\* once it has refused it.
WordKept(r) == Len(made[r]) <= 1 /\ (r \in turned => made[r] = << >>)

\* Where Razorpay keeps its word, a refund we call failed is not on its way and
\* one we call processed has left: the desk plans failed money again, so a
\* wrong "failed" would pay it twice.  What Razorpay does about one key never
\* spoils the row of another.
BooksMatch ==
  \A r \in Rows : WordKept(r) =>
    /\ status[r] \in {"none", "failed"} => Alive(r) = {}
    /\ status[r] = "processed" => ByHand(r) \/ \E e \in Alive(r) : made[r][e] = "processed"

\* With the customer: made at Razorpay and not failed there, or handed back.
Gone(r) == Alive(r) # {} \/ (ByHand(r) /\ status[r] = "processed")

\* What is with the customer is off what the booking holds, so no decision and
\* no button can send it again: only a key Razorpay breaks its word about can.
LeftIsOffTheBooks ==
  paid + SumOver(LAMBDA r : amount[r], {r \in Rows : WordKept(r) /\ Gone(r)})
    <= CapturedMoney

\* While anything is owed or waits for the owner, refund_needed is up, and once
\* it is down everything owed is with Razorpay or was handed back.
FlagTells ==
  /\ paid > due => flag
  /\ \A r \in Rows : status[r] = "requested" /\ (ByHand(r) \/ rzpId[r] = 0) => flag
  /\ ~ flag => \A r \in Rows : Counted(r) /\ ~ ByHand(r) => made[r] # << >>

-----------------------------------------------------------------------------
(* Liveness.                                                                *)

\* No online refund stays requested: it is processed, or failed and back with
\* the desk, though its request died or its answer was lost.
RefundsEnd ==
  \A r \in Rows :
    (status[r] = "requested" /\ ~ ByHand(r)) ~> status[r] \in {"processed", "failed"}

-----------------------------------------------------------------------------
(* The promise about refunds.                                               *)

Phase ==
  [r \in Rows |->
     CASE status[r] = "none" -> "none"
       [] status[r] # "none" /\ ~ WordKept(r) -> "disowned"
       [] status[r] # "none" /\ WordKept(r) /\ Gone(r) -> "gone"
       [] status[r] # "none" /\ WordKept(r) /\ made[r] # << >> /\ ~ Gone(r) -> "bounced"
       [] status[r] = "failed" /\ made[r] = << >> -> "dropped"
       [] OTHER -> "planned"]

Promise == INSTANCE RefundPromise WITH phase <- Phase

\* Every step of the refunds is a step of the promise, or changes nothing it
\* speaks of: each refund leaves at most once, and never after it was given up.
KeepsRefundPromise == Promise!Spec

=============================================================================
