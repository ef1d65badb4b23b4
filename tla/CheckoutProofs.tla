--------------------------- MODULE CheckoutProofs ---------------------------
(***************************************************************************)
(* What holds of every visitor's booking sheet, for any number of orders,  *)
(* forms, reads in flight and calls lost.                                  *)
(***************************************************************************)
EXTENDS Checkout, Sums

Owes == {"held", "ended", "swept"}

\* What is known at the api: everything the sheet speaks of was ordered, and a
\* call has an answer of its kind.
Known(o) == o \in Orders /\ status[o] # "none"

CallRight(c) ==
  /\ c.kind = "create" =>
       /\ c.form \in Forms /\ c.answer \in {"asked", "lost", "made", "full", "refused"}
       /\ c.answer = "made" => Known(c.order)
  /\ c.kind # "create" => Known(c.order)
  /\ c.kind \in {"confirm", "sync"} =>
       c.answer \in {"asked", "lost", "pending", "cancelled", "confirmed", "refunding"}

Ordering(r) == r # None => Known(r.order)

KnownOrders ==
  /\ \A c \in calls : CallRight(c)
  /\ \A w \in windows : Known(w.order)
  /\ \A o \in charged : Known(o)
  /\ Ordering(held) /\ Ordering(lastOrder) /\ Ordering(attempt)
  /\ phase.kind = "unconfirmed" => Known(phase.order)

BaseInv == TypeOK /\ KnownOrders

\* What the sheet says of a booking is what became of it, and of money what
\* Razorpay took.
Outcomes == {"confirmed", "refunding"}

SaidBookings == \A o \in Orders : status[o] \in Outcomes => o \in charged

SaidWindows == \A w \in windows : w.paid => w.order \in charged

SaidCalls ==
  \A c \in calls : /\ c.kind = "confirm" => c.order \in charged
                   /\ c.answer \in Outcomes => c.order \in Orders /\ status[c.order] = c.answer

SaidPhase ==
  /\ phase.kind \in {"confirming", "unconfirmed"} => phase.order \in charged
  /\ phase.kind = "done" /\ phase.result \in Outcomes =>
       phase.order \in Orders /\ status[phase.order] = phase.result

SaidInv == SaidBookings /\ SaidWindows /\ SaidCalls /\ SaidPhase

\* A read asked after the hold knows of the hold while it stands.
OwnInv ==
  /\ added => held # None
  /\ OwnSeatsCountOnce
  /\ held # None /\ status[held.order] = "held" =>
       \A i \in Slots : reads[i].state = "told" /\ reads[i].fresh => held.order \in reads[i].counts

\* While nothing was lost and no window hid, the sheet does one thing at a
\* time: its one call or its one window is of the order of its phase, and only
\* that order may have been paid and not answered for.
PhaseOfCall ==
  [create |-> "starting", load |-> "opening", confirm |-> "confirming", sync |-> "checking"]

OneThing ==
  /\ \A c, d \in calls : c = d
  /\ \A c \in calls : /\ phase.kind = PhaseOfCall[c.kind] /\ c.answer # "lost"
                      /\ c.kind # "create" => phase.order = c.order
                      /\ c.answer = "pending" => c.order \notin charged
  /\ \A v, w \in windows : v = w
  /\ \A w \in windows : w.shown /\ phase.kind = "paying" /\ phase.order = w.order
  /\ phase.kind = "paying" => attempt.order = phase.order
  /\ phase.kind # "unconfirmed"
  /\ \A o \in charged \ told :
       phase.kind \in {"paying", "checking", "confirming"} /\ phase.order = o

\* And the order it is about to have paid has not been paid or answered for.
Fresh ==
  /\ twice = {}
  /\ \A w \in windows : w.paid \/ w.order \notin charged
  /\ \A c \in calls : c.kind = "load" \/ c.answer = "made" => c.order \notin charged \union told
  /\ lastOrder # None => lastOrder.order \notin told

ToldKnown == \A o \in told : Known(o)

SessionInv == ToldKnown /\ (troubles > 0 \/ (OneThing /\ Fresh))

-----------------------------------------------------------------------------
(* Types, in parts.                                                         *)

ApiType ==
  /\ status \in [Orders -> Statuses] /\ left \in [Orders -> 0..2]
  /\ seatsOf \in [Orders -> Nat] /\ charged \subseteq Orders
  /\ others \in Nat /\ Free >= 0

ChoiceType ==
  form \in Forms /\ chosen \in BOOLEAN /\ gone \in BOOLEAN /\ quote \in {"idle", "loading", "ok"}

Placed == [order : Orders, form : Forms]
List == [seats : 0..Seats, fresh : BOOLEAN, counts : SUBSET Orders]
Reading == [state : {"idle", "asked", "told"}, fresh : BOOLEAN,
            seats : 0..Seats, counts : SUBSET Orders]

SeenType ==
  /\ list \in List /\ added \in BOOLEAN
  /\ held = None \/ held \in Placed
  /\ reads \in [Slots -> Reading]

Attempt == [order : Orders, closed : BOOLEAN]
PayType ==
  /\ lastOrder = None \/ lastOrder \in Placed
  /\ phase \in Phase
  /\ attempt = None \/ attempt \in Attempt

Window == [order : Orders, shown : BOOLEAN, paid : BOOLEAN]
LinkType == windows \subseteq Window /\ calls \subseteq Call

PastType == told \subseteq Orders /\ twice \subseteq Orders /\ troubles \in 0..MaxTroubles

LEMMA TypeParts ==
  TypeOK <=> ApiType /\ ChoiceType /\ SeenType /\ PayType /\ LinkType /\ PastType
BY DEF TypeOK, ApiType, ChoiceType, SeenType, PayType, LinkType, PastType, Placed, List, Reading,
       Attempt, Window

LEMMA TypeNext ==
  TypeOK' <=> ApiType' /\ ChoiceType' /\ SeenType' /\ PayType' /\ LinkType' /\ PastType'
BY DEF TypeOK, ApiType, ChoiceType, SeenType, PayType, LinkType, PastType, Placed, List, Reading,
       Attempt, Window, Free, Mine, Counting, MapThenSumSet, MapThenFoldSet

-----------------------------------------------------------------------------
(* Seats.                                                                   *)

Taking == {"held", "confirmed"}

\* The seats each order takes.
Takes(st, so) == [o \in Orders |-> IF st[o] \in Taking THEN so[o] ELSE 0]

LEMMA OrdersFinite == IsFiniteSet(Orders) /\ Seats \in Nat
BY CheckoutAssumption

LEMMA TakesNat ==
  ASSUME NEW st, NEW so \in [Orders -> Nat]
  PROVE  /\ \A o \in Orders : Takes(st, so)[o] \in Nat
         /\ Sum(Takes(st, so), Orders) \in Nat
<1>. DEFINE F == Takes(st, so)
<1>1. \A o \in Orders : F[o] \in Nat
  BY DEF Takes
<1>. HIDE DEF F
<1>2. Sum(F, Orders) \in Nat
  BY <1>1, OrdersFinite, SumNat
<1>. QED
  BY <1>1, <1>2 DEF F

LEMMA TakenIs ==
  ASSUME NEW st, NEW so \in [Orders -> Nat]
  PROVE  Sum(so, {o \in Orders : st[o] \in Taking}) = Sum(Takes(st, so), Orders)
<1>. DEFINE S == {o \in Orders : st[o] \in Taking}
            F == Takes(st, so)
<1>1. /\ S \in SUBSET Orders
      /\ \A o \in S : so[o] \in Int /\ so[o] = F[o]
      /\ \A o \in Orders \ S : F[o] = 0
  BY DEF Takes
<1>. HIDE DEF S, F
<1>2. Sum(so, S) = Sum(F, Orders)
  BY <1>1, OrdersFinite, SumWithin
<1>. QED
  BY <1>2 DEF S, F

LEMMA FreeIs ==
  ASSUME seatsOf \in [Orders -> Nat]
  PROVE  Free = Seats - others - Sum(Takes(status, seatsOf), Orders)
<1>1. Free = Seats - others - Sum(seatsOf, {o \in Orders : status[o] \in Taking})
  BY DEF Free, Mine, Counting, Taking, Sum
<1>. QED
  BY <1>1, TakenIs

LEMMA FreeNext ==
  ASSUME seatsOf' \in [Orders -> Nat]
  PROVE  Free' = Seats - others' - Sum(Takes(status', seatsOf'), Orders)
<1>1. Free' = Seats - others' - Sum(seatsOf', {o \in Orders : status'[o] \in Taking})
  BY DEF Free, Mine, Counting, Taking, Sum, MapThenSumSet, MapThenFoldSet
<1>. QED
  BY <1>1, TakenIs

LEMMA FreeInt ==
  ASSUME ApiType
  PROVE  Free \in 0 .. Seats
<1>1. /\ Sum(Takes(status, seatsOf), Orders) \in Nat /\ others \in Nat /\ Seats \in Nat
      /\ Free = Seats - others - Sum(Takes(status, seatsOf), Orders) /\ Free >= 0
  BY FreeIs, TakesNat, OrdersFinite DEF ApiType
<1>. QED
  BY <1>1

LEMMA FreeStays ==
  ASSUME UNCHANGED <<status, seatsOf, others>>
  PROVE  Free' = Free
BY DEF Free, Mine, Counting, MapThenSumSet, MapThenFoldSet

LEMMA ApiStays ==
  ASSUME ApiType, UNCHANGED server
  PROVE  ApiType'
BY FreeStays DEF ApiType, server

\* What one order's booking may become.
StatusMoves ==
  /\ charged \subseteq charged'
  /\ \A o \in Orders : /\ status[o] # "none" => status'[o] # "none"
                       /\ status'[o] = "held" => status[o] \in {"none", "held"}
                       /\ status[o] \in Outcomes => status'[o] = status[o]
                       /\ status'[o] \in Outcomes => status[o] = status'[o] \/ o \in charged

\* One order's booking moves on, and there are seats for it.
LEMMA OneMoves ==
  ASSUME ApiType, NEW o \in Orders, NEW x \in Statuses, status' = [status EXCEPT ![o] = x],
         left' \in [Orders -> 0..2], UNCHANGED <<seatsOf, charged, others>>,
         x \in Taking => status[o] \in Taking \/ Free >= seatsOf[o]
  PROVE  ApiType'
<1>. DEFINE F == Takes(status, seatsOf)
            G == Takes(status', seatsOf)
<1>1. /\ \A p \in Orders : F[p] \in Int /\ G[p] \in Int
      /\ \A p \in Orders \ {o} : F[p] = G[p]
      /\ F[o] = IF status[o] \in Taking THEN seatsOf[o] ELSE 0
      /\ G[o] = IF x \in Taking THEN seatsOf[o] ELSE 0
      /\ seatsOf[o] \in Nat
  BY DEF ApiType, Takes
<1>2. /\ Free = Seats - others - Sum(F, Orders) /\ Free' = Seats - others - Sum(G, Orders)
      /\ Sum(F, Orders) \in Nat /\ others \in Nat /\ Seats \in Nat /\ Free >= 0
  BY FreeIs, FreeNext, TakesNat, OrdersFinite DEF ApiType
<1>. HIDE DEF F, G
<1>3. Sum(G, Orders) = Sum(F, Orders) - F[o] + G[o]
  BY <1>1, OrdersFinite, SumMoves
<1>4. Free' >= 0
  BY <1>1, <1>2, <1>3
<1>. QED
  BY <1>4 DEF ApiType

LEMMA SettledIs ==
  ASSUME ApiType, NEW o \in Orders
  PROVE  /\ Settled(o) \in Statuses
         /\ status[o] \in Owes \union {"released"} => Settled(o) \in {"confirmed", "refunding"}
         /\ status[o] \notin Owes \union {"released"} => Settled(o) = status[o]
         /\ Settled(o) \in Taking => status[o] \in Taking \/ Free >= seatsOf[o]
BY DEF ApiType, Settled, Statuses, Owes, Taking

\* Late or early, a payment settles within the seats.
LEMMA SettleMoves ==
  ASSUME ApiType, NEW o \in Orders, o \in charged, status' = [status EXCEPT ![o] = Settled(o)],
         UNCHANGED <<left, seatsOf, charged, others>>
  PROVE  ApiType' /\ StatusMoves
<1>1. ApiType'
  BY SettledIs, OneMoves DEF ApiType
<1>2. /\ status \in [Orders -> Statuses] /\ status'[o] = Settled(o)
      /\ \A p \in Orders \ {o} : status'[p] = status[p]
  BY DEF ApiType
<1>3. StatusMoves
  BY <1>2, SettledIs DEF StatusMoves, Owes, Outcomes
<1>. QED
  BY <1>1, <1>3

\* A new hold takes its seats from the free ones and the visitor's own.
LEMMA PlacedMoves ==
  ASSUME ApiType, NEW o \in Orders, status[o] = "none", NEW n \in Nat,
         NEW own, own = {p \in Orders : status[p] = "held"}, Free + Mine(own) >= n,
         status' = [p \in Orders |-> IF p = o THEN "held" ELSE IF p \in own THEN "ended" ELSE status[p]],
         left' = [left EXCEPT ![o] = 2], seatsOf' = [seatsOf EXCEPT ![o] = n],
         UNCHANGED <<charged, others>>
  PROVE  ApiType' /\ StatusMoves
<1>. DEFINE F == Takes(status, seatsOf)
            G == Takes(status', seatsOf')
            H == [p \in Orders |-> IF status[p] = "held" THEN seatsOf[p] ELSE 0]
            K == [p \in Orders |-> IF status[p] = "confirmed" THEN seatsOf[p] ELSE 0]
<1>1. /\ status \in [Orders -> Statuses] /\ status' \in [Orders -> Statuses]
      /\ seatsOf \in [Orders -> Nat] /\ seatsOf' \in [Orders -> Nat]
      /\ left' \in [Orders -> 0..2]
  BY DEF ApiType, Statuses
<1>2. /\ \A p \in Orders : /\ K[p] \in Int /\ H[p] \in Int /\ F[p] \in Int /\ G[p] \in Int
                          /\ F[p] = K[p] + H[p]
      /\ \A p \in Orders \ {o} : K[p] = G[p]
      /\ K[o] = 0 /\ G[o] = n
  BY <1>1 DEF Takes, Taking
<1>3. Mine(own) = Sum(H, Orders)
  <2>1. /\ own \in SUBSET Orders /\ \A p \in own : seatsOf[p] \in Int /\ seatsOf[p] = H[p]
        /\ \A p \in Orders \ own : H[p] = 0
    BY <1>1
  <2>. HIDE DEF H
  <2>2. Sum(seatsOf, own) = Sum(H, Orders)
    BY <2>1, OrdersFinite, SumWithin
  <2>. QED
    BY <2>2 DEF Mine, Sum
<1>4. /\ Free = Seats - others - Sum(F, Orders) /\ Free' = Seats - others - Sum(G, Orders)
      /\ others \in Nat /\ Seats \in Nat
  BY <1>1, FreeIs, FreeNext, OrdersFinite DEF ApiType
<1>. HIDE DEF F, G, H, K
<1>5. Sum(F, Orders) = Sum(K, Orders) + Sum(H, Orders)
  BY <1>2, OrdersFinite, SumPairs
<1>6. Sum(G, Orders) = Sum(K, Orders) - K[o] + G[o]
  BY <1>2, OrdersFinite, SumMoves
<1>7. Sum(K, Orders) \in Int /\ Sum(H, Orders) \in Int
  BY <1>2, OrdersFinite, SumInt
<1>8. Free' >= 0
  BY <1>2, <1>3, <1>4, <1>5, <1>6, <1>7
<1>9. StatusMoves
  BY <1>1 DEF StatusMoves, Outcomes
<1>. QED
  BY <1>1, <1>8, <1>9 DEF ApiType

-----------------------------------------------------------------------------
(* The types of a step, one part at a time.                                 *)

\* The sheet's effects keep what is chosen in range.
LEMMA EffectsTypes ==
  ASSUME ChoiceType, form' \in Forms, NEW p \in BOOLEAN, NEW g \in BOOLEAN, Effects(p, g)
  PROVE  ChoiceType'
BY DEF ChoiceType, Effects

LEMMA IdleTypes ==
  /\ Idle \in Reading /\ [Idle EXCEPT !.state = "asked"] \in Reading
  /\ \A b \in BOOLEAN : [Idle EXCEPT !.state = "asked", !.fresh = b] \in Reading
<1>1. 0 \in 0..Seats
  BY OrdersFinite
<1>2. Idle \in Reading
  BY <1>1 DEF Idle, Reading
<1>. QED
  BY <1>2 DEF Reading

LEMMA AgedTypes ==
  ASSUME SeenType
  PROVE  Aged \in [Slots -> Reading]
BY DEF SeenType, Aged, Reading

LEMMA AsksTypes ==
  ASSUME NEW was \in [Slots -> Reading], NEW h, Asks(was, h)
  PROVE  reads' \in [Slots -> Reading]
<1>1. [Idle EXCEPT !.state = "asked", !.fresh = h # None] \in Reading
  BY IdleTypes
<1>. QED
  BY <1>1 DEF Asks

LEMMA HoldTypes ==
  ASSUME SeenType, NEW h, Hold(h), h = None \/ h \in Placed, reads' \in [Slots -> Reading]
  PROVE  SeenType'
BY DEF SeenType, Hold, List

\* Calls and phases of a kind.
LEMMA AskIsCall ==
  ASSUME NEW kind \in {"create", "load", "confirm", "sync"}, NEW o \in Orders \union {None},
         NEW f \in Forms \union {None}
  PROVE  Ask(kind, o, f) \in Call
BY DEF Ask, Call, Answers

LEMMA AtIsPhase ==
  ASSUME NEW kind \in {"choose", "dismissed"} \union Busy \union Finished,
         NEW o \in Orders \union {None}
  PROVE  At(kind, o) \in Phase
BY DEF At, Phase

\* The outcome of an order is shown.
LEMMA DoneTypes ==
  ASSUME TypeOK, NEW c \in calls, c.order \in Orders, Done(c)
  PROVE  /\ ChoiceType' /\ SeenType' /\ told' \subseteq Orders
         /\ phase' \in Phase /\ lastOrder' = None
<1>1. c \in Call /\ told \subseteq Orders /\ ChoiceType /\ SeenType
  BY TypeParts DEF LinkType, PastType
<1>2. phase' \in Phase
  BY <1>1 DEF Done, Phase, Call, Finished
<1>3. ChoiceType'
  BY <1>1, EffectsTypes DEF Done, ChoiceType
<1>4. SeenType'
  BY <1>1, AgedTypes, HoldTypes DEF Done
<1>. QED
  BY <1>1, <1>2, <1>3, <1>4 DEF Done

-----------------------------------------------------------------------------
(* The api's steps.                                                         *)

LEMMA ServeOutcomeMoves ==
  ASSUME BaseInv, NEW c \in calls, ServeOutcome(c)
  PROVE  /\ ApiType' /\ StatusMoves
         /\ \E a \in {"pending", "cancelled", "confirmed", "refunding"} :
              /\ Answered(c, a)
              /\ a \in Outcomes => c.order \in Orders /\ status'[c.order] = a
              /\ a = "pending" => c.order \notin charged
<1>. DEFINE o == c.order
            asks == status[o] \in Owes
            now == IF o \in charged /\ (c.kind = "confirm" \/ asks) THEN Settled(o) ELSE status[o]
<1>1. /\ c.kind \in {"confirm", "sync"} /\ status' = [status EXCEPT ![o] = now]
      /\ Answered(c, Said(now)) /\ UNCHANGED <<left, seatsOf, charged, others>>
  BY DEF ServeOutcome, Finds, Owes
<1>2. /\ ApiType /\ o \in Orders /\ status[o] # "none" /\ status[o] \in Statuses
      /\ status'[o] = now
  BY <1>1, TypeParts DEF BaseInv, KnownOrders, CallRight, Known, ApiType
<1>3. now \in Statuses \ {"none"}
  BY <1>2, SettledIs DEF Owes, Statuses
<1>4. /\ Said(now) \in {"pending", "cancelled", "confirmed", "refunding"}
      /\ Said(now) \in Outcomes => now = Said(now)
      /\ Said(now) = "pending" => now \in {"held", "ended"}
  BY <1>3 DEF Said, Statuses, Outcomes
<1>5. Said(now) = "pending" => o \notin charged
  BY <1>1, <1>2, <1>4, SettledIs DEF Owes
<1>6. ApiType' /\ StatusMoves
  <2>1. CASE o \in charged /\ (c.kind = "confirm" \/ asks)
    BY <1>1, <1>2, <2>1, SettleMoves
  <2>2. CASE ~ (o \in charged /\ (c.kind = "confirm" \/ asks))
    <3>1. status' = status
      BY <1>1, <1>2, <2>2 DEF ApiType
    <3>. QED
      BY <1>1, <1>2, <3>1, FreeStays DEF ApiType, StatusMoves
  <2>. QED
    BY <2>1, <2>2
<1>. QED
  BY <1>1, <1>2, <1>4, <1>5, <1>6

LEMMA ServeCreateMoves ==
  ASSUME BaseInv, NEW c \in calls, ServeCreate(c)
  PROVE  /\ ApiType' /\ StatusMoves
         /\ \/ \E o \in Orders :
                 /\ status'[o] # "none"
                 /\ calls' = (calls \ {c}) \union {[c EXCEPT !.answer = "made", !.order = o]}
            \/ Answered(c, "full") \/ Answered(c, "refused")
<1>. DEFINE own == {p \in Orders : status[p] = "held"}
<1>1. /\ ApiType /\ c.kind = "create" /\ Party[c.form] \in Nat /\ c \in Call
      /\ UNCHANGED <<charged, others>>
  BY TypeParts, CheckoutAssumption DEF BaseInv, KnownOrders, CallRight, ServeCreate, LinkType
<1>2. ASSUME NEW o \in Orders, status[o] = "none", Free + Mine(own) >= Party[c.form],
             status' = [p \in Orders |-> IF p = o THEN "held"
                                         ELSE IF p \in own THEN "ended" ELSE status[p]],
             left' = [left EXCEPT ![o] = 2], seatsOf' = [seatsOf EXCEPT ![o] = Party[c.form]]
      PROVE  ApiType' /\ StatusMoves /\ status'[o] # "none"
  <2>. HIDE DEF own
  <2>1. own = {p \in Orders : status[p] = "held"}
    BY DEF own
  <2>2. ApiType' /\ StatusMoves
    BY <1>1, <1>2, <2>1, PlacedMoves
  <2>. QED
    BY <1>2, <2>2
<1>3. ASSUME UNCHANGED <<status, left, seatsOf>>
      PROVE  ApiType' /\ StatusMoves
  BY <1>1, <1>3, FreeStays DEF ApiType, StatusMoves
<1>. QED
  BY <1>2, <1>3 DEF ServeCreate

LEMMA ApiStep ==
  ASSUME BaseInv, [Next]_vars
  PROVE  ApiType' /\ StatusMoves
<1>0. ApiType
  BY TypeParts DEF BaseInv
<1>1. ASSUME NEW c \in calls, ServeCreate(c)
      PROVE  ApiType' /\ StatusMoves
  BY <1>1, ServeCreateMoves
<1>2. ASSUME NEW c \in calls, ServeOutcome(c)
      PROVE  ApiType' /\ StatusMoves
  BY <1>2, ServeOutcomeMoves
<1>3. ASSUME NEW o \in Orders, Webhook(o)
      PROVE  ApiType' /\ StatusMoves
  BY <1>0, <1>3, SettleMoves DEF Webhook
<1>4. ASSUME NEW o \in Orders, Tick(o)
      PROVE  ApiType' /\ StatusMoves
  <2>. DEFINE x == IF left[o] = 1 /\ status[o] = "held" THEN "ended" ELSE status[o]
  <2>1. /\ x \in Statuses /\ status' = [status EXCEPT ![o] = x]
        /\ left' \in [Orders -> 0..2] /\ UNCHANGED <<seatsOf, charged, others>>
        /\ x \in Taking => status[o] \in Taking
    BY <1>0, <1>4 DEF Tick, ApiType, Statuses, Taking
  <2>2. ApiType'
    <3>. HIDE DEF x
    <3>. QED
      BY <1>0, <2>1, OneMoves
  <2>3. StatusMoves
    BY <1>0, <2>1 DEF StatusMoves, ApiType, Outcomes
  <2>. QED
    BY <2>2, <2>3
<1>5. ASSUME NEW o \in Orders, Cancel(o)
      PROVE  ApiType' /\ StatusMoves
  <2>1. PICK x \in {"swept", "released"} : status' = [status EXCEPT ![o] = x]
    BY <1>5 DEF Cancel
  <2>2. x \in Statuses /\ x \notin Taking /\ UNCHANGED <<left, seatsOf, charged, others>>
        /\ status[o] \in {"held", "ended"}
    BY <1>5 DEF Cancel, Statuses, Taking
  <2>3. ApiType'
    BY <1>0, <2>1, <2>2, OneMoves DEF ApiType
  <2>4. StatusMoves
    BY <1>0, <2>1, <2>2 DEF StatusMoves, ApiType, Outcomes
  <2>. QED
    BY <2>3, <2>4
<1>6. ASSUME NEW n \in 0..Seats, Others(n)
      PROVE  ApiType' /\ StatusMoves
  <2>1. /\ n \in 0 .. (others + Free) /\ others' = n
        /\ UNCHANGED <<status, left, seatsOf, charged>>
    BY <1>6 DEF Others
  <2>2. /\ Free = Seats - others - Sum(Takes(status, seatsOf), Orders)
        /\ Free' = Seats - n - Sum(Takes(status, seatsOf), Orders)
        /\ Sum(Takes(status, seatsOf), Orders) \in Nat /\ Seats \in Nat /\ others \in Nat
    BY <1>0, <2>1, FreeIs, FreeNext, TakesNat, OrdersFinite DEF ApiType
  <2>3. Free' >= 0 /\ others' \in Nat
    BY <2>1, <2>2
  <2>. QED
    BY <1>0, <2>1, <2>3 DEF ApiType, StatusMoves
<1>7. ASSUME NEW w \in windows, PayIn(w)
      PROVE  ApiType' /\ StatusMoves
  <2>1. /\ charged' = charged \union {w.order} /\ UNCHANGED <<status, left, seatsOf, others>>
        /\ w.order \in Orders
    BY <1>7, TypeParts DEF PayIn, BaseInv, LinkType, Window
  <2>. QED
    BY <1>0, <2>1, FreeStays DEF ApiType, StatusMoves
<1>8. ASSUME UNCHANGED server
      PROVE  ApiType' /\ StatusMoves
  BY <1>0, <1>8, ApiStays DEF StatusMoves, server
<1>9. CASE \/ \E o \in Orders : WindowEnds(o)
           \/ Refresh
           \/ \E i \in Slots : ServeRead(i) \/ Arrives(i) \/ ReadFails(i)
           \/ \E f \in Forms : ChooseForm(f)
           \/ ChooseDate \/ Quoted \/ Pay \/ Watchdog \/ RetryConfirm \/ StartOver
           \/ Ordered \/ Loaded
           \/ \E c \in calls : Confirmed(c) \/ Synced(c) \/ Lose(c)
           \/ \E w \in windows : Hides(w)
           \/ UNCHANGED vars
  <2>1. UNCHANGED server
    BY <1>9
    DEF WindowEnds, Succeeds, Dismissed, Vanishes, Refresh, ServeRead, Arrives, ReadFails,
        ChooseForm, ChooseDate, Quoted, Pay, Watchdog, RetryConfirm, StartOver, Ordered,
        OrderMade, OrderFull, OrderRefused, Loaded, Opens, OpenFails, Confirmed, Synced,
        Lose, Hides, vars
  <2>. QED
    BY <1>8, <2>1
<1>. QED
  BY <1>1, <1>2, <1>3, <1>4, <1>5, <1>6, <1>7, <1>9 DEF Next, Serve

-----------------------------------------------------------------------------
(* What the sheet shows.                                                    *)

LEMMA ShowsStep ==
  ASSUME BaseInv, [Next]_vars
  PROVE  ChoiceType' /\ SeenType'
<1>0. TypeOK /\ ApiType /\ ChoiceType /\ SeenType /\ LinkType /\ calls \subseteq Call
  BY TypeParts DEF BaseInv, LinkType
<1>1. ASSUME UNCHANGED <<choice, seen>>
      PROVE  ChoiceType' /\ SeenType'
  BY <1>0, <1>1 DEF choice, seen, ChoiceType, SeenType
<1>2. CASE Refresh
  <2>1. reads' \in [Slots -> Reading] /\ UNCHANGED <<choice, list, added, held>>
    BY <1>0, <1>2, AsksTypes DEF Refresh, SeenType
  <2>. QED
    BY <1>0, <2>1 DEF choice, ChoiceType, SeenType
<1>3. ASSUME NEW i \in Slots, ServeRead(i)
      PROVE  ChoiceType' /\ SeenType'
  <2>1. /\ reads' = [reads EXCEPT ![i] = [reads[i] EXCEPT !.state = "told", !.seats = Free,
                       !.counts = IF reads[i].fresh THEN {o \in Orders : status[o] = "held"} ELSE {}]]
        /\ UNCHANGED <<choice, list, added, held>>
    BY <1>0, <1>3 DEF ServeRead, SeenType
  <2>2. Free \in 0..Seats
    BY <1>0, FreeInt
  <2>3. reads' \in [Slots -> Reading]
    BY <1>0, <2>1, <2>2 DEF SeenType, Reading
  <2>. QED
    BY <1>0, <2>1, <2>3 DEF choice, ChoiceType, SeenType
<1>4. ASSUME NEW i \in Slots, Arrives(i)
      PROVE  ChoiceType' /\ SeenType'
  <2>1. ChoiceType'
    BY <1>0, <1>4, EffectsTypes DEF Arrives, ChoiceType
  <2>2. SeenType'
    BY <1>0, <1>4, IdleTypes DEF Arrives, SeenType, List, Reading, AddsBack
  <2>. QED
    BY <2>1, <2>2
<1>5. ASSUME NEW i \in Slots, ReadFails(i)
      PROVE  ChoiceType' /\ SeenType'
  BY <1>0, <1>5, IdleTypes DEF ReadFails, SeenType, choice, ChoiceType
<1>6. ASSUME NEW f \in Forms, ChooseForm(f)
      PROVE  ChoiceType' /\ SeenType'
  <2>1. ChoiceType'
    BY <1>0, <1>6, EffectsTypes DEF ChooseForm, ChoiceType
  <2>. QED
    BY <1>0, <1>6, <2>1 DEF ChooseForm, seen, SeenType
<1>7. CASE ChooseDate
  <2>1. ChoiceType'
    BY <1>0, <1>7, EffectsTypes DEF ChooseDate, ChoiceType
  <2>. QED
    BY <1>0, <1>7, <2>1 DEF ChooseDate, seen, SeenType
<1>8. CASE Quoted
  <2>1. reads' = reads \/ Asks(reads, held)
    BY <1>8 DEF Quoted
  <2>2. reads' \in [Slots -> Reading]
    BY <1>0, <2>1, AsksTypes DEF SeenType
  <2>. QED
    BY <1>0, <1>8, <2>2 DEF Quoted, SeenType, ChoiceType
<1>9. CASE Pay
  BY <1>0, <1>9 DEF Pay, seen, SeenType, ChoiceType
<1>10. ASSUME NEW c \in calls, OrderMade(c)
       PROVE  ChoiceType' /\ SeenType'
  <2>1. c.order \in Orders /\ c.form \in Forms
    BY <1>10 DEF OrderMade, BaseInv, KnownOrders, CallRight, Known
  <2>2. [order |-> c.order, form |-> c.form] \in Placed
    BY <2>1 DEF Placed
  <2>3. SeenType'
    BY <1>0, <1>10, <2>2, AgedTypes, HoldTypes DEF OrderMade
  <2>4. ChoiceType'
    BY <1>0, <1>10, EffectsTypes DEF OrderMade, ChoiceType
  <2>. QED
    BY <2>3, <2>4
<1>11. ASSUME NEW c \in calls, OrderFull(c)
       PROVE  ChoiceType' /\ SeenType'
  <2>1. reads' \in [Slots -> Reading]
    BY <1>0, <1>11, AgedTypes, AsksTypes DEF OrderFull
  <2>2. SeenType'
    BY <1>0, <1>11, <2>1, HoldTypes DEF OrderFull
  <2>. QED
    BY <1>0, <1>11, <2>2 DEF OrderFull, ChoiceType
<1>12. ASSUME NEW c \in calls, Done(c), c.order \in Orders
       PROVE  ChoiceType' /\ SeenType'
  BY <1>0, <1>12, DoneTypes
<1>13. ASSUME NEW c \in calls, Confirmed(c) \/ Synced(c)
       PROVE  ChoiceType' /\ SeenType'
  <2>1. c.order \in Orders /\ (Done(c) \/ UNCHANGED <<choice, seen>>)
    BY <1>13 DEF Confirmed, Synced, BaseInv, KnownOrders, CallRight, Known
  <2>. QED
    BY <1>1, <1>12, <2>1
<1>14. CASE StartOver
  <2>1. reads' \in [Slots -> Reading]
    BY <1>0, <1>14, AgedTypes, AsksTypes DEF StartOver
  <2>2. SeenType'
    BY <1>0, <1>14, <2>1, HoldTypes DEF StartOver
  <2>3. ChoiceType'
    BY <1>0, <1>14, EffectsTypes DEF StartOver, ChoiceType
  <2>. QED
    BY <2>2, <2>3
<1>15. CASE \/ \E o \in Orders : Webhook(o) \/ Tick(o) \/ Cancel(o) \/ WindowEnds(o)
            \/ \E n \in 0..Seats : Others(n)
            \/ Watchdog \/ RetryConfirm \/ Loaded
            \/ Serve({"create", "confirm", "sync"})
            \/ \E c \in calls : OrderRefused(c) \/ Lose(c)
            \/ \E w \in windows : PayIn(w) \/ Hides(w)
            \/ UNCHANGED vars
  <2>1. UNCHANGED <<choice, seen>>
    BY <1>15
    DEF Webhook, Tick, Cancel, WindowEnds, Succeeds, Dismissed, Vanishes, Others, Watchdog,
        RetryConfirm, Loaded, Opens, OpenFails, Serve, ServeCreate, ServeOutcome, OrderRefused,
        Lose, PayIn, Hides, vars
  <2>. QED
    BY <1>1, <2>1
<1>. QED
  BY <1>2, <1>3, <1>4, <1>5, <1>6, <1>7, <1>8, <1>9, <1>10, <1>11, <1>13, <1>14, <1>15
  DEF Next, Ordered

-----------------------------------------------------------------------------
(* What is known stays known: the rest of the types, and the orders.        *)

LEMMA Stays ==
  ASSUME BaseInv, StatusMoves
  PROVE  /\ \A o : Known(o) => Known(o)'
         /\ \A c \in calls : c \in Call /\ CallRight(c)'
         /\ \A w \in windows : w \in Window /\ Known(w.order)'
         /\ \A o \in charged : Known(o)'
         /\ \A r \in {held, lastOrder, attempt} : r # None => Known(r.order)'
         /\ \A o : phase.kind = "unconfirmed" /\ o = phase.order => Known(o)'
<1>1. \A o : Known(o) => Known(o)'
  BY DEF StatusMoves, Known
<1>2. windows \subseteq Window /\ calls \subseteq Call
  BY TypeParts DEF BaseInv, LinkType
<1>3. \A c \in calls : CallRight(c)'
  BY <1>1 DEF BaseInv, KnownOrders, CallRight
<1>. QED
  BY <1>1, <1>2, <1>3 DEF BaseInv, KnownOrders, Ordering

LEMMA ApiCalls ==
  ASSUME BaseInv, StatusMoves, NEW c \in calls, ServeCreate(c) \/ ServeOutcome(c)
  PROVE  LinkType' /\ KnownOrders'
<1>1. PICK e \in Call : calls' = (calls \ {c}) \union {e} /\ CallRight(e)'
  <2>1. c \in Call /\ CallRight(c)'
    BY Stays
  <2>2. CASE ServeOutcome(c)
    <3>1. PICK a \in {"pending", "cancelled", "confirmed", "refunding"} : Answered(c, a)
      BY <2>2, ServeOutcomeMoves
    <3>2. c.kind \in {"confirm", "sync"}
      BY <2>2 DEF ServeOutcome
    <3>3. [c EXCEPT !.answer = a] \in Call /\ CallRight([c EXCEPT !.answer = a])'
      BY <2>1, <3>2 DEF Call, CallRight, Answers
    <3>. QED
      BY <3>1, <3>3 DEF Answered
  <2>3. CASE ServeCreate(c)
    <3>1. c.kind = "create"
      BY <2>3 DEF ServeCreate
    <3>2. CASE Answered(c, "full") \/ Answered(c, "refused")
      <4>1. PICK a \in {"full", "refused"} : Answered(c, a)
        BY <3>2
      <4>2. [c EXCEPT !.answer = a] \in Call /\ CallRight([c EXCEPT !.answer = a])'
        BY <2>1, <3>1 DEF Call, CallRight, Answers
      <4>. QED
        BY <4>1, <4>2 DEF Answered
    <3>3. ASSUME NEW o \in Orders, status'[o] # "none",
                 calls' = (calls \ {c}) \union {[c EXCEPT !.answer = "made", !.order = o]}
          PROVE  \E e \in Call : calls' = (calls \ {c}) \union {e} /\ CallRight(e)'
      <4>1. /\ [c EXCEPT !.answer = "made", !.order = o] \in Call
            /\ CallRight([c EXCEPT !.answer = "made", !.order = o])'
        BY <2>1, <3>1, <3>3 DEF Call, CallRight, Answers, Known
      <4>. QED
        BY <3>3, <4>1
    <3>. QED
      BY <2>3, <3>2, <3>3, ServeCreateMoves
  <2>. QED
    BY <2>2, <2>3
<1>2. UNCHANGED <<charged, held, lastOrder, attempt, phase, windows>>
  BY DEF ServeCreate, ServeOutcome, seen, pay
<1>3. calls' \subseteq Call /\ \A x \in calls' : CallRight(x)'
  BY <1>1, Stays
<1>. QED
  BY <1>2, <1>3, Stays DEF LinkType, KnownOrders, Ordering, BaseInv

LEMMA AskRight ==
  ASSUME NEW kind \in {"load", "confirm", "sync"}, NEW o, Known(o)'
  PROVE  Ask(kind, o, None) \in Call /\ CallRight(Ask(kind, o, None))'
<1>1. o \in Orders
  BY DEF Known
<1>2. Ask(kind, o, None) \in Call
  BY <1>1, AskIsCall
<1>. QED
  BY <1>2 DEF Ask, CallRight

Rest == PayType /\ LinkType /\ PastType /\ KnownOrders

LEMMA RestStep ==
  ASSUME BaseInv, [Next]_vars
  PROVE  Rest'
<1>. USE DEF Ordering
<1>0. /\ TypeOK /\ PayType /\ LinkType /\ PastType /\ SeenType /\ KnownOrders /\ StatusMoves
      /\ windows \subseteq Window /\ calls \subseteq Call
      /\ told \subseteq Orders /\ twice \subseteq Orders
      /\ troubles \in 0..MaxTroubles /\ MaxTroubles \in Nat
  BY TypeParts, ApiStep, CheckoutAssumption DEF BaseInv, LinkType, PastType
<1>1. /\ \A o : Known(o) => o \in Orders /\ Known(o)'
      /\ \A c \in calls : c \in Call /\ CallRight(c)'
      /\ \A w \in windows : w \in Window /\ Known(w.order)'
      /\ \A o \in charged : Known(o)'
      /\ \A r \in {held, lastOrder, attempt} : r # None => Known(r.order)'
      /\ \A o : phase.kind = "unconfirmed" /\ o = phase.order => Known(o)'
  BY <1>0, Stays DEF Known
<1>2. ASSUME UNCHANGED <<charged, held, pay, windows, calls, history>>
      PROVE  Rest'
  BY <1>0, <1>1, <1>2 DEF Rest, PayType, LinkType, PastType, KnownOrders, pay, history
<1>3. ASSUME NEW c \in calls, ServeCreate(c) \/ ServeOutcome(c)
      PROVE  Rest'
  <2>1. UNCHANGED <<pay, history>>
    BY <1>3 DEF ServeCreate, ServeOutcome
  <2>. QED
    BY <1>0, <1>3, <2>1, ApiCalls DEF Rest, PayType, PastType, pay, history
<1>4. CASE Pay
  <2>1. UNCHANGED <<charged, held, lastOrder, attempt, windows, history>>
    BY <1>4 DEF Pay, server, seen
  <2>2. CASE Reuses
    <3>1. PICK o : o = lastOrder.order /\ Known(o)' /\ o \in Orders
      BY <1>0, <1>1, <2>2 DEF Reuses, Known, KnownOrders
    <3>2. phase' = At("opening", o) /\ calls' = calls \union {Ask("load", o, None)}
      BY <1>4, <2>2, <3>1 DEF Pay
    <3>3. Ask("load", o, None) \in Call /\ CallRight(Ask("load", o, None))'
      BY <3>1, AskRight
    <3>4. phase' \in Phase /\ phase'.kind = "opening"
      BY <3>1, <3>2, AtIsPhase DEF At, Busy
    <3>. QED
      BY <1>0, <1>1, <2>1, <3>2, <3>3, <3>4
      DEF Rest, PayType, LinkType, PastType, KnownOrders, history
  <2>3. CASE ~ Reuses
    <3>1. PICK f \in Forms : /\ phase' = At("starting", None)
                            /\ calls' = calls \union {Ask("create", None, f)}
      BY <1>0, <1>4, <2>3 DEF Pay, TypeOK
    <3>. DEFINE a == Ask("create", None, f)
    <3>2. a \in Call /\ CallRight(a)'
      BY <1>0, AskIsCall DEF Ask, CallRight
    <3>3. phase' \in Phase /\ phase'.kind = "starting"
      BY <3>1, AtIsPhase DEF At, Busy
    <3>. QED
      BY <1>0, <1>1, <2>1, <3>1, <3>2, <3>3
      DEF Rest, PayType, LinkType, PastType, KnownOrders, history
  <2>. QED
    BY <2>2, <2>3
<1>5. ASSUME NEW c \in calls, OrderMade(c)
      PROVE  Rest'
  <2>. DEFINE o == c.order
  <2>1. Known(o)' /\ o \in Orders /\ c.form \in Forms
    BY <1>1, <1>5 DEF OrderMade, CallRight, Known
  <2>2. /\ phase' = At("opening", o) /\ calls' = (calls \ {c}) \union {Ask("load", o, None)}
        /\ lastOrder' = [order |-> o, form |-> c.form] /\ held' = [order |-> o, form |-> c.form]
        /\ UNCHANGED <<charged, attempt, windows, history>>
    BY <1>5 DEF OrderMade, server, Hold
  <2>3. Ask("load", o, None) \in Call /\ CallRight(Ask("load", o, None))'
    BY <2>1, AskRight
  <2>4. phase' \in Phase /\ phase'.kind = "opening" /\ lastOrder' \in Placed
    BY <2>1, <2>2, AtIsPhase DEF At, Busy, Placed
  <2>5. Ordering(held)' /\ Ordering(lastOrder)'
    BY <2>1, <2>2 DEF Known
  <2>. QED
    BY <1>0, <1>1, <2>2, <2>3, <2>4, <2>5
    DEF Rest, PayType, LinkType, PastType, KnownOrders, history
<1>6. ASSUME NEW c \in calls, OrderFull(c) \/ OrderRefused(c)
      PROVE  Rest'
  <2>1. /\ phase' = At("choose", None) /\ calls' = calls \ {c}
        /\ held' \in {held, None} /\ lastOrder' \in {lastOrder, None}
        /\ UNCHANGED <<charged, attempt, windows, history>>
    BY <1>6 DEF OrderFull, OrderRefused, server, seen, Hold
  <2>2. phase' \in Phase /\ phase'.kind = "choose"
    BY <2>1, AtIsPhase DEF At
  <2>. QED
    BY <1>0, <1>1, <2>1, <2>2 DEF Rest, PayType, LinkType, PastType, KnownOrders, history
<1>7. ASSUME NEW c \in calls, Opens(c)
      PROVE  Rest'
  <2>. DEFINE o == c.order
            w == [order |-> o, shown |-> TRUE, paid |-> FALSE]
  <2>1. Known(o)' /\ o \in Orders
    BY <1>1, <1>7 DEF Opens, CallRight, Known
  <2>2. /\ attempt' = [order |-> o, closed |-> FALSE] /\ windows' = windows \union {w}
        /\ phase' = phase \/ phase' = At("paying", o)
        /\ calls' = calls \ {c} /\ UNCHANGED <<charged, held, lastOrder, history>>
    BY <1>7 DEF Opens, server, seen
  <2>3. w \in Window /\ w.order = o /\ attempt' \in Attempt /\ Ordering(attempt)'
    BY <2>1, <2>2 DEF Window, Attempt
  <2>5. windows' \subseteq Window /\ \A v \in windows' : Known(v.order)'
    <3>. HIDE DEF w
    <3>1. \A v \in windows : Known(v.order)'
      BY <1>1
    <3>2. windows' = windows \union {w} /\ w.order = o
      BY <2>2, <2>3
    <3>. QED
      BY <1>0, <2>1, <2>3, <3>1, <3>2
  <2>4. /\ phase' \in Phase
        /\ phase' = phase \/ phase'.kind # "unconfirmed"
    BY <1>0, <2>1, <2>2, AtIsPhase DEF At, Busy, PayType
  <2>. QED
    BY <1>0, <1>1, <2>2, <2>3, <2>4, <2>5
    DEF Rest, PayType, LinkType, PastType, KnownOrders, history
<1>8. ASSUME NEW c \in calls, OpenFails(c)
      PROVE  Rest'
  <2>1. c.order \in Orders
    BY <1>1, <1>8 DEF OpenFails, CallRight, Known
  <2>2. /\ phase' = At("dismissed", c.order) /\ calls' = calls \ {c}
        /\ UNCHANGED <<charged, held, lastOrder, attempt, windows, history>>
    BY <1>8 DEF OpenFails, server, seen
  <2>3. phase' \in Phase /\ phase'.kind = "dismissed"
    BY <2>1, <2>2, AtIsPhase DEF At
  <2>. QED
    BY <1>0, <1>1, <2>2, <2>3 DEF Rest, PayType, LinkType, PastType, KnownOrders, history
<1>9. ASSUME NEW w \in windows, PayIn(w)
      PROVE  Rest'
  <2>1. /\ charged' = charged \union {w.order} /\ w.order \in Orders
        /\ windows' = (windows \ {w}) \union {[w EXCEPT !.paid = TRUE]}
        /\ twice' \subseteq Orders /\ UNCHANGED <<held, pay, calls, told, troubles>>
    BY <1>0, <1>9 DEF PayIn, seen, Window
  <2>2. [w EXCEPT !.paid = TRUE] \in Window /\ [w EXCEPT !.paid = TRUE].order = w.order
    BY <1>0 DEF Window
  <2>. QED
    BY <1>0, <1>1, <2>1, <2>2 DEF Rest, PayType, LinkType, PastType, KnownOrders, pay
<1>10. ASSUME NEW w \in windows, Hides(w)
       PROVE  Rest'
  <2>1. /\ windows' = (windows \ {w}) \union {[w EXCEPT !.shown = FALSE]}
        /\ troubles' = troubles + 1 /\ troubles < MaxTroubles
        /\ UNCHANGED <<charged, held, pay, calls, told, twice>>
    BY <1>0, <1>10 DEF Hides, seen, server
  <2>2. [w EXCEPT !.shown = FALSE] \in Window /\ [w EXCEPT !.shown = FALSE].order = w.order
    BY <1>0 DEF Window
  <2>3. troubles' \in 0..MaxTroubles
    BY <1>0, <2>1
  <2>. QED
    BY <1>0, <1>1, <2>1, <2>2, <2>3 DEF Rest, PayType, LinkType, PastType, KnownOrders, pay
<1>11. ASSUME attempt' = Close \/ UNCHANGED attempt
       PROVE  /\ attempt' = None \/ attempt' \in Attempt
              /\ Ordering(attempt)'
  <2>1. CASE attempt = None
    BY <1>11, <2>1 DEF Close
  <2>2. CASE attempt # None
    <3>1. attempt \in Attempt
      BY <1>0, <2>2 DEF PayType
    <3>2. attempt' \in Attempt /\ attempt'.order = attempt.order
      BY <1>11, <2>2, <3>1 DEF Close, Attempt
    <3>3. PICK o : o = attempt.order /\ Known(o)'
      BY <1>1, <2>2
    <3>. QED
      BY <3>2, <3>3
  <2>. QED
    BY <2>1, <2>2
\* A window closes, or the watchdog gives it up: the api is asked.
<1>12. ASSUME NEW kind \in {"confirm", "sync"}, NEW o, Known(o), attempt' = Close \/ UNCHANGED attempt,
              phase' \in {At("confirming", o), At("checking", o)},
              calls' = calls \union {Ask(kind, o, None)}, windows' \subseteq windows,
              UNCHANGED <<charged, held, lastOrder, history>>
       PROVE  Rest'
  <2>1. Ask(kind, o, None) \in Call /\ CallRight(Ask(kind, o, None))'
    BY <1>1, <1>12, AskRight
  <2>2. phase' \in Phase /\ phase'.kind # "unconfirmed"
    BY <1>1, <1>12, AtIsPhase DEF At, Busy, Finished
  <2>3. PayType'
    BY <1>0, <1>11, <1>12, <2>2 DEF PayType
  <2>4. KnownOrders'
    BY <1>0, <1>1, <1>11, <1>12, <2>1, <2>2 DEF KnownOrders
  <2>. QED
    BY <1>0, <1>12, <2>1, <2>3, <2>4 DEF Rest, LinkType, PastType, history
<1>13. ASSUME NEW w \in windows, Succeeds(w)
       PROVE  Rest'
  <2>1. /\ Known(w.order) /\ attempt' = Close /\ phase' = At("confirming", w.order)
        /\ calls' = calls \union {Ask("confirm", w.order, None)} /\ windows' \subseteq windows
        /\ UNCHANGED <<charged, held, lastOrder, history>>
    BY <1>0, <1>13 DEF Succeeds, Confirms, KnownOrders, server, seen
  <2>. QED
    BY <1>12, <2>1
<1>14. ASSUME NEW w \in windows, Dismissed(w)
       PROVE  Rest'
  <2>1. /\ Known(w.order) /\ windows' \subseteq windows
        /\ UNCHANGED <<charged, held, lastOrder, history>>
    BY <1>0, <1>14 DEF Dismissed, KnownOrders, server, seen
  <2>2. CASE Taken
    <3>1. UNCHANGED <<phase, calls, attempt>>
      BY <1>14, <2>2 DEF Dismissed
    <3>. QED
      BY <1>0, <1>1, <2>1, <3>1 DEF Rest, PayType, LinkType, PastType, KnownOrders, history
  <2>3. CASE ~ Taken
    <3>1. /\ attempt' = Close /\ phase' = At("checking", w.order)
          /\ calls' = calls \union {Ask("sync", w.order, None)}
      BY <1>14, <2>3 DEF Dismissed, AfterClose
    <3>. QED
      BY <1>12, <2>1, <3>1
  <2>. QED
    BY <2>2, <2>3
<1>15. ASSUME NEW w \in windows, Vanishes(w)
       PROVE  Rest'
  <2>1. windows' \subseteq windows /\ UNCHANGED <<charged, held, pay, calls, history>>
    BY <1>15 DEF Vanishes, server, seen
  <2>. QED
    BY <1>0, <1>1, <2>1 DEF Rest, PayType, LinkType, PastType, KnownOrders, pay, history
<1>16. CASE Watchdog
  <2>1. /\ Known(attempt.order) /\ attempt' = Close /\ phase' = At("checking", attempt.order)
        /\ calls' = calls \union {Ask("sync", attempt.order, None)}
        /\ UNCHANGED <<charged, held, lastOrder, windows, history>>
    BY <1>0, <1>16 DEF Watchdog, AfterClose, KnownOrders, server, seen
  <2>. QED
    BY <1>12, <2>1
<1>17. CASE RetryConfirm
  <2>1. /\ Known(phase.order) /\ UNCHANGED attempt /\ phase' = At("confirming", phase.order)
        /\ calls' = calls \union {Ask("confirm", phase.order, None)}
        /\ UNCHANGED <<charged, held, lastOrder, windows, history>>
    BY <1>0, <1>17 DEF RetryConfirm, Confirms, KnownOrders, server, seen
  <2>. QED
    BY <1>12, <2>1
<1>18. ASSUME NEW c \in calls, Confirmed(c) \/ Synced(c)
       PROVE  Rest'
  <2>1. Known(c.order) /\ c.order \in Orders
    BY <1>0, <1>18 DEF Confirmed, Synced, KnownOrders, CallRight, Known
  <2>2. calls' = calls \ {c} /\ UNCHANGED <<charged, attempt, windows, twice, troubles>>
    BY <1>18 DEF Confirmed, Synced, server
  <2>3. CASE Done(c)
    <3>1. phase' \in Phase /\ lastOrder' = None /\ told' \subseteq Orders
      BY <1>0, <2>1, <2>3, DoneTypes
    <3>2. phase'.kind = "done" /\ held' = None
      BY <2>3 DEF Done, Hold
    <3>. QED
      BY <1>0, <1>1, <2>2, <3>1, <3>2 DEF Rest, PayType, LinkType, PastType, KnownOrders
  <2>4. CASE /\ phase' \in {At("unconfirmed", c.order), At("dismissed", c.order)}
             /\ UNCHANGED <<choice, seen, lastOrder, told>>
    <3>1. phase' \in Phase /\ phase'.order = c.order
      BY <2>1, <2>4, AtIsPhase DEF At, Finished
    <3>. QED
      BY <1>0, <1>1, <2>1, <2>2, <2>4, <3>1 DEF Rest, PayType, LinkType, PastType, KnownOrders, seen
  <2>. QED
    BY <1>18, <2>3, <2>4 DEF Confirmed, Synced
<1>19. ASSUME NEW c \in calls, Lose(c)
       PROVE  Rest'
  <2>. DEFINE d == [c EXCEPT !.answer = "lost"]
  <2>1. /\ calls' = (calls \ {c}) \union {d} /\ troubles' = troubles + 1 /\ troubles < MaxTroubles
        /\ UNCHANGED <<charged, held, pay, windows, told, twice>>
    BY <1>19 DEF Lose, Answered, server, seen
  <2>2. d \in Call /\ CallRight(d)'
    BY <1>1, <1>19 DEF Lose, Call, Answers, CallRight
  <2>3. troubles' \in 0..MaxTroubles
    BY <1>0, <2>1
  <2>. QED
    BY <1>0, <1>1, <2>1, <2>2, <2>3 DEF Rest, PayType, LinkType, PastType, KnownOrders, pay
<1>20. CASE StartOver
  <2>1. /\ phase' = At("choose", None) /\ lastOrder' = None /\ held' = None
        /\ UNCHANGED <<charged, attempt, windows, calls, history>>
    BY <1>20 DEF StartOver, server, Hold
  <2>2. phase' \in Phase /\ phase'.kind = "choose"
    BY <2>1, AtIsPhase DEF At
  <2>. QED
    BY <1>0, <1>1, <2>1, <2>2 DEF Rest, PayType, LinkType, PastType, KnownOrders, history
<1>21. CASE \/ \E o \in Orders : Webhook(o) \/ Tick(o) \/ Cancel(o)
            \/ \E n \in 0..Seats : Others(n)
            \/ Refresh
            \/ \E i \in Slots : ServeRead(i) \/ Arrives(i) \/ ReadFails(i)
            \/ \E f \in Forms : ChooseForm(f)
            \/ ChooseDate \/ Quoted
            \/ UNCHANGED vars
  <2>1. UNCHANGED <<charged, held, pay, windows, calls, history>>
    BY <1>21
    DEF Webhook, Tick, Cancel, Others, Refresh, ServeRead, Arrives, ReadFails, ChooseForm,
        ChooseDate, Quoted, vars, server, seen
  <2>. QED
    BY <1>2, <2>1
<1>. QED
  BY <1>3, <1>4, <1>5, <1>6, <1>7, <1>8, <1>9, <1>10, <1>13, <1>14, <1>15, <1>16, <1>17, <1>18,
     <1>19, <1>20, <1>21
  DEF Next, Serve, Ordered, Loaded, WindowEnds

-----------------------------------------------------------------------------
(* The sheet's types, and what is known of its orders.                      *)

LEMMA BaseInit ==
  ASSUME Init
  PROVE  BaseInv
<1>. DEFINE F == Takes(status, seatsOf)
<1>1. /\ status = [o \in Orders |-> "none"] /\ seatsOf = [o \in Orders |-> 0] /\ others = 0
      /\ seatsOf \in [Orders -> Nat]
      /\ \A o \in Orders : F[o] = 0
  BY DEF Init, Takes, Taking
<1>2. Free = Seats - Sum(F, Orders)
  BY <1>1, FreeIs, TakesNat, OrdersFinite
<1>3. Sum(F, Orders) = 0
  <2>. HIDE DEF F
  <2>. QED
    BY <1>1, OrdersFinite, SumNothing
<1>4. ApiType
  BY <1>1, <1>2, <1>3, OrdersFinite DEF Init, ApiType, Statuses
<1>5. 0 \in 0..MaxTroubles /\ Seats \in 0..Seats
  BY CheckoutAssumption
<1>6. ChoiceType /\ LinkType
  BY DEF Init, ChoiceType, LinkType
<1>7. PastType
  BY <1>5 DEF Init, PastType
<1>8. SeenType
  <2>1. list \in List /\ added \in BOOLEAN /\ held = None
    BY <1>5 DEF Init, List
  <2>2. reads \in [Slots -> Reading]
    BY IdleTypes DEF Init
  <2>. QED
    BY <2>1, <2>2 DEF SeenType
<1>9. PayType
  BY AtIsPhase DEF Init, PayType
<1>10. KnownOrders
  BY DEF Init, KnownOrders, Ordering, At
<1>. QED
  BY <1>4, <1>5, <1>7, <1>9, <1>10, <1>8, <1>6, TypeParts DEF BaseInv

LEMMA BaseStep ==
  ASSUME BaseInv, [Next]_vars
  PROVE  BaseInv'
BY ApiStep, ShowsStep, RestStep, TypeNext DEF BaseInv, Rest

\* Every state of the sheet is well formed, the api's free seats (Free) never
\* go below zero, however late a payment settles.
THEOREM SheetTypeCorrect == Spec => []TypeOK
<1>1. BaseInv => TypeOK
  BY DEF BaseInv
<1>. QED
  BY <1>1, BaseInit, BaseStep, PTL DEF Spec

-----------------------------------------------------------------------------
(* What the sheet says of money.                                            *)

LEMMA MoneyStays ==
  ASSUME BaseInv, [Next]_vars
  PROVE  /\ windows \subseteq Window /\ calls \subseteq Call /\ phase \in Phase
         /\ \A c \in calls : CallRight(c)
         /\ charged \subseteq charged'
         /\ \A o \in Orders : /\ status[o] \in Outcomes => status'[o] = status[o]
                              /\ status'[o] \in Outcomes => status[o] = status'[o] \/ o \in charged
BY ApiStep, TypeParts DEF BaseInv, KnownOrders, LinkType, PayType, StatusMoves

LEMMA SaidWindowsStep ==
  ASSUME BaseInv, SaidWindows, [Next]_vars
  PROVE  SaidWindows'
<1>0. windows \subseteq Window /\ charged \subseteq charged'
  BY MoneyStays
<1>1. ASSUME windows' \subseteq windows
      PROVE  SaidWindows'
  BY <1>0, <1>1 DEF SaidWindows
<1>2. ASSUME NEW c \in calls, Opens(c)
      PROVE  SaidWindows'
  BY <1>0, <1>2 DEF SaidWindows, Opens
<1>3. ASSUME NEW w \in windows, PayIn(w)
      PROVE  SaidWindows'
  BY <1>0, <1>3 DEF SaidWindows, PayIn, Window
<1>4. ASSUME NEW w \in windows, Hides(w)
      PROVE  SaidWindows'
  BY <1>0, <1>4 DEF SaidWindows, Hides, Window
<1>5. CASE \/ \E o \in Orders : Webhook(o) \/ Tick(o) \/ Cancel(o) \/ WindowEnds(o)
           \/ \E n \in 0..Seats : Others(n)
           \/ Refresh
           \/ \E i \in Slots : ServeRead(i) \/ Arrives(i) \/ ReadFails(i)
           \/ \E f \in Forms : ChooseForm(f)
           \/ ChooseDate \/ Quoted \/ Pay \/ Watchdog \/ RetryConfirm \/ StartOver
           \/ Serve({"create", "confirm", "sync"}) \/ Ordered
           \/ \E c \in calls : OpenFails(c) \/ Confirmed(c) \/ Synced(c) \/ Lose(c)
           \/ UNCHANGED vars
  <2>1. windows' \subseteq windows
    BY <1>5
    DEF Webhook, Tick, Cancel, WindowEnds, Succeeds, Dismissed, Vanishes, Others, Refresh,
        ServeRead, Arrives, ReadFails, ChooseForm, ChooseDate, Quoted, Pay, Watchdog,
        RetryConfirm, StartOver, Serve, ServeCreate, ServeOutcome, Ordered, OrderMade,
        OrderFull, OrderRefused, OpenFails, Confirmed, Synced, Lose, vars
  <2>. QED
    BY <1>1, <2>1
<1>. QED
  BY <1>2, <1>3, <1>4, <1>5 DEF Next, Loaded

\* A booking that is confirmed or refunded stays so, and its money was taken.
LEMMA SaidBookingsStep ==
  ASSUME BaseInv, SaidBookings, [Next]_vars
  PROVE  SaidBookings'
BY MoneyStays DEF SaidBookings

\* An answer that names an outcome names the booking's own.
LEMMA SaidCallsStep ==
  ASSUME BaseInv, SaidInv, [Next]_vars
  PROVE  SaidCalls'
<1>0. /\ windows \subseteq Window /\ calls \subseteq Call /\ phase \in Phase
      /\ \A c \in calls : CallRight(c)
      /\ charged \subseteq charged'
      /\ \A o \in Orders : status[o] \in Outcomes => status'[o] = status[o]
      /\ SaidCalls /\ SaidPhase /\ SaidWindows
  BY MoneyStays DEF SaidInv
<1>. DEFINE Right(d) == /\ d.kind = "confirm" => d.order \in charged'
                        /\ d.answer \in Outcomes =>
                             d.order \in Orders /\ status'[d.order] = d.answer
<1>1. \A c \in calls : Right(c)
  BY <1>0 DEF SaidCalls
<1>2. ASSUME \A d \in calls' : d \in calls \/ Right(d)
      PROVE  SaidCalls'
  BY <1>1, <1>2 DEF SaidCalls
<1>3. ASSUME NEW c \in calls, ServeCreate(c)
      PROVE  SaidCalls'
  <2>1. PICK d : calls' = (calls \ {c}) \union {d} /\ d.kind = "create" /\ d.answer \notin Outcomes
    <3>1. c \in Call /\ c.kind = "create"
      BY <1>0, <1>3 DEF ServeCreate
    <3>2. \/ \E o \in Orders :
               calls' = (calls \ {c}) \union {[c EXCEPT !.answer = "made", !.order = o]}
          \/ \E a \in {"full", "refused"} : Answered(c, a)
      BY <1>3, ServeCreateMoves
    <3>3. ASSUME NEW a \in {"full", "refused"}, Answered(c, a)
          PROVE  \E d : calls' = (calls \ {c}) \union {d} /\ d.kind = "create" /\ d.answer \notin Outcomes
      <4>. DEFINE d == [c EXCEPT !.answer = a]
      <4>1. d.kind = "create" /\ d.answer \notin Outcomes
        BY <3>1 DEF Call, Outcomes
      <4>2. calls' = (calls \ {c}) \union {d}
        BY <3>3 DEF Answered
      <4>. HIDE DEF d
      <4>. QED
        BY <4>1, <4>2
    <3>4. ASSUME NEW o, calls' = (calls \ {c}) \union {[c EXCEPT !.answer = "made", !.order = o]}
          PROVE  \E d : calls' = (calls \ {c}) \union {d} /\ d.kind = "create" /\ d.answer \notin Outcomes
      <4>. DEFINE d == [c EXCEPT !.answer = "made", !.order = o]
      <4>1. d.kind = "create" /\ d.answer \notin Outcomes
        BY <3>1 DEF Call, Outcomes
      <4>2. calls' = (calls \ {c}) \union {d}
        BY <3>4
      <4>. HIDE DEF d
      <4>. QED
        BY <4>1, <4>2
    <3>. QED
      BY <3>2, <3>3, <3>4
  <2>. QED
    BY <1>2, <2>1
<1>4. ASSUME NEW c \in calls, ServeOutcome(c)
      PROVE  SaidCalls'
  <2>1. PICK a : Answered(c, a) /\ (a \in Outcomes => c.order \in Orders /\ status'[c.order] = a)
    BY <1>4, ServeOutcomeMoves
  <2>. DEFINE d == [c EXCEPT !.answer = a]
  <2>2. calls' = (calls \ {c}) \union {d}
    BY <2>1 DEF Answered
  <2>3. d.kind = c.kind /\ d.order = c.order /\ d.answer = a
    BY <1>0 DEF Call
  <2>4. Right(d)
    <3>. HIDE DEF d
    <3>1. c.kind = "confirm" => c.order \in charged'
      BY <1>1
    <3>2. d.order = c.order /\ (a \in Outcomes => d.order \in Orders /\ status'[d.order] = a)
      BY <2>1, <2>3
    <3>. QED
      BY <2>3, <3>1, <3>2
  <2>. QED
    BY <1>2, <2>2, <2>4
<1>5. ASSUME NEW c \in calls, Lose(c)
      PROVE  SaidCalls'
  <2>. DEFINE d == [c EXCEPT !.answer = "lost"]
  <2>1. calls' = (calls \ {c}) \union {d}
    BY <1>5 DEF Lose, Answered
  <2>2. d.kind = c.kind /\ d.order = c.order /\ d.answer = "lost"
    BY <1>0 DEF Call
  <2>3. Right(d)
    BY <1>1, <2>2 DEF Outcomes
  <2>. QED
    BY <1>2, <2>1, <2>3
<1>6. ASSUME NEW o, o \in charged \/ UNCHANGED calls,
             calls' = calls \union {Ask("confirm", o, None)} \/ UNCHANGED calls
      PROVE  SaidCalls'
  BY <1>0, <1>2, <1>6 DEF Ask, Outcomes
<1>7. ASSUME NEW w \in windows, Succeeds(w)
      PROVE  SaidCalls'
  <2>1. w.order \in charged
    BY <1>0, <1>7 DEF Succeeds, SaidWindows
  <2>. QED
    BY <1>6, <1>7, <2>1 DEF Succeeds, Confirms
<1>8. CASE RetryConfirm
  <2>1. phase.order \in charged
    BY <1>0, <1>8 DEF RetryConfirm, SaidPhase
  <2>. QED
    BY <1>6, <1>8, <2>1 DEF RetryConfirm, Confirms
<1>9. ASSUME NEW kind \in {"create", "load", "sync"}, NEW o, NEW f, NEW D,
             calls' = D \union {Ask(kind, o, f)}, D \subseteq calls
      PROVE  SaidCalls'
  BY <1>2, <1>9 DEF Ask, Outcomes
<1>10. CASE Pay
  BY <1>9, <1>10 DEF Pay
<1>11. ASSUME NEW c \in calls, OrderMade(c)
       PROVE  SaidCalls'
  <2>. DEFINE D == calls \ {c}
  <2>1. calls' = D \union {Ask("load", c.order, None)} /\ D \subseteq calls
    BY <1>11 DEF OrderMade
  <2>. HIDE DEF D
  <2>. QED
    BY <1>9, <2>1
<1>12. ASSUME NEW w \in windows, Dismissed(w)
       PROVE  SaidCalls'
  BY <1>2, <1>9, <1>12 DEF Dismissed, AfterClose
<1>13. CASE Watchdog
  BY <1>9, <1>13 DEF Watchdog, AfterClose
<1>14. CASE \/ \E o \in Orders : Webhook(o) \/ Tick(o) \/ Cancel(o)
            \/ \E n \in 0..Seats : Others(n)
            \/ Refresh
            \/ \E i \in Slots : ServeRead(i) \/ Arrives(i) \/ ReadFails(i)
            \/ \E f \in Forms : ChooseForm(f)
            \/ ChooseDate \/ Quoted \/ StartOver \/ Loaded
            \/ \E c \in calls : OrderFull(c) \/ OrderRefused(c) \/ Confirmed(c) \/ Synced(c)
            \/ \E w \in windows : Vanishes(w) \/ PayIn(w) \/ Hides(w)
            \/ UNCHANGED vars
  <2>1. calls' \subseteq calls
    BY <1>14
    DEF Webhook, Tick, Cancel, Others, Refresh, ServeRead, Arrives, ReadFails, ChooseForm,
        ChooseDate, Quoted, StartOver, Loaded, Opens, OpenFails, OrderFull, OrderRefused,
        Confirmed, Synced, Vanishes, PayIn, Hides, vars
  <2>. QED
    BY <1>2, <2>1
<1>. QED
  BY <1>3, <1>4, <1>5, <1>7, <1>8, <1>10, <1>11, <1>12, <1>13, <1>14
  DEF Next, Serve, Ordered, WindowEnds

LEMMA SaidPhaseStep ==
  ASSUME BaseInv, SaidInv, [Next]_vars
  PROVE  SaidPhase'
<1>0. /\ calls \subseteq Call /\ phase \in Phase
      /\ \A c \in calls : CallRight(c)
      /\ charged \subseteq charged'
      /\ \A o \in Orders : status[o] \in Outcomes => status'[o] = status[o]
      /\ SaidCalls /\ SaidPhase /\ SaidWindows
  BY MoneyStays DEF SaidInv
<1>1. ASSUME UNCHANGED phase
      PROVE  SaidPhase'
  BY <1>0, <1>1 DEF SaidPhase
<1>2. ASSUME NEW kind, NEW o, phase' = At(kind, o), kind # "done",
             kind \in {"confirming", "unconfirmed"} => o \in charged
      PROVE  SaidPhase'
  BY <1>0, <1>2 DEF SaidPhase, At
<1>3. ASSUME NEW w \in windows, Succeeds(w)
      PROVE  SaidPhase'
  <2>1. w.order \in charged
    BY <1>0, <1>3 DEF Succeeds, SaidWindows
  <2>. QED
    BY <1>2, <1>3, <2>1 DEF Succeeds, Confirms
<1>4. CASE RetryConfirm
  <2>1. phase.order \in charged
    BY <1>0, <1>4 DEF RetryConfirm, SaidPhase
  <2>. QED
    BY <1>2, <1>4, <2>1 DEF RetryConfirm, Confirms
<1>13. ASSUME NEW c \in calls, Done(c)
       PROVE  SaidPhase'
  <2>1. phase' = [kind |-> "done", order |-> c.order, result |-> c.answer]
    BY <1>13 DEF Done
  <2>2. c.answer \in Outcomes => c.order \in Orders /\ status'[c.order] = c.answer
    BY <1>0 DEF SaidCalls
  <2>. QED
    BY <2>1, <2>2 DEF SaidPhase
<1>5. ASSUME NEW c \in calls, Confirmed(c)
      PROVE  SaidPhase'
  <2>1. c.order \in charged
    BY <1>0, <1>5 DEF Confirmed, SaidCalls
  <2>2. CASE phase' = At("unconfirmed", c.order)
    BY <1>2, <2>1, <2>2
  <2>. QED
    BY <1>5, <1>13, <2>2 DEF Confirmed
<1>6. ASSUME NEW c \in calls, Synced(c)
      PROVE  SaidPhase'
  <2>1. CASE phase' = At("dismissed", c.order)
    BY <1>2, <2>1
  <2>. QED
    BY <1>6, <1>13, <2>1 DEF Synced
<1>7. CASE Pay
  BY <1>2, <1>7 DEF Pay
<1>8. ASSUME NEW c \in calls, OrderMade(c) \/ OrderFull(c) \/ OrderRefused(c) \/ OpenFails(c)
      PROVE  SaidPhase'
  BY <1>2, <1>8 DEF OrderMade, OrderFull, OrderRefused, OpenFails
<1>9. ASSUME NEW c \in calls, Opens(c)
      PROVE  SaidPhase'
  BY <1>1, <1>2, <1>9 DEF Opens
<1>10. ASSUME NEW w \in windows, Dismissed(w)
       PROVE  SaidPhase'
  BY <1>1, <1>2, <1>10 DEF Dismissed, AfterClose
<1>11. CASE Watchdog \/ StartOver
  BY <1>2, <1>11 DEF Watchdog, AfterClose, StartOver
<1>12. CASE \/ \E o \in Orders : Webhook(o) \/ Tick(o) \/ Cancel(o)
            \/ \E n \in 0..Seats : Others(n)
            \/ Refresh
            \/ \E i \in Slots : ServeRead(i) \/ Arrives(i) \/ ReadFails(i)
            \/ \E f \in Forms : ChooseForm(f)
            \/ ChooseDate \/ Quoted
            \/ Serve({"create", "confirm", "sync"})
            \/ \E c \in calls : Lose(c)
            \/ \E w \in windows : Vanishes(w) \/ PayIn(w) \/ Hides(w)
            \/ UNCHANGED vars
  <2>1. UNCHANGED phase
    BY <1>12
    DEF Webhook, Tick, Cancel, Others, Refresh, ServeRead, Arrives, ReadFails, ChooseForm,
        ChooseDate, Quoted, Serve, ServeCreate, ServeOutcome, Lose, Vanishes, PayIn, Hides,
        vars, pay
  <2>. QED
    BY <1>1, <2>1
<1>. QED
  BY <1>3, <1>4, <1>5, <1>6, <1>7, <1>8, <1>9, <1>10, <1>11, <1>12
  DEF Next, Ordered, Loaded, WindowEnds

\* A booking is shown confirmed, or cancelled with a refund, only when that
\* became of it and Razorpay took its payment (OutcomesAreTrue), whatever calls
\* were lost and windows hid.
THEOREM OutcomesStayTrue == Spec => []OutcomesAreTrue
<1>1. Init => SaidInv
  BY DEF Init, SaidInv, SaidBookings, SaidWindows, SaidCalls, SaidPhase, At, Outcomes
<1>2. BaseInv /\ SaidInv /\ [Next]_vars => SaidInv'
  BY SaidBookingsStep, SaidWindowsStep, SaidCallsStep, SaidPhaseStep DEF SaidInv
<1>3. BaseInv /\ SaidInv => OutcomesAreTrue
  <2>1. /\ Screen = "welcome" => phase.kind = "done" /\ phase.result = "confirmed"
        /\ Screen = "refund" => phase.kind = "done" /\ phase.result = "refunding"
    BY DEF Screen
  <2>. QED
    BY <2>1 DEF SaidInv, SaidPhase, SaidBookings, Outcomes, OutcomesAreTrue
<1>. QED
  BY <1>1, <1>2, <1>3, BaseInit, BaseStep, PTL DEF Spec

-----------------------------------------------------------------------------
(* The visitor's own seats.                                                 *)

\* The reads on their way know of the hold o, or were asked before it.
ReadsKnow(o, rd) == \A i \in Slots : rd[i].state = "told" /\ rd[i].fresh => o \in rd[i].counts

LEMMA AskedKnow ==
  ASSUME NEW was \in [Slots -> Reading], NEW h, NEW o, Asks(was, h), ReadsKnow(o, was)
  PROVE  ReadsKnow(o, reads')
<1>. DEFINE a == [Idle EXCEPT !.state = "asked", !.fresh = h # None]
<1>1. a.state = "asked"
  BY DEF Idle
<1>. HIDE DEF a
<1>2. reads' = was \/ \E i \in Slots : reads' = [was EXCEPT ![i] = a]
  BY DEF Asks, a
<1>. QED
  BY <1>1, <1>2 DEF ReadsKnow

LEMMA AgedKnow ==
  ASSUME SeenType, NEW o
  PROVE  ReadsKnow(o, Aged) /\ Aged \in [Slots -> Reading]
BY AgedTypes DEF SeenType, Aged, Reading, ReadsKnow

LEMMA OwnStep ==
  ASSUME BaseInv, OwnInv, [Next]_vars
  PROVE  OwnInv'
<1>0. /\ SeenType /\ reads \in [Slots -> Reading]
      /\ \A o : Known(o) /\ status'[o] = "held" => status[o] = "held"
      /\ held # None => Known(held.order)
  BY ApiStep, TypeParts DEF BaseInv, KnownOrders, Ordering, Known, StatusMoves, SeenType
<1>1. /\ added => held # None
      /\ added /\ status[held.order] = "held" => held.order \in list.counts
      /\ held # None /\ status[held.order] = "held" => ReadsKnow(held.order, reads)
  BY DEF OwnInv, OwnSeatsCountOnce, ReadsKnow
<1>2. ASSUME /\ added' => held' # None
             /\ added' /\ status'[held'.order] = "held" => held'.order \in list'.counts
             /\ held' # None /\ status'[held'.order] = "held" => ReadsKnow(held'.order, reads')
      PROVE  OwnInv'
  BY <1>2 DEF OwnInv, OwnSeatsCountOnce, ReadsKnow
\* The hold stays, and the reads know of it as before.
<1>3. ASSUME UNCHANGED <<added, list, held>>,
             \A o : ReadsKnow(o, reads) /\ status[o] = "held" => ReadsKnow(o, reads')
      PROVE  OwnInv'
  BY <1>0, <1>1, <1>2, <1>3
<1>4. ASSUME UNCHANGED seen
      PROVE  OwnInv'
  BY <1>3, <1>4 DEF seen
\* Another hold: nothing read before it is taken to know of it.
<1>5. ASSUME NEW h, Hold(h), \A o : ReadsKnow(o, reads')
      PROVE  OwnInv'
  BY <1>2, <1>5 DEF Hold
<1>6. ASSUME NEW h, reads' = reads \/ Asks(reads, h), UNCHANGED <<added, list, held>>
      PROVE  OwnInv'
  <2>1. \A o : ReadsKnow(o, reads) => ReadsKnow(o, reads')
    BY <1>0, <1>6, AskedKnow
  <2>. QED
    BY <1>3, <1>6, <2>1
<1>7. ASSUME NEW i \in Slots, ServeRead(i)
      PROVE  OwnInv'
  <2>1. /\ reads' = [reads EXCEPT ![i].state = "told", ![i].seats = Free,
              ![i].counts = IF reads[i].fresh THEN {o \in Orders : status[o] = "held"} ELSE {}]
        /\ UNCHANGED <<added, list, held>>
    BY <1>7 DEF ServeRead
  <2>2. /\ \A j \in Slots \ {i} : reads'[j] = reads[j]
        /\ reads'[i].fresh => reads'[i].counts = {o \in Orders : status[o] = "held"}
    BY <1>0, <2>1 DEF Reading
  <2>3. ASSUME NEW o, ReadsKnow(o, reads), o \in Orders, status[o] = "held"
        PROVE  ReadsKnow(o, reads')
    BY <2>2, <2>3 DEF ReadsKnow
  <2>. QED
    BY <1>0, <1>1, <1>2, <2>1, <2>3 DEF Known
<1>8. ASSUME NEW i \in Slots, Arrives(i)
      PROVE  OwnInv'
  <2>1. /\ reads[i].state = "told" /\ list'.counts = reads[i].counts /\ UNCHANGED held
        /\ added' => held # None /\ reads[i].fresh
        /\ reads' = [reads EXCEPT ![i] = Idle]
    BY <1>8 DEF Arrives, AddsBack
  <2>2. \A o : ReadsKnow(o, reads) => ReadsKnow(o, reads')
    BY <1>0, <2>1 DEF ReadsKnow, Idle
  <2>3. \A o : ReadsKnow(o, reads) /\ reads[i].fresh => o \in list'.counts
    BY <2>1 DEF ReadsKnow
  <2>. QED
    BY <1>0, <1>1, <1>2, <2>1, <2>2, <2>3
<1>9. ASSUME NEW i \in Slots, ReadFails(i)
      PROVE  OwnInv'
  <2>1. reads' = [reads EXCEPT ![i] = Idle] /\ UNCHANGED <<added, list, held>>
    BY <1>9 DEF ReadFails
  <2>2. \A o : ReadsKnow(o, reads) => ReadsKnow(o, reads')
    BY <1>0, <2>1 DEF ReadsKnow, Idle
  <2>. QED
    BY <1>3, <2>1, <2>2
<1>10. CASE Refresh \/ Quoted
  BY <1>6, <1>10 DEF Refresh, Quoted
<1>11. ASSUME NEW h, Hold(h), reads' = Aged \/ Asks(Aged, None)
       PROVE  OwnInv'
  <2>1. \A o : ReadsKnow(o, reads')
    BY <1>0, <1>11, AgedKnow, AskedKnow
  <2>. QED
    BY <1>5, <1>11, <2>1
<1>12. ASSUME NEW c \in calls, OrderMade(c) \/ OrderFull(c)
       PROVE  OwnInv'
  BY <1>11, <1>12 DEF OrderMade, OrderFull
<1>13. ASSUME NEW c \in calls, Confirmed(c) \/ Synced(c)
       PROVE  OwnInv'
  BY <1>4, <1>11, <1>13 DEF Confirmed, Synced, Done
<1>14. CASE StartOver
  BY <1>11, <1>14 DEF StartOver
<1>15. CASE \/ \E o \in Orders : Webhook(o) \/ Tick(o) \/ Cancel(o) \/ WindowEnds(o)
            \/ \E n \in 0..Seats : Others(n)
            \/ \E f \in Forms : ChooseForm(f)
            \/ ChooseDate \/ Pay \/ Watchdog \/ RetryConfirm \/ Loaded
            \/ Serve({"create", "confirm", "sync"})
            \/ \E c \in calls : OrderRefused(c) \/ Lose(c)
            \/ \E w \in windows : PayIn(w) \/ Hides(w)
            \/ UNCHANGED vars
  <2>1. UNCHANGED seen
    BY <1>15
    DEF Webhook, Tick, Cancel, WindowEnds, Succeeds, Dismissed, Vanishes, Others, ChooseForm,
        ChooseDate, Pay, Watchdog, RetryConfirm, Loaded, Opens, OpenFails, Serve, ServeCreate,
        ServeOutcome, OrderRefused, Lose, PayIn, Hides, vars
  <2>. QED
    BY <1>4, <2>1
<1>. QED
  BY <1>7, <1>8, <1>9, <1>10, <1>12, <1>13, <1>14, <1>15 DEF Next, Ordered

\* While the visitor's hold stands, the seats added back on screen are seats
\* that the list on screen had taken off: they are never shown twice.
THEOREM OwnSeatsOnce == Spec => []OwnSeatsCountOnce
<1>1. Init => OwnInv
  BY DEF Init, OwnInv, OwnSeatsCountOnce
<1>2. BaseInv /\ OwnInv /\ [Next]_vars => OwnInv'
  BY OwnStep
<1>3. OwnInv => OwnSeatsCountOnce
  BY DEF OwnInv
<1>. QED
  BY <1>1, <1>2, <1>3, BaseInit, BaseStep, PTL DEF Spec

-----------------------------------------------------------------------------
(* One payment at a time.                                                   *)

LEMMA PhasesOfCalls ==
  /\ PhaseOfCall["create"] = "starting" /\ PhaseOfCall["load"] = "opening"
  /\ PhaseOfCall["confirm"] = "confirming" /\ PhaseOfCall["sync"] = "checking"
BY DEF PhaseOfCall

\* A call keeps its kind, and once made its order, whatever it is answered.
LEMMA ServedAlone ==
  ASSUME BaseInv, OneThing, NEW c \in calls, ServeCreate(c) \/ ServeOutcome(c)
  PROVE  OneThing'
<1>1. UNCHANGED <<charged, told, windows, phase, attempt>>
  BY DEF ServeCreate, ServeOutcome, pay, history
<1>2. c \in Call /\ \A b \in calls : b = c
  BY TypeParts DEF BaseInv, LinkType, OneThing
<1>3. PICK d : /\ calls' = {d} /\ d.kind = c.kind /\ d.answer # "lost"
               /\ c.kind # "create" => d.order = c.order
               /\ d.answer = "pending" => d.order \notin charged
  <2>1. ASSUME NEW a, a # "lost", Answered(c, a), a = "pending" => c.order \notin charged
        PROVE  \E d : /\ calls' = {d} /\ d.kind = c.kind /\ d.answer # "lost"
                      /\ c.kind # "create" => d.order = c.order
                      /\ d.answer = "pending" => d.order \notin charged
    <3>. DEFINE d == [c EXCEPT !.answer = a]
    <3>1. d.kind = c.kind /\ d.order = c.order /\ d.answer = a
      BY <1>2 DEF Call
    <3>2. calls' = {d}
      BY <1>2, <2>1 DEF Answered
    <3>. QED
      BY <2>1, <3>1, <3>2
  <2>2. ASSUME NEW o, c.kind = "create",
               calls' = (calls \ {c}) \union {[c EXCEPT !.answer = "made", !.order = o]}
        PROVE  \E d : /\ calls' = {d} /\ d.kind = c.kind /\ d.answer # "lost"
                      /\ c.kind # "create" => d.order = c.order
                      /\ d.answer = "pending" => d.order \notin charged
    <3>. DEFINE d == [c EXCEPT !.answer = "made", !.order = o]
    <3>1. d.kind = c.kind /\ d.answer = "made"
      BY <1>2 DEF Call
    <3>2. calls' = {d}
      BY <1>2, <2>2
    <3>. QED
      BY <2>2, <3>1, <3>2
  <2>3. CASE ServeOutcome(c)
    BY <2>1, <2>3, ServeOutcomeMoves
  <2>4. CASE ServeCreate(c)
    <3>1. c.kind = "create"
      BY <2>4 DEF ServeCreate
    <3>. QED
      BY <2>1, <2>2, <2>4, <3>1, ServeCreateMoves
  <2>. QED
    BY <2>3, <2>4
<1>4. \A d1, d2 \in calls' : d1 = d2
  BY <1>3
<1>5. \A e \in calls' : /\ phase'.kind = PhaseOfCall[e.kind] /\ e.answer # "lost"
                        /\ e.kind # "create" => phase'.order = e.order
                        /\ e.answer = "pending" => e.order \notin charged'
  BY <1>1, <1>3 DEF OneThing
<1>. QED
  BY <1>1, <1>4, <1>5 DEF OneThing

\* Nothing but what is at rest is alone with its phase.
LEMMA AloneIs ==
  ASSUME BaseInv, OneThing
  PROVE  /\ phase.kind \notin {"starting", "opening", "confirming", "checking"} => calls = {}
         /\ phase.kind # "paying" => windows = {}
         /\ phase.kind \notin {"paying", "checking", "confirming"} => charged \subseteq told
         /\ \A c \in calls : /\ phase.kind = PhaseOfCall[c.kind] /\ calls = {c}
                             /\ c.kind # "create" => phase.order = c.order
         /\ \A w \in windows : windows = {w}
<1>0. calls \subseteq Call
  BY TypeParts DEF BaseInv, LinkType
<1>1. ASSUME NEW c \in calls
      PROVE  phase.kind \in {"starting", "opening", "confirming", "checking"}
  BY <1>0, PhasesOfCalls DEF OneThing, Call
<1>2. /\ phase.kind # "paying" => windows = {}
      /\ phase.kind \notin {"paying", "checking", "confirming"} => charged \subseteq told
  BY DEF OneThing
<1>3. /\ \A c \in calls : /\ phase.kind = PhaseOfCall[c.kind] /\ calls = {c}
                          /\ c.kind # "create" => phase.order = c.order
      /\ \A w \in windows : windows = {w}
  BY DEF OneThing
<1>. QED
  BY <1>1, <1>2, <1>3

LEMMA OneThingStep ==
  ASSUME BaseInv, OneThing, [Next]_vars, troubles = 0, troubles' = 0
  PROVE  OneThing'
<1>0. /\ TypeOK /\ windows \subseteq Window /\ calls \subseteq Call /\ phase \in Phase
  BY TypeParts DEF BaseInv, LinkType, PayType, PastType
<1>2. OneThing /\ troubles = 0 /\ troubles' = 0
  OBVIOUS
<1>3. /\ phase.kind \notin {"starting", "opening", "confirming", "checking"} => calls = {}
      /\ phase.kind # "paying" => windows = {}
      /\ phase.kind \notin {"paying", "checking", "confirming"} => charged \subseteq told
      /\ \A c \in calls : /\ phase.kind = PhaseOfCall[c.kind] /\ calls = {c}
                          /\ c.kind # "create" => phase.order = c.order
      /\ \A w \in windows : windows = {w}
  BY AloneIs
<1>4. ASSUME UNCHANGED <<charged, told, windows, calls, phase, attempt>>
      PROVE  OneThing'
  BY <1>2, <1>4 DEF OneThing
<1>5. ASSUME NEW c \in calls, ServeCreate(c) \/ ServeOutcome(c)
      PROVE  OneThing'
  BY <1>2, <1>5, ServedAlone
\* The sheet goes back to the form, or ends, with all that was paid told.
<1>6. ASSUME calls' = {}, windows' = {}, charged' \subseteq told',
             phase'.kind \in {"choose", "dismissed", "done"}
      PROVE  OneThing'
  BY <1>6 DEF OneThing
\* It makes its one call.
<1>7. ASSUME NEW kind \in {"create", "load", "confirm", "sync"}, NEW o, NEW f,
             calls' = {Ask(kind, o, f)}, windows' = {},
             phase'.kind = PhaseOfCall[kind], kind # "create" => phase'.order = o,
             \A p \in charged' \ told' :
               phase'.kind \in {"paying", "checking", "confirming"} /\ phase'.order = p
      PROVE  OneThing'
  <2>. DEFINE a == Ask(kind, o, f)
  <2>1. a.kind = kind /\ a.order = o /\ a.answer = "asked"
    BY DEF Ask
  <2>2. phase'.kind \notin {"paying", "unconfirmed"}
    BY <1>7, PhasesOfCalls
  <2>. HIDE DEF a
  <2>3. calls' = {a}
    BY <1>7 DEF a
  <2>. QED
    BY <1>7, <2>1, <2>2, <2>3 DEF OneThing
<1>8. CASE Pay
  <2>1. /\ calls = {} /\ windows = {} /\ charged \subseteq told
        /\ UNCHANGED <<charged, told, windows>>
    BY <1>3, <1>8 DEF Pay, CanPay, server, history
  <2>2. CASE Reuses
    <3>1. /\ calls' = {Ask("load", lastOrder.order, None)}
          /\ phase' = At("opening", lastOrder.order)
      BY <1>8, <2>1, <2>2 DEF Pay
    <3>2. phase'.kind = PhaseOfCall["load"] /\ phase'.order = lastOrder.order
      BY <3>1, PhasesOfCalls DEF At
    <3>. QED
      BY <1>7, <2>1, <3>1, <3>2
  <2>3. CASE ~ Reuses
    <3>1. /\ calls' = {Ask("create", None, form)} /\ phase' = At("starting", None)
      BY <1>8, <2>1, <2>3 DEF Pay
    <3>2. phase'.kind = PhaseOfCall["create"]
      BY <3>1, PhasesOfCalls DEF At
    <3>. QED
      BY <1>7, <2>1, <3>1, <3>2
  <2>. QED
    BY <2>2, <2>3
<1>9. ASSUME NEW c \in calls, OrderMade(c)
      PROVE  OneThing'
  <2>1. /\ windows = {} /\ charged \subseteq told /\ calls = {c}
        /\ calls' = (calls \ {c}) \union {Ask("load", c.order, None)}
        /\ phase' = At("opening", c.order) /\ UNCHANGED <<charged, told, windows>>
    BY <1>3, <1>9, PhasesOfCalls DEF OrderMade, server, history
  <2>2. phase'.kind = PhaseOfCall["load"] /\ phase'.order = c.order
    BY <2>1, PhasesOfCalls DEF At
  <2>3. calls' = {Ask("load", c.order, None)}
    BY <2>1
  <2>. QED
    BY <1>7, <2>1, <2>2, <2>3
<1>10. ASSUME NEW c \in calls, OrderFull(c) \/ OrderRefused(c) \/ OpenFails(c)
       PROVE  OneThing'
  <2>1. /\ windows = {} /\ charged \subseteq told /\ calls = {c} /\ calls' = calls \ {c}
        /\ phase' = At("choose", None) \/ phase' = At("dismissed", c.order)
        /\ UNCHANGED <<charged, told, windows>>
    BY <1>3, <1>10, PhasesOfCalls DEF OrderFull, OrderRefused, OpenFails, server, history
  <2>2. calls' = {} /\ phase'.kind \in {"choose", "dismissed"}
    BY <2>1 DEF At
  <2>. QED
    BY <1>6, <2>1, <2>2
<1>11. ASSUME NEW c \in calls, Opens(c)
       PROVE  OneThing'
  <2>. DEFINE o == c.order
            w == [order |-> o, shown |-> TRUE, paid |-> FALSE]
  <2>1. /\ phase.kind = "opening" /\ windows = {} /\ charged \subseteq told /\ calls = {c}
        /\ calls' = calls \ {c} /\ windows' = windows \union {w}
        /\ phase' = At("paying", o) /\ attempt' = [order |-> o, closed |-> FALSE]
        /\ UNCHANGED <<charged, told>>
    BY <1>3, <1>11, PhasesOfCalls DEF Opens, server, history
  <2>2. /\ calls' = {} /\ windows' = {w} /\ w.shown /\ w.order = o
        /\ phase'.kind = "paying" /\ phase'.order = o /\ attempt'.order = o
    BY <2>1 DEF At
  <2>. HIDE DEF w
  <2>. QED
    BY <2>1, <2>2 DEF OneThing
<1>12. ASSUME NEW w \in windows, PayIn(w)
       PROVE  OneThing'
  <2>. DEFINE v == [w EXCEPT !.paid = TRUE]
  <2>1. /\ phase.kind = "paying" /\ phase.order = w.order /\ w.shown
        /\ charged' = charged \union {w.order} /\ calls = {}
        /\ windows' = {v} /\ v.shown = w.shown /\ v.order = w.order
        /\ UNCHANGED <<told, calls, phase, attempt>>
    BY <1>0, <1>2, <1>3, <1>12 DEF PayIn, pay, history, OneThing, Window
  <2>. HIDE DEF v
  <2>2. \A p \in charged' \ told' : phase'.order = p
    BY <1>2, <2>1 DEF OneThing
  <2>. QED
    BY <1>2, <2>1, <2>2 DEF OneThing
<1>13. ASSUME NEW w \in windows, Succeeds(w) \/ Dismissed(w) \/ Vanishes(w)
       PROVE  OneThing'
  <2>1. /\ phase.kind = "paying" /\ phase.order = w.order /\ calls = {}
        /\ windows' = {} /\ UNCHANGED <<charged, told>>
        /\ \A p \in charged \ told : p = w.order
    BY <1>2, <1>3, <1>13 DEF Succeeds, Dismissed, Vanishes, server, history, OneThing
  <2>2. CASE UNCHANGED <<phase, calls>> /\ attempt' = attempt
    BY <1>2, <2>1, <2>2 DEF OneThing
  <2>3. ASSUME NEW kind \in {"confirm", "sync"}, calls' = calls \union {Ask(kind, w.order, None)},
               phase' = At(PhaseOfCall[kind], w.order)
        PROVE  OneThing'
    <3>1. /\ calls' = {Ask(kind, w.order, None)} /\ phase'.kind = PhaseOfCall[kind]
          /\ phase'.order = w.order /\ PhaseOfCall[kind] \in {"confirming", "checking"}
      BY <2>1, <2>3, PhasesOfCalls DEF At
    <3>. QED
      BY <1>7, <2>1, <3>1
  <2>. QED
    BY <1>13, <2>2, <2>3, PhasesOfCalls
    DEF Succeeds, Confirms, Dismissed, AfterClose, Vanishes, pay
<1>14. CASE Watchdog
  <2>. DEFINE o == attempt.order
  <2>1. /\ phase.kind = "paying" /\ phase.order = o /\ calls = {} /\ windows = {}
        /\ UNCHANGED <<charged, told, windows>>
        /\ \A p \in charged \ told : p = o
    BY <1>2, <1>3, <1>14 DEF Watchdog, Unseen, server, history, OneThing
  <2>2. calls' = {Ask("sync", o, None)} /\ phase' = At("checking", o)
    BY <1>14, <2>1 DEF Watchdog, AfterClose
  <2>3. phase'.kind = PhaseOfCall["sync"] /\ phase'.kind = "checking" /\ phase'.order = o
    BY <2>2, PhasesOfCalls DEF At
  <2>. QED
    BY <1>7, <2>1, <2>2, <2>3
<1>15. ASSUME NEW c \in calls, Confirmed(c) \/ Synced(c)
       PROVE  OneThing'
  <2>1. /\ calls' = {} /\ windows' = {} /\ UNCHANGED charged
        /\ \A p \in charged \ told : p = c.order
        /\ c.answer # "lost" /\ (c.answer = "pending" => c.order \notin charged)
    BY <1>2, <1>3, <1>15, PhasesOfCalls DEF Confirmed, Synced, server, OneThing
  <2>2. CASE Done(c)
    <3>1. phase'.kind = "done" /\ charged' \subseteq told'
      BY <2>1, <2>2 DEF Done
    <3>. QED
      BY <1>6, <2>1, <3>1
  <2>3. CASE c.answer = "pending" /\ phase' = At("dismissed", c.order) /\ UNCHANGED told
    <3>1. phase'.kind = "dismissed" /\ charged' \subseteq told'
      BY <2>1, <2>3 DEF At
    <3>. QED
      BY <1>6, <2>1, <3>1
  <2>. QED
    BY <1>15, <2>1, <2>2, <2>3 DEF Confirmed, Synced, OffersAgain
<1>16. CASE StartOver
  <2>1. phase.kind = "done"
    BY <1>16 DEF StartOver, Screen, Finished
  <2>2. /\ calls = {} /\ windows = {} /\ charged \subseteq told /\ phase' = At("choose", None)
        /\ UNCHANGED <<calls, windows, charged, told>>
    BY <1>3, <1>16, <2>1 DEF StartOver, server, history
  <2>3. phase'.kind = "choose"
    BY <2>2 DEF At
  <2>. QED
    BY <1>6, <2>2, <2>3
<1>17. CASE RetryConfirm
  BY <1>2, <1>17 DEF RetryConfirm, OneThing
<1>18. CASE (\E c \in calls : Lose(c)) \/ (\E w \in windows : Hides(w))
  BY <1>2, <1>18 DEF Lose, Hides
<1>19. CASE \/ \E o \in Orders : Webhook(o) \/ Tick(o) \/ Cancel(o)
            \/ \E n \in 0..Seats : Others(n)
            \/ Refresh
            \/ \E i \in Slots : ServeRead(i) \/ Arrives(i) \/ ReadFails(i)
            \/ \E f \in Forms : ChooseForm(f)
            \/ ChooseDate \/ Quoted
            \/ UNCHANGED vars
  <2>1. UNCHANGED <<charged, told, windows, calls, phase, attempt>>
    BY <1>19
    DEF Webhook, Tick, Cancel, Others, Refresh, ServeRead, Arrives, ReadFails, ChooseForm,
        ChooseDate, Quoted, vars, server, pay, history
  <2>. QED
    BY <1>4, <2>1
<1>. QED
  BY <1>5, <1>8, <1>9, <1>10, <1>11, <1>12, <1>13, <1>14, <1>15, <1>16, <1>17, <1>18, <1>19
  DEF Next, Serve, Ordered, Loaded, WindowEnds

\* What the visitor was told of was ordered, and stays known.
LEMMA ToldStep ==
  ASSUME BaseInv, ToldKnown, [Next]_vars
  PROVE  ToldKnown'
<1>1. \A o : Known(o) => Known(o)'
  BY ApiStep, TypeParts DEF BaseInv, Known, StatusMoves
<1>2. ASSUME UNCHANGED told
      PROVE  ToldKnown'
  BY <1>1, <1>2 DEF ToldKnown
<1>3. ASSUME NEW c \in calls, Confirmed(c) \/ Synced(c)
      PROVE  ToldKnown'
  <2>1. Known(c.order)
    BY <1>3 DEF Confirmed, Synced, BaseInv, KnownOrders, CallRight
  <2>2. told' \subseteq told \union {c.order}
    BY <1>3 DEF Confirmed, Synced, Done
  <2>. QED
    BY <1>1, <2>1, <2>2 DEF ToldKnown
<1>4. CASE \/ \E o \in Orders : Webhook(o) \/ Tick(o) \/ Cancel(o) \/ WindowEnds(o)
           \/ \E n \in 0..Seats : Others(n)
           \/ Refresh
           \/ \E i \in Slots : ServeRead(i) \/ Arrives(i) \/ ReadFails(i)
           \/ \E f \in Forms : ChooseForm(f)
           \/ ChooseDate \/ Quoted \/ Pay \/ Watchdog \/ RetryConfirm \/ StartOver
           \/ Serve({"create", "confirm", "sync"}) \/ Ordered \/ Loaded
           \/ \E c \in calls : Lose(c)
           \/ \E w \in windows : PayIn(w) \/ Hides(w)
           \/ UNCHANGED vars
  <2>1. UNCHANGED told
    BY <1>4
    DEF Webhook, Tick, Cancel, WindowEnds, Succeeds, Dismissed, Vanishes, Others, Refresh,
        ServeRead, Arrives, ReadFails, ChooseForm, ChooseDate, Quoted, Pay, Watchdog,
        RetryConfirm, StartOver, Serve, ServeCreate, ServeOutcome, Ordered, OrderMade,
        OrderFull, OrderRefused, Loaded, Opens, OpenFails, Lose, PayIn, Hides, vars, history
  <2>. QED
    BY <1>2, <2>1
<1>. QED
  BY <1>3, <1>4 DEF Next

\* The order that is about to be paid is a new one, or one that was let go of
\* unpaid.
LEMMA FreshStep ==
  ASSUME BaseInv, ToldKnown, OneThing, Fresh, [Next]_vars, troubles = 0, troubles' = 0
  PROVE  Fresh'
<1>0. /\ windows \subseteq Window /\ calls \subseteq Call
      /\ \A o \in charged \union told : Known(o)
  BY TypeParts DEF BaseInv, LinkType, KnownOrders, ToldKnown
<1>1. /\ phase.kind \notin {"starting", "opening", "confirming", "checking"} => calls = {}
      /\ phase.kind # "paying" => windows = {}
      /\ phase.kind \notin {"paying", "checking", "confirming"} => charged \subseteq told
      /\ \A c \in calls : phase.kind = PhaseOfCall[c.kind] /\ calls = {c}
      /\ \A w \in windows : windows = {w}
  BY AloneIs
<1>. DEFINE New(c) == c.kind = "load" \/ c.answer = "made" => c.order \notin charged \union told
<1>2. ASSUME UNCHANGED <<charged, told, twice>>,
             windows' \subseteq windows, lastOrder' \in {lastOrder, None},
             \A c \in calls' : c \in calls \/ New(c)
      PROVE  Fresh'
  BY <1>2 DEF Fresh
<1>3. ASSUME NEW c \in calls, ServeCreate(c)
      PROVE  Fresh'
  <2>1. /\ c.kind = "create" /\ c \in Call /\ UNCHANGED <<charged, told, twice, windows, lastOrder>>
    BY <1>0, <1>3 DEF ServeCreate, pay, history
  <2>2. \/ \E o \in Orders : /\ status[o] = "none"
                             /\ calls' = (calls \ {c}) \union {[c EXCEPT !.answer = "made", !.order = o]}
        \/ \E a \in {"full", "refused"} : Answered(c, a)
    BY <1>3 DEF ServeCreate
  <2>3. ASSUME NEW a \in {"full", "refused"}, Answered(c, a)
        PROVE  Fresh'
    <3>. DEFINE d == [c EXCEPT !.answer = a]
    <3>1. d.kind = "create" /\ d.answer = a
      BY <2>1 DEF Call
    <3>2. calls' = (calls \ {c}) \union {d}
      BY <2>3 DEF Answered
    <3>. HIDE DEF d
    <3>. QED
      BY <1>2, <2>1, <3>1, <3>2
  <2>4. ASSUME NEW o \in Orders, status[o] = "none",
               calls' = (calls \ {c}) \union {[c EXCEPT !.answer = "made", !.order = o]}
        PROVE  Fresh'
    <3>. DEFINE d == [c EXCEPT !.answer = "made", !.order = o]
    <3>1. d.order = o
      BY <2>1 DEF Call
    <3>2. calls' = (calls \ {c}) \union {d}
      BY <2>4
    <3>3. o \notin charged \union told
      BY <1>0, <2>4 DEF Known
    <3>. HIDE DEF d
    <3>. QED
      BY <1>2, <2>1, <3>1, <3>2, <3>3
  <2>. QED
    BY <2>2, <2>3, <2>4
<1>4. ASSUME NEW c \in calls, ServeOutcome(c)
      PROVE  Fresh'
  <2>1. c.kind \in {"confirm", "sync"} /\ c \in Call
        /\ UNCHANGED <<charged, told, twice, windows, lastOrder>>
    BY <1>0, <1>4 DEF ServeOutcome, pay, history
  <2>2. PICK a : Answered(c, a) /\ a # "made"
    BY <1>4, ServeOutcomeMoves
  <2>. DEFINE d == [c EXCEPT !.answer = a]
  <2>3. d.kind = c.kind /\ d.answer = a
    BY <2>1 DEF Call
  <2>4. calls' = (calls \ {c}) \union {d}
    BY <2>2 DEF Answered
  <2>. HIDE DEF d
  <2>. QED
    BY <1>2, <2>1, <2>2, <2>3, <2>4
<1>5. CASE Pay
  <2>1. /\ charged \subseteq told /\ UNCHANGED <<charged, told, twice, windows, lastOrder>>
    BY <1>1, <1>5 DEF Pay, CanPay, server, history
  <2>2. CASE Reuses
    <3>1. lastOrder.order \notin charged \union told
      BY <2>1, <2>2 DEF Fresh, Reuses
    <3>2. calls' = calls \union {Ask("load", lastOrder.order, None)}
      BY <1>5, <2>2 DEF Pay
    <3>. QED
      BY <1>2, <2>1, <3>1, <3>2 DEF Ask
  <2>3. CASE ~ Reuses
    <3>1. calls' = calls \union {Ask("create", None, form)}
      BY <1>5, <2>3 DEF Pay
    <3>. QED
      BY <1>2, <2>1, <3>1 DEF Ask
  <2>. QED
    BY <2>2, <2>3
<1>6. ASSUME NEW c \in calls, OrderMade(c)
      PROVE  Fresh'
  <2>1. /\ c.order \notin charged \union told /\ UNCHANGED <<charged, told, twice, windows>>
        /\ calls' = (calls \ {c}) \union {Ask("load", c.order, None)}
        /\ lastOrder' = [order |-> c.order, form |-> c.form]
    BY <1>6 DEF OrderMade, Fresh, server, history
  <2>2. lastOrder'.order = c.order /\ Ask("load", c.order, None).order = c.order
    BY <2>1 DEF Ask
  <2>. QED
    BY <2>1, <2>2 DEF Fresh
<1>7. ASSUME NEW c \in calls, Opens(c)
      PROVE  Fresh'
  <2>1. /\ c.order \notin charged /\ calls' \subseteq calls
        /\ windows' = windows \union {[order |-> c.order, shown |-> TRUE, paid |-> FALSE]}
        /\ UNCHANGED <<charged, told, twice, lastOrder>>
    BY <1>7 DEF Opens, Fresh, server, history
  <2>. QED
    BY <2>1 DEF Fresh
<1>8. ASSUME NEW w \in windows, PayIn(w)
      PROVE  Fresh'
  <2>. DEFINE v == [w EXCEPT !.paid = TRUE]
  <2>1. calls = {} /\ windows = {w} /\ w.order \notin charged /\ ~ w.paid
    BY <1>0, <1>1, <1>8 DEF PayIn, Fresh, OneThing
  <2>2. v.paid /\ windows' = {v}
    BY <1>0, <1>8, <2>1 DEF PayIn, Window
  <2>. HIDE DEF v
  <2>3. twice' = {} /\ UNCHANGED <<calls, told, lastOrder>>
    BY <1>8, <2>1 DEF PayIn, Fresh, pay
  <2>. QED
    BY <2>1, <2>2, <2>3 DEF Fresh
<1>9. ASSUME NEW c \in calls, Confirmed(c) \/ Synced(c)
      PROVE  Fresh'
  <2>1. calls' = {} /\ windows' = {} /\ UNCHANGED <<charged, twice>>
    BY <1>1, <1>9, PhasesOfCalls DEF Confirmed, Synced, server
  <2>2. lastOrder' = None \/ UNCHANGED <<lastOrder, told>>
    BY <1>9 DEF Confirmed, Synced, Done
  <2>. QED
    BY <2>1, <2>2 DEF Fresh
<1>10. ASSUME NEW kind \in {"confirm", "sync"}, NEW o,
              calls' \subseteq calls \union {Ask(kind, o, None)}, windows' \subseteq windows,
              UNCHANGED <<charged, told, twice, lastOrder>>
       PROVE  Fresh'
  BY <1>2, <1>10 DEF Ask
<1>11. ASSUME NEW w \in windows, Succeeds(w) \/ Dismissed(w) \/ Vanishes(w)
       PROVE  Fresh'
  <2>1. windows' \subseteq windows /\ UNCHANGED <<charged, told, twice, lastOrder>>
    BY <1>11 DEF Succeeds, Dismissed, Vanishes, server, pay, history
  <2>2. \E kind \in {"confirm", "sync"} : calls' \subseteq calls \union {Ask(kind, w.order, None)}
    BY <1>11 DEF Succeeds, Confirms, Dismissed, AfterClose, Vanishes
  <2>. QED
    BY <1>10, <2>1, <2>2
<1>12. CASE Watchdog \/ RetryConfirm
  <2>1. UNCHANGED <<windows, charged, told, twice, lastOrder>>
    BY <1>12 DEF Watchdog, RetryConfirm, server, history
  <2>2. \E kind \in {"confirm", "sync"} : \E o : calls' \subseteq calls \union {Ask(kind, o, None)}
    BY <1>12 DEF Watchdog, AfterClose, RetryConfirm, Confirms
  <2>. QED
    BY <1>10, <2>1, <2>2
<1>13. CASE (\E c \in calls : Lose(c)) \/ (\E w \in windows : Hides(w))
  BY <1>13 DEF Lose, Hides
<1>14. CASE \/ \E o \in Orders : Webhook(o) \/ Tick(o) \/ Cancel(o)
            \/ \E n \in 0..Seats : Others(n)
            \/ Refresh
            \/ \E i \in Slots : ServeRead(i) \/ Arrives(i) \/ ReadFails(i)
            \/ \E f \in Forms : ChooseForm(f)
            \/ ChooseDate \/ Quoted \/ StartOver
            \/ \E c \in calls : OrderFull(c) \/ OrderRefused(c) \/ OpenFails(c)
            \/ UNCHANGED vars
  <2>1. /\ calls' \subseteq calls /\ lastOrder' \in {lastOrder, None}
        /\ UNCHANGED <<charged, told, twice, windows>>
    BY <1>14
    DEF Webhook, Tick, Cancel, Others, Refresh, ServeRead, Arrives, ReadFails, ChooseForm,
        ChooseDate, Quoted, StartOver, OrderFull, OrderRefused, OpenFails, vars, server, pay,
        history
  <2>. QED
    BY <1>2, <2>1
<1>. QED
  BY <1>3, <1>4, <1>5, <1>6, <1>7, <1>8, <1>9, <1>11, <1>12, <1>13, <1>14
  DEF Next, Serve, Ordered, Loaded, WindowEnds

LEMMA SessionStep ==
  ASSUME BaseInv, SessionInv, [Next]_vars
  PROVE  SessionInv'
<1>0. troubles \in Nat
  BY TypeParts DEF BaseInv, PastType
<1>1. troubles' = troubles \/ troubles' = troubles + 1
  BY DEF Next, Webhook, Tick, Cancel, WindowEnds, Succeeds, Dismissed, Vanishes, Others, Refresh,
     ServeRead, Arrives, ReadFails, ChooseForm, ChooseDate, Quoted, Pay, Watchdog, RetryConfirm,
     StartOver, Serve, ServeCreate, ServeOutcome, Ordered, OrderMade, OrderFull, OrderRefused,
     Loaded, Opens, OpenFails, Confirmed, Synced, Lose, PayIn, Hides, vars, history
<1>2. troubles' > 0 \/ (troubles = 0 /\ troubles' = 0)
  BY <1>0, <1>1
<1>3. CASE troubles = 0 /\ troubles' = 0
  <2>1. OneThing /\ Fresh
    BY <1>3 DEF SessionInv
  <2>. QED
    BY <1>3, <2>1, OneThingStep, FreshStep, ToldStep DEF SessionInv
<1>. QED
  BY <1>2, <1>3, ToldStep DEF SessionInv

\* Unless a call was lost or a window hid, the sheet never takes money twice for
\* one order, nor for two before it has said what became of the first.
THEOREM PaysOnce == Spec => []PaidTwiceOnlyAfterTrouble
<1>1. Init => SessionInv
  BY DEF Init, SessionInv, ToldKnown, OneThing, Fresh, At
<1>2. BaseInv /\ SessionInv /\ [Next]_vars => SessionInv'
  BY SessionStep
<1>3. SessionInv => PaidTwiceOnlyAfterTrouble
  BY DEF SessionInv, OneThing, Fresh, PaidTwiceOnlyAfterTrouble
<1>. QED
  BY <1>1, <1>2, <1>3, BaseInit, BaseStep, PTL DEF Spec

=============================================================================
