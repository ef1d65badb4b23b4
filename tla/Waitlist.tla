------------------------------ MODULE Waitlist ------------------------------
(***************************************************************************)
(* The waitlist of one departure (services/booking/waitlist.py): joining a *)
(* sold-out date, the walk that offers freed seats down the list, the      *)
(* claim that turns an offer into a pending booking (orders.py), and what  *)
(* the capture, the desk and a refusal of Razorpay do to it.               *)
(*                                                                         *)
(* Everything is decided under the departure's row lock and is one step;   *)
(* joining and booking walk the list first in a transaction of their own,  *)
(* so others come between.  Time is counted in coarse ticks: offers and    *)
(* holds end by themselves when the clock passes their end.  Package and   *)
(* prices stay on sale; e-mails (mail_due) are left out.                   *)
(***************************************************************************)
EXTENDS Integers, FiniteSets, FiniteSetsExt

CONSTANTS
  People,     (* the e-mail addresses, each joining once at most            *)
  Party,      (* person -> the party size it waits with                     *)
  Sizes,      (* the party sizes people book                                *)
  Capacity,   (* seats_total                                                *)
  Bookings,   (* these people's bookings, numbered as they come             *)
  OfferFor,   (* OFFER_FOR: how long an offer lasts                         *)
  MinOffer,   (* MIN_OFFER: none goes out with less left                    *)
  MaxOffers,  (* MAX_AUTO_OFFERS                                            *)
  HoldFor,    (* HOLD of an ordinary booking                                *)
  LastJoin,   (* the last moment joining is open                            *)
  MaxCalls,   (* bound: the people's requests in flight at a time           *)
  Cutoff,     (* the web stops booking the date, and the list closes        *)
  None

ASSUME WaitlistAssumption ==
  /\ IsFiniteSet(People) /\ IsFiniteSet(Bookings)
  /\ Party \in [People -> Nat \ {0}] /\ Sizes \subseteq Nat \ {0} /\ Capacity \in Nat
  /\ Bookings \subseteq Nat /\ None \notin Bookings
  /\ {OfferFor, MinOffer, HoldFor} \subseteq Nat \ {0}
  /\ {MaxOffers, MaxCalls} \subseteq Nat /\ LastJoin \in 0..Cutoff /\ Cutoff \in Nat

VARIABLES
  now,       (* the database's clock                                        *)
  entry,     (* person -> its waitlist_entries row                          *)
  ahead,     (* the pairs of live places, the one by position before the    *)
             (* other                                                       *)
  booking,   (* booking -> its row, and whether its order can be paid       *)
  call,      (* person -> its request to join or to book, between two of    *)
             (* its transactions                                            *)
  others     (* seats other people's bookings have                          *)

vars == <<now, entry, ahead, booking, call, others>>

NoEntry == [state |-> "none", offers |-> 0, ends |-> 0, booking |-> None]
NoBooking == [person |-> None, party |-> 0, status |-> "none", until |-> 0, open |-> FALSE]
NoCall == [at |-> "none", claim |-> 0, booking |-> None, released |-> [i \in {} |-> 0]]

LiveStates == {"waiting", "offered", "claimed"}
Listed(e) == {p \in People : e[p].state \in LiveStates}

\* A row that left the list: booked, removed or closed.
Left == [NoEntry EXCEPT !.state = "left"]

\* A hold that has ended; when it did no longer matters.
Ended(row) == [row EXCEPT !.until = 0]

-----------------------------------------------------------------------------
(* Seats: what departure_availability counts, of entries e, bookings b and  *)
(* others' seats o.                                                         *)

HoldLive(row) == row.status = "pending" /\ row.until > now

Parties(S) == MapThenSumSet(LAMBDA p : Party[p], S)

SeatsLeft(e, b, o) ==
  Capacity - o
  - MapThenSumSet(LAMBDA i : b[i].party,
                  {i \in Bookings : b[i].status = "confirmed" \/ HoldLive(b[i])})
  - Parties({p \in People : e[p].state = "offered" /\ e[p].ends > now})

\* The seats the view holds for p, which its own claim may use.
HeldFor(e, b, p) ==
  CASE e[p].state = "offered" /\ e[p].ends > now -> Party[p]
    [] e[p].state = "claimed" /\ HoldLive(b[e[p].booking]) -> b[e[p].booking].party
    [] OTHER -> 0

-----------------------------------------------------------------------------
(* The walk, on a list l: [entry, ahead].                                   *)

TheList == [entry |-> entry, ahead |-> ahead]

\* When an offer made now ends, and whether one may still go out.
OfferEnds == IF now + OfferFor < Cutoff THEN now + OfferFor ELSE Cutoff
OffersOpen == OfferEnds - now >= MinOffer

Leaves(l, gone) ==
  [entry |-> [p \in People |-> IF p \in gone THEN Left ELSE l.entry[p]],
   ahead |-> {a \in l.ahead : a[1] \notin gone /\ a[2] \notin gone}]

Waits(row) == [row EXCEPT !.state = "waiting", !.ends = 0, !.booking = None]

\* The order in which places lapse: offers by their end, then claims, and by
\* position.
Sooner(l, p, q) ==
  \/ l.entry[p].state = "offered" /\ l.entry[q].state = "claimed"
  \/ l.entry[p].state = l.entry[q].state
     /\ IF l.entry[p].state = "offered" /\ l.entry[p].ends # l.entry[q].ends
        THEN l.entry[p].ends < l.entry[q].ends
        ELSE <<p, q>> \in l.ahead

\* Mutant of ToBack: the old position stays beside the new one.
KeepsItsPlace(l, back) ==
  [entry |-> [p \in People |-> IF p \in back THEN Waits(l.entry[p]) ELSE l.entry[p]],
   ahead |-> l.ahead \union ((Listed(l.entry) \ back) \X back)]

\* _to_back: waiting again, behind everyone, as they lapsed.
ToBack(l, back) ==
  [entry |-> [p \in People |-> IF p \in back THEN Waits(l.entry[p]) ELSE l.entry[p]],
   ahead |-> {a \in l.ahead : a[1] \notin back /\ a[2] \notin back}
             \union ((Listed(l.entry) \ back) \X back)
             \union {a \in back \X back : Sooner(l, a[1], a[2])}]

\* Offers past their end, and claims that are neither paid nor held.
Lapsed(l, b) ==
  {p \in People : \/ l.entry[p].state = "offered" /\ l.entry[p].ends <= now
                  \/ /\ l.entry[p].state = "claimed"
                     /\ b[l.entry[p].booking].status # "confirmed"
                     /\ ~ HoldLive(b[l.entry[p].booking])}

Paid(l, b) ==
  {p \in People : l.entry[p].state = "claimed" /\ b[l.entry[p].booking].status = "confirmed"}

Offered(row, ends) == [row EXCEPT !.state = "offered", !.offers = @ + 1, !.ends = ends]

\* Mutant of OfferDown: a party that does not fit stops the walk.
OfferDownBlocked(l, lapsed, free) ==
  LET May(p) == /\ l.entry[p].state = "waiting" /\ p \notin lapsed
                /\ l.entry[p].offers < MaxOffers
      Before(p) == {q \in People : May(q) /\ <<q, p>> \in l.ahead}
      given == {p \in People : May(p) /\ Parties(Before(p)) + Party[p] <= free}
  IN [l EXCEPT !.entry = [p \in People |-> IF p \in given THEN Offered(l.entry[p], OfferEnds)
                                           ELSE l.entry[p]]]

\* The free seats down the list: the first party that fits gets them, a bigger
\* one keeps its place; who lapsed in this walk, or had its offers, is skipped.
OfferDown(l, lapsed, free) ==
  LET May(p) == /\ l.entry[p].state = "waiting" /\ p \notin lapsed
                /\ l.entry[p].offers < MaxOffers
      Before(p, G) == {q \in G : <<q, p>> \in l.ahead}
      given == CHOOSE G \in SUBSET People : \A p \in People :
                 p \in G <=> May(p) /\ Parties(Before(p, G)) + Party[p] <= free
  IN [l EXCEPT !.entry = [p \in People |-> IF p \in given THEN Offered(l.entry[p], OfferEnds)
                                           ELSE l.entry[p]]]

\* Mutant of Walk: the list is closed before the lapses.
WalkClosesFirst(l, b, o) ==
  LET back == Lapsed(l, b)
      rest == ToBack(Leaves(l, Paid(l, b)), back)
  IN CASE now >= Cutoff ->
            ToBack(Leaves(l, {p \in People : l.entry[p].state = "waiting"}), back)
       [] now < Cutoff /\ OffersOpen ->
            OfferDown(rest, back, SeatsLeft(rest.entry, b, o))
       [] OTHER -> rest

\* walk: the lapses, then the close or the offers.
Walk(l, b, o) ==
  LET back == Lapsed(l, b)
      rest == ToBack(Leaves(l, Paid(l, b)), back)
  IN CASE now >= Cutoff ->
            Leaves(rest, {p \in People : rest.entry[p].state = "waiting"})
       [] now < Cutoff /\ OffersOpen ->
            OfferDown(rest, back, SeatsLeft(rest.entry, b, o))
       [] OTHER -> rest

Becomes(l) == entry' = l.entry /\ ahead' = l.ahead

\* walk_departures by /cron/waitlist, or by any read of the list.
Tick == Becomes(Walk(TheList, booking, others)) /\ UNCHANGED <<now, booking, call, others>>

-----------------------------------------------------------------------------
(* Requests.  Each walks first, committed, before its own transaction.      *)

\* at: join or order; claim: the offer number of the link used, or 0.
Asks(p, at, claim) ==
  /\ call[p] = NoCall /\ Cardinality({q \in People : call[q] # NoCall}) < MaxCalls
  /\ at = "join" => entry[p].state = "none" /\ claim = 0
  /\ at = "order" /\ claim # 0 => claim = entry[p].offers
  /\ Becomes(Walk(TheList, booking, others))
  /\ call' = [call EXCEPT ![p] = [NoCall EXCEPT !.at = at, !.claim = claim]]
  /\ UNCHANGED <<now, booking, others>>

\* join, after its walk; refused when the party's seats are free.
Join(p) ==
  /\ call[p].at = "join"
  /\ now <= LastJoin /\ SeatsLeft(entry, booking, others) < Party[p]
  /\ entry' = [entry EXCEPT ![p].state = "waiting"]
  /\ ahead' = ahead \union (Listed(entry) \X {p})
  /\ call' = [call EXCEPT ![p] = NoCall]
  /\ UNCHANGED <<now, booking, others>>

\* The request is refused, or its process ends.
Drop(p) ==
  /\ call[p] # NoCall /\ call' = [call EXCEPT ![p] = NoCall]
  /\ UNCHANGED <<now, entry, ahead, booking, others>>

\* Mutant of Replaced: a claim's hold is not kept.
ReplacedAll(p, claim) == {i \in Bookings : booking[i].person = p /\ HoldLive(booking[i])}

\* _release_holds: the holds a new order of p ends; a claim's hold is kept,
\* unless the order claims again.
Replaced(p, claim) ==
  {i \in Bookings : /\ booking[i].person = p /\ HoldLive(booking[i])
                    /\ entry[p].state = "claimed" /\ entry[p].booking = i => claim # 0}

\* claim_for_order: the newest link, while its offer runs.
ClaimLive(p, claim) ==
  claim = entry[p].offers /\ entry[p].state \in {"offered", "claimed"} /\ entry[p].ends > now

\* create_booking_order's hold: n seats, for ten minutes or for what is left of
\* the offer.
Order(p, n) ==
  LET claim == call[p].claim
      gone == Replaced(p, claim)
      ended == [i \in Bookings |-> IF i \in gone THEN Ended(booking[i])
                                   ELSE booking[i]]
      seats == SeatsLeft(entry, ended, others)
               + (IF claim # 0 THEN HeldFor(entry, ended, p) ELSE 0)
  IN /\ call[p].at = "order" /\ (claim # 0 => ClaimLive(p, claim))
     /\ now < Cutoff /\ n <= seats
     /\ \E i \in Bookings :
          /\ booking[i] = NoBooking /\ \A j \in Bookings : j < i => booking[j] # NoBooking
          /\ booking' = [ended EXCEPT ![i] =
               [person |-> p, party |-> n, status |-> "pending", open |-> FALSE,
                until |-> IF claim # 0 THEN entry[p].ends ELSE now + HoldFor]]
          /\ entry' = IF claim = 0 THEN entry
                      ELSE [entry EXCEPT ![p].state = "claimed", ![p].booking = i]
          /\ call' = [call EXCEPT ![p] =
               [at |-> "opening", claim |-> claim, booking |-> i,
                released |-> [j \in gone |-> booking[j].until]]]
     /\ UNCHANGED <<now, ahead, others>>

\* Razorpay opened the order; a claim walks again, for a smaller party's seats.
Opened(p) ==
  /\ call[p].at = "opening"
  /\ booking' = [booking EXCEPT ![call[p].booking].open = TRUE]
  /\ IF call[p].claim # 0 THEN Becomes(Walk(TheList, booking, others))
     ELSE UNCHANGED <<entry, ahead>>
  /\ call' = [call EXCEPT ![p] = NoCall]
  /\ UNCHANGED <<now, others>>

\* Mutant of Unclaim: the offer is given back whatever its seats.
UnclaimUnseated(l, b, o, i) ==
  LET claims == {p \in People : l.entry[p].state = "claimed" /\ l.entry[p].booking = i}
      stands == {p \in claims : l.entry[p].ends > now}
  IN ToBack([l EXCEPT !.entry = [p \in People |->
               IF p \in stands THEN [l.entry[p] EXCEPT !.state = "offered", !.booking = None]
               ELSE l.entry[p]]],
            claims \ stands)

\* unclaim: the offer back while it runs and its seats are free.
Unclaim(l, b, o, i) ==
  LET claims == {p \in People : l.entry[p].state = "claimed" /\ l.entry[p].booking = i}
      stands == {p \in claims : l.entry[p].ends > now /\ SeatsLeft(l.entry, b, o) >= Party[p]}
  IN ToBack([l EXCEPT !.entry = [p \in People |->
               IF p \in stands THEN [l.entry[p] EXCEPT !.state = "offered", !.booking = None]
               ELSE l.entry[p]]],
            claims \ stands)

\* _undo_hold, when Razorpay refuses: the hold ends, the claim is undone, and
\* each hold it replaced comes back if its clock runs and its seats are free.
\* In whatever order they are tried, no other of them fits beside those (R) that
\* came back.
Refused(p) ==
  LET i == call[p].booking
      old == call[p].released
      ended == IF booking[i].status = "pending"
               THEN [booking EXCEPT ![i] = Ended(@)] ELSE booking
      l == Unclaim(TheList, ended, others, i)
      able == {j \in DOMAIN old : /\ ended[j].status = "pending" /\ ~ HoldLive(ended[j])
                                  /\ old[j] > now}
      Fit(R) == MapThenSumSet(LAMBDA j : ended[j].party, R) <= SeatsLeft(l.entry, ended, others)
  IN /\ call[p].at = "opening"
     /\ \E R \in SUBSET able :
          /\ R = {} \/ Fit(R)
          /\ \A j \in able \ R : ~ Fit(R \union {j})
          /\ booking' = [j \in Bookings |-> IF j \in R THEN [ended[j] EXCEPT !.until = old[j]]
                                            ELSE ended[j]]
     /\ Becomes(l)
     /\ call' = [call EXCEPT ![p] = NoCall]
     /\ UNCHANGED <<now, others>>

-----------------------------------------------------------------------------
(* What else touches the list or its seats.                                 *)

\* mark_booked: this person's place on the date is done.
Booked(l, p) == IF l.entry[p].state \in LiveStates THEN Leaves(l, {p}) ELSE l

\* settle_capture: the seats are the booking's own while its hold runs, else
\* they must be free.
Capture(i) ==
  /\ booking[i].open /\ booking[i].status = "pending"
  /\ IF HoldLive(booking[i]) \/ booking[i].party <= SeatsLeft(entry, booking, others)
     THEN /\ booking' = [booking EXCEPT ![i] = [NoBooking EXCEPT !.status = "confirmed",
                                                                 !.party = booking[i].party]]
          /\ Becomes(Booked(TheList, booking[i].person))
     ELSE /\ booking' = [booking EXCEPT ![i] = [NoBooking EXCEPT !.status = "cancelled"]]
          /\ UNCHANGED <<entry, ahead>>
  /\ UNCHANGED <<now, call, others>>

Freed(b, o) == Becomes(Walk(TheList, b, o)) /\ booking' = b /\ others' = o
               /\ UNCHANGED <<now, call>>

\* The desk releases a hold, or a paid booking is cancelled: seats free, and the
\* list is walked before the commit.
Cancel(i) ==
  /\ booking[i].status \in {"pending", "confirmed"}
  /\ Freed([booking EXCEPT ![i] = [NoBooking EXCEPT !.status = "cancelled"]], others)

\* Other people's bookings are cancelled, or take free seats.
OthersCancel(n) == n \in 1..others /\ Freed(booking, others - n)
OthersBook(n) ==
  /\ now < Cutoff /\ n \in 1..SeatsLeft(entry, booking, others)
  /\ others' = others + n
  /\ UNCHANGED <<now, entry, ahead, booking, call>>

\* owner_remove: its offer's seats go down the list at once.
OwnerRemove(p) ==
  LET l == Walk(TheList, booking, others)
  IN /\ l.entry[p].state \in LiveStates
     /\ Becomes(Walk(Leaves(l, {p}), booking, others))
     /\ UNCHANGED <<now, booking, call, others>>

\* owner_offer: out of order, and past the automatic offers.
OwnerOffer(p) ==
  LET l == Walk(TheList, booking, others)
  IN /\ l.entry[p].state = "waiting" /\ now < Cutoff /\ OffersOpen
     /\ Party[p] <= SeatsLeft(l.entry, booking, others)
     /\ l.entry[p].offers <= MaxOffers  \* bound: one offer by hand past them
     /\ Becomes([l EXCEPT !.entry[p] = Offered(@, OfferEnds)])
     /\ UNCHANGED <<now, booking, call, others>>

Time ==
  /\ now < Cutoff /\ now' = now + 1
  /\ booking' = [i \in Bookings |-> IF booking[i].until > now + 1 THEN booking[i]
                                     ELSE Ended(booking[i])]
  /\ UNCHANGED <<entry, ahead, call, others>>

-----------------------------------------------------------------------------
\* A date that sold out to others.
Init ==
  /\ now = 0
  /\ entry = [p \in People |-> NoEntry] /\ ahead = {}
  /\ booking = [i \in Bookings |-> NoBooking]
  /\ call = [p \in People |-> NoCall]
  /\ others = Capacity

Next ==
  \/ Tick \/ Time
  \/ \E p \in People :
       \/ Asks(p, "join", 0) \/ \E c \in {0, entry[p].offers} : Asks(p, "order", c)
       \/ Join(p) \/ \E n \in Sizes : Order(p, n)
       \/ Opened(p) \/ Refused(p) \/ Drop(p)
       \/ OwnerRemove(p) \/ OwnerOffer(p)
  \/ \E i \in Bookings : Capture(i) \/ Cancel(i)
  \/ \E n \in 1..Capacity : OthersCancel(n) \/ OthersBook(n)

Spec == Init /\ [][Next]_vars

-----------------------------------------------------------------------------
(* Properties.                                                              *)

\* One position each.
InOrder(S, before) ==
  /\ \A p, q \in S : p # q => (<<p, q>> \in before \/ <<q, p>> \in before)
  /\ \A p, q \in S : <<p, q>> \in before => <<q, p>> \notin before
  /\ \A p, q, s \in S : <<p, q>> \in before /\ <<q, s>> \in before => <<p, s>> \in before

TypeOK ==
  /\ now \in 0..Cutoff /\ others \in 0..Capacity
  /\ entry \in [People -> [state : LiveStates \union {"none", "left"},
                           offers : 0..(MaxOffers + 1), ends : 0..Cutoff,
                           booking : Bookings \union {None}]]
  /\ ahead \subseteq Listed(entry) \X Listed(entry) /\ InOrder(Listed(entry), ahead)
  /\ booking \in [Bookings -> [person : People \union {None}, party : Sizes \union {0},
                               status : {"none", "pending", "confirmed", "cancelled"},
                               until : 0..(Cutoff + HoldFor), open : BOOLEAN]]
  /\ \A p \in People : call[p].at \in {"none", "join", "order", "opening"}

\* The seats sold, held and offered are never more than there are: a freed seat
\* is promised to one person of the list, or to one visitor.
NoSeatTwice == SeatsLeft(entry, booking, others) >= 0

\* While its offer runs, a claim nobody paid or ended still holds its seats: the
\* same person's other orders do not take them.
ClaimKeepsItsHold ==
  \A p \in People : entry[p].state = "claimed" /\ entry[p].ends > now =>
    HoldLive(booking[entry[p].booking])

\* Of the places the walk could offer seats to, none is passed over while its
\* party fits what was left when its turn came: neither for a later place nor
\* for nobody.  (By hand, the owner may.)
Walked == Tick \/ \E i \in Bookings : Cancel(i)
PassedOver(p) ==
  LET Behind == {q \in People : entry'[q].offers > entry[q].offers /\ <<p, q>> \in ahead'}
  IN /\ entry[p].state = "waiting" /\ entry'[p].state = "waiting"
     /\ entry[p].offers < MaxOffers /\ OffersOpen
     /\ Party[p] <= SeatsLeft(entry, booking, others)' + Parties(Behind)
ServedInOrder == [][\A p \in People : PassedOver(p) => ~ Walked]_vars

\* Nobody stays on the list of a date that is over: one walk after the cutoff
\* empties it, also of the offers and claims that ended only then.
ListEnds == [][now >= Cutoff /\ Listed(entry') # {} => ~ Walked]_vars

=============================================================================
