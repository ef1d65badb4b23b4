--------------------------- MODULE WaitlistProofs ---------------------------
(***************************************************************************)
(* Proofs about Waitlist: no seat is promised twice, a claim keeps its     *)
(* seats, the walk passes nobody over and ends the list with the date, for *)
(* every list, party and number of bookings.                               *)
(***************************************************************************)
EXTENDS Waitlist, Sums

-----------------------------------------------------------------------------
(* The inductive invariant.                                                 *)

EntryRow == [state : LiveStates \union {"none", "left"}, offers : 0..(MaxOffers + 1),
             ends : 0..Cutoff, booking : Bookings \union {None}]
BookingRow == [person : People \union {None}, party : Sizes \union {0},
               status : {"none", "pending", "confirmed", "cancelled"},
               until : 0..(Cutoff + HoldFor), open : BOOLEAN]
Entries == [People -> EntryRow]
Books == [Bookings -> BookingRow]
Olds == UNION {[R -> 0..(Cutoff + HoldFor)] : R \in SUBSET Bookings}
Calls == [People -> [at : {"none", "join", "order", "opening"}, claim : Nat,
                     booking : Bookings \union {None}, released : Olds]]

GoodList(l) ==
  /\ l = [entry |-> l.entry, ahead |-> l.ahead]
  /\ l.entry \in Entries
  /\ l.ahead \subseteq Listed(l.entry) \X Listed(l.entry) /\ InOrder(Listed(l.entry), l.ahead)

GoodBooks(b) == b \in Books /\ \A i \in Bookings : b[i].status = "pending" => b[i].person \in People

\* A claim has a booking of its own: its person's while it waits for money,
\* never a paid one, and with a hold that ends as the offer would.
ClaimRight(e, b, p) ==
  /\ e[p].booking \in Bookings
  /\ b[e[p].booking].status \in {"pending", "cancelled"}
  /\ b[e[p].booking].status = "pending" => b[e[p].booking].person = p
  /\ b[e[p].booking].until \in {0, e[p].ends}

ClaimsGood(e, b) ==
  /\ \A p \in People : e[p].state = "claimed" => ClaimRight(e, b, p)
  /\ \A p, q \in People : /\ e[p].state = "claimed" /\ e[q].state = "claimed"
                          /\ e[p].booking = e[q].booking
                          => p = q

LiveAt(t, row) == row.status = "pending" /\ row.until > t

ClaimsLive(t, e, b) ==
  \A p \in People : e[p].state = "claimed" /\ e[p].ends > t => LiveAt(t, b[e[p].booking])

\* Who asks to join is not on the list yet; a hold that a refused order may
\* give back exists, and is nobody's claim.
CallGood(r, p, e, b) ==
  /\ r.at = "join" => e[p].state = "none"
  /\ r.at = "opening" =>
       /\ r.booking \in Bookings
       /\ \A j \in DOMAIN r.released : b[j].status # "none"
       /\ \A q \in People : e[q].state = "claimed" => e[q].booking \notin DOMAIN r.released

CallsGood(c, e, b) == c \in Calls /\ \A p \in People : CallGood(c[p], p, e, b)

\* The seats bookings b hold at time t, and offers of entries e.
HoldSeats(t, b) ==
  [i \in Bookings |-> IF b[i].status = "confirmed" \/ LiveAt(t, b[i]) THEN b[i].party ELSE 0]
OfferSeats(t, e) ==
  [p \in People |-> IF e[p].state = "offered" /\ e[p].ends > t THEN Party[p] ELSE 0]
SeatsAt(t, e, b, o) ==
  Capacity - o - Sum(HoldSeats(t, b), Bookings) - Sum(OfferSeats(t, e), People)

\* What a walk needs, and what it leaves.
Ready(t, l, b, c, o) ==
  /\ t \in 0..Cutoff /\ o \in 0..Capacity
  /\ GoodList(l) /\ GoodBooks(b) /\ ClaimsGood(l.entry, b) /\ CallsGood(c, l.entry, b)
  /\ SeatsAt(t, l.entry, b, o) >= 0

Good(t, l, b, c, o) == Ready(t, l, b, c, o) /\ ClaimsLive(t, l.entry, b)

WaitInv == Good(now, TheList, booking, call, others)

-----------------------------------------------------------------------------
(* Seats.                                                                   *)

LEMMA Sizings ==
  /\ IsFiniteSet(People) /\ IsFiniteSet(Bookings) /\ Capacity \in Nat
  /\ \A p \in People : Party[p] \in Nat /\ Party[p] > 0
  /\ \A n \in Sizes \union {0} : n \in Nat
  /\ Cutoff \in Nat /\ OfferFor \in Nat /\ OfferFor > 0 /\ MinOffer \in Nat /\ MinOffer > 0
  /\ HoldFor \in Nat /\ HoldFor > 0 /\ MaxOffers \in Nat
BY WaitlistAssumption

LEMMA SeatsNat ==
  ASSUME NEW t \in Int
  PROVE  /\ \A b \in Books : /\ \A i \in Bookings : HoldSeats(t, b)[i] \in Nat
                             /\ Sum(HoldSeats(t, b), Bookings) \in Nat
         /\ \A e \in Entries : /\ \A p \in People : OfferSeats(t, e)[p] \in Nat
                               /\ Sum(OfferSeats(t, e), People) \in Nat
<1>1. ASSUME NEW b \in Books
      PROVE  /\ \A i \in Bookings : HoldSeats(t, b)[i] \in Nat
             /\ Sum(HoldSeats(t, b), Bookings) \in Nat
  <2>1. \A i \in Bookings : HoldSeats(t, b)[i] \in Nat
    BY Sizings DEF HoldSeats, LiveAt, Books, BookingRow
  <2>. QED
    BY <2>1, Sizings, SumNat
<1>2. ASSUME NEW e \in Entries
      PROVE  /\ \A p \in People : OfferSeats(t, e)[p] \in Nat
             /\ Sum(OfferSeats(t, e), People) \in Nat
  <2>1. \A p \in People : OfferSeats(t, e)[p] \in Nat
    BY Sizings DEF OfferSeats
  <2>. QED
    BY <2>1, Sizings, SumNat
<1>. QED
  BY <1>1, <1>2

LEMMA HoldsSame ==
  ASSUME NEW t \in Int, NEW b \in Books, NEW i \in Bookings
  PROVE  HoldSeats(t, b)[i] <= HoldSeats(t, b)[i]
<1>1. HoldSeats(t, b)[i] \in Nat
  BY SeatsNat
<1>. QED
  BY <1>1

\* The seats of some bookings, as the view adds them.
LEMMA BookedAre ==
  ASSUME NEW b \in Books, NEW S \in SUBSET Bookings
  PROVE  MapThenSumSet(LAMBDA i : b[i].party, S) = Sum([i \in Bookings |-> b[i].party], S)
<1>. DEFINE F == [i \in Bookings |-> b[i].party]
            h == CHOOSE it : it = [s \in SUBSET S |->
                   IF s = {} THEN 0 ELSE b[Pick(s)].party + it[s \ {Pick(s)}]]
<1>1. MapThenSumSet(LAMBDA i : b[i].party, S) = h[S]
  BY DEF MapThenSumSet, MapThenFoldSet, Pick
<1>2. IsFiniteSet(S)
  BY Sizings, FS_Subset
<1>3. PICK g : IsSums(g, F, S)
  BY <1>2, SumsExist
<1>4. g = [s \in SUBSET S |-> IF s = {} THEN 0 ELSE b[Pick(s)].party + g[s \ {Pick(s)}]]
  BY <1>3, PickIn DEF IsSums
<1>5. h = [s \in SUBSET S |-> IF s = {} THEN 0 ELSE b[Pick(s)].party + h[s \ {Pick(s)}]]
  BY <1>4
<1>. HIDE DEF h
<1>6. IsSums(h, F, S)
  BY <1>5, PickIn DEF IsSums
<1>. HIDE DEF F
<1>7. Sum(F, S) = h[S]
  BY <1>2, <1>6, SumsAre
<1>. QED
  BY <1>1, <1>7 DEF F

\* The view's count, as sums over all bookings and all places.
LEMMA CountIs ==
  ASSUME NEW t \in Int, NEW e \in Entries, NEW b \in Books,
         NEW S \in SUBSET Bookings,
         S = {i \in Bookings : b[i].status = "confirmed" \/ LiveAt(t, b[i])},
         NEW P \in SUBSET People,
         P = {p \in People : e[p].state = "offered" /\ e[p].ends > t}
  PROVE  /\ MapThenSumSet(LAMBDA i : b[i].party, S) = Sum(HoldSeats(t, b), Bookings)
         /\ Parties(P) = Sum(OfferSeats(t, e), People)
<1>. DEFINE F == [i \in Bookings |-> b[i].party]
<1>1. MapThenSumSet(LAMBDA i : b[i].party, S) = Sum(F, S)
  BY BookedAre
<1>2. /\ \A i \in S : F[i] \in Int /\ F[i] = HoldSeats(t, b)[i]
      /\ \A i \in Bookings \ S : HoldSeats(t, b)[i] = 0
  BY Sizings DEF HoldSeats, LiveAt, Books, BookingRow
<1>3. /\ \A p \in P : Party[p] \in Int /\ Party[p] = OfferSeats(t, e)[p]
      /\ \A p \in People \ P : OfferSeats(t, e)[p] = 0
  BY Sizings DEF OfferSeats
<1>. HIDE DEF F
<1>4. Sum(F, S) = Sum(HoldSeats(t, b), Bookings)
  BY <1>2, Sizings, SumWithin
<1>5. Sum(Party, P) = Sum(OfferSeats(t, e), People)
  BY <1>3, Sizings, SumWithin
<1>6. Parties(P) = Sum(Party, P)
  BY DEF Parties, Sum
<1>. QED
  BY <1>1, <1>4, <1>5, <1>6

LEMMA SeatsAre ==
  ASSUME NEW e \in Entries, NEW b \in Books, NEW o \in Int, now \in Int
  PROVE  SeatsLeft(e, b, o) = SeatsAt(now, e, b, o) /\ SeatsAt(now, e, b, o) \in Int
<1>1. SeatsLeft(e, b, o) = SeatsAt(now, e, b, o)
  <2>. DEFINE S == {i \in Bookings : b[i].status = "confirmed" \/ LiveAt(now, b[i])}
              P == {p \in People : e[p].state = "offered" /\ e[p].ends > now}
  <2>1. SeatsLeft(e, b, o) = Capacity - o - MapThenSumSet(LAMBDA i : b[i].party, S) - Parties(P)
    BY DEF SeatsLeft, HoldLive, LiveAt, MapThenSumSet, MapThenFoldSet
  <2>2. S \in SUBSET Bookings /\ P \in SUBSET People
    OBVIOUS
  <2>. QED
    BY <2>1, <2>2, CountIs DEF SeatsAt
<1>2. SeatsAt(now, e, b, o) \in Int
  BY SeatsNat, Sizings DEF SeatsAt
<1>. QED
  BY <1>1, <1>2

LEMMA SeatsNext ==
  ASSUME entry' \in Entries, booking' \in Books, others' \in Int, now' \in Int
  PROVE  SeatsLeft(entry, booking, others)' = SeatsAt(now', entry', booking', others')
<1>. DEFINE S == {i \in Bookings : booking'[i].status = "confirmed" \/ LiveAt(now', booking'[i])}
            P == {p \in People : entry'[p].state = "offered" /\ entry'[p].ends > now'}
<1>2. SeatsLeft(entry, booking, others)'
        = Capacity - others' - MapThenSumSet(LAMBDA i : booking'[i].party, S) - Parties(P)
  BY DEF SeatsLeft, HoldLive, LiveAt, MapThenSumSet, MapThenFoldSet
<1>3. S \in SUBSET Bookings /\ P \in SUBSET People
  OBVIOUS
<1>. QED
  BY <1>2, <1>3, CountIs DEF SeatsAt

\* Where nothing new is counted, no seat is lost.
LEMMA SeatsGrow ==
  ASSUME NEW t \in Int, NEW u \in Int, NEW d \in Entries, NEW e \in Entries,
         NEW a \in Books, NEW b \in Books, NEW o \in Int, NEW n \in Int, n <= o,
         \A i \in Bookings : HoldSeats(u, b)[i] <= HoldSeats(t, a)[i],
         \A p \in People : OfferSeats(u, e)[p] <= OfferSeats(t, d)[p]
  PROVE  SeatsAt(u, e, b, n) >= SeatsAt(t, d, a, o)
<1>1. Sum(HoldSeats(u, b), Bookings) <= Sum(HoldSeats(t, a), Bookings)
  <2>1. \A i \in Bookings : HoldSeats(u, b)[i] \in Int /\ HoldSeats(t, a)[i] \in Int
    BY SeatsNat
  <2>. QED
    BY <2>1, Sizings, SumGrows
<1>2. Sum(OfferSeats(u, e), People) <= Sum(OfferSeats(t, d), People)
  <2>1. \A p \in People : OfferSeats(u, e)[p] \in Int /\ OfferSeats(t, d)[p] \in Int
    BY SeatsNat
  <2>. QED
    BY <2>1, Sizings, SumGrows
<1>3. /\ Sum(HoldSeats(u, b), Bookings) \in Nat /\ Sum(HoldSeats(t, a), Bookings) \in Nat
      /\ Sum(OfferSeats(u, e), People) \in Nat /\ Sum(OfferSeats(t, d), People) \in Nat
  BY SeatsNat
<1>. QED
  BY <1>1, <1>2, <1>3, Sizings DEF SeatsAt

\* One booking's row changes the seats by its own.
LEMMA HoldMoves ==
  ASSUME NEW t \in Int, NEW e \in Entries, NEW a \in Books, NEW b \in Books, NEW o \in Int,
         NEW i \in Bookings, \A j \in Bookings \ {i} : b[j] = a[j]
  PROVE  SeatsAt(t, e, b, o) = SeatsAt(t, e, a, o) + HoldSeats(t, a)[i] - HoldSeats(t, b)[i]
<1>1. /\ \A j \in Bookings : HoldSeats(t, a)[j] \in Int /\ HoldSeats(t, b)[j] \in Int
      /\ Sum(HoldSeats(t, a), Bookings) \in Nat /\ Sum(OfferSeats(t, e), People) \in Nat
  BY SeatsNat
<1>2. \A j \in Bookings \ {i} : HoldSeats(t, a)[j] = HoldSeats(t, b)[j]
  BY DEF HoldSeats
<1>3. Sum(HoldSeats(t, b), Bookings)
        = Sum(HoldSeats(t, a), Bookings) - HoldSeats(t, a)[i] + HoldSeats(t, b)[i]
  BY <1>1, <1>2, Sizings, SumMoves
<1>. QED
  BY <1>1, <1>3, Sizings DEF SeatsAt

\* One person's place changes the seats by its own offer.
LEMMA OfferMoves ==
  ASSUME NEW t \in Int, NEW d \in Entries, NEW e \in Entries, NEW b \in Books, NEW o \in Int,
         NEW p \in People, \A q \in People \ {p} : e[q] = d[q]
  PROVE  SeatsAt(t, e, b, o) = SeatsAt(t, d, b, o) + OfferSeats(t, d)[p] - OfferSeats(t, e)[p]
<1>1. /\ \A q \in People : OfferSeats(t, d)[q] \in Int /\ OfferSeats(t, e)[q] \in Int
      /\ Sum(HoldSeats(t, b), Bookings) \in Nat /\ Sum(OfferSeats(t, d), People) \in Nat
  BY SeatsNat
<1>2. \A q \in People \ {p} : OfferSeats(t, d)[q] = OfferSeats(t, e)[q]
  BY DEF OfferSeats
<1>3. Sum(OfferSeats(t, e), People)
        = Sum(OfferSeats(t, d), People) - OfferSeats(t, d)[p] + OfferSeats(t, e)[p]
  BY <1>1, <1>2, Sizings, SumMoves
<1>. QED
  BY <1>1, <1>3, Sizings DEF SeatsAt

LEMMA PartiesNat ==
  ASSUME NEW S \in SUBSET People
  PROVE  Parties(S) \in Nat
<1>1. IsFiniteSet(S) /\ \A p \in S : Party[p] \in Nat
  BY Sizings, FS_Subset
<1>2. Sum(Party, S) \in Nat
  BY <1>1, SumNat
<1>. QED
  BY <1>2 DEF Parties, Sum

LEMMA NoParties == Parties({}) = 0
<1>1. Sum(Party, {}) = 0
  BY SumEmpty
<1>. QED
  BY <1>1 DEF Parties, Sum

LEMMA PartiesTake ==
  ASSUME NEW S \in SUBSET People, NEW p \in S
  PROVE  Parties(S) = Party[p] + Parties(S \ {p})
<1>1. IsFiniteSet(S) /\ \A q \in S : Party[q] \in Int
  BY Sizings, FS_Subset
<1>2. Sum(Party, S) = Party[p] + Sum(Party, S \ {p})
  BY <1>1, SumTakes
<1>. QED
  BY <1>2 DEF Parties, Sum

LEMMA PartiesSplit ==
  ASSUME NEW S \in SUBSET People, NEW T \in SUBSET People, S \intersect T = {}
  PROVE  Parties(S \union T) = Parties(S) + Parties(T)
<1>. DEFINE F(X) == [p \in People |-> IF p \in X THEN Party[p] ELSE 0]
<1>1. ASSUME NEW X \in SUBSET People
      PROVE  Parties(X) = Sum(F(X), People)
  <2>. DEFINE G == F(X)
  <2>1. /\ \A p \in X : Party[p] \in Int /\ Party[p] = G[p]
        /\ \A p \in People \ X : G[p] = 0
    BY Sizings
  <2>. HIDE DEF G
  <2>2. Sum(Party, X) = Sum(G, People)
    BY <2>1, Sizings, SumWithin
  <2>. QED
    BY <2>2 DEF Parties, Sum, G
<1>. DEFINE A == F(S)
            B == F(T)
            C == F(S \union T)
<1>2. \A p \in People : A[p] \in Int /\ B[p] \in Int /\ C[p] = A[p] + B[p]
  BY Sizings
<1>3. Parties(S) = Sum(A, People) /\ Parties(T) = Sum(B, People)
      /\ Parties(S \union T) = Sum(C, People)
  BY <1>1
<1>. HIDE DEF A, B, C
<1>4. Sum(C, People) = Sum(A, People) + Sum(B, People)
  BY <1>2, Sizings, SumPairs
<1>. QED
  BY <1>3, <1>4

-----------------------------------------------------------------------------
(* Positions, and the offers down the list.                                 *)

\* A part of a list is in its order.
LEMMA PartInOrder ==
  ASSUME NEW S, NEW before, InOrder(S, before), NEW T \in SUBSET S
  PROVE  InOrder(T, before)
<1>1. \A p, q, s \in S : <<p, q>> \in before /\ <<q, s>> \in before => <<p, s>> \in before
  BY DEF InOrder
<1>2. \A p, q \in S : /\ p # q => <<p, q>> \in before \/ <<q, p>> \in before
                      /\ <<p, q>> \in before => <<q, p>> \notin before
  BY DEF InOrder
<1>. QED
  BY <1>1, <1>2 DEF InOrder

\* Of several places one is behind all the others.
LEMMA LastOne ==
  ASSUME NEW S \in SUBSET People, S # {}, NEW before, InOrder(S, before)
  PROVE  \E z \in S : \A p \in S \ {z} : <<p, z>> \in before
<1>. DEFINE Last(T) == \E z \in T : \A p \in T \ {z} : <<p, z>> \in before
            Bad == {T \in SUBSET S : T # {} /\ ~ Last(T)}
<1>. SUFFICES ASSUME Bad # {}
              PROVE  FALSE
  OBVIOUS
<1>1. IsFiniteSet(S)
  BY Sizings, FS_Subset
<1>2. PICK T \in Bad : \A u \in Bad : u \subseteq T => u = T
  <2>1. Bad \in SUBSET (SUBSET S)
    OBVIOUS
  <2>. HIDE DEF Bad
  <2>. QED
    BY <1>1, <2>1, Smallest
<1>3. PICK x \in T : TRUE
  OBVIOUS
<1>4. T \ {x} \notin Bad /\ T \ {x} \in SUBSET S
  BY <1>2, <1>3
<1>5. T \ {x} # {}
  BY <1>2, <1>3
<1>6. PICK y \in T \ {x} : \A p \in (T \ {x}) \ {y} : <<p, y>> \in before
  BY <1>4, <1>5
<1>7. CASE <<x, y>> \in before
  BY <1>2, <1>6, <1>7
<1>8. CASE <<y, x>> \in before
  <2>1. \A p \in T \ {x} : <<p, x>> \in before
    BY <1>2, <1>3, <1>6, <1>8 DEF InOrder
  <2>. QED
    BY <1>2, <1>3, <2>1
<1>. QED
  BY <1>2, <1>3, <1>6, <1>7, <1>8 DEF InOrder

\* Going down the list, it is decided of each place whether its party fits
\* beside those served before.
LEMMA GivenExists ==
  ASSUME NEW M \in SUBSET People, NEW before, InOrder(M, before), NEW free \in Int
  PROVE  \E G \in SUBSET M : \A p \in M :
           p \in G <=> Parties({q \in G : <<q, p>> \in before}) + Party[p] <= free
<1>. DEFINE Fits(G, p) == Parties({q \in G : <<q, p>> \in before}) + Party[p] <= free
            Served(T) == \E G \in SUBSET T : \A p \in T : p \in G <=> Fits(G, p)
            Bad == {T \in SUBSET M : ~ Served(T)}
<1>. SUFFICES ASSUME Bad # {}
              PROVE  FALSE
  OBVIOUS
<1>1. PICK T \in Bad : \A u \in Bad : u \subseteq T => u = T
  <2>1. IsFiniteSet(M) /\ Bad \in SUBSET (SUBSET M)
    BY Sizings, FS_Subset
  <2>. HIDE DEF Bad
  <2>. QED
    BY <2>1, Smallest
<1>2. T # {}
  <2>. SUFFICES ASSUME T = {}
                PROVE  Served(T)
    BY <1>1
  <2>. QED
    OBVIOUS
<1>3. InOrder(T, before) /\ T \in SUBSET People
  BY <1>1 DEF InOrder
<1>4. PICK z \in T : \A p \in T \ {z} : <<p, z>> \in before
  BY <1>2, <1>3, LastOne
<1>5. PICK H \in SUBSET (T \ {z}) : \A p \in T \ {z} : p \in H <=> Fits(H, p)
  <2>1. T \ {z} \notin Bad /\ T \ {z} \in SUBSET M
    BY <1>1, <1>4
  <2>. QED
    BY <2>1
<1>6. ASSUME NEW G, G = H \/ G = H \union {z}, NEW p \in T
      PROVE  Fits(G, p) <=> Fits(H, p)
  <2>1. <<z, p>> \notin before
    BY <1>3, <1>4 DEF InOrder
  <2>2. {q \in G : <<q, p>> \in before} = {q \in H : <<q, p>> \in before}
    BY <1>6, <2>1
  <2>. QED
    BY <2>2
<1>. HIDE DEF Fits
<1>. DEFINE G == IF Fits(H, z) THEN H \union {z} ELSE H
<1>7. \A p \in T : p \in G <=> Fits(G, p)
  <2>1. G = H \/ G = H \union {z}
    OBVIOUS
  <2>2. \A p \in T : Fits(G, p) <=> Fits(H, p)
    BY <1>6, <2>1
  <2>. QED
    BY <1>5, <2>2
<1>8. G \in SUBSET T
  BY <1>4, <1>5
<1>. HIDE DEF G
<1>9. Served(T)
  BY <1>7, <1>8
<1>. QED
  BY <1>1, <1>9

MayGet(l, lapsed, p) ==
  l.entry[p].state = "waiting" /\ p \notin lapsed /\ l.entry[p].offers < MaxOffers

Given(l, lapsed, free, G) ==
  \A p \in People :
    p \in G <=> MayGet(l, lapsed, p) /\ Parties({q \in G : <<q, p>> \in l.ahead}) + Party[p] <= free

OffersTo(l, G) ==
  [entry |-> [p \in People |-> IF p \in G THEN Offered(l.entry[p], OfferEnds) ELSE l.entry[p]],
   ahead |-> l.ahead]

LEMMA OfferDownIs ==
  ASSUME NEW l, GoodList(l), NEW lapsed, NEW free \in Int
  PROVE  \E G \in SUBSET People : Given(l, lapsed, free, G)
                                  /\ OfferDown(l, lapsed, free) = OffersTo(l, G)
<1>. DEFINE M == {p \in People : MayGet(l, lapsed, p)}
            G == CHOOSE X \in SUBSET People : Given(l, lapsed, free, X)
<1>1. \E X \in SUBSET People : Given(l, lapsed, free, X)
  <2>1. InOrder(M, l.ahead) /\ M \in SUBSET People
    <3>1. M \in SUBSET Listed(l.entry) /\ M \in SUBSET People
      BY DEF Listed, LiveStates, MayGet
    <3>2. InOrder(Listed(l.entry), l.ahead)
      BY DEF GoodList
    <3>. HIDE DEF M
    <3>. QED
      BY <3>1, <3>2, PartInOrder
  <2>2. PICK X \in SUBSET M : \A p \in M :
          p \in X <=> Parties({q \in X : <<q, p>> \in l.ahead}) + Party[p] <= free
    <3>. HIDE DEF M
    <3>. QED
      BY <2>1, GivenExists
  <2>3. Given(l, lapsed, free, X)
    BY <2>2 DEF Given
  <2>. QED
    BY <2>3
<1>2. G \in SUBSET People /\ Given(l, lapsed, free, G)
  BY <1>1
<1>3. OfferDown(l, lapsed, free)
        = [l EXCEPT !.entry = [p \in People |-> IF p \in G THEN Offered(l.entry[p], OfferEnds)
                                                ELSE l.entry[p]]]
  BY DEF OfferDown, Given, MayGet
<1>. HIDE DEF G
<1>4. OfferDown(l, lapsed, free) = OffersTo(l, G)
  BY <1>3 DEF GoodList, OffersTo
<1>. QED
  BY <1>2, <1>4

\* The offers of one walk fit together.
LEMMA GivenFits ==
  ASSUME NEW l, GoodList(l), NEW lapsed, NEW free \in Nat, NEW G \in SUBSET People,
         Given(l, lapsed, free, G)
  PROVE  Parties(G) <= free
<1>1. CASE G = {}
  BY <1>1, NoParties
<1>2. CASE G # {}
  <2>1. InOrder(G, l.ahead)
    <3>1. G \in SUBSET Listed(l.entry)
      BY DEF Given, Listed, LiveStates, MayGet
    <3>2. InOrder(Listed(l.entry), l.ahead)
      BY DEF GoodList
    <3>. QED
      BY <3>1, <3>2, PartInOrder
  <2>2. PICK z \in G : \A p \in G \ {z} : <<p, z>> \in l.ahead
    BY <1>2, <2>1, LastOne
  <2>3. {q \in G : <<q, z>> \in l.ahead} = G \ {z}
    BY <2>1, <2>2 DEF InOrder
  <2>4. Parties(G \ {z}) + Party[z] <= free
    BY <2>2, <2>3 DEF Given
  <2>5. Parties(G \ {z}) \in Nat /\ Parties(G) = Party[z] + Parties(G \ {z}) /\ Party[z] \in Nat
    BY <2>2, PartiesNat, PartiesTake, Sizings
  <2>. QED
    BY <2>4, <2>5
<1>. QED
  BY <1>1, <1>2

-----------------------------------------------------------------------------
(* Rows and lists.                                                          *)

LEMMA RowsAre ==
  /\ NoEntry \in EntryRow
  /\ Left \in EntryRow /\ Left.state = "left" /\ Left.offers = 0
  /\ \A row \in EntryRow :
       /\ Waits(row) \in EntryRow
       /\ Waits(row).state = "waiting" /\ Waits(row).offers = row.offers
       /\ \A ends \in 0..Cutoff : row.offers <= MaxOffers =>
            /\ Offered(row, ends) \in EntryRow
            /\ Offered(row, ends).state = "offered" /\ Offered(row, ends).ends = ends
            /\ Offered(row, ends).offers = row.offers + 1
            /\ Offered(row, ends).booking = row.booking
<1>1. NoEntry \in EntryRow /\ Left \in EntryRow /\ Left.state = "left" /\ Left.offers = 0
  BY Sizings DEF NoEntry, Left, EntryRow, LiveStates
<1>2. ASSUME NEW row \in EntryRow
      PROVE  /\ Waits(row) \in EntryRow
             /\ Waits(row).state = "waiting" /\ Waits(row).offers = row.offers
  <2>1. 0 \in 0..Cutoff
    BY Sizings
  <2>. QED
    BY <2>1 DEF EntryRow, Waits, LiveStates
<1>3. ASSUME NEW row \in EntryRow, NEW ends \in 0..Cutoff, row.offers <= MaxOffers
      PROVE  /\ Offered(row, ends) \in EntryRow
             /\ Offered(row, ends).state = "offered" /\ Offered(row, ends).ends = ends
             /\ Offered(row, ends).offers = row.offers + 1
             /\ Offered(row, ends).booking = row.booking
  <2>1. row.offers + 1 \in 0..(MaxOffers + 1)
    BY <1>3, Sizings DEF EntryRow
  <2>. QED
    BY <2>1 DEF EntryRow, Offered, LiveStates
<1>. QED
  BY <1>1, <1>2, <1>3

LEMMA BookRowsAre ==
  /\ NoBooking \in BookingRow /\ NoBooking.status = "none" /\ NoBooking.until = 0
  /\ \A row \in BookingRow : /\ Ended(row) \in BookingRow /\ Ended(row).until = 0
                             /\ Ended(row).status = row.status /\ Ended(row).person = row.person
                             /\ Ended(row).party = row.party /\ Ended(row).open = row.open
BY Sizings DEF NoBooking, BookingRow, Ended

LEMMA LeavesGood ==
  ASSUME NEW l, GoodList(l), NEW gone \in SUBSET People
  PROVE  /\ GoodList(Leaves(l, gone))
         /\ Leaves(l, gone).entry = [p \in People |-> IF p \in gone THEN Left ELSE l.entry[p]]
         /\ Listed(Leaves(l, gone).entry) = Listed(l.entry) \ gone
<1>. DEFINE w == Leaves(l, gone)
<1>1. /\ w = [entry |-> w.entry, ahead |-> w.ahead]
      /\ w.entry = [p \in People |-> IF p \in gone THEN Left ELSE l.entry[p]]
      /\ w.ahead = {a \in l.ahead : a[1] \notin gone /\ a[2] \notin gone}
  BY DEF Leaves
<1>. HIDE DEF w
<1>2. w.entry \in Entries
  BY <1>1, RowsAre DEF GoodList, Entries
<1>3. Listed(w.entry) = Listed(l.entry) \ gone
  BY <1>1, RowsAre DEF Listed, LiveStates
<1>4. w.ahead \subseteq Listed(w.entry) \X Listed(w.entry)
  BY <1>1, <1>3 DEF GoodList
<1>5. InOrder(Listed(w.entry), w.ahead)
  BY <1>1, <1>3 DEF GoodList, InOrder
<1>. QED
  BY <1>1, <1>2, <1>3, <1>4, <1>5 DEF GoodList, w

\* Some places put behind the others, in an order of their own.
LEMMA BehindOrders ==
  ASSUME NEW A, NEW before, before \subseteq A \X A, InOrder(A, before),
         NEW B \in SUBSET A, NEW late, late \subseteq B \X B, InOrder(B, late),
         NEW after, after = {a \in before : a[1] \notin B /\ a[2] \notin B}
                            \union ((A \ B) \X B) \union late
  PROVE  after \subseteq A \X A /\ InOrder(A, after)
<1>1. \A p, q \in A : <<p, q>> \in after <=>
        \/ p \notin B /\ q \notin B /\ <<p, q>> \in before
        \/ p \notin B /\ q \in B
        \/ p \in B /\ q \in B /\ <<p, q>> \in late
  OBVIOUS
<1>2. after \subseteq A \X A
  OBVIOUS
<1>3. \A p, q \in A : p # q => (<<p, q>> \in after \/ <<q, p>> \in after)
  BY <1>1 DEF InOrder
<1>4. \A p, q \in A : <<p, q>> \in after => <<q, p>> \notin after
  BY <1>1 DEF InOrder
<1>5. ASSUME NEW p \in A, NEW q \in A, NEW s \in A, <<p, q>> \in after, <<q, s>> \in after
      PROVE  <<p, s>> \in after
  BY <1>1, <1>5 DEF InOrder
<1>. QED
  BY <1>2, <1>3, <1>4, <1>5 DEF InOrder

\* The order in which places lapse is one.
LEMMA SoonerOrders ==
  ASSUME NEW l, GoodList(l), NEW B \in SUBSET People,
         \A p \in B : l.entry[p].state \in {"offered", "claimed"},
         NEW late, late = {a \in B \X B : Sooner(l, a[1], a[2])}
  PROVE  InOrder(B, late)
<1>1. \A p, q \in B : <<p, q>> \in late <=> Sooner(l, p, q)
  OBVIOUS
<1>2. B \subseteq Listed(l.entry) /\ InOrder(B, l.ahead) /\ \A p \in B : l.entry[p].ends \in Int
  BY DEF GoodList, Listed, LiveStates, InOrder, Entries, EntryRow
<1>3. ASSUME NEW p \in B, NEW q \in B, p # q
      PROVE  Sooner(l, p, q) \/ Sooner(l, q, p)
  <2>1. /\ <<p, q>> \in l.ahead \/ <<q, p>> \in l.ahead
        /\ l.entry[p].ends \in Int /\ l.entry[q].ends \in Int
        /\ l.entry[p].state \in {"offered", "claimed"} /\ l.entry[q].state \in {"offered", "claimed"}
    BY <1>2, <1>3 DEF InOrder
  <2>. QED
    BY <2>1 DEF Sooner
<1>4. \A p, q \in B : Sooner(l, p, q) => ~ Sooner(l, q, p)
  BY <1>2 DEF Sooner, InOrder
<1>5. \A p, q, s \in B : Sooner(l, p, q) /\ Sooner(l, q, s) => Sooner(l, p, s)
  BY <1>2 DEF Sooner, InOrder
<1>. QED
  BY <1>1, <1>3, <1>4, <1>5 DEF InOrder

LEMMA ToBackGood ==
  ASSUME NEW l, GoodList(l), NEW back \in SUBSET People,
         \A p \in back : l.entry[p].state \in {"offered", "claimed"}
  PROVE  /\ GoodList(ToBack(l, back))
         /\ ToBack(l, back).entry
              = [p \in People |-> IF p \in back THEN Waits(l.entry[p]) ELSE l.entry[p]]
         /\ Listed(ToBack(l, back).entry) = Listed(l.entry)
<1>. DEFINE w == ToBack(l, back)
            late == {a \in back \X back : Sooner(l, a[1], a[2])}
<1>1. /\ w = [entry |-> w.entry, ahead |-> w.ahead]
      /\ w.entry = [p \in People |-> IF p \in back THEN Waits(l.entry[p]) ELSE l.entry[p]]
      /\ w.ahead = {a \in l.ahead : a[1] \notin back /\ a[2] \notin back}
                   \union ((Listed(l.entry) \ back) \X back) \union late
  BY DEF ToBack
<1>2. InOrder(back, late) /\ late \subseteq back \X back
  BY SoonerOrders
<1>. HIDE DEF w, late
<1>3. w.entry \in Entries
  BY <1>1, RowsAre DEF GoodList, Entries
<1>4. Listed(w.entry) = Listed(l.entry) /\ back \subseteq Listed(l.entry)
  BY <1>1, RowsAre DEF Listed, LiveStates, GoodList, Entries
<1>5. w.ahead \subseteq Listed(w.entry) \X Listed(w.entry) /\ InOrder(Listed(w.entry), w.ahead)
  <2>. DEFINE A == Listed(l.entry)
  <2>1. /\ l.ahead \subseteq A \X A /\ InOrder(A, l.ahead) /\ back \in SUBSET A
        /\ w.ahead = {a \in l.ahead : a[1] \notin back /\ a[2] \notin back}
                     \union ((A \ back) \X back) \union late
    BY <1>1, <1>4 DEF GoodList
  <2>. HIDE DEF A
  <2>2. w.ahead \subseteq A \X A /\ InOrder(A, w.ahead)
    BY <1>2, <2>1, BehindOrders
  <2>. QED
    BY <1>4, <2>2 DEF A
<1>. QED
  BY <1>1, <1>3, <1>4, <1>5 DEF GoodList, w

-----------------------------------------------------------------------------
(* The walk.                                                                *)

Rest(l, b) == ToBack(Leaves(l, Paid(l, b)), Lapsed(l, b))

LEMMA RestIs ==
  ASSUME NEW l, GoodList(l), NEW b
  PROVE  /\ GoodList(Rest(l, b))
         /\ Rest(l, b).entry = [p \in People |-> IF p \in Lapsed(l, b) THEN Waits(l.entry[p])
                                                 ELSE IF p \in Paid(l, b) THEN Left
                                                 ELSE l.entry[p]]
<1>. DEFINE u == Leaves(l, Paid(l, b))
            back == Lapsed(l, b)
<1>1. /\ GoodList(u)
      /\ u.entry = [p \in People |-> IF p \in Paid(l, b) THEN Left ELSE l.entry[p]]
  <2>1. Paid(l, b) \in SUBSET People
    BY DEF Paid
  <2>. QED
    BY <2>1, LeavesGood
<1>2. back \in SUBSET People /\ \A p \in back : /\ l.entry[p].state \in {"offered", "claimed"}
                                                /\ p \notin Paid(l, b)
  BY DEF Lapsed, Paid
<1>. HIDE DEF u, back
<1>3. \A p \in back : u.entry[p].state \in {"offered", "claimed"}
  BY <1>1, <1>2
<1>4. /\ GoodList(ToBack(u, back))
      /\ ToBack(u, back).entry = [p \in People |-> IF p \in back THEN Waits(u.entry[p]) ELSE u.entry[p]]
  BY <1>1, <1>2, <1>3, ToBackGood
<1>5. [p \in People |-> IF p \in back THEN Waits(u.entry[p]) ELSE u.entry[p]]
        = [p \in People |-> IF p \in back THEN Waits(l.entry[p])
                            ELSE IF p \in Paid(l, b) THEN Left ELSE l.entry[p]]
  BY <1>1, <1>2
<1>. QED
  BY <1>4, <1>5 DEF u, back, Rest

LEMMA RestRows ==
  ASSUME NEW l, GoodList(l), NEW b
  PROVE  /\ GoodList(Rest(l, b)) /\ Rest(l, b).entry \in Entries /\ l.entry \in Entries
         /\ \A p \in People : Rest(l, b).entry[p] = IF p \in Lapsed(l, b) THEN Waits(l.entry[p])
                                                    ELSE IF p \in Paid(l, b) THEN Left
                                                    ELSE l.entry[p]
<1>1. GoodList(Rest(l, b))
  BY RestIs
<1>3. Rest(l, b).entry = [p \in People |-> IF p \in Lapsed(l, b) THEN Waits(l.entry[p])
                                           ELSE IF p \in Paid(l, b) THEN Left ELSE l.entry[p]]
  BY RestIs
<1>2. ASSUME NEW u, GoodList(u)
      PROVE  u.entry \in Entries
  BY <1>2 DEF GoodList
<1>. QED
  BY <1>1, <1>2, <1>3

LEMMA OfferTimes ==
  ASSUME now \in 0..Cutoff
  PROVE  /\ OfferEnds \in 0..Cutoff
         /\ OffersOpen => now < Cutoff /\ OfferEnds > now
BY Sizings DEF OfferEnds, OffersOpen

\* The walk after the cutoff, and before it with time for offers, and without.
LEMMA WalkCases ==
  ASSUME now \in 0..Cutoff, NEW l, GoodList(l), NEW b \in Books, NEW o \in Int
  PROVE  /\ now >= Cutoff =>
              Walk(l, b, o) = Leaves(Rest(l, b), {p \in People : Rest(l, b).entry[p].state = "waiting"})
         /\ OffersOpen =>
              \E G \in SUBSET People :
                /\ Given(Rest(l, b), Lapsed(l, b), SeatsAt(now, Rest(l, b).entry, b, o), G)
                /\ Walk(l, b, o) = OffersTo(Rest(l, b), G)
         /\ now < Cutoff /\ ~ OffersOpen => Walk(l, b, o) = Rest(l, b)
<1>. DEFINE r == Rest(l, b)
<1>1. now \in Int /\ GoodList(r) /\ r.entry \in Entries
  BY RestRows, Sizings
<1>2. now >= Cutoff => Walk(l, b, o) = Leaves(r, {p \in People : r.entry[p].state = "waiting"})
  BY Sizings DEF Walk, Rest
<1>3. ASSUME OffersOpen
      PROVE  Walk(l, b, o) = OfferDown(r, Lapsed(l, b), SeatsLeft(r.entry, b, o))
  BY <1>3, OfferTimes, Sizings DEF Walk, Rest
<1>4. now < Cutoff /\ ~ OffersOpen => Walk(l, b, o) = r
  BY Sizings DEF Walk, Rest
<1>. HIDE DEF r
<1>5. SeatsLeft(r.entry, b, o) = SeatsAt(now, r.entry, b, o) /\ SeatsAt(now, r.entry, b, o) \in Int
  BY <1>1, SeatsAre
<1>6. ASSUME OffersOpen
      PROVE  \E G \in SUBSET People : /\ Given(r, Lapsed(l, b), SeatsAt(now, r.entry, b, o), G)
                                      /\ Walk(l, b, o) = OffersTo(r, G)
  BY <1>1, <1>3, <1>5, <1>6, OfferDownIs
<1>. QED
  BY <1>2, <1>4, <1>6 DEF r

\* Offers that have not ended take their parties' seats.
LEMMA OffersTake ==
  ASSUME now \in 0..Cutoff, OffersOpen, NEW l, GoodList(l), NEW b \in Books, NEW o \in Int,
         NEW G \in SUBSET People, \A p \in G : MayGet(l, {}, p)
  PROVE  /\ GoodList(OffersTo(l, G))
         /\ SeatsAt(now, OffersTo(l, G).entry, b, o) = SeatsAt(now, l.entry, b, o) - Parties(G)
<1>. DEFINE e == OffersTo(l, G).entry
            F == OfferSeats(now, l.entry)
            H == OfferSeats(now, e)
            K == [p \in People |-> IF p \in G THEN Party[p] ELSE 0]
<1>1. /\ l.entry \in Entries /\ now \in Int
      /\ e = [p \in People |-> IF p \in G THEN Offered(l.entry[p], OfferEnds) ELSE l.entry[p]]
  BY DEF GoodList, OffersTo
<1>2. \A p \in G : /\ l.entry[p].state = "waiting" /\ e[p] \in EntryRow
                   /\ e[p].state = "offered" /\ e[p].ends > now
  <2>1. \A p \in G : l.entry[p] \in EntryRow /\ l.entry[p].offers <= MaxOffers
    BY <1>1, Sizings DEF Entries, EntryRow, MayGet
  <2>. QED
    BY <1>1, <2>1, OfferTimes, RowsAre DEF MayGet
<1>3. e \in Entries /\ Listed(e) = Listed(l.entry)
  <2>1. e \in Entries
    BY <1>1, <1>2 DEF Entries
  <2>2. Listed(e) = Listed(l.entry)
    BY <1>1, <1>2 DEF Listed, LiveStates
  <2>. QED
    BY <2>1, <2>2
<1>4. GoodList(OffersTo(l, G))
  BY <1>3 DEF GoodList, OffersTo
<1>. HIDE DEF e
<1>5. \A p \in People : F[p] \in Int /\ K[p] \in Int /\ H[p] = F[p] + K[p]
  <2>1. ASSUME NEW p \in People
        PROVE  F[p] \in Int /\ K[p] \in Int /\ H[p] = F[p] + K[p]
    <3>1. CASE p \in G
      BY <1>2, <3>1, Sizings DEF OfferSeats
    <3>2. CASE p \notin G
      BY <1>1, <3>2, Sizings DEF OfferSeats
    <3>. QED
      BY <3>1, <3>2
  <2>. QED
    BY <2>1
<1>6. /\ \A p \in G : Party[p] \in Int /\ Party[p] = K[p]
      /\ \A p \in People \ G : K[p] = 0
  BY Sizings
<1>7. Sum(F, People) \in Nat /\ Sum(HoldSeats(now, b), Bookings) \in Nat /\ Parties(G) \in Nat
  BY <1>1, SeatsNat, PartiesNat
<1>. HIDE DEF F, H, K
<1>8. Sum(H, People) = Sum(F, People) + Sum(K, People) /\ Sum(Party, G) = Sum(K, People)
  <2>1. Sum(H, People) = Sum(F, People) + Sum(K, People)
    BY <1>5, Sizings, SumPairs
  <2>2. Sum(Party, G) = Sum(K, People)
    BY <1>6, Sizings, SumWithin
  <2>. QED
    BY <2>1, <2>2
<1>9. Sum(Party, G) = Parties(G)
  BY DEF Parties, Sum
<1>10. SeatsAt(now, e, b, o) = SeatsAt(now, l.entry, b, o) - Parties(G)
  BY <1>7, <1>8, <1>9, Sizings DEF SeatsAt, F, H
<1>. QED
  BY <1>4, <1>10 DEF e

LEMMA RestSeats ==
  ASSUME now \in 0..Cutoff, NEW l, GoodList(l), NEW b \in Books, NEW o \in Int
  PROVE  SeatsAt(now, Rest(l, b).entry, b, o) >= SeatsAt(now, l.entry, b, o)
<1>. DEFINE e == Rest(l, b).entry
<1>1. l.entry \in Entries /\ e \in Entries /\ now \in Int
  BY RestRows, Sizings
<1>2. \A p \in People : e[p].state = "offered" => e[p] = l.entry[p]
  <2>1. \A p \in People : e[p] = IF p \in Lapsed(l, b) THEN Waits(l.entry[p])
                                 ELSE IF p \in Paid(l, b) THEN Left ELSE l.entry[p]
    BY RestRows
  <2>. HIDE DEF e
  <2>. QED
    BY <1>1, <2>1, RowsAre DEF Entries
<1>3. \A p \in People : OfferSeats(now, e)[p] <= OfferSeats(now, l.entry)[p]
  BY <1>2, Sizings DEF OfferSeats
<1>4. \A i \in Bookings : HoldSeats(now, b)[i] <= HoldSeats(now, b)[i]
  BY <1>1, HoldsSame
<1>. HIDE DEF e
<1>5. SeatsAt(now, e, b, o) >= SeatsAt(now, l.entry, b, o)
  BY <1>1, <1>3, <1>4, SeatsGrow
<1>. QED
  BY <1>5 DEF e

\* What a walk does to a list.
LEMMA WalkIs ==
  ASSUME now \in 0..Cutoff, NEW l, GoodList(l), NEW b \in Books, NEW o \in Int
  PROVE  /\ GoodList(Walk(l, b, o))
         /\ \A p \in People : Walk(l, b, o).entry[p].state = "claimed" =>
              Walk(l, b, o).entry[p] = l.entry[p] /\ p \notin Lapsed(l, b) /\ p \notin Paid(l, b)
         /\ \A p \in People : l.entry[p].state = "none" => Walk(l, b, o).entry[p].state = "none"
         /\ SeatsAt(now, l.entry, b, o) >= 0 => SeatsAt(now, Walk(l, b, o).entry, b, o) >= 0
<1>. DEFINE r == Rest(l, b)
            w == Walk(l, b, o)
<1>1. /\ GoodList(r) /\ r.entry \in Entries /\ l.entry \in Entries /\ now \in Int
      /\ \A p \in People : r.entry[p] = IF p \in Lapsed(l, b) THEN Waits(l.entry[p])
                                        ELSE IF p \in Paid(l, b) THEN Left ELSE l.entry[p]
  BY RestRows, Sizings
<1>2. \A p \in People : r.entry[p].state = "claimed" =>
        r.entry[p] = l.entry[p] /\ p \notin Lapsed(l, b) /\ p \notin Paid(l, b)
  BY <1>1, RowsAre DEF Entries
<1>3. \A p \in People : l.entry[p].state = "none" => r.entry[p].state = "none"
  BY <1>1 DEF Lapsed, Paid
<1>4. /\ SeatsAt(now, r.entry, b, o) >= SeatsAt(now, l.entry, b, o)
      /\ SeatsAt(now, r.entry, b, o) \in Int /\ SeatsAt(now, l.entry, b, o) \in Int
  BY <1>1, RestSeats, SeatsAre
<1>5. CASE now >= Cutoff
  <2>. DEFINE gone == {p \in People : r.entry[p].state = "waiting"}
  <2>1. w = Leaves(r, gone)
    BY <1>5, WalkCases
  <2>2. /\ GoodList(w)
        /\ w.entry = [p \in People |-> IF p \in gone THEN Left ELSE r.entry[p]]
    <3>. HIDE DEF r, w
    <3>. QED
      BY <1>1, <2>1, LeavesGood
  <2>. HIDE DEF r, w
  <2>3. /\ \A p \in People : w.entry[p].state = "claimed" => w.entry[p] = r.entry[p]
        /\ \A p \in People : r.entry[p].state = "none" => w.entry[p].state = "none"
        /\ \A p \in People : w.entry[p].state = "offered" => w.entry[p] = r.entry[p]
    BY <2>2, RowsAre
  <2>4. SeatsAt(now, w.entry, b, o) >= SeatsAt(now, r.entry, b, o)
    <3>1. \A p \in People : OfferSeats(now, w.entry)[p] <= OfferSeats(now, r.entry)[p]
      BY <2>3, Sizings DEF OfferSeats
    <3>2. \A i \in Bookings : HoldSeats(now, b)[i] <= HoldSeats(now, b)[i]
      BY <1>1, HoldsSame
    <3>3. w.entry \in Entries
      BY <2>2 DEF GoodList
    <3>. QED
      BY <1>1, <3>1, <3>2, <3>3, SeatsGrow
  <2>5. SeatsAt(now, w.entry, b, o) \in Int
    BY <1>1, <2>2, SeatsAre DEF GoodList
  <2>. QED
    BY <1>2, <1>3, <1>4, <2>2, <2>3, <2>4, <2>5 DEF r, w
<1>6. CASE OffersOpen
  <2>. DEFINE free == SeatsAt(now, r.entry, b, o)
  <2>1. PICK G \in SUBSET People : Given(r, Lapsed(l, b), free, G) /\ w = OffersTo(r, G)
    BY <1>6, WalkCases
  <2>. HIDE DEF r, w
  <2>2. \A p \in G : MayGet(r, {}, p)
    BY <2>1 DEF Given, MayGet
  <2>3. GoodList(w) /\ SeatsAt(now, w.entry, b, o) = free - Parties(G)
    BY <1>1, <1>6, <2>1, <2>2, OffersTake
  <2>4. free >= 0 => Parties(G) <= free
    BY <1>1, <1>4, <2>1, GivenFits
  <2>5. /\ \A p \in People : w.entry[p].state = "claimed" => w.entry[p] = r.entry[p]
        /\ \A p \in People : r.entry[p].state = "none" => w.entry[p].state = "none"
    <3>1. \A p \in G : Offered(r.entry[p], OfferEnds).state = "offered"
                       /\ r.entry[p].state = "waiting"
      <4>1. \A p \in G : r.entry[p] \in EntryRow /\ r.entry[p].offers <= MaxOffers
                         /\ r.entry[p].state = "waiting"
        BY <1>1, <2>2, Sizings DEF MayGet, Entries, EntryRow
      <4>. QED
        BY <4>1, RowsAre, OfferTimes
    <3>2. \A p \in People : w.entry[p] = IF p \in G THEN Offered(r.entry[p], OfferEnds)
                                         ELSE r.entry[p]
      BY <2>1 DEF OffersTo
    <3>. QED
      BY <3>1, <3>2
  <2>6. SeatsAt(now, l.entry, b, o) >= 0 => SeatsAt(now, w.entry, b, o) >= 0
    BY <1>4, <2>3, <2>4, PartiesNat
  <2>. QED
    BY <1>2, <1>3, <2>3, <2>5, <2>6 DEF r, w
<1>7. CASE now < Cutoff /\ ~ OffersOpen
  <2>1. w = r
    BY <1>7, WalkCases
  <2>. HIDE DEF r, w
  <2>2. SeatsAt(now, l.entry, b, o) >= 0 => SeatsAt(now, w.entry, b, o) >= 0
    BY <1>4, <2>1
  <2>. QED
    BY <1>1, <1>2, <1>3, <2>1, <2>2 DEF r, w
<1>. QED
  BY <1>5, <1>6, <1>7, Sizings

\* Calls stay right while no claim takes a booking that existed.
LEMMA CallsStay ==
  ASSUME NEW c, NEW d, NEW e, NEW a, NEW b, CallsGood(c, d, a),
         \A p \in People : d[p].state = "none" => e[p].state = "none",
         \A p \in People : e[p].state = "claimed" =>
           \/ d[p].state = "claimed" /\ e[p].booking = d[p].booking
           \/ a[e[p].booking].status = "none",
         \A i \in Bookings : a[i].status # "none" => b[i].status # "none"
  PROVE  CallsGood(c, e, b)
<1>. SUFFICES ASSUME NEW p \in People
              PROVE  CallGood(c[p], p, e, b)
  BY DEF CallsGood
<1>1. CallGood(c[p], p, d, a) /\ DOMAIN c[p].released \subseteq Bookings
  BY DEF CallsGood, Calls, Olds
<1>. QED
  BY <1>1 DEF CallGood

\* A call that begins or ends.
LEMMA CallMoves ==
  ASSUME NEW c, NEW e, NEW b, CallsGood(c, e, b), NEW p \in People,
         NEW r, r \in [at : {"none", "join", "order", "opening"}, claim : Nat,
                       booking : Bookings \union {None}, released : Olds],
         CallGood(r, p, e, b)
  PROVE  CallsGood([c EXCEPT ![p] = r], e, b)
BY DEF CallsGood, Calls

LEMMA NoCallIs ==
  /\ NoCall \in [at : {"none", "join", "order", "opening"}, claim : Nat,
                 booking : Bookings \union {None}, released : Olds]
  /\ NoCall.at = "none"
<1>. DEFINE none == [i \in {} |-> 0]
<1>1. none \in Olds
  <2>1. none \in [{} -> 0..(Cutoff + HoldFor)] /\ {} \in SUBSET Bookings
    OBVIOUS
  <2>. HIDE DEF none
  <2>. QED
    BY <2>1 DEF Olds
<1>. HIDE DEF none
<1>2. NoCall = [at |-> "none", claim |-> 0, booking |-> None, released |-> none]
  BY DEF NoCall, none
<1>. QED
  BY <1>1, <1>2

LEMMA CallOver ==
  ASSUME NEW c, NEW e, NEW b, CallsGood(c, e, b), NEW p \in People
  PROVE  CallsGood([c EXCEPT ![p] = NoCall], e, b)
<1>1. CallGood(NoCall, p, e, b)
  BY NoCallIs DEF CallGood
<1>. QED
  BY <1>1, NoCallIs, CallMoves

\* After a walk every claim is live.
LEMMA WalkGood ==
  ASSUME NEW l, NEW b, NEW c, NEW o, Ready(now, l, b, c, o)
  PROVE  Good(now, Walk(l, b, o), b, c, o)
<1>. DEFINE w == Walk(l, b, o)
<1>1. now \in 0..Cutoff /\ GoodList(l) /\ b \in Books /\ o \in Int /\ ClaimsGood(l.entry, b)
  BY Sizings DEF Ready, GoodBooks
<1>2. /\ GoodList(w)
      /\ \A p \in People : w.entry[p].state = "claimed" =>
           w.entry[p] = l.entry[p] /\ p \notin Lapsed(l, b) /\ p \notin Paid(l, b)
      /\ \A p \in People : l.entry[p].state = "none" => w.entry[p].state = "none"
      /\ SeatsAt(now, l.entry, b, o) >= 0 => SeatsAt(now, w.entry, b, o) >= 0
  BY <1>1, WalkIs
<1>. HIDE DEF w
<1>3. ClaimsGood(w.entry, b)
  BY <1>1, <1>2 DEF ClaimsGood, ClaimRight
<1>4. ClaimsLive(now, w.entry, b)
  BY <1>1, <1>2 DEF ClaimsLive, ClaimsGood, ClaimRight, Lapsed, HoldLive, LiveAt
<1>5. CallsGood(c, w.entry, b)
  <2>1. CallsGood(c, l.entry, b)
    BY DEF Ready
  <2>. QED
    BY <1>2, <2>1, CallsStay
<1>. QED
  BY <1>2, <1>3, <1>4, <1>5 DEF Good, Ready, w

-----------------------------------------------------------------------------
(* Steps that walk.                                                         *)

LEMMA Becoming ==
  ASSUME NEW l, GoodList(l), Becomes(l)
  PROVE  TheList' = l
BY DEF GoodList, Becomes, TheList

LEMMA InvNext ==
  ASSUME NEW l, NEW b, NEW c, NEW o, GoodList(l), Becomes(l),
         booking' = b, call' = c, others' = o, UNCHANGED now, Good(now, l, b, c, o)
  PROVE  WaitInv'
<1>1. TheList' = l
  BY Becoming
<1>. QED
  BY <1>1 DEF WaitInv

LEMMA Parts ==
  ASSUME WaitInv
  PROVE  /\ now \in 0..Cutoff /\ now \in Int /\ others \in 0..Capacity /\ others \in Int
         /\ GoodList(TheList) /\ TheList.entry = entry /\ TheList.ahead = ahead
         /\ entry \in Entries /\ ahead \subseteq Listed(entry) \X Listed(entry)
         /\ InOrder(Listed(entry), ahead)
         /\ GoodBooks(booking) /\ booking \in Books
         /\ ClaimsGood(entry, booking) /\ ClaimsLive(now, entry, booking)
         /\ CallsGood(call, entry, booking) /\ call \in Calls
         /\ SeatsLeft(entry, booking, others) = SeatsAt(now, entry, booking, others)
         /\ SeatsAt(now, entry, booking, others) \in Nat
<1>1. TheList.entry = entry /\ TheList.ahead = ahead
  BY DEF TheList
<1>2. /\ now \in 0..Cutoff /\ others \in 0..Capacity /\ GoodList(TheList)
      /\ GoodBooks(booking) /\ ClaimsGood(entry, booking) /\ ClaimsLive(now, entry, booking)
      /\ CallsGood(call, entry, booking) /\ SeatsAt(now, entry, booking, others) >= 0
  BY <1>1 DEF WaitInv, Good, Ready
<1>3. /\ entry \in Entries /\ booking \in Books /\ call \in Calls
      /\ ahead \subseteq Listed(entry) \X Listed(entry) /\ InOrder(Listed(entry), ahead)
  BY <1>1, <1>2 DEF GoodList, GoodBooks, CallsGood
<1>4. now \in Int /\ others \in Int
  BY <1>2, Sizings
<1>5. /\ SeatsLeft(entry, booking, others) = SeatsAt(now, entry, booking, others)
      /\ SeatsAt(now, entry, booking, others) \in Int
  BY <1>3, <1>4, SeatsAre
<1>. QED
  BY <1>1, <1>2, <1>3, <1>4, <1>5

LEMMA WalkStep ==
  ASSUME NEW b, NEW o, Ready(now, TheList, b, call, o), Becomes(Walk(TheList, b, o)),
         booking' = b, others' = o, UNCHANGED <<now, call>>
  PROVE  WaitInv'
<1>1. Good(now, Walk(TheList, b, o), b, call, o)
  BY WalkGood
<1>2. GoodList(Walk(TheList, b, o))
  BY <1>1 DEF Good, Ready
<1>. QED
  BY <1>1, <1>2, InvNext

LEMMA TickStep == ASSUME WaitInv, Tick PROVE WaitInv'
BY WalkStep DEF Tick, WaitInv, Good

LEMMA AsksStep ==
  ASSUME WaitInv, NEW p \in People, NEW at \in {"join", "order"}, NEW claim \in Nat,
         Asks(p, at, claim)
  PROVE  WaitInv'
<1>. DEFINE w == Walk(TheList, booking, others)
            r == [NoCall EXCEPT !.at = at, !.claim = claim]
            c == [call EXCEPT ![p] = r]
<1>1. Good(now, w, booking, call, others)
  BY WalkGood DEF WaitInv, Good
<1>2. /\ r \in [at : {"none", "join", "order", "opening"}, claim : Nat,
               booking : Bookings \union {None}, released : Olds]
      /\ r.at = at
  BY NoCallIs
<1>3. at = "join" => w.entry[p].state = "none"
  <2>1. at = "join" => entry[p].state = "none"
    BY DEF Asks
  <2>. QED
    BY <2>1, Parts, WalkIs
<1>4. Becomes(w) /\ call' = c /\ UNCHANGED <<now, booking, others>>
  BY DEF Asks
<1>. HIDE DEF w, r
<1>5. CallsGood(c, w.entry, booking)
  <2>1. CallGood(r, p, w.entry, booking)
    BY <1>2, <1>3 DEF CallGood
  <2>2. CallsGood(call, w.entry, booking)
    BY <1>1 DEF Good, Ready
  <2>. QED
    BY <1>2, <2>1, <2>2, CallMoves
<1>6. Good(now, w, booking, c, others) /\ GoodList(w)
  BY <1>1, <1>5 DEF Good, Ready
<1>. QED
  BY <1>4, <1>6, InvNext

\* One place leaves.
LEMMA LeavesKeeps ==
  ASSUME NEW t, NEW l, NEW b, NEW c, NEW o, Good(t, l, b, c, o),
         NEW p \in People, l.entry[p].state \in LiveStates
  PROVE  /\ Good(t, Leaves(l, {p}), b, c, o)
         /\ SeatsAt(t, Leaves(l, {p}).entry, b, o) >= SeatsAt(t, l.entry, b, o)
         /\ \A q \in People : Leaves(l, {p}).entry[q].state = "claimed" =>
              q # p /\ Leaves(l, {p}).entry[q] = l.entry[q]
<1>. DEFINE w == Leaves(l, {p})
<1>1. /\ GoodList(l) /\ l.entry \in Entries /\ b \in Books /\ t \in Int /\ o \in Int
      /\ ClaimsGood(l.entry, b) /\ ClaimsLive(t, l.entry, b) /\ CallsGood(c, l.entry, b)
      /\ SeatsAt(t, l.entry, b, o) >= 0
  BY Sizings DEF Good, Ready, GoodList, GoodBooks
<1>2. /\ GoodList(w) /\ w.entry \in Entries
      /\ \A q \in People : w.entry[q] = IF q = p THEN Left ELSE l.entry[q]
  <2>1. /\ GoodList(w)
        /\ w.entry = [q \in People |-> IF q \in {p} THEN Left ELSE l.entry[q]]
    BY <1>1, LeavesGood
  <2>. QED
    BY <2>1 DEF GoodList
<1>. HIDE DEF w
<1>3. /\ \A q \in People : w.entry[q].state = "claimed" =>
           q # p /\ l.entry[q].state = "claimed" /\ w.entry[q] = l.entry[q]
      /\ \A q \in People : l.entry[q].state = "none" => w.entry[q].state = "none"
      /\ \A q \in People : w.entry[q].state = "offered" => w.entry[q] = l.entry[q]
  BY <1>2, RowsAre DEF LiveStates
<1>4. ClaimsGood(w.entry, b) /\ ClaimsLive(t, w.entry, b)
  BY <1>1, <1>3 DEF ClaimsGood, ClaimRight, ClaimsLive
<1>5. CallsGood(c, w.entry, b)
  BY <1>1, <1>3, CallsStay
<1>6. SeatsAt(t, w.entry, b, o) >= 0 /\ SeatsAt(t, w.entry, b, o) >= SeatsAt(t, l.entry, b, o)
  <2>1. \A q \in People : OfferSeats(t, w.entry)[q] <= OfferSeats(t, l.entry)[q]
    <3>. SUFFICES ASSUME NEW q \in People
                  PROVE  OfferSeats(t, w.entry)[q] <= OfferSeats(t, l.entry)[q]
      OBVIOUS
    <3>1. OfferSeats(t, l.entry)[q] \in Nat
      BY <1>1, SeatsNat
    <3>2. CASE w.entry[q].state = "offered"
      BY <1>3, <3>1, <3>2 DEF OfferSeats
    <3>3. CASE w.entry[q].state # "offered"
      BY <3>1, <3>3 DEF OfferSeats
    <3>. QED
      BY <3>2, <3>3
  <2>2. \A i \in Bookings : HoldSeats(t, b)[i] <= HoldSeats(t, b)[i]
    BY <1>1, HoldsSame
  <2>3. SeatsAt(t, w.entry, b, o) >= SeatsAt(t, l.entry, b, o)
    BY <1>1, <1>2, <2>1, <2>2, SeatsGrow
  <2>4. SeatsAt(t, w.entry, b, o) \in Int /\ SeatsAt(t, l.entry, b, o) \in Int
    BY <1>1, <1>2, SeatsNat, Sizings DEF SeatsAt
  <2>. QED
    BY <1>1, <2>3, <2>4
<1>. QED
  BY <1>2, <1>3, <1>4, <1>5, <1>6 DEF Good, Ready, w

LEMMA RemoveStep == ASSUME WaitInv, NEW p \in People, OwnerRemove(p) PROVE WaitInv'
<1>. DEFINE l == Walk(TheList, booking, others)
            u == Leaves(l, {p})
            w == Walk(u, booking, others)
<1>1. /\ l.entry[p].state \in LiveStates /\ Becomes(w)
      /\ UNCHANGED <<now, booking, call, others>>
  BY DEF OwnerRemove
<1>2. Good(now, l, booking, call, others)
  BY WalkGood DEF WaitInv, Good
<1>. HIDE DEF l
<1>3. Good(now, u, booking, call, others)
  BY <1>1, <1>2, LeavesKeeps
<1>. HIDE DEF u
<1>4. Good(now, w, booking, call, others) /\ GoodList(w)
  <2>1. Good(now, w, booking, call, others)
    BY <1>3, WalkGood DEF Good
  <2>. QED
    BY <2>1 DEF Good, Ready
<1>. HIDE DEF w
<1>. QED
  BY <1>1, <1>4, InvNext

LEMMA OwnerOfferStep == ASSUME WaitInv, NEW p \in People, OwnerOffer(p) PROVE WaitInv'
<1>. DEFINE l == Walk(TheList, booking, others)
            w == [l EXCEPT !.entry[p] = Offered(@, OfferEnds)]
<1>1. /\ l.entry[p].state = "waiting" /\ now < Cutoff /\ OffersOpen
      /\ Party[p] <= SeatsLeft(l.entry, booking, others) /\ l.entry[p].offers <= MaxOffers
      /\ Becomes(w) /\ UNCHANGED <<now, booking, call, others>>
  BY DEF OwnerOffer
<1>2. Good(now, l, booking, call, others)
  BY WalkGood DEF WaitInv, Good
<1>. HIDE DEF l
<1>3. /\ GoodList(l) /\ l.entry \in Entries /\ booking \in Books /\ others \in Int /\ now \in Int
      /\ now \in 0..Cutoff
      /\ l = [entry |-> l.entry, ahead |-> l.ahead]
      /\ ClaimsGood(l.entry, booking) /\ ClaimsLive(now, l.entry, booking)
      /\ CallsGood(call, l.entry, booking)
  BY <1>2, Parts DEF Good, Ready, GoodList
<1>4. /\ w = [entry |-> w.entry, ahead |-> l.ahead]
      /\ w.entry = [l.entry EXCEPT ![p] = Offered(l.entry[p], OfferEnds)]
  BY <1>3
<1>5. /\ Offered(l.entry[p], OfferEnds) \in EntryRow
      /\ Offered(l.entry[p], OfferEnds).state = "offered"
      /\ Offered(l.entry[p], OfferEnds).ends = OfferEnds /\ OfferEnds > now
  BY <1>1, <1>3, RowsAre, OfferTimes DEF Entries
<1>. HIDE DEF w
<1>6. /\ w.entry \in Entries /\ \A q \in People \ {p} : w.entry[q] = l.entry[q]
      /\ w.entry[p] = Offered(l.entry[p], OfferEnds)
  BY <1>3, <1>4, <1>5 DEF Entries
<1>7. GoodList(w)
  <2>1. Listed(w.entry) = Listed(l.entry)
    BY <1>1, <1>5, <1>6 DEF Listed, LiveStates
  <2>. QED
    BY <1>3, <1>4, <1>6, <2>1 DEF GoodList
<1>8. /\ \A q \in People : w.entry[q].state = "claimed" =>
           l.entry[q].state = "claimed" /\ w.entry[q] = l.entry[q]
      /\ \A q \in People : l.entry[q].state = "none" => w.entry[q].state = "none"
  BY <1>1, <1>5, <1>6
<1>9. ClaimsGood(w.entry, booking) /\ ClaimsLive(now, w.entry, booking)
  BY <1>3, <1>8 DEF ClaimsGood, ClaimRight, ClaimsLive
<1>10. CallsGood(call, w.entry, booking)
  BY <1>3, <1>8, CallsStay
<1>11. SeatsAt(now, w.entry, booking, others) >= 0
  <2>1. SeatsAt(now, w.entry, booking, others)
          = SeatsAt(now, l.entry, booking, others) + OfferSeats(now, l.entry)[p]
            - OfferSeats(now, w.entry)[p]
    BY <1>3, <1>6, OfferMoves
  <2>2. OfferSeats(now, l.entry)[p] = 0 /\ OfferSeats(now, w.entry)[p] = Party[p]
    BY <1>1, <1>5, <1>6 DEF OfferSeats
  <2>3. /\ SeatsLeft(l.entry, booking, others) = SeatsAt(now, l.entry, booking, others)
        /\ SeatsAt(now, l.entry, booking, others) \in Int
    BY <1>3, SeatsAre
  <2>. QED
    BY <1>1, <2>1, <2>2, <2>3, Sizings
<1>12. Good(now, w, booking, call, others)
  BY <1>2, <1>7, <1>9, <1>10, <1>11 DEF Good, Ready
<1>. QED
  BY <1>1, <1>7, <1>12, InvNext

-----------------------------------------------------------------------------
(* The other steps.                                                         *)

LEMMA JoinStep == ASSUME WaitInv, NEW p \in People, Join(p) PROVE WaitInv'
<1>. DEFINE w == [entry |-> entry', ahead |-> ahead']
            row == [entry[p] EXCEPT !.state = "waiting"]
<1>1. /\ call[p].at = "join" /\ entry' = [entry EXCEPT ![p] = row]
      /\ ahead' = ahead \union (Listed(entry) \X {p})
      /\ call' = [call EXCEPT ![p] = NoCall] /\ UNCHANGED <<now, booking, others>>
  BY DEF Join
<1>2. entry[p].state = "none"
  BY <1>1, Parts DEF CallsGood, CallGood
<1>3. row \in EntryRow /\ row.state = "waiting"
  BY Parts DEF Entries, EntryRow, LiveStates
<1>. HIDE DEF row
<1>4. /\ entry' \in Entries /\ \A q \in People \ {p} : entry'[q] = entry[q]
      /\ entry'[p].state = "waiting"
  BY <1>1, <1>3, Parts DEF Entries
<1>5. Listed(entry') = Listed(entry) \union {p} /\ p \notin Listed(entry)
  BY <1>2, <1>4 DEF Listed, LiveStates
<1>6. ahead' \subseteq Listed(entry') \X Listed(entry') /\ InOrder(Listed(entry'), ahead')
  <2>1. ahead' \subseteq Listed(entry') \X Listed(entry')
    BY <1>1, <1>5, Parts
  <2>2. \A q, s \in Listed(entry') : <<q, s>> \in ahead' <=>
          \/ q # p /\ s # p /\ <<q, s>> \in ahead
          \/ q # p /\ s = p
    BY <1>1, <1>5, Parts
  <2>3. InOrder(Listed(entry'), ahead')
    BY <1>5, <2>2, Parts DEF InOrder
  <2>. QED
    BY <2>1, <2>3
<1>7. GoodList(w) /\ Becomes(w)
  BY <1>4, <1>6 DEF GoodList, Becomes
<1>8. /\ \A q \in People : entry'[q].state = "claimed" =>
           entry[q].state = "claimed" /\ entry'[q] = entry[q]
      /\ \A q \in People : q # p /\ entry[q].state = "none" => entry'[q].state = "none"
      /\ \A q \in People : entry'[q].state = "offered" => entry'[q] = entry[q]
  BY <1>4
<1>9. ClaimsGood(entry', booking) /\ ClaimsLive(now, entry', booking)
  BY <1>8, Parts DEF ClaimsGood, ClaimRight, ClaimsLive
<1>10. CallsGood(call', entry', booking)
  <2>1. CallsGood(call', entry, booking)
    BY <1>1, CallOver, Parts
  <2>2. call'[p].at = "none"
    BY <1>1, NoCallIs, Parts DEF Calls
  <2>3. \A q \in People : CallGood(call'[q], q, entry, booking)
    BY <2>1 DEF CallsGood
  <2>4. \A q \in People : DOMAIN call'[q].released \subseteq Bookings
    BY <2>1 DEF CallsGood, Calls, Olds
  <2>5. \A q \in People : CallGood(call'[q], q, entry', booking)
    BY <1>8, <2>2, <2>3, <2>4 DEF CallGood
  <2>. QED
    BY <2>1, <2>5 DEF CallsGood
<1>11. SeatsAt(now, entry', booking, others) >= 0
  <2>1. \A q \in People : OfferSeats(now, entry')[q] <= OfferSeats(now, entry)[q]
    BY <1>8, Sizings DEF OfferSeats
  <2>2. \A i \in Bookings : HoldSeats(now, booking)[i] <= HoldSeats(now, booking)[i]
    BY Parts, HoldsSame
  <2>3. SeatsAt(now, entry', booking, others) >= SeatsAt(now, entry, booking, others)
    BY <1>4, <2>1, <2>2, Parts, SeatsGrow
  <2>4. SeatsAt(now, entry', booking, others) \in Int
    BY <1>4, Parts, SeatsAre
  <2>. QED
    BY <2>3, <2>4, Parts
<1>12. Good(now, w, booking, call', others)
  BY <1>7, <1>9, <1>10, <1>11, Parts DEF Good, Ready
<1>. QED
  BY <1>1, <1>7, <1>12, InvNext

LEMMA DropStep == ASSUME WaitInv, NEW p \in People, Drop(p) PROVE WaitInv'
<1>1. call' = [call EXCEPT ![p] = NoCall] /\ UNCHANGED <<now, entry, ahead, booking, others>>
  BY DEF Drop
<1>2. CallsGood(call', entry, booking)
  BY <1>1, CallOver, Parts
<1>3. Good(now, TheList, booking, call', others)
  BY <1>2, Parts DEF Good, Ready, WaitInv
<1>4. TheList' = TheList
  BY <1>1 DEF TheList
<1>. QED
  BY <1>1, <1>3, <1>4 DEF WaitInv

LEMMA OthersBookStep == ASSUME WaitInv, NEW n \in Int, OthersBook(n) PROVE WaitInv'
<1>1. /\ n \in 1..SeatsLeft(entry, booking, others) /\ others' = others + n
      /\ UNCHANGED <<now, entry, ahead, booking, call>>
  BY DEF OthersBook
<1>2. /\ Sum(HoldSeats(now, booking), Bookings) \in Nat /\ Sum(OfferSeats(now, entry), People) \in Nat
  BY Parts, SeatsNat
<1>3. n >= 1 /\ n <= SeatsAt(now, entry, booking, others)
  BY <1>1, Parts
<1>4. others' \in 0..Capacity /\ SeatsAt(now, entry, booking, others') >= 0
  BY <1>1, <1>2, <1>3, Parts, Sizings DEF SeatsAt
<1>5. Good(now, TheList, booking, call, others')
  BY <1>4, Parts DEF Good, Ready
<1>6. TheList' = TheList
  BY <1>1 DEF TheList
<1>. QED
  BY <1>1, <1>5, <1>6 DEF WaitInv

LEMMA OthersCancelStep == ASSUME WaitInv, NEW n \in Int, OthersCancel(n) PROVE WaitInv'
<1>1. /\ n \in 1..others /\ Becomes(Walk(TheList, booking, others - n))
      /\ booking' = booking /\ others' = others - n /\ UNCHANGED <<now, call>>
  BY DEF OthersCancel, Freed
<1>2. others - n \in 0..Capacity
  BY <1>1, Parts, Sizings
<1>3. SeatsAt(now, entry, booking, others - n) >= 0
  <2>1. /\ Sum(HoldSeats(now, booking), Bookings) \in Nat /\ Sum(OfferSeats(now, entry), People) \in Nat
    BY Parts, SeatsNat
  <2>. QED
    BY <1>1, <2>1, Parts, Sizings DEF SeatsAt
<1>4. Ready(now, TheList, booking, call, others - n)
  BY <1>2, <1>3, Parts DEF Ready
<1>. QED
  BY <1>1, <1>4, WalkStep

LEMMA CancelWalks ==
  ASSUME WaitInv, NEW i \in Bookings, Cancel(i)
  PROVE  /\ Ready(now, TheList, booking', call, others)
         /\ Becomes(Walk(TheList, booking', others)) /\ UNCHANGED <<now, call, others>>
<1>. DEFINE row == [NoBooking EXCEPT !.status = "cancelled"]
            b == [booking EXCEPT ![i] = row]
<1>1. /\ Becomes(Walk(TheList, b, others)) /\ booking' = b /\ others' = others
      /\ UNCHANGED <<now, call>>
  BY DEF Cancel, Freed
<1>2. row \in BookingRow /\ row.status = "cancelled" /\ row.until = 0
  BY BookRowsAre DEF BookingRow
<1>. HIDE DEF row
<1>3. /\ b \in Books /\ \A j \in Bookings \ {i} : b[j] = booking[j]
      /\ b[i].status = "cancelled" /\ b[i].until = 0
  BY <1>2, Parts DEF Books
<1>. HIDE DEF b
<1>4. GoodBooks(b)
  BY <1>3, Parts DEF GoodBooks
<1>5. ClaimsGood(entry, b)
  BY <1>3, Parts DEF ClaimsGood, ClaimRight
<1>6. CallsGood(call, entry, b)
  <2>1. \A j \in Bookings : booking[j].status # "none" => b[j].status # "none"
    BY <1>3
  <2>. QED
    BY <2>1, Parts, CallsStay
<1>7. SeatsAt(now, entry, b, others) >= 0
  <2>1. SeatsAt(now, entry, b, others)
          = SeatsAt(now, entry, booking, others) + HoldSeats(now, booking)[i] - HoldSeats(now, b)[i]
    BY <1>3, Parts, HoldMoves
  <2>2. HoldSeats(now, b)[i] = 0 /\ HoldSeats(now, booking)[i] \in Nat
    <3>1. HoldSeats(now, booking)[i] \in Nat
      BY Parts, SeatsNat
    <3>. QED
      BY <1>3, <3>1 DEF HoldSeats, LiveAt
  <2>. QED
    BY <2>1, <2>2, Parts
<1>8. Ready(now, TheList, b, call, others)
  BY <1>4, <1>5, <1>6, <1>7, Parts DEF Ready
<1>. QED
  BY <1>1, <1>8

LEMMA CancelStep == ASSUME WaitInv, NEW i \in Bookings, Cancel(i) PROVE WaitInv'
<1>1. /\ Ready(now, TheList, booking', call, others)
      /\ Becomes(Walk(TheList, booking', others)) /\ UNCHANGED <<now, call, others>>
  BY CancelWalks
<1>. QED
  BY <1>1, WalkStep

LEMMA OpenedStep == ASSUME WaitInv, NEW p \in People, Opened(p) PROVE WaitInv'
<1>. DEFINE i == call[p].booking
            b == [booking EXCEPT ![i].open = TRUE]
            l == IF call[p].claim # 0 THEN Walk(TheList, booking, others) ELSE TheList
            c == [call EXCEPT ![p] = NoCall]
<1>1. /\ call[p].at = "opening" /\ booking' = b /\ call' = c /\ Becomes(l)
      /\ UNCHANGED <<now, others>>
  BY DEF Opened, Becomes, TheList
<1>2. i \in Bookings
  BY <1>1, Parts DEF CallsGood, CallGood
<1>3. Good(now, l, booking, call, others)
  BY WalkGood DEF WaitInv, Good
<1>4. /\ b \in Books
      /\ \A j \in Bookings : /\ b[j].status = booking[j].status /\ b[j].until = booking[j].until
                             /\ b[j].party = booking[j].party /\ b[j].person = booking[j].person
  <2>1. booking[i] \in BookingRow
    BY <1>2, Parts DEF Books
  <2>2. [booking[i] EXCEPT !.open = TRUE] \in BookingRow
    BY <2>1 DEF BookingRow
  <2>3. b = [booking EXCEPT ![i] = [booking[i] EXCEPT !.open = TRUE]]
    OBVIOUS
  <2>4. b \in Books
    BY <2>2, <2>3, Parts DEF Books
  <2>5. ASSUME NEW j \in Bookings
        PROVE  /\ b[j].status = booking[j].status /\ b[j].until = booking[j].until
               /\ b[j].party = booking[j].party /\ b[j].person = booking[j].person
    <3>1. CASE j = i
      BY <2>1, <2>3, <3>1, Parts DEF Books, BookingRow
    <3>2. CASE j # i
      BY <2>3, <3>2, Parts DEF Books
    <3>. QED
      BY <3>1, <3>2
  <2>. QED
    BY <2>4, <2>5
<1>. HIDE DEF b, l, c, i
<1>5. /\ GoodList(l) /\ ClaimsGood(l.entry, booking) /\ ClaimsLive(now, l.entry, booking)
      /\ CallsGood(call, l.entry, booking) /\ SeatsAt(now, l.entry, booking, others) >= 0
  BY <1>3 DEF Good, Ready
<1>6. GoodBooks(b)
  BY <1>4, Parts DEF GoodBooks
<1>7. ClaimsGood(l.entry, b) /\ ClaimsLive(now, l.entry, b)
  BY <1>4, <1>5 DEF ClaimsGood, ClaimRight, ClaimsLive, LiveAt
<1>8. CallsGood(c, l.entry, b)
  <2>1. CallsGood(call, l.entry, b)
    BY <1>4, <1>5, CallsStay
  <2>. QED
    BY <2>1, CallOver DEF c
<1>9. SeatsAt(now, l.entry, b, others) = SeatsAt(now, l.entry, booking, others)
  <2>1. HoldSeats(now, b) = HoldSeats(now, booking)
    BY <1>4 DEF HoldSeats, LiveAt
  <2>. QED
    BY <2>1 DEF SeatsAt
<1>10. Good(now, l, b, c, others)
  BY <1>5, <1>6, <1>7, <1>8, <1>9, Parts DEF Good, Ready
<1>. QED
  BY <1>1, <1>5, <1>10, InvNext

LEMMA TimeStep == ASSUME WaitInv, Time PROVE WaitInv'
<1>1. /\ now < Cutoff /\ now' = now + 1
      /\ booking' = [i \in Bookings |-> IF booking[i].until > now + 1 THEN booking[i]
                                         ELSE Ended(booking[i])]
      /\ UNCHANGED <<entry, ahead, call, others>>
  BY DEF Time
<1>2. now' \in 0..Cutoff /\ now' \in Int
  BY <1>1, Parts, Sizings
<1>3. /\ booking' \in Books
      /\ \A i \in Bookings :
           /\ booking'[i].status = booking[i].status /\ booking'[i].party = booking[i].party
           /\ booking'[i].person = booking[i].person /\ booking[i].until \in Int
           /\ booking'[i].until = IF booking[i].until > now + 1 THEN booking[i].until ELSE 0
  <2>1. \A i \in Bookings : booking[i] \in BookingRow
    BY Parts DEF Books
  <2>2. \A i \in Bookings : booking[i].until \in Int
    BY <2>1, Sizings DEF BookingRow
  <2>3. booking' \in Books
    BY <1>1, <2>1, BookRowsAre DEF Books
  <2>. QED
    BY <1>1, <2>1, <2>2, <2>3, BookRowsAre
<1>4. GoodBooks(booking')
  BY <1>3, Parts DEF GoodBooks
<1>5. ClaimsGood(entry, booking')
  BY <1>3, Parts DEF ClaimsGood, ClaimRight
<1>6. ClaimsLive(now', entry, booking')
  <2>. SUFFICES ASSUME NEW p \in People, entry[p].state = "claimed", entry[p].ends > now'
                PROVE  LiveAt(now', booking'[entry[p].booking])
    BY DEF ClaimsLive
  <2>1. entry[p].ends > now /\ entry[p].ends \in Int
    BY <1>1, Parts, Sizings DEF Entries, EntryRow
  <2>2. entry[p].booking \in Bookings /\ LiveAt(now, booking[entry[p].booking])
        /\ booking[entry[p].booking].until \in {0, entry[p].ends}
    BY <2>1, Parts DEF ClaimsGood, ClaimRight, ClaimsLive
  <2>. QED
    BY <1>1, <1>3, <2>1, <2>2, Parts DEF LiveAt
<1>7. CallsGood(call, entry, booking')
  BY <1>3, Parts, CallsStay
<1>8. SeatsAt(now', entry, booking', others) >= 0
  <2>1. \A i \in Bookings : HoldSeats(now', booking')[i] <= HoldSeats(now, booking)[i]
    <3>1. \A i \in Bookings : booking[i].party \in Nat
      BY Parts, Sizings DEF Books, BookingRow
    <3>. QED
      BY <1>1, <1>3, <3>1, Parts DEF HoldSeats, LiveAt
  <2>2. \A p \in People : OfferSeats(now', entry)[p] <= OfferSeats(now, entry)[p]
    <3>1. \A p \in People : entry[p].ends \in Int
      BY Parts, Sizings DEF Entries, EntryRow
    <3>2. now \in Int /\ \A p \in People : Party[p] \in Nat
      BY Parts, Sizings
    <3>. QED
      BY <1>1, <3>1, <3>2 DEF OfferSeats
  <2>3. SeatsAt(now', entry, booking', others) >= SeatsAt(now, entry, booking, others)
    <3>1. /\ now \in Int /\ others \in Int /\ others <= others
          /\ entry \in Entries /\ booking \in Books
      BY Parts
    <3>. QED
      BY <1>2, <1>3, <2>1, <2>2, <3>1, SeatsGrow
  <2>4. SeatsAt(now', entry, booking', others) \in Int
    BY <1>2, <1>3, Parts, SeatsNat, Sizings DEF SeatsAt
  <2>. QED
    BY <2>3, <2>4, Parts
<1>9. Good(now', TheList, booking', call, others)
  BY <1>2, <1>4, <1>5, <1>6, <1>7, <1>8, Parts DEF Good, Ready
<1>10. TheList' = TheList
  BY <1>1 DEF TheList
<1>. QED
  BY <1>1, <1>9, <1>10 DEF WaitInv

LEMMA CaptureStep == ASSUME WaitInv, NEW i \in Bookings, Capture(i) PROVE WaitInv'
<1>1. /\ booking[i].status = "pending" /\ booking[i] \in BookingRow
      /\ booking[i].person \in People /\ booking[i].party \in Sizes \union {0}
  <2>1. booking[i].status = "pending" /\ booking[i] \in BookingRow
    BY Parts DEF Capture, Books
  <2>. QED
    BY <2>1, Parts DEF GoodBooks, BookingRow
<1>2. CASE HoldLive(booking[i]) \/ booking[i].party <= SeatsLeft(entry, booking, others)
  <2>. DEFINE row == [NoBooking EXCEPT !.status = "confirmed", !.party = booking[i].party]
              b == [booking EXCEPT ![i] = row]
              p == booking[i].person
              l == Booked(TheList, p)
  <2>1. booking' = b /\ Becomes(l) /\ UNCHANGED <<now, call, others>>
    BY <1>2 DEF Capture
  <2>2. /\ row \in BookingRow /\ row.status = "confirmed" /\ row.party = booking[i].party
    BY <1>1, BookRowsAre DEF BookingRow
  <2>. HIDE DEF row
  <2>3. /\ b \in Books /\ \A j \in Bookings \ {i} : b[j] = booking[j]
        /\ b[i].status = "confirmed" /\ b[i].party = booking[i].party
    BY <2>2, Parts DEF Books
  <2>4. /\ Good(now, l, booking, call, others)
        /\ SeatsAt(now, l.entry, booking, others) >= SeatsAt(now, entry, booking, others)
        /\ \A q \in People : l.entry[q].state = "claimed" => l.entry[q].booking # i
    <3>1. \A q \in People : entry[q].state = "claimed" /\ entry[q].booking = i => q = p
      BY <1>1, Parts DEF ClaimsGood, ClaimRight
    <3>2. CASE entry[p].state \in LiveStates
      <4>1. l = Leaves(TheList, {p}) /\ TheList.entry = entry
        BY <3>2, Parts DEF Booked
      <4>. HIDE DEF l
      <4>2. /\ Good(now, l, booking, call, others)
            /\ SeatsAt(now, l.entry, booking, others) >= SeatsAt(now, entry, booking, others)
            /\ \A q \in People : l.entry[q].state = "claimed" => q # p /\ l.entry[q] = entry[q]
        BY <1>1, <3>2, <4>1, LeavesKeeps DEF WaitInv
      <4>. QED
        BY <3>1, <4>2
    <3>3. CASE entry[p].state \notin LiveStates
      <4>1. l = TheList /\ TheList.entry = entry
        BY <3>3, Parts DEF Booked
      <4>. HIDE DEF l
      <4>2. SeatsAt(now, entry, booking, others) >= SeatsAt(now, entry, booking, others)
        BY Parts
      <4>3. \A q \in People : entry[q].state = "claimed" => entry[q].booking # i
        BY <3>1, <3>3 DEF LiveStates
      <4>. QED
        BY <4>1, <4>2, <4>3 DEF WaitInv
    <3>. QED
      BY <3>2, <3>3
  <2>. HIDE DEF b, l
  <2>5. /\ GoodList(l) /\ l.entry \in Entries
        /\ ClaimsGood(l.entry, booking) /\ ClaimsLive(now, l.entry, booking)
        /\ CallsGood(call, l.entry, booking)
    BY <2>4 DEF Good, Ready, GoodList
  <2>6. GoodBooks(b)
    BY <2>3, Parts DEF GoodBooks
  <2>7. ClaimsGood(l.entry, b) /\ ClaimsLive(now, l.entry, b)
    BY <2>3, <2>4, <2>5 DEF ClaimsGood, ClaimRight, ClaimsLive
  <2>8. CallsGood(call, l.entry, b)
    <3>1. \A j \in Bookings : booking[j].status # "none" => b[j].status # "none"
      BY <2>3
    <3>. QED
      BY <2>5, <3>1, CallsStay
  <2>9. SeatsAt(now, l.entry, b, others) >= 0
    <3>1. SeatsAt(now, l.entry, b, others)
            = SeatsAt(now, l.entry, booking, others) + HoldSeats(now, booking)[i] - HoldSeats(now, b)[i]
      BY <2>3, <2>5, Parts, HoldMoves
    <3>2. /\ HoldSeats(now, b)[i] = booking[i].party
          /\ HoldSeats(now, booking)[i] = IF HoldLive(booking[i]) THEN booking[i].party ELSE 0
      BY <1>1, <2>3 DEF HoldSeats, LiveAt, HoldLive
    <3>3. booking[i].party \in Nat /\ SeatsAt(now, l.entry, booking, others) \in Int
      BY <1>1, <2>5, Parts, Sizings, SeatsAre
    <3>. QED
      BY <1>2, <2>4, <3>1, <3>2, <3>3, Parts
  <2>10. Good(now, l, b, call, others)
    BY <2>5, <2>6, <2>7, <2>8, <2>9, Parts DEF Good, Ready
  <2>. QED
    BY <2>1, <2>5, <2>10, InvNext
<1>3. CASE ~ (HoldLive(booking[i]) \/ booking[i].party <= SeatsLeft(entry, booking, others))
  <2>. DEFINE row == [NoBooking EXCEPT !.status = "cancelled"]
              b == [booking EXCEPT ![i] = row]
  <2>1. booking' = b /\ UNCHANGED <<now, entry, ahead, call, others>>
    BY <1>3 DEF Capture
  <2>2. row \in BookingRow /\ row.status = "cancelled" /\ row.until = 0
    BY BookRowsAre DEF BookingRow
  <2>. HIDE DEF row
  <2>3. /\ b \in Books /\ \A j \in Bookings \ {i} : b[j] = booking[j]
        /\ b[i].status = "cancelled" /\ b[i].until = 0
    BY <2>2, Parts DEF Books
  <2>. HIDE DEF b
  <2>4. GoodBooks(b) /\ ClaimsGood(entry, b)
    BY <2>3, Parts DEF GoodBooks, ClaimsGood, ClaimRight
  <2>5. ClaimsLive(now, entry, b)
    BY <1>3, <2>3, Parts DEF ClaimsLive, LiveAt, HoldLive, ClaimsGood, ClaimRight
  <2>6. CallsGood(call, entry, b)
    <3>1. \A j \in Bookings : booking[j].status # "none" => b[j].status # "none"
      BY <2>3
    <3>. QED
      BY <3>1, Parts, CallsStay
  <2>7. SeatsAt(now, entry, b, others) >= 0
    <3>1. SeatsAt(now, entry, b, others)
            = SeatsAt(now, entry, booking, others) + HoldSeats(now, booking)[i] - HoldSeats(now, b)[i]
      BY <2>3, Parts, HoldMoves
    <3>2. HoldSeats(now, b)[i] = 0 /\ HoldSeats(now, booking)[i] = 0
      BY <1>1, <1>3, <2>3 DEF HoldSeats, LiveAt, HoldLive
    <3>. QED
      BY <3>1, <3>2, Parts
  <2>8. Good(now, TheList, b, call, others)
    BY <2>4, <2>5, <2>6, <2>7, Parts DEF Good, Ready
  <2>9. TheList' = TheList
    BY <2>1 DEF TheList
  <2>. QED
    BY <2>1, <2>8, <2>9 DEF WaitInv
<1>. QED
  BY <1>2, <1>3

LEMMA OrderStep == ASSUME WaitInv, NEW p \in People, NEW n \in Sizes, Order(p, n) PROVE WaitInv'
<1>. DEFINE claim == call[p].claim
            gone == Replaced(p, claim)
            ended == [j \in Bookings |-> IF j \in gone THEN Ended(booking[j]) ELSE booking[j]]
            until == IF claim # 0 THEN entry[p].ends ELSE now + HoldFor
            row == [person |-> p, party |-> n, status |-> "pending", open |-> FALSE,
                    until |-> until]
            Claimed(i) == [entry[p] EXCEPT !.state = "claimed", !.booking = i]
            Rec(i) == [at |-> "opening", claim |-> claim, booking |-> i,
                       released |-> [j \in gone |-> booking[j].until]]
<1>1. PICK i \in Bookings :
        /\ booking[i] = NoBooking /\ booking' = [ended EXCEPT ![i] = row]
        /\ entry' = IF claim = 0 THEN entry ELSE [entry EXCEPT ![p] = Claimed(i)]
        /\ call' = [call EXCEPT ![p] = Rec(i)]
        /\ claim # 0 => ClaimLive(p, claim)
        /\ n <= SeatsLeft(entry, ended, others)
                + (IF claim # 0 THEN HeldFor(entry, ended, p) ELSE 0)
        /\ UNCHANGED <<now, ahead, others>>
  <2>1. ASSUME NEW i \in Bookings
        PROVE  [entry EXCEPT ![p].state = "claimed", ![p].booking = i]
                 = [entry EXCEPT ![p] = Claimed(i)]
    BY Parts DEF Entries
  <2>. QED
    BY <2>1 DEF Order
<1>2. /\ entry[p] \in EntryRow /\ entry[p].ends \in 0..Cutoff
      /\ \A j \in Bookings : booking[j] \in BookingRow /\ booking[j].until \in 0..(Cutoff + HoldFor)
      /\ call[p].claim \in Nat
  BY Parts DEF Entries, EntryRow, Books, BookingRow, Calls
<1>3. \A j \in gone : /\ j \in Bookings /\ booking[j].status = "pending" /\ booking[j].person = p
                      /\ j # i
                      /\ entry[p].state = "claimed" /\ entry[p].booking = j => claim # 0
  BY <1>1, BookRowsAre DEF Replaced, HoldLive
<1>4. /\ ended \in Books
      /\ \A j \in gone : /\ ended[j].status = "pending" /\ ended[j].until = 0
                         /\ ended[j].person = p
      /\ \A j \in Bookings \ gone : ended[j] = booking[j]
  BY <1>2, <1>3, BookRowsAre DEF Books
<1>5. row \in BookingRow
  <2>1. until \in 0..(Cutoff + HoldFor)
    BY <1>2, Parts, Sizings
  <2>. HIDE DEF until
  <2>. QED
    BY <2>1 DEF BookingRow
<1>6. /\ booking' \in Books /\ booking'[i] = row
      /\ \A j \in Bookings \ {i} : booking'[j] = ended[j]
  BY <1>1, <1>4, <1>5 DEF Books
<1>7. /\ row.person = p /\ row.party = n /\ row.status = "pending"
      /\ row.until = until
  OBVIOUS
<1>8. ASSUME NEW j \in Bookings
      PROVE  Claimed(j) \in EntryRow /\ Claimed(j).state = "claimed"
             /\ Claimed(j).booking = j /\ Claimed(j).ends = entry[p].ends
  BY <1>2 DEF EntryRow, LiveStates
<1>9. /\ claim # 0 => entry[p].state \in {"offered", "claimed"} /\ entry[p].ends > now
      /\ claim # 0 => entry' = [entry EXCEPT ![p] = Claimed(i)]
      /\ claim = 0 => entry' = entry
  BY <1>1 DEF ClaimLive
<1>. HIDE DEF ended, row, Claimed
<1>10. entry' \in Entries /\ \A q \in People \ {p} : entry'[q] = entry[q]
  BY <1>8, <1>9, Parts DEF Entries
<1>11. /\ claim # 0 => /\ entry'[p].state = "claimed" /\ entry'[p].booking = i
                       /\ entry'[p].ends = entry[p].ends
       /\ claim = 0 => entry'[p] = entry[p]
  BY <1>8, <1>9, Parts DEF Entries
<1>. DEFINE w == [entry |-> entry', ahead |-> ahead']
<1>12. GoodList(w) /\ Becomes(w)
  <2>1. Listed(entry') = Listed(entry)
    BY <1>9, <1>10, <1>11 DEF Listed, LiveStates
  <2>. QED
    BY <1>1, <1>10, <2>1, Parts DEF GoodList, Becomes
  \* Every claim is the new one, or an old one whose booking is not touched.
<1>13. ASSUME NEW q \in People, entry'[q].state = "claimed"
       PROVE  \/ q = p /\ claim # 0 /\ entry'[q].booking = i
              \/ /\ entry'[q] = entry[q] /\ entry[q].booking # i
                 /\ entry[q].booking \in Bookings \ gone
  <2>1. CASE q = p /\ claim # 0
    BY <1>11, <2>1
  <2>2. CASE q # p \/ claim = 0
    <3>1. entry'[q] = entry[q]
      BY <1>10, <1>11, <2>2
    <3>2. ClaimRight(entry, booking, q)
      BY <1>13, <3>1, Parts DEF ClaimsGood
    <3>. QED
      BY <1>1, <1>3, <2>2, <3>1, <3>2, <1>13, BookRowsAre DEF ClaimRight
  <2>. QED
    BY <2>1, <2>2
<1>14. ClaimsGood(entry', booking')
  <2>1. ASSUME NEW q \in People, entry'[q].state = "claimed"
        PROVE  ClaimRight(entry', booking', q)
    <3>1. CASE q = p /\ claim # 0 /\ entry'[q].booking = i
      BY <1>6, <1>7, <1>11, <3>1 DEF ClaimRight
    <3>2. CASE /\ entry'[q] = entry[q] /\ entry[q].booking # i
               /\ entry[q].booking \in Bookings \ gone
      <4>1. booking'[entry[q].booking] = booking[entry[q].booking]
        BY <1>4, <1>6, <3>2
      <4>2. ClaimRight(entry, booking, q)
        BY <2>1, <3>2, Parts DEF ClaimsGood
      <4>. QED
        BY <3>2, <4>1, <4>2 DEF ClaimRight
    <3>. QED
      BY <1>13, <2>1, <3>1, <3>2
  <2>2. ASSUME NEW q \in People, NEW s \in People, entry'[q].state = "claimed",
               entry'[s].state = "claimed", entry'[q].booking = entry'[s].booking
        PROVE  q = s
    <3>1. \/ q = p /\ entry'[q].booking = i
          \/ entry'[q] = entry[q] /\ entry[q].booking # i
      BY <1>13, <2>2
    <3>2. \/ s = p /\ entry'[s].booking = i
          \/ entry'[s] = entry[s] /\ entry[s].booking # i
      BY <1>13, <2>2
    <3>. QED
      BY <2>2, <3>1, <3>2, Parts DEF ClaimsGood
  <2>. QED
    BY <2>1, <2>2 DEF ClaimsGood
<1>15. ClaimsLive(now, entry', booking')
  <2>. SUFFICES ASSUME NEW q \in People, entry'[q].state = "claimed", entry'[q].ends > now
                PROVE  LiveAt(now, booking'[entry'[q].booking])
    BY DEF ClaimsLive
  <2>1. CASE q = p /\ claim # 0 /\ entry'[q].booking = i
    BY <1>6, <1>7, <1>9, <2>1 DEF LiveAt
  <2>2. CASE /\ entry'[q] = entry[q] /\ entry[q].booking # i
             /\ entry[q].booking \in Bookings \ gone
    <3>1. booking'[entry[q].booking] = booking[entry[q].booking]
      BY <1>4, <1>6, <2>2
    <3>. QED
      BY <2>2, <3>1, Parts DEF ClaimsLive
  <2>. QED
    BY <1>13, <2>1, <2>2
<1>16. GoodBooks(booking')
  BY <1>4, <1>6, <1>7, Parts DEF GoodBooks
<1>17. CallsGood(call', entry', booking')
  <2>1. /\ \A q \in People : entry[q].state = "none" => entry'[q].state = "none"
        /\ \A j \in Bookings : booking[j].status # "none" => booking'[j].status # "none"
    <3>1. \A q \in People : entry[q].state = "none" => entry'[q].state = "none"
      BY <1>9, <1>10, <1>11
    <3>2. \A j \in Bookings : booking[j].status # "none" => booking'[j].status # "none"
      BY <1>4, <1>6, <1>7
    <3>. QED
      BY <3>1, <3>2
  <2>2. booking[i].status = "none"
    BY <1>1, BookRowsAre
  <2>3. CallsGood(call, entry', booking')
    <3>1. \A q \in People : entry'[q].state = "claimed" =>
            \/ entry[q].state = "claimed" /\ entry'[q].booking = entry[q].booking
            \/ booking[entry'[q].booking].status = "none"
      BY <1>13, <2>2
    <3>. QED
      BY <2>1, <3>1, Parts, CallsStay
  <2>. DEFINE old == [j \in gone |-> booking[j].until]
              rec == Rec(i)
  <2>4. old \in Olds /\ DOMAIN old = gone
    <3>1. gone \in SUBSET Bookings /\ old \in [gone -> 0..(Cutoff + HoldFor)]
      BY <1>2, <1>3
    <3>2. DOMAIN old = gone
      OBVIOUS
    <3>. HIDE DEF old, gone
    <3>. QED
      BY <3>1, <3>2 DEF Olds
  <2>5. rec = [at |-> "opening", claim |-> claim, booking |-> i, released |-> old]
    OBVIOUS
  <2>. HIDE DEF old, rec, gone, claim
  <2>6. /\ rec \in [at : {"none", "join", "order", "opening"}, claim : Nat,
                    booking : Bookings \union {None}, released : Olds]
        /\ rec.at = "opening" /\ rec.booking = i /\ rec.released = old
    BY <1>2, <2>4, <2>5 DEF claim
  <2>7. CallGood(rec, p, entry', booking')
    <3>1. \A j \in gone : booking'[j].status # "none"
      BY <1>3, <1>4, <1>6
    <3>2. \A q \in People : entry'[q].state = "claimed" => entry'[q].booking \notin gone
      BY <1>3, <1>13
    <3>. QED
      BY <2>4, <2>6, <3>1, <3>2 DEF CallGood
  <2>8. CallsGood([call EXCEPT ![p] = rec], entry', booking')
    BY <2>3, <2>6, <2>7, CallMoves
  <2>. QED
    BY <1>1, <2>8 DEF rec
<1>18. SeatsAt(now, entry', booking', others) >= 0
  <2>1. /\ SeatsLeft(entry, ended, others) = SeatsAt(now, entry, ended, others)
        /\ SeatsAt(now, entry, ended, others) \in Int
    BY <1>4, Parts, SeatsAre
  <2>2. SeatsAt(now, entry, booking', others)
          = SeatsAt(now, entry, ended, others) + HoldSeats(now, ended)[i] - HoldSeats(now, booking')[i]
    BY <1>4, <1>6, Parts, HoldMoves
  <2>3. HoldSeats(now, ended)[i] = 0
    <3>1. ended[i] = booking[i] /\ booking[i].status = "none"
      BY <1>1, <1>3, <1>4, BookRowsAre
    <3>. QED
      BY <3>1 DEF HoldSeats, LiveAt
  <2>4. n \in Nat /\ HoldSeats(now, booking')[i] \in Nat /\ HoldSeats(now, booking')[i] <= n
    BY <1>6, <1>7, Sizings DEF HoldSeats
  <2>5. SeatsAt(now, entry', booking', others)
          = SeatsAt(now, entry, booking', others) + OfferSeats(now, entry)[p] - OfferSeats(now, entry')[p]
    BY <1>6, <1>10, Parts, OfferMoves
  <2>6. /\ OfferSeats(now, entry)[p] \in Nat
        /\ claim # 0 => OfferSeats(now, entry')[p] = 0
        /\ claim = 0 => OfferSeats(now, entry')[p] = OfferSeats(now, entry)[p]
    <3>1. OfferSeats(now, entry)[p] \in Nat
      BY Parts, SeatsNat
    <3>. QED
      BY <1>11, <3>1 DEF OfferSeats
  <2>7. claim # 0 => HeldFor(entry, ended, p) = OfferSeats(now, entry)[p]
    <3>1. CASE claim # 0 /\ entry[p].state = "offered"
      BY <1>9, <3>1 DEF HeldFor, OfferSeats
    <3>2. CASE claim # 0 /\ entry[p].state = "claimed"
      <4>. DEFINE k == entry[p].booking
      <4>1. k \in Bookings /\ LiveAt(now, booking[k]) /\ booking[k].person = p
        BY <1>9, <3>2, Parts DEF ClaimsGood, ClaimRight, ClaimsLive, LiveAt
      <4>2. k \in gone
        BY <3>2, <4>1 DEF Replaced, LiveAt, HoldLive
      <4>3. ~ HoldLive(ended[k])
        BY <1>4, <4>2, Parts, Sizings DEF HoldLive
      <4>. QED
        BY <3>2, <4>3 DEF HeldFor, OfferSeats
    <3>. QED
      BY <1>9, <3>1, <3>2
  <2>8. n <= SeatsAt(now, entry, ended, others)
             + (IF claim # 0 THEN OfferSeats(now, entry)[p] ELSE 0)
    BY <1>1, <2>1, <2>7
  <2>. HIDE DEF claim
  <2>9. CASE claim = 0
    BY <2>1, <2>2, <2>3, <2>4, <2>5, <2>6, <2>8, <2>9
  <2>10. CASE claim # 0
    BY <2>1, <2>2, <2>3, <2>4, <2>5, <2>6, <2>8, <2>10
  <2>. QED
    BY <2>9, <2>10
<1>19. Good(now, w, booking', call', others)
  BY <1>12, <1>14, <1>15, <1>16, <1>17, <1>18, Parts DEF Good, Ready
<1>. QED
  BY <1>1, <1>12, <1>19, InvNext

\* Razorpay refused: the offer comes back only if it fits, and of the replaced
\* holds those that fit beside it.
LEMMA UnclaimIs ==
  ASSUME WaitInv, NEW b \in Books, NEW i \in Bookings,
         SeatsAt(now, entry, b, others) >= 0
  PROVE  /\ GoodList(Unclaim(TheList, b, others, i))
         /\ \A q \in People : Unclaim(TheList, b, others, i).entry[q].state = "claimed" =>
              /\ Unclaim(TheList, b, others, i).entry[q] = entry[q]
              /\ entry[q].booking # i
         /\ \A q \in People : entry[q].state = "none" =>
              Unclaim(TheList, b, others, i).entry[q].state = "none"
         /\ SeatsAt(now, Unclaim(TheList, b, others, i).entry, b, others) >= 0
<1>. DEFINE claims == {q \in People : entry[q].state = "claimed" /\ entry[q].booking = i}
            stands == {q \in claims : entry[q].ends > now /\ SeatsLeft(entry, b, others) >= Party[q]}
            Back(row) == [row EXCEPT !.state = "offered", !.booking = None]
            m == [entry |-> [q \in People |-> IF q \in stands THEN Back(entry[q]) ELSE entry[q]],
                  ahead |-> ahead]
            l == ToBack(m, claims \ stands)
<1>1. Unclaim(TheList, b, others, i) = l
  <2>1. TheList.entry = entry /\ TheList = [entry |-> entry, ahead |-> ahead]
    BY DEF TheList
  <2>2. \A e : [TheList EXCEPT !.entry = e] = [entry |-> e, ahead |-> ahead]
    BY <2>1
  <2>3. Unclaim(TheList, b, others, i)
          = ToBack([TheList EXCEPT !.entry = [q \in People |->
                     IF q \in stands THEN Back(entry[q]) ELSE entry[q]]], claims \ stands)
    BY <2>1 DEF Unclaim
  <2>. QED
    BY <2>2, <2>3
<1>2. \A row \in EntryRow : /\ Back(row) \in EntryRow /\ Back(row).state = "offered"
                            /\ Back(row).ends = row.ends
  BY DEF EntryRow, LiveStates
<1>3. /\ claims \in SUBSET People /\ stands \in SUBSET claims
      /\ \A q \in claims : entry[q].state = "claimed" /\ entry[q].booking = i
      /\ \A q \in People \ claims : entry[q].state = "claimed" => entry[q].booking # i
      /\ \A q \in stands : entry[q].ends > now /\ SeatsLeft(entry, b, others) >= Party[q]
  OBVIOUS
<1>4. \A q, s \in claims : q = s
  BY <1>3, Parts DEF ClaimsGood
<1>. HIDE DEF claims, stands, Back
<1>5. /\ m.entry \in Entries /\ m.ahead = ahead /\ m = [entry |-> m.entry, ahead |-> m.ahead]
      /\ \A q \in People : m.entry[q] = IF q \in stands THEN Back(entry[q]) ELSE entry[q]
  BY <1>2, Parts DEF Entries
<1>. HIDE DEF m
<1>6. GoodList(m)
  <2>1. Listed(m.entry) = Listed(entry)
    BY <1>2, <1>3, <1>5, Parts DEF Listed, LiveStates, Entries
  <2>. QED
    BY <1>5, <2>1, Parts DEF GoodList
<1>7. /\ GoodList(l)
      /\ \A q \in People : l.entry[q] = IF q \in claims \ stands THEN Waits(entry[q])
                                        ELSE IF q \in stands THEN Back(entry[q]) ELSE entry[q]
  <2>1. /\ claims \ stands \in SUBSET People
        /\ \A q \in claims \ stands : m.entry[q].state \in {"offered", "claimed"}
    BY <1>3, <1>5
  <2>2. /\ GoodList(l)
        /\ l.entry = [q \in People |-> IF q \in claims \ stands THEN Waits(m.entry[q]) ELSE m.entry[q]]
    BY <1>6, <2>1, ToBackGood
  <2>. QED
    BY <1>3, <1>5, <2>2
<1>. HIDE DEF l
<1>8. l.entry \in Entries
  BY <1>7 DEF GoodList
<1>9. ASSUME NEW q \in People
      PROVE  /\ l.entry[q].state = "claimed" => l.entry[q] = entry[q] /\ entry[q].booking # i
             /\ entry[q].state = "none" => l.entry[q].state = "none"
  <2>1. entry[q] \in EntryRow
    BY Parts DEF Entries
  <2>. QED
    BY <1>2, <1>3, <1>7, <2>1, RowsAre
<1>10. /\ SeatsLeft(entry, b, others) = SeatsAt(now, entry, b, others)
       /\ SeatsAt(now, entry, b, others) \in Int /\ SeatsAt(now, l.entry, b, others) \in Int
  BY <1>8, Parts, SeatsAre
<1>11. CASE stands = {}
  <2>1. \A q \in People : l.entry[q].state = "offered" => l.entry[q] = entry[q]
    BY <1>7, <1>11, RowsAre, Parts DEF Entries
  <2>2. \A q \in People : OfferSeats(now, l.entry)[q] <= OfferSeats(now, entry)[q]
    BY <2>1, Sizings DEF OfferSeats
  <2>3. \A j \in Bookings : HoldSeats(now, b)[j] <= HoldSeats(now, b)[j]
    BY Parts, HoldsSame
  <2>4. now \in Int /\ others \in Int /\ others <= others /\ entry \in Entries
    BY Parts
  <2>5. SeatsAt(now, l.entry, b, others) >= SeatsAt(now, entry, b, others)
    BY <1>8, <2>2, <2>3, <2>4, SeatsGrow
  <2>. QED
    BY <1>1, <1>7, <1>9, <1>10, <2>5
<1>12. CASE stands # {}
  <2>1. PICK q \in stands : TRUE
    BY <1>12
  <2>2. q \in People /\ q \in claims /\ \A s \in People \ {q} : l.entry[s] = entry[s]
    BY <1>3, <1>4, <1>7, <2>1
  <2>3. SeatsAt(now, l.entry, b, others)
          = SeatsAt(now, entry, b, others) + OfferSeats(now, entry)[q] - OfferSeats(now, l.entry)[q]
    BY <1>8, <2>2, Parts, OfferMoves
  <2>4. /\ OfferSeats(now, entry)[q] = 0
        /\ OfferSeats(now, l.entry)[q] = Party[q]
    <3>1. entry[q] \in EntryRow /\ entry[q].state = "claimed" /\ entry[q].ends > now
      BY <1>3, <2>1, <2>2, Parts DEF Entries
    <3>2. l.entry[q].state = "offered" /\ l.entry[q].ends > now
      BY <1>2, <1>7, <2>1, <2>2, <3>1
    <3>. QED
      BY <2>2, <3>1, <3>2 DEF OfferSeats
  <2>5. SeatsAt(now, entry, b, others) >= Party[q] /\ Party[q] \in Nat
    BY <1>3, <1>10, <2>1, <2>2, Sizings
  <2>6. SeatsAt(now, l.entry, b, others) >= 0
    BY <1>10, <2>3, <2>4, <2>5
  <2>. QED
    BY <1>1, <1>7, <1>9, <2>6
<1>. QED
  BY <1>11, <1>12

\* Holds brought back take their parties' seats.
LEMMA HoldsReturn ==
  ASSUME NEW t \in Int, NEW e \in Entries, NEW a \in Books, NEW b \in Books, NEW o \in Int,
         NEW R \in SUBSET Bookings,
         \A j \in Bookings \ R : b[j] = a[j],
         \A j \in R : /\ a[j].status = "pending" /\ ~ LiveAt(t, a[j])
                      /\ b[j].party = a[j].party
  PROVE  /\ Sum([j \in Bookings |-> a[j].party], R) \in Nat
         /\ SeatsAt(t, e, b, o) >= SeatsAt(t, e, a, o) - Sum([j \in Bookings |-> a[j].party], R)
<1>. DEFINE P == [j \in Bookings |-> a[j].party]
            F == HoldSeats(t, a)
            H == HoldSeats(t, b)
            K == [j \in Bookings |-> IF j \in R THEN a[j].party ELSE 0]
            S == [j \in Bookings |-> F[j] + K[j]]
<1>1. \A j \in Bookings : a[j].party \in Nat /\ b[j].party \in Nat
  BY Sizings DEF Books, BookingRow
<1>2. \A j \in Bookings : /\ F[j] \in Nat /\ H[j] \in Nat /\ K[j] \in Nat /\ S[j] = F[j] + K[j]
                          /\ H[j] <= S[j]
  <2>1. ASSUME NEW j \in Bookings
        PROVE  F[j] \in Nat /\ H[j] \in Nat /\ K[j] \in Nat /\ H[j] <= F[j] + K[j]
    <3>1. F[j] \in Nat /\ H[j] \in Nat
      BY SeatsNat
    <3>2. CASE j \in R
      <4>1. H[j] <= a[j].party /\ K[j] = a[j].party
        BY <1>1, <3>2 DEF HoldSeats
      <4>. HIDE DEF F, H, K
      <4>. QED
        BY <1>1, <3>1, <4>1
    <3>3. CASE j \notin R
      <4>1. H[j] = F[j] /\ K[j] = 0
        BY <3>3 DEF HoldSeats
      <4>. HIDE DEF F, H, K
      <4>. QED
        BY <3>1, <4>1
    <3>. QED
      BY <3>2, <3>3
  <2>. QED
    BY <2>1
<1>3. \A j \in R : P[j] \in Nat /\ P[j] \in Int /\ P[j] = K[j]
  BY <1>1
<1>4. \A j \in Bookings \ R : K[j] = 0
  OBVIOUS
<1>5. IsFiniteSet(R)
  BY Sizings, FS_Subset
<1>. HIDE DEF P, F, H, K, S
<1>6. Sum(P, R) \in Nat /\ Sum(P, R) = Sum(K, Bookings)
  <2>1. Sum(P, R) \in Nat
    BY <1>3, <1>5, SumNat
  <2>2. Sum(P, R) = Sum(K, Bookings)
    BY <1>3, <1>4, Sizings, SumWithin
  <2>. QED
    BY <2>1, <2>2
<1>7. Sum(S, Bookings) = Sum(F, Bookings) + Sum(K, Bookings)
  <2>1. \A j \in Bookings : F[j] \in Int /\ K[j] \in Int /\ S[j] = F[j] + K[j]
    BY <1>2
  <2>. QED
    BY <2>1, Sizings, SumPairs
<1>8. Sum(H, Bookings) <= Sum(S, Bookings)
  <2>1. \A j \in Bookings : H[j] \in Int /\ S[j] \in Int /\ H[j] <= S[j]
    BY <1>2
  <2>. QED
    BY <2>1, Sizings, SumGrows
<1>9. Sum(F, Bookings) \in Nat /\ Sum(H, Bookings) \in Nat /\ Sum(OfferSeats(t, e), People) \in Nat
  BY SeatsNat DEF F, H
<1>10. SeatsAt(t, e, b, o) >= SeatsAt(t, e, a, o) - Sum(P, R)
  <2>1. /\ SeatsAt(t, e, b, o) = Capacity - o - Sum(H, Bookings) - Sum(OfferSeats(t, e), People)
        /\ SeatsAt(t, e, a, o) = Capacity - o - Sum(F, Bookings) - Sum(OfferSeats(t, e), People)
    BY DEF SeatsAt, F, H
  <2>. QED
    BY <1>6, <1>7, <1>8, <1>9, <2>1, Sizings
<1>. QED
  BY <1>6, <1>10 DEF P

LEMMA RefusedStep == ASSUME WaitInv, NEW p \in People, Refused(p) PROVE WaitInv'
<1>. DEFINE i == call[p].booking
            old == call[p].released
            ended == IF booking[i].status = "pending"
                     THEN [booking EXCEPT ![i] = Ended(@)] ELSE booking
            l == Unclaim(TheList, ended, others, i)
            able == {j \in DOMAIN old : /\ ended[j].status = "pending" /\ ~ HoldLive(ended[j])
                                        /\ old[j] > now}
            P == [j \in Bookings |-> ended[j].party]
<1>1. call[p].at = "opening" /\ CallGood(call[p], p, entry, booking)
  BY Parts DEF Refused, CallsGood
<1>2. i \in Bookings /\ DOMAIN old \subseteq Bookings
      /\ \A j \in DOMAIN old : old[j] \in 0..(Cutoff + HoldFor)
      /\ \A q \in People : entry[q].state = "claimed" => entry[q].booking \notin DOMAIN old
  <2>1. old \in Olds
    BY Parts DEF Calls
  <2>2. DOMAIN old \subseteq Bookings /\ \A j \in DOMAIN old : old[j] \in 0..(Cutoff + HoldFor)
    BY <2>1 DEF Olds
  <2>. QED
    BY <1>1, <2>2 DEF CallGood
<1>3. PICK R \in SUBSET able :
        /\ R = {} \/ MapThenSumSet(LAMBDA j : ended[j].party, R) <= SeatsLeft(l.entry, ended, others)
        /\ booking' = [j \in Bookings |-> IF j \in R THEN [ended[j] EXCEPT !.until = old[j]]
                                          ELSE ended[j]]
  BY DEF Refused
<1>4. Becomes(l) /\ call' = [call EXCEPT ![p] = NoCall] /\ UNCHANGED <<now, others>>
  BY DEF Refused
<1>5. R \in SUBSET Bookings /\ \A j \in R : /\ j \in DOMAIN old /\ ended[j].status = "pending"
                                            /\ ~ LiveAt(now, ended[j])
  BY <1>2 DEF HoldLive, LiveAt
<1>6. ended \in Books /\ \A j \in Bookings : /\ ended[j].status = booking[j].status
                                             /\ ended[j].person = booking[j].person
                                             /\ ended[j].party = booking[j].party
                                             /\ ended[j] \in BookingRow
                                             /\ j # i => ended[j] = booking[j]
  <2>1. booking[i] \in BookingRow /\ \A j \in Bookings : booking[j] \in BookingRow
    BY <1>2, Parts DEF Books
  <2>2. CASE booking[i].status = "pending"
    <3>1. ended = [booking EXCEPT ![i] = Ended(booking[i])]
      BY <2>2
    <3>. HIDE DEF ended
    <3>. QED
      BY <1>2, <2>1, <3>1, BookRowsAre, Parts DEF Books
  <2>3. CASE booking[i].status # "pending"
    <3>1. ended = booking
      BY <2>3
    <3>. HIDE DEF ended
    <3>. QED
      BY <2>1, <3>1, Parts
  <2>. QED
    BY <2>2, <2>3
<1>7. HoldSeats(now, ended)[i] <= HoldSeats(now, booking)[i]
  <2>1. HoldSeats(now, booking)[i] \in Nat /\ HoldSeats(now, ended)[i] \in Nat
    BY <1>2, <1>6, Parts, SeatsNat
  <2>2. CASE booking[i].status = "pending"
    <3>1. ended[i].status = "pending" /\ ended[i].until = 0
      BY <1>2, <2>2, BookRowsAre, Parts DEF Books
    <3>2. ~ LiveAt(now, ended[i])
      BY <3>1, Parts, Sizings DEF LiveAt
    <3>3. HoldSeats(now, ended)[i] = 0
      BY <1>2, <3>1, <3>2 DEF HoldSeats
    <3>. QED
      BY <2>1, <3>3
  <2>3. CASE booking[i].status # "pending"
    BY <2>1, <2>3
  <2>. QED
    BY <2>2, <2>3
<1>. HIDE DEF ended, able, old, i
<1>8. SeatsAt(now, entry, ended, others) >= 0
  <2>1. SeatsAt(now, entry, ended, others)
          = SeatsAt(now, entry, booking, others) + HoldSeats(now, booking)[i] - HoldSeats(now, ended)[i]
    BY <1>2, <1>6, Parts, HoldMoves
  <2>2. HoldSeats(now, booking)[i] \in Nat /\ HoldSeats(now, ended)[i] \in Nat
    BY <1>2, <1>6, Parts, SeatsNat
  <2>. QED
    BY <1>7, <2>1, <2>2, Parts
<1>9. /\ GoodList(l)
      /\ \A q \in People : l.entry[q].state = "claimed" => l.entry[q] = entry[q] /\ entry[q].booking # i
      /\ \A q \in People : entry[q].state = "none" => l.entry[q].state = "none"
      /\ SeatsAt(now, l.entry, ended, others) >= 0
  BY <1>2, <1>6, <1>8, UnclaimIs
<1>. HIDE DEF l
<1>10. l.entry \in Entries
  BY <1>9 DEF GoodList
<1>11. /\ booking' \in Books
       /\ \A j \in Bookings \ R : booking'[j] = ended[j]
       /\ \A j \in Bookings : /\ booking'[j].status = booking[j].status
                              /\ booking'[j].person = booking[j].person
                              /\ booking'[j].party = ended[j].party
  <2>1. ASSUME NEW j \in R
        PROVE  /\ [ended[j] EXCEPT !.until = old[j]] \in BookingRow
               /\ [ended[j] EXCEPT !.until = old[j]].status = ended[j].status
               /\ [ended[j] EXCEPT !.until = old[j]].person = ended[j].person
               /\ [ended[j] EXCEPT !.until = old[j]].party = ended[j].party
    <3>1. ended[j] \in BookingRow /\ old[j] \in 0..(Cutoff + HoldFor)
      BY <1>2, <1>5, <1>6
    <3>. QED
      BY <3>1 DEF BookingRow
  <2>2. booking' \in Books
    BY <1>3, <1>6, <2>1 DEF Books
  <2>. QED
    BY <1>3, <1>6, <2>1, <2>2
<1>12. GoodBooks(booking')
  BY <1>11, Parts DEF GoodBooks
<1>13. \A q \in People : l.entry[q].state = "claimed" =>
         /\ l.entry[q] = entry[q] /\ entry[q].booking \in Bookings
         /\ booking'[entry[q].booking] = booking[entry[q].booking]
  <2>. SUFFICES ASSUME NEW q \in People, l.entry[q].state = "claimed"
                PROVE  /\ l.entry[q] = entry[q] /\ entry[q].booking \in Bookings
                       /\ booking'[entry[q].booking] = booking[entry[q].booking]
    OBVIOUS
  <2>1. l.entry[q] = entry[q] /\ entry[q].booking # i
    BY <1>9
  <2>2. entry[q].booking \in Bookings \ R
    BY <1>2, <1>5, <2>1, Parts DEF ClaimsGood, ClaimRight
  <2>. QED
    BY <1>6, <1>11, <2>1, <2>2
<1>14. ClaimsGood(l.entry, booking') /\ ClaimsLive(now, l.entry, booking')
  BY <1>13, Parts DEF ClaimsGood, ClaimRight, ClaimsLive
<1>15. CallsGood(call', l.entry, booking')
  <2>1. CallsGood(call, l.entry, booking')
    BY <1>9, <1>11, Parts, CallsStay
  <2>. QED
    BY <1>4, <2>1, CallOver
<1>16. SeatsAt(now, l.entry, booking', others) >= 0
  <2>1. /\ SeatsLeft(l.entry, ended, others) = SeatsAt(now, l.entry, ended, others)
        /\ SeatsAt(now, l.entry, ended, others) \in Int
        /\ SeatsAt(now, l.entry, booking', others) \in Int
    BY <1>6, <1>10, <1>11, Parts, SeatsAre
  <2>2. MapThenSumSet(LAMBDA j : ended[j].party, R) = Sum(P, R)
    BY <1>5, <1>6, BookedAre
  <2>3. R = {} => Sum(P, R) = 0
    BY SumEmpty
  <2>4. /\ \A j \in Bookings \ R : booking'[j] = ended[j]
        /\ \A j \in R : /\ ended[j].status = "pending" /\ ~ LiveAt(now, ended[j])
                        /\ booking'[j].party = ended[j].party
    BY <1>5, <1>11
  <2>5. /\ Sum(P, R) \in Nat
        /\ SeatsAt(now, l.entry, booking', others) >= SeatsAt(now, l.entry, ended, others) - Sum(P, R)
    BY <1>5, <1>6, <1>10, <1>11, <2>4, Parts, HoldsReturn
  <2>. HIDE DEF P
  <2>. QED
    BY <1>3, <1>9, <2>1, <2>2, <2>3, <2>5
<1>17. Good(now, l, booking', call', others)
  BY <1>9, <1>12, <1>14, <1>15, <1>16, Parts DEF Good, Ready
<1>. QED
  BY <1>4, <1>9, <1>17, InvNext

-----------------------------------------------------------------------------
(* The theorems.                                                            *)

LEMMA WaitInit == Init => WaitInv
<1>. SUFFICES ASSUME Init
              PROVE  WaitInv
  OBVIOUS
<1>1. /\ now = 0 /\ ahead = {} /\ others = Capacity
      /\ entry = [p \in People |-> NoEntry] /\ booking = [i \in Bookings |-> NoBooking]
      /\ call = [p \in People |-> NoCall]
  BY DEF Init
<1>2. /\ \A p \in People : entry[p] = NoEntry /\ NoEntry.state = "none"
      /\ \A i \in Bookings : booking[i] = NoBooking
      /\ \A p \in People : call[p] = NoCall
  BY <1>1 DEF NoEntry
<1>3. entry \in Entries /\ Listed(entry) = {}
  BY <1>1, <1>2, RowsAre DEF Entries, Listed, LiveStates
<1>4. GoodList(TheList) /\ TheList.entry = entry
  BY <1>1, <1>3 DEF GoodList, TheList, InOrder
<1>5. GoodBooks(booking) /\ booking \in Books
  BY <1>1, <1>2, BookRowsAre DEF GoodBooks, Books
<1>6. ClaimsGood(entry, booking) /\ ClaimsLive(now, entry, booking)
  BY <1>2 DEF ClaimsGood, ClaimsLive
<1>7. CallsGood(call, entry, booking)
  <2>1. call \in Calls
    BY <1>1, NoCallIs DEF Calls
  <2>. QED
    BY <1>2, <2>1, NoCallIs DEF CallsGood, CallGood
<1>8. SeatsAt(now, entry, booking, others) >= 0
  <2>1. \A i \in Bookings : HoldSeats(now, booking)[i] = 0
    BY <1>2, BookRowsAre DEF HoldSeats, LiveAt
  <2>2. \A p \in People : OfferSeats(now, entry)[p] = 0
    BY <1>2 DEF OfferSeats
  <2>3. Sum(HoldSeats(now, booking), Bookings) = 0 /\ Sum(OfferSeats(now, entry), People) = 0
    BY <2>1, <2>2, Sizings, SumNothing
  <2>. QED
    BY <1>1, <2>3, Sizings DEF SeatsAt
<1>9. now \in 0..Cutoff /\ others \in 0..Capacity
  BY <1>1, Sizings
<1>. QED
  BY <1>4, <1>5, <1>6, <1>7, <1>8, <1>9 DEF WaitInv, Good, Ready

LEMMA WaitStep == WaitInv /\ [Next]_vars => WaitInv'
<1>. SUFFICES ASSUME WaitInv, [Next]_vars
              PROVE  WaitInv'
  OBVIOUS
<1>1. CASE Tick
  BY <1>1, TickStep
<1>2. CASE Time
  BY <1>2, TimeStep
<1>3. ASSUME NEW p \in People, Asks(p, "join", 0)
      PROVE  WaitInv'
  BY <1>3, AsksStep
<1>4. ASSUME NEW p \in People, NEW c \in {0, entry[p].offers}, Asks(p, "order", c)
      PROVE  WaitInv'
  <2>1. entry[p].offers \in 0..(MaxOffers + 1)
    BY Parts DEF Entries, EntryRow
  <2>2. c \in Nat
    BY <2>1, Sizings
  <2>. QED
    BY <1>4, <2>2, AsksStep
<1>5. ASSUME NEW p \in People, Join(p)
      PROVE  WaitInv'
  BY <1>5, JoinStep
<1>6. ASSUME NEW p \in People, NEW n \in Sizes, Order(p, n)
      PROVE  WaitInv'
  BY <1>6, OrderStep
<1>7. ASSUME NEW p \in People, Opened(p) \/ Refused(p) \/ Drop(p)
      PROVE  WaitInv'
  BY <1>7, OpenedStep, RefusedStep, DropStep
<1>8. ASSUME NEW p \in People, OwnerRemove(p) \/ OwnerOffer(p)
      PROVE  WaitInv'
  BY <1>8, RemoveStep, OwnerOfferStep
<1>9. ASSUME NEW i \in Bookings, Capture(i) \/ Cancel(i)
      PROVE  WaitInv'
  BY <1>9, CaptureStep, CancelStep
<1>10. ASSUME NEW n \in 1..Capacity, OthersCancel(n) \/ OthersBook(n)
       PROVE  WaitInv'
  BY <1>10, OthersCancelStep, OthersBookStep
<1>11. CASE UNCHANGED vars
  <2>1. UNCHANGED <<now, booking, call, others>> /\ TheList' = TheList
    BY <1>11 DEF vars, TheList
  <2>. QED
    BY <2>1 DEF WaitInv
<1>. QED
  BY <1>1, <1>2, <1>3, <1>4, <1>5, <1>6, <1>7, <1>8, <1>9, <1>10, <1>11 DEF Next

\* Every place, position, booking and request stays in range, and the list has
\* one order.
THEOREM ListTypeCorrect == Spec => []TypeOK
<1>1. WaitInv => TypeOK
  <2>. SUFFICES ASSUME WaitInv
                PROVE  TypeOK
    OBVIOUS
  <2>1. \A p \in People : call[p].at \in {"none", "join", "order", "opening"}
    BY Parts DEF Calls
  <2>. QED
    BY <2>1, Parts DEF TypeOK, Entries, EntryRow, Books, BookingRow
<1>. QED
  BY <1>1, WaitInit, WaitStep, PTL DEF Spec

\* However long the list, whatever the parties, and whoever books, pays, lapses
\* or is refused: seats sold, held and offered are never more than there are.
THEOREM SeatsPromisedOnce == Spec => []NoSeatTwice
<1>1. WaitInv => NoSeatTwice
  BY Parts DEF NoSeatTwice
<1>. QED
  BY <1>1, WaitInit, WaitStep, PTL DEF Spec

\* A claim has its seats while its offer would run.
THEOREM ClaimsAreHeld == Spec => []ClaimKeepsItsHold
<1>1. WaitInv => ClaimKeepsItsHold
  BY Parts DEF ClaimKeepsItsHold, ClaimsLive, LiveAt, HoldLive
<1>. QED
  BY <1>1, WaitInit, WaitStep, PTL DEF Spec

-----------------------------------------------------------------------------
(* What one walk does.                                                      *)

LEMMA WalkedIs ==
  ASSUME WaitInv, Walked
  PROVE  /\ Ready(now, TheList, booking', call, others)
         /\ Becomes(Walk(TheList, booking', others)) /\ UNCHANGED <<now, call, others>>
<1>1. CASE Tick
  <2>1. /\ Becomes(Walk(TheList, booking, others)) /\ booking' = booking
        /\ UNCHANGED <<now, call, others>>
    BY <1>1 DEF Tick
  <2>2. Ready(now, TheList, booking, call, others)
    BY DEF WaitInv, Good
  <2>. QED
    BY <2>1, <2>2
<1>2. ASSUME NEW i \in Bookings, Cancel(i)
      PROVE  /\ Ready(now, TheList, booking', call, others)
             /\ Becomes(Walk(TheList, booking', others)) /\ UNCHANGED <<now, call, others>>
  BY <1>2, CancelWalks
<1>. QED
  BY <1>1, <1>2 DEF Walked

\* A place that could have been served is behind seats that were all given to
\* places before it.
LEMMA NobodyPassed ==
  ASSUME WaitInv, WaitInv', Walked, NEW p \in People, PassedOver(p)
  PROVE  FALSE
<1>. DEFINE r == Rest(TheList, booking')
            free == SeatsAt(now, r.entry, booking', others)
<1>1. /\ Ready(now, TheList, booking', call, others)
      /\ Becomes(Walk(TheList, booking', others)) /\ UNCHANGED <<now, others>>
  BY WalkedIs
<1>2. PICK B : B = {q \in People : entry'[q].offers > entry[q].offers /\ <<p, q>> \in ahead'}
  OBVIOUS
<1>3. /\ entry[p].state = "waiting" /\ entry'[p].state = "waiting"
      /\ entry[p].offers < MaxOffers /\ OffersOpen
      /\ Party[p] <= SeatsLeft(entry, booking, others)' + Parties(B)
  BY <1>2 DEF PassedOver
<1>4. booking' \in Books /\ now \in 0..Cutoff /\ GoodList(TheList) /\ others \in Int
  BY <1>1, Parts DEF Ready, GoodBooks
<1>5. SeatsLeft(entry, booking, others)' = SeatsAt(now, entry', booking', others)
  <2>1. GoodList(TheList') /\ TheList'.entry = entry' /\ now' \in Int /\ others' \in Int
    <3>1. GoodList(TheList')
      BY DEF WaitInv, Good, Ready
    <3>2. TheList'.entry = entry'
      BY DEF TheList
    <3>. QED
      BY <1>1, <3>1, <3>2, Parts
  <2>2. entry' \in Entries
    BY <2>1 DEF GoodList
  <2>. QED
    BY <1>1, <1>4, <2>1, <2>2, SeatsNext
<1>6. /\ GoodList(r) /\ r.entry \in Entries
      /\ \A q \in People : r.entry[q] = IF q \in Lapsed(TheList, booking') THEN Waits(entry[q])
                                        ELSE IF q \in Paid(TheList, booking') THEN Left ELSE entry[q]
  BY <1>4, RestRows, Parts
<1>7. PICK G \in SUBSET People :
        /\ Given(r, Lapsed(TheList, booking'), free, G)
        /\ Walk(TheList, booking', others) = OffersTo(r, G)
  BY <1>3, <1>4, WalkCases
<1>8. entry' = OffersTo(r, G).entry /\ ahead' = r.ahead
  BY <1>1, <1>7 DEF Becomes, OffersTo
<1>. HIDE DEF r
<1>9. \A q \in People : entry'[q] = IF q \in G THEN Offered(r.entry[q], OfferEnds) ELSE r.entry[q]
  BY <1>8 DEF OffersTo
<1>10. \A q \in People : entry[q] \in EntryRow /\ entry[q].offers \in Nat
  BY Parts, Sizings DEF Entries, EntryRow
<1>11. ASSUME NEW q \in G
       PROVE  /\ r.entry[q] = entry[q] /\ entry[q].state = "waiting"
              /\ entry'[q].state = "offered" /\ entry'[q].offers > entry[q].offers
  <2>1. MayGet(r, Lapsed(TheList, booking'), q)
    BY <1>7 DEF Given
  <2>2. r.entry[q] = entry[q] /\ entry[q].state = "waiting" /\ entry[q].offers <= MaxOffers
    BY <1>6, <1>10, <2>1, RowsAre, Sizings DEF MayGet
  <2>3. /\ Offered(entry[q], OfferEnds).state = "offered"
        /\ Offered(entry[q], OfferEnds).offers = entry[q].offers + 1
    BY <1>4, <1>10, <2>2, RowsAre, OfferTimes
  <2>. QED
    BY <1>9, <1>10, <2>2, <2>3
<1>12. B = {q \in G : <<p, q>> \in r.ahead}
  <2>1. ASSUME NEW q \in People, q \notin G
        PROVE  ~ (entry'[q].offers > entry[q].offers)
    BY <1>6, <1>9, <1>10, <2>1, RowsAre
  <2>. QED
    BY <1>2, <1>8, <1>11, <2>1
<1>13. p \notin G /\ r.entry[p] = entry[p] /\ p \notin Lapsed(TheList, booking')
  <2>1. p \notin G
    BY <1>3, <1>11
  <2>2. p \notin Lapsed(TheList, booking') /\ p \notin Paid(TheList, booking')
    BY <1>3, Parts DEF Lapsed, Paid
  <2>. QED
    BY <1>6, <2>1, <2>2
<1>. DEFINE A == {q \in G : <<q, p>> \in r.ahead}
<1>14. ~ (Parties(A) + Party[p] <= free)
  <2>1. MayGet(r, Lapsed(TheList, booking'), p)
    BY <1>3, <1>13 DEF MayGet
  <2>. QED
    BY <1>7, <1>13, <2>1 DEF Given
<1>15. G = A \union B /\ A \intersect B = {} /\ A \in SUBSET People /\ B \in SUBSET People
  <2>1. InOrder(Listed(r.entry), r.ahead) /\ p \in Listed(r.entry) /\ G \subseteq Listed(r.entry)
    BY <1>3, <1>6, <1>11, <1>13 DEF GoodList, Listed, LiveStates
  <2>. QED
    BY <1>12, <1>13, <2>1 DEF InOrder
<1>. HIDE DEF A
<1>16. SeatsAt(now, entry', booking', others) = free - Parties(G)
  <2>1. \A q \in G : MayGet(r, {}, q)
    BY <1>7 DEF Given, MayGet
  <2>. QED
    BY <1>3, <1>4, <1>6, <1>8, <2>1, OffersTake
<1>17. Parties(G) = Parties(A) + Parties(B)
  BY <1>15, PartiesSplit
<1>18. Parties(A) \in Nat /\ Parties(B) \in Nat /\ Party[p] \in Nat /\ free \in Int
  BY <1>4, <1>6, <1>15, PartiesNat, Sizings, SeatsAre, Parts
<1>. HIDE DEF free
<1>. QED
  BY <1>3, <1>5, <1>14, <1>16, <1>17, <1>18

\* The walk serves the list in order: who could be offered seats and is not
\* finds fewer than the party needs left by the places before it.
THEOREM ServedFirst == Spec => ServedInOrder
<1>1. WaitInv /\ WaitInv' /\ [Next]_vars => [\A p \in People : PassedOver(p) => ~ Walked]_vars
  BY NobodyPassed
<1>. QED
  BY <1>1, WaitInit, WaitStep, PTL DEF Spec, ServedInOrder

\* After the cutoff no offer and no claim's hold can still run.
LEMMA NobodyStays ==
  ASSUME WaitInv, Walked, now >= Cutoff
  PROVE  Listed(entry') = {}
<1>. DEFINE r == Rest(TheList, booking')
            gone == {p \in People : r.entry[p].state = "waiting"}
<1>1. /\ Ready(now, TheList, booking', call, others)
      /\ Becomes(Walk(TheList, booking', others))
  BY WalkedIs
<1>2. /\ booking' \in Books /\ now \in 0..Cutoff /\ GoodList(TheList) /\ others \in Int
      /\ ClaimsGood(entry, booking')
  BY <1>1, Parts DEF Ready, GoodBooks
<1>3. /\ GoodList(r) /\ r.entry \in Entries
      /\ \A q \in People : r.entry[q] = IF q \in Lapsed(TheList, booking') THEN Waits(entry[q])
                                        ELSE IF q \in Paid(TheList, booking') THEN Left ELSE entry[q]
  BY <1>2, RestRows, Parts
<1>4. Walk(TheList, booking', others) = Leaves(r, gone)
  BY <1>2, WalkCases
<1>5. Listed(Walk(TheList, booking', others).entry) = Listed(r.entry) \ gone
  <2>. HIDE DEF r
  <2>. QED
    BY <1>3, <1>4, LeavesGood
<1>6. entry' = Walk(TheList, booking', others).entry
  BY <1>1 DEF Becomes
<1>. HIDE DEF r
<1>7. ASSUME NEW p \in People, r.entry[p].state \in {"offered", "claimed"}
      PROVE  FALSE
  <2>1. /\ entry[p] \in EntryRow /\ entry[p].ends <= now
        /\ entry[p].ends \in Int /\ now \in Int
    BY <1>2, Parts, Sizings DEF Entries, EntryRow
  <2>2. /\ r.entry[p] = entry[p]
        /\ p \notin Lapsed(TheList, booking') /\ p \notin Paid(TheList, booking')
    BY <1>3, <1>7, <2>1, RowsAre
  <2>3. CASE entry[p].state = "offered"
    BY <2>1, <2>2, <2>3, Parts DEF Lapsed
  <2>4. CASE entry[p].state = "claimed"
    <3>1. ClaimRight(entry, booking', p)
      BY <1>2, <2>4 DEF ClaimsGood
    <3>2. HoldLive(booking'[entry[p].booking])
      BY <2>2, <2>4, <3>1, Parts DEF Lapsed, Paid
    <3>. QED
      BY <2>1, <3>1, <3>2, Parts, Sizings DEF ClaimRight, HoldLive
  <2>. QED
    BY <1>7, <2>2, <2>3, <2>4
<1>8. Listed(r.entry) \ gone = {}
  BY <1>7 DEF Listed, LiveStates
<1>. QED
  BY <1>5, <1>6, <1>8

\* One walk after the cutoff empties the list.
THEOREM ListsEnd == Spec => ListEnds
<1>1. WaitInv /\ [Next]_vars => [now >= Cutoff /\ Listed(entry') # {} => ~ Walked]_vars
  BY NobodyStays
<1>. QED
  BY <1>1, WaitInit, WaitStep, PTL DEF Spec, ListEnds

=============================================================================
