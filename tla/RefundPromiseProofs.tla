------------------------- MODULE RefundPromiseProofs -------------------------
(***************************************************************************)
(* Refunds keep their promise (RefundPromise) and the books match what     *)
(* left, for every key about which Razorpay keeps its word, whatever it    *)
(* does about the others.                                                  *)
(***************************************************************************)
EXTENDS RefundsProofs

\* The status of the first refund made under key r.
First(r) == made[r][1]

\* Only rows that may be sent are refused.
TurnedSendable == \A r \in turned : Sendable(r)

\* Refused, or made and failed: a failed row with no Razorpay id, the one that
\* _revive may bring back, was refused.
FailedRight(r) ==
  status[r] = "failed" =>
    r \in turned \/ (made[r] # << >> /\ First(r) = "failed" /\ rzpId[r] # 0)

ProcessedRight(r) ==
  status[r] = "processed" => ByHand(r) \/ (made[r] # << >> /\ First(r) = "processed")

RowsRight == \A r \in Rows : WordKept(r) => FailedRight(r) /\ ProcessedRight(r)

\* A final answer still holds, and a refusal was one.
AnswerRight(a) ==
  /\ a.what = "made" /\ a.as # "pending" => First(a.row) = a.as
  /\ a.what = "unmade" => a.row \in turned
  /\ a.what = "refused" => a.row \in turned \/ made[a.row] # << >>

HeardRight == \A s \in Senders : \A a \in heard[s] : WordKept(a.row) => AnswerRight(a)

WordInv == FlagInv /\ TurnedSendable /\ RowsRight /\ HeardRight

LEMMA WordInit == ASSUME RefundsAssumption, Init PROVE WordInv
<1>1. FlagInv
  BY FlagInvInit
<1> QED
  BY <1>1 DEF Init, WordInv, TurnedSendable, RowsRight, FailedRight, ProcessedRight, HeardRight

\* Where Razorpay keeps its word there is at most one refund.
LEMMA OnlyFirst ==
  ASSUME TypeOK, NEW r \in Rows, WordKept(r)
  PROVE  /\ made[r] = << >> \/ (DOMAIN made[r] = {1} /\ Len(made[r]) = 1)
         /\ Alive(r) = IF made[r] # << >> /\ First(r) # "failed" THEN {1} ELSE {}
         /\ r \in turned => made[r] = << >>
<1>1. made[r] \in Seq(AtRazorpay)
  BY DEF TypeOK
<1>2. Len(made[r]) \in Nat /\ DOMAIN made[r] = 1..Len(made[r])
  BY <1>1, LenProperties
<1>3. Len(made[r]) = 0 \/ Len(made[r]) = 1
  <2>1. \A n \in Nat : n <= 1 => n = 0 \/ n = 1
    OBVIOUS
  <2>2. Len(made[r]) <= 1
    BY DEF WordKept
  <2> QED
    BY <1>2, <2>1, <2>2, Zenon
<1>4. Len(made[r]) = 0 => made[r] = << >>
  BY <1>1, EmptySeq
<1>5. made[r] = << >> \/ (DOMAIN made[r] = {1} /\ Len(made[r]) = 1)
  <2>1. 1..1 = {1}
    OBVIOUS
  <2> QED
    BY <1>2, <1>3, <1>4, <2>1, Zenon
<1>6. Alive(r) = IF made[r] # << >> /\ First(r) # "failed" THEN {1} ELSE {}
  BY <1>5 DEF Alive, First
<1> QED
  BY <1>5, <1>6 DEF WordKept

\* A key with no refund is one about which Razorpay keeps its word.
LEMMA NoneIsKept ==
  ASSUME NEW r \in Rows, made[r] = << >>
  PROVE  WordKept(r)
<1>1. Len(<< >>) = 0
  OBVIOUS
<1> QED
  BY <1>1 DEF WordKept

\* The first refund under a key.
LEMMA AppendToNone ==
  ASSUME NEW as \in AtRazorpay
  PROVE  DOMAIN Append(<< >>, as) = {1} /\ Append(<< >>, as)[1] = as
OBVIOUS

\* What Razorpay does with a call for row r: nothing, a first refund, a first
\* refusal, or it breaks its word.
LEMMA ReachesOnce ==
  ASSUME TypeOK, NEW r \in Rows, NEW a, Reaches(r, a), WordKept(r)'
  PROVE  /\ WordKept(r)
         /\ \/ UNCHANGED <<made, turned>>
            \/ /\ made[r] = << >> /\ r \notin turned /\ turned' = turned
               /\ \E as \in AtRazorpay : made' = [made EXCEPT ![r] = Append(<< >>, as)]
            \/ made[r] = << >> /\ made' = made /\ turned' = turned \union {r}
         /\ a.row = r
         /\ a.what = "made" => made'[r][1] = a.as
         /\ a.what = "refused" => r \in turned' \/ made'[r] # << >>
         /\ a.what # "unmade"
<1>1. CASE Repeats(r, a)
  <2>1. UNCHANGED <<made, turned>> /\ made[r] # << >>
    BY <1>1 DEF Repeats
  <2>2. WordKept(r)
    BY <2>1 DEF WordKept
  <2>3. Len(made[r]) = 1
    BY <2>1, <2>2, OnlyFirst
  <2> QED
    BY <1>1, <2>1, <2>2, <2>3 DEF Repeats, Latest, Reply
<1>2. CASE Makes(r, a)
  <2>1. PICK as \in AtRazorpay :
          /\ made' = [made EXCEPT ![r] = Append(@, as)]
          /\ a = Reply(r, "made", Len(made[r]) + 1, as)
    BY <1>2 DEF Makes
  <2>2. turned' = turned /\ made[r] \in Seq(AtRazorpay)
    BY <1>2 DEF Makes, TypeOK
  <2>3. made'[r] = Append(made[r], as)
    BY <2>1 DEF TypeOK
  <2>4. Len(made'[r]) = Len(made[r]) + 1 /\ Len(made[r]) \in Nat /\ made'[r] # << >>
    <3>1. Len(Append(made[r], as)) = Len(made[r]) + 1 /\ Append(made[r], as) # << >>
      BY <2>2, AppendProperties, AppendIsNotEmpty
    <3>2. Len(made[r]) \in Nat
      BY <2>2, LenProperties
    <3> QED
      BY <2>3, <3>1, <3>2, Zenon
  <2>5. Len(made'[r]) <= 1 /\ r \notin turned
    BY <2>2, <2>4 DEF WordKept
  <2>6. made[r] = << >>
    BY <2>2, <2>4, <2>5, EmptySeq
  <2>7. made' = [made EXCEPT ![r] = Append(<< >>, as)] /\ made'[r] = Append(<< >>, as)
    BY <2>1, <2>3, <2>6
  <2>8. a.row = r /\ a.what = "made" /\ a.as = as
    BY <2>1 DEF Reply
  <2> QED
    BY <2>2, <2>5, <2>6, <2>7, <2>8, AppendToNone, NoneIsKept
<1>3. CASE Refuses(r, a)
  <2>1. /\ made' = made /\ turned' = turned \union {q \in {r} : made[q] = << >>}
        /\ a.row = r /\ a.what = "refused"
    BY <1>3 DEF Refuses, Reply
  <2>2. CASE made[r] = << >>
    <3>1. turned' = turned \union {r}
      BY <2>1, <2>2
    <3> QED
      BY <2>1, <2>2, <3>1, NoneIsKept
  <2>3. CASE made[r] # << >>
    <3>1. turned' = turned
      BY <2>1, <2>3
    <3> QED
      BY <2>1, <2>3, <3>1 DEF WordKept
  <2> QED
    BY <2>2, <2>3
<1> QED
  BY <1>1, <1>2, <1>3 DEF Reaches

\* A call for row r is about no other row.
LEMMA ReachesOne ==
  ASSUME TypeOK, NEW r \in Rows, NEW a, Reaches(r, a)
  PROVE  /\ \A x \in Rows : x # r => made'[x] = made[x]
         /\ turned \subseteq turned' /\ turned' \subseteq turned \union {r}
         /\ \A x \in Rows : x # r => (WordKept(x)' <=> WordKept(x))
<1>1. \A x \in Rows : x # r => made'[x] = made[x]
  BY ReachesFacts, RefundsAssumption
<1>2. turned \subseteq turned' /\ turned' \subseteq turned \union {r}
  BY DEF Reaches, Repeats, Makes, Refuses
<1> QED
  BY <1>1, <1>2 DEF WordKept

\* What the outcome e, st of row r may be: of the refund made under its key, or
\* of a refusal.
TrueOutcome(r, e, st) ==
  WordKept(r) =>
    /\ e # 0 => made[r] # << >> /\ (st # "requested" => First(r) = st)
    /\ e = 0 => st = "failed" /\ r \in turned

\* A row only moves on from requested, and nothing is revived.
LEMMA OutcomeMoves ==
  ASSUME WordInv, NEW r \in Rows, NEW e \in 0..MaxMade,
         NEW st \in {"requested", "processed", "failed"},
         TrueOutcome(r, e, st), ApplyRefund(r, e, st)
  PROVE  /\ \A x \in Rows : x # r => status'[x] = status[x] /\ rzpId'[x] = rzpId[x]
         /\ WordKept(r) =>
              /\ status'[r] = status[r] \/ (status[r] = "requested" /\ status'[r] = st)
              /\ rzpId[r] # 0 => rzpId'[r] # 0
              /\ e # 0 => rzpId'[r] # 0
         /\ status[r] # "none" => status'[r] # "none"
         /\ UNCHANGED <<made, turned, todo>>
<1>1. status \in [Rows -> Statuses] /\ rzpId \in [Rows -> 0..MaxMade] /\ TypeOK
  BY DEF WordInv, FlagInv, TypeOK
<1>2. WordKept(r) => ~ Revives(r, e, st)
  BY <1>1, OnlyFirst DEF Revives, TrueOutcome, WordInv, RowsRight, FailedRight
<1> QED
  BY <1>1, <1>2 DEF ApplyRefund

-----------------------------------------------------------------------------
(* The books.                                                               *)

\* The rest of WordInv when an outcome is applied.
LEMMA OutcomeKeepsWord ==
  ASSUME WordInv, FlagInv', NEW r \in Rows, NEW e \in 0..MaxMade,
         NEW st \in {"requested", "processed", "failed"},
         TrueOutcome(r, e, st), ApplyRefund(r, e, st),
         \A s \in Senders : heard'[s] \subseteq heard[s]
  PROVE  WordInv'
<1>1. /\ \A x \in Rows : x # r => status'[x] = status[x] /\ rzpId'[x] = rzpId[x]
      /\ WordKept(r) =>
           /\ status'[r] = status[r] \/ (status[r] = "requested" /\ status'[r] = st)
           /\ rzpId[r] # 0 => rzpId'[r] # 0
           /\ e # 0 => rzpId'[r] # 0
      /\ status[r] # "none" => status'[r] # "none"
      /\ made' = made /\ turned' = turned
  BY OutcomeMoves
<1>2. turned \subseteq Rows /\ \A x \in Rows : WordKept(x)' <=> WordKept(x)
  BY <1>1 DEF WordInv, FlagInv, TypeOK, WordKept
<1>3. TurnedSendable'
  BY <1>1, <1>2 DEF WordInv, TurnedSendable, Sendable, ByHand
<1>4. RowsRight'
  <2>1. ASSUME NEW x \in Rows, x # r, WordKept(x) PROVE (FailedRight(x) /\ ProcessedRight(x))'
    BY <1>1, <2>1 DEF WordInv, RowsRight, FailedRight, ProcessedRight, First, ByHand
  <2>2. ASSUME WordKept(r) PROVE (FailedRight(r) /\ ProcessedRight(r))'
    BY <1>1, <2>2
    DEF WordInv, RowsRight, FailedRight, ProcessedRight, First, ByHand, TrueOutcome
  <2> QED
    BY <1>2, <2>1, <2>2 DEF RowsRight
<1>5. HeardRight'
  <2>1. \A a : AnswerRight(a)' <=> AnswerRight(a)
    BY <1>1 DEF AnswerRight, First
  <2>2. \A a : WordKept(a.row)' <=> WordKept(a.row)
    BY <1>1 DEF WordKept
  <2> QED
    BY <2>1, <2>2 DEF WordInv, HeardRight
<1> QED
  BY <1>3, <1>4, <1>5 DEF WordInv

\* The rest of WordInv when nothing but senders' reading changes.
LEMMA ReadingKeepsWord ==
  ASSUME WordInv, FlagInv', UNCHANGED <<books, made, turned>>,
         \A s \in Senders : \A a \in heard'[s] : a \in heard[s] \/
           (WordKept(a.row) => AnswerRight(a))
  PROVE  WordInv'
<1>1. UNCHANGED <<status, rzpId, made, turned>>
  BY DEF books
<1>2. TurnedSendable' /\ RowsRight'
  BY <1>1 DEF WordInv, TurnedSendable, RowsRight, FailedRight, ProcessedRight, First,
              WordKept, Sendable, ByHand
<1>3. HeardRight'
  <2>1. \A a : (WordKept(a.row) => AnswerRight(a)) => (WordKept(a.row) => AnswerRight(a))'
    BY <1>1 DEF AnswerRight, First, WordKept
  <2> QED
    BY <2>1 DEF WordInv, HeardRight
<1> QED
  BY <1>2, <1>3 DEF WordInv

\* What an action on the money does to the rows.
LEMMA SpendsRows ==
  ASSUME TypeOK, Spends
  PROVE  /\ UNCHANGED <<rzpId, made, turned, todo, heard>>
         /\ \E new \in SUBSET Rows :
              /\ \A r \in new : status[r] = "none" /\ status'[r] = "requested"
              /\ \A r \in Rows \ new : status'[r] = status[r]
<1>1. PICK sum \in Int, want \in Nat, keep \in Nat, C \in SUBSET Payments :
        Plan(sum, want, keep, C) \/ NoPlan(sum, keep, C)
  BY DEF Spends
<1>2. CASE Plan(sum, want, keep, C)
  <2>1. PICK take \in [Payments -> 0..want], new \in SUBSET Rows :
          RowsFor(take, new) /\ Book(take, new, sum, want)
    BY <1>2 DEF Plan
  <2>2. /\ \A r \in new : status[r] = "none"
        /\ status' = [r \in Rows |-> IF r \in new THEN "requested" ELSE status[r]]
    BY <2>1 DEF RowsFor, Book
  <2>3. UNCHANGED <<rzpId, made, turned, todo, heard>>
    BY <1>2 DEF Plan
  <2>4. /\ \A r \in new : status[r] = "none" /\ status'[r] = "requested"
        /\ \A r \in Rows \ new : status'[r] = status[r]
    BY <2>2
  <2> QED
    BY <2>3, <2>4, Zenon
<1>3. CASE NoPlan(sum, keep, C)
  <2>1. /\ UNCHANGED <<rzpId, made, turned, todo, heard>>
        /\ \A r \in {} : status[r] = "none" /\ status'[r] = "requested"
        /\ \A r \in Rows \ {} : status'[r] = status[r]
    BY <1>3 DEF NoPlan
  <2>2. {} \in SUBSET Rows
    OBVIOUS
  <2> QED
    BY <2>1, <2>2, Zenon
<1> QED
  BY <1>1, <1>2, <1>3

\* The rest of WordInv when rows are planned.
LEMMA SpendsKeepsWord ==
  ASSUME WordInv, FlagInv', Spends
  PROVE  WordInv'
<1>1. /\ UNCHANGED <<rzpId, made, turned, todo, heard>>
      /\ \A x \in Rows : status'[x] = status[x] \/
           (status[x] = "none" /\ status'[x] = "requested")
  BY SpendsRows DEF WordInv, FlagInv
<1>2. turned \subseteq Rows /\ \A x : WordKept(x)' <=> WordKept(x)
  BY <1>1 DEF WordInv, FlagInv, TypeOK, WordKept
<1>3. TurnedSendable'
  BY <1>1, <1>2 DEF WordInv, TurnedSendable, Sendable, ByHand
<1>4. RowsRight'
  BY <1>1, <1>2 DEF WordInv, RowsRight, FailedRight, ProcessedRight, First, ByHand
<1>5. HeardRight'
  <2>1. \A a : AnswerRight(a)' <=> AnswerRight(a)
    BY <1>1 DEF AnswerRight, First
  <2> QED
    BY <1>1, <1>2, <2>1 DEF WordInv, HeardRight
<1> QED
  BY <1>3, <1>4, <1>5 DEF WordInv

\* The rest of WordInv when a call for row r reaches Razorpay.
LEMMA CallKeepsWord ==
  ASSUME WordInv, FlagInv', NEW r \in Rows, NEW a, Reaches(r, a), Sendable(r),
         UNCHANGED books,
         \A s \in Senders : \A b \in heard'[s] : b \in heard[s] \/ b = a
  PROVE  WordInv'
<1>1. UNCHANGED <<status, rzpId>> /\ TypeOK
  BY DEF books, WordInv, FlagInv
<1>2. /\ \A x \in Rows : Sendable(x)' <=> Sendable(x)
      /\ turned \subseteq Rows /\ made \in [Rows -> Seq(AtRazorpay)]
      /\ heard \in [Senders -> SUBSET Answer] /\ \A b \in Answer : b.row \in Rows
  BY <1>1 DEF TypeOK, Sendable, ByHand, Answer
<1>3. /\ \A x \in Rows : x # r => made'[x] = made[x] /\ (WordKept(x)' <=> WordKept(x))
      /\ turned \subseteq turned' /\ turned' \subseteq turned \union {r}
  BY <1>1, ReachesOne
<1>4. a.row = r
  BY <1>1, ReachesFacts, RefundsAssumption
<1>5. ASSUME WordKept(r)'
      PROVE  /\ WordKept(r)
             /\ made'[r] = made[r] \/ (made[r] = << >> /\ r \notin turned)
             /\ AnswerRight(a)'
  <2>1. /\ WordKept(r)
        /\ \/ UNCHANGED <<made, turned>>
           \/ /\ made[r] = << >> /\ r \notin turned /\ turned' = turned
              /\ \E as \in AtRazorpay : made' = [made EXCEPT ![r] = Append(<< >>, as)]
           \/ made[r] = << >> /\ made' = made /\ turned' = turned \union {r}
        /\ a.what = "made" => made'[r][1] = a.as
        /\ a.what = "refused" => r \in turned' \/ made'[r] # << >>
        /\ a.what # "unmade"
    BY <1>1, <1>5, ReachesOnce
  <2>2. AnswerRight(a)'
    BY <1>4, <2>1 DEF AnswerRight, First
  <2> QED
    BY <2>1, <2>2
<1>6. TurnedSendable'
  BY <1>2, <1>3 DEF WordInv, TurnedSendable
<1>7. RowsRight'
  <2>1. ASSUME NEW x \in Rows, x # r, WordKept(x) PROVE (FailedRight(x) /\ ProcessedRight(x))'
    BY <1>1, <1>3, <2>1 DEF WordInv, RowsRight, FailedRight, ProcessedRight, First, ByHand
  <2>2. ASSUME WordKept(r)' PROVE (FailedRight(r) /\ ProcessedRight(r))'
    BY <1>1, <1>3, <1>5, <2>2
    DEF WordInv, RowsRight, FailedRight, ProcessedRight, First, ByHand
  <2> QED
    BY <1>3, <2>1, <2>2 DEF RowsRight
<1>8. HeardRight'
  <2>1. ASSUME NEW s \in Senders, NEW b \in heard[s], WordKept(b.row)'
        PROVE  AnswerRight(b)'
    <3>1. /\ b.row \in Rows /\ b \in Answer
          /\ b.what = "made" => made[b.row] # << >>
          /\ WordKept(b.row) => AnswerRight(b)
      BY <1>2 DEF WordInv, FlagInv, HeardTrue, HeardRight
    <3>2. CASE b.row # r
      BY <1>3, <2>1, <3>1, <3>2 DEF AnswerRight, First
    <3>3. CASE b.row = r
      <4>1. /\ AnswerRight(b)
            /\ made'[r] = made[r] \/ (made[r] = << >> /\ r \notin turned)
        BY <1>5, <2>1, <3>1, <3>3
      <4>2. CASE made'[r] = made[r]
        BY <1>3, <3>3, <4>1, <4>2 DEF AnswerRight, First
      <4>3. CASE made[r] = << >> /\ r \notin turned
        <5>1. b.what \in {"made", "refused", "unmade"}
          BY <3>1 DEF Answer
        <5> QED
          BY <3>1, <3>3, <4>1, <4>3, <5>1 DEF AnswerRight
      <4> QED
        BY <4>1, <4>2, <4>3
    <3> QED
      BY <3>2, <3>3
  <2>2. WordKept(a.row)' => AnswerRight(a)'
    BY <1>4, <1>5 DEF WordKept
  <2> QED
    BY <2>1, <2>2 DEF HeardRight, WordKept
<1> QED
  BY <1>6, <1>7, <1>8 DEF WordInv

\* What was heard of a refund that Razorpay made, or of one it did not.
LEMMA HeardIsTrue ==
  ASSUME WordInv, NEW s \in Senders, NEW a \in heard[s], a.what # "refused"
  PROVE  /\ a.row \in Rows /\ a.id \in 0..MaxMade
         /\ StatusOf(a.as) \in {"requested", "processed", "failed"}
         /\ TrueOutcome(a.row, a.id, StatusOf(a.as)) /\ Sendable(a.row)
<1>1. /\ a \in Answer /\ a.row \in Rows /\ a.id \in 0..MaxMade /\ a.as \in AtRazorpay
      /\ a.what \in {"made", "refused", "unmade"}
  BY DEF WordInv, FlagInv, TypeOK, Answer
<1>2. StatusOf(a.as) \in {"requested", "processed", "failed"}
  BY <1>1 DEF StatusOf, AtRazorpay
<1>3. /\ Sendable(a.row)
      /\ a.what = "made" => made[a.row] # << >> /\ a.id # 0
      /\ a.what # "made" => a.id = 0 /\ a.as = "failed"
      /\ WordKept(a.row) => AnswerRight(a)
  BY DEF WordInv, FlagInv, HeardTrue, HeardRight
<1>4. TrueOutcome(a.row, a.id, StatusOf(a.as))
  BY <1>1, <1>3 DEF TrueOutcome, StatusOf, AnswerRight
<1> QED
  BY <1>1, <1>2, <1>3, <1>4

\* What a webhook tells of row r.
LEMMA EventIsTrue ==
  ASSUME WordInv, NEW r \in Rows, NEW e \in 1..MaxMade, Event(r, e)
  PROVE  /\ e \in 0..MaxMade /\ made[r][e] \in {"requested", "processed", "failed"}
         /\ TrueOutcome(r, e, made[r][e]) /\ Sendable(r)
<1>1. /\ made[r] \in Seq(AtRazorpay) /\ e \in DOMAIN made[r] /\ made[r][e] # "pending"
      /\ TypeOK
  BY DEF Event, WordInv, FlagInv, TypeOK
<1>2. made[r][e] \in {"requested", "processed", "failed"} /\ made[r] # << >>
  BY <1>1, LenProperties DEF AtRazorpay
<1>3. e \in 0..MaxMade /\ e # 0 /\ Sendable(r)
  BY <1>2, RefundsAssumption DEF RefundsAssumption, WordInv, FlagInv, NeverSent
<1>4. WordKept(r) => e = 1
  BY <1>1, <1>2, OnlyFirst
<1>5. TrueOutcome(r, e, made[r][e])
  BY <1>2, <1>3, <1>4 DEF TrueOutcome, First
<1> QED
  BY <1>2, <1>3, <1>5

\* What a refund that Razorpay finishes changes.
LEMMA SettleFacts ==
  ASSUME TypeOK, NEW r \in Rows, NEW e \in 1..MaxMade, Settle(r, e)
  PROVE  /\ \A x \in Rows : x # r => made'[x] = made[x]
         /\ made'[r] # << >> /\ Len(made'[r]) = Len(made[r])
         /\ made'[r][e] \in {"processed", "failed"}
<1>1. PICK as \in {"processed", "failed"} : made' = [made EXCEPT ![r][e] = as]
  BY DEF Settle
<1>2. /\ made \in [Rows -> Seq(AtRazorpay)] /\ made[r] \in Seq(AtRazorpay)
      /\ e \in 1..Len(made[r]) /\ as \in AtRazorpay
  BY LenProperties DEF Settle, TypeOK, AtRazorpay
<1>3. /\ \A x \in Rows : x # r => made'[x] = made[x]
      /\ made'[r] = [made[r] EXCEPT ![e] = as]
  BY <1>1, <1>2
<1>4. /\ made'[r] \in Seq(AtRazorpay) /\ Len(made'[r]) = Len(made[r])
      /\ Len(made[r]) \in Nat
  <2>1. /\ [made[r] EXCEPT ![e] = as] \in Seq(AtRazorpay)
        /\ Len([made[r] EXCEPT ![e] = as]) = Len(made[r])
    BY <1>2, ChangeKeepsSeq
  <2>2. Len(made[r]) \in Nat
    BY <1>2, LenProperties
  <2> QED
    BY <1>3, <2>1, <2>2
<1>5. made'[r] # << >>
  BY <1>2, <1>4, EmptySeq
<1>6. made'[r][e] = as
  BY <1>3 DEF Settle
<1> QED
  BY <1>3, <1>4, <1>5, <1>6

LEMMA WordStep ==
  ASSUME RefundsAssumption, WordInv, [Next]_vars
  PROVE  WordInv'
<1>0. /\ FlagInv' /\ FlagInv /\ TypeOK /\ heard \in [Senders -> SUBSET Answer]
      /\ \A a \in Answer : a.row \in Rows
      /\ \A s \in Senders : \A x \in todo[s] : Sendable(x)
  BY FlagInvStep DEF WordInv, FlagInv, TypeOK, TodoSendable, Answer
<1>1. CASE MoneyAction
  BY <1>0, <1>1, MoneySpends, SpendsKeepsWord
<1>4. CASE RecordByHand
  <2>1. /\ UNCHANGED <<rzpId, made, turned, todo, heard>>
        /\ \A x \in Rows : status'[x] = status[x]
              \/ (ByHand(x) /\ status[x] = "requested" /\ status'[x] = "processed")
    BY <1>0, <1>4 DEF RecordByHand, TypeOK
  <2>2. turned \subseteq Rows /\ \A x : WordKept(x)' <=> WordKept(x)
    BY <1>0, <2>1 DEF TypeOK, WordKept
  <2>3. TurnedSendable'
    BY <2>1, <2>2 DEF WordInv, TurnedSendable, Sendable, ByHand
  <2>4. RowsRight'
    BY <2>1, <2>2 DEF WordInv, RowsRight, FailedRight, ProcessedRight, First, ByHand
  <2>5. HeardRight'
    <3>1. \A a : AnswerRight(a)' <=> AnswerRight(a)
      BY <2>1 DEF AnswerRight, First
    <3> QED
      BY <2>1, <2>2, <3>1 DEF WordInv, HeardRight
  <2> QED
    BY <1>0, <2>3, <2>4, <2>5 DEF WordInv
<1>5. ASSUME NEW s \in Senders, Read(s) PROVE WordInv'
  BY <1>0, <1>5, ReadingKeepsWord DEF Read
<1>6. ASSUME NEW s \in Senders, Check(s) PROVE WordInv'
  <2>1. PICK a \in heard[s] :
          /\ a.what = "refused"
          /\ heard' = [heard EXCEPT ![s] =
               IF made[a.row] = << >> THEN {Reply(a.row, "unmade", 0, "failed")}
               ELSE {Latest(a.row)}]
          /\ UNCHANGED <<books, made, turned, todo>>
    BY <1>6 DEF Check
  <2>2. a.row \in Rows /\ (WordKept(a.row) => AnswerRight(a))
    BY <1>0 DEF WordInv, HeardRight
  <2>3. \A x \in Senders : \A b \in heard'[x] : b \in heard[x] \/
          b = IF made[a.row] = << >> THEN Reply(a.row, "unmade", 0, "failed")
              ELSE Latest(a.row)
    BY <1>0, <2>1
  <2>4. CASE made[a.row] = << >>
    <3> DEFINE b == Reply(a.row, "unmade", 0, "failed")
    <3>1. WordKept(b.row) => AnswerRight(b)
      BY <2>1, <2>2, <2>4 DEF AnswerRight, Reply
    <3> HIDE DEF b
    <3>2. \A x \in Senders : \A c \in heard'[x] : c \in heard[x] \/ c = b
      BY <2>3, <2>4 DEF b
    <3> QED
      BY <1>0, <2>1, <3>1, <3>2, ReadingKeepsWord
  <2>5. CASE made[a.row] # << >>
    <3> DEFINE b == Latest(a.row)
    <3>1. WordKept(b.row) => AnswerRight(b)
      <4>1. /\ b.row = a.row /\ b.what = "made"
            /\ b.as = made[a.row][Len(made[a.row])]
        BY DEF Latest, Reply
      <4>2. WordKept(a.row) => Len(made[a.row]) = 1
        BY <1>0, <2>2, <2>5, OnlyFirst
      <4> HIDE DEF b
      <4> QED
        BY <4>1, <4>2 DEF AnswerRight, First
    <3> HIDE DEF b
    <3>2. \A x \in Senders : \A c \in heard'[x] : c \in heard[x] \/ c = b
      BY <2>3, <2>5 DEF b
    <3> QED
      BY <1>0, <2>1, <3>1, <3>2, ReadingKeepsWord
  <2> QED
    BY <2>4, <2>5
<1>7. ASSUME NEW s \in Senders, CheckLost(s) PROVE WordInv'
  <2>1. \A x \in Senders : heard'[x] \subseteq heard[x]
    BY <1>0, <1>7 DEF CheckLost, OnTimeout
  <2> QED
    BY <1>0, <1>7, <2>1, ReadingKeepsWord DEF CheckLost
<1>8. ASSUME NEW s \in Senders, Apply(s) PROVE WordInv'
  <2>1. PICK a \in heard[s] : /\ a.what # "refused"
                              /\ ApplyRefund(a.row, a.id, StatusOf(a.as))
                              /\ heard' = [heard EXCEPT ![s] = {}]
    BY <1>8 DEF Apply
  <2>2. \A x \in Senders : heard'[x] \subseteq heard[x]
    BY <1>0, <2>1
  <2>3. /\ a.row \in Rows /\ a.id \in 0..MaxMade
        /\ StatusOf(a.as) \in {"requested", "processed", "failed"}
        /\ TrueOutcome(a.row, a.id, StatusOf(a.as))
    BY <2>1, HeardIsTrue
  <2> QED
    BY <1>0, <2>1, <2>2, <2>3, OutcomeKeepsWord
<1>9. ASSUME NEW s \in Senders, Crash(s) PROVE WordInv'
  <2>1. \A x \in Senders : heard'[x] \subseteq heard[x]
    BY <1>0, <1>9 DEF Crash
  <2> QED
    BY <1>0, <1>9, <2>1, ReadingKeepsWord DEF Crash
<1>10. ASSUME NEW s \in Senders, NEW r \in Rows, Send(s, r) PROVE WordInv'
  <2>1. PICK a \in Answer : Reaches(r, a) /\ heard' = [heard EXCEPT ![s] = {a}]
    BY <1>10 DEF Send
  <2>2. \A x \in Senders : \A b \in heard'[x] : b \in heard[x] \/ b = a
    BY <1>0, <2>1
  <2> QED
    BY <1>0, <1>10, <2>1, <2>2, CallKeepsWord DEF Send
<1>11. ASSUME NEW s \in Senders, NEW r \in Rows, SendLost(s, r) PROVE WordInv'
  <2>1. \A x \in Senders : heard'[x] \subseteq heard[x]
    BY <1>0, <1>11 DEF SendLost, OnTimeout
  <2>2. ASSUME NEW a \in Answer, Reaches(r, a) PROVE WordInv'
    BY <1>0, <1>11, <2>1, <2>2, CallKeepsWord DEF SendLost
  <2>3. CASE UNCHANGED <<made, turned>>
    BY <1>0, <1>11, <2>1, <2>3, ReadingKeepsWord DEF SendLost
  <2> QED
    BY <1>11, <2>2, <2>3 DEF SendLost
<1>12. ASSUME NEW r \in Rows, NEW e \in 1..MaxMade, Settle(r, e) PROVE WordInv'
  <2>1. /\ e \in DOMAIN made[r] /\ made[r][e] = "pending"
        /\ UNCHANGED <<books, turned, todo, heard>> /\ made[r] # << >>
    BY <1>12 DEF Settle
  <2>2. /\ \A x \in Rows : x # r => made'[x] = made[x]
        /\ made'[r] # << >> /\ Len(made'[r]) = Len(made[r])
    BY <1>0, <1>12, SettleFacts
  <2>3. /\ \A x \in Rows : WordKept(x)' <=> WordKept(x)
        /\ WordKept(r) => First(r) = "pending" /\ r \notin turned
    <3>1. WordKept(r) => e = 1
      BY <1>0, <2>1, OnlyFirst
    <3> QED
      BY <2>1, <2>2, <3>1 DEF WordKept, First
  <2>4. UNCHANGED <<status, rzpId>> /\ turned \subseteq Rows
        /\ \A x \in Rows : Sendable(x)' <=> Sendable(x)
    BY <1>0, <2>1 DEF books, TypeOK, Sendable, ByHand
  <2>5. TurnedSendable'
    BY <2>1, <2>4 DEF WordInv, TurnedSendable
  <2>6. RowsRight'
    <3>1. ASSUME NEW x \in Rows, x # r, WordKept(x) PROVE (FailedRight(x) /\ ProcessedRight(x))'
      BY <2>1, <2>2, <2>4, <3>1
      DEF WordInv, RowsRight, FailedRight, ProcessedRight, First, ByHand
    <3>2. ASSUME WordKept(r) PROVE (FailedRight(r) /\ ProcessedRight(r))'
      BY <2>1, <2>2, <2>3, <2>4, <3>2
      DEF WordInv, RowsRight, FailedRight, ProcessedRight, First, ByHand
    <3> QED
      BY <2>3, <3>1, <3>2 DEF RowsRight
  <2>7. HeardRight'
    <3>1. ASSUME NEW s \in Senders, NEW b \in heard[s], WordKept(b.row)'
          PROVE  AnswerRight(b)'
      <4>1. b.row \in Rows
        BY <1>0
      <4>2. AnswerRight(b)
        BY <2>3, <3>1, <4>1 DEF WordInv, HeardRight
      <4>3. CASE b.row # r
        BY <2>1, <2>2, <4>1, <4>2, <4>3 DEF AnswerRight, First
      <4>4. CASE b.row = r
        BY <2>1, <2>2, <2>3, <3>1, <4>2, <4>4 DEF AnswerRight, First
      <4> QED
        BY <4>3, <4>4
    <3> QED
      BY <2>1, <3>1 DEF HeardRight, WordKept
  <2> QED
    BY <1>0, <2>5, <2>6, <2>7 DEF WordInv
<1>13. ASSUME NEW r \in Rows, NEW e \in 1..MaxMade, Event(r, e) PROVE WordInv'
  <2>1. /\ e \in 0..MaxMade /\ made[r][e] \in {"requested", "processed", "failed"}
        /\ TrueOutcome(r, e, made[r][e])
    BY <1>13, EventIsTrue
  <2>2. ApplyRefund(r, e, made[r][e]) /\ \A x \in Senders : heard'[x] \subseteq heard[x]
    BY <1>13 DEF Event
  <2> QED
    BY <1>0, <2>1, <2>2, OutcomeKeepsWord
<1>14. CASE UNCHANGED vars
  BY <1>0, <1>14, ReadingKeepsWord DEF vars
<1> QED
  BY <1>1, <1>4, <1>5, <1>6, <1>7, <1>8, <1>9, <1>10, <1>11, <1>12, <1>13, <1>14
  DEF Next, MoneyAction

LEMMA WordAlways == Spec => []WordInv
<1>1. Init => WordInv
  BY WordInit, RefundsAssumption
<1>2. WordInv /\ [Next]_vars => WordInv'
  BY WordStep, RefundsAssumption
<1> QED
  BY <1>1, <1>2, PTL DEF Spec

\* Where Razorpay keeps its word, a refund that left counts as such.
LEMMA LeftCounts ==
  ASSUME WordInv, NEW r \in Rows, WordKept(r)
  PROVE  /\ status[r] \in {"none", "failed"} => Alive(r) = {}
         /\ status[r] = "processed" => ByHand(r) \/ \E e \in Alive(r) : made[r][e] = "processed"
         /\ Gone(r) => status[r] \in Counts
<1>1. /\ TypeOK /\ status[r] \in Statuses /\ FailedRight(r) /\ ProcessedRight(r)
      /\ status[r] = "none" => made[r] = << >>
  BY DEF WordInv, FlagInv, TypeOK, NeverSent, Sendable, RowsRight
<1>2. /\ Alive(r) = IF made[r] # << >> /\ First(r) # "failed" THEN {1} ELSE {}
      /\ r \in turned => made[r] = << >>
  BY <1>1, OnlyFirst
<1>3. status[r] \in {"none", "failed"} => Alive(r) = {}
  BY <1>1, <1>2 DEF FailedRight
<1>4. status[r] = "processed" => ByHand(r) \/ \E e \in Alive(r) : made[r][e] = "processed"
  BY <1>1, <1>2 DEF ProcessedRight, First
<1> QED
  BY <1>1, <1>3, <1>4 DEF Gone, Counts, Statuses

\* Where Razorpay keeps its word about a key, a refund we call failed is not on
\* its way and one we call processed has left (BooksMatch), whatever it does
\* about other keys.
THEOREM BooksStayMatched == Spec => []BooksMatch
<1>1. WordInv => BooksMatch
  BY LeftCounts DEF BooksMatch
<1> QED
  BY <1>1, WordAlways, PTL

-----------------------------------------------------------------------------
(* What left is off the books.                                              *)

LEMMA LeftFits ==
  ASSUME WordInv, MoneyAdds
  PROVE  LeftIsOffTheBooks
<1> DEFINE S == {r \in Rows : WordKept(r) /\ Gone(r)}
           H == [r \in Rows |-> IF r \in S THEN amount[r] ELSE 0]
           G == RowShares(status, amount)
<1>1. /\ IsFiniteSet(Rows) /\ IsFiniteSet(captured) /\ amount \in [Rows -> Nat] /\ paid \in Int
      /\ \A p \in captured : Amount[p] \in Int
  BY RefundsAssumption, FS_Subset DEF RefundsAssumption, WordInv, FlagInv, TypeOK
<1>2. \A r \in Rows : H[r] \in Int /\ G[r] \in Int /\ H[r] <= G[r]
  BY <1>1, LeftCounts DEF RowShares, Share
<1>3. SumOver(LAMBDA r : amount[r], S) = Sum(H, Rows)
  <2>1. SumOver(LAMBDA r : amount[r], S) = Sum(amount, S)
    BY DEF SumOver, Sum
  <2>2. /\ S \in SUBSET Rows /\ \A r \in S : amount[r] \in Int /\ amount[r] = H[r]
        /\ \A r \in Rows \ S : H[r] = 0
    BY <1>1
  <2> HIDE DEF S, H
  <2>3. Sum(amount, S) = Sum(H, Rows)
    BY <1>1, <2>2, SumWithin
  <2> QED
    BY <2>1, <2>3
<1>4. Sum(G, Rows) = Sum(Gifts(status, amount), Payments)
  BY <1>1, GiftsAreShares
<1>5. paid + Sum(G, Rows) = CapturedMoney
  <2>1. paid + Sum(Gifts(status, amount), Payments) = Sum(Amount, captured)
    BY AddsNow
  <2>2. CapturedMoney = Sum(Amount, captured)
    BY DEF CapturedMoney, SumOver, Sum
  <2> QED
    BY <1>4, <2>1, <2>2
<1> HIDE DEF H, G, S
<1>6. Sum(H, Rows) <= Sum(G, Rows) /\ Sum(H, Rows) \in Int /\ Sum(G, Rows) \in Int
  BY <1>1, <1>2, SumGrows, SumInt
<1>7. paid + SumOver(LAMBDA r : amount[r], S) <= CapturedMoney
  BY <1>1, <1>3, <1>5, <1>6
<1> QED
  BY <1>7 DEF LeftIsOffTheBooks, S

\* What is with the customer is off what the booking holds (LeftIsOffTheBooks):
\* no decision and no button can send it again.
THEOREM LeftStaysOff == Spec => []LeftIsOffTheBooks
<1>1. Init => WordInv /\ MoneyAdds
  BY WordInit, AddsInit, RefundsAssumption
<1>2. WordInv /\ MoneyAdds /\ [Next]_vars => WordInv' /\ MoneyAdds'
  BY WordStep, AddsStep, RefundsAssumption DEF WordInv, FlagInv
<1>3. WordInv /\ MoneyAdds => LeftIsOffTheBooks
  BY LeftFits
<1> QED
  BY <1>1, <1>2, <1>3, PTL DEF Spec

-----------------------------------------------------------------------------
(* The promise.                                                             *)

\* Phase in terms of the row's status and the first refund under its key.
PhaseOf(r) ==
  IF status[r] = "none" THEN "none"
  ELSE IF ~ WordKept(r) THEN "disowned"
  ELSE IF made[r] # << >> THEN IF First(r) = "failed" THEN "bounced" ELSE "gone"
  ELSE IF status[r] = "failed" THEN "dropped"
  ELSE IF status[r] = "processed" THEN "gone" ELSE "planned"

LEMMA PhaseIs == ASSUME WordInv PROVE Phase = [r \in Rows |-> PhaseOf(r)]
<1>1. ASSUME NEW r \in Rows PROVE Phase[r] = PhaseOf(r)
  <2>0. Phase[r] =
          CASE status[r] = "none" -> "none"
            [] status[r] # "none" /\ ~ WordKept(r) -> "disowned"
            [] status[r] # "none" /\ WordKept(r) /\ Gone(r) -> "gone"
            [] status[r] # "none" /\ WordKept(r) /\ made[r] # << >> /\ ~ Gone(r) -> "bounced"
            [] status[r] = "failed" /\ made[r] = << >> -> "dropped"
            [] OTHER -> "planned"
    BY DEF Phase
  <2>1. /\ status[r] \in Statuses /\ TypeOK
        /\ status[r] = "none" => made[r] = << >>
        /\ ByHand(r) => made[r] = << >>
        /\ made[r] = << >> => WordKept(r)
    BY NoneIsKept DEF WordInv, FlagInv, TypeOK, NeverSent, Sendable
  <2>2. CASE status[r] = "none"
    BY <2>0, <2>1, <2>2 DEF PhaseOf
  <2>3. CASE status[r] # "none" /\ ~ WordKept(r)
    BY <2>0, <2>1, <2>3 DEF PhaseOf
  <2>4. CASE status[r] # "none" /\ WordKept(r)
    <3>1. Alive(r) # {} <=> made[r] # << >> /\ First(r) # "failed"
      BY <2>1, <2>4, OnlyFirst
    <3>2. status[r] = "processed" /\ made[r] = << >> => ByHand(r)
      BY <2>4 DEF WordInv, RowsRight, ProcessedRight
    <3>3. Gone(r) <=> \/ made[r] # << >> /\ First(r) # "failed"
                      \/ made[r] = << >> /\ status[r] = "processed"
      BY <2>1, <3>1, <3>2 DEF Gone
    <3>4. CASE made[r] # << >> /\ First(r) # "failed"
      BY <2>0, <2>4, <3>3, <3>4 DEF PhaseOf
    <3>5. CASE made[r] # << >> /\ First(r) = "failed"
      BY <2>0, <2>4, <3>3, <3>5 DEF PhaseOf
    <3>6. CASE made[r] = << >> /\ status[r] = "processed"
      BY <2>0, <2>4, <3>3, <3>6 DEF PhaseOf
    <3>7. CASE made[r] = << >> /\ status[r] = "failed"
      BY <2>0, <2>4, <3>3, <3>7 DEF PhaseOf
    <3>8. CASE made[r] = << >> /\ status[r] = "requested"
      BY <2>0, <2>4, <3>3, <3>8 DEF PhaseOf
    <3> QED
      BY <2>1, <2>4, <3>4, <3>5, <3>6, <3>7, <3>8 DEF Statuses
  <2> QED
    BY <2>2, <2>3, <2>4
<1> QED
  BY <1>1 DEF Phase

\* The rows whose phase changes become p.
Turn(R, p) ==
  /\ \A r \in R : PhaseOf(r)' = p
  /\ \A r \in Rows \ R : PhaseOf(r)' = PhaseOf(r)

LEMMA TurnBecomes ==
  ASSUME WordInv, WordInv', NEW R \in SUBSET Rows, NEW p, Turn(R, p)
  PROVE  Promise!Become(R, p)
<1>1. Phase = [r \in Rows |-> PhaseOf(r)]
  BY PhaseIs
<1>2. Phase' = [r \in Rows |-> PhaseOf(r)']
  <2>1. (Phase = [r \in Rows |-> PhaseOf(r)])'
    BY PhaseIs, PTL
  <2> QED
    BY <2>1
<1>3. Phase' = [r \in Rows |-> IF r \in R THEN p ELSE Phase[r]]
  BY <1>1, <1>2 DEF Turn
<1> QED
  BY <1>3 DEF Promise!Become

LEMMA NothingTurns ==
  ASSUME WordInv, WordInv', \A r \in Rows : PhaseOf(r)' = PhaseOf(r)
  PROVE  Phase' = Phase
<1>1. Phase = [r \in Rows |-> PhaseOf(r)]
  BY PhaseIs
<1>2. Promise!Become({}, "gone")
  BY TurnBecomes DEF Turn
<1> QED
  BY <1>1, <1>2 DEF Promise!Become

\* The moves of the promise.
LEMMA Moves ==
  ASSUME WordInv, WordInv', NEW R \in SUBSET Rows, NEW p, Turn(R, p),
         \/ p = "planned" /\ \A r \in R : PhaseOf(r) = "none"
         \/ p = "gone" /\ \A r \in R : PhaseOf(r) = "planned"
         \/ p = "bounced" /\ \E r \in Rows : R = {r} /\ PhaseOf(r) \in {"planned", "gone"}
         \/ p = "dropped" /\ \E r \in Rows : R = {r} /\ PhaseOf(r) = "planned"
         \/ p = "disowned" /\ \E r \in Rows : R = {r} /\ PhaseOf(r) # "none"
  PROVE  Promise!Next
<1>1. Promise!Become(R, p)
  BY TurnBecomes
<1>2. \A r \in Rows : Phase[r] = PhaseOf(r)
  BY PhaseIs
<1>3. CASE p = "planned" /\ \A r \in R : PhaseOf(r) = "none"
  BY <1>1, <1>2, <1>3 DEF Promise!Next, Promise!Plan, Promise!With
<1>4. CASE p = "gone" /\ \A r \in R : PhaseOf(r) = "planned"
  BY <1>1, <1>2, <1>4 DEF Promise!Next, Promise!Leave, Promise!With
<1>5. CASE p = "bounced" /\ \E r \in Rows : R = {r} /\ PhaseOf(r) \in {"planned", "gone"}
  BY <1>1, <1>2, <1>5 DEF Promise!Next, Promise!Bounce, Promise!With
<1>6. CASE p = "dropped" /\ \E r \in Rows : R = {r} /\ PhaseOf(r) = "planned"
  BY <1>1, <1>2, <1>6 DEF Promise!Next, Promise!Drop, Promise!With
<1>7. CASE p = "disowned" /\ \E r \in Rows : R = {r} /\ PhaseOf(r) # "none"
  BY <1>1, <1>2, <1>7 DEF Promise!Next, Promise!Disown
<1> QED
  BY <1>3, <1>4, <1>5, <1>6, <1>7

\* New rows are planned.
LEMMA SpendsIsPlan ==
  ASSUME WordInv, WordInv', Spends
  PROVE  Promise!Next
<1>1. PICK new \in SUBSET Rows :
        /\ \A r \in new : status[r] = "none" /\ status'[r] = "requested"
        /\ \A r \in Rows \ new : status'[r] = status[r]
  BY SpendsRows DEF WordInv, FlagInv
<1>2. made' = made /\ \A x : WordKept(x)' <=> WordKept(x)
  BY SpendsRows DEF WordInv, FlagInv, WordKept
<1>3. \A r \in new : PhaseOf(r) = "none" /\ PhaseOf(r)' = "planned"
  BY <1>1, <1>2, NoneIsKept DEF PhaseOf, WordInv, FlagInv, NeverSent, Sendable
<1>4. \A r \in Rows \ new : PhaseOf(r)' = PhaseOf(r)
  BY <1>1, <1>2 DEF PhaseOf, First
<1> QED
  BY <1>3, <1>4, Moves DEF Turn

\* A refund that is made leaves, or bounces at once, or Razorpay breaks its word.
LEMMA CallLeaves ==
  ASSUME WordInv, WordInv', NEW r \in Rows, NEW a, Reaches(r, a), Sendable(r),
         UNCHANGED books
  PROVE  Promise!Next \/ Phase' = Phase
<1>1. /\ status' = status /\ made \in [Rows -> Seq(AtRazorpay)] /\ TypeOK
      /\ status[r] \in Statuses /\ status[r] # "none" /\ ~ ByHand(r)
  BY DEF books, WordInv, FlagInv, TypeOK, Sendable
<1>2. \A x \in Rows : x # r => made'[x] = made[x] /\ (WordKept(x)' <=> WordKept(x))
  BY <1>1, ReachesOne
<1>3. \A x \in Rows \ {r} : PhaseOf(x)' = PhaseOf(x)
  BY <1>1, <1>2 DEF PhaseOf, First
<1>4. CASE ~ WordKept(r)'
  <2>1. PhaseOf(r)' = "disowned" /\ PhaseOf(r) # "none"
    BY <1>1, <1>4 DEF PhaseOf
  <2>2. Turn({r}, "disowned")
    BY <1>3, <2>1 DEF Turn
  <2> QED
    BY <2>1, <2>2, Moves
<1>5. CASE WordKept(r)'
  <2>1. /\ WordKept(r)
        /\ \/ made' = made
           \/ /\ made[r] = << >> /\ r \notin turned
              /\ \E as \in AtRazorpay : made' = [made EXCEPT ![r] = Append(<< >>, as)]
    BY <1>1, <1>5, ReachesOnce
  <2>2. CASE made' = made
    <3>1. PhaseOf(r)' = PhaseOf(r)
      BY <1>1, <1>5, <2>1, <2>2 DEF PhaseOf, First
    <3> QED
      BY <1>3, <3>1, NothingTurns
  <2>3. ASSUME made[r] = << >>, r \notin turned, NEW as \in AtRazorpay,
               made' = [made EXCEPT ![r] = Append(<< >>, as)]
        PROVE  Promise!Next
    <3>1. made'[r] # << >> /\ First(r)' = as
      <4>1. made'[r] = Append(<< >>, as)
        BY <1>1, <2>3
      <4> QED
        BY <4>1, AppendToNone DEF First
    <3>2. status[r] = "requested"
      BY <1>1, <2>1, <2>3 DEF Statuses, WordInv, RowsRight, FailedRight, ProcessedRight
    <3>3. PhaseOf(r) = "planned"
      BY <2>1, <2>3, <3>2 DEF PhaseOf
    <3>4. PhaseOf(r)' = IF as = "failed" THEN "bounced" ELSE "gone"
      BY <1>1, <1>5, <3>1, <3>2 DEF PhaseOf
    <3>5. CASE as = "failed"
      <4>1. Turn({r}, "bounced")
        BY <1>3, <3>4, <3>5 DEF Turn
      <4> QED
        BY <3>3, <4>1, Moves
    <3>6. CASE as # "failed"
      <4>1. Turn({r}, "gone")
        BY <1>3, <3>4, <3>6 DEF Turn
      <4> QED
        BY <3>3, <4>1, Moves
    <3> QED
      BY <3>5, <3>6
  <2> QED
    BY <2>1, <2>2, <2>3
<1> QED
  BY <1>4, <1>5

\* An outcome says what had happened, or drops a refund that was refused.
LEMMA OutcomeDrops ==
  ASSUME WordInv, WordInv', NEW r \in Rows, NEW e \in 0..MaxMade,
         NEW st \in {"requested", "processed", "failed"},
         TrueOutcome(r, e, st), ApplyRefund(r, e, st), Sendable(r)
  PROVE  Promise!Next \/ Phase' = Phase
<1>1. /\ \A x \in Rows : x # r => status'[x] = status[x]
      /\ WordKept(r) =>
           status'[r] = status[r] \/ (status[r] = "requested" /\ status'[r] = st)
      /\ status[r] # "none" /\ status'[r] # "none"
      /\ made' = made /\ turned' = turned
  BY OutcomeMoves DEF Sendable
<1>2. \A x \in Rows : WordKept(x)' <=> WordKept(x)
  BY <1>1 DEF WordKept
<1>3. \A x \in Rows \ {r} : PhaseOf(x)' = PhaseOf(x)
  BY <1>1, <1>2 DEF PhaseOf, First
<1>4. CASE ~ WordKept(r) \/ status'[r] = status[r]
  <2>1. PhaseOf(r)' = PhaseOf(r)
    BY <1>1, <1>2, <1>4 DEF PhaseOf, First
  <2> QED
    BY <1>3, <2>1, NothingTurns
<1>5. CASE WordKept(r) /\ status[r] = "requested" /\ status'[r] = st /\ e # 0
  <2>1. PhaseOf(r)' = PhaseOf(r)
    BY <1>1, <1>2, <1>5 DEF PhaseOf, First, TrueOutcome
  <2> QED
    BY <1>3, <2>1, NothingTurns
<1>6. CASE WordKept(r) /\ status[r] = "requested" /\ status'[r] = st /\ e = 0
  <2>1. made[r] = << >> /\ st = "failed"
    BY <1>6 DEF TrueOutcome, WordKept
  <2>2. PhaseOf(r) = "planned" /\ PhaseOf(r)' = "dropped"
    BY <1>1, <1>2, <1>6, <2>1 DEF PhaseOf
  <2>3. Turn({r}, "dropped")
    BY <1>3, <2>2 DEF Turn
  <2> QED
    BY <2>2, <2>3, Moves
<1> QED
  BY <1>1, <1>4, <1>5, <1>6

LEMMA PromiseStep ==
  ASSUME RefundsAssumption, WordInv, [Next]_vars
  PROVE  [Promise!Next]_Phase
<1>0. /\ WordInv' /\ TypeOK /\ \A s \in Senders : \A x \in todo[s] : Sendable(x)
  BY WordStep DEF WordInv, FlagInv, TodoSendable
<1>k. ASSUME UNCHANGED <<books, made, turned>> PROVE Phase' = Phase
  BY <1>0, <1>k, NothingTurns DEF books, PhaseOf, First, WordKept
<1>1. CASE MoneyAction
  BY <1>0, <1>1, MoneySpends, SpendsIsPlan
<1>4. CASE RecordByHand
  <2> DEFINE mine == {r \in Rows : status[r] = "requested" /\ ByHand(r)}
  <2>1. /\ status' = [r \in Rows |-> IF r \in mine THEN "processed" ELSE status[r]]
        /\ made' = made /\ turned' = turned
    BY <1>4 DEF RecordByHand
  <2>2. \A r \in mine : status[r] = "requested" /\ made[r] = << >>
    BY DEF WordInv, FlagInv, NeverSent, Sendable
  <2>3. mine \in SUBSET Rows /\ \A x : WordKept(x)' <=> WordKept(x)
    BY <2>1 DEF WordKept
  <2> HIDE DEF mine
  <2>4. \A r \in mine : PhaseOf(r) = "planned" /\ PhaseOf(r)' = "gone"
    BY <2>1, <2>2, <2>3, NoneIsKept DEF PhaseOf
  <2>5. \A r \in Rows \ mine : PhaseOf(r)' = PhaseOf(r)
    BY <2>1, <2>3 DEF PhaseOf, First
  <2>6. Turn(mine, "gone")
    BY <2>4, <2>5 DEF Turn
  <2> QED
    BY <1>0, <2>3, <2>4, <2>6, Moves
<1>5. ASSUME NEW s \in Senders, Read(s) \/ Check(s) \/ CheckLost(s) \/ Crash(s)
      PROVE  Phase' = Phase
  BY <1>k, <1>5 DEF Read, Check, CheckLost, Crash
<1>6. ASSUME NEW s \in Senders, Apply(s) PROVE [Promise!Next]_Phase
  <2>1. PICK a \in heard[s] : a.what # "refused" /\ ApplyRefund(a.row, a.id, StatusOf(a.as))
    BY <1>6 DEF Apply
  <2>2. /\ a.row \in Rows /\ a.id \in 0..MaxMade /\ Sendable(a.row)
        /\ StatusOf(a.as) \in {"requested", "processed", "failed"}
        /\ TrueOutcome(a.row, a.id, StatusOf(a.as))
    BY <2>1, HeardIsTrue
  <2> QED
    BY <1>0, <2>1, <2>2, OutcomeDrops
<1>7. ASSUME NEW s \in Senders, NEW r \in Rows, Send(s, r) PROVE [Promise!Next]_Phase
  BY <1>0, <1>7, CallLeaves DEF Send
<1>8. ASSUME NEW s \in Senders, NEW r \in Rows, SendLost(s, r) PROVE [Promise!Next]_Phase
  <2>1. CASE \E a \in Answer : Reaches(r, a)
    BY <1>0, <1>8, <2>1, CallLeaves DEF SendLost
  <2>2. CASE UNCHANGED <<made, turned>>
    BY <1>k, <1>8, <2>2 DEF SendLost
  <2> QED
    BY <1>8, <2>1, <2>2 DEF SendLost
<1>9. ASSUME NEW r \in Rows, NEW e \in 1..MaxMade, Settle(r, e) PROVE [Promise!Next]_Phase
  <2>1. /\ e \in DOMAIN made[r] /\ made[r][e] = "pending" /\ made[r] # << >>
        /\ status' = status /\ turned' = turned
    BY <1>9 DEF Settle, books
  <2>2. /\ \A x \in Rows : x # r => made'[x] = made[x]
        /\ made'[r] # << >> /\ Len(made'[r]) = Len(made[r])
        /\ made'[r][e] \in {"processed", "failed"}
    BY <1>0, <1>9, SettleFacts
  <2>3. /\ \A x \in Rows : WordKept(x)' <=> WordKept(x)
    BY <2>1, <2>2 DEF WordKept
  <2>4. \A x \in Rows \ {r} : PhaseOf(x)' = PhaseOf(x)
    BY <2>1, <2>2, <2>3 DEF PhaseOf, First
  <2>5. status[r] # "none"
    BY <2>1 DEF WordInv, FlagInv, NeverSent, Sendable
  <2>6. CASE ~ WordKept(r)
    <3>1. PhaseOf(r)' = PhaseOf(r)
      BY <2>1, <2>3, <2>5, <2>6 DEF PhaseOf
    <3> QED
      BY <1>0, <2>4, <3>1, NothingTurns
  <2>7. CASE WordKept(r)
    <3>1. e = 1
      BY <1>0, <2>1, <2>7, OnlyFirst
    <3>2. /\ PhaseOf(r) = "gone"
          /\ PhaseOf(r)' = IF made'[r][1] = "failed" THEN "bounced" ELSE "gone"
      BY <2>1, <2>2, <2>3, <2>5, <2>7, <3>1 DEF PhaseOf, First
    <3>3. CASE made'[r][1] = "failed"
      <4>1. Turn({r}, "bounced")
        BY <2>4, <3>2, <3>3 DEF Turn
      <4> QED
        BY <1>0, <3>2, <4>1, Moves
    <3>4. CASE made'[r][1] # "failed"
      BY <1>0, <2>4, <3>2, <3>4, NothingTurns
    <3> QED
      BY <3>3, <3>4
  <2> QED
    BY <2>6, <2>7
<1>10. ASSUME NEW r \in Rows, NEW e \in 1..MaxMade, Event(r, e) PROVE [Promise!Next]_Phase
  <2>1. /\ e \in 0..MaxMade /\ made[r][e] \in {"requested", "processed", "failed"}
        /\ TrueOutcome(r, e, made[r][e]) /\ Sendable(r)
    BY <1>10, EventIsTrue
  <2>2. ApplyRefund(r, e, made[r][e])
    BY <1>10 DEF Event
  <2> QED
    BY <1>0, <2>1, <2>2, OutcomeDrops
<1>11. CASE UNCHANGED vars
  BY <1>k, <1>11 DEF vars
<1> QED
  BY <1>1, <1>4, <1>5, <1>6, <1>7, <1>8, <1>9, <1>10, <1>11 DEF Next, MoneyAction

\* Every refund leaves at most once, and never after it was given up
\* (KeepsRefundPromise), but one about whose key Razorpay broke its word.
THEOREM RefundPromiseKept == Spec => KeepsRefundPromise
<1>1. Init => Promise!Init
  <2> SUFFICES ASSUME Init PROVE Promise!Init
    OBVIOUS
  <2>1. Phase = [r \in Rows |-> PhaseOf(r)]
    BY WordInit, PhaseIs, RefundsAssumption
  <2>2. \A r \in Rows : PhaseOf(r) = "none"
    BY DEF Init, PhaseOf
  <2> QED
    BY <2>1, <2>2 DEF Promise!Init
<1>2. WordInv /\ [Next]_vars => [Promise!Next]_Phase
  BY PromiseStep, RefundsAssumption
<1> QED
  BY <1>1, <1>2, WordAlways, PTL DEF Spec, KeepsRefundPromise, Promise!Spec

=============================================================================
