---------------------------- MODULE RefundsProofs ----------------------------
(***************************************************************************)
(* What holds of every booking's refunds, for any number of payments, rows *)
(* and senders.                                                            *)
(***************************************************************************)
EXTENDS Refunds, Sums, SequenceTheorems, TLAPS

\* Money lands, or none does.
Lands(sum, C) ==
  \/ sum = paid /\ C = captured
  \/ \E p \in Payments \ captured : sum = paid + Amount[p] /\ C = captured \union {p}

\* What every action on the money does: money may land, the price may change,
\* and a refund is planned, or none where no more is owed than before.
Spends ==
  \E sum \in Int, want \in Nat, keep \in Nat, C \in SUBSET Payments :
    /\ Lands(sum, C) /\ over' \in BOOLEAN
    /\ \/ Plan(sum, want, keep, C)
       \/ /\ NoPlan(sum, keep, C)
          /\ OwedOn(sum, keep) > 0 => OwedOn(paid, due) > 0

MoneyAction ==
  \/ \E p \in Payments, x \in Lines \union {0} : Capture(p, x) \/ CaptureSpare(p, x)
  \/ \E p \in Payments : SeatsGone(p)
  \/ \E k \in Dues : Cancel(k) \/ Move(k)
  \/ \E x \in Lines : TakeOff(x)
  \/ SendOwed

\* Every action on the money is of that kind.
LEMMA MoneySpends ==
  ASSUME TypeOK, RefundsAssumption, MoneyAction
  PROVE  Spends
<1>1. /\ paid \in Int /\ due \in Nat /\ over \in BOOLEAN /\ captured \in SUBSET Payments
      /\ Amount \in [Payments -> Nat] /\ Dues \subseteq Nat /\ Lines \subseteq Nat
  BY RefundsAssumption DEF TypeOK, RefundsAssumption
<1>2. \A sum \in Int, keep \in Nat : OwedOn(sum, keep) \in Nat
  BY DEF OwedOn
<1>3. ASSUME NEW p \in Payments \ captured
      PROVE  /\ paid + Amount[p] \in Int /\ captured \union {p} \in SUBSET Payments
             /\ Lands(paid + Amount[p], captured \union {p})
  BY <1>1, <1>3 DEF Lands
<1>4. Lands(paid, captured)
  BY DEF Lands
<1>5. ASSUME NEW p \in Payments, NEW x \in Lines \union {0}, Capture(p, x) PROVE Spends
  <2>1. p \in Payments \ captured /\ due + x \in Nat /\ over' \in BOOLEAN
    BY <1>1, <1>5 DEF Capture
  <2> DEFINE sum == paid + Amount[p]
             want == OwedOn(sum, due + x)
  <2>2. want \in Nat
    BY <1>2, <1>3, <2>1
  <2>3. \/ Plan(sum, want, due + x, captured \union {p})
        \/ NoPlan(sum, due + x, captured \union {p}) /\ ~ (want > 0)
    BY <1>5, <2>2 DEF Capture
  <2> QED
    BY <1>3, <2>1, <2>2, <2>3 DEF Spends
<1>6. ASSUME NEW p \in Payments, NEW x \in Lines \union {0}, CaptureSpare(p, x) PROVE Spends
  <2>1. /\ p \in Payments \ captured /\ due + x \in Nat /\ over' \in BOOLEAN
        /\ Amount[p] - x \in Nat
    BY <1>1, <1>6 DEF CaptureSpare
  <2> DEFINE sum == paid + Amount[p]
  <2>2. CASE Plan(sum, Amount[p] - x, due + x, captured \union {p})
    BY <1>3, <2>1, <2>2 DEF Spends
  <2>3. CASE NoPlan(sum, due + x, captured \union {p}) /\ ~ (Amount[p] - x > 0)
    <3>1. sum - (due + x) = paid - due
      BY <1>1, <2>1, <2>3
    <3>2. OwedOn(sum, due + x) > 0 => OwedOn(paid, due) > 0
      BY <1>1, <1>3, <2>1, <3>1 DEF OwedOn
    <3> QED
      BY <1>3, <2>1, <2>3, <3>2 DEF Spends
  <2> QED
    BY <1>6, <2>2, <2>3 DEF CaptureSpare
<1>7. ASSUME NEW p \in Payments, SeatsGone(p) PROVE Spends
  <2>1. /\ p \in Payments \ captured /\ 0 \in Nat /\ over' \in BOOLEAN
        /\ OwedOn(paid + Amount[p], 0) \in Nat
    BY <1>2, <1>3, <1>7 DEF SeatsGone
  <2> QED
    BY <1>3, <1>7, <2>1 DEF SeatsGone, Spends
<1>8. ASSUME NEW k \in Dues, Cancel(k) PROVE Spends
  <2>1. k \in Nat /\ OwedOn(paid, k) \in Nat /\ over' \in BOOLEAN
    BY <1>1, <1>2, <1>8 DEF Cancel
  <2> QED
    BY <1>1, <1>4, <1>8, <2>1 DEF Cancel, Spends
<1>9. ASSUME NEW k \in Dues, Move(k) PROVE Spends
  <2>1. k \in Nat /\ OwedOn(paid, k) \in Nat /\ over' \in BOOLEAN
    BY <1>1, <1>2, <1>9 DEF Move
  <2> QED
    BY <1>1, <1>4, <1>9, <2>1 DEF Move, Spends
<1>10. ASSUME NEW x \in Lines, TakeOff(x) PROVE Spends
  <2>1. PICK want \in LineOwed(x) : Plan(paid, want, due - x, captured)
    BY <1>10 DEF TakeOff
  <2>2. due - x \in Nat /\ over' \in BOOLEAN /\ x \in Nat
    BY <1>1, <1>10 DEF TakeOff
  <2>3. want \in Nat
    BY <1>1, <1>2, <2>1, <2>2 DEF LineOwed
  <2> QED
    BY <1>1, <1>4, <2>1, <2>2, <2>3 DEF Spends
<1>11. CASE SendOwed
  <2>1. OwedOn(paid, due) \in Nat /\ over' \in BOOLEAN
    BY <1>1, <1>2, <1>11 DEF SendOwed
  <2> QED
    BY <1>1, <1>4, <1>11, <2>1 DEF SendOwed, Spends
<1> QED
  BY <1>5, <1>6, <1>7, <1>8, <1>9, <1>10, <1>11 DEF MoneyAction

\* The last refund made under a key is an answer of its row.
LEMMA LatestIsAnswer ==
  ASSUME TypeOK, RefundsAssumption, NEW r \in Rows, made[r] # << >>
  PROVE  Latest(r) \in Answer
<1>1. made[r] \in Seq(AtRazorpay) /\ Len(made[r]) <= MaxMade
  BY DEF TypeOK
<1>2. Len(made[r]) \in 1..MaxMade
  BY <1>1, RefundsAssumption DEF RefundsAssumption
<1>3. made[r][Len(made[r])] \in AtRazorpay
  BY <1>1, <1>2
<1> QED
  BY <1>2, <1>3 DEF Latest, Reply, Answer

\* A refund just made is there.
LEMMA AppendIsNotEmpty ==
  ASSUME NEW q \in Seq(AtRazorpay), NEW as \in AtRazorpay
  PROVE  Append(q, as) # << >>
BY AppendProperties, Zenon

\* A refund's status may change within the refunds made under a key.
LEMMA ChangeKeepsSeq ==
  ASSUME NEW q \in Seq(AtRazorpay), NEW e \in 1..Len(q), NEW as \in AtRazorpay
  PROVE  [q EXCEPT ![e] = as] \in Seq(AtRazorpay) /\ Len([q EXCEPT ![e] = as]) = Len(q)
<1> DEFINE q2 == [q EXCEPT ![e] = as]
<1>1. q \in [1..Len(q) -> AtRazorpay] /\ Len(q) \in Nat
  BY LenProperties
<1>2. q2 \in [1..Len(q) -> AtRazorpay]
  BY <1>1
<1> HIDE DEF q2
<1>3. q2 \in Seq(AtRazorpay) /\ Len(q2) = Len(q)
  BY <1>1, <1>2, SeqDef
<1> QED
  BY <1>3 DEF q2

\* What Razorpay does with a call keeps its own rows in range.
LEMMA ReachesTypes ==
  ASSUME TypeOK, RefundsAssumption, NEW r \in Rows, NEW a, Reaches(r, a)
  PROVE  /\ made' \in [Rows -> Seq(AtRazorpay)]
         /\ \A x \in Rows : Len(made'[x]) <= MaxMade
         /\ turned' \subseteq Rows
<1>1. CASE Repeats(r, a)
  BY <1>1 DEF Repeats, TypeOK
<1>2. CASE Makes(r, a)
  <2>1. PICK as \in AtRazorpay : made' = [made EXCEPT ![r] = Append(@, as)]
    BY <1>2 DEF Makes
  <2>2. made[r] \in Seq(AtRazorpay) /\ MaxMade \in Nat \ {0}
    BY DEF TypeOK, RefundsAssumption
  <2>3. Len(made[r]) < MaxMade
    BY <1>2 DEF Makes
  <2>4. Append(made[r], as) \in Seq(AtRazorpay) /\ Len(Append(made[r], as)) <= MaxMade
    <3>1. Append(made[r], as) \in Seq(AtRazorpay)
      BY <2>2, Zenon, AppendProperties
    <3>2. Len(Append(made[r], as)) = Len(made[r]) + 1
      BY <2>2, AppendProperties
    <3>3. Len(made[r]) \in Nat
      BY <2>2, LenProperties
    <3>4. Len(Append(made[r], as)) <= MaxMade
      BY <2>2, <2>3, <3>2, <3>3
    <3> QED
      BY <3>1, <3>4
  <2>5. made' \in [Rows -> Seq(AtRazorpay)]
    BY <2>1, <2>4 DEF TypeOK
  <2>6. \A x \in Rows : Len(made'[x]) <= MaxMade
    BY <2>1, <2>4 DEF TypeOK
  <2> QED
    BY <1>2, <2>5, <2>6 DEF Makes, TypeOK
<1>3. CASE Refuses(r, a)
  BY <1>3 DEF Refuses, TypeOK
<1> QED
  BY <1>1, <1>2, <1>3 DEF Reaches

\* plan_refund, and a change of the money without it, keep every column in range.
LEMMA SpendsTypes ==
  ASSUME TypeOK, RefundsAssumption, Spends
  PROVE  TypeOK'
<1>1. PICK sum \in Int, want \in Nat, keep \in Nat, C \in SUBSET Payments :
        over' \in BOOLEAN /\ (Plan(sum, want, keep, C) \/ NoPlan(sum, keep, C))
  BY DEF Spends
<1>2. CASE Plan(sum, want, keep, C)
  <2>1. PICK take \in [Payments -> 0..want], new \in SUBSET Rows : Book(take, new, sum, want)
    BY <1>2 DEF Plan
  <2>2. take \in [Payments -> Nat]
    BY <2>1
  <2>3. /\ captured' = C /\ due' = keep /\ flag' \in BOOLEAN
        /\ UNCHANGED <<rzpId, made, turned, todo, heard>>
    BY <1>2 DEF Plan, Needed, Waiting
  <2>4. paid' \in Int
    BY <2>1, <2>2 DEF Book
  <2>5. status' \in [Rows -> Statuses]
    BY <2>1 DEF TypeOK, Statuses, Book
  <2>6. amount' \in [Rows -> Nat]
    BY <2>1, <2>2, RefundsAssumption DEF TypeOK, RefundsAssumption, Book
  <2> QED
    BY <1>1, <2>3, <2>4, <2>5, <2>6 DEF TypeOK
<1>3. CASE NoPlan(sum, keep, C)
  BY <1>1, <1>3 DEF NoPlan, TypeOK
<1> QED
  BY <1>1, <1>2, <1>3

\* TypeOK of everything but what the senders heard.
RestTypes ==
  /\ captured \subseteq Payments
  /\ due \in Nat /\ over \in BOOLEAN /\ paid \in Int /\ flag \in BOOLEAN
  /\ status \in [Rows -> Statuses] /\ amount \in [Rows -> Nat]
  /\ rzpId \in [Rows -> 0..MaxMade]
  /\ made \in [Rows -> Seq(AtRazorpay)]
  /\ \A r \in Rows : Len(made[r]) <= MaxMade
  /\ turned \subseteq Rows /\ todo \in [Senders -> SUBSET Rows]

\* apply_refund keeps every column in range.
LEMMA ApplyTypes ==
  ASSUME TypeOK, NEW r \in Rows, NEW e \in 0..MaxMade,
         NEW st \in {"requested", "processed", "failed"}, ApplyRefund(r, e, st)
  PROVE  RestTypes'
<1>1. status' \in [Rows -> Statuses]
  BY DEF ApplyRefund, TypeOK, Statuses
<1>2. rzpId' \in [Rows -> 0..MaxMade]
  BY DEF ApplyRefund, TypeOK
<1>3. paid' \in Int
  <2>1. amount[r] \in Nat /\ paid \in Int
    BY DEF TypeOK
  <2> QED
    BY <2>1 DEF ApplyRefund, PaidAfter
<1>4. flag' \in BOOLEAN
  BY DEF ApplyRefund, Needed, Waiting
<1> QED
  BY <1>1, <1>2, <1>3, <1>4 DEF ApplyRefund, TypeOK, RestTypes

-----------------------------------------------------------------------------
(* Types.                                                                   *)

LEMMA TypeInit == ASSUME RefundsAssumption, Init PROVE TypeOK
<1>1. MaxMade \in Nat \ {0}
  BY DEF RefundsAssumption
<1>2. << >> \in Seq(AtRazorpay) /\ Len(<< >>) = 0
  BY EmptySeq
<1>3. made \in [Rows -> Seq(AtRazorpay)] /\ \A r \in Rows : Len(made[r]) <= MaxMade
  BY <1>1, <1>2 DEF Init
<1>4. due \in Nat /\ paid \in Int
  BY DEF Init, RefundsAssumption
<1>6. flag \in BOOLEAN /\ over \in BOOLEAN
  BY DEF Init
<1>5. rzpId \in [Rows -> 0..MaxMade]
  BY <1>1 DEF Init
<1> QED
  BY <1>3, <1>4, <1>5, <1>6 DEF Init, TypeOK, Statuses

LEMMA TypeStep ==
  ASSUME RefundsAssumption, TypeOK, [Next]_vars
  PROVE  TypeOK'
<1>1. CASE MoneyAction
  BY <1>1, MoneySpends, SpendsTypes
<1>4. CASE RecordByHand
  <2>1. status' \in [Rows -> Statuses] /\ flag' \in BOOLEAN
    BY <1>4 DEF RecordByHand, TypeOK, Statuses, Needed, Waiting
  <2> QED
    BY <1>4, <2>1 DEF RecordByHand, TypeOK
<1>5. ASSUME NEW s \in Senders, Read(s) PROVE TypeOK'
  BY <1>5 DEF Read, books, TypeOK
<1>6. ASSUME NEW s \in Senders, Check(s) PROVE TypeOK'
  <2>1. PICK a \in heard[s] :
          /\ heard' = [heard EXCEPT ![s] =
               IF made[a.row] = << >> THEN {Reply(a.row, "unmade", 0, "failed")}
               ELSE {Latest(a.row)}]
          /\ UNCHANGED <<books, made, turned, todo>>
    BY <1>6 DEF Check
  <2>2. a.row \in Rows
    BY DEF TypeOK, Answer
  <2>3. made[a.row] # << >> => Latest(a.row) \in Answer
    BY <2>2, LatestIsAnswer
  <2>4. Reply(a.row, "unmade", 0, "failed") \in Answer
    BY <2>2, RefundsAssumption DEF Reply, Answer, AtRazorpay, RefundsAssumption
  <2>5. heard' \in [Senders -> SUBSET Answer]
    BY <2>1, <2>3, <2>4 DEF TypeOK
  <2> QED
    BY <2>1, <2>5 DEF books, TypeOK
<1>7. ASSUME NEW s \in Senders, CheckLost(s) PROVE TypeOK'
  BY <1>7 DEF CheckLost, OnTimeout, books, TypeOK
<1>8. ASSUME NEW s \in Senders, Apply(s) PROVE TypeOK'
  <2>1. PICK a \in heard[s] : ApplyRefund(a.row, a.id, StatusOf(a.as))
    BY <1>8 DEF Apply
  <2>2. a.row \in Rows /\ a.id \in 0..MaxMade /\ a.as \in AtRazorpay
    BY DEF TypeOK, Answer
  <2>3. StatusOf(a.as) \in {"requested", "processed", "failed"}
    BY <2>2 DEF StatusOf, AtRazorpay
  <2>4. heard' \in [Senders -> SUBSET Answer]
    BY <1>8 DEF Apply, TypeOK
  <2>5. RestTypes'
    BY <2>1, <2>2, <2>3, ApplyTypes, Zenon
  <2> QED
    BY <2>4, <2>5 DEF TypeOK, RestTypes
<1>9. ASSUME NEW s \in Senders, Crash(s) PROVE TypeOK'
  BY <1>9 DEF Crash, books, TypeOK
<1>10. ASSUME NEW s \in Senders, NEW r \in Rows, Send(s, r) PROVE TypeOK'
  <2>1. PICK a \in Answer : Reaches(r, a) /\ heard' = [heard EXCEPT ![s] = {a}]
    BY <1>10 DEF Send
  <2>2. heard' \in [Senders -> SUBSET Answer] /\ todo' \in [Senders -> SUBSET Rows]
    BY <1>10, <2>1 DEF Send, TypeOK
  <2> QED
    BY <1>10, <2>1, <2>2, ReachesTypes DEF Send, books, TypeOK
<1>11. ASSUME NEW s \in Senders, NEW r \in Rows, SendLost(s, r) PROVE TypeOK'
  <2>1. heard' \in [Senders -> SUBSET Answer] /\ todo' \in [Senders -> SUBSET Rows]
    BY <1>11 DEF SendLost, OnTimeout, TypeOK
  <2>2. CASE \E a \in Answer : Reaches(r, a)
    BY <1>11, <2>1, <2>2, ReachesTypes DEF SendLost, books, TypeOK
  <2>3. CASE UNCHANGED <<made, turned>>
    BY <1>11, <2>1, <2>3 DEF SendLost, books, TypeOK
  <2> QED
    BY <1>11, <2>2, <2>3 DEF SendLost
<1>12. ASSUME NEW r \in Rows, NEW e \in 1..MaxMade, Settle(r, e) PROVE TypeOK'
  <2>1. PICK as \in {"processed", "failed"} : made' = [made EXCEPT ![r][e] = as]
    BY <1>12 DEF Settle
  <2>2. made[r] \in Seq(AtRazorpay) /\ e \in 1..Len(made[r]) /\ as \in AtRazorpay
    BY <1>12, LenProperties DEF Settle, TypeOK, AtRazorpay
  <2>3. /\ [made[r] EXCEPT ![e] = as] \in Seq(AtRazorpay)
        /\ Len([made[r] EXCEPT ![e] = as]) = Len(made[r])
    BY <2>2, ChangeKeepsSeq
  <2>4. made' \in [Rows -> Seq(AtRazorpay)] /\ \A x \in Rows : Len(made'[x]) <= MaxMade
    BY <2>1, <2>3 DEF TypeOK
  <2> QED
    BY <1>12, <2>4 DEF Settle, books, TypeOK
<1>13. ASSUME NEW r \in Rows, NEW e \in 1..MaxMade, Event(r, e) PROVE TypeOK'
  <2>1. made[r][e] \in {"requested", "processed", "failed"}
    <3>1. made[r] \in Seq(AtRazorpay) /\ e \in DOMAIN made[r]
      BY <1>13 DEF Event, TypeOK
    <3>2. made[r][e] \in AtRazorpay
      BY <3>1, LenProperties
    <3> QED
      BY <1>13, <3>2 DEF Event, AtRazorpay
  <2>2. e \in 0..MaxMade
    BY DEF RefundsAssumption
  <2>3. ApplyRefund(r, e, made[r][e]) /\ heard' \in [Senders -> SUBSET Answer]
    BY <1>13 DEF Event, TypeOK
  <2>4. RestTypes'
    BY <2>1, <2>2, <2>3, ApplyTypes, Zenon
  <2> QED
    BY <2>3, <2>4 DEF TypeOK, RestTypes
<1>14. CASE UNCHANGED vars
  BY <1>14 DEF vars, books, TypeOK
<1> QED
  BY <1>1, <1>4, <1>5, <1>6, <1>7, <1>8, <1>9, <1>10, <1>11, <1>12,
     <1>13, <1>14 DEF Next, MoneyAction

\* Every column, and everything Razorpay and the senders hold, stays in range,
\* whatever Razorpay does (TypeOK).
THEOREM TypeCorrect == Spec => []TypeOK
<1>1. Init => TypeOK
  BY TypeInit, RefundsAssumption
<1>2. TypeOK /\ [Next]_vars => TypeOK'
  BY TypeStep, RefundsAssumption
<1> QED
  BY <1>1, <1>2, PTL DEF Spec

-----------------------------------------------------------------------------
(* The owner's flag.                                                        *)

\* A row that may have been sent: it exists and is not handed back by hand.
Sendable(r) == status[r] # "none" /\ ~ ByHand(r)

\* Razorpay hears only of rows that may be sent.
NeverSent ==
  \A r \in Rows : ~ Sendable(r) => made[r] = << >> /\ rzpId[r] = 0

\* Senders send only rows that may be sent.
TodoSendable == \A s \in Senders : \A r \in todo[s] : Sendable(r)

\* What a sender heard did happen: a refund with an id was made.
HeardTrue ==
  \A s \in Senders : \A a \in heard[s] :
    /\ Sendable(a.row)
    /\ a.what = "made" => made[a.row] # << >> /\ a.id # 0
    /\ a.what # "made" => a.id = 0 /\ a.as = "failed"

\* A row with a Razorpay id, or processed there, was made.
IdsMade ==
  \A r \in Rows :
    rzpId[r] # 0 \/ (status[r] = "processed" /\ ~ ByHand(r)) => made[r] # << >>

FlagRight == Needed(status, rzpId, paid, due) => flag

FlagInv == TypeOK /\ NeverSent /\ TodoSendable /\ HeardTrue /\ IdsMade /\ FlagRight

LEMMA FlagInvInit == ASSUME RefundsAssumption, Init PROVE FlagInv
<1>1. TypeOK
  BY TypeInit
<1>2. OwedOn(0, Total) = 0
  BY DEF RefundsAssumption, OwedOn
<1>3. FlagRight
  BY <1>2 DEF Init, FlagRight, Needed, Waiting
<1> QED
  BY <1>1, <1>3 DEF Init, FlagInv, NeverSent, TodoSendable, HeardTrue, IdsMade, Sendable

\* Rows are only added, and the flag stays up or is raised.
LEMMA SpendsKeepFlagInv ==
  ASSUME FlagInv, RefundsAssumption, Spends
  PROVE  FlagInv'
<1>0. TypeOK'
  BY SpendsTypes DEF FlagInv
<1>1. PICK sum \in Int, want \in Nat, keep \in Nat, C \in SUBSET Payments :
        \/ Plan(sum, want, keep, C)
        \/ NoPlan(sum, keep, C) /\ (OwedOn(sum, keep) > 0 => OwedOn(paid, due) > 0)
  BY DEF Spends
<1>2. CASE NoPlan(sum, keep, C) /\ (OwedOn(sum, keep) > 0 => OwedOn(paid, due) > 0)
  <2>1. /\ UNCHANGED <<flag, status, amount, rzpId, made, turned, todo, heard>>
        /\ paid' = sum /\ due' = keep
    BY <1>2 DEF NoPlan
  <2>2. NeverSent' /\ TodoSendable' /\ HeardTrue' /\ IdsMade'
    BY <2>1 DEF FlagInv, NeverSent, TodoSendable, HeardTrue, IdsMade, Sendable, ByHand
  <2>3. FlagRight'
    BY <1>2, <2>1 DEF FlagInv, FlagRight, Needed, Waiting, ByHand
  <2> QED
    BY <1>0, <2>2, <2>3 DEF FlagInv
<1>3. CASE Plan(sum, want, keep, C)
  <2>1. PICK take \in [Payments -> 0..want], new \in SUBSET Rows :
          RowsFor(take, new) /\ Book(take, new, sum, want)
    BY <1>3 DEF Plan
  <2>2. /\ due' = keep /\ UNCHANGED <<rzpId, made, turned, todo, heard>>
        /\ flag' = (want > 0 \/ Needed(status, rzpId, sum, keep))
    BY <1>3 DEF Plan
  <2>3. /\ \A r \in new : status[r] = "none" /\ take[PaymentOf[r]] > 0
        /\ status' = [r \in Rows |-> IF r \in new THEN "requested" ELSE status[r]]
        /\ paid' = sum - want
    BY <2>1 DEF RowsFor, Book
  <2>4. \A r \in Rows : Sendable(r) => Sendable(r)'
    BY <2>3 DEF Sendable, ByHand
  <2>5. NeverSent' /\ IdsMade'
    <3>1. \A r \in Rows : status'[r] = "processed" => status[r] = "processed"
      BY <2>3
    <3> QED
      BY <2>2, <2>3, <2>4, <3>1 DEF FlagInv, NeverSent, IdsMade, Sendable, ByHand
  <2>6. TodoSendable' /\ HeardTrue'
    <3>1. todo \in [Senders -> SUBSET Rows] /\ heard \in [Senders -> SUBSET Answer]
      BY DEF FlagInv, TypeOK
    <3>2. \A a \in Answer : a.row \in Rows
      BY DEF Answer
    <3> QED
      BY <2>2, <2>4, <3>1, <3>2 DEF FlagInv, TodoSendable, HeardTrue
  <2>7. FlagRight'
    <3>1. CASE want > 0
      BY <2>2, <3>1 DEF FlagRight
    <3>2. CASE want = 0
      <4>1. new = {}
        BY <2>1, <2>3, <3>2, RefundsAssumption DEF RefundsAssumption
      <4>2. status' = status
        BY <2>3, <4>1 DEF FlagInv, TypeOK
      <4>3. paid' = sum
        BY <2>3, <3>2
      <4>4. Needed(status, rzpId, sum, keep) => flag'
        BY <2>2, Zenon
      <4> QED
        BY <2>2, <4>2, <4>3, <4>4 DEF FlagRight
    <3> QED
      BY <3>1, <3>2
  <2> QED
    BY <1>0, <2>5, <2>6, <2>7 DEF FlagInv
<1> QED
  BY <1>1, <1>2, <1>3

\* A report of row r as e with status st, where Razorpay made e.
LEMMA ApplyKeepsFlagInv ==
  ASSUME FlagInv, NEW r \in Rows, NEW e \in 0..MaxMade, Sendable(r),
         NEW st \in {"requested", "processed", "failed"},
         e # 0 => made[r] # << >>, e = 0 => st = "failed",
         ApplyRefund(r, e, st)
  PROVE  NeverSent' /\ IdsMade' /\ FlagRight' /\ \A x \in Rows : Sendable(x) => Sendable(x)'
<1>1. /\ status' = [status EXCEPT
            ![r] = IF @ = "requested" \/ Revives(r, e, st) THEN st ELSE @]
      /\ rzpId' = [rzpId EXCEPT ![r] = IF @ = 0 THEN e ELSE @]
      /\ made' = made
      /\ flag' = Needed(status', rzpId', paid', due) /\ due' = due
  BY DEF ApplyRefund
<1>2. status \in [Rows -> Statuses] /\ rzpId \in [Rows -> 0..MaxMade]
  BY DEF FlagInv, TypeOK
<1>3. \A x \in Rows : /\ status'[x] = status[x] \/ (x = r /\ status'[x] = st)
                      /\ rzpId'[x] = rzpId[x] \/ (x = r /\ rzpId'[x] = e)
  BY <1>1, <1>2
<1>4. \A x \in Rows : Sendable(x) <=> Sendable(x)'
  BY <1>3 DEF Sendable, ByHand
<1>5. NeverSent'
  BY <1>1, <1>3, <1>4 DEF FlagInv, NeverSent
<1>6. IdsMade'
  <2>1. ASSUME NEW x \in Rows, x # r,
               rzpId'[x] # 0 \/ (status'[x] = "processed" /\ ~ ByHand(x))
        PROVE  made'[x] # << >>
    BY <1>1, <1>3, <2>1 DEF FlagInv, IdsMade
  <2>2. ASSUME rzpId'[r] # 0 \/ (status'[r] = "processed" /\ ~ ByHand(r))
        PROVE  made'[r] # << >>
    BY <1>1, <1>3, <2>2 DEF FlagInv, IdsMade
  <2> QED
    BY <2>1, <2>2 DEF IdsMade, ByHand
<1>7. FlagRight'
  BY <1>1 DEF FlagRight, Needed, Waiting
<1> QED
  BY <1>4, <1>5, <1>6, <1>7

\* What Razorpay does with a call: refunds are only added, and a refund it
\* answers with was made.
LEMMA ReachesFacts ==
  ASSUME TypeOK, RefundsAssumption, NEW r \in Rows, NEW a, Reaches(r, a)
  PROVE  /\ \A x \in Rows : x # r => made'[x] = made[x]
         /\ \A x \in Rows : made[x] # << >> => made'[x] # << >>
         /\ a.row = r
         /\ a.what = "made" => made'[r] # << >> /\ a.id # 0
         /\ a.what # "made" => a.id = 0 /\ a.as = "failed"
<1>1. made[r] \in Seq(AtRazorpay) /\ made \in [Rows -> Seq(AtRazorpay)]
  BY DEF TypeOK
<1>2. Len(made[r]) \in Nat /\ (made[r] # << >> => Len(made[r]) # 0)
  BY <1>1, EmptySeq, LenProperties
<1>3. CASE Repeats(r, a)
  BY <1>2, <1>3 DEF Repeats, Latest, Reply
<1>4. CASE Makes(r, a)
  <2>1. PICK as \in AtRazorpay :
          /\ made' = [made EXCEPT ![r] = Append(@, as)]
          /\ a = Reply(r, "made", Len(made[r]) + 1, as)
    BY <1>4 DEF Makes
  <2>2. Append(made[r], as) # << >>
    BY <1>1, AppendIsNotEmpty
  <2>3. \A x \in Rows : made'[x] = IF x = r THEN Append(made[r], as) ELSE made[x]
    BY <1>1, <2>1
  <2>4. a.row = r /\ a.what = "made" /\ a.id # 0
    BY <1>2, <2>1 DEF Reply
  <2> QED
    BY <2>2, <2>3, <2>4
<1>5. CASE Refuses(r, a)
  BY <1>5 DEF Refuses, Reply
<1> QED
  BY <1>3, <1>4, <1>5 DEF Reaches

\* A step that leaves the books alone, and makes refunds of sendable rows only.
LEMMA BooksKeepFlagInv ==
  ASSUME FlagInv, UNCHANGED books,
         \A x \in Rows : made[x] # << >> => made'[x] # << >>,
         \A x \in Rows : ~ Sendable(x) => made'[x] = made[x]
  PROVE  NeverSent' /\ IdsMade' /\ FlagRight' /\ \A x \in Rows : Sendable(x)' <=> Sendable(x)
<1>1. UNCHANGED <<captured, due, over, paid, flag, status, amount, rzpId>>
  BY DEF books
<1>2. \A x \in Rows : Sendable(x)' <=> Sendable(x)
  BY <1>1 DEF Sendable, ByHand
<1>3. NeverSent'
  BY <1>1, <1>2 DEF FlagInv, NeverSent
<1>4. IdsMade'
  BY <1>1 DEF FlagInv, IdsMade, ByHand
<1>5. FlagRight'
  <2>1. Needed(status, rzpId, paid, due)' = Needed(status, rzpId, paid, due)
    BY <1>1 DEF Needed, Waiting, OwedOn, ByHand
  <2> QED
    BY <1>1, <2>1, Zenon DEF FlagInv, FlagRight
<1> QED
  BY <1>2, <1>3, <1>4, <1>5

\* An outcome applied to row r: an answer, or a webhook.
LEMMA OutcomeKeepsFlagInv ==
  ASSUME FlagInv, TypeOK', NEW r \in Rows, NEW e \in 0..MaxMade, Sendable(r),
         NEW st \in {"requested", "processed", "failed"},
         e # 0 => made[r] # << >>, e = 0 => st = "failed",
         ApplyRefund(r, e, st), \A s \in Senders : heard'[s] \subseteq heard[s]
  PROVE  FlagInv'
<1>1. NeverSent' /\ IdsMade' /\ FlagRight' /\ \A x \in Rows : Sendable(x) => Sendable(x)'
  BY ApplyKeepsFlagInv
<1>2. made' = made /\ todo' = todo
  BY DEF ApplyRefund
<1>3. todo \in [Senders -> SUBSET Rows] /\ heard \in [Senders -> SUBSET Answer]
  BY DEF FlagInv, TypeOK
<1>4. \A a \in Answer : a.row \in Rows
  BY DEF Answer
<1>5. TodoSendable'
  BY <1>1, <1>2, <1>3 DEF FlagInv, TodoSendable
<1>6. HeardTrue'
  BY <1>1, <1>2, <1>3, <1>4 DEF FlagInv, HeardTrue
<1> QED
  BY <1>1, <1>5, <1>6 DEF FlagInv

\* A step that leaves the books alone, of which the senders hear the truth.
LEMMA QuietKeepsFlagInv ==
  ASSUME FlagInv, TypeOK', UNCHANGED books,
         \A x \in Rows : made[x] # << >> => made'[x] # << >>,
         \A x \in Rows : ~ Sendable(x) => made'[x] = made[x],
         \A s \in Senders : \A x \in todo'[s] : Sendable(x),
         \A s \in Senders : \A a \in heard'[s] : a \in heard[s] \/
           /\ Sendable(a.row)
           /\ a.what = "made" => made'[a.row] # << >> /\ a.id # 0
           /\ a.what # "made" => a.id = 0 /\ a.as = "failed"
  PROVE  FlagInv'
<1>1. NeverSent' /\ IdsMade' /\ FlagRight' /\ \A x \in Rows : Sendable(x)' <=> Sendable(x)
  BY BooksKeepFlagInv
<1>2. /\ todo' \in [Senders -> SUBSET Rows] /\ heard' \in [Senders -> SUBSET Answer]
      /\ heard \in [Senders -> SUBSET Answer]
  BY DEF FlagInv, TypeOK
<1>3. \A a \in Answer : a.row \in Rows
  BY DEF Answer
<1>4. TodoSendable'
  BY <1>1, <1>2 DEF TodoSendable
<1>5. HeardTrue'
  BY <1>1, <1>2, <1>3 DEF FlagInv, HeardTrue
<1> QED
  BY <1>1, <1>4, <1>5 DEF FlagInv

LEMMA FlagInvStep ==
  ASSUME RefundsAssumption, FlagInv, [Next]_vars
  PROVE  FlagInv'
<1>0. /\ TypeOK' /\ TypeOK
      /\ todo \in [Senders -> SUBSET Rows] /\ heard \in [Senders -> SUBSET Answer]
      /\ \A a \in Answer : a.row \in Rows
  BY TypeStep DEF FlagInv, TypeOK, Answer
<1>t. \A s \in Senders : \A x \in todo[s] : Sendable(x)
  BY DEF FlagInv, TodoSendable
<1>1. CASE MoneyAction
  BY <1>0, <1>1, MoneySpends, SpendsKeepFlagInv
<1>4. CASE RecordByHand
  <2>1. /\ UNCHANGED <<captured, due, over, paid, amount, rzpId, made, turned, todo, heard>>
        /\ flag' = Needed(status', rzpId, paid, due)
        /\ \A x \in Rows : status'[x] = status[x]
              \/ (ByHand(x) /\ status[x] # "none" /\ status'[x] # "none")
    BY <1>0, <1>4 DEF RecordByHand, TypeOK
  <2>2. \A x \in Rows : Sendable(x)' <=> Sendable(x)
    BY <2>1 DEF Sendable, ByHand
  <2>3. NeverSent' /\ IdsMade'
    BY <2>1, <2>2 DEF FlagInv, NeverSent, IdsMade, ByHand
  <2>4. TodoSendable' /\ HeardTrue'
    BY <1>0, <2>1, <2>2 DEF FlagInv, TodoSendable, HeardTrue
  <2>5. FlagRight'
    BY <2>1 DEF FlagRight, Needed, Waiting
  <2> QED
    BY <1>0, <2>3, <2>4, <2>5 DEF FlagInv
<1>5. ASSUME NEW s \in Senders, Read(s) PROVE FlagInv'
  <2>1. \A x \in Senders : \A r \in todo'[x] : Sendable(r)
    BY <1>0, <1>t, <1>5 DEF Read, Stuck, Sendable
  <2> QED
    BY <1>0, <1>5, <2>1, QuietKeepsFlagInv DEF Read
<1>6. ASSUME NEW s \in Senders, Check(s) PROVE FlagInv'
  <2>1. PICK a \in heard[s] :
          /\ heard' = [heard EXCEPT ![s] =
               IF made[a.row] = << >> THEN {Reply(a.row, "unmade", 0, "failed")}
               ELSE {Latest(a.row)}]
          /\ UNCHANGED <<books, made, turned, todo>>
    BY <1>6 DEF Check
  <2>2. a.row \in Rows /\ Sendable(a.row)
    BY <1>0 DEF FlagInv, HeardTrue
  <2>3. made[a.row] # << >> => Len(made[a.row]) # 0
    BY <1>0, <2>2, EmptySeq DEF TypeOK
  <2>4. \A x \in Senders : \A b \in heard'[x] : b \in heard[x] \/
           /\ Sendable(b.row)
           /\ b.what = "made" => made'[b.row] # << >> /\ b.id # 0
           /\ b.what # "made" => b.id = 0 /\ b.as = "failed"
    <3>1. CASE made[a.row] = << >>
      BY <1>0, <2>1, <2>2, <3>1 DEF Reply
    <3>2. CASE made[a.row] # << >>
      BY <1>0, <2>1, <2>2, <2>3, <3>2 DEF Latest, Reply
    <3> QED
      BY <3>1, <3>2
  <2> QED
    BY <1>0, <1>t, <2>1, <2>4, QuietKeepsFlagInv
<1>7. ASSUME NEW s \in Senders, CheckLost(s) PROVE FlagInv'
  <2>1. \A x \in Senders : heard'[x] \subseteq heard[x]
    BY <1>0, <1>7 DEF CheckLost, OnTimeout
  <2> QED
    BY <1>0, <1>t, <1>7, <2>1, QuietKeepsFlagInv DEF CheckLost
<1>8. ASSUME NEW s \in Senders, Apply(s) PROVE FlagInv'
  <2>1. PICK a \in heard[s] :
          ApplyRefund(a.row, a.id, StatusOf(a.as)) /\ heard' = [heard EXCEPT ![s] = {}]
    BY <1>8 DEF Apply
  <2>2. /\ a.row \in Rows /\ a.id \in 0..MaxMade /\ Sendable(a.row)
        /\ a.id # 0 => made[a.row] # << >>
        /\ a.id = 0 => a.as = "failed"
    BY <1>0 DEF FlagInv, HeardTrue, Answer
  <2>3. /\ StatusOf(a.as) \in {"requested", "processed", "failed"}
        /\ a.id = 0 => StatusOf(a.as) = "failed"
    BY <1>0, <2>2 DEF StatusOf, AtRazorpay, Answer
  <2>4. \A x \in Senders : heard'[x] \subseteq heard[x]
    BY <1>0, <2>1
  <2> QED
    BY <1>0, <2>1, <2>2, <2>3, <2>4, OutcomeKeepsFlagInv
<1>9. ASSUME NEW s \in Senders, Crash(s) PROVE FlagInv'
  <2>1. \A x \in Senders : heard'[x] \subseteq heard[x] /\ todo'[x] \subseteq todo[x]
    BY <1>0, <1>9 DEF Crash
  <2> QED
    BY <1>0, <1>t, <1>9, <2>1, QuietKeepsFlagInv DEF Crash
<1>10. ASSUME NEW s \in Senders, NEW r \in Rows, Send(s, r) PROVE FlagInv'
  <2>1. PICK a \in Answer : Reaches(r, a) /\ heard' = [heard EXCEPT ![s] = {a}]
    BY <1>10 DEF Send
  <2>2. /\ \A x \in Rows : x # r => made'[x] = made[x]
        /\ \A x \in Rows : made[x] # << >> => made'[x] # << >>
        /\ a.row = r
        /\ a.what = "made" => made'[r] # << >> /\ a.id # 0
        /\ a.what # "made" => a.id = 0 /\ a.as = "failed"
    BY <1>0, <2>1, ReachesFacts
  <2>3. Sendable(r) /\ \A x \in Senders : todo'[x] \subseteq todo[x]
    BY <1>0, <1>t, <1>10 DEF Send
  <2>4. \A x \in Senders : \A b \in heard'[x] : b \in heard[x] \/ b = a
    BY <1>0, <2>1
  <2> QED
    BY <1>0, <1>t, <1>10, <2>2, <2>3, <2>4, QuietKeepsFlagInv DEF Send
<1>11. ASSUME NEW s \in Senders, NEW r \in Rows, SendLost(s, r) PROVE FlagInv'
  <2>1. /\ \A x \in Rows : x # r => made'[x] = made[x]
        /\ \A x \in Rows : made[x] # << >> => made'[x] # << >>
    <3>1. CASE \E a \in Answer : Reaches(r, a)
      BY <1>0, <3>1, ReachesFacts
    <3>2. CASE UNCHANGED <<made, turned>>
      BY <3>2
    <3> QED
      BY <1>11, <3>1, <3>2 DEF SendLost
  <2>2. Sendable(r) /\ \A x \in Senders : todo'[x] \subseteq todo[x]
    BY <1>0, <1>t, <1>11 DEF SendLost
  <2>3. \A x \in Senders : heard'[x] \subseteq heard[x]
    BY <1>0, <1>11 DEF SendLost, OnTimeout
  <2> QED
    BY <1>0, <1>t, <1>11, <2>1, <2>2, <2>3, QuietKeepsFlagInv DEF SendLost
<1>12. ASSUME NEW r \in Rows, NEW e \in 1..MaxMade, Settle(r, e) PROVE FlagInv'
  <2>1. /\ e \in DOMAIN made[r] /\ UNCHANGED <<books, turned, todo, heard>>
        /\ \A x \in Rows : x # r => made'[x] = made[x]
        /\ DOMAIN made'[r] = DOMAIN made[r]
    BY <1>0, <1>12 DEF Settle, TypeOK
  <2>2. made[r] # << >> /\ made'[r] # << >>
    BY <2>1
  <2>3. Sendable(r)
    BY <2>2 DEF FlagInv, NeverSent
  <2> QED
    BY <1>0, <1>t, <2>1, <2>2, <2>3, QuietKeepsFlagInv
<1>13. ASSUME NEW r \in Rows, NEW e \in 1..MaxMade, Event(r, e) PROVE FlagInv'
  <2>1. made[r] \in Seq(AtRazorpay) /\ e \in DOMAIN made[r] /\ made[r][e] # "pending"
    BY <1>0, <1>13 DEF Event, TypeOK
  <2>2. made[r][e] \in {"requested", "processed", "failed"} /\ made[r] # << >>
    BY <2>1, LenProperties DEF AtRazorpay
  <2>3. Sendable(r)
    BY <2>2 DEF FlagInv, NeverSent
  <2>4. e \in 0..MaxMade /\ e # 0
    BY DEF RefundsAssumption
  <2>5. ApplyRefund(r, e, made[r][e]) /\ \A x \in Senders : heard'[x] \subseteq heard[x]
    BY <1>13 DEF Event
  <2> QED
    BY <1>0, <2>2, <2>3, <2>4, <2>5, OutcomeKeepsFlagInv
<1>14. CASE UNCHANGED vars
  BY <1>0, <1>t, <1>14, QuietKeepsFlagInv DEF vars
<1> QED
  BY <1>1, <1>4, <1>5, <1>6, <1>7, <1>8, <1>9, <1>10, <1>11, <1>12,
     <1>13, <1>14 DEF Next, MoneyAction

\* The flag is up while the owner has something to do (FlagTells), whatever
\* Razorpay forgets, refuses or repeats.
THEOREM FlagIsTrue == Spec => []FlagTells
<1>1. Init => FlagInv
  BY FlagInvInit, RefundsAssumption
<1>2. FlagInv /\ [Next]_vars => FlagInv'
  BY FlagInvStep, RefundsAssumption
<1>3. FlagInv => FlagTells
  <2> SUFFICES ASSUME FlagInv PROVE FlagTells
    OBVIOUS
  <2>1. paid \in Int /\ due \in Nat
    BY DEF FlagInv, TypeOK
  <2>2. OwedOn(paid, due) > 0 <=> paid > due
    BY <2>1 DEF OwedOn
  <2>3. Waiting(status, rzpId) \/ paid > due => flag
    BY <2>2 DEF FlagInv, FlagRight, Needed
  <2>4. ASSUME ~ flag, NEW r \in Rows, Counted(r), ~ ByHand(r) PROVE made[r] # << >>
    BY <2>3, <2>4 DEF FlagInv, IdsMade, Waiting, Counted
  <2> QED
    BY <2>3, <2>4 DEF FlagTells, Waiting
<1> QED
  BY <1>1, <1>2, <1>3, PTL DEF Spec

-----------------------------------------------------------------------------
(* The money.                                                               *)

Counts == {"requested", "processed"}

\* What rows of status st and amount am take of payment p.
GivenIn(st, am, p) == Sum(am, {r \in Rows : PaymentOf[r] = p /\ st[r] \in Counts})

\* Each row's share of it, and what is taken of each payment.
Share(st, am, r) == IF st[r] \in Counts THEN am[r] ELSE 0
Shares(st, am, p) == [r \in Rows |-> IF PaymentOf[r] = p THEN Share(st, am, r) ELSE 0]
Gifts(st, am) == [p \in Payments |-> GivenIn(st, am, p)]

LEMMA GivenIsSum ==
  ASSUME NEW st, NEW am \in [Rows -> Nat], NEW p
  PROVE  /\ GivenIn(st, am, p) = Sum(Shares(st, am, p), Rows)
         /\ \A r \in Rows : Shares(st, am, p)[r] \in Nat
         /\ GivenIn(st, am, p) \in Nat
<1> DEFINE S == {r \in Rows : PaymentOf[r] = p /\ st[r] \in Counts}
           G == Shares(st, am, p)
<1>1. /\ IsFiniteSet(Rows) /\ S \in SUBSET Rows
      /\ \A r \in Rows : G[r] \in Nat
      /\ \A r \in S : am[r] \in Int /\ am[r] = G[r]
      /\ \A r \in Rows \ S : G[r] = 0
  BY RefundsAssumption DEF RefundsAssumption, Shares, Share
<1>2. GivenIn(st, am, p) = Sum(am, S)
  BY DEF GivenIn
<1> HIDE DEF S, G
<1>3. Sum(am, S) = Sum(G, Rows) /\ Sum(G, Rows) \in Nat
  BY <1>1, SumWithin, SumNat
<1> QED
  BY <1>1, <1>2, <1>3 DEF G

LEMMA GiftsAre ==
  ASSUME NEW st, NEW am
  PROVE  MapThenSumSet(LAMBDA p : GivenIn(st, am, p), Payments) = Sum(Gifts(st, am), Payments)
<1> DEFINE F == Gifts(st, am)
           h == CHOOSE it : it = [s \in SUBSET Payments |->
                  IF s = {} THEN 0 ELSE GivenIn(st, am, Pick(s)) + it[s \ {Pick(s)}]]
<1>1. MapThenSumSet(LAMBDA p : GivenIn(st, am, p), Payments) = h[Payments]
  BY DEF MapThenSumSet, MapThenFoldSet, Pick
<1>2. IsFiniteSet(Payments) /\ \A p \in Payments : F[p] = GivenIn(st, am, p)
  BY RefundsAssumption DEF RefundsAssumption, Gifts
<1> HIDE DEF F
<1>3. PICK g : IsSums(g, F, Payments)
  BY <1>2, SumsExist
<1>4. g = [s \in SUBSET Payments |->
             IF s = {} THEN 0 ELSE GivenIn(st, am, Pick(s)) + g[s \ {Pick(s)}]]
  BY <1>2, <1>3, PickIn DEF IsSums
<1>5. h = [s \in SUBSET Payments |->
             IF s = {} THEN 0 ELSE GivenIn(st, am, Pick(s)) + h[s \ {Pick(s)}]]
  BY <1>4
<1> HIDE DEF h
<1>6. IsSums(h, F, Payments)
  BY <1>2, <1>5, PickIn DEF IsSums
<1>7. Sum(F, Payments) = h[Payments]
  BY <1>2, <1>6, SumsAre
<1> QED
  BY <1>1, <1>7 DEF F

LEMMA GiftsNat ==
  ASSUME NEW st, NEW am \in [Rows -> Nat]
  PROVE  /\ \A p \in Payments : Gifts(st, am)[p] \in Nat
         /\ Sum(Gifts(st, am), Payments) \in Nat
<1> DEFINE F == Gifts(st, am)
<1>1. IsFiniteSet(Payments) /\ \A p \in Payments : F[p] \in Nat
  BY GivenIsSum, RefundsAssumption DEF Gifts, RefundsAssumption
<1> HIDE DEF F
<1>2. Sum(F, Payments) \in Nat
  BY <1>1, SumNat
<1> QED
  BY <1>1, <1>2 DEF F

\* MoneyAdds in these terms, before and after a step.
LEMMA AddsNow ==
  MoneyAdds <=> paid + Sum(Gifts(status, amount), Payments) = Sum(Amount, captured)
<1>1. SumOver(Given, Payments) = Sum(Gifts(status, amount), Payments)
  <2>1. SumOver(Given, Payments) =
          MapThenSumSet(LAMBDA p : GivenIn(status, amount, p), Payments)
    BY DEF SumOver, Given, GivenIn, Counted, Counts, Sum
  <2> QED
    BY <2>1, GiftsAre
<1>2. CapturedMoney = Sum(Amount, captured)
  BY DEF CapturedMoney, SumOver, Sum
<1> QED
  BY <1>1, <1>2 DEF MoneyAdds

LEMMA AddsNext ==
  MoneyAdds' <=> paid' + Sum(Gifts(status', amount'), Payments) = Sum(Amount, captured')
<1>1. SumOver(Given, Payments)' = Sum(Gifts(status', amount'), Payments)
  <2>1. SumOver(Given, Payments)' =
          MapThenSumSet(LAMBDA p : GivenIn(status', amount', p), Payments)
    BY DEF SumOver, Given, GivenIn, Counted, Counts, Sum, MapThenSumSet, MapThenFoldSet
  <2> QED
    BY <2>1, GiftsAre
<1>2. CapturedMoney' = Sum(Amount, captured')
  BY DEF CapturedMoney, SumOver, Sum, MapThenSumSet, MapThenFoldSet
<1> QED
  BY <1>1, <1>2 DEF MoneyAdds

\* Planned rows take what was split.
LEMMA PlanGives ==
  ASSUME TypeOK, TypeOK', NEW take \in [Payments -> Nat], NEW new \in SUBSET Rows,
         RowsFor(take, new), NEW sum, NEW want, Book(take, new, sum, want), NEW p \in Payments
  PROVE  GivenIn(status', amount', p) = GivenIn(status, amount, p) + take[p]
<1> DEFINE F == Shares(status, amount, p)
           G == Shares(status', amount', p)
<1>1. /\ GivenIn(status, amount, p) = Sum(F, Rows) /\ GivenIn(status', amount', p) = Sum(G, Rows)
      /\ \A r \in Rows : F[r] \in Nat /\ G[r] \in Nat
      /\ IsFiniteSet(Rows) /\ GivenIn(status, amount, p) \in Nat
  BY GivenIsSum, RefundsAssumption DEF TypeOK, RefundsAssumption
<1>2. /\ \A r \in Rows \ new : status'[r] = status[r] /\ amount'[r] = amount[r]
      /\ \A r \in new : /\ status[r] = "none" /\ status'[r] = "requested"
                        /\ amount'[r] = take[PaymentOf[r]] /\ take[PaymentOf[r]] > 0
  BY DEF Book, RowsFor
<1>3. /\ \A r \in Rows \ new : F[r] = G[r]
      /\ \A r \in new : F[r] = 0 /\ G[r] = IF PaymentOf[r] = p THEN take[p] ELSE 0
  BY <1>2 DEF Shares, Share, Counts
<1>4. CASE take[p] = 0
  <2>1. \A r \in Rows : F[r] = G[r]
    BY <1>2, <1>3, <1>4
  <2> HIDE DEF F, G
  <2>2. Sum(F, Rows) = Sum(G, Rows)
    <3>1. \A r \in Rows : F[r] \in Int /\ F[r] = G[r]
      BY <1>1, <2>1
    <3> QED
      BY <1>1, <3>1, SumSame
  <2> QED
    BY <1>1, <1>4, <2>2
<1>5. CASE take[p] > 0
  <2>1. PICK r \in new : \A s \in new : PaymentOf[s] = p <=> s = r
    BY <1>5 DEF RowsFor
  <2>2. F[r] = 0 /\ G[r] = take[p] /\ \A x \in Rows \ {r} : F[x] = G[x]
    BY <1>3, <2>1
  <2> HIDE DEF F, G
  <2>3. Sum(G, Rows) = Sum(F, Rows) - F[r] + G[r]
    <3>1. \A x \in Rows : F[x] \in Int /\ G[x] \in Int
      BY <1>1
    <3> QED
      BY <1>1, <2>2, <3>1, SumMoves
  <2> QED
    BY <1>1, <2>2, <2>3
<1> QED
  BY <1>4, <1>5

\* A refund planned of what the booking is left with is taken off it.
LEMMA PlanAdds ==
  ASSUME TypeOK, TypeOK', NEW sum \in Int, NEW want \in Nat, NEW keep,
         NEW C \in SUBSET Payments, Plan(sum, want, keep, C),
         sum + Sum(Gifts(status, amount), Payments) = Sum(Amount, C)
  PROVE  MoneyAdds'
<1>1. PICK take \in [Payments -> 0..want], new \in SUBSET Rows :
        Split(take, want, C) /\ RowsFor(take, new) /\ Book(take, new, sum, want)
  BY DEF Plan
<1>2. take \in [Payments -> Nat]
  BY <1>1
<1>3. paid' = sum - want /\ captured' = C
  BY <1>1 DEF Plan, Book
<1>4. Sum(take, Payments) = want /\ IsFiniteSet(Payments)
  BY <1>1, RefundsAssumption DEF Split, SumOver, Sum, RefundsAssumption
<1> DEFINE F == Gifts(status, amount)
           G == Gifts(status', amount')
<1>5. \A p \in Payments : F[p] \in Int /\ take[p] \in Int /\ G[p] = F[p] + take[p]
  <2> SUFFICES ASSUME NEW p \in Payments
               PROVE  F[p] \in Int /\ take[p] \in Int /\ G[p] = F[p] + take[p]
    OBVIOUS
  <2>1. GivenIn(status', amount', p) = GivenIn(status, amount, p) + take[p]
    BY <1>1, <1>2, PlanGives
  <2>2. GivenIn(status, amount, p) \in Nat
    BY GivenIsSum DEF TypeOK
  <2> QED
    BY <1>2, <2>1, <2>2 DEF Gifts
<1>6. Sum(F, Payments) \in Int
  <2> HIDE DEF F, G
  <2> QED
    BY <1>4, <1>5, SumInt
<1>7. Sum(G, Payments) = Sum(F, Payments) + Sum(take, Payments)
  <2> HIDE DEF F, G
  <2> QED
    BY <1>4, <1>5, SumPairs
<1> HIDE DEF F, G
<1>8. paid' + Sum(G, Payments) = Sum(Amount, captured')
  BY <1>2, <1>3, <1>4, <1>6, <1>7 DEF F
<1> QED
  BY <1>8, AddsNext DEF G

\* What all the payments give back is what all the rows take.
RowShares(st, am) == [r \in Rows |-> Share(st, am, r)]

LEMMA GiftsAreShares ==
  ASSUME NEW st, NEW am \in [Rows -> Nat]
  PROVE  Sum(Gifts(st, am), Payments) = Sum(RowShares(st, am), Rows)
<1> DEFINE F == RowShares(st, am)
           K == [p \in Payments |-> Sum(F, {r \in Rows : PaymentOf[r] = p})]
<1>1. /\ IsFiniteSet(Rows) /\ IsFiniteSet(Payments)
      /\ \A r \in Rows : F[r] \in Int /\ PaymentOf[r] \in Payments
  BY RefundsAssumption DEF RefundsAssumption, RowShares, Share
<1>2. Gifts(st, am) = K
  <2> SUFFICES ASSUME NEW p \in Payments
               PROVE  GivenIn(st, am, p) = Sum(F, {r \in Rows : PaymentOf[r] = p})
    BY DEF Gifts
  <2> DEFINE S == {r \in Rows : PaymentOf[r] = p}
             G == Shares(st, am, p)
  <2>1. /\ S \in SUBSET Rows /\ \A r \in S : F[r] \in Int /\ F[r] = G[r]
        /\ \A r \in Rows \ S : G[r] = 0
    BY <1>1 DEF RowShares, Shares
  <2> HIDE DEF S, F, G
  <2>2. Sum(F, S) = Sum(G, Rows)
    BY <1>1, <2>1, SumWithin
  <2> QED
    BY <2>2, GivenIsSum DEF S, G
<1> HIDE DEF F
<1>3. Sum(K, Payments) = Sum(F, Rows)
  BY <1>1, SumGroups
<1> HIDE DEF K
<1> QED
  BY <1>2, <1>3 DEF F

\* A row that moves on changes what is given back.
LEMMA RowGives ==
  ASSUME NEW am \in [Rows -> Nat], NEW st, NEW to, NEW r \in Rows,
         \A x \in Rows \ {r} : to[x] = st[x]
  PROVE  /\ Sum(Gifts(to, am), Payments) =
              Sum(Gifts(st, am), Payments) - Share(st, am, r) + Share(to, am, r)
         /\ Sum(Gifts(st, am), Payments) \in Int
<1> DEFINE F == RowShares(st, am)
           G == RowShares(to, am)
<1>1. IsFiniteSet(Rows)
  BY RefundsAssumption DEF RefundsAssumption
<1>2. /\ \A x \in Rows : F[x] \in Int /\ G[x] \in Int
      /\ \A x \in Rows \ {r} : F[x] = G[x]
      /\ F[r] = Share(st, am, r) /\ G[r] = Share(to, am, r)
  BY DEF RowShares, Share
<1> HIDE DEF F, G
<1>3. Sum(G, Rows) = Sum(F, Rows) - F[r] + G[r]
  BY <1>1, <1>2, SumMoves
<1> QED
  BY <1>2, <1>3, GiftsAreShares, GiftsNat DEF F, G

\* An outcome puts back what its row took, or takes it again.
LEMMA ApplyAdds ==
  ASSUME TypeOK, TypeOK', MoneyAdds, NEW r \in Rows, NEW e,
         NEW st \in {"requested", "processed", "failed"}, ApplyRefund(r, e, st)
  PROVE  MoneyAdds'
<1>1. /\ status' = [status EXCEPT
            ![r] = IF @ = "requested" \/ Revives(r, e, st) THEN st ELSE @]
      /\ paid' = PaidAfter(r, e, st) /\ captured' = captured /\ amount' = amount
  BY DEF ApplyRefund
<1>2. /\ status \in [Rows -> Statuses] /\ status' \in [Rows -> Statuses]
      /\ amount \in [Rows -> Nat] /\ paid \in Int
  BY DEF TypeOK
<1>3. \A x \in Rows \ {r} : status'[x] = status[x]
  BY <1>1, <1>2
<1>4. /\ Sum(Gifts(status', amount), Payments) =
           Sum(Gifts(status, amount), Payments) - Share(status, amount, r)
             + Share(status', amount, r)
      /\ Sum(Gifts(status, amount), Payments) \in Int
  BY <1>2, <1>3, RowGives
<1>5. paid' = paid + Share(status, amount, r) - Share(status', amount, r)
  <2>1. status'[r] = IF status[r] = "requested" \/ Revives(r, e, st) THEN st ELSE status[r]
    BY <1>1, <1>2
  <2>2. amount[r] \in Nat /\ status[r] \in Statuses
    BY <1>2
  <2> QED
    BY <1>1, <1>2, <2>1, <2>2 DEF PaidAfter, Revives, Share, Counts, Statuses
<1>6. Share(status, amount, r) \in Nat /\ Share(status', amount, r) \in Nat
  BY <1>2 DEF Share
<1>7. paid + Sum(Gifts(status, amount), Payments) = Sum(Amount, captured)
  BY AddsNow
<1>8. paid' + Sum(Gifts(status', amount), Payments) = Sum(Amount, captured)
  BY <1>2, <1>4, <1>5, <1>6, <1>7
<1> QED
  BY <1>1, <1>8, AddsNext

\* A step that leaves the books alone.
LEMMA BooksStayAdds ==
  ASSUME MoneyAdds, UNCHANGED books
  PROVE  MoneyAdds'
BY AddsNow, AddsNext DEF books

\* Money that lands, or none, and what is planned of it.
LEMMA SpendsAdds ==
  ASSUME TypeOK, TypeOK', MoneyAdds, Spends
  PROVE  MoneyAdds'
<1> DEFINE F == Gifts(status, amount)
<1>1. PICK sum \in Int, want \in Nat, keep \in Nat, C \in SUBSET Payments :
        Lands(sum, C) /\ (Plan(sum, want, keep, C) \/ NoPlan(sum, keep, C))
  BY DEF Spends
<1>2. /\ paid \in Int /\ captured \subseteq Payments /\ Sum(F, Payments) \in Nat
      /\ paid + Sum(F, Payments) = Sum(Amount, captured)
  BY AddsNow, GiftsNat DEF TypeOK
<1>3. sum + Sum(F, Payments) = Sum(Amount, C)
  <2>1. CASE sum = paid /\ C = captured
    BY <1>2, <2>1
  <2>2. ASSUME NEW p \in Payments \ captured,
               sum = paid + Amount[p], C = captured \union {p}
        PROVE  sum + Sum(F, Payments) = Sum(Amount, C)
    <3>1. /\ IsFiniteSet(captured) /\ Amount[p] \in Nat
          /\ \A x \in captured \union {p} : Amount[x] \in Int
      BY <1>2, RefundsAssumption, FS_Subset DEF RefundsAssumption
    <3>2. Sum(Amount, captured \union {p}) = Sum(Amount, captured) + Amount[p]
      BY <3>1, SumAdds
    <3> HIDE DEF F
    <3> QED
      BY <1>2, <2>2, <3>1, <3>2
  <2> QED
    BY <1>1, <2>1, <2>2 DEF Lands
<1>4. CASE Plan(sum, want, keep, C)
  BY <1>3, <1>4, PlanAdds
<1>5. CASE NoPlan(sum, keep, C)
  <2>1. paid' = sum /\ captured' = C /\ status' = status /\ amount' = amount
    BY <1>5 DEF NoPlan
  <2> QED
    BY <1>3, <2>1, AddsNext
<1> QED
  BY <1>1, <1>4, <1>5

LEMMA AddsStep ==
  ASSUME TypeOK, MoneyAdds, [Next]_vars
  PROVE  MoneyAdds'
<1>0. TypeOK'
  BY TypeStep, RefundsAssumption
<1>a. paid + Sum(Gifts(status, amount), Payments) = Sum(Amount, captured)
  BY AddsNow
<1>1. CASE MoneyAction
  BY <1>0, <1>1, MoneySpends, SpendsAdds, RefundsAssumption
<1>4. CASE RecordByHand
  <2>1. /\ UNCHANGED <<captured, paid, amount>>
        /\ \A r \in Rows : status[r] \in Counts <=> status'[r] \in Counts
    BY <1>4 DEF RecordByHand, TypeOK, Counts
  <2>2. Gifts(status', amount') = Gifts(status, amount)
    BY <2>1 DEF Gifts, GivenIn
  <2> QED
    BY <1>a, <2>1, <2>2, AddsNext
<1>5. ASSUME NEW s \in Senders, Apply(s) PROVE MoneyAdds'
  <2>1. PICK a \in heard[s] : ApplyRefund(a.row, a.id, StatusOf(a.as))
    BY <1>5 DEF Apply
  <2>2. a.row \in Rows /\ a.as \in AtRazorpay
    BY DEF TypeOK, Answer
  <2>3. StatusOf(a.as) \in {"requested", "processed", "failed"}
    BY <2>2 DEF StatusOf, AtRazorpay
  <2> QED
    BY <1>0, <2>1, <2>2, <2>3, ApplyAdds
<1>6. ASSUME NEW r \in Rows, NEW e \in 1..MaxMade, Event(r, e) PROVE MoneyAdds'
  <2>1. made[r] \in Seq(AtRazorpay) /\ e \in DOMAIN made[r] /\ made[r][e] # "pending"
    BY <1>6 DEF Event, TypeOK
  <2>2. made[r][e] \in {"requested", "processed", "failed"}
    BY <2>1, LenProperties DEF AtRazorpay
  <2> QED
    BY <1>0, <1>6, <2>2, ApplyAdds DEF Event
<1>7. CASE \/ \E s \in Senders : Read(s) \/ Check(s) \/ CheckLost(s) \/ Crash(s)
           \/ \E s \in Senders, r \in Rows : Send(s, r) \/ SendLost(s, r)
           \/ \E r \in Rows, e \in 1..MaxMade : Settle(r, e)
           \/ UNCHANGED vars
  BY <1>7, BooksStayAdds DEF Read, Check, CheckLost, Crash, Send, SendLost, Settle, vars
<1> QED
  BY <1>1, <1>4, <1>5, <1>6, <1>7 DEF Next, MoneyAction

LEMMA AddsInit == ASSUME Init PROVE MoneyAdds
<1> DEFINE F == Gifts(status, amount)
<1>1. paid = 0 /\ captured = {} /\ TypeOK
  BY TypeInit, RefundsAssumption DEF Init
<1>2. IsFiniteSet(Payments) /\ \A p \in Payments : F[p] = 0
  <2>1. \A r \in Rows : status[r] \notin Counts
    BY DEF Init, Counts
  <2>2. \A p \in Payments : {r \in Rows : PaymentOf[r] = p /\ status[r] \in Counts} = {}
    BY <2>1
  <2> QED
    BY <2>2, SumEmpty, RefundsAssumption DEF Gifts, GivenIn, RefundsAssumption
<1> HIDE DEF F
<1>3. Sum(F, Payments) = 0 /\ Sum(Amount, {}) = 0
  BY <1>2, SumNothing, SumEmpty
<1> QED
  BY <1>1, <1>3, AddsNow DEF F

\* What a booking holds and what its refunds took off it make up what it
\* captured (MoneyAdds), whatever is reported twice, late, lost or taken back.
THEOREM MoneyConserved == Spec => []MoneyAdds
<1>1. Init => TypeOK /\ MoneyAdds
  BY TypeInit, AddsInit, RefundsAssumption
<1>2. TypeOK /\ MoneyAdds /\ [Next]_vars => TypeOK' /\ MoneyAdds'
  BY TypeStep, AddsStep, RefundsAssumption
<1> QED
  BY <1>1, <1>2, PTL DEF Spec

\* The room left on the payments is a sum.
Rooms == [p \in Payments |-> Room(captured, p)]

LEMMA RoomsAre == SumOver(LAMBDA p : Room(captured, p), Payments) = Sum(Rooms, Payments)
<1> DEFINE F == Rooms
           h == CHOOSE it : it = [s \in SUBSET Payments |->
                  IF s = {} THEN 0 ELSE Room(captured, Pick(s)) + it[s \ {Pick(s)}]]
<1>1. SumOver(LAMBDA p : Room(captured, p), Payments) = h[Payments]
  BY DEF SumOver, MapThenSumSet, MapThenFoldSet, Pick
<1>2. IsFiniteSet(Payments) /\ \A p \in Payments : F[p] = Room(captured, p)
  BY RefundsAssumption DEF RefundsAssumption, Rooms
<1> HIDE DEF F
<1>3. PICK g : IsSums(g, F, Payments)
  BY <1>2, SumsExist
<1>4. g = [s \in SUBSET Payments |->
             IF s = {} THEN 0 ELSE Room(captured, Pick(s)) + g[s \ {Pick(s)}]]
  BY <1>2, <1>3, PickIn DEF IsSums
<1>5. h = [s \in SUBSET Payments |->
             IF s = {} THEN 0 ELSE Room(captured, Pick(s)) + h[s \ {Pick(s)}]]
  BY <1>4
<1> HIDE DEF h
<1>6. IsSums(h, F, Payments)
  BY <1>2, <1>5, PickIn DEF IsSums
<1>7. Sum(F, Payments) = h[Payments]
  BY <1>2, <1>6, SumsAre
<1> QED
  BY <1>1, <1>7 DEF F

\* A captured payment's amount is no more than its room and what was given
\* back of it: what is not captured has no room and may only take away.
LEMMA MoneyFits ==
  ASSUME TypeOK, MoneyAdds
  PROVE  PaymentsHoldIt
<1> DEFINE A == [p \in Payments |-> IF p \in captured THEN Amount[p] ELSE 0]
           G == Gifts(status, amount)
           H == [p \in Payments |-> Room(captured, p) + Given(p)]
<1>1. /\ IsFiniteSet(Payments) /\ captured \in SUBSET Payments
      /\ Amount \in [Payments -> Nat]
  BY RefundsAssumption DEF RefundsAssumption, TypeOK
<1>2. \A p \in Payments : G[p] = Given(p) /\ Given(p) \in Nat
  <2>1. \A p \in Payments : Given(p) = GivenIn(status, amount, p)
    BY DEF Given, GivenIn, SumOver, Sum, Counted, Counts
  <2> QED
    BY <2>1, GivenIsSum DEF Gifts, TypeOK
<1>3. \A p \in Payments : Room(captured, p) \in Nat /\ A[p] \in Nat /\ A[p] <= H[p]
                          /\ H[p] = Rooms[p] + G[p] /\ Rooms[p] \in Nat
  BY <1>1, <1>2 DEF Room, Rooms
<1>4. Sum(Amount, captured) = Sum(A, Payments)
  <2>1. /\ \A p \in captured : Amount[p] \in Int /\ Amount[p] = A[p]
        /\ \A p \in Payments \ captured : A[p] = 0
    BY <1>1
  <2> HIDE DEF A
  <2> QED
    BY <1>1, <2>1, SumWithin
<1> HIDE DEF A, G, H
<1>5. Sum(A, Payments) <= Sum(H, Payments)
  <2>1. \A p \in Payments : A[p] \in Int /\ H[p] \in Int /\ A[p] <= H[p]
    BY <1>2, <1>3
  <2> QED
    BY <1>1, <2>1, SumGrows
<1>6. Sum(H, Payments) = Sum(Rooms, Payments) + Sum(G, Payments)
  <2>1. \A p \in Payments : Rooms[p] \in Int /\ G[p] \in Int /\ H[p] = Rooms[p] + G[p]
    BY <1>2, <1>3
  <2> QED
    BY <1>1, <2>1, SumPairs
<1>7. /\ Sum(Rooms, Payments) \in Nat /\ Sum(G, Payments) \in Nat /\ paid \in Int
      /\ Sum(A, Payments) \in Nat
  BY <1>1, <1>2, <1>3, SumNat DEF TypeOK
<1>8. paid + Sum(G, Payments) = Sum(A, Payments)
  BY <1>4, AddsNow DEF G
<1>9. paid <= Sum(Rooms, Payments)
  BY <1>5, <1>6, <1>7, <1>8
<1> QED
  BY <1>9, RoomsAre DEF PaymentsHoldIt

\* The payments always hold what the booking holds (PaymentsHoldIt): a refund
\* that is decided can be planned.
THEOREM MoneyIsThere == Spec => []PaymentsHoldIt
<1>1. Init => TypeOK /\ MoneyAdds
  BY TypeInit, AddsInit, RefundsAssumption
<1>2. TypeOK /\ MoneyAdds /\ [Next]_vars => TypeOK' /\ MoneyAdds'
  BY TypeStep, AddsStep, RefundsAssumption
<1>3. TypeOK /\ MoneyAdds => PaymentsHoldIt
  BY MoneyFits
<1> QED
  BY <1>1, <1>2, <1>3, PTL DEF Spec

=============================================================================
