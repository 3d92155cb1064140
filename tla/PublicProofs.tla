------------------------- MODULE PublicProofs -------------------------
(***************************************************************************)
(* Proofs about what anyone may call: the payment page (PaymentLinks), for *)
(* any number of intents and deposits, any amounts and any transfers, and  *)
(* the logins behind their limits (Throttle), for any processes, keys and  *)
(* times.                                                                  *)
(***************************************************************************)
EXTENDS PaymentLinks, Throttle, FiniteSetTheorems, TLAPS

\* A fresh link has no intents and no deposits.
LEMMA InitIInv == Init => IInv
<1> SUFFICES ASSUME Init PROVE IInv
  BY Zenon
<1>1. NoMatch \in Tasks
  BY Zenon DEF NoMatch, Tasks
<1>2. TypeOK
  <2>1. events \in [Intents -> Seq(Events)]
    BY DEF Init
  <2>2. status \in [Intents -> Statuses]
    BY Zenon DEF Init, Statuses
  <2>3. match \in [Deposits -> Tasks]
    BY Zenon, <1>1 DEF Init
  <2> QED BY Zenon, <2>1, <2>2, <2>3 DEF Init, TypeOK
<1>3. OneVerdict /\ SettledByItsDeposit
  BY Zenon DEF Init, OneVerdict, SettledByItsDeposit, Settled, Closed
<1>4. DepositSettlesOne
  BY Zenon DEF Init, DepositSettlesOne
<1>5. \A d \in Deposits : TaskOK(d, match[d])
  BY Zenon, PaymentLinksAssumption DEF Init, TaskOK, NoMatch
<1> QED BY Zenon, <1>2, <1>3, <1>4, <1>5 DEF IInv

\* A task's step leaves the other tasks alone.
LEMMA Became ==
    ASSUME TypeOK, NEW d \in Deposits, NEW x \in Tasks, Become(d, x)
    PROVE  /\ match' \in [Deposits -> Tasks] /\ match'[d] = x
           /\ \A e \in Deposits : e # d => match'[e] = match[e]
BY Zenon DEF TypeOK, Become

\* A step of one task that writes nothing to the tables keeps the invariant if its
\* new state is in order.
LEMMA QuietTask ==
    ASSUME IInv, NEW d \in Deposits, match[d].pc # "done", NEW x \in Tasks, Become(d, x),
           UNCHANGED <<link, intent>>, TaskOK(d, x)
    PROVE  IInv'
<1>0. TypeOK /\ OneVerdict /\ SettledByItsDeposit /\ DepositSettlesOne /\ TaskOK(d, match[d])
  BY Zenon DEF IInv
<1>1. /\ match' \in [Deposits -> Tasks] /\ match'[d] = x
      /\ \A e \in Deposits : e # d => match'[e] = match[e]
  BY Zenon, <1>0, Became
<1>2. TypeOK'
  BY Zenon, <1>0, <1>1 DEF TypeOK, link, intent
<1>3. OneVerdict' /\ DepositSettlesOne'
  BY Zenon, <1>0 DEF OneVerdict, DepositSettlesOne, intent
<1>4. SettledByItsDeposit'
  <2>1. \A i \in Intents : paidBy[i] # d
    BY Zenon, <1>0 DEF TaskOK
  <2>2. \A i \in Intents : paidBy[i] \in Deposits => match'[paidBy[i]] = match[paidBy[i]]
    BY Zenon, <1>1, <2>1
  <2> QED BY Zenon, <1>0, <2>2 DEF SettledByItsDeposit, intent
<1>5. \A e \in Deposits : TaskOK(e, match[e])'
  <2> SUFFICES ASSUME NEW e \in Deposits PROVE TaskOK(e, match[e])'
    BY Zenon
  <2>1. PICK y \in Tasks : y = match'[e]
    BY Zenon, <1>1
  <2>2. TaskOK(e, y)
    BY Zenon, <1>1, <2>1 DEF IInv
  <2>3. TaskOK(e, y)'
    BY Zenon, <2>2 DEF TaskOK, link, intent
  <2> QED BY Zenon, <2>1, <2>3
<1> QED BY Zenon, <1>2, <1>3, <1>4, <1>5 DEF IInv

\* The verdict of a cancellation or of the sweep on the pending intents of S.
LEMMA FlipOK ==
    ASSUME IInv, NEW S \in SUBSET Pending, NEW s \in Closed, Flip(S, s, s),
           UNCHANGED <<past, amount, price, made, paidBy, match>>,
           active' \in BOOLEAN, cancelled' \in BOOLEAN, cancelled => cancelled'
    PROVE  IInv'
<1>0. /\ TypeOK /\ OneVerdict /\ SettledByItsDeposit /\ DepositSettlesOne
      /\ \A d \in Deposits : TaskOK(d, match[d])
  BY Zenon DEF IInv
<1>1. /\ \A i \in S : /\ i \in Intents /\ status[i] = "pending"
                      /\ status'[i] = s /\ events'[i] = Append(events[i], s)
      /\ \A i \in Intents \ S : status'[i] = status[i] /\ events'[i] = events[i]
  BY Zenon DEF Flip, Pending
<1>2. TypeOK'
  <2>1. s \in Statuses /\ s \in Events
    BY Zenon DEF Closed, Statuses, Events
  <2>2. status' \in [Intents -> Statuses]
    BY Zenon, <1>0, <2>1 DEF Flip, TypeOK
  <2>3. events' \in [Intents -> Seq(Events)]
    BY <1>0, <2>1 DEF Flip, TypeOK
  <2>4. old' \in SUBSET Intents
    BY Zenon, <1>0 DEF Flip, TypeOK
  <2> QED BY Zenon, <1>0, <2>2, <2>3, <2>4 DEF TypeOK
<1>3. OneVerdict'
  <2> SUFFICES ASSUME NEW i \in Intents
               PROVE  events'[i] = IF status'[i] \in Settled \cup Closed
                                   THEN <<Announces(status'[i])>> ELSE << >>
    BY Zenon DEF OneVerdict, Announces, EventOf
  <2>1. CASE i \in S
    <3>1. events[i] = << >>
      BY Zenon, <1>0, <1>1, <2>1 DEF OneVerdict, Settled, Closed
    <3>2. Announces(s) = s
      BY Zenon DEF Announces, Closed, Settled
    <3> QED BY <1>1, <2>1, <3>1, <3>2
  <2>2. CASE i \notin S
    BY Zenon, <1>0, <1>1, <2>2 DEF OneVerdict
  <2> QED BY Zenon, <2>1, <2>2
<1>4. SettledByItsDeposit'
  <2>1. \A i \in Intents : status'[i] \in Settled => status[i] = status'[i]
    BY Zenon, <1>1 DEF Closed, Settled
  <2> QED BY <1>0, <2>1 DEF SettledByItsDeposit
<1>5. DepositSettlesOne' /\ \A d \in Deposits : TaskOK(d, match[d])'
  BY Zenon, <1>0 DEF DepositSettlesOne, TaskOK
<1> QED BY Zenon, <1>2, <1>3, <1>4, <1>5 DEF IInv

\* The owner's routes, the sweep and the passing of time.
LEMMA OwnerIInv ==
    ASSUME IInv,
           \/ \E b \in BOOLEAN : set_payment_link_active(b)
           \/ cancel_payment_link
           \/ \E a \in Amounts \cup {Flexible} : update_payment_link(a)
           \/ expire_stale_payment_link_payments
           \/ Deadline
           \/ \E i \in Intents : GrowOld(i)
    PROVE  IInv'
<1>0. /\ TypeOK /\ OneVerdict /\ SettledByItsDeposit /\ DepositSettlesOne
      /\ \A d \in Deposits : TaskOK(d, match[d])
  BY Zenon DEF IInv
<1>1. CASE cancel_payment_link
  <2>1. Flip(Pending, "cancelled", "cancelled") /\ "cancelled" \in Closed
    BY Zenon, <1>1 DEF cancel_payment_link, Closed
  <2>2. /\ UNCHANGED <<past, amount, price, made, paidBy, match>>
        /\ active' = FALSE /\ cancelled' = TRUE
    BY Zenon, <1>1 DEF cancel_payment_link
  <2> QED BY Zenon, <2>1, <2>2, FlipOK
<1>2. CASE expire_stale_payment_link_payments
  <2> DEFINE S == {i \in Pending : i \in old \/ past}
  <2>1. S \in SUBSET Pending /\ Flip(S, "expired", "expired") /\ "expired" \in Closed
    BY Zenon, <1>2 DEF expire_stale_payment_link_payments, Closed
  <2>2. UNCHANGED <<past, amount, price, made, paidBy, match>>
    BY Zenon, <1>2 DEF expire_stale_payment_link_payments, link
  <2>3. active' \in BOOLEAN /\ cancelled' \in BOOLEAN /\ (cancelled => cancelled')
    BY Zenon, <1>0, <1>2 DEF expire_stale_payment_link_payments, link, TypeOK
  <2> HIDE DEF S
  <2> QED BY Zenon, <2>1, <2>2, <2>3, FlipOK
<1>3. ASSUME TypeOK', UNCHANGED <<status, price, made, paidBy, events, match, cancelled>>
      PROVE  IInv'
  BY Zenon, <1>0, <1>3 DEF IInv, OneVerdict, SettledByItsDeposit, DepositSettlesOne, TaskOK
<1>4. CASE \E b \in BOOLEAN : set_payment_link_active(b)
  BY Zenon, <1>0, <1>3, <1>4 DEF set_payment_link_active, TypeOK, intent
<1>5. CASE \E a \in Amounts \cup {Flexible} : update_payment_link(a)
  BY Zenon, <1>0, <1>3, <1>5 DEF update_payment_link, TypeOK, intent
<1>6. CASE Deadline
  BY Zenon, <1>0, <1>3, <1>6 DEF Deadline, TypeOK, intent
<1>7. CASE \E i \in Intents : GrowOld(i)
  BY Zenon, <1>0, <1>3, <1>7 DEF GrowOld, TypeOK, link
<1> QED BY Zenon, <1>1, <1>2, <1>4, <1>5, <1>6, <1>7

\* The pay page: an intent is quoted, then inserted.
LEMMA PayPageIInv ==
    ASSUME IInv, NEW i \in Intents,
           (\E a \in Amounts : Quote(i, a)) \/ record_payment_link_intent(i)
    PROVE  IInv'
<1>0. /\ TypeOK /\ OneVerdict /\ SettledByItsDeposit /\ DepositSettlesOne
      /\ \A d \in Deposits : TaskOK(d, match[d])
  BY Zenon DEF IInv
<1>1. /\ status' \in [Intents -> Statuses]
      /\ status[i] \in {"none", "quoted"} /\ status'[i] \in {"quoted", "pending"}
      /\ \A j \in Intents : j # i => status'[j] = status[j] /\ price'[j] = price[j]
      /\ UNCHANGED <<link, old, paidBy, events, match>>
  BY Zenon, <1>0 DEF Quote, record_payment_link_intent, TypeOK, Statuses
<1>2. price' \in [Intents -> Nat]
  BY Zenon, <1>0, PaymentLinksAssumption DEF Quote, record_payment_link_intent, TypeOK
<1>3. made' \in [Intents -> Nat]
  <2>1. CASE record_payment_link_intent(i)
    <3>1. IsFiniteSet({j \in Intents : made[j] > 0})
      BY Zenon, PaymentLinksAssumption, FS_Subset
    <3>2. Cardinality({j \in Intents : made[j] > 0}) \in Nat
      BY Zenon, <3>1, FS_CardinalityType
    <3> QED BY <1>0, <2>1, <3>2 DEF record_payment_link_intent, TypeOK
  <2>2. CASE \E a \in Amounts : Quote(i, a)
    BY Zenon, <1>0, <2>2 DEF Quote, TypeOK
  <2> QED BY Zenon, <2>1, <2>2
<1>4. TypeOK'
  BY Zenon, <1>0, <1>1, <1>2, <1>3 DEF TypeOK, link
<1>5. OneVerdict'
  BY Zenon, <1>0, <1>1 DEF OneVerdict, Settled, Closed, Announces, EventOf
<1>6. SettledByItsDeposit'
  BY <1>0, <1>1 DEF SettledByItsDeposit, Settled
<1>7. DepositSettlesOne' /\ \A d \in Deposits : TaskOK(d, match[d])'
  BY <1>0, <1>1 DEF DepositSettlesOne, TaskOK, link
<1> QED BY Zenon, <1>4, <1>5, <1>6, <1>7 DEF IInv

\* The steps of a match up to its update, and its end without one.
LEMMA LookupIInv ==
    ASSUME IInv, NEW d \in Deposits,
           \/ record_deposit(d) \/ pending_payment_by_address(d)
           \/ get_payment_link(d) \/ get_payment_link_by_address(d)
           \/ oldest_pending_payment(d) \/ GiveUp(d)
    PROVE  IInv'
<1>0. TypeOK /\ TaskOK(d, match[d]) /\ match[d] \in Tasks
  BY Zenon DEF IInv, TypeOK
<1>1. CASE record_deposit(d)
  <2> DEFINE a == IF status_at \in Closed THEN status_at ELSE "open"
  <2>1. a \in {"open"} \cup Closed /\ (a = "cancelled" => cancelled)
    BY Zenon DEF status_at, Closed
  <2> HIDE DEF a
  <2> DEFINE x == [pc |-> "exact", at |-> a, intent |-> NoIntent, seen |-> FALSE]
  <2>2. x \in Tasks
    BY Zenon, <2>1 DEF Tasks
  <2>3. Become(d, x) /\ match[d].pc = "none" /\ Transfer[d].usdc /\ UNCHANGED <<link, intent>>
    BY Zenon, <1>1 DEF record_deposit, a
  <2>4. TaskOK(d, x)
    BY Zenon, <1>0, <2>1, <2>3 DEF TaskOK
  <2> HIDE DEF x
  <2> QED BY Zenon, <2>2, <2>3, <2>4, QuietTask
<1>2. CASE GiveUp(d)
  <2>1. Unmatched \in Tasks
    BY Zenon DEF Unmatched, Tasks
  <2>2. TaskOK(d, Unmatched)
    BY Zenon, <1>0, <1>2 DEF TaskOK, Unmatched, GiveUp
  <2> QED BY Zenon, <1>2, <2>1, <2>2, QuietTask DEF GiveUp
<1>3. ASSUME NEW p \in {"link", "shared", "oldest", "settle"}, NEW i \in Intents \cup {NoIntent},
             NEW b \in BOOLEAN
      PROVE  /\ Step(match[d], p, i, b) \in Tasks
             /\ Step(match[d], p, i, b).pc = p /\ Step(match[d], p, i, b).intent = i
             /\ Step(match[d], p, i, b).seen = b
             /\ Step(match[d], p, i, b).at = match[d].at
  BY Zenon, <1>0 DEF Step, Tasks
<1>4. CASE pending_payment_by_address(d)
  <2> DEFINE a == Transfer[d].address
  <2>1. match[d].pc = "exact" /\ UNCHANGED <<link, intent>>
    BY Zenon, <1>4 DEF pending_payment_by_address
  <2>2. CASE a \in Pending
    <3>1. a \in Intents /\ Become(d, Step(match[d], "link", a, FALSE))
      BY Zenon, <1>4, <2>2 DEF pending_payment_by_address, Pending
    <3>2. PICK x \in Tasks : /\ x = Step(match[d], "link", a, FALSE)
                             /\ x.pc = "link" /\ x.intent = a /\ x.at = match[d].at
      <4> HIDE DEF a
      <4>1. Step(match[d], "link", a, FALSE) \in Tasks
        BY Zenon, <1>0, <3>1 DEF Step, Tasks
      <4>2. /\ Step(match[d], "link", a, FALSE).pc = "link" /\ Step(match[d], "link", a, FALSE).at = match[d].at
           /\ Step(match[d], "link", a, FALSE).intent = a
        BY Zenon DEF Step
      <4> QED BY Zenon, <4>1, <4>2
    <3>3. TaskOK(d, x)
      BY Zenon, <1>0, <2>1, <3>1, <3>2 DEF TaskOK
    <3> QED BY Zenon, <2>1, <3>1, <3>2, <3>3, QuietTask
  <2>3. CASE a \notin Pending /\ a = LinkAddress
    <3>1. Become(d, Step(match[d], "shared", NoIntent, FALSE))
      BY Zenon, <1>4, <2>3 DEF pending_payment_by_address
    <3>2. PICK x \in Tasks : /\ x = Step(match[d], "shared", NoIntent, FALSE)
                             /\ x.pc = "shared" /\ x.at = match[d].at
      <4>1. Step(match[d], "shared", NoIntent, FALSE) \in Tasks
        BY Zenon, <1>0, <3>1 DEF Step, Tasks
      <4>2. /\ Step(match[d], "shared", NoIntent, FALSE).pc = "shared" /\ Step(match[d], "shared", NoIntent, FALSE).at = match[d].at
        BY Zenon DEF Step
      <4> QED BY Zenon, <4>1, <4>2
    <3>3. TaskOK(d, x)
      BY Zenon, <1>0, <2>1, <2>3, <3>2 DEF TaskOK
    <3> QED BY Zenon, <2>1, <3>1, <3>2, <3>3, QuietTask
  <2>4. CASE a \notin Pending /\ a # LinkAddress
    <3>1. Become(d, Unmatched) /\ Unmatched \in Tasks
      BY Zenon, <1>4, <2>4 DEF pending_payment_by_address, Unmatched, Tasks
    <3>2. TaskOK(d, Unmatched)
      BY Zenon, <1>0, <2>1 DEF TaskOK, Unmatched
    <3> QED BY Zenon, <2>1, <3>1, <3>2, QuietTask
  <2> QED BY Zenon, <2>2, <2>3, <2>4
<1>5. CASE get_payment_link(d)
  <2>1. /\ match[d].pc = "link" /\ UNCHANGED <<link, intent>> /\ match[d].intent \in Intents
        /\ Become(d, Step(match[d], "settle", match[d].intent, cancelled))
    BY Zenon, <1>0, <1>5 DEF get_payment_link, TaskOK
  <2>2. cancelled \in BOOLEAN
    BY Zenon, <1>0 DEF TypeOK
  <2>3. PICK x \in Tasks : /\ x = Step(match[d], "settle", match[d].intent, cancelled)
                           /\ x.pc = "settle" /\ x.intent = match[d].intent
                           /\ x.seen = cancelled /\ x.at = match[d].at
    BY <1>3, <2>1, <2>2
  <2>4. TaskOK(d, x)
    BY Zenon, <1>0, <2>1, <2>3 DEF TaskOK
  <2> QED BY Zenon, <2>1, <2>3, <2>4, QuietTask
<1>6. CASE get_payment_link_by_address(d)
  <2>1. /\ match[d].pc = "shared" /\ UNCHANGED <<link, intent>>
        /\ Become(d, Step(match[d], "oldest", NoIntent, cancelled))
    BY Zenon, <1>6 DEF get_payment_link_by_address
  <2>2. cancelled \in BOOLEAN
    BY Zenon, <1>0 DEF TypeOK
  <2>3. PICK x \in Tasks : /\ x = Step(match[d], "oldest", NoIntent, cancelled)
                           /\ x.pc = "oldest" /\ x.seen = cancelled /\ x.at = match[d].at
    BY <1>3, <2>2
  <2>4. TaskOK(d, x)
    BY Zenon, <1>0, <2>1, <2>3 DEF TaskOK
  <2> QED BY Zenon, <2>1, <2>3, <2>4, QuietTask
<1>7. CASE oldest_pending_payment(d)
  <2>1. PICK i \in Intents : Become(d, Step(match[d], "settle", i, match[d].seen))
    BY Zenon, <1>7 DEF oldest_pending_payment, Pending
  <2>2. match[d].pc = "oldest" /\ UNCHANGED <<link, intent>> /\ match[d].seen \in BOOLEAN
    BY Zenon, <1>0, <1>7 DEF oldest_pending_payment, Tasks
  <2>3. PICK x \in Tasks : /\ x = Step(match[d], "settle", i, match[d].seen)
                           /\ x.pc = "settle" /\ x.intent = i
                           /\ x.seen = match[d].seen /\ x.at = match[d].at
    BY <1>3, <2>2
  <2>4. TaskOK(d, x)
    <3>1. x.at = "cancelled" => x.seen
      BY Zenon, <1>0, <2>2, <2>3 DEF TaskOK
    <3>2. Transfer[d].address \in {i, LinkAddress}
      BY Zenon, <1>0, <2>2 DEF TaskOK
    <3> QED BY Zenon, <1>0, <2>2, <2>3, <3>1, <3>2 DEF TaskOK
  <2> QED BY Zenon, <2>1, <2>2, <2>3, <2>4, QuietTask
<1> QED BY Zenon, <1>1, <1>2, <1>4, <1>5, <1>6, <1>7

\* The update that settles an intent: it names the deposit of its task, which no other
\* intent has and which came while the link was open.
LEMMA SettleIInv ==
    ASSUME IInv, NEW d \in Deposits, Settle(d)
    PROVE  IInv'
<1>0. /\ TypeOK /\ OneVerdict /\ SettledByItsDeposit /\ DepositSettlesOne
      /\ \A e \in Deposits : TaskOK(e, match[e])
  BY Zenon DEF IInv
<1>a. match[d] \in Tasks
  BY Zenon, <1>0 DEF TypeOK
<1>b. PICK i \in Intents : i = match[d].intent
  BY Zenon, <1>0 DEF Settle, TaskOK
<1>c. PICK s \in Settled : s = Verdict(Transfer[d].amount, price[i])
  BY Zenon DEF Verdict, Settled
<1>1. /\ match[d].pc = "settle" /\ ~match[d].seen /\ match[d].at # "expired"
      /\ status[i] = "pending" /\ Flip({i}, s, EventOf(s))
      /\ paidBy' = [paidBy EXCEPT ![i] = d] /\ Become(d, Matched(match[d]))
      /\ UNCHANGED <<link, price, made>>
  BY Zenon, <1>b, <1>c DEF Settle, Late, Pending
<1>2. /\ status'[i] = s /\ events'[i] = Append(events[i], EventOf(s))
      /\ \A j \in Intents : j # i => status'[j] = status[j] /\ events'[j] = events[j]
  BY Zenon, <1>1 DEF Flip
<1>3. /\ paidBy' \in [Intents -> Deposits \cup {NoDeposit}] /\ paidBy'[i] = d
      /\ \A j \in Intents : j # i => paidBy'[j] = paidBy[j]
      /\ \A j \in Intents : paidBy[j] # d
  BY Zenon, <1>0, <1>1 DEF TypeOK, TaskOK
<1>4. PICK x \in Tasks : x = Matched(match[d]) /\ x.pc = "done" /\ x.at = match[d].at
  <2>1. /\ Matched(match[d]) \in Tasks
        /\ Matched(match[d]).pc = "done" /\ Matched(match[d]).at = match[d].at
    BY Zenon, <1>a DEF Matched, Tasks
  <2> QED BY Zenon, <2>1
<1>5. /\ match' \in [Deposits -> Tasks] /\ match'[d] = x
      /\ \A e \in Deposits : e # d => match'[e] = match[e]
  BY Zenon, <1>0, <1>1, <1>4, Became
<1>6. match[d].at = "open"
  BY Zenon, <1>0, <1>1, <1>a DEF TaskOK, Tasks, Closed
<1>7. TypeOK'
  <2>1. s \in Statuses /\ EventOf(s) \in Events
    BY Zenon DEF Settled, Statuses, EventOf, Events
  <2>2. status' \in [Intents -> Statuses]
    BY Zenon, <1>0, <1>1, <2>1 DEF Flip, TypeOK
  <2>3. events' \in [Intents -> Seq(Events)]
    BY <1>0, <1>1, <2>1 DEF Flip, TypeOK
  <2>4. old' \in SUBSET Intents
    BY Zenon, <1>0, <1>1 DEF Flip, TypeOK
  <2> QED BY Zenon, <1>0, <1>1, <1>3, <1>5, <2>2, <2>3, <2>4 DEF TypeOK, link
<1>8. OneVerdict'
  <2> SUFFICES ASSUME NEW j \in Intents
               PROVE  events'[j] = IF status'[j] \in Settled \cup Closed
                                   THEN <<Announces(status'[j])>> ELSE << >>
    BY Zenon DEF OneVerdict, Announces, EventOf
  <2>1. CASE j = i
    <3>1. events[i] = << >>
      BY Zenon, <1>0, <1>1 DEF OneVerdict, Settled, Closed
    <3>2. Announces(s) = EventOf(s)
      BY Zenon DEF Announces
    <3> QED BY <1>2, <2>1, <3>1, <3>2
  <2>2. CASE j # i
    BY Zenon, <1>0, <1>2, <2>2 DEF OneVerdict
  <2> QED BY Zenon, <2>1, <2>2
<1>9. SettledByItsDeposit'
  <2> SUFFICES ASSUME NEW j \in Intents, status'[j] \in Settled
               PROVE  /\ paidBy'[j] \in Deposits
                      /\ match'[paidBy'[j]].at = "open"
                      /\ Transfer[paidBy'[j]].usdc
                      /\ Transfer[paidBy'[j]].address \in {j, LinkAddress}
                      /\ status'[j] = "confirmed" => Transfer[paidBy'[j]].amount = price[j]
                      /\ status'[j] = "underpaid" => Transfer[paidBy'[j]].amount < price[j]
                      /\ status'[j] = "overpaid" => Transfer[paidBy'[j]].amount > price[j]
    BY Zenon, <1>1 DEF SettledByItsDeposit
  <2>1. CASE j = i
    <3>1. Transfer[d].usdc /\ Transfer[d].address \in {i, LinkAddress}
      BY Zenon, <1>0, <1>1, <1>b DEF TaskOK
    <3>2. Transfer[d].amount \in Nat /\ price[i] \in Nat
      BY Zenon, <1>0, PaymentLinksAssumption DEF TypeOK
    <3>3. /\ s = "confirmed" => Transfer[d].amount = price[i]
          /\ s = "underpaid" => Transfer[d].amount < price[i]
          /\ s = "overpaid" => Transfer[d].amount > price[i]
      BY <1>c, <3>2 DEF Verdict
    <3> QED BY Zenon, <1>2, <1>3, <1>4, <1>5, <1>6, <2>1, <3>1, <3>3
  <2>2. CASE j # i
    <3>1. status[j] \in Settled /\ paidBy'[j] = paidBy[j] /\ paidBy[j] # d /\ status'[j] = status[j]
      BY Zenon, <1>2, <1>3, <2>2
    <3> QED BY <1>0, <1>5, <3>1 DEF SettledByItsDeposit
  <2> QED BY Zenon, <2>1, <2>2
<1>10. DepositSettlesOne'
  BY Zenon, <1>0, <1>3 DEF DepositSettlesOne
<1>11. \A e \in Deposits : TaskOK(e, match[e])'
  <2> SUFFICES ASSUME NEW e \in Deposits PROVE TaskOK(e, match[e])'
    BY Zenon
  <2>1. cancelled' = cancelled
    BY Zenon, <1>1 DEF link
  <2>2. CASE e = d
    <3>1. match'[e].pc = "done" /\ match'[e].at = "open"
      BY Zenon, <1>4, <1>5, <1>6, <2>2
    <3>2. Transfer[e].usdc
      BY Zenon, <1>0, <1>1, <2>2 DEF TaskOK
    <3> QED BY Zenon, <3>1, <3>2 DEF TaskOK
  <2>3. CASE e # d
    <3>1. match'[e] = match[e] /\ TaskOK(e, match[e])
      BY Zenon, <1>0, <1>5, <2>3
    <3>2. (\A j \in Intents : paidBy[j] # e) => (\A j \in Intents : paidBy'[j] # e)
      BY Zenon, <1>3, <2>3
    <3> QED BY Zenon, <2>1, <3>1, <3>2 DEF TaskOK
  <2> QED BY Zenon, <2>2, <2>3
<1> QED BY Zenon, <1>7, <1>8, <1>9, <1>10, <1>11 DEF IInv

\* Every step keeps the invariant.
LEMMA NextIInv == IInv /\ [Next]_vars => IInv'
<1> SUFFICES ASSUME IInv, [Next]_vars PROVE IInv'
  BY Zenon
<1>1. CASE UNCHANGED vars
  BY Zenon, <1>1 DEF vars, link, intent, IInv, TypeOK, OneVerdict, SettledByItsDeposit,
              DepositSettlesOne, TaskOK
<1>2. CASE \E d \in Deposits : Match(d)
  BY Zenon, <1>2, LookupIInv, SettleIInv DEF Match
<1>3. CASE \E i \in Intents : (\E a \in Amounts : Quote(i, a)) \/ record_payment_link_intent(i)
  BY Zenon, <1>3, PayPageIInv
<1> QED BY Zenon, <1>1, <1>2, <1>3, OwnerIInv DEF Next

\* The invariant holds throughout.
LEMMA Invariance == Spec => []IInv
BY InitIInv, NextIInv, PTL DEF Spec

\* The state stays within its type: also a price read from a link that is edited
\* meanwhile is an amount.
THEOREM TypeCorrect == Spec => []TypeOK
BY Invariance, PTL DEF IInv

\* However a match, a cancellation and the expiry sweep interleave, one of them decides
\* an intent and one event announces it.
THEOREM Verdicts == Spec => []OneVerdict
BY Invariance, PTL DEF IInv

\* A settled intent was paid by a deposit of its own or of the link's address, made
\* while the link was open and labelled by its amount.
THEOREM Settlements == Spec => []SettledByItsDeposit
BY Invariance, PTL DEF IInv

\* No deposit settles two intents.
THEOREM NoDoubleCount == Spec => []DepositSettlesOne
BY Invariance, PTL DEF IInv

\* A step leaves the intents that were decided before it alone.
LEMMA StepKeepsVerdict ==
    ASSUME IInv, [Next]_vars, NEW i \in Intents, status[i] \in Settled \cup Closed
    PROVE  status'[i] = status[i] /\ paidBy'[i] = paidBy[i]
<1>1. status[i] \notin {"none", "quoted", "pending"} /\ i \notin Pending
  BY Zenon DEF Settled, Closed, Pending
<1>2. CASE \E d \in Deposits : Settle(d)
  <2>1. PICK d \in Deposits : Settle(d)
    BY Zenon, <1>2
  <2>2. i # match[d].intent
    BY Zenon, <1>1, <2>1 DEF Settle
  <2> QED BY Zenon, <2>1, <2>2 DEF Settle, Flip, IInv, TypeOK
<1>3. CASE cancel_payment_link \/ expire_stale_payment_link_payments
  BY Zenon, <1>1, <1>3 DEF cancel_payment_link, expire_stale_payment_link_payments, Flip
<1>4. CASE \E j \in Intents : (\E a \in Amounts : Quote(j, a)) \/ record_payment_link_intent(j)
  BY Zenon, <1>1, <1>4 DEF Quote, record_payment_link_intent, IInv, TypeOK
<1>5. CASE UNCHANGED <<status, paidBy>>
  BY Zenon, <1>5
<1>6. ASSUME NEW d \in Deposits,
             \/ record_deposit(d) \/ pending_payment_by_address(d)
             \/ get_payment_link(d) \/ get_payment_link_by_address(d)
             \/ oldest_pending_payment(d) \/ GiveUp(d)
      PROVE  UNCHANGED <<status, paidBy>>
  BY Zenon, <1>6 DEF record_deposit, pending_payment_by_address, get_payment_link,
              get_payment_link_by_address, oldest_pending_payment, GiveUp, intent
<1>7. ASSUME \/ \E b \in BOOLEAN : set_payment_link_active(b)
             \/ \E a \in Amounts \cup {Flexible} : update_payment_link(a)
             \/ Deadline
             \/ \E j \in Intents : GrowOld(j)
             \/ UNCHANGED vars
      PROVE  UNCHANGED <<status, paidBy>>
  BY Zenon, <1>7 DEF set_payment_link_active, update_payment_link, Deadline, GrowOld, vars, intent
<1> QED BY Zenon, <1>2, <1>3, <1>4, <1>5, <1>6, <1>7 DEF Next, Match

\* No late or second deposit, no second cancellation and no sweep changes a verdict.
THEOREM VerdictsFinal == Spec => VerdictIsFinal
<1>1. IInv /\ [Next]_vars =>
        [\A i \in Intents : status[i] \in Settled \cup Closed =>
            status'[i] = status[i] /\ paidBy'[i] = paidBy[i]]_vars
  BY Zenon, StepKeepsVerdict
<1> QED BY <1>1, Invariance, PTL DEF Spec, VerdictIsFinal

(***************************************************************************)
(* Throttle: the attempts a client and an account are granted.             *)
(***************************************************************************)

(* Two fixed windows, the older without its first hit, hold at most        *)
(* 2 * Limit - 1 attempts.                                                 *)
LEMMA WindowsBound ==
    ASSUME ThrottleInv, NEW c, NEW s \in Int, Windows(c, s)
    PROVE  Cardinality({x \in admitted : x[1] = c}) <= 2 * Limit - 1
<1> DEFINE older == {x \in admitted : x[1] = c /\ x[2] < s}
           new == {x \in admitted : x[1] = c /\ ~(x[2] < s)}
           f == [x \in older |-> x[3]]
           g == [x \in new |-> x[3]]
<1>0. Limit \in Nat \ {0} /\ admitted \subseteq Counters \X Nat \X (1 .. Limit)
  BY Zenon, ThrottleAssumption DEF ThrottleInv
<1>1. \A x \in admitted : x[2] \in Nat /\ x[3] \in 1 .. Limit
  BY Zenon, <1>0
<1>2. \A x \in older : x[3] \in 2 .. Limit
  BY <1>0, <1>1 DEF Windows
<1>3. f \in Injection(older, 2 .. Limit)
  <2>1. f \in [older -> 2 .. Limit]
    BY Zenon, <1>2
  <2>2. \A x, y \in older : f[x] = f[y] => x = y
    BY Zenon DEF Windows
  <2> HIDE DEF f, older
  <2> QED BY Zenon, <2>1, <2>2 DEF Injection, IsInjective
<1>4. g \in Injection(new, 1 .. Limit)
  <2>1. g \in [new -> 1 .. Limit]
    BY Zenon, <1>1
  <2>2. \A x, y \in new : g[x] = g[y] => x = y
    BY Zenon DEF Windows
  <2> HIDE DEF g, new
  <2> QED BY Zenon, <2>1, <2>2 DEF Injection, IsInjective
<1>5. {x \in admitted : x[1] = c} = older \cup new
  BY Zenon
<1> HIDE DEF older, new, f, g
<1>6. IsFiniteSet(older) /\ Cardinality(older) <= Limit - 1
  <2>1. IsFiniteSet(2 .. Limit) /\ Cardinality(2 .. Limit) = Limit - 1
    BY <1>0, FS_Interval
  <2>2. IsFiniteSet(older) /\ Cardinality(older) <= Cardinality(2 .. Limit)
    BY Zenon, <1>3, <2>1, FS_Injection
  <2> QED BY Zenon, <2>1, <2>2
<1>7. IsFiniteSet(new) /\ Cardinality(new) <= Limit
  <2>1. IsFiniteSet(1 .. Limit) /\ Cardinality(1 .. Limit) = Limit
    BY <1>0, FS_Interval
  <2>2. IsFiniteSet(new) /\ Cardinality(new) <= Cardinality(1 .. Limit)
    BY Zenon, <1>4, <2>1, FS_Injection
  <2> QED BY Zenon, <2>1, <2>2
<1>8. /\ Cardinality(older \cup new) = Cardinality(older) + Cardinality(new) - Cardinality(older \cap new)
      /\ Cardinality(older \cap new) \in Nat /\ Cardinality(older) \in Nat /\ Cardinality(new) \in Nat
  BY Zenon, <1>6, <1>7, FS_Union, FS_Intersection, FS_CardinalityType
<1>9. Cardinality(older \cup new) <= 2 * Limit - 1
  BY <1>0, <1>6, <1>7, <1>8
<1> QED BY <1>5, <1>9, Zenon

(* The backoff grows with the locks, up to the longest.                    *)
LEMMA ShiftGrows ==
    ASSUME NEW n \in Nat
    PROVE  /\ Shift(n) \in Nat /\ Shift(n) >= 1 /\ Shift(n) <= Shift(n + 1)
           /\ Power(MaxShift) \in Nat /\ Shift(n) <= Power(MaxShift)
<1>1. PICK k \in 0 .. MaxShift : k = (IF n < MaxShift THEN n ELSE MaxShift)
  BY ThrottleAssumption
<1>2. PICK m \in 0 .. MaxShift : m = (IF n + 1 < MaxShift THEN n + 1 ELSE MaxShift)
  BY ThrottleAssumption
<1>3. k <= m /\ k <= MaxShift /\ m <= MaxShift /\ MaxShift \in 0 .. MaxShift
  BY <1>1, <1>2, ThrottleAssumption
<1>4. Shift(n) = Power(k)
  BY Zenon, <1>1 DEF Shift
<1>5. Shift(n + 1) = Power(m)
  BY Zenon, <1>2 DEF Shift
<1>6. Power(k) \in Nat /\ Power(m) \in Nat /\ 1 <= Power(k) /\ Power(k) <= Power(m)
  BY Zenon, <1>3, PowersAssumption
<1>7. Power(MaxShift) \in Nat /\ Power(k) <= Power(MaxShift)
  BY Zenon, <1>3, PowersAssumption
<1> QED BY Zenon, <1>4, <1>5, <1>6, <1>7

(* The two limiters count alike (count and rate_limit_hit).                *)
LEMMA CountIs ==
    ASSUME NEW b \in Buckets, now \in Nat
    PROVE  count(b) = rate_limit_hit(b) /\ rate_limit_hit(b) \in Buckets
BY ThrottleAssumption DEF count, rate_limit_hit, Buckets, NoBucket

(* When a window is over, what is recent of it lacks its first hit, and    *)
(* nothing is recent of the one before.                                    *)
LEMMA WindowOver ==
    ASSUME ThrottleInv, NEW c, NEW b, BucketOK(c, b), b = NoBucket \/ b.expires <= now
    PROVE  /\ \A x \in admitted : x[1] = c => x[2] < now /\ x[3] # 1
           /\ \A x, y \in admitted : x[1] = c /\ y[1] = c /\ x[3] = y[3] => x = y
<1>0. /\ now \in Nat /\ LimitWindow \in Nat \ {0}
      /\ \A x \in admitted : x[2] \in Nat /\ x[3] \in Nat /\ x[2] > now - LimitWindow
  BY ThrottleAssumption DEF ThrottleInv
<1>1. CASE b = NoBucket
  BY Zenon, <1>0, <1>1 DEF BucketOK, Windows, Began
<1>2. CASE b # NoBucket
  <2>1. b.expires <= now /\ b.expires \in Nat /\ Began(b) = b.expires - LimitWindow
    BY Zenon, <1>2 DEF BucketOK, Buckets, Began
  <2>2. \A x \in admitted : ~(x[2] < Began(b)) /\ x[2] # Began(b) /\ x[2] >= Began(b)
    BY <1>0, <2>1
  <2>3. \A x \in admitted : x[1] = c => x[2] < b.expires /\ (x[3] = 1 => x[2] = Began(b))
    BY Zenon, <1>2, <2>2 DEF BucketOK
  <2>4. \A x, y \in admitted : x[1] = c /\ y[1] = c /\ x[3] = y[3] => x = y
    BY Zenon, <2>2 DEF BucketOK, Windows
  <2> QED BY <1>0, <2>1, <2>2, <2>3, <2>4
<1> QED BY Zenon, <1>1, <1>2
(* A counter that admits nothing more is bounded as before.                *)
LEMMA NothingMore ==
    ASSUME NEW d, now' = now, \A x \in admitted' : x[1] = d => x \in admitted
    PROVE  /\ \A b : BucketOK(d, b) => BucketOK(d, b)'
           /\ \A s : Windows(d, s) => Windows(d, s)'
<1>1. ASSUME NEW s, Windows(d, s) PROVE Windows(d, s)'
  BY <1>1, Zenon DEF Windows
<1>2. ASSUME NEW b, BucketOK(d, b) PROVE BucketOK(d, b)'
  <2>1. Began(b)' = Began(b)
    BY Zenon DEF Began
  <2>2. /\ Windows(d, Began(b)) /\ b \in Buckets /\ Began(b) \in 0 .. now
        /\ b = NoBucket => \A x \in admitted : x[1] = d => x[2] < now
        /\ b # NoBucket =>
              /\ b.hits >= 1
              /\ \A x \in admitted : x[1] = d /\ x[2] >= Began(b) =>
                    x[3] <= b.hits /\ x[2] < b.expires /\ (x[3] = 1 => x[2] = Began(b))
    BY Zenon, <1>2 DEF BucketOK
  <2>3. PICK s : s = Began(b)
    BY Zenon
  <2>4. Windows(d, s)'
    BY Zenon, <1>1, <2>2, <2>3
  <2>5. Windows(d, Began(b))'
    BY Zenon, <2>1, <2>3, <2>4 DEF Windows
  <2> QED BY Zenon, <2>1, <2>2, <2>5 DEF BucketOK
<1> QED BY Zenon, <1>1, <1>2

(* An attempt is counted, and passes if it is within the limit.            *)
LEMMA HitIs ==
    ASSUME ThrottleInv, NEW c \in Counters, NEW b, BucketOK(c, b), NEW e, e = rate_limit_hit(b), now' = now,
           admitted' = IF e.hits <= Limit THEN admitted \cup {<<c, now, e.hits>>} ELSE admitted
    PROVE  BucketOK(c, e)'
<1>0. /\ now \in Nat /\ LimitWindow \in Nat \ {0} /\ Limit \in Nat \ {0} /\ b \in Buckets
      /\ \A x \in admitted : x[2] \in Nat /\ x[3] \in Nat /\ x[2] <= now
  BY ThrottleAssumption DEF ThrottleInv, BucketOK
<1>1. e \in Buckets
  BY Zenon, <1>0, CountIs
<1>a. PICK z : z = <<c, now, e.hits>>
  BY Zenon
<1>2. z[1] = c /\ z[2] = now /\ z[3] = e.hits
  BY Zenon, <1>a
<1>3. admitted' = IF e.hits <= Limit THEN admitted \cup {z} ELSE admitted
  BY Zenon, <1>a
<1>4. CASE b = NoBucket \/ b.expires <= now
  <2>1. e.hits = 1 /\ e.expires = now + LimitWindow /\ e # NoBucket
    BY <1>4 DEF rate_limit_hit, NoBucket
  <2>2. Began(e)' = now
    BY <1>0, <2>1 DEF Began
  <2>3. admitted' = admitted \cup {z}
    BY <1>0, <1>3, <2>1
  <2>4. /\ \A x \in admitted : x[1] = c => x[2] < now /\ x[3] # 1
        /\ \A x, y \in admitted : x[1] = c /\ y[1] = c /\ x[3] = y[3] => x = y
    BY Zenon, <1>4, WindowOver
  <2>5. /\ \A x \in admitted' : x[1] = c /\ x[2] < now => x \in admitted /\ x[3] # 1
        /\ \A x \in admitted' : x[1] = c /\ ~(x[2] < now) => x = z
    BY <1>0, <1>2, <2>3, <2>4
  <2>6. Windows(c, Began(e))'
    BY Zenon, <2>2, <2>4, <2>5 DEF Windows
  <2>7. \A x \in admitted' : x[1] = c /\ x[2] >= now => x[3] <= e.hits /\ x[2] < e.expires /\ x[2] = now
    BY <1>0, <1>2, <2>1, <2>3, <2>4
  <2> QED BY <1>0, <1>1, <2>1, <2>2, <2>6, <2>7 DEF BucketOK
<1>5. CASE ~(b = NoBucket \/ b.expires <= now)
  <2>1. e.hits = b.hits + 1 /\ e.expires = b.expires /\ b.hits \in Nat /\ b.expires \in Nat /\ b.expires > now
    BY <1>0, <1>5 DEF rate_limit_hit, Buckets
  <2>2. /\ b # NoBucket /\ b.hits >= 1 /\ Began(b) \in 0 .. now /\ Windows(c, Began(b))
        /\ \A x \in admitted : x[1] = c /\ x[2] >= Began(b) =>
              x[3] <= b.hits /\ x[2] < b.expires /\ (x[3] = 1 => x[2] = Began(b))
    BY Zenon, <1>5 DEF BucketOK
  <2>3. e # NoBucket
    BY <2>1, <2>2 DEF NoBucket
  <2>4. Began(e)' = Began(b)
    BY Zenon, <2>1, <2>2, <2>3 DEF Began
  <2>5. PICK s \in 0 .. now : s = Began(b)
    BY Zenon, <2>2
  <2>6. \A x \in admitted' : x \in admitted \/ (x = z /\ z[3] = b.hits + 1 /\ ~(z[2] < s) /\ z[3] # 1)
    BY <1>0, <1>2, <1>3, <2>1, <2>2, <2>5
  <2>7. \A x \in admitted : x[1] = c /\ ~(x[2] < s) => x[3] # z[3]
    BY <1>0, <1>2, <2>1, <2>2, <2>5
  <2>8. Windows(c, s)'
    <3>1. /\ \A x, y \in admitted : x[1] = c /\ y[1] = c /\ x[3] = y[3] /\ (x[2] < s <=> y[2] < s) => x = y
          /\ \A x \in admitted : x[1] = c /\ x[2] < s => x[3] # 1
      BY Zenon, <2>2, <2>5 DEF Windows
    <3>2. ASSUME NEW x \in admitted', NEW y \in admitted', x[1] = c, y[1] = c, x[3] = y[3],
                 x[2] < s <=> y[2] < s
          PROVE  x = y
      BY <2>6, <2>7, <3>1, <3>2, Zenon
    <3>3. ASSUME NEW x \in admitted', x[1] = c, x[2] < s PROVE x[3] # 1
      BY <2>6, <3>1, <3>3, Zenon
    <3> QED BY <3>2, <3>3, Zenon DEF Windows
  <2>9. \A x \in admitted' : x[1] = c /\ x[2] >= s => x[3] <= e.hits /\ x[2] < e.expires /\ (x[3] = 1 => x[2] = s)
    BY <1>0, <1>2, <2>1, <2>2, <2>5, <2>6
  <2>10. Windows(c, Began(e))'
    BY <2>4, <2>5, <2>8 DEF Windows
  <2> QED BY <1>0, <1>1, <2>1, <2>3, <2>4, <2>5, <2>9, <2>10 DEF BucketOK
<1> QED BY Zenon, <1>4, <1>5
(* What all steps of the limiter leave true of the attempts it let pass.   *)
LEMMA AdmitStep ==
    ASSUME ThrottleInv, NEW c \in Counters, NEW b, BucketOK(c, b), NEW e, e = rate_limit_hit(b),
           UNCHANGED <<now, lockout, restarts>>, c[1] # "table" => c[2] <= restarts[c[1]],
           admitted' = IF e.hits <= Limit THEN admitted \cup {<<c, now, e.hits>>} ELSE admitted,
           BucketOK(Shared, table)', (\A p \in Processes : BucketOK(Own(p), local[p]))',
           local' \in [Processes -> Buckets]
    PROVE  ThrottleInv'
<1>0. /\ now \in Nat /\ LimitWindow \in Nat \ {0} /\ Limit \in Nat \ {0} /\ b \in Buckets
      /\ admitted \subseteq Counters \X Nat \X (1 .. Limit)
  BY Zenon, ThrottleAssumption DEF ThrottleInv, BucketOK
<1>1. e \in Buckets /\ e.hits >= 1 /\ BucketOK(c, e)'
  <2>1. e \in Buckets
    BY Zenon, <1>0, CountIs
  <2>2. e.hits >= 1
    BY <1>0 DEF rate_limit_hit, Buckets
  <2> QED BY Zenon, <2>1, <2>2, HitIs
<1>a. PICK z : z = <<c, now, e.hits>>
  BY Zenon
<1>2. z[1] = c /\ z[2] = now /\ z[3] = e.hits
  BY Zenon, <1>a
<1>3. \A x \in admitted' : x \in admitted \/ (x = z /\ e.hits <= Limit)
  BY Zenon, <1>a
<1>4. admitted' \subseteq Counters \X Nat \X (1 .. Limit)
  BY <1>0, <1>1, <1>a, <1>3 DEF Buckets
<1>5. \A x \in admitted' : x[2] <= now /\ x[2] > now - LimitWindow
  BY <1>0, <1>2, <1>3 DEF ThrottleInv
<1>6. \A x \in admitted' : x[1][1] # "table" => x[1][2] <= restarts[x[1][1]]
  BY Zenon, <1>2, <1>3 DEF ThrottleInv
<1>7. ASSUME NEW d \in {x[1] : x \in admitted'} PROVE \E s \in 0 .. now : Windows(d, s)'
  <2>1. CASE d = c
    <3>1. PICK s \in 0 .. now : s = Began(e)'
      BY Zenon, <1>1 DEF BucketOK
    <3>2. Windows(c, s)'
      BY <1>1, <3>1 DEF BucketOK, Windows
    <3> QED BY Zenon, <2>1, <3>2
  <2>2. CASE d # c
    <3>1. \A x \in admitted' : x[1] = d => x \in admitted
      BY Zenon, <1>2, <1>3, <2>2
    <3>2. d \in {x[1] : x \in admitted}
      BY Zenon, <1>7, <3>1
    <3>3. PICK s \in 0 .. now : Windows(d, s)
      BY Zenon, <3>2 DEF ThrottleInv
    <3> QED BY Zenon, <3>1, <3>3, NothingMore
  <2> QED BY Zenon, <2>1, <2>2
<1>8. LockoutOK'
  BY Zenon DEF ThrottleInv, LockoutOK, FailuresLock
<1> QED BY Zenon, <1>0, <1>4, <1>5, <1>6, <1>7, <1>8 DEF ThrottleInv

(* The counters are told apart.                                            *)
LEMMA CountersApart ==
    ASSUME restarts \in [Processes -> Nat]
    PROVE  /\ Shared \in Counters /\ Shared[1] = "table"
           /\ \A p \in Processes : /\ Own(p) \in Counters /\ Own(p) # Shared
                                   /\ Own(p)[1] = p /\ Own(p)[2] = restarts[p] /\ p # "table"
           /\ \A p, q \in Processes : p # q => Own(p) # Own(q)
BY Zenon, ThrottleAssumption DEF Shared, Own, Counters

(* An attempt counted in the table, by any process (PgRateLimitStore).     *)
LEMMA SharedStep ==
    ASSUME ThrottleInv, NEW p \in Processes, check_shared(p)
    PROVE  ThrottleInv'
<1>1. PICK c \in Counters : c = Shared
  BY Zenon, CountersApart DEF ThrottleInv
<1>2. PICK e : e = rate_limit_hit(table)
  BY Zenon
<1>3. /\ table' = e /\ local' = local /\ UNCHANGED <<now, lockout, restarts>> /\ BucketOK(c, table)
      /\ admitted' = IF e.hits <= Limit THEN admitted \cup {<<c, now, e.hits>>} ELSE admitted
  BY Zenon, <1>1, <1>2 DEF check_shared, Admit, ThrottleInv
<1>4. BucketOK(c, e)'
  BY Zenon, <1>2, <1>3, HitIs
<1>5. BucketOK(Shared, table)'
  BY <1>1, <1>3, <1>4 DEF BucketOK, Windows, Began, Shared
<1>6. ASSUME NEW q \in Processes PROVE BucketOK(Own(q), local[q])'
  <2>1. PICK d \in Counters : d = Own(q) /\ d # c
    BY Zenon, <1>1, CountersApart DEF ThrottleInv
  <2>2. PICK z : z = <<c, now, e.hits>>
    BY Zenon
  <2>3. z[1] = c
    BY Zenon, <2>2
  <2>4. \A x \in admitted' : x[1] = d => x \in admitted
    BY Zenon, <1>3, <2>1, <2>2, <2>3
  <2>5. PICK b : b = local[q]
    BY Zenon
  <2>6. BucketOK(d, b)'
    BY Zenon, <1>3, <2>1, <2>4, <2>5, NothingMore DEF ThrottleInv
  <2>7. Own(q)' = d /\ local'[q] = b
    BY Zenon, <1>3, <2>1, <2>5 DEF Own
  <2> QED BY Zenon, <2>6, <2>7 DEF BucketOK, Windows, Began
<1>7. c[1] # "table" => c[2] <= restarts[c[1]]
  BY Zenon, <1>1, CountersApart DEF ThrottleInv
<1>8. local' \in [Processes -> Buckets]
  BY Zenon, <1>3 DEF ThrottleInv
<1> QED BY Zenon, <1>2, <1>3, <1>5, <1>6, <1>7, <1>8, AdmitStep
(* An attempt counted by a process for itself (MemoryRateLimitStore).      *)
LEMMA FallbackStep ==
    ASSUME ThrottleInv, NEW p \in Processes, check_fallback(p)
    PROVE  ThrottleInv'
<1>0. now \in Nat /\ local \in [Processes -> Buckets] /\ local[p] \in Buckets
  BY Zenon DEF ThrottleInv
<1>1. PICK c \in Counters : c = Own(p)
  BY Zenon, CountersApart DEF ThrottleInv
<1>2. PICK b \in Buckets : b = local[p]
  BY Zenon, <1>0
<1>a. PICK e \in Buckets : e = rate_limit_hit(b) /\ e = count(b)
  BY Zenon, <1>0, CountIs
<1>3. /\ local' = [local EXCEPT ![p] = e] /\ local'[p] = e /\ table' = table /\ UNCHANGED <<now, lockout, restarts>>
      /\ BucketOK(c, b)
  BY Zenon, <1>0, <1>1, <1>2, <1>a DEF check_fallback, ThrottleInv
<1>b. admitted' = IF e.hits <= Limit THEN admitted \cup {<<c, now, e.hits>>} ELSE admitted
  BY Zenon, <1>1, <1>3 DEF check_fallback, Admit
<1>4. BucketOK(c, e)'
  BY Zenon, <1>a, <1>b, <1>3, HitIs
<1>c. PICK z : z = <<c, now, e.hits>>
  BY Zenon
<1>d. z[1] = c
  BY Zenon, <1>c
<1>5. BucketOK(Shared, table)'
  <2>1. PICK d \in Counters : d = Shared /\ d # c
    BY Zenon, <1>1, CountersApart DEF ThrottleInv
  <2>2. \A x \in admitted' : x[1] = d => x \in admitted
    BY Zenon, <1>b, <1>c, <1>d, <2>1
  <2>3. PICK t : t = table
    BY Zenon
  <2>4. BucketOK(d, t)'
    BY Zenon, <1>3, <2>1, <2>2, <2>3, NothingMore DEF ThrottleInv
  <2> QED BY Zenon, <1>3, <2>1, <2>3, <2>4 DEF BucketOK, Windows, Began, Shared
<1>6. ASSUME NEW q \in Processes PROVE BucketOK(Own(q), local[q])'
  <2>1. Own(q)' = Own(q)
    BY Zenon, <1>3 DEF Own
  <2>2. CASE q = p
    BY Zenon, <1>1, <1>3, <1>4, <2>1, <2>2 DEF BucketOK, Windows, Began
  <2>3. CASE q # p
    <3>1. PICK d \in Counters : d = Own(q) /\ d # c
      BY Zenon, <1>1, <2>3, CountersApart DEF ThrottleInv
    <3>2. \A x \in admitted' : x[1] = d => x \in admitted
      BY Zenon, <1>b, <1>c, <1>d, <3>1
    <3>3. PICK t : t = local[q]
      BY Zenon
    <3>4. BucketOK(d, t)'
      BY Zenon, <1>3, <3>1, <3>2, <3>3, NothingMore DEF ThrottleInv
    <3>5. local'[q] = t
      BY Zenon, <1>0, <1>3, <2>3, <3>3
    <3> QED BY Zenon, <2>1, <3>1, <3>4, <3>5 DEF BucketOK, Windows, Began
  <2> QED BY Zenon, <2>2, <2>3
<1>7. c[1] # "table" => c[2] <= restarts[c[1]]
  BY <1>1, CountersApart DEF ThrottleInv
<1>8. local' \in [Processes -> Buckets]
  BY Zenon, <1>0, <1>3
<1> QED BY Zenon, <1>a, <1>b, <1>3, <1>5, <1>6, <1>7, <1>8, AdmitStep

(* A bucket whose window is over may be forgotten (prune).                 *)
LEMMA Forgotten ==
    ASSUME ThrottleInv, NEW c, NEW b, BucketOK(c, b), b = NoBucket \/ b.expires <= now
    PROVE  BucketOK(c, NoBucket)
<1>1. /\ \A x \in admitted : x[1] = c => x[2] < now /\ x[3] # 1
      /\ \A x, y \in admitted : x[1] = c /\ y[1] = c /\ x[3] = y[3] => x = y
  BY Zenon, WindowOver
<1>2. Windows(c, now)
  BY <1>1, Zenon DEF Windows
<1>3. Began(NoBucket) = now /\ now \in Nat /\ NoBucket \in Buckets
  BY Zenon DEF Began, ThrottleInv, NoBucket, Buckets
<1> QED BY <1>1, <1>2, <1>3 DEF BucketOK

(* Steps that change neither the time nor what was let pass leave it       *)
(* bounded if they leave every bucket in order.                            *)
LEMMA BucketsStep ==
    ASSUME ThrottleInv, UNCHANGED <<now, admitted, restarts>>, LockoutOK',
           local' \in [Processes -> Buckets], BucketOK(Shared, table'),
           \A p \in Processes : BucketOK(Own(p), local'[p])
    PROVE  ThrottleInv'
<1>1. BucketOK(Shared, table)'
  BY DEF BucketOK, Windows, Began, Shared
<1>2. ASSUME NEW p \in Processes PROVE BucketOK(Own(p), local[p])'
  <2>1. Own(p)' = Own(p) /\ BucketOK(Own(p), local'[p])
    BY Zenon DEF Own
  <2> QED BY <2>1 DEF BucketOK, Windows, Began
<1>3. ASSUME NEW c \in {x[1] : x \in admitted} PROVE \E s \in 0 .. now : Windows(c, s)'
  <2>1. PICK s \in 0 .. now : Windows(c, s)
    BY Zenon DEF ThrottleInv
  <2> QED BY Zenon, <2>1, NothingMore
<1> QED BY Zenon, <1>1, <1>2, <1>3 DEF ThrottleInv

(* The sweep of a process's memory and of the table.                       *)
LEMMA PruneStep ==
    ASSUME ThrottleInv, NEW p \in Processes, prune(p)
    PROVE  ThrottleInv'
<1>a. now \in Nat /\ local \in [Processes -> Buckets] /\ table \in Buckets
  BY Zenon DEF ThrottleInv, BucketOK
<1>0. /\ now \in Nat /\ local \in [Processes -> Buckets] /\ NoBucket \in Buckets
      /\ table.expires \in Nat /\ local[p].expires \in Nat
  BY Zenon, <1>a DEF NoBucket, Buckets
<1>1. BucketOK(Shared, table')
  <2>1. BucketOK(Shared, table)
    BY Zenon DEF ThrottleInv
  <2>2. CASE table.expires < now
    BY <1>0, <2>1, <2>2, Forgotten DEF prune
  <2>3. CASE ~(table.expires < now)
    BY Zenon, <2>1, <2>3 DEF prune
  <2> QED BY Zenon, <2>2, <2>3
<1>2. local' \in [Processes -> Buckets] /\ \A q \in Processes : q # p => local'[q] = local[q]
  BY Zenon, <1>0 DEF prune
<1>3. BucketOK(Own(p), local'[p])
  <2>1. BucketOK(Own(p), local[p])
    BY Zenon DEF ThrottleInv
  <2>2. CASE local[p].expires > now
    BY Zenon, <1>0, <2>1, <2>2 DEF prune
  <2>3. CASE ~(local[p].expires > now)
    BY <1>0, <2>1, <2>3, Forgotten DEF prune
  <2> QED BY Zenon, <2>2, <2>3
<1>4. \A q \in Processes : BucketOK(Own(q), local'[q])
  BY Zenon, <1>2, <1>3 DEF ThrottleInv
<1>5. LockoutOK' /\ UNCHANGED <<now, admitted, restarts>>
  BY Zenon DEF prune, ThrottleInv, LockoutOK, FailuresLock
<1> QED BY Zenon, <1>1, <1>2, <1>4, <1>5, BucketsStep
(* A process that restarts counts anew, under a new name.                  *)
LEMMA RestartStep ==
    ASSUME ThrottleInv, NEW p \in Processes, restart(p)
    PROVE  ThrottleInv'
<1>0. /\ now \in Nat /\ local \in [Processes -> Buckets] /\ restarts \in [Processes -> Nat]
      /\ UNCHANGED <<now, table, admitted, lockout>>
      /\ \A x \in admitted : x[1] \in Counters /\ (x[1][1] # "table" => x[1][2] <= restarts[x[1][1]])
  BY Zenon DEF ThrottleInv, restart
<1>1. /\ local' = [local EXCEPT ![p] = NoBucket] /\ restarts' = [restarts EXCEPT ![p] = @ + 1]
      /\ NoBucket \in Buckets
  BY Zenon DEF restart, NoBucket, Buckets
<1>2. /\ local' \in [Processes -> Buckets] /\ restarts' \in [Processes -> Nat]
      /\ local'[p] = NoBucket /\ restarts'[p] = restarts[p] + 1
      /\ \A q \in Processes : restarts'[q] >= restarts[q] /\ (q # p => local'[q] = local[q] /\ Own(q)' = Own(q))
  BY <1>0, <1>1 DEF Own
<1>3. \A x \in admitted' : x[1][1] # "table" => x[1][2] <= restarts'[x[1][1]]
  BY <1>0, <1>2 DEF Counters
<1>4. BucketOK(Shared, table)'
  <2>1. PICK c \in Counters : c = Shared
    BY Zenon, <1>0, CountersApart
  <2>2. PICK t : t = table
    BY Zenon
  <2>3. BucketOK(c, t)'
    BY Zenon, <1>0, <2>1, <2>2, NothingMore DEF ThrottleInv
  <2> QED BY Zenon, <1>0, <2>1, <2>2, <2>3 DEF BucketOK, Windows, Began, Shared
<1>5. ASSUME NEW q \in Processes PROVE BucketOK(Own(q), local[q])'
  <2>1. CASE q # p
    <3>1. PICK c \in Counters : c = Own(q)
      BY Zenon, <1>0, CountersApart
    <3>2. PICK t : t = local[q]
      BY Zenon
    <3>3. BucketOK(c, t)'
      BY Zenon, <1>0, <3>1, <3>2, NothingMore DEF ThrottleInv
    <3> QED BY <1>2, <2>1, <3>1, <3>2, <3>3 DEF BucketOK, Windows, Began
  <2>2. CASE q = p
    <3>1. PICK c : c = Own(p)'
      BY Zenon
    <3>2. c[1] = p /\ c[2] = restarts[p] + 1 /\ p # "table"
      BY Zenon, <1>2, <3>1, ThrottleAssumption DEF Own
    <3>3. \A x \in admitted' : x[1] # c
      BY <1>0, <3>2 DEF Counters
    <3>4. BucketOK(c, NoBucket)'
      BY <1>0, <1>1, <3>3 DEF BucketOK, Windows, Began
    <3> QED BY Zenon, <1>2, <2>2, <3>1, <3>4 DEF BucketOK, Windows, Began
  <2> QED BY Zenon, <2>1, <2>2
<1>6. ASSUME NEW c \in {x[1] : x \in admitted} PROVE \E s \in 0 .. now : Windows(c, s)'
  <2>1. PICK s \in 0 .. now : Windows(c, s)
    BY Zenon DEF ThrottleInv
  <2> QED BY Zenon, <1>0, <2>1, NothingMore
<1>7. LockoutOK'
  BY Zenon, <1>0 DEF ThrottleInv, LockoutOK, FailuresLock
<1> QED BY Zenon, <1>0, <1>2, <1>3, <1>4, <1>5, <1>6, <1>7 DEF ThrottleInv

(* Time passes, and what is no longer recent is left out.                  *)
LEMMA TickStep ==
    ASSUME ThrottleInv, tick
    PROVE  ThrottleInv'
<1>0. /\ now \in Nat /\ now' = now + 1 /\ admitted' \subseteq admitted /\ LimitWindow \in Nat
      /\ admitted \subseteq Counters \X Nat \X (1 .. Limit)
      /\ \A x \in admitted' : x[2] > now' - LimitWindow
      /\ UNCHANGED <<table, local, lockout, restarts>>
  BY Zenon, ThrottleAssumption DEF ThrottleInv, tick
<1>1. \A x \in admitted' : x[2] \in Nat /\ x[2] <= now /\ x[2] <= now'
  BY <1>0 DEF ThrottleInv
<1>2. ASSUME NEW d, NEW s, Windows(d, s) PROVE Windows(d, s)'
  BY <1>0, <1>2, Zenon DEF Windows
<1>3. ASSUME NEW d, NEW b, BucketOK(d, b) PROVE BucketOK(d, b)'
  <2>0. Began(b) \in 0 .. now
    BY Zenon, <1>3 DEF BucketOK
  <2>1. CASE b = NoBucket
    <3>1. \A x \in admitted' : x[1] = d => x[2] < now /\ x[2] < now'
      BY <1>0, <1>1, <1>3, <2>1 DEF BucketOK
    <3>2. Windows(d, now)'
      <4>1. Windows(d, now)
        BY Zenon, <1>3, <2>1 DEF BucketOK, Began
      <4>2. PICK n : n = now
        BY Zenon
      <4>3. /\ \A x, y \in admitted' : x[1] = d /\ y[1] = d /\ x[3] = y[3] /\ (x[2] < n <=> y[2] < n) => x = y
            /\ \A x \in admitted' : x[1] = d /\ x[2] < n => x[3] # 1
        BY <1>2, <4>1, <4>2 DEF Windows
      <4> QED BY Zenon, <3>1, <4>2, <4>3 DEF Windows
    <3> QED BY <1>0, <1>3, <2>1, <3>1, <3>2 DEF BucketOK, Began
  <2>2. CASE b # NoBucket
    <3>1. Began(b)' = Began(b)
      BY Zenon, <2>2 DEF Began
    <3>2. PICK s : s = Began(b)
      BY Zenon
    <3>3. Windows(d, s)'
      BY Zenon, <1>2, <1>3, <3>2 DEF BucketOK
    <3>4. Windows(d, Began(b))'
      BY Zenon, <3>1, <3>2, <3>3 DEF Windows
    <3> QED BY <1>0, <1>3, <2>0, <2>2, <3>1, <3>4 DEF BucketOK
  <2> QED BY Zenon, <2>1, <2>2
<1>4. BucketOK(Shared, table)'
  <2>1. PICK c, t : c = Shared /\ t = table
    BY Zenon
  <2>2. BucketOK(c, t)'
    BY Zenon, <1>3, <2>1 DEF ThrottleInv
  <2> QED BY Zenon, <1>0, <2>1, <2>2 DEF BucketOK, Windows, Began, Shared
<1>5. ASSUME NEW q \in Processes PROVE BucketOK(Own(q), local[q])'
  <2>1. PICK c, t : c = Own(q) /\ t = local[q]
    BY Zenon
  <2>2. BucketOK(c, t)'
    BY Zenon, <1>3, <2>1 DEF ThrottleInv
  <2>3. Own(q)' = c /\ local'[q] = t
    BY Zenon, <1>0, <2>1 DEF Own
  <2> QED BY Zenon, <2>2, <2>3 DEF BucketOK, Windows, Began
<1>6. ASSUME NEW c \in {x[1] : x \in admitted'} PROVE \E s \in 0 .. now' : Windows(c, s)'
  <2>1. PICK s \in 0 .. now : Windows(c, s)
    BY Zenon, <1>0 DEF ThrottleInv
  <2>2. s \in 0 .. now'
    BY <1>0
  <2> QED BY Zenon, <1>2, <2>1, <2>2
<1>7. LockoutOK'
  <2>1. lockout.count \in Nat /\ lockout.until \in Nat /\ lockout.updated \in Nat
    BY Zenon DEF ThrottleInv, LockoutOK, LockRows
  <2>2. Shift(lockout.count) \in Nat
    BY Zenon, <2>1, ShiftGrows
  <2>3. Shift(lockout.count)' = Shift(lockout.count)
    BY Zenon, <1>0
  <2> QED BY <1>0, <2>1, <2>2, <2>3 DEF ThrottleInv, LockoutOK, FailuresLock
<1> QED BY <1>0, <1>1, <1>4, <1>5, <1>6, <1>7 DEF ThrottleInv
(* The row of an account that has not failed is in order.                  *)
LEMMA NoRowOK ==
    /\ NoRow \in LockRows /\ NoRow.failed = 0 /\ NoRow.until = 0 /\ NoRow.updated = 0
    /\ Shift(NoRow.count) \in Nat /\ Power(MaxShift) \in Nat
<1>1. NoRow \in LockRows /\ NoRow.failed = 0 /\ NoRow.until = 0 /\ NoRow.updated = 0 /\ NoRow.count = 0
  BY Zenon DEF NoRow, LockRows
<1> QED BY Zenon, <1>1, ShiftGrows

(* A failure counted, the first, in the window or after it: the lock it    *)
(* sets ends no earlier than the one before (record_auth_failure).         *)
LEMMA FailureIs ==
    ASSUME ThrottleInv, NEW p \in Processes, record_auth_failure(p)
    PROVE  LockoutOK' /\ lockout'.until >= lockout.until
<1>0. /\ now \in Nat /\ now' = now /\ LockAt \in Nat \ {0, 1} /\ lockout \in LockRows /\ FailuresLock
      /\ lockout.updated <= now /\ lockout.until <= now + Shift(lockout.count)
  BY Zenon, ThrottleAssumption DEF ThrottleInv, LockoutOK, record_auth_failure
<1>1. /\ lockout.failed \in Nat /\ lockout.started \in Nat /\ lockout.count \in Nat /\ lockout.until \in Nat
      /\ lockout.updated \in Nat
  BY Zenon, <1>0 DEF LockRows
<1>2. PICK k, l, m \in Nat : /\ k = Shift(lockout.count) /\ l = Shift(lockout.count + 1) /\ m = Power(MaxShift)
                            /\ k >= 1 /\ k <= l /\ k <= m
  <2>1. lockout.count + 1 \in Nat
    BY <1>1
  <2> QED BY Zenon, <1>1, <2>1, ShiftGrows
<1>3. CASE lockout = NoRow
  <2>1. lockout' = [failed |-> 1, started |-> now, count |-> 0, until |-> 0, updated |-> now]
    BY Zenon, <1>3 DEF record_auth_failure
  <2>2. /\ lockout' \in LockRows /\ lockout'.failed = 1 /\ lockout'.until = 0 /\ lockout'.updated = now
        /\ lockout'.count = 0
    BY Zenon, <1>0, <2>1 DEF LockRows
  <2>3. lockout.until = 0 /\ lockout.count = 0
    BY Zenon, <1>3 DEF NoRow
  <2>4. Shift(lockout'.count) = k
    BY Zenon, <1>2, <2>2, <2>3
  <2> QED BY <1>0, <1>2, <2>2, <2>3, <2>4 DEF LockoutOK, FailuresLock
<1>4. CASE lockout # NoRow
  <2>0. lockout' = failed_row
    BY Zenon, <1>4 DEF record_auth_failure
  <2>1. /\ lockout'.failed = (IF OverWindow THEN 1 ELSE lockout.failed + 1)
        /\ lockout'.started = (IF OverWindow THEN now ELSE lockout.started)
        /\ lockout'.count = (IF Locks THEN lockout.count + 1 ELSE lockout.count)
        /\ lockout'.until = (IF Locks THEN now + k ELSE lockout.until)
        /\ lockout'.updated = now
    BY Zenon, <1>2, <2>0 DEF failed_row
  <2>2. lockout' \in LockRows
    <3>1. PICK f \in Nat : f = (IF OverWindow THEN 1 ELSE lockout.failed + 1)
      BY <1>1
    <3>2. PICK st \in Nat : st = (IF OverWindow THEN now ELSE lockout.started)
      BY Zenon, <1>0, <1>1
    <3>3. PICK c \in Nat : c = (IF Locks THEN lockout.count + 1 ELSE lockout.count)
      BY <1>1
    <3>4. PICK u \in Nat : u = (IF Locks THEN now + Shift(lockout.count) ELSE lockout.until)
      BY <1>0, <1>1, <1>2
    <3>5. lockout' = [failed |-> f, started |-> st, count |-> c, until |-> u, updated |-> now]
      BY <2>0, <3>1, <3>2, <3>3, <3>4, Zenon DEF failed_row
    <3> QED BY Zenon, <1>0, <3>5 DEF LockRows
  <2>3. CASE Locks
    <3>1. lockout'.count = lockout.count + 1 /\ lockout'.until = now + k
      BY Zenon, <2>1, <2>3
    <3>2. Shift(lockout'.count) = l
      BY Zenon, <1>2, <3>1
    <3>3. lockout'.until > lockout'.updated /\ lockout'.until <= lockout'.updated + m
      BY <1>0, <1>2, <2>1, <3>1
    <3>4. lockout'.until <= now + l /\ lockout'.until >= lockout.until
      BY <1>0, <1>1, <1>2, <3>1
    <3> QED BY <1>0, <1>2, <2>1, <2>2, <3>2, <3>3, <3>4 DEF LockoutOK, FailuresLock
  <2>4. CASE ~Locks
    <3>1. lockout'.count = lockout.count /\ lockout'.until = lockout.until /\ lockout.failed + 1 < LockAt
      BY <1>0, <1>1, <2>1, <2>4 DEF Locks
    <3>2. lockout'.failed < LockAt
      BY <1>0, <1>1, <2>1, <3>1
    <3>3. lockout'.until <= lockout'.updated + m
      BY <1>0, <1>1, <1>2, <2>1, <3>1 DEF FailuresLock
    <3>4. Shift(lockout'.count) = k
      BY Zenon, <1>2, <3>1
    <3>5. lockout'.failed \in Nat
      BY Zenon, <2>2 DEF LockRows
    <3> QED BY <1>0, <1>1, <1>2, <2>1, <2>2, <3>1, <3>2, <3>3, <3>4, <3>5 DEF LockoutOK, FailuresLock
  <2> QED BY Zenon, <2>3, <2>4
<1> QED BY Zenon, <1>3, <1>4

(* However processes, sweeps, restarts and the database's failures         *)
(* interleave, a counter lets no more than two windows' worth of attempts  *)
(* pass, enough failures lock the account, and nothing but a successful    *)
(* login shortens a lock (RateLimiter::check, record_auth_failure).        *)
THEOREM GuessesBounded == ThrottleSpec => LoginsThrottled
<1>1. ThrottleInit => ThrottleInv
  <2> SUFFICES ASSUME ThrottleInit PROVE ThrottleInv
    BY Zenon
  <2>1. /\ now = 1 /\ admitted = {} /\ table = NoBucket /\ local = [p \in Processes |-> NoBucket]
        /\ lockout = NoRow /\ restarts = [p \in Processes |-> 0]
    BY Zenon DEF ThrottleInit
  <2>2. \A c : BucketOK(c, NoBucket)
    BY <2>1 DEF BucketOK, Began, Windows, Buckets, NoBucket
  <2>3. LockoutOK
    BY <2>1, NoRowOK, ThrottleAssumption DEF LockoutOK, FailuresLock
  <2>4. NoBucket \in Buckets
    BY Zenon DEF NoBucket, Buckets
  <2> QED BY Zenon, <2>1, <2>2, <2>3, <2>4 DEF ThrottleInv
<1>2. ThrottleInv /\ [ThrottleNext]_throttlevars => ThrottleInv' /\ (lockout' = lockout \/ LockNeverShortens)
  <2> SUFFICES ASSUME ThrottleInv, [ThrottleNext]_throttlevars
               PROVE  ThrottleInv' /\ (lockout' = lockout \/ LockNeverShortens)
    BY Zenon
  <2>0. /\ local \in [Processes -> Buckets] /\ BucketOK(Shared, table) /\ LockoutOK
        /\ \A p \in Processes : BucketOK(Own(p), local[p])
    BY Zenon DEF ThrottleInv
  <2>1. CASE UNCHANGED throttlevars
    <3>1. UNCHANGED <<now, admitted, restarts, local, table, lockout>>
      BY Zenon, <2>1 DEF throttlevars
    <3>2. LockoutOK'
      BY Zenon, <2>0, <3>1 DEF LockoutOK, FailuresLock
    <3> QED BY Zenon, <2>0, <3>1, <3>2, BucketsStep
  <2>2. ASSUME NEW p \in Processes, auth_locked_until(p) PROVE ThrottleInv' /\ lockout' = lockout
    <3>1. UNCHANGED <<now, admitted, restarts, local, table, lockout>>
      BY Zenon, <2>2 DEF auth_locked_until
    <3>2. LockoutOK'
      BY Zenon, <2>0, <3>1 DEF LockoutOK, FailuresLock
    <3> QED BY Zenon, <2>0, <3>1, <3>2, BucketsStep
  <2>3. ASSUME NEW p \in Processes, record_auth_failure(p) PROVE ThrottleInv' /\ LockNeverShortens
    <3>1. UNCHANGED <<now, admitted, restarts, local, table>>
      BY Zenon, <2>3 DEF record_auth_failure
    <3>2. LockoutOK' /\ LockNeverShortens
      BY Zenon, <2>3, FailureIs DEF LockNeverShortens
    <3> QED BY Zenon, <2>0, <3>1, <3>2, BucketsStep
  <2>4. ASSUME NEW p \in Processes, reset_auth_failures(p) PROVE ThrottleInv' /\ LockNeverShortens
    <3>1. UNCHANGED <<now, admitted, restarts, local, table>> /\ lockout' = NoRow /\ now' \in Nat
      BY Zenon, <2>4 DEF reset_auth_failures, ThrottleInv
    <3>2. LockoutOK'
      BY <3>1, NoRowOK, ThrottleAssumption DEF LockoutOK, FailuresLock
    <3>3. LockNeverShortens
      BY Zenon, <3>1 DEF LockNeverShortens
    <3> QED BY Zenon, <2>0, <3>1, <3>2, <3>3, BucketsStep
  <2>5. ASSUME NEW p \in Processes, check_shared(p) \/ check_fallback(p) \/ prune(p) \/ restart(p)
        PROVE  ThrottleInv' /\ lockout' = lockout
    <3>1. lockout' = lockout
      BY Zenon, <2>5 DEF check_shared, check_fallback, prune, restart
    <3> QED BY Zenon, <2>5, <3>1, SharedStep, FallbackStep, PruneStep, RestartStep
  <2>6. CASE tick
    BY Zenon, <2>6, TickStep DEF tick
  <2> QED BY Zenon, <2>1, <2>2, <2>3, <2>4, <2>5, <2>6 DEF ThrottleNext
<1>3. ThrottleInv => Throttled /\ FailuresLock
  <2> SUFFICES ASSUME ThrottleInv PROVE Throttled /\ FailuresLock
    BY Zenon
  <2>1. ASSUME NEW c \in {x[1] : x \in admitted} PROVE Cardinality({x \in admitted : x[1] = c}) <= 2 * Limit - 1
    <3>1. PICK s \in 0 .. now : Windows(c, s)
      BY Zenon DEF ThrottleInv
    <3>2. s \in Int
      OBVIOUS
    <3> QED BY Zenon, <3>1, <3>2, WindowsBound
  <2>2. Throttled
    BY <2>1, Zenon DEF Throttled
  <2> QED BY Zenon, <2>2 DEF ThrottleInv, LockoutOK
<1>4. ThrottleInv /\ ThrottleInv' /\ [ThrottleNext]_throttlevars =>
         [Throttled' /\ FailuresLock' /\ LockNeverShortens]_throttlevars
  <2> SUFFICES ASSUME ThrottleInv, ThrottleInv', [ThrottleNext]_throttlevars
               PROVE  Throttled' /\ FailuresLock' /\ LockNeverShortens
    BY Zenon
  <2>1. Throttled' /\ FailuresLock'
    BY <1>3, PTL
  <2>2. lockout' = lockout \/ LockNeverShortens
    BY Zenon, <1>2
  <2>3. lockout.until \in Nat
    BY Zenon DEF ThrottleInv, LockoutOK, LockRows
  <2>4. LockNeverShortens
    BY <2>2, <2>3 DEF LockNeverShortens
  <2> QED BY Zenon, <2>1, <2>4
<1> QED BY <1>1, <1>2, <1>4, PTL DEF ThrottleSpec, LoginsThrottled
=============================================================================
