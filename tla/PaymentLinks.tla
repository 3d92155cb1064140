---------------------------- MODULE PaymentLinks ----------------------------
(***************************************************************************)
(* One payment link: the owner's routes and the public pay page            *)
(* (api/src/routes/payment_links.rs), its rows (store/src/payment_links.rs)*)
(* and the matching of deposits to payment intents                         *)
(* (Ingestor::confirm_payment_link and the supervisor's expiry sweep in    *)
(* ingest/src/lib.rs).                                                     *)
(*                                                                         *)
(* A payer's request reads the link, then inserts an intent; a deposit's   *)
(* match reads the intent and the link, then updates the intent.  Each     *)
(* statement is atomic, anything may happen between two of them, and each  *)
(* task may die between them.  Ingest hands every deposit to a match at    *)
(* most once (module Ingest, NotifiedAtMostOnce).                          *)
(*                                                                         *)
(* Time is what it decides: past, once the link's deadline has gone by, and*)
(* old, the pending intents that are over an hour old.  The clocks of the  *)
(* servers and of the database agree.                                      *)
(***************************************************************************)
EXTENDS Integers, Sequences, FiniteSets

CONSTANTS
    Intents,        \* payment_link_payments rows; each also names its own deposit address
    LinkAddress,    \* the link's own deposit address
    Deposits,       \* transactions rows that ingest may record
    Transfer,       \* each deposit's address, amount and whether it is in USDC
    Amounts,        \* amounts in USDC stroops
    Flexible,       \* a NULL link amount: the payer chooses
    NoIntent,
    NoDeposit

ASSUME PaymentLinksAssumption ==
    /\ LinkAddress \notin Intents /\ NoIntent \notin Intents /\ NoDeposit \notin Deposits
    /\ Amounts \subseteq Nat \ {0} /\ Flexible \notin Nat
    /\ Transfer \in [Deposits -> [address : Intents \cup {LinkAddress}, amount : Amounts,
                                  usdc : BOOLEAN]]
    /\ IsFiniteSet(Intents)

VARIABLES
    active,     \* payment_links.active
    cancelled,  \* payment_links.cancelled_at is set
    past,       \* payment_links.expires_at has gone by
    amount,     \* payment_links.amount_usdc_stroops
    status,     \* of each intent; "none" before its request, "quoted" before its insert
    price,      \* payment_link_payments.amount_usdc_stroops
    made,       \* payment_link_payments.created_at, as the rank of the insert
    old,        \* pending intents whose created_at is more than an hour ago
    paidBy,     \* payment_link_payments.transaction_id
    events,     \* webhook events the calls that changed the intent go on to dispatch
    match       \* the task matching each deposit

link == <<active, cancelled, past, amount>>
intent == <<status, price, made, old, paidBy, events>>
vars == <<link, intent, match>>

\* at: the link's state at transactions.created_at; seen: cancelled_at as the task
\* read it.
NoMatch == [pc |-> "none", at |-> "open", intent |-> NoIntent, seen |-> FALSE]

\* create_link: an active link with an optional amount and an optional deadline.
Init ==
    /\ active = TRUE
    /\ cancelled = FALSE
    /\ past = FALSE
    /\ amount \in Amounts \cup {Flexible}
    /\ status = [i \in Intents |-> "none"]
    /\ price = [i \in Intents |-> 0]
    /\ made = [i \in Intents |-> 0]
    /\ old = {}
    /\ paidBy = [i \in Intents |-> NoDeposit]
    /\ events = [i \in Intents |-> << >>]
    /\ match = [d \in Deposits |-> NoMatch]

Settled == {"confirmed", "underpaid", "overpaid"}
Closed == {"expired", "cancelled"}

status_at ==
    IF cancelled THEN "cancelled"
    ELSE IF past THEN "expired"
    ELSE IF active THEN "active"
    ELSE "inactive"

Pending == {i \in Intents : status[i] = "pending"}

\* The call that changed the intents of S dispatches event e for each of them.
Flip(S, s, e) ==
    /\ status' = [i \in Intents |-> IF i \in S THEN s ELSE status[i]]
    /\ events' = [i \in Intents |-> IF i \in S THEN Append(events[i], e) ELSE events[i]]
    /\ old' = old \ S

(***************************************************************************)
(* The owner's routes.                                                     *)
(***************************************************************************)
set_payment_link_active(b) ==
    /\ cancelled => ~b
    /\ active' = b
    /\ UNCHANGED <<cancelled, past, amount, intent, match>>

\* Variant: intents that expired are cancelled too.
cancel_every_unpaid ==
    /\ cancelled' = TRUE
    /\ active' = FALSE
    /\ Flip({i \in Intents : status[i] \in {"pending", "expired"}}, "cancelled", "cancelled")
    /\ UNCHANGED <<past, amount, price, made, paidBy, match>>

\* The link and its pending intents change in one database transaction.
cancel_payment_link ==
    /\ cancelled' = TRUE
    /\ active' = FALSE
    /\ Flip(Pending, "cancelled", "cancelled")
    /\ UNCHANGED <<past, amount, price, made, paidBy, match>>

\* The amount may change while no intent is pending or settled.
update_payment_link(a) ==
    /\ \A i \in Intents : status[i] \notin {"pending"} \cup Settled
    /\ amount' = a
    /\ UNCHANGED <<active, cancelled, past, intent, match>>

(***************************************************************************)
(* create_payment_intent: the link is read, an address allocated, the      *)
(* intent inserted.                                                        *)
(***************************************************************************)

Quote(i, a) ==
    /\ status[i] = "none"
    /\ status_at = "active"
    /\ amount # Flexible => a = amount
    /\ status' = [status EXCEPT ![i] = "quoted"]
    /\ price' = [price EXCEPT ![i] = a]
    /\ UNCHANGED <<link, made, old, paidBy, events, match>>

record_payment_link_intent(i) ==
    /\ status[i] = "quoted"
    /\ status' = [status EXCEPT ![i] = "pending"]
    /\ made' = [made EXCEPT ![i] = Cardinality({j \in Intents : made[j] > 0}) + 1]
    /\ UNCHANGED <<link, price, old, paidBy, events, match>>

(***************************************************************************)
(* confirm_payment_link, run for a deposit that has just been recorded.    *)
(***************************************************************************)
Become(d, x) == match' = [match EXCEPT ![d] = x]

Step(x, p, i, b) == [pc |-> p, at |-> x.at, intent |-> i, seen |-> b]

\* The row of a matched deposit goes on to matter; an unmatched one does not.
Unmatched == [pc |-> "done", at |-> "open", intent |-> NoIntent, seen |-> FALSE]
Matched(x) == [pc |-> "done", at |-> x.at, intent |-> NoIntent, seen |-> FALSE]

\* A deposit lands on one of the link's addresses and is recorded.  It may come from
\* anywhere: submit_payment is one way to send it.  Other assets are not matched.
record_deposit(d) ==
    /\ match[d].pc = "none" /\ Transfer[d].usdc
    /\ Become(d, [pc |-> "exact", at |-> IF status_at \in Closed THEN status_at ELSE "open",
                  intent |-> NoIntent, seen |-> FALSE])
    /\ UNCHANGED <<link, intent>>

\* The pending intent that owns the address, else the link that does.
pending_payment_by_address(d) ==
    LET x == match[d]
        a == Transfer[d].address
    IN  /\ x.pc = "exact"
        /\ Become(d, IF a \in Pending THEN Step(x, "link", a, FALSE)
                     ELSE IF a = LinkAddress THEN Step(x, "shared", NoIntent, FALSE)
                     ELSE Unmatched)
        /\ UNCHANGED <<link, intent>>

get_payment_link(d) ==
    /\ match[d].pc = "link"
    /\ Become(d, Step(match[d], "settle", match[d].intent, cancelled))
    /\ UNCHANGED <<link, intent>>

get_payment_link_by_address(d) ==
    /\ match[d].pc = "shared"
    /\ Become(d, Step(match[d], "oldest", NoIntent, cancelled))
    /\ UNCHANGED <<link, intent>>

oldest_pending_payment(d) ==
    /\ match[d].pc = "oldest"
    /\ \E i \in Pending :
          /\ \A j \in Pending : made[i] <= made[j]
          /\ Become(d, Step(match[d], "settle", i, match[d].seen))
    /\ UNCHANGED <<link, intent>>

\* Variant: a deposit above the price confirms.
VerdictAtLeast(m, p) == IF m < p THEN "underpaid" ELSE "confirmed"

Verdict(m, p) == IF m = p THEN "confirmed" ELSE IF m < p THEN "underpaid" ELSE "overpaid"

EventOf(s) == IF s = "confirmed" THEN "paid" ELSE "mismatched"

\* is_closed_at(tx.created_at), on the link as it was read.
Late(x) == x.seen \/ x.at = "expired"

\* confirm_payment_link_payment or mark_payment_link_payment_mismatched.
Settle(d) ==
    LET x == match[d]
        s == Verdict(Transfer[d].amount, price[x.intent])
    IN  /\ x.pc = "settle"
        /\ ~Late(x) /\ x.intent \in Pending
        /\ Flip({x.intent}, s, EventOf(s))
        /\ paidBy' = [paidBy EXCEPT ![x.intent] = d]
        /\ Become(d, Matched(x))
        /\ UNCHANGED <<link, price, made>>

\* The deposit is late, no intent is pending, another call changed the intent first,
\* a store call failed, or the task died: the deposit stays unmatched.
GiveUp(d) ==
    /\ match[d].pc \notin {"none", "done"}
    /\ Become(d, Unmatched)
    /\ UNCHANGED <<link, intent>>

Match(d) ==
    \/ record_deposit(d)
    \/ pending_payment_by_address(d)
    \/ get_payment_link(d)
    \/ get_payment_link_by_address(d)
    \/ oldest_pending_payment(d)
    \/ Settle(d)
    \/ GiveUp(d)

(***************************************************************************)
(* Time.                                                                   *)
(***************************************************************************)
\* Variant: only the link's deadline is looked at.
expire_by_deadline ==
    /\ Flip({i \in Pending : past}, "expired", "expired")
    /\ UNCHANGED <<link, price, made, paidBy, match>>

expire_stale_payment_link_payments ==
    /\ Flip({i \in Pending : i \in old \/ past}, "expired", "expired")
    /\ UNCHANGED <<link, price, made, paidBy, match>>

Deadline ==
    /\ ~past
    /\ past' = TRUE
    /\ UNCHANGED <<active, cancelled, amount, intent, match>>

GrowOld(i) ==
    /\ i \in Pending \ old
    /\ old' = old \cup {i}
    /\ UNCHANGED <<link, status, price, made, paidBy, events, match>>

Next ==
    \/ \E b \in BOOLEAN : set_payment_link_active(b)
    \/ cancel_payment_link
    \/ \E a \in Amounts \cup {Flexible} : update_payment_link(a)
    \/ \E i \in Intents : \/ \E a \in Amounts : Quote(i, a)
                          \/ record_payment_link_intent(i)
                          \/ GrowOld(i)
    \/ \E d \in Deposits : Match(d)
    \/ expire_stale_payment_link_payments
    \/ Deadline

Spec == Init /\ [][Next]_vars

\* Time passes, and the supervisor sweeps on every tick of the leader.
FairSpec ==
    /\ Spec
    /\ \A i \in Intents : WF_vars(GrowOld(i))
    /\ WF_vars(expire_stale_payment_link_payments)

-----------------------------------------------------------------------------
(***************************************************************************)
(* Properties.                                                             *)
(***************************************************************************)
Statuses == {"none", "quoted", "pending"} \cup Settled \cup Closed
Events == {"paid", "mismatched", "expired", "cancelled"}

Tasks == [pc : {"none", "exact", "link", "shared", "oldest", "settle", "done"},
          at : {"open"} \cup Closed, intent : Intents \cup {NoIntent}, seen : BOOLEAN]

TypeOK ==
    /\ active \in BOOLEAN /\ cancelled \in BOOLEAN /\ past \in BOOLEAN
    /\ amount \in Amounts \cup {Flexible}
    /\ status \in [Intents -> Statuses]
    /\ price \in [Intents -> Nat]
    /\ made \in [Intents -> Nat]
    /\ old \in SUBSET Intents
    /\ paidBy \in [Intents -> Deposits \cup {NoDeposit}]
    /\ events \in [Intents -> Seq(Events)]
    /\ match \in [Deposits -> Tasks]

\* The event that announces each final status.
Announces(s) == IF s \in Settled THEN EventOf(s) ELSE s

\* A match, a cancellation and the expiry sweep race for a pending intent: exactly
\* one of them decides it and announces it, with the event of the status it has.
OneVerdict ==
    \A i \in Intents :
        events[i] = IF status[i] \in Settled \cup Closed THEN <<Announces(status[i])>>
                    ELSE << >>

\* A settled intent names a USDC deposit that landed on its own or the link's address
\* while the link was open, and that is equal to, below or above the price the payer
\* was quoted as the status says.
SettledByItsDeposit ==
    \A i \in Intents : status[i] \in Settled =>
        /\ paidBy[i] \in Deposits
        /\ match[paidBy[i]].at = "open"
        /\ LET x == Transfer[paidBy[i]] IN
              /\ x.usdc
              /\ x.address \in {i, LinkAddress}
              /\ status[i] = "confirmed" => x.amount = price[i]
              /\ status[i] = "underpaid" => x.amount < price[i]
              /\ status[i] = "overpaid" => x.amount > price[i]

\* No deposit settles two intents, so what sum_payment_link_collected adds up arrived.
DepositSettlesOne ==
    \A i, j \in Intents : paidBy[i] = paidBy[j] /\ paidBy[i] # NoDeposit => i = j

\* What was decided about an intent is never changed: no late or second deposit, no
\* second cancellation and no sweep resurrects or re-labels it.
VerdictIsFinal ==
    [][\A i \in Intents : status[i] \in Settled \cup Closed =>
          status'[i] = status[i] /\ paidBy'[i] = paidBy[i]]_vars

\* No intent stays pending for ever, also one inserted after its link was cancelled,
\* which the cancellation did not see.
PendingEnds == \A i \in Intents : status[i] = "pending" ~> status[i] # "pending"

\* An intent comes to an end, once: by its deposit, a cancellation or the expiry sweep,
\* whichever is first.
IntentsEnd == VerdictIsFinal /\ PendingEnds

(***************************************************************************)
(* The inductive invariant behind the safety properties.                   *)
(***************************************************************************)
\* Task x of deposit d has not been used before it is done, holds an intent its
\* deposit may pay, and knows of a cancellation that preceded the deposit.
TaskOK(d, x) ==
    /\ x.pc # "none" => Transfer[d].usdc
    /\ x.pc # "done" => \A i \in Intents : paidBy[i] # d
    /\ x.pc \in {"link", "settle"} =>
          x.intent \in Intents /\ Transfer[d].address \in {x.intent, LinkAddress}
    /\ x.pc \in {"shared", "oldest"} => Transfer[d].address = LinkAddress
    /\ x.at = "cancelled" => cancelled
    /\ x.pc \in {"oldest", "settle"} /\ x.at = "cancelled" => x.seen

IInv ==
    /\ TypeOK /\ OneVerdict /\ SettledByItsDeposit /\ DepositSettlesOne
    /\ \A d \in Deposits : TaskOK(d, match[d])
=============================================================================
