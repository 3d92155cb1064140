------------------------------ MODULE Webhooks ------------------------------
(***************************************************************************)
(* Outbound webhooks of one wallet: the sender (crates/webhooks), its      *)
(* endpoints and delivery log (store/src/webhooks.rs) and the owner's      *)
(* routes (api/src/routes/webhooks.rs).                                    *)
(*                                                                         *)
(* A task is one call of dispatch, send_ping or redeliver.  Tasks of the   *)
(* ingestor, of the routes and of other replicas run at once; a dispatch   *)
(* reads the active endpoints once and serves them one after another.  A   *)
(* task may die anywhere, and each write of the log or of the streak may   *)
(* fail, which the sender only logs.                                       *)
(*                                                                         *)
(* An endpoint answers an attempt with a 2xx ("ok"), with another final    *)
(* answer ("reject"), or with a 5xx, a refused connection, a per-request   *)
(* timeout or a destination that does not resolve to a public address      *)
(* ("error", which is retried); or it hangs until the overall deadline.    *)
(* The breaker of a delivery is fresh and never opens.                     *)
(***************************************************************************)
EXTENDS Integers, Sequences, FiniteSets

CONSTANTS
    Endpoints,
    Unsafe,       \* endpoints whose URL is_safe_url refuses now
    MaxTasks,     \* bound on the calls of the sender
    MaxOpen,      \* bound on the calls in progress at once
    Offered,      \* bound on the kinds of call each task may be
    MaxAttempts,  \* RetryPolicy::max_attempts
    Threshold,    \* OCTO_WEBHOOK_AUTO_DISABLE_AFTER; 0 when it is off
    NoEndpoint

ASSUME WebhooksAssumption ==
    /\ Unsafe \subseteq Endpoints /\ NoEndpoint \notin Endpoints
    /\ MaxAttempts \in Nat \ {0} /\ Threshold \in Nat
    /\ MaxTasks \in Nat /\ MaxOpen \in Nat

Senders == 1..MaxTasks

SendKinds == {"event", "ping", "redelivery"}

ASSUME OfferedAssumption == Offered \in [Senders -> SUBSET SendKinds]

VARIABLES
    status,     \* of each endpoint: active, deleted_at
    disabled,   \* endpoints whose auto_disabled_at is set
    streak,     \* consecutive_dead_deliveries
    outcomes,   \* the outcomes recorded for each endpoint, in the order of recording
    announced,  \* calls of record_webhook_endpoint_outcome that returned true
    sender,       \* each call of the sender
    log         \* endpoints with an event in webhook_deliveries

endpoint == <<status, disabled, streak, outcomes, announced>>
hookvars == <<endpoint, sender, log>>

\* todo: endpoints still to be served; for the endpoint ep that is being served:
\* attempt: attempts begun; posts: requests it has been sent; ok: it has answered one
\* with a 2xx; result: the status to log.
Call(p, k, S) == [pc |-> p, kind |-> k, todo |-> S, ep |-> NoEndpoint, attempt |-> 0,
                  posts |-> 0, ok |-> FALSE, result |-> "failed"]

At(x, p, r) == [pc |-> p, kind |-> x.kind, todo |-> x.todo, ep |-> x.ep,
                attempt |-> x.attempt, posts |-> x.posts, ok |-> x.ok, result |-> r]

HooksInit ==
    /\ status = [e \in Endpoints |-> IF e \in Unsafe THEN "active" ELSE "absent"]
    /\ disabled = {}
    /\ streak = [e \in Endpoints |-> 0]
    /\ outcomes = [e \in Endpoints |-> << >>]
    /\ announced = [e \in Endpoints |-> 0]
    /\ sender = [t \in Senders |-> Call("idle", "event", {})]
    /\ log = {}

Run(t, x) == sender' = [sender EXCEPT ![t] = x]

(***************************************************************************)
(* The owner's routes.                                                     *)
(***************************************************************************)
\* is_safe_url and targets_host have accepted the URL.
create_webhook(e) ==
    /\ status[e] = "absent" /\ e \notin Unsafe
    /\ status' = [status EXCEPT ![e] = "active"]
    /\ UNCHANGED <<disabled, streak, outcomes, announced, sender, log>>

delete_webhook(e) ==
    /\ status[e] # "absent"
    /\ status' = [status EXCEPT ![e] = "deleted"]
    /\ UNCHANGED <<disabled, streak, outcomes, announced, sender, log>>

(***************************************************************************)
(* The three ways into send.                                               *)
(***************************************************************************)
\* Tasks are numbered in the order in which they start.
Starts(t, k) ==
    /\ k \in Offered[t]
    /\ sender[t].pc = "idle"
    /\ \A u \in 1..(t - 1) : sender[u].pc # "idle"
    /\ Cardinality({u \in Senders : sender[u].pc \notin {"idle", "done"}}) < MaxOpen

active_webhook_endpoints == {e \in Endpoints : status[e] = "active"}

dispatch(t) ==
    /\ Starts(t, "event")
    /\ Run(t, Call("next", "event", active_webhook_endpoints))
    /\ UNCHANGED <<endpoint, log>>

owned_endpoint(e) == status[e] \in {"active", "inactive"}

test_webhook(t, e) ==
    /\ Starts(t, "ping")
    /\ owned_endpoint(e)
    /\ Run(t, Call("next", "ping", {e}))
    /\ UNCHANGED <<endpoint, log>>

redeliver_webhook(t, e) ==
    /\ Starts(t, "redelivery")
    /\ owned_endpoint(e) /\ status[e] = "active"
    /\ e \in log
    /\ Run(t, Call("next", "redelivery", {e}))
    /\ UNCHANGED <<endpoint, log>>

(***************************************************************************)
(* send and deliver_with_retry, for one endpoint after the other.          *)
(***************************************************************************)
\* An unsafe URL is logged as failed, without an attempt.
send(t, e) ==
    LET x == sender[t] IN
    /\ x.pc = "next" /\ e \in x.todo
    /\ Run(t, [pc |-> IF e \in Unsafe THEN "log" ELSE "attempt", kind |-> x.kind,
               todo |-> x.todo \ {e}, ep |-> e, attempt |-> 0, posts |-> 0, ok |-> FALSE,
               result |-> "failed"])
    /\ UNCHANGED <<endpoint, log>>

Return(t) ==
    /\ sender[t].pc = "next" /\ sender[t].todo = {}
    /\ Run(t, Call("done", "event", {}))
    /\ UNCHANGED <<endpoint, log>>

Attempts(kind) == IF kind = "ping" THEN 1 ELSE MaxAttempts

failed_status(kind) == IF kind = "ping" THEN "failed" ELSE "dead"

Attempted(x, p, n) == [pc |-> p, kind |-> x.kind, todo |-> x.todo, ep |-> x.ep,
                       attempt |-> x.attempt + 1, posts |-> x.posts + n, ok |-> x.ok,
                       result |-> failed_status(x.kind)]

\* Variant: an attempt is counted when it is answered.
AttemptUncounted(t) ==
    LET x == sender[t] IN
    /\ x.pc = "attempt"
    /\ Run(t, [Attempted(x, "wait", 1) EXCEPT !.attempt = x.attempt])
    /\ UNCHANGED <<endpoint, log>>

\* attempt_once, when is_safe_delivery_url accepts the destination.
Attempt(t) ==
    /\ sender[t].pc = "attempt"
    /\ Run(t, Attempted(sender[t], "wait", 1))
    /\ UNCHANGED <<endpoint, log>>

\* What the retry loop does after a transient outcome.
AfterError(x) == IF x.attempt < Attempts(x.kind) THEN "attempt" ELSE "log"

is_safe_delivery_url_refuses(t) ==
    LET x == sender[t]
        y == Attempted(x, "wait", 0)
    IN
    /\ x.pc = "attempt"
    /\ Run(t, At(y, AfterError(y), failed_status(x.kind)))
    /\ UNCHANGED <<endpoint, log>>

AnswerOk(t) ==
    LET x == sender[t] IN
    /\ x.pc = "wait"
    /\ Run(t, [pc |-> "body", kind |-> x.kind, todo |-> x.todo, ep |-> x.ep,
               attempt |-> x.attempt, posts |-> x.posts, ok |-> TRUE, result |-> x.result])
    /\ UNCHANGED <<endpoint, log>>

\* The bounded prefix of the body has been read, or reading it failed.
BodyRead(t) ==
    /\ sender[t].pc = "body"
    /\ Run(t, At(sender[t], "log", "delivered"))
    /\ UNCHANGED <<endpoint, log>>

AnswerReject(t) ==
    /\ sender[t].pc = "wait"
    /\ Run(t, At(sender[t], "log", sender[t].result))
    /\ UNCHANGED <<endpoint, log>>

AnswerError(t) ==
    /\ sender[t].pc = "wait"
    /\ Run(t, At(sender[t], AfterError(sender[t]), sender[t].result))
    /\ UNCHANGED <<endpoint, log>>

\* Variant: the deadline interrupts only the backoff.
DeadlineOfBackoff(t) ==
    /\ sender[t].pc = "attempt" /\ sender[t].attempt > 0
    /\ Run(t, At(sender[t], "log", failed_status(sender[t].kind)))
    /\ UNCHANGED <<endpoint, log>>

\* delivery_timeout, in an attempt or in the backoff before one.
Deadline(t) ==
    /\ sender[t].pc \in {"wait", "body"} \/ (sender[t].pc = "attempt" /\ sender[t].attempt > 0)
    /\ Run(t, At(sender[t], "log", failed_status(sender[t].kind)))
    /\ UNCHANGED <<endpoint, log>>

\* Only events count in the streak, and an unsafe URL does not get that far.
Counts(x) == x.kind # "ping" /\ x.ep \notin Unsafe

\* What send still needs once the delivery is logged.
Logged(x) ==
    IF ~Counts(x) THEN Call("next", x.kind, x.todo)
    ELSE [pc |-> "outcome", kind |-> x.kind, todo |-> x.todo, ep |-> x.ep, attempt |-> 0,
          posts |-> 0, ok |-> FALSE, result |-> x.result]

log_webhook_delivery(t) ==
    LET x == sender[t] IN
    /\ x.pc = "log"
    /\ \/ log' = IF x.kind = "ping" THEN log ELSE log \cup {x.ep}
       \/ UNCHANGED log
    /\ Run(t, Logged(x))
    /\ UNCHANGED endpoint

record_delivered(e) ==
    /\ streak' = [streak EXCEPT ![e] = 0]
    /\ UNCHANGED <<status, disabled, announced>>

trips(e) == Threshold > 0 /\ streak[e] + 1 >= Threshold

\* Variant: the caller is told whenever the streak is long enough.
record_dead_announces(e) ==
    LET now == trips(e) /\ status[e] = "active" IN
    /\ streak' = [streak EXCEPT ![e] = @ + 1]
    /\ status' = IF now THEN [status EXCEPT ![e] = "inactive"] ELSE status
    /\ disabled' = IF now THEN disabled \cup {e} ELSE disabled
    /\ announced' = IF trips(e) THEN [announced EXCEPT ![e] = @ + 1] ELSE announced

record_dead(e) ==
    LET now == trips(e) /\ status[e] = "active" IN
    /\ streak' = [streak EXCEPT ![e] = @ + 1]
    /\ status' = IF now THEN [status EXCEPT ![e] = "inactive"] ELSE status
    /\ disabled' = IF now THEN disabled \cup {e} ELSE disabled
    /\ announced' = IF now THEN [announced EXCEPT ![e] = @ + 1] ELSE announced

record_webhook_endpoint_outcome(t) ==
    LET x == sender[t] IN
    /\ x.pc = "outcome"
    /\ \/ /\ IF x.result = "delivered" THEN record_delivered(x.ep) ELSE record_dead(x.ep)
          /\ outcomes' = [outcomes EXCEPT ![x.ep] = Append(@, x.result)]
       \/ UNCHANGED endpoint
    /\ Run(t, Call("next", x.kind, x.todo))
    /\ UNCHANGED log

\* The process dies, or a client that waits for a ping or a redelivery goes away.
Die(t) ==
    /\ sender[t].pc \notin {"idle", "done"}
    /\ Run(t, Call("done", "event", {}))
    /\ UNCHANGED <<endpoint, log>>

SendStep(t) ==
    \/ \E e \in Endpoints : send(t, e)
    \/ Return(t)
    \/ Attempt(t) \/ is_safe_delivery_url_refuses(t)
    \/ AnswerOk(t) \/ BodyRead(t) \/ AnswerReject(t) \/ AnswerError(t) \/ Deadline(t)
    \/ log_webhook_delivery(t) \/ record_webhook_endpoint_outcome(t)

HooksNext ==
    \/ \E e \in Endpoints :
          \/ create_webhook(e) \/ delete_webhook(e)
          \/ \E t \in Senders : test_webhook(t, e) \/ redeliver_webhook(t, e)
    \/ \E t \in Senders : dispatch(t) \/ SendStep(t) \/ Die(t)

HooksSpec == HooksInit /\ [][HooksNext]_hookvars

\* The runtime goes on with what is ready, and a timer fires; endpoints may hang.
Advance(t) ==
    \/ \E e \in Endpoints : send(t, e)
    \/ Return(t) \/ Attempt(t) \/ Deadline(t)
    \/ log_webhook_delivery(t) \/ record_webhook_endpoint_outcome(t)

HooksFairSpec == HooksSpec /\ \A t \in Senders : WF_hookvars(Advance(t))

(***************************************************************************)
(* Properties.                                                             *)
(***************************************************************************)

\* When a delivery is logged, the row tells at least as many attempts as the endpoint
\* has had requests, also when the deadline cut the last one short, and no more than the
\* policy of the sender's kind allows; it says delivered only if the endpoint has answered
\* with a 2xx, and an endpoint whose URL is refused has had none.
LogTellsRequests ==
    \A t \in Senders :
        sender[t].pc = "log" =>
            /\ sender[t].posts <= sender[t].attempt /\ sender[t].attempt <= Attempts(sender[t].kind)
            /\ sender[t].result = "delivered" => sender[t].ok
            /\ sender[t].ep \in Unsafe => sender[t].attempt = 0

\* An endpoint is auto-disabled only by Threshold dead deliveries recorded one after
\* another, none of them a ping and with no delivery recorded between them, although
\* the deliveries of several tasks end in any order.
DisabledByStreak ==
    \A e \in disabled :
        \E i \in 0..(Len(outcomes[e]) - Threshold) :
            \A j \in (i + 1)..(i + Threshold) : outcomes[e][j] = "dead"

\* Of the tasks whose dead deliveries reach the threshold together, one and only one
\* is told that it has disabled the endpoint; a disabled endpoint is not active again.
DisabledOnce ==
    \A e \in Endpoints :
        /\ announced[e] = IF e \in disabled THEN 1 ELSE 0
        /\ e \in disabled => status[e] \in {"inactive", "deleted"}

\* An endpoint is disabled for its own streak of dead deliveries, once, and announced
\* once (record_webhook_endpoint_outcome).
DisabledRightly == DisabledByStreak /\ DisabledOnce

\* Every call of the sender returns, whichever endpoints hang: the deadline of a
\* delivery moves the call on to the next endpoint it has read.
SenderReturns == \A t \in Senders : sender[t].pc # "idle" ~> sender[t].pc = "done"

(***************************************************************************)
(* The inductive invariant behind LogTellsRequests and DisabledRightly.    *)
(***************************************************************************)
SendPlaces == {"idle", "next", "attempt", "wait", "body", "log", "outcome", "done"}

SendCalls == [pc : SendPlaces, kind : SendKinds, todo : SUBSET Endpoints, ep : Endpoints \cup {NoEndpoint},
              attempt : Nat, posts : Nat, ok : BOOLEAN, result : {"failed", "dead", "delivered"}]

HooksTypeOK ==
    /\ status \in [Endpoints -> {"absent", "active", "inactive", "deleted"}]
    /\ disabled \subseteq Endpoints
    /\ streak \in [Endpoints -> Nat]
    /\ outcomes \in [Endpoints -> Seq({"dead", "delivered"})]
    /\ announced \in [Endpoints -> Nat]
    /\ sender \in [Senders -> SendCalls]

\* What the serving of one endpoint has counted when it comes to each of its steps.
SendOK(x) ==
    /\ x.pc \in {"attempt", "wait", "body", "log"} =>
          /\ x.ep \in Endpoints
          /\ x.posts <= x.attempt /\ x.attempt <= Attempts(x.kind)
          /\ x.ep \in Unsafe => x.pc = "log" /\ x.attempt = 0
    /\ x.pc = "attempt" => x.attempt < Attempts(x.kind)
    /\ x.pc = "wait" => x.result = failed_status(x.kind)
    /\ x.pc = "body" => x.ok
    /\ x.pc = "log" => (x.result = "delivered" => x.ok) /\ (Counts(x) => x.result # "failed")
    /\ x.pc = "outcome" => x.ep \in Endpoints /\ x.result # "failed"

\* The streak of an endpoint is the number of dead deliveries its outcomes end with,
\* or fewer.
StreakOK(e) ==
    /\ streak[e] <= Len(outcomes[e])
    /\ \A j \in (Len(outcomes[e]) - streak[e] + 1)..Len(outcomes[e]) : outcomes[e][j] = "dead"

HooksInv ==
    /\ HooksTypeOK
    /\ \A t \in Senders : SendOK(sender[t])
    /\ \A e \in Endpoints : StreakOK(e)
    /\ DisabledRightly
=============================================================================
