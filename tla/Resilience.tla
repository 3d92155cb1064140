----------------------------- MODULE Resilience -----------------------------
(***************************************************************************)
(* The circuit breaker and the retrying executor that every Horizon call   *)
(* goes through (crates/resilience): `execute' for read-only calls and     *)
(* submissions, and the stream connect of crates/ingest, which uses the    *)
(* breaker without the executor.  One breaker is shared by all callers.    *)
(*                                                                         *)
(* The breaker's lock makes check, on_success and on_failure atomic; the   *)
(* callers interleave at every await and between two lock sections.  Time  *)
(* passes in ticks; only the time since the breaker last opened or claimed *)
(* a probe matters, and only until it reaches ResetTimeout.                *)
(***************************************************************************)
EXTENDS Integers

CONSTANTS
    Callers,        \* tasks that call Horizon
    Threshold,      \* failure_threshold
    ResetTimeout,   \* reset_timeout, in ticks
    MaxAttempts     \* RetryPolicy.max_attempts

ASSUME BreakerAssumption ==
    Threshold \in Nat \ {0} /\ ResetTimeout \in Nat /\ MaxAttempts \in Nat \ {0}

VARIABLES
    state,      \* CbState
    age,        \* ticks since opened_at or probe_started, at most ResetTimeout
    failures,   \* consecutive_failures, counted up to Threshold
    call,       \* what each caller is doing
    up          \* Horizon answers

vars == <<state, age, failures, call, up>>

Kinds == {"ReadOnly", "Submit", "Stream"}

\* attempt counts the requests already answered; stray counts the requests sent
\* while the breaker was refusing calls, since the breaker last let this call pass.
NoCall == [pc |-> "idle", kind |-> "ReadOnly", attempt |-> 0, stray |-> 0]

Calls == [pc : {"idle", "request", "failed", "sleep"}, kind : Kinds,
          attempt : 0..MaxAttempts, stray : Nat]

Init ==
    /\ state = "Closed"
    /\ age = 0
    /\ failures = 0
    /\ call = [c \in Callers |-> NoCall]
    /\ up = TRUE

(***************************************************************************)
(* CircuitBreaker.                                                         *)
(***************************************************************************)
\* Variant: a half-open breaker refuses until its probe reports.
RefusingUntilReport == state = "HalfOpen" \/ (state = "Open" /\ age < ResetTimeout)

\* check returns Err(Open).
Refusing == state # "Closed" /\ age < ResetTimeout

\* check returns Ok: unless the breaker is closed, the caller claims the probe slot.
check ==
    /\ ~ Refusing
    /\ state' = IF state = "Closed" THEN "Closed" ELSE "HalfOpen"
    /\ age' = 0

on_success ==
    /\ state' = "Closed"
    /\ age' = 0
    /\ failures' = 0

on_failure ==
    /\ failures' = IF failures < Threshold THEN failures + 1 ELSE failures
    /\ IF failures' >= Threshold
       THEN state' = "Open" /\ age' = 0
       ELSE UNCHANGED <<state, age>>

(***************************************************************************)
(* A caller.                                                               *)
(***************************************************************************)
Become(c, r) == call' = [call EXCEPT ![c] = r]

Attempts(kind) == IF kind = "ReadOnly" THEN MaxAttempts ELSE 1

\* A call that check lets pass sends its first request; a refused one returns at once.
Start(c) ==
    /\ call[c].pc = "idle"
    /\ check
    /\ \E k \in Kinds :
         Become(c, [pc |-> "request", kind |-> k, attempt |-> 0, stray |-> 0])
    /\ UNCHANGED <<failures, up>>

Succeed(c) ==
    /\ call[c].pc = "request" /\ up
    /\ on_success
    /\ Become(c, NoCall)
    /\ UNCHANGED up

\* A permanent error is the answer: execute returns it without telling the
\* breaker, while the stream connect counts any answer below 500 as a success.
AnswerPermanent(c) ==
    /\ call[c].pc = "request" /\ up
    /\ IF call[c].kind = "Stream" THEN on_success ELSE UNCHANGED <<state, age, failures>>
    /\ Become(c, NoCall)
    /\ UNCHANGED up

\* A transient failure; the stream connect leaves the retry to its own backoff.
Fail(c) ==
    /\ call[c].pc = "request" /\ ~ up
    /\ on_failure
    /\ Become(c, IF call[c].kind = "Stream" THEN NoCall
                 ELSE [call[c] EXCEPT !.pc = "failed", !.attempt = call[c].attempt + 1])
    /\ UNCHANGED up

\* Variant: the loop goes on without looking at the breaker again.
RecheckSkipped(c) ==
    /\ call[c].pc = "failed"
    /\ Become(c, IF call[c].attempt < Attempts(call[c].kind)
                 THEN [call[c] EXCEPT !.pc = "sleep"] ELSE NoCall)
    /\ UNCHANGED <<state, age, failures, up>>

\* The second check of the loop: stop, give up after the last attempt, or back off.
Recheck(c) ==
    /\ call[c].pc = "failed"
    /\ \/ /\ Refusing
          /\ Become(c, NoCall)
          /\ UNCHANGED <<state, age>>
       \/ /\ check
          /\ Become(c, IF call[c].attempt < Attempts(call[c].kind)
                       THEN [call[c] EXCEPT !.pc = "sleep", !.stray = 0] ELSE NoCall)
    /\ UNCHANGED <<failures, up>>

\* After the backoff the next request is sent without asking the breaker.
Retry(c) ==
    /\ call[c].pc = "sleep"
    /\ Become(c, [call[c] EXCEPT !.pc = "request",
                     !.stray = IF Refusing THEN call[c].stray + 1 ELSE call[c].stray])
    /\ UNCHANGED <<state, age, failures, up>>

\* The caller's future is dropped at an await: nothing is reported.
Cancel(c) ==
    /\ call[c].pc \in {"request", "sleep"}
    /\ Become(c, NoCall)
    /\ UNCHANGED <<state, age, failures, up>>

(***************************************************************************)
(* The environment.                                                        *)
(***************************************************************************)
Tick ==
    /\ state # "Closed" /\ age < ResetTimeout
    /\ age' = age + 1
    /\ UNCHANGED <<state, failures, call, up>>

\* Horizon goes away or comes back.
Outage ==
    /\ up' = ~ up
    /\ UNCHANGED <<state, age, failures, call>>

Caller(c) ==
    \/ Start(c)
    \/ Succeed(c)
    \/ AnswerPermanent(c)
    \/ Fail(c)
    \/ Recheck(c)
    \/ Retry(c)
    \/ Cancel(c)

Next == Tick \/ Outage \/ \E c \in Callers : Caller(c)

Spec == Init /\ [][Next]_vars

\* Time passes, callers keep calling and are scheduled, and a Horizon that is up
\* does not answer every request with a permanent error.
FairSpec ==
    /\ Spec
    /\ WF_vars(Tick)
    /\ \A c \in Callers : WF_vars(Caller(c)) /\ SF_vars(Succeed(c))

-----------------------------------------------------------------------------
(***************************************************************************)
(* Properties.                                                             *)
(***************************************************************************)
TypeOK ==
    /\ state \in {"Closed", "Open", "HalfOpen"}
    /\ age \in 0..ResetTimeout
    /\ failures \in 0..Threshold
    /\ call \in [Callers -> Calls]
    /\ up \in BOOLEAN

\* The breaker refuses calls only after Threshold failures with no success in
\* between: a success by any caller, however old its request, resets both.
OpenOnlyAtThreshold == state # "Closed" => failures = Threshold

\* Although a retry is sent without asking the breaker, a caller whose breaker
\* opened under it sends at most one more request before the loop stops it.
AtMostOneStray == \A c \in Callers : call[c].stray <= 1

\* A submission is sent once whatever the retry policy and the breaker say: it is
\* never on the wire again after a failed attempt, so it cannot be paid twice.
SubmitNeverRetried ==
    \A c \in Callers : call[c].kind = "Submit" /\ call[c].pc = "request" => call[c].attempt = 0

\* A lost or slow probe cannot wedge the breaker: once Horizon stays up, the
\* breaker closes and stays closed.
Recovers == <>[]up => <>[](state = "Closed")
=============================================================================
