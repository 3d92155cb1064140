-------------------------- MODULE ResilienceProofs --------------------------
(***************************************************************************)
(* Proofs about Resilience, and about EvmRpc, which uses its breaker, for  *)
(* any callers, methods, threshold, reset timeout and retry policy; about  *)
(* the other client (HorizonClient), for any readers and lifetime of the   *)
(* cache; and about a pass of the ingest supervisor (Polling), for any     *)
(* wallets.                                                                *)
(***************************************************************************)
EXTENDS EvmRpc, HorizonClient, Polling, FiniteSetTheorems, TLAPS

USE BreakerAssumption

\* How far each call is: only a request or its failure may carry a stray, a
\* submission never sleeps, and attempts are counted within the policy.
CallOK(r) ==
    /\ r.pc \in {"idle", "sleep"} => r.stray = 0
    /\ r.stray <= 1
    /\ r.kind = "Submit" =>
          /\ r.pc # "sleep"
          /\ r.pc = "request" => r.attempt = 0
    /\ r.pc \in {"request", "sleep"} => r.attempt < Attempts(r.kind)
    /\ r.pc = "failed" => r.attempt > 0

\* The inductive invariant.
IInv ==
    /\ TypeOK
    /\ OpenOnlyAtThreshold
    /\ \A c \in Callers : CallOK(call[c])

\* The number of attempts is positive and within the policy.
LEMMA AttemptsRange ==
    ASSUME NEW k \in Kinds
    PROVE  Attempts(k) \in 1..MaxAttempts /\ (k = "Submit" => Attempts(k) = 1)
BY DEF Attempts, Kinds

\* A caller between two calls is well formed.
LEMMA NoCallOK == NoCall \in Calls /\ CallOK(NoCall)
BY DEF NoCall, Calls, CallOK, Kinds, Attempts

\* Replacing one caller's call by a well-formed one keeps all calls well formed.
LEMMA BecomeOK ==
    ASSUME call \in [Callers -> Calls], \A c \in Callers : CallOK(call[c]),
           NEW c \in Callers, NEW r \in Calls, CallOK(r), Become(c, r)
    PROVE  call' \in [Callers -> Calls] /\ \A d \in Callers : CallOK(call[d])'
<1>1. call' = [call EXCEPT ![c] = r]
  BY Zenon DEF Become
<1>2. \A d \in Callers : call'[d] = IF d = c THEN r ELSE call[d]
  BY Zenon, <1>1
<1>3. call' \in [Callers -> Calls]
  BY Zenon, <1>1
<1>4. ASSUME NEW d \in Callers PROVE CallOK(call'[d])
  BY Zenon, <1>2
<1> QED BY Zenon, <1>3, <1>4 DEF CallOK

\* Init establishes the invariant.
LEMMA InitIInv == Init => IInv
<1> SUFFICES ASSUME Init PROVE IInv
  BY Zenon
<1>1. TypeOK /\ OpenOnlyAtThreshold
  BY NoCallOK DEF Init, TypeOK, OpenOnlyAtThreshold
<1>2. \A c \in Callers : call[c] = NoCall
  BY Zenon DEF Init
<1> QED BY Zenon, <1>1, <1>2, NoCallOK DEF IInv

\* The breaker's own state, without the callers.
BreakerOK ==
    /\ state \in {"Closed", "Open", "HalfOpen"}
    /\ age \in 0..ResetTimeout
    /\ failures \in 0..Threshold
    /\ OpenOnlyAtThreshold

\* Each breaker operation keeps the breaker's state well formed.
LEMMA BreakerStep ==
    ASSUME BreakerOK,
           \/ check /\ UNCHANGED failures
           \/ on_success
           \/ on_failure
           \/ UNCHANGED <<state, age, failures>>
    PROVE  BreakerOK'
<1>1. CASE check /\ UNCHANGED failures
  BY <1>1 DEF BreakerOK, check, OpenOnlyAtThreshold
<1>2. CASE on_success
  BY <1>2 DEF BreakerOK, on_success, OpenOnlyAtThreshold
<1>3. CASE on_failure
  BY <1>3 DEF BreakerOK, on_failure, OpenOnlyAtThreshold
<1>4. CASE UNCHANGED <<state, age, failures>>
  BY Zenon, <1>4 DEF BreakerOK, OpenOnlyAtThreshold
<1> QED BY Zenon, <1>1, <1>2, <1>3, <1>4

\* A step of a caller preserves the invariant.
LEMMA CallerIInv ==
    ASSUME IInv, NEW c \in Callers, Caller(c)
    PROVE  IInv'
<1>0. /\ BreakerOK /\ up \in BOOLEAN
      /\ call \in [Callers -> Calls] /\ \A d \in Callers : CallOK(call[d])
      /\ call[c] \in Calls /\ CallOK(call[c])
  BY Zenon DEF IInv, TypeOK, BreakerOK
<1> DEFINE r == call[c]
<1>1. ASSUME NEW q \in Calls, CallOK(q), Become(c, q), BreakerOK', up' = up
      PROVE  IInv'
  BY Zenon, <1>0, <1>1, BecomeOK DEF IInv, TypeOK, BreakerOK
<1>2. CASE Start(c)
  <2>1. PICK k \in Kinds :
          Become(c, [pc |-> "request", kind |-> k, attempt |-> 0, stray |-> 0])
    BY Zenon, <1>2 DEF Start
  <2>2. [pc |-> "request", kind |-> k, attempt |-> 0, stray |-> 0] \in Calls
    BY DEF Calls
  <2>3. CallOK([pc |-> "request", kind |-> k, attempt |-> 0, stray |-> 0])
    BY AttemptsRange DEF CallOK
  <2>4. BreakerOK' /\ up' = up
    BY Zenon, <1>0, <1>2, BreakerStep DEF Start
  <2> QED BY Zenon, <1>1, <2>1, <2>2, <2>3, <2>4
<1>3. CASE Succeed(c)
  BY Zenon, <1>0, <1>1, <1>3, BreakerStep, NoCallOK DEF Succeed
<1>4. CASE AnswerPermanent(c)
  BY Zenon, <1>0, <1>1, <1>4, BreakerStep, NoCallOK DEF AnswerPermanent
<1>5. CASE Fail(c)
  <2>1. BreakerOK' /\ up' = up
    BY Zenon, <1>0, <1>5, BreakerStep DEF Fail
  <2>2. CASE r.kind = "Stream"
    BY Zenon, <1>1, <1>5, <2>1, <2>2, NoCallOK DEF Fail
  <2>3. CASE r.kind # "Stream"
    <3> DEFINE q == [r EXCEPT !.pc = "failed", !.attempt = r.attempt + 1]
    <3>1. Become(c, q)
      BY Zenon, <1>5, <2>3 DEF Fail
    <3>2. r.kind \in Kinds /\ r.attempt < Attempts(r.kind) /\ r.attempt \in Nat
      BY <1>0, <1>5 DEF Fail, CallOK, Calls
    <3>3. r.attempt + 1 \in 0..MaxAttempts
      BY <3>2, AttemptsRange
    <3>4. /\ q \in Calls /\ q.pc = "failed" /\ q.stray = r.stray /\ q.kind = r.kind
          /\ q.attempt = r.attempt + 1
      BY Zenon, <1>0, <3>3 DEF Calls
    <3>5. CallOK(q)
      BY <1>0, <3>2, <3>4 DEF CallOK
    <3> QED BY Zenon, <1>1, <2>1, <3>1, <3>4, <3>5
  <2> QED BY Zenon, <2>2, <2>3
<1>6. CASE Recheck(c)
  <2>1. BreakerOK' /\ up' = up
    BY Zenon, <1>0, <1>6, BreakerStep DEF Recheck
  <2>2. CASE Become(c, NoCall)
    BY Zenon, <1>1, <2>1, <2>2, NoCallOK
  <2>3. CASE /\ call[c].attempt < Attempts(call[c].kind)
             /\ Become(c, [call[c] EXCEPT !.pc = "sleep", !.stray = 0])
    <3> DEFINE q == [r EXCEPT !.pc = "sleep", !.stray = 0]
    <3>1. /\ q \in Calls /\ q.pc = "sleep" /\ q.stray = 0 /\ q.kind = r.kind
          /\ q.attempt = r.attempt
      BY Zenon, <1>0 DEF Calls
    <3>2. r.kind # "Submit"
      <4>1. r.attempt > 0 /\ r.attempt \in Nat /\ r.kind \in Kinds
        BY <1>0, <1>6 DEF CallOK, Calls, Recheck
      <4> QED BY <2>3, <4>1, AttemptsRange
    <3>3. CallOK(q)
      BY <2>3, <3>1, <3>2 DEF CallOK
    <3> QED BY Zenon, <1>1, <2>1, <2>3, <3>1, <3>3
  <2> QED BY Zenon, <1>6, <2>2, <2>3 DEF Recheck
<1>7. CASE Retry(c)
  <2>1. BreakerOK' /\ up' = up
    BY Zenon, <1>0, <1>7, BreakerStep DEF Retry
  <2> DEFINE n == IF Refusing THEN r.stray + 1 ELSE r.stray
             q == [r EXCEPT !.pc = "request", !.stray = n]
  <2>2. Become(c, q)
    BY Zenon, <1>7 DEF Retry
  <2>3. n \in Nat /\ n <= 1
    BY <1>0, <1>7 DEF Retry, CallOK, Calls
  <2> HIDE DEF n
  <2>4. /\ q \in Calls /\ q.pc = "request" /\ q.stray = n /\ q.kind = r.kind
        /\ q.attempt = r.attempt
    BY Zenon, <1>0, <2>3 DEF Calls
  <2>5. CallOK(q)
    BY Zenon, <1>0, <1>7, <2>3, <2>4 DEF CallOK, Retry
  <2> QED BY Zenon, <1>1, <2>1, <2>2, <2>4, <2>5
<1>8. CASE Cancel(c)
  BY Zenon, <1>0, <1>1, <1>8, BreakerStep, NoCallOK DEF Cancel
<1> QED BY Zenon, <1>2, <1>3, <1>4, <1>5, <1>6, <1>7, <1>8 DEF Caller

\* Every step of the system preserves the invariant.
LEMMA NextIInv == IInv /\ [Next]_vars => IInv'
<1> SUFFICES ASSUME IInv, [Next]_vars PROVE IInv'
  BY Zenon
<1>1. CASE Tick
  BY <1>1 DEF Tick, IInv, TypeOK, OpenOnlyAtThreshold
<1>2. CASE Outage
  BY Zenon, <1>2 DEF Outage, IInv, TypeOK, OpenOnlyAtThreshold
<1>3. CASE UNCHANGED vars
  BY Zenon, <1>3 DEF vars, IInv, TypeOK, OpenOnlyAtThreshold
<1> QED BY Zenon, <1>1, <1>2, <1>3, CallerIInv DEF Next

\* Type correctness of the executor and its breaker.
THEOREM TypeCorrect == Spec => []TypeOK
<1>1. IInv => TypeOK
  BY Zenon DEF IInv
<1> QED BY InitIInv, NextIInv, <1>1, PTL DEF Spec

\* The breaker is open or half-open only while the failure count is at the threshold.
THEOREM OpenNeedsFailures == Spec => []OpenOnlyAtThreshold
<1>1. IInv => OpenOnlyAtThreshold
  BY Zenon DEF IInv
<1> QED BY InitIInv, NextIInv, <1>1, PTL DEF Spec

\* A call sends at most one request past a breaker that opened under it.
THEOREM OneStrayRequest == Spec => []AtMostOneStray
<1>1. IInv => AtMostOneStray
  BY Zenon DEF IInv, CallOK, AtMostOneStray
<1> QED BY InitIInv, NextIInv, <1>1, PTL DEF Spec

\* A submission reaches the network at most once per execute.
THEOREM SubmitSentOnce == Spec => []SubmitNeverRetried
<1>1. IInv => SubmitNeverRetried
  BY Zenon DEF IInv, CallOK, SubmitNeverRetried
<1> QED BY InitIInv, NextIInv, <1>1, PTL DEF Spec

(***************************************************************************)
(* The EVM client.                                                         *)
(***************************************************************************)
Methods == Quantities \cup Objects \cup Texts

\* What a request sent and answered comes to.
Result(m, resp) == IF call_once(resp) = "Ok" THEN decode(m, resp.body) ELSE call_once(resp)

\* What a response comes to, by its body.
LEMMA CallOnceIs ==
    ASSUME NEW resp \in Responses
    PROVE  /\ call_once(resp) \in Results \cup {"Ok"}
           /\ call_once(resp) = "Ok" <=> resp.status = "ok" /\ resp.body \in {"hex", "text", "object"}
           /\ call_once(resp) = "Revert" <=> resp.status # "limited" /\ resp.body = "revert"
           /\ call_once(resp) = "RangeTooLarge" <=> resp.status # "limited" /\ resp.body = "range"
           /\ call_once(resp) = "JsonRpc" <=> resp.status # "limited" /\ resp.body = "other"
           /\ call_once(resp) = "RateLimited" <=> resp.status = "limited"
           /\ call_once(resp) # "value"
<1>1. resp.status \in {"ok", "limited", "failed"} /\ resp.body \in Bodies
  BY Zenon DEF Responses
<1>2. CASE resp.status = "limited"
  BY Zenon, <1>1, <1>2 DEF call_once, Results
<1>3. CASE resp.status # "limited" /\ resp.body \in {"oversized", "garbage", "null"}
  BY Zenon, <1>1, <1>3 DEF call_once, ErrorCodes, Results
<1>4. CASE resp.status # "limited" /\ resp.body \in ErrorCodes
  BY Zenon, <1>1, <1>4 DEF call_once, ErrorCodes, map_rpc_error, Results
<1>5. CASE resp.status # "limited" /\ resp.body \in {"hex", "text", "object"}
  BY Zenon, <1>1, <1>5 DEF call_once, ErrorCodes, Results
<1> QED BY Zenon, <1>1, <1>2, <1>3, <1>4, <1>5 DEF Bodies, Values

\* A typed method gives a value for a result of its shape.
LEMMA DecodeIs ==
    ASSUME NEW m \in Methods, NEW v
    PROVE  /\ decode(m, v) \in {"value", "InvalidHex", "Transport"}
           /\ decode(m, v) = "value" <=> v \in Shape(m)
           /\ v \in Shape(m) => v \in {"hex", "text", "object"}
<1>1. CASE m \in Quantities
  BY Zenon, <1>1 DEF decode, Shape, Quantities, Objects, Texts
<1>2. CASE m \in Objects
  BY Zenon, <1>2 DEF decode, Shape, Quantities, Objects, Texts
<1>3. CASE m \in Texts
  BY Zenon, <1>3 DEF decode, Shape, Quantities, Objects, Texts
<1> QED BY Zenon, <1>1, <1>2, <1>3 DEF Methods

\* call_once and the typed methods tell apart what a node says.
LEMMA ResultTold ==
    ASSUME NEW m \in Methods, NEW resp \in Responses, NEW x,
           x.method = m, x.resp = resp, x.got = Result(m, resp)
    PROVE  ToldApart(x)
<1>1. PICK v : v = resp.body
  BY Zenon
<1>2. /\ decode(m, v) \in {"value", "InvalidHex", "Transport"}
      /\ decode(m, v) = "value" <=> v \in Shape(m)
      /\ v \in Shape(m) => v \in {"hex", "text", "object"}
  BY Zenon, DecodeIs
<1>3. CASE call_once(resp) = "Ok"
  BY Zenon, <1>1, <1>2, <1>3, CallOnceIs DEF Result, ToldApart
<1>4. CASE call_once(resp) # "Ok"
  BY Zenon, <1>1, <1>2, <1>4, CallOnceIs DEF Result, ToldApart
<1> QED BY Zenon, <1>3, <1>4

\* What the caller is told is one of the client's results.
LEMMA ResultIs ==
    ASSUME NEW m \in Methods, NEW resp \in Responses
    PROVE  Result(m, resp) \in Results
<1>1. PICK v : v = resp.body
  BY Zenon
<1>2. decode(m, v) \in Results
  BY Zenon, DecodeIs DEF Results
<1> QED BY Zenon, <1>1, <1>2, CallOnceIs DEF Result

\* A task whose call moves on to a state that is in order.
LEMMA RpcMoves ==
    ASSUME RpcInv, NEW c \in Clients, NEW x \in RpcRows, NEW n \in Nat, Set(c, x),
           wire' = [wire EXCEPT ![c] = n], SentOK(x, n), ToldApart(x)
    PROVE  RpcInv'
<1>1. /\ rpc' \in [Clients -> RpcRows] /\ wire' \in [Clients -> Nat]
      /\ rpc'[c] = x /\ wire'[c] = n
      /\ \A d \in Clients : d # c => rpc'[d] = rpc[d] /\ wire'[d] = wire[d]
  BY Zenon DEF RpcInv, Set
<1>2. \A d \in Clients : SentOK(rpc'[d], wire'[d]) /\ ToldApart(rpc'[d])
  BY Zenon, <1>1 DEF RpcInv, AnswersToldApart
<1> QED BY Zenon, <1>1, <1>2 DEF RpcInv, AnswersToldApart, SentOK, ToldApart

\* A call that has begun, or ended before it did.
LEMMA NoRpcIs ==
    /\ NoRpc \in RpcRows /\ NoRpc.pc = "idle" /\ NoRpc.attempt = 0 /\ NoRpc.resp = NoResponse
    /\ NoRpc.method = "chain_id"
BY Zenon DEF NoRpc, RpcRows, Quantities, Results

\* The first request of a call, which may be refused.
LEMMA RpcStarts ==
    ASSUME RpcInv, NEW c \in Clients, NEW m \in Methods, NEW x, rpc[c].pc = "idle",
           Set(c, x), x \in RpcRows, x.method = m, x.attempt = 0, x.resp = NoResponse,
           \/ x.pc = "done" /\ UNCHANGED wire
           \/ x.pc = "request" /\ Send(c)
    PROVE  RpcInv'
<1>1. wire[c] = 0 /\ wire \in [Clients -> Nat]
  BY Zenon DEF RpcInv, SentOK
<1>2. PICK n \in Nat : wire' = [wire EXCEPT ![c] = n] /\ n <= 1 /\ (x.pc = "request" => n = 1)
  BY <1>1 DEF Send
<1>3. SentOK(x, n) /\ ToldApart(x)
  BY <1>2 DEF SentOK, ToldApart
<1> QED BY Zenon, <1>2, <1>3, RpcMoves

\* A request is answered, or is not.
LEMMA OutcomeKeeps ==
    ASSUME RpcInv, NEW c \in Clients, NEW e \in Results \cup {"Ok"}, NEW resp \in Responses \cup {NoResponse},
           rpc[c].pc = "request", Outcome(c, e, resp), UNCHANGED wire,
           resp \in Responses => e = call_once(resp),
           resp \notin Responses => e = "Transport"
    PROVE  RpcInv'
<1>0. PICK m \in Methods : m = rpc[c].method
  BY Zenon DEF RpcInv, RpcRows, Methods
<1>1. /\ rpc[c] \in RpcRows /\ wire \in [Clients -> Nat] /\ wire[c] \in Nat /\ rpc[c].attempt \in Nat
      /\ wire[c] = rpc[c].attempt + 1 /\ rpc[c].attempt <= MaxAttempts
      /\ m = "send_raw_transaction" => rpc[c].attempt = 0
      /\ wire' = [wire EXCEPT ![c] = wire[c]]
  BY Zenon, <1>0 DEF RpcInv, RpcRows, SentOK
<1>2. ASSUME NEW got, Done(c, got, resp), got \in Results,
             resp \in Responses => got = Result(m, resp)
      PROVE  RpcInv'
  <2>1. PICK x : x = [rpc[c] EXCEPT !.pc = "done", !.attempt = 0, !.got = got, !.resp = resp]
    BY Zenon
  <2>2. /\ x \in RpcRows /\ x.pc = "done" /\ x.attempt = 0 /\ x.got = got /\ x.resp = resp
        /\ x.method = m
    BY Zenon, <1>0, <1>1, <1>2, <2>1 DEF RpcRows
  <2>3. SentOK(x, wire[c])
    BY <1>1, <2>2 DEF SentOK
  <2>4. ToldApart(x)
    <3>1. CASE resp \in Responses
      BY Zenon, <1>2, <2>2, <3>1, ResultTold
    <3>2. CASE resp = NoResponse
      BY Zenon, <2>2, <3>2 DEF ToldApart
    <3> QED BY Zenon, <3>1, <3>2
  <2> QED BY Zenon, <1>1, <1>2, <2>1, <2>2, <2>3, <2>4, RpcMoves DEF Done
<1>3. CASE Set(c, [rpc[c] EXCEPT !.pc = "sleep", !.attempt = @ + 1, !.resp = NoResponse])
           /\ rpc[c].attempt + 1 <= MaxAttempts /\ m # "send_raw_transaction"
  <2>1. PICK x : x = [rpc[c] EXCEPT !.pc = "sleep", !.attempt = @ + 1, !.resp = NoResponse]
    BY Zenon
  <2>2. /\ x \in RpcRows /\ x.pc = "sleep" /\ x.attempt = rpc[c].attempt + 1 /\ x.method = m
    BY Zenon, <1>0, <1>1, <2>1 DEF RpcRows
  <2>3. SentOK(x, wire[c]) /\ ToldApart(x)
    BY Zenon, <1>1, <1>3, <2>2 DEF SentOK, ToldApart
  <2> QED BY Zenon, <1>1, <1>3, <2>1, <2>2, <2>3, RpcMoves
<1>4. \/ e = "Ok" /\ Done(c, decode(m, resp.body), resp)
      \/ e # "Ok" /\ Done(c, e, resp)
      \/ /\ Set(c, [rpc[c] EXCEPT !.pc = "sleep", !.attempt = @ + 1, !.resp = NoResponse])
         /\ rpc[c].attempt + 1 <= MaxAttempts /\ m # "send_raw_transaction"
  BY <1>0, <1>1 DEF Outcome, is_retryable
<1>5. CASE e = "Ok" /\ Done(c, decode(m, resp.body), resp)
  <2>1. resp \in Responses /\ decode(m, resp.body) = Result(m, resp)
    BY Zenon, <1>5 DEF Result
  <2> QED BY Zenon, <1>2, <1>5, <2>1, ResultIs
<1>6. CASE e # "Ok" /\ Done(c, e, resp)
  BY Zenon, <1>2, <1>6 DEF Result
<1> QED BY Zenon, <1>3, <1>4, <1>5, <1>6

\* Every step of the client preserves the invariant.
LEMMA RpcNextInv == RpcInv /\ [RpcNext]_<<vars, rpcvars>> => RpcInv'
<1> SUFFICES ASSUME RpcInv, [RpcNext]_<<vars, rpcvars>> PROVE RpcInv'
  BY Zenon
<1>1. CASE UNCHANGED rpcvars
  BY Zenon, <1>1 DEF rpcvars, RpcInv, AnswersToldApart, SentOK, ToldApart
<1>2. ASSUME NEW c \in Clients, NEW m \in Offered, call_read(c, m) PROVE RpcInv'
  <2>1. m \in Methods /\ rpc[c].pc = "idle"
    BY Zenon, <1>2, MethodsAssumption DEF Methods, call_read
  <2>2. CASE Set(c, [NoRpc EXCEPT !.pc = "done", !.method = m, !.got = "CircuitOpen"]) /\ UNCHANGED wire
    <3>1. PICK x : x = [NoRpc EXCEPT !.pc = "done", !.method = m, !.got = "CircuitOpen"]
      BY Zenon
    <3>2. x \in RpcRows /\ x.method = m /\ x.attempt = 0 /\ x.resp = NoResponse /\ x.pc = "done"
      BY Zenon, <2>1, <3>1, NoRpcIs DEF RpcRows, Methods, Results
    <3> QED BY Zenon, <2>1, <2>2, <3>1, <3>2, RpcStarts
  <2>3. CASE Set(c, [NoRpc EXCEPT !.pc = "request", !.method = m]) /\ Send(c)
    <3>1. PICK x : x = [NoRpc EXCEPT !.pc = "request", !.method = m]
      BY Zenon
    <3>2. x \in RpcRows /\ x.method = m /\ x.attempt = 0 /\ x.resp = NoResponse /\ x.pc = "request"
      BY Zenon, <2>1, <3>1, NoRpcIs DEF RpcRows, Methods
    <3> QED BY Zenon, <2>1, <2>3, <3>1, <3>2, RpcStarts
  <2> QED BY Zenon, <1>2, <2>2, <2>3 DEF call_read
<1>3. ASSUME NEW c \in Clients, send_raw_transaction(c) PROVE RpcInv'
  <2>1. PICK m \in Methods : m = "send_raw_transaction"
    BY Zenon DEF Methods, Texts
  <2>2. PICK x : x = [NoRpc EXCEPT !.pc = "request", !.method = m]
    BY Zenon
  <2>3. x \in RpcRows /\ x.method = m /\ x.attempt = 0 /\ x.resp = NoResponse /\ x.pc = "request"
    BY Zenon, <2>1, <2>2, NoRpcIs DEF RpcRows, Methods
  <2>4. Set(c, x) /\ Send(c) /\ rpc[c].pc = "idle"
    BY Zenon, <1>3, <2>1, <2>2 DEF send_raw_transaction
  <2> QED BY Zenon, <2>3, <2>4, RpcStarts
<1>4. ASSUME NEW c \in Clients, Receive(c) PROVE RpcInv'
  <2>1. PICK resp \in Responses : Outcome(c, call_once(resp), resp)
    BY Zenon, <1>4 DEF Receive
  <2>2. call_once(resp) \in Results \cup {"Ok"}
    BY Zenon, CallOnceIs
  <2> QED BY Zenon, <1>4, <2>1, <2>2, OutcomeKeeps DEF Receive
<1>5. ASSUME NEW c \in Clients, Unanswered(c) PROVE RpcInv'
  <2>1. PICK e \in Results : e = "Transport"
    BY Zenon DEF Results
  <2>2. NoResponse \notin Responses
    BY Zenon DEF NoResponse, Responses
  <2> QED BY Zenon, <1>5, <2>1, <2>2, OutcomeKeeps DEF Unanswered
<1>6. ASSUME NEW c \in Clients, Again(c) PROVE RpcInv'
  <2>1. /\ rpc[c] \in RpcRows /\ wire \in [Clients -> Nat] /\ SentOK(rpc[c], wire[c])
        /\ rpc[c].pc = "sleep" /\ rpc[c].attempt \in Nat
    BY Zenon, <1>6 DEF RpcInv, Again, RpcRows
  <2>2. PICK x : x = [rpc[c] EXCEPT !.pc = "request"]
    BY Zenon
  <2>3. /\ x \in RpcRows /\ x.pc = "request" /\ x.attempt = rpc[c].attempt /\ x.method = rpc[c].method
    BY Zenon, <2>1, <2>2 DEF RpcRows
  <2>4. PICK n \in Nat : n = wire[c] + 1
    BY <2>1
  <2>5. wire' = [wire EXCEPT ![c] = n] /\ Set(c, x)
    BY Zenon, <1>6, <2>1, <2>2, <2>4 DEF Again, Send
  <2>6. SentOK(x, n) /\ ToldApart(x)
    BY Zenon, <2>1, <2>3, <2>4 DEF SentOK, ToldApart
  <2> QED BY Zenon, <2>3, <2>5, <2>6, RpcMoves
<1>7. ASSUME NEW c \in Clients, Leave(c) PROVE RpcInv'
  <2>1. SentOK(NoRpc, 0) /\ ToldApart(NoRpc)
    BY Zenon, NoRpcIs DEF SentOK, ToldApart
  <2>2. PICK x \in RpcRows : x = NoRpc
    BY Zenon, NoRpcIs
  <2>3. PICK n \in Nat : n = 0
    BY Zenon
  <2>4. Set(c, x) /\ wire' = [wire EXCEPT ![c] = n] /\ SentOK(x, n) /\ ToldApart(x)
    BY Zenon, <1>7, <2>1, <2>2, <2>3 DEF Leave
  <2> QED BY Zenon, <2>4, RpcMoves
<1> QED BY Zenon, <1>1, <1>2, <1>3, <1>4, <1>5, <1>6, <1>7 DEF RpcNext, vars, rpcvars

\* A transaction is put on the wire once per send_raw_transaction and a read at
\* most once more than max_attempts, whatever is lost, limited or refused; and the
\* caller gets a value only from a successful response of the method's shape, and
\* an error object under its own name unless it came with a 429, which is a rate
\* limit whatever it holds (call_once, call_read and send_raw_transaction).
THEOREM CallsTrue == RpcSpec => []CallsAreTrue
<1>1. RpcInit => RpcInv
  <2> SUFFICES ASSUME RpcInit PROVE RpcInv
    BY Zenon
  <2>1. SentOK(NoRpc, 0) /\ ToldApart(NoRpc)
    BY Zenon, NoRpcIs DEF SentOK, ToldApart
  <2> QED BY Zenon, <2>1, NoRpcIs DEF RpcInit, RpcInv, AnswersToldApart
<1>2. RpcInv => CallsAreTrue
  <2> SUFFICES ASSUME RpcInv PROVE CallsAreTrue
    BY Zenon
  <2>1. RequestsBounded
    BY DEF RpcInv, SentOK, RequestsBounded, RpcRows
  <2> QED BY Zenon, <2>1 DEF RpcInv, CallsAreTrue
<1> QED BY <1>1, <1>2, RpcNextInv, PTL DEF RpcSpec

(***************************************************************************)
(* HorizonClient.                                                          *)
(***************************************************************************)

(* A reader that moves on to a state that is in order, the clock standing. *)
LEMMA ReaderMoves ==
    ASSUME HorizonInv, NEW r \in Readers, NEW x \in Readings,
           reader' = [reader EXCEPT ![r] = x], UNCHANGED <<clock, told>>,
           fee_stats_cache' \in {Empty} \cup [at : Nat, made : Nat], CacheOK', ReaderOK(x),
           x.pc = "served" => x.made \in clock - (FeeTtl - 1) - FetchTime .. clock
    PROVE  HorizonInv'
<1>1. /\ reader' \in [Readers -> Readings] /\ reader'[r] = x
      /\ \A q \in Readers : q # r => reader'[q] = reader[q]
  BY Zenon DEF HorizonInv
<1>2. \A q \in Readers : ReaderOK(reader'[q])
  BY Zenon, <1>1 DEF HorizonInv
<1>3. FiguresRecent'
  BY Zenon, <1>1 DEF HorizonInv, AnswersHold, FiguresRecent
<1>4. AbsenceIsAnswered'
  BY Zenon DEF HorizonInv, AnswersHold, AbsenceIsAnswered
<1> QED BY Zenon, <1>1, <1>2, <1>3, <1>4 DEF HorizonInv, AnswersHold, ReaderOK

(* A reader that is not asking has nothing in hand.                        *)
LEMMA IdleReader == Idle \in Readings /\ Idle.pc = "idle" /\ Idle.since = 0 /\ Idle.made = -1
BY Zenon DEF Idle, Readings

(* A request is served from the cache, or goes to fetch.                   *)
LEMMA FeeStatsStep ==
    ASSUME HorizonInv, NEW r \in Readers, fee_stats(r)
    PROVE  HorizonInv'
<1>0. /\ clock \in Nat /\ fee_stats_cache' \in {Empty} \cup [at : Nat, made : Nat]
      /\ CacheOK /\ CacheOK' /\ UNCHANGED <<clock, fee_stats_cache, told>>
  BY Zenon DEF fee_stats, HorizonInv, CacheOK
<1>1. CASE cache_hit
  <2>1. PICK x : x = [Idle EXCEPT !.pc = "served", !.made = fee_stats_cache.made]
    BY Zenon
  <2>2. /\ fee_stats_cache.made \in Nat /\ fee_stats_cache.at \in Nat
        /\ fee_stats_cache # Empty /\ clock - fee_stats_cache.at < FeeTtl
    BY Zenon, <1>0, <1>1 DEF cache_hit
  <2>3. x \in Readings /\ x.pc = "served" /\ x.made = fee_stats_cache.made
    BY Zenon, <2>1, <2>2 DEF Readings, Idle
  <2>4. x.made \in clock - (FeeTtl - 1) - FetchTime .. clock
    BY <1>0, <2>2, <2>3, FeeTtlAssumption DEF CacheOK
  <2>5. ReaderOK(x)
    BY Zenon, <2>3 DEF ReaderOK
  <2> QED BY Zenon, <1>0, <1>1, <2>1, <2>3, <2>4, <2>5, ReaderMoves DEF fee_stats
<1>2. CASE ~cache_hit
  <2>1. PICK x : x = [Idle EXCEPT !.pc = "fetching", !.since = clock]
    BY Zenon
  <2>2. x \in Readings /\ x.pc = "fetching" /\ x.since = clock /\ x.made = -1
    BY Zenon, <1>0, <2>1 DEF Readings, Idle
  <2>3. ReaderOK(x)
    BY <1>0, <2>2, FeeTtlAssumption DEF ReaderOK
  <2> QED BY Zenon, <1>0, <1>2, <2>1, <2>2, <2>3, ReaderMoves DEF fee_stats
<1> QED BY Zenon, <1>1, <1>2

(* Horizon looks the figures up.                                           *)
LEMMA LookStep ==
    ASSUME HorizonInv, NEW r \in Readers, Look(r)
    PROVE  HorizonInv'
<1>0. /\ clock \in Nat /\ fee_stats_cache' \in {Empty} \cup [at : Nat, made : Nat]
      /\ CacheOK' /\ UNCHANGED <<clock, fee_stats_cache, told>>
      /\ reader[r] \in Readings /\ ReaderOK(reader[r]) /\ reader[r].pc = "fetching"
  BY Zenon DEF Look, HorizonInv, CacheOK
<1>1. PICK x : x = [reader[r] EXCEPT !.made = clock]
  BY Zenon
<1>2. x \in Readings /\ x.pc = "fetching" /\ x.since = reader[r].since /\ x.made = clock
  BY Zenon, <1>0, <1>1 DEF Readings
<1>3. ReaderOK(x)
  BY <1>0, <1>2 DEF ReaderOK, Readings
<1>4. reader' = [reader EXCEPT ![r] = x]
  BY Zenon, <1>1 DEF Look
<1> QED BY Zenon, <1>0, <1>2, <1>3, <1>4, ReaderMoves

(* Good figures are put in the cache and served.                           *)
LEMMA FeeStatsDone ==
    ASSUME HorizonInv, NEW r \in Readers, NEW answer \in Answers, fee_stats_done(r, answer)
    PROVE  HorizonInv'
<1>0. /\ clock \in Nat /\ CacheOK /\ UNCHANGED <<clock, told>>
      /\ fee_stats_cache \in {Empty} \cup [at : Nat, made : Nat]
      /\ reader[r] \in Readings /\ ReaderOK(reader[r]) /\ reader[r].pc = "fetching"
  BY Zenon DEF fee_stats_done, HorizonInv
<1>1. CASE fetch("fee_stats", answer) = "Ok"
  <2>1. answer # "unsent"
    BY Zenon, <1>1 DEF fetch
  <2>2. /\ reader[r].made \in Nat /\ reader[r].made <= clock /\ clock - reader[r].made <= FetchTime
    BY <1>0, <2>1, FeeTtlAssumption DEF fee_stats_done, ReaderOK, Readings
  <2>3. PICK x : x = [Idle EXCEPT !.pc = "served", !.made = reader[r].made]
    BY Zenon
  <2>4. x \in Readings /\ x.pc = "served" /\ x.made = reader[r].made
    BY Zenon, <2>2, <2>3 DEF Readings, Idle
  <2>5. ReaderOK(x) /\ x.made \in clock - (FeeTtl - 1) - FetchTime .. clock
    BY <1>0, <2>2, <2>4, FeeTtlAssumption DEF ReaderOK
  <2>6. /\ reader' = [reader EXCEPT ![r] = x]
        /\ fee_stats_cache' = [at |-> clock, made |-> reader[r].made]
    BY Zenon, <1>1, <2>3 DEF fee_stats_done
  <2>7. fee_stats_cache' \in {Empty} \cup [at : Nat, made : Nat] /\ CacheOK'
    BY <1>0, <2>2, <2>6 DEF CacheOK
  <2> QED BY Zenon, <1>0, <2>4, <2>5, <2>6, <2>7, ReaderMoves
<1>2. CASE fetch("fee_stats", answer) # "Ok"
  <2>1. /\ reader' = [reader EXCEPT ![r] = Idle] /\ UNCHANGED fee_stats_cache
    BY Zenon, <1>2 DEF fee_stats_done
  <2>2. CacheOK' /\ ReaderOK(Idle)
    BY Zenon, <1>0, <2>1, IdleReader DEF CacheOK, ReaderOK
  <2> QED BY Zenon, <1>0, <2>1, <2>2, IdleReader, ReaderMoves
<1> QED BY Zenon, <1>1, <1>2

(* A route is told that something is missing only after a 404.             *)
LEMMA AskStep ==
    ASSUME HorizonInv, NEW endpoint, NEW answers, NEW circuit \in BOOLEAN, Ask(endpoint, answers, circuit)
    PROVE  HorizonInv'
<1>1. AbsenceIsAnswered'
  <2>1. CASE circuit
    BY Zenon, <2>1 DEF Ask, AbsenceIsAnswered, transaction_by_hash, map_result
  <2>2. CASE ~circuit
    <3>1. PICK a : a = answers[Len(answers)]
      BY Zenon
    <3>2. fetch(endpoint, a) = "NotFound" => a = "404"
      BY Zenon DEF fetch
    <3>3. /\ told'.answers = answers /\ answers # <<>>
          /\ told'.as = IF endpoint = "transaction_by_hash"
                        THEN transaction_by_hash(circuit, fetch(endpoint, a))
                        ELSE map_result(circuit, fetch(endpoint, a))
      BY Zenon, <2>2, <3>1 DEF Ask
    <3>4. told'.as = "NotFound" => fetch(endpoint, a) = "NotFound"
      BY Zenon, <2>2, <3>3 DEF transaction_by_hash, map_result
    <3> QED BY Zenon, <3>1, <3>2, <3>3, <3>4 DEF AbsenceIsAnswered
  <2> QED BY Zenon, <2>1, <2>2
<1>2. UNCHANGED <<clock, fee_stats_cache, reader>>
  BY Zenon DEF Ask
<1> QED BY Zenon, <1>1, <1>2 DEF HorizonInv, AnswersHold, FiguresRecent, CacheOK, ReaderOK

(* Time passes no further than a fetch may take, so what is cached or on   *)
(* its way stays recent.                                                   *)
LEMMA PassStep ==
    ASSUME HorizonInv, Pass
    PROVE  HorizonInv'
<1>0. /\ clock \in Nat /\ clock' = clock + 1 /\ UNCHANGED <<fee_stats_cache, reader, told>>
      /\ reader \in [Readers -> Readings] /\ fee_stats_cache \in {Empty} \cup [at : Nat, made : Nat]
  BY Zenon DEF Pass, HorizonInv
<1>1. CacheOK'
  BY <1>0 DEF HorizonInv, CacheOK
<1>2. ASSUME NEW r \in Readers PROVE ReaderOK(reader[r])' /\ reader'[r].pc # "served"
  <2>1. reader[r] \in Readings /\ reader'[r] = reader[r] /\ ReaderOK(reader[r])
    BY Zenon, <1>0 DEF HorizonInv
  <2>2. /\ reader[r].pc # "served"
        /\ reader[r].pc = "fetching" => clock - reader[r].since < FetchTime
    BY Zenon DEF Pass
  <2>3. reader[r].since \in Nat /\ reader[r].made \in Nat \cup {-1}
    BY Zenon, <2>1 DEF Readings
  <2> QED BY <1>0, <2>1, <2>2, <2>3, FeeTtlAssumption DEF ReaderOK
<1> QED BY <1>0, <1>1, <1>2 DEF HorizonInv, AnswersHold, FiguresRecent, AbsenceIsAnswered

(* The figures a route is given are no older than the cache and a fetch    *)
(* make them, however fetches overlap, and an absence is one that Horizon  *)
(* has reported (octo_api::horizon).                                       *)
THEOREM HorizonAnswersHold == HorizonSpec => []AnswersHold
<1>1. FeeInit => HorizonInv
  <2> SUFFICES ASSUME FeeInit PROVE HorizonInv
    BY Zenon
  <2>1. \A r \in Readers : reader[r] = Idle
    BY Zenon DEF FeeInit
  <2>2. AnswersHold
    BY Zenon, <2>1, IdleReader DEF FeeInit, NotAsked, AnswersHold, FiguresRecent, AbsenceIsAnswered
  <2> QED BY Zenon, <2>1, <2>2, IdleReader DEF FeeInit, HorizonInv, CacheOK, ReaderOK
<1>2. HorizonInv /\ [FeeNext \/ AskNext]_feevars => HorizonInv'
  <2> SUFFICES ASSUME HorizonInv, [FeeNext \/ AskNext]_feevars PROVE HorizonInv'
    BY Zenon
  <2>1. CASE UNCHANGED feevars
    BY Zenon, <2>1 DEF feevars, HorizonInv, CacheOK, ReaderOK, AnswersHold, FiguresRecent, AbsenceIsAnswered
  <2>2. ASSUME NEW r \in Readers, Respond(r) PROVE HorizonInv'
    <3>1. /\ fee_stats_cache' \in {Empty} \cup [at : Nat, made : Nat] /\ CacheOK' /\ ReaderOK(Idle)
          /\ UNCHANGED <<clock, told>>
      BY Zenon, <2>2, IdleReader DEF Respond, HorizonInv, CacheOK, ReaderOK
    <3> QED BY Zenon, <2>2, <3>1, IdleReader, ReaderMoves DEF Respond
  <2> QED BY Zenon, <2>1, <2>2, FeeStatsStep, LookStep, FeeStatsDone, PassStep, AskStep DEF FeeNext, AskNext
<1>3. HorizonInv => AnswersHold
  BY Zenon DEF HorizonInv
<1> QED BY <1>1, <1>2, <1>3, PTL DEF HorizonSpec

(***************************************************************************)
(* Polling.                                                                *)
(***************************************************************************)

(* A set of ids that is not empty has a least one.                         *)
LEMMA LeastId ==
    ASSUME NEW T \in SUBSET Nat, T # {}
    PROVE  \E x \in T : \A y \in T : x <= y
<1>1. IsWellFoundedOn(OpToRel(<, Nat), Nat)
  BY NatLessThanWellFounded, Zenon
<1>2. PICK x \in T : \A y \in T : ~(<<y, x>> \in OpToRel(<, Nat))
  BY <1>1, WFMin, Zenon
<1>3. \A y \in T : ~(y < x)
  BY <1>2, Zenon DEF OpToRel
<1> QED BY <1>3

(* The first ids of a set, in their order: as many as a page takes or all, *)
(* and none before the last of them is left out.                           *)
LEMMA FirstPageIs ==
    ASSUME NEW R \in SUBSET Polled
    PROVE  /\ FirstPage(R) \subseteq R /\ IsFiniteSet(FirstPage(R))
           /\ Cardinality(FirstPage(R)) \in Nat /\ Cardinality(FirstPage(R)) <= FanoutPage
           /\ Cardinality(FirstPage(R)) < FanoutPage => FirstPage(R) = R
           /\ \A w \in R, m \in FirstPage(R) : w <= m => w \in FirstPage(R)
           /\ FirstPage(R) # {} => /\ Max(FirstPage(R)) \in FirstPage(R)
                                  /\ \A w \in FirstPage(R) : w <= Max(FirstPage(R))
<1>0. R \subseteq Nat /\ IsFiniteSet(R) /\ FanoutPage \in Nat \ {0}
  BY PollingAssumption, FS_Subset, Zenon
<1> DEFINE first(w) == {v \in R : v < w}
<1>1. \A w \in R : first(w) \subseteq R /\ IsFiniteSet(first(w)) /\ Cardinality(first(w)) \in Nat
  BY Zenon, <1>0, FS_Subset, FS_CardinalityType
<1>2. \A w \in R : w \in FirstPage(R) <=> Cardinality(first(w)) < FanoutPage
  BY Zenon DEF FirstPage
<1>3. FirstPage(R) \subseteq R
  BY Zenon DEF FirstPage
<1>a. \A w \in FirstPage(R) : w \in R /\ w \in Nat /\ Cardinality(first(w)) < FanoutPage
  BY <1>0, <1>2, <1>3, Zenon
<1>4. \A w, m \in R : w <= m => Cardinality(first(w)) <= Cardinality(first(m))
  <2> TAKE w, m \in R
  <2> HAVE w <= m
  <2>0. \A v \in R : v < w => v < m
    BY <1>0
  <2>1. first(w) \subseteq first(m)
    BY <2>0, Zenon
  <2> HIDE DEF first
  <2> QED BY Zenon, <1>1, <2>1, FS_Subset
<1>5. ASSUME NEW w \in R, NEW m \in FirstPage(R), w <= m PROVE w \in FirstPage(R)
  <2>1. m \in R /\ Cardinality(first(w)) <= Cardinality(first(m)) /\ Cardinality(first(m)) < FanoutPage
    BY Zenon, <1>2, <1>3, <1>4, <1>5
  <2> HIDE DEF first
  <2> QED BY <1>0, <1>1, <1>2, <1>5, <2>1
<1>6. IsFiniteSet(FirstPage(R)) /\ Cardinality(FirstPage(R)) \in Nat
  BY Zenon, <1>0, <1>3, FS_Subset, FS_CardinalityType
<1>b. ASSUME FirstPage(R) # {} PROVE \E m \in FirstPage(R) : \A w \in FirstPage(R) : w <= m
  <2>1. PICK a : a = [w \in FirstPage(R) |-> Cardinality(first(w))]
    BY Zenon
  <2>2. PICK T : T = {FanoutPage - a[w] : w \in FirstPage(R)}
    BY Zenon
  <2>3. \A w \in FirstPage(R) : a[w] = Cardinality(first(w)) /\ FanoutPage - a[w] \in Nat
    <3>1. \A w \in FirstPage(R) : a[w] = Cardinality(first(w))
      BY <2>1, Zenon
    <3> HIDE DEF first
    <3> QED BY <1>0, <1>1, <1>a, <3>1
  <2>4. T \in SUBSET Nat /\ T # {}
    BY <1>b, <2>2, <2>3, Zenon
  <2>5. PICK t \in T : \A u \in T : t <= u
    BY Zenon, <2>4, LeastId
  <2>6. PICK m \in FirstPage(R) : t = FanoutPage - a[m]
    BY <2>2, <2>5, Zenon
  <2>7. ASSUME NEW w \in FirstPage(R), ~(w <= m) PROVE FALSE
    <3>0. m \in R /\ w \in R /\ m \in Nat /\ w \in Nat
      BY <1>a, Zenon
    <3>1. m \in R /\ w \in R /\ m < w
      BY <2>7, <3>0
    <3>2. first(m) \subseteq first(w)
      <4>1. \A v \in R : v < m => v < w
        BY <1>0, <3>1
      <4> QED BY <4>1, Zenon
    <3>3. m \in first(w) /\ m \notin first(m)
      <4>1. ~(m < m)
        BY <1>0, <3>1
      <4> QED BY <3>1, <4>1, Zenon
    <3>4. Cardinality(first(m)) < Cardinality(first(w))
      <4>1. first(m) # first(w)
        BY <3>3, Zenon
      <4> HIDE DEF first
      <4>2. Cardinality(first(m)) <= Cardinality(first(w)) /\ Cardinality(first(m)) # Cardinality(first(w))
        BY Zenon, <1>1, <3>1, <3>2, <4>1, FS_Subset
      <4> QED BY <1>1, <3>1, <4>2
    <3>5. FanoutPage - a[w] \in T
      BY <2>2, Zenon
    <3>6. FanoutPage - a[m] <= FanoutPage - a[w]
      BY Zenon, <2>5, <2>6, <3>5
    <3> HIDE DEF first
    <3> QED BY <1>0, <1>1, <2>3, <3>1, <3>4, <3>6
  <2> QED BY <2>7, Zenon
<1>7. Cardinality(FirstPage(R)) <= FanoutPage
  <2>1. SUFFICES ASSUME FirstPage(R) # {} PROVE Cardinality(FirstPage(R)) <= FanoutPage
    BY <1>0, FS_EmptySet
  <2>2. PICK m \in FirstPage(R) : \A w \in FirstPage(R) : w <= m
    BY Zenon, <1>b, <2>1
  <2>3. m \in R /\ Cardinality(first(m)) < FanoutPage
    BY Zenon, <1>2, <1>3, <2>2
  <2>4. FirstPage(R) \ {m} \subseteq first(m)
    <3>1. ASSUME NEW w \in FirstPage(R), w # m PROVE w < m
      <4>1. w \in Nat /\ m \in Nat /\ w <= m
        BY <1>a, <2>2, Zenon
      <4> QED BY <3>1, <4>1
    <3> QED BY <1>3, <3>1, Zenon
  <2>5. Cardinality(FirstPage(R) \ {m}) = Cardinality(FirstPage(R)) - 1
    BY Zenon, <1>6, <2>2, FS_RemoveElement
  <2> HIDE DEF first
  <2>6. Cardinality(FirstPage(R) \ {m}) <= Cardinality(first(m))
    BY Zenon, <1>1, <2>3, <2>4, FS_Subset
  <2> QED BY <1>0, <1>1, <1>6, <2>3, <2>5, <2>6
<1>8. ASSUME Cardinality(FirstPage(R)) < FanoutPage PROVE FirstPage(R) = R
  <2>1. SUFFICES ASSUME R \ FirstPage(R) # {} PROVE FALSE
    BY <1>3, Zenon
  <2>2. PICK w \in R \ FirstPage(R) : \A v \in R \ FirstPage(R) : w <= v
    <3>1. R \ FirstPage(R) \in SUBSET Nat
      BY Zenon, <1>0
    <3> QED BY Zenon, <2>1, <3>1, LeastId
  <2>3. first(w) \subseteq FirstPage(R)
    <3>1. \A v \in R : v < w => ~(w <= v)
      BY <1>0
    <3> QED BY <2>2, <3>1, Zenon
  <2> HIDE DEF first
  <2>4. Cardinality(first(w)) <= Cardinality(FirstPage(R))
    BY Zenon, <1>6, <2>3, FS_Subset
  <2> QED BY <1>0, <1>1, <1>2, <1>6, <1>8, <2>2, <2>4
<1>9. ASSUME FirstPage(R) # {}
      PROVE  Max(FirstPage(R)) \in FirstPage(R) /\ \A w \in FirstPage(R) : w <= Max(FirstPage(R))
  <2>1. PICK m \in FirstPage(R) : \A w \in FirstPage(R) : w <= m
    BY Zenon, <1>b, <1>9
  <2>2. \A x, w \in FirstPage(R) : x >= w <=> w <= x
    BY Zenon, <1>a
  <2>3. \E x \in FirstPage(R) : \A y \in FirstPage(R) : x >= y
    BY <2>1, <2>2, Zenon
  <2>4. Max(FirstPage(R)) \in FirstPage(R) /\ \A w \in FirstPage(R) : Max(FirstPage(R)) >= w
    BY <2>3, Zenon DEF Max
  <2> QED BY <2>2, <2>4, Zenon
<1> QED BY Zenon, <1>3, <1>5, <1>6, <1>7, <1>8, <1>9
(* The smaller of two numbers.                                             *)
LEMMA SmallerIs ==
    ASSUME NEW a \in Nat, NEW b \in Nat
    PROVE  Min({a, b}) \in Nat /\ Min({a, b}) <= a /\ Min({a, b}) <= b
<1>1. \E x \in {a, b} : \A y \in {a, b} : x <= y
  BY Zenon, LeastId
<1>2. Min({a, b}) \in {a, b} /\ \A y \in {a, b} : Min({a, b}) <= y
  BY <1>1, Zenon DEF Min
<1> QED BY Zenon, <1>2

(* A wallet's task moves on: what it has recorded stays within its budget, *)
(* and it changes the cursor of no wallet whose turn has not come.         *)
LEMMA TaskMoves ==
    ASSUME PollingInv, PollTypeOK', NEW w \in Polled, turn[w].pc # "none",
           \A v \in Polled : v # w => /\ turn'[v] = turn[v] /\ cursor'[v] = cursor[v]
                                     /\ pass'.drawn[v] = pass.drawn[v],
           pass'.at = pass.at, pass'.after = pass.after, pass'.error = pass.error,
           pass'.steady = pass.steady, pass'.begun = pass.begun, UNCHANGED <<now_, paused, live>>,
           TurnOK(turn'[w], pass'.drawn[w], pass.begun[w], pass.at)
    PROVE  PollingInv'
<1>1. pass.begun[w] = 1
  BY Zenon DEF PollingInv, TurnOK
<1>2. QueueBounded'
  <2>1. Tasks' \subseteq Tasks /\ Tasks \subseteq Polled
    BY Zenon DEF Tasks
  <2>2. IsFiniteSet(Tasks) /\ Cardinality(Tasks) \in Nat /\ Cardinality(Tasks') \in Nat
        /\ Cardinality(Tasks') <= Cardinality(Tasks)
    BY Zenon, <2>1, PollingAssumption, FS_Subset, FS_CardinalityType
  <2>3. Cardinality(Tasks) <= 2 * FanoutPage /\ FanoutPage \in Nat
    BY Zenon, PollingAssumption DEF PollingInv, QueueBounded
  <2>4. Cardinality(Tasks') <= 2 * FanoutPage
    BY <2>2, <2>3
  <2> QED BY Zenon, <2>4 DEF QueueBounded
<1>3. \A v \in Polled : TurnOK(turn'[v], pass'.drawn[v], pass'.begun[v], pass'.at)
  BY Zenon DEF PollingInv
<1>4. ASSUME pass.at = "page", NEW v \in Polled PROVE PageOK(v)'
  <2>1. PageOK(v)
    BY Zenon, <1>4 DEF PollingInv
  <2>2. CASE pass.begun[v] = 0
    <3>1. v # w /\ cursor'[v] = cursor[v]
      BY <1>1, <2>2
    <3>2. v \in Due => v \in Due'
      BY Zenon, <3>1 DEF Due
    <3> QED BY Zenon, <2>1, <3>2 DEF PageOK
  <2>3. CASE pass.begun[v] # 0
    BY Zenon, <2>1, <2>3 DEF PageOK
  <2> QED BY Zenon, <2>2, <2>3
<1>5. pass.at # "page" /\ ~pass.error => \A v \in pass.steady : pass.begun[v] = 1
  BY Zenon DEF PollingInv
<1> QED BY Zenon, <1>2, <1>3, <1>4, <1>5 DEF PollingInv
(* The permit moves no record.                                             *)
LEMMA AcquirePolls ==
    ASSUME PollingInv, NEW w \in Polled, acquire_owned(w)
    PROVE  PollingInv'
<1>1. turn[w] \in PollTurns /\ turn[w].pc = "queued" /\ turn \in [Polled -> PollTurns]
  BY Zenon DEF PollingInv, PollTypeOK, acquire_owned
<1>2. PICK t \in PollTurns : t = [turn[w] EXCEPT !.pc = "permit"]
  BY Zenon, <1>1 DEF PollTurns
<1>3. turn' = [turn EXCEPT ![w] = t]
  BY Zenon, <1>2 DEF acquire_owned
<1>4. PollTypeOK'
  BY Zenon, <1>1, <1>3 DEF PollingInv, PollTypeOK, acquire_owned
<1>5. TurnOK(turn'[w], pass'.drawn[w], pass.begun[w], pass.at)
  BY <1>1, <1>2, <1>3 DEF PollingInv, acquire_owned, TurnOK, PollTurns
<1> QED BY Zenon, <1>1, <1>3, <1>4, <1>5, TaskMoves DEF acquire_owned

(* What one page draws is within the limit of its task.                    *)
LEMMA PageDraws ==
    ASSUME PollingInv, NEW w \in Polled, poll_once(w)
    PROVE  PollingInv'
<1>1. /\ turn[w] \in PollTurns /\ turn[w].pc = "permit" /\ turn \in [Polled -> PollTurns]
      /\ pass \in PollPasses /\ turn[w].limit \in Nat /\ backlog[w] \in Nat /\ pass.drawn[w] \in Nat
      /\ backlog \in [Polled -> Nat] /\ now_ \in Nat
  BY Zenon DEF PollingInv, PollTypeOK, poll_once, PollTurns, PollPasses
<1>2. PICK n \in 0 .. Min({turn[w].limit, backlog[w]}), ok \in BOOLEAN :
         /\ Draw(w, n) /\ pass' = [pass EXCEPT !.drawn[w] = @ + n]
         /\ turn' = [turn EXCEPT ![w].pc = "polled", ![w].n = n, ![w].ok = ok]
  BY Zenon DEF poll_once
<1>3. n \in Nat /\ n <= turn[w].limit /\ n <= backlog[w]
  <2>1. PICK m \in Nat : m = Min({turn[w].limit, backlog[w]}) /\ m <= turn[w].limit /\ m <= backlog[w]
    BY Zenon, <1>1, SmallerIs
  <2> QED BY <1>1, <2>1
<1>4. PICK t \in PollTurns : t = [turn[w] EXCEPT !.pc = "polled", !.n = n, !.ok = ok]
  BY Zenon, <1>1, <1>3 DEF PollTurns
<1>5. turn' = [turn EXCEPT ![w] = t]
  BY Zenon, <1>1, <1>2, <1>4
<1>6. PICK d \in [Polled -> Nat] : d = [pass.drawn EXCEPT ![w] = @ + n]
  <2>1. PICK m \in Nat : m = pass.drawn[w] + n
    BY <1>1, <1>3
  <2>2. pass.drawn \in [Polled -> Nat]
    BY Zenon, <1>1 DEF PollPasses
  <2>3. [pass.drawn EXCEPT ![w] = m] \in [Polled -> Nat]
    BY Zenon, <2>2
  <2>4. [pass.drawn EXCEPT ![w] = @ + n] = [pass.drawn EXCEPT ![w] = m]
    BY <2>1, Zenon
  <2> QED BY <2>3, <2>4, Zenon
<1>7. pass' = [pass EXCEPT !.drawn = d]
  BY Zenon, <1>1, <1>2, <1>6 DEF PollPasses
<1>8. /\ pass' \in PollPasses /\ pass'.drawn = d
      /\ pass'.at = pass.at /\ pass'.after = pass.after /\ pass'.error = pass.error
      /\ pass'.steady = pass.steady /\ pass'.begun = pass.begun
  BY Zenon, <1>1, <1>6, <1>7 DEF PollPasses
<1>9. /\ cursor' \in [Polled -> [polled : Nat, activity : Nat]]
      /\ \A v \in Polled : v # w => cursor'[v] = cursor[v]
  BY Zenon, <1>1, <1>2 DEF Draw, PollingInv, PollTypeOK
<1>10. backlog' \in [Polled -> Nat]
  BY <1>1, <1>2, <1>3 DEF Draw
<1>11. PollTypeOK' /\ UNCHANGED <<now_, paused, live>>
  BY Zenon, <1>1, <1>5, <1>8, <1>9, <1>10 DEF PollTypeOK, poll_once
<1>12. pass'.drawn[w] = pass.drawn[w] + n /\ \A v \in Polled : v # w => pass'.drawn[v] = pass.drawn[v]
  BY Zenon, <1>1, <1>6, <1>8 DEF PollPasses
<1>13. turn'[w] = t /\ \A v \in Polled : v # w => turn'[v] = turn[v]
  BY Zenon, <1>1, <1>5
<1>14. TurnOK(turn'[w], pass'.drawn[w], pass.begun[w], pass.at)
  <2>1. TurnOK(turn[w], pass.drawn[w], pass.begun[w], pass.at)
    BY Zenon DEF PollingInv
  <2>2. /\ t.pc = "polled" /\ t.n = n /\ t.pages = turn[w].pages /\ t.records = turn[w].records
        /\ t.limit = turn[w].limit
    BY Zenon, <1>1, <1>4 DEF PollTurns
  <2>3. turn[w].records \in Nat /\ turn[w].pages \in Nat /\ MaxRecords \in Nat
    BY Zenon, <1>1, PollingAssumption DEF PollTurns
  <2> QED BY <1>1, <1>3, <1>12, <1>13, <2>1, <2>2, <2>3 DEF TurnOK
<1> QED BY Zenon, <1>1, <1>8, <1>9, <1>11, <1>12, <1>13, <1>14, TaskMoves

(* The page is counted, and recorded when it was processed whole.          *)
LEMMA MarkPolls ==
    ASSUME PollingInv, NEW w \in Polled, mark_polled(w)
    PROVE  PollingInv'
<1>1. /\ turn[w] \in PollTurns /\ turn[w].pc = "polled" /\ turn \in [Polled -> PollTurns]
      /\ turn[w].records \in Nat /\ turn[w].pages \in Nat /\ turn[w].n \in Nat /\ turn[w].limit \in Nat
      /\ now_ \in Nat /\ turn[w].ok \in BOOLEAN
  BY Zenon DEF PollingInv, PollTypeOK, mark_polled, PollTurns
<1>2. PICK n \in Nat : n = turn[w].records + (IF turn[w].ok THEN turn[w].n ELSE 0)
  BY <1>1
<1>a. PICK k \in Nat : k = turn[w].pages + 1
  BY <1>1
<1>3. PICK t \in PollTurns : t = [turn[w] EXCEPT !.pc = "done", !.pages = k, !.records = n]
  BY Zenon, <1>1, <1>2, <1>a DEF PollTurns
<1>4. turn' = [turn EXCEPT ![w] = t]
  BY Zenon, <1>1, <1>2, <1>3, <1>a DEF mark_polled
<1>5. /\ cursor' \in [Polled -> [polled : Nat, activity : Nat]]
      /\ \A v \in Polled : v # w => cursor'[v] = cursor[v]
  <2>1. cursor \in [Polled -> [polled : Nat, activity : Nat]]
    BY Zenon DEF PollingInv, PollTypeOK
  <2>2. CASE cursor' = cursor
    BY Zenon, <2>1, <2>2
  <2>3. CASE cursor' = [cursor EXCEPT ![w].polled = now_]
    BY Zenon, <1>1, <2>1, <2>3
  <2> QED BY Zenon, <2>2, <2>3 DEF mark_polled
<1>6. PollTypeOK'
  <2>1. UNCHANGED <<now_, backlog, pass>> /\ PollTypeOK
    BY Zenon DEF PollingInv, mark_polled
  <2>2. turn' \in [Polled -> PollTurns]
    BY Zenon, <1>1, <1>4
  <2> QED BY Zenon, <1>5, <2>1, <2>2 DEF PollTypeOK
<1>7. turn'[w] = t /\ \A v \in Polled : v # w => turn'[v] = turn[v]
  BY Zenon, <1>1, <1>4
<1>8. TurnOK(turn'[w], pass'.drawn[w], pass.begun[w], pass.at)
  <2>1. TurnOK(turn[w], pass.drawn[w], pass.begun[w], pass.at) /\ pass' = pass
    BY Zenon DEF PollingInv, mark_polled
  <2>2. /\ t.pc = "done" /\ t.ok = turn[w].ok /\ t.pages = turn[w].pages + 1 /\ t.records = n
    BY Zenon, <1>1, <1>3, <1>a DEF PollTurns
  <2>3. MaxPages \in Nat
    BY Zenon, PollingAssumption
  <2> QED BY <1>1, <1>2, <1>7, <2>1, <2>2, <2>3 DEF TurnOK
<1> QED BY Zenon, <1>1, <1>5, <1>6, <1>7, <1>8, TaskMoves DEF mark_polled

(* A panic records nothing, and its wallet is not queued again.            *)
LEMMA PanicPolls ==
    ASSUME PollingInv, NEW w \in Polled, poll_panics(w)
    PROVE  PollingInv'
<1>1. turn[w] \in PollTurns /\ turn[w].pc = "permit" /\ turn \in [Polled -> PollTurns]
  BY Zenon DEF PollingInv, PollTypeOK, poll_panics
<1>2. PICK t \in PollTurns : t = [turn[w] EXCEPT !.pc = "done", !.ok = FALSE]
  BY Zenon, <1>1 DEF PollTurns
<1>3. turn' = [turn EXCEPT ![w] = t]
  BY Zenon, <1>1, <1>2 DEF poll_panics
<1>4. PollTypeOK'
  BY Zenon, <1>1, <1>3 DEF PollingInv, PollTypeOK, poll_panics
<1>5. TurnOK(turn'[w], pass'.drawn[w], pass.begun[w], pass.at)
  <2>1. TurnOK(turn[w], pass.drawn[w], pass.begun[w], pass.at) /\ pass' = pass
    BY Zenon DEF PollingInv, poll_panics
  <2>2. t.pc = "done" /\ ~t.ok /\ t.pages = turn[w].pages /\ turn'[w] = t
    BY Zenon, <1>1, <1>2, <1>3 DEF PollTurns
  <2> QED BY Zenon, <1>1, <2>1, <2>2 DEF TurnOK
<1> QED BY Zenon, <1>1, <1>3, <1>4, <1>5, TaskMoves DEF poll_panics

(* The limit of the next page is what the budget leaves.                   *)
LEMMA SpawnIs ==
    ASSUME NEW t \in PollTurns, t.records <= MaxRecords
    PROVE  /\ spawn_page(t) \in PollTurns /\ spawn_page(t).pc = "queued"
           /\ spawn_page(t).pages = t.pages /\ spawn_page(t).records = t.records
           /\ t.records + spawn_page(t).limit <= MaxRecords
<1>1. PageRecords \in Nat /\ MaxRecords - t.records \in Nat /\ t.records \in Nat /\ MaxRecords \in Nat
  BY PollingAssumption DEF PollTurns
<1>2. PICK r \in Nat : r = MaxRecords - t.records
  BY Zenon, <1>1
<1>3. PICK m \in Nat : m = Min({PageRecords, r}) /\ m <= r
  BY Zenon, <1>1, SmallerIs
<1>4. spawn_page(t) = [t EXCEPT !.pc = "queued", !.limit = m]
  BY Zenon, <1>2, <1>3 DEF spawn_page
<1>5. /\ spawn_page(t) \in PollTurns /\ spawn_page(t).pc = "queued" /\ spawn_page(t).limit = m
      /\ spawn_page(t).pages = t.pages /\ spawn_page(t).records = t.records
  BY Zenon, <1>3, <1>4 DEF PollTurns
<1>6. t.records + m <= MaxRecords
  BY <1>1, <1>2, <1>3
<1> QED BY <1>5, <1>6, Zenon

(* A wallet is queued again only with budget left.                         *)
LEMMA SettlePolls ==
    ASSUME PollingInv, NEW w \in Polled, settle(w)
    PROVE  PollingInv'
<1>1. turn[w] \in PollTurns /\ turn[w].pc = "done" /\ turn \in [Polled -> PollTurns]
  BY Zenon DEF PollingInv, PollTypeOK, settle
<1>2. PICK t : turn' = [turn EXCEPT ![w] = t]
               /\ \/ t = NoTurn
                  \/ /\ t = spawn_page(turn[w]) /\ turn[w].ok
                     /\ turn[w].pages < MaxPages /\ turn[w].records < MaxRecords
  BY Zenon DEF settle
<1>a. turn[w].records \in Nat /\ turn[w].pages \in Nat /\ MaxRecords \in Nat /\ MaxPages \in Nat
  BY Zenon, <1>1, PollingAssumption DEF PollTurns
<1>b. NoTurn \in PollTurns /\ NoTurn.pc = "none" /\ NoTurn.pages = 0
  BY Zenon DEF NoTurn, PollTurns
<1>3. /\ t \in PollTurns
      /\ \/ t.pc = "none" /\ t.pages = 0
         \/ /\ t.pc = "queued" /\ t.pages = turn[w].pages /\ t.records = turn[w].records
            /\ t.records + t.limit <= MaxRecords /\ turn[w].ok
            /\ turn[w].pages < MaxPages /\ turn[w].records < MaxRecords
  <2>1. CASE t = NoTurn
    BY Zenon, <1>b, <2>1
  <2>2. CASE t # NoTurn
    <3>1. turn[w].records <= MaxRecords
      BY <1>2, <1>a, <2>2
    <3> QED BY <1>1, <1>2, <2>2, <3>1, SpawnIs
  <2> QED BY Zenon, <2>1, <2>2
<1>4. PollTypeOK'
  BY Zenon, <1>1, <1>2, <1>3 DEF PollingInv, PollTypeOK, settle
<1>5. turn'[w] = t /\ \A v \in Polled : v # w => turn'[v] = turn[v]
  BY Zenon, <1>1, <1>2
<1>6. TurnOK(turn'[w], pass'.drawn[w], pass.begun[w], pass.at)
  <2>1. TurnOK(turn[w], pass.drawn[w], pass.begun[w], pass.at) /\ pass' = pass
    BY Zenon DEF PollingInv, settle
  <2> QED BY <1>1, <1>3, <1>5, <1>a, <2>1 DEF TurnOK
<1> QED BY Zenon, <1>1, <1>4, <1>5, <1>6, TaskMoves DEF settle
(* The world moves on: who is no longer due, or has a stream, before its   *)
(* turn came is not among those the pass must serve.                       *)
LEMMA MeanwhilePolls ==
    ASSUME PollingInv, Meanwhile
    PROVE  PollingInv'
<1>1. /\ now_ \in Nat /\ cursor \in [Polled -> [polled : Nat, activity : Nat]]
      /\ backlog \in [Polled -> Nat] /\ turn \in [Polled -> PollTurns] /\ pass \in PollPasses
  BY Zenon DEF PollingInv, PollTypeOK
<1>2. /\ turn' = turn /\ Steady
      /\ \/ Second
         \/ \E w \in Polled : Pause(w) \/ Stream(w) \/ Delivered(w) \/ Arrive(w)
  BY Zenon DEF Meanwhile
<1>3. PICK S \in SUBSET Polled :
         S = {w \in pass.steady : pass.begun[w] > 0 \/
                                   (w \notin paused' \cup live' /\ IsDue(cursor'[w], now_'))}
  BY Zenon, <1>1 DEF PollPasses
<1>4. pass' = [pass EXCEPT !.steady = S]
  BY Zenon, <1>2, <1>3 DEF Steady
<1>5. /\ pass' \in PollPasses /\ pass'.steady = S /\ pass'.at = pass.at /\ pass'.after = pass.after
      /\ pass'.error = pass.error /\ pass'.begun = pass.begun /\ pass'.drawn = pass.drawn
  BY Zenon, <1>1, <1>3, <1>4 DEF PollPasses
<1>6. now_' \in Nat /\ cursor' \in [Polled -> [polled : Nat, activity : Nat]] /\ backlog' \in [Polled -> Nat]
  <2>1. CASE Second
    BY <1>1, <2>1 DEF Second
  <2>2. ASSUME NEW w \in Polled, Pause(w) \/ Stream(w)
        PROVE  now_' = now_ /\ cursor' = cursor /\ backlog' = backlog
    BY Zenon, <2>2 DEF Pause, Stream
  <2>3. ASSUME NEW w \in Polled, Delivered(w)
        PROVE  now_' = now_ /\ cursor' \in [Polled -> [polled : Nat, activity : Nat]]
               /\ backlog' \in [Polled -> Nat]
    <3>1. now_' = now_ /\ cursor' = [cursor EXCEPT ![w].activity = now_]
          /\ backlog' = [backlog EXCEPT ![w] = @ - 1] /\ backlog[w] > 0
      BY <2>3 DEF Delivered, Draw
    <3>2. cursor' \in [Polled -> [polled : Nat, activity : Nat]]
      BY Zenon, <1>1, <3>1
    <3>3. backlog' \in [Polled -> Nat]
      BY <1>1, <3>1
    <3> QED BY Zenon, <3>1, <3>2, <3>3
  <2>4. ASSUME NEW w \in Polled, Arrive(w)
        PROVE  now_' = now_ /\ cursor' = cursor /\ backlog' \in [Polled -> Nat]
    BY <1>1, <2>4 DEF Arrive
  <2> QED BY Zenon, <1>1, <1>2, <2>1, <2>2, <2>3, <2>4
<1>7. PollTypeOK'
  BY Zenon, <1>1, <1>2, <1>5, <1>6 DEF PollTypeOK
<1>8. QueueBounded'
  BY Zenon, <1>2 DEF PollingInv, QueueBounded, Tasks
<1>9. \A v \in Polled : TurnOK(turn'[v], pass'.drawn[v], pass'.begun[v], pass'.at)
  BY Zenon, <1>2, <1>5 DEF PollingInv
<1>10. ASSUME pass.at = "page", NEW v \in Polled PROVE PageOK(v)'
  <2>1. PageOK(v)
    BY Zenon, <1>10 DEF PollingInv
  <2>2. pass.begun[v] \in Nat
    BY Zenon, <1>1 DEF PollPasses
  <2>3. v \in S /\ pass.begun[v] = 0 => v \in pass.steady /\ v \in Due' \ live'
    BY <1>3, <2>2 DEF Due
  <2> QED BY Zenon, <1>5, <2>1, <2>3 DEF PageOK
<1>11. pass.at # "page" /\ ~pass.error => \A v \in S : pass.begun[v] = 1
  BY Zenon, <1>3 DEF PollingInv
<1> QED BY Zenon, <1>5, <1>7, <1>8, <1>9, <1>10, <1>11 DEF PollingInv

(* A pass begins with no task left of the one before.                      *)
LEMMA BeginPolls ==
    ASSUME PollingInv, tick_begins
    PROVE  PollingInv'
<1>1. PICK p \in PollPasses : p = PassAt("page", Due \ live)
  BY Zenon DEF PassAt, PollPasses, Due
<1>2. /\ pass' = p /\ pass.at = "rest" /\ UNCHANGED <<now_, cursor, paused, live, backlog, turn>>
  BY Zenon, <1>1 DEF tick_begins
<1>3. /\ p.at = "page" /\ p.after = 0 /\ p.steady = Due \ live
      /\ \A w \in Polled : p.begun[w] = 0 /\ p.drawn[w] = 0
  BY Zenon, <1>1 DEF PassAt
<1>4. PollTypeOK'
  BY Zenon, <1>2 DEF PollingInv, PollTypeOK
<1>5. QueueBounded'
  BY Zenon, <1>2 DEF PollingInv, QueueBounded, Tasks
<1>6. ASSUME NEW w \in Polled PROVE TurnOK(turn'[w], p.drawn[w], p.begun[w], p.at) /\ PageOK(w)'
  <2>1. turn'[w].pc = "none" /\ turn'[w].pages <= MaxPages /\ MaxRecords \in Nat
    BY Zenon, <1>2, PollingAssumption DEF PollingInv, TurnOK
  <2>2. TurnOK(turn'[w], p.drawn[w], p.begun[w], p.at)
    BY <1>3, <2>1 DEF TurnOK
  <2>3. w > 0
    BY PollingAssumption
  <2>4. Due' = Due
    BY Zenon, <1>2 DEF Due
  <2> QED BY <1>2, <1>3, <2>2, <2>3, <2>4 DEF PageOK
<1> QED BY Zenon, <1>2, <1>3, <1>4, <1>5, <1>6 DEF PollingInv

(* A query that fails ends the paging of this pass, and its tasks stay.    *)
LEMMA FailPolls ==
    ASSUME PollingInv, load_page_fails
    PROVE  PollingInv'
<1>1. pass \in PollPasses
  BY Zenon DEF PollingInv, PollTypeOK
<1>2. /\ pass' = [pass EXCEPT !.at = "drain", !.error = TRUE]
      /\ pass.at = "page" /\ UNCHANGED <<now_, cursor, paused, live, backlog, turn>>
  BY Zenon DEF load_page_fails
<1>3. /\ pass' \in PollPasses /\ pass'.at = "drain" /\ pass'.error
      /\ pass'.begun = pass.begun /\ pass'.drawn = pass.drawn
  BY Zenon, <1>1, <1>2 DEF PollPasses
<1>4. PollTypeOK'
  BY Zenon, <1>2, <1>3 DEF PollingInv, PollTypeOK
<1>5. QueueBounded'
  BY Zenon, <1>2 DEF PollingInv, QueueBounded, Tasks
<1>6. \A w \in Polled : TurnOK(turn'[w], pass'.drawn[w], pass'.begun[w], pass'.at)
  BY <1>2, <1>3 DEF PollingInv, TurnOK
<1> QED BY Zenon, <1>3, <1>4, <1>5, <1>6 DEF PollingInv

(* A pass ends with no task left.                                          *)
LEMMA EndPolls ==
    ASSUME PollingInv, tick_ends
    PROVE  PollingInv'
<1>1. pass \in PollPasses
  BY Zenon DEF PollingInv, PollTypeOK
<1>2. /\ pass' = [pass EXCEPT !.at = "rest"] /\ Tasks = {}
      /\ pass.at = "drain" /\ UNCHANGED <<now_, cursor, paused, live, backlog, turn>>
  BY Zenon DEF tick_ends
<1>3. /\ pass' \in PollPasses /\ pass'.at = "rest" /\ pass'.error = pass.error /\ pass'.steady = pass.steady
      /\ pass'.begun = pass.begun /\ pass'.drawn = pass.drawn
  BY Zenon, <1>1, <1>2 DEF PollPasses
<1>4. PollTypeOK'
  BY Zenon, <1>2, <1>3 DEF PollingInv, PollTypeOK
<1>5. QueueBounded'
  BY Zenon, <1>2 DEF PollingInv, QueueBounded, Tasks
<1>6. \A w \in Polled : turn[w].pc = "none"
  BY Zenon, <1>2 DEF Tasks
<1>7. \A w \in Polled : TurnOK(turn'[w], pass'.drawn[w], pass'.begun[w], pass'.at)
  BY Zenon, <1>2, <1>3, <1>6 DEF PollingInv, TurnOK
<1>8. ~pass.error => \A w \in pass.steady : pass.begun[w] = 1
  BY Zenon, <1>2 DEF PollingInv
<1> QED BY Zenon, <1>3, <1>4, <1>5, <1>7, <1>8 DEF PollingInv
(* A page is loaded.  It begins no turn twice, for the ids of the turns    *)
(* begun are behind it; and who must be served and is not on it is ahead   *)
(* of it, or there is no such wallet when it was the last page.            *)
LEMMA LoadPolls ==
    ASSUME PollingInv, load_page
    PROVE  PollingInv'
<1>1. /\ PollTypeOK /\ turn \in [Polled -> PollTurns] /\ pass \in PollPasses /\ pass.after \in Nat
      /\ pass.begun \in [Polled -> Nat] /\ pass.drawn \in [Polled -> Nat] /\ pass.steady \subseteq Polled
      /\ \A w \in Polled : w \in Nat
      /\ FanoutPage \in Nat \ {0} /\ MaxRecords \in Nat /\ MaxPages \in Nat \ {0}
  BY Zenon, PollingAssumption DEF PollingInv, PollTypeOK, PollPasses
<1>2. PICK R \in SUBSET Polled : R = {w \in Due : w > pass.after}
  BY Zenon DEF Due
<1>3. PICK page \in SUBSET R : page = FirstPage(R)
  BY Zenon, FirstPageIs
<1>4. /\ IsFiniteSet(page) /\ Cardinality(page) \in Nat /\ Cardinality(page) <= FanoutPage
      /\ Cardinality(page) < FanoutPage => page = R
      /\ \A w \in R, m \in page : w <= m => w \in page
      /\ page # {} => Max(page) \in page /\ \A w \in page : w <= Max(page)
  BY Zenon, <1>3, FirstPageIs
<1>5. PICK b \in [Polled -> Nat] : \A w \in Polled : b[w] = pass.begun[w] + (IF w \in page \ live THEN 1 ELSE 0)
  <2>1. \A w \in Polled : pass.begun[w] + (IF w \in page \ live THEN 1 ELSE 0) \in Nat
    BY <1>1
  <2>2. [w \in Polled |-> pass.begun[w] + (IF w \in page \ live THEN 1 ELSE 0)] \in [Polled -> Nat]
    BY Zenon, <2>1
  <2> QED BY Zenon, <2>2
<1>6. PICK a \in Nat : a = (IF page = {} THEN 0 ELSE Max(page))
  BY Zenon, <1>1, <1>4
<1>7. PICK at \in {"page", "drain"} : at = (IF Cardinality(page) < FanoutPage THEN "drain" ELSE "page")
  BY Zenon
<1>8. /\ turn' = [w \in Polled |-> IF w \in page \ live THEN spawn_page(NoTurn) ELSE turn[w]]
      /\ pass' = [pass EXCEPT !.at = at, !.after = a, !.begun = b]
      /\ pass.at = "page" /\ Cardinality(Tasks) <= FanoutPage
      /\ UNCHANGED <<now_, cursor, paused, live, backlog, spent>>
  <2>1. b = [w \in Polled |-> pass.begun[w] + (IF w \in page \ live THEN 1 ELSE 0)]
    BY Zenon, <1>5
  <2>2. page = wallets_due_for_poll_page(pass.after)
    BY <1>2, <1>3, Zenon DEF wallets_due_for_poll_page
  <2> QED BY <1>6, <1>7, <2>1, <2>2, Zenon DEF load_page
<1>9. /\ pass' \in PollPasses /\ pass'.at = at /\ pass'.after = a /\ pass'.begun = b
      /\ pass'.error = pass.error /\ pass'.steady = pass.steady /\ pass'.drawn = pass.drawn
  BY Zenon, <1>1, <1>8 DEF PollPasses
<1>10. PICK new \in PollTurns : /\ new = spawn_page(NoTurn) /\ new.pc = "queued" /\ new.pages = 0
                                /\ new.records = 0 /\ 0 + new.limit <= MaxRecords /\ new.limit \in Nat
  <2>1. NoTurn \in PollTurns /\ NoTurn.records = 0 /\ NoTurn.pages = 0
    BY Zenon DEF NoTurn, PollTurns
  <2>2. PICK t \in PollTurns : t = NoTurn /\ t.records = 0 /\ t.pages = 0
    BY Zenon, <2>1
  <2>3. t.records <= MaxRecords
    BY <1>1, <2>2
  <2>4. spawn_page(t) \in PollTurns /\ spawn_page(t).limit \in Nat
    BY Zenon, <2>3, SpawnIs DEF PollTurns
  <2> QED BY Zenon, <2>2, <2>3, <2>4, SpawnIs
<1>11. PollTypeOK'
  <2>1. turn' \in [Polled -> PollTurns]
    BY Zenon, <1>1, <1>8, <1>10
  <2> QED BY Zenon, <1>1, <1>8, <1>9, <2>1 DEF PollTypeOK
<1>12. \A w \in Polled : TurnOK(turn[w], pass.drawn[w], pass.begun[w], pass.at) /\ PageOK(w)
  BY Zenon, <1>8 DEF PollingInv
<1>13. \A w \in page : pass.begun[w] = 0 /\ pass.drawn[w] = 0 /\ turn[w].pc = "none" /\ w > pass.after
  <2> TAKE w \in page
  <2>1. w \in Polled /\ w > pass.after /\ w \in Nat
    BY <1>1, <1>2, Zenon
  <2>2. pass.begun[w] = 0
    BY <1>1, <1>12, <2>1 DEF PageOK
  <2> QED BY <1>12, <2>1, <2>2 DEF TurnOK
<1>14. \A w \in Polled : TurnOK(turn'[w], pass'.drawn[w], pass'.begun[w], pass'.at)
  <2> TAKE w \in Polled
  <2>1. CASE w \in page \ live
    <3>1. turn'[w] = new /\ b[w] = 1 /\ pass.drawn[w] = 0 /\ pass'.at # "rest"
      BY <1>1, <1>5, <1>7, <1>8, <1>9, <1>10, <1>13, <2>1
    <3> QED BY <1>1, <1>9, <1>10, <3>1 DEF TurnOK
  <2>2. CASE w \notin page \ live
    <3>1. turn'[w] = turn[w] /\ b[w] = pass.begun[w] /\ pass'.at # "rest"
      BY <1>1, <1>5, <1>7, <1>8, <1>9, <2>2
    <3> QED BY Zenon, <1>9, <1>12, <3>1 DEF TurnOK
  <2> QED BY Zenon, <2>1, <2>2
<1>15. QueueBounded'
  <2>1. Tasks' \subseteq Tasks \cup page /\ Tasks \subseteq Polled
    BY Zenon, <1>8 DEF Tasks
  <2>2. IsFiniteSet(Tasks) /\ Cardinality(Tasks) \in Nat
    BY Zenon, <2>1, PollingAssumption, FS_Subset, FS_CardinalityType
  <2>3. IsFiniteSet(Tasks \cup page) /\ IsFiniteSet(Tasks \cap page)
        /\ Cardinality(Tasks \cup page) = Cardinality(Tasks) + Cardinality(page) - Cardinality(Tasks \cap page)
    BY <1>4, <2>2, FS_Union, FS_Intersection, Zenon
  <2>4. Cardinality(Tasks \cap page) \in Nat /\ Cardinality(Tasks \cup page) \in Nat
    BY <2>3, FS_CardinalityType, Zenon
  <2>5. Cardinality(Tasks') \in Nat /\ Cardinality(Tasks') <= Cardinality(Tasks \cup page)
    BY <2>1, <2>3, FS_Subset, FS_CardinalityType, Zenon
  <2>6. Cardinality(Tasks') <= 2 * FanoutPage
    BY <1>1, <1>4, <1>8, <2>2, <2>3, <2>4, <2>5
  <2> QED BY Zenon, <2>6 DEF QueueBounded
<1>16. ASSUME NEW w \in Polled, w \in pass.steady, b[w] = 0
       PROVE  w \in R /\ w \notin page /\ w \in Due \ live
  <2>1. pass.begun[w] = 0 /\ w \notin page \ live
    BY <1>1, <1>5, <1>16
  <2>2. w > pass.after /\ w \in Due \ live
    BY Zenon, <1>12, <1>16, <2>1 DEF PageOK
  <2> QED BY <1>2, <2>1, <2>2, Zenon
<1>17. Due' = Due
  BY Zenon, <1>8 DEF Due
<1>18. ASSUME at = "page", NEW w \in Polled PROVE PageOK(w)'
  <2>1. page # {} /\ a = Max(page)
    <3>1. Cardinality({}) = 0
      BY FS_EmptySet, Zenon
    <3>2. ~(Cardinality(page) < FanoutPage)
      BY Zenon, <1>7, <1>18
    <3>3. page # {}
      BY <1>1, <3>1, <3>2
    <3> QED BY Zenon, <1>6, <3>3
  <2>2. a \in page /\ a > pass.after /\ \A v \in page : v <= a
    BY <1>4, <1>13, <2>1, Zenon
  <2>3. b[w] > 0 => w <= a
    <3>1. CASE w \in page
      BY Zenon, <2>2, <3>1
    <3>2. CASE w \notin page
      <4>1. b[w] = pass.begun[w]
        BY <1>1, <1>5, <3>2
      <4>2. b[w] > 0 => w <= pass.after
        BY Zenon, <1>12, <4>1 DEF PageOK
      <4> QED BY <1>1, <2>2, <4>2
    <3> QED BY Zenon, <3>1, <3>2
  <2>4. w \in pass.steady /\ b[w] = 0 => w > a /\ w \in Due \ live
    <3> HAVE w \in pass.steady /\ b[w] = 0
    <3>1. w \in R /\ w \notin page /\ w \in Due \ live
      BY Zenon, <1>16
    <3>2. ~(w <= a)
      BY <1>4, <2>2, <3>1, Zenon
    <3> QED BY <1>1, <3>1, <3>2
  <2> QED BY Zenon, <1>8, <1>9, <1>17, <2>3, <2>4 DEF PageOK
<1>19. ASSUME at = "drain", NEW w \in pass.steady PROVE b[w] = 1
  <2>1. page = R /\ w \in Polled
    BY Zenon, <1>1, <1>4, <1>7, <1>19
  <2>2. b[w] # 0
    BY Zenon, <1>16, <2>1
  <2>3. TurnOK(turn'[w], pass'.drawn[w], b[w], pass'.at)
    BY Zenon, <1>9, <1>14, <2>1
  <2> QED BY <2>1, <2>2, <2>3 DEF TurnOK
<1> QED BY Zenon, <1>7, <1>9, <1>11, <1>14, <1>15, <1>18, <1>19 DEF PollingInv

(* Each step of a pass keeps what holds at any time.                       *)
LEMMA PollingStep ==
    ASSUME PollingInv, [PollingNext]_pollvars
    PROVE  PollingInv'
<1>1. CASE UNCHANGED pollvars
  BY Zenon, <1>1 DEF pollvars, PollingInv, PollTypeOK, QueueBounded, Tasks, PageOK, Due
<1>2. CASE PollingNext
  BY Zenon, <1>2, BeginPolls, LoadPolls, FailPolls, EndPolls, MeanwhilePolls, AcquirePolls, PageDraws, MarkPolls,
     PanicPolls, SettlePolls DEF PollingNext
<1> QED BY Zenon, <1>1, <1>2

(* It holds before the first pass, when there is no task.                  *)
LEMMA PollingBegins ==
    ASSUME PollingInit
    PROVE  PollingInv
<1>1. PICK p \in PollPasses : p = PassAt("rest", {})
  BY Zenon DEF PassAt, PollPasses
<1>2. p.at = "rest" /\ p.steady = {} /\ \A w \in Polled : p.begun[w] = 0 /\ p.drawn[w] = 0
  BY Zenon, <1>1 DEF PassAt
<1>3. NoTurn \in PollTurns /\ NoTurn.pc = "none" /\ NoTurn.pages = 0
  BY Zenon DEF NoTurn, PollTurns
<1>4. PollTypeOK
  BY <1>1, <1>3, PollingAssumption DEF PollingInit, PollTypeOK
<1>5. Tasks = {}
  BY Zenon, <1>3 DEF PollingInit, Tasks
<1>6. QueueBounded
  <2>1. Cardinality({}) = 0
    BY FS_EmptySet, Zenon
  <2> QED BY <1>5, <2>1, PollingAssumption DEF QueueBounded
<1>7. \A w \in Polled : TurnOK(turn[w], pass.drawn[w], pass.begun[w], pass.at)
  BY <1>1, <1>2, <1>3, PollingAssumption DEF PollingInit, TurnOK
<1> QED BY Zenon, <1>1, <1>2, <1>4, <1>6, <1>7 DEF PollingInit, PollingInv

(* Every pass over the due wallets, in any interleaving with its polls,    *)
(* with streams, pauses and arrivals, and for any number of wallets and    *)
(* any page size: it begins one turn for each wallet that was due and      *)
(* without a stream until its turn came, and none twice; no wallet draws   *)
(* more than its budget; and no more than two pages of tasks are queued    *)
(* (Supervisor::tick, spawn_page and settle).                              *)
THEOREM PassesServeAll == PollingSpec => []PassHolds
<1>1. PollingInv => PassHolds
  BY Zenon DEF PollingInv, PassHolds, PassServesOnce, BudgetHeld, TurnOK
<1> QED BY <1>1, PollingBegins, PollingStep, PTL DEF PollingSpec
=============================================================================
