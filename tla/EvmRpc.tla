------------------------------- MODULE EvmRpc -------------------------------
(***************************************************************************)
(* The JSON-RPC client for EVM chains (crates/evm-rpc/src/client.rs): the  *)
(* typed methods, the reads that go through a breaker and a retry loop of  *)
(* the client's own, and the submission that goes through neither.         *)
(*                                                                         *)
(* The breaker is the one of Resilience.  The client calls it allow,       *)
(* record_success and record_failure; crates/resilience has them as check, *)
(* on_success and on_failure.  A chain has a breaker of its own, so the    *)
(* Horizon callers of Resilience make no call here.  What a node sends is  *)
(* abstracted to the cases the client tells apart.                         *)
(***************************************************************************)
EXTENDS Resilience

CONSTANTS
    Clients,    \* tasks that use the client of one chain
    Offered     \* the methods they call

VARIABLES
    rpc,        \* the call each task makes
    wire        \* requests each task's call has sent; history

rpcvars == <<rpc, wire>>

Quantities == {"chain_id", "block_number", "get_transaction_count", "estimate_gas"}
Objects    == {"get_block_by_number", "get_transaction_receipt", "get_logs", "fee_history"}
Texts      == {"call", "send_raw_transaction"}

ASSUME MethodsAssumption == Offered \subseteq Quantities \cup Objects \cup Texts

(* The result member of a response.                                        *)
Values == {"null", "hex", "text", "object"}

(* A response: the status class, and a body that is too large, is not JSON-*)
(* RPC, holds an error or holds a result.                                  *)
ErrorCodes == {"revert", "range", "other"}
Bodies == {"oversized", "garbage"} \cup ErrorCodes \cup Values
NoResponse == [status |-> "none", body |-> "null"]
Responses == [status : {"ok", "limited", "failed"}, body : Bodies]

NoRpc == [pc |-> "idle", method |-> "chain_id", attempt |-> 0, got |-> "none",
          resp |-> NoResponse]

(***************************************************************************)
(* One request.                                                            *)
(***************************************************************************)
map_rpc_error(code) ==
    CASE code = "revert" -> "Revert" [] code = "range" -> "RangeTooLarge" [] OTHER -> "JsonRpc"

(* Variant: an error member is looked for only when the status is an error.*)
call_once_by_status(resp) ==
    IF resp.status = "limited" THEN "RateLimited"
    ELSE IF resp.body = "oversized" THEN "ResponseTooLarge"
    ELSE IF resp.status = "failed" /\ resp.body \in ErrorCodes THEN map_rpc_error(resp.body)
    ELSE IF resp.status = "failed" \/ resp.body \in {"garbage", "null"} THEN "Transport"
    ELSE "Ok"

(* What call_once makes of a response.  A 429 is not read any further, and *)
(* a null result is an absent one.                                         *)
call_once(resp) ==
    IF resp.status = "limited" THEN "RateLimited"
    ELSE IF resp.body = "oversized" THEN "ResponseTooLarge"
    ELSE IF resp.body \in ErrorCodes THEN map_rpc_error(resp.body)
    ELSE IF resp.status = "failed" \/ resp.body \in {"garbage", "null"} THEN "Transport"
    ELSE "Ok"

is_retryable(e) == e \in {"Transport", "RateLimited"}

(* What the typed method returns for a value.                              *)
decode(method, value) ==
    CASE method \in Quantities -> IF value = "hex" THEN "value" ELSE "InvalidHex"
      [] method \in Texts      -> IF value \in {"hex", "text"} THEN "value" ELSE "Transport"
      [] method \in Objects    -> IF value = "object" THEN "value" ELSE "Transport"

(***************************************************************************)
(* Calls.                                                                  *)
(***************************************************************************)
Set(c, r) == rpc' = [rpc EXCEPT ![c] = r]
Done(c, got, resp) ==
    Set(c, [rpc[c] EXCEPT !.pc = "done", !.attempt = 0, !.got = got, !.resp = resp])
Send(c) == wire' = [wire EXCEPT ![c] = @ + 1]

call_read(c, m) ==
    /\ rpc[c].pc = "idle"
    /\ m # "send_raw_transaction"
    /\ \/ /\ Refusing
          /\ Set(c, [NoRpc EXCEPT !.pc = "done", !.method = m, !.got = "CircuitOpen"])
          /\ UNCHANGED <<state, age, wire>>
       \/ /\ check
          /\ Set(c, [NoRpc EXCEPT !.pc = "request", !.method = m])
          /\ Send(c)
    /\ UNCHANGED <<failures, call, up>>

send_raw_transaction(c) ==
    /\ rpc[c].pc = "idle"
    /\ Set(c, [NoRpc EXCEPT !.pc = "request", !.method = "send_raw_transaction"])
    /\ Send(c)
    /\ UNCHANGED <<state, age, failures, call, up>>

(* The request is answered while the node is up; with it down there is no  *)
(* response.  A read tells the breaker of a success or a transient error.  *)
Outcome(c, e, resp) ==
    IF rpc[c].method = "send_raw_transaction"
    THEN /\ Done(c, IF e = "Ok" THEN decode(rpc[c].method, resp.body) ELSE e, resp)
         /\ UNCHANGED <<state, age, failures>>
    ELSE IF e = "Ok" THEN on_success /\ Done(c, decode(rpc[c].method, resp.body), resp)
    ELSE IF ~ is_retryable(e) THEN Done(c, e, resp) /\ UNCHANGED <<state, age, failures>>
    ELSE /\ on_failure
         /\ IF rpc[c].attempt + 1 > MaxAttempts
            THEN Done(c, e, resp)
            ELSE Set(c, [rpc[c] EXCEPT !.pc = "sleep", !.attempt = @ + 1, !.resp = NoResponse])

Receive(c) ==
    /\ rpc[c].pc = "request" /\ up
    /\ \E resp \in Responses : Outcome(c, call_once(resp), resp)
    /\ UNCHANGED <<call, up, wire>>

Unanswered(c) ==
    /\ rpc[c].pc = "request" /\ ~ up
    /\ Outcome(c, "Transport", NoResponse)
    /\ UNCHANGED <<call, up, wire>>

(* The backoff is over; the breaker is not asked again.                    *)
Again(c) ==
    /\ rpc[c].pc = "sleep"
    /\ Set(c, [rpc[c] EXCEPT !.pc = "request"])
    /\ Send(c)
    /\ UNCHANGED <<state, age, failures, call, up>>

(* The caller takes the result, or was dropped at an await.                *)
Leave(c) ==
    /\ rpc[c].pc # "idle"
    /\ Set(c, NoRpc)
    /\ wire' = [wire EXCEPT ![c] = 0]
    /\ UNCHANGED <<state, age, failures, call, up>>

RpcInit ==
    /\ Init
    /\ rpc = [c \in Clients |-> NoRpc]
    /\ wire = [c \in Clients |-> 0]

RpcNext ==
    \/ (Tick \/ Outage) /\ UNCHANGED rpcvars
    \/ \E c \in Clients :
         \/ \E m \in Offered : call_read(c, m)
         \/ send_raw_transaction(c)
         \/ Receive(c) \/ Unanswered(c) \/ Again(c) \/ Leave(c)

-----------------------------------------------------------------------------
(* A transaction is put on the wire once per send_raw_transaction: neither *)
(* a lost answer, a rate limit nor the breaker makes the client send it    *)
(* again.  A read is sent once and up to max_attempts times more, though   *)
(* RetryPolicy has max_attempts include the first.                         *)
RequestsBounded ==
    \A c \in Clients :
        wire[c] <= IF rpc[c].method = "send_raw_transaction" THEN 1 ELSE MaxAttempts + 1

(* The caller of a method learns what the node said: it gets a value only  *)
(* from a successful response without an error member whose result has the *)
(* method's shape, and an error object under its own name whatever the     *)
(* HTTP status was, but for a 429: that is a rate limit whatever it holds, *)
(* and a read repeats it (call_once, map_rpc_error, the typed methods).    *)
Shape(method) == CASE method \in Quantities -> {"hex"}
                   [] method \in Texts      -> {"hex", "text"}
                   [] method \in Objects    -> {"object"}
ToldApart(x) ==
    x.pc = "done" /\ x.resp # NoResponse =>
        /\ x.got = "value"         <=> x.resp.status = "ok" /\ x.resp.body \in Shape(x.method)
        /\ x.got = "RateLimited"   <=> x.resp.status = "limited"
        /\ x.got = "Revert"        <=> x.resp.status # "limited" /\ x.resp.body = "revert"
        /\ x.got = "RangeTooLarge" <=> x.resp.status # "limited" /\ x.resp.body = "range"
        /\ x.got = "JsonRpc"       <=> x.resp.status # "limited" /\ x.resp.body = "other"
AnswersToldApart == \A c \in Clients : ToldApart(rpc[c])

(* A call puts no more on the wire than it may, and returns what came      *)
(* back.                                                                   *)
CallsAreTrue == RequestsBounded /\ AnswersToldApart

(***************************************************************************)
(* How far a call is: the requests it has sent, and what it returns.       *)
(***************************************************************************)
Results == {"none", "value", "CircuitOpen", "InvalidHex", "Transport", "RateLimited",
            "ResponseTooLarge", "Revert", "RangeTooLarge", "JsonRpc"}
RpcRows == [pc : {"idle", "request", "sleep", "done"}, method : Quantities \cup Objects \cup Texts,
            attempt : Nat, got : Results, resp : Responses \cup {NoResponse}]

SentOK(x, sent) ==
    /\ x.pc = "idle" => sent = 0
    /\ x.pc = "request" => sent = x.attempt + 1 /\ x.attempt <= MaxAttempts
    /\ x.pc = "sleep" => sent = x.attempt /\ x.attempt <= MaxAttempts
    /\ x.pc = "done" => sent <= MaxAttempts + 1
    /\ x.method = "send_raw_transaction" => x.pc # "sleep" /\ x.attempt = 0 /\ sent <= 1

RpcInv ==
    /\ rpc \in [Clients -> RpcRows] /\ wire \in [Clients -> Nat]
    /\ \A c \in Clients : SentOK(rpc[c], wire[c])
    /\ AnswersToldApart

RpcSpec == RpcInit /\ [][RpcNext]_<<vars, rpcvars>>
=============================================================================
