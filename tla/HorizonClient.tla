---------------------------- MODULE HorizonClient ----------------------------
(***************************************************************************)
(* The server's Horizon client (api/src/horizon.rs): what each call makes  *)
(* of an answer, what the routes are told, and the fee figures it keeps    *)
(* for a while.  The retry loop and the breaker around a call are the      *)
(* module Resilience, submit_transaction is part of Withdrawals.           *)
(*                                                                         *)
(* An answer is "unsent" (no connection, or a timeout), a status class, or *)
(* a success whose body is garbage, has a bad figure, or is good.          *)
(***************************************************************************)
EXTENDS Integers, Sequences, FiniteSets

CONSTANTS
    Readers,        \* requests that ask for fee figures
    FeeTtl,         \* FEE_STATS_TTL, in ticks
    FetchTime,      \* the longest a fetch takes, retries included
    MaxClock

ASSUME FeeTtlAssumption == FeeTtl \in Nat \ {0} /\ FetchTime \in Nat /\ MaxClock \in Nat

VARIABLES
    clock,
    fee_stats_cache,    \* when it was put and when the figures were true
    reader,             \* what each request is at
    told                \* the last other call, and what its route was told

feevars == <<clock, fee_stats_cache, reader, told>>

Endpoints == {"fee_stats", "balances", "account_info", "transaction_by_hash",
              "latest_ledger_close_time"}
Answers == {"unsent", "404", "4xx", "5xx", "garbage", "bad figure", "good"}

(* The closure of a read-only call; a figure is a text the body holds.     *)
fetch(endpoint, answer) ==
    CASE answer \in {"unsent", "5xx"} -> "Transport"
      [] answer = "404" /\ endpoint \in {"balances", "account_info", "transaction_by_hash"}
           -> "NotFound"
      [] answer = "good" -> "Ok"
      [] answer = "bad figure" /\ endpoint \in {"balances", "transaction_by_hash"} -> "Ok"
      [] OTHER -> "Permanent"

is_retriable(e) == e = "Transport"

(* What a route is told; circuit says that the breaker refused the call.   *)
map_result(circuit, e) ==
    IF circuit THEN "Internal"
    ELSE CASE e = "Ok" -> "Ok" [] e = "NotFound" -> "NotFound" [] OTHER -> "Internal"

transaction_by_hash(circuit, e) ==
    IF circuit THEN "Internal"
    ELSE CASE e = "Ok" -> "Found" [] e = "NotFound" -> "NotFound" [] OTHER -> "Internal"

NotAsked == [endpoint |-> "fee_stats", answers |-> <<>>, circuit |-> FALSE, as |-> "Ok"]

(* A call with its retries: only a transient error is tried again.         *)
Ask(endpoint, answers, circuit) ==
    /\ told = NotAsked
    /\ endpoint # "fee_stats"
    /\ \A i \in 1 .. Len(answers) - 1 : is_retriable(fetch(endpoint, answers[i]))
    /\ circuit <=> answers = <<>>
    /\ LET e == IF circuit THEN "none" ELSE fetch(endpoint, answers[Len(answers)])
       IN told' = [endpoint |-> endpoint, answers |-> answers, circuit |-> circuit,
                   as |-> IF endpoint = "transaction_by_hash" THEN transaction_by_hash(circuit, e)
                          ELSE map_result(circuit, e)]
    /\ UNCHANGED <<clock, fee_stats_cache, reader>>

(***************************************************************************)
(* fee_stats                                                               *)
(***************************************************************************)
Empty == [at |-> -1, made |-> -1]
Idle == [pc |-> "idle", since |-> 0, made |-> -1]

FeeInit ==
    /\ clock = 0
    /\ fee_stats_cache = Empty
    /\ reader = [r \in Readers |-> Idle]
    /\ told = NotAsked

(* Variant: a value is served up to and including its ttl.                 *)
cache_hit_inclusive == fee_stats_cache # Empty /\ clock - fee_stats_cache.at <= FeeTtl

(* TtlCache::get                                                           *)
cache_hit == fee_stats_cache # Empty /\ clock - fee_stats_cache.at < FeeTtl

fee_stats(r) ==
    /\ reader[r].pc = "idle"
    /\ reader' = [reader EXCEPT ![r] =
          IF cache_hit THEN [Idle EXCEPT !.pc = "served", !.made = fee_stats_cache.made]
          ELSE [Idle EXCEPT !.pc = "fetching", !.since = clock]]
    /\ UNCHANGED <<clock, fee_stats_cache, told>>

(* Horizon looks the figures up; the answer is on its way.                 *)
Look(r) ==
    /\ reader[r].pc = "fetching" /\ reader[r].made = -1
    /\ reader' = [reader EXCEPT ![r].made = clock]
    /\ UNCHANGED <<clock, fee_stats_cache, told>>

(* The answer is there: good figures are put in the cache as of now.       *)
fee_stats_done(r, answer) ==
    /\ reader[r].pc = "fetching"
    /\ answer # "unsent" => reader[r].made # -1
    /\ IF fetch("fee_stats", answer) = "Ok"
       THEN /\ reader' = [reader EXCEPT ![r] = [Idle EXCEPT !.pc = "served", !.made = reader[r].made]]
            /\ fee_stats_cache' = [at |-> clock, made |-> reader[r].made]
       ELSE /\ reader' = [reader EXCEPT ![r] = Idle]
            /\ UNCHANGED fee_stats_cache
    /\ UNCHANGED <<clock, told>>

Respond(r) ==
    /\ reader[r].pc = "served"
    /\ reader' = [reader EXCEPT ![r] = Idle]
    /\ UNCHANGED <<clock, fee_stats_cache, told>>

(* Time passes, but no fetch outlives its timeouts, and a served request   *)
(* answers at once.                                                        *)
Pass ==
    /\ clock < MaxClock
    /\ \A r \in Readers : /\ reader[r].pc # "served"
                          /\ reader[r].pc = "fetching" => clock - reader[r].since < FetchTime
    /\ clock' = clock + 1
    /\ UNCHANGED <<fee_stats_cache, reader, told>>

FeeNext ==
    \/ \E r \in Readers :
         \/ fee_stats(r) \/ Look(r) \/ Respond(r)
         \/ \E answer \in Answers : fee_stats_done(r, answer)
    \/ Pass

AskNext ==
    \E endpoint \in Endpoints, circuit \in BOOLEAN, n \in 0 .. 2 :
        \E answers \in [1 .. n -> Answers] : Ask(endpoint, answers, circuit)

-----------------------------------------------------------------------------
(* The figures an estimate is computed from are recent.  The cache dates   *)
(* them by the end of the fetch, and a slow fetch may put older figures    *)
(* over newer ones, so they may be older than FEE_STATS_TTL, but by no     *)
(* more than a fetch takes.                                                *)
FiguresRecent ==
    \A r \in Readers : reader[r].pc = "served" =>
        reader[r].made \in clock - (FeeTtl - 1) - FetchTime .. clock

(* An account or a transaction is called missing only on Horizon's word: a *)
(* route, or the reconciler that fails a withdrawal for it, never takes an *)
(* outage, an open breaker or a refused request for an absence.            *)
AbsenceIsAnswered ==
    told.as = "NotFound" => told.answers # <<>> /\ told.answers[Len(told.answers)] = "404"

(* What the client passes on is what Horizon said, and said lately.        *)
AnswersHold == FiguresRecent /\ AbsenceIsAnswered

(***************************************************************************)
(* How old figures are where they are kept.                                *)
(***************************************************************************)
Readings == [pc : {"idle", "fetching", "served"}, since : Nat, made : Nat \cup {-1}]

CacheOK == fee_stats_cache # Empty =>
               /\ fee_stats_cache.at <= clock /\ fee_stats_cache.made <= fee_stats_cache.at
               /\ fee_stats_cache.at - fee_stats_cache.made <= FetchTime

ReaderOK(x) ==
    x.pc = "fetching" => /\ x.since <= clock /\ clock - x.since <= FetchTime
                         /\ x.made # -1 => x.since <= x.made /\ x.made <= clock

HorizonInv ==
    /\ clock \in Nat
    /\ fee_stats_cache \in {Empty} \cup [at : Nat, made : Nat]
    /\ reader \in [Readers -> Readings]
    /\ CacheOK /\ \A r \in Readers : ReaderOK(reader[r])
    /\ AnswersHold

HorizonSpec == FeeInit /\ [][FeeNext \/ AskNext]_feevars
=============================================================================
