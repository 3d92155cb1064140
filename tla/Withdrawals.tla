---------------------------- MODULE Withdrawals ----------------------------
(***************************************************************************)
(* Withdrawals signed by the client: the relay to Horizon                  *)
(* (api/src/routes/submit.rs), the history row it keeps per transaction    *)
(* hash (store/src/ingest.rs) and the sweep that settles rows left pending *)
(* (api/src/withdrawal_reconciler.rs).                                     *)
(*                                                                         *)
(* A server relays one transaction of the account at a time, because       *)
(* relay_signed_transaction holds the account's sequence_lock from start   *)
(* to end; the lock is local to the process, so every replica is a server. *)
(* Every replica also runs a sweeper.  A transaction may be relayed again, *)
(* by the same or another server, at any time.  A relay that validation or *)
(* the allowlist refuses touches neither the table nor the network.        *)
(*                                                                         *)
(* Time is relative.  A ledger that closes takes some transactions past    *)
(* their max_time; a row's age counts ticks up to AbandonAfter.            *)
(***************************************************************************)
EXTENDS Integers, FiniteSets

CONSTANTS
    Txs,            \* signed transactions, by hash
    Bounded,        \* those with a max_time (on the wire 0 means none)
    Servers,        \* API processes
    Sweepers,       \* reconciler loops
    Grace,          \* ReconcilerConfig.grace, in ticks
    AbandonAfter,   \* ReconcilerConfig.abandon_after, in ticks
    Batch,          \* ReconcilerConfig.batch
    MaxUnlogged,    \* how many transactions' pending writes may fail
    NoTx            \* no transaction

ASSUME WithdrawalsAssumption ==
    /\ Bounded \subseteq Txs
    /\ NoTx \notin Txs
    /\ Grace \in Nat /\ AbandonAfter \in Nat /\ Batch \in Nat \ {0} /\ MaxUnlogged \in Nat

VARIABLES
    chain,      \* what the newest ledger says of each transaction
    pool,       \* transactions the network may still apply
    past,       \* transactions whose max_time the newest ledger closed after
    status,     \* transactions.status, "none" without a row
    reason,     \* metadata.reconcile_reason
    age,        \* ticks since the row was created, at most AbandonAfter
    unlogged,   \* transactions whose pending write failed
    server,     \* what each API process is relaying
    sweep       \* what each sweeper is doing

vars == <<chain, pool, past, status, reason, age, unlogged, server, sweep>>
network == <<chain, pool, past>>
table == <<status, reason, age>>

Final == {"confirmed", "failed"}
Verdicts == {"confirmed", "rejected", "expired", "abandoned"}

IdleServer == [pc |-> "idle", tx |-> NoTx, outcome |-> "unknown"]

\* todo holds the listed rows not looked at yet; due the expired ones that
\* the batch had to hold when the sweep began and that met no error since.
IdleSweep == [pc |-> "idle", todo |-> {}, due |-> {}, tx |-> NoTx, verdict |-> "rejected"]

Init ==
    /\ chain = [t \in Txs |-> "absent"]
    /\ pool = {}
    /\ past = {}
    /\ status = [t \in Txs |-> "none"]
    /\ reason = [t \in Txs |-> "none"]
    /\ age = [t \in Txs |-> 0]
    /\ unlogged = {}
    /\ server = [s \in Servers |-> IdleServer]
    /\ sweep = [r \in Sweepers |-> IdleSweep]

(***************************************************************************)
(* The store.                                                              *)
(***************************************************************************)

\* Inserts the row, or advances it while it is pending.
record_withdrawal_transaction(t, st) ==
    /\ status' = IF status[t] \in Final THEN status ELSE [status EXCEPT ![t] = st]
    /\ age' = IF status[t] = "none" THEN [age EXCEPT ![t] = 0] ELSE age
    /\ UNCHANGED reason

settle_pending_withdrawal(t, v) ==
    IF status[t] = "pending"
    THEN /\ status' = [status EXCEPT ![t] = IF v = "confirmed" THEN "confirmed" ELSE "failed"]
         /\ reason' = IF v = "confirmed" THEN reason ELSE [reason EXCEPT ![t] = v]
         /\ UNCHANGED age
    ELSE UNCHANGED table

Stale == {t \in Txs : status[t] = "pending" /\ age[t] > Grace}

\* The oldest stale rows, at most Batch of them.
Oldest(S) ==
    /\ S \subseteq Stale
    /\ \A a \in S, b \in Stale \ S : age[a] >= age[b]
    /\ IF Cardinality(Stale) <= Batch THEN S = Stale ELSE Cardinality(S) = Batch

\* The expired rows that are sure of a place in the batch.
Due == {t \in Stale \cap past : Cardinality({u \in Stale \ {t} : age[u] >= age[t]}) < Batch}

(***************************************************************************)
(* relay_signed_transaction.                                               *)
(***************************************************************************)
Serve(s, r) == server' = [server EXCEPT ![s] = r]

At(x, p) == [pc |-> p, tx |-> x.tx, outcome |-> x.outcome]

Relay(s) ==
    /\ server[s].pc = "idle"
    /\ \E t \in Txs : Serve(s, [pc |-> "record", tx |-> t, outcome |-> "unknown"])
    /\ UNCHANGED <<network, table, unlogged, sweep>>

RecordPending(s) ==
    /\ server[s].pc = "record"
    /\ record_withdrawal_transaction(server[s].tx, "pending")
    /\ Serve(s, At(server[s], "send"))
    /\ UNCHANGED <<network, unlogged, sweep>>

\* A failed history write is logged and the relay goes on.
RecordPendingFails(s) ==
    /\ server[s].pc = "record"
    /\ Cardinality(unlogged \cup {server[s].tx}) <= MaxUnlogged
    /\ unlogged' = unlogged \cup {server[s].tx}
    /\ Serve(s, At(server[s], "send"))
    /\ UNCHANGED <<network, table, sweep>>

\* The request reaches the network, which takes the transaction or refuses it.
Post(s) ==
    LET t == server[s].tx IN
    /\ server[s].pc = "send"
    /\ \/ chain[t] = "absent" /\ t \notin past /\ pool' = pool \cup {t}
       \/ UNCHANGED pool
    /\ Serve(s, At(server[s], "wait"))
    /\ UNCHANGED <<chain, past, table, unlogged, sweep>>

\* Horizon answers with what the ledger did with the transaction.
AnswerResult(s) ==
    LET t == server[s].tx IN
    /\ server[s].pc = "wait" /\ chain[t] # "absent"
    /\ Serve(s, [pc |-> "settle", tx |-> t,
                 outcome |-> IF chain[t] = "success" THEN "confirmed" ELSE "failed"])
    /\ UNCHANGED <<network, table, unlogged, sweep>>

\* Horizon answers that the network refused the transaction.
AnswerRejected(s) ==
    LET t == server[s].tx IN
    /\ server[s].pc = "wait" /\ chain[t] = "absent" /\ t \notin pool
    /\ Serve(s, [pc |-> "settle", tx |-> t, outcome |-> "failed"])
    /\ UNCHANGED <<network, table, unlogged, sweep>>

\* Horizon, or a proxy before it, answers 5xx.  With a JSON body this is read as
\* an unsuccessful result, with any other body as a rejection.
AnswerServerError(s) ==
    /\ server[s].pc = "wait"
    /\ Serve(s, [pc |-> "settle", tx |-> server[s].tx, outcome |-> "failed"])
    /\ UNCHANGED <<network, table, unlogged, sweep>>

RecordOutcome(s) ==
    /\ server[s].pc = "settle"
    /\ record_withdrawal_transaction(server[s].tx, server[s].outcome)
    /\ Serve(s, IdleServer)
    /\ UNCHANGED <<network, unlogged, sweep>>

\* The relay ends early: a transport error or an open breaker (outcome unknown, no
\* second write), a failed second write, or the process died.
EndEarly(s) ==
    /\ server[s].pc # "idle"
    /\ Serve(s, IdleServer)
    /\ UNCHANGED <<network, table, unlogged, sweep>>

(***************************************************************************)
(* reconcile_once.                                                         *)
(***************************************************************************)
Sweep(r, x) == sweep' = [sweep EXCEPT ![r] = x]

list_stale_pending_withdrawals(r) ==
    /\ sweep[r].pc = "idle" /\ Stale # {}
    /\ \E S \in SUBSET Txs :
         /\ Oldest(S)
         /\ Sweep(r, [pc |-> "rows", todo |-> S, due |-> Due,
                      tx |-> NoTx, verdict |-> "rejected"])
    /\ UNCHANGED <<network, table, unlogged, server>>

\* The sweep leaves row t and goes on with the next.
Skipped(x, t) ==
    [pc |-> "rows", todo |-> x.todo \ {t}, due |-> x.due, tx |-> NoTx, verdict |-> x.verdict]

\* So it does when a request for the row failed.
Errored(x, t) ==
    [pc |-> "rows", todo |-> x.todo \ {t}, due |-> x.due \ {t}, tx |-> NoTx, verdict |-> x.verdict]

AskLedger(x, t) ==
    [pc |-> "ledger", todo |-> x.todo, due |-> x.due, tx |-> t, verdict |-> x.verdict]

Decided(x, t, v) ==
    [pc |-> "settle", todo |-> x.todo \ {t}, due |-> x.due, tx |-> t, verdict |-> v]

\* Variant: a transaction without a max_time is waited for.
decide_never_abandons(r, t) ==
    IF chain[t] = "success" THEN Sweep(r, Decided(sweep[r], t, "confirmed"))
    ELSE IF chain[t] = "failed" THEN Sweep(r, Decided(sweep[r], t, "rejected"))
    ELSE IF t \in Bounded THEN Sweep(r, AskLedger(sweep[r], t))
    ELSE Sweep(r, Skipped(sweep[r], t))

\* Variant: an unsuccessful lookup confirms too.
decide_found_confirms(r, t) ==
    IF chain[t] # "absent" THEN Sweep(r, Decided(sweep[r], t, "confirmed"))
    ELSE IF t \in Bounded THEN Sweep(r, AskLedger(sweep[r], t))
    ELSE IF age[t] >= AbandonAfter THEN Sweep(r, Decided(sweep[r], t, "abandoned"))
    ELSE Sweep(r, Skipped(sweep[r], t))

\* What the lookup by hash leads to.  Only an absent transaction with a max_time
\* needs the second request.
decide(r, t) ==
    IF chain[t] = "success" THEN Sweep(r, Decided(sweep[r], t, "confirmed"))
    ELSE IF chain[t] = "failed" THEN Sweep(r, Decided(sweep[r], t, "rejected"))
    ELSE IF t \in Bounded THEN Sweep(r, AskLedger(sweep[r], t))
    ELSE IF age[t] >= AbandonAfter THEN Sweep(r, Decided(sweep[r], t, "abandoned"))
    ELSE Sweep(r, Skipped(sweep[r], t))

transaction_by_hash(r, t) ==
    /\ sweep[r].pc = "rows" /\ t \in sweep[r].todo
    /\ decide(r, t)
    /\ UNCHANGED <<network, table, unlogged, server>>

\* Variant: an absent transaction is failed without looking at the ledger's clock.
latest_ledger_unchecked(r) ==
    /\ sweep[r].pc = "ledger"
    /\ Sweep(r, Decided(sweep[r], sweep[r].tx, "expired"))
    /\ UNCHANGED <<network, table, unlogged, server>>

latest_ledger_close_time(r) ==
    LET t == sweep[r].tx IN
    /\ sweep[r].pc = "ledger"
    /\ Sweep(r, IF t \in past THEN Decided(sweep[r], t, "expired") ELSE Skipped(sweep[r], t))
    /\ UNCHANGED <<network, table, unlogged, server>>

\* Either request may fail; the row waits for the next run.
LookupError(r) ==
    /\ \/ /\ sweep[r].pc = "rows"
          /\ \E t \in sweep[r].todo : Sweep(r, Errored(sweep[r], t))
       \/ /\ sweep[r].pc = "ledger"
          /\ Sweep(r, Errored(sweep[r], sweep[r].tx))
    /\ UNCHANGED <<network, table, unlogged, server>>

Settle(r) ==
    /\ sweep[r].pc = "settle"
    /\ settle_pending_withdrawal(sweep[r].tx, sweep[r].verdict)
    /\ Sweep(r, Skipped(sweep[r], sweep[r].tx))
    /\ UNCHANGED <<network, unlogged, server>>

EndSweep(r) ==
    /\ sweep[r].pc = "rows" /\ sweep[r].todo = {}
    /\ Sweep(r, IdleSweep)
    /\ UNCHANGED <<network, table, unlogged, server>>

\* A store error, or the process died.
SweepFails(r) ==
    /\ sweep[r].pc # "idle"
    /\ Sweep(r, IdleSweep)
    /\ UNCHANGED <<network, table, unlogged, server>>

(***************************************************************************)
(* The network and time.                                                   *)
(***************************************************************************)
\* A ledger closes: it applies the transactions of A, successfully those of G, and
\* its close time is past the max_time of those in E, which it does not apply.
CloseLedger(A, G, E) ==
    /\ A \subseteq pool \ E /\ G \subseteq A
    /\ E \subseteq Bounded \ past
    /\ A \cup E # {}
    /\ chain' = [t \in Txs |-> IF t \in G THEN "success" ELSE IF t \in A THEN "failed"
                               ELSE chain[t]]
    /\ pool' = pool \ (A \cup E)
    /\ past' = past \cup E
    /\ UNCHANGED <<table, unlogged, server, sweep>>

Tick ==
    /\ \E t \in Txs : status[t] # "none" /\ age[t] < AbandonAfter
    /\ age' = [t \in Txs |-> IF status[t] # "none" /\ age[t] < AbandonAfter
                             THEN age[t] + 1 ELSE age[t]]
    /\ UNCHANGED <<network, status, reason, unlogged, server, sweep>>

Server(s) ==
    \/ Relay(s)
    \/ RecordPending(s)
    \/ RecordPendingFails(s)
    \/ Post(s)
    \/ AnswerResult(s)
    \/ AnswerRejected(s)
    \/ AnswerServerError(s)
    \/ RecordOutcome(s)
    \/ EndEarly(s)

Advance(r) ==
    \/ list_stale_pending_withdrawals(r)
    \/ \E t \in Txs : transaction_by_hash(r, t)
    \/ latest_ledger_close_time(r)
    \/ Settle(r)
    \/ EndSweep(r)

Sweeper(r) == Advance(r) \/ LookupError(r) \/ SweepFails(r)

Next ==
    \/ Tick
    \/ \E A, G, E \in SUBSET Txs : CloseLedger(A, G, E)
    \/ \E s \in Servers : Server(s)
    \/ \E r \in Sweepers : Sweeper(r)

Spec == Init /\ [][Next]_vars

\* Time passes, ledgers go on closing, and every sweeper runs again and again; its
\* requests and writes for a row do not fail for ever.
Fairness ==
    /\ WF_vars(Tick)
    /\ \A t \in Bounded : WF_vars(CloseLedger({}, {}, {t}))
    /\ \A r \in Sweepers :
          /\ WF_vars(Sweeper(r))
          /\ \A t \in Txs :
                SF_vars(transaction_by_hash(r, t)) /\ SF_vars(Settle(r) /\ sweep[r].tx = t)
          /\ \A t \in Bounded : SF_vars(latest_ledger_close_time(r) /\ sweep[r].tx = t)

FairSpec == Spec /\ Fairness

-----------------------------------------------------------------------------
(***************************************************************************)
(* Properties.                                                             *)
(***************************************************************************)
Relays == [pc : {"idle", "record", "send", "wait", "settle"},
           tx : Txs \cup {NoTx}, outcome : {"unknown"} \cup Final]

Sweeps == [pc : {"idle", "rows", "ledger", "settle"}, todo : SUBSET Txs, due : SUBSET Txs,
           tx : Txs \cup {NoTx}, verdict : Verdicts]

TypeOK ==
    /\ chain \in [Txs -> {"absent", "success", "failed"}]
    /\ pool \in SUBSET Txs
    /\ past \in SUBSET Bounded
    /\ status \in [Txs -> {"none", "pending"} \cup Final]
    /\ reason \in [Txs -> {"none"} \cup Verdicts]
    /\ age \in [Txs -> 0..AbandonAfter]
    /\ unlogged \in SUBSET Txs
    /\ server \in [Servers -> Relays]
    /\ sweep \in [Sweepers -> Sweeps]

\* A row says confirmed only of a transaction the ledger applied successfully,
\* whichever relay or sweep wrote it and however old the answer it wrote was.
ConfirmedIsOnChain == \A t \in Txs : status[t] = "confirmed" => chain[t] = "success"

\* The row is written before the network is asked: a transaction the network may
\* apply, or has applied, has a row, wherever its relay died, unless that write failed.
SubmittedHasRow ==
    \A t \in Txs : t \in pool \/ chain[t] # "absent" => status[t] # "none" \/ t \in unlogged

\* A row the sweep failed as expired is of a transaction whose fate is sealed: no
\* later ledger applies it.
ExpiredIsSealed == [][\A t \in Txs : reason[t] = "expired" => chain'[t] = chain[t]]_vars

\* A settled outcome is never overwritten, by concurrent relays of the same
\* transaction, by sweeps, or by a relay that comes back after a sweep.
SettledIsFinal == [][\A t \in Txs : status[t] \in Final => status'[t] = status[t]]_vars

\* A row past its max_time when a sweep begins, with fewer than Batch rows as old, is
\* settled when that sweep ends, unless a request for it failed.  The documented bound
\* is the one without the condition on the batch.
SettledBySweep ==
    [][\A r \in Sweepers : EndSweep(r) => \A t \in sweep[r].due : status[t] # "pending"]_vars

\* No row stays pending for ever.
EventuallySettled == \A t \in Txs : status[t] = "pending" ~> status[t] \in Final

\* A row is settled once, in the sweep that finds it due if no relay was first, and none
\* is left pending for ever (record_withdrawal_transaction and the reconciler).
RowsAreSettled == SettledIsFinal /\ SettledBySweep /\ EventuallySettled

\* "only transport/HTTP errors return Err" and leave the row pending: a relay
\* settles a row as failed only when the network will not apply the transaction.
RelayFailureIsKnown ==
    [][\A s \in Servers, t \in Txs :
         RecordOutcome(s) /\ server[s].tx = t /\ status[t] = "pending" /\ status'[t] = "failed"
            => t \notin pool]_vars

(***************************************************************************)
(* The inductive invariant behind the safety properties.                   *)
(***************************************************************************)
Logged(t) == status[t] # "none" \/ t \in unlogged

\* A relay that may have asked the network has its row, and carries a confirmed
\* outcome only for an applied transaction.
RelayOK(x) ==
    /\ x.pc # "idle" => x.tx \in Txs
    /\ x.pc \in {"send", "wait", "settle"} => Logged(x.tx)
    /\ x.pc = "settle" => x.outcome \in Final
    /\ x.pc = "settle" /\ x.outcome = "confirmed" => chain[x.tx] = "success"

\* A verdict that is about to be written still holds, however old it is.
SweepOK(x) ==
    /\ x.pc = "ledger" => x.tx \in Txs
    /\ x.pc = "settle" =>
          /\ x.tx \in Txs
          /\ x.verdict = "confirmed" => chain[x.tx] = "success"
          /\ x.verdict = "expired" => x.tx \in past

\* The network may only apply what is absent and not past its max_time.
PoolOK == \A t \in pool : chain[t] = "absent" /\ t \notin past

ExpiredIsPast == \A t \in Txs : reason[t] = "expired" => t \in past

IInv ==
    /\ TypeOK
    /\ ConfirmedIsOnChain
    /\ SubmittedHasRow
    /\ PoolOK
    /\ ExpiredIsPast
    /\ \A s \in Servers : RelayOK(server[s])
    /\ \A r \in Sweepers : SweepOK(sweep[r])
=============================================================================
