---------------------------- MODULE Sponsorship ----------------------------
(***************************************************************************)
(* Gas sponsorship: POST /sponsor (api/src/routes/sponsor.rs), the         *)
(* reservation of the daily budget (store/src/sponsorship.rs), the sweep   *)
(* that fails reservations stuck pending (server/src/main.rs) and the      *)
(* wallet's configuration (api/src/routes/sponsorship.rs).                 *)
(*                                                                         *)
(* A server handles one request of a wallet at a time: sponsor holds the   *)
(* wallet's sequence_lock, which is local to the process, so every replica *)
(* is a server.  A handler may end anywhere: the process dies or the       *)
(* client goes away and the handler is dropped at its next await.          *)
(*                                                                         *)
(* The reservation is a database transaction: its row is visible to others *)
(* from Commit on, and now() is the time of Begin.  A row turns old (300 s)*)
(* only when no handler works on it: a handler's waits after the           *)
(* reservation are bounded by SUBMIT_TIMEOUT and the pool's timeouts.      *)
(***************************************************************************)
EXTENDS Integers, FiniteSets, FiniteSetsExt

CONSTANTS
    Wallets,
    Txs,            \* inner transactions, by hash
    Fee,            \* the fee each request bids: max_base_fee_stroops
    InnerSeq,       \* the inner transactions' sequence numbers
    Servers,        \* API processes
    Budgets,        \* configurations a wallet may have: a daily budget, NoLimit or Off
    NoLimit,        \* a NULL budget
    Off,            \* sponsorship is not enabled
    Free,           \* nobody holds the lock, no wallet, no transaction
    MaxDay,         \* bound on the days that begin
    MaxSeq          \* bound on the wallets' own sequence numbers

ASSUME SponsorshipAssumption ==
    /\ Fee \in [Txs -> Nat] /\ InnerSeq \in [Txs -> Nat]
    /\ NoLimit \notin Nat /\ Off \notin Nat \cup {NoLimit}
    /\ Budgets \subseteq Nat \cup {NoLimit, Off}
    /\ Free \notin Servers \cup Wallets \cup Txs
    /\ MaxDay \in Nat /\ MaxSeq \in Nat

(* A transaction is known by its hash, of fixed size.                      *)
ASSUME FiniteTxs == IsFiniteSet(Txs)

VARIABLES
    budget,     \* each wallet's configured daily budget
    walletSeq,  \* sequence number of each wallet's account
    usedUp,     \* inner transactions whose source account has passed their number
    day,        \* the current UTC day
    lock,       \* holder of each wallet's advisory lock
    status,     \* sponsored_transactions.status, "none" without a row
    payer,      \* sponsored_transactions.wallet_id
    created,    \* day of sponsored_transactions.created_at
    granted,    \* the budget the row's reservation was checked against
    counted,    \* the rows the sum of the row's reservation ran over
    old,        \* pending rows created more than 300 s ago
    bump,       \* the fee-bump of each inner transaction, as the network knows it
    server      \* what each API process is doing

config == <<budget, walletSeq, usedUp, day>>
rows == <<status, payer, created, granted, counted, old>>
vars == <<config, lock, rows, bump, server>>

Idle == [pc |-> "idle", tx |-> Free, wallet |-> Free, limit |-> Off, began |-> 0,
         seen |-> {}, outcome |-> "failed"]

Init ==
    /\ budget \in [Wallets -> Budgets]
    /\ walletSeq = [w \in Wallets |-> 0]
    /\ usedUp = {}
    /\ day = 0
    /\ lock = [w \in Wallets |-> Free]
    /\ status = [t \in Txs |-> "none"]
    /\ payer = [t \in Txs |-> Free]
    /\ created = [t \in Txs |-> 0]
    /\ granted = [t \in Txs |-> Off]
    /\ counted = [t \in Txs |-> {}]
    /\ old = {}
    /\ bump = [t \in Txs |-> "unsent"]
    /\ server = [s \in Servers |-> Idle]

At(x, p) ==
    [pc |-> p, tx |-> x.tx, wallet |-> x.wallet, limit |-> x.limit, began |-> x.began,
     seen |-> x.seen, outcome |-> x.outcome]

\* What the handler still needs once the row is committed.
Holding(x, p, o) ==
    [pc |-> p, tx |-> x.tx, wallet |-> Free, limit |-> Off, began |-> 0,
     seen |-> {}, outcome |-> o]

Began(x, d) ==
    [pc |-> "lock", tx |-> x.tx, wallet |-> x.wallet, limit |-> x.limit, began |-> d,
     seen |-> {}, outcome |-> x.outcome]

Inserted(x, S) ==
    [pc |-> "commit", tx |-> x.tx, wallet |-> x.wallet, limit |-> x.limit,
     began |-> x.began, seen |-> S, outcome |-> x.outcome]

Serve(s, x) == server' = [server EXCEPT ![s] = x]

Spent(S) == MapThenSumSet(LAMBDA t : Fee[t], S)

(***************************************************************************)
(* preflight.                                                              *)
(***************************************************************************)
\* The request passes: the budget it will be held to is the one configured now.
Preflight(s) ==
    /\ server[s].pc = "idle"
    /\ \E w \in Wallets, t \in Txs :
          /\ budget[w] # Off
          /\ InnerSeq[t] > walletSeq[w]
          /\ Serve(s, [pc |-> "begin", tx |-> t, wallet |-> w, limit |-> budget[w],
                       began |-> 0, seen |-> {}, outcome |-> "failed"])
    /\ UNCHANGED <<config, lock, rows, bump>>

\* The request is refused: 400 stale_sequence.
PreflightStale(s) ==
    /\ server[s].pc = "idle"
    /\ \E w \in Wallets, t \in Txs :
          /\ budget[w] # Off
          /\ InnerSeq[t] <= walletSeq[w]
          /\ Serve(s, [pc |-> "stale", tx |-> t, wallet |-> w, limit |-> Off,
                       began |-> 0, seen |-> {}, outcome |-> "failed"])
    /\ UNCHANGED <<config, lock, rows, bump>>

(***************************************************************************)
(* try_reserve_sponsored_transaction.                                      *)
(***************************************************************************)
Begin(s) ==
    /\ server[s].pc = "begin"
    /\ Serve(s, Began(server[s], day))
    /\ UNCHANGED <<config, lock, rows, bump>>

\* pg_advisory_xact_lock.
AdvisoryLock(s) ==
    /\ server[s].pc = "lock"
    /\ lock[server[s].wallet] = Free
    /\ lock' = [lock EXCEPT ![server[s].wallet] = s]
    /\ Serve(s, At(server[s], "insert"))
    /\ UNCHANGED <<config, rows, bump>>

Release(s) == [w \in Wallets |-> IF lock[w] = s THEN Free ELSE lock[w]]

\* The rows that count against a wallet's budget from day d on.
Live(t) == status[t] \in {"pending", "confirmed"}

Reserved(w, d) == {t \in Txs : payer[t] = w /\ Live(t) /\ created[t] >= d}

\* Variant: the day is read off the clock instead of now().
FitsByClock(x) ==
    x.limit # NoLimit => Spent(Reserved(x.wallet, day)) + Fee[x.tx] <= x.limit

\* The guard of the conditional insert.
Fits(x) ==
    x.limit # NoLimit => Spent(Reserved(x.wallet, x.began)) + Fee[x.tx] <= x.limit

\* An insert of the same hash waits for one that is not committed yet.
UniqueFree(s, t) == \A q \in Servers \ {s} : ~(server[q].pc = "commit" /\ server[q].tx = t)

\* Variant: a failed row gives its hash back.
InsertFailedAgain(s) ==
    /\ server[s].pc = "insert"
    /\ UniqueFree(s, server[s].tx)
    /\ status[server[s].tx] \in {"none", "failed"} /\ Fits(server[s])
    /\ Serve(s, Inserted(server[s], Reserved(server[s].wallet, server[s].began)))
    /\ UNCHANGED <<config, lock, rows, bump>>

Insert(s) ==
    /\ server[s].pc = "insert"
    /\ UniqueFree(s, server[s].tx)
    /\ status[server[s].tx] = "none" /\ Fits(server[s])
    /\ Serve(s, Inserted(server[s], Reserved(server[s].wallet, server[s].began)))
    /\ UNCHANGED <<config, lock, rows, bump>>

\* BudgetExceeded (429) or Conflict (409).
InsertRefused(s) ==
    /\ server[s].pc = "insert"
    /\ UniqueFree(s, server[s].tx)
    /\ status[server[s].tx] # "none" \/ ~Fits(server[s])
    /\ lock' = Release(s)
    /\ Serve(s, Idle)
    /\ UNCHANGED <<config, rows, bump>>

Commit(s) ==
    /\ server[s].pc = "commit"
    /\ status' = [status EXCEPT ![server[s].tx] = "pending"]
    /\ payer' = [payer EXCEPT ![server[s].tx] = server[s].wallet]
    /\ created' = [created EXCEPT ![server[s].tx] = server[s].began]
    /\ granted' = [granted EXCEPT ![server[s].tx] = server[s].limit]
    /\ counted' = [counted EXCEPT ![server[s].tx] = server[s].seen]
    /\ lock' = Release(s)
    /\ Serve(s, Holding(server[s], "sign", "failed"))
    /\ UNCHANGED <<config, old, bump>>

(***************************************************************************)
(* Signing, submission, and the outcome.                                   *)
(***************************************************************************)
\* sign_fee_bump succeeds under one of the opening keys, and Horizon is called.
SignAndPost(s) ==
    /\ server[s].pc = "sign"
    /\ bump' = [bump EXCEPT ![server[s].tx] = "inFlight"]
    /\ Serve(s, Holding(server[s], "wait", "failed"))
    /\ UNCHANGED <<config, lock, rows>>

\* No key opens the seed, or the breaker is open or the connection fails before
\* anything reaches the network: failed in either case.
SignOrPostFails(s) ==
    /\ server[s].pc = "sign"
    /\ Serve(s, Holding(server[s], "finalize", "failed"))
    /\ UNCHANGED <<config, lock, rows, bump>>

\* Ok(r) with r.successful.
AnswerConfirmed(s) ==
    /\ server[s].pc = "wait"
    /\ bump[server[s].tx] = "applied"
    /\ Serve(s, Holding(server[s], "finalize", "confirmed"))
    /\ UNCHANGED <<config, lock, rows, bump>>

\* Ok(r) without success, a rejection, a timeout or a lost answer.
AnswerFailed(s) ==
    /\ server[s].pc = "wait"
    /\ Serve(s, Holding(server[s], "finalize", "failed"))
    /\ UNCHANGED <<config, lock, rows, bump>>

\* finalize_sponsored_transaction: an update by id, whatever the status is.
Finalize(s) ==
    /\ server[s].pc = "finalize"
    /\ status' = [status EXCEPT ![server[s].tx] = server[s].outcome]
    /\ old' = old \ {server[s].tx}
    /\ Serve(s, Idle)
    /\ UNCHANGED <<config, lock, payer, created, granted, counted, bump>>

\* The handler ends: an error is returned, the answer to a refusal is sent, the
\* update fails and is ignored, or the handler is dropped.  An open transaction
\* is rolled back, which frees the lock.
End(s) ==
    /\ server[s].pc # "idle"
    /\ lock' = Release(s)
    /\ Serve(s, Idle)
    /\ UNCHANGED <<config, rows, bump>>

Server(s) ==
    \/ Preflight(s) \/ PreflightStale(s) \/ Begin(s) \/ AdvisoryLock(s)
    \/ Insert(s) \/ InsertRefused(s) \/ Commit(s)
    \/ SignAndPost(s) \/ SignOrPostFails(s)
    \/ AnswerConfirmed(s) \/ AnswerFailed(s)
    \/ Finalize(s) \/ End(s)

(***************************************************************************)
(* The sweep, the configuration, and the world outside.                    *)
(***************************************************************************)
\* Variant: the sweep stops at the reservations of the current day.
reconcile_today_only ==
    /\ {t \in old : created[t] = day} # {}
    /\ status' = [t \in Txs |-> IF t \in old /\ created[t] = day THEN "failed" ELSE status[t]]
    /\ old' = {t \in old : created[t] # day}
    /\ UNCHANGED <<config, lock, payer, created, granted, counted, bump, server>>

reconcile_stale_pending_sponsorships ==
    /\ old # {}
    /\ status' = [t \in Txs |-> IF t \in old THEN "failed" ELSE status[t]]
    /\ old' = {}
    /\ UNCHANGED <<config, lock, payer, created, granted, counted, bump, server>>

\* put_config, which replaces the whole configuration.
put_config(w) ==
    /\ \E b \in Budgets :
          b # budget[w] /\ budget' = [budget EXCEPT ![w] = b]
    /\ UNCHANGED <<walletSeq, usedUp, day, lock, rows, bump, server>>

Holds == {"sign", "wait", "finalize"}

Busy(t) == \E s \in Servers : server[s].tx = t /\ server[s].pc \in Holds

GrowOld(t) ==
    /\ status[t] = "pending" /\ t \notin old /\ ~Busy(t)
    /\ old' = old \cup {t}
    /\ UNCHANGED <<config, lock, status, payer, created, granted, counted, bump, server>>

NewDay ==
    /\ day < MaxDay
    /\ day' = day + 1
    /\ UNCHANGED <<budget, walletSeq, usedUp, lock, rows, bump, server>>

\* The wallet's own transactions advance its account's sequence number.
WalletTransacts(w) ==
    /\ walletSeq[w] < MaxSeq
    /\ walletSeq' = [walletSeq EXCEPT ![w] = @ + 1]
    /\ UNCHANGED <<budget, usedUp, day, lock, rows, bump, server>>

Charged == {"applied", "innerFailed"}

\* A ledger takes the fee-bump: the fee is charged whether or not the inner
\* transaction succeeds, and its sequence number is used up.
Apply(t) ==
    /\ bump[t] = "inFlight"
    /\ \E r \in Charged : bump' = [bump EXCEPT ![t] = r]
    /\ usedUp' = usedUp \cup {t}
    /\ UNCHANGED <<budget, walletSeq, day, lock, rows, server>>

\* The network refuses or drops the fee-bump; nothing is charged.
Drop(t) ==
    /\ bump[t] = "inFlight"
    /\ bump' = [bump EXCEPT ![t] = "dropped"]
    /\ UNCHANGED <<config, lock, rows, server>>

Next ==
    \/ \E s \in Servers : Server(s)
    \/ reconcile_stale_pending_sponsorships
    \/ \E w \in Wallets : put_config(w) \/ WalletTransacts(w)
    \/ \E t \in Txs : GrowOld(t) \/ Apply(t) \/ Drop(t)
    \/ NewDay

Spec == Init /\ [][Next]_vars

\* A handler goes on until it ends, a row that nobody works on grows old, and the
\* sweep runs every minute.
Fairness ==
    /\ \A s \in Servers : WF_vars(Server(s) /\ server[s].pc # "idle")
    /\ \A t \in Txs : WF_vars(GrowOld(t))
    /\ WF_vars(reconcile_stale_pending_sponsorships)

FairSpec == Spec /\ Fairness

(***************************************************************************)
(* Properties.                                                             *)
(***************************************************************************)
Limits == Budgets \cup {Off}

Requests ==
    [pc : {"idle", "stale", "begin", "lock", "insert", "commit", "sign", "wait", "finalize"},
     tx : Txs \cup {Free}, wallet : Wallets \cup {Free}, limit : Limits,
     began : 0..MaxDay, seen : SUBSET Txs, outcome : {"confirmed", "failed"}]

TypeOK ==
    /\ budget \in [Wallets -> Budgets]
    /\ walletSeq \in [Wallets -> 0..MaxSeq]
    /\ usedUp \subseteq Txs
    /\ day \in 0..MaxDay
    /\ lock \in [Wallets -> Servers \cup {Free}]
    /\ status \in [Txs -> {"none", "pending", "confirmed", "failed"}]
    /\ payer \in [Txs -> Wallets \cup {Free}]
    /\ created \in [Txs -> 0..MaxDay]
    /\ granted \in [Txs -> Limits]
    /\ counted \in [Txs -> SUBSET Txs]
    /\ old \subseteq Txs
    /\ bump \in [Txs -> {"unsent", "inFlight", "dropped"} \cup Charged]
    /\ server \in [Servers -> Requests]

\* A set of rows is within budget when one of them was granted against a budget
\* that covers them all.
Within(S) == S = {} \/ \E t \in S : granted[t] = NoLimit \/ Spent(S) <= granted[t]

\* The rows that count against a wallet's budget of day d.
ReservedOn(w, d) == {t \in Reserved(w, d) : created[t] = d}

\* However requests race on a wallet, in one process or several, whenever they
\* end, and even around midnight, the fees reserved for one day never exceed the
\* budget their reservations were granted against (try_reserve_sponsored_transaction).
ReservedWithinBudget == \A w \in Wallets, d \in 0..MaxDay : Within(ReservedOn(w, d))

\* No two reservations of a wallet and a day miss each other: one of them was
\* in the sum that admitted the other, whatever races and whoever dies (the
\* advisory lock of try_reserve_sponsored_transaction, held to the commit).
NoBlindReservation ==
    \A a, b \in Txs :
        /\ a # b /\ Live(a) /\ Live(b)
        /\ payer[a] = payer[b] /\ created[a] = created[b]
        => a \in counted[b] \/ b \in counted[a]

\* An inner transaction is fee-bumped at most once, over all wallets and
\* processes: whoever is about to sign it is alone and nobody has sent it before
\* (the unique index on inner_tx_hash).
BumpedOnce ==
    \A s \in Servers : server[s].pc = "sign" =>
        /\ bump[server[s].tx] = "unsent"
        /\ \A q \in Servers \ {s} : server[q].pc \in {"commit"} \cup Holds =>
                                      server[q].tx # server[s].tx

\* A row says confirmed only when the ledger applied the inner transaction.
ConfirmedIsApplied == \A t \in Txs : status[t] = "confirmed" => bump[t] = "applied"

\* A reservation does not stay pending: its handler finalizes it or, once that is
\* gone, the sweep of main.rs fails it and frees the budget.
ReservationEnds == \A t \in Txs : (status[t] = "pending") ~> (status[t] # "pending")

\* A limit covers the rows of S and t besides.
Covers(limit, S, t) == limit # NoLimit => Spent(S) + Fee[t] <= limit

\* What a handler may rely on: inside the reservation it has the lock and has
\* counted every row of its wallet; afterwards its row is pending and not old.
HandlerOK(s, x) ==
    /\ x.pc \in {"begin", "lock", "insert", "commit"} =>
          x.tx \in Txs /\ x.wallet \in Wallets /\ x.limit # Off
    /\ x.pc \in {"insert", "commit"} => lock[x.wallet] = s
    /\ x.pc = "commit" => /\ status[x.tx] = "none" /\ Reserved(x.wallet, x.began) \subseteq x.seen
                          /\ Covers(x.limit, x.seen, x.tx)
    /\ x.pc \in Holds => x.tx \in Txs /\ status[x.tx] = "pending" /\ x.tx \notin old
    /\ x.pc = "sign" => bump[x.tx] = "unsent"
    /\ x.pc = "finalize" /\ x.outcome = "confirmed" => bump[x.tx] = "applied"

RowsOK == \A t \in Txs :
    /\ status[t] = "none" => bump[t] = "unsent"
    /\ t \in old => status[t] = "pending"

\* No two handlers have a row, or an insert not yet committed, for one hash.
Distinct ==
    \A s, q \in Servers :
        s # q /\ server[s].pc \in {"commit"} \cup Holds /\ server[q].pc \in {"commit"} \cup Holds
        => server[s].tx # server[q].tx

\* The inductive invariant behind NoBlindReservation, BumpedOnce and
\* ConfirmedIsApplied.
IInv ==
    /\ TypeOK /\ RowsOK /\ Distinct /\ NoBlindReservation /\ ConfirmedIsApplied
    /\ \A s \in Servers : HandlerOK(s, server[s])

\* The one behind ReservedWithinBudget, which a row that fails would not keep: with it
\* goes the budget it was granted against.  Any rows that are left have to be within
\* one of their budgets.
AnyWithinBudget ==
    \A w \in Wallets, d \in 0..MaxDay : \A S \in SUBSET ReservedOn(w, d) : Within(S)
=============================================================================
