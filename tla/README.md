# A TLA+ verification of Octo Protocol

Octo is a wallet-as-a-service for Stellar: a Rust server in front of one Postgres database and
one Horizon node. Its replicas share nothing but the database; everything that is hard about it
happens between two statements, between two requests or between two processes. This directory
holds TLA+ modules for those parts, TLC configurations that check them on small instances, and
TLAPS proofs of safety properties for every value of the constants.

`PROJECT.json` is the index: components, runs, the source lines each definition stands for,
hazards, findings, theorems, and for every property a variant of the code that breaks it.

- [Inventory](#inventory): the system's parts and how they interact
- [Modules](#modules): how each model corresponds to the code, its bounds and its fairness
- [Runs](#runs), [Proofs](#proofs), [Disagreements](#disagreements-between-code-and-documentation)
- [What is not modelled](#what-is-not-modelled)

## Inventory

Paths are under `src/crates`, with the crate's own `src/` left out where the file name is enough.

| Part | Where | State | Module |
|---|---|---|---|
| Ingestor | `ingest/lib.rs`, `horizon.rs`, `stream.rs`; `store/ingest.rs` | `ingest_cursor`, `transactions` | `Ingest` |
| Supervisor: leadership, streams | `ingest/lib.rs`, `stream.rs`; `store/lib.rs` | advisory lock, `StreamSet`, `LiveStreams` | `IngestLeader` |
| Supervisor: polling pass | `ingest/lib.rs`, `store/wallets.rs` | due wallets, permits, page budgets | `Polling` |
| Payment links | `api/routes/payment_links.rs`, `store/payment_links.rs` | links and intents | `PaymentLinks` |
| Resilience | `resilience/lib.rs` | one breaker per client, a loop per call | `Resilience` |
| Withdrawal codes, allow-list | `api/routes/submit.rs`, `whitelist.rs`; `store/otps.rs`, `sponsorship.rs` | codes, switch, entries | `Approvals` |
| Withdrawals | `api/routes/submit.rs`, `api/withdrawal_reconciler.rs`, `store/ingest.rs` | `transactions` by hash | `Withdrawals` |
| Gas sponsorship | `api/routes/sponsor.rs`, `sponsorship.rs`, `store/sponsorship.rs` | reservations, advisory lock | `Sponsorship` |
| Webhooks | `webhooks/lib.rs`, `store/webhooks.rs`, `api/routes/webhooks.rs` | endpoints, dead streak, log | `Webhooks` |
| Accounts | `api/auth.rs`, `api/routes/{account,sessions,apikeys}.rs`, `store/{users,otps,sessions,account}.rs` | users, codes, epochs, sessions, keys | `Accounts` |
| Login throttle | `api/rate_limit.rs`, `store/rate_limit.rs`, `store/users.rs` | shared and local windows, lockout | `Throttle` |
| Audit chain | `store/audit_chain.rs`, `store/account.rs` | rows, head, advisory lock | `AuditChain`, `AuditLog` |
| Wallets, addresses, idempotency keys | `api/routes/{wallets,addresses,payment_links}.rs`, `store/{wallets,addresses,idempotency}.rs` | wallets, id counter, keys | `Wallets` |
| Key rotation | `bin/migrate-keys` | sealed seeds, checkpoint file | `KeyRotation` |
| Operation-index backfill | `bin/backfill-operation-index` | `transactions`, checkpoint | `Backfill` |
| Server process | `bin/server` | environment, schema | `Settings` |
| Horizon client of the API | `api/horizon.rs` | fee cache | `HorizonClient` |
| CSV export | `api/routes/transactions_csv.rs` | keyset position | `Export` |
| EVM client, addresses, signatures | `evm-rpc`, `evm-core`, `evm-adapter` | breaker, attempts | `EvmRpc`, `EvmCore` |
| Pure functions | amounts and fees; addresses and snippets; texts; envelopes | none | `Money`, `Network`, `Texts`, `Envelopes`, driven by `Formats` |

How the parts interact:

- The **supervisor** of the replica that holds the leader lock polls due wallets in pages and
  runs a long-lived stream for those that opted in; either way an **ingestor** reads the wallet.
  An ingestor that inserted a deposit hands it to the **webhook** sender and to the
  **payment-link** match. The tick also runs the payment-link expiry sweep.
- Every call to Horizon goes through **resilience**: reads are retried, submissions are not, and
  the stream's connect asks the breaker by itself. The **EVM client** has a retry loop of its own
  around the same breaker (`EvmRpc` extends `Resilience`).
- A **withdrawal** is admitted by an emailed code or a key and by the wallet's allow-list
  (`Approvals`), its envelope is checked (`Envelopes`), and it is recorded, submitted and settled
  (`Withdrawals`); what the route leaves pending is settled by a sweep on every replica.
- **Sponsorship** reserves budget in a database transaction, then fee-bumps and submits; a sweep
  fails the reservations whose handler died.
- **Accounts** own **wallets**; deleting an account archives the wallets whose balances were
  checked and anonymises the **audit chain**. Logins pass the **throttle** first.
- The **key rotation** re-seals the seeds that the wallet routes write meanwhile
  (`KeyRotation` extends `Wallets`). The **backfill** rewrites rows beside the ingestor's inserts.

What makes these parts hard is in `hazards` of `PROJECT.json`, at the line where it bites:
overlapping writers of one cursor; a leader that loses its lock in the middle of a tick; marks
and tokens shared by an old and a new task; a value read before an await and used after it; three
writers racing for one pending row; answers that are lost after the network has acted; budgets
and windows that are summed while others commit; kills between any two of these.

## Modules

All models take each SQL statement (or database transaction, where the code uses one) and each
lock section as one step, and let anything happen between two awaits. A kill or a dropped handler
may come at any such point. Data is abstracted to what the properties tell apart.

Operators that a comment calls a *Variant*, or whose name says what they leave out, are wrong
forms of the operator below them; they are used by no specification and show that a property has
teeth. `MCX.tla` and `MCX.cfg` hold the instance of `X` for TLC; the modules of proofs and what
they are about are listed under *Proofs*.

### Ingest

One wallet; `Workers` are all tasks that may read it: page polls and stream sessions, of any
replica and any leadership term. Operations are `1..N` in paging-token order. `cursor` is
`ingest_cursor.paging_token`, `deposits` the rows of `transactions`, `created` and `matched` the
calls of `fire_deposit_webhook` and `confirm_payment_link`. One worker's loop is `GetCursor`,
`Fetch` or `OpenStream`/`NextRecord`, then per record `Process`, `FireDepositWebhook`,
`ConfirmPaymentLink`, `SetCursor`. `Abort` is an error or a kill at any await; the `...LostReply`
actions are writes that commit and report an error.

Which operations are deposits is one set, `credit`, chosen at the start: decoding of kinds,
muxed ids, memos and amounts is not modelled. `record_deposit` is the insert under its unique
index; `set_cursor` overwrites without looking, as in the code.

- *Bounds.* Two workers, three operations, pages of two: a full page, a partial page, and a slow
  worker that rewrites the cursor behind a fast one. One kill and one lost reply at any point.
- *Fairness.* Weak, per worker: tokio runs a task that can run, the supervisor ticks for ever,
  `run_stream` reconnects for ever.

### IngestLeader

One wallet, any number of replicas. `holder` is the advisory lock, `pc` each supervisor's place in
`run_until_cancelled`/`lead`, `own` the wallet's task in the term's `StreamSet`, `left` a task that
`sync` cancelled without awaiting it, `live` the mark in `LiveStreams` that makes the tick pass
over the wallet. Whether a task is cancelled follows from where it is (`Cancelled`), since tokens
are children of the term's and the server's token. `settle` covers `spawn_page` and `settle`.

- *Bounds.* Two replicas; two pages per tick; one fault of any kind (a lost session, a failed
  query, a shutdown, a kill, a panic). The proofs are for any `MaxFaults`. A replica has at most
  one `left` task; `sync` waits for it before leaving another.
- *Abstractions.* The wallet is an active one, due at every tick. Unmarking happens in the same
  step as the session's end; in the code nothing is awaited in between.
- *Fairness.* Weak, for supervisors, for restarts, and for stream tasks, except that a session
  nobody cancelled may stay open for ever.

### PaymentLinks

One link. `status`, `price`, `made`, `paidBy` are the columns of its intents; each intent also
names its own deposit address, and `LinkAddress` is the link's. `Quote` is `create_payment_intent`
up to the insert; `record_payment_link_intent` the insert, by which time the link may have
changed. `match` is one `confirm_payment_link` task per deposit: the exact look-up, the fallback to
the link's oldest intent, the check of the link as read, the conditional update. `events` counts
what the call that changed an intent dispatches. Time is `past` (the link's deadline has gone by)
and `old` (intents over an hour old).

- *Bounds.* Two intents, three deposits (a small one on an intent's address, a large one on the
  link's, one in another asset), two amounts. Every pair of racing writers of one intent occurs.
- *Fairness.* Weak, for time and for the sweep, which every tick of the leader runs. That there is
  always a leader that ticks is assumed here; `IngestLeader` does not state it as a property.

### Resilience

The breaker's `check`, `on_success` and `on_failure`, and the loop of `execute` for read-only calls
and submissions, plus the stream connect. `age` counts ticks since the breaker opened or lent out
its probe. `stray` counts requests a call sent while the breaker was refusing.

- *Bounds.* Three callers, threshold two, three attempts, a reset of two ticks: enough for a
  breaker to open under a sleeping caller, for a lost probe, and for a late success.
- *Fairness.* Weak for time and callers; strong for `Succeed`: a Horizon that is up does not
  answer every request with a permanent error.

### Withdrawals

`Servers` relay one transaction at a time (the code's `sequence_lock` is per process);
`Sweepers` run `reconcile`. `chain`, `pool` and `past` are the network: what the newest ledger
says, what may still be applied, what is past its `max_time`. A relay records the row, submits,
and settles it; answers may be lost, and the pending write may fail (`unlogged`). A sweep lists a
batch, looks each transaction up, asks for the newest ledger's time, and settles.

- *Bounds.* Two transactions (one with a `max_time`), one server, one sweeper, a batch of one,
  abandonment after two ticks, one failed pending write. The proofs cover any number of servers
  and sweepers.
- *Fairness.* Weak for time, ledgers and sweepers; strong for one row's look-up and write: they do
  not fail for ever.

### Sponsorship

The `sponsor` handler from preflight to `finalize`. The reservation is a database transaction in
four steps (`begin`, lock, insert, commit): its row is invisible until the commit, `now()` is the
time of `begin`, and the budget sum runs under the wallet's advisory lock. `counted` and `granted`
are history: the rows and the budget the reservation saw. `bump` is the fee-bump as the network
knows it. `reconcile_stale_pending_sponsorships` is the sweep of `main.rs`.

- *Bounds.* Two processes and two inner transactions on one wallet, or two wallets and one
  transaction; one midnight; sponsorship switched off and on.
- *Assumption.* A row grows old (300 s) only when no handler works on it, because a handler's
  waits after the reservation are bounded well below that.
- *Fairness.* Weak, for a handler that has begun, for ageing and for the sweep.

### Webhooks

A task is one call of `dispatch`, `send_ping` or `redeliver`, by the ingestor, a route or another
replica. A dispatch reads the active endpoints once and serves them one after another: attempts,
the overall deadline, the row of the log, the streak, the disabling and its announcement, each a
step. Tasks die anywhere, and each write may fail, which the sender only logs.

- *Bounds.* Two endpoints, one whose URL is refused by now; three tasks, two at a time (two
  events and a ping or a redelivery); two attempts; a streak of two. Two tasks can reach the
  threshold together, and a success can fall between two dead deliveries.
- *Fairness.* Weak, per task and for the deadline timer: tokio polls a task that can run.
- Deadlock checking is off: when all calls are done the sender stops.

### Accounts

Twenty kinds of request over `users`, codes of every purpose, tokens with their epoch and session,
wallets and API keys. A step is one store call with the tests the handler makes on its answer;
refusals that change nothing are no steps. Passwords and codes are compared as values, so hash
functions are taken to be injective.

- *Bounds.* Two accounts, two addresses, two passwords, three requests, two of them at a time, any
  store call failing: every pair of handlers interleaves, and a third request sees the outcome.
- *Codes.* A row of `email_otps` that is deleted stays in the model, marked `gone`: the code consumes
  a row by its id, and no later row has the id of a deleted one.
- *New epochs.* `change_password`, a reset and a sign-out elsewhere are a transaction of two
  statements at READ COMMITTED: `apply_epoch` locks the user's row and revokes the sessions it finds,
  `commit_epoch` makes both visible. Until then other requests read the old epoch and wait for the
  rows it has changed (`Locked`, `Claimed`), but may insert sessions.
- *Left out.* The display name; expiry of tokens and sessions, which only ends them; reads.
- *Excepted.* `LiveTokensAreCurrent` excepts the sessions that the code cannot vouch for, marked
  `loose`: those made from a token of before sessions were tracked, which the code adopts without
  knowing how it was obtained, and those inserted between the two steps of a new epoch (see
  *Disagreements*).

### AuditChain and AuditLog

`AuditLog` is the abstract promise: a log that grows at its end, is anonymised as a whole with the
account's deletion, and whose damage no step of the service repairs or covers up. `AuditChain` is
the code: rows linked by hash, the head with its MAC, writers under the per-user advisory lock,
adoption of older rows, `anonymise_chain`, and `verify_audit_chain`, which reads row by row beside
the writers. The refinement (`LogSpec`) maps `entries` to the hash of the head, `damaged` to "what
is stored is not what the service wrote". The HMAC is an injective function: a hash *is* the
sequence of fields hashed so far, and a MAC nobody computed is a head that is not genuine.

- *Bounds.* Two writers, one older row, four links, two changes from outside.

### Wallets and KeyRotation

`Wallets` has creation with its ownership challenge, archiving, pausing, gas tanks, allocation of
muxed ids (a transaction that holds the wallet's row lock between two steps), a paginated listing
that a client follows, and link creation under an idempotency key with claim, completion, release,
expiry and purge. The reply of an insert may be lost after its commit (`told`), in which case the
handler releases the key. `KeyRotation` adds the tool: batches, the checkpoint file, several runs in
one directory, crashes, the roll-out of `MASTER_KEY_NEXT` to the servers, any number of rotations,
and runs without `MASTER_KEY_NEXT`, which upgrade the scheme. It tells apart the two readers of a
sealed seed: the tool and the self-test, which give the account id, and `sign_fee_bump` (`signs`),
which does not and refuses scheme 2.

- *Bounds.* Requests meet in nine mixes of up to three (three links under one key; batches beside
  a listing; two tanks beside an allocation; tanks during rotations; a tank beside rotations and
  upgrades; ...), two rotations, two tool runs, batches of one, one crash, one expiry.
- *Assumption.* No request outlives the 24 hours of its idempotency key. `provision_wallet` and
  `lock_gas_tank_provision`, which the routes call, are not in this tree: they are modelled from
  their callers, and seal with scheme 1.

### Approvals

One wallet: codes bound to a transaction (`verify_and_consume_otp` is two statements, `claim` and
`consume`), requests with a key, and the relay's reads of switch and list under the account's
lock while the owner edits both. `seen` is history: what the switch and the list were since the
relay took the lock. A transaction is its operations; as in the code, the list is asked about the
first `Payment` and about nothing else. An address is a pair of account and form, since a muxed
address and its base account are different texts.

- *Bounds.* Two requests, transactions with and without a `Payment`, two codes of two attempts, two
  listable forms of one account. Codes and list edits are explored separately, as the first only
  decides who reaches the second; the proofs cover them together and for any sizes.

### Polling

One pass of `Supervisor::tick` over many wallets: `wallets_due_for_poll_page` page by page with its
activity tiers, the semaphore, the page budget with re-queuing, `mark_polled`, failures and panics,
beside pauses, streams, deliveries and time. What a poll does with a record is in `Ingest`.

- *Bounds.* Three wallets, pages of one, one permit, two pages of two records each, one fault.
  The order in which tasks reach the semaphore is the runtime's, so no fairness of permits is
  claimed.

### Throttle

Processes that share the limiter's table, each with a local fallback when the database does not
answer, and the account lockout. *Bounds.* Two processes, four attempts, a limit and a lock
threshold of two, time up to four ticks, one restart.

### Settings

What `Config::from_env`, `mainnet_guard`, `--check-config` and the start-up self-test accept, driven
by `Formats`. *Bounds.* All settings at most two changes away from good ones, on nine databases
reachable or not. What the process does at a signal is in `IngestLeader` (shutdown) and in the kills
of the other modules; its exit code and its log are not modelled.

### Export, Backfill, HorizonClient, EvmRpc

`Export` is a stream of keyset pages beside inserts and status changes (three rows, timestamps that
tie). `Backfill` is the tool with batches, limit, dry run, interruption and a second invocation
beside the worker's inserts (three deposits, two creation times, so that rows tie, two jobs); as the
statement stands, its update of a batch always fails. `HorizonClient`
is what each read makes of an answer, and the fee figures with their age (two readers, a clock of
eight ticks). `EvmRpc` puts the client's retry loop over the breaker of `Resilience` (two clients).

### Money, Network, Texts, Envelopes, EvmCore and Formats

Pure functions, translated as operators over sequences of small alphabets. `Formats` makes one call
at a time and keeps its inputs and result in `work`; its properties compare the result with a
reference: a decimal text with the number it denotes, the two readers of amounts with one another,
a CSV row with what a standard reader gets back, an estimate with the balance that is left, a
checked envelope with whose money it moves, an address class with the registered ranges. Widths are
scaled down (`Decimals`, `MaxInt`, `SnippetMax`, `Order`) and inputs are all those up to a length,
with the values at both sides of each boundary.

## Runs

| Run | Properties | Shows |
|---|---|---|
| `ingest` | `NoSkippedDeposit`, `NotifiedAtMostOnce`, `CatchesUp` | The cursor never passes an unrecorded deposit; no deposit is notified or matched twice; every deposit is recorded, and the cursor reaches the end for good although workers move it back. |
| `ingest_leader` | `MarkHasStream`, `LeaderMovesOn` | A live mark has a session unless a task panicked; a leader without its lock steps down; the wallet is read again and again. |
| `payment_links` | `OneVerdict`, `SettledByItsDeposit`, `IntentsEnd` | Each intent gets one verdict, announced once, justified by its deposit and final; none stays pending. |
| `resilience` | `AtMostOneStray`, `Recovers` | A call sends at most one request past an open breaker; a breaker closes once Horizon stays up. |
| `withdrawals` | `ConfirmedIsOnChain`, `ExpiredIsSealed`, `RowsAreSettled` | Confirmed rows are true; an expired row's fate is sealed; settled rows are final; a sweep settles the expired rows its batch holds; no row stays pending for ever. |
| `sponsorship` | `ReservedWithinBudget`, `BumpedOnce`, `ReservationEnds` | Reservations stay within the day's budget; an inner transaction is fee-bumped once, also over wallets that share no lock; reservations end. |
| `webhooks` | `LogTellsRequests`, `DisabledRightly`, `SenderReturns` | The log tells the requests that were made; an endpoint is disabled only by a streak of dead deliveries, and announced once; every call returns although endpoints hang. |
| `accounts` | `TokensAreCurrent`, `CodesProve`, `RemovalIsSafe`, `LoginsThrottled` | No accepted token rests on a credential that was ended, but for the `loose` sessions, and a deleted account is out; codes are spent once and within their attempts, and a verified address was proven by one; a verified account survives a signup's roll-back, and a deletion archives only the wallets that were checked. By itself (`side`), the throttle: a counter lets at most 2 * limit - 1 attempts through in any window, repeated failures lock, never for longer than the largest backoff, and nothing shortens a lock before a login succeeds. |
| `audit_chain` | `ChainIsLinear`, `VerdictIsTrue`, `LogSpec` | The chain is linear and implements the abstract log; a verification reports every damage that was there when it began, and none that was not unless a commit overlaps it. |
| `wallets` | `GivenOnce`, `KeyMakesOneLink`, `WalkSeesAll`, `RotationSafe` | Ids and references are distinct and a tank keeps its seed; a key creates one link whose insert is answered, and replays that one; a client that pages to the end sees every address that was there; over two rotations and upgrades no seed is destroyed, one not yet re-sealed opens for the signer, a run that reports completion has left only what an earlier one re-sealed, and after the first rotation the old key can go. |
| `parts` | see below | The parts that share no state, each explored by itself (`side` says which). |
| `withdrawals_gateway` | `RelayFailureIsKnown` | Expected violation; see [below](#disagreements-between-code-and-documentation). |

Several of these are conjunctions of facts that stand beside them in the module, each with its own
comment: `CatchesUp` is `EventuallyRecorded` and `CursorCatchesUp`, `GivenOnce` is
`AddressesDistinct` and `OneTank`, and so on. In `parts`:

| Property | Shows |
|---|---|
| `CodeSpentOnce`, `ListDecides` | A withdrawal code admits one transaction, the one it is bound to; the first `Payment` of a relayed transaction goes to an address that an enabled list held while the relay was looking. |
| `PassHolds` | A polling pass begins one turn for every wallet that stays due, keeps to its budgets, and holds a bounded queue. |
| `ExportFaithful` | An export that looks complete has every row that kept matching, once, newest first. |
| `BackfillComplete` | A backfill that reports success left no wrong index among the rows that were there, but for rows whose `created_at` ties with another's. |
| `AnswersHold` | Fee figures are no older than their time to live and one fetch; an absence is reported only on a 404. |
| `CallsAreTrue` | The EVM client sends a transaction once, a read at most `max_attempts` + 1 times, and tells values and errors apart, except in a 429. |
| `AmountsRight` | Amounts are read exactly and alike by both readers; an estimate is what can be spent; a fee bid is within the policy. |
| `FormatsRight` | The other pure functions against their references. |

The passing runs take between ten seconds and three minutes on two cores and have from some fifty
thousand to one million distinct states. In `withdrawals` a variable of the MC module chooses once whether a transaction's pending
write fails; in `sponsorship` one chooses between two transactions of one wallet around midnight
and one transaction of two wallets. In `parts` the two jobs of the backfill are
interchangeable, so one of them is the first to be used. In `wallets` the runs of the tool and the
request bodies are symmetric. Deadlock checking is off where the instance really ends: in
`webhooks`, `accounts`, `wallets` and `parts` the requests, calls or inputs run out.

## Proofs

The theorems hold for every value of the constants that satisfies the named `ASSUME`s. Most state a
property that a run checks as well; the others (`SubmitNeverRetried`, `OpenOnlyAtThreshold`,
`SubmittedHasRow`, `NoBlindReservation`, `ConfirmedIsApplied`, `DepositSettlesOne`,
`TermOwnsStream`, `SettledIsFinal`, `VerdictIsFinal`, and the types of the variables) are left to
the proofs, which cover every instance, or are a conjunct of what a run checks.

| Module | About | Theorems | Inductive invariant |
|---|---|---|---|
| `EventProofs` | `Ingest` | `NoDepositSkipped`, `AtMostOneNotification` | A worker never stands beyond an unrecorded deposit (`WorkersCovered`), so whatever token it writes next is safe, however stale; the worker whose insert won is alone on its way to notify (`NotifierOwnsDeposit`). |
| | `IngestLeader` | `TermEndsStream`, `MarksAreBacked` | The two and the types are inductive together: whoever sets the mark has its session open, and every end of a session clears it. |
| | `AuditChain` | `LinearChain`, `TablesImplementLog`, `TrueVerdicts` | `ChainInv`: only the lock's holder is in a transaction, and while nobody else has written the tables the rows are exactly the chain of the head's hash and what the holder has read is still there. `VerifyInv` adds that what a verification has read so far is a prefix of a chain that was stored. |
| | `Webhooks` | `LogsAreTrue`, `DisabledForCause` | `HooksInv`: what a delivery has counted at each of its steps (`SendOK`), and that the outcomes recorded for an endpoint end with at least `streak` dead ones (`StreakOK`), which is what the disabling relies on when tasks end in any order. |
| `PublicProofs` | `PaymentLinks` | `Verdicts`, `Settlements`, `NoDoubleCount`, `VerdictsFinal` | `TaskOK`: an unfinished match has settled nothing, holds an intent its deposit may pay, and has seen a cancellation that preceded its deposit. The last is what makes the stale read of the link harmless. |
| | `Throttle` | `GuessesBounded` | `ThrottleInv`: the attempts a counter has admitted lie in two windows, the older of which has already lost its first; a lock lasts no longer than the backoff of its count. |
| `WithdrawalsProofs` | `Withdrawals` | `ConfirmedRowsAreTrue`, `RowsBeforeSubmission`, `ExpiredRowsAreSealed`, `SettledRowsAreFinal` | A verdict about to be written still holds (`SweepOK`, `RelayOK`), because ledgers only ever add facts; the network applies only what is absent and not past its time (`PoolOK`). |
| | `Approvals` | `SpentOnce`, `AllowListDecides` | `ApprovalsInv`: a request about to spend a code has the transaction the code is bound to, a code with something spent is consumed; a relay that still looks has seen the list as it is, and every entry is a base account, so that a look-up of the base account finds either form. |
| `SponsorshipProofs` | `Sponsorship` | `ReservationsSeeEachOther`, `BudgetHolds`, `FeeBumpedOnce`, `ConfirmedRowsAreApplied` | `HandlerOK`: a handler about to commit holds the wallet's lock and has counted every visible row; after the commit its row is pending and not old, so the sweep leaves it alone. The budget rests on a sum over sets of rows; that a sum grows with its set, and by one fee with one row, are lemmas. |
| `RotationProofs`, on the steps of requests in `WalletsProofs` | `Wallets`, `KeyRotation` | `RotationInvariance`, `EachGivenOnce`, `OneLinkForKey`, `WalksSeeAll`, `RotationsSafe` | `RotationInv`: the holder of a wallet's row lock knows its next id, each claim of an idempotency key belongs to one request of its term and no answered link of the term precedes it, a walk has seen what is before its cursor, and a seal in a batch of the tool is the row's or the row is already moved. For the rotations, `KeysInv` adds that what a run has left behind it, and what a checkpoint for the sealing key vouches for, is re-sealed or under that key, that a provisioning beside a run seals with that key, and that a row still under scheme 1 is under a key the servers hold. |
| `AccountsProofs` | `Accounts` | `CredentialsStand`, `CodesAreProof`, `RemovalsAreSafe` | `AccountsInv`: the session of an accepted token keeps up with its user's epoch (`TokenOK`), a new epoch about to be committed has found every live session but the kept and the loose ones (`Found`), a verified account has a redeemed code for its address (`UserOK`), a code not yet spent went to the address of its unverified user (`CodeOK`), and what each request in flight may still rely on at each step (`ReqOK`). |
| `ResilienceProofs` | `Resilience`, `EvmRpc` | `OpenNeedsFailures`, `OneStrayRequest`, `SubmitSentOnce`, `CallsTrue` | `CallOK`: only a request or its failure carries a stray, a submission never sleeps, attempts stay within the policy; `RpcInv` counts the requests on the wire in the same way. |
| | `HorizonClient` | `HorizonAnswersHold` | `HorizonInv`: a fetch is no longer under way than `FetchTime`, so what it puts in the cache was true that recently. |
| | `Polling` | `PassesServeAll` | `PollingInv`: the pages so far have begun one turn for every wallet up to the last id and none beyond it (`PageOK`), and a turn has drawn what it counts (`TurnOK`). |

An invariant is strengthened only with what a process may rely on between two of its steps. The
proof that a step keeps it has a case per action; steps that leave the tables alone share one lemma
per module. In `Accounts` the handlers share a monotonicity lemma: rows, sessions, tokens and codes
only move onward (`Onward`), so whatever another request has seen stays true (`ReqStays`), and a
step has only its own rows to answer for. `ExpiredIsSealed`, `SettledIsFinal`, `VerdictIsFinal` and
`RemovalIsSafe` are action properties, proved from the same invariants; `TablesImplementLog` is a
refinement, proved step by step.

*Assumptions.* Most say no more than that bounds are naturals, that a null value is not a value, and
that data has its type. The others: there are finitely many inner transactions (`FiniteTxs`, for the
budget's sum) and polled wallets; a retry policy makes an attempt, a page and a permit are not
empty, `FeeTtl` is positive; a lock begins at the second failure or later and the backoff grows
(`ThrottleAssumption`, `PowersAssumption`); there are two addresses (the account of `Init` is about
to change its own), and no mailbox is in the domain of the tombstone (`RowsAssumption`).

*Only model-checked.* The liveness properties (`CatchesUp`, `LeaderMovesOn`, `PendingEnds`,
`Recovers`, `EventuallySettled`, `SettledBySweep`, `ReservationEnds`, `SenderReturns`), since the
prover supports neither fairness nor ENABLED. `ExportFaithful` and `BackfillComplete`: both compare
pages of a sorted sequence with what the sequence holds, which needs induction over sequences.
`AmountsRight` and `FormatsRight`: what pure functions compute for inputs of every length needs
induction over data, which is out of the prover's reach.

## Disagreements between code and documentation

One has a run and an entry in `findings`: `withdrawals_gateway`. A 5xx answer to a submission
settles the row as failed although the transaction is still in the network's hands.

The others were met while modelling and are visible in the models; properties except exactly these
cases.

Withdrawals and sponsorship:

- The sweep looks a transaction up (`withdrawal_reconciler.rs:95`) before it asks for the newest
  ledger (line 100). A ledger in between applies the transaction, one past its `max_time` closes,
  and the row is failed; lines 16-18 say "A row is failed only on proof".
- A fee-bump whose answer is lost is recorded as failed (`sponsor.rs:320`), which frees its budget,
  and may be applied all the same (`docs/api.md:180`: "bounded by your gas budget").
- The pre-flight check compares the inner transaction's sequence number with that of the sponsoring
  wallet (`sponsor.rs:132-144`), although its source must be another account.
- The sweep's documented bound on settling a row ignores its batch size; `SettledBySweep` is the
  bound that holds.
- Enabling the allow-list reads the list, then writes the switch, and `remove_address` never looks
  at the switch, so an enabled list can be empty (`whitelist.rs`: "always leaves at least one valid
  destination reachable"). Switch and list are read by two statements, so a relay may refuse what was
  allowed at every moment; `ListDecides` says what holds.
- Only the first `Payment` of a transaction is looked up, inside `if let Some(p) = &payment`
  (`submit.rs:126`). A path payment, and any `Payment` after the first, is relayed whatever the list
  says; `submit.rs:122` has "a Payment/PathPayment destination must be pre-approved" and
  `docs/issue-423-allowlist-otp.md:5-6` "a wallet can only send to pre-approved destinations".

Ingest:

- A kill between a deposit's insert and its webhook loses `deposit.created`: the replay is a
  duplicate and skips it. `docs/webhook-consumer-guide.md` speaks of at-least-once semantics.
- `set_cursor` may move the cursor back (`docs/ingest-integration.md` calls it monotonic). It
  does no harm: `NoSkippedDeposit`, `CursorCatchesUp`.
- A replica looks at its lock once per tick, so it ingests beside the next leader for up to a tick
  (`docs/ha-topology.md`). `Ingest` allows any overlap.
- A stream left behind by an opt-out may run on in a standby (`ingest/src/lib.rs`, the comment in
  `lead`, says a standby never streams).
- A stream task that panics leaves its live mark. If the wallet opts out before the next tick, no
  task clears the mark and this process never polls the wallet. `WalletServed` and `MarkHasStream`
  except this case.
- A deposit recorded with operation index 0 before the index existed makes a new deposit of
  operation 0 of that transaction look already recorded, until its index is set right.
- The backfill sets `updated_at` (`main.rs:162`), a column that `transactions` does not have: outside
  a dry run every batch with something to update ends in an error, which is counted, and no row is
  changed (the tool's README: "Updates records in small batches"). `update_batch` models this, so that
  `BackfillComplete` says what a run without errors means.
- It pages by `OFFSET` over `ORDER BY created_at` alone (`main.rs:88`). Rows that tie may change places
  between two pages and be passed over; `BackfillComplete` excepts them.

Payment links and resilience:

- An intent inserted after its link was cancelled stays pending until it expires
  (`docs/api.md` says cancelling cancels the unpaid intents), and one inserted while the owner
  edits the amount keeps the old price.
- Deposits on a link's own address settle the oldest pending intent of any payer
  (`docs/migrations.md` says per-intent addresses prevent cross-matching).
- A call that was backing off when the breaker opened sends one more request; the breaker's doc
  comment says that none is made. `AtMostOneStray` is the bound that holds.
- `call_read` of the EVM client sends `max_attempts` + 1 requests. `resilience/src/lib.rs:79` says
  "Total number of attempts (including the first)", and the test at
  `evm_rpc_mock_tests.rs:258-286` counts one request per call under a policy of one.
  `RequestsBounded` is the bound that holds.
- It counts a null result as a transport failure, and calls breaker methods that the resilience
  crate does not have.
- A 429 is a rate limit whatever its body holds (`client.rs:322-325`), so an error object in it is
  dropped and the call repeated; `ToldApart` excepts it.

Accounts and audit:

- A new epoch revokes the sessions its statement finds. A login that inserts a session after that
  statement and before the commit is not found, and its token, refreshed across the commit, outlives
  the change (`users.rs:115-116`: "revoke every session row except `keep_session`"; `sessions.rs:120`:
  "Revoke every session except `keep`"). `LiveTokensAreCurrent` excepts such a session.
- The re-hash of a login can overwrite a password that was changed meanwhile (`users.rs:170-178`).
- An API key asked for before the account's deletion may be created after it (`docs/api.md:66`), and
  requests in flight may write a name, an address or a password onto the deleted row.
- Two concurrent refreshes leave two live tokens (`auth.rs`: "a refreshed session leaves exactly one
  live token").
- The lock test uses the old count, so the first failure of a new window may lock (`users.rs:78`:
  "Five failures in fifteen minutes").
- A verification that a commit overlaps may report rows deleted from the end
  (`VerifyBlamesDamage` excepts it). A record that waits for the lock while the account is deleted
  appends a row with its address after the anonymisation (`docs/api.md:68`).

Wallets and rotation:

- A link whose insert is committed and whose reply is lost makes the handler release its key
  (`payment_links.rs:125`: "Nothing was created, so free the key for a corrected retry"), and the retry
  creates a second link. `KeyMakesOneLink` is about links whose insert was answered. The same holds
  for the address of a link: its id stays allocated.
- `list_wallets_needing_reseal` skips rows of scheme 2, so a second rotation, or one after an upgrade,
  reports completion without moving them (`migrate-keys/src/main.rs:12-13`: "Once this tool reports 0
  wallets remaining, the old key can be removed"). `RotationComplete` excepts rows that were re-sealed
  before; `FirstKeyGoes` is the case in which the old key can go.
- `sign_fee_bump` (`sponsor.rs:298`, `signer.rs:164`) opens scheme 1 only, so a tank the tool has moved
  cannot sign (`runbook-key-rotation.md:80`: "Wallets remain readable throughout", and line 161).
  `UnmovedSigns` is what holds for the signer, `SeedsKept` for a reader that gives the account id.
- `create_address` checks that the wallet is not archived, then allocates; `create_link` does not
  check.

Server:

- `--check-config` accepts settings that `serve` refuses later: a `PUBLIC_API_URL` that is not
  absolute, an all-zero key on testnet, a schema newer than the binary (`main.rs:69`: "validate
  everything `serve` needs"). `CheckPredictsServe` excepts these three.
- `drained` is logged also after the API task returned an error or the ingest task panicked while
  draining (`main.rs:344-354`); the repository's README, lines 321-324, has it mean that requests and
  the current tick are complete. Not modelled: a log line is all that follows from it.
- `run_retention_sweep` ends at the first error, although its comment says "a failure on one does
  not abort the others"; nothing calls it.

Requests and amounts:

- The client's address is the rightmost entry of `X-Forwarded-For` that is not a trusted proxy, and an
  entry that is no address drops the whole header (`rate_limit.rs:277-283`); `docs/api.md:350` says
  that keys use "the first `X-Forwarded-For` hop only when it parses as an IP address".
  `ClientIpStable` states both cases.
- The reader of amounts accepts "0" (`ingest/src/amount.rs:11` speaks of "non-positive results");
  `ExactAmount` has it accepted.

## What is not modelled

- *Cryptography and byte formats*: the ciphers, signatures, derivation, XDR, strkeys, JSON and hex.
  They are ideal functions, or external operators, of the modules that use them.
- *Trustlines* build a transaction for the client to sign and keep no state. `sign_payment` and
  `sign_change_trust` have no caller outside tests.
- *Email, metrics, tracing, the Horizon mock, HTTP routing and read-only listings*: output, test
  support, or no state that the system's behaviour depends on. A mail that fails is a fault in
  `Accounts`.
- *The retention sweep*, which nothing calls, and the purges of expired tokens and sessions, which
  no reader would accept anyway. The purge of idempotency keys is an action of `Wallets`.
- *The server's lifecycle*: binding, the drain and its timeout. A process that ends at any point is a
  kill in the modules of its tasks; shutdown of the supervisor is in `IngestLeader`.
- *`bin/migrate-keys/src/lib.rs`*, a second copy of the tool's loop over store functions that are not
  in this tree.
- *What makes an operation a deposit* (kind, muxed id, memo): one nondeterministic set in `Ingest`.
  Amounts are in `Money`.
- *Delay lengths*: a back-off or reconnect delay is a sleep of any length.
