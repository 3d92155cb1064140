------------------------------- MODULE Ingest -------------------------------
(***************************************************************************)
(* Deposit ingestion for one wallet (crates/ingest): every task that may   *)
(* read the wallet's operations from Horizon, record its deposits, notify  *)
(* its webhooks and move its durable cursor.                               *)
(*                                                                         *)
(* A worker is any such task: the page poll of a supervisor tick           *)
(* (Ingestor::poll_once) or an SSE session (Ingestor::stream_session), of  *)
(* any replica and any leadership term.  The model lets any number of them *)
(* run at once: the leader lock is only looked at between ticks, and a     *)
(* cancelled stream is not always awaited, so nothing in the code forbids  *)
(* the overlap (module IngestLeader has both).                             *)
(*                                                                         *)
(* The wallet's operations are 1..N in paging-token order, which is the    *)
(* order Horizon serves them in; 0 stands for "no cursor yet" and for the  *)
(* stream's "0".  An operation is a member of credit when `process' would  *)
(* record a deposit for it (successful transaction, plausible TOID, funds  *)
(* that really came in, positive amount) and is skipped otherwise.         *)
(*                                                                         *)
(* Failures: any await may return an error and a task may be killed        *)
(* between two awaits (MaxAborts of them in a behaviour), and a store      *)
(* write may commit and still return an error (MaxLostReplies).  What the  *)
(* webhook sender and the payment-link match do with an event is left to   *)
(* their own modules; here they are calls that run to their end or not.    *)
(***************************************************************************)
EXTENDS Integers, FiniteSets

CONSTANTS
    Workers,    \* the ingest tasks that may run for this wallet
    N,          \* how many operations the account has when the run ends
    PageLimit,  \* the limit poll_once passes to Horizon
    MaxAborts,  \* how many errors and kills a behaviour may contain
    MaxLostReplies  \* how many writes may commit and report an error

ASSUME NAssumption == N \in Nat
ASSUME PageLimitAssumption == PageLimit \in Nat \ {0}
ASSUME FaultAssumption == MaxAborts \in Nat /\ MaxLostReplies \in Nat

VARIABLES
    landed,     \* operations 1..landed are visible on Horizon
    credit,     \* the operations that are deposits (never changes)
    cursor,     \* ingest_cursor.paging_token, 0 when there is no row
    deposits,   \* rows of `transactions' per operation
    created,    \* deposit.created events dispatched per operation
    matched,    \* completed confirm_payment_link calls per operation
    task,       \* what each worker is doing
    aborts,     \* errors and kills so far
    lost        \* lost replies so far

vars == <<landed, credit, cursor, deposits, created, matched, task, aborts, lost>>

Ops == 1..N

\* at is the operation being processed (while fetching or listening: the cursor
\* that was read); last is the end of the polled page.
Idle == [pc |-> "idle", mode |-> "poll", at |-> 0, last |-> 0]

Tasks == [pc : {"idle", "fetch", "listen", "process", "notify", "match", "advance"},
          mode : {"poll", "stream"}, at : 0..N, last : 0..N]

Init ==
    /\ landed = 0
    /\ credit \in SUBSET Ops
    /\ cursor = 0
    /\ deposits = [i \in Ops |-> 0]
    /\ created = [i \in Ops |-> 0]
    /\ matched = [i \in Ops |-> 0]
    /\ task = [w \in Workers |-> Idle]
    /\ aborts = 0
    /\ lost = 0

(***************************************************************************)
(* The network.                                                            *)
(***************************************************************************)
\* The account's next operation becomes visible on Horizon.
Land ==
    /\ landed < N
    /\ landed' = landed + 1
    /\ UNCHANGED <<credit, cursor, deposits, created, matched, task, aborts, lost>>

(***************************************************************************)
(* The store.                                                              *)
(***************************************************************************)
\* The insert succeeds unless the unique index on the operation fires.
record_deposit(i) ==
    IF deposits[i] = 0 THEN [deposits EXCEPT ![i] = 1] ELSE deposits

\* Variant: the token of the record before is stored.
set_cursor_behind(i) == cursor' = i - 1

\* The upsert does not look at the token it replaces.
set_cursor(i) == cursor' = i

(***************************************************************************)
(* A worker.                                                               *)
(***************************************************************************)
\* The task moves on to the record after the one it is at.
NextOf(t) == [pc |-> "process", mode |-> t.mode, at |-> t.at + 1, last |-> t.last]

Become(w, t) == task' = [task EXCEPT ![w] = t]

\* poll_once and stream_session both start from the stored cursor.
GetCursor(w) ==
    /\ task[w].pc = "idle"
    /\ \E m \in {"poll", "stream"} :
         Become(w, [pc |-> "fetch", mode |-> m, at |-> cursor, last |-> 0])
    /\ UNCHANGED <<landed, credit, cursor, deposits, created, matched, aborts, lost>>

\* The end of the page Horizon returns for a cursor.
PageEnd(c) == IF c + PageLimit <= landed THEN c + PageLimit ELSE landed

\* Variant: the page's last token is saved when the page arrives.
FetchSavesCursor(w) ==
    /\ task[w].pc = "fetch" /\ task[w].mode = "poll"
    /\ Become(w, IF task[w].at < landed
                 THEN [pc |-> "process", mode |-> "poll", at |-> task[w].at + 1,
                       last |-> PageEnd(task[w].at)]
                 ELSE Idle)
    /\ cursor' = IF task[w].at < landed THEN PageEnd(task[w].at) ELSE cursor
    /\ UNCHANGED <<landed, credit, deposits, created, matched, aborts, lost>>

\* payments_after: an empty page ends the poll, otherwise its first record is next.
Fetch(w) ==
    /\ task[w].pc = "fetch" /\ task[w].mode = "poll"
    /\ Become(w, IF task[w].at < landed
                 THEN [pc |-> "process", mode |-> "poll", at |-> task[w].at + 1,
                       last |-> PageEnd(task[w].at)]
                 ELSE Idle)
    /\ UNCHANGED <<landed, credit, cursor, deposits, created, matched, aborts, lost>>

\* open_payment_stream: the session now delivers the records after its cursor.
OpenStream(w) ==
    /\ task[w].pc = "fetch" /\ task[w].mode = "stream"
    /\ Become(w, [task[w] EXCEPT !.pc = "listen"])
    /\ UNCHANGED <<landed, credit, cursor, deposits, created, matched, aborts, lost>>

NextRecord(w) ==
    /\ task[w].pc = "listen" /\ task[w].at < landed
    /\ Become(w, NextOf(task[w]))
    /\ UNCHANGED <<landed, credit, cursor, deposits, created, matched, aborts, lost>>

\* An idle session ends: timeout, stream closed by Horizon, or cancelled.
CloseStream(w) ==
    /\ task[w].pc = "listen" /\ task[w].at = landed
    /\ Become(w, Idle)
    /\ UNCHANGED <<landed, credit, cursor, deposits, created, matched, aborts, lost>>

\* Variant: a duplicate is announced too.
ProcessNotifiesDuplicates(w) ==
    LET i == task[w].at IN
    /\ task[w].pc = "process"
    /\ deposits' = IF i \in credit THEN record_deposit(i) ELSE deposits
    /\ Become(w, [task[w] EXCEPT !.pc = IF i \in credit THEN "notify" ELSE "advance"])
    /\ UNCHANGED <<landed, credit, cursor, created, matched, aborts, lost>>

\* process up to record_deposit: only the call that inserted the row goes on to notify.
Process(w) ==
    LET i == task[w].at IN
    /\ task[w].pc = "process"
    /\ deposits' = IF i \in credit THEN record_deposit(i) ELSE deposits
    /\ Become(w, [task[w] EXCEPT
         !.pc = IF i \in credit /\ deposits[i] = 0 THEN "notify" ELSE "advance"])
    /\ UNCHANGED <<landed, credit, cursor, created, matched, aborts, lost>>

\* fire_deposit_webhook: the event is handed to the sender, which reports no error.
FireDepositWebhook(w) ==
    LET i == task[w].at IN
    /\ task[w].pc = "notify"
    /\ created' = [created EXCEPT ![i] = @ + 1]
    /\ Become(w, [task[w] EXCEPT !.pc = "match"])
    /\ UNCHANGED <<landed, credit, cursor, deposits, matched, aborts, lost>>

\* confirm_payment_link: the deposit is matched with a payment link's pending
\* payment, if there is one; it reports no error either.
ConfirmPaymentLink(w) ==
    LET i == task[w].at IN
    /\ task[w].pc = "match"
    /\ matched' = [matched EXCEPT ![i] = @ + 1]
    /\ Become(w, [task[w] EXCEPT !.pc = "advance"])
    /\ UNCHANGED <<landed, credit, cursor, deposits, created, aborts, lost>>

\* The record is done: persist its token, then take the next record of the page
\* or of the stream.
Advanced(t) ==
    IF t.mode = "stream" THEN [t EXCEPT !.pc = "listen"]
    ELSE IF t.at < t.last THEN NextOf(t)
    ELSE Idle

SetCursor(w) ==
    /\ task[w].pc = "advance"
    /\ set_cursor(task[w].at)
    /\ Become(w, Advanced(task[w]))
    /\ UNCHANGED <<landed, credit, deposits, created, matched, aborts, lost>>

(***************************************************************************)
(* Failures.                                                               *)
(***************************************************************************)
\* An error returned with `?' ends the poll or the session; a kill ends it at
\* any await.  Either way the next start reads the cursor again.
Abort(w) ==
    /\ task[w].pc # "idle"
    /\ aborts < MaxAborts
    /\ aborts' = aborts + 1
    /\ Become(w, Idle)
    /\ UNCHANGED <<landed, credit, cursor, deposits, created, matched, lost>>

\* The insert committed, but the call returned an error.
RecordDepositLostReply(w) ==
    LET i == task[w].at IN
    /\ task[w].pc = "process" /\ i \in credit
    /\ lost < MaxLostReplies
    /\ lost' = lost + 1
    /\ deposits' = record_deposit(i)
    /\ Become(w, Idle)
    /\ UNCHANGED <<landed, credit, cursor, created, matched, aborts>>

\* The cursor was written, but the call returned an error.
SetCursorLostReply(w) ==
    /\ task[w].pc = "advance"
    /\ lost < MaxLostReplies
    /\ lost' = lost + 1
    /\ set_cursor(task[w].at)
    /\ Become(w, Idle)
    /\ UNCHANGED <<landed, credit, deposits, created, matched, aborts>>

Step(w) ==
    \/ GetCursor(w)
    \/ Fetch(w)
    \/ OpenStream(w)
    \/ NextRecord(w)
    \/ CloseStream(w)
    \/ Process(w)
    \/ FireDepositWebhook(w)
    \/ ConfirmPaymentLink(w)
    \/ SetCursor(w)

Fault(w) ==
    \/ Abort(w)
    \/ RecordDepositLostReply(w)
    \/ SetCursorLostReply(w)

Next == Land \/ \E w \in Workers : Step(w) \/ Fault(w)

Spec == Init /\ [][Next]_vars

\* tokio runs every task that can run, the supervisor ticks for ever and
\* run_stream reconnects for ever.
FairSpec == Spec /\ \A w \in Workers : WF_vars(Step(w))

-----------------------------------------------------------------------------
(***************************************************************************)
(* Properties.                                                             *)
(***************************************************************************)
TypeOK ==
    /\ landed \in 0..N
    /\ credit \in SUBSET Ops
    /\ cursor \in 0..N
    /\ deposits \in [Ops -> 0..1]
    /\ created \in [Ops -> Nat]
    /\ matched \in [Ops -> Nat]
    /\ task \in [Workers -> Tasks]
    /\ aborts \in 0..MaxAborts
    /\ lost \in 0..MaxLostReplies

\* The durable cursor never stands on or after a deposit that is not recorded,
\* although set_cursor overwrites blindly and a slow worker may move it back:
\* whatever is killed, the next get_cursor resumes without skipping a deposit.
NoSkippedDeposit == \A i \in credit : i <= cursor => deposits[i] = 1

\* deposit.created is dispatched, and the payment-link match run, at most once
\* per operation and only for a recorded deposit, however many workers process
\* the operation at once and however often it is replayed.
NotifiedAtMostOnce ==
    \A i \in Ops : /\ created[i] <= 1 /\ matched[i] <= 1
                   /\ created[i] + matched[i] > 0 => i \in credit /\ deposits[i] = 1

\* Once the errors stop, every deposit visible on Horizon is recorded and the
\* cursor reaches it, although overlapping workers keep moving the cursor back.
EventuallyRecorded ==
    \A i \in Ops : (i <= landed /\ i \in credit) ~> (deposits[i] = 1)

\* Once the operations have all landed, the cursor catches up with them for good.
CursorCatchesUp == (landed = N) ~> [](cursor = N)

\* The pull loop makes up for whatever failed: the deposits are recorded, and the cursor
\* comes to the end and stays there.
CatchesUp == EventuallyRecorded /\ CursorCatchesUp

(***************************************************************************)
(* The inductive invariant behind NoSkippedDeposit and NotifiedAtMostOnce. *)
(***************************************************************************)
\* Every deposit up to operation c is recorded.
Covered(c) == \A i \in credit : i <= c => deposits[i] = 1

\* A worker never stands beyond an unrecorded deposit, so whatever token it
\* writes next covers only recorded ones.
WorkerCovered(w) ==
    /\ task[w].pc \in {"fetch", "listen"} => Covered(task[w].at)
    /\ task[w].pc = "process" => task[w].at \in Ops /\ Covered(task[w].at - 1)
    /\ task[w].pc \in {"notify", "match", "advance"} =>
           task[w].at \in Ops /\ Covered(task[w].at)

WorkersCovered == \A w \in Workers : WorkerCovered(w)

\* The worker whose insert succeeded is the only one on its way to notify the
\* operation, and has not done so yet.
Notifying(w) == task[w].pc \in {"notify", "match"}

OwnsDeposit(w) ==
    Notifying(w) =>
        /\ task[w].at \in credit
        /\ deposits[task[w].at] = 1
        /\ matched[task[w].at] = 0
        /\ task[w].pc = "notify" => created[task[w].at] = 0

NotifierOwnsDeposit ==
    /\ \A w \in Workers : OwnsDeposit(w)
    /\ \A v, w \in Workers :
          Notifying(v) /\ Notifying(w) /\ task[v].at = task[w].at => v = w

IInv ==
    /\ TypeOK
    /\ NoSkippedDeposit
    /\ WorkersCovered
    /\ NotifierOwnsDeposit
    /\ NotifiedAtMostOnce
=============================================================================
