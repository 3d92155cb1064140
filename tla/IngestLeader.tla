---------------------------- MODULE IngestLeader ----------------------------
(***************************************************************************)
(* Who ingests one wallet, and when: the supervisors of several replicas,  *)
(* the advisory lock that elects one of them, the SSE streams a leadership *)
(* term owns and the polling tick that is their fallback                   *)
(* (Supervisor in ingest/src/lib.rs, ingest/src/stream.rs,                 *)
(* IngestLeaderLock in store/src/lib.rs).  What a poll or an open stream   *)
(* does with the wallet's operations is module Ingest.                     *)
(*                                                                         *)
(* Faults, MaxFaults of them in a behaviour: the lock's database session   *)
(* dies while its process goes on, a query fails, a process is shut down   *)
(* or killed and starts again, a stream's task panics.                     *)
(*                                                                         *)
(* A replica has at most one stream of the wallet that has opted out and   *)
(* not ended yet: in the model, sync waits for it before leaving another.  *)
(*                                                                         *)
(* The wallet is an active one, which is due at every tick; an idle one is *)
(* polled at longer intervals by the same steps.                           *)
(***************************************************************************)
EXTENDS Integers

CONSTANTS
    Replicas,
    MaxPages,   \* MAX_PAGES_PER_TICK
    MaxFaults,  \* how many faults a behaviour may contain
    Nobody

ASSUME LeaderAssumption ==
    Nobody \notin Replicas /\ MaxPages \in Nat \ {0} /\ MaxFaults \in Nat

VARIABLES
    wanted,     \* ingest_streaming, and neither paused nor archived
    paused,     \* ingest_paused
    holder,     \* the replica whose session holds the advisory lock
    pc,         \* of each replica's supervisor
    shut,       \* its shutdown token is cancelled
    live,       \* the wallet is in its LiveStreams
    own,        \* the stream task in the term's StreamSet, "none" without an entry
    left,       \* a task that was cancelled when the wallet opted out, and not awaited
    pages,      \* pages polled for the wallet in this tick
    faults,     \* faults so far
    panicked    \* whether one of them was a panic

wallet == <<wanted, paused>>
leadervars == <<wallet, holder, pc, shut, live, own, left, pages, faults, panicked>>

LeaderInit ==
    /\ wanted \in BOOLEAN
    /\ paused = FALSE
    /\ holder = Nobody
    /\ pc = [r \in Replicas |-> "standby"]
    /\ shut = [r \in Replicas |-> FALSE]
    /\ live = [r \in Replicas |-> FALSE]
    /\ own = [r \in Replicas |-> "none"]
    /\ left = [r \in Replicas |-> "none"]
    /\ pages = [r \in Replicas |-> 0]
    /\ faults = 0
    /\ panicked = FALSE

Goto(r, p) == pc' = [pc EXCEPT ![r] = p]
OneFault == faults < MaxFaults /\ faults' = faults + 1

(***************************************************************************)
(* The wallet's row.                                                       *)
(***************************************************************************)
\* set_ingest_streaming, set_ingest_paused and archiving.
SetFlags ==
    /\ wanted' \in BOOLEAN /\ paused' \in BOOLEAN /\ (paused' => ~wanted')
    /\ UNCHANGED <<holder, pc, shut, live, own, left, pages, faults, panicked>>

(***************************************************************************)
(* The supervisor: run_until_cancelled and lead.                           *)
(***************************************************************************)
wait_for_leadership(r) ==
    /\ pc[r] = "standby"
    /\ \/ shut[r] /\ Goto(r, "down") /\ UNCHANGED holder
       \/ ~shut[r] /\ holder = Nobody /\ holder' = r /\ Goto(r, "check")
    /\ UNCHANGED <<wallet, shut, live, own, left, pages, faults, panicked>>

\* The interval is over: the loop's condition, and still_held.
still_held(r) ==
    /\ pc[r] = "check"
    /\ Goto(r, IF ~shut[r] /\ holder = r THEN "sync" ELSE "stop")
    /\ UNCHANGED <<wallet, holder, shut, live, own, left, pages, faults, panicked>>

\* StreamSet::sync: the entry goes if the wallet has opted out or its task has finished,
\* the task being cancelled but not awaited, and a task is started if it is wanted.
Dropped(r) == own[r] = "finished" \/ (own[r] # "none" /\ ~wanted)
Running(x) == x \notin {"none", "finished"}

sync(r) ==
    /\ Dropped(r) /\ Running(own[r]) => left[r] = "none"
    /\ left' = [left EXCEPT ![r] = IF Dropped(r) /\ Running(own[r]) THEN own[r] ELSE @]
    /\ own' = [own EXCEPT ![r] = IF ~Dropped(r) /\ @ # "none" THEN @
                                 ELSE IF wanted THEN "start" ELSE "none"]

\* sync_streams: nothing changes if the streaming wallets cannot be loaded.
sync_streams(r) ==
    /\ pc[r] = "sync"
    /\ \/ OneFault /\ UNCHANGED <<own, left>>
       \/ sync(r) /\ UNCHANGED faults
    /\ Goto(r, "tick")
    /\ UNCHANGED <<wallet, holder, shut, live, pages, panicked>>

\* Variant: a wallet that is to be streamed is never polled.
tick_trusts_stream(r) ==
    /\ pc[r] = "tick"
    /\ Goto(r, IF paused \/ wanted THEN "check" ELSE "poll")
    /\ UNCHANGED <<wallet, holder, shut, live, own, left, pages, faults, panicked>>

\* tick: a wallet that is not paused and not live is polled; none is if the due wallets
\* cannot be loaded.
tick(r) ==
    /\ pc[r] = "tick"
    /\ \/ /\ Goto(r, IF paused \/ live[r] THEN "check" ELSE "poll")
          /\ UNCHANGED faults
       \/ /\ OneFault
          /\ Goto(r, "check")
    /\ UNCHANGED <<wallet, holder, shut, live, own, left, pages, panicked>>

\* spawn_page and settle: a full page within the budget queues another.
settle(r) ==
    /\ pc[r] = "poll"
    /\ \/ pages[r] + 1 < MaxPages /\ pages' = [pages EXCEPT ![r] = @ + 1] /\ UNCHANGED pc
       \/ pages' = [pages EXCEPT ![r] = 0] /\ Goto(r, "check")
    /\ UNCHANGED <<wallet, holder, shut, live, own, left, faults, panicked>>

\* StreamSet::stop cancels every stream of the term, then awaits the one it still has.
stop(r) ==
    /\ pc[r] = "stop"
    /\ Goto(r, "join")
    /\ UNCHANGED <<wallet, holder, shut, live, own, left, pages, faults, panicked>>

\* The stream has ended; its mark is cleared and the lock released.
release(r) ==
    /\ pc[r] = "join"
    /\ ~Running(own[r])
    /\ live' = [live EXCEPT ![r] = own[r] = "none" /\ @]
    /\ own' = [own EXCEPT ![r] = "none"]
    /\ holder' = IF holder = r THEN Nobody ELSE holder
    /\ Goto(r, "standby")
    /\ UNCHANGED <<wallet, shut, left, pages, faults, panicked>>

Supervise(r) ==
    \/ wait_for_leadership(r)
    \/ still_held(r)
    \/ sync_streams(r)
    \/ tick(r)
    \/ settle(r)
    \/ stop(r)
    \/ release(r)

(***************************************************************************)
(* A stream: run_stream and stream_session.                                *)
(***************************************************************************)
\* The stream the term has is cancelled by the end of the term and by the shutdown, one
\* that was left when it was left.
Cancelled(r, k) == k = "left" \/ shut[r] \/ pc[r] = "join"

Task(r, k) == IF k = "own" THEN own[r] ELSE left[r]

Turns(r, k, x) ==
    IF k = "own" THEN own' = [own EXCEPT ![r] = x] /\ UNCHANGED left
    ELSE left' = [left EXCEPT ![r] = IF x = "finished" THEN "none" ELSE x] /\ UNCHANGED own

Clear(r) == live' = [live EXCEPT ![r] = FALSE]

\* The backoff is over: another session, or the end of a cancelled task.
run_stream(r, k) ==
    /\ Task(r, k) = "start"
    /\ \/ ~Cancelled(r, k) /\ Turns(r, k, "connect") /\ UNCHANGED live
       \/ Cancelled(r, k) /\ Turns(r, k, "finished") /\ Clear(r)
    /\ UNCHANGED <<wallet, holder, pc, shut, pages, faults, panicked>>

\* The session opens and marks the wallet, or fails to.  It does not look at its token
\* meanwhile.
open_payment_stream(r, k) ==
    /\ Task(r, k) = "connect"
    /\ \/ Turns(r, k, "open") /\ live' = [live EXCEPT ![r] = TRUE]
       \/ Turns(r, k, "start") /\ Clear(r)
    /\ UNCHANGED <<wallet, holder, pc, shut, pages, faults, panicked>>

\* Variant: the mark stays until the task ends.
end_session_marked(r, k) ==
    /\ Task(r, k) = "open"
    /\ Turns(r, k, "start")
    /\ UNCHANGED <<wallet, holder, pc, shut, live, pages, faults, panicked>>

\* The session ends (idle, closed, failed or cancelled) and the mark goes.
end_session(r, k) ==
    /\ Task(r, k) = "open"
    /\ Turns(r, k, "start")
    /\ Clear(r)
    /\ UNCHANGED <<wallet, holder, pc, shut, pages, faults, panicked>>

Streaming(r, k) ==
    \/ run_stream(r, k)
    \/ open_payment_stream(r, k)
    \/ end_session(r, k)

(***************************************************************************)
(* Faults.                                                                 *)
(***************************************************************************)
\* The lock's connection ends; Postgres frees the lock.
LoseSession ==
    /\ holder # Nobody /\ OneFault
    /\ holder' = Nobody
    /\ UNCHANGED <<wallet, pc, shut, live, own, left, pages, panicked>>

\* The server's shutdown token is cancelled, and with it its children.
Shutdown(r) ==
    /\ ~shut[r] /\ OneFault
    /\ shut' = [shut EXCEPT ![r] = TRUE]
    /\ UNCHANGED <<wallet, holder, pc, live, own, left, pages, panicked>>

\* A new process takes the replica's place.
Fresh(r) ==
    /\ Goto(r, "standby")
    /\ holder' = IF holder = r THEN Nobody ELSE holder
    /\ shut' = [shut EXCEPT ![r] = FALSE]
    /\ Clear(r)
    /\ own' = [own EXCEPT ![r] = "none"]
    /\ left' = [left EXCEPT ![r] = "none"]
    /\ pages' = [pages EXCEPT ![r] = 0]
    /\ UNCHANGED <<wallet, panicked>>

Restart(r) == pc[r] = "down" /\ Fresh(r) /\ UNCHANGED faults
Kill(r) == pc[r] # "down" /\ Fresh(r) /\ OneFault

\* A stream's task panics while it processes a record.
Panic(r, k) ==
    /\ Task(r, k) = "open" /\ OneFault
    /\ Turns(r, k, "finished")
    /\ panicked' = TRUE
    /\ UNCHANGED <<wallet, holder, pc, shut, live, pages>>

Kinds == {"own", "left"}

LeaderNext ==
    \/ SetFlags \/ LoseSession
    \/ \E r \in Replicas :
          \/ Supervise(r) \/ Shutdown(r) \/ Restart(r) \/ Kill(r)
          \/ \E k \in Kinds : Streaming(r, k) \/ Panic(r, k)

LeaderSpec == LeaderInit /\ [][LeaderNext]_leadervars

\* A session that has not been told to end may last for ever.
Moves(r, k) ==
    /\ Task(r, k) = "open" => Cancelled(r, k)
    /\ Streaming(r, k)

\* tokio runs every task that can run, and a process that went down is started again.
LeaderFairSpec ==
    /\ LeaderSpec
    /\ \A r \in Replicas : WF_leadervars(Supervise(r)) /\ WF_leadervars(Restart(r))
    /\ \A r \in Replicas : \A k \in Kinds : WF_leadervars(Moves(r, k))

-----------------------------------------------------------------------------
(***************************************************************************)
(* Properties.                                                             *)
(***************************************************************************)
Term == {"check", "sync", "tick", "poll", "stop", "join"}

LeaderTypeOK ==
    /\ wanted \in BOOLEAN /\ paused \in BOOLEAN
    /\ holder \in Replicas \cup {Nobody}
    /\ pc \in [Replicas -> Term \cup {"standby", "down"}]
    /\ shut \in [Replicas -> BOOLEAN]
    /\ live \in [Replicas -> BOOLEAN]
    /\ own \in [Replicas -> {"none", "start", "connect", "open", "finished"}]
    /\ left \in [Replicas -> {"none", "start", "connect", "open"}]
    /\ pages \in [Replicas -> 0..MaxPages - 1]
    /\ faults \in 0..MaxFaults
    /\ panicked \in BOOLEAN

\* A term takes its stream along: one that no longer leads, or is a new process, has at
\* most a stream that the wallet had opted out of, however the flags, the lock, the
\* shutdown and the stream's own end interleave.
TermOwnsStream == \A r \in Replicas : pc[r] \notin Term => own[r] = "none"

\* The wallet is marked as streamed in a process that has no open session for it.
Stale(r) == live[r] /\ own[r] # "open" /\ left[r] # "open"

\* The tick passes over a wallet only while a session of the same process is open,
\* although an old and a new stream set and clear one mark in any order; only a panic
\* leaves a mark behind.
MarkHasStream == \A r \in Replicas : Stale(r) => panicked

\* A leader that has lost its lock, which it may find out after a whole tick, comes to
\* the end of its term: no stream it waits for keeps it there.
StaleLeaderStepsDown ==
    \A r \in Replicas : (pc[r] \in Term /\ holder # r) ~> (pc[r] \notin Term)

\* Somebody reads the wallet's operations.
Reading == \E r \in Replicas : pc[r] = "poll" \/ "open" \in {own[r], left[r]}

\* A wallet that is no longer paused is read again and again, by a stream or by the
\* fallback, whatever dies, restarts or fails to connect; unless a panic's mark stays.
WalletServed == <>[](~paused /\ \A r \in Replicas : ~Stale(r)) => []<>Reading

\* The lease and the streams it starts keep nobody waiting: neither a former leader, nor
\* the wallet.
LeaderMovesOn == StaleLeaderStepsDown /\ WalletServed
=============================================================================
