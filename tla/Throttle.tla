------------------------------ MODULE Throttle ------------------------------
(***************************************************************************)
(* What stands before a login: the per-client rate limiter                 *)
(* (crates/api/src/rate_limit.rs, store/src/rate_limit.rs) and the per-    *)
(* account lockout (store/src/users.rs), as auth.rs::login calls them.     *)
(*                                                                         *)
(* Several server processes share the limiter's table; when the database   *)
(* does not answer, a process counts for itself.  One client tries one     *)
(* account; each process serves one of its attempts at a time.  Time is    *)
(* counted in ticks; the constants scale the code's windows down.          *)
(***************************************************************************)
EXTENDS Integers, FiniteSets, FiniteSetsExt

CONSTANTS
    Processes,
    Limit,          \* AUTH_RATE_LIMIT
    LimitWindow,    \* AUTH_RATE_WINDOW, in ticks
    LockAt,         \* failures that lock the account (5)
    LockWindow,     \* window of the failures (15 minutes), in ticks
    MaxShift,       \* longest lock is 2^MaxShift ticks (6)
    MaxTime, MaxTries, MaxRestarts

ASSUME ThrottleAssumption ==
    /\ Limit \in Nat \ {0} /\ LimitWindow \in Nat \ {0}
    /\ LockAt \in Nat \ {0, 1} /\ LockWindow \in Nat \ {0} /\ MaxShift \in Nat
    /\ MaxTime \in Nat /\ MaxTries \in Nat /\ MaxRestarts \in Nat
    /\ "table" \notin Processes

VARIABLES
    now,
    table,      \* the row of rate_limit_buckets
    local,      \* each process's own bucket
    admitted,   \* what each counter let pass in the last LimitWindow ticks; history
    lockout,    \* the row of auth_lockouts
    attempt,    \* the attempt each process serves
    tries,      \* attempts so far
    restarts

throttlevars == <<now, table, local, admitted, lockout, attempt, tries, restarts>>

NoBucket == [hits |-> 0, expires |-> 0]
NoRow == [failed |-> 0, started |-> 0, count |-> 0, until |-> 0, updated |-> 0]

(* A counter that admits attempts: the table, or the memory of a process   *)
(* between two of its restarts.                                            *)
Shared == <<"table", 0>>
Own(p) == <<p, restarts[p]>>

ThrottleInit ==
    /\ now = 1
    /\ table = NoBucket
    /\ local = [p \in Processes |-> NoBucket]
    /\ admitted = {}
    /\ lockout = NoRow
    /\ attempt = [p \in Processes |-> "none"]
    /\ tries = 0
    /\ restarts = [p \in Processes |-> 0]

(***************************************************************************)
(* The limiter.                                                            *)
(***************************************************************************)
(* Variant: a window is over one step early.                               *)
rate_limit_hit_early(b) ==
    IF b = NoBucket \/ b.expires <= now + 1 THEN [hits |-> 1, expires |-> now + LimitWindow]
    ELSE [hits |-> b.hits + 1, expires |-> b.expires]

rate_limit_hit(b) ==
    IF b = NoBucket \/ b.expires <= now THEN [hits |-> 1, expires |-> now + LimitWindow]
    ELSE [hits |-> b.hits + 1, expires |-> b.expires]

(* MemoryRateLimitStore::count                                             *)
count(b) ==
    LET e == IF b = NoBucket \/ now >= b.expires
             THEN [hits |-> 0, expires |-> now + LimitWindow] ELSE b
    IN [hits |-> e.hits + 1, expires |-> e.expires]

Admit(p, c, b) ==
    IF b.hits <= Limit
    THEN /\ admitted' = admitted \cup {<<c, now, b.hits>>}
         /\ attempt' = [attempt EXCEPT ![p] = "admitted"]
    ELSE UNCHANGED <<admitted, attempt>>

check_shared(p) ==
    /\ attempt[p] = "none"
    /\ tries < MaxTries
    /\ tries' = tries + 1
    /\ table' = rate_limit_hit(table)
    /\ Admit(p, Shared, table')
    /\ UNCHANGED <<now, local, lockout, restarts>>

check_fallback(p) ==
    /\ attempt[p] = "none"
    /\ tries < MaxTries
    /\ tries' = tries + 1
    /\ local' = [local EXCEPT ![p] = count(local[p])]
    /\ Admit(p, Own(p), local'[p])
    /\ UNCHANGED <<now, table, lockout, restarts>>

(* The periodic sweep forgets windows that are over.                       *)
prune(p) ==
    /\ (table # NoBucket /\ table.expires < now) \/ (local[p] # NoBucket /\ local[p].expires <= now)
    /\ local' = [local EXCEPT ![p] = IF @.expires > now THEN @ ELSE NoBucket]
    /\ table' = IF table.expires < now THEN NoBucket ELSE table
    /\ UNCHANGED <<now, admitted, lockout, attempt, tries, restarts>>

restart(p) ==
    /\ MapThenSumSet(LAMBDA q : restarts[q], Processes) < MaxRestarts
    /\ restarts' = [restarts EXCEPT ![p] = @ + 1]
    /\ local' = [local EXCEPT ![p] = NoBucket]
    /\ attempt' = [attempt EXCEPT ![p] = "none"]
    /\ UNCHANGED <<now, table, admitted, lockout, tries>>

(***************************************************************************)
(* The lockout.                                                            *)
(***************************************************************************)
auth_locked_until(p) ==
    /\ attempt[p] = "admitted"
    /\ attempt' = [attempt EXCEPT ![p] = IF lockout.until > now THEN "none" ELSE "verify"]
    /\ UNCHANGED <<now, table, local, admitted, lockout, tries, restarts>>

Power(n) == 2 ^ n
Shift(n) == Power(IF n < MaxShift THEN n ELSE MaxShift)
OverWindow == lockout.started < now - LockWindow

(* The test is on the counter as it was, also when the window starts anew. *)
Locks == lockout.failed + 1 >= LockAt

failed_row ==
    [failed  |-> IF OverWindow THEN 1 ELSE lockout.failed + 1,
     started |-> IF OverWindow THEN now ELSE lockout.started,
     count   |-> IF Locks THEN lockout.count + 1 ELSE lockout.count,
     until   |-> IF Locks THEN now + Shift(lockout.count) ELSE lockout.until,
     updated |-> now]

record_auth_failure(p) ==
    /\ attempt[p] = "verify"
    /\ lockout' = IF lockout = NoRow
                  THEN [failed |-> 1, started |-> now, count |-> 0, until |-> 0, updated |-> now]
                  ELSE failed_row
    /\ attempt' = [attempt EXCEPT ![p] = "none"]
    /\ UNCHANGED <<now, table, local, admitted, tries, restarts>>

reset_auth_failures(p) ==
    /\ attempt[p] = "verify"
    /\ lockout' = NoRow
    /\ attempt' = [attempt EXCEPT ![p] = "none"]
    /\ UNCHANGED <<now, table, local, admitted, tries, restarts>>

tick ==
    /\ now < MaxTime
    /\ now' = now + 1
    /\ admitted' = {x \in admitted : x[2] > now' - LimitWindow}
    /\ UNCHANGED <<table, local, lockout, attempt, tries, restarts>>

ThrottleNext ==
    \/ \E p \in Processes : \/ check_shared(p) \/ check_fallback(p) \/ prune(p) \/ restart(p)
                            \/ auth_locked_until(p) \/ record_auth_failure(p)
                            \/ reset_auth_failures(p)
    \/ tick

(***************************************************************************)
(* Properties.                                                             *)
(***************************************************************************)

(* In any stretch of time as long as the limiter's window, a counter lets  *)
(* at most 2 * Limit - 1 attempts pass: those of a fixed window's end and  *)
(* of the next one's start, however processes, sweeps and the database's   *)
(* failures interleave (RateLimiter::check).                               *)
Throttled ==
    \A c \in {x[1] : x \in admitted} :
        Cardinality({x \in admitted : x[1] = c}) <= 2 * Limit - 1

(* When LockAt failures have been counted in a window, the last of them    *)
(* locked the account from then on, and never for longer than the largest  *)
(* backoff (record_auth_failure).                                          *)
FailuresLock ==
    /\ lockout.failed >= LockAt => lockout.until > lockout.updated
    /\ lockout.until <= lockout.updated + Power(MaxShift)

(* Until a successful login, locked_until never moves back: an attempt     *)
(* that was already being verified when the lock was set, or a new window, *)
(* cannot shorten a lock.                                                  *)
LockNeverShortens == lockout' # NoRow => lockout'.until >= lockout.until

(* Password guesses are bounded by the limiter and, once counted as        *)
(* failures, by the lockout, whatever the processes and the database do.   *)
LoginsThrottled == [][Throttled' /\ FailuresLock' /\ LockNeverShortens]_throttlevars

(***************************************************************************)
(* What holds at any time.                                                 *)
(***************************************************************************)
(* The powers of two up to the longest lock are positive and grow.         *)
ASSUME PowersAssumption ==
    \A m, n \in 0 .. MaxShift : m <= n => /\ Power(m) \in Nat /\ Power(n) \in Nat
                                         /\ 1 <= Power(m) /\ Power(m) <= Power(n)

Counters == ({"table"} \cup Processes) \X Nat
Buckets == [hits : Nat, expires : Nat]
LockRows == [failed : Nat, started : Nat, count : Nat, until : Nat, updated : Nat]

(* The attempts a counter let pass lately fall, at s, into two windows: in *)
(* each the hits are distinct, and the first hit of the older is no longer *)
(* recent.                                                                 *)
Windows(c, s) ==
    /\ \A x, y \in admitted : x[1] = c /\ y[1] = c /\ x[3] = y[3] /\ (x[2] < s <=> y[2] < s) => x = y
    /\ \A x \in admitted : x[1] = c /\ x[2] < s => x[3] # 1

(* The window a bucket counts for began with its first hit; without a      *)
(* bucket all that is recent is of an older one.                           *)
Began(b) == IF b = NoBucket THEN now ELSE b.expires - LimitWindow

BucketOK(c, b) ==
    /\ b \in Buckets /\ Began(b) \in 0 .. now /\ Windows(c, Began(b))
    /\ b = NoBucket => \A x \in admitted : x[1] = c => x[2] < now
    /\ b # NoBucket =>
          /\ b.hits >= 1
          /\ \A x \in admitted : x[1] = c /\ x[2] >= Began(b) =>
                /\ x[3] <= b.hits /\ x[2] < b.expires
                /\ x[3] = 1 => x[2] = Began(b)

(* A lock is never longer than the next one would be.                      *)
LockoutOK ==
    /\ lockout \in LockRows /\ FailuresLock
    /\ lockout.updated <= now /\ lockout.until <= now + Shift(lockout.count)

ThrottleInv ==
    /\ now \in Nat /\ restarts \in [Processes -> Nat] /\ local \in [Processes -> Buckets]
    /\ admitted \subseteq Counters \X Nat \X (1 .. Limit)
    /\ \A x \in admitted : x[2] <= now /\ x[2] > now - LimitWindow
    /\ \A c \in {x[1] : x \in admitted} : \E s \in 0 .. now : Windows(c, s)
    /\ \A x \in admitted : x[1][1] # "table" => x[1][2] <= restarts[x[1][1]]
    /\ BucketOK(Shared, table) /\ \A p \in Processes : BucketOK(Own(p), local[p])
    /\ LockoutOK

ThrottleSpec == ThrottleInit /\ [][ThrottleNext]_throttlevars
=============================================================================
