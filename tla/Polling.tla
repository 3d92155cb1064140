------------------------------- MODULE Polling -------------------------------
(***************************************************************************)
(* Which wallets one pass of the ingest supervisor polls, and how much of  *)
(* each (Supervisor::tick, spawn_page and settle in ingest/src/lib.rs,     *)
(* wallets_due_for_poll_page and mark_polled in store/src/wallets.rs).     *)
(* What is done with a record is in Ingest, that one leader ticks is in    *)
(* IngestLeader, and the expiry a tick starts with is in PaymentLinks.     *)
(***************************************************************************)
EXTENDS Integers, FiniteSets, FiniteSetsExt

CONSTANTS Polled,           \* wallet ids, naturals from 1
          FanoutPage,       \* FANOUT_PAGE_SIZE
          Permits,          \* MAX_CONCURRENT_POLLS
          PageRecords,      \* page_limit, clamped
          MaxPages,         \* MAX_PAGES_PER_TICK
          MaxRecords,       \* MAX_RECORDS_PER_WALLET_PER_TICK
          ActiveAfter, IdleEvery, DormantAfter, DormantEvery,
          PollRows,         \* the cursor rows wallets may have at first
          PollStart,        \* the time at first
          MaxBacklog, MaxPasses, MaxEvents, MaxPollFaults       \* bounds

ASSUME PollingAssumption ==
    /\ Polled \subseteq Nat \ {0} /\ IsFiniteSet(Polled)
    /\ FanoutPage \in Nat \ {0} /\ PageRecords \in Nat \ {0} /\ MaxPages \in Nat \ {0}
    /\ MaxRecords \in Nat /\ MaxBacklog \in Nat /\ PollStart \in Nat
    /\ PollRows \subseteq [polled : Nat, activity : Nat]

VARIABLES now_,             \* the database's clock
          cursor,           \* wallet -> last_polled_at and updated_at (0: null, epoch)
          paused, live,     \* wallets paused, and those with an open stream
          backlog,          \* wallet -> records at Horizon after its cursor
          turn,             \* wallet -> its task in the JoinSet
          pass,             \* the variables of tick
          spent             \* passes, events and faults so far

pollvars == <<now_, cursor, paused, live, backlog, turn, pass, spent>>

(* pc: "none", "queued" (for a permit), "permit", "polled", "done".        *)
NoTurn == [pc |-> "none", pages |-> 0, records |-> 0, limit |-> 0, n |-> 0, ok |-> TRUE]

(* begun counts a wallet's turns, drawn its records, in this pass; steady  *)
(* are the wallets due, and without a stream, ever since the pass began.   *)
PassAt(at, steady) == [at |-> at, after |-> 0, error |-> FALSE, steady |-> steady,
                     begun |-> [w \in Polled |-> 0], drawn |-> [w \in Polled |-> 0]]

PollingInit ==
    /\ now_ = PollStart
    /\ cursor \in [Polled -> PollRows]
    /\ paused = {} /\ live = {}
    /\ backlog \in [Polled -> {0, MaxBacklog}]
    /\ turn = [w \in Polled |-> NoTurn]
    /\ pass = PassAt("rest", {})
    /\ spent = [passes |-> 0, events |-> 0, faults |-> 0]

(* The backoff tiers.                                                      *)
Wait(row, now) == IF row.activity > now - ActiveAfter THEN 0
                  ELSE IF row.activity <= now - DormantAfter THEN DormantEvery ELSE IdleEvery

IsDue(row, now) == row.polled = 0 \/ row.polled < now - Wait(row, now)

Due == {w \in Polled \ paused : IsDue(cursor[w], now_)}
Tasks == {w \in Polled : turn[w].pc # "none"}
MayFail == spent.faults < MaxPollFaults
Count(what) == spent' = [spent EXCEPT ![what] = @ + 1]

(* ORDER BY id LIMIT                                                       *)
FirstPage(rest) == {w \in rest : Cardinality({v \in rest : v < w}) < FanoutPage}

wallets_due_for_poll_page_from(after) == FirstPage({w \in Due : w >= after})

(* One keyset page of the due wallets, in the order of their ids.          *)
wallets_due_for_poll_page(after) == FirstPage({w \in Due : w > after})

(* A task for one page, never past the record budget of the tick.          *)
spawn_page(t) == [t EXCEPT !.pc = "queued", !.limit = Min({PageRecords, MaxRecords - t.records})]

-----------------------------------------------------------------------------
tick_begins ==
    /\ pass.at = "rest" /\ spent.passes < MaxPasses
    /\ pass' = PassAt("page", Due \ live)
    /\ Count("passes")
    /\ UNCHANGED <<now_, cursor, paused, live, backlog, turn>>

(* The loop's body: load a page, once no more than one page of tasks is    *)
(* waiting, and begin a turn for each of its wallets without a stream.     *)
load_page ==
    /\ pass.at = "page" /\ Cardinality(Tasks) <= FanoutPage
    /\ LET page == wallets_due_for_poll_page(pass.after)
           begin == page \ live
       IN /\ turn' = [w \in Polled |-> IF w \in begin THEN spawn_page(NoTurn) ELSE turn[w]]
          /\ pass' = [pass EXCEPT !.at = IF Cardinality(page) < FanoutPage THEN "drain" ELSE "page",
                                  !.after = IF page = {} THEN 0 ELSE Max(page),
                                  !.begun = [w \in Polled |-> @[w] + (IF w \in begin THEN 1 ELSE 0)]]
    /\ UNCHANGED <<now_, cursor, paused, live, backlog, spent>>

(* The query fails: no more pages, but the tasks are still waited for.     *)
load_page_fails ==
    /\ pass.at = "page" /\ Cardinality(Tasks) <= FanoutPage /\ MayFail
    /\ pass' = [pass EXCEPT !.at = "drain", !.error = TRUE]
    /\ Count("faults")
    /\ UNCHANGED <<now_, cursor, paused, live, backlog, turn>>

acquire_owned(w) ==
    /\ turn[w].pc = "queued"
    /\ Cardinality({v \in Polled : turn[v].pc \in {"permit", "polled"}}) < Permits
    /\ turn' = [turn EXCEPT ![w].pc = "permit"]
    /\ UNCHANGED <<now_, cursor, paused, live, backlog, pass, spent>>

(* The cursor moves over n records, each an activity (set_cursor).         *)
Draw(w, n) ==
    /\ cursor' = IF n = 0 THEN cursor ELSE [cursor EXCEPT ![w].activity = now_]
    /\ backlog' = [backlog EXCEPT ![w] = @ - n]

(* poll_once: a page is processed, or it fails after some of its records.  *)
poll_once(w) ==
    LET page == Min({turn[w].limit, backlog[w]})
    IN /\ turn[w].pc = "permit"
       /\ \E n \in 0 .. page, ok \in BOOLEAN :
            /\ IF ok THEN n = page /\ UNCHANGED spent ELSE MayFail /\ Count("faults")
            /\ Draw(w, n)
            /\ turn' = [turn EXCEPT ![w].pc = "polled", ![w].n = n, ![w].ok = ok]
            /\ pass' = [pass EXCEPT !.drawn[w] = @ + n]
       /\ UNCHANGED <<now_, paused, live>>

(* mark_polled, whose error is ignored; the permit is given back.          *)
mark_polled(w) ==
    /\ turn[w].pc = "polled"
    /\ \/ cursor' = [cursor EXCEPT ![w].polled = now_] /\ UNCHANGED spent
       \/ MayFail /\ Count("faults") /\ UNCHANGED cursor
    /\ turn' = [turn EXCEPT ![w].pc = "done", ![w].pages = @ + 1,
                            ![w].records = @ + (IF turn[w].ok THEN turn[w].n ELSE 0)]
    /\ UNCHANGED <<now_, paused, live, backlog, pass>>

(* The task panics: it is joined with nothing recorded.                    *)
poll_panics(w) ==
    /\ turn[w].pc = "permit" /\ MayFail
    /\ turn' = [turn EXCEPT ![w].pc = "done", ![w].ok = FALSE]
    /\ Count("faults")
    /\ UNCHANGED <<now_, cursor, paused, live, backlog, pass>>

page_was_full(t) == t.limit > 0 /\ t.n >= t.limit

(* A finished task is joined; a wallet with more waiting, and budget, is   *)
(* queued again.                                                           *)
settle(w) ==
    LET t == turn[w]
        again == t.ok /\ page_was_full(t) /\ t.pages < MaxPages /\ t.records < MaxRecords
    IN /\ t.pc = "done"
       /\ pass.at = "page" => Cardinality(Tasks) > FanoutPage
       /\ turn' = [turn EXCEPT ![w] = IF again THEN spawn_page(t) ELSE NoTurn]
       /\ UNCHANGED <<now_, cursor, paused, live, backlog, pass, spent>>

tick_ends ==
    /\ pass.at = "drain" /\ Tasks = {}
    /\ pass' = [pass EXCEPT !.at = "rest"]
    /\ UNCHANGED <<now_, cursor, paused, live, backlog, turn, spent>>

(* Meanwhile: time passes, wallets are paused and resumed, streams open,   *)
(* deliver and close, and payments arrive.                                 *)
Steady == pass' = [pass EXCEPT !.steady =
                     {w \in @ : pass.begun[w] > 0 \/
                                (w \notin paused' \cup live' /\ IsDue(cursor'[w], now_'))}]

Pause(w) == paused' = (paused \ {w}) \cup ({w} \ paused) /\ UNCHANGED <<now_, cursor, live, backlog>>
Stream(w) == live' = (live \ {w}) \cup ({w} \ live) /\ UNCHANGED <<now_, cursor, paused, backlog>>
Second == now_' = now_ + 1 /\ UNCHANGED <<cursor, paused, live, backlog>>
Delivered(w) == w \in live /\ backlog[w] > 0 /\ Draw(w, 1) /\ UNCHANGED <<now_, paused, live>>
Arrive(w) == /\ backlog[w] < MaxBacklog /\ backlog' = [backlog EXCEPT ![w] = @ + 1]
             /\ UNCHANGED <<now_, cursor, paused, live>>

Meanwhile ==
    /\ pass.at # "rest" /\ spent.events < MaxEvents
    /\ \/ Second
       \/ \E w \in Polled : Pause(w) \/ Stream(w) \/ Delivered(w) \/ Arrive(w)
    /\ Steady /\ Count("events") /\ UNCHANGED turn

PollingNext ==
    \/ tick_begins \/ load_page \/ load_page_fails \/ tick_ends \/ Meanwhile
    \/ \E w \in Polled : acquire_owned(w) \/ poll_once(w) \/ mark_polled(w) \/ poll_panics(w)
                       \/ settle(w)

-----------------------------------------------------------------------------
(* A pass whose queries succeeded began a turn for every wallet that was   *)
(* due, and had no stream, from its start until its turn came, and for no  *)
(* wallet twice, although polls move wallets out of the due set while it   *)
(* is being paged through (Supervisor::tick).                              *)
PassServesOnce ==
    /\ \A w \in Polled : pass.begun[w] <= 1
    /\ pass.at = "rest" /\ ~pass.error => \A w \in pass.steady : pass.begun[w] = 1

(* No wallet draws more than its budget of records in one pass, whatever   *)
(* it has waiting, how its pages divide the budget and which of them fail  *)
(* (spawn_page and settle).                                                *)
BudgetHeld == \A w \in Polled : pass.drawn[w] <= MaxRecords /\ turn[w].pages <= MaxPages

(* At most two pages of tasks are waiting, however many wallets are due    *)
(* and although settled wallets are queued again (the backpressure loop).  *)
QueueBounded == Cardinality(Tasks) <= 2 * FanoutPage

(* A pass over the due wallets is complete, fair and bounded at once       *)
(* (Supervisor::tick with spawn_page and settle).                          *)
PassHolds == PassServesOnce /\ BudgetHeld /\ QueueBounded

(***************************************************************************)
(* What holds at any time.                                                 *)
(***************************************************************************)
PollTurns == [pc : {"none", "queued", "permit", "polled", "done"}, pages : Nat, records : Nat, limit : Nat,
              n : Nat, ok : BOOLEAN]
PollPasses == [at : {"rest", "page", "drain"}, after : Nat, error : BOOLEAN, steady : SUBSET Polled,
               begun : [Polled -> Nat], drawn : [Polled -> Nat]]

PollTypeOK ==
    /\ now_ \in Nat /\ cursor \in [Polled -> [polled : Nat, activity : Nat]]
    /\ backlog \in [Polled -> Nat] /\ turn \in [Polled -> PollTurns] /\ pass \in PollPasses

(* A task's page fits what the budget leaves, and what was drawn is what   *)
(* the task has recorded, up to the page it has just processed.            *)
TurnOK(t, d, begun, at) ==
    /\ d <= MaxRecords /\ t.pages <= MaxPages /\ begun <= 1
    /\ begun = 0 => d = 0
    /\ t.pc # "none" => begun = 1 /\ at # "rest"
    /\ t.pc \in {"queued", "permit", "polled"} => t.pages < MaxPages /\ t.records + t.limit <= MaxRecords
    /\ t.pc \in {"queued", "permit"} => d = t.records
    /\ t.pc = "polled" => d = t.records + t.n /\ t.n <= t.limit
    /\ t.pc = "done" /\ t.ok => d = t.records

(* The turns begun are of ids up to the last page's, and who has been due  *)
(* all along and has had no turn is still to come.                         *)
PageOK(w) ==
    /\ pass.begun[w] > 0 => w <= pass.after
    /\ w \in pass.steady /\ pass.begun[w] = 0 => w > pass.after /\ w \in Due \ live

PollingInv ==
    /\ PollTypeOK /\ QueueBounded
    /\ \A w \in Polled : TurnOK(turn[w], pass.drawn[w], pass.begun[w], pass.at)
    /\ pass.at = "page" => \A w \in Polled : PageOK(w)
    /\ pass.at # "page" /\ ~pass.error => \A w \in pass.steady : pass.begun[w] = 1

PollingSpec == PollingInit /\ [][PollingNext]_pollvars
=============================================================================
