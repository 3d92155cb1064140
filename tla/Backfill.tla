------------------------------ MODULE Backfill ------------------------------
(***************************************************************************)
(* bin/backfill-operation-index: the tool that is to give the deposits     *)
(* recorded with operation_index 0 the index their Horizon id encodes, in  *)
(* batches, while the server goes on recording deposits.                   *)
(*                                                                         *)
(* deposits is the transactions table in the order the rows became         *)
(* visible, which is not that of created_at: that is when the transaction  *)
(* began, and two rows may have the same.  A row is wrong when its index   *)
(* is not the one that its horizon_op_id encodes (the decoding is          *)
(* operation_index_from_toid, in Ingest).                                  *)
(*                                                                         *)
(* The UPDATE of a batch sets updated_at, a column that transactions does  *)
(* not have: outside a dry run every batch that has something to update    *)
(* ends in an error, and no row is ever changed.                           *)
(***************************************************************************)
EXTENDS Naturals, Sequences, FiniteSets, FiniteSetsExt, SequencesExt

CONSTANTS
    MaxCreated,     \* created_at is 1 .. MaxCreated
    MaxDeposits,    \* rows of the table
    Modes,          \* --batch-size, --limit (0 for none) and --dry-run
    Jobs            \* invocations of the tool

ASSUME BackfillAssumption ==
    /\ {MaxCreated, MaxDeposits} \subseteq Nat
    /\ Modes \subseteq [batch : Nat \ {0}, limit : Nat, dry : BOOLEAN]

VARIABLES
    deposits,
    job             \* what each invocation is at; first is a history field

backfillvars == <<deposits, job>>

NoJob == [pc |-> "idle", batch |-> 0, limit |-> 0, dry |-> FALSE, offset |-> 0, examined |-> 0,
          errors |-> 0, first |-> 0]

Deposits == [created : 1 .. MaxCreated, wrong : BOOLEAN]

(* The table before the tool: rows of the old worker.                      *)
BackfillInit ==
    /\ deposits \in SeqOf(Deposits, MaxDeposits - 1)
    /\ job = [j \in Jobs |-> NoJob]

(* The worker records a deposit with the index it decoded.  It may have    *)
(* begun before rows that are visible already (Store::record_deposit).     *)
record_deposit(created) ==
    /\ Len(deposits) < MaxDeposits
    /\ deposits' = Append(deposits, [created |-> created, wrong |-> FALSE])
    /\ UNCHANGED job

(***************************************************************************)
(* The tool.                                                               *)
(***************************************************************************)
Set_job(j, r) == job' = [job EXCEPT ![j] = r]

StartJob(j, mode) ==
    /\ job[j].pc = "idle"
    /\ Set_job(j, [NoJob EXCEPT !.pc = "batch", !.batch = mode.batch, !.limit = mode.limit,
                                !.dry = mode.dry, !.first = Len(deposits)])
    /\ UNCHANGED deposits

current_batch_size(j) ==
    IF job[j].limit > 0 THEN Min({job[j].batch, job[j].limit - job[j].offset}) ELSE job[j].batch

(* The rows a page may have.  The order is by created_at alone: rows that  *)
(* tie come in any order, another one for every page.                      *)
Sorted(S, T) == \A i \in S, k \in T : deposits[i].created <= deposits[k].created

pages(offset, limit) ==
    LET rows == DOMAIN deposits
        size == Max({0, Min({limit, Len(deposits) - offset})})
    IN IF size = 0 THEN {{}}
       ELSE {p \in kSubset(size, rows) : \E before \in kSubset(offset, rows \ p) :
               Sorted(before, rows \ before) /\ Sorted(p, rows \ (before \cup p))}

(* A turn of the loop up to the batch's update.  Variant: a page with      *)
(* nothing to update is taken for the last.                                *)
Turned(j, examined, candidates) ==
    IF examined = 0 THEN [job[j] EXCEPT !.pc = "done"]
    ELSE IF candidates = {}
    THEN [job[j] EXCEPT !.offset = @ + examined,
                        !.pc = IF examined < current_batch_size(j) THEN "done" ELSE "batch"]
    ELSE [job[j] EXCEPT !.pc = "update", !.examined = examined]

find_candidates_stops(j) ==
    /\ job[j].pc = "batch" /\ current_batch_size(j) > 0
    /\ \E p \in pages(job[j].offset, current_batch_size(j)) :
         LET candidates == {i \in p : deposits[i].wrong}
         IN Set_job(j, Turned(j, IF candidates = {} THEN 0 ELSE Cardinality(p), candidates))
    /\ UNCHANGED deposits

find_candidates_batch(j) ==
    /\ job[j].pc = "batch" /\ current_batch_size(j) > 0
    /\ \E p \in pages(job[j].offset, current_batch_size(j)) :
         Set_job(j, Turned(j, Cardinality(p), {i \in p : deposits[i].wrong}))
    /\ UNCHANGED deposits

(* The limit is reached at the start of a turn.                            *)
reach_limit(j) ==
    /\ job[j].pc = "batch" /\ current_batch_size(j) = 0
    /\ Set_job(j, [job[j] EXCEPT !.pc = "done"])
    /\ UNCHANGED deposits

(* The rest of the turn: an error is counted, and the next batch taken all *)
(* the same.                                                               *)
Advanced(j, failed) ==
    LET offset == job[j].offset + job[j].examined
    IN [job[j] EXCEPT !.offset = offset, !.examined = 0, !.errors = IF failed THEN @ + 1 ELSE @,
                      !.pc = IF job[j].limit > 0 /\ offset >= job[j].limit THEN "done" ELSE "batch"]

(* The first UPDATE fails, and the transaction with it; a dry run has none.*)
update_batch(j) ==
    /\ job[j].pc = "update"
    /\ Set_job(j, Advanced(j, ~ job[j].dry))
    /\ UNCHANGED deposits

(* A query fails, which ends the tool, or the operator interrupts it.      *)
Stop(j) ==
    /\ job[j].pc \in {"batch", "update"}
    /\ Set_job(j, [NoJob EXCEPT !.pc = "stopped"])
    /\ UNCHANGED deposits

BackfillNext ==
    \/ \E created \in 1 .. MaxCreated : record_deposit(created)
    \/ \E j \in Jobs :
         \/ \E mode \in Modes : StartJob(j, mode)
         \/ find_candidates_batch(j) \/ reach_limit(j) \/ update_batch(j) \/ Stop(j)

-----------------------------------------------------------------------------
Ties(i) == \E k \in DOMAIN deposits \ {i} : deposits[k].created = deposits[i].created

(* "Backfill completed successfully" is true of a row that was there when  *)
(* the invocation began: it has the right index, though the tool pages by  *)
(* OFFSET through a table where rows appear before its place.  A row whose *)
(* created_at is also another's is excepted: it may move from the page to  *)
(* come to the page that was read, and is passed over.                     *)
BackfillComplete ==
    \A j \in Jobs : job[j].pc = "done" /\ job[j].errors = 0 /\ ~ job[j].dry /\ job[j].limit = 0 =>
        \A i \in 1 .. job[j].first : Ties(i) \/ ~ deposits[i].wrong
=============================================================================
