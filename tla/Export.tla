------------------------------- MODULE Export -------------------------------
(***************************************************************************)
(* The CSV export of a wallet's history (routes/transactions_csv.rs): a    *)
(* stream of keyset pages, read as the client reads, while deposits are    *)
(* recorded and withdrawals change their status.                           *)
(*                                                                         *)
(* A row is [at, id, status]: created_at, the random id that breaks ties,  *)
(* and the status a filter may ask for.  Rows are never deleted.           *)
(***************************************************************************)
EXTENDS Integers, Sequences, FiniteSets, FiniteSetsExt, SequencesExt

CONSTANTS
    BatchSize,      \* BATCH_SIZE
    MaxRows,        \* rows of the wallet; their ids are 1 .. MaxRows
    MaxAt,          \* created_at is 1 .. MaxAt
    Statuses

ASSUME ExportAssumption == BatchSize \in Nat \ {0} /\ MaxRows \in Nat /\ MaxAt \in Nat

VARIABLES
    history,        \* the wallet's rows, a set
    now_at,         \* the database's clock
    export          \* the stream and what it has sent

exportvars == <<history, now_at, export>>

Every == "any"
NoFilter == [status |-> Every, from |-> 0, to |-> 0]
NoExport == [pc |-> "idle", filter |-> NoFilter, before |-> 0, sent |-> <<>>, due |-> {}]

Row(id) == CHOOSE r \in history : r.id = id
Older(r, s) == r.at < s.at \/ (r.at = s.at /\ r.id < s.id)

(* from is inclusive and to exclusive; 0 stands for no bound.              *)
Matches(r, filter) ==
    /\ filter.status # Every => r.status = filter.status
    /\ filter.from # 0 => r.at >= filter.from
    /\ filter.to # 0 => r.at < filter.to

(* TransactionFilterParams::validate; the statuses are those it knows.     *)
validate(filter) == filter.from = 0 \/ filter.to = 0 \/ filter.from < filter.to

ExportInit ==
    /\ history = {}
    /\ now_at = 1
    /\ export = NoExport

(* record_deposit and upsert_withdrawal_transaction: created_at is the     *)
(* statement's time, the id is random.                                     *)
Insert(id, status) ==
    /\ Cardinality(history) < MaxRows
    /\ \A r \in history : r.id # id
    /\ history' = history \cup {[at |-> now_at, id |-> id, status |-> status]}
    /\ UNCHANGED <<now_at, export>>

(* A withdrawal's status changes; the row keeps its place.                 *)
Settle(id, status) ==
    /\ \E r \in history : r.id = id /\ r.status # status
    /\ history' = {IF r.id = id THEN [r EXCEPT !.status = status] ELSE r : r \in history}
    /\ export' = [export EXCEPT !.due = IF Matches([Row(id) EXCEPT !.status = status],
                                                   export.filter) THEN @ ELSE @ \ {id}]
    /\ UNCHANGED now_at

Later == now_at < MaxAt /\ now_at' = now_at + 1 /\ UNCHANGED <<history, export>>

list_transactions_page(filter, limit, before) ==
    LET rows == {r \in history : Matches(r, filter) /\ (before # 0 => Older(r, Row(before)))}
        newest == SetToSortSeq(rows, LAMBDA r, s : Older(s, r))
    IN SubSeq(newest, 1, Min({limit, Len(newest)}))

(* export_transactions_csv: the filter is fixed and the header sent.       *)
export_transactions_csv(filter) ==
    /\ export.pc = "idle"
    /\ validate(filter)
    /\ export' = [NoExport EXCEPT !.pc = "after", !.filter = filter,
                     !.due = {r.id : r \in {h \in history : Matches(h, filter)}}]
    /\ UNCHANGED <<history, now_at>>

(* Variant: a page that is just full ends the stream.                      *)
csv_stream_full_ends ==
    /\ export.pc = "after"
    /\ LET rows == list_transactions_page(export.filter, BatchSize, export.before)
       IN export' = [export EXCEPT
             !.sent = @ \o [i \in DOMAIN rows |-> rows[i].id],
             !.before = IF rows = <<>> THEN @ ELSE Last(rows).id,
             !.pc = IF Len(rows) <= BatchSize THEN "done" ELSE "after"]
    /\ UNCHANGED <<history, now_at>>

(* A poll of the stream.                                                   *)
csv_stream ==
    /\ export.pc = "after"
    /\ LET rows == list_transactions_page(export.filter, BatchSize, export.before)
       IN export' = [export EXCEPT
             !.sent = @ \o [i \in DOMAIN rows |-> rows[i].id],
             !.before = IF rows = <<>> THEN @ ELSE Last(rows).id,
             !.pc = IF Len(rows) < BatchSize THEN "done" ELSE "after"]
    /\ UNCHANGED <<history, now_at>>

(* The query fails: the body is broken off.                                *)
csv_stream_failed ==
    /\ export.pc = "after"
    /\ export' = [export EXCEPT !.pc = "aborted"]
    /\ UNCHANGED <<history, now_at>>

ExportNext ==
    \/ \E id \in 1 .. MaxRows, s \in Statuses : Insert(id, s) \/ Settle(id, s)
    \/ Later
    \/ \E f \in [status : Statuses \cup {Every}, from : 0 .. MaxAt, to : 0 .. MaxAt + 1] :
         export_transactions_csv(f)
    \/ csv_stream \/ csv_stream_failed

-----------------------------------------------------------------------------
(* A file that looks complete is: it has every row that was there when the *)
(* export began and kept matching the filter, though rows are added and    *)
(* change between the pages (csv_stream over list_transactions_page).      *)
ExportWhole == export.pc = "done" => export.due \subseteq ToSet(export.sent)

(* No row is exported twice, and the file is newest first, aborted or not. *)
ExportOrdered ==
    \A i, k \in DOMAIN export.sent :
        i < k => Older(Row(export.sent[k]), Row(export.sent[i]))

(* An exported file is the wallet's history: whole if it looks complete,   *)
(* each row once, newest first (export_transactions_csv).                  *)
ExportFaithful == ExportWhole /\ ExportOrdered
=============================================================================
