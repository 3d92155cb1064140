------------------------------ MODULE AuditLog ------------------------------
(***************************************************************************)
(* What the audit trail of one user promises, without hashes or tables: a  *)
(* log that only grows at its end; that is anonymised as a whole, once,    *)
(* with the account's deletion, and otherwise never rewritten; and whose   *)
(* damage, done outside of the service, no step of the service repairs or  *)
(* covers up.                                                              *)
(***************************************************************************)
EXTENDS Naturals, Sequences

VARIABLES
    entries,  \* the log, oldest entry first
    deleted,  \* whether the account has been deleted
    damaged   \* whether what is stored is not what the service wrote

Init ==
    /\ entries = << >>
    /\ deleted = FALSE
    /\ damaged = FALSE

Extend ==
    /\ Len(entries') > Len(entries)
    /\ SubSeq(entries', 1, Len(entries)) = entries
    /\ UNCHANGED <<deleted, damaged>>

\* e without what it says of persons.
Anonymous(e) == [seq |-> e.seq, action |-> e.action, pii |-> FALSE]

Delete ==
    /\ ~deleted
    /\ Len(entries') > Len(entries)
    /\ \A i \in 1..Len(entries) : entries'[i] = Anonymous(entries[i])
    /\ \A i \in 1..(Len(entries') - 1) : ~entries'[i].pii
    /\ deleted'
    /\ UNCHANGED damaged

\* Something other than the service writes the tables: it may damage the log, lose it
\* altogether, or undo what it has done to it.
Disturb ==
    /\ entries' \in {entries, << >>}
    /\ damaged' \in BOOLEAN
    /\ UNCHANGED deleted

Next == Extend \/ Delete \/ Disturb

Spec == Init /\ [][Next]_<<entries, deleted, damaged>>
=============================================================================
