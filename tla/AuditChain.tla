----------------------------- MODULE AuditChain -----------------------------
(***************************************************************************)
(* The tamper-evident audit trail of one user (store/src/audit_chain.rs):  *)
(* the chained rows, the head that pins the last one, the transactions     *)
(* that append to the chain or anonymise it, and the verification, which   *)
(* reads the tables row by row while the writers go on.                    *)
(*                                                                         *)
(* The HMAC is taken to be injective: row_hash(prev, f) is Append(prev, f),*)
(* so that the hash of a row is the sequence of the fields hashed so far.  *)
(* A MAC that nobody holding the key has computed is a head that is not    *)
(* genuine.  A batch of the verification is read one row at a time, which  *)
(* allows more interleavings than batches do.                              *)
(***************************************************************************)
EXTENDS Integers, Sequences, FiniteSets

CONSTANTS
    Writers,     \* transactions that record events, or delete the account
    Actions,     \* what an event may be
    Legacy,      \* rows from before the chain, in (created_at, id) order
    MaxRows,     \* bound on the rows of the chain
    MaxTampers,  \* bound on the changes made outside of the service
    NoWriter,
    NoHead

Entry == [seq : Nat \ {0}, action : Actions \cup {"deleted"}, pii : BOOLEAN]

ASSUME AuditAssumption ==
    /\ NoWriter \notin Writers
    /\ MaxRows \in Nat /\ MaxTampers \in Nat
    /\ Legacy \in Seq([action : Actions, pii : BOOLEAN])
    /\ NoHead \notin [seq : Nat, hash : Seq(Entry), genuine : BOOLEAN]

VARIABLES
    rows,     \* audit_logs with a seq
    strays,   \* audit_logs without one: the rows of before the chain, in order
    head,     \* audit_chain_heads
    deleted,  \* users.deleted_at is set
    lock,     \* the writer that holds the advisory lock of the user
    write,    \* each writer's transaction
    tampers,  \* changes made outside of the service
    verify    \* verify_audit_chain

tables == <<rows, strays, head, deleted>>
auditvars == <<tables, lock, write, tampers, verify>>

(***************************************************************************)
(* The chain.                                                              *)
(***************************************************************************)
row_hash(prev, f) == Append(prev, f)

Genesis == << >>

LinkFields(r) == [seq |-> r.seq, action |-> r.action, pii |-> r.pii]

Row(prev, f) == [seq |-> f.seq, action |-> f.action, pii |-> f.pii, prev |-> prev,
                 hash |-> row_hash(prev, f)]

\* The rows whose fields are h, each linked to the one before.
ChainOf(h) == {Row(SubSeq(h, 1, i - 1), h[i]) : i \in 1..Len(h)}

\* head_mac covers seq and row_hash.
HeadOf(h) == [seq |-> Len(h), hash |-> h, genuine |-> TRUE]

Tip == IF head = NoHead THEN Genesis ELSE head.hash

\* Row r follows the rows of rs: what verify_audit_chain and anonymise_chain look at.
Follows(rs, r) ==
    /\ r.hash = row_hash(r.prev, LinkFields(r))
    /\ IF r.seq = 1 THEN r.prev = Genesis
       ELSE \E q \in rs : q.seq = r.seq - 1 /\ q.hash = r.prev

\* rs is a chain without gaps that ends with the hash h.
Linked(rs, h) ==
    /\ \A r \in rs : Follows(rs, r) /\ r.seq \in 1..Len(h)
    /\ \A i \in 1..Len(h) : \E r \in rs : r.seq = i
    /\ \A r \in rs : r.seq = Len(h) => r.hash = h

\* What is stored is what the service has written.
Intact ==
    /\ Linked(rows, Tip)
    /\ head # NoHead => head.genuine /\ strays = << >>

(***************************************************************************)
(* The transactions.  A writer takes the lock and reads the tip; what it   *)
(* has written appears when it commits, which gives the lock back.         *)
(***************************************************************************)
NoWrite == [pc |-> "idle", kind |-> "record", action |-> "deleted", pii |-> FALSE,
            tip |-> Genesis, adopts |-> << >>]

NoVerify == [pc |-> "idle", last |-> 0, prev |-> Genesis, strays |-> 0,
             verdict |-> "none", damaged |-> FALSE, overlap |-> "none"]

AuditInit ==
    /\ rows = {}
    /\ strays = Legacy
    /\ head = NoHead
    /\ deleted = FALSE
    /\ lock = NoWriter
    /\ write = [w \in Writers |-> NoWrite]
    /\ tampers = 0
    /\ verify = NoVerify

\* chain_tip refuses a head that is missing or not genuine.
Corrupt == IF head = NoHead THEN rows # {} ELSE ~head.genuine

\* adopt_legacy_rows: the rows of before the chain become its first ones.
Adopted(s) == [i \in 1..Len(s) |-> [seq |-> i, action |-> s[i].action, pii |-> s[i].pii]]

lock_chain(w, x) ==
    /\ write[w].pc = "idle" /\ lock = NoWriter
    /\ lock' = w
    /\ write' = [write EXCEPT ![w] = x]

\* The tip a writer has read: the hash of the head, or of the adopted rows.
Began(k, a, p) ==
    [pc |-> "locked", kind |-> k, action |-> a, pii |-> p,
     tip |-> IF head = NoHead THEN Adopted(strays) ELSE head.hash,
     adopts |-> IF head = NoHead THEN strays ELSE << >>]

record_audit(w, a, p) ==
    /\ ~Corrupt
    /\ lock_chain(w, Began("record", a, p))
    /\ UNCHANGED <<tables, tampers, verify>>

delete_account(w) ==
    /\ ~Corrupt /\ ~deleted
    /\ lock_chain(w, Began("delete", "deleted", FALSE))
    /\ UNCHANGED <<tables, tampers, verify>>

Unlock(w) ==
    /\ lock' = NoWriter
    /\ write' = [write EXCEPT ![w] = NoWrite]

\* A verification in progress has seen a commit ("commit") or a change made outside of
\* the service ("tamper").
Overlapped(o) ==
    verify' = IF verify.pc \in {"idle", "done"} \/ verify.overlap = "tamper" THEN verify
              ELSE [verify EXCEPT !.overlap = o]

\* The rows a writer finds: the ones it has adopted in its own transaction included.
Found(x) == IF x.adopts = << >> THEN rows ELSE rows \cup ChainOf(x.tip)

NewLink(x, h) == [seq |-> Len(h) + 1, action |-> x.action, pii |-> x.pii]

\* Variant: the head is written before the row is, with the hash of the row before.
append_link_stale_head(rs, x, h) ==
    /\ \A r \in rs : r.seq # Len(h) + 1
    /\ rows' = rs \cup {Row(h, NewLink(x, h))}
    /\ head' = HeadOf(h)

\* The unique index on (user_id, seq) refuses a position that is taken.
append_link(rs, x, h) ==
    /\ \A r \in rs : r.seq # Len(h) + 1
    /\ rows' = rs \cup {Row(h, NewLink(x, h))}
    /\ head' = HeadOf(row_hash(h, NewLink(x, h)))

StraysLeft(x) == IF x.adopts = << >> THEN strays ELSE << >>

Commit(w) ==
    /\ write[w].pc = "locked" /\ write[w].kind = "record"
    /\ append_link(Found(write[w]), write[w], write[w].tip)
    /\ strays' = StraysLeft(write[w])
    /\ Unlock(w)
    /\ Overlapped("commit")
    /\ UNCHANGED <<deleted, tampers>>

Anonymous(h) == [i \in 1..Len(h) |-> [seq |-> h[i].seq, action |-> h[i].action, pii |-> FALSE]]

\* Variant: the rows are linked anew without a look at their hashes.
WalkTrusts(rs, h) == TRUE

\* anonymise_chain checks each row against its hash, and the last against the tip.
Walk(rs, h) == Linked(rs, h)

Scrubbed(s) == [i \in 1..Len(s) |-> [action |-> s[i].action, pii |-> FALSE]]

\* anonymise_chain, then append_link.
CommitDeletion(w) ==
    LET x == write[w]
        h == Anonymous(x.tip)
    IN
    /\ x.pc = "locked" /\ x.kind = "delete"
    /\ Walk(Found(x), x.tip)
    /\ append_link(ChainOf(h), x, h)
    /\ strays' = Scrubbed(StraysLeft(x))
    /\ deleted' = TRUE
    /\ Unlock(w)
    /\ Overlapped("commit")
    /\ UNCHANGED tampers

\* The transaction is rolled back: an error, a refusal of anonymise_chain, a crash.
Rollback(w) ==
    /\ write[w].pc = "locked"
    /\ Unlock(w)
    /\ UNCHANGED <<tables, tampers, verify>>

(***************************************************************************)
(* The tables are changed outside of the service, between transactions: a  *)
(* head that is changed after a writer has read it is simply written over. *)
(***************************************************************************)
Tampered(rs, s, h) ==
    /\ tampers < MaxTampers /\ lock = NoWriter
    /\ tampers' = tampers + 1
    /\ rows' = rs /\ strays' = s /\ head' = h
    /\ Overlapped("tamper")
    /\ UNCHANGED <<deleted, lock, write>>

EditRow ==
    \E r \in rows : \E a \in Actions \ {r.action} :
        Tampered((rows \ {r}) \cup {[r EXCEPT !.action = a]}, strays, head)

LoseRow == \E r \in rows : Tampered(rows \ {r}, strays, head)

LoseHead == head # NoHead /\ rows # {} /\ Tampered(rows, strays, NoHead)

ForgeHead == head # NoHead /\ Tampered(rows, strays, [head EXCEPT !.genuine = FALSE])

AddStray ==
    /\ head # NoHead
    /\ \E a \in Actions : Tampered(rows, Append(strays, [action |-> a, pii |-> FALSE]), head)

Tamper == EditRow \/ LoseRow \/ LoseHead \/ ForgeHead \/ AddStray

(***************************************************************************)
(* verify_audit_chain.                                                     *)
(***************************************************************************)
VerifyBegin ==
    /\ verify.pc \in {"idle", "done"}
    /\ verify' = [pc |-> "rows", last |-> 0, prev |-> Genesis, strays |-> Len(strays),
                  verdict |-> "none", damaged |-> ~Intact, overlap |-> "none"]
    /\ UNCHANGED <<tables, lock, write, tampers>>

Report(v) == [verify EXCEPT !.pc = "done", !.verdict = v, !.prev = Genesis, !.last = 0]

Ahead == {r \in rows : r.seq > verify.last}

\* The checks on a row, which has to follow the rows read so far.
RowHolds(r) ==
    /\ r.seq = verify.last + 1
    /\ r.prev = verify.prev
    /\ r.hash = row_hash(verify.prev, LinkFields(r))

VerifyRow ==
    /\ verify.pc = "rows"
    /\ \E r \in Ahead :
          /\ \A q \in Ahead : r.seq <= q.seq
          /\ verify' = IF RowHolds(r)
                       THEN [verify EXCEPT !.last = r.seq, !.prev = r.hash]
                       ELSE Report("broken")
    /\ UNCHANGED <<tables, lock, write, tampers>>

VerifyRows ==
    /\ verify.pc = "rows" /\ Ahead = {}
    /\ verify' = [verify EXCEPT !.pc = "head"]
    /\ UNCHANGED <<tables, lock, write, tampers>>

\* Variant: a head beyond the last row is taken for one of a row not read yet.
VerdictLenient ==
    IF head = NoHead THEN IF verify.last # 0 THEN "broken"
                          ELSE IF verify.strays > 0 THEN "unchained" ELSE "intact"
    ELSE IF ~head.genuine \/ head.seq < verify.last THEN "broken"
    ELSE IF verify.strays > 0 THEN "broken" ELSE "intact"

\* The last match of verify_audit_chain.
Verdict ==
    IF head = NoHead THEN IF verify.last # 0 THEN "broken"
                          ELSE IF verify.strays > 0 THEN "unchained" ELSE "intact"
    ELSE IF ~head.genuine \/ head.seq # verify.last \/ head.hash # verify.prev THEN "broken"
    ELSE IF verify.strays > 0 THEN "broken" ELSE "intact"

VerifyHead ==
    /\ verify.pc = "head"
    /\ verify' = Report(Verdict)
    /\ UNCHANGED <<tables, lock, write, tampers>>

Verify == VerifyBegin \/ VerifyRow \/ VerifyRows \/ VerifyHead

AuditNext ==
    \/ \E w \in Writers :
          \/ Len(Tip) < MaxRows /\ \E a \in Actions, p \in BOOLEAN : record_audit(w, a, p)
          \/ Len(Tip) < MaxRows /\ delete_account(w)
          \/ Commit(w) \/ CommitDeletion(w) \/ Rollback(w)
    \/ Tamper
    \/ Verify

AuditSpec == AuditInit /\ [][AuditNext]_auditvars

(***************************************************************************)
(* Properties.                                                             *)
(***************************************************************************)

\* However the transactions of several writers interleave, what the service alone has
\* written is one linear chain that ends where the head says.
ChainIsLinear == tampers = 0 => Intact

Log == INSTANCE AuditLog WITH entries <- Tip, damaged <- ~Intact

\* The tables implement the abstract log: entries are only added at the end, or all of
\* them anonymised with the deletion of the account, and no append, adoption or
\* anonymisation makes a chain that was changed outside of the service verify again.
LogSpec == Log!Spec

\* A verification that starts on a changed chain reports it, whatever the writers do
\* meanwhile.
VerifyFindsDamage ==
    verify.pc = "done" /\ verify.damaged /\ verify.overlap # "tamper" =>
        verify.verdict = "broken"

\* A verification that no commit overlaps reports only a chain that was changed.
VerifyBlamesDamage ==
    verify.pc = "done" /\ verify.overlap = "none" /\ verify.verdict = "broken" =>
        verify.damaged

\* A verification's verdict is true of the chain it started on, as far as what happens
\* during it lets one say (verify_audit_chain).
VerdictIsTrue == VerifyFindsDamage /\ VerifyBlamesDamage

(***************************************************************************)
(* The inductive invariant behind ChainIsLinear and LogSpec.  Whatever was *)
(* changed outside of the service, positions are taken once and the head's *)
(* hash numbers its entries from 1; and what the holder of the lock has    *)
(* read is still there, under a head that was in order.                    *)
(***************************************************************************)
Rows == [seq : Nat \ {0}, action : Actions \cup {"deleted"}, pii : BOOLEAN,
         prev : Seq(Entry), hash : Seq(Entry)]

Heads == [seq : Nat, hash : Seq(Entry), genuine : BOOLEAN]

Strays == Seq([action : Actions, pii : BOOLEAN])

Numbered(h) == h \in Seq(Entry) /\ \A i \in 1..Len(h) : h[i].seq = i

StoredOK ==
    /\ rows \subseteq Rows /\ \A r, q \in rows : r.seq = q.seq => r = q
    /\ strays \in Strays
    /\ deleted \in BOOLEAN
    /\ head # NoHead => head \in Heads /\ Numbered(head.hash) /\ head.seq = Len(head.hash)

WriterOK(w, x) ==
    x.pc = "locked" =>
        /\ lock = w /\ ~Corrupt
        /\ x.tip = IF head = NoHead THEN Adopted(strays) ELSE head.hash
        /\ x.adopts = IF head = NoHead THEN strays ELSE << >>
        /\ x.action \in Actions \cup {"deleted"} /\ x.pii \in BOOLEAN
        /\ x.kind = "delete" => ~deleted

ChainInv ==
    /\ StoredOK
    /\ tampers \in Nat /\ ChainIsLinear
    /\ DOMAIN write = Writers /\ \A w \in Writers : WriterOK(w, write[w])

(***************************************************************************)
(* The one behind VerdictIsTrue, about a verification in progress.  As     *)
(* long as nothing has changed and the chain is intact, it has read a      *)
(* prefix of it.  A chain that was damaged when it began stays damaged     *)
(* until somebody tampers with it, and as long as that may not be reported *)
(* yet, what it has read is still stored and nothing lies beyond it but    *)
(* what the head covers as well.                                           *)
(***************************************************************************)
Verifications ==
    [pc : {"idle", "rows", "head", "done"}, last : Nat, prev : Seq(Entry), strays : Nat,
     verdict : {"none", "broken", "unchained", "intact"}, damaged : BOOLEAN,
     overlap : {"none", "commit", "tamper"}]

Alone(v) ==
    /\ v.damaged = ~Intact
    /\ v.strays = Len(strays)
    /\ Intact => /\ \/ v.last = 0 /\ v.prev = Genesis
                    \/ \E r \in rows : r.seq = v.last /\ r.hash = v.prev
                 /\ v.pc = "head" => v.last = Len(Tip)

Undisturbed(v) ==
    /\ ~Intact
    /\ Len(strays) <= v.strays
    /\ v.strays = 0 => /\ Numbered(v.prev) /\ Len(v.prev) = v.last /\ ChainOf(v.prev) \subseteq rows
                       /\ v.pc = "head" /\ head # NoHead =>
                            head.seq > v.last \/ \A r \in rows : r.seq <= v.last
    /\ v.pc = "head" /\ head = NoHead => \A r \in rows : r.seq <= v.last

VerifyInv ==
    /\ verify \in Verifications
    /\ verify.pc \in {"rows", "head"} /\ verify.overlap = "none" => Alone(verify)
    /\ verify.pc \in {"rows", "head"} /\ verify.overlap # "tamper" /\ verify.damaged =>
          Undisturbed(verify)
    /\ VerdictIsTrue
=============================================================================
