------------------------------ MODULE Accounts ------------------------------
(***************************************************************************)
(* Dashboard accounts: crates/api/src/auth.rs, routes/account.rs,          *)
(* routes/sessions.rs and routes/apikeys.rs over crates/store.             *)
(*                                                                         *)
(* Requests run beside each other.  A step is one call of the store (one   *)
(* SQL statement or one transaction), with the tests the handler makes on  *)
(* what it returned; between two steps of a request any other request may  *)
(* run.  The transaction of a new epoch takes two steps, its statements    *)
(* and its commit: at READ COMMITTED it revokes the sessions it has found, *)
(* and another may be opened before it commits.  A request that the code   *)
(* refuses ends with no further step, so a refusal that changes nothing is *)
(* not a step here.  The rate limits and the lockout, which refuse         *)
(* requests and change no account, are the module Throttle.  Passwords and *)
(* codes are compared as values: the hash functions are taken to be        *)
(* injective.                                                              *)
(***************************************************************************)
EXTENDS Naturals, Sequences, FiniteSets

CONSTANTS Users,          \* ids of the rows of users
          Emails,         \* addresses a person can receive mail at
          Passwords,
          MaxRequests,    \* requests that are ever started
          MaxOpen,        \* requests in flight at a time
          MaxAttempts,    \* MAX_ATTEMPTS of a code
          Offered,        \* Offered[i]: the kinds the i-th request may have
          NoUser, Gone, None

ASSUME AccountsAssumption ==
    /\ MaxRequests \in Nat /\ MaxOpen \in Nat \ {0} /\ MaxAttempts \in Nat \ {0}
    /\ NoUser \notin Users /\ Gone \notin Users /\ None \notin Emails \cup Passwords
    /\ Users # {} /\ Passwords # {} /\ \E e, f \in Emails : e # f

VARIABLES users,      \* rows of users
          sessions,   \* rows of sessions, by id; basis and loose are history fields
          tokens,     \* the JWTs issued, by number (their jti)
          denied,     \* token_denylist
          codes,      \* rows of email_otps of a user and purpose, oldest first; gone: deleted
          wallets,    \* rows of wallets
          keys,       \* wallets that have a row in api_keys
          req         \* the requests, in the order they start

vars == <<users, sessions, tokens, denied, codes, wallets, keys, req>>
rows == <<users, sessions, tokens, denied, codes, wallets, keys>>

Purposes == {"signup", "password_reset", "email_change", "account_export", "account_delete"}
Requests == 1 .. MaxRequests
AccountKinds == {"export_otp", "export", "delete_otp", "delete"}
Tombstone == "deleted@users.invalid"
Scrubbed == "!deleted"

UserRows == [email : Emails \cup {Tombstone}, pw : Passwords \cup {Scrubbed}, old : BOOLEAN,
             verified : BOOLEAN, epoch : Nat, deleted : BOOLEAN]

(* No mailbox is in the reserved domain of the tombstone.                  *)
ASSUME RowsAssumption == /\ Tombstone \notin Emails
                         /\ NoUser \notin UserRows /\ Gone \notin UserRows /\ NoUser # Gone

Exists(u) == users[u] \notin {NoUser, Gone}
UserAt(e) == {u \in Users : Exists(u) /\ users[u].email = e}

(* A request: what the handler holds between two calls of the store.       *)
Unstarted == [kind |-> "none", pc |-> "unstarted", u |-> NoUser, t |-> 0, n |-> 0,
              p |-> None, e |-> None, epoch |-> 0, seen |-> FALSE, checked |-> {}]
Done == [Unstarted EXCEPT !.pc = "done"]
Open == {r \in Requests : req[r].pc \notin {"unstarted", "done"}}
Starts(r) == /\ req[r] = Unstarted
             /\ \A q \in 1 .. (r - 1) : req[q] # Unstarted
             /\ Cardinality(Open) < MaxOpen
At(r, pc) == req[r].pc = pc
Goto(r, pc) == req' = [req EXCEPT ![r].pc = pc]
Finish(r) == req' = [req EXCEPT ![r] = Done]
Begin(r, k, pc, u, t, e) == /\ Starts(r) /\ k \in Offered[r]
                            /\ req' = [req EXCEPT ![r] = [Unstarted EXCEPT
                                          !.kind = k, !.pc = pc, !.u = u, !.t = t, !.e = e]]

Code(to, bound) == [to |-> to, bound |-> bound, tries |-> 0, uses |-> 0, gone |-> FALSE]
User(e, p, verified) == [email |-> e, pw |-> p, old |-> FALSE, verified |-> verified,
                         epoch |-> 0, deleted |-> FALSE]
Session(u, basis, loose) == [user |-> u, live |-> TRUE, basis |-> basis, loose |-> loose]
Token(u, epoch, sid) == [user |-> u, epoch |-> epoch, sid |-> sid]

(* An account in mid-life: its owner is signed in, holds a token of before *)
(* sessions were tracked (sid 0), has a password hashed with older         *)
(* parameters, and has asked for a code of every purpose.                  *)
InitUser == CHOOSE u \in Users : TRUE
Home == CHOOSE e \in Emails : TRUE
Away == CHOOSE e \in Emails \ {Home} : TRUE
FirstPassword == CHOOSE p \in Passwords : TRUE

Init == /\ users = [u \in Users |-> IF u = InitUser
                      THEN [User(Home, FirstPassword, TRUE) EXCEPT !.old = TRUE] ELSE NoUser]
        /\ sessions = <<Session(InitUser, 0, FALSE)>>
        /\ tokens = <<Token(InitUser, 0, 1), Token(InitUser, 0, 0)>>
        /\ denied = {}
        /\ codes = [u \in Users |-> [p \in Purposes |->
                      IF u # InitUser THEN <<>>
                      ELSE IF p = "signup" THEN <<[Code(Home, None) EXCEPT !.tries = 1, !.uses = 1]>>
                      ELSE IF p = "email_change" THEN <<Code(Away, Away)>>
                      ELSE <<Code(Home, None)>>]]
        /\ wallets = <<[owner |-> InitUser, archived |-> FALSE]>>
        /\ keys = {}
        /\ req = [r \in Requests |-> Unstarted]
-----------------------------------------------------------------------------
(* Sessions and tokens.                                                    *)

is_session_valid(t) ==
    LET k == tokens[t] IN
    /\ Exists(k.user) /\ users[k.user].epoch = k.epoch /\ ~users[k.user].deleted
    /\ t \notin denied
    /\ k.sid # 0 => sessions[k.sid].user = k.user /\ sessions[k.sid].live

(* The token is looked up in one query; the rest of the handler runs later *)
authenticate(r, k, pc) == Starts(r) /\ \E t \in DOMAIN tokens :
    is_session_valid(t) /\ Begin(r, k, pc, tokens[t].user, t, None)

(* The row of a user whose new epoch is not committed, and the rows of the *)
(* sessions it is to revoke: who writes one of them waits.                 *)
Locked(u) == \E r \in Requests : At(r, "commit") /\ req[r].u = u
Claimed(s) == \E r \in Requests : At(r, "commit") /\ s \in req[r].checked

(* Opening a session needs the row of the user (a foreign key), locked or  *)
(* not.  The session is loose when it is opened under a lock, or from a    *)
(* token that has no session.                                              *)
start_session(r, basis, adopted) ==
    LET q == req[r] IN
    IF ~Exists(q.u) THEN UNCHANGED <<sessions, tokens>>
    ELSE /\ sessions' = Append(sessions, Session(q.u, basis, adopted \/ Locked(q.u)))
         /\ tokens' = Append(tokens, Token(q.u, q.epoch, Len(sessions) + 1))

extend_session(u, sid) == sessions[sid].user = u /\ sessions[sid].live

continue_session(r) ==
    LET q == req[r]  sid == tokens[q.t].sid IN
    /\ At(r, "continue")
    /\ ~Claimed(sid)
    /\ IF sid = 0 THEN start_session(r, tokens[q.t].epoch, TRUE)
       ELSE /\ tokens' = IF extend_session(q.u, sid)
                         THEN Append(tokens, Token(q.u, q.epoch, sid)) ELSE tokens
            /\ UNCHANGED sessions
    /\ Finish(r)
    /\ UNCHANGED <<users, denied, codes, wallets, keys>>

(* The rows that the statement marks.                                      *)
revoke_sessions_by_epoch(u, keep) == {}
revoke_sessions_except(u, keep) ==
    {s \in DOMAIN sessions : sessions[s].user = u /\ sessions[s].live /\ s # keep}

Revoked(ids) == [s \in DOMAIN sessions |->
    IF s \in ids THEN [sessions[s] EXCEPT !.live = FALSE] ELSE sessions[s]]

login(r) == \E e \in Emails, p \in Passwords : \E u \in UserAt(e) :
    LET row == users[u] IN
    /\ row.pw = p
    /\ Starts(r) /\ "login" \in Offered[r]
    /\ req' = [req EXCEPT ![r] = [Unstarted EXCEPT !.kind = "login", !.u = u, !.p = p, !.e = e,
                  !.epoch = row.epoch, !.seen = row.verified,
                  !.pc = IF row.old THEN "rehash" ELSE IF row.verified THEN "open" ELSE "issue"]]
    /\ UNCHANGED rows

rehash_password(r) ==
    LET q == req[r] IN
    /\ At(r, "rehash") /\ ~Locked(q.u)
    /\ users' = IF Exists(q.u) THEN [users EXCEPT ![q.u].pw = q.p, ![q.u].old = FALSE] ELSE users
    /\ Goto(r, IF q.seen THEN "open" ELSE "issue")
    /\ UNCHANGED <<sessions, tokens, denied, codes, wallets, keys>>

open_session(r) ==
    /\ At(r, "open")
    /\ start_session(r, req[r].epoch, FALSE)
    /\ Finish(r)
    /\ UNCHANGED <<users, denied, codes, wallets, keys>>

refresh(r) == authenticate(r, "refresh", "epoch") /\ UNCHANGED rows

get_user_epoch(r) ==
    /\ At(r, "epoch")
    /\ req' = [req EXCEPT ![r].pc = "deny", ![r].epoch = users[req[r].u].epoch]
    /\ UNCHANGED rows

denylist(r) ==
    /\ At(r, "deny")
    /\ denied' = denied \cup {req[r].t}
    /\ Goto(r, IF req[r].kind = "refresh" THEN "continue" ELSE "revoke")
    /\ UNCHANGED <<users, sessions, tokens, codes, wallets, keys>>

(* logout trusts the signature only: any token that was ever issued        *)
logout(r) == \E t \in DOMAIN tokens :
    Begin(r, "logout", "deny", tokens[t].user, t, None) /\ UNCHANGED rows

change_password(r) == authenticate(r, "change_password", "password") /\ UNCHANGED rows
revoke_other_sessions(r) == authenticate(r, "revoke_others", "apply") /\ UNCHANGED rows
revoke_session(r) == authenticate(r, "revoke_session", "revoke") /\ UNCHANGED rows

(* The session whose row is marked: the token's own at a logout, any of    *)
(* the user's when it is named in the path.                                *)
mark_revoked(r) == \E s \in DOMAIN sessions \cup {0} :
    LET q == req[r] IN
    /\ At(r, "revoke")
    /\ IF q.kind = "logout" THEN s = tokens[q.t].sid ELSE s # 0 /\ sessions[s].user = q.u
    /\ ~Claimed(s)
    /\ sessions' = Revoked({s})
    /\ Finish(r)
    /\ UNCHANGED <<users, tokens, denied, codes, wallets, keys>>

(* The password in the body against the row as it now is.                  *)
verify_password(r) ==
    LET q == req[r]  row == users[q.u] IN
    /\ At(r, "password")
    /\ row.pw \in Passwords
    /\ q.kind \in AccountKinds => ~row.deleted
    /\ req' = [req EXCEPT
          ![r].p = IF q.kind = "change_password" THEN row.pw ELSE None,
          ![r].e = IF q.kind \in {"export_otp", "delete_otp"} THEN row.email ELSE None,
          ![r].pc = CASE q.kind = "change_password" -> "apply"
                      [] q.kind = "email_change" -> "vacant"
                      [] q.kind = "export_otp" -> "issue"
                      [] q.kind = "export" -> "claim"
                      [] OTHER -> "funds"]
    /\ UNCHANGED rows

(* change_password, reset_password and revoke_other_sessions: a new epoch, *)
(* and a new password unless it is the last of the three.  The row of the  *)
(* user is locked, the sessions are marked, and the rest sees neither      *)
(* before the commit.                                                      *)
Kept(q) == IF q.kind = "confirm_reset" THEN 0 ELSE tokens[q.t].sid

apply_epoch(r) ==
    LET q == req[r] IN
    /\ At(r, "apply")
    /\ Exists(q.u) /\ ~Locked(q.u)
    /\ req' = [req EXCEPT ![r].pc = "commit", ![r].checked = revoke_sessions_except(q.u, Kept(q))]
    /\ UNCHANGED rows

commit_epoch(r) == \E p \in Passwords \cup {None} :
    LET q == req[r]  epoch == users[q.u].epoch + 1 IN
    /\ At(r, "commit")
    /\ IF q.kind = "revoke_others" THEN p = None ELSE p \notin {None, q.p}
    /\ users' = [users EXCEPT ![q.u].epoch = epoch, ![q.u].pw = IF p = None THEN @ ELSE p,
                              ![q.u].old = IF p = None THEN @ ELSE FALSE]
    /\ sessions' = [s \in DOMAIN sessions |-> IF s = Kept(q)
                      THEN [sessions[s] EXCEPT !.basis = epoch] ELSE Revoked(q.checked)[s]]
    /\ req' = [req EXCEPT ![r] = IF q.kind = "confirm_reset" THEN Done
                 ELSE [q EXCEPT !.pc = "continue", !.p = None, !.epoch = epoch, !.checked = {}]]
    /\ UNCHANGED <<tokens, denied, codes, wallets, keys>>
-----------------------------------------------------------------------------
(* One-time codes.                                                         *)

PurposeOf(k) == CASE k \in {"signup", "resend", "login", "verify_email"} -> "signup"
                  [] k \in {"request_reset", "confirm_reset"} -> "password_reset"
                  [] k \in {"email_change", "confirm_email"} -> "email_change"
                  [] k \in {"export_otp", "export"} -> "account_export"
                  [] k \in {"delete_otp", "delete"} -> "account_delete"

(* The address the code goes to: the new one for a change of address.      *)
SendTo(q) == q.e

(* create_otp, and then the mail: a mail that fails leaves the row.        *)
issue_otp(r) == \E mailed \in BOOLEAN :
    LET q == req[r] IN
    /\ At(r, "issue")
    /\ Exists(q.u)
    /\ codes' = [codes EXCEPT ![q.u][PurposeOf(q.kind)] =
                   Append(@, Code(SendTo(q), IF q.kind = "email_change" THEN q.e ELSE None))]
    /\ IF ~mailed /\ q.kind = "signup" /\ q.seen THEN Goto(r, "rollback") ELSE Finish(r)
    /\ UNCHANGED <<users, sessions, tokens, denied, wallets, keys>>

(* One attempt is counted on the latest live code before it is compared    *)
(* with the code of the request, which need not be the right one.          *)
claim_otp(r) ==
    LET q == req[r]
        p == PurposeOf(q.kind)
        n == Len(codes[q.u][p])
        c == codes[q.u][p][n] IN
    /\ At(r, "claim")
    /\ n # 0 /\ ~c.gone /\ c.uses = 0 /\ c.tries < MaxAttempts
    /\ codes' = [codes EXCEPT ![q.u][p][n].tries = @ + 1]
    /\ \E right \in BOOLEAN, e \in IF q.kind = "confirm_email" THEN Emails ELSE {None} :
         req' = [req EXCEPT ![r] = IF right /\ c.bound = e
                   THEN [q EXCEPT !.pc = "consume", !.n = n, !.e = e] ELSE Done]
    /\ UNCHANGED <<users, sessions, tokens, denied, wallets, keys>>

(* The row is marked consumed unless another request has marked it.        *)
Unspent_any(u, p, n) == ~codes[u][p][n].gone
Unspent(u, p, n) == ~codes[u][p][n].gone /\ codes[u][p][n].uses = 0

consume_otp(r) ==
    LET q == req[r]  p == PurposeOf(q.kind) IN
    /\ At(r, "consume")
    /\ Unspent(q.u, p, q.n)
    /\ codes' = [codes EXCEPT ![q.u][p][q.n].uses = @ + 1]
    /\ req' = [req EXCEPT ![r] = IF q.kind = "export" THEN Done
                 ELSE [q EXCEPT !.n = 0, !.pc = CASE q.kind = "verify_email" -> "read"
                                              [] q.kind = "confirm_reset" -> "apply"
                                              [] q.kind = "confirm_email" -> "move"
                                              [] q.kind = "delete" -> "erase"]]
    /\ UNCHANGED <<users, sessions, tokens, denied, wallets, keys>>
-----------------------------------------------------------------------------
(* Signing up, verifying an address, resetting a password.                 *)

(* An address that is registered gets a code for the account it has.       *)
signup(r) == \E e \in Emails, p \in Passwords : \E u \in Users :
    /\ Starts(r) /\ "signup" \in Offered[r]
    /\ IF UserAt(e) = {} THEN users[u] = NoUser ELSE u \in UserAt(e)
    /\ users' = IF UserAt(e) = {} THEN [users EXCEPT ![u] = User(e, p, FALSE)] ELSE users
    /\ req' = [req EXCEPT ![r] = [Unstarted EXCEPT !.kind = "signup", !.pc = "issue", !.u = u, !.e = e,
                                                   !.seen = (UserAt(e) = {})]]
    /\ UNCHANGED <<sessions, tokens, denied, codes, wallets, keys>>

(* The codes of a user are deleted.  A request that holds the id of one    *)
(* finds no row for it, and no later row has that id.                      *)
delete_codes(u) == codes' = [codes EXCEPT ![u] = [p \in Purposes |->
    [i \in DOMAIN codes[u][p] |-> [codes[u][p][i] EXCEPT !.gone = TRUE]]]]

RollsBack(u) == Exists(u) /\ ~users[u].verified

delete_unverified_user(r) ==
    LET u == req[r].u IN
    /\ At(r, "rollback") /\ ~Locked(u)
    /\ IF RollsBack(u)
       THEN /\ users' = [users EXCEPT ![u] = Gone]
            /\ delete_codes(u)
       ELSE UNCHANGED <<users, codes>>
    /\ Finish(r)
    /\ UNCHANGED <<sessions, tokens, denied, wallets, keys>>

resend_otp(r) == \E u \in Users :
    Exists(u) /\ Begin(r, "resend", "issue", u, 0, users[u].email) /\ UNCHANGED rows

request_password_reset(r) == \E e \in Emails : \E u \in UserAt(e) :
    users[u].verified /\ Begin(r, "request_reset", "issue", u, 0, e) /\ UNCHANGED rows

confirm_password_reset(r) == \E e \in Emails : \E u \in UserAt(e) :
    Begin(r, "confirm_reset", "claim", u, 0, None) /\ UNCHANGED rows

verify_email(r) == \E u \in Users : Begin(r, "verify_email", "claim", u, 0, None) /\ UNCHANGED rows

get_user(r) ==
    /\ At(r, "read")
    /\ Exists(req[r].u)
    /\ req' = [req EXCEPT ![r].pc = "mark", ![r].epoch = users[req[r].u].epoch]
    /\ UNCHANGED rows

mark_email_verified(r) ==
    LET u == req[r].u IN
    /\ At(r, "mark") /\ ~Locked(u)
    /\ users' = IF Exists(u) THEN [users EXCEPT ![u].verified = TRUE] ELSE users
    /\ Goto(r, "open")
    /\ UNCHANGED <<sessions, tokens, denied, codes, wallets, keys>>

request_email_change(r) == authenticate(r, "email_change", "password") /\ UNCHANGED rows

find_user_by_email(r) == \E e \in Emails :
    /\ At(r, "vacant")
    /\ UserAt(e) = {}
    /\ req' = [req EXCEPT ![r].pc = "issue", ![r].e = e]
    /\ UNCHANGED rows

confirm_email_change(r) == authenticate(r, "confirm_email", "claim") /\ UNCHANGED rows

(* The unique index on the address decides.                                *)
update_email(r) ==
    LET q == req[r] IN
    /\ At(r, "move") /\ ~Locked(q.u)
    /\ UserAt(q.e) \subseteq {q.u}
    /\ users' = [users EXCEPT ![q.u].email = q.e]
    /\ Finish(r)
    /\ UNCHANGED <<sessions, tokens, denied, codes, wallets, keys>>
-----------------------------------------------------------------------------
(* Export and deletion of the account, its wallets and their API keys.     *)

account_action(r) == \E k \in AccountKinds :
    authenticate(r, k, "password") /\ UNCHANGED rows

Owned(u) == {w \in DOMAIN wallets : wallets[w].owner = u}

(* The balances are asked of Horizon; a wallet that holds funds, or cannot *)
(* be asked about, ends the request.                                       *)
ensure_no_funds(r) ==
    LET q == req[r] IN
    /\ At(r, "funds")
    /\ req' = [req EXCEPT ![r].pc = IF q.kind = "delete" THEN "claim" ELSE "issue",
                          ![r].checked = IF q.kind = "delete" THEN Owned(q.u) ELSE {}]
    /\ UNCHANGED rows

(* The wallets of the user, locked, are still the ones that were checked.  *)
SameWallets_skipped(q) == TRUE
SameWallets(q) == Owned(q.u) = q.checked

delete_account(r) ==
    LET q == req[r] IN
    /\ At(r, "erase") /\ ~Locked(q.u)
    /\ ~users[q.u].deleted
    /\ SameWallets(q)
    /\ users' = [users EXCEPT ![q.u].email = Tombstone, ![q.u].pw = Scrubbed, ![q.u].old = FALSE,
                              ![q.u].deleted = TRUE, ![q.u].epoch = @ + 1]
    /\ sessions' = Revoked(revoke_sessions_except(q.u, 0))
    /\ delete_codes(q.u)
    /\ wallets' = [w \in DOMAIN wallets |-> IF w \in Owned(q.u)
                      THEN [wallets[w] EXCEPT !.archived = TRUE] ELSE wallets[w]]
    /\ keys' = keys \ Owned(q.u)
    /\ Finish(r)
    /\ UNCHANGED <<tokens, denied>>

create_wallet(r) == authenticate(r, "create_wallet", "insert") /\ UNCHANGED rows

insert_wallet(r) ==
    /\ At(r, "insert")
    /\ wallets' = Append(wallets, [owner |-> req[r].u, archived |-> FALSE])
    /\ Finish(r)
    /\ UNCHANGED <<users, sessions, tokens, denied, codes, keys>>

manage_key(r) == \E k \in {"generate_key", "delete_key"} :
    authenticate(r, k, "key") /\ UNCHANGED rows

(* A key is replaced only by a confirmed rotation; that leaves one key.    *)
store_key(r) == At(r, "key") /\ \E w \in Owned(req[r].u) :
    /\ keys' = IF req[r].kind = "delete_key" THEN keys \ {w} ELSE keys \cup {w}
    /\ Finish(r)
    /\ UNCHANGED <<users, sessions, tokens, denied, codes, wallets>>

(* A test that fails, or an error of the store, ends the request where it  *)
(* is; what it has written stays.  A signup that made the row, and cannot  *)
(* write its code, deletes the row.                                        *)
fail(r) ==
    LET q == req[r] IN
    /\ r \in Open
    /\ IF At(r, "issue") /\ q.kind = "signup" /\ q.seen THEN Goto(r, "rollback") ELSE Finish(r)
    /\ UNCHANGED rows
-----------------------------------------------------------------------------
Start(r) == \/ login(r) \/ refresh(r) \/ logout(r) \/ change_password(r)
            \/ revoke_other_sessions(r) \/ revoke_session(r) \/ signup(r) \/ resend_otp(r)
            \/ request_password_reset(r) \/ confirm_password_reset(r) \/ verify_email(r)
            \/ request_email_change(r) \/ confirm_email_change(r) \/ account_action(r)
            \/ create_wallet(r) \/ manage_key(r)

Step(r) == \/ rehash_password(r) \/ open_session(r) \/ get_user_epoch(r) \/ denylist(r)
           \/ continue_session(r) \/ mark_revoked(r) \/ verify_password(r) \/ apply_epoch(r)
           \/ commit_epoch(r)
           \/ issue_otp(r) \/ claim_otp(r) \/ consume_otp(r) \/ delete_unverified_user(r)
           \/ get_user(r) \/ mark_email_verified(r) \/ find_user_by_email(r) \/ update_email(r)
           \/ ensure_no_funds(r) \/ delete_account(r) \/ insert_wallet(r) \/ store_key(r)
           \/ fail(r)

Next == \E r \in Requests : Start(r) \/ Step(r)

Spec == Init /\ [][Next]_vars
-----------------------------------------------------------------------------

(* The session of a token that is accepted rests on a credential that is   *)
(* still good: none was opened, or carried on, with a password or a token  *)
(* that a password change, a reset or a sign-out elsewhere has ended       *)
(* since, however the requests interleave.  Two sessions are excepted: one *)
(* that replaces a token of before sessions were tracked, and one that is  *)
(* opened while a new epoch of the user is applied and not committed,      *)
(* which the transaction does not find.  That one outlives the change when *)
(* its token is refreshed across the commit: see the README.               *)
LiveTokensAreCurrent == \A t \in DOMAIN tokens :
    LET k == tokens[t] IN
    is_session_valid(t) /\ k.sid # 0 /\ ~sessions[k.sid].loose
        => sessions[k.sid].basis = users[k.user].epoch

(* No token of a deleted account is accepted, not even one that a request  *)
(* in flight at the deletion was still to issue.                           *)
DeletedIsOut == \A t \in DOMAIN tokens : LET u == tokens[t].user IN
    Exists(u) /\ users[u].email = Tombstone => ~is_session_valid(t)

(* A code is redeemed at most once and compared at most MaxAttempts times, *)
(* by any number of requests at a time.                                    *)
CodesAreSpent == \A u \in Users, p \in Purposes : \A i \in DOMAIN codes[u][p] :
    LET c == codes[u][p][i] IN c.uses <= 1 /\ c.uses <= c.tries /\ c.tries <= MaxAttempts

(* A verified account has the address at which a code was received: the    *)
(* address it signed up with, or the one a change was confirmed from.      *)
MailboxProven == \A u \in Users :
    Exists(u) /\ users[u].verified /\ ~users[u].deleted =>
        \E p \in {"signup", "email_change"} : \E i \in DOMAIN codes[u][p] :
            codes[u][p][i].uses > 0 /\ codes[u][p][i].to = users[u].email

(* The roll-back of a signup whose mail failed never removes an account    *)
(* that was verified in the meantime, with a code of another request.      *)
VerifiedStays == \A u \in Users : Exists(u) /\ users[u].verified => users'[u] # Gone

(* The deletion of an account archives the wallets whose balances were     *)
(* checked and no other, also if a wallet is created in between.           *)
ArchivedWereChecked == \A w \in DOMAIN wallets :
    ~wallets[w].archived /\ wallets'[w].archived =>
        \E r \in Requests : At(r, "erase") /\ w \in req[r].checked

(* Whatever the interleaving, the tokens that are accepted are those of    *)
(* standing credentials of standing accounts (is_session_valid).           *)
TokensAreCurrent == LiveTokensAreCurrent /\ DeletedIsOut

(* A one-time code works once, within its attempts, and what a verified    *)
(* account rests on is such a code (issue_otp and its redeemers).          *)
CodesProve == CodesAreSpent /\ MailboxProven

(* What takes an account or its wallets away acts on what it has checked,  *)
(* not on what became of it since (signup's roll-back, delete_account).    *)
RemovalIsSafe == [][VerifiedStays /\ ArchivedWereChecked]_vars
-----------------------------------------------------------------------------
(* The inductive invariant behind TokensAreCurrent and CodesProve.         *)

(* The kinds of request that come without a token.                         *)
Tokenless == {"signup", "login", "resend", "request_reset", "confirm_reset", "verify_email"}
Kinds == Tokenless \cup AccountKinds \cup
         {"logout", "refresh", "change_password", "revoke_others", "revoke_session",
          "email_change", "confirm_email", "create_wallet", "generate_key", "delete_key"}
Issuing == {"signup", "resend", "login", "request_reset", "email_change", "export_otp", "delete_otp"}
Redeeming == {"verify_email", "confirm_reset", "confirm_email", "export", "delete"}

Places == {"unstarted", "rehash", "open", "epoch", "deny", "continue", "revoke", "password",
           "apply", "commit", "vacant", "issue", "rollback", "claim", "consume", "read", "mark", "move",
           "funds", "erase", "insert", "key", "done"}

(* The kinds of request that come to a step.                               *)
KindsAt(pc) == CASE pc = "rehash" -> {"login"}
                 [] pc = "open" -> {"login", "verify_email"}
                 [] pc = "epoch" -> {"refresh"}
                 [] pc = "deny" -> {"refresh", "logout"}
                 [] pc = "continue" -> {"refresh", "change_password", "revoke_others"}
                 [] pc = "revoke" -> {"logout", "revoke_session"}
                 [] pc = "password" -> {"change_password", "email_change"} \cup AccountKinds
                 [] pc \in {"apply", "commit"} -> {"change_password", "revoke_others", "confirm_reset"}
                 [] pc = "vacant" -> {"email_change"}
                 [] pc = "issue" -> Issuing
                 [] pc = "rollback" -> {"signup"}
                 [] pc \in {"claim", "consume"} -> Redeeming
                 [] pc \in {"read", "mark"} -> {"verify_email"}
                 [] pc = "move" -> {"confirm_email"}
                 [] pc = "funds" -> {"delete_otp", "delete"}
                 [] pc = "erase" -> {"delete"}
                 [] pc = "insert" -> {"create_wallet"}
                 [] pc = "key" -> {"generate_key", "delete_key"}
                 [] OTHER -> {}

Addresses == Emails \cup {Tombstone, None}
CodeRows == [to : Addresses, bound : Addresses, tries : Nat, uses : Nat, gone : BOOLEAN]
SessionRows == [user : Users, live : BOOLEAN, basis : Nat, loose : BOOLEAN]
TokenRows == [user : Users, epoch : Nat, sid : Nat]
WalletRows == [owner : Users, archived : BOOLEAN]
Held == [kind : Kinds \cup {"none"}, pc : Places, u : Users \cup {NoUser}, t : Nat, n : Nat,
         p : Passwords \cup {None}, e : Addresses, epoch : Nat, seen : BOOLEAN, checked : SUBSET Nat]

TypeOK == /\ users \in [Users -> UserRows \cup {NoUser, Gone}]
          /\ sessions \in Seq(SessionRows)
          /\ tokens \in Seq(TokenRows)
          /\ codes \in [Users -> [Purposes -> Seq(CodeRows)]]
          /\ wallets \in Seq(WalletRows)
          /\ req \in [Requests -> Held]

(* A session that is alive, other than a loose one, has the epoch of its   *)
(* user for its basis.                                                     *)
Current(k) == k.sid # 0 /\ sessions[k.sid].live /\ ~sessions[k.sid].loose
                  => sessions[k.sid].basis = users[k.user].epoch

(* Tokens go to verified users only, whose rows are never rolled back.     *)
TokenOK(t) == LET k == tokens[t] IN
    /\ Exists(k.user) /\ users[k.user].verified /\ k.epoch <= users[k.user].epoch
    /\ k.sid # 0 => k.sid \in DOMAIN sessions /\ sessions[k.sid].user = k.user
    /\ is_session_valid(t) => Current(k)

Received(u, p, e) == \E i \in DOMAIN codes[u][p] : codes[u][p][i].uses > 0 /\ codes[u][p][i].to = e

UserOK(u) == Exists(u) =>
    /\ users[u].email = Tombstone => users[u].deleted
    /\ users[u].verified /\ ~users[u].deleted =>
          \E p \in {"signup", "email_change"} : Received(u, p, users[u].email)

(* The codes of a user who is not verified went to the address of the row. *)
CodeOK(u, p, c) ==
    /\ users[u] # NoUser
    /\ c.uses <= 1 /\ c.uses <= c.tries /\ c.tries <= MaxAttempts
    /\ p = "email_change" => c.to = c.bound
    /\ p = "signup" /\ Exists(u) => users[u].verified \/ c.to = users[u].email

(* A new epoch that is to be committed revokes every session of the user   *)
(* but the kept one and the loose ones.                                    *)
Found(q) == \A s \in DOMAIN sessions :
    sessions[s].user = q.u /\ sessions[s].live /\ ~sessions[s].loose => s = Kept(q) \/ s \in q.checked

(* What a request in flight may rely on, whatever other requests have done *)
(* since its last step.                                                    *)
ReqOK(q) == q.pc \notin {"unstarted", "done"} =>
    /\ q.u \in Users /\ q.kind \in KindsAt(q.pc)
    /\ q.kind \notin Tokenless => q.t \in DOMAIN tokens /\ tokens[q.t].user = q.u
    /\ q.kind \notin Tokenless \cup {"logout"} => Current(tokens[q.t])
    /\ users[q.u] = NoUser => q.kind = "verify_email" /\ q.pc = "claim"
    /\ q.pc = "claim" => q.kind # "verify_email" \/ q.epoch = 0
    /\ q.pc = "rehash" => q.p \in Passwords
    /\ q.pc = "commit" => Exists(q.u) /\ Found(q)
    /\ Exists(q.u) =>
          /\ q.epoch <= users[q.u].epoch
          /\ q.pc = "open" \/ (q.pc = "rehash" /\ q.seen) => users[q.u].verified
          /\ q.pc \in {"issue", "rehash"} /\ q.kind \in {"signup", "resend", "login"}
                => users[q.u].verified \/ q.e = users[q.u].email
          /\ q.pc \in {"read", "mark"}
                => users[q.u].verified \/ Received(q.u, "signup", users[q.u].email)
    /\ q.pc = "consume" => /\ q.n \in DOMAIN codes[q.u][PurposeOf(q.kind)]
                           /\ codes[q.u][PurposeOf(q.kind)][q.n].tries > 0
                           /\ q.kind = "confirm_email" =>
                                q.e \in Emails /\ codes[q.u]["email_change"][q.n].to = q.e
    /\ q.pc = "move" => q.e \in Emails /\ Received(q.u, "email_change", q.e)

AccountsInv ==
    /\ TypeOK
    /\ \A u \in Users : UserOK(u)
    /\ \A t \in DOMAIN tokens : TokenOK(t)
    /\ \A u \in Users, p \in Purposes : \A i \in DOMAIN codes[u][p] : CodeOK(u, p, codes[u][p][i])
    /\ \A r \in Requests : ReqOK(req[r])
=============================================================================
