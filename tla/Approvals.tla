------------------------------ MODULE Approvals ------------------------------
(***************************************************************************)
(* Who may send what from one wallet (api/src/routes/submit.rs and         *)
(* whitelist.rs): withdrawals confirmed with an emailed code that is bound *)
(* to the signed transaction, withdrawals submitted with a key, and the    *)
(* allow-list of destinations that both pass, while its owner edits it.    *)
(* What happens to a transaction after it is posted is in Withdrawals.     *)
(*                                                                         *)
(* An address is a pair <<account, muxed>>: the two forms of an account    *)
(* are different texts.  A transaction is its operations, each a body and  *)
(* the address it pays.                                                    *)
(***************************************************************************)
EXTENDS Naturals, Sequences, FiniteSets

CONSTANTS Handlers,         \* requests in flight
          Transfers,        \* signed transactions
          Destinations,     \* addresses an owner may list
          MaxCodes,         \* codes sent (a bound)
          CodeAttempts      \* MAX_ATTEMPTS of a code

ASSUME ApprovalsAssumption == CodeAttempts \in Nat /\ MaxCodes \in Nat

VARIABLES enabled, entries, \* the wallet's allow-list: the switch, the addresses stored
          archived,
          codes,            \* withdrawal codes, oldest first
          owner,            \* "idle", or "enabling" between put_config's read and its write
          request

approvalvars == <<enabled, entries, archived, codes, owner, request>>

to_base_account(address) == <<address[1], FALSE>>

(* validate_signed_xdr sums up the first Payment, if there is one; path    *)
(* payments are allowed and not looked at.                                 *)
Payments(tx) == {i \in DOMAIN tx : tx[i].body = "Payment"}
HasPayment(tx) == Payments(tx) # {}
destination(tx) == tx[CHOOSE i \in Payments(tx) : \A j \in Payments(tx) : i <= j].to

(* The switch, and whether the account was listed, in either form.         *)
Standing(on, list, address) == <<on, \E e \in list : e[1] = address[1]>>

(* pc of a handler: "claim" and "consume" (the code), "lock", "config",    *)
(* "listed" (the relay's checks), "post" and "refused".  code is the code  *)
(* typed, 0 for a wrong one or none; seen are the values Standing had      *)
(* since the relay began.                                                  *)
Quiet == [pc |-> "idle", tx |-> <<>>, code |-> 0, seen |-> {}]

ApprovalsInit ==
    /\ enabled = FALSE /\ entries = {} /\ archived = FALSE
    /\ codes = <<>> /\ owner = "idle"
    /\ request = [h \in Handlers |-> Quiet]

InRelay(r) == r.pc \in {"config", "listed", "post"}

(* A handler moves on, and forgets what it has no more use for.            *)
Moved(r, pc) ==
    IF pc = "idle" THEN Quiet
    ELSE [pc |-> pc, tx |-> r.tx, code |-> IF pc = "consume" THEN r.code ELSE 0, seen |-> r.seen]

Goto(h, pc) == request' = [request EXCEPT ![h] = Moved(request[h], pc)]

Seeing(r, standing) == [pc |-> r.pc, tx |-> r.tx, code |-> r.code, seen |-> r.seen \cup {standing}]

(* The owner's list becomes (on, list): what relays see from now on.       *)
Listed(on, list) ==
    /\ enabled' = on /\ entries' = list
    /\ request' = [h \in Handlers |->
                     IF request[h].pc \in {"config", "listed"}
                     THEN Seeing(request[h], Standing(on, list, destination(request[h].tx)))
                     ELSE request[h]]

Tried(c, attempts) == [tx |-> c.tx, attempts |-> attempts, consumed |-> c.consumed, spent |-> c.spent]
Redeemed(c, tx) == [tx |-> c.tx, attempts |-> c.attempts, consumed |-> TRUE,
                    spent |-> Append(c.spent, tx)]

(* POST withdraw/request-otp: create_otp; the code goes out by email.      *)
withdraw_request_otp(tx) ==
    /\ ~archived /\ Len(codes) < MaxCodes
    /\ codes' = Append(codes, [tx |-> tx, attempts |-> 0, consumed |-> FALSE, spent |-> <<>>])
    /\ UNCHANGED <<enabled, entries, archived, owner, request>>

(* POST withdraw/confirm and POST submit-signed, up to their first write.  *)
withdraw_confirm(h, tx, code) ==
    /\ request[h].pc = "idle" /\ ~archived
    /\ request' = [request EXCEPT ![h] = [pc |-> "claim", tx |-> tx, code |-> code, seen |-> {}]]
    /\ UNCHANGED <<enabled, entries, archived, codes, owner>>

submit_signed(h, tx) ==
    /\ request[h].pc = "idle" /\ ~archived
    /\ request' = [request EXCEPT ![h] = [pc |-> "lock", tx |-> tx, code |-> 0, seen |-> {}]]
    /\ UNCHANGED <<enabled, entries, archived, codes, owner>>

(* verify_and_consume_otp, first statement: an attempt is claimed on the   *)
(* newest code; then the code and its transaction are compared.            *)
claim(h) ==
    LET n == Len(codes)
        live == n > 0 /\ ~codes[n].consumed /\ codes[n].attempts < CodeAttempts
        fits == live /\ request[h].code = n /\ codes[n].tx = request[h].tx
    IN /\ request[h].pc = "claim"
       /\ codes' = IF live THEN [codes EXCEPT ![n] = Tried(codes[n], codes[n].attempts + 1)] ELSE codes
       /\ Goto(h, IF fits THEN "consume" ELSE "idle")
       /\ UNCHANGED <<enabled, entries, archived, owner>>

consume_always(h) ==
    LET n == request[h].code
    IN /\ request[h].pc = "consume"
       /\ codes' = [codes EXCEPT ![n] = Redeemed(codes[n], request[h].tx)]
       /\ Goto(h, "lock")
       /\ UNCHANGED <<enabled, entries, archived, owner>>

(* Its second statement: the conditional update that spends the code.      *)
consume(h) ==
    LET n == request[h].code
    IN /\ request[h].pc = "consume"
       /\ codes' = IF codes[n].consumed THEN codes
                   ELSE [codes EXCEPT ![n] = Redeemed(codes[n], request[h].tx)]
       /\ Goto(h, IF codes[n].consumed THEN "idle" ELSE "lock")
       /\ UNCHANGED <<enabled, entries, archived, owner>>

(* relay_signed_transaction: the account's lock, held until the end.  A    *)
(* transaction without a Payment is posted with no look at the list.       *)
sequence_lock(h) ==
    /\ request[h].pc = "lock"
    /\ \A g \in Handlers : ~InRelay(request[g])
    /\ request' = [request EXCEPT ![h] = IF ~HasPayment(request[h].tx) THEN Moved(request[h], "post")
                     ELSE Seeing(Moved(request[h], "config"),
                                 Standing(enabled, entries, destination(request[h].tx)))]
    /\ UNCHANGED <<enabled, entries, archived, codes, owner>>

get_withdrawal_allowlist_config(h) ==
    /\ request[h].pc = "config"
    /\ Goto(h, IF enabled THEN "listed" ELSE "post")
    /\ UNCHANGED <<enabled, entries, archived, codes, owner>>

is_address_whitelisted(h) ==
    /\ request[h].pc = "listed"
    /\ Goto(h, IF to_base_account(destination(request[h].tx)) \in entries THEN "post" ELSE "refused")
    /\ UNCHANGED <<enabled, entries, archived, codes, owner>>

(* The transaction goes to Horizon, or the refusal to the caller.          *)
Reply(h) ==
    /\ request[h].pc \in {"post", "refused"}
    /\ Goto(h, "idle")
    /\ UNCHANGED <<enabled, entries, archived, codes, owner>>

(* PUT whitelist/config: enabling reads the list first.                    *)
put_config_reads ==
    /\ owner = "idle" /\ entries # {}
    /\ owner' = "enabling"
    /\ UNCHANGED <<enabled, entries, archived, codes, request>>

put_config(on) ==
    /\ on => owner = "enabling"
    /\ owner' = IF on THEN "idle" ELSE owner
    /\ Listed(on, entries)
    /\ UNCHANGED <<archived, codes>>

add_address_verbatim(address) ==
    /\ address \notin entries
    /\ Listed(enabled, entries \cup {address})
    /\ UNCHANGED <<archived, codes, owner>>

(* POST whitelist: the base account is stored; a second entry conflicts.   *)
add_address(address) ==
    /\ to_base_account(address) \notin entries
    /\ Listed(enabled, entries \cup {to_base_account(address)})
    /\ UNCHANGED <<archived, codes, owner>>

remove_address(address) ==
    /\ address \in entries
    /\ Listed(enabled, entries \ {address})
    /\ UNCHANGED <<archived, codes, owner>>

Archive ==
    /\ ~archived /\ archived' = TRUE
    /\ UNCHANGED <<enabled, entries, codes, owner, request>>

(* A code that expired is one without attempts left: only claim looks.     *)
Expire_code(n) ==
    /\ codes[n].attempts < CodeAttempts
    /\ codes' = [codes EXCEPT ![n] = Tried(codes[n], CodeAttempts)]
    /\ UNCHANGED <<enabled, entries, archived, owner, request>>

ApprovalsNext ==
    \/ \E tx \in Transfers : withdraw_request_otp(tx)
    \/ \E h \in Handlers :
         \/ \E tx \in Transfers : submit_signed(h, tx) \/ \E c \in 0 .. Len(codes) : withdraw_confirm(h, tx, c)
         \/ claim(h) \/ consume(h) \/ sequence_lock(h)
         \/ get_withdrawal_allowlist_config(h) \/ is_address_whitelisted(h) \/ Reply(h)
    \/ put_config_reads \/ \E on \in BOOLEAN : put_config(on)
    \/ \E a \in Destinations : add_address(a) \/ remove_address(a)
    \/ Archive
    \/ \E n \in DOMAIN codes : Expire_code(n)

ApprovalsSpec == ApprovalsInit /\ [][ApprovalsNext]_approvalvars

-----------------------------------------------------------------------------
(* A code lets one request through, for the transaction it was sent for,   *)
(* however confirmations of it run side by side (verify_and_consume_otp).  *)
CodeSpentOnce ==
    \A n \in DOMAIN codes : /\ Len(codes[n].spent) <= 1
                            /\ \A i \in DOMAIN codes[n].spent : codes[n].spent[i] = codes[n].tx

(* A relay posts a transaction that has a Payment only if, at some moment  *)
(* since it took the account's lock, the list was off or had the address   *)
(* that the first Payment pays, in whichever form, and refuses one only if *)
(* the list was on, and the address was not on it, since then              *)
(* (relay_signed_transaction, which reads the switch and then the list     *)
(* while their owner edits them).  Path payments and further Payments go   *)
(* by unchecked: see the README.                                           *)
ListDecides ==
    \A h \in Handlers :
        LET r == request[h]
        IN /\ r.pc = "post" /\ HasPayment(r.tx) => \E s \in r.seen : ~s[1] \/ s[2]
           /\ r.pc = "refused" => (\E s \in r.seen : s[1]) /\ (\E s \in r.seen : ~s[2])

(***************************************************************************)
(* The inductive invariant behind them.                                    *)
(***************************************************************************)
Codes == [tx : Transfers, attempts : Nat, consumed : BOOLEAN, spent : Seq(Transfers)]
Pcs == {"idle", "claim", "consume", "lock", "config", "listed", "post", "refused"}

(* An unspent code is unconsumed or about to be; a handler about to spend  *)
(* one has its transaction.                                                *)
CodeOK(c) == c.spent = <<>> \/ (c.consumed /\ c.spent = <<c.tx>>)

(* A relay has seen the list as it is, and one that looks for its          *)
(* destination has seen it switched on.                                    *)
RequestOK(r) ==
    /\ r.pc \in Pcs
    /\ r.pc \in {"claim", "consume", "lock", "config", "listed"} => r.tx \in Transfers
    /\ r.pc = "consume" => r.code \in DOMAIN codes /\ codes[r.code].tx = r.tx
    /\ r.pc \in {"config", "listed"} => Standing(enabled, entries, destination(r.tx)) \in r.seen
    /\ r.pc \in {"listed", "refused"} => \E s \in r.seen : s[1]
    /\ r.pc = "post" /\ HasPayment(r.tx) => \E s \in r.seen : ~s[1] \/ s[2]
    /\ r.pc = "refused" => \E s \in r.seen : ~s[2]

ApprovalsInv ==
    /\ codes \in Seq(Codes) /\ enabled \in BOOLEAN
    /\ \A n \in DOMAIN codes : CodeOK(codes[n])
    /\ \A e \in entries : e = <<e[1], FALSE>>
    /\ DOMAIN request = Handlers /\ \A h \in Handlers : RequestOK(request[h])
=============================================================================
