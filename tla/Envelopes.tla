------------------------------ MODULE Envelopes ------------------------------
(***************************************************************************)
(* What the server checks of a transaction envelope before it relays it    *)
(* (api/src/submit_validation.rs), sponsors it (api/src/sponsor_validation *)
(* .rs, routes/sponsor.rs) or signs a fee bump around it                   *)
(* (wallet-core/src/signer.rs).                                            *)
(*                                                                         *)
(* An envelope is a record; XDR, base64, strkeys, hashes and signatures    *)
(* are external.  A source names an account, muxed or not.  A text that is *)
(* not an envelope has form "garbage"; trailing says that bytes follow the *)
(* envelope, which only the strict decoding refuses.                       *)
(***************************************************************************)
EXTENDS Integers, Sequences, FiniteSets, FiniteSetsExt, SequencesExt

CONSTANT MinBaseFee     \* MIN_BASE_FEE

ASSUME FeeAssumption == MinBaseFee \in Nat

(* The operation types the allowlists tell apart; Other stands for the     *)
(* rest of op_type_name's.                                                 *)
Sponsorable == << "Payment", "PathPaymentStrictSend", "PathPaymentStrictReceive" >>
OpTypes == ToSet(Sponsorable) \cup {"ChangeTrust", "Other"}
NoSource == <<"none", FALSE>>

source_matches(source, account) == source[1] = account

(***************************************************************************)
(* submit_validation.rs                                                    *)
(***************************************************************************)
(* On the wire 0 means that there is no upper bound; -1 stands for None.   *)
tx_max_time(env) == IF env.max_time = 0 THEN -1 ELSE env.max_time

NoSummary == [destination |-> "none", max_time |-> -1]

(* Variant: the source of an operation is not looked at.                   *)
op_refused_by_type(op, account) ==
    op.body \notin ToSet(Sponsorable) \cup {"ChangeTrust"}

op_refused(op, account) ==
    \/ op.source # NoSource /\ ~ source_matches(op.source, account)
    \/ op.body \notin ToSet(Sponsorable) \cup {"ChangeTrust"}

(* The PaymentSummary: the first payment, if there is one.                 *)
summary(env) ==
    LET i == SelectInSeq(env.ops, LAMBDA op : op.body = "Payment")
    IN IF i = 0 THEN NoSummary
       ELSE [destination |-> env.ops[i].destination, max_time |-> tx_max_time(env)]

validate_signed_xdr(env, account) ==
    /\ env.form = "Tx"
    /\ env.signed
    /\ source_matches(env.source, account)
    /\ \A i \in DOMAIN env.ops : ~ op_refused(env.ops[i], account)

(***************************************************************************)
(* sponsor_validation.rs                                                   *)
(***************************************************************************)

(* The stored list; <<>> is a refusal.                                     *)
normalize_wallet_allowlist(requested) ==
    IF requested = <<>> \/ \E i \in DOMAIN requested : requested[i] \notin ToSet(Sponsorable)
    THEN <<>>
    ELSE SelectSeq(Sponsorable, LAMBDA op : op \in ToSet(requested))

(* allowlist is <<>> when the wallet has set none.                         *)
op_sponsored(op, allowlist) ==
    /\ op.body \in ToSet(Sponsorable)
    /\ allowlist # <<>> => op.body \in ToSet(allowlist)

validate_inner_xdr(env, master, allowlist) ==
    /\ env.form = "Tx"
    /\ ~ source_matches(env.source, master)
    /\ \A i \in DOMAIN env.ops : op_sponsored(env.ops[i], allowlist)

(***************************************************************************)
(* signer.rs                                                               *)
(***************************************************************************)
decode_envelope_strict(env) == env.form # "garbage" /\ ~ env.trailing
parse_inner_v1(env) == decode_envelope_strict(env) /\ env.form = "Tx"

(* What the hash covers: the network and the transaction, not signatures.  *)
compute_inner_tx_hash(env, network) ==
    IF ~ parse_inner_v1(env) THEN <<>>
    ELSE <<network, env.source, env.max_time, env.ops>>

inner_operation_count(env) == IF parse_inner_v1(env) THEN Len(env.ops) ELSE -1

(* The outer envelope, or the error; opens says that the seed could be     *)
(* opened with the key.                                                    *)
sign_fee_bump(env, network, fee, opens) ==
    IF fee < MinBaseFee THEN "InvalidAmount"
    ELSE IF ~ parse_inner_v1(env) THEN "InvalidXdr"
    ELSE IF ~ opens THEN "Crypto" ELSE "ok"

(* The pure part of sponsor.rs::preflight: inner_sequence_number and the   *)
(* hash decode strictly.                                                   *)
preflight(env, master, allowlist, fee, cap) ==
    /\ fee >= MinBaseFee /\ fee <= cap
    /\ validate_inner_xdr(env, master, allowlist)
    /\ parse_inner_v1(env)
=============================================================================
