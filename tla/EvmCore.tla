------------------------------- MODULE EvmCore -------------------------------
(***************************************************************************)
(* The address and signature forms of crates/evm-core: EIP-55 checksums,   *)
(* low-s signatures, scalars and derivation indices.                       *)
(*                                                                         *)
(* A text is a sequence of characters <<value, upper>>: a hex digit, its   *)
(* case (FALSE for 0..9), or Junk.  An address has AddressLength digits.   *)
(* The curve's order is Order; keccak-256 and ECDSA are external: a digit  *)
(* of the hash is 8 or more as HashBit says, and a public key is recovered *)
(* from the digest and the point that r and the parity of s name.          *)
(***************************************************************************)
EXTENDS Integers, Sequences

CONSTANTS
    AddressLength,          \* ADDRESS_HEX_LENGTH
    Order,                  \* the order n of secp256k1
    HashBit(_, _),          \* the i-th nibble of a lowercase text's hash is >= 8
    MaxHardened             \* 2^31, the first index ChildNumber refuses

ASSUME EvmAssumption == AddressLength \in Nat /\ Order \in Nat /\ MaxHardened \in Nat

Junk == <<16, FALSE>>
IsHex(ch) == ch[1] \in 0 .. 15
Digits(hex) == [i \in DOMAIN hex |-> hex[i][1]]

to_checksum_hex(digits) ==
    [i \in DOMAIN digits |-> <<digits[i], digits[i] >= 10 /\ HashBit(digits, i)>>]

has_upper(hex) == \E i \in DOMAIN hex : hex[i][1] >= 10 /\ hex[i][2]
has_lower(hex) == \E i \in DOMAIN hex : hex[i][1] >= 10 /\ ~ hex[i][2]

(* The result of validate_address; the address itself is Digits(hex).      *)
validate_address(hex) ==
    IF Len(hex) # AddressLength THEN "InvalidLength"
    ELSE IF \E i \in DOMAIN hex : ~ IsHex(hex[i]) THEN "InvalidCharacter"
    ELSE IF has_upper(hex) /\ has_lower(hex) /\ hex # to_checksum_hex(Digits(hex))
    THEN "InvalidChecksum"
    ELSE "ok"

(***************************************************************************)
(* Signatures.                                                             *)
(***************************************************************************)
Scalars == 1 .. Order - 1
High(s) == 2 * s > Order

(* EvmSigner::from_bytes and signing_key_from_bytes                        *)
from_bytes(secret) == IF secret \in Scalars THEN "ok" ELSE "InvalidSecretKey"

(* What recovery finds: the pair (s, v) and its mirror (n - s, 1 - v) name *)
(* the same key.                                                           *)
recovered(r, s, v) == <<r, IF High(s) THEN Order - s ELSE s, IF High(s) THEN 1 - v ELSE v>>

(* SignatureParts::from_parts, of what the curve library signs.            *)
from_parts(r, s, v) ==
    IF High(s) THEN [r |-> r, s |-> Order - s, v |-> 1 - v] ELSE [r |-> r, s |-> s, v |-> v]

(* SignatureParts::from_bytes accepts                                      *)
accepts(p) == p.v \in 0 .. 1 /\ p.r \in Scalars /\ p.s \in Scalars /\ ~ High(p.s)

(* recover_address of the 65-byte form                                     *)
recover_address(p) == IF accepts(p) THEN recovered(p.r, p.s, p.v) ELSE <<>>

(***************************************************************************)
(* EvmAdapter.                                                             *)
(***************************************************************************)
(* m/44'/60'/0'/0/index, as pairs of number and hardened.                  *)
evm_derivation_path(index) ==
    << <<44, TRUE>>, <<60, TRUE>>, <<0, TRUE>>, <<0, FALSE>>, <<index, FALSE>> >>

from_mnemonic(valid, index, chain_id) ==
    IF chain_id = 0 THEN "InvalidChainId"
    ELSE IF index >= MaxHardened THEN "panic"
    ELSE IF ~ valid THEN "InvalidMnemonic" ELSE "ok"

sign_transaction_hash(length) == IF length # 32 THEN "InvalidDigestLength" ELSE "ok"

(* EvmSigner::seal and unseal: the context names the chain.                *)
seal_context(chain_id) == <<"octo:eip155", chain_id>>
unseal(sealed, chain_id, key) ==
    IF sealed.context # seal_context(chain_id) \/ sealed.key # key THEN "UnsealingFailed"
    ELSE IF sealed.length # 32 THEN "InvalidSecretKey"
    ELSE from_bytes(sealed.secret)
=============================================================================
