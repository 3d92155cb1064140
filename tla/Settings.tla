------------------------------ MODULE Settings ------------------------------
(***************************************************************************)
(* What the server makes of its environment before it serves (bin/server:  *)
(* Config::from_env, mainnet_guard, check_config; the start-up self-test   *)
(* of octo_api and octo_crypto).  Secrets are short strings of small       *)
(* bytes; the variables no property tells apart are members of bad when    *)
(* they are missing or cannot be read.                                     *)
(*                                                                         *)
(* An environment is a record: bad, network, run_migrations, jwt, master,  *)
(* next (Unset when unset), resend, plain (the URLs that are not https),    *)
(* relative (PUBLIC_API_URL is no absolute URL), metrics ("off",           *)
(* "loopback" or "open") and token (the length of METRICS_TOKEN).  A       *)
(* database is a record: reachable, schema (the newest migration applied)  *)
(* and stored (the key that sealed the newest wallet, or Unset).            *)
(***************************************************************************)
EXTENDS Integers, Sequences, SequencesExt, FiniteSetsExt

CONSTANTS Unset,            \* of a key
          KeyLength,        \* MASTER_KEY_LEN
          JwtFloor,         \* the 16 bytes that every network asks for
          MainnetJwtLength, \* MAINNET_MIN_JWT_SECRET_LEN
          MinEntropy,       \* MIN_ENTROPY_BITS, in thousandths
          TokenLength,      \* MetricsConfig::MIN_TOKEN_LEN
          ByteRange,        \* the bytes are 0 .. ByteRange - 1
          Marker            \* the byte that stands for a placeholder's text

(* n log2 n, in thousandths: no secret here is longer than four bytes.     *)
NLogN(n) == <<0, 0, 2000, 4755, 8000>>[n + 1]

estimated_entropy_bits(bytes) ==
    NLogN(Len(bytes))
      - MapThenSumSet(LAMBDA b : NLogN(Cardinality({i \in DOMAIN bytes : bytes[i] = b})), Range(bytes))

is_placeholder(value) == Marker \in Range(value)

is_weak_key(key) ==
    LET step == (key[2] - key[1]) % ByteRange
        arithmetic == \A i \in 2 .. Len(key) : (key[i] - key[i - 1]) % ByteRange = step
    IN arithmetic \/ estimated_entropy_bits(key) < MinEntropy

(* mainnet_guard::check: the names of the variables in the error; all of   *)
(* them are collected.                                                     *)
guard(e) ==
    IF e.network # "public" THEN {}
    ELSE {v \in {"JWT_SECRET"} : \/ Len(e.jwt) < MainnetJwtLength
                                 \/ is_placeholder(e.jwt)
                                 \/ estimated_entropy_bits(e.jwt) < MinEntropy}
         \cup {v \in {"MASTER_KEY"} : is_weak_key(e.master)}
         \cup {v \in {"MASTER_KEY_NEXT"} : e.next # Unset /\ (is_weak_key(e.next) \/ e.next = e.master)}
         \cup {v \in {"RESEND_API_KEY"} : is_placeholder(e.resend)}
         \cup e.plain

(* take_key_from_env: an absent key is no error, a malformed one is.       *)
malformed_key(value) == value # Unset /\ Len(value) # KeyLength

(* MetricsConfig::from_env                                                 *)
metrics_refused(e) ==
    /\ e.metrics # "off"
    /\ \/ e.token \in 1 .. TokenLength - 1
       \/ e.metrics # "loopback" /\ e.token = 0

(* The variables in the order in which Config::from_env reads them.  An    *)
(* unreadable INGEST_INTERVAL_SECS, INGEST_PAGE_LIMIT, HORIZON_* or drain  *)
(* timeout falls back to its default and is not among them.                *)
Variables == <<"DATABASE_URL", "DB_POOL", "RATE_LIMIT_BACKEND", "NETWORK", "STELLAR_POLICY",
               "RESEND_API_KEY", "EMAIL_FROM_ADDRESS", "MASTER_KEY", "MASTER_KEY_NEXT",
               "AUDIT_CHAIN_KEY", "JWT_SECRET", "INGEST_LOCK_RETRY_SECS", "RUN_MIGRATIONS",
               "METRICS_BIND_ADDR">>

refused(e, name) ==
    CASE name = "MASTER_KEY"        -> e.master = Unset \/ malformed_key(e.master)
      [] name = "MASTER_KEY_NEXT"   -> malformed_key(e.next)
      [] name = "JWT_SECRET"        -> Len(e.jwt) < JwtFloor
      [] name = "METRICS_BIND_ADDR" -> name \in e.bad \/ metrics_refused(e)
      [] OTHER                      -> name \in e.bad

(* Config::from_env: the first variable that is refused, or "ok".          *)
from_env(e) == LET wrong == SelectSeq(Variables, LAMBDA v : refused(e, v))
               IN IF wrong = <<>> THEN "ok" ELSE wrong[1]

(* --check-config: the checks that failed; nothing is written.             *)
check_config(e, db, version) ==
    IF from_env(e) # "ok" THEN {"config"}
    ELSE {c \in {"network safety"} : guard(e) # {}}
         \cup {c \in {"database"} : ~db.reachable}
         \cup {c \in {"migrations"} : db.reachable /\ db.schema < version /\ ~e.run_migrations}

(* octo_crypto::self_test under a working random generator: a canary opens *)
(* under the key that sealed it, so only the key of zeros is refused.      *)
crypto_self_test(key) == \E i \in DOMAIN key : key[i] # 0

(* AppState::opening_keys                                                  *)
opening_keys(e) == {e.master, e.next} \ {Unset}

(* octo_api::self_test: every configured key, then the newest sealed row.  *)
self_test(e, db) ==
    CASE ~crypto_self_test(e.master)                   -> "MASTER_KEY"
      [] e.next # Unset /\ ~crypto_self_test(e.next)    -> "MASTER_KEY_NEXT"
      [] db.stored # Unset /\ db.stored \notin opening_keys(e) -> "stored row"
      [] OTHER                                         -> "ok"

(* Store::migrate: the migrator refuses a database that has migrations it  *)
(* does not know.                                                          *)
migrates(db, version) == db.schema <= version

(* The stage at which serve stops before it listens, or "listen".          *)
serve(e, db, version) ==
    CASE from_env(e) # "ok"                             -> "config"
      [] guard(e) # {}                                  -> "guard"
      [] ~db.reachable                                  -> "connect"
      [] e.run_migrations /\ ~migrates(db, version)     -> "migrate"
      [] e.relative                                     -> "public_api_url"
      [] self_test(e, db) # "ok"                        -> "self_test"
      [] OTHER                                          -> "listen"
=============================================================================
