-------------------------------- MODULE Money --------------------------------
(***************************************************************************)
(* Amounts, reserves and fees: the two readers of Horizon's decimal texts  *)
(* (ingest/src/amount.rs and parse_amount_stroops of api/src/horizon.rs),  *)
(* AccountInfo, the withdrawal estimate, and the fee policy.               *)
(*                                                                         *)
(* A text is a sequence of characters: 0 .. 9 are the digits.  The seven   *)
(* decimals of an amount are Decimals, i64 is -MaxInt-1 .. MaxInt and the  *)
(* base reserve is BaseReserve, all small in an instance.                  *)
(***************************************************************************)
EXTENDS Integers, Sequences, FiniteSetsExt, SequencesExt

CONSTANTS
    Decimals, MaxInt, BaseReserve,  \* DECIMALS, i64::MAX, BASE_RESERVE_STROOPS
    MaxOperations,                  \* MAX_OPERATIONS of an estimate
    MinFee, MaxWindow,              \* the bounds of SigningPolicy
    None                            \* Option::None, and a refusal

ASSUME MoneyAssumption ==
    /\ {Decimals, MaxInt, BaseReserve, MaxOperations, MinFee, MaxWindow} \subseteq Nat \ {0}

Dot == 10
Minus == 11
Blank == 12
Plus == 13
Letter == 14

Unit == 10 ^ Decimals
IsDigit(c) == c \in 0 .. 9
Fits(n) == - MaxInt - 1 <= n /\ n <= MaxInt
Wrap(n) == ((n + MaxInt + 1) % (2 * MaxInt + 2)) - MaxInt - 1
Saturate(n) == Min({Max({n, - MaxInt - 1}), MaxInt})

(* The number a sequence of digits stands for.                             *)
Value(digits) == FoldLeft(LAMBDA n, d : 10 * n + d, 0, digits)
Pad(digits) == digits \o [i \in 1 .. Decimals - Len(digits) |-> 0]

(* str::parse::<i64>: an optional sign, digits, and no overflow.           *)
parse_i64(text) ==
    LET negative == text # <<>> /\ Head(text) = Minus
        digits == IF text # <<>> /\ Head(text) \in {Minus, Plus} THEN Tail(text) ELSE text
        n == IF negative THEN - Value(digits) ELSE Value(digits)
    IN IF digits = <<>> \/ (\E i \in DOMAIN digits : ~ IsDigit(digits[i])) THEN None
       ELSE IF Fits(n) THEN n ELSE None

trim(text) ==
    LET solid == {i \in DOMAIN text : text[i] # Blank}
    IN IF solid = {} THEN <<>> ELSE SubSeq(text, Min(solid), Max(solid))

(* split_once('.'), the whole text and nothing when there is no dot.       *)
split_once(text) ==
    LET dot == SelectInSeq(text, LAMBDA c : c = Dot)
    IN IF dot = 0 THEN <<text, <<>>>>
       ELSE <<SubSeq(text, 1, dot - 1), SubSeq(text, dot + 1, Len(text))>>

checked(n) == IF Fits(n) THEN n ELSE None

(* amount.rs::to_stroops                                                   *)
to_stroops(amount) ==
    LET text == trim(amount)
        parts == split_once(text)
        int_val == parse_i64(parts[1])
    IN IF \/ text = <<>> \/ Head(text) = Minus
          \/ \E p \in 1 .. 2 : \E i \in DOMAIN parts[p] : ~ IsDigit(parts[p][i])
          \/ Len(parts[2]) > Decimals
          \/ int_val = None
       THEN None
       ELSE checked(int_val * Unit + Value(Pad(parts[2])))

(* horizon.rs::parse_amount_stroops; the build's arithmetic wraps.         *)
parse_amount_stroops(text) ==
    LET parts == split_once(text)
        whole == parse_i64(parts[1])
        frac == parse_i64(SubSeq(Pad(parts[2]), 1, Decimals))
    IN IF whole = None \/ frac = None THEN None ELSE Wrap(whole * Unit + frac)

(***************************************************************************)
(* AccountInfo: balances are records [asset, amount], amount a text.       *)
(***************************************************************************)
min_reserve_stroops(info) ==
    BaseReserve * Max({0, 2 + info.subentries + info.sponsoring - info.sponsored})

(* The first balance of the asset.                                         *)
balance_of(info, asset) ==
    LET i == SelectInSeq(info.balances, LAMBDA b : b.asset = asset)
    IN IF i = 0 THEN None ELSE parse_amount_stroops(info.balances[i].amount)

native_balance_stroops(info) ==
    LET n == balance_of(info, "native") IN IF n = None THEN 0 ELSE n

asset_balance_stroops(info, asset) == balance_of(info, asset)

(***************************************************************************)
(* withdrawal_estimate.rs::estimate.  A request asks for "native" or a     *)
(* credit asset, an amount or None, and a number of operations.            *)
(***************************************************************************)
Refused == [refused |-> TRUE, fee |-> 0, covered |-> FALSE, max |-> 0, sufficient |-> None]

(* Variant: the fee of one operation is set aside, whatever their number.  *)
estimate_single_fee(info, fees, req) ==
    LET recommended == Max({fees.base, 0, fees.p90})
        native_spendable == Saturate(native_balance_stroops(info) - min_reserve_stroops(info))
        covered == native_spendable >= recommended
        balance == asset_balance_stroops(info, req.asset)
        most == IF req.asset = "native" THEN Max({0, Saturate(native_spendable - recommended)})
                ELSE IF covered THEN Max({0, balance}) ELSE 0
    IN IF \/ req.operations \notin 1 .. MaxOperations
          \/ req.amount # None /\ req.amount <= 0
          \/ req.asset # "native" /\ balance = None
       THEN Refused
       ELSE [refused |-> FALSE, fee |-> recommended, covered |-> covered, max |-> most,
             sufficient |-> IF req.amount = None THEN None
                            ELSE IF covered /\ req.amount <= most THEN "yes" ELSE "no"]

estimate(info, fees, req) ==
    LET recommended == Max({fees.base, 0, fees.p90})
        fee == Saturate(recommended * req.operations)
        native_spendable == Saturate(native_balance_stroops(info) - min_reserve_stroops(info))
        covered == native_spendable >= fee
        balance == asset_balance_stroops(info, req.asset)
        most == IF req.asset = "native" THEN Max({0, Saturate(native_spendable - fee)})
                ELSE IF covered THEN Max({0, balance}) ELSE 0
    IN IF \/ req.operations \notin 1 .. MaxOperations
          \/ req.amount # None /\ req.amount <= 0
          \/ req.asset # "native" /\ balance = None
       THEN Refused
       ELSE [refused |-> FALSE, fee |-> fee, covered |-> covered, max |-> most,
             sufficient |-> IF req.amount = None THEN None
                            ELSE IF covered /\ req.amount <= most THEN "yes" ELSE "no"]

(***************************************************************************)
(* The fee of a transaction the server builds.                             *)
(***************************************************************************)
Percentiles == {10, 20, 30, 40, 50, 60, 70, 80, 90, 95, 99}

(* SigningPolicy::new                                                      *)
signing_policy_ok(window, percentile, ceiling) ==
    /\ window \in 1 .. MaxWindow
    /\ percentile \in Percentiles
    /\ ceiling >= MinFee

(* fee_stats_percentile: answers is what Horizon's fee_charged holds under *)
(* the key; "unreachable" stands for a timeout, an error or a bad body.    *)
fee_stats_percentile(answer) ==
    IF answer.kind \in {"unreachable", "missing", "object"} THEN None
    ELSE IF answer.kind = "text" THEN parse_i64(answer.text)
    ELSE answer.number

recommended_fee_stroops(stat, base_fee, ceiling) ==
    LET fee == IF stat = None THEN base_fee ELSE IF stat > 0 THEN stat ELSE base_fee
    IN Min({Max({fee, base_fee}), ceiling})

=============================================================================
