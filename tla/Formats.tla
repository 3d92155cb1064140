------------------------------- MODULE Formats -------------------------------
(***************************************************************************)
(* The pure parts of the server, one call at a time: work is the last call *)
(* made, with its inputs and what it returned.  The operators are those of *)
(* Money, Network, Texts, Envelopes, EvmCore and Settings; the properties  *)
(* compare what they return with what they are for.                        *)
(***************************************************************************)
EXTENDS Money, Network, Texts, Envelopes, EvmCore, Settings

VARIABLE work

NoWork == [kind |-> "none"]
Idling == work.kind = "none"

(* An amount in a Horizon answer, read by the worker and by the server.    *)
ReadAmount(text) ==
    Idling /\ work' = [kind |-> "amount", text |-> text, ingest |-> to_stroops(text),
                       api |-> parse_amount_stroops(text)]

Estimate(info, fees, req) ==
    Idling /\ work' = [kind |-> "estimate", info |-> info, fees |-> fees, req |-> req,
                       out |-> estimate(info, fees, req)]

(* The fee of a transaction, under the policy the server started with.     *)
ChooseFee(percentile, ceiling, window, answer) ==
    /\ Idling
    /\ signing_policy_ok(window, percentile, ceiling)
    /\ work' = [kind |-> "fee", ceiling |-> ceiling,
                out |-> recommended_fee_stroops(fee_stats_percentile(answer), MinFee, ceiling)]

(* A request through proxies, and the same one with an entry put first.    *)
Locate(peer, xff, extra, proxies) ==
    Idling /\ work' = [kind |-> "client", peer |-> peer, xff |-> xff, extra |-> extra, proxies |-> proxies,
                       out |-> client_ip(peer, xff, proxies),
                       more |-> client_ip(peer, <<extra>> \o xff, proxies)]

Classify(ip) ==
    Idling /\ work' = [kind |-> "class", ip |-> ip,
                       safe |-> is_safe_url([scheme |-> "https", host |-> ip,
                                             kind |-> IF Len(ip) = 4 THEN "v4" ELSE "v6"], FALSE)]

LogAnswer(raw, secrets) ==
    Idling /\ work' = [kind |-> "snippet", raw |-> raw, secrets |-> secrets,
                       out |-> response_snippet(raw, secrets)]

Name(text, reserved) ==
    Idling /\ work' = [kind |-> "name", reserved |-> reserved,
                       label |-> clean_text(text, NameMax), email |-> normalize_email(text),
                       username |-> validate_username(text, reserved),
                       slug |-> validate_slug(text, reserved)]

WriteRow(cells) == Idling /\ work' = [kind |-> "row", cells |-> cells, out |-> write_row(cells)]

Relay(env, account) ==
    Idling /\ work' = [kind |-> "relay", env |-> env, account |-> account,
                       ok |-> validate_signed_xdr(env, account), summary |-> summary(env)]

Sponsor(env, master, requested, fee, cap) ==
    LET list == normalize_wallet_allowlist(requested)
    IN Idling /\ work' = [kind |-> "sponsor", env |-> env, requested |-> requested,
                          list |-> list, again |-> normalize_wallet_allowlist(list),
                          ok |-> preflight(env, master, list, fee, cap),
                          signed |-> sign_fee_bump(env, "test", fee, TRUE),
                          hash |-> compute_inner_tx_hash(env, "test"),
                          ops |-> inner_operation_count(env)]

Checksum(hex) ==
    Idling /\ work' = [kind |-> "address", hex |-> hex, out |-> validate_address(hex),
                       own |-> validate_address(to_checksum_hex(Digits(hex)))]

Sign(r, s, v) ==
    Idling /\ work' = [kind |-> "signature", key |-> recovered(r, s, v), out |-> from_parts(r, s, v)]

(* An adapter of a chain is made, signs a digest, and its sealed key is    *)
(* opened for a chain.                                                     *)
Adapt(valid, index, chain, length, secret, other) ==
    LET sealed == [context |-> seal_context(chain), key |-> "k", length |-> 32, secret |-> secret]
    IN Idling /\ work' = [kind |-> "adapter", chain |-> chain, other |-> other, secret |-> secret,
                          made |-> from_mnemonic(valid, index, chain),
                          path |-> evm_derivation_path(index),
                          signed |-> sign_transaction_hash(length),
                          opened |-> unseal(sealed, other, "k")]

(* A history filter for the asset of a row, as the row shows it.           *)
FilterFor(code, folded, issuer, codes, accounts) ==
    Idling /\ work' = [kind |-> "filter", code |-> code, issuer |-> issuer,
                       out |-> parse_asset_filter([code |-> code, folded |-> folded, issuer |-> issuer],
                                                  codes, accounts)]

(* The settings of a deployment: checked, then served, on one database.    *)
Configure(e, db, version) ==
    Idling /\ work' = [kind |-> "settings", env |-> e, db |-> db, version |-> version,
                       read |-> from_env(e), problems |-> IF from_env(e) = "ok" THEN guard(e) ELSE {},
                       failed |-> check_config(e, db, version), stage |-> serve(e, db, version),
                       test |-> IF from_env(e) = "ok" THEN self_test(e, db) ELSE "none"]

-----------------------------------------------------------------------------
(* The amount the worker credits is exactly the one in the text, or none:  *)
(* to_stroops neither rounds, overflows nor takes a text that is no amount.*)
ExactAmount ==
    work.kind = "amount" =>
        LET text == trim(work.text)
            dots == {i \in DOMAIN text : text[i] = Dot}
            digits == SelectSeq(text, IsDigit)
            after == IF dots = {} THEN 0 ELSE Len(text) - Min(dots)
            plain == /\ Cardinality(dots) <= 1 /\ Len(digits) + Cardinality(dots) = Len(text)
                     /\ text # <<>> /\ Head(text) # Dot /\ after <= Decimals
            exact == Value(digits) * 10 ^ (Decimals - after)
        IN work.ingest = IF plain THEN checked(exact) ELSE None

(* The server's reader and the worker's give the same number for an amount *)
(* as Horizon writes it: any amount to_stroops takes, without blanks.      *)
ReadersAgree ==
    work.kind = "amount" /\ work.ingest # None /\ trim(work.text) = work.text
    => work.api = work.ingest

(* An estimate is achievable and no more than that: what it calls          *)
(* withdrawable can leave with the fee of every operation paid and the     *)
(* reserve kept, one stroop more cannot, and sufficient says the same of   *)
(* the amount asked about.                                                 *)
EstimateHolds ==
    work.kind = "estimate" /\ ~ work.out.refused =>
        LET req == work.req
            fee == Max({work.fees.base, work.fees.p90, 0}) * req.operations
            native == native_balance_stroops(work.info)
            left(amount) == native - fee - (IF req.asset = "native" THEN amount ELSE 0)
            held == IF req.asset = "native" THEN native ELSE balance_of(work.info, req.asset)
            can(amount) == amount <= held /\ left(amount) >= min_reserve_stroops(work.info)
        IN /\ work.out.max > 0 => can(work.out.max)
           /\ ~ can(work.out.max + 1)
           /\ req.amount # None => (work.out.sufficient = "yes" <=> can(req.amount))

(* Under any policy the server starts with, whatever Horizon answers, the  *)
(* fee bid is at least the network's minimum and at most the ceiling.      *)
FeeWithinPolicy == work.kind = "fee" => work.out \in MinFee .. work.ceiling

(* A client cannot choose freely which address it is counted under.  Once  *)
(* one of the entries the proxies appended is not a proxy's, an address it *)
(* puts before them changes nothing, and an entry there that is no address *)
(* has the header dropped: it is counted under the proxy's address.        *)
ClientIpStable ==
    work.kind = "client" /\ (\E i \in DOMAIN work.xff : ~ is_trusted_proxy(work.xff[i], work.proxies))
    => work.more = IF work.extra = Malformed THEN work.peer ELSE work.out

(* The address classes are the ranges the comments name: the octet and     *)
(* segment tests agree with CIDR membership, and an address that embeds an *)
(* IPv4 address is judged as that one.                                     *)
Block(net, prefix) == [net |-> net, prefix |-> prefix]
Ranges4 ==
    {Block(<<0, 0, 0, 0>>, 8), Block(<<127, 0, 0, 0>>, 8), Block(<<10, 0, 0, 0>>, 8),
     Block(<<172, 16, 0, 0>>, 12), Block(<<192, 168, 0, 0>>, 16), Block(<<169, 254, 0, 0>>, 16),
     Block(<<100, 64, 0, 0>>, 10), Block(<<255, 255, 255, 255>>, 32), Block(<<224, 0, 0, 0>>, 4)}
Six(first) == <<first, 0, 0, 0, 0, 0, 0, 0>>
Ranges6 == {Block(Six(65152), 10), Block(Six(64512), 7), Block(Six(65280), 8)}
Mapped == {Block(<<0, 0, 0, 0, 0, 65535, 0, 0>>, 96), Block(Six(0), 96)}
ClassesAgree ==
    work.kind = "class" =>
        LET ip == work.ip
            inner == IF Len(ip) = 8 THEN Embedded(ip) ELSE ip
        IN work.safe = IF Len(ip) = 4 \/ (\E b \in Mapped : ip_in_cidr(ip, b))
                       THEN ~ \E b \in Ranges4 : ip_in_cidr(inner, b)
                       ELSE ~ \E b \in Ranges6 : ip_in_cidr(ip, b)

(* What the delivery log keeps of an answer holds no part of a secret that *)
(* the body had whole, wherever the cut falls (a byte that begins a secret *)
(* at each of its places is gone), and ends at the end of a character.     *)
SnippetClean ==
    work.kind = "snippet" =>
        /\ Len(work.out) <= SnippetMax
        /\ work.out # <<>> => Last(work.out) # Lead
        /\ \A k \in DOMAIN work.secrets :
             LET s == work.secrets[k]
                 whole(i) == /\ i + Len(s) - 1 <= Len(work.raw)
                             /\ SubSeq(work.raw, i, i + Len(s) - 1) = s
             IN s # <<>> /\ (\A i \in DOMAIN work.raw : work.raw[i] = Head(s) => whole(i))
                => Head(s) \notin ToSet(work.out)

(* A text that was accepted is in its final form, so validating it again   *)
(* changes nothing; slugs and emails that are one to a reader are one to   *)
(* the database, and a reserved name is refused in every case.             *)
NamesCanonical ==
    work.kind = "name" =>
        /\ work.label.ok => clean_text(work.label.text, NameMax) = work.label
        /\ work.email.ok => normalize_email(work.email.text) = work.email
        /\ work.username.ok => /\ validate_username(work.username.text, work.reserved) = work.username
                              /\ fold(work.username.text) \notin work.reserved
        /\ work.slug.ok => /\ validate_slug(work.slug.text, work.reserved) = work.slug
                          /\ fold(trimmed(work.slug.text)) = work.slug.text

(* A reader of RFC 4180 finds in a row the cells that were written, each   *)
(* as text_cell neutralised it: quoting survives commas, quotes and line   *)
(* ends inside a cell.                                                     *)
Reader0 == [cells |-> <<>>, cell |-> <<>>, mode |-> "start"]
ReadChar(st, c) ==
    CASE st.mode = "start" /\ c = Quote -> [st EXCEPT !.mode = "quoted"]
      [] st.mode = "quoted" /\ c = Quote -> [st EXCEPT !.mode = "closed"]
      [] st.mode = "quoted" -> [st EXCEPT !.cell = Append(@, c)]
      [] st.mode = "closed" /\ c = Quote -> [st EXCEPT !.mode = "quoted", !.cell = Append(@, c)]
      [] c = Comma -> [cells |-> Append(st.cells, st.cell), cell |-> <<>>, mode |-> "start"]
      [] c = Return -> [cells |-> Append(st.cells, st.cell), cell |-> <<>>, mode |-> "end"]
      [] c = Newline /\ st.mode = "end" -> st
      [] OTHER -> [st EXCEPT !.mode = IF @ = "start" THEN "plain" ELSE @, !.cell = Append(@, c)]
CsvReadsBack ==
    work.kind = "row" =>
        LET end == FoldLeft(ReadChar, Reader0, work.out)
        IN /\ end.cells = [i \in DOMAIN work.cells |-> neutralised(work.cells[i])]
           /\ end.cell = <<>>

(* An envelope that is relayed spends from the wallet alone, muxed or not, *)
(* in every operation, and the first payment is the one that is recorded.  *)
Spender(env, op) == IF op.source = NoSource THEN env.source[1] ELSE op.source[1]
RelaySpendsOwn ==
    work.kind = "relay" /\ work.ok =>
        /\ \A i \in DOMAIN work.env.ops : Spender(work.env, work.env.ops[i]) = work.account
        /\ \A i \in DOMAIN work.env.ops :
             /\ work.env.ops[i].body = "Payment"
             /\ \A k \in 1 .. i - 1 : work.env.ops[k].body # "Payment"
             => work.summary.destination = work.env.ops[i].destination

(* What passes the sponsor's checks can be signed and charged: its fee     *)
(* bump fails for no reason of the envelope's, its hash and operation      *)
(* count exist, and every operation is one the wallet's list allows.       *)
SponsoredSignable ==
    work.kind = "sponsor" /\ work.ok =>
        /\ work.signed = "ok"
        /\ work.hash # <<>>
        /\ work.ops = Len(work.env.ops)
        /\ work.list # <<>> =>
             \A i \in DOMAIN work.env.ops : work.env.ops[i].body \in ToSet(work.requested)

(* A wallet's allow-list is stored in one form: without repetitions, in    *)
(* the global list's order, whatever order it was sent in.                 *)
AllowlistCanonical ==
    work.kind = "sponsor" /\ work.list # <<>> =>
        /\ work.again = work.list
        /\ ToSet(work.list) = ToSet(work.requested)
        /\ \A i, k \in DOMAIN work.list :
             i < k => LET at(op) == SelectInSeq(Sponsorable, LAMBDA o : o = op)
                      IN at(work.list[i]) < at(work.list[k])

(* The checksummed form of an address is accepted, and of the other mixed  *)
(* spellings none is, so one wrong letter is noticed as EIP-55 intends.    *)
ChecksumExact ==
    work.kind = "address" =>
        LET hexed == \A i \in DOMAIN work.hex : IsHex(work.hex[i])
        IN /\ hexed /\ Len(work.hex) = AddressLength => work.own = "ok"
           /\ work.out = "ok" /\ has_upper(work.hex) /\ has_lower(work.hex)
              => \A i \in DOMAIN work.hex : work.hex[i][2] =
                                            (work.hex[i][1] >= 10 /\ HashBit(Digits(work.hex), i))

(* A signature the signer makes is one the verifier takes, names the       *)
(* signer's key, and is the only one of its two forms that is taken.       *)
SignatureCanonical ==
    work.kind = "signature" =>
        LET p == work.out
        IN /\ accepts(p)
           /\ recover_address(p) = work.key
           /\ ~ accepts([p EXCEPT !.s = Order - @, !.v = 1 - @])

(* A key that was sealed for a chain opens for that chain and for no       *)
(* other, and only as the scalar that was sealed.                          *)
SealedForItsChain ==
    work.kind = "adapter" =>
        /\ work.opened = "ok" => work.other = work.chain
        /\ work.other = work.chain => work.opened = from_bytes(work.secret)

(* The filter made from a row's own asset finds the row and, where the row *)
(* has an issuer, no asset but that one.                                   *)
AssetFilterFinds ==
    work.kind = "filter" /\ work.out.ok =>
        /\ work.out.code = work.code \/ (work.issuer = "" /\ work.out.code = "native")
        /\ work.issuer # "" => work.out.issuer = work.issuer

(* Settings that --check-config accepts take the server past its own       *)
(* checks, the connection and the migrations, on a database that holds no  *)
(* newer migrations; on mainnet no key of theirs is degenerate either, so  *)
(* only a stored row that neither key opens stops the self-test.           *)
CheckPredictsServe ==
    work.kind = "settings" /\ work.failed = {} /\ migrates(work.db, work.version) =>
        /\ work.stage \in {"public_api_url", "self_test", "listen"}
        /\ work.env.network = "public" => work.test \in {"ok", "stored row"}

(* The secrets that a generator of random bytes may give.                  *)
Strong == {k \in [1 .. KeyLength -> 0 .. ByteRange - 1] : ~is_weak_key(k)}

(* The guard's one error names every variable that must change: with those *)
(* replaced, and no other, the same settings can pass (mainnet_guard.rs:   *)
(* "an operator fixes the whole config in one pass").                      *)
FixedInOnePass ==
    work.kind = "settings" /\ work.read = "ok" =>
        LET e == work.env
            Fixed(k, n) == [e EXCEPT
                !.jwt    = IF "JWT_SECRET" \in work.problems THEN k ELSE @,
                !.master = IF "MASTER_KEY" \in work.problems THEN k ELSE @,
                !.next   = IF "MASTER_KEY_NEXT" \in work.problems THEN n ELSE @,
                !.resend = IF "RESEND_API_KEY" \in work.problems THEN k ELSE @,
                !.plain  = @ \ work.problems]
        IN \E k, n \in Strong : guard(Fixed(k, n)) = {}

(* Money is read, estimated and bid exactly: what the functions of Money   *)
(* return for any text, reserve, fee and policy of the instance.           *)
AmountsRight == ExactAmount /\ ReadersAgree /\ EstimateHolds /\ FeeWithinPolicy

(* The other pure functions return what their callers take them to: the    *)
(* addresses and texts of requests, the rows of a CSV file, envelopes, EVM *)
(* keys and signatures, and the settings the process starts with.          *)
FormatsRight ==
    /\ ClientIpStable /\ ClassesAgree /\ SnippetClean
    /\ NamesCanonical /\ CsvReadsBack /\ AssetFilterFinds
    /\ RelaySpendsOwn /\ SponsoredSignable /\ AllowlistCanonical
    /\ ChecksumExact /\ SignatureCanonical /\ SealedForItsChain
    /\ CheckPredictsServe /\ FixedInOnePass
=============================================================================
