------------------------------- MODULE Network -------------------------------
(***************************************************************************)
(* Which addresses the server trusts, calls and reports: client_ip of      *)
(* api/src/rate_limit.rs, the address classes of webhooks/src/lib.rs, and  *)
(* what it keeps of an endpoint's answer.                                  *)
(*                                                                         *)
(* An IPv4 address is four octets and an IPv6 address eight segments.  The *)
(* parsing of addresses and URLs is external: a forwarded entry or a CIDR  *)
(* that does not parse is Malformed.                                       *)
(***************************************************************************)
EXTENDS Integers, Sequences, FiniteSetsExt, SequencesExt

CONSTANT SnippetMax         \* RESPONSE_SNIPPET_MAX_BYTES

ASSUME SnippetAssumption == SnippetMax \in Nat

Malformed == <<>>
Width(ip) == IF Len(ip) = 4 THEN 8 ELSE 16

(* The i-th bit of an address, 0 the most significant.                     *)
Bit(ip, i) == (ip[1 + i \div Width(ip)] \div 2 ^ (Width(ip) - 1 - (i % Width(ip)))) % 2

(* A CIDR is [net, prefix]; prefix -1 is a single address, -2 a prefix     *)
(* that does not parse.                                                    *)
ip_in_cidr(ip, cidr) ==
    IF cidr.prefix = -1 THEN cidr.net = ip
    ELSE /\ cidr.net # Malformed /\ Len(cidr.net) = Len(ip)
         /\ cidr.prefix \in 0 .. Len(ip) * Width(ip)
         /\ \A i \in 0 .. cidr.prefix - 1 : Bit(ip, i) = Bit(cidr.net, i)

is_trusted_proxy(ip, proxies) == \E cidr \in proxies : ip_in_cidr(ip, cidr)

(* xff is <<>> when the header is missing.                                 *)
client_ip(peer, xff, proxies) ==
    IF ~ is_trusted_proxy(peer, proxies) \/ (\E i \in DOMAIN xff : xff[i] = Malformed)
    THEN peer
    ELSE LET untrusted == {i \in DOMAIN xff : ~ is_trusted_proxy(xff[i], proxies)}
         IN IF untrusted = {} THEN peer ELSE xff[Max(untrusted)]

(***************************************************************************)
(* webhooks/src/lib.rs                                                     *)
(***************************************************************************)
(* Ipv4Addr::is_private, is_loopback, is_link_local, is_multicast.         *)
std_reserved(ip) ==
    \/ ip[1] \in {10, 127} \cup 224 .. 239
    \/ ip[1] = 172 /\ ip[2] \in 16 .. 31
    \/ ip[1] = 192 /\ ip[2] = 168
    \/ ip[1] = 169 /\ ip[2] = 254

is_public_ipv4(ip) ==
    /\ ip[1] # 0
    /\ ~ std_reserved(ip)
    /\ ~ (ip[1] = 100 /\ ip[2] \in 64 .. 127)
    /\ ip # <<255, 255, 255, 255>>

Embedded(ip) == <<ip[7] \div 256, ip[7] % 256, ip[8] \div 256, ip[8] % 256>>

(* fe80::/10, fc00::/7, and is_multicast, ff00::/8; :: and ::1 are of the  *)
(* compatible form.                                                        *)
is_public_ipv6(ip) ==
    IF (\A i \in 1 .. 5 : ip[i] = 0) /\ ip[6] \in {0, 65535}
    THEN is_public_ipv4(Embedded(ip))
    ELSE ip[1] < 65280 /\ ip[1] \notin 65152 .. 65215 \cup 64512 .. 65023

(* A host name is its labels; a root dot leaves empty ones at the end.     *)
is_public_hostname(host) ==
    LET named == {i \in DOMAIN host : host[i] # ""}
        bare == IF named = {} THEN <<>> ELSE SubSeq(host, 1, Max(named))
    IN /\ bare # <<>>
       /\ Last(bare) # "localhost"
       /\ Last(bare) = "local" => Len(bare) = 1

(* A url is [scheme, kind, host]: kind says how the URL parser read it.    *)
is_safe_url(url, allow_local) ==
    /\ url.scheme \in {"http", "https"}
    /\ \/ allow_local
       \/ CASE url.kind = "v4"   -> is_public_ipv4(url.host)
            [] url.kind = "v6"   -> is_public_ipv6(url.host)
            [] url.kind = "name" -> is_public_hostname(url.host)
            [] OTHER             -> FALSE

(* A body is its bytes; Lead and Continue are the two bytes of a longer    *)
(* character, and Redacted stands for the text put in a secret's place.    *)
Lead == 200
Continue == 201
Redacted == 300
is_char_boundary(text, cut) == cut = Len(text) \/ text[cut + 1] # Continue

Truncate(text) ==
    SubSeq(text, 1, Max({cut \in 0 .. Min({Len(text), SnippetMax}) : is_char_boundary(text, cut)}))

(* str::replace: from the left, an occurrence at a time.                   *)
Replace(text, secret) ==
    LET At(i) == /\ i + Len(secret) - 1 <= Len(text)
                 /\ SubSeq(text, i, i + Len(secret) - 1) = secret
        Step(acc, i) ==
            IF acc.skip > 0 THEN [acc EXCEPT !.skip = @ - 1]
            ELSE IF At(i) THEN [out |-> Append(acc.out, Redacted), skip |-> Len(secret) - 1]
            ELSE [out |-> Append(acc.out, text[i]), skip |-> 0]
    IN FoldLeft(Step, [out |-> <<>>, skip |-> 0], [i \in DOMAIN text |-> i]).out

Redact(text, secrets) ==
    FoldLeft(LAMBDA t, s : IF s = <<>> THEN t ELSE Replace(t, s), text, secrets)

response_snippet(raw, secrets) == Truncate(Redact(raw, secrets))
=============================================================================
