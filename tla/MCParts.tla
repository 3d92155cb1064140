------------------------------ MODULE MCParts ------------------------------
(***************************************************************************)
(* Small instances of the parts that share no state with one another: the  *)
(* pure functions (Formats), the EVM client (EvmRpc), the fee cache        *)
(* (HorizonClient), the CSV export (Export), the backfill (Backfill),      *)
(* codes and allow-list (Approvals) and the supervisor's pass (Polling).   *)
(* A behaviour is one of one part, the one side names.                     *)
(***************************************************************************)
EXTENDS Formats, EvmRpc, HorizonClient, Export, Backfill, Approvals, Polling, TLC

CONSTANT Sides      \* the parts, by name

VARIABLE side

mcvars == <<side, work, vars, rpcvars, feevars, exportvars, backfillvars, approvalvars,
            pollvars>>

(* The backfill as it is run: in batches, up to a limit, and dry.          *)
MCModes == {[batch |-> 2, limit |-> 0, dry |-> FALSE], [batch |-> 1, limit |-> 2, dry |-> FALSE],
            [batch |-> 1, limit |-> 1, dry |-> TRUE]}

(* An account paid in its muxed form, listed in either, and another, which *)
(* a path payment also pays, before the Payment and alone.                 *)
Pays(body, to) == [body |-> body, to |-> to]
MCTransfers == {<<Pays("Payment", <<"a", TRUE>>)>>,
                <<Pays("PathPaymentStrictSend", <<"a", TRUE>>), Pays("Payment", <<"b", FALSE>>)>>,
                <<Pays("PathPaymentStrictSend", <<"b", FALSE>>)>>}
MCDestinations == {<<"a", TRUE>>, <<"a", FALSE>>}

(* Wallets never polled, active, idle and dormant, due or soon to be.      *)
MCPollRows == {[polled |-> 0, activity |-> 0], [polled |-> 4, activity |-> 5], [polled |-> 3, activity |-> 3],
               [polled |-> 1, activity |-> 0]}
PollingRests == \A w \in Polled : backlog[w] = 0 /\ cursor[w].polled = 0
OneBehind == Cardinality({w \in Polled : backlog[w] > 0}) = 1 /\ cursor[2].polled = 0

(* Which nibbles of the hash are 8 or more: any function will do that      *)
(* depends on every digit.                                                 *)
MCHashBit(digits, i) == FoldLeft(LAMBDA n, d : 2 * n + d, i, digits) % 3 # 0

(* Amounts: a digit, the largest digit, and every other kind of character. *)
AmountTexts == SeqOf({0, 1, 9, Dot, Minus, Blank}, 5) \cup SeqOf({1, Dot, Plus, Letter}, 3)

(* Balances around the reserve, with an amount that does not fill the      *)
(* decimals; "10." and "0.5" are 10 and 0.5 units.                         *)
Balances == {<<0>>, <<1, Dot, 5>>, <<0, Dot, 9, 9>>, <<4>>, <<9>>, <<Letter>>}
Infos == [balances : {<<[asset |-> "native", amount |-> n]>> : n \in Balances}
                     \cup {<<[asset |-> "usd", amount |-> u], [asset |-> "native", amount |-> n]>> :
                             n \in Balances, u \in {<<0>>, <<2, Dot, 0, 1>>, <<Letter>>}},
          subentries : 0 .. 1, sponsoring : {0}, sponsored : {0, 2}]
Fees == [base : {-1, 1, 7}, p90 : {-1, 3, 300}]
Requests == [asset : {"native", "usd"}, amount : {None, 0, 1, 143, 144, 201}, operations : {0, 1, 3, 4}]

FeeAnswers == {[kind |-> k] : k \in {"unreachable", "missing", "object"}} \cup
              [kind : {"number"}, number : {-5, 0, 1, 3, 500}] \cup
              [kind : {"text"}, text : {<<>>, <<3>>, <<Minus, 1>>, <<9, 9>>, <<Letter>>}]

(* Good settings, and those that differ from them in at most two ways.     *)
Good == [bad |-> {}, network |-> "public", run_migrations |-> TRUE, jwt |-> <<0, 2, 1, 3>>,
         master |-> <<0, 2, 1, 3>>, next |-> Unset, resend |-> <<1>>, plain |-> {}, relative |-> FALSE,
         metrics |-> "off", token |-> 0]
KeyValues == {<<0, 0, 0, 0>>, <<1, 2, 3, 0>>, <<0, 0, 1, 2>>, <<0, 2, 1, 3>>, <<1, 3, 2, 0>>, <<1>>, Unset}
Changes ==
    {<<"bad", {v}>> : v \in {Variables[i] : i \in DOMAIN Variables}} \cup
    {<<"network", "test">>, <<"run_migrations", FALSE>>, <<"resend", <<1, Marker>>>>, <<"relative", TRUE>>,
     <<"metrics", "loopback">>, <<"metrics", "open">>, <<"token", 1>>, <<"token", TokenLength>>} \cup
    {<<"jwt", j>> : j \in {<<1>>, <<1, 2>>, <<0, 0, 1, 1>>, <<0, 2, Marker, 3>>}} \cup
    {<<n, k>> : n \in {"master", "next"}, k \in KeyValues} \cup
    {<<"plain", {u}>> : u \in {"HORIZON_URL", "PUBLIC_APP_URL", "PUBLIC_API_URL"}}
Deployments == {[[Good EXCEPT ![c[1]] = c[2]] EXCEPT ![d[1]] = d[2]] : c, d \in Changes}
Databases == [reachable : BOOLEAN, schema : 0 .. 2, stored : {<<0, 2, 1, 3>>, <<1, 3, 2, 0>>, Unset}]

(* Two proxies' networks, clients and a proxy.                             *)
Proxies == {Block(<<10, 0, 0, 0>>, 8), Block(<<192, 168, 7, 4>>, -1), Block(<<9, 9, 9, 9>>, 40),
            Block(Six(64512), 7)}
Hosts == {<<10, 3, 0, 1>>, <<192, 168, 7, 4>>, <<11, 0, 0, 1>>, <<203, 0, 113, 9>>, Six(64513),
          Six(8193)}
Forwarded == SeqOf(Hosts \cup {Malformed}, 3)

(* The octets at the edges of the ranges.                                  *)
Octets4 == {0, 1, 9, 10, 11, 63, 64, 100, 101, 126, 127, 128, 168, 169, 172, 192, 223, 224, 239, 240,
            255}
Octets == {0, 15, 16, 31, 32, 63, 64, 127, 128, 168, 253, 254, 255}
Ips4 == {<<a, b, c, c>> : a \in Octets4, b \in Octets, c \in {0, 255}}
Ips6 == {<<a, 0, 0, 0, m, f, s, t>> :
            a \in {0, 1, 8193, 64511, 64512, 65023, 65024, 65151, 65152, 65215, 65216, 65279, 65280, 65535},
            m \in {0, 1}, f \in {0, 1, 65535}, s \in {0, 2560, 2816, 32512, 49320, 51968}, t \in {0, 1}}

(* Bodies with one- and two-byte characters, one of them in no secret.     *)
Secrets == {<<<<7, 8>>, <<5>>>>, <<<<7, 8>>, <<>>>>, <<<<>>, <<7, 7>>>>}
Bytes == {<<1>>, <<5>>, <<7>>, <<8>>, <<Lead, Continue>>}
BodyTexts == {FlattenSeq(s) : s \in SeqOf(Bytes, 5)}

Inputs == SeqOf({Lower, Upper, Digit, Dash, At, Space, Hidden, Newline}, 4)
Reserved == {<<Lower, Digit>>, <<Lower, Lower, Lower>>}
Cells == SeqOf({Lower, Equals, Comma, Quote, Newline, Return}, 3)

Ops == [body : OpTypes, source : {NoSource, <<"wallet", FALSE>>, <<"wallet", TRUE>>, <<"other", FALSE>>},
        destination : {"d1", "d2"}]
OpLists == {<<>>} \cup {<<o>> : o \in Ops} \cup
           {<<o, p>> : o \in Ops, p \in {q \in Ops : q.source[1] # "other" \/ q.body = "Payment"}}
Envs == [form : {"Tx"}, trailing : {FALSE}, signed : BOOLEAN, source : {<<"wallet", TRUE>>, <<"other", FALSE>>},
         max_time : {0, 5}, ops : OpLists]
        \cup [form : {"Tx", "FeeBump", "V0", "garbage"}, trailing : BOOLEAN, signed : {TRUE},
              source : {<<"wallet", FALSE>>, <<"master", TRUE>>}, max_time : {0},
              ops : {<<o>> : o \in Ops}]
Lists == SeqOf({"Payment", "PathPaymentStrictSend", "PathPaymentStrictReceive", "Other"}, 2)
         \cup {<<"PathPaymentStrictReceive", "Payment", "PathPaymentStrictReceive">>}
InnerEnvs == [form : {"Tx", "FeeBump", "garbage"}, trailing : BOOLEAN, signed : BOOLEAN,
              source : {<<"user", FALSE>>, <<"master", TRUE>>}, max_time : {0},
              ops : {<<[body |-> b, source |-> NoSource, destination |-> "d1"],
                       [body |-> c, source |-> NoSource, destination |-> "d1"]>> :
                         b \in OpTypes, c \in {"Payment", "PathPaymentStrictSend"}}]

AssetNames == {<<"native", "native">>, <<"XLM", "xlm">>, <<"USD", "usd">>, <<"too long", "too long">>}
Characters == {<<0, FALSE>>, <<9, FALSE>>, <<10, FALSE>>, <<10, TRUE>>, <<15, FALSE>>, <<15, TRUE>>, Junk}

(***************************************************************************)
(* One call of a pure function.                                            *)
(***************************************************************************)
FormatsNext ==
    \/ \E t \in AmountTexts : ReadAmount(t)
    \/ \E i \in Infos, f \in Fees, q \in Requests : Estimate(i, f, q)
    \/ \E p \in {50, 55}, c \in {1, 2, 100}, w \in {0, 1, 99}, a \in FeeAnswers : ChooseFee(p, c, w, a)
    \/ \E h \in Hosts, x \in Forwarded, e \in Hosts \cup {Malformed} : Locate(h, x, e, Proxies)
    \/ \E ip \in Ips4 \cup Ips6 : Classify(ip)
    \/ \E b \in BodyTexts, s \in Secrets : LogAnswer(b, s)
    \/ \E t \in Inputs : Name(t, Reserved)
    \/ \E c \in Cells, d \in SeqOf({Lower, Comma, Quote, Return}, 1) : WriteRow(<<c, d>>)
    \/ \E e \in Envs : Relay(e, "wallet")
    \/ \E e \in InnerEnvs, l \in Lists, f \in {99, 100, 300} : Sponsor(e, "master", l, f, 200)
    \/ \E h \in SeqOf(Characters, 4) : Checksum(h)
    \/ \E r, s \in Scalars, v \in 0 .. 1 : Sign(r, s, v)
    \/ \E ok \in BOOLEAN, i \in {0, 3, 4}, c, o \in 0 .. 2, n \in {31, 32}, k \in {0, 1, Order - 1, Order} :
         Adapt(ok, i, c, n, k, o)
    \/ \E a \in AssetNames, g \in {"", "issuer", "typo"} :
         FilterFor(a[1], a[2], g, {"native", "xlm", "XLM", "USD"}, {"issuer"})
    \/ \E e \in Deployments, db \in Databases : Configure(e, db, 1)

MCInit ==
    /\ side \in Sides
    /\ work = NoWork /\ RpcInit /\ FeeInit /\ ExportInit
    /\ ApprovalsInit
    /\ PollingInit /\ IF side = "polling" THEN OneBehind ELSE PollingRests
    /\ BackfillInit /\ (side # "backfill" => deposits = <<>>)

(* Approvals is explored in two halves: codes while the list is off, and   *)
(* the list's edits against requests that need no code.                    *)
Only(name, others) == side = name /\ UNCHANGED <<side, others>>

MCNext ==
    \/ /\ Only("formats", <<vars, rpcvars, feevars, exportvars, backfillvars, approvalvars, pollvars>>)
       /\ Idling /\ FormatsNext
    \/ /\ Only("rpc", <<work, feevars, exportvars, backfillvars, approvalvars, pollvars>>)
       /\ RpcNext
    \/ /\ Only("fees", <<work, vars, rpcvars, exportvars, backfillvars, approvalvars, pollvars>>)
       /\ FeeNext
    \/ /\ Only("ask", <<work, vars, rpcvars, exportvars, backfillvars, approvalvars, pollvars>>)
       /\ AskNext
    \/ /\ Only("export", <<work, vars, rpcvars, feevars, backfillvars, approvalvars, pollvars>>)
       /\ ExportNext
    \/ /\ Only("backfill", <<work, vars, rpcvars, feevars, exportvars, approvalvars, pollvars>>)
       /\ BackfillNext
    \/ /\ Only("codes", <<work, vars, rpcvars, feevars, exportvars, backfillvars, pollvars, enabled, entries,
                       owner>>)
       /\ ApprovalsNext
    \/ /\ Only("list", <<work, vars, rpcvars, feevars, exportvars, backfillvars, pollvars, codes>>)
       /\ ApprovalsNext
    \/ /\ Only("polling", <<work, vars, rpcvars, feevars, exportvars, backfillvars, approvalvars>>)
       /\ PollingNext

MCSpec == MCInit /\ [][MCNext]_mcvars
=============================================================================
