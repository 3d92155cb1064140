------------------------- MODULE WithdrawalsProofs -------------------------
(***************************************************************************)
(* Proofs about Withdrawals: the history rows never lie about success,     *)
(* never change once settled, and exist before the network can act.  And   *)
(* about what stands before a withdrawal (Approvals), for any number of    *)
(* requests in flight, codes, transactions and listed addresses: a code is *)
(* spent once, and the allow-list decides what is posted and refused.      *)
(***************************************************************************)
EXTENDS Withdrawals, Approvals, TLAPS

USE WithdrawalsAssumption

\* Init establishes the inductive invariant.
LEMMA InitIInv == Init => IInv
BY DEF Init, IInv, TypeOK, ConfirmedIsOnChain, SubmittedHasRow, PoolOK, ExpiredIsPast,
       RelayOK, SweepOK, Logged, IdleServer, IdleSweep, Relays, Sweeps, Final, Verdicts

\* The facts a relay or a sweep remembers stay true: rows are not deleted, a
\* success is not undone and a max_time stays past.
Lasting ==
    /\ \A t \in Txs : Logged(t) => Logged(t)'
    /\ \A t \in Txs : chain[t] = "success" => chain'[t] = "success"
    /\ past \subseteq past'

\* What every step keeps of the table, the network and the records.
TableOK == ConfirmedIsOnChain /\ SubmittedHasRow /\ PoolOK /\ ExpiredIsPast

\* Facts that last keep the other relays well formed.
LEMMA RelayLasts ==
    ASSUME NEW x \in Relays, Lasting, RelayOK(x)
    PROVE  RelayOK(x)'
BY Zenon DEF Lasting, RelayOK, Relays

\* Facts that last keep the other sweeps well formed.
LEMMA SweepLasts ==
    ASSUME NEW x \in Sweeps, Lasting, SweepOK(x)
    PROVE  SweepOK(x)'
BY Zenon DEF Lasting, SweepOK, Sweeps

\* A server that goes on to a well-formed relay keeps all relays well formed.
LEMMA ServeOK ==
    ASSUME server \in [Servers -> Relays], \A s \in Servers : RelayOK(server[s]), Lasting,
           NEW s \in Servers, NEW x \in Relays, RelayOK(x)', Serve(s, x)
    PROVE  server' \in [Servers -> Relays] /\ \A v \in Servers : RelayOK(server[v])'
<1>1. /\ server' \in [Servers -> Relays] /\ server'[s] = x
      /\ \A v \in Servers : v # s => server'[v] = server[v]
  BY Zenon DEF Serve
<1>2. ASSUME NEW v \in Servers PROVE RelayOK(server[v])'
  <2>1. CASE v = s
    BY Zenon, <1>1, <2>1 DEF RelayOK, Logged
  <2>2. CASE v # s
    <3>1. server[v] \in Relays /\ RelayOK(server[v]) /\ server'[v] = server[v]
      BY Zenon, <1>1, <2>2
    <3>2. \A y \in Relays : RelayOK(y) => RelayOK(y)'
      BY Zenon, RelayLasts
    <3> QED BY Zenon, <3>1, <3>2 DEF RelayOK, Logged
  <2> QED BY Zenon, <2>1, <2>2
<1> QED BY Zenon, <1>1, <1>2

\* The same for a sweeper.
LEMMA SweepStepOK ==
    ASSUME sweep \in [Sweepers -> Sweeps], \A r \in Sweepers : SweepOK(sweep[r]), Lasting,
           NEW r \in Sweepers, NEW x \in Sweeps, SweepOK(x)', Sweep(r, x)
    PROVE  sweep' \in [Sweepers -> Sweeps] /\ \A v \in Sweepers : SweepOK(sweep[v])'
<1>1. /\ sweep' \in [Sweepers -> Sweeps] /\ sweep'[r] = x
      /\ \A v \in Sweepers : v # r => sweep'[v] = sweep[v]
  BY Zenon DEF Sweep
<1>2. ASSUME NEW v \in Sweepers PROVE SweepOK(sweep[v])'
  <2>1. CASE v = r
    BY Zenon, <1>1, <2>1 DEF SweepOK
  <2>2. CASE v # r
    <3>1. sweep[v] \in Sweeps /\ SweepOK(sweep[v]) /\ sweep'[v] = sweep[v]
      BY Zenon, <1>1, <2>2
    <3>2. \A y \in Sweeps : SweepOK(y) => SweepOK(y)'
      BY Zenon, SweepLasts
    <3> QED BY Zenon, <3>1, <3>2 DEF SweepOK
  <2> QED BY Zenon, <2>1, <2>2
<1> QED BY Zenon, <1>1, <1>2

\* The part of TypeOK about the table.
TableType ==
    /\ status \in [Txs -> {"none", "pending"} \cup Final]
    /\ reason \in [Txs -> {"none"} \cup Verdicts]
    /\ age \in [Txs -> 0..AbandonAfter]

\* The relay's write keeps the table true when its status is, and leaves a row.
LEMMA RecordOK ==
    ASSUME TypeOK, TableOK, NEW t \in Txs, NEW st \in {"pending"} \cup Final,
           st = "confirmed" => chain[t] = "success",
           record_withdrawal_transaction(t, st), UNCHANGED <<network, unlogged>>
    PROVE  TableType' /\ TableOK' /\ Lasting /\ status'[t] # "none"
<1>1. /\ status' \in [Txs -> {"none", "pending"} \cup Final] /\ status'[t] # "none"
      /\ \A u \in Txs : u # t => status'[u] = status[u]
      /\ status'[t] = status[t] \/ status'[t] = st
  BY Zenon DEF record_withdrawal_transaction, TypeOK, Final
<1>2. age' \in [Txs -> 0..AbandonAfter] /\ reason' = reason
  BY DEF record_withdrawal_transaction, TypeOK
<1>3. chain' = chain /\ pool' = pool /\ past' = past /\ unlogged' = unlogged
  BY Zenon DEF network
<1>4. TableOK'
  <2>1. ASSUME NEW u \in Txs, status'[u] = "confirmed" PROVE chain'[u] = "success"
    <3>1. status[u] = "confirmed" \/ (u = t /\ st = "confirmed")
      BY Zenon, <1>1, <2>1
    <3> QED BY Zenon, <1>3, <3>1 DEF TableOK, ConfirmedIsOnChain
  <2>2. SubmittedHasRow'
    BY Zenon, <1>1, <1>3 DEF TableOK, SubmittedHasRow
  <2>3. PoolOK' /\ ExpiredIsPast'
    BY Zenon, <1>2, <1>3 DEF TableOK, PoolOK, ExpiredIsPast
  <2> QED BY Zenon, <2>1, <2>2, <2>3 DEF TableOK, ConfirmedIsOnChain
<1>5. Lasting
  BY Zenon, <1>1, <1>3 DEF Lasting, Logged
<1> QED BY Zenon, <1>1, <1>2, <1>4, <1>5 DEF TypeOK, TableType

\* So does the sweep's write.
LEMMA SettleOK ==
    ASSUME TypeOK, TableOK, NEW t \in Txs, NEW v \in Verdicts,
           v = "confirmed" => chain[t] = "success", v = "expired" => t \in past,
           settle_pending_withdrawal(t, v), UNCHANGED <<network, unlogged>>
    PROVE  TableType' /\ TableOK' /\ Lasting
<1>3. chain' = chain /\ pool' = pool /\ past' = past /\ unlogged' = unlogged
  BY Zenon DEF network
<1>1. CASE status[t] = "pending"
  <2>1. /\ status' \in [Txs -> {"none", "pending"} \cup Final] /\ status'[t] # "none"
        /\ status'[t] = "confirmed" => v = "confirmed"
        /\ \A u \in Txs : u # t => status'[u] = status[u]
    BY Zenon, <1>1 DEF settle_pending_withdrawal, TypeOK, Final
  <2>2. /\ reason' \in [Txs -> {"none"} \cup Verdicts]
        /\ reason'[t] = v \/ reason'[t] = reason[t]
        /\ \A u \in Txs : u # t => reason'[u] = reason[u]
        /\ age' = age
    BY <1>1 DEF settle_pending_withdrawal, TypeOK
  <2>3. TableOK'
    BY Zenon, <2>1, <2>2, <1>3 DEF TableOK, ConfirmedIsOnChain, SubmittedHasRow, PoolOK, ExpiredIsPast
  <2>4. Lasting
    BY Zenon, <2>1, <1>3 DEF Lasting, Logged
  <2> QED BY Zenon, <2>1, <2>2, <2>3, <2>4 DEF TypeOK, TableType
<1>2. CASE status[t] # "pending"
  <2>1. UNCHANGED <<status, reason, age>>
    BY Zenon, <1>2 DEF settle_pending_withdrawal, table
  <2> QED BY Zenon, <2>1, <1>3 DEF TypeOK, TableType, TableOK, ConfirmedIsOnChain, SubmittedHasRow,
            PoolOK, ExpiredIsPast, Lasting, Logged
<1> QED BY Zenon, <1>1, <1>2

\* A step that leaves the network and the table alone keeps what they say.
LEMMA QuietOK ==
    ASSUME TypeOK, TableOK, UNCHANGED <<network, table>>, unlogged \subseteq unlogged'
    PROVE  TableType' /\ TableOK' /\ Lasting
BY Zenon DEF network, table, TypeOK, TableType, TableOK, ConfirmedIsOnChain, SubmittedHasRow,
       PoolOK, ExpiredIsPast, Lasting, Logged

\* The part of TypeOK about the network.
NetType ==
    /\ chain \in [Txs -> {"absent", "success", "failed"}]
    /\ pool \in SUBSET Txs
    /\ past \in SUBSET Bounded
    /\ unlogged \in SUBSET Txs

\* Relays nobody touches stay well formed.
LEMMA RelaysKept ==
    ASSUME server \in [Servers -> Relays], \A s \in Servers : RelayOK(server[s]), Lasting,
           server' = server
    PROVE  server' \in [Servers -> Relays] /\ \A s \in Servers : RelayOK(server[s])'
<1>1. \A y \in Relays : RelayOK(y) => RelayOK(y)'
  BY Zenon, RelayLasts
<1> QED BY Zenon, <1>1 DEF RelayOK, Logged

\* Sweeps nobody touches stay well formed.
LEMMA SweepsKept ==
    ASSUME sweep \in [Sweepers -> Sweeps], \A r \in Sweepers : SweepOK(sweep[r]), Lasting,
           sweep' = sweep
    PROVE  sweep' \in [Sweepers -> Sweeps] /\ \A r \in Sweepers : SweepOK(sweep[r])'
<1>1. \A y \in Sweeps : SweepOK(y) => SweepOK(y)'
  BY Zenon, SweepLasts
<1> QED BY Zenon, <1>1 DEF SweepOK

\* A server's step preserves the invariant when it leaves the table true and the
\* relay well formed.
LEMMA ServerAssembled ==
    ASSUME IInv, TableType', TableOK', NetType', Lasting, sweep' = sweep,
           NEW s \in Servers, NEW x \in Relays, RelayOK(x)', Serve(s, x)
    PROVE  IInv'
<1>1. server' \in [Servers -> Relays] /\ \A v \in Servers : RelayOK(server[v])'
  BY Zenon, ServeOK DEF IInv, TypeOK
<1>2. sweep' \in [Sweepers -> Sweeps] /\ \A r \in Sweepers : SweepOK(sweep[r])'
  BY Zenon, SweepsKept DEF IInv, TypeOK
<1> QED BY Zenon, <1>1, <1>2 DEF IInv, TypeOK, TableType, NetType, TableOK

\* The same for a sweeper's step.
LEMMA SweepAssembled ==
    ASSUME IInv, TableType', TableOK', NetType', Lasting, server' = server,
           NEW r \in Sweepers, NEW x \in Sweeps, SweepOK(x)', Sweep(r, x)
    PROVE  IInv'
<1>1. sweep' \in [Sweepers -> Sweeps] /\ \A v \in Sweepers : SweepOK(sweep[v])'
  BY Zenon, SweepStepOK DEF IInv, TypeOK
<1>2. server' \in [Servers -> Relays] /\ \A s \in Servers : RelayOK(server[s])'
  BY Zenon, RelaysKept DEF IInv, TypeOK
<1> QED BY Zenon, <1>1, <1>2 DEF IInv, TypeOK, TableType, NetType, TableOK

\* Every step of a server preserves the invariant.
LEMMA ServerIInv ==
    ASSUME IInv, NEW s \in Servers, Server(s)
    PROVE  IInv'
<1>a. server[s] \in Relays
  BY Zenon DEF IInv, TypeOK
<1>b. PICK x \in Relays : x = server[s]
  BY Zenon, <1>a
<1> DEFINE t == x.tx
<1>0. /\ x = server[s] /\ RelayOK(x) /\ TypeOK /\ TableOK /\ NetType
      /\ x.pc # "idle" => t \in Txs
  BY Zenon, <1>b DEF IInv, TypeOK, TableOK, NetType, RelayOK
<1>1. CASE Relay(s)
  <2>1. PICK u \in Txs : Serve(s, [pc |-> "record", tx |-> u, outcome |-> "unknown"])
    BY Zenon, <1>1 DEF Relay
  <2>2. TableType' /\ TableOK' /\ Lasting /\ NetType' /\ sweep' = sweep
    BY Zenon, <1>0, <1>1, QuietOK DEF Relay, NetType, network
  <2> DEFINE y == [pc |-> "record", tx |-> u, outcome |-> "unknown"]
  <2>3. y \in Relays /\ RelayOK(y)'
    BY Zenon DEF Relays, RelayOK, Final
  <2> HIDE DEF y
  <2> QED BY Zenon, <2>1, <2>2, <2>3, ServerAssembled DEF y
<1>2. CASE RecordPending(s)
  <2>1. TableType' /\ TableOK' /\ Lasting /\ status'[t] # "none" /\ t \in Txs
    BY Zenon, <1>0, <1>2, RecordOK DEF RecordPending
  <2>2. NetType' /\ sweep' = sweep
    BY Zenon, <1>0, <1>2 DEF RecordPending, NetType, network
  <2>3. At(x, "send") \in Relays /\ RelayOK(At(x, "send"))'
    BY Zenon, <1>0, <2>1 DEF At, Relays, RelayOK, Logged
  <2>4. Serve(s, At(x, "send"))
    BY Zenon, <1>0, <1>2 DEF RecordPending
  <2> QED BY Zenon, <2>1, <2>2, <2>3, <2>4, ServerAssembled
<1>3. CASE RecordPendingFails(s)
  <2>1. TableType' /\ TableOK' /\ Lasting /\ sweep' = sweep /\ t \in Txs
    BY Zenon, <1>0, <1>3, QuietOK DEF RecordPendingFails
  <2>2. NetType' /\ t \in unlogged'
    BY Zenon, <1>0, <1>3 DEF RecordPendingFails, NetType, network
  <2>3. At(x, "send") \in Relays /\ RelayOK(At(x, "send"))'
    BY Zenon, <1>0, <2>1, <2>2 DEF At, Relays, RelayOK, Logged
  <2>4. Serve(s, At(x, "send"))
    BY Zenon, <1>0, <1>3 DEF RecordPendingFails
  <2> QED BY Zenon, <2>1, <2>2, <2>3, <2>4, ServerAssembled
<1>4. CASE Post(s)
  <2>1. /\ t \in Txs /\ Logged(t) /\ x.pc = "send"
        /\ UNCHANGED <<chain, past, status, reason, age, unlogged, sweep>>
    BY Zenon, <1>0, <1>4 DEF Post, RelayOK, table
  <2>2. \/ pool' = pool
        \/ pool' = pool \cup {t} /\ chain[t] = "absent" /\ t \notin past
    BY Zenon, <1>0, <1>4 DEF Post
  <2>3. NetType' /\ TableType' /\ TableOK' /\ Lasting
    BY Zenon, <1>0, <2>1, <2>2 DEF NetType, TableType, TypeOK, TableOK, ConfirmedIsOnChain,
       SubmittedHasRow, PoolOK, ExpiredIsPast, Lasting, Logged
  <2>4. At(x, "wait") \in Relays /\ RelayOK(At(x, "wait"))'
    BY Zenon, <1>0, <2>1 DEF At, Relays, RelayOK, Logged
  <2>5. Serve(s, At(x, "wait"))
    BY Zenon, <1>0, <1>4 DEF Post
  <2> QED BY Zenon, <2>1, <2>3, <2>4, <2>5, ServerAssembled
<1>5. CASE AnswerResult(s) \/ AnswerRejected(s) \/ AnswerServerError(s)
  <2>1. x.pc = "wait" /\ t \in Txs /\ Logged(t)
    BY Zenon, <1>0, <1>5 DEF AnswerResult, AnswerRejected, AnswerServerError, RelayOK
  <2>2. PICK o \in Final : /\ Serve(s, [pc |-> "settle", tx |-> t, outcome |-> o])
                           /\ o = "confirmed" => chain[t] = "success"
    BY Zenon, <1>0, <1>5 DEF AnswerResult, AnswerRejected, AnswerServerError, Final
  <2>3. TableType' /\ TableOK' /\ Lasting /\ NetType' /\ sweep' = sweep
    BY Zenon, <1>0, <1>5, QuietOK DEF AnswerResult, AnswerRejected, AnswerServerError, NetType, network
  <2> DEFINE y == [pc |-> "settle", tx |-> t, outcome |-> o]
  <2>4. y \in Relays /\ y.pc = "settle" /\ y.tx = t /\ y.outcome = o
    BY Zenon, <2>1 DEF Relays
  <2>5. RelayOK(y)'
    BY Zenon, <2>1, <2>2, <2>3, <2>4 DEF RelayOK, Lasting
  <2> HIDE DEF y
  <2> QED BY Zenon, <2>2, <2>3, <2>4, <2>5, ServerAssembled DEF y
<1>6. CASE RecordOutcome(s)
  <2>1. /\ t \in Txs /\ x.outcome \in Final
        /\ x.outcome = "confirmed" => chain[t] = "success"
    BY Zenon, <1>0, <1>6 DEF RecordOutcome, RelayOK
  <2>2. TableType' /\ TableOK' /\ Lasting
    BY Zenon, <1>0, <1>6, <2>1, RecordOK DEF RecordOutcome
  <2>3. NetType' /\ sweep' = sweep /\ Serve(s, IdleServer)
    BY Zenon, <1>0, <1>6 DEF RecordOutcome, NetType, network
  <2>4. IdleServer \in Relays /\ RelayOK(IdleServer)'
    BY Zenon DEF IdleServer, Relays, RelayOK
  <2> QED BY Zenon, <2>2, <2>3, <2>4, ServerAssembled
<1>7. CASE EndEarly(s)
  <2>1. TableType' /\ TableOK' /\ Lasting /\ NetType' /\ sweep' = sweep /\ Serve(s, IdleServer)
    BY Zenon, <1>0, <1>7, QuietOK DEF EndEarly, NetType, network
  <2>2. IdleServer \in Relays /\ RelayOK(IdleServer)'
    BY Zenon DEF IdleServer, Relays, RelayOK
  <2> QED BY Zenon, <2>1, <2>2, ServerAssembled
<1> QED BY Zenon, <1>1, <1>2, <1>3, <1>4, <1>5, <1>6, <1>7 DEF Server

\* The records a sweep moves on to are sweeps, and a decided one carries its verdict.
LEMMA SweepRecords ==
    ASSUME NEW x \in Sweeps, NEW t \in Txs, NEW v \in Verdicts
    PROVE  /\ Skipped(x, t) \in Sweeps /\ SweepOK(Skipped(x, t))'
           /\ Errored(x, t) \in Sweeps /\ SweepOK(Errored(x, t))'
           /\ AskLedger(x, t) \in Sweeps /\ SweepOK(AskLedger(x, t))'
           /\ Decided(x, t, v) \in Sweeps
           /\ (v = "confirmed" => chain'[t] = "success") /\ (v = "expired" => t \in past')
                => SweepOK(Decided(x, t, v))'
           /\ IdleSweep \in Sweeps /\ SweepOK(IdleSweep)'
<1>1. Skipped(x, t) \in Sweeps /\ SweepOK(Skipped(x, t))'
  BY Zenon DEF Skipped, Sweeps, SweepOK
<1>2. Errored(x, t) \in Sweeps /\ SweepOK(Errored(x, t))'
  BY Zenon DEF Errored, Sweeps, SweepOK
<1>3. AskLedger(x, t) \in Sweeps /\ SweepOK(AskLedger(x, t))'
  BY Zenon DEF AskLedger, Sweeps, SweepOK
<1>4. /\ Decided(x, t, v) \in Sweeps
      /\ (v = "confirmed" => chain'[t] = "success") /\ (v = "expired" => t \in past')
           => SweepOK(Decided(x, t, v))'
  BY Zenon DEF Decided, Sweeps, SweepOK
<1>5. IdleSweep \in Sweeps /\ SweepOK(IdleSweep)'
  BY Zenon DEF IdleSweep, Sweeps, SweepOK, Verdicts
<1> QED BY Zenon, <1>1, <1>2, <1>3, <1>4, <1>5

\* Every step of a sweeper preserves the invariant.
LEMMA SweeperIInv ==
    ASSUME IInv, NEW r \in Sweepers, Sweeper(r)
    PROVE  IInv'
<1>a. sweep[r] \in Sweeps
  BY Zenon DEF IInv, TypeOK
<1>b. PICK x \in Sweeps : x = sweep[r]
  BY Zenon, <1>a
<1>0. /\ x = sweep[r] /\ SweepOK(x) /\ TypeOK /\ TableOK /\ NetType
      /\ x.pc \in {"ledger", "settle"} => x.tx \in Txs
      /\ x.todo \subseteq Txs /\ x.verdict \in Verdicts
  BY Zenon, <1>b DEF IInv, TypeOK, TableOK, NetType, SweepOK, Sweeps
<1>c. "confirmed" \in Verdicts /\ "rejected" \in Verdicts /\ "expired" \in Verdicts
      /\ "abandoned" \in Verdicts
  BY Zenon DEF Verdicts
<1>1. ASSUME UNCHANGED <<network, table, unlogged, server>>
      PROVE  /\ TableType' /\ TableOK' /\ Lasting /\ NetType' /\ server' = server
             /\ chain' = chain /\ past' = past
  BY Zenon, <1>0, <1>1, QuietOK DEF NetType, network
<1>2. CASE list_stale_pending_withdrawals(r)
  <2>1. UNCHANGED <<network, table, unlogged, server>>
    BY Zenon, <1>2 DEF list_stale_pending_withdrawals
  <2>2. PICK S \in SUBSET Txs : Sweep(r, [pc |-> "rows", todo |-> S, due |-> Due,
                                          tx |-> NoTx, verdict |-> "rejected"])
    BY Zenon, <1>2 DEF list_stale_pending_withdrawals
  <2>3. PICK D \in SUBSET Txs : D = Due
    BY Zenon DEF Due, Stale
  <2> DEFINE y == [pc |-> "rows", todo |-> S, due |-> D, tx |-> NoTx, verdict |-> "rejected"]
  <2>4. y \in Sweeps /\ SweepOK(y)'
    BY Zenon, <1>c DEF Sweeps, SweepOK
  <2>5. Sweep(r, y)
    BY Zenon, <2>2, <2>3
  <2> HIDE DEF y
  <2> QED BY Zenon, <1>1, <2>1, <2>4, <2>5, SweepAssembled
<1>3. ASSUME NEW t \in Txs, transaction_by_hash(r, t)
      PROVE  IInv'
  <2>1. UNCHANGED <<network, table, unlogged, server>> /\ decide(r, t)
    BY Zenon, <1>3 DEF transaction_by_hash
  <2>2. CASE Sweep(r, Decided(x, t, "confirmed")) /\ chain[t] = "success"
    BY Zenon, <1>1, <1>c, <2>1, <2>2, SweepRecords, SweepAssembled
  <2>3. CASE Sweep(r, Decided(x, t, "rejected"))
    BY Zenon, <1>1, <1>c, <2>1, <2>3, SweepRecords, SweepAssembled
  <2>4. CASE Sweep(r, AskLedger(x, t))
    BY Zenon, <1>1, <1>c, <2>1, <2>4, SweepRecords, SweepAssembled
  <2>5. CASE Sweep(r, Decided(x, t, "abandoned"))
    BY Zenon, <1>1, <1>c, <2>1, <2>5, SweepRecords, SweepAssembled
  <2>6. CASE Sweep(r, Skipped(x, t))
    BY Zenon, <1>1, <1>c, <2>1, <2>6, SweepRecords, SweepAssembled
  <2> QED BY Zenon, <1>0, <2>1, <2>2, <2>3, <2>4, <2>5, <2>6 DEF decide
<1>4. CASE latest_ledger_close_time(r)
  <2>1. UNCHANGED <<network, table, unlogged, server>> /\ x.tx \in Txs
    BY Zenon, <1>0, <1>4 DEF latest_ledger_close_time
  <2>2. CASE Sweep(r, Decided(x, x.tx, "expired")) /\ x.tx \in past
    BY Zenon, <1>1, <1>c, <2>1, <2>2, SweepRecords, SweepAssembled
  <2>3. CASE Sweep(r, Skipped(x, x.tx))
    BY Zenon, <1>1, <1>c, <2>1, <2>3, SweepRecords, SweepAssembled
  <2> QED BY Zenon, <1>0, <1>4, <2>2, <2>3 DEF latest_ledger_close_time
<1>5. CASE LookupError(r)
  <2>1. PICK t \in Txs : Sweep(r, Errored(x, t)) /\ UNCHANGED <<network, table, unlogged, server>>
    BY Zenon, <1>0, <1>5 DEF LookupError
  <2> QED BY Zenon, <1>1, <1>c, <2>1, SweepRecords, SweepAssembled
<1>6. CASE Settle(r)
  <2>1. /\ x.tx \in Txs /\ UNCHANGED <<network, unlogged>> /\ server' = server
        /\ settle_pending_withdrawal(x.tx, x.verdict)
        /\ x.verdict = "confirmed" => chain[x.tx] = "success"
        /\ x.verdict = "expired" => x.tx \in past
        /\ Sweep(r, Skipped(x, x.tx))
    BY Zenon, <1>0, <1>6 DEF Settle, SweepOK
  <2>2. TableType' /\ TableOK' /\ Lasting
    BY Zenon, <1>0, <2>1, SettleOK
  <2>3. NetType'
    BY Zenon, <1>0, <2>1 DEF NetType, network
  <2> QED BY Zenon, <1>c, <2>1, <2>2, <2>3, SweepRecords, SweepAssembled
<1>7. CASE EndSweep(r) \/ SweepFails(r)
  <2>1. Sweep(r, IdleSweep) /\ UNCHANGED <<network, table, unlogged, server>>
    BY Zenon, <1>7 DEF EndSweep, SweepFails
  <2>2. IdleSweep \in Sweeps /\ SweepOK(IdleSweep)'
    BY Zenon DEF IdleSweep, Sweeps, SweepOK, Verdicts
  <2> QED BY Zenon, <1>1, <2>1, <2>2, SweepAssembled
<1> QED BY Zenon, <1>2, <1>3, <1>4, <1>5, <1>6, <1>7 DEF Sweeper, Advance

\* A ledger that closes preserves the invariant.
LEMMA LedgerIInv ==
    ASSUME IInv, NEW A \in SUBSET Txs, NEW G \in SUBSET Txs, NEW E \in SUBSET Txs,
           CloseLedger(A, G, E)
    PROVE  IInv'
<1>1. /\ UNCHANGED <<status, reason, age, unlogged, server, sweep>>
      /\ A \subseteq pool \ E /\ G \subseteq A /\ E \subseteq Bounded
      /\ pool' = pool \ (A \cup E) /\ past' = past \cup E
  BY Zenon DEF CloseLedger, table
<1>2. chain' = [t \in Txs |-> IF t \in G THEN "success" ELSE IF t \in A THEN "failed"
                              ELSE chain[t]]
  BY Zenon DEF CloseLedger
<1>3. NetType' /\ TableType'
  BY Zenon, <1>1, <1>2 DEF IInv, TypeOK, NetType, TableType
<1>4. \A t \in Txs : t \notin A => chain'[t] = chain[t]
  BY Zenon, <1>1, <1>2
<1>5. \A t \in A : t \in pool /\ chain[t] = "absent"
  BY Zenon, <1>1 DEF IInv, PoolOK
<1>6. Lasting
  BY Zenon, <1>1, <1>4, <1>5 DEF Lasting, Logged
<1>7. TableOK'
  <2>1. ConfirmedIsOnChain' /\ ExpiredIsPast'
    BY Zenon, <1>1, <1>4, <1>5 DEF IInv, ConfirmedIsOnChain, ExpiredIsPast
  <2>2. SubmittedHasRow'
    BY Zenon, <1>1, <1>4, <1>5 DEF IInv, SubmittedHasRow
  <2>3. PoolOK'
    BY Zenon, <1>1, <1>4 DEF IInv, TypeOK, PoolOK
  <2> QED BY Zenon, <2>1, <2>2, <2>3 DEF TableOK
<1>8. server' \in [Servers -> Relays] /\ \A s \in Servers : RelayOK(server[s])'
  BY Zenon, <1>1, <1>6, RelaysKept DEF IInv, TypeOK
<1>9. sweep' \in [Sweepers -> Sweeps] /\ \A r \in Sweepers : SweepOK(sweep[r])'
  BY Zenon, <1>1, <1>6, SweepsKept DEF IInv, TypeOK
<1> QED BY Zenon, <1>3, <1>7, <1>8, <1>9 DEF IInv, TypeOK, TableType, NetType, TableOK

\* The passing of time preserves the invariant.
LEMMA TickIInv == IInv /\ Tick => IInv'
<1> SUFFICES ASSUME IInv, Tick PROVE IInv'
  BY Zenon
<1>1. /\ UNCHANGED <<chain, pool, past, status, reason, unlogged, server, sweep>>
      /\ age' \in [Txs -> 0..AbandonAfter]
  BY DEF IInv, TypeOK, Tick, network
<1>2. Lasting
  BY Zenon, <1>1 DEF Lasting, Logged
<1>3. server' \in [Servers -> Relays] /\ \A s \in Servers : RelayOK(server[s])'
  BY Zenon, <1>1, <1>2, RelaysKept DEF IInv, TypeOK
<1>4. sweep' \in [Sweepers -> Sweeps] /\ \A r \in Sweepers : SweepOK(sweep[r])'
  BY Zenon, <1>1, <1>2, SweepsKept DEF IInv, TypeOK
<1> QED BY Zenon, <1>1, <1>3, <1>4 DEF IInv, TypeOK, ConfirmedIsOnChain, SubmittedHasRow, PoolOK,
           ExpiredIsPast

\* Every step of the system preserves the inductive invariant.
LEMMA NextIInv == IInv /\ [Next]_vars => IInv'
<1> SUFFICES ASSUME IInv, [Next]_vars PROVE IInv'
  BY Zenon
<1>1. CASE UNCHANGED vars
  <2>1. UNCHANGED <<chain, pool, past, status, reason, age, unlogged, server, sweep>>
    BY Zenon, <1>1 DEF vars
  <2> QED BY Zenon, <2>1 DEF IInv, TypeOK, ConfirmedIsOnChain, SubmittedHasRow, PoolOK,
             ExpiredIsPast, RelayOK, SweepOK, Logged
<1>2. CASE Next
  BY Zenon, <1>2, TickIInv, LedgerIInv, ServerIInv, SweeperIInv DEF Next
<1> QED BY Zenon, <1>1, <1>2

\* Type correctness of the withdrawal model.
THEOREM TypeCorrect == Spec => []TypeOK
<1>1. IInv => TypeOK
  BY Zenon DEF IInv
<1> QED BY InitIInv, NextIInv, <1>1, PTL DEF Spec

\* No row says confirmed of a transaction the ledger did not apply successfully,
\* for any number of servers and sweepers dying anywhere.
THEOREM ConfirmedRowsAreTrue == Spec => []ConfirmedIsOnChain
<1>1. IInv => ConfirmedIsOnChain
  BY Zenon DEF IInv
<1> QED BY InitIInv, NextIInv, <1>1, PTL DEF Spec

\* Whatever the network may still apply, or applied, has a row unless its pending
\* write failed.
THEOREM RowsBeforeSubmission == Spec => []SubmittedHasRow
<1>1. IInv => SubmittedHasRow
  BY Zenon DEF IInv
<1> QED BY InitIInv, NextIInv, <1>1, PTL DEF Spec

\* No ledger changes what it says of a transaction whose row was failed as expired.
THEOREM ExpiredRowsAreSealed == Spec => ExpiredIsSealed
<1>1. IInv /\ [Next]_vars => [\A t \in Txs : reason[t] = "expired" => chain'[t] = chain[t]]_vars
  <2> SUFFICES ASSUME IInv, Next, NEW t \in Txs, reason[t] = "expired" PROVE chain'[t] = chain[t]
    BY Zenon DEF vars
  <2>1. t \in past /\ t \notin pool
    BY Zenon DEF IInv, ExpiredIsPast, PoolOK
  <2>2. CASE \E A, G, E \in SUBSET Txs : CloseLedger(A, G, E)
    BY Zenon, <2>1, <2>2 DEF CloseLedger
  <2>3. CASE Tick \/ (\E s \in Servers : Server(s)) \/ (\E r \in Sweepers : Sweeper(r))
    <3>1. chain' = chain
      BY Zenon, <2>3 DEF Tick, Server, Sweeper, Advance, Relay, RecordPending, RecordPendingFails, Post,
         AnswerResult, AnswerRejected, AnswerServerError, RecordOutcome, EndEarly,
         list_stale_pending_withdrawals, transaction_by_hash, latest_ledger_close_time,
         LookupError, Settle, EndSweep, SweepFails, network
    <3> QED BY Zenon, <3>1
  <2> QED BY Zenon, <2>2, <2>3 DEF Next
<1> QED BY InitIInv, NextIInv, <1>1, PTL DEF Spec, ExpiredIsSealed

\* A settled row is never written again.
THEOREM SettledRowsAreFinal == Spec => SettledIsFinal
<1>1. IInv /\ [Next]_vars => [\A t \in Txs : status[t] \in Final => status'[t] = status[t]]_vars
  <2> SUFFICES ASSUME IInv, Next, NEW t \in Txs, status[t] \in Final PROVE status'[t] = status[t]
    BY Zenon DEF vars
  <2>0. status \in [Txs -> {"none", "pending"} \cup Final] /\ status[t] # "pending"
    BY Zenon DEF IInv, TypeOK, Final
  <2>1. ASSUME NEW u, NEW st, record_withdrawal_transaction(u, st) PROVE status'[t] = status[t]
    BY Zenon, <2>0, <2>1 DEF record_withdrawal_transaction
  <2>2. ASSUME NEW u, NEW v, settle_pending_withdrawal(u, v) PROVE status'[t] = status[t]
    BY Zenon, <2>0, <2>2 DEF settle_pending_withdrawal, table
  <2>3. ASSUME NEW s \in Servers, Server(s) PROVE status'[t] = status[t]
    <3>1. CASE RecordPending(s)
      BY Zenon, <2>1, <3>1 DEF RecordPending
    <3>2. CASE RecordOutcome(s)
      BY Zenon, <2>1, <3>2 DEF RecordOutcome
    <3> QED BY Zenon, <2>3, <3>1, <3>2 DEF Server, Relay, RecordPendingFails, Post, AnswerResult,
               AnswerRejected, AnswerServerError, EndEarly, table
  <2>4. ASSUME NEW r \in Sweepers, Sweeper(r) PROVE status'[t] = status[t]
    <3>1. CASE Settle(r)
      BY Zenon, <2>2, <3>1 DEF Settle
    <3> QED BY Zenon, <2>4, <3>1 DEF Sweeper, Advance, list_stale_pending_withdrawals,
               transaction_by_hash, latest_ledger_close_time, LookupError, EndSweep,
               SweepFails, table
  <2> QED BY Zenon, <2>3, <2>4 DEF Next, Tick, CloseLedger, table
<1> QED BY InitIInv, NextIInv, <1>1, PTL DEF Spec, SettledIsFinal

(***************************************************************************)
(* Approvals.                                                              *)
(***************************************************************************)
(* A step that leaves the codes and the list alone keeps the invariant if  *)
(* the one request it moves is left in order (most steps of a handler).    *)
LEMMA QuietStep ==
    ASSUME ApprovalsInv, NEW h \in Handlers, NEW r, RequestOK(r),
           request' = [request EXCEPT ![h] = r], UNCHANGED <<enabled, entries, codes>>
    PROVE  ApprovalsInv'
<1>1. DOMAIN request' = Handlers
  BY Zenon DEF ApprovalsInv
<1>2. ASSUME NEW g \in Handlers PROVE RequestOK(request[g])'
  <2>1. CASE g = h
    BY Zenon, <2>1 DEF ApprovalsInv, RequestOK, Standing
  <2>2. CASE g # h
    BY Zenon, <2>2 DEF ApprovalsInv, RequestOK, Standing
  <2> QED BY Zenon, <2>1, <2>2
<1> QED BY Zenon, <1>1, <1>2 DEF ApprovalsInv, CodeOK

(* The requests stay in order when codes are added, tried or spent, since  *)
(* a code keeps its transaction.                                           *)
LEMMA CodesStep ==
    ASSUME ApprovalsInv, UNCHANGED <<enabled, entries>>,
           codes' \in Seq(Codes), \A n \in DOMAIN codes' : CodeOK(codes[n])',
           DOMAIN codes \subseteq DOMAIN codes',
           \A n \in DOMAIN codes : codes'[n].tx = codes[n].tx,
           DOMAIN request' = Handlers,
           \A g \in Handlers : RequestOK(request'[g])
    PROVE  ApprovalsInv'
<1>1. ASSUME NEW g \in Handlers PROVE RequestOK(request[g])'
  <2>1. RequestOK(request'[g])
    BY Zenon
  <2>2. request'[g].pc = "consume" =>
           request'[g].code \in DOMAIN codes' /\ codes'[request'[g].code].tx = request'[g].tx
    BY Zenon, <2>1 DEF RequestOK
  <2>3. Standing(enabled, entries, destination(request[g].tx))' =
          Standing(enabled, entries, destination(request'[g].tx))
    BY DEF Standing
  <2> QED BY Zenon, <2>1, <2>2, <2>3 DEF RequestOK
<1> QED BY Zenon, <1>1 DEF ApprovalsInv

(* The request a handler turns to after a step is in order.                *)
LEMMA QuietRequestOK == RequestOK(Quiet)
BY Zenon DEF RequestOK, Quiet, Pcs

(* An edit of the list, by its owner, is seen by every relay that is still *)
(* looking (put_config, add_address, remove_address).                      *)
LEMMA ListStep ==
    ASSUME ApprovalsInv, NEW on \in BOOLEAN, NEW list, \A e \in list : e = <<e[1], FALSE>>,
           Listed(on, list), UNCHANGED codes
    PROVE  ApprovalsInv'
<1>1. DOMAIN request' = Handlers
  BY Zenon DEF Listed
<1>2. ASSUME NEW g \in Handlers PROVE RequestOK(request[g])'
  <2>1. CASE request[g].pc \in {"config", "listed"}
    <3>1. request'[g] = Seeing(request[g], Standing(on, list, destination(request[g].tx)))
      BY Zenon, <2>1 DEF Listed
    <3>2. enabled' = on /\ entries' = list
      BY Zenon DEF Listed
    <3>3. RequestOK(request[g])
      BY Zenon DEF ApprovalsInv
    <3>4. /\ request'[g].pc = request[g].pc /\ request'[g].tx = request[g].tx
          /\ request'[g].seen = request[g].seen \cup {Standing(on, list, destination(request[g].tx))}
      BY <3>1 DEF Seeing
    <3>5. Standing(enabled, entries, destination(request[g].tx))' =
            Standing(on, list, destination(request[g].tx))
      BY Zenon, <3>2, <3>4 DEF Standing
    <3>6. request[g].pc = "listed" => \E s \in request'[g].seen : s[1]
      BY Zenon, <3>3, <3>4 DEF RequestOK
    <3> QED BY Zenon, <2>1, <3>3, <3>4, <3>5, <3>6 DEF RequestOK
  <2>2. CASE request[g].pc \notin {"config", "listed"}
    <3>1. request'[g] = request[g]
      BY Zenon, <2>2 DEF Listed
    <3> QED BY Zenon, <2>2, <3>1 DEF ApprovalsInv, RequestOK
  <2> QED BY Zenon, <2>1, <2>2
<1> QED BY Zenon, <1>1, <1>2 DEF ApprovalsInv, Listed, CodeOK

(* No wallet has a list, a code or a request at first.                     *)
LEMMA ApprovalsBegin == ApprovalsInit => ApprovalsInv
<1> SUFFICES ASSUME ApprovalsInit PROVE ApprovalsInv
  BY Zenon
<1>1. \A h \in Handlers : RequestOK(request[h])
  BY Zenon, QuietRequestOK DEF ApprovalsInit
<1>2. codes \in Seq(Codes) /\ DOMAIN codes = {}
  BY DEF ApprovalsInit
<1> QED BY Zenon, <1>1, <1>2 DEF ApprovalsInit, ApprovalsInv

(* A new code is appended; the older ones stay (create_otp).               *)
LEMMA RequestOtpStep ==
    ASSUME ApprovalsInv, NEW tx \in Transfers, withdraw_request_otp(tx)
    PROVE  ApprovalsInv'
<1> DEFINE c == [tx |-> tx, attempts |-> 0, consumed |-> FALSE, spent |-> <<>>]
<1>1. c \in Codes /\ CodeOK(c)
  BY DEF Codes, CodeOK
<1>2. codes' = Append(codes, c) /\ UNCHANGED <<enabled, entries, request>>
  BY Zenon DEF withdraw_request_otp
<1>3. codes \in Seq(Codes)
  BY Zenon DEF ApprovalsInv
<1>4. /\ codes' \in Seq(Codes) /\ DOMAIN codes' = 1 .. Len(codes) + 1 /\ DOMAIN codes = 1 .. Len(codes)
      /\ codes'[Len(codes) + 1] = c /\ Len(codes) \in Nat
      /\ \A n \in DOMAIN codes : codes'[n] = codes[n]
  BY <1>1, <1>2, <1>3
<1>5. \A n \in DOMAIN codes' : CodeOK(codes[n])'
  <2> SUFFICES ASSUME NEW n \in DOMAIN codes' PROVE CodeOK(codes'[n])
    BY Zenon DEF CodeOK
  <2>1. n \in DOMAIN codes \/ n = Len(codes) + 1
    BY <1>4
  <2> QED BY Zenon, <1>1, <1>4, <2>1 DEF ApprovalsInv
<1>6. DOMAIN request' = Handlers /\ \A g \in Handlers : RequestOK(request'[g])
  BY Zenon, <1>2 DEF ApprovalsInv
<1>7. DOMAIN codes \subseteq DOMAIN codes'
  BY <1>4
<1> HIDE DEF c
<1> QED BY Zenon, <1>2, <1>4, <1>5, <1>6, <1>7, CodesStep

(* A code changes in one place and keeps its transaction.                  *)
LEMMA OneCode ==
    ASSUME ApprovalsInv, NEW n \in DOMAIN codes, NEW c \in Codes, c.tx = codes[n].tx, CodeOK(c),
           codes' = [codes EXCEPT ![n] = c]
    PROVE  /\ codes' \in Seq(Codes) /\ \A i \in DOMAIN codes' : CodeOK(codes[i])'
           /\ DOMAIN codes \subseteq DOMAIN codes'
           /\ \A i \in DOMAIN codes : codes'[i].tx = codes[i].tx
<1>1. codes \in Seq(Codes) /\ \A i \in DOMAIN codes : CodeOK(codes[i])
  BY Zenon DEF ApprovalsInv
<1>2. codes' \in Seq(Codes) /\ DOMAIN codes' = DOMAIN codes
  BY <1>1
<1>3. \A i \in DOMAIN codes : codes'[i] = IF i = n THEN c ELSE codes[i]
  BY Zenon, <1>1
<1>4. \A i \in DOMAIN codes' : CodeOK(codes'[i])
  BY Zenon, <1>1, <1>2, <1>3
<1> QED BY Zenon, <1>2, <1>3, <1>4 DEF CodeOK

(* A request changes in one place.                                         *)
LEMMA OneRequest ==
    ASSUME ApprovalsInv, NEW h \in Handlers, NEW r, RequestOK(r), request' = [request EXCEPT ![h] = r]
    PROVE  DOMAIN request' = Handlers /\ \A g \in Handlers : RequestOK(request'[g])
BY Zenon DEF ApprovalsInv

(* An attempt is claimed, and a handler goes on only with the transaction  *)
(* the code is bound to (verify_and_consume_otp).                          *)
LEMMA ClaimStep ==
    ASSUME ApprovalsInv, NEW h \in Handlers, claim(h)
    PROVE  ApprovalsInv'
<1> DEFINE n == Len(codes)
           live == n > 0 /\ ~codes[n].consumed /\ codes[n].attempts < CodeAttempts
           fits == live /\ request[h].code = n /\ codes[n].tx = request[h].tx
           r == Moved(request[h], IF fits THEN "consume" ELSE "idle")
           c == Tried(codes[n], codes[n].attempts + 1)
<1>1. /\ request[h].pc = "claim" /\ UNCHANGED <<enabled, entries>>
      /\ codes' = IF live THEN [codes EXCEPT ![n] = c] ELSE codes
      /\ request' = [request EXCEPT ![h] = r]
  BY Zenon DEF claim, Goto
<1>2. codes \in Seq(Codes) /\ DOMAIN request = Handlers /\ RequestOK(request[h])
  BY Zenon DEF ApprovalsInv
<1>3. live => n \in DOMAIN codes
  BY <1>2
<1>4. RequestOK(r)
  <2>1. CASE fits
    <3>1. r.pc = "consume" /\ r.tx = request[h].tx /\ r.code = request[h].code
      BY Zenon, <2>1 DEF Moved
    <3> QED BY Zenon, <1>1, <1>2, <1>3, <2>1, <3>1 DEF RequestOK, Pcs
  <2>2. CASE ~fits
    BY Zenon, <2>2, QuietRequestOK DEF Moved
  <2> QED BY Zenon, <2>1, <2>2
<1>5. CASE ~live
  BY Zenon, <1>1, <1>4, <1>5, QuietStep
<1>6. CASE live
  <2>1. codes[n] \in Codes /\ CodeOK(codes[n])
    BY <1>2, <1>3, <1>6 DEF ApprovalsInv
  <2>2. c \in Codes /\ c.tx = codes[n].tx /\ CodeOK(c)
    BY <2>1 DEF Codes, CodeOK, Tried
  <2>3. /\ codes' \in Seq(Codes) /\ \A i \in DOMAIN codes' : CodeOK(codes[i])'
        /\ DOMAIN codes \subseteq DOMAIN codes'
        /\ \A i \in DOMAIN codes : codes'[i].tx = codes[i].tx
    BY Zenon, <1>1, <1>3, <1>6, <2>2, OneCode
  <2>4. DOMAIN request' = Handlers /\ \A g \in Handlers : RequestOK(request'[g])
    BY Zenon, <1>1, <1>4, OneRequest
  <2> QED BY Zenon, <1>1, <2>3, <2>4, CodesStep
<1> QED BY Zenon, <1>5, <1>6

(* The code is spent by the first handler to reach the conditional update, *)
(* with its own transaction (verify_and_consume_otp).                      *)
LEMMA ConsumeStep ==
    ASSUME ApprovalsInv, NEW h \in Handlers, consume(h)
    PROVE  ApprovalsInv'
<1> DEFINE n == request[h].code
           r == Moved(request[h], IF codes[n].consumed THEN "idle" ELSE "lock")
           c == Redeemed(codes[n], request[h].tx)
<1>1. /\ request[h].pc = "consume" /\ UNCHANGED <<enabled, entries>>
      /\ codes' = IF codes[n].consumed THEN codes ELSE [codes EXCEPT ![n] = c]
      /\ request' = [request EXCEPT ![h] = r]
  BY Zenon DEF consume, Goto
<1>2. RequestOK(request[h])
  BY Zenon DEF ApprovalsInv
<1>3. n \in DOMAIN codes /\ codes[n].tx = request[h].tx /\ request[h].tx \in Transfers
  BY Zenon, <1>1, <1>2 DEF RequestOK
<1>4. RequestOK(r)
  <2>1. CASE codes[n].consumed
    BY Zenon, <2>1, QuietRequestOK DEF Moved
  <2>2. CASE ~codes[n].consumed
    <3>1. r.pc = "lock" /\ r.tx = request[h].tx
      BY Zenon, <2>2 DEF Moved
    <3> QED BY Zenon, <1>3, <3>1 DEF RequestOK, Pcs
  <2> QED BY Zenon, <2>1, <2>2
<1>5. CASE codes[n].consumed
  BY Zenon, <1>1, <1>4, <1>5, QuietStep
<1>6. CASE ~codes[n].consumed
  <2>1. codes[n] \in Codes /\ CodeOK(codes[n])
    BY <1>3 DEF ApprovalsInv
  <2>2. codes[n].spent = <<>>
    BY Zenon, <1>6, <2>1 DEF CodeOK
  <2>3. /\ c.tx = codes[n].tx /\ c.attempts = codes[n].attempts
        /\ c.consumed = TRUE /\ c.spent = <<codes[n].tx>>
    BY <1>3, <2>2 DEF Redeemed
  <2>4. c \in Codes
    BY <1>3, <2>1, <2>2 DEF Codes, Redeemed
  <2>5. CodeOK(c)
    BY Zenon, <2>3 DEF CodeOK
  <2>6. /\ codes' \in Seq(Codes) /\ \A i \in DOMAIN codes' : CodeOK(codes[i])'
        /\ DOMAIN codes \subseteq DOMAIN codes'
        /\ \A i \in DOMAIN codes : codes'[i].tx = codes[i].tx
    <3>1. codes' = [codes EXCEPT ![n] = c]
      BY Zenon, <1>1, <1>6
    <3> HIDE DEF c
    <3> QED BY Zenon, <1>3, <2>3, <2>4, <2>5, <3>1, OneCode
  <2>7. DOMAIN request' = Handlers /\ \A g \in Handlers : RequestOK(request'[g])
    BY Zenon, <1>1, <1>4, OneRequest
  <2> QED BY Zenon, <1>1, <2>6, <2>7, CodesStep
<1> QED BY Zenon, <1>5, <1>6

(* A code that expires is still the code it was.                           *)
LEMMA ExpireStep ==
    ASSUME ApprovalsInv, NEW n \in DOMAIN codes, Expire_code(n)
    PROVE  ApprovalsInv'
<1> DEFINE c == Tried(codes[n], CodeAttempts)
<1>1. codes' = [codes EXCEPT ![n] = c] /\ UNCHANGED <<enabled, entries, request>>
  BY Zenon DEF Expire_code
<1>2. codes[n] \in Codes /\ CodeOK(codes[n])
  BY DEF ApprovalsInv
<1>3. c \in Codes /\ c.tx = codes[n].tx /\ CodeOK(c)
  BY Zenon, <1>2, ApprovalsAssumption DEF Codes, CodeOK, Tried
<1>4. /\ codes' \in Seq(Codes) /\ \A i \in DOMAIN codes' : CodeOK(codes[i])'
      /\ DOMAIN codes \subseteq DOMAIN codes'
      /\ \A i \in DOMAIN codes : codes'[i].tx = codes[i].tx
  BY Zenon, <1>1, <1>3, OneCode
<1>5. DOMAIN request' = Handlers /\ \A g \in Handlers : RequestOK(request'[g])
  BY Zenon, <1>1 DEF ApprovalsInv
<1> QED BY Zenon, <1>1, <1>4, <1>5, CodesStep

(* A relay begins with the list as it is under the account's lock; one     *)
(* without a Payment posts and looks at nothing.                           *)
LEMMA LockStep ==
    ASSUME ApprovalsInv, NEW h \in Handlers, sequence_lock(h)
    PROVE  ApprovalsInv'
<1> DEFINE s == Standing(enabled, entries, destination(request[h].tx))
           r == IF ~HasPayment(request[h].tx) THEN Moved(request[h], "post")
                ELSE Seeing(Moved(request[h], "config"), s)
<1>1. /\ request[h].pc = "lock" /\ UNCHANGED <<enabled, entries, codes>>
      /\ request' = [request EXCEPT ![h] = r]
  BY Zenon DEF sequence_lock
<1>2. request[h].tx \in Transfers
  BY Zenon, <1>1 DEF ApprovalsInv, RequestOK
<1>3. RequestOK(r)
  <2>1. CASE ~HasPayment(request[h].tx)
    <3>1. r.pc = "post" /\ r.tx = request[h].tx
      BY Zenon, <2>1 DEF Moved
    <3> QED BY Zenon, <2>1, <3>1 DEF RequestOK, Pcs
  <2>2. CASE HasPayment(request[h].tx)
    <3>1. r.pc = "config" /\ r.tx = request[h].tx /\ s \in r.seen
      BY Zenon, <2>2 DEF Seeing, Moved
    <3> QED BY Zenon, <1>2, <3>1 DEF RequestOK, Pcs
  <2> QED BY Zenon, <2>1, <2>2
<1> QED BY Zenon, <1>1, <1>3, QuietStep

(* With the switch off the relay posts, and has seen it off; with the      *)
(* switch on it has seen it on, and looks its destination up.              *)
LEMMA ConfigStep ==
    ASSUME ApprovalsInv, NEW h \in Handlers, get_withdrawal_allowlist_config(h)
    PROVE  ApprovalsInv'
<1> DEFINE r == Moved(request[h], IF enabled THEN "listed" ELSE "post")
           s == Standing(enabled, entries, destination(request[h].tx))
<1>1. /\ request[h].pc = "config" /\ UNCHANGED <<enabled, entries, codes>>
      /\ request' = [request EXCEPT ![h] = r]
  BY Zenon DEF get_withdrawal_allowlist_config, Goto
<1>2. request[h].tx \in Transfers /\ s \in request[h].seen /\ enabled \in BOOLEAN
  BY Zenon, <1>1 DEF ApprovalsInv, RequestOK
<1>3. s[1] = enabled
  BY Zenon DEF Standing
<1>4. CASE enabled
  <2>1. r.pc = "listed" /\ r.tx = request[h].tx /\ r.seen = request[h].seen
    BY Zenon, <1>4 DEF Moved
  <2>2. \E v \in r.seen : v[1]
    BY Zenon, <1>2, <1>3, <1>4, <2>1
  <2>3. RequestOK(r)
    BY Zenon, <1>2, <2>1, <2>2 DEF RequestOK, Pcs
  <2> QED BY Zenon, <1>1, <2>3, QuietStep
<1>5. CASE ~enabled
  <2>1. r.pc = "post" /\ r.seen = request[h].seen
    BY Zenon, <1>5 DEF Moved
  <2>2. ~s[1] /\ s \in r.seen
    BY <1>2, <1>3, <1>5, <2>1, Zenon
  <2>3. RequestOK(r)
    BY Zenon, <2>1, <2>2 DEF RequestOK, Pcs
  <2> QED BY Zenon, <1>1, <2>3, QuietStep
<1> QED BY Zenon, <1>4, <1>5

(* Since every entry is a base account, the base account of a destination  *)
(* is an entry exactly if the destination is listed in some form.          *)
LEMMA WhitelistStep ==
    ASSUME ApprovalsInv, NEW h \in Handlers, is_address_whitelisted(h)
    PROVE  ApprovalsInv'
<1> DEFINE to == destination(request[h].tx)
           base == to_base_account(to)
           r == Moved(request[h], IF base \in entries THEN "post" ELSE "refused")
           s == Standing(enabled, entries, destination(request[h].tx))
<1>1. /\ request[h].pc = "listed" /\ UNCHANGED <<enabled, entries, codes>>
      /\ request' = [request EXCEPT ![h] = r]
  BY Zenon DEF is_address_whitelisted, Goto
<1>2. s \in request[h].seen /\ \E v \in request[h].seen : v[1]
  BY Zenon, <1>1 DEF ApprovalsInv, RequestOK
<1>3. s[2] = \E e \in entries : e[1] = to[1]
  BY Zenon DEF Standing
<1>4. CASE base \in entries
  <2>1. r.pc = "post" /\ r.seen = request[h].seen
    BY Zenon, <1>4 DEF Moved
  <2>2. base[1] = to[1]
    BY Zenon DEF to_base_account
  <2>3. s[2]
    BY Zenon, <1>3, <1>4, <2>2
  <2>4. s \in r.seen
    BY <1>2, <2>1, Zenon
  <2>5. RequestOK(r)
    BY Zenon, <2>1, <2>3, <2>4 DEF RequestOK, Pcs
  <2> QED BY Zenon, <1>1, <2>5, QuietStep
<1>5. CASE base \notin entries
  <2>1. r.pc = "refused" /\ r.seen = request[h].seen
    BY Zenon, <1>5 DEF Moved
  <2>2. \A e \in entries : e[1] # to[1]
    BY Zenon, <1>5 DEF ApprovalsInv, to_base_account
  <2>3. ~s[2]
    BY Zenon, <1>3, <2>2
  <2>4. (\E v \in r.seen : v[1]) /\ (\E v \in r.seen : ~v[2])
    BY Zenon, <1>2, <2>1, <2>3
  <2>5. RequestOK(r)
    BY Zenon, <2>1, <2>4 DEF RequestOK, Pcs
  <2> QED BY Zenon, <1>1, <2>5, QuietStep
<1> QED BY Zenon, <1>4, <1>5

(* A step that touches none of the codes, the list and the requests.       *)
LEMMA StutterStep ==
    ASSUME ApprovalsInv, UNCHANGED <<enabled, entries, codes, request>>
    PROVE  ApprovalsInv'
BY ZenonT(60) DEF ApprovalsInv, RequestOK, CodeOK, Standing

(* Every step of the handlers, of the owner and of the clock keeps the     *)
(* invariant.                                                              *)
LEMMA ApprovalsStep == ApprovalsInv /\ [ApprovalsNext]_approvalvars => ApprovalsInv'
<1> SUFFICES ASSUME ApprovalsInv, [ApprovalsNext]_approvalvars PROVE ApprovalsInv'
  BY Zenon
<1>1. ASSUME NEW tx \in Transfers, withdraw_request_otp(tx) PROVE ApprovalsInv'
  BY Zenon, <1>1, RequestOtpStep
<1>2. ASSUME NEW h \in Handlers, NEW tx \in Transfers, submit_signed(h, tx) PROVE ApprovalsInv'
  <2> DEFINE r == [pc |-> "lock", tx |-> tx, code |-> 0, seen |-> {}]
  <2>1. RequestOK(r)
    BY Zenon DEF RequestOK, Pcs
  <2>2. request' = [request EXCEPT ![h] = r] /\ UNCHANGED <<enabled, entries, codes>>
    BY Zenon, <1>2 DEF submit_signed
  <2> HIDE DEF r
  <2> QED BY Zenon, <2>1, <2>2, QuietStep
<1>3. ASSUME NEW h \in Handlers, NEW tx \in Transfers, NEW c \in 0 .. Len(codes),
             withdraw_confirm(h, tx, c)
      PROVE  ApprovalsInv'
  <2> DEFINE r == [pc |-> "claim", tx |-> tx, code |-> c, seen |-> {}]
  <2>1. RequestOK(r)
    BY Zenon DEF RequestOK, Pcs
  <2>2. request' = [request EXCEPT ![h] = r] /\ UNCHANGED <<enabled, entries, codes>>
    BY Zenon, <1>3 DEF withdraw_confirm
  <2> HIDE DEF r
  <2> QED BY Zenon, <2>1, <2>2, QuietStep
<1>4. ASSUME NEW h \in Handlers,
             \/ claim(h) \/ consume(h) \/ sequence_lock(h)
             \/ get_withdrawal_allowlist_config(h) \/ is_address_whitelisted(h)
      PROVE  ApprovalsInv'
  BY Zenon, <1>4, ClaimStep, ConsumeStep, LockStep, ConfigStep, WhitelistStep
<1>5. ASSUME NEW h \in Handlers, Reply(h) PROVE ApprovalsInv'
  BY Zenon, <1>5, QuietStep, QuietRequestOK DEF Reply, Goto, Moved
<1>6. ASSUME NEW on \in BOOLEAN, put_config(on) PROVE ApprovalsInv'
  BY Zenon, <1>6, ListStep DEF put_config, ApprovalsInv
<1>7. ASSUME NEW a \in Destinations, add_address(a) PROVE ApprovalsInv'
  <2>1. \A e \in entries \cup {to_base_account(a)} : e = <<e[1], FALSE>>
    <3> DEFINE b == to_base_account(a)
    <3>1. b[1] = a[1] /\ b = <<a[1], FALSE>>
      BY Zenon DEF to_base_account
    <3>2. \A e \in entries : e = <<e[1], FALSE>>
      BY Zenon DEF ApprovalsInv
    <3> HIDE DEF b
    <3>3. b = <<b[1], FALSE>>
      BY <3>1, Zenon
    <3>4. \A e \in entries \cup {b} : e \in entries \/ e = b
      BY Zenon
    <3>5. \A e \in entries \cup {b} : e = <<e[1], FALSE>>
      BY <3>2, <3>3, <3>4, Zenon
    <3> QED BY Zenon, <3>5 DEF b
  <2>2. Listed(enabled, entries \cup {to_base_account(a)}) /\ UNCHANGED codes /\ enabled \in BOOLEAN
    BY Zenon, <1>7 DEF add_address, ApprovalsInv
  <2> QED BY Zenon, <2>1, <2>2, ListStep
<1>8. ASSUME NEW a \in Destinations, remove_address(a) PROVE ApprovalsInv'
  <2>1. \A e \in entries \ {a} : e = <<e[1], FALSE>>
    BY Zenon DEF ApprovalsInv
  <2>2. Listed(enabled, entries \ {a}) /\ UNCHANGED codes /\ enabled \in BOOLEAN
    BY Zenon, <1>8 DEF remove_address, ApprovalsInv
  <2> QED BY Zenon, <2>1, <2>2, ListStep
<1>9. CASE put_config_reads \/ Archive \/ UNCHANGED approvalvars
  BY Zenon, <1>9, StutterStep DEF put_config_reads, Archive, approvalvars
<1>10. ASSUME NEW n \in DOMAIN codes, Expire_code(n) PROVE ApprovalsInv'
  BY Zenon, <1>10, ExpireStep
<1> QED BY Zenon, <1>1, <1>2, <1>3, <1>4, <1>5, <1>6, <1>7, <1>8, <1>9, <1>10 DEF ApprovalsNext

(* The invariant holds of every reachable state.                           *)
THEOREM ApprovalsHold == ApprovalsSpec => []ApprovalsInv
BY ApprovalsBegin, ApprovalsStep, PTL DEF ApprovalsSpec

(* A code lets one request through, for the transaction it was sent for    *)
(* (verify_and_consume_otp), however many confirmations race.              *)
THEOREM SpentOnce == ApprovalsSpec => []CodeSpentOnce
<1>1. ApprovalsInv => CodeSpentOnce
  <2> SUFFICES ASSUME ApprovalsInv, NEW n \in DOMAIN codes
               PROVE  /\ Len(codes[n].spent) <= 1
                      /\ \A i \in DOMAIN codes[n].spent : codes[n].spent[i] = codes[n].tx
    BY Zenon DEF CodeSpentOnce
  <2>1. codes[n].spent = <<>> \/ codes[n].spent = <<codes[n].tx>>
    BY Zenon DEF ApprovalsInv, CodeOK
  <2>2. CASE codes[n].spent = <<>>
    BY <2>2
  <2>3. CASE codes[n].spent = <<codes[n].tx>>
    <3>1. Len(codes[n].spent) = 1 /\ DOMAIN codes[n].spent = 1 .. 1
      BY <2>3
    <3>2. codes[n].spent[1] = codes[n].tx
      BY <2>3
    <3> QED BY <3>1, <3>2
  <2> QED BY Zenon, <2>1, <2>2, <2>3
<1> QED BY <1>1, ApprovalsHold, PTL

(* The allow-list decides whether a relay posts a transaction that has a   *)
(* Payment, by the first one's destination, and what it refuses            *)
(* (relay_signed_transaction), however its owner edits it meanwhile.       *)
THEOREM AllowListDecides == ApprovalsSpec => []ListDecides
<1>1. ApprovalsInv => ListDecides
  BY Zenon DEF ApprovalsInv, RequestOK, ListDecides
<1> QED BY <1>1, ApprovalsHold, PTL
=============================================================================
