------------------------- MODULE SponsorshipProofs -------------------------
(***************************************************************************)
(* Proofs about Sponsorship: reservations of one wallet never miss each    *)
(* other and stay within the budget of their day, an inner transaction is  *)
(* fee-bumped at most once, and confirmed rows are true, for any number of *)
(* processes, wallets and transactions.                                    *)
(***************************************************************************)
EXTENDS Sponsorship, FiniteSetTheorems, WellFoundedInduction, TLAPS

(***************************************************************************)
(* The sum of the fees of a set of rows.  It is a fold over the set in an  *)
(* order that CHOOSE picks; that the fold is defined, and does not depend  *)
(* on the order, is shown by least counterexamples among the sets of       *)
(* transactions, which are finitely many.                                  *)
(***************************************************************************)
One(s) == CHOOSE x \in s : TRUE

IsSum(f, S) ==
    f = [s \in SUBSET S |-> IF s = {} THEN 0 ELSE Fee[One(s)] + f[s \ {One(s)}]]

Sum(S) == CHOOSE f : IsSum(f, S)

\* Spent is the fold that MapThenSumSet takes.
LEMMA SpentIs == \A S : Spent(S) = Sum(S)[S]
BY Zenon DEF Spent, MapThenSumSet, MapThenFoldSet, Sum, IsSum, One

\* Of sets of transactions, one is least: what the inductions below rest on.
LEMMA Least ==
    ASSUME NEW B \in SUBSET SUBSET Txs, B # {}
    PROVE  \E T \in B : \A U \in B : U \subseteq T => U = T
<1>1. IsWellFoundedOn(StrictSubsetOrdering(Txs), SUBSET Txs)
  <2>1. FiniteSubsetsOf(Txs) = SUBSET Txs
    BY FiniteTxs, FS_FiniteSubsetsOfFinite, Zenon
  <2>2. IsWellFoundedOn(StrictSubsetOrdering(Txs), FiniteSubsetsOf(Txs))
    BY Zenon, FS_StrictSubsetOrderingWellFounded
  <2> HIDE DEF StrictSubsetOrdering, IsWellFoundedOn, FiniteSubsetsOf
  <2> QED BY Zenon, <2>1, <2>2
<1>2. \E x \in B : \A y \in B : ~(<<y, x>> \in StrictSubsetOrdering(Txs))
  BY <1>1, WFMin, Zenon
<1> QED BY Zenon, <1>2 DEF StrictSubsetOrdering

\* What the fold picks is in the set.
LEMMA OneIn == \A s : s # {} => One(s) \in s
BY Zenon DEF One

\* A function that solves the recursion, at one set.
LEMMA SumUnfold ==
    ASSUME NEW f, NEW S, IsSum(f, S), NEW U \in SUBSET S
    PROVE  f[U] = IF U = {} THEN 0 ELSE Fee[One(U)] + f[U \ {One(U)}]
BY Zenon DEF IsSum

\* Two solutions agree where both are defined.
LEMMA SumAgree ==
    ASSUME NEW S \in SUBSET Txs, NEW T \in SUBSET Txs, NEW f, NEW g, IsSum(f, S), IsSum(g, T),
           NEW U \in SUBSET (S \cap T)
    PROVE  f[U] = g[U]
<1> DEFINE B == {V \in SUBSET (S \cap T) : f[V] # g[V]}
<1> SUFFICES ASSUME B # {} PROVE FALSE
  BY Zenon
<1>0. B \in SUBSET SUBSET Txs
  BY Zenon
<1>1. PICK M \in B : \A V \in B : V \subseteq M => V = M
  <2> HIDE DEF B
  <2> QED BY <1>0, Least, Zenon
<1>2. M \in SUBSET S /\ M \in SUBSET T /\ f[M] # g[M]
  BY Zenon
<1>3. /\ f[M] = IF M = {} THEN 0 ELSE Fee[One(M)] + f[M \ {One(M)}]
      /\ g[M] = IF M = {} THEN 0 ELSE Fee[One(M)] + g[M \ {One(M)}]
  BY <1>2, SumUnfold, Zenon
<1>4. M # {} => f[M \ {One(M)}] = g[M \ {One(M)}]
  BY <1>1, OneIn
<1> QED BY Zenon, <1>2, <1>3, <1>4

\* So do the folds over a set and over one of its subsets.
LEMMA SumSub ==
    ASSUME NEW U \in SUBSET Txs, NEW V \in SUBSET U, IsSum(Sum(U), U), IsSum(Sum(V), V)
    PROVE  Sum(U)[V] = Sum(V)[V]
<1>1. V \in SUBSET Txs /\ V \in SUBSET (U \cap V)
  BY Zenon
<1> DEFINE f == Sum(U)
           g == Sum(V)
<1> HIDE DEF f, g
<1>2. IsSum(f, U) /\ IsSum(g, V)
  BY Zenon DEF f, g
<1>3. f[V] = g[V]
  BY <1>1, <1>2, SumAgree
<1> QED BY Zenon, <1>3 DEF f, g

\* The recursion has a solution over every set of transactions.
LEMMA SumExists == \A S \in SUBSET Txs : IsSum(Sum(S), S)
<1> DEFINE B == {S \in SUBSET Txs : ~ \E f : IsSum(f, S)}
<1> SUFFICES ASSUME B # {} PROVE FALSE
  BY Zenon DEF Sum
<1>0. B \in SUBSET SUBSET Txs
  BY Zenon
<1>1. PICK M \in B : \A V \in B : V \subseteq M => V = M
  <2> HIDE DEF B
  <2> QED BY <1>0, Least, Zenon
<1>2. \A U \in SUBSET M : U # M => IsSum(Sum(U), U)
  BY Zenon, <1>1 DEF Sum
<1> DEFINE F == [U \in SUBSET M |-> IF U = {} THEN 0
                   ELSE IF U = M THEN Fee[One(M)] + Sum(M \ {One(M)})[M \ {One(M)}]
                   ELSE Sum(U)[U]]
<1> HIDE DEF B
<1>3. \A U \in SUBSET M : U # M => F[U] = Sum(U)[U]
  <2> TAKE U \in SUBSET M
  <2> HAVE U # M
  <2>1. IsSum(Sum(U), U)
    BY Zenon, <1>2
  <2>2. U = {} => Sum(U)[U] = 0
    BY <2>1, SumUnfold, Zenon
  <2> QED BY Zenon, <2>2
<1>4. ASSUME NEW U \in SUBSET M, U # {} PROVE F[U] = Fee[One(U)] + F[U \ {One(U)}]
  <2>1. U \ {One(U)} \in SUBSET M /\ U \ {One(U)} # M /\ U \ {One(U)} # U
    BY Zenon, <1>4, OneIn
  <2>2. CASE U = M
    BY Zenon, <1>3, <1>4, <2>1, <2>2
  <2>3. CASE U # M
    <3>1. IsSum(Sum(U), U) /\ IsSum(Sum(U \ {One(U)}), U \ {One(U)})
      BY Zenon, <1>2, <2>1, <2>3
    <3>2. Sum(U)[U] = Fee[One(U)] + Sum(U)[U \ {One(U)}]
      BY <1>4, <3>1, SumUnfold, Zenon
    <3>3. Sum(U)[U \ {One(U)}] = Sum(U \ {One(U)})[U \ {One(U)}]
      <4>1. U \in SUBSET Txs /\ U \ {One(U)} \in SUBSET U
        BY Zenon, <1>1 DEF B
      <4> QED BY <3>1, <4>1, SumSub, Zenon
    <3> QED BY Zenon, <1>3, <2>1, <2>3, <3>2, <3>3
  <2> QED BY Zenon, <2>2, <2>3
<1>5. {} \in SUBSET M /\ F[{}] = 0
  BY Zenon
<1>6. DOMAIN F = SUBSET M /\ F = [U \in SUBSET M |-> F[U]]
  BY Zenon
<1> HIDE DEF F
<1>7. IsSum(F, M)
  BY Zenon, <1>4, <1>5, <1>6 DEF IsSum
<1> QED BY Zenon, <1>1, <1>7 DEF B

\* The sum is the fee of the transaction the fold picks and the sum of the others.
LEMMA SpentStep ==
    ASSUME NEW S \in SUBSET Txs
    PROVE  Spent(S) = IF S = {} THEN 0 ELSE Fee[One(S)] + Spent(S \ {One(S)})
<1>1. IsSum(Sum(S), S) /\ IsSum(Sum(S \ {One(S)}), S \ {One(S)})
  BY Zenon, SumExists
<1>2. Sum(S)[S] = IF S = {} THEN 0 ELSE Fee[One(S)] + Sum(S)[S \ {One(S)}]
  BY <1>1, SumUnfold, Zenon
<1>3. Sum(S)[S \ {One(S)}] = Sum(S \ {One(S)})[S \ {One(S)}]
  <2>1. S \ {One(S)} \in SUBSET S
    BY Zenon
  <2> QED BY <1>1, <2>1, SumSub, Zenon
<1> QED BY Zenon, <1>2, <1>3, SpentIs

\* A sum of fees is a natural number.
LEMMA SpentNat == \A S \in SUBSET Txs : Spent(S) \in Nat
<1> DEFINE B == {S \in SUBSET Txs : Spent(S) \notin Nat}
<1> SUFFICES ASSUME B # {} PROVE FALSE
  BY Zenon
<1>0. B \in SUBSET SUBSET Txs
  BY Zenon
<1>1. PICK M \in B : \A V \in B : V \subseteq M => V = M
  <2> HIDE DEF B
  <2> QED BY <1>0, Least, Zenon
<1>2. CASE M = {}
  BY <1>2, SpentStep
<1>3. CASE M # {}
  <2>1. One(M) \in M /\ Spent(M) = Fee[One(M)] + Spent(M \ {One(M)})
    BY Zenon, <1>3, SpentStep, OneIn
  <2>2. Spent(M \ {One(M)}) \in Nat
    BY <1>1, <2>1
  <2>3. Fee[One(M)] \in Nat
    BY Zenon, SponsorshipAssumption, <2>1
  <2> QED BY <2>1, <2>2, <2>3
<1> QED BY Zenon, <1>2, <1>3

\* Any transaction may be taken out of the sum first.
LEMMA SpentAny ==
    \A S \in SUBSET Txs : \A x \in S : Spent(S) = Fee[x] + Spent(S \ {x})
<1> DEFINE P(S) == \A x \in S : Spent(S) = Fee[x] + Spent(S \ {x})
           B == {S \in SUBSET Txs : ~P(S)}
<1> SUFFICES ASSUME B # {} PROVE FALSE
  BY Zenon
<1>0. B \in SUBSET SUBSET Txs
  BY Zenon
<1>1. PICK M \in B : \A V \in B : V \subseteq M => V = M
  <2> HIDE DEF B
  <2> QED BY <1>0, Least, Zenon
<1>2. PICK x \in M : Spent(M) # Fee[x] + Spent(M \ {x})
  BY Zenon
<1>3. \A V \in SUBSET M : V # M => P(V)
  BY Zenon, <1>1
<1> HIDE DEF B
<1> DEFINE c == One(M)
<1>4. c \in M /\ Spent(M) = Fee[c] + Spent(M \ {c}) /\ c # x
  BY Zenon, <1>2, SpentStep, OneIn DEF B
<1> HIDE DEF c
<1>5. Spent(M \ {c}) = Fee[x] + Spent((M \ {c}) \ {x})
  BY Zenon, <1>3, <1>4
<1>6. Spent(M \ {x}) = Fee[c] + Spent((M \ {x}) \ {c})
  BY Zenon, <1>3, <1>4
<1>7. (M \ {c}) \ {x} = (M \ {x}) \ {c}
  BY Zenon
<1>8. Fee[x] \in Nat /\ Fee[c] \in Nat /\ Spent((M \ {x}) \ {c}) \in Nat
  BY Zenon, SponsorshipAssumption, <1>4, SpentNat DEF B
<1> DEFINE n == Spent((M \ {x}) \ {c})
           a == Spent(M)
           b == Spent(M \ {x})
           d == Spent(M \ {c})
<1>9. a = Fee[c] + d /\ d = Fee[x] + n /\ b = Fee[c] + n /\ n \in Nat
  BY Zenon, <1>4, <1>5, <1>6, <1>7, <1>8
<1> HIDE DEF n, a, b, d
<1>10. a = Fee[x] + b
  BY <1>8, <1>9
<1> QED BY Zenon, <1>2, <1>10 DEF a, b

\* More rows cost no less.
LEMMA SpentMono ==
    \A T \in SUBSET Txs : \A S \in SUBSET T : Spent(S) <= Spent(T)
<1> DEFINE P(T) == \A S \in SUBSET T : Spent(S) <= Spent(T)
           B == {T \in SUBSET Txs : ~P(T)}
<1> SUFFICES ASSUME B # {} PROVE FALSE
  BY Zenon
<1>0. B \in SUBSET SUBSET Txs
  BY Zenon
<1>1. PICK M \in B : \A V \in B : V \subseteq M => V = M
  <2> HIDE DEF B
  <2> QED BY <1>0, Least, Zenon
<1>2. PICK S \in SUBSET M : ~(Spent(S) <= Spent(M))
  BY Zenon
<1>3. \A V \in SUBSET M : V # M => P(V)
  BY Zenon, <1>1
<1>4. Spent(M) \in Nat /\ Spent(S) \in Nat
  BY Zenon, SpentNat
<1>5. PICK x \in M \ S : TRUE
  BY <1>2, <1>4
<1>6. Spent(M) = Fee[x] + Spent(M \ {x}) /\ Fee[x] \in Nat /\ Spent(M \ {x}) \in Nat
  BY Zenon, SponsorshipAssumption, SpentAny, SpentNat
<1>7. Spent(S) <= Spent(M \ {x})
  BY Zenon, <1>3, <1>5
<1> QED BY <1>2, <1>4, <1>6, <1>7

\* Init establishes the inductive invariant.
LEMMA InitIInv == Init => IInv
<1> SUFFICES ASSUME Init PROVE IInv
  BY Zenon
<1>1. Idle \in Requests
  BY SponsorshipAssumption DEF Idle, Requests, Limits
<1>2. TypeOK
  BY SponsorshipAssumption, <1>1 DEF Init, TypeOK, Limits
<1> QED
  BY Zenon, <1>2 DEF Init, IInv, RowsOK, Distinct, NoBlindReservation, ConfirmedIsApplied, HandlerOK,
              Idle, Live, Holds

\* What the steps of others may do to the state without disturbing handler q.
Undisturbed(q, y) ==
    /\ \A w \in Wallets : lock[w] = q => lock'[w] = q
    /\ y.pc = "commit" => /\ status'[y.tx] = status[y.tx]
                          /\ Reserved(y.wallet, y.began)' \subseteq Reserved(y.wallet, y.began)
    /\ y.pc \in Holds => status'[y.tx] = status[y.tx] /\ (y.tx \in old' => y.tx \in old)
    /\ y.pc = "sign" => bump'[y.tx] = bump[y.tx]
    /\ y.pc = "finalize" /\ bump[y.tx] = "applied" => bump'[y.tx] = "applied"

\* A handler that is not disturbed keeps what it relies on.
LEMMA HandlerKept ==
    ASSUME NEW q \in Servers, NEW y \in Requests, HandlerOK(q, y), Undisturbed(q, y)
    PROVE  HandlerOK(q, y)'
<1>1. y.pc = "commit" => Reserved(y.wallet, y.began)' \subseteq y.seen
  BY Zenon DEF HandlerOK, Undisturbed
<1>2. HandlerOK(q, y)!1' /\ HandlerOK(q, y)!2'
  BY Zenon DEF HandlerOK, Undisturbed
<1>3. HandlerOK(q, y)!4' /\ HandlerOK(q, y)!5' /\ HandlerOK(q, y)!6'
  BY Zenon DEF HandlerOK, Undisturbed, Holds
<1>4. y.pc = "commit" => status'[y.tx] = "none" /\ Covers(y.limit, y.seen, y.tx)
  BY Zenon DEF HandlerOK, Undisturbed
<1> QED BY Zenon, <1>1, <1>2, <1>3, <1>4 DEF HandlerOK

\* A server step: s goes on as x, every other handler is as it was.
LEMMA Served ==
    ASSUME TypeOK, NEW s \in Servers, NEW x \in Requests, Serve(s, x)
    PROVE  /\ server' \in [Servers -> Requests] /\ server'[s] = x
           /\ \A q \in Servers : q # s => server'[q] = server[q]
BY Zenon DEF TypeOK, Serve

\* When s goes on as a well-formed x and disturbs nobody, all handlers are well
\* formed.
LEMMA HandlersKept ==
    ASSUME IInv, NEW s \in Servers, NEW x \in Requests, Serve(s, x), HandlerOK(s, x)',
           \A q \in Servers : q # s => Undisturbed(q, server[q])
    PROVE  \A q \in Servers : HandlerOK(q, server[q])'
<1> SUFFICES ASSUME NEW q \in Servers PROVE HandlerOK(q, server[q])'
  BY Zenon
<1>1. /\ server' \in [Servers -> Requests] /\ server'[s] = x
      /\ \A v \in Servers : v # s => server'[v] = server[v]
  BY Zenon, Served DEF IInv
<1>2. CASE q = s
  BY Zenon, <1>1, <1>2 DEF HandlerOK, Reserved, Live
<1>3. CASE q # s
  <2>1. PICK y \in Requests : y = server[q]
    BY Zenon DEF IInv, TypeOK
  <2>2. HandlerOK(q, y)'
    BY Zenon, <2>1, <1>3, HandlerKept DEF IInv
  <2> QED BY Zenon, <2>1, <2>2, <1>1, <1>3 DEF HandlerOK, Reserved, Live
<1> QED BY Zenon, <1>2, <1>3

\* The hash of s, if it has one now, is that of no other handler.
Alone(s, x) ==
    x.pc \in {"commit"} \cup Holds =>
        \A q \in Servers : q # s /\ server[q].pc \in {"commit"} \cup Holds => server[q].tx # x.tx

\* A handler that ends claims nothing.
LEMMA IdleOK ==
    ASSUME NEW s \in Servers
    PROVE  Idle \in Requests /\ HandlerOK(s, Idle)' /\ Alone(s, Idle)
<1>1. Idle \in Requests
  <2>1. Off \in Limits /\ 0 \in 0..MaxDay
    BY SponsorshipAssumption DEF Limits
  <2> QED BY Zenon, <2>1 DEF Idle, Requests
<1>2. Idle.pc = "idle"
  BY Zenon DEF Idle
<1>3. HandlerOK(s, Idle)'
  BY Zenon, <1>2 DEF HandlerOK, Holds
<1>4. Alone(s, Idle)
  BY Zenon, <1>2 DEF Alone, Holds
<1> QED BY Zenon, <1>1, <1>3, <1>4

\* A handler that is alone with its hash keeps the handlers apart.
LEMMA DistinctKept ==
    ASSUME IInv, NEW s \in Servers, NEW x \in Requests, Serve(s, x), Alone(s, x)
    PROVE  Distinct'
<1>1. /\ server'[s] = x
      /\ \A v \in Servers : v # s => server'[v] = server[v]
  BY Zenon, Served DEF IInv
<1> QED BY Zenon, <1>1 DEF IInv, Distinct, Alone

\* A server step that touches neither the rows nor the fee-bumps.
LEMMA QuietServer ==
    ASSUME IInv, NEW s \in Servers, NEW x \in Requests, Serve(s, x),
           UNCHANGED <<config, rows, bump>>, lock' \in [Wallets -> Servers \cup {Free}],
           \A w \in Wallets, q \in Servers : q # s /\ lock[w] = q => lock'[w] = q,
           HandlerOK(s, x)', Alone(s, x)
    PROVE  IInv'
<1>1. TypeOK'
  BY Zenon, Served DEF IInv, TypeOK, config, rows
<1>2. RowsOK' /\ NoBlindReservation' /\ ConfirmedIsApplied'
  BY Zenon DEF IInv, RowsOK, NoBlindReservation, ConfirmedIsApplied, Live, rows
<1>3. \A q \in Servers : q # s => Undisturbed(q, server[q])
  <2>1. \A q \in Servers : q # s => server'[q] = server[q]
    BY Zenon, Served DEF IInv
  <2> QED BY Zenon, <2>1 DEF Undisturbed, Reserved, Live, rows
<1> QED BY Zenon, <1>1, <1>2, <1>3, HandlersKept, DistinctKept DEF IInv

\* The lock's release takes it from nobody else.
LEMMA Released ==
    ASSUME TypeOK, NEW s \in Servers
    PROVE  /\ Release(s) \in [Wallets -> Servers \cup {Free}]
           /\ \A w \in Wallets, q \in Servers : q # s /\ lock[w] = q => Release(s)[w] = q
BY Zenon DEF TypeOK, Release

\* Preflight, begin, the lock and the insert.
LEMMA ReserveIInv ==
    ASSUME IInv, NEW s \in Servers,
           \/ Preflight(s) \/ PreflightStale(s) \/ Begin(s) \/ AdvisoryLock(s)
           \/ Insert(s) \/ InsertRefused(s) \/ End(s)
    PROVE  IInv'
<1>0. server[s] \in Requests /\ HandlerOK(s, server[s]) /\ TypeOK
  BY Zenon DEF IInv, TypeOK
<1>1. CASE Preflight(s)
  <2>1. PICK w \in Wallets, t \in Txs :
           /\ budget[w] # Off
           /\ Serve(s, [pc |-> "begin", tx |-> t, wallet |-> w, limit |-> budget[w],
                        began |-> 0, seen |-> {}, outcome |-> "failed"])
    BY Zenon, <1>1 DEF Preflight
  <2> DEFINE x == [pc |-> "begin", tx |-> t, wallet |-> w, limit |-> budget[w],
                   began |-> 0, seen |-> {}, outcome |-> "failed"]
  <2>2. x \in Requests
    BY SponsorshipAssumption, <1>0 DEF Requests, TypeOK, Limits
  <2>3. PICK y \in Requests : y = x
    BY Zenon, <2>2
  <2>4. Serve(s, y) /\ UNCHANGED <<config, lock, rows, bump>>
    BY Zenon, <1>1, <2>1, <2>3 DEF Preflight
  <2>5. HandlerOK(s, y)' /\ Alone(s, y)
    BY Zenon, <2>1, <2>3 DEF HandlerOK, Alone, Holds
  <2> QED BY Zenon, <1>0, <2>4, <2>5, QuietServer DEF TypeOK
<1>2. CASE PreflightStale(s)
  <2>1. PICK w \in Wallets, t \in Txs :
           Serve(s, [pc |-> "stale", tx |-> t, wallet |-> w, limit |-> Off,
                     began |-> 0, seen |-> {}, outcome |-> "failed"])
    BY Zenon, <1>2 DEF PreflightStale
  <2> DEFINE x == [pc |-> "stale", tx |-> t, wallet |-> w, limit |-> Off,
                   began |-> 0, seen |-> {}, outcome |-> "failed"]
  <2>2. x \in Requests
    BY SponsorshipAssumption, <1>0 DEF Requests, TypeOK, Limits
  <2>3. PICK y \in Requests : y = x
    BY Zenon, <2>2
  <2>4. Serve(s, y) /\ UNCHANGED <<config, lock, rows, bump>>
    BY Zenon, <1>2, <2>1, <2>3 DEF PreflightStale
  <2>5. HandlerOK(s, y)' /\ Alone(s, y)
    BY Zenon, <2>3 DEF HandlerOK, Alone, Holds
  <2> QED BY Zenon, <1>0, <2>4, <2>5, QuietServer DEF TypeOK
<1>3. CASE Begin(s)
  <2> DEFINE x == Began(server[s], day)
  <2>1. x \in Requests
    BY Zenon, <1>0 DEF Requests, TypeOK, Began
  <2>2. PICK y \in Requests : y = x
    BY Zenon, <2>1
  <2>3. HandlerOK(s, y)' /\ Alone(s, y)
    BY Zenon, <1>0, <1>3, <2>2 DEF HandlerOK, Alone, Holds, Began, Begin
  <2> HIDE DEF x
  <2>4. Serve(s, y)
    BY Zenon, <1>3, <2>2 DEF Begin, x
  <2> QED BY Zenon, <1>0, <1>3, <2>4, <2>3, QuietServer DEF Begin, TypeOK
<1>4. CASE AdvisoryLock(s)
  <2> DEFINE x == At(server[s], "insert")
  <2>1. x \in Requests
    BY Zenon, <1>0 DEF Requests, At
  <2>2. PICK y \in Requests : y = x
    BY Zenon, <2>1
  <2>3. Serve(s, y) /\ UNCHANGED <<config, rows, bump>>
    BY Zenon, <1>4, <2>2 DEF AdvisoryLock
  <2>4. /\ lock' \in [Wallets -> Servers \cup {Free}] /\ lock'[y.wallet] = s
        /\ \A w \in Wallets, q \in Servers : q # s /\ lock[w] = q => lock'[w] = q
        /\ y.tx \in Txs /\ y.wallet \in Wallets /\ y.limit # Off /\ y.pc = "insert"
    BY Zenon, SponsorshipAssumption, <1>0, <1>4, <2>2 DEF AdvisoryLock, TypeOK, HandlerOK, At
  <2>5. HandlerOK(s, y)' /\ Alone(s, y)
    BY Zenon, <2>4 DEF HandlerOK, Alone, Holds
  <2> QED BY Zenon, <2>3, <2>4, <2>5, QuietServer
<1>5. CASE Insert(s)
  <2> DEFINE x == Inserted(server[s], Reserved(server[s].wallet, server[s].began))
  <2>1. x \in Requests
    BY Zenon, <1>0 DEF Requests, Inserted, Reserved
  <2>2. PICK y \in Requests : y = x
    BY Zenon, <2>1
  <2>3. /\ y.pc = "commit" /\ y.tx = server[s].tx /\ y.wallet = server[s].wallet
        /\ y.began = server[s].began /\ y.seen = Reserved(y.wallet, y.began)
        /\ y.limit = server[s].limit
    BY Zenon, <2>2 DEF Inserted
  <2>4. Serve(s, y) /\ UNCHANGED <<config, rows, bump, lock>>
    BY Zenon, <1>5, <2>2 DEF Insert
  <2>5. /\ y.tx \in Txs /\ y.wallet \in Wallets /\ y.limit # Off
        /\ lock[y.wallet] = s /\ status[y.tx] = "none"
    BY Zenon, <1>0, <1>5, <2>3 DEF HandlerOK, Insert
  <2>9. Covers(y.limit, y.seen, y.tx)
    BY Zenon, <1>5, <2>3 DEF Insert, Fits, Covers
  <2>6. Reserved(y.wallet, y.began)' = Reserved(y.wallet, y.began)
    BY Zenon, <2>4 DEF Reserved, Live, rows
  <2>7. HandlerOK(s, y)'
    BY Zenon, <2>3, <2>4, <2>5, <2>6, <2>9 DEF HandlerOK, Holds, rows
  <2>8. Alone(s, y)
    <3>1. \A q \in Servers : server[q].pc \in Holds => status[server[q].tx] = "pending"
      BY Zenon DEF IInv, HandlerOK
    <3>2. \A q \in Servers : q # s /\ server[q].pc = "commit" => server[q].tx # y.tx
      BY Zenon, <1>5, <2>3 DEF Insert, UniqueFree
    <3> QED BY Zenon, <2>5, <3>1, <3>2 DEF Alone
  <2> QED BY Zenon, <1>0, <2>4, <2>7, <2>8, QuietServer DEF TypeOK
<1>6. CASE InsertRefused(s) \/ End(s)
  <2>1. Idle \in Requests /\ HandlerOK(s, Idle)' /\ Alone(s, Idle)
    BY Zenon, IdleOK
  <2>2. Serve(s, Idle) /\ lock' = Release(s) /\ UNCHANGED <<config, rows, bump>>
    BY Zenon, <1>6 DEF InsertRefused, End
  <2>3. /\ lock' \in [Wallets -> Servers \cup {Free}]
        /\ \A w \in Wallets, q \in Servers : q # s /\ lock[w] = q => lock'[w] = q
    BY Zenon, <1>0, <2>2, Released
  <2> QED BY Zenon, <2>1, <2>2, <2>3, QuietServer
<1> QED BY Zenon, <1>1, <1>2, <1>3, <1>4, <1>5, <1>6

\* The handler's fields once it holds a row.
LEMMA HoldingIs ==
    ASSUME TypeOK, NEW s \in Servers, NEW p \in {"sign", "wait", "finalize"},
           NEW o \in {"confirmed", "failed"}
    PROVE  \E y \in Requests : /\ y = Holding(server[s], p, o)
                               /\ y.pc = p /\ y.tx = server[s].tx /\ y.outcome = o
<1> DEFINE y == Holding(server[s], p, o)
<1>1. server[s].tx \in Txs \cup {Free}
  BY Zenon DEF TypeOK, Requests
<1>2. y.pc = p /\ y.tx = server[s].tx /\ y.outcome = o
  BY Zenon DEF Holding
<1>3. y \in Requests
  BY SponsorshipAssumption, <1>1 DEF Holding, Requests, Limits
<1> HIDE DEF y
<1> QED BY Zenon, <1>2, <1>3 DEF y

\* The answers leave the rows alone.
LEMMA AnswerIInv ==
    ASSUME IInv, NEW s \in Servers,
           SignOrPostFails(s) \/ AnswerConfirmed(s) \/ AnswerFailed(s)
    PROVE  IInv'
<1>0. HandlerOK(s, server[s]) /\ TypeOK /\ Distinct
  BY Zenon DEF IInv
<1>1. PICK o \in {"confirmed", "failed"} :
         /\ Serve(s, Holding(server[s], "finalize", o)) /\ server[s].pc \in Holds
         /\ o = "confirmed" => bump[server[s].tx] = "applied"
         /\ UNCHANGED <<config, lock, rows, bump>>
  BY Zenon DEF SignOrPostFails, AnswerConfirmed, AnswerFailed, Holds
<1>2. PICK y \in Requests : /\ y = Holding(server[s], "finalize", o)
                            /\ y.pc = "finalize" /\ y.tx = server[s].tx /\ y.outcome = o
  BY <1>0, HoldingIs
<1>3. HandlerOK(s, y)'
  BY Zenon, <1>0, <1>1, <1>2 DEF HandlerOK, Holds, rows
<1>4. Alone(s, y)
  BY Zenon, <1>0, <1>1, <1>2 DEF Alone, Distinct
<1> QED BY Zenon, <1>0, <1>1, <1>2, <1>3, <1>4, QuietServer DEF TypeOK

\* The commit makes the row visible to the next holder of the lock.
LEMMA CommitIInv ==
    ASSUME IInv, NEW s \in Servers, Commit(s)
    PROVE  IInv'
<1> DEFINE t == server[s].tx
           w == server[s].wallet
<1>0. /\ HandlerOK(s, server[s]) /\ server[s] \in Requests /\ TypeOK /\ Distinct
      /\ RowsOK /\ NoBlindReservation /\ ConfirmedIsApplied
  BY Zenon DEF IInv, TypeOK
<1>1. /\ t \in Txs /\ w \in Wallets /\ lock[w] = s /\ status[t] = "none"
      /\ Reserved(w, server[s].began) \subseteq server[s].seen
  BY Zenon, <1>0 DEF HandlerOK, Commit
<1>2. PICK y \in Requests : /\ y = Holding(server[s], "sign", "failed")
                            /\ y.pc = "sign" /\ y.tx = t /\ y.outcome = "failed"
  BY Zenon, <1>0, HoldingIs
<1>3. Serve(s, y) /\ lock' = Release(s) /\ UNCHANGED <<config, old, bump>>
  BY Zenon, <1>2 DEF Commit
<1>4. /\ status' \in [Txs -> {"none", "pending", "confirmed", "failed"}]
      /\ payer' \in [Txs -> Wallets \cup {Free}] /\ created' \in [Txs -> 0..MaxDay]
      /\ granted' \in [Txs -> Limits] /\ counted' \in [Txs -> SUBSET Txs]
      /\ status'[t] = "pending" /\ payer'[t] = w /\ created'[t] = server[s].began
      /\ counted'[t] = server[s].seen
  BY Zenon, <1>0, <1>1 DEF Commit, TypeOK, Requests
<1>5. \A u \in Txs : u # t => /\ status'[u] = status[u] /\ payer'[u] = payer[u]
                              /\ created'[u] = created[u] /\ counted'[u] = counted[u]
  BY Zenon, <1>0, <1>1 DEF Commit, TypeOK
<1>6. TypeOK'
  <2>1. server' \in [Servers -> Requests] /\ lock' \in [Wallets -> Servers \cup {Free}]
    BY Zenon, <1>0, <1>3, Served, Released
  <2> QED BY Zenon, <1>0, <1>3, <1>4, <2>1 DEF TypeOK, config
<1>7. RowsOK' /\ ConfirmedIsApplied'
  BY <1>0, <1>1, <1>3, <1>4, <1>5 DEF RowsOK, ConfirmedIsApplied
<1>8. NoBlindReservation'
  <2>1. \A b \in Txs : b # t /\ Live(b)' /\ payer'[b] = w /\ created'[b] = server[s].began
                       => b \in counted'[t]
    BY <1>0, <1>1, <1>4, <1>5 DEF Live, Reserved, TypeOK, Requests
  <2>2. \A a, b \in Txs : a # t /\ b # t => (Live(a)' <=> Live(a)) /\ (Live(b)' <=> Live(b))
    BY Zenon, <1>5 DEF Live
  <2> HIDE DEF t, w
  <2> QED BY <2>1, <2>2, <1>0, <1>4, <1>5 DEF NoBlindReservation
<1>9. \A q \in Servers : q # s => Undisturbed(q, server[q])
  <2> SUFFICES ASSUME NEW q \in Servers, q # s PROVE Undisturbed(q, server[q])
    BY Zenon
  <2>1. server'[q] = server[q] /\ \A v \in Wallets : lock[v] = q => lock'[v] = q
    BY <1>0, <1>3, Served, Released
  <2>2. server[q].pc \in {"commit"} \cup Holds => server[q].tx # t
    BY Zenon, <1>0 DEF Distinct, Commit
  <2>3. HandlerOK(q, server[q])
    BY Zenon DEF IInv
  <2>4. CASE server[q].pc = "commit"
    <3>1. server[q].wallet # w
      BY Zenon, <1>1, <2>3, <2>4 DEF HandlerOK
    <3>2. Reserved(server[q].wallet, server[q].began)'
             \subseteq Reserved(server[q].wallet, server[q].began)
      BY Zenon, <1>4, <1>5, <2>1, <3>1 DEF Reserved, Live
    <3> QED BY Zenon, <1>3, <1>5, <2>1, <2>2, <2>3, <2>4, <3>2 DEF Undisturbed, HandlerOK, Holds
  <2>5. CASE server[q].pc # "commit"
    BY Zenon, <1>3, <1>5, <2>1, <2>2, <2>3, <2>5 DEF Undisturbed, HandlerOK, Holds
  <2> QED BY Zenon, <2>4, <2>5
<1>10. HandlerOK(s, y)' /\ Alone(s, y)
  <2>1. y.pc = "sign" /\ y.tx = t
    BY Zenon, <1>2 DEF Holding
  <2>2. bump'[t] = "unsent" /\ t \notin old'
    BY Zenon, <1>0, <1>1, <1>3 DEF RowsOK, HandlerOK, Commit
  <2>3. HandlerOK(s, y)'
    BY Zenon, <1>1, <1>4, <2>1, <2>2 DEF HandlerOK, Holds
  <2>4. server[s].pc = "commit"
    BY Zenon DEF Commit
  <2>5. Alone(s, y)
    BY Zenon, <1>0, <2>1, <2>4 DEF Alone, Distinct
  <2> QED BY Zenon, <2>3, <2>5
<1> QED BY Zenon, <1>2, <1>3, <1>6, <1>7, <1>8, <1>9, <1>10, HandlersKept, DistinctKept DEF IInv

\* The fee-bump goes out once.
LEMMA PostIInv ==
    ASSUME IInv, NEW s \in Servers, SignAndPost(s)
    PROVE  IInv'
<1> DEFINE t == server[s].tx
<1>0. /\ HandlerOK(s, server[s]) /\ TypeOK /\ Distinct
      /\ RowsOK /\ NoBlindReservation /\ ConfirmedIsApplied
  BY Zenon DEF IInv
<1>1. t \in Txs /\ status[t] = "pending" /\ t \notin old /\ bump[t] = "unsent"
  BY Zenon, <1>0 DEF HandlerOK, SignAndPost, Holds
<1>2. PICK y \in Requests : /\ y = Holding(server[s], "wait", "failed")
                            /\ y.pc = "wait" /\ y.tx = t /\ y.outcome = "failed"
  BY Zenon, <1>0, HoldingIs
<1>3. Serve(s, y) /\ UNCHANGED <<config, lock, rows>>
  BY Zenon, <1>2 DEF SignAndPost
<1>4. /\ bump' \in [Txs -> {"unsent", "inFlight", "dropped"} \cup Charged]
      /\ \A u \in Txs : u # t => bump'[u] = bump[u]
  BY Zenon, <1>0, <1>1 DEF SignAndPost, TypeOK
<1>5. TypeOK'
  BY Zenon, <1>0, <1>3, <1>4, Served DEF TypeOK, config, rows
<1>6. RowsOK' /\ ConfirmedIsApplied' /\ NoBlindReservation'
  BY Zenon, <1>0, <1>1, <1>3, <1>4 DEF RowsOK, ConfirmedIsApplied, NoBlindReservation, Live, rows
<1>7. \A q \in Servers : q # s => Undisturbed(q, server[q])
  <2> SUFFICES ASSUME NEW q \in Servers, q # s PROVE Undisturbed(q, server[q])
    BY Zenon
  <2>1. server'[q] = server[q]
    BY Zenon, <1>0, <1>3, Served
  <2>2. server[q].pc \in Holds => server[q].tx \in Txs /\ server[q].tx # t
    BY Zenon, <1>0 DEF Distinct, SignAndPost, IInv, HandlerOK, Holds
  <2>3. Reserved(server[q].wallet, server[q].began)'
           \subseteq Reserved(server[q].wallet, server[q].began)
    BY Zenon, <1>3, <2>1 DEF Reserved, Live, rows
  <2> QED BY Zenon, <1>3, <1>4, <2>1, <2>2, <2>3 DEF Undisturbed, Holds, rows
<1>8. HandlerOK(s, y)' /\ Alone(s, y)
  BY Zenon, <1>0, <1>1, <1>2, <1>3 DEF HandlerOK, Alone, Holds, Distinct, SignAndPost, rows
<1> QED BY Zenon, <1>2, <1>3, <1>5, <1>6, <1>7, <1>8, HandlersKept, DistinctKept DEF IInv

\* finalize meets a pending row, although it does not look.
LEMMA FinalizeIInv ==
    ASSUME IInv, NEW s \in Servers, Finalize(s)
    PROVE  IInv'
<1> DEFINE t == server[s].tx
<1>0. /\ HandlerOK(s, server[s]) /\ server[s] \in Requests /\ TypeOK /\ Distinct
      /\ RowsOK /\ NoBlindReservation /\ ConfirmedIsApplied
  BY Zenon DEF IInv, TypeOK
<1>1. /\ t \in Txs /\ status[t] = "pending"
      /\ server[s].outcome = "confirmed" => bump[t] = "applied"
  BY Zenon, <1>0 DEF HandlerOK, Finalize, Holds
<1>2. /\ Idle \in Requests /\ HandlerOK(s, Idle)' /\ Alone(s, Idle)
      /\ Serve(s, Idle) /\ UNCHANGED <<config, lock, payer, created, granted, counted, bump>>
  BY Zenon, IdleOK DEF Finalize
<1>3. /\ status' \in [Txs -> {"none", "pending", "confirmed", "failed"}]
      /\ status'[t] = server[s].outcome /\ server[s].outcome \in {"confirmed", "failed"}
      /\ \A u \in Txs : u # t => status'[u] = status[u]
      /\ old' = old \ {t}
  BY Zenon, <1>0, <1>1 DEF Finalize, TypeOK, Requests
<1>4. TypeOK'
  BY Zenon, <1>0, <1>2, <1>3, Served DEF TypeOK, config
<1>5. \A u \in Txs : Live(u)' => Live(u)
  BY Zenon, <1>1, <1>3 DEF Live
<1>6. RowsOK' /\ ConfirmedIsApplied' /\ NoBlindReservation'
  BY Zenon, <1>0, <1>1, <1>2, <1>3, <1>5 DEF RowsOK, ConfirmedIsApplied, NoBlindReservation
<1>7. \A q \in Servers : q # s => Undisturbed(q, server[q])
  <2> SUFFICES ASSUME NEW q \in Servers, q # s PROVE Undisturbed(q, server[q])
    BY Zenon
  <2>1. server'[q] = server[q]
    BY Zenon, <1>0, <1>2, Served
  <2>2. server[q].pc \in {"commit"} \cup Holds => server[q].tx \in Txs /\ server[q].tx # t
    BY Zenon, <1>0 DEF Distinct, Finalize, IInv, HandlerOK, Holds
  <2>3. Reserved(server[q].wallet, server[q].began)'
           \subseteq Reserved(server[q].wallet, server[q].began)
    BY Zenon, <1>2, <1>5, <2>1 DEF Reserved
  <2> QED BY Zenon, <1>2, <1>3, <2>1, <2>2, <2>3 DEF Undisturbed
<1> QED BY Zenon, <1>2, <1>4, <1>6, <1>7, HandlersKept, DistinctKept DEF IInv

\* A step that no server takes keeps the handlers well formed if it disturbs none.
LEMMA WorldKeeps ==
    ASSUME IInv, UNCHANGED server, \A q \in Servers : Undisturbed(q, server[q])
    PROVE  Distinct' /\ \A q \in Servers : HandlerOK(q, server[q])'
<1>1. Distinct'
  BY Zenon DEF IInv, Distinct
<1>2. ASSUME NEW q \in Servers PROVE HandlerOK(q, server[q])'
  <2>1. PICK y \in Requests : y = server[q] /\ y = server'[q]
    BY Zenon DEF IInv, TypeOK
  <2>2. HandlerOK(q, y)'
    BY Zenon, <2>1, HandlerKept DEF IInv
  <2> QED BY Zenon, <2>1, <2>2 DEF HandlerOK, Reserved, Live
<1> QED BY Zenon, <1>1, <1>2

\* The sweep, the configuration, the clock and the network.
LEMMA WorldIInv ==
    ASSUME IInv,
           \/ reconcile_stale_pending_sponsorships \/ NewDay
           \/ \E w \in Wallets : put_config(w) \/ WalletTransacts(w)
           \/ \E t \in Txs : GrowOld(t) \/ Apply(t) \/ Drop(t)
    PROVE  IInv'
<1>0. /\ TypeOK /\ RowsOK /\ NoBlindReservation /\ ConfirmedIsApplied
      /\ \A q \in Servers : HandlerOK(q, server[q])
  BY Zenon DEF IInv
<1>1. CASE reconcile_stale_pending_sponsorships
  <2>1. \A u \in Txs : (Live(u)' => Live(u)) /\ (u \notin old => status'[u] = status[u])
    BY Zenon, <1>0, <1>1 DEF reconcile_stale_pending_sponsorships, Live, TypeOK, RowsOK
  <2>2. TypeOK'
    BY Zenon, <1>0, <1>1 DEF reconcile_stale_pending_sponsorships, TypeOK, config
  <2>3. RowsOK' /\ ConfirmedIsApplied' /\ NoBlindReservation'
    BY Zenon, <1>0, <1>1, <2>1 DEF reconcile_stale_pending_sponsorships, RowsOK,
                            ConfirmedIsApplied, NoBlindReservation
  <2>4. ASSUME NEW q \in Servers PROVE Undisturbed(q, server[q])
    <3>1. Reserved(server[q].wallet, server[q].began)'
             \subseteq Reserved(server[q].wallet, server[q].began)
      BY Zenon, <1>1, <2>1 DEF Reserved, reconcile_stale_pending_sponsorships
    <3>2. server[q].pc \in {"commit"} \cup Holds => server[q].tx \in Txs \ old
      BY Zenon, <1>0 DEF HandlerOK, RowsOK, Holds
    <3> QED BY Zenon, <1>1, <2>1, <3>1, <3>2 DEF Undisturbed, reconcile_stale_pending_sponsorships
  <2> QED BY Zenon, <1>1, <2>2, <2>3, <2>4, WorldKeeps DEF IInv, reconcile_stale_pending_sponsorships
<1>2. CASE NewDay \/ \E w \in Wallets : put_config(w) \/ WalletTransacts(w)
  <2>1. UNCHANGED <<lock, rows, bump, server>>
    BY Zenon, <1>2 DEF NewDay, put_config, WalletTransacts
  <2>2. TypeOK'
    BY SponsorshipAssumption, <1>0, <1>2 DEF NewDay, put_config, WalletTransacts, TypeOK, rows
  <2>3. RowsOK' /\ ConfirmedIsApplied' /\ NoBlindReservation'
    BY Zenon, <1>0, <2>1 DEF RowsOK, ConfirmedIsApplied, NoBlindReservation, Live, rows
  <2>4. \A q \in Servers : Undisturbed(q, server[q])
    BY Zenon, <2>1 DEF Undisturbed, Reserved, Live, rows
  <2> QED BY Zenon, <2>1, <2>2, <2>3, <2>4, WorldKeeps DEF IInv
<1>3. ASSUME NEW t \in Txs, GrowOld(t) PROVE IInv'
  <2>1. TypeOK'
    BY Zenon, <1>0, <1>3 DEF GrowOld, TypeOK, config
  <2>2. RowsOK' /\ ConfirmedIsApplied' /\ NoBlindReservation'
    BY Zenon, <1>0, <1>3 DEF GrowOld, RowsOK, ConfirmedIsApplied, NoBlindReservation, Live
  <2>3. \A q \in Servers : Undisturbed(q, server[q])
    BY Zenon, <1>3 DEF GrowOld, Busy, Undisturbed, Reserved, Live, Holds
  <2> QED BY Zenon, <1>3, <2>1, <2>2, <2>3, WorldKeeps DEF IInv, GrowOld
<1>4. ASSUME NEW t \in Txs, Apply(t) \/ Drop(t) PROVE IInv'
  <2>1. /\ UNCHANGED <<lock, rows, server>> /\ bump[t] = "inFlight"
        /\ bump' \in [Txs -> {"unsent", "inFlight", "dropped"} \cup Charged]
        /\ \A u \in Txs : u # t => bump'[u] = bump[u]
    BY <1>0, <1>4 DEF Apply, Drop, TypeOK
  <2>2. TypeOK'
    BY Zenon, <1>0, <1>4, <2>1 DEF Apply, Drop, TypeOK, config, rows
  <2>3. RowsOK' /\ ConfirmedIsApplied' /\ NoBlindReservation'
    BY Zenon, <1>0, <2>1 DEF RowsOK, ConfirmedIsApplied, NoBlindReservation, Live, rows
  <2>4. ASSUME NEW q \in Servers PROVE Undisturbed(q, server[q])
    <3>1. server[q].pc \in Holds => server[q].tx \in Txs
      BY Zenon, <1>0 DEF HandlerOK
    <3>2. HandlerOK(q, server[q])
      BY Zenon, <1>0
    <3> QED BY Zenon, <2>1, <3>1, <3>2 DEF Undisturbed, Reserved, Live, Holds, HandlerOK, rows
  <2> QED BY Zenon, <2>1, <2>2, <2>3, <2>4, WorldKeeps DEF IInv
<1> QED BY Zenon, <1>1, <1>2, <1>3, <1>4

\* Every step keeps the inductive invariant.
LEMMA NextIInv == IInv /\ [Next]_vars => IInv'
<1> SUFFICES ASSUME IInv, [Next]_vars PROVE IInv'
  BY Zenon
<1>1. ASSUME NEW s \in Servers, Server(s) PROVE IInv'
  BY Zenon, <1>1, ReserveIInv, AnswerIInv, CommitIInv, PostIInv, FinalizeIInv DEF Server
<1>2. CASE UNCHANGED vars
  BY Zenon, <1>2 DEF vars, config, rows, IInv, TypeOK, RowsOK, Distinct, NoBlindReservation,
              ConfirmedIsApplied, HandlerOK, Reserved, Live
<1>3. CASE \/ reconcile_stale_pending_sponsorships \/ NewDay
           \/ \E w \in Wallets : put_config(w) \/ WalletTransacts(w)
           \/ \E t \in Txs : GrowOld(t) \/ Apply(t) \/ Drop(t)
  BY Zenon, <1>3, WorldIInv
<1> QED BY Zenon, <1>1, <1>2, <1>3 DEF Next

\* The inductive invariant holds in every reachable state.
LEMMA Invariance == Spec => []IInv
BY InitIInv, NextIInv, PTL DEF Spec

\* Every variable of the sponsorship model keeps its type.
THEOREM TypeCorrect == Spec => []TypeOK
<1>1. IInv => TypeOK
  BY Zenon DEF IInv
<1> QED BY <1>1, Invariance, PTL

\* Reservations of one wallet for one day never miss each other, whichever
\* processes make them, whatever is in flight and whoever dies: of any two, one was
\* in the sum that admitted the other (try_reserve_sponsored_transaction).
THEOREM ReservationsSeeEachOther == Spec => []NoBlindReservation
<1>1. IInv => NoBlindReservation
  BY Zenon DEF IInv
<1> QED BY <1>1, Invariance, PTL

\* No inner transaction is fee-bumped twice, by any processes for any wallets: the
\* unique index decides before anything is signed.
THEOREM FeeBumpedOnce == Spec => []BumpedOnce
<1>1. IInv => BumpedOnce
  BY Zenon DEF IInv, BumpedOnce, Distinct, HandlerOK, Holds
<1> QED BY <1>1, Invariance, PTL

\* A confirmed row is of an inner transaction the ledger applied.
THEOREM ConfirmedRowsAreApplied == Spec => []ConfirmedIsApplied
<1>1. IInv => ConfirmedIsApplied
  BY Zenon DEF IInv
<1> QED BY <1>1, Invariance, PTL

\* Rows that fail leave rows that were within budget already.
LEMMA FewerWithinBudget ==
    ASSUME TypeOK, AnyWithinBudget, UNCHANGED <<payer, created, granted>>,
           \A t \in Txs : Live(t)' => Live(t)
    PROVE  AnyWithinBudget'
<1> SUFFICES ASSUME NEW w \in Wallets, NEW d \in 0..MaxDay, NEW S \in SUBSET ReservedOn(w, d)'
             PROVE  Within(S)'
  BY Zenon DEF AnyWithinBudget
<1>1. S \in SUBSET ReservedOn(w, d)
  BY Zenon DEF ReservedOn, Reserved
<1>2. Within(S)
  BY Zenon, <1>1 DEF AnyWithinBudget
<1> QED BY Zenon, <1>2 DEF Within

\* The row that a commit adds was admitted against the sum of all that are still
\* there and its own fee.
LEMMA CommitWithinBudget ==
    ASSUME IInv, AnyWithinBudget, NEW s \in Servers, Commit(s)
    PROVE  AnyWithinBudget'
<1> DEFINE t == server[s].tx
           w == server[s].wallet
           x == server[s]
<1>1. /\ t \in Txs /\ w \in Wallets /\ x.limit # Off /\ x.seen \in SUBSET Txs
      /\ Reserved(w, x.began) \subseteq x.seen /\ Covers(x.limit, x.seen, t)
      /\ x.limit \in Limits
  BY Zenon DEF IInv, HandlerOK, Commit, TypeOK, Requests
<1>2. /\ payer'[t] = w /\ created'[t] = x.began /\ granted'[t] = x.limit
      /\ \A u \in Txs : u # t => /\ status'[u] = status[u] /\ payer'[u] = payer[u]
                                 /\ created'[u] = created[u] /\ granted'[u] = granted[u]
  BY Zenon, <1>1 DEF Commit, IInv, TypeOK
<1>3. x.limit = NoLimit \/ x.limit \in Nat
  BY Zenon, SponsorshipAssumption, <1>1 DEF Limits
<1> HIDE DEF t, w, x
<1> SUFFICES ASSUME NEW v \in Wallets, NEW d \in 0..MaxDay, NEW S \in SUBSET ReservedOn(v, d)'
             PROVE  Within(S)'
  BY Zenon DEF AnyWithinBudget
<1>4. S \in SUBSET Txs
  BY Zenon DEF ReservedOn, Reserved
<1>5. CASE t \notin S
  <2>1. S \in SUBSET ReservedOn(v, d)
    BY Zenon, <1>2, <1>4, <1>5 DEF ReservedOn, Reserved, Live
  <2>2. Within(S)
    BY Zenon, <2>1 DEF AnyWithinBudget
  <2>3. \A u \in S : granted'[u] = granted[u]
    BY Zenon, <1>2, <1>4, <1>5
  <2> QED BY Zenon, <2>2, <2>3 DEF Within
<1>6. CASE t \in S
  <2>1. v = w /\ d = x.began
    BY Zenon, <1>2, <1>6 DEF ReservedOn, Reserved
  <2>2. S \ {t} \in SUBSET x.seen
    BY <1>1, <1>2, <1>4, <2>1 DEF ReservedOn, Reserved, Live
  <2>3. Spent(S) = Fee[t] + Spent(S \ {t}) /\ Spent(S \ {t}) <= Spent(x.seen)
    BY Zenon, <1>1, <1>4, <1>6, <2>2, SpentAny, SpentMono
  <2>4. Fee[t] \in Nat /\ Spent(S) \in Nat /\ Spent(S \ {t}) \in Nat /\ Spent(x.seen) \in Nat
    BY Zenon, SponsorshipAssumption, <1>1, <1>4, SpentNat
  <2>5. x.limit = NoLimit \/ Spent(S) <= x.limit
    BY <1>1, <1>3, <2>3, <2>4 DEF Covers
  <2> QED BY Zenon, <1>2, <1>6, <2>5 DEF Within
<1> QED BY Zenon, <1>5, <1>6

\* No step takes the rows of a day over their budget.
LEMMA NextWithinBudget == IInv /\ AnyWithinBudget /\ [Next]_vars => AnyWithinBudget'
<1> SUFFICES ASSUME IInv, AnyWithinBudget, [Next]_vars PROVE AnyWithinBudget'
  BY Zenon
<1>0. TypeOK /\ RowsOK /\ \A s \in Servers : HandlerOK(s, server[s])
  BY Zenon DEF IInv
<1>1. CASE \E s \in Servers : Commit(s)
  BY Zenon, <1>1, CommitWithinBudget
<1>2. CASE UNCHANGED rows
  <2>1. UNCHANGED <<payer, created, granted>> /\ \A t \in Txs : Live(t)' => Live(t)
    BY Zenon, <1>2 DEF rows, Live
  <2> QED BY Zenon, <1>0, <2>1, FewerWithinBudget
<1>3. ASSUME NEW s \in Servers, Finalize(s) PROVE AnyWithinBudget'
  <2>1. server[s].tx \in Txs /\ status[server[s].tx] = "pending"
    BY Zenon, <1>0, <1>3 DEF HandlerOK, Finalize, Holds
  <2>2. \A t \in Txs : Live(t)' => Live(t)
    BY Zenon, <1>0, <1>3, <2>1 DEF Finalize, Live, TypeOK
  <2>3. UNCHANGED <<payer, created, granted>>
    BY Zenon, <1>3 DEF Finalize
  <2> QED BY Zenon, <1>0, <2>2, <2>3, FewerWithinBudget
<1>4. CASE reconcile_stale_pending_sponsorships
  <2>1. UNCHANGED <<payer, created, granted>> /\ \A t \in Txs : Live(t)' => Live(t)
    BY Zenon, <1>0, <1>4 DEF reconcile_stale_pending_sponsorships, Live, TypeOK, RowsOK
  <2> QED BY Zenon, <1>0, <2>1, FewerWithinBudget
<1>5. ASSUME NEW t \in Txs, GrowOld(t) PROVE AnyWithinBudget'
  <2>1. UNCHANGED <<payer, created, granted>> /\ \A u \in Txs : Live(u)' => Live(u)
    BY Zenon, <1>5 DEF GrowOld, Live
  <2> QED BY Zenon, <1>0, <2>1, FewerWithinBudget
<1>6. ASSUME NEW s \in Servers, Server(s)
      PROVE  Commit(s) \/ Finalize(s) \/ UNCHANGED rows
  BY Zenon, <1>6 DEF Server, Preflight, PreflightStale, Begin, AdvisoryLock, Insert, InsertRefused,
              SignAndPost, SignOrPostFails, AnswerConfirmed, AnswerFailed, End
<1>7. \A w \in Wallets, t \in Txs :
         put_config(w) \/ WalletTransacts(w) \/ Apply(t) \/ Drop(t) => UNCHANGED rows
  BY Zenon DEF put_config, WalletTransacts, Apply, Drop
<1>8. NewDay \/ UNCHANGED vars => UNCHANGED rows
  BY Zenon DEF NewDay, vars
<1>9. \/ \E s \in Servers : Server(s)
      \/ reconcile_stale_pending_sponsorships \/ NewDay \/ UNCHANGED vars
      \/ \E w \in Wallets : put_config(w) \/ WalletTransacts(w)
      \/ \E t \in Txs : GrowOld(t) \/ Apply(t) \/ Drop(t)
  BY Zenon DEF Next
<1>10. CASE \E s \in Servers : Server(s)
  BY Zenon, <1>1, <1>2, <1>3, <1>6, <1>10
<1>11. CASE \E w \in Wallets : put_config(w) \/ WalletTransacts(w)
  BY Zenon, <1>2, <1>11 DEF put_config, WalletTransacts
<1>12. CASE \E t \in Txs : GrowOld(t) \/ Apply(t) \/ Drop(t)
  BY Zenon, <1>2, <1>5, <1>12 DEF Apply, Drop
<1> QED BY Zenon, <1>2, <1>4, <1>8, <1>9, <1>10, <1>11, <1>12

\* The fees reserved for a wallet and a day never exceed the budget one of their
\* reservations was granted against, however requests race, in any number of
\* processes, and whenever they end (try_reserve_sponsored_transaction).
THEOREM BudgetHolds == Spec => []ReservedWithinBudget
<1>1. Init => AnyWithinBudget
  BY Zenon DEF Init, AnyWithinBudget, ReservedOn, Reserved, Live, Within
<1>2. AnyWithinBudget => ReservedWithinBudget
  BY Zenon DEF AnyWithinBudget, ReservedWithinBudget
<1> QED BY <1>1, <1>2, Invariance, NextWithinBudget, PTL DEF Spec
=============================================================================
