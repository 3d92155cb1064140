---------------------------- MODULE WalletsProofs ----------------------------
(***************************************************************************)
(* Each step of a request on wallets, their addresses, listings and links  *)
(* keeps WalletsInv, for any wallets, requests, references and keys.  The  *)
(* pages of a listing, the rotation beside the requests and the theorems   *)
(* are in RotationProofs.                                                  *)
(***************************************************************************)
EXTENDS Wallets, TLAPS

(* A request is no wallet and nobody.                                      *)
LEMMA RequestIs == \A r \in Requests : r \in Nat /\ r # Nobody
BY WalletsAssumption DEF Requests

(***************************************************************************)
(* What a step of a request leaves of the invariant.                       *)
(***************************************************************************)
(* Request r goes on as y, the others are as they were.                    *)
LEMMA Stepped ==
    ASSUME TypeOK, NEW r \in Requests, NEW y \in Progress, Become(r, y)
    PROVE  /\ req' \in [Requests -> Progress] /\ req'[r] = y
           /\ \A q \in Requests : q # r => req'[q] = req[q]
BY Zenon DEF TypeOK, Become

(* A request that claims, holds and lists nothing.                         *)
Neutral(y) ==
    /\ StageOK(y) /\ ~InTransaction(y) /\ ~Claims(y) /\ ~y.twice
    /\ y.pc \notin {"page", "listed", "replayed", "complete"}

(* Such a request holds no lock, no claim and no place in a listing.       *)
LEMMA NeutralOK ==
    ASSUME NEW r, NEW y, Neutral(y)
    PROVE  Locked(r, y)' /\ Claimed(r, y)' /\ Walk(y)'
BY Zenon DEF Neutral, Locked, Claimed, Walk, InTransaction

(* A request that has nothing in hand is well formed.                      *)
LEMMA BareIs ==
    ASSUME NEW p \in {"unstarted", "done", "failed", "dead"}
    PROVE  \E y \in Progress : y = Bare(p) /\ y.pc = p /\ Neutral(y)
<1> DEFINE y == Bare(p)
<1>1. /\ y.pc = p /\ y.key = NoKey /\ y.refs = << >> /\ y.w = Nobody /\ y.body = Nobody
  BY Zenon DEF Bare
<1>2. ~y.twice
  BY Zenon DEF Bare
<1>3. y \in Progress
  <2>1. p \in Stages /\ << >> \in Seq(Refs \cup {NoRef}) /\ 0 \in Nat /\ {} \in SUBSET Nat
    BY DEF Stages, Ended
  <2>2. FALSE \in BOOLEAN
    BY Zenon
  <2> QED BY <2>1, <2>2, Zenon DEF Progress, Bare
<1>4. p = "unstarted" => y = Unstarted
  BY Zenon DEF Unstarted
<1> HIDE DEF y
<1>5. Neutral(y)
  BY <1>1, <1>2, <1>4 DEF Neutral, StageOK, InTransaction, Claims, Ended, Distinct
<1> QED BY Zenon, <1>1, <1>3, <1>5 DEF y

(* Locks that r may have held are free; the others are held as before.     *)
RowsKept(r) ==
    \A w \in Ids : lock[w] \notin {Nobody, r} =>
        wallet'[w].next = wallet[w].next /\ wallet'[w].tank = wallet[w].tank

(* A request that leaves its transaction releases its row lock, and the    *)
(* others keep theirs.                                                     *)
LEMMA LocksReleased ==
    ASSUME TypeOK, StagesOK, LocksOK, NEW r \in Requests, NEW y \in Progress, Become(r, y),
           lock' = Unlock(r), ~InTransaction(y), RowsKept(r)
    PROVE  lock' \in [Ids -> Requests \cup {Nobody}] /\ LocksOK'
<1>0. /\ req'[r] = y /\ r # Nobody
      /\ \A q \in Requests : q # r => req'[q] = req[q]
  BY Zenon, Stepped, RequestIs
<1>1. lock \in [Ids -> Requests \cup {Nobody}]
  BY Zenon DEF TypeOK
<1>2. lock' \in [Ids -> Requests \cup {Nobody}]
  BY Zenon, <1>1 DEF Unlock
<1>3. \A w \in Ids : lock'[w] = IF lock[w] = r THEN Nobody ELSE lock[w]
  BY Zenon DEF Unlock
<1>4. LocksHeld'
  BY <1>0, <1>1, <1>3 DEF LocksHeld, LocksOK, InTransaction
<1>5. ASSUME NEW q \in Requests PROVE Locked(q, req[q])'
  <2>1. CASE q = r
    BY Zenon, <1>0, <2>1 DEF Locked, InTransaction
  <2>2. CASE q # r
    <3>1. PICK x \in Progress : x = req[q] /\ x = req'[q]
      BY Zenon, <1>0, <2>2 DEF TypeOK
    <3>2. InTransaction(x) => x.w \in Ids
      BY Zenon, <3>1, WalletsAssumption DEF StagesOK, StageOK, InTransaction, Ended
    <3>3. Locked(q, x)
      BY Zenon, <3>1 DEF LocksOK
    <3>4. InTransaction(x) => /\ lock[x.w] = q /\ lock'[x.w] = q
                              /\ wallet'[x.w].next = wallet[x.w].next
                              /\ wallet'[x.w].tank = wallet[x.w].tank
      BY Zenon, <1>3, <2>2, <3>2, <3>3, RequestIs DEF Locked, RowsKept
    <3>5. Locked(q, x)'
      BY Zenon, <3>3, <3>4 DEF Locked, InTransaction
    <3> QED BY Zenon, <3>1, <3>5 DEF Locked
  <2> QED BY Zenon, <2>1, <2>2
<1> QED BY Zenon, <1>2, <1>4, <1>5 DEF LocksOK

(* A request that was in no transaction takes a lock that is free.         *)
LEMMA LocksTaken ==
    ASSUME TypeOK, StagesOK, LocksOK, NEW r \in Requests, NEW y \in Progress, Become(r, y),
           y.w \in Ids, lock[y.w] = Nobody, lock' = [lock EXCEPT ![y.w] = r],
           ~InTransaction(req[r]), InTransaction(y), Locked(r, y)', UNCHANGED wallet
    PROVE  lock' \in [Ids -> Requests \cup {Nobody}] /\ LocksOK'
<1>0. /\ req'[r] = y /\ r # Nobody
      /\ \A q \in Requests : q # r => req'[q] = req[q]
  BY Zenon, Stepped, RequestIs
<1>1. lock \in [Ids -> Requests \cup {Nobody}]
  BY Zenon DEF TypeOK
<1>2. lock' \in [Ids -> Requests \cup {Nobody}]
  BY Zenon, <1>1
<1>3. \A w \in Ids : lock'[w] = IF w = y.w THEN r ELSE lock[w]
  BY Zenon, <1>1
<1>4. \A q \in Requests : InTransaction(req[q]) => req[q].w \in Ids /\ lock[req[q].w] = q
  BY Zenon, WalletsAssumption DEF StagesOK, StageOK, InTransaction, Ended, LocksOK, Locked
<1>5. LocksHeld'
  <2> SUFFICES ASSUME NEW w \in Ids, lock'[w] # Nobody
               PROVE  InTransaction(req'[lock'[w]]) /\ req'[lock'[w]].w = w
    BY Zenon DEF LocksHeld, InTransaction
  <2>1. CASE w = y.w
    BY Zenon, <1>0, <1>3, <2>1
  <2>2. CASE w # y.w
    <3>1. PICK q \in Requests : q = lock[w] /\ lock'[w] = q
      BY Zenon, <1>1, <1>3, <2>2
    <3>2. InTransaction(req[q]) /\ req[q].w = w
      BY Zenon, <1>3, <2>2, <3>1 DEF LocksOK, LocksHeld
    <3> QED BY Zenon, <1>0, <3>1, <3>2
  <2> QED BY Zenon, <2>1, <2>2
<1>6. ASSUME NEW q \in Requests, q # r PROVE Locked(q, req[q])'
  <2>1. PICK x \in Progress : x = req[q] /\ x = req'[q]
    BY Zenon, <1>0, <1>6 DEF TypeOK
  <2>2. Locked(q, x) /\ (InTransaction(x) => x.w \in Ids /\ lock[x.w] = q)
    BY Zenon, <1>4, <2>1 DEF LocksOK
  <2>3. Locked(q, x)'
    BY Zenon, <1>3, <2>2, RequestIs DEF Locked
  <2> QED BY Zenon, <2>1, <2>3 DEF Locked
<1>7. Locked(r, req[r])'
  BY Zenon, <1>0 DEF Locked
<1> QED BY Zenon, <1>2, <1>5, <1>6, <1>7 DEF LocksOK

(* Keys and links as they were: r claims what it has claimed before, or    *)
(* nothing.                                                                *)
LEMMA KeysKept ==
    ASSUME TypeOK, KeysOK, NEW r \in Requests, NEW y \in Progress, Become(r, y),
           UNCHANGED <<idem, expiries, links>>, Claimed(r, y)',
           Claims(y) => Claims(req[r]) /\ HasKey(y) = HasKey(req[r])
    PROVE  KeysOK'
<1>0. /\ req'[r] = y
      /\ \A q \in Requests : q # r => req'[q] = req[q]
  BY Zenon, Stepped
<1>1. OneLinkPerKey' /\ \A l \in links' : l.term <= expiries'
  BY Zenon DEF KeysOK, OneLinkPerKey
<1>2. \A k \in Busy \X Keys : IdemOK(k)'
  BY Zenon DEF KeysOK, IdemOK, Vacant, NoLinkYet, Linked
<1>3. ClaimedOnce'
  BY Zenon, <1>0 DEF KeysOK, ClaimedOnce
<1>4. ASSUME NEW q \in Requests, q # r PROVE Claimed(q, req[q])'
  <2>1. PICK x \in Progress : x = req[q] /\ x = req'[q]
    BY Zenon, <1>0, <1>4 DEF TypeOK
  <2>2. Claimed(q, x)
    BY Zenon, <2>1 DEF KeysOK
  <2>3. Claimed(q, x)'
    BY Zenon, <2>2 DEF Claimed, Vacant, NoLinkYet, Linked
  <2> QED BY <2>1, <2>3 DEF Claimed, Vacant, NoLinkYet, Linked
<1>5. Claimed(r, req[r])'
  BY Zenon, <1>0 DEF Claimed, Vacant, NoLinkYet, Linked
<1> QED BY Zenon, <1>1, <1>2, <1>3, <1>4, <1>5 DEF KeysOK

(* Rows are never taken from a listing, nor moved.                         *)
LEMMA WalksKept ==
    ASSUME TypeOK, WalksOK, NEW r \in Requests, NEW y \in Progress, Become(r, y),
           address \subseteq address', Walk(y)'
    PROVE  WalksOK'
<1>0. /\ req'[r] = y
      /\ \A q \in Requests : q # r => req'[q] = req[q]
  BY Zenon, Stepped
<1>1. \A w, c : /\ Below(w, c) \subseteq Below(w, c)'
                /\ address \ Below(w, c) \subseteq (address \ Below(w, c))'
  BY Zenon DEF Below
<1>2. ASSUME NEW q \in Requests, q # r PROVE Walk(req[q])'
  <2>1. PICK x \in Progress : x = req[q] /\ x = req'[q]
    BY Zenon, <1>0, <1>2 DEF TypeOK
  <2>2. Walk(x)
    BY Zenon, <2>1 DEF WalksOK
  <2>3. Walk(x)'
    BY Zenon, <1>1, <2>2 DEF Walk
  <2> QED BY Zenon, <2>1, <2>3
<1>3. Walk(req[r])'
  BY <1>0 DEF Walk, Below
<1> QED BY Zenon, <1>2, <1>3 DEF WalksOK

(***************************************************************************)
(* The request as its steps change it.                                     *)
(***************************************************************************)
(* The stages by name.                                                     *)
LEMMA StageNames ==
    /\ "tank_lock" \in Stages /\ "tank_set" \in Stages /\ "reserve" \in Stages /\ "insert" \in Stages
    /\ "page" \in Stages /\ "listed" \in Stages /\ "claim" \in Stages /\ "peek" \in Stages
    /\ "create" \in Stages /\ "link" \in Stages /\ "complete" \in Stages /\ "release" \in Stages
    /\ "replayed" \in Stages
BY Zenon DEF Stages, Ended

(* A request that goes on.                                                 *)
Going(x, p) == [x EXCEPT !.pc = p]

(* A request that goes on to another stage keeps all else it has.          *)
LEMMA GoIs ==
    ASSUME NEW x \in Progress, NEW p \in Stages
    PROVE  \E y \in Progress :
            /\ y = Going(x, p)
            /\ y.pc = p
            /\ y.w = x.w /\ y.refs = x.refs /\ y.key = x.key /\ y.body = x.body /\ y.first = x.first
            /\ y.sealer = x.sealer /\ y.got = x.got /\ y.cursor = x.cursor /\ y.seen = x.seen /\ y.due = x.due
            /\ y.twice = x.twice
<1> DEFINE y == Going(x, p)
<1>1. y \in Progress
  BY Zenon DEF Progress, Going
<1>2. y.twice = x.twice
  BY Zenon DEF Progress, Going
<1>3. /\ y.pc = p
      /\ y.w = x.w /\ y.refs = x.refs /\ y.key = x.key /\ y.body = x.body /\ y.first = x.first
      /\ y.sealer = x.sealer /\ y.got = x.got /\ y.cursor = x.cursor /\ y.seen = x.seen /\ y.due = x.due
  BY Zenon DEF Progress, Going
<1> HIDE DEF y
<1> QED BY Zenon, <1>1, <1>2, <1>3 DEF y

(* A request that is about a gas tank.                                     *)
Tanking(x, p, w, n) == [x EXCEPT !.pc = p, !.w = w, !.sealer = n]

(* A request that allocates addresses.                                     *)
Allocating(x, p, w, s) == [x EXCEPT !.pc = p, !.w = w, !.refs = s]

(* A request that has reserved ids.                                        *)
Reserving(x, p, n) == [x EXCEPT !.pc = p, !.first = n]

(* A request that lists addresses.                                         *)
Listing(x, p, w, d) == [x EXCEPT !.pc = p, !.w = w, !.due = d]

(* A request that creates a link.                                          *)
Linking(x, p, w, k, b, s) == [x EXCEPT !.pc = p, !.w = w, !.key = k, !.body = b, !.refs = s]

(* A request that has a stored answer.                                     *)
Replaying(x, p, q) == [x EXCEPT !.pc = p, !.got = q]

(***************************************************************************)
(* Wallet rows.                                                            *)
(***************************************************************************)
(* A change of the row of w, the other rows being as they were.            *)
LEMMA Updated ==
    ASSUME TypeOK, NEW w \in Ids, NEW row \in WalletRows, Update(w, row)
    PROVE  /\ wallet' \in [Ids -> WalletRows] /\ wallet'[w] = row
           /\ \A v \in Ids : v # w => wallet'[v] = wallet[v]
BY Zenon DEF TypeOK, Update

(* A request that holds no lock gives none back.                           *)
LEMMA NoneHeld ==
    ASSUME TypeOK, LocksOK, NEW r \in Requests, ~InTransaction(req[r])
    PROVE  Unlock(r) = lock
<1>1. lock \in [Ids -> Requests \cup {Nobody}] /\ \A w \in Ids : lock[w] # r
  BY Zenon, RequestIs DEF TypeOK, LocksOK, LocksHeld
<1> QED BY Zenon, <1>1 DEF Unlock

(* A step that leaves addresses, keys and links alone.                     *)
LEMMA Quiet ==
    ASSUME WalletsInv, NEW r \in Requests, NEW y \in Progress, Become(r, y), StageOK(y),
           UNCHANGED <<address, idem, expiries, links>>, config' \in [key : Nat, next : Nat],
           lock' \in [Ids -> Requests \cup {Nobody}], LocksOK',
           wallet' \in [Ids -> WalletRows], \A w \in Ids : wallet'[w].next = wallet[w].next,
           TankSeeds', Claimed(r, y)', Walk(y)',
           Claims(y) => Claims(req[r]) /\ HasKey(y) = HasKey(req[r])
    PROVE  WalletsInv'
<1>0. TypeOK /\ StagesOK /\ KeysOK /\ WalksOK
  BY Zenon DEF WalletsInv
<1>1. /\ req' \in [Requests -> Progress] /\ req'[r] = y
      /\ \A q \in Requests : q # r => req'[q] = req[q]
  BY Zenon, <1>0, Stepped
<1>2. TypeOK'
  BY Zenon, <1>0, <1>1 DEF TypeOK
<1>3. StagesOK'
  BY Zenon, <1>0, <1>1 DEF StagesOK
<1>4. AddressesDistinct' /\ RanksDistinct'
  <2>1. \A a \in address : a.w \in Ids
    BY Zenon, <1>0 DEF TypeOK, AddressRows
  <2> QED BY Zenon, <2>1 DEF WalletsInv, AddressesDistinct, RanksDistinct
<1>5. KeysOK'
  BY Zenon, <1>0, KeysKept
<1>6. WalksOK'
  BY Zenon, <1>0, WalksKept
<1> QED BY Zenon, <1>2, <1>3, <1>4, <1>5, <1>6 DEF WalletsInv

(* A step that ends in no transaction and leaves the wallet rows alone too.*)
LEMMA QuietRows ==
    ASSUME WalletsInv, NEW r \in Requests, NEW y \in Progress, Become(r, y), StageOK(y),
           UNCHANGED <<wallet, address, idem, expiries, links, config>>,
           lock' = Unlock(r), ~InTransaction(y), Claimed(r, y)', Walk(y)',
           Claims(y) => Claims(req[r]) /\ HasKey(y) = HasKey(req[r])
    PROVE  WalletsInv'
<1>0. TypeOK /\ StagesOK /\ LocksOK /\ TankSeeds
  BY Zenon DEF WalletsInv
<1>1. RowsKept(r) /\ TankSeeds'
  BY Zenon, <1>0 DEF RowsKept, TankSeeds
<1>2. lock' \in [Ids -> Requests \cup {Nobody}] /\ LocksOK'
  BY Zenon, <1>0, <1>1, LocksReleased
<1>3. wallet' \in [Ids -> WalletRows] /\ config' \in [key : Nat, next : Nat]
  BY Zenon, <1>0 DEF TypeOK
<1> QED BY Zenon, <1>1, <1>2, <1>3, Quiet

(* The same for a request that has nothing in hand.                        *)
LEMMA QuietEnd ==
    ASSUME WalletsInv, NEW r \in Requests, NEW y \in Progress, Become(r, y), Neutral(y),
           UNCHANGED <<wallet, address, idem, expiries, links, config>>, lock' = Unlock(r)
    PROVE  WalletsInv'
<1>1. StageOK(y) /\ ~InTransaction(y) /\ ~Claims(y)
  BY Zenon DEF Neutral
<1>2. Claimed(r, y)' /\ Walk(y)'
  BY Zenon, NeutralOK
<1> QED BY Zenon, <1>1, <1>2, QuietRows

(* Registration, archiving and pausing change a flag of one row.           *)
LEMMA FlagKeeps ==
    ASSUME WalletsInv, NEW r \in Requests,
           create_wallet(r) \/ archive_wallet(r) \/ set_ingest_paused(r)
    PROVE  /\ Finish(r, "done") /\ UNCHANGED <<lock, address, idem, expiries, links, config>>
           /\ wallet' \in [Ids -> WalletRows]
           /\ \A v \in Ids : /\ wallet'[v].next = wallet[v].next /\ wallet'[v].tank = wallet[v].tank
                             /\ wallet'[v].seal = wallet[v].seal
(* Flags of a row.                                                         *)
<1>FlagIs. ASSUME NEW x \in WalletRows, NEW b \in BOOLEAN, NEW row,
                  \/ row = [x EXCEPT !.exists = b] \/ row = [x EXCEPT !.archived = b]
                  \/ row = [x EXCEPT !.paused = b]
           PROVE  row \in WalletRows /\ row.next = x.next /\ row.tank = x.tank /\ row.seal = x.seal
  <2> USE <1>FlagIs
  <2>1. CASE row = [x EXCEPT !.exists = b]
    BY <2>1, Zenon DEF WalletRows
  <2>2. CASE row = [x EXCEPT !.archived = b]
    BY <2>2, Zenon DEF WalletRows
  <2>3. CASE row = [x EXCEPT !.paused = b]
    BY <2>3, Zenon DEF WalletRows
  <2> QED BY Zenon, <2>1, <2>2, <2>3
<1>0. TypeOK /\ StagesOK /\ LocksOK /\ TankSeeds /\ Busy \subseteq Ids
  BY Zenon, WalletsAssumption DEF WalletsInv
<1>1. /\ Finish(r, "done") /\ UNCHANGED <<lock, address, idem, expiries, links, config>>
      /\ \E w \in Ids, b \in BOOLEAN :
           \/ Update(w, [wallet[w] EXCEPT !.exists = b])
           \/ Update(w, [wallet[w] EXCEPT !.archived = b])
           \/ Update(w, [wallet[w] EXCEPT !.paused = b])
  <2>1. CASE create_wallet(r)
    BY <2>1, Zenon DEF create_wallet
  <2>2. CASE archive_wallet(r)
    <3>1. PICK w \in Busy : Update(w, [wallet[w] EXCEPT !.archived = ~wallet[w].archived])
      BY <2>2, Zenon DEF archive_wallet
    <3>2. (~wallet[w].archived) \in BOOLEAN
      BY Zenon
    <3> QED BY <1>0, <2>2, <3>1, <3>2, Zenon DEF archive_wallet
  <2>3. CASE set_ingest_paused(r)
    <3>1. PICK w \in Busy : Update(w, [wallet[w] EXCEPT !.paused = ~wallet[w].paused])
      BY <2>3, Zenon DEF set_ingest_paused
    <3>2. (~wallet[w].paused) \in BOOLEAN
      BY Zenon
    <3> QED BY <1>0, <2>3, <3>1, <3>2, Zenon DEF set_ingest_paused
  <2> QED BY Zenon, <2>1, <2>2, <2>3
<1>2. \E w \in Ids, b \in BOOLEAN : \E row :
           /\ Update(w, row)
           /\ \/ row = [wallet[w] EXCEPT !.exists = b] \/ row = [wallet[w] EXCEPT !.archived = b]
              \/ row = [wallet[w] EXCEPT !.paused = b]
  BY <1>1, Zenon
<1>3. \A w \in Ids : wallet[w] \in WalletRows
  BY Zenon, <1>0 DEF TypeOK
<1>4. PICK w \in Ids, row \in WalletRows :
         /\ Update(w, row) /\ row.next = wallet[w].next /\ row.tank = wallet[w].tank
         /\ row.seal = wallet[w].seal
  BY <1>2, <1>3, <1>FlagIs
<1>5. /\ wallet' \in [Ids -> WalletRows]
      /\ \A v \in Ids : /\ wallet'[v].next = wallet[v].next /\ wallet'[v].tank = wallet[v].tank
                        /\ wallet'[v].seal = wallet[v].seal
  BY Zenon, <1>0, <1>4, Updated
<1> QED BY Zenon, <1>1, <1>5

(* Registration, archiving and pausing.                                    *)
LEMMA FlagStep ==
    ASSUME WalletsInv, NEW r \in Requests,
           create_wallet(r) \/ archive_wallet(r) \/ set_ingest_paused(r)
    PROVE  WalletsInv'
<1>0. TypeOK /\ StagesOK /\ LocksOK /\ TankSeeds
  BY Zenon DEF WalletsInv
<1>1. Finish(r, "done") /\ UNCHANGED <<lock, address, idem, expiries, links, config>>
  BY Zenon, FlagKeeps
<1>5. /\ wallet' \in [Ids -> WalletRows]
      /\ \A v \in Ids : /\ wallet'[v].next = wallet[v].next /\ wallet'[v].tank = wallet[v].tank
                        /\ wallet'[v].seal = wallet[v].seal
  BY Zenon, FlagKeeps
<1>6. PICK y \in Progress : y = Bare("done") /\ Neutral(y)
  BY Zenon, BareIs
<1>8. Become(r, y) /\ ~InTransaction(req[r])
  <2>1. req[r].pc = "unstarted"
    BY Zenon DEF create_wallet, archive_wallet, set_ingest_paused, Starts, At
  <2> QED BY Zenon, <1>1, <1>6, <2>1 DEF Finish, InTransaction
<1>9. lock' = Unlock(r) /\ RowsKept(r)
  BY Zenon, <1>0, <1>1, <1>5, <1>8, NoneHeld DEF RowsKept
<1>10. StageOK(y) /\ ~InTransaction(y) /\ ~Claims(y) /\ Claimed(r, y)' /\ Walk(y)'
  BY Zenon, <1>6, NeutralOK DEF Neutral
<1>11. lock' \in [Ids -> Requests \cup {Nobody}] /\ LocksOK'
  BY Zenon, <1>0, <1>8, <1>9, <1>10, LocksReleased
<1>12. TankSeeds' /\ config' \in [key : Nat, next : Nat]
  BY Zenon, <1>0, <1>1, <1>5 DEF TankSeeds, TypeOK
<1> QED BY Zenon, <1>1, <1>5, <1>8, <1>10, <1>11, <1>12, Quiet

(***************************************************************************)
(* Requests that start, and gas tanks.                                     *)
(***************************************************************************)
(* A request that starts has nothing in hand.                              *)
LEMMA Unbegun ==
    ASSUME WalletsInv, NEW r \in Requests, NEW kind, Starts(r, kind)
    PROVE  /\ req[r] \in Progress /\ req[r].key = NoKey /\ req[r].refs = << >>
           /\ req[r].body = Nobody /\ req[r].seen = {} /\ req[r].cursor = 0 /\ ~req[r].twice
           /\ Unlock(r) = lock
<1>1. req[r] = Bare("unstarted") /\ req[r] \in Progress /\ TypeOK /\ LocksOK
  BY Zenon DEF WalletsInv, StagesOK, StageOK, Starts, At, TypeOK, Unstarted
<1>2. /\ req[r].key = NoKey /\ req[r].refs = << >> /\ req[r].pc = "unstarted"
      /\ req[r].body = Nobody /\ req[r].seen = {} /\ req[r].cursor = 0
  BY <1>1 DEF Bare
<1>3. ~req[r].twice
  BY Zenon, <1>1, BareIs DEF Neutral
<1>4. Unlock(r) = lock
  BY Zenon, <1>1, <1>2, NoneHeld DEF InTransaction
<1> QED BY Zenon, <1>1, <1>2, <1>3, <1>4

(* create_gas_tank up to the lock.                                         *)
LEMMA TankStep ==
    ASSUME WalletsInv, NEW r \in Requests, create_gas_tank(r)
    PROVE  WalletsInv'
<1>TankIs.
    ASSUME NEW x \in Progress, NEW p \in Stages, NEW w \in Busy, NEW n \in Nat
    PROVE  \E y \in Progress :
            /\ y = Tanking(x, p, w, n)
            /\ y.pc = p /\ y.w = w /\ y.sealer = n
            /\ y.refs = x.refs /\ y.key = x.key /\ y.body = x.body /\ y.first = x.first /\ y.got = x.got
            /\ y.cursor = x.cursor /\ y.seen = x.seen /\ y.due = x.due
            /\ y.twice = x.twice
  <2> USE <1>TankIs
  <2> DEFINE y == Tanking(x, p, w, n)
  <2>1. y \in Progress
    BY Zenon DEF Progress, Tanking
  <2>2. y.twice = x.twice
    BY Zenon DEF Progress, Tanking
  <2>3. /\ y.pc = p /\ y.w = w /\ y.sealer = n
        /\ y.refs = x.refs /\ y.key = x.key /\ y.body = x.body /\ y.first = x.first /\ y.got = x.got
        /\ y.cursor = x.cursor /\ y.seen = x.seen /\ y.due = x.due
    BY Zenon DEF Progress, Tanking
  <2> HIDE DEF y
  <2> QED BY Zenon, <2>1, <2>2, <2>3 DEF y
<1>0. Starts(r, "tank") /\ TypeOK /\ sealing_key \in Nat
  BY Zenon DEF create_gas_tank, WalletsInv, TypeOK, sealing_key
<1>1. PICK w \in Busy : Become(r, [req[r] EXCEPT !.pc = "tank_lock", !.w = w, !.sealer = sealing_key])
  BY Zenon DEF create_gas_tank
<1>2. req[r] \in Progress
  BY Zenon, <1>0, Unbegun
<1>3. PICK p \in Stages : p = "tank_lock"
  BY Zenon, StageNames
<1>3a. PICK y \in Progress :
         /\ y = Tanking(req[r], p, w, sealing_key) /\ y.pc = p /\ y.w = w /\ y.key = req[r].key /\ y.refs = req[r].refs
         /\ y.body = req[r].body /\ y.twice = req[r].twice
  BY <1>0, <1>2, <1>TankIs
<1>4. y.key = NoKey /\ y.refs = << >> /\ ~y.twice /\ Become(r, y) /\ Unlock(r) = lock
  BY Zenon, <1>0, <1>1, <1>3, <1>3a, Unbegun DEF Tanking
<1>5. Neutral(y)
  <2>1. Distinct(<< >>)
    BY DEF Distinct
  <2>2. Distinct(y.refs)
    BY Zenon, <1>4, <2>1
  <2> QED BY Zenon, <1>3, <1>3a, <1>4, <2>2 DEF Neutral, StageOK, InTransaction, Claims
<1> QED BY Zenon, <1>4, <1>5, QuietEnd DEF create_gas_tank, rows

(* lock_gas_tank_provision.                                                *)
LEMMA TankLockStep ==
    ASSUME WalletsInv, NEW r \in Requests, lock_gas_tank_provision(r)
    PROVE  WalletsInv'
(* A request that has no claim on a key and walks no listing.              *)
<1>Plain. ASSUME NEW q, NEW y, ~y.twice, y.pc \notin {"page", "listed", "replayed", "complete"}, ~Claims(y)
          PROVE  Claimed(q, y)' /\ Walk(y)'
  BY Zenon, <1>Plain DEF Claimed, Walk
<1>0. /\ TypeOK /\ StagesOK /\ LocksOK /\ TankSeeds /\ req[r] \in Progress
      /\ StageOK(req[r]) /\ Walk(req[r]) /\ req[r].pc = "tank_lock"
  BY Zenon DEF WalletsInv, TypeOK, StagesOK, WalksOK, lock_gas_tank_provision, At
<1>1. /\ req[r].w \in Ids /\ req[r].w \in Busy /\ ~req[r].twice /\ ~InTransaction(req[r])
      /\ lock[req[r].w] = Nobody
  BY Zenon, <1>0, WalletsAssumption DEF StageOK, Ended, Walk, InTransaction, lock_gas_tank_provision
<1>2. CASE wallet[req[r].w].tank = Nobody
  <2>1. PICK p \in Stages : p = "tank_set"
    BY Zenon, StageNames
  <2>1a. PICK y \in Progress :
           /\ y = Going(req[r], p) /\ y.pc = p /\ y.w = req[r].w
           /\ y.key = req[r].key /\ y.refs = req[r].refs /\ y.body = req[r].body
           /\ y.twice = req[r].twice
    BY <1>0, GoIs
  <2>2. Become(r, y) /\ lock' = [lock EXCEPT ![y.w] = r] /\ ~y.twice /\ y.w \in Ids
    BY Zenon, <1>1, <1>2, <2>1, <2>1a DEF lock_gas_tank_provision, Go, Going
  <2>3. UNCHANGED <<wallet, address, idem, expiries, links, config>>
    BY Zenon DEF lock_gas_tank_provision
  <2>4. StageOK(y) /\ InTransaction(y) /\ ~Claims(y)
    BY Zenon, <1>0, <1>1, <2>1, <2>1a DEF StageOK, InTransaction, Claims, Ended
  <2>5. Locked(r, y)'
    BY Zenon, <1>0, <1>2, <2>1, <2>1a, <2>2, <2>3 DEF Locked, TypeOK
  <2>6. lock' \in [Ids -> Requests \cup {Nobody}] /\ LocksOK'
    BY Zenon, <1>0, <1>1, <2>1, <2>1a, <2>2, <2>3, <2>4, <2>5, LocksTaken
  <2>7. Claimed(r, y)' /\ Walk(y)'
    BY Zenon, <2>1, <2>1a, <2>2, <2>4, <1>Plain
  <2>8. /\ wallet' \in [Ids -> WalletRows] /\ config' \in [key : Nat, next : Nat] /\ TankSeeds'
        /\ \A w \in Ids : wallet'[w].next = wallet[w].next
    BY Zenon, <1>0, <2>3 DEF TypeOK, TankSeeds
  <2> QED BY Zenon, <2>2, <2>3, <2>4, <2>6, <2>7, <2>8, Quiet
<1>3. CASE wallet[req[r].w].tank # Nobody
  <2>1. PICK y \in Progress : y = Bare("failed") /\ Neutral(y)
    BY Zenon, BareIs
  <2>2. Become(r, y) /\ lock' = Unlock(r) /\ UNCHANGED <<wallet, address, idem, expiries, links, config>>
    BY Zenon, <1>0, <1>1, <1>3, <2>1, NoneHeld DEF lock_gas_tank_provision, Finish
  <2> QED BY Zenon, <2>1, <2>2, QuietEnd
<1> QED BY Zenon, <1>2, <1>3

(* set_gas_tank.                                                           *)
LEMMA TankSetStep ==
    ASSUME WalletsInv, NEW r \in Requests, set_gas_tank(r)
    PROVE  WalletsInv'
(* The lock that a request holds is that of its wallet.                    *)
<1>OnlyLock. ASSUME TypeOK, LocksOK, NEW q \in Requests
             PROVE  Unlock(q) = [lock EXCEPT ![req[q].w] = Nobody] \/ ~InTransaction(req[q])
  <2> USE <1>OnlyLock
  <2>1. \A w \in Ids : lock[w] = q => req[q].w = w
    BY Zenon, RequestIs DEF LocksOK, LocksHeld
  <2>2. InTransaction(req[q]) => lock[req[q].w] = q
    BY Zenon DEF LocksOK, Locked
  <2> QED BY Zenon, <2>1, <2>2 DEF TypeOK, Unlock
<1>0. /\ TypeOK /\ StagesOK /\ LocksOK /\ TankSeeds /\ req[r] \in Progress
      /\ StageOK(req[r]) /\ Locked(r, req[r]) /\ req[r].pc = "tank_set"
  BY Zenon DEF WalletsInv, TypeOK, StagesOK, LocksOK, set_gas_tank, At
<1> DEFINE w == req[r].w
<1>1. /\ w \in Ids /\ wallet[w].tank = Nobody /\ wallet[w] \in WalletRows /\ lock[w] = r
      /\ InTransaction(req[r]) /\ req[r].sealer \in Nat
  BY Zenon, <1>0, WalletsAssumption DEF StageOK, Ended, InTransaction, Locked, TypeOK, Progress
<1>2. PICK row \in WalletRows : /\ row = [wallet[w] EXCEPT !.tank = r, !.seal = seal(req[r].sealer, r)]
                                /\ row.next = wallet[w].next /\ row.tank = r /\ row.seal.seed = r
  <2> DEFINE row == [wallet[w] EXCEPT !.tank = r, !.seal = seal(req[r].sealer, r)]
  <2>1. /\ seal(req[r].sealer, r) \in [key : Nat, scheme : 0 .. 2, bound : Owners, seed : Owners]
        /\ seal(req[r].sealer, r).seed = r
    BY <1>1 DEF seal, Owners
  <2>2. row \in WalletRows
    BY Zenon, <1>1, <2>1 DEF WalletRows
  <2>3. row.next = wallet[w].next /\ row.tank = r /\ row.seal.seed = r
    BY Zenon, <1>1, <2>1 DEF WalletRows
  <2> HIDE DEF row
  <2> QED BY Zenon, <2>2, <2>3 DEF row
<1>3. Update(w, row) /\ lock' = Unlock(r) /\ UNCHANGED <<address, idem, expiries, links, config>>
  BY Zenon, <1>0, <1>1, <1>2, <1>OnlyLock DEF set_gas_tank
<1>4. PICK y \in Progress : y = Bare("done") /\ Neutral(y)
  BY Zenon, BareIs
<1>5. Become(r, y)
  BY Zenon, <1>4 DEF set_gas_tank, Finish
<1> HIDE DEF w
<1>6. /\ wallet' \in [Ids -> WalletRows] /\ wallet'[w] = row
      /\ \A v \in Ids : v # w => wallet'[v] = wallet[v]
  BY Zenon, <1>0, <1>1, <1>3, Updated
<1>7. RowsKept(r) /\ TankSeeds' /\ \A v \in Ids : wallet'[v].next = wallet[v].next
  BY Zenon, <1>0, <1>1, <1>2, <1>6 DEF RowsKept, TankSeeds
<1>8. StageOK(y) /\ ~InTransaction(y) /\ ~Claims(y) /\ Claimed(r, y)' /\ Walk(y)'
  BY Zenon, <1>4, NeutralOK DEF Neutral
<1>9. lock' \in [Ids -> Requests \cup {Nobody}] /\ LocksOK'
  BY Zenon, <1>0, <1>3, <1>5, <1>7, <1>8, LocksReleased
<1>10. config' \in [key : Nat, next : Nat]
  BY Zenon, <1>0, <1>3 DEF TypeOK
<1> QED BY Zenon, <1>3, <1>5, <1>6, <1>7, <1>8, <1>9, <1>10, Quiet

(***************************************************************************)
(* Allocations.                                                            *)
(***************************************************************************)
(* create_address and create_addresses_batch up to the reservation.        *)
LEMMA AllocateStep ==
    ASSUME WalletsInv, NEW r \in Requests, create_address(r) \/ create_addresses_batch(r)
    PROVE  WalletsInv'
<1>AllocationIs.
    ASSUME NEW x \in Progress, NEW p \in Stages, NEW w \in Busy, NEW s \in Seq(Refs \cup {NoRef})
    PROVE  \E y \in Progress :
            /\ y = Allocating(x, p, w, s)
            /\ y.pc = p /\ y.w = w /\ y.refs = s
            /\ y.key = x.key /\ y.body = x.body /\ y.first = x.first /\ y.sealer = x.sealer /\ y.got = x.got
            /\ y.cursor = x.cursor /\ y.seen = x.seen /\ y.due = x.due
            /\ y.twice = x.twice
  <2> USE <1>AllocationIs
  <2> DEFINE y == Allocating(x, p, w, s)
  <2>1. y \in Progress
    BY Zenon DEF Progress, Allocating
  <2>2. y.twice = x.twice
    BY Zenon DEF Progress, Allocating
  <2>3. /\ y.pc = p /\ y.w = w /\ y.refs = s
        /\ y.key = x.key /\ y.body = x.body /\ y.first = x.first /\ y.sealer = x.sealer /\ y.got = x.got
        /\ y.cursor = x.cursor /\ y.seen = x.seen /\ y.due = x.due
    BY Zenon DEF Progress, Allocating
  <2> HIDE DEF y
  <2> QED BY Zenon, <2>1, <2>2, <2>3 DEF y
<1>1. \E w \in Busy, s \in Seq(Refs \cup {NoRef}) :
         Distinct(s) /\ Become(r, [req[r] EXCEPT !.pc = "reserve", !.w = w, !.refs = s])
  <2>1. CASE create_address(r)
    <3>1. PICK w \in Busy, x \in Refs \cup {NoRef} :
             Become(r, [req[r] EXCEPT !.pc = "reserve", !.w = w, !.refs = <<x>>])
      BY Zenon, <2>1 DEF create_address
    <3>2. <<x>> \in Seq(Refs \cup {NoRef}) /\ Distinct(<<x>>)
      BY DEF Distinct
    <3> QED BY <3>1, <3>2, Zenon
  <2>2. CASE create_addresses_batch(r)
    <3>1. PICK w \in Busy, n \in 1 .. MaxBatch : \E refs \in [1 .. n -> Refs \cup {NoRef}] :
             /\ Distinct(refs)
             /\ Become(r, [req[r] EXCEPT !.pc = "reserve", !.w = w, !.refs = refs])
      BY Zenon, <2>2 DEF create_addresses_batch
    <3>2. n \in Nat
      BY WalletsAssumption
    <3>3. [1 .. n -> Refs \cup {NoRef}] \subseteq Seq(Refs \cup {NoRef})
      BY <3>2
    <3> QED BY <3>1, <3>3, Zenon
  <2> QED BY Zenon, <2>1, <2>2
<1>2. PICK w \in Busy, s \in Seq(Refs \cup {NoRef}) :
         Distinct(s) /\ Become(r, [req[r] EXCEPT !.pc = "reserve", !.w = w, !.refs = s])
  BY Zenon, <1>1
<1>3. UNCHANGED <<wallet, lock, address, idem, expiries, links, config>>
  BY Zenon DEF create_address, create_addresses_batch, rows
<1>4. req[r] \in Progress /\ req[r].key = NoKey /\ ~req[r].twice /\ Unlock(r) = lock
  BY Zenon, Unbegun DEF create_address, create_addresses_batch
<1>5. PICK p \in Stages : p = "reserve"
  BY Zenon, StageNames
<1>5a. PICK y \in Progress :
         /\ y = Allocating(req[r], p, w, s) /\ y.pc = p /\ y.w = w /\ y.refs = s /\ y.key = req[r].key /\ y.twice = req[r].twice
  BY <1>4, <1>AllocationIs
<1>6. y.key = NoKey /\ ~y.twice
  BY Zenon, <1>4, <1>5, <1>5a
<1>7. Neutral(y)
  BY Zenon, <1>2, <1>5, <1>5a, <1>6 DEF Neutral, StageOK, InTransaction, Claims
<1>8. Become(r, y)
  BY Zenon, <1>2, <1>5, <1>5a DEF Allocating
<1> QED BY Zenon, <1>3, <1>4, <1>7, <1>8, QuietEnd

(* What a request has claimed stays claimed while it goes on.              *)
Claiming == {"create", "reserve", "insert", "link", "release"}

(* While a request works on its link, what it claimed stays its own.       *)
LEMMA ClaimStays ==
    ASSUME NEW r, NEW x, NEW y, Claimed(r, x), UNCHANGED <<idem, expiries, links>>,
           y.key = x.key, y.w = x.w, y.body = x.body, x.pc \in Claiming, y.pc \in Claiming
    PROVE  Claimed(r, y)' /\ (Claims(y) => Claims(x) /\ HasKey(y) = HasKey(x))
<1>1. HasKey(y) = HasKey(x) /\ (Claims(y) <=> Claims(x))
  BY Zenon DEF HasKey, Claims, Claiming
<1>2. Claimed(r, y)
  BY Zenon, <1>1 DEF Claimed, Claiming
<1> QED BY Zenon, <1>1, <1>2 DEF Claimed, Vacant, NoLinkYet, Linked

(* allocate_addresses: ids are reserved under the row lock.                *)
LEMMA ReserveStep ==
    ASSUME WalletsInv, NEW r \in Requests, reserve(r)
    PROVE  WalletsInv'
<1>ReservedIs.
    ASSUME NEW x \in Progress, NEW p \in Stages, NEW n \in Nat
    PROVE  \E y \in Progress :
            /\ y = Reserving(x, p, n)
            /\ y.pc = p /\ y.first = n
            /\ y.w = x.w /\ y.refs = x.refs /\ y.key = x.key /\ y.body = x.body /\ y.sealer = x.sealer
            /\ y.got = x.got /\ y.cursor = x.cursor /\ y.seen = x.seen /\ y.due = x.due
            /\ y.twice = x.twice
  <2> USE <1>ReservedIs
  <2> DEFINE y == Reserving(x, p, n)
  <2>1. y \in Progress
    BY Zenon DEF Progress, Reserving
  <2>2. y.twice = x.twice
    BY Zenon DEF Progress, Reserving
  <2>3. /\ y.pc = p /\ y.first = n
        /\ y.w = x.w /\ y.refs = x.refs /\ y.key = x.key /\ y.body = x.body /\ y.sealer = x.sealer
        /\ y.got = x.got /\ y.cursor = x.cursor /\ y.seen = x.seen /\ y.due = x.due
    BY Zenon DEF Progress, Reserving
  <2> HIDE DEF y
  <2> QED BY Zenon, <2>1, <2>2, <2>3 DEF y
<1>0. /\ TypeOK /\ StagesOK /\ LocksOK /\ TankSeeds /\ req[r] \in Progress
      /\ StageOK(req[r]) /\ Walk(req[r]) /\ Claimed(r, req[r]) /\ req[r].pc = "reserve"
  BY Zenon DEF WalletsInv, TypeOK, StagesOK, WalksOK, KeysOK, reserve, At
<1>1. /\ req[r].w \in Ids /\ req[r].w \in Busy /\ ~req[r].twice /\ ~InTransaction(req[r])
      /\ lock[req[r].w] = Nobody /\ wallet[req[r].w].next \in Nat
  BY Zenon, <1>0, WalletsAssumption DEF StageOK, Ended, Walk, InTransaction, reserve, TypeOK, WalletRows
<1>2. PICK p \in Stages : p = "insert"
  BY Zenon, StageNames
<1>2a. PICK y \in Progress :
         /\ y = Reserving(req[r], p, wallet[req[r].w].next) /\ y.pc = p /\ y.w = req[r].w /\ y.first = wallet[req[r].w].next
         /\ y.key = req[r].key /\ y.refs = req[r].refs /\ y.body = req[r].body
         /\ y.twice = req[r].twice
  BY <1>0, <1>1, <1>ReservedIs
<1>3. /\ Become(r, y) /\ lock' = [lock EXCEPT ![y.w] = r] /\ ~y.twice /\ y.w \in Ids
      /\ UNCHANGED <<wallet, address, idem, expiries, links, config>>
  BY Zenon, <1>1, <1>2, <1>2a DEF reserve, Reserving
<1>4. StageOK(y) /\ InTransaction(y)
  BY Zenon, <1>0, <1>1, <1>2, <1>2a DEF StageOK, InTransaction
<1>5. Locked(r, y)'
  BY Zenon, <1>0, <1>2, <1>2a, <1>3 DEF Locked, TypeOK
<1>6. lock' \in [Ids -> Requests \cup {Nobody}] /\ LocksOK'
  BY Zenon, <1>0, <1>1, <1>2, <1>2a, <1>3, <1>4, <1>5, LocksTaken
<1>7. Claimed(r, y)' /\ (Claims(y) => Claims(req[r]) /\ HasKey(y) = HasKey(req[r]))
  <2>1. PICK x \in Progress : x = req[r]
    BY Zenon, <1>0
  <2> QED BY Zenon, <1>0, <1>2, <1>2a, <1>3, <2>1, ClaimStays DEF Claiming
<1>8. Walk(y)'
  BY Zenon, <1>2, <1>2a, <1>3 DEF Walk
<1>9. /\ wallet' \in [Ids -> WalletRows] /\ config' \in [key : Nat, next : Nat] /\ TankSeeds'
      /\ \A w \in Ids : wallet'[w].next = wallet[w].next
  BY Zenon, <1>0, <1>3 DEF TypeOK, TankSeeds
<1> QED BY Zenon, <1>3, <1>4, <1>6, <1>7, <1>8, <1>9, Quiet

(* A creation that fails, or is taken to have failed, releases its key, if *)
(* it has one.                                                             *)
LEMMA UndoIs ==
    ASSUME WalletsInv, NEW r \in Requests, req[r].pc \in {"create", "reserve", "insert", "link"},
           Undo(r), UNCHANGED <<idem, expiries, links>>
    PROVE  \E y \in Progress :
              /\ Become(r, y) /\ StageOK(y) /\ ~InTransaction(y) /\ Claimed(r, y)' /\ Walk(y)'
              /\ Claims(y) => Claims(req[r]) /\ HasKey(y) = HasKey(req[r])
<1>0. /\ TypeOK /\ req[r] \in Progress /\ StageOK(req[r]) /\ Walk(req[r]) /\ Claimed(r, req[r])
  BY Zenon DEF WalletsInv, TypeOK, StagesOK, WalksOK, KeysOK
<1>1. CASE req[r].body # Nobody /\ req[r].key # NoKey
  <2>1. PICK p \in Stages : p = "release"
    BY Zenon, StageNames
  <2>1a. PICK y \in Progress :
           /\ y = Going(req[r], p) /\ y.pc = p /\ y.w = req[r].w
           /\ y.key = req[r].key /\ y.refs = req[r].refs /\ y.body = req[r].body
           /\ y.twice = req[r].twice
    BY <1>0, GoIs
  <2>2. Become(r, y)
    BY Zenon, <1>1, <2>1, <2>1a DEF Undo, Go, Going
  <2>3. ~y.twice /\ req[r].w \in Busy
    BY Zenon, <1>0, <2>1, <2>1a DEF Walk, StageOK, Ended
  <2>4. StageOK(y) /\ ~InTransaction(y)
    BY Zenon, <1>0, <1>1, <2>1, <2>1a, <2>3 DEF StageOK, InTransaction
  <2>5. Claimed(r, y)' /\ (Claims(y) => Claims(req[r]) /\ HasKey(y) = HasKey(req[r]))
    <3>1. PICK x \in Progress : x = req[r]
      BY Zenon, <1>0
    <3> QED BY <1>0, <2>1, <2>1a, <3>1, ClaimStays DEF Claiming
  <2>6. Walk(y)'
    BY Zenon, <2>1, <2>1a, <2>3 DEF Walk
  <2> QED BY Zenon, <2>2, <2>4, <2>5, <2>6
<1>2. CASE ~(req[r].body # Nobody /\ req[r].key # NoKey)
  <2>1. PICK y \in Progress : y = Bare("failed") /\ Neutral(y)
    BY Zenon, BareIs
  <2>2. Become(r, y)
    BY Zenon, <1>2, <2>1 DEF Undo, Finish
  <2>3. StageOK(y) /\ ~InTransaction(y) /\ ~Claims(y) /\ Claimed(r, y)' /\ Walk(y)'
    BY Zenon, <2>1, NeutralOK DEF Neutral
  <2> QED BY Zenon, <2>2, <2>3
<1> QED BY Zenon, <1>1, <1>2

(* A creation that fails writes nothing else.                              *)
LEMMA UndoStep ==
    ASSUME WalletsInv, NEW r \in Requests, req[r].pc \in {"create", "reserve", "insert", "link"},
           Undo(r), lock' = Unlock(r),
           UNCHANGED <<wallet, address, idem, expiries, links, config>>
    PROVE  WalletsInv'
<1>1. PICK y \in Progress :
         /\ Become(r, y) /\ StageOK(y) /\ ~InTransaction(y) /\ Claimed(r, y)' /\ Walk(y)'
         /\ Claims(y) => Claims(req[r]) /\ HasKey(y) = HasKey(req[r])
  BY Zenon, UndoIs
<1> QED BY Zenon, <1>1, QuietRows

(* A call that fails, and a request that dies, wherever it stands.         *)
LEMMA FailStep ==
    ASSUME WalletsInv, NEW r \in Requests, fail(r) \/ die(r)
    PROVE  WalletsInv'
<1>1. lock' = Unlock(r) /\ UNCHANGED <<wallet, address, idem, expiries, links, config>>
  BY Zenon DEF fail, die
<1>2. CASE fail(r) /\ req[r].pc \in {"create", "reserve", "insert", "link"}
  BY Zenon, <1>1, <1>2, UndoStep DEF fail
<1>3. CASE ~(fail(r) /\ req[r].pc \in {"create", "reserve", "insert", "link"})
  <2>1. PICK y \in Progress : Become(r, y) /\ Neutral(y)
    BY Zenon, <1>3, BareIs DEF fail, die, Finish
  <2> QED BY Zenon, <1>1, <2>1, QuietEnd
<1> QED BY Zenon, <1>2, <1>3

(* create_link goes on to allocate its address.                            *)
LEMMA CreateLinkStep ==
    ASSUME WalletsInv, NEW r \in Requests, create_link(r)
    PROVE  WalletsInv'
<1>0. /\ TypeOK /\ LocksOK /\ req[r] \in Progress /\ StageOK(req[r]) /\ Walk(req[r])
      /\ Claimed(r, req[r]) /\ req[r].pc = "create"
      /\ UNCHANGED <<wallet, lock, address, idem, expiries, links, config>>
  BY Zenon DEF WalletsInv, TypeOK, StagesOK, WalksOK, KeysOK, create_link, At, rows
<1>1. PICK p \in Stages : p = "reserve"
  BY Zenon, StageNames
<1>1a. PICK y \in Progress :
         /\ y = Going(req[r], p) /\ y.pc = p /\ y.w = req[r].w
         /\ y.key = req[r].key /\ y.refs = req[r].refs /\ y.body = req[r].body
         /\ y.twice = req[r].twice
  BY <1>0, GoIs
<1>2. Become(r, y)
  BY Zenon, <1>1, <1>1a DEF create_link, Go, Going
<1>3. ~y.twice /\ req[r].w \in Busy /\ lock' = Unlock(r)
  BY Zenon, <1>0, <1>1, <1>1a, NoneHeld DEF Walk, StageOK, Ended, InTransaction
<1>4. StageOK(y) /\ ~InTransaction(y)
  BY Zenon, <1>0, <1>1, <1>1a, <1>3 DEF StageOK, InTransaction
<1>5. Claimed(r, y)' /\ (Claims(y) => Claims(req[r]) /\ HasKey(y) = HasKey(req[r]))
  <2>1. PICK x \in Progress : x = req[r]
    BY Zenon, <1>0
  <2> QED BY Zenon, <1>0, <1>1, <1>1a, <2>1, ClaimStays DEF Claiming
<1>6. Walk(y)'
  BY Zenon, <1>1, <1>1a, <1>3 DEF Walk
<1> QED BY Zenon, <1>0, <1>2, <1>3, <1>4, <1>5, <1>6, QuietRows

(* A row after an allocation.                                              *)
Counted(x, n) == [x EXCEPT !.next = n]

(* allocate_addresses commits, or a duplicate reference rolls it back.     *)
LEMMA InsertStep ==
    ASSUME WalletsInv, NEW r \in Requests, insert(r)
    PROVE  WalletsInv'
(* The rows of an allocation are inserted: no id, no reference and no place*)
(* is taken twice.                                                         *)
<1>RowsInserted. ASSUME WalletsInv, NEW q \in Requests, req[q].pc = "insert",
                        NEW n \in Nat, n = Len(req[q].refs),
                        \A i \in 1 .. n : req[q].refs[i] \notin RefsOf(req[q].w),
                        NEW f \in [1 .. n -> Ranks \ {a.rank : a \in address}],
                        \A i, j \in 1 .. n : f[i] = f[j] => i = j,
                        address' = address \cup {[w |-> req[q].w, muxed |-> req[q].first + i - 1,
                                                  ref |-> req[q].refs[i], rank |-> f[i]] : i \in 1 .. n},
                        req[q].w \in Ids, req[q].first \in Nat, wallet'[req[q].w].next = req[q].first + n,
                        \A v \in Ids : v # req[q].w => wallet'[v].next = wallet[v].next
                 PROVE  address' \subseteq AddressRows /\ AddressesDistinct' /\ RanksDistinct'
  <2> USE <1>RowsInserted
  <2>0. /\ TypeOK /\ AddressesDistinct /\ RanksDistinct /\ StageOK(req[q]) /\ Locked(q, req[q])
        /\ req[q] \in Progress
    BY Zenon DEF WalletsInv, StagesOK, LocksOK, TypeOK
  <2> DEFINE w == req[q].w  k == req[q].first  refs == req[q].refs
             row(i) == [w |-> w, muxed |-> k + i - 1, ref |-> refs[i], rank |-> f[i]]
  <2>1. /\ refs \in Seq(Refs \cup {NoRef}) /\ Distinct(refs) /\ k = wallet[w].next
        /\ \A i \in 1 .. n : refs[i] \in Refs \cup {NoRef}
    BY <2>0 DEF StageOK, Locked, Progress
  <2>2. \A i \in 1 .. n : /\ row(i) \in AddressRows
                          /\ row(i).w = w /\ row(i).muxed = k + i - 1 /\ row(i).ref = refs[i]
                          /\ row(i).rank = f[i]
    BY <2>1 DEF AddressRows
  <2>3. address' = address \cup {row(i) : i \in 1 .. n}
    BY Zenon
  <2>4. \A i, j \in 1 .. n : refs[i] = refs[j] /\ refs[i] # NoRef => i = j
    BY <2>1 DEF Distinct
  <2>5. address \subseteq AddressRows
    BY Zenon, <2>0 DEF TypeOK
  <2>6. \A a \in address : a.w = w /\ a.ref # NoRef => a.ref \in RefsOf(w)
    BY Zenon DEF RefsOf
  <2>7. w \in Ids /\ k \in Nat /\ wallet'[w].next = k + n
    BY Zenon
  <2>8. \A i \in 1 .. n : refs[i] \notin RefsOf(w)
    BY Zenon
  <2>9. \A v \in Ids : v # w => wallet'[v].next = wallet[v].next
    BY Zenon
  <2>10. \A a \in address : a.w \in Ids /\ a.muxed \in Nat /\ a.muxed < wallet[a.w].next
    BY Zenon, <2>0, <2>5 DEF AddressesDistinct, AddressRows
  <2>11. \A i \in 1 .. n, a \in address : f[i] # a.rank
    OBVIOUS
  <2> HIDE DEF row, w, k, refs
  <2>3a. \A c \in address' : c \in address \/ \E i \in 1 .. n : c = row(i)
    BY Zenon, <2>3
  <2>12. address' \subseteq AddressRows
    BY <2>2, <2>3, <2>5
  <2>13. RanksDistinct'
    BY <2>0, <2>2, <2>3, <2>11 DEF RanksDistinct
  <2>14. ASSUME NEW a \in address' PROVE a.muxed < wallet'[a.w].next
    <3>1. CASE a \in address
      <4>1. a.w \in Ids /\ a.muxed \in Nat /\ a.muxed < wallet[a.w].next
        BY Zenon, <2>10, <3>1
      <4>2. CASE a.w = w
        BY <2>1, <2>7, <4>1, <4>2
      <4>3. CASE a.w # w
        BY Zenon, <2>9, <4>1, <4>3
      <4> QED BY Zenon, <4>2, <4>3
    <3>2. CASE \E i \in 1 .. n : a = row(i)
      BY <2>2, <2>7, <3>2
    <3> QED BY Zenon, <2>3, <3>1, <3>2
  <2>15. ASSUME NEW a \in address', NEW b \in address', a.w = b.w,
                a.muxed = b.muxed \/ (a.ref = b.ref /\ a.ref # NoRef)
         PROVE  a = b
    <3>1. CASE a \in address /\ b \in address
      BY Zenon, <2>0, <2>15, <3>1 DEF AddressesDistinct
    <3>2. ASSUME NEW c \in address, NEW i \in 1 .. n, c.w = row(i).w
          PROVE  c.muxed # row(i).muxed /\ ~(c.ref = row(i).ref /\ c.ref # NoRef)
      <4>1. c.w = w /\ c.muxed \in Nat /\ c.muxed < k
        BY <2>1, <2>2, <2>10, <3>2
      <4>2. c.muxed # row(i).muxed
        BY <2>2, <2>7, <4>1
      <4>3. ~(c.ref = row(i).ref /\ c.ref # NoRef)
        BY <2>2, <2>6, <2>8, <4>1
      <4> QED BY Zenon, <4>2, <4>3
    <3>3. ASSUME NEW i \in 1 .. n, NEW j \in 1 .. n,
                 \/ row(i).muxed = row(j).muxed
                 \/ row(i).ref = row(j).ref /\ row(i).ref # NoRef
          PROVE  i = j
      <4>1. CASE row(i).muxed = row(j).muxed
        <5>1. k + i - 1 = k + j - 1
          BY Zenon, <2>2, <4>1
        <5> QED BY <2>7, <5>1
      <4>2. CASE row(i).ref = row(j).ref /\ row(i).ref # NoRef
        <5>1. refs[i] = refs[j] /\ refs[i] # NoRef
          BY Zenon, <2>2, <4>2
        <5> QED BY Zenon, <2>4, <5>1
      <4> QED BY Zenon, <3>3, <4>1, <4>2
    <3>4. CASE a \in address /\ b \notin address
      <4>1. PICK i \in 1 .. n : b = row(i)
        BY Zenon, <2>3a, <3>4
      <4> QED BY Zenon, <2>15, <3>2, <3>4, <4>1
    <3>5. CASE a \notin address /\ b \in address
      <4>1. PICK i \in 1 .. n : a = row(i)
        BY Zenon, <2>3a, <3>5
      <4> QED BY Zenon, <2>15, <3>2, <3>5, <4>1
    <3>6. CASE a \notin address /\ b \notin address
      <4>1. PICK i \in 1 .. n : a = row(i)
        BY Zenon, <2>3a, <3>6
      <4>2. PICK j \in 1 .. n : b = row(j)
        BY Zenon, <2>3a, <3>6
      <4>3. i = j
        BY Zenon, <2>15, <3>3, <4>1, <4>2
      <4> QED BY Zenon, <4>1, <4>2, <4>3
    <3> QED BY Zenon, <3>1, <3>4, <3>5, <3>6
  <2> QED BY <2>12, <2>13, <2>14, <2>15 DEF AddressesDistinct
<1>CounterIs. ASSUME NEW x \in WalletRows, NEW n \in Nat
              PROVE  \E row \in WalletRows : /\ row = Counted(x, n)
                                             /\ row.next = n /\ row.tank = x.tank /\ row.seal = x.seal
  <2> USE <1>CounterIs
  <2> DEFINE row == Counted(x, n)
  <2>1. row \in WalletRows
    BY Zenon DEF WalletRows, Counted
  <2>2. row.next = n /\ row.tank = x.tank /\ row.seal = x.seal
    BY Zenon DEF WalletRows, Counted
  <2> HIDE DEF row
  <2> QED BY Zenon, <2>1, <2>2 DEF row
<1>0. /\ TypeOK /\ StagesOK /\ LocksOK /\ TankSeeds /\ KeysOK /\ WalksOK /\ req[r] \in Progress
      /\ StageOK(req[r]) /\ Walk(req[r]) /\ Claimed(r, req[r]) /\ Locked(r, req[r])
      /\ req[r].pc = "insert"
  BY Zenon DEF WalletsInv, TypeOK, StagesOK, WalksOK, KeysOK, LocksOK, insert, At
<1>1. lock' = Unlock(r) /\ UNCHANGED <<idem, expiries, links, config>>
  BY Zenon DEF insert
<1> DEFINE n == Len(req[r].refs)
<1>2. CASE \E i \in 1 .. n : req[r].refs[i] \in RefsOf(req[r].w)
  <2>1. UNCHANGED <<wallet, address>> /\ Undo(r)
    BY Zenon, <1>2 DEF insert
  <2> QED BY Zenon, <1>0, <1>1, <2>1, UndoStep
<1>3. CASE ~\E i \in 1 .. n : req[r].refs[i] \in RefsOf(req[r].w)
  <2>1. /\ \E f \in [1 .. n -> Ranks \ {a.rank : a \in address}] :
             /\ \A i, j \in 1 .. n : f[i] = f[j] => i = j
             /\ address' = address \cup {[w |-> req[r].w, muxed |-> req[r].first + i - 1,
                                          ref |-> req[r].refs[i], rank |-> f[i]] : i \in 1 .. n}
        /\ Update(req[r].w, [wallet[req[r].w] EXCEPT !.next = req[r].first + n])
        /\ Undo(r) \/ IF req[r].body # Nobody THEN Go(r, "link") ELSE Finish(r, "done")
    BY Zenon, <1>3 DEF insert
  <2>2. /\ n \in Nat /\ req[r].w \in Ids /\ req[r].w \in Busy /\ req[r].first \in Nat
        /\ wallet[req[r].w] \in WalletRows /\ lock[req[r].w] = r /\ ~req[r].twice
    <3>1. n \in Nat /\ req[r].first \in Nat
      BY <1>0 DEF Progress
    <3>2. req[r].w \in Ids /\ req[r].w \in Busy
      BY Zenon, <1>0, WalletsAssumption DEF StageOK, Ended
    <3>3. wallet[req[r].w] \in WalletRows
      BY Zenon, <1>0, <3>2 DEF TypeOK
    <3>4. lock[req[r].w] = r
      BY Zenon, <1>0 DEF Locked, InTransaction
    <3>5. ~req[r].twice
      BY Zenon, <1>0 DEF Walk
    <3> QED BY Zenon, <3>1, <3>2, <3>3, <3>4, <3>5
  <2> HIDE DEF n
  <2>2a. PICK m \in Nat : m = req[r].first + n
    BY <2>2
  <2>3. PICK row \in WalletRows :
           /\ row = Counted(wallet[req[r].w], m) /\ row.next = m
           /\ row.tank = wallet[req[r].w].tank /\ row.seal = wallet[req[r].w].seal
    BY <2>2, <1>CounterIs
  <2>4. /\ wallet' \in [Ids -> WalletRows] /\ wallet'[req[r].w] = row
        /\ \A v \in Ids : v # req[r].w => wallet'[v] = wallet[v]
    BY <1>0, <2>1, <2>2, <2>2a, <2>3, Updated DEF Counted
  <2>5. address' \subseteq AddressRows /\ AddressesDistinct' /\ RanksDistinct'
    <3>1. PICK f \in [1 .. n -> Ranks \ {a.rank : a \in address}] :
             /\ \A i, j \in 1 .. n : f[i] = f[j] => i = j
             /\ address' = address \cup {[w |-> req[r].w, muxed |-> req[r].first + i - 1,
                                          ref |-> req[r].refs[i], rank |-> f[i]] : i \in 1 .. n}
      BY Zenon, <2>1
    <3>2. \A i \in 1 .. n : req[r].refs[i] \notin RefsOf(req[r].w)
      BY Zenon, <1>3
    <3>3. /\ wallet'[req[r].w].next = req[r].first + n
          /\ \A v \in Ids : v # req[r].w => wallet'[v].next = wallet[v].next
      BY Zenon, <2>2a, <2>3, <2>4
    <3>4. n = Len(req[r].refs)
      BY Zenon DEF n
    <3>5. req[r].pc = "insert" /\ n \in Nat /\ req[r].w \in Ids /\ req[r].first \in Nat
      BY Zenon, <1>0, <2>2
    <3> QED BY <3>1, <3>2, <3>3, <3>4, <3>5, <1>RowsInserted, Zenon
  <2>6. address \subseteq address'
    BY Zenon, <2>1
  <2>7. PICK y \in Progress :
           /\ Become(r, y) /\ StageOK(y) /\ ~InTransaction(y) /\ Claimed(r, y)' /\ Walk(y)'
           /\ Claims(y) => Claims(req[r]) /\ HasKey(y) = HasKey(req[r])
    <3>u. CASE Undo(r)
      BY Zenon, <1>0, <1>1, <3>u, UndoIs
    <3>1. CASE ~Undo(r) /\ req[r].body # Nobody
      <4>1. PICK p \in Stages : p = "link"
        BY Zenon, StageNames
      <4>2. PICK y \in Progress :
               /\ y = Going(req[r], p) /\ y.pc = p /\ y.w = req[r].w /\ y.key = req[r].key
               /\ y.refs = req[r].refs /\ y.body = req[r].body /\ y.twice = req[r].twice
        BY <1>0, GoIs
      <4>3. Become(r, y)
        BY Zenon, <2>1, <3>1, <4>1, <4>2 DEF Go, Going
      <4>4. StageOK(y) /\ ~InTransaction(y)
        BY Zenon, <1>0, <2>2, <3>1, <4>1, <4>2 DEF StageOK, InTransaction
      <4>5. Claimed(r, y)' /\ (Claims(y) => Claims(req[r]) /\ HasKey(y) = HasKey(req[r]))
        <5>1. PICK x \in Progress : x = req[r]
          BY Zenon, <1>0
        <5> QED BY Zenon, <1>0, <1>1, <4>1, <4>2, <5>1, ClaimStays DEF Claiming
      <4>6. Walk(y)'
        BY Zenon, <2>2, <4>1, <4>2 DEF Walk
      <4> QED BY Zenon, <4>3, <4>4, <4>5, <4>6
    <3>2. CASE ~Undo(r) /\ req[r].body = Nobody
      <4>1. PICK y \in Progress : y = Bare("done") /\ Neutral(y)
        BY Zenon, BareIs
      <4>2. Become(r, y)
        BY Zenon, <2>1, <3>2, <4>1 DEF Finish
      <4>3. StageOK(y) /\ ~InTransaction(y) /\ ~Claims(y) /\ Claimed(r, y)' /\ Walk(y)'
        BY Zenon, <4>1, NeutralOK DEF Neutral
      <4> QED BY Zenon, <4>2, <4>3
    <3> QED BY Zenon, <3>u, <3>1, <3>2
  <2>8. RowsKept(r) /\ TankSeeds'
    <3>1. \A v \in Ids : v # req[r].w => wallet'[v] = wallet[v]
      BY Zenon, <2>4
    <3>2. RowsKept(r)
      BY Zenon, <2>2, <3>1 DEF RowsKept
    <3>3. \A v \in Ids : wallet'[v].tank = wallet[v].tank /\ wallet'[v].seal = wallet[v].seal
      BY Zenon, <2>3, <2>4
    <3>4. TankSeeds'
      BY Zenon, <1>0, <3>3 DEF TankSeeds
    <3> QED BY Zenon, <3>2, <3>4
  <2>9. lock' \in [Ids -> Requests \cup {Nobody}] /\ LocksOK'
    BY Zenon, <1>0, <1>1, <2>7, <2>8, LocksReleased
  <2>10. KeysOK' /\ WalksOK'
    BY Zenon, <1>0, <1>1, <2>6, <2>7, KeysKept, WalksKept
  <2>11. /\ req' \in [Requests -> Progress] /\ req'[r] = y
         /\ \A q \in Requests : q # r => req'[q] = req[q]
    BY Zenon, <1>0, <2>7, Stepped
  <2>12. TypeOK' /\ StagesOK'
    BY Zenon, <1>0, <1>1, <2>4, <2>5, <2>7, <2>9, <2>11 DEF TypeOK, StagesOK
  <2> QED BY Zenon, <2>5, <2>8, <2>9, <2>10, <2>12 DEF WalletsInv
<1> QED BY Zenon, <1>2, <1>3

(***************************************************************************)
(* Listings.                                                               *)
(***************************************************************************)
(* list_addresses: at the start all rows are ahead.                        *)
LEMMA ListStep ==
    ASSUME WalletsInv, NEW r \in Requests, list_addresses(r)
    PROVE  WalletsInv'
<1>ListingIs.
    ASSUME NEW x \in Progress, NEW p \in Stages, NEW w \in Busy, NEW d \in SUBSET Nat
    PROVE  \E y \in Progress :
            /\ y = Listing(x, p, w, d)
            /\ y.pc = p /\ y.w = w /\ y.due = d
            /\ y.refs = x.refs /\ y.key = x.key /\ y.body = x.body /\ y.first = x.first /\ y.sealer = x.sealer
            /\ y.got = x.got /\ y.cursor = x.cursor /\ y.seen = x.seen
            /\ y.twice = x.twice
  <2> USE <1>ListingIs
  <2> DEFINE y == Listing(x, p, w, d)
  <2>1. y \in Progress
    BY Zenon DEF Progress, Listing
  <2>2. y.twice = x.twice
    BY Zenon DEF Progress, Listing
  <2>3. /\ y.pc = p /\ y.w = w /\ y.due = d
        /\ y.refs = x.refs /\ y.key = x.key /\ y.body = x.body /\ y.first = x.first /\ y.sealer = x.sealer
        /\ y.got = x.got /\ y.cursor = x.cursor /\ y.seen = x.seen
    BY Zenon DEF Progress, Listing
  <2> HIDE DEF y
  <2> QED BY Zenon, <2>1, <2>2, <2>3 DEF y
<1>0. Starts(r, "list") /\ TypeOK /\ UNCHANGED <<wallet, lock, address, idem, expiries, links, config>>
  BY Zenon DEF list_addresses, WalletsInv, rows
<1>1. PICK w \in Busy : Become(r, [req[r] EXCEPT !.pc = "page", !.w = w,
                                          !.due = {a.muxed : a \in {b \in address : b.w = w}}])
  BY Zenon DEF list_addresses
<1>2. /\ req[r] \in Progress /\ req[r].key = NoKey /\ req[r].refs = << >> /\ req[r].seen = {}
      /\ req[r].cursor = 0 /\ ~req[r].twice /\ Unlock(r) = lock
  BY Zenon, <1>0, Unbegun
<1>3. PICK p \in Stages : p = "page"
  BY Zenon, StageNames
<1>4. PICK d \in SUBSET Nat : d = {a.muxed : a \in {b \in address : b.w = w}}
  <2>1. \A a \in address : a.muxed \in Nat
    BY Zenon, <1>0 DEF TypeOK, AddressRows
  <2> QED BY Zenon, <2>1
<1>5. PICK y \in Progress :
         /\ y = Listing(req[r], p, w, d) /\ y.pc = p /\ y.w = w /\ y.due = d
         /\ y.key = req[r].key /\ y.refs = req[r].refs /\ y.seen = req[r].seen
         /\ y.cursor = req[r].cursor /\ y.twice = req[r].twice
  <2>1. PICK x \in Progress : x = req[r]
    BY Zenon, <1>2
  <2>2. PICK y \in Progress :
         /\ y = Listing(x, p, w, d) /\ y.pc = p /\ y.w = w /\ y.due = d
         /\ y.key = x.key /\ y.refs = x.refs /\ y.seen = x.seen
         /\ y.cursor = x.cursor /\ y.twice = x.twice
    BY <1>ListingIs
  <2> QED BY Zenon, <2>1, <2>2
<1>6. Become(r, y)
  BY Zenon, <1>1, <1>3, <1>4, <1>5 DEF Listing
<1>7. StageOK(y) /\ ~InTransaction(y) /\ ~Claims(y) /\ Claimed(r, y)'
  <2>1. Distinct(y.refs)
    BY <1>2, <1>5 DEF Distinct
  <2> QED BY Zenon, <1>2, <1>3, <1>5, <2>1 DEF StageOK, InTransaction, Claims, Claimed
<1>8. Walk(y)'
  <2>1. ~y.twice /\ y.seen = {} /\ y.cursor = 0 /\ y.pc = "page"
    BY Zenon, <1>2, <1>3, <1>5
  <2>2. \A i \in y.due : \E a \in Below(y.w, y.cursor)' : a.muxed = i
    BY Zenon, <1>0, <1>4, <1>5, <2>1 DEF Below
  <2> QED BY Zenon, <2>1, <2>2 DEF Walk
<1> QED BY Zenon, <1>0, <1>2, <1>6, <1>7, <1>8, QuietRows

(***************************************************************************)
(* Idempotency keys and payment links.                                     *)
(***************************************************************************)
(* create_payment_link up to the claim of its key.                         *)
LEMMA LinkStep ==
    ASSUME WalletsInv, NEW r \in Requests, create_payment_link(r)
    PROVE  WalletsInv'
<1>LinkIs.
    ASSUME NEW x \in Progress, NEW p \in Stages, NEW w \in Busy, NEW k \in Keys \cup {NoKey},
           NEW b \in Bodies, NEW s \in Seq(Refs \cup {NoRef})
    PROVE  \E y \in Progress :
            /\ y = Linking(x, p, w, k, b, s)
            /\ y.pc = p /\ y.w = w /\ y.key = k /\ y.body = b /\ y.refs = s
            /\ y.first = x.first /\ y.sealer = x.sealer /\ y.got = x.got /\ y.cursor = x.cursor /\ y.seen = x.seen
            /\ y.due = x.due
            /\ y.twice = x.twice
  <2> USE <1>LinkIs
  <2> DEFINE y == Linking(x, p, w, k, b, s)
  <2>1. y \in Progress
    BY Zenon DEF Progress, Linking
  <2>2. y.twice = x.twice
    BY Zenon DEF Progress, Linking
  <2>3. /\ y.pc = p /\ y.w = w /\ y.key = k /\ y.body = b /\ y.refs = s
        /\ y.first = x.first /\ y.sealer = x.sealer /\ y.got = x.got /\ y.cursor = x.cursor /\ y.seen = x.seen
        /\ y.due = x.due
    BY Zenon DEF Progress, Linking
  <2> HIDE DEF y
  <2> QED BY Zenon, <2>1, <2>2, <2>3 DEF y
<1>0. Starts(r, "link") /\ UNCHANGED <<wallet, lock, address, idem, expiries, links, config>>
  BY Zenon DEF create_payment_link, rows
<1>1. PICK w \in Busy, k \in Keys \cup {NoKey}, b \in Bodies :
         Become(r, [req[r] EXCEPT !.pc = IF k = NoKey THEN "create" ELSE "claim",
                                  !.w = w, !.key = k, !.body = b, !.refs = <<NoRef>>])
  BY Zenon DEF create_payment_link
<1>2. req[r] \in Progress /\ ~req[r].twice /\ Unlock(r) = lock
  BY Zenon, <1>0, Unbegun
<1>3. PICK p \in Stages : p = IF k = NoKey THEN "create" ELSE "claim"
  BY Zenon, StageNames
<1>4. PICK s \in Seq(Refs \cup {NoRef}) : s = <<NoRef>>
  <2>1. <<NoRef>> \in Seq(Refs \cup {NoRef})
    OBVIOUS
  <2> QED BY <2>1, Zenon
<1>4a. PICK x \in Progress : x = req[r]
  BY Zenon, <1>2
<1>5. PICK y \in Progress :
         /\ y = Linking(x, p, w, k, b, s) /\ y.pc = p /\ y.w = w /\ y.key = k /\ y.body = b
         /\ y.refs = s /\ y.twice = x.twice
  BY <1>LinkIs
<1>6. Become(r, y)
  BY Zenon, <1>1, <1>3, <1>4, <1>4a, <1>5 DEF Linking
<1>7. Neutral(y)
  <2>1. Distinct(y.refs)
    BY <1>4, <1>5 DEF Distinct
  <2>2. y.body # Nobody /\ ~y.twice
    BY Zenon, <1>2, <1>4a, <1>5, WalletsAssumption
  <2> QED BY Zenon, <1>3, <1>5, <2>1, <2>2 DEF Neutral, StageOK, InTransaction, Claims
<1> QED BY Zenon, <1>0, <1>2, <1>6, <1>7, QuietEnd

(* A request that is about a key has claimed it, or waits for it.          *)
LEMMA KeyedIs ==
    ASSUME TypeOK, StagesOK, NEW r \in Requests, req[r].key # NoKey, req[r].pc \notin Ended
    PROVE  HasKey(req[r]) \in Busy \X Keys /\ KeyOf(r) = HasKey(req[r])
<1>1. req[r].w \in Busy /\ req[r].key \in Keys
  BY Zenon DEF TypeOK, StagesOK, StageOK, Progress
<1> QED BY Zenon, <1>1 DEF HasKey, KeyOf

(* A change of what stands under one key, which no other request claims.   *)
LEMMA KeyMoved ==
    ASSUME TypeOK, StagesOK, KeysOK, NEW r \in Requests, NEW y \in Progress, Become(r, y), NEW k,
           \A j \in Busy \X Keys : j # k => idem'[j] = idem[j],
           links \subseteq links', \A l \in links' : l \in links \/ IsFor(l, k),
           UNCHANGED expiries, k \in Busy \X Keys => IdemOK(k)',
           OneLinkPerKey', \A l \in links' : l.term <= expiries',
           Claimed(r, y)', Claims(y) => HasKey(y) = k,
           \A q \in Requests : q # r /\ Claims(req[q]) => HasKey(req[q]) # k
    PROVE  KeysOK'
<1>0. /\ req'[r] = y
      /\ \A q \in Requests : q # r => req'[q] = req[q]
  BY Zenon, Stepped
<1>1. \A j : j # k => (NoLinkYet(j)' <=> NoLinkYet(j))
  BY Zenon DEF NoLinkYet, IsFor
<1>2. \A by, j, b : Linked(by, j, b) => Linked(by, j, b)'
  BY Zenon DEF Linked
<1>3. ASSUME NEW j \in Busy \X Keys PROVE IdemOK(j)'
  <2>1. CASE j = k
    BY Zenon, <2>1 DEF IdemOK, Vacant, NoLinkYet, Linked
  <2>2. CASE j # k
    <3>1. IdemOK(j) /\ idem'[j] = idem[j]
      BY Zenon, <2>2 DEF KeysOK
    <3>2. (Vacant(j)' <=> Vacant(j)) /\ (NoLinkYet(j)' <=> NoLinkYet(j))
      BY Zenon, <1>1, <2>2, <3>1 DEF Vacant
    <3> QED BY Zenon, <1>2, <3>1, <3>2 DEF IdemOK
  <2> QED BY Zenon, <2>1, <2>2
<1>4. ClaimedOnce'
  BY Zenon, <1>0 DEF KeysOK, ClaimedOnce
<1>5. ASSUME NEW q \in Requests, q # r PROVE Claimed(q, req[q])'
  <2>1. PICK x \in Progress : x = req[q] /\ x = req'[q] /\ Claimed(q, x)
    BY Zenon, <1>0, <1>5 DEF TypeOK, KeysOK
  <2>2. Claims(x) => HasKey(x) # k /\ HasKey(x) \in Busy \X Keys
    BY Zenon, <1>5, <2>1, KeyedIs DEF Claims, Ended
  <2>3. Claims(x) => /\ idem'[HasKey(x)] = idem[HasKey(x)]
                     /\ Vacant(HasKey(x))' <=> Vacant(HasKey(x))
                     /\ NoLinkYet(HasKey(x))' <=> NoLinkYet(HasKey(x))
    BY Zenon, <1>1, <2>2 DEF Vacant
  <2>4. Claimed(q, x)'
    BY Zenon, <1>2, <2>1, <2>3 DEF Claimed
  <2> QED BY <2>1, <2>4 DEF Claimed, Vacant, NoLinkYet, Linked
<1>6. Claimed(r, req[r])'
  BY Zenon, <1>0 DEF Claimed, Vacant, NoLinkYet, Linked
<1> QED BY Zenon, <1>3, <1>4, <1>5, <1>6 DEF KeysOK

(* A step that is about keys and links only.                               *)
LEMMA KeyStep ==
    ASSUME WalletsInv, NEW r \in Requests, NEW y \in Progress, Become(r, y), StageOK(y),
           ~InTransaction(req[r]), ~InTransaction(y), UNCHANGED <<wallet, lock, address, config>>,
           idem' \in [Busy \X Keys -> {Nobody} \cup ClaimRows], expiries' \in Nat,
           links' \subseteq LinkRows, KeysOK', Walk(y)'
    PROVE  WalletsInv'
<1>0. TypeOK /\ StagesOK /\ LocksOK /\ TankSeeds /\ WalksOK /\ AddressesDistinct /\ RanksDistinct
  BY Zenon DEF WalletsInv
<1>1. /\ req' \in [Requests -> Progress] /\ req'[r] = y
      /\ \A q \in Requests : q # r => req'[q] = req[q]
  BY Zenon, <1>0, Stepped
<1>2. TypeOK' /\ StagesOK'
  BY Zenon, <1>0, <1>1 DEF TypeOK, StagesOK
<1>3. lock' = Unlock(r) /\ RowsKept(r)
  BY Zenon, <1>0, NoneHeld DEF RowsKept
<1>4. LocksOK'
  BY Zenon, <1>0, <1>3, LocksReleased
<1>5. WalksOK'
  BY Zenon, <1>0, WalksKept
<1>6. AddressesDistinct' /\ RanksDistinct' /\ TankSeeds'
  BY <1>0 DEF AddressesDistinct, RanksDistinct, TankSeeds
<1> QED BY Zenon, <1>2, <1>4, <1>5, <1>6 DEF WalletsInv

(* claim_idempotency_key.                                                  *)
LEMMA ClaimStep ==
    ASSUME WalletsInv, NEW r \in Requests, claim_idempotency_key(r)
    PROVE  WalletsInv'
(* A new row under a key.                                                  *)
<1>NewClaimIs. ASSUME NEW b \in Bodies
               PROVE  /\ NewClaim(b) \in ClaimRows /\ NewClaim(b) # Nobody /\ NewClaim(b).body = b
                      /\ NewClaim(b).link = Nobody /\ ~NewClaim(b).stale
  <2> USE <1>NewClaimIs
  <2>1. NewClaim(b).body = b /\ NewClaim(b).link = Nobody
    BY Zenon DEF NewClaim
  <2>2. ~NewClaim(b).stale
    BY Zenon DEF NewClaim
  <2>3. FALSE \in BOOLEAN
    BY Zenon
  <2>4. NewClaim(b) \in ClaimRows
    BY <2>3, Zenon DEF NewClaim, ClaimRows
  <2>5. NewClaim(b) \in [body : Bodies, link : Nat \cup {Nobody}, stale : BOOLEAN]
    BY <2>3, Zenon DEF NewClaim
  <2> QED BY Zenon, <2>1, <2>2, <2>4, <2>5, WalletsAssumption
<1>0. /\ TypeOK /\ StagesOK /\ LocksOK /\ KeysOK /\ req[r] \in Progress /\ StageOK(req[r])
      /\ Walk(req[r]) /\ req[r].pc = "claim"
      /\ UNCHANGED <<wallet, lock, address, expiries, links, config>>
  BY Zenon DEF WalletsInv, TypeOK, StagesOK, WalksOK, claim_idempotency_key, At
<1>1. /\ req[r].key # NoKey /\ req[r].w \in Busy /\ req[r].body # Nobody /\ ~req[r].twice
      /\ ~InTransaction(req[r])
  BY Zenon, <1>0 DEF StageOK, Walk, InTransaction, Ended
<1>2. PICK k \in Busy \X Keys : k = KeyOf(r) /\ k = HasKey(req[r])
  BY Zenon, <1>0, <1>1, KeyedIs DEF Ended
<1>3. CASE Vacant(k)
  <2>1. idem' = [idem EXCEPT ![k] = NewClaim(req[r].body)] /\ Go(r, "create")
    BY Zenon, <1>2, <1>3 DEF claim_idempotency_key, Vacant
  <2>2. PICK p \in Stages : p = "create"
    BY Zenon, StageNames
  <2>3. PICK y \in Progress :
           /\ y = Going(req[r], p) /\ y.pc = p /\ y.w = req[r].w /\ y.key = req[r].key
           /\ y.refs = req[r].refs /\ y.body = req[r].body /\ y.twice = req[r].twice
    BY <1>0, GoIs
  <2>4. Become(r, y) /\ ~y.twice /\ HasKey(y) = k
    BY Zenon, <1>1, <1>2, <2>1, <2>2, <2>3 DEF Go, Going, HasKey
  <2>5. StageOK(y) /\ ~InTransaction(y) /\ Walk(y)'
    BY Zenon, <1>0, <1>1, <2>2, <2>3, <2>4 DEF StageOK, InTransaction, Walk
  <2>6. req[r].body \in Bodies
    BY Zenon, <1>0, <1>1 DEF Progress
  <2>7. /\ idem' \in [Busy \X Keys -> {Nobody} \cup ClaimRows]
        /\ idem'[k] = NewClaim(req[r].body)
        /\ \A j \in Busy \X Keys : j # k => idem'[j] = idem[j]
    BY Zenon, <1>0, <2>1, <2>6, <1>NewClaimIs DEF TypeOK
  <2>8. NoLinkYet(k)
    BY Zenon, <1>0, <1>3 DEF KeysOK, IdemOK
  <2>9. ~Vacant(k)' /\ idem'[k].link = Nobody /\ idem'[k].body = req[r].body /\ NoLinkYet(k)'
    BY <1>0, <2>6, <2>7, <2>8, <1>NewClaimIs DEF Vacant, NoLinkYet
  <2>10. IdemOK(k)' /\ Claimed(r, y)'
    BY Zenon, <2>2, <2>3, <2>4, <2>9 DEF IdemOK, Claimed
  <2>11. ASSUME NEW q \in Requests, q # r, Claims(req[q]) PROVE HasKey(req[q]) # k
    BY Zenon, <1>0, <1>3, <2>11 DEF KeysOK, Claimed
  <2>12. OneLinkPerKey' /\ \A l \in links' : l.term <= expiries'
    BY Zenon, <1>0 DEF KeysOK, OneLinkPerKey
  <2>13. KeysOK'
    BY Zenon, <1>0, <2>4, <2>7, <2>10, <2>11, <2>12, KeyMoved
  <2>14. expiries' \in Nat /\ links' \subseteq LinkRows
    BY Zenon, <1>0 DEF TypeOK
  <2> QED BY Zenon, <1>0, <1>1, <2>4, <2>5, <2>7, <2>13, <2>14, KeyStep
<1>4. CASE ~Vacant(k)
  <2>1. UNCHANGED idem /\ Go(r, "peek")
    BY Zenon, <1>2, <1>4 DEF claim_idempotency_key, Vacant
  <2>2. PICK p \in Stages : p = "peek"
    BY Zenon, StageNames
  <2>3. PICK y \in Progress :
           /\ y = Going(req[r], p) /\ y.pc = p /\ y.w = req[r].w /\ y.key = req[r].key
           /\ y.refs = req[r].refs /\ y.body = req[r].body /\ y.twice = req[r].twice
    BY <1>0, GoIs
  <2>4. Become(r, y) /\ ~y.twice /\ Unlock(r) = lock
    BY Zenon, <1>0, <1>1, <2>1, <2>2, <2>3, NoneHeld DEF Go, Going
  <2>5. Neutral(y)
    BY Zenon, <1>0, <1>1, <2>2, <2>3, <2>4 DEF StageOK, InTransaction, Claims, Neutral
  <2> QED BY Zenon, <1>0, <2>1, <2>4, <2>5, QuietEnd
<1> QED BY Zenon, <1>3, <1>4

(* The second statement of the claim answers with the link that is stored. *)
LEMMA PeekStep ==
    ASSUME WalletsInv, NEW r \in Requests, peek(r)
    PROVE  WalletsInv'
<1>ReplayIs.
    ASSUME NEW x \in Progress, NEW p \in Stages, NEW q \in Requests \cup {Nobody}
    PROVE  \E y \in Progress :
            /\ y = Replaying(x, p, q)
            /\ y.pc = p /\ y.got = q
            /\ y.w = x.w /\ y.refs = x.refs /\ y.key = x.key /\ y.body = x.body /\ y.first = x.first
            /\ y.sealer = x.sealer /\ y.cursor = x.cursor /\ y.seen = x.seen /\ y.due = x.due
            /\ y.twice = x.twice
  <2> USE <1>ReplayIs
  <2> DEFINE y == Replaying(x, p, q)
  <2>1. y \in Progress
    BY Zenon DEF Progress, Replaying
  <2>2. y.twice = x.twice
    BY Zenon DEF Progress, Replaying
  <2>3. /\ y.pc = p /\ y.got = q
        /\ y.w = x.w /\ y.refs = x.refs /\ y.key = x.key /\ y.body = x.body /\ y.first = x.first
        /\ y.sealer = x.sealer /\ y.cursor = x.cursor /\ y.seen = x.seen /\ y.due = x.due
    BY Zenon DEF Progress, Replaying
  <2> HIDE DEF y
  <2> QED BY Zenon, <2>1, <2>2, <2>3 DEF y
<1>0. /\ TypeOK /\ StagesOK /\ LocksOK /\ KeysOK /\ req[r] \in Progress /\ StageOK(req[r])
      /\ Walk(req[r]) /\ req[r].pc = "peek"
      /\ UNCHANGED <<wallet, lock, address, idem, expiries, links, config>>
  BY Zenon DEF WalletsInv, TypeOK, StagesOK, WalksOK, peek, At, rows
<1>1. /\ req[r].key # NoKey /\ req[r].body # Nobody /\ ~req[r].twice /\ Unlock(r) = lock
  BY Zenon, <1>0, NoneHeld DEF StageOK, Walk, InTransaction
<1>2. PICK k \in Busy \X Keys : k = KeyOf(r) /\ k = HasKey(req[r])
  BY Zenon, <1>0, <1>1, KeyedIs DEF Ended
<1>3. CASE idem[k] # Nobody /\ idem[k].body = req[r].body /\ idem[k].link # Nobody
  <2>1. idem[k].link \in Requests \cup {Nobody} /\ Linked(idem[k].link, k, req[r].body)
    BY Zenon, <1>0, <1>3 DEF TypeOK, ClaimRows, KeysOK, IdemOK
  <2>2. PICK p \in Stages : p = "replayed"
    BY Zenon, StageNames
  <2>3. PICK y \in Progress :
           /\ y = Replaying(req[r], p, idem[k].link) /\ y.pc = p /\ y.got = idem[k].link
           /\ y.w = req[r].w /\ y.key = req[r].key /\ y.refs = req[r].refs
           /\ y.body = req[r].body /\ y.twice = req[r].twice
    BY <1>0, <2>1, <1>ReplayIs
  <2>4. Become(r, y) /\ ~y.twice /\ HasKey(y) = k
    BY Zenon, <1>1, <1>2, <1>3, <2>2, <2>3 DEF peek, Replaying, HasKey
  <2>5. StageOK(y) /\ ~InTransaction(y) /\ ~Claims(y) /\ Walk(y)'
    BY Zenon, <1>0, <1>1, <2>2, <2>3, <2>4 DEF StageOK, InTransaction, Claims, Walk, Ended
  <2>6. Linked(y.got, HasKey(y), y.body)'
    BY Zenon, <1>0, <2>1, <2>3, <2>4 DEF Linked
  <2>7. Claimed(r, y)'
    BY Zenon, <2>2, <2>3, <2>5, <2>6 DEF Claimed
  <2> QED BY Zenon, <1>0, <1>1, <2>4, <2>5, <2>7, QuietRows
<1>4. CASE ~(idem[k] # Nobody /\ idem[k].body = req[r].body /\ idem[k].link # Nobody)
  <2>1. PICK y \in Progress : y = Bare("failed") /\ Neutral(y)
    BY Zenon, BareIs
  <2>2. Become(r, y)
    BY Zenon, <1>2, <1>4, <2>1 DEF peek, Finish
  <2> QED BY Zenon, <1>0, <1>1, <2>1, <2>2, QuietEnd
<1> QED BY Zenon, <1>3, <1>4

(* insert_payment_link: the first answered link of its key in this term,   *)
(* or one whose reply is lost and whose key is released.                   *)
LEMMA InsertLinkStep ==
    ASSUME WalletsInv, NEW r \in Requests, insert_link(r)
    PROVE  WalletsInv'
<1>0. /\ TypeOK /\ StagesOK /\ LocksOK /\ KeysOK /\ req[r] \in Progress /\ StageOK(req[r])
      /\ Walk(req[r]) /\ Claimed(r, req[r]) /\ req[r].pc = "link"
      /\ UNCHANGED <<wallet, lock, address, idem, expiries, config>>
  BY Zenon DEF WalletsInv, TypeOK, StagesOK, WalksOK, KeysOK, insert_link, At
<1>1. /\ req[r].w \in Busy /\ req[r].body \in Bodies /\ ~req[r].twice /\ ~InTransaction(req[r])
      /\ req[r].key \in Keys \cup {NoKey}
  <2>1. req[r].body # Nobody /\ req[r].w \in Busy
    BY Zenon, <1>0 DEF StageOK, Ended
  <2>2. ~req[r].twice
    BY Zenon, <1>0 DEF Walk
  <2> QED BY Zenon, <1>0, <2>1, <2>2 DEF Progress, InTransaction
<1>2. PICK k : k = HasKey(req[r])
  BY Zenon
<1>2a. PICK b \in Bodies : b = req[r].body
  BY Zenon, <1>1
<1>t. PICK told \in BOOLEAN :
         /\ links' = links \cup {[by |-> r, w |-> req[r].w, key |-> req[r].key, body |-> req[r].body,
                                  term |-> expiries, told |-> told]}
         /\ IF ~told THEN Undo(r)
            ELSE IF req[r].key # NoKey THEN Go(r, "complete") ELSE Finish(r, "done")
  BY Zenon DEF insert_link
<1>3. PICK l \in LinkRows : /\ links' = links \cup {l} /\ l.by = r /\ l.w = req[r].w
                            /\ l.key = req[r].key /\ l.body = b /\ l.term = expiries /\ l.told = told
  <2> DEFINE l == [by |-> r, w |-> req[r].w, key |-> req[r].key, body |-> req[r].body, term |-> expiries,
                   told |-> told]
  <2>1. expiries \in Nat
    BY Zenon, <1>0 DEF TypeOK
  <2>2. l \in LinkRows
    BY Zenon, <1>1, <2>1 DEF LinkRows
  <2>3. /\ l.by = r /\ l.w = req[r].w /\ l.key = req[r].key /\ l.body = b /\ l.term = expiries
        /\ l.told = told
    BY Zenon, <1>2a
  <2>4. links' = links \cup {l}
    BY Zenon, <1>t
  <2> HIDE DEF l
  <2> QED BY Zenon, <2>2, <2>3, <2>4
<1>4. links \subseteq links' /\ links' \subseteq LinkRows /\ \A m \in links' : m \in links \/ m = l
  BY Zenon, <1>0, <1>3 DEF TypeOK
<1>5. IsFor(l, k) /\ \A m \in links : l.w = m.w /\ l.key = m.key => IsFor(m, k)
  BY Zenon, <1>2, <1>3 DEF IsFor, HasKey
<1>6. \A m \in links' : m.term <= expiries'
  BY <1>0, <1>3, <1>4 DEF KeysOK, TypeOK
<1>7. req[r].key # NoKey =>
        /\ k \in Busy \X Keys /\ ~Vacant(k) /\ idem[k].link = Nobody /\ idem[k].body = req[r].body
        /\ NoLinkYet(k)
  BY Zenon, <1>0, <1>2, KeyedIs DEF Claimed, Claims, Ended
<1>8. OneLinkPerKey'
  <2> SUFFICES ASSUME NEW m \in links', NEW o \in links', m.w = o.w, m.key = o.key, m.key # NoKey,
                      m.term = o.term, m.told, o.told
               PROVE  m = o
    BY Zenon DEF OneLinkPerKey
  <2>1. \A m1 \in links : l.w = m1.w /\ l.key = m1.key /\ l.key # NoKey /\ m1.told => m1.term # l.term
    BY Zenon, <1>3, <1>5, <1>7 DEF NoLinkYet
  <2>2. CASE m \in links /\ o \in links
    BY Zenon, <1>0, <2>2 DEF KeysOK, OneLinkPerKey
  <2> QED BY Zenon, <1>4, <2>1, <2>2
<1>9. told => Linked(r, k, b)'
  BY Zenon, <1>3, <1>5 DEF Linked
<1>9a. ~told => (NoLinkYet(k)' <=> NoLinkYet(k))
  BY Zenon, <1>0, <1>3, <1>4 DEF NoLinkYet
<1>10. k \in Busy \X Keys => IdemOK(k)'
  <2>1. k \in Busy \X Keys => req[r].key # NoKey
    BY Zenon, <1>2, WalletsAssumption DEF HasKey
  <2> QED BY Zenon, <1>0, <1>7, <2>1 DEF IdemOK, Vacant
<1>11. PICK y \in Progress :
          /\ Become(r, y) /\ StageOK(y) /\ ~InTransaction(y) /\ Walk(y)'
          /\ Claimed(r, y)' /\ (Claims(y) => HasKey(y) = k)
  <2>1. CASE told /\ req[r].key # NoKey
    <3>1. PICK p \in Stages : p = "complete"
      BY Zenon, StageNames
    <3>2. PICK y \in Progress :
             /\ y = Going(req[r], p) /\ y.pc = p /\ y.w = req[r].w /\ y.key = req[r].key
             /\ y.refs = req[r].refs /\ y.body = req[r].body /\ y.twice = req[r].twice
      BY <1>0, GoIs
    <3>3. Become(r, y) /\ ~y.twice /\ HasKey(y) = k
      BY Zenon, <1>1, <1>2, <1>t, <2>1, <3>1, <3>2 DEF Go, Going, HasKey
    <3>4. StageOK(y) /\ ~InTransaction(y) /\ Walk(y)'
      BY Zenon, <1>0, <1>1, <2>1, <3>1, <3>2, <3>3 DEF StageOK, InTransaction, Walk
    <3>5. ~Vacant(k)' /\ idem'[k].link = Nobody /\ idem'[k].body = y.body /\ Linked(r, k, y.body)'
      BY Zenon, <1>0, <1>2a, <1>7, <1>9, <2>1, <3>2 DEF Vacant, Linked
    <3>6. Claimed(r, y)'
      BY Zenon, <3>1, <3>2, <3>3, <3>5 DEF Claimed
    <3> QED BY Zenon, <3>3, <3>4, <3>6
  <2>2. CASE req[r].key = NoKey
    <3>0. req[r].body # Nobody
      BY Zenon, <1>1, WalletsAssumption
    <3>1. PICK y \in Progress : (y = Bare("done") \/ y = Bare("failed")) /\ Neutral(y) /\ Become(r, y)
      BY Zenon, <1>t, <2>2, <3>0, BareIs DEF Undo, Finish
    <3>3. StageOK(y) /\ ~InTransaction(y) /\ ~Claims(y) /\ Claimed(r, y)' /\ Walk(y)'
      BY Zenon, <3>1, NeutralOK DEF Neutral
    <3> QED BY Zenon, <3>1, <3>3
  <2>3. CASE ~told /\ req[r].key # NoKey
    <3>0. req[r].body # Nobody
      BY Zenon, <1>1, WalletsAssumption
    <3>1. PICK p \in Stages : p = "release"
      BY Zenon, StageNames
    <3>2. PICK y \in Progress :
             /\ y = Going(req[r], p) /\ y.pc = p /\ y.w = req[r].w /\ y.key = req[r].key
             /\ y.refs = req[r].refs /\ y.body = req[r].body /\ y.twice = req[r].twice
      BY <1>0, GoIs
    <3>3. Become(r, y) /\ ~y.twice /\ HasKey(y) = k
      BY Zenon, <1>1, <1>2, <1>t, <2>3, <3>0, <3>1, <3>2 DEF Undo, Go, Going, HasKey
    <3>4. StageOK(y) /\ ~InTransaction(y) /\ Walk(y)'
      BY Zenon, <1>0, <1>1, <2>3, <3>0, <3>1, <3>2, <3>3 DEF StageOK, InTransaction, Walk
    <3>5. ~Vacant(k)' /\ idem'[k].link = Nobody /\ idem'[k].body = y.body /\ NoLinkYet(k)'
      BY Zenon, <1>0, <1>2a, <1>7, <1>9a, <2>3, <3>2 DEF Vacant
    <3>6. Claimed(r, y)'
      BY Zenon, <3>1, <3>2, <3>3, <3>5 DEF Claimed
    <3> QED BY Zenon, <3>3, <3>4, <3>6
  <2> QED BY Zenon, <2>1, <2>2, <2>3
<1>12. ASSUME NEW q \in Requests, q # r, Claims(req[q]) PROVE HasKey(req[q]) # k
  <2>1. CASE req[r].key # NoKey
    <3>1. Claims(req[r])
      BY Zenon, <1>0, <2>1 DEF Claims
    <3> QED BY Zenon, <1>0, <1>2, <1>12, <3>1 DEF KeysOK, ClaimedOnce
  <2>2. CASE req[r].key = NoKey
    BY Zenon, <1>2, <1>12, <2>2 DEF Claims, HasKey
  <2> QED BY Zenon, <2>1, <2>2
<1>13. \A m \in links' : m \in links \/ IsFor(m, k)
  BY Zenon, <1>4, <1>5
<1>14. KeysOK'
  BY Zenon, <1>0, <1>4, <1>6, <1>8, <1>10, <1>11, <1>12, <1>13, KeyMoved
<1>15. idem' \in [Busy \X Keys -> {Nobody} \cup ClaimRows] /\ expiries' \in Nat
  BY Zenon, <1>0 DEF TypeOK
<1> QED BY Zenon, <1>0, <1>1, <1>4, <1>11, <1>14, <1>15, KeyStep

(* A row under a key once its response is stored.                          *)
Answered(row, r) == [row EXCEPT !.link = r]

(* The requests that complete or release a key are done with it.           *)
LEMMA KeyDoneStep ==
    ASSUME WalletsInv, NEW r \in Requests,
           complete_idempotency_key(r) \/ release_idempotency_key(r)
    PROVE  WalletsInv'
<1>AnsweredIs. ASSUME NEW row \in ClaimRows, NEW q \in Requests
               PROVE  /\ Answered(row, q) \in ClaimRows /\ Answered(row, q).link = q
                      /\ Answered(row, q).body = row.body /\ Answered(row, q).stale = row.stale
  <2> USE <1>AnsweredIs
  <2>1. Answered(row, q) \in ClaimRows
    BY Zenon DEF Answered, ClaimRows
  <2>2. Answered(row, q).link = q /\ Answered(row, q).body = row.body
    BY Zenon DEF Answered, ClaimRows
  <2>3. Answered(row, q).stale = row.stale
    BY Zenon DEF Answered, ClaimRows
  <2> QED BY Zenon, <2>1, <2>2, <2>3
<1>0. /\ TypeOK /\ StagesOK /\ LocksOK /\ KeysOK /\ req[r] \in Progress /\ StageOK(req[r])
      /\ Claimed(r, req[r]) /\ req[r].pc \in {"complete", "release"}
      /\ UNCHANGED <<wallet, lock, address, expiries, links, config>>
  BY Zenon DEF WalletsInv, TypeOK, StagesOK, KeysOK, complete_idempotency_key, release_idempotency_key, At
<1>1. req[r].key # NoKey /\ ~InTransaction(req[r]) /\ Claims(req[r])
  BY Zenon, <1>0 DEF StageOK, InTransaction, Claims
<1>2. PICK k \in Busy \X Keys : k = KeyOf(r) /\ k = HasKey(req[r])
  BY Zenon, <1>0, <1>1, KeyedIs DEF Ended
<1>3. /\ idem[k] # Nobody /\ ~Vacant(k) /\ idem[k].link = Nobody /\ idem[k].body = req[r].body
      /\ req[r].pc # "complete" => NoLinkYet(k)
      /\ req[r].pc = "complete" => Linked(r, k, req[r].body)
  BY Zenon, <1>0, <1>1, <1>2 DEF Claimed, Vacant
<1>4. PICK y \in Progress : Become(r, y) /\ Neutral(y)
  <2>1. \E p \in {"unstarted", "done", "failed", "dead"} : Finish(r, p)
    BY Zenon DEF complete_idempotency_key, release_idempotency_key
  <2> QED BY Zenon, <2>1, BareIs DEF Finish
<1>5. StageOK(y) /\ ~InTransaction(y) /\ ~Claims(y) /\ Claimed(r, y)' /\ Walk(y)'
  BY Zenon, <1>4, NeutralOK DEF Neutral
<1>6. /\ idem' \in [Busy \X Keys -> {Nobody} \cup ClaimRows] /\ IdemOK(k)'
      /\ \A j \in Busy \X Keys : j # k => idem'[j] = idem[j]
  <2>1. CASE complete_idempotency_key(r)
    <3>1. idem[k] \in ClaimRows
      BY Zenon, <1>0, <1>3 DEF TypeOK
    <3>2. idem' = [idem EXCEPT ![k] = Answered(idem[k], r)]
      BY Zenon, <1>2, <1>3, <2>1 DEF complete_idempotency_key, Unanswered, Answered
    <3>3. /\ Answered(idem[k], r) \in ClaimRows /\ Answered(idem[k], r).link = r
          /\ Answered(idem[k], r).body = idem[k].body /\ Answered(idem[k], r).stale = idem[k].stale
      BY Zenon, <3>1, <1>AnsweredIs
    <3>4. /\ idem' \in [Busy \X Keys -> {Nobody} \cup ClaimRows] /\ idem'[k] = Answered(idem[k], r)
          /\ \A j \in Busy \X Keys : j # k => idem'[j] = idem[j]
      BY Zenon, <1>0, <3>2, <3>3 DEF TypeOK
    <3>5. Answered(idem[k], r) # Nobody
      <4>1. ClaimRows \subseteq [body : Bodies, link : Nat \cup {Nobody}, stale : BOOLEAN]
        BY Zenon, RequestIs DEF ClaimRows
      <4> QED BY Zenon, <3>3, <4>1, WalletsAssumption
    <3>6. ~Vacant(k)'
      BY Zenon, <1>3, <3>3, <3>4, <3>5 DEF Vacant
    <3>7. Linked(idem[k].link, k, idem[k].body)'
      <4>1. PICK b : b = idem[k].body /\ b = req[r].body
        BY Zenon, <1>3
      <4>2. Linked(r, k, b)
        BY Zenon, <1>3, <2>1, <4>1 DEF complete_idempotency_key, At
      <4>3. Linked(r, k, b)'
        BY Zenon, <1>0, <4>2 DEF Linked
      <4> QED BY Zenon, <3>3, <3>4, <4>1, <4>3 DEF Linked
    <3> QED BY Zenon, <3>4, <3>6, <3>7 DEF IdemOK
  <2>2. CASE release_idempotency_key(r)
    <3>1. idem' = [idem EXCEPT ![k] = Nobody] /\ req[r].pc = "release"
      BY Zenon, <1>2, <1>3, <2>2 DEF release_idempotency_key, Unanswered, At
    <3>2. /\ idem' \in [Busy \X Keys -> {Nobody} \cup ClaimRows] /\ idem'[k] = Nobody
          /\ \A j \in Busy \X Keys : j # k => idem'[j] = idem[j]
      BY Zenon, <1>0, <3>1 DEF TypeOK
    <3>3. NoLinkYet(k)'
      BY Zenon, <1>0, <1>3, <3>1 DEF NoLinkYet
    <3> QED BY Zenon, <3>2, <3>3 DEF IdemOK
  <2> QED BY Zenon, <2>1, <2>2
<1>7. ASSUME NEW q \in Requests, q # r, Claims(req[q]) PROVE HasKey(req[q]) # k
  BY Zenon, <1>0, <1>1, <1>2, <1>7 DEF KeysOK, ClaimedOnce
<1>8. OneLinkPerKey' /\ \A l \in links' : l.term <= expiries'
  BY Zenon, <1>0 DEF KeysOK, OneLinkPerKey
<1>9. KeysOK'
  <2>1. links \subseteq links' /\ \A l \in links' : l \in links \/ IsFor(l, k)
    BY Zenon, <1>0
  <2> QED BY Zenon, <1>0, <1>4, <1>5, <1>6, <1>7, <1>8, <2>1, KeyMoved
<1>10. expiries' \in Nat /\ links' \subseteq LinkRows
  BY Zenon, <1>0 DEF TypeOK
<1> QED BY Zenon, <1>0, <1>1, <1>4, <1>5, <1>6, <1>9, <1>10, KeyStep

(* Keys expire and are purged; requests are not touched.                   *)
LEMMA KeysAgeStep ==
    ASSUME WalletsInv, UNCHANGED <<wallet, lock, address, links, config, req>>,
           idem' \in [Busy \X Keys -> {Nobody} \cup ClaimRows], expiries' \in Nat, KeysOK'
    PROVE  WalletsInv'
<1>1. TypeOK'
  BY Zenon DEF WalletsInv, TypeOK
<1>2. StagesOK' /\ AddressesDistinct' /\ RanksDistinct' /\ TankSeeds'
  BY DEF WalletsInv, StagesOK, AddressesDistinct, RanksDistinct, TankSeeds
<1>3. LocksOK'
  BY Zenon DEF WalletsInv, LocksOK, LocksHeld, Locked
<1>4. WalksOK'
  BY DEF WalletsInv, WalksOK, Walk, Below
<1> QED BY Zenon, <1>1, <1>2, <1>3, <1>4 DEF WalletsInv

(* A row whose time is over.                                               *)
Old(row) == [row EXCEPT !.stale = TRUE]

(* Twenty-four hours pass over a key that no request is about.             *)
LEMMA ExpireStep ==
    ASSUME WalletsInv, NEW k \in Busy \X Keys, expire(k)
    PROVE  WalletsInv'
<1>OldIs. ASSUME NEW row \in ClaimRows
          PROVE  Old(row) \in ClaimRows /\ Old(row).link = row.link /\ Old(row).body = row.body
  <2> USE <1>OldIs
  <2>1. Old(row) \in ClaimRows
    BY Zenon DEF Old, ClaimRows
  <2>2. Old(row).link = row.link /\ Old(row).body = row.body
    BY Zenon DEF Old, ClaimRows
  <2> QED BY Zenon, <2>1, <2>2
<1>0. /\ TypeOK /\ StagesOK /\ KeysOK /\ UNCHANGED <<wallet, lock, address, links, config, req>>
      /\ expiries' = expiries + 1 /\ idem[k] \in ClaimRows
  BY Zenon DEF WalletsInv, TypeOK, expire
<1>1. expiries \in Nat /\ expiries' \in Nat
  BY <1>0 DEF TypeOK
<1>2. idem' = [idem EXCEPT ![k] = Old(idem[k])]
  BY Zenon DEF expire, Old
<1>3. /\ idem' \in [Busy \X Keys -> {Nobody} \cup ClaimRows] /\ idem'[k] = Old(idem[k])
      /\ \A j \in Busy \X Keys : j # k => idem'[j] = idem[j]
  BY Zenon, <1>0, <1>2, <1>OldIs DEF TypeOK
<1>4. \A j : NoLinkYet(j)'
  <2>1. \A l \in links : l.term <= expiries /\ l.term \in Nat
    BY Zenon, <1>0 DEF KeysOK, TypeOK, LinkRows
  <2> QED BY <1>0, <1>1, <2>1 DEF NoLinkYet
<1>5. \A by, j, b : Linked(by, j, b) <=> Linked(by, j, b)'
  BY Zenon, <1>0 DEF Linked
<1>6. ASSUME NEW j \in Busy \X Keys PROVE IdemOK(j)'
  <2>1. IdemOK(j)
    BY Zenon, <1>0 DEF KeysOK
  <2>2. idem'[j] # Nobody => idem[j] # Nobody /\ idem'[j].link = idem[j].link /\ idem'[j].body = idem[j].body
    <3>1. CASE j = k
      <4>1. idem[k] # Nobody
        BY Zenon DEF expire
      <4> QED BY Zenon, <1>0, <1>3, <3>1, <4>1, <1>OldIs
    <3>2. CASE j # k
      BY Zenon, <1>3, <3>2
    <3> QED BY Zenon, <3>1, <3>2
  <2> QED BY Zenon, <1>4, <1>5, <2>1, <2>2 DEF IdemOK
<1>7. ASSUME NEW q \in Requests PROVE Claimed(q, req[q])'
  <2>1. PICK x \in Progress : x = req[q] /\ x = req'[q] /\ Claimed(q, x)
    BY Zenon, <1>0 DEF TypeOK, KeysOK
  <2>2. Claims(x) => HasKey(x) \in Busy \X Keys /\ HasKey(x) # k
    <3>1. Claims(x) => q \in Open /\ HasKey(x) \in Busy \X Keys /\ HasKey(x) = KeyOf(q)
      BY Zenon, <1>0, <2>1, KeyedIs DEF Claims, Ended, Open
    <3> QED BY Zenon, <3>1 DEF expire
  <2>3. Claims(x) => idem'[HasKey(x)] = idem[HasKey(x)] /\ (Vacant(HasKey(x))' <=> Vacant(HasKey(x)))
    BY Zenon, <1>3, <2>2 DEF Vacant
  <2>4. Claimed(q, x)'
    BY Zenon, <1>4, <1>5, <2>1, <2>3 DEF Claimed
  <2> QED BY Zenon, <2>1, <2>4 DEF Claimed, Vacant, NoLinkYet, Linked
<1>8. OneLinkPerKey' /\ ClaimedOnce' /\ \A l \in links' : l.term <= expiries'
  <2>1. \A l \in links : l.term <= expiries /\ l.term \in Nat
    BY Zenon, <1>0 DEF KeysOK, TypeOK, LinkRows
  <2>2. \A l \in links' : l.term <= expiries'
    BY <1>0, <1>1, <2>1
  <2> QED BY Zenon, <1>0, <2>2 DEF KeysOK, OneLinkPerKey, ClaimedOnce
<1>9. KeysOK'
  BY Zenon, <1>6, <1>7, <1>8 DEF KeysOK
<1> QED BY Zenon, <1>0, <1>1, <1>3, <1>9, KeysAgeStep

(* Rows whose time is over are deleted.                                    *)
LEMMA PurgeStep ==
    ASSUME WalletsInv, purge_expired_idempotency_keys
    PROVE  WalletsInv'
<1>0. /\ TypeOK /\ StagesOK /\ KeysOK
      /\ UNCHANGED <<wallet, lock, address, expiries, links, config, req>>
  BY Zenon DEF WalletsInv, purge_expired_idempotency_keys
<1>1. /\ idem' = [k \in Busy \X Keys |-> IF idem[k] # Nobody /\ idem[k].stale THEN Nobody ELSE idem[k]]
      /\ idem \in [Busy \X Keys -> {Nobody} \cup ClaimRows]
  BY Zenon, <1>0 DEF purge_expired_idempotency_keys, TypeOK
<1>2. idem' \in [Busy \X Keys -> {Nobody} \cup ClaimRows]
  BY Zenon, <1>1
<1>3. \A k \in Busy \X Keys : /\ Vacant(k) => idem'[k] = Nobody
                              /\ ~Vacant(k) => idem'[k] = idem[k]
  BY Zenon, <1>1 DEF Vacant
<1>4. \A k \in Busy \X Keys : Vacant(k)' <=> Vacant(k)
  BY Zenon, <1>3 DEF Vacant
<1>5. /\ \A by, j, b : Linked(by, j, b) <=> Linked(by, j, b)'
      /\ \A j : NoLinkYet(j) <=> NoLinkYet(j)'
  BY Zenon, <1>0 DEF Linked, NoLinkYet
<1>6. ASSUME NEW j \in Busy \X Keys PROVE IdemOK(j)'
  <2>1. IdemOK(j)
    BY Zenon, <1>0 DEF KeysOK
  <2> QED BY Zenon, <1>3, <1>4, <1>5, <2>1 DEF IdemOK
<1>7. ASSUME NEW q \in Requests PROVE Claimed(q, req[q])'
  <2>1. PICK x \in Progress : x = req[q] /\ x = req'[q] /\ Claimed(q, x)
    BY Zenon, <1>0 DEF TypeOK, KeysOK
  <2>2. Claims(x) => HasKey(x) \in Busy \X Keys
    BY Zenon, <1>0, <2>1, KeyedIs DEF Claims, Ended
  <2>3. Claimed(q, x)'
    BY Zenon, <1>3, <1>4, <1>5, <2>1, <2>2 DEF Claimed
  <2> QED BY Zenon, <2>1, <2>3 DEF Claimed, Vacant, NoLinkYet, Linked
<1>8. OneLinkPerKey' /\ ClaimedOnce' /\ \A l \in links' : l.term <= expiries'
  BY Zenon, <1>0 DEF KeysOK, OneLinkPerKey, ClaimedOnce
<1>9. KeysOK'
  BY Zenon, <1>6, <1>7, <1>8 DEF KeysOK
<1>10. expiries' \in Nat
  BY Zenon, <1>0 DEF TypeOK
<1> QED BY Zenon, <1>0, <1>2, <1>9, <1>10, KeysAgeStep

==============================================================================
