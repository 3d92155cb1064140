---------------------------- MODULE RotationProofs ----------------------------
(***************************************************************************)
(* Proofs about Wallets and about KeyRotation beside it, for any wallets,  *)
(* requests, keys and runs of the tool: what the tool does to the rows, the*)
(* pages of a listing, and the theorems.  The other steps of the requests  *)
(* are in WalletsProofs.                                                   *)
(***************************************************************************)
EXTENDS KeyRotation, WalletsProofs, FiniteSetTheorems, WellFoundedInduction, TLAPS

(***************************************************************************)
(* Pages of a listing.                                                     *)
(***************************************************************************)
(* A set of naturals has a least element.                                  *)
LEMMA LeastNat ==
    ASSUME NEW T \in SUBSET Nat, T # {}
    PROVE  \E x \in T : \A y \in T : x <= y
<1>1. IsWellFoundedOn(OpToRel(<, Nat), Nat)
  BY Zenon, NatLessThanWellFounded
<1>2. PICK x \in T : \A y \in T : ~(<<y, x>> \in OpToRel(<, Nat))
  BY <1>1, WFMin, Zenon
<1>3. \A y \in T : ~(y < x)
  BY Zenon, <1>2 DEF OpToRel
<1> QED BY <1>3

(***************************************************************************)
(* Requests beside a rotation of the master key.                           *)
(***************************************************************************)
(* Requests that are not about a tank leave seals and tanks alone.         *)
SealsKept == \A w \in Ids : wallet'[w].tank = wallet[w].tank /\ wallet'[w].seal = wallet[w].seal

(* The keys that the servers hold: the one they seal with is the newest.   *)
LEMMA HeldKeys ==
    ASSUME config \in [key : Nat, next : Nat], KeysInUse
    PROVE  /\ config.key \in Nat \ {0} /\ sealing_key \in Nat \ {0} /\ sealing_key \in opening_keys
           /\ \A k \in opening_keys : k \in 1 .. sealing_key
           /\ config.next = 0 => sealing_key = config.key /\ opening_keys = {config.key}
           /\ config.next # 0 => sealing_key = config.next /\ config.next = config.key + 1
BY DEF KeysInUse, sealing_key, opening_keys

(* A configuration that stays leaves its keys as they are.                 *)
LEMMA SameKeys ==
    ASSUME UNCHANGED <<config, mix>>
    PROVE  /\ sealing_key' = sealing_key /\ opening_keys' = opening_keys
           /\ Offers("upgrade")' = Offers("upgrade") /\ FirstRotation' = FirstRotation
           /\ (config' = Before) = (config = Before)
BY Zenon DEF sealing_key, opening_keys, Offers, FirstRotation, Before, Window, After

(* A request that leaves the seals alone, and begins no provisioning,      *)
(* leaves the rotation's invariants as they are.                           *)
LEMMA Framed ==
    ASSUME RotationInv, SealsKept, UNCHANGED <<tool, checkpoint, config, mix>>,
           \A q \in Requests : Provisions(req'[q]) =>
               Provisions(req[q]) /\ req'[q].w = req[q].w /\ req'[q].sealer = req[q].sealer
    PROVE  ToolTypeOK' /\ SealsOK' /\ BatchesOK' /\ (KeysInv => KeysInv')
(* Rows as they were are sealed as they were.                              *)
<1>SealsFrame.
    ASSUME SealsKept
    PROVE  Sealed' = Sealed /\ \A w \in Ids : account_id(w)' = account_id(w) /\ Moved(w)' = Moved(w)
  BY Zenon, <1>SealsFrame, SameKeys DEF SealsKept, Sealed, account_id, Moved
<1>0. ToolTypeOK /\ SealsOK /\ BatchesOK /\ \A w \in Sealed : w \in Ids
  BY Zenon DEF RotationInv, Sealed
<1>1. ToolTypeOK'
  BY Zenon, <1>0 DEF ToolTypeOK
<1>2. SealsOK'
  BY <1>0, <1>SealsFrame DEF SealsOK, SealsKept, Provisions
<1>3. BatchesOK'
  BY Zenon, <1>0, <1>SealsFrame DEF BatchesOK, SealsKept
<1>5. ASSUME KeysInv PROVE KeysInv'
  <2>1. Begun' = Begun
    BY Zenon, SameKeys DEF Begun
  <2>2. KeysInUse'
    BY Zenon, <1>5, <2>1, SameKeys DEF KeysInv, KeysInUse, Provisions
  <2>3. RowsMoved'
    BY Zenon, <1>0, <1>5, <1>SealsFrame, SameKeys DEF KeysInv, RowsMoved, SealsKept, Behind
  <2>4. FirstMoved'
    BY Zenon, <1>0, <1>5, <1>SealsFrame, SameKeys DEF KeysInv, FirstMoved, SealsKept
  <2> QED BY Zenon, <2>2, <2>3, <2>4 DEF KeysInv
<1> QED BY Zenon, <1>1, <1>2, <1>3, <1>5

(***************************************************************************)
(* Steps of the rotation.                                                  *)
(***************************************************************************)
(* A step that changes the configuration or the seals, and keeps the seeds,*)
(* is none of the requests' business.                                      *)
LEMMA Resealed ==
    ASSUME WalletsInv, UNCHANGED <<lock, address, idem, expiries, links, req>>,
           config' \in [key : Nat, next : Nat], wallet' \in [Ids -> WalletRows],
           \A w \in Ids : wallet'[w].next = wallet[w].next /\ wallet'[w].tank = wallet[w].tank,
           TankSeeds'
    PROVE  WalletsInv'
<1>0. /\ TypeOK /\ StagesOK /\ LocksOK /\ AddressesDistinct /\ RanksDistinct /\ KeysOK /\ WalksOK
      /\ \A r \in Requests : InTransaction(req[r]) => req[r].w \in Ids
  <2>1. WalletsInv /\ StagesOK
    BY Zenon DEF WalletsInv
  <2>2. \A r \in Requests : InTransaction(req[r]) => req[r].w \in Ids
    BY Zenon, <2>1, WalletsAssumption DEF StagesOK, StageOK, InTransaction, Ended
  <2> QED BY Zenon, <2>2 DEF WalletsInv
<1>1. TypeOK' /\ StagesOK'
  BY Zenon, <1>0 DEF TypeOK, StagesOK
<1>2. LocksOK'
  BY <1>0 DEF LocksOK, LocksHeld, Locked, InTransaction
<1>3. AddressesDistinct' /\ RanksDistinct'
  BY Zenon, <1>0 DEF AddressesDistinct, RanksDistinct, TypeOK, AddressRows
<1>4. KeysOK'
  BY <1>0 DEF KeysOK, OneLinkPerKey, IdemOK, Vacant, NoLinkYet, Linked, ClaimedOnce, Claimed
<1>5. WalksOK'
  BY <1>0 DEF WalksOK, Walk, Below
<1> QED BY Zenon, <1>1, <1>2, <1>3, <1>4, <1>5 DEF WalletsInv

(* A change of the servers' configuration alone disturbs no request and no *)
(* seal.                                                                   *)
LEMMA RowsStay ==
    ASSUME RotationInv, UNCHANGED <<rows, req>>, config' \in [key : Nat, next : Nat]
    PROVE  WalletsInv' /\ SealsOK' /\ SealsKept
<1>0. WalletsInv /\ TypeOK /\ TankSeeds /\ SealsOK /\ UNCHANGED <<wallet, lock, address, idem, expiries, links, req>>
  BY Zenon DEF RotationInv, WalletsInv, rows
<1>1. WalletsInv'
  BY Zenon, <1>0, Resealed DEF TypeOK, TankSeeds
<1>2. SealsOK' /\ SealsKept
  BY Zenon, <1>0 DEF SealsOK, SealsKept, Sealed, account_id, Provisions
<1> QED BY Zenon, <1>1, <1>2

(* A tool that is not running has read nothing.                            *)
LEMMA IdleIs == Idle \in ToolRows /\ Idle.pc = "idle" /\ Idle.batch = {}
BY Zenon DEF Idle, ToolRows

(* Each step of a rotation keeps what holds at any time.                   *)
LEMMA RotateStep ==
    ASSUME RotationInv, Rotate
    PROVE  RotationInv' /\ (KeysInv => KeysInv')
(* A run that moves on.                                                    *)
<1>AdvanceIs. ASSUME ToolTypeOK, NEW t \in Runs, NEW x \in ToolRows, Advance(t, x)
              PROVE  /\ tool' \in [Runs -> ToolRows] /\ tool'[t] = x
                     /\ \A u \in Runs : u # t => tool'[u] = tool[u]
  BY Zenon, <1>AdvanceIs DEF ToolTypeOK, Advance
(* A step of a run that writes no row.                                     *)
<1>RunMoves. ASSUME RotationInv, NEW t \in Runs, NEW x \in ToolRows, Advance(t, x),
                    UNCHANGED walletVars, checkpoint' \in [old : Nat, new : Nat, after : Nat],
                    \A y \in x.batch : y \in tool[t].batch \/
                        (y.w \in Sealed /\ y.s = wallet[y.w].seal /\ y.s.scheme = 1)
             PROVE  RotationInv'
  <2> USE <1>RunMoves
  <2>0. /\ ToolTypeOK /\ BatchesOK /\ UNCHANGED <<rows, wallet, req, config>>
        /\ config' \in [key : Nat, next : Nat]
    BY Zenon DEF RotationInv, WalletsInv, TypeOK, walletVars, rows
  <2>1. WalletsInv' /\ SealsOK' /\ SealsKept
    BY Zenon, <2>0, RowsStay
  <2>2. ToolTypeOK'
    BY Zenon, <2>0, <1>AdvanceIs DEF ToolTypeOK
  <2>3. Sealed' = Sealed
    BY Zenon, <2>0 DEF Sealed
  <2>4. \A u \in Runs : \A y \in tool'[u].batch :
          (\E v \in Runs : y \in tool[v].batch) \/ (y.w \in Sealed /\ y.s = wallet[y.w].seal /\ y.s.scheme = 1)
    BY <2>0, <1>AdvanceIs
  <2>5. BatchesOK'
    BY <2>0, <2>3, <2>4 DEF BatchesOK
  <2> QED BY Zenon, <2>1, <2>2, <2>5 DEF RotationInv
<1>RunMoved. ASSUME RotationInv, KeysInv, NEW t \in Runs, NEW x \in ToolRows, Advance(t, x),
                    UNCHANGED walletVars, checkpoint'.new <= sealing_key,
                    \A r \in Requests : Provisions(req[r]) => req[r].sealer = sealing_key,
                    x.pc # "idle" => x.new = sealing_key,
                    x.pc \in {"list", "row"} => x.old = config.key /\ (config.next # 0 \/ Offers("upgrade")),
                    \A w \in Sealed :
                        \/ Behind(x, w)
                        \/ checkpoint'.new = sealing_key /\ w <= checkpoint'.after
                        => Moved(w)
             PROVE  KeysInv'
  <2> USE <1>RunMoved
  <2>0. ToolTypeOK /\ UNCHANGED <<wallet, req, config, mix>>
    BY Zenon DEF RotationInv, walletVars, rows
  <2>1. tool'[t] = x /\ \A u \in Runs : u # t => tool'[u] = tool[u]
    BY Zenon, <2>0, <1>AdvanceIs
  <2>2. Sealed' = Sealed /\ \A w \in Sealed : Moved(w)' <=> Moved(w)
    BY Zenon, <2>0, SameKeys DEF Sealed, Moved
  <2>3. KeysInUse'
    BY Zenon, <2>0, <2>1, SameKeys DEF KeysInv, KeysInUse, Provisions
  <2>4. RowsMoved'
    <3>1. \A w \in Sealed : \A u \in Runs : Behind(tool'[u], w) => Moved(w)
      BY Zenon, <2>1 DEF KeysInv, RowsMoved
    <3>2. \A w \in Sealed' :
            /\ wallet'[w].seal.key \in 1 .. sealing_key'
            /\ wallet'[w].seal.scheme = 1 => wallet'[w].seal.key \in opening_keys'
            /\ checkpoint'.new = sealing_key' /\ w <= checkpoint'.after => Moved(w)'
            /\ \A u \in Runs : Behind(tool'[u], w) => Moved(w)'
      BY Zenon, <2>0, <2>2, <3>1, SameKeys DEF KeysInv, RowsMoved
    <3> QED BY Zenon, <3>2 DEF RowsMoved, Behind
  <2>5. FirstMoved'
    <3>1. ~Offers("upgrade") /\ config.next = 0 => \A u \in Runs : tool'[u].pc \in {"idle", "done"}
      <4>1. x.pc \in {"idle", "list", "row", "done"}
        BY Zenon DEF ToolRows
      <4> QED BY Zenon, <2>1, <4>1 DEF KeysInv, FirstMoved
    <3> QED BY Zenon, <2>0, <2>2, <3>1, SameKeys DEF KeysInv, FirstMoved
  <2> QED BY Zenon, <2>3, <2>4, <2>5 DEF KeysInv
(* A run is under way only with the requests drained.                      *)
<1>UnderWay. ASSUME KeysInv, NEW t \in Runs, tool[t].pc \in {"list", "row"}
             PROVE  /\ \A r \in Requests : Provisions(req[r]) => req[r].sealer = sealing_key
                    /\ tool[t].new = sealing_key /\ tool[t].old = config.key
                    /\ config.next # 0 \/ Offers("upgrade")
  <2>1. tool[t].pc # "idle" /\ tool[t].pc \notin {"idle", "done"}
    BY Zenon, <1>UnderWay
  <2> QED BY Zenon, <1>UnderWay, <2>1 DEF KeysInv, KeysInUse, FirstMoved, Begun
(* MASTER_KEY_NEXT is rolled out.                                          *)
<1>WindowOpens. ASSUME RotationInv, open_window
                PROVE  RotationInv' /\ (KeysInv => KeysInv')
  <2> USE <1>WindowOpens
  <2>0. /\ ToolTypeOK /\ config \in [key : Nat, next : Nat]
        /\ UNCHANGED <<rows, wallet, req, checkpoint, mix>> /\ tool' = [t \in Runs |-> Idle]
        /\ config' = [key |-> config.key, next |-> config.key + 1] /\ config.next = 0
    BY Zenon DEF RotationInv, WalletsInv, TypeOK, open_window, rows
  <2>1. config' \in [key : Nat, next : Nat]
    BY <2>0
  <2>2. WalletsInv' /\ SealsOK' /\ SealsKept
    BY Zenon, <2>0, <2>1, RowsStay
  <2>3. ToolTypeOK' /\ BatchesOK'
    BY Zenon, <2>0, IdleIs DEF ToolTypeOK, BatchesOK
  <2>4. ASSUME KeysInv PROVE KeysInv'
    <3>0. KeysInUse /\ RowsMoved /\ FirstMoved /\ checkpoint.new \in Nat
      BY Zenon, <2>0, <2>4 DEF KeysInv, ToolTypeOK
    <3>1. /\ config.key \in Nat \ {0} /\ sealing_key = config.key /\ opening_keys = {config.key}
          /\ config'.key = config.key /\ config'.next = config.key + 1 /\ config'.next # 0
      BY <2>0, <3>0, HeldKeys
    <3>2. /\ sealing_key' = config.key + 1 /\ opening_keys' = {config.key, config.key + 1}
          /\ checkpoint'.new <= sealing_key' /\ checkpoint'.new # sealing_key'
      BY <2>0, <3>0, <3>1 DEF KeysInUse, sealing_key, opening_keys
    <3>3. \A t \in Runs : tool'[t].pc = "idle" /\ \A w : ~Behind(tool'[t], w)
      BY Zenon, <2>0, IdleIs DEF Behind
    <3>4. ~Begun' /\ Sealed' = Sealed
      BY Zenon, <2>0, <3>2, <3>3 DEF Begun, Sealed
    <3>5. KeysInUse'
      <4>1. \A r \in Requests : Provisions(req'[r]) => req'[r].sealer \in opening_keys'
        BY Zenon, <2>0, <3>0, <3>1, <3>2 DEF KeysInUse
      <4>2. config'.key # 0 /\ config'.next \in {0, config'.key + 1}
        BY <3>1
      <4>3. \A t \in Runs : tool'[t].pc = "idle" /\ tool'[t].pc \notin {"list", "row"}
        BY Zenon, <3>3
      <4> QED BY Zenon, <3>2, <3>4, <4>1, <4>2, <4>3 DEF KeysInUse, Provisions
    <3>6. RowsMoved'
      <4>1. \A w \in Sealed : /\ wallet'[w].seal.key \in 1 .. sealing_key'
                              /\ wallet'[w].seal.scheme = 1 => wallet'[w].seal.key \in opening_keys'
        BY <2>0, <3>0, <3>1, <3>2 DEF RowsMoved
      <4> QED BY Zenon, <3>2, <3>3, <3>4, <4>1 DEF RowsMoved, Behind
    <3>7. FirstMoved'
      <4>1. FirstRotation' => config = Before /\ FirstRotation
        <5>1. FirstRotation' => config' \in {Before, Window, After} /\ ~Offers("upgrade")
          BY Zenon, <2>0 DEF FirstRotation, Offers, Before, Window, After
        <5>2. config' \in {Before, Window, After} => config = Before
          BY <2>0, <3>1 DEF Before, Window, After
        <5> QED BY Zenon, <5>1, <5>2 DEF FirstRotation
      <4>2. ~Offers("upgrade")' => ~Offers("upgrade")
        BY Zenon, <2>0 DEF Offers
      <4> QED BY Zenon, <2>0, <3>0, <3>1, <3>4, <4>1, <4>2 DEF FirstMoved
    <3> QED BY Zenon, <3>5, <3>6, <3>7 DEF KeysInv
  <2> QED BY Zenon, <2>2, <2>3, <2>4 DEF RotationInv
(* The new key is promoted: a run that is complete has moved every row.    *)
<1>Promotes. ASSUME RotationInv, promote
             PROVE  RotationInv' /\ (KeysInv => KeysInv')
  <2> USE <1>Promotes
  <2>0. /\ ToolTypeOK /\ BatchesOK /\ config \in [key : Nat, next : Nat]
        /\ UNCHANGED <<rows, wallet, req, checkpoint, tool, mix>>
        /\ config' = [key |-> config.next, next |-> 0] /\ config.next # 0
    BY Zenon DEF RotationInv, WalletsInv, TypeOK, promote, rows, toolVars
  <2>1. config' \in [key : Nat, next : Nat]
    BY Zenon, <2>0
  <2>2. WalletsInv' /\ SealsOK' /\ SealsKept
    BY Zenon, <2>0, <2>1, RowsStay
  <2>3. ToolTypeOK' /\ BatchesOK'
    BY Zenon, <2>0 DEF ToolTypeOK, BatchesOK, Sealed
  <2>4. ASSUME KeysInv PROVE KeysInv'
    <3>0. KeysInUse /\ RowsMoved /\ FirstMoved
      BY Zenon, <2>4 DEF KeysInv
    <3>1. /\ config.key \in Nat \ {0} /\ sealing_key = config.next /\ config.next = config.key + 1
          /\ config'.key = config.next /\ config'.next = 0
      BY <2>0, <3>0, HeldKeys
    <3>2. sealing_key' = sealing_key /\ opening_keys' = {sealing_key}
      BY <2>0, <3>1 DEF sealing_key, opening_keys
    <3>3. PICK t \in Runs : tool[t].pc = "done"
      BY Zenon DEF promote
    <3>4. \A w \in Sealed : Moved(w)
      BY Zenon, <3>0, <3>3 DEF RowsMoved, Behind
    <3>5. Begun /\ \A u \in Runs : tool'[u].pc \in {"idle", "done"} /\ tool'[u].pc \notin {"list", "row"}
      BY Zenon, <2>0, <3>3 DEF Begun, promote
    <3>6. Sealed' = Sealed /\ \A w \in Sealed : Moved(w)'
      BY Zenon, <2>0, <3>2, <3>4 DEF Sealed, Moved
    <3>7. KeysInUse'
      <4>1. config'.key # 0 /\ config'.next \in {0, config'.key + 1}
        BY <3>1
      <4>2. \A r \in Requests : Provisions(req'[r]) => req'[r].sealer = sealing_key
        BY Zenon, <2>0, <3>0, <3>5 DEF KeysInUse
      <4> QED BY Zenon, <2>0, <3>0, <3>2, <3>5, <4>1, <4>2 DEF KeysInUse, Provisions
    <3>8. RowsMoved'
      <4>1. \A w \in Sealed : /\ wallet'[w].seal.key \in 1 .. sealing_key'
                              /\ wallet'[w].seal.scheme = 1 => wallet'[w].seal.key \in opening_keys'
        <5>1. 1 # 2
          OBVIOUS
        <5> QED BY Zenon, <2>0, <3>0, <3>2, <3>4, <5>1 DEF RowsMoved, Moved
      <4> QED BY Zenon, <3>6, <4>1 DEF RowsMoved
    <3>9. FirstMoved'
      <4>1. FirstRotation' => FirstRotation /\ config' # Before
        <5>1. FirstRotation' => config' \in {Before, Window, After} /\ ~Offers("upgrade")
          BY Zenon, <2>0 DEF FirstRotation, Offers, Before, Window, After
        <5>2. config' \in {Before, Window, After} => config = Window /\ config' # Before
          BY <2>0, <3>1 DEF Before, Window, After
        <5> QED BY Zenon, <5>1, <5>2 DEF FirstRotation
      <4>2. ~Offers("upgrade")' => ~Offers("upgrade")
        BY Zenon, <2>0 DEF Offers
      <4>3. FirstRotation' => \A w \in Sealed' : wallet'[w].seal.scheme = 2 => wallet'[w].seal.key = 2
        BY Zenon, <2>0, <3>0, <3>6, <4>1 DEF FirstMoved, FirstRotation
      <4> QED BY Zenon, <3>5, <4>1, <4>3 DEF FirstMoved, Before
    <3> QED BY Zenon, <3>7, <3>8, <3>9 DEF KeysInv
  <2> QED BY Zenon, <2>2, <2>3, <2>4 DEF RotationInv
(* A run starts where the checkpoint says.                                 *)
<1>RunStarts. ASSUME RotationInv, NEW t \in Runs, read_checkpoint(t)
              PROVE  RotationInv' /\ (KeysInv => KeysInv')
  <2> USE <1>RunStarts
  <2>0. /\ TypeOK /\ ToolTypeOK /\ UNCHANGED <<walletVars, checkpoint>>
        /\ checkpoint \in [old : Nat, new : Nat, after : Nat]
        /\ config.key \in Nat /\ sealing_key \in Nat
    BY Zenon DEF RotationInv, WalletsInv, TypeOK, ToolTypeOK, read_checkpoint, sealing_key
  <2>1. PICK x : x = [Idle EXCEPT !.pc = "list", !.old = Pair.old, !.new = Pair.new,
                                  !.after = checkpoint.after]
    BY Zenon
  <2>2. /\ x.pc = "list" /\ x.old = config.key /\ x.new = sealing_key
        /\ x.after = checkpoint.after /\ x.batch = {} /\ x \in ToolRows
    BY Zenon, <2>0, <2>1 DEF Idle, Pair, ToolRows
  <2>3. Advance(t, x)
    BY Zenon, <2>1 DEF read_checkpoint
  <2>4. RotationInv'
    BY Zenon, <2>0, <2>2, <2>3, <1>RunMoves
  <2>5. ASSUME KeysInv PROVE KeysInv'
    <3>0. KeysInUse /\ RowsMoved /\ config \in [key : Nat, next : Nat]
      BY Zenon, <2>0, <2>5 DEF KeysInv, TypeOK
    <3>1. \A r \in Requests : Provisions(req[r]) => req[r].sealer = sealing_key
      <4>1. \A r \in Requests : Provisions(req[r]) => r \in Open
        BY Zenon DEF Provisions, Open, Ended
      <4>2. \A r \in Open : req[r].sealer \in {0, sealing_key}
        BY Zenon DEF read_checkpoint
      <4>3. 0 \notin opening_keys
        BY DEF opening_keys
      <4> QED BY Zenon, <3>0, <4>1, <4>2, <4>3 DEF KeysInUse
    <3>2. config.next # 0 \/ Offers("upgrade")
      BY Zenon DEF read_checkpoint
    <3>3. checkpoint'.new <= sealing_key
      BY Zenon, <2>0, <3>0 DEF KeysInUse
    <3>4. ASSUME NEW w \in Sealed,
                 \/ Behind(x, w)
                 \/ checkpoint'.new = sealing_key /\ w <= checkpoint'.after
          PROVE  Moved(w)
      <4>1. w <= checkpoint.after
        BY Zenon, <2>0, <2>2, <3>4 DEF Behind
      <4>2. w \in Nat \ {0}
        BY Zenon, WalletsAssumption DEF Sealed
      <4>3. checkpoint # NoFile
        BY <4>1, <4>2 DEF NoFile
      <4>4. checkpoint.new = sealing_key
        BY Zenon, <4>3 DEF read_checkpoint, Pair
      <4> QED BY Zenon, <3>0, <4>1, <4>4 DEF RowsMoved
    <3> QED BY Zenon, <2>0, <2>2, <2>3, <2>5, <3>1, <3>2, <3>3, <3>4, <1>RunMoved
  <2> QED BY Zenon, <2>4, <2>5
(* A run lists the rows that are still under scheme 1 past its cursor, or  *)
(* is complete if there are none.                                          *)
<1>RunLists. ASSUME RotationInv, NEW t \in Runs, list_wallets_needing_reseal(t)
             PROVE  RotationInv' /\ (KeysInv => KeysInv')
             (* A finite set of numbers that is not empty has a greatest element.       *)
  <2> USE <1>RunLists
  <2>GreatestNat. ASSUME NEW T \in SUBSET Nat, T # {}, IsFiniteSet(T)
                  PROVE  \E x \in T : \A y \in T : x >= y
    <3> USE <2>GreatestNat
    <3> DEFINE above(x) == {y \in T : y > x}
    <3>1. \A x \in T : above(x) \subseteq T /\ IsFiniteSet(above(x)) /\ Cardinality(above(x)) \in Nat
      BY Zenon, FS_Subset, FS_CardinalityType
    <3>2. PICK c : c = {n \in Nat : \E x \in T : n = Cardinality(above(x))}
      BY Zenon
    <3>3. c \in SUBSET Nat /\ c # {} /\ \A x \in T : Cardinality(above(x)) \in c
      <4> HIDE DEF above
      <4> QED BY Zenon, <3>1, <3>2
    <3>4. PICK n \in c : \A m \in c : n <= m
      BY Zenon, <3>3, LeastNat
    <3>5. PICK x \in T : n = Cardinality(above(x))
      <4> HIDE DEF above
      <4> QED BY Zenon, <3>2, <3>4
    <3>6. SUFFICES ASSUME NEW y \in T, y > x PROVE FALSE
      OBVIOUS
    <3>7. above(y) \subseteq above(x) /\ above(y) # above(x)
      <4>1. \A z \in T : z > y => z > x
        BY <3>6
      <4>2. ~(y > y)
        BY <3>6
      <4> QED BY <3>6, <4>1, <4>2, Zenon
    <3>8. Cardinality(above(y)) < Cardinality(above(x))
      <4> HIDE DEF above
      <4> QED BY <3>1, <3>7, FS_Subset, FS_CardinalityType
    <3>9. n <= Cardinality(above(y))
      <4> HIDE DEF above
      <4> QED BY Zenon, <3>3, <3>4
    <3> HIDE DEF above
    <3> QED BY <3>1, <3>5, <3>8, <3>9
  (* A listing takes the first rows that are due, and some if there are any. *)
  <2>BatchIs. ASSUME NEW S \in SUBSET Ids
              PROVE  /\ Batch(S) \subseteq S
                     /\ Batch(S) = {} => S = {}
                     /\ Batch(S) # {} => /\ Max(Batch(S)) \in Batch(S)
                                         /\ \A w \in S : w <= Max(Batch(S)) => w \in Batch(S)
    <3> USE <2>BatchIs
    <3>0. /\ S \subseteq Nat /\ IsFiniteSet(S) /\ BatchSize \in Nat \ {0}
      BY Zenon, WalletsAssumption, KeyRotationAssumption, FS_Subset
    <3> DEFINE first(w) == {v \in S : v < w}
    <3>1. \A w \in S : first(w) \subseteq S /\ IsFiniteSet(first(w)) /\ Cardinality(first(w)) \in Nat
      BY Zenon, <3>0, FS_Subset, FS_CardinalityType
    <3>2. \A w \in S : w \in Batch(S) <=> Cardinality(first(w)) < BatchSize
      BY Zenon DEF Batch
    <3>3. Batch(S) \subseteq S
      BY Zenon DEF Batch
    <3>4. ASSUME S # {} PROVE Batch(S) # {}
      <4>1. PICK w \in S : \A v \in S : w <= v
        BY Zenon, <3>0, <3>4, LeastNat
      <4>2. \A v \in S : ~(v < w)
        BY <3>0, <4>1
      <4>3. first(w) = {}
        BY <4>2, Zenon
      <4>4. Cardinality(first(w)) = 0
        BY Zenon, <4>3, FS_EmptySet
      <4> HIDE DEF first
      <4> QED BY <3>0, <3>2, <4>1, <4>4
    <3>5. \A w, m \in S : w <= m => Cardinality(first(w)) <= Cardinality(first(m))
      <4> TAKE w, m \in S
      <4> HAVE w <= m
      <4>0. \A v \in S : v < w => v < m
        BY <3>0
      <4>1. first(w) \subseteq first(m)
        BY <4>0, Zenon
      <4> HIDE DEF first
      <4> QED BY Zenon, <3>1, <4>1, FS_Subset
    <3>6. ASSUME Batch(S) # {} PROVE Max(Batch(S)) \in Batch(S) /\ \A w \in Batch(S) : Max(Batch(S)) >= w
      <4>1. PICK B : B = Batch(S)
        BY Zenon
      <4>2. B \subseteq Nat /\ B # {} /\ IsFiniteSet(B)
        BY Zenon, <3>0, <3>3, <3>6, <4>1, FS_Subset
      <4>3. \E x \in B : \A y \in B : x >= y
        BY Zenon, <4>2, <2>GreatestNat
      <4> QED BY Zenon, <4>1, <4>3 DEF Max
    <3>7. ASSUME Batch(S) # {}, NEW w \in S, w <= Max(Batch(S)) PROVE w \in Batch(S)
      <4>1. PICK m \in S : m = Max(Batch(S)) /\ m \in Batch(S)
        BY Zenon, <3>3, <3>6, <3>7
      <4>2. Cardinality(first(w)) <= Cardinality(first(m)) /\ Cardinality(first(m)) < BatchSize
        BY Zenon, <3>2, <3>5, <3>7, <4>1
      <4> HIDE DEF first
      <4> QED BY <3>0, <3>1, <3>2, <3>7, <4>1, <4>2
    <3> QED BY Zenon, <3>3, <3>4, <3>6, <3>7
  <2>0. /\ TypeOK /\ ToolTypeOK /\ SealsOK /\ UNCHANGED walletVars /\ tool[t].pc = "list"
        /\ checkpoint \in [old : Nat, new : Nat, after : Nat] /\ tool[t] \in ToolRows
    BY Zenon DEF RotationInv, WalletsInv, ToolTypeOK, list_wallets_needing_reseal
  <2>1. PICK S \in SUBSET Ids : S = NeedsReseal(t)
    BY Zenon DEF NeedsReseal, Sealed
  <2>2. /\ \A w \in S : w \in Sealed /\ wallet[w].seal.scheme = 1
        /\ \A w \in Sealed : w > tool[t].after => w \in S \/ wallet[w].seal.scheme = 2
    BY <2>0, <2>1 DEF NeedsReseal, SealsOK
  <2>3. PICK b : b = Batch(S)
    BY Zenon
  <2>4. /\ b \subseteq S /\ (b = {} => S = {})
        /\ b # {} => Max(b) \in b /\ \A w \in S : w <= Max(b) => w \in b
    BY Zenon, <2>3, <2>BatchIs
  <2>5. /\ b = {} => Advance(t, [tool[t] EXCEPT !.pc = "done"]) /\ checkpoint' = NoFile
        /\ b # {} => /\ Advance(t, [tool[t] EXCEPT !.pc = "row", !.last = Max(b), !.batch = Listed(b)])
                     /\ UNCHANGED checkpoint
    BY Zenon, <2>1, <2>3 DEF list_wallets_needing_reseal
  <2>6. \A w \in Sealed : w \in Nat \ {0} /\ tool[t].after \in Nat
    BY Zenon, <2>0, WalletsAssumption DEF Sealed, ToolRows
  <2>7. KeysInv => /\ \A r \in Requests : Provisions(req[r]) => req[r].sealer = sealing_key
                   /\ tool[t].new = sealing_key /\ tool[t].old = config.key
                   /\ config.next # 0 \/ Offers("upgrade")
                   /\ checkpoint.new <= sealing_key /\ NoFile.new <= sealing_key /\ NoFile.new # sealing_key
    <3>1. tool[t].pc \in {"list", "row"} /\ config \in [key : Nat, next : Nat]
      BY Zenon, <2>0 DEF TypeOK
    <3>2. KeysInv => KeysInUse
      BY Zenon DEF KeysInv
    <3>3. KeysInUse => NoFile.new <= sealing_key /\ NoFile.new # sealing_key
      BY <3>1, HeldKeys DEF NoFile
    <3> QED BY Zenon, <3>1, <3>2, <3>3, <1>UnderWay DEF KeysInUse
  <2>8. KeysInv => \A w \in Sealed : w \in S \/ Moved(w)
    <3> SUFFICES ASSUME KeysInv, NEW w \in Sealed PROVE w \in S \/ Moved(w)
      BY Zenon
    <3>1. CASE w > tool[t].after
      BY Zenon, <2>2, <3>1 DEF Moved
    <3>2. CASE w <= tool[t].after
      BY Zenon, <2>0, <3>2 DEF KeysInv, RowsMoved, Behind
    <3> QED BY <2>6, <3>1, <3>2
  <2>9. CASE b = {}
    <3>1. PICK x : x = [tool[t] EXCEPT !.pc = "done"]
      BY Zenon
    <3>2. /\ x \in ToolRows /\ x.pc = "done" /\ x.old = tool[t].old /\ x.new = tool[t].new
          /\ x.batch = tool[t].batch
      BY Zenon, <2>0, <3>1 DEF ToolRows
    <3>3. Advance(t, x) /\ checkpoint' = NoFile /\ checkpoint' \in [old : Nat, new : Nat, after : Nat]
      BY <2>5, <2>9, <3>1 DEF NoFile
    <3>4. RotationInv'
      BY Zenon, <2>0, <3>2, <3>3, <1>RunMoves
    <3>5. KeysInv => \A w \in Sealed : Moved(w)
      BY Zenon, <2>4, <2>8, <2>9
    <3>6. KeysInv => KeysInv'
      BY Zenon, <2>0, <2>7, <3>2, <3>3, <3>5, <1>RunMoved
    <3> QED BY Zenon, <3>4, <3>6
  <2>10. CASE b # {}
    <3>1. PICK x : x = [tool[t] EXCEPT !.pc = "row", !.last = Max(b), !.batch = Listed(b)]
      BY Zenon
    <3>2. \A y \in Listed(b) : y.w \in b /\ y.s = wallet[y.w].seal
      BY DEF Listed
    <3>3. ASSUME NEW w \in b PROVE \E y \in Listed(b) : y.w = w
      <4>1. PICK y : y = [w |-> w, s |-> wallet[w].seal]
        BY Zenon
      <4>2. y.w = w
        BY Zenon, <4>1
      <4>3. y \in Listed(b)
        BY <4>1, Zenon DEF Listed
      <4> QED BY Zenon, <4>2, <4>3
    <3>4. Listed(b) \in SUBSET [w : Ids, s : SealRows] /\ Max(b) \in Nat
      <4>1. \A w \in b : w \in Ids /\ wallet[w].seal \in SealRows
        BY Zenon, <2>0, <2>4 DEF TypeOK, WalletRows, SealRows
      <4>2. Listed(b) \in SUBSET [w : Ids, s : SealRows]
        BY <4>1 DEF Listed
      <4> QED BY Zenon, <2>4, <2>10, <4>2, WalletsAssumption
    <3>5. /\ x \in ToolRows /\ x.pc = "row" /\ x.old = tool[t].old /\ x.new = tool[t].new
          /\ x.batch = Listed(b) /\ x.last = Max(b)
      BY Zenon, <2>0, <3>1, <3>4 DEF ToolRows
    <3>6. Advance(t, x) /\ UNCHANGED checkpoint
      BY Zenon, <2>5, <2>10, <3>1
    <3>7. RotationInv'
      BY <2>0, <2>2, <2>4, <3>2, <3>5, <3>6, <1>RunMoves
    <3>8. ASSUME KeysInv, NEW w \in Sealed,
                 \/ Behind(x, w)
                 \/ checkpoint'.new = sealing_key /\ w <= checkpoint'.after
          PROVE  Moved(w)
      <4>1. CASE checkpoint'.new = sealing_key /\ w <= checkpoint'.after
        BY Zenon, <3>6, <3>8, <4>1 DEF KeysInv, RowsMoved
      <4>2. CASE Behind(x, w)
        <5>1. w <= Max(b) /\ w \notin b
          BY Zenon, <3>3, <3>5, <4>2 DEF Behind
        <5> QED BY Zenon, <2>4, <2>8, <2>10, <3>8, <5>1
      <4> QED BY Zenon, <3>8, <4>1, <4>2
    <3>9. KeysInv => KeysInv'
      BY Zenon, <2>0, <2>7, <3>5, <3>6, <3>8, <1>RunMoved
    <3> QED BY Zenon, <3>7, <3>9
  <2> QED BY Zenon, <2>9, <2>10
(* A batch that is done moves the cursor and the checkpoint past it.       *)
<1>CheckpointWritten. ASSUME RotationInv, NEW t \in Runs, write_checkpoint(t)
                      PROVE  RotationInv' /\ (KeysInv => KeysInv')
  <2> USE <1>CheckpointWritten
  <2>0. /\ ToolTypeOK /\ UNCHANGED walletVars /\ tool[t].pc = "row" /\ tool[t].batch = {}
        /\ tool[t] \in ToolRows
    BY Zenon DEF RotationInv, ToolTypeOK, write_checkpoint
  <2>1. PICK x : x = [tool[t] EXCEPT !.pc = "list", !.after = tool[t].last, !.last = 0]
    BY Zenon
  <2>2. /\ x \in ToolRows /\ x.pc = "list" /\ x.old = tool[t].old /\ x.new = tool[t].new
        /\ x.after = tool[t].last /\ x.batch = {}
    BY Zenon, <2>0, <2>1 DEF ToolRows
  <2>3. /\ Advance(t, x) /\ checkpoint'.after = tool[t].last /\ checkpoint'.new = tool[t].new
        /\ checkpoint' \in [old : Nat, new : Nat, after : Nat]
    BY Zenon, <2>0, <2>1 DEF write_checkpoint, ToolRows
  <2>4. RotationInv'
    BY Zenon, <2>0, <2>2, <2>3, <1>RunMoves
  <2>5. ASSUME KeysInv PROVE KeysInv'
    <3>1. /\ \A r \in Requests : Provisions(req[r]) => req[r].sealer = sealing_key
          /\ tool[t].new = sealing_key /\ tool[t].old = config.key
          /\ config.next # 0 \/ Offers("upgrade")
      BY Zenon, <2>0, <2>5, <1>UnderWay
    <3>2. \A w \in Sealed : Behind(x, w) \/ w <= checkpoint'.after => Moved(w)
      BY Zenon, <2>0, <2>2, <2>3, <2>5 DEF Behind, KeysInv, RowsMoved
    <3>3. checkpoint'.new <= sealing_key
      <4>1. sealing_key \in Nat
        BY Zenon, <2>0, <3>1 DEF ToolRows
      <4> QED BY <2>3, <3>1, <4>1
    <3> QED BY Zenon, <2>0, <2>2, <2>3, <2>5, <3>1, <3>2, <3>3, <1>RunMoved
  <2> QED BY Zenon, <2>4, <2>5
(* A run that ends before it is complete.                                  *)
<1>RunEnds. ASSUME RotationInv, NEW t \in Runs, tool[t].pc \in {"list", "row"}, Advance(t, Idle),
                   UNCHANGED <<walletVars, checkpoint>>
            PROVE  RotationInv' /\ (KeysInv => KeysInv')
  <2> USE <1>RunEnds
  <2>0. checkpoint' \in [old : Nat, new : Nat, after : Nat] /\ Idle \in ToolRows /\ UNCHANGED walletVars
    BY Zenon, IdleIs DEF RotationInv, ToolTypeOK
  <2>1. RotationInv'
    BY Zenon, <2>0, IdleIs, <1>RunMoves
  <2>2. ASSUME KeysInv PROVE KeysInv'
    <3>1. \A r \in Requests : Provisions(req[r]) => req[r].sealer = sealing_key
      BY Zenon, <2>2, <1>UnderWay
    <3>2. /\ checkpoint'.new <= sealing_key
          /\ \A w \in Sealed :
                 \/ Behind(Idle, w)
                 \/ checkpoint'.new = sealing_key /\ w <= checkpoint'.after
                 => Moved(w)
      BY Zenon, <2>2, IdleIs DEF Behind, KeysInv, KeysInUse, RowsMoved
    <3>3. Idle.pc \notin {"list", "row"}
      BY Zenon, IdleIs
    <3> QED BY Zenon, <2>0, <2>2, <3>1, <3>2, <3>3, IdleIs, <1>RunMoved
  <2> QED BY Zenon, <2>1, <2>2
(* A row is re-sealed for its account under the new key, unless another run*)
(* has done so since the listing.                                          *)
<1>RunReseals. ASSUME RotationInv, NEW t \in Runs, reseal_wallet(t)
               PROVE  RotationInv' /\ (KeysInv => KeysInv')
  <2> USE <1>RunReseals
  <2>0. /\ WalletsInv /\ TypeOK /\ TankSeeds /\ ToolTypeOK /\ SealsOK /\ BatchesOK /\ tool[t].pc = "row"
        /\ UNCHANGED <<lock, address, idem, expiries, links, config, mix, req, checkpoint>>
        /\ checkpoint \in [old : Nat, new : Nat, after : Nat] /\ tool[t] \in ToolRows
        /\ config \in [key : Nat, next : Nat]
    BY Zenon DEF RotationInv, WalletsInv, TypeOK, ToolTypeOK, reseal_wallet
  <2>1. PICK x \in tool[t].batch :
           IF ~open_with_account_id(tool[t].old, x.s, account_id(x.w))
           THEN Advance(t, Idle) /\ UNCHANGED wallet
           ELSE /\ lock[x.w] = Nobody
                /\ IF wallet[x.w].seal.scheme = x.s.scheme
                   THEN Update(x.w, [wallet[x.w] EXCEPT !.seal =
                          reseal_with_account_id(tool[t].old, tool[t].new, x.s, account_id(x.w))])
                   ELSE UNCHANGED wallet
                /\ Advance(t, [tool[t] EXCEPT !.batch = @ \ {x}])
    BY Zenon DEF reseal_wallet
  <2>2. PICK w \in Ids : w = x.w
    BY Zenon, <2>0 DEF ToolRows
  <2>3. /\ w \in Sealed /\ x.s.scheme = 1 /\ x.s.seed = wallet[w].seal.seed
        /\ wallet[w].seal = x.s \/ wallet[w].seal.scheme = 2
    BY Zenon, <2>0, <2>1, <2>2 DEF BatchesOK
  <2>4. KeysInv => /\ \A r \in Requests : Provisions(req[r]) => req[r].sealer = sealing_key
                   /\ tool[t].new = sealing_key /\ tool[t].old = config.key
                   /\ config.next # 0 \/ Offers("upgrade")
    BY Zenon, <2>0, <1>UnderWay
  <2>5. CASE Advance(t, Idle) /\ UNCHANGED wallet
    BY Zenon, <2>0, <2>5, <1>RunEnds DEF walletVars, rows
  <2>6. ASSUME Advance(t, [tool[t] EXCEPT !.batch = @ \ {x}]),
               (wallet[w].seal.scheme = 2 /\ UNCHANGED wallet)
               \/ (Update(w, [wallet[w] EXCEPT !.seal =
                          reseal_with_account_id(tool[t].old, tool[t].new, x.s, account_id(w))]))
        PROVE  RotationInv' /\ (KeysInv => KeysInv')
    <3>1. PICK y : y = [tool[t] EXCEPT !.batch = @ \ {x}]
      BY Zenon
    <3>2. /\ y \in ToolRows /\ y.pc = "row" /\ y.old = tool[t].old /\ y.new = tool[t].new
          /\ y.last = tool[t].last /\ y.batch = tool[t].batch \ {x}
      BY Zenon, <2>0, <3>1 DEF ToolRows
    <3>3. Advance(t, y)
      BY Zenon, <2>6, <3>1
    <3>4. /\ tool' \in [Runs -> ToolRows] /\ tool'[t] = y
          /\ \A u \in Runs : u # t => tool'[u] = tool[u]
      BY Zenon, <2>0, <3>2, <3>3, <1>AdvanceIs
    <3>5. CASE wallet[w].seal.scheme = 2 /\ UNCHANGED wallet
      <4>1. UNCHANGED walletVars
        BY Zenon, <2>0, <3>5 DEF walletVars, rows
      <4>2. RotationInv'
        BY Zenon, <2>0, <3>2, <3>3, <4>1, <1>RunMoves
      <4>3. ASSUME KeysInv, NEW v \in Sealed,
                   \/ Behind(y, v)
                   \/ checkpoint'.new = sealing_key /\ v <= checkpoint'.after
            PROVE  Moved(v)
        <5>1. CASE v = w
          BY Zenon, <3>5, <5>1 DEF Moved
        <5>2. CASE checkpoint'.new = sealing_key /\ v <= checkpoint'.after
          BY Zenon, <2>0, <4>3, <5>2 DEF KeysInv, RowsMoved
        <5>3. CASE v # w /\ Behind(y, v)
          <6>1. Behind(tool[t], v)
            BY Zenon, <2>0, <2>2, <3>2, <5>3 DEF Behind
          <6> QED BY Zenon, <4>3, <6>1 DEF KeysInv, RowsMoved
        <5> QED BY Zenon, <4>3, <5>1, <5>2, <5>3
      <4>4. KeysInv => KeysInv'
        <5>1. KeysInv => checkpoint'.new <= sealing_key
          BY Zenon, <2>0 DEF KeysInv, KeysInUse
        <5> QED BY Zenon, <2>0, <2>4, <3>2, <3>3, <4>1, <4>3, <5>1, <1>RunMoved
      <4> QED BY Zenon, <4>2, <4>4
    <3>6. CASE Update(w, [wallet[w] EXCEPT !.seal =
                   reseal_with_account_id(tool[t].old, tool[t].new, x.s, account_id(w))])
      <4>1. PICK s : s = reseal_with_account_id(tool[t].old, tool[t].new, x.s, account_id(w))
        BY Zenon
      <4>2. /\ s.key = tool[t].new /\ s.scheme = 2 /\ s.bound = account_id(w)
            /\ s.seed = wallet[w].seal.seed
        BY Zenon, <2>3, <4>1 DEF reseal_with_account_id, seal_with_account_id
      <4>3. wallet[w] \in WalletRows /\ s \in SealRows
        <5>1. wallet[w] \in WalletRows
          BY Zenon, <2>0 DEF TypeOK
        <5>2. wallet[w].seal.seed \in Owners /\ account_id(w) \in Owners /\ tool[t].new \in Nat
          BY Zenon, <2>0, <5>1, RequestIs DEF WalletRows, account_id, Owners, ToolRows, Own
        <5> QED BY <2>3, <4>1, <5>1, <5>2 DEF reseal_with_account_id, seal_with_account_id, SealRows
      <4>4. PICK row : row = [wallet[w] EXCEPT !.seal = s]
        BY Zenon
      <4>5. /\ row.seal = s /\ row.tank = wallet[w].tank /\ row.next = wallet[w].next
        BY Zenon, <4>3, <4>4 DEF WalletRows
      <4>6. row \in WalletRows
        <5>1. \E z \in SealRows : z = s
          BY Zenon, <4>3
        <5> QED BY Zenon, <4>3, <4>4, <5>1 DEF WalletRows, SealRows
      <4>7. /\ wallet' \in [Ids -> WalletRows] /\ wallet'[w] = row
            /\ \A v \in Ids : v # w => wallet'[v] = wallet[v]
        BY Zenon, <2>0, <3>6, <4>1, <4>4, <4>6 DEF TypeOK, Update
      <4>8. /\ \A v \in Ids : wallet'[v].next = wallet[v].next /\ wallet'[v].tank = wallet[v].tank
            /\ \A v \in Ids : wallet'[v].seal.seed = wallet[v].seal.seed
            /\ \A v \in Ids : account_id(v)' = account_id(v)
        BY Zenon, <4>2, <4>5, <4>7 DEF account_id
      <4>9. TankSeeds'
        BY Zenon, <2>0, <4>8 DEF TankSeeds
      <4>10. WalletsInv'
        BY Zenon, <2>0, <4>7, <4>8, <4>9, Resealed
      <4>11. s # NoSeal
        BY <4>2 DEF NoSeal
      <4>12. Sealed' = Sealed
        BY Zenon, <2>3, <4>5, <4>7, <4>11 DEF Sealed
      <4>13. \A v \in Sealed : v \in Ids
        BY Zenon DEF Sealed
      <4>14. SealsOK'
        <5>1. \A v \in Sealed :
                 /\ wallet'[v].tank # Nobody \/ v \in ServerCustody
                 /\ wallet'[v].seal.scheme \in {1, 2}
                 /\ wallet'[v].seal.scheme = 2 => wallet'[v].seal.bound = account_id(v)
          BY <2>0, <4>2, <4>5, <4>7, <4>13 DEF SealsOK
        <5> QED BY <2>0, <4>8, <4>12, <4>13, <5>1 DEF SealsOK, Provisions
      <4>15. BatchesOK'
        <5>1. \A u \in Runs : tool'[u].batch \subseteq tool[u].batch
          BY Zenon, <3>2, <3>4
        <5>2. \A v \in Ids : wallet'[v] = wallet[v] \/ wallet'[v].seal.scheme = 2
          BY Zenon, <4>2, <4>5, <4>7
        <5> QED BY <2>0, <4>8, <4>12, <4>13, <5>1, <5>2 DEF BatchesOK
      <4>16. ToolTypeOK'
        BY Zenon, <2>0, <3>4 DEF ToolTypeOK
      <4>17. ASSUME KeysInv PROVE KeysInv'
        <5>0. /\ KeysInUse /\ RowsMoved /\ FirstMoved /\ tool[t].new = sealing_key
              /\ sealing_key \in Nat \ {0}
          BY <2>0, <2>4, <4>17, HeldKeys DEF KeysInv
        <5>1. /\ Moved(w)' /\ wallet'[w].seal.key = sealing_key /\ wallet'[w].seal.scheme = 2
              /\ \A v \in Sealed : v # w => wallet'[v] = wallet[v] /\ (Moved(v)' <=> Moved(v))
          BY Zenon, <2>0, <4>2, <4>5, <4>7, <4>13, <5>0, SameKeys DEF Moved
        <5>2. \A v \in Sealed : v # w /\ Behind(y, v) => Behind(tool[t], v)
          BY Zenon, <2>0, <2>2, <3>2 DEF Behind
        <5>3. \A v \in Sealed : \A u \in Runs : Behind(tool'[u], v) => Moved(v)'
          BY Zenon, <3>4, <5>0, <5>1, <5>2 DEF RowsMoved
        <5>4. \A u \in Runs : (tool'[u].pc = "idle" <=> tool[u].pc = "idle") /\ tool'[u].pc = tool[u].pc
                                /\ tool'[u].old = tool[u].old /\ tool'[u].new = tool[u].new
          BY Zenon, <2>0, <3>2, <3>4
        <5>5. KeysInUse'
          <6>1. Begun' = Begun
            BY Zenon, <2>0, <5>4, SameKeys DEF Begun
          <6> QED BY Zenon, <2>0, <5>0, <5>4, <6>1, SameKeys DEF KeysInUse, Provisions
        <5>6. RowsMoved'
          <6>1. \A v \in Sealed' :
                  /\ wallet'[v].seal.key \in 1 .. sealing_key'
                  /\ wallet'[v].seal.scheme = 1 => wallet'[v].seal.key \in opening_keys'
                  /\ checkpoint'.new = sealing_key' /\ v <= checkpoint'.after => Moved(v)'
            <7>1. sealing_key \in 1 .. sealing_key /\ 1 # 2
              BY <5>0
            <7> QED BY Zenon, <2>0, <4>12, <5>0, <5>1, <7>1, SameKeys DEF RowsMoved
          <6> QED BY Zenon, <4>12, <5>3, <6>1 DEF RowsMoved, Behind
        <5>7. FirstMoved'
          <6>1. FirstRotation => sealing_key = 2 /\ config # Before
            <7>1. FirstRotation => config \in {Before, Window, After} /\ config.next # 0
              BY Zenon, <2>4, <4>17 DEF FirstRotation
            <7> QED BY <7>1 DEF Before, Window, After, sealing_key
          <6>2. FirstRotation => \A v \in Sealed : wallet'[v].seal.scheme = 2 => wallet'[v].seal.key = 2
            BY Zenon, <5>0, <5>1, <6>1 DEF FirstMoved, FirstRotation
          <6> QED BY Zenon, <2>0, <4>12, <5>0, <5>4, <6>1, <6>2, SameKeys DEF FirstMoved
        <5> QED BY Zenon, <5>5, <5>6, <5>7 DEF KeysInv
      <4> QED BY Zenon, <4>10, <4>14, <4>15, <4>16, <4>17 DEF RotationInv
    <3> QED BY Zenon, <2>6, <3>5, <3>6
  <2> QED
    <3>1. wallet[w].seal.scheme = x.s.scheme \/ wallet[w].seal.scheme = 2
      BY Zenon, <2>3
    <3> QED BY Zenon, <2>1, <2>2, <2>5, <2>6, <3>1
<1> QED BY Zenon, <1>WindowOpens, <1>Promotes, <1>RunStarts, <1>RunLists, <1>RunReseals, <1>CheckpointWritten, <1>RunEnds DEF Rotate, crash

(* What a walk has seen is at or above place c, what it has still to see is*)
(* below.                                                                  *)
Ahead(x, seen, c) ==
    /\ \A i \in seen : \E a \in address \ Below(x.w, c) : a.w = x.w /\ a.muxed = i
    /\ \A i \in x.due \ seen : \E a \in Below(x.w, c) : a.muxed = i

(* The ids on a page.                                                      *)
Muxed(P) == {a.muxed : a \in P}

(* A request that has read a page.                                         *)
Paging(x, s, t, c, p) == [x EXCEPT !.seen = s, !.twice = t, !.cursor = c, !.pc = p]

(* list_addresses with the cursor of the page before.                      *)
LEMMA PageStep ==
    ASSUME WalletsInv, NEW r \in Requests, next_page(r)
    PROVE  WalletsInv'
(* The last row of a page.                                                 *)
<1>MinIs. ASSUME NEW T \in SUBSET Nat, T # {}
          PROVE  Min(T) \in T /\ \A y \in T : Min(T) <= y
  BY <1>MinIs, LeastNat, Zenon DEF Min
(* There are no more rows than places in a listing.                        *)
<1>AddressFinite. ASSUME TypeOK, RanksDistinct
                  PROVE  IsFiniteSet(address)
  <2> USE <1>AddressFinite
  <2> DEFINE f == [a \in address |-> a.rank]
  <2>1. f \in [address -> Ranks]
    BY Zenon DEF TypeOK, AddressRows
  <2>2. \A a, b \in address : f[a] = f[b] => a = b
    BY Zenon DEF RanksDistinct
  <2>3. f \in Injection(address, Ranks)
    <3> HIDE DEF f
    <3> QED BY Zenon, <2>1, <2>2 DEF Injection, IsInjective
  <2>4. IsFiniteSet(Ranks)
    BY Zenon, WalletsAssumption
  <2> HIDE DEF f
  <2> QED BY Zenon, <2>3, <2>4, FS_Injection
(* What is not among the newest n is older than each of them, and all are  *)
(* among them if there are no more than n.                                 *)
<1>NewestIs. ASSUME NEW S \in SUBSET AddressRows, IsFiniteSet(S), NEW n \in Nat,
                    \A a, b \in S : a.rank = b.rank => a = b
             PROVE  /\ \A a \in S \ Newest(S, n), b \in Newest(S, n) : a.rank < b.rank
                    /\ Cardinality(S) <= n => Newest(S, n) = S
  <2> USE <1>NewestIs
  <2> DEFINE above(a) == {b \in S : b.rank > a.rank}
  <2>0. \A a \in S : a.rank \in Nat
    BY Zenon, WalletsAssumption DEF AddressRows
  <2>1. \A a \in S : above(a) \in SUBSET S /\ IsFiniteSet(above(a)) /\ Cardinality(above(a)) \in Nat
    BY Zenon, FS_Subset, FS_CardinalityType
  <2>2. \A a, b \in S : a.rank >= b.rank => above(a) \in SUBSET above(b)
    BY <2>0
  <2>3. \A a, b \in S : a.rank >= b.rank => Cardinality(above(a)) <= Cardinality(above(b))
    <3> HIDE DEF above
    <3> QED BY Zenon, <2>1, <2>2, FS_Subset
  <2>4. \A a \in S : a \in Newest(S, n) <=> Cardinality(above(a)) < n
    BY Zenon DEF Newest
  <2>5. ASSUME NEW a \in S \ Newest(S, n), NEW b \in Newest(S, n) PROVE a.rank < b.rank
    <3>1. b \in S
      BY Zenon DEF Newest
    <3> HIDE DEF above
    <3>2. ~(Cardinality(above(a)) <= Cardinality(above(b)))
      BY <2>1, <2>4, <3>1
    <3> QED BY <2>0, <2>3, <3>1, <3>2
  <2>6. ASSUME Cardinality(S) <= n PROVE Newest(S, n) = S
    <3>1. ASSUME NEW a \in S PROVE Cardinality(above(a)) < n
      <4>1. above(a) \in SUBSET (S \ {a})
        BY <2>0
      <4>2. IsFiniteSet(S \ {a}) /\ Cardinality(S \ {a}) = Cardinality(S) - 1 /\ Cardinality(S) \in Nat
        BY Zenon, FS_RemoveElement, FS_CardinalityType
      <4> HIDE DEF above
      <4>3. Cardinality(above(a)) <= Cardinality(S \ {a})
        BY Zenon, <4>1, <4>2, FS_Subset
      <4> QED BY <2>1, <2>6, <4>2, <4>3
    <3> QED BY Zenon, <2>4, <3>1 DEF Newest
  <2> QED BY Zenon, <2>5, <2>6
(* The next page: nothing on it was seen, and what is due and not on it is *)
(* still ahead.                                                            *)
<1>PageIs. ASSUME WalletsInv, NEW x \in Progress, Ahead(x, x.seen, x.cursor), NEW B, NEW P, NEW ids,
                  B = Below(x.w, x.cursor), P = Newest(B, PageSize), ids = Muxed(P)
           PROVE  /\ ids \subseteq Nat /\ P \subseteq address
                  /\ x.seen \cap ids = {}
                  /\ Cardinality(B) \in Nat
                  /\ ~(Cardinality(B) > PageSize) => x.due \subseteq x.seen \cup ids
                  /\ \A c \in Nat : (P = {} /\ c = x.cursor) \/ (P # {} /\ c = PageEnd(P)) =>
                       Ahead(x, x.seen \cup ids, c)
                  /\ P # {} => PageEnd(P) \in Nat
  <2> USE <1>PageIs
  <2>0. /\ TypeOK /\ AddressesDistinct /\ RanksDistinct /\ IsFiniteSet(address)
        /\ address \subseteq AddressRows /\ PageSize \in Nat /\ x.cursor \in Nat
    BY Zenon, <1>AddressFinite, WalletsAssumption DEF WalletsInv, TypeOK, Progress
  <2>0a. ids = {a.muxed : a \in P}
    BY Zenon DEF Muxed
  <2>1. B \subseteq address /\ P \subseteq B /\ IsFiniteSet(B) /\ Cardinality(B) \in Nat
    BY Zenon, <2>0, FS_Subset, FS_CardinalityType DEF Below, Newest
  <2>2. \A a \in address : a.rank \in Nat \ {0} /\ a.muxed \in Nat
    BY Zenon, <2>0, WalletsAssumption DEF AddressRows
  <2>3. /\ \A a \in B \ P, b \in P : a.rank < b.rank
        /\ Cardinality(B) <= PageSize => P = B
    <3>1. B \in SUBSET AddressRows /\ \A a, b \in B : a.rank = b.rank => a = b
      BY Zenon, <2>0, <2>1 DEF RanksDistinct
    <3> QED BY Zenon, <2>0, <2>1, <3>1, <1>NewestIs
  <2>4. /\ \A i \in x.seen : \E a \in address \ B : a.w = x.w /\ a.muxed = i
        /\ \A i \in x.due \ x.seen : \E a \in B : a.muxed = i
    BY Zenon DEF Ahead
  <2>5. ids \subseteq Nat /\ P \subseteq address
    BY Zenon, <2>0a, <2>1, <2>2
  <2>6. \A a \in B : a.w = x.w /\ (x.cursor # 0 => a.rank < x.cursor)
    BY Zenon DEF Below
  <2>7. x.seen \cap ids = {}
    <3> SUFFICES ASSUME NEW i \in x.seen, NEW b \in P, b.muxed = i PROVE FALSE
      BY Zenon, <2>0a
    <3>1. PICK a \in address \ B : a.w = x.w /\ a.muxed = i
      BY Zenon, <2>4
    <3> QED BY Zenon, <2>0, <2>1, <2>6, <3>1 DEF AddressesDistinct
  <2>8. ASSUME ~(Cardinality(B) > PageSize) PROVE x.due \subseteq x.seen \cup ids
    <3>1. P = B
      BY <2>0, <2>1, <2>3, <2>8
    <3> QED BY <2>0a, <2>4, <3>1
  <2>9. ASSUME P # {} PROVE /\ PageEnd(P) \in Nat \ {0} /\ \A a \in P : PageEnd(P) <= a.rank
                            /\ \E a \in P : a.rank = PageEnd(P)
    <3>1. {a.rank : a \in P} \in SUBSET Nat /\ {a.rank : a \in P} # {}
      BY Zenon, <2>1, <2>2, <2>9
    <3>2. /\ PageEnd(P) \in {a.rank : a \in P}
          /\ \A c \in {a.rank : a \in P} : PageEnd(P) <= c
      BY Zenon, <3>1, <1>MinIs DEF PageEnd
    <3> QED BY Zenon, <2>1, <2>2, <3>2
  <2>10. ASSUME P = {}
         PROVE  Ahead(x, x.seen \cup ids, x.cursor)
    BY Zenon, <2>0a, <2>4, <2>10 DEF Ahead
  <2>11. ASSUME P # {}, NEW c \in Nat, c = PageEnd(P)
         PROVE  Ahead(x, x.seen \cup ids, c)
    <3>1. c # 0 /\ (\A a \in P : c <= a.rank) /\ \E a \in P : a.rank = c
      BY Zenon, <2>9, <2>11
    <3>2. \A a \in address : a \in Below(x.w, c) <=> a.w = x.w /\ a.rank < c
      BY Zenon, <3>1 DEF Below
    <3>3. ASSUME NEW i \in x.seen PROVE \E a \in address \ Below(x.w, c) : a.w = x.w /\ a.muxed = i
      <4>1. PICK a \in address \ B : a.w = x.w /\ a.muxed = i
        BY Zenon, <2>4
      <4>2. x.cursor # 0 /\ ~(a.rank < x.cursor)
        BY Zenon, <4>1 DEF Below
      <4>3. c < x.cursor
        BY Zenon, <2>1, <2>6, <3>1, <4>2
      <4> QED BY <2>0, <2>2, <3>2, <4>1, <4>2, <4>3
    <3>4. ASSUME NEW i \in ids PROVE \E a \in address \ Below(x.w, c) : a.w = x.w /\ a.muxed = i
      <4>1. PICK a \in P : a.muxed = i
        BY Zenon, <2>0a
      <4>2. a \in address /\ a.w = x.w /\ c <= a.rank /\ a.rank \in Nat
        BY Zenon, <2>1, <2>2, <2>6, <3>1, <4>1
      <4> QED BY <3>2, <4>1, <4>2
    <3>5. ASSUME NEW i \in x.due \ (x.seen \cup ids) PROVE \E a \in Below(x.w, c) : a.muxed = i
      <4>1. PICK a \in B : a.muxed = i
        BY Zenon, <2>4
      <4>2. a \notin P
        BY Zenon, <2>0a, <4>1
      <4>3. a.rank < c
        BY <2>3, <3>1, <4>2
      <4> QED BY Zenon, <2>1, <2>6, <3>2, <4>1, <4>3
    <3> QED BY Zenon, <3>3, <3>4, <3>5 DEF Ahead
  <2> QED BY Zenon, <2>1, <2>5, <2>7, <2>8, <2>9, <2>10, <2>11
<1>PagedIs.
    ASSUME NEW x \in Progress, NEW s \in SUBSET Nat, NEW t \in BOOLEAN, NEW c \in Nat, NEW p \in Stages
    PROVE  \E y \in Progress :
            /\ y = Paging(x, s, t, c, p)
            /\ y.seen = s /\ y.cursor = c /\ y.pc = p
            /\ y.w = x.w /\ y.refs = x.refs /\ y.key = x.key /\ y.body = x.body /\ y.due = x.due
            /\ y.twice = t
  <2> USE <1>PagedIs
  <2> DEFINE y == Paging(x, s, t, c, p)
  <2>1. y \in Progress
    BY Zenon DEF Progress, Paging
  <2>2. y.twice = t
    BY Zenon DEF Progress, Paging
  <2>3. /\ y.seen = s /\ y.cursor = c /\ y.pc = p
        /\ y.w = x.w /\ y.refs = x.refs /\ y.key = x.key /\ y.body = x.body /\ y.due = x.due
    BY Zenon DEF Progress, Paging
  <2> HIDE DEF y
  <2> QED BY Zenon, <2>1, <2>2, <2>3 DEF y
<1>0. /\ TypeOK /\ LocksOK /\ StageOK(req[r]) /\ req[r].pc = "page"
      /\ UNCHANGED <<wallet, lock, address, idem, expiries, links, config>>
  BY Zenon DEF next_page, WalletsInv, rows, At, StagesOK
<1>1. PICK x \in Progress : x = req[r] /\ Walk(x) /\ x.pc = "page"
  BY Zenon, <1>0 DEF TypeOK, WalletsInv, WalksOK
<1>2. PICK B : B = Below(x.w, x.cursor)
  BY Zenon
<1>3. PICK P : P = Newest(B, PageSize)
  BY Zenon
<1>4. PICK ids : ids = Muxed(P)
  BY Zenon
<1>5. Become(r, [x EXCEPT !.seen = x.seen \cup ids, !.twice = x.twice \/ x.seen \cap ids # {},
                          !.cursor = IF P = {} THEN x.cursor ELSE PageEnd(P),
                          !.pc = IF Cardinality(B) > PageSize THEN "page" ELSE "listed"])
  BY Zenon, <1>1, <1>2, <1>3, <1>4 DEF next_page, page, has_more, Muxed
<1>6. /\ ids \subseteq Nat /\ x.seen \cap ids = {} /\ Cardinality(B) \in Nat
      /\ ~(Cardinality(B) > PageSize) => x.due \subseteq x.seen \cup ids
      /\ \A c \in Nat : (P = {} /\ c = x.cursor) \/ (P # {} /\ c = PageEnd(P)) => Ahead(x, x.seen \cup ids, c)
      /\ P # {} => PageEnd(P) \in Nat
  <2>1. Ahead(x, x.seen, x.cursor)
    BY Zenon, <1>1 DEF Walk, Ahead
  <2> QED BY <1>2, <1>3, <1>4, <2>1, <1>PageIs
<1>7. PICK s \in SUBSET Nat : s = x.seen \cup ids
  BY Zenon, <1>6 DEF Progress
<1>8. PICK t \in BOOLEAN : t = (x.twice \/ x.seen \cap ids # {})
  BY Zenon
<1>9. PICK c \in Nat : c = IF P = {} THEN x.cursor ELSE PageEnd(P)
  BY Zenon, <1>6 DEF Progress
<1>10. PICK p \in Stages : p = IF Cardinality(B) > PageSize THEN "page" ELSE "listed"
  BY Zenon, StageNames
<1>11. PICK y \in Progress :
         /\ y = Paging(x, s, t, c, p) /\ y.seen = s /\ y.cursor = c /\ y.pc = p /\ y.w = x.w
         /\ y.refs = x.refs /\ y.key = x.key /\ y.body = x.body /\ y.due = x.due /\ y.twice = t
  BY <1>PagedIs
<1>12. Become(r, y)
  BY <1>5, <1>7, <1>8, <1>9, <1>10, <1>11, Zenon DEF Paging
<1>13. ~y.twice
  <2>1. ~x.twice
    BY Zenon, <1>1 DEF Walk
  <2> QED BY Zenon, <1>6, <1>8, <1>11, <2>1
<1>14. p \in {"page", "listed"}
  BY Zenon, <1>10
<1>15. StageOK(y) /\ ~InTransaction(y) /\ ~Claims(y) /\ Claimed(r, y)'
  BY Zenon, <1>0, <1>1, <1>11, <1>14 DEF StageOK, InTransaction, Claims, Claimed, Ended
<1>16. Walk(y)'
  <2>1. CASE p = "listed"
    <3>1. ~(Cardinality(B) > PageSize)
      BY Zenon, <1>10, <2>1
    <3>2. y.due \subseteq y.seen
      BY Zenon, <1>6, <1>7, <1>11, <3>1
    <3> QED BY Zenon, <1>11, <1>13, <2>1, <3>2 DEF Walk
  <2>2. CASE p = "page"
    <3>1. (P = {} /\ c = x.cursor) \/ (P # {} /\ c = PageEnd(P))
      BY Zenon, <1>9
    <3>2. /\ \A i \in y.seen : \E a \in address \ Below(y.w, y.cursor) : a.w = y.w /\ a.muxed = i
          /\ \A i \in y.due \ y.seen : \E a \in Below(y.w, y.cursor) : a.muxed = i
      <4>1. Ahead(x, s, c)
        BY Zenon, <1>6, <1>7, <3>1
      <4>2. y.seen = s /\ y.cursor = c /\ y.w = x.w /\ y.due = x.due
        BY Zenon, <1>11
      <4> QED BY <4>1, <4>2, Zenon DEF Ahead
    <3>3. address' = address /\ Below(y.w, y.cursor)' = Below(y.w, y.cursor)
      BY Zenon, <1>0 DEF Below
    <3> QED BY <1>11, <1>13, <2>2, <3>2, <3>3 DEF Walk
  <2> QED BY Zenon, <1>14, <2>1, <2>2
<1>17. Unlock(r) = lock
  BY Zenon, <1>0, NoneHeld DEF InTransaction
<1> QED BY Zenon, <1>0, <1>12, <1>15, <1>16, <1>17, QuietRows

(* A request after a step, by its stage.                                   *)
LEMMA StageAfter ==
    ASSUME TypeOK, NEW r \in Requests, NEW x, Become(r, x), x.pc \notin {"tank_lock", "tank_set"}
    PROVE  /\ ~Provisions(req'[r])
           /\ \A q \in Requests : q # r => req'[q] = req[q]
BY Zenon DEF TypeOK, Become, Provisions

(* The steps that are not about a tank.                                    *)
LEMMA OtherStep ==
    ASSUME WalletsInv, NEW r \in Requests, Step(r),
           ~create_gas_tank(r), ~lock_gas_tank_provision(r), ~set_gas_tank(r)
    PROVE  /\ SealsKept /\ UNCHANGED <<config, mix>> /\ ~Provisions(req'[r])
           /\ \A q \in Requests : q # r => req'[q] = req[q]
(* An allocation changes the counter of a row.                             *)
<1>InsertKeeps. ASSUME TypeOK, StagesOK, NEW q \in Requests, insert(q)
                PROVE  SealsKept
  <2> USE <1>InsertKeeps
  <2>1. UNCHANGED wallet \/ \E m : Update(req[q].w, [wallet[req[q].w] EXCEPT !.next = m])
    BY Zenon DEF insert
  <2>2. req[q].w \in Ids /\ wallet[req[q].w] \in WalletRows
    BY Zenon, WalletsAssumption DEF TypeOK, StagesOK, StageOK, Ended, insert, At
  <2>3. ASSUME NEW m, Update(req[q].w, [wallet[req[q].w] EXCEPT !.next = m]) PROVE SealsKept
    <3>1. PICK row : row = [wallet[req[q].w] EXCEPT !.next = m]
      BY Zenon
    <3>2. row.tank = wallet[req[q].w].tank /\ row.seal = wallet[req[q].w].seal
      BY Zenon, <2>2, <3>1 DEF WalletRows
    <3>3. wallet' = [wallet EXCEPT ![req[q].w] = row]
      BY Zenon, <2>3, <3>1 DEF Update
    <3> QED BY Zenon, <2>2, <3>2, <3>3 DEF SealsKept, TypeOK
  <2> QED BY Zenon, <2>1, <2>3 DEF SealsKept
<1>0. TypeOK /\ req[r] \in Progress /\ \A w \in Ids : wallet[w] \in WalletRows
  BY Zenon DEF WalletsInv, TypeOK
<1>1. UNCHANGED <<config, mix>>
  BY Zenon DEF Step, create_wallet, archive_wallet, set_ingest_paused, create_address,
         create_addresses_batch, reserve, insert, list_addresses, next_page, create_payment_link,
         claim_idempotency_key, peek, create_link, insert_link, complete_idempotency_key,
         release_idempotency_key, fail, die
<1>2. SealsKept
  <2>1. CASE create_wallet(r) \/ archive_wallet(r) \/ set_ingest_paused(r)
    BY Zenon, <2>1, FlagKeeps DEF SealsKept
  <2>2. CASE insert(r)
    BY Zenon, <1>0, <2>2, <1>InsertKeeps DEF WalletsInv
  <2>3. CASE UNCHANGED wallet
    BY Zenon, <2>3 DEF SealsKept
  <2> QED BY Zenon, <2>1, <2>2, <2>3 DEF Step, create_address,
         create_addresses_batch, reserve, list_addresses, next_page, create_payment_link,
         claim_idempotency_key, peek, create_link, insert_link, complete_idempotency_key,
         release_idempotency_key, fail, die, rows
<1>3. \E x : Become(r, x) /\ x.pc \notin {"tank_lock", "tank_set"}
  <2>0. \A p : (Go(r, p) \/ Finish(r, p)) /\ p \notin {"tank_lock", "tank_set"} =>
               \E x : Become(r, x) /\ x.pc \notin {"tank_lock", "tank_set"}
    <3> SUFFICES ASSUME NEW p, Go(r, p) \/ Finish(r, p), p \notin {"tank_lock", "tank_set"}
                 PROVE  \E x : Become(r, x) /\ x.pc \notin {"tank_lock", "tank_set"}
      BY Zenon
    <3>1. [req[r] EXCEPT !.pc = p].pc = p /\ Bare(p).pc = p
      BY Zenon, <1>0 DEF Progress, Bare
    <3> QED BY Zenon, <3>1 DEF Go, Finish
  <2>1. CASE \/ create_wallet(r) \/ archive_wallet(r) \/ set_ingest_paused(r)
             \/ complete_idempotency_key(r) \/ release_idempotency_key(r) \/ die(r)
    BY <2>0, <2>1 DEF create_wallet, archive_wallet, set_ingest_paused, complete_idempotency_key,
                      release_idempotency_key, die
  <2>2. CASE claim_idempotency_key(r) \/ create_link(r) \/ insert_link(r)
    BY <2>0, <2>2 DEF claim_idempotency_key, create_link, insert_link, Undo
  <2>3. CASE insert(r) \/ fail(r)
    BY <2>0, <2>3 DEF insert, fail, Undo
  <2>4. CASE create_address(r) \/ create_addresses_batch(r)
    <3>1. \E w, s : Become(r, [req[r] EXCEPT !.pc = "reserve", !.w = w, !.refs = s])
      BY Zenon, <2>4 DEF create_address, create_addresses_batch
    <3>2. PICK w, s : Become(r, [req[r] EXCEPT !.pc = "reserve", !.w = w, !.refs = s])
      BY Zenon, <3>1
    <3>3. [req[r] EXCEPT !.pc = "reserve", !.w = w, !.refs = s].pc = "reserve"
      BY Zenon, <1>0 DEF Progress
    <3> QED BY Zenon, <3>2, <3>3
  <2>5. CASE reserve(r)
    <3>1. [req[r] EXCEPT !.pc = "insert", !.first = wallet[req[r].w].next].pc = "insert"
      BY Zenon, <1>0 DEF Progress
    <3> QED BY Zenon, <2>5, <3>1 DEF reserve
  <2>6. CASE list_addresses(r)
    <3>1. PICK w, d : Become(r, [req[r] EXCEPT !.pc = "page", !.w = w, !.due = d])
      BY Zenon, <2>6 DEF list_addresses
    <3>2. [req[r] EXCEPT !.pc = "page", !.w = w, !.due = d].pc = "page"
      BY Zenon, <1>0 DEF Progress
    <3> QED BY Zenon, <3>1, <3>2
  <2>7. CASE next_page(r)
    <3>1. PICK s, t, c, p : /\ p \in {"page", "listed"}
                            /\ Become(r, [req[r] EXCEPT !.seen = s, !.twice = t, !.cursor = c, !.pc = p])
      BY Zenon, <2>7 DEF next_page
    <3>2. [req[r] EXCEPT !.seen = s, !.twice = t, !.cursor = c, !.pc = p].pc = p
      BY Zenon, <1>0 DEF Progress
    <3> QED BY Zenon, <3>1, <3>2
  <2>8. CASE create_payment_link(r)
    <3>1. PICK w \in Busy, k \in Keys \cup {NoKey}, b \in Bodies :
             Become(r, [req[r] EXCEPT !.pc = IF k = NoKey THEN "create" ELSE "claim",
                                      !.w = w, !.key = k, !.body = b, !.refs = <<NoRef>>])
      BY Zenon, <2>8 DEF create_payment_link
    <3>2. PICK p : p = IF k = NoKey THEN "create" ELSE "claim"
      BY Zenon
    <3>3. [req[r] EXCEPT !.pc = p, !.w = w, !.key = k, !.body = b, !.refs = <<NoRef>>].pc = p
      BY Zenon, <1>0 DEF Progress
    <3>4. p \in {"create", "claim"}
      BY Zenon, <3>2
    <3> QED BY Zenon, <3>1, <3>2, <3>3, <3>4
  <2>9. CASE peek(r)
    <3>1. \/ Finish(r, "failed")
          \/ \E g : Become(r, [req[r] EXCEPT !.pc = "replayed", !.got = g])
      BY Zenon, <2>9 DEF peek
    <3>2. ASSUME NEW g, Become(r, [req[r] EXCEPT !.pc = "replayed", !.got = g])
          PROVE  \E x : Become(r, x) /\ x.pc \notin {"tank_lock", "tank_set"}
      <4>1. [req[r] EXCEPT !.pc = "replayed", !.got = g].pc = "replayed"
        BY Zenon, <1>0 DEF Progress
      <4> QED BY Zenon, <3>2, <4>1
    <3>3. Finish(r, "failed") => \E x : Become(r, x) /\ x.pc \notin {"tank_lock", "tank_set"}
      BY <2>0
    <3> QED BY Zenon, <3>1, <3>2, <3>3
  <2> QED BY Zenon, <2>1, <2>2, <2>3, <2>4, <2>5, <2>6, <2>7, <2>8, <2>9 DEF Step
<1> QED BY Zenon, <1>0, <1>1, <1>2, <1>3, StageAfter

(* A tank that is begun is to be sealed with the newest key.               *)
LEMMA TankBegun ==
    ASSUME RotationInv, NEW r \in Requests, create_gas_tank(r), UNCHANGED <<tool, checkpoint>>
    PROVE  ToolTypeOK' /\ SealsOK' /\ BatchesOK' /\ (KeysInv => KeysInv')
<1>0. /\ WalletsInv /\ TypeOK /\ ToolTypeOK /\ SealsOK /\ BatchesOK
      /\ UNCHANGED <<wallet, config, mix, tool, checkpoint>>
  BY Zenon DEF RotationInv, WalletsInv, create_gas_tank, rows
<1>1. PICK w \in Busy : /\ w \notin ServerCustody
                        /\ Become(r, [req[r] EXCEPT !.pc = "tank_lock", !.w = w, !.sealer = sealing_key])
  BY Zenon DEF create_gas_tank
<1>2. req'[r].w = w /\ req'[r].sealer = sealing_key /\ \A q \in Requests : q # r => req'[q] = req[q]
  BY Zenon, <1>0, <1>1 DEF TypeOK, Become, Progress
<1>3. Sealed' = Sealed /\ SealsKept /\ Begun' = Begun
  BY Zenon, <1>0, SameKeys DEF Sealed, SealsKept, Begun
<1>4. ToolTypeOK' /\ BatchesOK'
  BY Zenon, <1>0, <1>3 DEF ToolTypeOK, BatchesOK
<1>5. SealsOK'
  BY Zenon, <1>0, <1>1, <1>2, <1>3 DEF SealsOK, account_id, Provisions
<1>6. ASSUME KeysInv PROVE KeysInv'
  <2>1. sealing_key \in opening_keys /\ KeysInUse
    BY Zenon, <1>0, <1>6, HeldKeys DEF TypeOK, KeysInv
  <2>2. \A q \in Requests : Provisions(req'[q]) =>
           req'[q].sealer \in opening_keys /\ (Begun => req'[q].sealer = sealing_key)
    BY Zenon, <1>2, <2>1 DEF KeysInUse
  <2>3. KeysInUse'
    BY Zenon, <1>0, <1>3, <2>1, <2>2, SameKeys DEF KeysInUse, Provisions
  <2>4. RowsMoved'
    BY Zenon, <1>0, <1>3, <1>6, SameKeys DEF KeysInv, RowsMoved, Moved, Behind
  <2>5. FirstMoved'
    BY Zenon, <1>0, <1>3, <1>6, SameKeys DEF KeysInv, FirstMoved
  <2> QED BY Zenon, <2>3, <2>4, <2>5 DEF KeysInv
<1> QED BY Zenon, <1>4, <1>5, <1>6

(* A tank that is set is sealed with the key its request began with.       *)
LEMMA TankSet ==
    ASSUME RotationInv, NEW r \in Requests, set_gas_tank(r), UNCHANGED <<tool, checkpoint>>
    PROVE  ToolTypeOK' /\ SealsOK' /\ BatchesOK' /\ (KeysInv => KeysInv')
<1>0. /\ WalletsInv /\ TypeOK /\ ToolTypeOK /\ SealsOK /\ BatchesOK /\ req[r].pc = "tank_set"
      /\ Locked(r, req[r]) /\ StageOK(req[r])
      /\ UNCHANGED <<config, mix, tool, checkpoint>>
  BY Zenon DEF RotationInv, WalletsInv, set_gas_tank, LocksOK, StagesOK, At
<1>1. PICK w \in Ids : w = req[r].w
  BY Zenon, <1>0, WalletsAssumption DEF StageOK, Ended
<1>2. wallet[w].tank = Nobody /\ w \notin ServerCustody /\ w \notin Sealed
  BY Zenon, <1>0, <1>1 DEF Locked, SealsOK, Provisions
<1>3. PICK n : n = req[r].sealer
  BY Zenon
<1>4. wallet' = [wallet EXCEPT ![w] = [wallet[w] EXCEPT !.tank = r, !.seal = seal(n, r)]]
  BY Zenon, <1>1, <1>2, <1>3 DEF set_gas_tank, Update
<1>5. wallet[w] \in WalletRows
  BY Zenon, <1>0 DEF TypeOK
<1>6. /\ wallet'[w].tank = r /\ wallet'[w].seal = seal(n, r)
      /\ \A v \in Ids : v # w => wallet'[v] = wallet[v]
  BY Zenon, <1>0, <1>4, <1>5 DEF TypeOK, WalletRows
<1>7. seal(n, r).key = n /\ seal(n, r).scheme = 1 /\ seal(n, r) # NoSeal
  BY DEF seal, NoSeal
<1>8. Sealed' = Sealed \cup {w}
  BY Zenon, <1>6, <1>7 DEF Sealed
<1>9. ~Provisions(req'[r]) /\ \A q \in Requests : q # r => req'[q] = req[q]
  <2>1. Become(r, Bare("done")) /\ Bare("done").pc = "done"
    BY Zenon DEF set_gas_tank, Finish, Bare
  <2> QED BY Zenon, <1>0, <2>1, StageAfter
<1>10. \A v \in Sealed : v \in Ids /\ v # w /\ wallet'[v] = wallet[v] /\ account_id(v)' = account_id(v)
  BY Zenon, <1>2, <1>6 DEF Sealed, account_id
<1>11. ToolTypeOK'
  BY Zenon, <1>0 DEF ToolTypeOK
<1>12. BatchesOK'
  BY Zenon, <1>0, <1>8, <1>10 DEF BatchesOK
<1>13. SealsOK'
  <2>1. /\ wallet'[w].tank # Nobody /\ wallet'[w].seal.scheme = 1
    BY Zenon, <1>6, <1>7, RequestIs
  <2>2. \A v \in Sealed' : /\ wallet'[v].tank # Nobody \/ v \in ServerCustody
                           /\ wallet'[v].seal.scheme \in {1, 2}
                           /\ wallet'[v].seal.scheme = 2 => wallet'[v].seal.bound = account_id(v)'
    BY <1>0, <1>8, <1>10, <2>1 DEF SealsOK
  <2>3. \A q \in Requests : Provisions(req'[q]) => req'[q].w \notin ServerCustody
    BY Zenon, <1>0, <1>9 DEF SealsOK
  <2> QED BY Zenon, <2>2, <2>3 DEF SealsOK, Provisions
<1>14. ASSUME KeysInv PROVE KeysInv'
  <2>0. KeysInUse /\ RowsMoved /\ FirstMoved /\ config \in [key : Nat, next : Nat]
    BY Zenon, <1>0, <1>14 DEF KeysInv, TypeOK
  <2>1. Begun' = Begun
    BY Zenon, <1>0, SameKeys DEF Begun
  <2>2. n \in opening_keys /\ n \in 1 .. sealing_key /\ (Begun => n = sealing_key)
    <3>1. Provisions(req[r])
      BY Zenon, <1>0 DEF Provisions
    <3> QED BY Zenon, <1>3, <2>0, <3>1, HeldKeys DEF KeysInUse
  <2>3. \A t \in Runs : Behind(tool[t], w) => Begun
    BY Zenon DEF Behind, Begun
  <2>4. checkpoint.new = sealing_key => Begun
    BY Zenon DEF Begun
  <2>5. /\ wallet'[w].seal.key = n /\ wallet'[w].seal.scheme # 2
        /\ Begun => Moved(w)'
    <3>1. wallet'[w].seal.key = n /\ wallet'[w].seal.scheme = 1 /\ 1 # 2
      BY <1>6, <1>7
    <3>2. Begun => wallet'[w].seal.key = sealing_key'
      BY Zenon, <1>0, <2>2, <3>1, SameKeys
    <3> QED BY <3>1, <3>2 DEF Moved
  <2>6. \A v \in Sealed : (Moved(v)' <=> Moved(v)) /\ wallet'[v] = wallet[v]
    BY Zenon, <1>0, <1>10, SameKeys DEF Moved
  <2>7. KeysInUse'
    BY Zenon, <1>0, <1>9, <2>0, <2>1, SameKeys DEF KeysInUse, Provisions
  <2>8. RowsMoved'
    <3>1. \A v \in Sealed' :
           /\ wallet'[v].seal.key \in 1 .. sealing_key
           /\ wallet'[v].seal.scheme = 1 => wallet'[v].seal.key \in opening_keys
           /\ checkpoint.new = sealing_key /\ v <= checkpoint.after => Moved(v)'
           /\ \A t \in Runs : Behind(tool[t], v) => Moved(v)'
      BY Zenon, <1>8, <2>0, <2>2, <2>3, <2>4, <2>5, <2>6 DEF RowsMoved
    <3> QED BY Zenon, <1>0, <3>1, SameKeys DEF RowsMoved, Behind
  <2>9. FirstMoved'
    <3>1. FirstRotation => \A v \in Sealed' :
             wallet'[v].seal.scheme = 2 => wallet'[v].seal.key = 2 /\ config # Before
      BY Zenon, <1>8, <2>0, <2>5, <2>6 DEF FirstMoved, FirstRotation
    <3> QED BY Zenon, <1>0, <2>0, <3>1, SameKeys DEF FirstMoved
  <2> QED BY Zenon, <2>7, <2>8, <2>9 DEF KeysInv
<1> QED BY Zenon, <1>11, <1>12, <1>13, <1>14

(* Every step of the servers.                                              *)
LEMMA StepInv ==
    ASSUME WalletsInv, NEW r \in Requests, Step(r)
    PROVE  WalletsInv'
BY Zenon, FlagStep, TankStep, TankLockStep, TankSetStep, AllocateStep, ReserveStep, InsertStep, ListStep,
   PageStep, LinkStep, ClaimStep, PeekStep, CreateLinkStep, InsertLinkStep, KeyDoneStep, FailStep
   DEF Step

(* Whatever a server does beside the tool keeps the invariants of both.    *)
LEMMA ServeInv ==
    ASSUME RotationInv, Serve, UNCHANGED toolVars
    PROVE  RotationInv' /\ (KeysInv => KeysInv')
<1>0. WalletsInv /\ TypeOK /\ UNCHANGED <<tool, checkpoint>>
  BY Zenon DEF RotationInv, WalletsInv, toolVars
<1>1. WalletsInv'
  BY Zenon, <1>0, StepInv, ExpireStep, PurgeStep DEF Serve
<1>2. ToolTypeOK' /\ SealsOK' /\ BatchesOK' /\ (KeysInv => KeysInv')
  <2>1. ASSUME NEW r \in Requests, Step(r)
        PROVE  ToolTypeOK' /\ SealsOK' /\ BatchesOK' /\ (KeysInv => KeysInv')
    <3>1. CASE create_gas_tank(r)
      BY Zenon, <1>0, <3>1, TankBegun
    <3>2. CASE set_gas_tank(r)
      BY Zenon, <1>0, <3>2, TankSet
    <3>3. CASE lock_gas_tank_provision(r)
      <4>1. UNCHANGED <<wallet, config, mix>> /\ SealsKept /\ req[r].pc = "tank_lock"
        BY Zenon, <3>3 DEF lock_gas_tank_provision, SealsKept, At
      <4>2. Go(r, "tank_set") \/ Finish(r, "failed")
        BY Zenon, <3>3 DEF lock_gas_tank_provision
      <4>3. \A q \in Requests : q # r => req'[q] = req[q]
        BY Zenon, <1>0, <4>2 DEF TypeOK, Go, Finish, Become
      <4>4. Provisions(req'[r]) =>
              Provisions(req[r]) /\ req'[r].w = req[r].w /\ req'[r].sealer = req[r].sealer
        <5>1. CASE Go(r, "tank_set")
          BY <1>0, <4>1, <5>1 DEF TypeOK, Go, Become, Progress, Provisions
        <5>2. CASE Finish(r, "failed")
          BY Zenon, <1>0, <5>2 DEF TypeOK, Finish, Become, Bare, Provisions
        <5> QED BY Zenon, <4>2, <5>1, <5>2
      <4>5. \A q \in Requests : Provisions(req'[q]) =>
              Provisions(req[q]) /\ req'[q].w = req[q].w /\ req'[q].sealer = req[q].sealer
        BY Zenon, <4>3, <4>4
      <4> QED BY Zenon, <1>0, <4>1, <4>5, Framed
    <3>4. CASE ~create_gas_tank(r) /\ ~lock_gas_tank_provision(r) /\ ~set_gas_tank(r)
      <4>1. /\ SealsKept /\ UNCHANGED <<config, mix>> /\ ~Provisions(req'[r])
            /\ \A q \in Requests : q # r => req'[q] = req[q]
        BY Zenon, <1>0, <2>1, <3>4, OtherStep
      <4> QED BY Zenon, <1>0, <4>1, Framed
    <3> QED BY Zenon, <3>1, <3>2, <3>3, <3>4
  <2>2. CASE purge_expired_idempotency_keys \/ \E k \in Busy \X Keys : expire(k)
    <3>1. UNCHANGED <<wallet, config, mix, req>> /\ SealsKept
      BY Zenon, <2>2 DEF purge_expired_idempotency_keys, expire, SealsKept
    <3> QED BY Zenon, <1>0, <3>1, Framed
  <2> QED BY Zenon, <2>1, <2>2 DEF Serve
<1> QED BY Zenon, <1>1, <1>2 DEF RotationInv

(* The database before its first request satisfies the invariants.         *)
LEMMA AtStart ==
    ASSUME RotationInit
    PROVE  RotationInv /\ KeysInv
(* The rows that the servers start with.                                   *)
<1>RowIs. ASSUME NEW w \in Ids
          PROVE  /\ Row(w) \in WalletRows /\ Row(w).tank = Nobody
                 /\ Row(w).seal # NoSeal => /\ w \in ServerCustody
                                            /\ Row(w).seal.scheme = 1 /\ Row(w).seal.key = 1
  BY <1>RowIs DEF Row, WalletRows, seal, NoSeal, Owners, Own
<1>0. /\ wallet = [w \in Ids |-> Row(w)] /\ lock = [w \in Ids |-> Nobody]
      /\ address = {} /\ idem = [x \in Busy \X Keys |-> Nobody] /\ expiries = 0 /\ links = {}
      /\ config = [key |-> 1, next |-> 0] /\ req = [r \in Requests |-> Unstarted]
      /\ tool = [t \in Runs |-> Idle] /\ checkpoint = NoFile
  BY Zenon DEF RotationInit, Init
<1>1. \A w \in Ids : /\ wallet[w] \in WalletRows /\ wallet[w].tank = Nobody
                     /\ wallet[w].seal # NoSeal => /\ w \in ServerCustody
                                                   /\ wallet[w].seal.scheme = 1 /\ wallet[w].seal.key = 1
  BY Zenon, <1>0, <1>RowIs
<1>2. /\ Unstarted \in Progress /\ Neutral(Unstarted) /\ Unstarted.pc = "unstarted"
  BY Zenon, BareIs DEF Unstarted
<1>3. TypeOK
  BY Zenon, <1>0, <1>1, <1>2 DEF TypeOK
<1>4. \A r \in Requests : req[r] = Unstarted
  BY Zenon, <1>0
<1>5. StagesOK
  BY Zenon, <1>2, <1>4 DEF StagesOK, Neutral
<1>6. LocksOK
  BY Zenon, <1>0, <1>2, <1>4 DEF LocksOK, LocksHeld, Locked, InTransaction
<1>7. AddressesDistinct /\ RanksDistinct /\ TankSeeds
  BY Zenon, <1>0, <1>1 DEF AddressesDistinct, RanksDistinct, TankSeeds
<1>8. KeysOK
  <2>1. \A r \in Requests : ~Claims(req[r]) /\ req[r].pc \notin {"complete", "replayed"}
    BY Zenon, <1>2, <1>4 DEF Neutral
  <2> QED BY Zenon, <1>0, <2>1 DEF KeysOK, OneLinkPerKey, IdemOK, NoLinkYet, Linked, ClaimedOnce, Claimed
<1>9. WalksOK
  BY Zenon, <1>2, <1>4 DEF WalksOK, Walk, Neutral
<1>10. ToolTypeOK /\ BatchesOK
  BY Zenon, <1>0, IdleIs DEF ToolTypeOK, BatchesOK, NoFile
<1>11. \A r \in Requests : ~Provisions(req[r])
  BY Zenon, <1>2, <1>4 DEF Provisions
<1>12. SealsOK
  BY <1>1, <1>11 DEF SealsOK, Sealed
<1>13. /\ sealing_key = 1 /\ opening_keys = {1} /\ config.key = 1 /\ config.next = 0
       /\ checkpoint.new = 0 /\ 0 # 1 /\ 0 <= 1 /\ 1 # 0 /\ 1 # 2 /\ 1 \in 1 .. 1
  BY <1>0 DEF sealing_key, opening_keys, NoFile
<1>14. \A t \in Runs : tool[t].pc = "idle" /\ tool[t].pc \notin {"list", "row"} /\ \A w : ~Behind(tool[t], w)
  BY Zenon, <1>0, IdleIs DEF Behind
<1>15. KeysInUse
  BY Zenon, <1>11, <1>13, <1>14 DEF KeysInUse
<1>16. \A w \in Sealed : wallet[w].seal.key = 1 /\ wallet[w].seal.scheme = 1
  BY Zenon, <1>1 DEF Sealed
<1>17. RowsMoved /\ FirstMoved
  BY Zenon, <1>13, <1>14, <1>16 DEF RowsMoved, FirstMoved
<1>18. WalletsInv
  BY Zenon, <1>3, <1>5, <1>6, <1>7, <1>8, <1>9 DEF WalletsInv
<1> QED BY Zenon, <1>10, <1>12, <1>15, <1>17, <1>18 DEF RotationInv, KeysInv

(* Every step, of a request or of the tool, keeps the invariants.          *)
LEMMA Steps ==
    ASSUME RotationInv, [Next]_vars
    PROVE  RotationInv' /\ (KeysInv => KeysInv')
<1>1. CASE Serve /\ UNCHANGED toolVars
  BY Zenon, <1>1, ServeInv
<1>2. CASE Rotate
  BY Zenon, <1>2, RotateStep
<1>3. CASE UNCHANGED vars
  <2>1. UNCHANGED <<rows, req, tool, checkpoint, config, mix, wallet>>
    BY Zenon, <1>3 DEF vars, walletVars, toolVars, rows
  <2>2. config' \in [key : Nat, next : Nat]
    BY Zenon, <2>1 DEF RotationInv, WalletsInv, TypeOK
  <2>3. WalletsInv' /\ SealsKept
    BY Zenon, <2>1, <2>2, RowsStay
  <2>4. ToolTypeOK' /\ SealsOK' /\ BatchesOK' /\ (KeysInv => KeysInv')
    BY Zenon, <2>1, <2>3, Framed
  <2> QED BY Zenon, <2>3, <2>4 DEF RotationInv
<1> QED BY Zenon, <1>1, <1>2, <1>3 DEF Next

(* What the rows, the requests and the runs of the tool agree on holds     *)
(* throughout, for any wallets, requests, keys and number of rotations     *)
(* (octo-db, octo-api handlers, migrate-keys).                             *)
THEOREM RotationInvariance == Spec => []RotationInv
<1>1. RotationInit => RotationInv
  BY Zenon, AtStart
<1>2. RotationInv /\ [Next]_vars => RotationInv'
  BY Zenon, Steps
<1> QED BY <1>1, <1>2, PTL DEF Spec

(* No deposit id, reference or gas tank is given out twice, whatever       *)
(* allocations, batches and provisions race or fail half-way               *)
(* (next_muxed_id under the wallet's row lock, lock_gas_tank_provision).   *)
THEOREM EachGivenOnce == Spec => []GivenOnce
<1>1. RotationInv => GivenOnce
  <2> SUFFICES ASSUME RotationInv PROVE GivenOnce
    BY Zenon
  <2>0. AddressesDistinct /\ TankSeeds /\ LocksOK /\ TypeOK
    BY Zenon DEF RotationInv, WalletsInv
  <2>1. OneTank
    BY Zenon, <2>0, RequestIs DEF TankSeeds, LocksOK, Locked, InTransaction, OneTank, At
  <2> QED BY Zenon, <2>0, <2>1 DEF GivenOnce
<1> QED BY <1>1, RotationInvariance, PTL

(* A key makes at most one answered link in its term, and a request that is*)
(* answered from a key is answered with the link that the key made, never  *)
(* with one whose reply was lost, however calls fail before and after their*)
(* commit (claim_idempotency_key, insert_payment_link,                     *)
(* complete_idempotency_key, release_idempotency_key).                     *)
THEOREM OneLinkForKey == Spec => []KeyMakesOneLink
<1>1. RotationInv => KeyMakesOneLink
  <2> SUFFICES ASSUME RotationInv PROVE KeyMakesOneLink
    BY Zenon
  <2>0. KeysOK
    BY Zenon DEF RotationInv, WalletsInv
  <2>1. ReplayIsTheLink
    BY Zenon, <2>0 DEF KeysOK, Claimed, Linked, IsFor, HasKey, ReplayIsTheLink, At
  <2> QED BY Zenon, <2>0, <2>1 DEF KeysOK, KeyMakesOneLink
<1> QED BY <1>1, RotationInvariance, PTL

(* A walk of the address list sees every address that was there when it    *)
(* began, and none twice, beside any insertions (list_addresses).          *)
THEOREM WalksSeeAll == Spec => []WalkSeesAll
<1>1. RotationInv => WalkSeesAll
  <2> SUFFICES ASSUME RotationInv PROVE WalkSeesAll
    BY Zenon
  <2>0. WalksOK
    BY Zenon DEF RotationInv, WalletsInv
  <2> QED BY Zenon, <2>0 DEF WalksOK, Walk, WalkSeesAll, At
<1> QED BY <1>1, RotationInvariance, PTL

(* Any number of rotations and upgrades, for any wallets, runs side by     *)
(* side, crashes and roll-outs: no seed is destroyed, one that the tool has*)
(* not reached opens for the server that signs, a run that reports         *)
(* completion has left behind only what an earlier one had re-sealed, and  *)
(* after the first rotation the old key can go (migrate-keys).             *)
THEOREM RotationsSafe == Spec => []RotationSafe
<1>1. RotationInit => RotationInv /\ KeysInv
  BY Zenon, AtStart
<1>2. (RotationInv /\ KeysInv) /\ [Next]_vars => (RotationInv /\ KeysInv)'
  BY Zenon, Steps
<1>3. RotationInv /\ KeysInv => RotationSafe
  <2> SUFFICES ASSUME RotationInv, KeysInv PROVE RotationSafe
    BY Zenon
  <2>0. SealsOK /\ KeysInUse /\ RowsMoved /\ FirstMoved
    BY Zenon DEF RotationInv, KeysInv
  <2>1. \A w \in Sealed : open_with_account_id(wallet[w].seal.key, wallet[w].seal, account_id(w))
    BY Zenon, <2>0 DEF SealsOK, open_with_account_id, open
  <2>2. UnmovedSigns
    BY Zenon, <2>0 DEF RowsMoved, UnmovedSigns, signs, open
  <2>3. SeedsKept
    BY Zenon, <2>0, <2>1 DEF RowsMoved, SeedsKept
  <2>4. RotationComplete
    <3> SUFFICES ASSUME NEW t \in Runs, NEW w \in Sealed, tool[t].pc = "done"
                 PROVE  wallet[w].seal.scheme = 2 \/ wallet[w].seal.key = tool[t].new
      BY Zenon DEF RotationComplete
    <3>1. Moved(w)
      BY Zenon, <2>0 DEF RowsMoved, Behind
    <3>2. tool[t].pc # "idle"
      BY Zenon
    <3> QED BY Zenon, <2>0, <3>1, <3>2 DEF KeysInUse, Moved
  <2>5. FirstKeyGoes
    <3> SUFFICES ASSUME FirstRotation, NEW w \in Sealed
                 PROVE  wallet[w].seal.key \in opening_keys
      BY Zenon, <2>1 DEF FirstKeyGoes
    <3>1. CASE wallet[w].seal.scheme = 1
      BY Zenon, <2>0, <3>1 DEF RowsMoved
    <3>2. CASE wallet[w].seal.scheme = 2
      <4>1. wallet[w].seal.key = 2 /\ config # Before /\ config \in {Before, Window, After}
        BY Zenon, <2>0, <3>2 DEF FirstMoved, FirstRotation
      <4> QED BY <4>1 DEF Before, Window, After, opening_keys
    <3> QED BY Zenon, <2>0, <3>1, <3>2 DEF SealsOK
  <2> QED BY Zenon, <2>2, <2>3, <2>4, <2>5 DEF RotationSafe
<1> QED BY <1>1, <1>2, <1>3, PTL DEF Spec
=============================================================================
