---------------------------- MODULE KeyRotation ----------------------------
(***************************************************************************)
(* Rotation of the master key that seals gas-tank and legacy seeds:        *)
(* bin/migrate-keys/src/main.rs beside the servers of module Wallets, by   *)
(* docs/runbook-key-rotation.md: MASTER_KEY_NEXT is rolled out, the tool   *)
(* re-seals the rows in batches, the new key is promoted.  Without         *)
(* MASTER_KEY_NEXT the tool re-seals under the same key: an upgrade of the *)
(* scheme.                                                                 *)
(*                                                                         *)
(* Several operators may run the tool at once in one directory, so with one*)
(* checkpoint file, and a run may end at any point.  Requests that were in *)
(* flight at a roll-out keep the configuration they started with.          *)
(***************************************************************************)
EXTENDS Wallets

CONSTANTS
    Runs,           \* runs of the tool that may go on at a time
    BatchSize,
    MaxRotations,
    MaxCrashes

ASSUME KeyRotationAssumption ==
    /\ BatchSize \in Nat \ {0} /\ MaxRotations \in Nat /\ MaxCrashes \in Nat

VARIABLES
    tool,           \* each run of the tool
    checkpoint,     \* the checkpoint file
    crashes

toolVars == <<tool, checkpoint, crashes>>
vars == <<walletVars, toolVars>>

Idle == [pc |-> "idle", old |-> 0, new |-> 0, after |-> 0, last |-> 0, batch |-> {}]
NoFile == [old |-> 0, new |-> 0, after |-> 0]

RotationInit == Init /\ tool = [t \in Runs |-> Idle] /\ checkpoint = NoFile /\ crashes = 0

(* Whether the keys are rotated, and whether the tool is also run without  *)
(* MASTER_KEY_NEXT, in this behaviour.                                     *)
Offers(kind) == kind \in {mix[r] : r \in DOMAIN mix}

(* The server's own use of a sealed seed (sign_fee_bump): it opens the     *)
(* record without the account id.                                          *)
signs(w) == \E k \in opening_keys : open(k, wallet[w].seal)

(* A server boots only if its keys open the newest sealed row.             *)
self_test(c) ==
    \A w \in Sealed :
        (\A v \in Sealed : v <= w) =>
            \E k \in {c.next, c.key} \ {0} : open_with_account_id(k, wallet[w].seal, account_id(w))

open_window ==
    LET c == [key |-> config.key, next |-> config.key + 1]
    IN /\ Offers("rotate")
       /\ config.next = 0 /\ config.key <= MaxRotations
       /\ \A t \in Runs : tool[t].pc \in {"idle", "done"}
       /\ self_test(c)
       /\ config' = c
       /\ tool' = [t \in Runs |-> Idle]
       /\ UNCHANGED <<rows, mix, req, checkpoint, crashes>>

(* The operator promotes the new key once a run has reported completion.   *)
promote ==
    LET c == [key |-> config.next, next |-> 0]
    IN /\ config.next # 0
       /\ \E t \in Runs : tool[t].pc = "done" /\ tool[t].new = config.next
       /\ \A t \in Runs : tool[t].pc \in {"idle", "done"}
       /\ self_test(c)
       /\ config' = c
       /\ UNCHANGED <<rows, mix, req, toolVars>>

Advance(t, x) == tool' = [tool EXCEPT ![t] = x]
Pair == [old |-> config.key, new |-> sealing_key]

(* A run starts after the roll-out: requests of the earlier configuration  *)
(* have been drained.  A checkpoint of other keys is refused.              *)
read_checkpoint(t) ==
    /\ tool[t].pc = "idle"
    /\ IF config.next = 0 THEN Offers("upgrade") ELSE Offers("rotate")
    /\ \A r \in Open : req[r].sealer \in {0, sealing_key}
    /\ checkpoint = NoFile \/ (checkpoint.old = Pair.old /\ checkpoint.new = Pair.new)
    /\ Advance(t, [Idle EXCEPT !.pc = "list", !.old = Pair.old, !.new = Pair.new,
                               !.after = checkpoint.after])
    /\ UNCHANGED <<walletVars, checkpoint, crashes>>

NeedsReseal(t) == {w \in Sealed : wallet[w].seal.scheme # 2 /\ w > tool[t].after}
Batch(S) == {w \in S : Cardinality({v \in S : v < w}) < BatchSize}
Listed(S) == {[w |-> w, s |-> wallet[w].seal] : w \in S}

(* Variant: the cursor is saved before the rows of the batch are written.  *)
list_early_checkpoint(t) ==
    /\ tool[t].pc = "list"
    /\ LET b == Batch(NeedsReseal(t))
       IN IF b = {}
          THEN Advance(t, [tool[t] EXCEPT !.pc = "done"]) /\ checkpoint' = NoFile
          ELSE /\ Advance(t, [tool[t] EXCEPT !.pc = "row", !.last = Max(b), !.batch = Listed(b)])
               /\ checkpoint' = [old |-> tool[t].old, new |-> tool[t].new, after |-> Max(b)]
    /\ UNCHANGED <<walletVars, crashes>>

list_wallets_needing_reseal(t) ==
    /\ tool[t].pc = "list"
    /\ LET b == Batch(NeedsReseal(t))
       IN IF b = {}
          THEN Advance(t, [tool[t] EXCEPT !.pc = "done"]) /\ checkpoint' = NoFile
          ELSE /\ Advance(t, [tool[t] EXCEPT !.pc = "row", !.last = Max(b), !.batch = Listed(b)])
               /\ UNCHANGED checkpoint
    /\ UNCHANGED <<walletVars, crashes>>

reseal_with_account_id(old, new, s, a) == seal_with_account_id(new, s.seed, a)

(* Rows are taken in the order of their ids.  A row is re-sealed from what *)
(* the listing read and written if its scheme is still that one; a record  *)
(* that does not open ends the run.                                        *)
reseal_wallet(t) ==
    /\ tool[t].pc = "row"
    /\ \E x \in tool[t].batch :
         /\ \A y \in tool[t].batch : x.w <= y.w
         /\ IF ~open_with_account_id(tool[t].old, x.s, account_id(x.w))
            THEN Advance(t, Idle) /\ UNCHANGED wallet
            ELSE /\ lock[x.w] = Nobody
                 /\ IF wallet[x.w].seal.scheme = x.s.scheme
                    THEN Update(x.w, [wallet[x.w] EXCEPT !.seal =
                           reseal_with_account_id(tool[t].old, tool[t].new, x.s, account_id(x.w))])
                    ELSE UNCHANGED wallet
                 /\ Advance(t, [tool[t] EXCEPT !.batch = @ \ {x}])
    /\ UNCHANGED <<lock, address, idem, expiries, links, config, mix, req, checkpoint, crashes>>

write_checkpoint(t) ==
    /\ tool[t].pc = "row" /\ tool[t].batch = {}
    /\ Advance(t, [tool[t] EXCEPT !.pc = "list", !.after = tool[t].last, !.last = 0])
    /\ checkpoint' = [old |-> tool[t].old, new |-> tool[t].new, after |-> tool[t].last]
    /\ UNCHANGED <<walletVars, crashes>>

crash(t) ==
    /\ tool[t].pc \in {"list", "row"}
    /\ crashes < MaxCrashes
    /\ crashes' = crashes + 1
    /\ Advance(t, Idle)
    /\ UNCHANGED <<walletVars, checkpoint>>

Rotate ==
    \/ open_window \/ promote
    \/ \E t \in Runs : \/ read_checkpoint(t) \/ list_wallets_needing_reseal(t)
                       \/ reseal_wallet(t) \/ write_checkpoint(t) \/ crash(t)

Next == (Serve /\ UNCHANGED toolVars) \/ Rotate

Spec == RotationInit /\ [][Next]_vars

(***************************************************************************)
(* Properties.                                                             *)
(***************************************************************************)

(* A seed that the tool has not re-sealed opens for the server that signs  *)
(* with it, at any point of any rotation.  One that it has re-sealed does  *)
(* not: scheme 2 needs the account id, which sign_fee_bump does not give;  *)
(* see the README.                                                         *)
UnmovedSigns == \A w \in Sealed : wallet[w].seal.scheme = 1 => signs(w)

(* No seed is destroyed: a record opens, for the account its row names,    *)
(* under one of the keys so far, whatever runs, crashes and roll-outs made *)
(* of it.  Whether that key is still held is FirstKeyGoes.                 *)
SeedsKept ==
    \A w \in Sealed : \E k \in 1 .. sealing_key : open_with_account_id(k, wallet[w].seal, account_id(w))

(* A run that reports completion leaves a row under another key than the   *)
(* new one only if an earlier rotation or upgrade had re-sealed it, as the *)
(* listing passes over those: however the run was interrupted and resumed, *)
(* beside other runs and while gas tanks are provisioned.                  *)
RotationComplete ==
    \A t \in Runs, w \in Sealed :
        tool[t].pc = "done" => wallet[w].seal.scheme = 2 \/ wallet[w].seal.key = tool[t].new

(* In the first rotation, with no upgrade before it, nothing is passed     *)
(* over: each seed opens, with the account id, under a key that the        *)
(* servers hold, and once the new key is promoted the old one can go.      *)
Before == [key |-> 1, next |-> 0]
Window == [key |-> 1, next |-> 2]
After == [key |-> 2, next |-> 0]
FirstRotation == config \in {Before, Window, After} /\ ~Offers("upgrade")
FirstKeyGoes ==
    FirstRotation =>
        \A w \in Sealed :
            \E k \in opening_keys : open_with_account_id(k, wallet[w].seal, account_id(w))

(* A rotation destroys no seed and, until it reaches a row, does not stop  *)
(* the server from signing with it; when it says that it is complete it    *)
(* has left none behind that it was to move (migrate-keys).                *)
RotationSafe == UnmovedSigns /\ SeedsKept /\ RotationComplete /\ FirstKeyGoes

(***************************************************************************)
(* What the rows, the runs and the requests agree on.                      *)
(***************************************************************************)
SealRows == [key : Nat, scheme : 0 .. 2, bound : Owners, seed : Owners]
ToolRows == [pc : {"idle", "list", "row", "done"}, old : Nat, new : Nat, after : Nat, last : Nat,
             batch : SUBSET [w : Ids, s : SealRows]]
ToolTypeOK ==
    /\ tool \in [Runs -> ToolRows]
    /\ checkpoint \in [old : Nat, new : Nat, after : Nat]

Provisions(x) == x.pc \in {"tank_lock", "tank_set"}

(* A row is sealed for the account it names; a legacy wallet gets no tank. *)
SealsOK ==
    /\ \A w \in Sealed :
         /\ wallet[w].tank # Nobody \/ w \in ServerCustody
         /\ wallet[w].seal.scheme \in {1, 2}
         /\ wallet[w].seal.scheme = 2 => wallet[w].seal.bound = account_id(w)
    /\ \A r \in Requests : Provisions(req[r]) => req[r].w \notin ServerCustody

(* What a listing has read is still in the row, or another run has         *)
(* re-sealed it.                                                           *)
BatchesOK ==
    \A t \in Runs : \A x \in tool[t].batch :
        /\ x.w \in Sealed /\ x.s.scheme = 1 /\ x.s.seed = wallet[x.w].seal.seed
        /\ wallet[x.w].seal = x.s \/ wallet[x.w].seal.scheme = 2

RotationInv == WalletsInv /\ ToolTypeOK /\ SealsOK /\ BatchesOK

(* Between the keys: what a run has left behind it, and what a checkpoint  *)
(* for the sealing key vouches for, is re-sealed or under that key.        *)
Moved(w) == wallet[w].seal.scheme = 2 \/ wallet[w].seal.key = sealing_key
Begun == checkpoint.new = sealing_key \/ \E t \in Runs : tool[t].pc # "idle"
Behind(x, w) ==
    \/ x.pc = "done"
    \/ x.pc = "list" /\ w <= x.after
    \/ x.pc = "row" /\ w <= x.last /\ \A y \in x.batch : y.w # w

KeysInUse ==
    /\ config.key # 0 /\ config.next \in {0, config.key + 1}
    /\ checkpoint.new <= sealing_key
    /\ \A t \in Runs : tool[t].pc # "idle" => tool[t].new = sealing_key
    /\ \A t \in Runs : tool[t].pc \in {"list", "row"} => tool[t].old = config.key
    /\ \A r \in Requests : Provisions(req[r]) =>
         req[r].sealer \in opening_keys /\ (Begun => req[r].sealer = sealing_key)

RowsMoved ==
    \A w \in Sealed :
        /\ wallet[w].seal.key \in 1 .. sealing_key
        /\ wallet[w].seal.scheme = 1 => wallet[w].seal.key \in opening_keys
        /\ checkpoint.new = sealing_key /\ w <= checkpoint.after => Moved(w)
        /\ \A t \in Runs : Behind(tool[t], w) => Moved(w)

FirstMoved ==
    ~Offers("upgrade") =>
        /\ config.next = 0 => \A t \in Runs : tool[t].pc \in {"idle", "done"}
        /\ FirstRotation => \A w \in Sealed :
             wallet[w].seal.scheme = 2 => wallet[w].seal.key = 2 /\ config # Before

KeysInv == KeysInUse /\ RowsMoved /\ FirstMoved
=============================================================================
