------------------------------ MODULE Wallets ------------------------------
(***************************************************************************)
(* The wallet routes: crates/api/src/routes/wallets.rs, addresses.rs and   *)
(* the create route of payment_links.rs, over store/src/wallets.rs,        *)
(* addresses.rs and idempotency.rs.                                        *)
(*                                                                         *)
(* A step is one call of the store with the tests the handler makes on its *)
(* answer.  An allocation is a transaction of two steps that holds the row *)
(* lock of its wallet between them.  A call may fail, before its commit or *)
(* after it with its reply lost, and a request may die with its process,   *)
(* between any two steps.                                                  *)
(*                                                                         *)
(* addresses.created_at is the start of the transaction and ids are random,*)
(* so the position of a new row in a listing is any: rank.                 *)
(***************************************************************************)
EXTENDS Naturals, Sequences, FiniteSets, FiniteSetsExt

CONSTANTS
    Ids,            \* ids of wallets, ordered as the database orders them
    ServerCustody,  \* legacy wallets, whose own seed is sealed in the row
    Registered,     \* the wallets that exist from the start
    Busy,           \* the wallets that requests are about
    Refs, NoRef,    \* customer references
    Keys, NoKey,    \* values of the Idempotency-Key header
    Bodies,         \* request bodies, by their SHA-256
    Mixes,          \* the kinds of requests that arrive together
    MaxRequests,    \* how many they are at most
    MaxBatch,       \* MAX_BATCH_ADDRESSES
    PageSize,       \* the limit of a listing
    Ranks,          \* places in a listing
    MaxExpiries,    \* how often idempotency keys expire
    Nobody          \* no request, wallet, tank or link

ASSUME WalletsAssumption ==
    /\ Ids \subseteq Nat \ {0} /\ IsFiniteSet(Ids)
    /\ ServerCustody \subseteq Registered /\ Registered \subseteq Ids /\ Busy \subseteq Ids
    /\ PageSize \in Nat \ {0} /\ MaxExpiries \in Nat /\ MaxRequests \in Nat /\ MaxBatch \in Nat
    /\ Ranks \subseteq Nat \ {0} /\ IsFiniteSet(Ranks)
    /\ NoRef \notin Refs /\ NoKey \notin Keys
    /\ Nobody \notin Nat \cup Bodies \cup [body : Bodies, link : Nat \cup {Nobody}, stale : BOOLEAN]

VARIABLES
    wallet,     \* rows of wallets
    lock,       \* the request whose transaction holds the wallet's row lock
    address,    \* rows of addresses
    idem,       \* rows of idempotency_keys
    expiries,   \* how often a key has expired; history
    links,      \* rows of payment_links, by the request that created them; told (the
                \* reply of the insert arrived) and term are history fields
    config,     \* MASTER_KEY and MASTER_KEY_NEXT of the running servers
    mix,        \* the kinds of the requests of this behaviour
    req         \* the requests, in the order they start

rows == <<wallet, lock, address, idem, expiries, links>>
walletVars == <<rows, config, mix, req>>

Requests == 1 .. MaxRequests
Own == 0         \* the wallet's own account and seed; those of a tank bear its request's number
NoSeal == [key |-> 0, scheme |-> 0, bound |-> Nobody, seed |-> Nobody]

(* A request that has nothing in hand: it has not started, or has ended.   *)
Bare(p) == [pc |-> p, w |-> Nobody, refs |-> << >>, key |-> NoKey, body |-> Nobody, first |-> 0,
            sealer |-> 0, got |-> Nobody, cursor |-> 0, seen |-> {}, due |-> {}, twice |-> FALSE]
Unstarted == Bare("unstarted")
Ended == {"unstarted", "done", "failed", "dead", "listed", "replayed"}
Open == {r \in Requests : req[r].pc \notin Ended}

(***************************************************************************)
(* octo_crypto: a record opens under the key that sealed it and, when its  *)
(* scheme binds the account (2), for that account only.                    *)
(***************************************************************************)
seal(k, seed) == [key |-> k, scheme |-> 1, bound |-> Nobody, seed |-> seed]
seal_with_account_id(k, seed, a) == [key |-> k, scheme |-> 2, bound |-> a, seed |-> seed]
open(k, s) == s.scheme = 1 /\ s.key = k
open_with_account_id(k, s, a) == IF s.scheme = 2 THEN s.key = k /\ s.bound = a ELSE open(k, s)

(* The account a sealed seed belongs to: the gas tank, or the wallet's own.*)
account_id(w) == IF wallet[w].tank # Nobody THEN wallet[w].tank ELSE Own
Sealed == {w \in Ids : wallet[w].seal # NoSeal}

sealing_key == IF config.next # 0 THEN config.next ELSE config.key
opening_keys == {config.next, config.key} \ {0}

Row(w) == [exists |-> w \in Registered, archived |-> FALSE, paused |-> FALSE, next |-> 1,
           tank |-> Nobody,
           seal |-> IF w \in ServerCustody THEN seal(1, Own) ELSE NoSeal]

Init ==
    /\ wallet = [w \in Ids |-> Row(w)]
    /\ lock = [w \in Ids |-> Nobody]
    /\ address = {}
    /\ idem = [x \in Busy \X Keys |-> Nobody]
    /\ expiries = 0
    /\ links = {}
    /\ config = [key |-> 1, next |-> 0]
    /\ mix \in Mixes
    /\ req = [r \in Requests |-> Unstarted]

At(r, p) == req[r].pc = p
Become(r, x) == req' = [req EXCEPT ![r] = x]
Update(w, row) == wallet' = [wallet EXCEPT ![w] = row]
Go(r, p) == Become(r, [req[r] EXCEPT !.pc = p])
Finish(r, p) == Become(r, Bare(p))
Starts(r, kind) ==
    /\ r \in DOMAIN mix /\ mix[r] = kind
    /\ At(r, "unstarted")
    /\ \A q \in 1 .. (r - 1) : ~At(q, "unstarted")

(***************************************************************************)
(* Wallet rows.                                                            *)
(***************************************************************************)
(* A signed challenge: whether it was issued here to this user, is at most *)
(* ten minutes old, and which wallet's key signed it.                      *)
Proofs == [ours : BOOLEAN, fresh : BOOLEAN, signer : Ids]
verify_ownership(p, w) == p.ours /\ p.fresh /\ p.signer = w

(* The account is unique; a second registration is a conflict.             *)
create_wallet(r) ==
    /\ Starts(r, "create")
    /\ \E w \in Ids, p \in Proofs :
         /\ verify_ownership(p, w)
         /\ ~wallet[w].exists
         /\ Update(w, [wallet[w] EXCEPT !.exists = TRUE])
    /\ Finish(r, "done")
    /\ UNCHANGED <<lock, address, idem, expiries, links, config, mix>>

archive_wallet(r) ==
    /\ Starts(r, "archive")
    /\ \E w \in Busy : /\ wallet[w].exists /\ lock[w] = Nobody
                      /\ Update(w, [wallet[w] EXCEPT !.archived = ~@])
    /\ Finish(r, "done")
    /\ UNCHANGED <<lock, address, idem, expiries, links, config, mix>>

set_ingest_paused(r) ==
    /\ Starts(r, "pause")
    /\ \E w \in Busy : /\ wallet[w].exists /\ lock[w] = Nobody
                      /\ Update(w, [wallet[w] EXCEPT !.paused = ~@])
    /\ Finish(r, "done")
    /\ UNCHANGED <<lock, address, idem, expiries, links, config, mix>>

(***************************************************************************)
(* create_gas_tank: the wallet is read, then locked and read again; a new  *)
(* keypair is sealed and stored before the lock is released.               *)
(***************************************************************************)
create_gas_tank(r) ==
    /\ Starts(r, "tank")
    /\ \E w \in Busy :
         /\ wallet[w].exists
         /\ wallet[w].tank = Nobody
         /\ w \notin ServerCustody
         /\ Become(r, [req[r] EXCEPT !.pc = "tank_lock", !.w = w, !.sealer = sealing_key])
    /\ UNCHANGED <<rows, config, mix>>

lock_gas_tank_provision(r) ==
    /\ At(r, "tank_lock")
    /\ lock[req[r].w] = Nobody
    /\ IF wallet[req[r].w].tank = Nobody
       THEN lock' = [lock EXCEPT ![req[r].w] = r] /\ Go(r, "tank_set")
       ELSE UNCHANGED lock /\ Finish(r, "failed")
    /\ UNCHANGED <<wallet, address, idem, expiries, links, config, mix>>

(* The seed of tank r is r.                                                *)
set_gas_tank(r) ==
    /\ At(r, "tank_set")
    /\ IF wallet[req[r].w].tank = Nobody
       THEN Update(req[r].w, [wallet[req[r].w] EXCEPT !.tank = r, !.seal = seal(req[r].sealer, r)])
       ELSE UNCHANGED wallet
    /\ lock' = [lock EXCEPT ![req[r].w] = Nobody]
    /\ Finish(r, "done")
    /\ UNCHANGED <<address, idem, expiries, links, config, mix>>

(***************************************************************************)
(* Deposit addresses.                                                      *)
(***************************************************************************)
Distinct(refs) == \A i, j \in DOMAIN refs : refs[i] = refs[j] /\ refs[i] # NoRef => i = j
RefsOf(w) == {a.ref : a \in {b \in address : b.w = w}} \ {NoRef}

create_address(r) ==
    /\ Starts(r, "address")
    /\ \E w \in Busy, x \in Refs \cup {NoRef} :
         /\ wallet[w].exists /\ ~wallet[w].archived
         /\ Become(r, [req[r] EXCEPT !.pc = "reserve", !.w = w, !.refs = <<x>>])
    /\ UNCHANGED <<rows, config, mix>>

create_addresses_batch(r) ==
    /\ Starts(r, "batch")
    /\ \E w \in Busy, n \in 1 .. MaxBatch : \E refs \in [1 .. n -> Refs \cup {NoRef}] :
         /\ wallet[w].exists /\ ~wallet[w].archived
         /\ Distinct(refs)
         /\ Become(r, [req[r] EXCEPT !.pc = "reserve", !.w = w, !.refs = refs])
    /\ UNCHANGED <<rows, config, mix>>

(* allocate_addresses: ids first .. first + n - 1 are reserved under the   *)
(* row lock.  Variant: the counter is read without it.                     *)
reserve_unlocked(r) ==
    /\ At(r, "reserve")
    /\ Become(r, [req[r] EXCEPT !.pc = "insert", !.first = wallet[req[r].w].next])
    /\ UNCHANGED <<rows, config, mix>>

reserve(r) ==
    /\ At(r, "reserve")
    /\ lock[req[r].w] = Nobody
    /\ lock' = [lock EXCEPT ![req[r].w] = r]
    /\ Become(r, [req[r] EXCEPT !.pc = "insert", !.first = wallet[req[r].w].next])
    /\ UNCHANGED <<wallet, address, idem, expiries, links, config, mix>>

Unlock(r) == [w \in Ids |-> IF lock[w] = r THEN Nobody ELSE lock[w]]
Undo(r) == IF req[r].body # Nobody /\ req[r].key # NoKey THEN Go(r, "release")
           ELSE Finish(r, "failed")

(* The rows are inserted and committed, or a duplicate reference rolls all *)
(* of them back, the counter included.  The reply of a commit may be lost: *)
(* the handler then takes the call for failed.                             *)
insert(r) == \E told \in BOOLEAN :
    /\ At(r, "insert")
    /\ LET w == req[r].w
           n == Len(req[r].refs)
           new(p) == {[w |-> w, muxed |-> req[r].first + i - 1, ref |-> req[r].refs[i],
                       rank |-> p[i]] : i \in 1 .. n}
           free == Ranks \ {a.rank : a \in address}
       IN IF \E i \in 1 .. n : req[r].refs[i] \in RefsOf(w)
          THEN UNCHANGED <<wallet, address>> /\ Undo(r)
          ELSE /\ \E p \in [1 .. n -> free] :
                    /\ \A i, j \in 1 .. n : p[i] = p[j] => i = j
                    /\ address' = address \cup new(p)
               /\ Update(w, [wallet[w] EXCEPT !.next = req[r].first + n])
               /\ IF ~told THEN Undo(r)
                  ELSE IF req[r].body # Nobody THEN Go(r, "link") ELSE Finish(r, "done")
    /\ lock' = Unlock(r)
    /\ UNCHANGED <<idem, expiries, links, config, mix>>

(***************************************************************************)
(* list_addresses, called page after page: newest first, the row a page    *)
(* ended with starts the next one.                                         *)
(***************************************************************************)
Newest(S, n) == {a \in S : Cardinality({b \in S : b.rank > a.rank}) < n}
Below(w, c) == {a \in address : a.w = w /\ (c # 0 => a.rank < c)}
PageEnd(S) == Min({a.rank : a \in S})

(* Variant: the next page is found by counting rows.                       *)
page_by_offset(r) ==
    LET all == {a \in address : a.w = req[r].w}
    IN Newest(all, Cardinality(req[r].seen) + PageSize) \ Newest(all, Cardinality(req[r].seen))

page(r) == Newest(Below(req[r].w, req[r].cursor), PageSize)
has_more(r) == Cardinality(Below(req[r].w, req[r].cursor)) > PageSize

list_addresses(r) ==
    /\ Starts(r, "list")
    /\ \E w \in Busy : /\ wallet[w].exists
                      /\ Become(r, [req[r] EXCEPT !.pc = "page", !.w = w,
                                            !.due = {a.muxed : a \in {b \in address : b.w = w}}])
    /\ UNCHANGED <<rows, config, mix>>

next_page(r) ==
    /\ At(r, "page")
    /\ LET ids == {a.muxed : a \in page(r)}
       IN Become(r, [req[r] EXCEPT !.seen = @ \cup ids,
                             !.twice = @ \/ req[r].seen \cap ids # {},
                             !.cursor = IF page(r) = {} THEN @ ELSE PageEnd(page(r)),
                             !.pc = IF has_more(r) THEN "page" ELSE "listed"])
    /\ UNCHANGED <<rows, config, mix>>

(***************************************************************************)
(* create_payment_link with its Idempotency-Key: the key is claimed, the   *)
(* link created (its address is allocated above), the response stored; a   *)
(* creation that fails releases the key.                                   *)
(***************************************************************************)
KeyOf(r) == <<req[r].w, req[r].key>>
NewClaim(b) == [body |-> b, link |-> Nobody, stale |-> FALSE]

create_payment_link(r) ==
    /\ Starts(r, "link")
    /\ \E w \in Busy, k \in Keys \cup {NoKey}, b \in Bodies :
         /\ wallet[w].exists
         /\ Become(r, [req[r] EXCEPT !.pc = IF k = NoKey THEN "create" ELSE "claim",
                               !.w = w, !.key = k, !.body = b, !.refs = <<NoRef>>])
    /\ UNCHANGED <<rows, config, mix>>

(* One statement claims a key that is free or has expired.                 *)
claim_idempotency_key(r) ==
    /\ At(r, "claim")
    /\ LET k == KeyOf(r)
       IN IF idem[k] = Nobody \/ idem[k].stale
          THEN idem' = [idem EXCEPT ![k] = NewClaim(req[r].body)] /\ Go(r, "create")
          ELSE UNCHANGED idem /\ Go(r, "peek")
    /\ UNCHANGED <<wallet, lock, address, expiries, links, config, mix>>

(* The second statement reads the row that was in the way, as it is now.   *)
peek(r) ==
    /\ At(r, "peek")
    /\ LET row == idem[KeyOf(r)]
       IN IF row # Nobody /\ row.body = req[r].body /\ row.link # Nobody
          THEN Become(r, [req[r] EXCEPT !.pc = "replayed", !.got = row.link])
          ELSE Finish(r, "failed")
    /\ UNCHANGED <<rows, config, mix>>

(* create_link: the body is validated and the wallet read.                 *)
create_link(r) ==
    /\ At(r, "create")
    /\ Go(r, "reserve")
    /\ UNCHANGED <<rows, config, mix>>

(* The link is there also when the reply is lost; the handler releases the *)
(* key as if it were not.                                                  *)
insert_link(r) == \E told \in BOOLEAN :
    /\ At(r, "link")
    /\ links' = links \cup {[by |-> r, w |-> req[r].w, key |-> req[r].key, body |-> req[r].body,
                             term |-> expiries, told |-> told]}
    /\ IF ~told THEN Undo(r)
       ELSE IF req[r].key # NoKey THEN Go(r, "complete") ELSE Finish(r, "done")
    /\ UNCHANGED <<wallet, lock, address, idem, expiries, config, mix>>

Unanswered(k) == idem[k] # Nobody /\ idem[k].link = Nobody

complete_idempotency_key(r) ==
    /\ At(r, "complete")
    /\ idem' = IF Unanswered(KeyOf(r)) THEN [idem EXCEPT ![KeyOf(r)].link = r] ELSE idem
    /\ Finish(r, "done")
    /\ UNCHANGED <<wallet, lock, address, expiries, links, config, mix>>

release_idempotency_key(r) ==
    /\ At(r, "release")
    /\ idem' = IF Unanswered(KeyOf(r)) THEN [idem EXCEPT ![KeyOf(r)] = Nobody] ELSE idem
    /\ Finish(r, "failed")
    /\ UNCHANGED <<wallet, lock, address, expiries, links, config, mix>>

(* A call of the store fails and its transaction is rolled back.  Nothing  *)
(* is retried; an error of complete or release is only logged.  A lost     *)
(* reply matters in insert and insert_link alone: after any other call the *)
(* request ends as if it had died.                                         *)
(* Variant: the key is also released when the response cannot be stored.   *)
fail_releases(r) ==
    /\ r \in Open
    /\ IF req[r].pc \in {"create", "reserve", "insert", "link", "complete"} THEN Undo(r)
       ELSE Finish(r, "failed")
    /\ lock' = Unlock(r)
    /\ UNCHANGED <<wallet, address, idem, expiries, links, config, mix>>

fail(r) ==
    /\ r \in Open
    /\ IF req[r].pc \in {"create", "reserve", "insert", "link"} THEN Undo(r)
       ELSE Finish(r, "failed")
    /\ lock' = Unlock(r)
    /\ UNCHANGED <<wallet, address, idem, expiries, links, config, mix>>

(* The process ends, or the client goes away and the handler is dropped.   *)
die(r) ==
    /\ r \in Open
    /\ Finish(r, "dead")
    /\ lock' = Unlock(r)
    /\ UNCHANGED <<wallet, address, idem, expiries, links, config, mix>>

(* Twenty-four hours pass: every statement is cut off after 30 seconds, so *)
(* no request outlives its key.                                            *)
expire(k) ==
    /\ expiries < MaxExpiries
    /\ idem[k] # Nobody /\ ~idem[k].stale
    /\ \A r \in Open : KeyOf(r) # k
    /\ idem' = [idem EXCEPT ![k].stale = TRUE]
    /\ expiries' = expiries + 1
    /\ UNCHANGED <<wallet, lock, address, links, config, mix, req>>

purge_expired_idempotency_keys ==
    /\ \E k \in Busy \X Keys : idem[k] # Nobody /\ idem[k].stale
    /\ idem' = [k \in Busy \X Keys |-> IF idem[k] # Nobody /\ idem[k].stale THEN Nobody ELSE idem[k]]
    /\ UNCHANGED <<wallet, lock, address, expiries, links, config, mix, req>>

Step(r) ==
    \/ create_wallet(r) \/ archive_wallet(r) \/ set_ingest_paused(r)
    \/ create_gas_tank(r) \/ lock_gas_tank_provision(r) \/ set_gas_tank(r)
    \/ create_address(r) \/ create_addresses_batch(r) \/ reserve(r) \/ insert(r)
    \/ list_addresses(r) \/ next_page(r)
    \/ create_payment_link(r) \/ claim_idempotency_key(r) \/ peek(r) \/ create_link(r)
    \/ insert_link(r) \/ complete_idempotency_key(r) \/ release_idempotency_key(r)
    \/ fail(r) \/ die(r)

Serve ==
    \/ \E r \in Requests : Step(r)
    \/ \E k \in Busy \X Keys : expire(k)
    \/ purge_expired_idempotency_keys

(***************************************************************************)
(* Properties.                                                             *)
(***************************************************************************)
(* Concurrent allocations, batches and payment links never hand out one    *)
(* muxed id or one customer_ref twice in a wallet, and no id the counter   *)
(* has still to give (allocate_addresses).                                 *)
AddressesDistinct ==
    \A a, b \in address :
        /\ a.muxed < wallet[a.w].next
        /\ a.w = b.w /\ (a.muxed = b.muxed \/ (a.ref = b.ref /\ a.ref # NoRef)) => a = b

(* Until an Idempotency-Key expires, the requests that carry it create at  *)
(* most one payment link whose insert is answered, whatever fails or dies  *)
(* on the way.  A second link under the key takes a lost reply: the key is *)
(* then released although the link was created.                            *)
OneLinkPerKey ==
    \A l, m \in links :
        l.w = m.w /\ l.key = m.key /\ l.key # NoKey /\ l.term = m.term /\ l.told /\ m.told => l = m

(* A replayed response is that of the answered link that the same key and  *)
(* body created, never of one whose reply was lost.                        *)
ReplayIsTheLink ==
    \A r \in Requests :
        At(r, "replayed") =>
            \E l \in links : /\ l.by = req[r].got /\ l.told
                              /\ l.w = req[r].w /\ l.key = req[r].key /\ l.body = req[r].body

(* However requests to provision a tank interleave, with each other and    *)
(* with the rotation of the master key, the row's sealed seed is that of   *)
(* the gas-tank account the row names, and a keypair is generated for one  *)
(* request at a time and only while there is none (create_gas_tank).       *)
OneTank ==
    /\ \A w \in Ids : wallet[w].tank # Nobody => wallet[w].seal.seed = wallet[w].tank
    /\ \A r, q \in Requests :
         At(r, "tank_set") =>
             /\ wallet[req[r].w].tank = Nobody
             /\ (At(q, "tank_set") /\ req[q].w = req[r].w) => q = r

(* A client that follows next_cursor to the end sees every address that    *)
(* existed when it began, and none twice, however many are created         *)
(* meanwhile and wherever they sort.                                       *)
WalkSeesAll ==
    \A r \in Requests : ~req[r].twice /\ (At(r, "listed") => req[r].due \subseteq req[r].seen)

(* What a wallet gives out once is given to one request: a muxed id, a     *)
(* customer_ref, its gas tank.                                             *)
GivenOnce == AddressesDistinct /\ OneTank

(* One Idempotency-Key stands for one answered payment link, which is what *)
(* its replays answer (claim, complete and release of the key).            *)
KeyMakesOneLink == OneLinkPerKey /\ ReplayIsTheLink

(***************************************************************************)
(* What the requests and the rows agree on: the inductive invariant.       *)
(***************************************************************************)
Stages == Ended \cup {"tank_lock", "tank_set", "reserve", "insert", "page", "claim", "peek",
                      "create", "link", "complete", "release"}
Owners == Requests \cup {Own, Nobody}

WalletRows == [exists : BOOLEAN, archived : BOOLEAN, paused : BOOLEAN, next : Nat,
               tank : Requests \cup {Nobody},
               seal : [key : Nat, scheme : 0 .. 2, bound : Owners, seed : Owners]]
AddressRows == [w : Ids, muxed : Nat, ref : Refs \cup {NoRef}, rank : Ranks]
ClaimRows == [body : Bodies, link : Requests \cup {Nobody}, stale : BOOLEAN]
LinkRows == [by : Requests, w : Busy, key : Keys \cup {NoKey}, body : Bodies, term : Nat,
             told : BOOLEAN]
Progress == [pc : Stages, w : Busy \cup {Nobody}, refs : Seq(Refs \cup {NoRef}),
             key : Keys \cup {NoKey}, body : Bodies \cup {Nobody}, first : Nat, sealer : Nat,
             got : Requests \cup {Nobody}, cursor : Nat, seen : SUBSET Nat, due : SUBSET Nat,
             twice : BOOLEAN]

TypeOK ==
    /\ wallet \in [Ids -> WalletRows]
    /\ lock \in [Ids -> Requests \cup {Nobody}]
    /\ address \subseteq AddressRows
    /\ idem \in [Busy \X Keys -> {Nobody} \cup ClaimRows]
    /\ expiries \in Nat
    /\ links \subseteq LinkRows
    /\ config \in [key : Nat, next : Nat]
    /\ req \in [Requests -> Progress]

(* A request that has not started has done nothing; the others are about a *)
(* wallet, and have a body if they make a link.                            *)
StageOK(x) ==
    /\ x.pc = "unstarted" => x = Unstarted
    /\ x.pc \notin Ended => x.w \in Busy
    /\ x.pc \in {"claim", "peek", "complete", "release"} => x.key # NoKey
    /\ x.key # NoKey \/ x.pc \in {"claim", "create", "link"} => x.body # Nobody
    /\ Distinct(x.refs)

(* A row lock is held by a request in its transaction, and what that has   *)
(* read of the row is still so.                                            *)
InTransaction(x) == x.pc \in {"insert", "tank_set"}
Locked(r, x) ==
    /\ InTransaction(x) => lock[x.w] = r
    /\ x.pc = "insert" => x.first = wallet[x.w].next
    /\ x.pc = "tank_set" => wallet[x.w].tank = Nobody
LocksHeld == \A w \in Ids : lock[w] # Nobody => InTransaction(req[lock[w]]) /\ req[lock[w]].w = w

(* A key that is free or has expired has made no answered link in its      *)
(* present term; the request that claimed it alone may make one.           *)
IsFor(l, k) == <<l.w, l.key>> = k
NoLinkYet(k) == \A l \in links : IsFor(l, k) /\ l.told => l.term # expiries
Linked(by, k, b) == \E l \in links : l.by = by /\ l.told /\ IsFor(l, k) /\ l.body = b
Vacant(k) == idem[k] = Nobody \/ idem[k].stale
IdemOK(k) ==
    /\ Vacant(k) => NoLinkYet(k)
    /\ idem[k] # Nobody /\ idem[k].link # Nobody => Linked(idem[k].link, k, idem[k].body)

HasKey(x) == <<x.w, x.key>>
Claims(x) == x.key # NoKey /\ x.pc \in {"create", "reserve", "insert", "link", "complete", "release"}
Claimed(r, x) ==
    /\ Claims(x) => /\ ~Vacant(HasKey(x)) /\ idem[HasKey(x)].link = Nobody
                    /\ idem[HasKey(x)].body = x.body
                    /\ x.pc # "complete" => NoLinkYet(HasKey(x))
    /\ x.pc = "complete" => Linked(r, HasKey(x), x.body)
    /\ x.pc = "replayed" => Linked(x.got, HasKey(x), x.body)
ClaimedOnce ==
    \A r, q \in Requests : Claims(req[r]) /\ Claims(req[q]) /\ HasKey(req[r]) = HasKey(req[q]) => r = q

(* A walk has seen rows at or above its cursor only; what is due and not   *)
(* yet seen is below.                                                      *)
Walk(x) ==
    /\ ~x.twice
    /\ x.pc = "listed" => x.due \subseteq x.seen
    /\ x.pc = "page" =>
         /\ \A i \in x.seen : \E a \in address \ Below(x.w, x.cursor) : a.w = x.w /\ a.muxed = i
         /\ \A i \in x.due \ x.seen : \E a \in Below(x.w, x.cursor) : a.muxed = i

RanksDistinct == \A a, b \in address : a.rank = b.rank => a = b
TankSeeds == \A w \in Ids : wallet[w].tank # Nobody => wallet[w].seal.seed = wallet[w].tank

StagesOK == \A r \in Requests : StageOK(req[r])
LocksOK == LocksHeld /\ \A r \in Requests : Locked(r, req[r])
KeysOK ==
    /\ OneLinkPerKey
    /\ \A l \in links : l.term <= expiries
    /\ \A k \in Busy \X Keys : IdemOK(k)
    /\ ClaimedOnce
    /\ \A r \in Requests : Claimed(r, req[r])
WalksOK == \A r \in Requests : Walk(req[r])

WalletsInv ==
    /\ TypeOK /\ StagesOK /\ LocksOK /\ AddressesDistinct /\ RanksDistinct /\ KeysOK /\ WalksOK
    /\ TankSeeds
=============================================================================
