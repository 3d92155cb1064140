----------------------------- MODULE MCWallets -----------------------------
(***************************************************************************)
(* Requests meet in small mixes: links with idempotency keys, allocations  *)
(* and listings of addresses, and gas tanks during the rotation of the     *)
(* master key.  Runs of the tool differ in name alone, and so do bodies.   *)
(***************************************************************************)
EXTENDS KeyRotation, TLC

MCIds == 1 .. 4
MCServerCustody == {1, 2}
MCRegistered == {1, 2, 3}
MCMixes == {<<"link", "link", "link">>,
            <<"batch", "address", "list">>, <<"batch", "list", "batch">>, <<"list", "batch", "link">>,
            <<"tank", "tank", "address">>, <<"batch", "archive", "pause">>, <<"create", "create">>,
            <<"tank", "tank", "rotate">>, <<"tank", "rotate", "upgrade">>}
MCBusy == {3}
MCRanks == 1 .. 3
MCSymmetry == Permutations(Runs) \cup Permutations(Bodies)
=============================================================================
