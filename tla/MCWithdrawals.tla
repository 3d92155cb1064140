--------------------------- MODULE MCWithdrawals ---------------------------
(* An instance of Withdrawals for TLC. *)
EXTENDS Withdrawals

CONSTANT t2

VARIABLE failing    \* the transactions whose pending write always fails

MCInit == Init /\ failing \in {{}, {t2}}

MCNext ==
    /\ Next
    /\ unlogged' = unlogged \/ unlogged' = failing
    /\ \A t \in failing : status'[t] # "pending"
    /\ UNCHANGED failing

MCSpec == MCInit /\ [][MCNext]_<<vars, failing>> /\ Fairness
=============================================================================
