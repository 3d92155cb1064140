--------------------------- MODULE MCPaymentLinks ---------------------------
(* Instances of PaymentLinks for TLC. *)
EXTENDS PaymentLinks

CONSTANTS i1, d1, d2

\* A small deposit for the first intent, a large one for the link's own address, and
\* one in another asset.
TransferMC ==
    [d \in Deposits |->
        IF d = d1 THEN [address |-> i1, amount |-> 1, usdc |-> TRUE]
        ELSE IF d = d2 THEN [address |-> LinkAddress, amount |-> 2, usdc |-> TRUE]
        ELSE [address |-> LinkAddress, amount |-> 1, usdc |-> FALSE]]
=============================================================================
