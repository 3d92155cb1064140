--------------------------- MODULE MCSponsorship ---------------------------
(* An instance of Sponsorship for TLC. *)
EXTENDS Sponsorship

CONSTANTS w1, w2, t1, t2

\* The budget of 2 covers either fee, not both.
FeeMC == [t \in Txs |-> IF t = t1 THEN 1 ELSE 2]
InnerSeqMC == [t \in Txs |-> 1]

\* What is asked for: both transactions through one wallet, around midnight, or one
\* transaction through both wallets, which then also send transactions of their own.
VARIABLE asked

MCInit ==
    /\ Init
    /\ asked \in {{<<w1, t1>>, <<w1, t2>>}, {<<w1, t1>>, <<w2, t1>>}}
    /\ <<w2, t1>> \notin asked => budget[w2] = Off

MCNext ==
    /\ Next
    /\ \A s \in Servers : server'[s].wallet # Free => <<server'[s].wallet, server'[s].tx>> \in asked
    /\ IF <<w2, t1>> \in asked THEN UNCHANGED day
       ELSE budget'[w2] = Off /\ UNCHANGED walletSeq
    /\ UNCHANGED asked

MCSpec == MCInit /\ [][MCNext]_<<vars, asked>> /\ Fairness
=============================================================================
