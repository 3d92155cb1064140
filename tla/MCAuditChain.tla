---------------------------- MODULE MCAuditChain ----------------------------
(* Two writers, one row of before the chain, and two changes from outside. *)
EXTENDS AuditChain

CONSTANTS w1, w2, nobody, nohead

MCWriters == {w1, w2}
MCLegacy == << [action |-> "login", pii |-> TRUE] >>
=============================================================================
