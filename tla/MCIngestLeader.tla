--------------------------- MODULE MCIngestLeader ---------------------------
(* Instances of IngestLeader for TLC. *)
EXTENDS IngestLeader
=============================================================================
