--------------------------- MODULE MCTieredSeries ---------------------------
(* Small instances of TieredSeries for TLC. *)
EXTENDS TieredSeries

CONSTANT w1

OneWriter == {w1}
TwoTiers == <<[every |-> 2, keep |-> 2], [every |-> 4, keep |-> 1]>>
=============================================================================
