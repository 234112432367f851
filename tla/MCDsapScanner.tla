--------------------------- MODULE MCDsapScanner ---------------------------
(* Instances of DsapScanner for TLC. *)
EXTENDS DsapScanner

CONSTANTS D1, D2

=============================================================================
