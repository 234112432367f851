---------------------------- MODULE MCCsContext -----------------------------
(* Instances of CsContext for TLC. *)
EXTENDS CsContext

CONSTANTS c1, q1

\* Neighbours in a list, and requests in a later bucket.
Buckets == [r \in Requests |-> IF r \in {c1, q1} THEN 0 ELSE 1]

=============================================================================
