---------------------------- MODULE MCOmgtNotice ----------------------------
(* OmgtNotice for TLC. *)
EXTENDS OmgtNotice

\* At most two requests and answers are on their way at once.
FewInFlight == Cardinality(requests \cup answers) <= 2

=============================================================================
