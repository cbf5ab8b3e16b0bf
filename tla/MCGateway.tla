----------------------------- MODULE MCGateway -----------------------------
(* Small instances of Gateway for TLC.                                      *)
EXTENDS Gateway

CONSTANTS q1, q2

\* The keys t1 and t2 share their lookup prefix, with each other and with a
\* made-up key.
MCPrefix == [t \in WellFormed |-> "ab"]

=============================================================================
