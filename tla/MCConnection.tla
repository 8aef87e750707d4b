---------------------------- MODULE MCConnection ----------------------------
(* Small instances of Connection for TLC.                                   *)
EXTENDS Connection

\* Only the host sends: the two directions have nothing but the phases in common.
HostCalls == [e \in Ends |-> IF e = "host" THEN 3 ELSE 0]

\* One message has two elements, so that it can be cut between them.
Sizes == [m \in 1 .. 3 |-> IF m = 1 THEN 2 ELSE 1]

=============================================================================
