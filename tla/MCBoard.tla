------------------------------ MODULE MCBoard ------------------------------
(* Mouse columns for TLC.                                                   *)
EXTENDS Board

MouseColumns == {-3, 0, 4, 5, 38, 39, 40, 79, 80, 81, 95}

=============================================================================
