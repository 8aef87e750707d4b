---------------------------- MODULE MCReadUntil ----------------------------
(* The delimiter of the program, and all short streams over its bytes and   *)
(* another one.                                                             *)
EXTENDS ReadUntil, SequencesExt

MCByte == {"n", "r", "x"}
EndOfMessage == <<"n", "r", "r">>
ShortStreams == BoundedSeq(MCByte, 7)

=============================================================================
