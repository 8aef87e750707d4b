------------------------------- MODULE Frames -------------------------------
(***************************************************************************)
(* What read_listener may rely on when it takes messages off the stream:   *)
(* each time the bytes up to the first delimiter, wherever the network cut *)
(* the stream into pieces, and then an unknown number of bytes vanishes.   *)
(***************************************************************************)
EXTENDS Naturals, Sequences

CONSTANTS
    Byte,       \* the bytes
    Delimiter   \* end_of_message, not empty

VARIABLES
    pending,    \* the bytes written by the peer that no read has returned or dropped
    frames      \* what the reads returned, without their delimiters

\* The delimiter stands behind the first p bytes of s.
DelimiterAt(s, p) ==
    /\ p + Len(Delimiter) <= Len(s)
    /\ \A i \in 1 .. Len(Delimiter) : s[p + i] = Delimiter[i]

FirstDelimiterAt(s, p) ==
    DelimiterAt(s, p) /\ \A q \in 0 .. (p - 1) : ~DelimiterAt(s, q)

Init == pending \in Seq(Byte) /\ frames = <<>>

\* One read: the first frame, and n bytes that are gone.
Take ==
    \E p \in 0 .. Len(pending) : \E n \in (p + Len(Delimiter)) .. Len(pending) :
        /\ FirstDelimiterAt(pending, p)
        /\ frames' = Append(frames, SubSeq(pending, 1, p))
        /\ pending' = SubSeq(pending, n + 1, Len(pending))

Spec == Init /\ [][Take]_<<pending, frames>>

=============================================================================
