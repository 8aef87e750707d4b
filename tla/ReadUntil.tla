----------------------------- MODULE ReadUntil -----------------------------
(***************************************************************************)
(* The loop of read_listener and what it calls: asio's read_until, its     *)
(* partial_search and the streambuf it reads into.  The bytes of the peer  *)
(* come in pieces that anybody's socket chooses; the delimiter may be cut, *)
(* and a piece may hold the beginning of one that is none.                 *)
(*                                                                         *)
(* read_listener gives each call a new streambuf, so that nothing is ever  *)
(* consumed and then read on from the same one.                            *)
(***************************************************************************)
EXTENDS Naturals, Sequences

CONSTANTS
    Byte,
    Delimiter,
    Streams,   \* what the peer may write in all
    MaxSize,   \* max_size_ of the streambuf; the program leaves it unlimited
    Delta,     \* buffer_delta, 128
    MinRead,   \* the least read_until asks for, 512
    MaxRead    \* the most, 65536

ASSUME ReadUntilAssumption ==
    /\ Delimiter \in Seq(Byte) /\ Delimiter # <<>>
    /\ Streams \subseteq Seq(Byte)
    /\ {MaxSize, Delta, MinRead, MaxRead} \subseteq Nat \ {0}

VARIABLES
    incoming,  \* bytes of the peer that the socket has not handed over
    data,      \* input sequence of the streambuf
    putEnd,    \* epptr of the streambuf, as an offset
    capacity,  \* capacity of its vector
    search,    \* search_position
    pc,        \* where the reader is in read_until
    frames     \* history: the messages that were parsed

buffer == <<data, putEnd, capacity>>
vars == <<incoming, buffer, search, pc, frames>>

Least(m, n) == IF m <= n THEN m ELSE n
Greatest(m, n) == IF m <= n THEN n ELSE m

-----------------------------------------------------------------------------
(* partial_search                                                          *)

\* The bytes of s behind p are those of the delimiter, up to the end of either.
MayMatch(s, p) ==
    \A i \in 1 .. Len(Delimiter) : p + i <= Len(s) => s[p + i] = Delimiter[i]

\* The first place from which on s may match, or the end of s.
FirstMayMatch(s, from) ==
    LET places == {p \in from .. (Len(s) - 1) : MayMatch(s, p)}
    IN IF places = {} THEN Len(s) ELSE CHOOSE p \in places : \A q \in places : p <= q

\* Mutant: a partial match at the end is not remembered.
PartialSearchForgetting(s, from) ==
    LET p == FirstMayMatch(s, from)
        full == p < Len(s) /\ p + Len(Delimiter) <= Len(s)
    IN [place |-> IF full THEN p ELSE Len(s), full |-> full]

PartialSearch(s, from) ==
    LET p == FirstMayMatch(s, from)
    IN [place |-> p, full |-> p < Len(s) /\ p + Len(Delimiter) <= Len(s)]

-----------------------------------------------------------------------------

Pcs == {"search", "read", "found", "stopped"}

TypeOK ==
    /\ incoming \in Seq(Byte)
    /\ data \in Seq(Byte)
    /\ putEnd \in Nat /\ capacity \in Nat
    /\ search \in 0 .. Len(data)
    /\ pc \in Pcs
    /\ frames \in Seq(Seq(Byte))

\* A new streambuf.
NewPutEnd == Least(MaxSize, Delta)

Init ==
    /\ incoming \in Streams
    /\ data = <<>>
    /\ putEnd = NewPutEnd
    /\ capacity = NewPutEnd
    /\ search = 0
    /\ pc = "search"
    /\ frames = <<>>

\* Mutant: the search goes on one byte behind the end.
SearchPast ==
    /\ pc = "search"
    /\ search' = PartialSearch(data, search).place + 1
    /\ pc' = IF PartialSearch(data, search).full THEN "found"
             ELSE IF Len(data) = MaxSize THEN "stopped"
             ELSE "read"
    /\ UNCHANGED <<incoming, buffer, frames>>

\* The search, and the tests that follow it.  A full buffer without a delimiter is an
\* error like any other: read_listener breaks out of its loop.
Search ==
    /\ pc = "search"
    /\ search' = PartialSearch(data, search).place
    /\ pc' = IF PartialSearch(data, search).full THEN "found"
             ELSE IF Len(data) = MaxSize THEN "stopped"
             ELSE "read"
    /\ UNCHANGED <<incoming, buffer, frames>>

\* Mutant: the rest of the capacity is asked for, however small.
BytesToReadWithoutMin ==
    Least(capacity - Len(data), Least(MaxRead, MaxSize - Len(data)))

\* Mutant: the maximal size is compared with, but not the size subtracted.
BytesToReadBeyond ==
    Least(Greatest(MinRead, capacity - Len(data)), Least(MaxRead, MaxSize))

BytesToRead ==
    Least(Greatest(MinRead, capacity - Len(data)), Least(MaxRead, MaxSize - Len(data)))

\* prepare(n): the put area grows if it is too small; how far the vector's capacity
\* grows with it is the library's choice, up to twice of what it was.
Prepare(n) ==
    /\ putEnd' = Greatest(putEnd, Len(data) + n)
    /\ IF putEnd' <= capacity THEN UNCHANGED capacity
       ELSE capacity' \in putEnd' .. Greatest(putEnd', 2 * capacity)

\* read_some returns what is there, up to what was asked for, and commit takes it over.
ReadSome ==
    /\ pc = "read"
    /\ \E n \in 1 .. Least(BytesToRead, Len(incoming)) :
          /\ data' = data \o SubSeq(incoming, 1, n)
          /\ incoming' = SubSeq(incoming, n + 1, Len(incoming))
    /\ Prepare(BytesToRead)
    /\ pc' = "search"
    /\ UNCHANGED <<search, frames>>

\* read_some sets ec: the connection was closed here or there.
ReadFails ==
    /\ pc = "read"
    /\ pc' = "stopped"
    /\ UNCHANGED <<incoming, buffer, search, frames>>

\* Mutant: the message is cut off with the delimiter's first byte left in it.
ReturnLong ==
    /\ pc = "found"
    /\ frames' = Append(frames, SubSeq(data, 1, search + 1))
    /\ data' = <<>>
    /\ putEnd' = NewPutEnd
    /\ capacity' = NewPutEnd
    /\ search' = 0
    /\ pc' = "search"
    /\ UNCHANGED incoming

\* read_until returns, the message is what precedes the delimiter, and the buffer goes
\* out of scope with what it holds beyond; the next round begins with a new one.
Return ==
    /\ pc = "found"
    /\ frames' = Append(frames, SubSeq(data, 1, search))
    /\ data' = <<>>
    /\ putEnd' = NewPutEnd
    /\ capacity' = NewPutEnd
    /\ search' = 0
    /\ pc' = "search"
    /\ UNCHANGED incoming

Next == Search \/ ReadSome \/ ReadFails \/ Return

Spec == Init /\ [][Next]_vars

\* The reader's thread is run, and the socket hands over what has arrived.
Fairness == WF_vars(Search) /\ WF_vars(ReadSome) /\ WF_vars(Return)

FairSpec == Spec /\ Fairness

-----------------------------------------------------------------------------
(* Properties                                                              *)

F == INSTANCE Frames WITH pending <- data \o incoming

\* However the bytes arrive, what read_until finds is the first delimiter of all that
\* the peer has written, in this piece or in those to come: a delimiter that is cut,
\* or that begins within a false beginning, is not missed.
FoundIsFirst == pc = "found" => F!FirstDelimiterAt(data \o incoming, search)

\* The loop of read_listener takes the messages as Frames says, whatever the network
\* and the streambuf do in between.
ImplementsFrames == F!Spec

\* read_some never gets more room than the streambuf has: prepare does not throw
\* length_error, which nobody would catch, and what is committed fits.
BufferFits ==
    /\ Len(data) <= putEnd /\ putEnd <= MaxSize /\ putEnd <= capacity
    /\ pc = "read" => Len(data) + BytesToRead <= MaxSize

\* A message whose delimiter has been written is returned, unless the connection or the
\* buffer ends: read_until never waits for bytes it does not need, or asks for none.
ReturnsOnceDelimited ==
    (\E p \in 0 .. Len(data \o incoming) : F!DelimiterAt(data \o incoming, p))
        ~> pc \in {"found", "stopped"}

=============================================================================
