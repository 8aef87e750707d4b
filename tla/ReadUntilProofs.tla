-------------------------- MODULE ReadUntilProofs --------------------------
(* Theorems about ReadUntil, for any delimiter, any stream and any sizes.   *)
EXTENDS ReadUntil, WellFoundedInduction, SequenceTheorems, TLAPS

AllBytes == data \o incoming

SearchInv ==
    /\ \A p \in 0 .. (search - 1) : ~F!DelimiterAt(AllBytes, p)
    /\ pc = "found" => /\ F!DelimiterAt(AllBytes, search)
                       /\ search + Len(Delimiter) <= Len(data)

IInv == TypeOK /\ SearchInv /\ BufferFits

-----------------------------------------------------------------------------
(* The search                                                              *)

LEMMA SmallestNat ==
    ASSUME NEW T, T \subseteq Nat, T # {}
    PROVE  \E x \in T : \A y \in T : x <= y
<1> DEFINE R == OpToRel(<, Nat)
<1>1. \A x, y \in Nat : y < x => <<y, x>> \in R
  <2>1. R = {ss \in Nat \X Nat : ss[1] < ss[2]}
    BY DEF OpToRel
  <2> QED
    BY <2>1
<1>2. IsWellFoundedOn(R, Nat)
  BY NatLessThanWellFounded
<1> HIDE DEF R
<1>3. PICK x \in T : \A y \in T : ~(<<y, x>> \in R)
  BY <1>2, WFMin
<1>4. ASSUME NEW y \in T PROVE x <= y
  <2>1. x \in Nat /\ y \in Nat /\ ~(y < x)
    BY <1>1, <1>3
  <2> QED
    BY <2>1
<1> QED
  BY <1>4

\* FirstMayMatch returns a place that may match, and leaves none out, or the end.
LEMMA FirstMayMatchFinds ==
    ASSUME NEW s \in Seq(Byte), NEW from \in 0 .. Len(s)
    PROVE  /\ FirstMayMatch(s, from) \in from .. Len(s)
           /\ \A q \in from .. (FirstMayMatch(s, from) - 1) : ~MayMatch(s, q)
           /\ FirstMayMatch(s, from) < Len(s) => MayMatch(s, FirstMayMatch(s, from))
<1> DEFINE places == {p \in from .. (Len(s) - 1) : MayMatch(s, p)}
<1>1. CASE places = {}
  <2>1. FirstMayMatch(s, from) = Len(s)
    BY <1>1 DEF FirstMayMatch
  <2> QED
    BY <1>1, <2>1
<1>2. CASE places # {}
  <2> DEFINE first == CHOOSE p \in places : \A q \in places : p <= q
  <2>1. FirstMayMatch(s, from) = first
    BY <1>2 DEF FirstMayMatch
  <2>2. places \subseteq Nat
    OBVIOUS
  <2>3. \E p \in places : \A q \in places : p <= q
    BY ONLY <1>2, <2>2, SmallestNat
  <2>4. first \in places /\ \A q \in places : first <= q
    BY ONLY <2>3
  <2> HIDE DEF first
  <2>5. first \in from .. (Len(s) - 1) /\ MayMatch(s, first)
    BY <2>4
  <2>6. \A q \in from .. (first - 1) : ~MayMatch(s, q)
    BY <2>4, <2>5
  <2> QED
    BY <2>1, <2>5, <2>6
<1> QED
  BY <1>1, <1>2

\* Where a part of the stream cannot match, the stream has no delimiter.
LEMMA NoMatchNoDelimiter ==
    ASSUME NEW s \in Seq(Byte), NEW t \in Seq(Byte), NEW p \in 0 .. (Len(s) - 1),
           ~MayMatch(s, p)
    PROVE  ~F!DelimiterAt(s \o t, p)
<1>1. PICK i \in 1 .. Len(Delimiter) : p + i <= Len(s) /\ s[p + i] # Delimiter[i]
  BY DEF MayMatch
<1>2. (s \o t)[p + i] = s[p + i]
  BY <1>1, ReadUntilAssumption
<1> QED
  BY <1>1, <1>2 DEF F!DelimiterAt

\* A full match is a delimiter of the whole stream.
LEMMA FullMatchIsDelimiter ==
    ASSUME NEW s \in Seq(Byte), NEW t \in Seq(Byte), NEW p \in 0 .. (Len(s) - 1),
           MayMatch(s, p), p + Len(Delimiter) <= Len(s)
    PROVE  F!DelimiterAt(s \o t, p)
<1>1. \A i \in 1 .. Len(Delimiter) : p + i \in 1 .. Len(s) /\ s[p + i] = Delimiter[i]
  BY ReadUntilAssumption DEF MayMatch
<1>2. Len(s) <= Len(s \o t)
  OBVIOUS
<1>3. \A j \in 1 .. Len(s) : (s \o t)[j] = s[j]
  OBVIOUS
<1> QED
  BY <1>1, <1>2, <1>3, ReadUntilAssumption DEF F!DelimiterAt

-----------------------------------------------------------------------------
(* The invariant                                                           *)

LEMMA NewBuffer ==
    NewPutEnd \in Nat /\ NewPutEnd <= MaxSize
BY ReadUntilAssumption DEF NewPutEnd, Least

LEMMA InitInv == Init => IInv
<1> SUFFICES ASSUME Init PROVE IInv
  OBVIOUS
<1>1. incoming \in Seq(Byte)
  BY ReadUntilAssumption DEF Init
<1>2. TypeOK
  BY <1>1, NewBuffer DEF Init, TypeOK, Pcs
<1>3. BufferFits
  BY NewBuffer, ReadUntilAssumption DEF Init, BufferFits
<1>4. SearchInv
  BY DEF Init, SearchInv
<1> QED
  BY <1>2, <1>3, <1>4 DEF IInv

\* What the search leaves behind has no delimiter, and what it stops at as a full match
\* is one.
LEMMA SearchKeepsInv ==
    ASSUME IInv, Search
    PROVE  IInv'
<1> DEFINE place == PartialSearch(data, search).place
<1>1. /\ place = FirstMayMatch(data, search)
      /\ PartialSearch(data, search).full
            = (place < Len(data) /\ place + Len(Delimiter) <= Len(data))
  BY DEF PartialSearch
<1>2. /\ data \in Seq(Byte) /\ incoming \in Seq(Byte) /\ search \in 0 .. Len(data)
      /\ search' = place
      /\ UNCHANGED <<incoming, data, putEnd, capacity, frames>>
  BY DEF IInv, TypeOK, Search, buffer
<1> HIDE DEF place
<1>3. /\ place \in search .. Len(data)
      /\ \A q \in search .. (place - 1) : ~MayMatch(data, q)
      /\ place < Len(data) => MayMatch(data, place)
  BY <1>1, <1>2, FirstMayMatchFinds
<1>4. TypeOK'
  <2>1. pc' \in Pcs
    BY DEF Search, Pcs
  <2>2. search' \in 0 .. Len(data)
    BY <1>2, <1>3
  <2> QED
    BY <1>2, <2>1, <2>2 DEF IInv, TypeOK
<1>5. SearchInv'
  <2>1. ASSUME NEW p \in 0 .. (place - 1)
        PROVE  ~F!DelimiterAt(AllBytes, p)
    <3>1. CASE p < search
      BY <3>1, <1>2 DEF IInv, SearchInv
    <3>2. CASE p >= search
      <4>1. p \in 0 .. (Len(data) - 1) /\ ~MayMatch(data, p)
        BY <3>2, <1>2, <1>3
      <4> QED
        BY <4>1, <1>2, NoMatchNoDelimiter DEF AllBytes
    <3> QED
      BY <3>1, <3>2, <1>2, <1>3
  <2>2. ASSUME pc' = "found"
        PROVE  F!DelimiterAt(AllBytes, place) /\ place + Len(Delimiter) <= Len(data)
    <3>1. place < Len(data) /\ place + Len(Delimiter) <= Len(data)
      BY <2>2, <1>1 DEF Search
    <3>2. place \in 0 .. (Len(data) - 1) /\ MayMatch(data, place)
      BY <3>1, <1>2, <1>3
    <3> QED
      BY <3>1, <3>2, <1>2, FullMatchIsDelimiter DEF AllBytes
  <2>3. AllBytes' = AllBytes
    BY <1>2 DEF AllBytes
  <2> QED
    BY <2>1, <2>2, <2>3, <1>2 DEF SearchInv
<1>6. BufferFits'
  <2>1. Len(data) <= putEnd /\ putEnd <= MaxSize /\ putEnd <= capacity
    BY DEF IInv, BufferFits
  <2>2. Len(data) + BytesToRead <= MaxSize
    BY <2>1, <1>2, ReadUntilAssumption DEF BytesToRead, Least, Greatest, IInv, TypeOK
  <2> QED
    BY <2>1, <2>2, <1>2 DEF BufferFits, BytesToRead
<1> QED
  BY <1>4, <1>5, <1>6 DEF IInv

LEMMA Concat3 ==
    ASSUME NEW a \in Seq(Byte), NEW b \in Seq(Byte), NEW c \in Seq(Byte)
    PROVE  (a \o b) \o c = a \o (b \o c)
<1> DEFINE left == (a \o b) \o c
           right == a \o (b \o c)
<1>1. Len(a) \in Nat /\ Len(b) \in Nat /\ Len(c) \in Nat
  OBVIOUS
<1>2. /\ a \o b \in Seq(Byte) /\ Len(a \o b) = Len(a) + Len(b)
      /\ \A i \in 1 .. Len(a) + Len(b) :
            (a \o b)[i] = IF i <= Len(a) THEN a[i] ELSE b[i - Len(a)]
  BY ConcatProperties
<1>3. /\ b \o c \in Seq(Byte) /\ Len(b \o c) = Len(b) + Len(c)
      /\ \A i \in 1 .. Len(b) + Len(c) :
            (b \o c)[i] = IF i <= Len(b) THEN b[i] ELSE c[i - Len(b)]
  BY ConcatProperties
<1>4. left \in Seq(Byte) /\ right \in Seq(Byte)
  BY <1>2, <1>3
<1>5. Len(left) = Len(a) + Len(b) + Len(c) /\ Len(right) = Len(left)
  BY <1>1, <1>2, <1>3
<1>6. ASSUME NEW i \in 1 .. Len(left) PROVE left[i] = right[i]
  <2>1. left[i] = IF i <= Len(a) + Len(b) THEN (a \o b)[i] ELSE c[i - (Len(a) + Len(b))]
    BY <1>1, <1>2, <1>5
  <2>2. right[i] = IF i <= Len(a) THEN a[i] ELSE (b \o c)[i - Len(a)]
    BY <1>1, <1>3, <1>5
  <2> QED
    BY <2>1, <2>2, <1>1, <1>2, <1>3, <1>5
<1> HIDE DEF left, right
<1>7. left = right
  BY <1>4, <1>5, <1>6, SeqEqual
<1> QED
  BY <1>7 DEF left, right

\* Bytes go from the socket to the buffer; together they stay the same.
LEMMA ReadKeepsBytes ==
    ASSUME TypeOK, ReadSome
    PROVE  /\ AllBytes' = AllBytes
           /\ data' \in Seq(Byte) /\ incoming' \in Seq(Byte)
           /\ Len(data) <= Len(data')
           /\ Len(data') <= Len(data) + BytesToRead
<1>1. PICK n \in 1 .. Least(BytesToRead, Len(incoming)) :
        /\ data' = data \o SubSeq(incoming, 1, n)
        /\ incoming' = SubSeq(incoming, n + 1, Len(incoming))
  BY DEF ReadSome
<1>2. data \in Seq(Byte) /\ incoming \in Seq(Byte)
  BY DEF TypeOK
<1>3. BytesToRead \in Int
  BY ReadUntilAssumption, <1>2 DEF BytesToRead, Least, Greatest, TypeOK
<1>4. n \in Nat /\ n <= Len(incoming) /\ n <= BytesToRead
  BY <1>1, <1>2, <1>3 DEF Least
<1>5. SubSeq(incoming, 1, n) \in Seq(Byte) /\ Len(SubSeq(incoming, 1, n)) = n
  BY <1>2, <1>4
<1>6. SubSeq(incoming, n + 1, Len(incoming)) \in Seq(Byte)
  BY <1>2, <1>4
<1>7. SubSeq(incoming, 1, n) \o SubSeq(incoming, n + 1, Len(incoming)) = incoming
  BY <1>2, <1>4
<1>8. AllBytes' = AllBytes
  <2>1. AllBytes' = (data \o SubSeq(incoming, 1, n)) \o SubSeq(incoming, n + 1, Len(incoming))
    BY <1>1 DEF AllBytes
  <2>2. (data \o SubSeq(incoming, 1, n)) \o SubSeq(incoming, n + 1, Len(incoming))
           = data \o (SubSeq(incoming, 1, n) \o SubSeq(incoming, n + 1, Len(incoming)))
    BY ONLY <1>2, <1>5, <1>6, Concat3, Zenon
  <2> QED
    BY <2>1, <2>2, <1>7 DEF AllBytes
<1>9. data' \in Seq(Byte) /\ Len(data') = Len(data) + n
  BY <1>1, <1>2, <1>5, ConcatProperties
<1>10. Len(data) \in Nat
  BY <1>2
<1> QED
  BY <1>1, <1>3, <1>4, <1>6, <1>8, <1>9, <1>10

LEMMA ReadKeepsInv ==
    ASSUME IInv, ReadSome
    PROVE  IInv'
<1>1. /\ AllBytes' = AllBytes
      /\ data' \in Seq(Byte) /\ incoming' \in Seq(Byte)
      /\ Len(data) <= Len(data') /\ Len(data') <= Len(data) + BytesToRead
  BY ReadKeepsBytes DEF IInv
<1>2. pc' = "search" /\ search' = search /\ frames' = frames
  BY DEF ReadSome
<1>3. data \in Seq(Byte) /\ putEnd \in Nat /\ capacity \in Nat /\ BytesToRead \in Int
  BY ReadUntilAssumption DEF BytesToRead, Least, Greatest, IInv, TypeOK
<1>4. /\ Len(data) <= putEnd /\ putEnd <= MaxSize /\ putEnd <= capacity
      /\ Len(data) + BytesToRead <= MaxSize
  BY DEF IInv, BufferFits, ReadSome
<1>5. /\ putEnd' \in Nat /\ capacity' \in Nat
      /\ Len(data') <= putEnd' /\ putEnd' <= MaxSize /\ putEnd' <= capacity'
  <2>1. Len(data) \in Nat /\ Len(data') \in Nat /\ MaxSize \in Nat
    BY <1>1, <1>3, ReadUntilAssumption
  <2>2. putEnd' = Greatest(putEnd, Len(data) + BytesToRead)
    BY DEF ReadSome, Prepare
  <2>3. /\ putEnd' \in Nat /\ putEnd <= putEnd' /\ putEnd' <= MaxSize
        /\ Len(data) + BytesToRead <= putEnd'
    BY ONLY <2>1, <2>2, <1>3, <1>4 DEF Greatest
  <2>4. CASE putEnd' <= capacity
    <3>1. capacity' = capacity
      BY <2>4 DEF ReadSome, Prepare
    <3> QED
      BY <3>1, <2>1, <2>3, <2>4, <1>1, <1>3
  <2>5. CASE ~(putEnd' <= capacity)
    <3>1. capacity' \in putEnd' .. Greatest(putEnd', 2 * capacity)
      BY <2>5 DEF ReadSome, Prepare
    <3>2. capacity' \in Nat /\ putEnd' <= capacity'
      BY ONLY <3>1, <2>3, <1>3 DEF Greatest
    <3> QED
      BY <3>2, <2>1, <2>3, <1>1, <1>3
  <2> QED
    BY <2>4, <2>5
<1>6. TypeOK'
  BY <1>1, <1>2, <1>5 DEF IInv, TypeOK, Pcs
<1>7. SearchInv'
  BY <1>1, <1>2 DEF IInv, SearchInv
<1>8. BufferFits'
  BY <1>2, <1>5 DEF BufferFits
<1> QED
  BY <1>6, <1>7, <1>8 DEF IInv

LEMMA ReturnKeepsInv ==
    ASSUME IInv, Return
    PROVE  IInv'
<1>1. SubSeq(data, 1, search) \in Seq(Byte)
  BY DEF IInv, TypeOK
<1>2. TypeOK'
  BY <1>1, NewBuffer DEF IInv, TypeOK, Return, Pcs
<1>3. BufferFits'
  BY NewBuffer, ReadUntilAssumption DEF Return, BufferFits
<1>4. SearchInv'
  BY DEF Return, SearchInv
<1> QED
  BY <1>2, <1>3, <1>4 DEF IInv

LEMMA NextInv == IInv /\ [Next]_vars => IInv'
<1> SUFFICES ASSUME IInv, [Next]_vars PROVE IInv'
  OBVIOUS
<1>1. CASE Search
  BY <1>1, SearchKeepsInv
<1>2. CASE ReadSome
  BY <1>2, ReadKeepsInv
<1>3. CASE ReadFails
  <2>1. pc' = "stopped" /\ UNCHANGED <<incoming, data, putEnd, capacity, search, frames>>
    BY <1>3 DEF ReadFails, buffer
  <2> QED
    BY <2>1 DEF IInv, TypeOK, SearchInv, BufferFits, AllBytes, Pcs
<1>4. CASE Return
  BY <1>4, ReturnKeepsInv
<1>5. CASE UNCHANGED vars
  BY <1>5 DEF vars, buffer, IInv, TypeOK, SearchInv, BufferFits, AllBytes, BytesToRead
<1> QED
  BY <1>1, <1>2, <1>3, <1>4, <1>5 DEF Next

\* The invariant of the search: no delimiter of all that was written begins before
\* search_position, and what read_until returns with is one.
THEOREM SearchInvariant == Spec => []IInv
BY InitInv, NextInv, PTL DEF Spec

\* The typing of ReadUntil.
THEOREM ReadUntilTyped == Spec => []TypeOK
<1>1. IInv => TypeOK
  BY DEF IInv
<1> QED
  BY <1>1, SearchInvariant, PTL

\* prepare never throws, and what is committed fits, for any sizes.
THEOREM BufferFitsHolds == Spec => []BufferFits
<1>1. IInv => BufferFits
  BY DEF IInv
<1> QED
  BY <1>1, SearchInvariant, PTL

LEMMA InvFound == IInv => FoundIsFirst
<1> SUFFICES ASSUME IInv, pc = "found" PROVE F!FirstDelimiterAt(data \o incoming, search)
  BY DEF FoundIsFirst
<1> QED
  BY DEF IInv, SearchInv, AllBytes, F!FirstDelimiterAt

\* read_until finds the first delimiter of the stream in whatever pieces it comes.
THEOREM FoundIsFirstHolds == Spec => []FoundIsFirst
BY InvFound, SearchInvariant, PTL

-----------------------------------------------------------------------------
(* The refinement                                                          *)

LEMMA InitImplements == Init => F!Init
<1> SUFFICES ASSUME Init PROVE F!Init
  OBVIOUS
<1>1. incoming \in Seq(Byte) /\ data = <<>> /\ frames = <<>>
  BY ReadUntilAssumption DEF Init
<1> QED
  BY <1>1 DEF F!Init

\* The return of read_until is the step Take: what the buffer holds behind the delimiter
\* are the bytes that are gone.
LEMMA ReturnImplements ==
    ASSUME IInv, Return
    PROVE  F!Take
<1>1. /\ data \in Seq(Byte) /\ incoming \in Seq(Byte) /\ search \in 0 .. Len(data)
  BY DEF IInv, TypeOK
<1>2. F!FirstDelimiterAt(data \o incoming, search) /\ F!DelimiterAt(data \o incoming, search)
  BY InvFound DEF FoundIsFirst, Return, F!FirstDelimiterAt
<1>3. /\ data' = <<>> /\ incoming' = incoming
      /\ frames' = Append(frames, SubSeq(data, 1, search))
  BY DEF Return
<1> DEFINE n == Len(data)
<1>4. /\ AllBytes \in Seq(Byte) /\ Len(AllBytes) = n + Len(incoming)
      /\ \A i \in 1 .. n + Len(incoming) :
            AllBytes[i] = IF i <= n THEN data[i] ELSE incoming[i - n]
  BY <1>1, ConcatProperties DEF AllBytes
<1>5. n \in Nat /\ search \in Nat /\ search <= n /\ Len(incoming) \in Nat
  BY <1>1
<1>6. search + Len(Delimiter) <= n
  BY DEF IInv, SearchInv, Return
<1>7. SubSeq(AllBytes, 1, search) = SubSeq(data, 1, search)
  BY <1>1, <1>4, <1>5
<1>8. SubSeq(AllBytes, n + 1, Len(AllBytes)) = incoming
  BY <1>1, <1>4, <1>5
<1>9. (data \o incoming)' = incoming
  BY <1>1, <1>3
<1>10. n \in (search + Len(Delimiter)) .. Len(AllBytes) /\ search \in 0 .. Len(AllBytes)
  BY <1>4, <1>5, <1>6, ReadUntilAssumption
<1>11. /\ F!FirstDelimiterAt(data \o incoming, search)
       /\ frames' = Append(frames, SubSeq(data \o incoming, 1, search))
       /\ (data \o incoming)' = SubSeq(data \o incoming, n + 1, Len(data \o incoming))
  BY <1>2, <1>3, <1>7, <1>8, <1>9 DEF AllBytes
<1>12. /\ search \in 0 .. Len(data \o incoming)
       /\ n \in (search + Len(Delimiter)) .. Len(data \o incoming)
  BY <1>10 DEF AllBytes
<1> HIDE DEF n
<1> QED
  BY <1>11, <1>12 DEF F!Take

LEMMA StepImplements == IInv /\ [Next]_vars => [F!Take]_<<data \o incoming, frames>>
<1> SUFFICES ASSUME IInv, [Next]_vars
             PROVE  F!Take \/ UNCHANGED <<data \o incoming, frames>>
  OBVIOUS
<1>1. CASE Return
  BY <1>1, ReturnImplements
<1>2. CASE ReadSome
  <2>1. AllBytes' = AllBytes
    BY <1>2, ReadKeepsBytes DEF IInv
  <2> QED
    BY <1>2, <2>1 DEF ReadSome, AllBytes
<1>3. CASE Search
  BY <1>3 DEF Search, buffer
<1>4. CASE ReadFails
  BY <1>4 DEF ReadFails, buffer
<1>5. CASE UNCHANGED vars
  BY <1>5 DEF vars, buffer
<1> QED
  BY <1>1, <1>2, <1>3, <1>4, <1>5 DEF Next

\* The reader takes the messages as Frames says: for any delimiter and any stream, in
\* whatever pieces the network delivers it and however the buffer grows.
THEOREM FramesImplemented == Spec => ImplementsFrames
<1>1. Spec => F!Init /\ [][F!Take]_<<data \o incoming, frames>>
  BY InitImplements, StepImplements, SearchInvariant, PTL DEF Spec
<1> QED
  BY <1>1, PTL DEF ImplementsFrames, F!Spec

=============================================================================
