---------------------------- MODULE ChannelProofs ---------------------------
(***************************************************************************)
(* A Channel keeps the order of what it keeps, for any messages.           *)
(***************************************************************************)
EXTENDS Channel, SequenceTheorems, TLAPS

-----------------------------------------------------------------------------
(* What remains of a sequence                                              *)

\* A sequence that picks its members from increasing positions of q remains of q.
LEMMA Picked ==
    ASSUME NEW S, NEW q \in Seq(S), NEW r \in Seq(S), Len(r) <= Len(q),
           NEW f \in Choices(Len(r), Len(q)),
           \A i \in 1 .. Len(r) : r[i] = q[f[i]]
    PROVE  r \in Remains(q)
<1>1. Len(r) \in 0 .. Len(q)
    BY LenProperties
<1>2. r = [i \in 1 .. Len(r) |-> r[i]]
    BY LenProperties
<1>3. r = [i \in 1 .. Len(r) |-> q[f[i]]]
    BY <1>2
<1>. QED
    BY <1>1, <1>3 DEF Remains

\* And what remains of q picks its members from increasing positions of q.
LEMMA RemainsPicks ==
    ASSUME NEW S, NEW q \in Seq(S), NEW r \in Remains(q)
    PROVE  /\ r \in Seq(S)
           /\ Len(r) <= Len(q)
           /\ \E f \in Choices(Len(r), Len(q)) : \A i \in 1 .. Len(r) : r[i] = q[f[i]]
<1>1. PICK n \in 0 .. Len(q) : \E f \in Choices(n, Len(q)) : r = [i \in 1 .. n |-> q[f[i]]]
    BY DEF Remains
<1>2. PICK f \in Choices(n, Len(q)) : r = [i \in 1 .. n |-> q[f[i]]]
    BY <1>1
<1>3. f \in [1 .. n -> 1 .. Len(q)]
    BY DEF Choices
<1>4. q \in [1 .. Len(q) -> S] /\ Len(q) \in Nat
    BY LenProperties
<1>5. r \in [1 .. n -> S]
    BY <1>2, <1>3, <1>4
<1>6. r \in Seq(S)
    BY <1>5, SeqDef
<1>7. Len(r) = n
    <2>1. DOMAIN r = 1 .. Len(r) /\ Len(r) \in Nat
        BY <1>6, LenProperties
    <2>2. DOMAIN r = 1 .. n
        BY <1>5
    <2>3. n \in Nat
        BY <1>4
    <2>4. \A i \in Int : i \in 1 .. n <=> i \in 1 .. Len(r)
        BY <2>1, <2>2
    <2>5. ~(n < Len(r)) /\ ~(Len(r) < n)
        BY <2>1, <2>3, <2>4
    <2>6. \A a, b \in Nat : ~(a < b) /\ ~(b < a) => b = a
        OBVIOUS
    <2>7. Len(r) \in Nat
        BY <2>1
    <2>. QED
        BY <2>3, <2>5, <2>6, <2>7
<1>. QED
    BY <1>1, <1>2, <1>4, <1>6, <1>7

\* All of q remains of q, if nothing is lost.
LEMMA RemainsAll ==
    ASSUME NEW S, NEW q \in Seq(S)
    PROVE  q \in Remains(q)
<1>. DEFINE f == [i \in 1 .. Len(q) |-> i]
<1>1. Len(q) \in Nat
    BY LenProperties
<1>2. f \in Choices(Len(q), Len(q))
    BY <1>1 DEF Choices
<1>3. \A i \in 1 .. Len(q) : q[i] = q[f[i]]
    OBVIOUS
<1>. QED
    BY <1>1, <1>2, <1>3, Picked

\* Losses add up to a loss.
LEMMA RemainsTransitive ==
    ASSUME NEW S, NEW w \in Seq(S), NEW q \in Remains(w), NEW r \in Remains(q)
    PROVE  r \in Remains(w)
<1>1. /\ q \in Seq(S)
      /\ Len(q) <= Len(w)
      /\ \E f \in Choices(Len(q), Len(w)) : \A i \in 1 .. Len(q) : q[i] = w[f[i]]
    BY RemainsPicks
<1>2. PICK f \in Choices(Len(q), Len(w)) : \A i \in 1 .. Len(q) : q[i] = w[f[i]]
    BY <1>1
<1>3. /\ r \in Seq(S)
      /\ Len(r) <= Len(q)
      /\ \E g \in Choices(Len(r), Len(q)) : \A i \in 1 .. Len(r) : r[i] = q[g[i]]
    BY <1>1, RemainsPicks
<1>4. PICK g \in Choices(Len(r), Len(q)) : \A i \in 1 .. Len(r) : r[i] = q[g[i]]
    BY <1>3
<1>5. Len(w) \in Nat /\ Len(q) \in Nat /\ Len(r) \in Nat
    BY <1>1, <1>3, LenProperties
<1>. DEFINE h == [i \in 1 .. Len(r) |-> f[g[i]]]
<1>6. /\ f \in [1 .. Len(q) -> 1 .. Len(w)]
      /\ \A i, j \in 1 .. Len(q) : i < j => f[i] < f[j]
    BY DEF Choices
<1>7. /\ g \in [1 .. Len(r) -> 1 .. Len(q)]
      /\ \A i, j \in 1 .. Len(r) : i < j => g[i] < g[j]
    BY DEF Choices
<1>8. h \in Choices(Len(r), Len(w))
    <2>1. h \in [1 .. Len(r) -> 1 .. Len(w)]
        BY <1>6, <1>7
    <2>2. \A i, j \in 1 .. Len(r) : i < j => h[i] < h[j]
        BY <1>6, <1>7
    <2>. QED
        BY <2>1, <2>2 DEF Choices
<1>9. \A i \in 1 .. Len(r) : r[i] = w[h[i]]
    BY <1>2, <1>4, <1>7
<1>10. Len(r) <= Len(w)
    BY <1>1, <1>3, <1>5
<1>. HIDE DEF h
<1>. QED
    BY <1>3, <1>8, <1>9, <1>10, Picked

\* Losses from two parts are a loss from the whole.
LEMMA RemainsBoth ==
    ASSUME NEW S, NEW w \in Seq(S), NEW v \in Seq(S), NEW q \in Remains(w), NEW r \in Remains(v)
    PROVE  q \o r \in Remains(w \o v)
<1>1. /\ q \in Seq(S) /\ r \in Seq(S)
      /\ Len(q) <= Len(w) /\ Len(r) <= Len(v)
      /\ \E f \in Choices(Len(q), Len(w)) : \A i \in 1 .. Len(q) : q[i] = w[f[i]]
      /\ \E f \in Choices(Len(r), Len(v)) : \A i \in 1 .. Len(r) : r[i] = v[f[i]]
    BY RemainsPicks
<1>2. PICK f \in Choices(Len(q), Len(w)) : \A i \in 1 .. Len(q) : q[i] = w[f[i]]
    BY <1>1
<1>3. PICK g \in Choices(Len(r), Len(v)) : \A i \in 1 .. Len(r) : r[i] = v[g[i]]
    BY <1>1
<1>4. Len(q) \in Nat /\ Len(w) \in Nat /\ Len(r) \in Nat /\ Len(v) \in Nat
    BY <1>1, LenProperties
<1>5. /\ f \in [1 .. Len(q) -> 1 .. Len(w)]
      /\ \A i, j \in 1 .. Len(q) : i < j => f[i] < f[j]
    BY DEF Choices
<1>6. /\ g \in [1 .. Len(r) -> 1 .. Len(v)]
      /\ \A i, j \in 1 .. Len(r) : i < j => g[i] < g[j]
    BY DEF Choices
<1>7. /\ q \o r \in Seq(S)
      /\ Len(q \o r) = Len(q) + Len(r)
      /\ \A i \in 1 .. Len(q) + Len(r) :
            (q \o r)[i] = IF i <= Len(q) THEN q[i] ELSE r[i - Len(q)]
    BY <1>1, ConcatProperties
<1>8. /\ w \o v \in Seq(S)
      /\ Len(w \o v) = Len(w) + Len(v)
      /\ \A i \in 1 .. Len(w) + Len(v) :
            (w \o v)[i] = IF i <= Len(w) THEN w[i] ELSE v[i - Len(w)]
    BY ConcatProperties
<1>. DEFINE n == Len(q) + Len(r)
            h == [i \in 1 .. n |-> IF i <= Len(q) THEN f[i] ELSE Len(w) + g[i - Len(q)]]
<1>9. ASSUME NEW i \in 1 .. n
      PROVE  IF i <= Len(q) THEN i \in 1 .. Len(q) ELSE i - Len(q) \in 1 .. Len(r)
    BY <1>4
<1>10. ASSUME NEW i \in 1 .. n, i <= Len(q)
       PROVE  h[i] = f[i] /\ f[i] \in Nat /\ 1 <= f[i] /\ f[i] <= Len(w)
    <2>1. f[i] \in 1 .. Len(w)
        BY <1>5, <1>9, <1>10
    <2>. QED
        BY <2>1, <1>4, <1>10
<1>11. ASSUME NEW i \in 1 .. n, ~(i <= Len(q))
       PROVE  /\ h[i] = Len(w) + g[i - Len(q)]
              /\ g[i - Len(q)] \in Nat /\ 1 <= g[i - Len(q)] /\ g[i - Len(q)] <= Len(v)
    <2>1. g[i - Len(q)] \in 1 .. Len(v)
        BY <1>6, <1>9, <1>11
    <2>. QED
        BY <2>1, <1>4, <1>11
<1>. HIDE DEF h
<1>12. h \in Choices(n, Len(w) + Len(v))
    <2>1. h = [i \in 1 .. n |-> h[i]]
        BY DEF h
    <2>2. \A i \in 1 .. n : h[i] \in 1 .. Len(w) + Len(v)
        BY <1>4, <1>10, <1>11
    <2>3. h \in [1 .. n -> 1 .. Len(w) + Len(v)]
        BY <2>1, <2>2
    <2>4. ASSUME NEW i \in 1 .. n, NEW j \in 1 .. n, i < j
          PROVE  h[i] < h[j]
        <3>1. CASE j <= Len(q)
            <4>1. i <= Len(q)
                BY <2>4, <3>1, <1>4
            <4>2. f[i] < f[j]
                BY <2>4, <3>1, <4>1, <1>5, <1>9
            <4>. QED
                BY <3>1, <4>1, <4>2, <1>10
        <3>2. CASE i <= Len(q) /\ ~(j <= Len(q))
            BY <3>2, <1>4, <1>10, <1>11
        <3>3. CASE ~(i <= Len(q)) /\ ~(j <= Len(q))
            <4>1. /\ i - Len(q) \in 1 .. Len(r)
                  /\ j - Len(q) \in 1 .. Len(r)
                  /\ i - Len(q) < j - Len(q)
                BY <2>4, <3>3, <1>4, <1>9
            <4>2. g[i - Len(q)] < g[j - Len(q)]
                BY <4>1, <1>6
            <4>. QED
                BY <3>3, <4>2, <1>4, <1>11
        <3>. QED
            BY <2>4, <3>1, <3>2, <3>3, <1>4
    <2>. QED
        BY <2>3, <2>4 DEF Choices
<1>13. \A i \in 1 .. n : (q \o r)[i] = (w \o v)[h[i]]
    <2>1. TAKE i \in 1 .. n
    <2>2. CASE i <= Len(q)
        <3>1. f[i] \in 1 .. Len(w) + Len(v) /\ f[i] <= Len(w)
            BY <2>2, <1>4, <1>10
        <3>2. (w \o v)[f[i]] = w[f[i]]
            BY <3>1, <1>8
        <3>. QED
            BY <2>2, <3>2, <1>2, <1>7, <1>9, <1>10
    <2>3. CASE ~(i <= Len(q))
        <3>1. i - Len(q) \in 1 .. Len(r) /\ (q \o r)[i] = r[i - Len(q)]
            BY <2>3, <1>7, <1>9
        <3>2. /\ Len(w) + g[i - Len(q)] \in 1 .. Len(w) + Len(v)
              /\ ~(Len(w) + g[i - Len(q)] <= Len(w))
              /\ (Len(w) + g[i - Len(q)]) - Len(w) = g[i - Len(q)]
            BY <2>3, <1>4, <1>11
        <3>3. (w \o v)[Len(w) + g[i - Len(q)]] = v[g[i - Len(q)]]
            BY <3>2, <1>8
        <3>. QED
            BY <2>3, <3>1, <3>3, <1>3, <1>11
    <2>. QED
        BY <2>2, <2>3
<1>14. n <= Len(w) + Len(v)
    BY <1>1, <1>4
<1>. QED
    BY <1>7, <1>8, <1>12, <1>13, <1>14, Picked

\* A loss from one of two parts is a loss from the whole.
LEMMA RemainsBehind ==
    ASSUME NEW S, NEW d \in Seq(S), NEW q \in Seq(S), NEW r \in Remains(q)
    PROVE  d \o r \in Remains(d \o q)
BY RemainsAll, RemainsBoth

LEMMA RemainsBefore ==
    ASSUME NEW S, NEW w \in Seq(S), NEW q \in Remains(w), NEW m \in Seq(S)
    PROVE  q \o m \in Remains(w \o m)
BY RemainsAll, RemainsBoth

\* Concatenation may be regrouped.
LEMMA Regroup ==
    ASSUME NEW S, NEW d \in Seq(S), NEW q \in Seq(S), NEW r \in Seq(S)
    PROVE  (d \o q) \o r = d \o (q \o r)
BY ConcatAssociative

-----------------------------------------------------------------------------
(* The Channel                                                             *)

\* What a channel writes, keeps and hands over are sequences of elements.
THEOREM TypeCorrect == ASSUME MessagesAreSequences PROVE Spec => []TypeOK
<1>1. Init => TypeOK
    BY DEF Init, TypeOK
<1>2. TypeOK /\ [Next]_vars => TypeOK'
    <2>. SUFFICES ASSUME TypeOK, [Next]_vars PROVE TypeOK'
        OBVIOUS
    <2>1. ASSUME NEW e \in Ends, NEW m \in Messages, Put(e, m) PROVE TypeOK'
        <3>0. m \in Seq(Element)
            BY DEF MessagesAreSequences
        <3>1. written[e] \o m \in Seq(Element) /\ queue[e] \o m \in Seq(Element)
            BY <3>0, ConcatProperties DEF TypeOK
        <3>2. \A rest \in Remains(queue[e] \o m) : rest \in Seq(Element)
            BY <3>1, RemainsPicks
        <3>. QED
            BY <2>1, <3>1, <3>2 DEF Put, TypeOK
    <2>2. ASSUME NEW e \in Ends, Deliver(e) PROVE TypeOK'
        <3>1. PICK k \in 0 .. Len(queue[e]) :
                 /\ \E handed \in Remains(SubSeq(queue[e], 1, k)) :
                       delivered' = [delivered EXCEPT ![e] = @ \o handed]
                 /\ \E rest \in Remains(SubSeq(queue[e], k + 1, Len(queue[e]))) :
                       queue' = [queue EXCEPT ![e] = rest]
            BY <2>2 DEF Deliver
        <3>2. queue[e] \in Seq(Element) /\ Len(queue[e]) \in Nat
            BY LenProperties DEF TypeOK
        <3>3. /\ SubSeq(queue[e], 1, k) \in Seq(Element)
              /\ SubSeq(queue[e], k + 1, Len(queue[e])) \in Seq(Element)
            BY <3>2
        <3>4. \A rest \in Remains(SubSeq(queue[e], k + 1, Len(queue[e]))) : rest \in Seq(Element)
            BY <3>3, RemainsPicks
        <3>5. \A handed \in Remains(SubSeq(queue[e], 1, k)) : handed \in Seq(Element)
            BY <3>3, RemainsPicks
        <3>6. \A handed \in Seq(Element) : delivered[e] \o handed \in Seq(Element)
            BY ConcatProperties DEF TypeOK
        <3>. QED
            BY <2>2, <3>1, <3>4, <3>5, <3>6 DEF Deliver, TypeOK
    <2>3. CASE UNCHANGED vars
        BY <2>3 DEF vars, TypeOK
    <2>. QED
        BY <2>1, <2>2, <2>3 DEF Next
<1>. QED
    BY <1>1, <1>2, PTL DEF Spec

\* Whatever is lost, what a channel hands over is a part of what was written towards
\* that end, in the order of the writing and nothing twice: two states of one element
\* reach the peer in the order in which their threads called write_some.
THEOREM KeptInOrderHolds == ASSUME MessagesAreSequences PROVE Spec => []KeptInOrder
<1>0. \A d, u, v \in Seq(Element) : (d \o u) \o v = d \o (u \o v)
    BY Regroup
<1>1. Init => KeptInOrder
    <2>. SUFFICES ASSUME Init, NEW e \in Ends PROVE Kept(e) \in Remains(written[e])
        BY DEF KeptInOrder
    <2>1. written[e] = <<>> /\ Kept(e) = <<>> \o <<>>
        BY DEF Init, Kept
    <2>2. <<>> \in Seq(Element) /\ <<>> \o <<>> = <<>>
        BY EmptySeq, ConcatEmptySeq
    <2>. QED
        BY <2>1, <2>2, RemainsAll
<1>2. TypeOK /\ KeptInOrder /\ [Next]_vars => KeptInOrder'
    <2>. SUFFICES ASSUME TypeOK, KeptInOrder, [Next]_vars, NEW end \in Ends
                  PROVE  (Kept(end) \in Remains(written[end]))'
        BY DEF KeptInOrder
    <2>0. /\ written[end] \in Seq(Element) /\ queue[end] \in Seq(Element)
          /\ delivered[end] \in Seq(Element) /\ Len(queue[end]) \in Nat
          /\ Kept(end) \in Remains(written[end])
        BY LenProperties DEF TypeOK, KeptInOrder
    <2>1. CASE UNCHANGED <<written[end], queue[end], delivered[end]>>
        BY <2>0, <2>1 DEF Kept
    <2>2. ASSUME NEW m \in Messages, Put(end, m)
          PROVE  (Kept(end) \in Remains(written[end]))'
        <3>. DEFINE q == queue[end] \o m
        <3>0. m \in Seq(Element)
            BY DEF MessagesAreSequences
        <3>1. PICK rest \in Remains(q) : queue' = [queue EXCEPT ![end] = rest]
            BY <2>2 DEF Put
        <3>2. q \in Seq(Element) /\ written[end] \o m \in Seq(Element)
            BY <2>0, <3>0, ConcatProperties
        <3>3. /\ written'[end] = written[end] \o m
              /\ Kept(end)' = delivered[end] \o rest
            BY <2>2, <3>1 DEF Put, Kept, TypeOK
        <3>4. delivered[end] \o rest \in Remains(delivered[end] \o q)
            BY <2>0, <3>2, RemainsBehind
        <3>5. delivered[end] \o q = Kept(end) \o m
            BY <1>0, <2>0, <3>0, Zenon DEF Kept
        <3>6. Kept(end) \o m \in Remains(written[end] \o m)
            BY <2>0, <3>0, RemainsBefore
        <3>. HIDE DEF q
        <3>. QED
            BY <3>2, <3>3, <3>4, <3>5, <3>6, RemainsTransitive
    <2>3. CASE Deliver(end)
        <3>1. PICK k \in 0 .. Len(queue[end]) :
                 /\ \E handed \in Remains(SubSeq(queue[end], 1, k)) :
                       delivered' = [delivered EXCEPT ![end] = @ \o handed]
                 /\ \E rest \in Remains(SubSeq(queue[end], k + 1, Len(queue[end]))) :
                       queue' = [queue EXCEPT ![end] = rest]
            BY <2>3 DEF Deliver
        <3>. DEFINE head == SubSeq(queue[end], 1, k)
                    tail == SubSeq(queue[end], k + 1, Len(queue[end]))
        <3>2. PICK rest \in Remains(tail) : queue' = [queue EXCEPT ![end] = rest]
            BY <3>1
        <3>3. PICK handed \in Remains(head) : delivered' = [delivered EXCEPT ![end] = @ \o handed]
            BY <3>1
        <3>4. head \in Seq(Element) /\ tail \in Seq(Element)
            BY <2>0
        <3>5. head \o tail = queue[end]
            <4>1. /\ 1 \in 1 .. Len(queue[end]) + 1
                  /\ k \in (1 - 1) .. Len(queue[end])
                  /\ Len(queue[end]) \in k .. Len(queue[end])
                BY <2>0
            <4>2. head \o tail = SubSeq(queue[end], 1, Len(queue[end]))
                BY <2>0, <4>1, ConcatAdjacentSubSeq
            <4>. QED
                BY <2>0, <4>2, SubSeqFull
        <3>6. /\ written'[end] = written[end]
              /\ Kept(end)' = (delivered[end] \o handed) \o rest
            BY <2>3, <3>2, <3>3 DEF Deliver, Kept, TypeOK
        <3>. HIDE DEF head, tail
        <3>7. delivered[end] \o head \in Seq(Element)
            BY <2>0, <3>4, ConcatProperties
        <3>8. delivered[end] \o handed \in Remains(delivered[end] \o head)
            BY <2>0, <3>4, RemainsBehind
        <3>9. (delivered[end] \o handed) \o rest \in Remains((delivered[end] \o head) \o tail)
            BY <3>4, <3>7, <3>8, RemainsBoth
        <3>10. (delivered[end] \o head) \o tail = Kept(end)
            <4>1. (delivered[end] \o head) \o tail = delivered[end] \o (head \o tail)
                BY <1>0, <2>0, <3>4, Zenon
            <4>. QED
                BY <3>5, <4>1, Zenon DEF Kept
        <3>. QED
            BY <2>0, <3>6, <3>9, <3>10, RemainsTransitive
    <2>4. ASSUME NEW e \in Ends, e # end, (\E m \in Messages : Put(e, m)) \/ Deliver(e)
          PROVE  UNCHANGED <<written[end], queue[end], delivered[end]>>
        BY <2>4 DEF Put, Deliver, TypeOK
    <2>5. CASE UNCHANGED vars
        BY <2>1, <2>5 DEF vars
    <2>. QED
        BY <2>1, <2>2, <2>3, <2>4, <2>5 DEF Next
<1>. QED
    BY <1>1, <1>2, TypeCorrect, PTL DEF Spec

=============================================================================
