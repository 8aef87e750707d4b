------------------------------ MODULE Channel -------------------------------
(***************************************************************************)
(* What a Connection promises to the game: a channel to each end that may  *)
(* lose any elements of a message, but hands over what it does not lose at *)
(* most once and in the order in which it was written.                     *)
(***************************************************************************)
EXTENDS Naturals, Sequences

CONSTANTS
    Ends,       \* the two ends of a connection
    Element,    \* the elements of the messages
    Messages    \* the messages an end can write: sequences of elements

\* What the theorems assume of the messages; an instance has to show it.
MessagesAreSequences == Messages \subseteq Seq(Element)

VARIABLES
    written,    \* the elements written towards an end, in that order
    queue,      \* those that will be handed over, unless they get lost
    delivered   \* those handed over, in that order

vars == <<written, queue, delivered>>

\* The increasing choices of n out of the positions 1 .. len.
Choices(n, len) ==
    {f \in [1 .. n -> 1 .. len] : \A i, j \in 1 .. n : i < j => f[i] < f[j]}

\* What may be left of a sequence that loses any of its members.
Remains(seq) ==
    UNION {{[i \in 1 .. n |-> seq[f[i]]] : f \in Choices(n, Len(seq))} : n \in 0 .. Len(seq)}

Init ==
    /\ written = [e \in Ends |-> <<>>]
    /\ queue = [e \in Ends |-> <<>>]
    /\ delivered = [e \in Ends |-> <<>>]

\* A message is written once; a cut write may cost elements of it.
Put(e, m) ==
    /\ \A i \in 1 .. Len(m), j \in 1 .. Len(written[e]) : m[i] # written[e][j]
    /\ written' = [written EXCEPT ![e] = @ \o m]
    /\ \E rest \in Remains(queue[e] \o m) : queue' = [queue EXCEPT ![e] = rest]
    /\ UNCHANGED delivered

\* Of the first elements some are handed over, and of those that follow some are lost.
Deliver(e) ==
    /\ \E k \in 0 .. Len(queue[e]) :
          /\ \E handed \in Remains(SubSeq(queue[e], 1, k)) :
                delivered' = [delivered EXCEPT ![e] = @ \o handed]
          /\ \E rest \in Remains(SubSeq(queue[e], k + 1, Len(queue[e]))) :
                queue' = [queue EXCEPT ![e] = rest]
    /\ UNCHANGED written

Next ==
    \E e \in Ends :
        \/ \E m \in Messages : Put(e, m)
        \/ Deliver(e)

Spec == Init /\ [][Next]_vars

-----------------------------------------------------------------------------

TypeOK ==
    /\ written \in [Ends -> Seq(Element)]
    /\ queue \in [Ends -> Seq(Element)]
    /\ delivered \in [Ends -> Seq(Element)]

\* The elements of an end that are handed over or may still be.
Kept(e) == delivered[e] \o queue[e]

\* What was handed over and what still waits is a part of what was written, in the
\* order in which it was written: no element is reordered or handed over twice.
KeptInOrder == \A e \in Ends : Kept(e) \in Remains(written[e])

=============================================================================
