------------------------- MODULE ConnectionProofs --------------------------
(***************************************************************************)
(* Theorems about Connection, for any number of threads and messages, any  *)
(* number of elements in each, cut writes or not, and whichever messages   *)
(* contain end_of_message.                                                 *)
(***************************************************************************)
EXTENDS Connection, WellFoundedInduction, FiniteSetTheorems, SequenceTheorems, TLAPS

P == INSTANCE ChannelProofs WITH
        queue <- [e \in Ends |-> Intact(wire[e])],
        Messages <- {Elements(m) : m \in Messages}

-----------------------------------------------------------------------------
(* Ranks                                                                   *)

\* In a bounded set of numbers the ranks are 1 .. Cardinality(S), each once and in order.
LEMMA RankFacts ==
    ASSUME NEW len \in Nat, NEW S, S \subseteq 1 .. len
    PROVE  /\ IsFiniteSet(S) /\ Cardinality(S) \in Nat
           /\ \A x \in S : Rank(S, x) \in 1 .. Cardinality(S)
           /\ \A x, y \in S : x < y => Rank(S, x) < Rank(S, y)
           /\ \A n \in 1 .. Cardinality(S) : Nth(S, n) \in S /\ Rank(S, Nth(S, n)) = n
           /\ \A x \in S : Nth(S, Rank(S, x)) = x
<1> DEFINE Below(x) == {y \in S : y <= x}
           f == [x \in S |-> Rank(S, x)]
<1>0. \A x \in S : x \in Nat
  OBVIOUS
<1>1. IsFiniteSet(S) /\ Cardinality(S) \in Nat
  <2>1. IsFiniteSet(1 .. len)
    BY FS_Interval
  <2> QED
    BY <2>1, FS_Subset, FS_CardinalityType
<1>2. \A x \in S : /\ IsFiniteSet(Below(x)) /\ Rank(S, x) = Cardinality(Below(x))
                   /\ Rank(S, x) \in Nat /\ Rank(S, x) <= Cardinality(S)
  BY <1>1, FS_Subset, FS_CardinalityType DEF Rank
<1>3. ASSUME NEW x \in S
      PROVE  Rank(S, x) \in 1 .. Cardinality(S)
  <2>1. x \in Below(x)
    OBVIOUS
  <2>2. Cardinality(Below(x)) # 0
    BY <1>2, <2>1, FS_EmptySet
  <2> HIDE DEF Below
  <2> QED
    BY <1>1, <1>2, <2>2
<1>4. ASSUME NEW x \in S, NEW y \in S, x < y
      PROVE  Rank(S, x) < Rank(S, y)
  <2>1. ASSUME NEW z \in Below(x) PROVE z \in Below(y)
    <3>1. z \in S /\ z <= x
      OBVIOUS
    <3>2. z \in Nat /\ x \in Nat /\ y \in Nat
      BY <1>0, <3>1
    <3> QED
      BY <1>4, <3>1, <3>2
  <2>2. y \in Below(y) /\ y \notin Below(x)
    BY <1>0, <1>4
  <2> HIDE DEF Below
  <2>3. /\ Cardinality(Below(x)) <= Cardinality(Below(y))
        /\ Cardinality(Below(x)) # Cardinality(Below(y))
    BY <1>2, <2>1, <2>2, FS_Subset
  <2> QED
    BY <1>2, <2>3
<1> HIDE DEF Below
<1>5. f \in Injection(S, 1 .. Cardinality(S))
  <2>1. f \in [S -> 1 .. Cardinality(S)]
    BY <1>3
  <2>2. ASSUME NEW x \in S, NEW y \in S, x # y
        PROVE  f[x] # f[y]
    BY <1>2, <1>4, <2>2
  <2> QED
    BY <2>1, <2>2 DEF Injection, IsInjective
<1>6. f \in Surjection(S, 1 .. Cardinality(S))
  BY <1>1, <1>5, FS_Injection, FS_Interval
<1>7. ASSUME NEW n \in 1 .. Cardinality(S)
      PROVE  Nth(S, n) \in S /\ Rank(S, Nth(S, n)) = n
  <2>1. \E x \in S : Rank(S, x) = n
    BY <1>6 DEF Surjection
  <2> QED
    BY <2>1 DEF Nth
<1>8. ASSUME NEW x \in S
      PROVE  Nth(S, Rank(S, x)) = x
  <2>1. Nth(S, Rank(S, x)) \in S /\ Rank(S, Nth(S, Rank(S, x))) = Rank(S, x)
    BY <1>3, <1>7
  <2>2. Rank(S, x) \in Nat /\ Nth(S, Rank(S, x)) \in Nat /\ x \in Nat
    BY <1>0, <1>2, <2>1
  <2>3. ~(x < Nth(S, Rank(S, x))) /\ ~(Nth(S, Rank(S, x)) < x)
    BY <1>4, <2>1, <2>2
  <2> QED
    BY <2>2, <2>3
<1> QED
  BY <1>1, <1>3, <1>4, <1>7, <1>8

\* The rank of a number that need not be in the set parts the ranks of the others.
LEMMA RankParts ==
    ASSUME NEW len \in Nat, NEW S, S \subseteq 1 .. len, NEW x \in Nat
    PROVE  /\ Rank(S, x) \in 0 .. Cardinality(S)
           /\ \A i \in S : IF i <= x THEN Rank(S, i) <= Rank(S, x) ELSE Rank(S, i) > Rank(S, x)
<1> DEFINE Below(y) == {z \in S : z <= y}
<1>1. IsFiniteSet(S) /\ Cardinality(S) \in Nat
  BY RankFacts
<1>2. \A y : Below(y) \in SUBSET S /\ Rank(S, y) = Cardinality(Below(y))
  BY DEF Rank
<1>3. \A i \in S : i \in Nat
  OBVIOUS
<1>4. \A y \in Nat, z \in S : z \in Below(y) <=> z <= y
  OBVIOUS
<1> HIDE DEF Below
<1>5. \A y : IsFiniteSet(Below(y)) /\ Rank(S, y) \in Nat /\ Rank(S, y) <= Cardinality(S)
  BY <1>1, <1>2, FS_Subset, FS_CardinalityType
<1>6. ASSUME NEW i \in S, i <= x PROVE Rank(S, i) <= Rank(S, x)
  <2>1. ASSUME NEW z \in Below(i) PROVE z \in Below(x)
    <3>1. z \in S /\ z \in Nat /\ i \in Nat
      BY <1>2, <1>3
    <3>2. z <= i
      BY <1>4, <3>1
    <3>3. z <= x
      BY <1>6, <3>1, <3>2
    <3> QED
      BY <1>4, <3>1, <3>3
  <2>2. Below(i) \in SUBSET Below(x)
    BY <2>1
  <2> QED
    BY <1>2, <1>5, <2>2, FS_Subset
<1>7. ASSUME NEW i \in S, ~(i <= x) PROVE Rank(S, i) > Rank(S, x)
  <2>1. ASSUME NEW z \in Below(x) PROVE z \in Below(i)
    <3>1. z \in S /\ z \in Nat /\ i \in Nat
      BY <1>2, <1>3
    <3>2. z <= x
      BY <1>4, <3>1
    <3>3. z <= i
      BY <1>7, <3>1, <3>2
    <3> QED
      BY <1>4, <3>1, <3>3
  <2>2. i \in Below(i) /\ i \notin Below(x)
    BY <1>3, <1>4, <1>7
  <2>3. Below(x) \in SUBSET Below(i) /\ Below(x) # Below(i)
    BY <2>1, <2>2
  <2>4. /\ Cardinality(Below(x)) <= Cardinality(Below(i))
        /\ Cardinality(Below(x)) # Cardinality(Below(i))
    BY <1>5, <2>3, FS_Subset
  <2> QED
    BY <1>2, <1>5, <2>4
<1>8. Rank(S, x) \in 0 .. Cardinality(S)
  BY <1>1, <1>5
<1> QED
  BY <1>6, <1>7, <1>8

-----------------------------------------------------------------------------
(* Where elements stand whole                                              *)

LEMMA FunctionIsSeq ==
    ASSUME NEW S, NEW n \in Nat, NEW f \in [1 .. n -> S]
    PROVE  f \in Seq(S) /\ Len(f) = n
<1>1. f \in Seq(S)
  BY SeqDef
<1>2. Len(f) \in Nat /\ DOMAIN f = 1 .. Len(f)
  BY <1>1, LenProperties
<1>3. 1 .. Len(f) = 1 .. n
  BY <1>2
<1>4. \A i \in Int : i \in 1 .. Len(f) <=> i \in 1 .. n
  BY <1>3
<1>5. ~(n < Len(f)) /\ ~(Len(f) < n)
  BY <1>2, <1>4
<1> QED
  BY <1>1, <1>2, <1>5

LEMMA ElementIs ==
    /\ Delimiter \notin Element
    /\ \A x \in Element : /\ x.msg \in Messages /\ x.nr \in 1 .. Size[x.msg]
                          /\ x = [msg |-> x.msg, nr |-> x.nr]
<1>1. Messages \subseteq Nat \ {0}
  BY ConnectionAssumption DEF Messages, Ends
<1>2. Delimiter.msg = 0
  BY DEF Delimiter
<1>3. ASSUME NEW x \in Element
      PROVE  /\ x.msg \in Messages /\ x.nr \in 1 .. Size[x.msg]
             /\ x = [msg |-> x.msg, nr |-> x.nr]
  <2>1. x \in [msg : Messages, nr : Nat \ {0}] /\ x.nr <= Size[x.msg]
    BY DEF Element
  <2>2. x.msg \in Messages /\ x.nr \in Nat \ {0} /\ x = [msg |-> x.msg, nr |-> x.nr]
    BY <2>1
  <2>3. Size[x.msg] \in Nat
    BY <2>2, ConnectionAssumption
  <2> QED
    BY <2>1, <2>2, <2>3
<1> QED
  BY <1>1, <1>2, <1>3

LEMMA UnitIs ==
    ASSUME NEW u \in Unit
    PROVE  u.of \in Element \cup {Delimiter} /\ u.half \in {1, 2} /\ u = [of |-> u.of, half |-> u.half]
BY DEF Unit

\* The two units of an element stand side by side.
WholeAt(units, i) ==
    units[i].of \in Element /\ units[i].half = 1 /\ units[i + 1] = [of |-> units[i].of, half |-> 2]

LEMMA StartsAre ==
    ASSUME NEW units \in Seq(Unit)
    PROVE  /\ Starts(units) \subseteq 1 .. Len(units)
           /\ \A i : i \in Starts(units) <=> i \in 1 .. (Len(units) - 1) /\ WholeAt(units, i)
<1>1. Len(units) \in Nat
  BY LenProperties
<1>2. ASSUME NEW i \in 1 .. (Len(units) - 1)
      PROVE  i \in Starts(units) <=> WholeAt(units, i)
  <2>1. units[i] \in Unit
    BY <1>1, ElementOfSeq
  <2>2. /\ units[i].of \in Element \cup {Delimiter}
        /\ units[i] = [of |-> units[i].of, half |-> units[i].half]
    BY <2>1, UnitIs
  <2>3. [units[i] EXCEPT !.half = 2] = [of |-> units[i].of, half |-> 2]
    BY <2>2
  <2>4. units[i].of # Delimiter <=> units[i].of \in Element
    BY <2>2, ElementIs
  <2> QED
    BY <2>3, <2>4 DEF Starts, WholeAt
<1>3. \A i \in Starts(units) : i \in 1 .. (Len(units) - 1)
  BY DEF Starts
<1>4. \A i \in 1 .. (Len(units) - 1) : i \in 1 .. Len(units)
  BY <1>1
<1> QED
  BY <1>2, <1>3, <1>4

-----------------------------------------------------------------------------
(* What is intact                                                          *)

LEMMA IntactIs ==
    ASSUME NEW units \in Seq(Unit)
    PROVE  /\ Intact(units) \in Seq(Element)
           /\ Len(Intact(units)) = Cardinality(Starts(units))
           /\ \A n \in 1 .. Len(Intact(units)) : Intact(units)[n] = units[Nth(Starts(units), n)].of
           /\ \A i \in Starts(units) : Intact(units)[Rank(Starts(units), i)] = units[i].of
<1> DEFINE S == Starts(units)
           q == [n \in 1 .. Cardinality(S) |-> units[Nth(S, n)].of]
<1>1. Len(units) \in Nat /\ S \subseteq 1 .. Len(units)
  BY LenProperties, StartsAre
<1>2. /\ Cardinality(S) \in Nat
      /\ \A i \in S : Rank(S, i) \in 1 .. Cardinality(S) /\ Nth(S, Rank(S, i)) = i
      /\ \A n \in 1 .. Cardinality(S) : Nth(S, n) \in S
  BY <1>1, RankFacts
<1>3. ASSUME NEW i \in S PROVE units[i].of \in Element
  BY StartsAre DEF WholeAt
<1>4. Intact(units) = q
  BY DEF Intact
<1> HIDE DEF S
<1>5. q \in [1 .. Cardinality(S) -> Element]
  BY <1>2, <1>3
<1>6. q \in Seq(Element) /\ Len(q) = Cardinality(S)
  BY <1>2, <1>5, FunctionIsSeq
<1>7. \A i \in S : q[Rank(S, i)] = units[i].of
  BY <1>2
<1>8. \A n \in 1 .. Cardinality(S) : q[n] = units[Nth(S, n)].of
  OBVIOUS
<1> HIDE DEF q
<1>9. /\ Intact(units) \in Seq(Element) /\ Len(Intact(units)) = Cardinality(S)
      /\ \A n \in 1 .. Len(Intact(units)) : Intact(units)[n] = units[Nth(S, n)].of
      /\ \A i \in S : Intact(units)[Rank(S, i)] = units[i].of
  BY <1>4, <1>6, <1>7, <1>8
<1> QED
  BY <1>9 DEF S

\* If the elements that stand whole have their places in q, in their order, nothing but q
\* is left in the channel.
LEMMA IntactRemains ==
    ASSUME NEW units \in Seq(Unit), NEW q \in Seq(Element),
           NEW place \in [Starts(units) -> 1 .. Len(q)],
           \A i, j \in Starts(units) : i < j => place[i] < place[j],
           \A i \in Starts(units) : q[place[i]] = units[i].of
    PROVE  Intact(units) \in P!Remains(q)
<1> DEFINE S == Starts(units)
           r == Intact(units)
           f == [n \in 1 .. Len(r) |-> place[Nth(S, n)]]
<1>1. Len(units) \in Nat /\ S \subseteq 1 .. Len(units)
  BY LenProperties, StartsAre
<1>2. /\ Cardinality(S) \in Nat
      /\ \A i, j \in S : i < j => Rank(S, i) < Rank(S, j)
      /\ \A n \in 1 .. Cardinality(S) : Nth(S, n) \in S /\ Rank(S, Nth(S, n)) = n
  BY <1>1, RankFacts
<1>3. /\ r \in Seq(Element) /\ Len(r) = Cardinality(S)
      /\ \A n \in 1 .. Len(r) : r[n] = units[Nth(S, n)].of
  BY IntactIs
<1>4. \A i \in S : place[i] \in 1 .. Len(q)
  OBVIOUS
<1>5. /\ \A i, j \in S : i < j => place[i] < place[j]
      /\ \A i \in S : q[place[i]] = units[i].of
  OBVIOUS
<1>6. Len(q) \in Nat /\ \A i \in S : i \in Nat
  BY <1>1, LenProperties
<1> HIDE DEF S, r
<1>7. f \in [1 .. Len(r) -> 1 .. Len(q)]
  BY <1>2, <1>3, <1>4
<1>8. ASSUME NEW m \in 1 .. Len(r), NEW n \in 1 .. Len(r), m < n
      PROVE  f[m] < f[n]
  <2>1. Nth(S, m) \in S /\ Nth(S, n) \in S /\ Rank(S, Nth(S, m)) = m /\ Rank(S, Nth(S, n)) = n
    BY <1>2, <1>3
  <2>2. Nth(S, m) < Nth(S, n)
    <3>1. ~(Nth(S, n) < Nth(S, m))
      BY <1>2, <1>8, <2>1
    <3>2. Nth(S, n) # Nth(S, m)
      BY <1>8, <2>1
    <3> QED
      BY <1>6, <2>1, <3>1, <3>2
  <2> QED
    BY <1>5, <2>1, <2>2
<1>9. f \in P!Choices(Len(r), Len(q))
  BY <1>7, <1>8 DEF P!Choices
<1>10. \A n \in 1 .. Len(r) : r[n] = q[f[n]]
  BY <1>2, <1>3, <1>5
<1>11. Len(r) <= Len(q)
  <2>1. f \in Injection(1 .. Len(r), 1 .. Len(q))
    <3>1. ASSUME NEW m \in 1 .. Len(r), NEW n \in 1 .. Len(r), m # n
          PROVE  f[m] # f[n]
      <4>1. m < n \/ n < m
        BY <3>1
      <4>2. f[m] \in Int /\ f[n] \in Int
        BY <1>7
      <4> QED
        BY <1>8, <4>1, <4>2
    <3> QED
      BY <1>7, <3>1 DEF Injection, IsInjective
  <2>2. \A n \in Nat : IsFiniteSet(1 .. n) /\ Cardinality(1 .. n) = n
    BY FS_Interval
  <2>3. Len(r) \in Nat
    BY <1>2, <1>3
  <2>4. Cardinality(1 .. Len(r)) <= Cardinality(1 .. Len(q))
    BY <1>6, <2>1, <2>2, FS_Injection
  <2> QED
    BY <1>6, <2>2, <2>3, <2>4
<1>12. r \in P!Remains(q)
  <2> HIDE DEF f
  <2> QED
    BY <1>3, <1>9, <1>10, <1>11, P!Picked
<1> QED
  BY <1>12 DEF r

-----------------------------------------------------------------------------
(* Reading                                                                 *)

\* The first n units are gone.
LEMMA DropFacts ==
    ASSUME NEW units \in Seq(Unit), NEW n \in 0 .. Len(units)
    PROVE  LET rest == SubSeq(units, n + 1, Len(units)) IN
           /\ rest \in Seq(Unit) /\ Len(rest) = Len(units) - n
           /\ \A j \in 1 .. (Len(units) - n) : rest[j] = units[n + j]
<1>1. Len(units) \in Nat /\ n \in Nat /\ n <= Len(units)
  BY LenProperties
<1>2. \A j \in (n + 1) .. Len(units) : units[j] \in Unit
  BY <1>1, ElementOfSeq
<1>3. /\ SubSeq(units, n + 1, Len(units)) \in Seq(Unit)
      /\ Len(SubSeq(units, n + 1, Len(units))) =
            IF n + 1 <= Len(units) THEN Len(units) - (n + 1) + 1 ELSE 0
      /\ \A i \in 1 .. (Len(units) - (n + 1) + 1) :
            SubSeq(units, n + 1, Len(units))[i] = units[n + 1 + i - 1]
  BY <1>1, <1>2, SubSeqProperties
<1> QED
  BY <1>1, <1>3

LEMMA DropStarts ==
    ASSUME NEW units \in Seq(Unit), NEW n \in 0 .. Len(units),
           NEW rest, rest = SubSeq(units, n + 1, Len(units)), NEW i \in Starts(rest)
    PROVE  i \in Nat \ {0} /\ i + n \in Starts(units) /\ rest[i].of = units[i + n].of
<1>1. /\ rest \in Seq(Unit) /\ Len(rest) = Len(units) - n
      /\ \A j \in 1 .. (Len(units) - n) : rest[j] = units[n + j]
  BY DropFacts
<1>2. i \in 1 .. (Len(rest) - 1) /\ WholeAt(rest, i)
  BY <1>1, StartsAre
<1>3. Len(units) \in Nat /\ n \in Nat
  BY LenProperties
<1>4. /\ i \in 1 .. (Len(units) - n) /\ i + 1 \in 1 .. (Len(units) - n)
      /\ n + i = i + n /\ n + (i + 1) = (i + n) + 1
      /\ i + n \in 1 .. (Len(units) - 1) /\ i \in Nat \ {0}
  BY <1>1, <1>2, <1>3
<1>5. rest[i] = units[i + n] /\ rest[i + 1] = units[(i + n) + 1]
  <2>1. rest[i] = units[n + i] /\ rest[i + 1] = units[n + (i + 1)]
    BY <1>1, <1>4
  <2> QED
    BY <1>4, <2>1
<1>6. WholeAt(units, i + n)
  BY <1>2, <1>5 DEF WholeAt
<1> QED
  BY <1>4, <1>5, <1>6, StartsAre

\* If the first k elements stand before what is gone, the others or less are left.
LEMMA DropRemains ==
    ASSUME NEW units \in Seq(Unit), NEW n \in 0 .. Len(units),
           NEW k \in 0 .. Len(Intact(units)),
           \A i \in Starts(units) : i > n => Rank(Starts(units), i) > k
    PROVE  /\ SubSeq(units, n + 1, Len(units)) \in Seq(Unit)
           /\ Intact(SubSeq(units, n + 1, Len(units)))
                \in P!Remains(SubSeq(Intact(units), k + 1, Len(Intact(units))))
<1> DEFINE rest == SubSeq(units, n + 1, Len(units))
           all == Intact(units)
           q == SubSeq(all, k + 1, Len(all))
           S == Starts(units)
           T == Starts(rest)
           place == [i \in T |-> Rank(S, i + n) - k]
<1>1. rest \in Seq(Unit)
  BY DropFacts
<1>2. \A i \in T : i \in Nat \ {0} /\ i + n \in S /\ rest[i].of = units[i + n].of
  BY ZenonT(30), DropStarts
<1>3. /\ all \in Seq(Element) /\ Len(all) = Cardinality(S)
      /\ \A i \in S : all[Rank(S, i)] = units[i].of
  BY IntactIs
<1>4. Len(units) \in Nat /\ S \subseteq 1 .. Len(units) /\ Len(all) \in Nat
  BY <1>3, LenProperties, StartsAre
<1>5. /\ \A i \in S : Rank(S, i) \in 1 .. Len(all)
      /\ \A i, j \in S : i < j => Rank(S, i) < Rank(S, j)
  BY <1>3, <1>4, RankFacts
<1>6. \A i \in S : i > n => Rank(S, i) > k
  OBVIOUS
<1>7. n \in Nat /\ k \in Nat /\ k <= Len(all)
  BY <1>4
<1>8. /\ q \in Seq(Element) /\ Len(q) = Len(all) - k
      /\ \A j \in 1 .. (Len(all) - k) : q[j] = all[k + j]
  <2>1. \A j \in (k + 1) .. Len(all) : all[j] \in Element
    BY <1>3, <1>4, <1>7, ElementOfSeq
  <2>2. /\ q \in Seq(Element)
        /\ Len(q) = IF k + 1 <= Len(all) THEN Len(all) - (k + 1) + 1 ELSE 0
        /\ \A j \in 1 .. (Len(all) - (k + 1) + 1) : q[j] = all[k + 1 + j - 1]
    BY <1>4, <1>7, <2>1, SubSeqProperties
  <2> QED
    BY <1>4, <1>7, <2>2
<1> HIDE DEF rest, all, q, S, T
<1>9. ASSUME NEW i \in T
      PROVE  /\ Rank(S, i + n) - k \in 1 .. Len(q)
             /\ q[Rank(S, i + n) - k] = rest[i].of
  <2>1. i + n \in S /\ i + n > n
    BY <1>2, <1>7
  <2>2. Rank(S, i + n) \in 1 .. Len(all) /\ Rank(S, i + n) > k
    BY <1>5, <1>6, <2>1
  <2>3. Rank(S, i + n) - k \in 1 .. (Len(all) - k) /\ k + (Rank(S, i + n) - k) = Rank(S, i + n)
    BY <1>4, <1>7, <2>2
  <2>4. q[Rank(S, i + n) - k] = all[Rank(S, i + n)]
    BY <1>8, <2>3
  <2> QED
    BY <1>2, <1>3, <1>8, <2>1, <2>3, <2>4
<1>10. place \in [T -> 1 .. Len(q)] /\ \A i \in T : q[place[i]] = rest[i].of
  BY <1>9
<1>11. ASSUME NEW i \in T, NEW j \in T, i < j
       PROVE  place[i] < place[j]
  <2>1. i + n \in S /\ j + n \in S /\ i + n < j + n
    BY <1>2, <1>7, <1>11
  <2>2. Rank(S, i + n) < Rank(S, j + n) /\ Rank(S, i + n) \in Nat /\ Rank(S, j + n) \in Nat
    BY <1>5, <2>1
  <2> QED
    BY <1>7, <2>2
<1>12. Intact(rest) \in P!Remains(q)
  <2> HIDE DEF place
  <2>1. place \in [Starts(rest) -> 1 .. Len(q)] /\ \A i \in Starts(rest) : q[place[i]] = rest[i].of
    BY <1>10 DEF T
  <2>2. \A i, j \in Starts(rest) : i < j => place[i] < place[j]
    BY <1>11 DEF T
  <2> QED
    BY <1>1, <1>8, <2>1, <2>2, IntactRemains
<1> QED
  BY <1>1, <1>12 DEF rest, q, all

\* The first n units only.
LEMMA TakeFacts ==
    ASSUME NEW units \in Seq(Unit), NEW n \in 0 .. Len(units)
    PROVE  /\ SubSeq(units, 1, n) \in Seq(Unit) /\ Len(SubSeq(units, 1, n)) = n
           /\ \A j \in 1 .. n : SubSeq(units, 1, n)[j] = units[j]
<1>1. Len(units) \in Nat /\ n \in Nat /\ n <= Len(units)
  BY LenProperties
<1>2. \A j \in 1 .. n : units[j] \in Unit
  BY <1>1, ElementOfSeq
<1>3. /\ SubSeq(units, 1, n) \in Seq(Unit)
      /\ Len(SubSeq(units, 1, n)) = IF 1 <= n THEN n - 1 + 1 ELSE 0
      /\ \A i \in 1 .. (n - 1 + 1) : SubSeq(units, 1, n)[i] = units[1 + i - 1]
  BY <1>1, <1>2, SubSeqProperties
<1> QED
  BY <1>1, <1>3

\* If no element after the first k stands before position n, the first k or less do.
LEMMA TakeRemains ==
    ASSUME NEW units \in Seq(Unit), NEW n \in 0 .. Len(units),
           NEW k \in 0 .. Len(Intact(units)),
           \A i \in Starts(units) : i <= n => Rank(Starts(units), i) <= k
    PROVE  /\ SubSeq(units, 1, n) \in Seq(Unit)
           /\ SubSeq(Intact(units), 1, k) \in Seq(Element)
           /\ Intact(SubSeq(units, 1, n)) \in P!Remains(SubSeq(Intact(units), 1, k))
<1> DEFINE front == SubSeq(units, 1, n)
           all == Intact(units)
           q == SubSeq(all, 1, k)
           S == Starts(units)
           T == Starts(front)
           place == [i \in T |-> Rank(S, i)]
<1>1. front \in Seq(Unit) /\ Len(front) = n /\ \A j \in 1 .. n : front[j] = units[j]
  BY TakeFacts
<1>2. /\ all \in Seq(Element) /\ Len(all) = Cardinality(S)
      /\ \A i \in S : all[Rank(S, i)] = units[i].of
  BY IntactIs
<1>3. Len(units) \in Nat /\ S \subseteq 1 .. Len(units) /\ Len(all) \in Nat
  BY <1>2, LenProperties, StartsAre
<1>4. n \in Nat /\ n <= Len(units) /\ k \in Nat /\ k <= Len(all)
  BY <1>3
<1>5. ASSUME NEW i \in T
      PROVE  i \in S /\ i <= n /\ front[i].of = units[i].of
  <2>1. i \in 1 .. (Len(front) - 1) /\ WholeAt(front, i)
    BY <1>1, StartsAre
  <2>2. /\ i \in 1 .. n /\ i + 1 \in 1 .. n /\ i \in 1 .. (Len(units) - 1)
    BY <1>1, <1>3, <1>4, <2>1
  <2>3. front[i] = units[i] /\ front[i + 1] = units[i + 1]
    BY <1>1, <2>2
  <2>4. WholeAt(units, i)
    BY <2>1, <2>3 DEF WholeAt
  <2> QED
    BY <2>2, <2>3, <2>4, StartsAre
<1>6. /\ \A i \in S : Rank(S, i) \in 1 .. Len(all)
      /\ \A i, j \in S : i < j => Rank(S, i) < Rank(S, j)
  BY <1>2, <1>3, RankFacts
<1>7. \A i \in S : i <= n => Rank(S, i) <= k
  OBVIOUS
<1>8. q \in Seq(Element) /\ Len(q) = k /\ \A j \in 1 .. k : q[j] = all[j]
  <2>1. \A j \in 1 .. k : all[j] \in Element
    BY <1>2, <1>3, <1>4, ElementOfSeq
  <2>2. /\ q \in Seq(Element)
        /\ Len(q) = IF 1 <= k THEN k - 1 + 1 ELSE 0
        /\ \A j \in 1 .. (k - 1 + 1) : q[j] = all[1 + j - 1]
    BY <1>4, <2>1, SubSeqProperties
  <2> QED
    BY <1>4, <2>2
<1> HIDE DEF front, all, q, S, T
<1>9. ASSUME NEW i \in T
      PROVE  Rank(S, i) \in 1 .. Len(q) /\ q[Rank(S, i)] = front[i].of
  <2>1. i \in S /\ Rank(S, i) \in 1 .. k
    BY <1>4, <1>5, <1>6, <1>7
  <2> QED
    BY <1>2, <1>5, <1>8, <2>1
<1>10. place \in [T -> 1 .. Len(q)] /\ \A i \in T : q[place[i]] = front[i].of
  BY <1>9
<1>11. \A i, j \in T : i < j => place[i] < place[j]
  BY <1>5, <1>6
<1>12. Intact(front) \in P!Remains(q)
  <2> HIDE DEF place
  <2>1. /\ place \in [Starts(front) -> 1 .. Len(q)]
        /\ \A i \in Starts(front) : q[place[i]] = front[i].of
        /\ \A i, j \in Starts(front) : i < j => place[i] < place[j]
    BY <1>10, <1>11 DEF T
  <2> QED
    BY <1>1, <1>8, <2>1, IntactRemains
<1> QED
  BY <1>1, <1>8, <1>12 DEF front, q, all

LEMMA SmallestNat ==
    ASSUME NEW T, T \subseteq Nat, T # {}
    PROVE  \E x \in T : \A y \in T : x <= y
<1> DEFINE R == OpToRel(<, Nat)
<1>1. \A x, y \in Nat : y < x => <<y, x>> \in R
  <2>1. R = {ss \in Nat \X Nat : ss[1] < ss[2]}
    BY DEF OpToRel
  <2> QED
    BY <2>1
<1>2. IsWellFoundedOn(R, Nat)
  BY NatLessThanWellFounded
<1> HIDE DEF R
<1>3. PICK x \in T : \A y \in T : ~(<<y, x>> \in R)
  BY <1>2, WFMin
<1>4. ASSUME NEW y \in T PROVE x <= y
  <2>1. x \in Nat /\ y \in Nat /\ ~(y < x)
    BY <1>1, <1>3
  <2> QED
    BY <2>1
<1> QED
  BY <1>4

\* The first frame ends with the first end_of_message.
LEMMA FirstFrameIs ==
    ASSUME NEW units \in Seq(Unit), Delimiters(units) # {}
    PROVE  /\ FirstFrame(units) \in Delimiters(units) /\ FirstFrame(units) \in 2 .. Len(units)
           /\ \A j \in Delimiters(units) : FirstFrame(units) <= j
<1>1. Len(units) \in Nat
  BY LenProperties
<1>2. Delimiters(units) \subseteq 2 .. Len(units)
  BY DEF Delimiters
<1>3. Delimiters(units) \subseteq Nat
  BY <1>1, <1>2
<1>4. \E k \in Delimiters(units) : \A j \in Delimiters(units) : k <= j
  BY ONLY <1>3, Delimiters(units) # {}, SmallestNat
<1> QED
  BY <1>2, <1>4 DEF FirstFrame

\* A frame has the first elements that stand whole, or less, and what follows it has others.
LEMMA FrameIntact ==
    ASSUME NEW units \in Seq(Unit), Delimiters(units) # {}
    PROVE  \E k \in 0 .. Len(Intact(units)) :
              /\ Intact(SubSeq(units, 1, FirstFrame(units) - 2))
                    \in P!Remains(SubSeq(Intact(units), 1, k))
              /\ SubSeq(units, 1, FirstFrame(units) - 2) \in Seq(Unit)
              /\ SubSeq(Intact(units), 1, k) \in Seq(Element)
              /\ \A i \in Starts(units) : i > FirstFrame(units) => Rank(Starts(units), i) > k
<1> DEFINE last == FirstFrame(units)
           k == Rank(Starts(units), last)
<1>1. last \in 2 .. Len(units) /\ Len(units) \in Nat
  BY FirstFrameIs, LenProperties
<1>2. Starts(units) \subseteq 1 .. Len(units) /\ Len(Intact(units)) = Cardinality(Starts(units))
  BY StartsAre, IntactIs
<1> HIDE DEF last
<1>3. /\ k \in 0 .. Len(Intact(units))
      /\ \A i \in Starts(units) :
            IF i <= last THEN Rank(Starts(units), i) <= k ELSE Rank(Starts(units), i) > k
  <2>1. last \in Nat
    BY <1>1
  <2> QED
    BY <1>1, <1>2, <2>1, RankParts
<1> HIDE DEF k
<1>4. last - 2 \in 0 .. Len(units) /\ \A i \in 1 .. Len(units) : i <= last - 2 => i <= last
  BY <1>1
<1>5. \A i \in Starts(units) : i <= last - 2 => Rank(Starts(units), i) <= k
  BY <1>2, <1>3, <1>4
<1>6. /\ SubSeq(units, 1, last - 2) \in Seq(Unit)
      /\ SubSeq(Intact(units), 1, k) \in Seq(Element)
      /\ Intact(SubSeq(units, 1, last - 2)) \in P!Remains(SubSeq(Intact(units), 1, k))
  BY <1>3, <1>4, <1>5, TakeRemains
<1>7. \A i \in Starts(units) : i > last => Rank(Starts(units), i) > k
  <2>1. \A i \in 1 .. Len(units) : i > last => ~(i <= last)
    BY <1>1
  <2> QED
    BY <1>2, <1>3, <2>1
<1> QED
  BY <1>3, <1>6, <1>7 DEF last

\* Whatever the receivers get from a frame that was written is of its whole elements.
LEMMA UpdatesAre ==
    ASSUME NEW units \in Seq(Unit), NEW update \in Updates(units)
    PROVE  /\ update.elements \in P!Remains(Intact(units)) /\ update.elements \in Seq(Element)
           /\ update.garbled \in BOOLEAN
<1>1. Intact(units) \in Seq(Element)
  BY IntactIs
<1>2. Intact(units) \in P!Remains(Intact(units))
  BY <1>1, P!RemainsAll
<1>3. C!Remains(Intact(units)) = P!Remains(Intact(units))
  BY DEF P!Remains, C!Remains, P!Choices, C!Choices
<1>4. update.elements \in P!Remains(Intact(units)) /\ update.garbled \in BOOLEAN
  <2>1. \/ update \in [elements : {Intact(units)}, garbled : {FALSE}]
        \/ update \in [elements : C!Remains(Intact(units)), garbled : BOOLEAN]
    BY DEF Updates
  <2>2. CASE update \in [elements : {Intact(units)}, garbled : {FALSE}]
    BY <1>2, <2>2
  <2>3. CASE update \in [elements : C!Remains(Intact(units)), garbled : BOOLEAN]
    BY <1>3, <2>3
  <2> QED
    BY <2>1, <2>2, <2>3
<1>5. update.elements \in Seq(Element)
  BY <1>1, <1>4, P!RemainsPicks
<1> QED
  BY <1>4, <1>5
-----------------------------------------------------------------------------
(* Writing                                                                 *)

LEMMA ConcatAt ==
    ASSUME NEW S, NEW a \in Seq(S), NEW b \in Seq(S)
    PROVE  /\ a \o b \in Seq(S) /\ Len(a \o b) = Len(a) + Len(b)
           /\ \A i \in 1 .. Len(a) : (a \o b)[i] = a[i]
           /\ \A i \in 1 .. Len(b) : (a \o b)[Len(a) + i] = b[i]
<1>1. Len(a) \in Nat /\ Len(b) \in Nat
  BY LenProperties
<1>2. /\ a \o b \in Seq(S) /\ Len(a \o b) = Len(a) + Len(b)
      /\ \A i \in 1 .. (Len(a) + Len(b)) :
            (a \o b)[i] = IF i <= Len(a) THEN a[i] ELSE b[i - Len(a)]
  BY ConcatProperties
<1>3. ASSUME NEW i \in 1 .. Len(a) PROVE (a \o b)[i] = a[i]
  <2>1. i \in 1 .. (Len(a) + Len(b)) /\ i <= Len(a)
    BY <1>1
  <2> QED
    BY <1>2, <2>1
<1>4. ASSUME NEW i \in 1 .. Len(b) PROVE (a \o b)[Len(a) + i] = b[i]
  <2>1. /\ Len(a) + i \in 1 .. (Len(a) + Len(b)) /\ ~(Len(a) + i <= Len(a))
        /\ (Len(a) + i) - Len(a) = i
    BY <1>1
  <2> QED
    BY <1>2, <2>1
<1> QED
  BY <1>2, <1>3, <1>4

LEMMA ElementsAre ==
    ASSUME NEW m \in Messages
    PROVE  /\ Size[m] \in Nat \ {0} /\ m \in Nat \ {0}
           /\ Elements(m) \in Seq(Element) /\ Len(Elements(m)) = Size[m]
           /\ \A k \in 1 .. Size[m] : /\ Elements(m)[k] = [msg |-> m, nr |-> k]
                                      /\ Elements(m)[k] \in Element
<1>1. Size[m] \in Nat \ {0} /\ m \in Nat \ {0}
  BY ConnectionAssumption DEF Messages, Ends
<1>2. ASSUME NEW k \in 1 .. Size[m]
      PROVE  [msg |-> m, nr |-> k] \in Element
  <2>1. k \in Nat \ {0} /\ k <= Size[m]
    BY <1>1
  <2>2. [msg |-> m, nr |-> k] \in [msg : Messages, nr : Nat \ {0}]
    BY <2>1
  <2> QED
    BY <2>1, <2>2 DEF Element
<1>3. Elements(m) \in [1 .. Size[m] -> Element]
  BY <1>2 DEF Elements
<1>4. Elements(m) \in Seq(Element) /\ Len(Elements(m)) = Size[m]
  BY <1>1, <1>3, FunctionIsSeq
<1>5. \A k \in 1 .. Size[m] : Elements(m)[k] = [msg |-> m, nr |-> k]
  BY DEF Elements
<1> QED
  BY <1>1, <1>2, <1>4, <1>5

\* Every position of a payload is the first or the second of one of its elements.
LEMMA Halves ==
    ASSUME NEW s \in Nat, NEW j \in 1 .. 2 * s
    PROVE  \/ \E k \in 1 .. s : j = 2 * k - 1
           \/ \E k \in 1 .. s : j = 2 * k
<1> DEFINE k == (j + 1) \div 2
<1>1. k \in 1 .. s /\ (j = 2 * k - 1 \/ j = 2 * k)
  OBVIOUS
<1> HIDE DEF k
<1> QED
  BY <1>1

LEMMA PayloadIs ==
    ASSUME NEW m \in Messages
    PROVE  /\ Payload(m) \in Seq(Unit) /\ Len(Payload(m)) = 2 * Size[m]
           /\ \A k \in 1 .. Size[m] :
                 /\ Payload(m)[2 * k - 1] = [of |-> [msg |-> m, nr |-> k], half |-> 1]
                 /\ Payload(m)[2 * k] = [of |-> [msg |-> m, nr |-> k], half |-> 2]
<1> DEFINE s == Size[m]
<1>1. s \in Nat \ {0} /\ \A k \in 1 .. s : /\ Elements(m)[k] = [msg |-> m, nr |-> k]
                                          /\ Elements(m)[k] \in Element
  BY ElementsAre
<1> HIDE DEF s
<1>2. \A i \in 1 .. 2 * s : (i + 1) \div 2 \in 1 .. s /\ 2 - (i % 2) \in {1, 2}
  BY <1>1
<1>3. Payload(m) \in [1 .. 2 * s -> Unit]
  <2>1. \A i \in 1 .. 2 * s :
           [of |-> Elements(m)[(i + 1) \div 2], half |-> 2 - (i % 2)] \in Unit
    BY <1>1, <1>2 DEF Unit
  <2> QED
    BY <2>1 DEF Payload, s
<1>4. 2 * s \in Nat
  BY <1>1
<1>5. Payload(m) \in Seq(Unit) /\ Len(Payload(m)) = 2 * s
  BY <1>3, <1>4, FunctionIsSeq
<1>6. ASSUME NEW k \in 1 .. s
      PROVE  /\ Payload(m)[2 * k - 1] = [of |-> [msg |-> m, nr |-> k], half |-> 1]
             /\ Payload(m)[2 * k] = [of |-> [msg |-> m, nr |-> k], half |-> 2]
  <2>1. /\ 2 * k - 1 \in 1 .. 2 * s /\ ((2 * k - 1) + 1) \div 2 = k /\ 2 - ((2 * k - 1) % 2) = 1
        /\ 2 * k \in 1 .. 2 * s /\ (2 * k + 1) \div 2 = k /\ 2 - ((2 * k) % 2) = 2
    BY <1>1
  <2>2. \A i \in 1 .. 2 * s :
           Payload(m)[i] = [of |-> Elements(m)[(i + 1) \div 2], half |-> 2 - (i % 2)]
    BY DEF Payload, s
  <2>3. Payload(m)[2 * k - 1] = [of |-> Elements(m)[k], half |-> 1]
    BY ONLY <2>1, <2>2
  <2>4. Payload(m)[2 * k] = [of |-> Elements(m)[k], half |-> 2]
    BY ONLY <2>1, <2>2
  <2> QED
    BY <1>1, <2>3, <2>4
<1> QED
  BY <1>5, <1>6 DEF s

LEMMA EndOfMessageIs ==
    /\ EndOfMessage \in Seq(Unit) /\ Len(EndOfMessage) = 2
    /\ EndOfMessage[1] = [of |-> Delimiter, half |-> 1]
    /\ EndOfMessage[2] = [of |-> Delimiter, half |-> 2]
    /\ EndOfMessage[1] # EndOfMessage[2]
<1>1. [of |-> Delimiter, half |-> 1] \in Unit /\ [of |-> Delimiter, half |-> 2] \in Unit
  BY DEF Unit
<1>2. [of |-> Delimiter, half |-> 1] # [of |-> Delimiter, half |-> 2]
  <2>1. [of |-> Delimiter, half |-> 1].half # [of |-> Delimiter, half |-> 2].half
    OBVIOUS
  <2> QED
    BY <2>1
<1> QED
  BY <1>1, <1>2 DEF EndOfMessage

\* Every unit that a message is written as.
UnitOf(m, u, j, last) ==
    \/ \E k \in 1 .. Size[m] : j = 2 * k - 1 /\ u = [of |-> [msg |-> m, nr |-> k], half |-> 1]
    \/ u.half = 2 /\ u.of \in Element
    \/ u = EndOfMessage[1]
    \/ u = EndOfMessage[2] /\ (j = last \/ (m \in Embedding /\ j = last - 3))

LEMMA EncodeIs ==
    ASSUME NEW m \in Messages
    PROVE  /\ Encode(m) \in Seq(Unit)
           /\ Len(Encode(m)) = 2 * Size[m] + (IF m \in Embedding THEN 4 ELSE 2)
           /\ Encode(m)[1] = [of |-> [msg |-> m, nr |-> 1], half |-> 1]
           /\ \A j \in 1 .. Len(Encode(m)) : UnitOf(m, Encode(m)[j], j, Len(Encode(m)))
           /\ m \notin Embedding =>
                 /\ \A j \in 1 .. (2 * Size[m]) : Encode(m)[j] = Payload(m)[j]
                 /\ Encode(m)[2 * Size[m] + 1] = EndOfMessage[1]
                 /\ Encode(m)[2 * Size[m] + 2] = EndOfMessage[2]
<1> DEFINE s == Size[m]
           n == 2 * s
           body == Payload(m)
           E == EndOfMessage
           enc == Encode(m)
<1>0. \A v, w \in Seq(Unit) :
         /\ v \o w \in Seq(Unit) /\ Len(v \o w) = Len(v) + Len(w)
         /\ \A i \in 1 .. Len(v) : (v \o w)[i] = v[i]
         /\ \A i \in 1 .. Len(w) : (v \o w)[Len(v) + i] = w[i]
  BY ConcatAt
<1>1. s \in Nat \ {0} /\ \A k \in 1 .. s : [msg |-> m, nr |-> k] \in Element
  BY ElementsAre
<1>2. /\ body \in Seq(Unit) /\ Len(body) = n
      /\ \A k \in 1 .. s : /\ body[2 * k - 1] = [of |-> [msg |-> m, nr |-> k], half |-> 1]
                           /\ body[2 * k] = [of |-> [msg |-> m, nr |-> k], half |-> 2]
  BY PayloadIs
<1>3. E \in Seq(Unit) /\ Len(E) = 2
  BY EndOfMessageIs
<1>4. m \in Embedding => enc = ((SubSeq(body, 1, n - 1) \o E) \o SubSeq(body, n, n)) \o E
  BY DEF Encode
<1>5. m \notin Embedding => enc = body \o E
  BY DEF Encode
<1> HIDE DEF s, body, E, enc
<1>6. n \in Nat /\ n >= 2 /\ 1 \in 1 .. s /\ 2 * 1 - 1 = 1 /\ s \in 1 .. s /\ 2 * s = n
  BY <1>1
<1>7. ASSUME NEW j \in 1 .. n, NEW last
      PROVE  UnitOf(m, body[j], j, last)
  <2>1. CASE \E k \in 1 .. s : j = 2 * k - 1
    BY <1>2, <2>1 DEF UnitOf, s
  <2>2. CASE \E k \in 1 .. s : j = 2 * k
    <3>1. PICK k \in 1 .. s : j = 2 * k
      BY <2>2
    <3>2. body[j] = [of |-> [msg |-> m, nr |-> k], half |-> 2]
      BY <1>2, <3>1
    <3>3. body[j].half = 2 /\ body[j].of = [msg |-> m, nr |-> k]
      BY <3>2
    <3>4. body[j].of \in Element
      BY <1>1, <3>3
    <3> QED
      BY <3>3, <3>4 DEF UnitOf
  <2> QED
    BY <1>1, <2>1, <2>2, Halves
<1>8. body[1] = [of |-> [msg |-> m, nr |-> 1], half |-> 1]
  BY <1>2, <1>6
<1> HIDE DEF n
<1>9. CASE m \notin Embedding
  <2>1. /\ enc \in Seq(Unit) /\ Len(enc) = n + 2
        /\ \A i \in 1 .. n : enc[i] = body[i]
        /\ enc[n + 1] = E[1] /\ enc[n + 2] = E[2]
    <3>1. /\ body \o E \in Seq(Unit) /\ Len(body \o E) = Len(body) + Len(E)
          /\ \A i \in 1 .. Len(body) : (body \o E)[i] = body[i]
          /\ \A i \in 1 .. Len(E) : (body \o E)[Len(body) + i] = E[i]
      BY <1>0, <1>2, <1>3, Zenon
    <3>2. enc = body \o E /\ Len(body) = n /\ Len(E) = 2
      BY <1>2, <1>3, <1>5, <1>9
    <3> QED
      BY <1>6, <3>1, <3>2
  <2>2. ASSUME NEW j \in 1 .. (n + 2)
        PROVE  UnitOf(m, enc[j], j, n + 2)
    <3>1. j \in 1 .. n \/ j = n + 1 \/ j = n + 2
      BY <1>6
    <3>2. CASE j \in 1 .. n
      BY <1>7, <2>1, <3>2
    <3>3. CASE j = n + 1
      BY <2>1, <3>3 DEF UnitOf, E
    <3>4. CASE j = n + 2
      BY <2>1, <3>4 DEF UnitOf, E
    <3> QED
      BY <3>1, <3>2, <3>3, <3>4
  <2>3. enc[1] = [of |-> [msg |-> m, nr |-> 1], half |-> 1]
    BY <1>6, <1>8, <2>1
  <2> QED
    BY <1>9, <2>1, <2>2, <2>3 DEF enc, n, s, body, E
<1>10. CASE m \in Embedding
  <2> DEFINE a == SubSeq(body, 1, n - 1)
             b == SubSeq(body, n, n)
  <2>1. /\ a \in Seq(Unit) /\ Len(a) = n - 1 /\ \A i \in 1 .. (n - 1) : a[i] = body[i]
        /\ b \in Seq(Unit) /\ Len(b) = 1 /\ b[1] = body[n]
    <3>1. \A i \in 1 .. n : body[i] \in Unit
      BY <1>2, ElementOfSeq
    <3>2. /\ a \in Seq(Unit) /\ Len(a) = IF 1 <= n - 1 THEN (n - 1) - 1 + 1 ELSE 0
          /\ \A i \in 1 .. ((n - 1) - 1 + 1) : a[i] = body[1 + i - 1]
      BY <1>2, <1>6, <3>1, SubSeqProperties
    <3>3. /\ b \in Seq(Unit) /\ Len(b) = IF n <= n THEN n - n + 1 ELSE 0
          /\ \A i \in 1 .. (n - n + 1) : b[i] = body[n + i - 1]
      BY <1>2, <1>6, <3>1, SubSeqProperties
    <3> HIDE DEF a, b
    <3>4. a \in Seq(Unit) /\ Len(a) = n - 1 /\ \A i \in 1 .. (n - 1) : a[i] = body[i]
      BY <1>6, <3>2
    <3>5. b \in Seq(Unit) /\ Len(b) = 1 /\ b[1] = body[n]
      <4>1. n <= n /\ n - n + 1 = 1 /\ 1 \in 1 .. (n - n + 1) /\ n + 1 - 1 = n
        BY <1>6
      <4> QED
        BY <3>3, <4>1
    <3> QED
      BY <3>4, <3>5
  <2>2. enc = ((a \o E) \o b) \o E
    BY <1>4, <1>10
  <2> HIDE DEF a, b
  <2> DEFINE x == a \o E
             y == x \o b
  <2>3. /\ x \in Seq(Unit) /\ Len(x) = n + 1
        /\ \A i \in 1 .. (n - 1) : x[i] = body[i]
        /\ x[n] = E[1] /\ x[n + 1] = E[2]
    <3>1. /\ x \in Seq(Unit) /\ Len(x) = Len(a) + Len(E)
          /\ \A i \in 1 .. Len(a) : x[i] = a[i]
          /\ \A i \in 1 .. Len(E) : x[Len(a) + i] = E[i]
      BY <1>0, <1>3, <2>1, Zenon
    <3> HIDE DEF x
    <3>2. x[(n - 1) + 1] = E[1] /\ x[(n - 1) + 2] = E[2]
      BY <1>3, <2>1, <3>1
    <3> QED
      BY <1>3, <1>6, <2>1, <3>1, <3>2
  <2> HIDE DEF x
  <2>4. /\ y \in Seq(Unit) /\ Len(y) = n + 2
        /\ \A i \in 1 .. (n + 1) : y[i] = x[i]
        /\ y[n + 2] = body[n]
    <3>1. /\ y \in Seq(Unit) /\ Len(y) = Len(x) + Len(b)
          /\ \A i \in 1 .. Len(x) : y[i] = x[i]
          /\ \A i \in 1 .. Len(b) : y[Len(x) + i] = b[i]
      BY <1>0, <2>1, <2>3, Zenon
    <3> HIDE DEF y
    <3>2. y[(n + 1) + 1] = b[1]
      BY <2>1, <2>3, <3>1
    <3> QED
      BY <1>6, <2>1, <2>3, <3>1, <3>2
  <2> HIDE DEF y
  <2>5. /\ enc \in Seq(Unit) /\ Len(enc) = n + 4
        /\ \A i \in 1 .. (n + 2) : enc[i] = y[i]
        /\ enc[n + 3] = E[1] /\ enc[n + 4] = E[2]
    <3>1. /\ y \o E \in Seq(Unit) /\ Len(y \o E) = Len(y) + Len(E)
          /\ \A i \in 1 .. Len(y) : (y \o E)[i] = y[i]
          /\ \A i \in 1 .. Len(E) : (y \o E)[Len(y) + i] = E[i]
      BY <1>0, <1>3, <2>4, Zenon
    <3>2. enc = y \o E
      BY <2>2 DEF x, y
    <3>3. enc[(n + 2) + 1] = E[1] /\ enc[(n + 2) + 2] = E[2]
      BY <1>3, <2>4, <3>1, <3>2
    <3> QED
      BY <1>3, <1>6, <2>4, <3>1, <3>2, <3>3
  <2>6. /\ \A i \in 1 .. (n - 1) : enc[i] = body[i]
        /\ enc[n] = E[1] /\ enc[n + 1] = E[2] /\ enc[n + 2] = body[n]
        /\ enc[n + 3] = E[1] /\ enc[n + 4] = E[2]
    BY <1>6, <2>3, <2>4, <2>5
  <2>7. body[n].half = 2 /\ body[n].of \in Element
    <3>1. body[n] = [of |-> [msg |-> m, nr |-> s], half |-> 2]
      BY <1>2, <1>6
    <3>2. body[n].half = 2 /\ body[n].of = [msg |-> m, nr |-> s]
      BY <3>1
    <3> QED
      BY <1>1, <1>6, <3>2
  <2>8. ASSUME NEW j \in 1 .. (n + 4)
        PROVE  UnitOf(m, enc[j], j, n + 4)
    <3>1. \/ j \in 1 .. (n - 1) \/ j = n \/ j = n + 1 \/ j = n + 2 \/ j = n + 3 \/ j = n + 4
      BY <1>6
    <3>2. CASE j \in 1 .. (n - 1)
      <4>1. j \in 1 .. n
        BY <1>6, <3>2
      <4> QED
        BY <1>7, <2>6, <3>2, <4>1
    <3>3. CASE j = n \/ j = n + 3
      BY <2>6, <3>3 DEF UnitOf, E
    <3>4. CASE j = n + 1
      <4>1. j = (n + 4) - 3
        BY <1>6, <3>4
      <4> QED
        BY <1>10, <2>6, <3>4, <4>1 DEF UnitOf, E
    <3>5. CASE j = n + 2
      BY <2>6, <2>7, <3>5 DEF UnitOf
    <3>6. CASE j = n + 4
      BY <2>6, <3>6 DEF UnitOf, E
    <3> QED
      BY <3>1, <3>2, <3>3, <3>4, <3>5, <3>6
  <2>9. enc[1] = [of |-> [msg |-> m, nr |-> 1], half |-> 1]
    BY <1>6, <1>8, <2>6
  <2> QED
    BY <1>10, <2>5, <2>8, <2>9 DEF enc, n, s
<1> QED
  BY <1>9, <1>10
LEMMA WriteFacts ==
    ASSUME NEW units \in Seq(Unit), NEW m \in Messages, NEW n \in 1 .. Len(Encode(m))
    PROVE  LET longer == units \o SubSeq(Encode(m), 1, n) IN
           /\ longer \in Seq(Unit) /\ Len(longer) = Len(units) + n
           /\ \A j \in 1 .. Len(units) : longer[j] = units[j]
           /\ \A j \in 1 .. n : longer[Len(units) + j] = Encode(m)[j]
<1>1. Encode(m) \in Seq(Unit) /\ Len(Encode(m)) \in Nat
  BY EncodeIs, LenProperties
<1>2. n \in 0 .. Len(Encode(m))
  BY <1>1
<1> DEFINE w == SubSeq(Encode(m), 1, n)
<1>3. w \in Seq(Unit) /\ Len(w) = n /\ \A j \in 1 .. n : w[j] = Encode(m)[j]
  BY <1>1, <1>2, TakeFacts
<1> HIDE DEF w
<1>4. /\ units \o w \in Seq(Unit) /\ Len(units \o w) = Len(units) + Len(w)
      /\ \A i \in 1 .. Len(units) : (units \o w)[i] = units[i]
      /\ \A i \in 1 .. Len(w) : (units \o w)[Len(units) + i] = w[i]
  <2>1. \A v, x \in Seq(Unit) :
           /\ v \o x \in Seq(Unit) /\ Len(v \o x) = Len(v) + Len(x)
           /\ \A i \in 1 .. Len(v) : (v \o x)[i] = v[i]
           /\ \A i \in 1 .. Len(x) : (v \o x)[Len(v) + i] = x[i]
    BY ConcatAt
  <2> QED
    BY <1>3, <2>1, Zenon
<1> QED
  BY <1>3, <1>4 DEF w

\* No element comes to stand whole by what is written, but those of the message.
LEMMA WriteStarts ==
    ASSUME NEW units \in Seq(Unit), NEW m \in Messages, NEW n \in 1 .. Len(Encode(m)),
           NEW i \in Starts(units \o SubSeq(Encode(m), 1, n))
    PROVE  LET longer == units \o SubSeq(Encode(m), 1, n) IN
           \/ i \in Starts(units) /\ longer[i].of = units[i].of
           \/ \E k \in 1 .. Size[m] :
                 i = Len(units) + (2 * k - 1) /\ longer[i].of = [msg |-> m, nr |-> k]
<1> DEFINE longer == units \o SubSeq(Encode(m), 1, n)
<1> SUFFICES \/ i \in Starts(units) /\ longer[i].of = units[i].of
             \/ \E k \in 1 .. Size[m] :
                   i = Len(units) + (2 * k - 1) /\ longer[i].of = [msg |-> m, nr |-> k]
  OBVIOUS
<1>0. i \in Starts(longer)
  OBVIOUS
<1>1. /\ longer \in Seq(Unit) /\ Len(longer) = Len(units) + n
      /\ \A j \in 1 .. Len(units) : longer[j] = units[j]
      /\ \A j \in 1 .. n : longer[Len(units) + j] = Encode(m)[j]
  BY WriteFacts
<1> HIDE DEF longer
<1>2. Len(units) \in Nat /\ Len(Encode(m)) \in Nat
  BY EncodeIs, LenProperties
<1>3. /\ i \in 1 .. (Len(longer) - 1)
      /\ longer[i].of \in Element /\ longer[i].half = 1
      /\ longer[i + 1] = [of |-> longer[i].of, half |-> 2]
  BY <1>0, <1>1, StartsAre DEF WholeAt
<1>4. CASE i + 1 <= Len(units)
  <2>1. i \in 1 .. Len(units) /\ i + 1 \in 1 .. Len(units) /\ i \in 1 .. (Len(units) - 1)
    BY <1>2, <1>3, <1>4
  <2>2. longer[i] = units[i] /\ longer[i + 1] = units[i + 1]
    BY <1>1, <2>1
  <2>3. WholeAt(units, i)
    BY <1>3, <2>2 DEF WholeAt
  <2> QED
    BY <2>1, <2>2, <2>3, StartsAre
<1>5. CASE i = Len(units)
  <2>1. longer[i + 1] = [of |-> [msg |-> m, nr |-> 1], half |-> 1]
    <3>1. 1 \in 1 .. n
      BY <1>2
    <3> QED
      BY <1>1, <1>5, <3>1, EncodeIs
  <2>2. longer[i + 1].half = 1
    BY ONLY <2>1
  <2>3. longer[i + 1].half = 2
    BY ONLY <1>3
  <2> QED
    BY ONLY <2>2, <2>3
<1>6. CASE i > Len(units)
  <2> DEFINE j == i - Len(units)
  <2>1. j \in 1 .. n /\ j \in 1 .. Len(Encode(m)) /\ i = Len(units) + j
    BY <1>1, <1>2, <1>3, <1>6
  <2> HIDE DEF j
  <2>2. longer[i] = Encode(m)[j] /\ UnitOf(m, Encode(m)[j], j, Len(Encode(m)))
    BY <1>1, <2>1, EncodeIs
  <2>3. longer[i] # EndOfMessage[1]
    <3>1. EndOfMessage[1].of = Delimiter
      BY EndOfMessageIs
    <3> QED
      BY <1>3, <3>1, ElementIs
  <2>4. longer[i] # EndOfMessage[2]
    <3>1. EndOfMessage[2].of = Delimiter
      BY EndOfMessageIs
    <3> QED
      BY <1>3, <3>1, ElementIs
  <2>5. \E k \in 1 .. Size[m] :
           j = 2 * k - 1 /\ longer[i] = [of |-> [msg |-> m, nr |-> k], half |-> 1]
    <3>1. longer[i].half # 2
      BY <1>3
    <3> QED
      BY <2>2, <2>3, <2>4, <3>1 DEF UnitOf
  <2>6. PICK k \in 1 .. Size[m] :
           j = 2 * k - 1 /\ longer[i] = [of |-> [msg |-> m, nr |-> k], half |-> 1]
    BY <2>5
  <2>7. longer[i].of = [msg |-> m, nr |-> k]
    BY ONLY <2>6
  <2> QED
    BY <2>1, <2>6, <2>7
<1>7. i + 1 <= Len(units) \/ i = Len(units) \/ i > Len(units)
  BY <1>1, <1>2, <1>3
<1> QED
  BY <1>4, <1>5, <1>6, <1>7, Zenon

\* What stands whole after a write is of what stood there before and of the message.
LEMMA WriteRemains ==
    ASSUME NEW units \in Seq(Unit), NEW m \in Messages, NEW n \in 1 .. Len(Encode(m))
    PROVE  /\ units \o SubSeq(Encode(m), 1, n) \in Seq(Unit)
           /\ Intact(units \o SubSeq(Encode(m), 1, n)) \in P!Remains(Intact(units) \o Elements(m))
<1> DEFINE longer == units \o SubSeq(Encode(m), 1, n)
           all == Intact(units)
           q == all \o Elements(m)
           S == Starts(units)
           T == Starts(longer)
           place == [i \in T |-> IF i \in S THEN Rank(S, i) ELSE Len(all) + longer[i].of.nr]
<1>1. longer \in Seq(Unit)
  BY WriteFacts
<1>2. \A i \in T : \/ i \in S /\ longer[i].of = units[i].of
                   \/ \E k \in 1 .. Size[m] :
                         i = Len(units) + (2 * k - 1) /\ longer[i].of = [msg |-> m, nr |-> k]
  BY WriteStarts
<1>3. /\ all \in Seq(Element) /\ Len(all) = Cardinality(S)
      /\ \A i \in S : all[Rank(S, i)] = units[i].of
  BY IntactIs
<1>4. Len(units) \in Nat /\ S \subseteq 1 .. Len(units) /\ Len(all) \in Nat
  BY <1>3, LenProperties, StartsAre
<1>5. /\ \A i \in S : Rank(S, i) \in 1 .. Len(all)
      /\ \A i, j \in S : i < j => Rank(S, i) < Rank(S, j)
  BY <1>3, <1>4, RankFacts
<1>6. /\ Size[m] \in Nat
      /\ Elements(m) \in Seq(Element) /\ Len(Elements(m)) = Size[m]
      /\ \A k \in 1 .. Size[m] : Elements(m)[k] = [msg |-> m, nr |-> k]
  BY ElementsAre
<1>7. /\ q \in Seq(Element) /\ Len(q) = Len(all) + Size[m]
      /\ \A j \in 1 .. Len(all) : q[j] = all[j]
      /\ \A k \in 1 .. Size[m] : q[Len(all) + k] = [msg |-> m, nr |-> k]
  <2>1. /\ q \in Seq(Element) /\ Len(q) = Len(all) + Len(Elements(m))
        /\ \A j \in 1 .. Len(all) : q[j] = all[j]
        /\ \A k \in 1 .. Len(Elements(m)) : q[Len(all) + k] = Elements(m)[k]
    <3>1. \A v, x \in Seq(Element) :
             /\ v \o x \in Seq(Element) /\ Len(v \o x) = Len(v) + Len(x)
             /\ \A i \in 1 .. Len(v) : (v \o x)[i] = v[i]
             /\ \A i \in 1 .. Len(x) : (v \o x)[Len(v) + i] = x[i]
      BY ConcatAt
    <3> QED
      BY <1>3, <1>6, <3>1, Zenon
  <2> HIDE DEF q
  <2> QED
    BY <1>6, <2>1
<1> HIDE DEF longer, all, q, S, T
<1>8. ASSUME NEW i \in T, i \notin S
      PROVE  \E k \in 1 .. Size[m] : /\ i = Len(units) + (2 * k - 1)
                                     /\ longer[i].of = [msg |-> m, nr |-> k]
                                     /\ place[i] = Len(all) + k
  <2>1. PICK k \in 1 .. Size[m] : i = Len(units) + (2 * k - 1) /\ longer[i].of = [msg |-> m, nr |-> k]
    BY <1>2, <1>8
  <2>2. longer[i].of.nr = k
    BY <2>1
  <2>3. place[i] = Len(all) + k
    BY <1>8, <2>2
  <2> QED
    BY <2>1, <2>3
<1>9. ASSUME NEW i \in T
      PROVE  place[i] \in 1 .. Len(q) /\ q[place[i]] = longer[i].of
  <2>1. CASE i \in S
    <3>1. longer[i].of = units[i].of
      <4> SUFFICES ASSUME NEW k \in 1 .. Size[m], i = Len(units) + (2 * k - 1) PROVE FALSE
        BY <1>2
      <4>1. i \in 1 .. Len(units) /\ k \in Nat \ {0}
        BY <1>4, <1>6, <2>1
      <4> QED
        BY <1>4, <4>1
    <3>2. place[i] = Rank(S, i) /\ Rank(S, i) \in 1 .. Len(all)
      BY <1>5, <2>1
    <3>3. q[Rank(S, i)] = all[Rank(S, i)]
      BY <1>7, <3>2
    <3>4. Rank(S, i) \in 1 .. Len(q)
      BY <1>4, <1>6, <1>7, <3>2
    <3> HIDE DEF place
    <3> QED
      BY <1>3, <2>1, <3>1, <3>2, <3>3, <3>4
  <2>2. CASE i \notin S
    <3>1. PICK k \in 1 .. Size[m] : /\ longer[i].of = [msg |-> m, nr |-> k]
                                    /\ place[i] = Len(all) + k
      BY <1>8, <2>2
    <3> HIDE DEF place
    <3>2. Len(all) + k \in 1 .. Len(q)
      BY <1>4, <1>6, <1>7
    <3> QED
      BY <1>7, <3>1, <3>2
  <2> QED
    BY <2>1, <2>2
<1>10. ASSUME NEW i \in T, NEW j \in T, i < j
       PROVE  place[i] < place[j]
  <2>1. CASE i \in S /\ j \in S
    BY <1>5, <1>10, <2>1
  <2>2. CASE i \in S /\ j \notin S
    <3>1. PICK k \in 1 .. Size[m] : place[j] = Len(all) + k
      BY <1>8, <2>2
    <3>2. place[i] = Rank(S, i) /\ Rank(S, i) \in 1 .. Len(all)
      BY <1>5, <2>2
    <3> HIDE DEF place
    <3> QED
      BY <1>4, <1>6, <3>1, <3>2
  <2>3. CASE i \notin S
    <3>1. PICK k \in 1 .. Size[m] : i = Len(units) + (2 * k - 1) /\ place[i] = Len(all) + k
      BY <1>8, <2>3
    <3>2. j \notin S
      <4>1. k \in Nat \ {0}
        BY <1>6
      <4>2. i > Len(units) /\ i \in Nat
        BY <1>4, <3>1, <4>1
      <4>3. \A x \in S : x \in Nat /\ x <= Len(units)
        BY <1>4
      <4> QED
        BY <1>4, <1>10, <4>2, <4>3
    <3>3. PICK l \in 1 .. Size[m] : j = Len(units) + (2 * l - 1) /\ place[j] = Len(all) + l
      BY <1>8, <3>2
    <3> HIDE DEF place
    <3>4. k < l
      BY <1>4, <1>6, <1>10, <3>1, <3>3
    <3> QED
      BY <1>4, <1>6, <3>1, <3>3, <3>4
  <2> QED
    BY <2>1, <2>2, <2>3
<1>11. Intact(longer) \in P!Remains(q)
  <2>1. place \in [T -> 1 .. Len(q)]
    BY <1>9
  <2> HIDE DEF place
  <2>2. /\ place \in [Starts(longer) -> 1 .. Len(q)]
        /\ \A i \in Starts(longer) : q[place[i]] = longer[i].of
        /\ \A i, j \in Starts(longer) : i < j => place[i] < place[j]
    BY <1>9, <1>10, <2>1 DEF T
  <2> QED
    BY <1>1, <1>7, <2>2, IntactRemains
<1> QED
  BY <1>1, <1>11 DEF longer, q, all
-----------------------------------------------------------------------------
(* The invariant                                                           *)

\* The messages are told apart: a thread has one that was sent, no other thread that is yet
\* to write it has the same, and it was not written before.
MessagesInv ==
    \A e \in Ends :
        /\ calls[e] <= MaxCalls[e]
        /\ \A t \in Threads : thread[e][t].pc # "idle" => thread[e][t].msg \in 1 .. calls[e]
        /\ \A i \in 1 .. Len(written[Peer(e)]) : written[Peer(e)][i].msg \in 1 .. calls[e]
        /\ \A s, t \in Threads :
              /\ s # t
              /\ thread[e][s].pc \in {"set", "write"} /\ thread[e][t].pc \in {"set", "write"}
              => thread[e][s].msg # thread[e][t].msg
        /\ \A t \in Threads : thread[e][t].pc \in {"set", "write"} =>
              \A i \in 1 .. Len(written[Peer(e)]) : written[Peer(e)][i].msg # thread[e][t].msg

IInv == TypeOK /\ MessagesInv

SendThread == [pc : ThreadPcs, msg : Messages \cup {0}]

LEMMA PeerIs ==
    ASSUME NEW e \in Ends
    PROVE  /\ Peer(e) \in Ends /\ Peer(e) # e /\ Peer(Peer(e)) = e
           /\ \A end \in Ends : end = e \/ end = Peer(e)
BY DEF Ends, Peer

LEMMA CallsAreMessages ==
    ASSUME NEW e \in Ends, NEW n \in Nat \ {0}, n <= MaxCalls[e]
    PROVE  n \in Messages
BY ConnectionAssumption DEF Messages, Ends

LEMMA InitInv == Init => IInv
<1> SUFFICES ASSUME Init PROVE IInv
  OBVIOUS
<1>1. IdleThread \in SendThread
  BY DEF IdleThread, SendThread, ThreadPcs
<1>2. thread \in [Ends -> [Threads -> SendThread]]
  BY <1>1 DEF Init
<1>3. /\ wire \in [Ends -> Seq(Unit)] /\ written \in [Ends -> Seq(Element)]
      /\ delivered \in [Ends -> Seq(Element)]
  BY EmptySeq DEF Init
<1>4. TypeOK
  BY <1>2, <1>3 DEF Init, TypeOK, SendThread, Phases
<1>5. ASSUME NEW e \in Ends
      PROVE  /\ calls[e] = 0 /\ Len(written[Peer(e)]) = 0
             /\ \A t \in Threads : thread[e][t].pc = "idle"
  BY PeerIs DEF Init, IdleThread
<1>6. \A e \in Ends : MaxCalls[e] \in Nat
  BY ConnectionAssumption
<1>7. MessagesInv
  BY <1>5, <1>6 DEF MessagesInv
<1> QED
  BY <1>4, <1>7 DEF IInv

\* What the steps of the threads of send make of a thread.
LEMMA ThreadMoves ==
    ASSUME TypeOK, NEW e \in Ends, NEW t \in Threads, NEW p \in ThreadPcs,
           thread' = [thread EXCEPT ![e][t].pc = p]
    PROVE  thread' = [thread EXCEPT ![e][t] = [pc |-> p, msg |-> thread[e][t].msg]]
<1>1. thread[e][t] \in SendThread
  BY DEF TypeOK, SendThread
<1>2. [thread[e][t] EXCEPT !.pc = p] = [pc |-> p, msg |-> thread[e][t].msg]
  BY <1>1 DEF SendThread
<1> QED
  BY <1>2

LEMMA ThreadStep ==
    ASSUME TypeOK, NEW e \in Ends, NEW t \in Threads, NEW u \in SendThread,
           thread' = [thread EXCEPT ![e][t] = u]
    PROVE  /\ thread' \in [Ends -> [Threads -> SendThread]]
           /\ thread'[e][t] = u
           /\ \A end \in Ends, s \in Threads : <<end, s>> # <<e, t>> => thread'[end][s] = thread[end][s]
<1>1. thread \in [Ends -> [Threads -> SendThread]]
  BY DEF TypeOK, SendThread
<1> QED
  BY <1>1

\* A thread that is not to write anything new, or only goes on.
LEMMA MessagesKept ==
    ASSUME IInv, NEW e \in Ends, NEW t \in Threads, NEW u \in SendThread,
           thread' = [thread EXCEPT ![e][t] = u], calls' = calls, written' = written,
           u.pc = "idle" \/ (u.msg = thread[e][t].msg /\ thread[e][t].pc # "idle"),
           u.pc \in {"set", "write"} => thread[e][t].pc \in {"set", "write"}
    PROVE  MessagesInv'
<1>1. /\ thread'[e][t] = u
      /\ \A end \in Ends, s \in Threads : <<end, s>> # <<e, t>> => thread'[end][s] = thread[end][s]
  BY ZenonT(30), ThreadStep DEF IInv
<1>2. ASSUME NEW end \in Ends, NEW s \in Threads
      PROVE  /\ thread'[end][s].pc # "idle" => /\ thread[end][s].pc # "idle"
                                              /\ thread'[end][s].msg = thread[end][s].msg
             /\ thread'[end][s].pc \in {"set", "write"} => thread[end][s].pc \in {"set", "write"}
  <2>1. CASE end = e /\ s = t
    BY <1>1, <2>1
  <2>2. CASE ~(end = e /\ s = t)
    BY <1>1, <2>2
  <2> QED
    BY <2>1, <2>2
<1>3. ASSUME NEW end \in Ends, NEW s \in Threads, thread'[end][s].pc \in {"set", "write"}
      PROVE  thread'[end][s].msg = thread[end][s].msg /\ thread[end][s].pc \in {"set", "write"}
  BY <1>2, <1>3
<1> QED
  BY <1>2, <1>3 DEF IInv, MessagesInv

LEMMA SendInv ==
    ASSUME IInv, NEW e \in Ends, NEW forced \in BOOLEAN, Send(e, forced)
    PROVE  IInv'
<1>1. /\ calls[e] \in Nat /\ MaxCalls[e] \in Nat /\ calls[e] < MaxCalls[e]
      /\ calls' = [calls EXCEPT ![e] = @ + 1] /\ calls \in [Ends -> Nat]
      /\ UNCHANGED <<connectVars, sending, wire, written, readVars, sent>>
  BY ConnectionAssumption DEF IInv, TypeOK, Send
<1>2. calls' \in [Ends -> Nat] /\ calls'[e] = calls[e] + 1 /\ \A end \in Ends : end # e => calls'[end] = calls[end]
  BY <1>1
<1>3. \A end \in Ends : calls[end] \in Nat /\ calls[end] <= calls'[end] /\ calls'[end] <= MaxCalls[end]
  BY <1>1, <1>2 DEF IInv, MessagesInv
<1>4. CASE UNCHANGED thread
  <2>1. TypeOK'
    BY <1>1, <1>2, <1>4 DEF IInv, TypeOK, connectVars, readVars
  <2>2. ASSUME NEW end \in Ends, NEW x \in 1 .. calls[end] PROVE x \in 1 .. calls'[end]
    BY <1>2, <1>3
  <2>3. thread' = thread /\ written' = written
    BY <1>1, <1>4
  <2>4. MessagesInv'
    BY <1>3, <2>2, <2>3, PeerIs DEF IInv, MessagesInv
  <2> QED
    BY <2>1, <2>4 DEF IInv
<1>5. ASSUME NEW t \in Threads, thread[e][t].pc = "idle",
             thread' = [thread EXCEPT ![e][t] = [pc |-> "set", msg |-> calls'[e]]]
      PROVE  IInv'
  <2> DEFINE u == [pc |-> "set", msg |-> calls'[e]]
  <2>1. u \in SendThread
    <3>1. calls'[e] \in Messages
      BY <1>1, <1>2, CallsAreMessages
    <3> QED
      BY <3>1 DEF SendThread, ThreadPcs
  <2>2. u.pc = "set" /\ u.msg = calls[e] + 1
    BY <1>2
  <2> HIDE DEF u
  <2>3. /\ thread' \in [Ends -> [Threads -> SendThread]] /\ thread'[e][t] = u
        /\ \A end \in Ends, s \in Threads : <<end, s>> # <<e, t>> => thread'[end][s] = thread[end][s]
    BY ZenonT(30), <1>5, <2>1, ThreadStep DEF IInv, u
  <2>4. TypeOK'
    BY <1>1, <1>2, <2>3 DEF IInv, TypeOK, SendThread, connectVars, readVars
  <2>5. written' = written
    BY <1>1
  <2>6. ASSUME NEW end \in Ends
        PROVE  /\ \A i \in 1 .. Len(written[Peer(end)]) :
                     written[Peer(end)][i].msg \in 1 .. calls[end] /\ written[Peer(end)][i].msg \in 1 .. calls'[end]
               /\ \A s \in Threads : thread[end][s].pc # "idle" =>
                     thread[end][s].msg \in 1 .. calls[end] /\ thread[end][s].msg \in 1 .. calls'[end]
    <3>1. \A x \in 1 .. calls[end] : x \in 1 .. calls'[end]
      BY <1>2, <1>3
    <3> QED
      BY <3>1 DEF IInv, MessagesInv
  <2>7. MessagesInv'
    <3> SUFFICES ASSUME NEW end \in Ends
                 PROVE  /\ \A s \in Threads : thread'[end][s].pc # "idle" => thread'[end][s].msg \in 1 .. calls'[end]
                        /\ \A r, s \in Threads :
                              /\ r # s
                              /\ thread'[end][r].pc \in {"set", "write"} /\ thread'[end][s].pc \in {"set", "write"}
                              => thread'[end][r].msg # thread'[end][s].msg
                        /\ \A s \in Threads : thread'[end][s].pc \in {"set", "write"} =>
                              \A i \in 1 .. Len(written[Peer(end)]) : written[Peer(end)][i].msg # thread'[end][s].msg
      BY <1>3, <2>5, <2>6 DEF MessagesInv
    <3>1. CASE end # e
      <4>1. \A s \in Threads : thread'[end][s] = thread[end][s]
        BY <2>3, <3>1
      <4> QED
        BY <2>6, <4>1 DEF IInv, MessagesInv
    <3>2. CASE end = e
      <4>1. \A s \in Threads : s # t => thread'[e][s] = thread[e][s]
        BY <2>3
      <4>2. \A x \in 1 .. calls[e] : x # u.msg
        BY <1>1, <2>2
      <4>3. u.msg \in 1 .. calls'[e]
        BY <1>1, <1>2, <2>2
      <4>4. \A s \in Threads : thread'[e][s].pc # "idle" => thread'[e][s].msg \in 1 .. calls'[e]
        BY <2>3, <2>6, <4>1, <4>3
      <4>5. ASSUME NEW s \in Threads, s # t, thread[e][s].pc # "idle"
            PROVE  thread[e][s].msg # u.msg
        BY <2>6, <4>2, <4>5
      <4>6. \A r, s \in Threads :
               /\ r # s
               /\ thread'[e][r].pc \in {"set", "write"} /\ thread'[e][s].pc \in {"set", "write"}
               => thread'[e][r].msg # thread'[e][s].msg
        BY <2>3, <4>1, <4>5 DEF IInv, MessagesInv
      <4>7. \A s \in Threads : thread'[e][s].pc \in {"set", "write"} =>
               \A i \in 1 .. Len(written[Peer(e)]) : written[Peer(e)][i].msg # thread'[e][s].msg
        BY <2>3, <2>6, <4>1, <4>2 DEF IInv, MessagesInv
      <4> QED
        BY <3>2, <4>4, <4>6, <4>7
    <3> QED
      BY <3>1, <3>2
  <2> QED
    BY <2>4, <2>7 DEF IInv
<1> QED
  BY <1>4, <1>5 DEF Send

LEMMA GoesOnInv ==
    ASSUME IInv, NEW e \in Ends, NEW t \in Threads,
           SetSending(e, t) \/ WriteFails(e, t) \/ ClearSending(e, t)
    PROVE  IInv'
<1>1. thread[e][t] \in SendThread
  BY DEF IInv, TypeOK, SendThread
<1>2. /\ UNCHANGED <<connectVars, calls, wire, written, readVars>>
      /\ sending' \in [Ends -> BOOLEAN] /\ sent' \in [Ends -> Nat]
  <2>1. sending \in [Ends -> BOOLEAN] /\ sent \in [Ends -> Nat]
    BY DEF IInv, TypeOK
  <2>2. CASE SetSending(e, t)
    BY <2>1, <2>2 DEF SetSending
  <2>3. CASE WriteFails(e, t)
    BY <2>1, <2>3 DEF WriteFails
  <2>4. CASE ClearSending(e, t)
    <3>1. sent[e] + 1 \in Nat
      BY <2>1
    <3> QED
      BY <2>1, <2>4, <3>1 DEF ClearSending
  <2> QED
    BY <2>2, <2>3, <2>4
<1>3. ASSUME NEW u \in SendThread, thread' = [thread EXCEPT ![e][t] = u],
             u.pc = "idle" \/ (u.msg = thread[e][t].msg /\ thread[e][t].pc # "idle"),
             u.pc \in {"set", "write"} => thread[e][t].pc \in {"set", "write"}
      PROVE  IInv'
  <2>1. MessagesInv'
    BY <1>2, <1>3, MessagesKept
  <2>2. thread' \in [Ends -> [Threads -> SendThread]]
    BY <1>3, ThreadStep DEF IInv
  <2>3. TypeOK'
    BY <1>2, <2>2 DEF IInv, TypeOK, SendThread, connectVars, readVars
  <2> QED
    BY <2>1, <2>3 DEF IInv
<1>4. CASE SetSending(e, t) \/ WriteFails(e, t)
  <2>1. PICK p \in {"write", "clear"} : /\ thread' = [thread EXCEPT ![e][t].pc = p]
                                        /\ thread[e][t].pc \in {"set", "write"}
    BY <1>4 DEF SetSending, WriteFails
  <2> DEFINE u == [pc |-> p, msg |-> thread[e][t].msg]
  <2>2. thread' = [thread EXCEPT ![e][t] = u]
    <3>1. p \in ThreadPcs
      BY DEF ThreadPcs
    <3>2. TypeOK
      BY DEF IInv
    <3> QED
      BY <2>1, <3>1, <3>2, ThreadMoves
  <2>3. u \in SendThread /\ u.msg = thread[e][t].msg
    BY <1>1 DEF SendThread, ThreadPcs
  <2> HIDE DEF u
  <2> QED
    BY <1>3, <2>1, <2>2, <2>3
<1>5. CASE ClearSending(e, t)
  <2>1. thread' = [thread EXCEPT ![e][t] = IdleThread]
    BY <1>5 DEF ClearSending
  <2>2. IdleThread \in SendThread /\ IdleThread.pc = "idle"
    BY DEF IdleThread, SendThread, ThreadPcs
  <2> QED
    BY <1>3, <2>1, <2>2
<1> QED
  BY <1>4, <1>5

\* What WriteSome writes, for the proofs that follow.
LEMMA WriteSomeIs ==
    ASSUME IInv, NEW e \in Ends, NEW t \in Threads, WriteSome(e, t)
    PROVE  LET m == thread[e][t].msg IN
           /\ m \in Messages /\ m \in 1 .. calls[e]
           /\ \E n \in 1 .. Len(Encode(m)) :
                 wire' = [wire EXCEPT ![Peer(e)] = @ \o SubSeq(Encode(m), 1, n)]
           /\ written' = [written EXCEPT ![Peer(e)] = @ \o Elements(m)]
           /\ thread' = [thread EXCEPT ![e][t] = [pc |-> "clear", msg |-> m]]
           /\ \A i \in 1 .. Len(written[Peer(e)]) : written[Peer(e)][i].msg # m
           /\ thread[e][t].pc = "write" /\ phase[e] = "connected"
           /\ UNCHANGED <<connectVars, sending, calls, readVars, sent>>
<1> DEFINE m == thread[e][t].msg
<1>1. thread[e][t].pc = "write" /\ phase[e] = "connected"
  BY DEF WriteSome
<1>2. m \in 1 .. calls[e] /\ \A i \in 1 .. Len(written[Peer(e)]) : written[Peer(e)][i].msg # m
  BY <1>1 DEF IInv, MessagesInv
<1>3. m \in Messages
  <2>1. calls[e] \in Nat /\ MaxCalls[e] \in Nat /\ calls[e] <= MaxCalls[e]
    BY ConnectionAssumption DEF IInv, TypeOK, MessagesInv
  <2>2. m \in Nat \ {0} /\ m <= MaxCalls[e]
    BY <1>2, <2>1
  <2> QED
    BY <2>2, CallsAreMessages
<1>4. \E n \in 1 .. Len(Encode(m)) : wire' = [wire EXCEPT ![Peer(e)] = @ \o SubSeq(Encode(m), 1, n)]
  <2>1. WriteSizes(m) \subseteq 1 .. Len(Encode(m))
    <3>1. Len(Encode(m)) \in 1 .. Len(Encode(m))
      <4>1. Size[m] \in Nat \ {0} /\ Len(Encode(m)) = 2 * Size[m] + (IF m \in Embedding THEN 4 ELSE 2)
        BY <1>3, EncodeIs, ElementsAre
      <4> QED
        BY <4>1
    <3> QED
      BY <3>1 DEF WriteSizes
  <2> QED
    BY <2>1 DEF WriteSome
<1>5. thread' = [thread EXCEPT ![e][t] = [pc |-> "clear", msg |-> m]]
  <2>1. thread' = [thread EXCEPT ![e][t].pc = "clear"]
    BY DEF WriteSome
  <2> QED
    BY <2>1, ThreadMoves DEF IInv, ThreadPcs
<1> QED
  BY <1>1, <1>2, <1>3, <1>4, <1>5 DEF WriteSome

LEMMA WriteSomeInv ==
    ASSUME IInv, NEW e \in Ends, NEW t \in Threads, WriteSome(e, t)
    PROVE  IInv'
<1> DEFINE m == thread[e][t].msg
           u == [pc |-> "clear", msg |-> m]
           p == Peer(e)
<1>1. /\ m \in Messages /\ m \in 1 .. calls[e]
      /\ \E n \in 1 .. Len(Encode(m)) : wire' = [wire EXCEPT ![p] = @ \o SubSeq(Encode(m), 1, n)]
      /\ written' = [written EXCEPT ![p] = @ \o Elements(m)]
      /\ thread' = [thread EXCEPT ![e][t] = u]
      /\ thread[e][t].pc = "write"
      /\ UNCHANGED <<connectVars, sending, calls, readVars, sent>>
  BY ZenonT(30), WriteSomeIs
<1>2. u \in SendThread /\ u.pc = "clear"
  BY <1>1 DEF SendThread, ThreadPcs
<1>3. p \in Ends /\ p # e /\ \A end \in Ends : Peer(end) = p => end = e
  BY PeerIs DEF Ends, Peer
<1>4. wire \in [Ends -> Seq(Unit)] /\ written \in [Ends -> Seq(Element)]
  BY DEF IInv, TypeOK
<1> HIDE DEF m, p
<1>5. wire' \in [Ends -> Seq(Unit)]
  <2>1. PICK n \in 1 .. Len(Encode(m)) : wire' = [wire EXCEPT ![p] = @ \o SubSeq(Encode(m), 1, n)]
    BY <1>1
  <2>2. wire[p] \in Seq(Unit)
    BY <1>3, <1>4
  <2>3. wire[p] \o SubSeq(Encode(m), 1, n) \in Seq(Unit)
    BY <1>1, <2>2, WriteRemains
  <2> QED
    BY <1>4, <2>1, <2>3
<1>6. /\ written[p] \in Seq(Element) /\ Elements(m) \in Seq(Element)
      /\ written'[p] = written[p] \o Elements(m) /\ written'[p] \in Seq(Element)
      /\ \A i \in 1 .. Len(written'[p]) :
            \/ i \in 1 .. Len(written[p]) /\ written'[p][i] = written[p][i]
            \/ written'[p][i].msg = m
      /\ \A end \in Ends : end # p => written'[end] = written[end]
  <2>1. written[p] \in Seq(Element) /\ written'[p] = written[p] \o Elements(m)
    BY <1>1, <1>3, <1>4
  <2>2. \A end \in Ends : end # p => written'[end] = written[end]
    BY <1>1, <1>4
  <2>3. /\ Elements(m) \in Seq(Element) /\ Len(Elements(m)) \in Nat /\ Len(written[p]) \in Nat
        /\ \A k \in 1 .. Len(Elements(m)) : Elements(m)[k] = [msg |-> m, nr |-> k]
    BY <1>1, <2>1, ElementsAre, LenProperties
  <2>4. \A v, w \in Seq(Element) :
           /\ v \o w \in Seq(Element) /\ Len(v \o w) = Len(v) + Len(w)
           /\ \A i \in 1 .. Len(v) : (v \o w)[i] = v[i]
           /\ \A i \in 1 .. Len(w) : (v \o w)[Len(v) + i] = w[i]
    BY ConcatAt
  <2>5. /\ written'[p] \in Seq(Element) /\ Len(written'[p]) = Len(written[p]) + Len(Elements(m))
        /\ \A i \in 1 .. Len(written[p]) : written'[p][i] = written[p][i]
        /\ \A k \in 1 .. Len(Elements(m)) : written'[p][Len(written[p]) + k] = Elements(m)[k]
    <3> DEFINE x == written[p] \o Elements(m)
    <3>1. /\ x \in Seq(Element) /\ Len(x) = Len(written[p]) + Len(Elements(m))
          /\ \A i \in 1 .. Len(written[p]) : x[i] = written[p][i]
          /\ \A k \in 1 .. Len(Elements(m)) : x[Len(written[p]) + k] = Elements(m)[k]
      BY <2>1, <2>3, <2>4, Zenon
    <3>2. written'[p] = x
      BY <2>1
    <3> HIDE DEF x
    <3> QED
      BY <3>1, <3>2
  <2>6. ASSUME NEW i \in 1 .. Len(written'[p])
        PROVE  \/ i \in 1 .. Len(written[p]) /\ written'[p][i] = written[p][i]
               \/ written'[p][i].msg = m
    <3>1. CASE i \in 1 .. Len(written[p])
      BY <2>5, <3>1
    <3>2. CASE i \notin 1 .. Len(written[p])
      <4> DEFINE k == i - Len(written[p])
      <4>1. k \in 1 .. Len(Elements(m)) /\ i = Len(written[p]) + k
        BY <2>3, <2>5, <3>2
      <4> HIDE DEF k
      <4>2. written'[p][i] = [msg |-> m, nr |-> k]
        BY <2>3, <2>5, <4>1
      <4> QED
        BY <4>2
    <3> QED
      BY <3>1, <3>2
  <2> QED
    BY <2>1, <2>2, <2>3, <2>5, <2>6
<1>7. written' \in [Ends -> Seq(Element)]
  <2>1. written[p] \o Elements(m) \in Seq(Element)
    BY <1>6
  <2> QED
    BY <1>1, <1>4, <2>1
<1> HIDE DEF u
<1>8. /\ thread' \in [Ends -> [Threads -> SendThread]] /\ thread'[e][t] = u
      /\ \A end \in Ends, s \in Threads : <<end, s>> # <<e, t>> => thread'[end][s] = thread[end][s]
  BY ZenonT(30), <1>1, <1>2, ThreadStep DEF IInv
<1>9. TypeOK'
  BY <1>1, <1>5, <1>7, <1>8 DEF IInv, TypeOK, SendThread, connectVars, readVars
<1>10. ASSUME NEW end \in Ends
       PROVE  /\ \A s \in Threads : thread'[end][s].pc # "idle" => thread'[end][s].msg \in 1 .. calls[end]
              /\ \A r, s \in Threads :
                    /\ r # s
                    /\ thread'[end][r].pc \in {"set", "write"} /\ thread'[end][s].pc \in {"set", "write"}
                    => thread'[end][r].msg # thread'[end][s].msg
              /\ \A i \in 1 .. Len(written'[Peer(end)]) : written'[Peer(end)][i].msg \in 1 .. calls[end]
              /\ \A s \in Threads : thread'[end][s].pc \in {"set", "write"} =>
                    \A i \in 1 .. Len(written'[Peer(end)]) : written'[Peer(end)][i].msg # thread'[end][s].msg
  <2>1. CASE end # e
    <3>1. written'[Peer(end)] = written[Peer(end)] /\ \A s \in Threads : thread'[end][s] = thread[end][s]
      BY <1>3, <1>6, <1>8, <2>1, PeerIs
    <3> QED
      BY <3>1 DEF IInv, MessagesInv
  <2>2. CASE end = e
    <3>1. Peer(end) = p /\ \A s \in Threads : s # t => thread'[e][s] = thread[e][s]
      BY <1>8, <2>2 DEF p
    <3>2. u.msg = m
      BY DEF u
    <3>3. \A s \in Threads : thread'[e][s].pc # "idle" => thread'[e][s].msg \in 1 .. calls[e]
      BY <1>1, <1>8, <3>1, <3>2 DEF IInv, MessagesInv
    <3>4. \A s \in Threads : thread'[e][s].pc \in {"set", "write"} =>
             s # t /\ thread'[e][s] = thread[e][s] /\ thread[e][s].pc \in {"set", "write"}
      BY <1>2, <1>8, <3>1
    <3>5. \A r, s \in Threads :
             /\ r # s
             /\ thread'[e][r].pc \in {"set", "write"} /\ thread'[e][s].pc \in {"set", "write"}
             => thread'[e][r].msg # thread'[e][s].msg
      BY <3>4 DEF IInv, MessagesInv
    <3>6. \A i \in 1 .. Len(written'[p]) :
             \/ i \in 1 .. Len(written[p]) /\ written'[p][i] = written[p][i]
             \/ written'[p][i].msg = m
      BY <1>6
    <3>7. \A i \in 1 .. Len(written'[p]) : written'[p][i].msg \in 1 .. calls[e]
      <4>1. \A i \in 1 .. Len(written[p]) : written[p][i].msg \in 1 .. calls[e]
        BY <2>2, <3>1 DEF IInv, MessagesInv
      <4> QED
        BY <1>1, <3>6, <4>1
    <3>8. ASSUME NEW s \in Threads, thread'[e][s].pc \in {"set", "write"},
                 NEW i \in 1 .. Len(written'[p])
          PROVE  written'[p][i].msg # thread'[e][s].msg
      <4>1. s # t /\ thread'[e][s] = thread[e][s] /\ thread[e][s].pc \in {"set", "write"}
        BY <3>4, <3>8
      <4>2. thread[e][s].msg # m
        BY <1>1, <4>1 DEF IInv, MessagesInv, m
      <4>3. \A j \in 1 .. Len(written[p]) : written[p][j].msg # thread[e][s].msg
        BY <2>2, <3>1, <4>1 DEF IInv, MessagesInv
      <4> QED
        BY <3>6, <4>1, <4>2, <4>3
    <3> QED
      BY <2>2, <3>1, <3>3, <3>5, <3>7, <3>8
  <2> QED
    BY <2>1, <2>2
<1>11. MessagesInv'
  <2>1. calls' = calls /\ \A end \in Ends : calls[end] <= MaxCalls[end]
    BY <1>1 DEF IInv, MessagesInv
  <2> QED
    BY <1>10, <2>1 DEF MessagesInv
<1> QED
  BY <1>9, <1>11 DEF IInv

\* What Read hands over, and what it leaves on the wire.
LEMMA ReadIs ==
    ASSUME IInv, NEW e \in Ends, Read(e)
    PROVE  /\ reader[e] = "reading"
           /\ wire[e] \in Seq(Unit) /\ Delimiters(wire[e]) # {}
           /\ \E n \in FirstFrame(wire[e]) .. Len(wire[e]) :
                 /\ n \in 0 .. Len(wire[e])
                 /\ wire' = [wire EXCEPT ![e] = SubSeq(@, n + 1, Len(@))]
           /\ \E update \in Updates(SubSeq(wire[e], 1, FirstFrame(wire[e]) - 2)) :
                 /\ update.elements \in Seq(Element) /\ update.garbled \in BOOLEAN
                 /\ update.elements
                      \in P!Remains(Intact(SubSeq(wire[e], 1, FirstFrame(wire[e]) - 2)))
                 /\ delivered' = [delivered EXCEPT ![e] = @ \o update.elements]
                 /\ garbled' = [garbled EXCEPT ![e] = @ \/ update.garbled]
           /\ received' = [received EXCEPT ![e] = @ + 1]
           /\ UNCHANGED <<connectVars, sendVars, written>>
<1> DEFINE frame == SubSeq(wire[e], 1, FirstFrame(wire[e]) - 2)
<1>1. wire[e] \in Seq(Unit) /\ Delimiters(wire[e]) # {}
  BY DEF IInv, TypeOK, Read
<1>2. FirstFrame(wire[e]) \in 2 .. Len(wire[e]) /\ Len(wire[e]) \in Nat
  BY <1>1, FirstFrameIs, LenProperties
<1>3. frame \in Seq(Unit)
  BY <1>1, FrameIntact
<1>4. /\ reader[e] = "reading"
      /\ \E n \in FirstFrame(wire[e]) .. Len(wire[e]) :
            wire' = [wire EXCEPT ![e] = SubSeq(@, n + 1, Len(@))]
      /\ \E update \in Updates(frame) :
            /\ delivered' = [delivered EXCEPT ![e] = @ \o update.elements]
            /\ garbled' = [garbled EXCEPT ![e] = @ \/ update.garbled]
      /\ received' = [received EXCEPT ![e] = @ + 1]
      /\ UNCHANGED <<connectVars, sendVars, written>>
  BY DEF Read, Receive
<1>5. \A n \in FirstFrame(wire[e]) .. Len(wire[e]) : n \in 0 .. Len(wire[e])
  BY <1>2
<1> HIDE DEF frame
<1>6. \A update \in Updates(frame) : /\ update.elements \in P!Remains(Intact(frame))
                                     /\ update.elements \in Seq(Element)
                                     /\ update.garbled \in BOOLEAN
  BY <1>3, UpdatesAre
<1> QED
  BY <1>1, <1>4, <1>5, <1>6 DEF frame

LEMMA ReadInv ==
    ASSUME IInv, NEW e \in Ends, Read(e)
    PROVE  IInv'
<1>1. PICK n \in 0 .. Len(wire[e]) : wire' = [wire EXCEPT ![e] = SubSeq(@, n + 1, Len(@))]
  BY ReadIs
<1>2. PICK update \in Updates(SubSeq(wire[e], 1, FirstFrame(wire[e]) - 2)) :
         /\ update.elements \in Seq(Element) /\ update.garbled \in BOOLEAN
         /\ delivered' = [delivered EXCEPT ![e] = @ \o update.elements]
         /\ garbled' = [garbled EXCEPT ![e] = @ \/ update.garbled]
  BY ReadIs
<1>3. /\ received' = [received EXCEPT ![e] = @ + 1]
      /\ UNCHANGED <<connectVars, sendVars, written>>
  BY ReadIs
<1>4. /\ wire \in [Ends -> Seq(Unit)] /\ delivered \in [Ends -> Seq(Element)]
      /\ received \in [Ends -> Nat] /\ garbled \in [Ends -> BOOLEAN]
  BY DEF IInv, TypeOK
<1>5. wire' \in [Ends -> Seq(Unit)]
  <2>1. SubSeq(wire[e], n + 1, Len(wire[e])) \in Seq(Unit)
    BY <1>4, DropFacts
  <2> QED
    BY <1>1, <1>4, <2>1
<1>6. delivered' \in [Ends -> Seq(Element)] /\ garbled' \in [Ends -> BOOLEAN]
  <2>1. delivered[e] \o update.elements \in Seq(Element)
    BY <1>2, <1>4, ConcatProperties
  <2>2. delivered' \in [Ends -> Seq(Element)]
    BY <1>2, <1>4, <2>1
  <2>3. (garbled[e] \/ update.garbled) \in BOOLEAN
    OBVIOUS
  <2>4. garbled' \in [Ends -> BOOLEAN]
    BY <1>2, <1>4, <2>3
  <2> QED
    BY <2>2, <2>4
<1>7. received' \in [Ends -> Nat]
  BY <1>3, <1>4
<1>8. TypeOK'
  BY <1>3, <1>5, <1>6, <1>7 DEF IInv, TypeOK, connectVars, sendVars
<1>9. MessagesInv'
  BY <1>3 DEF IInv, MessagesInv, sendVars
<1> QED
  BY <1>8, <1>9 DEF IInv

LEMMA NextInv == IInv /\ [Next]_vars => IInv'
<1> SUFFICES ASSUME IInv, [Next]_vars PROVE IInv'
  OBVIOUS
<1>1. CASE UNCHANGED vars
  BY <1>1 DEF vars, connectVars, sendVars, readVars, IInv, TypeOK, MessagesInv
<1>2. ASSUME Connecting \/ (\E e \in Ends : Close(e) \/ ReadFails(e))
      PROVE  IInv'
  <2>1. /\ phase' \in [Ends -> Phases] /\ connected' \in [Ends -> BOOLEAN]
        /\ reader' \in [Ends -> {"off", "reading", "stopped"}]
        /\ wire' \in [Ends -> Seq(Unit)]
        /\ UNCHANGED <<sendVars, written, readVars>>
    <3>1. wire \in [Ends -> Seq(Unit)] /\ <<>> \in Seq(Unit)
      BY EmptySeq DEF IInv, TypeOK
    <3>2. CASE Connecting
      <4>1. /\ phase \in [Ends -> Phases] /\ connected \in [Ends -> BOOLEAN]
            /\ reader \in [Ends -> {"off", "reading", "stopped"}]
        BY DEF IInv, TypeOK
      <4>2. \A new \in {"listening", "failed", "connected"} : new \in Phases
        BY DEF Phases
      <4>3. CASE Listen
        BY <3>1, <4>1, <4>2, <4>3 DEF Listen
      <4>4. CASE Connect
        BY <3>1, <4>1, <4>2, <4>4 DEF Connect
      <4>5. CASE ConnectFails
        BY <3>1, <4>1, <4>2, <4>5 DEF ConnectFails
      <4>6. CASE Accept
        BY <3>1, <4>1, <4>2, <4>6 DEF Accept
      <4> QED
        BY <3>2, <4>3, <4>4, <4>5, <4>6 DEF Connecting
    <3>3. CASE \E e \in Ends : Close(e)
      BY <3>1, <3>3 DEF Close, IInv, TypeOK, Phases
    <3>4. CASE \E e \in Ends : ReadFails(e)
      BY <3>1, <3>4 DEF ReadFails, IInv, TypeOK
    <3> QED
      BY <1>2, <3>2, <3>3, <3>4
  <2>2. TypeOK'
    BY <2>1 DEF IInv, TypeOK, sendVars, readVars
  <2>3. MessagesInv'
    BY <2>1 DEF IInv, MessagesInv, sendVars
  <2> QED
    BY <2>2, <2>3 DEF IInv
<1> QED
  BY <1>1, <1>2, SendInv, GoesOnInv, WriteSomeInv, ReadInv DEF Next, Sender

THEOREM ConnectionInvariant == Spec => []IInv
BY InitInv, NextInv, PTL DEF Spec

\* What the receivers get is of elements that were sent or is told to be garbled, and
\* nothing is on the wire but units of elements and of end_of_message.
THEOREM ConnectionTyped == Spec => []TypeOK
<1>1. IInv => TypeOK
  BY DEF IInv
<1> QED
  BY <1>1, ConnectionInvariant, PTL
-----------------------------------------------------------------------------
(* Two Connections are a Channel                                           *)

\* The queue of the Channel: the elements that stand whole on the wire.
Queue == [e \in Ends |-> Intact(wire[e])]

LEMMA SameRemains == \A q : P!Remains(q) = C!Remains(q)
BY DEF P!Remains, C!Remains, P!Choices, C!Choices

LEMMA QueueStep ==
    ASSUME NEW e \in Ends, NEW units, wire \in [Ends -> Seq(Unit)],
           wire' = [wire EXCEPT ![e] = units]
    PROVE  Queue' = [Queue EXCEPT ![e] = Intact(units)]
<1>1. \A end \in Ends : wire'[end] = IF end = e THEN units ELSE wire[end]
  OBVIOUS
<1>2. \A end \in Ends : Queue'[end] = IF end = e THEN Intact(units) ELSE Queue[end]
  BY <1>1 DEF Queue
<1>3. Queue' = [end \in Ends |-> Queue'[end]] /\ Queue = [end \in Ends |-> Queue[end]]
  BY DEF Queue
<1> QED
  BY <1>2, <1>3

\* A write puts the message into the channel; a part of it completes nothing else.
LEMMA WritePuts ==
    ASSUME IInv, NEW e \in Ends, NEW t \in Threads, WriteSome(e, t)
    PROVE  \E m \in Messages : C!Put(Peer(e), Elements(m))
<1> DEFINE m == thread[e][t].msg
<1>1. PICK n \in 1 .. Len(Encode(m)) : wire' = [wire EXCEPT ![Peer(e)] = @ \o SubSeq(Encode(m), 1, n)]
  BY WriteSomeIs
<1>2. /\ m \in Messages
      /\ written' = [written EXCEPT ![Peer(e)] = @ \o Elements(m)]
      /\ \A i \in 1 .. Len(written[Peer(e)]) : written[Peer(e)][i].msg # m
      /\ UNCHANGED delivered
  BY WriteSomeIs DEF readVars
<1>3. Peer(e) \in Ends /\ wire \in [Ends -> Seq(Unit)] /\ wire[Peer(e)] \in Seq(Unit)
  BY PeerIs DEF IInv, TypeOK
<1> DEFINE longer == wire[Peer(e)] \o SubSeq(Encode(m), 1, n)
<1> HIDE DEF m
<1>4. wire' = [wire EXCEPT ![Peer(e)] = longer]
  BY <1>1
<1>5. Intact(longer) \in C!Remains(Intact(wire[Peer(e)]) \o Elements(m))
  BY <1>2, <1>3, WriteRemains, SameRemains
<1> HIDE DEF longer
<1>6. Queue' = [Queue EXCEPT ![Peer(e)] = Intact(longer)] /\ Queue[Peer(e)] = Intact(wire[Peer(e)])
  <2>1. Queue' = [Queue EXCEPT ![Peer(e)] = Intact(longer)]
    BY <1>3, <1>4, QueueStep
  <2> QED
    BY <1>3, <2>1 DEF Queue
<1>7. \E rest \in C!Remains(Queue[Peer(e)] \o Elements(m)) : Queue' = [Queue EXCEPT ![Peer(e)] = rest]
  BY <1>5, <1>6
<1>8. ASSUME NEW i \in 1 .. Len(Elements(m)), NEW j \in 1 .. Len(written[Peer(e)])
      PROVE  Elements(m)[i] # written[Peer(e)][j]
  <2>1. Elements(m)[i] = [msg |-> m, nr |-> i]
    BY <1>2, ElementsAre
  <2>2. Elements(m)[i].msg = m
    BY <2>1
  <2> QED
    BY <1>2, <2>2
<1>9. C!Put(Peer(e), Elements(m))
  BY <1>2, <1>7, <1>8 DEF C!Put, Queue
<1> QED
  BY <1>2, <1>9

\* A read delivers elements of its frame, and those that it took from the socket behind
\* the frame are lost.
LEMMA ReadDelivers ==
    ASSUME IInv, NEW e \in Ends, Read(e)
    PROVE  C!Deliver(e)
<1> DEFINE units == wire[e]
           last == FirstFrame(units)
           frame == SubSeq(units, 1, last - 2)
<1>1. units \in Seq(Unit) /\ Delimiters(units) # {}
  BY ReadIs
<1>2. PICK n \in last .. Len(units) :
         n \in 0 .. Len(units) /\ wire' = [wire EXCEPT ![e] = SubSeq(@, n + 1, Len(@))]
  BY ReadIs
<1>3. PICK update \in Updates(frame) :
         /\ update.elements \in P!Remains(Intact(frame))
         /\ delivered' = [delivered EXCEPT ![e] = @ \o update.elements]
  BY ReadIs
<1>4. UNCHANGED written
  BY ReadIs
<1>5. wire \in [Ends -> Seq(Unit)]
  BY DEF IInv, TypeOK
<1> DEFINE rest == SubSeq(units, n + 1, Len(units))
<1>6. wire' = [wire EXCEPT ![e] = rest]
  BY <1>2
<1>7. last \in 2 .. Len(units) /\ Len(units) \in Nat
  BY <1>1, FirstFrameIs, LenProperties
<1>8. Starts(units) \subseteq 1 .. Len(units)
  BY <1>1, StartsAre
<1>9. PICK k \in 0 .. Len(Intact(units)) :
         /\ Intact(frame) \in P!Remains(SubSeq(Intact(units), 1, k))
         /\ SubSeq(Intact(units), 1, k) \in Seq(Element)
         /\ \A i \in Starts(units) : i > last => Rank(Starts(units), i) > k
  BY <1>1, FrameIntact
<1> HIDE DEF units, last, frame, rest
<1>10. Queue' = [Queue EXCEPT ![e] = Intact(rest)] /\ Queue[e] = Intact(units)
  <2>1. Queue' = [Queue EXCEPT ![e] = Intact(rest)]
    BY <1>5, <1>6, QueueStep
  <2> QED
    BY <2>1 DEF Queue, units
<1>11. update.elements \in C!Remains(SubSeq(Intact(units), 1, k))
  <2>1. update.elements \in P!Remains(SubSeq(Intact(units), 1, k))
    BY <1>3, <1>9, P!RemainsTransitive
  <2> QED
    BY <2>1, SameRemains
<1>12. Intact(rest) \in C!Remains(SubSeq(Intact(units), k + 1, Len(Intact(units))))
  <2>1. ASSUME NEW i \in Starts(units), i > n PROVE i > last
    BY <1>2, <1>7, <1>8, <2>1
  <2>2. \A i \in Starts(units) : i > n => Rank(Starts(units), i) > k
    BY <1>9, <2>1
  <2> QED
    BY <1>1, <1>2, <2>2, DropRemains, SameRemains DEF rest
<1>13. k \in 0 .. Len(Queue[e])
  BY <1>10
<1>14. \E handed \in C!Remains(SubSeq(Queue[e], 1, k)) :
          delivered' = [delivered EXCEPT ![e] = @ \o handed]
  BY <1>3, <1>10, <1>11
<1>15. \E r \in C!Remains(SubSeq(Queue[e], k + 1, Len(Queue[e]))) : Queue' = [Queue EXCEPT ![e] = r]
  BY <1>10, <1>12
<1> QED
  BY <1>4, <1>13, <1>14, <1>15 DEF C!Deliver, Queue

LEMMA EmptyStarts == Starts(<<>>) = {}
<1>1. <<>> \in Seq(Unit) /\ Len(<<>>) = 0
  BY EmptySeq
<1>2. ASSUME NEW units \in Seq(Unit), Len(units) = 0 PROVE Starts(units) = {}
  <2>1. \A i \in Starts(units) : i \in 1 .. 0
    BY <1>2, StartsAre
  <2>2. \A i \in Starts(units) : FALSE
    BY <2>1
  <2> QED
    BY <2>2
<1> QED
  BY <1>1, <1>2

LEMMA EmptyIntact == Intact(<<>>) = <<>>
<1>1. <<>> \in Seq(Unit) /\ Len(<<>>) = 0
  BY EmptySeq
<1>2. Starts(<<>>) = {}
  BY EmptyStarts
<1>3. Intact(<<>>) \in Seq(Element) /\ Len(Intact(<<>>)) = 0
  BY <1>1, <1>2, IntactIs, FS_EmptySet
<1> QED
  BY <1>3, EmptySeq

\* What is on the wire when a connection is closed is lost.
LEMMA FailingReadLoses ==
    ASSUME IInv, NEW e \in Ends, ReadFails(e)
    PROVE  C!Deliver(e)
<1>1. /\ wire \in [Ends -> Seq(Unit)] /\ wire[e] \in Seq(Unit)
      /\ delivered \in [Ends -> Seq(Element)]
  BY DEF IInv, TypeOK
<1>2. wire' = [wire EXCEPT ![e] = <<>>] /\ UNCHANGED <<written, delivered>>
  BY DEF ReadFails, readVars
<1>3. Queue' = [Queue EXCEPT ![e] = <<>>] /\ Queue[e] = Intact(wire[e])
  <2>1. Queue' = [Queue EXCEPT ![e] = Intact(<<>>)]
    BY <1>1, <1>2, QueueStep
  <2> QED
    BY <2>1, EmptyIntact DEF Queue
<1>4. Intact(wire[e]) \in Seq(Element) /\ 0 \in 0 .. Len(Intact(wire[e]))
  <2>1. Intact(wire[e]) \in Seq(Element)
    BY <1>1, IntactIs
  <2>2. Len(Intact(wire[e])) \in Nat
    BY <2>1, LenProperties
  <2> QED
    BY <2>1, <2>2
<1>5. <<>> \in C!Remains(SubSeq(Intact(wire[e]), 0 + 1, Len(Intact(wire[e]))))
  <2>1. Starts(<<>>) = {} /\ <<>> \in Seq(Unit)
    BY EmptyStarts, EmptySeq
  <2>2. SubSeq(Intact(wire[e]), 0 + 1, Len(Intact(wire[e]))) = Intact(wire[e])
    BY <1>4, SubSeqFull
  <2> DEFINE place == [i \in {} |-> i]
  <2>3. place \in [Starts(<<>>) -> 1 .. Len(Intact(wire[e]))]
    BY <2>1
  <2>4. Intact(<<>>) \in P!Remains(Intact(wire[e]))
    BY <1>4, <2>1, <2>3, IntactRemains
  <2> QED
    BY <2>2, <2>4, EmptyIntact, SameRemains
<1>6. <<>> \in C!Remains(SubSeq(Intact(wire[e]), 1, 0))
  <2>1. SubSeq(Intact(wire[e]), 1, 0) = <<>>
    BY SubSeqEmpty
  <2>2. <<>> \in P!Remains(<<>>)
    BY EmptySeq, P!RemainsAll
  <2> QED
    BY <2>1, <2>2, SameRemains
<1>7. delivered' = [delivered EXCEPT ![e] = @ \o <<>>]
  <2>1. delivered[e] \o <<>> = delivered[e]
    BY <1>1, ConcatEmptySeq
  <2> QED
    BY <1>1, <1>2, <2>1
<1>8. \E k \in 0 .. Len(Queue[e]) :
         /\ \E handed \in C!Remains(SubSeq(Queue[e], 1, k)) :
               delivered' = [delivered EXCEPT ![e] = @ \o handed]
         /\ \E r \in C!Remains(SubSeq(Queue[e], k + 1, Len(Queue[e]))) :
               Queue' = [Queue EXCEPT ![e] = r]
  BY <1>3, <1>4, <1>5, <1>6, <1>7
<1> QED
  BY <1>2, <1>8 DEF C!Deliver, Queue

LEMMA StepImplements == IInv /\ [Next]_vars => [C!Next]_(C!vars)
<1> SUFFICES ASSUME IInv, [Next]_vars PROVE [C!Next]_(C!vars)
  OBVIOUS
<1>1. ASSUME UNCHANGED <<wire, written, delivered>>
      PROVE  UNCHANGED C!vars
  BY <1>1 DEF C!vars
<1>2. CASE \/ UNCHANGED vars \/ Connecting
           \/ \E e \in Ends : Close(e) \/ \E forced \in BOOLEAN : Send(e, forced)
           \/ \E e \in Ends, t \in Threads : SetSending(e, t) \/ WriteFails(e, t) \/ ClearSending(e, t)
  <2>1. UNCHANGED <<wire, written, delivered>>
    BY <1>2 DEF vars, readVars, Connecting, Listen, Connect, ConnectFails, Accept, Close, Send,
                SetSending, WriteFails, ClearSending
  <2> QED
    BY <1>1, <2>1
<1>3. ASSUME NEW e \in Ends, NEW t \in Threads, WriteSome(e, t)
      PROVE  C!Next
  BY <1>3, WritePuts, PeerIs DEF C!Next
<1>4. ASSUME NEW e \in Ends, Read(e) \/ ReadFails(e)
      PROVE  C!Next
  BY <1>4, ReadDelivers, FailingReadLoses DEF C!Next
<1> QED
  BY <1>2, <1>3, <1>4 DEF Next, Sender

\* Two Connections are a Channel, however the threads of send interleave, wherever their
\* writes are cut, whatever a read discards with its buffer and whatever ParseFromString
\* makes of pieces: an element that was written is handed over once at most, in its turn.
THEOREM ConnectionImplementsChannel == Spec => ImplementsChannel
<1>1. Init => C!Init
  BY EmptyIntact DEF Init, C!Init
<1> QED
  BY <1>1, ConnectionInvariant, StepImplements, PTL DEF Spec, ImplementsChannel, C!Spec

\* Of the elements that one end has written, those that the other end hands over and those
\* that may still arrive are, in order and without repetition, a part.
THEOREM ConnectionKeepsOrder == Spec => []P!KeptInOrder
<1>1. \A e \in Ends : C!Deliver(e) <=> P!Deliver(e)
  BY SameRemains DEF C!Deliver, P!Deliver
<1>2. \A e \in Ends, m \in Messages : C!Put(e, Elements(m)) <=> P!Put(e, Elements(m))
  BY SameRemains DEF C!Put, P!Put
<1>3. [C!Next]_(C!vars) => [P!Next]_(P!vars)
  BY <1>1, <1>2 DEF C!Next, P!Next, C!vars, P!vars
<1>4. C!Init => P!Init
  BY DEF C!Init, P!Init
<1>5. ImplementsChannel => P!Spec
  BY <1>3, <1>4, PTL DEF ImplementsChannel, C!Spec, P!Spec
<1>6. P!MessagesAreSequences
  BY ElementsAre DEF P!MessagesAreSequences
<1>7. P!Spec => []P!KeptInOrder
  BY <1>6, P!KeptInOrderHolds
<1> QED
  BY <1>5, <1>7, ConnectionImplementsChannel, PTL
-----------------------------------------------------------------------------
(* What only a load can lose                                               *)

Odd(n) == {2 * l - 1 : l \in 1 .. n}

LEMMA OddCardinality ==
    ASSUME NEW n \in Nat
    PROVE  Cardinality(Odd(n)) = n
<1> DEFINE f == [l \in 1 .. n |-> 2 * l - 1]
<1>1. f \in Bijection(1 .. n, Odd(n))
  <2>1. f \in [1 .. n -> Odd(n)]
    BY DEF Odd
  <2>2. ASSUME NEW k \in 1 .. n, NEW l \in 1 .. n, f[k] = f[l] PROVE k = l
    BY <2>2
  <2>3. \A x \in Odd(n) : \E l \in 1 .. n : f[l] = x
    BY DEF Odd
  <2>4. f \in Injection(1 .. n, Odd(n))
    BY <2>1, <2>2 DEF Injection, IsInjective
  <2>5. f \in Surjection(1 .. n, Odd(n))
    BY <2>1, <2>3 DEF Surjection
  <2> QED
    BY <2>4, <2>5 DEF Bijection
<1>2. IsFiniteSet(1 .. n) /\ Cardinality(1 .. n) = n
  BY FS_Interval
<1> HIDE DEF f
<1>3. ExistsBijection(1 .. n, Odd(n))
  BY <1>1 DEF ExistsBijection
<1> QED
  BY <1>2, <1>3, FS_Bijection

\* What is read of a message that was not cut are its elements.
LEMMA PayloadIntact ==
    ASSUME NEW m \in Messages, NEW frame \in Seq(Unit), Len(frame) = 2 * Size[m],
           \A j \in 1 .. (2 * Size[m]) : frame[j] = Payload(m)[j]
    PROVE  Updates(frame) = [elements : {Elements(m)}, garbled : {FALSE}]
<1> DEFINE s == Size[m]
           S == Starts(frame)
<1>1. /\ s \in Nat \ {0} /\ Elements(m) \in Seq(Element) /\ Len(Elements(m)) = s
      /\ \A k \in 1 .. s : /\ Elements(m)[k] = [msg |-> m, nr |-> k]
                           /\ [msg |-> m, nr |-> k] \in Element
  BY ElementsAre
<1>2. \A k \in 1 .. s : 2 * k - 1 \in 1 .. (2 * s - 1) /\ 2 * k \in 1 .. 2 * s
  BY <1>1
<1>3. \A k \in 1 .. s : /\ frame[2 * k - 1] = [of |-> [msg |-> m, nr |-> k], half |-> 1]
                        /\ frame[2 * k] = [of |-> [msg |-> m, nr |-> k], half |-> 2]
  <2> SUFFICES ASSUME NEW k \in 1 .. s
               PROVE  /\ frame[2 * k - 1] = [of |-> [msg |-> m, nr |-> k], half |-> 1]
                      /\ frame[2 * k] = [of |-> [msg |-> m, nr |-> k], half |-> 2]
    OBVIOUS
  <2>1. 2 * k - 1 \in 1 .. (2 * s) /\ 2 * k \in 1 .. (2 * s)
    BY <1>1
  <2>2. frame[2 * k - 1] = Payload(m)[2 * k - 1] /\ frame[2 * k] = Payload(m)[2 * k]
    BY <2>1
  <2> QED
    BY <2>2, PayloadIs
<1>4. DOMAIN frame = 1 .. 2 * s /\ Len(frame) = 2 * s
  BY LenProperties
<1> HIDE DEF s
<1>5. ASSUME NEW k \in 1 .. s PROVE 2 * k - 1 \in S
  <2>1. 2 * k - 1 \in 1 .. (Len(frame) - 1) /\ (2 * k - 1) + 1 = 2 * k
    BY <1>1, <1>2, <1>4
  <2> DEFINE x == [msg |-> m, nr |-> k]
  <2>2. frame[2 * k - 1] = [of |-> x, half |-> 1] /\ frame[2 * k] = [of |-> x, half |-> 2]
    BY <1>3
  <2>3. x \in Element
    BY <1>1
  <2> HIDE DEF x
  <2>4. frame[2 * k - 1].of = x /\ frame[2 * k - 1].half = 1
    BY ONLY <2>2
  <2>5. frame[2 * k] = [of |-> frame[2 * k - 1].of, half |-> 2]
    BY ONLY <2>2, <2>4
  <2>6. WholeAt(frame, 2 * k - 1)
    BY <2>1, <2>3, <2>4, <2>5 DEF WholeAt
  <2> QED
    BY <2>1, <2>6, StartsAre
<1>6. ASSUME NEW i \in S PROVE \E k \in 1 .. s : i = 2 * k - 1
  <2>1. i \in 1 .. 2 * s /\ frame[i].half = 1
    <3>1. i \in 1 .. (Len(frame) - 1) /\ WholeAt(frame, i)
      BY StartsAre
    <3> QED
      BY <1>1, <1>4, <3>1 DEF WholeAt
  <2>2. ASSUME NEW k \in 1 .. s PROVE i # 2 * k
    <3>1. frame[2 * k] = [of |-> [msg |-> m, nr |-> k], half |-> 2]
      BY <1>3
    <3>2. frame[2 * k].half = 2
      BY ONLY <3>1
    <3> QED
      BY <2>1, <3>2
  <2> QED
    BY <1>1, <2>1, <2>2, Halves
<1>7. S = Odd(s)
  BY <1>5, <1>6 DEF Odd
<1>8. \A i \in DOMAIN frame : i \in S \/ i - 1 \in S
  <2> SUFFICES ASSUME NEW i \in 1 .. 2 * s PROVE i \in S \/ i - 1 \in S
    BY <1>4
  <2>1. (\E k \in 1 .. s : i = 2 * k - 1) \/ (\E k \in 1 .. s : i = 2 * k)
    BY <1>1, Halves
  <2>2. \A k \in 1 .. s : i = 2 * k => i - 1 = 2 * k - 1
    OBVIOUS
  <2> QED
    BY <1>5, <2>1, <2>2
<1>9. ASSUME NEW k \in 1 .. s PROVE Rank(S, 2 * k - 1) = k
  <2>1. {y \in S : y <= 2 * k - 1} = Odd(k)
    <3>1. ASSUME NEW y \in S, y <= 2 * k - 1 PROVE y \in Odd(k)
      <4>1. PICK l \in 1 .. s : y = 2 * l - 1
        BY <1>6
      <4>2. l \in 1 .. k
        BY <1>1, <3>1, <4>1
      <4> QED
        BY <4>1, <4>2 DEF Odd
    <3>2. ASSUME NEW y \in Odd(k) PROVE y \in S /\ y <= 2 * k - 1
      <4>1. PICK l \in 1 .. k : y = 2 * l - 1
        BY DEF Odd
      <4>2. l \in 1 .. s /\ y <= 2 * k - 1
        BY <1>1, <4>1
      <4> QED
        BY <1>5, <4>1, <4>2
    <3> QED
      BY <3>1, <3>2
  <2>2. k \in Nat
    BY <1>1
  <2> QED
    BY <2>1, <2>2, OddCardinality DEF Rank
<1>10. Cardinality(S) = s
  BY <1>1, <1>7, OddCardinality
<1>11. /\ Intact(frame) \in Seq(Element) /\ Len(Intact(frame)) = Cardinality(S)
       /\ \A i \in S : Intact(frame)[Rank(S, i)] = frame[i].of
  BY IntactIs
<1> HIDE DEF S
<1>12. ASSUME NEW k \in 1 .. s PROVE Intact(frame)[k] = Elements(m)[k]
  <2>1. Intact(frame)[k] = frame[2 * k - 1].of
    BY <1>5, <1>9, <1>11
  <2>2. frame[2 * k - 1] = [of |-> [msg |-> m, nr |-> k], half |-> 1]
    BY <1>3
  <2>3. frame[2 * k - 1].of = [msg |-> m, nr |-> k]
    BY ONLY <2>2
  <2> QED
    BY <1>1, <2>1, <2>3
<1>13. Intact(frame) = Elements(m)
  BY <1>1, <1>10, <1>11, <1>12, SeqEqual
<1> QED
  BY <1>8, <1>13 DEF Updates, S

\* A message at the front: the units are its bytes.
LEMMA FrontIs ==
    ASSUME NEW units \in Seq(Unit), NEW m \in Messages
    PROVE  IsPrefix(Encode(m), units) <=>
               /\ Len(Encode(m)) <= Len(units)
               /\ \A j \in 1 .. Len(Encode(m)) : units[j] = Encode(m)[j]
<1> DEFINE enc == Encode(m)
           n == Len(enc)
<1>1. enc \in Seq(Unit) /\ n \in Nat /\ Len(units) \in Nat
  BY EncodeIs, LenProperties
<1>2. IsPrefix(enc, units) <=> n <= Len(units) /\ SubSeq(enc, 1, n) = SubSeq(units, 1, n)
  BY DEF IsPrefix
<1> HIDE DEF enc
<1>3. SubSeq(enc, 1, n) = enc
  BY <1>1, SubSeqFull
<1>4. ASSUME n <= Len(units)
      PROVE  SubSeq(units, 1, n) = enc <=> \A j \in 1 .. n : units[j] = enc[j]
  <2> DEFINE front == SubSeq(units, 1, n)
  <2>1. front \in Seq(Unit) /\ Len(front) = n /\ \A j \in 1 .. n : front[j] = units[j]
    <3>1. n \in 0 .. Len(units)
      BY <1>1, <1>4
    <3> HIDE DEF n
    <3> QED
      BY <3>1, TakeFacts
  <2> HIDE DEF front
  <2>2. ASSUME \A j \in 1 .. n : units[j] = enc[j] PROVE front = enc
    <3>1. \A j \in 1 .. n : front[j] = enc[j]
      BY <2>1, <2>2
    <3> QED
      BY <1>1, <2>1, <3>1, SeqEqual
  <2>3. front = enc => \A j \in 1 .. n : units[j] = enc[j]
    BY <2>1
  <2> QED
    BY <2>2, <2>3 DEF front
<1> QED
  BY <1>2, <1>3, <1>4 DEF enc

\* The frame at the front is the message, whatever follows it.
LEMMA FrontFrame ==
    ASSUME NEW units \in Seq(Unit), NEW m \in Messages \ Embedding, IsPrefix(Encode(m), units)
    PROVE  Updates(SubSeq(units, 1, FirstFrame(units) - 2))
              = [elements : {Elements(m)}, garbled : {FALSE}]
<1> DEFINE n == 2 * Size[m]
<1>1. /\ n \in Nat \ {0} /\ Len(Encode(m)) = n + 2
      /\ \A j \in 1 .. n : Encode(m)[j] = Payload(m)[j]
      /\ Encode(m)[n + 1] = EndOfMessage[1] /\ Encode(m)[n + 2] = EndOfMessage[2]
  <2>1. n \in Nat \ {0}
    BY ElementsAre
  <2> QED
    BY <2>1, EncodeIs
<1>2. n + 2 <= Len(units) /\ \A j \in 1 .. (n + 2) : units[j] = Encode(m)[j]
  BY <1>1, FrontIs
<1>3. \A j \in 1 .. n : \/ \E k \in 1 .. Size[m] : j = 2 * k - 1
                        \/ \E k \in 1 .. Size[m] : j = 2 * k
  <2>1. Size[m] \in Nat
    BY ElementsAre
  <2> QED
    BY <2>1, Halves
<1> HIDE DEF n
<1>4. ASSUME NEW j \in 1 .. n PROVE units[j] = Payload(m)[j] /\ units[j].of \in Element
  <2>1. units[j] = Payload(m)[j]
    BY <1>1, <1>2
  <2>2. PICK k \in 1 .. Size[m] : j = 2 * k - 1 \/ j = 2 * k
    BY <1>3
  <2>3. \/ Payload(m)[j] = [of |-> [msg |-> m, nr |-> k], half |-> 1]
        \/ Payload(m)[j] = [of |-> [msg |-> m, nr |-> k], half |-> 2]
    BY <2>2, PayloadIs
  <2>4. Payload(m)[j].of = [msg |-> m, nr |-> k]
    BY <2>3
  <2>5. [msg |-> m, nr |-> k] \in Element
    BY ElementsAre
  <2> QED
    BY <2>1, <2>4, <2>5
<1>5. units[n + 1] = EndOfMessage[1] /\ units[n + 2] = EndOfMessage[2] /\ Len(units) \in Nat
  <2>1. n + 1 \in 1 .. (n + 2) /\ n + 2 \in 1 .. (n + 2)
    BY <1>1
  <2> QED
    BY <1>1, <1>2, <2>1, LenProperties
<1>6. n + 2 \in Delimiters(units)
  <2>1. n + 2 \in 2 .. Len(units) /\ (n + 2) - 1 = n + 1
    BY <1>1, <1>2, <1>5
  <2> QED
    BY <1>5, <2>1 DEF Delimiters
<1>7. ASSUME NEW k \in Delimiters(units), k < n + 2 PROVE FALSE
  <2>1. k \in 2 .. Len(units) /\ units[k] = EndOfMessage[2]
    BY DEF Delimiters
  <2>2. k \in 1 .. n \/ k = n + 1
    BY <1>1, <1>5, <1>7, <2>1
  <2>3. EndOfMessage[2].of = Delimiter /\ EndOfMessage[2] # EndOfMessage[1]
    BY EndOfMessageIs
  <2> QED
    BY <1>4, <1>5, <2>1, <2>2, <2>3, ElementIs
<1>8. FirstFrame(units) = n + 2
  <2>1. /\ FirstFrame(units) \in Delimiters(units) /\ FirstFrame(units) \in 2 .. Len(units)
        /\ FirstFrame(units) <= n + 2
    BY <1>6, FirstFrameIs
  <2>2. ~(FirstFrame(units) < n + 2)
    BY <1>7, <2>1
  <2> QED
    BY <1>1, <1>5, <2>1, <2>2
<1> DEFINE frame == SubSeq(units, 1, n)
<1>9. frame \in Seq(Unit) /\ Len(frame) = n /\ \A j \in 1 .. n : frame[j] = units[j]
  <2>1. n \in 0 .. Len(units)
    BY <1>1, <1>2, <1>5
  <2> QED
    BY <2>1, TakeFacts
<1>10. FirstFrame(units) - 2 = n
  BY <1>1, <1>8
<1> HIDE DEF frame
<1>11. Updates(frame) = [elements : {Elements(m)}, garbled : {FALSE}]
  <2>1. Len(frame) = 2 * Size[m] /\ \A j \in 1 .. (2 * Size[m]) : frame[j] = Payload(m)[j]
    BY <1>4, <1>9 DEF n
  <2> QED
    BY <1>9, <2>1, PayloadIntact
<1> QED
  BY <1>10, <1>11 DEF frame

FrontGetsThrough ==
    \A e \in Ends : \A m \in Messages \ Embedding :
        \/ ~IsPrefix(Encode(m), wire[e])
        \/ IsPrefix(Encode(m), wire'[e])
        \/ delivered'[e] = delivered[e] \o Elements(m) /\ garbled'[e] = garbled[e]
        \/ \E end \in Ends : phase[end] = "closed"

LEMMA FrontStep == IInv /\ [Next]_vars => FrontGetsThrough
<1> SUFFICES ASSUME IInv, [Next]_vars, NEW e \in Ends, NEW m \in Messages \ Embedding,
                    IsPrefix(Encode(m), wire[e]), \A end \in Ends : phase[end] # "closed"
             PROVE  \/ IsPrefix(Encode(m), wire'[e])
                    \/ delivered'[e] = delivered[e] \o Elements(m) /\ garbled'[e] = garbled[e]
  BY DEF FrontGetsThrough
<1>1. /\ wire \in [Ends -> Seq(Unit)] /\ wire[e] \in Seq(Unit)
      /\ delivered \in [Ends -> Seq(Element)] /\ garbled \in [Ends -> BOOLEAN]
  BY DEF IInv, TypeOK
<1>2. CASE wire'[e] = wire[e]
  BY <1>2
<1>3. ASSUME NEW x \in Ends, NEW t \in Threads, WriteSome(x, t)
      PROVE  IsPrefix(Encode(m), wire'[e])
  <2> DEFINE w == thread[x][t].msg
  <2>1. PICK n \in 1 .. Len(Encode(w)) : wire' = [wire EXCEPT ![Peer(x)] = @ \o SubSeq(Encode(w), 1, n)]
    BY ZenonT(30), <1>3, WriteSomeIs
  <2>2. w \in Messages
    BY ZenonT(30), <1>3, WriteSomeIs
  <2> HIDE DEF w
  <2>3. CASE e = Peer(x)
    <3>1. wire'[e] = wire[e] \o SubSeq(Encode(w), 1, n)
      BY <1>1, <2>1, <2>3
    <3>2. /\ wire'[e] \in Seq(Unit) /\ Len(wire'[e]) = Len(wire[e]) + n
          /\ \A j \in 1 .. Len(wire[e]) : wire'[e][j] = wire[e][j]
      BY <1>1, <2>2, <3>1, WriteFacts
    <3>3. /\ Len(wire[e]) \in Nat /\ n \in Nat /\ Len(Encode(m)) \in Nat
          /\ Len(Encode(m)) <= Len(wire[e])
          /\ \A j \in 1 .. Len(Encode(m)) : wire[e][j] = Encode(m)[j]
      BY <1>1, EncodeIs, FrontIs, LenProperties
    <3>4. /\ Len(Encode(m)) <= Len(wire'[e])
          /\ \A j \in 1 .. Len(Encode(m)) : wire'[e][j] = Encode(m)[j]
      BY <3>2, <3>3
    <3> QED
      BY <3>2, <3>4, FrontIs
  <2>4. CASE e # Peer(x)
    <3>1. wire'[e] = wire[e]
      BY <1>1, <2>1, <2>4
    <3> QED
      BY <3>1
  <2> QED
    BY <2>3, <2>4
<1>4. ASSUME NEW x \in Ends, Read(x), x # e
      PROVE  wire'[e] = wire[e]
  BY <1>1, <1>4, ReadIs
<1>5. CASE Read(e)
  <2>1. PICK update \in Updates(SubSeq(wire[e], 1, FirstFrame(wire[e]) - 2)) :
           /\ delivered' = [delivered EXCEPT ![e] = @ \o update.elements]
           /\ garbled' = [garbled EXCEPT ![e] = @ \/ update.garbled]
    BY <1>5, ReadIs
  <2>2. update \in [elements : {Elements(m)}, garbled : {FALSE}]
    BY <1>1, <2>1, FrontFrame
  <2>3. update.elements = Elements(m) /\ update.garbled = FALSE
    BY <2>2
  <2>4. delivered'[e] = delivered[e] \o Elements(m)
    BY <1>1, <2>1, <2>3
  <2>5. garbled'[e] = (garbled[e] \/ FALSE)
    BY <1>1, <2>1, <2>3
  <2>6. garbled[e] \in BOOLEAN
    BY <1>1
  <2> QED
    BY <2>4, <2>5, <2>6
<1>6. ASSUME NEW x \in Ends, ReadFails(x)
      PROVE  FALSE
  BY <1>6, PeerIs DEF ReadFails
<1>7. CASE \/ UNCHANGED vars \/ Connecting
           \/ \E x \in Ends : Close(x) \/ \E forced \in BOOLEAN : Send(x, forced)
           \/ \E x \in Ends, t \in Threads : SetSending(x, t) \/ WriteFails(x, t) \/ ClearSending(x, t)
  <2>1. wire' = wire
    BY <1>7 DEF vars, readVars, Connecting, Listen, Connect, ConnectFails, Accept, Close, Send,
                SetSending, WriteFails, ClearSending
  <2> QED
    BY <1>2, <2>1
<1> QED
  BY <1>2, <1>3, <1>4, <1>5, <1>6, <1>7 DEF Next, Sender

\* A message at the front of the wire gets through as it was written, unless a connection is
\* closed: only what follows in the socket is lost with the streambuf of its read.
THEOREM OnlyFollowersLostHolds == Spec => OnlyFollowersLost
<1>1. Spec => [][FrontGetsThrough]_vars
  BY ConnectionInvariant, FrontStep, PTL DEF Spec
<1> QED
  BY <1>1 DEF OnlyFollowersLost, FrontGetsThrough
-----------------------------------------------------------------------------
(* The counters that the players see                                       *)

\* The threads of an end that are about to count.
Counting(e) == {t \in Threads : thread[e][t].pc = "clear"}

\* The messages written towards an end that hold end_of_message in their bytes.
MessagesOf(elements) == {elements[i].msg : i \in DOMAIN elements}
Twice(e) == Embedding \cap MessagesOf(written[e])

\* Each end of a frame on the wire is one that the reader may yet count.
CountInv ==
    \A e \in Ends :
        received[e] + Cardinality(Delimiters(wire[e]))
            <= sent[Peer(e)] + Cardinality(Counting(Peer(e))) + Cardinality(Twice(e))

LEMMA FiniteDelimiters ==
    ASSUME NEW units \in Seq(Unit)
    PROVE  IsFiniteSet(Delimiters(units)) /\ Cardinality(Delimiters(units)) \in Nat
<1>1. Len(units) \in Nat
  BY LenProperties
<1>2. Delimiters(units) \in SUBSET (2 .. Len(units))
  BY DEF Delimiters
<1>3. IsFiniteSet(2 .. Len(units))
  BY <1>1, FS_Interval
<1> QED
  BY <1>2, <1>3, FS_Subset, FS_CardinalityType

LEMMA FiniteCounts ==
    ASSUME IInv, NEW e \in Ends
    PROVE  /\ received[e] \in Nat /\ sent[e] \in Nat
           /\ IsFiniteSet(Delimiters(wire[e])) /\ Cardinality(Delimiters(wire[e])) \in Nat
           /\ IsFiniteSet(Counting(e)) /\ Cardinality(Counting(e)) \in Nat
           /\ IsFiniteSet(Twice(e)) /\ Cardinality(Twice(e)) \in Nat
<1>1. received[e] \in Nat /\ sent[e] \in Nat /\ wire[e] \in Seq(Unit) /\ written[e] \in Seq(Element)
  BY DEF IInv, TypeOK
<1>2. IsFiniteSet(Counting(e)) /\ Cardinality(Counting(e)) \in Nat
  <2>1. IsFiniteSet(Threads) /\ Counting(e) \in SUBSET Threads
    BY ConnectionAssumption DEF Counting
  <2> QED
    BY <2>1, FS_Subset, FS_CardinalityType
<1>3. IsFiniteSet(Twice(e)) /\ Cardinality(Twice(e)) \in Nat
  <2>1. /\ Peer(e) \in Ends /\ Peer(Peer(e)) = e /\ calls[Peer(e)] \in Nat
        /\ DOMAIN written[e] = 1 .. Len(written[e])
    BY <1>1, PeerIs, LenProperties DEF IInv, TypeOK
  <2>2. \A i \in 1 .. Len(written[e]) : written[e][i].msg \in 1 .. calls[Peer(e)]
    BY <2>1 DEF IInv, MessagesInv
  <2>3. Twice(e) \in SUBSET (1 .. calls[Peer(e)])
    BY <2>1, <2>2 DEF Twice, MessagesOf
  <2>4. IsFiniteSet(1 .. calls[Peer(e)])
    BY <2>1, FS_Interval
  <2> QED
    BY <2>3, <2>4, FS_Subset, FS_CardinalityType
<1> QED
  BY <1>1, <1>2, <1>3, FiniteDelimiters

\* A write adds one end of a frame, or two if end_of_message occurs in the message.
LEMMA DelimitersWritten ==
    ASSUME NEW units \in Seq(Unit), NEW m \in Messages, NEW n \in 1 .. Len(Encode(m))
    PROVE  LET longer == units \o SubSeq(Encode(m), 1, n) IN
           /\ Cardinality(Delimiters(longer)) \in Nat
           /\ Cardinality(Delimiters(longer))
                 <= Cardinality(Delimiters(units)) + (IF m \in Embedding THEN 2 ELSE 1)
<1> DEFINE longer == units \o SubSeq(Encode(m), 1, n)
           D == Delimiters(units)
           two == Len(units) + Len(Encode(m))
           one == two - 3
<1>1. /\ longer \in Seq(Unit) /\ Len(longer) = Len(units) + n
      /\ \A j \in 1 .. Len(units) : longer[j] = units[j]
      /\ \A j \in 1 .. n : longer[Len(units) + j] = Encode(m)[j]
  BY WriteFacts
<1>2. Len(units) \in Nat /\ Len(Encode(m)) \in Nat
  BY EncodeIs, LenProperties
<1>3. ASSUME NEW j \in 1 .. n, Encode(m)[j] = EndOfMessage[2]
      PROVE  j = Len(Encode(m)) \/ (m \in Embedding /\ j = Len(Encode(m)) - 3)
  <2>1. j \in 1 .. Len(Encode(m))
    BY <1>2
  <2>2. UnitOf(m, Encode(m)[j], j, Len(Encode(m)))
    BY <2>1, EncodeIs
  <2>3. UnitOf(m, EndOfMessage[2], j, Len(Encode(m)))
    BY <1>3, <2>2
  <2>4. EndOfMessage[2] = [of |-> Delimiter, half |-> 2] /\ EndOfMessage[2] # EndOfMessage[1]
    BY EndOfMessageIs
  <2>5. EndOfMessage[2].of = Delimiter /\ EndOfMessage[2].half = 2
    BY ONLY <2>4
  <2>6. ASSUME NEW k, EndOfMessage[2] = [of |-> k, half |-> 1] PROVE FALSE
    <3>1. [of |-> k, half |-> 1].half = 1
      OBVIOUS
    <3> QED
      BY <2>5, <2>6, <3>1
  <2> QED
    BY <2>3, <2>4, <2>5, <2>6, ElementIs DEF UnitOf
<1> HIDE DEF longer
<1>7. ASSUME NEW k \in Delimiters(longer)
      PROVE  k \in D \/ k = two \/ (m \in Embedding /\ k = one)
  <2>1. /\ k \in 2 .. (Len(units) + n)
        /\ longer[k - 1] = EndOfMessage[1] /\ longer[k] = EndOfMessage[2]
    BY <1>1, <1>7 DEF Delimiters
  <2>2. CASE k <= Len(units)
    <3>1. k \in 2 .. Len(units) /\ k \in 1 .. Len(units) /\ k - 1 \in 1 .. Len(units)
      BY <1>2, <2>1, <2>2
    <3> QED
      BY <1>1, <2>1, <3>1 DEF Delimiters
  <2>3. CASE ~(k <= Len(units))
    <3>1. k - Len(units) \in 1 .. n /\ k = Len(units) + (k - Len(units))
      BY <1>2, <2>1, <2>3
    <3>2. PICK j \in 1 .. n : k = Len(units) + j
      BY <3>1
    <3>3. Encode(m)[j] = EndOfMessage[2]
      BY <1>1, <2>1, <3>2
    <3>4. j = Len(Encode(m)) \/ (m \in Embedding /\ j = Len(Encode(m)) - 3)
      BY <1>3, <3>3
    <3> QED
      BY <1>2, <3>2, <3>4
  <2> QED
    BY <2>2, <2>3
<1> HIDE DEF D, one, two
<1>8. IsFiniteSet(D) /\ Cardinality(D) \in Nat
  BY FiniteDelimiters DEF D
<1>9. /\ IsFiniteSet(D \cup {two}) /\ Cardinality(D \cup {two}) \in Nat
      /\ Cardinality(D \cup {two}) <= Cardinality(D) + 1
  <2>1. /\ IsFiniteSet(D \cup {two})
        /\ Cardinality(D \cup {two}) = IF two \in D THEN Cardinality(D) ELSE Cardinality(D) + 1
    BY <1>8, FS_AddElement
  <2> QED
    BY <1>8, <2>1
<1>10. /\ IsFiniteSet((D \cup {two}) \cup {one}) /\ Cardinality((D \cup {two}) \cup {one}) \in Nat
       /\ Cardinality((D \cup {two}) \cup {one}) <= Cardinality(D) + 2
  <2> DEFINE E == D \cup {two}
  <2> HIDE DEF E
  <2>1. IsFiniteSet(E) /\ Cardinality(E) \in Nat /\ Cardinality(E) <= Cardinality(D) + 1
    BY <1>9 DEF E
  <2>2. /\ IsFiniteSet(E \cup {one})
        /\ Cardinality(E \cup {one}) = IF one \in E THEN Cardinality(E) ELSE Cardinality(E) + 1
    BY <2>1, FS_AddElement
  <2>3. /\ Cardinality(E \cup {one}) \in Nat
        /\ Cardinality(E \cup {one}) <= Cardinality(D) + 2
    BY <1>8, <2>1, <2>2
  <2> QED
    BY <2>2, <2>3 DEF E
<1>11. Cardinality(Delimiters(longer)) \in Nat
  BY <1>1, FiniteDelimiters
<1>12. Cardinality(Delimiters(longer)) <= Cardinality(D) + (IF m \in Embedding THEN 2 ELSE 1)
  <2>1. CASE m \in Embedding
    <3>1. Delimiters(longer) \in SUBSET ((D \cup {two}) \cup {one})
      BY <1>7
    <3>2. Cardinality(Delimiters(longer)) <= Cardinality((D \cup {two}) \cup {one})
      BY <1>10, <3>1, FS_Subset
    <3> QED
      BY <1>8, <1>10, <1>11, <2>1, <3>2
  <2>2. CASE m \notin Embedding
    <3>1. Delimiters(longer) \in SUBSET (D \cup {two})
      BY <1>7, <2>2
    <3>2. Cardinality(Delimiters(longer)) <= Cardinality(D \cup {two})
      BY <1>9, <3>1, FS_Subset
    <3> QED
      BY <1>8, <1>9, <1>11, <2>2, <3>2
  <2> QED
    BY <2>1, <2>2
<1> QED
  BY <1>11, <1>12 DEF longer, D

\* A read takes the end of the first frame, at least.
LEMMA DelimitersRead ==
    ASSUME NEW units \in Seq(Unit), Delimiters(units) # {},
           NEW n \in 0 .. Len(units), n >= FirstFrame(units)
    PROVE  LET rest == SubSeq(units, n + 1, Len(units)) IN
           /\ Cardinality(Delimiters(rest)) \in Nat
           /\ Cardinality(Delimiters(rest)) + 1 <= Cardinality(Delimiters(units))
<1> DEFINE rest == SubSeq(units, n + 1, Len(units))
           T == Delimiters(units) \ {FirstFrame(units)}
           f == [i \in Delimiters(rest) |-> i + n]
<1>1. rest \in Seq(Unit) /\ Len(rest) = Len(units) - n /\ \A j \in 1 .. (Len(units) - n) : rest[j] = units[n + j]
  BY DropFacts
<1>2. Len(units) \in Nat /\ n \in Nat /\ n <= Len(units)
  BY LenProperties
<1>3. FirstFrame(units) \in Delimiters(units) /\ FirstFrame(units) \in 2 .. Len(units)
  BY FirstFrameIs
<1> HIDE DEF rest
<1>4. ASSUME NEW i \in Delimiters(rest)
      PROVE  i \in Nat /\ i + n \in T
  <2>1. /\ i \in 2 .. (Len(units) - n)
        /\ rest[i - 1] = EndOfMessage[1] /\ rest[i] = EndOfMessage[2]
    BY <1>1 DEF Delimiters
  <2>2. /\ i \in Nat /\ i \in 1 .. (Len(units) - n) /\ i - 1 \in 1 .. (Len(units) - n)
        /\ n + i = i + n /\ n + (i - 1) = (i + n) - 1 /\ i + n \in 2 .. Len(units) /\ i + n > n
    BY <1>2, <2>1
  <2>3. units[(i + n) - 1] = EndOfMessage[1] /\ units[i + n] = EndOfMessage[2]
    BY <1>1, <2>1, <2>2
  <2>4. i + n \in Delimiters(units)
    BY <2>2, <2>3 DEF Delimiters
  <2>5. i + n # FirstFrame(units)
    BY <1>2, <1>3, <2>2
  <2> QED
    BY <2>2, <2>4, <2>5
<1>5. /\ IsFiniteSet(T) /\ Cardinality(Delimiters(units)) \in Nat
      /\ Cardinality(T) = Cardinality(Delimiters(units)) - 1
  BY <1>3, FiniteDelimiters, FS_RemoveElement
<1> HIDE DEF T
<1>6. f \in Injection(Delimiters(rest), T)
  <2>1. f \in [Delimiters(rest) -> T]
    BY <1>4
  <2>2. ASSUME NEW i \in Delimiters(rest), NEW j \in Delimiters(rest), f[i] = f[j] PROVE i = j
    BY <1>2, <1>4, <2>2
  <2> QED
    BY <2>1, <2>2 DEF Injection, IsInjective
<1>7. Cardinality(Delimiters(rest)) <= Cardinality(T)
  BY <1>5, <1>6, FS_Injection
<1>8. Cardinality(Delimiters(rest)) \in Nat
  BY <1>1, FiniteDelimiters
<1> QED
  BY <1>5, <1>7, <1>8 DEF rest

LEMMA EmptyDelimiters == Delimiters(<<>>) = {}
<1>1. 2 .. Len(<<>>) = {}
  OBVIOUS
<1> QED
  BY <1>1 DEF Delimiters

LEMMA InitCounts == Init => CountInv
<1> SUFFICES ASSUME Init, NEW e \in Ends
             PROVE  received[e] + Cardinality(Delimiters(wire[e]))
                       <= sent[Peer(e)] + Cardinality(Counting(Peer(e))) + Cardinality(Twice(e))
  BY DEF CountInv
<1>1. Peer(e) \in Ends
  BY PeerIs
<1>2. received[e] = 0 /\ sent[Peer(e)] = 0 /\ wire[e] = <<>>
  BY <1>1 DEF Init
<1>3. Delimiters(<<>>) = {}
  BY EmptyDelimiters
<1>4. Cardinality(Delimiters(wire[e])) = 0
  BY <1>2, <1>3, FS_EmptySet
<1>5. Cardinality(Counting(Peer(e))) \in Nat /\ Cardinality(Twice(e)) \in Nat
  BY <1>1, InitInv, FiniteCounts
<1> QED
  BY <1>2, <1>4, <1>5

\* What a step of a thread of send does to the threads about to count.
LEMMA CountingStep ==
    ASSUME TypeOK, NEW e \in Ends, NEW t \in Threads, NEW u \in SendThread,
           thread' = [thread EXCEPT ![e][t] = u]
    PROVE  /\ Counting(e)' = IF u.pc = "clear" THEN Counting(e) \cup {t} ELSE Counting(e) \ {t}
           /\ \A end \in Ends : end # e => Counting(end)' = Counting(end)
<1>1. /\ thread'[e][t] = u
      /\ \A end \in Ends, s \in Threads : <<end, s>> # <<e, t>> => thread'[end][s] = thread[end][s]
  BY ZenonT(30), ThreadStep
<1>2. \A s \in Threads : s # t => thread'[e][s] = thread[e][s]
  BY <1>1
<1>3. \A end \in Ends : end # e => \A s \in Threads : thread'[end][s] = thread[end][s]
  BY <1>1
<1>4. \A s : s \in Counting(e)' <=> s \in Threads /\ thread'[e][s].pc = "clear"
  BY DEF Counting
<1>5. \A s : s \in Counting(e) <=> s \in Threads /\ thread[e][s].pc = "clear"
  BY DEF Counting
<1>6. CASE u.pc = "clear"
  <2>1. \A s : s \in Counting(e)' <=> s \in Counting(e) \cup {t}
    BY <1>1, <1>2, <1>4, <1>5, <1>6
  <2> QED
    BY <1>3, <1>6, <2>1 DEF Counting
<1>7. CASE u.pc # "clear"
  <2>1. \A s : s \in Counting(e)' <=> s \in Counting(e) \ {t}
    BY <1>1, <1>2, <1>4, <1>5, <1>7
  <2> QED
    BY <1>3, <1>7, <2>1 DEF Counting
<1> QED
  BY <1>6, <1>7

\* The step of a thread that neither writes nor counts.
LEMMA QuietCounts ==
    ASSUME IInv, IInv', CountInv, NEW e \in Ends, NEW t \in Threads, NEW u \in SendThread,
           thread' = [thread EXCEPT ![e][t] = u], thread[e][t].pc # "clear",
           UNCHANGED <<wire, written, received, sent>>
    PROVE  CountInv'
<1>1. TypeOK
  BY DEF IInv
<1>2. /\ Counting(e)' = IF u.pc = "clear" THEN Counting(e) \cup {t} ELSE Counting(e) \ {t}
      /\ \A end \in Ends : end # e => Counting(end)' = Counting(end)
  BY <1>1, CountingStep
<1>3. t \notin Counting(e)
  BY DEF Counting
<1>4. \A end \in Ends : Counting(end) \subseteq Counting(end)'
  BY <1>2, <1>3
<1>5. ASSUME NEW end \in Ends
      PROVE  /\ Cardinality(Counting(end)) <= Cardinality(Counting(end)')
             /\ Cardinality(Counting(end)) \in Nat /\ Cardinality(Counting(end)') \in Nat
  <2>1. Cardinality(Counting(end)) \in Nat
    BY FiniteCounts
  <2>2. IsFiniteSet(Threads) /\ Counting(end)' \in SUBSET Threads
    BY ConnectionAssumption DEF Counting
  <2>3. IsFiniteSet(Counting(end)') /\ Cardinality(Counting(end)') \in Nat
    BY <2>2, FS_Subset, FS_CardinalityType
  <2> QED
    BY <1>4, <2>1, <2>3, FS_Subset
<1> SUFFICES ASSUME NEW end \in Ends
             PROVE  received'[end] + Cardinality(Delimiters(wire'[end]))
                       <= sent'[Peer(end)] + Cardinality(Counting(Peer(end))') + Cardinality(Twice(end)')
  BY DEF CountInv
<1>6. /\ received'[end] = received[end] /\ sent'[Peer(end)] = sent[Peer(end)]
      /\ wire'[end] = wire[end] /\ Twice(end)' = Twice(end)
  BY DEF Twice
<1>7. received[end] + Cardinality(Delimiters(wire[end]))
         <= sent[Peer(end)] + Cardinality(Counting(Peer(end))) + Cardinality(Twice(end))
  BY DEF CountInv
<1>8. /\ Peer(end) \in Ends /\ received[end] \in Nat /\ sent[Peer(end)] \in Nat
      /\ Cardinality(Delimiters(wire[end])) \in Nat /\ Cardinality(Twice(end)) \in Nat
  BY PeerIs, FiniteCounts
<1> QED
  BY <1>5, <1>6, <1>7, <1>8

LEMMA ClearCounts ==
    ASSUME IInv, IInv', CountInv, NEW e \in Ends, NEW t \in Threads, ClearSending(e, t)
    PROVE  CountInv'
<1>1. /\ thread[e][t].pc = "clear" /\ thread' = [thread EXCEPT ![e][t] = IdleThread]
      /\ sent' = [sent EXCEPT ![e] = @ + 1] /\ UNCHANGED <<wire, written, received>>
  BY DEF ClearSending, readVars
<1>2. TypeOK /\ sent \in [Ends -> Nat] /\ IdleThread \in SendThread /\ IdleThread.pc = "idle"
  BY DEF IInv, TypeOK, IdleThread, SendThread, ThreadPcs
<1>3. /\ Counting(e)' = Counting(e) \ {t} /\ t \in Counting(e)
      /\ \A end \in Ends : end # e => Counting(end)' = Counting(end)
  <2>1. t \in Counting(e)
    BY <1>1 DEF Counting
  <2> QED
    BY <1>1, <1>2, <2>1, CountingStep
<1>4. /\ sent'[e] = sent[e] + 1 /\ \A end \in Ends : end # e => sent'[end] = sent[end]
  BY <1>1, <1>2
<1>5. /\ Cardinality(Counting(e)') = Cardinality(Counting(e)) - 1
      /\ Cardinality(Counting(e)) \in Nat /\ sent[e] \in Nat
  BY <1>3, FiniteCounts, FS_RemoveElement
<1>6. \A end \in Ends : sent'[end] + Cardinality(Counting(end)') = sent[end] + Cardinality(Counting(end))
  <2> SUFFICES ASSUME NEW end \in Ends
               PROVE  sent'[end] + Cardinality(Counting(end)') = sent[end] + Cardinality(Counting(end))
    OBVIOUS
  <2>1. CASE end = e
    <3>1. sent'[e] + Cardinality(Counting(e)') = sent[e] + Cardinality(Counting(e))
      BY <1>4, <1>5
    <3> QED
      BY <2>1, <3>1
  <2>2. CASE end # e
    BY <1>3, <1>4, <2>2
  <2> QED
    BY <2>1, <2>2
<1>7. \A end \in Ends : Peer(end) \in Ends /\ Twice(end)' = Twice(end)
  BY <1>1, PeerIs DEF Twice
<1> QED
  BY <1>1, <1>6, <1>7 DEF CountInv

LEMMA MessagesWritten ==
    ASSUME NEW elements \in Seq(Element), NEW m \in Messages
    PROVE  MessagesOf(elements \o Elements(m)) = MessagesOf(elements) \cup {m}
<1> DEFINE longer == elements \o Elements(m)
<1>1. /\ Elements(m) \in Seq(Element) /\ Len(Elements(m)) \in Nat \ {0}
      /\ \A k \in 1 .. Len(Elements(m)) : Elements(m)[k] = [msg |-> m, nr |-> k]
  BY ElementsAre
<1>2. /\ longer \in Seq(Element) /\ Len(longer) = Len(elements) + Len(Elements(m))
      /\ \A i \in 1 .. Len(elements) : longer[i] = elements[i]
      /\ \A i \in 1 .. Len(Elements(m)) : longer[Len(elements) + i] = Elements(m)[i]
  <2>1. \A a, b \in Seq(Element) :
           /\ a \o b \in Seq(Element) /\ Len(a \o b) = Len(a) + Len(b)
           /\ \A i \in 1 .. Len(a) : (a \o b)[i] = a[i]
           /\ \A i \in 1 .. Len(b) : (a \o b)[Len(a) + i] = b[i]
    BY ConcatAt
  <2> QED
    BY <1>1, <2>1, Zenon
<1> HIDE DEF longer
<1>3. /\ Len(elements) \in Nat /\ DOMAIN elements = 1 .. Len(elements)
      /\ DOMAIN longer = 1 .. (Len(elements) + Len(Elements(m)))
  BY <1>2, LenProperties
<1>4. \A k \in 1 .. Len(Elements(m)) : longer[Len(elements) + k].msg = m
  <2> SUFFICES ASSUME NEW k \in 1 .. Len(Elements(m)) PROVE longer[Len(elements) + k].msg = m
    OBVIOUS
  <2>1. longer[Len(elements) + k] = [msg |-> m, nr |-> k]
    BY <1>1, <1>2
  <2> QED
    BY ONLY <2>1
<1>5. ASSUME NEW i \in DOMAIN longer
      PROVE  longer[i].msg \in MessagesOf(elements) \cup {m}
  <2>1. CASE i \in DOMAIN elements
    BY <1>2, <1>3, <2>1 DEF MessagesOf
  <2>2. CASE i \notin DOMAIN elements
    <3>1. i - Len(elements) \in 1 .. Len(Elements(m)) /\ i = Len(elements) + (i - Len(elements))
      BY <1>1, <1>3, <2>2
    <3> QED
      BY <1>4, <3>1
  <2> QED
    BY <2>1, <2>2
<1>6. ASSUME NEW i \in DOMAIN elements
      PROVE  elements[i].msg \in MessagesOf(longer)
  <2>1. i \in DOMAIN longer /\ longer[i] = elements[i]
    BY <1>1, <1>2, <1>3
  <2> QED
    BY <2>1 DEF MessagesOf
<1>7. m \in MessagesOf(longer)
  <2>1. Len(elements) + 1 \in DOMAIN longer /\ longer[Len(elements) + 1].msg = m
    BY <1>1, <1>3, <1>4
  <2> QED
    BY <2>1 DEF MessagesOf
<1>8. MessagesOf(longer) \subseteq MessagesOf(elements) \cup {m}
  BY <1>5 DEF MessagesOf
<1>9. MessagesOf(elements) \subseteq MessagesOf(longer)
  BY <1>6 DEF MessagesOf
<1> QED
  BY <1>7, <1>8, <1>9 DEF longer

LEMMA WriteCounts ==
    ASSUME IInv, CountInv, NEW e \in Ends, NEW t \in Threads, WriteSome(e, t)
    PROVE  CountInv'
<1> DEFINE m == thread[e][t].msg
           u == [pc |-> "clear", msg |-> m]
           p == Peer(e)
           most == IF m \in Embedding THEN 2 ELSE 1
<1>1. /\ m \in Messages
      /\ written' = [written EXCEPT ![p] = @ \o Elements(m)]
      /\ thread' = [thread EXCEPT ![e][t] = u]
      /\ \A i \in 1 .. Len(written[p]) : written[p][i].msg # m
      /\ thread[e][t].pc = "write"
      /\ UNCHANGED <<received, sent>>
  BY WriteSomeIs DEF readVars
<1>2. p \in Ends /\ p # e /\ Peer(p) = e /\ \A end \in Ends : end # p => end = e
  BY PeerIs DEF Ends, Peer
<1>3. /\ wire \in [Ends -> Seq(Unit)] /\ written \in [Ends -> Seq(Element)]
      /\ written[p] \in Seq(Element) /\ wire[p] \in Seq(Unit)
  BY <1>2 DEF IInv, TypeOK
<1>4. u \in SendThread /\ u.pc = "clear"
  BY <1>1 DEF SendThread, ThreadPcs
<1>5. PICK n \in 1 .. Len(Encode(m)) : wire' = [wire EXCEPT ![p] = @ \o SubSeq(Encode(m), 1, n)]
  BY WriteSomeIs
<1> HIDE DEF m, u, p
<1>6. wire'[p] = wire[p] \o SubSeq(Encode(m), 1, n) /\ wire'[e] = wire[e]
  BY <1>2, <1>3, <1>5
<1>7. /\ Cardinality(Delimiters(wire'[p])) \in Nat
      /\ Cardinality(Delimiters(wire'[p])) <= Cardinality(Delimiters(wire[p])) + most
  BY <1>1, <1>3, <1>6, DelimitersWritten
<1>8. Counting(e)' = Counting(e) \cup {t} /\ t \notin Counting(e) /\ Counting(p)' = Counting(p)
  <2>1. TypeOK /\ t \notin Counting(e)
    BY <1>1 DEF IInv, Counting
  <2> QED
    BY <1>1, <1>2, <1>4, <2>1, CountingStep
<1>9. /\ Cardinality(Counting(e)') = Cardinality(Counting(e)) + 1
      /\ Cardinality(Counting(e)) \in Nat
  BY <1>8, FiniteCounts, FS_AddElement
<1>10. written'[p] = written[p] \o Elements(m) /\ written'[e] = written[e]
  BY <1>1, <1>2, <1>3
<1>11. /\ m \notin MessagesOf(written[p])
       /\ MessagesOf(written'[p]) = MessagesOf(written[p]) \cup {m}
  <2>1. DOMAIN written[p] = 1 .. Len(written[p])
    BY <1>3, LenProperties
  <2>2. m \notin MessagesOf(written[p])
    BY <1>1, <2>1 DEF MessagesOf
  <2> QED
    BY <1>1, <1>3, <1>10, <2>2, MessagesWritten
<1>12. /\ Cardinality(Twice(p)') = Cardinality(Twice(p)) + most - 1
       /\ Cardinality(Twice(p)) \in Nat /\ Twice(e)' = Twice(e)
  <2>1. IsFiniteSet(Twice(p)) /\ Cardinality(Twice(p)) \in Nat
    BY <1>2, FiniteCounts
  <2> SUFFICES Cardinality(Twice(p)') = Cardinality(Twice(p)) + most - 1
    BY <1>10, <2>1 DEF Twice
  <2>2. CASE m \in Embedding
    <3>1. Twice(p)' = Twice(p) \cup {m} /\ m \notin Twice(p)
      BY <1>11, <2>2 DEF Twice
    <3> QED
      <4>1. Cardinality(Twice(p) \cup {m}) = Cardinality(Twice(p)) + 1
        BY <2>1, <3>1, FS_AddElement
      <4>2. most = 2
        BY <2>2
      <4> HIDE DEF most
      <4>3. Cardinality(Twice(p)') = Cardinality(Twice(p)) + 1
        BY <3>1, <4>1
      <4> QED
        BY <2>1, <4>2, <4>3
  <2>3. CASE m \notin Embedding
    <3>1. Twice(p)' = Twice(p)
      BY <1>11, <2>3 DEF Twice
    <3> QED
      BY <2>1, <2>3, <3>1
  <2> QED
    BY <2>2, <2>3
<1>13. /\ received[p] + Cardinality(Delimiters(wire[p]))
            <= sent[e] + Cardinality(Counting(e)) + Cardinality(Twice(p))
       /\ received[e] + Cardinality(Delimiters(wire[e]))
            <= sent[p] + Cardinality(Counting(p)) + Cardinality(Twice(e))
  BY <1>2 DEF CountInv, p
<1>14. /\ received[p] \in Nat /\ sent[e] \in Nat /\ Cardinality(Delimiters(wire[p])) \in Nat
       /\ most \in {1, 2}
  BY <1>2, FiniteCounts
<1>15. received[p] + Cardinality(Delimiters(wire'[p]))
          <= sent[e] + Cardinality(Counting(e)') + Cardinality(Twice(p)')
  <2> HIDE DEF most
  <2> QED
    BY SMTT(30), <1>7, <1>9, <1>12, <1>13, <1>14
<1> SUFFICES ASSUME NEW end \in Ends
             PROVE  received'[end] + Cardinality(Delimiters(wire'[end]))
                       <= sent'[Peer(end)] + Cardinality(Counting(Peer(end))') + Cardinality(Twice(end)')
  BY DEF CountInv
<1>16. CASE end = p
  BY <1>1, <1>2, <1>15, <1>16
<1>17. CASE end = e
  BY <1>1, <1>6, <1>8, <1>12, <1>13, <1>17 DEF p
<1> QED
  BY <1>2, <1>16, <1>17

LEMMA ReadCounts ==
    ASSUME IInv, CountInv, NEW e \in Ends, Read(e) \/ ReadFails(e)
    PROVE  CountInv'
<1>1. /\ wire \in [Ends -> Seq(Unit)] /\ received \in [Ends -> Nat] /\ wire[e] \in Seq(Unit)
  BY DEF IInv, TypeOK
<1>2. UNCHANGED <<thread, sent, written>>
  BY ReadIs DEF ReadFails, sendVars
<1>3. /\ \A end \in Ends : end # e => wire'[end] = wire[end] /\ received'[end] = received[end]
      /\ Cardinality(Delimiters(wire'[e])) \in Nat /\ received'[e] \in Nat
      /\ received'[e] + Cardinality(Delimiters(wire'[e])) <= received[e] + Cardinality(Delimiters(wire[e]))
  <2>1. CASE Read(e)
    <3>1. PICK n \in FirstFrame(wire[e]) .. Len(wire[e]) :
             n \in 0 .. Len(wire[e]) /\ wire' = [wire EXCEPT ![e] = SubSeq(@, n + 1, Len(@))]
      BY <2>1, ReadIs
    <3>2. Delimiters(wire[e]) # {} /\ received' = [received EXCEPT ![e] = @ + 1]
      BY <2>1, ReadIs
    <3>3. FirstFrame(wire[e]) \in 2 .. Len(wire[e])
      BY <1>1, <3>2, FirstFrameIs
    <3>4. n >= FirstFrame(wire[e])
      BY <3>1, <3>3
    <3>5. /\ Cardinality(Delimiters(SubSeq(wire[e], n + 1, Len(wire[e])))) \in Nat
          /\ Cardinality(Delimiters(SubSeq(wire[e], n + 1, Len(wire[e])))) + 1
               <= Cardinality(Delimiters(wire[e]))
      BY <1>1, <3>1, <3>2, <3>4, DelimitersRead
    <3>6. wire'[e] = SubSeq(wire[e], n + 1, Len(wire[e])) /\ received'[e] = received[e] + 1
      BY <1>1, <3>1, <3>2
    <3>7. \A end \in Ends : end # e => wire'[end] = wire[end] /\ received'[end] = received[end]
      BY <1>1, <3>1, <3>2
    <3>8. received[e] \in Nat /\ Cardinality(Delimiters(wire[e])) \in Nat
      BY FiniteCounts
    <3> QED
      BY <3>5, <3>6, <3>7, <3>8
  <2>2. CASE ReadFails(e)
    <3>1. wire' = [wire EXCEPT ![e] = <<>>] /\ received' = received
      BY <2>2 DEF ReadFails, readVars
    <3>2. wire'[e] = <<>> /\ \A end \in Ends : end # e => wire'[end] = wire[end]
      BY <1>1, <3>1
    <3>3. Delimiters(<<>>) = {}
      BY EmptyDelimiters
    <3>4. Cardinality(Delimiters(wire'[e])) = 0
      BY <3>2, <3>3, FS_EmptySet
    <3>5. received[e] \in Nat /\ Cardinality(Delimiters(wire[e])) \in Nat
      BY FiniteCounts
    <3> QED
      BY <3>1, <3>2, <3>4, <3>5
  <2> QED
    BY <2>1, <2>2
<1> SUFFICES ASSUME NEW end \in Ends
             PROVE  received'[end] + Cardinality(Delimiters(wire'[end]))
                       <= sent'[Peer(end)] + Cardinality(Counting(Peer(end))') + Cardinality(Twice(end)')
  BY DEF CountInv
<1>4. /\ sent'[Peer(end)] = sent[Peer(end)] /\ Counting(Peer(end))' = Counting(Peer(end))
      /\ Twice(end)' = Twice(end)
  BY <1>2 DEF Counting, Twice
<1>5. /\ received[end] + Cardinality(Delimiters(wire[end]))
            <= sent[Peer(end)] + Cardinality(Counting(Peer(end))) + Cardinality(Twice(end))
  BY DEF CountInv
<1>6. /\ Peer(end) \in Ends /\ received[end] \in Nat /\ sent[Peer(end)] \in Nat
      /\ Cardinality(Delimiters(wire[end])) \in Nat /\ Cardinality(Twice(end)) \in Nat
      /\ Cardinality(Counting(Peer(end))) \in Nat
  BY PeerIs, FiniteCounts
<1>7. CASE end = e
  BY <1>3, <1>4, <1>5, <1>6, <1>7
<1>8. CASE end # e
  BY <1>3, <1>4, <1>5, <1>8
<1> QED
  BY <1>7, <1>8

LEMMA CountsKept == IInv /\ CountInv /\ [Next]_vars => CountInv'
<1> SUFFICES ASSUME IInv, CountInv, [Next]_vars PROVE CountInv'
  OBVIOUS
<1>1. IInv' /\ TypeOK
  BY NextInv DEF IInv
<1>2. CASE \/ UNCHANGED vars \/ Connecting \/ \E e \in Ends : Close(e)
           \/ UNCHANGED <<thread, wire, written, received, sent>>
  <2>1. UNCHANGED <<thread, wire, written, received, sent>>
    BY <1>2 DEF vars, sendVars, readVars, Connecting, Listen, Connect, ConnectFails, Accept, Close
  <2> QED
    BY <2>1 DEF CountInv, Counting, Twice
<1>3. ASSUME NEW e \in Ends, NEW forced \in BOOLEAN, Send(e, forced)
      PROVE  CountInv'
  <2>1. UNCHANGED <<wire, written, received, sent>>
    BY <1>3 DEF Send, readVars
  <2>2. CASE UNCHANGED thread
    BY <1>2, <2>1, <2>2
  <2>3. ASSUME NEW t \in Threads, thread[e][t].pc = "idle",
               thread' = [thread EXCEPT ![e][t] = [pc |-> "set", msg |-> calls'[e]]]
        PROVE  CountInv'
    <3> DEFINE u == [pc |-> "set", msg |-> calls'[e]]
    <3>1. u \in SendThread
      <4>1. calls[e] \in Nat /\ MaxCalls[e] \in Nat /\ calls[e] < MaxCalls[e] /\ calls'[e] = calls[e] + 1
        BY <1>1, <1>3, ConnectionAssumption DEF TypeOK, Send
      <4>2. calls'[e] \in Messages
        BY <4>1, CallsAreMessages
      <4> QED
        BY <4>2 DEF SendThread, ThreadPcs
    <3>2. thread' = [thread EXCEPT ![e][t] = u]
      BY <2>3
    <3> HIDE DEF u
    <3>3. thread[e][t].pc # "clear"
      BY <2>3
    <3> QED
      BY <1>1, <2>1, <3>1, <3>2, <3>3, QuietCounts
  <2> QED
    BY <1>3, <2>2, <2>3 DEF Send
<1>4. ASSUME NEW e \in Ends, NEW t \in Threads, SetSending(e, t) \/ WriteFails(e, t)
      PROVE  CountInv'
  <2>1. PICK p \in {"write", "clear"} : /\ thread' = [thread EXCEPT ![e][t].pc = p]
                                        /\ thread[e][t].pc \in {"set", "write"}
    BY <1>4 DEF SetSending, WriteFails
  <2> DEFINE u == [pc |-> p, msg |-> thread[e][t].msg]
  <2>2. p \in ThreadPcs /\ thread[e][t] \in SendThread
    BY <1>1 DEF ThreadPcs, TypeOK, SendThread
  <2>3. thread' = [thread EXCEPT ![e][t] = u]
    BY <1>1, <2>1, <2>2, ThreadMoves
  <2>4. u \in SendThread
    BY <2>2 DEF SendThread
  <2>5. UNCHANGED <<wire, written, received, sent>> /\ thread[e][t].pc # "clear"
    BY <1>4, <2>1 DEF SetSending, WriteFails, readVars
  <2> HIDE DEF u
  <2> QED
    BY <1>1, <2>3, <2>4, <2>5, QuietCounts
<1> QED
  BY <1>1, <1>2, <1>3, <1>4, WriteCounts, ClearCounts, ReadCounts DEF Next, Sender

\* No end counts more received updates than its peer has sent or is about to count.
THEOREM ReceivedWasSentHolds == Spec => []ReceivedWasSent
<1>1. Spec => [](IInv /\ CountInv)
  BY InitInv, InitCounts, NextInv, CountsKept, PTL DEF Spec
<1>2. IInv /\ CountInv => ReceivedWasSent
  <2> SUFFICES ASSUME IInv, CountInv, NEW e \in Ends
               PROVE  received[e] <= sent[Peer(e)] + Cardinality(Counting(Peer(e))) + Cardinality(Twice(e))
    BY DEF ReceivedWasSent, Counting, Twice, MessagesOf
  <2>1. /\ Peer(e) \in Ends /\ received[e] \in Nat /\ sent[Peer(e)] \in Nat
        /\ Cardinality(Delimiters(wire[e])) \in Nat /\ Cardinality(Twice(e)) \in Nat
        /\ Cardinality(Counting(Peer(e))) \in Nat
    BY PeerIs, FiniteCounts
  <2> QED
    BY <2>1 DEF CountInv
<1> QED
  BY <1>1, <1>2, PTL

-----------------------------------------------------------------------------
(* What read_until promises is what Read relies on                         *)

\* The frames of a stream of units, as ReadUntil implements them for bytes.
F == INSTANCE Frames WITH
        Byte <- Unit, Delimiter <- EndOfMessage, pending <- <<>>, frames <- <<>>

LEMMA DelimiterAtIs ==
    ASSUME NEW units \in Seq(Unit), NEW q \in Nat
    PROVE  F!DelimiterAt(units, q) <=> q + 2 \in Delimiters(units)
<1>1. Len(units) \in Nat
  BY LenProperties
<1>2. Len(EndOfMessage) = 2
  BY EndOfMessageIs
<1>3. F!DelimiterAt(units, q) <=>
          /\ q + 2 <= Len(units)
          /\ \A i \in 1 .. 2 : units[q + i] = EndOfMessage[i]
  BY <1>2 DEF F!DelimiterAt
<1>4. (\A i \in 1 .. 2 : units[q + i] = EndOfMessage[i]) <=>
          units[q + 1] = EndOfMessage[1] /\ units[q + 2] = EndOfMessage[2]
  <2>1. \A i : i \in 1 .. 2 <=> i = 1 \/ i = 2
    OBVIOUS
  <2> QED
    BY <2>1
<1>5. (q + 2) - 1 = q + 1 /\ (q + 2 \in 2 .. Len(units) <=> q + 2 <= Len(units))
  BY <1>1
<1> QED
  BY <1>3, <1>4, <1>5 DEF Delimiters

LEMMA FirstDelimiterIs ==
    ASSUME NEW units \in Seq(Unit), NEW p \in Nat
    PROVE  F!FirstDelimiterAt(units, p) <=>
               Delimiters(units) # {} /\ p = FirstFrame(units) - 2
<1>1. F!FirstDelimiterAt(units, p) <=>
          p + 2 \in Delimiters(units) /\ \A q \in 0 .. (p - 1) : q + 2 \notin Delimiters(units)
  <2>1. \A q \in 0 .. (p - 1) : q \in Nat
    OBVIOUS
  <2> QED
    BY <2>1, DelimiterAtIs DEF F!FirstDelimiterAt
<1>2. Len(units) \in Nat
  BY LenProperties
<1>3. ASSUME Delimiters(units) # {}, p = FirstFrame(units) - 2
      PROVE  F!FirstDelimiterAt(units, p)
  <2>1. /\ FirstFrame(units) \in Delimiters(units) /\ FirstFrame(units) \in 2 .. Len(units)
        /\ \A j \in Delimiters(units) : FirstFrame(units) <= j
    BY <1>3, FirstFrameIs
  <2>2. p + 2 = FirstFrame(units)
    BY <1>2, <1>3, <2>1
  <2>3. \A q \in 0 .. (p - 1) : q + 2 \notin Delimiters(units)
    <3> SUFFICES ASSUME NEW q \in 0 .. (p - 1), q + 2 \in Delimiters(units) PROVE FALSE
      OBVIOUS
    <3>1. FirstFrame(units) <= q + 2
      BY <2>1
    <3> QED
      BY <2>2, <3>1
  <2> QED
    BY <1>1, <2>1, <2>2, <2>3
<1>4. ASSUME F!FirstDelimiterAt(units, p)
      PROVE  Delimiters(units) # {} /\ p = FirstFrame(units) - 2
  <2>1. p + 2 \in Delimiters(units) /\ \A q \in 0 .. (p - 1) : q + 2 \notin Delimiters(units)
    BY <1>1, <1>4
  <2>2. /\ FirstFrame(units) \in Delimiters(units) /\ FirstFrame(units) \in 2 .. Len(units)
        /\ FirstFrame(units) <= p + 2
    BY <2>1, FirstFrameIs
  <2>3. ~(FirstFrame(units) < p + 2)
    <3> SUFFICES ASSUME FirstFrame(units) < p + 2 PROVE FALSE
      OBVIOUS
    <3>1. FirstFrame(units) - 2 \in 0 .. (p - 1) /\ (FirstFrame(units) - 2) + 2 = FirstFrame(units)
      BY <1>2, <2>2
    <3>2. FirstFrame(units) \notin Delimiters(units)
      BY <2>1, <3>1
    <3> QED
      BY <2>2, <3>2
  <2>4. p = FirstFrame(units) - 2
    BY <1>2, <2>2, <2>3
  <2> QED
    BY <2>1, <2>4
<1> QED
  BY <1>3, <1>4

\* Read is the step of Frames, which read_until implements, on units in place of bytes:
\* any frame and any loss behind it that Frames allows, and none other, with what the
\* receivers make of that frame.
THEOREM ReadIsTake ==
    ASSUME IInv, NEW e \in Ends
    PROVE  Read(e) <=>
             /\ reader[e] = "reading"
             /\ \E p \in 0 .. Len(wire[e]) :
                   /\ F!FirstDelimiterAt(wire[e], p)
                   /\ \E n \in (p + Len(EndOfMessage)) .. Len(wire[e]) :
                         wire' = [wire EXCEPT ![e] = SubSeq(@, n + 1, Len(@))]
                   /\ Receive(e, SubSeq(wire[e], 1, p))
             /\ UNCHANGED <<connectVars, sendVars, written>>
<1> DEFINE units == wire[e]
           Taken(p) ==
               /\ \E n \in (p + 2) .. Len(units) :
                     wire' = [wire EXCEPT ![e] = SubSeq(@, n + 1, Len(@))]
               /\ Receive(e, SubSeq(units, 1, p))
<1>1. units \in Seq(Unit) /\ Len(units) \in Nat
  BY LenProperties DEF IInv, TypeOK
<1>2. Len(EndOfMessage) = 2
  BY EndOfMessageIs
<1>3. \A p \in 0 .. Len(units) : p \in Nat
  BY <1>1
<1>4. \A p \in 0 .. Len(units) :
          F!FirstDelimiterAt(units, p) <=>
              Delimiters(units) # {} /\ p = FirstFrame(units) - 2
  BY <1>1, <1>3, FirstDelimiterIs
<1>5. Delimiters(units) # {} =>
          FirstFrame(units) - 2 \in 0 .. Len(units) /\ (FirstFrame(units) - 2) + 2 = FirstFrame(units)
  BY <1>1, FirstFrameIs
<1>6. (\E p \in 0 .. Len(units) : F!FirstDelimiterAt(units, p) /\ Taken(p)) <=>
          Delimiters(units) # {} /\ Taken(FirstFrame(units) - 2)
  <2> HIDE DEF Taken, units
  <2> QED
    BY <1>4, <1>5
<1>7. Read(e) <=>
          /\ reader[e] = "reading"
          /\ Delimiters(units) # {} /\ Taken(FirstFrame(units) - 2)
          /\ UNCHANGED <<connectVars, sendVars, written>>
  BY <1>5 DEF Read
<1> QED
  BY <1>2, <1>6, <1>7

=============================================================================
