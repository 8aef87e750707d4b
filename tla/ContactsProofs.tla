--------------------------- MODULE ContactsProofs ---------------------------
(* Theorems about Contacts, for any bodies, places, sizes and margins.      *)
EXTENDS Contacts, FiniteSetTheorems, TLAPS

\* The flag of a proxy and its place in the buffer go together, and the next step looks.
BufferInv ==
    /\ moved = buffer
    /\ buffer # {} => newContacts
    /\ pc # "idle" => buffer = {} /\ ~newContacts
    /\ pc # "collide" => todo = {}

Unique(cs) == \A c, d \in cs : Pair(c) = Pair(d) => c = d
Touching(cs) == {Pair(c) : c \in {d \in cs : d.touching}}

\* What the listener knows is what the contacts say of themselves.
ToldInv == told = Touching(contacts)

LiveInv == \A c \in contacts : Pair(c) \subseteq live

IInv ==
    /\ TypeOK /\ BufferInv /\ LiveInv /\ ToldInv
    /\ OneContactPerPair /\ OverlapsAreKnown

USE DEF Bodies

-----------------------------------------------------------------------------
(* Boxes                                                                   *)

LEMMA PlacesAreInts == Places \subseteq Int
BY ContactsAssumption DEF Places

LEMMA SizesAreNats == \A b \in Bodies : Size[b] \in Nat /\ b \in Nat
BY ContactsAssumption

LEMMA BoxType ==
    ASSUME NEW b \in Bodies, NEW x \in Int
    PROVE  Box(b, x) \in Boxes
BY SizesAreNats DEF Box, Boxes

LEMMA GrownType ==
    ASSUME NEW s \in Boxes, NEW n \in Int
    PROVE  Grown(s, n) \in Boxes
BY DEF Grown, Boxes

LEMMA SweptType ==
    ASSUME NEW b \in Bodies, NEW x \in Int, NEW y \in Int
    PROVE  Swept(b, x, y) \in Boxes
<1>1. Box(b, x) \in Boxes /\ Box(b, y) \in Boxes
  BY BoxType
<1> QED
  BY <1>1 DEF Swept, Combine, Least, Greatest, Boxes

LEMMA PredictedType ==
    ASSUME NEW s \in Boxes, NEW d \in Int
    PROVE  Predicted(s, d) \in Boxes
<1>1. Multiplier * d \in Int
  BY ContactsAssumption
<1> QED
  BY <1>1 DEF Predicted, Boxes

LEMMA MovedBoxType ==
    ASSUME NEW old \in Boxes, NEW b \in Bodies, NEW x \in Int, NEW y \in Int
    PROVE  MovedBox(old, b, x, y) \in Boxes
<1>1. Grown(Swept(b, x, y), Extension) \in Boxes
  BY SweptType, GrownType, ContactsAssumption
<1>2. Predicted(Grown(Swept(b, x, y), Extension), y - x) \in Boxes
  BY <1>1, PredictedType
<1> QED
  BY <1>2 DEF MovedBox

LEMMA OverlapCommutes ==
    ASSUME NEW s, NEW t
    PROVE  Overlap(s, t) <=> Overlap(t, s)
BY DEF Overlap

-----------------------------------------------------------------------------
(* New contacts                                                            *)

\* A query finds every pair of overlapping boxes one of which is buffered, provided that
\* only buffered proxies have the flag.
LEMMA FoundPairsComplete ==
    ASSUME NEW boxes, NEW flags, NEW buffered, DOMAIN boxes \subseteq Nat,
           flags \subseteq buffered, buffered \subseteq DOMAIN boxes,
           NEW p \in DOMAIN boxes, NEW q \in DOMAIN boxes, p # q,
           Overlap(boxes[p], boxes[q]), p \in buffered \/ q \in buffered
    PROVE  <<Least(p, q), Greatest(p, q)>> \in FoundPairs(boxes, flags, buffered)
<1>1. ASSUME NEW r \in DOMAIN boxes, NEW s \in buffered, r # s,
             Overlap(boxes[r], boxes[s]), ~(r \in flags /\ r > s)
      PROVE  <<Least(r, s), Greatest(r, s)>> \in FoundPairs(boxes, flags, buffered)
  <2>1. ~Skipped(r, s, flags)
    BY <1>1 DEF Skipped
  <2>2. <<r, s>> \in (DOMAIN boxes) \X buffered /\ <<r, s>>[1] = r /\ <<r, s>>[2] = s
    OBVIOUS
  <2> QED
    BY <1>1, <2>1, <2>2 DEF FoundPairs
<1>2. Overlap(boxes[q], boxes[p])
  BY OverlapCommutes
<1>3. p \in Nat /\ q \in Nat
  OBVIOUS
<1>4. Least(p, q) = Least(q, p) /\ Greatest(p, q) = Greatest(q, p)
  BY <1>3 DEF Least, Greatest
<1>5. CASE q \in buffered /\ ~(p \in flags /\ p > q)
  BY <1>1, <1>5
<1>6. CASE p \in buffered /\ ~(q \in flags /\ q > p)
  BY <1>1, <1>2, <1>4, <1>6
<1>7. (q \in buffered /\ ~(p \in flags /\ p > q)) \/ (p \in buffered /\ ~(q \in flags /\ q > p))
  BY <1>3
<1> QED
  BY <1>5, <1>6, <1>7

\* It finds nothing but pairs of bodies with a proxy, in the order of the proxies.
LEMMA FoundPairsType ==
    ASSUME NEW boxes, NEW flags, NEW buffered, DOMAIN boxes \subseteq Nat,
           buffered \subseteq DOMAIN boxes,
           NEW pq \in FoundPairs(boxes, flags, buffered)
    PROVE  /\ pq = <<pq[1], pq[2]>>
           /\ pq[1] \in DOMAIN boxes /\ pq[2] \in DOMAIN boxes /\ pq[1] < pq[2]
<1>1. PICK rs \in (DOMAIN boxes) \X buffered :
        /\ ~Skipped(rs[1], rs[2], flags)
        /\ pq = <<Least(rs[1], rs[2]), Greatest(rs[1], rs[2])>>
  BY DEF FoundPairs
<1>2. rs[1] \in DOMAIN boxes /\ rs[2] \in DOMAIN boxes /\ rs[1] # rs[2]
  BY <1>1 DEF Skipped
<1> QED
  BY <1>1, <1>2 DEF Least, Greatest

\* NewContact keeps the pair, whether it swaps or not.
LEMMA NewContactType ==
    ASSUME NEW p \in Bodies, NEW q \in Bodies, ShouldCollide(p, q)
    PROVE  /\ NewContact(p, q) \in Contact
           /\ Pair(NewContact(p, q)) = {p, q}
           /\ NewContact(p, q).touching = FALSE
<1>1. MaxSubSteps + 1 \in Nat /\ 0 \in 0 .. (MaxSubSteps + 1)
  BY ContactsAssumption
<1>2. CASE p \in Balls /\ q \in Statics
  BY <1>1, <1>2 DEF NewContact, Contact, Pair
<1>3. CASE ~(p \in Balls /\ q \in Statics)
  <2>1. q \in Balls
    BY <1>3, ContactsAssumption DEF ShouldCollide
  <2>2. NewContact(p, q) = [a |-> p, b |-> q, touching |-> FALSE, enabled |-> TRUE, toiCount |-> 0]
    BY <1>3 DEF NewContact
  <2> QED
    BY <1>1, <2>1, <2>2 DEF Contact, Pair
<1> QED
  BY <1>2, <1>3

\* Of the overlaps of boxes, all have a contact: those of a buffered proxy, those of
\* other proxies, or both.
Overlaps(boxes, p, q) == p # q /\ Overlap(boxes[p], boxes[q])
KnownOf(cs, boxes, buffered) ==
    \A p \in DOMAIN boxes, q \in (DOMAIN boxes) \cap Balls :
        Overlaps(boxes, p, q) /\ (p \in buffered \/ q \in buffered)
            => \E c \in cs : Pair(c) = {p, q}
KnownBut(cs, boxes, buffered) ==
    \A p \in DOMAIN boxes, q \in (DOMAIN boxes) \cap Balls :
        Overlaps(boxes, p, q) /\ p \notin buffered /\ q \notin buffered
            => \E c \in cs : Pair(c) = {p, q}
KnownAll(cs, boxes) ==
    \A p \in DOMAIN boxes, q \in (DOMAIN boxes) \cap Balls :
        Overlaps(boxes, p, q) => \E c \in cs : Pair(c) = {p, q}

LEMMA AlreadyTherePair ==
    ASSUME NEW cs, NEW p, NEW q
    PROVE  AlreadyThere(cs, p, q) <=> \E c \in cs : Pair(c) = {p, q}
BY DEF AlreadyThere, Pair

\* What FindNewContacts makes of the contacts, with the boxes, flags and buffer of its
\* caller: every overlap of a buffered proxy is known afterwards, and nothing is known twice.
LEMMA FindingContacts ==
    ASSUME NEW cs \in SUBSET Contact, NEW boxes, NEW flags, NEW buffered,
           DOMAIN boxes \subseteq Bodies,
           flags \subseteq buffered, buffered \subseteq DOMAIN boxes,
           NEW new, new = AddPairs(cs, FoundPairs(boxes, flags, buffered))
    PROVE  /\ new \subseteq Contact
           /\ cs \subseteq new
           /\ \A c \in new \ cs : ~c.touching /\ Pair(c) \subseteq DOMAIN boxes
           /\ Unique(cs) => Unique(new)
           /\ KnownOf(new, boxes, buffered)
<1> DEFINE pairs == FoundPairs(boxes, flags, buffered)
           fresh == {pq \in pairs : ShouldCollide(pq[1], pq[2]) /\ ~AlreadyThere(cs, pq[1], pq[2])}
<1>1. new = cs \cup {NewContact(pq[1], pq[2]) : pq \in fresh}
  BY DEF AddPairs
<1>2. DOMAIN boxes \subseteq Nat
  BY SizesAreNats
<1>3. \A pq \in pairs : /\ pq = <<pq[1], pq[2]>> /\ pq[1] < pq[2]
                        /\ pq[1] \in DOMAIN boxes /\ pq[2] \in DOMAIN boxes
  BY <1>2, FoundPairsType
<1>4. ASSUME NEW l \in DOMAIN boxes, NEW g \in DOMAIN boxes,
             <<l, g>> \in pairs, ShouldCollide(l, g)
      PROVE  \E c \in new : Pair(c) = {l, g}
  <2>1. CASE AlreadyThere(cs, l, g)
    BY <2>1, <1>1, AlreadyTherePair
  <2>2. CASE ~AlreadyThere(cs, l, g)
    <3>1. <<l, g>> \in fresh
      BY <1>4, <2>2
    <3>2. NewContact(l, g) \in new
      BY <1>1, <3>1
    <3>3. Pair(NewContact(l, g)) = {l, g}
      BY <1>4, NewContactType
    <3> QED
      BY <3>2, <3>3
  <2> QED
    BY <2>1, <2>2
<1>5. ASSUME NEW pq \in fresh
      PROVE  /\ NewContact(pq[1], pq[2]) \in Contact
             /\ Pair(NewContact(pq[1], pq[2])) = {pq[1], pq[2]}
             /\ NewContact(pq[1], pq[2]).touching = FALSE
             /\ \A c \in cs : Pair(c) # {pq[1], pq[2]}
  <2>1. pq[1] \in Bodies /\ pq[2] \in Bodies /\ ShouldCollide(pq[1], pq[2])
    BY <1>3
  <2>2. ~AlreadyThere(cs, pq[1], pq[2])
    OBVIOUS
  <2> QED
    BY <2>1, <2>2, NewContactType, AlreadyTherePair
<1>6. ASSUME NEW c \in new \ cs
      PROVE  \E pq \in fresh : c = NewContact(pq[1], pq[2])
  BY <1>1
<1> HIDE DEF pairs, fresh
<1>7. fresh \subseteq pairs
  BY DEF fresh
<1>8. new \subseteq Contact /\ cs \subseteq new
  BY <1>1, <1>5
<1>9. ASSUME NEW c \in new \ cs
      PROVE  ~c.touching /\ Pair(c) \subseteq DOMAIN boxes /\ \A d \in cs : Pair(d) # Pair(c)
  <2>1. PICK e \in fresh : c = NewContact(e[1], e[2])
    BY <1>6
  <2>2. Pair(c) = {e[1], e[2]} /\ c.touching = FALSE /\ \A d \in cs : Pair(d) # {e[1], e[2]}
    BY <1>5, <2>1
  <2>3. e[1] \in DOMAIN boxes /\ e[2] \in DOMAIN boxes
    BY <1>3, <1>7
  <2> QED
    BY <2>2, <2>3
<1>10. ASSUME Unique(cs), NEW c \in new, NEW d \in new, Pair(c) = Pair(d)
       PROVE  c = d
  <2>1. CASE c \in cs /\ d \in cs
    BY <1>10, <2>1 DEF Unique
  <2>2. CASE c \in cs /\ d \notin cs
    BY <1>9, <1>10, <2>2
  <2>3. CASE c \notin cs /\ d \in cs
    BY <1>9, <1>10, <2>3
  <2>4. CASE c \notin cs /\ d \notin cs
    <3>1. PICK e \in fresh, h \in fresh :
            c = NewContact(e[1], e[2]) /\ d = NewContact(h[1], h[2])
      BY <1>6, <2>4
    <3>2. {e[1], e[2]} = {h[1], h[2]}
      BY <1>5, <1>10, <3>1
    <3>3. /\ e[1] \in Nat /\ e[2] \in Nat /\ h[1] \in Nat /\ h[2] \in Nat
          /\ e[1] < e[2] /\ h[1] < h[2]
      BY <1>2, <1>3, <1>7
    <3>4. e[1] = h[1] /\ e[2] = h[2]
      BY <3>2, <3>3
    <3> QED
      BY <3>1, <3>4
  <2> QED
    BY <2>1, <2>2, <2>3, <2>4
<1>11. ASSUME NEW p \in DOMAIN boxes, NEW q \in (DOMAIN boxes) \cap Balls,
              p # q, Overlap(boxes[p], boxes[q]), p \in buffered \/ q \in buffered
       PROVE  \E c \in new : Pair(c) = {p, q}
  <2>1. <<Least(p, q), Greatest(p, q)>> \in pairs
    BY <1>2, <1>11, FoundPairsComplete DEF pairs
  <2>2. p \in Nat /\ q \in Nat
    BY <1>2
  <2>3. CASE p <= q
    <3>1. <<p, q>> \in pairs /\ ShouldCollide(p, q)
      BY <2>1, <2>2, <2>3 DEF Least, Greatest, ShouldCollide
    <3> QED
      BY <3>1, <1>4
  <2>4. CASE ~(p <= q)
    <3>1. <<q, p>> \in pairs /\ ShouldCollide(q, p)
      BY <2>1, <2>2, <2>4 DEF Least, Greatest, ShouldCollide
    <3>2. \E c \in new : Pair(c) = {q, p}
      BY <3>1, <1>4
    <3> QED
      BY <3>2
  <2> QED
    BY <2>3, <2>4
<1>12. KnownOf(new, boxes, buffered)
  BY <1>11 DEF KnownOf, Overlaps
<1> QED
  BY <1>8, <1>9, <1>10, <1>12 DEF Unique

-----------------------------------------------------------------------------
(* Changed contacts                                                        *)

LEMMA NewOnesDoNotTouch ==
    ASSUME NEW cs, NEW new, cs \subseteq new, \A c \in new \ cs : ~c.touching
    PROVE  Touching(new) = Touching(cs)
BY DEF Touching

\* Contacts that change anything but their bodies.
LEMMA Rewriting ==
    ASSUME NEW cs \in SUBSET Contact, NEW f,
           \A c \in cs : f[c] \in Contact /\ Pair(f[c]) = Pair(c),
           NEW new, new = {f[c] : c \in cs}
    PROVE  /\ new \subseteq Contact
           /\ Unique(cs) => Unique(new)
           /\ \A c \in cs : \E d \in new : Pair(d) = Pair(c)
           /\ \A d \in new : \E c \in cs : Pair(d) = Pair(c)
<1>1. ASSUME Unique(cs), NEW c \in new, NEW d \in new, Pair(c) = Pair(d)
      PROVE  c = d
  <2>1. PICK g \in cs, h \in cs : c = f[g] /\ d = f[h]
    OBVIOUS
  <2>2. g = h
    BY <1>1, <2>1 DEF Unique
  <2> QED
    BY <2>1, <2>2
<1>2. \A d \in new : \E c \in cs : Pair(d) = Pair(c)
  OBVIOUS
<1>3. \A c \in cs : \E d \in new : Pair(d) = Pair(c)
  OBVIOUS
<1>4. new \subseteq Contact
  OBVIOUS
<1> QED
  BY <1>1, <1>2, <1>3, <1>4 DEF Unique

\* The calls of an update keep the listener and the contacts together.
LEMMA TellingUpdates ==
    ASSUME NEW cs \in SUBSET Contact, Unique(cs), told = Touching(cs),
           NEW upd \in SUBSET cs, NEW place, NEW f,
           \A c \in cs : /\ Pair(f[c]) = Pair(c)
                         /\ f[c].touching = IF c \in upd THEN Touch(c, place) ELSE c.touching,
           NEW new, new = {f[c] : c \in cs}
    PROVE  ToldAfterUpdate(upd, place) = Touching(new)
<1> DEFINE left == {Pair(c) : c \in {d \in upd : d.touching /\ ~Touch(d, place)}}
           met == {Pair(c) : c \in {d \in upd : ~d.touching /\ Touch(d, place)}}
<1>1. ToldAfterUpdate(upd, place) = (Touching(cs) \ left) \cup met
  BY DEF ToldAfterUpdate
<1>2. ASSUME NEW p \in Touching(new) PROVE p \in (Touching(cs) \ left) \cup met
  <2>1. PICK c \in cs : p = Pair(c) /\ f[c].touching
    BY DEF Touching
  <2>2. \A d \in cs : Pair(d) = p => d = c
    BY <2>1 DEF Unique
  <2>3. CASE c \in upd /\ ~c.touching
    BY <2>1, <2>3
  <2>4. CASE c \in upd /\ c.touching
    <3>1. p \in Touching(cs)
      BY <2>1, <2>4 DEF Touching
    <3>2. p \notin left
      BY <2>1, <2>2, <2>4
    <3> QED
      BY <3>1, <3>2
  <2>5. CASE c \notin upd
    <3>1. p \in Touching(cs)
      BY <2>1, <2>5 DEF Touching
    <3>2. p \notin left
      BY <2>2, <2>5
    <3> QED
      BY <3>1, <3>2
  <2> QED
    BY <2>3, <2>4, <2>5
<1>3. ASSUME NEW p \in met PROVE p \in Touching(new)
  <2>1. PICK c \in upd : p = Pair(c) /\ ~c.touching /\ Touch(c, place)
    OBVIOUS
  <2>2. f[c] \in new /\ f[c].touching /\ Pair(f[c]) = p
    BY <2>1
  <2> QED
    BY <2>2 DEF Touching
<1>4. ASSUME NEW p \in Touching(cs) \ left PROVE p \in Touching(new)
  <2>1. PICK c \in cs : p = Pair(c) /\ c.touching
    BY DEF Touching
  <2>2. f[c].touching
    BY <2>1, <1>4
  <2>3. f[c] \in new /\ Pair(f[c]) = p
    BY <2>1
  <2> QED
    BY <2>2, <2>3 DEF Touching
<1> QED
  BY <1>1, <1>2, <1>3, <1>4

\* So do the calls for those that are destroyed.
LEMMA TellingDestroyed ==
    ASSUME NEW cs \in SUBSET Contact, Unique(cs), told = Touching(cs), NEW gone \in SUBSET cs
    PROVE  ToldAfterDestroy(gone) = Touching(cs \ gone)
<1>1. ASSUME NEW p \in Touching(cs), p \notin Touching(gone) PROVE p \in Touching(cs \ gone)
  BY <1>1 DEF Touching
<1>2. ASSUME NEW p \in Touching(cs \ gone) PROVE p \in Touching(cs) /\ p \notin Touching(gone)
  BY DEF Touching, Unique
<1>3. ToldAfterDestroy(gone) = Touching(cs) \ Touching(gone)
  BY DEF ToldAfterDestroy, Touching
<1> QED
  BY <1>1, <1>2, <1>3

-----------------------------------------------------------------------------
(* The invariant                                                           *)

LEMMA InitInv == Init => IInv
<1> SUFFICES ASSUME Init PROVE IInv
  OBVIOUS
<1>1. TypeOK
  <2>1. <<>> \in [{} -> Places] /\ <<>> \in [{} -> Boxes]
    <3>1. \A S : <<>> \in [{} -> S]
      <4>1. <<>> = [i \in {} |-> 0]
        OBVIOUS
      <4> QED
        BY <4>1
    <3> QED
      BY <3>1
  <2>2. /\ live \subseteq Bodies /\ moved \subseteq live /\ buffer \subseteq live
        /\ contacts \subseteq Contact /\ todo \subseteq contacts /\ newContacts \in BOOLEAN
        /\ awake \subseteq Balls \cap live /\ slept \subseteq Balls \cap live
        /\ pc \in {"idle", "collide", "toi"}
    BY DEF Init
  <2>3. told \subseteq {{p, q} : p \in Bodies, q \in Balls}
    <3>1. \A S : {} \subseteq S
      OBVIOUS
    <3>2. told = {}
      BY DEF Init
    <3> QED
      BY <3>1, <3>2
  <2> QED
    BY <2>1, <2>2, <2>3 DEF Init, TypeOK
<1>2. BufferInv /\ LiveInv /\ ToldInv /\ OneContactPerPair /\ OverlapsAreKnown
  BY DEF Init, BufferInv, LiveInv, ToldInv, Touching, OneContactPerPair, OverlapsAreKnown
<1> QED
  BY <1>1, <1>2 DEF IInv

\* The facts about the state that most steps use.
LEMMA Facts ==
    ASSUME IInv
    PROVE  /\ live \subseteq Bodies /\ DOMAIN fat = live
           /\ contacts \in SUBSET Contact /\ todo \subseteq contacts
           /\ moved = buffer /\ buffer \subseteq live
           /\ Unique(contacts) /\ told = Touching(contacts)
           /\ \A c \in contacts : Pair(c) \subseteq live
           /\ awake \subseteq Balls \cap live
BY DEF IInv, TypeOK, BufferInv, LiveInv, ToldInv, OneContactPerPair, Unique

LEMMA TouchingType ==
    ASSUME NEW cs \in SUBSET Contact
    PROVE  Touching(cs) \subseteq {{p, q} : p \in Bodies, q \in Balls}
<1>1. \A c \in Contact : c.a \in Bodies /\ c.b \in Balls
  BY DEF Contact
<1> QED
  BY <1>1 DEF Touching, Pair

LEMMA BallsOfType ==
    ASSUME NEW cs, NEW l, \A c \in cs : Pair(c) \subseteq l
    PROVE  BallsOf(cs) \subseteq Balls \cap l
BY DEF BallsOf

LEMMA CreateKeepsInv ==
    ASSUME IInv, Create
    PROVE  IInv'
<1>1. PICK b \in Bodies \ live, x \in Places :
        /\ live' = live \cup {b}
        /\ at' = With(at, b, x) /\ from' = With(from, b, x)
        /\ fat' = With(fat, b, Grown(Box(b, x), Extension))
        /\ moved' = moved \cup {b} /\ buffer' = buffer \cup {b}
        /\ awake' = awake \cup ({b} \cap Balls)
  BY DEF Create
<1>2. /\ pc = "idle" /\ newContacts' = TRUE
      /\ UNCHANGED <<contacts, pc, todo, slept, told>>
  BY DEF Create
<1>3. Grown(Box(b, x), Extension) \in Boxes
  BY BoxType, GrownType, PlacesAreInts, ContactsAssumption
<1>4. TypeOK'
  <2>1. at' \in [live' -> Places] /\ from' \in [live' -> Places]
    BY <1>1 DEF With, IInv, TypeOK
  <2>2. fat' \in [live' -> Boxes]
    BY <1>1, <1>3 DEF With, IInv, TypeOK
  <2> QED
    BY <1>1, <1>2, <2>1, <2>2 DEF IInv, TypeOK
<1>5. BufferInv'
  BY <1>1, <1>2 DEF IInv, BufferInv
<1>6. LiveInv' /\ ToldInv' /\ OneContactPerPair'
  BY <1>1, <1>2 DEF IInv, LiveInv, ToldInv, OneContactPerPair
<1>7. OverlapsAreKnown'
  <2> SUFFICES ASSUME NEW p \in live', NEW q \in live' \cap Balls, p # q,
                      Overlap(fat'[p], fat'[q])
               PROVE  Known(p, q)' \/ {p, q} \cap buffer' # {}
    BY <1>2 DEF OverlapsAreKnown
  <2>1. CASE p = b \/ q = b
    BY <1>1, <2>1
  <2>2. CASE p # b /\ q # b
    <3>1. p \in live /\ q \in live \cap Balls /\ fat'[p] = fat[p] /\ fat'[q] = fat[q]
      BY <1>1, <2>2 DEF With, IInv, TypeOK
    <3>2. Known(p, q) \/ {p, q} \cap buffer # {}
      BY <3>1 DEF IInv, OverlapsAreKnown
    <3> QED
      BY <3>2, <1>1, <1>2 DEF Known
  <2> QED
    BY <2>1, <2>2
<1> QED
  BY <1>4, <1>5, <1>6, <1>7 DEF IInv

LEMMA SetTransformKeepsInv ==
    ASSUME IInv, SetTransform
    PROVE  IInv'
<1>1. PICK b \in live, x \in Places :
        LET box == MovedBox(fat[b], b, x, x)
            changed == IF box = fat[b] THEN {} ELSE {b} IN
        /\ at' = [at EXCEPT ![b] = x] /\ from' = [from EXCEPT ![b] = x]
        /\ fat' = [fat EXCEPT ![b] = box]
        /\ moved' = moved \cup changed /\ buffer' = buffer \cup changed
        /\ awake' \in {awake, awake \cup ({b} \cap Balls)}
  BY DEF SetTransform
<1>2. /\ pc = "idle" /\ newContacts' = TRUE
      /\ UNCHANGED <<live, contacts, pc, todo, slept, told>>
  BY DEF SetTransform
<1> DEFINE box == MovedBox(fat[b], b, x, x)
<1>3. /\ box \in Boxes /\ fat' = [fat EXCEPT ![b] = box]
      /\ fat \in [live -> Boxes] /\ live \subseteq Bodies
  <2>1. fat \in [live -> Boxes] /\ live \subseteq Bodies /\ x \in Int
    BY PlacesAreInts DEF IInv, TypeOK
  <2> QED
    BY <1>1, <2>1, MovedBoxType
<1>4. \/ box = fat[b] /\ moved' = moved /\ buffer' = buffer
      \/ moved' = moved \cup {b} /\ buffer' = buffer \cup {b}
  BY <1>1
<1> HIDE DEF box
<1>5. TypeOK'
  <2>1. at' \in [live' -> Places] /\ from' \in [live' -> Places] /\ fat' \in [live' -> Boxes]
    BY <1>1, <1>2, <1>3 DEF IInv, TypeOK
  <2>2. awake' \subseteq Balls \cap live'
    BY <1>1, <1>2 DEF IInv, TypeOK
  <2> QED
    BY <1>2, <1>4, <2>1, <2>2 DEF IInv, TypeOK
<1>6. BufferInv'
  BY <1>2, <1>4 DEF IInv, BufferInv
<1>7. LiveInv' /\ ToldInv' /\ OneContactPerPair'
  BY <1>2 DEF IInv, LiveInv, ToldInv, OneContactPerPair
<1>8. OverlapsAreKnown'
  <2> SUFFICES ASSUME NEW p \in live', NEW q \in live' \cap Balls, p # q,
                      Overlap(fat'[p], fat'[q])
               PROVE  Known(p, q)' \/ {p, q} \cap buffer' # {}
    BY <1>2 DEF OverlapsAreKnown
  <2>1. CASE {p, q} \cap buffer' # {}
    BY <2>1
  <2>2. CASE {p, q} \cap buffer' = {}
    <3>1. fat'[p] = fat[p] /\ fat'[q] = fat[q] /\ {p, q} \cap buffer = {}
      BY <1>2, <1>3, <1>4, <2>2
    <3>2. Known(p, q)
      BY <3>1, <1>2 DEF IInv, OverlapsAreKnown
    <3> QED
      BY <3>2, <1>2 DEF Known
  <2> QED
    BY <2>1, <2>2
<1> QED
  BY <1>5, <1>6, <1>7, <1>8 DEF IInv

LEMMA DisableKeepsInv ==
    ASSUME IInv, Disable
    PROVE  IInv'
<1>1. PICK b \in live \cap Statics :
        LET gone == {c \in contacts : b \in Pair(c)} IN
        /\ live' = live \ {b}
        /\ at' = Without(at, b) /\ from' = Without(from, b) /\ fat' = Without(fat, b)
        /\ moved' = moved \ {b} /\ buffer' = buffer \ {b}
        /\ contacts' = contacts \ gone
        /\ told' = ToldAfterDestroy(gone)
        /\ awake' = awake \cup BallsOf({c \in gone : c.touching})
  BY DEF Disable
<1> DEFINE gone == {c \in contacts : b \in Pair(c)}
<1>2. pc = "idle" /\ UNCHANGED <<newContacts, pc, todo, slept>>
  BY DEF Disable
<1>3. b \notin Balls
  BY ContactsAssumption
<1>4. contacts' = contacts \ gone /\ told' = Touching(contacts')
  BY <1>1, Facts, TellingDestroyed
<1>5. TypeOK'
  <2>1. at' \in [live' -> Places] /\ from' \in [live' -> Places] /\ fat' \in [live' -> Boxes]
    BY <1>1 DEF Without, IInv, TypeOK
  <2>2. contacts' \subseteq Contact /\ told' \subseteq {{p, q} : p \in Bodies, q \in Balls}
    BY <1>4, TouchingType, Facts
  <2>3. BallsOf({c \in gone : c.touching}) \subseteq Balls \cap live
    BY BallsOfType, Facts
  <2>4. awake' \subseteq Balls \cap live' /\ slept' \subseteq Balls \cap live'
    BY <1>1, <1>2, <1>3, <2>3 DEF IInv, TypeOK
  <2>5. todo' \subseteq contacts'
    BY <1>2 DEF IInv, BufferInv
  <2> QED
    BY <1>1, <1>2, <2>1, <2>2, <2>4, <2>5 DEF IInv, TypeOK
<1>6. BufferInv'
  BY <1>1, <1>2 DEF IInv, BufferInv
<1>7. LiveInv' /\ ToldInv' /\ OneContactPerPair'
  BY <1>1, <1>4 DEF IInv, LiveInv, ToldInv, OneContactPerPair
<1>8. OverlapsAreKnown'
  <2> SUFFICES ASSUME NEW p \in live', NEW q \in live' \cap Balls, p # q,
                      Overlap(fat'[p], fat'[q])
               PROVE  Known(p, q)' \/ (pc' = "idle" /\ newContacts' /\ {p, q} \cap buffer' # {})
    BY DEF OverlapsAreKnown
  <2>1. /\ p \in live /\ q \in live \cap Balls /\ p # b /\ q # b
        /\ fat'[p] = fat[p] /\ fat'[q] = fat[q]
    BY <1>1 DEF Without, IInv, TypeOK
  <2>2. Known(p, q) \/ (newContacts /\ {p, q} \cap buffer # {})
    BY <2>1 DEF IInv, OverlapsAreKnown
  <2>3. CASE Known(p, q)
    BY <2>1, <2>3, <1>4 DEF Known
  <2>4. CASE newContacts /\ {p, q} \cap buffer # {}
    BY <2>1, <2>4, <1>1, <1>2
  <2> QED
    BY <2>2, <2>3, <2>4
<1> QED
  BY <1>5, <1>6, <1>7, <1>8 DEF IInv

-----------------------------------------------------------------------------
(* The invariant during a step                                             *)

\* What a phase must still ensure itself after FindNewContacts.
LEMMA Found ==
    ASSUME IInv, NEW boxes, DOMAIN boxes = live,
           NEW flags, NEW buffered, flags = buffered, buffered \subseteq live,
           NEW cs \in SUBSET Contact, Unique(cs), \A c \in cs : Pair(c) \subseteq live,
           NEW new, new = AddPairs(cs, FoundPairs(boxes, flags, buffered)),
           KnownBut(cs, boxes, buffered)
    PROVE  /\ new \subseteq Contact /\ Unique(new) /\ Touching(new) = Touching(cs)
           /\ \A c \in new : Pair(c) \subseteq live
           /\ KnownAll(new, boxes)
<1>1. /\ DOMAIN boxes \subseteq Bodies
      /\ flags \subseteq buffered /\ buffered \subseteq DOMAIN boxes
  BY Facts
<1>2. new \subseteq Contact
  BY <1>1, FindingContacts
<1>3. cs \subseteq new
  BY <1>1, FindingContacts
<1>4. Unique(new)
  BY <1>1, FindingContacts
<1>5. \A c \in new \ cs : ~c.touching /\ Pair(c) \subseteq live
  BY <1>1, FindingContacts
<1>6. KnownOf(new, boxes, buffered)
  BY <1>1, FindingContacts
<1>7. Touching(new) = Touching(cs)
  BY <1>3, <1>5, NewOnesDoNotTouch
<1>8. \A c \in new : Pair(c) \subseteq live
  BY <1>5
<1>9. KnownAll(new, boxes)
  BY <1>3, <1>6 DEF KnownAll, KnownBut, KnownOf
<1> QED
  BY <1>2, <1>4, <1>7, <1>8, <1>9

LEMMA StepBeginKeepsInv ==
    ASSUME IInv, StepBegin
    PROVE  IInv'
<1>1. /\ pc = "idle" /\ pc' = "collide" /\ newContacts' = FALSE /\ todo' = contacts'
      /\ slept' = (Balls \cap live) \ awake
      /\ UNCHANGED <<live, at, from, fat, awake, told>>
  BY DEF StepBegin
<1>2. /\ contacts' \subseteq Contact /\ Unique(contacts')
      /\ Touching(contacts') = Touching(contacts)
      /\ \A c \in contacts' : Pair(c) \subseteq live
      /\ moved' = {} /\ buffer' = {}
      /\ KnownAll(contacts', fat)
  <2>1. KnownBut(contacts, fat, buffer)
    <3>1. OverlapsAreKnown /\ DOMAIN fat = live
      BY Facts DEF IInv
    <3> QED
      BY <3>1 DEF OverlapsAreKnown, Known, KnownBut, Overlaps
  <2>2. CASE newContacts
    <3>1. /\ contacts' = AddPairs(contacts, FoundPairs(fat, moved, buffer))
          /\ moved' = moved \ buffer /\ buffer' = {}
      BY <2>2 DEF StepBegin, FindNewContacts
    <3>2. moved' = {}
      BY <3>1, Facts
    <3>3. /\ DOMAIN fat = live /\ moved = buffer /\ buffer \subseteq live
          /\ contacts \in SUBSET Contact /\ Unique(contacts)
          /\ \A c \in contacts : Pair(c) \subseteq live
      BY Facts
    <3> QED
      BY <2>1, <3>1, <3>2, <3>3, Found
  <2>3. CASE ~newContacts
    <3>1. UNCHANGED <<contacts, moved, buffer>> /\ buffer = {} /\ moved = {}
      BY <2>3 DEF StepBegin, IInv, BufferInv
    <3>2. KnownAll(contacts', fat)
      BY <2>1, <3>1 DEF KnownAll, KnownBut
    <3> QED
      BY <3>1, <3>2, Facts
  <2> QED
    BY <2>2, <2>3
<1>3. TypeOK'
  <2>1. slept' \subseteq Balls \cap live' /\ todo' \subseteq contacts'
    BY <1>1
  <2>2. told' \subseteq {{p, q} : p \in Bodies, q \in Balls}
    BY <1>1, TouchingType, Facts
  <2>3. /\ live' \subseteq Bodies /\ at' \in [live' -> Places] /\ from' \in [live' -> Places]
        /\ fat' \in [live' -> Boxes] /\ awake' \subseteq Balls \cap live'
    BY <1>1 DEF IInv, TypeOK
  <2>4. /\ newContacts' \in BOOLEAN /\ pc' \in {"idle", "collide", "toi"}
        /\ moved' \subseteq live' /\ buffer' \subseteq live' /\ contacts' \subseteq Contact
    BY <1>1, <1>2
  <2> QED
    BY <2>1, <2>2, <2>3, <2>4 DEF TypeOK
<1>4. BufferInv' /\ LiveInv' /\ ToldInv' /\ OneContactPerPair'
  BY <1>1, <1>2, Facts DEF BufferInv, LiveInv, ToldInv, OneContactPerPair, Unique
<1>5. OverlapsAreKnown'
  BY <1>1, <1>2, Facts DEF OverlapsAreKnown, Known, KnownAll, Overlaps
<1> QED
  BY <1>3, <1>4, <1>5 DEF IInv

\* A contact that Collide visits is destroyed where the boxes do not overlap, and updated
\* otherwise.
LEMMA CollideOneKeepsInv ==
    ASSUME IInv, CollideOne
    PROVE  IInv'
<1>1. PICK c \in todo :
        /\ todo' = todo \ {c}
        /\ \/ UNCHANGED <<contacts, told, awake>>
           \/ /\ ~Overlap(fat[c.a], fat[c.b])
              /\ contacts' = contacts \ {c}
              /\ told' = ToldAfterDestroy({c})
              /\ awake' = IF c.touching THEN awake \cup BallsOf({c}) ELSE awake
           \/ /\ contacts' = (contacts \ {c}) \cup {Updated(c, at)}
              /\ told' = ToldAfterUpdate({c}, at)
              /\ awake' = IF Touch(c, at) # c.touching THEN awake \cup BallsOf({c}) ELSE awake
  BY DEF CollideOne
<1>2. /\ pc = "collide"
      /\ UNCHANGED <<live, at, from, fat, moved, buffer, newContacts, pc, slept>>
  BY DEF CollideOne
<1>3. /\ c \in contacts /\ c \in Contact /\ c.a \in live /\ c.b \in live
      /\ buffer = {} /\ ~newContacts /\ moved = {}
  BY <1>2, Facts DEF Pair, IInv, BufferInv
<1>4. awake' \subseteq Balls \cap live
  <2>1. BallsOf({c}) \subseteq Balls \cap live
    BY <1>3, BallsOfType DEF Pair
  <2> QED
    BY <2>1, <1>1, Facts
<1>5. /\ contacts' \subseteq Contact /\ Unique(contacts') /\ told' = Touching(contacts')
      /\ \A d \in contacts' : Pair(d) \subseteq live
      /\ todo' \subseteq contacts'
      /\ \A d \in contacts : Overlap(fat[d.a], fat[d.b]) => \E e \in contacts' : Pair(e) = Pair(d)
  <2>1. CASE UNCHANGED <<contacts, told, awake>>
    BY <1>1, <2>1, Facts
  <2>2. CASE /\ ~Overlap(fat[c.a], fat[c.b])
             /\ contacts' = contacts \ {c} /\ told' = ToldAfterDestroy({c})
    <3>1. told' = Touching(contacts')
      BY <2>2, <1>3, Facts, TellingDestroyed
    <3>2. Unique(contacts')
      BY <2>2, Facts DEF Unique
    <3> QED
      BY <1>1, <2>2, <3>1, <3>2, Facts
  <2>3. CASE /\ contacts' = (contacts \ {c}) \cup {Updated(c, at)}
             /\ told' = ToldAfterUpdate({c}, at)
    <3> DEFINE f == [d \in contacts |-> IF d = c THEN Updated(c, at) ELSE d]
    <3>1. contacts' = {f[d] : d \in contacts}
      BY <2>3, <1>3
    <3>2. /\ Updated(c, at) \in Contact /\ Pair(Updated(c, at)) = Pair(c)
          /\ Updated(c, at).touching = Touch(c, at)
      BY <1>3 DEF Updated, Contact, Pair, Touch, Overlap
    <3>3. \A d \in contacts : f[d] \in Contact /\ Pair(f[d]) = Pair(d)
      BY <3>2, Facts
    <3>4. \A d \in contacts :
            f[d].touching = IF d \in {c} THEN Touch(d, at) ELSE d.touching
      BY <3>2
    <3> HIDE DEF f
    <3>5. /\ contacts' \subseteq Contact /\ Unique(contacts')
          /\ \A d \in contacts : \E e \in contacts' : Pair(e) = Pair(d)
          /\ \A e \in contacts' : \E d \in contacts : Pair(e) = Pair(d)
      BY <3>1, <3>3, Facts, Rewriting
    <3>6. told' = Touching(contacts')
      BY <3>1, <3>3, <3>4, <2>3, <1>3, Facts, TellingUpdates
    <3>7. todo' \subseteq contacts'
      BY <1>1, <2>3, Facts
    <3> QED
      BY <3>5, <3>6, <3>7, Facts
  <2> QED
    BY <1>1, <2>1, <2>2, <2>3
<1>6. TypeOK'
  <2>1. told' \subseteq {{p, q} : p \in Bodies, q \in Balls}
    BY <1>5, TouchingType
  <2> QED
    BY <1>2, <1>4, <1>5, <2>1 DEF IInv, TypeOK
<1>7. BufferInv' /\ LiveInv' /\ ToldInv' /\ OneContactPerPair'
  BY <1>2, <1>3, <1>5 DEF BufferInv, LiveInv, ToldInv, OneContactPerPair, Unique
<1>8. OverlapsAreKnown'
  <2> SUFFICES ASSUME NEW p \in live, NEW q \in live \cap Balls, p # q,
                      Overlap(fat[p], fat[q])
               PROVE  \E e \in contacts' : Pair(e) = {p, q}
    BY <1>2 DEF OverlapsAreKnown, Known
  <2>1. PICK d \in contacts : Pair(d) = {p, q}
    BY <1>2 DEF IInv, OverlapsAreKnown, Known
  <2>2. Overlap(fat[d.a], fat[d.b])
    <3>1. (d.a = p /\ d.b = q) \/ (d.a = q /\ d.b = p)
      BY <2>1 DEF Pair
    <3> QED
      BY <3>1, OverlapCommutes
  <2> QED
    BY <2>1, <2>2, <1>5
<1> QED
  BY <1>6, <1>7, <1>8 DEF IInv

LEMMA IslandType ==
    ASSUME IInv
    PROVE  Island \subseteq Balls \cap live
<1>1. \A c \in contacts : Pair(c) \subseteq live
  BY Facts
<1> QED
  BY <1>1, Facts DEF Island

LEMMA SweptBoxesType ==
    ASSUME IInv, NEW place \in [Island -> Places]
    PROVE  /\ SweptBoxes(at, place) \in [live -> Boxes]
           /\ DOMAIN SweptBoxes(at, place) = live
<1>1. fat \in [live -> Boxes] /\ at \in [live -> Places] /\ live \subseteq Bodies
  BY DEF IInv, TypeOK
<1>2. ASSUME NEW b \in live
      PROVE  (IF b \in DOMAIN place THEN MovedBox(fat[b], b, at[b], place[b]) ELSE fat[b]) \in Boxes
  <2>1. CASE b \in Island
    <3>1. place[b] \in Int /\ at[b] \in Int /\ fat[b] \in Boxes /\ b \in Bodies
      BY <1>1, <2>1, PlacesAreInts
    <3> QED
      BY <3>1, MovedBoxType
  <2>2. CASE b \notin Island
    BY <1>1, <2>2
  <2> QED
    BY <2>1, <2>2
<1> QED
  BY <1>2 DEF SweptBoxes

\* What moves has a new box and is buffered, or has a box in which it is known already.
LEMMA SolveKeepsInv ==
    ASSUME IInv, Solve
    PROVE  IInv'
<1>1. PICK place \in [Island -> Places] :
      \E sleepers \in SUBSET {b \in Island : place[b] = at[b]} :
        LET boxes == SweptBoxes(at, place) IN
        /\ at' = [b \in live |-> IF b \in Island THEN place[b] ELSE at[b]]
        /\ from' = [b \in live |-> IF b \in Island THEN at[b] ELSE from[b]]
        /\ awake' = Island \ sleepers
        /\ fat' = boxes
        /\ FindNewContacts(boxes, moved \cup Changed(boxes), buffer \cup Changed(boxes))
  BY DEF Solve
<1>2. /\ pc = "collide" /\ todo = {} /\ pc' = "toi"
      /\ UNCHANGED <<live, newContacts, todo, slept, told>>
  BY DEF Solve
<1> DEFINE boxes == SweptBoxes(at, place)
           buffered == buffer \cup Changed(boxes)
<1>3. /\ fat' = boxes /\ boxes \in [live -> Boxes] /\ DOMAIN boxes = live
      /\ contacts' = AddPairs(contacts, FoundPairs(boxes, moved \cup Changed(boxes), buffered))
      /\ moved' = (moved \cup Changed(boxes)) \ buffered /\ buffer' = {}
  BY <1>1, SweptBoxesType DEF FindNewContacts
<1> HIDE DEF boxes
<1>4. moved \cup Changed(boxes) = buffered /\ buffered \subseteq live
  BY Facts DEF Changed
<1>5. KnownBut(contacts, boxes, buffered)
  <2> SUFFICES ASSUME NEW p \in live, NEW q \in live \cap Balls, p # q,
                      Overlap(boxes[p], boxes[q]), p \notin buffered, q \notin buffered
               PROVE  \E c \in contacts : Pair(c) = {p, q}
    BY <1>3 DEF KnownBut, Overlaps
  <2>1. boxes[p] = fat[p] /\ boxes[q] = fat[q]
    BY DEF Changed
  <2>2. OverlapsAreKnown
    BY DEF IInv
  <2> QED
    BY <1>2, <2>1, <2>2 DEF OverlapsAreKnown, Known
<1> HIDE DEF buffered
<1>6. /\ contacts' \subseteq Contact /\ Unique(contacts')
      /\ Touching(contacts') = Touching(contacts)
      /\ \A c \in contacts' : Pair(c) \subseteq live
      /\ KnownAll(contacts', boxes)
  BY SMTT(30), <1>3, <1>4, <1>5, Facts, Found
<1>7. moved' = {} /\ buffer' = {} /\ told' = Touching(contacts') /\ ~newContacts'
  BY <1>2, <1>3, <1>4, <1>6, Facts DEF IInv, BufferInv
<1>8. TypeOK'
  <2>1. at \in [live -> Places] /\ from \in [live -> Places] /\ slept \subseteq Balls \cap live
        /\ live \subseteq Bodies /\ newContacts \in BOOLEAN
    BY DEF IInv, TypeOK
  <2>2. at' \in [live' -> Places] /\ from' \in [live' -> Places]
    BY <1>1, <1>2, <2>1
  <2>3. awake' \subseteq Balls \cap live'
    BY <1>1, <1>2, IslandType
  <2>4. fat' \in [live' -> Boxes]
    BY <1>2, <1>3
  <2>5. told' \subseteq {{p, q} : p \in Bodies, q \in Balls}
    BY <1>6, <1>7, TouchingType
  <2>6. /\ live' \subseteq Bodies /\ moved' \subseteq live' /\ buffer' \subseteq live'
        /\ todo' \subseteq contacts' /\ newContacts' \in BOOLEAN
        /\ slept' \subseteq Balls \cap live' /\ pc' \in {"idle", "collide", "toi"}
    BY <1>2, <1>7, <2>1
  <2> QED
    BY <1>6, <2>2, <2>3, <2>4, <2>5, <2>6 DEF TypeOK
<1>9. BufferInv' /\ LiveInv' /\ ToldInv' /\ OneContactPerPair'
  BY <1>2, <1>6, <1>7 DEF BufferInv, LiveInv, ToldInv, OneContactPerPair, Unique
<1>10. OverlapsAreKnown'
  BY <1>2, <1>3, <1>6 DEF OverlapsAreKnown, Known, KnownAll, Overlaps
<1> QED
  BY <1>8, <1>9, <1>10 DEF IInv

\* The contacts of a round of SolveTOI: c counts, and some are updated.
LEMMA CountedType ==
    ASSUME NEW c \in Contact, c.toiCount <= MaxSubSteps, NEW t \in BOOLEAN, NEW e \in BOOLEAN
    PROVE  LET d == [c EXCEPT !.touching = t, !.enabled = e, !.toiCount = @ + 1]
           IN  d \in Contact /\ Pair(d) = Pair(c) /\ d.touching = t
<1>1. c.toiCount + 1 \in 0 .. (MaxSubSteps + 1)
  BY ContactsAssumption DEF Contact
<1> QED
  BY <1>1 DEF Contact, Pair

LEMMA UpdatedType ==
    ASSUME NEW c \in Contact, NEW place
    PROVE  /\ Updated(c, place) \in Contact /\ Pair(Updated(c, place)) = Pair(c)
           /\ Updated(c, place).touching = Touch(c, place)
BY DEF Updated, Contact, Pair, Touch, Overlap

LEMMA ImpactMissedKeepsInv ==
    ASSUME IInv, NEW c \in contacts, NEW x \in Places, ImpactMissed(c, x),
           c.toiCount <= MaxSubSteps, pc = "toi",
           UNCHANGED <<live, newContacts, awake, pc, todo, slept>>
    PROVE  IInv'
<1> DEFINE there == [at EXCEPT ![c.b] = x]
           left == [c EXCEPT !.touching = FALSE, !.enabled = FALSE, !.toiCount = @ + 1]
           f == [d \in contacts |-> IF d = c THEN left ELSE d]
<1>1. /\ ~Touch(c, there) /\ contacts' = (contacts \ {c}) \cup {left}
      /\ told' = ToldAfterUpdate({c}, there)
      /\ UNCHANGED <<at, from, fat, moved, buffer>>
  BY DEF ImpactMissed
<1>2. left \in Contact /\ Pair(left) = Pair(c) /\ left.touching = FALSE
  BY Facts, CountedType
<1> HIDE DEF left, there
<1>3. contacts' = {f[d] : d \in contacts}
  BY <1>1
<1>4. \A d \in contacts : f[d] \in Contact /\ Pair(f[d]) = Pair(d)
  BY <1>2, Facts
<1>5. \A d \in contacts : f[d].touching = IF d \in {c} THEN Touch(d, there) ELSE d.touching
  BY <1>1, <1>2 DEF Touch, Overlap
<1> HIDE DEF f
<1>6. /\ contacts' \subseteq Contact /\ Unique(contacts')
      /\ \A d \in contacts : \E e \in contacts' : Pair(e) = Pair(d)
      /\ \A e \in contacts' : \E d \in contacts : Pair(e) = Pair(d)
  BY <1>3, <1>4, Facts, Rewriting
<1>7. told' = Touching(contacts')
  BY <1>1, <1>3, <1>4, <1>5, Facts, TellingUpdates
<1>8. todo = {} /\ \A d \in contacts' : Pair(d) \subseteq live
  BY <1>6, Facts DEF IInv, BufferInv
<1>9. TypeOK'
  <2>1. told' \subseteq {{p, q} : p \in Bodies, q \in Balls}
    BY <1>6, <1>7, TouchingType
  <2>2. TypeOK
    BY DEF IInv
  <2>3. /\ live' \subseteq Bodies /\ at' \in [live' -> Places] /\ from' \in [live' -> Places]
        /\ fat' \in [live' -> Boxes] /\ moved' \subseteq live' /\ buffer' \subseteq live'
        /\ newContacts' \in BOOLEAN /\ pc' \in {"idle", "collide", "toi"}
        /\ awake' \subseteq Balls \cap live' /\ slept' \subseteq Balls \cap live'
    BY <1>1, <2>2 DEF TypeOK
  <2>4. todo' \subseteq contacts'
    BY <1>8
  <2> QED
    BY <1>6, <2>1, <2>3, <2>4 DEF TypeOK
<1>10. BufferInv' /\ LiveInv' /\ ToldInv' /\ OneContactPerPair'
  BY <1>1, <1>6, <1>7, <1>8 DEF IInv, BufferInv, LiveInv, ToldInv, OneContactPerPair, Unique
<1>11. OverlapsAreKnown'
  <2> SUFFICES ASSUME NEW p \in live, NEW q \in live \cap Balls, p # q,
                      Overlap(fat[p], fat[q])
               PROVE  \E e \in contacts' : Pair(e) = {p, q}
    BY <1>1 DEF OverlapsAreKnown, Known
  <2>1. OverlapsAreKnown
    BY DEF IInv
  <2>2. PICK d \in contacts : Pair(d) = {p, q}
    BY <1>1, <2>1 DEF OverlapsAreKnown, Known
  <2> QED
    BY <2>2, <1>6
<1> QED
  BY <1>9, <1>10, <1>11 DEF IInv

LEMMA ImpactKeepsInv ==
    ASSUME IInv, NEW c \in contacts, NEW x \in Places, NEW y \in Places, Impact(c, x, y),
           c.toiCount <= MaxSubSteps, c.a \in Statics, pc = "toi",
           UNCHANGED <<live, newContacts, awake, pc, todo, slept>>
    PROVE  IInv'
<1> DEFINE there == [at EXCEPT ![c.b] = x]
           also == {d \in contacts : d.b = c.b /\ d.a \in Statics}
           box == MovedBox(fat[c.b], c.b, x, y)
           changed == IF box = fat[c.b] THEN {} ELSE {c.b}
           hit == [Updated(c, there) EXCEPT !.toiCount = @ + 1]
           kept == (contacts \ also) \cup {Updated(d, there) : d \in also \ {c}} \cup {hit}
           f == [d \in contacts |-> IF d = c THEN hit
                                    ELSE IF d \in also THEN Updated(d, there) ELSE d]
<1>1. /\ told' = ToldAfterUpdate(also, there)
      /\ at' = [at EXCEPT ![c.b] = y] /\ from' = [from EXCEPT ![c.b] = x]
      /\ fat' = [fat EXCEPT ![c.b] = box]
      /\ contacts' = AddPairs(kept, FoundPairs(fat', moved \cup changed, buffer \cup changed))
      /\ moved' = (moved \cup changed) \ (buffer \cup changed) /\ buffer' = {}
  BY DEF Impact
<1>2. c \in Contact /\ c.b \in live /\ c.b \in Bodies /\ c \in also /\ also \subseteq contacts
  BY Facts DEF Pair
<1>3. hit \in Contact /\ Pair(hit) = Pair(c) /\ hit.touching = Touch(c, there)
  <2>1. Updated(c, there).toiCount = c.toiCount /\ Updated(c, there) \in Contact
    BY <1>2, UpdatedType DEF Updated, Contact
  <2>2. c.toiCount + 1 \in 0 .. (MaxSubSteps + 1)
    BY <1>2, ContactsAssumption DEF Contact
  <2>3. hit \in Contact /\ Pair(hit) = Pair(Updated(c, there))
        /\ hit.touching = Updated(c, there).touching
    <3> HIDE DEF there
    <3> QED
      BY <2>1, <2>2 DEF Contact, Pair
  <2> QED
    BY <2>3, <1>2, UpdatedType
<1>4. /\ box \in Boxes /\ fat' \in [live -> Boxes] /\ DOMAIN fat' = live
      /\ \A b \in live \ changed : fat'[b] = fat[b]
      /\ changed \subseteq live
  <2>1. fat \in [live -> Boxes] /\ x \in Int /\ y \in Int
    BY PlacesAreInts DEF IInv, TypeOK
  <2>2. box \in Boxes
    BY <1>2, <2>1, MovedBoxType
  <2> HIDE DEF box
  <2> QED
    BY <1>1, <1>2, <2>1, <2>2
<1> HIDE DEF there, hit, changed, box, also
<1>5. kept = {f[d] : d \in contacts}
  BY <1>2
<1>6. \A d \in contacts : f[d] \in Contact /\ Pair(f[d]) = Pair(d)
  BY <1>3, Facts, UpdatedType
<1>7. \A d \in contacts : f[d].touching = IF d \in also THEN Touch(d, there) ELSE d.touching
  BY <1>2, <1>3, Facts, UpdatedType
<1> HIDE DEF f, kept
<1>8. /\ kept \subseteq Contact /\ Unique(kept)
      /\ \A d \in contacts : \E e \in kept : Pair(e) = Pair(d)
      /\ \A e \in kept : \E d \in contacts : Pair(e) = Pair(d)
  BY <1>5, <1>6, Facts, Rewriting
<1>9. told' = Touching(kept)
  BY <1>1, <1>2, <1>5, <1>6, <1>7, Facts, TellingUpdates
<1>10. \A d \in kept : Pair(d) \subseteq live
  BY <1>8, Facts
<1>11. /\ moved \cup changed = buffer \cup changed /\ buffer \cup changed \subseteq live
       /\ todo = {} /\ ~newContacts
  BY <1>4, Facts DEF IInv, BufferInv
<1>12. KnownBut(kept, fat', buffer \cup changed)
  <2> SUFFICES ASSUME NEW p \in live, NEW q \in live \cap Balls, p # q,
                      Overlap(fat'[p], fat'[q]), p \notin changed, q \notin changed
               PROVE  \E e \in kept : Pair(e) = {p, q}
    BY <1>4 DEF KnownBut, Overlaps
  <2>1. fat'[p] = fat[p] /\ fat'[q] = fat[q]
    BY <1>4
  <2>2. OverlapsAreKnown
    BY DEF IInv
  <2>3. PICK d \in contacts : Pair(d) = {p, q}
    BY <2>1, <2>2 DEF OverlapsAreKnown, Known
  <2> QED
    BY <2>3, <1>8
<1>13. /\ contacts' \subseteq Contact /\ Unique(contacts')
       /\ Touching(contacts') = Touching(kept)
       /\ \A d \in contacts' : Pair(d) \subseteq live
       /\ KnownAll(contacts', fat')
  <2>1. kept \in SUBSET Contact /\ Unique(kept)
    BY <1>8
  <2> DEFINE buffered == buffer \cup changed
             flags == moved \cup changed
  <2>2. /\ contacts' = AddPairs(kept, FoundPairs(fat', flags, buffered))
        /\ flags = buffered /\ buffered \subseteq live /\ DOMAIN fat' = live
        /\ KnownBut(kept, fat', buffered)
    BY <1>1, <1>4, <1>11, <1>12
  <2> HIDE DEF buffered, flags
  <2> QED
    BY <1>10, <2>1, <2>2, Found
<1>14. moved' = {} /\ buffer' = {} /\ told' = Touching(contacts')
  BY <1>1, <1>9, <1>11, <1>13
<1>15. TypeOK'
  <2>1. TypeOK
    BY DEF IInv
  <2>2. told' \subseteq {{p, q} : p \in Bodies, q \in Balls}
    BY <1>13, <1>14, TouchingType
  <2>3. at' \in [live' -> Places] /\ from' \in [live' -> Places] /\ fat' \in [live' -> Boxes]
    BY <1>1, <1>4, <2>1 DEF TypeOK
  <2>4. /\ live' \subseteq Bodies /\ moved' \subseteq live' /\ buffer' \subseteq live'
        /\ todo' \subseteq contacts' /\ newContacts' \in BOOLEAN
        /\ awake' \subseteq Balls \cap live' /\ slept' \subseteq Balls \cap live'
        /\ pc' \in {"idle", "collide", "toi"}
    BY <1>11, <1>14, <2>1 DEF TypeOK
  <2> QED
    BY <1>13, <2>2, <2>3, <2>4 DEF TypeOK
<1>16. BufferInv' /\ LiveInv' /\ ToldInv' /\ OneContactPerPair'
  BY <1>11, <1>13, <1>14 DEF BufferInv, LiveInv, ToldInv, OneContactPerPair, Unique
<1>17. OverlapsAreKnown'
  BY <1>4, <1>13 DEF OverlapsAreKnown, Known, KnownAll, Overlaps
<1> QED
  BY <1>15, <1>16, <1>17 DEF IInv

LEMMA SolveTOIKeepsInv ==
    ASSUME IInv, SolveTOI
    PROVE  IInv'
<1>1. PICK c \in contacts :
        /\ c.toiCount <= MaxSubSteps /\ c.a \in Statics /\ c.b \in awake
        /\ \E x \in Between(from[c.b], at[c.b]), y \in Places : ImpactMissed(c, x) \/ Impact(c, x, y)
  BY DEF SolveTOI
<1>2. PICK x \in Between(from[c.b], at[c.b]), y \in Places : ImpactMissed(c, x) \/ Impact(c, x, y)
  BY <1>1
<1>3. x \in Places
  <2>1. c.b \in live
    BY <1>1, Facts
  <2>2. from[c.b] \in 0 .. MaxPlace /\ at[c.b] \in 0 .. MaxPlace
    BY <2>1 DEF IInv, TypeOK, Places
  <2> QED
    BY <2>2, ContactsAssumption DEF Between, Least, Greatest, Places
<1>4. pc = "toi" /\ UNCHANGED <<live, newContacts, awake, pc, todo, slept>>
  BY DEF SolveTOI
<1>5. CASE ImpactMissed(c, x)
  BY <1>1, <1>3, <1>4, <1>5, ImpactMissedKeepsInv
<1>6. CASE Impact(c, x, y)
  BY <1>1, <1>3, <1>4, <1>6, ImpactKeepsInv
<1> QED
  BY <1>2, <1>5, <1>6

LEMMA StepEndKeepsInv ==
    ASSUME IInv, StepEnd
    PROVE  IInv'
<1> DEFINE f == [c \in contacts |-> [c EXCEPT !.toiCount = 0]]
<1>1. /\ pc = "toi" /\ pc' = "idle" /\ from' = at /\ slept' = {}
      /\ contacts' = {f[c] : c \in contacts}
      /\ UNCHANGED <<live, at, fat, moved, buffer, newContacts, awake, todo, told>>
  BY DEF StepEnd
<1>2. 0 \in 0 .. (MaxSubSteps + 1)
  BY ContactsAssumption
<1>3. \A c \in contacts : /\ f[c] \in Contact /\ Pair(f[c]) = Pair(c)
                          /\ f[c].touching = c.touching
  BY <1>2, Facts DEF Contact, Pair
<1> HIDE DEF f
<1>4. /\ contacts' \subseteq Contact /\ Unique(contacts')
      /\ \A d \in contacts : \E e \in contacts' : Pair(e) = Pair(d)
      /\ \A e \in contacts' : \E d \in contacts : Pair(e) = Pair(d)
  BY <1>1, <1>3, Facts, Rewriting
<1>5. Touching(contacts') = Touching(contacts)
  BY <1>1, <1>3 DEF Touching
<1>6. todo = {} /\ \A d \in contacts' : Pair(d) \subseteq live
  BY <1>1, <1>4, Facts DEF IInv, BufferInv
<1>7. TypeOK'
  <2>1. TypeOK
    BY DEF IInv
  <2> QED
    BY <1>1, <1>4, <1>6, <2>1 DEF TypeOK
<1>8. BufferInv' /\ LiveInv' /\ ToldInv' /\ OneContactPerPair'
  BY <1>1, <1>4, <1>5, <1>6, Facts
  DEF IInv, BufferInv, LiveInv, ToldInv, OneContactPerPair, Unique
<1>9. OverlapsAreKnown'
  <2> SUFFICES ASSUME NEW p \in live, NEW q \in live \cap Balls, p # q,
                      Overlap(fat[p], fat[q])
               PROVE  \E e \in contacts' : Pair(e) = {p, q}
    BY <1>1 DEF OverlapsAreKnown, Known
  <2>1. OverlapsAreKnown
    BY DEF IInv
  <2>2. PICK d \in contacts : Pair(d) = {p, q}
    BY <1>1, <2>1 DEF OverlapsAreKnown, Known
  <2> QED
    BY <2>2, <1>4
<1> QED
  BY <1>7, <1>8, <1>9 DEF IInv

LEMMA NextInv == IInv /\ [Next]_vars => IInv'
<1> SUFFICES ASSUME IInv, [Next]_vars PROVE IInv'
  OBVIOUS
<1>1. CASE Create
  BY <1>1, CreateKeepsInv
<1>2. CASE SetTransform
  BY <1>2, SetTransformKeepsInv
<1>3. CASE Disable
  BY <1>3, DisableKeepsInv
<1>4. CASE StepBegin
  BY <1>4, StepBeginKeepsInv
<1>5. CASE CollideOne
  BY <1>5, CollideOneKeepsInv
<1>6. CASE Solve
  BY <1>6, SolveKeepsInv
<1>7. CASE SolveTOI
  BY <1>7, SolveTOIKeepsInv
<1>8. CASE StepEnd
  BY <1>8, StepEndKeepsInv
<1>9. CASE UNCHANGED vars
  <2>1. TypeOK'
    BY <1>9 DEF vars, IInv, TypeOK
  <2>2. BufferInv' /\ LiveInv' /\ ToldInv' /\ OneContactPerPair'
    BY <1>9 DEF vars, IInv, BufferInv, LiveInv, ToldInv, Touching, OneContactPerPair
  <2>3. OverlapsAreKnown'
    BY <1>9 DEF vars, IInv, OverlapsAreKnown, Known
  <2> QED
    BY <2>1, <2>2, <2>3 DEF IInv
<1> QED
  BY <1>1, <1>2, <1>3, <1>4, <1>5, <1>6, <1>7, <1>8, <1>9 DEF Next

-----------------------------------------------------------------------------
(* The boxes                                                               *)

\* The box in the tree covers the body and, while impacts are looked for, all of its way.
CoverInv ==
    \A b \in live :
        /\ Contains(fat[b], Box(b, at[b]))
        /\ pc = "toi" /\ b \in awake => Contains(fat[b], Swept(b, from[b], at[b]))

LEMMA ContainsTransitive ==
    ASSUME NEW r \in Boxes, NEW s \in Boxes, NEW t \in Boxes, Contains(r, s), Contains(s, t)
    PROVE  Contains(r, t)
BY DEF Contains, Boxes

LEMMA GrownContains ==
    ASSUME NEW s \in Boxes, NEW n \in Nat
    PROVE  Contains(Grown(s, n), s)
BY DEF Contains, Grown, Boxes

LEMMA PredictedContains ==
    ASSUME NEW s \in Boxes, NEW d \in Int
    PROVE  Contains(Predicted(s, d), s)
<1>1. Multiplier \in Nat
  BY ContactsAssumption
<1>2. CASE d < 0
  <2>1. Multiplier * d \in Int /\ Multiplier * d <= 0
    BY <1>1, <1>2
  <2> QED
    BY <1>2, <2>1 DEF Predicted, Contains, Boxes
<1>3. CASE ~(d < 0)
  <2>1. Multiplier * d \in Int /\ Multiplier * d >= 0
    BY <1>1, <1>3
  <2> QED
    BY <1>3, <2>1 DEF Predicted, Contains, Boxes
<1> QED
  BY <1>2, <1>3

LEMMA SweptContains ==
    ASSUME NEW b \in Bodies, NEW x \in Int, NEW y \in Int
    PROVE  Contains(Swept(b, x, y), Box(b, y))
<1>1. Box(b, x) \in Boxes /\ Box(b, y) \in Boxes
  BY BoxType
<1> QED
  BY <1>1 DEF Contains, Swept, Combine, Least, Greatest, Boxes

\* MoveProxy always leaves a box that covers the way.
LEMMA MovedBoxContains ==
    ASSUME NEW old \in Boxes, NEW b \in Bodies, NEW x \in Int, NEW y \in Int
    PROVE  /\ Contains(MovedBox(old, b, x, y), Swept(b, x, y))
           /\ Contains(MovedBox(old, b, x, y), Box(b, y))
<1> DEFINE way == Swept(b, x, y)
           grown == Grown(way, Extension)
           new == Predicted(grown, y - x)
<1>1. way \in Boxes /\ Extension \in Nat /\ y - x \in Int /\ Box(b, y) \in Boxes
  BY SweptType, BoxType, ContactsAssumption
<1>2. grown \in Boxes /\ Contains(grown, way)
  BY <1>1, GrownType, GrownContains
<1>3. new \in Boxes /\ Contains(new, grown)
  BY <1>1, <1>2, PredictedType, PredictedContains
<1>4. Contains(new, way)
  BY <1>1, <1>2, <1>3, ContainsTransitive
<1>5. Contains(MovedBox(old, b, x, y), way) /\ MovedBox(old, b, x, y) \in Boxes
  BY <1>4, MovedBoxType DEF MovedBox
<1> QED
  BY <1>1, <1>5, SweptContains, ContainsTransitive

\* Boxes that overlap lie in boxes that overlap.
LEMMA OverlapGrows ==
    ASSUME NEW r \in Boxes, NEW s \in Boxes, NEW u \in Boxes, NEW v \in Boxes,
           Contains(r, u), Contains(s, v), Overlap(u, v)
    PROVE  Overlap(r, s)
BY DEF Contains, Overlap, Boxes

LEMMA Types ==
    ASSUME IInv
    PROVE  /\ live \subseteq Bodies /\ Places \subseteq Int
           /\ at \in [live -> Places] /\ from \in [live -> Places]
           /\ fat \in [live -> Boxes]
BY PlacesAreInts DEF IInv, TypeOK

LEMMA CoverStep ==
    ASSUME IInv, CoverInv, [Next]_vars
    PROVE  CoverInv'
<1>1. ASSUME Create PROVE CoverInv'
  <2>1. PICK b \in Bodies \ live, x \in Places :
          /\ live' = live \cup {b} /\ at' = With(at, b, x)
          /\ fat' = With(fat, b, Grown(Box(b, x), Extension))
    BY <1>1 DEF Create
  <2>2. pc' = "idle"
    BY <1>1 DEF Create
  <2>3. Contains(Grown(Box(b, x), Extension), Box(b, x))
    BY Types, BoxType, GrownContains, ContactsAssumption
  <2>4. ASSUME NEW d \in live' PROVE Contains(fat'[d], Box(d, at'[d]))
    <3>1. CASE d = b
      BY <2>1, <2>3, <3>1, Types DEF With
    <3>2. CASE d # b
      <4>1. d \in live /\ fat'[d] = fat[d] /\ at'[d] = at[d]
        BY <2>1, <3>2, Types DEF With
      <4> QED
        BY <4>1 DEF CoverInv
    <3> QED
      BY <3>1, <3>2
  <2> QED
    BY <2>2, <2>4 DEF CoverInv
<1>2. ASSUME SetTransform PROVE CoverInv'
  <2>1. PICK b \in live, x \in Places :
          /\ at' = [at EXCEPT ![b] = x]
          /\ fat' = [fat EXCEPT ![b] = MovedBox(fat[b], b, x, x)]
    BY <1>2 DEF SetTransform
  <2>2. pc' = "idle" /\ live' = live
    BY <1>2 DEF SetTransform
  <2>3. Contains(MovedBox(fat[b], b, x, x), Box(b, x))
    BY Types, MovedBoxContains
  <2>4. ASSUME NEW d \in live' PROVE Contains(fat'[d], Box(d, at'[d]))
    <3>1. CASE d = b
      BY <2>1, <2>2, <2>3, <3>1, Types
    <3>2. CASE d # b
      <4>1. d \in live /\ fat'[d] = fat[d] /\ at'[d] = at[d]
        BY <2>1, <2>2, <3>2, Types
      <4> QED
        BY <4>1 DEF CoverInv
    <3> QED
      BY <3>1, <3>2
  <2> QED
    BY <2>2, <2>4 DEF CoverInv
<1>3. ASSUME Disable PROVE CoverInv'
  <2>1. PICK b \in live : live' = live \ {b} /\ at' = Without(at, b) /\ fat' = Without(fat, b)
    BY <1>3 DEF Disable
  <2>2. pc' = "idle"
    BY <1>3 DEF Disable
  <2>3. \A d \in live' : d \in live /\ fat'[d] = fat[d] /\ at'[d] = at[d]
    BY <2>1, Types DEF Without
  <2> QED
    BY <2>2, <2>3 DEF CoverInv
<1>4. ASSUME StepBegin \/ CollideOne \/ StepEnd PROVE CoverInv'
  <2>1. UNCHANGED <<live, at, fat>> /\ pc' # "toi"
    BY <1>4 DEF StepBegin, CollideOne, StepEnd
  <2> QED
    BY <2>1 DEF CoverInv
<1>5. ASSUME Solve PROVE CoverInv'
  <2>1. PICK place \in [Island -> Places] :
          /\ at' = [b \in live |-> IF b \in Island THEN place[b] ELSE at[b]]
          /\ from' = [b \in live |-> IF b \in Island THEN at[b] ELSE from[b]]
          /\ awake' \subseteq Island
          /\ fat' = SweptBoxes(at, place)
    BY <1>5 DEF Solve
  <2>2. live' = live
    BY <1>5 DEF Solve
  <2>3. ASSUME NEW b \in live
        PROVE  /\ Contains(fat'[b], Box(b, at'[b]))
               /\ b \in awake' => Contains(fat'[b], Swept(b, from'[b], at'[b]))
    <3>1. CASE b \in Island
      <4>1. /\ fat'[b] = MovedBox(fat[b], b, at[b], place[b])
            /\ at'[b] = place[b] /\ from'[b] = at[b]
        BY <2>1, <3>1 DEF SweptBoxes
      <4>2. place[b] \in Int /\ at[b] \in Int /\ fat[b] \in Boxes /\ b \in Bodies
        BY <3>1, Types
      <4> QED
        BY <4>1, <4>2, MovedBoxContains
    <3>2. CASE b \notin Island
      <4>1. fat'[b] = fat[b] /\ at'[b] = at[b] /\ b \notin awake'
        BY <2>1, <3>2 DEF SweptBoxes
      <4> QED
        BY <4>1 DEF CoverInv
    <3> QED
      BY <3>1, <3>2
  <2> QED
    BY <2>2, <2>3 DEF CoverInv
<1>6. ASSUME SolveTOI PROVE CoverInv'
  <2>1. PICK c \in contacts :
          /\ c.b \in awake
          /\ \E x \in Between(from[c.b], at[c.b]), y \in Places : ImpactMissed(c, x) \/ Impact(c, x, y)
    BY <1>6 DEF SolveTOI
  <2>2. PICK x \in Between(from[c.b], at[c.b]), y \in Places : ImpactMissed(c, x) \/ Impact(c, x, y)
    BY <2>1
  <2>3. pc = "toi" /\ UNCHANGED <<live, awake, pc>>
    BY <1>6 DEF SolveTOI
  <2>4. CASE ImpactMissed(c, x)
    BY <2>3, <2>4 DEF ImpactMissed, CoverInv
  <2>5. CASE Impact(c, x, y)
    <3>1. /\ at' = [at EXCEPT ![c.b] = y] /\ from' = [from EXCEPT ![c.b] = x]
          /\ fat' = [fat EXCEPT ![c.b] = MovedBox(fat[c.b], c.b, x, y)]
      BY <2>5 DEF Impact
    <3>2. c.b \in live /\ x \in Int /\ y \in Int
      <4>1. c.b \in live
        BY <2>1, Facts
      <4>2. from[c.b] \in Int /\ at[c.b] \in Int
        BY <4>1, Types
      <4> QED
        BY <4>1, <4>2, Types DEF Between, Least, Greatest
    <3>3. /\ Contains(MovedBox(fat[c.b], c.b, x, y), Box(c.b, y))
          /\ Contains(MovedBox(fat[c.b], c.b, x, y), Swept(c.b, x, y))
      BY <3>2, Types, MovedBoxContains
    <3>4. ASSUME NEW d \in live
          PROVE  /\ Contains(fat'[d], Box(d, at'[d]))
                 /\ d \in awake => Contains(fat'[d], Swept(d, from'[d], at'[d]))
      <4>1. CASE d = c.b
        <5>1. fat'[d] = MovedBox(fat[c.b], c.b, x, y) /\ at'[d] = y /\ from'[d] = x
          BY <3>1, <4>1, Types
        <5> QED
          BY <3>3, <4>1, <5>1
      <4>2. CASE d # c.b
        <5>1. fat'[d] = fat[d] /\ at'[d] = at[d] /\ from'[d] = from[d]
          BY <3>1, <4>2, Types
        <5> QED
          BY <2>3, <5>1 DEF CoverInv
      <4> QED
        BY <4>1, <4>2
    <3> QED
      BY <2>3, <3>4 DEF CoverInv
  <2> QED
    BY <2>2, <2>4, <2>5
<1>7. ASSUME UNCHANGED vars PROVE CoverInv'
  BY <1>7 DEF vars, CoverInv
<1> QED
  BY <1>1, <1>2, <1>3, <1>4, <1>5, <1>6, <1>7 DEF Next

LEMMA NothingUnseen == IInv /\ CoverInv => NothingIsPassedUnseen
<1> SUFFICES ASSUME IInv, CoverInv, pc = "toi",
                    NEW b \in awake, NEW s \in live \cap Statics,
                    Overlap(Swept(b, from[b], at[b]), Box(s, at[s]))
             PROVE  Known(s, b)
  BY DEF NothingIsPassedUnseen
<1>1. b \in live \cap Balls /\ s # b
  BY Facts, ContactsAssumption
<1>2. Contains(fat[b], Swept(b, from[b], at[b])) /\ Contains(fat[s], Box(s, at[s]))
  BY <1>1 DEF CoverInv
<1>3. /\ Swept(b, from[b], at[b]) \in Boxes /\ Box(s, at[s]) \in Boxes
      /\ fat[b] \in Boxes /\ fat[s] \in Boxes
  BY <1>1, Types, SweptType, BoxType
<1>4. Overlap(fat[s], fat[b])
  BY <1>2, <1>3, OverlapGrows, OverlapCommutes
<1>5. OverlapsAreKnown
  BY DEF IInv
<1> QED
  BY <1>1, <1>4, <1>5 DEF OverlapsAreKnown

-----------------------------------------------------------------------------
(* What Collide has visited                                                *)

\* The contacts that Collide is done with say the truth, unless their balls slept.
VisitInv ==
    pc = "collide" =>
        /\ (Balls \cap live) \ slept \subseteq awake
        /\ \A c \in contacts \ todo : Pair(c) \cap Balls \subseteq slept \/ c.touching = Touch(c, at)

LEMMA VisitStep ==
    ASSUME IInv, VisitInv, [Next]_vars
    PROVE  VisitInv'
<1>1. CASE StepBegin
  BY <1>1 DEF StepBegin, VisitInv
<1>2. CASE CollideOne
  <2>1. PICK c \in todo :
          /\ todo' = todo \ {c}
          /\ \/ /\ Pair(c) \cap awake = {}
                /\ UNCHANGED <<contacts, awake>>
             \/ /\ contacts' = contacts \ {c}
                /\ awake \subseteq awake'
             \/ /\ contacts' = (contacts \ {c}) \cup {Updated(c, at)}
                /\ awake \subseteq awake'
    BY <1>2 DEF CollideOne
  <2>2. pc = "collide" /\ UNCHANGED <<live, at, pc, slept>>
    BY <1>2 DEF CollideOne
  <2>3. (Balls \cap live) \ slept \subseteq awake /\ Pair(c) \subseteq live
    BY <2>2, Facts DEF VisitInv
  <2>4. (Balls \cap live') \ slept' \subseteq awake'
    BY <2>1, <2>2, <2>3
  <2>5. ASSUME NEW d \in contacts' \ todo'
        PROVE  Pair(d) \cap Balls \subseteq slept \/ d.touching = Touch(d, at)
    <3>1. CASE d \in contacts \ todo
      BY <2>2, <3>1 DEF VisitInv
    <3>2. CASE d = c /\ Pair(c) \cap awake = {}
      BY <2>3, <3>2
    <3>3. CASE d = Updated(c, at)
      <4>1. c \in Contact
        BY Facts
      <4>2. d.touching = Touch(c, at) /\ d.a = c.a /\ d.b = c.b
        BY <3>3, <4>1 DEF Updated, Contact
      <4> QED
        BY <4>2 DEF Touch
    <3> QED
      BY <2>1, <3>1, <3>2, <3>3
  <2> QED
    BY <2>2, <2>4, <2>5 DEF VisitInv, Touch
<1>3. CASE UNCHANGED vars
  BY <1>3 DEF vars, VisitInv, Touch
<1>4. CASE Create \/ SetTransform \/ Disable \/ Solve \/ SolveTOI \/ StepEnd
  <2>1. pc' # "collide"
    BY <1>4 DEF Create, SetTransform, Disable, Solve, SolveTOI, StepEnd
  <2> QED
    BY <2>1 DEF VisitInv
<1> QED
  BY <1>1, <1>2, <1>3, <1>4 DEF Next

LEMMA ListenerInformed == IInv /\ CoverInv /\ VisitInv => ListenerKnows
<1> SUFFICES ASSUME IInv, CoverInv, VisitInv, pc = "collide", todo = {},
                    NEW p \in live, NEW q \in live \cap Balls, p # q,
                    ~({p, q} \cap Balls \subseteq slept)
             PROVE  {p, q} \in told <=> Overlap(Box(p, at[p]), Box(q, at[q]))
  BY DEF ListenerKnows
<1>1. CASE Known(p, q)
  <2>1. PICK c \in contacts : Pair(c) = {p, q}
    BY <1>1 DEF Known
  <2>2. c.touching = Touch(c, at)
    BY <2>1 DEF VisitInv
  <2>3. Touch(c, at) <=> Overlap(Box(p, at[p]), Box(q, at[q]))
    <3>1. (c.a = p /\ c.b = q) \/ (c.a = q /\ c.b = p)
      BY <2>1 DEF Pair
    <3> QED
      BY <3>1, OverlapCommutes DEF Touch
  <2>4. {p, q} \in told <=> c.touching
    <3>1. Unique(contacts) /\ told = Touching(contacts)
      BY Facts
    <3>2. \A d \in contacts : Pair(d) = {p, q} => d = c
      BY <2>1, <3>1 DEF Unique
    <3> QED
      BY <2>1, <3>1, <3>2 DEF Touching
  <2> QED
    BY <2>2, <2>3, <2>4
<1>2. CASE ~Known(p, q)
  <2>1. {p, q} \notin told
    BY <1>2, Facts DEF Known, Touching
  <2>2. ~Overlap(fat[p], fat[q])
    BY <1>2 DEF IInv, OverlapsAreKnown
  <2>3. /\ Contains(fat[p], Box(p, at[p])) /\ Contains(fat[q], Box(q, at[q]))
        /\ fat[p] \in Boxes /\ fat[q] \in Boxes
        /\ Box(p, at[p]) \in Boxes /\ Box(q, at[q]) \in Boxes
    BY Types, BoxType DEF CoverInv
  <2>4. ~Overlap(Box(p, at[p]), Box(q, at[q]))
    BY <2>2, <2>3, OverlapGrows
  <2> QED
    BY <2>1, <2>4
<1> QED
  BY <1>1, <1>2

-----------------------------------------------------------------------------
(* Theorems                                                                *)

\* The inductive invariant: the buffer and the flags agree and are empty during a step, the
\* listener knows what the contacts say, and the parts of it that the runs check.
THEOREM ContactsInvariant == Spec => []IInv
BY InitInv, NextInv, PTL DEF Spec

\* No update of Box2D's contacts, whatever the bodies do, leaves their types.
THEOREM ContactsTyped == Spec => []TypeOK
<1>1. IInv => TypeOK
  BY DEF IInv
<1> QED
  BY <1>1, ContactsInvariant, PTL

\* Two bodies whose boxes overlap have a contact or are looked at by the next step.
THEOREM OverlapsAreKnownHolds == Spec => []OverlapsAreKnown
<1>1. IInv => OverlapsAreKnown
  BY DEF IInv
<1> QED
  BY <1>1, ContactsInvariant, PTL

\* AddPair never makes a second contact for a pair, in whichever order the bodies come.
THEOREM OneContactPerPairHolds == Spec => []OneContactPerPair
<1>1. IInv => OneContactPerPair
  BY DEF IInv
<1> QED
  BY <1>1, ContactsInvariant, PTL

\* No contact, buffered move or beginning that was told outlives the proxy of a body.
THEOREM ContactsAreLiveHolds == Spec => []ContactsAreLive
<1>1. IInv => ContactsAreLive
  <2> SUFFICES ASSUME IInv PROVE ContactsAreLive
    OBVIOUS
  <2>1. \A p \in told : p \subseteq live
    BY Facts DEF Touching
  <2> QED
    BY <2>1, Facts DEF ContactsAreLive
<1> QED
  BY <1>1, ContactsInvariant, PTL

\* A ball that has gone past a brick or a paddle in one step still has a contact with it
\* when the impacts are looked for, so that SolveTOI can stop it: whatever the margins.
THEOREM NothingIsPassedUnseenHolds == Spec => []NothingIsPassedUnseen
<1>1. Init => CoverInv
  BY DEF Init, CoverInv
<1>2. IInv /\ CoverInv /\ [Next]_vars => CoverInv'
  BY CoverStep
<1> QED
  BY <1>1, <1>2, NothingUnseen, ContactsInvariant, PTL DEF Spec

\* After Collide the game has been told of what touches, and of nothing else, whatever
\* happened since the step before.
THEOREM ListenerKnowsHolds == Spec => []ListenerKnows
<1>1. Init => CoverInv /\ VisitInv
  BY DEF Init, CoverInv, VisitInv
<1>2. IInv /\ CoverInv /\ [Next]_vars => CoverInv'
  BY CoverStep
<1>3. IInv /\ VisitInv /\ [Next]_vars => VisitInv'
  BY VisitStep
<1> QED
  BY <1>1, <1>2, <1>3, ListenerInformed, ContactsInvariant, PTL DEF Spec

=============================================================================
