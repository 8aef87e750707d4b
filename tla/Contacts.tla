------------------------------ MODULE Contacts ------------------------------
(***************************************************************************)
(* How Box2D comes to call the ContactListener of the game: the contacts   *)
(* of b2ContactManager, the fat boxes and the move buffer of the broad     *)
(* phase, and the phases of b2World::Step between which they must agree.   *)
(*                                                                         *)
(* Bodies are intervals of a line.  A body stands for its proxy: a brick   *)
(* that was disabled has none, is never enabled again, and leaves its      *)
(* identifier to another body.  Where the solver moves a ball to, and      *)
(* which impact comes first, is left open.                                 *)
(***************************************************************************)
EXTENDS Integers, FiniteSets

CONSTANTS
    Balls,       \* dynamic bodies, circles; their identifiers are those of proxies
    Statics,     \* bricks, paddles and walls: static bodies, polygons
    MaxPlace,    \* places are 0 .. MaxPlace
    Size,        \* half the size of each body
    Extension,   \* b2_aabbExtension
    Slack,       \* how much larger a box may be; four times the extension in MoveProxy
    Multiplier,  \* b2_aabbMultiplier
    MaxSubSteps, \* b2_maxSubSteps
    MaxLive      \* bound: bodies with a proxy at a time

Bodies == Balls \cup Statics
Places == 0 .. MaxPlace

ASSUME ContactsAssumption ==
    /\ Bodies \subseteq Nat /\ Balls \cap Statics = {}
    /\ IsFiniteSet(Bodies) /\ Cardinality(Balls) <= 2  \* generate_arkanoid_elements
    /\ Size \in [Bodies -> Nat]
    /\ {MaxPlace, Extension, Slack, Multiplier, MaxSubSteps, MaxLive} \subseteq Nat

VARIABLES
    live,        \* bodies with a proxy
    at,          \* m_sweep.c and the transform of the live bodies
    from,        \* m_sweep.c0, which counts during a step only
    fat,         \* the boxes in the tree
    moved,       \* their flags
    buffer,      \* m_moveBuffer
    contacts,    \* m_contactList
    newContacts, \* m_newContacts
    awake,       \* the balls that do not sleep
    pc,          \* the phase of Step
    todo,        \* the contacts that Collide has yet to visit
    slept,       \* history: the balls that slept when Collide began
    told         \* history: the pairs whose contact the listener knows to have begun

vars == <<live, at, from, fat, moved, buffer, contacts, newContacts, awake, pc, todo,
          slept, told>>

-----------------------------------------------------------------------------
(* Boxes                                                                   *)

Least(m, n) == IF m <= n THEN m ELSE n
Greatest(m, n) == IF m <= n THEN n ELSE m

Box(b, x) == [low |-> x - Size[b], high |-> x + Size[b]]
Grown(s, n) == [low |-> s.low - n, high |-> s.high + n]
Overlap(s, t) == s.low <= t.high /\ t.low <= s.high
Contains(s, t) == s.low <= t.low /\ t.high <= s.high
Combine(s, t) == [low |-> Least(s.low, t.low), high |-> Greatest(s.high, t.high)]

\* What a body covers on its way from x to y.
Swept(b, x, y) == Combine(Box(b, x), Box(b, y))

\* MoveProxy: a box is enlarged the way it moves.
Predicted(s, d) ==
    [low  |-> s.low  + (IF d < 0 THEN Multiplier * d ELSE 0),
     high |-> s.high + (IF d < 0 THEN 0 ELSE Multiplier * d)]

\* Mutant: only where the body arrives is looked at.
MovedBoxEnd(old, b, x, y) ==
    LET new == Predicted(Grown(Box(b, y), Extension), y - x)
    IN IF Contains(old, Box(b, y)) /\ Contains(Grown(new, Slack), old)
         THEN old ELSE new

\* The box of a body that moves from x to y; it stays if it is large enough and not huge.
MovedBox(old, b, x, y) ==
    LET new == Predicted(Grown(Swept(b, x, y), Extension), y - x)
    IN IF Contains(old, Swept(b, x, y)) /\ Contains(Grown(new, Slack), old)
         THEN old ELSE new

-----------------------------------------------------------------------------
(* Contacts                                                                *)

Pair(c) == {c.a, c.b}

\* The second fixture is that of a ball, and so is the first if both are.
Contact == [a : Bodies, b : Balls, touching : BOOLEAN, enabled : BOOLEAN,
            toiCount : 0 .. (MaxSubSteps + 1)]

ShouldCollide(p, q) == p \in Balls \/ q \in Balls

\* Creation swaps a circle and a polygon that come in this order.
NewContact(p, q) ==
    LET swap == p \in Balls /\ q \in Statics
    IN [a |-> IF swap THEN q ELSE p, b |-> IF swap THEN p ELSE q,
        touching |-> FALSE, enabled |-> TRUE, toiCount |-> 0]

\* Mutant: the two fixtures are compared in one order only.
AlreadyThereInOrder(cs, p, q) == \E c \in cs : c.a = p /\ c.b = q

AlreadyThere(cs, p, q) ==
    \E c \in cs : (c.a = p /\ c.b = q) \/ (c.a = q /\ c.b = p)

\* AddPair for each of a set of pairs.  Of the list of contacts only the elements are kept.
AddPairs(cs, pairs) ==
    cs \cup {NewContact(p[1], p[2]) :
               p \in {pq \in pairs : ShouldCollide(pq[1], pq[2]) /\ ~AlreadyThere(cs, pq[1], pq[2])}}

\* Mutant: the flag is not looked at.
SkippedUnflagged(p, query, flags) == p = query \/ p > query

\* QueryCallback: a pair of two bodies that moved is found once.
Skipped(p, query, flags) == p = query \/ (p \in flags /\ p > query)

\* The pairs that the queries with the boxes of the buffered proxies find.
FoundPairs(boxes, flags, buffered) ==
    {<<Least(p[1], p[2]), Greatest(p[1], p[2])>> :
       p \in {pq \in (DOMAIN boxes) \X buffered :
                Overlap(boxes[pq[1]], boxes[pq[2]]) /\ ~Skipped(pq[1], pq[2], flags)}}

\* UpdatePairs, with the boxes, flags and buffer that the phase has come to.
FindNewContacts(boxes, flags, buffered) ==
    /\ contacts' = AddPairs(contacts, FoundPairs(boxes, flags, buffered))
    /\ moved' = flags \ buffered
    /\ buffer' = {}

Touch(c, place) == Overlap(Box(c.a, place[c.a]), Box(c.b, place[c.b]))

\* b2Contact::Update, where the bodies are at place.
Updated(c, place) == [c EXCEPT !.touching = Touch(c, place), !.enabled = TRUE]

\* BeginContact and EndContact for the contacts of cs that are updated.
ToldAfterUpdate(cs, place) ==
    (told \ {Pair(c) : c \in {d \in cs : d.touching /\ ~Touch(d, place)}})
      \cup {Pair(c) : c \in {d \in cs : ~d.touching /\ Touch(d, place)}}

\* Mutant: a contact is destroyed without a word to the listener.
ToldAfterDestroySilent(cs) == told

\* EndContact for the contacts of cs that are destroyed.
ToldAfterDestroy(cs) == told \ {Pair(c) : c \in {d \in cs : d.touching}}

BallsOf(cs) == UNION {Pair(c) : c \in cs} \cap Balls

-----------------------------------------------------------------------------
(* Between the steps: element_mutex is held, the world is not locked       *)

Init ==
    /\ live = {} /\ at = <<>> /\ from = <<>> /\ fat = <<>>
    /\ moved = {} /\ buffer = {} /\ contacts = {}
    /\ newContacts = FALSE
    /\ awake = {} /\ slept = {} /\ told = {}
    /\ pc = "idle" /\ todo = {}

With(f, b, v) == [d \in DOMAIN f \cup {b} |-> IF d = b THEN v ELSE f[d]]
Without(f, b) == [d \in DOMAIN f \ {b} |-> f[d]]

\* CreateBody and CreateFixture.
Create ==
    /\ pc = "idle" /\ Cardinality(live) < MaxLive
    /\ \E b \in Bodies \ live, x \in Places :
          /\ live' = live \cup {b}
          /\ at' = With(at, b, x)
          /\ from' = With(from, b, x)
          /\ fat' = With(fat, b, Grown(Box(b, x), Extension))
          /\ moved' = moved \cup {b}
          /\ buffer' = buffer \cup {b}
          /\ awake' = awake \cup ({b} \cap Balls)
    /\ newContacts' = TRUE
    /\ UNCHANGED <<contacts, pc, todo, slept, told>>

\* A body is put somewhere by parse_game_element or by the mouse; no sweep leads there.
\* A ball that gets a velocity as well, unless it is zero, wakes up.
SetTransform ==
    /\ pc = "idle"
    /\ \E b \in live, x \in Places :
          LET box == MovedBox(fat[b], b, x, x)
              changed == IF box = fat[b] THEN {} ELSE {b} IN
          /\ at' = [at EXCEPT ![b] = x]
          /\ from' = [from EXCEPT ![b] = x]
          /\ fat' = [fat EXCEPT ![b] = box]
          /\ moved' = moved \cup changed
          /\ buffer' = buffer \cup changed
          /\ awake' \in {awake, awake \cup ({b} \cap Balls)}
    /\ newContacts' = TRUE
    /\ UNCHANGED <<live, contacts, pc, todo, slept, told>>

\* Mutant: the proxy is destroyed, but the contacts are left to Collide.
DisableKeepingContacts ==
    /\ pc = "idle"
    /\ \E b \in live \cap Statics :
          /\ live' = live \ {b}
          /\ at' = Without(at, b)
          /\ from' = Without(from, b)
          /\ fat' = Without(fat, b)
          /\ moved' = moved \ {b}
          /\ buffer' = buffer \ {b}
    /\ UNCHANGED <<contacts, awake, told, newContacts, pc, todo, slept>>

\* SetEnabled(false), for a brick: the proxy goes, and the contacts with it.
Disable ==
    /\ pc = "idle"
    /\ \E b \in live \cap Statics :
          LET gone == {c \in contacts : b \in Pair(c)} IN
          /\ live' = live \ {b}
          /\ at' = Without(at, b)
          /\ from' = Without(from, b)
          /\ fat' = Without(fat, b)
          /\ moved' = moved \ {b}
          /\ buffer' = buffer \ {b}
          /\ contacts' = contacts \ gone
          /\ told' = ToldAfterDestroy(gone)
          /\ awake' = awake \cup BallsOf({c \in gone : c.touching})
    /\ UNCHANGED <<newContacts, pc, todo, slept>>

-----------------------------------------------------------------------------
(* Step                                                                    *)

StepBegin ==
    /\ pc = "idle"
    /\ IF newContacts THEN FindNewContacts(fat, moved, buffer)
       ELSE UNCHANGED <<contacts, moved, buffer>>
    /\ newContacts' = FALSE
    /\ pc' = "collide"
    /\ todo' = contacts'
    /\ slept' = (Balls \cap live) \ awake
    /\ UNCHANGED <<live, at, from, fat, awake, told>>

\* One contact in Collide; the order of the list is left open.
CollideOne ==
    /\ pc = "collide"
    /\ \E c \in todo :
          /\ todo' = todo \ {c}
          /\ \/ /\ Pair(c) \cap awake = {}
                /\ UNCHANGED <<contacts, told, awake>>
             \/ /\ Pair(c) \cap awake # {}
                /\ ~Overlap(fat[c.a], fat[c.b])
                /\ contacts' = contacts \ {c}
                /\ told' = ToldAfterDestroy({c})
                /\ awake' = IF c.touching THEN awake \cup BallsOf({c}) ELSE awake
             \/ /\ Pair(c) \cap awake # {}
                /\ Overlap(fat[c.a], fat[c.b])
                /\ contacts' = (contacts \ {c}) \cup {Updated(c, at)}
                /\ told' = ToldAfterUpdate({c}, at)
                /\ awake' = IF Touch(c, at) # c.touching THEN awake \cup BallsOf({c}) ELSE awake
    /\ UNCHANGED <<live, at, from, fat, moved, buffer, newContacts, pc, slept>>

\* The balls of all islands: those awake, and one that touches another.
Island ==
    awake \cup {b \in Balls : \E c \in contacts : /\ c.touching /\ c.enabled
                                                  /\ Pair(c) \subseteq Balls /\ b \in Pair(c)
                                                  /\ Pair(c) \cap awake # {}}

\* SynchronizeFixtures for the balls of place, which came from the places of start.
SweptBoxes(start, place) ==
    [b \in live |-> IF b \in DOMAIN place THEN MovedBox(fat[b], b, start[b], place[b]) ELSE fat[b]]

Changed(boxes) == {b \in live : boxes[b] # fat[b]}

\* The islands are solved, and what has moved looks for new contacts.  A ball falls
\* asleep only when it has hardly moved for a while.
Solve ==
    /\ pc = "collide" /\ todo = {}
    /\ \E place \in [Island -> Places] :
       \E sleepers \in SUBSET {b \in Island : place[b] = at[b]} :
          LET boxes == SweptBoxes(at, place) IN
          /\ at' = [b \in live |-> IF b \in Island THEN place[b] ELSE at[b]]
          /\ from' = [b \in live |-> IF b \in Island THEN at[b] ELSE from[b]]
          /\ awake' = Island \ sleepers
          /\ fat' = boxes
          /\ FindNewContacts(boxes, moved \cup Changed(boxes), buffer \cup Changed(boxes))
    /\ pc' = "toi"
    /\ UNCHANGED <<live, newContacts, todo, slept, told>>

Between(x, y) == Least(x, y) .. Greatest(x, y)

\* One round of SolveTOI that finds a ball x away from where it hits something static.
\* If it does not touch it there after all, the contact is left alone for this step.
ImpactMissed(c, x) ==
    /\ ~Touch(c, [at EXCEPT ![c.b] = x])
    /\ contacts' = (contacts \ {c})
         \cup {[c EXCEPT !.touching = FALSE, !.enabled = FALSE, !.toiCount = @ + 1]}
    /\ told' = ToldAfterUpdate({c}, [at EXCEPT ![c.b] = x])
    /\ UNCHANGED <<at, from, fat, moved, buffer>>

\* Otherwise the other contacts of the ball with static bodies are updated there, and the
\* ball goes on from there to y.
Impact(c, x, y) ==
    LET there == [at EXCEPT ![c.b] = x]
        also == {d \in contacts : d.b = c.b /\ d.a \in Statics}
        box == MovedBox(fat[c.b], c.b, x, y)
        changed == IF box = fat[c.b] THEN {} ELSE {c.b}
        kept == (contacts \ also) \cup {Updated(d, there) : d \in also \ {c}}
                  \cup {[Updated(c, there) EXCEPT !.toiCount = @ + 1]}
    IN /\ Touch(c, there)
       /\ told' = ToldAfterUpdate(also, there)
       /\ at' = [at EXCEPT ![c.b] = y]
       /\ from' = [from EXCEPT ![c.b] = x]
       /\ fat' = [fat EXCEPT ![c.b] = box]
       /\ contacts' = AddPairs(kept, FoundPairs(fat', moved \cup changed, buffer \cup changed))
       /\ moved' = (moved \cup changed) \ (buffer \cup changed)
       /\ buffer' = {}

\* Mutant: there is no end to the sub-steps.
SolveTOIUnlimited ==
    /\ pc = "toi"
    /\ \E c \in contacts :
          /\ c.enabled
          /\ c.a \in Statics /\ c.b \in awake
          /\ \E x \in Between(from[c.b], at[c.b]), y \in Places :
                ImpactMissed(c, x) \/ Impact(c, x, y)
    /\ UNCHANGED <<live, newContacts, awake, pc, todo, slept>>

SolveTOI ==
    /\ pc = "toi"
    /\ \E c \in contacts :
          /\ c.enabled /\ c.toiCount <= MaxSubSteps
          /\ c.a \in Statics /\ c.b \in awake
          /\ \E x \in Between(from[c.b], at[c.b]), y \in Places :
                ImpactMissed(c, x) \/ Impact(c, x, y)
    /\ UNCHANGED <<live, newContacts, awake, pc, todo, slept>>

\* No impact is left; what the sweeps were is forgotten, as the next one begins where
\* the body is, and the counts are reset before the next impacts are looked for.
StepEnd ==
    /\ pc = "toi"
    /\ pc' = "idle"
    /\ from' = at
    /\ slept' = {}
    /\ contacts' = {[c EXCEPT !.toiCount = 0] : c \in contacts}
    /\ UNCHANGED <<live, at, fat, moved, buffer, newContacts, awake, todo, told>>

Next ==
    \/ Create \/ SetTransform \/ Disable
    \/ StepBegin \/ CollideOne \/ Solve \/ SolveTOI \/ StepEnd

Spec == Init /\ [][Next]_vars

-----------------------------------------------------------------------------
(* Properties                                                              *)

Boxes == [low : Int, high : Int]

TypeOK ==
    /\ live \subseteq Bodies
    /\ at \in [live -> Places] /\ from \in [live -> Places]
    /\ fat \in [live -> Boxes]
    /\ moved \subseteq live /\ buffer \subseteq live
    /\ contacts \subseteq Contact /\ todo \subseteq contacts
    /\ newContacts \in BOOLEAN
    /\ awake \subseteq Balls \cap live /\ slept \subseteq Balls \cap live
    /\ pc \in {"idle", "collide", "toi"}
    /\ told \subseteq {{p, q} : p \in Bodies, q \in Balls}

Known(p, q) == \E c \in contacts : Pair(c) = {p, q}

\* Whichever bodies are created, moved by the network or the mouse, or disabled between
\* two steps: two whose boxes overlap have a contact, or one of them is in the buffer and
\* the next step will look at it.
OverlapsAreKnown ==
    \A p \in live, q \in live \cap Balls :
        p # q /\ Overlap(fat[p], fat[q])
            => Known(p, q) \/ (pc = "idle" /\ newContacts /\ {p, q} \cap buffer # {})

\* The sensitive part of a step: whatever a ball meets on its way, and if it is beyond it
\* at the end of its move, it has a contact with, so that SolveTOI can stop it there.
NothingIsPassedUnseen ==
    pc = "toi" => \A b \in awake, s \in live \cap Statics :
        Overlap(Swept(b, from[b], at[b]), Box(s, at[s])) => Known(s, b)

\* AddPair makes one contact for a pair, although the pairs come in the order of the
\* proxies and a contact keeps them in the order of the shapes: hit and add_score would
\* run twice.
OneContactPerPair == \A c, d \in contacts : Pair(c) = Pair(d) => c = d

\* No contact and no buffered move outlives a proxy: Collide would read the box of a node
\* that is free, or is another body's by now.
ContactsAreLive ==
    /\ \A c \in contacts : Pair(c) \subseteq live
    /\ buffer \subseteq live /\ \A p \in told : p \subseteq live

\* After Collide the game has been told of exactly what touches, through all that happened
\* to the bodies since: as each beginning has its end, a brick is hit and scored once per
\* touch.  A ball that slept is not looked at.
ListenerKnows ==
    pc = "collide" /\ todo = {} => \A p \in live, q \in live \cap Balls :
        p # q /\ ~({p, q} \cap Balls \subseteq slept)
            => ({p, q} \in told <=> Overlap(Box(p, at[p]), Box(q, at[q])))

=============================================================================
