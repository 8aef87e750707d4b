---------------------------- MODULE BrickProofs ----------------------------
(***************************************************************************)
(* Theorems about the bricks of a match: a brick that is drawn can be hit,  *)
(* a verdict needs a cleared board, the board that is played on keeps its  *)
(* broken bricks, and a break is forgotten in two ways only.  They rest on *)
(* what updates say of bricks: the board says of each brick that it        *)
(* exists, and every other update only tells of bricks that are broken.    *)
(* What is sent may be lost, and other updates may overtake the board: the *)
(* client waits for it until it knows its own paddle, and breaks no brick  *)
(* as long as it waits.                                                    *)
(* With the scores an instance has had (GameHistory), two instances are a  *)
(* Match, if nothing overtakes the board.                                  *)
(***************************************************************************)
EXTENDS GameProofs, GameHistory

USE GameAssumption DEF mainVars, sendVars, netVars, bounds

-----------------------------------------------------------------------------
(* What updates say of bricks                                              *)

\* The broken bricks of a world.
Gone(w) == {b \in Bricks : b \in w.known /\ w.duration[b] <= 0}

\* What g says of a brick is that it is broken, as it is at the sender.
Tame(gone, g) == g.id \in Bricks => g.id \in gone /\ g.duration <= 0

TameMsg(gone, msg) == \A g \in msg : Tame(gone, g)

\* What the board says of a brick, and of none twice.
BoardMsg(msg) ==
    \A g \in msg : g.id \in Bricks =>
        g.duration > 0 /\ \A h \in msg : h.id = g.id => h = g

\* The updates of i on their way, as in Traffic, when the bricks of gone are broken at i.
\* The board comes before any other update only if nothing overtakes it.
Way(i, gone, msgs, queue, in, known) ==
    /\ \A t \in Threads :
          IF IsInitial(i, msgs[t])
          THEN BoardMsg(msgs[t]) /\ (InitialFirst => queue = <<>> /\ in = {} /\ known = {})
          ELSE TameMsg(gone, msgs[t])
    /\ \A k \in DOMAIN queue :
          IF IsInitial(i, queue[k])
          THEN BoardMsg(queue[k]) /\ (InitialFirst => k = 1 /\ in = {} /\ known = {})
          ELSE TameMsg(gone, queue[k])
    /\ \A g \in in :
          \/ Tame(gone, g)
          \/ /\ i = "host" /\ g.duration > 0 /\ PeerPaddle(i) \in known \cup IdsOf(in)
             /\ InitialFirst => g.id \notin known
             /\ \A h \in in : h.id = g.id => h = g

\* Elements that repair a brick, as those of the board may.
Repairs(in) == {g \in in : g.id \in Bricks /\ g.duration > 0}

\* The client waits for the board until it knows its own paddle and has parsed all of the
\* board's bricks.
Awaits(i, known, in) == i = "client" /\ (OwnPaddle(i) \notin known \/ Repairs(in) # {})

AwaitsOf(i) == Awaits(i, world[i].known, inbox[i])

\* The broken bricks of an instance that will not be repaired.
Sure(awaits, w) == IF awaits THEN {} ELSE Gone(w)

SureOf(i) == Sure(AwaitsOf(i), world[i])

WayOf(i) ==
    Way(i, SureOf(i), Msgs(thread[i]), net[Peer(i)], inbox[Peer(i)], world[Peer(i)].known)

\* Only bricks of gone are marked, or waiting to be serialised.
MarkedOf(gone, w, ts) ==
    /\ w.updated \cap Bricks \subseteq gone
    /\ \A t \in Threads : ts[t].todo \cap Bricks \subseteq gone

\* Without its own paddle an instance knows no brick but broken ones.
OnlyGone(i, w) == OwnPaddle(i) \notin w.known => w.known \cap Bricks \subseteq Gone(w)

\* What the waiting client takes for broken is broken at the host.
Awaiting ==
    AwaitsOf("client") =>
        /\ Gone(world["client"]) \subseteq Gone(world["host"])
        /\ OnlyGone("client", world["client"])

HostSetup ==
    pc["host"] = "setup" =>
        /\ \A t \in Threads : thread["host"][t].pc = "idle"
        /\ net["client"] = <<>> /\ inbox["client"] = {} /\ world["client"].known = {}
        /\ world["host"].known \cap Bricks = {}

BrickInv ==
    /\ \A i \in Instances : MarkedOf(SureOf(i), world[i], thread[i]) /\ WayOf(i)
    /\ HostSetup /\ Awaiting

\* Only broken bricks have left the physics; at the client some may have been repaired.
SolidInv ==
    \A i \in Instances :
        Bricks \ world[i].enabled \subseteq
            Gone(world[i]) \cup (IF i = "client" THEN Gone(world["host"]) ELSE {})

EmptyInv ==
    \A i \in Instances : \A t \in Threads :
        thread[i][t].pc \in {"idle", "clear"} => thread[i][t].msg = {}

ToldInv ==
    \A i \in Instances : \A b \in Gone(world[i]) \ Gone(world[Peer(i)]) :
        Open(i) /\ Open(Peer(i)) => BreakUnderWay(i, b) \/ b \in forgotten[Peer(i)]

-----------------------------------------------------------------------------
(* The updates on their way                                                *)

LEMMA TameFacts ==
    ASSUME NEW gone, NEW more, gone \subseteq more
    PROVE  /\ \A g : Tame(gone, g) => Tame(more, g)
           /\ \A msg : TameMsg(gone, msg) => TameMsg(more, msg)
           /\ TameMsg(gone, {})
BY DEF Tame, TameMsg

\* More bricks are broken; an update of a thread is replaced by itself or by a tame one.
LEMMA ThreadWay ==
    ASSUME NEW i \in Instances, NEW gone, NEW more, NEW msgs, NEW next, NEW queue, NEW in,
           NEW known, Way(i, gone, msgs, queue, in, known), gone \subseteq more,
           \A t \in Threads : \/ next[t] = msgs[t]
                              \/ ~IsInitial(i, next[t]) /\ TameMsg(more, next[t])
    PROVE  Way(i, more, next, queue, in, known)
BY TameFacts DEF Way

\* One update is written, if it must be with none of the board left behind.
LEMMA WriteWay ==
    ASSUME NEW i \in Instances, NEW gone, NEW msgs, NEW next, NEW queue \in Seq(GameUpdate),
           NEW in, NEW known, NEW t \in Threads, msgs[t] \in GameUpdate,
           Way(i, gone, msgs, queue, in, known),
           next[t] = {}, \A s \in Threads \ {t} : next[s] = msgs[s],
           InitialFirst => \A s \in Threads \ {t} : ~IsInitial(i, msgs[s])
    PROVE  Way(i, gone, next, Append(queue, msgs[t]), in, known)
<1> DEFINE longer == Append(queue, msgs[t])
<1>1. \A k \in DOMAIN longer :
        \/ k \in DOMAIN queue /\ longer[k] = queue[k]
        \/ k = Len(queue) + 1 /\ longer[k] = msgs[t]
  OBVIOUS
<1>2. queue = <<>> => DOMAIN queue = {} /\ Len(queue) + 1 = 1
  OBVIOUS
<1> HIDE DEF longer
<1>3. \A s \in Threads : IF IsInitial(i, next[s]) THEN BoardMsg(next[s]) /\ ~InitialFirst
                         ELSE TameMsg(gone, next[s])
  <2>1. ~IsInitial(i, {}) /\ TameMsg(gone, {})
    BY InitialFacts, TameFacts
  <2>2. \A s \in Threads \ {t} : IF IsInitial(i, msgs[s]) THEN BoardMsg(msgs[s]) /\ ~InitialFirst
                                ELSE TameMsg(gone, msgs[s])
    BY DEF Way
  <2> QED
    BY <2>1, <2>2
<1>4. \A k \in DOMAIN longer :
        IF IsInitial(i, longer[k])
        THEN BoardMsg(longer[k]) /\ (InitialFirst => k = 1 /\ in = {} /\ known = {})
        ELSE TameMsg(gone, longer[k])
  <2> SUFFICES ASSUME NEW k \in DOMAIN longer, k = Len(queue) + 1, longer[k] = msgs[t]
               PROVE  IF IsInitial(i, longer[k])
                      THEN BoardMsg(longer[k]) /\ (InitialFirst => k = 1 /\ in = {} /\ known = {})
                      ELSE TameMsg(gone, longer[k])
    BY <1>1 DEF Way
  <2> QED
    BY <1>2 DEF Way
<1>5. Way(i, gone, next, longer, in, known)
  BY <1>3, <1>4 DEF Way
<1> QED
  BY <1>5 DEF longer

\* The front of the queue is lost, or goes to a reader that has nothing left to parse.
LEMMA TakeWay ==
    ASSUME NEW i \in Instances, NEW gone, NEW msgs, NEW queue \in Seq(GameUpdate),
           NEW in, NEW known, queue # <<>>, Way(i, gone, msgs, queue, in, known),
           i # "host" => \A k \in DOMAIN queue : ~IsInitial(i, queue[k])
    PROVE  /\ Way(i, gone, msgs, Tail(queue), in, known)
           /\ in = {} => Way(i, gone, msgs, Tail(queue), Head(queue), known)
<1> DEFINE rest == Tail(queue)
           first == Head(queue)
<1>1. /\ \A k \in DOMAIN rest : k + 1 \in DOMAIN queue /\ rest[k] = queue[k + 1] /\ k + 1 # 1
      /\ 1 \in DOMAIN queue /\ first = queue[1]
  OBVIOUS
<1> HIDE DEF rest, first
<1>2. \A k \in DOMAIN rest : IF IsInitial(i, rest[k]) THEN BoardMsg(rest[k]) /\ ~InitialFirst
                             ELSE TameMsg(gone, rest[k])
  BY <1>1 DEF Way
<1>3. \A t \in Threads : IF IsInitial(i, msgs[t]) THEN BoardMsg(msgs[t]) /\ ~InitialFirst
                         ELSE TameMsg(gone, msgs[t])
  BY DEF Way
<1>4. Way(i, gone, msgs, rest, in, known)
  BY <1>2, <1>3 DEF Way
<1>5. \A g \in first :
        \/ Tame(gone, g)
        \/ /\ i = "host" /\ g.duration > 0 /\ PeerPaddle(i) \in known \cup IdsOf(first)
           /\ InitialFirst => g.id \notin known
           /\ \A h \in first : h.id = g.id => h = g
  <2>1. CASE IsInitial(i, first)
    <3>1. BoardMsg(first) /\ (InitialFirst => known = {}) /\ i = "host"
      BY <1>1, <2>1 DEF Way
    <3>2. PeerPaddle(i) \in IdsOf(first)
      BY <2>1, InitialFacts
    <3> QED
      BY <3>1, <3>2 DEF BoardMsg, Tame
  <2>2. CASE ~IsInitial(i, first)
    BY <1>1, <2>2 DEF Way, TameMsg
  <2> QED
    BY <2>1, <2>2
<1>6. Way(i, gone, msgs, rest, first, known)
  BY <1>2, <1>3, <1>5 DEF Way
<1> QED
  BY <1>4, <1>6 DEF rest, first

\* One element is parsed.
LEMMA ParseWay ==
    ASSUME NEW i \in Instances, NEW gone, NEW msgs, NEW queue, NEW in, NEW known,
           NEW g \in in, Way(i, gone, msgs, queue, in, known)
    PROVE  Way(i, gone, msgs, queue, in \ {g}, known \cup {g.id})
<1> DEFINE left == in \ {g}
           more == known \cup {g.id}
<1>1. more \cup IdsOf(left) = known \cup IdsOf(in)
  BY DEF IdsOf
<1>2. \A h \in left : \/ Tame(gone, h)
                      \/ /\ i = "host" /\ h.duration > 0
                         /\ PeerPaddle(i) \in more \cup IdsOf(left)
                         /\ InitialFirst => h.id \notin more
                         /\ \A f \in left : f.id = h.id => f = h
  BY <1>1 DEF Way
<1> HIDE DEF left, more
<1>3. Way(i, gone, msgs, queue, left, more)
  BY <1>2 DEF Way
<1> QED
  BY <1>3 DEF left, more

\* The receiver makes the board itself: what comes from the client brings none.
LEMMA ClientWay ==
    ASSUME NEW gone, NEW msgs, NEW queue, NEW in, NEW known, NEW more,
           Way("client", gone, msgs, queue, in, known),
           \A t \in Threads : ~IsInitial("client", msgs[t]),
           \A k \in DOMAIN queue : ~IsInitial("client", queue[k])
    PROVE  Way("client", gone, msgs, queue, in, more)
BY DEF Way

\* The host makes the board: a thread gets the update with all of it.
LEMMA MadeWay ==
    ASSUME NEW gone, NEW msgs, NEW next, NEW t \in Threads,
           Way("host", {}, msgs, <<>>, {}, {}),
           \A s \in Threads : ~IsInitial("host", msgs[s]),
           BoardMsg(next[t]), IsInitial("host", next[t]),
           \A s \in Threads \ {t} : next[s] = msgs[s]
    PROVE  Way("host", gone, next, <<>>, {}, {})
<1>1. \A s \in Threads \ {t} : ~IsInitial("host", next[s]) /\ TameMsg(gone, next[s])
  BY TameFacts DEF Way
<1> QED
  BY <1>1 DEF Way

\* The update that carries all elements of a generated board says of each brick once
\* that it exists.
LEMMA GeneratedMsg ==
    ASSUME NEW d \in [Bricks -> 1 .. MaxDuration]
    PROVE  BoardMsg(FillGameUpdate(GeneratedWorld(d), Ids))
<1> DEFINE w == GeneratedWorld(d)
<1>1. w \in World /\ w.duration = d
  BY GeneratedWorldType DEF GeneratedWorld, EmptyWorld
<1> HIDE DEF w
<1>2. \A e \in Ids : FillGameElement(w, e).id = e
  BY <1>1, FillGameElementType
<1>3. \A e \in Bricks : FillGameElement(w, e).duration > 0
  BY <1>1, IdsPartition, ElementsAssumption DEF FillGameElement
<1>4. BoardMsg(FillGameUpdate(w, Ids))
  BY <1>2, <1>3 DEF BoardMsg, FillGameUpdate
<1> QED
  BY <1>4 DEF w

-----------------------------------------------------------------------------
(* Broken bricks stay broken                                               *)

\* A contact breaks bricks, marks those it breaks, and repairs none.
LEMMA ContactGone ==
    ASSUME NEW w \in World, NEW ball \in Balls
    PROVE  /\ \A b \in Bricks \cap w.known :
                 LET v == ContactBrick(w, ball, b)
                 IN /\ Gone(w) \subseteq Gone(v) /\ v.enabled = w.enabled
                    /\ Gone(v) \subseteq Gone(w) \cup v.updated
                    /\ v.updated \cap Bricks \subseteq w.updated \cup Gone(v)
                    /\ w.updated \subseteq v.updated
           /\ \A p \in Paddles :
                 LET v == ContactPaddle(w, ball, p)
                 IN /\ Gone(v) = Gone(w) /\ v.enabled = w.enabled
                    /\ v.updated \cap Bricks = w.updated \cap Bricks
           /\ \A p \in Paddles :
                 LET v == ContactPlate(w, ball, p)
                 IN /\ Gone(v) = Gone(w) /\ v.enabled = w.enabled
                    /\ v.updated \cap Bricks = w.updated \cap Bricks
<1>1. ASSUME NEW b \in Bricks \cap w.known
      PROVE  LET v == ContactBrick(w, ball, b)
             IN /\ Gone(w) \subseteq Gone(v) /\ v.enabled = w.enabled
                /\ Gone(v) \subseteq Gone(w) \cup v.updated
                /\ v.updated \cap Bricks \subseteq w.updated \cup Gone(v)
                /\ w.updated \subseteq v.updated
  <2> DEFINE hit == BrickHit(w, b, ball)
             v == ContactBrick(w, ball, b)
  <2>1. w.duration \in [Bricks -> Int] /\ hit \in World /\ hit.known = w.known
    BY BrickHitType DEF World
  <2>2. /\ hit.enabled = w.enabled /\ w.updated \subseteq hit.updated
        /\ \A c \in Bricks \ {b} : hit.duration[c] = w.duration[c]
        /\ hit.duration[b] <= w.duration[b]
        /\ hit.updated \cap Bricks \subseteq w.updated \cup {b}
        /\ b \in hit.updated \/ hit.duration[b] = w.duration[b] \/ hit.duration[b] > 0
        /\ b \in hit.updated => b \in w.updated \/ hit.duration[b] <= 0
    BY <2>1, IdsPartition DEF BrickHit, World
  <2>3. /\ v.enabled = hit.enabled /\ v.known = hit.known /\ v.duration = hit.duration
        /\ hit.updated \subseteq v.updated /\ v.updated \cap Bricks = hit.updated \cap Bricks
    <3>1. CASE w.lastPaddle[ball] # NoPaddle
      <4>1. w.lastPaddle[ball] \in Paddles
        BY <3>1 DEF World
      <4>2. v = AddScore(hit, w.lastPaddle[ball], 1)
        BY <3>1 DEF ContactBrick
      <4> HIDE DEF hit, v
      <4> QED
        BY <2>1, <4>1, <4>2, IdsPartition DEF AddScore, World
    <3>2. CASE w.lastPaddle[ball] = NoPaddle
      BY <3>2 DEF ContactBrick
    <3> QED
      BY <3>1, <3>2
  <2> HIDE DEF hit, v
  <2>4. Gone(w) \subseteq Gone(v)
    BY <2>1, <2>2, <2>3 DEF Gone, World
  <2>5. Gone(v) \subseteq Gone(w) \cup v.updated
    BY <2>1, <2>2, <2>3 DEF Gone, World
  <2>6. v.updated \cap Bricks \subseteq w.updated \cup Gone(v)
    BY <2>1, <2>2, <2>3 DEF Gone
  <2>7. /\ Gone(w) \subseteq Gone(v) /\ v.enabled = w.enabled
        /\ Gone(v) \subseteq Gone(w) \cup v.updated
        /\ v.updated \cap Bricks \subseteq w.updated \cup Gone(v)
        /\ w.updated \subseteq v.updated
    BY <2>2, <2>3, <2>4, <2>5, <2>6
  <2> QED
    BY <2>7 DEF v
<1>2. ASSUME NEW p \in Paddles
      PROVE  LET v == ContactPaddle(w, ball, p)
             IN /\ Gone(v) = Gone(w) /\ v.enabled = w.enabled
                /\ v.updated \cap Bricks = w.updated \cap Bricks
  <2> DEFINE v == ContactPaddle(w, ball, p)
  <2>1. v.known = w.known /\ v.duration = w.duration
    BY ContactPaddleType, ContactKeepsBricks
  <2>2. v.enabled = w.enabled /\ v.updated \cap Bricks = w.updated \cap Bricks
    BY IdsPartition DEF ContactPaddle, World
  <2> HIDE DEF v
  <2>3. Gone(v) = Gone(w)
    BY <2>1 DEF Gone
  <2> QED
    BY <2>2, <2>3 DEF v
<1>3. ASSUME NEW p \in Paddles
      PROVE  LET v == ContactPlate(w, ball, p)
             IN /\ Gone(v) = Gone(w) /\ v.enabled = w.enabled
                /\ v.updated \cap Bricks = w.updated \cap Bricks
  <2> DEFINE v == ContactPlate(w, ball, p)
  <2>1. v.known = w.known /\ v.duration = w.duration
    BY ContactPlateType, ContactKeepsBricks
  <2>2. v.enabled = w.enabled /\ v.updated \cap Bricks = w.updated \cap Bricks
    BY IdsPartition DEF ContactPlate, AddScore, World
  <2> HIDE DEF v
  <2>3. Gone(v) = Gone(w)
    BY <2>1 DEF Gone
  <2> QED
    BY <2>2, <2>3 DEF v
<1> QED
  BY <1>1, <1>2, <1>3

\* What is parsed is broken, or exists: then it repairs a brick that was broken.
LEMMA ParseGone ==
    ASSUME NEW gone, NEW w \in World, NEW in \in GameUpdate, NEW g \in in,
           Tame(gone, g) \/ g.duration > 0
    PROVE  LET v == ParseGameElement(w, g)
           IN /\ v.enabled = w.enabled /\ v.updated = w.updated
              /\ Gone(v) \subseteq Gone(w) \cup gone
              /\ Gone(w) \ Gone(v) \subseteq {g.id}
              /\ Tame(gone, g) \/ g.id \notin w.known => Gone(w) \subseteq Gone(v)
              /\ g.id \in Bricks /\ g.duration <= 0 => g.id \in Gone(v)
<1> DEFINE v == ParseGameElement(w, g)
<1>1. g \in GameElement /\ w.duration \in [Bricks -> Int]
  BY DEF GameUpdate, World
<1>2. g.id \in Ids /\ (g.id \in Bricks => g.duration \in Int)
  BY <1>1, GameElementById
<1>3. /\ v.known = w.known \cup {g.id} /\ v.updated = w.updated
  BY <1>1, ParseGameElementType
<1>4. /\ v.enabled = w.enabled
      /\ v.duration = IF g.id \in Bricks THEN [w.duration EXCEPT ![g.id] = g.duration]
                      ELSE w.duration
  BY IdsPartition DEF ParseGameElement, World
<1> HIDE DEF v
<1>5. CASE g.id \in Bricks
  <2>1. /\ v.duration[g.id] = g.duration
        /\ \A c \in Bricks \ {g.id} : v.duration[c] = w.duration[c]
    BY <1>1, <1>4, <1>5
  <2>2. CASE g.duration <= 0
    <3>1. Gone(v) = Gone(w) \cup {g.id}
      BY <1>3, <1>5, <2>1, <2>2 DEF Gone
    <3>2. g.id \in gone
      BY <1>2, <1>5, <2>2 DEF Tame
    <3> QED
      BY <1>3, <1>4, <3>1, <3>2 DEF v
  <2>3. CASE g.duration > 0
    <3>1. Gone(v) = Gone(w) \ {g.id}
      BY <1>2, <1>3, <1>5, <2>1, <2>3 DEF Gone
    <3>2. ~(g.duration <= 0)
      BY <1>2, <1>5, <2>3
    <3>3. ~Tame(gone, g)
      BY <1>5, <3>2 DEF Tame
    <3>4. g.id \notin w.known => g.id \notin Gone(w)
      BY DEF Gone
    <3> QED
      BY <1>3, <1>4, <3>1, <3>2, <3>3, <3>4 DEF v
  <2> QED
    BY <1>2, <1>5, <2>2, <2>3
<1>6. CASE g.id \notin Bricks
  <2>1. Gone(v) = Gone(w)
    BY <1>3, <1>4, <1>6 DEF Gone
  <2> QED
    BY <1>3, <1>4, <1>6, <2>1 DEF v
<1> QED
  BY <1>5, <1>6

\* No ball of an instance without its own paddle breaks a brick.
Unarmed(i, w) == OwnPaddle(i) \notin w.known /\ w.known \cap Bricks \subseteq Gone(w)

LEMMA UnarmedContact ==
    ASSUME NEW i \in Instances, NEW w \in World, NEW ball \in Balls,
           NEW b \in Bricks \cap w.known, Roles(i, w), Unarmed(i, w)
    PROVE  ContactBrick(w, ball, b).updated \cap Bricks \subseteq w.updated
<1>1. ~OwnBall(w, ball) /\ w.duration[b] \in Int /\ w.duration[b] <= 0
  BY InstancesType DEF Roles, Unarmed, OwnBall, Gone, World
<1>2. BrickHit(w, b, ball) = w
  BY <1>1 DEF BrickHit
<1>3. CASE w.lastPaddle[ball] # NoPaddle
  <2>1. w.lastPaddle[ball] \in Paddles
    BY <1>3 DEF World
  <2>2. ContactBrick(w, ball, b) = AddScore(w, w.lastPaddle[ball], 1)
    BY <1>2, <1>3 DEF ContactBrick
  <2>3. AddScore(w, w.lastPaddle[ball], 1).updated \subseteq
           w.updated \cup {q \in Paddles : w.controlled[q]}
    BY <2>1, AddScoreType
  <2> QED
    BY <2>2, <2>3, IdsPartition
<1>4. CASE w.lastPaddle[ball] = NoPaddle
  BY <1>2, <1>4 DEF ContactBrick
<1> QED
  BY <1>3, <1>4

\* What a locked step of the main thread of i does to its world w: it breaks bricks and
\* marks them, repairs none, and takes only broken ones out of the physics.
Breaks(i, w, v) ==
    /\ v.known = w.known
    /\ Gone(w) \subseteq Gone(v) /\ Gone(v) \subseteq Gone(w) \cup v.updated
    /\ w.updated \cap Bricks \subseteq v.updated /\ v.updated \cap Bricks \subseteq w.updated \cup Gone(v)
    /\ w.enabled \ v.enabled \subseteq Gone(v)
    /\ Unarmed(i, w) => v.updated \cap Bricks \subseteq w.updated

LEMMA MainWorld ==
    ASSUME TypeOK, RolesInv, NEW i \in Instances,
           Physics(i) \/ DisableBrick(i) \/ EndDisabledContact(i) \/ StepLock(i)
    PROVE  /\ UNCHANGED <<thread, net, inbox>>
           /\ \E v : world' = [world EXCEPT ![i] = v] /\ Breaks(i, world[i], v)
<1>1. world[i] \in World /\ Roles(i, world[i])
  BY DEF TypeOK, RolesInv, WorldRoles
<1>2. UNCHANGED <<thread, net, inbox>>
  BY DEF Physics, BallHitsBrick, BallHitsPaddle, BallHitsPlate, StepContact, DisableBrick,
         EndDisabledContact, StepLock
<1>3. /\ \A ball \in Balls, b \in Bricks \cap world[i].known :
            Breaks(i, world[i], ContactBrick(world[i], ball, b))
      /\ \A ball \in Balls, p \in Paddles :
            /\ Breaks(i, world[i], ContactPaddle(world[i], ball, p))
            /\ Breaks(i, world[i], ContactPlate(world[i], ball, p))
  <2>1. ASSUME NEW ball \in Balls, NEW b \in Bricks \cap world[i].known
        PROVE  Breaks(i, world[i], ContactBrick(world[i], ball, b))
    <3> DEFINE v == ContactBrick(world[i], ball, b)
    <3>1. v.known = world[i].known
      BY <1>1, ContactBrickType
    <3>2. /\ Gone(world[i]) \subseteq Gone(v) /\ v.enabled = world[i].enabled
          /\ Gone(v) \subseteq Gone(world[i]) \cup v.updated
          /\ v.updated \cap Bricks \subseteq world[i].updated \cup Gone(v)
          /\ world[i].updated \subseteq v.updated
      BY <1>1, ContactGone
    <3>3. Unarmed(i, world[i]) => v.updated \cap Bricks \subseteq world[i].updated
      BY <1>1, UnarmedContact
    <3> HIDE DEF v
    <3>4. Breaks(i, world[i], v)
      BY <3>1, <3>2, <3>3 DEF Breaks
    <3> QED
      BY <3>4 DEF v
  <2>2. ASSUME NEW ball \in Balls, NEW p \in Paddles
        PROVE  /\ Breaks(i, world[i], ContactPaddle(world[i], ball, p))
               /\ Breaks(i, world[i], ContactPlate(world[i], ball, p))
    <3> DEFINE v == ContactPaddle(world[i], ball, p)
               u == ContactPlate(world[i], ball, p)
    <3>1. v.known = world[i].known /\ u.known = world[i].known
      BY <1>1, ContactPaddleType, ContactPlateType
    <3>2. /\ Gone(v) = Gone(world[i]) /\ v.enabled = world[i].enabled
          /\ v.updated \cap Bricks = world[i].updated \cap Bricks
      BY <1>1, ContactGone
    <3>3. /\ Gone(u) = Gone(world[i]) /\ u.enabled = world[i].enabled
          /\ u.updated \cap Bricks = world[i].updated \cap Bricks
      BY <1>1, ContactGone
    <3> HIDE DEF v, u
    <3>4. Breaks(i, world[i], v) /\ Breaks(i, world[i], u)
      BY <3>1, <3>2, <3>3 DEF Breaks
    <3> QED
      BY <3>4 DEF v, u
  <2> QED
    BY <2>1, <2>2
<1>4. CASE Physics(i)
  <2>1. PICK ball \in Balls \cap world[i].known :
          \/ \E b \in Bricks \cap world[i].known :
                StepContact(i, ContactBrick(world[i], ball, b))
          \/ \E p \in Paddles \cap world[i].known :
                StepContact(i, ContactPaddle(world[i], ball, p))
          \/ \E p \in Paddles :
                StepContact(i, ContactPlate(world[i], ball, p))
    BY <1>4, PhysicsWorld
  <2>2. \A v : StepContact(i, v) => world' = [world EXCEPT ![i] = v]
    BY DEF StepContact
  <2> QED
    BY <1>2, <1>3, <2>1, <2>2
<1>5. CASE EndDisabledContact(i)
  <2>1. PICK c \in ending[i] : world' = [world EXCEPT ![i] = ContactBrick(@, c[1], c[2])]
    BY <1>5 DEF EndDisabledContact
  <2>2. c[1] \in Balls /\ c[2] \in Bricks \cap world[i].known
    BY DEF TypeOK, RolesInv, EndingKnown
  <2>3. world' = [world EXCEPT ![i] = ContactBrick(world[i], c[1], c[2])]
    BY <2>1
  <2> QED
    BY <1>2, <1>3, <2>2, <2>3
<1>6. CASE DisableBrick(i)
  <2>1. PICK b \in ToDisable(i, pc[i]) : world' = [world EXCEPT ![i].enabled = @ \ {b}]
    BY <1>6 DEF DisableBrick
  <2>2. b \in Gone(world[i])
    BY <1>1 DEF ToDisable, Gone, World
  <2> DEFINE v == [world[i] EXCEPT !.enabled = @ \ {b}]
  <2>3. /\ v.known = world[i].known /\ v.duration = world[i].duration
        /\ v.updated = world[i].updated /\ v.enabled = world[i].enabled \ {b}
    BY <1>1 DEF World
  <2>4. world' = [world EXCEPT ![i] = v]
    BY <2>1
  <2> HIDE DEF v
  <2>5. Gone(v) = Gone(world[i])
    BY <2>3 DEF Gone
  <2>6. Breaks(i, world[i], v)
    BY <2>2, <2>3, <2>5 DEF Breaks
  <2> QED
    BY <1>2, <2>4, <2>6
<1>7. CASE StepLock(i)
  <2>1. PICK marked \in SUBSET Paddles :
          \/ world' = world /\ marked = {}
          \/ world' = [world EXCEPT ![i].updated = @ \cup marked]
    <3>1. FindPaddlePtrs(world[i], ptrs[i]).your \in Paddles \cup {NoPaddle}
      BY <1>1, FindPaddlePtrsType DEF TypeOK
    <3>2. \/ world' = world
          \/ /\ FindPaddlePtrs(world[i], ptrs[i]).your # NoPaddle
             /\ world' = [world EXCEPT ![i].updated =
                             @ \cup {FindPaddlePtrs(world[i], ptrs[i]).your}]
      BY <1>7 DEF StepLock
    <3> QED
      BY <3>1, <3>2
  <2> DEFINE v == [world[i] EXCEPT !.updated = @ \cup marked]
  <2>2. /\ v.known = world[i].known /\ v.duration = world[i].duration
        /\ v.updated = world[i].updated \cup marked /\ v.enabled = world[i].enabled
    BY <1>1 DEF World
  <2>3. world' = [world EXCEPT ![i] = v] \/ world' = [world EXCEPT ![i] = world[i]]
    BY <2>1 DEF TypeOK
  <2> HIDE DEF v
  <2>4. Gone(v) = Gone(world[i]) /\ v.updated \cap Bricks = world[i].updated \cap Bricks
    BY <2>2, IdsPartition DEF Gone
  <2>5. Breaks(i, world[i], v) /\ Breaks(i, world[i], world[i])
    BY <2>2, <2>4 DEF Breaks
  <2> QED
    BY <1>2, <2>3, <2>5
<1> QED
  BY <1>4, <1>5, <1>6, <1>7

\* No brick is repaired, and only broken ones leave the physics.
Forward(w, v) == Gone(w) \subseteq Gone(v) /\ w.enabled \ v.enabled \subseteq Gone(v)

LEMMA SureFacts ==
    ASSUME NEW i \in Instances
    PROVE  /\ SureOf(i) \subseteq Gone(world[i])
           /\ AwaitsOf(i) => SureOf(i) = {} /\ i = "client"
           /\ ~AwaitsOf(i) => SureOf(i) = Gone(world[i])
           /\ i = "host" => ~AwaitsOf(i)
BY DEF SureOf, Sure, AwaitsOf, Awaits

\* The element that the reader of i parses next, as the invariant knows it.
LEMMA ParsedBrick ==
    ASSUME TypeOK, BrickInv, NEW i \in Instances, NEW g \in inbox[i]
    PROVE  \/ Tame(SureOf(Peer(i)), g) /\ Tame(Gone(world[Peer(i)]), g)
           \/ /\ i = "client" /\ Peer(i) = "host" /\ g.id \in Bricks /\ g.duration > 0
              /\ OwnPaddle(i) \in world[i].known \cup IdsOf(inbox[i])
              /\ InitialFirst => g.id \notin world[i].known
              /\ AwaitsOf(i)
<1>1. Peer(i) \in Instances /\ Peer(Peer(i)) = i /\ PeerPaddle(Peer(i)) = OwnPaddle(i)
  BY InstancesType DEF PeerPaddle
<1>2. Way(Peer(i), SureOf(Peer(i)), Msgs(thread[Peer(i)]), net[i], inbox[i], world[i].known)
  BY <1>1 DEF BrickInv, WayOf
<1>3. Tame(SureOf(Peer(i)), g) => Tame(Gone(world[Peer(i)]), g)
  BY <1>1, SureFacts, TameFacts
<1>4. CASE Tame(SureOf(Peer(i)), g)
  BY <1>3, <1>4
<1>5. CASE ~Tame(SureOf(Peer(i)), g)
  <2>1. /\ Peer(i) = "host" /\ g.id \in Bricks /\ g.duration > 0
        /\ OwnPaddle(i) \in world[i].known \cup IdsOf(inbox[i])
        /\ InitialFirst => g.id \notin world[i].known
    BY <1>1, <1>2, <1>5 DEF Way, Tame
  <2>2. i = "client"
    BY <2>1 DEF Peer, Instances
  <2>3. AwaitsOf(i)
    BY <2>1, <2>2 DEF AwaitsOf, Awaits, Repairs
  <2> QED
    BY <2>1, <2>2, <2>3
<1> QED
  BY <1>4, <1>5

\* No step but that of its reader repairs a brick of an instance.
LEMMA UnparsedForward ==
    ASSUME TypeOK, RolesInv, BrickInv, Next, NEW j \in Instances, ~ParseElement(j)
    PROVE  Forward(world[j], world'[j])
<1>1. world[j] \in World
  BY DEF TypeOK
<1>2. Forward(world[j], world[j])
  BY DEF Forward
<1>3. ASSUME NEW i \in Instances, NEW v, world' = [world EXCEPT ![i] = v], Forward(world[i], v)
      PROVE  Forward(world[j], world'[j])
  BY <1>2, <1>3 DEF TypeOK
<1>4. ASSUME NEW i \in Instances,
             Physics(i) \/ DisableBrick(i) \/ EndDisabledContact(i) \/ StepLock(i)
      PROVE  Forward(world[j], world'[j])
  <2>1. PICK v : world' = [world EXCEPT ![i] = v] /\ Breaks(i, world[i], v)
    BY <1>4, MainWorld
  <2> QED
    BY <1>3, <2>1 DEF Breaks, Forward
<1>5. ASSUME NEW i \in Instances, StepUnlock(i)
      PROVE  Forward(world[j], world'[j])
  <2> DEFINE v == [world[i] EXCEPT !.updated = {}]
  <2>1. world' = [world EXCEPT ![i] = v]
    BY <1>5 DEF StepUnlock
  <2>2. v.known = world[i].known /\ v.duration = world[i].duration /\ v.enabled = world[i].enabled
    BY DEF TypeOK, World
  <2> HIDE DEF v
  <2>3. Forward(world[i], v)
    BY <2>2 DEF Forward, Gone
  <2> QED
    BY <1>3, <2>1, <2>3
<1>6. ASSUME NEW i \in Instances, Generate(i)
      PROVE  Forward(world[j], world'[j])
  <2>1. PICK d : world' = [world EXCEPT ![i] = GeneratedWorld(d)]
    BY <1>6 DEF Generate
  <2>2. i = "host" /\ pc["host"] = "setup"
    BY <1>6 DEF Generate, GoTo, RolesInv, SetupByHost
  <2>3. Gone(world[i]) = {}
    BY <2>2 DEF BrickInv, HostSetup, Gone
  <2>4. GeneratedWorld(d).enabled = Bricks /\ world[i].enabled \subseteq Bricks
    BY DEF GeneratedWorld, EmptyWorld, TypeOK, World
  <2> QED
    BY <1>3, <2>1, <2>3, <2>4 DEF Forward
<1>7. ASSUME NEW i \in Instances, ParseElement(i)
      PROVE  Forward(world[j], world'[j])
  <2>1. PICK g \in inbox[i] : world' = [world EXCEPT ![i] = ParseGameElement(world[i], g)]
    BY <1>7, ParseStep
  <2>2. i # j
    BY <1>7
  <2> QED
    BY <1>2, <2>1, <2>2 DEF TypeOK
<1>8. ASSUME world' = world
      PROVE  Forward(world[j], world'[j])
  BY <1>2, <1>8
<1> QED
  BY <1>4, <1>5, <1>6, <1>7, <1>8, WorldKept DEF Next, Main, Reader, Terminating, vars

LEMMA WorldForward ==
    ASSUME TypeOK, RolesInv, BrickInv, Next, NEW j \in Instances, InitialFirst \/ ~AwaitsOf(j)
    PROVE  Forward(world[j], world'[j])
<1>1. CASE ParseElement(j)
  <2>1. PICK g \in inbox[j] : /\ world'[j] = ParseGameElement(world[j], g)
                              /\ world[j] \in World
    BY <1>1, ParseStep
  <2>2. inbox[j] \in GameUpdate
    BY DEF TypeOK
  <2>3. \/ Tame(Gone(world[Peer(j)]), g)
        \/ g.duration > 0 /\ g.id \notin world[j].known
    BY ParsedBrick
  <2> QED
    BY <2>1, <2>2, <2>3, ParseGone DEF Forward
<1>2. CASE ~ParseElement(j)
  BY <1>2, UnparsedForward
<1> QED
  BY <1>1, <1>2

\* A brick of an instance that is repaired was told in vain to be broken.
LEMMA RepairForgotten ==
    ASSUME TypeOK, RolesInv, BrickInv, Next, NEW j \in Instances,
           NEW b \in Gone(world[j]), b \notin Gone(world'[j])
    PROVE  b \in forgotten'[j]
<1>1. ParseElement(j)
  BY UnparsedForward DEF Forward
<1>2. PICK g \in inbox[j] : /\ world'[j] = ParseGameElement(world[j], g)
                            /\ world[j] \in World /\ g \in GameElement
  BY <1>1, ParseStep
<1>3. world'[j] \in World /\ b \in world'[j].known
  BY <1>2, ParseGameElementType DEF Gone
<1>4. BrickExists(world'[j], b)
  BY <1>3 DEF BrickExists, Gone, World
<1>5. b \in Repaired(world[j], world'[j])
  BY <1>4 DEF Repaired, Gone
<1>6. forgotten' = [forgotten EXCEPT ![j] = @ \cup Repaired(world[j], world'[j])]
  BY <1>1 DEF ParseElement
<1> QED
  BY <1>5, <1>6 DEF TypeOK

-----------------------------------------------------------------------------
(* The invariant of the bricks                                             *)

LEMMA InitBricks == Init => BrickInv
<1> SUFFICES ASSUME Init PROVE BrickInv
  OBVIOUS
<1>1. ASSUME NEW i \in Instances
      PROVE  MarkedOf(SureOf(i), world[i], thread[i]) /\ WayOf(i)
  <2>1. /\ net[Peer(i)] = <<>> /\ inbox[Peer(i)] = {} /\ world[i].updated = {}
        /\ \A t \in Threads : Msgs(thread[i])[t] = {} /\ thread[i][t].todo = {}
    BY InstancesType DEF Init, EmptyWorld, Msgs, IdleThread
  <2>2. \A t \in Threads : /\ ~IsInitial(i, Msgs(thread[i])[t])
                           /\ TameMsg(SureOf(i), Msgs(thread[i])[t])
    BY <2>1, InitialFacts, TameFacts
  <2>3. DOMAIN <<>> = {}
    OBVIOUS
  <2> QED
    BY <2>1, <2>2, <2>3 DEF MarkedOf, WayOf, Way
<1>2. HostSetup
  BY DEF Init, HostSetup, EmptyWorld, IdleThread, Instances
<1>3. Awaiting
  BY DEF Init, Awaiting, OnlyGone, Gone, EmptyWorld, Instances
<1> QED
  BY <1>1, <1>2, <1>3 DEF BrickInv

\* What is sure to stay broken grows, as long as no wait begins.
LEMMA SureGrows ==
    ASSUME NEW i \in Instances, AwaitsOf(i)' => AwaitsOf(i),
           ~AwaitsOf(i) => Gone(world[i]) \subseteq Gone(world'[i])
    PROVE  SureOf(i) \subseteq SureOf(i)'
BY DEF SureOf, Sure

\* A wait ends only with what the reader parses.
LEMMA AwaitsKept ==
    ASSUME NEW i \in Instances, world'[i].known = world[i].known, inbox'[i] = inbox[i]
    PROVE  AwaitsOf(i)' <=> AwaitsOf(i)
BY DEF AwaitsOf

LEMMA SameSure ==
    ASSUME Awaiting, UNCHANGED <<world, inbox>>
    PROVE  Awaiting' /\ \A i \in Instances : SureOf(i)' = SureOf(i)
BY DEF Awaiting, AwaitsOf, OnlyGone, SureOf

\* The main thread of a waiting instance works while nothing is parsed.
LEMMA MainUnarmed ==
    ASSUME LockInv, BrickInv, NEW i \in Instances, AwaitsOf(i),
           Physics(i) \/ DisableBrick(i) \/ EndDisabledContact(i) \/ StepLock(i)
    PROVE  Unarmed(i, world[i])
<1>1. elementMutex[i] # "reader"
  BY DEF LockInv, Physics, BallHitsBrick, BallHitsPaddle, BallHitsPlate, StepContact,
         DisableBrick, EndDisabledContact, StepLock, LockElements
<1>2. inbox[i] = {} /\ i = "client"
  BY <1>1 DEF LockInv, AwaitsOf, Awaits
<1>3. Repairs(inbox[i]) = {}
  BY <1>2 DEF Repairs
<1>4. OwnPaddle(i) \notin world[i].known
  BY <1>3 DEF AwaitsOf, Awaits
<1> QED
  BY <1>2, <1>4 DEF BrickInv, Awaiting, OnlyGone, Unarmed

\* A step that moves no update and makes no element known.
LEMMA QuietBricks ==
    ASSUME BrickInv, UNCHANGED <<thread, net, inbox>>,
           \A j \in Instances : pc'[j] = "setup" <=> pc[j] = "setup",
           \A j \in Instances : /\ world'[j].known = world[j].known
                                /\ Gone(world[j]) \subseteq Gone(world'[j])
                                /\ world'[j].updated \cap Bricks \subseteq Sure(AwaitsOf(j), world'[j])
                                /\ AwaitsOf(j) => Gone(world'[j]) \subseteq Gone(world[j])
    PROVE  BrickInv'
<1>1. HostSetup'
  BY DEF BrickInv, HostSetup, Instances
<1>2. ASSUME NEW j \in Instances
      PROVE  /\ AwaitsOf(j)' <=> AwaitsOf(j)
             /\ SureOf(j)' = Sure(AwaitsOf(j), world'[j])
             /\ SureOf(j) \subseteq SureOf(j)'
  <2>1. AwaitsOf(j)' <=> AwaitsOf(j)
    BY AwaitsKept
  <2> QED
    BY <2>1, SureGrows DEF SureOf, Sure
<1>3. ASSUME NEW j \in Instances
      PROVE  MarkedOf(SureOf(j), world[j], thread[j])' /\ WayOf(j)'
  <2>1. MarkedOf(SureOf(j), world[j], thread[j])'
    BY <1>2 DEF BrickInv, MarkedOf
  <2>2. Way(j, SureOf(j), Msgs(thread[j]), net[Peer(j)], inbox[Peer(j)], world[Peer(j)].known)
    BY DEF BrickInv, WayOf
  <2>3. SureOf(j) \subseteq SureOf(j)'
    BY <1>2
  <2>4. Way(j, SureOf(j)', Msgs(thread[j]), net[Peer(j)], inbox[Peer(j)], world[Peer(j)].known)
    BY <2>2, <2>3, ThreadWay
  <2>5. world'[Peer(j)].known = world[Peer(j)].known
    BY InstancesType
  <2> QED
    BY <2>1, <2>4, <2>5 DEF WayOf
<1>4. Awaiting'
  <2> SUFFICES ASSUME AwaitsOf("client")'
               PROVE  /\ Gone(world'["client"]) \subseteq Gone(world'["host"])
                      /\ OnlyGone("client", world'["client"])
    BY DEF Awaiting
  <2>1. "client" \in Instances /\ "host" \in Instances
    BY DEF Instances
  <2>2. AwaitsOf("client")
    BY <1>2, <2>1
  <2>3. /\ Gone(world["client"]) \subseteq Gone(world["host"])
        /\ OnlyGone("client", world["client"])
    BY <2>2 DEF BrickInv, Awaiting
  <2>4. Gone(world["host"]) \subseteq Gone(world'["host"])
    BY <2>1
  <2>5. Gone(world["client"]) \subseteq Gone(world'["client"])
    BY <2>1
  <2>6. Gone(world'["client"]) \subseteq Gone(world["client"])
    BY <2>1, <2>2
  <2>7. world'["client"].known = world["client"].known
    BY <2>1
  <2> QED
    BY <2>3, <2>4, <2>5, <2>6, <2>7 DEF OnlyGone
<1> QED
  BY <1>1, <1>3, <1>4 DEF BrickInv

LEMMA MainBricks ==
    ASSUME TypeOK, RolesInv, LockInv, BrickInv, NEW i \in Instances,
           Physics(i) \/ DisableBrick(i) \/ EndDisabledContact(i) \/ StepLock(i)
    PROVE  BrickInv'
<1>1. PICK v : world' = [world EXCEPT ![i] = v] /\ Breaks(i, world[i], v)
  BY MainWorld
<1>2. UNCHANGED <<thread, net, inbox>>
  BY MainWorld
<1>3. world'[i] = v /\ \A j \in Instances \ {i} : world'[j] = world[j]
  BY <1>1 DEF TypeOK
<1>4. \A j \in Instances : world[j].updated \cap Bricks \subseteq Sure(AwaitsOf(j), world[j])
  BY DEF BrickInv, MarkedOf, SureOf
<1>5. /\ v.known = world[i].known /\ Gone(world[i]) \subseteq Gone(v)
      /\ v.updated \cap Bricks \subseteq Sure(AwaitsOf(i), v)
      /\ AwaitsOf(i) => Gone(v) \subseteq Gone(world[i])
  <2>1. CASE AwaitsOf(i)
    <3>1. v.updated \cap Bricks \subseteq world[i].updated
      BY <1>1, <2>1, MainUnarmed DEF Breaks
    <3>2. world[i].updated \cap Bricks = {}
      BY <1>4, <2>1 DEF Sure
    <3>3. v.updated \cap Bricks = {}
      BY <3>1, <3>2
    <3>4. Gone(v) \subseteq Gone(world[i])
      BY <1>1, <3>3 DEF Breaks, Gone
    <3> QED
      BY <1>1, <3>3, <3>4 DEF Breaks
  <2>2. CASE ~AwaitsOf(i)
    BY <1>1, <1>4, <2>2 DEF Breaks, Sure
  <2> QED
    BY <2>1, <2>2
<1>6. \A j \in Instances : /\ world'[j].known = world[j].known
                           /\ Gone(world[j]) \subseteq Gone(world'[j])
                           /\ world'[j].updated \cap Bricks \subseteq Sure(AwaitsOf(j), world'[j])
                           /\ AwaitsOf(j) => Gone(world'[j]) \subseteq Gone(world[j])
  BY <1>3, <1>4, <1>5
<1> QED
  BY <1>2, <1>6, SetupKept, QuietBricks

LEMMA MainStepBricks ==
    ASSUME TypeOK, BrickInv, NEW i \in Instances,
           \/ Draw(i) \/ DrawLock(i) \/ DrawUnlock(i) \/ SkipCheck(i) \/ Check(i) \/ CheckLock(i)
           \/ CheckUnlock(i) \/ Quit(i) \/ Close(i)
    PROVE  BrickInv'
<1>1. UNCHANGED <<world, thread, net, inbox>>
  BY DEF Draw, DrawLock, DrawUnlock, SkipCheck, Check, CheckLock, CheckUnlock, Quit, Close
<1>2. \A j \in Instances : /\ world'[j].known = world[j].known
                           /\ Gone(world[j]) \subseteq Gone(world'[j])
                           /\ world'[j].updated \cap Bricks \subseteq Sure(AwaitsOf(j), world'[j])
                           /\ AwaitsOf(j) => Gone(world'[j]) \subseteq Gone(world[j])
  BY <1>1 DEF BrickInv, MarkedOf, SureOf
<1> QED
  BY <1>1, <1>2, SetupKept, QuietBricks

\* A step that replaces one update of i by itself or by a tame one.
LEMMA ThreadBricks ==
    ASSUME TypeOK, BrickInv, NEW i \in Instances, NEW t \in Threads, NEW u,
           pc["host"] # "setup" \/ i # "host",
           thread' = [thread EXCEPT ![i][t] = u], UNCHANGED <<net, inbox>>,
           u.todo \cap Bricks \subseteq SureOf(i),
           u.msg = thread[i][t].msg \/ (~IsInitial(i, u.msg) /\ TameMsg(SureOf(i), u.msg)),
           \A j \in Instances : pc'[j] = "setup" <=> pc[j] = "setup",
           \A j \in Instances : /\ world'[j].known = world[j].known
                                /\ Gone(world'[j]) = Gone(world[j])
                                /\ world'[j].updated \subseteq world[j].updated
    PROVE  BrickInv'
<1>1. /\ thread'[i][t] = u
      /\ \A j \in Instances : \A s \in Threads : j # i \/ s # t => thread'[j][s] = thread[j][s]
  BY DEF TypeOK
<1>2. HostSetup'
  BY <1>1 DEF BrickInv, HostSetup, Instances
<1>3. \A j \in Instances : (AwaitsOf(j)' <=> AwaitsOf(j)) /\ SureOf(j)' = SureOf(j)
  <2> SUFFICES ASSUME NEW j \in Instances
               PROVE  (AwaitsOf(j)' <=> AwaitsOf(j)) /\ SureOf(j)' = SureOf(j)
    OBVIOUS
  <2>1. AwaitsOf(j)' <=> AwaitsOf(j)
    BY AwaitsKept
  <2> QED
    BY <2>1 DEF SureOf, Sure
<1>4. ASSUME NEW j \in Instances
      PROVE  MarkedOf(SureOf(j), world[j], thread[j])' /\ WayOf(j)'
  <2>1. MarkedOf(SureOf(j), world[j], thread[j])'
    <3>1. \A s \in Threads : thread[j][s].todo \cap Bricks \subseteq SureOf(j)
      BY DEF BrickInv, MarkedOf
    <3>2. \A s \in Threads : thread'[j][s].todo \cap Bricks \subseteq SureOf(j)
      BY <1>1, <3>1
    <3>3. world'[j].updated \cap Bricks \subseteq SureOf(j)
      BY DEF BrickInv, MarkedOf
    <3> QED
      BY <1>3, <3>2, <3>3 DEF MarkedOf
  <2>2. Way(j, SureOf(j), Msgs(thread[j]), net[Peer(j)], inbox[Peer(j)], world[Peer(j)].known)
    BY DEF BrickInv, WayOf
  <2>3. \A s \in Threads :
          \/ Msgs(thread'[j])[s] = Msgs(thread[j])[s]
          \/ ~IsInitial(j, Msgs(thread'[j])[s]) /\ TameMsg(SureOf(j), Msgs(thread'[j])[s])
    BY <1>1 DEF Msgs
  <2>4. Way(j, SureOf(j), Msgs(thread'[j]), net[Peer(j)], inbox[Peer(j)], world[Peer(j)].known)
    BY <2>2, <2>3, ThreadWay
  <2>5. world'[Peer(j)].known = world[Peer(j)].known
    BY InstancesType
  <2> QED
    BY <1>3, <2>1, <2>4, <2>5 DEF WayOf
<1>5. Awaiting'
  <2>1. "client" \in Instances /\ "host" \in Instances
    BY DEF Instances
  <2> QED
    BY <1>3, <2>1 DEF BrickInv, Awaiting, OnlyGone
<1> QED
  BY <1>2, <1>4, <1>5 DEF BrickInv

LEMMA StepUnlockBricks ==
    ASSUME TypeOK, RolesInv, BrickInv, NEW i \in Instances, StepUnlock(i)
    PROVE  BrickInv'
<1> DEFINE u == [pc |-> "start", todo |-> world[i].updated, msg |-> {}]
           v == [world[i] EXCEPT !.updated = {}]
<1>1. /\ UNCHANGED <<net, inbox>> /\ world' = [world EXCEPT ![i] = v]
      /\ UNCHANGED thread \/ \E t \in Threads : thread' = [thread EXCEPT ![i][t] = u]
  BY DEF StepUnlock
<1>2. /\ v.known = world[i].known /\ v.duration = world[i].duration /\ v.updated = {}
      /\ u.todo = world[i].updated /\ u.msg = {}
  BY DEF TypeOK, World
<1> HIDE DEF u, v
<1>3. Gone(v) = Gone(world[i])
  BY <1>2 DEF Gone
<1>4. \A j \in Instances : /\ world'[j].known = world[j].known
                           /\ Gone(world'[j]) = Gone(world[j])
                           /\ world'[j].updated \subseteq world[j].updated
  BY <1>1, <1>2, <1>3 DEF TypeOK
<1>5. \A j \in Instances : world[j].updated \cap Bricks \subseteq SureOf(j)
  BY DEF BrickInv, MarkedOf
<1>6. (\A j \in Instances : pc'[j] = "setup" <=> pc[j] = "setup") /\ pc[i] # "setup"
  BY SetupKept DEF StepUnlock, GoTo
<1>7. CASE UNCHANGED thread
  <2>1. \A j \in Instances : world'[j].updated \cap Bricks \subseteq Sure(AwaitsOf(j), world'[j])
    BY <1>4, <1>5 DEF SureOf, Sure
  <2> QED
    BY <1>1, <1>4, <1>6, <1>7, <2>1, QuietBricks
<1>8. ASSUME NEW t \in Threads, thread' = [thread EXCEPT ![i][t] = u]
      PROVE  BrickInv'
  <2>1. ~IsInitial(i, u.msg) /\ TameMsg(SureOf(i), u.msg)
    BY <1>2, InitialFacts, TameFacts
  <2>2. pc["host"] # "setup" \/ i # "host"
    BY <1>6
  <2>3. u.todo \cap Bricks \subseteq SureOf(i)
    BY <1>2, <1>5
  <2>4. UNCHANGED <<net, inbox>> /\ (\A j \in Instances : pc'[j] = "setup" <=> pc[j] = "setup")
    BY <1>1, <1>6
  <2> QED
    BY <1>4, <1>8, <2>1, <2>2, <2>3, <2>4, ThreadBricks
<1> QED
  BY <1>1, <1>7, <1>8

\* A thread that fills puts broken bricks into its update.
LEMMA FilledTame ==
    ASSUME NEW w \in World, NEW e \in Ids, NEW gone, gone \subseteq Gone(w),
           e \in Bricks => e \in gone
    PROVE  Tame(gone, FillGameElement(w, e))
<1>1. FillGameElement(w, e).id = e
  BY FillGameElementType
<1>2. e \in Bricks => FillGameElement(w, e).duration = w.duration[e]
  BY IdsPartition DEF FillGameElement
<1> QED
  BY <1>1, <1>2 DEF Tame, Gone

\* The threads of an update, but for the writing.
LEMMA FillBricks ==
    ASSUME TypeOK, BoardInv, BrickInv, NEW i \in Instances, NEW t \in Threads,
           \/ FillLock(i, t) \/ FillElement(i, t) \/ SendCall(i, t)
           \/ SetSending(i, t) \/ ClearSending(i, t)
    PROVE  BrickInv'
<1>1. /\ thread[i][t] \in UpdateThread /\ Honest(i, thread[i][t]) /\ world[i] \in World
      /\ thread[i][t].todo \cap Bricks \subseteq SureOf(i)
      /\ ~IsInitial(i, thread[i][t].msg) => TameMsg(SureOf(i), thread[i][t].msg)
  BY DEF TypeOK, BoardInv, SendersHonest, BrickInv, MarkedOf, WayOf, Way, Msgs
<1>2. UNCHANGED <<world, net, inbox>> /\ thread[i][t].pc # "idle"
  BY DEF FillLock, FillElement, SendCall, SetSending, ClearSending
<1>3. /\ \A j \in Instances : pc'[j] = "setup" <=> pc[j] = "setup"
      /\ pc["host"] # "setup" \/ i # "host"
  BY <1>2, SetupKept DEF Sender, BrickInv, HostSetup
<1>4. SUFFICES \E u : /\ thread' = [thread EXCEPT ![i][t] = u]
                      /\ u.todo \cap Bricks \subseteq SureOf(i)
                      /\ \/ u.msg = thread[i][t].msg
                         \/ ~IsInitial(i, u.msg) /\ TameMsg(SureOf(i), u.msg)
  <2>1. PICK u : /\ thread' = [thread EXCEPT ![i][t] = u]
                 /\ u.todo \cap Bricks \subseteq SureOf(i)
                 /\ \/ u.msg = thread[i][t].msg
                    \/ ~IsInitial(i, u.msg) /\ TameMsg(SureOf(i), u.msg)
    BY <1>4
  <2> QED
    BY <1>2, <1>3, <2>1, ThreadBricks
<1>5. /\ IdleThread.todo = {} /\ ~IsInitial(i, IdleThread.msg)
      /\ TameMsg(SureOf(i), IdleThread.msg)
  BY InitialFacts, TameFacts DEF IdleThread
<1>6. CASE FillElement(i, t)
  <2>1. PICK e \in thread[i][t].todo :
          thread' = [thread EXCEPT ![i][t].todo = @ \ {e},
                                   ![i][t].msg = @ \cup {FillGameElement(world[i], e)}]
    BY <1>6 DEF FillElement
  <2> DEFINE u == [thread[i][t] EXCEPT !.todo = @ \ {e},
                                       !.msg = @ \cup {FillGameElement(world[i], e)}]
  <2>2. thread' = [thread EXCEPT ![i][t] = u]
    BY <2>1 DEF TypeOK
  <2>3. /\ u.todo = thread[i][t].todo \ {e}
        /\ u.msg = thread[i][t].msg \cup {FillGameElement(world[i], e)}
    BY <1>1, <1>6 DEF UpdateThread, FillElement
  <2>4. e \in Ids /\ e # PeerPaddle(i) /\ (e \in Bricks => e \in SureOf(i))
        /\ ~IsInitial(i, thread[i][t].msg)
    BY <1>1, <1>6 DEF UpdateThread, Honest, FillElement
  <2>5. /\ Tame(SureOf(i), FillGameElement(world[i], e))
        /\ FillGameElement(world[i], e).id # PeerPaddle(i)
    BY <1>1, <2>4, FilledTame, FillGameElementType, SureFacts
  <2> HIDE DEF u
  <2>6. ~IsInitial(i, u.msg) /\ TameMsg(SureOf(i), u.msg)
    BY <1>1, <2>3, <2>4, <2>5, InitialFacts DEF TameMsg
  <2> QED
    BY <1>1, <2>2, <2>3, <2>6
<1>7. CASE FillLock(i, t) \/ SetSending(i, t) \/ SendCall(i, t)
  <2>1. PICK q : \/ thread' = [thread EXCEPT ![i][t] = [thread[i][t] EXCEPT !.pc = q]]
                 \/ thread' = [thread EXCEPT ![i][t] = IdleThread]
    <3>1. CASE FillLock(i, t) \/ SetSending(i, t)
      BY <3>1 DEF FillLock, SetSending, TypeOK
    <3>2. CASE SendCall(i, t)
      BY <3>2 DEF SendCall, TypeOK
    <3> QED
      BY <1>7, <3>1, <3>2
  <2> DEFINE u == [thread[i][t] EXCEPT !.pc = q]
  <2>2. u.todo = thread[i][t].todo /\ u.msg = thread[i][t].msg
    BY <1>1 DEF UpdateThread
  <2> HIDE DEF u
  <2> QED
    BY <1>1, <1>5, <2>1, <2>2 DEF u
<1>8. CASE ClearSending(i, t)
  BY <1>5, <1>8 DEF ClearSending
<1> QED
  BY <1>6, <1>7, <1>8

\* The writing of an update, which may have to wait for the board.
LEMMA WriteBricks ==
    ASSUME TypeOK, BoardInv, BrickInv, NEW i \in Instances, NEW t \in Threads,
           Write(i, t)
    PROVE  BrickInv'
<1> DEFINE u == [thread[i][t] EXCEPT !.pc = "clear", !.msg = {}]
<1>1. /\ thread[i][t] \in UpdateThread /\ \A s \in Threads : Honest(i, thread[i][s])
      /\ thread[i][t].todo \cap Bricks \subseteq SureOf(i)
  BY DEF TypeOK, BoardInv, SendersHonest, BrickInv, MarkedOf
<1>2. /\ UNCHANGED <<world, pc, inbox>> /\ thread' = [thread EXCEPT ![i][t] = u]
      /\ thread[i][t].pc = "write"
      /\ net' = net \/ net' = [net EXCEPT ![Peer(i)] = Append(@, thread[i][t].msg)]
      /\ InitialFirst => ~Overtakes(i, t)
  BY DEF Write
<1>3. u.msg = {} /\ u.todo = thread[i][t].todo
  BY <1>1 DEF UpdateThread
<1> HIDE DEF u
<1>4. /\ ~IsInitial(i, u.msg) /\ TameMsg(SureOf(i), u.msg)
      /\ pc["host"] # "setup" \/ i # "host"
  BY <1>2, <1>3, InitialFacts, TameFacts DEF BrickInv, HostSetup
<1>5. CASE net' = net
  BY <1>1, <1>2, <1>3, <1>4, <1>5, ThreadBricks DEF BrickInv, MarkedOf
<1>6. Awaiting' /\ \A j \in Instances : SureOf(j)' = SureOf(j)
  BY <1>2, SameSure DEF BrickInv
<1>7. CASE net' = [net EXCEPT ![Peer(i)] = Append(@, thread[i][t].msg)]
  <2>1. /\ thread'[i][t] = u
        /\ \A j \in Instances : \A s \in Threads : j # i \/ s # t => thread'[j][s] = thread[j][s]
        /\ \A j \in Instances \ {i} : thread'[j] = thread[j]
        /\ \A j \in Instances \ {i} : net'[Peer(j)] = net[Peer(j)]
        /\ net'[Peer(i)] = Append(net[Peer(i)], thread[i][t].msg)
    BY <1>2, <1>7, InstancesType DEF TypeOK
  <2>2. HostSetup'
    <3>1. pc["host"] = "setup" => i # "host"
      BY <1>4
    <3>2. i # "host" => net'["client"] = net["client"]
      BY <2>1 DEF Peer, Instances
    <3> QED
      BY <1>2, <2>1, <3>1, <3>2 DEF BrickInv, HostSetup, Instances
  <2>3. \A j \in Instances : MarkedOf(SureOf(j), world[j], thread[j])'
    <3>1. \A j \in Instances : \A s \in Threads : thread'[j][s].todo = thread[j][s].todo
      BY <1>3, <2>1
    <3> QED
      BY <1>2, <1>6, <3>1 DEF BrickInv, MarkedOf
  <2>4. ASSUME NEW j \in Instances
        PROVE  WayOf(j)'
    <3>1. Way(j, SureOf(j), Msgs(thread[j]), net[Peer(j)], inbox[Peer(j)], world[Peer(j)].known)
      BY DEF BrickInv, WayOf
    <3>2. CASE j # i
      BY <1>2, <1>6, <2>1, <3>1, <3>2 DEF WayOf
    <3>3. CASE j = i
      <4> DEFINE next == Msgs(thread'[i])
                 msgs == Msgs(thread[i])
                 queue == net[Peer(i)]
      <4>1. /\ next[t] = {} /\ msgs[t] = thread[i][t].msg
            /\ \A s \in Threads \ {t} : next[s] = msgs[s]
        BY <1>3, <2>1 DEF Msgs
      <4>2. msgs[t] \in GameUpdate /\ queue \in Seq(GameUpdate)
        BY <1>1, <4>1, InstancesType DEF UpdateThread, TypeOK
      <4>3. InitialFirst => \A s \in Threads \ {t} : ~IsInitial(i, msgs[s])
        BY <1>1, <1>2 DEF Overtakes, Honest, Msgs
      <4>4. net'[Peer(i)] = Append(queue, msgs[t])
        BY <2>1, <4>1
      <4>5. Way(i, SureOf(i), msgs, queue, inbox[Peer(i)], world[Peer(i)].known)
        BY <3>1, <3>3
      <4> HIDE DEF next, msgs, queue
      <4>6. Way(i, SureOf(i), next, Append(queue, msgs[t]), inbox[Peer(i)],
                world[Peer(i)].known)
        BY <4>1, <4>2, <4>3, <4>5, WriteWay
      <4> QED
        BY <1>2, <1>6, <3>3, <4>4, <4>6 DEF WayOf, next
    <3> QED
      BY <3>2, <3>3
  <2> QED
    BY <1>6, <2>2, <2>3, <2>4 DEF BrickInv
<1> QED
  BY <1>2, <1>5, <1>7

\* Only the reader changes what is left to parse.
LEMMA InboxKept ==
    ASSUME NEW i \in Instances,
           \/ Main(i) \/ Physics(i) \/ Quit(i) \/ Close(i) \/ (\E t \in Threads : Sender(i, t))
           \/ Lose(i)
    PROVE  inbox' = inbox
<1>1. CASE Main(i)
  BY <1>1 DEF Main, Generate, Draw, DrawLock, DisableBrick, EndDisabledContact, DrawUnlock,
              StepLock, StepUnlock, SkipCheck, Check, CheckLock, CheckUnlock
<1>2. CASE Physics(i) \/ Quit(i) \/ Close(i) \/ Lose(i)
  BY <1>2 DEF Physics, BallHitsBrick, BallHitsPaddle, BallHitsPlate, StepContact, Quit, Close, Lose
<1>3. ASSUME NEW t \in Threads, Sender(i, t)
      PROVE  inbox' = inbox
  BY <1>3 DEF Sender, FillLock, FillElement, SendCall, SetSending, Write, ClearSending
<1> QED
  BY <1>1, <1>2, <1>3

\* The wait for the board ends for good: there is one board, and it brings the own paddle.
LEMMA AwaitsEnds ==
    ASSUME TypeOK, RolesInv, BoardInv, BrickInv, Next, NEW j \in Instances, ~AwaitsOf(j)
    PROVE  ~AwaitsOf(j)'
<1>1. CASE j = "host"
  BY <1>1 DEF AwaitsOf, Awaits
<1>2. CASE j = "client"
  <2>1. OwnPaddle(j) \in world[j].known /\ Repairs(inbox[j]) = {}
    BY <1>2 DEF AwaitsOf, Awaits
  <2>2. OwnPaddle(j) \in world'[j].known
    BY <2>1, KnownGrows
  <2>3. ASSUME ReaderLock(j)
        PROVE  Repairs(inbox'[j]) = {}
    <3>1. /\ "host" \in Instances /\ Peer("host") = j /\ PeerPaddle("host") = OwnPaddle(j)
          /\ net[j] \in Seq(GameUpdate)
      BY <1>2 DEF Instances, Peer, PeerPaddle, TypeOK
    <3>2. net[j] # <<>> /\ inbox'[j] = Head(net[j])
      BY <2>3 DEF ReaderLock, TypeOK
    <3>3. 1 \in DOMAIN net[j] /\ Head(net[j]) = net[j][1] /\ Head(net[j]) \in GameUpdate
      BY <3>1, <3>2
    <3>4. ~IsInitial("host", net[j][1])
      <4>1. Traffic("host", Made("host"), Msgs(thread["host"]), net[j], inbox[j], world[j].known)
        BY <3>1 DEF BoardInv, TrafficOf
      <4> QED
        BY <2>1, <3>1, <3>3, <4>1 DEF Traffic
    <3>5. TameMsg(SureOf("host"), Head(net[j]))
      <4>1. Way("host", SureOf("host"), Msgs(thread["host"]), net[j], inbox[j], world[j].known)
        BY <3>1 DEF BrickInv, WayOf
      <4> QED
        BY <3>3, <3>4, <4>1 DEF Way
    <3>6. \A g \in Head(net[j]) : g.id \in Bricks => g.duration \in Int /\ g.duration <= 0
      BY <3>3, <3>5, GameElementById DEF GameUpdate, TameMsg, Tame
    <3> QED
      BY <3>2, <3>6 DEF Repairs
  <2>4. ASSUME ParseElement(j)
        PROVE  Repairs(inbox'[j]) = {}
    <3>1. PICK g \in inbox[j] : inbox' = [inbox EXCEPT ![j] = inbox[j] \ {g}]
      BY <2>4, ParseStep
    <3> QED
      BY <2>1, <3>1 DEF TypeOK, Repairs
  <2>5. ASSUME NEW i \in Instances \ {j}, Reader(i)
        PROVE  inbox'[j] = inbox[j]
    BY <2>5 DEF Reader, ReaderLock, ParseElement, TypeOK
  <2>6. Repairs(inbox'[j]) = {}
    BY <2>1, <2>3, <2>4, <2>5, InboxKept DEF Next, Reader, Terminating, vars
  <2> QED
    BY <2>2, <2>6 DEF AwaitsOf, Awaits
<1> QED
  BY <1>1, <1>2 DEF Instances

LEMMA ReaderLockBricks ==
    ASSUME TypeOK, RolesInv, LockInv, BoardInv, BrickInv, NEW i \in Instances,
           ReaderLock(i) \/ Lose(i)
    PROVE  BrickInv'
<1>1. /\ UNCHANGED <<world, thread, pc>> /\ net[i] # <<>>
      /\ net' = [net EXCEPT ![i] = Tail(@)]
      /\ inbox' = inbox \/ (inbox[i] = {} /\ inbox' = [inbox EXCEPT ![i] = Head(net[i])])
  BY DEF ReaderLock, Lose, LockElements, LockInv
<1>2. HostSetup'
  BY <1>1 DEF BrickInv, HostSetup, TypeOK, Instances
<1>3. ASSUME NEW j \in Instances
      PROVE  (AwaitsOf(j)' <=> AwaitsOf(j)) /\ SureOf(j)' = SureOf(j)
  <2>1. Next
    BY DEF Next, Reader
  <2>2. ~AwaitsOf(j) => ~AwaitsOf(j)'
    BY <2>1, AwaitsEnds
  <2>3. inbox'[j] = inbox[j] \/ inbox[j] = {}
    BY <1>1 DEF TypeOK
  <2>4. AwaitsOf(j) => AwaitsOf(j)'
    BY <1>1, <2>3 DEF AwaitsOf, Awaits, Repairs
  <2> QED
    BY <1>1, <2>2, <2>4 DEF SureOf, Sure
<1>4. Awaiting'
  BY <1>1, <1>3 DEF BrickInv, Awaiting, OnlyGone, Instances
<1>5. ASSUME NEW j \in Instances
      PROVE  WayOf(j)'
  <2>1. /\ Peer(j) \in Instances /\ net[Peer(j)] \in Seq(GameUpdate)
        /\ Way(j, SureOf(j), Msgs(thread[j]), net[Peer(j)], inbox[Peer(j)],
               world[Peer(j)].known)
    BY InstancesType DEF TypeOK, BrickInv, WayOf
  <2>2. Way(j, SureOf(j), Msgs(thread[j]), net'[Peer(j)], inbox'[Peer(j)],
            world[Peer(j)].known)
    <3>1. CASE Peer(j) # i
      BY <1>1, <2>1, <3>1 DEF TypeOK
    <3>2. CASE Peer(j) = i
      <4>1. /\ net'[Peer(j)] = Tail(net[Peer(j)]) /\ net[Peer(j)] # <<>>
            /\ \/ inbox'[Peer(j)] = inbox[Peer(j)]
               \/ inbox[Peer(j)] = {} /\ inbox'[Peer(j)] = Head(net[Peer(j)])
        BY <1>1, <3>2 DEF TypeOK
      <4>2. j # "host" => \A k \in DOMAIN net[Peer(j)] : ~IsInitial(j, net[Peer(j)][k])
        BY DEF BoardInv, TrafficOf, Traffic, Made
      <4> QED
        BY <2>1, <4>1, <4>2, TakeWay
    <3> QED
      BY <3>1, <3>2
  <2> QED
    BY <1>1, <1>3, <2>2 DEF WayOf
<1>6. \A j \in Instances : MarkedOf(SureOf(j), world[j], thread[j])'
  BY <1>1, <1>3 DEF BrickInv, MarkedOf
<1> QED
  BY <1>2, <1>4, <1>5, <1>6 DEF BrickInv

LEMMA ParseBricks ==
    ASSUME TypeOK, RolesInv, BoardInv, BrickInv, NEW i \in Instances, ParseElement(i)
    PROVE  BrickInv'
<1>1. PICK g \in inbox[i] :
        /\ world' = [world EXCEPT ![i] = ParseGameElement(world[i], g)]
        /\ world'[i] = ParseGameElement(world[i], g)
        /\ inbox' = [inbox EXCEPT ![i] = inbox[i] \ {g}]
        /\ g \in GameElement /\ world[i] \in World
        /\ UNCHANGED <<thread, net, pc>>
        /\ \A f \in inbox[i] : g.id <= f.id
  BY ParseStep
<1>2. Peer(i) \in Instances /\ inbox[i] \in GameUpdate /\ Next
  BY InstancesType DEF TypeOK, Next, Reader
<1>3. /\ world'[i].known = world[i].known \cup {g.id}
      /\ world'[i].updated = world[i].updated
      /\ inbox'[i] = inbox[i] \ {g}
      /\ \A j \in Instances \ {i} : world'[j] = world[j] /\ inbox'[j] = inbox[j]
  <2>1. /\ ParseGameElement(world[i], g).known = world[i].known \cup {g.id}
        /\ ParseGameElement(world[i], g).updated = world[i].updated
    BY <1>1, ParseGameElementType
  <2> QED
    BY <1>1, <2>1 DEF TypeOK
<1>4. /\ \A j \in Instances : AwaitsOf(j)' => AwaitsOf(j)
      /\ \A j \in Instances : ~AwaitsOf(j) => Gone(world[j]) \subseteq Gone(world'[j])
  BY <1>2, AwaitsEnds, WorldForward DEF Forward
<1>5. \A j \in Instances : SureOf(j) \subseteq SureOf(j)'
  BY <1>4, SureGrows
<1>6. HostSetup'
  <2> SUFFICES ASSUME pc["host"] = "setup"
               PROVE  /\ inbox'["client"] = {} /\ world'["client"].known = {}
                      /\ world'["host"].known \cap Bricks = {}
    BY <1>1 DEF BrickInv, HostSetup
  <2>1. i = "host" /\ inbox["client"] = {} /\ world["client"].known = {}
    BY <1>1 DEF BrickInv, HostSetup, Instances
  <2>2. Tame(Gone(world["client"]), g)
    BY <1>1, <2>1, ParsedBrick DEF Peer
  <2>3. g.id \notin Bricks
    BY <2>1, <2>2 DEF Tame, Gone
  <2> QED
    BY <1>3, <2>1, <2>3 DEF BrickInv, HostSetup, Instances
<1>7. ASSUME NEW j \in Instances
      PROVE  MarkedOf(SureOf(j), world[j], thread[j])'
  <2>1. MarkedOf(SureOf(j), world[j], thread[j])
    BY DEF BrickInv
  <2>2. world'[j].updated = world[j].updated /\ thread' = thread
    BY <1>1, <1>3
  <2>3. SureOf(j) \subseteq SureOf(j)'
    BY <1>5
  <2> QED
    BY <2>1, <2>2, <2>3 DEF MarkedOf
<1>8. ASSUME NEW j \in Instances
      PROVE  WayOf(j)'
  <2>1. Way(j, SureOf(j), Msgs(thread[j]), net[Peer(j)], inbox[Peer(j)], world[Peer(j)].known)
    BY DEF BrickInv, WayOf
  <2>2. Way(j, SureOf(j), Msgs(thread[j]), net[Peer(j)], inbox'[Peer(j)], world'[Peer(j)].known)
    <3>1. CASE Peer(j) # i
      BY <1>3, <2>1, <3>1, InstancesType
    <3>2. CASE Peer(j) = i
      BY <1>3, <2>1, <3>2, ParseWay
    <3> QED
      BY <3>1, <3>2
  <2>3. SureOf(j) \subseteq SureOf(j)'
    BY <1>5
  <2>4. Way(j, SureOf(j)', Msgs(thread[j]), net[Peer(j)], inbox'[Peer(j)], world'[Peer(j)].known)
    BY <2>2, <2>3, ThreadWay
  <2> QED
    BY <1>1, <2>4 DEF WayOf
<1>9. Awaiting'
  <2> SUFFICES ASSUME AwaitsOf("client")'
               PROVE  /\ Gone(world'["client"]) \subseteq Gone(world'["host"])
                      /\ OnlyGone("client", world'["client"])
    BY DEF Awaiting
  <2>1. "client" \in Instances /\ "host" \in Instances
    BY DEF Instances
  <2>2. /\ Gone(world["client"]) \subseteq Gone(world["host"])
        /\ OnlyGone("client", world["client"])
    BY <1>4, <2>1 DEF BrickInv, Awaiting
  <2>3. Gone(world["host"]) \subseteq Gone(world'["host"])
    BY <1>4, <2>1, SureFacts
  <2>4. CASE i = "host"
    <3>1. world'["client"] = world["client"]
      BY <1>3, <2>1, <2>4
    <3> QED
      BY <2>2, <2>3, <3>1
  <2>5. CASE i = "client"
    <3>1. /\ Peer(i) = "host" /\ world'["host"] = world["host"]
      BY <1>3, <2>1, <2>5 DEF Peer
    <3>2. Tame(Gone(world["host"]), g) \/ g.duration > 0
      BY <3>1, ParsedBrick
    <3>3. Gone(world'[i]) \subseteq Gone(world[i]) \cup Gone(world["host"])
      BY <1>1, <1>2, <3>2, ParseGone
    <3>4. OnlyGone("client", world'["client"])
      <4> SUFFICES ASSUME OwnPaddle(i) \notin world'[i].known
                   PROVE  world'[i].known \cap Bricks \subseteq Gone(world'[i])
        BY <2>5 DEF OnlyGone
      <4>1. /\ OwnPaddle(i) \notin world[i].known /\ g.id # OwnPaddle(i)
            /\ world[i].known \cap Bricks \subseteq Gone(world[i])
        BY <1>3, <2>2, <2>5 DEF OnlyGone
      <4>2. ASSUME OwnPaddle(i) \in IdsOf(inbox[i])
            PROVE  g.id \notin Bricks
        <5>1. g.id <= OwnPaddle(i)
          BY <1>1, <4>2 DEF IdsOf
        <5> QED
          BY <2>5, <5>1, ElementsAssumption DEF OwnPaddle, ClientPaddle, Bricks
      <4>3. Tame(Gone(world["host"]), g)
        BY <3>1, <4>1, <4>2, ParsedBrick
      <4>4. /\ Gone(world[i]) \subseteq Gone(world'[i])
            /\ g.id \in Bricks /\ g.duration <= 0 => g.id \in Gone(world'[i])
        <5>1. LET v == ParseGameElement(world[i], g)
              IN /\ Gone(world[i]) \subseteq Gone(v)
                 /\ g.id \in Bricks /\ g.duration <= 0 => g.id \in Gone(v)
          BY <1>1, <1>2, <4>3, ParseGone
        <5> QED
          BY <1>1, <5>1
      <4>5. g.id \in Bricks => g.id \in Gone(world'[i])
        BY <4>3, <4>4 DEF Tame
      <4> QED
        BY <1>3, <4>1, <4>4, <4>5
    <3> QED
      BY <2>2, <2>5, <3>1, <3>3, <3>4
  <2> QED
    BY <2>4, <2>5 DEF Instances
<1> QED
  BY <1>6, <1>7, <1>8, <1>9 DEF BrickInv

LEMMA GenerateBricks ==
    ASSUME TypeOK, RolesInv, BoardInv, BrickInv, NEW i \in Instances, Generate(i)
    PROVE  BrickInv'
<1>1. PICK d \in [Bricks -> 1 .. MaxDuration], t \in Threads :
        /\ world' = [world EXCEPT ![i] = GeneratedWorld(d)]
        /\ thread' = [thread EXCEPT ![i][t] =
              [pc |-> "set", todo |-> {}, msg |-> FillGameUpdate(GeneratedWorld(d), Ids)]]
  BY DEF Generate
<1> DEFINE msg == FillGameUpdate(GeneratedWorld(d), Ids)
           u == [pc |-> "set", todo |-> {}, msg |-> msg]
<1>2. /\ i = "host" /\ pc[i] = "setup" /\ pc'[i] = "frame" /\ UNCHANGED <<net, inbox>>
  BY DEF TypeOK, Generate, GoTo, RolesInv, SetupByHost
<1>3. GeneratedWorld(d).updated = {}
  BY DEF GeneratedWorld, EmptyWorld
<1>4. BoardMsg(msg) /\ IsInitial("host", msg)
  <2>1. WholeBoard("host", msg) /\ BoardMsg(msg)
    BY GeneratedBoard, GeneratedMsg
  <2>2. PeerPaddle("host") \in Ids
    BY IdsPartition DEF PeerPaddle, OwnPaddle, Peer, Paddles
  <2> HIDE DEF msg
  <2> QED
    BY <2>1, <2>2, InitialFacts DEF WholeBoard
<1>5. u.msg = msg /\ u.todo = {}
  OBVIOUS
<1>6. thread' = [thread EXCEPT ![i][t] = u]
  BY <1>1
<1> HIDE DEF msg, u
<1>7. /\ world'[i].updated = {} /\ thread'[i][t] = u
      /\ \A j \in Instances \ {i} : world'[j] = world[j] /\ thread'[j] = thread[j]
      /\ \A s \in Threads \ {t} : thread'[i][s] = thread[i][s]
  BY <1>1, <1>3, <1>6 DEF TypeOK
<1>8. HostSetup'
  BY <1>2 DEF HostSetup
<1>9. /\ \A s \in Threads : thread["host"][s].pc = "idle"
      /\ net["client"] = <<>> /\ inbox["client"] = {} /\ world["client"].known = {}
      /\ Gone(world["host"]) = {}
  BY <1>2 DEF BrickInv, HostSetup, Gone
<1>10. "client" \in Instances \ {i} /\ "host" \in Instances /\ Peer("host") = "client"
       /\ Peer("client") = "host"
  BY <1>2 DEF Instances, Peer
<1>11. MarkedOf(SureOf("host"), world["host"], thread["host"])'
  <2>1. \A s \in Threads : thread["host"][s].todo = {}
    BY <1>9, <1>10 DEF BoardInv, SendersHonest, Honest
  <2>2. \A s \in Threads : thread'["host"][s].todo = {}
    BY <1>2, <1>5, <1>7, <2>1
  <2> QED
    BY <1>2, <1>7, <2>2 DEF MarkedOf
<1>12. MarkedOf(SureOf("client"), world["client"], thread["client"])'
  BY <1>2, <1>7, <1>10 DEF BrickInv, MarkedOf, SureOf, AwaitsOf
<1>13. WayOf("host")'
  <2>1. Way("host", {}, Msgs(thread["host"]), <<>>, {}, {})
    <3>1. SureOf("host") = {}
      BY <1>9, <1>10, SureFacts
    <3> QED
      BY <1>9, <1>10, <3>1 DEF BrickInv, WayOf
  <2>2. \A s \in Threads : ~IsInitial("host", Msgs(thread["host"])[s])
    BY <1>2, <1>10 DEF BoardInv, TrafficOf, Traffic, Made
  <2>3. /\ Msgs(thread'["host"])[t] = msg
        /\ \A s \in Threads \ {t} : Msgs(thread'["host"])[s] = Msgs(thread["host"])[s]
    BY <1>2, <1>5, <1>7 DEF Msgs
  <2>4. Way("host", SureOf("host")', Msgs(thread'["host"]), <<>>, {}, {})
    BY <1>4, <2>1, <2>2, <2>3, MadeWay
  <2> QED
    BY ZenonT(30), <1>2, <1>7, <1>9, <1>10, <2>4 DEF WayOf
<1>14. WayOf("client")'
  <2>1. Way("client", SureOf("client"), Msgs(thread["client"]), net["host"], inbox["host"],
            world["host"].known)
    BY <1>10 DEF BrickInv, WayOf
  <2>2. /\ \A s \in Threads : ~IsInitial("client", Msgs(thread["client"])[s])
        /\ \A k \in DOMAIN net["host"] : ~IsInitial("client", net["host"][k])
    BY <1>10 DEF BoardInv, TrafficOf, Traffic, Made
  <2>3. Way("client", SureOf("client"), Msgs(thread["client"]), net["host"], inbox["host"],
            world'["host"].known)
    BY <2>1, <2>2, ClientWay
  <2>4. SureOf("client")' = SureOf("client")
    BY <1>2, <1>7, <1>10 DEF SureOf, AwaitsOf
  <2> QED
    BY <1>2, <1>7, <1>10, <2>3, <2>4 DEF WayOf
<1>15. Awaiting'
  <2>1. world'["client"] = world["client"]
    BY <1>7, <1>10
  <2> QED
    BY <1>9, <2>1 DEF Awaiting, OnlyGone, Gone
<1> QED
  BY <1>8, <1>11, <1>12, <1>13, <1>14, <1>15 DEF BrickInv, Instances

\* What updates say of bricks, whatever is lost and whatever overtakes the board.
THEOREM BrickInvariant == Spec => []BrickInv
<1>1. TypeOK /\ RolesInv /\ LockInv /\ BoardInv /\ BrickInv /\ [Next]_vars => BrickInv'
  <2> SUFFICES ASSUME TypeOK, RolesInv, LockInv, BoardInv, BrickInv, [Next]_vars PROVE BrickInv'
    OBVIOUS
  <2>1. ASSUME NEW i \in Instances, Main(i)
        PROVE  BrickInv'
    BY <2>1, GenerateBricks, MainStepBricks, MainBricks, StepUnlockBricks DEF Main
  <2>2. ASSUME NEW i \in Instances, Physics(i) \/ Quit(i) \/ Close(i)
        PROVE  BrickInv'
    BY <2>2, MainBricks, MainStepBricks
  <2>3. ASSUME NEW i \in Instances, NEW t \in Threads, Sender(i, t)
        PROVE  BrickInv'
    BY <2>3, FillBricks, WriteBricks DEF Sender
  <2>4. ASSUME NEW i \in Instances, Reader(i) \/ Lose(i)
        PROVE  BrickInv'
    BY <2>4, ReaderLockBricks, ParseBricks DEF Reader
  <2>5. CASE UNCHANGED vars
    BY <2>5 DEF vars, BrickInv, MarkedOf, WayOf, HostSetup, SureOf, AwaitsOf, Awaiting, OnlyGone
  <2> QED
    BY <2>1, <2>2, <2>3, <2>4, <2>5 DEF Next, Terminating
<1> QED
  BY InitBricks, <1>1, TypeCorrect, RolesInvariant, LockInvariant, BoardInvariant, PTL DEF Spec

\* The own paddle is found under the lock under which the board was parsed.
PlayedInv == \A i \in Instances : ptrs[i].your # NoPaddle => ~AwaitsOf(i)

LEMMA PtrsKept ==
    ASSUME Next, NEW j \in Instances, ptrs' # ptrs
    PROVE  \E i \in Instances : StepLock(i)
<1>1. ASSUME NEW i \in Instances,
             \/ Generate(i) \/ Draw(i) \/ DrawLock(i) \/ DisableBrick(i) \/ EndDisabledContact(i)
             \/ DrawUnlock(i) \/ StepUnlock(i) \/ SkipCheck(i) \/ Check(i) \/ CheckLock(i)
             \/ CheckUnlock(i) \/ Quit(i) \/ Close(i)
      PROVE  ptrs' = ptrs
  BY <1>1 DEF Generate, Draw, DrawLock, DisableBrick, EndDisabledContact, DrawUnlock,
              StepUnlock, SkipCheck, Check, CheckLock, CheckUnlock, Decide, Quit, Close
<1>2. ASSUME NEW i \in Instances, Physics(i) \/ Reader(i) \/ Lose(i)
      PROVE  ptrs' = ptrs
  BY <1>2 DEF Physics, BallHitsBrick, BallHitsPaddle, BallHitsPlate, StepContact, Reader,
              ReaderLock, ParseElement, Lose
<1>3. ASSUME NEW i \in Instances, NEW t \in Threads, Sender(i, t)
      PROVE  ptrs' = ptrs
  BY <1>3 DEF Sender, FillLock, FillElement, SendCall, SetSending, Write, ClearSending
<1> QED
  BY <1>1, <1>2, <1>3 DEF Next, Main, Terminating, vars

THEOREM PlayedInvariant == Spec => []PlayedInv
<1>1. Init => PlayedInv
  BY DEF Init, PlayedInv
<1>2. /\ TypeOK /\ RolesInv /\ RolesInv' /\ LockInv /\ BoardInv /\ BrickInv /\ PlayedInv
      /\ [Next]_vars
      => PlayedInv'
  <2>1. CASE UNCHANGED vars
    BY <2>1 DEF vars, PlayedInv, AwaitsOf
  <2> SUFFICES ASSUME TypeOK, RolesInv, RolesInv', LockInv, BoardInv, BrickInv, PlayedInv, Next,
                      NEW i \in Instances, ptrs'[i].your # NoPaddle
               PROVE  ~AwaitsOf(i)'
    BY <2>1 DEF PlayedInv
  <2>2. CASE ptrs'[i] = ptrs[i]
    <3>1. ~AwaitsOf(i)
      BY <2>2 DEF PlayedInv
    <3> QED
      BY <3>1, AwaitsEnds
  <2>3. CASE ptrs'[i] # ptrs[i]
    <3>1. PICK j \in Instances : StepLock(j)
      BY <2>3, PtrsKept
    <3>2. i = j
      BY <2>3, <3>1 DEF StepLock, TypeOK
    <3>3. inbox'[i] = {}
      BY <3>1, <3>2 DEF StepLock, LockElements, LockInv
    <3>4. OwnPaddle(i) \in world'[i].known
      BY DEF RolesInv, YourPaddleKnown, PaddlePtrsRoles
    <3>5. Repairs(inbox'[i]) = {}
      BY <3>3 DEF Repairs
    <3> QED
      BY <3>4, <3>5 DEF AwaitsOf, Awaits
  <2> QED
    BY <2>2, <2>3
<1> QED
  BY <1>1, <1>2, TypeCorrect, RolesInvariant, LockInvariant, BoardInvariant, BrickInvariant, PTL
     DEF Spec

\* PlayedBoardStays: no brick comes back at an instance that knows both paddles, whatever
\* was lost and whatever overtook the board.
THEOREM PlayedBoardStaysHolds == Spec => PlayedBoardStays
<1>1. TypeOK /\ RolesInv /\ BrickInv /\ PlayedInv /\ [Next]_vars =>
        [\A i \in Instances : \A b \in Bricks :
            ptrs[i].your # NoPaddle /\ ptrs[i].enemy # NoPaddle /\ Broken(i, b) => Broken(i, b)']_vars
  <2> SUFFICES ASSUME TypeOK, RolesInv, BrickInv, PlayedInv, Next, NEW i \in Instances,
                      NEW b \in Bricks, ptrs[i].your # NoPaddle, Broken(i, b)
               PROVE  Broken(i, b)'
    OBVIOUS
  <2>1. ~AwaitsOf(i)
    BY DEF PlayedInv
  <2>2. b \in Gone(world'[i])
    BY <2>1, WorldForward DEF Forward, Broken, Gone
  <2> QED
    BY <2>2 DEF Broken, Gone
<1> QED
  BY <1>1, TypeCorrect, RolesInvariant, BrickInvariant, PlayedInvariant, PTL
     DEF Spec, PlayedBoardStays

\* ShownBrickIsSolid: only the body of a broken brick is disabled, and the late board repairs
\* none but those that are broken at the host, where a broken brick stays broken.
THEOREM ShownBrickIsSolidHolds == Spec => []ShownBrickIsSolid
<1>1. Init => SolidInv
  BY DEF Init, SolidInv, EmptyWorld
<1>2. TypeOK /\ RolesInv /\ BrickInv /\ SolidInv /\ [Next]_vars => SolidInv'
  <2>1. CASE UNCHANGED vars
    BY <2>1 DEF vars, SolidInv
  <2> SUFFICES ASSUME TypeOK, RolesInv, BrickInv, SolidInv, Next, NEW i \in Instances
               PROVE  Bricks \ world'[i].enabled \subseteq
                        Gone(world'[i]) \cup (IF i = "client" THEN Gone(world'["host"]) ELSE {})
    BY <2>1 DEF SolidInv
  <2>2. Bricks \ world[i].enabled \subseteq
          Gone(world[i]) \cup (IF i = "client" THEN Gone(world["host"]) ELSE {})
    BY DEF SolidInv
  <2>3. Gone(world["host"]) \subseteq Gone(world'["host"])
    <3>1. "host" \in Instances
      BY DEF Instances
    <3>2. ~AwaitsOf("host")
      BY <3>1, SureFacts
    <3> QED
      BY <3>1, <3>2, WorldForward DEF Forward
  <2>4. CASE ~AwaitsOf(i)
    BY <2>2, <2>3, <2>4, WorldForward DEF Forward
  <2>5. CASE AwaitsOf(i) /\ ~ParseElement(i)
    BY <2>2, <2>3, <2>5, UnparsedForward DEF Forward
  <2>6. CASE AwaitsOf(i) /\ ParseElement(i)
    <3>1. i = "client"
      BY <2>6, SureFacts
    <3>2. Gone(world[i]) \subseteq Gone(world["host"])
      BY <2>6, <3>1 DEF BrickInv, Awaiting
    <3>3. PICK g \in inbox[i] : /\ world'[i] = ParseGameElement(world[i], g)
                                /\ world[i] \in World /\ g \in GameElement
      BY <2>6, ParseStep
    <3>4. world'[i].enabled = world[i].enabled
      BY <3>3, IdsPartition DEF ParseGameElement, World
    <3> QED
      BY <2>2, <2>3, <3>1, <3>2, <3>4
  <2> QED
    BY <2>4, <2>5, <2>6
<1>3. TypeOK /\ SolidInv => ShownBrickIsSolid
  <2> SUFFICES ASSUME TypeOK, SolidInv, NEW i \in Instances, NEW b \in Bricks,
                      BrickExists(world[i], b), b \notin world[i].enabled
               PROVE  i = "client" /\ Broken("host", b)
    BY DEF ShownBrickIsSolid
  <2>1. b \notin Gone(world[i])
    BY DEF BrickExists, Gone, TypeOK, World
  <2>2. i = "client" /\ b \in Gone(world["host"])
    BY <2>1 DEF SolidInv
  <2> QED
    BY <2>2 DEF Broken, Gone
<1> QED
  BY <1>1, <1>2, <1>3, TypeCorrect, RolesInvariant, BrickInvariant, PTL DEF Spec

\* WinnerClearedBoard: a verdict needs the whole board, and all of it broken, for good.
THEOREM WinnerClearedBoardHolds == Spec => []WinnerClearedBoard
<1> DEFINE Won == \A i \in Instances : winner[i] >= 0 => ~AwaitsOf(i) /\ Bricks \subseteq Gone(world[i])
<1>1. Init => Won
  BY DEF Init
<1>2. TypeOK /\ RolesInv /\ LockInv /\ BoardInv /\ BrickInv /\ Won /\ [Next]_vars => Won'
  <2>1. CASE UNCHANGED vars
    BY <2>1 DEF vars, AwaitsOf
  <2> SUFFICES ASSUME TypeOK, RolesInv, LockInv, BoardInv, BrickInv, Won, Next,
                      NEW i \in Instances, winner'[i] >= 0
               PROVE  ~AwaitsOf(i)' /\ Bricks \subseteq Gone(world'[i])
    BY <2>1
  <2>2. ~AwaitsOf(i) /\ Bricks \subseteq Gone(world[i])
    <3>1. CASE winner'[i] = winner[i]
      BY <3>1
    <3>2. CASE winner'[i] # winner[i]
      <4>1. PICK j \in Instances : Check(j) \/ CheckUnlock(j)
        BY <3>2, WinnerKept
      <4>2. i = j
        BY <3>2, <4>1 DEF Check, CheckUnlock, Decide, TypeOK
      <4>3. world[i].known = Ids
        BY <4>1, <4>2, VerdictKnowsBoard
      <4>4. NoBrickExists(world[i])
        <5>1. GetWinner(world[i], ptrs[i]) >= 0
          BY <4>1, <4>2 DEF Check, CheckUnlock, Decide, TypeOK
        <5> QED
          BY <5>1 DEF GetWinner
      <4>5. Bricks \subseteq Gone(world[i])
        BY <4>3, <4>4, IdsPartition DEF NoBrickExists, BrickExists, Gone, TypeOK, World
      <4>6. inbox[i] = {}
        BY <4>1, <4>2 DEF Check, CheckUnlock, LockInv
      <4>7. Repairs(inbox[i]) = {} /\ OwnPaddle(i) \in world[i].known
        BY <4>3, <4>6, InstancesType, IdsPartition DEF Repairs
      <4> QED
        BY <4>5, <4>7 DEF AwaitsOf, Awaits
    <3> QED
      BY <3>1, <3>2
  <2> QED
    BY <2>2, AwaitsEnds, WorldForward DEF Forward
<1>3. Won => WinnerClearedBoard
  BY DEF WinnerClearedBoard, Broken, Gone
<1> QED
  BY <1>1, <1>2, <1>3, TypeCorrect, RolesInvariant, LockInvariant, BoardInvariant, BrickInvariant,
     PTL DEF Spec

-----------------------------------------------------------------------------
(* No break is forgotten                                                   *)

\* The break of b is marked in w, in the updates ts, on the wire or at the reader.
Told(b, w, ts, queue, in) ==
    \/ b \in w.updated
    \/ \E t \in Threads : b \in ts[t].todo \/ TellsBroken(ts[t].msg, b)
    \/ \E k \in DOMAIN queue : TellsBroken(queue[k], b)
    \/ TellsBroken(in, b)

ToldOf(i, b) == Told(b, world[i], thread[i], net[Peer(i)], inbox[Peer(i)])

LEMMA EmptyKept ==
    ASSUME TypeOK, EmptyInv, [Next]_vars
    PROVE  EmptyInv'
<1>1. CASE UNCHANGED thread
  BY <1>1 DEF EmptyInv
<1>2. ASSUME NEW i \in Instances, NEW t \in Threads, NEW u, thread' = [thread EXCEPT ![i][t] = u],
             u.pc \in {"idle", "clear"} => u.msg = {}
      PROVE  EmptyInv'
  BY <1>2 DEF TypeOK, EmptyInv
<1>3. ASSUME NEW i \in Instances, NEW t \in Threads, Sender(i, t)
      PROVE  EmptyInv'
  <2>1. thread[i][t] \in UpdateThread
    BY DEF TypeOK
  <2>2. IdleThread.msg = {}
    BY DEF IdleThread
  <2>3. CASE FillElement(i, t)
    <3>1. PICK todo, msg : thread' = [thread EXCEPT ![i][t].todo = todo, ![i][t].msg = msg]
      BY <2>3 DEF FillElement
    <3> DEFINE u == [thread[i][t] EXCEPT !.todo = todo, !.msg = msg]
    <3>2. thread' = [thread EXCEPT ![i][t] = u]
      BY <3>1 DEF TypeOK
    <3>3. u.pc = "filling"
      BY <2>1, <2>3 DEF FillElement, UpdateThread
    <3> HIDE DEF u
    <3> QED
      BY <1>2, <3>2, <3>3
  <2>4. CASE FillLock(i, t) \/ SetSending(i, t) \/ SendCall(i, t)
    <3>1. PICK q \in {"filling", "set", "write"} :
            \/ thread' = [thread EXCEPT ![i][t] = [thread[i][t] EXCEPT !.pc = q]]
            \/ thread' = [thread EXCEPT ![i][t] = IdleThread]
      <4>1. CASE FillLock(i, t) \/ SetSending(i, t)
        BY <4>1 DEF FillLock, SetSending, TypeOK
      <4>2. CASE SendCall(i, t)
        BY <4>2 DEF SendCall, TypeOK
      <4> QED
        BY <2>4, <4>1, <4>2
    <3>2. [thread[i][t] EXCEPT !.pc = q].pc = q
      BY <2>1 DEF UpdateThread
    <3> QED
      BY <1>2, <2>2, <3>1, <3>2
  <2>5. CASE Write(i, t)
    <3> DEFINE u == [thread[i][t] EXCEPT !.pc = "clear", !.msg = {}]
    <3>1. thread' = [thread EXCEPT ![i][t] = u] /\ u.msg = {}
      BY <2>1, <2>5 DEF Write, UpdateThread
    <3> HIDE DEF u
    <3> QED
      BY <1>2, <3>1
  <2>6. CASE ClearSending(i, t)
    BY <1>2, <2>2, <2>6 DEF ClearSending
  <2> QED
    BY <1>3, <2>3, <2>4, <2>5, <2>6 DEF Sender
<1>4. ASSUME NEW i \in Instances, Generate(i) \/ StepUnlock(i)
      PROVE  EmptyInv'
  <2>1. CASE Generate(i)
    <3>1. PICK t \in Threads : \E msg :
            thread' = [thread EXCEPT ![i][t] = [pc |-> "set", todo |-> {}, msg |-> msg]]
      BY <2>1 DEF Generate
    <3>2. PICK msg :
            thread' = [thread EXCEPT ![i][t] = [pc |-> "set", todo |-> {}, msg |-> msg]]
      BY <3>1
    <3>3. [pc |-> "set", todo |-> {}, msg |-> msg].pc = "set"
      OBVIOUS
    <3> QED
      BY <1>2, <3>2, <3>3
  <2>2. CASE StepUnlock(i)
    <3> DEFINE u == [pc |-> "start", todo |-> world[i].updated, msg |-> {}]
    <3>1. u.msg = {}
      OBVIOUS
    <3>2. UNCHANGED thread \/ \E t \in Threads : thread' = [thread EXCEPT ![i][t] = u]
      BY <2>2 DEF StepUnlock
    <3> HIDE DEF u
    <3> QED
      BY <1>1, <1>2, <3>1, <3>2
  <2> QED
    BY <1>4, <2>1, <2>2
<1>5. ASSUME NEW i \in Instances,
             \/ Draw(i) \/ DrawLock(i) \/ DisableBrick(i) \/ EndDisabledContact(i)
             \/ DrawUnlock(i) \/ StepLock(i) \/ SkipCheck(i) \/ Check(i) \/ CheckLock(i)
             \/ CheckUnlock(i) \/ Quit(i) \/ Close(i) \/ Physics(i) \/ Reader(i) \/ Lose(i)
      PROVE  thread' = thread
  BY <1>5 DEF Draw, DrawLock, DisableBrick, EndDisabledContact, DrawUnlock, StepLock, SkipCheck,
              Check, CheckLock, CheckUnlock, Quit, Close, Physics, BallHitsBrick, BallHitsPaddle,
              BallHitsPlate, StepContact, Reader, ReaderLock, ParseElement, Lose
<1> QED
  BY <1>1, <1>3, <1>4, <1>5 DEF Next, Main, Terminating, vars

\* An instance that has closed stays closed.
LEMMA ClosedStays ==
    ASSUME TypeOK, Next, NEW j \in Instances, Open(j)'
    PROVE  Open(j)
<1>1. ASSUME NEW i \in Instances,
             \/ Draw(i) \/ DrawLock(i) \/ DrawUnlock(i) \/ StepLock(i) \/ StepUnlock(i)
             \/ SkipCheck(i) \/ Check(i) \/ CheckLock(i) \/ CheckUnlock(i) \/ Quit(i) \/ Close(i)
             \/ Generate(i)
      PROVE  pc[i] # "closed" /\ (i # j => pc'[j] = pc[j])
  BY <1>1 DEF TypeOK, Draw, DrawLock, DrawUnlock, StepLock, StepUnlock, SkipCheck, Check,
              CheckLock, CheckUnlock, Quit, Close, Decide, GoTo, Generate
<1>2. ASSUME NEW i \in Instances,
             DisableBrick(i) \/ EndDisabledContact(i) \/ Physics(i) \/ Reader(i) \/ Lose(i)
      PROVE  pc' = pc
  BY <1>2 DEF DisableBrick, EndDisabledContact, Physics, BallHitsBrick, BallHitsPaddle,
              BallHitsPlate, StepContact, Reader, ReaderLock, ParseElement, Lose
<1>3. ASSUME NEW i \in Instances, NEW t \in Threads, Sender(i, t)
      PROVE  pc' = pc
  BY <1>3 DEF Sender, FillLock, FillElement, SendCall, SetSending, Write, ClearSending
<1> QED
  BY <1>1, <1>2, <1>3 DEF Open, Next, Main, Terminating, vars

\* What the threads of an instance do keeps a break on its way.
LEMMA TellsMore ==
    ASSUME NEW b, NEW msg, NEW g
    PROVE  /\ TellsBroken(msg \cup {g}, b) <=> TellsBroken(msg, b) \/ (g.id = b /\ g.duration <= 0)
           /\ TellsBroken(msg, b) => TellsBroken(msg \ {g}, b) \/ (g.id = b /\ g.duration <= 0)
BY DEF TellsBroken

\* The steps of the main thread of i, and those of the physics.
LEMMA MainTold ==
    ASSUME TypeOK, RolesInv, BoardInv, BrickInv, EmptyInv, NEW i \in Instances, NEW b \in Bricks,
           b \in Gone(world'[i]), b \in Gone(world[i]) => ToldOf(i, b),
           Main(i) \/ Physics(i) \/ Quit(i) \/ Close(i)
    PROVE  ToldOf(i, b)'
<1>1. CASE Physics(i) \/ DisableBrick(i) \/ EndDisabledContact(i) \/ StepLock(i)
  <2>1. PICK v : world' = [world EXCEPT ![i] = v] /\ Breaks(i, world[i], v)
    BY <1>1, MainWorld
  <2>2. UNCHANGED <<thread, net, inbox>> /\ world'[i] = v
    BY <1>1, <2>1, MainWorld DEF TypeOK
  <2>3. b \in v.updated \/ b \in Gone(world[i])
    BY <2>1, <2>2 DEF Breaks
  <2>4. b \in world[i].updated => b \in v.updated
    BY <2>1 DEF Breaks
  <2> QED
    BY <2>2, <2>3, <2>4 DEF ToldOf, Told
<1>2. CASE \/ Draw(i) \/ DrawLock(i) \/ DrawUnlock(i) \/ SkipCheck(i) \/ Check(i) \/ CheckLock(i)
           \/ CheckUnlock(i) \/ Quit(i) \/ Close(i)
  <2>1. UNCHANGED <<world, thread, net, inbox>>
    BY <1>2 DEF Draw, DrawLock, DrawUnlock, SkipCheck, Check, CheckLock, CheckUnlock, Quit, Close
  <2> QED
    BY <2>1 DEF ToldOf
<1>3. CASE Generate(i)
  <2>1. PICK d \in [Bricks -> 1 .. MaxDuration] : world' = [world EXCEPT ![i] = GeneratedWorld(d)]
    BY <1>3 DEF Generate
  <2>2. GeneratedWorld(d).duration = d
    BY DEF GeneratedWorld, EmptyWorld
  <2>3. world'[i].duration = d
    BY <2>1, <2>2 DEF TypeOK
  <2> QED
    BY <2>3, ElementsAssumption DEF Gone
<1>4. CASE StepUnlock(i)
  <2> DEFINE u == [pc |-> "start", todo |-> world[i].updated, msg |-> {}]
             v == [world[i] EXCEPT !.updated = {}]
  <2>1. /\ UNCHANGED <<net, inbox>> /\ world' = [world EXCEPT ![i] = v]
        /\ IF world[i].updated = {} THEN UNCHANGED thread
           ELSE \E t \in Threads : /\ thread[i][t].pc = "idle"
                                   /\ thread' = [thread EXCEPT ![i][t] = u]
    BY <1>4 DEF StepUnlock
  <2>2. /\ v.known = world[i].known /\ v.duration = world[i].duration
        /\ u.todo = world[i].updated
    BY DEF TypeOK, World
  <2> HIDE DEF u, v
  <2>3. world'[i] = v /\ Gone(v) = Gone(world[i])
    BY <2>1, <2>2 DEF TypeOK, Gone
  <2>4. ToldOf(i, b)
    BY <2>3
  <2>5. CASE world[i].updated = {}
    BY <2>1, <2>4, <2>5 DEF ToldOf, Told
  <2>6. CASE world[i].updated # {}
    <3>1. PICK t \in Threads : thread[i][t].pc = "idle" /\ thread' = [thread EXCEPT ![i][t] = u]
      BY <2>1, <2>6
    <3>2. thread'[i][t] = u /\ \A s \in Threads \ {t} : thread'[i][s] = thread[i][s]
      BY <3>1 DEF TypeOK
    <3>3. thread[i][t].todo = {} /\ ~TellsBroken(thread[i][t].msg, b)
      BY <3>1 DEF BoardInv, SendersHonest, Honest, EmptyInv, TellsBroken
    <3>4. \A s \in Threads : b \in thread[i][s].todo \/ TellsBroken(thread[i][s].msg, b) =>
             b \in thread'[i][s].todo \/ TellsBroken(thread'[i][s].msg, b)
      BY <3>2, <3>3
    <3>5. b \in world[i].updated => b \in thread'[i][t].todo
      BY <2>2, <3>2
    <3> QED
      BY <2>1, <2>4, <3>4, <3>5 DEF ToldOf, Told
  <2> QED
    BY <2>5, <2>6
<1> QED
  BY <1>1, <1>2, <1>3, <1>4 DEF Main

\* The threads of i.  An update that tells of a brick is not dropped.
LEMMA SenderTold ==
    ASSUME TypeOK, BoardInv, BrickInv, EmptyInv, NEW i \in Instances, NEW b \in Bricks,
           b \in Gone(world[i]), ToldOf(i, b), Open(Peer(i)), NEW t \in Threads, Sender(i, t)
    PROVE  ToldOf(i, b)'
<1>1. /\ thread[i][t] \in UpdateThread /\ Honest(i, thread[i][t]) /\ world[i] \in World
      /\ Peer(i) \in Instances
  BY InstancesType DEF TypeOK, BoardInv, SendersHonest
<1>2. world' = world /\ inbox' = inbox
  BY WorldKept DEF Sender, FillLock, FillElement, SendCall, SetSending, Write, ClearSending
<1>3. ASSUME NEW u, thread' = [thread EXCEPT ![i][t] = u], net' = net,
             b \in thread[i][t].todo \/ TellsBroken(thread[i][t].msg, b) =>
                 b \in u.todo \/ TellsBroken(u.msg, b)
      PROVE  ToldOf(i, b)'
  <2>1. thread'[i][t] = u /\ \A s \in Threads \ {t} : thread'[i][s] = thread[i][s]
    BY <1>3 DEF TypeOK
  <2>2. \A s \in Threads : b \in thread[i][s].todo \/ TellsBroken(thread[i][s].msg, b) =>
           b \in thread'[i][s].todo \/ TellsBroken(thread'[i][s].msg, b)
    BY <1>3, <2>1
  <2> QED
    BY <1>2, <1>3, <2>2 DEF ToldOf, Told
<1>4. CASE FillElement(i, t)
  <2>1. PICK e \in thread[i][t].todo :
          thread' = [thread EXCEPT ![i][t].todo = @ \ {e},
                                   ![i][t].msg = @ \cup {FillGameElement(world[i], e)}]
    BY <1>4 DEF FillElement
  <2> DEFINE u == [thread[i][t] EXCEPT !.todo = @ \ {e},
                                       !.msg = @ \cup {FillGameElement(world[i], e)}]
  <2>2. thread' = [thread EXCEPT ![i][t] = u]
    BY <2>1 DEF TypeOK
  <2>3. /\ u.todo = thread[i][t].todo \ {e}
        /\ u.msg = thread[i][t].msg \cup {FillGameElement(world[i], e)}
    BY <1>1 DEF UpdateThread
  <2> HIDE DEF u
  <2>4. e = b => FillGameElement(world[i], e).id = b /\ FillGameElement(world[i], e).duration <= 0
    BY <1>1, IdsPartition, FillGameElementType DEF FillGameElement, Gone
  <2>5. net' = net
    BY <1>4 DEF FillElement
  <2>6. /\ TellsBroken(thread[i][t].msg, b) => TellsBroken(u.msg, b)
        /\ e = b => TellsBroken(u.msg, b)
    BY <2>3, <2>4 DEF TellsBroken
  <2> QED
    BY <1>3, <2>2, <2>3, <2>5, <2>6
<1>5. CASE FillLock(i, t) \/ SetSending(i, t) \/ SendCall(i, t)
  <2>1. net' = net
    BY <1>5 DEF FillLock, SetSending, SendCall
  <2>2. PICK q : \/ thread' = [thread EXCEPT ![i][t] = [thread[i][t] EXCEPT !.pc = q]]
                 \/ /\ thread' = [thread EXCEPT ![i][t] = IdleThread]
                    /\ thread[i][t].todo = {} /\ ~ForceSending(thread[i][t].msg)
    <3>1. CASE FillLock(i, t) \/ SetSending(i, t)
      BY <3>1 DEF FillLock, SetSending, TypeOK
    <3>2. CASE SendCall(i, t)
      BY <3>2 DEF SendCall, TypeOK
    <3> QED
      BY <1>5, <3>1, <3>2
  <2> DEFINE u == [thread[i][t] EXCEPT !.pc = q]
  <2>3. u.todo = thread[i][t].todo /\ u.msg = thread[i][t].msg
    BY <1>1 DEF UpdateThread
  <2> HIDE DEF u
  <2>4. ~ForceSending(thread[i][t].msg) => ~TellsBroken(thread[i][t].msg, b)
    BY IdsPartition DEF ForceSending, TellsBroken
  <2> QED
    BY <1>3, <2>1, <2>2, <2>3, <2>4 DEF u
<1>6. CASE ClearSending(i, t)
  <2>1. thread[i][t].todo = {} /\ ~TellsBroken(thread[i][t].msg, b)
    BY <1>1, <1>6 DEF ClearSending, Honest, EmptyInv, TellsBroken
  <2> QED
    BY <1>3, <1>6, <2>1 DEF ClearSending
<1>7. CASE Write(i, t)
  <2> DEFINE u == [thread[i][t] EXCEPT !.pc = "clear", !.msg = {}]
             queue == net[Peer(i)]
  <2>1. /\ thread' = [thread EXCEPT ![i][t] = u]
        /\ net' = [net EXCEPT ![Peer(i)] = Append(@, thread[i][t].msg)]
    BY <1>7 DEF Write
  <2>2. thread[i][t].todo = {} /\ queue \in Seq(GameUpdate) /\ thread[i][t].msg \in GameUpdate
    BY <1>1, <1>7 DEF Write, Honest, TypeOK, UpdateThread
  <2>3. net'[Peer(i)] = Append(queue, thread[i][t].msg)
    BY <1>1, <2>1 DEF TypeOK
  <2> HIDE DEF queue
  <2>4. /\ \A k \in DOMAIN queue : k \in DOMAIN net'[Peer(i)] /\ net'[Peer(i)][k] = queue[k]
        /\ Len(queue) + 1 \in DOMAIN net'[Peer(i)]
        /\ net'[Peer(i)][Len(queue) + 1] = thread[i][t].msg
    BY <2>2, <2>3
  <2>5. \A s \in Threads \ {t} : thread'[i][s] = thread[i][s]
    BY <2>1 DEF TypeOK
  <2> QED
    BY <1>2, <2>2, <2>4, <2>5 DEF ToldOf, Told, queue
<1> QED
  BY <1>4, <1>5, <1>6, <1>7 DEF Sender

\* The reader of the peer, which loses nothing.
LEMMA ReaderTold ==
    ASSUME TypeOK, LockInv, BrickInv, NEW i \in Instances, NEW b \in Bricks, ToldOf(i, b),
           b \notin Gone(world'[Peer(i)]), Reader(Peer(i))
    PROVE  ToldOf(i, b)'
<1> DEFINE j == Peer(i)
<1>1. j \in Instances /\ j # i /\ Peer(j) = i
  BY InstancesType
<1> HIDE DEF j
<1>2. CASE ReaderLock(j)
  <2>1. /\ world' = world /\ thread' = thread /\ net[j] # <<>> /\ net[j] \in Seq(GameUpdate)
        /\ net'[j] = Tail(net[j]) /\ inbox'[j] = Head(net[j]) /\ inbox[j] = {}
    BY <1>1, <1>2 DEF ReaderLock, LockElements, LockInv, TypeOK
  <2>2. \A k \in DOMAIN net[j] : \/ k = 1 /\ net[j][k] = Head(net[j])
                                 \/ k - 1 \in DOMAIN Tail(net[j]) /\ Tail(net[j])[k - 1] = net[j][k]
    BY <2>1
  <2>3. ~TellsBroken(inbox[j], b)
    BY <2>1 DEF TellsBroken
  <2> QED
    BY <2>1, <2>2, <2>3 DEF ToldOf, Told, j
<1>3. CASE ParseElement(j)
  <2>1. PICK g \in inbox[j] :
          /\ world' = [world EXCEPT ![j] = ParseGameElement(world[j], g)]
          /\ world'[j] = ParseGameElement(world[j], g)
          /\ inbox' = [inbox EXCEPT ![j] = inbox[j] \ {g}]
          /\ g \in GameElement /\ world[j] \in World
          /\ UNCHANGED <<thread, net, pc>>
    BY <1>1, <1>3, ParseStep
  <2>2. world'[i] = world[i] /\ inbox'[j] = inbox[j] \ {g} /\ inbox[j] \in GameUpdate
    BY <1>1, <2>1 DEF TypeOK
  <2>3. ~(g.id = b /\ g.duration <= 0)
    <3> SUFFICES ASSUME g.id = b, g.duration <= 0
                 PROVE  b \in Gone(ParseGameElement(world[j], g))
      BY <2>1 DEF j
    <3>1. Tame(Gone(world[i]), g) \/ g.duration > 0
      BY <1>1, ParsedBrick
    <3> QED
      BY <2>1, <2>2, <3>1, ParseGone
  <2> QED
    BY <2>1, <2>2, <2>3, TellsMore DEF ToldOf, Told, j
<1> QED
  BY <1>2, <1>3 DEF Reader, j

\* The reader of i tells i of breaks that the peer has, and keeps its own ones.
LEMMA OwnReaderTold ==
    ASSUME TypeOK, BrickInv, NEW i \in Instances, NEW b \in Bricks, Reader(i),
           b \in Gone(world'[i]), b \in Gone(world[i]) => ToldOf(i, b),
           b \notin Gone(world[Peer(i)])
    PROVE  ToldOf(i, b)'
<1>1. Peer(i) \in Instances /\ Peer(i) # i
  BY InstancesType
<1>2. CASE ReaderLock(i)
  <2>1. /\ world' = world /\ thread' = thread /\ net'[Peer(i)] = net[Peer(i)]
        /\ inbox'[Peer(i)] = inbox[Peer(i)]
    BY <1>1, <1>2 DEF ReaderLock, TypeOK
  <2> QED
    BY <2>1 DEF ToldOf
<1>3. CASE ParseElement(i)
  <2>1. PICK g \in inbox[i] :
          /\ world' = [world EXCEPT ![i] = ParseGameElement(world[i], g)]
          /\ world'[i] = ParseGameElement(world[i], g)
          /\ inbox' = [inbox EXCEPT ![i] = inbox[i] \ {g}]
          /\ g \in GameElement /\ world[i] \in World
          /\ UNCHANGED <<thread, net, pc>>
    BY <1>3, ParseStep
  <2>2. inbox'[Peer(i)] = inbox[Peer(i)] /\ inbox[i] \in GameUpdate
    BY <1>1, <2>1 DEF TypeOK
  <2>3. \/ Tame(Gone(world[Peer(i)]), g)
        \/ g.duration > 0
    BY ParsedBrick
  <2>4. /\ world'[i].updated = world[i].updated
        /\ Gone(world'[i]) \subseteq Gone(world[i]) \cup Gone(world[Peer(i)])
    <3>1. LET v == ParseGameElement(world[i], g)
          IN /\ v.updated = world[i].updated
             /\ Gone(v) \subseteq Gone(world[i]) \cup Gone(world[Peer(i)])
      BY <1>1, <2>1, <2>2, <2>3, ParseGone
    <3> QED
      BY <2>1, <3>1
  <2> QED
    BY <2>1, <2>2, <2>4 DEF ToldOf, Told
<1> QED
  BY <1>2, <1>3 DEF Reader

\* What the peer does otherwise touches neither the breaks of i nor their way.
LEMMA PeerTold ==
    ASSUME TypeOK, NEW i \in Instances, NEW b, NEW j \in Instances, j # i,
           Main(j) \/ Physics(j) \/ Quit(j) \/ Close(j) \/ \E t \in Threads : Sender(j, t)
    PROVE  world'[i] = world[i] /\ (ToldOf(i, b) => ToldOf(i, b)')
<1>1. Peer(i) = j /\ Peer(j) = i
  BY DEF Peer, Instances
<1>2. /\ world'[i] = world[i] /\ thread'[i] = thread[i] /\ net'[j] = net[j] /\ inbox' = inbox
  <2>1. CASE \/ Draw(j) \/ DrawLock(j) \/ DrawUnlock(j) \/ SkipCheck(j) \/ Check(j) \/ CheckLock(j)
             \/ CheckUnlock(j) \/ Quit(j) \/ Close(j)
    BY <2>1 DEF Draw, DrawLock, DrawUnlock, SkipCheck, Check, CheckLock, CheckUnlock, Quit, Close
  <2>2. CASE Generate(j) \/ StepLock(j) \/ StepUnlock(j) \/ DisableBrick(j) \/ EndDisabledContact(j)
    BY <2>2 DEF Generate, StepLock, StepUnlock, DisableBrick, EndDisabledContact, TypeOK
  <2>3. CASE Physics(j)
    BY <2>3 DEF Physics, BallHitsBrick, BallHitsPaddle, BallHitsPlate, StepContact, TypeOK
  <2>4. ASSUME NEW t \in Threads, Sender(j, t)
        PROVE  /\ world'[i] = world[i] /\ thread'[i] = thread[i] /\ net'[j] = net[j]
               /\ inbox' = inbox
    <3>1. world' = world /\ inbox' = inbox
      BY <2>4, WorldKept DEF Sender, FillLock, FillElement, SendCall, SetSending, Write,
                             ClearSending
    <3>2. net'[j] = net[j]
      BY ZenonT(30), <1>1, <2>4 DEF Sender, FillLock, FillElement, SendCall, SetSending, Write, ClearSending,
                        TypeOK
    <3>3. thread'[i] = thread[i]
      <4>1. CASE FillElement(j, t)
        BY <4>1 DEF FillElement, TypeOK
      <4>2. CASE \/ FillLock(j, t) \/ SendCall(j, t) \/ SetSending(j, t) \/ Write(j, t)
                 \/ ClearSending(j, t)
        BY <4>2 DEF FillLock, SendCall, SetSending, Write, ClearSending, TypeOK
      <4> QED
        BY <2>4, <4>1, <4>2 DEF Sender
    <3> QED
      BY <3>1, <3>2, <3>3
  <2> QED
    BY <2>1, <2>2, <2>3, <2>4 DEF Main
<1> QED
  BY <1>1, <1>2 DEF ToldOf

\* What the reader loses of the peer.
LEMMA LostTold ==
    ASSUME TypeOK, NEW i \in Instances, NEW b \in Bricks, ToldOf(i, b), Lose(Peer(i))
    PROVE  ToldOf(i, b)' \/ b \in forgotten'[Peer(i)]
<1> DEFINE j == Peer(i)
<1>1. j \in Instances /\ j # i
  BY InstancesType
<1> HIDE DEF j
<1>2. /\ world' = world /\ thread' = thread /\ inbox' = inbox
      /\ net[j] # <<>> /\ net[j] \in Seq(GameUpdate) /\ net'[j] = Tail(net[j])
      /\ forgotten'[j] = forgotten[j] \cup {c \in Bricks : TellsBroken(Head(net[j]), c)}
  BY <1>1 DEF Lose, TypeOK, j
<1>3. \A k \in DOMAIN net[j] : \/ k = 1 /\ net[j][k] = Head(net[j])
                               \/ k - 1 \in DOMAIN Tail(net[j]) /\ Tail(net[j])[k - 1] = net[j][k]
  BY <1>2
<1> QED
  BY <1>2, <1>3 DEF ToldOf, Told, j

\* What was told in vain stays told in vain.
LEMMA ForgottenGrows ==
    ASSUME TypeOK, Next, NEW j \in Instances
    PROVE  forgotten[j] \subseteq forgotten'[j]
<1>1. ASSUME NEW i \in Instances, Main(i)
      PROVE  forgotten' = forgotten
  BY <1>1 DEF Main, Generate, Draw, DrawLock, DisableBrick, EndDisabledContact, DrawUnlock,
              StepLock, StepUnlock, SkipCheck, Check, CheckLock, CheckUnlock
<1>2. ASSUME NEW i \in Instances, Physics(i) \/ Quit(i) \/ Close(i) \/ ReaderLock(i)
      PROVE  forgotten' = forgotten
  BY <1>2 DEF Physics, BallHitsBrick, BallHitsPaddle, BallHitsPlate, StepContact, Quit, Close,
              ReaderLock
<1>3. ASSUME NEW i \in Instances, NEW t \in Threads, Sender(i, t)
      PROVE  forgotten' = forgotten
  BY <1>3 DEF Sender, FillLock, FillElement, SendCall, SetSending, Write, ClearSending
<1>4. ASSUME NEW i \in Instances, ParseElement(i) \/ Lose(i)
      PROVE  forgotten[j] \subseteq forgotten'[j]
  <2>1. PICK more : forgotten' = [forgotten EXCEPT ![i] = @ \cup more]
    BY <1>4 DEF ParseElement, Lose
  <2> QED
    BY <2>1 DEF TypeOK
<1> QED
  BY <1>1, <1>2, <1>3, <1>4 DEF Next, Reader, Terminating, vars

\* A break that the peer does not know of is on its way to it, or was told in vain.
THEOREM ToldInvariant == Spec => []ToldInv
<1>1. Init => EmptyInv /\ ToldInv
  BY DEF Init, EmptyInv, ToldInv, IdleThread, EmptyWorld, Gone
<1>2. /\ TypeOK /\ RolesInv /\ LockInv /\ BoardInv /\ BrickInv /\ EmptyInv /\ ToldInv
      /\ [Next]_vars
      => EmptyInv' /\ ToldInv'
  <2> SUFFICES ASSUME TypeOK, RolesInv, LockInv, BoardInv, BrickInv, EmptyInv, ToldInv,
                      [Next]_vars
               PROVE  ToldInv'
    BY EmptyKept
  <2>1. CASE UNCHANGED vars
    BY <2>1 DEF vars, ToldInv, Open, BreakUnderWay
  <2>2. CASE Next
    <3> SUFFICES ASSUME NEW i \in Instances, NEW b \in Bricks,
                        b \in Gone(world'[i]), b \notin Gone(world'[Peer(i)]),
                        Open(i)', Open(Peer(i))', b \notin forgotten'[Peer(i)]
                 PROVE  ToldOf(i, b)'
      BY DEF ToldInv, BreakUnderWay, ToldOf, Told, Gone
    <3>1. Peer(i) \in Instances /\ Instances = {i, Peer(i)} /\ Peer(i) # i
      BY DEF Instances, Peer
    <3>2. Open(i) /\ Open(Peer(i))
      BY <2>2, <3>1, ClosedStays
    <3>3. b \notin Gone(world[Peer(i)])
      BY <2>2, <3>1, RepairForgotten
    <3>4. b \notin forgotten[Peer(i)]
      BY <2>2, <3>1, ForgottenGrows
    <3>5. b \in Gone(world[i]) => ToldOf(i, b)
      BY <3>2, <3>3, <3>4 DEF ToldInv, BreakUnderWay, ToldOf, Told
    <3>6. CASE Main(i) \/ Physics(i) \/ Quit(i) \/ Close(i)
      BY <3>5, <3>6, MainTold
    <3>7. ASSUME NEW t \in Threads, Sender(i, t)
          PROVE  ToldOf(i, b)'
      <4>1. world' = world
        BY <3>7, WorldKept
      <4> QED
        BY <3>2, <3>5, <3>7, <4>1, SenderTold
    <3>8. CASE Reader(i)
      BY <3>3, <3>5, <3>8, OwnReaderTold
    <3>9. ASSUME Main(Peer(i)) \/ Physics(Peer(i)) \/ Quit(Peer(i)) \/ Close(Peer(i))
                 \/ \E t \in Threads : Sender(Peer(i), t)
          PROVE  ToldOf(i, b)'
      <4>1. world'[i] = world[i] /\ (ToldOf(i, b) => ToldOf(i, b)')
        BY <3>1, <3>9, PeerTold
      <4> QED
        BY <3>5, <4>1
    <3>10. CASE Reader(Peer(i))
      <4>1. world'[i] = world[i]
        BY <3>1, <3>10 DEF Reader, ReaderLock, ParseElement, TypeOK
      <4> QED
        BY <3>5, <3>10, <4>1, ReaderTold
    <3>11. CASE Lose(i)
      <4>1. /\ world' = world /\ thread' = thread /\ inbox' = inbox
            /\ net'[Peer(i)] = net[Peer(i)]
        BY <3>1, <3>11 DEF Lose, TypeOK
      <4> QED
        BY <3>5, <4>1 DEF ToldOf
    <3>12. CASE Lose(Peer(i))
      <4>1. world' = world
        BY <3>12 DEF Lose
      <4> QED
        BY <3>5, <3>12, <4>1, LostTold
    <3>13. CASE UNCHANGED vars
      BY <3>5, <3>13 DEF vars, ToldOf
    <3> QED
      BY <2>2, <3>1, <3>6, <3>7, <3>8, <3>9, <3>10, <3>11, <3>12, <3>13 DEF Next, Terminating
  <2> QED
    BY <2>1, <2>2
<1> QED
  BY <1>1, <1>2, TypeCorrect, RolesInvariant, LockInvariant, BoardInvariant, BrickInvariant, PTL
     DEF Spec

\* BreakNotForgotten: a brick that is broken here and exists there has its break under way,
\* or an update that told of it was lost, or the board was parsed after it.
THEOREM BreakNotForgottenHolds == Spec => []BreakNotForgotten
<1>1. TypeOK /\ ToldInv => BreakNotForgotten
  <2> SUFFICES ASSUME TypeOK, ToldInv, NEW i \in Instances, NEW b \in Bricks, Broken(i, b),
                      BrickExists(world[Peer(i)], b), Open(i), Open(Peer(i))
               PROVE  BreakUnderWay(i, b) \/ b \in forgotten[Peer(i)]
    BY DEF BreakNotForgotten
  <2>1. world[Peer(i)].duration[b] \in Int
    BY InstancesType DEF TypeOK, World
  <2>2. b \in Gone(world[i]) \ Gone(world[Peer(i)])
    BY <2>1 DEF Broken, BrickExists, Gone
  <2> QED
    BY <2>2 DEF ToldInv
<1> QED
  BY <1>1, TypeCorrect, ToldInvariant, PTL

-----------------------------------------------------------------------------
(* Two game instances are a Match                                          *)

MatchBroken == [i \in Instances |-> {b \in Bricks : Broken(i, b)}]
MatchScore == [i \in Instances |-> world[i].score[OwnPaddle(i)]]
MatchHeard == [i \in Instances |-> world[i].score[OwnPaddle(Peer(i))]]
matchVars == <<MatchBroken, MatchScore, had, MatchHeard, winner>>

\* The steps of a Match, in terms of the game.
LEMMA MatchBreak ==
    ASSUME NEW i \in Instances, NEW b \in Bricks, winner[i] = -1, b \notin MatchBroken[i],
           MatchBroken' = [MatchBroken EXCEPT ![i] = @ \cup {b}],
           MatchScore' = [MatchScore EXCEPT ![i] = @ + 1],
           had' = [had EXCEPT ![i] = @ \cup {MatchScore[i] + 1}],
           UNCHANGED <<MatchHeard, winner>>
    PROVE  M!Next
<1>1. M!Break(i, b)
  BY DEF M!Break, M!Undecided, M!Earn, MatchBroken, MatchScore, MatchHeard
<1> QED
  BY <1>1 DEF M!Next

LEMMA MatchEarn ==
    ASSUME NEW i \in Instances, NEW points \in {1, -5}, winner[i] = -1,
           MatchScore' = [MatchScore EXCEPT ![i] = @ + points],
           had' = [had EXCEPT ![i] = @ \cup {MatchScore[i] + points}],
           UNCHANGED <<MatchBroken, MatchHeard, winner>>
    PROVE  M!Next
<1>1. M!Score(i)
  BY DEF M!Score, M!Undecided, M!Earn, MatchBroken, MatchScore, MatchHeard
<1> QED
  BY <1>1 DEF M!Next

LEMMA MatchCharge ==
    ASSUME NEW i \in Instances, winner[i] = -1,
           MatchHeard' = [MatchHeard EXCEPT ![i] = @ - 5],
           UNCHANGED <<MatchBroken, MatchScore, had, winner>>
    PROVE  M!Next
<1>1. M!Charge(i)
  BY DEF M!Charge, M!Undecided, MatchBroken, MatchScore, MatchHeard
<1> QED
  BY <1>1 DEF M!Next

LEMMA MatchLearn ==
    ASSUME NEW i \in Instances, NEW b \in Bricks,
           b \notin MatchBroken[i], b \in MatchBroken[Peer(i)],
           MatchBroken' = [MatchBroken EXCEPT ![i] = @ \cup {b}],
           UNCHANGED <<MatchScore, had, MatchHeard, winner>>
    PROVE  M!Next
<1>1. M!Learn(i, b)
  BY InstancesType DEF M!Learn, MatchBroken, MatchScore, MatchHeard
<1> QED
  BY <1>1 DEF M!Next

LEMMA MatchHear ==
    ASSUME NEW i \in Instances, NEW told \in had[Peer(i)],
           MatchHeard' = [MatchHeard EXCEPT ![i] = told],
           UNCHANGED <<MatchBroken, MatchScore, had, winner>>
    PROVE  M!Next
<1>1. M!Hear(i)
  BY InstancesType DEF M!Hear, MatchBroken, MatchScore, MatchHeard
<1> QED
  BY <1>1 DEF M!Next

LEMMA MatchDecide ==
    ASSUME NEW i \in Instances, winner[i] = -1, MatchBroken[i] = Bricks,
           winner' = [winner EXCEPT ![i] =
               IF MatchScore[i] > MatchHeard[i] THEN 0
               ELSE IF MatchScore[i] < MatchHeard[i] THEN 1 ELSE 2],
           UNCHANGED <<MatchBroken, MatchScore, had, MatchHeard>>
    PROVE  M!Next
<1>1. M!Decide(i)
  BY DEF M!Decide, M!Undecided, MatchBroken, MatchScore, MatchHeard
<1> QED
  BY <1>1 DEF M!Next
\* What a step of the main thread does to the promises in its world w: it breaks a brick
\* for a point, gains or loses points, or charges the peer.
Promise(i, w, v) ==
    \/ Gone(v) = Gone(w) /\ v.score = w.score
    \/ \E b \in Bricks \ Gone(w) :
          Gone(v) = Gone(w) \cup {b} /\ v.score = [w.score EXCEPT ![OwnPaddle(i)] = @ + 1]
    \/ \E points \in {1, -5} :
          Gone(v) = Gone(w) /\ v.score = [w.score EXCEPT ![OwnPaddle(i)] = @ + points]
    \/ Gone(v) = Gone(w) /\ v.score = [w.score EXCEPT ![PeerPaddle(i)] = @ - 5]

LEMMA HitGone ==
    ASSUME NEW w \in World, NEW ball \in Balls, NEW b \in Bricks \cap w.known
    PROVE  LET hit == BrickHit(w, b, ball)
           IN /\ hit.score = w.score
              /\ \/ Gone(hit) = Gone(w)
                 \/ b \notin Gone(w) /\ Gone(hit) = Gone(w) \cup {b} /\ OwnBall(w, ball)
<1> DEFINE hit == BrickHit(w, b, ball)
<1>1. w.duration \in [Bricks -> Int] /\ hit.known = w.known
  BY BrickHitType DEF World
<1>2. hit.score = w.score
  BY DEF BrickHit, World
<1>3. /\ \A c \in Bricks \ {b} : hit.duration[c] = w.duration[c]
      /\ \/ hit.duration[b] = w.duration[b]
         \/ /\ hit.duration[b] = w.duration[b] - 1
            /\ OwnBall(w, ball) \/ w.duration[b] > 1
  BY <1>1 DEF BrickHit, World
<1> HIDE DEF hit
<1>4. w.duration[b] \in Int
  BY <1>1
<1>5. CASE b \notin Gone(w) /\ hit.duration[b] <= 0
  <2>1. Gone(hit) = Gone(w) \cup {b}
    BY <1>1, <1>3, <1>5 DEF Gone
  <2>2. OwnBall(w, ball)
    BY <1>1, <1>3, <1>4, <1>5 DEF Gone
  <2> QED
    BY <1>2, <1>5, <2>1, <2>2 DEF hit
<1>6. CASE b \in Gone(w) \/ hit.duration[b] > 0
  <2>1. b \in Gone(w) <=> hit.duration[b] <= 0
    BY <1>1, <1>3, <1>4, <1>6 DEF Gone
  <2>2. Gone(hit) = Gone(w)
    BY <1>1, <1>3, <2>1 DEF Gone
  <2> QED
    BY <1>2, <2>2 DEF hit
<1>7. hit.duration[b] <= 0 \/ hit.duration[b] > 0
  BY <1>3, <1>4
<1> QED
  BY <1>5, <1>6, <1>7

LEMMA ContactPromise ==
    ASSUME NEW i \in Instances, NEW w \in World, Roles(i, w), NEW ball \in Balls
    PROVE  /\ \A b \in Bricks \cap w.known : Promise(i, w, ContactBrick(w, ball, b))
           /\ \A p \in Paddles : Promise(i, w, ContactPaddle(w, ball, p))
           /\ \A p \in Paddles : Promise(i, w, ContactPlate(w, ball, p))
<1>1. /\ OwnPaddle(i) \in Paddles /\ NoPaddle \notin Paddles
      /\ Paddles = {OwnPaddle(i), PeerPaddle(i)}
      /\ w.lastPaddle[ball] \in {NoPaddle, OwnPaddle(i)}
      /\ w.score \in [Paddles -> Int]
  BY InstancesType, IdsPartition DEF PeerPaddle, Roles, World
<1>2. ASSUME NEW u \in World, NEW p \in Paddles, NEW points \in Int
      PROVE  /\ AddScore(u, p, points).score = [u.score EXCEPT ![p] = @ + points]
             /\ Gone(AddScore(u, p, points)) = Gone(u)
  BY DEF AddScore, World, Gone
<1>3. ASSUME NEW b \in Bricks \cap w.known
      PROVE  Promise(i, w, ContactBrick(w, ball, b))
  <2> DEFINE hit == BrickHit(w, b, ball)
             v == ContactBrick(w, ball, b)
  <2>1. /\ hit \in World /\ hit.score = w.score
        /\ \/ Gone(hit) = Gone(w)
           \/ b \notin Gone(w) /\ Gone(hit) = Gone(w) \cup {b} /\ OwnBall(w, ball)
    BY BrickHitType, HitGone
  <2>2. CASE w.lastPaddle[ball] = NoPaddle
    <3>1. v = hit /\ ~OwnBall(w, ball)
      BY <2>2 DEF ContactBrick, OwnBall
    <3> HIDE DEF v, hit
    <3>2. Promise(i, w, v)
      BY <2>1, <3>1 DEF Promise
    <3> QED
      BY <3>2 DEF v
  <2>3. CASE w.lastPaddle[ball] = OwnPaddle(i)
    <3>1. v = AddScore(hit, OwnPaddle(i), 1)
      BY <1>1, <2>3 DEF ContactBrick
    <3> HIDE DEF v, hit
    <3>2. Gone(v) = Gone(hit) /\ v.score = [w.score EXCEPT ![OwnPaddle(i)] = @ + 1]
      BY <1>1, <1>2, <2>1, <3>1
    <3>3. Promise(i, w, v)
      BY <2>1, <3>2 DEF Promise
    <3> QED
      BY <3>3 DEF v
  <2> QED
    BY <1>1, <2>2, <2>3
<1>4. ASSUME NEW p \in Paddles
      PROVE  Promise(i, w, ContactPaddle(w, ball, p))
  <2> DEFINE v == ContactPaddle(w, ball, p)
  <2>1. v.known = w.known /\ v.duration = w.duration
    BY ContactPaddleType, ContactKeepsBricks
  <2>2. v.score = w.score
    BY DEF ContactPaddle, World
  <2> HIDE DEF v
  <2>3. Promise(i, w, v)
    BY <2>1, <2>2 DEF Promise, Gone
  <2> QED
    BY <2>3 DEF v
<1>5. ASSUME NEW p \in Paddles
      PROVE  Promise(i, w, ContactPlate(w, ball, p))
  <2>1. CASE OwnBall(w, ball)
    <3> DEFINE v == AddScore(w, p, -5)
    <3>1. Gone(v) = Gone(w) /\ v.score = [w.score EXCEPT ![p] = @ + (-5)]
      BY <1>2
    <3>2. p = OwnPaddle(i) \/ p = PeerPaddle(i)
      BY <1>1
    <3>3. [w.score EXCEPT ![p] = @ + (-5)] = [w.score EXCEPT ![p] = @ - 5]
      BY <1>1
    <3> HIDE DEF v
    <3>4. Promise(i, w, v)
      BY <3>1, <3>2, <3>3 DEF Promise
    <3> QED
      BY <2>1, <3>4 DEF v, ContactPlate
  <2>2. CASE ~OwnBall(w, ball)
    <3>1. ContactPlate(w, ball, p) = w
      BY <2>2 DEF ContactPlate
    <3> QED
      BY <3>1 DEF Promise
  <2> QED
    BY <2>1, <2>2
<1> QED
  BY <1>3, <1>4, <1>5

-----------------------------------------------------------------------------
(* What the peer hears was true once                                       *)

\* What msg says of the score of i is one of told.
Says(i, told, msg) == \A g \in msg : g.id = OwnPaddle(i) => g.score \in told

\* Of told are the own score in the world w of i, and the ones in its updates on their way,
\* as in Traffic.
Heard(i, told, w, ts, queue, in) ==
    /\ w.score[OwnPaddle(i)] \in told
    /\ \A t \in Threads : Says(i, told, ts[t].msg)
    /\ \A k \in DOMAIN queue : Says(i, told, queue[k])
    /\ Says(i, told, in)

HeardOf(i) == Heard(i, had[i], world[i], thread[i], net[Peer(i)], inbox[Peer(i)])

\* had only grows, by the own score after a step.
Recorded ==
    had' = [i \in Instances |-> had[i] \cup {world'[i].score[OwnPaddle(i)]}]

HadInv ==
    /\ had = [i \in Instances |-> had[i]]
    /\ \A i \in Instances : 0 \in had[i] /\ HeardOf(i)

LEMMA SaysFacts ==
    ASSUME NEW i \in Instances
    PROVE  /\ \A told : Says(i, told, {})
           /\ \A told, more, msg, part :
                 told \subseteq more /\ part \subseteq msg /\ Says(i, told, msg) =>
                    Says(i, more, part)
BY DEF Says

LEMMA InitHad == HistoryInit => HadInv
BY SaysFacts, InstancesType DEF HistoryInit, Init, HadInv, HeardOf, Heard, EmptyWorld, IdleThread

\* A step in which the updates only say what was said before, or what is recorded.
LEMMA HadStep ==
    ASSUME HadInv, Recorded,
           \A i \in Instances :
              /\ \A t \in Threads : \/ thread'[i][t].msg = thread[i][t].msg
                                    \/ Says(i, had'[i], thread'[i][t].msg)
              /\ \A k \in DOMAIN net'[i] :
                    \/ \E l \in DOMAIN net[i] : net'[i][k] = net[i][l]
                    \/ \E t \in Threads : net'[i][k] = thread[Peer(i)][t].msg
              /\ \/ inbox'[i] \subseteq inbox[i]
                 \/ \E l \in DOMAIN net[i] : inbox'[i] = net[i][l]
    PROVE  HadInv'
<1>1. had' = [i \in Instances |-> had'[i]]
  BY DEF Recorded
<1>2. ASSUME NEW i \in Instances
      PROVE  0 \in had'[i] /\ HeardOf(i)'
  <2>1. /\ had[i] \subseteq had'[i] /\ world'[i].score[OwnPaddle(i)] \in had'[i]
        /\ 0 \in had[i] /\ HeardOf(i)
    BY DEF Recorded, HadInv
  <2>2. Peer(i) \in Instances /\ Peer(Peer(i)) = i
    BY InstancesType
  <2>3. \A t \in Threads : Says(i, had'[i], thread[i][t].msg)
    BY <2>1, SaysFacts DEF HeardOf, Heard
  <2>4. \A t \in Threads : Says(i, had'[i], thread'[i][t].msg)
    BY <2>3
  <2>5. \A l \in DOMAIN net[Peer(i)] : Says(i, had'[i], net[Peer(i)][l])
    BY <2>1, SaysFacts DEF HeardOf, Heard
  <2>6. \A k \in DOMAIN net'[Peer(i)] :
          \/ \E l \in DOMAIN net[Peer(i)] : net'[Peer(i)][k] = net[Peer(i)][l]
          \/ \E t \in Threads : net'[Peer(i)][k] = thread[i][t].msg
    BY <2>2
  <2>7. \A k \in DOMAIN net'[Peer(i)] : Says(i, had'[i], net'[Peer(i)][k])
    BY <2>3, <2>5, <2>6
  <2>8. Says(i, had'[i], inbox'[Peer(i)])
    <3>1. CASE inbox'[Peer(i)] \subseteq inbox[Peer(i)]
      BY <2>1, <3>1, SaysFacts DEF HeardOf, Heard
    <3>2. CASE \E l \in DOMAIN net[Peer(i)] : inbox'[Peer(i)] = net[Peer(i)][l]
      BY <2>5, <3>2
    <3> QED
      BY <2>2, <3>1, <3>2
  <2> QED
    BY <2>1, <2>4, <2>7, <2>8 DEF HeardOf, Heard
<1> QED
  BY <1>1, <1>2 DEF HadInv

\* The steps that neither fill nor move an update.
LEMMA QuietHad ==
    ASSUME HadInv, Recorded, UNCHANGED <<thread, net, inbox>>
    PROVE  HadInv'
BY HadStep

\* A step of one update of i, which says what it said, or what is recorded.
LEMMA ThreadHad ==
    ASSUME TypeOK, HadInv, Recorded, NEW i \in Instances, NEW t \in Threads, NEW u,
           thread' = [thread EXCEPT ![i][t] = u], UNCHANGED <<net, inbox>>,
           u.msg = thread[i][t].msg \/ Says(i, had'[i], u.msg)
    PROVE  HadInv'
<1>1. /\ thread'[i][t] = u
      /\ \A j \in Instances : \A s \in Threads : j # i \/ s # t => thread'[j][s] = thread[j][s]
  BY DEF TypeOK
<1>2. \A j \in Instances : \A s \in Threads :
         thread'[j][s].msg = thread[j][s].msg \/ Says(j, had'[j], thread'[j][s].msg)
  BY <1>1
<1> QED
  BY <1>2, HadStep

\* An element is filled with what it is at the time.
LEMMA FilledSays ==
    ASSUME NEW i \in Instances, NEW w \in World, NEW e \in Ids, NEW told,
           e = OwnPaddle(i) => w.score[e] \in told
    PROVE  /\ FillGameElement(w, e).id = e
           /\ e = OwnPaddle(i) => FillGameElement(w, e).score \in told
<1>1. FillGameElement(w, e).id = e
  BY FillGameElementType
<1>2. OwnPaddle(i) \in Paddles
  BY InstancesType
<1>3. e = OwnPaddle(i) => FillGameElement(w, e).score = w.score[e]
  BY <1>2 DEF FillGameElement
<1> QED
  BY <1>1, <1>3

LEMMA GenerateHad ==
    ASSUME TypeOK, HadInv, Recorded, NEW i \in Instances, Generate(i)
    PROVE  HadInv'
<1>1. PICK d \in [Bricks -> 1 .. MaxDuration], t \in Threads :
        /\ world' = [world EXCEPT ![i] = GeneratedWorld(d)]
        /\ thread' = [thread EXCEPT ![i][t] =
              [pc |-> "set", todo |-> {}, msg |-> FillGameUpdate(GeneratedWorld(d), Ids)]]
  BY DEF Generate
<1> DEFINE w == GeneratedWorld(d)
           u == [pc |-> "set", todo |-> {}, msg |-> FillGameUpdate(w, Ids)]
<1>2. w \in World
  BY GeneratedWorldType
<1>3. world'[i] = w /\ thread' = [thread EXCEPT ![i][t] = u] /\ u.msg = FillGameUpdate(w, Ids)
  BY <1>1 DEF TypeOK
<1>4. UNCHANGED <<net, inbox>>
  BY DEF Generate
<1> HIDE DEF w, u
<1>5. w.score[OwnPaddle(i)] \in had'[i]
  BY <1>3 DEF Recorded
<1>6. \A e \in Ids : /\ FillGameElement(w, e).id = e
                     /\ e = OwnPaddle(i) => FillGameElement(w, e).score \in had'[i]
  BY <1>2, <1>5, FilledSays
<1>7. Says(i, had'[i], u.msg)
  BY <1>3, <1>6 DEF Says, FillGameUpdate
<1> QED
  BY <1>3, <1>4, <1>7, ThreadHad

LEMMA StepUnlockHad ==
    ASSUME TypeOK, HadInv, Recorded, NEW i \in Instances, StepUnlock(i)
    PROVE  HadInv'
<1> DEFINE u == [pc |-> "start", todo |-> world[i].updated, msg |-> {}]
<1>1. /\ UNCHANGED <<net, inbox>>
      /\ UNCHANGED thread \/ \E t \in Threads : thread' = [thread EXCEPT ![i][t] = u]
  BY DEF StepUnlock
<1>2. Says(i, had'[i], u.msg)
  BY SaysFacts
<1> HIDE DEF u
<1> QED
  BY <1>1, <1>2, QuietHad, ThreadHad

LEMMA FillHad ==
    ASSUME TypeOK, HadInv, Recorded, NEW i \in Instances, NEW t \in Threads,
           FillLock(i, t) \/ FillElement(i, t) \/ SendCall(i, t) \/ SetSending(i, t)
           \/ ClearSending(i, t)
    PROVE  HadInv'
<1>1. thread[i][t] \in UpdateThread /\ world[i] \in World
  BY DEF TypeOK
<1>2. UNCHANGED <<world, net, inbox>>
  BY DEF FillLock, FillElement, SendCall, SetSending, ClearSending
<1>3. /\ had[i] \subseteq had'[i] /\ world[i].score[OwnPaddle(i)] \in had'[i]
      /\ Says(i, had'[i], thread[i][t].msg)
  BY <1>2, SaysFacts DEF Recorded, HadInv, HeardOf, Heard
<1>4. Says(i, had'[i], IdleThread.msg)
  BY SaysFacts DEF IdleThread
<1>5. CASE FillElement(i, t)
  <2>1. PICK e \in thread[i][t].todo :
          thread' = [thread EXCEPT ![i][t].todo = @ \ {e},
                                   ![i][t].msg = @ \cup {FillGameElement(world[i], e)}]
    BY <1>5 DEF FillElement
  <2> DEFINE u == [thread[i][t] EXCEPT !.todo = @ \ {e},
                                       !.msg = @ \cup {FillGameElement(world[i], e)}]
  <2>2. thread' = [thread EXCEPT ![i][t] = u]
    BY <2>1 DEF TypeOK
  <2>3. u.msg = thread[i][t].msg \cup {FillGameElement(world[i], e)}
    BY <1>1 DEF UpdateThread
  <2>4. e \in Ids
    BY <1>1 DEF UpdateThread
  <2> HIDE DEF u
  <2>5. /\ FillGameElement(world[i], e).id = e
        /\ e = OwnPaddle(i) => FillGameElement(world[i], e).score \in had'[i]
    BY <1>1, <1>3, <2>4, FilledSays
  <2>6. Says(i, had'[i], u.msg)
    BY <1>3, <2>3, <2>5 DEF Says
  <2> QED
    BY <1>2, <2>2, <2>6, ThreadHad
<1>6. CASE FillLock(i, t) \/ SetSending(i, t)
  <2>1. PICK q : thread' = [thread EXCEPT ![i][t].pc = q]
    BY <1>6 DEF FillLock, SetSending
  <2> DEFINE u == [thread[i][t] EXCEPT !.pc = q]
  <2>2. thread' = [thread EXCEPT ![i][t] = u] /\ u.msg = thread[i][t].msg
    BY <1>1, <2>1 DEF TypeOK, UpdateThread
  <2> HIDE DEF u
  <2> QED
    BY <1>2, <2>2, ThreadHad
<1>7. CASE SendCall(i, t)
  <2> DEFINE u == [thread[i][t] EXCEPT !.pc = "set"]
  <2>1. thread' = [thread EXCEPT ![i][t] = IdleThread] \/ thread' = [thread EXCEPT ![i][t] = u]
    BY <1>7 DEF SendCall, TypeOK
  <2>2. u.msg = thread[i][t].msg
    BY <1>1 DEF UpdateThread
  <2> HIDE DEF u
  <2> QED
    BY <1>2, <1>4, <2>1, <2>2, ThreadHad
<1>8. CASE ClearSending(i, t)
  <2>1. thread' = [thread EXCEPT ![i][t] = IdleThread]
    BY <1>8 DEF ClearSending
  <2> QED
    BY <1>2, <1>4, <2>1, ThreadHad
<1> QED
  BY <1>5, <1>6, <1>7, <1>8

LEMMA WriteHad ==
    ASSUME TypeOK, HadInv, Recorded, NEW i \in Instances, NEW t \in Threads, Write(i, t)
    PROVE  HadInv'
<1> DEFINE u == [thread[i][t] EXCEPT !.pc = "clear", !.msg = {}]
<1>1. thread' = [thread EXCEPT ![i][t] = u] /\ u.msg = {}
  BY DEF Write, TypeOK, UpdateThread
<1>2. /\ UNCHANGED inbox
      /\ net' = net \/ net' = [net EXCEPT ![Peer(i)] = Append(@, thread[i][t].msg)]
  BY DEF Write
<1> HIDE DEF u
<1>3. \A j \in Instances : \A s \in Threads :
         thread'[j][s].msg = thread[j][s].msg \/ Says(j, had'[j], thread'[j][s].msg)
  BY ZenonT(30), <1>1, SaysFacts DEF TypeOK
<1>4. ASSUME NEW j \in Instances, NEW k \in DOMAIN net'[j]
      PROVE  \/ \E l \in DOMAIN net[j] : net'[j][k] = net[j][l]
             \/ \E s \in Threads : net'[j][k] = thread[Peer(j)][s].msg
  <2>1. net[j] \in Seq(GameUpdate) /\ thread[i][t].msg \in GameUpdate
    BY DEF TypeOK, UpdateThread
  <2>2. \/ net'[j] = net[j]
        \/ j = Peer(i) /\ net'[j] = Append(net[j], thread[i][t].msg)
    BY <1>2 DEF TypeOK
  <2>3. CASE j = Peer(i) /\ net'[j] = Append(net[j], thread[i][t].msg)
    <3>1. Peer(j) = i
      BY <2>3, InstancesType
    <3>2. (k \in DOMAIN net[j] /\ net'[j][k] = net[j][k]) \/ net'[j][k] = thread[i][t].msg
      BY <2>1, <2>3, <1>4
    <3> QED
      BY <3>1, <3>2
  <2> QED
    BY <1>4, <2>2, <2>3
<1> QED
  BY <1>2, <1>3, <1>4, HadStep

LEMMA ReaderHad ==
    ASSUME TypeOK, HadInv, Recorded, NEW i \in Instances, Reader(i) \/ Lose(i)
    PROVE  HadInv'
<1>1. CASE ReaderLock(i) \/ Lose(i)
  <2>1. /\ UNCHANGED thread /\ net[i] # <<>> /\ net' = [net EXCEPT ![i] = Tail(@)]
        /\ inbox' = inbox \/ inbox' = [inbox EXCEPT ![i] = Head(net[i])]
    BY <1>1 DEF ReaderLock, Lose
  <2>2. net[i] \in Seq(GameUpdate)
    BY DEF TypeOK
  <2>3. 1 \in DOMAIN net[i] /\ Head(net[i]) = net[i][1]
    BY <2>1, <2>2
  <2>4. \A k \in DOMAIN Tail(net[i]) : k + 1 \in DOMAIN net[i] /\ Tail(net[i])[k] = net[i][k + 1]
    BY <2>1, <2>2
  <2>5. \A j \in Instances : j = i \/ net'[j] = net[j]
    BY <2>1 DEF TypeOK
  <2>6. net'[i] = Tail(net[i])
    BY <2>1 DEF TypeOK
  <2>7. \A j \in Instances : \A k \in DOMAIN net'[j] : \E l \in DOMAIN net[j] : net'[j][k] = net[j][l]
    BY <2>4, <2>5, <2>6
  <2>8. \A j \in Instances : \/ inbox'[j] \subseteq inbox[j]
                             \/ \E l \in DOMAIN net[j] : inbox'[j] = net[j][l]
    BY <2>1, <2>3 DEF TypeOK
  <2> QED
    BY <2>1, <2>7, <2>8, HadStep
<1>2. CASE ParseElement(i)
  <2>1. PICK g \in inbox[i] : inbox' = [inbox EXCEPT ![i] = inbox[i] \ {g}] /\ UNCHANGED <<thread, net>>
    BY <1>2, ParseStep
  <2>2. \A j \in Instances : inbox'[j] \subseteq inbox[j]
    BY <2>1 DEF TypeOK
  <2> QED
    BY <2>1, <2>2, HadStep
<1> QED
  BY <1>1, <1>2 DEF Reader

LEMMA HadKept ==
    ASSUME TypeOK, HadInv, HistoryNext
    PROVE  HadInv'
<1>1. Recorded /\ Next
  BY DEF HistoryNext, Recorded
<1>2. ASSUME NEW i \in Instances,
             \/ Draw(i) \/ DrawLock(i) \/ DisableBrick(i) \/ EndDisabledContact(i) \/ DrawUnlock(i)
             \/ StepLock(i) \/ SkipCheck(i) \/ Check(i) \/ CheckLock(i) \/ CheckUnlock(i)
             \/ Physics(i) \/ Quit(i) \/ Close(i)
      PROVE  UNCHANGED <<thread, net, inbox>>
  BY <1>2 DEF Draw, DrawLock, DisableBrick, EndDisabledContact, DrawUnlock, StepLock, SkipCheck,
              Check, CheckLock, CheckUnlock, Physics, BallHitsBrick, BallHitsPaddle,
              BallHitsPlate, StepContact, Quit, Close
<1>3. ASSUME NEW i \in Instances, NEW t \in Threads, Sender(i, t)
      PROVE  HadInv'
  BY <1>1, <1>3, FillHad, WriteHad DEF Sender
<1>4. ASSUME NEW i \in Instances, Main(i) \/ Physics(i) \/ Quit(i) \/ Close(i)
      PROVE  HadInv'
  <2>1. CASE Generate(i) \/ StepUnlock(i)
    BY <1>1, <2>1, GenerateHad, StepUnlockHad
  <2>2. CASE UNCHANGED <<thread, net, inbox>>
    BY <1>1, <2>2, QuietHad
  <2> QED
    BY <1>2, <1>4, <2>1, <2>2 DEF Main
<1>5. CASE UNCHANGED vars
  BY <1>1, <1>5, QuietHad DEF vars
<1> QED
  BY <1>1, <1>3, <1>4, <1>5, ReaderHad DEF Next, Terminating

LEMMA HistoryIsGame == HistorySpec => Spec
<1>1. HistoryInit => Init
  BY DEF HistoryInit
<1>2. [HistoryNext]_<<vars, had>> => [Next]_vars
  BY DEF HistoryNext
<1> QED
  BY <1>1, <1>2, PTL DEF HistorySpec, Spec

\* An instance only tells own scores that it has had, whatever becomes of the updates.
THEOREM HadInvariant == HistorySpec => []HadInv
<1>1. TypeOK /\ HadInv /\ [HistoryNext]_<<vars, had>> => HadInv'
  <2>1. TypeOK /\ HadInv /\ HistoryNext => HadInv'
    BY HadKept
  <2>2. HadInv /\ UNCHANGED <<vars, had>> => HadInv'
    BY DEF vars, HadInv, HeardOf
  <2> QED
    BY <2>1, <2>2
<1> QED
  BY InitHad, <1>1, HistoryIsGame, TypeCorrect, PTL DEF HistorySpec

\* Who has a verdict has left the loop.
VerdictLast == \A i \in Instances : pc[i] \notin {"over", "closed"} => winner[i] = -1

LEMMA VerdictKept ==
    ASSUME TypeOK, VerdictLast, [Next]_vars
    PROVE  VerdictLast'
<1> SUFFICES ASSUME NEW j \in Instances, pc'[j] \notin {"over", "closed"}
             PROVE  winner'[j] = -1
  BY DEF VerdictLast
<1>1. ASSUME UNCHANGED <<pc, winner>>
      PROVE  winner'[j] = -1
  BY <1>1 DEF VerdictLast
<1>2. ASSUME NEW i \in Instances,
             \/ Generate(i) \/ Draw(i) \/ DrawLock(i) \/ DrawUnlock(i) \/ StepLock(i)
             \/ StepUnlock(i) \/ SkipCheck(i) \/ CheckLock(i) \/ Quit(i) \/ Close(i)
      PROVE  winner'[j] = -1
  <2>1. UNCHANGED winner
    BY <1>2 DEF Generate, Draw, DrawLock, DrawUnlock, StepLock, StepUnlock, SkipCheck, CheckLock,
                Quit, Close
  <2>2. pc[j] \notin {"over", "closed"}
    BY <1>2 DEF TypeOK, Generate, Draw, DrawLock, DrawUnlock, StepLock, StepUnlock, SkipCheck,
                CheckLock, Quit, Close, GoTo
  <2> QED
    BY <2>1, <2>2 DEF VerdictLast
<1>3. ASSUME NEW i \in Instances, Check(i) \/ CheckUnlock(i)
      PROVE  winner'[j] = -1
  <2>1. Decide(i) /\ pc[i] \in {"check", "checking"}
    BY <1>3 DEF Check, CheckUnlock
  <2>2. CASE i = j
    <3>1. GetWinner(world[i], ptrs[i]) < 0 /\ winner'[j] = GetWinner(world[i], ptrs[i])
      BY <2>1, <2>2 DEF Decide, TypeOK
    <3> QED
      BY <3>1 DEF GetWinner
  <2>3. CASE i # j
    BY <2>1, <2>3 DEF Decide, TypeOK, VerdictLast
  <2> QED
    BY <2>2, <2>3
<1>4. ASSUME NEW i \in Instances,
             DisableBrick(i) \/ EndDisabledContact(i) \/ Physics(i) \/ Reader(i) \/ Lose(i)
      PROVE  UNCHANGED <<pc, winner>>
  BY <1>4 DEF DisableBrick, EndDisabledContact, Physics, BallHitsBrick, BallHitsPaddle,
              BallHitsPlate, StepContact, Reader, ReaderLock, ParseElement, Lose
<1>5. ASSUME NEW i \in Instances, NEW t \in Threads, Sender(i, t)
      PROVE  UNCHANGED <<pc, winner>>
  BY <1>5 DEF Sender, FillLock, FillElement, SendCall, SetSending, Write, ClearSending
<1>6. UNCHANGED vars => UNCHANGED <<pc, winner>>
  BY DEF vars
<1>7. Next => \/ \E i \in Instances : \/ Generate(i) \/ Draw(i) \/ DrawLock(i) \/ DrawUnlock(i)
                                      \/ StepLock(i) \/ StepUnlock(i) \/ SkipCheck(i)
                                      \/ CheckLock(i) \/ Quit(i) \/ Close(i)
              \/ \E i \in Instances : Check(i) \/ CheckUnlock(i)
              \/ UNCHANGED <<pc, winner>>
  BY <1>4, <1>5, <1>6 DEF Next, Main, Terminating
<1> QED
  BY <1>1, <1>2, <1>3, <1>6, <1>7

THEOREM VerdictLastInvariant == Spec => []VerdictLast
<1>1. Init => VerdictLast
  BY DEF Init, VerdictLast
<1> QED
  BY <1>1, VerdictKept, TypeCorrect, PTL DEF Spec

-----------------------------------------------------------------------------
(* Each step is one of a Match                                             *)

MatchStep == M!Next \/ UNCHANGED matchVars

\* What a step shows in the Match that makes v of the world of i.
LEMMA MatchWorld ==
    ASSUME TypeOK, HadInv, Recorded, NEW i \in Instances, NEW v,
           world' = [world EXCEPT ![i] = v]
    PROVE  /\ MatchBroken[i] = Gone(world[i]) /\ MatchScore[i] = world[i].score[OwnPaddle(i)]
           /\ MatchHeard[i] = world[i].score[PeerPaddle(i)]
           /\ MatchBroken' = [MatchBroken EXCEPT ![i] = Gone(v)]
           /\ MatchScore' = [MatchScore EXCEPT ![i] = v.score[OwnPaddle(i)]]
           /\ MatchHeard' = [MatchHeard EXCEPT ![i] = v.score[PeerPaddle(i)]]
           /\ had' = [had EXCEPT ![i] = @ \cup {v.score[OwnPaddle(i)]}]
<1>1. world'[i] = v /\ \A j \in Instances \ {i} : world'[j] = world[j]
  BY DEF TypeOK
<1>2. /\ MatchBroken = [j \in Instances |-> Gone(world[j])]
      /\ MatchBroken' = [j \in Instances |-> Gone(world'[j])]
  BY DEF MatchBroken, Broken, Gone
<1>3. MatchBroken' = [MatchBroken EXCEPT ![i] = Gone(v)]
  BY <1>1, <1>2
<1>4. MatchScore' = [MatchScore EXCEPT ![i] = v.score[OwnPaddle(i)]]
  <2>1. \A j \in Instances : world'[j].score[OwnPaddle(j)] =
           IF j = i THEN v.score[OwnPaddle(i)] ELSE world[j].score[OwnPaddle(j)]
    BY <1>1
  <2>2. MatchScore' = [j \in Instances |-> world'[j].score[OwnPaddle(j)]]
    BY DEF MatchScore
  <2> QED
    BY <2>1, <2>2 DEF MatchScore
<1>5. MatchHeard' = [MatchHeard EXCEPT ![i] = v.score[PeerPaddle(i)]]
  <2>1. \A j \in Instances : world'[j].score[PeerPaddle(j)] =
           IF j = i THEN v.score[PeerPaddle(i)] ELSE world[j].score[PeerPaddle(j)]
    BY <1>1
  <2>2. /\ MatchHeard' = [j \in Instances |-> world'[j].score[PeerPaddle(j)]]
        /\ MatchHeard = [j \in Instances |-> world[j].score[PeerPaddle(j)]]
    BY DEF MatchHeard, PeerPaddle
  <2> QED
    BY <2>1, <2>2
<1>6. had' = [had EXCEPT ![i] = @ \cup {v.score[OwnPaddle(i)]}]
  <2>1. \A j \in Instances \ {i} : had[j] \cup {world'[j].score[OwnPaddle(j)]} = had[j]
    BY <1>1 DEF HadInv, HeardOf, Heard
  <2>2. had = [j \in Instances |-> had[j]]
    BY DEF HadInv
  <2>3. had' = [j \in Instances |-> had[j] \cup {world'[j].score[OwnPaddle(j)]}]
    BY DEF Recorded
  <2> QED
    BY ZenonT(30), <1>1, <2>1, <2>2, <2>3
<1> QED
  BY <1>2, <1>3, <1>4, <1>5, <1>6 DEF MatchScore, MatchHeard, PeerPaddle

\* The fields of the Match are functions on the instances, the players of a world differ.
LEMMA MatchTypes ==
    ASSUME TypeOK, HadInv, NEW i \in Instances
    PROVE  /\ MatchBroken = [MatchBroken EXCEPT ![i] = @]
           /\ MatchScore = [MatchScore EXCEPT ![i] = @]
           /\ MatchHeard = [MatchHeard EXCEPT ![i] = @]
           /\ world[i].score[OwnPaddle(i)] \in had[i]
           /\ had = [had EXCEPT ![i] = @ \cup {world[i].score[OwnPaddle(i)]}]
<1>1. world[i].score[OwnPaddle(i)] \in had[i] /\ had = [j \in Instances |-> had[j]]
  BY DEF HadInv, HeardOf, Heard
<1>2. had = [had EXCEPT ![i] = @ \cup {world[i].score[OwnPaddle(i)]}]
  BY <1>1
<1> QED
  BY ZenonT(30), <1>1, <1>2 DEF MatchBroken, MatchScore, MatchHeard

\* A step in which neither bricks nor scores change.
LEMMA SameMatch ==
    ASSUME TypeOK, HadInv, Recorded, NEW i \in Instances, NEW v,
           world' = [world EXCEPT ![i] = v], UNCHANGED winner,
           Gone(v) = Gone(world[i]), v.score[OwnPaddle(i)] = world[i].score[OwnPaddle(i)],
           v.score[PeerPaddle(i)] = world[i].score[PeerPaddle(i)]
    PROVE  MatchStep
<1>1. /\ MatchBroken[i] = Gone(world[i]) /\ MatchScore[i] = world[i].score[OwnPaddle(i)]
      /\ MatchHeard[i] = world[i].score[PeerPaddle(i)]
      /\ MatchBroken' = [MatchBroken EXCEPT ![i] = Gone(v)]
      /\ MatchScore' = [MatchScore EXCEPT ![i] = v.score[OwnPaddle(i)]]
      /\ MatchHeard' = [MatchHeard EXCEPT ![i] = v.score[PeerPaddle(i)]]
      /\ had' = [had EXCEPT ![i] = @ \cup {v.score[OwnPaddle(i)]}]
  BY MatchWorld
<1>2. /\ MatchBroken = [MatchBroken EXCEPT ![i] = @]
      /\ MatchScore = [MatchScore EXCEPT ![i] = @]
      /\ MatchHeard = [MatchHeard EXCEPT ![i] = @]
      /\ had = [had EXCEPT ![i] = @ \cup {world[i].score[OwnPaddle(i)]}]
  BY MatchTypes
<1>3. MatchBroken' = MatchBroken
  BY <1>1, <1>2
<1>4. MatchScore' = MatchScore
  BY <1>1, <1>2
<1>5. MatchHeard' = MatchHeard
  BY <1>1, <1>2
<1>6. had' = had
  BY <1>1, <1>2
<1> QED
  BY <1>3, <1>4, <1>5, <1>6 DEF MatchStep, matchVars

\* The main thread keeps the promises of an undecided match.
LEMMA PromiseStep ==
    ASSUME TypeOK, HadInv, Recorded, NEW i \in Instances, NEW v,
           world' = [world EXCEPT ![i] = v], UNCHANGED winner, winner[i] = -1,
           Promise(i, world[i], v)
    PROVE  MatchStep
<1>1. /\ MatchBroken[i] = Gone(world[i]) /\ MatchScore[i] = world[i].score[OwnPaddle(i)]
      /\ MatchHeard[i] = world[i].score[PeerPaddle(i)]
      /\ MatchBroken' = [MatchBroken EXCEPT ![i] = Gone(v)]
      /\ MatchScore' = [MatchScore EXCEPT ![i] = v.score[OwnPaddle(i)]]
      /\ MatchHeard' = [MatchHeard EXCEPT ![i] = v.score[PeerPaddle(i)]]
      /\ had' = [had EXCEPT ![i] = @ \cup {v.score[OwnPaddle(i)]}]
  BY MatchWorld
<1>2. /\ MatchBroken = [MatchBroken EXCEPT ![i] = @]
      /\ MatchScore = [MatchScore EXCEPT ![i] = @]
      /\ MatchHeard = [MatchHeard EXCEPT ![i] = @]
      /\ had = [had EXCEPT ![i] = @ \cup {world[i].score[OwnPaddle(i)]}]
  BY MatchTypes
<1>3. /\ world[i].score \in [Paddles -> Int] /\ OwnPaddle(i) \in Paddles
      /\ PeerPaddle(i) \in Paddles /\ PeerPaddle(i) # OwnPaddle(i)
  BY InstancesType DEF TypeOK, World, PeerPaddle
<1>4. CASE Gone(v) = Gone(world[i]) /\ v.score = world[i].score
  BY <1>4, SameMatch
<1>5. ASSUME NEW points \in Int, v.score = [world[i].score EXCEPT ![OwnPaddle(i)] = @ + points]
      PROVE  /\ MatchScore' = [MatchScore EXCEPT ![i] = @ + points]
             /\ had' = [had EXCEPT ![i] = @ \cup {MatchScore[i] + points}]
             /\ MatchHeard' = MatchHeard
  <2>1. /\ v.score[OwnPaddle(i)] = MatchScore[i] + points
        /\ v.score[PeerPaddle(i)] = MatchHeard[i]
    BY <1>1, <1>3, <1>5
  <2>2. MatchHeard' = MatchHeard
    BY <1>1, <1>2, <2>1
  <2>3. MatchScore' = [MatchScore EXCEPT ![i] = @ + points]
    BY <1>1, <2>1
  <2> QED
    BY <1>1, <2>1, <2>2, <2>3
<1>6. ASSUME NEW b \in Bricks \ Gone(world[i]), Gone(v) = Gone(world[i]) \cup {b},
             v.score = [world[i].score EXCEPT ![OwnPaddle(i)] = @ + 1]
      PROVE  MatchStep
  <2>1. MatchBroken' = [MatchBroken EXCEPT ![i] = @ \cup {b}] /\ b \notin MatchBroken[i]
    BY <1>1, <1>6
  <2>2. /\ MatchScore' = [MatchScore EXCEPT ![i] = @ + 1]
        /\ had' = [had EXCEPT ![i] = @ \cup {MatchScore[i] + 1}]
        /\ MatchHeard' = MatchHeard
    BY <1>5, <1>6
  <2> QED
    BY <2>1, <2>2, MatchBreak DEF MatchStep
<1>7. ASSUME NEW points \in {1, -5}, Gone(v) = Gone(world[i]),
             v.score = [world[i].score EXCEPT ![OwnPaddle(i)] = @ + points]
      PROVE  MatchStep
  <2>1. MatchBroken' = MatchBroken
    BY <1>1, <1>2, <1>7
  <2>2. /\ MatchScore' = [MatchScore EXCEPT ![i] = @ + points]
        /\ had' = [had EXCEPT ![i] = @ \cup {MatchScore[i] + points}]
        /\ MatchHeard' = MatchHeard
    BY <1>5, <1>7
  <2> QED
    BY <2>1, <2>2, MatchEarn DEF MatchStep
<1>8. ASSUME Gone(v) = Gone(world[i]), v.score = [world[i].score EXCEPT ![PeerPaddle(i)] = @ - 5]
      PROVE  MatchStep
  <2>1. /\ v.score[OwnPaddle(i)] = world[i].score[OwnPaddle(i)]
        /\ v.score[PeerPaddle(i)] = MatchHeard[i] - 5
    BY <1>1, <1>3, <1>8
  <2>2. MatchBroken' = MatchBroken
    BY <1>1, <1>2, <1>8
  <2>3. MatchScore' = MatchScore
    BY <1>1, <1>2, <2>1
  <2>4. had' = had
    BY <1>1, <1>2, <2>1
  <2>5. MatchHeard' = [MatchHeard EXCEPT ![i] = @ - 5]
    BY <1>1, <2>1
  <2> QED
    BY <2>2, <2>3, <2>4, <2>5, MatchCharge DEF MatchStep
<1> QED
  BY <1>4, <1>6, <1>7, <1>8 DEF Promise

\* Contacts, which only happen before a verdict, and the other locked steps.
LEMMA ContactMatch ==
    ASSUME TypeOK, RolesInv, LockInv, HadInv, VerdictLast, Recorded, NEW i \in Instances,
           Physics(i) \/ EndDisabledContact(i)
    PROVE  MatchStep
<1>1. /\ world[i] \in World /\ Roles(i, world[i]) /\ UNCHANGED winner
      /\ pc[i] \in {"drawing", "checking", "stepping"}
  BY DEF TypeOK, RolesInv, WorldRoles, LockInv, Physics, BallHitsBrick, BallHitsPaddle,
         BallHitsPlate, StepContact, EndDisabledContact
<1>2. winner[i] = -1
  BY <1>1 DEF VerdictLast
<1>3. \A ball \in Balls :
         /\ \A b \in Bricks \cap world[i].known :
               Promise(i, world[i], ContactBrick(world[i], ball, b))
         /\ \A p \in Paddles : /\ Promise(i, world[i], ContactPaddle(world[i], ball, p))
                               /\ Promise(i, world[i], ContactPlate(world[i], ball, p))
  BY <1>1, ContactPromise
<1>4. \E v : world' = [world EXCEPT ![i] = v] /\ Promise(i, world[i], v)
  <2>1. CASE Physics(i)
    <3>1. PICK ball \in Balls \cap world[i].known :
            \/ \E b \in Bricks \cap world[i].known :
                  StepContact(i, ContactBrick(world[i], ball, b))
            \/ \E p \in Paddles \cap world[i].known :
                  StepContact(i, ContactPaddle(world[i], ball, p))
            \/ \E p \in Paddles :
                  StepContact(i, ContactPlate(world[i], ball, p))
      BY <2>1, PhysicsWorld
    <3>2. \A v : StepContact(i, v) => world' = [world EXCEPT ![i] = v]
      BY DEF StepContact
    <3> QED
      BY <1>3, <3>1, <3>2
  <2>2. CASE EndDisabledContact(i)
    <3>1. PICK c \in ending[i] : world' = [world EXCEPT ![i] = ContactBrick(@, c[1], c[2])]
      BY <2>2 DEF EndDisabledContact
    <3>2. c[1] \in Balls /\ c[2] \in Bricks \cap world[i].known
      BY DEF TypeOK, RolesInv, EndingKnown
    <3>3. world' = [world EXCEPT ![i] = ContactBrick(world[i], c[1], c[2])]
      BY <3>1
    <3> QED
      BY <1>3, <3>2, <3>3
  <2> QED
    BY <2>1, <2>2
<1> QED
  BY <1>1, <1>2, <1>4, PromiseStep

LEMMA LockedMatch ==
    ASSUME TypeOK, HadInv, Recorded, NEW i \in Instances,
           DisableBrick(i) \/ StepLock(i) \/ StepUnlock(i)
    PROVE  MatchStep
<1>1. world[i] \in World /\ UNCHANGED winner
  BY DEF TypeOK, DisableBrick, StepLock, StepUnlock
<1>2. ASSUME NEW v, world' = [world EXCEPT ![i] = v], v.known = world[i].known,
             v.duration = world[i].duration, v.score = world[i].score
      PROVE  MatchStep
  <2>1. Gone(v) = Gone(world[i])
    BY <1>2 DEF Gone
  <2> QED
    BY <1>1, <1>2, <2>1, SameMatch
<1>3. CASE DisableBrick(i)
  <2>1. PICK b \in Bricks : world' = [world EXCEPT ![i].enabled = @ \ {b}]
    BY <1>3 DEF DisableBrick, ToDisable, TypeOK, World
  <2> DEFINE v == [world[i] EXCEPT !.enabled = @ \ {b}]
  <2>2. /\ world' = [world EXCEPT ![i] = v] /\ v.known = world[i].known
        /\ v.duration = world[i].duration /\ v.score = world[i].score
    BY <1>1, <2>1 DEF TypeOK, World
  <2> HIDE DEF v
  <2> QED
    BY <1>2, <2>2
<1>4. CASE StepLock(i) \/ StepUnlock(i)
  <2>1. world' = world \/ \E marked : world' = [world EXCEPT ![i].updated = marked]
    <3>1. CASE StepUnlock(i)
      BY <3>1 DEF StepUnlock
    <3>2. CASE StepLock(i)
      <4>1. \/ world' = world
            \/ world' = [world EXCEPT ![i].updated =
                            @ \cup {FindPaddlePtrs(world[i], ptrs[i]).your}]
        BY <3>2 DEF StepLock
      <4> QED
        BY <4>1
    <3> QED
      BY <1>4, <3>1, <3>2
  <2>2. CASE world' = world
    <3>1. world' = [world EXCEPT ![i] = world[i]]
      BY <2>2 DEF TypeOK
    <3> QED
      BY <1>2, <3>1
  <2>3. ASSUME NEW marked, world' = [world EXCEPT ![i].updated = marked]
        PROVE  MatchStep
    <3> DEFINE v == [world[i] EXCEPT !.updated = marked]
    <3>1. /\ world' = [world EXCEPT ![i] = v] /\ v.known = world[i].known
          /\ v.duration = world[i].duration /\ v.score = world[i].score
      BY <1>1, <2>3 DEF TypeOK, World
    <3> HIDE DEF v
    <3> QED
      BY <1>2, <3>1
  <2> QED
    BY <2>1, <2>2, <2>3
<1> QED
  BY <1>3, <1>4

\* The host makes a board with no broken brick, and both scores are 0.
LEMMA GenerateMatch ==
    ASSUME TypeOK, RolesInv, BoardInv, ScoreInv, BrickInv, HadInv, Recorded, NEW i \in Instances,
           Generate(i)
    PROVE  MatchStep
<1>1. PICK d \in [Bricks -> 1 .. MaxDuration] : world' = [world EXCEPT ![i] = GeneratedWorld(d)]
  BY DEF Generate
<1> DEFINE v == GeneratedWorld(d)
<1>2. /\ i = "host" /\ pc["host"] = "setup" /\ UNCHANGED winner
  BY DEF Generate, GoTo, RolesInv, SetupByHost
<1>3. Gone(world[i]) = {}
  BY <1>2 DEF BrickInv, HostSetup, Gone
<1>4. v.known = Ids /\ v.duration = d /\ \A p \in Paddles : v.score[p] = 0
  BY DEF GeneratedWorld, EmptyWorld
<1>5. world[i].score[OwnPaddle(i)] = 0
  BY <1>2 DEF BoardInv, HostHasBoard, ScoreInv, Scored, Fresh, OwnPaddle
<1>6. OwnPaddle(i) \in Paddles /\ PeerPaddle(i) \in Paddles /\ Peer(i) \in Instances
  BY InstancesType DEF PeerPaddle
<1>7. world' = [world EXCEPT ![i] = v]
  BY <1>1
<1> HIDE DEF v
<1>8. Gone(v) = {}
  BY <1>4, ElementsAssumption DEF Gone
<1>9. /\ MatchBroken[i] = Gone(world[i]) /\ MatchScore[i] = world[i].score[OwnPaddle(i)]
      /\ MatchBroken' = [MatchBroken EXCEPT ![i] = Gone(v)]
      /\ MatchScore' = [MatchScore EXCEPT ![i] = v.score[OwnPaddle(i)]]
      /\ MatchHeard' = [MatchHeard EXCEPT ![i] = v.score[PeerPaddle(i)]]
      /\ had' = [had EXCEPT ![i] = @ \cup {v.score[OwnPaddle(i)]}]
  BY <1>7, MatchWorld
<1>10. /\ MatchBroken = [MatchBroken EXCEPT ![i] = @]
       /\ MatchScore = [MatchScore EXCEPT ![i] = @]
       /\ had = [had EXCEPT ![i] = @ \cup {world[i].score[OwnPaddle(i)]}]
  BY MatchTypes
<1>11. MatchBroken' = MatchBroken
  BY <1>3, <1>8, <1>9, <1>10
<1>12. MatchScore' = MatchScore
  BY <1>4, <1>5, <1>6, <1>9, <1>10
<1>13. had' = had
  BY <1>4, <1>5, <1>6, <1>9, <1>10
<1>14. 0 \in had[Peer(i)] /\ MatchHeard' = [MatchHeard EXCEPT ![i] = 0]
  BY <1>4, <1>6, <1>9 DEF HadInv
<1> QED
  BY <1>2, <1>11, <1>12, <1>13, <1>14, MatchHear DEF MatchStep

\* What becomes of bricks and scores when g is parsed.
LEMMA ParsedMatch ==
    ASSUME NEW w \in World, NEW g \in GameElement
    PROVE  LET v == ParseGameElement(w, g)
           IN /\ g.id \notin Paddles => v.score = w.score
              /\ g.id \in Paddles => v.score = [w.score EXCEPT ![g.id] = g.score]
              /\ g.id \notin Bricks => Gone(v) = Gone(w)
              /\ g.id \in Bricks /\ g.duration <= 0 => Gone(v) = Gone(w) \cup {g.id}
              /\ g.id \in Bricks \ w.known /\ g.duration > 0 => Gone(v) = Gone(w)
<1> DEFINE v == ParseGameElement(w, g)
<1>1. w.duration \in [Bricks -> Int] /\ v.known = w.known \cup {g.id}
  BY ParseGameElementType DEF World
<1>2. /\ g.id \notin Paddles => v.score = w.score
      /\ g.id \in Paddles => v.score = [w.score EXCEPT ![g.id] = g.score]
  BY DEF ParseGameElement, World
<1>3. v.duration = IF g.id \in Bricks THEN [w.duration EXCEPT ![g.id] = g.duration]
                   ELSE w.duration
  BY IdsPartition DEF ParseGameElement, World
<1>4. g.id \in Bricks => g.duration \in Int
  BY GameElementById
<1> HIDE DEF v
<1>5. g.id \notin Bricks => Gone(v) = Gone(w)
  BY <1>1, <1>3 DEF Gone
<1>6. ASSUME g.id \in Bricks
      PROVE  /\ v.duration[g.id] = g.duration
             /\ \A c \in Bricks \ {g.id} : v.duration[c] = w.duration[c]
  BY <1>1, <1>3, <1>6
<1>7. g.id \in Bricks /\ g.duration <= 0 => Gone(v) = Gone(w) \cup {g.id}
  BY <1>1, <1>6 DEF Gone
<1>8. g.id \in Bricks \ w.known /\ g.duration > 0 => Gone(v) = Gone(w)
  BY <1>1, <1>4, <1>6 DEF Gone
<1>9. /\ g.id \notin Paddles => v.score = w.score
      /\ g.id \in Paddles => v.score = [w.score EXCEPT ![g.id] = g.score]
      /\ g.id \notin Bricks => Gone(v) = Gone(w)
      /\ g.id \in Bricks /\ g.duration <= 0 => Gone(v) = Gone(w) \cup {g.id}
      /\ g.id \in Bricks \ w.known /\ g.duration > 0 => Gone(v) = Gone(w)
  BY <1>2, <1>5, <1>7, <1>8
<1> QED
  BY <1>9 DEF v

LEMMA ParseMatch ==
    ASSUME InitialFirst, TypeOK, BoardInv, ScoreInv, BrickInv, HadInv, Recorded,
           NEW i \in Instances, ParseElement(i)
    PROVE  MatchStep
<1>1. PICK g \in inbox[i] :
        /\ world' = [world EXCEPT ![i] = ParseGameElement(world[i], g)]
        /\ g \in GameElement /\ world[i] \in World
  BY ParseStep
<1> DEFINE w == world[i]
           v == ParseGameElement(w, g)
<1>2. UNCHANGED winner /\ world' = [world EXCEPT ![i] = v]
  BY <1>1 DEF ParseElement
<1>3. /\ g.id \notin Paddles => v.score = w.score
      /\ g.id \in Paddles => v.score = [w.score EXCEPT ![g.id] = g.score]
      /\ g.id \notin Bricks => Gone(v) = Gone(w)
      /\ g.id \in Bricks /\ g.duration <= 0 => Gone(v) = Gone(w) \cup {g.id}
      /\ g.id \in Bricks \ w.known /\ g.duration > 0 => Gone(v) = Gone(w)
  BY <1>1, ParsedMatch
<1>4. v.score[OwnPaddle(i)] = w.score[OwnPaddle(i)]
  BY ParsedScore
<1>5. /\ w.score \in [Paddles -> Int] /\ PeerPaddle(i) \in Paddles /\ Peer(i) \in Instances
      /\ Paddles = {OwnPaddle(i), PeerPaddle(i)} /\ OwnPaddle(i) # PeerPaddle(i)
      /\ Paddles \cap Bricks = {}
  BY <1>1, InstancesType, IdsPartition DEF World, PeerPaddle
<1>6. /\ Tame(Gone(world[Peer(i)]), g) \/ (g.duration > 0 /\ g.id \notin w.known)
      /\ g.id = PeerPaddle(i) => g.score \in had[Peer(i)]
  <2>1. Tame(Gone(world[Peer(i)]), g) \/ (g.duration > 0 /\ g.id \notin w.known)
    BY ParsedBrick
  <2>2. Heard(Peer(i), had[Peer(i)], world[Peer(i)], thread[Peer(i)], net[i], inbox[i])
    BY InstancesType DEF HadInv, HeardOf
  <2>3. g.id = PeerPaddle(i) => g.score \in had[Peer(i)]
    BY <2>2 DEF Heard, Says, PeerPaddle
  <2> QED
    BY <2>1, <2>3
<1>7. /\ MatchBroken[i] = Gone(w) /\ MatchScore[i] = w.score[OwnPaddle(i)]
      /\ MatchHeard[i] = w.score[PeerPaddle(i)]
      /\ MatchBroken' = [MatchBroken EXCEPT ![i] = Gone(v)]
      /\ MatchScore' = [MatchScore EXCEPT ![i] = v.score[OwnPaddle(i)]]
      /\ MatchHeard' = [MatchHeard EXCEPT ![i] = v.score[PeerPaddle(i)]]
      /\ had' = [had EXCEPT ![i] = @ \cup {v.score[OwnPaddle(i)]}]
  BY <1>2, MatchWorld
<1>8. /\ MatchBroken = [MatchBroken EXCEPT ![i] = @]
      /\ MatchScore = [MatchScore EXCEPT ![i] = @]
      /\ MatchHeard = [MatchHeard EXCEPT ![i] = @]
      /\ had = [had EXCEPT ![i] = @ \cup {w.score[OwnPaddle(i)]}]
  BY MatchTypes
<1> HIDE DEF w, v
<1>9. MatchScore' = MatchScore
  BY <1>4, <1>7, <1>8
<1>10. had' = had
  BY <1>4, <1>7, <1>8
<1>11. CASE g.id = PeerPaddle(i)
  <2>1. MatchBroken' = MatchBroken
    BY <1>3, <1>5, <1>7, <1>8, <1>11
  <2>2. v.score[PeerPaddle(i)] = g.score
    BY <1>3, <1>5, <1>11
  <2>3. MatchHeard' = [MatchHeard EXCEPT ![i] = g.score]
    BY <1>7, <2>2
  <2> QED
    BY <1>2, <1>6, <1>9, <1>10, <1>11, <2>1, <2>3, MatchHear DEF MatchStep
<1>12. CASE g.id # PeerPaddle(i)
  <2>1. v.score[PeerPaddle(i)] = w.score[PeerPaddle(i)]
    BY <1>3, <1>5, <1>12
  <2>2. MatchHeard' = MatchHeard
    BY <1>7, <1>8, <2>1
  <2>3. CASE Gone(v) = Gone(w)
    <3>1. MatchBroken' = MatchBroken
      BY <1>7, <1>8, <2>3
    <3> QED
      BY <1>2, <1>9, <1>10, <2>2, <3>1 DEF MatchStep, matchVars
  <2>4. CASE g.id \in Bricks /\ g.id \notin Gone(w) /\ Tame(Gone(world[Peer(i)]), g)
    <3>1. g.duration <= 0 /\ g.id \in Gone(world[Peer(i)])
      BY <2>4 DEF Tame
    <3>2. MatchBroken' = [MatchBroken EXCEPT ![i] = @ \cup {g.id}]
      BY <1>3, <1>7, <2>4, <3>1
    <3>3. g.id \notin MatchBroken[i] /\ g.id \in MatchBroken[Peer(i)]
      <4>1. MatchBroken[Peer(i)] = Gone(world[Peer(i)])
        BY <1>5 DEF MatchBroken, Broken, Gone
      <4> QED
        BY <1>7, <2>4, <3>1, <4>1
    <3> QED
      BY <1>2, <1>9, <1>10, <2>2, <2>4, <3>2, <3>3, MatchLearn DEF MatchStep
  <2>5. Gone(v) = Gone(w) \/ (g.id \in Bricks /\ g.id \notin Gone(w) /\ Tame(Gone(world[Peer(i)]), g))
    <3>1. CASE g.id \notin Bricks
      BY <1>3, <3>1
    <3>2. CASE g.id \in Bricks /\ Tame(Gone(world[Peer(i)]), g)
      <4>1. Gone(v) = Gone(w) \cup {g.id}
        BY <1>3, <3>2 DEF Tame
      <4> QED
        BY <3>2, <4>1
    <3>3. CASE g.id \in Bricks /\ g.duration > 0 /\ g.id \notin w.known
      BY <1>3, <3>3
    <3> QED
      BY <1>6, <3>1, <3>2, <3>3
  <2> QED
    BY <2>3, <2>4, <2>5
<1> QED
  BY <1>11, <1>12

\* A verdict comes once, on a cleared board, from the scores as they are known.
LEMMA VerdictMatch ==
    ASSUME TypeOK, RolesInv, LockInv, BoardInv, HadInv, VerdictLast, Recorded,
           NEW i \in Instances, Check(i) \/ CheckUnlock(i)
    PROVE  MatchStep
<1>1. /\ world' = world /\ winner' = [winner EXCEPT ![i] = GetWinner(world[i], ptrs[i])]
      /\ pc[i] \in {"check", "checking"} /\ winner \in [Instances -> -1 .. 2]
  BY DEF TypeOK, Check, CheckUnlock, Decide
<1>2. winner[i] = -1 /\ world[i] \in World
  BY <1>1 DEF VerdictLast, TypeOK
<1>3. UNCHANGED <<MatchBroken, MatchScore, had, MatchHeard>>
  <2>1. UNCHANGED <<MatchBroken, MatchScore, MatchHeard>>
    BY <1>1 DEF MatchBroken, Broken, MatchScore, MatchHeard
  <2>2. had' = had
    BY <1>1 DEF Recorded, HadInv, HeardOf, Heard
  <2> QED
    BY <2>1, <2>2
<1>4. CASE GetWinner(world[i], ptrs[i]) = -1
  <2>1. winner' = winner
    BY <1>1, <1>2, <1>4
  <2> QED
    BY <1>3, <2>1 DEF MatchStep, matchVars
<1>5. CASE GetWinner(world[i], ptrs[i]) # -1
  <2>1. /\ NoBrickExists(world[i]) /\ ptrs[i].your # NoPaddle /\ ptrs[i].enemy # NoPaddle
        /\ GetWinner(world[i], ptrs[i]) =
              IF world[i].score[ptrs[i].your] > world[i].score[ptrs[i].enemy] THEN 0
              ELSE IF world[i].score[ptrs[i].your] < world[i].score[ptrs[i].enemy] THEN 1 ELSE 2
    BY <1>5 DEF GetWinner
  <2>2. ptrs[i].your = OwnPaddle(i) /\ ptrs[i].enemy = OwnPaddle(Peer(i))
    BY <2>1 DEF RolesInv, PaddlePtrsRoles
  <2>3. world[i].known = Ids
    <3>1. winner'[i] >= 0
      BY <1>1, <2>1
    <3> QED
      BY <3>1, VerdictKnowsBoard
  <2>4. MatchBroken[i] = Bricks
    <3>1. \A b \in Bricks : Broken(i, b)
      BY <1>2, <2>1, <2>3, IdsPartition DEF Broken, NoBrickExists, BrickExists, World
    <3> QED
      BY <3>1 DEF MatchBroken
  <2>5. GetWinner(world[i], ptrs[i]) =
          IF MatchScore[i] > MatchHeard[i] THEN 0
          ELSE IF MatchScore[i] < MatchHeard[i] THEN 1 ELSE 2
    BY <2>1, <2>2 DEF MatchScore, MatchHeard
  <2>6. winner' = [winner EXCEPT ![i] =
          IF MatchScore[i] > MatchHeard[i] THEN 0
          ELSE IF MatchScore[i] < MatchHeard[i] THEN 1 ELSE 2]
    BY <1>1, <2>5
  <2> QED
    BY <1>2, <1>3, <2>4, <2>6, MatchDecide DEF MatchStep
<1> QED
  BY <1>4, <1>5

LEMMA EachStepMatch ==
    ASSUME InitialFirst, TypeOK, RolesInv, LockInv, BoardInv, ScoreInv, BrickInv, HadInv, VerdictLast,
           HistoryNext
    PROVE  MatchStep
<1>1. Recorded /\ Next
  BY DEF HistoryNext, Recorded
<1>2. ASSUME UNCHANGED <<world, winner>>
      PROVE  MatchStep
  <2>1. UNCHANGED <<MatchBroken, MatchScore, MatchHeard>>
    BY <1>2 DEF MatchBroken, Broken, MatchScore, MatchHeard
  <2>2. had' = had
    BY <1>1, <1>2 DEF Recorded, HadInv, HeardOf, Heard
  <2> QED
    BY <1>2, <2>1, <2>2 DEF MatchStep, matchVars
<1>3. ASSUME NEW i \in Instances,
             \/ Draw(i) \/ DrawLock(i) \/ DrawUnlock(i) \/ SkipCheck(i) \/ CheckLock(i)
             \/ Quit(i) \/ Close(i) \/ (\E t \in Threads : Sender(i, t)) \/ ReaderLock(i)
             \/ Lose(i)
      PROVE  MatchStep
  <2>1. world' = world
    BY <1>3, WorldKept
  <2>2. winner' = winner
    BY <1>3 DEF Draw, DrawLock, DrawUnlock, SkipCheck, CheckLock, Quit, Close, Sender, FillLock,
                FillElement, SendCall, SetSending, Write, ClearSending, ReaderLock, Lose
  <2> QED
    BY <1>2, <2>1, <2>2
<1>4. ASSUME NEW i \in Instances, Main(i)
      PROVE  MatchStep
  BY <1>1, <1>3, <1>4, GenerateMatch, LockedMatch, ContactMatch, VerdictMatch DEF Main
<1>5. ASSUME NEW i \in Instances, Physics(i) \/ Reader(i)
      PROVE  MatchStep
  BY <1>1, <1>3, <1>5, ContactMatch, ParseMatch DEF Reader
<1>6. CASE UNCHANGED vars
  BY <1>2, <1>6 DEF vars
<1> QED
  BY <1>1, <1>3, <1>4, <1>5, <1>6 DEF Next, Terminating

\* ImplementsMatch: two instances with threads and updates, which may be lost, keep the
\* promises of a match without them.
THEOREM MatchImplemented == ASSUME InitialFirst PROVE HistorySpec => ImplementsMatch
<1>1. HistoryInit => M!Init
  BY InstancesType
     DEF HistoryInit, Init, M!Init, Broken, EmptyWorld
<1>2. /\ TypeOK /\ RolesInv /\ LockInv /\ BoardInv /\ ScoreInv /\ BrickInv /\ HadInv
      /\ VerdictLast /\ [HistoryNext]_<<vars, had>>
      => [M!Next]_M!vars
  <2> SUFFICES ASSUME TypeOK, RolesInv, LockInv, BoardInv, ScoreInv, BrickInv, HadInv,
                      VerdictLast, [HistoryNext]_<<vars, had>>
               PROVE  MatchStep
    BY DEF MatchStep, matchVars, M!vars, MatchBroken, MatchScore, MatchHeard
  <2>1. CASE UNCHANGED <<vars, had>>
    BY <2>1 DEF vars, MatchStep, matchVars, MatchBroken, Broken, MatchScore, MatchHeard
  <2> QED
    BY <2>1, EachStepMatch
<1> QED
  BY <1>1, <1>2, HistoryIsGame, TypeCorrect, RolesInvariant, LockInvariant, BoardInvariant,
     ScoreInvariant, BrickInvariant, HadInvariant, VerdictLastInvariant, PTL
     DEF HistorySpec, ImplementsMatch, M!Spec

=============================================================================
