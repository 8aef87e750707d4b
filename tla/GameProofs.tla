----------------------------- MODULE GameProofs -----------------------------
(***************************************************************************)
(* Theorems about Game, for every number of balls, bricks and threads, for *)
(* every frame rate and whatever the connection loses or reorders.         *)
(***************************************************************************)
EXTENDS Game, FiniteSetTheorems, TLAPS

-----------------------------------------------------------------------------
(* The operators of Elements: what they return is typed, and which parts   *)
(* of a world they leave alone.                                            *)

\* The ids of the three kinds of elements are disjoint and make up Ids.
LEMMA IdsPartition ==
    /\ Ids = Paddles \cup Balls \cup Bricks
    /\ Paddles \cap Balls = {} /\ Paddles \cap Bricks = {} /\ Balls \cap Bricks = {}
    /\ NoPaddle \notin Paddles
BY ElementsAssumption
   DEF Ids, Paddles, Balls, Bricks, HostPaddle, ClientPaddle, NoPaddle

\* A new game and a generated board are worlds.
LEMMA EmptyWorldType == EmptyWorld \in World
BY ElementsAssumption, IdsPartition DEF EmptyWorld, World, NoPaddle

LEMMA GeneratedWorldType ==
    ASSUME NEW d \in [Bricks -> 1 .. MaxDuration]
    PROVE  GeneratedWorld(d) \in World
<1>1. d \in [Bricks -> Int]
  BY ElementsAssumption
<1>2. Ids \in SUBSET Ids /\ [p \in Paddles |-> p = HostPaddle] \in [Paddles -> BOOLEAN]
  OBVIOUS
<1> QED
  BY <1>1, <1>2, EmptyWorldType DEF GeneratedWorld, World

\* The points of a paddle change nothing but its score and its update mark.
LEMMA AddScoreType ==
    ASSUME NEW w \in World, NEW p \in Paddles, NEW points \in Int
    PROVE  /\ AddScore(w, p, points) \in World
           /\ AddScore(w, p, points).known = w.known
           /\ AddScore(w, p, points).controlled = w.controlled
           /\ AddScore(w, p, points).lastPaddle = w.lastPaddle
           /\ AddScore(w, p, points).updated \subseteq
                w.updated \cup {q \in Paddles : w.controlled[q]}
<1> DEFINE u == IF points # 0 /\ w.controlled[p] THEN w.updated \cup {p} ELSE w.updated
           s == [w.score EXCEPT ![p] = @ + points]
<1>1. u \in SUBSET Ids /\ u \subseteq w.updated \cup {q \in Paddles : w.controlled[q]}
  BY IdsPartition DEF World
<1>2. s \in [Paddles -> Int]
  BY DEF World
<1>3. AddScore(w, p, points) = [w EXCEPT !.score = s, !.updated = u]
  BY DEF AddScore
<1> HIDE DEF u, s
<1> QED
  BY <1>1, <1>2, <1>3 DEF World

LEMMA BrickHitType ==
    ASSUME NEW w \in World, NEW b \in Bricks, NEW ball \in Balls
    PROVE  /\ BrickHit(w, b, ball) \in World
           /\ BrickHit(w, b, ball).known = w.known
           /\ BrickHit(w, b, ball).controlled = w.controlled
           /\ BrickHit(w, b, ball).lastPaddle = w.lastPaddle
           /\ BrickHit(w, b, ball).updated \subseteq w.updated \cup {b, ball}
<1> DEFINE u == IF w.duration[b] - 1 <= 0 THEN w.updated \cup {b, ball} ELSE w.updated
           d == [w.duration EXCEPT ![b] = @ - 1]
<1>1. u \in SUBSET Ids /\ u \subseteq w.updated \cup {b, ball}
  BY IdsPartition DEF World
<1>2. d \in [Bricks -> Int]
  BY DEF World
<1>3. BrickHit(w, b, ball) \in {w, [w EXCEPT !.duration = d, !.updated = u]}
  BY DEF BrickHit
<1> HIDE DEF u, d
<1> QED
  BY <1>1, <1>2, <1>3 DEF World

LEMMA ContactBrickType ==
    ASSUME NEW w \in World, NEW b \in Bricks, NEW ball \in Balls
    PROVE  /\ ContactBrick(w, ball, b) \in World
           /\ ContactBrick(w, ball, b).known = w.known
           /\ ContactBrick(w, ball, b).controlled = w.controlled
           /\ ContactBrick(w, ball, b).lastPaddle = w.lastPaddle
           /\ ContactBrick(w, ball, b).updated \subseteq
                w.updated \cup {b, ball} \cup {q \in Paddles : w.controlled[q]}
<1> DEFINE hit == BrickHit(w, b, ball)
<1>1. hit \in World /\ hit.known = w.known /\ hit.controlled = w.controlled
      /\ hit.lastPaddle = w.lastPaddle /\ hit.updated \subseteq w.updated \cup {b, ball}
  BY BrickHitType
<1>2. CASE w.lastPaddle[ball] # NoPaddle
  <2>1. w.lastPaddle[ball] \in Paddles
    BY <1>2 DEF World
  <2>2. ContactBrick(w, ball, b) = AddScore(hit, w.lastPaddle[ball], 1)
    BY <1>2 DEF ContactBrick
  <2> HIDE DEF hit
  <2> QED
    BY <1>1, <2>1, <2>2, AddScoreType
<1>3. CASE w.lastPaddle[ball] = NoPaddle
  BY <1>1, <1>3 DEF ContactBrick
<1> QED
  BY <1>2, <1>3

LEMMA ContactPaddleType ==
    ASSUME NEW w \in World, NEW ball \in Balls, NEW p \in Paddles
    PROVE  /\ ContactPaddle(w, ball, p) \in World
           /\ ContactPaddle(w, ball, p).known = w.known
           /\ ContactPaddle(w, ball, p).controlled = w.controlled
           /\ ContactPaddle(w, ball, p).updated \subseteq w.updated \cup {ball}
           /\ \A x \in Balls :
                \/ ContactPaddle(w, ball, p).lastPaddle[x] = w.lastPaddle[x]
                \/ ContactPaddle(w, ball, p).lastPaddle[x] = p /\ w.controlled[p]
BY IdsPartition DEF ContactPaddle, World

LEMMA ContactPlateType ==
    ASSUME NEW w \in World, NEW ball \in Balls, NEW p \in Paddles
    PROVE  /\ ContactPlate(w, ball, p) \in World
           /\ ContactPlate(w, ball, p).known = w.known
           /\ ContactPlate(w, ball, p).controlled = w.controlled
           /\ ContactPlate(w, ball, p).lastPaddle = w.lastPaddle
           /\ ContactPlate(w, ball, p).updated \subseteq
                w.updated \cup {q \in Paddles : w.controlled[q]}
BY AddScoreType DEF ContactPlate

\* A serialised element is an element of a message and has the id of its source.
LEMMA FillGameElementType ==
    ASSUME NEW w \in World, NEW e \in Ids
    PROVE  FillGameElement(w, e) \in GameElement /\ FillGameElement(w, e).id = e
BY IdsPartition DEF FillGameElement, GameElement, NetPaddle, NetBall, NetBrick, World

LEMMA FillGameUpdateType ==
    ASSUME NEW w \in World, NEW ids \in SUBSET Ids
    PROVE  FillGameUpdate(w, ids) \in GameUpdate
BY FillGameElementType DEF FillGameUpdate, GameUpdate

\* What a message element is follows from its id.
LEMMA GameElementById ==
    ASSUME NEW g \in GameElement
    PROVE  /\ g.id \in Ids
           /\ g.id \in Paddles => g.score \in Int /\ g.controlled_by_sender \in BOOLEAN
           /\ g.id \in Bricks => g.duration \in Int
BY IdsPartition DEF GameElement, NetPaddle, NetBall, NetBrick

\* Parsing an element makes it known, and changes no mark and no last paddle.
LEMMA ParseGameElementType ==
    ASSUME NEW w \in World, NEW g \in GameElement
    PROVE  /\ ParseGameElement(w, g) \in World
           /\ ParseGameElement(w, g).known = w.known \cup {g.id}
           /\ ParseGameElement(w, g).updated = w.updated
           /\ ParseGameElement(w, g).lastPaddle = w.lastPaddle
           /\ \A p \in Paddles : ParseGameElement(w, g).controlled[p] =
                IF p = g.id THEN ~g.controlled_by_sender ELSE w.controlled[p]
<1> DEFINE k == w.known \cup {g.id}
<1>1. k \in SUBSET Ids
  BY GameElementById DEF World
<1>2. CASE g.id \in Paddles
  <2> DEFINE c == [w.controlled EXCEPT ![g.id] = ~g.controlled_by_sender]
             s == [w.score EXCEPT ![g.id] = g.score]
  <2>1. c \in [Paddles -> BOOLEAN] /\ s \in [Paddles -> Int]
    BY <1>2, GameElementById DEF World
  <2>2. \A p \in Paddles :
            c[p] = IF p = g.id THEN ~g.controlled_by_sender ELSE w.controlled[p]
    BY <1>2 DEF World
  <2>3. ParseGameElement(w, g) = [w EXCEPT !.known = k, !.controlled = c, !.score = s]
    BY <1>2 DEF ParseGameElement
  <2> HIDE DEF k, c, s
  <2>4. /\ ParseGameElement(w, g) \in World
        /\ ParseGameElement(w, g).known = k
        /\ ParseGameElement(w, g).controlled = c
        /\ ParseGameElement(w, g).updated = w.updated
        /\ ParseGameElement(w, g).lastPaddle = w.lastPaddle
    BY <1>1, <2>1, <2>3 DEF World
  <2> QED
    BY <2>2, <2>4 DEF k
<1>3. CASE g.id \in Bricks
  <2> DEFINE d == [w.duration EXCEPT ![g.id] = g.duration]
  <2>1. d \in [Bricks -> Int] /\ g.id \notin Paddles
    BY <1>3, GameElementById, IdsPartition DEF World
  <2>2. ParseGameElement(w, g) = [w EXCEPT !.known = k, !.duration = d]
    BY <1>3, <2>1 DEF ParseGameElement
  <2> HIDE DEF d
  <2> QED
    BY <1>1, <2>1, <2>2 DEF World
<1>4. CASE g.id \notin Paddles \cup Bricks
  <2>1. ParseGameElement(w, g) = [w EXCEPT !.known = k]
    BY <1>4 DEF ParseGameElement
  <2> QED
    BY <1>1, <1>4, <2>1 DEF World
<1> QED
  BY <1>2, <1>3, <1>4

\* Scores, marks and last paddles leave the bricks as they are.
LEMMA ContactKeepsBricks ==
    ASSUME NEW w \in World, NEW ball \in Balls, NEW p \in Paddles
    PROVE  /\ ContactPaddle(w, ball, p).duration = w.duration
           /\ ContactPlate(w, ball, p).duration = w.duration
BY DEF ContactPaddle, ContactPlate, AddScore, World

\* A contact breaks no brick but its own, needs an own ball for it, and pays for it.
LEMMA ContactBrickBreaks ==
    ASSUME NEW w \in World, NEW b \in Bricks, NEW c \in Bricks, NEW ball \in Balls,
           BrickExists(w, c), ~BrickExists(ContactBrick(w, ball, b), c)
    PROVE  /\ w.lastPaddle[ball] \in Paddles
           /\ ContactBrick(w, ball, b).score = [w.score EXCEPT ![w.lastPaddle[ball]] = @ + 1]
<1>. DEFINE hit == BrickHit(w, b, ball)
<1>1. ContactBrick(w, ball, b).duration = hit.duration /\ ContactBrick(w, ball, b).known = w.known
    BY ContactBrickType DEF ContactBrick, AddScore, BrickHit, World
<1>2. w.duration[c] \in Int /\ w.duration[c] > 0 /\ c \in w.known
    BY DEF BrickExists, World
<1>3. ~(hit.duration[c] > 0)
    BY <1>1, <1>2 DEF BrickExists
<1>4. OwnBall(w, ball)
    <2>1. CASE OwnBall(w, ball)
        BY <2>1
    <2>2. CASE ~OwnBall(w, ball) /\ w.duration[b] > 1
        <3>1. hit.duration = [w.duration EXCEPT ![b] = @ - 1]
            BY <2>2 DEF BrickHit, World
        <3>2. w.duration[b] \in Int /\ w.duration \in [Bricks -> Int]
            BY DEF World
        <3>. QED
            BY <2>2, <3>1, <3>2, <1>2, <1>3
    <2>3. CASE ~OwnBall(w, ball) /\ ~(w.duration[b] > 1)
        BY <2>3, <1>2, <1>3 DEF BrickHit
    <2>. QED
        BY <2>1, <2>2, <2>3
<1>5. w.lastPaddle[ball] \in Paddles
    BY <1>4, IdsPartition DEF OwnBall, World
<1>6. hit.score = w.score
    BY DEF BrickHit, World
<1>7. hit \in World
    BY BrickHitType
<1>8. ContactBrick(w, ball, b) = AddScore(hit, w.lastPaddle[ball], 1)
    BY <1>4 DEF ContactBrick, OwnBall
<1>. QED
    BY <1>5, <1>6, <1>7, <1>8 DEF AddScore, World

-----------------------------------------------------------------------------
(* Game                                                                    *)

USE GameAssumption DEF mainVars, sendVars, netVars, bounds

LEMMA InstancesType ==
    ASSUME NEW i \in Instances
    PROVE  /\ Peer(i) \in Instances /\ Peer(i) # i /\ Peer(Peer(i)) = i
           /\ OwnPaddle(i) \in Paddles /\ OwnPaddle(Peer(i)) # OwnPaddle(i)
           /\ Paddles = {OwnPaddle(i), OwnPaddle(Peer(i))}
BY DEF Instances, Peer, OwnPaddle, Paddles, HostPaddle, ClientPaddle

LEMMA IdleThreadType == IdleThread \in UpdateThread
BY DEF IdleThread, UpdateThread, ThreadPcs, GameUpdate

\* Init is typed.
LEMMA InitType == Init => TypeOK
<1> SUFFICES ASSUME Init PROVE TypeOK
  OBVIOUS
<1>1. world \in [Instances -> World] /\ thread \in [Instances -> [Threads -> UpdateThread]]
  BY EmptyWorldType, IdleThreadType DEF Init
<1>2. pc \in [Instances -> MainPcs] /\ frame \in [Instances -> 0 .. (FrameRate - 1)]
  BY DEF Init, MainPcs
<1>3. /\ ptrs \in [Instances -> [your : Paddles \cup {NoPaddle}, enemy : Paddles \cup {NoPaddle}]]
      /\ plates \in [Instances -> [Plates -> Paddles \cup {NoPaddle}]]
      /\ winner \in [Instances -> -1 .. 2]
      /\ elementMutex \in [Instances -> {"free", "main", "reader"}]
  BY DEF Init
<1>4. /\ ending \in [Instances -> SUBSET (Balls \X Bricks)]
      /\ gameUpdateMutex \in [Instances -> BOOLEAN]
      /\ sending \in [Instances -> BOOLEAN]
      /\ inbox \in [Instances -> GameUpdate]
      /\ forgotten \in [Instances -> SUBSET Bricks]
      /\ announced \in [Instances -> Int]
      /\ contacts \in Nat /\ moves \in Nat
  BY DEF Init, GameUpdate
<1>5. net \in [Instances -> Seq(GameUpdate)]
  BY DEF Init
<1> QED
  BY <1>1, <1>2, <1>3, <1>4, <1>5 DEF TypeOK

LEMMA NextFrameType ==
    ASSUME TypeOK, NEW i \in Instances, NextFrame(i)
    PROVE  frame' \in [Instances -> 0 .. (FrameRate - 1)]
<1>1. frame[i] + 1 \in Int /\ FrameRate \in Int /\ FrameRate > 0
  BY DEF TypeOK
<1>2. (frame[i] + 1) % FrameRate \in 0 .. (FrameRate - 1)
  BY <1>1
<1> QED
  BY <1>2 DEF TypeOK, NextFrame

\* A step of the main thread that leaves the elements alone.
LEMMA MainStepType ==
    ASSUME TypeOK, NEW i \in Instances,
           \/ Quit(i) \/ Draw(i) \/ DrawLock(i) \/ DrawUnlock(i)
           \/ SkipCheck(i) \/ CheckLock(i) \/ Close(i)
    PROVE  TypeOK'
<1>1. CASE SkipCheck(i)
  BY <1>1, NextFrameType DEF TypeOK, SkipCheck, GoTo, MainPcs
<1>2. CASE Quit(i) \/ Draw(i) \/ Close(i)
  BY <1>2 DEF TypeOK, Quit, Draw, Close, GoTo, MainPcs
<1>3. CASE DrawLock(i) \/ CheckLock(i)
  BY <1>3 DEF TypeOK, DrawLock, CheckLock, GoTo, LockElements, MainPcs
<1>4. CASE DrawUnlock(i)
  BY <1>4 DEF TypeOK, DrawUnlock, GoTo, UnlockElements, MainPcs
<1> QED
  BY <1>1, <1>2, <1>3, <1>4

LEMMA GetWinnerType ==
    ASSUME NEW w, NEW p
    PROVE  GetWinner(w, p) \in -1 .. 2
BY DEF GetWinner

LEMMA DecideType ==
    ASSUME TypeOK, NEW i \in Instances, Decide(i)
    PROVE  /\ pc' \in [Instances -> MainPcs]
           /\ frame' \in [Instances -> 0 .. (FrameRate - 1)]
           /\ winner' \in [Instances -> -1 .. 2]
<1>1. GetWinner(world[i], ptrs[i]) \in -1 .. 2
  BY GetWinnerType
<1>2. winner' \in [Instances -> -1 .. 2] /\ pc' \in [Instances -> MainPcs]
  BY <1>1 DEF TypeOK, Decide, MainPcs
<1>3. frame' \in [Instances -> 0 .. (FrameRate - 1)]
  BY NextFrameType DEF TypeOK, Decide
<1> QED
  BY <1>2, <1>3

LEMMA CheckType ==
    ASSUME TypeOK, NEW i \in Instances, Check(i) \/ CheckUnlock(i)
    PROVE  TypeOK'
<1>1. Decide(i)
  BY DEF Check, CheckUnlock
<1>2. ptrs' = ptrs /\ plates' = plates
  BY <1>1 DEF Decide
<1> QED
  BY <1>1, <1>2, DecideType DEF TypeOK, Check, CheckUnlock, UnlockElements

LEMMA GenerateType ==
    ASSUME TypeOK, NEW i \in Instances, Generate(i)
    PROVE  TypeOK'
<1>1. PICK d \in [Bricks -> 1 .. MaxDuration], t \in Threads :
        /\ world' = [world EXCEPT ![i] = GeneratedWorld(d)]
        /\ thread' = [thread EXCEPT ![i][t] =
              [pc |-> "set", todo |-> {}, msg |-> FillGameUpdate(GeneratedWorld(d), Ids)]]
  BY DEF Generate
<1>2. [pc |-> "set", todo |-> {}, msg |-> FillGameUpdate(GeneratedWorld(d), Ids)]
        \in UpdateThread
  BY GeneratedWorldType, FillGameUpdateType DEF UpdateThread, ThreadPcs
<1>3. world' \in [Instances -> World]
  BY <1>1, GeneratedWorldType DEF TypeOK
<1>4. thread' \in [Instances -> [Threads -> UpdateThread]]
  BY <1>1, <1>2 DEF TypeOK
<1> QED
  BY <1>3, <1>4 DEF TypeOK, Generate, GoTo, MainPcs

\* A step that only replaces the elements of one instance by another world.
LEMMA DisableBrickType ==
    ASSUME TypeOK, NEW i \in Instances, DisableBrick(i)
    PROVE  TypeOK'
<1>1. PICK b \in ToDisable(i, pc[i]), T \in SUBSET (Balls \cap world[i].known) :
        /\ contacts + moves + Cardinality(T) <= MaxEvents
        /\ contacts' = contacts + Cardinality(T)
        /\ world' = [world EXCEPT ![i].enabled = @ \ {b}]
        /\ ending' = [ending EXCEPT ![i] = T \X {b}]
  BY DEF DisableBrick
<1>2. b \in Bricks
  BY DEF ToDisable, TypeOK, World
<1>3. world[i] \in World /\ world[i].enabled \ {b} \in SUBSET Bricks
  BY DEF TypeOK, World
<1>4. world' \in [Instances -> World]
  <2>1. [world[i] EXCEPT !.enabled = @ \ {b}] \in World
    BY <1>3 DEF World
  <2> QED
    BY <1>1, <2>1 DEF TypeOK
<1>5. ending' \in [Instances -> SUBSET (Balls \X Bricks)]
  BY <1>1, <1>2 DEF TypeOK
<1>6. contacts' \in Nat
  <2>1. IsFiniteSet(Balls)
    <3>1. 2 \in Int /\ NumBalls + 1 \in Int
      BY ElementsAssumption
    <3> QED
      BY <3>1, FS_Interval DEF Balls
  <2>2. IsFiniteSet(T)
    BY <2>1, FS_Subset
  <2> QED
    BY <1>1, <2>2, FS_CardinalityType DEF TypeOK
<1> QED
  BY <1>4, <1>5, <1>6 DEF TypeOK, DisableBrick

LEMMA EndDisabledContactType ==
    ASSUME TypeOK, NEW i \in Instances, EndDisabledContact(i)
    PROVE  TypeOK'
<1>1. PICK c \in ending[i] :
        /\ world' = [world EXCEPT ![i] = ContactBrick(@, c[1], c[2])]
        /\ ending' = [ending EXCEPT ![i] = @ \ {c}]
  BY DEF EndDisabledContact
<1>2. c[1] \in Balls /\ c[2] \in Bricks /\ world[i] \in World
  BY DEF TypeOK
<1>3. ContactBrick(world[i], c[1], c[2]) \in World
  BY <1>2, ContactBrickType
<1>4. world' \in [Instances -> World] /\ ending' \in [Instances -> SUBSET (Balls \X Bricks)]
  BY <1>1, <1>3 DEF TypeOK
<1> QED
  BY <1>4 DEF TypeOK, EndDisabledContact

\* The pointers that find_paddle_ptrs leaves.
LEMMA FindPaddlePtrsType ==
    ASSUME NEW w \in World,
           NEW p \in [your : Paddles \cup {NoPaddle}, enemy : Paddles \cup {NoPaddle}]
    PROVE  FindPaddlePtrs(w, p) \in
             [your : Paddles \cup {NoPaddle}, enemy : Paddles \cup {NoPaddle}]
<1>1. ASSUME NEW mine \in BOOLEAN, NEW old \in Paddles \cup {NoPaddle}
      PROVE  FindPaddle(w, mine, old) \in Paddles \cup {NoPaddle}
  <2> DEFINE found == {q \in Paddles \cap w.known : w.controlled[q] = mine}
  <2>1. CASE found = {}
    BY <2>1 DEF FindPaddle
  <2>2. CASE found # {}
    <3>1. \E q \in found : \A r \in found : r <= q
      BY <2>2 DEF Paddles, HostPaddle, ClientPaddle
    <3> QED
      BY <2>2, <3>1 DEF FindPaddle
  <2> QED
    BY <2>1, <2>2
<1> QED
  BY <1>1 DEF FindPaddlePtrs

LEMMA FindPlatesType ==
    ASSUME NEW p \in [your : Paddles \cup {NoPaddle}, enemy : Paddles \cup {NoPaddle}],
           NEW old \in [Plates -> Paddles \cup {NoPaddle}]
    PROVE  FindPlates(p, old) \in [Plates -> Paddles \cup {NoPaddle}]
<1>1. ASSUME p.your # NoPaddle, p.enemy # NoPaddle
      PROVE  AssignPlates(p.your, p.enemy) \in [Plates -> Paddles]
  BY <1>1 DEF AssignPlates
<1> QED
  BY <1>1 DEF FindPlates

LEMMA StepLockType ==
    ASSUME TypeOK, NEW i \in Instances, StepLock(i)
    PROVE  TypeOK'
<1> DEFINE p == FindPaddlePtrs(world[i], ptrs[i])
<1>1. /\ p \in [your : Paddles \cup {NoPaddle}, enemy : Paddles \cup {NoPaddle}]
      /\ FindPlates(p, plates[i]) \in [Plates -> Paddles \cup {NoPaddle}]
  BY FindPaddlePtrsType, FindPlatesType DEF TypeOK
<1>2. /\ ptrs' = [ptrs EXCEPT ![i] = p]
      /\ plates' = [plates EXCEPT ![i] = FindPlates(p, plates[i])]
      /\ \/ UNCHANGED <<world, moves>>
         \/ /\ p.your # NoPaddle
            /\ moves' = moves + 1
            /\ world' = [world EXCEPT ![i].updated = @ \cup {p.your}]
  BY DEF StepLock
<1> HIDE DEF p
<1>3. world' \in [Instances -> World] /\ moves' \in Nat
  <2>1. CASE UNCHANGED <<world, moves>>
    BY <2>1 DEF TypeOK
  <2>2. CASE /\ p.your # NoPaddle
             /\ moves' = moves + 1
             /\ world' = [world EXCEPT ![i].updated = @ \cup {p.your}]
    <3>1. world[i] \in World /\ world[i].updated \cup {p.your} \in SUBSET Ids
      BY <1>1, <2>2, IdsPartition DEF TypeOK, World
    <3>2. [world[i] EXCEPT !.updated = @ \cup {p.your}] \in World
      BY <3>1 DEF World
    <3> QED
      BY <2>2, <3>2 DEF TypeOK
  <2> QED
    BY <1>2, <2>1, <2>2
<1>4. ptrs' \in [Instances -> [your : Paddles \cup {NoPaddle}, enemy : Paddles \cup {NoPaddle}]]
  BY <1>1, <1>2 DEF TypeOK
<1>5. plates' \in [Instances -> [Plates -> Paddles \cup {NoPaddle}]]
  BY <1>1, <1>2 DEF TypeOK
<1> QED
  BY <1>3, <1>4, <1>5 DEF TypeOK, StepLock, GoTo, LockElements, MainPcs

\* What a contact during b2World::Step makes of the elements.
LEMMA PhysicsWorld ==
    ASSUME TypeOK, NEW i \in Instances, Physics(i)
    PROVE  \E ball \in Balls \cap world[i].known :
             \/ \E b \in Bricks \cap world[i].known :
                   StepContact(i, ContactBrick(world[i], ball, b))
             \/ \E p \in Paddles \cap world[i].known :
                   StepContact(i, ContactPaddle(world[i], ball, p))
             \/ \E p \in Paddles :
                   StepContact(i, ContactPlate(world[i], ball, p))
<1>1. CASE BallHitsBrick(i)
  BY <1>1 DEF BallHitsBrick
<1>2. CASE BallHitsPaddle(i)
  BY <1>2 DEF BallHitsPaddle
<1>3. CASE BallHitsPlate(i)
  <2>1. \A plate \in Plates : plates[i][plate] \in Paddles \cup {NoPaddle}
    BY DEF TypeOK
  <2> QED
    BY <1>3, <2>1 DEF BallHitsPlate
<1> QED
  BY <1>1, <1>2, <1>3 DEF Physics

LEMMA PhysicsType ==
    ASSUME TypeOK, NEW i \in Instances, Physics(i)
    PROVE  TypeOK'
<1>1. ASSUME NEW w \in World, StepContact(i, w)
      PROVE  TypeOK'
  BY <1>1 DEF StepContact, TypeOK
<1>2. world[i] \in World
  BY DEF TypeOK
<1> QED
  BY <1>1, <1>2, PhysicsWorld, ContactBrickType, ContactPaddleType, ContactPlateType

LEMMA StepUnlockType ==
    ASSUME TypeOK, NEW i \in Instances, StepUnlock(i)
    PROVE  TypeOK'
<1>1. world[i] \in World
  BY DEF TypeOK
<1>2. [world[i] EXCEPT !.updated = {}] \in World
  BY <1>1 DEF World
<1>3. world' \in [Instances -> World]
  BY <1>2 DEF TypeOK, StepUnlock
<1>4. [pc |-> "start", todo |-> world[i].updated, msg |-> {}] \in UpdateThread
  BY <1>1 DEF UpdateThread, ThreadPcs, World, GameUpdate
<1>5. thread' \in [Instances -> [Threads -> UpdateThread]]
  <2>1. \/ UNCHANGED thread
        \/ \E t \in Threads : thread' = [thread EXCEPT ![i][t] =
              [pc |-> "start", todo |-> world[i].updated, msg |-> {}]]
    BY DEF StepUnlock
  <2> DEFINE started == [pc |-> "start", todo |-> world[i].updated, msg |-> {}]
  <2>2. started \in UpdateThread
    BY <1>4
  <2> HIDE DEF started
  <2>3. \/ UNCHANGED thread
        \/ \E t \in Threads : thread' = [thread EXCEPT ![i][t] = started]
    BY <2>1 DEF started
  <2>4. thread \in [Instances -> [Threads -> UpdateThread]]
    BY DEF TypeOK
  <2>5. ASSUME NEW t \in Threads
        PROVE  [thread EXCEPT ![i][t] = started] \in [Instances -> [Threads -> UpdateThread]]
    BY <2>2, <2>4
  <2> QED
    BY <2>3, <2>4, <2>5
<1> QED
  BY <1>3, <1>5 DEF TypeOK, StepUnlock, GoTo, UnlockElements, MainPcs

LEMMA FillElementType ==
    ASSUME TypeOK, NEW i \in Instances, NEW t \in Threads, FillElement(i, t)
    PROVE  TypeOK'
<1>1. PICK e \in thread[i][t].todo :
        /\ thread' = [thread EXCEPT ![i][t].todo = @ \ {e},
                                    ![i][t].msg = @ \cup {FillGameElement(world[i], e)}]
        /\ announced' = [announced EXCEPT ![i] =
              IF e = OwnPaddle(i) THEN world[i].score[e] ELSE @]
  BY DEF FillElement
<1>2. thread[i][t] \in UpdateThread /\ world[i] \in World /\ e \in Ids
  BY DEF TypeOK, UpdateThread
<1>3. thread[i][t].msg \cup {FillGameElement(world[i], e)} \in GameUpdate
  BY <1>2, FillGameElementType DEF UpdateThread, GameUpdate
<1> DEFINE next == [thread[i][t] EXCEPT !.todo = @ \ {e},
                                        !.msg = @ \cup {FillGameElement(world[i], e)}]
<1>4. next \in UpdateThread
  BY <1>2, <1>3 DEF UpdateThread
<1>5. thread' = [thread EXCEPT ![i][t] = next]
  BY <1>1 DEF TypeOK
<1> HIDE DEF next
<1>6. thread' \in [Instances -> [Threads -> UpdateThread]]
  BY <1>4, <1>5 DEF TypeOK
<1>7. announced' \in [Instances -> Int]
  BY <1>1, <1>2, InstancesType DEF TypeOK, World
<1> QED
  BY <1>6, <1>7 DEF TypeOK, FillElement

\* The other steps of the threads of an update move one of them on.
LEMMA ThreadStepType ==
    ASSUME TypeOK, NEW i \in Instances, NEW t \in Threads,
           FillLock(i, t) \/ SendCall(i, t) \/ SetSending(i, t) \/ ClearSending(i, t)
    PROVE  TypeOK'
<1>1. thread[i][t] \in UpdateThread
  BY DEF TypeOK
<1>2. \A q \in ThreadPcs : [thread[i][t] EXCEPT !.pc = q] \in UpdateThread
  BY <1>1 DEF UpdateThread
<1>3. CASE FillLock(i, t)
  BY <1>2, <1>3 DEF TypeOK, FillLock, ThreadPcs
<1>4. CASE SendCall(i, t)
  <2>1. thread' \in [Instances -> [Threads -> UpdateThread]]
    BY <1>2, <1>4, IdleThreadType DEF TypeOK, SendCall, ThreadPcs
  <2> QED
    BY <1>4, <2>1 DEF TypeOK, SendCall
<1>5. CASE SetSending(i, t)
  BY <1>2, <1>5 DEF TypeOK, SetSending, ThreadPcs
<1>6. CASE ClearSending(i, t)
  BY <1>6, IdleThreadType DEF TypeOK, ClearSending
<1> QED
  BY <1>3, <1>4, <1>5, <1>6

LEMMA WriteType ==
    ASSUME TypeOK, NEW i \in Instances, NEW t \in Threads, Write(i, t)
    PROVE  TypeOK'
<1>1. thread[i][t] \in UpdateThread /\ thread[i][t].msg \in GameUpdate
  BY DEF TypeOK, UpdateThread
<1>2. [thread[i][t] EXCEPT !.pc = "clear", !.msg = {}] \in UpdateThread
  BY <1>1 DEF UpdateThread, ThreadPcs, GameUpdate
<1>3. thread' \in [Instances -> [Threads -> UpdateThread]]
  BY <1>2 DEF TypeOK, Write
<1>4. net[Peer(i)] \in Seq(GameUpdate)
  BY InstancesType DEF TypeOK
<1>5. Append(net[Peer(i)], thread[i][t].msg) \in Seq(GameUpdate)
  BY <1>1, <1>4
<1>6. net' \in [Instances -> Seq(GameUpdate)]
  BY <1>5 DEF TypeOK, Write
<1> QED
  BY <1>3, <1>6 DEF TypeOK, Write

LEMMA ReaderType ==
    ASSUME TypeOK, NEW i \in Instances, Reader(i) \/ Lose(i)
    PROVE  TypeOK'
<1>1. ASSUME net[i] # <<>>
      PROVE  Head(net[i]) \in GameUpdate /\ Tail(net[i]) \in Seq(GameUpdate)
  <2>1. net[i] \in Seq(GameUpdate)
    BY DEF TypeOK
  <2> QED
    BY <1>1, <2>1
<1>2. CASE ReaderLock(i)
  BY <1>1, <1>2 DEF TypeOK, ReaderLock, LockElements
<1>3. CASE ParseElement(i)
  <2>1. PICK g \in inbox[i] :
          /\ world' = [world EXCEPT ![i] = ParseGameElement(@, g)]
          /\ inbox' = [inbox EXCEPT ![i] = @ \ {g}]
          /\ forgotten' = [forgotten EXCEPT ![i] = @ \cup Repaired(world[i], world'[i])]
          /\ IF inbox[i] = {g} THEN UnlockElements(i, "reader") ELSE UNCHANGED elementMutex
    BY <1>3 DEF ParseElement
  <2>2. g \in GameElement /\ world[i] \in World
    BY DEF TypeOK, GameUpdate
  <2>3. world' \in [Instances -> World]
    BY <2>1, <2>2, ParseGameElementType DEF TypeOK
  <2>4. inbox' \in [Instances -> GameUpdate]
    BY <2>1 DEF TypeOK, GameUpdate
  <2>5. elementMutex' \in [Instances -> {"free", "main", "reader"}]
    <3>1. elementMutex' = elementMutex \/ elementMutex' = [elementMutex EXCEPT ![i] = "free"]
      BY <2>1 DEF UnlockElements
    <3> QED
      BY ONLY TypeOK, <3>1 DEF TypeOK
  <2>6. forgotten' \in [Instances -> SUBSET Bricks]
    BY <2>1 DEF TypeOK, Repaired
  <2> QED
    BY <1>3, <2>3, <2>4, <2>5, <2>6 DEF TypeOK, ParseElement
<1>4. CASE Lose(i)
  <2>1. forgotten' \in [Instances -> SUBSET Bricks]
    BY <1>4 DEF TypeOK, Lose
  <2> QED
    BY <1>1, <1>4, <2>1 DEF TypeOK, Lose
<1> QED
  BY <1>2, <1>3, <1>4 DEF Reader

\* TypeOK: every variable of the game keeps its type, in particular the element map
\* stays a world and every message a set of elements.
THEOREM TypeCorrect == Spec => []TypeOK
<1>1. TypeOK /\ [Next]_vars => TypeOK'
  <2> SUFFICES ASSUME TypeOK, [Next]_vars PROVE TypeOK'
    OBVIOUS
  <2>1. ASSUME NEW i \in Instances, Main(i)
        PROVE  TypeOK'
    BY <2>1, GenerateType, MainStepType, DisableBrickType, EndDisabledContactType,
       StepLockType, StepUnlockType, CheckType DEF Main
  <2>2. ASSUME NEW i \in Instances, Physics(i) \/ Quit(i) \/ Close(i)
        PROVE  TypeOK'
    BY <2>2, PhysicsType, MainStepType
  <2>3. ASSUME NEW i \in Instances, NEW t \in Threads, Sender(i, t)
        PROVE  TypeOK'
    BY <2>3, FillElementType, ThreadStepType, WriteType DEF Sender
  <2>4. ASSUME NEW i \in Instances, Reader(i) \/ Lose(i)
        PROVE  TypeOK'
    BY <2>4, ReaderType
  <2>5. CASE UNCHANGED vars
    BY <2>5 DEF TypeOK, vars
  <2> QED
    BY <2>1, <2>2, <2>3, <2>4, <2>5 DEF Next, Terminating
<1> QED
  BY InitType, <1>1, PTL DEF Spec

-----------------------------------------------------------------------------
(* Who plays which part.  The three properties about it rest on what the   *)
(* messages say: an instance only ever claims its own paddle.              *)

\* A message of instance i claims the paddle of i and no other.
Authentic(i, msg) ==
    \A g \in msg : g.id \in Paddles => (g.controlled_by_sender <=> g.id = OwnPaddle(i))

\* The parts in a world of instance i.  Only known elements are marked.
Roles(i, w) ==
    /\ \A p \in Paddles : w.controlled[p] <=> p = OwnPaddle(i) /\ p \in w.known
    /\ \A ball \in Balls : w.lastPaddle[ball] \in {NoPaddle, OwnPaddle(i)}
    /\ w.updated \subseteq w.known

WorldRoles == \A i \in Instances : Roles(i, world[i])

SetupByHost == \A i \in Instances : pc[i] = "setup" => i = "host"

YourPaddleKnown ==
    \A i \in Instances : ptrs[i].your # NoPaddle => ptrs[i].your \in world[i].known

EndingKnown ==
    \A i \in Instances : \A c \in ending[i] :
        c[1] \in world[i].known /\ c[2] \in world[i].known

ThreadsAuthentic ==
    \A i \in Instances : \A t \in Threads :
        /\ thread[i][t].todo \subseteq world[i].known
        /\ Authentic(i, thread[i][t].msg)

NetAuthentic ==
    \A i \in Instances :
        /\ Authentic(Peer(i), inbox[i])
        /\ \A k \in DOMAIN net[i] : Authentic(Peer(i), net[i][k])

RolesInv ==
    /\ WorldRoles /\ SetupByHost /\ YourPaddleKnown /\ PaddlePtrsRoles
    /\ EndingKnown /\ ThreadsAuthentic /\ NetAuthentic

LEMMA InitRoles == Init => RolesInv
<1> SUFFICES ASSUME Init PROVE RolesInv
  OBVIOUS
<1>1. \A i \in Instances : Roles(i, EmptyWorld)
  BY IdsPartition DEF Roles, EmptyWorld
<1>2. WorldRoles /\ SetupByHost /\ YourPaddleKnown /\ PaddlePtrsRoles /\ EndingKnown
  BY <1>1 DEF Init, WorldRoles, SetupByHost, YourPaddleKnown, PaddlePtrsRoles, EndingKnown,
              Plates
<1>3. ThreadsAuthentic /\ NetAuthentic
  BY DEF Init, ThreadsAuthentic, NetAuthentic, Authentic, IdleThread
<1> QED
  BY <1>2, <1>3 DEF RolesInv

\* A step that replaces the world of one instance by one that knows as much and
\* gives the same parts.
LEMMA WorldStepRoles ==
    ASSUME TypeOK, RolesInv, NEW i \in Instances, NEW w \in World,
           Roles(i, w), world[i].known \subseteq w.known,
           world' = [world EXCEPT ![i] = w],
           \A c \in ending'[i] : c[1] \in w.known /\ c[2] \in w.known,
           \A j \in Instances : j # i => ending'[j] = ending[j],
           UNCHANGED <<pc, ptrs, plates, thread>>
    PROVE  /\ WorldRoles' /\ SetupByHost' /\ YourPaddleKnown' /\ PaddlePtrsRoles'
           /\ EndingKnown' /\ ThreadsAuthentic'
<1>1. /\ world'[i] = w
      /\ \A j \in Instances : j # i => world'[j] = world[j]
      /\ \A j \in Instances : world[j].known \subseteq world'[j].known
  BY DEF TypeOK
<1>2. WorldRoles'
  BY <1>1 DEF RolesInv, WorldRoles
<1>3. SetupByHost' /\ PaddlePtrsRoles'
  BY DEF RolesInv, SetupByHost, PaddlePtrsRoles
<1>4. YourPaddleKnown'
  BY <1>1 DEF RolesInv, YourPaddleKnown
<1>5. EndingKnown'
  BY <1>1 DEF RolesInv, EndingKnown
<1>6. ThreadsAuthentic'
  BY <1>1 DEF RolesInv, ThreadsAuthentic
<1> QED
  BY <1>2, <1>3, <1>4, <1>5, <1>6

\* Contacts keep the parts: points only mark paddles controlled here, and only the
\* own paddle takes a ball over.
LEMMA ContactRoles ==
    ASSUME NEW i \in Instances, NEW w \in World, Roles(i, w),
           NEW ball \in Balls \cap w.known
    PROVE  /\ \A b \in Bricks \cap w.known : Roles(i, ContactBrick(w, ball, b))
           /\ \A p \in Paddles : Roles(i, ContactPaddle(w, ball, p))
           /\ \A p \in Paddles : Roles(i, ContactPlate(w, ball, p))
<1>1. {q \in Paddles : w.controlled[q]} \subseteq w.known
  BY DEF Roles
<1>2. ASSUME NEW b \in Bricks \cap w.known
      PROVE  Roles(i, ContactBrick(w, ball, b))
  BY <1>1, <1>2, ContactBrickType DEF Roles
<1>3. ASSUME NEW p \in Paddles
      PROVE  Roles(i, ContactPaddle(w, ball, p))
  <2>1. \A x \in Balls : ContactPaddle(w, ball, p).lastPaddle[x] \in {NoPaddle, OwnPaddle(i)}
    BY ContactPaddleType DEF Roles
  <2> QED
    BY <2>1, ContactPaddleType DEF Roles
<1>4. ASSUME NEW p \in Paddles
      PROVE  Roles(i, ContactPlate(w, ball, p))
  BY <1>1, <1>4, ContactPlateType DEF Roles
<1> QED
  BY <1>2, <1>3, <1>4

LEMMA PhysicsRoles ==
    ASSUME TypeOK, RolesInv, NEW i \in Instances, Physics(i)
    PROVE  RolesInv'
<1>1. world[i] \in World /\ Roles(i, world[i])
  BY DEF TypeOK, RolesInv, WorldRoles
<1>2. ASSUME NEW w \in World, Roles(i, w), w.known = world[i].known, StepContact(i, w)
      PROVE  RolesInv'
  <2>1. /\ WorldRoles' /\ SetupByHost' /\ YourPaddleKnown' /\ PaddlePtrsRoles'
        /\ EndingKnown' /\ ThreadsAuthentic'
    <3>1. \A c \in ending'[i] : c[1] \in w.known /\ c[2] \in w.known
      BY <1>2 DEF StepContact, RolesInv, EndingKnown
    <3> QED
      BY <1>2, <3>1, WorldStepRoles DEF StepContact
  <2>2. NetAuthentic'
    BY <1>2 DEF StepContact, RolesInv, NetAuthentic
  <2> QED
    BY <2>1, <2>2 DEF RolesInv
<1>3. PICK ball \in Balls \cap world[i].known :
        \/ \E b \in Bricks \cap world[i].known :
              StepContact(i, ContactBrick(world[i], ball, b))
        \/ \E p \in Paddles \cap world[i].known :
              StepContact(i, ContactPaddle(world[i], ball, p))
        \/ \E p \in Paddles :
              StepContact(i, ContactPlate(world[i], ball, p))
  BY PhysicsWorld
<1> QED
  BY <1>1, <1>2, <1>3, ContactRoles, ContactBrickType, ContactPaddleType, ContactPlateType

LEMMA EndDisabledContactRoles ==
    ASSUME TypeOK, RolesInv, NEW i \in Instances, EndDisabledContact(i)
    PROVE  RolesInv'
<1>1. PICK c \in ending[i] :
        /\ world' = [world EXCEPT ![i] = ContactBrick(@, c[1], c[2])]
        /\ ending' = [ending EXCEPT ![i] = @ \ {c}]
  BY DEF EndDisabledContact
<1> DEFINE w == ContactBrick(world[i], c[1], c[2])
<1>2. /\ c[1] \in Balls \cap world[i].known
      /\ c[2] \in Bricks \cap world[i].known
      /\ world[i] \in World /\ Roles(i, world[i])
  BY DEF TypeOK, RolesInv, EndingKnown, WorldRoles
<1>3. w \in World /\ w.known = world[i].known /\ Roles(i, w)
  BY <1>2, ContactBrickType, ContactRoles
<1>4. \A d \in ending'[i] : d[1] \in w.known /\ d[2] \in w.known
  BY <1>1, <1>3 DEF RolesInv, EndingKnown, TypeOK
<1>5. \A j \in Instances : j # i => ending'[j] = ending[j]
  BY <1>1 DEF TypeOK
<1>6. NetAuthentic'
  BY DEF EndDisabledContact, RolesInv, NetAuthentic
<1>7. world' = [world EXCEPT ![i] = w] /\ UNCHANGED <<pc, ptrs, plates, thread>>
  BY <1>1 DEF EndDisabledContact
<1> HIDE DEF w
<1> QED
  BY <1>3, <1>4, <1>5, <1>6, <1>7, WorldStepRoles DEF RolesInv

LEMMA DisableBrickRoles ==
    ASSUME TypeOK, RolesInv, NEW i \in Instances, DisableBrick(i)
    PROVE  RolesInv'
<1>1. PICK b \in ToDisable(i, pc[i]), T \in SUBSET (Balls \cap world[i].known) :
        /\ world' = [world EXCEPT ![i].enabled = @ \ {b}]
        /\ ending' = [ending EXCEPT ![i] = T \X {b}]
  BY DEF DisableBrick
<1> DEFINE w == [world[i] EXCEPT !.enabled = @ \ {b}]
<1>2. world[i] \in World /\ Roles(i, world[i]) /\ b \in world[i].known
  BY DEF TypeOK, RolesInv, WorldRoles, ToDisable
<1>3. w \in World /\ w.known = world[i].known /\ Roles(i, w)
  <2>1. world[i].enabled \ {b} \in SUBSET Bricks
    BY <1>2 DEF World
  <2>2. /\ w \in World /\ w.known = world[i].known /\ w.controlled = world[i].controlled
        /\ w.lastPaddle = world[i].lastPaddle /\ w.updated = world[i].updated
    BY <1>2, <2>1 DEF World
  <2> QED
    BY <1>2, <2>2 DEF Roles
<1>4. \A d \in ending'[i] : d[1] \in w.known /\ d[2] \in w.known
  BY <1>1, <1>2, <1>3 DEF TypeOK
<1>5. \A j \in Instances : j # i => ending'[j] = ending[j]
  BY <1>1 DEF TypeOK
<1>6. NetAuthentic'
  BY DEF DisableBrick, RolesInv, NetAuthentic
<1>7. world' = [world EXCEPT ![i] = w] /\ UNCHANGED <<pc, ptrs, plates, thread>>
  BY <1>1 DEF DisableBrick
<1> HIDE DEF w
<1> QED
  BY <1>3, <1>4, <1>5, <1>6, <1>7, WorldStepRoles DEF RolesInv

\* Steps of the main thread that touch neither elements nor pointers nor messages.
LEMMA MainStepRoles ==
    ASSUME TypeOK, RolesInv, NEW i \in Instances,
           \/ Quit(i) \/ Draw(i) \/ DrawLock(i) \/ DrawUnlock(i) \/ SkipCheck(i)
           \/ Check(i) \/ CheckLock(i) \/ CheckUnlock(i) \/ Close(i)
    PROVE  RolesInv'
<1>1. UNCHANGED <<world, ptrs, plates, ending, thread, net, inbox>>
  BY DEF Quit, Draw, DrawLock, DrawUnlock, SkipCheck, Check, CheckLock, CheckUnlock, Close, Decide
<1>2. \A j \in Instances : pc'[j] = "setup" => pc[j] = "setup"
  BY DEF TypeOK, Quit, Draw, DrawLock, DrawUnlock, SkipCheck, Check, CheckLock, CheckUnlock,
         Close, Decide, GoTo
<1>3. SetupByHost'
  BY <1>2 DEF RolesInv, SetupByHost
<1>4. WorldRoles' /\ YourPaddleKnown' /\ PaddlePtrsRoles' /\ EndingKnown'
  BY <1>1 DEF RolesInv, WorldRoles, YourPaddleKnown, PaddlePtrsRoles, EndingKnown
<1>5. ThreadsAuthentic' /\ NetAuthentic'
  BY <1>1 DEF RolesInv, ThreadsAuthentic, NetAuthentic
<1> QED
  BY <1>3, <1>4, <1>5 DEF RolesInv

\* What is serialised from a world with the right parts claims the right paddle.
LEMMA FillAuthentic ==
    ASSUME NEW i \in Instances, NEW w \in World, Roles(i, w), NEW ids \in SUBSET w.known
    PROVE  Authentic(i, FillGameUpdate(w, ids))
<1> SUFFICES ASSUME NEW e \in ids, e \in Paddles
             PROVE  FillGameElement(w, e).controlled_by_sender <=> e = OwnPaddle(i)
  <2>1. \A e \in ids : FillGameElement(w, e).id = e
    BY FillGameElementType DEF World
  <2> QED
    BY <2>1 DEF Authentic, FillGameUpdate
<1> QED
  BY DEF Roles, FillGameElement

LEMMA GenerateRoles ==
    ASSUME TypeOK, RolesInv, NEW i \in Instances, Generate(i)
    PROVE  RolesInv'
<1>1. PICK d \in [Bricks -> 1 .. MaxDuration], t \in Threads :
        /\ world' = [world EXCEPT ![i] = GeneratedWorld(d)]
        /\ thread' = [thread EXCEPT ![i][t] =
              [pc |-> "set", todo |-> {}, msg |-> FillGameUpdate(GeneratedWorld(d), Ids)]]
  BY DEF Generate
<1> DEFINE w == GeneratedWorld(d)
           msg == FillGameUpdate(w, Ids)
<1>2. i = "host"
  BY DEF Generate, GoTo, RolesInv, SetupByHost
<1>3. w \in World /\ w.known = Ids
  BY GeneratedWorldType DEF GeneratedWorld, EmptyWorld
<1>4. Roles(i, w)
  BY <1>2, IdsPartition DEF Roles, GeneratedWorld, EmptyWorld, OwnPaddle
<1>5. Authentic(i, msg)
  BY <1>3, <1>4, FillAuthentic
<1>6. world' = [world EXCEPT ![i] = w]
      /\ thread' = [thread EXCEPT ![i][t] = [pc |-> "set", todo |-> {}, msg |-> msg]]
  BY <1>1
<1> HIDE DEF w, msg
<1>7. /\ world'[i] = w
      /\ \A j \in Instances : j # i => world'[j] = world[j]
      /\ \A j \in Instances : world[j].known \subseteq world'[j].known
  BY <1>3, <1>6 DEF TypeOK, World
<1>8. WorldRoles' /\ YourPaddleKnown' /\ EndingKnown'
  BY <1>4, <1>7 DEF RolesInv, WorldRoles, YourPaddleKnown, EndingKnown, Generate
<1>9. SetupByHost' /\ PaddlePtrsRoles' /\ NetAuthentic'
  BY DEF RolesInv, SetupByHost, PaddlePtrsRoles, NetAuthentic, Generate, GoTo, TypeOK
<1>10. ThreadsAuthentic'
  <2>1. /\ thread'[i][t].todo = {} /\ thread'[i][t].msg = msg
        /\ \A j \in Instances : \A s \in Threads :
              j # i \/ s # t => thread'[j][s] = thread[j][s]
    BY <1>6 DEF TypeOK
  <2> QED
    BY <1>5, <1>7, <2>1 DEF RolesInv, ThreadsAuthentic
<1> QED
  BY <1>8, <1>9, <1>10 DEF RolesInv

\* find_paddle_ptrs sets {your, enemy} by who controls the known paddles, and the
\* plates by the rows in which the paddles are.
LEMMA FindPaddleRoles ==
    ASSUME NEW i \in Instances, NEW w \in World, Roles(i, w)
    PROVE  /\ \A old : FindPaddle(w, TRUE, old) =
                         IF OwnPaddle(i) \in w.known THEN OwnPaddle(i) ELSE old
           /\ \A old : FindPaddle(w, FALSE, old) =
                         IF OwnPaddle(Peer(i)) \in w.known THEN OwnPaddle(Peer(i)) ELSE old
<1>1. /\ OwnPaddle(i) \in Paddles /\ OwnPaddle(Peer(i)) \in Paddles
      /\ \A p \in Paddles : w.controlled[p] \in BOOLEAN
  BY InstancesType DEF World
<1>2. {p \in Paddles \cap w.known : w.controlled[p] = TRUE} = {OwnPaddle(i)} \cap w.known
  BY <1>1, InstancesType DEF Roles
<1>3. {p \in Paddles \cap w.known : w.controlled[p] = FALSE} =
        {OwnPaddle(Peer(i))} \cap w.known
  BY <1>1, InstancesType DEF Roles
<1>4. \A p \in Paddles : p <= p
  BY DEF Paddles, HostPaddle, ClientPaddle
<1> QED
  BY <1>1, <1>2, <1>3, <1>4 DEF FindPaddle

LEMMA AssignPlatesRoles ==
    ASSUME NEW i \in Instances
    PROVE  /\ AssignPlates(OwnPaddle(i), OwnPaddle(Peer(i)))[0] = ClientPaddle
           /\ AssignPlates(OwnPaddle(i), OwnPaddle(Peer(i)))[1] = HostPaddle
BY DEF Instances, Peer, OwnPaddle, HostPaddle, ClientPaddle, AssignPlates, Distance, PlateY,
       PaddleY, Plates, PlayingFieldTop, PlayingFieldBottom, PaddleHeight

LEMMA StepLockRoles ==
    ASSUME TypeOK, RolesInv, NEW i \in Instances, StepLock(i)
    PROVE  RolesInv'
<1> DEFINE p == FindPaddlePtrs(world[i], ptrs[i])
<1>1. /\ ptrs' = [ptrs EXCEPT ![i] = p]
      /\ plates' = [plates EXCEPT ![i] = FindPlates(p, plates[i])]
      /\ world' = world \/ (p.your # NoPaddle
                            /\ world' = [world EXCEPT ![i].updated = @ \cup {p.your}])
  BY DEF StepLock
<1>2. /\ world[i] \in World /\ Roles(i, world[i])
      /\ ptrs[i] \in [your : Paddles \cup {NoPaddle}, enemy : Paddles \cup {NoPaddle}]
      /\ plates[i] \in [Plates -> Paddles \cup {NoPaddle}]
  BY DEF TypeOK, RolesInv, WorldRoles
<1>3. /\ p.your \in {NoPaddle, OwnPaddle(i)} /\ p.enemy \in {NoPaddle, OwnPaddle(Peer(i))}
      /\ p.your # NoPaddle => p.your \in world[i].known
      /\ ptrs[i].your # NoPaddle /\ ptrs[i].enemy # NoPaddle => p = ptrs[i]
  <2>1. /\ ptrs[i].your \in {NoPaddle, OwnPaddle(i)}
        /\ ptrs[i].enemy \in {NoPaddle, OwnPaddle(Peer(i))}
        /\ ptrs[i].your # NoPaddle => ptrs[i].your \in world[i].known
    BY DEF RolesInv, PaddlePtrsRoles, YourPaddleKnown
  <2>2. CASE ptrs[i].your # NoPaddle /\ ptrs[i].enemy # NoPaddle
    BY <2>1, <2>2 DEF FindPaddlePtrs
  <2>3. CASE ~(ptrs[i].your # NoPaddle /\ ptrs[i].enemy # NoPaddle)
    <3>1. /\ p.your = IF OwnPaddle(i) \in world[i].known THEN OwnPaddle(i) ELSE ptrs[i].your
          /\ p.enemy = IF OwnPaddle(Peer(i)) \in world[i].known
                       THEN OwnPaddle(Peer(i)) ELSE ptrs[i].enemy
      BY <1>2, <2>3, FindPaddleRoles DEF FindPaddlePtrs
    <3> HIDE DEF p
    <3> QED
      BY <2>1, <2>3, <3>1
  <2> QED
    BY <2>2, <2>3
<1>4. LET q == FindPlates(p, plates[i])
      IN  /\ q[0] \in {NoPaddle, ClientPaddle} /\ q[1] \in {NoPaddle, HostPaddle}
          /\ q[0] # NoPaddle <=> p.your # NoPaddle /\ p.enemy # NoPaddle
  <2>1. /\ plates[i][0] \in {NoPaddle, ClientPaddle} /\ plates[i][1] \in {NoPaddle, HostPaddle}
        /\ plates[i][0] # NoPaddle <=> ptrs[i].your # NoPaddle /\ ptrs[i].enemy # NoPaddle
    BY DEF RolesInv, PaddlePtrsRoles
  <2>2. ClientPaddle # NoPaddle /\ 0 \in Plates /\ 1 \in Plates
    BY DEF ClientPaddle, NoPaddle, Plates
  <2>3. CASE p.your # NoPaddle /\ p.enemy # NoPaddle
    <3>1. p.your = OwnPaddle(i) /\ p.enemy = OwnPaddle(Peer(i))
      BY <1>3, <2>3
    <3>2. \A plate \in Plates : FindPlates(p, plates[i])[plate] =
            IF plates[i][plate] = NoPaddle
            THEN AssignPlates(OwnPaddle(i), OwnPaddle(Peer(i)))[plate] ELSE plates[i][plate]
      BY <2>3, <3>1 DEF FindPlates
    <3> QED
      BY <2>1, <2>2, <2>3, <3>2, AssignPlatesRoles
  <2>4. CASE ~(p.your # NoPaddle /\ p.enemy # NoPaddle)
    <3>1. FindPlates(p, plates[i]) = plates[i]
      BY <2>4 DEF FindPlates
    <3>2. ~(ptrs[i].your # NoPaddle /\ ptrs[i].enemy # NoPaddle)
      BY <1>3, <2>4
    <3> QED
      BY <2>1, <2>4, <3>1, <3>2
  <2> QED
    BY <2>3, <2>4
<1> HIDE DEF p
<1>5. PaddlePtrsRoles'
  BY <1>1, <1>3, <1>4 DEF RolesInv, PaddlePtrsRoles, TypeOK
<1>6. \E w \in World : /\ w.known = world[i].known /\ Roles(i, w)
                       /\ world' = [world EXCEPT ![i] = w]
  <2>1. CASE world' = world
    <3>1. world' = [world EXCEPT ![i] = world[i]]
      BY <2>1 DEF TypeOK
    <3> QED
      BY <1>2, <3>1
  <2>2. CASE /\ p.your # NoPaddle
             /\ world' = [world EXCEPT ![i].updated = @ \cup {p.your}]
    <3> DEFINE w == [world[i] EXCEPT !.updated = @ \cup {p.your}]
    <3>1. world[i].updated \cup {p.your} \in SUBSET Ids
      BY <1>2, <1>3, <2>2 DEF World
    <3>2. /\ w \in World /\ w.known = world[i].known /\ w.controlled = world[i].controlled
          /\ w.lastPaddle = world[i].lastPaddle
          /\ w.updated = world[i].updated \cup {p.your}
      BY <1>2, <3>1 DEF World
    <3>3. Roles(i, w)
      BY <1>2, <1>3, <2>2, <3>2 DEF Roles
    <3>4. world' = [world EXCEPT ![i] = w]
      BY <2>2
    <3> QED
      BY <3>2, <3>3, <3>4
  <2> QED
    BY <1>1, <2>1, <2>2
<1>7. PICK w \in World : /\ w.known = world[i].known /\ Roles(i, w)
                         /\ world' = [world EXCEPT ![i] = w]
  BY <1>6
<1>8. /\ world'[i] = w
      /\ \A j \in Instances : j # i => world'[j] = world[j]
      /\ \A j \in Instances : world'[j].known = world[j].known
  BY <1>7 DEF TypeOK
<1>9. WorldRoles'
  BY <1>7, <1>8 DEF RolesInv, WorldRoles
<1>10. YourPaddleKnown'
  BY <1>1, <1>3, <1>8 DEF RolesInv, YourPaddleKnown, TypeOK
<1>11. SetupByHost' /\ NetAuthentic'
  BY DEF StepLock, GoTo, RolesInv, SetupByHost, NetAuthentic, TypeOK
<1>12. EndingKnown' /\ ThreadsAuthentic'
  BY <1>8 DEF StepLock, RolesInv, EndingKnown, ThreadsAuthentic
<1> QED
  BY <1>5, <1>9, <1>10, <1>11, <1>12 DEF RolesInv

LEMMA StepUnlockRoles ==
    ASSUME TypeOK, RolesInv, NEW i \in Instances, StepUnlock(i)
    PROVE  RolesInv'
<1> DEFINE w == [world[i] EXCEPT !.updated = {}]
<1>1. world[i] \in World /\ Roles(i, world[i])
  BY DEF TypeOK, RolesInv, WorldRoles
<1>2. /\ w.known = world[i].known /\ w.controlled = world[i].controlled
      /\ w.lastPaddle = world[i].lastPaddle /\ w.updated = {}
  BY <1>1 DEF World
<1>3. Roles(i, w)
  BY <1>1, <1>2 DEF Roles
<1>4. world' = [world EXCEPT ![i] = w]
  BY DEF StepUnlock
<1>5. \/ UNCHANGED thread
      \/ \E t \in Threads : thread' = [thread EXCEPT ![i][t] =
            [pc |-> "start", todo |-> world[i].updated, msg |-> {}]]
  BY DEF StepUnlock
<1> HIDE DEF w
<1>6. /\ world'[i] = w
      /\ \A j \in Instances : j # i => world'[j] = world[j]
      /\ \A j \in Instances : world'[j].known = world[j].known
  BY <1>2, <1>4 DEF TypeOK
<1>7. WorldRoles' /\ YourPaddleKnown' /\ EndingKnown'
  BY <1>3, <1>6 DEF StepUnlock, RolesInv, WorldRoles, YourPaddleKnown, EndingKnown
<1>8. SetupByHost' /\ PaddlePtrsRoles' /\ NetAuthentic'
  BY DEF StepUnlock, GoTo, RolesInv, SetupByHost, PaddlePtrsRoles, NetAuthentic, TypeOK
<1>9. ThreadsAuthentic'
  <2>1. CASE UNCHANGED thread
    BY <1>6, <2>1 DEF RolesInv, ThreadsAuthentic
  <2>2. ASSUME NEW t \in Threads,
               thread' = [thread EXCEPT ![i][t] =
                  [pc |-> "start", todo |-> world[i].updated, msg |-> {}]]
        PROVE  ThreadsAuthentic'
    <3>1. /\ thread'[i][t].todo = world[i].updated /\ thread'[i][t].msg = {}
          /\ \A j \in Instances : \A s \in Threads :
                j # i \/ s # t => thread'[j][s] = thread[j][s]
      BY <2>2 DEF TypeOK
    <3> QED
      BY <1>1, <1>6, <3>1 DEF RolesInv, ThreadsAuthentic, Roles, Authentic
  <2> QED
    BY <1>5, <2>1, <2>2
<1> QED
  BY <1>7, <1>8, <1>9 DEF RolesInv

\* A thread of an update serialises one more known element, or moves on with the
\* message it has.
LEMMA SenderRoles ==
    ASSUME TypeOK, RolesInv, NEW i \in Instances, NEW t \in Threads, Sender(i, t)
    PROVE  RolesInv'
<1>1. UNCHANGED <<world, pc, ptrs, plates, ending, inbox>>
  BY DEF Sender, FillLock, FillElement, SendCall, SetSending, Write, ClearSending
<1>2. WorldRoles' /\ SetupByHost' /\ YourPaddleKnown' /\ PaddlePtrsRoles' /\ EndingKnown'
  BY <1>1 DEF RolesInv, WorldRoles, SetupByHost, YourPaddleKnown, PaddlePtrsRoles, EndingKnown
<1>3. \A j \in Instances : \A s \in Threads :
        j # i \/ s # t => thread'[j][s] = thread[j][s]
  <2>1. \A u, j \in Instances, s \in Threads :
          j # i \/ s # t => [thread EXCEPT ![i][t] = u][j][s] = thread[j][s]
    BY DEF TypeOK
  <2>2. \E u : thread' = [thread EXCEPT ![i][t] = u]
    <3>1. CASE FillLock(i, t) \/ SetSending(i, t)
      BY <3>1 DEF FillLock, SetSending
    <3>2. CASE FillElement(i, t)
      <4>1. PICK e \in thread[i][t].todo :
              thread' = [thread EXCEPT ![i][t].todo = @ \ {e},
                                       ![i][t].msg = @ \cup {FillGameElement(world[i], e)}]
        BY <3>2 DEF FillElement
      <4>2. thread' = [thread EXCEPT ![i][t] =
              [thread[i][t] EXCEPT !.todo = @ \ {e},
                                   !.msg = @ \cup {FillGameElement(world[i], e)}]]
        BY <4>1 DEF TypeOK
      <4> QED
        BY <4>2
    <3>3. CASE SendCall(i, t) \/ Write(i, t) \/ ClearSending(i, t)
      BY <3>3 DEF SendCall, Write, ClearSending
    <3> QED
      BY <3>1, <3>2, <3>3 DEF Sender
  <2> QED
    BY <2>1, <2>2
<1>4. /\ thread[i][t].todo \subseteq world[i].known /\ Authentic(i, thread[i][t].msg)
      /\ thread[i][t] \in UpdateThread
  BY DEF RolesInv, ThreadsAuthentic, TypeOK
<1>5. thread'[i][t].todo \subseteq world[i].known /\ Authentic(i, thread'[i][t].msg)
  <2>1. CASE FillElement(i, t)
    <3>1. PICK e \in thread[i][t].todo :
            thread' = [thread EXCEPT ![i][t].todo = @ \ {e},
                                     ![i][t].msg = @ \cup {FillGameElement(world[i], e)}]
      BY <2>1 DEF FillElement
    <3>2. /\ thread'[i][t].todo = thread[i][t].todo \ {e}
          /\ thread'[i][t].msg = thread[i][t].msg \cup {FillGameElement(world[i], e)}
      BY <1>4, <3>1 DEF TypeOK, UpdateThread
    <3>3. Authentic(i, FillGameUpdate(world[i], {e}))
      BY <1>4, FillAuthentic DEF TypeOK, RolesInv, WorldRoles
    <3> QED
      BY <1>4, <3>2, <3>3 DEF Authentic, FillGameUpdate
  <2>2. CASE FillLock(i, t) \/ SetSending(i, t)
    <3>1. thread'[i][t].todo = thread[i][t].todo /\ thread'[i][t].msg = thread[i][t].msg
      <4>1. \A q : /\ [thread EXCEPT ![i][t].pc = q][i][t].todo = thread[i][t].todo
                   /\ [thread EXCEPT ![i][t].pc = q][i][t].msg = thread[i][t].msg
        BY <1>4 DEF TypeOK, UpdateThread
      <4> QED
        BY <2>2, <4>1 DEF FillLock, SetSending
    <3> QED
      BY <1>4, <3>1
  <2>3. CASE SendCall(i, t) \/ Write(i, t) \/ ClearSending(i, t)
    <3>1. thread'[i][t] \in {IdleThread,
            [thread[i][t] EXCEPT !.pc = "set"], [thread[i][t] EXCEPT !.pc = "clear", !.msg = {}]}
      BY <1>4, <2>3 DEF TypeOK, SendCall, Write, ClearSending
    <3>2. /\ thread'[i][t].todo \subseteq thread[i][t].todo
          /\ thread'[i][t].msg \subseteq thread[i][t].msg
      <4>1. /\ [thread[i][t] EXCEPT !.pc = "set"].todo = thread[i][t].todo
            /\ [thread[i][t] EXCEPT !.pc = "set"].msg = thread[i][t].msg
            /\ [thread[i][t] EXCEPT !.pc = "clear", !.msg = {}].todo = thread[i][t].todo
            /\ [thread[i][t] EXCEPT !.pc = "clear", !.msg = {}].msg = {}
            /\ IdleThread.todo = {} /\ IdleThread.msg = {}
        BY <1>4 DEF IdleThread, UpdateThread
      <4> QED
        BY <3>1, <4>1
    <3> QED
      BY <1>4, <3>2 DEF Authentic
  <2> QED
    BY <2>1, <2>2, <2>3 DEF Sender
<1>6. ThreadsAuthentic'
  BY <1>1, <1>3, <1>5 DEF RolesInv, ThreadsAuthentic
<1>7. NetAuthentic'
  <2>1. CASE UNCHANGED net
    BY <1>1, <2>1 DEF RolesInv, NetAuthentic
  <2>2. CASE Write(i, t) /\ net' = [net EXCEPT ![Peer(i)] = Append(@, thread[i][t].msg)]
    <3>1. /\ net[Peer(i)] \in Seq(GameUpdate) /\ Peer(i) \in Instances
          /\ Peer(Peer(i)) = i /\ thread[i][t].msg \in GameUpdate
      BY <1>4, InstancesType DEF TypeOK, UpdateThread
    <3>2. /\ net'[Peer(i)] = Append(net[Peer(i)], thread[i][t].msg)
          /\ \A j \in Instances : j # Peer(i) => net'[j] = net[j]
      BY <2>2, <3>1 DEF TypeOK
    <3>3. \A k \in DOMAIN net'[Peer(i)] :
            \/ net'[Peer(i)][k] = thread[i][t].msg
            \/ k \in DOMAIN net[Peer(i)] /\ net'[Peer(i)][k] = net[Peer(i)][k]
      BY <3>1, <3>2
    <3>4. \A k \in DOMAIN net'[Peer(i)] : Authentic(i, net'[Peer(i)][k])
      BY <1>4, <3>1, <3>3 DEF RolesInv, NetAuthentic
    <3> QED
      BY <1>1, <3>1, <3>2, <3>4 DEF RolesInv, NetAuthentic
  <2>3. UNCHANGED net \/ (Write(i, t)
                          /\ net' = [net EXCEPT ![Peer(i)] = Append(@, thread[i][t].msg)])
    BY DEF Sender, FillLock, FillElement, SendCall, SetSending, Write, ClearSending
  <2> QED
    BY <2>1, <2>2, <2>3
<1> QED
  BY <1>2, <1>6, <1>7 DEF RolesInv

LEMMA ReaderRoles ==
    ASSUME TypeOK, RolesInv, NEW i \in Instances, ReaderLock(i) \/ Lose(i)
    PROVE  RolesInv'
<1>1. UNCHANGED <<world, pc, ptrs, plates, ending, thread>>
  BY DEF ReaderLock, Lose
<1>2. /\ WorldRoles' /\ SetupByHost' /\ YourPaddleKnown' /\ PaddlePtrsRoles' /\ EndingKnown'
      /\ ThreadsAuthentic'
  BY <1>1 DEF RolesInv, WorldRoles, SetupByHost, YourPaddleKnown, PaddlePtrsRoles, EndingKnown,
              ThreadsAuthentic
<1>3. /\ net[i] \in Seq(GameUpdate) /\ net[i] # <<>>
      /\ net' = [net EXCEPT ![i] = Tail(@)]
      /\ inbox' = inbox \/ inbox' = [inbox EXCEPT ![i] = Head(net[i])]
  BY DEF TypeOK, ReaderLock, Lose
<1>4. /\ Head(net[i]) = net[i][1] /\ 1 \in DOMAIN net[i]
      /\ \A k \in DOMAIN Tail(net[i]) : k + 1 \in DOMAIN net[i] /\ Tail(net[i])[k] = net[i][k + 1]
  BY <1>3
<1>5. \A j \in Instances : \A k \in DOMAIN net'[j] : Authentic(Peer(j), net'[j][k])
  BY <1>3, <1>4 DEF RolesInv, NetAuthentic, TypeOK
<1>6. \A j \in Instances : Authentic(Peer(j), inbox'[j])
  BY <1>3, <1>4 DEF RolesInv, NetAuthentic, TypeOK
<1> QED
  BY <1>2, <1>5, <1>6 DEF RolesInv, NetAuthentic

\* An authentic element gives the receiver the paddle that the sender does not claim.
LEMMA ParseElementRoles ==
    ASSUME TypeOK, RolesInv, NEW i \in Instances, ParseElement(i)
    PROVE  RolesInv'
<1>1. PICK g \in inbox[i] :
        /\ world' = [world EXCEPT ![i] = ParseGameElement(@, g)]
        /\ inbox' = [inbox EXCEPT ![i] = @ \ {g}]
  BY DEF ParseElement
<1> DEFINE w == ParseGameElement(world[i], g)
<1>2. /\ g \in GameElement /\ world[i] \in World /\ Roles(i, world[i])
      /\ g.id \in Paddles => (g.controlled_by_sender <=> g.id = OwnPaddle(Peer(i)))
  BY DEF TypeOK, GameUpdate, RolesInv, WorldRoles, NetAuthentic, Authentic
<1>3. /\ w \in World /\ w.known = world[i].known \cup {g.id}
      /\ w.updated = world[i].updated /\ w.lastPaddle = world[i].lastPaddle
      /\ \A p \in Paddles : w.controlled[p] =
            IF p = g.id THEN ~g.controlled_by_sender ELSE world[i].controlled[p]
  BY <1>2, ParseGameElementType
<1>4. Roles(i, w)
  <2> HIDE DEF w
  <2>1. \A p \in Paddles : w.controlled[p] <=> p = OwnPaddle(i) /\ p \in w.known
    <3> SUFFICES ASSUME NEW p \in Paddles
                 PROVE  w.controlled[p] <=> p = OwnPaddle(i) /\ p \in w.known
      OBVIOUS
    <3>1. CASE p = g.id
      <4>1. p = OwnPaddle(i) <=> ~(p = OwnPaddle(Peer(i)))
        BY InstancesType
      <4>2. w.controlled[p] = ~g.controlled_by_sender /\ p \in w.known
        BY <1>3, <3>1
      <4>3. g.controlled_by_sender <=> p = OwnPaddle(Peer(i))
        BY <1>2, <3>1
      <4> QED
        BY <4>1, <4>2, <4>3
    <3>2. CASE p # g.id
      BY <1>2, <1>3, <3>2 DEF Roles
    <3> QED
      BY <3>1, <3>2
  <2> QED
    BY <1>2, <1>3, <2>1 DEF Roles
<1>5. world' = [world EXCEPT ![i] = w] /\ UNCHANGED <<pc, ptrs, plates, thread, ending, net>>
  BY <1>1 DEF ParseElement
<1>6. \A c \in ending'[i] : c[1] \in w.known /\ c[2] \in w.known
  BY <1>3, <1>5 DEF RolesInv, EndingKnown
<1>7. NetAuthentic'
  BY <1>1, <1>5 DEF RolesInv, NetAuthentic, Authentic, TypeOK
<1> HIDE DEF w
<1>8. world[i].known \subseteq w.known /\ (\A j \in Instances : j # i => ending'[j] = ending[j])
  BY <1>3, <1>5
<1> QED
  BY <1>3, <1>4, <1>5, <1>6, <1>7, <1>8, WorldStepRoles DEF RolesInv

\* The strengthened invariant about the parts holds in every behaviour.
THEOREM RolesInvariant == Spec => []RolesInv
<1>1. TypeOK /\ RolesInv /\ [Next]_vars => RolesInv'
  <2> SUFFICES ASSUME TypeOK, RolesInv, [Next]_vars PROVE RolesInv'
    OBVIOUS
  <2>1. ASSUME NEW i \in Instances, Main(i)
        PROVE  RolesInv'
    BY <2>1, GenerateRoles, MainStepRoles, DisableBrickRoles, EndDisabledContactRoles,
       StepLockRoles, StepUnlockRoles DEF Main
  <2>2. ASSUME NEW i \in Instances, Physics(i) \/ Quit(i) \/ Close(i)
        PROVE  RolesInv'
    BY <2>2, PhysicsRoles, MainStepRoles
  <2>3. ASSUME NEW i \in Instances, NEW t \in Threads, Sender(i, t)
        PROVE  RolesInv'
    BY <2>3, SenderRoles
  <2>4. ASSUME NEW i \in Instances, Reader(i) \/ Lose(i)
        PROVE  RolesInv'
    BY <2>4, ReaderRoles, ParseElementRoles DEF Reader
  <2>5. CASE UNCHANGED vars
    BY <2>5 DEF vars, RolesInv, WorldRoles, SetupByHost, YourPaddleKnown, PaddlePtrsRoles,
                EndingKnown, ThreadsAuthentic, NetAuthentic
  <2> QED
    BY <2>1, <2>2, <2>3, <2>4, <2>5 DEF Next, Terminating
<1> QED
  BY InitRoles, <1>1, TypeCorrect, PTL DEF Spec

\* OneController: no paddle is ever steered by the instance whose paddle it is not.
THEOREM OneControllerHolds == Spec => []OneController
<1>1. RolesInv => OneController
  BY DEF RolesInv, WorldRoles, Roles, OneController
<1> QED
  BY <1>1, RolesInvariant, PTL

\* LastPaddleIsOwn: a ball is credited to the own paddle or to none.
THEOREM LastPaddleIsOwnHolds == Spec => []LastPaddleIsOwn
<1>1. RolesInv => LastPaddleIsOwn
  BY DEF RolesInv, WorldRoles, Roles, LastPaddleIsOwn
<1> QED
  BY <1>1, RolesInvariant, PTL

\* PaddlePtrsRoles: {your, enemy} and the back plates never change hands.
THEOREM PaddlePtrsRolesHold == Spec => []PaddlePtrsRoles
<1>1. RolesInv => PaddlePtrsRoles
  BY DEF RolesInv
<1> QED
  BY <1>1, RolesInvariant, PTL

-----------------------------------------------------------------------------
(* Points for bricks                                                       *)

\* The actions that leave the elements alone.
LEMMA WorldKept ==
    ASSUME NEW i \in Instances,
           \/ Quit(i) \/ Close(i) \/ Draw(i) \/ DrawLock(i) \/ DrawUnlock(i)
           \/ SkipCheck(i) \/ Check(i) \/ CheckLock(i) \/ CheckUnlock(i)
           \/ (\E t \in Threads : Sender(i, t)) \/ ReaderLock(i) \/ Lose(i)
    PROVE  world' = world
BY DEF Quit, Close, Draw, DrawLock, DrawUnlock, SkipCheck, Check, CheckLock, CheckUnlock,
       Sender, FillLock, FillElement, SendCall, SetSending, Write, ClearSending, ReaderLock, Lose

\* In instance i, under its main thread, brick b does not break, or it is paid for.
BreakPaid(i, b) ==
    elementMutex[i] = "main" /\ BrickExists(world[i], b) /\ ~BrickExists(world'[i], b) =>
        world'[i].score[OwnPaddle(i)] = world[i].score[OwnPaddle(i)] + 1

\* A contact that ends in a step or because a body is disabled.
LEMMA ContactBrickPaid ==
    ASSUME TypeOK, RolesInv, NEW i \in Instances, NEW b \in Bricks,
           NEW ball \in Balls, NEW c \in Bricks,
           world' = [world EXCEPT ![i] = ContactBrick(world[i], ball, c)]
    PROVE  BreakPaid(i, b)
<1>1. world[i] \in World /\ world'[i] = ContactBrick(world[i], ball, c)
    BY DEF TypeOK
<1>2. SUFFICES ASSUME BrickExists(world[i], b), ~BrickExists(ContactBrick(world[i], ball, c), b)
               PROVE  world'[i].score[OwnPaddle(i)] = world[i].score[OwnPaddle(i)] + 1
    BY <1>1 DEF BreakPaid
<1>3. /\ world[i].lastPaddle[ball] \in Paddles
      /\ world'[i].score = [world[i].score EXCEPT ![world[i].lastPaddle[ball]] = @ + 1]
    BY <1>1, <1>2, ContactBrickBreaks
<1>4. world[i].lastPaddle[ball] = OwnPaddle(i)
    BY <1>3, IdsPartition DEF RolesInv, WorldRoles, Roles
<1>5. world[i].score \in [Paddles -> Int]
    BY <1>1 DEF World
<1>. QED
    BY <1>3, <1>4, <1>5

\* The other steps of the main thread break no brick at all.
LEMMA OtherStepPaid ==
    ASSUME TypeOK, NEW i \in Instances, NEW b \in Bricks,
           \/ Generate(i) \/ DisableBrick(i) \/ StepLock(i) \/ StepUnlock(i)
           \/ BallHitsPaddle(i) \/ BallHitsPlate(i) \/ ParseElement(i)
    PROVE  BreakPaid(i, b)
<1>1. world[i] \in World
    BY DEF TypeOK
<1>2. CASE Generate(i) \/ StepLock(i) \/ ParseElement(i)
    <2>1. elementMutex[i] # "main"
        BY <1>2 DEF Generate, StepLock, LockElements, ParseElement
    <2>. QED
        BY <2>1 DEF BreakPaid
<1>3. CASE DisableBrick(i) \/ StepUnlock(i)
    <2>1. world'[i].duration = world[i].duration /\ world'[i].known = world[i].known
        BY <1>1, <1>3 DEF DisableBrick, StepUnlock, TypeOK, World
    <2>. QED
        BY <2>1 DEF BreakPaid, BrickExists
<1>4. CASE BallHitsPaddle(i)
    <2>1. PICK ball \in Balls, p \in Paddles :
             world' = [world EXCEPT ![i] = ContactPaddle(world[i], ball, p)]
        BY <1>4 DEF BallHitsPaddle, StepContact
    <2>2. world'[i].duration = world[i].duration /\ world'[i].known = world[i].known
        BY <1>1, <2>1, ContactPaddleType, ContactKeepsBricks DEF TypeOK
    <2>. QED
        BY <2>2 DEF BreakPaid, BrickExists
<1>5. CASE BallHitsPlate(i)
    <2>1. PICK ball \in Balls, plate \in Plates :
             /\ plates[i][plate] # NoPaddle
             /\ world' = [world EXCEPT ![i] = ContactPlate(world[i], ball, plates[i][plate])]
        BY <1>5 DEF BallHitsPlate, StepContact
    <2>2. plates[i][plate] \in Paddles
        BY <2>1 DEF TypeOK
    <2>3. world'[i].duration = world[i].duration /\ world'[i].known = world[i].known
        BY <1>1, <2>1, <2>2, ContactPlateType, ContactKeepsBricks DEF TypeOK
    <2>. QED
        BY <2>3 DEF BreakPaid, BrickExists
<1>. QED
    BY <1>2, <1>3, <1>4, <1>5

\* BrokenBrickIsScored: a brick that breaks under the main thread is paid for by one
\* point for the own paddle, whatever the connection does.
THEOREM BrokenBrickIsScoredHolds == Spec => BrokenBrickIsScored
<1>1. TypeOK /\ RolesInv /\ [Next]_vars => [\A i \in Instances : \A b \in Bricks : BreakPaid(i, b)]_vars
    <2>. SUFFICES ASSUME TypeOK, RolesInv, Next, NEW i \in Instances, NEW b \in Bricks
                  PROVE  BreakPaid(i, b)
        OBVIOUS
    <2>1. CASE world'[i] = world[i]
        BY <2>1 DEF BreakPaid
    <2>2. ASSUME NEW j \in Instances, Generate(j) \/ DisableBrick(j) \/ StepLock(j) \/ StepUnlock(j)
                 \/ BallHitsPaddle(j) \/ BallHitsPlate(j) \/ ParseElement(j)
          PROVE  BreakPaid(i, b)
        <3>1. CASE j = i
            BY <2>2, <3>1, OtherStepPaid
        <3>2. CASE j # i
            <4>1. world'[i] = world[i]
                BY <2>2, <3>2 DEF TypeOK, Generate, DisableBrick, StepLock, StepUnlock,
                   BallHitsPaddle, BallHitsPlate, StepContact, ParseElement
            <4>. QED
                BY <4>1, <2>1
        <3>. QED
            BY <3>1, <3>2
    <2>3. ASSUME NEW j \in Instances, BallHitsBrick(j) \/ EndDisabledContact(j)
          PROVE  BreakPaid(i, b)
        <3>1. PICK ball \in Balls, c \in Bricks :
                 world' = [world EXCEPT ![j] = ContactBrick(world[j], ball, c)]
            BY <2>3 DEF BallHitsBrick, StepContact, EndDisabledContact, TypeOK
        <3>2. CASE j = i
            BY <3>1, <3>2, ContactBrickPaid
        <3>3. CASE j # i
            BY <3>1, <3>3, <2>1 DEF TypeOK
        <3>. QED
            BY <3>2, <3>3
    <2>4. ASSUME world' = world PROVE BreakPaid(i, b)
        BY <2>4, <2>1
    <2>. QED
        BY <2>2, <2>3, <2>4, WorldKept DEF Next, Main, Physics, Reader, Terminating, vars
<1>2. [\A i \in Instances : \A b \in Bricks : BreakPaid(i, b)]_vars <=>
      [\A i \in Instances : \A b \in Bricks :
          elementMutex[i] = "main" /\ BrickExists(world[i], b) /\ ~BrickExists(world'[i], b) =>
              world'[i].score[OwnPaddle(i)] = world[i].score[OwnPaddle(i)] + 1]_vars
    BY DEF BreakPaid
<1>. QED
    BY <1>1, <1>2, TypeCorrect, RolesInvariant, PTL DEF Spec, BrokenBrickIsScored


-----------------------------------------------------------------------------
(* Who holds element_mutex                                                 *)

\* The main thread holds the mutex where it touches elements, and nothing is left to
\* parse when the reader does not.
LockInv ==
    \A i \in Instances :
        /\ pc[i] \in {"drawing", "stepping", "checking"} => elementMutex[i] = "main"
        /\ ending[i] # {} => pc[i] \in {"drawing", "checking"}
        /\ elementMutex[i] # "reader" => inbox[i] = {}


LEMMA InitLock == Init => LockInv
BY DEF Init, LockInv

\* The steps of the main thread that take or release the mutex, or do neither.
LEMMA MainLock ==
    ASSUME TypeOK, LockInv, NEW i \in Instances,
           \/ Generate(i) \/ Draw(i) \/ DrawLock(i) \/ DrawUnlock(i) \/ StepLock(i) \/ StepUnlock(i)
           \/ SkipCheck(i) \/ Check(i) \/ CheckLock(i) \/ CheckUnlock(i) \/ Quit(i) \/ Close(i)
    PROVE  LockInv'
<1>1. UNCHANGED <<ending, inbox>>
  BY DEF Generate, Draw, DrawLock, DrawUnlock, StepLock, StepUnlock, SkipCheck, Check, CheckLock,
         CheckUnlock, Quit, Close
<1>2. \A j \in Instances \ {i} : pc'[j] = pc[j] /\ elementMutex'[j] = elementMutex[j]
  BY DEF TypeOK, Generate, Draw, DrawLock, DrawUnlock, StepLock, StepUnlock, SkipCheck, Check,
         CheckLock, CheckUnlock, Quit, Close, Decide, GoTo, LockElements, UnlockElements
<1>3. CASE Generate(i) \/ Draw(i) \/ SkipCheck(i) \/ Check(i) \/ Quit(i) \/ Close(i)
  <2>1. /\ pc[i] \notin {"drawing", "stepping", "checking"}
        /\ pc'[i] \notin {"drawing", "stepping", "checking"}
        /\ elementMutex' = elementMutex
    BY <1>3 DEF TypeOK, Generate, Draw, SkipCheck, Check, Quit, Close, Decide, GoTo
  <2> QED
    BY <1>1, <1>2, <2>1 DEF LockInv
<1>4. CASE DrawLock(i) \/ StepLock(i) \/ CheckLock(i)
  <2>1. /\ pc[i] \notin {"drawing", "stepping", "checking"}
        /\ elementMutex[i] = "free" /\ elementMutex'[i] = "main"
    BY <1>4 DEF TypeOK, DrawLock, StepLock, CheckLock, GoTo, LockElements
  <2> QED
    BY <1>1, <1>2, <2>1 DEF LockInv
<1>5. CASE DrawUnlock(i) \/ StepUnlock(i) \/ CheckUnlock(i)
  <2>1. /\ pc'[i] \notin {"drawing", "stepping", "checking"}
        /\ elementMutex[i] = "main"
    BY <1>5 DEF TypeOK, DrawUnlock, StepUnlock, CheckUnlock, Decide, GoTo, UnlockElements
  <2>2. ending[i] = {}
    BY <1>5 DEF DrawUnlock, StepUnlock, CheckUnlock, AllDisabled, GoTo, LockInv
  <2> QED
    BY <1>1, <1>2, <2>1, <2>2 DEF LockInv
<1> QED
  BY <1>3, <1>4, <1>5

\* The other steps.
LEMMA OtherLock ==
    ASSUME TypeOK, LockInv, NEW i \in Instances,
           \/ DisableBrick(i) \/ EndDisabledContact(i) \/ Physics(i)
           \/ (\E t \in Threads : Sender(i, t)) \/ Reader(i) \/ Lose(i)
    PROVE  LockInv'
<1>1. CASE Physics(i) \/ Lose(i)
  <2>1. UNCHANGED <<pc, elementMutex, ending, inbox>>
    BY <1>1 DEF Physics, BallHitsBrick, BallHitsPaddle, BallHitsPlate, StepContact, Lose
  <2> QED
    BY <2>1 DEF LockInv
<1>2. CASE \E t \in Threads : Sender(i, t)
  <2>1. UNCHANGED <<pc, elementMutex, ending, inbox>>
    BY <1>2 DEF Sender, FillLock, FillElement, SendCall, SetSending, Write, ClearSending
  <2> QED
    BY <2>1 DEF LockInv
<1>3. CASE DisableBrick(i) \/ EndDisabledContact(i)
  <2>1. UNCHANGED <<pc, elementMutex, inbox>> /\ pc[i] \in {"drawing", "checking"}
    BY <1>3 DEF DisableBrick, EndDisabledContact, LockInv
  <2>2. \A j \in Instances \ {i} : ending'[j] = ending[j]
    BY <1>3 DEF TypeOK, DisableBrick, EndDisabledContact
  <2> QED
    BY <2>1, <2>2 DEF LockInv
<1>4. CASE ReaderLock(i)
  <2>1. /\ UNCHANGED <<pc, ending>> /\ elementMutex[i] = "free" /\ elementMutex'[i] = "reader"
        /\ \A j \in Instances \ {i} : elementMutex'[j] = elementMutex[j] /\ inbox'[j] = inbox[j]
    BY <1>4 DEF TypeOK, ReaderLock, LockElements
  <2> QED
    BY <2>1 DEF LockInv
<1>5. CASE ParseElement(i)
  <2>1. /\ UNCHANGED <<pc, ending>> /\ elementMutex[i] = "reader"
        /\ \A j \in Instances \ {i} : elementMutex'[j] = elementMutex[j] /\ inbox'[j] = inbox[j]
        /\ elementMutex'[i] = "reader" \/ (elementMutex'[i] = "free" /\ inbox'[i] = {})
    BY <1>5 DEF TypeOK, ParseElement, UnlockElements
  <2> QED
    BY <2>1 DEF LockInv
<1> QED
  BY <1>1, <1>2, <1>3, <1>4, <1>5 DEF Reader

\* The main thread and the reader keep each other off the elements.
THEOREM LockInvariant == Spec => []LockInv
<1>1. TypeOK /\ LockInv /\ [Next]_vars => LockInv'
  <2> SUFFICES ASSUME TypeOK, LockInv, [Next]_vars PROVE LockInv'
    OBVIOUS
  <2>1. CASE UNCHANGED vars
    BY <2>1 DEF vars, LockInv
  <2> QED
    BY <2>1, MainLock, OtherLock DEF Next, Main, Terminating
<1> QED
  BY InitLock, <1>1, TypeCorrect, PTL DEF Spec

-----------------------------------------------------------------------------
(* The way of the board                                                    *)

PeerPaddle(i) == OwnPaddle(Peer(i))

IdsOf(msg) == {g.id : g \in msg}

\* An update of i with the peer's paddle names it once, without points.
NamesPeerOnce(i, msg) ==
    \A g, h \in msg :
        g.id = PeerPaddle(i) /\ h.id = PeerPaddle(i) => g = h /\ g.score = 0

WholeBoard(i, msg) == IdsOf(msg) = Ids /\ NamesPeerOnce(i, msg)

\* The updates of i on their way: msgs in its threads, queue on the wire, in at the
\* reader of its peer, which knows the elements of known.  The one that carries the
\* peer's paddle exists once, until the paddle is known, and only if i made the board.
Traffic(i, made, msgs, queue, in, known) ==
    /\ ~made => /\ \A t \in Threads : ~IsInitial(i, msgs[t])
                /\ \A k \in DOMAIN queue : ~IsInitial(i, queue[k])
                /\ ~IsInitial(i, in)
    /\ ~made /\ i = "host" => PeerPaddle(i) \notin known
    /\ \A t \in Threads : IsInitial(i, msgs[t]) => WholeBoard(i, msgs[t])
    /\ \A k \in DOMAIN queue : IsInitial(i, queue[k]) => WholeBoard(i, queue[k])
    /\ IsInitial(i, in) => NamesPeerOnce(i, in) /\ PeerPaddle(i) \notin known
    /\ \A s, t \in Threads : IsInitial(i, msgs[s]) /\ IsInitial(i, msgs[t]) => s = t
    /\ \A k, l \in DOMAIN queue : IsInitial(i, queue[k]) /\ IsInitial(i, queue[l]) => k = l
    /\ \A t \in Threads : IsInitial(i, msgs[t]) =>
          /\ \A k \in DOMAIN queue : ~IsInitial(i, queue[k])
          /\ ~IsInitial(i, in) /\ PeerPaddle(i) \notin known
    /\ \A k \in DOMAIN queue : IsInitial(i, queue[k]) =>
          ~IsInitial(i, in) /\ PeerPaddle(i) \notin known
    /\ i = "host" /\ PeerPaddle(i) \in known \cup IdsOf(in) => known \cup IdsOf(in) = Ids

Made(i) == i = "host" /\ pc["host"] # "setup"
Msgs(ts) == [t \in Threads |-> ts[t].msg]

TrafficOf(i) ==
    Traffic(i, Made(i), Msgs(thread[i]), net[Peer(i)], inbox[Peer(i)], world[Peer(i)].known)

\* Only Generate's thread has the peer's paddle; a thread that is past filling has
\* nothing left to fill.
Honest(i, u) ==
    /\ PeerPaddle(i) \notin u.todo
    /\ IsInitial(i, u.msg) => u.pc \in {"set", "write"}
    /\ u.todo # {} => u.pc \in {"start", "filling"}

SendersHonest ==
    \A i \in Instances :
        /\ PeerPaddle(i) \notin world[i].updated
        /\ \A t \in Threads : Honest(i, thread[i][t])

HostHasBoard ==
    IF pc["host"] = "setup" THEN HostPaddle \notin world["host"].known
    ELSE world["host"].known = Ids

BoardInv == SendersHonest /\ HostHasBoard /\ \A i \in Instances : TrafficOf(i)


LEMMA InitialFacts ==
    ASSUME NEW i
    PROVE  /\ ~IsInitial(i, {})
           /\ \A msg, g : IsInitial(i, msg \ {g}) => IsInitial(i, msg)
           /\ \A msg, g : g.id # PeerPaddle(i) /\ IsInitial(i, msg \cup {g}) => IsInitial(i, msg)
           /\ \A msg : IsInitial(i, msg) <=> PeerPaddle(i) \in IdsOf(msg)
BY DEF IsInitial, PeerPaddle, IdsOf

\* A thread's update that is replaced by another one without the peer's paddle, or by
\* itself.
LEMMA ThreadTraffic ==
    ASSUME NEW i \in Instances, NEW made, NEW msgs, NEW next, NEW queue, NEW in, NEW known,
           Traffic(i, made, msgs, queue, in, known),
           \A t \in Threads : next[t] = msgs[t] \/ ~IsInitial(i, next[t])
    PROVE  Traffic(i, made, next, queue, in, known)
BY DEF Traffic

\* One update is written, to a peer that may have closed.
LEMMA WriteTraffic ==
    ASSUME NEW i \in Instances, NEW made, NEW msgs, NEW next, NEW queue \in Seq(GameUpdate),
           NEW in, NEW known, NEW t \in Threads, msgs[t] \in GameUpdate,
           Traffic(i, made, msgs, queue, in, known),
           next[t] = {}, \A s \in Threads \ {t} : next[s] = msgs[s]
    PROVE  /\ Traffic(i, made, next, queue, in, known)
           /\ Traffic(i, made, next, Append(queue, msgs[t]), in, known)
<1>1. ~IsInitial(i, next[t])
  BY InitialFacts
<1>2. Traffic(i, made, next, queue, in, known)
  BY <1>1, ThreadTraffic
<1> DEFINE longer == Append(queue, msgs[t])
<1>3. \A k \in DOMAIN longer :
        \/ k \in DOMAIN queue /\ longer[k] = queue[k]
        \/ k = Len(queue) + 1 /\ longer[k] = msgs[t]
  OBVIOUS
<1> HIDE DEF longer
<1>4. Traffic(i, made, next, longer, in, known)
  <2>1. CASE ~IsInitial(i, msgs[t])
    BY <1>2, <1>3, <2>1 DEF Traffic
  <2>2. CASE IsInitial(i, msgs[t])
    <3>1. /\ made /\ WholeBoard(i, msgs[t]) /\ ~IsInitial(i, in) /\ PeerPaddle(i) \notin known
          /\ \A k \in DOMAIN queue : ~IsInitial(i, queue[k])
          /\ \A s \in Threads \ {t} : ~IsInitial(i, msgs[s])
      BY <2>2 DEF Traffic
    <3>2. \A s \in Threads : ~IsInitial(i, next[s])
      BY <1>1, <3>1
    <3>3. \A k \in DOMAIN longer : IsInitial(i, longer[k]) =>
             k = Len(queue) + 1 /\ WholeBoard(i, longer[k])
      BY <1>3, <3>1
    <3> QED
      BY <1>2, <3>1, <3>2, <3>3 DEF Traffic
  <2> QED
    BY <2>1, <2>2
<1> QED
  BY <1>2, <1>4 DEF longer

\* The front of the queue is lost, or goes to a reader that has nothing left to parse.
LEMMA TakeTraffic ==
    ASSUME NEW i \in Instances, NEW made, NEW msgs, NEW queue \in Seq(GameUpdate),
           NEW known \in SUBSET Ids, NEW in, queue # <<>>,
           Traffic(i, made, msgs, queue, in, known)
    PROVE  /\ Traffic(i, made, msgs, Tail(queue), in, known)
           /\ in = {} => Traffic(i, made, msgs, Tail(queue), Head(queue), known)
<1> DEFINE rest == Tail(queue)
           first == Head(queue)
<1>1. /\ \A k \in DOMAIN rest : k + 1 \in DOMAIN queue /\ rest[k] = queue[k + 1] /\ k \in Int
      /\ 1 \in DOMAIN queue /\ first = queue[1]
      /\ \A k \in DOMAIN rest : k + 1 # 1
  OBVIOUS
<1> HIDE DEF rest, first
<1>2. /\ \A k \in DOMAIN rest : ~made => ~IsInitial(i, rest[k])
      /\ \A k \in DOMAIN rest : IsInitial(i, rest[k]) => WholeBoard(i, rest[k])
      /\ \A k \in DOMAIN rest : IsInitial(i, rest[k]) =>
            ~IsInitial(i, in) /\ PeerPaddle(i) \notin known
      /\ \A t \in Threads : IsInitial(i, msgs[t]) => \A k \in DOMAIN rest : ~IsInitial(i, rest[k])
  BY <1>1 DEF Traffic
<1>3. \A k, l \in DOMAIN rest : IsInitial(i, rest[k]) /\ IsInitial(i, rest[l]) => k = l
  <2> SUFFICES ASSUME NEW k \in DOMAIN rest, NEW l \in DOMAIN rest,
                      IsInitial(i, rest[k]), IsInitial(i, rest[l])
               PROVE  k = l
    OBVIOUS
  <2>1. k + 1 = l + 1
    BY <1>1 DEF Traffic
  <2> QED
    BY <1>1, <2>1
<1>4. Traffic(i, made, msgs, rest, in, known)
  BY <1>2, <1>3 DEF Traffic
<1>5. ASSUME in = {}
      PROVE  Traffic(i, made, msgs, rest, first, known)
  <2>1. CASE ~IsInitial(i, first)
    <3>1. PeerPaddle(i) \notin IdsOf(first) /\ IdsOf(in) = {}
      BY <1>5, <2>1, InitialFacts DEF IdsOf
    <3>2. i = "host" /\ PeerPaddle(i) \in known \cup IdsOf(first) =>
             known \cup IdsOf(first) = Ids
      <4> SUFFICES ASSUME i = "host", PeerPaddle(i) \in known
                   PROVE  known \cup IdsOf(first) = Ids
        BY <3>1
      <4>1. known = Ids
        BY <3>1 DEF Traffic
      <4>2. IdsOf(first) \subseteq Ids
        <5>1. first \in GameUpdate
          BY <1>1
        <5> QED
          BY <5>1, GameElementById DEF IdsOf, GameUpdate
      <4> QED
        BY <4>1, <4>2
    <3> QED
      BY <1>4, <2>1, <3>2 DEF Traffic
  <2>2. CASE IsInitial(i, first)
    <3>1. /\ made /\ WholeBoard(i, first) /\ PeerPaddle(i) \notin known
          /\ \A t \in Threads : ~IsInitial(i, msgs[t])
      BY <1>1, <2>2 DEF Traffic
    <3>2. \A k \in DOMAIN rest : ~IsInitial(i, rest[k])
      BY <1>1, <2>2 DEF Traffic
    <3>3. known \cup IdsOf(first) = Ids
      BY <3>1 DEF WholeBoard
    <3> QED
      BY <1>4, <2>2, <3>1, <3>2, <3>3 DEF Traffic, WholeBoard
  <2> QED
    BY <2>1, <2>2
<1> QED
  BY <1>4, <1>5 DEF rest, first

\* One element is parsed.
LEMMA ParseTraffic ==
    ASSUME NEW i \in Instances, NEW made, NEW msgs, NEW queue, NEW in \in GameUpdate, NEW known,
           NEW g \in in, Traffic(i, made, msgs, queue, in, known)
    PROVE  Traffic(i, made, msgs, queue, in \ {g}, known \cup {g.id})
<1> DEFINE left == in \ {g}
           more == known \cup {g.id}
<1>1. more \cup IdsOf(left) = known \cup IdsOf(in)
  BY DEF IdsOf
<1>2. IsInitial(i, left) => IsInitial(i, in)
  BY InitialFacts
<1>3. CASE g.id = PeerPaddle(i)
  <2>1. IsInitial(i, in)
    BY <1>3 DEF IsInitial, PeerPaddle
  <2>2. /\ made /\ NamesPeerOnce(i, in)
        /\ \A t \in Threads : ~IsInitial(i, msgs[t])
        /\ \A k \in DOMAIN queue : ~IsInitial(i, queue[k])
    BY <2>1 DEF Traffic
  <2>3. ~IsInitial(i, left)
    BY <1>3, <2>2 DEF NamesPeerOnce, IsInitial, PeerPaddle
  <2> HIDE DEF left, more
  <2>4. Traffic(i, made, msgs, queue, left, more)
    BY <1>1, <2>2, <2>3 DEF Traffic
  <2> QED
    BY <2>4 DEF left, more
<1>4. CASE g.id # PeerPaddle(i)
  <2>1. PeerPaddle(i) \in more <=> PeerPaddle(i) \in known
    BY <1>4
  <2>2. NamesPeerOnce(i, in) => NamesPeerOnce(i, left)
    BY DEF NamesPeerOnce
  <2> HIDE DEF left, more
  <2>3. Traffic(i, made, msgs, queue, left, more)
    BY <1>1, <1>2, <2>1, <2>2 DEF Traffic
  <2> QED
    BY <2>3 DEF left, more
<1> QED
  BY <1>3, <1>4

\* The host makes the board: a thread gets the update with all of it.
LEMMA MadeTraffic ==
    ASSUME NEW msgs, NEW next, NEW queue, NEW in, NEW known, NEW t \in Threads,
           Traffic("host", FALSE, msgs, queue, in, known),
           WholeBoard("host", next[t]), \A s \in Threads \ {t} : next[s] = msgs[s]
    PROVE  Traffic("host", TRUE, next, queue, in, known)
<1>1. /\ \A s \in Threads \ {t} : ~IsInitial("host", next[s])
      /\ \A k \in DOMAIN queue : ~IsInitial("host", queue[k])
      /\ ~IsInitial("host", in) /\ PeerPaddle("host") \notin known
  BY DEF Traffic
<1> QED
  BY <1>1 DEF Traffic

\* The update that carries all elements of a generated board.
LEMMA GeneratedBoard ==
    ASSUME NEW d \in [Bricks -> 1 .. MaxDuration]
    PROVE  WholeBoard("host", FillGameUpdate(GeneratedWorld(d), Ids))
<1> DEFINE w == GeneratedWorld(d)
           msg == FillGameUpdate(w, Ids)
<1>1. w \in World /\ \A p \in Paddles : w.score[p] = 0
  BY GeneratedWorldType DEF GeneratedWorld, EmptyWorld
<1>2. \A e \in Ids : FillGameElement(w, e).id = e
  BY <1>1, FillGameElementType
<1>3. \A e \in Paddles : FillGameElement(w, e).score = 0
  BY <1>1 DEF FillGameElement
<1>4. PeerPaddle("host") \in Paddles
  BY DEF PeerPaddle, OwnPaddle, Peer, Paddles
<1> HIDE DEF w
<1>5. IdsOf(msg) = Ids
  BY <1>2 DEF IdsOf, FillGameUpdate
<1>6. NamesPeerOnce("host", msg)
  BY <1>2, <1>3, <1>4 DEF NamesPeerOnce, FillGameUpdate
<1> QED
  BY <1>5, <1>6 DEF WholeBoard, w

LEMMA PeerPaddleFacts ==
    ASSUME NEW i \in Instances
    PROVE  /\ PeerPaddle(i) \in Paddles /\ PeerPaddle(i) # OwnPaddle(i)
           /\ PeerPaddle(Peer(i)) = OwnPaddle(i) /\ OwnPaddle(Peer(i)) = PeerPaddle(i)
           /\ PeerPaddle(i) \notin Balls \cup Bricks
BY InstancesType, IdsPartition DEF PeerPaddle

LEMMA InitBoard == Init => BoardInv
<1> SUFFICES ASSUME Init PROVE BoardInv
  OBVIOUS
<1>1. SendersHonest
  BY InitialFacts DEF Init, SendersHonest, Honest, EmptyWorld, IdleThread
<1>2. HostHasBoard
  BY DEF Init, HostHasBoard, EmptyWorld, Instances
<1>3. ASSUME NEW i \in Instances
      PROVE  TrafficOf(i)
  <2>1. /\ net[Peer(i)] = <<>> /\ inbox[Peer(i)] = {} /\ world[Peer(i)].known = {}
        /\ \A t \in Threads : Msgs(thread[i])[t] = {}
    BY InstancesType DEF Init, EmptyWorld, Msgs, IdleThread
  <2>2. IdsOf({}) = {} /\ ~IsInitial(i, {}) /\ DOMAIN <<>> = {}
    BY InitialFacts DEF IdsOf
  <2>3. ASSUME NEW made, NEW msgs, \A t \in Threads : msgs[t] = {}
        PROVE  Traffic(i, made, msgs, <<>>, {}, {})
    <3>1. \A t \in Threads : ~IsInitial(i, msgs[t])
      BY <2>2, <2>3
    <3> QED
      BY <2>2, <3>1 DEF Traffic
  <2> QED
    BY <2>1, <2>3 DEF TrafficOf
<1> QED
  BY <1>1, <1>2, <1>3 DEF BoardInv

\* Only Generate ends the setup.
LEMMA SetupKept ==
    ASSUME TypeOK, NEW i \in Instances,
           \/ Draw(i) \/ DrawLock(i) \/ DisableBrick(i) \/ EndDisabledContact(i) \/ DrawUnlock(i)
           \/ StepLock(i) \/ StepUnlock(i) \/ SkipCheck(i) \/ Check(i) \/ CheckLock(i)
           \/ CheckUnlock(i) \/ Physics(i) \/ Quit(i) \/ Close(i)
           \/ (\E t \in Threads : Sender(i, t)) \/ Reader(i) \/ Lose(i)
    PROVE  \A j \in Instances : pc'[j] = "setup" <=> pc[j] = "setup"
<1>1. CASE Draw(i) \/ DrawLock(i) \/ DrawUnlock(i) \/ StepLock(i) \/ StepUnlock(i) \/ SkipCheck(i)
           \/ Check(i) \/ CheckLock(i) \/ CheckUnlock(i) \/ Quit(i) \/ Close(i)
  BY <1>1 DEF TypeOK, Draw, DrawLock, DrawUnlock, StepLock, StepUnlock, SkipCheck, Check,
              CheckLock, CheckUnlock, Quit, Close, Decide, GoTo
<1>2. CASE DisableBrick(i) \/ EndDisabledContact(i) \/ Physics(i) \/ Reader(i) \/ Lose(i)
  BY <1>2 DEF DisableBrick, EndDisabledContact, Physics, BallHitsBrick, BallHitsPaddle,
              BallHitsPlate, StepContact, Reader, ReaderLock, ParseElement, Lose
<1>3. CASE \E t \in Threads : Sender(i, t)
  BY <1>3 DEF Sender, FillLock, FillElement, SendCall, SetSending, Write, ClearSending
<1> QED
  BY <1>1, <1>2, <1>3

\* A step that moves no update and makes no element known.
LEMMA QuietBoard ==
    ASSUME BoardInv, UNCHANGED <<thread, net, inbox>>,
           \A j \in Instances : pc'[j] = "setup" <=> pc[j] = "setup",
           \A j \in Instances : /\ world'[j].known = world[j].known
                                /\ PeerPaddle(j) \notin world'[j].updated
    PROVE  BoardInv'
<1>1. SendersHonest'
  BY DEF BoardInv, SendersHonest
<1>2. HostHasBoard'
  BY DEF BoardInv, HostHasBoard, Instances
<1>3. ASSUME NEW j \in Instances
      PROVE  TrafficOf(j)'
  <2>1. Made(j)' = Made(j) /\ world'[Peer(j)].known = world[Peer(j)].known
    BY InstancesType DEF Made, Instances
  <2> QED
    BY <2>1 DEF BoardInv, TrafficOf
<1> QED
  BY <1>1, <1>2, <1>3 DEF BoardInv

\* A step of the main thread or of the physics that only changes elements of i.
LEMMA WorldBoard ==
    ASSUME TypeOK, BoardInv, NEW i \in Instances, NEW w,
           world' = [world EXCEPT ![i] = w], UNCHANGED <<thread, net, inbox>>,
           \A j \in Instances : pc'[j] = "setup" <=> pc[j] = "setup",
           w.known = world[i].known, PeerPaddle(i) \notin w.updated
    PROVE  BoardInv'
<1>1. world'[i] = w /\ \A j \in Instances \ {i} : world'[j] = world[j]
  BY DEF TypeOK
<1>2. \A j \in Instances : /\ world'[j].known = world[j].known
                           /\ PeerPaddle(j) \notin world'[j].updated
  BY <1>1 DEF BoardInv, SendersHonest
<1> QED
  BY <1>2, QuietBoard

LEMMA MainStepBoard ==
    ASSUME TypeOK, BoardInv, NEW i \in Instances,
           \/ Draw(i) \/ DrawLock(i) \/ DrawUnlock(i) \/ SkipCheck(i) \/ Check(i) \/ CheckLock(i)
           \/ CheckUnlock(i) \/ Quit(i) \/ Close(i)
    PROVE  BoardInv'
<1>1. UNCHANGED <<world, thread, net, inbox>>
  BY DEF Draw, DrawLock, DrawUnlock, SkipCheck, Check, CheckLock, CheckUnlock, Quit, Close
<1>2. \A j \in Instances : /\ world'[j].known = world[j].known
                           /\ PeerPaddle(j) \notin world'[j].updated
  BY <1>1 DEF BoardInv, SendersHonest
<1> QED
  BY <1>1, <1>2, SetupKept, QuietBoard

\* A contact marks no paddle but the own one.
LEMMA ContactMarks ==
    ASSUME NEW i \in Instances, NEW w \in World, Roles(i, w), PeerPaddle(i) \notin w.updated,
           NEW ball \in Balls
    PROVE  /\ \A b \in Bricks : PeerPaddle(i) \notin ContactBrick(w, ball, b).updated
           /\ \A p \in Paddles : PeerPaddle(i) \notin ContactPaddle(w, ball, p).updated
           /\ \A p \in Paddles : PeerPaddle(i) \notin ContactPlate(w, ball, p).updated
<1>1. PeerPaddle(i) \notin {q \in Paddles : w.controlled[q]} \cup Balls \cup Bricks
  BY PeerPaddleFacts DEF Roles
<1> QED
  BY <1>1, ContactBrickType, ContactPaddleType, ContactPlateType

LEMMA PhysicsBoard ==
    ASSUME TypeOK, RolesInv, BoardInv, NEW i \in Instances, Physics(i)
    PROVE  BoardInv'
<1>1. world[i] \in World /\ Roles(i, world[i]) /\ PeerPaddle(i) \notin world[i].updated
  BY DEF TypeOK, RolesInv, WorldRoles, BoardInv, SendersHonest
<1>2. ASSUME NEW w, w.known = world[i].known, PeerPaddle(i) \notin w.updated, StepContact(i, w)
      PROVE  BoardInv'
  BY <1>2, WorldBoard, SetupKept DEF StepContact
<1>3. PICK ball \in Balls \cap world[i].known :
        \/ \E b \in Bricks \cap world[i].known :
              StepContact(i, ContactBrick(world[i], ball, b))
        \/ \E p \in Paddles \cap world[i].known :
              StepContact(i, ContactPaddle(world[i], ball, p))
        \/ \E p \in Paddles :
              StepContact(i, ContactPlate(world[i], ball, p))
  BY PhysicsWorld
<1> QED
  BY <1>1, <1>2, <1>3, ContactMarks, ContactBrickType, ContactPaddleType, ContactPlateType

LEMMA DisableBoard ==
    ASSUME TypeOK, RolesInv, BoardInv, NEW i \in Instances,
           DisableBrick(i) \/ EndDisabledContact(i)
    PROVE  BoardInv'
<1>1. world[i] \in World /\ Roles(i, world[i]) /\ PeerPaddle(i) \notin world[i].updated
  BY DEF TypeOK, RolesInv, WorldRoles, BoardInv, SendersHonest
<1>2. UNCHANGED <<thread, net, inbox>>
  BY DEF DisableBrick, EndDisabledContact
<1>3. CASE DisableBrick(i)
  <2>1. PICK b : world' = [world EXCEPT ![i].enabled = @ \ {b}]
    BY <1>3 DEF DisableBrick
  <2> DEFINE w == [world[i] EXCEPT !.enabled = @ \ {b}]
  <2>2. w.known = world[i].known /\ w.updated = world[i].updated
    BY <1>1 DEF World
  <2>3. world' = [world EXCEPT ![i] = w]
    BY <2>1
  <2> HIDE DEF w
  <2> QED
    BY <1>1, <1>2, <1>3, <2>2, <2>3, WorldBoard, SetupKept
<1>4. CASE EndDisabledContact(i)
  <2>1. PICK c \in ending[i] : world' = [world EXCEPT ![i] = ContactBrick(@, c[1], c[2])]
    BY <1>4 DEF EndDisabledContact
  <2> DEFINE w == ContactBrick(world[i], c[1], c[2])
  <2>2. c[1] \in Balls /\ c[2] \in Bricks
    BY DEF TypeOK
  <2>3. w.known = world[i].known /\ PeerPaddle(i) \notin w.updated
    BY <1>1, <2>2, ContactBrickType, ContactMarks
  <2>4. world' = [world EXCEPT ![i] = w]
    BY <2>1
  <2> HIDE DEF w
  <2> QED
    BY <1>2, <1>4, <2>3, <2>4, WorldBoard, SetupKept
<1> QED
  BY <1>3, <1>4

LEMMA StepLockBoard ==
    ASSUME TypeOK, RolesInv, BoardInv, NEW i \in Instances, StepLock(i)
    PROVE  BoardInv'
<1> DEFINE p == FindPaddlePtrs(world[i], ptrs[i])
<1>1. RolesInv'
  BY StepLockRoles
<1>2. p.your \in {NoPaddle, OwnPaddle(i)}
  <2>1. ptrs'[i] = p
    BY DEF StepLock, TypeOK
  <2> HIDE DEF p
  <2> QED
    BY <1>1, <2>1 DEF RolesInv, PaddlePtrsRoles
<1>3. /\ UNCHANGED <<thread, net, inbox>>
      /\ world' = world \/ world' = [world EXCEPT ![i].updated = @ \cup {p.your}]
  BY DEF StepLock
<1> HIDE DEF p
<1>4. world[i] \in World /\ PeerPaddle(i) \notin world[i].updated
  BY DEF TypeOK, BoardInv, SendersHonest
<1>5. CASE world' = world
  <2>1. world' = [world EXCEPT ![i] = world[i]]
    BY <1>5 DEF TypeOK
  <2> QED
    BY <1>3, <1>4, <2>1, WorldBoard, SetupKept
<1>6. CASE world' = [world EXCEPT ![i].updated = @ \cup {p.your}]
  <2> DEFINE w == [world[i] EXCEPT !.updated = @ \cup {p.your}]
  <2>1. w.known = world[i].known /\ w.updated = world[i].updated \cup {p.your}
    BY <1>4 DEF World
  <2>2. PeerPaddle(i) # p.your
    BY <1>2, PeerPaddleFacts, IdsPartition
  <2>3. world' = [world EXCEPT ![i] = w]
    BY <1>6
  <2> HIDE DEF w
  <2> QED
    BY <1>3, <1>4, <2>1, <2>2, <2>3, WorldBoard, SetupKept
<1> QED
  BY <1>3, <1>5, <1>6

\* A step that replaces one update of i, by one that is honest and carries the peer's
\* paddle only if it did before.
LEMMA ThreadBoard ==
    ASSUME TypeOK, BoardInv, NEW i \in Instances, NEW t \in Threads, NEW u,
           thread' = [thread EXCEPT ![i][t] = u], UNCHANGED <<net, inbox>>,
           Honest(i, u), u.msg = thread[i][t].msg \/ ~IsInitial(i, u.msg),
           \A j \in Instances : pc'[j] = "setup" <=> pc[j] = "setup",
           \A j \in Instances : /\ world'[j].known = world[j].known
                                /\ PeerPaddle(j) \notin world'[j].updated
    PROVE  BoardInv'
<1>1. /\ thread'[i][t] = u
      /\ \A j \in Instances : \A s \in Threads : j # i \/ s # t => thread'[j][s] = thread[j][s]
  BY DEF TypeOK
<1>2. SendersHonest'
  BY <1>1 DEF BoardInv, SendersHonest
<1>3. HostHasBoard'
  BY DEF BoardInv, HostHasBoard, Instances
<1>4. ASSUME NEW j \in Instances
      PROVE  TrafficOf(j)'
  <2>1. /\ Made(j)' = Made(j) /\ world'[Peer(j)].known = world[Peer(j)].known
        /\ net'[Peer(j)] = net[Peer(j)] /\ inbox'[Peer(j)] = inbox[Peer(j)]
    BY InstancesType DEF Made, Instances
  <2>2. \A s \in Threads : \/ Msgs(thread'[j])[s] = Msgs(thread[j])[s]
                           \/ ~IsInitial(j, Msgs(thread'[j])[s])
    BY <1>1 DEF Msgs
  <2>3. Traffic(j, Made(j), Msgs(thread[j]), net[Peer(j)], inbox[Peer(j)], world[Peer(j)].known)
    BY DEF BoardInv, TrafficOf
  <2>4. Traffic(j, Made(j), Msgs(thread'[j]), net[Peer(j)], inbox[Peer(j)], world[Peer(j)].known)
    BY <2>2, <2>3, ThreadTraffic
  <2> QED
    BY <2>1, <2>4 DEF TrafficOf
<1> QED
  BY <1>2, <1>3, <1>4 DEF BoardInv

LEMMA StepUnlockBoard ==
    ASSUME TypeOK, BoardInv, NEW i \in Instances, StepUnlock(i)
    PROVE  BoardInv'
<1> DEFINE u == [pc |-> "start", todo |-> world[i].updated, msg |-> {}]
<1>1. world[i] \in World /\ PeerPaddle(i) \notin world[i].updated
  BY DEF TypeOK, BoardInv, SendersHonest
<1>2. /\ UNCHANGED <<net, inbox>> /\ world' = [world EXCEPT ![i].updated = {}]
      /\ UNCHANGED thread \/ \E t \in Threads : thread' = [thread EXCEPT ![i][t] = u]
  BY DEF StepUnlock
<1>3. \A j \in Instances : /\ world'[j].known = world[j].known
                           /\ PeerPaddle(j) \notin world'[j].updated
  <2>1. world'[i].known = world[i].known /\ world'[i].updated = {}
    BY <1>1, <1>2 DEF TypeOK, World
  <2>2. \A j \in Instances \ {i} : world'[j] = world[j]
    BY <1>2 DEF TypeOK
  <2> QED
    BY <2>1, <2>2 DEF BoardInv, SendersHonest
<1>4. \A j \in Instances : pc'[j] = "setup" <=> pc[j] = "setup"
  BY SetupKept
<1>5. Honest(i, u) /\ ~IsInitial(i, u.msg)
  BY <1>1, InitialFacts DEF Honest
<1> HIDE DEF u
<1>6. CASE UNCHANGED thread
  BY <1>2, <1>3, <1>4, <1>6, QuietBoard
<1>7. ASSUME NEW t \in Threads, thread' = [thread EXCEPT ![i][t] = u]
      PROVE  BoardInv'
  BY <1>2, <1>3, <1>4, <1>5, <1>7, ThreadBoard
<1> QED
  BY <1>2, <1>6, <1>7

\* The threads of an update, but for the writing.
LEMMA FillBoard ==
    ASSUME TypeOK, BoardInv, NEW i \in Instances, NEW t \in Threads,
           \/ FillLock(i, t) \/ FillElement(i, t) \/ SendCall(i, t)
           \/ SetSending(i, t) \/ ClearSending(i, t)
    PROVE  BoardInv'
<1>1. thread[i][t] \in UpdateThread /\ Honest(i, thread[i][t])
  BY DEF TypeOK, BoardInv, SendersHonest
<1>2. \A j \in Instances : /\ world'[j].known = world[j].known
                           /\ PeerPaddle(j) \notin world'[j].updated
  BY DEF FillLock, FillElement, SendCall, SetSending, ClearSending, BoardInv, SendersHonest
<1>3. \A j \in Instances : pc'[j] = "setup" <=> pc[j] = "setup"
  BY SetupKept DEF Sender
<1>4. UNCHANGED <<net, inbox>>
  BY DEF FillLock, FillElement, SendCall, SetSending, ClearSending
<1>5. SUFFICES \E u : /\ thread' = [thread EXCEPT ![i][t] = u]
                      /\ Honest(i, u)
                      /\ u.msg = thread[i][t].msg \/ ~IsInitial(i, u.msg)
  <2>1. PICK u : /\ thread' = [thread EXCEPT ![i][t] = u]
                 /\ Honest(i, u)
                 /\ u.msg = thread[i][t].msg \/ ~IsInitial(i, u.msg)
    BY <1>5
  <2> QED
    BY <1>2, <1>3, <1>4, <2>1, ThreadBoard
<1>6. Honest(i, IdleThread) /\ ~IsInitial(i, IdleThread.msg)
  BY InitialFacts DEF Honest, IdleThread
<1>7. CASE FillElement(i, t)
  <2>1. PICK e \in thread[i][t].todo :
          thread' = [thread EXCEPT ![i][t].todo = @ \ {e},
                                   ![i][t].msg = @ \cup {FillGameElement(world[i], e)}]
    BY <1>7 DEF FillElement
  <2> DEFINE u == [thread[i][t] EXCEPT !.todo = @ \ {e},
                                       !.msg = @ \cup {FillGameElement(world[i], e)}]
  <2>2. thread' = [thread EXCEPT ![i][t] = u]
    BY <2>1 DEF TypeOK
  <2>3. /\ u.todo = thread[i][t].todo \ {e} /\ u.pc = "filling"
        /\ u.msg = thread[i][t].msg \cup {FillGameElement(world[i], e)}
    BY <1>1, <1>7 DEF UpdateThread, FillElement
  <2>4. FillGameElement(world[i], e).id # PeerPaddle(i) /\ ~IsInitial(i, thread[i][t].msg)
    <3>1. e \in Ids /\ e # PeerPaddle(i) /\ world[i] \in World
      BY <1>1 DEF TypeOK, UpdateThread, Honest
    <3>2. FillGameElement(world[i], e).id = e
      BY <3>1, FillGameElementType
    <3> QED
      BY <1>1, <1>7, <3>1, <3>2 DEF FillElement, Honest
  <2> HIDE DEF u
  <2>5. ~IsInitial(i, u.msg) /\ Honest(i, u)
    BY <1>1, <2>3, <2>4, InitialFacts DEF Honest
  <2> QED
    BY <2>2, <2>5
<1>8. CASE FillLock(i, t) \/ SetSending(i, t)
  <2>1. PICK q \in {"filling", "write"} :
          /\ thread' = [thread EXCEPT ![i][t].pc = q]
          /\ thread[i][t].pc = IF q = "filling" THEN "start" ELSE "set"
    BY <1>8 DEF FillLock, SetSending
  <2> DEFINE u == [thread[i][t] EXCEPT !.pc = q]
  <2>2. thread' = [thread EXCEPT ![i][t] = u]
    BY <2>1 DEF TypeOK
  <2>3. u.todo = thread[i][t].todo /\ u.pc = q /\ u.msg = thread[i][t].msg
    BY <1>1 DEF UpdateThread
  <2> HIDE DEF u
  <2>4. Honest(i, u)
    BY <1>1, <2>1, <2>3 DEF Honest
  <2> QED
    BY <2>2, <2>3, <2>4
<1>9. CASE SendCall(i, t)
  <2> DEFINE u == [thread[i][t] EXCEPT !.pc = "set"]
  <2>1. thread' = [thread EXCEPT ![i][t] = IdleThread] \/ thread' = [thread EXCEPT ![i][t] = u]
    BY <1>9 DEF SendCall, TypeOK
  <2>2. u.todo = {} /\ u.pc = "set" /\ u.msg = thread[i][t].msg
    BY <1>1, <1>9 DEF UpdateThread, SendCall
  <2> HIDE DEF u
  <2>3. Honest(i, u)
    BY <2>2 DEF Honest
  <2> QED
    BY <1>6, <2>1, <2>2, <2>3
<1>10. CASE ClearSending(i, t)
  BY <1>6, <1>10 DEF ClearSending
<1> QED
  BY <1>7, <1>8, <1>9, <1>10

LEMMA WriteBoard ==
    ASSUME TypeOK, BoardInv, NEW i \in Instances, NEW t \in Threads, Write(i, t)
    PROVE  BoardInv'
<1> DEFINE u == [thread[i][t] EXCEPT !.pc = "clear", !.msg = {}]
<1>1. thread[i][t] \in UpdateThread /\ Honest(i, thread[i][t])
  BY DEF TypeOK, BoardInv, SendersHonest
<1>2. /\ UNCHANGED <<world, inbox>> /\ thread' = [thread EXCEPT ![i][t] = u]
      /\ thread[i][t].pc = "write"
      /\ net' = net \/ net' = [net EXCEPT ![Peer(i)] = Append(@, thread[i][t].msg)]
  BY DEF Write
<1>3. u.pc = "clear" /\ u.msg = {} /\ u.todo = thread[i][t].todo
  BY <1>1 DEF UpdateThread
<1>4. Honest(i, u)
  BY <1>1, <1>2, <1>3, InitialFacts DEF Honest
<1> HIDE DEF u
<1>5. /\ thread'[i][t] = u
      /\ \A j \in Instances : \A s \in Threads : j # i \/ s # t => thread'[j][s] = thread[j][s]
  BY <1>2 DEF TypeOK
<1>6. SendersHonest'
  BY <1>2, <1>4, <1>5 DEF BoardInv, SendersHonest
<1>7. pc' = pc /\ HostHasBoard'
  BY <1>2 DEF Write, BoardInv, HostHasBoard
<1>8. ASSUME NEW j \in Instances
      PROVE  TrafficOf(j)'
  <2>1. /\ Made(j)' = Made(j) /\ world'[Peer(j)].known = world[Peer(j)].known
        /\ inbox'[Peer(j)] = inbox[Peer(j)]
    BY <1>2, <1>7 DEF Made
  <2>2. Traffic(j, Made(j), Msgs(thread[j]), net[Peer(j)], inbox[Peer(j)], world[Peer(j)].known)
    BY DEF BoardInv, TrafficOf
  <2>3. Traffic(j, Made(j), Msgs(thread'[j]), net'[Peer(j)], inbox[Peer(j)], world[Peer(j)].known)
    <3>1. CASE j # i
      <4>1. Msgs(thread'[j]) = Msgs(thread[j])
        BY <1>5, <3>1 DEF Msgs
      <4>2. net'[Peer(j)] = net[Peer(j)]
        BY <1>2, <3>1, InstancesType DEF TypeOK
      <4> QED
        BY <2>2, <4>1, <4>2
    <3>2. CASE j = i
      <4>1. /\ Msgs(thread'[i])[t] = {} /\ Msgs(thread[i])[t] = thread[i][t].msg
            /\ \A s \in Threads \ {t} : Msgs(thread'[i])[s] = Msgs(thread[i])[s]
        BY <1>3, <1>5 DEF Msgs
      <4>2. Msgs(thread[i])[t] \in GameUpdate /\ net[Peer(i)] \in Seq(GameUpdate)
        BY <1>1, <4>1, InstancesType DEF UpdateThread, TypeOK
      <4>3. \/ net'[Peer(i)] = net[Peer(i)]
            \/ net'[Peer(i)] = Append(net[Peer(i)], Msgs(thread[i])[t])
        BY <1>2, <4>1, InstancesType DEF TypeOK
      <4> DEFINE next == Msgs(thread'[i])
                 msgs == Msgs(thread[i])
                 queue == net[Peer(i)]
      <4> HIDE DEF next, msgs, queue
      <4>4. /\ Traffic(i, Made(i), next, queue, inbox[Peer(i)], world[Peer(i)].known)
            /\ Traffic(i, Made(i), next, Append(queue, msgs[t]), inbox[Peer(i)],
                       world[Peer(i)].known)
        <5>1. /\ queue \in Seq(GameUpdate) /\ msgs[t] \in GameUpdate /\ next[t] = {}
              /\ \A s \in Threads \ {t} : next[s] = msgs[s]
              /\ Traffic(i, Made(i), msgs, queue, inbox[Peer(i)], world[Peer(i)].known)
          BY <2>2, <3>2, <4>1, <4>2 DEF next, msgs, queue
        <5> QED
          BY <5>1, WriteTraffic
      <4> QED
        BY <3>2, <4>3, <4>4 DEF next, msgs, queue
    <3> QED
      BY <3>1, <3>2
  <2> QED
    BY <2>1, <2>3 DEF TrafficOf
<1> QED
  BY <1>6, <1>7, <1>8 DEF BoardInv

LEMMA ReaderLockBoard ==
    ASSUME TypeOK, LockInv, BoardInv, NEW i \in Instances, ReaderLock(i) \/ Lose(i)
    PROVE  BoardInv'
<1>1. /\ UNCHANGED <<world, thread, pc>> /\ net[i] # <<>>
      /\ net' = [net EXCEPT ![i] = Tail(@)]
      /\ inbox' = inbox \/ (inbox[i] = {} /\ inbox' = [inbox EXCEPT ![i] = Head(net[i])])
  BY DEF ReaderLock, Lose, LockElements, LockInv
<1>2. SendersHonest' /\ HostHasBoard'
  BY <1>1 DEF BoardInv, SendersHonest, HostHasBoard
<1>3. ASSUME NEW j \in Instances
      PROVE  TrafficOf(j)'
  <2>1. /\ Made(j)' = Made(j) /\ Peer(j) \in Instances
        /\ net[Peer(j)] \in Seq(GameUpdate) /\ world[Peer(j)].known \in SUBSET Ids
    BY <1>1, InstancesType DEF Made, TypeOK, World
  <2>2. Traffic(j, Made(j), Msgs(thread[j]), net[Peer(j)], inbox[Peer(j)], world[Peer(j)].known)
    BY DEF BoardInv, TrafficOf
  <2>3. Traffic(j, Made(j), Msgs(thread[j]), net'[Peer(j)], inbox'[Peer(j)], world[Peer(j)].known)
    <3>1. CASE Peer(j) # i
      BY <1>1, <2>1, <2>2, <3>1 DEF TypeOK
    <3>2. CASE Peer(j) = i
      <4>1. /\ net'[Peer(j)] = Tail(net[Peer(j)]) /\ net[Peer(j)] # <<>>
            /\ \/ inbox'[Peer(j)] = inbox[Peer(j)]
               \/ inbox[Peer(j)] = {} /\ inbox'[Peer(j)] = Head(net[Peer(j)])
        BY <1>1, <3>2 DEF TypeOK
      <4> QED
        BY <2>1, <2>2, <4>1, TakeTraffic
    <3> QED
      BY <3>1, <3>2
  <2> QED
    BY <1>1, <2>1, <2>3 DEF TrafficOf
<1> QED
  BY <1>2, <1>3 DEF BoardInv

\* The element that is parsed next, and what of it the invariants speak of.
LEMMA ParseStep ==
    ASSUME TypeOK, NEW i \in Instances, ParseElement(i)
    PROVE  \E g \in inbox[i] :
             /\ world' = [world EXCEPT ![i] = ParseGameElement(world[i], g)]
             /\ world'[i] = ParseGameElement(world[i], g)
             /\ inbox' = [inbox EXCEPT ![i] = inbox[i] \ {g}]
             /\ g \in GameElement /\ world[i] \in World
             /\ UNCHANGED <<thread, net, pc>>
             /\ \A f \in inbox[i] : g.id <= f.id
<1>1. PICK g \in inbox[i] :
        /\ world' = [world EXCEPT ![i] = ParseGameElement(@, g)]
        /\ inbox' = [inbox EXCEPT ![i] = @ \ {g}]
        /\ \A f \in inbox[i] : g.id <= f.id
  BY DEF ParseElement
<1>2. g \in GameElement /\ world[i] \in World
  BY DEF TypeOK, GameUpdate
<1>3. world'[i] = ParseGameElement(world[i], g)
  BY <1>1 DEF TypeOK
<1> QED
  BY <1>1, <1>2, <1>3 DEF ParseElement

LEMMA ParseBoard ==
    ASSUME TypeOK, BoardInv, NEW i \in Instances, ParseElement(i)
    PROVE  BoardInv'
<1>1. PICK g \in inbox[i] :
        /\ world' = [world EXCEPT ![i] = ParseGameElement(world[i], g)]
        /\ world'[i] = ParseGameElement(world[i], g)
        /\ inbox' = [inbox EXCEPT ![i] = inbox[i] \ {g}]
        /\ g \in GameElement /\ world[i] \in World
        /\ UNCHANGED <<thread, net, pc>>
  BY ParseStep
<1>2. /\ world'[i].known = world[i].known \cup {g.id}
      /\ world'[i].updated = world[i].updated
      /\ inbox'[i] = inbox[i] \ {g}
      /\ \A j \in Instances \ {i} : world'[j] = world[j] /\ inbox'[j] = inbox[j]
  <2>1. /\ ParseGameElement(world[i], g).known = world[i].known \cup {g.id}
        /\ ParseGameElement(world[i], g).updated = world[i].updated
    BY <1>1, ParseGameElementType
  <2> QED
    BY <1>1, <2>1 DEF TypeOK
<1>3. SendersHonest'
  BY <1>1, <1>2 DEF BoardInv, SendersHonest
<1>4. HostHasBoard'
  <2>1. CASE i # "host"
    BY <1>1, <1>2, <2>1 DEF BoardInv, HostHasBoard, Instances
  <2>2. CASE i = "host"
    <3>1. ~IsInitial("client", inbox["host"])
      <4>1. Peer("client") = "host" /\ ~Made("client") /\ "client" \in Instances
        BY DEF Peer, Made, Instances
      <4> QED
        BY <4>1 DEF BoardInv, TrafficOf, Traffic
    <3>2. g.id # HostPaddle
      BY <2>2, <3>1 DEF IsInitial, OwnPaddle, Peer
    <3>3. g.id \in Ids
      BY <1>1, GameElementById
    <3> QED
      BY <1>1, <1>2, <2>2, <3>2, <3>3 DEF BoardInv, HostHasBoard
  <2> QED
    BY <2>1, <2>2
<1>5. ASSUME NEW j \in Instances
      PROVE  TrafficOf(j)'
  <2>1. Made(j)' = Made(j) /\ Peer(j) \in Instances /\ inbox[Peer(j)] \in GameUpdate
    BY <1>1, InstancesType DEF Made, TypeOK
  <2>2. Traffic(j, Made(j), Msgs(thread[j]), net[Peer(j)], inbox[Peer(j)], world[Peer(j)].known)
    BY DEF BoardInv, TrafficOf
  <2>3. Traffic(j, Made(j), Msgs(thread[j]), net[Peer(j)], inbox'[Peer(j)], world'[Peer(j)].known)
    <3>1. CASE Peer(j) # i
      BY <1>2, <2>1, <2>2, <3>1
    <3>2. CASE Peer(j) = i
      BY <1>2, <2>1, <2>2, <3>2, ParseTraffic
    <3> QED
      BY <3>1, <3>2
  <2> QED
    BY <1>1, <2>1, <2>3 DEF TrafficOf
<1> QED
  BY <1>3, <1>4, <1>5 DEF BoardInv

LEMMA GenerateBoard ==
    ASSUME TypeOK, RolesInv, BoardInv, NEW i \in Instances, Generate(i)
    PROVE  BoardInv'
<1>1. PICK d \in [Bricks -> 1 .. MaxDuration], t \in Threads :
        /\ world' = [world EXCEPT ![i] = GeneratedWorld(d)]
        /\ thread' = [thread EXCEPT ![i][t] =
              [pc |-> "set", todo |-> {}, msg |-> FillGameUpdate(GeneratedWorld(d), Ids)]]
  BY DEF Generate
<1> DEFINE msg == FillGameUpdate(GeneratedWorld(d), Ids)
           u == [pc |-> "set", todo |-> {}, msg |-> msg]
<1>2. /\ i = "host" /\ pc[i] = "setup" /\ pc'[i] = "frame" /\ UNCHANGED <<net, inbox>>
      /\ \A j \in Instances \ {i} : pc'[j] = pc[j]
  BY DEF TypeOK, Generate, GoTo, RolesInv, SetupByHost
<1>3. GeneratedWorld(d).known = Ids /\ GeneratedWorld(d).updated = {}
  BY DEF GeneratedWorld, EmptyWorld
<1>4. WholeBoard("host", msg)
  BY GeneratedBoard
<1>5. u.msg = msg /\ Honest(i, u)
  BY DEF Honest
<1>6. thread' = [thread EXCEPT ![i][t] = u]
  BY <1>1
<1> HIDE DEF msg, u
<1>7. /\ world'[i].known = Ids /\ world'[i].updated = {} /\ thread'[i][t] = u
      /\ \A j \in Instances \ {i} : world'[j] = world[j]
      /\ \A j \in Instances : \A s \in Threads : j # i \/ s # t => thread'[j][s] = thread[j][s]
  BY <1>1, <1>3, <1>6 DEF TypeOK
<1>8. SendersHonest'
  BY <1>5, <1>7 DEF BoardInv, SendersHonest
<1>9. HostHasBoard'
  BY <1>2, <1>7 DEF HostHasBoard
<1>10. TrafficOf("host")'
  <2>1. Made("host") = FALSE /\ Made("host")' = TRUE /\ Peer("host") \in Instances \ {i}
    BY <1>2 DEF Made, Peer, Instances
  <2>2. Traffic("host", FALSE, Msgs(thread["host"]), net[Peer("host")], inbox[Peer("host")],
                world[Peer("host")].known)
    BY <1>2, <2>1 DEF BoardInv, TrafficOf
  <2>3. /\ Msgs(thread'["host"])[t] = msg
        /\ \A s \in Threads \ {t} : Msgs(thread'["host"])[s] = Msgs(thread["host"])[s]
    BY <1>2, <1>5, <1>7 DEF Msgs
  <2>4. Traffic("host", TRUE, Msgs(thread'["host"]), net[Peer("host")], inbox[Peer("host")],
                world[Peer("host")].known)
    BY <1>4, <2>2, <2>3, MadeTraffic
  <2> QED
    BY <1>2, <1>7, <2>1, <2>4 DEF TrafficOf
<1>11. TrafficOf("client")'
  <2>1. Made("client") = FALSE /\ Made("client")' = FALSE /\ "client" \in Instances \ {i}
    BY <1>2 DEF Made, Instances
  <2>2. Traffic("client", FALSE, Msgs(thread["client"]), net[Peer("client")],
                inbox[Peer("client")], world[Peer("client")].known)
    BY <2>1 DEF BoardInv, TrafficOf
  <2>3. Msgs(thread'["client"]) = Msgs(thread["client"])
    BY <1>7, <2>1 DEF Msgs
  <2>4. Traffic("client", FALSE, Msgs(thread'["client"]), net[Peer("client")],
                inbox[Peer("client")], world'[Peer("client")].known)
    BY <2>2, <2>3 DEF Traffic
  <2> QED
    BY <1>2, <2>1, <2>4 DEF TrafficOf
<1> QED
  BY <1>8, <1>9, <1>10, <1>11 DEF BoardInv, Instances

\* The board is on its way once, and the client's own paddle comes with it.
THEOREM BoardInvariant == Spec => []BoardInv
<1>1. TypeOK /\ RolesInv /\ LockInv /\ BoardInv /\ [Next]_vars => BoardInv'
  <2> SUFFICES ASSUME TypeOK, RolesInv, LockInv, BoardInv, [Next]_vars PROVE BoardInv'
    OBVIOUS
  <2>1. ASSUME NEW i \in Instances, Main(i)
        PROVE  BoardInv'
    BY <2>1, GenerateBoard, MainStepBoard, DisableBoard, StepLockBoard, StepUnlockBoard DEF Main
  <2>2. ASSUME NEW i \in Instances, Physics(i) \/ Quit(i) \/ Close(i)
        PROVE  BoardInv'
    BY <2>2, PhysicsBoard, MainStepBoard
  <2>3. ASSUME NEW i \in Instances, NEW t \in Threads, Sender(i, t)
        PROVE  BoardInv'
    BY <2>3, FillBoard, WriteBoard DEF Sender
  <2>4. ASSUME NEW i \in Instances, Reader(i) \/ Lose(i)
        PROVE  BoardInv'
    BY <2>4, ReaderLockBoard, ParseBoard DEF Reader
  <2>5. CASE UNCHANGED vars
    BY <2>5 DEF vars, BoardInv, SendersHonest, HostHasBoard, TrafficOf, Made
  <2> QED
    BY <2>1, <2>2, <2>3, <2>4, <2>5 DEF Next, Terminating
<1> QED
  BY InitBoard, <1>1, TypeCorrect, RolesInvariant, LockInvariant, PTL DEF Spec

-----------------------------------------------------------------------------
(* Verdicts                                                                *)

\* No step forgets an element.
LEMMA KnownGrows ==
    ASSUME TypeOK, RolesInv, Next, NEW j \in Instances
    PROVE  world[j].known \subseteq world'[j].known
<1>1. world[j] \in World
  BY DEF TypeOK
<1>2. CASE world'[j] = world[j]
  BY <1>2
<1>3. ASSUME NEW i \in Instances, Generate(i) \/ DisableBrick(i) \/ StepLock(i) \/ StepUnlock(i)
      PROVE  world[j].known \subseteq world'[j].known
  <2>1. CASE Generate(i)
    <3>1. PICK d : world' = [world EXCEPT ![i] = GeneratedWorld(d)]
      BY <2>1 DEF Generate
    <3>2. GeneratedWorld(d).known = Ids
      BY DEF GeneratedWorld, EmptyWorld
    <3> QED
      BY <1>1, <3>1, <3>2 DEF TypeOK, World
  <2>2. CASE DisableBrick(i) \/ StepLock(i) \/ StepUnlock(i)
    <3>1. \E enabled, updated : \/ world' = world
                               \/ world' = [world EXCEPT ![i].enabled = enabled]
                               \/ world' = [world EXCEPT ![i].updated = updated]
      BY <2>2 DEF DisableBrick, StepLock, StepUnlock
    <3>2. world[i] \in World
      BY DEF TypeOK
    <3>3. PICK enabled, updated : \/ world' = world
                                 \/ world' = [world EXCEPT ![i].enabled = enabled]
                                 \/ world' = [world EXCEPT ![i].updated = updated]
      BY <3>1
    <3>4. CASE world' = [world EXCEPT ![i].enabled = enabled]
      <4>1. [world[i] EXCEPT !.enabled = enabled].known = world[i].known
        BY <3>2 DEF World
      <4> QED
        BY <3>4, <4>1 DEF TypeOK
    <3>5. CASE world' = [world EXCEPT ![i].updated = updated]
      <4>1. [world[i] EXCEPT !.updated = updated].known = world[i].known
        BY <3>2 DEF World
      <4> QED
        BY <3>5, <4>1 DEF TypeOK
    <3> QED
      BY <1>2, <3>3, <3>4, <3>5
  <2> QED
    BY <1>3, <2>1, <2>2
<1>4. ASSUME NEW i \in Instances, EndDisabledContact(i)
      PROVE  world[j].known \subseteq world'[j].known
  <2>1. PICK c \in ending[i] : world' = [world EXCEPT ![i] = ContactBrick(@, c[1], c[2])]
    BY <1>4 DEF EndDisabledContact
  <2>2. c[1] \in Balls /\ c[2] \in Bricks /\ world[i] \in World
    BY DEF TypeOK
  <2>3. ContactBrick(world[i], c[1], c[2]).known = world[i].known
    BY <2>2, ContactBrickType
  <2> QED
    BY <2>1, <2>3 DEF TypeOK
<1>5. ASSUME NEW i \in Instances, Physics(i)
      PROVE  world[j].known \subseteq world'[j].known
  <2>1. ASSUME NEW w, w.known = world[i].known, StepContact(i, w)
        PROVE  world[j].known \subseteq world'[j].known
    BY <2>1 DEF StepContact, TypeOK
  <2>2. world[i] \in World
    BY DEF TypeOK
  <2>3. PICK ball \in Balls \cap world[i].known :
          \/ \E b \in Bricks \cap world[i].known :
                StepContact(i, ContactBrick(world[i], ball, b))
          \/ \E p \in Paddles \cap world[i].known :
                StepContact(i, ContactPaddle(world[i], ball, p))
          \/ \E p \in Paddles :
                StepContact(i, ContactPlate(world[i], ball, p))
    BY <1>5, PhysicsWorld
  <2> QED
    BY <2>1, <2>2, <2>3, ContactBrickType, ContactPaddleType, ContactPlateType
<1>6. ASSUME NEW i \in Instances, ParseElement(i)
      PROVE  world[j].known \subseteq world'[j].known
  <2>1. PICK g \in inbox[i] :
          /\ world' = [world EXCEPT ![i] = ParseGameElement(world[i], g)]
          /\ world'[i] = ParseGameElement(world[i], g)
          /\ g \in GameElement /\ world[i] \in World
    BY <1>6, ParseStep
  <2>2. ParseGameElement(world[i], g).known = world[i].known \cup {g.id}
    BY <2>1, ParseGameElementType
  <2> QED
    BY <2>1, <2>2 DEF TypeOK
<1>7. ASSUME world' = world
      PROVE  world[j].known \subseteq world'[j].known
  BY <1>7
<1> QED
  BY <1>3, <1>4, <1>5, <1>6, <1>7, WorldKept DEF Next, Main, Reader, Terminating, vars

\* An instance that knows its own paddle and has nothing left to parse knows the board.
LEMMA OwnPaddleBringsBoard ==
    ASSUME BoardInv, NEW i \in Instances, OwnPaddle(i) \in world[i].known, inbox[i] = {}
    PROVE  world[i].known = Ids
<1>1. CASE i = "host"
  BY <1>1 DEF BoardInv, HostHasBoard, OwnPaddle
<1>2. CASE i = "client"
  <2>1. Peer("host") = i /\ PeerPaddle("host") = OwnPaddle(i) /\ "host" \in Instances
    BY <1>2 DEF Peer, PeerPaddle, Instances
  <2>2. Traffic("host", Made("host"), Msgs(thread["host"]), net[i], inbox[i], world[i].known)
    BY <2>1 DEF BoardInv, TrafficOf
  <2>3. world[i].known \cup IdsOf(inbox[i]) = Ids
    BY <2>1, <2>2 DEF Traffic
  <2> QED
    BY <2>3 DEF IdsOf
<1> QED
  BY <1>1, <1>2 DEF Instances

\* A check that finds a winner has found both paddles, and the main thread is in it.
LEMMA VerdictKnowsBoard ==
    ASSUME TypeOK, RolesInv, LockInv, BoardInv, NEW i \in Instances,
           Check(i) \/ CheckUnlock(i), winner'[i] >= 0
    PROVE  world[i].known = Ids
<1>1. winner'[i] = GetWinner(world[i], ptrs[i])
  BY DEF Check, CheckUnlock, Decide, TypeOK
<1>2. ptrs[i].your # NoPaddle
  BY <1>1 DEF GetWinner
<1>3. OwnPaddle(i) \in world[i].known
  BY <1>2 DEF RolesInv, YourPaddleKnown, PaddlePtrsRoles
<1>4. inbox[i] = {}
  BY DEF LockInv, Check, CheckUnlock
<1> QED
  BY <1>3, <1>4, OwnPaddleBringsBoard

\* Only a check decides.
LEMMA WinnerKept ==
    ASSUME Next, winner' # winner
    PROVE  \E i \in Instances : Check(i) \/ CheckUnlock(i)
<1>1. ASSUME NEW i \in Instances,
             \/ Generate(i) \/ Draw(i) \/ DrawLock(i) \/ DisableBrick(i) \/ EndDisabledContact(i)
             \/ DrawUnlock(i) \/ StepLock(i) \/ StepUnlock(i) \/ SkipCheck(i) \/ CheckLock(i)
             \/ Quit(i) \/ Close(i)
      PROVE  winner' = winner
  BY <1>1 DEF Generate, Draw, DrawLock, DisableBrick, EndDisabledContact, DrawUnlock, StepLock,
              StepUnlock, SkipCheck, CheckLock, Quit, Close
<1>2. ASSUME NEW i \in Instances, Physics(i) \/ Reader(i) \/ Lose(i)
      PROVE  winner' = winner
  BY <1>2 DEF Physics, BallHitsBrick, BallHitsPaddle, BallHitsPlate, StepContact, Reader,
              ReaderLock, ParseElement, Lose
<1>3. ASSUME NEW i \in Instances, NEW t \in Threads, Sender(i, t)
      PROVE  winner' = winner
  BY <1>3 DEF Sender, FillLock, FillElement, SendCall, SetSending, Write, ClearSending
<1> QED
  BY <1>1, <1>2, <1>3 DEF Next, Main, Terminating, vars

\* WinnerKnowsBoard: nobody wins on a board that has not arrived.
THEOREM WinnerKnowsBoardHolds == Spec => []WinnerKnowsBoard
<1>1. Init => WinnerKnowsBoard
  BY DEF Init, WinnerKnowsBoard
<1>2. /\ TypeOK /\ TypeOK' /\ RolesInv /\ LockInv /\ BoardInv /\ WinnerKnowsBoard
      /\ [Next]_vars
      => WinnerKnowsBoard'
  <2> SUFFICES ASSUME TypeOK, TypeOK', RolesInv, LockInv, BoardInv, WinnerKnowsBoard, Next,
                      NEW j \in Instances, winner'[j] >= 0
               PROVE  world'[j].known = Ids
    BY DEF WinnerKnowsBoard, vars
  <2>1. world[j].known \subseteq Ids /\ world'[j].known \subseteq Ids
    BY DEF TypeOK, World
  <2>2. world[j].known = Ids
    <3>1. CASE winner'[j] = winner[j]
      BY <3>1 DEF WinnerKnowsBoard
    <3>2. CASE winner'[j] # winner[j]
      <4>1. PICK i \in Instances : Check(i) \/ CheckUnlock(i)
        BY <3>2, WinnerKept
      <4>2. i = j
        BY <3>2, <4>1 DEF Check, CheckUnlock, Decide, TypeOK
      <4> QED
        BY <4>1, <4>2, VerdictKnowsBoard
    <3> QED
      BY <3>1, <3>2
  <2> QED
    BY <2>1, <2>2, KnownGrows
<1> QED
  BY <1>1, <1>2, TypeCorrect, RolesInvariant, LockInvariant, BoardInvariant, PTL DEF Spec

-----------------------------------------------------------------------------
(* Own scores                                                              *)

\* The own score in a world w of i, against the last one it announced and the updates ts.
Covered(i, w, told, ts) ==
    w.score[OwnPaddle(i)] # told =>
        \/ OwnPaddle(i) \in w.updated
        \/ \E t \in Threads : OwnPaddle(i) \in ts[t].todo

\* Before its paddle is known an instance has no points and no ball.
Fresh(i, w, told) ==
    OwnPaddle(i) \notin w.known =>
        /\ w.score[OwnPaddle(i)] = 0 /\ told = 0
        /\ \A ball \in Balls : w.lastPaddle[ball] = NoPaddle

Scored(i, w, told, ts) == Covered(i, w, told, ts) /\ Fresh(i, w, told)

ScoreInv == \A i \in Instances : Scored(i, world[i], announced[i], thread[i])

\* Points for a paddle, which are marked if they are for the own one.
LEMMA PointsScored ==
    ASSUME NEW i \in Instances, NEW w \in World, NEW told, NEW ts, Scored(i, w, told, ts),
           NEW p \in Paddles, NEW points \in Int \ {0},
           p = OwnPaddle(i) => w.controlled[p] /\ p \in w.known
    PROVE  Scored(i, AddScore(w, p, points), told, ts)
<1> DEFINE v == AddScore(w, p, points)
<1>1. /\ v.score = [w.score EXCEPT ![p] = @ + points] /\ v.known = w.known
      /\ v.lastPaddle = w.lastPaddle
      /\ v.updated = IF w.controlled[p] THEN w.updated \cup {p} ELSE w.updated
  BY DEF AddScore, World
<1>2. w.score \in [Paddles -> Int] /\ OwnPaddle(i) \in Paddles
  BY InstancesType DEF World
<1> HIDE DEF v
<1>3. ASSUME p = OwnPaddle(i)
      PROVE  Scored(i, v, told, ts)
  <2>1. OwnPaddle(i) \in v.updated /\ OwnPaddle(i) \in v.known
    BY <1>1, <1>3
  <2> QED
    BY <2>1 DEF Scored, Covered, Fresh
<1>4. ASSUME p # OwnPaddle(i)
      PROVE  Scored(i, v, told, ts)
  <2>1. v.score[OwnPaddle(i)] = w.score[OwnPaddle(i)]
    BY <1>1, <1>2, <1>4
  <2> QED
    BY <1>1, <2>1 DEF Scored, Covered, Fresh
<1> QED
  BY <1>3, <1>4 DEF v

\* A world with the same points, balls and elements in which no mark is missing.
LEMMA SameScored ==
    ASSUME NEW i \in Instances, NEW w, NEW v, NEW told, NEW ts, Scored(i, w, told, ts),
           v.score = w.score, v.known = w.known, v.lastPaddle = w.lastPaddle,
           w.updated \subseteq v.updated
    PROVE  Scored(i, v, told, ts)
BY DEF Scored, Covered, Fresh

\* The contacts of a ball.
LEMMA ContactScored ==
    ASSUME NEW i \in Instances, NEW w \in World, Roles(i, w), NEW told, NEW ts,
           Scored(i, w, told, ts), NEW ball \in Balls
    PROVE  /\ \A b \in Bricks : Scored(i, ContactBrick(w, ball, b), told, ts)
           /\ \A p \in Paddles : Scored(i, ContactPaddle(w, ball, p), told, ts)
           /\ \A p \in Paddles : Scored(i, ContactPlate(w, ball, p), told, ts)
<1>1. /\ w.lastPaddle[ball] \in {NoPaddle, OwnPaddle(i)}
      /\ w.lastPaddle[ball] # NoPaddle => OwnPaddle(i) \in w.known
      /\ \A p \in Paddles : w.controlled[p] <=> p = OwnPaddle(i) /\ p \in w.known
      /\ OwnPaddle(i) \in Paddles
  BY InstancesType DEF Roles, Scored, Fresh
<1>2. ASSUME NEW b \in Bricks
      PROVE  Scored(i, ContactBrick(w, ball, b), told, ts)
  <2> DEFINE hit == BrickHit(w, b, ball)
  <2>1. /\ hit \in World /\ hit.known = w.known /\ hit.controlled = w.controlled
        /\ hit.lastPaddle = w.lastPaddle
    BY BrickHitType
  <2>2. hit.score = w.score /\ w.updated \subseteq hit.updated
    BY DEF BrickHit, World
  <2>3. ContactBrick(w, ball, b) = IF w.lastPaddle[ball] # NoPaddle
                                   THEN AddScore(hit, w.lastPaddle[ball], 1) ELSE hit
    BY DEF ContactBrick
  <2> HIDE DEF hit
  <2>4. Scored(i, hit, told, ts)
    BY <2>1, <2>2, SameScored
  <2>5. CASE w.lastPaddle[ball] # NoPaddle
    <3>1. Scored(i, AddScore(hit, OwnPaddle(i), 1), told, ts)
      BY <1>1, <2>1, <2>4, <2>5, PointsScored
    <3> QED
      BY <1>1, <2>3, <2>5, <3>1
  <2> QED
    BY <2>3, <2>4, <2>5
<1>3. ASSUME NEW p \in Paddles
      PROVE  Scored(i, ContactPaddle(w, ball, p), told, ts)
  <2>1. CASE ~w.controlled[p]
    BY <2>1 DEF ContactPaddle
  <2>2. CASE w.controlled[p]
    <3> DEFINE v == ContactPaddle(w, ball, p)
    <3>1. v.score = w.score /\ v.known = w.known /\ w.updated \subseteq v.updated
      BY <2>2 DEF ContactPaddle, World
    <3>2. OwnPaddle(i) \in w.known
      BY <1>1, <2>2
    <3> HIDE DEF v
    <3>3. Scored(i, v, told, ts)
      BY <3>1, <3>2 DEF Scored, Covered, Fresh
    <3> QED
      BY <3>3 DEF v
  <2> QED
    BY <2>1, <2>2
<1>4. ASSUME NEW p \in Paddles
      PROVE  Scored(i, ContactPlate(w, ball, p), told, ts)
  <2>1. CASE ~OwnBall(w, ball)
    BY <2>1 DEF ContactPlate
  <2>2. CASE OwnBall(w, ball)
    <3>1. OwnPaddle(i) \in w.known /\ w.controlled[OwnPaddle(i)]
      BY <1>1, <2>2 DEF OwnBall
    <3>2. Scored(i, AddScore(w, p, -5), told, ts)
      BY <3>1, PointsScored
    <3> QED
      BY <2>2, <3>2 DEF ContactPlate
  <2> QED
    BY <2>1, <2>2
<1> QED
  BY <1>2, <1>3, <1>4

\* A step of i that leaves the world w and its updates alone.
LEMMA WorldScored ==
    ASSUME TypeOK, ScoreInv, NEW i \in Instances, NEW w, world' = [world EXCEPT ![i] = w],
           UNCHANGED <<thread, announced>>, Scored(i, w, announced[i], thread[i])
    PROVE  ScoreInv'
<1>1. world'[i] = w /\ \A j \in Instances \ {i} : world'[j] = world[j]
  BY DEF TypeOK
<1> QED
  BY <1>1 DEF ScoreInv

LEMMA PhysicsScored ==
    ASSUME TypeOK, RolesInv, ScoreInv, NEW i \in Instances, Physics(i)
    PROVE  ScoreInv'
<1>1. /\ world[i] \in World /\ Roles(i, world[i])
      /\ Scored(i, world[i], announced[i], thread[i])
  BY DEF TypeOK, RolesInv, WorldRoles, ScoreInv
<1>2. ASSUME NEW w, Scored(i, w, announced[i], thread[i]), StepContact(i, w)
      PROVE  ScoreInv'
  BY <1>2, WorldScored DEF StepContact
<1>3. PICK ball \in Balls \cap world[i].known :
        \/ \E b \in Bricks \cap world[i].known :
              StepContact(i, ContactBrick(world[i], ball, b))
        \/ \E p \in Paddles \cap world[i].known :
              StepContact(i, ContactPaddle(world[i], ball, p))
        \/ \E p \in Paddles :
              StepContact(i, ContactPlate(world[i], ball, p))
  BY PhysicsWorld
<1> QED
  BY <1>1, <1>2, <1>3, ContactScored

LEMMA MarksScored ==
    ASSUME TypeOK, RolesInv, ScoreInv, NEW i \in Instances,
           DisableBrick(i) \/ EndDisabledContact(i) \/ StepLock(i)
    PROVE  ScoreInv'
<1>1. /\ world[i] \in World /\ Roles(i, world[i])
      /\ Scored(i, world[i], announced[i], thread[i])
  BY DEF TypeOK, RolesInv, WorldRoles, ScoreInv
<1>2. UNCHANGED <<thread, announced>>
  BY DEF DisableBrick, EndDisabledContact, StepLock
<1>3. CASE EndDisabledContact(i)
  <2>1. PICK c \in ending[i] : world' = [world EXCEPT ![i] = ContactBrick(@, c[1], c[2])]
    BY <1>3 DEF EndDisabledContact
  <2>2. c[1] \in Balls /\ c[2] \in Bricks
    BY DEF TypeOK
  <2>3. Scored(i, ContactBrick(world[i], c[1], c[2]), announced[i], thread[i])
    BY <1>1, <2>2, ContactScored
  <2> QED
    BY <1>2, <2>1, <2>3, WorldScored
<1>4. CASE DisableBrick(i) \/ StepLock(i)
  <2>1. PICK enabled, p : \/ world' = world
                          \/ world' = [world EXCEPT ![i].enabled = enabled]
                          \/ world' = [world EXCEPT ![i].updated = @ \cup {p}]
    <3>1. CASE DisableBrick(i)
      BY <3>1 DEF DisableBrick
    <3>2. CASE StepLock(i)
      BY <3>2 DEF StepLock
    <3> QED
      BY <1>4, <3>1, <3>2
  <2>2. CASE world' = world
    BY <1>2, <2>2 DEF ScoreInv
  <2>3. CASE world' = [world EXCEPT ![i].enabled = enabled]
    <3> DEFINE v == [world[i] EXCEPT !.enabled = enabled]
    <3>1. /\ v.score = world[i].score /\ v.known = world[i].known
          /\ v.lastPaddle = world[i].lastPaddle /\ v.updated = world[i].updated
      BY <1>1 DEF World
    <3>2. world' = [world EXCEPT ![i] = v]
      BY <2>3
    <3> HIDE DEF v
    <3>3. Scored(i, v, announced[i], thread[i])
      BY <1>1, <3>1, SameScored
    <3> QED
      BY <1>2, <3>2, <3>3, WorldScored
  <2>4. CASE world' = [world EXCEPT ![i].updated = @ \cup {p}]
    <3> DEFINE v == [world[i] EXCEPT !.updated = @ \cup {p}]
    <3>1. /\ v.score = world[i].score /\ v.known = world[i].known
          /\ v.lastPaddle = world[i].lastPaddle /\ v.updated = world[i].updated \cup {p}
      BY <1>1 DEF World
    <3>2. world' = [world EXCEPT ![i] = v]
      BY <2>4
    <3> HIDE DEF v
    <3>3. Scored(i, v, announced[i], thread[i])
      BY <1>1, <3>1, SameScored
    <3> QED
      BY <1>2, <3>2, <3>3, WorldScored
  <2> QED
    BY <2>1, <2>2, <2>3, <2>4
<1> QED
  BY <1>3, <1>4

\* The own paddle is parsed once, when it is new, and with the points it has: none.
LEMMA ParsedOwnScore ==
    ASSUME TypeOK, BoardInv, ScoreInv, NEW i \in Instances, NEW g \in inbox[i],
           g.id = OwnPaddle(i)
    PROVE  g.score = 0 /\ OwnPaddle(i) \notin world[i].known /\ world[i].score[OwnPaddle(i)] = 0
<1>1. Peer(i) \in Instances /\ Peer(Peer(i)) = i /\ PeerPaddle(Peer(i)) = OwnPaddle(i)
  BY PeerPaddleFacts, InstancesType
<1>2. Traffic(Peer(i), Made(Peer(i)), Msgs(thread[Peer(i)]), net[i], inbox[i], world[i].known)
  BY <1>1 DEF BoardInv, TrafficOf
<1>3. IsInitial(Peer(i), inbox[i])
  BY <1>1 DEF IsInitial
<1>4. NamesPeerOnce(Peer(i), inbox[i]) /\ OwnPaddle(i) \notin world[i].known
  BY <1>1, <1>2, <1>3 DEF Traffic
<1> QED
  BY <1>1, <1>4 DEF NamesPeerOnce, ScoreInv, Scored, Fresh

LEMMA ParsedScore ==
    ASSUME TypeOK, BoardInv, ScoreInv, NEW i \in Instances, NEW g \in inbox[i]
    PROVE  ParseGameElement(world[i], g).score[OwnPaddle(i)] = world[i].score[OwnPaddle(i)]
<1>1. g \in GameElement /\ world[i] \in World /\ OwnPaddle(i) \in Paddles
  BY InstancesType DEF TypeOK, GameUpdate
<1>2. /\ g.id \in Paddles =>
            ParseGameElement(world[i], g).score = [world[i].score EXCEPT ![g.id] = g.score]
      /\ g.id \notin Paddles => ParseGameElement(world[i], g).score = world[i].score
  BY <1>1 DEF ParseGameElement, World
<1>3. world[i].score \in [Paddles -> Int]
  BY <1>1 DEF World
<1> QED
  BY <1>1, <1>2, <1>3, ParsedOwnScore

LEMMA ParseScored ==
    ASSUME TypeOK, BoardInv, ScoreInv, NEW i \in Instances, ParseElement(i)
    PROVE  ScoreInv'
<1>1. PICK g \in inbox[i] :
        /\ world' = [world EXCEPT ![i] = ParseGameElement(world[i], g)]
        /\ g \in GameElement /\ world[i] \in World
        /\ UNCHANGED <<thread, net, pc>>
  BY ParseStep
<1> DEFINE v == ParseGameElement(world[i], g)
<1>2. /\ v.known = world[i].known \cup {g.id} /\ v.updated = world[i].updated
      /\ v.lastPaddle = world[i].lastPaddle
      /\ v.score[OwnPaddle(i)] = world[i].score[OwnPaddle(i)]
  BY <1>1, ParseGameElementType, ParsedScore
<1>3. Scored(i, world[i], announced[i], thread[i])
  BY DEF ScoreInv
<1>4. world' = [world EXCEPT ![i] = v] /\ UNCHANGED <<thread, announced>>
  BY <1>1 DEF ParseElement
<1> HIDE DEF v
<1>5. Scored(i, v, announced[i], thread[i])
  BY <1>2, <1>3 DEF Scored, Covered, Fresh
<1> QED
  BY <1>4, <1>5, WorldScored

LEMMA GenerateScored ==
    ASSUME TypeOK, RolesInv, BoardInv, ScoreInv, NEW i \in Instances, Generate(i)
    PROVE  ScoreInv'
<1>1. PICK d \in [Bricks -> 1 .. MaxDuration], t \in Threads :
        /\ world' = [world EXCEPT ![i] = GeneratedWorld(d)]
        /\ \E u : thread' = [thread EXCEPT ![i][t] = u]
  BY DEF Generate
<1>2. i = "host" /\ pc[i] = "setup" /\ announced' = announced
  BY DEF Generate, GoTo, RolesInv, SetupByHost
<1>3. OwnPaddle(i) \notin world[i].known /\ OwnPaddle(i) \in Paddles
  BY <1>2 DEF BoardInv, HostHasBoard, OwnPaddle, Paddles
<1>4. announced[i] = 0
  BY <1>3 DEF ScoreInv, Scored, Fresh
<1>5. \A p \in Paddles : GeneratedWorld(d).score[p] = 0
  BY DEF GeneratedWorld, EmptyWorld
<1>6. GeneratedWorld(d).known = Ids
  BY DEF GeneratedWorld, EmptyWorld
<1>7. Scored(i, GeneratedWorld(d), announced[i], thread'[i])
  BY <1>3, <1>4, <1>5, <1>6, IdsPartition DEF Scored, Covered, Fresh
<1>8. /\ world'[i] = GeneratedWorld(d)
      /\ \A j \in Instances \ {i} : world'[j] = world[j] /\ thread'[j] = thread[j]
  BY <1>1 DEF TypeOK
<1> QED
  BY <1>2, <1>7, <1>8 DEF ScoreInv

\* A step of a thread of i that leaves the world alone and drops no own paddle to do.
LEMMA ThreadScored ==
    ASSUME TypeOK, ScoreInv, NEW i \in Instances, NEW t \in Threads, NEW u,
           thread' = [thread EXCEPT ![i][t] = u], UNCHANGED <<world, announced>>,
           OwnPaddle(i) \in thread[i][t].todo => OwnPaddle(i) \in u.todo
    PROVE  ScoreInv'
<1>1. /\ thread'[i][t] = u /\ \A s \in Threads \ {t} : thread'[i][s] = thread[i][s]
      /\ \A j \in Instances \ {i} : thread'[j] = thread[j]
  BY DEF TypeOK
<1>2. \A s \in Threads :
        OwnPaddle(i) \in thread[i][s].todo => OwnPaddle(i) \in thread'[i][s].todo
  BY <1>1
<1>3. Scored(i, world[i], announced[i], thread'[i])
  BY <1>2 DEF ScoreInv, Scored, Covered
<1> QED
  BY <1>1, <1>3 DEF ScoreInv

\* The updated elements are handed to a thread that has nothing else to do.
LEMMA StepUnlockScored ==
    ASSUME TypeOK, BoardInv, ScoreInv, NEW i \in Instances, StepUnlock(i)
    PROVE  ScoreInv'
<1>1. /\ world[i] \in World /\ world' = [world EXCEPT ![i].updated = {}] /\ announced' = announced
      /\ Scored(i, world[i], announced[i], thread[i])
  BY DEF TypeOK, StepUnlock, ScoreInv
<1> DEFINE v == [world[i] EXCEPT !.updated = {}]
<1>2. /\ v.score = world[i].score /\ v.known = world[i].known /\ v.updated = {}
      /\ v.lastPaddle = world[i].lastPaddle
  BY <1>1 DEF World
<1>3. world'[i] = v /\ \A j \in Instances \ {i} : world'[j] = world[j]
  BY <1>1 DEF TypeOK
<1> HIDE DEF v
<1>4. CASE world[i].updated = {}
  <2>1. thread' = thread
    BY <1>4 DEF StepUnlock
  <2>2. Scored(i, v, announced[i], thread[i])
    BY <1>1, <1>2, <1>4, SameScored
  <2> QED
    BY <1>1, <1>3, <2>1, <2>2 DEF ScoreInv
<1>5. CASE world[i].updated # {}
  <2> DEFINE u == [pc |-> "start", todo |-> world[i].updated, msg |-> {}]
  <2>1. PICK t \in Threads : thread[i][t].pc = "idle" /\ thread' = [thread EXCEPT ![i][t] = u]
    BY <1>5 DEF StepUnlock
  <2>2. u.todo = world[i].updated
    OBVIOUS
  <2> HIDE DEF u
  <2>3. /\ thread'[i][t] = u /\ \A s \in Threads \ {t} : thread'[i][s] = thread[i][s]
        /\ \A j \in Instances \ {i} : thread'[j] = thread[j]
    BY <2>1 DEF TypeOK
  <2>4. thread[i][t].todo = {}
    BY <2>1 DEF BoardInv, SendersHonest, Honest
  <2>5. OwnPaddle(i) \in world[i].updated => OwnPaddle(i) \in thread'[i][t].todo
    BY <2>2, <2>3
  <2>6. \A s \in Threads :
          OwnPaddle(i) \in thread[i][s].todo => OwnPaddle(i) \in thread'[i][s].todo
    BY <2>3, <2>4
  <2>7. Scored(i, v, announced[i], thread'[i])
    BY <1>1, <1>2, <2>5, <2>6 DEF Scored, Covered, Fresh
  <2> QED
    BY <1>1, <1>3, <2>3, <2>7 DEF ScoreInv
<1> QED
  BY <1>4, <1>5

LEMMA SenderScored ==
    ASSUME TypeOK, RolesInv, BoardInv, ScoreInv, NEW i \in Instances, NEW t \in Threads,
           Sender(i, t)
    PROVE  ScoreInv'
<1>1. /\ thread[i][t] \in UpdateThread /\ Honest(i, thread[i][t]) /\ world' = world
      /\ thread[i][t].todo \subseteq world[i].known
  BY WorldKept DEF TypeOK, BoardInv, SendersHonest, RolesInv, ThreadsAuthentic
<1>2. CASE FillElement(i, t)
  <2>1. PICK e \in thread[i][t].todo :
          /\ thread' = [thread EXCEPT ![i][t].todo = @ \ {e},
                                      ![i][t].msg = @ \cup {FillGameElement(world[i], e)}]
          /\ announced' = [announced EXCEPT ![i] =
                IF e = OwnPaddle(i) THEN world[i].score[e] ELSE @]
    BY <1>2 DEF FillElement
  <2> DEFINE u == [thread[i][t] EXCEPT !.todo = @ \ {e},
                                       !.msg = @ \cup {FillGameElement(world[i], e)}]
  <2>2. u.todo = thread[i][t].todo \ {e}
    BY <1>1 DEF UpdateThread
  <2>3. thread' = [thread EXCEPT ![i][t] = u]
    BY <2>1 DEF TypeOK
  <2> HIDE DEF u
  <2>4. CASE e # OwnPaddle(i)
    <3>1. announced' = announced
      BY <2>1, <2>4 DEF TypeOK
    <3> QED
      BY <1>1, <2>2, <2>3, <2>4, <3>1, ThreadScored
  <2>5. CASE e = OwnPaddle(i)
    <3>1. /\ announced'[i] = world[i].score[OwnPaddle(i)] /\ OwnPaddle(i) \in world[i].known
          /\ \A j \in Instances \ {i} : announced'[j] = announced[j] /\ thread'[j] = thread[j]
      BY <1>1, <2>1, <2>3, <2>5 DEF TypeOK
    <3>2. Scored(i, world[i], announced'[i], thread'[i])
      BY <3>1 DEF Scored, Covered, Fresh
    <3> QED
      BY <1>1, <3>1, <3>2 DEF ScoreInv
  <2> QED
    BY <2>4, <2>5
<1>3. CASE FillLock(i, t) \/ SendCall(i, t) \/ SetSending(i, t) \/ Write(i, t) \/ ClearSending(i, t)
  <2>1. announced' = announced
    BY <1>3 DEF FillLock, SendCall, SetSending, Write, ClearSending
  <2>2. PICK q, msg : \/ thread' = [thread EXCEPT ![i][t] = [thread[i][t] EXCEPT !.pc = q]]
                      \/ thread' = [thread EXCEPT ![i][t] =
                                       [thread[i][t] EXCEPT !.pc = q, !.msg = msg]]
                      \/ thread' = [thread EXCEPT ![i][t] = IdleThread] /\ thread[i][t].todo = {}
    <3>1. CASE FillLock(i, t) \/ SetSending(i, t)
      BY <3>1 DEF FillLock, SetSending, TypeOK
    <3>2. CASE SendCall(i, t)
      BY <3>2 DEF SendCall, TypeOK
    <3>3. CASE Write(i, t)
      BY <3>3 DEF Write
    <3>4. CASE ClearSending(i, t)
      BY <1>1, <3>4 DEF ClearSending, Honest
    <3> QED
      BY <1>3, <3>1, <3>2, <3>3, <3>4
  <2>3. PICK u : /\ thread' = [thread EXCEPT ![i][t] = u]
                 /\ OwnPaddle(i) \in thread[i][t].todo => OwnPaddle(i) \in u.todo
    <3>1. /\ [thread[i][t] EXCEPT !.pc = q].todo = thread[i][t].todo
          /\ [thread[i][t] EXCEPT !.pc = q, !.msg = msg].todo = thread[i][t].todo
      BY <1>1 DEF UpdateThread
    <3> QED
      BY <2>2, <3>1
  <2> QED
    BY <1>1, <2>1, <2>3, ThreadScored
<1> QED
  BY <1>2, <1>3 DEF Sender

\* Points before the own paddle is known and unannounced points do not exist.
THEOREM ScoreInvariant == Spec => []ScoreInv
<1>1. Init => ScoreInv
  BY InstancesType DEF Init, ScoreInv, Scored, Covered, Fresh, EmptyWorld
<1>2. TypeOK /\ RolesInv /\ BoardInv /\ ScoreInv /\ [Next]_vars => ScoreInv'
  <2> SUFFICES ASSUME TypeOK, RolesInv, BoardInv, ScoreInv, [Next]_vars PROVE ScoreInv'
    OBVIOUS
  <2>1. ASSUME NEW i \in Instances, Main(i) \/ Quit(i) \/ Close(i)
        PROVE  ScoreInv'
    <3>1. CASE \/ Draw(i) \/ DrawLock(i) \/ DrawUnlock(i) \/ SkipCheck(i) \/ Check(i)
               \/ CheckLock(i) \/ CheckUnlock(i) \/ Quit(i) \/ Close(i)
      <4>1. UNCHANGED <<world, thread, announced>>
        BY <3>1 DEF Draw, DrawLock, DrawUnlock, SkipCheck, Check, CheckLock, CheckUnlock, Quit,
                    Close
      <4> QED
        BY <4>1 DEF ScoreInv
    <3> QED
      BY <2>1, <3>1, GenerateScored, MarksScored, StepUnlockScored DEF Main
  <2>2. ASSUME NEW i \in Instances, Reader(i) \/ Lose(i)
        PROVE  ScoreInv'
    <3>1. CASE ReaderLock(i) \/ Lose(i)
      <4>1. UNCHANGED <<world, thread, announced>>
        BY <3>1 DEF ReaderLock, Lose
      <4> QED
        BY <4>1 DEF ScoreInv
    <3> QED
      BY <2>2, <3>1, ParseScored DEF Reader
  <2>3. CASE UNCHANGED vars
    BY <2>3 DEF vars, ScoreInv
  <2> QED
    BY <2>1, <2>2, <2>3, PhysicsScored, SenderScored DEF Next, Terminating
<1> QED
  BY <1>1, <1>2, TypeCorrect, RolesInvariant, BoardInvariant, PTL DEF Spec

\* OwnScoreCovered: no change of the own score is lost between did_update, add_score and
\* the thread that reads it late.
THEOREM OwnScoreCoveredHolds == Spec => []OwnScoreCovered
<1>1. ScoreInv => OwnScoreCovered
  BY DEF ScoreInv, Scored, Covered, OwnScoreCovered
<1> QED
  BY <1>1, ScoreInvariant, PTL

\* While the reader of i has the elements the own score stays.
ScoreKept(i) ==
    elementMutex[i] = "reader" =>
        world'[i].score[OwnPaddle(i)] = world[i].score[OwnPaddle(i)]

LEMMA StepScoreKept ==
    ASSUME TypeOK, LockInv, BoardInv, ScoreInv, NEW i \in Instances,
           \/ Generate(i) \/ DisableBrick(i) \/ EndDisabledContact(i) \/ StepLock(i)
           \/ StepUnlock(i) \/ Physics(i) \/ ParseElement(i)
    PROVE  ScoreKept(i)
<1>1. CASE Generate(i) \/ StepLock(i) \/ StepUnlock(i)
  BY <1>1 DEF Generate, StepLock, StepUnlock, LockElements, UnlockElements, ScoreKept
<1>2. CASE DisableBrick(i) \/ EndDisabledContact(i) \/ Physics(i)
  <2>1. pc[i] \in {"drawing", "checking", "stepping"}
    BY <1>2 DEF DisableBrick, EndDisabledContact, Physics, BallHitsBrick, BallHitsPaddle,
                BallHitsPlate, StepContact, LockInv
  <2> QED
    BY <2>1 DEF LockInv, ScoreKept
<1>3. CASE ParseElement(i)
  <2>1. PICK g \in inbox[i] : world'[i] = ParseGameElement(world[i], g)
    BY <1>3, ParseStep
  <2> QED
    BY <2>1, ParsedScore DEF ScoreKept
<1> QED
  BY <1>1, <1>2, <1>3

\* OwnScoreAuthority: what the reader parses never overwrites the own score.
THEOREM OwnScoreAuthorityHolds == Spec => OwnScoreAuthority
<1>1. TypeOK /\ LockInv /\ BoardInv /\ ScoreInv /\ [Next]_vars =>
        [\A i \in Instances : ScoreKept(i)]_vars
  <2> SUFFICES ASSUME TypeOK, LockInv, BoardInv, ScoreInv, Next, NEW i \in Instances
               PROVE  ScoreKept(i)
    OBVIOUS
  <2>1. CASE world'[i] = world[i]
    BY <2>1 DEF ScoreKept
  <2>2. ASSUME NEW j \in Instances,
               \/ Generate(j) \/ DisableBrick(j) \/ EndDisabledContact(j) \/ StepLock(j)
               \/ StepUnlock(j) \/ Physics(j) \/ ParseElement(j)
        PROVE  ScoreKept(i)
    <3>1. CASE j # i
      <4>1. world'[i] = world[i]
        BY <2>2, <3>1 DEF TypeOK, Generate, DisableBrick, EndDisabledContact, StepLock, StepUnlock,
                          Physics, BallHitsBrick, BallHitsPaddle, BallHitsPlate, StepContact,
                          ParseElement
      <4> QED
        BY <2>1, <4>1
    <3> QED
      BY <2>2, <3>1, StepScoreKept
  <2>3. ASSUME world' = world
        PROVE  ScoreKept(i)
    BY <2>1, <2>3
  <2> QED
    BY <2>2, <2>3, WorldKept DEF Next, Main, Reader, Terminating, vars
<1>2. [\A i \in Instances : ScoreKept(i)]_vars <=>
      [\A i \in Instances :
          elementMutex[i] = "reader" =>
              world'[i].score[OwnPaddle(i)] = world[i].score[OwnPaddle(i)]]_vars
  BY DEF ScoreKept
<1> QED
  BY <1>1, <1>2, TypeCorrect, LockInvariant, BoardInvariant, ScoreInvariant, PTL
     DEF Spec, OwnScoreAuthority

=============================================================================
