------------------------------ MODULE Elements ------------------------------
(***************************************************************************)
(* The elements of one game instance (arkanoid_elements.hpp) and the       *)
(* functions that change them: contacts reported by the physics, and the   *)
(* serialisation of elements into a GameUpdate and back.                   *)
(*                                                                         *)
(* A world is the element_map of one instance together with the fields of  *)
(* the elements that the game decides with.  Positions and velocities are  *)
(* left to the physics engine: which contacts happen is nondeterministic.  *)
(***************************************************************************)
EXTENDS Integers

CONSTANTS
    NumBalls,      \* two in generate_arkanoid_elements
    NumBricks,     \* columns times rows of generate_bricks
    MaxDuration    \* brick_max_duration

ASSUME ElementsAssumption ==
    /\ NumBalls \in Nat
    /\ NumBricks \in Nat \ {0}
    /\ MaxDuration \in Nat \ {0}

-----------------------------------------------------------------------------
(* Ids are handed out by Element::id_generator in the order in which the   *)
(* host constructs the elements: its own paddle, the client's paddle, the  *)
(* balls, the bricks.                                                      *)

HostPaddle == 0
ClientPaddle == 1
Paddles == {HostPaddle, ClientPaddle}
Balls == 2 .. (NumBalls + 1)
Bricks == (NumBalls + 2) .. (NumBalls + NumBricks + 1)
Ids == 0 .. (NumBalls + NumBricks + 1)

\* nullptr for a Paddle *
NoPaddle == -1

World ==
    [known      : SUBSET Ids,                             \* keys of element_map
     controlled : [Paddles -> BOOLEAN],                   \* m_is_controlled_by_this_game_instance
     score      : [Paddles -> Int],                       \* Paddle::m_score
     duration   : [Bricks -> Int],                        \* Brick::m_duration
     enabled    : SUBSET Bricks,                          \* the b2Body is enabled
     updated    : SUBSET Ids,                             \* m_updated
     lastPaddle : [Balls -> Paddles \cup {NoPaddle}]]     \* Ball::m_paddle_ptr

EmptyWorld ==
    [known |-> {},
     controlled |-> [p \in Paddles |-> FALSE],
     score |-> [p \in Paddles |-> 0],
     duration |-> [b \in Bricks |-> MaxDuration],
     enabled |-> Bricks,
     updated |-> {},
     lastPaddle |-> [x \in Balls |-> NoPaddle]]

\* generate_arkanoid_elements and generate_bricks, with the random durations d.
GeneratedWorld(d) ==
    [EmptyWorld EXCEPT !.known = Ids,
                       !.controlled = [p \in Paddles |-> p = HostPaddle],
                       !.duration = d]

-----------------------------------------------------------------------------
(* Contacts                                                                *)

\* The last own paddle that touched the ball is set and controlled here.
OwnBall(w, ball) ==
    /\ w.lastPaddle[ball] # NoPaddle
    /\ w.controlled[w.lastPaddle[ball]]

\* Mutations of AddScore: only gained points are announced; and the score of a
\* paddle that is controlled elsewhere is announced as well.
AddScoreAnnouncingGains(w, p, points) ==
    [w EXCEPT !.score[p] = @ + points,
              !.updated = IF points > 0 /\ w.controlled[p] THEN @ \cup {p} ELSE @]
AddScoreAnnouncingAll(w, p, points) ==
    [w EXCEPT !.score[p] = @ + points,
              !.updated = IF points # 0 THEN @ \cup {p} ELSE @]

AddScore(w, p, points) ==
    [w EXCEPT !.score[p] = @ + points,
              !.updated = IF points # 0 /\ w.controlled[p] THEN @ \cup {p} ELSE @]

\* Mutations of BrickHit: the last point needs no own ball; and m_updated is set
\* whatever became of the duration.
BrickHitByAnyBall(w, b, ball) ==
    IF OwnBall(w, ball) \/ w.duration[b] > 0
    THEN [w EXCEPT !.duration[b] = @ - 1,
                   !.updated = IF w.duration[b] - 1 <= 0 THEN @ \cup {b, ball} ELSE @]
    ELSE w
BrickHitAlwaysUpdated(w, b, ball) ==
    IF OwnBall(w, ball) \/ w.duration[b] > 1
    THEN [w EXCEPT !.duration[b] = @ - 1, !.updated = @ \cup {b, ball}]
    ELSE [w EXCEPT !.updated = @ \cup {b, ball}]

\* Brick::hit: the last point of duration needs a ball of this instance.
BrickHit(w, b, ball) ==
    IF OwnBall(w, ball) \/ w.duration[b] > 1
    THEN [w EXCEPT !.duration[b] = @ - 1,
                   !.updated = IF w.duration[b] - 1 <= 0 THEN @ \cup {b, ball} ELSE @]
    ELSE w

ContactBrick(w, ball, b) ==
    LET hit == BrickHit(w, b, ball)
    IN IF w.lastPaddle[ball] # NoPaddle
       THEN AddScore(hit, w.lastPaddle[ball], 1)
       ELSE hit

ContactPaddle(w, ball, p) ==
    IF w.controlled[p]
    THEN [w EXCEPT !.updated = @ \cup {ball}, !.lastPaddle[ball] = p]
    ELSE w

\* CheckIfBackPlateWasHit, for a plate that stands behind paddle p.
ContactPlate(w, ball, p) ==
    IF OwnBall(w, ball) THEN AddScore(w, p, -5) ELSE w

\* Brick::exists without its side effect on the body.
BrickExists(w, b) == b \in w.known /\ w.duration[b] > 0

-----------------------------------------------------------------------------
(* Messages: a GameUpdate is the set of its GameElements.                  *)

NetPaddle == [id : Paddles, score : Int, controlled_by_sender : BOOLEAN]
NetBall == [id : Balls]
NetBrick == [id : Bricks, duration : Int]
GameElement == NetPaddle \cup NetBall \cup NetBrick
GameUpdate == SUBSET GameElement

FillGameElement(w, e) ==
    IF e \in Paddles
    THEN [id |-> e, score |-> w.score[e], controlled_by_sender |-> w.controlled[e]]
    ELSE IF e \in Bricks THEN [id |-> e, duration |-> w.duration[e]] ELSE [id |-> e]

FillGameUpdate(w, ids) == {FillGameElement(w, e) : e \in ids}

\* Mutations of ParseGameElement: what the peer scored is added to what is known of it;
\* and controlled_by_sender is taken over as it is.
ParseGameElementAdding(w, g) ==
    LET known == w.known \cup {g.id}
    IN IF g.id \in Paddles
       THEN [w EXCEPT !.known = known,
                      !.controlled[g.id] = ~g.controlled_by_sender,
                      !.score[g.id] = @ + g.score]
       ELSE IF g.id \in Bricks
            THEN [w EXCEPT !.known = known, !.duration[g.id] = g.duration]
            ELSE [w EXCEPT !.known = known]
ParseGameElementSameControl(w, g) ==
    LET known == w.known \cup {g.id}
    IN IF g.id \in Paddles
       THEN [w EXCEPT !.known = known,
                      !.controlled[g.id] = g.controlled_by_sender,
                      !.score[g.id] = g.score]
       ELSE IF g.id \in Bricks
            THEN [w EXCEPT !.known = known, !.duration[g.id] = g.duration]
            ELSE [w EXCEPT !.known = known]

\* One iteration of parse_game_update: construct the element if its id is new,
\* then parse_game_element.
ParseGameElement(w, g) ==
    LET known == w.known \cup {g.id}
    IN IF g.id \in Paddles
       THEN [w EXCEPT !.known = known,
                      !.controlled[g.id] = ~g.controlled_by_sender,
                      !.score[g.id] = g.score]
       ELSE IF g.id \in Bricks
            THEN [w EXCEPT !.known = known, !.duration[g.id] = g.duration]
            ELSE [w EXCEPT !.known = known]

\* Element updates are applied and filled in ascending order of id.
IsFirst(e, ids) == e \in ids /\ \A f \in ids : e <= f

-----------------------------------------------------------------------------
(* The playing field along y: build_b2_world_border and the paddles' rows. *)

PlayingFieldTop == 5
PlayingFieldBottom == 170
PaddleHeight == 1

\* back_plates[0] is the upper wall, back_plates[1] the lower one.
Plates == {0, 1}
PlateY(plate) == IF plate = 0 THEN PlayingFieldTop - 11 ELSE PlayingFieldBottom + 10
PaddleY(p) == IF p = HostPaddle THEN PlayingFieldBottom - PaddleHeight ELSE PlayingFieldTop

Distance(a, b) == IF a <= b THEN b - a ELSE a - b

\* Mutation of AssignPlates: {your, enemy} is taken for {upper, lower}.
AssignPlatesInOrder(your, enemy) ==
    [plate \in Plates |-> IF plate = 0 THEN your ELSE enemy]

\* The plate assignment of find_paddle_ptrs for {your, enemy} paddles.
AssignPlates(your, enemy) ==
    IF Distance(PlateY(0), PaddleY(your)) <= Distance(PlateY(0), PaddleY(enemy))
    THEN [plate \in Plates |-> IF plate = 0 THEN your ELSE enemy]
    ELSE [plate \in Plates |-> IF plate = 0 THEN enemy ELSE your]
=============================================================================
