-------------------------------- MODULE Board --------------------------------
(***************************************************************************)
(* Where things are: the host lays out the board (generate_bricks and      *)
(* generate_arkanoid_elements), the client rebuilds it from the message    *)
(* (parse_game_update), and both move their paddles by the mouse.  The     *)
(* walls (build_b2_world_border) are the same on both sides.               *)
(*                                                                         *)
(* Positions are integers, Unit of them to a character cell of the canvas, *)
(* two to a unit of Box2D; the rounding of floats is left out.  The ball   *)
(* stays where it starts, updates arrive at once: motion is the physics'   *)
(* and delivery is the matter of Game and Connection.                      *)
(***************************************************************************)
EXTENDS Integers

CONSTANT Columns   \* the screen columns in which the mouse is seen

ASSUME BoardAssumption == Columns \subseteq Int

Ends == {"host", "client"}
Peer(e) == IF e = "host" THEN "client" ELSE "host"

CanvasWidth == 167
FieldTop == 5
FieldBottom == 170
FieldLeft == 1
FieldRight == CanvasWidth - 2
FieldWidth == FieldRight - FieldLeft
FieldHeight == FieldBottom - FieldTop

Width == [paddle |-> 14, brick |-> 14, ball |-> 1]
Height == [paddle |-> 1, brick |-> 5, ball |-> 1]

Rows == 6
DistanceX == 2
DistanceY == 3

Unit == 280

\* std::round(n / 2.0F) and std::round(n / Unit): halves go away from zero.
RoundHalf(n) == IF n >= 0 THEN (n + 1) \div 2 ELSE -((1 - n) \div 2)
RoundUnit(n) == IF n >= 0 THEN (2 * n + Unit) \div (2 * Unit)
                ELSE -((Unit - 2 * n) \div (2 * Unit))

-----------------------------------------------------------------------------
(* Elements                                                                *)

\* The constructors, given a corner.  The paddle's adds half its size in units of Box2D,
\* the brick's in cells, the ball's nothing.
Construct(kind, x, y) ==
    LET half == [paddle |-> 1, brick |-> Unit \div 2, ball |-> 0][kind]
    IN [kind |-> kind, x |-> x + Width[kind] * half, y |-> y + Height[kind] * half]

Paddle(x, y) == Construct("paddle", x * Unit, y * Unit)
Brick(x, y) == Construct("brick", x * Unit, y * Unit)
Ball(x, y) == Construct("ball", x * Unit, y * Unit)

\* What is drawn: Element::left, right, top and bottom.
DrawnBox(e) ==
    LET left == RoundUnit(e.x - Width[e.kind] * (Unit \div 2))
        top == RoundUnit(e.y - Height[e.kind] * (Unit \div 2))
    IN [left |-> left, right |-> left + Width[e.kind],
        top |-> top, bottom |-> top + Height[e.kind]]

\* Mutant: SetAsBox gets the half of width and height.
BoxOfHalves(x, y, width, height) ==
    [left |-> 2 * x - width, right |-> 2 * x + width,
     top |-> 2 * y - height, bottom |-> 2 * y + height]

\* The box that SetAsBox(width, height) puts around a centre, all in the same unit;
\* the box is returned in halves of that unit.
Box(x, y, width, height) ==
    [left |-> 2 * (x - width), right |-> 2 * (x + width),
     top |-> 2 * (y - height), bottom |-> 2 * (y + height)]

\* A ball's shape is a circle of radius 1, whatever its width() says.
BodyBox(e) ==
    IF e.kind = "ball" THEN Box(e.x, e.y, Unit, Unit)
    ELSE Box(e.x, e.y, Width[e.kind] * Unit, Height[e.kind] * Unit)

Overlap(a, b) ==
    a.left <= b.right /\ b.left <= a.right /\ a.top <= b.bottom /\ b.top <= a.bottom

-----------------------------------------------------------------------------
(* The layout                                                              *)

Wall(x, y, width, height) == Box(x * Unit, y * Unit, width * Unit, height * Unit)

Border ==
    [left   |-> Wall(FieldLeft - 2, FieldTop - 12, 1, FieldHeight + 24),
     right  |-> Wall(FieldRight + 1, FieldTop - 12, 1, FieldHeight + 24),
     top    |-> Wall(FieldLeft - 2, FieldTop - 11, FieldWidth + 4, 1),
     bottom |-> Wall(FieldLeft - 2, FieldBottom + 10, FieldWidth + 4, 1)]

BricksPerRow == (FieldWidth - DistanceX) \div (Width.brick + DistanceX)
TotalHeight == Rows * (Height.brick + DistanceY) + DistanceY
TotalWidth == BricksPerRow * (Width.brick + DistanceX) - DistanceX
LayoutTop == RoundHalf(FieldHeight - TotalHeight)
LayoutLeft == RoundHalf(FieldWidth - TotalWidth)

\* Mutant: the distance between the rows is left out.
BrickCrowded(i, j) ==
    Brick(FieldLeft + LayoutLeft + (DistanceX + Width.brick) * i,
          FieldTop + LayoutTop + Height.brick * j)

BrickAt(i, j) ==
    Brick(FieldLeft + LayoutLeft + (DistanceX + Width.brick) * i,
          FieldTop + LayoutTop + (DistanceY + Height.brick) * j)

\* The paddles and balls of generate_arkanoid_elements, by id.
PaddleX == CanvasWidth \div 2 - Width.paddle \div 2
PaddleY == FieldBottom - Height.paddle
BallX == PaddleX + Width.paddle \div 2

\* Mutant: the balls start behind the paddles.
MovablesBehind ==
    [id \in 0 .. 3 |->
        IF id = 0 THEN Paddle(PaddleX, PaddleY)
        ELSE IF id = 1 THEN Paddle(PaddleX, FieldTop)
        ELSE IF id = 2 THEN Ball(BallX, PaddleY + 10)
        ELSE Ball(BallX, FieldTop - 10)]

Movables ==
    [id \in 0 .. 3 |->
        IF id = 0 THEN Paddle(PaddleX, PaddleY)
        ELSE IF id = 1 THEN Paddle(PaddleX, FieldTop)
        ELSE IF id = 2 THEN Ball(BallX, PaddleY - 10)
        ELSE Ball(BallX, FieldTop + 10)]

NumIds == 4 + BricksPerRow * Rows
OwnPaddle(e) == IF e = "host" THEN 0 ELSE 1

-----------------------------------------------------------------------------

VARIABLES
    border,   \* the walls of both worlds, by side, none before they are built
    world,    \* element_map of each end
    column,   \* i_x of generate_bricks
    row,      \* i_y
    mouse     \* mouse_x

vars == <<border, world, column, row, mouse>>

Empty == [id \in {} |-> 0]
Built == DOMAIN border # {}
Known(e) == DOMAIN world[e]
Insert(map, id, element) == [k \in DOMAIN map \cup {id} |-> IF k = id THEN element ELSE map[k]]

Init ==
    /\ border = Empty
    /\ world = [e \in Ends |-> Empty]
    /\ column = 0
    /\ row = 0
    /\ mouse = [e \in Ends |-> PaddleX]

BuildBorder ==
    /\ ~Built
    /\ border' = Border
    /\ UNCHANGED <<world, column, row, mouse>>

GenerateMovables ==
    /\ Built
    /\ Known("host") = {}
    /\ world' = [world EXCEPT !["host"] = Movables]
    /\ UNCHANGED <<border, column, row, mouse>>

\* One round of the inner loop of generate_bricks.
GenerateBrick ==
    /\ Known("host") # {}
    /\ column < BricksPerRow
    /\ world' = [world EXCEPT !["host"] = Insert(@, 4 + column * Rows + row, BrickAt(column, row))]
    /\ row' = (row + 1) % Rows
    /\ column' = IF row' = 0 THEN column + 1 ELSE column
    /\ UNCHANGED <<border, mouse>>

\* Mutant: the position of a new element is left to its constructor.
ParseConstructed(g) == Construct(g.kind, g.x, g.y)

\* A new element is constructed as if its centre were a corner; parse_game_element
\* then sets the position that the message says.
ParseNew(g) == [Construct(g.kind, g.x, g.y) EXCEPT !.x = g.x, !.y = g.y]

\* One round of parse_game_update: the board arrives in ascending order of id.
ParseElement ==
    /\ column = BricksPerRow
    /\ \E id \in Known("host") \ Known("client") :
          /\ \A k \in Known("host") \ Known("client") : id <= k
          /\ world' = [world EXCEPT !["client"] = Insert(@, id, ParseNew(world["host"][id]))]
    /\ UNCHANGED <<border, column, row, mouse>>

\* Mutant: the bounds are those of the field.
ClampToField(x) ==
    IF x < FieldLeft THEN FieldLeft ELSE IF x > FieldRight THEN FieldRight ELSE x

\* The constrains of update_paddle_position.
Clamp(x) ==
    LET half == Width.paddle \div 2
    IN IF x < FieldLeft + half THEN FieldLeft + half
       ELSE IF x > FieldRight - half THEN FieldRight - half ELSE x

\* Paddle::update_x marks the paddle for an update.
Moved(old, new) == old >= (new + 1) * Unit \/ old <= (new - 1) * Unit

\* A mouse event, or none, and the paddle's part of the next frame; the update that
\* did_update asks for gives the peer the new position.
Frame(e) ==
    /\ Known("client") = 0 .. (NumIds - 1)
    /\ \E x \in {mouse[e]} \cup {2 * (c - 1) : c \in Columns} :
          LET id == OwnPaddle(e)
              old == world[e][id].x
              new == Clamp(x)
          IN /\ mouse' = [mouse EXCEPT ![e] = x]
             /\ world' = IF Moved(old, new)
                         THEN [end \in Ends |-> [world[end] EXCEPT ![id].x = new * Unit]]
                         ELSE [world EXCEPT ![e][id].x = new * Unit]
    /\ UNCHANGED <<border, column, row>>

Next ==
    \/ BuildBorder \/ GenerateMovables \/ GenerateBrick \/ ParseElement
    \/ \E e \in Ends : Frame(e)

Spec == Init /\ [][Next]_vars

-----------------------------------------------------------------------------
(* Properties                                                              *)

\* No two bricks are drawn over each other or beyond the field, although their number,
\* their margins and their distances are computed from each other (generate_bricks).
BricksDrawnApart ==
    \A e \in Ends : \A id \in Known(e) :
        world[e][id].kind = "brick" =>
            LET box == DrawnBox(world[e][id])
            IN /\ FieldLeft <= box.left /\ box.right <= FieldRight
               /\ FieldTop <= box.top /\ box.bottom <= FieldBottom
               /\ \A k \in Known(e) \ {id} :
                     world[e][k].kind = "brick" => ~Overlap(box, DrawnBox(world[e][k]))

\* The walls close around the field: their corners overlap, none stands in it.  They are
\* placed by a corner, but SetAsBox takes the centre and half of the size, so that each
\* reaches twice as far as it says, which is what closes the gaps.
FieldIsClosed ==
    Built =>
        LET w == border
            field == Box(FieldLeft * Unit, FieldTop * Unit, 0, 0)
            far == Box(FieldRight * Unit, FieldBottom * Unit, 0, 0)
        IN /\ Overlap(w.left, w.top) /\ Overlap(w.left, w.bottom)
           /\ Overlap(w.right, w.top) /\ Overlap(w.right, w.bottom)
           /\ w.left.right < field.left /\ far.right <= w.right.left
           /\ w.top.bottom < field.top /\ far.bottom < w.bottom.top

\* No ball starts inside a wall, a paddle or a brick, whose bodies are twice as large
\* as they are drawn.
BallsStartFree ==
    \A e \in Ends : \A id \in {2, 3} \cap Known(e) :
        /\ \A k \in Known(e) \ {id} : ~Overlap(BodyBox(world[e][id]), BodyBox(world[e][k]))
        /\ \A side \in DOMAIN Border : ~Overlap(BodyBox(world[e][id]), border[side])

\* A paddle is never drawn beyond the field, wherever the mouse is, at neither end.
PaddlesInField ==
    \A e \in Ends : \A id \in {0, 1} \cap Known(e) :
        LET box == DrawnBox(world[e][id])
        IN FieldLeft <= box.left /\ box.right <= FieldRight

\* The client has the host's board: bricks and balls in the same place, a paddle less
\* than a cell from where its player steers it.  The constructors that parse_game_update
\* calls take a corner, the message carries the centre, and a move of less than a cell
\* is not announced; the differences do not add up.
SameBoard ==
    \A id \in Known("client") :
        LET here == world["host"][id]
            there == world["client"][id]
        IN /\ here.kind = there.kind /\ here.y = there.y
           /\ here.kind = "paddle" => here.x < there.x + Unit /\ there.x < here.x + Unit
           /\ here.kind # "paddle" => here.x = there.x

=============================================================================
