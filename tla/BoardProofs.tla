---------------------------- MODULE BoardProofs ----------------------------
(***************************************************************************)
(* Theorems about Board, for any columns in which the mouse is seen: what  *)
(* is drawn and what collides follows from where the elements were put,    *)
(* and a paddle stands, at both ends, where its player steers it to within *)
(* a cell.                                                                 *)
(***************************************************************************)
EXTENDS Board, TLAPS

-----------------------------------------------------------------------------
(* The invariant                                                           *)

\* Where the bounds of update_paddle_position let the centre of a paddle be.
PaddleRange == ((FieldLeft + 7) * Unit) .. ((FieldRight - 7) * Unit)

PaddleElement(id, g) ==
    \E x \in PaddleRange : g = [kind |-> "paddle", x |-> x, y |-> Movables[id].y]

BrickElement(id, g) ==
    \E i \in 0 .. (BricksPerRow - 1), j \in 0 .. (Rows - 1) :
        id = 4 + i * Rows + j /\ g = BrickAt(i, j)

\* What id may stand for at either end.
ElementOf(id, g) ==
    \/ id \in {0, 1} /\ PaddleElement(id, g)
    \/ id \in {2, 3} /\ g = Movables[id]
    \/ BrickElement(id, g)

IsMap(f) == f = [k \in DOMAIN f |-> f[k]]

WorldShape ==
    /\ DOMAIN world = Ends
    /\ \A e \in Ends : IsMap(world[e])
    /\ \A e \in Ends : \A id \in Known(e) : ElementOf(id, world[e][id])

\* How far generate_bricks is, and what it has made.
Progress ==
    /\ column \in 0 .. BricksPerRow
    /\ row \in 0 .. (Rows - 1)
    /\ column = BricksPerRow => row = 0
    /\ \/ Known("host") = {} /\ column = 0 /\ row = 0
       \/ Known("host") = 0 .. (3 + column * Rows + row)
    /\ Known("client") \subseteq Known("host")
    /\ Known("client") # {} => column = BricksPerRow

BorderInv ==
    /\ border = Empty \/ border = Border
    /\ Known("host") # {} => border = Border

\* A paddle is where it started at both ends, or its player has snapped it to a cell and
\* the peer has it less than a cell away.
Snapped(id, mine, theirs) ==
    \/ mine = Movables[id].x /\ theirs = mine
    \/ /\ \E k \in Int : mine = k * Unit
       /\ mine < theirs + Unit /\ theirs < mine + Unit

Steered ==
    /\ Known("client") # 0 .. (NumIds - 1) =>
          \A id \in {0, 1} \cap Known("host") : world["host"][id] = Movables[id]
    /\ \A e \in Ends : OwnPaddle(e) \in Known("client") =>
          Snapped(OwnPaddle(e), world[e][OwnPaddle(e)].x, world[Peer(e)][OwnPaddle(e)].x)

\* What does not move is the same at both ends.
SameStill ==
    \A id \in Known("client") \ {0, 1} : world["client"][id] = world["host"][id]

BoardInv ==
    /\ WorldShape /\ Progress /\ BorderInv /\ Steered /\ SameStill
    /\ mouse \in [Ends -> Int]
-----------------------------------------------------------------------------
(* The numbers that the constants of the game give                         *)

LEMMA Layout ==
    /\ FieldLeft = 1 /\ FieldRight = 165 /\ FieldTop = 5 /\ FieldBottom = 170
    /\ FieldWidth = 164 /\ FieldHeight = 165
    /\ BricksPerRow = 10 /\ NumIds = 64
    /\ LayoutTop = 57 /\ LayoutLeft = 3
    /\ PaddleX = 76 /\ PaddleY = 169 /\ BallX = 83
<1>1. Width.brick = 14 /\ Width.paddle = 14 /\ Height.brick = 5 /\ Height.paddle = 1
  BY DEF Width, Height
<1>2. FieldWidth = 164 /\ FieldHeight = 165
  BY DEF FieldWidth, FieldHeight, FieldLeft, FieldRight, FieldTop, FieldBottom, CanvasWidth
<1>3. BricksPerRow = 10
  BY <1>1, <1>2 DEF BricksPerRow, DistanceX
<1>4. TotalHeight = 51 /\ TotalWidth = 158
  BY <1>1, <1>3 DEF TotalHeight, TotalWidth, DistanceX, DistanceY, Rows
<1>5. LayoutTop = 57 /\ LayoutLeft = 3
  BY <1>2, <1>4 DEF LayoutTop, LayoutLeft, RoundHalf
<1>6. PaddleX = 76 /\ PaddleY = 169
  BY <1>1 DEF PaddleX, PaddleY, CanvasWidth, FieldBottom
<1> QED
  BY <1>1, <1>2, <1>3, <1>5, <1>6
     DEF FieldLeft, FieldRight, FieldTop, FieldBottom, CanvasWidth, NumIds, Rows, BallX

LEMMA PaddleRangeIs ==
    /\ PaddleRange = (8 * Unit) .. (158 * Unit)
    /\ \A x \in PaddleRange : x \in Int /\ 8 * Unit <= x /\ x <= 158 * Unit
<1>1. FieldLeft = 1 /\ FieldRight = 165
  BY DEF FieldLeft, FieldRight, CanvasWidth
<1>2. PaddleRange = (8 * Unit) .. (158 * Unit)
  BY <1>1 DEF PaddleRange
<1> QED
  BY <1>2 DEF Unit

\* The rounding of a whole number of cells.
LEMMA RoundUnitWhole ==
    ASSUME NEW k \in Int
    PROVE  RoundUnit(k * Unit) = k
BY DEF RoundUnit, Unit

LEMMA RoundUnitBounds ==
    ASSUME NEW n \in Int, NEW k \in Nat, NEW m \in Nat, k * Unit <= n, n <= m * Unit
    PROVE  /\ RoundUnit(n) \in Int
           /\ k <= RoundUnit(n) /\ RoundUnit(n) <= m
BY DEF RoundUnit, Unit

LEMMA BrickPlace ==
    ASSUME NEW i \in 0 .. (BricksPerRow - 1), NEW j \in 0 .. (Rows - 1)
    PROVE  BrickAt(i, j) = [kind |-> "brick",
                            x |-> (11 + 16 * i) * Unit,
                            y |-> (62 + 8 * j) * Unit + 5 * (Unit \div 2)]
<1>1. i \in 0 .. 9 /\ j \in 0 .. 5
  BY Layout DEF Rows
<1>2. BrickAt(i, j) = Brick(4 + 16 * i, 62 + 8 * j)
  <2>1. FieldLeft + LayoutLeft + (DistanceX + Width.brick) * i = 4 + 16 * i
    BY <1>1, Layout DEF DistanceX, Width
  <2>2. FieldTop + LayoutTop + (DistanceY + Height.brick) * j = 62 + 8 * j
    BY <1>1, Layout DEF DistanceY, Height
  <2> QED
    BY <2>1, <2>2 DEF BrickAt
<1>3. Brick(4 + 16 * i, 62 + 8 * j)
        = [kind |-> "brick", x |-> (4 + 16 * i) * Unit + 14 * (Unit \div 2),
           y |-> (62 + 8 * j) * Unit + 5 * (Unit \div 2)]
  BY DEF Brick, Construct, Width, Height
<1>4. (4 + 16 * i) * Unit + 14 * (Unit \div 2) = (11 + 16 * i) * Unit
  BY <1>1 DEF Unit
<1> QED
  BY <1>2, <1>3, <1>4

LEMMA MovablePlaces ==
    /\ DOMAIN Movables = 0 .. 3
    /\ Movables[0] = [kind |-> "paddle", x |-> 76 * Unit + 14, y |-> 169 * Unit + 1]
    /\ Movables[1] = [kind |-> "paddle", x |-> 76 * Unit + 14, y |-> 5 * Unit + 1]
    /\ Movables[2] = [kind |-> "ball", x |-> 83 * Unit, y |-> 159 * Unit]
    /\ Movables[3] = [kind |-> "ball", x |-> 83 * Unit, y |-> 15 * Unit]
<1>1. \A x, y \in Int : Paddle(x, y) = [kind |-> "paddle", x |-> x * Unit + 14, y |-> y * Unit + 1]
  BY DEF Paddle, Construct, Width, Height
<1>2. \A x, y \in Int : Ball(x, y) = [kind |-> "ball", x |-> x * Unit, y |-> y * Unit]
  BY DEF Ball, Construct, Width, Height, Unit
<1>3. DOMAIN Movables = 0 .. 3
  BY DEF Movables
<1>4. /\ Movables[0] = Paddle(76, 169) /\ Movables[1] = Paddle(76, 5)
      /\ Movables[2] = Ball(83, 159) /\ Movables[3] = Ball(83, 15)
  BY Layout DEF Movables
<1> QED
  BY <1>1, <1>2, <1>3, <1>4
-----------------------------------------------------------------------------
(* What is drawn and what collides                                         *)

LEMMA BrickDrawn ==
    ASSUME NEW i \in 0 .. (BricksPerRow - 1), NEW j \in 0 .. (Rows - 1)
    PROVE  /\ BrickAt(i, j).kind = "brick"
           /\ DrawnBox(BrickAt(i, j)) = [left |-> 4 + 16 * i, right |-> 18 + 16 * i,
                                         top |-> 62 + 8 * j, bottom |-> 67 + 8 * j]
<1>1. i \in 0 .. 9 /\ j \in 0 .. 5
  BY Layout DEF Rows
<1> DEFINE g == BrickAt(i, j)
<1>2. g = [kind |-> "brick", x |-> (11 + 16 * i) * Unit,
           y |-> (62 + 8 * j) * Unit + 5 * (Unit \div 2)]
  BY BrickPlace
<1>3. g.kind = "brick" /\ Width[g.kind] = 14 /\ Height[g.kind] = 5
  BY <1>2 DEF Width, Height
<1>4. g.x - Width[g.kind] * (Unit \div 2) = (4 + 16 * i) * Unit
  BY <1>1, <1>2, <1>3 DEF Unit
<1>5. g.y - Height[g.kind] * (Unit \div 2) = (62 + 8 * j) * Unit
  BY <1>1, <1>2, <1>3 DEF Unit
<1>6. RoundUnit((4 + 16 * i) * Unit) = 4 + 16 * i /\ RoundUnit((62 + 8 * j) * Unit) = 62 + 8 * j
  BY <1>1, RoundUnitWhole
<1>7. DrawnBox(g) = [left |-> 4 + 16 * i, right |-> (4 + 16 * i) + 14,
                     top |-> 62 + 8 * j, bottom |-> (62 + 8 * j) + 5]
  BY <1>3, <1>4, <1>5, <1>6 DEF DrawnBox
<1> QED
  BY <1>1, <1>3, <1>7

\* The element of an id is of the id's kind.
LEMMA KindOfId ==
    ASSUME NEW id, NEW g, ElementOf(id, g)
    PROVE  /\ g.kind = "brick" => BrickElement(id, g)
           /\ id \in {0, 1} => PaddleElement(id, g)
           /\ id \in {2, 3} => g = Movables[id]
<1>1. BrickElement(id, g) => id \notin {0, 1, 2, 3}
  BY Layout DEF BrickElement, Rows
<1>2. PaddleElement(id, g) => g.kind # "brick"
  BY DEF PaddleElement
<1>3. id \in {2, 3} => Movables[id].kind # "brick"
  BY MovablePlaces
<1> QED
  BY <1>1, <1>2, <1>3 DEF ElementOf

LEMMA BricksApart ==
    ASSUME NEW id, NEW g, BrickElement(id, g),
           NEW other, NEW h, BrickElement(other, h), other # id
    PROVE  ~Overlap(DrawnBox(g), DrawnBox(h))
<1>1. PICK i \in 0 .. (BricksPerRow - 1), j \in 0 .. (Rows - 1) :
          id = 4 + i * Rows + j /\ g = BrickAt(i, j)
  BY DEF BrickElement
<1>2. PICK k \in 0 .. (BricksPerRow - 1), l \in 0 .. (Rows - 1) :
          other = 4 + k * Rows + l /\ h = BrickAt(k, l)
  BY DEF BrickElement
<1>3. i \in 0 .. 9 /\ j \in 0 .. 5 /\ k \in 0 .. 9 /\ l \in 0 .. 5
  BY Layout DEF Rows
<1>4. i # k \/ j # l
  BY <1>1, <1>2
<1>5. /\ DrawnBox(g) = [left |-> 4 + 16 * i, right |-> 18 + 16 * i,
                        top |-> 62 + 8 * j, bottom |-> 67 + 8 * j]
      /\ DrawnBox(h) = [left |-> 4 + 16 * k, right |-> 18 + 16 * k,
                        top |-> 62 + 8 * l, bottom |-> 67 + 8 * l]
  BY <1>1, <1>2, BrickDrawn
<1> QED
  BY <1>3, <1>4, <1>5 DEF Overlap

LEMMA PaddleDrawn ==
    ASSUME NEW id, NEW g, PaddleElement(id, g)
    PROVE  FieldLeft <= DrawnBox(g).left /\ DrawnBox(g).right <= FieldRight
<1>1. PICK x \in PaddleRange : g = [kind |-> "paddle", x |-> x, y |-> Movables[id].y]
  BY DEF PaddleElement
<1>2. x \in Int /\ 8 * Unit <= x /\ x <= 158 * Unit
  BY PaddleRangeIs
<1>3. DrawnBox(g).left = RoundUnit(x - 14 * (Unit \div 2))
      /\ DrawnBox(g).right = DrawnBox(g).left + 14
  BY <1>1 DEF DrawnBox, Width
<1>4. RoundUnit(x - 14 * (Unit \div 2)) \in Int
      /\ 1 <= RoundUnit(x - 14 * (Unit \div 2)) /\ RoundUnit(x - 14 * (Unit \div 2)) <= 151
  <2>1. x - 14 * (Unit \div 2) \in Int /\ 1 * Unit <= x - 14 * (Unit \div 2)
        /\ x - 14 * (Unit \div 2) <= 151 * Unit
    BY <1>2 DEF Unit
  <2>2. 1 \in Nat /\ 151 \in Nat
    OBVIOUS
  <2> HIDE DEF Unit
  <2> QED
    BY <2>1, <2>2, RoundUnitBounds
<1> QED
  BY <1>3, <1>4, Layout

\* The bodies: balls keep to their rows, which nothing else reaches.
BallElement(g) == g = Movables[2] \/ g = Movables[3]

LEMMA BallBody ==
    /\ BodyBox(Movables[2]) = Box(83 * Unit, 159 * Unit, Unit, Unit)
    /\ BodyBox(Movables[3]) = Box(83 * Unit, 15 * Unit, Unit, Unit)
BY MovablePlaces DEF BodyBox

LEMMA BallsApart == ~Overlap(BodyBox(Movables[2]), BodyBox(Movables[3]))
                    /\ ~Overlap(BodyBox(Movables[3]), BodyBox(Movables[2]))
BY BallBody DEF Box, Overlap, Unit

LEMMA BallAndPaddle ==
    ASSUME NEW b, BallElement(b), NEW id \in {0, 1}, NEW g, PaddleElement(id, g)
    PROVE  ~Overlap(BodyBox(b), BodyBox(g))
<1>1. PICK x \in PaddleRange : g = [kind |-> "paddle", x |-> x, y |-> Movables[id].y]
  BY DEF PaddleElement
<1>2. x \in Int /\ (Movables[id].y = 169 * Unit + 1 \/ Movables[id].y = 5 * Unit + 1)
  BY MovablePlaces, PaddleRangeIs
<1>3. BodyBox(g) = Box(x, Movables[id].y, 14 * Unit, 1 * Unit)
  BY <1>1 DEF BodyBox, Width, Height
<1> QED
  BY <1>2, <1>3, BallBody DEF BallElement, Box, Overlap, Unit

LEMMA BallAndBrick ==
    ASSUME NEW b, BallElement(b), NEW id, NEW g, BrickElement(id, g)
    PROVE  ~Overlap(BodyBox(b), BodyBox(g))
<1>1. PICK i \in 0 .. (BricksPerRow - 1), j \in 0 .. (Rows - 1) : g = BrickAt(i, j)
  BY DEF BrickElement
<1>2. i \in 0 .. 9 /\ j \in 0 .. 5
  BY Layout DEF Rows
<1>3. g = [kind |-> "brick", x |-> (11 + 16 * i) * Unit,
           y |-> (62 + 8 * j) * Unit + 5 * (Unit \div 2)]
  BY <1>1, BrickPlace
<1>4. BodyBox(g) = Box((11 + 16 * i) * Unit, (62 + 8 * j) * Unit + 5 * (Unit \div 2),
                       14 * Unit, 5 * Unit)
  BY <1>3 DEF BodyBox, Width, Height
<1> QED
  BY <1>2, <1>4, BallBody DEF BallElement, Box, Overlap, Unit

LEMMA Walls ==
    /\ Border.left = Box(-Unit, -(7 * Unit), Unit, 189 * Unit)
    /\ Border.right = Box(166 * Unit, -(7 * Unit), Unit, 189 * Unit)
    /\ Border.top = Box(-Unit, -(6 * Unit), 168 * Unit, Unit)
    /\ Border.bottom = Box(-Unit, 180 * Unit, 168 * Unit, Unit)
    /\ DOMAIN Border = {"left", "right", "top", "bottom"}
<1>1. DOMAIN Border = {"left", "right", "top", "bottom"}
  BY DEF Border
<1>2. /\ Border.left = Wall(-1, -7, 1, 189) /\ Border.right = Wall(166, -7, 1, 189)
      /\ Border.top = Wall(-1, -6, 168, 1) /\ Border.bottom = Wall(-1, 180, 168, 1)
  BY Layout DEF Border
<1> QED
  BY <1>1, <1>2 DEF Wall, Unit

LEMMA BallAndWall ==
    ASSUME NEW b, BallElement(b), NEW side \in DOMAIN Border
    PROVE  ~Overlap(BodyBox(b), Border[side])
BY Walls, BallBody DEF BallElement, Box, Overlap, Unit
-----------------------------------------------------------------------------
(* What the invariant says of the properties                               *)

LEMMA DrawnApart ==
    ASSUME BoardInv
    PROVE  BricksDrawnApart
<1> SUFFICES ASSUME NEW e \in Ends, NEW id \in Known(e), world[e][id].kind = "brick"
             PROVE  LET box == DrawnBox(world[e][id])
                    IN /\ FieldLeft <= box.left /\ box.right <= FieldRight
                       /\ FieldTop <= box.top /\ box.bottom <= FieldBottom
                       /\ \A k \in Known(e) \ {id} :
                             world[e][k].kind = "brick" => ~Overlap(box, DrawnBox(world[e][k]))
  BY DEF BricksDrawnApart
<1> DEFINE g == world[e][id]
           box == DrawnBox(g)
<1>1. \A k \in Known(e) : world[e][k].kind = "brick" => BrickElement(k, world[e][k])
  BY KindOfId DEF BoardInv, WorldShape
<1>2. PICK i \in 0 .. (BricksPerRow - 1), j \in 0 .. (Rows - 1) : g = BrickAt(i, j)
  BY <1>1 DEF BrickElement
<1>3. i \in 0 .. 9 /\ j \in 0 .. 5
  BY Layout DEF Rows
<1>4. box = [left |-> 4 + 16 * i, right |-> 18 + 16 * i,
             top |-> 62 + 8 * j, bottom |-> 67 + 8 * j]
  BY <1>2, BrickDrawn
<1>5. /\ FieldLeft <= box.left /\ box.right <= FieldRight
      /\ FieldTop <= box.top /\ box.bottom <= FieldBottom
  BY <1>3, <1>4, Layout
<1>6. \A k \in Known(e) \ {id} :
          world[e][k].kind = "brick" => ~Overlap(box, DrawnBox(world[e][k]))
  BY <1>1, BricksApart
<1> QED
  BY <1>5, <1>6

LEMMA Closed ==
    ASSUME BoardInv
    PROVE  FieldIsClosed
<1> SUFFICES ASSUME Built PROVE FieldIsClosed
  BY DEF FieldIsClosed
<1>1. border = Border
  BY DEF BoardInv, BorderInv, Built, Empty
<1> QED
  BY <1>1, Walls, Layout DEF FieldIsClosed, Overlap, Box, Unit

LEMMA StartFree ==
    ASSUME BoardInv
    PROVE  BallsStartFree
<1> SUFFICES ASSUME NEW e \in Ends, NEW id \in {2, 3} \cap Known(e)
             PROVE  /\ \A k \in Known(e) \ {id} :
                          ~Overlap(BodyBox(world[e][id]), BodyBox(world[e][k]))
                    /\ \A side \in DOMAIN Border :
                          ~Overlap(BodyBox(world[e][id]), border[side])
  BY DEF BallsStartFree
<1>1. \A k \in Known(e) : ElementOf(k, world[e][k])
  BY DEF BoardInv, WorldShape
<1>2. BallElement(world[e][id]) /\ world[e][id] = Movables[id]
  BY <1>1, KindOfId DEF BallElement
<1>3. ASSUME NEW k \in Known(e) \ {id}
      PROVE  ~Overlap(BodyBox(world[e][id]), BodyBox(world[e][k]))
  <2>1. CASE k \in {0, 1}
    BY <1>1, <1>2, <2>1, KindOfId, BallAndPaddle
  <2>2. CASE k \in {2, 3}
    <3>1. world[e][k] = Movables[k]
      BY <1>1, <2>2, KindOfId
    <3>2. (id = 2 /\ k = 3) \/ (id = 3 /\ k = 2)
      BY <2>2
    <3> QED
      BY <1>2, <3>1, <3>2, BallsApart
  <2>3. CASE k \notin {0, 1, 2, 3}
    <3>1. BrickElement(k, world[e][k])
      BY <1>1, <2>3 DEF ElementOf
    <3> QED
      BY <1>2, <3>1, BallAndBrick
  <2> QED
    BY <2>1, <2>2, <2>3
<1>4. border = Border
  <2>1. Known("host") # {}
    BY DEF BoardInv, Progress, Ends
  <2> QED
    BY <2>1 DEF BoardInv, BorderInv
<1>5. \A side \in DOMAIN Border : ~Overlap(BodyBox(world[e][id]), border[side])
  BY <1>2, <1>4, BallAndWall
<1> QED
  BY <1>3, <1>5

LEMMA InField ==
    ASSUME BoardInv
    PROVE  PaddlesInField
<1> SUFFICES ASSUME NEW e \in Ends, NEW id \in {0, 1} \cap Known(e)
             PROVE  FieldLeft <= DrawnBox(world[e][id]).left
                    /\ DrawnBox(world[e][id]).right <= FieldRight
  BY DEF PaddlesInField
<1>1. PaddleElement(id, world[e][id])
  BY KindOfId DEF BoardInv, WorldShape
<1> QED
  BY <1>1, PaddleDrawn

LEMMA Same ==
    ASSUME BoardInv
    PROVE  SameBoard
<1> SUFFICES ASSUME NEW id \in Known("client")
             PROVE  LET here == world["host"][id]
                        there == world["client"][id]
                    IN /\ here.kind = there.kind /\ here.y = there.y
                       /\ here.kind = "paddle" =>
                             here.x < there.x + Unit /\ there.x < here.x + Unit
                       /\ here.kind # "paddle" => here.x = there.x
  BY DEF SameBoard
<1>1. id \in Known("host") /\ "host" \in Ends /\ "client" \in Ends
  BY DEF BoardInv, Progress, Ends
<1>2. ElementOf(id, world["host"][id]) /\ ElementOf(id, world["client"][id])
  BY <1>1 DEF BoardInv, WorldShape
<1>3. CASE id \in {0, 1}
  <2>1. PaddleElement(id, world["host"][id]) /\ PaddleElement(id, world["client"][id])
    BY <1>2, <1>3, KindOfId
  <2>2. PICK x \in PaddleRange :
            world["host"][id] = [kind |-> "paddle", x |-> x, y |-> Movables[id].y]
    BY <2>1 DEF PaddleElement
  <2>3. PICK z \in PaddleRange :
            world["client"][id] = [kind |-> "paddle", x |-> z, y |-> Movables[id].y]
    BY <2>1 DEF PaddleElement
  <2>4. x \in Int /\ z \in Int
    BY PaddleRangeIs
  <2>5. \E e \in Ends : id = OwnPaddle(e)
                        /\ Snapped(id, world[e][id].x, world[Peer(e)][id].x)
    BY <1>3 DEF BoardInv, Steered, Ends, OwnPaddle
  <2>6. x < z + Unit /\ z < x + Unit
    BY <2>2, <2>3, <2>4, <2>5 DEF Snapped, Ends, Peer, Unit
  <2> QED
    BY <2>2, <2>3, <2>6
<1>4. CASE id \notin {0, 1}
  <2>1. world["client"][id] = world["host"][id]
    BY <1>4 DEF BoardInv, SameStill
  <2>2. world["host"][id].kind # "paddle"
    <3>1. CASE id \in {2, 3}
      BY <1>2, <3>1, KindOfId, MovablePlaces
    <3>2. CASE id \notin {2, 3}
      <4>1. BrickElement(id, world["host"][id])
        BY <1>2, <1>4, <3>2 DEF ElementOf
      <4> QED
        BY <4>1, BrickDrawn DEF BrickElement
    <3> QED
      BY <3>1, <3>2
  <2> QED
    BY <2>1, <2>2
<1> QED
  BY <1>3, <1>4
-----------------------------------------------------------------------------
(* The steps                                                               *)

LEMMA InsertShape ==
    \A map, id, g :
        /\ DOMAIN Insert(map, id, g) = DOMAIN map \cup {id}
        /\ IsMap(Insert(map, id, g))
        /\ Insert(map, id, g)[id] = g
        /\ \A k \in DOMAIN map : k # id => Insert(map, id, g)[k] = map[k]
BY DEF Insert, IsMap

LEMMA EndsAre ==
    /\ Ends = {"host", "client"} /\ "host" # "client"
    /\ Peer("host") = "client" /\ Peer("client") = "host"
    /\ OwnPaddle("host") = 0 /\ OwnPaddle("client") = 1
BY DEF Ends, Peer, OwnPaddle

LEMMA InitBoard == Init => BoardInv
<1> SUFFICES ASSUME Init PROVE BoardInv
  OBVIOUS
<1>1. \A e \in Ends : world[e] = Empty /\ Known(e) = {}
  BY DEF Init, Empty, Known
<1>2. WorldShape
  BY <1>1 DEF WorldShape, Init, Empty, IsMap
<1>3. Progress
  BY <1>1, Layout, EndsAre DEF Progress, Init, Rows
<1>4. BorderInv
  BY <1>1, EndsAre DEF BorderInv, Init
<1>5. Steered
  BY <1>1, EndsAre DEF Steered
<1>6. SameStill
  BY <1>1, EndsAre DEF SameStill
<1>7. mouse \in [Ends -> Int]
  BY Layout DEF Init
<1> QED
  BY <1>2, <1>3, <1>4, <1>5, <1>6, <1>7 DEF BoardInv

LEMMA BuildBorderStep ==
    ASSUME BoardInv, BuildBorder
    PROVE  BoardInv'
BY DEF BuildBorder, BoardInv, WorldShape, Progress, BorderInv, Steered, SameStill, Snapped, Known

\* Where a paddle starts is where the mouse may bring it.
LEMMA MovableElement ==
    ASSUME NEW id \in 0 .. 3
    PROVE  ElementOf(id, Movables[id])
<1>1. CASE id \in {0, 1}
  <2>1. 76 * Unit + 14 \in PaddleRange
    BY PaddleRangeIs DEF Unit
  <2>2. Movables[id] = [kind |-> "paddle", x |-> 76 * Unit + 14, y |-> Movables[id].y]
    BY <1>1, MovablePlaces
  <2>3. PaddleElement(id, Movables[id])
    BY <2>1, <2>2 DEF PaddleElement
  <2> QED
    BY <1>1, <2>3 DEF ElementOf
<1>2. CASE id \in {2, 3}
  BY <1>2 DEF ElementOf
<1> QED
  BY <1>1, <1>2

LEMMA GenerateMovablesStep ==
    ASSUME BoardInv, GenerateMovables
    PROVE  BoardInv'
<1>1. /\ world'["host"] = Movables /\ world'["client"] = world["client"]
      /\ DOMAIN world' = Ends
      /\ UNCHANGED <<border, column, row, mouse>>
  BY EndsAre DEF BoardInv, WorldShape, GenerateMovables
<1>2. Known("client") = {} /\ Known("client")' = {} /\ Known("host")' = 0 .. 3
  BY <1>1, MovablePlaces DEF BoardInv, Progress, GenerateMovables, Known
<1>3. column = 0 /\ row = 0
  <2>1. column \in 0 .. 10 /\ row \in 0 .. 5
    BY Layout DEF BoardInv, Progress, Rows
  <2>2. 0 \in 0 .. (3 + column * Rows + row)
    BY <2>1 DEF Rows
  <2> QED
    BY <2>2 DEF BoardInv, Progress, GenerateMovables
<1>4. WorldShape'
  <2>1. Movables = [id \in DOMAIN Movables |-> Movables[id]]
    BY DEF Movables
  <2>2. \A e \in Ends : IsMap(world'[e])
    BY <1>1, <2>1, EndsAre DEF BoardInv, WorldShape, IsMap
  <2>3. \A e \in Ends : \A id \in Known(e)' : ElementOf(id, world'[e][id])
    BY <1>1, <1>2, MovableElement, EndsAre
  <2> QED
    BY <1>1, <2>2, <2>3 DEF WorldShape
<1>5. Progress'
  <2>1. 0 .. 3 = 0 .. (3 + column * Rows + row)
    BY <1>3 DEF Rows
  <2> QED
    BY <1>1, <1>2, <1>3, <2>1 DEF BoardInv, Progress
<1>6. BorderInv'
  BY <1>1 DEF BoardInv, BorderInv, GenerateMovables, Built, Empty
<1>7. Steered'
  BY <1>1, <1>2, EndsAre DEF Steered
<1>8. SameStill'
  BY <1>2 DEF SameStill
<1> QED
  BY <1>1, <1>4, <1>5, <1>6, <1>7, <1>8 DEF BoardInv

LEMMA GenerateBrickStep ==
    ASSUME BoardInv, GenerateBrick
    PROVE  BoardInv'
<1> DEFINE new == 4 + column * Rows + row
           brick == BrickAt(column, row)
<1>1. /\ world'["host"] = Insert(world["host"], new, brick)
      /\ world'["client"] = world["client"]
      /\ DOMAIN world' = Ends
      /\ UNCHANGED <<border, mouse>>
  BY EndsAre DEF BoardInv, WorldShape, GenerateBrick
<1>2. column \in 0 .. 9 /\ row \in 0 .. 5
  BY Layout DEF BoardInv, Progress, GenerateBrick, Rows
<1>3. Known("client") = {} /\ Known("client")' = {}
  BY <1>1, <1>2, Layout DEF BoardInv, Progress, Known
<1>4. Known("host") = 0 .. (3 + column * Rows + row)
  BY DEF BoardInv, Progress, GenerateBrick
<1>5. /\ Known("host")' = Known("host") \cup {new}
      /\ IsMap(world'["host"])
      /\ world'["host"][new] = brick
      /\ \A k \in Known("host") : world'["host"][k] = world["host"][k]
  <2>1. new \notin Known("host")
    BY <1>2, <1>4 DEF Rows
  <2> HIDE DEF new, brick
  <2>2. DOMAIN world'["host"] = DOMAIN world["host"] \cup {new}
    <3>1. DOMAIN Insert(world["host"], new, brick) = DOMAIN world["host"] \cup {new}
      BY InsertShape, Zenon
    <3>2. world'["host"] = Insert(world["host"], new, brick)
      BY <1>1
    <3> QED
      BY <3>1, <3>2, Zenon
  <2>3. IsMap(world'["host"])
    BY <1>1, InsertShape
  <2>4. world'["host"][new] = brick
    BY <1>1, InsertShape
  <2>5. \A k \in DOMAIN world["host"] : k # new => world'["host"][k] = world["host"][k]
    BY <1>1, InsertShape
  <2> QED
    BY <2>1, <2>2, <2>3, <2>4, <2>5 DEF Known
<1>6. WorldShape'
  <2>1. \A e \in Ends : IsMap(world'[e])
    BY <1>1, <1>5, EndsAre DEF BoardInv, WorldShape
  <2>2. BrickElement(new, brick)
    <3>1. column \in 0 .. (BricksPerRow - 1) /\ row \in 0 .. (Rows - 1)
      BY <1>2, Layout DEF Rows
    <3> QED
      BY <3>1 DEF BrickElement
  <2>3. \A id \in Known("host")' : ElementOf(id, world'["host"][id])
    BY <1>5, <2>2, EndsAre DEF BoardInv, WorldShape, ElementOf
  <2>4. \A e \in Ends : \A id \in Known(e)' : ElementOf(id, world'[e][id])
    BY <1>3, <2>3, EndsAre
  <2> QED
    BY <1>1, <2>1, <2>4 DEF WorldShape
<1>7. /\ column' \in 0 .. BricksPerRow /\ row' \in 0 .. (Rows - 1)
      /\ column' = BricksPerRow => row' = 0
      /\ column' * Rows + row' = column * Rows + row + 1
  <2>1. row' = (row + 1) % Rows /\ column' = IF row' = 0 THEN column + 1 ELSE column
    BY DEF GenerateBrick
  <2>2. CASE row = 5
    <3>1. row' = 0 /\ column' = column + 1
      BY <2>1, <2>2 DEF Rows
    <3> QED
      BY <1>2, <2>2, <3>1, Layout DEF Rows
  <2>3. CASE row # 5
    <3>1. row' = row + 1 /\ column' = column
      BY <1>2, <2>1, <2>3 DEF Rows
    <3> QED
      BY <1>2, <2>3, <3>1, Layout DEF Rows
  <2> QED
    BY <2>2, <2>3
<1>8. Progress'
  <2>1. column' * Rows + row' = column * Rows + row + 1
    BY <1>7
  <2>2. 3 + column' * Rows + row' = 3 + (column' * Rows + row')
    <3>1. BricksPerRow \in Int
      BY Layout
    <3>2. column' \in Int /\ row' \in Int
      BY <1>7, <3>1 DEF Rows
    <3> QED
      BY <3>2 DEF Rows
  <2>3. 3 + column' * Rows + row' = new /\ new \in Nat
    BY <1>2, <2>1, <2>2 DEF Rows
  <2>4. (0 .. (3 + column * Rows + row)) \cup {new} = 0 .. new
    BY <1>2 DEF Rows
  <2>5. Known("host")' = 0 .. (3 + column' * Rows + row')
    BY <1>4, <1>5, <2>3, <2>4
  <2> QED
    BY <1>3, <1>7, <2>5 DEF Progress
<1>9. BorderInv'
  BY <1>1, <1>4, <1>2 DEF BoardInv, BorderInv, GenerateBrick
<1>10. Steered'
  <2>1. Known("client") # 0 .. (NumIds - 1)
    BY <1>3, Layout
  <2>2. \A id \in {0, 1} : id \in Known("host")' => id \in Known("host")
    BY <1>2, <1>5 DEF Rows
  <2> QED
    BY <1>3, <1>5, <2>1, <2>2, EndsAre DEF BoardInv, Steered
<1>11. SameStill'
  BY <1>3 DEF SameStill
<1> QED
  BY <1>1, <1>6, <1>8, <1>9, <1>10, <1>11 DEF BoardInv
\* parse_game_update gives the new element what the message says.
LEMMA ParseSame ==
    ASSUME NEW id, NEW g, ElementOf(id, g)
    PROVE  ParseNew(g) = g
<1>1. g \in [kind : {"paddle", "brick", "ball"}, x : Int, y : Int]
  <2>1. CASE id \in {0, 1} /\ PaddleElement(id, g)
    <3>1. PICK x \in PaddleRange : g = [kind |-> "paddle", x |-> x, y |-> Movables[id].y]
      BY <2>1 DEF PaddleElement
    <3>2. x \in Int /\ Movables[id].y \in Int
      <4>1. x \in Int
        BY PaddleRangeIs
      <4>2. Movables[0].y \in Int /\ Movables[1].y \in Int
        BY MovablePlaces DEF Unit
      <4>3. id = 0 \/ id = 1
        BY <2>1
      <4> QED
        BY <4>1, <4>2, <4>3
    <3> QED
      BY <3>1, <3>2
  <2>2. CASE id = 2 /\ g = Movables[2]
    BY <2>2, MovablePlaces DEF Unit
  <2>3. CASE id = 3 /\ g = Movables[3]
    BY <2>3, MovablePlaces DEF Unit
  <2>4. CASE BrickElement(id, g)
    <3>1. PICK i \in 0 .. (BricksPerRow - 1), j \in 0 .. (Rows - 1) : g = BrickAt(i, j)
      BY <2>4 DEF BrickElement
    <3>2. i \in Int /\ j \in Int
      BY Layout DEF Rows
    <3> QED
      BY <3>1, <3>2, BrickPlace DEF Unit
  <2> QED
    BY <2>1, <2>2, <2>3, <2>4 DEF ElementOf
<1> DEFINE c == Construct(g.kind, g.x, g.y)
<1>2. PICK a \in Int, b \in Int : c = [kind |-> g.kind, x |-> a, y |-> b]
  BY <1>1 DEF Construct, Width, Height, Unit
<1>3. [c EXCEPT !.x = g.x, !.y = g.y] = [kind |-> g.kind, x |-> g.x, y |-> g.y]
  <2>1. g.kind \in {"paddle", "brick", "ball"} /\ g.x \in Int /\ g.y \in Int
    BY <1>1
  <2>2. \A k \in {"paddle", "brick", "ball"}, x \in Int :
            [[kind |-> k, x |-> a, y |-> b] EXCEPT !.x = x] = [kind |-> k, x |-> x, y |-> b]
    OBVIOUS
  <2>3. \A k \in {"paddle", "brick", "ball"}, x \in Int, y \in Int :
            [[kind |-> k, x |-> x, y |-> b] EXCEPT !.y = y] = [kind |-> k, x |-> x, y |-> y]
    OBVIOUS
  <2>4. [c EXCEPT !.x = g.x, !.y = g.y] = [[c EXCEPT !.x = g.x] EXCEPT !.y = g.y]
    OBVIOUS
  <2> HIDE DEF c
  <2>5. [c EXCEPT !.x = g.x] = [kind |-> g.kind, x |-> g.x, y |-> b]
    BY <1>2, <2>1, <2>2
  <2>6. [c EXCEPT !.x = g.x, !.y = g.y]
          = [[kind |-> g.kind, x |-> g.x, y |-> b] EXCEPT !.y = g.y]
    BY <2>4, <2>5, Zenon
  <2>7. [[kind |-> g.kind, x |-> g.x, y |-> b] EXCEPT !.y = g.y]
          = [kind |-> g.kind, x |-> g.x, y |-> g.y]
    BY <2>1, <2>3
  <2> QED
    BY <2>6, <2>7, Zenon
<1>4. [kind |-> g.kind, x |-> g.x, y |-> g.y] = g
  BY <1>1
<1> QED
  BY <1>3, <1>4 DEF ParseNew

LEMMA ParseElementStep ==
    ASSUME BoardInv, ParseElement
    PROVE  BoardInv'
<1>1. PICK id \in Known("host") \ Known("client") :
          world' = [world EXCEPT !["client"] = Insert(@, id, ParseNew(world["host"][id]))]
  BY DEF ParseElement
<1>2. column = BricksPerRow /\ UNCHANGED <<border, column, row, mouse>>
  BY DEF ParseElement
<1> DEFINE g == world["host"][id]
<1>3. ElementOf(id, g) /\ ParseNew(g) = g
  <2>1. ElementOf(id, g)
    BY EndsAre DEF BoardInv, WorldShape
  <2> QED
    BY <2>1, ParseSame
<1>4. /\ world'["host"] = world["host"]
      /\ world'["client"] = Insert(world["client"], id, g)
      /\ DOMAIN world' = Ends
  BY <1>1, <1>3, EndsAre DEF BoardInv, WorldShape
<1>5. /\ DOMAIN world'["client"] = DOMAIN world["client"] \cup {id}
      /\ IsMap(world'["client"])
      /\ world'["client"][id] = g
      /\ \A k \in DOMAIN world["client"] : k # id => world'["client"][k] = world["client"][k]
  <2> HIDE DEF g
  <2>1. DOMAIN Insert(world["client"], id, g) = DOMAIN world["client"] \cup {id}
    BY InsertShape, Zenon
  <2>2. DOMAIN world'["client"] = DOMAIN world["client"] \cup {id}
    BY <1>4, <2>1, Zenon
  <2>3. IsMap(world'["client"])
    BY <1>4, InsertShape
  <2>4. world'["client"][id] = g
    BY <1>4, InsertShape
  <2>5. \A k \in DOMAIN world["client"] : k # id => world'["client"][k] = world["client"][k]
    BY <1>4, InsertShape
  <2> QED
    BY <2>2, <2>3, <2>4, <2>5
<1>6. /\ Known("host")' = Known("host")
      /\ Known("client")' = Known("client") \cup {id}
      /\ id \in Known("host") /\ id \notin Known("client")
  BY <1>4, <1>5 DEF Known
<1>7. Known("host") = 0 .. (NumIds - 1)
  <2>1. row = 0 /\ column = 10
    BY <1>2, Layout DEF BoardInv, Progress
  <2>2. Known("host") = 0 .. (3 + column * Rows + row)
    BY <2>1 DEF BoardInv, Progress
  <2>3. 3 + column * Rows + row = NumIds - 1
    BY <2>1, Layout DEF Rows
  <2> QED
    BY <2>2, <2>3
<1>8. WorldShape'
  <2>1. \A e \in Ends : IsMap(world'[e])
    BY <1>4, <1>5, EndsAre DEF BoardInv, WorldShape
  <2>2. \A k \in Known("host") : ElementOf(k, world["host"][k])
    BY EndsAre DEF BoardInv, WorldShape
  <2>3. \A k \in Known("client") : ElementOf(k, world["client"][k])
    BY EndsAre DEF BoardInv, WorldShape
  <2>4. \A k \in Known("client")' : ElementOf(k, world'["client"][k])
    BY <1>3, <1>5, <1>6, <2>3 DEF Known
  <2>5. \A k \in Known("host")' : ElementOf(k, world'["host"][k])
    BY <1>4, <1>6, <2>2
  <2> QED
    BY <1>4, <2>1, <2>4, <2>5, EndsAre DEF WorldShape
<1>9. Progress'
  BY <1>2, <1>6 DEF BoardInv, Progress
<1>10. BorderInv'
  BY <1>2, <1>6 DEF BoardInv, BorderInv
<1>11. Steered'
  <2>1. \A k \in {0, 1} \cap Known("host") : world["host"][k] = Movables[k]
    BY <1>6, <1>7 DEF BoardInv, Steered
  <2>2. ASSUME NEW e \in Ends, OwnPaddle(e) \in Known("client")'
        PROVE  Snapped(OwnPaddle(e), world'[e][OwnPaddle(e)].x, world'[Peer(e)][OwnPaddle(e)].x)
    <3>1. OwnPaddle(e) \in {0, 1}
      BY DEF OwnPaddle
    <3>2. CASE OwnPaddle(e) = id
      <4>1. world'["client"][id] = Movables[id] /\ world'["host"][id] = Movables[id]
        BY <1>4, <1>5, <1>6, <2>1, <3>1, <3>2
      <4>2. world'[e][id] = Movables[id] /\ world'[Peer(e)][id] = Movables[id]
        BY <4>1, EndsAre
      <4> QED
        BY <3>2, <4>2 DEF Snapped
    <3>3. CASE OwnPaddle(e) # id
      <4>1. OwnPaddle(e) \in Known("client")
        BY <1>6, <2>2, <3>3
      <4>2. Snapped(OwnPaddle(e), world[e][OwnPaddle(e)].x, world[Peer(e)][OwnPaddle(e)].x)
        BY <4>1 DEF BoardInv, Steered
      <4>3. world'["client"][OwnPaddle(e)] = world["client"][OwnPaddle(e)]
        BY <1>5, <3>3, <4>1 DEF Known
      <4>4. /\ world'[e][OwnPaddle(e)] = world[e][OwnPaddle(e)]
            /\ world'[Peer(e)][OwnPaddle(e)] = world[Peer(e)][OwnPaddle(e)]
        BY <1>4, <4>3, EndsAre
      <4> QED
        BY <4>2, <4>4
    <3> QED
      BY <3>2, <3>3
  <2> QED
    BY <1>4, <1>6, <2>1, <2>2 DEF Steered
<1>12. SameStill'
  <2>1. ASSUME NEW k \in Known("client")' \ {0, 1} PROVE world'["client"][k] = world'["host"][k]
    <3>1. CASE k = id
      BY <1>4, <1>5, <3>1
    <3>2. CASE k # id
      <4>1. k \in Known("client")
        BY <1>6, <3>2
      <4> QED
        BY <1>4, <1>5, <3>2, <4>1 DEF BoardInv, SameStill, Known
    <3> QED
      BY <3>1, <3>2
  <2> QED
    BY <2>1 DEF SameStill
<1> QED
  BY <1>2, <1>8, <1>9, <1>10, <1>11, <1>12 DEF BoardInv

\* The bounds of update_paddle_position.
LEMMA ClampRange ==
    ASSUME NEW x \in Int
    PROVE  Clamp(x) \in Int /\ Clamp(x) * Unit \in PaddleRange
<1>1. FieldLeft = 1 /\ FieldRight = 165 /\ Width.paddle \div 2 = 7
  BY DEF FieldLeft, FieldRight, CanvasWidth, Width
<1>2. Clamp(x) \in 8 .. 158
  BY <1>1 DEF Clamp
<1>3. \A y \in 8 .. 158 : y * Unit \in (8 * Unit) .. (158 * Unit)
  BY DEF Unit
<1>4. Clamp(x) * Unit \in (8 * Unit) .. (158 * Unit)
  BY <1>2, <1>3
<1>5. Clamp(x) \in Int
  BY <1>2
<1> QED
  BY <1>4, <1>5, PaddleRangeIs

\* A paddle that is set to a cell: it stands there at both ends, or its peer has it less
\* than a cell away.  A paddle that its player has snapped to a cell before moves by
\* whole cells, and update_x marks such a move; this is why differences do not add up.
LEMMA SnappedByMove ==
    ASSUME NEW id \in {0, 1}, NEW mine \in Int, NEW theirs \in Int, Snapped(id, mine, theirs),
           NEW new \in Int, ~Moved(mine, new)
    PROVE  new * Unit < theirs + Unit /\ theirs < new * Unit + Unit
<1>1. mine < (new + 1) * Unit /\ (new - 1) * Unit < mine
  BY DEF Moved, Unit
<1>2. CASE theirs = mine
  BY <1>1, <1>2 DEF Unit
<1>3. CASE (\E k \in Int : mine = k * Unit) /\ mine < theirs + Unit /\ theirs < mine + Unit
  <2>1. PICK k \in Int : mine = k * Unit
    BY <1>3
  <2>2. k = new
    BY <1>1, <2>1 DEF Unit
  <2> QED
    BY <1>3, <2>1, <2>2
<1> QED
  BY <1>2, <1>3 DEF Snapped

LEMMA FrameStep ==
    ASSUME BoardInv, NEW e \in Ends, Frame(e)
    PROVE  BoardInv'
<1> DEFINE id == OwnPaddle(e)
           old == world[e][id].x
<1>1. PICK x \in {mouse[e]} \cup {2 * (c - 1) : c \in Columns} :
          /\ mouse' = [mouse EXCEPT ![e] = x]
          /\ world' = IF Moved(old, Clamp(x))
                      THEN [end \in Ends |-> [world[end] EXCEPT ![id].x = Clamp(x) * Unit]]
                      ELSE [world EXCEPT ![e][id].x = Clamp(x) * Unit]
  BY DEF Frame
<1> DEFINE new == Clamp(x)
<1>2. x \in Int /\ new \in Int /\ new * Unit \in PaddleRange
  <2>1. x \in Int
    BY BoardAssumption DEF BoardInv
  <2> QED
    BY <2>1, ClampRange
<1>3. /\ Known("client") = 0 .. (NumIds - 1) /\ Known("client") \subseteq Known("host")
      /\ UNCHANGED <<border, column, row>>
  BY DEF Frame, BoardInv, Progress
<1>4. id \in {0, 1} /\ \A end \in Ends : id \in DOMAIN world[end]
  <2>1. 0 \in 0 .. (NumIds - 1) /\ 1 \in 0 .. (NumIds - 1)
    BY Layout
  <2>2. id \in {0, 1}
    BY DEF OwnPaddle
  <2> QED
    BY <1>3, <2>1, <2>2, EndsAre DEF Known
<1> DEFINE Put(w) == [w EXCEPT ![id].x = new * Unit]
<1>5. \A end \in Ends : world'[end] \in {world[end], Put(world[end])}
  BY <1>1 DEF BoardInv, WorldShape
<1>6. world'[e] = Put(world[e]) /\ DOMAIN world' = Ends
  BY <1>1 DEF BoardInv, WorldShape
<1>7. Moved(old, new) => world'[Peer(e)] = Put(world[Peer(e)])
  BY <1>1, EndsAre
<1>8. ~Moved(old, new) => world'[Peer(e)] = world[Peer(e)]
  BY <1>1, EndsAre DEF BoardInv, WorldShape
<1>9. \A end \in Ends : PaddleElement(id, world[end][id])
  <2> SUFFICES ASSUME NEW end \in Ends PROVE PaddleElement(id, world[end][id])
    OBVIOUS
  <2>1. ElementOf(id, world[end][id])
    BY <1>4 DEF BoardInv, WorldShape, Known
  <2> QED
    BY <1>4, <2>1, KindOfId
<1>10. ASSUME NEW w, IsMap(w), id \in DOMAIN w, PaddleElement(id, w[id])
       PROVE  /\ IsMap(Put(w)) /\ DOMAIN Put(w) = DOMAIN w
              /\ \A k \in DOMAIN w : k # id => Put(w)[k] = w[k]
              /\ Put(w)[id] = [kind |-> "paddle", x |-> new * Unit, y |-> Movables[id].y]
  <2>1. PICK z \in PaddleRange : w[id] = [kind |-> "paddle", x |-> z, y |-> Movables[id].y]
    BY <1>10 DEF PaddleElement
  <2>2. [w[id] EXCEPT !.x = new * Unit]
          = [kind |-> "paddle", x |-> new * Unit, y |-> Movables[id].y]
    BY <2>1
  <2>3. Put(w) = [k \in DOMAIN w |-> IF k = id THEN [w[id] EXCEPT !.x = new * Unit] ELSE w[k]]
    BY <1>10 DEF IsMap
  <2> HIDE DEF new, Put
  <2> QED
    BY <1>10, <2>2, <2>3 DEF IsMap
<1> HIDE DEF new, Put
<1>11. \A end \in Ends :
          /\ IsMap(world'[end]) /\ Known(end)' = Known(end)
          /\ \A k \in Known(end) : k # id => world'[end][k] = world[end][k]
          /\ PaddleElement(id, world'[end][id])
  <2> SUFFICES ASSUME NEW end \in Ends
               PROVE  /\ IsMap(world'[end]) /\ Known(end)' = Known(end)
                      /\ \A k \in Known(end) : k # id => world'[end][k] = world[end][k]
                      /\ PaddleElement(id, world'[end][id])
    OBVIOUS
  <2>1. CASE world'[end] = world[end]
    BY <1>9, <2>1 DEF BoardInv, WorldShape, Known
  <2>2. CASE world'[end] = Put(world[end])
    <3>1. IsMap(world[end]) /\ id \in DOMAIN world[end] /\ PaddleElement(id, world[end][id])
      BY <1>4, <1>9 DEF BoardInv, WorldShape
    <3>2. /\ IsMap(Put(world[end])) /\ DOMAIN Put(world[end]) = DOMAIN world[end]
          /\ \A k \in DOMAIN world[end] : k # id => Put(world[end])[k] = world[end][k]
          /\ Put(world[end])[id] = [kind |-> "paddle", x |-> new * Unit, y |-> Movables[id].y]
      BY <1>10, <3>1
    <3> QED
      BY <1>2, <2>2, <3>2 DEF Known, PaddleElement
  <2> QED
    BY <1>5, <2>1, <2>2
<1>12. WorldShape'
  <2>1. ASSUME NEW end \in Ends, NEW k \in Known(end)' PROVE ElementOf(k, world'[end][k])
    <3>1. CASE k = id
      BY <1>4, <1>11, <3>1 DEF ElementOf
    <3>2. CASE k # id
      <4>1. world'[end][k] = world[end][k] /\ k \in Known(end)
        BY <1>11, <2>1, <3>2
      <4> QED
        BY <4>1 DEF BoardInv, WorldShape
    <3> QED
      BY <3>1, <3>2
  <2> QED
    BY <1>6, <1>11, <2>1 DEF WorldShape
<1>13. Progress'
  BY <1>3, <1>11, EndsAre DEF BoardInv, Progress
<1>14. BorderInv'
  BY <1>3, <1>11, EndsAre DEF BoardInv, BorderInv
<1>15. SameStill'
  BY <1>3, <1>4, <1>11, EndsAre DEF BoardInv, SameStill
<1>16. Steered'
  <2>1. Known("client")' = 0 .. (NumIds - 1)
    BY <1>3, <1>11, EndsAre
  <2>2. ASSUME NEW end \in Ends, OwnPaddle(end) \in Known("client")'
        PROVE  Snapped(OwnPaddle(end), world'[end][OwnPaddle(end)].x,
                       world'[Peer(end)][OwnPaddle(end)].x)
    <3>1. Snapped(OwnPaddle(end), world[end][OwnPaddle(end)].x,
                  world[Peer(end)][OwnPaddle(end)].x)
      BY <1>11, <2>2, EndsAre DEF BoardInv, Steered
    <3>2. CASE end # e
      <4>1. OwnPaddle(end) # id /\ \A other \in Ends : OwnPaddle(end) \in Known(other)
        BY <1>3, <1>11, <2>2, <3>2, EndsAre
      <4>2. /\ world'[end][OwnPaddle(end)] = world[end][OwnPaddle(end)]
            /\ world'[Peer(end)][OwnPaddle(end)] = world[Peer(end)][OwnPaddle(end)]
        BY <1>11, <4>1, EndsAre
      <4> QED
        BY <3>1, <4>2
    <3>3. CASE end = e
      <4>1. Peer(e) \in Ends
        BY EndsAre
      <4>2. \A w : /\ IsMap(w) /\ id \in DOMAIN w /\ PaddleElement(id, w[id])
                   => Put(w)[id].x = new * Unit
        BY <1>10
      <4>3. world'[e][id].x = new * Unit
        BY <1>4, <1>6, <1>9, <4>2 DEF BoardInv, WorldShape
      <4>4. new * Unit \in Int
        BY <1>2 DEF Unit
      <4>5. CASE Moved(old, new)
        <5>1. world'[Peer(e)][id].x = new * Unit
          BY <1>4, <1>7, <1>9, <4>1, <4>2, <4>5 DEF BoardInv, WorldShape, new
        <5> QED
          BY <1>2, <3>3, <4>3, <4>4, <5>1 DEF Snapped, Unit
      <4>6. CASE ~Moved(old, new)
        <5>1. world'[Peer(e)][id].x = world[Peer(e)][id].x
          BY <1>8, <4>6 DEF new
        <5>2. old \in Int /\ world[Peer(e)][id].x \in Int
          <6>1. \A z \in PaddleRange : z \in Int
            BY PaddleRangeIs
          <6>2. \A other \in Ends : world[other][id].x \in Int
            <7> SUFFICES ASSUME NEW other \in Ends PROVE world[other][id].x \in Int
              OBVIOUS
            <7>1. PICK z \in PaddleRange :
                      world[other][id] = [kind |-> "paddle", x |-> z, y |-> Movables[id].y]
              BY <1>9 DEF PaddleElement
            <7>2. world[other][id].x = z
              BY <7>1
            <7> QED
              BY <6>1, <7>2
          <6> QED
            BY <4>1, <6>2
        <5>3. new * Unit < world[Peer(e)][id].x + Unit /\ world[Peer(e)][id].x < new * Unit + Unit
          <6>1. Snapped(id, old, world[Peer(e)][id].x)
            BY <3>1, <3>3
          <6> QED
            BY <1>2, <1>4, <4>6, <5>2, <6>1, SnappedByMove
        <5> QED
          BY <1>2, <3>3, <4>3, <5>1, <5>3 DEF Snapped
      <4> QED
        BY <4>5, <4>6
    <3> QED
      BY <3>2, <3>3
  <2> QED
    BY <2>1, <2>2 DEF Steered
<1>17. mouse' \in [Ends -> Int]
  BY <1>1, <1>2 DEF BoardInv
<1> QED
  BY <1>12, <1>13, <1>14, <1>15, <1>16, <1>17 DEF BoardInv

-----------------------------------------------------------------------------
(* The theorems                                                            *)

\* The invariant of the board, wherever the mouse is seen.
THEOREM BoardInvariant == Spec => []BoardInv
<1>1. BoardInv /\ [Next]_vars => BoardInv'
  <2> SUFFICES ASSUME BoardInv, [Next]_vars PROVE BoardInv'
    OBVIOUS
  <2>1. CASE BuildBorder
    BY <2>1, BuildBorderStep
  <2>2. CASE GenerateMovables
    BY <2>2, GenerateMovablesStep
  <2>3. CASE GenerateBrick
    BY <2>3, GenerateBrickStep
  <2>4. CASE ParseElement
    BY <2>4, ParseElementStep
  <2>5. CASE \E e \in Ends : Frame(e)
    BY <2>5, FrameStep
  <2>6. CASE UNCHANGED vars
    BY <2>6 DEF vars, BoardInv, WorldShape, Progress, BorderInv, Steered, SameStill, Known
  <2> QED
    BY <2>1, <2>2, <2>3, <2>4, <2>5, <2>6 DEF Next
<1> QED
  BY InitBoard, <1>1, PTL DEF Spec

\* generate_bricks lays its bricks apart from each other and inside of the field.
THEOREM BricksDrawnApartHolds == Spec => []BricksDrawnApart
BY BoardInvariant, DrawnApart, PTL

\* The walls of build_b2_world_border close around the field.
THEOREM FieldIsClosedHolds == Spec => []FieldIsClosed
BY BoardInvariant, Closed, PTL

\* No ball of generate_arkanoid_elements starts inside of another body, wherever the
\* paddles are steered.
THEOREM BallsStartFreeHolds == Spec => []BallsStartFree
BY BoardInvariant, StartFree, PTL

\* The constrains of update_paddle_position keep a paddle in the field at both ends, for
\* any mouse.
THEOREM PaddlesInFieldHolds == Spec => []PaddlesInField
BY BoardInvariant, InField, PTL

\* What parse_game_update rebuilds is the host's board, and stays it to within a cell.
THEOREM SameBoardHolds == Spec => []SameBoard
BY BoardInvariant, Same, PTL

=============================================================================
