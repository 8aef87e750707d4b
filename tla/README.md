# Arkanoid multiplayer: a TLA+ model of the match and its connection

Two instances of the program play one match over a TCP connection.  The host
waits for the connection, generates the board and sends it; from then on each
instance runs its own physics, and tells the other what it changed.  There is no
server and no arbiter: the two boards, scores and verdicts agree only as far as
the updates that pass between the instances make them agree.  These modules
describe that exchange, what it keeps right and what it does not.

## The system

| part | state | operations | talks to |
|---|---|---|---|
| game loop (`main.cpp`: `main`, `run_game`, `get_winner`, `find_paddle_ptrs`) | `paddle_ptrs`, `frame`, `winner`, `updated_elements` | draw, step, collect, look for a winner, close | elements, contact listener, connection |
| update threads (`create_and_send_new_game_update`) | a `GameUpdate` being filled; `game_update_mutex` | fill, decide on `force_sending`, `send` | elements (without their mutex), connection |
| contact listener (`ContactListener`) | the back plates | `EndContact` | called by `b2World::Step` and by `SetEnabled(false)`; changes elements |
| elements (`arkanoid_elements.hpp`) | score, control, duration, last paddle, `m_updated`, bodies | `hit`, `add_score`, `exists`, `did_update`, fill and parse | all of the above |
| receiver (lambda in `main`, `parse_game_update`) | - | parse an update under `element_mutex` | called by `read_listener` |
| connection (`connection.hpp`) | socket, `m_connected`, `m_sending`, counters | connect, wait, `send`, `read_listener`, `close` | asio |
| board geometry (`generate_bricks`, `build_b2_world_border`, `update_x`, conversions) | - | arithmetic on constants | elements, Box2D |
| Box2D (`box2d-incl/`, vendored) | proxies, boxes, the move buffer, contacts | `Step`, `SetTransform`, `SetEnabled`, `CreateBody` | called by elements and game loop; calls the contact listener |
| asio (`asio/`, vendored) | socket, `streambuf` | `read_until`, `write_some`, `close` | called by the connection |
| dialog and drawing (FTXUI) | port, mouse position | - | game loop |
| `arkanoid.pb.*` | generated | - | - |

Threads of one instance: the main thread; the `read_listener` thread; for every
update one detached thread that fills it and one that writes it.  They share the
elements (`element_mutex`, which the filling thread does not take), the right to
fill (`game_update_mutex`) and the connection (five small mutexes, one flag
`m_sending` for all writing threads): seven mutexes in all.

What is hard here: a mark (`m_updated`) is cleared long before the update that
it announces is filled, let alone written; updates are written by racing threads
and overtake each other, also the one that carries the board; updates of paddles
alone are dropped while another is being written; the reader throws away what it
got beyond the first message; both sides credit the same ball; each side decides
alone who has won; bodies are moved and disabled from outside between two steps of
the physics, which must tell the listener of every touch once.  `PROJECT.json`
lists these hazards at their lines, with the properties that speak of them.

What makes each part correct:

* elements and listener: one controller for each paddle, points only for balls
  this instance played, a breaking brick is paid for;
* update threads: nothing that changed is forgotten between the mark and the wire;
* receiver: it never touches the own score, and a broken brick only comes back with a late board;
* game loop: pointers and plates are the right paddles, a verdict needs a whole
  and cleared board, and comes on both sides;
* connection: no element of an update comes twice or out of order, and a message that
  follows no other comes whole; `m_sending` never stays set; a message ends at its delimiter, however its bytes arrive;
* mutexes: nobody waits in a circle, no body is touched during `Step`, main comes to an end;
* board: bricks and balls have room, the walls close, both instances see the same;
* contacts: the listener hears of exactly what touches, nothing is passed unseen.

## The modules

**`Elements`** - operators on a `World`, the record of what an instance knows of
its elements: `known` (the ids in `element_map`), `controlled`, `score`,
`duration`, `enabled` (the bricks whose body is enabled), `updated` (`m_updated`)
and `lastPaddle`.  `ContactBrick`, `ContactPaddle`, `ContactPlate` are the
branches of the contact listener with the calls they make; `FillGameElement` and
`ParseGameElement` are the conversion to a message and back, of which the
negation of `controlled_by_sender` matters most.  Ids are those of `IdGenerator`:
host's paddle, client's paddle, balls, bricks.

**`Game`** (with `MCGame`) - both instances.  One action for each locked section
or unlocked step of the code:

| action | code |
|---|---|
| `Generate` | `main`: the host generates the board under `element_mutex` and starts the thread that sends it |
| `Draw`, or `DrawLock`, `DisableBrick`, `EndDisabledContact`, `DrawUnlock` | one drawing (`loop.RunOnce`): `exists()` disables the body of a broken brick, which ends its contacts and calls the listener again |
| `StepLock`, `BallHits...`, `StepUnlock` | the locked part of a frame: `find_paddle_ptrs`, the paddle's move, `Step` with any contacts ending in it, `did_update` of all elements and the start of the update thread |
| `SkipCheck`, `Check`, or `CheckLock`, ..., `CheckUnlock` | `get_winner` every `frame_rate`-th frame, with the same side effect of `exists()` |
| `Quit`, `Close` | Escape; the dismissal of the result and `close` under `game_update_mutex` |
| `FillLock`, `FillElement`, `SendCall` | the filling thread: it reads one element after the other while the rest of the program goes on, then calls `send` |
| `SetSending`, `Write`, `ClearSending` | the writing thread |
| `ReaderLock`, `ParseElement` | the receiver |
| `Lose` | the connection lost an update |

What it simplifies, and why this is sound:

* A drawing or a look for the winner that disables no body changes nothing but the
  program counter, and its lock is taken and released without effect: `Draw` and
  `Check` are then single steps.  With a body to disable they are not.
* `did_update`, the unlocking and the start of the update thread are one step:
  `updated_elements` is seen by the main thread only.
* A slot of `Threads` follows an update from the filling thread to the writing one.
  The first does nothing after `send` but release `game_update_mutex`, which
  `SendCall` does.  A full set of slots blocks `StepUnlock`; with two slots there
  is one update to overtake and one to be overtaken.
* Which contacts end in a step is left to chance: any ball may end a contact with
  any enabled brick, any paddle and any plate in any step.  Positions and
  velocities are left out with that.
* `FillElement` reads an element in one step: of each kind only one field is
  modelled that anybody else writes.
* The own paddle's move is a mark on the paddle, whatever the mouse does; where it
  goes is in `Board`.
* Which mutex is held by whom is kept of `element_mutex` only; all seven are in `Locks`.

`Game` begins when both instances are connected; what comes before is in
`Connection`, and an instance that could not connect plays no match.  `Lossy` lets
the reader lose any update that reached it.  `Game` takes updates whole: that a connection
can hand over an update with some of its elements missing, several updates as one, or an
element that protobuf makes of pieces is in `Connection` only, so what `Game` shows
holds as long as updates arrive whole or not at all.  `InitialFirst` says that no later
update of the host overtakes the board.  The program does not ensure it, so it is assumed only
in `game_liveness`, for the refinement of `Match`, and in `game_verdict`, which fails even so.

`forgotten` is a history variable, which no guard reads: the bricks of whose break an instance has been
told for nothing, as `Lose` took the update, or as the parsed board repaired the brick
(`Repaired`).

**`Connection`** (with `MCConnection`) - two `Connection` objects and the byte
stream to each end.  A message is a sequence of elements (`Size`), which is all a `GameUpdate`
is; each element is two units of bytes, and so is `end_of_message`, so
that each of them can be cut (`PartialWrites`; `write_some` documents it), run
together with others and be discarded in part.  A message can contain the delimiter
(`Embedding`), which is not far-fetched: the encoding of a position
starts with the bytes `0A 0D` followed by the float `x`, and the delimiter is
`0A 0D 0D`.  `Read` is one round of `read_listener`: `read_until` takes any number
of units from the first delimiter on, the first frame is parsed, the rest
vanishes with the buffer.  `WriteFails` is the swallowed exception.

`Updates` is what `ParseFromString` makes of a frame.  Whole elements parse, whichever
messages they come from: a write that is cut between two elements gives one update together with
the next message, and so does what stands before or behind an embedded delimiter.
Where a piece of an element, or of the delimiter, stands between them, anything may come of
it that protobuf can make of such bytes: nothing, any of the whole elements in their order, and
elements that nobody wrote (`garbled`).

**`Channel`** - the promise of a `Connection` on its own: of the elements that are written any
may be lost, and what is not is handed over once and in the order of writing.
`Connection` implements it under the mapping of `queue` to the elements that
still stand whole on the wire (`Intact`).  An element counts as whole whatever
precedes it in its frame: a read may discard just that.  The elements that nobody wrote are
not in `delivered`, so `Channel` does not exclude them; that a message
which follows no other causes none is part of `OnlyFollowersLost`.

`Game` keeps its own copy of the promise, `net`, to which `Write` appends, from
whose front `ReaderLock` takes and from which `Lose` drops, a whole update at a time.

**`Locks`** - the threads of one instance and its seven mutexes.  A step takes a
mutex, releases one, or visits it (takes it for one statement).  `Wants` says
which mutex a place asks for, so that nesting can be read off `owner` and
`pc`.  `worldLocked` is the flag of `b2World`, `refused` remembers that a body was
created, moved or disabled under it.  The threads of one kind are slots; what they
carry is in `Game`.  It ends where main's lambda returns: the detached threads
that run on refer to objects that are gone, for which there is no next state.

**`Board`** (with `MCBoard`) - where things are, in 280ths of a cell so that every
half is an integer: `generate_bricks` round by round, the walls, the constructors
with their different halves, `parse_game_update` on the client, and the paddles
under the mouse (`update_paddle_position`, `update_x`).  The one constant is the set of
mouse columns, as everything else is a constant of the code.

**`ReadUntil`** (with `MCReadUntil`) - `read_listener`'s loop with what it calls in asio:
`read_until` on a string, `partial_search`, and the put area and capacity of
`basic_streambuf`.  `ReadSome` hands over any number of bytes, so that the delimiter is
cut everywhere.  `Prepare` keeps the capacity if it is
enough and else grows it to anything from what is needed to twice of what it was.  **`Frames`** is what the loop may rely on: each read returns what
stands before the first delimiter of the stream, and then some bytes are gone.
`Connection!Read` is that step with units of messages in place of bytes (theorem
`ReadIsTake`).

**`Contacts`** (with `MCContacts`) - how Box2D comes to call the listener: the fat boxes of
`b2DynamicTree` (`MovedBox`), the move buffer and the `moved` flags of `b2BroadPhase`,
`AddPair`, `Collide` and `Destroy` of `b2ContactManager`, `Update` of `b2Contact`, and the
phases of `b2World::Step`.  `Create`, `SetTransform` and `Disable` are what the
game does to a body between two steps.  Bodies are intervals on a line, where the
solver moves a ball to and which impact comes first is open, and a body stands
for its proxy.  The tree itself is left out: `Query` is "all boxes that
overlap", which is what a correct tree returns.  `Impact` moves the ball to the impact and leaves out the
position correction that `SolveTOI` lets its island do there, which parts bodies that have sunk into each other.

**`Match`** - what the game promises to its two players, with neither threads nor
updates in it: a player's own score and the bricks broken there, the peer's score as it
was heard, and the verdict.  **`GameHistory`** (with `MCMatch`) is `Game` with one more
variable that nothing reads, `had`, the own scores an instance has had so far, and the
mapping under which two game instances are a `Match`: `broken` are the bricks an
instance knows with no duration left, `score` and `heard` are the scores of the two paddles in its own
world, `verdict` is `winner`.  `had` is needed because updates are late: what an instance
is told may be any score the peer once had, not only the present one.  `Match` has no
"lost", no "late" and no "board": a `Learn` or `Hear` that never comes is a lost
update, and the arrival of the board is a stutter.

**`GameProofs`, `BrickProofs`, `BoardProofs`, `ChannelProofs`, `ConnectionProofs`, `LocksProofs`,
`ReadUntilProofs`, `ContactsProofs`** - the theorems.

How the modules fit together: `Contacts` shows that an `EndContact` comes once per touch,
which `Game` takes as a contact; `Locks` shows that the sections `Game` treats as
single steps are not disturbed; `ReadUntil` implements `Frames`, which `Connection` uses as one
`Read`; `Connection` implements `Channel`, which `Game` uses as `net`; and `Game` implements
`Match`, as long as no update overtakes the board.

## What the runs check

| run | question | bounds | result |
|---|---|---|---|
| `game_lossy` | what becomes of scores and breaks, under loss and overtaking of the board | 1 ball, 1 brick of 1 point, a look in every frame, 2 slots, 3 events (contacts, and at most one move of a paddle) | holds |
| `game_roles` | roles, guard of the verdict, a break is paid for, under loss and overtaking of the board | 1 brick of 1 or 2 points, a look every 2nd frame, 2 slots, 2 events (contacts or moves of the paddles), the host may abort | holds |
| `game_board` | two instances are a `Match`, also under loss; a verdict needs the whole board broken | 1 ball, 2 bricks of 1 point, a look every 2nd frame, 1 slot, 3 contacts | holds |
| `game_liveness` | breaks arrive, the match ends on both sides | 1 ball, 1 brick, 2 contacts, 2 slots | holds |
| `game_verdict` | the two verdicts agree | 3 contacts, 1 slot | violated |
| `connection` | `Connection` implements `Channel`; which updates can be lost; the counters; `m_sending` is cleared | 3 messages of the host, the 1st of two elements, cuts in and between elements, the 2nd contains the delimiter, both ends may close | holds |
| `connection_rest` | a read leaves the rest to the next | 3 messages | violated |
| `locks` | nesting, deadlock, the world untouched during `Step`, main returns | 2 filling and 2 writing threads | holds |
| `locks_socket` | nothing else uses the socket while it is closed | 1 and 1 thread | violated |
| `board` | room, walls, both boards the same | the board of the game, 11 mouse columns | holds |
| `read_until` | the first delimiter is found, the buffer fits, `Frames` is implemented, a complete message is returned | all streams of up to 7 of 3 bytes, in all pieces | holds |
| `contacts` | overlaps are known, nothing is passed, one contact per pair, none outlives a body, the listener knows | 3 of 2 balls and 2 static bodies at a time, on 3 places, 2 sub-steps | holds |

Why these bounds are enough.  `MaxEvents` counts contacts and moves over both instances
together.  Three contacts are what the shortest interesting story takes: the own
paddle, the brick's last point, and a third one that races the update, for
instance at the peer.  A brick of two points can be hit without breaking.  Two
slots let an update overtake another in each instance.  The remaining parameters
do not interact with the properties: a second brick matters for "the whole board" and for
breaks of different bricks on their way at once, which is what `game_board`
has it for; `FrameRate` only thins out the looks for a winner.  Two events are enough in
`game_roles`, as the board itself and one echo of a paddle are what could upset the roles.
Three messages allow one that is delivered, one that a read cuts in two and one
that follows the rest; only the host sends them, as the two directions of a
connection have nothing but the phases in common.  A third thread of a kind in `Locks`
would wait for the same mutexes as the second.  The mouse columns of `board` are those
beyond, at and next to every border that `update_paddle_position` tests.

Where a size of the code is scaled.  `MaxSize = 6`, `Delta = 1`, `MinRead = 2` and
`MaxRead = 4` in `read_until` (the program: unlimited, 128, 512 and 65536) let a stream of
seven bytes meet every bound; the proofs are about all sizes.  In `contacts`,
`Extension` is 0 and `Slack` 2 on three places (the program: 0.1 and four times that on a
field of 164 by 165 cells of 140 units), so that a box is kept, grown and shrunk within three places;
`MaxSubSteps` is 1 instead of 8.  The proofs are about all of these as well.

`CHECK_DEADLOCK FALSE` stands in the configurations of `Connection` and `ReadUntil`,
which do stop: all calls are made, or the stream is at its end.  In `Game` and `Locks`
nothing stops before the instances have closed (`Terminating`, `~Running`), and `Board` and
`Contacts` never stop, so that the deadlock check is on; in `Locks` it is the check
that the threads never all wait.

### Properties that hold

* Roles: `OneController`, `PaddlePtrsRoles` hold whatever is
  lost or overtaken, because every update is filled from a world in which they
  hold and the negation on parsing is always applied to the peer's view.
* Scores: `OwnScoreAuthority` (the reader never changes the own score, although
  each update of a paddle assigns one: the peer never fills in our paddle) and
  `OwnScoreCovered` (a changed own score is marked or waits in a thread that has
  yet to read it).  That the late read of the filling thread is not locked is no
  harm for the score: it reads a newer one.  A score counts as announced once it is in
  an update, even if `send` then drops that update.  `BrokenBrickIsScored` speaks of the contact that
  breaks a brick, not of those that hit it again.
* Bricks: `BreakNotForgotten` is the safety half of the propagation, from the mark
  through the filling thread, the wire and the inbox: a brick that is broken here and exists there
  has its break on that way, or it was `forgotten` there, by a lost update or a late board.
  Nothing else forgets one, because an update with a brick is forced and a brick is only
  announced when it is broken.  `ShownBrickIsSolid` says that no
  update shows a brick again whose body is gone, but for the late board, and that one only at the
  client, for a brick that the host knows broken.  `PlayedBoardStays` says that once an
  instance has both paddles, without which it looks for no winner, nothing repairs a brick there.
  All three hold with losses and overtaking.
* Match: `ImplementsMatch` says of every step of the two instances that it is one of `Match`
  or shows nothing of it.  In particular who breaks a brick is paid in the same step, no
  update repairs a brick, none tells of a brick that its sender did not break, no score is heard that
  the peer never had (if no update overtakes the board), and a verdict is reached once, on a cleared board, from the
  scores as they are known then.  It says nothing of whether the two verdicts
  agree: they need not (below).
* Verdict: `WinnerKnowsBoard` (also with loss and overtaking: `get_winner` waits
  for both paddles, and all else comes with the second one) and `WinnerClearedBoard`.
* Progress: `BreakReachesPeer`, `MatchEnds`, `SendingClears`.
* Connection: `ImplementsChannel` (of the elements that were written, none is handed over twice or
  overtaken by a later one); `OnlyFollowersLost` (a message with nothing
  before it on the wire gets through exactly as it was written, unless it contains the
  delimiter); `ReceivedWasSent` (the counters on the screen, where a message that contains the delimiter may
  count twice); `SendingClears` (which does not forbid that one thread clears the
  flag while another still writes: the code does that).
* Mutexes: `LockOrder` (a thread asks only for mutexes behind those it holds, in the
  one order of `Rank`), `NoCircularWait`, `CloseReturns`; `NothingRefused` (a brick that breaks
  inside of `Step` keeps its body until `exists` is called outside).
* Board: `BricksDrawnApart`, `FieldIsClosed`, `BallsStartFree`, `PaddlesInField`,
  `SameBoard`.  Two errors cancel each other in the second and leave room in the third:
  `SetAsBox` takes half sizes (`b2_polygon_shape.h:57`, "the half-width"), but the
  elements (`arkanoid_elements.hpp:357`) and the walls pass full ones.  Bricks therefore overlap
  as bodies, and a ball meets a brick before it is drawn there.
* Reading: `FoundIsFirst` (also for a delimiter in pieces, or one within a false
  beginning), `BufferFits` (the streambuf is asked for no more than its maximal size; with the
  default of the program, the largest `size_t`, it could not be), `ImplementsFrames`, `ReturnsOnceDelimited`.
* Contacts: `OverlapsAreKnown`, `OneContactPerPair`, `ContactsAreLive`,
  `NothingIsPassedUnseen`, `ListenerKnows`: whatever the reader, the mouse and `exists` do
  between two steps, the game hears of each touch once.  `b2_maxTranslation` keeps a ball
  from moving more than two units in a step, far less than a brick; `NothingIsPassedUnseen`
  does not rely on it.

### Disagreements with what is said

* `game_verdict`: both players can be told "Dein Gegner hat gewonnen!".  Each
  instance compares the scores it has when it finds the board cleared; the
  five points for the enemy's plate are subtracted in one instance only.
* `connection_rest`: asio's documentation expects the bytes after the delimiter to be
  left for the next `read_until`; `read_listener` drops its buffer every time, and
  with it whole updates, forced ones too.
* `locks_socket`: asio's documentation says that `close` is not thread safe with
  respect to reads and writes; `close` runs while the reader is inside of `read_until`
  and a writing thread may be inside of `write_some`.

### Fairness

`Game!Fairness`: the operating system runs every thread (weak fairness of the
main thread, of each update thread and of the parsing receiver).  The receiver's
lock needs strong fairness: `element_mutex` is taken and released again and again
by the main thread, which sleeps for the rest of each frame without it (40 frames
a second), so the receiver meets it free again and again.  No fairness for
contacts, moves, Escape and the dismissal of the result: neither the physics nor
the players owe us anything.  Hence `MatchEnds` says "the result is shown", not
"the instance closes".  `Connection!Fairness` only asks for the threads of `send`
to be run; `write_some` then succeeds or throws.  `Locks!Fairness` is weak throughout: main
(from `close` on) and each update thread are run, but a mutex that is taken again and
again need not come to a waiting thread.  `CloseReturns` holds all the same, as no new
update thread starts after the last frame.  `ReadUntil!Fairness` runs the reader and lets the
socket hand over what has arrived.

## What is proved

A theorem holds for every value of the constants: any number of balls, bricks, points,
threads, contacts and moves in `Game`, of threads in `Locks`, of static bodies and places in
`Contacts` (and at most two balls, as the game has), any stream, delimiter and sizes in
`ReadUntil`.  Where not said otherwise, it holds with `Lossy` and without, with `InitialFirst` and without.

**`GameProofs`** - lemmas on the operators of `Elements`, typing and roles.

* `TypeCorrect`: `Spec => []TypeOK`.
* `RolesInvariant`: the inductive invariant behind the roles.  The
  properties themselves are not inductive: control is assigned from messages, so
  the invariant says of every update in a thread, on the wire and in the inbox
  that it is authentic (a paddle is in it with `controlled_by_sender` exactly if
  it is the sender's own), and of the pointers and plates that they were
  taken from such a world.  From it follow
  `OneControllerHolds`, `PaddlePtrsRolesHold`, and `LastPaddleIsOwnHolds` (a ball is credited
  to the own paddle or to none), which no run checks.
* `BrokenBrickIsScoredHolds`: the action property, from the same
  invariant: only a contact of a ball whose last paddle is the own one breaks a brick
  (`ContactBrickBreaks`), and the same contact pays that paddle.

Then the board's way and the scores, in three invariants that build on each other:

* `LockInvariant` (`LockInv`): main and reader keep each other off the elements.
* `BoardInvariant` (`BoardInv`): `get_winner` asks only for the two paddles, so what is to be
  shown is that the second one never comes without the board.  The peer's paddle can only
  be learnt from an update that carries it.  Until an instance knows it, such an
  update exists at most once (in one thread, on the wire or in the inbox), is the
  host's first, and carries what is not yet parsed of the whole board; the paddle
  itself can be parsed at any point, but `element_mutex` is not free before
  the rest is parsed too.  `WinnerKnowsBoardHolds` follows.
* `ScoreInvariant` (`ScoreInv`): a changed own score is marked or waits in a thread, and there is
  no score, and no ball credited to it, before the own paddle is known.  The second part is
  what makes the first inductive: `add_score` marks only what it controls.
  `OwnScoreCoveredHolds` and `OwnScoreAuthorityHolds` follow.

**`BrickProofs`** - what becomes of bricks, and the promises of `Match`.  Only the last theorem
assumes `InitialFirst`, none `~Lossy`.

* `BrickInvariant` (`BrickInv`): the board tells of each brick once, and that it is not broken;
  every other update tells of bricks only that its sender knows to be broken *for good*, as do
  the marks and the elements a thread has still to fill.  The host's broken bricks are all for good.
  The client's are once it has stopped waiting for the board (`AwaitsOf`): it waits until it knows its own
  paddle, which comes with the board only, and has parsed the bricks that came with it.  While it waits it
  has no ball of its own and breaks nothing, so it has nothing to tell, and what it takes for broken is broken at
  the host (`Awaiting`).  `SureOf` is therefore empty while an instance waits, and what it
  knows broken afterwards.
* `PlayedInvariant` (`PlayedInv`): who has found the own paddle waits no more, as it was found
  under the lock under which the whole board had been parsed.  `PlayedBoardStaysHolds` follows, and
  `WinnerClearedBoardHolds` in the same way, as a verdict needs both paddles.
  `ShownBrickIsSolidHolds` follows from `SolidInv`: a body is disabled only for a brick that is broken, or
  was and came back with the late board.
* `ToldInvariant` (`ToldInv`): a break the peer does not know of is
  marked, in a thread, on the wire or being parsed, or was forgotten there.  It is stronger than
  `BreakNotForgotten`, as it speaks of a peer that does not know the brick yet as well: without
  that the property is not inductive, since the board can arrive after the break.
  `BreakNotForgottenHolds` follows.
* `HadInvariant` (`HadInv`, of `GameHistory`): every score that an update tells of its
  sender, wherever the update is, is one the sender has had.  It needs no assumption: an
  overtaking update is late, not false.
* `MatchImplemented`: the refinement of `Match`, action by action.  A contact is a `Break`,
  `Score`, `Charge` or nothing, depending on ball and brick (the lemmas on `Promise`); a parsed
  element is a `Learn`, a `Hear` or nothing (`ParsedMatch`), where `BrickInv` gives that the sender had
  broken the brick and `HadInv` that it had had the score; a verdict is a `Decide`, as the
  whole board is known when `get_winner` finds one (`VerdictKnowsBoard`), and no brick of it exists.
  That it comes only once is `VerdictLast`: who has a verdict has left the loop, where
  nothing is broken or scored any more; the reader goes on, and may still learn and hear.

**`BoardProofs`** - all five properties of `Board`, for any set of columns in which the mouse
may be seen.  `BoardInvariant` (`BoardInv`) says which element stands for an id, and where
(`ElementOf`), how far `generate_bricks` is (`Progress`), and how the two ends can differ: what does not
move is the same wherever it is known (`SameStill`), and a paddle (`Steered`)
either stands where it started at both ends, or its player has snapped it to a whole cell and the peer
has it less than a cell away.  The last is what makes `SameBoardHolds` inductive: `update_x`
sends a move only of a cell or more, and since a move ends on a whole cell, the
next one is by a whole number of cells and always sent, so that the differences
do not add up.  `BricksDrawnApartHolds`, `FieldIsClosedHolds`, `BallsStartFreeHolds`
and `PaddlesInFieldHolds` follow from the places, by the arithmetic of boxes.

**`ChannelProofs`** - `KeptInOrderHolds`: what was handed over, followed by what
still waits, is a subsequence of the elements that were written, for any messages and any loss.
It rests on lemmas about `Remains`: losses compose, a loss behind a prefix is a
loss from the whole, appending respects it.

**`ConnectionProofs`** - all safety properties of `Connection`, for any number of threads and messages
of any sizes, with cut writes or whole ones, and whichever messages contain the delimiter.

* `ConnectionInvariant` (`IInv`): the typing (`ConnectionTyped`) and that messages are told apart:
  what a thread has to write was sent, and neither another thread has it nor was any element of it written.
* `ConnectionImplementsChannel`: the queue of the channel is `Intact(wire[e])`, the elements
  that stand whole on the wire.  `Starts` says where, and the ranks of those places make a
  sequence of them.  A write adds the places in the part that was written, and its first unit
  completes nothing before it; a read hands over what `Updates` makes of the first frame, in which no
  element is but those of `Intact`, and what it discards behind leaves a subsequence; all other steps
  stutter.  Nothing is assumed of what the pieces in a frame parse to but that protobuf makes none
  of the other whole elements of them, nor repeats one.
* `ConnectionKeepsOrder` puts the refinement and `KeptInOrderHolds` together: no element is
  reordered or handed over twice.
* `OnlyFollowersLostHolds`: appended units do not disturb a whole message at the front.
* `ReadIsTake` closes the chain from the bytes to the match: `Read` takes exactly the frames
  and the losses that `Frames` allows, whose steps `ReadUntilProofs` shows to be those of the loop.
* `ReceivedWasSentHolds` needs the invariant `CountInv`: the delimiters on the wire are counted with the
  received updates, as each of them may yet become one.

**`LocksProofs`** - `LocksInvariant` says who holds which mutex by where each thread is, and that
`worldLocked` is up only inside of `Step`.  `LocksTyped`, `LockOrderHolds` and
`NothingRefusedHolds` follow from it, and `NoCircularWaitHolds` from the order: of the mutexes a
circle of threads waits for, one has the highest rank, and its holder waits for none higher.

**`ReadUntilProofs`** - `SearchInvariant`: no delimiter of the whole stream begins before
`search_position`, which is what a partial match at the end of the buffer is for.
`ReadUntilTyped`, `FoundIsFirstHolds`, `BufferFitsHolds` and `FramesImplemented` (the
refinement of `Frames`, initial states and steps).

**`ContactsProofs`** - `ContactsInvariant` is the conjunction of the typing, of what
`moved`, the move buffer and the contacts have in common, and of two of the
properties, which only hold together.  All six properties of the run are
theorems: `ContactsTyped`, `OverlapsAreKnownHolds`, `OneContactPerPairHolds`,
`ContactsAreLiveHolds`, and, with an invariant of their own each,
`NothingIsPassedUnseenHolds` (during a step the box of a moved ball covers where it has been) and
`ListenerKnowsHolds`.

Assumptions.  On the constants: `ElementsAssumption`, `GameAssumption`, `ConnectionAssumption`,
`LocksAssumption`, `ReadUntilAssumption`, `ContactsAssumption` and `BoardAssumption`, which TLC
evaluates in the runs; the channel needs none.
`InitialFirst` stands in the statement of `MatchImplemented` alone.  The program does not ensure it: it
fails when the thread that sends the board is delayed for longer than the first frames take.  `Match` has no
late board that brings broken bricks back, which `BreakNotForgotten` and `ShownBrickIsSolid` speak of.

Only model-checked: all liveness (`BreakReachesPeer`, `MatchEnds`, `SendingClears`, `CloseReturns`,
`ReturnsOnceDelimited`), as the prover does not handle fairness.  Every other property of a
passing run is a theorem.

## Not modelled

* Of the vendored libraries, everything the game does not call, which is nearly all of
  them: the asio directory holds some 670 files, of which `connection.hpp` uses connecting, accepting,
  `read_until`, `write_some` and `close`.  In Box2D, the manifolds, the solver and
  the shape of `b2DynamicTree`: a step may move a ball anywhere within its speed, and a query returns
  what overlaps.  protobuf and the generated `arkanoid.pb.*` appear as elements that are kept
  if they are whole, and as anything that may be made of the pieces of others.
* Where balls are in `Game`: velocities, the forces that `did_update` puts on a ball and positions, and with them
  the staleness of a position that an overtaking update brings.  Rounding of floats in `Board`.
* The dialog for the connection (with the conversion of the port, `std::stoi` into the
  16 bits of an endpoint), the texts, the canvas, colours and key events other than Escape.
* What the detached threads refer to once main's lambda has returned: undefined behaviour,
  for which `Locks` has no next state.

## What would come next

1. `b2DynamicTree`: insertion, removal and balancing keep every leaf reachable and every inner box
   around its children, which is what `Contacts` takes `Query` to rely on.
2. Velocities: whether a ball on both sides ever agrees again after an overtaking update.
