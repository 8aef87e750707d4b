-------------------------------- MODULE Game --------------------------------
(***************************************************************************)
(* Two game instances, the host and the client, playing one match          *)
(* (main.cpp, with the elements of arkanoid_elements.hpp).                 *)
(*                                                                         *)
(* In each instance run: the main thread (main, run_game), which draws,    *)
(* steps the physics, collects the updated elements and looks for a        *)
(* winner; one detached thread per update (create_and_send_new_game_update *)
(* and then the thread that Connection::send starts), here a slot of       *)
(* Threads; and the thread of read_listener, which parses what arrives.    *)
(* The connection is seen from the game: net[i] holds the updates written  *)
(* to instance i and not read yet, in the order of the writes.             *)
(***************************************************************************)
EXTENDS Elements, Sequences, FiniteSets

CONSTANTS
    FrameRate,     \* a winner is looked for every FrameRate-th frame
    Threads,       \* slots for the updates under way in an instance
    MaxEvents,     \* bound: contacts that end and moves, in both instances together
    MaxMoves,      \* bound: how many of them are moves of a paddle worth an update
    Quitters,      \* the instances whose player may press Escape
    Lossy,         \* the reader may lose a message it received
    InitialFirst   \* no thread of the host overtakes the one that sends the board

ASSUME GameAssumption ==
    /\ FrameRate \in Nat \ {0}
    /\ MaxEvents \in Nat
    /\ MaxMoves \in Nat
    /\ Quitters \subseteq {"host", "client"}
    /\ Lossy \in BOOLEAN
    /\ InitialFirst \in BOOLEAN

Instances == {"host", "client"}
Peer(i) == IF i = "host" THEN "client" ELSE "host"
OwnPaddle(i) == IF i = "host" THEN HostPaddle ELSE ClientPaddle

VARIABLES
    world,           \* element_map and the elements in it
    pc,              \* where the main thread is
    frame,           \* frame % frame_rate
    ptrs,            \* paddle_ptrs: {your, enemy}
    plates,          \* ContactListener::m_back_plates
    winner,          \* run_game's winner
    elementMutex,    \* who holds element_mutex
    ending,          \* contacts of the body being disabled that have not ended yet
    thread,          \* the updates under way
    gameUpdateMutex, \* game_update_mutex is held (by a thread filling an update)
    sending,         \* Connection::m_sending
    net,             \* updates written to an instance and not read yet
    inbox,           \* elements of the update its reader is parsing
    forgotten,       \* history: bricks an instance was told of in vain to be broken
    contacts,        \* contacts that ended so far, in both instances
    moves,           \* moves of the own paddles so far
    announced        \* history: the last own score written into an update

mainVars == <<pc, frame, ptrs, plates, winner>>
sendVars == <<thread, gameUpdateMutex, sending, announced>>
netVars == <<net, inbox, forgotten>>
bounds == <<contacts, moves>>
vars == <<world, mainVars, elementMutex, ending, sendVars, netVars, bounds>>

-----------------------------------------------------------------------------

MainPcs == {"setup", "frame", "drawing", "drawn", "stepping", "check",
            "checking", "over", "closed"}
ThreadPcs == {"idle", "start", "filling", "set", "write", "clear"}

\* todo: send_elements not serialised yet; msg: the update as serialised so far.
UpdateThread == [pc : ThreadPcs, todo : SUBSET Ids, msg : GameUpdate]
IdleThread == [pc |-> "idle", todo |-> {}, msg |-> {}]

TypeOK ==
    /\ world \in [Instances -> World]
    /\ pc \in [Instances -> MainPcs]
    /\ frame \in [Instances -> 0 .. (FrameRate - 1)]
    /\ ptrs \in [Instances -> [your : Paddles \cup {NoPaddle}, enemy : Paddles \cup {NoPaddle}]]
    /\ plates \in [Instances -> [Plates -> Paddles \cup {NoPaddle}]]
    /\ winner \in [Instances -> -1 .. 2]
    /\ elementMutex \in [Instances -> {"free", "main", "reader"}]
    /\ ending \in [Instances -> SUBSET (Balls \X Bricks)]
    /\ thread \in [Instances -> [Threads -> UpdateThread]]
    /\ gameUpdateMutex \in [Instances -> BOOLEAN]
    /\ sending \in [Instances -> BOOLEAN]
    /\ net \in [Instances -> Seq(GameUpdate)]
    /\ inbox \in [Instances -> GameUpdate]
    /\ forgotten \in [Instances -> SUBSET Bricks]
    /\ contacts \in Nat
    /\ moves \in Nat
    /\ announced \in [Instances -> Int]

\* Both ends have connected and registered their receivers.
Init ==
    /\ world = [i \in Instances |-> EmptyWorld]
    /\ pc = [i \in Instances |-> IF i = "host" THEN "setup" ELSE "frame"]
    /\ frame = [i \in Instances |-> 0]
    /\ ptrs = [i \in Instances |-> [your |-> NoPaddle, enemy |-> NoPaddle]]
    /\ plates = [i \in Instances |-> [plate \in Plates |-> NoPaddle]]
    /\ winner = [i \in Instances |-> -1]
    /\ elementMutex = [i \in Instances |-> "free"]
    /\ ending = [i \in Instances |-> {}]
    /\ thread = [i \in Instances |-> [t \in Threads |-> IdleThread]]
    /\ gameUpdateMutex = [i \in Instances |-> FALSE]
    /\ sending = [i \in Instances |-> FALSE]
    /\ net = [i \in Instances |-> <<>>]
    /\ inbox = [i \in Instances |-> {}]
    /\ forgotten = [i \in Instances |-> {}]
    /\ contacts = 0
    /\ moves = 0
    /\ announced = [i \in Instances |-> 0]

-----------------------------------------------------------------------------
(* The main thread                                                         *)

LockElements(i, who) ==
    /\ elementMutex[i] = "free"
    /\ elementMutex' = [elementMutex EXCEPT ![i] = who]

UnlockElements(i, who) ==
    /\ elementMutex[i] = who
    /\ elementMutex' = [elementMutex EXCEPT ![i] = "free"]

GoTo(i, from, to) ==
    /\ pc[i] = from
    /\ pc' = [pc EXCEPT ![i] = to]

\* The host makes the board and sends all of it, under element_mutex.
Generate(i) ==
    /\ GoTo(i, "setup", "frame")
    /\ elementMutex[i] = "free"
    /\ \E d \in [Bricks -> 1 .. MaxDuration], t \in Threads :
          /\ thread[i][t].pc = "idle"
          /\ world' = [world EXCEPT ![i] = GeneratedWorld(d)]
          /\ thread' = [thread EXCEPT ![i][t] =
                [pc |-> "set", todo |-> {}, msg |-> FillGameUpdate(GeneratedWorld(d), Ids)]]
    /\ UNCHANGED <<frame, ptrs, plates, winner, elementMutex, ending,
                   gameUpdateMutex, sending, announced, netVars, bounds>>

\* Escape was pressed: the loop has quitted and the match is aborted.
Quit(i) ==
    /\ i \in Quitters
    /\ GoTo(i, "frame", "over")
    /\ UNCHANGED <<world, frame, ptrs, plates, winner, elementMutex, ending,
                   sendVars, netVars, bounds>>

\* Mutation of ToDisable: the last point of duration is taken for none.
ToDisableEarly(i, pass) ==
    {b \in world[i].known \cap world[i].enabled :
        /\ world[i].duration[b] <= 1
        /\ pass = "checking" => \A c \in Bricks : c < b => ~BrickExists(world[i], c)}

\* Bricks whose exists() this pass calls and whose body it has to disable:
\* drawing visits every brick, get_winner stops at the first one that exists.
ToDisable(i, pass) ==
    {b \in world[i].known \cap world[i].enabled :
        /\ world[i].duration[b] <= 0
        /\ pass = "checking" => \A c \in Bricks : c < b => ~BrickExists(world[i], c)}

\* The locked pass over the elements has no effect when it disables no body.
Draw(i) ==
    /\ GoTo(i, "frame", "drawn")
    /\ elementMutex[i] = "free"
    /\ ToDisable(i, "drawing") = {}
    /\ UNCHANGED <<world, frame, ptrs, plates, winner, elementMutex, ending,
                   sendVars, netVars, bounds>>

DrawLock(i) ==
    /\ GoTo(i, "frame", "drawing")
    /\ LockElements(i, "main")
    /\ ToDisable(i, "drawing") # {}
    /\ UNCHANGED <<world, frame, ptrs, plates, winner, ending, sendVars, netVars, bounds>>

\* Brick::exists disables the body; T are the balls that touch it.
DisableBrick(i) ==
    /\ pc[i] \in {"drawing", "checking"}
    /\ ending[i] = {}
    /\ \E b \in ToDisable(i, pc[i]), T \in SUBSET (Balls \cap world[i].known) :
          /\ IsFirst(b, ToDisable(i, pc[i]))
          /\ contacts + moves + Cardinality(T) <= MaxEvents
          /\ contacts' = contacts + Cardinality(T)
          /\ world' = [world EXCEPT ![i].enabled = @ \ {b}]
          /\ ending' = [ending EXCEPT ![i] = T \X {b}]
    /\ UNCHANGED <<mainVars, elementMutex, sendVars, netVars, moves>>

\* b2ContactManager::Destroy reports the end of the contact to the listener.
EndDisabledContact(i) ==
    /\ \E c \in ending[i] :
          /\ world' = [world EXCEPT ![i] = ContactBrick(@, c[1], c[2])]
          /\ ending' = [ending EXCEPT ![i] = @ \ {c}]
    /\ UNCHANGED <<mainVars, elementMutex, sendVars, netVars, bounds>>

AllDisabled(i) == ending[i] = {} /\ ToDisable(i, pc[i]) = {}

DrawUnlock(i) ==
    /\ GoTo(i, "drawing", "drawn")
    /\ AllDisabled(i)
    /\ UnlockElements(i, "main")
    /\ UNCHANGED <<world, frame, ptrs, plates, winner, ending,
                   sendVars, netVars, bounds>>

\* The last paddle of the map that is (not) controlled here, else the old pointer.
FindPaddle(w, mine, old) ==
    LET found == {p \in Paddles \cap w.known : w.controlled[p] = mine}
    IN IF found = {} THEN old ELSE CHOOSE p \in found : \A q \in found : q <= p

FindPaddlePtrs(w, p) ==
    IF p.your = NoPaddle \/ p.enemy = NoPaddle
    THEN [your |-> FindPaddle(w, TRUE, p.your), enemy |-> FindPaddle(w, FALSE, p.enemy)]
    ELSE p

\* std::map::insert keeps a plate that has a paddle already.
FindPlates(p, old) ==
    IF p.your # NoPaddle /\ p.enemy # NoPaddle
    THEN [plate \in Plates |->
            IF old[plate] = NoPaddle THEN AssignPlates(p.your, p.enemy)[plate] ELSE old[plate]]
    ELSE old

\* find_paddle_ptrs, then update_paddle_position with the mouse moved or not.
StepLock(i) ==
    LET p == FindPaddlePtrs(world[i], ptrs[i])
    IN /\ GoTo(i, "drawn", "stepping")
       /\ LockElements(i, "main")
       /\ ptrs' = [ptrs EXCEPT ![i] = p]
       /\ plates' = [plates EXCEPT ![i] = FindPlates(p, @)]
       /\ \/ UNCHANGED <<world, moves>>
          \/ /\ p.your # NoPaddle
             /\ moves < MaxMoves /\ contacts + moves < MaxEvents
             /\ moves' = moves + 1
             /\ world' = [world EXCEPT ![i].updated = @ \cup {p.your}]
       /\ UNCHANGED <<frame, winner, ending, sendVars, netVars, contacts>>

\* A contact ends while b2World::Step runs and leaves the world w.
StepContact(i, w) ==
    /\ pc[i] = "stepping"
    /\ contacts + moves < MaxEvents
    /\ contacts' = contacts + 1
    /\ world' = [world EXCEPT ![i] = w]
    /\ UNCHANGED <<mainVars, elementMutex, ending, sendVars, netVars, moves>>

BallHitsBrick(i) ==
    \E ball \in Balls \cap world[i].known, b \in Bricks \cap world[i].known \cap world[i].enabled :
        StepContact(i, ContactBrick(world[i], ball, b))

BallHitsPaddle(i) ==
    \E ball \in Balls \cap world[i].known, p \in Paddles \cap world[i].known :
        StepContact(i, ContactPaddle(world[i], ball, p))

BallHitsPlate(i) ==
    \E ball \in Balls \cap world[i].known, plate \in Plates :
        /\ plates[i][plate] # NoPaddle
        /\ StepContact(i, ContactPlate(world[i], ball, plates[i][plate]))

\* did_update of every element, at the end of the locked part of the frame, and
\* create_and_send_new_game_update, which starts a thread if anything was updated.
\* Only the main thread sees updated_elements in between.
StepUnlock(i) ==
    /\ GoTo(i, "stepping", "check")
    /\ UnlockElements(i, "main")
    /\ world' = [world EXCEPT ![i].updated = {}]
    /\ IF world[i].updated = {}
       THEN UNCHANGED thread
       ELSE \E t \in Threads :
               /\ thread[i][t].pc = "idle"
               /\ thread' = [thread EXCEPT ![i][t] =
                     [pc |-> "start", todo |-> world[i].updated, msg |-> {}]]
    /\ UNCHANGED <<frame, ptrs, plates, winner, ending, gameUpdateMutex, sending, announced,
                   netVars, bounds>>

\* Mutation of NextFrame: the frame does not wrap at frame_rate.
NextFrameUnwrapped(i) == frame' = [frame EXCEPT ![i] = @ + 1]

NextFrame(i) == frame' = [frame EXCEPT ![i] = (@ + 1) % FrameRate]

SkipCheck(i) ==
    /\ GoTo(i, "check", "frame")
    /\ frame[i] # 0
    /\ NextFrame(i)
    /\ UNCHANGED <<world, ptrs, plates, winner, elementMutex, ending,
                   sendVars, netVars, bounds>>

\* Mutation of NoBrickExists: a search that only sees the first brick.
FirstBrickDoesNotExist(w) == \E b \in Bricks : IsFirst(b, Bricks) /\ ~BrickExists(w, b)

NoBrickExists(w) == \A b \in Bricks : ~BrickExists(w, b)

\* Mutation of GetWinner: missing paddles make a draw.
GetWinnerWithoutPaddles(w, p) ==
    IF NoBrickExists(w)
    THEN IF p.your = NoPaddle \/ p.enemy = NoPaddle THEN 2
         ELSE IF w.score[p.your] > w.score[p.enemy] THEN 0
         ELSE IF w.score[p.your] < w.score[p.enemy] THEN 1 ELSE 2
    ELSE -1

GetWinner(w, p) ==
    IF NoBrickExists(w) /\ p.your # NoPaddle /\ p.enemy # NoPaddle
    THEN IF w.score[p.your] > w.score[p.enemy] THEN 0
         ELSE IF w.score[p.your] < w.score[p.enemy] THEN 1 ELSE 2
    ELSE -1

\* Mutation of Decide: the first paddle's index is not taken for a winner.
DecideStrictly(i) ==
    LET won == GetWinner(world[i], ptrs[i])
    IN /\ winner' = [winner EXCEPT ![i] = won]
       /\ \/ /\ won > 0
             /\ pc' = [pc EXCEPT ![i] = "over"]
             /\ UNCHANGED frame
          \/ /\ won <= 0
             /\ pc' = [pc EXCEPT ![i] = "frame"]
             /\ NextFrame(i)
       /\ UNCHANGED <<ptrs, plates>>

\* What follows get_winner.
Decide(i) ==
    LET won == GetWinner(world[i], ptrs[i])
    IN /\ winner' = [winner EXCEPT ![i] = won]
       /\ \/ /\ won >= 0
             /\ pc' = [pc EXCEPT ![i] = "over"]
             /\ UNCHANGED frame
          \/ /\ won < 0
             /\ pc' = [pc EXCEPT ![i] = "frame"]
             /\ NextFrame(i)
       /\ UNCHANGED <<ptrs, plates>>

\* get_winner with no body to disable: nobody else sees the locked part.
Check(i) ==
    /\ pc[i] = "check" /\ frame[i] = 0
    /\ elementMutex[i] = "free"
    /\ ToDisable(i, "checking") = {}
    /\ Decide(i)
    /\ UNCHANGED <<world, elementMutex, ending, sendVars, netVars, bounds>>

CheckLock(i) ==
    /\ GoTo(i, "check", "checking")
    /\ frame[i] = 0
    /\ LockElements(i, "main")
    /\ ToDisable(i, "checking") # {}
    /\ UNCHANGED <<world, frame, ptrs, plates, winner, ending, sendVars, netVars, bounds>>

CheckUnlock(i) ==
    /\ pc[i] = "checking"
    /\ AllDisabled(i)
    /\ Decide(i)
    /\ UnlockElements(i, "main")
    /\ UNCHANGED <<world, ending, sendVars, netVars, bounds>>

\* The result was shown long enough.  An instance that has closed does nothing more.
Close(i) ==
    /\ GoTo(i, "over", "closed")
    /\ ~gameUpdateMutex[i]
    /\ UNCHANGED <<world, frame, ptrs, plates, winner, elementMutex, ending,
                   sendVars, netVars, bounds>>

-----------------------------------------------------------------------------
(* The threads of an update                                                *)

Open(i) == pc[i] # "closed"

FillLock(i, t) ==
    /\ Open(i)
    /\ thread[i][t].pc = "start"
    /\ ~gameUpdateMutex[i]
    /\ gameUpdateMutex' = [gameUpdateMutex EXCEPT ![i] = TRUE]
    /\ thread' = [thread EXCEPT ![i][t].pc = "filling"]
    /\ UNCHANGED <<world, mainVars, elementMutex, ending, sending, announced, netVars, bounds>>

\* fill_game_element reads the element without holding element_mutex.
FillElement(i, t) ==
    /\ Open(i)
    /\ thread[i][t].pc = "filling"
    /\ \E e \in thread[i][t].todo :
          /\ IsFirst(e, thread[i][t].todo)
          /\ thread' = [thread EXCEPT ![i][t].todo = @ \ {e},
                                      ![i][t].msg = @ \cup {FillGameElement(world[i], e)}]
          /\ announced' = [announced EXCEPT ![i] =
                IF e = OwnPaddle(i) THEN world[i].score[e] ELSE @]
    /\ UNCHANGED <<world, mainVars, elementMutex, ending, gameUpdateMutex, sending, netVars, bounds>>

\* Mutation of ForceSending: one paddle in the update makes it droppable.
ForceSendingAll(msg) == \A g \in msg : g.id \notin Paddles

\* force_sending: the update carries something else than paddles.
ForceSending(msg) == \E g \in msg : g.id \notin Paddles

\* Connection::send: drop the update, or start the thread that sends it.
SendCall(i, t) ==
    /\ Open(i)
    /\ thread[i][t].pc = "filling"
    /\ thread[i][t].todo = {}
    /\ thread' = [thread EXCEPT ![i][t] =
          IF ~ForceSending(@.msg) /\ sending[i] THEN IdleThread ELSE [@ EXCEPT !.pc = "set"]]
    /\ gameUpdateMutex' = [gameUpdateMutex EXCEPT ![i] = FALSE]
    /\ UNCHANGED <<world, mainVars, elementMutex, ending, sending, announced, netVars, bounds>>

SetSending(i, t) ==
    /\ Open(i)
    /\ thread[i][t].pc = "set"
    /\ thread' = [thread EXCEPT ![i][t].pc = "write"]
    /\ sending' = [sending EXCEPT ![i] = TRUE]
    /\ UNCHANGED <<world, mainVars, elementMutex, ending, gameUpdateMutex, announced, netVars, bounds>>

\* The update that Generate sends is the only one that carries the peer's paddle.
IsInitial(i, msg) == \E g \in msg : g.id = OwnPaddle(Peer(i))

Overtakes(i, t) ==
    \E s \in Threads \ {t} : IsInitial(i, thread[i][s].msg) /\ thread[i][s].pc \in {"set", "write"}

\* write_some; what is written to a peer that has closed is lost.
Write(i, t) ==
    /\ Open(i)
    /\ thread[i][t].pc = "write"
    /\ InitialFirst => ~Overtakes(i, t)
    /\ thread' = [thread EXCEPT ![i][t] = [@ EXCEPT !.pc = "clear", !.msg = {}]]
    /\ net' = IF Open(Peer(i)) THEN [net EXCEPT ![Peer(i)] = Append(@, thread[i][t].msg)] ELSE net
    /\ UNCHANGED <<world, mainVars, elementMutex, ending, gameUpdateMutex, sending, announced,
                   inbox, forgotten, bounds>>

ClearSending(i, t) ==
    /\ Open(i)
    /\ thread[i][t].pc = "clear"
    /\ thread' = [thread EXCEPT ![i][t] = IdleThread]
    /\ sending' = [sending EXCEPT ![i] = FALSE]
    /\ UNCHANGED <<world, mainVars, elementMutex, ending, gameUpdateMutex, announced, netVars, bounds>>

-----------------------------------------------------------------------------
(* The thread of read_listener                                             *)

TellsBroken(msg, b) == \E g \in msg : g.id = b /\ g.duration <= 0

\* The bricks that are broken in world w and exist in v.
Repaired(w, v) == {b \in Bricks : b \in w.known /\ w.duration[b] <= 0 /\ BrickExists(v, b)}

ReaderLock(i) ==
    /\ Open(i)
    /\ net[i] # <<>>
    /\ LockElements(i, "reader")
    /\ inbox' = [inbox EXCEPT ![i] = Head(net[i])]
    /\ net' = [net EXCEPT ![i] = Tail(@)]
    /\ UNCHANGED <<world, mainVars, ending, sendVars, forgotten, bounds>>

\* parse_game_update, element by element; after the last one the lock is released.
ParseElement(i) ==
    /\ Open(i)
    /\ elementMutex[i] = "reader"
    /\ \E g \in inbox[i] :
          /\ \A f \in inbox[i] : g.id <= f.id
          /\ world' = [world EXCEPT ![i] = ParseGameElement(@, g)]
          /\ inbox' = [inbox EXCEPT ![i] = @ \ {g}]
          /\ forgotten' = [forgotten EXCEPT ![i] = @ \cup Repaired(world[i], world'[i])]
          /\ IF inbox[i] = {g} THEN UnlockElements(i, "reader") ELSE UNCHANGED elementMutex
    /\ UNCHANGED <<mainVars, ending, sendVars, net, bounds>>

\* The message was discarded with the rest of a buffer, or it did not parse.
Lose(i) ==
    /\ Lossy
    /\ Open(i)
    /\ net[i] # <<>>
    /\ net' = [net EXCEPT ![i] = Tail(@)]
    /\ forgotten' = [forgotten EXCEPT ![i] = @ \cup {b \in Bricks : TellsBroken(Head(net[i]), b)}]
    /\ UNCHANGED <<world, mainVars, elementMutex, ending, sendVars, inbox, bounds>>

-----------------------------------------------------------------------------

\* What the main thread does on its own: neither the players nor the physics.
Main(i) ==
    \/ Generate(i)
    \/ Draw(i) \/ DrawLock(i) \/ DisableBrick(i) \/ EndDisabledContact(i) \/ DrawUnlock(i)
    \/ StepLock(i) \/ StepUnlock(i)
    \/ SkipCheck(i) \/ Check(i) \/ CheckLock(i) \/ CheckUnlock(i)

Physics(i) == BallHitsBrick(i) \/ BallHitsPaddle(i) \/ BallHitsPlate(i)

Sender(i, t) ==
    \/ FillLock(i, t) \/ FillElement(i, t) \/ SendCall(i, t)
    \/ SetSending(i, t) \/ Write(i, t) \/ ClearSending(i, t)

Reader(i) == ReaderLock(i) \/ ParseElement(i)

Terminating ==
    /\ \A i \in Instances : pc[i] = "closed"
    /\ UNCHANGED vars

Next ==
    \/ \E i \in Instances :
          \/ Main(i) \/ Physics(i) \/ Quit(i) \/ Close(i)
          \/ \E t \in Threads : Sender(i, t)
          \/ Reader(i) \/ Lose(i)
    \/ Terminating

Spec == Init /\ [][Next]_vars

\* The scheduler runs every thread, and the main thread sleeps without holding
\* element_mutex, so that the reader gets it in the end.  Nothing makes a player
\* quit, a ball meet something or the result be dismissed.
Fairness ==
    \A i \in Instances :
        /\ WF_vars(Main(i))
        /\ \A t \in Threads : WF_vars(Sender(i, t))
        /\ SF_vars(ReaderLock(i))
        /\ WF_vars(ParseElement(i))

FairSpec == Spec /\ Fairness

-----------------------------------------------------------------------------
(* Properties that hold whatever the network loses or reorders             *)

\* A paddle is steered by the instance whose paddle it is and by no other, so no
\* two players steer the same paddle (Paddle::is_controlled_by_this_game_instance,
\* which parse_game_element sets to the negation of what the sender says).
OneController ==
    \A i \in Instances : \A p \in Paddles \cap world[i].known :
        world[i].controlled[p] <=> p = OwnPaddle(i)

\* A ball is credited to the own paddle or to none: contacts with the peer's
\* paddle never move the points of a ball (UpdateElementsAfterContact).
LastPaddleIsOwn ==
    \A i \in Instances : \A ball \in Balls :
        world[i].lastPaddle[ball] \in {NoPaddle, OwnPaddle(i)}

\* paddle_ptrs is {your, enemy}, as its comment says, also while only a part of the
\* elements is known, and each back plate stands behind the paddle on its side:
\* the host plays at the bottom (find_paddle_ptrs).
PaddlePtrsRoles ==
    \A i \in Instances :
        /\ ptrs[i].your \in {NoPaddle, OwnPaddle(i)}
        /\ ptrs[i].enemy \in {NoPaddle, OwnPaddle(Peer(i))}
        /\ plates[i][0] \in {NoPaddle, ClientPaddle}
        /\ plates[i][1] \in {NoPaddle, HostPaddle}
        /\ plates[i][0] # NoPaddle <=> ptrs[i].your # NoPaddle /\ ptrs[i].enemy # NoPaddle

\* Nobody wins on a board that has not arrived yet: get_winner finds no brick in an
\* empty map, or in one that only holds what overtook the initial update.
WinnerKnowsBoard == \A i \in Instances : winner[i] >= 0 => world[i].known = Ids

\* Only the own main thread changes the own score: what the reader parses never
\* overwrites it, although every NetPaddle carries a score that is assigned.
OwnScoreAuthority ==
    [][\A i \in Instances :
          elementMutex[i] = "reader" =>
              world'[i].score[OwnPaddle(i)] = world[i].score[OwnPaddle(i)]]_vars

\* An own score that differs from the last one written into an update is still
\* marked for an update or waits in a thread that has not read it: did_update,
\* add_score and the late read of the fill thread never lose a change between them.
OwnScoreCovered ==
    \A i \in Instances :
        world[i].score[OwnPaddle(i)] # announced[i] =>
            \/ OwnPaddle(i) \in world[i].updated
            \/ \E t \in Threads : OwnPaddle(i) \in thread[i][t].todo

\* A contact that breaks a brick is paid for: the own paddle gets the point, so a
\* brick never breaks for a ball nobody here played (Brick::hit).
BrokenBrickIsScored ==
    [][\A i \in Instances : \A b \in Bricks :
          elementMutex[i] = "main" /\ BrickExists(world[i], b) /\ ~BrickExists(world'[i], b) =>
              world'[i].score[OwnPaddle(i)] = world[i].score[OwnPaddle(i)] + 1]_vars

-----------------------------------------------------------------------------
(* What becomes of the bricks                                              *)

Broken(i, b) == b \in world[i].known /\ world[i].duration[b] <= 0

\* The break of b is on its way from i to its peer.
BreakUnderWay(i, b) ==
    \/ b \in world[i].updated
    \/ \E t \in Threads : b \in thread[i][t].todo \/ TellsBroken(thread[i][t].msg, b)
    \/ \E k \in DOMAIN net[Peer(i)] : TellsBroken(net[Peer(i)][k], b)
    \/ TellsBroken(inbox[Peer(i)], b)

\* There are two ways only to forget the break of a brick: the reader loses the update
\* that tells of it, or parses the board after it.  No flag is cleared, no update dropped
\* because another is being sent, and no other update says otherwise, so a brick that is
\* broken here and exists there has its break under way or was forgotten like that.
BreakNotForgotten ==
    \A i \in Instances : \A b \in Bricks :
        Broken(i, b) /\ BrickExists(world[Peer(i)], b) /\ Open(i) /\ Open(Peer(i)) =>
            BreakUnderWay(i, b) \/ b \in forgotten[Peer(i)]

\* Once an instance has found both paddles, and so may look for a winner, no broken brick
\* comes back, whatever is lost: only the board could repair one, and it was parsed
\* before, under the same lock as the paddles.
PlayedBoardStays ==
    [][\A i \in Instances : \A b \in Bricks :
          ptrs[i].your # NoPaddle /\ ptrs[i].enemy # NoPaddle /\ Broken(i, b) => Broken(i, b)']_vars

\* A brick that is drawn can be hit, its body was not disabled; unless it is drawn at
\* the client, where the late board repaired it, and is broken at the host for good.
ShownBrickIsSolid ==
    \A i \in Instances : \A b \in Bricks :
        BrickExists(world[i], b) =>
            b \in world[i].enabled \/ (i = "client" /\ Broken("host", b))

\* An instance with a verdict has the whole board, and all of it is broken.
WinnerClearedBoard ==
    \A i \in Instances : winner[i] >= 0 => \A b \in Bricks : Broken(i, b)

-----------------------------------------------------------------------------
(* What must happen when nothing is lost and the board arrives first       *)

\* A brick broken in one instance breaks in the other, unless a connection closes.
BreakReachesPeer ==
    \A i \in Instances : \A b \in Bricks :
        Broken(i, b) ~> Broken(Peer(i), b) \/ \E j \in Instances : ~Open(j)

\* When one board is cleared both instances end the match, unless one closes early.
MatchEnds ==
    (\E i \in Instances : \A b \in Bricks : Broken(i, b)) ~>
        (\A i \in Instances : pc[i] = "over") \/ \E i \in Instances : ~Open(i)

-----------------------------------------------------------------------------
(* What the players are told                                               *)

\* show_winner tells one player that he has won ("Du hast gewonnnen!") and the
\* other that his opponent has ("Dein Gegner hat gewonnen!"), never both the same.
VerdictsAgree ==
    \A i \in Instances :
        /\ winner[i] = 0 => winner[Peer(i)] # 0
        /\ winner[i] = 1 => winner[Peer(i)] # 1

=============================================================================
