-------------------------------- MODULE Locks --------------------------------
(***************************************************************************)
(* The threads of one game instance and all of its mutexes: main.cpp takes *)
(* element_mutex and game_update_mutex, connection.hpp five more.  A step  *)
(* takes a mutex, releases one, or visits it: takes it for one statement.  *)
(*                                                                         *)
(* The physics world is locked as well, by a flag of its own: b2World      *)
(* refuses to create, move or disable a body during Step (b2_world.cpp,    *)
(* b2_body.cpp), and only element_mutex keeps that from happening.         *)
(***************************************************************************)
EXTENDS Naturals, FiniteSets

CONSTANTS
    Fillers,  \* slots for the threads of create_and_send_new_game_update
    Senders   \* slots for the threads of send

ASSUME LocksAssumption ==
    /\ Fillers \cap Senders = {}
    /\ {"main", "reader"} \cap (Fillers \cup Senders) = {}
    /\ "none" \notin Fillers \cup Senders

Threads == {"main", "reader"} \cup Fillers \cup Senders

\* The mutexes in the order in which nested ones are taken.
Rank ==
    [receivers |-> 1, elements |-> 2, gameUpdate |-> 3, connected |-> 4,
     send |-> 5, sendCounter |-> 6, receiveCounter |-> 7]
Mutexes == DOMAIN Rank

VARIABLES
    pc,          \* where each thread is
    owner,       \* who holds a mutex
    connected,   \* m_connected
    sending,     \* m_sending
    worldLocked, \* b2World::m_locked
    brick,       \* a brick: whole, broken, or broken with its body disabled
    refused      \* history: b2World refused an operation because it was locked

flags == <<connected, sending>>
physics == <<worldLocked, brick, refused>>
vars == <<pc, owner, flags, physics>>

-----------------------------------------------------------------------------

\* The mutex that a thread asks for next, by where it is.
Wants ==
    [register |-> "receivers", ask |-> "connected", connect |-> "connected",
     join |-> "connected", show |-> "connected", generate |-> "elements",
     sendBoard |-> "send", enter |-> "connected", draw |-> "elements",
     showSent |-> "sendCounter", showReceived |-> "receiveCounter",
     step |-> "elements", check |-> "elements",
     close |-> "gameUpdate", closing |-> "connected",
     call |-> "receivers", receive |-> "elements", countReceived |-> "receiveCounter",
     fill |-> "gameUpdate", test |-> "send",
     set |-> "send", clear |-> "send", countSent |-> "sendCounter"]

MainPcs ==
    {"register", "ask", "connect", "connecting", "join", "show", "generate", "sendBoard",
     "generated", "enter", "draw", "drawing", "showSent", "showReceived", "step",
     "stepping", "world", "check", "checking", "over", "close", "closing", "closeSocket",
     "returned"}
ReaderPcs ==
    {"off", "reading", "call", "receive", "parsing", "parsed", "called",
     "countReceived", "stopped"}
FillerPcs == {"off", "fill", "filling", "test", "tested"}
SenderPcs == {"off", "set", "write", "clear", "countSent"}

Pcs(t) ==
    IF t = "main" THEN MainPcs
    ELSE IF t = "reader" THEN ReaderPcs
    ELSE IF t \in Fillers THEN FillerPcs ELSE SenderPcs

TypeOK ==
    /\ pc \in [Threads -> UNION {Pcs(t) : t \in Threads}]
    /\ \A t \in Threads : pc[t] \in Pcs(t)
    /\ owner \in [Mutexes -> Threads \cup {"none"}]
    /\ connected \in BOOLEAN
    /\ sending \in BOOLEAN
    /\ worldLocked \in BOOLEAN
    /\ brick \in {"whole", "broken", "disabled"}
    /\ refused \in BOOLEAN

Init ==
    /\ pc = [t \in Threads |-> IF t = "main" THEN "register" ELSE "off"]
    /\ owner = [m \in Mutexes |-> "none"]
    /\ connected = FALSE
    /\ sending = FALSE
    /\ worldLocked = FALSE
    /\ brick = "whole"
    /\ refused = FALSE

GoTo(t, from, to) == pc[t] = from /\ pc' = [pc EXCEPT ![t] = to]

\* Thread t gets the mutex it wants and keeps it.
Take(t, from, to) ==
    /\ GoTo(t, from, to)
    /\ owner[Wants[from]] = "none"
    /\ owner' = [owner EXCEPT ![Wants[from]] = t]

\* Thread t gets the mutex it wants and releases it in the same statement or block.
Visit(t, from) ==
    /\ pc[t] = from
    /\ owner[Wants[from]] = "none"
    /\ UNCHANGED owner

Release(ms) == owner' = [m \in Mutexes |-> IF m \in ms THEN "none" ELSE owner[m]]

\* CreateBody, CreateFixture, SetTransform and SetEnabled: refused during Step.
Touch == refused' = (refused \/ worldLocked)

\* The slots of the given kind that are free for a new thread.
Start(slots, to, t, next) ==
    \E s \in slots :
        /\ pc[s] = "off"
        /\ pc' = [pc EXCEPT ![s] = to, ![t] = next]

-----------------------------------------------------------------------------
(* main before the match                                                   *)

RegisterReceiver ==
    /\ Visit("main", "register")
    /\ GoTo("main", "register", "ask")
    /\ UNCHANGED <<flags, physics>>

\* The thread of connect_to or wait_for_connection, which main joins at once.  The
\* acceptor of the host may already fail to bind.
AskConnected ==
    /\ Visit("main", "ask")
    /\ GoTo("main", "ask", "connect") \/ GoTo("main", "ask", "join")
    /\ UNCHANGED <<flags, physics>>

LockConnected ==
    /\ Take("main", "connect", "connecting")
    /\ UNCHANGED <<flags, physics>>

\* connect or accept returns, or throws; it blocks as long as nobody is there.
Connected ==
    /\ GoTo("main", "connecting", "join")
    /\ connected' \in BOOLEAN
    /\ Release({"connected"})
    /\ UNCHANGED <<sending, physics>>

\* After the join: read_listener.
Join ==
    /\ Visit("main", "join")
    /\ pc' = [pc EXCEPT !["main"] = "show",
                        !["reader"] = IF connected THEN "reading" ELSE "off"]
    /\ UNCHANGED <<flags, physics>>

\* show_connecting_state; only the host generates the board.
ShowConnecting ==
    /\ Visit("main", "show")
    /\ GoTo("main", "show", "generate") \/ GoTo("main", "show", "enter")
    /\ UNCHANGED <<flags, physics>>

Generate ==
    /\ Take("main", "generate", "sendBoard")
    /\ Touch
    /\ UNCHANGED <<flags, worldLocked, brick>>

\* send, while element_mutex is held.
SendBoard ==
    /\ Visit("main", "sendBoard")
    /\ Start(Senders, "set", "main", "generated")
    /\ UNCHANGED <<flags, physics>>

Generated ==
    /\ GoTo("main", "generated", "enter")
    /\ Release({"elements"})
    /\ UNCHANGED <<flags, physics>>

Enter ==
    /\ Visit("main", "enter")
    /\ GoTo("main", "enter", IF connected THEN "draw" ELSE "returned")
    /\ UNCHANGED <<flags, physics>>

-----------------------------------------------------------------------------
(* run_game                                                                *)

DrawLock ==
    /\ Take("main", "draw", "drawing")
    /\ UNCHANGED <<flags, physics>>

\* Brick::exists, called by draw and by get_winner.
Exists ==
    /\ pc["main"] \in {"drawing", "checking"}
    /\ brick = "broken"
    /\ brick' = "disabled"
    /\ Touch
    /\ UNCHANGED <<pc, owner, flags, worldLocked>>

DrawUnlock ==
    /\ GoTo("main", "drawing", "showSent")
    /\ Release({"elements"})
    /\ UNCHANGED <<flags, physics>>

\* draw_information_texts
ShowSent ==
    /\ Visit("main", "showSent")
    /\ GoTo("main", "showSent", "showReceived")
    /\ UNCHANGED <<flags, physics>>

ShowReceived ==
    /\ Visit("main", "showReceived")
    /\ GoTo("main", "showReceived", "step")
    /\ UNCHANGED <<flags, physics>>

StepLock ==
    /\ Take("main", "step", "stepping")
    /\ UNCHANGED <<flags, physics>>

\* update_paddle_position moves the paddle's body, then b2World::Step begins.
StepWorld ==
    /\ GoTo("main", "stepping", "world")
    /\ Touch
    /\ worldLocked' = TRUE
    /\ UNCHANGED <<owner, flags, brick>>

\* EndContact during Step: the brick loses its last point, its body stays.
Contact ==
    /\ pc["main"] = "world"
    /\ brick = "whole"
    /\ brick' = "broken"
    /\ UNCHANGED <<pc, owner, flags, worldLocked, refused>>

\* Mutant: the lock of the frame's step lives on to the end of the frame.
StepEndHoldingLock ==
    /\ pc["main"] = "world"
    /\ worldLocked' = FALSE
    /\ UNCHANGED owner
    /\ \/ Start(Fillers, "fill", "main", "check")
       \/ GoTo("main", "world", "check")
    /\ UNCHANGED <<flags, brick, refused>>

\* Step ends, element_mutex is released, and an update is filled if there is one.
StepEnd ==
    /\ pc["main"] = "world"
    /\ worldLocked' = FALSE
    /\ Release({"elements"})
    /\ \/ Start(Fillers, "fill", "main", "check")
       \/ GoTo("main", "world", "check")
    /\ UNCHANGED <<flags, brick, refused>>

\* Every frame_rate-th frame looks for a winner.
SkipCheck ==
    /\ GoTo("main", "check", "draw")
    /\ UNCHANGED <<owner, flags, physics>>

CheckLock ==
    /\ Take("main", "check", "checking")
    /\ UNCHANGED <<flags, physics>>

CheckUnlock ==
    /\ GoTo("main", "checking", "draw") \/ GoTo("main", "checking", "over")
    /\ Release({"elements"})
    /\ UNCHANGED <<flags, physics>>

\* Escape: the loop has quitted.
Quit ==
    /\ GoTo("main", "draw", "over")
    /\ UNCHANGED <<owner, flags, physics>>

\* The player dismisses what show_winner shows.
Dismiss ==
    /\ GoTo("main", "over", "close")
    /\ UNCHANGED <<owner, flags, physics>>

CloseLock ==
    /\ Take("main", "close", "closing")
    /\ UNCHANGED <<flags, physics>>

\* Connection::close
Close ==
    /\ Take("main", "closing", "closeSocket")
    /\ UNCHANGED <<flags, physics>>

\* The socket is closed and main's lambda returns; what the threads that are left do
\* with its locals is beyond the model.
Return ==
    /\ GoTo("main", "closeSocket", "returned")
    /\ Release({"connected", "gameUpdate"})
    /\ UNCHANGED <<flags, physics>>

-----------------------------------------------------------------------------
(* read_listener                                                           *)

\* read_until returns an update, one that does not parse, or an error.
ReadUntil ==
    /\ \E next \in {"call", "countReceived", "stopped"} : GoTo("reader", "reading", next)
    /\ UNCHANGED <<owner, flags, physics>>

CallReceivers ==
    /\ Take("reader", "call", "receive")
    /\ UNCHANGED <<flags, physics>>

\* Mutant: the receiver does not take element_mutex.
ReceiveUnlocked ==
    /\ GoTo("reader", "receive", "parsing")
    /\ UNCHANGED <<owner, flags, physics>>

Receive ==
    /\ Take("reader", "receive", "parsing")
    /\ UNCHANGED <<flags, physics>>

\* parse_game_update creates or moves bodies, and may break the brick.
Parse ==
    /\ GoTo("reader", "parsing", "parsed")
    /\ brick' \in {brick, IF brick = "whole" THEN "broken" ELSE brick}
    /\ Touch
    /\ UNCHANGED <<owner, flags, worldLocked>>

Parsed ==
    /\ GoTo("reader", "parsed", "called")
    /\ Release({"elements"})
    /\ UNCHANGED <<flags, physics>>

\* Mutant: m_receivers_mutex is locked for the whole round of the loop.
CalledHoldingLock ==
    /\ GoTo("reader", "called", "countReceived")
    /\ UNCHANGED <<owner, flags, physics>>

Called ==
    /\ GoTo("reader", "called", "countReceived")
    /\ Release({"receivers"})
    /\ UNCHANGED <<flags, physics>>

CountReceived ==
    /\ Visit("reader", "countReceived")
    /\ GoTo("reader", "countReceived", "reading")
    /\ UNCHANGED <<flags, physics>>

-----------------------------------------------------------------------------
(* The threads of an update                                                *)

FillLock(f) ==
    /\ Take(f, "fill", "filling")
    /\ UNCHANGED <<flags, physics>>

\* fill_game_update takes no mutex of the elements.
Fill(f) ==
    /\ GoTo(f, "filling", "test")
    /\ UNCHANGED <<owner, flags, physics>>

\* Mutant: the fill thread writes the update itself.
TestAndWrite(f) ==
    /\ Visit(f, "test")
    /\ GoTo(f, "test", "write")
    /\ UNCHANGED <<flags, physics>>

\* send: an update of paddles alone is dropped while another is being sent.
TestSending(f) ==
    /\ Visit(f, "test")
    /\ \/ sending /\ GoTo(f, "test", "tested")
       \/ Start(Senders, "set", f, "tested")
    /\ UNCHANGED <<flags, physics>>

\* Mutant: one thread fills one update after the other.
FillUnlockRepeating(f) ==
    /\ GoTo(f, "tested", "fill")
    /\ Release({"gameUpdate"})
    /\ UNCHANGED <<flags, physics>>

FillUnlock(f) ==
    /\ GoTo(f, "tested", "off")
    /\ Release({"gameUpdate"})
    /\ UNCHANGED <<flags, physics>>

SetSending(s) ==
    /\ Visit(s, "set")
    /\ GoTo(s, "set", "write")
    /\ sending' = TRUE
    /\ UNCHANGED <<connected, physics>>

\* write_some returns or throws.
WriteSome(s) ==
    /\ GoTo(s, "write", "clear")
    /\ UNCHANGED <<owner, flags, physics>>

ClearSending(s) ==
    /\ Visit(s, "clear")
    /\ GoTo(s, "clear", "countSent")
    /\ sending' = FALSE
    /\ UNCHANGED <<connected, physics>>

CountSent(s) ==
    /\ Visit(s, "countSent")
    /\ GoTo(s, "countSent", "off")
    /\ UNCHANGED <<flags, physics>>

-----------------------------------------------------------------------------

Setup ==
    \/ RegisterReceiver \/ AskConnected \/ LockConnected \/ Connected \/ Join
    \/ ShowConnecting \/ Generate \/ SendBoard \/ Generated \/ Enter

Frame ==
    \/ DrawLock \/ Exists \/ DrawUnlock \/ ShowSent \/ ShowReceived
    \/ StepLock \/ StepWorld \/ Contact \/ StepEnd
    \/ SkipCheck \/ CheckLock \/ CheckUnlock \/ Quit

Closing == CloseLock \/ Close \/ Return

Reader ==
    \/ ReadUntil \/ CallReceivers \/ Receive \/ Parse \/ Parsed \/ Called
    \/ CountReceived

Filler(f) == FillLock(f) \/ Fill(f) \/ TestSending(f) \/ FillUnlock(f)

Sender(s) == SetSending(s) \/ WriteSome(s) \/ ClearSending(s) \/ CountSent(s)

\* main's lambda has not returned yet.
Running == pc["main"] # "returned"

Next ==
    \/ Setup \/ Frame \/ Dismiss \/ Closing
    \/ Running /\ Reader
    \/ Running /\ \E f \in Fillers : Filler(f)
    \/ Running /\ \E s \in Senders : Sender(s)
    \/ ~Running /\ UNCHANGED vars

Spec == Init /\ [][Next]_vars

\* Every thread is run, but no mutex is handed out in any order: a thread that finds
\* its mutex taken again and again may wait for ever.
Fairness ==
    /\ WF_vars(Closing)
    /\ \A f \in Fillers : WF_vars(Running /\ Filler(f))
    /\ \A s \in Senders : WF_vars(Running /\ Sender(s))

FairSpec == Spec /\ Fairness

-----------------------------------------------------------------------------
(* Properties                                                              *)

Waiting(t) == pc[t] \in DOMAIN Wants

\* A thread asks for a mutex only while all it holds come before it: the receiver takes
\* element_mutex under m_receivers_mutex, main sends the board under element_mutex,
\* the fill thread calls send, and main close, under game_update_mutex.
LockOrder ==
    \A t \in Threads : Waiting(t) =>
        \A m \in Mutexes : owner[m] = t => Rank[m] < Rank[Wants[pc[t]]]

\* No threads wait for each other in a circle, and none for itself: std::mutex is
\* not recursive, and run_game locks element_mutex three times in a frame.
NoCircularWait ==
    \A circle \in (SUBSET Threads) \ {{}} :
        \E t \in circle : ~Waiting(t) \/ owner[Wants[pc[t]]] \notin circle

\* b2World is never asked to create, move or disable a body during Step, which it would
\* refuse (CreateBody would return nullptr to the constructor of an element): neither
\* by the receiver nor by a contact that breaks a brick.
NothingRefused == ~refused

\* Once the result is dismissed main's lambda returns, although close needs a mutex
\* that the fill threads compete for and that is given to them in any order.
CloseReturns == pc["main"] = "close" ~> pc["main"] = "returned"

\* What asio says of a socket shared by threads: "Synchronous send, receive, connect,
\* and shutdown operations are thread safe with respect to each other"; "open or
\* close, are not thread safe".
CloseIsAlone ==
    pc["main"] = "closeSocket" =>
        pc["reader"] # "reading" /\ \A s \in Senders : pc[s] # "write"

=============================================================================
