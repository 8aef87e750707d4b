----------------------------- MODULE Connection -----------------------------
(***************************************************************************)
(* Two Connection objects (connection.hpp) and the byte stream between     *)
(* them: the host waits for the connection, the client opens it, each send *)
(* runs in a detached thread and each end has a read_listener thread.      *)
(*                                                                         *)
(* A message is a GameUpdate, which is nothing but its elements.  The bytes *)
(* of an element are two units, and so are those of end_of_message, so     *)
(* that each of them can be cut.  The messages that an end sends are       *)
(* numbered in the order of the calls of send.                             *)
(***************************************************************************)
EXTENDS Naturals, Sequences, FiniteSets, SequencesExt, FiniteSetsExt

CONSTANTS
    Threads,       \* slots for the threads of send of an end
    MaxCalls,      \* bound: calls of send, for each end
    Closers,       \* the ends that may close their connection
    Size,          \* how many elements a message has
    PartialWrites, \* write_some may write a part of the message
    Embedding      \* messages in the bytes of whose last element end_of_message occurs

Ends == {"host", "client"}
Peer(e) == IF e = "host" THEN "client" ELSE "host"

Messages == 1 .. (IF MaxCalls["host"] > MaxCalls["client"]
                  THEN MaxCalls["host"] ELSE MaxCalls["client"])

ASSUME ConnectionAssumption ==
    /\ IsFiniteSet(Threads)
    /\ MaxCalls \in [Ends -> Nat]
    /\ Closers \subseteq Ends
    /\ Size \in [Messages -> Nat \ {0}]
    /\ PartialWrites \in BOOLEAN
    /\ Embedding \subseteq Nat

VARIABLES
    phase,      \* what the end's own connect_to or wait_for_connection has reached
    connected,  \* m_connected
    reader,     \* the read_listener thread
    thread,     \* the threads of send
    sending,    \* m_sending
    calls,      \* calls of send so far
    wire,       \* the units written towards an end and not read yet
    written,    \* history: the elements of the messages written towards an end, or cut
    delivered,  \* history: those of them given to the receivers of an end
    garbled,    \* history: the receivers of an end got an element that nobody wrote
    sent,       \* m_gu_send_counter
    received    \* m_gu_receive_counter

connectVars == <<phase, connected, reader>>
sendVars == <<thread, sending, calls, sent>>
readVars == <<delivered, garbled, received>>
vars == <<connectVars, sendVars, wire, written, readVars>>

-----------------------------------------------------------------------------

Element == {x \in [msg : Messages, nr : Nat \ {0}] : x.nr <= Size[x.msg]}
Delimiter == [msg |-> 0, nr |-> 0]
Unit == [of : Element \cup {Delimiter}, half : {1, 2}]

Elements(m) == [k \in 1 .. Size[m] |-> [msg |-> m, nr |-> k]]

\* What SerializeAsString makes of message m: its elements one after the other.
Payload(m) ==
    [i \in 1 .. 2 * Size[m] |-> [of |-> Elements(m)[(i + 1) \div 2], half |-> 2 - (i % 2)]]

EndOfMessage == <<[of |-> Delimiter, half |-> 1], [of |-> Delimiter, half |-> 2]>>

\* The bytes that send writes for message m.
Encode(m) ==
    LET n == 2 * Size[m]
    IN IF m \in Embedding
       THEN SubSeq(Payload(m), 1, n - 1) \o EndOfMessage
               \o SubSeq(Payload(m), n, n) \o EndOfMessage
       ELSE Payload(m) \o EndOfMessage

\* Where an element stands whole, and where end_of_message ends.
Starts(units) ==
    {i \in 1 .. (Len(units) - 1) :
        /\ units[i].of # Delimiter /\ units[i].half = 1
        /\ units[i + 1] = [units[i] EXCEPT !.half = 2]}
Delimiters(units) ==
    {k \in 2 .. Len(units) : units[k - 1] = EndOfMessage[1] /\ units[k] = EndOfMessage[2]}

Rank(S, x) == Cardinality({y \in S : y <= x})
Nth(S, n) == CHOOSE x \in S : Rank(S, x) = n

\* The whole elements in units, in their order.
Intact(units) ==
    LET starts == Starts(units)
    IN [n \in 1 .. Cardinality(starts) |-> units[Nth(starts, n)].of]

Phases == {"start", "listening", "connected", "failed", "closed"}
ThreadPcs == {"idle", "set", "write", "clear"}
IdleThread == [pc |-> "idle", msg |-> 0]

TypeOK ==
    /\ phase \in [Ends -> Phases]
    /\ connected \in [Ends -> BOOLEAN]
    /\ reader \in [Ends -> {"off", "reading", "stopped"}]
    /\ thread \in [Ends -> [Threads -> [pc : ThreadPcs, msg : Messages \cup {0}]]]
    /\ sending \in [Ends -> BOOLEAN]
    /\ calls \in [Ends -> Nat]
    /\ wire \in [Ends -> Seq(Unit)]
    /\ written \in [Ends -> Seq(Element)]
    /\ delivered \in [Ends -> Seq(Element)]
    /\ garbled \in [Ends -> BOOLEAN]
    /\ sent \in [Ends -> Nat]
    /\ received \in [Ends -> Nat]

Init ==
    /\ phase = [e \in Ends |-> "start"]
    /\ connected = [e \in Ends |-> FALSE]
    /\ reader = [e \in Ends |-> "off"]
    /\ thread = [e \in Ends |-> [t \in Threads |-> IdleThread]]
    /\ sending = [e \in Ends |-> FALSE]
    /\ calls = [e \in Ends |-> 0]
    /\ wire = [e \in Ends |-> <<>>]
    /\ written = [e \in Ends |-> <<>>]
    /\ delivered = [e \in Ends |-> <<>>]
    /\ garbled = [e \in Ends |-> FALSE]
    /\ sent = [e \in Ends |-> 0]
    /\ received = [e \in Ends |-> 0]

-----------------------------------------------------------------------------
(* Connecting and closing                                                  *)

\* wait_for_connection_on_this_thread binds its acceptor, or throws.
Listen ==
    /\ phase["host"] = "start"
    /\ \/ phase' = [phase EXCEPT !["host"] = "listening"]
       \/ phase' = [phase EXCEPT !["host"] = "failed"]
    /\ UNCHANGED <<connected, reader, sendVars, wire, written, readVars>>

\* connect_to succeeds once the host listens, even before the host accepts.
Connect ==
    /\ phase["client"] = "start"
    /\ phase["host"] = "listening"
    /\ phase' = [phase EXCEPT !["client"] = "connected"]
    /\ connected' = [connected EXCEPT !["client"] = TRUE]
    /\ reader' = [reader EXCEPT !["client"] = "reading"]
    /\ UNCHANGED <<sendVars, wire, written, readVars>>

\* Nobody listens: connect throws, and the end never tries again.
ConnectFails ==
    /\ phase["client"] = "start"
    /\ phase["host"] \in {"start", "failed"}
    /\ phase' = [phase EXCEPT !["client"] = "failed"]
    /\ UNCHANGED <<connected, reader, sendVars, wire, written, readVars>>

Accept ==
    /\ phase["host"] = "listening"
    /\ phase["client"] \in {"connected", "closed"}
    /\ phase' = [phase EXCEPT !["host"] = "connected"]
    /\ connected' = [connected EXCEPT !["host"] = TRUE]
    /\ reader' = [reader EXCEPT !["host"] = "reading"]
    /\ UNCHANGED <<sendVars, wire, written, readVars>>

Close(e) ==
    /\ e \in Closers
    /\ phase[e] = "connected"
    /\ phase' = [phase EXCEPT ![e] = "closed"]
    /\ UNCHANGED <<connected, reader, sendVars, wire, written, readVars>>

-----------------------------------------------------------------------------
(* Sending                                                                 *)

\* send is called once connecting is over; the host's first update even if it failed,
\* and a thread that filled an update even after close.  An unforced update is dropped
\* while m_sending is set; any other gets a thread of its own.
Send(e, forced) ==
    /\ phase[e] \in {"connected", "closed"} \cup (IF e = "host" THEN {"failed"} ELSE {})
    /\ calls[e] < MaxCalls[e]
    /\ calls' = [calls EXCEPT ![e] = @ + 1]
    /\ IF ~forced /\ sending[e]
       THEN UNCHANGED thread
       ELSE \E t \in Threads :
               /\ thread[e][t].pc = "idle"
               /\ thread' = [thread EXCEPT ![e][t] = [pc |-> "set", msg |-> calls'[e]]]
    /\ UNCHANGED <<connectVars, sending, wire, written, readVars, sent>>

SetSending(e, t) ==
    /\ thread[e][t].pc = "set"
    /\ thread' = [thread EXCEPT ![e][t].pc = "write"]
    /\ sending' = [sending EXCEPT ![e] = TRUE]
    /\ UNCHANGED <<connectVars, calls, wire, written, readVars, sent>>

\* The unit counts that one call of write_some may transmit.
WriteSizes(m) == IF PartialWrites THEN 1 .. Len(Encode(m)) ELSE {Len(Encode(m))}

\* write_some on an open connection; the peer may have closed it without knowing.
WriteSome(e, t) ==
    /\ thread[e][t].pc = "write"
    /\ phase[e] = "connected"
    /\ \E n \in WriteSizes(thread[e][t].msg) :
          wire' = [wire EXCEPT ![Peer(e)] = @ \o SubSeq(Encode(thread[e][t].msg), 1, n)]
    /\ written' = [written EXCEPT ![Peer(e)] = @ \o Elements(thread[e][t].msg)]
    /\ thread' = [thread EXCEPT ![e][t].pc = "clear"]
    /\ UNCHANGED <<connectVars, sending, calls, readVars, sent>>

\* Mutant: the exception of write_some ends the thread before it clears m_sending.
WriteFailsForGood(e, t) ==
    /\ thread[e][t].pc = "write"
    /\ phase[e] \in {"failed", "closed"} \/ phase[Peer(e)] = "closed"
    /\ thread' = [thread EXCEPT ![e][t] = IdleThread]
    /\ UNCHANGED <<connectVars, sending, calls, wire, written, readVars, sent>>

\* write_some throws or its bytes go nowhere; the exception is swallowed.
WriteFails(e, t) ==
    /\ thread[e][t].pc = "write"
    /\ phase[e] \in {"failed", "closed"} \/ phase[Peer(e)] = "closed"
    /\ thread' = [thread EXCEPT ![e][t].pc = "clear"]
    /\ UNCHANGED <<connectVars, sending, calls, wire, written, readVars, sent>>

\* Mutant: the counter of the sent updates runs down.
ClearCountsDown(e, t) ==
    /\ thread[e][t].pc = "clear"
    /\ thread' = [thread EXCEPT ![e][t] = IdleThread]
    /\ sending' = [sending EXCEPT ![e] = FALSE]
    /\ sent' = [sent EXCEPT ![e] = @ - 1]
    /\ UNCHANGED <<connectVars, calls, wire, written, readVars>>

\* m_sending is cleared and the update counted, whatever became of it.
ClearSending(e, t) ==
    /\ thread[e][t].pc = "clear"
    /\ thread' = [thread EXCEPT ![e][t] = IdleThread]
    /\ sending' = [sending EXCEPT ![e] = FALSE]
    /\ sent' = [sent EXCEPT ![e] = @ + 1]
    /\ UNCHANGED <<connectVars, calls, wire, written, readVars>>

-----------------------------------------------------------------------------
(* Reading                                                                 *)

\* Mutant: read_until matches the last end_of_message it has got.
LastFrame(units) == Max(Delimiters(units))

\* The length of the first frame of units, with its delimiter.
FirstFrame(units) ==
    CHOOSE k \in Delimiters(units) : \A j \in Delimiters(units) : k <= j

\* A connection promises what Channel says of the elements it carries.
C == INSTANCE Channel WITH
        queue <- [e \in Ends |-> Intact(wire[e])],
        Messages <- {Elements(m) : m \in Messages}

\* What the receivers may get from the bytes of one frame.  A GameUpdate is a repeated
\* field, so whole elements parse to just these elements, whichever messages they come
\* from.  Where a piece of an element or of end_of_message stands between them,
\* ParseFromString fails, skips it with any elements behind it, or makes some element of it.
Updates(units) ==
    LET starts == Starts(units)
    IN IF \A i \in DOMAIN units : i \in starts \/ i - 1 \in starts
       THEN [elements : {Intact(units)}, garbled : {FALSE}]
       ELSE [elements : C!Remains(Intact(units)), garbled : BOOLEAN]

\* What the receivers of end e make of one frame: received counts it if it parses or not.
Receive(e, frame) ==
    /\ \E update \in Updates(frame) :
          /\ delivered' = [delivered EXCEPT ![e] = @ \o update.elements]
          /\ garbled' = [garbled EXCEPT ![e] = @ \/ update.garbled]
    /\ received' = [received EXCEPT ![e] = @ + 1]

\* Mutant: the buffer outlives the read, but what was read is not consumed.
ReadWithoutConsume(e) ==
    /\ reader[e] = "reading"
    /\ Delimiters(wire[e]) # {}
    /\ Receive(e, SubSeq(wire[e], 1, FirstFrame(wire[e]) - 2))
    /\ UNCHANGED <<connectVars, sendVars, wire, written>>

\* Mutant: end_of_message itself is left for the next read.
ReadLeavingDelimiter(e) ==
    /\ reader[e] = "reading"
    /\ Delimiters(wire[e]) # {}
    /\ wire' = [wire EXCEPT ![e] = SubSeq(@, FirstFrame(@) - 1, Len(@))]
    /\ Receive(e, SubSeq(wire[e], 1, FirstFrame(wire[e]) - 2))
    /\ UNCHANGED <<connectVars, sendVars, written>>

\* read_until takes n units from the socket, at least up to the first end_of_message;
\* its streambuf goes out of scope with whatever follows.  A read that close() meets
\* may still return.
Read(e) ==
    /\ reader[e] = "reading"
    /\ Delimiters(wire[e]) # {}
    /\ \E n \in FirstFrame(wire[e]) .. Len(wire[e]) :
          wire' = [wire EXCEPT ![e] = SubSeq(@, n + 1, Len(@))]
    /\ Receive(e, SubSeq(wire[e], 1, FirstFrame(wire[e]) - 2))
    /\ UNCHANGED <<connectVars, sendVars, written>>

\* read_until sets ec: the connection was closed here or there, what is on the wire is
\* lost, and the thread ends.
ReadFails(e) ==
    /\ reader[e] = "reading"
    /\ phase[e] = "closed" \/ phase[Peer(e)] = "closed"
    /\ reader' = [reader EXCEPT ![e] = "stopped"]
    /\ wire' = [wire EXCEPT ![e] = <<>>]
    /\ UNCHANGED <<phase, connected, sendVars, written, readVars>>

-----------------------------------------------------------------------------

Connecting == Listen \/ Connect \/ ConnectFails \/ Accept

Sender(e, t) ==
    SetSending(e, t) \/ WriteSome(e, t) \/ WriteFails(e, t) \/ ClearSending(e, t)

Next ==
    \/ Connecting
    \/ \E e \in Ends :
          \/ Close(e)
          \/ \E forced \in BOOLEAN : Send(e, forced)
          \/ \E t \in Threads : Sender(e, t)
          \/ Read(e)
          \/ ReadFails(e)

Spec == Init /\ [][Next]_vars

\* The threads of send are scheduled; nobody has to connect, send, read or close.
Fairness == \A e \in Ends : \A t \in Threads : WF_vars(Sender(e, t))

FairSpec == Spec /\ Fairness

-----------------------------------------------------------------------------
(* Properties                                                              *)

\* Two Connections are a Channel.  Elements are cut in two, run together with those of
\* other messages and lose what stands before or behind them, and an end may even get
\* elements that nobody wrote; but none that was written is handed over twice or
\* overtaken by one that was written after it.
ImplementsChannel == C!Spec

\* A message that stands whole at the front of the wire gets through, exactly as it was
\* written, whatever the threads of send write behind it meanwhile and unless the
\* connection is closed.  Only one that follows another, or the rest of one, can be lost
\* or changed: it is the load that loses updates.
OnlyFollowersLost ==
    [][\A e \in Ends : \A m \in Messages \ Embedding :
          \/ ~IsPrefix(Encode(m), wire[e])
          \/ IsPrefix(Encode(m), wire'[e])
          \/ delivered'[e] = delivered[e] \o Elements(m) /\ garbled'[e] = garbled[e]
          \/ \E end \in Ends : phase[end] = "closed"]_vars

\* The counters shown to the players: an end never counts more received updates than
\* the peer has sent or is about to count, but for the messages that hold
\* end_of_message in their bytes, which count twice.
ReceivedWasSent ==
    \A e \in Ends :
        received[e] <= sent[Peer(e)]
            + Cardinality({t \in Threads : thread[Peer(e)][t].pc = "clear"})
            + Cardinality(Embedding \cap {written[e][i].msg : i \in DOMAIN written[e]})

\* m_sending is one flag for all threads of send, set and cleared by each of them
\* around a write that may throw; it never stays set, which would silence the paddle.
SendingClears == \A e \in Ends : sending[e] ~> ~sending[e]

\* read_until leaves what follows end_of_message for the next read_until.
ReadKeepsRest ==
    [][\A e \in Ends :
          received'[e] > received[e] =>
              wire'[e] = SubSeq(wire[e], FirstFrame(wire[e]) + 1, Len(wire[e]))]_vars

=============================================================================
