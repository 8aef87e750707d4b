----------------------------- MODULE LocksProofs -----------------------------
(* Theorems about Locks, for any number of threads that fill or send updates. *)
EXTENDS Locks, TLAPS

\* Where a thread holds a mutex.
Section ==
    [receivers |-> {"receive", "parsing", "parsed", "called"},
     elements |-> {"sendBoard", "generated", "drawing", "stepping", "world", "checking",
                   "parsing", "parsed"},
     gameUpdate |-> {"closing", "closeSocket", "filling", "test", "tested"},
     connected |-> {"connecting", "closeSocket"},
     send |-> {}, sendCounter |-> {}, receiveCounter |-> {}]

Held(place) == {m \in Mutexes : place \in Section[m]}

HoldInv == \A m \in Mutexes : \A t \in Threads : owner[m] = t <=> m \in Held(pc[t])

WorldInv == worldLocked => pc["main"] = "world"

LEMMA MutexNames ==
    Mutexes = {"receivers", "elements", "gameUpdate", "connected", "send", "sendCounter",
               "receiveCounter"}
BY DEF Mutexes, Rank

LEMMA ThreadKinds ==
    /\ "main" \in Threads /\ "reader" \in Threads
    /\ \A f \in Fillers : f \in Threads /\ f # "main" /\ f # "reader" /\ f \notin Senders
    /\ \A s \in Senders : s \in Threads /\ s # "main" /\ s # "reader" /\ s \notin Fillers
    /\ "none" \notin Threads
BY LocksAssumption DEF Threads

LEMMA PcKinds ==
    /\ Pcs("main") = MainPcs
    /\ Pcs("reader") = ReaderPcs
    /\ \A f \in Fillers : Pcs(f) = FillerPcs
    /\ \A s \in Senders : Pcs(s) = SenderPcs
BY ThreadKinds DEF Pcs

LEMMA MainHeld ==
    /\ \A p \in {"register", "ask", "connect", "join", "show", "generate", "enter", "draw",
                 "showSent", "showReceived", "step", "check", "over", "close", "returned"} :
          Held(p) = {}
    /\ \A p \in {"sendBoard", "generated", "drawing", "stepping", "world", "checking"} :
          Held(p) = {"elements"}
    /\ Held("connecting") = {"connected"}
    /\ Held("closing") = {"gameUpdate"}
    /\ Held("closeSocket") = {"gameUpdate", "connected"}
BY MutexNames DEF Held, Section

LEMMA OtherHeld ==
    /\ \A p \in {"off", "reading", "call", "countReceived", "stopped", "fill", "set", "write",
                 "clear", "countSent"} : Held(p) = {}
    /\ Held("receive") = {"receivers"}
    /\ Held("parsing") = {"receivers", "elements"}
    /\ Held("parsed") = {"receivers", "elements"}
    /\ Held("called") = {"receivers"}
    /\ \A p \in {"filling", "test", "tested"} : Held(p) = {"gameUpdate"}
BY MutexNames DEF Held, Section

PcType ==
    /\ pc \in [Threads -> UNION {Pcs(t) : t \in Threads}]
    /\ \A t \in Threads : pc[t] \in Pcs(t)

LockInv == PcType /\ owner \in [Mutexes -> Threads \cup {"none"}] /\ HoldInv

\* A thread moves on and holds what it held.
LEMMA Moved ==
    ASSUME LockInv, NEW t \in Threads, NEW to \in Pcs(t),
           pc' = [pc EXCEPT ![t] = to], owner' = owner, Held(to) = Held(pc[t])
    PROVE  LockInv'
<1>1. PcType'
  BY DEF LockInv, PcType
<1>2. HoldInv'
  BY DEF LockInv, PcType, HoldInv
<1> QED
  BY <1>1, <1>2 DEF LockInv

\* A thread moves on with another mutex.
LEMMA Taken ==
    ASSUME LockInv, NEW t \in Threads, NEW to \in Pcs(t), NEW m \in Mutexes,
           pc' = [pc EXCEPT ![t] = to], owner[m] = "none",
           owner' = [owner EXCEPT ![m] = t], Held(to) = Held(pc[t]) \cup {m}
    PROVE  LockInv'
<1>1. PcType'
  BY DEF LockInv, PcType
<1>2. HoldInv'
  BY ThreadKinds DEF LockInv, PcType, HoldInv
<1> QED
  BY <1>1, <1>2 DEF LockInv

\* A thread moves on without mutexes that it held.
LEMMA Released ==
    ASSUME LockInv, NEW t \in Threads, NEW to \in Pcs(t), NEW ms, ms \subseteq Held(pc[t]),
           pc' = [pc EXCEPT ![t] = to], Release(ms), Held(to) = Held(pc[t]) \ ms
    PROVE  LockInv'
<1>1. PcType'
  BY DEF LockInv, PcType
<1>2. HoldInv'
  BY ThreadKinds DEF LockInv, PcType, HoldInv, Release
<1>3. owner' \in [Mutexes -> Threads \cup {"none"}]
  BY DEF LockInv, Release
<1> QED
  BY <1>1, <1>2, <1>3 DEF LockInv

\* A thread moves on, without mutexes that it held, and starts another one.
LEMMA Started ==
    ASSUME LockInv, NEW t \in Threads, NEW next \in Pcs(t), NEW s \in Threads \ {t},
           NEW to \in Pcs(s), NEW ms, ms \subseteq Held(pc[t]), pc[s] = "off", Held(to) = {},
           pc' = [pc EXCEPT ![s] = to, ![t] = next], Release(ms), Held(next) = Held(pc[t]) \ ms
    PROVE  LockInv'
<1>1. PcType'
  BY DEF LockInv, PcType
<1>2. HoldInv'
  <2> SUFFICES ASSUME NEW m \in Mutexes, NEW u \in Threads
               PROVE  owner'[m] = u <=> m \in Held(pc'[u])
    BY DEF HoldInv
  <2>1. Held("off") = {}
    BY OtherHeld
  <2>2. Held(pc'[u]) = IF u = t THEN Held(pc[u]) \ ms ELSE Held(pc[u])
    BY <2>1 DEF LockInv, PcType
  <2> QED
    BY <2>2, ThreadKinds DEF LockInv, HoldInv, Release
<1>3. owner' \in [Mutexes -> Threads \cup {"none"}]
  BY DEF LockInv, Release
<1> QED
  BY <1>1, <1>2, <1>3 DEF LockInv

\* The same in terms of the steps of Locks.
LEMMA GoToLocks ==
    ASSUME LockInv, NEW t \in Threads, NEW from, NEW to \in Pcs(t), GoTo(t, from, to),
           owner' = owner, Held(to) = Held(from)
    PROVE  LockInv'
BY Moved DEF GoTo

LEMMA TakeLocks ==
    ASSUME LockInv, NEW t \in Threads, NEW from, NEW to \in Pcs(t), Take(t, from, to),
           Wants[from] \in Mutexes, Held(to) = Held(from) \cup {Wants[from]}
    PROVE  LockInv'
BY Taken DEF Take, GoTo

LEMMA TakeFirstLock ==
    ASSUME LockInv, NEW t \in Threads, NEW from, NEW to \in Pcs(t), Take(t, from, to),
           Wants[from] \in Mutexes, Held(from) = {}, Held(to) = {Wants[from]}
    PROVE  LockInv'
BY TakeLocks

LEMMA ReleaseLocks ==
    ASSUME LockInv, NEW t \in Threads, NEW from, NEW to \in Pcs(t), GoTo(t, from, to),
           Release(Held(from) \ Held(to)), Held(to) \subseteq Held(from)
    PROVE  LockInv'
<1>1. Held(to) = Held(from) \ (Held(from) \ Held(to))
  OBVIOUS
<1> QED
  BY <1>1, Released DEF GoTo

LEMMA ReleaseAllLocks ==
    ASSUME LockInv, NEW t \in Threads, NEW from, NEW to \in Pcs(t), GoTo(t, from, to),
           Release(Held(from)), Held(to) = {}
    PROVE  LockInv'
<1>1. Held(from) = Held(from) \ Held(to) /\ Held(to) \subseteq Held(from)
  OBVIOUS
<1> QED
  BY <1>1, ReleaseLocks

LEMMA StartLocks ==
    ASSUME LockInv, NEW t \in Threads, NEW next \in Pcs(t), NEW slots \in SUBSET Threads,
           t \notin slots, NEW to, \A s \in slots : to \in Pcs(s), NEW ms,
           ms \subseteq Held(pc[t]), Held(to) = {}, Start(slots, to, t, next), Release(ms),
           Held(next) = Held(pc[t]) \ ms
    PROVE  LockInv'
<1>1. PICK s \in slots : pc[s] = "off" /\ pc' = [pc EXCEPT ![s] = to, ![t] = next]
  BY DEF Start
<1>2. s \in Threads \ {t} /\ to \in Pcs(s)
  OBVIOUS
<1> QED
  BY <1>1, <1>2, Started

LEMMA WantedMutexes ==
    /\ \A p \in {"generate", "draw", "step", "check", "receive"} : Wants[p] = "elements"
    /\ Wants["connect"] = "connected" /\ Wants["closing"] = "connected"
    /\ Wants["close"] = "gameUpdate" /\ Wants["fill"] = "gameUpdate"
    /\ Wants["call"] = "receivers"
BY DEF Wants

LEMMA ReleaseNothing ==
    ASSUME LockInv, owner' = owner
    PROVE  Release({})
BY DEF LockInv, Release

EarlyPcs == {"register", "ask", "connect", "connecting", "join"}

\* The reader is not started before there is a connection.
EarlyInv == pc["main"] \in EarlyPcs => pc["reader"] = "off"

LEMMA SetupLocks ==
    ASSUME LockInv, EarlyInv, Setup
    PROVE  LockInv'
<1> USE ThreadKinds, PcKinds, MainHeld DEF Visit, MainPcs
<1>1. CASE RegisterReceiver
  BY <1>1, GoToLocks DEF RegisterReceiver
<1>2. CASE AskConnected
  BY <1>2, GoToLocks DEF AskConnected
<1>3. CASE LockConnected
  BY <1>3, TakeFirstLock, WantedMutexes, MutexNames DEF LockConnected
<1>4. CASE Connected
  BY <1>4, ReleaseAllLocks DEF Connected
<1>5. CASE Join
  <2>1. PcType'
    BY <1>5 DEF LockInv, PcType, Join, ReaderPcs
  <2>2. \A t \in Threads : Held(pc'[t]) = Held(pc[t])
    BY ZenonT(30), <1>5, OtherHeld DEF LockInv, PcType, Join, EarlyInv, EarlyPcs
  <2> QED
    BY <1>5, <2>1, <2>2 DEF LockInv, HoldInv, Join
<1>6. CASE ShowConnecting
  BY <1>6, GoToLocks DEF ShowConnecting
<1>7. CASE Generate
  BY <1>7, TakeFirstLock, WantedMutexes, MutexNames DEF Generate
<1>8. CASE SendBoard
  <2>1. Start(Senders, "set", "main", "generated") /\ Release({})
    BY <1>8, ReleaseNothing DEF SendBoard
  <2>2. {} \subseteq Held(pc["main"]) /\ Held("generated") = Held(pc["main"]) \ {}
    BY <1>8 DEF SendBoard
  <2>3. Held("set") = {} /\ \A s \in Senders : "set" \in Pcs(s)
    BY OtherHeld DEF SenderPcs
  <2>4. Senders \subseteq Threads /\ "main" \notin Senders /\ "generated" \in Pcs("main")
    OBVIOUS
  <2> QED
    BY <2>1, <2>2, <2>3, <2>4, StartLocks
<1>9. CASE Generated
  BY <1>9, ReleaseAllLocks DEF Generated
<1>10. CASE Enter
  BY SMTT(30), <1>10, GoToLocks DEF Enter
<1> QED
  BY <1>1, <1>2, <1>3, <1>4, <1>5, <1>6, <1>7, <1>8, <1>9, <1>10 DEF Setup

LEMMA FrameLocks ==
    ASSUME LockInv, Frame
    PROVE  LockInv'
<1> USE ThreadKinds, PcKinds, MainHeld DEF Visit, MainPcs
<1>1. CASE DrawLock
  BY <1>1, TakeFirstLock, WantedMutexes, MutexNames DEF DrawLock
<1>2. CASE Exists
  BY <1>2 DEF Exists, LockInv, PcType, HoldInv
<1>3. CASE DrawUnlock
  BY <1>3, ReleaseAllLocks DEF DrawUnlock
<1>4. CASE ShowSent
  BY <1>4, GoToLocks DEF ShowSent
<1>5. CASE ShowReceived
  <2>1. GoTo("main", "showReceived", "step") /\ owner' = owner
    BY <1>5 DEF ShowReceived
  <2> QED
    BY <2>1, GoToLocks
<1>6. CASE StepLock
  BY <1>6, TakeFirstLock, WantedMutexes, MutexNames DEF StepLock
<1>7. CASE StepWorld
  BY <1>7, GoToLocks DEF StepWorld
<1>8. CASE Contact
  BY <1>8 DEF Contact, LockInv, PcType, HoldInv
<1>9. CASE StepEnd
  <2>1. CASE GoTo("main", "world", "check")
    BY <1>9, <2>1, ReleaseAllLocks DEF StepEnd
  <2>2. CASE Start(Fillers, "fill", "main", "check")
    <3>1. Release({"elements"}) /\ {"elements"} \subseteq Held(pc["main"])
      BY <1>9 DEF StepEnd
    <3>2. Held("check") = Held(pc["main"]) \ {"elements"}
      BY <1>9 DEF StepEnd
    <3>3. Held("fill") = {} /\ \A f \in Fillers : "fill" \in Pcs(f)
      BY OtherHeld DEF FillerPcs
    <3>4. Fillers \subseteq Threads /\ "main" \notin Fillers /\ "check" \in Pcs("main")
      OBVIOUS
    <3> QED
      BY <2>2, <3>1, <3>2, <3>3, <3>4, StartLocks
  <2> QED
    BY <1>9, <2>1, <2>2 DEF StepEnd
<1>10. CASE SkipCheck
  BY <1>10, GoToLocks DEF SkipCheck
<1>11. CASE CheckLock
  BY <1>11, TakeFirstLock, WantedMutexes, MutexNames DEF CheckLock
<1>12. CASE CheckUnlock
  BY <1>12, ReleaseAllLocks DEF CheckUnlock
<1>13. CASE Quit
  BY <1>13, GoToLocks DEF Quit
<1> QED
  BY <1>1, <1>2, <1>3, <1>4, <1>5, <1>6, <1>7, <1>8, <1>9, <1>10, <1>11, <1>12, <1>13 DEF Frame

LEMMA ClosingLocks ==
    ASSUME LockInv, Dismiss \/ Closing
    PROVE  LockInv'
<1> USE ThreadKinds, PcKinds, MainHeld DEF MainPcs
<1>1. CASE Dismiss
  BY <1>1, GoToLocks DEF Dismiss
<1>2. CASE CloseLock
  BY <1>2, TakeFirstLock, WantedMutexes, MutexNames DEF CloseLock
<1>3. CASE Close
  BY <1>3, TakeLocks, WantedMutexes, MutexNames DEF Close
<1>4. CASE Return
  BY <1>4, ReleaseAllLocks DEF Return
<1> QED
  BY <1>1, <1>2, <1>3, <1>4 DEF Closing

LEMMA ReaderLocks ==
    ASSUME LockInv, Reader
    PROVE  LockInv'
<1> USE ThreadKinds, PcKinds, OtherHeld DEF Visit, ReaderPcs
<1>1. CASE ReadUntil
  BY <1>1, GoToLocks DEF ReadUntil
<1>2. CASE CallReceivers
  BY <1>2, TakeFirstLock, WantedMutexes, MutexNames DEF CallReceivers
<1>3. CASE Receive
  BY <1>3, TakeLocks, WantedMutexes, MutexNames DEF Receive
<1>4. CASE Parse
  BY <1>4, GoToLocks DEF Parse
<1>5. CASE Parsed
  <2>1. Held("parsed") \ Held("called") = {"elements"}
    OBVIOUS
  <2> QED
    BY <1>5, <2>1, ReleaseLocks DEF Parsed
<1>6. CASE Called
  BY <1>6, ReleaseAllLocks DEF Called
<1>7. CASE CountReceived
  BY <1>7, GoToLocks DEF CountReceived
<1> QED
  BY <1>1, <1>2, <1>3, <1>4, <1>5, <1>6, <1>7 DEF Reader

LEMMA FillerLocks ==
    ASSUME LockInv, NEW f \in Fillers, Filler(f)
    PROVE  LockInv'
<1> USE ThreadKinds, PcKinds, OtherHeld DEF Visit, FillerPcs
<1>1. CASE FillLock(f)
  BY <1>1, TakeFirstLock, WantedMutexes, MutexNames DEF FillLock
<1>2. CASE Fill(f)
  BY <1>2, GoToLocks DEF Fill
<1>3. CASE TestSending(f)
  <2>1. CASE GoTo(f, "test", "tested")
    BY <1>3, <2>1, GoToLocks DEF TestSending
  <2>2. CASE Start(Senders, "set", f, "tested")
    <3>1. Release({}) /\ {} \subseteq Held(pc[f])
      BY <1>3, ReleaseNothing DEF TestSending
    <3>2. Held("tested") = Held(pc[f]) \ {}
      BY <1>3 DEF TestSending
    <3>3. Held("set") = {} /\ \A s \in Senders : "set" \in Pcs(s)
      BY DEF SenderPcs
    <3>4. Senders \subseteq Threads /\ f \notin Senders /\ "tested" \in Pcs(f)
      OBVIOUS
    <3> QED
      BY <2>2, <3>1, <3>2, <3>3, <3>4, StartLocks
  <2> QED
    BY <1>3, <2>1, <2>2 DEF TestSending
<1>4. CASE FillUnlock(f)
  BY <1>4, ReleaseAllLocks DEF FillUnlock
<1> QED
  BY <1>1, <1>2, <1>3, <1>4 DEF Filler

LEMMA SenderLocks ==
    ASSUME LockInv, NEW s \in Senders, Sender(s)
    PROVE  LockInv'
<1> USE ThreadKinds, PcKinds, OtherHeld DEF Visit, SenderPcs
<1>1. CASE SetSending(s)
  BY <1>1, GoToLocks DEF SetSending
<1>2. CASE WriteSome(s)
  BY <1>2, GoToLocks DEF WriteSome
<1>3. CASE ClearSending(s)
  BY <1>3, GoToLocks DEF ClearSending
<1>4. CASE CountSent(s)
  BY <1>4, GoToLocks DEF CountSent
<1> QED
  BY <1>1, <1>2, <1>3, <1>4 DEF Sender

-----------------------------------------------------------------------------

\* The flags are typed, the world is locked in the step of a frame only, and the body
\* of a brick was never refused anything.
FlagInv ==
    /\ connected \in BOOLEAN /\ sending \in BOOLEAN /\ worldLocked \in BOOLEAN
    /\ brick \in {"whole", "broken", "disabled"}
    /\ refused = FALSE
    /\ WorldInv
    /\ EarlyInv

IInv == LockInv /\ FlagInv

\* Whoever is in a section of element_mutex is alone in it.
LEMMA ElementsAlone ==
    ASSUME LockInv, NEW t \in Threads, NEW u \in Threads,
           "elements" \in Held(pc[t]), "elements" \in Held(pc[u])
    PROVE  t = u
BY MutexNames DEF LockInv, HoldInv

LEMMA InitInv == Init => IInv
<1> SUFFICES ASSUME Init PROVE IInv
  OBVIOUS
<1> USE ThreadKinds, PcKinds, MainHeld, OtherHeld
<1>1. \A t \in Threads : pc[t] = (IF t = "main" THEN "register" ELSE "off") /\ Held(pc[t]) = {}
  BY DEF Init
<1>2. \A t \in Threads : (IF t = "main" THEN "register" ELSE "off") \in Pcs(t)
  BY DEF Pcs, MainPcs, ReaderPcs, FillerPcs, SenderPcs
<1>3. PcType
  BY <1>2 DEF Init, PcType
<1>4. HoldInv /\ owner \in [Mutexes -> Threads \cup {"none"}]
  BY <1>1 DEF Init, HoldInv
<1>5. FlagInv
  BY <1>1 DEF Init, FlagInv, WorldInv, EarlyInv
<1> QED
  BY <1>3, <1>4, <1>5 DEF IInv, LockInv

LEMMA SetupFlags ==
    ASSUME IInv, Setup
    PROVE  FlagInv'
<1> USE ThreadKinds DEF IInv, LockInv, PcType, FlagInv, WorldInv, EarlyInv, EarlyPcs, GoTo,
                        flags, physics
<1>1. CASE RegisterReceiver \/ AskConnected \/ ShowConnecting
  BY <1>1 DEF RegisterReceiver, AskConnected, ShowConnecting
<1>2. CASE LockConnected \/ Connected \/ Generated
  BY <1>2 DEF LockConnected, Connected, Generated, Take
<1>3. CASE Join
  BY <1>3 DEF Join, Visit
<1>4. CASE Generate
  BY <1>4 DEF Generate, Take, Touch
<1>5. CASE SendBoard
  BY <1>5 DEF SendBoard, Visit, Start
<1>6. CASE Enter
  BY <1>6 DEF Enter
<1> QED
  BY <1>1, <1>2, <1>3, <1>4, <1>5, <1>6 DEF Setup

LEMMA FrameFlags ==
    ASSUME IInv, Frame
    PROVE  FlagInv'
<1> USE ThreadKinds DEF IInv, LockInv, PcType, FlagInv, WorldInv, EarlyInv, EarlyPcs, GoTo,
                        flags, physics
<1>1. CASE DrawLock \/ StepLock \/ CheckLock
  BY <1>1 DEF DrawLock, StepLock, CheckLock, Take
<1>2. CASE DrawUnlock \/ CheckUnlock \/ ShowSent \/ ShowReceived
  BY <1>2 DEF DrawUnlock, CheckUnlock, ShowSent, ShowReceived
<1>3. CASE Exists \/ Contact
  BY <1>3 DEF Exists, Contact, Touch
<1>4. CASE StepWorld
  BY <1>4 DEF StepWorld, Touch
<1>5. CASE StepEnd
  BY <1>5 DEF StepEnd, Start
<1>6. CASE SkipCheck \/ Quit
  BY <1>6 DEF SkipCheck, Quit
<1> QED
  BY <1>1, <1>2, <1>3, <1>4, <1>5, <1>6 DEF Frame

LEMMA ReaderFlags ==
    ASSUME IInv, Reader
    PROVE  FlagInv'
<1> USE ThreadKinds DEF IInv, LockInv, PcType, FlagInv, WorldInv, EarlyInv, EarlyPcs, GoTo,
                        flags, physics
<1>1. CASE ReadUntil \/ CountReceived \/ Parsed \/ Called
  BY <1>1 DEF ReadUntil, CountReceived, Parsed, Called
<1>2. CASE CallReceivers \/ Receive
  BY <1>2 DEF CallReceivers, Receive, Take
<1>3. CASE Parse
  <2>1. pc["main"] # "world"
    BY <1>3, ElementsAlone, MainHeld, OtherHeld DEF Parse
  <2> QED
    BY <1>3, <2>1 DEF Parse, Touch
<1> QED
  BY <1>1, <1>2, <1>3 DEF Reader

LEMMA UpdateFlags ==
    ASSUME IInv, \/ \E f \in Fillers : Filler(f)
                 \/ \E s \in Senders : Sender(s)
    PROVE  FlagInv'
<1> USE ThreadKinds DEF IInv, LockInv, PcType, FlagInv, WorldInv, EarlyInv, EarlyPcs, GoTo,
                        flags, physics
<1>1. ASSUME NEW f \in Fillers, Filler(f) PROVE FlagInv'
  <2>1. CASE FillLock(f)
    BY <2>1 DEF FillLock, Take
  <2>2. CASE Fill(f) \/ FillUnlock(f)
    BY <2>2 DEF Fill, FillUnlock
  <2>3. CASE TestSending(f)
    BY <2>3 DEF TestSending, Start
  <2> QED
    BY <1>1, <2>1, <2>2, <2>3 DEF Filler
<1>2. ASSUME NEW s \in Senders, Sender(s) PROVE FlagInv'
  <2>1. CASE SetSending(s)
    BY <2>1 DEF SetSending
  <2>2. CASE WriteSome(s)
    BY <2>2 DEF WriteSome
  <2>3. CASE ClearSending(s)
    BY <2>3 DEF ClearSending
  <2>4. CASE CountSent(s)
    BY <2>4 DEF CountSent
  <2> QED
    BY <1>2, <2>1, <2>2, <2>3, <2>4 DEF Sender
<1> QED
  BY <1>1, <1>2

LEMMA StepInv == IInv /\ [Next]_vars => IInv'
<1> SUFFICES ASSUME IInv, [Next]_vars PROVE IInv'
  OBVIOUS
<1>1. CASE Setup
  BY <1>1, SetupLocks, SetupFlags DEF IInv, FlagInv
<1>2. CASE Frame
  BY <1>2, FrameLocks, FrameFlags DEF IInv
<1>3. CASE Dismiss \/ Closing
  <2>1. FlagInv'
    BY <1>3, ThreadKinds DEF IInv, LockInv, PcType, FlagInv, WorldInv, EarlyInv, EarlyPcs,
          GoTo, flags, physics, Dismiss, Closing, CloseLock, Close, Return, Take
  <2> QED
    BY <1>3, <2>1, ClosingLocks DEF IInv
<1>4. CASE Reader
  BY <1>4, ReaderLocks, ReaderFlags DEF IInv
<1>5. CASE (\E f \in Fillers : Filler(f)) \/ \E s \in Senders : Sender(s)
  BY <1>5, FillerLocks, SenderLocks, UpdateFlags DEF IInv
<1>6. CASE UNCHANGED vars
  BY <1>6 DEF vars, flags, physics, IInv, LockInv, PcType, HoldInv, FlagInv, WorldInv, EarlyInv
<1> QED
  BY <1>1, <1>2, <1>3, <1>4, <1>5, <1>6 DEF Next

\* The inductive invariant: who holds a mutex is where the code holds it, and the other
\* way round, and the world is locked in the step of a frame only.
THEOREM LocksInvariant == Spec => []IInv
BY InitInv, StepInv, PTL DEF Spec

\* The typing of Locks.
THEOREM LocksTyped == Spec => []TypeOK
<1>1. IInv => TypeOK
  BY DEF IInv, LockInv, PcType, FlagInv, TypeOK
<1> QED
  BY <1>1, LocksInvariant, PTL

\* No creation, move or disabling of a body ever meets a world that is being stepped.
THEOREM NothingRefusedHolds == Spec => []NothingRefused
<1>1. IInv => NothingRefused
  BY DEF IInv, FlagInv, NothingRefused
<1> QED
  BY <1>1, LocksInvariant, PTL

LEMMA OrderHolds == IInv => LockOrder
<1> SUFFICES ASSUME IInv, NEW t \in Threads, Waiting(t),
                    NEW m \in Mutexes, owner[m] = t
             PROVE  Rank[m] < Rank[Wants[pc[t]]]
  BY DEF LockOrder
<1>1. m \in Held(pc[t])
  BY DEF IInv, LockInv, HoldInv
<1>2. pc[t] \in {"sendBoard", "closing", "receive", "test"}
  BY <1>1, MainHeld, OtherHeld DEF Waiting, Wants
<1> QED
  BY <1>1, <1>2, MainHeld, OtherHeld DEF Wants, Rank

\* A thread asks only for mutexes after those it holds.
THEOREM LockOrderHolds == Spec => []LockOrder
BY OrderHolds, LocksInvariant, PTL

LEMMA Highest ==
    ASSUME NEW S \in SUBSET (1 .. 7), S # {}
    PROVE  \E k \in S : \A j \in S : j <= k
<1>1. \A j \in S : j \in {1, 2, 3, 4, 5, 6, 7}
  OBVIOUS
<1>2. CASE 7 \in S \/ 6 \in S
  BY <1>1, <1>2
<1>3. CASE 7 \notin S /\ 6 \notin S /\ (5 \in S \/ 4 \in S)
  BY <1>1, <1>3
<1>4. CASE \A k \in 4 .. 7 : k \notin S
  <2>1. \A j \in S : j \in {1, 2, 3}
    BY <1>1, <1>4
  <2>2. CASE 3 \in S
    BY <2>1, <2>2
  <2>3. CASE 3 \notin S /\ 2 \in S
    BY <2>1, <2>3
  <2>4. CASE 3 \notin S /\ 2 \notin S
    <3>1. PICK k \in S : k = 1
      BY <2>1, <2>4
    <3>2. \A j \in S : j <= k
      BY <2>1, <2>4, <3>1
    <3> QED
      BY <3>2
  <2> QED
    BY <2>2, <2>3, <2>4
<1> QED
  BY <1>2, <1>3, <1>4

\* However many threads there are, none wait for each other in a circle.
THEOREM NoCircularWaitHolds == Spec => []NoCircularWait
<1>1. IInv /\ LockOrder => NoCircularWait
  <2> SUFFICES ASSUME IInv, LockOrder, NEW circle \in (SUBSET Threads) \ {{}},
                      \A t \in circle : Waiting(t) /\ owner[Wants[pc[t]]] \in circle
               PROVE  FALSE
    BY DEF NoCircularWait
  <2> DEFINE Asked(t) == Rank[Wants[pc[t]]]
             S == {Asked(t) : t \in circle}
  <2>1. \A t \in circle : Wants[pc[t]] \in Mutexes
    BY MutexNames DEF Waiting, Wants
  <2>2. \A m \in Mutexes : Rank[m] \in 1 .. 7
    BY MutexNames DEF Rank
  <2>3. S \in SUBSET (1 .. 7) /\ S # {}
    <3>1. \A t \in circle : Asked(t) \in 1 .. 7
      BY <2>1, <2>2
    <3>2. PICK t \in circle : TRUE
      OBVIOUS
    <3>3. Asked(t) \in S
      BY <3>2
    <3> QED
      BY <3>1, <3>3
  <2>4. PICK t \in circle : \A u \in circle : Asked(u) <= Asked(t)
    <3> HIDE DEF Asked
    <3>1. PICK k \in S : \A j \in S : j <= k
      BY <2>3, Highest
    <3> QED
      BY <3>1
  <2>5. PICK u \in circle : owner[Wants[pc[t]]] = u
    OBVIOUS
  <2>6. Rank[Wants[pc[t]]] < Asked(u)
    BY <2>1, <2>5 DEF LockOrder
  <2> QED
    BY <2>1, <2>2, <2>4, <2>6
<1> QED
  BY <1>1, OrderHolds, LocksInvariant, PTL

=============================================================================
