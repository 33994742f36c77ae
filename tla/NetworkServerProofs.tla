------------------------- MODULE NetworkServerProofs -------------------------
(***************************************************************************)
(* What the server tells its clients and itself, for every number of       *)
(* connections, starts, keys and resets: the types, the order of the       *)
(* replies, and what isServerUp means when nothing overlaps.               *)
(***************************************************************************)
EXTENDS NetworkServer, FiniteSets, FiniteSetTheorems, TLAPS

\* The starts that have called WSAStartup.
Begun == {n \in Starts : init[n] \notin {"none", "startup"}}

\* Every WSAStartup that is not undone is WinMain's or one of a start.
WinsockCount == winsock <= 1 + Cardinality(Begun)

\* The accept loop keeps the connection it has accepted to itself until the
\* handler is detached.
LoopOwnsAccepted(n) ==
  loop[n] \in {"greet", "detach"} =>
    /\ accepted[n] \in Clients
    /\ handler[accepted[n]] = "accepted"
    /\ loop[n] = "greet" => replies[accepted[n]] = <<>>
    /\ loop[n] = "detach" /\ accepted[n] \in alive => replies[accepted[n]] # <<>>

LoopsApart ==
  \A m, n \in Starts :
    /\ loop[m] \in {"greet", "detach"} /\ loop[n] \in {"greet", "detach"}
    /\ accepted[m] = accepted[n]
    => m = n

\* The dialogue with one client, as far as its handler has come.
Dialogue(c) ==
  /\ \A i \in DOMAIN replies[c] : (replies[c][i] = "SIG") <=> i = 1
  /\ Len(replies[c]) <= injected[c] + 1
  /\ c \in alive /\ replies[c] # <<>> =>
       Len(replies[c]) = injected[c] + (IF handler[c] = "ack" THEN 0 ELSE 1)
  /\ handler[c] \in {"none", "backlog"} => replies[c] = <<>>
  /\ handler[c] \in {"none", "backlog", "accepted"} => injected[c] = 0
  /\ handler[c] \in {"test", "recv", "ack"} /\ c \in alive => replies[c] # <<>>

DialogueInv ==
  /\ \A n \in Starts : LoopOwnsAccepted(n)
  /\ LoopsApart
  /\ \A c \in Clients : Dialogue(c)

InProgress(n) == init[n] \notin {"none", "done"}

\* Without an overlap there is one start at a time and none next to a
\* shutdown; serverRunning is raised by a start that listens and lowered by
\* the shutdown before it touches a socket.
OneAtATime ==
  /\ \A m, n \in Starts : InProgress(m) /\ InProgress(n) => m = n
  /\ Starting => ~Stopping
  /\ \A n \in Starts : init[n] \in {"startup", "socket", "bind", "listen", "flag"}
                         => ~serverRunning
  /\ \A n \in Starts : init[n] = "flag" =>
       g_listenSocket # INVALID_SOCKET /\ listener[g_listenSocket] = "listening"
  /\ \A a \in Stoppers : stop[a] \notin {"idle", "flag"} => ~serverRunning
  /\ serverRunning =>
       g_listenSocket # INVALID_SOCKET /\ listener[g_listenSocket] = "listening"

UpInv == ~overlapped => OneAtATime
-----------------------------------------------------------------------------
(* The types.                                                              *)

LEMMA BegunFinite ==
  /\ IsFiniteSet(Begun) /\ Cardinality(Begun) \in Nat /\ Cardinality(Begun) <= MaxStarts
  /\ \A n \in Starts \ Begun : Cardinality(Begun) < MaxStarts
<1>1. IsFiniteSet(Starts) /\ Cardinality(Starts) = MaxStarts
  <2>1. 1 \in Int /\ MaxStarts \in Int /\ 1 <= MaxStarts
    BY ServerAssumption
  <2>2. Cardinality(Starts) = MaxStarts - 1 + 1 /\ IsFiniteSet(Starts)
    BY <2>1, FS_Interval DEF Starts
  <2> QED
    BY <2>1, <2>2
<1>2. Begun \subseteq Starts
  BY DEF Begun
<1>3. IsFiniteSet(Begun) /\ Cardinality(Begun) <= Cardinality(Starts)
      /\ (Cardinality(Begun) = Cardinality(Starts) => Begun = Starts)
  BY <1>1, <1>2, FS_Subset
<1>4. Cardinality(Begun) \in Nat
  BY <1>3, FS_CardinalityType
<1>5. MaxStarts \in Nat
  BY ServerAssumption
<1> QED
  BY <1>1, <1>3, <1>4, <1>5

\* A step that begins no start and adds nothing to the count keeps it right.
LEMMA CountKept ==
  ASSUME WinsockCount, winsock \in Nat, winsock' \in Nat, winsock' <= winsock,
         Begun \subseteq Begun', IsFiniteSet(Begun')
  PROVE  WinsockCount'
<1>1. Cardinality(Begun) <= Cardinality(Begun)'
  BY FS_Subset
<1>2. Cardinality(Begun) \in Nat /\ Cardinality(Begun)' \in Nat
  BY BegunFinite, FS_CardinalityType
<1> QED
  BY <1>1, <1>2 DEF WinsockCount

LEMMA CloseType ==
  ASSUME TypeOK, NEW L, NEW C, CloseListeners(L, C)
  PROVE  /\ listener' \in [Starts -> {"none", "created", "bound", "listening", "closed"}]
         /\ handler' \in [Clients -> {"none", "backlog", "accepted", "test", "recv", "ack", "ended"}]
         /\ alive' \subseteq Clients
         /\ UNCHANGED <<via, keys, injected, replies>>
BY DEF TypeOK, CloseListeners

LEMMA CleanupType ==
  ASSUME TypeOK, NEW L, WSACleanup(L)
  PROVE  /\ winsock' \in 0..(MaxStarts + 1) /\ winsock' <= winsock
         /\ listener' \in [Starts -> {"none", "created", "bound", "listening", "closed"}]
         /\ handler' \in [Clients -> {"none", "backlog", "accepted", "test", "recv", "ack", "ended"}]
         /\ alive' \subseteq Clients
         /\ UNCHANGED <<via, keys, injected, replies>>
<1>1. winsock' \in 0..(MaxStarts + 1) /\ winsock' <= winsock
  BY ServerAssumption DEF TypeOK, WSACleanup
<1>2. CASE winsock <= 1
  BY <1>1, <1>2, CloseType DEF WSACleanup
<1>3. CASE ~(winsock <= 1)
  BY <1>1, <1>3, CloseType DEF WSACleanup
<1> QED
  BY <1>2, <1>3

TypeInv == TypeOK /\ WinsockCount

LEMMA TypeInit == Init => TypeInv
<1> SUFFICES ASSUME Init PROVE TypeInv
  OBVIOUS
<1>1. winsock \in 0..(MaxStarts + 1) /\ resets \in 0..MaxResets
  BY ServerAssumption DEF Init
<1>2. keys \in [Clients -> 0..MaxKeys] /\ injected \in [Clients -> 0..MaxKeys]
  BY ServerAssumption DEF Init
<1>3. replies \in [Clients -> Seq({"SIG", "ACK"})]
  <2>1. <<>> \in Seq({"SIG", "ACK"})
    OBVIOUS
  <2> QED
    BY <2>1 DEF Init
<1>4. TypeOK
  BY <1>1, <1>2, <1>3 DEF Init, TypeOK
<1>5. WinsockCount
  BY BegunFinite DEF Init, WinsockCount
<1> QED
  BY <1>4, <1>5 DEF TypeInv

LEMMA StartTypes ==
  ASSUME TypeInv, NEW n \in Starts, StartThread(n)
  PROVE  TypeOK' /\ (winsock' <= winsock \/ Startup(n))
<1> USE ServerAssumption DEF TypeInv, Advance, loopVars, connVars, stopVars
<1>0. winsock \in 0..(MaxStarts + 1) /\ MaxStarts \in Nat /\ winsock <= winsock
  BY DEF TypeOK
<1>1. CASE Startup(n)
  <2>1. n \notin Begun
    BY <1>1 DEF Startup, Begun
  <2>2. winsock + 1 \in 0..(MaxStarts + 1)
    BY <1>0, <2>1, BegunFinite DEF WinsockCount
  <2> QED
    BY <1>1, <2>2 DEF Startup, TypeOK
<1>2. CASE CreateSocket(n)
  BY <1>0, <1>2 DEF CreateSocket, TypeOK
<1>3. CASE SocketFails(n)
  BY <1>3, CleanupType DEF SocketFails, TypeOK
<1>4. CASE Bind(n)
  BY <1>0, <1>4 DEF Bind, TypeOK
<1>5. CASE BindFails(n)
  BY <1>5, CleanupType DEF BindFails, FailWith, TypeOK
<1>6. CASE Listen(n)
  BY <1>0, <1>6 DEF Listen, TypeOK
<1>7. CASE ListenFails(n)
  BY <1>7, CleanupType DEF ListenFails, FailWith, TypeOK
<1>8. CASE SetRunning(n)
  BY <1>0, <1>8 DEF SetRunning, TypeOK
<1>9. CASE StartServer(n)
  BY <1>0, <1>9 DEF StartServer, TypeOK
<1> QED
  BY <1>1, <1>2, <1>3, <1>4, <1>5, <1>6, <1>7, <1>8, <1>9 DEF StartThread

LEMMA ReplyType ==
  ASSUME TypeOK, NEW c \in Clients, NEW what \in {"SIG", "ACK"}, Reply(c, what)
  PROVE  replies' \in [Clients -> Seq({"SIG", "ACK"})] /\ UNCHANGED <<via, alive, keys>>
BY DEF TypeOK, Reply
LEMMA LoopTypes ==
  ASSUME TypeOK, NEW n \in Starts, AcceptLoop(n)
  PROVE  TypeOK' /\ UNCHANGED <<winsock, init>>
<1> USE DEF TypeOK, startVars, connVars, stopVars
<1>1. CASE TestRunning(n)
  BY <1>1 DEF TestRunning
<1>2. CASE Accept(n)
  BY <1>2 DEF Accept
<1>3. CASE AcceptReset(n)
  BY <1>3 DEF AcceptReset
<1>4. CASE AcceptFails(n)
  BY <1>4 DEF AcceptFails
<1>5. CASE Greet(n)
  <2>1. accepted[n] \in Clients => Reply(accepted[n], "SIG")
    BY <1>5 DEF Greet
  <2>2. replies' \in [Clients -> Seq({"SIG", "ACK"})] /\ UNCHANGED <<via, alive, keys>>
    BY <1>5 DEF Greet, Reply
  <2> QED
    BY <1>5, <2>2 DEF Greet
<1>6. CASE DetachHandler(n)
  BY <1>6 DEF DetachHandler
<1> QED
  BY <1>1, <1>2, <1>3, <1>4, <1>5, <1>6 DEF AcceptLoop

LEMMA HandlerTypes ==
  ASSUME TypeOK, NEW c \in Clients, HandleClient(c) \/ Client(c)
  PROVE  TypeOK' /\ UNCHANGED <<winsock, init>>
<1> USE ServerAssumption DEF startVars, loopVars, stopVars
<1>1. CASE HandlerTests(c)
  BY <1>1 DEF HandlerTests, TypeOK
<1>2. CASE HandleKey(c)
  <2>1. injected[c] + 1 \in 0..MaxKeys
    BY <1>2 DEF HandleKey, TypeOK
  <2>2. injected' \in [Clients -> 0..MaxKeys]
    BY <1>2, <2>1 DEF HandleKey, TypeOK
  <2> QED
    BY <1>2, <2>2 DEF HandleKey, TypeOK
<1>3. CASE RecvFails(c)
  BY <1>3 DEF RecvFails, TypeOK
<1>4. CASE SendAck(c)
  BY <1>4, ReplyType DEF SendAck, TypeOK
<1>5. CASE Arrive(c)
  BY <1>5 DEF Arrive, TypeOK
<1>6. CASE SendKey(c)
  <2>1. keys[c] + 1 \in 0..MaxKeys
    BY <1>6 DEF SendKey, TypeOK
  <2>2. keys' \in [Clients -> 0..MaxKeys]
    BY <1>6, <2>1 DEF SendKey, TypeOK
  <2> QED
    BY <1>6, <2>2 DEF SendKey, TypeOK
<1>7. CASE Leave(c)
  BY <1>7 DEF Leave, TypeOK
<1> QED
  BY <1>1, <1>2, <1>3, <1>4, <1>5, <1>6, <1>7 DEF HandleClient, Client

LEMMA StopTypes ==
  ASSUME TypeOK, GuiStop \/ User \/ \E a \in Stoppers : Stop(a)
  PROVE  TypeOK' /\ winsock' <= winsock
<1> USE ServerAssumption DEF Stoppers, Proceed, BeginStop, startVars, loopVars, connVars
<1>0. winsock \in 0..(MaxStarts + 1) /\ MaxStarts \in Nat /\ winsock <= winsock
  BY DEF TypeOK
<1>1. CASE ClickStart
  BY <1>0, <1>1 DEF ClickStart, TypeOK
<1>2. CASE Quit
  BY <1>0, <1>2 DEF Quit, TypeOK
<1>3. CASE ParentExits
  BY <1>0, <1>3 DEF ParentExits, TypeOK
<1>4. CASE ResetSettings
  BY <1>0, <1>4 DEF ResetSettings, TypeOK
<1>5. CASE CleanupWinsock
  BY <1>5, CleanupType DEF CleanupWinsock, TypeOK
<1>6. CASE Relaunch
  BY <1>0, <1>6 DEF Relaunch, TypeOK
<1>7. CASE RelaunchFails
  BY <1>0, <1>7 DEF RelaunchFails, TypeOK
<1>8. ASSUME NEW a \in Stoppers, Stop(a)
      PROVE  TypeOK' /\ winsock' <= winsock
  <2>1. CASE ClearRunning(a)
    BY <1>0, <2>1 DEF ClearRunning, TypeOK
  <2>2. CASE CloseListenSocket(a)
    BY <1>0, <2>2, CloseType DEF CloseListenSocket, TypeOK
  <2>3. CASE Cleanup(a)
    BY <2>3, CleanupType DEF Cleanup, TypeOK
  <2>4. CASE Exit(a)
    <3>1. stop' = [b \in Stoppers |-> "gone"] /\ winsock' = 0 /\ winsock' <= winsock
      BY <1>0, <2>4 DEF Exit
    <3>2. /\ listener' = [n \in Starts |-> "closed"] /\ init' = [n \in Starts |-> "done"]
          /\ loop' = [n \in Starts |-> "none"] /\ fd' = [n \in Starts |-> INVALID_SOCKET]
          /\ accepted' = [n \in Starts |-> NoClient]
          /\ handler' = [c \in Clients |-> "ended"] /\ alive' = {}
      BY <2>4 DEF Exit
    <3>3. /\ serverRunning' = FALSE /\ g_listenSocket' = INVALID_SOCKET
          /\ UNCHANGED <<via, keys, injected, replies, resets, resetting, overlapped>>
      BY <2>4 DEF Exit
    <3>4. winsock' \in 0..(MaxStarts + 1)
      BY <1>0, <3>1
    <3>5. stop' \in [Stoppers -> {"idle", "flag", "close", "cleanup", "winsock", "relaunch",
                                 "exit", "gone"}]
      BY <3>1
    <3> HIDE DEF Stoppers
    <3> QED
      BY <3>1, <3>2, <3>3, <3>4, <3>5 DEF TypeOK
  <2> QED
    BY <1>8, <2>1, <2>2, <2>3, <2>4 DEF Stop
<1> QED
  BY <1>1, <1>2, <1>3, <1>4, <1>5, <1>6, <1>7, <1>8 DEF User, GuiStop

\* No step but Exit takes a start out of Begun, and Exit puts all in.
LEMMA BegunGrows ==
  ASSUME TypeOK, Next
  PROVE  Begun \subseteq Begun'
<1> USE DEF Begun, TypeOK, Proceed, BeginStop, Advance, FailWith, startVars
<1>1. ASSUME NEW n \in Starts, StartThread(n) PROVE Begun \subseteq Begun'
  <2>1. \E to \in {"socket", "bind", "listen", "flag", "start", "done"} :
          init' = [init EXCEPT ![n] = to]
    BY <1>1 DEF StartThread, Startup, CreateSocket, SocketFails, Bind, BindFails, Listen,
                ListenFails, SetRunning, StartServer
  <2> QED
    BY <2>1
<1>2. CASE ClickStart
  BY <1>2 DEF ClickStart
<1>3. ASSUME NEW a \in Stoppers, Exit(a) PROVE Begun \subseteq Begun'
  BY <1>3 DEF Exit
<1>4. CASE UNCHANGED init
  BY <1>4
<1> QED
  <2>1. ASSUME NEW n \in Starts, AcceptLoop(n) PROVE UNCHANGED init
    BY <2>1, LoopTypes
  <2>2. ASSUME NEW c \in Clients, HandleClient(c) \/ Client(c) PROVE UNCHANGED init
    BY <2>2, HandlerTypes
  <2>3. ASSUME NEW a \in Stoppers, Stop(a), ~Exit(a) PROVE UNCHANGED init
    BY <2>3 DEF Stop, ClearRunning, CloseListenSocket, Cleanup
  <2>4. ASSUME User, ~ClickStart PROVE UNCHANGED init
    BY <2>4 DEF User, Quit, ParentExits, ResetSettings
  <2>5. ASSUME GuiStop PROVE UNCHANGED init
    BY <2>5 DEF GuiStop, CleanupWinsock, Relaunch, RelaunchFails
  <2> QED
    BY <1>1, <1>2, <1>3, <1>4, <2>1, <2>2, <2>3, <2>4, <2>5 DEF Next

LEMMA TypeStep == TypeInv /\ [Next]_vars => TypeInv'
<1> SUFFICES ASSUME TypeInv, [Next]_vars PROVE TypeInv'
  OBVIOUS
<1> USE DEF TypeInv
<1>1. CASE UNCHANGED vars
  <2>1. TypeOK'
    BY <1>1 DEF vars, startVars, loopVars, connVars, stopVars, TypeOK
  <2>2. UNCHANGED <<winsock, Begun>>
    BY <1>1 DEF vars, startVars, Begun
  <2> QED
    BY <2>1, <2>2 DEF WinsockCount
<1>2. CASE Next
  <2>1. TypeOK' /\ (winsock' <= winsock \/ \E n \in Starts : Startup(n))
    <3>0. winsock <= winsock
      BY ServerAssumption DEF TypeOK
    <3> QED
      BY <1>2, <3>0, StartTypes, LoopTypes, HandlerTypes, StopTypes DEF Next
  <2>2. Begun \subseteq Begun'
    BY <1>2, BegunGrows
  <2>3. IsFiniteSet(Begun') /\ winsock \in Nat /\ winsock' \in Nat
    <3>1. IsFiniteSet(Starts)
      BY ServerAssumption, FS_Interval DEF Starts
    <3>2. Begun' \subseteq Starts
      BY DEF Begun
    <3> QED
      BY <2>1, <3>1, <3>2, FS_Subset, ServerAssumption DEF TypeOK
  <2>4. CASE winsock' <= winsock
    BY <2>1, <2>2, <2>3, <2>4, CountKept
  <2>5. ASSUME NEW n \in Starts, Startup(n) PROVE WinsockCount'
    <3>1. n \notin Begun /\ Begun' = Begun \cup {n}
      BY <2>5 DEF Startup, Advance, Begun, TypeOK
    <3>2. Cardinality(Begun') = Cardinality(Begun) + 1
      BY <3>1, BegunFinite, FS_AddElement
    <3> QED
      BY <2>3, <2>5, <3>2, BegunFinite DEF Startup, WinsockCount
  <2> QED
    BY <2>1, <2>4, <2>5
<1> QED
  BY <1>1, <1>2

\* Every variable of the server stays in its range: in particular the calls of
\* WSAStartup and WSACleanup never leave more than one per start and WinMain's.
THEOREM ServerTypeCorrect == Spec => []TypeOK
<1>1. TypeInv => TypeOK
  BY DEF TypeInv
<1> QED
  BY <1>1, TypeInit, TypeStep, PTL DEF Spec
-----------------------------------------------------------------------------
(* The dialogue with each client.                                          *)

\* Steps that tell a client nothing, accept nothing and inject nothing: a
\* handler may go on to recv or end, a loop may move where it owns nothing.
LEMMA DialogueFrame ==
  ASSUME TypeOK, DialogueInv, UNCHANGED <<accepted, replies, injected>>, alive' \subseteq alive,
         \A c \in Clients :
           \/ handler'[c] = handler[c]
           \/ handler[c] \in {"backlog", "test", "recv"} /\ handler'[c] = "ended"
           \/ handler[c] = "test" /\ handler'[c] = "recv",
         \A n \in Starts : loop'[n] = loop[n] \/ loop'[n] \in {"none", "test", "accept"}
  PROVE  DialogueInv'
<1>1. ASSUME NEW n \in Starts PROVE LoopOwnsAccepted(n)'
  BY <1>1 DEF DialogueInv, LoopOwnsAccepted
<1>2. LoopsApart'
  BY DEF DialogueInv, LoopsApart
<1>3. ASSUME NEW c \in Clients PROVE Dialogue(c)'
  <2>1. Dialogue(c)
    BY DEF DialogueInv
  <2>2. /\ replies'[c] = replies[c] /\ injected'[c] = injected[c]
        /\ c \in alive' => c \in alive
        /\ handler'[c] = "ack" <=> handler[c] = "ack"
        /\ handler'[c] \in {"none", "backlog", "accepted"} => handler'[c] = handler[c]
        /\ handler'[c] \in {"test", "recv", "ack"} => handler[c] \in {"test", "recv", "ack"}
    BY <1>3
  <2> QED
    BY <2>1, <2>2 DEF Dialogue
<1> QED
  BY <1>1, <1>2, <1>3 DEF DialogueInv

LEMMA CloseDialogue ==
  ASSUME TypeOK, NEW L, NEW C, CloseListeners(L, C)
  PROVE  /\ UNCHANGED <<replies, injected>> /\ alive' \subseteq alive
         /\ \A c \in Clients :
              handler'[c] = handler[c] \/ (handler[c] = "backlog" /\ handler'[c] = "ended")
BY DEF CloseListeners, TypeOK

LEMMA CleanupDialogue ==
  ASSUME TypeOK, NEW L, WSACleanup(L)
  PROVE  /\ UNCHANGED <<replies, injected>> /\ alive' \subseteq alive
         /\ \A c \in Clients :
              handler'[c] = handler[c] \/ (handler[c] = "backlog" /\ handler'[c] = "ended")
<1>1. CASE winsock <= 1
  <2>1. CloseListeners(Starts, Clients)
    BY <1>1 DEF WSACleanup
  <2> QED
    BY <2>1, CloseDialogue
<1>2. CASE ~(winsock <= 1)
  <2>1. CloseListeners(L, {})
    BY <1>2 DEF WSACleanup
  <2> QED
    BY <2>1, CloseDialogue
<1> QED
  BY <1>1, <1>2

LEMMA StartDialogue ==
  ASSUME TypeOK, DialogueInv, NEW n \in Starts, StartThread(n)
  PROVE  DialogueInv'
<1> USE DEF loopVars, connVars
<1>1. UNCHANGED <<accepted, replies, injected>> /\ alive' \subseteq alive
  BY CleanupDialogue DEF StartThread, Startup, CreateSocket, SocketFails, Bind, BindFails, FailWith,
     Listen, ListenFails, SetRunning, StartServer
<1>2. \A c \in Clients :
        handler'[c] = handler[c] \/ (handler[c] = "backlog" /\ handler'[c] = "ended")
  BY CleanupDialogue DEF StartThread, Startup, CreateSocket, SocketFails, Bind, BindFails, FailWith,
     Listen, ListenFails, SetRunning, StartServer
<1>3. \A m \in Starts : loop'[m] = loop[m] \/ loop'[m] = "test"
  BY DEF TypeOK, StartThread, Startup, CreateSocket, SocketFails, Bind, BindFails, FailWith,
     Listen, ListenFails, SetRunning, StartServer
<1> QED
  BY <1>1, <1>2, <1>3, DialogueFrame

LEMMA LoopDialogue ==
  ASSUME TypeOK, DialogueInv, NEW n \in Starts, AcceptLoop(n)
  PROVE  DialogueInv'
<1> USE DEF connVars
<1>1. CASE TestRunning(n) \/ AcceptFails(n)
  <2>1. /\ UNCHANGED <<accepted, replies, injected, alive, handler>>
        /\ \A m \in Starts : loop'[m] = loop[m] \/ loop'[m] \in {"none", "test", "accept"}
    BY <1>1 DEF TestRunning, AcceptFails, TypeOK
  <2> QED
    BY <2>1, DialogueFrame
<1>2. CASE AcceptReset(n)
  <2>1. /\ UNCHANGED <<accepted, replies, injected, alive>>
        /\ \A m \in Starts : loop'[m] = loop[m] \/ loop'[m] = "test"
    BY <1>2 DEF AcceptReset, TypeOK
  <2>2. \A c \in Clients :
          handler'[c] = handler[c] \/ (handler[c] = "backlog" /\ handler'[c] = "ended")
    BY <1>2 DEF AcceptReset, InBacklog, TypeOK
  <2> QED
    BY <2>1, <2>2, DialogueFrame
<1>3. CASE Accept(n)
  <2>1. PICK c \in Clients : /\ handler[c] = "backlog"
                             /\ handler' = [handler EXCEPT ![c] = "accepted"]
                             /\ accepted' = [accepted EXCEPT ![n] = c]
    BY <1>3 DEF Accept, InBacklog
  <2>2. loop' = [loop EXCEPT ![n] = "greet"] /\ UNCHANGED <<replies, injected, alive>>
    BY <1>3 DEF Accept
  <2>3. \A m \in Starts : loop[m] \in {"greet", "detach"} => accepted[m] # c
    BY <2>1 DEF DialogueInv, LoopOwnsAccepted
  <2>4. ASSUME NEW m \in Starts PROVE LoopOwnsAccepted(m)'
    BY <2>1, <2>2, <2>3 DEF DialogueInv, LoopOwnsAccepted, Dialogue, TypeOK
  <2>5. LoopsApart'
    BY <2>1, <2>2, <2>3 DEF DialogueInv, LoopsApart, TypeOK
  <2>6. ASSUME NEW d \in Clients PROVE Dialogue(d)'
    BY <2>1, <2>2 DEF DialogueInv, Dialogue, TypeOK
  <2> QED
    BY <2>4, <2>5, <2>6 DEF DialogueInv
<1>4. CASE Greet(n)
  <2> DEFINE c == accepted[n]
  <2>1. c \in Clients /\ handler[c] = "accepted" /\ replies[c] = <<>>
    BY <1>4 DEF Greet, DialogueInv, LoopOwnsAccepted
  <2>2. /\ loop' = [loop EXCEPT ![n] = "detach"]
        /\ UNCHANGED <<accepted, handler, injected, alive>>
        /\ replies' = IF c \in alive THEN [replies EXCEPT ![c] = <<"SIG">>] ELSE replies
    BY <1>4, <2>1 DEF Greet, Reply, TypeOK
  <2>3. \A m \in Starts : loop[m] \in {"greet", "detach"} /\ accepted[m] = c => m = n
    BY <1>4 DEF Greet, DialogueInv, LoopsApart
  <2> HIDE DEF c
  <2>4. ASSUME NEW m \in Starts PROVE LoopOwnsAccepted(m)'
    <3>1. CASE m = n
      BY <2>1, <2>2, <3>1 DEF c, LoopOwnsAccepted, TypeOK
    <3>2. CASE m # n
      BY <2>1, <2>2, <2>3, <3>2 DEF DialogueInv, LoopOwnsAccepted, TypeOK
    <3> QED
      BY <3>1, <3>2
  <2>5. LoopsApart'
    BY <1>4, <2>2 DEF Greet, DialogueInv, LoopsApart, TypeOK
  <2>6. ASSUME NEW d \in Clients PROVE Dialogue(d)'
    <3>1. CASE d = c /\ c \in alive
      <4>1. replies'[d] = <<"SIG">> /\ handler'[d] = "accepted" /\ injected'[d] = 0
        BY <2>1, <2>2, <3>1 DEF TypeOK, DialogueInv, Dialogue
      <4> QED
        BY <4>1 DEF Dialogue
    <3>2. CASE ~(d = c /\ c \in alive)
      <4>1. replies'[d] = replies[d]
        BY <2>2, <3>2 DEF TypeOK
      <4> QED
        BY <2>2, <4>1 DEF DialogueInv, Dialogue
    <3> QED
      BY <3>1, <3>2
  <2> QED
    BY <2>4, <2>5, <2>6 DEF DialogueInv
<1>5. CASE DetachHandler(n)
  <2> DEFINE c == accepted[n]
  <2>1. c \in Clients /\ handler[c] = "accepted" /\ (c \in alive => replies[c] # <<>>)
    BY <1>5 DEF DetachHandler, DialogueInv, LoopOwnsAccepted
  <2>2. /\ loop' = [loop EXCEPT ![n] = "test"]
        /\ accepted' = [accepted EXCEPT ![n] = NoClient]
        /\ handler' = [handler EXCEPT ![c] = "test"]
        /\ UNCHANGED <<replies, injected, alive>>
    BY <1>5 DEF DetachHandler
  <2>3. \A m \in Starts : loop[m] \in {"greet", "detach"} /\ accepted[m] = c => m = n
    BY <1>5 DEF DetachHandler, DialogueInv, LoopsApart
  <2> HIDE DEF c
  <2>4. ASSUME NEW m \in Starts PROVE LoopOwnsAccepted(m)'
    BY <2>1, <2>2, <2>3 DEF DialogueInv, LoopOwnsAccepted, TypeOK
  <2>5. LoopsApart'
    BY <2>2 DEF DialogueInv, LoopsApart, TypeOK
  <2>6. ASSUME NEW d \in Clients PROVE Dialogue(d)'
    BY <2>1, <2>2 DEF DialogueInv, Dialogue, TypeOK
  <2> QED
    BY <2>4, <2>5, <2>6 DEF DialogueInv
<1> QED
  BY <1>1, <1>2, <1>3, <1>4, <1>5 DEF AcceptLoop
LEMMA HandlerDialogue ==
  ASSUME TypeOK, DialogueInv, NEW c \in Clients, HandleClient(c) \/ Client(c)
  PROVE  DialogueInv'
<1> USE DEF loopVars
<1>1. CASE HandlerTests(c) \/ RecvFails(c) \/ SendKey(c) \/ Leave(c)
  <2>1. UNCHANGED <<accepted, loop, replies, injected>> /\ alive' \subseteq alive
    BY <1>1 DEF HandlerTests, RecvFails, SendKey, Leave
  <2>2. \A d \in Clients :
          \/ handler'[d] = handler[d]
          \/ handler[d] \in {"backlog", "test", "recv"} /\ handler'[d] = "ended"
          \/ handler[d] = "test" /\ handler'[d] = "recv"
    BY <1>1 DEF HandlerTests, RecvFails, SendKey, Leave, TypeOK
  <2> QED
    BY <2>1, <2>2, DialogueFrame
<1>2. CASE HandleKey(c)
  <2>1. /\ handler[c] = "recv" /\ handler' = [handler EXCEPT ![c] = "ack"]
        /\ injected' = [injected EXCEPT ![c] = @ + 1]
        /\ UNCHANGED <<loop, accepted, replies, alive>>
    BY <1>2 DEF HandleKey
  <2>2. ASSUME NEW n \in Starts PROVE LoopOwnsAccepted(n)'
    BY <2>1 DEF DialogueInv, LoopOwnsAccepted, TypeOK
  <2>3. LoopsApart'
    BY <2>1 DEF DialogueInv, LoopsApart
  <2>4. ASSUME NEW d \in Clients PROVE Dialogue(d)'
    <3>1. CASE d = c
      <4>1. handler'[c] = "ack" /\ injected'[c] = injected[c] + 1 /\ injected[c] \in Nat
        BY <2>1 DEF TypeOK
      <4>2. replies[c] \in Seq({"SIG", "ACK"}) /\ Len(replies[c]) \in Nat
        BY DEF TypeOK
      <4> QED
        BY <2>1, <3>1, <4>1, <4>2 DEF DialogueInv, Dialogue
    <3>2. CASE d # c
      BY <2>1, <3>2 DEF DialogueInv, Dialogue, TypeOK
    <3> QED
      BY <3>1, <3>2
  <2> QED
    BY <2>2, <2>3, <2>4 DEF DialogueInv
<1>3. CASE SendAck(c)
  <2>1. /\ handler[c] = "ack" /\ handler' = [handler EXCEPT ![c] = "test"]
        /\ replies' = IF c \in alive THEN [replies EXCEPT ![c] = Append(@, "ACK")] ELSE replies
        /\ UNCHANGED <<loop, accepted, injected, alive>>
    BY <1>3 DEF SendAck, Reply
  <2>2. ASSUME NEW n \in Starts PROVE LoopOwnsAccepted(n)'
    BY <2>1 DEF DialogueInv, LoopOwnsAccepted, TypeOK
  <2>3. LoopsApart'
    BY <2>1 DEF DialogueInv, LoopsApart
  <2>4. ASSUME NEW d \in Clients PROVE Dialogue(d)'
    <3>1. CASE d = c /\ c \in alive
      <4> DEFINE r == replies[c]
      <4>1. /\ r \in Seq({"SIG", "ACK"}) /\ r # <<>> /\ Len(r) = injected[c]
            /\ Len(r) \in Nat /\ Len(r) > 0
        <5>1. r \in Seq({"SIG", "ACK"}) /\ injected[c] \in Nat
          BY DEF TypeOK
        <5>2. r # <<>>
          BY <2>1, <3>1 DEF DialogueInv, Dialogue
        <5>3. Len(r) = injected[c]
          BY <2>1, <3>1, <5>1, <5>2 DEF DialogueInv, Dialogue
        <5> QED
          BY <5>1, <5>2, <5>3
      <4>2. replies'[c] = Append(r, "ACK") /\ handler'[c] = "test" /\ injected'[c] = injected[c]
        BY <2>1, <3>1 DEF TypeOK
      <4>3. \A i \in DOMAIN r : (r[i] = "SIG") <=> i = 1
        BY DEF DialogueInv, Dialogue
      <4> HIDE DEF r
      <4>4. /\ Len(Append(r, "ACK")) = Len(r) + 1 /\ Append(r, "ACK") # <<>>
            /\ DOMAIN Append(r, "ACK") = 1 .. (Len(r) + 1) /\ DOMAIN r = 1 .. Len(r)
            /\ Append(r, "ACK")[Len(r) + 1] = "ACK"
            /\ \A i \in 1 .. Len(r) : Append(r, "ACK")[i] = r[i]
        BY <4>1
      <4>5. ASSUME NEW i \in DOMAIN Append(r, "ACK")
            PROVE  (Append(r, "ACK")[i] = "SIG") <=> i = 1
        <5>1. CASE i \in 1 .. Len(r)
          BY <4>3, <4>4, <5>1
        <5>2. CASE i = Len(r) + 1
          BY <4>1, <4>4, <5>2
        <5> QED
          BY <4>1, <4>4, <5>1, <5>2
      <4>6. injected[c] \in Nat
        BY DEF TypeOK
      <4> QED
        BY <3>1, <4>1, <4>2, <4>4, <4>5, <4>6 DEF Dialogue
    <3>2. CASE ~(d = c /\ c \in alive)
      <4>1. replies'[d] = replies[d]
        BY <2>1, <3>2 DEF TypeOK
      <4>2. injected'[d] = injected[d] /\ (d \in alive' <=> d \in alive) /\ Dialogue(d)
        BY <2>1 DEF DialogueInv
      <4>3. CASE d = c
        <5>1. handler'[d] = "test" /\ d \notin alive
          BY <2>1, <3>2, <4>3 DEF TypeOK
        <5> QED
          BY <4>1, <4>2, <5>1 DEF Dialogue
      <4>4. CASE d # c
        <5>1. handler'[d] = handler[d]
          BY <2>1, <4>4 DEF TypeOK
        <5> QED
          BY <4>1, <4>2, <5>1 DEF Dialogue
      <4> QED
        BY <4>3, <4>4
    <3> QED
      BY <3>1, <3>2
  <2> QED
    BY <2>2, <2>3, <2>4 DEF DialogueInv
<1>4. CASE Arrive(c)
  <2>1. /\ handler[c] = "none" /\ handler' = [handler EXCEPT ![c] = "backlog"]
        /\ alive' = alive \cup {c}
        /\ UNCHANGED <<loop, accepted, replies, injected>>
    BY <1>4 DEF Arrive
  <2>2. ASSUME NEW n \in Starts PROVE LoopOwnsAccepted(n)'
    BY <2>1 DEF DialogueInv, LoopOwnsAccepted, TypeOK
  <2>3. LoopsApart'
    BY <2>1 DEF DialogueInv, LoopsApart
  <2>4. ASSUME NEW d \in Clients PROVE Dialogue(d)'
    BY <2>1 DEF DialogueInv, Dialogue, TypeOK
  <2> QED
    BY <2>2, <2>3, <2>4 DEF DialogueInv
<1> QED
  BY <1>1, <1>2, <1>3, <1>4 DEF HandleClient, Client

LEMMA StopDialogue ==
  ASSUME TypeOK, DialogueInv, GuiStop \/ User \/ \E a \in Stoppers : Stop(a)
  PROVE  DialogueInv'
<1> USE DEF Proceed, BeginStop, startVars, loopVars, connVars
<1>1. ASSUME NEW a \in Stoppers, Exit(a) PROVE DialogueInv'
  <2>1. ASSUME NEW n \in Starts PROVE LoopOwnsAccepted(n)'
    BY <1>1 DEF Exit, LoopOwnsAccepted
  <2>2. LoopsApart'
    BY <1>1 DEF Exit, LoopsApart
  <2>3. ASSUME NEW c \in Clients PROVE Dialogue(c)'
    BY <1>1 DEF Exit, DialogueInv, Dialogue
  <2> QED
    BY <2>1, <2>2, <2>3 DEF DialogueInv
<1>2. ASSUME GuiStop \/ User \/ \E a \in Stoppers : Stop(a) /\ ~Exit(a)
      PROVE  DialogueInv'
  <2>1. /\ UNCHANGED <<loop, accepted, replies, injected>> /\ alive' \subseteq alive
        /\ \A c \in Clients :
             handler'[c] = handler[c] \/ (handler[c] = "backlog" /\ handler'[c] = "ended")
    <3>1. CASE GuiStop
      BY <3>1, CleanupDialogue DEF GuiStop, CleanupWinsock, Relaunch, RelaunchFails
    <3>2. CASE User
      BY <3>2 DEF User, ClickStart, Quit, ResetSettings, ParentExits
    <3>3. ASSUME NEW a \in Stoppers, Stop(a), ~Exit(a)
          PROVE  /\ UNCHANGED <<loop, accepted, replies, injected>> /\ alive' \subseteq alive
                 /\ \A c \in Clients : \/ handler'[c] = handler[c]
                                       \/ handler[c] = "backlog" /\ handler'[c] = "ended"
      BY <3>3, CleanupDialogue, CloseDialogue DEF Stop, ClearRunning, CloseListenSocket, Cleanup
    <3> QED
      BY <1>2, <3>1, <3>2, <3>3
  <2> QED
    BY <2>1, DialogueFrame
<1> QED
  BY <1>1, <1>2

LEMMA DialogueStep == TypeOK /\ DialogueInv /\ [Next]_vars => DialogueInv'
<1> SUFFICES ASSUME TypeOK, DialogueInv, [Next]_vars PROVE DialogueInv'
  OBVIOUS
<1>1. CASE UNCHANGED vars
  BY <1>1, DialogueFrame DEF vars, loopVars, connVars
<1>2. CASE Next
  BY <1>2, StartDialogue, LoopDialogue, HandlerDialogue, StopDialogue DEF Next
<1> QED
  BY <1>1, <1>2

LEMMA DialogueInit == Init => DialogueInv
BY DEF Init, DialogueInv, LoopOwnsAccepted, LoopsApart, Dialogue

\* Whatever starts, shutdowns and connections interleave, the accept loops and
\* the handlers never send a client its replies early, twice or out of order.
THEOREM RepliesInOrder == Spec => []RepliesFollowProtocol
<1>1. DialogueInv => RepliesFollowProtocol
  BY DEF DialogueInv, Dialogue, RepliesFollowProtocol
<1> QED
  BY <1>1, ServerTypeCorrect, DialogueInit, DialogueStep, PTL DEF Spec

-----------------------------------------------------------------------------
(* isServerUp.                                                             *)

\* Steps that leave serverRunning, the starts and the sockets of the server
\* alone, and move a shutdown from a stage where the flag is clear already.
LEMMA UpFrame ==
  ASSUME TypeOK, OneAtATime, UNCHANGED <<serverRunning, g_listenSocket, listener, init>>,
         \A a \in Stoppers : stop'[a] = stop[a] \/ stop[a] \notin {"idle", "flag"}
  PROVE  OneAtATime'
<1> USE DEF OneAtATime
<1>1. \A m, n \in Starts : InProgress(m)' /\ InProgress(n)' => m = n
  BY DEF InProgress
<1>2. Starting' => ~Stopping'
  BY DEF Starting, Stopping
<1>3. \A a \in Stoppers : (stop[a] \notin {"idle", "flag"} => ~serverRunning)'
  BY DEF TypeOK
<1> QED
  BY <1>1, <1>2, <1>3

\* Steps of a start; only SetRunning and Listen look at what they find.
LEMMA UpStart ==
  ASSUME TypeOK, OneAtATime, NEW n \in Starts, StartThread(n)
  PROVE  OneAtATime'
<1> USE DEF Advance, stopVars
<1>1. PICK to \in {"socket", "bind", "listen", "flag", "start", "done"} :
        init' = [init EXCEPT ![n] = to]
  BY DEF StartThread, Startup, CreateSocket, SocketFails, Bind, BindFails, FailWith, Listen,
     ListenFails, SetRunning, StartServer
<1>2. UNCHANGED stop /\ init[n] \notin {"none", "done"}
  BY DEF StartThread, Startup, CreateSocket, SocketFails, Bind, BindFails, FailWith, Listen,
     ListenFails, SetRunning, StartServer
<1>3. Starting /\ ~Stopping /\ \A m \in Starts : init[m] \notin {"none", "done"} => m = n
  BY <1>2 DEF OneAtATime, Starting, InProgress
<1>4. /\ \A m, k \in Starts : InProgress(m)' /\ InProgress(k)' => m = k
      /\ Starting' => ~Stopping'
      /\ \A a \in Stoppers : stop'[a] = "idle"
  BY <1>1, <1>2, <1>3 DEF InProgress, Starting, Stopping, TypeOK
<1>5. \A m \in Starts : init'[m] \notin {"none", "done"} => m = n
  BY <1>1, <1>3 DEF TypeOK
<1>6. init'[n] = to
  BY <1>1 DEF TypeOK
<1>7. CASE SetRunning(n)
  BY <1>4, <1>5, <1>6, <1>7 DEF SetRunning, OneAtATime, TypeOK
<1>8. CASE StartServer(n)
  BY <1>4, <1>5, <1>6, <1>8 DEF StartServer, OneAtATime, TypeOK
<1>9. CASE Listen(n)
  <2>1. ~serverRunning' /\ g_listenSocket' # INVALID_SOCKET
        /\ listener'[g_listenSocket'] = "listening"
    BY <1>9 DEF Listen, OneAtATime, TypeOK
  <2> QED
    BY <1>4, <1>5, <1>6, <2>1 DEF OneAtATime
<1>10. CASE \/ Startup(n) \/ CreateSocket(n) \/ SocketFails(n) \/ Bind(n) \/ BindFails(n)
            \/ ListenFails(n)
  <2>1. ~serverRunning' /\ init'[n] # "flag"
    BY <1>6, <1>10 DEF Startup, CreateSocket, SocketFails, Bind, BindFails, FailWith, ListenFails,
       OneAtATime, TypeOK
  <2> QED
    BY <1>4, <1>5, <2>1 DEF OneAtATime
<1> QED
  BY <1>7, <1>8, <1>9, <1>10 DEF StartThread
LEMMA UpStop ==
  ASSUME TypeOK, OneAtATime, ~overlapped', GuiStop \/ User \/ \E a \in Stoppers : Stop(a)
  PROVE  OneAtATime'
<1> USE DEF Proceed, BeginStop, startVars, stopVars
<1>1. CASE ClickStart
  <2>1. PICK n \in Starts : init[n] = "none" /\ init' = [init EXCEPT ![n] = "startup"]
    BY <1>1 DEF ClickStart
  <2>2. ~Starting /\ ~Stopping /\ UNCHANGED <<serverRunning, g_listenSocket, listener, stop>>
    BY <1>1 DEF ClickStart
  <2>3. ~serverRunning
    BY <1>1 DEF ClickStart, isServerUp, OneAtATime
  <2>4. \A m \in Starts : init'[m] \notin {"none", "done"} => m = n /\ init'[m] = "startup"
    BY <2>1, <2>2 DEF Starting, TypeOK
  <2>5. ~Stopping'
    BY <2>2 DEF Stopping
  <2> QED
    BY <2>2, <2>3, <2>4, <2>5 DEF OneAtATime, InProgress
<1>2. CASE Quit \/ ParentExits \/ ResetSettings
  <2>1. PICK a \in Stoppers : stop[a] = "idle" /\ stop' = [stop EXCEPT ![a] = "flag"]
    BY <1>2 DEF Quit, ParentExits, ResetSettings, Stoppers
  <2>2. ~Starting /\ UNCHANGED <<serverRunning, g_listenSocket, listener, init>>
    BY <1>2 DEF Quit, ParentExits, ResetSettings
  <2>3. \A n \in Starts : init'[n] \in {"none", "done"}
    BY <2>2 DEF Starting
  <2>4. \A b \in Stoppers : (stop[b] \notin {"idle", "flag"} => ~serverRunning)'
    BY <2>1, <2>2 DEF OneAtATime, TypeOK
  <2> QED
    BY <2>2, <2>3, <2>4 DEF OneAtATime, Starting, InProgress
<1>3. ASSUME NEW a \in Stoppers, Stop(a) PROVE OneAtATime'
  <2>1. ~Starting
    BY <1>3 DEF Stop, ClearRunning, CloseListenSocket, Cleanup, Exit, OneAtATime, Stopping
  <2>2. ~serverRunning' /\ \A n \in Starts : init'[n] \in {"none", "done"}
    BY <1>3, <2>1 DEF Stop, ClearRunning, CloseListenSocket, Cleanup, Exit, OneAtATime, Starting
  <2> QED
    BY <2>2 DEF OneAtATime, Starting, InProgress
<1>4. CASE GuiStop
  <2>1. ~Starting /\ ~serverRunning /\ "gui" \in Stoppers
    BY <1>4 DEF GuiStop, CleanupWinsock, Relaunch, RelaunchFails, OneAtATime, Stopping, Stoppers
  <2>2. ~serverRunning' /\ \A n \in Starts : init'[n] \in {"none", "done"}
    BY <1>4, <2>1 DEF GuiStop, CleanupWinsock, Relaunch, RelaunchFails, Starting
  <2> QED
    BY <2>2 DEF OneAtATime, Starting, InProgress
<1> QED
  BY <1>1, <1>2, <1>3, <1>4 DEF User

LEMMA UpStep == TypeOK /\ UpInv /\ [Next]_vars => UpInv'
<1> SUFFICES ASSUME TypeOK, UpInv, [Next]_vars, ~overlapped' PROVE OneAtATime'
  BY DEF UpInv
<1>1. ~overlapped
  BY DEF Next, vars, stopVars, User, GuiStop, ClickStart, Quit, ParentExits, ResetSettings, BeginStop,
     CleanupWinsock, Relaunch, RelaunchFails, Proceed, StartThread, Startup, CreateSocket,
     SocketFails, Bind, BindFails, FailWith, Listen, ListenFails, SetRunning, StartServer,
     AcceptLoop, TestRunning, Accept, AcceptReset, AcceptFails, Greet, DetachHandler, HandleClient,
     HandlerTests, HandleKey, RecvFails, SendAck, Client, Arrive, SendKey, Leave, Stop,
     ClearRunning, CloseListenSocket, Cleanup, Exit
<1>2. OneAtATime
  BY <1>1 DEF UpInv
<1>3. ASSUME NEW n \in Starts, AcceptLoop(n) PROVE OneAtATime'
  <2>1. UNCHANGED <<serverRunning, g_listenSocket, listener, init, stop>>
    BY <1>3 DEF AcceptLoop, TestRunning, Accept, AcceptReset, AcceptFails, Greet, DetachHandler,
       startVars, stopVars
  <2> QED
    BY <1>2, <2>1, UpFrame
<1>4. ASSUME NEW c \in Clients, HandleClient(c) \/ Client(c) PROVE OneAtATime'
  <2>1. UNCHANGED <<serverRunning, g_listenSocket, listener, init, stop>>
    BY <1>4 DEF HandleClient, HandlerTests, HandleKey, RecvFails, SendAck, Client, Arrive, SendKey,
       Leave, startVars, stopVars
  <2> QED
    BY <1>2, <2>1, UpFrame
<1>5. CASE UNCHANGED vars
  BY <1>2, <1>5, UpFrame DEF vars, startVars, stopVars
<1> QED
  BY <1>2, <1>3, <1>4, <1>5, UpStart, UpStop DEF Next

LEMMA UpInit == Init => UpInv
BY DEF Init, UpInv, OneAtATime, InProgress, Starting, Stopping, INVALID_SOCKET

\* isServerUp, the only thing that keeps the user from starting a second
\* server, is never TRUE without a socket that accepts connections, as long as
\* no start meets another start or a shutdown.
THEOREM UpIsListening == Spec => []UpMeansListening
<1>1. UpInv => UpMeansListening
  BY DEF UpInv, OneAtATime, UpMeansListening, isServerUp
<1> QED
  BY <1>1, ServerTypeCorrect, UpInit, UpStep, PTL DEF Spec
=============================================================================
