------------------------ MODULE NetworkClientProofs ------------------------
(***************************************************************************)
(* What holds of the client for any number of threads, sockets and keys.   *)
(***************************************************************************)
EXTENDS NetworkClient, TLAPS

-----------------------------------------------------------------------------
(* Type correctness.                                                       *)

Labels == {"none", "pause", "status", "estab", "close", "tell", "closing", "clear", "check",
           "socket", "connect", "select", "sig", "failed", "report", "resume",
           "drain", "resend"}
Returns == {"none", "estab", "check"}

ThreadType == /\ pc \in [Threads -> Labels]
              /\ kind \in [Threads -> {"conn", "recon"}]
              /\ ret \in [Threads -> Returns]
              /\ fd \in [Threads -> Handles]

SockType == sock \in [Sockets -> SocketState] /\ blocking \subseteq Sockets

BufferType == /\ inbox \in [Sockets -> Seq(Replies)]
              /\ outbox \in [Sockets -> Seq(KeyEvents)]

ServerType == /\ srv \in [Sockets -> {"none", "backlog", "serving"}]
              /\ delivered \in Seq(KeyEvents)
              /\ faults \in 0..MaxFaults

NetType == /\ g \in Handles
           /\ winsockUp \in BOOLEAN
           /\ verified \subseteq Sockets /\ early \subseteq Sockets

QueueType == /\ keyEventQueue \in Seq(KeyEvents) /\ Len(keyEventQueue) <= maxQueueSize
             /\ queueMutex \in Threads \cup {NoThread}

GuiType == /\ guiPc \in {"idle", "send", "enqueue", "recv", "ack", "clear", "close", "quit",
                         "quitClear", "cleanup", "exit", "resetClear", "reset", "relaunch",
                         "ended"}
           /\ guiSock \in Handles
           /\ typed \in 0..MaxKeys /\ commands \in 0..MaxCommands

\* A key is being sent or queued: it has been typed.
GuiTyped == guiPc \in {"send", "enqueue"} => typed > 0

TInv == /\ SockType /\ BufferType /\ ServerType /\ NetType /\ QueueType
        /\ GuiType /\ GuiTyped /\ ThreadType /\ isReconnecting \in BOOLEAN

LEMMA TypeParts == TInv => TypeOK
BY DEF TInv, TypeOK, LinkTypeOK, SockType, BufferType, ServerType, NetType, QueueType, GuiType,
       ThreadType, Labels, Returns

\* Moving a thread keeps the threads well typed.
LEMMA EnterType ==
  ASSUME ThreadType, NEW t \in Threads, NEW label \in Labels, NEW return \in Returns,
         NEW h \in Handles, Enter(t, label, return, h)
  PROVE  ThreadType'
BY DEF ThreadType, Enter

LEMMA SpawnType ==
  ASSUME ThreadType, NEW k \in {"conn", "recon"}, NEW label \in Labels, Spawn(k, label)
  PROVE  ThreadType'
BY DEF ThreadType, Spawn

\* Closing sockets keeps them and their buffers well typed.
LEMMA CloseType ==
  ASSUME SockType, BufferType, verified \subseteq Sockets, early \subseteq Sockets,
         NEW S, Close(S)
  PROVE  /\ SockType' /\ BufferType'
         /\ verified' \subseteq Sockets /\ early' \subseteq Sockets
<1>1. SockType'
  BY DEF SockType, SocketState, Close, CloseSockets
<1>2. BufferType'
  BY DEF BufferType, Close, CloseSockets
<1> QED
  BY <1>1, <1>2 DEF Close

\* Sending a typed key keeps everything it touches well typed.
LEMMA SendType ==
  ASSUME SockType, BufferType, ServerType, NetType, NEW key \in KeyEvents, Send(key)
  PROVE  SockType' /\ BufferType' /\ ServerType' /\ NetType'
<1>1. outbox' \in [Sockets -> Seq(KeyEvents)]
  <2>1. CASE CanSend(g)
    <3>1. g \in Sockets /\ outbox[g] \in Seq(KeyEvents)
      BY <2>1 DEF CanSend, BufferType
    <3>2. Append(outbox[g], key) \in Seq(KeyEvents)
      BY <3>1
    <3> QED
      BY <2>1, <3>1, <3>2 DEF BufferType, Send
  <2>2. CASE ~CanSend(g)
    BY <2>2 DEF BufferType, Send
  <2> QED
    BY <2>1, <2>2
<1> QED
  BY <1>1 DEF Send, SockType, BufferType, ServerType, NetType, sockVars, serverVars, CanSend

\* A step of the network or of the server keeps the link well typed.
LEMMA LinkStepType ==
  ASSUME SockType, BufferType, ServerType, NEW s \in Sockets, LinkStep(s)
  PROVE  SockType' /\ BufferType' /\ ServerType'
<1> USE DEF SockType, SocketState, BufferType, ServerType, Replies, SetSocket, sockVars, buffers
<1>1. CASE Handshake(s)
  BY <1>1 DEF Handshake
<1>2. CASE Accept(s)
  <2>1. inbox' \in [Sockets -> Seq(Replies)]
    <3>1. Append(inbox[s], "SIG") \in Seq(Replies)
      OBVIOUS
    <3> QED
      BY <1>2, <3>1 DEF Accept
  <2> QED
    BY <1>2, <2>1 DEF Accept
<1>3. CASE HandleKey(s)
  <2>1. outbox[s] \in Seq(KeyEvents) /\ outbox[s] # <<>>
    BY <1>3 DEF HandleKey
  <2>2. Tail(outbox[s]) \in Seq(KeyEvents) /\ Head(outbox[s]) \in KeyEvents
    BY <2>1
  <2>3. Append(delivered, Head(outbox[s])) \in Seq(KeyEvents)
    BY <2>2
  <2>4. Append(inbox[s], "ACK") \in Seq(Replies)
    OBVIOUS
  <2>5. inbox' \in [Sockets -> Seq(Replies)]
    BY <1>3, <2>4 DEF HandleKey
  <2>6. outbox' \in [Sockets -> Seq(KeyEvents)]
    BY <1>3, <2>2 DEF HandleKey
  <2> QED
    BY <1>3, <2>3, <2>5, <2>6 DEF HandleKey
<1>4. CASE HandlerExits(s)
  BY <1>4 DEF HandlerExits
<1>5. CASE PeerLost(s)
  BY <1>5, KeyLinkAssumption DEF PeerLost
<1>6. CASE Detect(s)
  BY <1>6 DEF Detect
<1> QED
  BY <1>1, <1>2, <1>3, <1>4, <1>5, <1>6 DEF LinkStep

\* A step that only moves a thread keeps the type invariant.
LEMMA JumpType ==
  ASSUME TInv, NEW t \in Threads, NEW from, NEW to \in Labels, NEW return \in Returns,
         Jump(t, from, to, return)
  PROVE  TInv'
<1>1. ThreadType'
  BY EnterType DEF Jump, TInv, Handles
<1>2. UNCHANGED <<linkVars, isReconnecting, queueVars, netVars, guiVars>>
  BY DEF Jump
<1> QED
  BY <1>1, <1>2
  DEF TInv, GuiTyped, linkVars, sockVars, buffers, serverVars, queueVars, netVars, trustVars,
      guiVars, SockType, BufferType, ServerType, NetType, QueueType, GuiType

\* The first state is well typed.
LEMMA TypeInit == Init => TInv
<1> SUFFICES ASSUME Init PROVE TInv
  OBVIOUS
<1>1. SockType /\ BufferType /\ ServerType
  BY KeyLinkAssumption DEF Init, LinkInit, SockType, SocketState, BufferType, ServerType
<1>2. NetType /\ QueueType /\ GuiType /\ GuiTyped
  BY KeyLinkAssumption, ClientAssumption DEF Init, NetType, QueueType, GuiType, GuiTyped, Handles
<1>3. ThreadType
  BY DEF Init, ThreadType, Labels, Returns, Handles
<1> QED
  BY <1>1, <1>2, <1>3 DEF Init, TInv

\* The steps of the GUI thread towards the end of the process.
Ending ==
  \/ CloseWindow \/ DestroyWindow \/ ClickExit \/ LastClose \/ LastClear \/ CleanupWinsock
  \/ ResetSettings \/ ResetClear \/ ResetCleanup \/ RelaunchFails

\* The calls of closeClientConnection in the GUI thread keep the type invariant.
LEMMA GuiCloseType ==
  ASSUME TInv, NEW clear, NEW next, GuiClose(clear, next)
  PROVE  /\ SockType' /\ BufferType' /\ ServerType' /\ NetType' /\ QueueType' /\ ThreadType'
         /\ isReconnecting' \in BOOLEAN /\ guiPc' \in {clear, next} /\ UNCHANGED <<guiSock, typed>>
<1> USE DEF TInv, linkVars, sockVars, buffers, serverVars, queueVars, trustVars, threadVars
<1>1. SockType' /\ BufferType' /\ ServerType' /\ NetType'
  <2>1. CASE UNCHANGED <<linkVars, trustVars>>
    BY <2>1 DEF GuiClose, SockType, BufferType, ServerType, NetType
  <2>2. CASE Close({g}) /\ UNCHANGED serverVars
    BY <2>2, CloseType DEF GuiClose, ServerType, NetType
  <2> QED
    BY <2>1, <2>2 DEF GuiClose
<1> QED
  BY <1>1 DEF GuiClose, QueueType, ThreadType

LEMMA EndingType ==
  ASSUME TInv, Ending
  PROVE  TInv'
<1> USE KeyLinkAssumption, ClientAssumption
    DEF TInv, linkVars, sockVars, buffers, serverVars, queueVars, netVars, trustVars, threadVars
<1>1. CASE CloseWindow
  <2>1. GuiClose("close", "quit") /\ commands' \in 0..MaxCommands
    BY <1>1 DEF CloseWindow, GuiType
  <2> QED
    BY <2>1, GuiCloseType DEF GuiType, GuiTyped
<1>2. CASE LastClose
  <2>1. GuiClose("quitClear", "cleanup") /\ UNCHANGED commands
    BY <1>2 DEF LastClose
  <2> QED
    BY <2>1, GuiCloseType DEF GuiType, GuiTyped
<1>3. CASE DestroyWindow \/ LastClear \/ ResetClear
  BY <1>3
  DEF DestroyWindow, LastClear, ResetClear, GuiCleared, Handles, SockType, BufferType, ServerType,
      NetType, QueueType, GuiType, GuiTyped, ThreadType
<1>4. CASE ClickExit \/ RelaunchFails
  BY <1>4
  DEF ClickExit, RelaunchFails, SockType, BufferType, ServerType, NetType, QueueType, GuiType,
      GuiTyped, ThreadType
<1>5. CASE CleanupWinsock \/ ResetCleanup
  BY <1>5, CloseType
  DEF CleanupWinsock, ResetCleanup, GuiCleanup, ServerType, NetType, QueueType, GuiType, GuiTyped,
      ThreadType
<1>6. CASE ResetSettings
  <2>1. GuiClose("resetClear", "reset") /\ commands' \in 0..MaxCommands
    BY <1>6 DEF ResetSettings, GuiType
  <2> QED
    BY <2>1, GuiCloseType DEF GuiType, GuiTyped
<1> QED
  BY <1>1, <1>2, <1>3, <1>4, <1>5, <1>6 DEF Ending

LEMMA ProcessType ==
  ASSUME TInv, EndProcess \/ StartProcess
  PROVE  TInv'
<1> USE KeyLinkAssumption, ClientAssumption
    DEF TInv, linkVars, sockVars, buffers, serverVars, queueVars, netVars, trustVars, threadVars
<1>1. CASE EndProcess
  <2>1. SockType' /\ BufferType' /\ NetType' /\ ServerType'
    BY <1>1, CloseType DEF EndProcess, NetType, Handles, ServerType
  <2>2. QueueType' /\ ThreadType'
    BY <1>1 DEF EndProcess, QueueType, ThreadType, Labels, Returns, Handles
  <2>3. GuiType' /\ GuiTyped'
    BY <1>1 DEF EndProcess, GuiType, GuiTyped, Handles
  <2> QED
    BY <1>1, <2>1, <2>2, <2>3 DEF EndProcess
<1>2. CASE StartProcess
  <2>1. ThreadType'
    BY <1>2, SpawnType DEF StartProcess, Labels
  <2> QED
    BY <1>2, <2>1
    DEF StartProcess, SockType, BufferType, ServerType, NetType, QueueType, GuiType, GuiTyped
<1> QED
  BY <1>1, <1>2

\* A step of the GUI thread, or of the user, keeps the type invariant.
LEMMA GuiStepType ==
  ASSUME TInv, User \/ Gui
  PROVE  TInv'
<1> USE KeyLinkAssumption, ClientAssumption
    DEF TInv, linkVars, sockVars, buffers, serverVars, queueVars, netVars, trustVars, threadVars
<1>1. CASE IgnoreKey
  BY <1>1
    DEF IgnoreKey, Pumping, SockType, BufferType, ServerType, NetType, QueueType, GuiType,
        GuiTyped, ThreadType
<1>2. CASE TypeKey
  BY <1>2
    DEF TypeKey, Pumping, SockType, BufferType, ServerType, NetType, QueueType, GuiType, GuiTyped,
        ThreadType
<1>3. CASE ClickConnect
  <2>1. SockType' /\ BufferType' /\ ServerType' /\ NetType'
    <3>1. CASE g = INVALID_SOCKET /\ UNCHANGED <<linkVars, trustVars>>
      BY <1>3, <3>1 DEF ClickConnect, SockType, BufferType, ServerType, NetType
    <3>2. CASE Close({g}) /\ UNCHANGED serverVars
      BY <1>3, <3>2, CloseType DEF ClickConnect, ServerType, NetType
    <3> QED
      BY <1>3, <3>1, <3>2 DEF ClickConnect
  <2>2. ThreadType'
    <3>1. CASE Spawn("conn", "estab")
      BY <3>1, SpawnType DEF Labels
    <3>2. CASE UNCHANGED threadVars
      BY <3>2 DEF ThreadType
    <3> QED
      BY <1>3, <3>1, <3>2 DEF ClickConnect
  <2>3. QueueType' /\ GuiType' /\ GuiTyped' /\ isReconnecting' \in BOOLEAN
    BY <1>3 DEF ClickConnect, Pumping, QueueType, GuiType, GuiTyped
  <2> QED
    BY <2>1, <2>2, <2>3
<1>4. CASE GuiSend
  <2>1. typed \in KeyEvents
    BY <1>4 DEF GuiSend, GuiType, GuiTyped, KeyEvents
  <2>2. SockType' /\ BufferType' /\ ServerType' /\ NetType'
    BY <1>4, <2>1, SendType DEF GuiSend
  <2> QED
    BY <1>4, <2>2 DEF GuiSend, QueueType, GuiType, GuiTyped, ThreadType
<1>5. CASE GuiEnqueue
  <2>1. typed \in KeyEvents
    BY <1>5 DEF GuiEnqueue, GuiType, GuiTyped, KeyEvents
  <2>2. QueueType'
    <3>1. CASE queueKeys /\ Len(keyEventQueue) < maxQueueSize
      <4>1. Append(keyEventQueue, typed) \in Seq(KeyEvents)
            /\ Len(Append(keyEventQueue, typed)) = Len(keyEventQueue) + 1
        BY <2>1 DEF QueueType
      <4>2. Len(keyEventQueue) \in Nat
        BY DEF QueueType
      <4> QED
        BY <1>5, <3>1, <4>1, <4>2 DEF GuiEnqueue, QueueType
    <3>2. CASE ~(queueKeys /\ Len(keyEventQueue) < maxQueueSize)
      BY <1>5, <3>2 DEF GuiEnqueue, QueueType
    <3> QED
      BY <3>1, <3>2
  <2>3. ThreadType'
    BY <1>5, SpawnType DEF GuiEnqueue, Labels
  <2> QED
    BY <1>5, <2>2, <2>3
    DEF GuiEnqueue, SockType, BufferType, ServerType, NetType, GuiType, GuiTyped
<1>6. CASE GuiRecv
  BY <1>6
    DEF GuiRecv, NetType, SockType, BufferType, ServerType, NetType, QueueType, GuiType, GuiTyped,
        ThreadType
<1>7. CASE GuiAck
  <2>1. guiSock \in Sockets /\ inbox[guiSock] \in Seq(Replies) /\ inbox[guiSock] # <<>>
    BY <1>7 DEF GuiAck, CanSend, BufferType
  <2>2. Tail(inbox[guiSock]) \in Seq(Replies)
    BY <2>1
  <2>3. <<"PART">> \o Tail(inbox[guiSock]) \in Seq(Replies)
    BY <2>2 DEF Replies
  <2>4. BufferType'
    BY <1>7, <2>1, <2>2, <2>3 DEF GuiAck, GuiReturn, BufferType
  <2> QED
    BY <1>7, <2>4
    DEF GuiAck, GuiReturn, Handles, SockType, ServerType, NetType, QueueType, GuiType, GuiTyped,
        ThreadType
<1>8. CASE GuiAckFails
  BY <1>8
    DEF GuiAckFails, GuiReturn, Handles, SockType, BufferType, ServerType, NetType, QueueType,
        GuiType, GuiTyped, ThreadType
<1>9. CASE GuiClear
  <2>1. ThreadType'
    BY <1>9, SpawnType DEF GuiClear, Labels
  <2> QED
    BY <1>9, <2>1
    DEF GuiClear, Handles, SockType, BufferType, ServerType, NetType, QueueType, GuiType, GuiTyped
<1> QED
  BY <1>1, <1>2, <1>3, <1>4, <1>5, <1>6, <1>7, <1>8, <1>9, EndingType, ProcessType
  DEF User, Gui, Ending

\* A thread's next place, whatever the outcome of its attempt.
LEMMA AfterType ==
  ASSUME NEW t
  PROVE  AfterFailure(t) \in Returns /\ AfterFailure(t) \in Labels /\ AfterSuccess(t) \in Labels
BY DEF AfterFailure, AfterSuccess, Returns, Labels

\* A step of a detached thread keeps the type invariant.
LEMMA ThreadStepType ==
  ASSUME TInv, NEW t \in Threads, Thread(t)
  PROVE  TInv'
<1> USE KeyLinkAssumption, ClientAssumption, AfterType
    DEF TInv, linkVars, sockVars, buffers, serverVars, queueVars, netVars, trustVars, guiVars
<1>0. ret[t] \in Returns /\ ret[t] \in Labels /\ INVALID_SOCKET \in Handles
      /\ g \in Handles /\ fd[t] \in Handles
  BY DEF ThreadType, Returns, Labels, Handles, NetType
<1>1. CASE LoseExchange(t)
  BY <1>1, <1>0, JumpType DEF LoseExchange, Labels, Returns
<1>2. CASE ShowReconnecting(t)
  BY <1>2, <1>0, JumpType DEF ShowReconnecting, Labels, Returns
<1>3. CASE SkipClose(t)
  BY <1>3, <1>0, JumpType DEF SkipClose, Labels, Returns
<1>4. CASE FindSocket(t) \/ ShowClosing(t)
  BY <1>4, <1>0, JumpType DEF FindSocket, ShowClosing, Labels, Returns
<1>5. CASE ShowTrying(t)
  BY <1>5, <1>0, JumpType DEF ShowTrying, Labels, Returns
<1>6. CASE AlreadyEstablished(t)
  BY <1>6, <1>0, JumpType DEF AlreadyEstablished, Labels, Returns
<1>7. CASE NotEstablished(t)
  BY <1>7, <1>0, JumpType DEF NotEstablished, Labels, Returns
<1>8. CASE ConnectFails(t)
  BY <1>8, <1>0, JumpType DEF ConnectFails, Fail, Labels, Returns
<1>9. CASE SelectFails(t)
  BY <1>9, <1>0, JumpType DEF SelectFails, Labels, Returns
<1>10. CASE ShowFailure(t)
  BY <1>10, <1>0, JumpType DEF ShowFailure, Fail, Labels, Returns
<1>11. CASE Report(t)
  BY <1>11, <1>0, JumpType DEF Report, Labels, Returns
<1>12. CASE WinExchange(t)
  <2>1. ThreadType'
    BY <1>12, <1>0, EnterType DEF WinExchange, Goto, Labels, Returns
  <2> QED
    BY <1>12, <2>1
      DEF WinExchange, SockType, BufferType, ServerType, NetType, QueueType, GuiType, GuiTyped
<1>13. CASE CloseSocket(t)
  <2>1. ThreadType'
    BY <1>13, <1>0, EnterType DEF CloseSocket, Goto, Labels, Returns
  <2>2. SockType' /\ BufferType' /\ verified' \subseteq Sockets /\ early' \subseteq Sockets
    BY <1>13, CloseType DEF CloseSocket, NetType
  <2> QED
    BY <1>13, <2>1, <2>2 DEF CloseSocket, ServerType, NetType, QueueType, GuiType, GuiTyped
<1>14. CASE ClearSocket(t)
  <2>1. ThreadType'
    BY <1>14, <1>0, EnterType DEF ClearSocket, Goto, Labels, Returns
  <2> QED
    BY <1>14, <2>1
      DEF ClearSocket, SockType, BufferType, ServerType, NetType, QueueType, GuiType, GuiTyped,
          Handles
<1>15. CASE SocketCreated(t)
  <2>1. ThreadType'
    BY <1>15, <1>0, EnterType DEF SocketCreated, Goto, Labels, Returns
  <2>2. PICK s \in Sockets : /\ Unused(s) /\ \A r \in Sockets : Unused(r) => s <= r
                            /\ sock' = [sock EXCEPT ![s] = "created"]
                            /\ blocking' = blocking \ {s}
                            /\ g' = s
    BY <1>15, Zenon DEF SocketCreated
  <2> QED
    BY <1>15, <2>1, <2>2
      DEF SocketCreated, SocketState, Handles, SockType, BufferType, ServerType, NetType,
          QueueType, GuiType, GuiTyped
<1>16. CASE SocketFails(t)
  <2>1. ThreadType'
    BY <1>16, <1>0, EnterType DEF SocketFails, Goto, Labels, Returns
  <2> QED
    BY <1>16, <2>1
      DEF SocketFails, SockType, BufferType, ServerType, NetType, QueueType, GuiType, GuiTyped,
          Handles
<1>17. CASE Connect(t)
  <2>1. ThreadType'
    BY <1>17, <1>0, EnterType DEF Connect, Goto, Labels, Returns
  <2> QED
    BY <1>17, <2>1
      DEF Connect, Connectable, SetSocket, SocketState, SockType, BufferType, ServerType, NetType,
          QueueType, GuiType, GuiTyped
<1>18. CASE SelectReady(t)
  <2>1. ThreadType'
    BY <1>18, <1>0, EnterType DEF SelectReady, Goto, Labels, Returns
  <2> QED
    BY <1>18, <2>1
      DEF SelectReady, SockType, BufferType, ServerType, NetType, QueueType, GuiType, GuiTyped
<1>19. CASE SignatureOk(t)
  <2>1. ThreadType'
    BY <1>19, <1>0, EnterType DEF SignatureOk, Goto, Labels, Returns
  <2>2. fd[t] \in Sockets
    BY <1>19 DEF SignatureOk, CanSend
  <2>3. BufferType'
    <3>1. <<>> \in Seq(Replies)
      OBVIOUS
    <3> QED
      BY <1>19, <2>2, <3>1 DEF SignatureOk, BufferType
  <2> QED
    BY <1>19, <2>1, <2>2, <2>3
      DEF SignatureOk, SockType, ServerType, NetType, QueueType, GuiType, GuiTyped
<1>20. CASE SignatureBad(t)
  <2>1. ThreadType'
    BY <1>20, <1>0, EnterType DEF SignatureBad, Goto, Labels, Returns
  <2>2. SockType' /\ BufferType' /\ verified' \subseteq Sockets /\ early' \subseteq Sockets
    BY <1>20, CloseType DEF SignatureBad, NetType
  <2> QED
    BY <1>20, <2>1, <2>2 DEF SignatureBad, ServerType, NetType, QueueType, GuiType, GuiTyped
<1>21. CASE Resume(t)
  <2>1. ThreadType'
    BY <1>21, <1>0, EnterType DEF Resume, Goto, Labels, Returns
  <2> QED
    BY <1>21, <2>1
      DEF Resume, SockType, BufferType, ServerType, NetType, QueueType, GuiType, GuiTyped
<1>22. CASE ClearQueue(t)
  <2>1. ThreadType'
    BY <1>22, <1>0, EnterType DEF ClearQueue, Goto, Labels, Returns
  <2>2. QueueType'
    BY <1>22 DEF ClearQueue, QueueType
  <2> QED
    BY <1>22, <2>1, <2>2
      DEF ClearQueue, SockType, BufferType, ServerType, NetType, GuiType, GuiTyped
<1>23. CASE LockQueue(t)
  <2>1. ThreadType'
    BY <1>23, <1>0, EnterType DEF LockQueue, Goto, Labels, Returns
  <2> QED
    BY <1>23, <2>1
      DEF LockQueue, SockType, BufferType, ServerType, NetType, QueueType, GuiType, GuiTyped
<1>24. CASE Resend(t)
  <2>1. Head(keyEventQueue) \in KeyEvents /\ Tail(keyEventQueue) \in Seq(KeyEvents)
        /\ Len(Tail(keyEventQueue)) <= Len(keyEventQueue) /\ Len(keyEventQueue) \in Nat
        /\ Len(Tail(keyEventQueue)) \in Nat
    BY <1>24 DEF Resend, QueueType
  <2>2. SockType' /\ BufferType' /\ ServerType' /\ NetType'
    BY <1>24, <2>1, SendType DEF Resend
  <2>3. QueueType'
    BY <1>24, <2>1 DEF Resend, QueueType
  <2> QED
    BY <1>24, <2>2, <2>3 DEF Resend, threadVars, GuiType, GuiTyped, ThreadType
<1>25. CASE UnlockQueue(t)
  <2>1. ThreadType'
    BY <1>25, <1>0, EnterType DEF UnlockQueue, Goto, Labels, Returns
  <2> QED
    BY <1>25, <2>1
      DEF UnlockQueue, SockType, BufferType, ServerType, NetType, QueueType, GuiType, GuiTyped
<1> QED
  BY <1>1, <1>2, <1>3, <1>4, <1>5, <1>6, <1>7, <1>8, <1>9, <1>10, <1>11, <1>12, <1>13, <1>14,
     <1>15, <1>16, <1>17, <1>18, <1>19, <1>20, <1>21, <1>22, <1>23, <1>24, <1>25
  DEF Thread

\* The type invariant is preserved by every step.
LEMMA TypeStep == TInv /\ [Next]_vars => TInv'
<1> SUFFICES ASSUME TInv, [Next]_vars PROVE TInv'
  OBVIOUS
<1>1. CASE User \/ Gui
  BY <1>1, GuiStepType
<1>2. ASSUME NEW t \in Threads, Thread(t) PROVE TInv'
  BY <1>2, ThreadStepType
<1>3. ASSUME NEW s \in Sockets, Environment(s) PROVE TInv'
  <2>1. SockType' /\ BufferType' /\ ServerType'
    BY <1>3, LinkStepType DEF TInv, Environment
  <2> QED
    BY <1>3, <2>1
    DEF TInv, Environment, clientVars, queueVars, netVars, trustVars, guiVars, threadVars,
        NetType, QueueType, GuiType, GuiTyped, ThreadType
<1>4. CASE UNCHANGED vars
  BY <1>4
  DEF TInv, vars, linkVars, sockVars, buffers, serverVars, clientVars, queueVars, netVars,
      trustVars, guiVars, threadVars, SockType, BufferType, ServerType, NetType, QueueType,
      GuiType, GuiTyped, ThreadType
<1> QED
  BY <1>1, <1>2, <1>3, <1>4 DEF Next

\* Every variable of the client keeps its type, so the queue never grows beyond
\* maxQueueSize, however keys, failures, commands and threads interleave.
THEOREM TypeCorrect == Spec => []TypeOK
<1>1. TInv => TypeOK
  BY TypeParts
<1> QED
  BY <1>1, TypeInit, TypeStep, PTL DEF Spec

-----------------------------------------------------------------------------
(* One reconnection at a time.                                             *)

OwnLabels == {"pause", "status", "resume", "drain", "resend"}
Telling == {"close", "tell"}
Closing == {"closing", "clear"}

\* What a thread runs at each place, and where a reconnecting one goes on after
\* it has closed a connection: not to its end, which would leave the flag set.
KindInv == \A t \in Threads :
  /\ pc[t] = "none" => kind[t] = "conn"
  /\ pc[t] \in OwnLabels => kind[t] = "recon"
  /\ pc[t] \in Telling => ret[t] \in {"estab", "check"}
  /\ pc[t] \in Closing /\ kind[t] = "recon" => ret[t] \in {"estab", "check"}

RInv == TInv /\ KindInv /\ ReconnectIsExclusive

\* A thread that moves on keeps KindInv if its new place fits what it runs.
LEMMA MoveKeepsKind ==
  ASSUME ThreadType, KindInv, NEW t \in Threads, NEW label \in Labels,
         NEW return \in Returns, NEW h \in Handles, Enter(t, label, return, h),
         label \in OwnLabels => kind[t] = "recon",
         label \in Telling => return \in {"estab", "check"},
         label \in Closing /\ kind[t] = "recon" => return \in {"estab", "check"}
  PROVE  KindInv'
<1> SUFFICES ASSUME NEW u \in Threads
             PROVE  /\ pc'[u] = "none" => kind'[u] = "conn"
                    /\ pc'[u] \in OwnLabels => kind'[u] = "recon"
                    /\ pc'[u] \in Telling => ret'[u] \in {"estab", "check"}
                    /\ pc'[u] \in Closing /\ kind'[u] = "recon" => ret'[u] \in {"estab", "check"}
  BY DEF KindInv
<1>1. CASE u = t
  BY <1>1 DEF Enter, ThreadType, OwnLabels, Telling, Closing
<1>2. CASE u # t
  BY <1>2 DEF Enter, ThreadType, KindInv
<1> QED
  BY <1>1, <1>2

\* A thread that stays inside, or outside, its reconnection does not disturb
\* the flag.
LEMMA MoveKeepsExclusive ==
  ASSUME ThreadType, ReconnectIsExclusive, NEW t \in Threads, NEW label \in Labels,
         NEW return, NEW h, Enter(t, label, return, h), UNCHANGED isReconnecting,
         InReconnect(t) <=> /\ kind[t] = "recon"
                            /\ label \notin {"none", "pause", "drain", "resend"}
  PROVE  ReconnectIsExclusive'
<1>1. ASSUME NEW u \in Threads PROVE InReconnect(u)' <=> InReconnect(u)
  <2>1. CASE u = t
    BY <2>1 DEF Enter, ThreadType, InReconnect
  <2>2. CASE u # t
    BY <2>2 DEF Enter, ThreadType, InReconnect
  <2> QED
    BY <2>1, <2>2
<1> QED
  BY <1>1 DEF ReconnectIsExclusive

\* The same for a thread that is created, waiting or connecting.
LEMMA SpawnKeeps ==
  ASSUME ThreadType, KindInv, ReconnectIsExclusive, UNCHANGED isReconnecting,
         Spawn("conn", "estab") \/ Spawn("recon", "pause")
  PROVE  KindInv' /\ ReconnectIsExclusive'
<1>1. PICK t \in Threads :
        /\ pc[t] = "none" /\ UNCHANGED <<ret, fd>>
        /\ \/ /\ pc' = [pc EXCEPT ![t] = "estab"]
              /\ kind' = [kind EXCEPT ![t] = "conn"]
           \/ /\ pc' = [pc EXCEPT ![t] = "pause"]
              /\ kind' = [kind EXCEPT ![t] = "recon"]
  BY DEF Spawn
<1>2. KindInv'
  BY <1>1 DEF KindInv, ThreadType, OwnLabels, Telling, Closing
<1>3. ASSUME NEW u \in Threads PROVE InReconnect(u)' <=> InReconnect(u)
  BY <1>1 DEF KindInv, ThreadType, InReconnect
<1>4. ReconnectIsExclusive'
  BY <1>3 DEF ReconnectIsExclusive
<1> QED
  BY <1>2, <1>4

LEMMA UnchangedKeeps ==
  ASSUME KindInv, ReconnectIsExclusive, UNCHANGED <<threadVars, isReconnecting>>
  PROVE  KindInv' /\ ReconnectIsExclusive'
BY DEF KindInv, ReconnectIsExclusive, InReconnect, threadVars

\* A step of a detached thread keeps the reconnection exclusive.
LEMMA ThreadKeepsExclusive ==
  ASSUME RInv, NEW t \in Threads, Thread(t)
  PROVE  KindInv' /\ ReconnectIsExclusive'
<1> USE DEF RInv, TInv
<1>0. /\ ret[t] \in Returns /\ pc[t] \in Labels /\ kind[t] \in {"conn", "recon"}
      /\ INVALID_SOCKET \in Handles /\ g \in Handles /\ KindInv /\ ReconnectIsExclusive
  BY DEF ThreadType, Handles, NetType
<1>1. CASE LoseExchange(t)
  BY <1>1, <1>0, MoveKeepsKind, MoveKeepsExclusive
  DEF LoseExchange, Jump, KindInv, InReconnect, OwnLabels, Telling, Closing, Labels, Returns,
      AfterFailure, AfterSuccess
<1>2. CASE ShowReconnecting(t)
  BY <1>2, <1>0, MoveKeepsKind, MoveKeepsExclusive
  DEF ShowReconnecting, Jump, KindInv, InReconnect, OwnLabels, Telling, Closing, Labels, Returns,
      AfterFailure, AfterSuccess
<1>3. CASE SkipClose(t)
  BY <1>3, <1>0, MoveKeepsKind, MoveKeepsExclusive
  DEF SkipClose, Jump, KindInv, InReconnect, OwnLabels, Telling, Closing, Labels, Returns,
      AfterFailure, AfterSuccess
<1>4. CASE FindSocket(t) \/ ShowClosing(t)
  BY <1>4, <1>0, MoveKeepsKind, MoveKeepsExclusive
  DEF FindSocket, ShowClosing, Jump, KindInv, InReconnect, OwnLabels, Telling, Closing, Labels,
      Returns, AfterFailure, AfterSuccess
<1>5. CASE CloseSocket(t)
  BY <1>5, <1>0, MoveKeepsKind, MoveKeepsExclusive
  DEF CloseSocket, KindInv, InReconnect, OwnLabels, Telling, Closing, Labels, Returns, AfterFailure,
      AfterSuccess
<1>6. CASE ClearSocket(t)
  BY <1>6, <1>0, MoveKeepsKind, MoveKeepsExclusive
  DEF ClearSocket, Goto, KindInv, InReconnect, OwnLabels, Telling, Closing, Labels, Returns,
      AfterFailure, AfterSuccess
<1>7. CASE ShowTrying(t)
  BY <1>7, <1>0, MoveKeepsKind, MoveKeepsExclusive
  DEF ShowTrying, Jump, KindInv, InReconnect, OwnLabels, Telling, Closing, Labels, Returns,
      AfterFailure, AfterSuccess
<1>8. CASE AlreadyEstablished(t)
  BY <1>8, <1>0, MoveKeepsKind, MoveKeepsExclusive
  DEF AlreadyEstablished, Jump, KindInv, InReconnect, OwnLabels, Telling, Closing, Labels, Returns,
      AfterFailure, AfterSuccess
<1>9. CASE NotEstablished(t)
  BY <1>9, <1>0, MoveKeepsKind, MoveKeepsExclusive
  DEF NotEstablished, Jump, KindInv, InReconnect, OwnLabels, Telling, Closing, Labels, Returns,
      AfterFailure, AfterSuccess
<1>10. CASE SocketCreated(t)
  BY <1>10, <1>0, MoveKeepsKind, MoveKeepsExclusive
  DEF SocketCreated, Goto, KindInv, InReconnect, OwnLabels, Telling, Closing, Labels, Returns,
      AfterFailure, AfterSuccess
<1>11. CASE SocketFails(t)
  BY <1>11, <1>0, MoveKeepsKind, MoveKeepsExclusive
  DEF SocketFails, Goto, KindInv, InReconnect, OwnLabels, Telling, Closing, Labels, Returns,
      AfterFailure, AfterSuccess
<1>12. CASE Connect(t)
  BY <1>12, <1>0, MoveKeepsKind, MoveKeepsExclusive
  DEF Connect, KindInv, InReconnect, OwnLabels, Telling, Closing, Labels, Returns, AfterFailure,
      AfterSuccess
<1>13. CASE ConnectFails(t)
  BY <1>13, <1>0, MoveKeepsKind, MoveKeepsExclusive
  DEF ConnectFails, Fail, Jump, KindInv, InReconnect, OwnLabels, Telling, Closing, Labels, Returns,
      AfterFailure, AfterSuccess
<1>14. CASE SelectReady(t)
  BY <1>14, <1>0, MoveKeepsKind, MoveKeepsExclusive
  DEF SelectReady, KindInv, InReconnect, OwnLabels, Telling, Closing, Labels, Returns, AfterFailure,
      AfterSuccess
<1>15. CASE SelectFails(t)
  BY <1>15, <1>0, MoveKeepsKind, MoveKeepsExclusive
  DEF SelectFails, Jump, KindInv, InReconnect, OwnLabels, Telling, Closing, Labels, Returns,
      AfterFailure, AfterSuccess
<1>16. CASE ShowFailure(t)
  BY <1>16, <1>0, MoveKeepsKind, MoveKeepsExclusive
  DEF ShowFailure, Fail, Jump, KindInv, InReconnect, OwnLabels, Telling, Closing, Labels, Returns,
      AfterFailure, AfterSuccess
<1>17. CASE SignatureOk(t)
  BY <1>17, <1>0, MoveKeepsKind, MoveKeepsExclusive
  DEF SignatureOk, Goto, KindInv, InReconnect, OwnLabels, Telling, Closing, Labels, Returns,
      AfterFailure, AfterSuccess
<1>18. CASE SignatureBad(t)
  BY <1>18, <1>0, MoveKeepsKind, MoveKeepsExclusive
  DEF SignatureBad, KindInv, InReconnect, OwnLabels, Telling, Closing, Labels, Returns,
      AfterFailure, AfterSuccess
<1>19. CASE Report(t)
  BY <1>19, <1>0, MoveKeepsKind, MoveKeepsExclusive
  DEF Report, Jump, KindInv, InReconnect, OwnLabels, Telling, Closing, Labels, Returns,
      AfterFailure, AfterSuccess
<1>20. CASE ClearQueue(t)
  BY <1>20, <1>0, MoveKeepsKind, MoveKeepsExclusive
  DEF ClearQueue, Goto, KindInv, InReconnect, OwnLabels, Telling, Closing, Labels, Returns,
      AfterFailure, AfterSuccess
<1>21. CASE LockQueue(t)
  BY <1>21, <1>0, MoveKeepsKind, MoveKeepsExclusive
  DEF LockQueue, Goto, KindInv, InReconnect, OwnLabels, Telling, Closing, Labels, Returns,
      AfterFailure, AfterSuccess
<1>22. CASE UnlockQueue(t)
  BY <1>22, <1>0, MoveKeepsKind, MoveKeepsExclusive
  DEF UnlockQueue, Goto, KindInv, InReconnect, OwnLabels, Telling, Closing, Labels, Returns,
      AfterFailure, AfterSuccess
<1>23. CASE WinExchange(t)
  <2>1. KindInv'
    BY <1>23, <1>0, MoveKeepsKind
      DEF WinExchange, Goto, KindInv, InReconnect, OwnLabels, Telling, Closing, Labels, Returns,
          AfterFailure, AfterSuccess
  <2>2. ReconnectIsExclusive'
    <3>1. \A u \in Threads : ~InReconnect(u)
      BY <1>23, <1>0 DEF WinExchange, ReconnectIsExclusive
    <3>2. \A u \in Threads : InReconnect(u)' <=> u = t
      BY <1>23, <1>0, <3>1 DEF WinExchange, Goto, Enter, ThreadType, InReconnect, KindInv, OwnLabels
    <3> QED
      BY <1>23, <3>2 DEF WinExchange, ReconnectIsExclusive
  <2> QED
    BY <2>1, <2>2
<1>24. CASE Resume(t)
  <2>1. KindInv'
    BY <1>24, <1>0, MoveKeepsKind
      DEF Resume, Goto, KindInv, InReconnect, OwnLabels, Telling, Closing, Labels, Returns,
          AfterFailure, AfterSuccess
  <2>2. ReconnectIsExclusive'
    <3>1. \A u \in Threads : InReconnect(u) => u = t
      BY <1>24, <1>0 DEF Resume, ReconnectIsExclusive, InReconnect, KindInv, OwnLabels
    <3>2. \A u \in Threads : ~InReconnect(u)'
      BY <1>24, <1>0, <3>1 DEF Resume, Goto, Enter, ThreadType, InReconnect
    <3> QED
      BY <1>24, <3>2 DEF Resume, ReconnectIsExclusive
  <2> QED
    BY <2>1, <2>2
<1>25. CASE Resend(t)
  BY <1>25, <1>0, UnchangedKeeps DEF Resend
<1> QED
  BY <1>1, <1>2, <1>3, <1>4, <1>5, <1>6, <1>7, <1>8, <1>9, <1>10, <1>11, <1>12, <1>13, <1>14,
     <1>15, <1>16, <1>17, <1>18, <1>19, <1>20, <1>21, <1>22, <1>23, <1>24, <1>25
  DEF Thread

\* What the end of the process leaves: no thread, and no reconnection.
LEMMA EndKeeps ==
  ASSUME EndProcess
  PROVE  KindInv' /\ ReconnectIsExclusive'
<1>1. /\ pc' = [t \in Threads |-> "none"] /\ kind' = [t \in Threads |-> "conn"]
      /\ isReconnecting' = FALSE
  BY DEF EndProcess
<1>2. KindInv'
  BY <1>1 DEF KindInv, OwnLabels, Telling, Closing
<1>3. \A t \in Threads : ~InReconnect(t)'
  BY <1>1 DEF InReconnect
<1> QED
  BY <1>1, <1>2, <1>3 DEF ReconnectIsExclusive

\* The steps towards the end leave threads, flag and queue alone.
LEMMA EndingKeeps ==
  ASSUME Ending
  PROVE  /\ UNCHANGED <<threadVars, isReconnecting, keyEventQueue, queueMutex>>
         /\ guiPc' \notin {"send", "enqueue", "recv", "ack"}
BY DEF Ending, CloseWindow, DestroyWindow, ClickExit, LastClose, LastClear, CleanupWinsock,
       ResetSettings, ResetClear, ResetCleanup, RelaunchFails, GuiClose, GuiCleared, GuiCleanup,
       queueVars

\* Every step keeps the reconnection exclusive.
LEMMA ExclusiveStep == RInv /\ [Next]_vars => RInv'
<1> SUFFICES ASSUME RInv, [Next]_vars PROVE KindInv' /\ ReconnectIsExclusive'
  BY TypeStep DEF RInv
<1>0. ThreadType /\ KindInv /\ ReconnectIsExclusive
  BY DEF RInv, TInv
<1>1. CASE IgnoreKey \/ TypeKey \/ GuiSend \/ GuiRecv \/ GuiAck \/ GuiAckFails
  BY <1>0, <1>1, UnchangedKeeps
  DEF IgnoreKey, TypeKey, GuiSend, GuiRecv, GuiAck, GuiAckFails, GuiReturn
<1>2. CASE ClickConnect \/ GuiEnqueue \/ GuiClear
  BY <1>0, <1>2, SpawnKeeps, UnchangedKeeps DEF ClickConnect, GuiEnqueue, GuiClear
<1>3. ASSUME NEW t \in Threads, Thread(t) PROVE KindInv' /\ ReconnectIsExclusive'
  BY <1>3, ThreadKeepsExclusive
<1>4. ASSUME NEW s \in Sockets, Environment(s) PROVE KindInv' /\ ReconnectIsExclusive'
  BY <1>0, <1>4, UnchangedKeeps DEF Environment, clientVars
<1>5. CASE UNCHANGED vars
  BY <1>0, <1>5, UnchangedKeeps DEF vars, clientVars
<1>6. CASE Ending
  BY <1>0, <1>6, EndingKeeps, UnchangedKeeps
<1>7. CASE StartProcess
  BY <1>0, <1>7, SpawnKeeps DEF StartProcess
<1>8. CASE EndProcess
  BY <1>8, EndKeeps
<1> QED
  BY <1>1, <1>2, <1>3, <1>4, <1>5, <1>6, <1>7, <1>8 DEF Next, User, Gui, Ending

LEMMA ExclusiveInit == Init => RInv
<1> SUFFICES ASSUME Init PROVE KindInv /\ ReconnectIsExclusive
  BY TypeInit DEF RInv
<1>1. KindInv
  BY DEF Init, KindInv, OwnLabels, Telling, Closing
<1>2. \A t \in Threads : ~InReconnect(t)
  BY DEF Init, InReconnect
<1> QED
  BY <1>1, <1>2 DEF Init, ReconnectIsExclusive

\* At most one thread reconnects, and isReconnecting is set exactly while one
\* does, for any number of keys that fail and of threads they start.
THEOREM ReconnectExclusive == Spec => []ReconnectIsExclusive
<1>1. RInv => ReconnectIsExclusive
  BY DEF RInv
<1> QED
  BY <1>1, ExclusiveInit, ExclusiveStep, PTL DEF Spec

-----------------------------------------------------------------------------
(* What the flag, once exclusive, is good for.                             *)

Reached(t) == InReconnect(t) /\ pc[t] # "status"

\* A thread gets past "Reconnecting..." only while the GUI thread dispatches
\* messages, and never moves the GUI thread.
LEMMA ThreadReaches ==
  ASSUME RInv, NEW t \in Threads, Thread(t)
  PROVE  /\ UNCHANGED guiPc
         /\ \A u \in Threads : Reached(u)' => Pumping \/ Reached(u)
<1>0. ThreadType /\ KindInv
  BY DEF RInv, TInv
<1> SUFFICES ASSUME NEW u \in Threads
             PROVE  UNCHANGED guiPc /\ (Reached(u)' => Pumping \/ Reached(u))
  OBVIOUS
<1> USE DEF Reached, InReconnect, Enter, ThreadType, KindInv, OwnLabels, guiVars
<1>1. CASE LoseExchange(t)
  BY <1>0, <1>1 DEF LoseExchange, Jump
<1>2. CASE WinExchange(t)
  BY <1>0, <1>2 DEF WinExchange, Goto
<1>3. CASE ShowReconnecting(t)
  BY <1>0, <1>3 DEF ShowReconnecting, Jump
<1>4. CASE SkipClose(t)
  BY <1>0, <1>4 DEF SkipClose, Jump
<1>5. CASE FindSocket(t) \/ ShowClosing(t)
  BY <1>0, <1>5 DEF FindSocket, ShowClosing, Jump
<1>6. CASE CloseSocket(t)
  BY <1>0, <1>6 DEF CloseSocket
<1>7. CASE ClearSocket(t)
  BY <1>0, <1>7 DEF ClearSocket, Goto
<1>8. CASE ShowTrying(t)
  BY <1>0, <1>8 DEF ShowTrying, Jump
<1>9. CASE AlreadyEstablished(t)
  BY <1>0, <1>9 DEF AlreadyEstablished, Jump
<1>10. CASE NotEstablished(t)
  BY <1>0, <1>10 DEF NotEstablished, Jump
<1>11. CASE SocketCreated(t)
  BY <1>0, <1>11 DEF SocketCreated, Goto
<1>12. CASE SocketFails(t)
  BY <1>0, <1>12 DEF SocketFails, Goto
<1>13. CASE Connect(t)
  BY <1>0, <1>13 DEF Connect
<1>14. CASE ConnectFails(t)
  BY <1>0, <1>14 DEF ConnectFails, Fail, Jump
<1>15. CASE SelectReady(t)
  BY <1>0, <1>15 DEF SelectReady
<1>16. CASE SelectFails(t)
  BY <1>0, <1>16 DEF SelectFails, Jump
<1>17. CASE ShowFailure(t)
  BY <1>0, <1>17 DEF ShowFailure, Fail, Jump
<1>18. CASE SignatureOk(t)
  BY <1>0, <1>18 DEF SignatureOk, Goto
<1>19. CASE SignatureBad(t)
  BY <1>0, <1>19 DEF SignatureBad
<1>20. CASE Report(t)
  BY <1>0, <1>20 DEF Report, Jump
<1>21. CASE Resume(t)
  BY <1>0, <1>21 DEF Resume, Goto
<1>22. CASE ClearQueue(t)
  BY <1>0, <1>22 DEF ClearQueue, Goto
<1>23. CASE LockQueue(t)
  BY <1>0, <1>23 DEF LockQueue, Goto
<1>24. CASE UnlockQueue(t)
  BY <1>0, <1>24 DEF UnlockQueue, Goto
<1>25. CASE Resend(t)
  BY <1>0, <1>25 DEF Resend, threadVars
<1> QED
  BY <1>1, <1>2, <1>3, <1>4, <1>5, <1>6, <1>7, <1>8, <1>9, <1>10, <1>11, <1>12, <1>13, <1>14,
     <1>15, <1>16, <1>17, <1>18, <1>19, <1>20, <1>21, <1>22, <1>23, <1>24, <1>25
  DEF Thread

\* The GUI thread is in sendKeyPress.
Sending == guiPc \in {"send", "enqueue", "recv", "ack"}

QInv == RInv /\ GuiQuietDuringReconnect

LEMMA QuietStep == QInv /\ [Next]_vars => QInv'
<1> SUFFICES ASSUME QInv, [Next]_vars, ~queueKeys, NEW t \in Threads, Reached(t)'
             PROVE  ~Sending'
  BY ExclusiveStep DEF QInv, GuiQuietDuringReconnect, Reached, Sending
<1>0. /\ ThreadType /\ KindInv /\ (Reached(t) => ~Sending)
      /\ (Reached(t) => isReconnecting)
  BY DEF QInv, RInv, TInv, GuiQuietDuringReconnect, Reached, ReconnectIsExclusive, Sending
<1>1. CASE IgnoreKey
  BY <1>1 DEF IgnoreKey, Sending
<1>2. CASE TypeKey
  <2>1. Reached(t)
    BY <1>2 DEF TypeKey, threadVars, Reached, InReconnect
  <2> QED
    BY <1>0, <1>2, <2>1 DEF TypeKey, Ignoring
<1>3. CASE ClickConnect
  BY <1>3 DEF ClickConnect, Sending
<1>4. CASE GuiSend \/ GuiRecv
  <2>1. Reached(t)
    BY <1>4 DEF GuiSend, GuiRecv, threadVars, Reached, InReconnect
  <2> QED
    BY <1>0, <1>4, <2>1 DEF GuiSend, GuiRecv, Sending
<1>5. CASE GuiEnqueue \/ GuiClear \/ GuiAck \/ GuiAckFails \/ EndProcess \/ StartProcess
  BY <1>5
  DEF GuiEnqueue, GuiClear, GuiAck, GuiAckFails, GuiReturn, EndProcess, StartProcess, Sending
<1>6. ASSUME NEW u \in Threads, Thread(u) PROVE ~Sending'
  <2>1. UNCHANGED guiPc /\ (Pumping \/ Reached(t))
    BY <1>6, ThreadReaches DEF QInv
  <2> QED
    BY <1>0, <2>1 DEF Pumping, Quit, Sending
<1>7. ASSUME NEW s \in Sockets, Environment(s) PROVE ~Sending'
  BY <1>0, <1>7 DEF Environment, clientVars, guiVars, threadVars, Reached, InReconnect, Sending
<1>8. CASE UNCHANGED vars
  BY <1>0, <1>8 DEF vars, clientVars, guiVars, threadVars, Reached, InReconnect, Sending
<1>9. CASE Ending
  BY <1>9, EndingKeeps DEF Sending
<1> QED
  BY <1>1, <1>2, <1>3, <1>4, <1>5, <1>6, <1>7, <1>8, <1>9 DEF Next, User, Gui, Ending

LEMMA QuietInit == Init => QInv
BY ExclusiveInit DEF Init, QInv, GuiQuietDuringReconnect, InReconnect

\* Without queueing, the GUI thread is out of sendKeyPress for as long as a
\* reconnection goes on: the flag it tests and the SendMessage of the
\* reconnecting thread leave no gap between them.
THEOREM QuietCorrect == Spec => []GuiQuietDuringReconnect
<1>1. QInv => GuiQuietDuringReconnect
  BY DEF QInv
<1> QED
  BY <1>1, QuietInit, QuietStep, PTL DEF Spec

-----------------------------------------------------------------------------
(* The queue.                                                              *)

\* A thread ends its reconnection only when another one is under way or the
\* queue is empty; otherwise what it runs does not change.
LEMMA ThreadKeepsKind ==
  ASSUME RInv, NEW t \in Threads, Thread(t), NEW u \in Threads, kind[u] = "recon"
  PROVE  \/ kind'[u] = "recon"
         \/ \E v \in Threads : kind'[v] = "recon"
         \/ keyEventQueue' = <<>>
<1>0. ThreadType /\ KindInv /\ ReconnectIsExclusive
  BY DEF RInv, TInv
<1> USE DEF Enter, ThreadType, KindInv, OwnLabels, Telling, Closing, AfterFailure, AfterSuccess
<1>1. CASE LoseExchange(t)
  <2>1. PICK v \in Threads : InReconnect(v)
    BY <1>0, <1>1 DEF LoseExchange, ReconnectIsExclusive
  <2>2. v # t
    BY <1>1, <2>1 DEF LoseExchange, Jump, InReconnect
  <2>3. kind'[v] = "recon"
    BY <1>0, <1>1, <2>1, <2>2 DEF LoseExchange, Jump, InReconnect
  <2> QED
    BY <2>3
<1>2. CASE WinExchange(t)
  BY <1>0, <1>2 DEF WinExchange, Goto
<1>3. CASE ShowReconnecting(t)
  BY <1>0, <1>3 DEF ShowReconnecting, Jump
<1>4. CASE SkipClose(t)
  BY <1>0, <1>4 DEF SkipClose, Jump
<1>5. CASE FindSocket(t) \/ ShowClosing(t)
  BY <1>0, <1>5 DEF FindSocket, ShowClosing, Jump
<1>6. CASE CloseSocket(t)
  BY <1>0, <1>6 DEF CloseSocket
<1>7. CASE ClearSocket(t)
  BY <1>0, <1>7 DEF ClearSocket, Goto
<1>8. CASE ShowTrying(t)
  BY <1>0, <1>8 DEF ShowTrying, Jump
<1>9. CASE AlreadyEstablished(t)
  BY <1>0, <1>9 DEF AlreadyEstablished, Jump
<1>10. CASE NotEstablished(t)
  BY <1>0, <1>10 DEF NotEstablished, Jump
<1>11. CASE SocketCreated(t)
  BY <1>0, <1>11 DEF SocketCreated, Goto
<1>12. CASE SocketFails(t)
  BY <1>0, <1>12 DEF SocketFails, Goto
<1>13. CASE Connect(t)
  BY <1>0, <1>13 DEF Connect
<1>14. CASE ConnectFails(t)
  BY <1>0, <1>14 DEF ConnectFails, Fail, Jump
<1>15. CASE SelectReady(t)
  BY <1>0, <1>15 DEF SelectReady
<1>16. CASE SelectFails(t)
  BY <1>0, <1>16 DEF SelectFails, Jump
<1>17. CASE ShowFailure(t)
  BY <1>0, <1>17 DEF ShowFailure, Fail, Jump
<1>18. CASE SignatureOk(t)
  BY <1>0, <1>18 DEF SignatureOk, Goto
<1>19. CASE SignatureBad(t)
  BY <1>0, <1>19 DEF SignatureBad
<1>20. CASE Report(t)
  BY <1>0, <1>20 DEF Report, Jump
<1>21. CASE Resume(t)
  BY <1>0, <1>21 DEF Resume, Goto
<1>22. CASE ClearQueue(t)
  BY <1>22 DEF ClearQueue
<1>23. CASE LockQueue(t)
  BY <1>0, <1>23 DEF LockQueue, Goto
<1>24. CASE UnlockQueue(t)
  BY <1>24 DEF UnlockQueue
<1>25. CASE Resend(t)
  BY <1>0, <1>25 DEF Resend, threadVars
<1> QED
  BY <1>1, <1>2, <1>3, <1>4, <1>5, <1>6, <1>7, <1>8, <1>9, <1>10, <1>11, <1>12, <1>13, <1>14,
     <1>15, <1>16, <1>17, <1>18, <1>19, <1>20, <1>21, <1>22, <1>23, <1>24, <1>25
  DEF Thread

\* The threads that change the queue, and how.
LEMMA ThreadQueue ==
  ASSUME NEW t \in Threads, Thread(t)
  PROVE  \/ UNCHANGED keyEventQueue
         \/ ClearQueue(t) /\ keyEventQueue' = <<>>
         \/ Resend(t) /\ pc[t] = "resend" /\ keyEventQueue # <<>>
<1> USE DEF queueVars
<1>1. CASE \/ LoseExchange(t)
           \/ WinExchange(t)
           \/ ShowReconnecting(t)
           \/ SkipClose(t)
           \/ FindSocket(t)
           \/ ShowClosing(t)
           \/ CloseSocket(t)
  BY <1>1
  DEF LoseExchange, Jump, WinExchange, ShowReconnecting, SkipClose, FindSocket, ShowClosing,
      CloseSocket
<1>2. CASE \/ ClearSocket(t)
           \/ ShowTrying(t)
           \/ AlreadyEstablished(t)
           \/ NotEstablished(t)
           \/ SocketCreated(t)
           \/ SocketFails(t)
  BY <1>2
  DEF ClearSocket, ShowTrying, Jump, AlreadyEstablished, NotEstablished, SocketCreated, SocketFails
<1>3. CASE \/ Connect(t)
           \/ ConnectFails(t)
           \/ SelectReady(t)
           \/ SelectFails(t)
           \/ ShowFailure(t)
           \/ SignatureOk(t)
  BY <1>3
  DEF Connect, ConnectFails, Fail, Jump, SelectReady, SelectFails, ShowFailure, SignatureOk
<1>4. CASE SignatureBad(t) \/ Report(t) \/ Resume(t) \/ LockQueue(t) \/ UnlockQueue(t)
  BY <1>4
  DEF SignatureBad, Report, Jump, Resume, LockQueue, UnlockQueue
<1>5. CASE ClearQueue(t)
  BY <1>5 DEF ClearQueue
<1>6. CASE Resend(t)
  BY <1>6 DEF Resend
<1> QED
  BY <1>1, <1>2, <1>3, <1>4, <1>5, <1>6
  DEF Thread

OInv == RInv /\ NoOrphanedQueue

LEMMA OrphanStep == OInv /\ [Next]_vars => OInv'
<1> SUFFICES ASSUME OInv, [Next]_vars, keyEventQueue' # <<>>
             PROVE  \E u \in Threads : kind'[u] = "recon"
  BY ExclusiveStep DEF OInv, NoOrphanedQueue
<1>0. ThreadType /\ KindInv /\ RInv
  BY DEF OInv, RInv, TInv
<1>1. CASE GuiEnqueue
  BY <1>0, <1>1 DEF GuiEnqueue, Spawn, ThreadType
<1>2. ASSUME keyEventQueue # <<>>, ~GuiEnqueue, ~EndProcess
      PROVE  \E u \in Threads : kind'[u] = "recon"
  <2>1. PICK u \in Threads : kind[u] = "recon"
    BY <1>2 DEF OInv, NoOrphanedQueue
  <2>2. CASE ClickConnect \/ GuiClear \/ StartProcess
    <3>1. kind'[u] = "recon"
      BY <1>0, <2>1, <2>2
      DEF ClickConnect, GuiClear, StartProcess, Spawn, threadVars, ThreadType, KindInv
    <3> QED
      BY <3>1
  <2>3. CASE UNCHANGED threadVars
    BY <2>1, <2>3 DEF threadVars
  <2>4. ASSUME NEW t \in Threads, Thread(t) PROVE \E v \in Threads : kind'[v] = "recon"
    BY <1>0, <2>1, <2>4, ThreadKeepsKind
  <2> QED
    BY <1>2, <2>2, <2>3, <2>4, EndingKeeps
    DEF Next, User, Gui, IgnoreKey, TypeKey, GuiSend, GuiRecv, GuiAck, GuiAckFails, GuiReturn,
        Environment, clientVars, vars, Ending
<1>3. ASSUME keyEventQueue = <<>>, ~GuiEnqueue, ~EndProcess PROVE FALSE
  <2>1. CASE UNCHANGED keyEventQueue
    BY <1>3, <2>1
  <2>2. ASSUME NEW t \in Threads, Thread(t) PROVE FALSE
    BY <1>3, <2>2, ThreadQueue
  <2> QED
    BY <1>3, <2>1, <2>2, EndingKeeps
    DEF Next, User, Gui, IgnoreKey, TypeKey, ClickConnect, GuiSend, GuiRecv, GuiAck, GuiAckFails,
        GuiReturn, GuiClear, StartProcess, Environment, clientVars, queueVars, vars, Ending
<1>4. ~EndProcess
  BY DEF EndProcess
<1> QED
  BY <1>1, <1>2, <1>3, <1>4

LEMMA OrphanInit == Init => OInv
BY ExclusiveInit DEF Init, OInv, NoOrphanedQueue

\* A queued key always has a thread that will resend it, for any number of
\* failed keys, threads and reconnections.
THEOREM QueueHasResender == Spec => []NoOrphanedQueue
<1>1. OInv => NoOrphanedQueue
  BY DEF OInv
<1> QED
  BY <1>1, OrphanInit, OrphanStep, PTL DEF Spec

-----------------------------------------------------------------------------

\* The thread that resends is the one that holds queueMutex.
MutexInv == \A t \in Threads : pc[t] = "resend" => queueMutex = t

MInv == TInv /\ MutexInv

LEMMA ThreadKeepsMutex ==
  ASSUME MInv, NEW t \in Threads, Thread(t)
  PROVE  MutexInv'
<1>0. ThreadType /\ MutexInv /\ ret[t] # "resend"
  BY DEF MInv, TInv, ThreadType, Returns
<1> USE ClientAssumption
    DEF MutexInv, Enter, ThreadType, queueVars, AfterFailure, AfterSuccess
<1>1. CASE LoseExchange(t)
  BY <1>0, <1>1 DEF LoseExchange, Jump
<1>2. CASE WinExchange(t)
  BY <1>0, <1>2 DEF WinExchange, Goto
<1>3. CASE ShowReconnecting(t)
  BY <1>0, <1>3 DEF ShowReconnecting, Jump
<1>4. CASE SkipClose(t)
  BY <1>0, <1>4 DEF SkipClose, Jump
<1>5. CASE FindSocket(t) \/ ShowClosing(t)
  BY <1>0, <1>5 DEF FindSocket, ShowClosing, Jump
<1>6. CASE CloseSocket(t)
  BY <1>0, <1>6 DEF CloseSocket
<1>7. CASE ClearSocket(t)
  BY <1>0, <1>7 DEF ClearSocket, Goto
<1>8. CASE ShowTrying(t)
  BY <1>0, <1>8 DEF ShowTrying, Jump
<1>9. CASE AlreadyEstablished(t)
  BY <1>0, <1>9 DEF AlreadyEstablished, Jump
<1>10. CASE NotEstablished(t)
  BY <1>0, <1>10 DEF NotEstablished, Jump
<1>11. CASE SocketCreated(t)
  BY <1>0, <1>11 DEF SocketCreated, Goto
<1>12. CASE SocketFails(t)
  BY <1>0, <1>12 DEF SocketFails, Goto
<1>13. CASE Connect(t)
  BY <1>0, <1>13 DEF Connect
<1>14. CASE ConnectFails(t)
  BY <1>0, <1>14 DEF ConnectFails, Fail, Jump
<1>15. CASE SelectReady(t)
  BY <1>0, <1>15 DEF SelectReady
<1>16. CASE SelectFails(t)
  BY <1>0, <1>16 DEF SelectFails, Jump
<1>17. CASE ShowFailure(t)
  BY <1>0, <1>17 DEF ShowFailure, Fail, Jump
<1>18. CASE SignatureOk(t)
  BY <1>0, <1>18 DEF SignatureOk, Goto
<1>19. CASE SignatureBad(t)
  BY <1>0, <1>19 DEF SignatureBad
<1>20. CASE Report(t)
  BY <1>0, <1>20 DEF Report, Jump
<1>21. CASE Resume(t)
  BY <1>0, <1>21 DEF Resume, Goto
<1>22. CASE ClearQueue(t)
  BY <1>0, <1>22 DEF ClearQueue, Goto
<1>23. CASE LockQueue(t)
  BY <1>0, <1>23 DEF LockQueue, Goto
<1>24. CASE UnlockQueue(t)
  BY <1>0, <1>24 DEF UnlockQueue, Goto
<1>25. CASE Resend(t)
  BY <1>0, <1>25 DEF Resend, threadVars
<1> QED
  BY <1>1, <1>2, <1>3, <1>4, <1>5, <1>6, <1>7, <1>8, <1>9, <1>10, <1>11, <1>12, <1>13, <1>14,
     <1>15, <1>16, <1>17, <1>18, <1>19, <1>20, <1>21, <1>22, <1>23, <1>24, <1>25
  DEF Thread

LEMMA MutexStep == MInv /\ [Next]_vars => MInv'
<1> SUFFICES ASSUME MInv, [Next]_vars PROVE MutexInv'
  BY TypeStep DEF MInv
<1>0. ThreadType /\ MutexInv
  BY DEF MInv, TInv
<1>1. CASE ClickConnect \/ GuiEnqueue \/ GuiClear \/ StartProcess
  BY <1>0, <1>1
  DEF ClickConnect, GuiEnqueue, GuiClear, StartProcess, Spawn, MutexInv, ThreadType, threadVars,
      queueVars
<1>2. CASE UNCHANGED <<threadVars, queueMutex>>
  BY <1>0, <1>2 DEF MutexInv, threadVars
<1>3. ASSUME NEW t \in Threads, Thread(t) PROVE MutexInv'
  BY <1>3, ThreadKeepsMutex
<1>4. CASE EndProcess
  BY <1>4 DEF EndProcess, MutexInv
<1>5. CASE Ending
  BY <1>2, <1>5, EndingKeeps
<1> QED
  BY <1>1, <1>2, <1>3, <1>4, <1>5
  DEF Next, User, Gui, IgnoreKey, TypeKey, GuiSend, GuiRecv, GuiAck, GuiAckFails, GuiReturn,
      Environment, clientVars, queueVars, vars, Ending

LEMMA MutexInit == Init => MInv
BY TypeInit DEF Init, MInv, MutexInv

\* The queue changes under a resending thread by nothing but its own resending:
\* neither the GUI thread nor another reconnection gets in between.
THEOREM DrainExclusive == Spec => DrainIsExclusive
<1>1. ASSUME MInv, [Next]_vars, NEW t \in Threads, pc[t] = "resend",
             keyEventQueue' # keyEventQueue, ~EndProcess
      PROVE  queueMutex = t /\ Resend(t)
  <2>1. queueMutex = t /\ queueMutex # NoThread
    BY <1>1, ClientAssumption DEF MInv, MutexInv
  <2>2. ~GuiEnqueue
    BY <1>1, <2>1 DEF GuiEnqueue
  <2>3. ASSUME NEW u \in Threads, Thread(u) PROVE Resend(t)
    <3>1. Resend(u) /\ pc[u] = "resend"
      BY <1>1, <2>1, <2>3, ThreadQueue DEF ClearQueue
    <3>2. queueMutex = u
      BY <1>1, <3>1 DEF MInv, MutexInv
    <3> QED
      BY <2>1, <3>1, <3>2
  <2> QED
    BY <1>1, <2>1, <2>2, <2>3, EndingKeeps
    DEF Next, User, Gui, IgnoreKey, TypeKey, ClickConnect, GuiSend, GuiRecv, GuiAck, GuiAckFails,
        GuiReturn, GuiClear, StartProcess, Environment, clientVars, queueVars, vars, Ending
<1>2. MInv /\ [Next]_vars =>
        [\A t \in Threads : pc[t] = "resend" /\ keyEventQueue' # keyEventQueue /\ ~EndProcess
           => queueMutex = t /\ Resend(t)]_vars
  BY <1>1
<1> QED
  BY <1>2, MutexInit, MutexStep, PTL DEF Spec, DrainIsExclusive
=============================================================================
