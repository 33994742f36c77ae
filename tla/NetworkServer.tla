---------------------------- MODULE NetworkServer ----------------------------
(***************************************************************************)
(* The server's life: threads that run initializeServer, the accept loops  *)
(* they leave behind, one handler thread per connection, and the two ways  *)
(* the server is shut down, by the GUI thread and by the thread that waits *)
(* for the parent process.  g_listenSocket and serverRunning are shared.   *)
(*                                                                         *)
(* The n-th start creates at most one socket, so n is also its handle.     *)
(* The GUI thread of a server never waits for another thread: SendMessage  *)
(* to it returns and is left out.                                          *)
(***************************************************************************)
EXTENDS Naturals, Sequences

CONSTANTS Clients,    \* connections that clients may make
          MaxStarts,  \* bound: runs of initializeServer
          MaxKeys,    \* bound: keys sent on a connection
          MaxResets   \* bound: uses of Reset Settings

ASSUME ServerAssumption == MaxStarts \in Nat \ {0} /\ MaxKeys \in Nat /\ MaxResets \in Nat

VARIABLES
  serverRunning, g_listenSocket,
  winsock,     \* WSAStartup calls not yet undone by WSACleanup
  listener,    \* the socket of each start
  init,        \* where each start is in initializeServer
  loop,        \* where its accept loop is,
  fd,          \*   the socket its accept was called with
  accepted,    \*   and the connection it accepted, or NoClient
  handler,     \* where each connection's handler is
  via,         \* the socket a connection came in by
  alive,       \* connections neither side has lost
  keys,        \* key messages sent by each client
  injected,    \* keys injected by each handler
  replies,     \* what was sent to each client
  stop,        \* where each shutdown is
  resets,      \* uses of Reset Settings
  resetting,   \* the GUI thread's shutdown is one
  overlapped   \* a start met another start or a shutdown (history)

startVars == <<winsock, listener, init>>
loopVars == <<loop, fd, accepted>>
connVars == <<handler, via, alive, keys, injected, replies>>
stopVars == <<stop, resets, resetting, overlapped>>
vars == <<serverRunning, g_listenSocket, startVars, loopVars, connVars, stopVars>>

Starts == 1..MaxStarts
INVALID_SOCKET == 0
NoClient == "no client"
Stoppers == {"gui", "monitor"}

TypeOK ==
  /\ serverRunning \in BOOLEAN /\ g_listenSocket \in Starts \cup {INVALID_SOCKET}
  /\ winsock \in 0..(MaxStarts + 1)
  /\ listener \in [Starts -> {"none", "created", "bound", "listening", "closed"}]
  /\ init \in [Starts -> {"none", "startup", "socket", "bind", "listen", "flag", "start", "done"}]
  /\ loop \in [Starts -> {"none", "test", "accept", "greet", "detach"}]
  /\ fd \in [Starts -> Starts \cup {INVALID_SOCKET}]
  /\ accepted \in [Starts -> Clients \cup {NoClient}]
  /\ handler \in [Clients -> {"none", "backlog", "accepted", "test", "recv", "ack", "ended"}]
  /\ via \in [Clients -> Starts \cup {INVALID_SOCKET}]
  /\ alive \subseteq Clients
  /\ keys \in [Clients -> 0..MaxKeys] /\ injected \in [Clients -> 0..MaxKeys]
  /\ replies \in [Clients -> Seq({"SIG", "ACK"})]
  /\ stop \in [Stoppers -> {"idle", "flag", "close", "cleanup", "winsock", "relaunch", "exit",
                            "gone"}]
  /\ resetting \in BOOLEAN
  /\ resets \in 0..MaxResets /\ overlapped \in BOOLEAN

\* WinMain has initialised Winsock and detached the first initializeServer.
Init ==
  /\ serverRunning = FALSE /\ g_listenSocket = INVALID_SOCKET
  /\ winsock = 1
  /\ listener = [n \in Starts |-> "none"]
  /\ init = [n \in Starts |-> IF n = 1 THEN "startup" ELSE "none"]
  /\ loop = [n \in Starts |-> "none"]
  /\ fd = [n \in Starts |-> INVALID_SOCKET]
  /\ accepted = [n \in Starts |-> NoClient]
  /\ handler = [c \in Clients |-> "none"]
  /\ via = [c \in Clients |-> INVALID_SOCKET]
  /\ alive = {}
  /\ keys = [c \in Clients |-> 0] /\ injected = [c \in Clients |-> 0]
  /\ replies = [c \in Clients |-> <<>>]
  /\ stop = [a \in Stoppers |-> "idle"]
  /\ resets = 0 /\ resetting = FALSE /\ overlapped = FALSE

-----------------------------------------------------------------------------

isServerUp == serverRunning /\ g_listenSocket # INVALID_SOCKET

Starting == \E n \in Starts : init[n] \notin {"none", "done"}
Stopping == \E a \in Stoppers : stop[a] # "idle"

\* Close listening sockets, which resets the connections in their backlog,
\* and reset the connections in C.
CloseListeners(L, C) ==
  LET waiting == {c \in Clients : handler[c] = "backlog" /\ via[c] \in L} IN
    /\ listener' = [n \in Starts |->
                      IF n \in L /\ listener[n] # "none" THEN "closed" ELSE listener[n]]
    /\ handler' = [c \in Clients |-> IF c \in waiting THEN "ended" ELSE handler[c]]
    /\ alive' = alive \ (waiting \cup C)
    /\ UNCHANGED <<via, keys, injected, replies>>

\* WSACleanup: the call that undoes the last WSAStartup closes every socket.
WSACleanup(L) ==
  /\ winsock' = IF winsock = 0 THEN 0 ELSE winsock - 1
  /\ IF winsock <= 1 THEN CloseListeners(Starts, Clients) ELSE CloseListeners(L, {})

-----------------------------------------------------------------------------
(* initializeServer.                                                       *)

\* The menu command Start Server.
ClickStart ==
  /\ stop["gui"] = "idle"
  /\ ~isServerUp
  /\ \E n \in Starts :
       /\ init[n] = "none" /\ \A m \in 1..(n - 1) : init[m] # "none"
       /\ init' = [init EXCEPT ![n] = "startup"]
  /\ overlapped' = (overlapped \/ Starting \/ Stopping)
  /\ UNCHANGED <<serverRunning, g_listenSocket, winsock, listener, loopVars, connVars,
                 stop, resets, resetting>>

Advance(n, from, to) == init[n] = from /\ init' = [init EXCEPT ![n] = to]

Startup(n) ==
  /\ Advance(n, "startup", "socket")
  /\ winsock' = winsock + 1
  /\ UNCHANGED <<serverRunning, g_listenSocket, listener, loopVars, connVars, stopVars>>

CreateSocket(n) ==
  /\ winsock > 0
  /\ Advance(n, "socket", "bind")
  /\ listener' = [listener EXCEPT ![n] = "created"]
  /\ g_listenSocket' = n
  /\ UNCHANGED <<serverRunning, winsock, loopVars, connVars, stopVars>>

\* A start fails: the socket g_listenSocket now holds is closed, if there is
\* one, and its WSAStartup undone.
SocketFails(n) ==
  /\ Advance(n, "socket", "done")
  /\ g_listenSocket' = INVALID_SOCKET
  /\ WSACleanup({})
  /\ UNCHANGED <<serverRunning, loopVars, stopVars>>

Bindable ==
  /\ g_listenSocket # INVALID_SOCKET /\ listener[g_listenSocket] = "created"
  /\ \A n \in Starts : listener[n] \notin {"bound", "listening"}

Bind(n) ==
  /\ Bindable
  /\ Advance(n, "bind", "listen")
  /\ listener' = [listener EXCEPT ![g_listenSocket] = "bound"]
  /\ UNCHANGED <<serverRunning, g_listenSocket, winsock, loopVars, connVars, stopVars>>

FailWith(n, label) ==
  /\ Advance(n, label, "done")
  /\ WSACleanup({g_listenSocket})
  /\ UNCHANGED <<serverRunning, g_listenSocket, loopVars, stopVars>>

\* Another program may own the port.
BindFails(n) == FailWith(n, "bind")

Listen(n) ==
  /\ g_listenSocket # INVALID_SOCKET
  /\ listener[g_listenSocket] \in {"bound", "listening"}
  /\ Advance(n, "listen", "flag")
  /\ listener' = [listener EXCEPT ![g_listenSocket] = "listening"]
  /\ UNCHANGED <<serverRunning, g_listenSocket, winsock, loopVars, connVars, stopVars>>

ListenFails(n) == FailWith(n, "listen")

SetRunning(n) ==
  /\ Advance(n, "flag", "start")
  /\ serverRunning' = TRUE
  /\ UNCHANGED <<g_listenSocket, winsock, listener, loopVars, connVars, stopVars>>

\* After a second, startServer detaches the accept loop.
StartServer(n) ==
  /\ Advance(n, "start", "done")
  /\ loop' = [loop EXCEPT ![n] = "test"]
  /\ UNCHANGED <<serverRunning, g_listenSocket, winsock, listener, fd, accepted, connVars,
                 stopVars>>

-----------------------------------------------------------------------------
(* The accept loop.                                                        *)

TestRunning(n) ==
  /\ loop[n] = "test"
  /\ loop' = [loop EXCEPT ![n] = IF serverRunning THEN "accept" ELSE "none"]
  /\ fd' = [fd EXCEPT ![n] = IF serverRunning THEN g_listenSocket ELSE INVALID_SOCKET]
  /\ UNCHANGED <<serverRunning, g_listenSocket, startVars, accepted, connVars, stopVars>>

InBacklog(n, c) == handler[c] = "backlog" /\ via[c] = fd[n]

Accept(n) ==
  /\ loop[n] = "accept"
  /\ \E c \in Clients :
       /\ InBacklog(n, c)
       /\ handler' = [handler EXCEPT ![c] = "accepted"]
       /\ accepted' = [accepted EXCEPT ![n] = c]
  /\ loop' = [loop EXCEPT ![n] = "greet"]
  /\ UNCHANGED <<serverRunning, g_listenSocket, startVars, fd, via, alive, keys, injected,
                 replies, stopVars>>

\* Mutant: the loop ends when accept fails.
AcceptBreaks(n) ==
  /\ loop[n] = "accept"
  /\ \E c \in Clients : InBacklog(n, c) /\ c \notin alive
                        /\ handler' = [handler EXCEPT ![c] = "ended"]
  /\ loop' = [loop EXCEPT ![n] = "none"]
  /\ UNCHANGED <<serverRunning, g_listenSocket, startVars, fd, accepted, via, alive, keys,
                 injected, replies, stopVars>>

\* accept reports a connection the client has reset meanwhile.
AcceptReset(n) ==
  /\ loop[n] = "accept"
  /\ \E c \in Clients : InBacklog(n, c) /\ c \notin alive
                        /\ handler' = [handler EXCEPT ![c] = "ended"]
  /\ loop' = [loop EXCEPT ![n] = "test"]
  /\ UNCHANGED <<serverRunning, g_listenSocket, startVars, fd, accepted, via, alive, keys,
                 injected, replies, stopVars>>

\* accept fails: the socket is not listening, or is closed while it waits.
AcceptFails(n) ==
  /\ loop[n] = "accept"
  /\ fd[n] # INVALID_SOCKET => listener[fd[n]] # "listening"
  /\ loop' = [loop EXCEPT ![n] = "test"]
  /\ UNCHANGED <<serverRunning, g_listenSocket, startVars, fd, accepted, connVars, stopVars>>

Reply(c, what) ==
  /\ replies' = IF c \in alive THEN [replies EXCEPT ![c] = Append(@, what)] ELSE replies
  /\ UNCHANGED <<via, alive, keys>>

Greet(n) ==
  /\ loop[n] = "greet"
  /\ Reply(accepted[n], "SIG")
  /\ loop' = [loop EXCEPT ![n] = "detach"]
  /\ UNCHANGED <<serverRunning, g_listenSocket, startVars, fd, accepted, handler, injected,
                 stopVars>>

DetachHandler(n) ==
  /\ loop[n] = "detach"
  /\ handler' = [handler EXCEPT ![accepted[n]] = "test"]
  /\ accepted' = [accepted EXCEPT ![n] = NoClient]
  /\ loop' = [loop EXCEPT ![n] = "test"]
  /\ UNCHANGED <<serverRunning, g_listenSocket, startVars, fd, via, alive, keys, injected,
                 replies, stopVars>>

-----------------------------------------------------------------------------
(* handleClient.                                                           *)

HandlerTests(c) ==
  /\ handler[c] = "test"
  /\ handler' = [handler EXCEPT ![c] = IF serverRunning THEN "recv" ELSE "ended"]
  /\ UNCHANGED <<serverRunning, g_listenSocket, startVars, loopVars, via, alive, keys,
                 injected, replies, stopVars>>

\* Mutant: the result of recv is not looked at.
HandleAnything(c) ==
  /\ handler[c] = "recv"
  /\ handler' = [handler EXCEPT ![c] = "ack"]
  /\ injected' = [injected EXCEPT ![c] = @ + 1]
  /\ UNCHANGED <<serverRunning, g_listenSocket, startVars, loopVars, via, alive, keys, replies,
                 stopVars>>

\* recv returns a key message, and the key is injected.
HandleKey(c) ==
  /\ handler[c] = "recv"
  /\ injected[c] < keys[c]
  /\ handler' = [handler EXCEPT ![c] = "ack"]
  /\ injected' = [injected EXCEPT ![c] = @ + 1]
  /\ UNCHANGED <<serverRunning, g_listenSocket, startVars, loopVars, via, alive, keys, replies,
                 stopVars>>

RecvFails(c) ==
  /\ handler[c] = "recv"
  /\ c \notin alive
  /\ handler' = [handler EXCEPT ![c] = "ended"]
  /\ UNCHANGED <<serverRunning, g_listenSocket, startVars, loopVars, via, alive, keys,
                 injected, replies, stopVars>>

\* Mutant: only the first key of a connection is acknowledged.
SendAckOnce(c) ==
  /\ handler[c] = "ack"
  /\ IF injected[c] = 1 THEN Reply(c, "ACK") ELSE UNCHANGED <<via, alive, keys, replies>>
  /\ handler' = [handler EXCEPT ![c] = "test"]
  /\ UNCHANGED <<serverRunning, g_listenSocket, startVars, loopVars, injected, stopVars>>

SendAck(c) ==
  /\ handler[c] = "ack"
  /\ Reply(c, "ACK")
  /\ handler' = [handler EXCEPT ![c] = "test"]
  /\ UNCHANGED <<serverRunning, g_listenSocket, startVars, loopVars, injected, stopVars>>

-----------------------------------------------------------------------------
(* Shutdown: shutdownServer, called at the end of WinMain, by              *)
(* RestartApplication and by the thread that waits for the parent process. *)

BeginStop(a) ==
  /\ stop[a] = "idle"
  /\ stop' = [stop EXCEPT ![a] = "flag"]
  /\ overlapped' = (overlapped \/ Starting)
  /\ UNCHANGED <<serverRunning, g_listenSocket, startVars, loopVars, connVars>>

Quit == BeginStop("gui") /\ UNCHANGED <<resets, resetting>>

ParentExits == BeginStop("monitor") /\ UNCHANGED <<resets, resetting>>

ResetSettings ==
  /\ resets < MaxResets
  /\ BeginStop("gui")
  /\ resets' = resets + 1 /\ resetting' = TRUE

Proceed(a, from, to) ==
  /\ stop[a] = from
  /\ stop' = [stop EXCEPT ![a] = to]
  /\ UNCHANGED <<resets, resetting, overlapped>>

\* Mutant: the flag stays set.
KeepRunning(a) ==
  /\ Proceed(a, "flag", "close")
  /\ UNCHANGED <<serverRunning, g_listenSocket, startVars, loopVars, connVars>>

ClearRunning(a) ==
  /\ Proceed(a, "flag", "close")
  /\ serverRunning' = FALSE
  /\ UNCHANGED <<g_listenSocket, startVars, loopVars, connVars>>

CloseListenSocket(a) ==
  /\ Proceed(a, "close", "cleanup")
  /\ CloseListeners({g_listenSocket}, {})
  /\ UNCHANGED <<serverRunning, g_listenSocket, winsock, init, loopVars>>

Cleanup(a) ==
  /\ Proceed(a, "cleanup", IF a = "gui" /\ resetting THEN "winsock" ELSE "exit")
  /\ WSACleanup({})
  /\ UNCHANGED <<serverRunning, g_listenSocket, init, loopVars>>

\* RestartApplication calls cleanupWinsock as well.
CleanupWinsock ==
  /\ Proceed("gui", "winsock", "relaunch")
  /\ WSACleanup({})
  /\ UNCHANGED <<serverRunning, g_listenSocket, init, loopVars>>

Relaunch ==
  /\ Proceed("gui", "relaunch", "exit")
  /\ UNCHANGED <<serverRunning, g_listenSocket, startVars, loopVars, connVars>>

\* The new process cannot be launched: this one goes on without a server.
RelaunchFails ==
  /\ stop["gui"] = "relaunch"
  /\ stop' = [stop EXCEPT !["gui"] = "idle"] /\ resetting' = FALSE
  /\ UNCHANGED <<serverRunning, g_listenSocket, startVars, loopVars, connVars, resets,
                 overlapped>>

\* The process ends, with its threads and its sockets.
Exit(a) ==
  /\ stop[a] = "exit"
  /\ stop' = [b \in Stoppers |-> "gone"]
  /\ serverRunning' = FALSE /\ g_listenSocket' = INVALID_SOCKET /\ winsock' = 0
  /\ listener' = [n \in Starts |-> "closed"]
  /\ init' = [n \in Starts |-> "done"]
  /\ loop' = [n \in Starts |-> "none"]
  /\ fd' = [n \in Starts |-> INVALID_SOCKET]
  /\ accepted' = [n \in Starts |-> NoClient]
  /\ handler' = [c \in Clients |-> "ended"]
  /\ alive' = {}
  /\ UNCHANGED <<via, keys, injected, replies, resets, resetting, overlapped>>

-----------------------------------------------------------------------------
(* The clients.                                                            *)

Arrive(c) ==
  /\ handler[c] = "none"
  /\ \E n \in Starts : listener[n] = "listening" /\ via' = [via EXCEPT ![c] = n]
  /\ handler' = [handler EXCEPT ![c] = "backlog"]
  /\ alive' = alive \cup {c}
  /\ UNCHANGED <<serverRunning, g_listenSocket, startVars, loopVars, keys, injected,
                 replies, stopVars>>

SendKey(c) ==
  /\ c \in alive
  /\ keys[c] < MaxKeys
  /\ keys' = [keys EXCEPT ![c] = @ + 1]
  /\ UNCHANGED <<serverRunning, g_listenSocket, startVars, loopVars, handler, via, alive,
                 injected, replies, stopVars>>

Leave(c) ==
  /\ c \in alive
  /\ alive' = alive \ {c}
  /\ UNCHANGED <<serverRunning, g_listenSocket, startVars, loopVars, handler, via, keys,
                 injected, replies, stopVars>>

-----------------------------------------------------------------------------

StartThread(n) ==
  \/ Startup(n) \/ CreateSocket(n) \/ SocketFails(n) \/ Bind(n) \/ BindFails(n)
  \/ Listen(n) \/ ListenFails(n) \/ SetRunning(n) \/ StartServer(n)

AcceptLoop(n) ==
  \/ TestRunning(n) \/ Accept(n) \/ AcceptReset(n) \/ AcceptFails(n)
  \/ Greet(n) \/ DetachHandler(n)

HandleClient(c) == HandlerTests(c) \/ HandleKey(c) \/ RecvFails(c) \/ SendAck(c)

Stop(a) == ClearRunning(a) \/ CloseListenSocket(a) \/ Cleanup(a) \/ Exit(a)

GuiStop == CleanupWinsock \/ Relaunch \/ RelaunchFails

User == ClickStart \/ Quit \/ ResetSettings \/ ParentExits

Client(c) == Arrive(c) \/ SendKey(c) \/ Leave(c)

Next ==
  \/ User \/ GuiStop
  \/ \E n \in Starts : StartThread(n) \/ AcceptLoop(n)
  \/ \E c \in Clients : HandleClient(c) \/ Client(c)
  \/ \E a \in Stoppers : Stop(a)

Spec == Init /\ [][Next]_vars

-----------------------------------------------------------------------------

\* What a client may rely on, whatever starts and stops happen meanwhile: the
\* signature comes first and once, then one acknowledgment for each key that
\* was injected, none of them early or twice.
RepliesFollowProtocol ==
  \A c \in Clients :
    /\ \A i \in DOMAIN replies[c] : (replies[c][i] = "SIG") <=> i = 1
    /\ Len(replies[c]) <= injected[c] + 1
    /\ c \in alive /\ replies[c] # <<>> =>
         Len(replies[c]) = injected[c] + (IF handler[c] = "ack" THEN 0 ELSE 1)

\* While isServerUp says so, the socket accepts connections: also in the middle
\* of a shutdown, and after a failed start or a failed restart.  Starts that
\* overlap with each other or with a shutdown are the exception.
UpMeansListening ==
  isServerUp /\ ~overlapped => listener[g_listenSocket] = "listening"

\* Every connection gets the signature, or is lost; a client that resets its
\* connection does not end the loop for the others.
Greeted ==
  \A c \in Clients : handler[c] = "backlog" ~>
    replies[c] # <<>> \/ c \notin alive \/ overlapped

\* Threads are scheduled; a shutdown goes on to the end of the process.
Fairness ==
  /\ \A n \in Starts : WF_vars(StartThread(n)) /\ WF_vars(AcceptLoop(n))
  /\ \A c \in Clients : WF_vars(HandleClient(c))
  /\ \A a \in Stoppers : WF_vars(Stop(a))
  /\ WF_vars(GuiStop)

FairSpec == Spec /\ Fairness

\* "If we reached this point, the server is up and running": without the
\* exception, once every start has come to its end and nothing is shut down.
ServerUpIsListening ==
  isServerUp /\ ~Starting /\ ~Stopping => listener[g_listenSocket] = "listening"
=============================================================================
