--------------------------- MODULE NetworkClient ---------------------------
(***************************************************************************)
(* The client: its GUI thread, which turns window messages into calls of   *)
(* sendKeyPress, the threads clientConnectionThread detaches to run        *)
(* establishConnection, and the threads sendKeyPress detaches to reconnect *)
(* after a failed send.  They share g_persistentSocket without a lock.     *)
(*                                                                         *)
(* SendMessage to a control of the client's window, from another thread,   *)
(* waits until the GUI thread dispatches messages: the guard Pumping.      *)
(* Sleeps and timeouts are lower bounds, so they are steps that may come   *)
(* at any later moment; the MessageBox of a failed attempt is such a delay.*)
(***************************************************************************)
EXTENDS KeyLink

CONSTANTS Threads,       \* slots for detached threads alive at the same time
          MaxCommands,   \* bound: uses of Connect, and ends of the process
          queueKeys,     \* setting: keep the keys typed without a connection
          maxQueueSize   \* setting: capacity of keyEventQueue

NoThread == "no thread"

ASSUME ClientAssumption == /\ MaxCommands \in Nat
                           /\ queueKeys \in BOOLEAN
                           /\ maxQueueSize \in Nat
                           /\ NoThread \notin Threads

VARIABLES
  g,               \* g_persistentSocket
  isReconnecting,  \* the atomic flag
  keyEventQueue,   \* key events waiting for a connection
  queueMutex,      \* the thread that holds queueMutex, or NoThread
  winsockUp,       \* FALSE once WSACleanup has undone the one WSAStartup
  verified,        \* open sockets whose signature matched (history)
  early,           \* open sockets a key was sent on before that (history)
  guiPc,           \* where the GUI thread is in sendKeyPress, Connect or its end
  guiSock,         \* the socket its recv for an acknowledgment waits on
  typed,           \* key events typed so far; the latest one has this number
  commands,        \* uses of Connect, and ends of the process, so far
  pc,              \* where each detached thread is
  kind,            \* "conn" for establishConnection, "recon" for reconnectAndResend
  ret,             \* where it continues after closing a connection
  fd               \* the socket its select or recv was called with

trustVars == <<verified, early>>
queueVars == <<keyEventQueue, queueMutex>>
netVars == <<g, winsockUp, trustVars>>
guiVars == <<guiPc, guiSock, typed, commands>>
threadVars == <<pc, kind, ret, fd>>
clientVars == <<isReconnecting, queueVars, netVars, guiVars, threadVars>>
vars == <<linkVars, clientVars>>

TypeOK ==
  /\ LinkTypeOK
  /\ g \in Handles
  /\ isReconnecting \in BOOLEAN
  /\ keyEventQueue \in Seq(KeyEvents) /\ Len(keyEventQueue) <= maxQueueSize
  /\ queueMutex \in Threads \cup {NoThread}
  /\ winsockUp \in BOOLEAN
  /\ verified \subseteq Sockets /\ early \subseteq Sockets
  /\ guiPc \in {"idle", "send", "enqueue", "recv", "ack", "clear", "close", "quit",
                "quitClear", "cleanup", "exit", "resetClear", "reset", "relaunch", "ended"}
  /\ guiSock \in Handles
  /\ typed \in 0..MaxKeys /\ commands \in 0..MaxCommands
  /\ pc \in [Threads -> {"none", "pause", "status", "estab", "close", "tell",
                         "closing", "clear", "check", "socket", "connect", "select", "sig",
                         "failed", "report", "resume", "drain", "resend"}]
  /\ kind \in [Threads -> {"conn", "recon"}]
  /\ ret \in [Threads -> {"none", "estab", "check"}]
  /\ fd \in [Threads -> Handles]

\* WinMain has initialised Winsock and called clientConnectionThread once.
Init ==
  /\ LinkInit
  /\ g = INVALID_SOCKET /\ winsockUp = TRUE /\ verified = {} /\ early = {}
  /\ isReconnecting = FALSE
  /\ keyEventQueue = <<>> /\ queueMutex = NoThread
  /\ guiPc = "idle" /\ guiSock = INVALID_SOCKET /\ typed = 0 /\ commands = 0
  /\ \E t \in Threads : pc = [u \in Threads |-> IF u = t THEN "estab" ELSE "none"]
  /\ kind = [t \in Threads |-> "conn"]
  /\ ret = [t \in Threads |-> "none"]
  /\ fd = [t \in Threads |-> INVALID_SOCKET]

-----------------------------------------------------------------------------
(* Threads.                                                                *)

\* The message loop is over, the window destroyed.
Quit == {"quit", "quitClear", "cleanup", "exit"}

\* SendMessage returns: the GUI thread dispatches messages, or the window is gone.
Pumping == guiPc \in {"idle"} \cup Quit

SlotFree == \E t \in Threads : pc[t] = "none"

\* std::thread(...).detach()
Spawn(k, label) ==
  /\ \E t \in Threads :
       /\ pc[t] = "none"
       /\ pc' = [pc EXCEPT ![t] = label]
       /\ kind' = [kind EXCEPT ![t] = k]
  /\ UNCHANGED <<ret, fd>>

Enter(t, label, return, h) ==
  /\ pc' = [pc EXCEPT ![t] = label]
  /\ ret' = [ret EXCEPT ![t] = return]
  /\ fd' = [fd EXCEPT ![t] = h]
  /\ kind' = [kind EXCEPT ![t] = IF label = "none" THEN "conn" ELSE @]

Goto(t, label) == Enter(t, label, "none", INVALID_SOCKET)

\* A thread moves on and changes nothing that others see.
Jump(t, from, to, return) ==
  /\ pc[t] = from
  /\ Enter(t, to, return, INVALID_SOCKET)
  /\ UNCHANGED <<linkVars, isReconnecting, queueVars, netVars, guiVars>>

\* Mutant: a reconnecting thread gives up after its first failure.
GiveUp(t) == "none"

\* establishConnection returned false: a reconnecting thread sleeps and tries
\* again, a connecting thread ends.
AfterFailure(t) == IF kind[t] = "recon" THEN "estab" ELSE "none"

\* establishConnection returned true.
AfterSuccess(t) == IF kind[t] = "recon" THEN "resume" ELSE "none"

\* closesocket on some handles.
Close(S) == CloseSockets(S) /\ verified' = verified \ S /\ early' = early \ S

-----------------------------------------------------------------------------
(* The GUI thread: sendKeyPress.                                           *)

\* send() of a key on g_persistentSocket; without a connection the key is lost.
Send(key) ==
  /\ outbox' = IF CanSend(g) THEN [outbox EXCEPT ![g] = Append(@, key)] ELSE outbox
  /\ early' = IF CanSend(g) /\ g \notin verified THEN early \cup {g} ELSE early
  /\ UNCHANGED <<sockVars, inbox, serverVars, g, winsockUp, verified>>

Ignoring == isReconnecting /\ ~queueKeys

IgnoreKey ==
  /\ guiPc = "idle" /\ typed < MaxKeys
  /\ Ignoring
  /\ typed' = typed + 1
  /\ UNCHANGED <<linkVars, isReconnecting, queueVars, netVars, guiPc, guiSock, commands, threadVars>>

TypeKey ==
  /\ guiPc = "idle" /\ typed < MaxKeys
  /\ ~Ignoring
  /\ SlotFree
  /\ typed' = typed + 1
  /\ guiPc' = "send"
  /\ UNCHANGED <<linkVars, isReconnecting, queueVars, netVars, guiSock, commands, threadVars>>

\* Mutant: the acknowledgment is not awaited.
GuiSendOnly ==
  /\ guiPc = "send"
  /\ Send(typed)
  /\ guiPc' = IF CanSend(g) THEN "idle" ELSE "enqueue"
  /\ UNCHANGED <<isReconnecting, queueVars, guiSock, typed, commands, threadVars>>

GuiSend ==
  /\ guiPc = "send"
  /\ Send(typed)
  /\ guiPc' = IF CanSend(g) THEN "recv" ELSE "enqueue"
  /\ UNCHANGED <<isReconnecting, queueVars, guiSock, typed, commands, threadVars>>

\* Mutant: the capacity of the queue is not checked.
GuiEnqueueAlways ==
  /\ guiPc = "enqueue"
  /\ queueKeys => queueMutex = NoThread
  /\ keyEventQueue' = Append(keyEventQueue, typed)
  /\ Spawn("recon", "pause")
  /\ guiPc' = "idle"
  /\ UNCHANGED <<linkVars, isReconnecting, queueMutex, netVars, guiSock, typed, commands>>

\* Mutant: the queue is not locked.
GuiEnqueueUnlocked ==
  /\ guiPc = "enqueue"
  /\ keyEventQueue' = IF queueKeys /\ Len(keyEventQueue) < maxQueueSize
                        THEN Append(keyEventQueue, typed) ELSE keyEventQueue
  /\ Spawn("recon", "pause")
  /\ guiPc' = "idle"
  /\ UNCHANGED <<linkVars, isReconnecting, queueMutex, netVars, guiSock, typed, commands>>

\* The send failed: queue the key, if keys are queued and there is room, and
\* detach a thread that reconnects.
GuiEnqueue ==
  /\ guiPc = "enqueue"
  /\ queueKeys => queueMutex = NoThread
  /\ keyEventQueue' = IF queueKeys /\ Len(keyEventQueue) < maxQueueSize
                        THEN Append(keyEventQueue, typed) ELSE keyEventQueue
  /\ Spawn("recon", "pause")
  /\ guiPc' = "idle"
  /\ UNCHANGED <<linkVars, isReconnecting, queueMutex, netVars, guiSock, typed, commands>>

\* recv reads g_persistentSocket again, after the send.
GuiRecv ==
  /\ guiPc = "recv"
  /\ guiSock' = g
  /\ guiPc' = "ack"
  /\ UNCHANGED <<linkVars, isReconnecting, queueVars, netVars, typed, commands, threadVars>>

GuiReturn ==
  /\ guiPc' = "idle" /\ guiSock' = INVALID_SOCKET
  /\ UNCHANGED <<sockVars, outbox, serverVars, isReconnecting, queueVars, netVars,
                 typed, commands, threadVars>>

\* One byte arrives, whatever it belongs to.
GuiAck ==
  /\ guiPc = "ack"
  /\ CanSend(guiSock) /\ inbox[guiSock] # <<>>
  /\ inbox' = [inbox EXCEPT ![guiSock] =
                 IF Head(@) = "ACK" THEN Tail(@) ELSE <<"PART">> \o Tail(@)]
  /\ GuiReturn

\* Mutant: the receive times out, and leaves the acknowledgment to the next key.
GuiAckTimesOut == guiPc = "ack" /\ UNCHANGED inbox /\ GuiReturn

\* recv fails: no blocking connection, or it was closed or reset meanwhile.
GuiAckFails ==
  /\ guiPc = "ack"
  /\ ~CanWait(guiSock)
  /\ UNCHANGED inbox
  /\ GuiReturn

(* The GUI thread: the menu command Connect.                               *)

ClickConnect ==
  /\ guiPc = "idle" /\ commands < MaxCommands
  /\ SlotFree
  /\ commands' = commands + 1
  /\ \/ /\ g = INVALID_SOCKET
        /\ Spawn("conn", "estab")
        /\ UNCHANGED <<linkVars, guiPc, trustVars>>
     \/ /\ g # INVALID_SOCKET
        /\ Close({g})
        /\ guiPc' = "clear"
        /\ UNCHANGED <<serverVars, threadVars>>
  /\ UNCHANGED <<isReconnecting, queueVars, g, winsockUp, guiSock, typed>>

GuiClear ==
  /\ guiPc = "clear"
  /\ g' = INVALID_SOCKET
  /\ Spawn("conn", "estab")
  /\ guiPc' = "idle"
  /\ UNCHANGED <<linkVars, isReconnecting, queueVars, winsockUp, trustVars, guiSock, typed, commands>>

-----------------------------------------------------------------------------
(* The end of the process.  The detached threads run on until it ends.     *)

\* closeClientConnection in the GUI thread: closesocket, which goes on at label
\* clear, or nothing, which goes on at label next.
GuiClose(clear, next) ==
  /\ \/ g = INVALID_SOCKET /\ guiPc' = next /\ UNCHANGED <<linkVars, trustVars>>
     \/ g # INVALID_SOCKET /\ guiPc' = clear /\ Close({g}) /\ UNCHANGED serverVars
  /\ UNCHANGED <<isReconnecting, queueVars, g, winsockUp, guiSock, typed, threadVars>>

GuiCleared(clear, next) ==
  /\ guiPc = clear /\ guiPc' = next
  /\ g' = INVALID_SOCKET
  /\ UNCHANGED <<linkVars, isReconnecting, queueVars, winsockUp, trustVars, guiSock, typed,
                 commands, threadVars>>

\* WM_CLOSE closes the connection, then destroys the window.
CloseWindow ==
  /\ guiPc = "idle" /\ commands < MaxCommands
  /\ commands' = commands + 1
  /\ GuiClose("close", "quit")

DestroyWindow == GuiCleared("close", "quit")

\* The menu command Exit destroys the window at once.
ClickExit ==
  /\ guiPc = "idle" /\ commands < MaxCommands
  /\ commands' = commands + 1
  /\ guiPc' = "quit"
  /\ UNCHANGED <<linkVars, isReconnecting, queueVars, netVars, guiSock, typed, threadVars>>

\* After the message loop: a connection made since is closed.
LastClose == guiPc = "quit" /\ UNCHANGED commands /\ GuiClose("quitClear", "cleanup")

LastClear == GuiCleared("quitClear", "cleanup")

\* WSACleanup.
GuiCleanup(from, next) ==
  /\ guiPc = from /\ guiPc' = next
  /\ Close(Sockets) /\ winsockUp' = FALSE
  /\ UNCHANGED <<serverVars, isReconnecting, queueVars, g, guiSock, typed, commands, threadVars>>

CleanupWinsock == GuiCleanup("cleanup", "exit")

\* Reset Settings: RestartApplication closes the connection and cleans up in the
\* GUI thread, with the window still there, and launches the program again.
ResetSettings ==
  /\ guiPc = "idle" /\ commands < MaxCommands
  /\ commands' = commands + 1
  /\ GuiClose("resetClear", "reset")

ResetClear == GuiCleared("resetClear", "reset")

ResetCleanup == GuiCleanup("reset", "relaunch")

\* The launch fails: the process goes on, without Winsock.
RelaunchFails ==
  /\ guiPc = "relaunch" /\ guiPc' = "idle"
  /\ UNCHANGED <<linkVars, isReconnecting, queueVars, netVars, guiSock, typed, commands,
                 threadVars>>

\* WinMain returns, RestartApplication calls exit(0), or the process is killed:
\* Windows closes its sockets, and nothing of its memory is left.
EndProcess ==
  /\ guiPc # "ended" /\ guiPc' = "ended"
  /\ IF guiPc \in {"close", "resetClear", "reset", "relaunch"} \cup Quit
       THEN UNCHANGED commands
       ELSE commands < MaxCommands /\ commands' = commands + 1
  /\ Close(Sockets) /\ winsockUp' = FALSE
  /\ g' = INVALID_SOCKET /\ guiSock' = INVALID_SOCKET
  /\ isReconnecting' = FALSE /\ keyEventQueue' = <<>> /\ queueMutex' = NoThread
  /\ pc' = [t \in Threads |-> "none"] /\ kind' = [t \in Threads |-> "conn"]
  /\ ret' = [t \in Threads |-> "none"] /\ fd' = [t \in Threads |-> INVALID_SOCKET]
  /\ UNCHANGED <<serverVars, typed>>

\* The program is started again: WinMain, as in the first state.
StartProcess ==
  /\ guiPc = "ended" /\ guiPc' = "idle"
  /\ winsockUp' = TRUE
  /\ Spawn("conn", "estab")
  /\ UNCHANGED <<linkVars, isReconnecting, queueVars, g, trustVars, guiSock, typed, commands>>

-----------------------------------------------------------------------------
(* A detached thread: the start of reconnectAndResend.                     *)

LoseExchange(t) == isReconnecting /\ Jump(t, "pause", "none", "none")

\* Mutant: the flag is set without looking at its old value.
SetFlag(t) ==
  /\ pc[t] = "pause"
  /\ isReconnecting' = TRUE
  /\ Goto(t, "status")
  /\ UNCHANGED <<linkVars, queueVars, netVars, guiVars>>

WinExchange(t) ==
  /\ pc[t] = "pause"
  /\ ~isReconnecting
  /\ isReconnecting' = TRUE
  /\ Goto(t, "status")
  /\ UNCHANGED <<linkVars, queueVars, netVars, guiVars>>

\* Mutant: the text is posted, the GUI thread is not waited for.
PostReconnecting(t) == Jump(t, "status", "close", "estab")

\* The status bar shows "Reconnecting...", then closeClientConnection is called.
ShowReconnecting(t) == Pumping /\ Jump(t, "status", "close", "estab")

-----------------------------------------------------------------------------
(* A detached thread: closeClientConnection and the closing of a failed    *)
(* attempt, which both end at label ret[t].                                *)

SkipClose(t) == g = INVALID_SOCKET /\ Jump(t, "close", ret[t], "none")

FindSocket(t) == g # INVALID_SOCKET /\ Jump(t, "close", "tell", ret[t])

\* "Closing connection."  Meanwhile g_persistentSocket may become another one.
ShowClosing(t) == Pumping /\ Jump(t, "tell", "closing", ret[t])

\* closesocket(g_persistentSocket), whatever the variable holds by now.
CloseSocket(t) ==
  /\ pc[t] = "closing"
  /\ Close({g} \cap Sockets)
  /\ Enter(t, "clear", ret[t], INVALID_SOCKET)
  /\ UNCHANGED <<serverVars, isReconnecting, queueVars, g, winsockUp, guiVars>>

ClearSocket(t) ==
  /\ pc[t] = "clear"
  /\ g' = INVALID_SOCKET
  /\ Goto(t, ret[t])
  /\ UNCHANGED <<linkVars, isReconnecting, queueVars, winsockUp, trustVars, guiVars>>

\* A failed attempt closes g_persistentSocket before it returns false.
Fail(t, from) == Jump(t, from, "closing", AfterFailure(t))

-----------------------------------------------------------------------------
(* A detached thread: establishConnection.                                 *)

\* "Trying to connect", after the pause of a retry, then closeClientConnection.
ShowTrying(t) == Pumping /\ Jump(t, "estab", "close", "check")

\* Another thread has set g_persistentSocket since: reported as success.
AlreadyEstablished(t) == g # INVALID_SOCKET /\ Jump(t, "check", AfterSuccess(t), "none")

NotEstablished(t) == g = INVALID_SOCKET /\ Jump(t, "check", "socket", "none")

\* A slot for a new socket: nobody holds the handle.  A socket whose handle was
\* overwritten before it was connected is never closed, but takes no part in
\* anything any more: its slot counts as free.
Unused(s) ==
  /\ sock[s] \in {"closed", "created"} /\ srv[s] = "none"
  /\ s \notin {g, guiSock} /\ \A t \in Threads : fd[t] # s

\* socket() assigns g_persistentSocket, also over a handle set meanwhile.
SocketCreated(t) ==
  /\ pc[t] = "socket"
  /\ winsockUp
  /\ \E s \in Sockets :
       /\ Unused(s) /\ \A r \in Sockets : Unused(r) => s <= r
       /\ sock' = [sock EXCEPT ![s] = "created"]
       /\ blocking' = blocking \ {s}
       /\ g' = s
  /\ Goto(t, "connect")
  /\ UNCHANGED <<buffers, serverVars, isReconnecting, queueVars, winsockUp, trustVars, guiVars>>

\* socket() fails once Winsock is shut down, and the result is assigned too.
SocketFails(t) ==
  /\ pc[t] = "socket"
  /\ ~winsockUp
  /\ g' = INVALID_SOCKET
  /\ Goto(t, AfterFailure(t))
  /\ UNCHANGED <<linkVars, isReconnecting, queueVars, winsockUp, trustVars, guiVars>>

Connectable(h) == h \in Sockets /\ sock[h] = "created"

\* connect() on the non-blocking socket returns WSAEWOULDBLOCK; if another
\* thread has made the socket blocking, the wait for it is part of the next.
Connect(t) ==
  /\ pc[t] = "connect"
  /\ Connectable(g)
  /\ SetSocket(g, "connecting")
  /\ Enter(t, "select", "none", g)
  /\ UNCHANGED <<buffers, serverVars, isReconnecting, queueVars, netVars, guiVars>>

\* connect() fails at once: g_persistentSocket was closed, or is a socket
\* another thread is connecting or has connected.
ConnectFails(t) == ~Connectable(g) /\ Fail(t, "connect")

\* select reports the socket writable, SO_ERROR of g_persistentSocket is 0
\* (or could not be read, and the uninitialised so_error happens to be 0):
\* g_persistentSocket is made blocking and its signature awaited.
SelectReady(t) ==
  /\ pc[t] = "select"
  /\ CanSend(fd[t])
  /\ blocking' = blocking \cup {s \in Sockets : s = g /\ sock[s] # "closed"}
  /\ Enter(t, "sig", "none", g)
  /\ UNCHANGED <<sock, buffers, serverVars, isReconnecting, queueVars, netVars, guiVars>>

\* Not ready within the second, select failed on a closed socket, or SO_ERROR
\* of g_persistentSocket is not 0: the status is shown.
SelectFails(t) == Jump(t, "select", "failed", "none")

ShowFailure(t) == Pumping /\ Fail(t, "failed")

\* verifyServerSignature: exactly the signature is read.
SignatureOk(t) ==
  /\ pc[t] = "sig"
  /\ CanSend(fd[t]) /\ inbox[fd[t]] = <<"SIG">>
  /\ inbox' = [inbox EXCEPT ![fd[t]] = <<>>]
  /\ verified' = verified \cup {fd[t]}
  /\ Goto(t, "report")
  /\ UNCHANGED <<sockVars, outbox, serverVars, isReconnecting, queueVars, g, winsockUp, early,
                 guiVars>>

\* verifyServerSignature: anything else, or nothing, is read.  WSACleanup
\* undoes the only WSAStartup of the process, so every socket is closed.
SignatureBad(t) ==
  /\ pc[t] = "sig"
  /\ CanWait(fd[t]) => inbox[fd[t]] \notin {<<>>, <<"SIG">>}
  /\ Close(Sockets)
  /\ winsockUp' = FALSE
  /\ Enter(t, "closing", AfterFailure(t), INVALID_SOCKET)
  /\ UNCHANGED <<serverVars, isReconnecting, queueVars, g, guiVars>>

\* "Connected succesfully", then true is returned.
Report(t) == Pumping /\ Jump(t, "report", AfterSuccess(t), "none")

-----------------------------------------------------------------------------
(* A detached thread: the end of reconnectAndResend.                       *)

\* Mutant: the flag is not reset.
ResumeKeepingFlag(t) ==
  /\ pc[t] = "resume"
  /\ Pumping
  /\ Goto(t, "drain")
  /\ UNCHANGED <<linkVars, isReconnecting, queueVars, netVars, guiVars>>

\* "Reconnection successful": the flag is reset.
Resume(t) ==
  /\ pc[t] = "resume"
  /\ Pumping
  /\ isReconnecting' = FALSE
  /\ Goto(t, "drain")
  /\ UNCHANGED <<linkVars, queueVars, netVars, guiVars>>

\* Keys are not queued: empty the queue and end.
ClearQueue(t) ==
  /\ pc[t] = "drain" /\ queueMutex = NoThread
  /\ ~queueKeys
  /\ keyEventQueue' = <<>>
  /\ Goto(t, "none")
  /\ UNCHANGED <<linkVars, isReconnecting, queueMutex, netVars, guiVars>>

LockQueue(t) ==
  /\ pc[t] = "drain" /\ queueMutex = NoThread
  /\ queueKeys
  /\ queueMutex' = t
  /\ Goto(t, "resend")
  /\ UNCHANGED <<linkVars, isReconnecting, keyEventQueue, netVars, guiVars>>

\* Mutant: the key is read from the queue and not removed.
ResendFront(t) ==
  /\ pc[t] = "resend"
  /\ keyEventQueue # <<>>
  /\ Send(Head(keyEventQueue))
  /\ UNCHANGED <<isReconnecting, queueVars, guiVars, threadVars>>

\* Send the oldest key of the queue, without awaiting its acknowledgment; a
\* key that cannot be sent is dropped.
Resend(t) ==
  /\ pc[t] = "resend"
  /\ keyEventQueue # <<>>
  /\ keyEventQueue' = Tail(keyEventQueue)
  /\ Send(Head(keyEventQueue))
  /\ UNCHANGED <<isReconnecting, queueMutex, guiVars, threadVars>>

\* Mutant: the lock is released while keys are left.
UnlockEarly(t) ==
  /\ pc[t] = "resend"
  /\ queueMutex' = NoThread
  /\ Goto(t, "none")
  /\ UNCHANGED <<linkVars, isReconnecting, keyEventQueue, netVars, guiVars>>

UnlockQueue(t) ==
  /\ pc[t] = "resend"
  /\ keyEventQueue = <<>>
  /\ queueMutex' = NoThread
  /\ Goto(t, "none")
  /\ UNCHANGED <<linkVars, isReconnecting, keyEventQueue, netVars, guiVars>>

-----------------------------------------------------------------------------

User ==
  \/ IgnoreKey \/ TypeKey \/ ClickConnect
  \/ CloseWindow \/ ClickExit \/ ResetSettings \/ EndProcess \/ StartProcess

Gui ==
  \/ GuiSend \/ GuiEnqueue \/ GuiRecv \/ GuiAck \/ GuiAckFails \/ GuiClear
  \/ DestroyWindow \/ LastClose \/ LastClear \/ CleanupWinsock
  \/ ResetClear \/ ResetCleanup \/ RelaunchFails

Thread(t) ==
  \/ LoseExchange(t) \/ WinExchange(t) \/ ShowReconnecting(t)
  \/ SkipClose(t) \/ FindSocket(t) \/ ShowClosing(t) \/ CloseSocket(t) \/ ClearSocket(t)
  \/ ShowTrying(t) \/ AlreadyEstablished(t) \/ NotEstablished(t)
  \/ SocketCreated(t) \/ SocketFails(t) \/ Connect(t) \/ ConnectFails(t)
  \/ SelectReady(t) \/ SelectFails(t) \/ ShowFailure(t)
  \/ SignatureOk(t) \/ SignatureBad(t) \/ Report(t)
  \/ Resume(t) \/ ClearQueue(t) \/ LockQueue(t) \/ Resend(t) \/ UnlockQueue(t)

Environment(s) == LinkStep(s) /\ UNCHANGED clientVars

Next == \/ User
        \/ Gui
        \/ \E t \in Threads : Thread(t)
        \/ \E s \in Sockets : Environment(s)

Spec == Init /\ [][Next]_vars

-----------------------------------------------------------------------------
(* Safety.                                                                 *)

\* Past the exchange and before the flag is reset, in reconnectAndResend.
InReconnect(t) == kind[t] = "recon" /\ pc[t] \notin {"pause", "drain", "resend"}

\* The flag is set exactly while one thread reconnects: two keys that fail
\* within the two seconds' pause do not start two reconnections, and no
\* failure path forgets to reset the flag.
ReconnectIsExclusive ==
  /\ isReconnecting <=> \E t \in Threads : InReconnect(t)
  /\ \A t, u \in Threads : InReconnect(t) /\ InReconnect(u) => t = u

\* When keys are not queued, the GUI thread never is inside sendKeyPress once
\* the status bar has shown "Reconnecting...": no key typed meanwhile is sent
\* on a socket that is being replaced.
GuiQuietDuringReconnect ==
  ~queueKeys => \A t \in Threads :
    InReconnect(t) /\ pc[t] # "status" => guiPc \notin {"send", "enqueue", "recv", "ack"}

\* A key waits in the queue only while some thread will still resend it: a
\* reconnecting one, or one that is going to try the exchange.
NoOrphanedQueue ==
  keyEventQueue # <<>> => \E t \in Threads : kind[t] = "recon"

\* While a thread resends the queue under queueMutex, nobody else adds to it or
\* takes from it, but the end of the process: a key typed meanwhile waits for
\* the lock.
DrainIsExclusive ==
  [][\A t \in Threads : pc[t] = "resend" /\ keyEventQueue' # keyEventQueue /\ ~EndProcess
       => queueMutex = t /\ Resend(t)]_vars

\* Without queueing, sendKeyPress keeps at most one key or acknowledgment in
\* flight on a verified connection, unless a key was sent before verification.
OneOutstanding ==
  ~queueKeys => \A s \in verified \ early :
    sock[s] = "established" => Len(outbox[s]) + Len(inbox[s]) <= 1

\* Without queueing, a byte received on such a connection acknowledges the key
\* just sent: that key has been injected.
VerifiedAckGenuine ==
  [][~queueKeys /\ GuiAck /\ guiSock \in verified \ early
       => \E i \in 1..Len(delivered) : delivered[i] = typed]_vars

\* Key events that may still reach a handler.
Pending ==
  (IF guiPc \in {"send", "enqueue"} THEN {typed} ELSE {})
    \cup {keyEventQueue[i] : i \in 1..Len(keyEventQueue)}
    \cup UNION {{outbox[s][i] : i \in 1..Len(outbox[s])} : s \in Sockets}

Channel == INSTANCE KeyChannel WITH pending <- Pending

\* Client, connections and handlers together are a key channel: no event is
\* injected twice, or after it was given up, across failed sends, queueing,
\* resending, closed sockets and lost connections.
ImplementsKeyChannel == Channel!Spec

-----------------------------------------------------------------------------
(* Liveness.  Threads and handlers are scheduled, and the GUI thread leaves *)
(* sendKeyPress when it can.  The server can be reached: again and again a *)
(* handshake completes, and select reports it, within the second.          *)

InTime(s) == \E t \in Threads : pc[t] = "select" /\ fd[t] = s

Serve(s) == Accept(s) \/ HandleKey(s) \/ HandlerExits(s) \/ Detect(s)

Fairness ==
  /\ WF_vars(Gui)
  /\ \A t \in Threads : WF_vars(Thread(t)) /\ SF_vars(SelectReady(t))
  /\ \A s \in Sockets : /\ WF_vars(Serve(s) /\ UNCHANGED clientVars)
                        /\ SF_vars(InTime(s) /\ Handshake(s) /\ UNCHANGED clientVars)

FairSpec == Spec /\ Fairness

\* A reconnecting thread is about to try again, no other attempt is under way,
\* and no other socket was left open by an earlier one.
LoneAttempt(t) ==
  /\ pc[t] = "estab" /\ kind[t] = "recon"
  /\ \A u \in Threads \ {t} : pc[u] \in {"none", "pause"}
  /\ \A s \in Sockets \ {g} : sock[s] \in {"closed", "created"}

\* sendKeyPress waits in recv on a connection at rest: its signature was read, and
\* no key was sent on it that is not answered.  The key that recv waits for was
\* sent on the socket that g_persistentSocket was before.
Frozen ==
  /\ guiPc = "ack" /\ CanWait(guiSock) /\ srv[guiSock] = "serving"
  /\ inbox[guiSock] = <<>> /\ outbox[guiSock] = <<>>

\* A lone reconnection ends and its queue is resent, whatever keys are typed
\* meanwhile, unless Winsock was shut down or the GUI thread stays frozen for
\* ever: queueMutex and SendMessage alone make no deadlock.
ReconnectEnds ==
  (\E t \in Threads : LoneAttempt(t)) ~>
    \/ ~isReconnecting /\ keyEventQueue = <<>>
    \/ ~winsockUp
    \/ []Frozen

\* The socket that recv waits on has the key, or its answer.
Answerable ==
  /\ guiPc = "ack" /\ guiSock # INVALID_SOCKET
  /\ \/ \E i \in 1..Len(outbox[guiSock]) : outbox[guiSock][i] = typed
     \/ \E i \in 1..Len(inbox[guiSock]) : inbox[guiSock][i] = "ACK"

\* recv has no timeout and blocks the window, but it returns if it waits on the
\* socket that the key was sent on, though threads that wait for the GUI thread
\* may hold that socket, and others may read from it or replace it.
AckComes == Answerable ~> guiPc # "ack"

-----------------------------------------------------------------------------
(* What comments and the README say, and the code does not do.             *)

\* "We'll try to reconnect infinitely until we're successful."
ReconnectsUntilSuccessful == \A t \in Threads : LoneAttempt(t) ~> ~isReconnecting

\* KEY_UP and KEY_DOWN events are interpreted correctly: as typed, in order.
DeliveredInOrder ==
  \A i, j \in 1..Len(delivered) : i < j => delivered[i] < delivered[j]
=============================================================================
