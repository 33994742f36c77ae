# Verification of SendFSKey

SendFSKey forwards key events from a client computer to Microsoft Flight
Simulator on a server computer. One executable plays both parts. This directory
holds TLA+ modules of its concurrent and stateful parts, TLC configurations that
check them on small instances, and theorems checked by TLAPS.

    tlc -config MCDirect.cfg MCNetworkClient.tla
    tlapm NetworkClientProofs.tla

Paths below are relative to `src/SendFSKey/`.

## The system

| Component | State | Operations | Modules |
|---|---|---|---|
| Network client (`NetworkClient.cpp`, `ClientWindowProc`) | `g_persistentSocket`, `isReconnecting`, `keyEventQueue`, `queueMutex` | `sendKeyPress`, `reconnectAndResend`, `establishConnection`, `verifyServerSignature`, `closeClientConnection`, `cleanupWinsock`, menu commands Connect, Exit and Reset, `WM_CLOSE` | `KeyLink`, `KeyChannel`, `NetworkClient`, `NetworkClientProofs`, `KeyChannelProofs`, `ClientDeliveryProofs` |
| Network server (`NetworkServer.cpp`, `ServerWindowProc`) | `serverRunning`, `g_listenSocket`, one thread per connection | `initializeServer`, `startServer`, `handleClient`, `shutdownServer`, `isServerUp`, menu command Start | `NetworkServer`, `KeyLink`, `NetworkServerProofs` |
| Key translation (`getKey` in `Utilities.cpp`) | `keyDownToUpMapping`, the window's focus | key-down, key-up | `KeyTranslation`, `KeyTranslationProofs` |
| Key injection (`SendInput.cpp`, `handleClient`, the lock of `Logger.cpp`) | keys held on the server | `ServerKeyPressDOWN`, `ServerKeyPressUP`, `KeyRelease` | `KeyInjection`, `KeyInjectionProofs` |
| Windows, tray, console (`WinMain`, window procedures, `Utilities.cpp`) | `start_minimized`, the menu's mark, icon, console, their settings | `MinimizeToTray`, `ToggleConsoleVisibility`, `UpdateMenuCheckMarks`, menu and tray commands | `Desktop`, `DesktopProofs` |
| Instances and settings (`WinMain`, dialogs, `Utilities.cpp`) | mutex `SendFSKeyMutex`, `SendFSKey.ini` | `isAlreadyRunning`, `WriteSettingsToIniFile`, `DeleteIniFileAndRestart`, `RestartApplication` | `Startup`, `StartupProofs` |
| Parent process monitor (`Utilities.cpp`) | a waiting thread | `MonitorParentProcessAsync` | `NetworkServer` (`ParentExits`) |
| About, Help, layout, text of the log | none that others read | | not modelled |

How they interact: a window message makes the client's GUI thread call `getKey`,
which calls `sendKeyPress`. That sends five bytes on `g_persistentSocket` and
waits for one byte. When the send fails it detaches a thread that sleeps, takes
the flag `isReconnecting`, and calls `establishConnection` until it succeeds.
WinMain and the command Connect detach threads that call `establishConnection`
too. None of these threads locks `g_persistentSocket`; each shows its progress
with `SendMessage`, which waits for the GUI thread. On the server an accept loop
sends the signature and detaches a handler for each connection; the handler
injects a key and answers one byte. Reset Settings stops everything, releases the
mutex and launches the program again.

What is hard: shared variables without locks and read again after a blocking
call; a byte stream in which signature and acknowledgments are told apart by
position only; a GUI thread that both blocks and must dispatch; starts that
overlap with starts and shutdowns; `WSACleanup`, which ends Winsock for the whole
process; a settings file that is written key by key.

What makes each part correct:

- client: one reconnection at a time; an acknowledgment belongs to the key just
  sent; a queued key always has a thread that will resend it; no key is injected
  twice; a reconnection ends and the GUI thread comes back;
- server: signature first, then one acknowledgment per injected key; the server
  is up only while it listens; every connection is greeted or lost;
- translation: the keys down on the server are those down on the keyboard;
- injection: debug mode leaves nothing stuck;
- desktop: a hidden window can be opened again; a process comes up as the last one
  was left, whenever that one ended;
- instances: at most one that holds the mutex is active; a client has an address.

## The modules

**KeyLink** is one TCP connection per client socket: the client's end (`sock`,
`blocking`), the bytes on their way to the client (`inbox`) and the key messages
on their way to the server (`outbox`), the server's end (`srv`), and the sequence
`delivered` of injected keys. Winsock is not part of the repository; what the code
relies on is modelled and marked external in the map. `Accept`, `HandleKey` and
`HandlerExits` are the server's `startServer` and `handleClient`, each message one
step. `PeerLost` and `Detect` are a lost connection and the moment the client
learns of it; in between `send` succeeds and the key is lost.

**NetworkClient** extends it with the client's threads. `guiPc` is the GUI
thread's place in `sendKeyPress`; `pc[t]` that of a detached thread, `kind[t]` the
function it was started with, `ret[t]` where it continues after a close, `fd[t]`
the socket a blocking call was made with. Every read or write of
`g_persistentSocket` that another thread can separate from the next one is a step
of its own. `Pumping` (the GUI thread dispatches messages, or the window is gone) guards
each `SendMessage` from another thread. `verified` and `early` are history variables.
The process ends by `WM_CLOSE` (`CloseWindow`), by Exit, by Reset Settings or by a kill:
the GUI thread closes the connection and calls `WSACleanup` step by step while detached
threads go on, `EndProcess` takes what is left, and `StartProcess` begins anew while the
server still has handlers, and keys, of the old process. A reset whose launch fails
leaves the old process running without Winsock (`RelaunchFails`).

**KeyChannel** is what client and server promise together: an event is injected
at most once, after it was typed and not after it was given up. `NetworkClient`
implements it with `pending` mapped to the events in `sendKeyPress`, in the queue
and in the connections.

**KeyInjection** is the server's side of a key: each handler receives an event
(`event[h]`, at most one, since a client waits for the answer), logs under the
logger's lock in debug mode, injects, and after a key-up in debug mode runs the loop
that releases what `GetAsyncKeyState` finds down. `held` is the keyboard all handlers
share. Keys are injected by scan code, so a generic code is the left key
(`ServerKey`). `since` remembers the keys that went down while a debug loop ran. The
window in front is not modelled: the code brings the simulator's there before a
key-down and ignores whether it came, so that no step depends on it, and the key goes
to whatever window is in front. The module has no specification of its own; the next
two extend it with what sends the events.

**KeyTranslation** adds the client: the keyboard (`pressed`), the focus, the message
queue (`messages`), in which the keyboard can be any number of messages ahead of the
GUI thread, since `recv` blocks it for every key, `getKey` with its mapping, and the client's connection, which can
be lost with or without the event on it and made again with another handler while the
old one still has a key to inject. Other clients send keys of their own. A missing
mapping entry is an entry of a code to itself: `getKey` cannot tell them apart.
`missed` remembers the keys of which the server has not heard: pressed or released
without focus, ignored while reconnecting, or lost with a connection. `late` remembers
the modifiers for which the code is known to go wrong: `getKey` asks the keyboard as it
is when the message is handled and has one entry for both sides, so a modifier that
changed while a key-down of it was waiting, or while the key of the other side was down,
can come out as the wrong side. A key leaves both sets when a key-down of it is handled
in time: it is down, the other side is not, and nothing else of theirs is waiting
(`Told`). So the two sets except a key, never a situation of the whole keyboard.

**Desktop** adds the server's windows instead: start and end of the process, the
settings `StartMinimized` and `ConsoleVisibility` in memory and in the file, window,
tray icon, console, menu mark and the user's commands. It also runs as a client
(`isClientMode`), whose window has no tray. `marked` and `console` keep their value
while no process runs: what the user last saw. `lost` names what a failed call or a
restart of Explorer has made differ. A command is as many steps as a kill can tell
apart: `gui` says that the console was toggled and its state is yet to be written
(`KeepVisibility`), or that Minimize on start was written and its mark is yet to be
changed (`ToggleMark`). `cut` remembers the commands that the end of a process cut short.

**NetworkServer** is the life of the server in full: the threads that run
`initializeServer`, the accept loop of each, the handlers, and two shutdowns (the
GUI thread's, for the end of WinMain or a reset, and the monitor's). The n-th start
creates the n-th socket. `overlapped` remembers that a start met another start or
a shutdown.

**Startup** has the processes on one computer, each at a place in `WinMain`, the
handles to the mutex and the settings file. `CreateMutex` may give no handle
(`CreateMutexFails`), because an elevated instance has the mutex for one, and the
instance then goes on. `unguarded` has the processes that went on without the mutex, or
gave it up for a relaunch that failed. `torn` remembers that the file says Client without
the address: the write of it failed, or a kill fell between the two writes.

`MCNetworkClient`, `MCNetworkServer`, `MCKeyTranslation`, `MCDesktop` and `MCStartup` supply
model values and symmetry for TLC; the `...Proofs` modules hold the theorems.

## The runs

| Run | Bounds | Shows |
|---|---|---|
| `direct` | 2 threads, 2 sockets, 2 keys, 1 loss, 1 command, no queue | `ReconnectIsExclusive`, `GuiQuietDuringReconnect`, `OneOutstanding`, `VerifiedAckGenuine`, refinement of `KeyChannel` |
| `queue` | 2 threads, 2 sockets, 3 keys, 1 loss, queue of 2 | `TypeOK`, `ReconnectIsExclusive`, `NoOrphanedQueue`, `DrainIsExclusive`, refinement of `KeyChannel` |
| `reconnect` | 2 threads, 2 sockets, 2 keys, queue of 1 | `ReconnectEnds`, `AckComes`, under fairness |
| `keys_follow` | both keys of 1 modifier, which may be down together, 1 key of another client, 2 handlers, 3 messages behind | `TypeOK`, `ServerMirrorsKeyboard`, `UpMatchesDown` |
| `desktop` | both keys of 1 modifier, 2 handlers, debug mode on and off, 2 faults | `TypeOK`, `HiddenHasIcon`, `MarkTellsNextStart`, `StartsAsLeft`, `NothingStuckInDebug` |
| `server` | 1 connection, 2 starts, 2 keys, 1 reset | `TypeOK`, `RepliesFollowProtocol`, `UpMeansListening` |
| `server_greets` | 2 connections, 1 start, 1 reset | `Greeted`, under fairness |
| `startup` | 3 processes, 2 faults | `OneActive`, `ClientHasAddress` |

Two threads and two sockets are enough for each pair of threads to meet: the
connecting thread of WinMain, that of Connect and reconnecting ones all occur, and a
replaced socket coexists with its successor. The one command is Connect, Close, Exit,
Reset or a kill, at any point; it suffices to replace a connection, or the process, once. Two keys are the least with which an
answer to one can be taken for that of the other; three fill a queue of two and
overflow it. The code's queue holds four; its capacity is a constant, and the
theorems hold for every value. One lost connection suffices to start a
reconnection; further ones repeat it. In `reconnect` no connection has to be lost: the
first key is sent before there is one, which starts a reconnecting thread beside
WinMain's connecting one, on two sockets, and the second key is typed at any moment of
that. With a lost connection as well the run takes too long for every day (532,013
states; it holds). Two starts and one reset make a start meet
another start, a shutdown, and an instance that goes on after a failed relaunch.
Three processes are an instance, the one it launches and one that the user starts
in between; their two faults are crashes, failed file operations, failed relaunches or
instances without a mutex, at any point.
The keyboard runs need one modifier, since modifiers do not interact but their sides
do, and a key of another client; three messages are the least with which a release and
two key-downs of a modifier wait together. A key with a code of its own is in
`keys_late`; beside the right Shift, with two messages, it was checked once in
`keys_follow` (4,211,328 states), and the theorems have any set of keys. With two handlers the
handler of an old connection, or of another client, works beside the current one, two
log at once, and one presses keys under the debug loop of the other. A fault in
`desktop` is a write, `AllocConsole` or `NIM_ADD` that fails, or a restart of Explorer, at
any point and with any number of processes before and after; two of them meet.
Deadlock is not checked where the program may stop: the bounds on keys and
processes run out, processes end, and the client's GUI thread may wait for ever
(see `Frozen`). `keys_follow` and `desktop` check it.

Four runs end in a violation, each of a sentence in the repository:

- `reconnect_forever` - "We'll try to reconnect infinitely until we're successful"
  (`NetworkClient.cpp:188`). A connection that gives no signature makes
  `verifyServerSignature` call `WSACleanup` (lines 42, 48). That undoes the only
  `WSAStartup`, and no later attempt can create a socket.
- `order` - "Correctly interprets KEY_UP and KEY_DOWN events" (`README.md:12`).
  `sendKeyPress` tries a direct send although the queue is not empty
  (`NetworkClient.cpp:252`; the queue is looked at only when the send fails), so a key
  typed between the new connection and the end of the drain overtakes older ones. The
  flag `isReconnecting` has no part in it: with queueing on, line 180 never looks at it.
- `keys_late` - the same sentence. An auto-repeated key-down of the right Shift that
  is handled after the release is not converted and is sent as 16, which is injected as
  the left Shift; the key-up is sent as 161. The left Shift stays down.
- `server_overlap` - "If we reached this point, the server is up and running"
  (`NetworkServer.cpp:187`). A second start replaces and then closes the socket of
  the first.

## Fairness

`FairSpec` of `NetworkClient`: weak fairness of the GUI thread inside `sendKeyPress`,
of each detached thread, and of the server's steps, since Windows schedules threads
and nothing in the code disables them for good. Typing and the user's commands are not fair. Strong
fairness of `SelectReady`, and of a handshake while a `select` waits for it, says that
the server can be reached: among repeated attempts some complete within the second that
`select` allows.

`ReconnectEnds` starts from a lone attempt (`LoneAttempt`): two threads may both await
the signature of one socket, and the second then waits for ever. For the same reason
its run has no Connect, which during a reconnection makes such a second thread. Keys are
typed all the time, and that is enough for the code to hang: a key is sent on a verified
connection s1 while the reconnecting thread closes it; the thread connects s2, verifies
it and waits in `SendMessage` (line 140); `recv` (line 269) reads `g_persistentSocket`
again, gets s2 and waits for a byte that nobody will send; both wait for ever. No line of
the repository excludes it, so it is no finding of a run but an exception that
`ReconnectEnds` names: `Frozen` is exactly this state, a wait in `recv` on a connection
that is served and has neither key nor answer. The property says that there is no other
way to get stuck.
`AckComes` starts from a socket that has the key, or its answer (`Answerable`): the
GUI thread then comes back, although the thread that waits for it in `SendMessage` may be
about to close or replace that very socket, and another may have read from it.
These hangs are defects of the code, listed as hazards, and not hidden by fairness.
`NetworkServer`: weak fairness of each thread and of a shutdown once begun; clients and
the user are not fair.

## What is proved

Every safety invariant, every action property and the refinement that the passing runs
check is a theorem as well, for any number of threads, sockets, keys, handlers, clients,
starts, processes and faults. The only assumptions are those on the constants, named in
the modules that declare them: the bounds are natural numbers, `NoThread` is no thread,
and about keys (`InjectionAssumption`) that a side of a modifier is no code of its own
and that the debug loop's `CodeOrder` has every code, as the code's loop from 0 to 0xFF
does. Each invariant below was checked by TLC with the constants of a run before it was
proved.

`NetworkClientProofs`:

- `TypeCorrect`: `TypeOK`. The invariant `TInv` adds that `typed` is a key event
  wherever the GUI thread sends or queues it, which the type of the queue needs.
- `ReconnectExclusive`: `ReconnectIsExclusive`. By itself it is not inductive: a
  thread's `kind` decides whether it counts, so `RInv` adds at which labels a thread
  of each kind can be.
- `QuietCorrect`: `GuiQuietDuringReconnect`. The step from "status" needs `Pumping`,
  and the GUI thread cannot start a key afterwards because the flag is set: this uses
  `ReconnectExclusive`.
- `QueueHasResender`: `NoOrphanedQueue`. A thread that loses the exchange leaves
  another one that holds the flag; one that ends leaves an empty queue.
- `DrainExclusive`: the action property `DrainIsExclusive`, from mutual exclusion
  by `queueMutex` (`MInv`). Only the end of the process is excepted.

`ClientDeliveryProofs`, about the way of a key from `sendKeyPress` to a handler:

- `ClientIsKeyChannel`: `ImplementsKeyChannel`, the refinement. `PlacesInv` says that an
  event is in one place only, once: in hand, in the queue or on one connection, and that
  nothing on a connection is younger than the event in hand. Without it, `Deliver` of
  `KeyChannel` could not be shown to take its event away. With it, each action is one of
  five kinds: it types an event, moves one (`Resend`, `GuiSend`, `GuiEnqueue`: a stutter
  or a loss), delivers one, loses some, or concerns no event.
- `KeysInjectedOnce`: no event is injected twice. `KeyChannelProofs` proves it of the
  channel (`ChannelInjectsOnce`), and the refinement carries it over.
- `OneKeyAtATime`: `OneOutstanding`, and `AckIsForTheKey`: `VerifiedAckGenuine`, with
  queueing off. The invariant `AInv` follows a connection from the handshake on: what it
  can carry before it is verified (`SignatureInv`), that what was verified can only be
  closed (`TrustInv`), and that afterwards one key or its answer is on it, and nothing
  when the GUI thread does not wait for it (`AnswerInv`). `BlockingInv` is needed because
  a socket is made blocking before its signature is read, by whichever thread that is;
  `IdleInv` because handlers still read from connections that the client has closed.

`KeyTranslationProofs`:

- `MirrorsKeyboard`: `ServerMirrorsKeyboard`, and `UpsMatch`: `UpMatchesDown`, for any
  number of messages the GUI thread is behind and both sides of a modifier together or
  not. Both properties are about debug mode off and about followed keys, those in neither
  `missed` nor `late`. The inductive invariant `Inv` compares the client's keyboard with
  `After`, the server's once the event of the current connection is injected, through the
  messages that wait for a key's code (`Waiting`). For an ordinary key (`PlainOk`) they
  alternate but for repeats, the last one says how the key is, and a first one that is a
  key-up finds the key down on the server. For a modifier (`SidedOk`) they are shared by
  two keys, so what can be said is less and is said of the pair: key-downs wait only for a
  key that is still down, and behind all key-ups; while one is down on the server the
  mapping leads to it. A key-up of a modifier is the only one to wait (`UpsOk`). What
  handlers of other clients and old connections still have to inject is about keys that
  are not followed (`OldEvents`). `Posted` and `Taken` say what a message more or less
  does to the places of the others, `PlainMoved`, `SidedMoved` and `UpsMoved` that nothing
  else matters to a key; `QuietStep` does the steps that tell the keyboard nothing new,
  `Injection` those of a handler, `SendEffect` what `sendKeyPress` does to `After`. For keys
  in `late` the code is wrong: `keys_late`.
- `TranslationTypeCorrect`: `TypeOK`, in debug mode too.

`KeyInjectionProofs` holds lemmas about the handlers that hold wherever a module extends
`KeyInjection`. `HandlersInv` is preserved by each step of `handleClient`, if events are
given to idle handlers only: a debug loop at its i-th code has left none of the earlier
ones down, except what was pressed since it began (`ReleasedInv`). `KeyTranslationProofs` and `DesktopProofs` cite them.

`DesktopProofs`: `DesktopTypeCorrect` (`TypeOK`), `HiddenWindowOpens` (`HiddenHasIcon`),
`MarkIsRight` (`MarkTellsNextStart`), `SettingsSurvive` (`StartsAsLeft`) and
`LoopUnsticks` (`NothingStuckInDebug`), from one invariant, `DesktopInv`. Its part
`FileInv` follows one setting through memory (`MemoryInv`), menu and file (`MarkInv`) and
the other through console and file (`ConsoleInv`), with and without a process and at
every step of a command: between the two steps of one, the file and what the user sees
are opposites, and they stay so, in `cut`, if the process ends there. `ProcessInv` ends
window and icon with the process.

`NetworkServerProofs`:

- `ServerTypeCorrect`: `TypeOK`. That `winsock` stays in its range needs a count: at most
  one `WSAStartup` for each start that got beyond it, and WinMain's (`WinsockCount`).
- `RepliesInOrder`: `RepliesFollowProtocol`. An accept loop owns the connection it has
  accepted until it detaches the handler (`LoopOwnsAccepted`), two loops never own the
  same one, although both may wait on one socket (`LoopsApart`), and each place of a
  handler fixes how many answers were given (`Dialogue`).
- `UpIsListening`: `UpMeansListening`. `OneAtATime` says that without an overlap there is
  one start, or one shutdown, at a time, that `serverRunning` is FALSE from the beginning of
  a start until that start raises it, with a socket that listens by then, and that a
  shutdown lowers it before it touches the socket. With an overlap
  the code is wrong: `server_overlap`.

`StartupProofs`:

- `InstancesExclude`: `OneActive`. A process between `isAlreadyRunning` and the release
  of its mutex is an owner, and guarded unless it is in `unguarded`. A guarded owner
  holds a handle, and a process becomes one only when there is no handle, so there is one
  guarded owner at a time. Any number of unguarded ones may run beside it.
- `StartupTypeCorrect`: `TypeOK`.
- `ClientsHaveAddress`: `ClientHasAddress`. As long as every process is guarded and the
  file is not torn (`AddressInv`), `AddressOk` follows the settings from the dialog
  through the six writes (`AddressKnown`): a file that says Client has no address only
  between the first two of them, and then its writer is the only owner
  (`InstancesExclude`), so nobody reads it. A writer that ends there tears the file
  (`EndAddress`), until a process finds that it was deleted.

Model-checked only: the liveness properties `ReconnectEnds`, `AckComes` and `Greeted`,
since the prover treats neither fairness nor `ENABLED`. The four violations are TLC's too.

## Abstractions

- A key event is a number in the order of typing in `NetworkClient` and a code in
  `KeyInjection`; texts, addresses and what is logged are left out. Key messages
  arrive whole.
- Every key that is not a modifier has a scan code of its own. In the code the arrow
  keys and others are injected as their twins of the numeric pad, since only three codes
  get `KEYEVENTF_EXTENDEDKEY` (`SendInput.cpp:78`). Mouse buttons, which the debug loop
  tests too, and the server's own keyboard are left out.
- `recv` and what a handler does before `SendInput` are one step, `SendInput` and the
  answer another. Which window is in front on the server is not modelled: nothing keeps
  the simulator there between `BringWindowToForegroundByClassName` and `SendInput`, so
  no property about it holds. `KeyTranslation` drops keys that find no connection, as the
  code does with `UseQueing` off; the queue is in `NetworkClient`.
- Queueing a key (`GuiEnqueue`) is one step with the creation of the thread that
  resends it (`NetworkClient.cpp:254-264`). Another thread may take the key before, but
  it can do so afterwards as well, and the new one then finds an empty queue.
- `WinMain` up to the message loop is three steps of `Desktop`: `Start` reads the
  settings and opens the console, `KeepVisibility` writes that it is shown, `ShowWindow`
  shows the window. That the server's window is seen for a moment before it is hidden is
  left out; the reset of
  settings, which writes the file anew, is in `Startup`.
- Sleeps, timeouts and message boxes are steps that may be delayed at will.
- Socket options, `getsockopt` and the second read of `g_persistentSocket` before
  `verifyServerSignature` are one step (`SelectReady`), as are `connect` to `FD_SET`
  (`Connect`). `so_error` without a value is covered by both outcomes of `select`.
- A socket that was overwritten before it was connected is never closed by the code;
  its slot counts as free. A power loss of the peer without a reset is not modelled.
- Static destructors, which run after `WinMain` under threads that are still there, are
  left out; so is the mutex of the instances, which is in `Startup`.
- On the server, `SendMessage` never blocks and `inet_ntop` does not fail; a handler
  that ends leaves its socket open, as the code does.
- Windows may give a new socket the handle value of a closed one; `NetworkServer` gives
  every accepted connection its own number, so a use of a stale handle is seen as such and
  never as a use of the socket that took its value.
- The server's exit by the parent monitor is `ParentExits` in `NetworkServer`; in `Startup`
  it is the same step as any other `Quit`.
- Failures of `WSAStartup`, `CreateWindow` and the like, which end the process at
  once, are left out.

## Plan

1. Show that `NetworkServer` implements the server's side of `KeyLink`: one connection's
   handler, replies and injections against `Accept`, `HandleKey` and `HandlerExits`.
2. Compose `Startup` with `NetworkServer` for the port that an old instance still holds.
3. With queueing on, bound what `VerifiedAckGenuine` loses: which acknowledgment a late
   answer can be taken for.
