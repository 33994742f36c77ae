------------------------------- MODULE Startup -------------------------------
(***************************************************************************)
(* The processes of the program on one computer: the named mutex that      *)
(* refuses a second instance, the settings file SendFSKey.ini, the dialog  *)
(* that fills it, and Reset Settings, which deletes it and relaunches the  *)
(* program.  What an instance does while it runs is the subject of         *)
(* NetworkClient and NetworkServer.                                        *)
(*                                                                         *)
(* A named mutex exists while some process has a handle to it.  An address *)
(* is "entered" once the dialog accepted it; what the file does not have   *)
(* is read as the empty string, "empty" here.                              *)
(***************************************************************************)
EXTENDS Naturals, Sequences

CONSTANTS Procs,     \* processes, each started once: a bound
          MaxFaults  \* bound: crashes and failed calls

ASSUME StartupAssumption == MaxFaults \in Nat

VARIABLES
  handles,       \* processes with a handle to SendFSKeyMutex
  ini,           \* the settings file
  pc,            \* where each process is
  back,          \* where a process goes on after a reset that fails
  mode,          \* what the user chose in the dialog
  step,          \* settings written to the file, two rounds of WriteSettingsToIniFile
  isClientMode,
  serverIPconf,
  active,        \* processes whose server or connection is not closed
  unguarded,     \* processes that went on without the mutex, or after a failed
                 \* relaunch, which gave it up (history)
  torn,          \* the address did not get into the file that has the mode (history)
  faults         \* what has used up MaxFaults so far

choiceVars == <<mode, step, isClientMode, serverIPconf>>
historyVars == <<unguarded, torn>>
vars == <<handles, ini, pc, back, choiceVars, active, historyVars, faults>>

Modes == {"Client", "Server", "other"}   \* the combo box can be typed into

\* WriteSettingsToIniFile is called by the dialog and again by WinMain.
Writes == <<"Mode", "IP", "options", "Mode", "IP", "options">>

NoFile == [exists |-> FALSE, Mode |-> "empty", IP |-> "empty"]

TypeOK ==
  /\ handles \subseteq Procs /\ active \subseteq Procs
  /\ ini \in [exists : BOOLEAN, Mode : Modes \cup {"empty"}, IP : {"empty", "entered"}]
  /\ pc \in [Procs -> {"none", "mutex", "refused", "ini", "dialog", "write", "chosen", "mode",
                       "ip", "invalid", "start", "running", "delete", "restart", "release",
                       "relaunch", "exiting", "ended"}]
  /\ back \in [Procs -> {"start", "running"}]
  /\ mode \in [Procs -> Modes] /\ step \in [Procs -> 1..Len(Writes)]
  /\ isClientMode \in [Procs -> BOOLEAN]
  /\ serverIPconf \in [Procs -> {"0.0.0.0", "empty", "entered"}]
  /\ unguarded \subseteq Procs /\ torn \in BOOLEAN /\ faults \in 0..MaxFaults

\* The first process has been started, on a computer where the program has not been used yet.
Init ==
  /\ handles = {} /\ active = {}
  /\ ini = NoFile
  /\ \E first \in Procs : pc = [p \in Procs |-> IF p = first THEN "mutex" ELSE "none"]
  /\ back = [p \in Procs |-> "start"]
  /\ mode = [p \in Procs |-> "Server"]
  /\ step = [p \in Procs |-> 1]
  /\ isClientMode = [p \in Procs |-> FALSE]
  /\ serverIPconf = [p \in Procs |-> "0.0.0.0"]
  /\ unguarded = {} /\ torn = FALSE /\ faults = 0

-----------------------------------------------------------------------------

At(p, from, to) == pc[p] = from /\ pc' = [pc EXCEPT ![p] = to]

Fault == faults < MaxFaults /\ faults' = faults + 1

\* The user starts a process.
Start ==
  /\ \E q \in Procs : At(q, "none", "mutex")
  /\ UNCHANGED <<handles, ini, back, choiceVars, active, historyVars, faults>>

-----------------------------------------------------------------------------
(* isAlreadyRunning.                                                       *)

CreateMutex(p) ==
  /\ At(p, "mutex", IF handles = {} THEN "ini" ELSE "refused")
  /\ handles' = handles \cup {p}
  /\ UNCHANGED <<ini, back, choiceVars, active, historyVars, faults>>

\* CreateMutex returns NULL, because an elevated process has the mutex for one:
\* that counts as not running.
CreateMutexFails(p) ==
  /\ At(p, "mutex", "ini")
  /\ unguarded' = unguarded \cup {p}
  /\ Fault
  /\ UNCHANGED <<handles, ini, back, choiceVars, active, torn>>

\* "SendFSKey is already running": the handle is closed, the process ends.
Refuse(p) ==
  /\ At(p, "refused", "exiting")
  /\ handles' = handles \ {p}
  /\ UNCHANGED <<ini, back, choiceVars, active, historyVars, faults>>

-----------------------------------------------------------------------------
(* WinMain without a settings file: the dialog, and the file written.      *)

CheckIni(p) ==
  /\ At(p, "ini", IF ini.exists THEN "mode" ELSE "dialog")
  /\ torn' = (torn /\ ini.exists)
  /\ UNCHANGED <<handles, ini, back, choiceVars, active, unguarded, faults>>

\* OK with an invalid address keeps the dialog open.
DialogOk(p) ==
  /\ At(p, "dialog", "write")
  /\ \E m \in Modes :
       /\ mode' = [mode EXCEPT ![p] = m]
       /\ serverIPconf' = [serverIPconf EXCEPT ![p] = IF m = "Client" THEN "entered" ELSE @]
  /\ UNCHANGED <<handles, ini, back, step, isClientMode, active, historyVars, faults>>

DialogCancel(p) ==
  /\ At(p, "dialog", "exiting")
  /\ UNCHANGED <<handles, ini, back, choiceVars, active, historyVars, faults>>

\* Mutant: the address is written for a server.
StoredForServer(key, p) ==
  CASE key = "Mode"                     -> [ini EXCEPT !.exists = TRUE, !.Mode = mode[p]]
    [] key = "IP" /\ mode[p] = "Server" -> [ini EXCEPT !.exists = TRUE, !.IP = serverIPconf[p]]
    [] key = "IP" /\ mode[p] # "Server" -> ini
    [] key = "options"                  -> [ini EXCEPT !.exists = TRUE]

\* The file once a setting is written; the address is written for a client.
Stored(key, p) ==
  CASE key = "Mode"                     -> [ini EXCEPT !.exists = TRUE, !.Mode = mode[p]]
    [] key = "IP" /\ mode[p] = "Client" -> [ini EXCEPT !.exists = TRUE, !.IP = serverIPconf[p]]
    [] key = "IP" /\ mode[p] # "Client" -> ini
    [] key = "options"                  -> [ini EXCEPT !.exists = TRUE]

NextWrite(p) ==
  IF step[p] < Len(Writes)
    THEN step' = [step EXCEPT ![p] = @ + 1] /\ At(p, "write", "write")
    ELSE UNCHANGED step /\ At(p, "write", "chosen")

WriteSetting(p) ==
  /\ NextWrite(p)
  /\ ini' = Stored(Writes[step[p]], p)
  /\ UNCHANGED <<handles, back, mode, isClientMode, serverIPconf, active, historyVars, faults>>

\* A write that fails is not reported.
WriteFails(p) ==
  /\ NextWrite(p)
  /\ Fault
  /\ torn' = (torn \/ Writes[step[p]] = "IP")
  /\ UNCHANGED <<handles, ini, back, mode, isClientMode, serverIPconf, active, unguarded>>

\* An invalid mode ends the process, and stays in the file.
UseChoice(p) ==
  /\ At(p, "chosen", IF mode[p] = "other" THEN "exiting" ELSE "start")
  /\ isClientMode' = [isClientMode EXCEPT ![p] = mode[p] = "Client"]
  /\ UNCHANGED <<handles, ini, back, mode, step, serverIPconf, active, historyVars, faults>>

-----------------------------------------------------------------------------
(* WinMain with a settings file.                                           *)

ReadMode(p) ==
  /\ At(p, "mode", CASE ini.Mode = "Client" -> "ip"
                     [] ini.Mode = "Server" -> "start"
                     [] OTHER               -> "invalid")
  /\ isClientMode' = [isClientMode EXCEPT ![p] = ini.Mode = "Client"]
  /\ UNCHANGED <<handles, ini, back, mode, step, serverIPconf, active, historyVars, faults>>

ReadIP(p) ==
  /\ At(p, "ip", "start")
  /\ serverIPconf' = [serverIPconf EXCEPT ![p] = ini.IP]
  /\ UNCHANGED <<handles, ini, back, mode, step, isClientMode, active, historyVars, faults>>

\* "Will quit now", but declining the reset goes on: isClientMode was never set.
DeclineReset(p) ==
  /\ At(p, "invalid", "start")
  /\ UNCHANGED <<handles, ini, back, choiceVars, active, historyVars, faults>>

\* The server, or the client's connection, is started, and then the window.
Run(p) ==
  /\ At(p, "start", "running")
  /\ active' = active \cup {p}
  /\ UNCHANGED <<handles, ini, back, choiceVars, historyVars, faults>>

-----------------------------------------------------------------------------
(* A running instance.                                                     *)

\* A menu command writes its option, into a new file if there is none.
SaveOption(p) ==
  /\ pc[p] = "running"
  /\ ini' = [ini EXCEPT !.exists = TRUE]
  /\ UNCHANGED <<handles, pc, back, choiceVars, active, historyVars, faults>>

\* The menu command Start after a relaunch that failed; a client's Connect would
\* fail, because Winsock is shut down.
StartAgain(p) ==
  /\ pc[p] = "running" /\ ~isClientMode[p]
  /\ p \notin active
  /\ active' = active \cup {p}
  /\ UNCHANGED <<handles, ini, pc, back, choiceVars, historyVars, faults>>

\* The window is closed: the server or the connection is, and WinMain returns.
Quit(p) ==
  /\ At(p, "running", "exiting")
  /\ active' = active \ {p}
  /\ UNCHANGED <<handles, ini, back, choiceVars, historyVars, faults>>

-----------------------------------------------------------------------------
(* DeleteIniFileAndRestart and RestartApplication.                         *)

ConfirmReset(p, from) ==
  /\ At(p, from, "delete")
  /\ back' = [back EXCEPT ![p] = IF from = "running" THEN "running" ELSE "start"]
  /\ UNCHANGED <<handles, ini, choiceVars, active, historyVars, faults>>

DeleteIni(p) ==
  /\ At(p, "delete", "restart")
  /\ ini' = NoFile
  /\ UNCHANGED <<handles, back, choiceVars, active, historyVars, faults>>

DeleteFails(p) ==
  /\ ini.exists
  /\ Fault
  /\ At(p, "delete", back[p])
  /\ UNCHANGED <<handles, ini, back, choiceVars, active, historyVars>>

\* Mutant: the server or the connection is left open.
KeepServing(p) ==
  /\ p \in handles
  /\ At(p, "restart", "release")
  /\ UNCHANGED <<handles, ini, back, choiceVars, active, historyVars, faults>>

Cleanup(p) ==
  /\ p \in handles
  /\ At(p, "restart", "release")
  /\ active' = active \ {p}
  /\ UNCHANGED <<handles, ini, back, choiceVars, historyVars, faults>>

\* mutexHandle is NULL if isAlreadyRunning got no mutex, and after a relaunch that
\* failed for want of a path: nothing is closed.
SkipCleanup(p) ==
  /\ p \notin handles
  /\ At(p, "restart", "relaunch")
  /\ UNCHANGED <<handles, ini, back, choiceVars, active, historyVars, faults>>

ReleaseMutex(p) ==
  /\ At(p, "release", "relaunch")
  /\ handles' = handles \ {p}
  /\ UNCHANGED <<ini, back, choiceVars, active, historyVars, faults>>

Relaunch(p) ==
  /\ pc[p] = "relaunch"
  /\ \E q \in Procs : pc[q] = "none" /\ pc' = [pc EXCEPT ![p] = "exiting", ![q] = "mutex"]
  /\ UNCHANGED <<handles, ini, back, choiceVars, active, historyVars, faults>>

\* The instance goes on: with a handle to the mutex, which may be another's by
\* now, or with none when the path of the program is unknown.
RelaunchFails(p) ==
  /\ At(p, "relaunch", back[p])
  /\ handles' \in {handles, handles \cup {p}}
  /\ unguarded' = unguarded \cup {p}
  /\ Fault
  /\ UNCHANGED <<ini, back, choiceVars, active, torn>>

-----------------------------------------------------------------------------

\* The process ends, and its memory, its handle and its sockets with it.
End(p) ==
  /\ pc' = [pc EXCEPT ![p] = "ended"]
  /\ handles' = handles \ {p} /\ active' = active \ {p}
  /\ back' = [back EXCEPT ![p] = "start"]
  /\ mode' = [mode EXCEPT ![p] = "Server"] /\ step' = [step EXCEPT ![p] = 1]
  /\ isClientMode' = [isClientMode EXCEPT ![p] = FALSE]
  /\ serverIPconf' = [serverIPconf EXCEPT ![p] = "0.0.0.0"]
  /\ UNCHANGED <<ini, unguarded>>

Exit(p) == pc[p] = "exiting" /\ End(p) /\ UNCHANGED <<torn, faults>>

\* The process is killed, perhaps between the mode and the address.
Crash(p) ==
  /\ pc[p] \notin {"none", "ended"}
  /\ End(p)
  /\ Fault
  /\ torn' = (torn \/ (pc[p] = "write" /\ step[p] = 2))

WinMain(p) ==
  \/ CreateMutex(p) \/ CreateMutexFails(p) \/ Refuse(p) \/ CheckIni(p)
  \/ DialogOk(p) \/ DialogCancel(p) \/ WriteSetting(p) \/ WriteFails(p) \/ UseChoice(p)
  \/ ReadMode(p) \/ ReadIP(p) \/ DeclineReset(p) \/ Run(p) \/ Exit(p)

Running(p) == SaveOption(p) \/ StartAgain(p) \/ Quit(p)

Reset(p) ==
  \/ ConfirmReset(p, "running") \/ ConfirmReset(p, "invalid")
  \/ DeleteIni(p) \/ DeleteFails(p) \/ Cleanup(p) \/ SkipCleanup(p)
  \/ ReleaseMutex(p) \/ Relaunch(p) \/ RelaunchFails(p)

Next == Start \/ \E p \in Procs : WinMain(p) \/ Running(p) \/ Reset(p) \/ Crash(p)

Spec == Init /\ [][Next]_vars

-----------------------------------------------------------------------------

\* "SendFSKey is already running": two instances that hold the mutex they were
\* started with are never active together, whoever else starts, crashes, is reset or
\* relaunched meanwhile.  An instance that got no mutex, or gave it up for a relaunch
\* that failed, protects neither itself nor the others against it.
OneActive == \A p, q \in active \ unguarded : p = q

\* An instance that runs as a client has an address that the dialog accepted, here
\* or in an earlier process, whatever crashed or failed in between, unless the write
\* of the address itself failed or a kill fell between mode and address, or an
\* instance that was not alone may have read or deleted the file.
ClientHasAddress ==
  unguarded = {} /\ ~torn =>
    \A p \in active : isClientMode[p] => serverIPconf[p] = "entered"
=============================================================================
