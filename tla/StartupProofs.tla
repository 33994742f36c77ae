----------------------------- MODULE StartupProofs -----------------------------
(***************************************************************************)
(* Any number of processes, crashes and resets: instances exclude each     *)
(* other.  A process between isAlreadyRunning and the release of its mutex *)
(* is an owner; an owner that got the mutex, and has not given it up for a *)
(* relaunch that failed, holds a handle, so a second one is refused.       *)
(***************************************************************************)
EXTENDS Startup, TLAPS

OwnerLabels == {"ini", "dialog", "write", "chosen", "mode", "ip", "invalid", "start",
                "running", "delete", "restart", "release"}
ActiveLabels == {"start", "running", "delete", "restart"}
OtherLabels == {"none", "mutex", "refused", "relaunch", "exiting", "ended"}

Owner(p) == pc[p] \in OwnerLabels

ControlOk ==
  /\ handles \subseteq Procs /\ active \subseteq Procs
  /\ pc \in [Procs -> OwnerLabels \cup OtherLabels]
  /\ back \in [Procs -> {"start", "running"}]
  /\ unguarded \subseteq Procs

Guarded(p) == Owner(p) /\ p \notin unguarded

Exclusion ==
  /\ \A p \in Procs : Guarded(p) => p \in handles
  /\ \A p, q \in Procs : Guarded(p) /\ Guarded(q) => p = q
  /\ \A p \in active \ unguarded : pc[p] \in ActiveLabels

Inv == ControlOk /\ Exclusion

\* Process p moves on, and touches no other's handle: unless it is unguarded, it
\* becomes no owner, an owner keeps its handle, and it is inactive outside the
\* labels of an active process.
LEMMA MoveInv ==
  ASSUME Inv, NEW p \in Procs, NEW to \in OwnerLabels \cup OtherLabels,
         pc' = [pc EXCEPT ![p] = to],
         back' \in [Procs -> {"start", "running"}],
         unguarded' \in {unguarded, unguarded \cup {p}},
         handles' \in {handles, handles \ {p}, handles \cup {p}}, active' \in {active, active \ {p}},
         p \notin unguarded' =>
           /\ to \in OwnerLabels => Owner(p) /\ handles \subseteq handles'
           /\ p \in active' /\ pc[p] \in ActiveLabels => to \in ActiveLabels
  PROVE  Inv'
<1>1. ControlOk'
  BY DEF Inv, ControlOk
<1>2. \A q \in Procs : pc'[q] = IF q = p THEN to ELSE pc[q]
  BY DEF Inv, ControlOk
<1>3. \A q \in Procs : q \notin unguarded' => q \notin unguarded
  OBVIOUS
<1>4. ASSUME NEW q \in Procs, Guarded(q)' PROVE Guarded(q)
  <2>1. pc'[q] \in OwnerLabels /\ q \notin unguarded' /\ q \notin unguarded
    BY <1>3, <1>4 DEF Owner, Guarded
  <2>2. CASE q = p
    BY <1>2, <2>1, <2>2 DEF Guarded
  <2>3. CASE q # p
    BY <1>2, <2>1, <2>3 DEF Owner, Guarded
  <2> QED
    BY <2>2, <2>3
<1>5. ASSUME NEW q \in Procs, Guarded(q)' PROVE q \in handles'
  <2>1. q \in handles
    BY <1>4, <1>5 DEF Inv, Exclusion
  <2>2. pc'[q] \in OwnerLabels /\ q \notin unguarded'
    BY <1>5 DEF Owner, Guarded
  <2>3. CASE q = p
    BY <1>2, <2>1, <2>2, <2>3
  <2>4. CASE q # p
    BY <2>1, <2>4
  <2> QED
    BY <2>3, <2>4
<1>6. \A q, r \in Procs : Guarded(q)' /\ Guarded(r)' => q = r
  BY <1>4 DEF Inv, Exclusion
<1>7. ASSUME NEW q \in active' \ unguarded' PROVE pc'[q] \in ActiveLabels
  <2>1. q \in Procs /\ q \in active \ unguarded /\ pc[q] \in ActiveLabels
    BY <1>3, <1>7 DEF Exclusion, Inv, ControlOk
  <2>2. CASE q = p
    BY <1>2, <1>7, <2>1, <2>2
  <2>3. CASE q # p
    BY <1>2, <2>1, <2>3
  <2> QED
    BY <2>2, <2>3
<1> QED
  BY <1>1, <1>5, <1>6, <1>7 DEF Inv, Exclusion

\* Nothing the invariant speaks of changes.
LEMMA SameInv ==
  ASSUME Inv, UNCHANGED <<handles, pc, back, active, unguarded>>
  PROVE  Inv'
  BY DEF Inv, ControlOk, Exclusion, Owner, Guarded

\* A process that has not yet tried the mutex is added.
LEMMA StartInv == ASSUME Inv, Start PROVE Inv'
<1>1. PICK q \in Procs : pc' = [pc EXCEPT ![q] = "mutex"] /\ pc[q] = "none"
  BY DEF Start, At
<1> QED
  BY <1>1, MoveInv DEF Start, Inv, ControlOk, OtherLabels, OwnerLabels, ActiveLabels, historyVars

LEMMA WinMainInv == ASSUME Inv, NEW p \in Procs, WinMain(p) PROVE Inv'
<1> USE DEF OwnerLabels, OtherLabels, ActiveLabels, Owner, Guarded, At, historyVars
<1>1. CASE CreateMutex(p)
  <2>1. CASE handles # {}
    <3>1. pc[p] = "mutex" /\ pc' = [pc EXCEPT ![p] = "refused"]
      BY <1>1, <2>1 DEF CreateMutex
    <3>2. handles' = handles \cup {p} /\ UNCHANGED <<back, active, unguarded>>
      BY <1>1 DEF CreateMutex
    <3> QED
      BY <3>1, <3>2, MoveInv DEF Inv, ControlOk
  <2>2. CASE handles = {}
    <3>1. pc[p] = "mutex" /\ pc' = [pc EXCEPT ![p] = "ini"]
      BY <1>1, <2>2 DEF CreateMutex
    <3>2. handles' = {p} /\ UNCHANGED <<back, active, unguarded>>
      BY <1>1, <2>2 DEF CreateMutex
    <3> QED
      BY <2>2, <3>1, <3>2 DEF Inv, ControlOk, Exclusion
  <2> QED
    BY <2>1, <2>2
<1>13. CASE CreateMutexFails(p)
  BY <1>13, MoveInv DEF CreateMutexFails, Inv, ControlOk
<1>2. CASE Refuse(p)
  BY <1>2, MoveInv DEF Refuse, Inv, ControlOk
<1>3. CASE CheckIni(p)
  BY <1>3, MoveInv DEF CheckIni, Inv, ControlOk
<1>4. CASE DialogOk(p)
  BY <1>4, MoveInv DEF DialogOk, Inv, ControlOk
<1>5. CASE DialogCancel(p)
  BY <1>5, MoveInv DEF DialogCancel, Inv, ControlOk
<1>6. CASE WriteSetting(p) \/ WriteFails(p)
  <2>1. PICK to \in {"write", "chosen"} : At(p, "write", to)
    BY <1>6 DEF WriteSetting, WriteFails, NextWrite
  <2>2. UNCHANGED <<handles, back, active, unguarded>>
    BY <1>6 DEF WriteSetting, WriteFails
  <2> QED
    BY <2>1, <2>2, MoveInv DEF Inv, ControlOk
<1>7. CASE UseChoice(p)
  BY <1>7, MoveInv DEF UseChoice, Inv, ControlOk
<1>8. CASE ReadMode(p)
  <2>1. PICK to \in {"ip", "start", "invalid"} : At(p, "mode", to)
    BY <1>8 DEF ReadMode
  <2>2. UNCHANGED <<handles, back, active, unguarded>>
    BY <1>8 DEF ReadMode
  <2> QED
    BY <2>1, <2>2, MoveInv DEF Inv, ControlOk
<1>9. CASE ReadIP(p)
  BY <1>9, MoveInv DEF ReadIP, Inv, ControlOk
<1>10. CASE DeclineReset(p)
  BY <1>10, MoveInv DEF DeclineReset, Inv, ControlOk
<1>11. CASE Run(p)
  <2>1. pc[p] = "start" /\ pc' = [pc EXCEPT ![p] = "running"]
    BY <1>11 DEF Run
  <2>2. active' = active \cup {p} /\ UNCHANGED <<handles, back, unguarded>>
    BY <1>11 DEF Run
  <2> QED
    BY <2>1, <2>2 DEF Inv, ControlOk, Exclusion
<1>12. CASE Exit(p)
  BY <1>12, MoveInv DEF Exit, End, Inv, ControlOk
<1> QED
  BY <1>1, <1>2, <1>3, <1>4, <1>5, <1>6, <1>7, <1>8, <1>9, <1>10, <1>11, <1>12, <1>13 DEF WinMain

LEMMA RunningInv == ASSUME Inv, NEW p \in Procs, Running(p) PROVE Inv'
<1> USE DEF OwnerLabels, OtherLabels, ActiveLabels, Owner, Guarded, At, historyVars
<1>1. CASE SaveOption(p)
  BY <1>1, SameInv DEF SaveOption
<1>2. CASE StartAgain(p)
  <2>1. pc[p] = "running" /\ active' = active \cup {p}
    BY <1>2 DEF StartAgain
  <2>2. UNCHANGED <<handles, pc, back, unguarded>>
    BY <1>2 DEF StartAgain
  <2> QED
    BY <2>1, <2>2 DEF Inv, ControlOk, Exclusion
<1>3. CASE Quit(p)
  BY <1>3, MoveInv DEF Quit, Inv, ControlOk
<1> QED
  BY <1>1, <1>2, <1>3 DEF Running

LEMMA ResetInv == ASSUME Inv, NEW p \in Procs, Reset(p) PROVE Inv'
<1> USE DEF OwnerLabels, OtherLabels, ActiveLabels, Owner, Guarded, At, historyVars
<1>1. ASSUME NEW from \in {"running", "invalid"}, ConfirmReset(p, from) PROVE Inv'
  BY <1>1, MoveInv DEF ConfirmReset, Inv, ControlOk
<1>2. CASE DeleteIni(p)
  BY <1>2, MoveInv DEF DeleteIni, Inv, ControlOk
<1>3. CASE DeleteFails(p)
  <2>1. back[p] \in {"start", "running"}
    BY DEF Inv, ControlOk
  <2> QED
    BY <1>3, <2>1, MoveInv DEF DeleteFails, Inv, ControlOk
<1>4. CASE Cleanup(p)
  BY <1>4, MoveInv DEF Cleanup, Inv, ControlOk
<1>5. CASE SkipCleanup(p)
  <2>1. pc[p] = "restart" /\ pc' = [pc EXCEPT ![p] = "relaunch"] /\ p \notin handles
    BY <1>5 DEF SkipCleanup
  <2>2. p \in unguarded
    BY <2>1 DEF Inv, Exclusion
  <2> QED
    BY <1>5, <2>1, <2>2, MoveInv DEF SkipCleanup, Inv, ControlOk
<1>6. CASE ReleaseMutex(p)
  BY <1>6, MoveInv DEF ReleaseMutex, Inv, ControlOk
<1>7. CASE Relaunch(p)
  <2>1. PICK q \in Procs : pc[q] = "none" /\ pc' = [pc EXCEPT ![p] = "exiting", ![q] = "mutex"]
    BY <1>7 DEF Relaunch
  <2>2. pc[p] = "relaunch" /\ UNCHANGED <<handles, back, active, unguarded>>
    BY <1>7 DEF Relaunch
  <2> QED
    BY <2>1, <2>2 DEF Inv, ControlOk, Exclusion
<1>8. CASE RelaunchFails(p)
  <2>1. back[p] \in {"start", "running"}
    BY DEF Inv, ControlOk
  <2> QED
    BY <1>8, <2>1, MoveInv DEF RelaunchFails, Inv, ControlOk
<1> QED
  BY <1>1, <1>2, <1>3, <1>4, <1>5, <1>6, <1>7, <1>8 DEF Reset

LEMMA CrashInv == ASSUME Inv, NEW p \in Procs, Crash(p) PROVE Inv'
  BY MoveInv DEF Crash, End, Inv, ControlOk, OwnerLabels, OtherLabels, ActiveLabels

LEMMA InvHolds == Spec => []Inv
<1>1. Init => Inv
  <2> SUFFICES ASSUME Init PROVE Inv
    OBVIOUS
  <2>1. \A p \in Procs : pc[p] \in {"mutex", "none"}
    BY DEF Init
  <2>2. ControlOk
    BY DEF Init, ControlOk, OtherLabels
  <2>3. Exclusion
    BY <2>1 DEF Init, Exclusion, Guarded, Owner, OwnerLabels
  <2> QED
    BY <2>2, <2>3 DEF Inv
<1>2. Inv /\ [Next]_vars => Inv'
  <2> SUFFICES ASSUME Inv, [Next]_vars PROVE Inv'
    OBVIOUS
  <2>1. CASE Start
    BY <2>1, StartInv
  <2>2. ASSUME NEW p \in Procs, WinMain(p) \/ Running(p) \/ Reset(p) \/ Crash(p) PROVE Inv'
    BY <2>2, WinMainInv, RunningInv, ResetInv, CrashInv
  <2>3. CASE UNCHANGED vars
    BY <2>3, SameInv DEF vars, historyVars
  <2> QED
    BY <2>1, <2>2, <2>3 DEF Next
<1> QED
  BY <1>1, <1>2, PTL DEF Spec

\* Instances of the program that hold the mutex they were started with exclude each
\* other, for any number of processes, crashes and failed calls, and whatever other
\* instances do that have none: OneActive.
THEOREM InstancesExclude == Spec => []OneActive
<1>1. Inv => OneActive
  <2>1. ActiveLabels \subseteq OwnerLabels
    BY DEF ActiveLabels, OwnerLabels
  <2> QED
    BY <2>1 DEF Inv, ControlOk, Exclusion, Guarded, Owner, OneActive
<1> QED
  BY <1>1, InvHolds, PTL

-----------------------------------------------------------------------------
(* The address of the server.                                              *)

FirstLabels == {"none", "mutex", "refused", "ini", "dialog"}

\* What one process knows: that it writes a file that was not there, that the
\* dialog accepted its address, and that it took a mode from a whole file.
AddressKnown(p) ==
  /\ pc[p] = "dialog" => ini.Mode # "Client"
  /\ pc[p] = "write" /\ ini.Mode = "Client" => mode[p] = "Client"
  /\ pc[p] = "write" /\ step[p] >= 3 /\ mode[p] = "Client" => ini.IP = "entered"
  /\ pc[p] \in {"write", "chosen"} /\ mode[p] = "Client" => serverIPconf[p] = "entered"
  /\ pc[p] \in ActiveLabels /\ isClientMode[p] => serverIPconf[p] = "entered"
  /\ pc[p] = "invalid" => ~isClientMode[p]
  /\ pc[p] = "ip" => ini.Mode = "Client"

\* A file says Client without an address only between the first two writes of
\* the process that writes it.
AddressOk ==
  /\ ini.Mode = "Client" /\ ini.IP # "entered" =>
       \E p \in Procs : pc[p] = "write" /\ step[p] = 2
  /\ \A p \in Procs : AddressKnown(p)

AddressInv == unguarded = {} /\ ~torn => AddressOk

LEMMA SixWrites ==
  /\ Len(Writes) = 6
  /\ Writes[1] = "Mode" /\ Writes[2] = "IP" /\ Writes[3] = "options"
  /\ Writes[4] = "Mode" /\ Writes[5] = "IP" /\ Writes[6] = "options"
BY DEF Writes

IniFiles == [exists : BOOLEAN, Mode : Modes \cup {"empty"}, IP : {"empty", "entered"}]

\* The types of the data; a file that does not exist says no mode, a process that
\* has not written yet begins at the first setting, and the file gets an address
\* only from a dialog that has accepted it.
DataOk ==
  /\ ini \in IniFiles
  /\ ini.exists \/ ini.Mode # "Client"
  /\ mode \in [Procs -> Modes] /\ step \in [Procs -> 1..6]
  /\ isClientMode \in [Procs -> BOOLEAN]
  /\ serverIPconf \in [Procs -> {"0.0.0.0", "empty", "entered"}]
  /\ faults \in 0..MaxFaults
  /\ torn \in BOOLEAN
  /\ \A p \in Procs : pc[p] \in FirstLabels => step[p] = 1
  /\ \A p \in Procs : pc[p] = "write" /\ mode[p] = "Client" => serverIPconf[p] = "entered"

LEMMA StoredType ==
  ASSUME DataOk, NEW p \in Procs, pc[p] = "write", NEW key \in {"Mode", "IP", "options"}
  PROVE  /\ Stored(key, p) \in IniFiles /\ (Stored(key, p).exists \/ Stored(key, p).Mode # "Client")
         /\ Stored(key, p).Mode = IF key = "Mode" THEN mode[p] ELSE ini.Mode
         /\ Stored(key, p).IP = IF key = "IP" /\ mode[p] = "Client" THEN "entered" ELSE ini.IP
<1>1. mode[p] \in Modes /\ (mode[p] = "Client" => serverIPconf[p] = "entered")
  BY DEF DataOk
<1> HIDE DEF Modes
<1>2. CASE key = "Mode"
  BY <1>1, <1>2 DEF DataOk, Stored, IniFiles
<1>3. CASE key = "IP" /\ mode[p] = "Client"
  BY <1>1, <1>3 DEF DataOk, Stored, IniFiles
<1>4. CASE key = "IP" /\ mode[p] # "Client"
  BY <1>4 DEF DataOk, Stored, IniFiles
<1>5. CASE key = "options"
  BY <1>5 DEF DataOk, Stored, IniFiles
<1> QED
  BY <1>2, <1>3, <1>4, <1>5

LEMMA FaultType == ASSUME DataOk, Fault PROVE faults' \in 0..MaxFaults
<1>1. faults \in 0..MaxFaults
  BY DEF DataOk
<1> QED
  BY <1>1, StartupAssumption DEF Fault

\* Steps that change neither the choices nor, beyond its type, the file.
LEMMA DataFrame ==
  ASSUME DataOk, UNCHANGED choiceVars, ini' \in IniFiles, ini'.exists \/ ini'.Mode # "Client",
         faults' \in 0..MaxFaults, torn' \in BOOLEAN,
         \A p \in Procs : /\ pc'[p] = "write" => pc[p] = "write"
                          /\ pc'[p] \in FirstLabels => pc[p] \in FirstLabels
  PROVE  DataOk'
<1>1. UNCHANGED <<mode, step, isClientMode, serverIPconf>>
  BY DEF choiceVars
<1>2. \A p \in Procs : pc'[p] \in FirstLabels => step'[p] = 1
  BY <1>1 DEF DataOk
<1>3. \A p \in Procs : pc'[p] = "write" /\ mode'[p] = "Client" => serverIPconf'[p] = "entered"
  BY <1>1 DEF DataOk
<1> QED
  BY <1>1, <1>2, <1>3 DEF DataOk

LEMMA EndData ==
  ASSUME ControlOk, DataOk, NEW p \in Procs, End(p), faults' \in 0..MaxFaults,
         torn' \in BOOLEAN
  PROVE  DataOk'
<1>1. /\ mode' = [mode EXCEPT ![p] = "Server"] /\ step' = [step EXCEPT ![p] = 1]
      /\ isClientMode' = [isClientMode EXCEPT ![p] = FALSE]
      /\ serverIPconf' = [serverIPconf EXCEPT ![p] = "0.0.0.0"]
      /\ pc' = [pc EXCEPT ![p] = "ended"] /\ ini' = ini
  BY DEF End
<1>2. mode' \in [Procs -> Modes] /\ step' \in [Procs -> 1..6]
  <2>1. "Server" \in Modes /\ mode \in [Procs -> Modes]
    BY DEF DataOk, Modes
  <2>2. step \in [Procs -> 1..6]
    BY DEF DataOk
  <2>3. 1 \in 1..6
    OBVIOUS
  <2> QED
    BY <1>1, <2>1, <2>2, <2>3
<1>3. isClientMode' \in [Procs -> BOOLEAN] /\ serverIPconf' \in [Procs -> {"0.0.0.0", "empty", "entered"}]
  BY <1>1 DEF DataOk
<1>4. ASSUME NEW q \in Procs
      PROVE  /\ pc'[q] \in FirstLabels => step'[q] = 1
             /\ pc'[q] = "write" /\ mode'[q] = "Client" => serverIPconf'[q] = "entered"
  <2>1. CASE q = p
    BY <1>1, <2>1 DEF DataOk, ControlOk, FirstLabels
  <2>2. CASE q # p
    BY <1>1, <2>2 DEF DataOk, ControlOk
  <2> QED
    BY <2>1, <2>2
<1> QED
  BY <1>1, <1>2, <1>3, <1>4 DEF DataOk

LEMMA WinMainData == ASSUME ControlOk, DataOk, NEW p \in Procs, WinMain(p) PROVE DataOk'
<1> USE DEF At, historyVars
<1>1. CASE \/ CreateMutex(p) \/ CreateMutexFails(p) \/ Refuse(p) \/ CheckIni(p) \/ DialogCancel(p)
           \/ DeclineReset(p) \/ Run(p)
  <2>1. UNCHANGED <<choiceVars, ini>>
    BY <1>1 DEF CreateMutex, CreateMutexFails, Refuse, CheckIni, DialogCancel, DeclineReset, Run
  <2>2. \A q \in Procs : /\ pc'[q] = "write" => pc[q] = "write"
                         /\ pc'[q] \in FirstLabels => pc[q] \in FirstLabels
    BY <1>1 DEF ControlOk, CreateMutex, CreateMutexFails, Refuse, CheckIni, DialogCancel, DeclineReset,
       Run, FirstLabels
  <2>3. faults' \in 0..MaxFaults
    BY <1>1, FaultType DEF DataOk, CreateMutex, CreateMutexFails, Refuse, CheckIni, DialogCancel,
       DeclineReset, Run
  <2>4. torn' \in BOOLEAN
    BY <1>1 DEF DataOk, CreateMutex, CreateMutexFails, Refuse, CheckIni, DialogCancel, DeclineReset, Run
  <2> QED
    BY <2>1, <2>2, <2>3, <2>4, DataFrame DEF DataOk
<1>2. CASE DialogOk(p)
  <2>1. PICK m \in Modes :
          /\ mode' = [mode EXCEPT ![p] = m]
          /\ serverIPconf' = [serverIPconf EXCEPT ![p] = IF m = "Client" THEN "entered" ELSE @]
    BY <1>2 DEF DialogOk
  <2>2. pc' = [pc EXCEPT ![p] = "write"] /\ UNCHANGED <<ini, step, isClientMode, torn, faults>>
    BY <1>2 DEF DialogOk
  <2>3. mode' \in [Procs -> Modes] /\ serverIPconf' \in [Procs -> {"0.0.0.0", "empty", "entered"}]
    BY <2>1 DEF DataOk
  <2>4. \A q \in Procs : pc'[q] = "write" /\ mode'[q] = "Client" => serverIPconf'[q] = "entered"
    BY <2>1, <2>2 DEF DataOk, ControlOk
  <2>5. \A q \in Procs : pc'[q] \in FirstLabels => step'[q] = 1
    BY <2>2 DEF DataOk, ControlOk, FirstLabels
  <2> QED
    BY <2>2, <2>3, <2>4, <2>5 DEF DataOk
<1>3. CASE WriteSetting(p) \/ WriteFails(p)
  <2>1. pc[p] = "write" /\ \E to \in {"write", "chosen"} : pc' = [pc EXCEPT ![p] = to]
    BY <1>3 DEF WriteSetting, WriteFails, NextWrite
  <2>2. step[p] \in 1..6 /\ step \in [Procs -> 1..6] /\ Writes[step[p]] \in {"Mode", "IP", "options"}
    BY SixWrites DEF DataOk
  <2>3. step' \in [Procs -> 1..6] /\ \A q \in Procs \ {p} : step'[q] = step[q]
    BY <1>3, <2>2, SixWrites DEF WriteSetting, WriteFails, NextWrite
  <2>4. UNCHANGED <<mode, isClientMode, serverIPconf>>
    BY <1>3 DEF WriteSetting, WriteFails
  <2>5. ini' \in IniFiles /\ (ini'.exists \/ ini'.Mode # "Client")
    <3>1. ini' \in {ini, Stored(Writes[step[p]], p)}
      BY <1>3 DEF WriteSetting, WriteFails
    <3> QED
      BY <2>1, <2>2, <3>1, StoredType DEF DataOk
  <2>6. torn' \in BOOLEAN /\ faults' \in 0..MaxFaults
    BY <1>3, FaultType DEF WriteSetting, WriteFails, DataOk
  <2>7. \A q \in Procs : /\ pc'[q] = "write" => pc[q] = "write"
                         /\ pc'[q] \in FirstLabels => q # p /\ pc[q] \in FirstLabels
    BY <2>1 DEF ControlOk, FirstLabels
  <2> QED
    BY <2>3, <2>4, <2>5, <2>6, <2>7 DEF DataOk
<1>4. CASE UseChoice(p) \/ ReadMode(p) \/ ReadIP(p)
  <2>1. UNCHANGED <<ini, mode, step, torn, faults>>
    BY <1>4 DEF UseChoice, ReadMode, ReadIP
  <2>2. isClientMode' \in [Procs -> BOOLEAN]
    BY <1>4 DEF UseChoice, ReadMode, ReadIP, DataOk
  <2>3. serverIPconf' \in [Procs -> {"0.0.0.0", "empty", "entered"}]
    BY <1>4 DEF UseChoice, ReadMode, ReadIP, DataOk, IniFiles
  <2>4. \A q \in Procs : /\ pc'[q] = "write" => pc[q] = "write" /\ serverIPconf'[q] = serverIPconf[q]
                         /\ pc'[q] \in FirstLabels => pc[q] \in FirstLabels
    BY <1>4 DEF UseChoice, ReadMode, ReadIP, DataOk, ControlOk, FirstLabels
  <2> QED
    BY <2>1, <2>2, <2>3, <2>4 DEF DataOk
<1>5. CASE Exit(p)
  <2>1. faults' \in 0..MaxFaults /\ torn' \in BOOLEAN
    BY <1>5 DEF Exit, DataOk
  <2> QED
    BY <1>5, <2>1, EndData DEF Exit
<1> QED
  BY <1>1, <1>2, <1>3, <1>4, <1>5 DEF WinMain

LEMMA OthersData ==
  ASSUME ControlOk, DataOk, NEW p \in Procs, Running(p) \/ Reset(p) \/ Crash(p) \/ Start
  PROVE  DataOk'
<1> USE DEF At, historyVars
<1>1. CASE Crash(p)
  <2>1. faults' \in 0..MaxFaults /\ torn' \in BOOLEAN
    BY <1>1, FaultType DEF Crash, DataOk
  <2> QED
    BY <1>1, <2>1, EndData DEF Crash
<1>2. CASE Running(p) \/ Reset(p) \/ Start
  <2>1. UNCHANGED choiceVars
    BY <1>2 DEF Running, Reset, Start, SaveOption, StartAgain, Quit, ConfirmReset, DeleteIni,
       DeleteFails, Cleanup, SkipCleanup, ReleaseMutex, Relaunch, RelaunchFails
  <2>2. ini' \in IniFiles /\ (ini'.exists \/ ini'.Mode # "Client")
    <3>1. /\ ini \in IniFiles /\ (ini.exists \/ ini.Mode # "Client")
          /\ NoFile \in IniFiles /\ NoFile.Mode # "Client"
          /\ [ini EXCEPT !.exists = TRUE] \in IniFiles /\ [ini EXCEPT !.exists = TRUE].exists
      BY DEF DataOk, IniFiles, NoFile
    <3>2. ini' \in {ini, NoFile, [ini EXCEPT !.exists = TRUE]}
      BY <1>2 DEF Running, Reset, Start, SaveOption, StartAgain, Quit, ConfirmReset, DeleteIni,
         DeleteFails, Cleanup, SkipCleanup, ReleaseMutex, Relaunch, RelaunchFails
    <3> QED
      BY <3>1, <3>2
  <2>3. faults' \in 0..MaxFaults /\ torn' \in BOOLEAN
    BY <1>2, FaultType DEF Running, Reset, Start, SaveOption, StartAgain, Quit, ConfirmReset,
       DeleteIni, DeleteFails, Cleanup, SkipCleanup, ReleaseMutex, Relaunch, RelaunchFails, DataOk
  <2>4. \A q \in Procs : /\ pc'[q] = "write" => pc[q] = "write"
                         /\ pc'[q] \in FirstLabels => pc[q] \in FirstLabels
    <3>1. back[p] \in {"start", "running"}
      BY DEF ControlOk
    <3>2. CASE Relaunch(p) \/ Start
      BY <3>2 DEF Start, Relaunch, ControlOk, FirstLabels
    <3>3. CASE Running(p) \/ (Reset(p) /\ ~Relaunch(p))
      <4>1. pc' = pc \/ \E to \in {"exiting", "delete", "restart", "start", "running", "release",
                                  "relaunch"} : pc' = [pc EXCEPT ![p] = to]
        BY <3>1, <3>3 DEF Running, Reset, SaveOption, StartAgain, Quit, ConfirmReset, DeleteIni,
           DeleteFails, Cleanup, SkipCleanup, ReleaseMutex, RelaunchFails
      <4> QED
        BY <4>1 DEF ControlOk, FirstLabels
    <3> QED
      BY <1>2, <3>2, <3>3
  <2> QED
    BY <2>1, <2>2, <2>3, <2>4, DataFrame
<1> QED
  BY <1>1, <1>2

LEMMA DataHolds == Spec => []DataOk
<1>1. Init => DataOk
  <2> SUFFICES ASSUME Init PROVE DataOk
    OBVIOUS
  <2>1. ini \in IniFiles /\ ini.Mode # "Client" /\ torn \in BOOLEAN
    BY DEF Init, IniFiles, NoFile
  <2>2. faults \in 0..MaxFaults
    BY StartupAssumption DEF Init
  <2>3. mode \in [Procs -> Modes] /\ step \in [Procs -> 1..6]
    BY DEF Init, Modes
  <2>4. /\ isClientMode \in [Procs -> BOOLEAN]
        /\ serverIPconf \in [Procs -> {"0.0.0.0", "empty", "entered"}]
        /\ \A p \in Procs : pc[p] # "write" /\ step[p] = 1
    BY DEF Init
  <2> QED
    BY <2>1, <2>2, <2>3, <2>4 DEF DataOk
<1>2. Inv /\ DataOk /\ [Next]_vars => DataOk'
  <2> SUFFICES ASSUME Inv, DataOk, [Next]_vars PROVE DataOk'
    OBVIOUS
  <2>1. ControlOk
    BY DEF Inv
  <2>2. CASE UNCHANGED vars
    BY <2>2, DataFrame DEF vars, historyVars, DataOk
  <2>3. CASE Start
    <3>1. PICK p \in Procs : pc[p] = "none"
      BY <2>3 DEF Start, At
    <3> QED
      BY <2>1, <2>3, <3>1, OthersData
  <2> QED
    BY <2>1, <2>2, <2>3, WinMainData, OthersData DEF Next
<1> QED
  BY <1>1, <1>2, InvHolds, PTL DEF Spec

\* The types of Startup, with any number of crashes and of failed calls.
THEOREM StartupTypeCorrect == Spec => []TypeOK
<1>1. Inv /\ DataOk => TypeOK
  BY SixWrites DEF Inv, ControlOk, DataOk, IniFiles, OwnerLabels, OtherLabels, TypeOK
<1> QED
  BY <1>1, InvHolds, DataHolds, PTL

\* What a process knows does not change while another one moves, if that one
\* leaves the file alone or this one has not written it.
LEMMA OthersKnow ==
  ASSUME NEW p \in Procs, AddressKnown(p),
         step'[p] = step[p], mode'[p] = mode[p], isClientMode'[p] = isClientMode[p],
         serverIPconf'[p] = serverIPconf[p],
         pc'[p] = pc[p] \/ (pc[p] = "none" /\ pc'[p] = "mutex"),
         ini' = ini \/ pc[p] \notin {"write", "ip", "dialog"}
  PROVE  AddressKnown(p)'
BY DEF AddressKnown, ActiveLabels

\* A step of p that leaves the file alone: only p's own part is to be shown.
LEMMA AddressFrame ==
  ASSUME ControlOk, DataOk, AddressOk, NEW p \in Procs, ~(pc[p] = "write" /\ step[p] = 2), ini' = ini,
         \A q \in Procs \ {p} :
           /\ step'[q] = step[q] /\ mode'[q] = mode[q] /\ isClientMode'[q] = isClientMode[q]
           /\ serverIPconf'[q] = serverIPconf[q]
           /\ pc'[q] = pc[q] \/ (pc[q] = "none" /\ pc'[q] = "mutex"),
         AddressKnown(p)'
  PROVE  AddressOk'
<1>1. \A q \in Procs : AddressKnown(q)'
  BY OthersKnow DEF AddressOk
<1>2. ASSUME ini.Mode = "Client", ini.IP # "entered"
      PROVE  \E q \in Procs : pc'[q] = "write" /\ step'[q] = 2
  <2>1. PICK q \in Procs : pc[q] = "write" /\ step[q] = 2
    BY <1>2 DEF AddressOk
  <2> QED
    BY <2>1
<1> QED
  BY <1>1, <1>2 DEF AddressOk

\* A step of p that touches the file: p is the only owner, so nobody else writes.
LEMMA AddressWrite ==
  ASSUME Inv, unguarded = {}, AddressOk, NEW p \in Procs, Owner(p),
         \A q \in Procs \ {p} :
           /\ step'[q] = step[q] /\ mode'[q] = mode[q] /\ isClientMode'[q] = isClientMode[q]
           /\ serverIPconf'[q] = serverIPconf[q] /\ pc'[q] = pc[q],
         AddressKnown(p)',
         ini'.Mode = "Client" /\ ini'.IP # "entered" => pc'[p] = "write" /\ step'[p] = 2
  PROVE  AddressOk'
<1>1. \A q \in Procs \ {p} : pc[q] \notin {"write", "ip", "dialog"}
  BY DEF Inv, Exclusion, Guarded, Owner, OwnerLabels
<1>2. \A q \in Procs : AddressKnown(q)'
  BY <1>1, OthersKnow DEF AddressOk
<1> QED
  BY <1>2 DEF AddressOk

\* After a torn write the file says nothing of its address until it is deleted; a
\* process that finds none is alone, and begins again.
LEMMA FreshStart ==
  ASSUME Inv, DataOk, unguarded = {}, NEW p \in Procs, CheckIni(p), ~ini.exists
  PROVE  AddressOk'
<1>1. /\ pc[p] = "ini" /\ pc' = [pc EXCEPT ![p] = "dialog"]
      /\ UNCHANGED <<ini, mode, step, isClientMode, serverIPconf>>
  BY DEF CheckIni, At, choiceVars
<1>2. ini.Mode # "Client"
  BY DEF DataOk
<1>3. \A q \in Procs \ {p} : pc[q] \notin OwnerLabels
  BY <1>1 DEF Inv, Exclusion, Guarded, Owner, OwnerLabels
<1>4. pc'[p] = "dialog" /\ \A q \in Procs \ {p} : pc'[q] \notin OwnerLabels
  BY <1>1, <1>3 DEF Inv, ControlOk
<1>5. \A q \in Procs : AddressKnown(q)'
  BY <1>1, <1>2, <1>4 DEF AddressKnown, OwnerLabels, ActiveLabels
<1> QED
  BY <1>1, <1>2, <1>5 DEF AddressOk

\* A process that ends forgets what it knew; the file is left as it is.
LEMMA EndAddress ==
  ASSUME ControlOk, DataOk, AddressOk, NEW p \in Procs, End(p), ~(pc[p] = "write" /\ step[p] = 2)
  PROVE  AddressOk'
<1>1. pc'[p] = "ended" /\ ini' = ini
  BY DEF End, ControlOk
<1>2. AddressKnown(p)'
  BY <1>1 DEF AddressKnown, ActiveLabels
<1>3. \A q \in Procs \ {p} :
        /\ step'[q] = step[q] /\ mode'[q] = mode[q] /\ isClientMode'[q] = isClientMode[q]
        /\ serverIPconf'[q] = serverIPconf[q] /\ pc'[q] = pc[q]
  BY DEF End, DataOk, ControlOk
<1> QED
  BY <1>1, <1>2, <1>3, AddressFrame

LEMMA WinMainAddress ==
  ASSUME Inv, DataOk, unguarded = {}, unguarded' = {}, ~torn', AddressOk, NEW p \in Procs, WinMain(p)
  PROVE  AddressOk'
<1> USE DEF At, choiceVars
<1>0. ControlOk /\ AddressKnown(p) /\ p \in DOMAIN pc
  BY DEF Inv, ControlOk, AddressOk
<1>6. CASE CheckIni(p)
  <2>1. CASE ini.exists
    <3>1. pc[p] = "ini" /\ pc' = [pc EXCEPT ![p] = "mode"] /\ UNCHANGED <<ini, choiceVars>>
      BY <1>6, <2>1 DEF CheckIni
    <3>2. pc'[p] = "mode" /\ \A q \in Procs \ {p} : pc'[q] = pc[q]
      BY <1>0, <3>1 DEF ControlOk
    <3>3. AddressKnown(p)'
      BY <3>2 DEF AddressKnown, ActiveLabels
    <3> QED
      BY <1>0, <3>1, <3>2, <3>3, AddressFrame
  <2> QED
    BY <1>6, <2>1, FreshStart
<1>7. ~CreateMutexFails(p)
  BY DEF CreateMutexFails
<1>1. CASE CreateMutex(p) \/ Refuse(p) \/ DialogCancel(p) \/ DeclineReset(p) \/ Run(p)
  <2>1. UNCHANGED <<choiceVars, ini>> /\ pc[p] # "write"
    BY <1>1 DEF CreateMutex, Refuse, DialogCancel, DeclineReset, Run
  <2>2. /\ \A q \in Procs \ {p} : pc'[q] = pc[q]
        /\ pc'[p] \notin {"dialog", "write", "chosen", "invalid", "ip"}
        /\ pc'[p] \in ActiveLabels => pc[p] \in ActiveLabels \cup {"invalid"}
    BY <1>0, <1>1 DEF CreateMutex, Refuse, DialogCancel, DeclineReset, Run, ActiveLabels, ControlOk
  <2>3. AddressKnown(p)'
    BY <1>0, <2>1, <2>2 DEF AddressKnown
  <2> QED
    BY <1>0, <2>1, <2>2, <2>3, AddressFrame
<1>2. CASE DialogOk(p)
  <2>1. PICK m \in Modes :
          /\ mode' = [mode EXCEPT ![p] = m]
          /\ serverIPconf' = [serverIPconf EXCEPT ![p] = IF m = "Client" THEN "entered" ELSE @]
    BY <1>2 DEF DialogOk
  <2>2. /\ pc[p] = "dialog" /\ pc' = [pc EXCEPT ![p] = "write"]
        /\ UNCHANGED <<ini, step, isClientMode>>
    BY <1>2 DEF DialogOk
  <2>3. pc'[p] = "write" /\ step'[p] = 1 /\ (mode'[p] = "Client" => serverIPconf'[p] = "entered")
    BY <1>0, <2>1, <2>2 DEF FirstLabels, DataOk, ControlOk
  <2>4. AddressKnown(p)'
    BY <1>0, <2>2, <2>3 DEF AddressKnown, ActiveLabels
  <2>5. \A q \in Procs \ {p} :
          /\ step'[q] = step[q] /\ mode'[q] = mode[q] /\ isClientMode'[q] = isClientMode[q]
          /\ serverIPconf'[q] = serverIPconf[q] /\ pc'[q] = pc[q]
    <3>1. \A q \in Procs \ {p} : pc'[q] = pc[q] /\ step'[q] = step[q]
      BY <2>2, <1>0 DEF ControlOk
    <3>2. \A q \in Procs \ {p} : mode'[q] = mode[q] /\ serverIPconf'[q] = serverIPconf[q]
      BY <2>1 DEF DataOk
    <3> QED
      BY <2>2, <3>1, <3>2
  <2> QED
    BY <1>0, <2>2, <2>4, <2>5, AddressFrame
<1>3. CASE WriteSetting(p) \/ WriteFails(p)
  <2>1. pc[p] = "write" /\ UNCHANGED <<mode, isClientMode, serverIPconf>>
    BY <1>3 DEF WriteSetting, WriteFails, NextWrite
  <2>2. step[p] \in 1..6 /\ step \in [Procs -> 1..6] /\ Writes[step[p]] \in {"Mode", "IP", "options"}
    BY SixWrites DEF DataOk
  <2>3. (ini' = ini /\ Writes[step[p]] # "IP") \/ ini' = Stored(Writes[step[p]], p)
    BY <1>3 DEF WriteSetting, WriteFails
  <2>4. \/ step[p] < 6 /\ step'[p] = step[p] + 1 /\ pc'[p] = "write"
        \/ step[p] = 6 /\ pc'[p] = "chosen"
    BY <1>0, <1>3, <2>2, SixWrites DEF WriteSetting, WriteFails, NextWrite
  <2>5. \A q \in Procs \ {p} : step'[q] = step[q] /\ pc'[q] = pc[q]
    BY <1>3 DEF WriteSetting, WriteFails, NextWrite, DataOk, Inv, ControlOk
  <2>6. step[p] = 2 => Writes[step[p]] = "IP"
    BY SixWrites
  <2>7. /\ ini.Mode = "Client" => mode[p] = "Client"
        /\ step[p] >= 3 /\ mode[p] = "Client" => ini.IP = "entered"
        /\ mode[p] = "Client" => serverIPconf[p] = "entered"
    BY <1>0, <2>1 DEF AddressKnown
  <2>8. /\ ini'.Mode = "Client" => mode[p] = "Client"
        /\ step[p] >= 2 /\ mode[p] = "Client" => ini'.IP = "entered"
    <3>1. CASE ini' = ini /\ Writes[step[p]] # "IP"
      BY <2>2, <2>6, <2>7, <3>1
    <3>2. CASE ini' = Stored(Writes[step[p]], p)
      <4>1. /\ ini'.Mode = IF Writes[step[p]] = "Mode" THEN mode[p] ELSE ini.Mode
            /\ ini'.IP = IF Writes[step[p]] = "IP" /\ mode[p] = "Client" THEN "entered" ELSE ini.IP
        BY <2>1, <2>2, <3>2, StoredType
      <4> QED
        BY <2>2, <2>6, <2>7, <4>1
    <3> QED
      BY <2>3, <3>1, <3>2
  <2>9. AddressKnown(p)'
    BY <2>1, <2>2, <2>4, <2>7, <2>8 DEF AddressKnown, ActiveLabels
  <2>10. ini'.Mode = "Client" /\ ini'.IP # "entered" => pc'[p] = "write" /\ step'[p] = 2
    BY <2>2, <2>4, <2>8
  <2>11. Owner(p)
    BY <2>1 DEF Owner, OwnerLabels
  <2> QED
    BY <2>1, <2>5, <2>9, <2>10, <2>11, AddressWrite
<1>4. CASE UseChoice(p) \/ ReadMode(p) \/ ReadIP(p)
  <2>1. UNCHANGED <<ini, mode, step>> /\ pc[p] \in {"chosen", "mode", "ip"}
    BY <1>4 DEF UseChoice, ReadMode, ReadIP
  <2>2. \A q \in Procs \ {p} : /\ isClientMode'[q] = isClientMode[q] /\ pc'[q] = pc[q]
                               /\ serverIPconf'[q] = serverIPconf[q]
    BY <1>4 DEF UseChoice, ReadMode, ReadIP, DataOk, Inv, ControlOk
  <2>3. pc'[p] \in {"exiting", "ip", "start", "invalid"}
    BY <1>0, <1>4 DEF UseChoice, ReadMode, ReadIP, Inv, ControlOk
  <2>4. pc'[p] = "start" /\ isClientMode'[p] => serverIPconf'[p] = "entered"
    <3>1. CASE UseChoice(p)
      BY <1>0, <3>1 DEF UseChoice, DataOk, AddressKnown
    <3>2. CASE ReadMode(p)
      BY <1>0, <3>2 DEF ReadMode, DataOk, ControlOk
    <3>3. CASE ReadIP(p)
      <4>1. serverIPconf'[p] = ini.IP /\ isClientMode'[p] = isClientMode[p] /\ pc[p] = "ip"
        BY <3>3 DEF ReadIP, DataOk
      <4>2. \A q \in Procs : pc[q] # "write"
        BY <4>1 DEF Inv, Exclusion, Guarded, Owner, OwnerLabels
      <4> QED
        BY <1>0, <4>1, <4>2 DEF AddressKnown, AddressOk
    <3> QED
      BY <1>4, <3>1, <3>2, <3>3
  <2>5. pc'[p] = "invalid" => ~isClientMode'[p]
    BY <1>0, <1>4 DEF UseChoice, ReadMode, ReadIP, DataOk, ControlOk
  <2>6. pc'[p] = "ip" => ini'.Mode = "Client"
    BY <1>0, <1>4, <2>1 DEF UseChoice, ReadMode, ReadIP, Inv, ControlOk
  <2>7. AddressKnown(p)'
    BY <2>3, <2>4, <2>5, <2>6 DEF AddressKnown, ActiveLabels
  <2> QED
    BY <1>0, <2>1, <2>2, <2>7, AddressFrame
<1>5. CASE Exit(p)
  BY <1>0, <1>5, EndAddress DEF Exit
<1> QED
  BY <1>1, <1>2, <1>3, <1>4, <1>5, <1>6, <1>7 DEF WinMain

LEMMA RunningAddress ==
  ASSUME Inv, DataOk, unguarded = {}, unguarded' = {}, AddressOk, NEW p \in Procs,
         Running(p) \/ Reset(p)
  PROVE  AddressOk'
<1> USE DEF At, choiceVars
<1>0. ControlOk /\ AddressKnown(p) /\ p \in DOMAIN pc
  BY DEF Inv, ControlOk, AddressOk
<1>1. CASE SaveOption(p) \/ DeleteIni(p)
  <2>1. pc[p] \in {"running", "delete"} /\ UNCHANGED choiceVars
    BY <1>1 DEF SaveOption, DeleteIni
  <2>2. \A q \in Procs : pc[q] # "write"
    BY <2>1 DEF Inv, Exclusion, Guarded, Owner, OwnerLabels
  <2>3. (ini'.Mode = ini.Mode /\ ini'.IP = ini.IP) \/ ini'.Mode # "Client"
    <3>1. ini \in IniFiles
      BY DEF DataOk
    <3>2. CASE SaveOption(p)
      <4>1. ini' = [ini EXCEPT !.exists = TRUE]
        BY <3>2 DEF SaveOption
      <4> QED
        BY <3>1, <4>1 DEF IniFiles
    <3>3. CASE DeleteIni(p)
      BY <3>3 DEF DeleteIni, NoFile
    <3> QED
      BY <1>1, <3>2, <3>3
  <2>4. pc'[p] \in {"running", "restart"} /\ \A q \in Procs \ {p} : pc'[q] = pc[q]
    BY <1>0, <1>1 DEF SaveOption, DeleteIni, ControlOk
  <2>5. ini'.Mode = "Client" => ini'.IP = "entered"
    BY <2>2, <2>3 DEF AddressOk
  <2>6. AddressKnown(p)'
    BY <1>0, <2>1, <2>4 DEF AddressKnown, ActiveLabels
  <2>7. Owner(p)
    BY <2>1 DEF Owner, OwnerLabels
  <2> QED
    BY <2>1, <2>4, <2>5, <2>6, <2>7, AddressWrite
<1>2. CASE Relaunch(p)
  <2>1. PICK q \in Procs : pc[q] = "none" /\ pc' = [pc EXCEPT ![p] = "exiting", ![q] = "mutex"]
    BY <1>2 DEF Relaunch
  <2>2. pc[p] = "relaunch" /\ UNCHANGED <<choiceVars, ini>>
    BY <1>2 DEF Relaunch
  <2>3. pc'[p] = "exiting" /\ \A r \in Procs \ {p} :
          pc'[r] = pc[r] \/ (pc[r] = "none" /\ pc'[r] = "mutex")
    BY <1>0, <2>1, <2>2 DEF ControlOk
  <2>4. AddressKnown(p)'
    BY <2>3 DEF AddressKnown, ActiveLabels
  <2> QED
    BY <1>0, <2>2, <2>3, <2>4, AddressFrame
<1>3. CASE \/ StartAgain(p) \/ Quit(p) \/ ConfirmReset(p, "running") \/ ConfirmReset(p, "invalid")
           \/ DeleteFails(p) \/ Cleanup(p) \/ SkipCleanup(p) \/ ReleaseMutex(p)
  <2>0. back[p] \in {"start", "running"}
    BY <1>0 DEF ControlOk
  <2>1. /\ UNCHANGED <<choiceVars, ini>>
        /\ pc[p] \in {"running", "invalid", "delete", "restart", "release"}
    BY <1>3 DEF StartAgain, Quit, ConfirmReset, DeleteFails, Cleanup, SkipCleanup, ReleaseMutex
  <2>2. /\ \A q \in Procs \ {p} : pc'[q] = pc[q]
        /\ pc'[p] \in {"start", "running", "delete", "release", "relaunch", "exiting"}
        /\ pc'[p] \in {"start", "running", "delete"} => pc[p] \in {"running", "invalid", "delete"}
    BY <1>0, <1>3, <2>0 DEF StartAgain, Quit, ConfirmReset, DeleteFails, Cleanup, SkipCleanup,
       ReleaseMutex, ControlOk
  <2>3. AddressKnown(p)'
    BY <1>0, <2>1, <2>2 DEF AddressKnown, ActiveLabels
  <2> QED
    BY <1>0, <2>1, <2>2, <2>3, AddressFrame
<1>4. ~RelaunchFails(p)
  BY DEF RelaunchFails
<1> QED
  BY <1>1, <1>2, <1>3, <1>4 DEF Running, Reset

\* Once an instance is unguarded this stays so; a torn file is only forgotten by a
\* process that finds no file.
LEMMA HistoryStep ==
  ASSUME [Next]_vars, unguarded' = {}, ~torn'
  PROVE  unguarded = {} /\ (torn => \E p \in Procs : CheckIni(p) /\ ~ini.exists)
<1> USE DEF historyVars
<1>1. CASE Start \/ UNCHANGED vars
  BY <1>1 DEF Start, vars
<1>2. ASSUME NEW p \in Procs, CheckIni(p)
      PROVE  unguarded = {} /\ (torn => ~ini.exists)
  <2>1. unguarded' = unguarded /\ torn' = (torn /\ ini.exists)
    BY <1>2 DEF CheckIni
  <2> QED
    BY <2>1
<1>3. ASSUME NEW p \in Procs, WriteFails(p) \/ Crash(p)
      PROVE  unguarded = {} /\ ~torn
  <2>1. unguarded' = unguarded /\ (torn => torn')
    BY <1>3 DEF WriteFails, Crash, End
  <2> QED
    BY <2>1
<1>4. ASSUME NEW p \in Procs, CreateMutexFails(p) \/ RelaunchFails(p)
      PROVE  FALSE
  BY <1>4 DEF CreateMutexFails, RelaunchFails
<1>5. ASSUME NEW p \in Procs, WinMain(p), ~CheckIni(p), ~WriteFails(p), ~CreateMutexFails(p)
      PROVE  UNCHANGED <<unguarded, torn>>
  BY <1>5 DEF WinMain, CreateMutex, Refuse, DialogOk, DialogCancel, WriteSetting, UseChoice, ReadMode,
     ReadIP, DeclineReset, Run, Exit, End
<1>6. ASSUME NEW p \in Procs, Running(p) \/ (Reset(p) /\ ~RelaunchFails(p))
      PROVE  UNCHANGED <<unguarded, torn>>
  BY <1>6 DEF Running, Reset, SaveOption, StartAgain, Quit, ConfirmReset, DeleteIni, DeleteFails,
     Cleanup, SkipCleanup, ReleaseMutex, Relaunch
<1>7. ASSUME NEW p \in Procs, WinMain(p) \/ Running(p) \/ Reset(p) \/ Crash(p)
      PROVE  unguarded = {} /\ (torn => CheckIni(p) /\ ~ini.exists)
  BY <1>2, <1>3, <1>4, <1>5, <1>6, <1>7
<1> QED
  BY <1>1, <1>7 DEF Next

LEMMA AddressStep == Inv /\ DataOk /\ AddressInv /\ [Next]_vars => AddressInv'
<1> SUFFICES ASSUME Inv, DataOk, AddressInv, [Next]_vars, unguarded' = {}, ~torn'
             PROVE  AddressOk'
  BY DEF AddressInv
<1>1. unguarded = {} /\ (torn => \E p \in Procs : CheckIni(p) /\ ~ini.exists)
  BY HistoryStep
<1>2. CASE torn
  BY <1>1, <1>2, FreshStart
<1> SUFFICES ASSUME ~torn PROVE AddressOk'
  BY <1>2
<1>4. AddressOk
  BY <1>1 DEF AddressInv
<1>5. CASE Start
  <2>1. PICK q \in Procs : pc[q] = "none" /\ pc' = [pc EXCEPT ![q] = "mutex"]
    BY <1>5 DEF Start, At
  <2>2. UNCHANGED <<ini, choiceVars>>
    BY <1>5 DEF Start
  <2>3. pc'[q] = "mutex" /\ \A r \in Procs \ {q} : pc'[r] = pc[r]
    BY <2>1 DEF Inv, ControlOk
  <2>4. AddressKnown(q)'
    BY <1>4, <2>1, <2>2, <2>3 DEF AddressOk, AddressKnown, FirstLabels, ActiveLabels, choiceVars
  <2> QED
    BY <1>4, <2>1, <2>2, <2>3, <2>4, AddressFrame DEF Inv, choiceVars
<1>6. CASE UNCHANGED vars
  BY <1>4, <1>6 DEF vars, choiceVars, AddressOk, AddressKnown
<1>7. ASSUME NEW p \in Procs, Crash(p) PROVE AddressOk'
  BY <1>4, <1>7, EndAddress DEF Crash, Inv
<1> QED
  BY <1>1, <1>4, <1>5, <1>6, <1>7, WinMainAddress, RunningAddress DEF Next

\* An instance that runs as a client has an address that the dialog accepted,
\* through any number of processes, kills, failed calls, resets and changes of the
\* settings, as long as each instance is alone and the address itself got into the
\* file: its write did not fail, and no kill fell between it and the mode.
THEOREM ClientsHaveAddress == Spec => []ClientHasAddress
<1>1. Init => AddressInv
  <2> SUFFICES ASSUME Init PROVE AddressOk
    BY DEF AddressInv
  <2>1. ini.Mode = "empty" /\ \A p \in Procs : pc[p] \in {"mutex", "none"}
    BY DEF Init, NoFile
  <2> QED
    BY <2>1 DEF AddressOk, AddressKnown, ActiveLabels
<1>2. Inv /\ AddressInv => ClientHasAddress
  BY DEF Inv, ControlOk, Exclusion, AddressInv, AddressOk, AddressKnown, ClientHasAddress
<1> QED
  BY <1>1, <1>2, AddressStep, InvHolds, DataHolds, PTL DEF Spec
=============================================================================
