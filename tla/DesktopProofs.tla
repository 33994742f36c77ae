---------------------------- MODULE DesktopProofs ----------------------------
(***************************************************************************)
(* The program among the windows, for any keys, handlers and faults: what  *)
(* the user sees of it agrees with what the settings file says, but for a  *)
(* command that is under way or was cut short.                             *)
(***************************************************************************)
EXTENDS Desktop, KeyInjectionProofs

DesktopTypeOK ==
  /\ isClientMode \in BOOLEAN /\ running \in BOOLEAN
  /\ gui \in {"loop", "window", "keep", "mark"}
  /\ window \in {"none", "shown", "minimized", "hidden"} /\ icon \in BOOLEAN
  /\ start_minimized \in BOOLEAN /\ marked \in BOOLEAN
  /\ console \in {"none", "shown", "hidden"}
  /\ ini \in [Settings -> {"Yes", "No", "missing"}]
  /\ lost \subseteq Settings \cup {"icon"} /\ cut \subseteq Settings
  /\ faults \in 0..MaxFaults

\* Window and icon end with the process; the GUI thread is on the way to the
\* window, or has one.
ProcessInv ==
  /\ window # "none" \/ gui # "loop" => running
  /\ icon => window # "none"
  /\ running /\ window = "none" => gui \in {"window", "keep"}
  /\ gui = "window" => window = "none"
  /\ gui = "mark" => window # "none"

\* The setting is the one of the file until there is a window, and then the mark's,
\* but between the two steps of Minimize on start.
MemoryInv ==
  /\ running /\ window = "none" => (start_minimized <=> Read("StartMinimized"))
  /\ window # "none" /\ gui # "mark" => (marked <=> start_minimized)
  /\ gui = "mark" => (marked <=> ~start_minimized)

\* The mark agrees with the file, unless a fault came between them or Minimize on
\* start is under way or was cut short; it does so without a process as well.
MarkInv ==
  /\ window # "none" => "StartMinimized" \notin cut
  /\ "StartMinimized" \notin lost =>
       /\ gui # "mark" /\ "StartMinimized" \notin cut => (marked <=> Read("StartMinimized"))
       /\ gui = "mark" \/ "StartMinimized" \in cut => (marked <=> ~Read("StartMinimized"))

\* So do the console and the file.  A console shown at the start was in the file.
ConsoleInv ==
  /\ running => "ConsoleVisibility" \notin cut
  /\ gui = "keep" => console # "none"
  /\ "ConsoleVisibility" \notin lost =>
       /\ gui = "keep" /\ window # "none" => (console = "shown" <=> ~Read("ConsoleVisibility"))
       /\ gui = "keep" /\ window = "none" => console = "shown" /\ Read("ConsoleVisibility")
       /\ gui # "keep" /\ "ConsoleVisibility" \notin cut
            => (console = "shown" <=> Read("ConsoleVisibility"))
       /\ "ConsoleVisibility" \in cut => (console = "shown" <=> ~Read("ConsoleVisibility"))

FileInv == MemoryInv /\ MarkInv /\ ConsoleInv

DesktopInv == DesktopTypeOK /\ HandlersInv /\ HiddenHasIcon /\ ProcessInv /\ FileInv

-----------------------------------------------------------------------------
(* The settings file.                                                      *)

LEMMA SettingNames ==
  /\ "ConsoleVisibility" \in Settings \ {"StartMinimized"}
  /\ "StartMinimized" \in Settings \ {"ConsoleVisibility"}
  /\ "icon" \notin Settings
BY DEF Settings

LEMMA FaultTypes ==
  ASSUME DesktopTypeOK, NEW what, what \subseteq Settings \cup {"icon"}, Fault(what)
  PROVE  faults' \in 0..MaxFaults /\ lost' = what
<1>1. faults \in 0..MaxFaults
  BY DEF DesktopTypeOK
<1> QED
  BY <1>1, DesktopAssumption DEF Fault

\* What Write does to the file and to what is lost of it.
LEMMA WriteFacts ==
  ASSUME DesktopTypeOK, NEW setting \in Settings, NEW value \in BOOLEAN, Write(setting, value)
  PROVE  /\ ini' \in [Settings -> {"Yes", "No", "missing"}]
         /\ lost' \subseteq Settings \cup {"icon"} /\ faults' \in 0..MaxFaults
         /\ setting \notin lost' => Read(setting)' = value
         /\ \A other \in Settings \ {setting} : Read(other)' = Read(other)
         /\ \A other \in (Settings \cup {"icon"}) \ {setting} : other \in lost' <=> other \in lost
<1>1. CASE /\ ini' = [ini EXCEPT ![setting] = IF value THEN "Yes" ELSE "No"]
           /\ lost' = lost \ {setting} /\ faults' = faults
  <2>1. ini' \in [Settings -> {"Yes", "No", "missing"}]
    BY <1>1 DEF DesktopTypeOK
  <2>2. ini'[setting] = IF value THEN "Yes" ELSE "No"
    BY <1>1 DEF DesktopTypeOK
  <2>3. \A other \in Settings \ {setting} : ini'[other] = ini[other]
    BY <1>1 DEF DesktopTypeOK
  <2>4. Read(setting)' = value
    BY <2>2 DEF Read
  <2>5. \A other \in Settings \ {setting} : Read(other)' = Read(other)
    BY <2>3 DEF Read
  <2>6. lost' \subseteq Settings \cup {"icon"} /\ faults' \in 0..MaxFaults
    BY <1>1 DEF DesktopTypeOK
  <2> QED
    BY <1>1, <2>1, <2>4, <2>5, <2>6
<1>2. CASE Fault(lost \cup {setting}) /\ UNCHANGED ini
  <2>1. faults' \in 0..MaxFaults /\ lost' = lost \cup {setting}
    BY <1>2, FaultTypes DEF DesktopTypeOK
  <2>2. lost' \subseteq Settings \cup {"icon"}
    BY <2>1 DEF DesktopTypeOK
  <2>3. \A other \in Settings : Read(other)' = Read(other)
    BY <1>2 DEF Read
  <2>4. ini' \in [Settings -> {"Yes", "No", "missing"}]
    BY <1>2 DEF DesktopTypeOK
  <2> QED
    BY <2>1, <2>2, <2>3, <2>4
<1> QED
  BY <1>1, <1>2 DEF Write

\* What NewConsole and ToggleConsoleVisibility do to what is lost.
LEMMA NewConsoleFacts ==
  ASSUME DesktopTypeOK, NewConsole
  PROVE  /\ lost' \subseteq Settings \cup {"icon"} /\ faults' \in 0..MaxFaults
         /\ \A other \in {"StartMinimized", "icon"} : other \in lost' <=> other \in lost
         /\ \/ console' = "shown" /\ gui' = "keep" /\ lost' = lost
            \/ /\ console' = "none" /\ "ConsoleVisibility" \in lost'
               /\ gui' = IF window = "none" THEN "window" ELSE "loop"
<1>1. CASE console' = "shown" /\ gui' = "keep" /\ UNCHANGED <<lost, faults>>
  BY <1>1 DEF DesktopTypeOK
<1>2. CASE /\ console' = "none" /\ gui' = (IF window = "none" THEN "window" ELSE "loop")
           /\ Fault(lost \cup {"ConsoleVisibility"})
  <2>1. lost \cup {"ConsoleVisibility"} \subseteq Settings \cup {"icon"}
    BY SettingNames DEF DesktopTypeOK
  <2>2. faults' \in 0..MaxFaults /\ lost' = lost \cup {"ConsoleVisibility"}
    BY <1>2, <2>1, FaultTypes
  <2> QED
    BY <1>2, <2>1, <2>2
<1> QED
  BY <1>1, <1>2 DEF NewConsole

\* MinimizeToTray hides the window and adds the icon, or what is lost has it.
LEMMA TrayFacts ==
  ASSUME DesktopTypeOK, NEW differs, differs \subseteq lost, MinimizeToTray(differs)
  PROVE  /\ window' = "hidden" /\ icon' \in BOOLEAN
         /\ icon' \/ "icon" \in lost'
         /\ lost' \subseteq Settings \cup {"icon"} /\ faults' \in 0..MaxFaults
         /\ \A setting \in Settings : setting \in lost' <=> setting \in differs
<1>1. CASE icon' = TRUE /\ lost' = differs \ {"icon"} /\ UNCHANGED faults
  BY <1>1, SettingNames DEF DesktopTypeOK, MinimizeToTray
<1>2. CASE ~icon /\ icon' = FALSE /\ Fault(differs \cup {"icon"})
  <2>1. differs \cup {"icon"} \subseteq Settings \cup {"icon"}
    BY DEF DesktopTypeOK
  <2>2. faults' \in 0..MaxFaults /\ lost' = differs \cup {"icon"}
    BY <1>2, <2>1, FaultTypes
  <2> QED
    BY <1>2, <2>1, <2>2, SettingNames DEF MinimizeToTray
<1> QED
  BY <1>1, <1>2 DEF MinimizeToTray

-----------------------------------------------------------------------------
(* The steps.                                                              *)

LEMMA DesktopInit == Init => DesktopInv
<1> SUFFICES ASSUME Init PROVE DesktopInv
  OBVIOUS
<1>1. HandlersInv
  BY HandlersInit DEF Init
<1>2. faults \in 0..MaxFaults
  BY DesktopAssumption DEF Init
<1>3. Read("StartMinimized") \in BOOLEAN /\ Read("ConsoleVisibility") \in BOOLEAN
  BY DEF Read
<1>4. DesktopTypeOK
  BY <1>2, <1>3 DEF Init, DesktopTypeOK
<1>5. HiddenHasIcon /\ ProcessInv /\ FileInv
  BY <1>3 DEF Init, HiddenHasIcon, ProcessInv, FileInv, MemoryInv, MarkInv, ConsoleInv
<1> QED
  BY <1>1, <1>4, <1>5 DEF DesktopInv

\* Steps that leave everything but the handlers alone.
LEMMA DesktopFrame ==
  ASSUME DesktopInv, HandlersInv', UNCHANGED desktopVars
  PROVE  DesktopInv'
<1>1. /\ UNCHANGED <<isClientMode, running, gui, window, icon, marked, console>>
      /\ UNCHANGED <<start_minimized, ini, lost, cut, faults>>
  BY DEF desktopVars, shownVars, settingVars
<1>2. \A setting : Read(setting)' = Read(setting)
  BY <1>1 DEF Read
<1>3. DesktopTypeOK' /\ HiddenHasIcon' /\ ProcessInv'
  BY <1>1 DEF DesktopInv, DesktopTypeOK, HiddenHasIcon, ProcessInv
<1>4. FileInv'
  BY <1>1, <1>2 DEF DesktopInv, FileInv, MemoryInv, MarkInv, ConsoleInv
<1> QED
  BY <1>3, <1>4 DEF DesktopInv

\* What a process has when it starts.
LEMMA StartFacts ==
  ASSUME DesktopInv, Start
  PROVE  /\ running' = TRUE /\ window = "none" /\ gui = "loop"
         /\ UNCHANGED <<isClientMode, window, icon, marked, ini>>
         /\ start_minimized' = Read("StartMinimized") /\ start_minimized' \in BOOLEAN
         /\ cut' = cut \ {"ConsoleVisibility"}
         /\ gui' \in {"window", "keep"} /\ console' \in {"none", "shown", "hidden"}
         /\ gui' = "keep" => console' # "none" /\ Read("ConsoleVisibility")
         /\ lost' \subseteq Settings \cup {"icon"} /\ faults' \in 0..MaxFaults
         /\ "StartMinimized" \in lost' <=> "StartMinimized" \in lost
         /\ "ConsoleVisibility" \notin lost' => (console' = "shown" <=> Read("ConsoleVisibility"))
<1>1. /\ running' = TRUE /\ window = "none" /\ gui = "loop"
      /\ UNCHANGED <<isClientMode, window, icon, marked, ini>>
      /\ start_minimized' = Read("StartMinimized") /\ start_minimized' \in BOOLEAN
      /\ cut' = cut \ {"ConsoleVisibility"}
  BY DEF Start, Read, DesktopInv, ProcessInv
<1>2. CASE Read("ConsoleVisibility") /\ NewConsole
  <2>1. /\ lost' \subseteq Settings \cup {"icon"} /\ faults' \in 0..MaxFaults
        /\ "StartMinimized" \in lost' <=> "StartMinimized" \in lost
        /\ \/ console' = "shown" /\ gui' = "keep" /\ lost' = lost
           \/ console' = "none" /\ "ConsoleVisibility" \in lost' /\ gui' = "window"
    BY <1>1, <1>2, NewConsoleFacts DEF DesktopInv
  <2> QED
    BY <1>1, <1>2, <2>1
<1>3. CASE /\ ~Read("ConsoleVisibility") /\ console' = "none" /\ gui' = "window"
           /\ lost' = lost \ {"ConsoleVisibility"} /\ UNCHANGED faults
  BY <1>1, <1>3 DEF DesktopInv, DesktopTypeOK
<1> QED
  BY <1>2, <1>3 DEF Start

LEMMA StartStep ==
  ASSUME DesktopInv, Start
  PROVE  DesktopInv'
<1>1. DesktopTypeOK'
  BY StartFacts DEF DesktopInv, DesktopTypeOK
<1>2. HandlersInv'
  <2>1. DEBUG' \in BOOLEAN /\ UNCHANGED <<held, pc, event, loopVars>>
    BY InjectionAssumption DEF Start
  <2> QED
    BY <2>1, DebugIsRead DEF DesktopInv
<1>3. HiddenHasIcon' /\ ProcessInv'
  <2>1. window' = "none" /\ running' = TRUE /\ gui' \in {"window", "keep"}
    BY StartFacts
  <2>2. icon' = FALSE
    BY StartFacts DEF DesktopInv, DesktopTypeOK, ProcessInv
  <2> QED
    BY <2>1, <2>2 DEF HiddenHasIcon, ProcessInv
<1>4. /\ Read("StartMinimized")' = Read("StartMinimized")
      /\ Read("ConsoleVisibility")' = Read("ConsoleVisibility")
  BY StartFacts DEF Read
<1>5. MemoryInv' /\ MarkInv'
  <2>1. /\ window' = "none" /\ gui = "loop" /\ gui' \in {"window", "keep"} /\ marked' = marked
        /\ start_minimized' = Read("StartMinimized")
        /\ "StartMinimized" \in cut' <=> "StartMinimized" \in cut
        /\ "StartMinimized" \in lost' <=> "StartMinimized" \in lost
    BY StartFacts
  <2>2. MarkInv
    BY DEF DesktopInv, FileInv
  <2> QED
    BY <1>4, <2>1, <2>2 DEF MemoryInv, MarkInv
<1>6. ConsoleInv'
  BY <1>4, StartFacts DEF ConsoleInv
<1> QED
  BY <1>1, <1>2, <1>3, <1>5, <1>6 DEF DesktopInv, FileInv

\* What a process shows before its message loop.
LEMMA ShowFacts ==
  ASSUME DesktopInv, ShowWindow
  PROVE  /\ gui = "window" /\ gui' = "loop" /\ window = "none" /\ running
         /\ UNCHANGED <<serverVars, isClientMode, running, console, start_minimized, ini>>
         /\ window' \in {"shown", "minimized", "hidden"} /\ icon' \in BOOLEAN
         /\ window' # "shown" <=> start_minimized
         /\ window' = "hidden" => icon' \/ "icon" \in lost'
         /\ marked' = start_minimized
         /\ cut' = cut \ {"StartMinimized"}
         /\ lost' \subseteq Settings \cup {"icon"} /\ faults' \in 0..MaxFaults
         /\ \A setting \in Settings :
              setting \in lost' <=> setting \in lost /\ setting # "StartMinimized"
<1>1. /\ gui = "window" /\ gui' = "loop" /\ window = "none" /\ running
      /\ UNCHANGED <<serverVars, isClientMode, running, console, start_minimized, ini>>
      /\ marked' = start_minimized /\ cut' = cut \ {"StartMinimized"}
  BY DEF ShowWindow, UpdateMenuCheckMarks, DesktopInv, ProcessInv
<1>2. DesktopTypeOK
  BY DEF DesktopInv
<1>3. CASE start_minimized /\ MinimizeToTray(lost \ {"StartMinimized"})
  <2>1. lost \ {"StartMinimized"} \subseteq lost
    OBVIOUS
  <2>2. /\ window' = "hidden" /\ icon' \in BOOLEAN /\ (icon' \/ "icon" \in lost')
        /\ lost' \subseteq Settings \cup {"icon"} /\ faults' \in 0..MaxFaults
        /\ \A setting \in Settings : setting \in lost' <=> setting \in lost \ {"StartMinimized"}
    BY <1>2, <1>3, <2>1, TrayFacts
  <2> QED
    BY <1>1, <1>3, <2>2
<1>4. CASE /\ window' = (IF start_minimized THEN "minimized" ELSE "shown")
           /\ lost' = lost \ {"StartMinimized"} /\ UNCHANGED <<icon, faults>>
  BY <1>1, <1>2, <1>4 DEF DesktopTypeOK
<1>5. CASE /\ ~start_minimized /\ window' = "shown"
           /\ lost' = lost \ {"StartMinimized"} /\ UNCHANGED <<icon, faults>>
  BY <1>1, <1>2, <1>5 DEF DesktopTypeOK
<1> QED
  BY <1>3, <1>4, <1>5 DEF ShowWindow, ShowClient, ShowServer

LEMMA ShowWindowStep ==
  ASSUME DesktopInv, ShowWindow
  PROVE  DesktopInv'
<1>1. DesktopTypeOK'
  BY ShowFacts DEF DesktopInv, DesktopTypeOK
<1>2. HandlersInv'
  BY ShowFacts, HandlersFrame DEF DesktopInv
<1>3. HiddenHasIcon' /\ ProcessInv'
  BY ShowFacts DEF HiddenHasIcon, ProcessInv
<1>4. /\ Read("StartMinimized")' = Read("StartMinimized")
      /\ Read("ConsoleVisibility")' = Read("ConsoleVisibility")
  BY ShowFacts DEF Read
<1>5. MemoryInv' /\ MarkInv'
  BY <1>4, ShowFacts, SettingNames DEF DesktopInv, FileInv, MemoryInv, MarkInv
<1>6. ConsoleInv'
  BY <1>4, ShowFacts, SettingNames DEF DesktopInv, FileInv, ConsoleInv
<1> QED
  BY <1>1, <1>2, <1>3, <1>5, <1>6 DEF DesktopInv, FileInv

LEMMA EndStep ==
  ASSUME DesktopInv, End
  PROVE  DesktopInv'
<1>1. /\ UNCHANGED <<DEBUG, held, isClientMode, marked, console, start_minimized, ini, lost, faults>>
      /\ running /\ ~running' /\ gui' = "loop" /\ window' = "none" /\ icon' = FALSE
      /\ running' = FALSE
  BY DEF End
<1>2. /\ "ConsoleVisibility" \in cut' <=>
           "ConsoleVisibility" \in cut \/ (gui = "keep" /\ window # "none")
      /\ "StartMinimized" \in cut' <=> "StartMinimized" \in cut \/ gui = "mark"
      /\ cut' \subseteq Settings
  BY SettingNames DEF End, DesktopInv, DesktopTypeOK
<1>3. DesktopTypeOK'
  BY <1>1, <1>2 DEF DesktopInv, DesktopTypeOK
<1>4. HandlersInv'
  <2>1. 1 \in 1..(Len(CodeOrder) + 1)
    BY OrderFacts
  <2>2. index' \in [Handlers -> 1..(Len(CodeOrder) + 1)]
    BY <2>1 DEF End
  <2>3. InjectionTypeOK'
    BY <1>1, <2>2 DEF End, DesktopInv, HandlersInv, InjectionTypeOK
  <2>4. EventInv' /\ ReleasedInv'
    BY DEF End, EventInv, ReleasedInv
  <2> QED
    BY <2>3, <2>4 DEF HandlersInv
<1>5. HiddenHasIcon' /\ ProcessInv'
  BY <1>1 DEF HiddenHasIcon, ProcessInv
<1>6. /\ Read("StartMinimized")' = Read("StartMinimized")
      /\ Read("ConsoleVisibility")' = Read("ConsoleVisibility")
  BY <1>1 DEF Read
<1>7. MemoryInv' /\ MarkInv'
  BY <1>1, <1>2, <1>6 DEF DesktopInv, ProcessInv, FileInv, MemoryInv, MarkInv
<1>8. ConsoleInv'
  BY <1>1, <1>2, <1>6 DEF DesktopInv, ProcessInv, FileInv, ConsoleInv
<1> QED
  BY <1>3, <1>4, <1>5, <1>7, <1>8 DEF DesktopInv, FileInv

\* The windows change with the settings, the file and the mark left alone.
LEMMA WindowStep ==
  ASSUME DesktopInv, Minimize \/ Restore \/ OpenFromTray \/ ExplorerRestarts
  PROVE  DesktopInv'
<1>1. /\ UNCHANGED <<serverVars, isClientMode, running, gui, marked, console>>
      /\ UNCHANGED <<start_minimized, ini, cut>>
  BY DEF Minimize, Restore, OpenFromTray, ExplorerRestarts, settingVars
<1>2. /\ window # "none" /\ window' \in {"shown", "minimized", "hidden"} /\ icon' \in BOOLEAN
      /\ window' = "hidden" => icon' \/ "icon" \in lost'
      /\ lost' \subseteq Settings \cup {"icon"} /\ faults' \in 0..MaxFaults
      /\ \A setting \in Settings : setting \in lost' <=> setting \in lost
  <2>1. DesktopTypeOK /\ ProcessInv
    BY DEF DesktopInv
  <2>2. CASE Minimize /\ MinimizeToTray(lost)
    BY <2>1, <2>2, TrayFacts DEF Minimize
  <2>3. CASE Minimize /\ window' = "minimized" /\ UNCHANGED <<icon, lost, faults>>
    BY <2>1, <2>3 DEF Minimize, DesktopTypeOK
  <2>4. CASE Restore \/ OpenFromTray
    BY <2>1, <2>4 DEF Restore, OpenFromTray, ProcessInv, DesktopTypeOK, settingVars
  <2>5. CASE ExplorerRestarts
    <3>1. lost \cup {"icon"} \subseteq Settings \cup {"icon"}
      BY <2>1 DEF DesktopTypeOK
    <3>2. faults' \in 0..MaxFaults /\ lost' = lost \cup {"icon"}
      BY <2>1, <2>5, <3>1, FaultTypes DEF ExplorerRestarts
    <3> QED
      BY <2>1, <2>5, <3>1, <3>2, SettingNames DEF ExplorerRestarts, ProcessInv, DesktopTypeOK
  <2> QED
    BY <2>2, <2>3, <2>4, <2>5 DEF Minimize
<1>3. DesktopTypeOK'
  BY <1>1, <1>2 DEF DesktopInv, DesktopTypeOK
<1>4. HandlersInv'
  BY <1>1, HandlersFrame DEF DesktopInv
<1>5. HiddenHasIcon' /\ ProcessInv'
  BY <1>1, <1>2 DEF DesktopInv, HiddenHasIcon, ProcessInv
<1>6. /\ Read("StartMinimized")' = Read("StartMinimized")
      /\ Read("ConsoleVisibility")' = Read("ConsoleVisibility")
  BY <1>1 DEF Read
<1>7. FileInv'
  BY <1>1, <1>2, <1>6, SettingNames DEF DesktopInv, FileInv, MemoryInv, MarkInv, ConsoleInv
<1> QED
  BY <1>3, <1>4, <1>5, <1>7 DEF DesktopInv

LEMMA MinimizeOnStartStep ==
  ASSUME DesktopInv, MinimizeOnStart
  PROVE  DesktopInv'
<1>1. /\ UNCHANGED <<serverVars, isClientMode, running, window, icon, marked, console, cut>>
      /\ gui = "loop" /\ window = "shown" /\ gui' = "mark"
      /\ start_minimized' = ~start_minimized /\ Write("StartMinimized", start_minimized')
  BY DEF MinimizeOnStart, shownVars
<1>2. DesktopTypeOK /\ start_minimized' \in BOOLEAN
  BY <1>1 DEF DesktopInv
<1>3. /\ ini' \in [Settings -> {"Yes", "No", "missing"}]
      /\ lost' \subseteq Settings \cup {"icon"} /\ faults' \in 0..MaxFaults
  BY <1>1, <1>2, SettingNames, WriteFacts
<1>4. /\ "StartMinimized" \notin lost' => Read("StartMinimized")' = start_minimized'
      /\ Read("ConsoleVisibility")' = Read("ConsoleVisibility")
      /\ "ConsoleVisibility" \in lost' <=> "ConsoleVisibility" \in lost
      /\ "icon" \in lost' <=> "icon" \in lost
  BY <1>1, <1>2, SettingNames, WriteFacts
<1>5. DesktopTypeOK'
  BY <1>1, <1>2, <1>3 DEF DesktopTypeOK
<1>6. HandlersInv'
  BY <1>1, HandlersFrame DEF DesktopInv
<1>7. HiddenHasIcon' /\ ProcessInv'
  BY <1>1, <1>4 DEF DesktopInv, HiddenHasIcon, ProcessInv
<1>8. MemoryInv' /\ MarkInv'
  BY <1>1, <1>2, <1>4 DEF DesktopInv, FileInv, MemoryInv, MarkInv
<1>9. ConsoleInv'
  BY <1>1, <1>4 DEF DesktopInv, FileInv, ConsoleInv
<1> QED
  BY <1>5, <1>6, <1>7, <1>8, <1>9 DEF DesktopInv, FileInv

LEMMA ToggleMarkStep ==
  ASSUME DesktopInv, ToggleMark
  PROVE  DesktopInv'
<1>1. /\ UNCHANGED <<serverVars, isClientMode, running, window, icon, console>>
      /\ UNCHANGED <<start_minimized, ini, lost, cut, faults>>
      /\ gui = "mark" /\ gui' = "loop" /\ marked' = ~marked
  BY DEF ToggleMark, settingVars
<1>2. DesktopTypeOK'
  BY <1>1 DEF DesktopInv, DesktopTypeOK
<1>3. HandlersInv'
  BY <1>1, HandlersFrame DEF DesktopInv
<1>4. HiddenHasIcon' /\ ProcessInv'
  BY <1>1 DEF DesktopInv, HiddenHasIcon, ProcessInv
<1>5. /\ Read("StartMinimized")' = Read("StartMinimized")
      /\ Read("ConsoleVisibility")' = Read("ConsoleVisibility")
  BY <1>1 DEF Read
<1>6. FileInv'
  BY <1>1, <1>5 DEF DesktopInv, ProcessInv, FileInv, MemoryInv, MarkInv, ConsoleInv
<1> QED
  BY <1>2, <1>3, <1>4, <1>6 DEF DesktopInv

LEMMA ToggleConsoleStep ==
  ASSUME DesktopInv, ToggleConsole
  PROVE  DesktopInv'
<1>1. /\ UNCHANGED <<serverVars, isClientMode, running, window, icon, marked, start_minimized>>
      /\ UNCHANGED <<ini, cut>>
      /\ gui = "loop" /\ window # "none" /\ running
  BY DEF ToggleConsole, DesktopInv, ProcessInv
<1>2. /\ lost' \subseteq Settings \cup {"icon"} /\ faults' \in 0..MaxFaults
      /\ \A other \in {"StartMinimized", "icon"} : other \in lost' <=> other \in lost
      /\ \/ /\ console' \in {"shown", "hidden"} /\ gui' = "keep" /\ lost' = lost
            /\ console' = "shown" <=> console # "shown"
         \/ console' = "none" /\ "ConsoleVisibility" \in lost' /\ gui' = "loop"
  <2>1. DesktopTypeOK
    BY DEF DesktopInv
  <2>2. CASE console = "none" /\ NewConsole
    BY <1>1, <2>1, <2>2, NewConsoleFacts
  <2>3. CASE /\ console # "none" /\ gui' = "keep"
             /\ console' = (IF console = "shown" THEN "hidden" ELSE "shown")
             /\ UNCHANGED <<lost, faults>>
    BY <2>1, <2>3 DEF DesktopTypeOK
  <2> QED
    BY <2>2, <2>3 DEF ToggleConsole, ToggleConsoleVisibility
<1>3. DesktopTypeOK'
  BY <1>1, <1>2 DEF DesktopInv, DesktopTypeOK
<1>4. HandlersInv'
  BY <1>1, HandlersFrame DEF DesktopInv
<1>5. HiddenHasIcon' /\ ProcessInv'
  BY <1>1, <1>2 DEF DesktopInv, HiddenHasIcon, ProcessInv
<1>6. /\ Read("StartMinimized")' = Read("StartMinimized")
      /\ Read("ConsoleVisibility")' = Read("ConsoleVisibility")
  BY <1>1 DEF Read
<1>7. MemoryInv' /\ MarkInv'
  BY <1>1, <1>2, <1>6 DEF DesktopInv, FileInv, MemoryInv, MarkInv
<1>8. ConsoleInv'
  BY <1>1, <1>2, <1>6 DEF DesktopInv, FileInv, ConsoleInv
<1> QED
  BY <1>3, <1>4, <1>5, <1>7, <1>8 DEF DesktopInv, FileInv

LEMMA KeepVisibilityStep ==
  ASSUME DesktopInv, KeepVisibility
  PROVE  DesktopInv'
<1>1. /\ UNCHANGED <<serverVars, isClientMode, running, window, icon, marked, console>>
      /\ UNCHANGED <<start_minimized, cut>>
      /\ gui = "keep" /\ gui' = IF window = "none" THEN "window" ELSE "loop"
      /\ Write("ConsoleVisibility", console = "shown")
  BY DEF KeepVisibility, shownVars
<1>2. DesktopTypeOK /\ (console = "shown") \in BOOLEAN
  BY DEF DesktopInv
<1>3. /\ ini' \in [Settings -> {"Yes", "No", "missing"}]
      /\ lost' \subseteq Settings \cup {"icon"} /\ faults' \in 0..MaxFaults
  BY <1>1, <1>2, SettingNames, WriteFacts
<1>4. /\ "ConsoleVisibility" \notin lost' => Read("ConsoleVisibility")' = (console = "shown")
      /\ Read("StartMinimized")' = Read("StartMinimized")
      /\ "StartMinimized" \in lost' <=> "StartMinimized" \in lost
      /\ "icon" \in lost' <=> "icon" \in lost
  BY <1>1, <1>2, SettingNames, WriteFacts
<1>5. DesktopTypeOK'
  BY <1>1, <1>2, <1>3 DEF DesktopTypeOK
<1>6. HandlersInv'
  BY <1>1, HandlersFrame DEF DesktopInv
<1>7. HiddenHasIcon' /\ ProcessInv'
  BY <1>1, <1>4 DEF DesktopInv, HiddenHasIcon, ProcessInv
<1>8. MemoryInv' /\ MarkInv'
  BY <1>1, <1>4 DEF DesktopInv, FileInv, MemoryInv, MarkInv
<1>9. ConsoleInv'
  BY <1>1, <1>4 DEF DesktopInv, ProcessInv, FileInv, ConsoleInv
<1> QED
  BY <1>5, <1>6, <1>7, <1>8, <1>9 DEF DesktopInv, FileInv

LEMMA DesktopStep == DesktopInv /\ [Next]_vars => DesktopInv'
<1> SUFFICES ASSUME DesktopInv, [Next]_vars PROVE DesktopInv'
  OBVIOUS
<1>1. CASE Start
  BY <1>1, StartStep
<1>2. CASE ShowWindow
  BY <1>2, ShowWindowStep
<1>3. CASE End
  BY <1>3, EndStep
<1>4. CASE User \/ ExplorerRestarts
  BY <1>4, WindowStep, MinimizeOnStartStep, ToggleConsoleStep DEF User
<1>5. CASE KeepVisibility \/ ToggleMark
  BY <1>5, KeepVisibilityStep, ToggleMarkStep
<1>6. ASSUME NEW h \in Handlers, Send(h) PROVE DesktopInv'
  <2>1. PICK e \in Events : event' = [event EXCEPT ![h] = <<e>>]
    BY <1>6 DEF Send
  <2>2. Idle(h) /\ UNCHANGED <<DEBUG, held, pc, loopVars>> /\ UNCHANGED desktopVars
    BY <1>6 DEF Send
  <2>3. HandlersInv'
    BY <2>1, <2>2, EventArrives DEF DesktopInv
  <2> QED
    BY <2>2, <2>3, DesktopFrame
<1>7. ASSUME NEW h \in Handlers, handleClient(h), UNCHANGED desktopVars PROVE DesktopInv'
  BY <1>7, HandlersStep, DesktopFrame DEF DesktopInv
<1>8. CASE UNCHANGED vars
  BY <1>8, HandlersFrame, DesktopFrame DEF vars, DesktopInv
<1> QED
  BY <1>1, <1>2, <1>3, <1>4, <1>5, <1>6, <1>7, <1>8 DEF Next

LEMMA DesktopInvHolds == Spec => []DesktopInv
BY DesktopInit, DesktopStep, PTL DEF Spec

-----------------------------------------------------------------------------

\* Window, icon, settings, file and the handlers' state have their types.
THEOREM DesktopTypeCorrect == Spec => []TypeOK
<1>1. DesktopInv => TypeOK
  BY DEF DesktopInv, DesktopTypeOK, HandlersInv, TypeOK
<1> QED
  BY <1>1, DesktopInvHolds, PTL

\* MinimizeToTray: a hidden window of the server has its icon, unless NIM_ADD
\* failed or Explorer was restarted.
THEOREM HiddenWindowOpens == Spec => []HiddenHasIcon
<1>1. DesktopInv => HiddenHasIcon
  BY DEF DesktopInv
<1> QED
  BY <1>1, DesktopInvHolds, PTL

\* The menu's mark, which only GetMenuState keeps, agrees with the file between
\* two commands, as long as the file could be written.
THEOREM MarkIsRight == Spec => []MarkTellsNextStart
<1>1. DesktopInv => MarkTellsNextStart
  <2> SUFFICES ASSUME DesktopInv, window # "none", gui # "mark", "StartMinimized" \notin lost
               PROVE  marked = Read("StartMinimized")
    BY DEF MarkTellsNextStart
  <2>1. marked <=> Read("StartMinimized")
    BY DEF DesktopInv, FileInv, MarkInv
  <2>2. marked \in BOOLEAN /\ Read("StartMinimized") \in BOOLEAN
    BY DEF DesktopInv, DesktopTypeOK, Read
  <2> QED
    BY <2>1, <2>2
<1> QED
  BY <1>1, DesktopInvHolds, PTL

\* WinMain brings back the console of the process before, wherever that one ended,
\* also between ToggleConsoleVisibility's change of the console and its write.
LEMMA ConsoleComesBack ==
  ASSUME DesktopInv, Start, "ConsoleVisibility" \notin lost \cup lost'
  PROVE  (console' = "shown") <=> ((console = "shown") # ("ConsoleVisibility" \in cut))
<1>1. gui = "loop" /\ ((console' = "shown") <=> Read("ConsoleVisibility"))
  BY StartFacts
<1>2. CASE "ConsoleVisibility" \in cut
  <2>1. (console = "shown") <=> ~Read("ConsoleVisibility")
    BY <1>2 DEF DesktopInv, FileInv, ConsoleInv
  <2> QED
    BY <1>1, <1>2, <2>1
<1>3. CASE "ConsoleVisibility" \notin cut
  <2>1. (console = "shown") <=> Read("ConsoleVisibility")
    BY <1>1, <1>3 DEF DesktopInv, FileInv, ConsoleInv
  <2> QED
    BY <1>1, <1>3, <2>1
<1> QED
  BY <1>2, <1>3

\* It shows the window as the mark said, wherever that process ended, also between
\* the write of Minimize on start and the mark.
LEMMA WindowComesBack ==
  ASSUME DesktopInv, ShowWindow, "StartMinimized" \notin lost
  PROVE  (window' # "shown") <=> (marked # ("StartMinimized" \in cut))
<1>1. /\ gui # "mark" /\ running /\ window = "none"
      /\ ((window' # "shown") <=> start_minimized)
  BY ShowFacts
<1>2. start_minimized <=> Read("StartMinimized")
  BY <1>1 DEF DesktopInv, FileInv, MemoryInv
<1>3. marked \in BOOLEAN
  BY DEF DesktopInv, DesktopTypeOK
<1>4. CASE "StartMinimized" \in cut
  <2>1. marked <=> ~Read("StartMinimized")
    BY <1>4 DEF DesktopInv, FileInv, MarkInv
  <2> QED
    BY <1>1, <1>2, <1>3, <1>4, <2>1
<1>5. CASE "StartMinimized" \notin cut
  <2>1. marked <=> Read("StartMinimized")
    BY <1>1, <1>5 DEF DesktopInv, FileInv, MarkInv
  <2> QED
    BY <1>1, <1>2, <1>3, <1>5, <2>1
<1> QED
  BY <1>4, <1>5

\* A process comes up with the console and the window as the one before left them,
\* at whatever moment that one ended; a command it cut short is told apart.
THEOREM SettingsSurvive == Spec => StartsAsLeft
<1>1. DesktopInv /\ [Next]_vars =>
        [/\ Start /\ "ConsoleVisibility" \notin lost \cup lost'
              => ((console' = "shown") <=> ((console = "shown") # ("ConsoleVisibility" \in cut)))
         /\ ShowWindow /\ "StartMinimized" \notin lost
              => ((window' # "shown") <=> (marked # ("StartMinimized" \in cut)))]_vars
  BY ConsoleComesBack, WindowComesBack
<1> QED
  BY <1>1, DesktopInvHolds, PTL DEF Spec, StartsAsLeft

\* ServerKeyPressUP's debug loop ends with no key down but those pressed since it
\* began, whatever the order of the codes and the interleaving of the handlers.
THEOREM LoopUnsticks == Spec => NothingStuckInDebug
<1>1. DesktopInv => [\A h \in Handlers : EndRelease(h) => held \subseteq since[h]]_serverVars
  BY LoopReleasesAll DEF DesktopInv
<1> QED
  BY <1>1, DesktopInvHolds, PTL DEF NothingStuckInDebug
=============================================================================
