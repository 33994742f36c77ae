------------------------------ MODULE Desktop ------------------------------
(***************************************************************************)
(* SendFSKey among the windows of its computer, from one start to the      *)
(* next: its window, tray icon and console, the settings that bring them   *)
(* back, and, on the server, the handlers of KeyInjection.  A process may  *)
(* end at any moment, between two steps of a command as well: the monitor  *)
(* of the parent process and a closed console end it from other threads.   *)
(* The keys that are down then stay down.                                  *)
(*                                                                         *)
(* Startup has the rest of the settings file, the reset and the relaunch.  *)
(***************************************************************************)
EXTENDS KeyInjection

CONSTANT MaxFaults  \* bound: failed calls and restarts of Explorer

ASSUME DesktopAssumption == MaxFaults \in Nat

VARIABLES
  isClientMode,     \* the setting Mode
  running,          \* there is a process
  gui,              \* where its GUI thread is: "window" and "keep" on the way to the
                    \* message loop, "keep" and "mark" inside a command
  window,           \* its window; "none" without a process
  icon,             \* its icon is in the tray
  start_minimized,  \* the setting StartMinimized in memory
  marked,           \* the menu's "Minimize on start" is marked, or was last
  console,          \* its console, or what was last seen of it
  ini,              \* the settings file
  lost,             \* what a fault has made differ from what the user saw (history)
  cut,              \* settings whose command the end of a process cut short (history)
  faults

shownVars == <<window, icon, marked, console>>
settingVars == <<start_minimized, ini, lost, cut, faults>>
desktopVars == <<isClientMode, running, gui, shownVars, settingVars>>
vars == <<serverVars, desktopVars>>

Settings == {"StartMinimized", "ConsoleVisibility"}

TypeOK ==
  /\ InjectionTypeOK
  /\ isClientMode \in BOOLEAN /\ running \in BOOLEAN
  /\ gui \in {"loop", "window", "keep", "mark"}
  /\ window \in {"none", "shown", "minimized", "hidden"} /\ icon \in BOOLEAN
  /\ start_minimized \in BOOLEAN /\ marked \in BOOLEAN
  /\ console \in {"none", "shown", "hidden"}
  /\ ini \in [Settings -> {"Yes", "No", "missing"}]
  /\ lost \subseteq Settings \cup {"icon"} /\ cut \subseteq Settings
  /\ faults \in 0..MaxFaults

\* GetPrivateProfileString with its default: the console is shown, the window
\* is not minimized.
Read(setting) ==
  IF ini[setting] = "missing" THEN setting = "ConsoleVisibility" ELSE ini[setting] = "Yes"

\* The file has what an earlier process, or an older version, has left.
Init ==
  /\ InjectionInit
  /\ isClientMode \in BOOLEAN
  /\ running = FALSE /\ gui = "loop" /\ window = "none" /\ icon = FALSE
  /\ ini \in [Settings -> {"Yes", "No", "missing"}]
  /\ start_minimized = FALSE
  /\ marked = Read("StartMinimized")
  /\ console = IF Read("ConsoleVisibility") THEN "shown" ELSE "none"
  /\ lost = {} /\ cut = {} /\ faults = 0

Fault(what) == faults < MaxFaults /\ faults' = faults + 1 /\ lost' = what

-----------------------------------------------------------------------------
(* Settings.                                                               *)

\* WritePrivateProfileString.  It may fail, and nobody looks.
Write(setting, value) ==
  \/ /\ ini' = [ini EXCEPT ![setting] = IF value THEN "Yes" ELSE "No"]
     /\ lost' = lost \ {setting}
     /\ UNCHANGED faults
  \/ Fault(lost \cup {setting}) /\ UNCHANGED ini

\* AllocConsole, which may fail.
NewConsole ==
  \/ console' = "shown" /\ gui' = "keep" /\ UNCHANGED <<lost, faults>>
  \/ /\ console' = "none" /\ gui' = (IF window = "none" THEN "window" ELSE "loop")
     /\ Fault(lost \cup {"ConsoleVisibility"})

\* ToggleConsoleVisibility, up to the write.
ToggleConsoleVisibility ==
  \/ console = "none" /\ NewConsole
  \/ /\ console # "none" /\ gui' = "keep"
     /\ console' = IF console = "shown" THEN "hidden" ELSE "shown"
     /\ UNCHANGED <<lost, faults>>

\* Mutant: the new visibility is not written.
ForgetVisibility ==
  /\ gui = "keep" /\ gui' = IF window = "none" THEN "window" ELSE "loop"
  /\ UNCHANGED <<serverVars, isClientMode, running, shownVars, settingVars>>

\* The write of ToggleConsoleVisibility.
KeepVisibility ==
  /\ gui = "keep" /\ gui' = IF window = "none" THEN "window" ELSE "loop"
  /\ Write("ConsoleVisibility", console = "shown")
  /\ UNCHANGED <<serverVars, isClientMode, running, shownVars, start_minimized, cut>>

-----------------------------------------------------------------------------
(* The process.                                                            *)

\* What NIM_ADD returns is not looked at; it fails for an icon that is there.
MinimizeToTray(differs) ==
  /\ window' = "hidden"
  /\ \/ icon' = TRUE /\ lost' = differs \ {"icon"} /\ UNCHANGED faults
     \/ ~icon /\ icon' = FALSE /\ Fault(differs \cup {"icon"})

\* WinMain reads the settings and, if it is to, shows a console.
Start ==
  /\ ~running /\ running' = TRUE
  /\ DEBUG' \in DebugModes
  /\ start_minimized' = Read("StartMinimized")
  /\ cut' = cut \ {"ConsoleVisibility"}
  /\ IF Read("ConsoleVisibility")
       THEN NewConsole
       ELSE /\ console' = "none" /\ gui' = "window"
            /\ lost' = lost \ {"ConsoleVisibility"} /\ UNCHANGED faults
  /\ UNCHANGED <<held, pc, event, loopVars, isClientMode, window, icon, marked, ini>>

UpdateMenuCheckMarks == marked' = start_minimized

ShowClient ==
  /\ window' = IF start_minimized THEN "minimized" ELSE "shown"
  /\ lost' = lost \ {"StartMinimized"} /\ UNCHANGED <<icon, faults>>

ShowServer ==
  \/ start_minimized /\ MinimizeToTray(lost \ {"StartMinimized"})
  \/ /\ ~start_minimized /\ window' = "shown"
     /\ lost' = lost \ {"StartMinimized"} /\ UNCHANGED <<icon, faults>>

\* WinMain shows the window, and sets the menu's mark.
ShowWindow ==
  /\ gui = "window" /\ gui' = "loop"
  /\ IF isClientMode THEN ShowClient ELSE ShowServer
  /\ UpdateMenuCheckMarks
  /\ cut' = cut \ {"StartMinimized"}
  /\ UNCHANGED <<serverVars, isClientMode, running, console, start_minimized, ini>>

\* Close, Exit, Shutdown, a closed console or the end of the simulator.  The
\* handlers end where they are, and with them what they were sent.  NIM_DELETE is
\* never used: what is left of the icon opens nothing and goes when touched.  A
\* console that was shown at the start was written already.
End ==
  /\ running /\ running' = FALSE
  /\ gui' = "loop" /\ window' = "none" /\ icon' = FALSE
  /\ cut' = cut \cup (IF gui = "keep" /\ window # "none" THEN {"ConsoleVisibility"} ELSE {})
                 \cup (IF gui = "mark" THEN {"StartMinimized"} ELSE {})
  /\ pc' = [h \in Handlers |-> "recv"]
  /\ event' = [h \in Handlers |-> <<>>]
  /\ index' = [h \in Handlers |-> 1]
  /\ since' = [h \in Handlers |-> {}]
  /\ UNCHANGED <<DEBUG, held, isClientMode, marked, console, start_minimized, ini, lost, faults>>

-----------------------------------------------------------------------------
(* The window and the tray.                                                *)

\* Mutant: a window that is minimized to the tray gets no icon.
HideOnly ==
  /\ gui = "loop" /\ window = "shown"
  /\ window' = IF start_minimized /\ ~isClientMode THEN "hidden" ELSE "minimized"
  /\ UNCHANGED <<serverVars, isClientMode, running, gui, icon, marked, console, settingVars>>

\* WM_SIZE: the server's window goes to the tray, if the window of the next
\* start would.
Minimize ==
  /\ gui = "loop" /\ window = "shown"
  /\ \/ start_minimized /\ ~isClientMode /\ MinimizeToTray(lost)
     \/ /\ ~start_minimized \/ isClientMode
        /\ window' = "minimized" /\ UNCHANGED <<icon, lost, faults>>
  /\ UNCHANGED <<serverVars, isClientMode, running, gui, marked, console, start_minimized, ini, cut>>

\* The user restores the window from the task bar.
Restore ==
  /\ gui = "loop" /\ window = "minimized" /\ window' = "shown"
  /\ UNCHANGED <<serverVars, isClientMode, running, gui, icon, marked, console, settingVars>>

\* A double click on the icon, or Open: SW_RESTORE.
OpenFromTray ==
  /\ gui = "loop" /\ icon /\ window' = "shown"
  /\ UNCHANGED <<serverVars, isClientMode, running, gui, icon, marked, console, settingVars>>

\* Explorer puts back no icon: TaskbarCreated is not handled.
ExplorerRestarts ==
  /\ icon /\ icon' = FALSE
  /\ Fault(lost \cup {"icon"})
  /\ UNCHANGED <<serverVars, isClientMode, running, gui, window, marked, console, start_minimized,
                 ini, cut>>

\* Mutant: the setting is written before it is changed.
WriteBeforeToggle ==
  /\ gui = "loop" /\ window = "shown" /\ gui' = "mark"
  /\ start_minimized' = ~start_minimized
  /\ Write("StartMinimized", start_minimized)
  /\ UNCHANGED <<serverVars, isClientMode, running, shownVars, cut>>

\* Minimize on start: the setting is changed and written.
MinimizeOnStart ==
  /\ gui = "loop" /\ window = "shown" /\ gui' = "mark"
  /\ start_minimized' = ~start_minimized
  /\ Write("StartMinimized", start_minimized')
  /\ UNCHANGED <<serverVars, isClientMode, running, shownVars, cut>>

\* The mark follows, not from the setting but from what GetMenuState says.
ToggleMark ==
  /\ gui = "mark" /\ gui' = "loop"
  /\ marked' = ~marked
  /\ UNCHANGED <<serverVars, isClientMode, running, window, icon, console, settingVars>>

\* Enable console, from the window's menu or the tray's.
ToggleConsole ==
  /\ gui = "loop" /\ (window = "shown" \/ icon)
  /\ ToggleConsoleVisibility
  /\ UNCHANGED <<serverVars, isClientMode, running, window, icon, marked, start_minimized, ini, cut>>

User == Minimize \/ Restore \/ OpenFromTray \/ MinimizeOnStart \/ ToggleConsole

-----------------------------------------------------------------------------

\* A client's key: the server is started after its window is shown.
Send(h) ==
  /\ ~isClientMode /\ window # "none" /\ Idle(h)
  /\ \E e \in Events : event' = [event EXCEPT ![h] = <<e>>]
  /\ UNCHANGED <<DEBUG, held, pc, loopVars, desktopVars>>

Next ==
  \/ Start \/ ShowWindow \/ End
  \/ User \/ KeepVisibility \/ ToggleMark \/ ExplorerRestarts
  \/ \E h \in Handlers : Send(h)
  \/ \E h \in Handlers : handleClient(h) /\ UNCHANGED desktopVars

Spec == Init /\ [][Next]_vars

-----------------------------------------------------------------------------

\* The server's window is never hidden without an icon to open it from, unless
\* NIM_ADD failed or Explorer was restarted since the icon was last added.
HiddenHasIcon == window = "hidden" /\ "icon" \notin lost => icon

\* Between two commands the mark in the menu tells how the next process will
\* start, although setting, file and mark are changed apart from each other.
MarkTellsNextStart ==
  window # "none" /\ gui # "mark" /\ "StartMinimized" \notin lost
    => marked = Read("StartMinimized")

\* Whatever the moment at which a process ended, the next one brings back what the
\* user last saw of it: the console if it was shown, and the window minimized if
\* the menu said so.  Only of a command that the end cut short the outcome is the
\* other one: a toggled console is as it was before, and Minimize on start is in
\* effect though its mark was not seen to change.
StartsAsLeft ==
  [][/\ Start /\ "ConsoleVisibility" \notin lost \cup lost'
         => ((console' = "shown") <=> ((console = "shown") # ("ConsoleVisibility" \in cut)))
     /\ ShowWindow /\ "StartMinimized" \notin lost
         => ((window' # "shown") <=> (marked # ("StartMinimized" \in cut)))]_vars
=============================================================================
