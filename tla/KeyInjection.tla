---------------------------- MODULE KeyInjection ----------------------------
(***************************************************************************)
(* The server's side of a key: a thread in handleClient for each client    *)
(* receives an event, injects the key with SendInput and answers.  All     *)
(* handlers share one keyboard.  In debug mode a key-down is logged first, *)
(* and a key-up is followed by a loop that releases every key that         *)
(* GetAsyncKeyState still finds down.  Which window is in front is not     *)
(* modelled: no step depends on it, not even on the result of bringing the *)
(* simulator's window there before a key-down (SendInput.cpp:150).         *)
(*                                                                         *)
(* SendInput is given a scan code, and the generic codes of Shift, Control *)
(* and Alt have that of the left key.                                      *)
(***************************************************************************)
EXTENDS Naturals, Sequences

CONSTANTS Modifiers,  \* generic codes: VK_SHIFT, VK_CONTROL, VK_MENU
          OtherKeys,  \* codes of keys that have a scan code of their own
          CodeOrder,  \* the codes, 0 to 0xFF, in the order in which the debug loop tests them
          Handlers,   \* threads in handleClient
          DebugModes  \* what the setting Debug may be

ASSUME InjectionAssumption ==
  /\ Modifiers \cap OtherKeys = {}
  /\ \A c, d \in Modifiers \cup OtherKeys : d \notin {<<c, "left">>, <<c, "right">>}
  /\ DebugModes \subseteq BOOLEAN
  /\ CodeOrder \in Seq(Modifiers \cup OtherKeys \cup Modifiers \X {"left", "right"})
  /\ \A c \in Modifiers \cup OtherKeys \cup Modifiers \X {"left", "right"} :
       \E i \in 1..Len(CodeOrder) : CodeOrder[i] = c

VARIABLES
  DEBUG,       \* read from the settings file once
  held,        \* keys that are down on the server: what GetAsyncKeyState reads
  pc,          \* where each handler is
  event,       \* what a handler has to receive or to inject, at most one event
  index,       \* place of a handler's debug loop in CodeOrder
  since        \* keys that went down since a handler's debug loop began (history)

loopVars == <<index, since>>
serverVars == <<DEBUG, held, pc, event, loopVars>>

Sided == Modifiers \X {"left", "right"}
Physical == Sided \cup OtherKeys
Codes == Physical \cup Modifiers
Events == [code : Codes, isKeyDown : BOOLEAN]

\* Mutant: a key is injected by its code.
Unmapped(code) == code

\* The key that MapVirtualKey finds for a code.
ServerKey(code) == IF code \in Modifiers THEN <<code, "left">> ELSE code

InjectionTypeOK ==
  /\ DEBUG \in BOOLEAN
  /\ held \subseteq Physical
  /\ pc \in [Handlers -> {"recv", "log", "logging", "inject", "release"}]
  /\ event \in [Handlers -> {<<>>} \cup {<<e>> : e \in Events}]
  /\ index \in [Handlers -> 1..(Len(CodeOrder) + 1)]
  /\ since \in [Handlers -> SUBSET Physical]

InjectionInit ==
  /\ DEBUG \in DebugModes
  /\ held = {}
  /\ pc = [h \in Handlers |-> "recv"]
  /\ event = [h \in Handlers |-> <<>>]
  /\ index = [h \in Handlers |-> 1]
  /\ since = [h \in Handlers |-> {}]

\* The handler waits in recv, and its client has been answered.
Idle(h) == pc[h] = "recv" /\ event[h] = <<>>

-----------------------------------------------------------------------------
(* handleClient.                                                           *)

At(h, from, to) == pc[h] = from /\ pc' = [pc EXCEPT ![h] = to]

\* recv, and what comes before SendInput in ServerKeyPressDOWN.
ReceiveDown(h) ==
  /\ event[h] # <<>> /\ Head(event[h]).isKeyDown
  /\ At(h, "recv", IF DEBUG THEN "log" ELSE "inject")
  /\ UNCHANGED <<DEBUG, held, event, loopVars>>

ReceiveUp(h) ==
  /\ event[h] # <<>> /\ ~Head(event[h]).isKeyDown
  /\ At(h, "recv", "inject")
  /\ UNCHANGED <<DEBUG, held, event, loopVars>>

\* Logger::log holds the lock mu while it writes.
Log(h) ==
  /\ \A g \in Handlers : pc[g] # "logging"
  /\ At(h, "log", "logging")
  /\ UNCHANGED <<DEBUG, held, event, loopVars>>

EndLog(h) ==
  /\ At(h, "logging", "inject")
  /\ UNCHANGED <<DEBUG, held, event, loopVars>>

\* SendInput with the event's scan code, in ServerKeyPressDOWN.  The debug loops
\* that are under way may have tested the key already.
InjectDown(h) ==
  /\ pc[h] = "inject" /\ Head(event[h]).isKeyDown
  /\ At(h, "inject", "recv")
  /\ LET key == ServerKey(Head(event[h]).code) IN
       /\ held' = held \cup {key}
       /\ since' = [g \in Handlers |->
                      IF pc[g] = "release" THEN since[g] \cup {key} ELSE since[g]]
  /\ event' = [event EXCEPT ![h] = <<>>]
  /\ UNCHANGED <<DEBUG, index>>

\* SendInput with KEYEVENTF_KEYUP, in ServerKeyPressUP; debug mode then pauses.
InjectUp(h) ==
  /\ pc[h] = "inject" /\ ~Head(event[h]).isKeyDown
  /\ At(h, "inject", IF DEBUG THEN "release" ELSE "recv")
  /\ held' = held \ {ServerKey(Head(event[h]).code)}
  /\ event' = [event EXCEPT ![h] = <<>>]
  /\ UNCHANGED <<DEBUG, loopVars>>

\* GetAsyncKeyState of a generic code finds the left and the right key.
IsDown(code) ==
  IF code \in Modifiers THEN {<<code, "left">>, <<code, "right">>} \cap held # {}
                        ELSE code \in held

\* Mutant: a key is released only by its scan code.
ScanCodeRelease(code) == code \in Codes /\ UNCHANGED held

\* KeyRelease.  ScanCodeRelease after it has no effect: SendInput takes the scan
\* code from wScan, which is 0.
KeyRelease(code) == held' = held \ {ServerKey(code)}

\* One round of the debug loop.
ReleaseIfDown(h) ==
  /\ pc[h] = "release" /\ index[h] <= Len(CodeOrder)
  /\ LET code == CodeOrder[index[h]] IN
       IF IsDown(code) THEN KeyRelease(code) ELSE UNCHANGED held
  /\ index' = [index EXCEPT ![h] = @ + 1]
  /\ UNCHANGED <<DEBUG, pc, event, since>>

EndRelease(h) ==
  /\ index[h] > Len(CodeOrder)
  /\ At(h, "release", "recv")
  /\ index' = [index EXCEPT ![h] = 1]
  /\ since' = [since EXCEPT ![h] = {}]
  /\ UNCHANGED <<DEBUG, held, event>>

handleClient(h) ==
  \/ ReceiveDown(h) \/ ReceiveUp(h) \/ Log(h) \/ EndLog(h)
  \/ InjectDown(h) \/ InjectUp(h) \/ ReleaseIfDown(h) \/ EndRelease(h)

-----------------------------------------------------------------------------

\* "See what got stuck": the debug loop leaves no key down but those that a
\* handler pressed while it ran.
NothingStuckInDebug ==
  [][\A h \in Handlers : EndRelease(h) => held \subseteq since[h]]_serverVars
=============================================================================
