--------------------------- MODULE KeyTranslation ---------------------------
(***************************************************************************)
(* getKey: Windows reports Shift, Control and Alt under a generic code;    *)
(* the client sends the code of the left or the right key instead, and     *)
(* remembers it in keyDownToUpMapping for the key's release.               *)
(*                                                                         *)
(* The keyboard queues a message for every press and release while the     *)
(* client's window has the focus, and GetAsyncKeyState reads the physical  *)
(* keys at the time the GUI thread gets to the message.  The event goes to *)
(* the handler of the client's connection, in KeyInjection; the GUI thread *)
(* waits for the answer.  Without a connection, and with UseQueing off,    *)
(* the event is dropped: how a connection is lost and established is the   *)
(* subject of NetworkClient, and the windows on the server that of Desktop. *)
(***************************************************************************)
EXTENDS KeyInjection

CONSTANTS OtherClientCodes,  \* codes that clients on other computers send
          ClientKeys,        \* physical keys that the client's user presses
          MaxLag,            \* messages the GUI thread may be behind
          BothSides          \* may the left and the right key of a modifier be held together

ASSUME KeyAssumption ==
  /\ MaxLag \in Nat /\ BothSides \in BOOLEAN
  /\ OtherClientCodes \subseteq Codes /\ ClientKeys \subseteq Physical

VARIABLES
  pressed,             \* physical keys that are down: what GetAsyncKeyState reads
  focused,             \* the client's window gets the keyboard's messages
  messages,            \* WM_KEYDOWN and WM_KEYUP the GUI thread has not handled
  keyDownToUpMapping,  \* code sent for a code at key-down; itself without an entry
  connected,           \* the client has a verified connection
  mine,                \* the handler of the client's last connection
  missed,              \* keys of which the server has missed an event (history)
  late                 \* modifiers that changed before their key-down was handled, or
                       \* while the key of the other side was down (history)

historyVars == <<missed, late>>
clientVars == <<pressed, focused, messages, keyDownToUpMapping, connected, mine, historyVars>>
vars == <<serverVars, clientVars>>

\* The code Windows puts into the message of a physical key.
Reported(key) == IF key \in Sided THEN key[1] ELSE key

TypeOK ==
  /\ InjectionTypeOK
  /\ pressed \subseteq Physical /\ missed \subseteq Physical /\ late \subseteq Physical
  /\ focused \in BOOLEAN /\ connected \in BOOLEAN
  /\ messages \in Seq([code : Modifiers \cup OtherKeys, isKeyDown : BOOLEAN])
  /\ Len(messages) <= MaxLag
  /\ keyDownToUpMapping \in [Codes -> Codes]
  /\ mine \in Handlers

Init ==
  /\ InjectionInit
  /\ pressed = {} /\ missed = {} /\ late = {}
  /\ focused = TRUE /\ connected = TRUE
  /\ messages = <<>>
  /\ keyDownToUpMapping = [c \in Codes |-> c]
  /\ mine \in Handlers

-----------------------------------------------------------------------------
(* The keyboard.  It is at most MaxLag messages ahead of the GUI thread.   *)

\* Nothing in the code hears of a key while another window has the focus.
Post(key, isKeyDown) ==
  /\ Len(messages) < MaxLag
  /\ IF focused
       THEN /\ messages' = Append(messages, [code |-> Reported(key), isKeyDown |-> isKeyDown])
            /\ UNCHANGED missed
       ELSE missed' = missed \cup {key} /\ UNCHANGED messages
  /\ UNCHANGED <<serverVars, focused, keyDownToUpMapping, connected, mine>>

OtherSide(key) == {k \in Sided \ {key} : k[1] = key[1]}

Waiting(code) == {i \in DOMAIN messages : messages[i].code = code}

\* GetAsyncKeyState will not see the keyboard as it was when a key-down was posted.
Change(key) ==
  late' = IF /\ key \in Sided
             /\ \/ OtherSide(key) \cap pressed # {}
                \/ \E i \in Waiting(key[1]) : messages[i].isKeyDown
            THEN late \cup {key} \cup OtherSide(key)
            ELSE late

\* A key goes down, or repeats while it is down.
Press(key) ==
  /\ key \in Sided /\ ~BothSides => OtherSide(key) \cap pressed = {}
  /\ pressed' = pressed \cup {key}
  /\ IF key \in pressed THEN UNCHANGED late ELSE Change(key)
  /\ Post(key, TRUE)

Release(key) ==
  /\ key \in pressed
  /\ pressed' = pressed \ {key}
  /\ Change(key)
  /\ Post(key, FALSE)

\* The user goes to another window, or comes back.
SwitchFocus ==
  /\ focused' = ~focused
  /\ UNCHANGED <<serverVars, pressed, messages, keyDownToUpMapping, connected, mine, historyVars>>

Keyboard == SwitchFocus \/ \E key \in ClientKeys : Press(key) \/ Release(key)

-----------------------------------------------------------------------------
(* The connection.                                                         *)

\* A connection is lost.  An event that the handler has not received may be lost
\* with it; one that it has received is injected.
LoseConnection ==
  /\ connected /\ connected' = FALSE
  /\ missed' = missed \cup {ServerKey(e.code) : e \in {event[mine][i] : i \in DOMAIN event[mine]}}
  /\ event' \in {event} \cup
       (IF pc[mine] = "recv" THEN {[event EXCEPT ![mine] = <<>>]} ELSE {})
  /\ UNCHANGED <<DEBUG, held, pc, loopVars>>
  /\ UNCHANGED <<pressed, focused, messages, keyDownToUpMapping, mine, late>>

\* A new connection has a handler of its own.
Reconnect ==
  /\ ~connected /\ connected' = TRUE
  /\ \E h \in Handlers : Idle(h) /\ mine' = h
  /\ UNCHANGED <<serverVars, pressed, focused, messages, keyDownToUpMapping, historyVars>>

\* Another client's key.
OtherClient(h) ==
  /\ h # mine /\ Idle(h)
  /\ \E c \in OtherClientCodes, d \in BOOLEAN :
       event' = [event EXCEPT ![h] = <<[code |-> c, isKeyDown |-> d]>>]
  /\ UNCHANGED <<DEBUG, held, pc, loopVars, clientVars>>

-----------------------------------------------------------------------------
(* getKey and sendKeyPress, for the oldest message.                        *)

\* A handler of an earlier connection that has yet to inject the key.
Overdue(key) ==
  \E h \in Handlers \ {mine} : event[h] # <<>> /\ ServerKey(Head(event[h]).code) = key

\* The server is told of a key again by a key-down that is sent while the key is
\* down, the key of the other side is not, and nothing else of theirs is on its way.
Told(code, isKeyDown) ==
  IF /\ isKeyDown /\ code \in pressed /\ ~Overdue(code)
     /\ code \in Sided => OtherSide(code) \cap pressed = {}
     /\ Waiting(Reported(code)) \subseteq {1}
    THEN {code} ELSE {}

Send(code, isKeyDown) ==
  /\ connected /\ Idle(mine)
  /\ event' = [event EXCEPT ![mine] = <<[code |-> code, isKeyDown |-> isKeyDown]>>]
  /\ missed' = missed \ Told(code, isKeyDown) /\ late' = late \ Told(code, isKeyDown)
  /\ UNCHANGED <<DEBUG, held, pc, loopVars>>

\* "Ignored while re-connecting", or send fails: the server misses the event, if it
\* would have changed the key.
Drop(code, isKeyDown) ==
  /\ ~connected
  /\ missed' = IF (ServerKey(code) \in held) = isKeyDown THEN missed
                                                        ELSE missed \cup {ServerKey(code)}
  /\ UNCHANGED <<serverVars, late>>

sendKeyPress(code, isKeyDown) == Send(code, isKeyDown) \/ Drop(code, isKeyDown)

\* GetAsyncKeyState is asked for the left key first.
Converted(code) ==
  IF <<code, "left">> \in pressed THEN <<code, "left">>
  ELSE IF <<code, "right">> \in pressed THEN <<code, "right">>
  ELSE code

\* Mutant: the key-down is converted and not remembered.
ConvertOnly ==
  /\ messages # <<>> /\ Head(messages).isKeyDown
  /\ sendKeyPress(Converted(Head(messages).code), TRUE)
  /\ messages' = Tail(messages)
  /\ UNCHANGED <<pressed, focused, keyDownToUpMapping, connected, mine>>

\* A code that was converted is remembered under the code of the message.
GetKeyDown ==
  /\ messages # <<>> /\ Head(messages).isKeyDown
  /\ LET code == Head(messages).code IN
       /\ keyDownToUpMapping' =
            IF Converted(code) # code
              THEN [keyDownToUpMapping EXCEPT ![code] = Converted(code)]
              ELSE keyDownToUpMapping
       /\ sendKeyPress(Converted(code), TRUE)
  /\ messages' = Tail(messages)
  /\ UNCHANGED <<pressed, focused, connected, mine>>

\* Mutant: a release is sent under the code of the message.
UpUnmapped ==
  /\ messages # <<>> /\ ~Head(messages).isKeyDown
  /\ sendKeyPress(Head(messages).code, FALSE)
  /\ messages' = Tail(messages)
  /\ UNCHANGED <<pressed, focused, keyDownToUpMapping, connected, mine>>

\* A release is sent under the remembered code; the entry erased is that of
\* this code, not the entry it was found under.
GetKeyUp ==
  /\ messages # <<>> /\ ~Head(messages).isKeyDown
  /\ LET sent == keyDownToUpMapping[Head(messages).code] IN
       /\ sendKeyPress(sent, FALSE)
       /\ keyDownToUpMapping' = [keyDownToUpMapping EXCEPT ![sent] = sent]
  /\ messages' = Tail(messages)
  /\ UNCHANGED <<pressed, focused, connected, mine>>

Client == Keyboard \/ LoseConnection \/ Reconnect \/ GetKeyDown \/ GetKeyUp

Server ==
  \/ \E h \in Handlers : OtherClient(h)
  \/ \E h \in Handlers : handleClient(h) /\ UNCHANGED clientVars

Next == Client \/ Server

Spec == Init /\ [][Next]_vars

-----------------------------------------------------------------------------

OtherClientKeys == {ServerKey(c) : c \in OtherClientCodes}

\* The keys that no other client uses, and of which no event was ignored, lost,
\* given to another window or handled late since their last key-down was sent.
Followed == ClientKeys \ (missed \cup late \cup OtherClientKeys)

\* Whenever the GUI thread has caught up, the keys that are down on the client's
\* keyboard are down on the server, left and right told apart, and no other:
\* however far the GUI thread was behind, after lost connections, while other
\* clients type, and with handlers of old connections that inject late.  Excepted
\* are debug mode, keys of which the server has missed an event since their last
\* key-down, and the two keys of a modifier once both were down, or one changed
\* before a key-down of theirs was handled, until a key-down of theirs is in time.
ServerMirrorsKeyboard ==
  ~DEBUG /\ messages = <<>> /\ event[mine] = <<>> =>
    held \cap Followed = pressed \cap Followed

\* No key-up is sent for a key that is not down on the server.
UpMatchesDown ==
  [][\A e \in Events :
       /\ event[mine] = <<>> /\ event'[mine] = <<e>> /\ ~e.isKeyDown /\ ~DEBUG
       /\ \A k \in ClientKeys : Reported(k) = Reported(ServerKey(e.code)) => k \in Followed
       => ServerKey(e.code) \in held]_vars

\* KEY_UP and KEY_DOWN are interpreted correctly: once every key is released
\* and every message handled, and none was missed, no key is left down on the
\* server.
NoStuckKey ==
  /\ ~DEBUG /\ pressed = {} /\ missed = {}
  /\ messages = <<>> /\ \A h \in Handlers : Idle(h)
  => held \cap (ClientKeys \ OtherClientKeys) = {}
=============================================================================
