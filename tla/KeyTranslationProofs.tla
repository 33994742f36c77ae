------------------------- MODULE KeyTranslationProofs -------------------------
(***************************************************************************)
(* The server's keys equal the client's, however far the GUI thread is     *)
(* behind the keyboard, for any sets of keys, handlers and other clients,  *)
(* whatever connections are lost.  The messages of a code, in order, are   *)
(* what is left to do: replaying them on the server's keys gives the       *)
(* client's.                                                               *)
(***************************************************************************)
EXTENDS KeyTranslation, KeyInjectionProofs

Reports == [code : {Reported(k) : k \in ClientKeys}, isKeyDown : BOOLEAN]

\* The ranges of the variables, and what cannot be mapped.
TInv ==
  /\ pressed \subseteq ClientKeys
  /\ messages \in Seq(Reports)
  /\ mine \in Handlers
  /\ keyDownToUpMapping \in [Codes -> Codes]
  /\ \A c \in Physical : keyDownToUpMapping[c] = c
  /\ \A c \in Modifiers : keyDownToUpMapping[c] \in {c, <<c, "left">>, <<c, "right">>}

\* A handler injects an event it has, and debug mode is off.
HInv ==
  /\ DOMAIN pc = Handlers /\ DOMAIN event = Handlers
  /\ \A h \in Handlers : event[h] = <<>> \/ \E e \in Events : event[h] = <<e>>
  /\ \A h \in Handlers : pc[h] # "recv" => event[h] # <<>>
  /\ \A h \in Handlers : pc[h] # "release"

\* The server's keys once the event of the client's connection is injected.
After ==
  IF event[mine] = <<>> THEN held
  ELSE IF Head(event[mine]).isKeyDown THEN held \cup {ServerKey(Head(event[mine]).code)}
  ELSE held \ {ServerKey(Head(event[mine]).code)}

\* What other clients send, and what is left of a lost connection, is about
\* other keys.
OldEvents ==
  \A h \in Handlers :
    event[h] # <<>> /\ (h # mine \/ ~connected) =>
      ServerKey(Head(event[h]).code) \notin Followed

Agrees(k) == k \in After <=> k \in pressed

\* The messages that wait for a code.
Down(i) == messages[i].isKeyDown
First(c, i) == i \in Waiting(c) /\ \A j \in Waiting(c) : i <= j
Last(c, i) == i \in Waiting(c) /\ \A j \in Waiting(c) : j <= i
Adjacent(c, i, j) ==
  /\ i \in Waiting(c) /\ j \in Waiting(c) /\ i < j
  /\ \A l \in Waiting(c) : l <= i \/ j <= l

\* An ordinary key: the last message tells how it is now, a key-up follows a
\* key-down, or is the first and the key is down on the server.
PlainOk(k) ==
  /\ Waiting(k) = {} => Agrees(k)
  /\ \A i \in Waiting(k) : Last(k, i) => (Down(i) <=> k \in pressed)
  /\ \A i, j \in Waiting(k) : Adjacent(k, i, j) => Down(i) \/ Down(j)
  /\ \A i \in Waiting(k) : First(k, i) /\ ~Down(i) => k \in After

\* A key of a modifier: its side is remembered while it is down on the server, and
\* the other side is up while it is pressed.  Key-downs wait only for a key that is
\* still down, and are the last to wait.
SidedOk(k) ==
  /\ k \in pressed => OtherSide(k) \cap pressed = {}
  /\ k \in After => keyDownToUpMapping[k[1]] = k
  /\ Waiting(k[1]) = {} => Agrees(k)
  /\ \A i \in Waiting(k[1]) : Down(i) => \E l \in pressed \cap Sided : l[1] = k[1]
  /\ \A i, j \in Waiting(k[1]) : i < j /\ Down(i) => Down(j)
  /\ \A i \in Waiting(k[1]) : Last(k[1], i) /\ k \in pressed => Down(i)
  /\ \A i \in Waiting(k[1]) : First(k[1], i) /\ Down(i) /\ k \in After => k \in pressed

AllFollowed(c) == \A k \in ClientKeys : Reported(k) = c => k \in Followed

\* A key-up that waits for a modifier is the first message, for a key that is down
\* on the server.
UpsOk(c) ==
  AllFollowed(c) =>
    \A i \in Waiting(c) : ~Down(i) =>
      First(c, i) /\ \E k \in After \cap ClientKeys \cap Sided : k[1] = c

KeysOk ==
  /\ \A k \in Followed \ Sided : PlainOk(k)
  /\ \A k \in Followed \cap Sided : SidedOk(k)
  /\ \A c \in Modifiers : UpsOk(c)

Inv == TInv /\ HInv /\ OldEvents /\ KeysOk

-----------------------------------------------------------------------------
(* Codes and keys.                                                         *)

LEMMA KeyFacts ==
  ASSUME NEW key \in Physical
  PROVE  /\ ServerKey(key) = key /\ key \in Codes /\ key \notin Modifiers
         /\ Reported(key) \in Codes
         /\ key \in Sided => /\ key[1] \in Modifiers /\ Reported(key) = key[1]
                             /\ key = <<key[1], "left">> \/ key = <<key[1], "right">>
         /\ key \notin Sided => key \in OtherKeys /\ Reported(key) = key
<1>1. CASE key \in Sided
  <2>1. PICK c \in Modifiers, side \in {"left", "right"} : key = <<c, side>>
    BY <1>1 DEF Sided
  <2>2. key \notin Modifiers
    BY <2>1, InjectionAssumption
  <2>3. key[1] = c
    BY <2>1
  <2> QED
    BY <1>1, <2>1, <2>2, <2>3 DEF ServerKey, Codes, Reported
<1>2. CASE key \notin Sided
  <2>1. key \in OtherKeys /\ key \notin Modifiers
    BY <1>2, InjectionAssumption DEF Physical
  <2> QED
    BY <1>2, <2>1 DEF ServerKey, Codes, Reported, Physical
<1> QED
  BY <1>1, <1>2

\* A code is converted to a key that is down and has it, if there is one.
LEMMA ConvertedFacts ==
  ASSUME TInv, NEW c \in Modifiers \cup OtherKeys
  PROVE  /\ Converted(c) \in Codes /\ Reported(ServerKey(Converted(c))) = c
         /\ Converted(c) = c \/ (Converted(c) \in pressed \cap Sided /\ c \in Modifiers)
         /\ \A k \in pressed \cap Sided : k[1] = c =>
              Converted(c) \in pressed \cap Sided /\ Converted(c)[1] = c
<1>1. c \in Codes /\ pressed \subseteq Physical /\ Physical \subseteq Codes
  BY KeyAssumption DEF TInv, Codes, Physical
<1>2. CASE c \in Modifiers
  <2>1. /\ <<c, "left">> \in Sided /\ <<c, "right">> \in Sided
        /\ <<c, "left">>[1] = c /\ <<c, "right">>[1] = c
    BY <1>2 DEF Sided
  <2>2. Converted(c) \in {c, <<c, "left">>, <<c, "right">>}
    BY DEF Converted
  <2>3. Reported(ServerKey(Converted(c))) = c
    <3>1. Reported(<<c, "left">>) = c /\ Reported(<<c, "right">>) = c
      BY <2>1 DEF Reported
    <3>2. /\ ServerKey(<<c, "left">>) = <<c, "left">> /\ ServerKey(<<c, "right">>) = <<c, "right">>
          /\ ServerKey(c) = <<c, "left">>
      BY <1>2, <2>1, KeyFacts DEF ServerKey, Physical
    <3> QED
      BY <2>2, <3>1, <3>2
  <2>4. ASSUME NEW k \in pressed \cap Sided, k[1] = c
        PROVE  Converted(c) \in pressed \cap Sided /\ Converted(c)[1] = c
    <3>1. k = <<c, "left">> \/ k = <<c, "right">>
      BY <2>4 DEF Sided
    <3> QED
      BY <2>1, <2>4, <3>1 DEF Converted
  <2>5. Converted(c) = c \/ Converted(c) \in pressed \cap Sided
    BY <2>1 DEF Converted
  <2> QED
    BY <1>1, <1>2, <2>3, <2>4, <2>5
<1>3. CASE c \in OtherKeys
  <2>1. \A s \in {"left", "right"} : <<c, s>> \notin Sided /\ <<c, s>> \notin OtherKeys
    BY <1>3, InjectionAssumption DEF Sided
  <2>2. c \in Physical /\ c \notin Sided
    BY <1>3, InjectionAssumption DEF Physical, Sided
  <2>3. \A s \in {"left", "right"} : <<c, s>> \notin pressed
    BY <1>1, <2>1 DEF Physical
  <2>4. Converted(c) = c
    BY <2>3 DEF Converted
  <2>5. \A k \in Sided : k[1] # c
    BY <1>3, InjectionAssumption DEF Sided
  <2> QED
    BY <1>1, <2>2, <2>4, <2>5, KeyFacts
<1> QED
  BY <1>2, <1>3

\* The code that is sent for a release; the entry that is erased is not there.
LEMMA ReleasedCode ==
  ASSUME TInv, NEW c \in Modifiers \cup OtherKeys, NEW sent, sent = keyDownToUpMapping[c]
  PROVE  /\ sent \in Codes /\ Reported(ServerKey(sent)) = c
         /\ c \in OtherKeys => sent = c
         /\ [keyDownToUpMapping EXCEPT ![sent] = sent] = keyDownToUpMapping
<1>1. c \in Codes /\ sent \in Codes /\ keyDownToUpMapping \in [Codes -> Codes]
  BY DEF TInv, Codes, Physical
<1>2. CASE c \in OtherKeys
  <2>1. c \in Physical /\ c \notin Sided /\ sent = c
    BY <1>2, InjectionAssumption DEF TInv, Physical, Sided
  <2>2. [keyDownToUpMapping EXCEPT ![sent] = sent] = keyDownToUpMapping
    BY <1>1, <2>1
  <2> QED
    BY <1>1, <2>1, <2>2, KeyFacts
<1>3. CASE c \in Modifiers
  <2>1. /\ <<c, "left">> \in Sided /\ <<c, "right">> \in Sided
        /\ Reported(<<c, "left">>) = c /\ Reported(<<c, "right">>) = c
    BY <1>3 DEF Sided, Reported
  <2>2. /\ <<c, "left">> \in Physical /\ <<c, "right">> \in Physical
    BY <2>1 DEF Physical
  <2>3. /\ ServerKey(<<c, "left">>) = <<c, "left">> /\ ServerKey(<<c, "right">>) = <<c, "right">>
        /\ ServerKey(c) = <<c, "left">>
    BY <1>3, <2>2, KeyFacts DEF ServerKey
  <2>4. sent \in {c, <<c, "left">>, <<c, "right">>}
    BY <1>3 DEF TInv
  <2>5. keyDownToUpMapping[sent] = sent
    BY <2>2, <2>4 DEF TInv
  <2>6. c \notin OtherKeys
    BY <1>3, InjectionAssumption
  <2> QED
    BY <1>1, <2>1, <2>3, <2>4, <2>5, <2>6
<1> QED
  BY <1>2, <1>3

-----------------------------------------------------------------------------
(* The queue of messages.                                                  *)

\* The messages of a code, all of them s places further on.
Moved(c, s) ==
  /\ \A i \in Nat : i \in Waiting(c)' <=> i + s \in Waiting(c)
  /\ \A i \in Waiting(c)' : Down(i)' <=> Down(i + s)
  /\ \A i \in Waiting(c) : i >= s

LEMMA WaitingFacts ==
  ASSUME messages \in Seq(Reports), NEW c
  PROVE  /\ Waiting(c) \subseteq Nat
         /\ \A i \in Waiting(c) : i >= 1 /\ i <= Len(messages) /\ messages[i].code = c
         /\ messages = <<>> => Waiting(c) = {}
  BY DEF Waiting

LEMMA MovedFacts ==
  ASSUME messages \in Seq(Reports), messages' \in Seq(Reports), NEW c, NEW s \in Nat, Moved(c, s)
  PROVE  /\ Waiting(c)' = {} => Waiting(c) = {}
         /\ \A i \in Waiting(c)' : i + s \in Waiting(c) /\ (Down(i)' <=> Down(i + s))
         /\ \A i \in Waiting(c)' : First(c, i)' => First(c, i + s)
         /\ \A i \in Waiting(c)' : Last(c, i)' => Last(c, i + s)
         /\ \A i, j \in Waiting(c)' : Adjacent(c, i, j)' => Adjacent(c, i + s, j + s)
<1>1. Waiting(c) \subseteq Nat /\ Waiting(c)' \subseteq Nat
  BY DEF Waiting
<1>2. \A i \in Waiting(c) : i - s \in Waiting(c)'
  <2> SUFFICES ASSUME NEW i \in Waiting(c) PROVE i - s \in Waiting(c)'
    OBVIOUS
  <2>1. i \in Nat /\ i >= s
    BY <1>1 DEF Moved
  <2>2. i - s \in Nat /\ (i - s) + s = i
    BY <2>1
  <2> QED
    BY <2>2 DEF Moved
<1>3. \A i \in Waiting(c)' : i + s \in Waiting(c) /\ (Down(i)' <=> Down(i + s))
  BY <1>1 DEF Moved
<1>4. ASSUME NEW i \in Waiting(c)', First(c, i)' PROVE First(c, i + s)
  <2>1. \A j \in Waiting(c) : i + s <= j
    BY <1>1, <1>2, <1>4 DEF First
  <2> QED
    BY <1>3, <2>1 DEF First
<1>5. ASSUME NEW i \in Waiting(c)', Last(c, i)' PROVE Last(c, i + s)
  <2>1. \A j \in Waiting(c) : j <= i + s
    BY <1>1, <1>2, <1>5 DEF Last
  <2> QED
    BY <1>3, <2>1 DEF Last
<1>6. ASSUME NEW i \in Waiting(c)', NEW j \in Waiting(c)', Adjacent(c, i, j)'
      PROVE  Adjacent(c, i + s, j + s)
  <2>1. ASSUME NEW l \in Waiting(c) PROVE l <= i + s \/ j + s <= l
    <3>1. l - s <= i \/ j <= l - s
      BY <1>2, <1>6 DEF Adjacent
    <3> QED
      BY <1>1, <3>1
  <2>2. i + s < j + s
    BY <1>1, <1>6 DEF Adjacent
  <2> QED
    BY <1>3, <2>1, <2>2 DEF Adjacent
<1> QED
  BY <1>2, <1>3, <1>4, <1>5, <1>6

\* A message is posted: it is the last of its code.
LEMMA Posted ==
  ASSUME messages \in Seq(Reports), NEW m \in Reports, messages' = Append(messages, m), NEW c
  PROVE  /\ messages' \in Seq(Reports)
         /\ c # m.code => Moved(c, 0)
         /\ c = m.code => \E e \in Nat :
              /\ Waiting(c)' = Waiting(c) \cup {e} /\ (Down(e)' <=> m.isKeyDown)
              /\ \A i \in Waiting(c) : i < e /\ (Down(i)' <=> Down(i))
<1>0. PICK e : e = Len(messages) + 1
  OBVIOUS
<1>1. /\ messages' \in Seq(Reports) /\ Len(messages') = e /\ messages'[e] = m /\ e \in Nat
      /\ \A i \in 1..Len(messages) : messages'[i] = messages[i]
      /\ DOMAIN messages = 1..Len(messages) /\ DOMAIN messages' = 1..e /\ Len(messages) \in Nat
  BY <1>0
<1>2. \A i \in 1..e : i = e \/ i \in 1..Len(messages)
  BY <1>0
<1>3. Waiting(c) \subseteq 1..Len(messages) /\ Waiting(c)' \subseteq 1..e
  BY <1>1 DEF Waiting
<1>4. \A i \in 1..Len(messages) : i < e /\ i \in 1..e /\ i \in Nat
  BY <1>0, <1>1
<1>5. \A i \in Waiting(c) : i \in Waiting(c)' /\ i < e /\ (Down(i)' <=> Down(i))
  BY <1>1, <1>3, <1>4 DEF Waiting, Down
<1>6. CASE c # m.code
  <2>1. \A i \in Waiting(c)' : i \in Waiting(c)
    BY <1>1, <1>2, <1>6 DEF Waiting
  <2>2. \A i \in Nat : i \in Waiting(c)' <=> i \in Waiting(c)
    BY <1>5, <2>1
  <2>3. \A i \in Nat : i >= 0 /\ i + 0 = i
    OBVIOUS
  <2>5. Waiting(c) \subseteq Nat /\ Waiting(c)' \subseteq Nat
    BY <1>3, <1>4, <2>1
  <2>4. Moved(c, 0)
    BY <1>5, <2>1, <2>2, <2>3, <2>5 DEF Moved
  <2> QED
    BY <1>1, <1>6, <2>4
<1>7. CASE c = m.code
  <2>1. e \in Waiting(c)'
    BY <1>0, <1>1, <1>7 DEF Waiting
  <2>2. \A i \in Waiting(c)' : i = e \/ i \in Waiting(c)
    BY <1>1, <1>2 DEF Waiting
  <2>3. Waiting(c)' = Waiting(c) \cup {e}
    BY <1>5, <2>1, <2>2
  <2>4. Down(e)' <=> m.isKeyDown
    BY <1>1 DEF Down
  <2> QED
    BY <1>1, <1>5, <1>7, <2>3, <2>4
<1> QED
  BY <1>6, <1>7

LEMMA PostedOrder ==
  ASSUME messages \in Seq(Reports), NEW c, NEW e \in Nat, Waiting(c)' = Waiting(c) \cup {e},
         \A i \in Waiting(c) : i < e
  PROVE  /\ \A i \in Waiting(c)' : Last(c, i)' => i = e
         /\ \A i \in Waiting(c)' : First(c, i)' => First(c, i) \/ (i = e /\ Waiting(c) = {})
         /\ \A i \in Waiting(c) : First(c, i) => First(c, i)'
         /\ Waiting(c) = {} => First(c, e)'
         /\ \A i, j \in Waiting(c)' : Adjacent(c, i, j)' =>
              Adjacent(c, i, j) \/ (Last(c, i) /\ j = e)
<1>1. Waiting(c) \subseteq Nat
  BY WaitingFacts
<1>2. \A i \in Waiting(c)' : Last(c, i)' => i = e
  BY <1>1 DEF Last
<1>3. \A i \in Waiting(c)' : First(c, i)' => First(c, i) \/ (i = e /\ Waiting(c) = {})
  BY <1>1 DEF First
<1>4. /\ \A i \in Waiting(c) : First(c, i) => First(c, i)'
      /\ Waiting(c) = {} => First(c, e)'
  BY <1>1 DEF First
<1>5. ASSUME NEW i \in Waiting(c)', NEW j \in Waiting(c)', Adjacent(c, i, j)'
      PROVE  Adjacent(c, i, j) \/ (Last(c, i) /\ j = e)
  <2>1. i < j /\ \A l \in Waiting(c)' : l <= i \/ j <= l
    BY <1>5 DEF Adjacent
  <2>2. i \in Waiting(c)
    BY <1>1, <2>1
  <2>3. CASE j = e
    BY <1>1, <2>1, <2>2, <2>3 DEF Last
  <2>4. CASE j # e
    BY <2>1, <2>2, <2>4 DEF Adjacent
  <2> QED
    BY <2>3, <2>4
<1> QED
  BY <1>2, <1>3, <1>4, <1>5

\* The oldest message is taken: it was the first of its code.
LEMMA Taken ==
  ASSUME messages \in Seq(Reports), messages # <<>>, messages' = Tail(messages), NEW c
  PROVE  /\ messages' \in Seq(Reports) /\ Head(messages) \in Reports
         /\ c # Head(messages).code => Moved(c, 1)
         /\ c = Head(messages).code =>
              /\ First(c, 1) /\ (Down(1) <=> Head(messages).isKeyDown)
              /\ Waiting(c)' = {} => Last(c, 1)
              /\ \A i \in Waiting(c)' :
                   /\ i \in Nat /\ i >= 1 /\ i + 1 \in Waiting(c) /\ (Down(i)' <=> Down(i + 1))
                   /\ First(c, i)' => Adjacent(c, 1, i + 1)
                   /\ Last(c, i)' => Last(c, i + 1)
              /\ \A i, j \in Waiting(c)' : Adjacent(c, i, j)' => Adjacent(c, i + 1, j + 1)
<1> DEFINE n == Len(messages)
<1>1. /\ messages' \in Seq(Reports) /\ Head(messages) \in Reports /\ Head(messages) = messages[1]
      /\ Len(messages') = n - 1 /\ n \in Nat /\ n >= 1
      /\ \A i \in 1..(n - 1) : messages'[i] = messages[i + 1]
      /\ DOMAIN messages = 1..n /\ DOMAIN messages' = 1..(n - 1)
  OBVIOUS
<1> HIDE DEF n
<1>2. Waiting(c) \subseteq 1..n /\ Waiting(c)' \subseteq 1..(n - 1)
  BY <1>1 DEF Waiting
<1>3. \A i \in 1..(n - 1) : i \in Waiting(c)' <=> i + 1 \in Waiting(c)
  BY <1>1 DEF Waiting
<1>4. \A i \in Waiting(c)' : Down(i)' <=> Down(i + 1)
  BY <1>1, <1>2 DEF Down
<1>5. 1 \in Waiting(c) <=> c = Head(messages).code
  BY <1>1 DEF Waiting
<1>6. CASE c # Head(messages).code
  <2>1. \A i \in Waiting(c) : i >= 1
    BY <1>1, <1>2
  <2>2. ASSUME NEW i \in Nat PROVE i \in Waiting(c)' <=> i + 1 \in Waiting(c)
    <3>1. CASE i \in 1..(n - 1)
      BY <1>3, <3>1
    <3>2. CASE i = 0
      <4>1. i \notin Waiting(c)'
        BY <1>1, <1>2, <3>2
      <4> QED
        BY <1>5, <1>6, <3>2, <4>1
    <3>3. CASE i > n - 1
      <4>1. i \notin Waiting(c)' /\ i + 1 \notin Waiting(c)
        BY <1>1, <1>2, <3>3
      <4> QED
        BY <4>1
    <3> QED
      BY <1>1, <3>1, <3>2, <3>3
  <2> QED
    BY <1>1, <1>4, <1>6, <2>1, <2>2 DEF Moved
<1>7. CASE c = Head(messages).code
  <2>1. First(c, 1) /\ (Down(1) <=> Head(messages).isKeyDown)
    BY <1>1, <1>2, <1>5, <1>7 DEF First, Down
  <2>2. \A i \in Waiting(c) : i = 1 \/ i - 1 \in Waiting(c)'
    <3> SUFFICES ASSUME NEW i \in Waiting(c), i # 1 PROVE i - 1 \in Waiting(c)'
      OBVIOUS
    <3>1. i \in 1..n
      BY <1>2
    <3>2. i - 1 \in 1..(n - 1) /\ (i - 1) + 1 = i
      BY <1>1, <3>1
    <3> QED
      BY <1>3, <3>2
  <2>3. Waiting(c)' = {} => Last(c, 1)
    BY <1>2, <1>5, <1>7, <2>2 DEF Last
  <2>4. ASSUME NEW i \in Waiting(c)'
        PROVE  i \in Nat /\ i >= 1 /\ i + 1 \in Waiting(c)
    BY <1>1, <1>2, <1>3
  <2>5. ASSUME NEW i \in Waiting(c)', First(c, i)' PROVE Adjacent(c, 1, i + 1)
    <3>1. ASSUME NEW l \in Waiting(c) PROVE l <= 1 \/ i + 1 <= l
      <4>1. l = 1 \/ i <= l - 1
        BY <2>2, <2>5 DEF First
      <4> QED
        BY <1>1, <1>2, <2>4, <4>1
    <3>2. 1 < i + 1
      BY <2>4
    <3> QED
      BY <1>5, <1>7, <2>4, <3>1, <3>2 DEF Adjacent
  <2>6. ASSUME NEW i \in Waiting(c)', Last(c, i)' PROVE Last(c, i + 1)
    <3>1. ASSUME NEW l \in Waiting(c) PROVE l <= i + 1
      <4>1. l = 1 \/ l - 1 <= i
        BY <2>2, <2>6 DEF Last
      <4> QED
        BY <1>1, <1>2, <2>4, <4>1
    <3> QED
      BY <2>4, <3>1 DEF Last
  <2>7. ASSUME NEW i \in Waiting(c)', NEW j \in Waiting(c)', Adjacent(c, i, j)'
        PROVE  Adjacent(c, i + 1, j + 1)
    <3>1. ASSUME NEW l \in Waiting(c) PROVE l <= i + 1 \/ j + 1 <= l
      <4>1. l = 1 \/ l - 1 <= i \/ j <= l - 1
        BY <2>2, <2>7 DEF Adjacent
      <4> QED
        BY <1>1, <1>2, <2>4, <4>1
    <3>2. i + 1 < j + 1
      BY <2>4, <2>7 DEF Adjacent
    <3> QED
      BY <2>4, <3>1, <3>2 DEF Adjacent
  <2> QED
    BY <1>1, <1>4, <1>7, <2>1, <2>3, <2>4, <2>5, <2>6, <2>7
<1> QED
  BY <1>6, <1>7

\* What is known of a key stays true when its messages only move up, and neither the
\* keyboard, its entry in the mapping nor what the server will have of it changes.
LEMMA PlainMoved ==
  ASSUME messages \in Seq(Reports), messages' \in Seq(Reports), NEW k, NEW s \in Nat,
         Moved(k, s), PlainOk(k), (k \in pressed)' <=> k \in pressed, (k \in After)' <=> k \in After
  PROVE  PlainOk(k)'
  BY MovedFacts DEF PlainOk, Agrees

LEMMA SidedStays ==
  ASSUME messages \in Seq(Reports), messages' \in Seq(Reports), NEW k \in Sided, NEW s \in Nat,
         Moved(k[1], s), SidedOk(k), keyDownToUpMapping'[k[1]] = keyDownToUpMapping[k[1]],
         (k \in pressed)' <=> k \in pressed, (k \in After)' <=> k \in After,
         k \in pressed' => OtherSide(k) \cap pressed' = {},
         \A i \in Waiting(k[1]) : Down(i) => \E l \in pressed' \cap Sided : l[1] = k[1]
  PROVE  SidedOk(k)'
<1> DEFINE c == k[1]
<1>1. \A i \in Waiting(c)' : Down(i)' => \E l \in pressed' \cap Sided : l[1] = c
  BY MovedFacts
<1>2. \A i, j \in Waiting(c)' : i < j /\ Down(i)' => Down(j)'
  <2> SUFFICES ASSUME NEW i \in Waiting(c)', NEW j \in Waiting(c)', i < j, Down(i)'
               PROVE  Down(j)'
    OBVIOUS
  <2>1. i + s < j + s
    BY WaitingFacts DEF Waiting
  <2> QED
    BY <2>1, MovedFacts DEF SidedOk
<1>3. \A i \in Waiting(c)' : Last(c, i)' /\ k \in pressed' => Down(i)'
  BY MovedFacts DEF SidedOk
<1>4. \A i \in Waiting(c)' : First(c, i)' /\ Down(i)' /\ k \in After' => k \in pressed'
  BY MovedFacts DEF SidedOk
<1>5. Waiting(c)' = {} => Agrees(k)'
  BY MovedFacts DEF SidedOk, Agrees
<1>6. k \in After' => keyDownToUpMapping'[c] = k
  BY DEF SidedOk
<1> QED
  BY <1>1, <1>2, <1>3, <1>4, <1>5, <1>6 DEF SidedOk

LEMMA SidedMoved ==
  ASSUME messages \in Seq(Reports), messages' \in Seq(Reports), NEW k \in Sided, NEW s \in Nat,
         Moved(k[1], s), SidedOk(k), keyDownToUpMapping'[k[1]] = keyDownToUpMapping[k[1]],
         \A l \in Sided : l[1] = k[1] => (l \in pressed' <=> l \in pressed),
         (k \in After)' <=> k \in After
  PROVE  SidedOk(k)'
<1>1. (k \in pressed)' <=> k \in pressed
  OBVIOUS
<1>2. k \in pressed' => OtherSide(k) \cap pressed' = {}
  BY <1>1 DEF SidedOk, OtherSide
<1>3. \A i \in Waiting(k[1]) : Down(i) => \E l \in pressed' \cap Sided : l[1] = k[1]
  BY DEF SidedOk
<1> QED
  BY <1>1, <1>2, <1>3, SidedStays

LEMMA UpsMoved ==
  ASSUME messages \in Seq(Reports), messages' \in Seq(Reports), NEW c, NEW s \in Nat,
         Moved(c, s), UpsOk(c), AllFollowed(c)' => AllFollowed(c),
         \A k \in Followed' \cap Sided : k[1] = c => (k \in After' <=> k \in After)
  PROVE  UpsOk(c)'
<1> SUFFICES ASSUME AllFollowed(c)', NEW i \in Waiting(c)', ~Down(i)'
             PROVE  First(c, i)' /\ \E k \in After' \cap ClientKeys \cap Sided : k[1] = c
  BY DEF UpsOk
<1>1. i + s \in Waiting(c) /\ ~Down(i + s) /\ AllFollowed(c)
  BY MovedFacts
<1>2. First(c, i + s)
  BY <1>1 DEF UpsOk
<1>3. PICK k \in After \cap ClientKeys \cap Sided : k[1] = c
  BY <1>1 DEF UpsOk
<1>4. k \in Followed'
  BY <1>3 DEF AllFollowed, Reported
<1>5. ASSUME NEW j \in Waiting(c)' PROVE i <= j
  <2>1. i + s <= j + s
    BY <1>2, MovedFacts DEF First
  <2> QED
    BY <2>1 DEF Waiting
<1> QED
  BY <1>3, <1>4, <1>5 DEF First

-----------------------------------------------------------------------------
(* The server's steps, and those that change no key.                       *)

LEMMA AfterFacts ==
  ASSUME HInv, mine \in Handlers
  PROVE  /\ event[mine] = <<>> => After = held
         /\ \A e \in Events : event[mine] = <<e>> =>
              After = IF e.isKeyDown THEN held \cup {ServerKey(e.code)}
                                     ELSE held \ {ServerKey(e.code)}
<1>1. ASSUME NEW e \in Events, event[mine] = <<e>>
      PROVE  event[mine] # <<>> /\ Head(event[mine]) = e
  BY <1>1
<1> QED
  BY <1>1 DEF After

\* A step that tells the GUI thread nothing new keeps the invariant.
LEMMA QuietStep ==
  ASSUME Inv, HInv', OldEvents', mine' \in Handlers, Followed' \subseteq Followed,
         UNCHANGED <<pressed, messages, keyDownToUpMapping>>,
         \A k \in Followed' : k \in After' <=> k \in After
  PROVE  Inv'
<1>1. TInv' /\ messages \in Seq(Reports) /\ messages' \in Seq(Reports)
  BY DEF Inv, TInv
<1>2. \A c : Moved(c, 0)
  BY <1>1 DEF Moved, Waiting, Down
<1>3. \A k \in Followed' \ Sided : PlainOk(k)'
  BY <1>1, <1>2, PlainMoved DEF Inv, KeysOk
<1>4. \A k \in Followed' \cap Sided : SidedOk(k)'
  BY <1>1, <1>2, SidedMoved DEF Inv, KeysOk
<1>5. \A c \in Modifiers : UpsOk(c)'
  BY <1>1, <1>2, UpsMoved DEF Inv, KeysOk, AllFollowed
<1> QED
  BY <1>1, <1>3, <1>4, <1>5 DEF Inv, KeysOk

\* A handler's step that injects nothing.
LEMMA NoInjection ==
  ASSUME Inv, HInv', UNCHANGED clientVars, UNCHANGED <<held, event>>
  PROVE  Inv'
<1>1. UNCHANGED <<pressed, messages, keyDownToUpMapping, connected, mine, missed, late>>
  BY DEF clientVars, historyVars
<1>2. OldEvents'
  BY <1>1 DEF Inv, OldEvents, Followed
<1>3. After' = After
  BY <1>1 DEF After
<1> QED
  BY <1>1, <1>2, <1>3, QuietStep DEF Inv, TInv, Followed

\* An injection is what the client's connection promised, or about another key.
LEMMA Injection ==
  ASSUME Inv, HInv', UNCHANGED clientVars, NEW h \in Handlers, NEW e \in Events,
         event[h] = <<e>>, event' = [event EXCEPT ![h] = <<>>],
         held' = IF e.isKeyDown THEN held \cup {ServerKey(e.code)}
                                ELSE held \ {ServerKey(e.code)}
  PROVE  Inv'
<1>1. UNCHANGED <<pressed, messages, keyDownToUpMapping, connected, mine, missed, late>>
  BY DEF clientVars, historyVars
<1>2. Followed' = Followed /\ mine \in Handlers /\ mine' = mine
  BY <1>1 DEF Followed, Inv, TInv
<1>3. DOMAIN event = Handlers
  BY DEF Inv, HInv
<1>4. OldEvents'
  BY <1>1, <1>2, <1>3 DEF Inv, OldEvents
<1>5. \A k \in Followed : k \in After' <=> k \in After
  <2>1. CASE h = mine
    <3>1. After = held'
      BY <1>2, <2>1, AfterFacts DEF Inv
    <3>2. After' = held'
      BY <1>1, <1>3, <2>1 DEF After
    <3> QED
      BY <3>1, <3>2
  <2>2. CASE h # mine
    <3>1. ServerKey(e.code) \notin Followed
      <4>1. Head(event[h]) = e
        OBVIOUS
      <4> QED
        BY <2>2, <4>1 DEF Inv, OldEvents
    <3>2. \A k \in Followed : k \in held' <=> k \in held
      BY <3>1
    <3>3. event'[mine'] = event[mine]
      BY <1>1, <1>3, <2>2
    <3> QED
      BY <3>2, <3>3 DEF After
  <2> QED
    BY <2>1, <2>2
<1> QED
  BY <1>1, <1>2, <1>4, <1>5, QuietStep

LEMMA HandlerInv ==
  ASSUME ~DEBUG, Inv, NEW h \in Handlers, handleClient(h), UNCHANGED clientVars
  PROVE  Inv'
<1>1. ASSUME ReceiveDown(h) \/ ReceiveUp(h) \/ Log(h) \/ EndLog(h) PROVE Inv'
  <2>1. UNCHANGED <<held, event>> /\ event[h] # <<>>
    BY <1>1 DEF Inv, HInv, ReceiveDown, ReceiveUp, Log, EndLog, At
  <2>2. \E to \in {"log", "logging", "inject"} : pc' = [pc EXCEPT ![h] = to]
    BY <1>1 DEF ReceiveDown, ReceiveUp, Log, EndLog, At
  <2>3. HInv'
    BY <2>1, <2>2 DEF Inv, HInv
  <2> QED
    BY <2>1, <2>3, NoInjection
<1>2. ASSUME InjectDown(h) \/ InjectUp(h) PROVE Inv'
  <2>1. PICK e \in Events : event[h] = <<e>>
    BY <1>2 DEF InjectDown, InjectUp, Inv, HInv
  <2>2. Head(event[h]) = e
    BY <2>1
  <2>3. /\ event' = [event EXCEPT ![h] = <<>>]
        /\ pc' = [pc EXCEPT ![h] = "recv"]
        /\ held' = IF e.isKeyDown THEN held \cup {ServerKey(e.code)}
                                  ELSE held \ {ServerKey(e.code)}
    BY <1>2, <2>2 DEF InjectDown, InjectUp, At
  <2>4. HInv'
    BY <2>3 DEF Inv, HInv
  <2> QED
    BY <2>1, <2>3, <2>4, Injection
<1>3. ~ReleaseIfDown(h) /\ ~EndRelease(h)
  BY DEF Inv, HInv, ReleaseIfDown, EndRelease, At
<1> QED
  BY <1>1, <1>2, <1>3 DEF handleClient

LEMMA ServerInv ==
  ASSUME ~DEBUG, Inv, Server
  PROVE  Inv'
<1>1. ASSUME NEW h \in Handlers, OtherClient(h) PROVE Inv'
  <2>1. PICK c \in OtherClientCodes, d \in BOOLEAN :
          event' = [event EXCEPT ![h] = <<[code |-> c, isKeyDown |-> d]>>]
    BY <1>1 DEF OtherClient
  <2>2. /\ h # mine /\ Idle(h)
        /\ UNCHANGED <<held, pc, pressed, messages, keyDownToUpMapping, connected, mine, missed, late>>
    BY <1>1 DEF OtherClient, clientVars, historyVars
  <2>3. [code |-> c, isKeyDown |-> d] \in Events
    BY KeyAssumption DEF Events
  <2>4. HInv'
    BY <2>1, <2>2, <2>3 DEF Inv, HInv
  <2>5. Followed' = Followed /\ ServerKey(c) \notin Followed
    BY <2>2 DEF Followed, OtherClientKeys
  <2>6. OldEvents'
    BY <2>1, <2>2, <2>5 DEF Inv, HInv, OldEvents
  <2>7. After' = After
    BY <2>1, <2>2 DEF After, Inv, HInv, TInv
  <2> QED
    BY <2>2, <2>4, <2>5, <2>6, <2>7, QuietStep DEF Inv, TInv
<1>2. ASSUME NEW h \in Handlers, handleClient(h), UNCHANGED clientVars PROVE Inv'
  BY <1>2, HandlerInv
<1> QED
  BY <1>1, <1>2 DEF Server

-----------------------------------------------------------------------------
(* The keyboard and the connection.                                        *)

\* Keys that Windows reports under one code are the two sides of a modifier.
LEMMA SameCode ==
  ASSUME NEW k \in Physical, NEW l \in Physical, Reported(k) = Reported(l)
  PROVE  k = l \/ (k \in Sided /\ l \in Sided /\ k[1] = l[1])
<1>1. CASE k \in Sided /\ l \in Sided
  BY <1>1, KeyFacts
<1>2. CASE ~(k \in Sided /\ l \in Sided)
  BY <1>2, KeyFacts, InjectionAssumption
<1> QED
  BY <1>1, <1>2

\* With nothing of the client's on its way, the server's keys are what they will be.
LEMMA NothingPending ==
  ASSUME HInv, OldEvents, mine \in Handlers, ~connected \/ Idle(mine)
  PROVE  \A k \in Followed : k \in After <=> k \in held
<1>1. CASE event[mine] = <<>>
  BY <1>1 DEF After
<1>2. CASE event[mine] # <<>>
  BY <1>2 DEF After, OldEvents, Idle
<1> QED
  BY <1>1, <1>2

LEMMA InitInv == Init => Inv
<1> SUFFICES ASSUME Init PROVE Inv
  OBVIOUS
<1>1. Sided \subseteq Physical /\ Physical \subseteq Codes
  BY DEF Physical, Codes
<1>2. TInv
  BY <1>1 DEF Init, TInv, Codes
<1>3. HInv
  BY DEF Init, InjectionInit, HInv
<1>4. OldEvents
  BY DEF Init, InjectionInit, OldEvents
<1>5. After = {}
  BY <1>2 DEF Init, InjectionInit, After, TInv
<1>6. \A c : Waiting(c) = {}
  BY <1>2, WaitingFacts DEF Init, TInv
<1>7. KeysOk
  BY <1>5, <1>6 DEF Init, KeysOk, PlainOk, SidedOk, UpsOk, Agrees
<1> QED
  BY <1>2, <1>3, <1>4, <1>7 DEF Inv

\* What is known of the other keys when a key of the client goes down or up.
LEMMA KeyPosted ==
  ASSUME Inv, NEW key \in ClientKeys, NEW d \in BOOLEAN, d => Press(key), ~d => Release(key)
  PROVE  /\ UNCHANGED <<held, pc, event, keyDownToUpMapping, connected, mine>>
         /\ After' = After /\ Followed' \subseteq Followed
         /\ pressed' = (IF d THEN pressed \cup {key} ELSE pressed \ {key})
         /\ d \/ key \in pressed
         /\ focused => messages' = Append(messages, [code |-> Reported(key), isKeyDown |-> d])
         /\ ~focused => messages' = messages /\ key \notin Followed'
         /\ \A k \in Followed' \cap Sided : key \in Sided /\ k[1] = key[1] =>
              \/ d /\ key \in pressed /\ pressed' = pressed
              \/ OtherSide(key) \cap pressed = {} /\ \A i \in Waiting(key[1]) : ~Down(i)
<1>1. /\ UNCHANGED <<held, pc, event, keyDownToUpMapping, connected, mine>>
      /\ focused => messages' = Append(messages, [code |-> Reported(key), isKeyDown |-> d])
                    /\ missed' = missed
      /\ ~focused => messages' = messages /\ missed' = missed \cup {key}
      /\ pressed' = (IF d THEN pressed \cup {key} ELSE pressed \ {key})
      /\ d \/ key \in pressed
      /\ (d /\ key \in pressed /\ late' = late) \/ Change(key)
  <2>1. CASE d
    BY <2>1 DEF Press, Post, serverVars
  <2>2. CASE ~d
    BY <2>2 DEF Release, Post, serverVars
  <2> QED
    BY <2>1, <2>2
<1>2. missed \subseteq missed' /\ late \subseteq late'
  BY <1>1 DEF Change
<1>3. After' = After /\ Followed' \subseteq Followed
  BY <1>1, <1>2 DEF After, Followed
<1>4. ~focused => key \notin Followed'
  BY <1>1 DEF Followed
<1>5. ASSUME NEW k \in Followed' \cap Sided, key \in Sided, k[1] = key[1],
             ~(d /\ key \in pressed /\ pressed' = pressed)
      PROVE  OtherSide(key) \cap pressed = {} /\ \A i \in Waiting(key[1]) : ~Down(i)
  <2>1. Change(key)
    BY <1>1, <1>5
  <2>2. k \in {key} \cup OtherSide(key)
    BY <1>5 DEF OtherSide
  <2>3. k \notin late'
    BY DEF Followed
  <2> QED
    BY <1>5, <2>1, <2>2, <2>3 DEF Change, Down
<1> QED
  BY <1>1, <1>3, <1>4, <1>5

\* The key itself, when it is an ordinary one: a message more waits for it.
LEMMA PlainPosted ==
  ASSUME messages \in Seq(Reports), NEW k, NEW d \in BOOLEAN, PlainOk(k), After' = After,
         d \/ k \in pressed, k \in pressed' <=> d, NEW e \in Nat,
         Waiting(k)' = Waiting(k) \cup {e}, Down(e)' <=> d,
         \A i \in Waiting(k) : i < e /\ (Down(i)' <=> Down(i))
  PROVE  PlainOk(k)'
<1>1. \A i \in Waiting(k)' : Last(k, i)' => (Down(i)' <=> k \in pressed')
  BY PostedOrder
<1>2. ASSUME NEW i \in Waiting(k)', NEW j \in Waiting(k)', Adjacent(k, i, j)'
      PROVE  Down(i)' \/ Down(j)'
  <2>1. CASE Adjacent(k, i, j)
    BY <2>1 DEF PlainOk, Adjacent
  <2>2. CASE Last(k, i) /\ j = e
    BY <2>2 DEF PlainOk, Last
  <2>3. Adjacent(k, i, j) \/ (Last(k, i) /\ j = e)
    BY <1>2, PostedOrder
  <2> QED
    BY <2>1, <2>2, <2>3
<1>3. ASSUME NEW i \in Waiting(k)', First(k, i)', ~Down(i)' PROVE k \in After'
  <2>1. CASE First(k, i)
    BY <1>3, <2>1 DEF PlainOk, First
  <2>2. CASE i = e /\ Waiting(k) = {}
    BY <1>3, <2>2 DEF PlainOk, Agrees
  <2> QED
    BY <1>3, <2>1, <2>2, PostedOrder
<1>4. Waiting(k)' # {}
  OBVIOUS
<1> QED
  BY <1>1, <1>2, <1>3, <1>4 DEF PlainOk

\* The two keys of a modifier, when a message more waits for one of them.
LEMMA SidedPosted ==
  ASSUME messages \in Seq(Reports), NEW key \in Sided, NEW k \in Sided, k[1] = key[1],
         NEW d \in BOOLEAN, SidedOk(k), After' = After, keyDownToUpMapping' = keyDownToUpMapping,
         d \/ key \in pressed,
         pressed' = (IF d THEN pressed \cup {key} ELSE pressed \ {key}),
         \/ d /\ key \in pressed /\ pressed' = pressed
         \/ OtherSide(key) \cap pressed = {} /\ \A i \in Waiting(k[1]) : ~Down(i),
         NEW e \in Nat, Waiting(k[1])' = Waiting(k[1]) \cup {e}, Down(e)' <=> d,
         \A i \in Waiting(k[1]) : i < e /\ (Down(i)' <=> Down(i))
  PROVE  SidedOk(k)'
<1>0. PICK c : c = k[1]
  OBVIOUS
<1>1. (k = key \/ k \in OtherSide(key)) /\ Waiting(c) \subseteq Nat
  BY <1>0, WaitingFacts DEF OtherSide
<1>2. \A i \in Waiting(c) : Down(i) => d /\ key \in pressed /\ pressed' = pressed
  BY <1>0
<1>3. k \in pressed' => OtherSide(k) \cap pressed' = {}
  <2>1. CASE pressed' \subseteq pressed
    BY <2>1 DEF SidedOk
  <2>2. CASE d /\ OtherSide(key) \cap pressed = {}
    BY <1>1, <2>2 DEF OtherSide
  <2> QED
    BY <2>1, <2>2
<1>4. k \in After' => keyDownToUpMapping'[c] = k
  BY <1>0 DEF SidedOk
<1>5. \A i \in Waiting(c)' : Down(i)' => \E l \in pressed' \cap Sided : l[1] = c
  BY <1>0, <1>2
<1>6. ASSUME NEW i \in Waiting(c)', NEW j \in Waiting(c)', i < j, Down(i)' PROVE Down(j)'
  <2>1. i \in Waiting(c)
    BY <1>0, <1>1, <1>6
  <2>2. CASE j = e
    BY <1>0, <1>2, <1>6, <2>1, <2>2
  <2>3. CASE j \in Waiting(c)
    BY <1>0, <1>6, <2>1, <2>3 DEF SidedOk
  <2> QED
    BY <1>0, <2>2, <2>3
<1>7. k \in pressed' => d
  BY <1>1
<1>8. \A i \in Waiting(c)' : Last(c, i)' /\ k \in pressed' => Down(i)'
  BY <1>0, <1>7, PostedOrder
<1>9. ASSUME NEW i \in Waiting(c)', First(c, i)', Down(i)', k \in After' PROVE k \in pressed'
  <2>1. CASE First(c, i)
    BY <1>0, <1>2, <1>9, <2>1 DEF SidedOk, First
  <2>2. CASE i = e /\ Waiting(c) = {}
    BY <1>0, <1>9, <2>2 DEF SidedOk, Agrees
  <2> QED
    BY <1>0, <1>9, <2>1, <2>2, PostedOrder
<1>10. Waiting(c)' # {}
  BY <1>0
<1> QED
  BY <1>0, <1>3, <1>4, <1>5, <1>6, <1>8, <1>9, <1>10 DEF SidedOk

\* A key-up is posted for a key that is down on the server, when nothing waits.
LEMMA UpsPosted ==
  ASSUME messages \in Seq(Reports), NEW key \in Sided \cap Followed, NEW d \in BOOLEAN,
         SidedOk(key), UpsOk(key[1]), After' = After, d \/ key \in pressed,
         AllFollowed(key[1])' => AllFollowed(key[1]),
         ~d => \A i \in Waiting(key[1]) : ~Down(i),
         NEW e \in Nat, Waiting(key[1])' = Waiting(key[1]) \cup {e}, Down(e)' <=> d,
         \A i \in Waiting(key[1]) : i < e /\ (Down(i)' <=> Down(i))
  PROVE  UpsOk(key[1])'
<1>0. PICK c : c = key[1]
  OBVIOUS
<1> SUFFICES ASSUME AllFollowed(c)', NEW i \in Waiting(c)', ~Down(i)'
             PROVE  First(c, i)' /\ \E k \in After' \cap ClientKeys \cap Sided : k[1] = c
  BY <1>0 DEF UpsOk
<1>1. AllFollowed(c) /\ Waiting(c) \subseteq Nat
  BY <1>0, WaitingFacts
<1>2. CASE i \in Waiting(c)
  <2>1. ~Down(i)
    BY <1>0, <1>2
  <2>2. First(c, i) /\ \E k \in After \cap ClientKeys \cap Sided : k[1] = c
    BY <1>0, <1>1, <1>2, <2>1 DEF UpsOk
  <2> QED
    BY <1>0, <1>2, <2>2, PostedOrder
<1>3. CASE i = e
  <2>1. ~d /\ key \in pressed
    BY <1>3
  <2>2. ASSUME NEW j \in Waiting(c) PROVE FALSE
    <3>1. \A l \in Waiting(c) : First(c, l)
      BY <1>0, <1>1, <2>1 DEF UpsOk
    <3>2. Last(c, j)
      BY <3>1 DEF First, Last
    <3> QED
      BY <1>0, <2>1, <3>2 DEF SidedOk
  <2>3. key \in After
    BY <1>0, <2>1, <2>2 DEF SidedOk, Agrees
  <2>4. First(c, e)'
    BY <1>0, <2>2, PostedOrder
  <2> QED
    BY <1>0, <1>3, <2>3, <2>4 DEF Followed
<1> QED
  BY <1>0, <1>2, <1>3

LEMMA KeyboardInv ==
  ASSUME Inv, NEW key \in ClientKeys, Press(key) \/ Release(key)
  PROVE  Inv'
<1>1. PICK d \in BOOLEAN : (d => Press(key)) /\ (~d => Release(key))
  OBVIOUS
<1>2. /\ UNCHANGED <<held, pc, event, keyDownToUpMapping, connected, mine>>
      /\ After' = After /\ Followed' \subseteq Followed
      /\ pressed' = (IF d THEN pressed \cup {key} ELSE pressed \ {key})
      /\ d \/ key \in pressed
  BY <1>1, KeyPosted
<1>3. key \in Physical /\ Followed \subseteq Physical /\ messages \in Seq(Reports)
  BY KeyAssumption DEF Followed, Inv, TInv
<1>4. PICK m \in Reports : m = [code |-> Reported(key), isKeyDown |-> d]
  BY DEF Reports
<1>5. m.code = Reported(key) /\ (m.isKeyDown <=> d) /\ (focused => messages' = Append(messages, m))
  BY <1>1, <1>4, KeyPosted
<1>6. messages' \in Seq(Reports)
  <2>1. CASE focused
    BY <1>3, <1>5, <2>1
  <2>2. CASE ~focused
    BY <1>1, <1>3, <2>2, KeyPosted
  <2> QED
    BY <2>1, <2>2
<1>7. TInv' /\ HInv' /\ OldEvents'
  BY <1>2, <1>6 DEF Inv, TInv, HInv, OldEvents
<1>8. ~focused \/ (\A c : c # Reported(key) => Moved(c, 0))
  BY <1>3, <1>5, Posted
<1>9. ~focused => \A c : Moved(c, 0)
  <2> SUFFICES ASSUME ~focused, NEW c PROVE Moved(c, 0)
    OBVIOUS
  <2>1. messages' = messages
    BY <1>1, KeyPosted
  <2> QED
    BY <1>3, <2>1 DEF Moved, Waiting, Down
<1>10. \A c \in Modifiers : AllFollowed(c)' => AllFollowed(c)
  BY <1>2 DEF AllFollowed
<1>11. ASSUME NEW k \in Followed' \ Sided PROVE PlainOk(k)'
  <2>1. PlainOk(k) /\ k \in Physical /\ Reported(k) = k
    BY <1>2, <1>3, KeyFacts DEF Inv, KeysOk
  <2>2. CASE Moved(k, 0) /\ k # key
    <3>1. (k \in pressed)' <=> k \in pressed
      BY <1>2, <2>2
    <3> QED
      BY <1>2, <1>3, <1>6, <2>1, <2>2, <3>1, PlainMoved
  <2>3. CASE focused /\ k = key
    <3>1. PICK e \in Nat :
            /\ Waiting(k)' = Waiting(k) \cup {e} /\ (Down(e)' <=> d)
            /\ \A i \in Waiting(k) : i < e /\ (Down(i)' <=> Down(i))
      BY <1>3, <1>5, <2>1, <2>3, Posted
    <3>2. (k \in pressed' <=> d) /\ (d \/ k \in pressed)
      BY <1>2, <2>3
    <3> QED
      BY <1>2, <1>3, <2>1, <3>1, <3>2, PlainPosted
  <2>4. focused /\ k # key => Reported(k) # Reported(key)
    BY <1>3, <2>1, SameCode
  <2>5. ~focused => k # key
    BY <1>1, KeyPosted
  <2> QED
    BY <1>8, <1>9, <2>1, <2>2, <2>3, <2>4, <2>5
<1>12. ASSUME NEW k \in Followed' \cap Sided PROVE SidedOk(k)'
  <2>1. SidedOk(k) /\ k \in Physical /\ Reported(k) = k[1]
    BY <1>2, <1>3, KeyFacts DEF Inv, KeysOk
  <2>2. CASE key \notin Sided \/ k[1] # key[1]
    <3>1. Reported(key) # k[1]
      BY <1>3, <2>1, <2>2, SameCode
    <3>2. Moved(k[1], 0)
      BY <1>8, <1>9, <3>1
    <3>3. \A l \in Sided : l[1] = k[1] => (l \in pressed' <=> l \in pressed)
      BY <1>2, <2>2
    <3> QED
      BY <1>2, <1>3, <1>6, <2>1, <3>2, <3>3, SidedMoved
  <2>3. CASE key \in Sided /\ k[1] = key[1]
    <3>1. \/ d /\ key \in pressed /\ pressed' = pressed
          \/ OtherSide(key) \cap pressed = {} /\ \A i \in Waiting(k[1]) : ~Down(i)
      BY <1>1, <2>3, KeyPosted
    <3>2. Reported(key) = k[1]
      BY <2>3 DEF Reported
    <3>3. CASE focused
      <4>1. PICK e \in Nat :
              /\ Waiting(k[1])' = Waiting(k[1]) \cup {e} /\ (Down(e)' <=> d)
              /\ \A i \in Waiting(k[1]) : i < e /\ (Down(i)' <=> Down(i))
        BY <1>3, <1>5, <3>2, <3>3, Posted
      <4> QED
        BY <1>2, <1>3, <2>1, <2>3, <3>1, <4>1, SidedPosted
    <3>4. CASE ~focused
      <4>0. key \notin Followed'
        BY <1>1, <3>4, KeyPosted
      <4>1. k # key /\ k \in OtherSide(key) /\ key \in OtherSide(k)
        BY <2>3, <4>0 DEF OtherSide
      <4>2. (k \in pressed)' <=> k \in pressed
        BY <1>2, <4>1
      <4>3. k \in pressed' => OtherSide(k) \cap pressed' = {}
        <5>1. CASE pressed' \subseteq pressed
          BY <2>1, <4>2, <5>1 DEF SidedOk
        <5>2. CASE OtherSide(key) \cap pressed = {}
          BY <4>1, <4>2, <5>2
        <5> QED
          BY <3>1, <5>1, <5>2
      <4>4. \A i \in Waiting(k[1]) : Down(i) => \E l \in pressed' \cap Sided : l[1] = k[1]
        BY <2>3, <3>1
      <4>5. Moved(k[1], 0)
        BY <1>9, <3>4
      <4> QED
        BY <1>2, <1>3, <1>6, <2>1, <4>2, <4>3, <4>4, <4>5, SidedStays
    <3> QED
      BY <3>3, <3>4
  <2> QED
    BY <2>2, <2>3
<1>13. ASSUME NEW c \in Modifiers PROVE UpsOk(c)'
  <2>1. UpsOk(c)
    BY DEF Inv, KeysOk
  <2>2. CASE Moved(c, 0)
    BY <1>2, <1>3, <1>6, <1>10, <2>1, <2>2, UpsMoved
  <2>3. CASE focused /\ c = Reported(key)
    <3>1. key \in Sided /\ key[1] = c
      BY <1>3, <2>3, KeyFacts, InjectionAssumption
    <3> SUFFICES ASSUME AllFollowed(c)' PROVE UpsOk(c)'
      BY DEF UpsOk
    <3>2. key \in Followed' /\ key \in Followed
      BY <1>2, <2>3 DEF AllFollowed
    <3>3. ~d => \A i \in Waiting(c) : ~Down(i)
      BY <1>1, <3>1, <3>2, KeyPosted
    <3>4. PICK e \in Nat :
            /\ Waiting(c)' = Waiting(c) \cup {e} /\ (Down(e)' <=> d)
            /\ \A i \in Waiting(c) : i < e /\ (Down(i)' <=> Down(i))
      BY <1>3, <1>5, <2>3, Posted
    <3>5. SidedOk(key)
      BY <3>1, <3>2 DEF Inv, KeysOk
    <3> QED
      BY <1>2, <1>3, <1>10, <2>1, <3>1, <3>2, <3>3, <3>4, <3>5, UpsPosted
  <2> QED
    BY <1>8, <1>9, <2>2, <2>3
<1> QED
  BY <1>7, <1>11, <1>12, <1>13 DEF Inv, KeysOk

LEMMA ConnectionInv ==
  ASSUME Inv, SwitchFocus \/ LoseConnection \/ Reconnect
  PROVE  Inv'
<1>0. mine \in Handlers /\ DOMAIN event = Handlers
  BY DEF Inv, TInv, HInv
<1>1. CASE SwitchFocus
  <2>1. UNCHANGED <<held, pc, event, pressed, messages, keyDownToUpMapping, connected, mine,
                    missed, late>>
    BY <1>1 DEF SwitchFocus, serverVars, historyVars
  <2>2. HInv' /\ OldEvents' /\ After' = After /\ Followed' = Followed
    BY <2>1 DEF Inv, HInv, OldEvents, Followed, After
  <2> QED
    BY <1>0, <2>1, <2>2, QuietStep
<1>2. CASE LoseConnection
  <2>1. /\ UNCHANGED <<held, pc, pressed, messages, keyDownToUpMapping, mine>>
        /\ missed \subseteq missed' /\ Followed' \subseteq Followed
        /\ event' = event \/ (pc[mine] = "recv" /\ event' = [event EXCEPT ![mine] = <<>>])
    BY <1>2 DEF LoseConnection, Followed
  <2>2. event[mine] # <<>> => ServerKey(Head(event[mine]).code) \notin Followed'
    <3>1. ASSUME NEW e \in Events, event[mine] = <<e>>
          PROVE  ServerKey(e.code) \in missed' /\ Head(event[mine]) = e
      <4>1. {event[mine][i] : i \in DOMAIN event[mine]} = {e}
        BY <3>1
      <4> QED
        BY <1>2, <3>1, <4>1 DEF LoseConnection
    <3> QED
      BY <1>0, <3>1 DEF Inv, HInv, Followed
  <2>3. HInv'
    BY <1>0, <2>1 DEF Inv, HInv
  <2>4. OldEvents'
    BY <1>0, <2>1, <2>2 DEF Inv, OldEvents
  <2>5. \A k \in Followed' : k \in After' <=> k \in After
    BY <1>0, <2>1, <2>2 DEF After
  <2> QED
    BY <1>0, <2>1, <2>3, <2>4, <2>5, QuietStep
<1>3. CASE Reconnect
  <2>1. /\ UNCHANGED <<held, pc, event, pressed, messages, keyDownToUpMapping, missed, late>>
        /\ ~connected /\ mine' \in Handlers /\ event[mine'] = <<>>
    BY <1>3 DEF Reconnect, serverVars, historyVars, Idle
  <2>2. Followed' = Followed
    BY <2>1 DEF Followed
  <2>3. HInv'
    BY <2>1 DEF Inv, HInv
  <2>4. OldEvents'
    BY <2>1, <2>2 DEF Inv, OldEvents
  <2>5. After' = held
    BY <2>1 DEF After
  <2> QED
    BY <1>0, <2>1, <2>2, <2>3, <2>4, <2>5, NothingPending, QuietStep DEF Inv
<1> QED
  BY <1>1, <1>2, <1>3

-----------------------------------------------------------------------------
(* The GUI thread.                                                         *)

\* The event is given to the handler, or held against its key.
LEMMA SendEffect ==
  ASSUME Inv, NEW code \in Codes, NEW d \in BOOLEAN, sendKeyPress(code, d),
         UNCHANGED <<pressed, connected, mine>>
  PROVE  /\ HInv' /\ OldEvents'
         /\ Followed' \subseteq Followed \cup Told(code, d)
         /\ ServerKey(code) \in Followed' => (ServerKey(code) \in After' <=> d)
         /\ \A k \in Followed' : k # ServerKey(code) => (k \in After' <=> k \in After)
<1>0. mine \in Handlers /\ DOMAIN event = Handlers /\ HInv /\ OldEvents
  BY DEF Inv, TInv, HInv
<1>1. Told(code, d) \subseteq {code} \cap Physical
  BY KeyAssumption DEF Told, Inv, TInv
<1>2. CASE Send(code, d)
  <2>1. /\ UNCHANGED <<held, pc>> /\ connected /\ Idle(mine)
        /\ event' = [event EXCEPT ![mine] = <<[code |-> code, isKeyDown |-> d]>>]
        /\ missed' = missed \ Told(code, d) /\ late' = late \ Told(code, d)
    BY <1>2 DEF Send
  <2>2. PICK e \in Events : e = [code |-> code, isKeyDown |-> d]
    BY DEF Events
  <2>3. event' = [event EXCEPT ![mine] = <<e>>] /\ e.code = code /\ (e.isKeyDown <=> d)
    BY <2>1, <2>2
  <2>4. HInv'
    BY <1>0, <2>1, <2>3 DEF HInv
  <2>5. After = held
    BY <2>1 DEF After, Idle
  <2>6. After' = IF d THEN held \cup {ServerKey(code)} ELSE held \ {ServerKey(code)}
    <3>1. event'[mine'] = <<e>> /\ held' = held /\ mine' \in Handlers
      BY <1>0, <2>1, <2>3
    <3>2. event'[mine'] # <<>> /\ Head(event'[mine']) = e
      BY <3>1
    <3> QED
      BY <2>3, <3>1, <3>2 DEF After
  <2>7. Followed' \subseteq Followed \cup Told(code, d)
    BY <2>1 DEF Followed
  <2>8. OldEvents'
    <3> SUFFICES ASSUME NEW h \in Handlers, event'[h] # <<>>, h # mine
                 PROVE  ServerKey(Head(event'[h]).code) \notin Followed'
      BY <2>1 DEF OldEvents
    <3>1. event'[h] = event[h]
      BY <1>0, <2>3
    <3>2. ServerKey(Head(event[h]).code) \notin Followed
      BY <1>0, <3>1 DEF OldEvents
    <3>3. ASSUME ServerKey(Head(event[h]).code) \in Told(code, d) PROVE FALSE
      <4>1. ~Overdue(code) /\ ServerKey(Head(event[h]).code) = code
        BY <3>3 DEF Told
      <4> QED
        BY <3>1, <4>1 DEF Overdue
    <3> QED
      BY <2>7, <3>1, <3>2, <3>3
  <2> QED
    BY <2>4, <2>5, <2>6, <2>7, <2>8
<1>3. CASE Drop(code, d)
  <2>1. UNCHANGED <<held, pc, event, late>> /\ ~connected /\ missed \subseteq missed'
    BY <1>3 DEF Drop, serverVars
  <2>2. Followed' \subseteq Followed /\ After' = After
    BY <2>1 DEF Followed, After
  <2>3. HInv' /\ OldEvents'
    BY <2>1, <2>2 DEF Inv, HInv, OldEvents
  <2>4. \A k \in Followed : k \in After <=> k \in held
    BY <1>0, <2>1, NothingPending
  <2>5. ServerKey(code) \in Followed' => (ServerKey(code) \in held <=> d)
    BY <1>3 DEF Drop, Followed
  <2> QED
    BY <2>2, <2>3, <2>4, <2>5
<1> QED
  BY <1>2, <1>3 DEF sendKeyPress

\* Keys that have another code.
LEMMA OthersMoved ==
  ASSUME Inv, messages # <<>>, messages' = Tail(messages), pressed' = pressed,
         NEW c, c = Head(messages).code, NEW key, Reported(key) = c,
         \A b \in Codes \ {c} : keyDownToUpMapping'[b] = keyDownToUpMapping[b],
         \A k \in Followed' : Reported(k) # c => k \in Followed,
         \A k \in Followed' : k # key => (k \in After' <=> k \in After)
  PROVE  /\ \A k \in Followed' \ Sided : k # c => PlainOk(k)'
         /\ \A k \in Followed' \cap Sided : k[1] # c => SidedOk(k)'
         /\ \A b \in Modifiers : b # c => UpsOk(b)'
<1>1. messages \in Seq(Reports) /\ messages' \in Seq(Reports) /\ Followed' \subseteq Physical
  BY Taken, KeyAssumption DEF Inv, TInv, Followed
<1>2. \A b : b # c => Moved(b, 1)
  BY <1>1, Taken
<1>3. ASSUME NEW k \in Followed' \ Sided, k # c PROVE PlainOk(k)'
  <2>1. Reported(k) = k /\ k # key
    BY <1>3 DEF Reported
  <2>2. PlainOk(k)
    BY <1>3, <2>1 DEF Inv, KeysOk
  <2>3. Moved(k, 1)
    BY <1>2, <1>3
  <2> QED
    BY <1>1, <2>1, <2>2, <2>3, PlainMoved
<1>4. ASSUME NEW k \in Followed' \cap Sided, k[1] # c PROVE SidedOk(k)'
  <2>1. Reported(k) = k[1] /\ k # key /\ k[1] \in Codes
    BY <1>1, <1>4, KeyFacts DEF Reported, Codes
  <2>2. SidedOk(k)
    BY <1>4, <2>1 DEF Inv, KeysOk
  <2>3. Moved(k[1], 1) /\ keyDownToUpMapping'[k[1]] = keyDownToUpMapping[k[1]]
    BY <1>2, <1>4, <2>1
  <2> QED
    BY <1>1, <2>1, <2>2, <2>3, SidedMoved
<1>5. ASSUME NEW b \in Modifiers, b # c PROVE UpsOk(b)'
  <2>1. AllFollowed(b)' => AllFollowed(b)
    BY <1>5 DEF AllFollowed
  <2>2. \A k \in Followed' \cap Sided : k[1] = b => (k \in After' <=> k \in After)
    BY <1>5 DEF Reported
  <2>3. Moved(b, 1) /\ UpsOk(b)
    BY <1>2, <1>5 DEF Inv, KeysOk
  <2> QED
    BY <1>1, <2>1, <2>2, <2>3, UpsMoved
<1> QED
  BY <1>3, <1>4, <1>5

\* The code of the oldest message.
LEMMA HeadCode ==
  ASSUME Inv, messages # <<>>
  PROVE  /\ Head(messages) \in Reports /\ Head(messages).code \in Modifiers \cup OtherKeys
         /\ \E k \in ClientKeys : Reported(k) = Head(messages).code
<1>1. Head(messages) \in Reports
  BY DEF Inv, TInv
<1>2. PICK k \in ClientKeys : Reported(k) = Head(messages).code
  BY <1>1 DEF Reports
<1> QED
  BY <1>1, <1>2, KeyFacts, KeyAssumption

LEMMA KeyDownInv ==
  ASSUME Inv, GetKeyDown
  PROVE  Inv'
<1> DEFINE head == Head(messages)
<1>1. PICK c : c = head.code
  OBVIOUS
<1>2. PICK sent : sent = Converted(c)
  OBVIOUS
<1>3. /\ messages # <<>> /\ messages' = Tail(messages) /\ head.isKeyDown
      /\ UNCHANGED <<pressed, connected, mine>> /\ sendKeyPress(sent, TRUE)
      /\ keyDownToUpMapping' = IF sent # c THEN [keyDownToUpMapping EXCEPT ![c] = sent]
                                           ELSE keyDownToUpMapping
  BY <1>1, <1>2 DEF GetKeyDown
<1>4. /\ c \in Modifiers \cup OtherKeys /\ c \in Codes /\ TInv
      /\ pressed \subseteq Physical /\ Followed' \subseteq Physical
  BY <1>1, <1>3, HeadCode, KeyAssumption DEF Codes, Physical, Inv, TInv, Followed
<1>5. /\ sent \in Codes /\ Reported(ServerKey(sent)) = c
      /\ sent = c \/ (sent \in pressed \cap Sided /\ c \in Modifiers)
      /\ \A k \in pressed \cap Sided : k[1] = c => sent \in pressed \cap Sided /\ sent[1] = c
  BY <1>2, <1>4, ConvertedFacts
<1>6. /\ HInv' /\ OldEvents' /\ Followed' \subseteq Followed \cup Told(sent, TRUE)
      /\ ServerKey(sent) \in Followed' => ServerKey(sent) \in After'
      /\ \A k \in Followed' : k # ServerKey(sent) => (k \in After' <=> k \in After)
  BY <1>3, <1>5, SendEffect
<1> HIDE DEF head
<1>7. /\ messages \in Seq(Reports) /\ messages' \in Seq(Reports)
      /\ First(c, 1) /\ Down(1)
      /\ Waiting(c)' = {} => Last(c, 1)
      /\ \A i \in Waiting(c)' :
           /\ i \in Nat /\ i >= 1 /\ i + 1 \in Waiting(c) /\ (Down(i)' <=> Down(i + 1))
           /\ First(c, i)' => Adjacent(c, 1, i + 1)
           /\ Last(c, i)' => Last(c, i + 1)
      /\ \A i, j \in Waiting(c)' : Adjacent(c, i, j)' => Adjacent(c, i + 1, j + 1)
  BY <1>1, <1>3, Taken DEF Inv, TInv, head
<1>8. ASSUME NEW k \in Told(sent, TRUE)
      PROVE  /\ k = sent /\ ServerKey(k) = k /\ Reported(k) = c /\ k \in pressed
             /\ k \in Sided => OtherSide(k) \cap pressed = {}
             /\ Waiting(c)' = {}
  <2>1. /\ k = sent /\ k \in pressed
        /\ k \in Sided => OtherSide(k) \cap pressed = {}
    BY DEF Told
  <2>2. ServerKey(k) = k /\ Reported(k) = c
    BY <1>4, <1>5, <2>1, KeyFacts
  <2>3. Waiting(c) \subseteq {1}
    BY <2>1, <2>2 DEF Told
  <2>4. Waiting(c)' = {}
    BY <1>7, <2>3
  <2> QED
    BY <2>1, <2>2, <2>4 DEF Told
<1>9. TInv'
  <2>1. CASE sent = c
    BY <1>3, <1>7, <2>1 DEF Inv, TInv
  <2>2. CASE sent # c
    <3>1. c \in Modifiers /\ sent \in Physical /\ Reported(sent) = c /\ sent \in Sided
      BY <1>4, <1>5, <2>2, KeyFacts
    <3>2. c \notin Physical /\ sent \in {<<c, "left">>, <<c, "right">>}
      BY <3>1, KeyFacts
    <3>3. keyDownToUpMapping' = [keyDownToUpMapping EXCEPT ![c] = sent]
      BY <1>3, <2>2
    <3> QED
      BY <1>3, <1>4, <1>5, <1>7, <3>1, <3>2, <3>3 DEF TInv
  <2> QED
    BY <2>1, <2>2
<1>10. /\ \A b \in Codes \ {c} : keyDownToUpMapping'[b] = keyDownToUpMapping[b]
       /\ sent # c => keyDownToUpMapping'[c] = sent
  BY <1>3, <1>4 DEF TInv
<1>11. /\ \A k \in Followed' \ Sided : k # c => PlainOk(k)'
       /\ \A k \in Followed' \cap Sided : k[1] # c => SidedOk(k)'
       /\ \A b \in Modifiers : b # c => UpsOk(b)'
  <2>1. \A k \in Followed' : Reported(k) # c => k \in Followed
    BY <1>6, <1>8
  <2> QED
    BY <1>1, <1>3, <1>5, <1>6, <1>10, <2>1, OthersMoved DEF head
<1>12. ASSUME c \in Followed' \ Sided PROVE PlainOk(c)'
  <2>1. sent = c /\ ServerKey(sent) = c
    BY <1>4, <1>5, <1>12, KeyFacts
  <2>2. c \in After'
    BY <1>6, <1>12, <2>1
  <2>3. CASE c \in Told(sent, TRUE)
    BY <1>3, <1>8, <2>2, <2>3 DEF PlainOk, Agrees
  <2>4. CASE c \in Followed
    <3>1. PlainOk(c)
      BY <1>12, <2>4 DEF Inv, KeysOk
    <3>2. Waiting(c)' = {} => c \in pressed
      BY <1>7, <3>1 DEF PlainOk, First
    <3>3. \A i \in Waiting(c)' : Last(c, i)' => (Down(i)' <=> c \in pressed')
      BY <1>3, <1>7, <3>1 DEF PlainOk
    <3>4. \A i, j \in Waiting(c)' : Adjacent(c, i, j)' => Down(i)' \/ Down(j)'
      BY <1>7, <3>1 DEF PlainOk
    <3> QED
      BY <1>3, <2>2, <3>2, <3>3, <3>4 DEF PlainOk, Agrees
  <2> QED
    BY <1>6, <1>12, <2>3, <2>4
<1>13. ASSUME NEW k \in Followed' \cap Sided, k[1] = c PROVE SidedOk(k)'
  <2>1. k \in Physical /\ Reported(k) = c /\ k # c /\ ServerKey(k) = k
    BY <1>4, <1>13, KeyFacts
  <2>2. CASE k \in Told(sent, TRUE)
    <3>1. k = sent /\ k \in pressed' /\ OtherSide(k) \cap pressed' = {} /\ Waiting(c)' = {}
      BY <1>3, <1>8, <2>2
    <3>2. k \in After' /\ keyDownToUpMapping'[c] = k
      BY <1>6, <1>10, <2>1, <3>1
    <3> QED
      BY <1>13, <3>1, <3>2 DEF SidedOk, Agrees
  <2>3. CASE k \in Followed
    <3>1. SidedOk(k)
      BY <1>13, <2>3 DEF Inv, KeysOk
    <3>2. sent \in pressed \cap Sided /\ sent[1] = c /\ ServerKey(sent) = sent
      <4>1. \E l \in pressed \cap Sided : l[1] = c
        BY <1>7, <1>13, <3>1 DEF SidedOk, First
      <4>2. sent \in pressed \cap Sided /\ sent[1] = c
        BY <1>5, <4>1
      <4> QED
        BY <1>4, <4>2, KeyFacts
    <3>3. (k \in pressed <=> k = sent) /\ (k \in After' => k = sent) /\ (k = sent => k \in After')
      <4>1. CASE k = sent
        BY <1>6, <3>2, <4>1
      <4>2. CASE k # sent
        <5>1. sent \in OtherSide(k)
          BY <1>13, <3>2, <4>2 DEF OtherSide
        <5>2. k \notin pressed
          BY <3>1, <3>2, <5>1 DEF SidedOk
        <5>3. k \notin After
          BY <1>7, <1>13, <3>1, <5>2 DEF SidedOk, First
        <5> QED
          BY <1>6, <3>2, <4>2, <5>2, <5>3
      <4> QED
        BY <4>1, <4>2
    <3>4. k \in pressed' => OtherSide(k) \cap pressed' = {}
      BY <1>3, <3>1 DEF SidedOk
    <3>5. k \in After' => keyDownToUpMapping'[c] = k
      BY <1>10, <2>1, <3>3
    <3>6. \A i, j \in Waiting(c)' : i < j /\ Down(i)' => Down(j)'
      <4> SUFFICES ASSUME NEW i \in Waiting(c)', NEW j \in Waiting(c)', i < j, Down(i)'
                   PROVE  Down(j)'
        OBVIOUS
      <4>1. i + 1 \in Waiting(c) /\ j + 1 \in Waiting(c) /\ i + 1 < j + 1 /\ Down(i + 1)
        BY <1>7
      <4> QED
        BY <1>7, <1>13, <3>1, <4>1 DEF SidedOk
    <3>7. \A i \in Waiting(c)' : Last(c, i)' /\ k \in pressed' => Down(i)'
      BY <1>3, <1>7, <1>13, <3>1 DEF SidedOk
    <3>8. \A i \in Waiting(c)' : Down(i)' => \E l \in pressed' \cap Sided : l[1] = c
      BY <1>3, <3>2
    <3> QED
      BY <1>3, <1>13, <3>3, <3>4, <3>5, <3>6, <3>7, <3>8 DEF SidedOk, Agrees
  <2> QED
    BY <1>6, <1>13, <2>2, <2>3
<1>14. c \in Modifiers => UpsOk(c)'
  <2> SUFFICES ASSUME c \in Modifiers, AllFollowed(c)', NEW i \in Waiting(c)', ~Down(i)' PROVE FALSE
    BY DEF UpsOk
  <2>1. AllFollowed(c)
    BY <1>6, <1>8 DEF AllFollowed
  <2>2. i + 1 \in Waiting(c) /\ ~Down(i + 1) /\ i \in Nat /\ i >= 1 /\ 1 \in Waiting(c)
    BY <1>7 DEF First
  <2> QED
    BY <2>1, <2>2 DEF Inv, KeysOk, UpsOk, First
<1> QED
  BY <1>6, <1>9, <1>11, <1>12, <1>13, <1>14 DEF Inv, KeysOk

LEMMA KeyUpInv ==
  ASSUME Inv, GetKeyUp
  PROVE  Inv'
<1> DEFINE head == Head(messages)
<1>1. PICK c : c = head.code
  OBVIOUS
<1>2. PICK sent : sent = keyDownToUpMapping[c]
  OBVIOUS
<1>3. /\ messages # <<>> /\ messages' = Tail(messages) /\ ~head.isKeyDown
      /\ UNCHANGED <<pressed, connected, mine>> /\ sendKeyPress(sent, FALSE)
      /\ keyDownToUpMapping' = [keyDownToUpMapping EXCEPT ![sent] = sent]
  BY <1>1, <1>2 DEF GetKeyUp
<1>4. c \in Modifiers \cup OtherKeys /\ TInv /\ Followed' \subseteq Physical
  BY <1>1, <1>3, HeadCode, KeyAssumption DEF Inv, Followed
<1>5. /\ sent \in Codes /\ Reported(ServerKey(sent)) = c
      /\ c \in OtherKeys => sent = c
      /\ keyDownToUpMapping' = keyDownToUpMapping
  BY <1>2, <1>3, <1>4, ReleasedCode
<1>6. /\ HInv' /\ OldEvents' /\ Followed' \subseteq Followed
      /\ ServerKey(sent) \notin Followed' \cap After'
      /\ \A k \in Followed' : k # ServerKey(sent) => (k \in After' <=> k \in After)
  BY <1>3, <1>5, SendEffect DEF Told
<1> HIDE DEF head
<1>7. /\ messages \in Seq(Reports) /\ messages' \in Seq(Reports)
      /\ First(c, 1) /\ ~Down(1)
      /\ Waiting(c)' = {} => Last(c, 1)
      /\ \A i \in Waiting(c)' :
           /\ i \in Nat /\ i >= 1 /\ i + 1 \in Waiting(c) /\ (Down(i)' <=> Down(i + 1))
           /\ First(c, i)' => Adjacent(c, 1, i + 1)
           /\ Last(c, i)' => Last(c, i + 1)
      /\ \A i, j \in Waiting(c)' : Adjacent(c, i, j)' => Adjacent(c, i + 1, j + 1)
  BY <1>1, <1>3, Taken DEF Inv, TInv, head
<1>8. TInv'
  BY <1>3, <1>5, <1>7 DEF Inv, TInv
<1>9. /\ \A k \in Followed' \ Sided : k # c => PlainOk(k)'
      /\ \A k \in Followed' \cap Sided : k[1] # c => SidedOk(k)'
      /\ \A b \in Modifiers : b # c => UpsOk(b)'
  BY <1>1, <1>3, <1>5, <1>6, OthersMoved DEF head
<1>10. ASSUME c \in Followed' \ Sided PROVE PlainOk(c)'
  <2>1. sent = c /\ ServerKey(sent) = c
    BY <1>4, <1>5, <1>10, KeyFacts
  <2>2. c \notin After' /\ PlainOk(c)
    BY <1>6, <1>10, <2>1 DEF Inv, KeysOk
  <2>3. Waiting(c)' = {} => c \notin pressed
    BY <1>7, <2>2 DEF PlainOk, First
  <2>4. \A i \in Waiting(c)' : Last(c, i)' => (Down(i)' <=> c \in pressed')
    BY <1>3, <1>7, <2>2 DEF PlainOk
  <2>5. \A i, j \in Waiting(c)' : Adjacent(c, i, j)' => Down(i)' \/ Down(j)'
    BY <1>7, <2>2 DEF PlainOk
  <2>6. \A i \in Waiting(c)' : First(c, i)' => Down(i)'
    BY <1>7, <2>2 DEF PlainOk, First
  <2> QED
    BY <1>3, <2>2, <2>3, <2>4, <2>5, <2>6 DEF PlainOk, Agrees
<1>11. ASSUME NEW k \in Followed' \cap Sided, k[1] = c PROVE SidedOk(k)'
  <2>1. k \in Physical /\ k \in Followed /\ SidedOk(k)
    BY <1>4, <1>6, <1>11 DEF Inv, KeysOk
  <2>2. k \notin After'
    <3> SUFFICES ASSUME k \in After', k # ServerKey(sent) PROVE FALSE
      BY <1>6
    <3>1. sent = k
      BY <1>2, <1>6, <1>11, <2>1 DEF SidedOk
    <3> QED
      BY <2>1, <3>1, KeyFacts
  <2>3. Waiting(c)' = {} => k \notin pressed
    BY <1>7, <1>11, <2>1 DEF SidedOk, First
  <2>4. k \in pressed' => OtherSide(k) \cap pressed' = {}
    BY <1>3, <2>1 DEF SidedOk
  <2>5. \A i, j \in Waiting(c)' : i < j /\ Down(i)' => Down(j)'
    <3> SUFFICES ASSUME NEW i \in Waiting(c)', NEW j \in Waiting(c)', i < j, Down(i)'
                 PROVE  Down(j)'
      OBVIOUS
    <3>1. i + 1 \in Waiting(c) /\ j + 1 \in Waiting(c) /\ i + 1 < j + 1 /\ Down(i + 1)
      BY <1>7
    <3> QED
      BY <1>7, <1>11, <2>1, <3>1 DEF SidedOk
  <2>6. \A i \in Waiting(c)' : Last(c, i)' /\ k \in pressed' => Down(i)'
    BY <1>3, <1>7, <1>11, <2>1 DEF SidedOk
  <2>7. \A i \in Waiting(c)' : Down(i)' => \E l \in pressed' \cap Sided : l[1] = c
    BY <1>3, <1>7, <1>11, <2>1 DEF SidedOk
  <2> QED
    BY <1>3, <1>11, <2>2, <2>3, <2>4, <2>5, <2>6, <2>7 DEF SidedOk, Agrees
<1>12. c \in Modifiers => UpsOk(c)'
  <2> SUFFICES ASSUME c \in Modifiers, AllFollowed(c)', NEW i \in Waiting(c)', ~Down(i)'
               PROVE  FALSE
    BY DEF UpsOk
  <2>1. AllFollowed(c)
    BY <1>6 DEF AllFollowed
  <2>2. i + 1 \in Waiting(c) /\ ~Down(i + 1) /\ i \in Nat /\ i >= 1 /\ 1 \in Waiting(c)
    BY <1>7 DEF First
  <2> QED
    BY <2>1, <2>2 DEF Inv, KeysOk, UpsOk, First
<1> QED
  BY <1>6, <1>8, <1>9, <1>10, <1>11, <1>12 DEF Inv, KeysOk

-----------------------------------------------------------------------------

LEMMA StepInv ==
  ASSUME ~DEBUG => Inv, [Next]_vars
  PROVE  (~DEBUG => Inv)'
<1>1. DEBUG' = DEBUG
  <2>1. ASSUME Client PROVE DEBUG' = DEBUG
    BY <2>1 DEF Client, Keyboard, SwitchFocus, Press, Release, Post, LoseConnection, Reconnect,
      GetKeyDown, GetKeyUp, sendKeyPress, Send, Drop, serverVars
  <2>2. ASSUME Server PROVE DEBUG' = DEBUG
    BY <2>2 DEF Server, OtherClient, handleClient, ReceiveDown, ReceiveUp, Log, EndLog,
      InjectDown, InjectUp, ReleaseIfDown, EndRelease
  <2>3. ASSUME UNCHANGED vars PROVE DEBUG' = DEBUG
    BY <2>3 DEF vars, serverVars
  <2> QED
    BY <2>1, <2>2, <2>3 DEF Next
<1> SUFFICES ASSUME ~DEBUG, Inv PROVE Inv'
  BY <1>1
<1>2. ASSUME Client PROVE Inv'
  <2>1. ASSUME Keyboard PROVE Inv'
    BY <2>1, KeyboardInv, ConnectionInv DEF Keyboard
  <2> QED
    BY <1>2, <2>1, ConnectionInv, KeyDownInv, KeyUpInv DEF Client
<1>3. ASSUME UNCHANGED vars PROVE Inv'
  <2>1. UNCHANGED clientVars /\ UNCHANGED <<held, pc, event>>
    BY <1>3 DEF vars, serverVars
  <2>2. HInv'
    BY <2>1 DEF Inv, HInv
  <2> QED
    BY <2>1, <2>2, NoInjection
<1> QED
  BY <1>2, <1>3, ServerInv DEF Next

\* Whenever the GUI thread has caught up, the server's keyboard is the client's, left
\* and right told apart, for any number of keys, handlers and other clients and
\* however far the GUI thread was behind: the messages of a key, in their order,
\* are exactly what the server has not been told of it.
THEOREM MirrorsKeyboard == Spec => []ServerMirrorsKeyboard
<1>1. Init => (~DEBUG => Inv)
  BY InitInv
<1>2. (~DEBUG => Inv) /\ [Next]_vars => (~DEBUG => Inv)'
  BY StepInv
<1>3. (~DEBUG => Inv) => ServerMirrorsKeyboard
  <2> SUFFICES ASSUME Inv, messages = <<>>, event[mine] = <<>>
               PROVE  held \cap Followed = pressed \cap Followed
    BY DEF ServerMirrorsKeyboard
  <2>1. \A c : Waiting(c) = {}
    BY WaitingFacts DEF Inv, TInv
  <2>2. \A k \in Followed : Agrees(k)
    BY <2>1 DEF Inv, KeysOk, PlainOk, SidedOk
  <2>3. After = held
    BY DEF After
  <2> QED
    BY <2>2, <2>3 DEF Agrees
<1> QED
  BY <1>1, <1>2, <1>3, PTL DEF Spec

\* Only GetKeyUp gives the handler of the connection a key-up.
LEMMA OnlyUpSends ==
  ASSUME Inv, [Next]_vars, event[mine] = <<>>, NEW e, event'[mine] = <<e>>, ~e.isKeyDown
  PROVE  GetKeyUp
<1>1. mine \in Handlers /\ DOMAIN event = Handlers
  BY DEF Inv, TInv, HInv
<1>2. event'[mine] # <<>>
  OBVIOUS
<1>3. ASSUME UNCHANGED event PROVE FALSE
  BY <1>2, <1>3
<1>4. ~UNCHANGED vars
  BY <1>3 DEF vars, serverVars
<1>5. ~Keyboard /\ ~Reconnect
  BY <1>3 DEF Keyboard, SwitchFocus, Press, Release, Post, Reconnect, serverVars
<1>6. ~LoseConnection
  BY <1>1, <1>2 DEF LoseConnection
<1>7. ~GetKeyDown
  <2> SUFFICES ASSUME GetKeyDown PROVE FALSE
    OBVIOUS
  <2>1. PICK code : sendKeyPress(code, TRUE)
    BY DEF GetKeyDown
  <2>2. event'[mine] = <<[code |-> code, isKeyDown |-> TRUE]>>
    BY <1>1, <1>3, <2>1 DEF sendKeyPress, Send, Drop, serverVars
  <2>3. e = [code |-> code, isKeyDown |-> TRUE]
    BY <2>2
  <2> QED
    BY <2>3
<1>8. ~Server
  <2>1. ASSUME NEW h \in Handlers, OtherClient(h) PROVE FALSE
    BY <1>1, <1>2, <2>1 DEF OtherClient
  <2>2. ASSUME NEW h \in Handlers, event' = [event EXCEPT ![h] = <<>>] PROVE FALSE
    BY <1>1, <1>2, <2>2
  <2>3. ASSUME NEW h \in Handlers, handleClient(h) PROVE FALSE
    BY <1>3, <2>2, <2>3 DEF handleClient, ReceiveDown, ReceiveUp, Log, EndLog,
      InjectDown, InjectUp, ReleaseIfDown, EndRelease
  <2> QED
    BY <2>1, <2>3 DEF Server
<1> QED
  BY <1>4, <1>5, <1>6, <1>7, <1>8 DEF Next, Client

\* No key-up is sent for a key that is not down on the server, however far the GUI
\* thread is behind: the entry of keyDownToUpMapping that a key-up finds is that of
\* the key that went down.
THEOREM UpsMatch == Spec => UpMatchesDown
<1>1. Init => (~DEBUG => Inv)
  BY InitInv
<1>2. (~DEBUG => Inv) /\ [Next]_vars => (~DEBUG => Inv)'
  BY StepInv
<1> DEFINE Matches(e) ==
      /\ event[mine] = <<>> /\ event'[mine] = <<e>> /\ ~e.isKeyDown /\ ~DEBUG
      /\ \A k \in ClientKeys : Reported(k) = Reported(ServerKey(e.code)) => k \in Followed
      => ServerKey(e.code) \in held
<1>3. ASSUME ~DEBUG => Inv, [Next]_vars, NEW e \in Events
      PROVE  Matches(e)
  <2> SUFFICES ASSUME event[mine] = <<>>, event'[mine] = <<e>>, ~e.isKeyDown, ~DEBUG,
                      \A k \in ClientKeys : Reported(k) = Reported(ServerKey(e.code))
                        => k \in Followed
               PROVE  ServerKey(e.code) \in held
    OBVIOUS
  <2>1. GetKeyUp
    BY <1>3, OnlyUpSends
  <2> DEFINE head == Head(messages)
  <2>2. PICK c : c = head.code
    OBVIOUS
  <2>3. PICK sent : sent = keyDownToUpMapping[c]
    OBVIOUS
  <2>4. /\ Inv /\ messages # <<>> /\ messages' = Tail(messages) /\ ~head.isKeyDown
        /\ sendKeyPress(sent, FALSE)
    BY <1>3, <2>1, <2>2, <2>3 DEF GetKeyUp
  <2>5. TInv /\ c \in Modifiers \cup OtherKeys /\ \E k \in ClientKeys : Reported(k) = c
    BY <2>2, <2>4, HeadCode DEF Inv
  <2>6. /\ Reported(ServerKey(sent)) = c
        /\ c \in OtherKeys => sent = c
    BY <2>3, <2>5, ReleasedCode
  <2>7. First(c, 1) /\ ~Down(1)
    BY <2>2, <2>4, Taken DEF Inv, TInv
  <2> HIDE DEF head
  <2>8. mine \in Handlers /\ DOMAIN event = Handlers
    BY <2>4 DEF Inv, TInv, HInv
  <2>9. ~Drop(sent, FALSE)
    BY DEF Drop, serverVars
  <2>10. Idle(mine) /\ event'[mine] = <<[code |-> sent, isKeyDown |-> FALSE]>>
    BY <2>4, <2>8, <2>9 DEF sendKeyPress, Send
  <2>11. e.code = sent
    BY <2>10
  <2>12. AllFollowed(c)
    BY <2>6, <2>11 DEF AllFollowed
  <2>13. \A k \in Followed : k \in After <=> k \in held
    BY <2>4, <2>8, <2>10, NothingPending DEF Inv
  <2>14. CASE c \in Modifiers
    <3>1. PICK k \in After \cap ClientKeys \cap Sided : k[1] = c
      BY <2>4, <2>7, <2>12, <2>14 DEF Inv, KeysOk, UpsOk, First
    <3>2. k \in Followed /\ k \in Physical
      BY <2>12, <3>1, KeyAssumption DEF AllFollowed, Reported
    <3>3. sent = k
      BY <2>3, <2>4, <3>1, <3>2 DEF Inv, KeysOk, SidedOk
    <3> QED
      BY <2>11, <2>13, <3>1, <3>2, <3>3, KeyFacts
  <2>15. CASE c \in OtherKeys
    <3>1. PICK k \in ClientKeys : Reported(k) = c
      BY <2>5
    <3>2. k = c /\ k \notin Sided /\ k \in Physical
      BY <2>15, <3>1, KeyFacts, KeyAssumption, InjectionAssumption
    <3>3. k \in Followed
      BY <2>12, <3>1 DEF AllFollowed
    <3>4. k \in After
      BY <2>4, <2>7, <3>2, <3>3 DEF Inv, KeysOk, PlainOk, First
    <3> QED
      BY <2>6, <2>11, <2>13, <2>15, <3>2, <3>3, <3>4, KeyFacts
  <2> QED
    BY <2>5, <2>14, <2>15
<1>4. (~DEBUG => Inv) /\ [Next]_vars => \A e \in Events : Matches(e)
  BY <1>3
<1> QED
  BY <1>1, <1>2, <1>4, PTL DEF Spec, UpMatchesDown

-----------------------------------------------------------------------------
(* The types, with any lag, on any keyboard, and in debug mode.            *)

Messages == [code : Modifiers \cup OtherKeys, isKeyDown : BOOLEAN]

ClientTypeOK ==
  /\ pressed \subseteq Physical /\ missed \subseteq Physical /\ late \subseteq Physical
  /\ focused \in BOOLEAN /\ connected \in BOOLEAN
  /\ messages \in Seq(Messages) /\ Len(messages) <= MaxLag
  /\ keyDownToUpMapping \in [Codes -> Codes]
  /\ mine \in Handlers

LEMMA MessageType ==
  ASSUME ClientTypeOK, messages # <<>>
  PROVE  /\ Head(messages).code \in Codes /\ Head(messages).isKeyDown \in BOOLEAN
         /\ Tail(messages) \in Seq(Messages) /\ Len(Tail(messages)) <= MaxLag
<1>1. messages \in Seq(Messages)
  BY DEF ClientTypeOK
<1>2. Head(messages) \in Messages /\ Tail(messages) \in Seq(Messages)
      /\ Len(Tail(messages)) = Len(messages) - 1 /\ Len(messages) \in Nat
  BY <1>1
<1>3. Head(messages).code \in Modifiers \cup OtherKeys /\ Head(messages).isKeyDown \in BOOLEAN
  BY <1>2 DEF Messages
<1>4. MaxLag \in Nat /\ Len(messages) <= MaxLag
  BY KeyAssumption DEF ClientTypeOK
<1> QED
  BY <1>2, <1>3, <1>4 DEF Codes, Physical

LEMMA ReportedType == \A key \in Physical : Reported(key) \in Modifiers \cup OtherKeys
BY KeyFacts

LEMMA KeyboardTypes ==
  ASSUME ClientTypeOK, Keyboard
  PROVE  ClientTypeOK' /\ UNCHANGED serverVars
<1>1. CASE SwitchFocus
  BY <1>1 DEF SwitchFocus, ClientTypeOK, historyVars
<1>2. ASSUME NEW key \in ClientKeys, NEW d \in BOOLEAN, Post(key, d),
             pressed' = pressed \cup {key} \/ pressed' = pressed \ {key},
             late' = late \/ Change(key)
      PROVE  ClientTypeOK' /\ UNCHANGED serverVars
  <2>1. key \in Physical
    BY KeyAssumption
  <2>2. [code |-> Reported(key), isKeyDown |-> d] \in Messages
    BY <2>1, ReportedType DEF Messages
  <2>3. messages \in Seq(Messages) /\ Len(messages) \in Nat /\ MaxLag \in Nat
    BY KeyAssumption DEF ClientTypeOK
  <2>4. messages' \in Seq(Messages) /\ Len(messages') <= MaxLag
    <3>1. CASE focused
      <4>1. messages' = Append(messages, [code |-> Reported(key), isKeyDown |-> d])
            /\ Len(messages) < MaxLag
        BY <1>2, <3>1 DEF Post
      <4> QED
        BY <2>2, <2>3, <4>1
    <3>2. CASE ~focused
      BY <1>2, <3>2 DEF Post, ClientTypeOK
    <3> QED
      BY <3>1, <3>2
  <2>5. pressed' \subseteq Physical /\ missed' \subseteq Physical
    BY <1>2, <2>1 DEF Post, ClientTypeOK
  <2>6. late' \subseteq Physical
    BY <1>2, <2>1 DEF Change, OtherSide, Physical, ClientTypeOK
  <2> QED
    BY <1>2, <2>4, <2>5, <2>6 DEF Post, ClientTypeOK
<1> QED
  BY <1>1, <1>2 DEF Keyboard, Press, Release

LEMMA ConnectionTypes ==
  ASSUME ClientTypeOK, HandlersInv, LoseConnection \/ Reconnect
  PROVE  ClientTypeOK' /\ HandlersInv'
<1>1. CASE LoseConnection
  <2>1. /\ connected' = FALSE
        /\ UNCHANGED <<DEBUG, held, pc, loopVars, pressed, focused, messages,
                       keyDownToUpMapping, mine, late>>
        /\ \/ event' = event
           \/ pc[mine] = "recv" /\ event' = [event EXCEPT ![mine] = <<>>]
    BY <1>1 DEF LoseConnection
  <2>2. mine \in Handlers
    BY DEF ClientTypeOK
  <2>3. missed' \subseteq Physical
    <3>1. missed' = missed \cup {ServerKey(e.code) : e \in {event[mine][i] : i \in DOMAIN event[mine]}}
      BY <1>1 DEF LoseConnection
    <3>2. CASE event[mine] = <<>>
      BY <3>1, <3>2 DEF ClientTypeOK
    <3>3. CASE event[mine] # <<>>
      <4>1. PICK e \in Events : event[mine] = <<e>>
        BY <2>2, <3>3, EventFacts DEF HandlersInv
      <4>2. {event[mine][i] : i \in DOMAIN event[mine]} = {e}
        BY <4>1
      <4>3. e.code \in Codes
        BY DEF Events
      <4>4. ServerKey(e.code) \in Physical
        BY <4>3, CodeKeys
      <4>5. missed' = missed \cup {ServerKey(f.code) : f \in {e}}
        BY <3>1, <4>2
      <4> QED
        BY <4>4, <4>5 DEF ClientTypeOK
    <3> QED
      BY <3>2, <3>3
  <2>4. HandlersInv'
    BY <2>1, <2>2, EventIsLost, HandlersFrame DEF serverVars
  <2> QED
    BY <2>1, <2>3, <2>4 DEF ClientTypeOK
<1>2. CASE Reconnect
  BY <1>2, HandlersFrame DEF Reconnect, ClientTypeOK, historyVars
<1> QED
  BY <1>1, <1>2

LEMMA SendTypes ==
  ASSUME ClientTypeOK, HandlersInv, NEW code \in Codes, NEW d \in BOOLEAN, sendKeyPress(code, d)
  PROVE  HandlersInv' /\ missed' \subseteq Physical /\ late' \subseteq Physical
<1>1. CASE Send(code, d)
  <2>1. /\ Idle(mine) /\ mine \in Handlers
        /\ event' = [event EXCEPT ![mine] = <<[code |-> code, isKeyDown |-> d]>>]
        /\ UNCHANGED <<DEBUG, held, pc, loopVars>>
        /\ missed' \subseteq missed /\ late' \subseteq late
    BY <1>1 DEF Send, ClientTypeOK
  <2>2. [code |-> code, isKeyDown |-> d] \in Events
    BY DEF Events
  <2> QED
    BY <2>1, <2>2, EventArrives DEF ClientTypeOK
<1>2. CASE Drop(code, d)
  BY <1>2, CodeKeys, HandlersFrame DEF Drop, ClientTypeOK
<1> QED
  BY <1>1, <1>2 DEF sendKeyPress

LEMMA GetKeyTypes ==
  ASSUME ClientTypeOK, HandlersInv, GetKeyDown \/ GetKeyUp
  PROVE  ClientTypeOK' /\ HandlersInv'
<1> DEFINE code == Head(messages).code
<1>1. /\ code \in Codes /\ messages' \in Seq(Messages) /\ Len(messages') <= MaxLag
      /\ UNCHANGED <<pressed, focused, connected, mine>>
  BY MessageType DEF GetKeyDown, GetKeyUp
<1>2. CASE GetKeyDown
  <2>1. Converted(code) \in Codes
    BY <1>1 DEF Converted, ClientTypeOK, Codes
  <2>2. sendKeyPress(Converted(code), TRUE) /\ keyDownToUpMapping' \in
          {keyDownToUpMapping, [keyDownToUpMapping EXCEPT ![code] = Converted(code)]}
    BY <1>2 DEF GetKeyDown
  <2> HIDE DEF code
  <2>3. HandlersInv' /\ missed' \subseteq Physical /\ late' \subseteq Physical
    BY <2>1, <2>2, SendTypes
  <2> QED
    BY <1>1, <2>1, <2>2, <2>3 DEF ClientTypeOK
<1>3. CASE GetKeyUp
  <2> DEFINE sent == keyDownToUpMapping[code]
  <2>1. sent \in Codes
    BY <1>1 DEF ClientTypeOK
  <2>2. sendKeyPress(sent, FALSE) /\ keyDownToUpMapping' = [keyDownToUpMapping EXCEPT ![sent] = sent]
    BY <1>3 DEF GetKeyUp
  <2> HIDE DEF code, sent
  <2>3. HandlersInv' /\ missed' \subseteq Physical /\ late' \subseteq Physical
    BY <2>1, <2>2, SendTypes
  <2> QED
    BY <1>1, <2>1, <2>2, <2>3 DEF ClientTypeOK
<1> QED
  BY <1>2, <1>3

LEMMA OtherClientTypes ==
  ASSUME HandlersInv, NEW h \in Handlers, OtherClient(h)
  PROVE  HandlersInv' /\ UNCHANGED clientVars
<1>1. PICK c \in OtherClientCodes, d \in BOOLEAN :
        event' = [event EXCEPT ![h] = <<[code |-> c, isKeyDown |-> d]>>]
  BY DEF OtherClient
<1>2. [code |-> c, isKeyDown |-> d] \in Events
  BY KeyAssumption DEF Events
<1>3. Idle(h) /\ UNCHANGED <<DEBUG, held, pc, loopVars, clientVars>>
  BY DEF OtherClient
<1> QED
  BY <1>1, <1>2, <1>3, EventArrives

\* The types of KeyTranslation, in debug mode as without it: every code that is
\* sent, remembered or injected is one that the keyboard has.
THEOREM TranslationTypeCorrect == Spec => []TypeOK
<1>1. Init => ClientTypeOK /\ HandlersInv
  <2> SUFFICES ASSUME Init PROVE ClientTypeOK /\ HandlersInv
    OBVIOUS
  <2>1. <<>> \in Seq(Messages) /\ Len(<<>>) = 0 /\ MaxLag \in Nat
    BY KeyAssumption
  <2>2. ClientTypeOK
    BY <2>1 DEF Init, ClientTypeOK
  <2> QED
    BY <2>2, HandlersInit DEF Init
<1>2. ClientTypeOK /\ HandlersInv /\ [Next]_vars => (ClientTypeOK /\ HandlersInv)'
  <2> SUFFICES ASSUME ClientTypeOK, HandlersInv, [Next]_vars PROVE ClientTypeOK' /\ HandlersInv'
    OBVIOUS
  <2>1. CASE Keyboard
    BY <2>1, KeyboardTypes, HandlersFrame
  <2>2. CASE UNCHANGED clientVars
    <3>1. ClientTypeOK'
        BY <2>2 DEF clientVars, historyVars, ClientTypeOK
    <3>2. CASE UNCHANGED vars
      BY <3>1, <3>2, HandlersFrame DEF vars
    <3>3. CASE Server
      BY <3>1, <3>3, HandlersStep, OtherClientTypes DEF Server
    <3>4. CASE Client /\ ~Keyboard
      BY <3>4, ConnectionTypes, GetKeyTypes DEF Client
    <3> QED
      BY <2>1, <3>2, <3>3, <3>4 DEF Next
  <2> QED
    <3>1. Server => UNCHANGED clientVars
      BY OtherClientTypes DEF Server
    <3> QED
      BY <2>1, <2>2, <3>1, ConnectionTypes, GetKeyTypes DEF Next, Client, vars
<1>3. ClientTypeOK /\ HandlersInv => TypeOK
  BY DEF ClientTypeOK, HandlersInv, Messages, TypeOK
<1> QED
  BY <1>1, <1>2, <1>3, PTL DEF Spec
=============================================================================
