-------------------------- MODULE KeyInjectionProofs --------------------------
(***************************************************************************)
(* What any number of handlers do to the one keyboard they share, for any  *)
(* set of keys: what is proved here holds wherever the rest of a system    *)
(* leaves the handlers' steps to handleClient, and gives an event only to  *)
(* a handler that is idle.                                                 *)
(***************************************************************************)
EXTENDS KeyInjection, TLAPS

\* The debug loop has released every key it has passed, unless the key went down
\* again since; a handler outside the loop starts it from the beginning.
ReleasedInv ==
  \A h \in Handlers :
    /\ pc[h] # "release" => index[h] = 1 /\ since[h] = {}
    /\ pc[h] = "release" =>
         \A i \in 1..(index[h] - 1) : CodeOrder[i] \in held => CodeOrder[i] \in since[h]

\* A handler that is to inject has an event.
EventInv == \A h \in Handlers : pc[h] \in {"log", "logging", "inject"} => event[h] # <<>>

HandlersInv == InjectionTypeOK /\ EventInv /\ ReleasedInv

-----------------------------------------------------------------------------
(* Codes and keys.                                                         *)

\* A code in the keyboard's set of keys is neither generic nor renamed, and the
\* key of any code is one of the keyboard's.
LEMMA CodeKeys ==
  /\ \A k \in Physical : k \notin Modifiers /\ ServerKey(k) = k
  /\ \A c \in Codes : ServerKey(c) \in Physical
<1>1. ASSUME NEW k \in Physical PROVE k \notin Modifiers
  <2>1. CASE k \in OtherKeys
    BY <2>1, InjectionAssumption
  <2>2. CASE k \in Sided
    <3>1. PICK c \in Modifiers, side \in {"left", "right"} : k = <<c, side>>
      BY <2>2 DEF Sided
    <3> QED
      BY <3>1, InjectionAssumption
  <2> QED
    BY <2>1, <2>2 DEF Physical
<1>2. ASSUME NEW c \in Codes PROVE ServerKey(c) \in Physical
  <2>1. CASE c \in Modifiers
    <3>1. <<c, "left">> \in Sided
      BY <2>1 DEF Sided
    <3> QED
      BY <2>1, <3>1 DEF ServerKey, Physical
  <2>2. CASE c \notin Modifiers
    BY <2>2 DEF ServerKey, Codes
  <2> QED
    BY <2>1, <2>2
<1> QED
  BY <1>1, <1>2 DEF ServerKey

LEMMA OrderFacts ==
  /\ Len(CodeOrder) \in Nat
  /\ \A i \in 1..Len(CodeOrder) : CodeOrder[i] \in Codes
  /\ \A c \in Codes : \E i \in 1..Len(CodeOrder) : CodeOrder[i] = c
<1>1. Codes = Modifiers \cup OtherKeys \cup Modifiers \X {"left", "right"}
  BY DEF Codes, Physical, Sided
<1>2. CodeOrder \in Seq(Codes)
  BY <1>1, InjectionAssumption
<1> QED
  BY <1>1, <1>2, InjectionAssumption

LEMMA EventFacts ==
  ASSUME InjectionTypeOK, NEW h \in Handlers, event[h] # <<>>
  PROVE  /\ \E e \in Events : event[h] = <<e>>
         /\ Head(event[h]) \in Events /\ Head(event[h]).isKeyDown \in BOOLEAN
         /\ ServerKey(Head(event[h]).code) \in Physical
<1>1. PICK e \in Events : event[h] = <<e>>
  BY DEF InjectionTypeOK
<1>2. Head(event[h]) = e
  BY <1>1
<1>3. e.code \in Codes /\ e.isKeyDown \in BOOLEAN
  BY DEF Events
<1> QED
  BY <1>1, <1>2, <1>3, CodeKeys

-----------------------------------------------------------------------------
(* The steps of a handler.                                                 *)

\* Steps outside the debug loop that press nothing keep what it has done.
LEMMA ReleasedFrame ==
  ASSUME InjectionTypeOK, ReleasedInv, UNCHANGED loopVars, held' \subseteq held,
         \A h \in Handlers : \/ pc'[h] = "release" <=> pc[h] = "release"
                             \/ pc[h] # "release" /\ pc'[h] = "release"
  PROVE  ReleasedInv'
<1> SUFFICES ASSUME NEW h \in Handlers
             PROVE  /\ pc'[h] # "release" => index'[h] = 1 /\ since'[h] = {}
                    /\ pc'[h] = "release" => \A i \in 1..(index'[h] - 1) :
                         CodeOrder[i] \in held' => CodeOrder[i] \in since'[h]
  BY DEF ReleasedInv
<1>1. index' = index /\ since' = since
  BY DEF loopVars
<1>2. CASE pc[h] = "release"
  BY <1>1, <1>2 DEF ReleasedInv
<1>3. CASE pc[h] # "release"
  <2>1. index[h] = 1 /\ since[h] = {}
    BY <1>3 DEF ReleasedInv
  <2> QED
    BY <1>1, <1>3, <2>1
<1> QED
  BY <1>2, <1>3

LEMMA ReceiveStep ==
  ASSUME HandlersInv, NEW h \in Handlers, ReceiveDown(h) \/ ReceiveUp(h)
  PROVE  HandlersInv'
<1> USE DEF At, loopVars
<1>1. /\ pc[h] = "recv" /\ \E to \in {"log", "inject"} : pc' = [pc EXCEPT ![h] = to]
      /\ event[h] # <<>> /\ UNCHANGED <<DEBUG, held, event, index, since>>
  BY DEF ReceiveDown, ReceiveUp
<1>2. InjectionTypeOK'
  BY <1>1 DEF HandlersInv, InjectionTypeOK
<1>3. EventInv'
  BY <1>1 DEF HandlersInv, InjectionTypeOK, EventInv
<1>4. ReleasedInv'
  <2>1. \A g \in Handlers : pc'[g] = "release" <=> pc[g] = "release"
    BY <1>1 DEF HandlersInv, InjectionTypeOK
  <2> QED
    BY <1>1, <2>1, ReleasedFrame DEF HandlersInv
<1> QED
  BY <1>2, <1>3, <1>4 DEF HandlersInv

LEMMA LogStep ==
  ASSUME HandlersInv, NEW h \in Handlers, Log(h) \/ EndLog(h)
  PROVE  HandlersInv'
<1> USE DEF At, loopVars
<1>1. /\ pc[h] \in {"log", "logging"} /\ \E to \in {"logging", "inject"} : pc' = [pc EXCEPT ![h] = to]
      /\ UNCHANGED <<DEBUG, held, event, index, since>>
  BY DEF Log, EndLog
<1>2. InjectionTypeOK'
  BY <1>1 DEF HandlersInv, InjectionTypeOK
<1>3. EventInv'
  BY <1>1 DEF HandlersInv, InjectionTypeOK, EventInv
<1>4. ReleasedInv'
  <2>1. \A g \in Handlers : pc'[g] = "release" <=> pc[g] = "release"
    BY <1>1 DEF HandlersInv, InjectionTypeOK
  <2> QED
    BY <1>1, <2>1, ReleasedFrame DEF HandlersInv
<1> QED
  BY <1>2, <1>3, <1>4 DEF HandlersInv

LEMMA InjectDownStep ==
  ASSUME HandlersInv, NEW h \in Handlers, InjectDown(h)
  PROVE  HandlersInv'
<1> DEFINE key == ServerKey(Head(event[h]).code)
<1>1. /\ pc[h] = "inject" /\ pc' = [pc EXCEPT ![h] = "recv"]
      /\ held' = held \cup {key}
      /\ since' = [g \in Handlers |-> IF pc[g] = "release" THEN since[g] \cup {key} ELSE since[g]]
      /\ event' = [event EXCEPT ![h] = <<>>]
      /\ UNCHANGED <<DEBUG, index>>
  BY DEF InjectDown, At
<1>2. key \in Physical
  BY <1>1, EventFacts DEF HandlersInv, EventInv
<1> HIDE DEF key
<1>3. InjectionTypeOK'
  <2>1. since' \in [Handlers -> SUBSET Physical] /\ held' \subseteq Physical
    BY <1>1, <1>2 DEF HandlersInv, InjectionTypeOK
  <2> QED
    BY <1>1, <2>1 DEF HandlersInv, InjectionTypeOK
<1>4. EventInv'
  BY <1>1 DEF HandlersInv, InjectionTypeOK, EventInv
<1>5. ReleasedInv'
  <2> SUFFICES ASSUME NEW g \in Handlers
               PROVE  /\ pc'[g] # "release" => index'[g] = 1 /\ since'[g] = {}
                      /\ pc'[g] = "release" => \A i \in 1..(index'[g] - 1) :
                           CodeOrder[i] \in held' => CodeOrder[i] \in since'[g]
    BY DEF ReleasedInv
  <2>1. pc'[g] = "release" <=> pc[g] = "release"
    BY <1>1 DEF HandlersInv, InjectionTypeOK
  <2>2. since'[g] = IF pc[g] = "release" THEN since[g] \cup {key} ELSE since[g]
    BY <1>1
  <2> QED
    BY <1>1, <2>1, <2>2 DEF HandlersInv, ReleasedInv
<1> QED
  BY <1>3, <1>4, <1>5 DEF HandlersInv

LEMMA InjectUpStep ==
  ASSUME HandlersInv, NEW h \in Handlers, InjectUp(h)
  PROVE  HandlersInv'
<1>1. /\ pc[h] = "inject" /\ \E to \in {"release", "recv"} : pc' = [pc EXCEPT ![h] = to]
      /\ held' \subseteq held /\ event' = [event EXCEPT ![h] = <<>>]
      /\ UNCHANGED <<DEBUG, index, since>>
  BY DEF InjectUp, At, loopVars
<1>2. InjectionTypeOK'
  BY <1>1 DEF HandlersInv, InjectionTypeOK
<1>3. EventInv'
  BY <1>1 DEF HandlersInv, InjectionTypeOK, EventInv
<1>4. ReleasedInv'
  <2>1. \A g \in Handlers : \/ pc'[g] = "release" <=> pc[g] = "release"
                            \/ pc[g] # "release" /\ pc'[g] = "release"
    BY <1>1 DEF HandlersInv, InjectionTypeOK
  <2> QED
    BY <1>1, <2>1, ReleasedFrame DEF HandlersInv, loopVars
<1> QED
  BY <1>2, <1>3, <1>4 DEF HandlersInv

LEMMA ReleaseStep ==
  ASSUME HandlersInv, NEW h \in Handlers, ReleaseIfDown(h)
  PROVE  HandlersInv'
<1> DEFINE code == CodeOrder[index[h]]
<1>1. /\ pc[h] = "release" /\ index[h] <= Len(CodeOrder)
      /\ held' = IF IsDown(code) THEN held \ {ServerKey(code)} ELSE held
      /\ index' = [index EXCEPT ![h] = @ + 1]
      /\ UNCHANGED <<DEBUG, pc, event, since>>
  BY DEF ReleaseIfDown, KeyRelease
<1>2. index[h] \in 1..Len(CodeOrder) /\ index[h] + 1 \in 1..(Len(CodeOrder) + 1)
  <2>1. index[h] \in 1..(Len(CodeOrder) + 1)
    BY DEF HandlersInv, InjectionTypeOK
  <2> QED
    BY <1>1, <2>1, OrderFacts
<1>3. code \in Codes
  BY <1>2, OrderFacts
<1>4. code \in Physical => code \notin held'
  <2>1. ASSUME code \in Physical PROVE IsDown(code) <=> code \in held
    BY <2>1, CodeKeys DEF IsDown
  <2> QED
    BY <1>1, <2>1, CodeKeys
<1> HIDE DEF code
<1>5. InjectionTypeOK'
  <2>1. index' \in [Handlers -> 1..(Len(CodeOrder) + 1)]
    BY <1>1, <1>2 DEF HandlersInv, InjectionTypeOK
  <2> QED
    BY <1>1, <2>1 DEF HandlersInv, InjectionTypeOK
<1>6. EventInv'
  BY <1>1 DEF HandlersInv, EventInv
<1>7. ReleasedInv'
  <2> SUFFICES ASSUME NEW g \in Handlers
               PROVE  /\ pc'[g] # "release" => index'[g] = 1 /\ since'[g] = {}
                      /\ pc'[g] = "release" => \A i \in 1..(index'[g] - 1) :
                           CodeOrder[i] \in held' => CodeOrder[i] \in since'[g]
    BY DEF ReleasedInv
  <2>1. held' \subseteq held /\ held \subseteq Physical
    BY <1>1 DEF HandlersInv, InjectionTypeOK
  <2>2. CASE g = h
    <3>1. index'[g] = index[h] + 1 /\ pc'[g] = "release"
      BY <1>1, <2>2 DEF HandlersInv, InjectionTypeOK
    <3>2. ASSUME NEW i \in 1..index[h], CodeOrder[i] \in held' PROVE CodeOrder[i] \in since'[g]
      <4>1. i # index[h]
        BY <1>4, <2>1, <3>2 DEF code
      <4>2. i \in 1..(index[h] - 1)
        BY <1>2, <4>1
      <4> QED
        BY <1>1, <2>1, <2>2, <3>2, <4>2 DEF HandlersInv, ReleasedInv
    <3> QED
      BY <1>2, <3>1, <3>2
  <2>3. CASE g # h
    <3>1. index'[g] = index[g]
      BY <1>1, <2>3 DEF HandlersInv, InjectionTypeOK
    <3> QED
      BY <1>1, <2>1, <3>1 DEF HandlersInv, ReleasedInv
  <2> QED
    BY <2>2, <2>3
<1> QED
  BY <1>5, <1>6, <1>7 DEF HandlersInv

LEMMA EndReleaseStep ==
  ASSUME HandlersInv, NEW h \in Handlers, EndRelease(h)
  PROVE  HandlersInv'
<1>1. /\ pc' = [pc EXCEPT ![h] = "recv"] /\ index' = [index EXCEPT ![h] = 1]
      /\ since' = [since EXCEPT ![h] = {}]
      /\ UNCHANGED <<DEBUG, held, event>>
  BY DEF EndRelease, At
<1>2. InjectionTypeOK'
  <2>1. 1 \in 1..(Len(CodeOrder) + 1)
    BY OrderFacts
  <2>2. index' \in [Handlers -> 1..(Len(CodeOrder) + 1)]
    BY <1>1, <2>1 DEF HandlersInv, InjectionTypeOK
  <2> QED
    BY <1>1, <2>2 DEF HandlersInv, InjectionTypeOK
<1>3. EventInv'
  BY <1>1 DEF HandlersInv, InjectionTypeOK, EventInv
<1>4. ReleasedInv'
  BY <1>1 DEF HandlersInv, InjectionTypeOK, ReleasedInv
<1> QED
  BY <1>2, <1>3, <1>4 DEF HandlersInv

\* A step of a handler preserves what the handlers share.
LEMMA HandlersStep ==
  ASSUME HandlersInv, NEW h \in Handlers, handleClient(h)
  PROVE  HandlersInv'
BY ReceiveStep, LogStep, InjectDownStep, InjectUpStep, ReleaseStep, EndReleaseStep DEF handleClient

LEMMA HandlersInit == InjectionInit => HandlersInv
<1> SUFFICES ASSUME InjectionInit PROVE HandlersInv
  OBVIOUS
<1>1. index \in [Handlers -> 1..(Len(CodeOrder) + 1)]
  BY OrderFacts DEF InjectionInit
<1>2. InjectionTypeOK
  BY <1>1, InjectionAssumption DEF InjectionInit, InjectionTypeOK
<1>3. EventInv /\ ReleasedInv
  BY DEF InjectionInit, EventInv, ReleasedInv
<1> QED
  BY <1>2, <1>3 DEF HandlersInv

-----------------------------------------------------------------------------
(* What the rest of a system does to the handlers.                         *)

\* An idle handler is sent an event.
LEMMA EventArrives ==
  ASSUME HandlersInv, NEW h \in Handlers, Idle(h), NEW e \in Events,
         event' = [event EXCEPT ![h] = <<e>>],
         UNCHANGED <<DEBUG, held, pc, loopVars>>
  PROVE  HandlersInv'
<1>1. UNCHANGED <<DEBUG, held, pc, index, since>>
  BY DEF loopVars
<1>2. InjectionTypeOK'
  BY <1>1 DEF HandlersInv, InjectionTypeOK
<1>3. EventInv'
  BY <1>1 DEF HandlersInv, InjectionTypeOK, EventInv, Idle
<1> QED
  BY <1>1, <1>2, <1>3 DEF HandlersInv, ReleasedInv

\* An event is lost before its handler received it.
LEMMA EventIsLost ==
  ASSUME HandlersInv, NEW h \in Handlers, pc[h] = "recv",
         event' = [event EXCEPT ![h] = <<>>],
         UNCHANGED <<DEBUG, held, pc, loopVars>>
  PROVE  HandlersInv'
<1>1. UNCHANGED <<DEBUG, held, pc, index, since>>
  BY DEF loopVars
<1>2. InjectionTypeOK'
  BY <1>1 DEF HandlersInv, InjectionTypeOK
<1>3. EventInv'
  BY <1>1 DEF HandlersInv, InjectionTypeOK, EventInv
<1> QED
  BY <1>1, <1>2, <1>3 DEF HandlersInv, ReleasedInv

\* DEBUG is read anew.
LEMMA DebugIsRead ==
  ASSUME HandlersInv, DEBUG' \in BOOLEAN, UNCHANGED <<held, pc, event, loopVars>>
  PROVE  HandlersInv'
BY DEF HandlersInv, InjectionTypeOK, EventInv, ReleasedInv, loopVars

\* The handlers and the keyboard are left alone.
LEMMA HandlersFrame ==
  ASSUME HandlersInv, UNCHANGED serverVars
  PROVE  HandlersInv'
BY DEF HandlersInv, InjectionTypeOK, EventInv, ReleasedInv, serverVars, loopVars

-----------------------------------------------------------------------------
(* What follows for a step.                                                *)

\* The debug loop ends with nothing held but what was pressed meanwhile: it has
\* passed every key.
LEMMA LoopReleasesAll ==
  ASSUME HandlersInv, NEW h \in Handlers, EndRelease(h)
  PROVE  held \subseteq since[h]
<1> SUFFICES ASSUME NEW k \in held PROVE k \in since[h]
  OBVIOUS
<1>1. k \in Codes
  BY DEF HandlersInv, InjectionTypeOK, Codes
<1>2. PICK i \in 1..Len(CodeOrder) : CodeOrder[i] = k
  BY <1>1, OrderFacts
<1>3. pc[h] = "release" /\ index[h] > Len(CodeOrder) /\ index[h] \in 1..(Len(CodeOrder) + 1)
  BY DEF EndRelease, At, HandlersInv, InjectionTypeOK
<1>4. i \in 1..(index[h] - 1)
  BY <1>2, <1>3, OrderFacts
<1> QED
  BY <1>2, <1>3, <1>4 DEF HandlersInv, ReleasedInv
=============================================================================
