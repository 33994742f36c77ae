------------------------ MODULE ClientDeliveryProofs ------------------------
(***************************************************************************)
(* Where a key event may be, from the moment it is typed until a handler   *)
(* has injected it: in sendKeyPress, in keyEventQueue, or on its way on    *)
(* one connection.  It is in one place only, once, for any number of       *)
(* threads, sockets and keys; so the client implements KeyChannel.         *)
(***************************************************************************)
EXTENDS NetworkClientProofs

-----------------------------------------------------------------------------
(* Sequences without repetition.                                           *)

Elems(q) == {q[i] : i \in 1..Len(q)}
Distinct(q) == \A i, j \in 1..Len(q) : i # j => q[i] # q[j]

LEMMA EmptyFacts == Elems(<<>>) = {} /\ Distinct(<<>>)
BY DEF Elems, Distinct

LEMMA AppendFacts ==
  ASSUME NEW S, NEW q \in Seq(S), NEW x \in S
  PROVE  /\ Elems(Append(q, x)) = Elems(q) \cup {x}
         /\ Distinct(q) /\ x \notin Elems(q) => Distinct(Append(q, x))
<1> DEFINE r == Append(q, x)
<1>1. /\ Len(q) \in Nat /\ Len(r) = Len(q) + 1
      /\ \A i \in 1..Len(q) : r[i] = q[i]
      /\ r[Len(q) + 1] = x
  OBVIOUS
<1> HIDE DEF r
<1>2. Elems(r) = Elems(q) \cup {x}
  <2>1. \A i \in 1..Len(r) : i \in 1..Len(q) \/ i = Len(q) + 1
    BY <1>1
  <2>2. \A i \in 1..Len(q) : i \in 1..Len(r)
    BY <1>1
  <2>3. Len(q) + 1 \in 1..Len(r)
    BY <1>1
  <2> QED
    BY <1>1, <2>1, <2>2, <2>3 DEF Elems
<1>3. ASSUME Distinct(q), x \notin Elems(q), NEW i \in 1..Len(r), NEW j \in 1..Len(r), i # j
      PROVE  r[i] # r[j]
  <2>1. CASE i \in 1..Len(q) /\ j \in 1..Len(q)
    BY <1>1, <1>3, <2>1 DEF Distinct
  <2>2. CASE i = Len(q) + 1 /\ j \in 1..Len(q)
    BY <1>1, <1>3, <2>2 DEF Elems
  <2>3. CASE j = Len(q) + 1 /\ i \in 1..Len(q)
    BY <1>1, <1>3, <2>3 DEF Elems
  <2> QED
    BY <1>1, <1>3, <2>1, <2>2, <2>3
<1> QED
  BY <1>2, <1>3 DEF r, Distinct

LEMMA TailFacts ==
  ASSUME NEW S, NEW q \in Seq(S), q # <<>>
  PROVE  /\ Head(q) \in Elems(q) /\ Elems(Tail(q)) \subseteq Elems(q)
         /\ Elems(q) = Elems(Tail(q)) \cup {Head(q)}
         /\ Distinct(q) => Distinct(Tail(q)) /\ Head(q) \notin Elems(Tail(q))
<1> DEFINE r == Tail(q)
<1>1. /\ Len(q) \in Nat /\ Len(q) > 0 /\ Len(r) = Len(q) - 1
      /\ \A i \in 1..Len(r) : r[i] = q[i + 1] /\ i + 1 \in 1..Len(q)
      /\ Head(q) = q[1] /\ 1 \in 1..Len(q)
  OBVIOUS
<1> HIDE DEF r
<1>2. \A i \in 1..Len(q) : i = 1 \/ (i - 1 \in 1..Len(r) /\ q[i] = r[i - 1])
  <2> SUFFICES ASSUME NEW i \in 1..Len(q), i # 1 PROVE i - 1 \in 1..Len(r) /\ q[i] = r[i - 1]
    OBVIOUS
  <2>1. i - 1 \in 1..Len(r) /\ (i - 1) + 1 = i
    BY <1>1
  <2> QED
    BY <1>1, <2>1
<1>3. Head(q) \in Elems(q) /\ Elems(r) \subseteq Elems(q)
  BY <1>1 DEF Elems
<1>4. Elems(q) \subseteq Elems(r) \cup {Head(q)}
  BY <1>1, <1>2 DEF Elems
<1>5. ASSUME Distinct(q) PROVE Distinct(r) /\ Head(q) \notin Elems(r)
  <2>1. ASSUME NEW i \in 1..Len(r), NEW j \in 1..Len(r), i # j PROVE r[i] # r[j]
    <3>1. i + 1 \in 1..Len(q) /\ j + 1 \in 1..Len(q) /\ i + 1 # j + 1
      BY <1>1, <2>1
    <3> QED
      BY <1>1, <1>5, <3>1 DEF Distinct
  <2>2. ASSUME NEW i \in 1..Len(r) PROVE Head(q) # r[i]
    <3>1. i + 1 \in 1..Len(q) /\ i + 1 # 1
      BY <1>1, <2>2
    <3> QED
      BY <1>1, <1>5, <3>1 DEF Distinct
  <2> QED
    BY <2>1, <2>2 DEF Distinct, Elems
<1> QED
  BY <1>3, <1>4, <1>5 DEF r

-----------------------------------------------------------------------------
(* The places of a key event.                                              *)

InHand == guiPc \in {"send", "enqueue"}
Queued == Elems(keyEventQueue)
Out(s) == Elems(outbox[s])

\* The events typed before the one in hand.
Old == IF InHand THEN 1..(typed - 1) ELSE 1..typed

\* No event is in two places, or twice in one.
PlacesInv ==
  /\ Distinct(keyEventQueue) /\ Queued \subseteq Old
  /\ \A s \in Sockets : /\ Distinct(outbox[s]) /\ Out(s) \subseteq Old
                        /\ Out(s) \cap Queued = {}
                        /\ \A u \in Sockets \ {s} : Out(s) \cap Out(u) = {}

DInv == TInv /\ PlacesInv

InPlace(k) == (InHand /\ k = typed) \/ k \in Queued \/ \E s \in Sockets : k \in Out(s)

PendingInPlace == \A k : k \in Pending <=> InPlace(k)

LEMMA PendingFacts == PendingInPlace
BY DEF PendingInPlace, InPlace, Pending, InHand, Queued, Out, Elems

\* A step that brings no event to a place, and may empty some.
Shrinks ==
  /\ UNCHANGED <<typed, delivered>>
  /\ InHand' => InHand
  /\ keyEventQueue' \in {keyEventQueue, <<>>}
  /\ \A s \in Sockets : outbox'[s] \in {outbox[s], <<>>}

LEMMA ShrinkStep ==
  ASSUME DInv, Shrinks
  PROVE  PlacesInv' /\ Pending' \subseteq Pending /\ UNCHANGED <<typed, delivered>>
<1>1. Queued' \subseteq Queued /\ Distinct(keyEventQueue)'
  BY EmptyFacts DEF Shrinks, DInv, PlacesInv, Queued
<1>2. ASSUME NEW s \in Sockets PROVE Out(s)' \subseteq Out(s) /\ Distinct(outbox[s])'
  BY EmptyFacts DEF Shrinks, DInv, PlacesInv, Out
<1>3. Old \subseteq Old'
  BY DEF Shrinks, Old, DInv, TInv, GuiType
<1>4. PlacesInv'
  BY <1>1, <1>2, <1>3 DEF DInv, PlacesInv
<1>5. Pending' \subseteq Pending
  <2>1. PendingInPlace'
    BY PendingFacts, PTL
  <2> QED
    BY <1>1, <1>2, <2>1, PendingFacts DEF Shrinks, PendingInPlace, InPlace
<1> QED
  BY <1>4, <1>5 DEF Shrinks

-----------------------------------------------------------------------------
(* Steps that only lose events.                                            *)

LEMMA CloseShrinks ==
  ASSUME TInv, NEW S, Close(S)
  PROVE  \A s \in Sockets : outbox'[s] \in {outbox[s], <<>>}
BY DEF Close, CloseSockets

LEMMA EndingShrinks ==
  ASSUME TInv, Ending
  PROVE  Shrinks
<1> USE DEF Shrinks, InHand, queueVars, serverVars, linkVars, buffers
<1>1. CASE CloseWindow \/ LastClose \/ ResetSettings
  BY <1>1, CloseShrinks DEF CloseWindow, LastClose, ResetSettings, GuiClose
<1>2. CASE DestroyWindow \/ LastClear \/ ResetClear
  BY <1>2 DEF DestroyWindow, LastClear, ResetClear, GuiCleared
<1>3. CASE ClickExit \/ RelaunchFails
  BY <1>3 DEF ClickExit, RelaunchFails
<1>4. CASE CleanupWinsock \/ ResetCleanup
  BY <1>4, CloseShrinks DEF CleanupWinsock, ResetCleanup, GuiCleanup
<1> QED
  BY <1>1, <1>2, <1>3, <1>4 DEF Ending

LEMMA GuiShrinks ==
  ASSUME TInv,
         \/ ClickConnect \/ GuiRecv \/ GuiAck \/ GuiAckFails \/ GuiClear
         \/ EndProcess \/ StartProcess
  PROVE  Shrinks
<1> USE DEF Shrinks, InHand, queueVars, serverVars, linkVars, buffers
<1>1. CASE ClickConnect
  BY <1>1, CloseShrinks DEF ClickConnect
<1>2. CASE EndProcess
  BY <1>2, CloseShrinks DEF EndProcess
<1>3. CASE GuiRecv \/ GuiClear \/ StartProcess
  BY <1>3 DEF GuiRecv, GuiClear, StartProcess
<1>4. CASE GuiAck \/ GuiAckFails
  BY <1>4 DEF GuiAck, GuiAckFails, GuiReturn
<1> QED
  BY <1>1, <1>2, <1>3, <1>4

LEMMA ThreadShrinks ==
  ASSUME TInv, NEW t \in Threads, Thread(t), ~Resend(t)
  PROVE  Shrinks
<1> USE DEF Shrinks, InHand, queueVars, serverVars, linkVars, buffers, guiVars
<1>1. CASE \/ LoseExchange(t) \/ ShowReconnecting(t) \/ SkipClose(t) \/ FindSocket(t) \/ ShowClosing(t)
           \/ ShowTrying(t) \/ AlreadyEstablished(t) \/ NotEstablished(t)
  BY <1>1
  DEF LoseExchange, ShowReconnecting, SkipClose, FindSocket, ShowClosing, ShowTrying,
      AlreadyEstablished, NotEstablished, Jump
<1>2. CASE ConnectFails(t) \/ SelectFails(t) \/ ShowFailure(t) \/ Report(t)
  BY <1>2 DEF ConnectFails, SelectFails, ShowFailure, Report, Fail, Jump
<1>3. CASE CloseSocket(t)
  BY <1>3, CloseShrinks DEF CloseSocket
<1>4. CASE SignatureBad(t)
  BY <1>4, CloseShrinks DEF SignatureBad
<1>5. CASE WinExchange(t) \/ ClearSocket(t) \/ SocketCreated(t) \/ SocketFails(t)
  BY <1>5 DEF WinExchange, ClearSocket, SocketCreated, SocketFails
<1>6. CASE Connect(t) \/ SelectReady(t) \/ SignatureOk(t)
  BY <1>6 DEF Connect, SelectReady, SignatureOk
<1>7. CASE Resume(t) \/ ClearQueue(t) \/ LockQueue(t) \/ UnlockQueue(t)
  BY <1>7 DEF Resume, ClearQueue, LockQueue, UnlockQueue
<1> QED
  BY <1>1, <1>2, <1>3, <1>4, <1>5, <1>6, <1>7 DEF Thread

LEMMA LinkShrinks ==
  ASSUME TInv, NEW s \in Sockets, Environment(s), ~HandleKey(s)
  PROVE  Shrinks
<1> USE DEF Environment, clientVars, guiVars, queueVars, Shrinks, InHand
<1>1. CASE Handshake(s) \/ Accept(s)
  BY <1>1 DEF Handshake, Accept
<1>2. CASE HandlerExits(s) \/ PeerLost(s) \/ Detect(s)
  <2>1. outbox' = [outbox EXCEPT ![s] = <<>>] /\ UNCHANGED delivered
    BY <1>2 DEF HandlerExits, PeerLost, Detect
  <2> QED
    BY <2>1 DEF TInv, BufferType
<1> QED
  BY <1>1, <1>2 DEF LinkStep

-----------------------------------------------------------------------------
(* Steps that take an event from one place to the next.                    *)

\* An event that is sent is on its way on one connection, behind the others.
LEMMA SendPlaces ==
  ASSUME DInv, NEW k \in KeyEvents, Send(k), CanSend(g), \A s \in Sockets : k \notin Out(s)
  PROVE  /\ g \in Sockets /\ UNCHANGED delivered
         /\ \A s \in Sockets : Distinct(outbox[s])'
         /\ \A s \in Sockets : Out(s)' = IF s = g THEN Out(s) \cup {k} ELSE Out(s)
<1>1. /\ g \in Sockets /\ UNCHANGED delivered
      /\ outbox' = [outbox EXCEPT ![g] = Append(outbox[g], k)]
  BY DEF Send, CanSend, serverVars
<1>2. /\ \A s \in Sockets \ {g} : outbox'[s] = outbox[s]
      /\ outbox'[g] = Append(outbox[g], k)
      /\ outbox[g] \in Seq(KeyEvents)
  BY <1>1 DEF DInv, TInv, BufferType
<1>3. ASSUME NEW s \in Sockets
      PROVE  Distinct(outbox'[s]) /\ Elems(outbox'[s]) = IF s = g THEN Out(s) \cup {k} ELSE Out(s)
  <2>0. Distinct(outbox[s]) /\ Out(s) = Elems(outbox[s]) /\ k \notin Out(s)
    BY DEF DInv, PlacesInv, Out
  <2>1. CASE s = g
    <3>1. outbox[s] \in Seq(KeyEvents) /\ outbox'[s] = Append(outbox[s], k)
      BY <1>2, <2>1
    <3>2. /\ Elems(Append(outbox[s], k)) = Elems(outbox[s]) \cup {k}
          /\ Distinct(Append(outbox[s], k))
      BY <2>0, <3>1, AppendFacts
    <3> QED
      BY <2>0, <2>1, <3>1, <3>2
  <2>2. CASE s # g
    BY <1>2, <2>0, <2>2
  <2> QED
    BY <2>1, <2>2
<1> QED
  BY <1>1, <1>3 DEF Out

\* sendKeyPress sends what it has in hand.
LEMMA GuiSendPlaces ==
  ASSUME DInv, GuiSend
  PROVE  PlacesInv' /\ Pending' \subseteq Pending /\ UNCHANGED <<typed, delivered>>
<1>1. /\ InHand /\ Send(typed) /\ UNCHANGED <<keyEventQueue, typed, delivered>>
      /\ guiPc' = IF CanSend(g) THEN "recv" ELSE "enqueue"
  BY DEF GuiSend, InHand, queueVars, Send, serverVars
<1>2. typed \in KeyEvents /\ typed \notin Old /\ typed \in 1..typed /\ Old \subseteq 1..typed
  BY <1>1 DEF DInv, TInv, GuiType, GuiTyped, InHand, KeyEvents, Old
<1>3. CASE ~CanSend(g)
  <2>1. Shrinks
    BY <1>1, <1>3 DEF Shrinks, Send, InHand
  <2> QED
    BY <2>1, ShrinkStep
<1>4. CASE CanSend(g)
  <2>1. ~InHand' /\ Old' = 1..typed /\ UNCHANGED keyEventQueue
    BY <1>1, <1>4 DEF InHand, Old
  <2>4. typed \notin Queued /\ \A s \in Sockets : typed \notin Out(s)
    BY <1>2 DEF DInv, PlacesInv
  <2>6. /\ g \in Sockets /\ \A s \in Sockets : Distinct(outbox[s])'
        /\ \A s \in Sockets : Out(s)' = IF s = g THEN Out(s) \cup {typed} ELSE Out(s)
    BY <1>1, <1>2, <1>4, <2>4, SendPlaces
  <2>7. Queued' = Queued
    BY <2>1 DEF Queued
  <2>8. PlacesInv'
    <3>1. Distinct(keyEventQueue)' /\ Queued' \subseteq Old'
      BY <1>2, <2>1, <2>7 DEF DInv, PlacesInv
    <3>2. ASSUME NEW s \in Sockets
          PROVE  /\ Distinct(outbox[s])' /\ Out(s)' \subseteq Old'
                 /\ Out(s)' \cap Queued' = {}
                 /\ \A u \in Sockets \ {s} : Out(s)' \cap Out(u)' = {}
      <4>1. Distinct(outbox[s])' /\ Out(s)' \subseteq Old'
        BY <1>2, <2>1, <2>6 DEF DInv, PlacesInv
      <4>2. Out(s)' \cap Queued' = {}
        BY <2>4, <2>6, <2>7 DEF DInv, PlacesInv
      <4>3. ASSUME NEW u \in Sockets \ {s} PROVE Out(s)' \cap Out(u)' = {}
        BY <2>4, <2>6 DEF DInv, PlacesInv
      <4> QED
        BY <4>1, <4>2, <4>3
    <3> QED
      BY <3>1, <3>2 DEF PlacesInv
  <2>9. Pending' \subseteq Pending
    <3>1. PendingInPlace'
      BY PendingFacts, PTL
    <3> QED
      BY <1>1, <2>1, <2>6, <2>7, <3>1, PendingFacts DEF PendingInPlace, InPlace
  <2> QED
    BY <1>1, <2>8, <2>9
<1> QED
  BY <1>3, <1>4

\* sendKeyPress queues what it has in hand, or gives it up.
LEMMA GuiEnqueuePlaces ==
  ASSUME DInv, GuiEnqueue
  PROVE  PlacesInv' /\ Pending' \subseteq Pending /\ UNCHANGED <<typed, delivered>>
<1>1. /\ InHand /\ ~InHand' /\ UNCHANGED <<outbox, typed, delivered>>
      /\ keyEventQueue' \in {keyEventQueue, Append(keyEventQueue, typed)}
  BY DEF GuiEnqueue, InHand, linkVars, buffers, serverVars
<1>2. typed \in KeyEvents /\ typed \notin Old /\ typed \in 1..typed /\ Old \subseteq 1..typed
  BY <1>1 DEF DInv, TInv, GuiType, GuiTyped, InHand, KeyEvents, Old
<1>3. CASE UNCHANGED keyEventQueue
  <2>1. Shrinks
    BY <1>1, <1>3 DEF Shrinks
  <2> QED
    BY <2>1, ShrinkStep
<1>4. CASE keyEventQueue' = Append(keyEventQueue, typed)
  <2>1. typed \notin Queued /\ \A s \in Sockets : typed \notin Out(s)
    BY <1>2 DEF DInv, PlacesInv
  <2>2. Queued' = Queued \cup {typed} /\ Distinct(keyEventQueue)'
    BY <1>2, <1>4, <2>1, AppendFacts DEF DInv, TInv, QueueType, PlacesInv, Queued
  <2>3. Old' = 1..typed /\ \A s \in Sockets : Out(s)' = Out(s)
    BY <1>1 DEF Old, Out
  <2>4. PlacesInv'
    BY <1>1, <1>2, <2>1, <2>2, <2>3 DEF DInv, PlacesInv
  <2>5. Pending' \subseteq Pending
    <3>1. PendingInPlace'
      BY PendingFacts, PTL
    <3> QED
      BY <1>1, <2>2, <2>3, <3>1, PendingFacts DEF PendingInPlace, InPlace
  <2> QED
    BY <1>1, <2>4, <2>5
<1> QED
  BY <1>1, <1>3, <1>4

\* reconnectAndResend sends the oldest event of the queue, or gives it up.
LEMMA ResendPlaces ==
  ASSUME DInv, NEW t \in Threads, Resend(t)
  PROVE  PlacesInv' /\ Pending' \subseteq Pending /\ UNCHANGED <<typed, delivered>>
<1> DEFINE k == Head(keyEventQueue)
<1>1. /\ keyEventQueue # <<>> /\ keyEventQueue' = Tail(keyEventQueue) /\ Send(k)
      /\ UNCHANGED <<guiPc, typed, delivered>>
  BY DEF Resend, guiVars, Send, serverVars
<1>2. keyEventQueue \in Seq(KeyEvents) /\ Distinct(keyEventQueue)
  BY DEF DInv, TInv, QueueType, PlacesInv
<1>3. /\ k \in Queued /\ Queued' \subseteq Queued /\ Distinct(keyEventQueue)' /\ k \notin Queued'
      /\ k \in KeyEvents
  <2>1. Distinct(Tail(keyEventQueue)) /\ k \notin Elems(Tail(keyEventQueue))
        /\ Elems(Tail(keyEventQueue)) \subseteq Elems(keyEventQueue) /\ k \in Elems(keyEventQueue)
    BY <1>1, <1>2, TailFacts
  <2> QED
    BY <1>1, <1>2, <2>1 DEF Queued
<1>4. \A s \in Sockets : k \notin Out(s)
  BY <1>3 DEF DInv, PlacesInv
<1>5. k \in Old /\ Old' = Old
  BY <1>1, <1>3 DEF DInv, PlacesInv, Old, InHand
<1>6. \A s \in Sockets : Distinct(outbox[s])' /\ Out(s)' \in {Out(s), Out(s) \cup {k}}
  <2>1. CASE CanSend(g)
    BY <1>1, <1>3, <1>4, <2>1, SendPlaces
  <2>2. CASE ~CanSend(g)
    BY <1>1, <2>2 DEF Send, DInv, PlacesInv, Out
  <2> QED
    BY <2>1, <2>2
<1>7. \A s, u \in Sockets : s # u => Out(s)' = Out(s) \/ Out(u)' = Out(u)
  <2>1. CASE CanSend(g)
    BY <1>1, <1>3, <1>4, <2>1, SendPlaces
  <2>2. CASE ~CanSend(g)
    BY <1>1, <2>2 DEF Send, Out
  <2> QED
    BY <2>1, <2>2
<1> HIDE DEF k
<1>8. PlacesInv'
  <2>1. Distinct(keyEventQueue)' /\ Queued' \subseteq Old'
    BY <1>3, <1>5 DEF DInv, PlacesInv
  <2>2. ASSUME NEW s \in Sockets
        PROVE  /\ Distinct(outbox[s])' /\ Out(s)' \subseteq Old'
               /\ Out(s)' \cap Queued' = {}
               /\ \A u \in Sockets \ {s} : Out(s)' \cap Out(u)' = {}
    <3>1. Distinct(outbox[s])' /\ Out(s)' \subseteq Old'
      BY <1>5, <1>6 DEF DInv, PlacesInv
    <3>2. Out(s)' \cap Queued' = {}
      BY <1>3, <1>6 DEF DInv, PlacesInv
    <3>3. ASSUME NEW u \in Sockets \ {s} PROVE Out(s)' \cap Out(u)' = {}
      <4>1. Out(s) \cap Out(u) = {} /\ k \notin Out(s) /\ k \notin Out(u)
        BY <1>4 DEF DInv, PlacesInv
      <4>2. Out(s)' = Out(s) \/ Out(u)' = Out(u)
        BY <1>7
      <4> QED
        BY <1>6, <4>1, <4>2
    <3> QED
      BY <3>1, <3>2, <3>3
  <2> QED
    BY <2>1, <2>2 DEF PlacesInv
<1>9. Pending' \subseteq Pending
  <2>1. PendingInPlace'
    BY PendingFacts, PTL
  <2>2. InHand' = InHand /\ typed' = typed
    BY <1>1 DEF InHand
  <2> QED
    BY <1>3, <1>6, <2>1, <2>2, PendingFacts DEF PendingInPlace, InPlace
<1> QED
  BY <1>1, <1>8, <1>9

\* A handler injects the oldest event on its connection, which then is nowhere.
LEMMA HandleKeyPlaces ==
  ASSUME DInv, NEW s \in Sockets, Environment(s), HandleKey(s)
  PROVE  /\ PlacesInv'
         /\ \E k \in Pending : /\ Pending' = Pending \ {k} /\ delivered' = Append(delivered, k)
                               /\ UNCHANGED typed
<1> DEFINE k == Head(outbox[s])
<1>1. /\ outbox[s] # <<>> /\ outbox' = [outbox EXCEPT ![s] = Tail(outbox[s])]
      /\ delivered' = Append(delivered, k)
      /\ UNCHANGED <<guiPc, typed, keyEventQueue>>
  BY DEF HandleKey, Environment, clientVars, guiVars, queueVars
<1>2. /\ \A u \in Sockets \ {s} : outbox'[u] = outbox[u]
      /\ outbox'[s] = Tail(outbox[s])
      /\ outbox[s] \in Seq(KeyEvents) /\ Distinct(outbox[s])
  BY <1>1 DEF DInv, TInv, BufferType, PlacesInv
<1>3. /\ k \in Out(s) /\ Elems(outbox'[s]) = Out(s) \ {k} /\ Distinct(outbox'[s])
  <2>1. /\ k \in Elems(outbox[s]) /\ Distinct(Tail(outbox[s])) /\ k \notin Elems(Tail(outbox[s]))
        /\ Elems(outbox[s]) = Elems(Tail(outbox[s])) \cup {k}
    BY <1>1, <1>2, TailFacts
  <2> QED
    BY <1>2, <2>1 DEF Out
<1>4. ASSUME NEW u \in Sockets
      PROVE  Distinct(outbox'[u]) /\ Elems(outbox'[u]) = Out(u) \ {k}
  <2>1. CASE u = s
    BY <1>3, <2>1
  <2>2. CASE u # s
    <3>1. k \notin Out(u) /\ Distinct(outbox[u])
      BY <1>3, <2>2 DEF DInv, PlacesInv
    <3>2. outbox'[u] = outbox[u]
      BY <1>2, <2>2
    <3> QED
      BY <3>1, <3>2 DEF Out
  <2> QED
    BY <2>1, <2>2
<1>5. \A u \in Sockets : Distinct(outbox[u])' /\ Out(u)' = Out(u) \ {k}
  BY <1>4 DEF Out
<1>6. Queued' = Queued /\ Old' = Old /\ InHand' = InHand
  BY <1>1 DEF Queued, Old, InHand
<1>7. k \notin Queued /\ k \in Old
  BY <1>3 DEF DInv, PlacesInv
<1>8. InHand => k # typed
  BY <1>7 DEF Old, DInv, TInv, GuiType
<1> HIDE DEF k
<1>9. PlacesInv'
  BY <1>1, <1>5, <1>6 DEF DInv, PlacesInv
<1>10. k \in Pending /\ Pending' = Pending \ {k}
  <2>1. PendingInPlace'
    BY PendingFacts, PTL
  <2>2. k \in Pending
    BY <1>3, PendingFacts DEF PendingInPlace, InPlace
  <2>3. \A x : InPlace(x)' <=> InPlace(x) /\ x # k
    BY <1>1, <1>5, <1>6, <1>7, <1>8 DEF InPlace
  <2> QED
    BY <2>1, <2>2, <2>3, PendingFacts DEF PendingInPlace
<1> QED
  BY <1>1, <1>9, <1>10

\* A key that is typed is in hand, or ignored.
LEMMA TypePlaces ==
  ASSUME DInv, TypeKey \/ IgnoreKey
  PROVE  /\ PlacesInv' /\ typed < MaxKeys /\ typed' = typed + 1 /\ UNCHANGED delivered
         /\ Pending' \in {Pending, Pending \cup {typed + 1}}
<1>1. /\ ~InHand /\ typed < MaxKeys /\ typed' = typed + 1
      /\ UNCHANGED <<outbox, keyEventQueue, delivered>>
  BY DEF TypeKey, IgnoreKey, InHand, linkVars, buffers, serverVars, queueVars
<1>2. typed \in Nat
  BY DEF DInv, TInv, GuiType
<1>3. Queued' = Queued /\ \A s \in Sockets : Out(s)' = Out(s)
  BY <1>1 DEF Queued, Out
<1>4. Old \subseteq Old'
  BY <1>1, <1>2 DEF Old
<1>5. PlacesInv'
  BY <1>1, <1>3, <1>4 DEF DInv, PlacesInv
<1>6. Pending' \in {Pending, Pending \cup {typed + 1}}
  <2>1. PendingInPlace'
    BY PendingFacts, PTL
  <2>2. CASE InHand'
    <3>1. \A x : x \in Pending' <=> x \in Pending \/ x = typed + 1
      BY <1>1, <1>3, <2>1, <2>2, PendingFacts DEF PendingInPlace, InPlace
    <3> QED
      BY <3>1
  <2>3. CASE ~InHand'
    <3>1. \A x : x \in Pending' <=> x \in Pending
      BY <1>1, <1>3, <2>1, <2>3, PendingFacts DEF PendingInPlace, InPlace
    <3> QED
      BY <3>1
  <2> QED
    BY <2>2, <2>3
<1> QED
  BY <1>1, <1>5, <1>6

-----------------------------------------------------------------------------
(* The refinement.                                                         *)

LEMMA PlacesInit == Init => DInv /\ Channel!Init
<1> SUFFICES ASSUME Init PROVE DInv /\ Channel!Init
  OBVIOUS
<1>1. /\ keyEventQueue = <<>> /\ \A s \in Sockets : outbox[s] = <<>>
      /\ typed = 0 /\ delivered = <<>> /\ ~InHand
  BY DEF Init, LinkInit, InHand
<1>2. Queued = {} /\ \A s \in Sockets : Out(s) = {}
  BY <1>1, EmptyFacts DEF Queued, Out
<1>3. PlacesInv
  BY <1>1, <1>2, EmptyFacts DEF PlacesInv
<1>4. Pending = {}
  BY <1>1, <1>2, PendingFacts DEF PendingInPlace, InPlace
<1> QED
  BY <1>1, <1>3, <1>4, TypeInit DEF DInv, Channel!Init

\* Every step keeps an event in one place, and is a step of the channel.
LEMMA PlacesStep == DInv /\ [Next]_vars => DInv' /\ [Channel!Next]_(Channel!vars)
<1> SUFFICES ASSUME DInv, [Next]_vars PROVE PlacesInv' /\ [Channel!Next]_(Channel!vars)
  BY TypeStep DEF DInv
<1>1. CASE TypeKey \/ IgnoreKey
  <2>1. Channel!Type
    BY <1>1, TypePlaces DEF Channel!Type
  <2> QED
    BY <1>1, <2>1, TypePlaces DEF Channel!Next
<1>2. ASSUME NEW s \in Sockets, Environment(s), HandleKey(s)
      PROVE  PlacesInv' /\ [Channel!Next]_(Channel!vars)
  <2>1. PICK k \in Pending : Channel!Deliver(k)
    BY <1>2, HandleKeyPlaces DEF Channel!Deliver
  <2> QED
    BY <1>2, <2>1, HandleKeyPlaces DEF Channel!Next
<1>3. ASSUME PlacesInv', Pending' \subseteq Pending, UNCHANGED <<typed, delivered>>
      PROVE  PlacesInv' /\ [Channel!Next]_(Channel!vars)
  <2>1. Channel!Lose
    BY <1>3 DEF Channel!Lose
  <2> QED
    BY <1>3, <2>1 DEF Channel!Next
<1>4. CASE GuiSend
  BY <1>3, <1>4, GuiSendPlaces
<1>5. CASE GuiEnqueue
  BY <1>3, <1>5, GuiEnqueuePlaces
<1>6. ASSUME NEW t \in Threads, Resend(t) PROVE PlacesInv' /\ [Channel!Next]_(Channel!vars)
  BY <1>3, <1>6, ResendPlaces
<1>7. CASE Shrinks
  BY <1>3, <1>7, ShrinkStep
<1>8. CASE UNCHANGED vars
  <2>1. Shrinks
    BY <1>8
    DEF vars, linkVars, buffers, serverVars, clientVars, guiVars, queueVars, Shrinks, InHand
  <2> QED
    BY <1>7, <2>1
<1>9. CASE Ending \/ ClickConnect \/ GuiRecv \/ GuiAck \/ GuiAckFails \/ GuiClear
           \/ EndProcess \/ StartProcess
  BY <1>7, <1>9, EndingShrinks, GuiShrinks DEF DInv
<1>10. ASSUME NEW t \in Threads, Thread(t) PROVE PlacesInv' /\ [Channel!Next]_(Channel!vars)
  BY <1>6, <1>7, <1>10, ThreadShrinks DEF DInv
<1>11. ASSUME NEW s \in Sockets, Environment(s)
       PROVE  PlacesInv' /\ [Channel!Next]_(Channel!vars)
  BY <1>2, <1>7, <1>11, LinkShrinks DEF DInv
<1> QED
  BY <1>1, <1>4, <1>5, <1>8, <1>9, <1>10, <1>11 DEF Next, User, Gui, Ending

\* sendKeyPress, the queue, reconnectAndResend, the connections and handleClient
\* together are a key channel, whatever fails: an event is injected at most once,
\* and not after it was given up.
THEOREM ClientIsKeyChannel == Spec => ImplementsKeyChannel
<1>1. Spec => Channel!Init /\ [][Channel!Next]_(Channel!vars)
  BY PlacesInit, PlacesStep, PTL DEF Spec
<1> QED
  BY <1>1 DEF ImplementsKeyChannel, Channel!Spec

Promise == INSTANCE KeyChannelProofs WITH pending <- Pending

\* No key that is typed is injected twice: neither by resending the queue, nor by
\* a handler that still reads what was sent on a closed connection.
THEOREM KeysInjectedOnce ==
  Spec => [](\A i, j \in 1..Len(delivered) : i # j => delivered[i] # delivered[j])
<1>1. Spec => Promise!Spec
  BY ClientIsKeyChannel
  DEF ImplementsKeyChannel, Channel!Spec, Channel!Init, Channel!Next, Channel!Type, Channel!Deliver,
      Channel!Lose, Channel!vars, Promise!Spec, Promise!Init, Promise!Next, Promise!Type,
      Promise!Deliver, Promise!Lose, Promise!vars
<1> QED
  BY <1>1, Promise!ChannelInjectsOnce DEF Promise!AtMostOnce

-----------------------------------------------------------------------------
(* Acknowledgments, when keys are not queued.                              *)

Verified(s) == s \in verified \ early

\* The GUI thread waits, or is about to wait, for an answer on a socket.
Awaits(s) == (guiPc = "recv" /\ g = s) \/ (guiPc = "ack" /\ guiSock = s)

\* A connection that is not established has nothing to receive, and nothing to
\* send unless it was closed and a handler, present or to come, still reads it.
IdleInv(s) ==
  /\ sock[s] # "established" => inbox[s] = <<>> /\ (srv[s] = "none" => outbox[s] = <<>>)
  /\ sock[s] \in {"created", "connecting"} => srv[s] = "none"

\* What was verified, or used, was connected, and is closed by closesocket only.
TrustInv(s) ==
  /\ s \in verified \cup early => sock[s] \in {"established", "reset"}
  /\ s \in verified /\ sock[s] = "established" => s \in blocking

\* Before it is verified, or used too early, an established connection has at most
\* the signature, or what an acknowledgment's recv has left of it.
SignatureInv(s) ==
  sock[s] = "established" =>
    /\ srv[s] = "backlog" => inbox[s] = <<>> /\ s \notin verified
    /\ s \notin verified \cup early => outbox[s] = <<>> /\ inbox[s] \in {<<>>, <<"SIG">>, <<"PART">>}

\* Afterwards it has one key or one acknowledgment, which is that of the key the
\* GUI thread waits for, or is g_persistentSocket no more.
AnswerInv(s) ==
  sock[s] = "established" /\ Verified(s) =>
    /\ \/ outbox[s] = <<>> /\ inbox[s] \in {<<>>, <<"ACK">>}
       \/ inbox[s] = <<>> /\ \E k \in KeyEvents : outbox[s] = <<k>>
    /\ g = s /\ ~Awaits(s) => outbox[s] = <<>> /\ inbox[s] = <<>>
    /\ Awaits(s) => /\ outbox[s] \in {<<>>, <<typed>>}
                    /\ inbox[s] # <<>> => typed \in Elems(delivered)

SocketInv(s) == IdleInv(s) /\ TrustInv(s) /\ SignatureInv(s) /\ AnswerInv(s)

\* The socket whose signature is awaited was made blocking, or closed before.
BlockingInv ==
  \A t \in Threads : pc[t] = "sig" /\ fd[t] \in Sockets =>
    sock[fd[t]] = "closed" \/ fd[t] \in blocking

AInv == /\ TInv /\ BlockingInv /\ keyEventQueue = <<>>
        /\ \A s \in Sockets : SocketInv(s)

LEMMA SingletonFacts ==
  ASSUME NEW x
  PROVE  /\ Append(<<>>, x) = <<x>> /\ Head(<<x>>) = x /\ Tail(<<x>>) = <<>>
         /\ <<x>> # <<>> /\ Len(<<x>>) = 1 /\ <<x>>[1] = x
OBVIOUS

\* What a step that leaves a socket alone may do to g_persistentSocket and to the
\* GUI thread's wait for an answer on it.
Watch(s) ==
  /\ Awaits(s)' => /\ Awaits(s) /\ typed' = typed
                   /\ typed \in Elems(delivered) => typed \in Elems(delivered')
  /\ g' = s => g = s /\ (Awaits(s) => Awaits(s)')

LEMMA WatchFrame ==
  ASSUME UNCHANGED <<g, guiPc, guiSock, typed, delivered>>, NEW s
  PROVE  Watch(s)
BY DEF Watch, Awaits

LEMMA SocketFrame ==
  ASSUME NEW s \in Sockets, SocketInv(s), Watch(s),
         sock'[s] = sock[s], srv'[s] = srv[s], inbox'[s] = inbox[s], outbox'[s] = outbox[s],
         s \in blocking => s \in blocking',
         s \in verified' <=> s \in verified, s \in early' <=> s \in early
  PROVE  SocketInv(s)'
<1>1. IdleInv(s)' /\ TrustInv(s)' /\ SignatureInv(s)'
  BY DEF SocketInv, IdleInv, TrustInv, SignatureInv
<1>2. AnswerInv(s)'
  <2> SUFFICES ASSUME sock[s] = "established", Verified(s)
               PROVE  /\ \/ outbox[s] = <<>> /\ inbox[s] \in {<<>>, <<"ACK">>}
                         \/ inbox[s] = <<>> /\ \E k \in KeyEvents : outbox[s] = <<k>>
                      /\ g' = s /\ ~Awaits(s)' => outbox[s] = <<>> /\ inbox[s] = <<>>
                      /\ Awaits(s)' => /\ outbox[s] \in {<<>>, <<typed'>>}
                                       /\ inbox[s] # <<>> => typed' \in Elems(delivered')
    BY DEF AnswerInv, Verified
  <2> QED
    BY DEF SocketInv, AnswerInv, Watch
<1> QED
  BY <1>1, <1>2 DEF SocketInv

\* closesocket on some sockets.
LEMMA CloseKeeps ==
  ASSUME AInv, NEW S, Close(S), UNCHANGED srv, \A s \in Sockets \ S : Watch(s)
  PROVE  \A s \in Sockets : SocketInv(s)'
<1> SUFFICES ASSUME NEW s \in Sockets PROVE SocketInv(s)'
  OBVIOUS
<1>1. SocketInv(s)
  BY DEF AInv
<1>2. CASE s \in S
  <2>1. /\ sock'[s] = "closed" /\ inbox'[s] = <<>> /\ srv'[s] = srv[s]
        /\ srv[s] = "none" => outbox'[s] = <<>>
        /\ s \notin verified' /\ s \notin early'
    BY <1>2 DEF Close, CloseSockets
  <2> QED
    BY <2>1 DEF SocketInv, IdleInv, TrustInv, SignatureInv, AnswerInv
<1>3. CASE s \notin S
  <2>1. /\ sock'[s] = sock[s] /\ srv'[s] = srv[s] /\ inbox'[s] = inbox[s] /\ outbox'[s] = outbox[s]
        /\ s \in blocking => s \in blocking'
        /\ (s \in verified' <=> s \in verified) /\ (s \in early' <=> s \in early)
    BY <1>3 DEF Close, CloseSockets
  <2> QED
    BY <1>1, <1>3, <2>1, SocketFrame
<1> QED
  BY <1>2, <1>3

\* Steps that leave the connections alone.
LEMMA LinkFrame ==
  ASSUME AInv, UNCHANGED <<sock, srv, inbox, outbox, verified, early>>, blocking \subseteq blocking',
         \A s \in Sockets : Watch(s)
  PROVE  \A s \in Sockets : SocketInv(s)'
BY SocketFrame DEF AInv

-----------------------------------------------------------------------------
(* The network and the server.                                             *)

\* Only delivered, of what the client sees, changes besides the connection s.
LEMMA LinkElsewhere ==
  ASSUME TInv, NEW s \in Sockets, Environment(s), NEW u \in Sockets \ {s}
  PROVE  /\ sock'[u] = sock[u] /\ srv'[u] = srv[u] /\ inbox'[u] = inbox[u] /\ outbox'[u] = outbox[u]
         /\ UNCHANGED blocking
<1> USE DEF TInv, SockType, ServerType, BufferType, SetSocket, sockVars, buffers
<1>1. CASE Handshake(s)
  BY <1>1 DEF Handshake
<1>2. CASE Accept(s)
  BY <1>2 DEF Accept
<1>3. CASE HandleKey(s)
  BY <1>3 DEF HandleKey
<1>4. CASE HandlerExits(s)
  BY <1>4 DEF HandlerExits
<1>5. CASE PeerLost(s)
  BY <1>5 DEF PeerLost
<1>6. CASE Detect(s)
  BY <1>6 DEF Detect
<1> QED
  BY <1>1, <1>2, <1>3, <1>4, <1>5, <1>6 DEF Environment, LinkStep

LEMMA LinkClient ==
  ASSUME NEW s, Environment(s)
  PROVE  /\ UNCHANGED <<g, verified, early, guiPc, guiSock, typed, keyEventQueue, pc, fd>>
         /\ \A u : Awaits(u)' <=> Awaits(u)
BY DEF Environment, clientVars, queueVars, netVars, trustVars, guiVars, threadVars, Awaits

\* What the handlers inject stays injected.
LEMMA DeliveredGrows ==
  ASSUME TInv, NEW s \in Sockets, Environment(s)
  PROVE  /\ Elems(delivered) \subseteq Elems(delivered')
         /\ HandleKey(s) => Head(outbox[s]) \in Elems(delivered')
<1>1. CASE HandleKey(s)
  <2>1. Head(outbox[s]) \in KeyEvents
    BY <1>1 DEF HandleKey, TInv, BufferType
  <2>2. delivered \in Seq(KeyEvents) /\ delivered' = Append(delivered, Head(outbox[s]))
    BY <1>1 DEF HandleKey, TInv, ServerType
  <2>3. Elems(Append(delivered, Head(outbox[s]))) = Elems(delivered) \cup {Head(outbox[s])}
    BY <2>1, <2>2, AppendFacts
  <2> QED
    BY <2>2, <2>3
<1>2. CASE ~HandleKey(s)
  BY <1>2, LinkShrinks DEF Shrinks
<1> QED
  BY <1>1, <1>2

LEMMA HandshakeKeeps ==
  ASSUME AInv, NEW s \in Sockets, Environment(s), Handshake(s)
  PROVE  SocketInv(s)'
<1>1. /\ sock[s] = "connecting" /\ sock'[s] = "established" /\ srv'[s] = "backlog"
      /\ inbox'[s] = inbox[s] /\ outbox'[s] = outbox[s]
  BY DEF Handshake, SetSocket, AInv, TInv, SockType, ServerType
<1>2. inbox[s] = <<>> /\ outbox[s] = <<>> /\ s \notin verified \cup early
  BY <1>1 DEF AInv, SocketInv, IdleInv, TrustInv
<1>3. verified' = verified /\ early' = early
  BY LinkClient
<1> QED
  BY <1>1, <1>2, <1>3 DEF SocketInv, IdleInv, TrustInv, SignatureInv, AnswerInv, Verified

LEMMA AcceptKeeps ==
  ASSUME AInv, NEW s \in Sockets, Environment(s), Accept(s)
  PROVE  SocketInv(s)'
<1>1. /\ srv[s] = "backlog" /\ srv'[s] = "serving" /\ sock'[s] = sock[s] /\ outbox'[s] = outbox[s]
      /\ inbox'[s] = (IF sock[s] = "established" THEN Append(inbox[s], "SIG") ELSE inbox[s])
      /\ UNCHANGED blocking
  BY DEF Accept, CanSend, sockVars, AInv, TInv, SockType, BufferType, ServerType
<1>2. verified' = verified /\ early' = early
  BY LinkClient
<1>3. SocketInv(s)
  BY DEF AInv
<1>4. CASE sock[s] = "established"
  <2>1. inbox[s] = <<>> /\ s \notin verified
    BY <1>1, <1>3, <1>4 DEF SocketInv, SignatureInv
  <2>2. inbox'[s] = <<"SIG">>
    BY <1>1, <1>4, <2>1, SingletonFacts
  <2> QED
    BY <1>1, <1>2, <1>3, <1>4, <2>1, <2>2
    DEF SocketInv, IdleInv, TrustInv, SignatureInv, AnswerInv, Verified
<1>5. CASE sock[s] # "established"
  BY <1>1, <1>2, <1>3, <1>5
  DEF SocketInv, IdleInv, TrustInv, SignatureInv, AnswerInv, Verified
<1> QED
  BY <1>4, <1>5

LEMMA HandleKeyKeeps ==
  ASSUME AInv, NEW s \in Sockets, Environment(s), HandleKey(s)
  PROVE  SocketInv(s)'
<1>1. /\ srv[s] = "serving" /\ srv'[s] = srv[s] /\ sock'[s] = sock[s] /\ outbox[s] # <<>>
      /\ outbox'[s] = Tail(outbox[s])
      /\ inbox'[s] = (IF sock[s] = "established" THEN Append(inbox[s], "ACK") ELSE inbox[s])
      /\ UNCHANGED blocking
  BY DEF HandleKey, CanSend, sockVars, AInv, TInv, SockType, BufferType, ServerType
<1>2. verified' = verified /\ early' = early /\ g' = g /\ typed' = typed /\ (Awaits(s)' <=> Awaits(s))
  BY LinkClient
<1>3. SocketInv(s)
  BY DEF AInv
<1>4. IdleInv(s)' /\ TrustInv(s)' /\ SignatureInv(s)'
  BY <1>1, <1>2, <1>3 DEF SocketInv, IdleInv, TrustInv, SignatureInv
<1>5. AnswerInv(s)'
  <2> SUFFICES ASSUME sock[s] = "established", Verified(s) PROVE AnswerInv(s)'
    BY <1>1, <1>2 DEF AnswerInv, Verified
  <2>1. PICK k \in KeyEvents : outbox[s] = <<k>> /\ inbox[s] = <<>>
    BY <1>1, <1>3 DEF SocketInv, AnswerInv
  <2>2. outbox'[s] = <<>> /\ inbox'[s] = <<"ACK">> /\ Head(outbox[s]) = k
    BY <1>1, <2>1, SingletonFacts
  <2>3. g = s => Awaits(s)
    BY <1>1, <1>3 DEF SocketInv, AnswerInv
  <2>4. Awaits(s) => typed \in Elems(delivered')
    <3>1. Awaits(s) => k = typed
      BY <1>1, <1>3, <2>1 DEF SocketInv, AnswerInv
    <3> QED
      BY <2>2, <3>1, DeliveredGrows DEF AInv
  <2> QED
    BY <1>2, <2>2, <2>3, <2>4 DEF AnswerInv
<1> QED
  BY <1>4, <1>5 DEF SocketInv

\* The handler ends, the connection is lost, or its loss is noticed.
LEMMA LossKeeps ==
  ASSUME AInv, NEW s \in Sockets, Environment(s), HandlerExits(s) \/ PeerLost(s) \/ Detect(s)
  PROVE  SocketInv(s)'
<1>1. /\ outbox'[s] = <<>> /\ UNCHANGED <<blocking, delivered>>
      /\ srv'[s] = "none"
      /\ \/ sock'[s] = sock[s] /\ inbox'[s] = inbox[s]
         \/ sock[s] = "established" /\ sock'[s] = "reset" /\ inbox'[s] = <<>>
  BY DEF HandlerExits, PeerLost, Detect, SetSocket, CanSend, sockVars, AInv, TInv, SockType, BufferType,
         ServerType
<1>2. /\ verified' = verified /\ early' = early /\ g' = g /\ typed' = typed /\ (Awaits(s)' <=> Awaits(s))
  BY LinkClient
<1>3. SocketInv(s)
  BY DEF AInv
<1>4. IdleInv(s)' /\ TrustInv(s)' /\ SignatureInv(s)'
  <2>1. IdleInv(s)'
    BY <1>1, <1>3 DEF SocketInv, IdleInv
  <2>2. TrustInv(s)'
    BY <1>1, <1>2, <1>3 DEF SocketInv, TrustInv
  <2>3. SignatureInv(s)'
    BY <1>1, <1>2, <1>3 DEF SocketInv, SignatureInv
  <2> QED
    BY <2>1, <2>2, <2>3
<1>5. AnswerInv(s)'
  BY <1>1, <1>2, <1>3 DEF SocketInv, AnswerInv, Verified
<1> QED
  BY <1>4, <1>5 DEF SocketInv

LEMMA LinkKeeps ==
  ASSUME AInv, NEW s \in Sockets, Environment(s)
  PROVE  \A u \in Sockets : SocketInv(u)'
<1>1. SocketInv(s)'
  BY HandshakeKeeps, AcceptKeeps, HandleKeyKeeps, LossKeeps DEF Environment, LinkStep
<1>2. ASSUME NEW u \in Sockets \ {s} PROVE SocketInv(u)'
  <2>1. Watch(u)
    BY LinkClient, DeliveredGrows DEF Watch, AInv
  <2>2. SocketInv(u) /\ UNCHANGED <<verified, early>>
    BY LinkClient DEF AInv
  <2>3. /\ sock'[u] = sock[u] /\ srv'[u] = srv[u] /\ inbox'[u] = inbox[u] /\ outbox'[u] = outbox[u]
        /\ UNCHANGED blocking
    BY LinkElsewhere DEF AInv
  <2> QED
    BY <2>1, <2>2, <2>3, SocketFrame
<1> QED
  BY <1>1, <1>2

-----------------------------------------------------------------------------
(* The GUI thread.                                                         *)

\* The GUI thread is not, and does not begin to be, waiting for an answer.
LEMMA QuietWatch ==
  ASSUME guiPc \notin {"recv", "ack"}, guiPc' \notin {"recv", "ack"}, g' \in {g, INVALID_SOCKET}
  PROVE  \A s \in Sockets : Watch(s)
<1>1. INVALID_SOCKET \notin Sockets
  BY KeyLinkAssumption DEF INVALID_SOCKET, Sockets
<1> QED
  BY <1>1 DEF Watch, Awaits

LEMMA EndingAnswers ==
  ASSUME AInv, Ending
  PROVE  \A s \in Sockets : SocketInv(s)'
<1> USE DEF linkVars, sockVars, buffers, serverVars, netVars, trustVars
<1>1. \A s \in Sockets : Watch(s)
  <2>1. /\ guiPc \notin {"recv", "ack"} /\ guiPc' \notin {"recv", "ack"}
        /\ g' \in {g, INVALID_SOCKET}
    BY DEF Ending, CloseWindow, DestroyWindow, ClickExit, LastClose, LastClear, CleanupWinsock,
           ResetSettings, ResetClear, ResetCleanup, RelaunchFails, GuiClose, GuiCleared, GuiCleanup
  <2> QED
    BY <2>1, QuietWatch
<1>2. CASE CloseWindow \/ LastClose \/ ResetSettings
  <2>1. UNCHANGED <<linkVars, trustVars>> \/ (Close({g}) /\ UNCHANGED serverVars)
    BY <1>2 DEF CloseWindow, LastClose, ResetSettings, GuiClose
  <2> QED
    BY <1>1, <2>1, CloseKeeps, LinkFrame
<1>3. CASE CleanupWinsock \/ ResetCleanup
  <2>1. Close(Sockets) /\ UNCHANGED serverVars
    BY <1>3 DEF CleanupWinsock, ResetCleanup, GuiCleanup
  <2> QED
    BY <1>1, <2>1, CloseKeeps
<1>4. CASE DestroyWindow \/ ClickExit \/ LastClear \/ ResetClear \/ RelaunchFails
  <2>1. UNCHANGED <<linkVars, trustVars>>
    BY <1>4 DEF DestroyWindow, ClickExit, LastClear, ResetClear, RelaunchFails, GuiCleared
  <2> QED
    BY <1>1, <2>1, LinkFrame
<1> QED
  BY <1>2, <1>3, <1>4 DEF Ending

LEMMA QuietAnswers ==
  ASSUME AInv,
         \/ IgnoreKey \/ TypeKey \/ GuiEnqueue \/ ClickConnect \/ GuiClear
         \/ EndProcess \/ StartProcess
  PROVE  \A s \in Sockets : SocketInv(s)'
<1> USE DEF linkVars, sockVars, buffers, serverVars, netVars, trustVars
<1>1. CASE EndProcess
  <2>1. Close(Sockets) /\ UNCHANGED serverVars
    BY <1>1 DEF EndProcess
  <2> QED
    BY <2>1, CloseKeeps
<1>2. CASE ~EndProcess
  <2>1. /\ guiPc \notin {"recv", "ack"} /\ guiPc' \notin {"recv", "ack"}
        /\ g' \in {g, INVALID_SOCKET}
    BY <1>2 DEF IgnoreKey, TypeKey, GuiEnqueue, ClickConnect, GuiClear, StartProcess
  <2>2. \A s \in Sockets : Watch(s)
    BY <2>1, QuietWatch
  <2>3. UNCHANGED <<linkVars, trustVars>> \/ (Close({g}) /\ UNCHANGED serverVars)
    BY <1>2 DEF IgnoreKey, TypeKey, GuiEnqueue, ClickConnect, GuiClear, StartProcess
  <2> QED
    BY <2>2, <2>3, CloseKeeps, LinkFrame
<1> QED
  BY <1>1, <1>2

LEMMA GuiSendAnswers ==
  ASSUME AInv, GuiSend
  PROVE  \A s \in Sockets : SocketInv(s)'
<1>1. /\ guiPc = "send" /\ Send(typed) /\ guiPc' = (IF CanSend(g) THEN "recv" ELSE "enqueue")
      /\ UNCHANGED <<g, guiSock, typed, delivered, sock, blocking, srv, inbox, verified>>
  BY DEF GuiSend, Send, sockVars, serverVars
<1>2. typed \in KeyEvents
  BY <1>1 DEF AInv, TInv, GuiType, GuiTyped, KeyEvents
<1>3. CASE ~CanSend(g)
  <2>1. UNCHANGED <<outbox, early>> /\ \A s \in Sockets : Watch(s)
    BY <1>1, <1>3, QuietWatch DEF Send
  <2>2. blocking \subseteq blocking'
    BY <1>1
  <2> QED
    BY <1>1, <2>1, <2>2, LinkFrame
<1>4. CASE CanSend(g)
  <2>1. /\ g \in Sockets /\ sock[g] = "established" /\ guiPc' = "recv"
        /\ outbox' = [outbox EXCEPT ![g] = Append(outbox[g], typed)]
        /\ early' = (IF g \notin verified THEN early \cup {g} ELSE early)
    BY <1>1, <1>4 DEF Send, CanSend
  <2>2. ASSUME NEW s \in Sockets \ {g} PROVE SocketInv(s)'
    <3>1. outbox'[s] = outbox[s] /\ (s \in early' <=> s \in early)
      BY <2>1 DEF AInv, TInv, BufferType
    <3>2. Watch(s)
      BY <1>1, <2>1 DEF Watch, Awaits
    <3> QED
      BY <1>1, <3>1, <3>2, SocketFrame DEF AInv
  <2>3. ASSUME NEW s \in Sockets, s = g PROVE SocketInv(s)'
    <3>0. /\ sock[s] = "established" /\ outbox'[s] = Append(outbox[s], typed)
          /\ early' = (IF s \notin verified THEN early \cup {s} ELSE early)
      BY <2>1, <2>3 DEF AInv, TInv, BufferType
    <3>1. SocketInv(s) /\ ~Awaits(s) /\ Awaits(s)' /\ g = s
      BY <1>1, <2>1, <2>3 DEF AInv, Awaits
    <3>2. IdleInv(s)' /\ TrustInv(s)'
      BY <1>1, <3>0, <3>1 DEF SocketInv, IdleInv, TrustInv
    <3>3. SignatureInv(s)'
      BY <1>1, <3>0, <3>1 DEF SocketInv, SignatureInv
    <3>4. AnswerInv(s)'
      <4> SUFFICES ASSUME Verified(s)' PROVE AnswerInv(s)'
        BY DEF AnswerInv
      <4>1. Verified(s)
        BY <1>1, <3>0 DEF Verified
      <4>2. outbox[s] = <<>> /\ inbox[s] = <<>>
        BY <3>0, <3>1, <4>1 DEF SocketInv, AnswerInv
      <4>3. outbox'[s] = <<typed>> /\ inbox'[s] = <<>>
        BY <1>1, <3>0, <4>2, SingletonFacts
      <4> QED
        BY <1>1, <1>2, <3>1, <4>3 DEF AnswerInv
    <3> QED
      BY <3>2, <3>3, <3>4 DEF SocketInv
  <2> QED
    BY <2>2, <2>3
<1> QED
  BY <1>3, <1>4

LEMMA GuiRecvAnswers ==
  ASSUME AInv, GuiRecv
  PROVE  \A s \in Sockets : SocketInv(s)'
<1>1. /\ guiPc = "recv" /\ guiPc' = "ack" /\ guiSock' = g
      /\ UNCHANGED <<g, typed, delivered, sock, blocking, srv, inbox, outbox, verified, early>>
  BY DEF GuiRecv, linkVars, sockVars, buffers, serverVars, netVars, trustVars
<1>2. \A s \in Sockets : Watch(s)
  BY <1>1 DEF Watch, Awaits
<1> QED
  BY <1>1, <1>2, LinkFrame

\* What recv leaves of an answer.
LEMMA GuiAckAnswers ==
  ASSUME AInv, GuiAck \/ GuiAckFails
  PROVE  \A s \in Sockets : SocketInv(s)'
<1>1. /\ guiPc = "ack" /\ guiPc' = "idle"
      /\ UNCHANGED <<g, typed, delivered, sock, blocking, srv, outbox, verified, early>>
  BY DEF GuiAck, GuiAckFails, GuiReturn, sockVars, serverVars, netVars, trustVars
<1>2. ASSUME NEW s \in Sockets \ {guiSock} PROVE SocketInv(s)'
  <2>1. Watch(s)
    BY <1>1 DEF Watch, Awaits
  <2>2. inbox'[s] = inbox[s]
    BY DEF GuiAck, GuiAckFails, AInv, TInv, BufferType
  <2> QED
    BY <1>1, <2>1, <2>2, SocketFrame DEF AInv
<1>3. ASSUME guiSock \in Sockets, NEW s, s = guiSock PROVE SocketInv(s)'
  <2>1. SocketInv(s) /\ Awaits(s) /\ ~Awaits(s)'
    BY <1>1, <1>3 DEF AInv, Awaits
  <2>2. CASE GuiAckFails
    <3>1. UNCHANGED inbox /\ ~(s \in blocking /\ sock[s] = "established")
      BY <1>3, <2>2 DEF GuiAckFails, CanWait, CanSend
    <3>2. ~(sock[s] = "established" /\ Verified(s))
      BY <2>1, <3>1 DEF SocketInv, TrustInv, Verified
    <3>3. IdleInv(s)' /\ TrustInv(s)' /\ SignatureInv(s)'
      BY <1>1, <2>1, <3>1 DEF SocketInv, IdleInv, TrustInv, SignatureInv
    <3>4. AnswerInv(s)'
      BY <1>1, <3>2 DEF AnswerInv, Verified
    <3> QED
      BY <3>3, <3>4 DEF SocketInv
  <2>3. CASE GuiAck
    <3>1. /\ sock[s] = "established" /\ inbox[s] # <<>>
          /\ inbox'[s] = IF Head(inbox[s]) = "ACK" THEN Tail(inbox[s]) ELSE <<"PART">> \o Tail(inbox[s])
      BY <1>3, <2>3 DEF GuiAck, CanSend, AInv, TInv, BufferType
    <3>2. srv[s] # "backlog"
      BY <2>1, <3>1 DEF SocketInv, SignatureInv
    <3>3. CASE s \in verified \cup early
      <4>1. Verified(s) => inbox[s] = <<"ACK">> /\ outbox[s] = <<>>
        BY <2>1, <3>1 DEF SocketInv, AnswerInv
      <4>2. Verified(s) => inbox'[s] = <<>>
        BY <3>1, <4>1, SingletonFacts
      <4> QED
        BY <1>1, <2>1, <3>1, <3>2, <3>3, <4>1, <4>2
        DEF SocketInv, IdleInv, TrustInv, SignatureInv, AnswerInv, Verified
    <3>4. CASE s \notin verified \cup early
      <4>1. outbox[s] = <<>> /\ \E x \in {"SIG", "PART"} : inbox[s] = <<x>>
        BY <2>1, <3>1, <3>4 DEF SocketInv, SignatureInv
      <4>2. inbox'[s] = <<"PART">> \o <<>>
        <5>1. PICK x \in {"SIG", "PART"} : inbox[s] = <<x>>
          BY <4>1
        <5>2. Head(inbox[s]) = x /\ Tail(inbox[s]) = <<>>
          BY <5>1, SingletonFacts
        <5> QED
          BY <3>1, <5>2
      <4>3. inbox'[s] = <<"PART">>
        BY <4>2
      <4> QED
        BY <1>1, <2>1, <3>1, <3>2, <3>4, <4>1, <4>3
        DEF SocketInv, IdleInv, TrustInv, SignatureInv, AnswerInv, Verified
    <3> QED
      BY <3>3, <3>4
  <2> QED
    BY <2>2, <2>3
<1> QED
  BY <1>2, <1>3

-----------------------------------------------------------------------------
(* The detached threads.                                                   *)

LEMMA SocketCreatedAnswers ==
  ASSUME AInv, NEW t \in Threads, SocketCreated(t)
  PROVE  \A s \in Sockets : SocketInv(s)'
<1>1. PICK s \in Sockets : /\ Unused(s) /\ sock' = [sock EXCEPT ![s] = "created"]
                           /\ blocking' = blocking \ {s} /\ g' = s
  BY DEF SocketCreated
<1>2. UNCHANGED <<inbox, outbox, srv, delivered, verified, early, guiPc, guiSock, typed>>
  BY DEF SocketCreated, buffers, serverVars, trustVars, guiVars
<1>3. ASSUME NEW u \in Sockets \ {s} PROVE SocketInv(u)'
  <2>1. sock'[u] = sock[u] /\ (u \in blocking => u \in blocking')
    BY <1>1 DEF AInv, TInv, SockType
  <2>2. Watch(u)
    BY <1>1, <1>2 DEF Watch, Awaits
  <2> QED
    BY <1>2, <2>1, <2>2, SocketFrame DEF AInv
<1>4. SocketInv(s)'
  <2>1. /\ sock'[s] = "created" /\ sock[s] \in {"closed", "created"} /\ srv[s] = "none"
    BY <1>1 DEF Unused, AInv, TInv, SockType
  <2>2. inbox[s] = <<>> /\ outbox[s] = <<>> /\ s \notin verified \cup early
    BY <2>1 DEF AInv, SocketInv, IdleInv, TrustInv
  <2> QED
    BY <1>2, <2>1, <2>2 DEF SocketInv, IdleInv, TrustInv, SignatureInv, AnswerInv
<1> QED
  BY <1>3, <1>4

LEMMA ConnectAnswers ==
  ASSUME AInv, NEW t \in Threads, Connect(t)
  PROVE  \A s \in Sockets : SocketInv(s)'
<1>1. /\ g \in Sockets /\ sock[g] = "created" /\ sock' = [sock EXCEPT ![g] = "connecting"]
      /\ UNCHANGED <<g, blocking, inbox, outbox, srv, delivered, verified, early, guiPc, guiSock, typed>>
  BY DEF Connect, Connectable, SetSocket, buffers, serverVars, netVars, trustVars, guiVars
<1>2. ASSUME NEW u \in Sockets \ {g} PROVE SocketInv(u)'
  <2>1. sock'[u] = sock[u]
    BY <1>1 DEF AInv, TInv, SockType
  <2> QED
    BY <1>1, <2>1, WatchFrame, SocketFrame DEF AInv
<1>3. ASSUME NEW s \in Sockets, s = g PROVE SocketInv(s)'
  <2>1. SocketInv(s) /\ sock'[s] = "connecting" /\ sock[s] = "created"
    BY <1>1, <1>3 DEF AInv, TInv, SockType
  <2> QED
    BY <1>1, <2>1 DEF SocketInv, IdleInv, TrustInv, SignatureInv, AnswerInv
<1> QED
  BY <1>2, <1>3

LEMMA SignatureOkAnswers ==
  ASSUME AInv, NEW t \in Threads, SignatureOk(t)
  PROVE  \A s \in Sockets : SocketInv(s)'
<1>1. /\ pc[t] = "sig" /\ fd[t] \in Sockets /\ sock[fd[t]] = "established"
      /\ inbox[fd[t]] = <<"SIG">> /\ inbox' = [inbox EXCEPT ![fd[t]] = <<>>]
      /\ verified' = verified \cup {fd[t]}
      /\ UNCHANGED <<g, sock, blocking, outbox, srv, delivered, early, guiPc, guiSock, typed>>
  BY DEF SignatureOk, CanSend, sockVars, serverVars, guiVars
<1>2. ASSUME NEW u \in Sockets, u # fd[t] PROVE SocketInv(u)'
  <2>1. inbox'[u] = inbox[u] /\ (u \in verified' <=> u \in verified)
    BY <1>1, <1>2 DEF AInv, TInv, BufferType
  <2> QED
    BY <1>1, <2>1, WatchFrame, SocketFrame DEF AInv
<1>3. ASSUME NEW s \in Sockets, s = fd[t] PROVE SocketInv(s)'
  <2>1. SocketInv(s) /\ inbox'[s] = <<>> /\ inbox[s] = <<"SIG">> /\ s \in blocking
    BY <1>1, <1>3 DEF AInv, TInv, BufferType, BlockingInv
  <2>2. inbox[s] # <<>> /\ inbox[s] # <<"ACK">>
    BY <2>1
  <2>3. srv[s] # "backlog" /\ ~Verified(s)
    BY <1>1, <1>3, <2>1, <2>2 DEF SocketInv, SignatureInv, AnswerInv
  <2>4. s \notin early => outbox[s] = <<>>
    BY <1>1, <1>3, <2>1, <2>3 DEF SocketInv, SignatureInv, Verified
  <2> QED
    BY <1>1, <1>3, <2>1, <2>3, <2>4
    DEF SocketInv, IdleInv, TrustInv, SignatureInv, AnswerInv, Verified
<1> QED
  BY <1>2, <1>3

LEMMA ThreadAnswers ==
  ASSUME AInv, NEW t \in Threads, Thread(t)
  PROVE  \A s \in Sockets : SocketInv(s)'
<1> USE DEF linkVars, sockVars, buffers, serverVars, netVars, trustVars, guiVars
<1>1. CASE \/ LoseExchange(t) \/ ShowReconnecting(t) \/ SkipClose(t) \/ FindSocket(t) \/ ShowClosing(t)
           \/ ShowTrying(t) \/ AlreadyEstablished(t) \/ NotEstablished(t)
           \/ ConnectFails(t) \/ SelectFails(t) \/ ShowFailure(t) \/ Report(t)
  <2>1. UNCHANGED <<linkVars, netVars, guiVars>>
    BY <1>1
    DEF LoseExchange, ShowReconnecting, SkipClose, FindSocket, ShowClosing, ShowTrying,
        AlreadyEstablished, NotEstablished, ConnectFails, SelectFails, ShowFailure, Report, Fail,
        Jump
  <2> QED
    BY <2>1, WatchFrame, LinkFrame
<1>2. CASE WinExchange(t) \/ Resume(t) \/ ClearQueue(t) \/ LockQueue(t) \/ UnlockQueue(t)
  <2>1. UNCHANGED <<linkVars, netVars, guiVars>>
    BY <1>2 DEF WinExchange, Resume, ClearQueue, LockQueue, UnlockQueue
  <2> QED
    BY <2>1, WatchFrame, LinkFrame
<1>3. CASE SelectReady(t)
  <2>1. UNCHANGED <<sock, buffers, serverVars, netVars, guiVars>> /\ blocking \subseteq blocking'
    BY <1>3 DEF SelectReady
  <2> QED
    BY <2>1, WatchFrame, LinkFrame
<1>4. CASE ClearSocket(t) \/ SocketFails(t)
  <2>1. UNCHANGED <<linkVars, trustVars, guiVars>> /\ g' = INVALID_SOCKET
    BY <1>4 DEF ClearSocket, SocketFails
  <2>2. INVALID_SOCKET \notin Sockets
    BY KeyLinkAssumption DEF INVALID_SOCKET, Sockets
  <2>3. \A s \in Sockets : Watch(s)
    BY <2>1, <2>2 DEF Watch, Awaits
  <2> QED
    BY <2>1, <2>3, LinkFrame
<1>5. CASE CloseSocket(t) \/ SignatureBad(t)
  <2>1. UNCHANGED <<g, guiVars, serverVars>> /\ \E S : Close(S)
    BY <1>5 DEF CloseSocket, SignatureBad
  <2> QED
    BY <2>1, WatchFrame, CloseKeeps
<1>6. ~Resend(t)
  BY DEF Resend, AInv
<1> QED
  BY <1>1, <1>2, <1>3, <1>4, <1>5, <1>6, SocketCreatedAnswers, ConnectAnswers, SignatureOkAnswers
  DEF Thread

-----------------------------------------------------------------------------
(* The socket whose signature is awaited.                                  *)

\* A socket that is closed or blocking stays so, or is closed.
Kept(s) == /\ sock[s] = "closed" => sock'[s] = "closed"
           /\ s \in blocking => s \in blocking' \/ sock'[s] = "closed"

\* No thread begins to await a signature.
NoNewSignature == \A t \in Threads : pc'[t] = "sig" => pc[t] = "sig" /\ fd'[t] = fd[t]

LEMMA BlockingFrame ==
  ASSUME BlockingInv, NoNewSignature,
         \A t \in Threads : pc[t] = "sig" /\ fd[t] \in Sockets => Kept(fd[t])
  PROVE  BlockingInv'
<1> SUFFICES ASSUME NEW t \in Threads, pc'[t] = "sig", fd'[t] \in Sockets'
             PROVE  sock'[fd'[t]] = "closed" \/ fd'[t] \in blocking'
  BY DEF BlockingInv
<1>1. pc[t] = "sig" /\ fd'[t] = fd[t] /\ fd[t] \in Sockets
  BY DEF NoNewSignature, Sockets
<1> QED
  BY <1>1 DEF BlockingInv, Kept

LEMMA CloseKept ==
  ASSUME TInv, NEW S, Close(S)
  PROVE  \A s \in Sockets : Kept(s)
BY DEF Close, CloseSockets, Kept

LEMMA EnterNotSig ==
  ASSUME ThreadType, NEW t \in Threads, NEW label, label # "sig", NEW return, NEW h,
         Enter(t, label, return, h)
  PROVE  NoNewSignature
BY DEF ThreadType, Enter, NoNewSignature

LEMMA ThreadSignature ==
  ASSUME TInv, NEW t \in Threads, Thread(t), ~SelectReady(t)
  PROVE  NoNewSignature
<1>0. ThreadType /\ ret[t] # "sig" /\ AfterFailure(t) # "sig" /\ AfterSuccess(t) # "sig"
  BY DEF TInv, ThreadType, Returns, AfterFailure, AfterSuccess
<1>1. CASE Resend(t)
  BY <1>1 DEF Resend, threadVars, NoNewSignature
<1>2. CASE \/ LoseExchange(t) \/ ShowReconnecting(t) \/ SkipClose(t) \/ FindSocket(t) \/ ShowClosing(t)
           \/ ShowTrying(t) \/ AlreadyEstablished(t) \/ NotEstablished(t)
  BY <1>0, <1>2, EnterNotSig
  DEF LoseExchange, ShowReconnecting, SkipClose, FindSocket, ShowClosing, ShowTrying,
      AlreadyEstablished, NotEstablished, Jump
<1>3. CASE ConnectFails(t) \/ SelectFails(t) \/ ShowFailure(t) \/ Report(t)
  BY <1>0, <1>3, EnterNotSig DEF ConnectFails, SelectFails, ShowFailure, Report, Fail, Jump
<1>4. CASE CloseSocket(t) \/ SignatureBad(t) \/ ClearSocket(t) \/ SocketFails(t)
  BY <1>0, <1>4, EnterNotSig DEF CloseSocket, SignatureBad, ClearSocket, SocketFails, Goto
<1>5. CASE SocketCreated(t) \/ Connect(t) \/ SignatureOk(t) \/ WinExchange(t)
  BY <1>0, <1>5, EnterNotSig DEF SocketCreated, Connect, SignatureOk, WinExchange, Goto
<1>6. CASE Resume(t) \/ ClearQueue(t) \/ LockQueue(t) \/ UnlockQueue(t)
  BY <1>0, <1>6, EnterNotSig DEF Resume, ClearQueue, LockQueue, UnlockQueue, Goto
<1> QED
  BY <1>1, <1>2, <1>3, <1>4, <1>5, <1>6 DEF Thread

LEMMA ThreadBlocking ==
  ASSUME AInv, NEW t \in Threads, Thread(t)
  PROVE  BlockingInv'
<1> USE DEF linkVars, sockVars
<1>0. TInv /\ BlockingInv
  BY DEF AInv
<1>1. CASE SelectReady(t)
  <2>1. /\ sock' = sock /\ blocking' = blocking \cup {s \in Sockets : s = g /\ sock[s] # "closed"}
        /\ pc' = [pc EXCEPT ![t] = "sig"] /\ fd' = [fd EXCEPT ![t] = g]
    BY <1>1 DEF SelectReady, Enter
  <2> SUFFICES ASSUME NEW u \in Threads, pc'[u] = "sig", fd'[u] \in Sockets
               PROVE  sock'[fd'[u]] = "closed" \/ fd'[u] \in blocking'
    BY DEF BlockingInv, Sockets
  <2>2. CASE u = t
    BY <1>0, <2>1, <2>2 DEF TInv, ThreadType
  <2>3. CASE u # t
    BY <1>0, <2>1, <2>3 DEF TInv, ThreadType, BlockingInv
  <2> QED
    BY <2>2, <2>3
<1>2. CASE SocketCreated(t)
  <2>1. PICK s \in Sockets : /\ Unused(s) /\ sock' = [sock EXCEPT ![s] = "created"]
                             /\ blocking' = blocking \ {s}
    BY <1>2 DEF SocketCreated
  <2>2. \A u \in Threads : fd[u] # s
    BY <2>1 DEF Unused
  <2>3. \A u \in Sockets \ {s} : Kept(u)
    BY <1>0, <2>1 DEF Kept, TInv, SockType
  <2>4. NoNewSignature
    BY <1>0, <1>2, ThreadSignature DEF SelectReady, SocketCreated
  <2> QED
    BY <1>0, <2>2, <2>3, <2>4, BlockingFrame
<1>3. CASE ~SelectReady(t) /\ ~SocketCreated(t)
  <2>1. \A s \in Sockets : Kept(s)
    <3>1. CASE UNCHANGED <<sock, blocking>>
      BY <3>1 DEF Kept
    <3>2. ASSUME NEW S, Close(S) PROVE \A s \in Sockets : Kept(s)
      BY <1>0, <3>2, CloseKept
    <3>3. CASE Connect(t)
      BY <1>0, <3>3 DEF Connect, Connectable, SetSocket, Kept, TInv, SockType
    <3>4. CASE \/ LoseExchange(t) \/ ShowReconnecting(t) \/ SkipClose(t) \/ FindSocket(t) \/ ShowClosing(t)
               \/ ShowTrying(t) \/ AlreadyEstablished(t) \/ NotEstablished(t)
               \/ ConnectFails(t) \/ SelectFails(t) \/ ShowFailure(t) \/ Report(t)
      BY <3>1, <3>4
      DEF LoseExchange, ShowReconnecting, SkipClose, FindSocket, ShowClosing, ShowTrying,
          AlreadyEstablished, NotEstablished, ConnectFails, SelectFails, ShowFailure, Report, Fail,
          Jump
    <3>5. CASE CloseSocket(t) \/ SignatureBad(t)
      BY <3>2, <3>5 DEF CloseSocket, SignatureBad
    <3>6. CASE \/ ClearSocket(t) \/ SocketFails(t) \/ SignatureOk(t) \/ WinExchange(t) \/ Resume(t)
               \/ ClearQueue(t) \/ LockQueue(t) \/ UnlockQueue(t) \/ Resend(t)
      BY <3>1, <3>6
      DEF ClearSocket, SocketFails, SignatureOk, WinExchange, Resume, ClearQueue, LockQueue,
          UnlockQueue, Resend, Send
    <3> QED
      BY <1>3, <3>3, <3>4, <3>5, <3>6 DEF Thread
  <2>2. NoNewSignature
    BY <1>0, <1>3, ThreadSignature
  <2> QED
    BY <1>0, <2>1, <2>2, BlockingFrame
<1> QED
  BY <1>1, <1>2, <1>3

\* A thread that is created does not await a signature yet.
LEMMA SpawnSignature ==
  ASSUME TInv, NEW k, NEW label, label # "sig", Spawn(k, label)
  PROVE  NoNewSignature
BY DEF TInv, ThreadType, Spawn, NoNewSignature

LEMMA GuiBlocking ==
  ASSUME AInv, User \/ Gui
  PROVE  BlockingInv'
<1> USE DEF linkVars, sockVars
<1>0. TInv /\ BlockingInv
  BY DEF AInv
<1>1. CASE EndProcess
  BY <1>1 DEF EndProcess, BlockingInv
<1>2. CASE ~EndProcess
  <2>1. NoNewSignature
    <3>1. CASE UNCHANGED threadVars
      BY <3>1 DEF threadVars, NoNewSignature
    <3>2. CASE Ending
      BY <3>1, <3>2, EndingKeeps
    <3>3. CASE ClickConnect \/ GuiEnqueue \/ GuiClear \/ StartProcess
      BY <1>0, <3>1, <3>3, SpawnSignature DEF ClickConnect, GuiEnqueue, GuiClear, StartProcess
    <3>4. CASE IgnoreKey \/ TypeKey \/ GuiSend \/ GuiRecv \/ GuiAck \/ GuiAckFails
      BY <3>1, <3>4 DEF IgnoreKey, TypeKey, GuiSend, GuiRecv, GuiAck, GuiAckFails, GuiReturn
    <3> QED
      BY <1>2, <3>2, <3>3, <3>4 DEF User, Gui, Ending
  <2>2. \A s \in Sockets : Kept(s)
    <3>1. CASE UNCHANGED <<sock, blocking>>
      BY <3>1 DEF Kept
    <3>2. ASSUME NEW S, Close(S) PROVE \A s \in Sockets : Kept(s)
      BY <1>0, <3>2, CloseKept
    <3>3. CASE CloseWindow \/ LastClose \/ ResetSettings \/ CleanupWinsock \/ ResetCleanup
      BY <3>1, <3>2, <3>3
      DEF CloseWindow, LastClose, ResetSettings, GuiClose, CleanupWinsock, ResetCleanup, GuiCleanup
    <3>4. CASE DestroyWindow \/ ClickExit \/ LastClear \/ ResetClear \/ RelaunchFails
      BY <3>1, <3>4 DEF DestroyWindow, ClickExit, LastClear, ResetClear, RelaunchFails, GuiCleared
    <3>5. CASE ClickConnect \/ GuiEnqueue \/ GuiClear \/ StartProcess
      BY <3>1, <3>2, <3>5 DEF ClickConnect, GuiEnqueue, GuiClear, StartProcess
    <3>6. CASE IgnoreKey \/ TypeKey \/ GuiSend \/ GuiRecv \/ GuiAck \/ GuiAckFails
      BY <3>1, <3>6 DEF IgnoreKey, TypeKey, GuiSend, Send, GuiRecv, GuiAck, GuiAckFails, GuiReturn
    <3> QED
      BY <1>2, <3>3, <3>4, <3>5, <3>6 DEF User, Gui
  <2> QED
    BY <1>0, <2>1, <2>2, BlockingFrame
<1> QED
  BY <1>1, <1>2

LEMMA LinkBlocking ==
  ASSUME AInv, NEW s \in Sockets, Environment(s)
  PROVE  BlockingInv'
<1>1. NoNewSignature
  BY LinkClient DEF NoNewSignature
<1>2. \A u \in Sockets : Kept(u)
  <2>1. blocking' = blocking /\ \A u \in Sockets : sock'[u] = sock[u] \/ sock[u] # "closed"
    BY DEF Environment, LinkStep, Handshake, Accept, HandleKey, HandlerExits, PeerLost, Detect,
           SetSocket, CanSend, sockVars, AInv, TInv, SockType
  <2> QED
    BY <2>1 DEF Kept
<1> QED
  BY <1>1, <1>2, BlockingFrame DEF AInv

-----------------------------------------------------------------------------

LEMMA AnswersInit == Init /\ ~queueKeys => AInv
<1> SUFFICES ASSUME Init PROVE BlockingInv /\ keyEventQueue = <<>> /\ \A s \in Sockets : SocketInv(s)
  BY TypeInit DEF AInv
<1>1. BlockingInv
  BY DEF Init, BlockingInv
<1> QED
  BY <1>1
  DEF Init, LinkInit, SocketInv, IdleInv, TrustInv, SignatureInv, AnswerInv, Verified

LEMMA AnswersStep == ~queueKeys /\ AInv /\ [Next]_vars => AInv'
<1> SUFFICES ASSUME ~queueKeys, AInv, [Next]_vars
             PROVE  BlockingInv' /\ keyEventQueue' = <<>> /\ \A s \in Sockets : SocketInv(s)'
  BY TypeStep DEF AInv
<1>1. CASE User \/ Gui
  <2>1. keyEventQueue' = <<>>
    BY <1>1, EndingKeeps
    DEF AInv, User, Gui, Ending, IgnoreKey, TypeKey, ClickConnect, EndProcess, StartProcess,
        GuiSend, GuiEnqueue, GuiRecv, GuiAck, GuiAckFails, GuiReturn, GuiClear, queueVars
  <2>2. \A s \in Sockets : SocketInv(s)'
    BY <1>1, EndingAnswers, QuietAnswers, GuiSendAnswers, GuiRecvAnswers, GuiAckAnswers
    DEF User, Gui, Ending
  <2> QED
    BY <1>1, <2>1, <2>2, GuiBlocking
<1>2. ASSUME NEW t \in Threads, Thread(t)
      PROVE  BlockingInv' /\ keyEventQueue' = <<>> /\ \A s \in Sockets : SocketInv(s)'
  <2>1. keyEventQueue' = <<>>
    BY <1>2, ThreadQueue DEF AInv
  <2> QED
    BY <1>2, <2>1, ThreadAnswers, ThreadBlocking
<1>3. ASSUME NEW s \in Sockets, Environment(s)
      PROVE  BlockingInv' /\ keyEventQueue' = <<>> /\ \A u \in Sockets : SocketInv(u)'
  BY <1>3, LinkClient, LinkBlocking, LinkKeeps DEF AInv
<1>4. CASE UNCHANGED vars
  <2>1. /\ UNCHANGED <<sock, blocking, srv, inbox, outbox, verified, early, g, guiPc, guiSock, typed>>
        /\ UNCHANGED <<delivered, keyEventQueue, pc, fd>>
    BY <1>4
    DEF vars, linkVars, sockVars, buffers, serverVars, clientVars, netVars, trustVars, guiVars,
        queueVars, threadVars
  <2>2. \A s \in Sockets : SocketInv(s)'
    BY <2>1, WatchFrame, LinkFrame
  <2>3. BlockingInv'
    BY <2>1, BlockingFrame DEF AInv, NoNewSignature, Kept
  <2> QED
    BY <2>1, <2>2, <2>3 DEF AInv
<1> QED
  BY <1>1, <1>2, <1>3, <1>4 DEF Next

AnswersHold == ~queueKeys => AInv

LEMMA AnswersHoldAlways == Spec => []AnswersHold
<1>1. Init => AnswersHold
  BY AnswersInit DEF AnswersHold
<1>2. AnswersHold /\ [Next]_vars => AnswersHold'
  BY AnswersStep DEF AnswersHold
<1> QED
  BY <1>1, <1>2, PTL DEF Spec

\* Without queueing, sendKeyPress has at most one key or one acknowledgment on a
\* connection that was verified before it was used, however connections come and
\* go under it.
THEOREM OneKeyAtATime == Spec => []OneOutstanding
<1>1. AnswersHold => OneOutstanding
  <2> SUFFICES ASSUME AInv, NEW s \in verified \ early, sock[s] = "established"
               PROVE  Len(outbox[s]) + Len(inbox[s]) <= 1
    BY DEF OneOutstanding, AnswersHold
  <2>1. \/ outbox[s] = <<>> /\ inbox[s] \in {<<>>, <<"ACK">>}
        \/ inbox[s] = <<>> /\ \E k \in KeyEvents : outbox[s] = <<k>>
    BY DEF AInv, TInv, NetType, SocketInv, AnswerInv, Verified
  <2>2. Len(<<>>) = 0 /\ Len(<<"ACK">>) = 1
    OBVIOUS
  <2>3. CASE outbox[s] = <<>> /\ inbox[s] \in {<<>>, <<"ACK">>}
    <3>1. CASE inbox[s] = <<>>
      BY <2>2, <2>3, <3>1
    <3>2. CASE inbox[s] = <<"ACK">>
      <4>1. Len(outbox[s]) = 0 /\ Len(inbox[s]) = 1
        BY <2>2, <2>3, <3>2
      <4> QED
        BY <4>1
    <3> QED
      BY <2>3, <3>1, <3>2
  <2>4. CASE inbox[s] = <<>> /\ \E k \in KeyEvents : outbox[s] = <<k>>
    <3>1. Len(outbox[s]) = 1
      BY <2>4, SingletonFacts
    <3> QED
      BY <2>2, <2>4, <3>1
  <2> QED
    BY <2>1, <2>3, <2>4
<1> QED
  BY <1>1, AnswersHoldAlways, PTL

\* Without queueing, the byte that ends the wait for an acknowledgment on such a
\* connection acknowledges the key just sent, which has been injected.
THEOREM AckIsForTheKey == Spec => VerifiedAckGenuine
<1>1. AnswersHold => [~queueKeys /\ GuiAck /\ guiSock \in verified \ early
                        => \E i \in 1..Len(delivered) : delivered[i] = typed]_vars
  <2> SUFFICES ASSUME AInv, GuiAck, guiSock \in verified \ early
               PROVE  \E i \in 1..Len(delivered) : delivered[i] = typed
    BY DEF AnswersHold
  <2>1. /\ SocketInv(guiSock) /\ sock[guiSock] = "established" /\ inbox[guiSock] # <<>>
        /\ Awaits(guiSock)
    BY DEF AInv, GuiAck, CanSend, Awaits
  <2> QED
    BY <2>1 DEF SocketInv, AnswerInv, Verified, Elems
<1> QED
  BY <1>1, AnswersHoldAlways, PTL DEF VerifiedAckGenuine
=============================================================================
