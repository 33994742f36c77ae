-------------------------- MODULE KeyChannelProofs --------------------------
(***************************************************************************)
(* What whoever implements the channel may rely on.                        *)
(***************************************************************************)
EXTENDS KeyChannel, TLAPS

\* No event is injected twice.
AtMostOnce == \A i, j \in 1..Len(delivered) : i # j => delivered[i] # delivered[j]

\* Only typed events are pending or were injected, and none is both.
ChannelInv ==
  /\ typed \in Nat /\ pending \subseteq 1..typed /\ delivered \in Seq(1..typed)
  /\ \A i \in 1..Len(delivered) : delivered[i] \notin pending
  /\ AtMostOnce

LEMMA ChannelInit == Init => ChannelInv
<1> SUFFICES ASSUME Init PROVE ChannelInv
  OBVIOUS
<1>1. delivered \in Seq(1..typed) /\ Len(delivered) = 0
  BY DEF Init
<1> QED
  BY <1>1 DEF Init, ChannelInv, AtMostOnce

LEMMA ChannelStep == ChannelInv /\ [Next]_vars => ChannelInv'
<1> SUFFICES ASSUME ChannelInv, [Next]_vars PROVE ChannelInv'
  OBVIOUS
<1>1. CASE Type
  <2>1. /\ typed' = typed + 1 /\ typed' \in Nat /\ 1..typed \subseteq 1..typed'
        /\ typed + 1 \notin 1..typed /\ typed + 1 \in 1..typed'
    BY <1>1 DEF Type, ChannelInv
  <2>2. delivered' = delivered /\ pending' \subseteq pending \cup {typed + 1}
    BY <1>1 DEF Type
  <2>3. delivered' \in Seq(1..typed')
    BY <2>1, <2>2 DEF ChannelInv
  <2>4. \A i \in 1..Len(delivered) : delivered[i] \in 1..typed /\ delivered[i] \notin pending
    BY DEF ChannelInv
  <2> QED
    BY <2>1, <2>2, <2>3, <2>4 DEF ChannelInv, AtMostOnce
<1>2. ASSUME NEW k \in pending, Deliver(k) PROVE ChannelInv'
  <2>1. /\ typed' = typed /\ pending' = pending \ {k} /\ delivered' = Append(delivered, k)
        /\ k \in 1..typed /\ delivered \in Seq(1..typed)
    BY <1>2 DEF Deliver, ChannelInv
  <2>2. /\ delivered' \in Seq(1..typed) /\ Len(delivered') = Len(delivered) + 1
        /\ Len(delivered) \in Nat
        /\ \A i \in 1..Len(delivered) : delivered'[i] = delivered[i]
        /\ delivered'[Len(delivered) + 1] = k
    BY <2>1
  <2>3. \A i \in 1..Len(delivered') : i \in 1..Len(delivered) \/ i = Len(delivered) + 1
    BY <2>2
  <2>4. \A i \in 1..Len(delivered) : delivered[i] # k /\ delivered[i] \notin pending
    BY DEF ChannelInv
  <2>5. \A i \in 1..Len(delivered') : delivered'[i] \notin pending'
    BY <2>1, <2>2, <2>3, <2>4
  <2>6. AtMostOnce'
    BY <2>2, <2>3, <2>4 DEF ChannelInv, AtMostOnce
  <2> QED
    BY <2>1, <2>2, <2>5, <2>6 DEF ChannelInv
<1>3. CASE Lose
  BY <1>3 DEF Lose, ChannelInv, AtMostOnce
<1>4. CASE UNCHANGED vars
  BY <1>4 DEF vars, ChannelInv, AtMostOnce
<1> QED
  BY <1>1, <1>2, <1>3, <1>4 DEF Next

\* The channel injects an event at most once.
THEOREM ChannelInjectsOnce == Spec => []AtMostOnce
<1>1. ChannelInv => AtMostOnce
  BY DEF ChannelInv
<1> QED
  BY <1>1, ChannelInit, ChannelStep, PTL DEF Spec
=============================================================================
