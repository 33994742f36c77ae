----------------------------- MODULE KeyChannel -----------------------------
(***************************************************************************)
(* What client and server together promise about key events: each event is *)
(* injected at most once, only after it was typed, and never after it was  *)
(* given up.  The channel may lose any event and promises no order.        *)
(***************************************************************************)
EXTENDS Naturals, Sequences

CONSTANT MaxKeys   \* bound: key events typed in a behaviour

VARIABLES typed,     \* key events are numbered 1, 2, ... as they are typed
          pending,   \* events that may still be injected
          delivered  \* events injected, in the order of injection

vars == <<typed, pending, delivered>>

Init == typed = 0 /\ pending = {} /\ delivered = <<>>

\* An event is typed, and accepted or ignored.
Type ==
  /\ typed < MaxKeys
  /\ typed' = typed + 1
  /\ pending' \in {pending, pending \cup {typed + 1}}
  /\ UNCHANGED delivered

Deliver(k) ==
  /\ pending' = pending \ {k}
  /\ delivered' = Append(delivered, k)
  /\ UNCHANGED typed

Lose ==
  /\ pending' \in SUBSET pending
  /\ UNCHANGED <<typed, delivered>>

Next == Type \/ (\E k \in pending : Deliver(k)) \/ Lose

Spec == Init /\ [][Next]_vars
=============================================================================
