------------------------------ MODULE KeyLink ------------------------------
(***************************************************************************)
(* One TCP connection per client socket, with the server's side of it: the *)
(* accept loop that sends the signature and the handler thread that reads  *)
(* a key message, injects the key and answers one byte.                    *)
(*                                                                         *)
(* Winsock itself is not part of the repository: a socket is modelled by   *)
(* what the code in NetworkClient.cpp and NetworkServer.cpp relies on.     *)
(* A key message (5 bytes, 'D' or 'U' and the key code) is the number of   *)
(* the key event it carries; an answer is "ACK"; the 13 bytes of the       *)
(* signature are "SIG", and "PART" once its first byte has been read.      *)
(***************************************************************************)
EXTENDS Naturals, Sequences

CONSTANTS MaxSockets,  \* bound: client sockets in use at the same time
          MaxKeys,     \* bound: key events typed in a behaviour
          MaxFaults    \* bound: connections lost by the network or the server

ASSUME KeyLinkAssumption == /\ MaxSockets \in Nat
                            /\ MaxKeys \in Nat
                            /\ MaxFaults \in Nat

VARIABLES
  sock,       \* client's end: [Sockets -> SocketState]
  blocking,   \* the client's sockets that are in blocking mode
  srv,        \* server's end: absent, in the listen backlog, or with a handler
  inbox,      \* bytes the client has not yet received
  outbox,     \* key messages the handler has not yet received
  delivered,  \* key events the handlers injected, in the order of injection
  faults      \* connections lost so far

buffers == <<inbox, outbox>>
serverVars == <<srv, delivered, faults>>
sockVars == <<sock, blocking>>
linkVars == <<sockVars, buffers, serverVars>>

Sockets == 1..MaxSockets
INVALID_SOCKET == 0
Handles == Sockets \cup {INVALID_SOCKET}
KeyEvents == 1..MaxKeys

SocketState == {"closed", "created", "connecting", "established", "reset"}
Replies == {"SIG", "PART", "ACK"}

LinkTypeOK ==
  /\ sock \in [Sockets -> SocketState]
  /\ blocking \subseteq Sockets
  /\ srv \in [Sockets -> {"none", "backlog", "serving"}]
  /\ inbox \in [Sockets -> Seq(Replies)]
  /\ outbox \in [Sockets -> Seq(KeyEvents)]
  /\ delivered \in Seq(KeyEvents)
  /\ faults \in 0..MaxFaults

LinkInit ==
  /\ sock = [s \in Sockets |-> "closed"]
  /\ blocking = {}
  /\ srv = [s \in Sockets |-> "none"]
  /\ inbox = [s \in Sockets |-> <<>>]
  /\ outbox = [s \in Sockets |-> <<>>]
  /\ delivered = <<>>
  /\ faults = 0

-----------------------------------------------------------------------------
(* What the client's calls do to a socket.                                 *)

\* send() succeeds on an established connection, blocking or not.
CanSend(h) == h \in Sockets /\ sock[h] = "established"

\* recv() on a blocking, established connection waits for a byte.
CanWait(h) == CanSend(h) /\ h \in blocking

\* closesocket(): what was sent stays on its way to a handler.
CloseSockets(S) ==
  /\ sock' = [s \in Sockets |-> IF s \in S THEN "closed" ELSE sock[s]]
  /\ blocking' = blocking \ S
  /\ inbox' = [s \in Sockets |-> IF s \in S THEN <<>> ELSE inbox[s]]
  /\ outbox' = [s \in Sockets |->
                  IF s \in S /\ srv[s] = "none" THEN <<>> ELSE outbox[s]]

SetSocket(s, state) == sock' = [sock EXCEPT ![s] = state] /\ UNCHANGED blocking

-----------------------------------------------------------------------------
(* Steps of the network and of the server.                                 *)

\* The three-way handshake of a non-blocking connect() completes.
Handshake(s) ==
  /\ sock[s] = "connecting"
  /\ SetSocket(s, "established")
  /\ srv' = [srv EXCEPT ![s] = "backlog"]
  /\ UNCHANGED <<inbox, outbox, delivered, faults>>

\* The accept loop takes the connection, sends the signature and detaches a
\* handler thread for it.
Accept(s) ==
  /\ srv[s] = "backlog"
  /\ srv' = [srv EXCEPT ![s] = "serving"]
  /\ inbox' = IF CanSend(s) THEN [inbox EXCEPT ![s] = Append(@, "SIG")] ELSE inbox
  /\ UNCHANGED <<sockVars, outbox, delivered, faults>>

\* Mutant: the handler peeks at a message and leaves it in the stream.
HandleKeyPeeked(s) ==
  /\ srv[s] = "serving"
  /\ outbox[s] # <<>>
  /\ delivered' = Append(delivered, Head(outbox[s]))
  /\ UNCHANGED <<sockVars, buffers, srv, faults>>

\* Mutant: the handler does not answer.
HandleKeySilently(s) ==
  /\ srv[s] = "serving"
  /\ outbox[s] # <<>>
  /\ outbox' = [outbox EXCEPT ![s] = Tail(@)]
  /\ delivered' = Append(delivered, Head(outbox[s]))
  /\ UNCHANGED <<sockVars, inbox, srv, faults>>

\* handleClient: one turn of its loop, recv, inject, acknowledge.
HandleKey(s) ==
  /\ srv[s] = "serving"
  /\ outbox[s] # <<>>
  /\ outbox' = [outbox EXCEPT ![s] = Tail(@)]
  /\ delivered' = Append(delivered, Head(outbox[s]))
  /\ inbox' = IF CanSend(s) THEN [inbox EXCEPT ![s] = Append(@, "ACK")] ELSE inbox
  /\ UNCHANGED <<sockVars, srv, faults>>

\* handleClient leaves its loop when recv returns nothing: the client is gone.
\* A close with unread bytes is abortive, so messages may be lost with it.
HandlerExits(s) ==
  /\ srv[s] = "serving"
  /\ ~CanSend(s)
  /\ srv' = [srv EXCEPT ![s] = "none"]
  /\ outbox' = [outbox EXCEPT ![s] = <<>>]
  /\ UNCHANGED <<sockVars, inbox, delivered, faults>>

\* The connection is lost: the server stops or the network drops it.
PeerLost(s) ==
  /\ faults < MaxFaults
  /\ srv[s] # "none"
  /\ faults' = faults + 1
  /\ srv' = [srv EXCEPT ![s] = "none"]
  /\ outbox' = [outbox EXCEPT ![s] = <<>>]
  /\ UNCHANGED <<sockVars, inbox, delivered>>

\* The client's TCP stack learns of it; until then send() still succeeds.
Detect(s) ==
  /\ CanSend(s)
  /\ srv[s] = "none"
  /\ SetSocket(s, "reset")
  /\ inbox' = [inbox EXCEPT ![s] = <<>>]
  /\ outbox' = [outbox EXCEPT ![s] = <<>>]
  /\ UNCHANGED <<srv, delivered, faults>>

LinkStep(s) ==
  \/ Handshake(s)
  \/ Accept(s)
  \/ HandleKey(s)
  \/ HandlerExits(s)
  \/ PeerLost(s)
  \/ Detect(s)
=============================================================================
