---------------------------- MODULE TCPConnector ----------------------------
(***************************************************************************)
(* TCPConnector::connect (tcpsockets/TCPConnector.cpp): one action per     *)
(* system call, each with the outcomes it may have.  Resolving the server  *)
(* comes before and leaves nothing behind.  The system may establish the   *)
(* connection at any time once the call has been made, also when nobody    *)
(* waits for it any longer.                                                *)
(***************************************************************************)
EXTENDS TCPStream

CONSTANT Connecting  \* the threads that call connect

VARIABLES
  at,        \* the call a thread makes next, "idle" outside connect
  sd,        \* the local sd, -1 outside
  result,    \* the local result, -1 outside
  stuck      \* the socket could not be made to block again

connectorVars == <<at, sd, result, stuck>>

ConnectorInit ==
  /\ at = [c \in Connecting |-> "idle"]
  /\ sd = [c \in Connecting |-> -1]
  /\ result = [c \in Connecting |-> -1]
  /\ stuck = [c \in Connecting |-> FALSE]

GoTo(c, place) == at' = [at EXCEPT ![c] = place]

(* with a timeout the socket first stops to block; no room: returns null *)
CreateSocket(c, timed) ==
  /\ at[c] = "idle"
  /\ Opens("stream")
  /\ sd' = [sd EXCEPT ![c] = Lowest]
  /\ GoTo(c, IF timed THEN "unblock" ELSE "connect")
  /\ UNCHANGED <<bound, linked, nonblock, m_sd, result, stuck>>

(* a failure of fcntl is only logged: the call is then made blocking *)
Unblock(c) ==
  /\ at[c] = "unblock"
  /\ \E ok \in BOOLEAN : /\ nonblock' = IF ok THEN nonblock \cup {sd[c]} ELSE nonblock
                         /\ GoTo(c, IF ok THEN "start" ELSE "startblocking")
  /\ UNCHANGED <<fds, bound, linked, m_sd, sd, result, stuck>>

(* ::connect returns at once, or the attempt goes on in the background *)
ConnectReturns(c, established) ==
  /\ linked' = IF established THEN linked \cup {sd[c]} ELSE linked
  /\ result' = [result EXCEPT ![c] = IF established THEN 0 ELSE -1]

Connect(c) ==
  /\ \/ /\ at[c] \in {"start", "startblocking"}
        /\ \E established \in BOOLEAN : ConnectReturns(c, established)
        /\ GoTo(c, "block")
     \/ /\ at[c] = "start"
        /\ GoTo(c, "select")
        /\ UNCHANGED <<linked, result>>
     \/ /\ at[c] = "connect"
        /\ \E established \in BOOLEAN : ConnectReturns(c, established)
        /\ GoTo(c, "finish")
  /\ UNCHANGED <<fds, bound, nonblock, m_sd, sd, stuck>>

(* bug: select is taken for success whatever SO_ERROR says *)
SelectTrustingly(c) ==
  /\ at[c] = "select"
  /\ \/ /\ linked' \in {linked, linked \cup {sd[c]}}
        /\ result' = [result EXCEPT ![c] = 0]
     \/ UNCHANGED <<linked, result>>
  /\ GoTo(c, "block")
  /\ UNCHANGED <<fds, bound, nonblock, m_sd, sd, stuck>>

(* select and getsockopt: established, refused, or nothing in time *)
Select(c) ==
  /\ at[c] = "select"
  /\ \/ ConnectReturns(c, TRUE)
     \/ UNCHANGED <<linked, result>>
  /\ GoTo(c, "block")
  /\ UNCHANGED <<fds, bound, nonblock, m_sd, sd, stuck>>

(* back to blocking mode; a failure of fcntl is only logged *)
Block(c) ==
  /\ at[c] = "block"
  /\ \/ nonblock' = nonblock \ {sd[c]} /\ UNCHANGED stuck
     \/ stuck' = [stuck EXCEPT ![c] = TRUE] /\ UNCHANGED nonblock
  /\ GoTo(c, "finish")
  /\ UNCHANGED <<fds, bound, linked, m_sd, sd, result>>

Finish(c) ==
  /\ at[c] = "finish"
  /\ \/ /\ result[c] = -1
        /\ Closes(sd[c])
        /\ UNCHANGED m_sd
     \/ /\ result[c] = 0
        /\ \E s \in Streams : Construct(s, sd[c])
        /\ UNCHANGED tableVars
  /\ sd' = [sd EXCEPT ![c] = -1]
  /\ result' = [result EXCEPT ![c] = -1]
  /\ stuck' = [stuck EXCEPT ![c] = FALSE]
  /\ GoTo(c, "idle")

Connector(c) ==
  \/ \E timed \in BOOLEAN : CreateSocket(c, timed)
  \/ Unblock(c) \/ Connect(c) \/ Select(c) \/ Block(c) \/ Finish(c)

ConnectorTypeOK ==
  /\ at \in [Connecting -> {"idle", "unblock", "connect", "start", "startblocking",
                            "select", "block", "finish"}]
  /\ sd \in [Connecting -> Fd \cup {-1}]
  /\ result \in [Connecting -> {-1, 0}]
  /\ stuck \in [Connecting -> BOOLEAN]
=============================================================================
