------------------------------ MODULE UDPClient ------------------------------
(***************************************************************************)
(* UDPClient (udpsockets/UDPClient.cpp).  m_lsd is 0 when there is no      *)
(* socket, so that a socket with that number is not known for one.  Each   *)
(* operation is one step: nothing it reads can be changed by others.       *)
(* send changes nothing.                                                   *)
(***************************************************************************)
EXTENDS Descriptors

CONSTANT Udps  \* the UDPClient objects

VARIABLES
  u_lsd,    \* m_lsd
  ready,    \* the last start of the socket has returned 0
  halfway   \* a start of the socket has failed after making it

udpVars == <<u_lsd, ready, halfway>>

UdpInit ==
  /\ u_lsd = [u \in Udps |-> 0]
  /\ ready = [u \in Udps |-> FALSE]
  /\ halfway = [u \in Udps |-> FALSE]

(* start with m_lsd > 0: returns 0 *)
StartAgain(u) ==
  /\ u_lsd[u] > 0
  /\ ready' = [ready EXCEPT ![u] = TRUE]
  /\ UNCHANGED <<tableVars, u_lsd, halfway>>

StartNoSocket(u) ==
  /\ u_lsd[u] <= 0
  /\ Free = {}
  /\ u_lsd' = [u_lsd EXCEPT ![u] = -1]
  /\ ready' = [ready EXCEPT ![u] = FALSE]
  /\ UNCHANGED <<tableVars, halfway>>

(* bug: success is reported before bind *)
StartUnbound(u) ==
  /\ u_lsd[u] <= 0
  /\ Opens("udp")
  /\ u_lsd' = [u_lsd EXCEPT ![u] = Lowest]
  /\ UNCHANGED <<linked, nonblock, bound>>
  /\ ready' = [ready EXCEPT ![u] = TRUE]
  /\ halfway' = [halfway EXCEPT ![u] = FALSE]

(* start with a new socket; the address or bind may fail *)
StartNew(u) ==
  /\ u_lsd[u] <= 0
  /\ Opens("udp")
  /\ u_lsd' = [u_lsd EXCEPT ![u] = Lowest]
  /\ UNCHANGED <<linked, nonblock>>
  /\ \E ok \in BOOLEAN :
       /\ bound' = IF ok THEN bound \cup {Lowest} ELSE bound
       /\ ready' = [ready EXCEPT ![u] = ok]
       /\ halfway' = [halfway EXCEPT ![u] = ~ok]

(* bug: close is called when there is no socket, too *)
ClosesAlways(u) == Closes(u_lsd[u])

(* shutdown(), for another object, or in the destructor *)
ClosesOwn(u) == IF u_lsd[u] > 0 THEN Closes(u_lsd[u]) ELSE UNCHANGED tableVars

Shutdown(u) ==
  /\ u_lsd[u] > 0
  /\ ClosesOwn(u)
  /\ u_lsd' = [u_lsd EXCEPT ![u] = 0]
  /\ ready' = [ready EXCEPT ![u] = FALSE]
  /\ halfway' = [halfway EXCEPT ![u] = FALSE]

(* what from has becomes what to has; from is left without a socket *)
Gives(from, to) ==
  /\ u_lsd' = [u_lsd EXCEPT ![to] = u_lsd[from], ![from] = 0]
  /\ ready' = [ready EXCEPT ![to] = ready[from], ![from] = FALSE]
  /\ halfway' = [halfway EXCEPT ![to] = halfway[from], ![from] = FALSE]

(* bug: the moved-from object keeps the number *)
MoveAssignCopying(from, to) ==
  /\ from # to
  /\ ClosesOwn(to)
  /\ u_lsd' = [u_lsd EXCEPT ![to] = u_lsd[from]]
  /\ ready' = [ready EXCEPT ![to] = ready[from]]
  /\ halfway' = [halfway EXCEPT ![to] = halfway[from]]

(* operator=(UDPClient&&); with an object that was just made, the move     *)
(* constructor                                                             *)
MoveAssign(from, to) ==
  /\ from # to
  /\ ClosesOwn(to)
  /\ Gives(from, to)

Udp(u) ==
  \/ StartAgain(u) \/ StartNoSocket(u) \/ StartNew(u) \/ Shutdown(u)
  \/ \E from \in Udps : MoveAssign(from, u)

UdpTypeOK ==
  /\ u_lsd \in [Udps -> Fd \cup {-1}]
  /\ ready \in [Udps -> BOOLEAN]
  /\ halfway \in [Udps -> BOOLEAN]
=============================================================================
