------------------------------- MODULE Sockets -------------------------------
(***************************************************************************)
(* The socket classes over one table of descriptors: acceptors with their  *)
(* owner and server threads, threads that connect, the streams both make,  *)
(* and UDP clients.                                                        *)
(***************************************************************************)
EXTENDS TCPAcceptor, TCPConnector, UDPClient, FiniteSets

vars == <<tableVars, m_sd, acceptorVars, connectorVars, udpVars>>

Init == TableInit /\ StreamInit /\ AcceptorInit /\ ConnectorInit /\ UdpInit

StreamStep(s) == Close(s) \/ \E enabled \in BOOLEAN : SetBlocking(s, enabled)

Next ==
  \/ \E a \in Acceptors : Acceptor(a) /\ UNCHANGED <<connectorVars, udpVars>>
  \/ \E c \in Connecting : Connector(c) /\ UNCHANGED <<acceptorVars, udpVars>>
  \/ \E s \in Streams : StreamStep(s) /\ UNCHANGED <<acceptorVars, connectorVars, udpVars>>
  \/ \E u \in Udps : Udp(u) /\ UNCHANGED <<m_sd, acceptorVars, connectorVars>>

Spec == Init /\ [][Next]_vars

(* A shutdown that was begun goes on, and an accept whose socket is gone   *)
(* returns.  Nobody has to connect.                                        *)
Fairness ==
  \A a \in Acceptors :
    /\ WF_vars(OwnerGoesOn(a) /\ UNCHANGED <<connectorVars, udpVars>>)
    /\ WF_vars(ServerGoesOn(a) /\ UNCHANGED <<connectorVars, udpVars>>)

FairSpec == Spec /\ Fairness

-----------------------------------------------------------------------------
(* Who relies on a descriptor: each variable of these classes that may     *)
(* hold one its code would close or use, with what it takes it for.        *)
Holders ==
  ({"m_lsd"} \X {a \in Acceptors : owning[a] # "gone"})
  \cup ({"nullfd", "conn"} \X Acceptors)
  \cup ({"m_sd"} \X Streams) \cup ({"sd"} \X Connecting) \cup ({"u_lsd"} \X Udps)

Held(h) ==
  CASE h[1] = "m_lsd"  -> a_lsd[h[2]]
    [] h[1] = "nullfd" -> nullfd[h[2]]
    [] h[1] = "conn"   -> conn[h[2]]
    [] h[1] = "m_sd"   -> m_sd[h[2]]
    [] h[1] = "sd"     -> sd[h[2]]
    [] h[1] = "u_lsd"  -> u_lsd[h[2]]

Kinds(h) ==
  CASE h[1] = "m_lsd"  -> {"acceptor", "null"}
    [] h[1] = "nullfd" -> {"null"}
    [] h[1] = "u_lsd"  -> {"udp"}
    [] OTHER           -> {"stream"}

TypeOK ==
  /\ TableTypeOK
  /\ m_sd \in [Streams -> Fd \cup {-1}]
  /\ AcceptorTypeOK
  /\ ConnectorTypeOK
  /\ UdpTypeOK

(* No descriptor but 0 has two holders, and each is what its holder takes  *)
(* it for: whatever calls come in whatever order, no class closes,         *)
(* replaces or uses the socket of another.  (UDPClient and an acceptor     *)
(* that was not started write 0 for "no socket".)                          *)
OneHolder ==
  /\ TypeOK
  /\ \A h, k \in Holders : Held(h) > 0 /\ Held(h) = Held(k) => h = k
  /\ \A h \in Holders : Held(h) > 0 => fds[Held(h)] \in Kinds(h)

(* the calls of start that have failed *)
FailedCalls == {call \in Acceptors \X (1 .. MaxFailed) : call[2] <= failed[call[1]]}

(* What is open without a holder was lost in one of two ways: by a start   *)
(* of an acceptor after one that failed, or by a class that takes its      *)
(* socket for none because it got the number 0.                            *)
NoLeak ==
  LET lost == {n \in Fd : /\ fds[n] \notin {"closed", "stdin"}
                          /\ \A h \in Holders : Held(h) # n}
  IN  /\ \A n \in lost : n # 0 => fds[n] \in {"acceptor", "null"}
      /\ Cardinality(lost \ {0}) <= Cardinality(FailedCalls)

(* A stream is never made of a socket that is not connected, whatever      *)
(* select and SO_ERROR say and whenever shutdown comes, and connect hands  *)
(* it out in blocking mode unless the system refused that.  A UDPClient    *)
(* whose start returned 0 has an address, unless an earlier start of it    *)
(* has failed half-way.                                                    *)
SocketsWork ==
  /\ \A s \in Streams : m_sd[s] > 0 => m_sd[s] \in linked
  /\ \A c \in Connecting :
       at[c] = "finish" /\ result[c] = 0 /\ sd[c] > 0 =>
         sd[c] \in linked /\ (sd[c] \in nonblock => stuck[c])
  /\ \A u \in Udps : ready[u] /\ u_lsd[u] > 0 => u_lsd[u] \in bound \/ halfway[u]

(* Standard input is lost to nobody but an acceptor that is shut down      *)
(* before it listens, whose m_lsd is still 0: the classes that write 0 for *)
(* "no socket" never close or replace what has that number, whatever calls *)
(* are made on objects without a socket.                                   *)
StdinKept ==
  [][fds[0] = "stdin" /\ fds'[0] # "stdin" =>
       \E a \in Acceptors : owning[a] = "dup2" /\ a_lsd[a] = 0 /\ ~m_listening[a]]_vars

(* An accept that is blocked when shutdown comes returns: the owner may    *)
(* join its server thread, whatever else fails on the way.                 *)
ShutdownEndsAccept ==
  \A a \in Acceptors : m_shutdown[a] /\ serving[a] = "accept" ~> serving[a] # "accept"
=============================================================================
