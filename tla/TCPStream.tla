------------------------------ MODULE TCPStream ------------------------------
(***************************************************************************)
(* TCPStream (tcpsockets/TCPStream.cpp) as an owner of a descriptor.  What *)
(* send and receive do is modelled in SocketStreams.  A stream without a  *)
(* descriptor stands for one that was closed or deleted, or not yet made.  *)
(***************************************************************************)
EXTENDS Descriptors

CONSTANT Streams  \* bound: the stream objects that can exist at a time

VARIABLE m_sd  \* m_sd[s]: the descriptor, or -1

StreamInit == m_sd = [s \in Streams |-> -1]

(* TCPStream(sd, ...) *)
Construct(s, sd) ==
  /\ m_sd[s] = -1
  /\ m_sd' = [m_sd EXCEPT ![s] = sd]

(* close(), which the destructor calls as well *)
Close(s) ==
  /\ m_sd[s] >= 0
  /\ Closes(m_sd[s])
  /\ m_sd' = [m_sd EXCEPT ![s] = -1]

(* setBlocking(enabled); either fcntl may fail, and nothing changes then *)
SetBlocking(s, enabled) ==
  /\ m_sd[s] >= 0
  /\ nonblock' = IF enabled THEN nonblock \ {m_sd[s]} ELSE nonblock \cup {m_sd[s]}
  /\ UNCHANGED <<fds, bound, linked, m_sd>>
=============================================================================
