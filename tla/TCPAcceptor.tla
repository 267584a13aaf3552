----------------------------- MODULE TCPAcceptor -----------------------------
(***************************************************************************)
(* TCPAcceptor (tcpsockets/TCPAcceptor.cpp) on a POSIX system.  An owner   *)
(* thread calls start, shutdown and the destructor; a server thread calls  *)
(* accept, meanwhile.  m_lsd and m_listening are not atomic, so start is   *)
(* not called beside accept, and the destructor only when the server       *)
(* thread is out of accept.  shutdown and accept are cut at each call that *)
(* touches the table or reads m_shutdown.                                  *)
(***************************************************************************)
EXTENDS TCPStream

CONSTANTS
  Acceptors,
  MaxFailed   \* bound: failing calls of start, per acceptor

ASSUME AcceptorAssumption == IsFiniteSet(Acceptors) /\ MaxFailed \in Nat

VARIABLES
  a_lsd,       \* m_lsd, 0 until start
  m_listening,
  m_shutdown,
  nullfd,      \* the local nullfd of shutdown, -1 outside
  conn,        \* the local sd of accept, -1 outside
  serving,     \* the server thread: "idle", "accept" or "accepted"
  owning,      \* the owner thread: "idle", the next call of shutdown, or "gone"
  dying,       \* the destructor has been called
  up,          \* the acceptors whose listening socket the system serves
  failed       \* how many calls of start have failed

acceptorVars == <<a_lsd, m_listening, m_shutdown, nullfd, conn, serving, owning,
                  dying, up, failed>>

AcceptorInit ==
  /\ a_lsd = [a \in Acceptors |-> 0]
  /\ m_listening = [a \in Acceptors |-> FALSE]
  /\ m_shutdown = [a \in Acceptors |-> FALSE]
  /\ nullfd = [a \in Acceptors |-> -1]
  /\ conn = [a \in Acceptors |-> -1]
  /\ serving = [a \in Acceptors |-> "idle"]
  /\ owning = [a \in Acceptors |-> "idle"]
  /\ dying = [a \in Acceptors |-> FALSE]
  /\ up = {}
  /\ failed = [a \in Acceptors |-> 0]

OwnerAt(a, place) == owning[a] = place
OwnerGoTo(a, place) == owning' = [owning EXCEPT ![a] = place]
ServerGoTo(a, place) == serving' = [serving EXCEPT ![a] = place]

-----------------------------------------------------------------------------
(* start; a second one after success returns 0 at once and changes nothing *)

MayStart(a) == OwnerAt(a, "idle") /\ ~m_listening[a] /\ serving[a] = "idle"

StartFailed(a) ==
  /\ failed[a] < MaxFailed
  /\ failed' = [failed EXCEPT ![a] = @ + 1]

StartWithoutSocket(a) ==
  /\ MayStart(a)
  /\ Free = {}
  /\ a_lsd' = [a_lsd EXCEPT ![a] = -1]
  /\ StartFailed(a)
  /\ UNCHANGED <<tableVars, m_sd, m_listening, m_shutdown, nullfd, conn, serving, owning,
                 dying, up>>

(* the address, bind or listen fails; after bind the socket has an address *)
StartFails(a) ==
  /\ MayStart(a)
  /\ Opens("acceptor")
  /\ bound' \in {bound, bound \cup {Lowest}}
  /\ a_lsd' = [a_lsd EXCEPT ![a] = Lowest]
  /\ StartFailed(a)
  /\ UNCHANGED <<linked, nonblock, m_sd, m_listening, m_shutdown, nullfd, conn, serving,
                 owning, dying, up>>

StartListens(a) ==
  /\ MayStart(a)
  /\ Opens("acceptor")
  /\ bound' = bound \cup {Lowest}
  /\ a_lsd' = [a_lsd EXCEPT ![a] = Lowest]
  /\ m_listening' = [m_listening EXCEPT ![a] = TRUE]
  /\ up' = up \cup {a}
  /\ UNCHANGED <<linked, nonblock, m_sd, m_shutdown, nullfd, conn, serving, owning, dying,
                 failed>>

-----------------------------------------------------------------------------
(* shutdown and the destructor *)

SetShutdown(a) ==
  /\ OwnerAt(a, "idle")
  /\ m_shutdown' = [m_shutdown EXCEPT ![a] = TRUE]
  /\ OwnerGoTo(a, "shutdown")

BeginShutdown(a) ==
  /\ SetShutdown(a)
  /\ UNCHANGED <<tableVars, m_sd, a_lsd, m_listening, nullfd, conn, serving, dying, up,
                 failed>>

(* bug: the system is not told, only the descriptor is replaced *)
SkipKernelShutdown(a) ==
  /\ OwnerAt(a, "shutdown")
  /\ OwnerGoTo(a, "open")
  /\ UNCHANGED <<tableVars, m_sd, a_lsd, m_listening, m_shutdown, nullfd, conn, serving,
                 dying, up, failed>>

(* the acceptors that lose their socket when the descriptor of a does *)
SameSocket(a) == {b \in Acceptors : a_lsd[b] = a_lsd[a]}

(* ::shutdown(m_lsd, SHUT_RDWR) ends the accept that is blocked *)
KernelShutdown(a) ==
  /\ OwnerAt(a, "shutdown")
  /\ up' = up \ SameSocket(a)
  /\ OwnerGoTo(a, "open")
  /\ UNCHANGED <<tableVars, m_sd, a_lsd, m_listening, m_shutdown, nullfd, conn, serving,
                 dying, failed>>

AfterShutdown(a) == OwnerGoTo(a, IF dying[a] THEN "close" ELSE "idle")

OpenNull(a) ==
  /\ OwnerAt(a, "open")
  /\ \/ /\ Opens("null")
        /\ nullfd' = [nullfd EXCEPT ![a] = Lowest]
        /\ OwnerGoTo(a, "dup2")
     \/ /\ UNCHANGED <<fds, nullfd>>
        /\ AfterShutdown(a)
  /\ UNCHANGED <<bound, linked, nonblock, m_sd, a_lsd, m_listening, m_shutdown, conn,
                 serving, dying, up, failed>>

(* dup2(nullfd, m_lsd): whatever m_lsd was is closed, which by itself does *)
(* not end an accept that is blocked.  It fails for -1, and does nothing   *)
(* when the two are the same.                                              *)
Dup2(a) ==
  LET n == a_lsd[a] IN
  /\ OwnerAt(a, "dup2")
  /\ IF n \in Fd /\ n # nullfd[a]
     THEN /\ fds' = [fds EXCEPT ![n] = "null"]
          /\ bound' = bound \ {n}
          /\ linked' = linked \ {n}
          /\ nonblock' = nonblock \ {n}
          /\ up' = up \ {b \in SameSocket(a) : serving[b] # "accept"}
     ELSE UNCHANGED <<tableVars, up>>
  /\ OwnerGoTo(a, "closenull")
  /\ UNCHANGED <<m_sd, a_lsd, m_listening, m_shutdown, nullfd, conn, serving, dying,
                 failed>>

CloseNull(a) ==
  /\ OwnerAt(a, "closenull")
  /\ Closes(nullfd[a])
  /\ nullfd' = [nullfd EXCEPT ![a] = -1]
  /\ AfterShutdown(a)
  /\ UNCHANGED <<m_sd, a_lsd, m_listening, m_shutdown, conn, serving, dying, up, failed>>

Destroy(a) ==
  /\ OwnerAt(a, "idle") /\ serving[a] = "idle"
  /\ dying' = [dying EXCEPT ![a] = TRUE]
  /\ IF a_lsd[a] > 0
     THEN SetShutdown(a)
     ELSE OwnerGoTo(a, "gone") /\ UNCHANGED m_shutdown
  /\ UNCHANGED <<tableVars, m_sd, a_lsd, m_listening, nullfd, conn, serving, up, failed>>

DestroyCloses(a) ==
  /\ OwnerAt(a, "close")
  /\ Closes(a_lsd[a])
  /\ OwnerGoTo(a, "gone")
  /\ UNCHANGED <<m_sd, a_lsd, m_listening, m_shutdown, nullfd, conn, serving, dying, up,
                 failed>>

-----------------------------------------------------------------------------
(* accept, in the server thread *)

(* returns null at once when not listening or shut down *)
AcceptTest(a) ==
  /\ serving[a] = "idle" /\ ~dying[a]
  /\ m_listening[a] /\ ~m_shutdown[a]
  /\ ServerGoTo(a, "accept")
  /\ UNCHANGED <<tableVars, m_sd, a_lsd, m_listening, m_shutdown, nullfd, conn, owning,
                 dying, up, failed>>

AcceptConnects(a) ==
  /\ serving[a] = "accept" /\ a \in up
  /\ Opens("stream")
  /\ linked' = linked \cup {Lowest}
  /\ conn' = [conn EXCEPT ![a] = Lowest]
  /\ ServerGoTo(a, "accepted")
  /\ UNCHANGED <<bound, nonblock, m_sd, a_lsd, m_listening, m_shutdown, nullfd, owning,
                 dying, up, failed>>

(* ::accept fails: the socket was shut down or replaced, or the table is full *)
AcceptFails(a) ==
  /\ serving[a] = "accept"
  /\ a \notin up \/ Free = {}
  /\ ServerGoTo(a, "idle")
  /\ UNCHANGED <<tableVars, m_sd, a_lsd, m_listening, m_shutdown, nullfd, conn, owning,
                 dying, up, failed>>

(* bug: a connection that came with the shutdown is dropped without close *)
AcceptReturnsLeaking(a) ==
  /\ serving[a] = "accepted"
  /\ \/ m_shutdown[a] /\ UNCHANGED <<tableVars, m_sd>>
     \/ ~m_shutdown[a] /\ (\E s \in Streams : Construct(s, conn[a])) /\ UNCHANGED tableVars
  /\ conn' = [conn EXCEPT ![a] = -1]
  /\ ServerGoTo(a, "idle")
  /\ UNCHANGED <<a_lsd, m_listening, m_shutdown, nullfd, owning, dying, up, failed>>

(* the second test of m_shutdown, and the stream *)
AcceptReturns(a) ==
  /\ serving[a] = "accepted"
  /\ \/ m_shutdown[a] /\ Closes(conn[a]) /\ UNCHANGED m_sd
     \/ ~m_shutdown[a] /\ (\E s \in Streams : Construct(s, conn[a])) /\ UNCHANGED tableVars
  /\ conn' = [conn EXCEPT ![a] = -1]
  /\ ServerGoTo(a, "idle")
  /\ UNCHANGED <<a_lsd, m_listening, m_shutdown, nullfd, owning, dying, up, failed>>

-----------------------------------------------------------------------------
Starts(a) == StartWithoutSocket(a) \/ StartFails(a) \/ StartListens(a)

(* the steps with which an operation in progress goes on *)
OwnerGoesOn(a) ==
  KernelShutdown(a) \/ OpenNull(a) \/ Dup2(a) \/ CloseNull(a) \/ DestroyCloses(a)

ServerGoesOn(a) == AcceptFails(a) \/ AcceptReturns(a)

Acceptor(a) ==
  \/ Starts(a) \/ BeginShutdown(a) \/ Destroy(a) \/ OwnerGoesOn(a)
  \/ AcceptTest(a) \/ AcceptConnects(a) \/ ServerGoesOn(a)

AcceptorTypeOK ==
  /\ a_lsd \in [Acceptors -> Fd \cup {-1}]
  /\ m_listening \in [Acceptors -> BOOLEAN]
  /\ m_shutdown \in [Acceptors -> BOOLEAN]
  /\ nullfd \in [Acceptors -> Fd \cup {-1}]
  /\ conn \in [Acceptors -> Fd \cup {-1}]
  /\ serving \in [Acceptors -> {"idle", "accept", "accepted"}]
  /\ owning \in [Acceptors -> {"idle", "shutdown", "open", "dup2", "closenull", "close",
                               "gone"}]
  /\ dying \in [Acceptors -> BOOLEAN]
  /\ up \subseteq Acceptors
  /\ failed \in [Acceptors -> 0 .. MaxFailed]
=============================================================================
