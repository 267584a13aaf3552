----------------------------- MODULE Descriptors -----------------------------
(***************************************************************************)
(* The process's table of file descriptors, which all socket classes share *)
(* and which they know by plain integers.  An entry is what the open file  *)
(* is: one that was there before ("stdin"), /dev/null, or a socket of the  *)
(* class that made it.  An open takes the lowest free number, so that a    *)
(* number that was closed is soon somebody else's.                         *)
(***************************************************************************)
EXTENDS Integers, FiniteSetsExt

CONSTANT MaxFd  \* bound: the table has the entries 0 .. MaxFd

ASSUME DescriptorsAssumption == MaxFd \in Nat

VARIABLES
  fds,       \* fds[n]: what is open as n, "closed" if nothing is
  bound,     \* the descriptors of sockets with an address (bind)
  linked,    \* the descriptors of sockets that are connected
  nonblock   \* the descriptors with O_NONBLOCK

tableVars == <<fds, bound, linked, nonblock>>

Fd == 0 .. MaxFd
Free == {n \in Fd : fds[n] = "closed"}
Lowest == Min(Free)

(* a process may begin without a standard input *)
TableInit ==
  /\ fds \in {[n \in Fd |-> IF n = 0 THEN f ELSE "closed"] : f \in {"stdin", "closed"}}
  /\ bound = {}
  /\ linked = {}
  /\ nonblock = {}

(* what socket, open and accept do when the table has room *)
Opens(kind) ==
  /\ Free # {}
  /\ fds' = [fds EXCEPT ![Lowest] = kind]

(* close(n), which fails without effect when nothing is open as n *)
Closes(n) ==
  /\ fds' = [m \in Fd |-> IF m = n THEN "closed" ELSE fds[m]]
  /\ bound' = bound \ {n}
  /\ linked' = linked \ {n}
  /\ nonblock' = nonblock \ {n}

TableTypeOK ==
  /\ fds \in [Fd -> {"closed", "stdin", "null", "acceptor", "stream", "udp"}]
  /\ bound \cup linked \cup nonblock \subseteq Fd \ Free
=============================================================================
