---------------------------- MODULE SocketsProofs ----------------------------
(***************************************************************************)
(* Sockets: no class closes, replaces or uses the descriptor of another,   *)
(* and none is lost but in the known ways, for any number of objects and   *)
(* any size of the table.                                                  *)
(*                                                                         *)
(* The properties speak of descriptors above 0.  They are not inductive:   *)
(* whether a set of the table has a descriptor that is not open depends on *)
(* who holds 0 as well.  A variable that says -1 for "none" may hold 0     *)
(* like any other, and its class will close it; m_lsd of an acceptor and   *)
(* of a UDPClient says 0 for "none", and their classes never close 0.      *)
(* Owns is that distinction, and Exclusive says of 0 what OneHolder says   *)
(* of the rest.  Claims strengthens the first half of NoLeak and Excused   *)
(* the second: to each descriptor that is lost, or that the next start     *)
(* would lose, belongs a call of start that failed, and to no two the same *)
(* one.  The others say what the local variables of a call in progress     *)
(* hold at each of its steps.                                              *)
(***************************************************************************)
EXTENDS Sockets, FiniteSetTheorems, WellFoundedInduction, TLAPS

(* all variables that hold a descriptor, of all objects *)
Slots ==
  ({"m_lsd", "nullfd", "conn"} \X Acceptors)
  \cup ({"m_sd"} \X Streams) \cup ({"sd"} \X Connecting) \cup ({"u_lsd"} \X Udps)

Mindful(h) == h[1] \notin {"m_lsd", "u_lsd"}
Owns(h) == Held(h) > 0 \/ (Held(h) = 0 /\ Mindful(h))

Exclusive ==
  /\ \A h, k \in Holders : Owns(h) /\ Owns(k) /\ Held(h) = Held(k) => h = k
  /\ \A h \in Holders : Owns(h) => fds[Held(h)] # "closed"
  /\ \A h \in Holders : Held(h) > 0 => fds[Held(h)] \in Kinds(h)

Claims ==
  \A n \in Fd : n > 0 /\ fds[n] \in {"stream", "udp"} => \E h \in Holders : Held(h) = n

(* the descriptors that are lost or that the next start would lose *)
Loose ==
  {n \in Fd : /\ n > 0 /\ fds[n] \in {"acceptor", "null"}
              /\ \A h \in Holders : Held(h) = n => h[1] = "m_lsd" /\ ~m_listening[h[2]]}

Excused ==
  \E f \in [Loose -> FailedCalls] : \A m, n \in Loose : f[m] = f[n] => m = n

Accepting ==
  \A a \in Acceptors :
    /\ serving[a] = "accepted" <=> conn[a] >= 0
    /\ conn[a] > 0 => conn[a] \in linked

ShuttingDown ==
  \A a \in Acceptors :
    /\ owning[a] \in {"dup2", "closenull"} <=> nullfd[a] >= 0
    /\ owning[a] = "idle" => ~dying[a]
    /\ owning[a] = "close" => dying[a]
    /\ dying[a] /\ owning[a] # "gone" => a_lsd[a] > 0

ConnectingOK(c) ==
  /\ at[c] = "idle" <=> sd[c] = -1
  /\ at[c] = "idle" => result[c] = -1 /\ ~stuck[c]
  /\ sd[c] > 0 =>
       /\ result[c] = 0 => sd[c] \in linked
       /\ at[c] = "connect" => sd[c] \notin nonblock
       /\ at[c] = "finish" /\ sd[c] \in nonblock => stuck[c]

ConnectingInv == \A c \in Connecting : ConnectingOK(c)

Streaming == \A s \in Streams : m_sd[s] > 0 => m_sd[s] \in linked

Bound == \A u \in Udps : u_lsd[u] > 0 => u_lsd[u] \in bound \/ halfway[u]

Calls == Accepting /\ ShuttingDown /\ ConnectingInv /\ Streaming /\ Bound

Inv == TypeOK /\ Exclusive /\ Claims /\ Excused /\ Calls

-----------------------------------------------------------------------------
(* the table *)

(* A number that is free is found when there is one. *)
LEMMA LowestIsFree ==
  ASSUME Free # {}
  PROVE  Lowest \in Free
<1>1. PICK R : R = OpToRel(<, Nat)
  OBVIOUS
<1>2. IsWellFoundedOn(R, Nat)
  BY <1>1, NatLessThanWellFounded
<1>3. \A m, n \in Nat : m < n => <<m, n>> \in R
  BY <1>1 DEF OpToRel
<1>4. Free \subseteq Nat
  BY DescriptorsAssumption DEF Free, Fd
<1>5. PICK x \in Free : \A y \in Free : ~ (<<y, x>> \in R)
  BY <1>2, <1>4, WFMin
<1>6. ASSUME NEW y \in Free PROVE x =< y
  <2>1. x \in Nat /\ y \in Nat /\ ~ (y < x)
    BY <1>3, <1>4, <1>5
  <2> QED BY <2>1
<1> QED BY <1>6 DEF Lowest, Min

(* the open call that finds room *)
LEMMA OpensFacts ==
  ASSUME NEW kind, Opens(kind)
  PROVE  /\ Lowest \in Fd /\ fds[Lowest] = "closed"
         /\ fds' = [fds EXCEPT ![Lowest] = kind]
  BY LowestIsFree DEF Opens, Free

(* numbers and what they are compared with *)
LEMMA FdFacts ==
  /\ Fd \subseteq Nat /\ -1 \notin Fd /\ 0 \in Fd
  /\ \A n \in Fd \cup {-1} : n \in Int /\ (n > 0 => n \in Fd) /\ (n >= 0 => n \in Fd) /\ (n = -1 \/ n >= 0)
  BY DescriptorsAssumption DEF Fd

-----------------------------------------------------------------------------
(* the variables that hold descriptors *)

(* what each holder holds *)
LEMMA HeldIs ==
  /\ \A a : Held(<<"m_lsd", a>>) = a_lsd[a] /\ Held(<<"nullfd", a>>) = nullfd[a]
            /\ Held(<<"conn", a>>) = conn[a]
  /\ \A s : Held(<<"m_sd", s>>) = m_sd[s]
  /\ \A c : Held(<<"sd", c>>) = sd[c]
  /\ \A u : Held(<<"u_lsd", u>>) = u_lsd[u]
  BY DEF Held

(* and after a step *)
LEMMA HeldIsThen ==
  /\ \A a : Held(<<"m_lsd", a>>)' = a_lsd'[a] /\ Held(<<"nullfd", a>>)' = nullfd'[a]
            /\ Held(<<"conn", a>>)' = conn'[a]
  /\ \A s : Held(<<"m_sd", s>>)' = m_sd'[s]
  /\ \A c : Held(<<"sd", c>>)' = sd'[c]
  /\ \A u : Held(<<"u_lsd", u>>)' = u_lsd'[u]
  BY DEF Held

(* Every slot is a variable of an acceptor, a stream, a call of connect or *)
(* a client.                                                               *)
LEMMA SlotCases ==
  ASSUME NEW h \in Slots
  PROVE  \/ \E a \in Acceptors : h \in {<<"m_lsd", a>>, <<"nullfd", a>>, <<"conn", a>>}
         \/ \E s \in Streams : h = <<"m_sd", s>>
         \/ \E c \in Connecting : h = <<"sd", c>>
         \/ \E u \in Udps : h = <<"u_lsd", u>>
  BY DEF Slots

(* A slot is a holder unless its acceptor is gone. *)
LEMMA HoldersAre ==
  /\ Holders = {h \in Slots : h[1] = "m_lsd" => owning[h[2]] # "gone"}
  BY DEF Holders, Slots

(* the variables that are slots *)
LEMMA SlotsAre ==
  /\ \A a \in Acceptors : {<<"m_lsd", a>>, <<"nullfd", a>>, <<"conn", a>>} \subseteq Slots
  /\ \A s \in Streams : <<"m_sd", s>> \in Slots
  /\ \A c \in Connecting : <<"sd", c>> \in Slots
  /\ \A u \in Udps : <<"u_lsd", u>> \in Slots
  BY DEF Slots

(* A slot holds a descriptor or none. *)
LEMMA HeldType ==
  ASSUME TypeOK, NEW h \in Slots
  PROVE  Held(h) \in Fd \cup {-1}
  BY SlotCases, HeldIs DEF TypeOK, AcceptorTypeOK, ConnectorTypeOK, UdpTypeOK

-----------------------------------------------------------------------------
(* what a step does to who holds what *)

Others(h0) == \A h \in Slots \ {h0} : Held(h)' = Held(h)

(* A holder that a step leaves alone owns what it did. *)
LEMMA OthersOwn ==
  ASSUME NEW h0, Others(h0)
  PROVE  \A h \in Holders : h # h0 => Held(h)' = Held(h) /\ (Owns(h)' <=> Owns(h))
<1> SUFFICES ASSUME NEW h \in Holders, h # h0
             PROVE  Held(h)' = Held(h) /\ (Owns(h)' <=> Owns(h))
  OBVIOUS
<1>1. Held(h)' = Held(h)
  BY HoldersAre DEF Others
<1> QED BY <1>1 DEF Owns, Mindful

(* who owns a descriptor, and that it is one *)
LEMMA OwnFacts ==
  ASSUME TypeOK, NEW h \in Holders
  PROVE  /\ Held(h) \in Fd \cup {-1}
         /\ Owns(h) => Held(h) \in Fd
         /\ Held(h) > 0 => Held(h) \in Fd /\ Owns(h)
  BY HeldType, HoldersAre, FdFacts DEF Owns

(* A descriptor that is opened was nobody's. *)
LEMMA Opened ==
  ASSUME TypeOK, Exclusive, Claims,
         NEW h0 \in Holders, NEW kind \in Kinds(h0), kind # "closed",
         Opens(kind), Held(h0)' = Lowest, Others(h0), Holders' = Holders,
         Held(h0) > 0 => h0[1] = "m_lsd"
  PROVE  Exclusive' /\ Claims'
<1>1. /\ Lowest \in Fd /\ fds[Lowest] = "closed" /\ fds' = [fds EXCEPT ![Lowest] = kind]
      /\ fds \in [Fd -> {"closed", "stdin", "null", "acceptor", "stream", "udp"}]
  BY OpensFacts DEF TypeOK, TableTypeOK
<1>2. \A h \in Holders : Owns(h) => Held(h) # Lowest
  BY <1>1 DEF Exclusive
<1>3. \A h \in Holders : h # h0 => Held(h)' = Held(h) /\ (Owns(h)' <=> Owns(h))
  BY OthersOwn
<1>4. ASSUME NEW h \in Holders', NEW k \in Holders', Owns(h)', Owns(k)', Held(h)' = Held(k)'
      PROVE  h = k
  BY <1>2, <1>3, <1>4 DEF Exclusive
<1>5. ASSUME NEW h \in Holders', Owns(h)'
      PROVE  fds'[Held(h)'] # "closed"
  BY <1>1, <1>2, <1>3, <1>5, OwnFacts DEF Exclusive
<1>6. ASSUME NEW h \in Holders', Held(h)' > 0
      PROVE  fds'[Held(h)'] \in Kinds(h)
  <2>1. CASE h = h0
    BY <1>1, <2>1
  <2>2. CASE h # h0
    <3>1. Held(h)' = Held(h) /\ Held(h) > 0 /\ Held(h) \in Fd /\ Owns(h)
      BY <1>3, <1>6, <2>2, OwnFacts
    <3>2. fds'[Held(h)] = fds[Held(h)]
      BY <1>1, <1>2, <3>1
    <3> QED BY <3>1, <3>2 DEF Exclusive
  <2> QED BY <2>1, <2>2
<1>7. ASSUME NEW n \in Fd, n > 0, fds'[n] \in {"stream", "udp"}
      PROVE  \E h \in Holders' : Held(h)' = n
  <2>1. CASE n = Lowest
    BY <2>1
  <2>2. CASE n # Lowest
    <3>1. fds[n] \in {"stream", "udp"}
      BY <1>1, <1>7, <2>2
    <3>2. PICK h \in Holders : Held(h) = n
      BY <1>7, <3>1 DEF Claims
    <3>3. h # h0
      <4>1. fds[n] \in Kinds(h)
        BY <1>7, <3>2 DEF Exclusive
      <4> QED BY <1>7, <3>1, <3>2, <4>1 DEF Kinds
    <3> QED BY <1>3, <3>2, <3>3
  <2> QED BY <2>1, <2>2
<1>8. Exclusive'
  BY <1>4, <1>5, <1>6 DEF Exclusive, Kinds
<1>9. Claims'
  BY <1>7 DEF Claims, Fd
<1> QED BY <1>8, <1>9

(* what close(n) does to the table *)
LEMMA ClosesFacts ==
  ASSUME TypeOK, NEW n, Closes(n)
  PROVE  /\ \A m \in Fd : fds'[m] = IF m = n THEN "closed" ELSE fds[m]
         /\ fds' \in [Fd -> {"closed", "stdin", "null", "acceptor", "stream", "udp"}]
  BY DEF Closes, TypeOK, TableTypeOK

(* A holder that closes its descriptor and forgets it. *)
LEMMA Closed ==
  ASSUME TypeOK, Exclusive, Claims,
         NEW h0 \in Holders, Owns(h0), Closes(Held(h0)), Others(h0),
         Holders' \subseteq Holders, Holders \ {h0} \subseteq Holders',
         h0 \in Holders' => ~Owns(h0)'
  PROVE  Exclusive' /\ Claims'
<1>1. \A m \in Fd : fds'[m] = IF m = Held(h0) THEN "closed" ELSE fds[m]
  BY ClosesFacts
<1>2. \A h \in Holders : h # h0 /\ Owns(h) => Held(h) # Held(h0)
  BY DEF Exclusive
<1>3. \A h \in Holders : h # h0 => Held(h)' = Held(h) /\ (Owns(h)' <=> Owns(h))
  BY OthersOwn
<1>4. ASSUME NEW h \in Holders', NEW k \in Holders', Owns(h)', Owns(k)', Held(h)' = Held(k)'
      PROVE  h = k
  BY <1>3, <1>4 DEF Exclusive
<1>5. ASSUME NEW h \in Holders', Owns(h)'
      PROVE  h # h0 /\ Owns(h) /\ Held(h)' = Held(h) /\ fds'[Held(h)] = fds[Held(h)]
  BY <1>1, <1>2, <1>3, <1>5, OwnFacts
<1>6. ASSUME NEW h \in Holders', Owns(h)'
      PROVE  fds'[Held(h)'] # "closed"
  BY <1>5, <1>6 DEF Exclusive
<1>7. ASSUME NEW h \in Holders', Held(h)' > 0
      PROVE  fds'[Held(h)'] \in Kinds(h)
  <2>1. Owns(h)'
    BY <1>7 DEF Owns
  <2> QED BY <1>5, <1>7, <2>1 DEF Exclusive
<1>8. ASSUME NEW n \in Fd, n > 0, fds'[n] \in {"stream", "udp"}
      PROVE  \E h \in Holders' : Held(h)' = n
  <2>1. n # Held(h0) /\ fds[n] \in {"stream", "udp"}
    BY <1>1, <1>8
  <2>2. PICK h \in Holders : Held(h) = n
    BY <1>8, <2>1 DEF Claims
  <2> QED BY <1>3, <2>1, <2>2
<1>9. Exclusive'
  BY <1>4, <1>6, <1>7 DEF Exclusive, Kinds
<1>10. Claims'
  BY <1>8 DEF Claims, Fd
<1> QED BY <1>9, <1>10

(* A holder that forgets what it holds, if it is not the only one to know  *)
(* of it, or nothing; the table stays.                                     *)
LEMMA Forgotten ==
  ASSUME TypeOK, Exclusive, Claims, fds' = fds,
         NEW h0 \in Holders, Others(h0),
         Holders' \subseteq Holders, Holders \ {h0} \subseteq Holders',
         Held(h0)' = Held(h0) \/ ~Owns(h0)',
         h0 \notin Holders' \/ Held(h0)' # Held(h0) => Held(h0) <= 0 \/ h0[1] = "m_lsd"
  PROVE  Exclusive' /\ Claims'
<1>1. \A h \in Holders : /\ h # h0 => Held(h)' = Held(h) /\ (Owns(h)' <=> Owns(h))
                         /\ Owns(h)' => Held(h)' = Held(h) /\ Owns(h)
  BY OthersOwn DEF Owns, Mindful
<1>2. \A h \in Holders' : Held(h)' > 0 => Owns(h)'
  BY DEF Owns
<1>3. ASSUME NEW n \in Fd, n > 0, fds'[n] \in {"stream", "udp"}
      PROVE  \E h \in Holders' : Held(h)' = n
  <2>1. PICK h \in Holders : Held(h) = n
    BY <1>3 DEF Claims
  <2>2. fds[n] \in Kinds(h)
    BY <1>3, <2>1 DEF Exclusive
  <2>3. h[1] # "m_lsd"
    BY <1>3, <2>2 DEF Kinds
  <2>4. ~ (n <= 0)
    BY <1>3, FdFacts
  <2>5. CASE h = h0
    BY <2>1, <2>3, <2>4, <2>5
  <2>6. CASE h # h0
    BY <1>1, <2>1, <2>6
  <2> QED BY <2>5, <2>6
<1>4. Exclusive'
  <2>1. ASSUME NEW h \in Holders', NEW k \in Holders', Owns(h)', Owns(k)', Held(h)' = Held(k)'
        PROVE  h = k
    BY <1>1, <2>1 DEF Exclusive
  <2>2. ASSUME NEW h \in Holders', Owns(h)'
        PROVE  fds'[Held(h)'] # "closed"
    BY <1>1, <2>2 DEF Exclusive
  <2>3. ASSUME NEW h \in Holders', Held(h)' > 0
        PROVE  fds'[Held(h)'] \in Kinds(h)
    BY <1>1, <1>2, <2>3 DEF Exclusive
  <2> QED BY <2>1, <2>2, <2>3 DEF Exclusive, Kinds
<1>5. Claims'
  BY <1>3 DEF Claims, Fd
<1> QED BY <1>4, <1>5

(* What one holder hands to another; what that one had it has closed. *)
LEMMA Moved ==
  ASSUME TypeOK, Exclusive, Claims,
         NEW h0 \in Holders, NEW h1 \in Holders, h0 # h1,
         Kinds(h0) = Kinds(h1), Mindful(h0) <=> Mindful(h1), Holders' = Holders,
         Held(h1)' = Held(h0), ~Owns(h0)',
         \A h \in Slots \ {h0, h1} : Held(h)' = Held(h),
         \/ fds' = fds /\ Held(h1) <= 0
         \/ Closes(Held(h1)) /\ Held(h1) > 0
  PROVE  Exclusive' /\ Claims'
<1> DEFINE src(h) == IF h = h1 THEN h0 ELSE h
<1>1. \A h \in Holders : h \notin {h0, h1} => Held(h)' = Held(h) /\ (Owns(h)' <=> Owns(h))
  BY HoldersAre DEF Owns, Mindful
<1>2. Owns(h1)' <=> Owns(h0)
  BY DEF Owns, Mindful
<1>3. \A m \in Fd : m # Held(h1) \/ ~ (Held(h1) > 0) => fds'[m] = fds[m]
  BY ClosesFacts
<1>4. ASSUME NEW h \in Holders, Owns(h)'
      PROVE  /\ h # h0 /\ src(h) \in Holders /\ src(h) # h1
             /\ Owns(src(h)) /\ Held(h)' = Held(src(h)) /\ Kinds(src(h)) = Kinds(h)
  BY <1>1, <1>2, <1>4
<1>5. ASSUME NEW h \in Holders, Owns(h)'
      PROVE  fds'[Held(h)'] = fds[Held(h)']
  <2>1. Held(src(h)) \in Fd /\ (Held(h1) > 0 => Owns(h1))
    BY <1>4, <1>5, OwnFacts
  <2>2. Held(h1) > 0 => Held(src(h)) # Held(h1)
    BY <1>4, <1>5, <2>1 DEF Exclusive
  <2> HIDE DEF src
  <2> QED BY <1>3, <1>4, <1>5, <2>1, <2>2
<1> HIDE DEF src
<1>6. Exclusive'
  <2>1. ASSUME NEW h \in Holders', NEW k \in Holders', Owns(h)', Owns(k)', Held(h)' = Held(k)'
        PROVE  h = k
    <3>1. src(h) = src(k)
      BY <1>4, <2>1 DEF Exclusive
    <3> QED BY <1>4, <2>1, <3>1 DEF src
  <2>2. ASSUME NEW h \in Holders', Owns(h)'
        PROVE  fds'[Held(h)'] # "closed"
    BY <1>4, <1>5, <2>2 DEF Exclusive
  <2>3. ASSUME NEW h \in Holders', Held(h)' > 0
        PROVE  fds'[Held(h)'] \in Kinds(h)
    <3>1. Owns(h)'
      BY <2>3 DEF Owns
    <3> QED BY <1>4, <1>5, <2>3, <3>1 DEF Exclusive
  <2> QED BY <2>1, <2>2, <2>3 DEF Exclusive, Kinds
<1>7. ASSUME NEW n \in Fd, n > 0, fds'[n] \in {"stream", "udp"}
      PROVE  \E h \in Holders' : Held(h)' = n
  <2>1. fds[n] \in {"stream", "udp"} /\ (Held(h1) > 0 => n # Held(h1))
    <3>1. CASE fds' = fds /\ Held(h1) <= 0
      BY <1>7, <3>1, OwnFacts, FdFacts
    <3>2. CASE Closes(Held(h1)) /\ Held(h1) > 0
      BY <1>7, <3>2, ClosesFacts
    <3> QED BY <3>1, <3>2
  <2>2. PICK h \in Holders : Held(h) = n
    BY <1>7, <2>1 DEF Claims
  <2>3. h # h1
    BY <1>7, <2>1, <2>2, FdFacts
  <2>4. CASE h = h0
    BY <2>2, <2>4
  <2>5. CASE h # h0
    BY <1>1, <2>2, <2>3, <2>5
  <2> QED BY <2>4, <2>5
<1>8. Claims'
  BY <1>7 DEF Claims, Fd
<1> QED BY <1>6, <1>8

(* An acceptor's descriptor that is replaced by /dev/null. *)
LEMMA Replaced ==
  ASSUME TypeOK, Exclusive, Claims,
         NEW h0 \in Holders, h0[1] = "m_lsd", Held(h0) \in Fd,
         fds' = [fds EXCEPT ![Held(h0)] = "null"],
         Holders' = Holders, \A h \in Slots : Held(h)' = Held(h)
  PROVE  Exclusive' /\ Claims'
<1>1. \A h \in Holders : Held(h)' = Held(h) /\ (Owns(h)' <=> Owns(h))
  BY HoldersAre DEF Owns, Mindful
<1>2. /\ fds \in [Fd -> {"closed", "stdin", "null", "acceptor", "stream", "udp"}]
      /\ \A m \in Fd : fds'[m] = IF m = Held(h0) THEN "null" ELSE fds[m]
  BY DEF TypeOK, TableTypeOK
<1>3. \A h \in Holders : Held(h) > 0 /\ Held(h) = Held(h0) => h = h0
  BY OwnFacts DEF Exclusive
<1>4. "null" \in Kinds(h0)
  BY DEF Kinds
<1>5. Exclusive'
  <2>1. ASSUME NEW h \in Holders', NEW k \in Holders', Owns(h)', Owns(k)', Held(h)' = Held(k)'
        PROVE  h = k
    BY <1>1, <2>1 DEF Exclusive
  <2>2. ASSUME NEW h \in Holders', Owns(h)'
        PROVE  fds'[Held(h)'] # "closed"
    BY <1>1, <1>2, <2>2, OwnFacts DEF Exclusive
  <2>3. ASSUME NEW h \in Holders', Held(h)' > 0
        PROVE  fds'[Held(h)'] \in Kinds(h)
    BY <1>1, <1>2, <1>3, <1>4, <2>3, OwnFacts DEF Exclusive
  <2> QED BY <2>1, <2>2, <2>3 DEF Exclusive, Kinds
<1>6. ASSUME NEW n \in Fd, n > 0, fds'[n] \in {"stream", "udp"}
      PROVE  \E h \in Holders' : Held(h)' = n
  BY <1>1, <1>2, <1>6 DEF Claims
<1>7. Claims'
  BY <1>6 DEF Claims, Fd
<1> QED BY <1>5, <1>7

-----------------------------------------------------------------------------
(* what a step does to the table and to the others' descriptors in it *)

Undisturbed(h) ==
  Held(h) > 0 => /\ Held(h) \in linked => Held(h) \in linked'
                 /\ Held(h) \in bound => Held(h) \in bound'
                 /\ Held(h) \in nonblock' => Held(h) \in nonblock

(* The table after an open, which may give the new entry an address or a   *)
(* peer.                                                                   *)
LEMMA TableAfterOpen ==
  ASSUME TypeOK, NEW kind \in {"null", "acceptor", "stream", "udp"}, Opens(kind),
         bound' \subseteq bound \cup {Lowest}, linked' \subseteq linked \cup {Lowest},
         nonblock' \subseteq nonblock
  PROVE  TableTypeOK'
<1>1. /\ Lowest \in Fd /\ fds[Lowest] = "closed" /\ fds' = [fds EXCEPT ![Lowest] = kind]
      /\ fds \in [Fd -> {"closed", "stdin", "null", "acceptor", "stream", "udp"}]
  BY OpensFacts DEF TypeOK, TableTypeOK
<1>2. fds' \in [Fd -> {"closed", "stdin", "null", "acceptor", "stream", "udp"}]
  BY <1>1
<1>3. \A n \in bound \cup linked \cup nonblock : n \in Fd /\ fds[n] # "closed"
  BY DEF TypeOK, TableTypeOK, Free
<1>4. \A n \in bound' \cup linked' \cup nonblock' : n \in Fd /\ fds'[n] # "closed"
  BY <1>1, <1>3
<1> QED BY <1>2, <1>4 DEF TableTypeOK, Fd, Free

(* the table after a close *)
LEMMA TableAfterClose ==
  ASSUME TypeOK, NEW n, Closes(n)
  PROVE  TableTypeOK'
<1>1. \A m \in bound \cup linked \cup nonblock : m \in Fd /\ fds[m] # "closed"
  BY DEF TypeOK, TableTypeOK, Free
<1>2. \A m \in bound' \cup linked' \cup nonblock' : m \in Fd /\ fds'[m] # "closed"
  BY <1>1, ClosesFacts DEF Closes
<1> QED BY <1>2, ClosesFacts DEF TableTypeOK, Fd, Free

(* the table after bind, connect or fcntl on an open descriptor *)
LEMMA TableAfterMark ==
  ASSUME TypeOK, NEW n \in Fd, fds[n] # "closed", fds' = fds,
         bound' \subseteq bound \cup {n}, linked' \subseteq linked \cup {n},
         nonblock' \subseteq nonblock \cup {n}
  PROVE  TableTypeOK'
<1>1. \A m \in bound \cup linked \cup nonblock : m \in Fd /\ fds[m] # "closed"
  BY DEF TypeOK, TableTypeOK, Free
<1>2. \A m \in bound' \cup linked' \cup nonblock' : m \in Fd /\ fds'[m] # "closed"
  BY <1>1
<1> QED BY <1>2 DEF TypeOK, TableTypeOK, Fd, Free

(* the table of a step that does not touch it *)
LEMMA TableStays ==
  ASSUME TypeOK, UNCHANGED tableVars
  PROVE  TableTypeOK'
  BY DEF TypeOK, TableTypeOK, tableVars, Fd, Free

(* Only its holder's descriptor is closed. *)
LEMMA CloseDisturbsNone ==
  ASSUME TypeOK, Exclusive, NEW h0 \in Holders, Owns(h0), Closes(Held(h0))
  PROVE  \A h \in Holders \ {h0} : Undisturbed(h)
<1> SUFFICES ASSUME NEW h \in Holders, h # h0, Held(h) > 0
             PROVE  Undisturbed(h)
  BY DEF Undisturbed
<1>1. Held(h) # Held(h0)
  BY DEF Exclusive, Owns
<1> QED BY <1>1 DEF Undisturbed, Closes

-----------------------------------------------------------------------------
(* Excused *)

(* With fewer loose descriptors and no fewer failed calls, the excuses     *)
(* suffice.                                                                *)
LEMMA StillExcused ==
  ASSUME Excused, Loose' \subseteq Loose, FailedCalls \subseteq FailedCalls'
  PROVE  Excused'
<1>1. PICK f \in [Loose -> FailedCalls] : \A m, n \in Loose : f[m] = f[n] => m = n
  BY DEF Excused
<1> DEFINE g == [n \in Loose' |-> f[n]]
<1>2. g \in [Loose' -> FailedCalls'] /\ \A m, n \in Loose' : g[m] = g[n] => m = n
  BY <1>1
<1> HIDE DEF g
<1> QED BY <1>2 DEF Excused

(* A call that has just failed excuses one descriptor more. *)
LEMMA OneMoreExcused ==
  ASSUME Excused, NEW x, Loose' \subseteq Loose \cup {x}, FailedCalls \subseteq FailedCalls',
         NEW call \in FailedCalls', call \notin FailedCalls
  PROVE  Excused'
<1>1. PICK f \in [Loose -> FailedCalls] : \A m, n \in Loose : f[m] = f[n] => m = n
  BY DEF Excused
<1> DEFINE g == [n \in Loose' |-> IF n = x THEN call ELSE f[n]]
<1>2. g \in [Loose' -> FailedCalls']
  BY <1>1
<1>3. ASSUME NEW m \in Loose', NEW n \in Loose', g[m] = g[n]
      PROVE  m = n
  BY <1>1, <1>3
<1> HIDE DEF g
<1> QED BY <1>2, <1>3 DEF Excused

(* An open makes at most its own descriptor loose, and that only in a      *)
(* start of an acceptor that does not come to listen.                      *)
LEMMA LooseAfterOpen ==
  ASSUME TypeOK, Exclusive, NEW h0 \in Holders, NEW kind, Opens(kind),
         Held(h0)' = Lowest, Others(h0), Holders' = Holders,
         Held(h0) > 0 => h0[1] = "m_lsd" /\ ~m_listening[h0[2]],
         \A h \in Holders \ {h0} : h[1] = "m_lsd" => m_listening'[h[2]] = m_listening[h[2]]
  PROVE  /\ Loose' \subseteq Loose \cup {Lowest}
         /\ h0[1] # "m_lsd" \/ m_listening'[h0[2]] => Loose' \subseteq Loose
<1>1. /\ Lowest \in Fd /\ fds' = [fds EXCEPT ![Lowest] = kind]
      /\ fds \in [Fd -> {"closed", "stdin", "null", "acceptor", "stream", "udp"}]
  BY OpensFacts DEF TypeOK, TableTypeOK
<1>2. ASSUME NEW n \in Loose', n # Lowest
      PROVE  n \in Loose
  <2>1. n \in Fd /\ n > 0 /\ fds[n] \in {"acceptor", "null"}
    BY <1>1, <1>2 DEF Loose, Fd
  <2>2. ASSUME NEW h \in Holders, Held(h) = n
        PROVE  h[1] = "m_lsd" /\ ~m_listening[h[2]]
    <3>1. CASE h = h0
      BY <2>1, <2>2, <3>1
    <3>2. CASE h # h0
      <4>1. Held(h)' = n
        BY <2>2, <3>2, HoldersAre DEF Others
      <4>2. h[1] = "m_lsd" /\ ~m_listening'[h[2]]
        BY <1>2, <4>1 DEF Loose
      <4> QED BY <3>2, <4>2
    <3> QED BY <3>1, <3>2
  <2> QED BY <2>1, <2>2 DEF Loose
<1>3. Lowest \in Loose' => h0[1] = "m_lsd" /\ ~m_listening'[h0[2]]
  BY DEF Loose
<1> QED BY <1>2, <1>3

(* A close makes none loose. *)
LEMMA LooseAfterClose ==
  ASSUME TypeOK, NEW h0 \in Holders, Closes(Held(h0)), Others(h0),
         Holders \ {h0} \subseteq Holders', m_listening' = m_listening
  PROVE  Loose' \subseteq Loose
<1> SUFFICES ASSUME NEW n \in Loose'
             PROVE  n \in Loose
  OBVIOUS
<1>1. n \in Fd /\ n > 0 /\ fds'[n] \in {"acceptor", "null"}
  BY DEF Loose, Fd
<1>2. n # Held(h0) /\ fds[n] = fds'[n]
  BY <1>1, ClosesFacts
<1>3. ASSUME NEW h \in Holders, Held(h) = n
      PROVE  h[1] = "m_lsd" /\ ~m_listening[h[2]]
  <2>1. h \in Holders' /\ Held(h)' = n
    BY <1>2, <1>3, HoldersAre DEF Others
  <2> QED BY <2>1 DEF Loose
<1> QED BY <1>1, <1>2, <1>3 DEF Loose

(* Nor does an acceptor that does not listen when it forgets its own,      *)
(* which was loose already.                                                *)
LEMMA LooseAfterForgetting ==
  ASSUME NEW h0 \in Holders, fds' = fds, Others(h0),
         Holders \ {h0} \subseteq Holders', m_listening' = m_listening,
         h0 \notin Holders' \/ Held(h0)' # Held(h0) =>
           Held(h0) <= 0 \/ (h0[1] = "m_lsd" /\ ~m_listening[h0[2]])
  PROVE  Loose' \subseteq Loose
<1> SUFFICES ASSUME NEW n \in Loose'
             PROVE  n \in Loose
  OBVIOUS
<1>1. n \in Fd /\ n > 0 /\ ~ (n <= 0) /\ fds[n] \in {"acceptor", "null"}
  BY FdFacts DEF Loose, Fd
<1>2. ASSUME NEW h \in Holders, Held(h) = n
      PROVE  h[1] = "m_lsd" /\ ~m_listening[h[2]]
  <2>1. CASE h \in Holders' /\ Held(h)' = n
    BY <2>1 DEF Loose
  <2>2. CASE h \notin Holders' \/ Held(h)' # n
    <3>1. h = h0
      BY <1>2, <2>2, HoldersAre DEF Others
    <3> QED BY <1>1, <1>2, <2>2, <3>1
  <2> QED BY <2>1, <2>2
<1> QED BY <1>1, <1>2 DEF Loose

(* Nor does handing one on. *)
LEMMA LooseAfterMove ==
  ASSUME TypeOK, NEW h0 \in Holders, NEW h1 \in Holders,
         h1[1] # "m_lsd", Holders' = Holders, m_listening' = m_listening,
         Held(h1)' = Held(h0), \A h \in Slots \ {h0, h1} : Held(h)' = Held(h),
         \/ fds' = fds /\ Held(h1) <= 0
         \/ Closes(Held(h1)) /\ Held(h1) > 0
  PROVE  Loose' \subseteq Loose
<1> SUFFICES ASSUME NEW n \in Loose'
             PROVE  n \in Loose
  OBVIOUS
<1>1. n \in Fd /\ n > 0 /\ ~ (n <= 0) /\ fds'[n] \in {"acceptor", "null"}
  BY FdFacts DEF Loose, Fd
<1>2. fds[n] = fds'[n] /\ n # Held(h1)
  BY <1>1, ClosesFacts
<1>3. ASSUME NEW h \in Holders, Held(h) = n
      PROVE  h[1] = "m_lsd" /\ ~m_listening[h[2]]
  <2>1. h # h0
    <3>1. Held(h1)' # n
      BY DEF Loose
    <3> QED BY <1>3, <3>1
  <2>2. Held(h)' = n
    BY <1>2, <1>3, <2>1, HoldersAre
  <2> QED BY <2>2 DEF Loose
<1> QED BY <1>1, <1>2, <1>3 DEF Loose

(* Nor does dup2 over an acceptor's own. *)
LEMMA LooseAfterReplacing ==
  ASSUME TypeOK, Exclusive, NEW h0 \in Holders, h0[1] = "m_lsd", Held(h0) \in Fd,
         fds' = [fds EXCEPT ![Held(h0)] = "null"], Holders' = Holders,
         m_listening' = m_listening, \A h \in Slots : Held(h)' = Held(h)
  PROVE  Loose' \subseteq Loose
<1> SUFFICES ASSUME NEW n \in Loose'
             PROVE  n \in Loose
  OBVIOUS
<1>1. n \in Fd /\ n > 0 /\ fds'[n] \in {"acceptor", "null"}
  BY DEF Loose, Fd
<1>2. fds[n] \in {"acceptor", "null"}
  <2>1. CASE n = Held(h0)
    BY <1>1, <2>1 DEF Exclusive, Kinds
  <2>2. CASE n # Held(h0)
    BY <1>1, <2>2 DEF TypeOK, TableTypeOK
  <2> QED BY <2>1, <2>2
<1>3. ASSUME NEW h \in Holders, Held(h) = n
      PROVE  h[1] = "m_lsd" /\ ~m_listening[h[2]]
  BY <1>3, HoldersAre DEF Loose
<1> QED BY <1>1, <1>2, <1>3 DEF Loose

-----------------------------------------------------------------------------
(* a component that takes no part in a step *)

Untouched(slots) == \A h \in slots : Undisturbed(h)

(* Others leave the calls of accept as they are. *)
LEMMA AcceptingFrame ==
  ASSUME Accepting, UNCHANGED <<serving, conn>>, Untouched({"conn"} \X Acceptors)
  PROVE  Accepting'
<1>1. \A a \in Acceptors : Undisturbed(<<"conn", a>>)
  BY DEF Untouched
<1> QED BY <1>1, HeldIs DEF Accepting, Undisturbed

(* the same for the calls of connect *)
LEMMA ConnectingFrame ==
  ASSUME ConnectingInv, UNCHANGED connectorVars, Untouched({"sd"} \X Connecting)
  PROVE  ConnectingInv'
<1>1. \A c \in Connecting : Undisturbed(<<"sd", c>>)
  BY DEF Untouched
<1>2. at' = at /\ sd' = sd /\ result' = result /\ stuck' = stuck
  BY DEF connectorVars
<1> QED BY <1>1, <1>2, HeldIs DEF ConnectingInv, ConnectingOK, Undisturbed

(* the same for the streams *)
LEMMA StreamingFrame ==
  ASSUME Streaming, m_sd' = m_sd, Untouched({"m_sd"} \X Streams)
  PROVE  Streaming'
<1>1. \A s \in Streams : Undisturbed(<<"m_sd", s>>)
  BY DEF Untouched
<1> QED BY <1>1, HeldIs DEF Streaming, Undisturbed

(* the same for the UDP clients *)
LEMMA BoundFrame ==
  ASSUME Bound, UNCHANGED <<u_lsd, halfway>>, Untouched({"u_lsd"} \X Udps)
  PROVE  Bound'
<1>1. \A u \in Udps : Undisturbed(<<"u_lsd", u>>)
  BY DEF Untouched
<1> QED BY <1>1, HeldIs DEF Bound, Undisturbed

(* the same for the owners of the acceptors, which the table does not      *)
(* enter into                                                              *)
LEMMA ShuttingDownFrame ==
  ASSUME ShuttingDown, UNCHANGED <<owning, nullfd, dying, a_lsd>>
  PROVE  ShuttingDown'
  BY DEF ShuttingDown

(* which holders a component has *)
LEMMA ComponentSlots ==
  /\ {"conn"} \X Acceptors \subseteq Holders /\ {"sd"} \X Connecting \subseteq Holders
  /\ {"m_sd"} \X Streams \subseteq Holders /\ {"u_lsd"} \X Udps \subseteq Holders
  /\ {"nullfd"} \X Acceptors \subseteq Holders
  /\ \A a \in Acceptors : owning[a] # "gone" => <<"m_lsd", a>> \in Holders
  BY DEF Holders

(* Every slot is one of a component; what is left out here stays. *)
LEMMA OthersAre ==
  ASSUME NEW H,
         \A a \in Acceptors : /\ a_lsd'[a] = a_lsd[a] \/ <<"m_lsd", a>> \in H
                              /\ nullfd'[a] = nullfd[a] \/ <<"nullfd", a>> \in H
                              /\ conn'[a] = conn[a] \/ <<"conn", a>> \in H,
         \A s \in Streams : m_sd'[s] = m_sd[s] \/ <<"m_sd", s>> \in H,
         \A c \in Connecting : sd'[c] = sd[c] \/ <<"sd", c>> \in H,
         \A u \in Udps : u_lsd'[u] = u_lsd[u] \/ <<"u_lsd", u>> \in H
  PROVE  \A h \in Slots \ H : Held(h)' = Held(h)
<1> SUFFICES ASSUME NEW h \in Slots, h \notin H
             PROVE  Held(h)' = Held(h)
  OBVIOUS
<1>1. ASSUME NEW a \in Acceptors, h \in {<<"m_lsd", a>>, <<"nullfd", a>>, <<"conn", a>>}
      PROVE  Held(h)' = Held(h)
  <2>1. CASE h = <<"m_lsd", a>>
    BY <2>1, HeldIs, HeldIsThen
  <2>2. CASE h = <<"nullfd", a>>
    BY <2>2, HeldIs, HeldIsThen
  <2>3. CASE h = <<"conn", a>>
    BY <2>3, HeldIs, HeldIsThen
  <2> QED BY <1>1, <2>1, <2>2, <2>3
<1>2. ASSUME NEW s \in Streams, h = <<"m_sd", s>>
      PROVE  Held(h)' = Held(h)
  BY <1>2, HeldIs, HeldIsThen
<1>3. ASSUME NEW c \in Connecting, h = <<"sd", c>>
      PROVE  Held(h)' = Held(h)
  BY <1>3, HeldIs, HeldIsThen
<1>4. ASSUME NEW u \in Udps, h = <<"u_lsd", u>>
      PROVE  Held(h)' = Held(h)
  BY <1>4, HeldIs, HeldIsThen
<1> QED BY <1>1, <1>2, <1>3, <1>4, SlotCases

(* the steps that leave the acceptors' life and their count alone *)
LEMMA HoldersStay ==
  ASSUME owning' = owning \/ \A a \in Acceptors : owning[a] = "gone" <=> owning'[a] = "gone"
  PROVE  Holders' = Holders
  BY DEF Holders

(* A step without a failed start leaves the excuses alone. *)
LEMMA FailedStay ==
  ASSUME failed' = failed
  PROVE  FailedCalls' = FailedCalls
  BY DEF FailedCalls

-----------------------------------------------------------------------------
(* when no step of the table is one *)

(* A step that takes no mark away and makes nothing nonblocking disturbs   *)
(* nobody.                                                                 *)
LEMMA NoneDisturbed ==
  ASSUME linked \subseteq linked', bound \subseteq bound', nonblock' \subseteq nonblock
  PROVE  \A h : Undisturbed(h)
  BY DEF Undisturbed

(* A step that disturbs one holder at most leaves the components of the    *)
(* others alone.                                                           *)
LEMMA UntouchedBut ==
  ASSUME NEW h0, \A h \in Holders \ {h0} : Undisturbed(h)
  PROVE  /\ h0[1] # "conn" => Untouched({"conn"} \X Acceptors)
         /\ h0[1] # "sd" => Untouched({"sd"} \X Connecting)
         /\ h0[1] # "m_sd" => Untouched({"m_sd"} \X Streams)
         /\ h0[1] # "u_lsd" => Untouched({"u_lsd"} \X Udps)
  BY ComponentSlots DEF Untouched

(* What a step that moves no descriptor preserves. *)
LEMMA Quiet ==
  ASSUME Exclusive, Claims, Excused, Holders' = Holders,
         UNCHANGED <<fds, m_sd, a_lsd, nullfd, conn, sd, u_lsd, m_listening, failed>>
  PROVE  Exclusive' /\ Claims' /\ Excused'
<1>1. \A h \in Slots \ {} : Held(h)' = Held(h)
  BY OthersAre
<1>2. \A h \in Holders : Held(h)' = Held(h) /\ (Owns(h)' <=> Owns(h))
  BY <1>1, HoldersAre DEF Owns, Mindful
<1>3. Exclusive'
  <2>1. ASSUME NEW h \in Holders', NEW k \in Holders', Owns(h)', Owns(k)', Held(h)' = Held(k)'
        PROVE  h = k
    BY <1>2, <2>1 DEF Exclusive
  <2>2. ASSUME NEW h \in Holders', Owns(h)'
        PROVE  fds'[Held(h)'] # "closed"
    BY <1>2, <2>2 DEF Exclusive
  <2>3. ASSUME NEW h \in Holders', Held(h)' > 0
        PROVE  fds'[Held(h)'] \in Kinds(h)
    BY <1>2, <2>3 DEF Exclusive
  <2> QED BY <2>1, <2>2, <2>3 DEF Exclusive, Kinds
<1>4. Claims'
  <2>1. ASSUME NEW n \in Fd, n > 0, fds'[n] \in {"stream", "udp"}
        PROVE  \E h \in Holders' : Held(h)' = n
    BY <1>2, <2>1 DEF Claims
  <2> QED BY <2>1 DEF Claims, Fd
<1>5. Loose' \subseteq Loose
  <2> SUFFICES ASSUME NEW n \in Loose'
               PROVE  n \in Loose
    OBVIOUS
  <2>1. n \in Fd /\ n > 0 /\ fds[n] \in {"acceptor", "null"}
    BY DEF Loose, Fd
  <2>2. ASSUME NEW h \in Holders, Held(h) = n
        PROVE  h[1] = "m_lsd" /\ ~m_listening[h[2]]
    <3>1. h \in Holders' /\ Held(h)' = n
      BY <1>2, <2>2
    <3>2. h[1] = "m_lsd" /\ ~m_listening'[h[2]]
      BY <3>1 DEF Loose
    <3> QED BY <3>2
  <2> QED BY <2>1, <2>2 DEF Loose
<1>6. FailedCalls \subseteq FailedCalls'
  BY FailedStay
<1> QED BY <1>3, <1>4, <1>5, <1>6, StillExcused

-----------------------------------------------------------------------------
(* the acceptor's start *)

(* the types of all variables, one by one *)
LEMMA Typed ==
  ASSUME TypeOK
  PROVE  /\ fds \in [Fd -> {"closed", "stdin", "null", "acceptor", "stream", "udp"}]
         /\ m_sd \in [Streams -> Fd \cup {-1}]
         /\ a_lsd \in [Acceptors -> Fd \cup {-1}]
         /\ m_listening \in [Acceptors -> BOOLEAN]
         /\ m_shutdown \in [Acceptors -> BOOLEAN]
         /\ nullfd \in [Acceptors -> Fd \cup {-1}]
         /\ conn \in [Acceptors -> Fd \cup {-1}]
         /\ serving \in [Acceptors -> {"idle", "accept", "accepted"}]
         /\ owning \in [Acceptors -> {"idle", "shutdown", "open", "dup2", "closenull",
                                      "close", "gone"}]
         /\ dying \in [Acceptors -> BOOLEAN]
         /\ failed \in [Acceptors -> 0 .. MaxFailed]
         /\ at \in [Connecting -> {"idle", "unblock", "connect", "start", "startblocking",
                                   "select", "block", "finish"}]
         /\ sd \in [Connecting -> Fd \cup {-1}]
         /\ result \in [Connecting -> {-1, 0}]
         /\ stuck \in [Connecting -> BOOLEAN]
         /\ u_lsd \in [Udps -> Fd \cup {-1}]
         /\ ready \in [Udps -> BOOLEAN]
         /\ halfway \in [Udps -> BOOLEAN]
  BY DEF TypeOK, TableTypeOK, AcceptorTypeOK, ConnectorTypeOK, UdpTypeOK

(* a call more has failed *)
LEMMA FailedMore ==
  ASSUME TypeOK, NEW a \in Acceptors, StartFailed(a)
  PROVE  /\ failed' \in [Acceptors -> 0 .. MaxFailed]
         /\ FailedCalls \subseteq FailedCalls'
         /\ <<a, failed[a] + 1>> \in FailedCalls' /\ <<a, failed[a] + 1>> \notin FailedCalls
<1>1. /\ failed \in [Acceptors -> 0 .. MaxFailed] /\ MaxFailed \in Nat
      /\ failed[a] < MaxFailed /\ failed' = [failed EXCEPT ![a] = @ + 1]
  BY Typed, AcceptorAssumption DEF StartFailed
<1>2. \A call \in Acceptors \X (1 .. MaxFailed) :
        call[2] <= failed[call[1]] => call[2] <= failed'[call[1]]
  BY <1>1
<1> QED BY <1>1, <1>2 DEF FailedCalls

(* start, when there is no room for a socket: what m_lsd held is lost, and *)
(* was loose before.                                                       *)
LEMMA StartWithoutSocketStep ==
  ASSUME Inv, NEW a \in Acceptors, StartWithoutSocket(a), UNCHANGED <<connectorVars, udpVars>>
  PROVE  Inv'
<1> DEFINE h0 == <<"m_lsd", a>>
<1>1. /\ owning[a] = "idle" /\ ~m_listening[a] /\ serving[a] = "idle"
      /\ a_lsd' = [a_lsd EXCEPT ![a] = -1] /\ StartFailed(a)
      /\ UNCHANGED <<fds, bound, linked, nonblock, m_sd, m_listening, m_shutdown, nullfd, conn,
                     serving, owning, dying, up, at, sd, result, stuck, u_lsd, ready, halfway>>
  BY DEF StartWithoutSocket, MayStart, OwnerAt, tableVars, connectorVars, udpVars
<1>2. TypeOK'
  <2>1. TableTypeOK'
    BY <1>1, TableStays DEF Inv, tableVars
  <2>2. a_lsd' \in [Acceptors -> Fd \cup {-1}]
    BY <1>1, Typed DEF Inv
  <2>3. failed' \in [Acceptors -> 0 .. MaxFailed]
    BY <1>1, FailedMore DEF Inv
  <2> QED BY <1>1, <2>1, <2>2, <2>3
        DEF Inv, TypeOK, AcceptorTypeOK, ConnectorTypeOK, UdpTypeOK, Fd
<1>3. h0 \in Holders /\ Holders' = Holders
  BY <1>1, ComponentSlots, HoldersStay
<1>4. Others(h0) /\ Held(h0)' = -1
  <2>1. \A h \in Slots \ {h0} : Held(h)' = Held(h)
    BY <1>1, Typed, OthersAre DEF Inv
  <2> QED BY <1>1, <2>1, Typed, HeldIsThen DEF Others, Inv
<1>5. Exclusive' /\ Claims'
  <2>1. ~Owns(h0)'
    BY <1>4 DEF Owns
  <2> QED BY <1>1, <1>3, <1>4, <2>1, Forgotten DEF Inv
<1>6. Excused'
  <2>1. Loose' \subseteq Loose
    BY <1>1, <1>3, <1>4, LooseAfterForgetting
  <2> QED BY <1>1, <2>1, FailedMore, StillExcused DEF Inv
<1>7. Calls'
  <2>1. \A h : Undisturbed(h)
    BY <1>1, NoneDisturbed
  <2>2. ShuttingDown'
    BY <1>1, Typed DEF Inv, Calls, ShuttingDown
  <2> QED BY <1>1, <2>1, <2>2, AcceptingFrame, ConnectingFrame, StreamingFrame, BoundFrame
        DEF Inv, Calls, Untouched, connectorVars
<1> QED BY <1>2, <1>5, <1>6, <1>7 DEF Inv

(* start with a new socket, whether it comes to listen or fails and is     *)
(* excused.                                                                *)
LEMMA StartOpensStep ==
  ASSUME Inv, NEW a \in Acceptors, StartFails(a) \/ StartListens(a),
         UNCHANGED <<connectorVars, udpVars>>
  PROVE  Inv'
<1> DEFINE h0 == <<"m_lsd", a>>
<1>1. /\ owning[a] = "idle" /\ ~m_listening[a] /\ serving[a] = "idle" /\ Opens("acceptor")
      /\ a_lsd' = [a_lsd EXCEPT ![a] = Lowest] /\ bound' \in {bound, bound \cup {Lowest}}
      /\ UNCHANGED <<linked, nonblock, m_sd, m_shutdown, nullfd, conn, serving, owning, dying,
                     at, sd, result, stuck, u_lsd, ready, halfway>>
  BY DEF StartFails, StartListens, MayStart, OwnerAt, connectorVars, udpVars
<1>2. \/ StartFailed(a) /\ m_listening' = m_listening /\ up' = up
      \/ /\ m_listening' = [m_listening EXCEPT ![a] = TRUE] /\ up' = up \cup {a}
         /\ failed' = failed
  BY DEF StartFails, StartListens
<1>3. TypeOK'
  <2>1. TableTypeOK'
    BY <1>1, TableAfterOpen DEF Inv
  <2>2. a_lsd' \in [Acceptors -> Fd \cup {-1}]
    BY <1>1, Typed, OpensFacts DEF Inv
  <2>3. failed' \in [Acceptors -> 0 .. MaxFailed]
    BY <1>2, FailedMore, Typed DEF Inv
  <2>4. m_listening' \in [Acceptors -> BOOLEAN]
    BY <1>2, Typed DEF Inv
  <2>5. up' \subseteq Acceptors
    BY <1>2 DEF Inv, TypeOK, AcceptorTypeOK
  <2> QED BY <1>1, <2>1, <2>2, <2>3, <2>4, <2>5
        DEF Inv, TypeOK, AcceptorTypeOK, ConnectorTypeOK, UdpTypeOK, Fd
<1>4. h0 \in Holders /\ Holders' = Holders
  BY <1>1, ComponentSlots, HoldersStay
<1>5. Others(h0) /\ Held(h0)' = Lowest
  <2>1. \A h \in Slots \ {h0} : Held(h)' = Held(h)
    BY <1>1, Typed, OthersAre DEF Inv
  <2> QED BY <1>1, <2>1, Typed, HeldIsThen DEF Others, Inv
<1>6. Exclusive' /\ Claims'
  <2>1. "acceptor" \in Kinds(h0)
    BY DEF Kinds
  <2> QED BY <1>1, <1>4, <1>5, <2>1, Opened DEF Inv
<1>7. Excused'
  <2>1. \A h \in Holders \ {h0} : h[1] = "m_lsd" => m_listening'[h[2]] = m_listening[h[2]]
    <3>1. \A b \in Acceptors \ {a} : m_listening'[b] = m_listening[b]
      BY <1>2, Typed DEF Inv
    <3> QED BY <3>1 DEF Holders
  <2>2. /\ Loose' \subseteq Loose \cup {Lowest}
        /\ m_listening'[a] => Loose' \subseteq Loose
    BY <1>1, <1>4, <1>5, <2>1, LooseAfterOpen DEF Inv
  <2>3. CASE StartFailed(a)
    BY <2>2, <2>3, FailedMore, OneMoreExcused DEF Inv
  <2>4. CASE m_listening' = [m_listening EXCEPT ![a] = TRUE] /\ failed' = failed
    <3>1. m_listening'[a]
      BY <2>4, Typed DEF Inv
    <3> QED BY <2>2, <2>4, <3>1, FailedStay, StillExcused DEF Inv
  <2> QED BY <1>2, <2>3, <2>4
<1>8. Calls'
  <2>1. \A h : Undisturbed(h)
    BY <1>1, NoneDisturbed
  <2>2. ShuttingDown'
    BY <1>1, Typed DEF Inv, Calls, ShuttingDown
  <2> QED BY <1>1, <2>1, <2>2, AcceptingFrame, ConnectingFrame, StreamingFrame, BoundFrame
        DEF Inv, Calls, Untouched, connectorVars
<1> QED BY <1>3, <1>6, <1>7, <1>8 DEF Inv

-----------------------------------------------------------------------------
(* the steps that change no descriptor *)

(* the steps of owner and server that only move on, tell the system, or fail *)
LEMMA AcceptorQuietStep ==
  ASSUME Inv, NEW a \in Acceptors,
         \/ BeginShutdown(a) \/ KernelShutdown(a) \/ AcceptTest(a) \/ AcceptFails(a),
         UNCHANGED <<connectorVars, udpVars>>
  PROVE  Inv'
<1>1. UNCHANGED <<fds, bound, linked, nonblock, m_sd, a_lsd, m_listening, nullfd, conn, dying,
                  failed, at, sd, result, stuck, u_lsd, ready, halfway>>
  BY DEF BeginShutdown, SetShutdown, KernelShutdown, AcceptTest, AcceptFails, tableVars,
         connectorVars, udpVars
<1>2. /\ \/ owning' = owning
         \/ owning[a] = "idle" /\ owning' = [owning EXCEPT ![a] = "shutdown"]
         \/ owning[a] = "shutdown" /\ owning' = [owning EXCEPT ![a] = "open"]
      /\ \/ serving' = serving
         \/ serving[a] = "idle" /\ serving' = [serving EXCEPT ![a] = "accept"]
         \/ serving[a] = "accept" /\ serving' = [serving EXCEPT ![a] = "idle"]
      /\ m_shutdown' \in {m_shutdown, [m_shutdown EXCEPT ![a] = TRUE]}
      /\ up' \subseteq up
  BY DEF BeginShutdown, SetShutdown, KernelShutdown, AcceptTest, AcceptFails, OwnerAt,
         OwnerGoTo, ServerGoTo
<1>3. TypeOK'
  <2>1. TableTypeOK'
    BY <1>1, TableStays DEF Inv, tableVars
  <2>2. owning' \in [Acceptors -> {"idle", "shutdown", "open", "dup2", "closenull", "close",
                                   "gone"}]
    BY <1>2, Typed DEF Inv
  <2>3. serving' \in [Acceptors -> {"idle", "accept", "accepted"}]
    BY <1>2, Typed DEF Inv
  <2>4. m_shutdown' \in [Acceptors -> BOOLEAN]
    BY <1>2, Typed DEF Inv
  <2>5. up' \subseteq Acceptors
    BY <1>2 DEF Inv, TypeOK, AcceptorTypeOK
  <2> QED BY <1>1, <2>1, <2>2, <2>3, <2>4, <2>5
        DEF Inv, TypeOK, AcceptorTypeOK, ConnectorTypeOK, UdpTypeOK, Fd
<1>4. Holders' = Holders
  <2>1. \A b \in Acceptors : owning[b] = "gone" <=> owning'[b] = "gone"
    BY <1>2, Typed DEF Inv
  <2> QED BY <2>1, HoldersStay
<1>5. Exclusive' /\ Claims' /\ Excused'
  BY <1>1, <1>4, Quiet DEF Inv
<1>6. Calls'
  <2>1. \A h : Undisturbed(h)
    BY <1>1, NoneDisturbed
  <2>2. ShuttingDown'
    BY <1>1, <1>2, Typed DEF Inv, Calls, ShuttingDown
  <2>3. Accepting'
    BY <1>1, <1>2, Typed DEF Inv, Calls, Accepting
  <2> QED BY <1>1, <2>1, <2>2, <2>3, ConnectingFrame, StreamingFrame, BoundFrame
        DEF Inv, Calls, Untouched, connectorVars
<1> QED BY <1>3, <1>5, <1>6 DEF Inv

-----------------------------------------------------------------------------
(* shutdown and the destructor *)

(* open("/dev/null"), whose descriptor the local nullfd holds until it is  *)
(* closed                                                                  *)
LEMMA OpenNullStep ==
  ASSUME Inv, NEW a \in Acceptors, OpenNull(a), UNCHANGED <<connectorVars, udpVars>>
  PROVE  Inv'
<1> DEFINE h0 == <<"nullfd", a>>
<1>1. /\ owning[a] = "open"
      /\ UNCHANGED <<bound, linked, nonblock, m_sd, a_lsd, m_listening, m_shutdown, conn,
                     serving, dying, up, failed, at, sd, result, stuck, u_lsd, ready, halfway>>
  BY DEF OpenNull, OwnerAt, connectorVars, udpVars
<1>2. \/ /\ Opens("null") /\ nullfd' = [nullfd EXCEPT ![a] = Lowest]
         /\ owning' = [owning EXCEPT ![a] = "dup2"]
      \/ /\ UNCHANGED <<fds, nullfd>>
         /\ owning' = [owning EXCEPT ![a] = IF dying[a] THEN "close" ELSE "idle"]
  BY DEF OpenNull, OwnerGoTo, AfterShutdown
<1>3. TypeOK'
  <2>1. TableTypeOK'
    <3>1. CASE Opens("null")
      BY <1>1, <3>1, TableAfterOpen DEF Inv
    <3>2. CASE fds' = fds
      BY <1>1, <3>2, TableStays DEF Inv, tableVars
    <3> QED BY <1>2, <3>1, <3>2
  <2>2. nullfd' \in [Acceptors -> Fd \cup {-1}]
    BY <1>2, Typed, OpensFacts DEF Inv
  <2>3. owning' \in [Acceptors -> {"idle", "shutdown", "open", "dup2", "closenull", "close",
                                   "gone"}]
    BY <1>2, Typed DEF Inv
  <2> QED BY <1>1, <2>1, <2>2, <2>3
        DEF Inv, TypeOK, AcceptorTypeOK, ConnectorTypeOK, UdpTypeOK, Fd
<1>4. h0 \in Holders /\ Holders' = Holders
  <2>1. \A b \in Acceptors : owning[b] = "gone" <=> owning'[b] = "gone"
    BY <1>1, <1>2, Typed DEF Inv
  <2> QED BY <2>1, HoldersStay, ComponentSlots
<1>5. Exclusive' /\ Claims' /\ Excused'
  <2>1. CASE Opens("null") /\ nullfd' = [nullfd EXCEPT ![a] = Lowest]
    <3>1. Others(h0) /\ Held(h0)' = Lowest
      <4>1. \A h \in Slots \ {h0} : Held(h)' = Held(h)
        BY <1>1, <2>1, Typed, OthersAre DEF Inv
      <4> QED BY <2>1, <4>1, Typed, HeldIsThen DEF Others, Inv
    <3>2. ~ (Held(h0) > 0)
      <4>1. ~ (nullfd[a] >= 0) /\ nullfd[a] \in Fd \cup {-1}
        BY <1>1, Typed DEF Inv, Calls, ShuttingDown
      <4> QED BY <4>1, HeldIs, FdFacts
    <3>3. "null" \in Kinds(h0) /\ h0[1] # "m_lsd"
      BY DEF Kinds
    <3>4. Exclusive' /\ Claims'
      BY <1>4, <2>1, <3>1, <3>2, <3>3, Opened DEF Inv
    <3>5. Loose' \subseteq Loose
      BY <1>1, <1>4, <2>1, <3>1, <3>2, <3>3, LooseAfterOpen DEF Inv
    <3> QED BY <1>1, <3>4, <3>5, FailedStay, StillExcused DEF Inv
  <2>2. CASE UNCHANGED <<fds, nullfd>>
    BY <1>1, <1>4, <2>2, Quiet DEF Inv
  <2> QED BY <1>2, <2>1, <2>2
<1>6. Calls'
  <2>1. \A h : Undisturbed(h)
    BY <1>1, NoneDisturbed
  <2>2. ShuttingDown'
    <3>1. Opens("null") => Lowest \in Fd /\ Lowest >= 0
      BY OpensFacts, FdFacts
    <3> QED BY <1>1, <1>2, <3>1, Typed DEF Inv, Calls, ShuttingDown
  <2> QED BY <1>1, <2>1, <2>2, AcceptingFrame, ConnectingFrame, StreamingFrame, BoundFrame
        DEF Inv, Calls, Untouched, connectorVars
<1> QED BY <1>3, <1>5, <1>6 DEF Inv

(* dup2(nullfd, m_lsd) replaces the acceptor's own descriptor. *)
LEMMA Dup2Step ==
  ASSUME Inv, NEW a \in Acceptors, Dup2(a), UNCHANGED <<connectorVars, udpVars>>
  PROVE  Inv'
<1> DEFINE h0 == <<"m_lsd", a>>
           n == a_lsd[a]
<1>1. /\ owning[a] = "dup2" /\ owning' = [owning EXCEPT ![a] = "closenull"]
      /\ UNCHANGED <<m_sd, a_lsd, m_listening, m_shutdown, nullfd, conn, serving, dying, failed,
                     at, sd, result, stuck, u_lsd, ready, halfway>>
  BY DEF Dup2, OwnerAt, OwnerGoTo, connectorVars, udpVars
<1>2. \/ /\ n \in Fd /\ fds' = [fds EXCEPT ![n] = "null"]
         /\ bound' = bound \ {n} /\ linked' = linked \ {n} /\ nonblock' = nonblock \ {n}
         /\ up' \subseteq up
      \/ UNCHANGED <<fds, bound, linked, nonblock, up>>
  BY DEF Dup2, tableVars
<1>3. h0 \in Holders /\ Held(h0) = n
  BY <1>1, ComponentSlots, HeldIs
<1>4. Holders' = Holders
  <2>1. \A b \in Acceptors : owning[b] = "gone" <=> owning'[b] = "gone"
    BY <1>1, Typed DEF Inv
  <2> QED BY <2>1, HoldersStay
<1>5. TypeOK'
  <2>1. TableTypeOK'
    <3>1. CASE /\ n \in Fd /\ fds' = [fds EXCEPT ![n] = "null"]
               /\ bound' = bound \ {n} /\ linked' = linked \ {n} /\ nonblock' = nonblock \ {n}
      <4>1. fds' \in [Fd -> {"closed", "stdin", "null", "acceptor", "stream", "udp"}]
        BY <3>1, Typed DEF Inv
      <4>2. \A m \in bound \cup linked \cup nonblock : m \in Fd /\ fds[m] # "closed"
        BY DEF Inv, TypeOK, TableTypeOK, Free
      <4>3. \A m \in bound' \cup linked' \cup nonblock' : m \in Fd /\ fds'[m] # "closed"
        BY <3>1, <4>2, Typed DEF Inv
      <4> QED BY <4>1, <4>3 DEF TableTypeOK, Fd, Free
    <3>2. CASE UNCHANGED <<fds, bound, linked, nonblock>>
      BY <3>2, TableStays DEF Inv, tableVars
    <3> QED BY <1>2, <3>1, <3>2
  <2>2. owning' \in [Acceptors -> {"idle", "shutdown", "open", "dup2", "closenull", "close",
                                   "gone"}]
    BY <1>1, Typed DEF Inv
  <2>3. up' \subseteq Acceptors
    BY <1>2 DEF Inv, TypeOK, AcceptorTypeOK
  <2> QED BY <1>1, <2>1, <2>2, <2>3
        DEF Inv, TypeOK, AcceptorTypeOK, ConnectorTypeOK, UdpTypeOK, Fd
<1>6. Exclusive' /\ Claims' /\ Excused'
  <2>1. CASE n \in Fd /\ fds' = [fds EXCEPT ![n] = "null"]
    <3>1. \A h \in Slots \ {} : Held(h)' = Held(h)
      BY <1>1, OthersAre
    <3>2. Exclusive' /\ Claims'
      BY <1>3, <1>4, <2>1, <3>1, Replaced DEF Inv
    <3>3. Loose' \subseteq Loose
      BY <1>1, <1>3, <1>4, <2>1, <3>1, LooseAfterReplacing DEF Inv
    <3> QED BY <1>1, <3>2, <3>3, FailedStay, StillExcused DEF Inv
  <2>2. CASE fds' = fds
    BY <1>1, <1>4, <2>2, Quiet DEF Inv
  <2> QED BY <1>2, <2>1, <2>2
<1>7. Calls'
  <2>1. \A h \in Holders \ {h0} : Undisturbed(h)
    <3> SUFFICES ASSUME NEW h \in Holders, h # h0, Held(h) > 0
                 PROVE  Undisturbed(h)
      BY DEF Undisturbed
    <3>1. Held(h) # n
      BY <1>3 DEF Inv, Exclusive, Owns
    <3> QED BY <1>2, <3>1 DEF Undisturbed
  <2>2. /\ Untouched({"conn"} \X Acceptors) /\ Untouched({"sd"} \X Connecting)
        /\ Untouched({"m_sd"} \X Streams) /\ Untouched({"u_lsd"} \X Udps)
    <3>1. h0[1] = "m_lsd"
      OBVIOUS
    <3> HIDE DEF h0
    <3> QED BY <2>1, <3>1, UntouchedBut
  <2>3. ShuttingDown'
    BY <1>1, Typed DEF Inv, Calls, ShuttingDown
  <2> QED BY <1>1, <2>2, <2>3, AcceptingFrame, ConnectingFrame, StreamingFrame, BoundFrame
        DEF Inv, Calls, connectorVars
<1> QED BY <1>5, <1>6, <1>7 DEF Inv

(* close(nullfd) closes the one that shutdown opened. *)
LEMMA CloseNullStep ==
  ASSUME Inv, NEW a \in Acceptors, CloseNull(a), UNCHANGED <<connectorVars, udpVars>>
  PROVE  Inv'
<1> DEFINE h0 == <<"nullfd", a>>
<1>1. /\ owning[a] = "closenull" /\ Closes(nullfd[a])
      /\ nullfd' = [nullfd EXCEPT ![a] = -1]
      /\ owning' = [owning EXCEPT ![a] = IF dying[a] THEN "close" ELSE "idle"]
      /\ UNCHANGED <<m_sd, a_lsd, m_listening, m_shutdown, conn, serving, dying, up, failed,
                     at, sd, result, stuck, u_lsd, ready, halfway>>
  BY DEF CloseNull, OwnerAt, AfterShutdown, OwnerGoTo, connectorVars, udpVars
<1>2. h0 \in Holders /\ Held(h0) = nullfd[a] /\ Owns(h0)
  <2>1. nullfd[a] >= 0 /\ nullfd[a] \in Fd \cup {-1}
    BY <1>1, Typed DEF Inv, Calls, ShuttingDown
  <2>2. nullfd[a] > 0 \/ nullfd[a] = 0
    <3>1. nullfd[a] \in Int
      BY <2>1, FdFacts
    <3> QED BY <2>1, <3>1
  <2> QED BY <2>2, ComponentSlots, HeldIs DEF Owns, Mindful
<1>3. Holders' = Holders
  <2>1. \A b \in Acceptors : owning[b] = "gone" <=> owning'[b] = "gone"
    BY <1>1, Typed DEF Inv
  <2> QED BY <2>1, HoldersStay
<1>4. TypeOK'
  <2>1. TableTypeOK'
    BY <1>1, TableAfterClose DEF Inv
  <2>2. owning' \in [Acceptors -> {"idle", "shutdown", "open", "dup2", "closenull", "close",
                                   "gone"}]
    BY <1>1, Typed DEF Inv
  <2>3. nullfd' \in [Acceptors -> Fd \cup {-1}]
    BY <1>1, Typed DEF Inv
  <2> QED BY <1>1, <2>1, <2>2, <2>3
        DEF Inv, TypeOK, AcceptorTypeOK, ConnectorTypeOK, UdpTypeOK, Fd
<1>5. Others(h0) /\ ~Owns(h0)'
  <2>1. \A h \in Slots \ {h0} : Held(h)' = Held(h)
    BY <1>1, Typed, OthersAre DEF Inv
  <2>2. Held(h0)' = -1
    BY <1>1, Typed, HeldIsThen DEF Inv
  <2> QED BY <2>1, <2>2 DEF Others, Owns
<1>6. Exclusive' /\ Claims'
  BY <1>1, <1>2, <1>3, <1>5, Closed DEF Inv
<1>7. Excused'
  <2>1. Loose' \subseteq Loose
    BY <1>1, <1>2, <1>3, <1>5, LooseAfterClose DEF Inv
  <2> QED BY <1>1, <2>1, FailedStay, StillExcused DEF Inv
<1>8. Calls'
  <2>1. /\ Untouched({"conn"} \X Acceptors) /\ Untouched({"sd"} \X Connecting)
        /\ Untouched({"m_sd"} \X Streams) /\ Untouched({"u_lsd"} \X Udps)
    <3>1. h0[1] = "nullfd"
      OBVIOUS
    <3>2. Closes(Held(h0))
      BY <1>1, <1>2
    <3> HIDE DEF h0
    <3> QED BY <1>2, <3>1, <3>2, CloseDisturbsNone, UntouchedBut DEF Inv
  <2>2. ShuttingDown'
    BY <1>1, Typed DEF Inv, Calls, ShuttingDown
  <2> QED BY <1>1, <2>1, <2>2, AcceptingFrame, ConnectingFrame, StreamingFrame, BoundFrame
        DEF Inv, Calls, connectorVars
<1> QED BY <1>4, <1>6, <1>7, <1>8 DEF Inv

(* The destructor shuts a socket down; an acceptor without one is gone at  *)
(* once.                                                                   *)
LEMMA DestroyStep ==
  ASSUME Inv, NEW a \in Acceptors, Destroy(a), UNCHANGED <<connectorVars, udpVars>>
  PROVE  Inv'
<1> DEFINE h0 == <<"m_lsd", a>>
<1>1. /\ owning[a] = "idle" /\ dying' = [dying EXCEPT ![a] = TRUE]
      /\ UNCHANGED <<fds, bound, linked, nonblock, m_sd, a_lsd, m_listening, nullfd, conn,
                     serving, up, failed, at, sd, result, stuck, u_lsd, ready, halfway>>
  BY DEF Destroy, OwnerAt, tableVars, connectorVars, udpVars
<1>2. \/ /\ a_lsd[a] > 0 /\ owning' = [owning EXCEPT ![a] = "shutdown"]
         /\ m_shutdown' = [m_shutdown EXCEPT ![a] = TRUE]
      \/ /\ ~ (a_lsd[a] > 0) /\ owning' = [owning EXCEPT ![a] = "gone"]
         /\ m_shutdown' = m_shutdown
  BY DEF Destroy, SetShutdown, OwnerGoTo
<1>3. TypeOK'
  <2>1. TableTypeOK'
    BY <1>1, TableStays DEF Inv, tableVars
  <2>2. owning' \in [Acceptors -> {"idle", "shutdown", "open", "dup2", "closenull", "close",
                                   "gone"}]
    BY <1>2, Typed DEF Inv
  <2>3. m_shutdown' \in [Acceptors -> BOOLEAN]
    BY <1>2, Typed DEF Inv
  <2>4. dying' \in [Acceptors -> BOOLEAN]
    BY <1>1, Typed DEF Inv
  <2> QED BY <1>1, <2>1, <2>2, <2>3, <2>4
        DEF Inv, TypeOK, AcceptorTypeOK, ConnectorTypeOK, UdpTypeOK, Fd
<1>4. Exclusive' /\ Claims' /\ Excused'
  <2>1. CASE owning' = [owning EXCEPT ![a] = "shutdown"]
    <3>1. \A b \in Acceptors : owning[b] = "gone" <=> owning'[b] = "gone"
      BY <1>1, <2>1, Typed DEF Inv
    <3> QED BY <1>1, <3>1, HoldersStay, Quiet DEF Inv
  <2>2. CASE ~ (a_lsd[a] > 0) /\ owning' = [owning EXCEPT ![a] = "gone"]
    <3>1. h0 \in Holders /\ Holders' = Holders \ {h0}
      <4>1. \A b \in Acceptors : owning'[b] # "gone" <=> owning[b] # "gone" /\ b # a
        BY <1>1, <2>2, Typed DEF Inv
      <4> QED BY <1>1, <4>1, ComponentSlots DEF Holders
    <3>2. Others(h0) /\ Held(h0)' = Held(h0)
      <4>1. \A h \in Slots \ {} : Held(h)' = Held(h)
        BY <1>1, OthersAre
      <4> QED BY <4>1, SlotsAre DEF Others
    <3>3. Held(h0) <= 0
      <4>1. a_lsd[a] \in Fd \cup {-1}
        BY Typed DEF Inv
      <4>2. a_lsd[a] <= 0
        <5>1. a_lsd[a] \in Int
          BY <4>1, FdFacts
        <5> QED BY <2>2, <5>1
      <4> QED BY <4>2, HeldIs
    <3>4. Exclusive' /\ Claims'
      BY <1>1, <3>1, <3>2, <3>3, Forgotten DEF Inv
    <3>5. Loose' \subseteq Loose
      BY <1>1, <3>1, <3>2, <3>3, LooseAfterForgetting
    <3> QED BY <1>1, <3>4, <3>5, FailedStay, StillExcused DEF Inv
  <2> QED BY <1>2, <2>1, <2>2
<1>5. Calls'
  <2>1. \A h : Undisturbed(h)
    BY <1>1, NoneDisturbed
  <2>2. ShuttingDown'
    BY <1>1, <1>2, Typed DEF Inv, Calls, ShuttingDown
  <2> QED BY <1>1, <2>1, <2>2, AcceptingFrame, ConnectingFrame, StreamingFrame, BoundFrame
        DEF Inv, Calls, Untouched, connectorVars
<1> QED BY <1>3, <1>4, <1>5 DEF Inv

(* It closes the acceptor's own descriptor, which dup2 has left it. *)
LEMMA DestroyClosesStep ==
  ASSUME Inv, NEW a \in Acceptors, DestroyCloses(a), UNCHANGED <<connectorVars, udpVars>>
  PROVE  Inv'
<1> DEFINE h0 == <<"m_lsd", a>>
<1>1. /\ owning[a] = "close" /\ Closes(a_lsd[a])
      /\ owning' = [owning EXCEPT ![a] = "gone"]
      /\ UNCHANGED <<m_sd, a_lsd, m_listening, m_shutdown, nullfd, conn, serving, dying, up,
                     failed, at, sd, result, stuck, u_lsd, ready, halfway>>
  BY DEF DestroyCloses, OwnerAt, OwnerGoTo, connectorVars, udpVars
<1>2. h0 \in Holders /\ Held(h0) = a_lsd[a] /\ Owns(h0)
  <2>1. a_lsd[a] > 0
    BY <1>1 DEF Inv, Calls, ShuttingDown
  <2> QED BY <1>1, <2>1, ComponentSlots, HeldIs DEF Owns
<1>3. Holders' = Holders \ {h0}
  <2>1. \A b \in Acceptors : owning'[b] # "gone" <=> owning[b] # "gone" /\ b # a
    BY <1>1, Typed DEF Inv
  <2> QED BY <2>1 DEF Holders
<1>4. TypeOK'
  <2>1. TableTypeOK'
    BY <1>1, TableAfterClose DEF Inv
  <2>2. owning' \in [Acceptors -> {"idle", "shutdown", "open", "dup2", "closenull", "close",
                                   "gone"}]
    BY <1>1, Typed DEF Inv
  <2> QED BY <1>1, <2>1, <2>2
        DEF Inv, TypeOK, AcceptorTypeOK, ConnectorTypeOK, UdpTypeOK, Fd
<1>5. Others(h0)
  <2>1. \A h \in Slots \ {} : Held(h)' = Held(h)
    BY <1>1, OthersAre
  <2> QED BY <2>1 DEF Others
<1>6. Exclusive' /\ Claims'
  BY <1>1, <1>2, <1>3, <1>5, Closed DEF Inv
<1>7. Excused'
  <2>1. Loose' \subseteq Loose
    BY <1>1, <1>2, <1>3, <1>5, LooseAfterClose DEF Inv
  <2> QED BY <1>1, <2>1, FailedStay, StillExcused DEF Inv
<1>8. Calls'
  <2>1. /\ Untouched({"conn"} \X Acceptors) /\ Untouched({"sd"} \X Connecting)
        /\ Untouched({"m_sd"} \X Streams) /\ Untouched({"u_lsd"} \X Udps)
    <3>1. h0[1] = "m_lsd"
      OBVIOUS
    <3>2. Closes(Held(h0))
      BY <1>1, <1>2
    <3> HIDE DEF h0
    <3> QED BY <1>2, <3>1, <3>2, CloseDisturbsNone, UntouchedBut DEF Inv
  <2>2. ShuttingDown'
    BY <1>1, Typed DEF Inv, Calls, ShuttingDown
  <2> QED BY <1>1, <2>1, <2>2, AcceptingFrame, ConnectingFrame, StreamingFrame, BoundFrame
        DEF Inv, Calls, connectorVars
<1> QED BY <1>4, <1>6, <1>7, <1>8 DEF Inv

-----------------------------------------------------------------------------
(* accept *)

(* ::accept returns the descriptor of a connection. *)
LEMMA AcceptConnectsStep ==
  ASSUME Inv, NEW a \in Acceptors, AcceptConnects(a), UNCHANGED <<connectorVars, udpVars>>
  PROVE  Inv'
<1> DEFINE h0 == <<"conn", a>>
<1>1. /\ serving[a] = "accept" /\ Opens("stream") /\ linked' = linked \cup {Lowest}
      /\ conn' = [conn EXCEPT ![a] = Lowest]
      /\ serving' = [serving EXCEPT ![a] = "accepted"]
      /\ UNCHANGED <<bound, nonblock, m_sd, a_lsd, m_listening, m_shutdown, nullfd, owning,
                     dying, up, failed, at, sd, result, stuck, u_lsd, ready, halfway>>
  BY DEF AcceptConnects, ServerGoTo, connectorVars, udpVars
<1>2. Lowest \in Fd /\ Lowest >= 0
  BY <1>1, OpensFacts, FdFacts
<1>3. TypeOK'
  <2>1. TableTypeOK'
    BY <1>1, TableAfterOpen DEF Inv
  <2>2. conn' \in [Acceptors -> Fd \cup {-1}]
    BY <1>1, <1>2, Typed DEF Inv
  <2>3. serving' \in [Acceptors -> {"idle", "accept", "accepted"}]
    BY <1>1, Typed DEF Inv
  <2> QED BY <1>1, <2>1, <2>2, <2>3
        DEF Inv, TypeOK, AcceptorTypeOK, ConnectorTypeOK, UdpTypeOK, Fd
<1>4. h0 \in Holders /\ Holders' = Holders
  BY <1>1, HoldersStay, ComponentSlots
<1>5. Exclusive' /\ Claims' /\ Excused'
  <2>1. Others(h0) /\ Held(h0)' = Lowest
    <3>1. \A h \in Slots \ {h0} : Held(h)' = Held(h)
      BY <1>1, Typed, OthersAre DEF Inv
    <3> QED BY <1>1, <3>1, Typed, HeldIsThen DEF Others, Inv
  <2>2. ~ (Held(h0) > 0)
    <3>1. ~ (conn[a] >= 0) /\ conn[a] \in Fd \cup {-1}
      BY <1>1, Typed DEF Inv, Calls, Accepting
    <3> QED BY <3>1, HeldIs, FdFacts
  <2>3. "stream" \in Kinds(h0) /\ h0[1] # "m_lsd"
    BY DEF Kinds
  <2>4. Exclusive' /\ Claims'
    BY <1>1, <1>4, <2>1, <2>2, <2>3, Opened DEF Inv
  <2>5. Loose' \subseteq Loose
    BY <1>1, <1>4, <2>1, <2>2, <2>3, LooseAfterOpen DEF Inv
  <2> QED BY <1>1, <2>4, <2>5, FailedStay, StillExcused DEF Inv
<1>6. Calls'
  <2>1. \A h : Undisturbed(h)
    BY <1>1, NoneDisturbed
  <2>2. Accepting'
    BY <1>1, <1>2, Typed DEF Inv, Calls, Accepting
  <2> QED BY <1>1, <2>1, <2>2, ShuttingDownFrame, ConnectingFrame, StreamingFrame, BoundFrame
        DEF Inv, Calls, Untouched, connectorVars
<1> QED BY <1>3, <1>5, <1>6 DEF Inv

(* The connection becomes a stream, or is closed when shutdown came between. *)
LEMMA AcceptReturnsStep ==
  ASSUME Inv, NEW a \in Acceptors, AcceptReturns(a), UNCHANGED <<connectorVars, udpVars>>
  PROVE  Inv'
<1> DEFINE h0 == <<"conn", a>>
<1>1. /\ serving[a] = "accepted" /\ conn' = [conn EXCEPT ![a] = -1]
      /\ serving' = [serving EXCEPT ![a] = "idle"]
      /\ UNCHANGED <<a_lsd, m_listening, m_shutdown, nullfd, owning,
                     dying, up, failed, at, sd, result, stuck, u_lsd, ready, halfway>>
  BY DEF AcceptReturns, ServerGoTo, connectorVars, udpVars
<1>2. h0 \in Holders /\ Holders' = Holders /\ Held(h0) = conn[a] /\ Owns(h0)
  <2>1. conn[a] >= 0 /\ conn[a] \in Fd \cup {-1}
    BY <1>1, Typed DEF Inv, Calls, Accepting
  <2>2. conn[a] > 0 \/ conn[a] = 0
    <3>1. conn[a] \in Int
      BY <2>1, FdFacts
    <3> QED BY <2>1, <3>1
  <2> QED BY <1>1, <2>2, ComponentSlots, HoldersStay, HeldIs DEF Owns, Mindful
<1>3. ~Owns(h0)'
  <2>1. Held(h0)' = -1
    BY <1>1, Typed, HeldIsThen DEF Inv
  <2> QED BY <2>1 DEF Owns
<1>4. conn' \in [Acceptors -> Fd \cup {-1}] /\ serving' \in [Acceptors -> {"idle", "accept", "accepted"}]
  BY <1>1, Typed DEF Inv
<1>5. CASE Closes(conn[a]) /\ m_sd' = m_sd
  <2>1. TypeOK'
    <3>1. TableTypeOK'
      BY <1>5, TableAfterClose DEF Inv
    <3> QED BY <1>1, <1>4, <1>5, <3>1
          DEF Inv, TypeOK, AcceptorTypeOK, ConnectorTypeOK, UdpTypeOK, Fd
  <2>2. Others(h0)
    <3>1. \A h \in Slots \ {h0} : Held(h)' = Held(h)
      BY <1>1, <1>5, Typed, OthersAre DEF Inv
    <3> QED BY <3>1 DEF Others
  <2>3. Exclusive' /\ Claims'
    BY <1>2, <1>3, <1>5, <2>2, Closed DEF Inv
  <2>4. Excused'
    <3>1. Loose' \subseteq Loose
      BY <1>1, <1>2, <1>5, <2>2, LooseAfterClose DEF Inv
    <3> QED BY <1>1, <3>1, FailedStay, StillExcused DEF Inv
  <2>5. Calls'
    <3>1. \A h \in Holders \ {h0} : Undisturbed(h)
      BY <1>2, <1>5, CloseDisturbsNone DEF Inv
    <3>2. /\ Untouched({"sd"} \X Connecting) /\ Untouched({"m_sd"} \X Streams)
          /\ Untouched({"u_lsd"} \X Udps)
      <4>1. h0[1] = "conn"
        OBVIOUS
      <4> HIDE DEF h0
      <4> QED BY <3>1, <4>1, UntouchedBut
    <3>3. Accepting'
      <4>1. \A b \in Acceptors \ {a} : Undisturbed(<<"conn", b>>)
        BY <3>1, ComponentSlots
      <4>2. /\ \A b \in Acceptors \ {a} : serving'[b] = serving[b] /\ conn'[b] = conn[b]
            /\ serving'[a] = "idle" /\ conn'[a] = -1
        BY <1>1, Typed DEF Inv
      <4>3. \A b \in Acceptors \ {a} : conn[b] > 0 /\ conn[b] \in linked => conn[b] \in linked'
        BY <4>1, HeldIs DEF Undisturbed
      <4> QED BY <4>2, <4>3 DEF Inv, Calls, Accepting
    <3> QED BY <1>1, <1>5, <3>2, <3>3, ShuttingDownFrame, ConnectingFrame, StreamingFrame, BoundFrame
          DEF Inv, Calls, connectorVars
  <2> QED BY <2>1, <2>3, <2>4, <2>5 DEF Inv
<1>6. CASE (\E s \in Streams : Construct(s, conn[a])) /\ UNCHANGED tableVars
  <2>1. PICK s \in Streams : m_sd[s] = -1 /\ m_sd' = [m_sd EXCEPT ![s] = conn[a]]
    BY <1>6 DEF Construct
  <2>2. UNCHANGED <<fds, bound, linked, nonblock>>
    BY <1>6 DEF tableVars
  <2> DEFINE h1 == <<"m_sd", s>>
  <2>3. TypeOK'
    <3>1. TableTypeOK'
      BY <1>6, TableStays DEF Inv
    <3>2. m_sd' \in [Streams -> Fd \cup {-1}]
      BY <2>1, Typed DEF Inv
    <3> QED BY <1>1, <1>4, <3>1, <3>2
          DEF Inv, TypeOK, AcceptorTypeOK, ConnectorTypeOK, UdpTypeOK, Fd
  <2>4. /\ h1 \in Holders /\ h0 # h1 /\ Held(h1) = -1 /\ Held(h1)' = Held(h0)
        /\ Kinds(h0) = Kinds(h1) /\ Mindful(h0) /\ Mindful(h1) /\ h1[1] # "m_lsd"
    BY <1>2, <2>1, Typed, ComponentSlots, HeldIs, HeldIsThen DEF Inv, Kinds, Mindful
  <2>5. \A h \in Slots \ {h0, h1} : Held(h)' = Held(h)
    BY <1>1, <2>1, Typed, OthersAre DEF Inv
  <2>6. Exclusive' /\ Claims'
    BY <1>2, <1>3, <2>2, <2>4, <2>5, Moved DEF Inv
  <2>7. Excused'
    <3>1. Loose' \subseteq Loose
      BY <1>1, <1>2, <2>2, <2>4, <2>5, LooseAfterMove DEF Inv
    <3> QED BY <1>1, <3>1, FailedStay, StillExcused DEF Inv
  <2>8. Calls'
    <3>1. \A h : Undisturbed(h)
      BY <2>2, NoneDisturbed
    <3>2. Accepting'
      BY <1>1, <2>2, Typed DEF Inv, Calls, Accepting
    <3>3. Streaming'
      <4>1. conn[a] > 0 => conn[a] \in linked
        BY DEF Inv, Calls, Accepting
      <4> QED BY <2>1, <2>2, <4>1, Typed DEF Inv, Calls, Streaming
    <3> QED BY <1>1, <3>1, <3>2, <3>3, ShuttingDownFrame, ConnectingFrame, BoundFrame
          DEF Inv, Calls, Untouched, connectorVars
  <2> QED BY <2>3, <2>6, <2>7, <2>8 DEF Inv
<1> QED BY <1>5, <1>6 DEF AcceptReturns

-----------------------------------------------------------------------------
(* connect *)

(* the threads other than the one that makes a step *)
LEMMA OtherConnecting ==
  ASSUME ConnectingInv, NEW c \in Connecting, ConnectingOK(c)',
         \A d \in Connecting \ {c} : /\ at'[d] = at[d] /\ sd'[d] = sd[d]
                                     /\ result'[d] = result[d] /\ stuck'[d] = stuck[d]
                                     /\ Undisturbed(<<"sd", d>>)
  PROVE  ConnectingInv'
<1>1. ASSUME NEW d \in Connecting, d # c
      PROVE  ConnectingOK(d)'
  <2>1. /\ at'[d] = at[d] /\ sd'[d] = sd[d] /\ result'[d] = result[d] /\ stuck'[d] = stuck[d]
    BY <1>1
  <2>2. sd[d] > 0 => /\ sd[d] \in linked => sd[d] \in linked'
                     /\ sd[d] \in nonblock' => sd[d] \in nonblock
    BY <1>1, HeldIs DEF Undisturbed
  <2>3. ConnectingOK(d)
    BY DEF ConnectingInv
  <2> QED BY <2>1, <2>2, <2>3 DEF ConnectingOK
<1> QED BY <1>1 DEF ConnectingInv

(* socket, with which a call of connect begins *)
LEMMA CreateSocketStep ==
  ASSUME Inv, NEW c \in Connecting, NEW timed \in BOOLEAN, CreateSocket(c, timed),
         UNCHANGED <<acceptorVars, udpVars>>
  PROVE  Inv'
<1> DEFINE h0 == <<"sd", c>>
<1>1. /\ at[c] = "idle" /\ Opens("stream") /\ sd' = [sd EXCEPT ![c] = Lowest]
      /\ at' = [at EXCEPT ![c] = IF timed THEN "unblock" ELSE "connect"]
      /\ UNCHANGED <<bound, linked, nonblock, m_sd, a_lsd, m_listening, m_shutdown, nullfd, conn,
                     serving, owning, dying, up, failed, result, stuck, u_lsd, ready, halfway>>
  BY DEF CreateSocket, GoTo, acceptorVars, udpVars
<1>2. Lowest \in Fd /\ Lowest >= 0 /\ Lowest # -1 /\ fds[Lowest] = "closed"
  BY <1>1, OpensFacts, FdFacts
<1>3. TypeOK'
  <2>1. TableTypeOK'
    BY <1>1, TableAfterOpen DEF Inv
  <2>2. sd' \in [Connecting -> Fd \cup {-1}]
    BY <1>1, <1>2, Typed DEF Inv
  <2>3. at' \in [Connecting -> {"idle", "unblock", "connect", "start", "startblocking",
                                "select", "block", "finish"}]
    BY <1>1, Typed DEF Inv
  <2> QED BY <1>1, <2>1, <2>2, <2>3
        DEF Inv, TypeOK, AcceptorTypeOK, ConnectorTypeOK, UdpTypeOK, Fd
<1>4. h0 \in Holders /\ Holders' = Holders
  BY <1>1, HoldersStay, ComponentSlots
<1>5. ConnectingOK(c)
  BY DEF Inv, Calls, ConnectingInv
<1>6. Exclusive' /\ Claims' /\ Excused'
  <2>1. Others(h0) /\ Held(h0)' = Lowest
    <3>1. \A h \in Slots \ {h0} : Held(h)' = Held(h)
      BY <1>1, Typed, OthersAre DEF Inv
    <3> QED BY <1>1, <3>1, Typed, HeldIsThen DEF Others, Inv
  <2>2. ~ (Held(h0) > 0)
    <3>1. sd[c] = -1
      BY <1>1, <1>5 DEF ConnectingOK
    <3> QED BY <3>1, HeldIs
  <2>3. "stream" \in Kinds(h0) /\ h0[1] # "m_lsd"
    BY DEF Kinds
  <2>4. Exclusive' /\ Claims'
    BY <1>1, <1>4, <2>1, <2>2, <2>3, Opened DEF Inv
  <2>5. Loose' \subseteq Loose
    BY <1>1, <1>4, <2>1, <2>2, <2>3, LooseAfterOpen DEF Inv
  <2> QED BY <1>1, <2>4, <2>5, FailedStay, StillExcused DEF Inv
<1>7. Calls'
  <2>1. \A h : Undisturbed(h)
    BY <1>1, NoneDisturbed
  <2>2. ConnectingOK(c)'
    <3>1. Lowest \notin nonblock
      BY <1>2 DEF Inv, TypeOK, TableTypeOK, Free
    <3>2. at'[c] \in {"unblock", "connect"} /\ sd'[c] = Lowest /\ result'[c] = -1
      BY <1>1, <1>5, Typed DEF Inv, ConnectingOK
    <3> QED BY <1>1, <1>2, <3>1, <3>2 DEF ConnectingOK
  <2>3. ConnectingInv'
    <3>1. \A d \in Connecting \ {c} : at'[d] = at[d] /\ sd'[d] = sd[d]
      BY <1>1, Typed DEF Inv
    <3> QED BY <1>1, <2>1, <2>2, <3>1, OtherConnecting DEF Inv, Calls
  <2> QED BY <1>1, <2>1, <2>3, ShuttingDownFrame, AcceptingFrame, StreamingFrame, BoundFrame
        DEF Inv, Calls, Untouched
<1> QED BY <1>3, <1>6, <1>7 DEF Inv

(* the descriptor of a call of connect in progress *)
LEMMA ConnectingOwns ==
  ASSUME Inv, NEW c \in Connecting, at[c] # "idle"
  PROVE  /\ <<"sd", c>> \in Holders /\ Held(<<"sd", c>>) = sd[c] /\ Owns(<<"sd", c>>)
         /\ sd[c] \in Fd /\ sd[c] \in Int /\ sd[c] # -1 /\ fds[sd[c]] # "closed"
<1>1. ConnectingOK(c)
  BY DEF Inv, Calls, ConnectingInv
<1>2. sd[c] \in Fd
  BY <1>1, Typed DEF Inv, ConnectingOK
<1>3. sd[c] \in Int /\ sd[c] # -1 /\ (sd[c] > 0 \/ sd[c] = 0)
  <2>1. sd[c] \in Nat
    BY <1>2, FdFacts
  <2> QED BY <2>1
<1>4. <<"sd", c>> \in Holders /\ Held(<<"sd", c>>) = sd[c]
  BY ComponentSlots, HeldIs
<1>5. Owns(<<"sd", c>>)
  BY <1>3, <1>4 DEF Owns, Mindful
<1>6. fds[sd[c]] # "closed"
  BY <1>4, <1>5 DEF Inv, Exclusive
<1> QED BY <1>2, <1>3, <1>4, <1>5, <1>6

(* Between socket and finish the call marks its own descriptor only. *)
LEMMA ConnectingMarks ==
  ASSUME Inv, NEW c \in Connecting, at[c] # "idle", fds' = fds, sd' = sd,
         bound' = bound, linked \subseteq linked', linked' \subseteq linked \cup {sd[c]},
         nonblock' \subseteq nonblock \cup {sd[c]}, ConnectingOK(c)',
         at' \in [Connecting -> {"idle", "unblock", "connect", "start", "startblocking",
                                 "select", "block", "finish"}],
         result' \in [Connecting -> {-1, 0}], stuck' \in [Connecting -> BOOLEAN],
         \A d \in Connecting \ {c} : /\ at'[d] = at[d] /\ result'[d] = result[d]
                                     /\ stuck'[d] = stuck[d],
         UNCHANGED <<m_sd, a_lsd, m_listening, m_shutdown, nullfd, conn, serving, owning, dying,
                     up, failed, u_lsd, ready, halfway>>
  PROVE  Inv'
<1> DEFINE h0 == <<"sd", c>>
<1>1. TypeOK'
  <2>1. TableTypeOK'
    BY ConnectingOwns, TableAfterMark DEF Inv
  <2> QED BY <2>1 DEF Inv, TypeOK, AcceptorTypeOK, ConnectorTypeOK, UdpTypeOK, Fd
<1>2. Exclusive' /\ Claims' /\ Excused'
  BY HoldersStay, Quiet DEF Inv
<1>3. \A h \in Holders \ {h0} : Undisturbed(h)
  <2> SUFFICES ASSUME NEW h \in Holders, h # h0, Held(h) > 0
               PROVE  Undisturbed(h)
    BY DEF Undisturbed
  <2>1. h0 \in Holders /\ Held(h0) = sd[c] /\ Owns(h0)
    BY ConnectingOwns
  <2>2. Owns(h)
    BY DEF Owns
  <2> HIDE DEF h0
  <2>3. Held(h) # sd[c]
    BY <2>1, <2>2 DEF Inv, Exclusive
  <2> QED BY <2>3 DEF Undisturbed
<1>4. /\ Untouched({"conn"} \X Acceptors) /\ Untouched({"m_sd"} \X Streams)
      /\ Untouched({"u_lsd"} \X Udps)
  <2>1. h0[1] = "sd"
    OBVIOUS
  <2> HIDE DEF h0
  <2> QED BY <1>3, <2>1, UntouchedBut
<1>5. ConnectingInv'
  <2>1. \A d \in Connecting \ {c} : Undisturbed(<<"sd", d>>)
    BY <1>3, ComponentSlots
  <2> QED BY <2>1, OtherConnecting DEF Inv, Calls
<1>6. Calls'
  BY <1>4, <1>5, ShuttingDownFrame, AcceptingFrame, StreamingFrame, BoundFrame DEF Inv, Calls
<1> QED BY <1>1, <1>2, <1>6 DEF Inv

(* fcntl, ::connect and select, on the descriptor of the call *)
LEMMA ConnectorMarkStep ==
  ASSUME Inv, NEW c \in Connecting, Unblock(c) \/ Connect(c) \/ Select(c) \/ Block(c),
         UNCHANGED <<acceptorVars, udpVars>>
  PROVE  Inv'
<1>1. /\ UNCHANGED <<fds, bound, m_sd, sd, a_lsd, m_listening, m_shutdown, nullfd, conn,
                     serving, owning, dying, up, failed, u_lsd, ready, halfway>>
      /\ at[c] # "idle"
  BY DEF Unblock, Connect, Select, Block, acceptorVars, udpVars
<1>2. ConnectingOK(c)
  BY DEF Inv, Calls, ConnectingInv
<1>3. CASE Unblock(c)
  <2>1. PICK ok \in BOOLEAN :
          /\ at[c] = "unblock" /\ UNCHANGED <<linked, result, stuck>>
          /\ nonblock' = IF ok THEN nonblock \cup {sd[c]} ELSE nonblock
          /\ at' = [at EXCEPT ![c] = IF ok THEN "start" ELSE "startblocking"]
    BY <1>3 DEF Unblock, GoTo
  <2>2. /\ at' \in [Connecting -> {"idle", "unblock", "connect", "start", "startblocking",
                                   "select", "block", "finish"}]
        /\ at'[c] \in {"start", "startblocking"} /\ \A d \in Connecting \ {c} : at'[d] = at[d]
    BY <2>1, Typed DEF Inv
  <2>3. ConnectingOK(c)'
    BY <1>1, <1>2, <2>1, <2>2 DEF ConnectingOK
  <2> QED BY <1>1, <2>1, <2>2, <2>3, Typed, ConnectingMarks DEF Inv
<1>4. CASE Connect(c) \/ Select(c)
  <2>1. /\ UNCHANGED <<nonblock, stuck>>
        /\ \/ linked' = linked \cup {sd[c]} /\ result' = [result EXCEPT ![c] = 0]
           \/ linked' = linked /\ result' = [result EXCEPT ![c] = -1]
           \/ linked' = linked /\ result' = result
        /\ \/ at[c] \in {"start", "startblocking", "select"}
              /\ at' \in {[at EXCEPT ![c] = "block"], [at EXCEPT ![c] = "select"]}
           \/ at[c] = "connect" /\ at' = [at EXCEPT ![c] = "finish"]
    BY <1>4 DEF Connect, Select, ConnectReturns, GoTo
  <2>2. /\ at' \in [Connecting -> {"idle", "unblock", "connect", "start", "startblocking",
                                   "select", "block", "finish"}]
        /\ at'[c] \in {"block", "select"} \/ (at[c] = "connect" /\ at'[c] = "finish")
        /\ \A d \in Connecting \ {c} : at'[d] = at[d]
    BY <2>1, Typed DEF Inv
  <2>3. /\ result' \in [Connecting -> {-1, 0}]
        /\ \A d \in Connecting \ {c} : result'[d] = result[d]
        /\ result'[c] = 0 => sd[c] \in linked' \/ result[c] = 0
    BY <2>1, Typed DEF Inv
  <2>4. linked \subseteq linked' /\ linked' \subseteq linked \cup {sd[c]}
    BY <2>1
  <2>5. ConnectingOK(c)'
    BY <1>1, <1>2, <2>1, <2>2, <2>3, <2>4 DEF ConnectingOK
  <2> QED BY <1>1, <2>1, <2>2, <2>3, <2>4, <2>5, Typed, ConnectingMarks DEF Inv
<1>5. CASE Block(c)
  <2>1. /\ UNCHANGED <<linked, result>> /\ at[c] = "block"
        /\ at' = [at EXCEPT ![c] = "finish"]
        /\ \/ nonblock' = nonblock \ {sd[c]} /\ stuck' = stuck
           \/ stuck' = [stuck EXCEPT ![c] = TRUE] /\ nonblock' = nonblock
    BY <1>5 DEF Block, GoTo
  <2>2. /\ at' \in [Connecting -> {"idle", "unblock", "connect", "start", "startblocking",
                                   "select", "block", "finish"}]
        /\ at'[c] = "finish" /\ \A d \in Connecting \ {c} : at'[d] = at[d]
    BY <2>1, Typed DEF Inv
  <2>3. /\ stuck' \in [Connecting -> BOOLEAN]
        /\ \A d \in Connecting \ {c} : stuck'[d] = stuck[d]
        /\ sd[c] \in nonblock' => stuck'[c]
    BY <2>1, Typed DEF Inv
  <2>4. nonblock' \subseteq nonblock
    BY <2>1
  <2>5. ConnectingOK(c)'
    BY <1>1, <1>2, <2>1, <2>2, <2>3 DEF ConnectingOK
  <2> QED BY <1>1, <2>1, <2>2, <2>3, <2>4, <2>5, Typed, ConnectingMarks DEF Inv
<1> QED BY <1>3, <1>4, <1>5

(* The socket becomes a stream when it is connected, or else is closed. *)
LEMMA FinishStep ==
  ASSUME Inv, NEW c \in Connecting, Finish(c), UNCHANGED <<acceptorVars, udpVars>>
  PROVE  Inv'
<1> DEFINE h0 == <<"sd", c>>
<1>1. /\ at[c] = "finish" /\ sd' = [sd EXCEPT ![c] = -1]
      /\ result' = [result EXCEPT ![c] = -1] /\ stuck' = [stuck EXCEPT ![c] = FALSE]
      /\ at' = [at EXCEPT ![c] = "idle"]
      /\ UNCHANGED <<a_lsd, m_listening, m_shutdown, nullfd, conn, serving, owning, dying, up,
                     failed, u_lsd, ready, halfway>>
  BY DEF Finish, GoTo, acceptorVars, udpVars
<1>2. h0 \in Holders /\ Holders' = Holders /\ Held(h0) = sd[c] /\ Owns(h0)
  BY <1>1, ConnectingOwns, HoldersStay
<1>3. ~Owns(h0)'
  <2>1. Held(h0)' = -1
    BY <1>1, Typed, HeldIsThen DEF Inv
  <2> QED BY <2>1 DEF Owns
<1>4. /\ at' \in [Connecting -> {"idle", "unblock", "connect", "start", "startblocking",
                                 "select", "block", "finish"}]
      /\ sd' \in [Connecting -> Fd \cup {-1}] /\ result' \in [Connecting -> {-1, 0}]
      /\ stuck' \in [Connecting -> BOOLEAN]
  <2>1. stuck' \in [Connecting -> BOOLEAN]
    BY <1>1, Typed DEF Inv
  <2> QED BY <1>1, <2>1, Typed DEF Inv
<1>5. ASSUME \A d \in Connecting \ {c} : Undisturbed(<<"sd", d>>)
      PROVE  ConnectingInv'
  <2>1. at'[c] = "idle" /\ sd'[c] = -1 /\ result'[c] = -1 /\ ~stuck'[c]
    <3>1. ~stuck'[c]
      BY <1>1, Typed DEF Inv
    <3> QED BY <1>1, <3>1, Typed DEF Inv
  <2>2. ConnectingOK(c)'
    BY <2>1 DEF ConnectingOK
  <2>3. \A d \in Connecting \ {c} : stuck'[d] = stuck[d]
    BY <1>1, Typed DEF Inv
  <2>4. \A d \in Connecting \ {c} : at'[d] = at[d] /\ sd'[d] = sd[d] /\ result'[d] = result[d]
    BY <1>1, Typed DEF Inv
  <2> QED BY <1>5, <2>2, <2>3, <2>4, OtherConnecting DEF Inv, Calls
<1>6. CASE Closes(sd[c]) /\ m_sd' = m_sd
  <2>1. TypeOK'
    <3>1. TableTypeOK'
      BY <1>6, TableAfterClose DEF Inv
    <3> QED BY <1>1, <1>4, <1>6, <3>1
          DEF Inv, TypeOK, AcceptorTypeOK, ConnectorTypeOK, UdpTypeOK, Fd
  <2>2. Others(h0)
    <3>1. \A h \in Slots \ {h0} : Held(h)' = Held(h)
      BY <1>1, <1>6, Typed, OthersAre DEF Inv
    <3> QED BY <3>1 DEF Others
  <2>3. Exclusive' /\ Claims'
    BY <1>2, <1>3, <1>6, <2>2, Closed DEF Inv
  <2>4. Excused'
    <3>1. Loose' \subseteq Loose
      BY <1>1, <1>2, <1>6, <2>2, LooseAfterClose DEF Inv
    <3> QED BY <1>1, <3>1, FailedStay, StillExcused DEF Inv
  <2>5. Calls'
    <3>1. \A h \in Holders \ {h0} : Undisturbed(h)
      BY <1>2, <1>6, CloseDisturbsNone DEF Inv
    <3>2. /\ Untouched({"conn"} \X Acceptors) /\ Untouched({"m_sd"} \X Streams)
          /\ Untouched({"u_lsd"} \X Udps)
      <4>1. h0[1] = "sd"
        OBVIOUS
      <4> HIDE DEF h0
      <4> QED BY <3>1, <4>1, UntouchedBut
    <3>3. ConnectingInv'
      <4>1. \A d \in Connecting \ {c} : Undisturbed(<<"sd", d>>)
        BY <3>1, ComponentSlots
      <4> QED BY <1>5, <4>1
    <3> QED BY <1>1, <1>6, <3>2, <3>3, ShuttingDownFrame, AcceptingFrame, StreamingFrame, BoundFrame
          DEF Inv, Calls
  <2> QED BY <2>1, <2>3, <2>4, <2>5 DEF Inv
<1>7. CASE result[c] = 0 /\ (\E s \in Streams : Construct(s, sd[c])) /\ UNCHANGED tableVars
  <2>1. PICK s \in Streams : m_sd[s] = -1 /\ m_sd' = [m_sd EXCEPT ![s] = sd[c]]
    BY <1>7 DEF Construct
  <2>2. UNCHANGED <<fds, bound, linked, nonblock>>
    BY <1>7 DEF tableVars
  <2> DEFINE h1 == <<"m_sd", s>>
  <2>3. TypeOK'
    <3>1. TableTypeOK'
      BY <1>7, TableStays DEF Inv
    <3>2. m_sd' \in [Streams -> Fd \cup {-1}]
      BY <2>1, Typed DEF Inv
    <3> QED BY <1>1, <1>4, <3>1, <3>2
          DEF Inv, TypeOK, AcceptorTypeOK, ConnectorTypeOK, UdpTypeOK, Fd
  <2>4. /\ h1 \in Holders /\ h0 # h1 /\ Held(h1) = -1 /\ Held(h1)' = Held(h0)
        /\ Kinds(h0) = Kinds(h1) /\ Mindful(h0) /\ Mindful(h1) /\ h1[1] # "m_lsd"
    BY <1>2, <2>1, Typed, ComponentSlots, HeldIs, HeldIsThen DEF Inv, Kinds, Mindful
  <2>5. \A h \in Slots \ {h0, h1} : Held(h)' = Held(h)
    BY <1>1, <2>1, Typed, OthersAre DEF Inv
  <2>6. Exclusive' /\ Claims'
    BY <1>2, <1>3, <2>2, <2>4, <2>5, Moved DEF Inv
  <2>7. Excused'
    <3>1. Loose' \subseteq Loose
      BY <1>1, <1>2, <2>2, <2>4, <2>5, LooseAfterMove DEF Inv
    <3> QED BY <1>1, <3>1, FailedStay, StillExcused DEF Inv
  <2>8. Calls'
    <3>1. \A h : Undisturbed(h)
      BY <2>2, NoneDisturbed
    <3>2. ConnectingInv'
      BY <1>5, <3>1
    <3>3. Streaming'
      <4>1. sd[c] > 0 => sd[c] \in linked
        BY <1>7 DEF Inv, Calls, ConnectingInv, ConnectingOK
      <4> QED BY <2>1, <2>2, <4>1, Typed DEF Inv, Calls, Streaming
    <3> QED BY <1>1, <3>1, <3>2, <3>3, ShuttingDownFrame, AcceptingFrame, BoundFrame
          DEF Inv, Calls, Untouched
  <2> QED BY <2>3, <2>6, <2>7, <2>8 DEF Inv
<1> QED BY <1>6, <1>7 DEF Finish

-----------------------------------------------------------------------------
(* the streams *)

(* A stream that is closed closes its own socket. *)
LEMMA CloseStep ==
  ASSUME Inv, NEW s \in Streams, Close(s),
         UNCHANGED <<acceptorVars, connectorVars, udpVars>>
  PROVE  Inv'
<1> DEFINE h0 == <<"m_sd", s>>
<1>1. /\ m_sd[s] >= 0 /\ Closes(m_sd[s]) /\ m_sd' = [m_sd EXCEPT ![s] = -1]
      /\ UNCHANGED <<a_lsd, m_listening, m_shutdown, nullfd, conn, serving, owning, dying, up,
                     failed, at, sd, result, stuck, u_lsd, ready, halfway>>
  BY DEF Close, acceptorVars, connectorVars, udpVars
<1>2. h0 \in Holders /\ Holders' = Holders /\ Held(h0) = m_sd[s] /\ Owns(h0)
  <2>1. m_sd[s] \in Int
    BY Typed, FdFacts DEF Inv
  <2>2. m_sd[s] > 0 \/ m_sd[s] = 0
    BY <1>1, <2>1
  <2> QED BY <1>1, <2>2, ComponentSlots, HoldersStay, HeldIs DEF Owns, Mindful
<1>3. Others(h0) /\ ~Owns(h0)'
  <2>1. \A h \in Slots \ {h0} : Held(h)' = Held(h)
    BY <1>1, Typed, OthersAre DEF Inv
  <2>2. Held(h0)' = -1
    BY <1>1, Typed, HeldIsThen DEF Inv
  <2> QED BY <2>1, <2>2 DEF Others, Owns
<1>4. TypeOK'
  <2>1. TableTypeOK'
    BY <1>1, TableAfterClose DEF Inv
  <2>2. m_sd' \in [Streams -> Fd \cup {-1}]
    BY <1>1, Typed DEF Inv
  <2> QED BY <1>1, <2>1, <2>2 DEF Inv, TypeOK, AcceptorTypeOK, ConnectorTypeOK, UdpTypeOK, Fd
<1>5. Exclusive' /\ Claims'
  BY <1>1, <1>2, <1>3, Closed DEF Inv
<1>6. Excused'
  <2>1. Loose' \subseteq Loose
    BY <1>1, <1>2, <1>3, LooseAfterClose DEF Inv
  <2> QED BY <1>1, <2>1, FailedStay, StillExcused DEF Inv
<1>7. Calls'
  <2>1. \A h \in Holders \ {h0} : Undisturbed(h)
    BY <1>1, <1>2, CloseDisturbsNone DEF Inv
  <2>2. /\ Untouched({"conn"} \X Acceptors) /\ Untouched({"sd"} \X Connecting)
        /\ Untouched({"u_lsd"} \X Udps)
    <3>1. h0[1] = "m_sd"
      OBVIOUS
    <3> HIDE DEF h0
    <3> QED BY <2>1, <3>1, UntouchedBut
  <2>3. Streaming'
    <3>1. \A t \in Streams \ {s} : Undisturbed(<<"m_sd", t>>)
      BY <2>1, ComponentSlots
    <3>2. \A t \in Streams \ {s} : m_sd[t] > 0 /\ m_sd[t] \in linked => m_sd[t] \in linked'
      BY <3>1, HeldIs DEF Undisturbed
    <3>3. m_sd'[s] = -1 /\ \A t \in Streams \ {s} : m_sd'[t] = m_sd[t]
      BY <1>1, Typed DEF Inv
    <3> QED BY <3>2, <3>3 DEF Inv, Calls, Streaming
  <2> QED BY <1>1, <2>2, <2>3, ShuttingDownFrame, AcceptingFrame, ConnectingFrame, BoundFrame
        DEF Inv, Calls, connectorVars
<1> QED BY <1>4, <1>5, <1>6, <1>7 DEF Inv

(* A stream changes the mode of its own socket only. *)
LEMMA SetBlockingStep ==
  ASSUME Inv, NEW s \in Streams, NEW enabled \in BOOLEAN, SetBlocking(s, enabled),
         UNCHANGED <<acceptorVars, connectorVars, udpVars>>
  PROVE  Inv'
<1> DEFINE h0 == <<"m_sd", s>>
<1>1. /\ m_sd[s] >= 0 /\ nonblock' \subseteq nonblock \cup {m_sd[s]}
      /\ UNCHANGED <<fds, bound, linked, m_sd, a_lsd, m_listening, m_shutdown, nullfd, conn,
                     serving, owning, dying, up, failed, at, sd, result, stuck, u_lsd, ready,
                     halfway>>
  BY DEF SetBlocking, acceptorVars, connectorVars, udpVars
<1>2. h0 \in Holders /\ Holders' = Holders /\ Held(h0) = m_sd[s] /\ Owns(h0)
  <2>1. m_sd[s] \in Int
    BY Typed, FdFacts DEF Inv
  <2>2. m_sd[s] > 0 \/ m_sd[s] = 0
    BY <1>1, <2>1
  <2> QED BY <1>1, <2>2, ComponentSlots, HoldersStay, HeldIs DEF Owns, Mindful
<1>3. m_sd[s] \in Fd /\ fds[m_sd[s]] # "closed"
  BY <1>2, OwnFacts DEF Inv, Exclusive
<1>4. TypeOK'
  <2>1. TableTypeOK'
    BY <1>1, <1>3, TableAfterMark DEF Inv
  <2> QED BY <1>1, <2>1 DEF Inv, TypeOK, AcceptorTypeOK, ConnectorTypeOK, UdpTypeOK, Fd
<1>5. Exclusive' /\ Claims' /\ Excused'
  BY <1>1, <1>2, Quiet DEF Inv
<1>6. Calls'
  <2>1. \A h \in Holders \ {h0} : Undisturbed(h)
    <3> SUFFICES ASSUME NEW h \in Holders, h # h0, Held(h) > 0
                 PROVE  Undisturbed(h)
      BY DEF Undisturbed
    <3>1. Owns(h)
      BY DEF Owns
    <3> HIDE DEF h0
    <3>2. Held(h) # m_sd[s]
      BY <1>2, <3>1 DEF Inv, Exclusive
    <3> QED BY <1>1, <3>2 DEF Undisturbed
  <2>2. /\ Untouched({"conn"} \X Acceptors) /\ Untouched({"sd"} \X Connecting)
        /\ Untouched({"u_lsd"} \X Udps)
    <3>1. h0[1] = "m_sd"
      OBVIOUS
    <3> HIDE DEF h0
    <3> QED BY <2>1, <3>1, UntouchedBut
  <2>3. Streaming'
    BY <1>1 DEF Inv, Calls, Streaming
  <2> QED BY <1>1, <2>2, <2>3, ShuttingDownFrame, AcceptingFrame, ConnectingFrame, BoundFrame
        DEF Inv, Calls, connectorVars
<1> QED BY <1>4, <1>5, <1>6 DEF Inv

-----------------------------------------------------------------------------
(* UDP *)

(* A start that finds a socket, or no room for one, opens none. *)
LEMMA UdpQuietStep ==
  ASSUME Inv, NEW u \in Udps, StartAgain(u) \/ StartNoSocket(u),
         UNCHANGED <<m_sd, acceptorVars, connectorVars>>
  PROVE  Inv'
<1> DEFINE h0 == <<"u_lsd", u>>
<1>1. UNCHANGED <<fds, bound, linked, nonblock, m_sd, a_lsd, m_listening, m_shutdown, nullfd, conn,
                  serving, owning, dying, up, failed, at, sd, result, stuck, halfway>>
  BY DEF StartAgain, StartNoSocket, tableVars, acceptorVars, connectorVars
<1>2. \/ u_lsd' = u_lsd
      \/ u_lsd[u] <= 0 /\ u_lsd' = [u_lsd EXCEPT ![u] = -1]
  BY DEF StartAgain, StartNoSocket
<1>3. TypeOK'
  <2>1. TableTypeOK'
    BY <1>1, TableStays DEF Inv, tableVars
  <2>2. u_lsd' \in [Udps -> Fd \cup {-1}]
    BY <1>2, Typed DEF Inv
  <2>3. ready' \in [Udps -> BOOLEAN]
    BY Typed DEF Inv, StartAgain, StartNoSocket
  <2> QED BY <1>1, <2>1, <2>2, <2>3 DEF Inv, TypeOK, AcceptorTypeOK, ConnectorTypeOK, UdpTypeOK, Fd
<1>4. h0 \in Holders /\ Holders' = Holders /\ Held(h0) = u_lsd[u] /\ Held(h0)' = u_lsd'[u]
  BY <1>1, HoldersStay, ComponentSlots, HeldIs, HeldIsThen
<1>5. Exclusive' /\ Claims' /\ Excused'
  <2>1. CASE u_lsd' = u_lsd
    BY <1>1, <1>4, <2>1, Quiet DEF Inv
  <2>2. CASE u_lsd[u] <= 0 /\ u_lsd' = [u_lsd EXCEPT ![u] = -1]
    <3>1. Others(h0)
      <4>1. \A h \in Slots \ {h0} : Held(h)' = Held(h)
        BY <1>1, <2>2, Typed, OthersAre DEF Inv
      <4> QED BY <4>1 DEF Others
    <3>2. ~Owns(h0)' /\ Held(h0) <= 0
      <4>1. Held(h0)' = -1
        BY <1>4, <2>2, Typed DEF Inv
      <4> QED BY <1>4, <2>2, <4>1 DEF Owns
    <3>3. Exclusive' /\ Claims'
      BY <1>1, <1>4, <3>1, <3>2, Forgotten DEF Inv
    <3>4. Loose' \subseteq Loose
      BY <1>1, <1>4, <3>1, <3>2, LooseAfterForgetting
    <3> QED BY <1>1, <3>3, <3>4, FailedStay, StillExcused DEF Inv
  <2> QED BY <1>2, <2>1, <2>2
<1>6. Calls'
  <2>1. \A h : Undisturbed(h)
    BY <1>1, NoneDisturbed
  <2>2. Bound'
    BY <1>1, <1>2, Typed DEF Inv, Calls, Bound
  <2> QED BY <1>1, <2>1, <2>2, ShuttingDownFrame, AcceptingFrame, ConnectingFrame, StreamingFrame
        DEF Inv, Calls, Untouched, connectorVars
<1> QED BY <1>3, <1>5, <1>6 DEF Inv

(* A start that opens a socket had none, or one it does not know of. *)
LEMMA StartNewStep ==
  ASSUME Inv, NEW u \in Udps, StartNew(u), UNCHANGED <<m_sd, acceptorVars, connectorVars>>
  PROVE  Inv'
<1> DEFINE h0 == <<"u_lsd", u>>
<1>1. /\ u_lsd[u] <= 0 /\ Opens("udp") /\ u_lsd' = [u_lsd EXCEPT ![u] = Lowest]
      /\ UNCHANGED <<linked, nonblock, m_sd, a_lsd, m_listening, m_shutdown, nullfd, conn,
                     serving, owning, dying, up, failed, at, sd, result, stuck>>
  BY DEF StartNew, acceptorVars, connectorVars
<1>2. PICK ok \in BOOLEAN : /\ bound' = IF ok THEN bound \cup {Lowest} ELSE bound
                            /\ ready' = [ready EXCEPT ![u] = ok]
                            /\ halfway' = [halfway EXCEPT ![u] = ~ok]
  BY DEF StartNew
<1>3. TypeOK'
  <2>1. TableTypeOK'
    BY <1>1, <1>2, TableAfterOpen DEF Inv
  <2>2. u_lsd' \in [Udps -> Fd \cup {-1}]
    BY <1>1, OpensFacts, Typed DEF Inv
  <2>3. ready' \in [Udps -> BOOLEAN]
    BY <1>2, Typed DEF Inv
  <2>4. halfway' \in [Udps -> BOOLEAN]
    BY <1>2, Typed DEF Inv
  <2> QED BY <1>1, <2>1, <2>2, <2>3, <2>4
        DEF Inv, TypeOK, AcceptorTypeOK, ConnectorTypeOK, UdpTypeOK, Fd
<1>4. h0 \in Holders /\ Holders' = Holders
  BY <1>1, HoldersStay, ComponentSlots
<1>5. Exclusive' /\ Claims' /\ Excused'
  <2>1. Others(h0) /\ Held(h0)' = Lowest
    <3>1. \A h \in Slots \ {h0} : Held(h)' = Held(h)
      BY <1>1, Typed, OthersAre DEF Inv
    <3> QED BY <1>1, <3>1, Typed, HeldIsThen DEF Others, Inv
  <2>2. ~ (Held(h0) > 0)
    <3>1. u_lsd[u] \in Int
      BY Typed, FdFacts DEF Inv
    <3>2. ~ (u_lsd[u] > 0)
      BY <1>1, <3>1
    <3> QED BY <3>2, HeldIs
  <2>3. "udp" \in Kinds(h0) /\ h0[1] # "m_lsd"
    BY DEF Kinds
  <2>4. Exclusive' /\ Claims'
    BY <1>1, <1>4, <2>1, <2>2, <2>3, Opened DEF Inv
  <2>5. Loose' \subseteq Loose
    BY <1>1, <1>4, <2>1, <2>2, <2>3, LooseAfterOpen DEF Inv
  <2> QED BY <1>1, <2>4, <2>5, FailedStay, StillExcused DEF Inv
<1>6. Calls'
  <2>1. \A h : Undisturbed(h)
    BY <1>1, <1>2, NoneDisturbed
  <2>2. Bound'
    <3>1. Lowest \in bound' \/ halfway'[u]
      BY <1>2, Typed DEF Inv
    <3>2. u_lsd'[u] = Lowest /\ \A v \in Udps \ {u} : u_lsd'[v] = u_lsd[v]
      BY <1>1, Typed DEF Inv
    <3>3. bound \subseteq bound' /\ \A v \in Udps \ {u} : halfway'[v] = halfway[v]
      BY <1>2, Typed DEF Inv
    <3> QED BY <3>1, <3>2, <3>3 DEF Inv, Calls, Bound
  <2> QED BY <1>1, <2>1, <2>2, ShuttingDownFrame, AcceptingFrame, ConnectingFrame, StreamingFrame
        DEF Inv, Calls, Untouched, connectorVars
<1> QED BY <1>3, <1>5, <1>6 DEF Inv

(* shutdown closes the client's own socket. *)
LEMMA ShutdownStep ==
  ASSUME Inv, NEW u \in Udps, Shutdown(u), UNCHANGED <<m_sd, acceptorVars, connectorVars>>
  PROVE  Inv'
<1> DEFINE h0 == <<"u_lsd", u>>
<1>1. /\ u_lsd[u] > 0 /\ Closes(u_lsd[u]) /\ u_lsd' = [u_lsd EXCEPT ![u] = 0]
      /\ ready' = [ready EXCEPT ![u] = FALSE] /\ halfway' = [halfway EXCEPT ![u] = FALSE]
      /\ UNCHANGED <<m_sd, a_lsd, m_listening, m_shutdown, nullfd, conn, serving, owning, dying,
                     up, failed, at, sd, result, stuck>>
  BY DEF Shutdown, ClosesOwn, acceptorVars, connectorVars
<1>2. h0 \in Holders /\ Holders' = Holders /\ Held(h0) = u_lsd[u] /\ Owns(h0)
  BY <1>1, ComponentSlots, HoldersStay, HeldIs DEF Owns
<1>3. Others(h0) /\ ~Owns(h0)'
  <2>1. \A h \in Slots \ {h0} : Held(h)' = Held(h)
    BY <1>1, Typed, OthersAre DEF Inv
  <2>2. Held(h0)' = 0
    BY <1>1, Typed, HeldIsThen DEF Inv
  <2> QED BY <2>1, <2>2 DEF Others, Owns, Mindful
<1>4. TypeOK'
  <2>1. TableTypeOK'
    BY <1>1, TableAfterClose DEF Inv
  <2>2. u_lsd' \in [Udps -> Fd \cup {-1}]
    BY <1>1, FdFacts, Typed DEF Inv
  <2>3. ready' \in [Udps -> BOOLEAN]
    BY <1>1, Typed DEF Inv
  <2>4. halfway' \in [Udps -> BOOLEAN]
    BY <1>1, Typed DEF Inv
  <2> QED BY <1>1, <2>1, <2>2, <2>3, <2>4
        DEF Inv, TypeOK, AcceptorTypeOK, ConnectorTypeOK, UdpTypeOK, Fd
<1>5. Exclusive' /\ Claims'
  BY <1>1, <1>2, <1>3, Closed DEF Inv
<1>6. Excused'
  <2>1. Loose' \subseteq Loose
    BY <1>1, <1>2, <1>3, LooseAfterClose DEF Inv
  <2> QED BY <1>1, <2>1, FailedStay, StillExcused DEF Inv
<1>7. Calls'
  <2>1. \A h \in Holders \ {h0} : Undisturbed(h)
    BY <1>1, <1>2, CloseDisturbsNone DEF Inv
  <2>2. /\ Untouched({"conn"} \X Acceptors) /\ Untouched({"sd"} \X Connecting)
        /\ Untouched({"m_sd"} \X Streams)
    <3>1. h0[1] = "u_lsd"
      OBVIOUS
    <3> HIDE DEF h0
    <3> QED BY <2>1, <3>1, UntouchedBut
  <2>3. Bound'
    <3>1. \A v \in Udps \ {u} : Undisturbed(<<"u_lsd", v>>)
      BY <2>1, ComponentSlots
    <3>2. \A v \in Udps \ {u} : u_lsd[v] > 0 /\ u_lsd[v] \in bound => u_lsd[v] \in bound'
      BY <3>1, HeldIs DEF Undisturbed
    <3>3. u_lsd'[u] = 0 /\ \A v \in Udps \ {u} : u_lsd'[v] = u_lsd[v]
      BY <1>1, Typed DEF Inv
    <3>4. \A v \in Udps \ {u} : halfway'[v] = halfway[v]
      BY <1>1, Typed DEF Inv
    <3> QED BY <3>2, <3>3, <3>4 DEF Inv, Calls, Bound
  <2> QED BY <1>1, <2>2, <2>3, ShuttingDownFrame, AcceptingFrame, ConnectingFrame, StreamingFrame
        DEF Inv, Calls, connectorVars
<1> QED BY <1>4, <1>5, <1>6, <1>7 DEF Inv

(* A move closes what the target had and leaves the source without. *)
LEMMA MoveAssignStep ==
  ASSUME Inv, NEW from \in Udps, NEW to \in Udps, MoveAssign(from, to),
         UNCHANGED <<m_sd, acceptorVars, connectorVars>>
  PROVE  Inv'
<1> DEFINE h0 == <<"u_lsd", from>>
           h1 == <<"u_lsd", to>>
<1>1. /\ from # to
      /\ u_lsd' = [u_lsd EXCEPT ![to] = u_lsd[from], ![from] = 0]
      /\ ready' = [ready EXCEPT ![to] = ready[from], ![from] = FALSE]
      /\ halfway' = [halfway EXCEPT ![to] = halfway[from], ![from] = FALSE]
      /\ UNCHANGED <<m_sd, a_lsd, m_listening, m_shutdown, nullfd, conn, serving, owning, dying,
                     up, failed, at, sd, result, stuck>>
  BY DEF MoveAssign, Gives, acceptorVars, connectorVars
<1>2. \/ UNCHANGED <<fds, bound, linked, nonblock>> /\ u_lsd[to] <= 0
      \/ Closes(u_lsd[to]) /\ u_lsd[to] > 0
  <2>1. u_lsd[to] \in Int
    BY Typed, FdFacts DEF Inv
  <2>2. u_lsd[to] > 0 \/ u_lsd[to] <= 0
    BY <2>1
  <2> QED BY <2>1, <2>2 DEF MoveAssign, ClosesOwn, tableVars
<1>3. /\ u_lsd'[to] = u_lsd[from] /\ u_lsd'[from] = 0
      /\ \A v \in Udps \ {from, to} : u_lsd'[v] = u_lsd[v]
  BY <1>1, Typed DEF Inv
<1>4. TypeOK'
  <2>1. TableTypeOK'
    BY <1>2, TableAfterClose, TableStays DEF Inv, tableVars
  <2>2. u_lsd' \in [Udps -> Fd \cup {-1}]
    BY <1>1, FdFacts, Typed DEF Inv
  <2>3. ready' \in [Udps -> BOOLEAN]
    BY <1>1, Typed DEF Inv
  <2>4. halfway' \in [Udps -> BOOLEAN]
    BY <1>1, Typed DEF Inv
  <2> QED BY <1>1, <2>1, <2>2, <2>3, <2>4
        DEF Inv, TypeOK, AcceptorTypeOK, ConnectorTypeOK, UdpTypeOK, Fd
<1>5. /\ h0 \in Holders /\ h1 \in Holders /\ Holders' = Holders /\ h0 # h1
      /\ Held(h0) = u_lsd[from] /\ Held(h1) = u_lsd[to] /\ Held(h1)' = Held(h0)
      /\ Kinds(h0) = Kinds(h1) /\ (Mindful(h0) <=> Mindful(h1)) /\ h1[1] # "m_lsd"
  BY <1>1, <1>3, ComponentSlots, HoldersStay, HeldIs, HeldIsThen DEF Kinds, Mindful
<1>6. ~Owns(h0)'
  <2>1. Held(h0)' = 0
    BY <1>3, HeldIsThen
  <2> QED BY <2>1 DEF Owns, Mindful
<1>7. \A h \in Slots \ {h0, h1} : Held(h)' = Held(h)
  <2>1. \A v \in Udps : u_lsd'[v] = u_lsd[v] \/ <<"u_lsd", v>> \in {h0, h1}
    BY <1>3
  <2> QED BY <1>1, <2>1, OthersAre
<1>8. Exclusive' /\ Claims'
  BY <1>2, <1>5, <1>6, <1>7, Moved DEF Inv
<1>9. Excused'
  <2>1. Loose' \subseteq Loose
    BY <1>1, <1>2, <1>5, <1>7, LooseAfterMove DEF Inv
  <2> QED BY <1>1, <2>1, FailedStay, StillExcused DEF Inv
<1>10. Calls'
  <2>1. \A h \in Holders \ {h1} : Undisturbed(h)
    <3>1. CASE UNCHANGED <<fds, bound, linked, nonblock>>
      BY <3>1, NoneDisturbed
    <3>2. CASE Closes(u_lsd[to]) /\ u_lsd[to] > 0
      <4>1. Owns(h1) /\ Closes(Held(h1))
        BY <1>5, <3>2 DEF Owns
      <4> QED BY <1>5, <4>1, CloseDisturbsNone DEF Inv
    <3> QED BY <1>2, <3>1, <3>2
  <2>2. /\ Untouched({"conn"} \X Acceptors) /\ Untouched({"sd"} \X Connecting)
        /\ Untouched({"m_sd"} \X Streams)
    <3>1. h1[1] = "u_lsd"
      OBVIOUS
    <3> HIDE DEF h1
    <3> QED BY <2>1, <3>1, UntouchedBut
  <2>3. Bound'
    <3>1. \A v \in Udps \ {to} : Undisturbed(<<"u_lsd", v>>)
      BY <2>1, ComponentSlots
    <3>2. \A v \in Udps \ {to} : u_lsd[v] > 0 /\ u_lsd[v] \in bound => u_lsd[v] \in bound'
      BY <3>1, HeldIs DEF Undisturbed
    <3>3. /\ halfway'[to] = halfway[from]
          /\ \A v \in Udps \ {from, to} : halfway'[v] = halfway[v]
      BY <1>1, Typed DEF Inv
    <3>4. Bound
      BY DEF Inv, Calls
    <3>5. \A v \in Udps \ {to} : u_lsd[v] > 0 => u_lsd[v] \in bound' \/ halfway[v]
      BY <3>2, <3>4 DEF Bound
    <3>6. ASSUME NEW v \in Udps, u_lsd'[v] > 0
          PROVE  u_lsd'[v] \in bound' \/ halfway'[v]
      <4>1. CASE v = to
        BY <1>1, <1>3, <3>3, <3>5, <3>6, <4>1
      <4>2. CASE v = from
        BY <1>3, <3>6, <4>2
      <4>3. CASE v \notin {from, to}
        <5>1. u_lsd'[v] = u_lsd[v] /\ halfway'[v] = halfway[v] /\ v \in Udps \ {to}
          BY <1>3, <3>3, <4>3
        <5> QED BY <3>5, <3>6, <5>1
      <4> QED BY <4>1, <4>2, <4>3
    <3> QED BY <3>6 DEF Bound
  <2> QED BY <1>1, <2>2, <2>3, ShuttingDownFrame, AcceptingFrame, ConnectingFrame, StreamingFrame
        DEF Inv, Calls, connectorVars
<1> QED BY <1>4, <1>8, <1>9, <1>10 DEF Inv

-----------------------------------------------------------------------------
(* the invariant *)

(* In the beginning no object has a descriptor.                            *)
LEMMA InitInv ==
  ASSUME Init
  PROVE  Inv
<1> USE DEF Init, TableInit, StreamInit, AcceptorInit, ConnectorInit, UdpInit
<1>1. fds \in [Fd -> {"closed", "stdin"}] /\ \A n \in Fd : n > 0 => fds[n] = "closed"
  BY FdFacts
<1>2. TypeOK
  <2>1. TableTypeOK
    BY <1>1 DEF TableTypeOK
  <2>2. AcceptorTypeOK
    BY AcceptorAssumption, FdFacts DEF AcceptorTypeOK
  <2>3. ConnectorTypeOK
    BY DEF ConnectorTypeOK
  <2>4. UdpTypeOK
    BY FdFacts DEF UdpTypeOK
  <2> QED BY <2>1, <2>2, <2>3, <2>4 DEF TypeOK
<1>3. \A h \in Slots : Held(h) = -1 \/ (Held(h) = 0 /\ ~Mindful(h))
  BY SlotCases, HeldIs DEF Mindful
<1>4. \A h \in Holders : ~Owns(h) /\ ~ (Held(h) > 0)
  BY <1>3, HoldersAre DEF Owns
<1>5. Exclusive
  BY <1>4 DEF Exclusive
<1>6. Claims
  BY <1>1 DEF Claims
<1>7. Excused
  <2>1. Loose = {}
    BY <1>1 DEF Loose
  <2> DEFINE f == [n \in Loose |-> 0]
  <2>2. f \in [Loose -> FailedCalls] /\ \A m, n \in Loose : f[m] = f[n] => m = n
    BY <2>1
  <2> HIDE DEF f
  <2> QED BY <2>2 DEF Excused
<1>8. Calls
  <2>1. Accepting /\ ShuttingDown
    BY DEF Accepting, ShuttingDown
  <2>2. ConnectingInv
    BY DEF ConnectingInv, ConnectingOK
  <2>3. Streaming /\ Bound
    BY DEF Streaming, Bound
  <2> QED BY <2>1, <2>2, <2>3 DEF Calls
<1> QED BY <1>2, <1>5, <1>6, <1>7, <1>8 DEF Inv

(* Every step of an acceptor, a call of connect, a stream or a client      *)
(* preserves it.                                                           *)
LEMMA StepInv ==
  ASSUME Inv, [Next]_vars
  PROVE  Inv'
<1>1. ASSUME NEW a \in Acceptors, Acceptor(a), UNCHANGED <<connectorVars, udpVars>>
      PROVE  Inv'
  <2>1. CASE Starts(a)
    BY <1>1, <2>1, StartWithoutSocketStep, StartOpensStep DEF Starts
  <2>2. CASE BeginShutdown(a) \/ KernelShutdown(a) \/ AcceptTest(a) \/ AcceptFails(a)
    BY <1>1, <2>2, AcceptorQuietStep
  <2>3. CASE OpenNull(a) \/ Dup2(a) \/ CloseNull(a)
    BY <1>1, <2>3, OpenNullStep, Dup2Step, CloseNullStep
  <2>4. CASE Destroy(a) \/ DestroyCloses(a)
    BY <1>1, <2>4, DestroyStep, DestroyClosesStep
  <2>5. CASE AcceptConnects(a) \/ AcceptReturns(a)
    BY <1>1, <2>5, AcceptConnectsStep, AcceptReturnsStep
  <2> QED BY <1>1, <2>1, <2>2, <2>3, <2>4, <2>5 DEF Acceptor, OwnerGoesOn, ServerGoesOn
<1>2. ASSUME NEW c \in Connecting, Connector(c), UNCHANGED <<acceptorVars, udpVars>>
      PROVE  Inv'
  BY <1>2, CreateSocketStep, ConnectorMarkStep, FinishStep DEF Connector
<1>3. ASSUME NEW s \in Streams, StreamStep(s),
             UNCHANGED <<acceptorVars, connectorVars, udpVars>>
      PROVE  Inv'
  BY <1>3, CloseStep, SetBlockingStep DEF StreamStep
<1>4. ASSUME NEW u \in Udps, Udp(u), UNCHANGED <<m_sd, acceptorVars, connectorVars>>
      PROVE  Inv'
  BY <1>4, UdpQuietStep, StartNewStep, ShutdownStep, MoveAssignStep DEF Udp
<1>5. CASE UNCHANGED vars
  <2>1. UNCHANGED <<fds, bound, linked, nonblock, m_sd, a_lsd, m_listening, m_shutdown, nullfd,
                    conn, serving, owning, dying, up, failed, at, sd, result, stuck, u_lsd, ready,
                    halfway>>
    BY <1>5 DEF vars, tableVars, acceptorVars, connectorVars, udpVars
  <2>2. TypeOK'
    <3>1. TableTypeOK'
      BY <2>1, TableStays DEF Inv, tableVars
    <3> QED BY <2>1, <3>1 DEF Inv, TypeOK, AcceptorTypeOK, ConnectorTypeOK, UdpTypeOK, Fd
  <2>3. Exclusive' /\ Claims' /\ Excused'
    BY <2>1, HoldersStay, Quiet DEF Inv
  <2>4. \A h : Undisturbed(h)
    BY <2>1, NoneDisturbed
  <2>5. Calls'
    BY <2>1, <2>4, ShuttingDownFrame, AcceptingFrame, ConnectingFrame, StreamingFrame, BoundFrame
       DEF Inv, Calls, Untouched, connectorVars
  <2> QED BY <2>2, <2>3, <2>5 DEF Inv
<1> QED BY <1>1, <1>2, <1>3, <1>4, <1>5 DEF Next

(* The invariant holds of every reachable state.                           *)
LEMMA Invariance ==
  Spec => []Inv
<1>1. Init => Inv
  BY InitInv
<1>2. Inv /\ [Next]_vars => Inv'
  BY StepInv
<1> QED BY <1>1, <1>2, PTL DEF Spec

-----------------------------------------------------------------------------
(* No descriptor but 0 has two holders, and each is what its holder takes  *)
(* it for, whichever objects there are and however large the table is.     *)
THEOREM DescriptorsHaveOneHolder ==
  Spec => []OneHolder
<1>1. ASSUME Inv
      PROVE  OneHolder
  BY <1>1 DEF Inv, OneHolder, Exclusive, Owns
<1> QED BY <1>1, Invariance, PTL

(* A stream is made of a socket that is connected and, unless the system   *)
(* refused that, blocking; a UDP client that reports success without an    *)
(* address has failed half-way before.                                     *)
THEOREM GivenSocketsWork ==
  Spec => []SocketsWork
<1>1. ASSUME Inv
      PROVE  SocketsWork
  <2>1. /\ \A s \in Streams : m_sd[s] > 0 => m_sd[s] \in linked
        /\ \A c \in Connecting :
             at[c] = "finish" /\ result[c] = 0 /\ sd[c] > 0 =>
               sd[c] \in linked /\ (sd[c] \in nonblock => stuck[c])
    BY <1>1 DEF Inv, Calls, Streaming, ConnectingInv, ConnectingOK
  <2>2. \A u \in Udps : ready[u] /\ u_lsd[u] > 0 => u_lsd[u] \in bound \/ halfway[u]
    BY <1>1 DEF Inv, Calls, Bound
  <2> QED BY <2>1, <2>2 DEF SocketsWork
<1> QED BY <1>1, Invariance, PTL

(* No more descriptors are lost than calls of start have failed, but for   *)
(* the number 0, and they are those of acceptors.                          *)
THEOREM LittleIsLost ==
  Spec => []NoLeak
<1>1. ASSUME Inv
      PROVE  NoLeak
  <2> DEFINE lost == {n \in Fd : /\ fds[n] \notin {"closed", "stdin"}
                                /\ \A h \in Holders : Held(h) # n}
  <2>1. ASSUME NEW n \in lost, n # 0
        PROVE  n > 0 /\ fds[n] \in {"acceptor", "null"}
    <3>1. n > 0
      BY <2>1, FdFacts
    <3>2. fds[n] \in {"null", "acceptor", "stream", "udp"}
      BY <1>1, Typed DEF Inv
    <3> QED BY <1>1, <3>1, <3>2 DEF Inv, Claims
  <2>2. lost \ {0} \subseteq Loose
    BY <2>1 DEF Loose
  <2>3. IsFiniteSet(FailedCalls)
    <3>1. IsFiniteSet(1 .. MaxFailed)
      BY AcceptorAssumption, FS_Interval
    <3>2. IsFiniteSet(Acceptors \X (1 .. MaxFailed))
      BY <3>1, AcceptorAssumption, FS_Product
    <3>3. FailedCalls \subseteq Acceptors \X (1 .. MaxFailed)
      BY DEF FailedCalls
    <3> QED BY <3>2, <3>3, FS_Subset
  <2>4. IsFiniteSet(Loose) /\ Cardinality(Loose) <= Cardinality(FailedCalls)
    <3>1. PICK f \in [Loose -> FailedCalls] : \A m, n \in Loose : f[m] = f[n] => m = n
      BY <1>1 DEF Inv, Excused
    <3>2. f \in Injection(Loose, FailedCalls)
      BY <3>1 DEF Injection, IsInjective
    <3> QED BY <2>3, <3>2, FS_Injection
  <2>5. Cardinality(lost \ {0}) <= Cardinality(Loose)
    BY <2>2, <2>4, FS_Subset
  <2>6. /\ Cardinality(lost \ {0}) \in Nat /\ Cardinality(Loose) \in Nat
        /\ Cardinality(FailedCalls) \in Nat
    BY <2>2, <2>3, <2>4, FS_Subset, FS_CardinalityType
  <2>7. Cardinality(lost \ {0}) <= Cardinality(FailedCalls)
    BY <2>4, <2>5, <2>6
  <2> HIDE DEF lost
  <2>8. \A n \in lost : n # 0 => fds[n] \in {"acceptor", "null"}
    BY <2>1
  <2> USE DEF lost
  <2> QED BY <2>7, <2>8 DEF NoLeak
<1> QED BY <1>1, Invariance, PTL
=============================================================================
