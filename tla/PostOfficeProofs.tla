-------------------------- MODULE PostOfficeProofs --------------------------
(***************************************************************************)
(* Proofs about PostOffice, for any machines, client threads and packets.  *)
(***************************************************************************)
EXTENDS PostOffice, FiniteSetTheorems, TLAPS

-----------------------------------------------------------------------------
(***************************************************************************)
(* The inductive invariant.  A machine is a record with all its fields, so *)
(* that an update of one leaves the others alone; the set of threads       *)
(* inside Send is finite, so that it can be counted.                       *)
(***************************************************************************)
Fields(m) ==
  DOMAIN m = {"up", "sock", "inHdr", "dones", "available", "sent", "worker", "sending", "boxes"}

MachineOK(m) ==
  /\ Fields(m)
  /\ m.up \in BOOLEAN
  /\ m.sock \in Seq(Packets)
  /\ m.inHdr \in Packets \cup {NULL}
  /\ m.available \in Nat /\ m.sent \in Nat /\ m.dones \in Nat
  /\ m.worker \in {"P", "Receive"}
  /\ m.sending \subseteq Clients /\ IsFiniteSet(m.sending)
  /\ m.available + (IF m.worker = "Receive" THEN 1 ELSE 0)
       = (IF m.inHdr = NULL THEN 0 ELSE 1)
  /\ Cardinality(m.sending) = m.sent + m.dones

PostInv ==
  /\ sends \in 0 .. MaxSends
  /\ boots \in 0 .. MaxBoots
  /\ po = [n \in Machines |-> po[n]]
  /\ \A n \in Machines : MachineOK(po[n])

-----------------------------------------------------------------------------
(* What the operations of one machine do to it.                            *)

\* A machine that has just started, and one that has ended, owe nothing.
LEMMA FreshMachines == MachineOK(Running) /\ MachineOK(Dead)
<1>1. IsFiniteSet({}) /\ Cardinality({}) = 0 /\ <<>> \in Seq(Packets)
  BY FS_EmptySet
<1>2. MachineOK(Running)
  BY <1>1 DEF MachineOK, Fields, Running, OpenSocket
<1>3. /\ Fields(Dead)
      /\ Dead.up \in BOOLEAN /\ Dead.sock = <<>> /\ Dead.inHdr = NULL /\ Dead.dones = 0
      /\ Dead.available = 0 /\ Dead.sent = 0 /\ Dead.worker = "P" /\ Dead.sending = {}
  BY DEF Fields, Dead, Running, OpenSocket
<1>4. MachineOK(Dead)
  <2> HIDE DEF Dead
  <2> QED BY <1>1, <1>3 DEF MachineOK
<1> QED BY <1>2, <1>4

\* Network::CheckPktAvail fills an empty buffer and releases the worker once.
LEMMA PollOK ==
    ASSUME NEW m, MachineOK(m)
    PROVE  MachineOK(CheckPktAvail(m))
<1> SUFFICES ASSUME m.inHdr = NULL, m.sock # <<>>
             PROVE  MachineOK(IncomingPacket(ReadFromSocket(m)))
  BY DEF CheckPktAvail, PollSocket, PollFile
<1>1. Head(m.sock) \in Packets /\ Tail(m.sock) \in Seq(Packets)
  BY DEF MachineOK
<1>2. NULL \notin Packets
  BY PostAssumption
<1>3. m.available = 0 /\ m.worker = "P"
  BY DEF MachineOK
<1> QED BY <1>1, <1>2, <1>3 DEF MachineOK, Fields, IncomingPacket, ReadFromSocket

\* An action that sets one machine keeps the invariant if it keeps the machine.
LEMMA SetOK ==
    ASSUME PostInv, NEW n \in Machines, NEW m, MachineOK(m), Set(n, m),
           sends' \in 0 .. MaxSends, boots' \in 0 .. MaxBoots
    PROVE  PostInv'
BY Zenon DEF PostInv, Set, MachineOK, Fields

\* The same, for the actions that neither send nor start a machine.
LEMMA SetOnlyOK ==
    ASSUME PostInv, NEW n \in Machines, NEW m, MachineOK(m), Set(n, m),
           UNCHANGED <<sends, boots>>
    PROVE  PostInv'
BY Zenon DEF PostInv, Set, MachineOK, Fields

\* The postal worker is let through by messageAvailable->P().
LEMMA WakeOK ==
    ASSUME NEW m, MachineOK(m), m.worker = "P", m.available > 0
    PROVE  MachineOK([m EXCEPT !.available = @ - 1, !.worker = "Receive"])
BY DEF MachineOK, Fields

\* The worker that was let through finds a packet, and empties the buffer.
LEMMA DeliverOK ==
    ASSUME NEW m, MachineOK(m), m.worker = "Receive"
    PROVE  /\ m.inHdr \in Packets
           /\ MachineOK([Put(NetworkReceive(m), m.inHdr) EXCEPT !.worker = "P"])
<1>1. m.inHdr \in Packets /\ m.available = 0
  BY DEF MachineOK
<1> QED BY <1>1 DEF MachineOK, Fields, Put, NetworkReceive

\* NetworkSendDone releases one sender.
LEMMA SendDoneOK ==
    ASSUME NEW m, MachineOK(m), m.dones > 0
    PROVE  MachineOK(SendDone(m))
BY DEF MachineOK, Fields, SendDone, PacketSent

\* A released sender leaves Send.
LEMMA SendReturnsOK ==
    ASSUME NEW m, MachineOK(m), NEW c \in m.sending, m.sent > 0
    PROVE  MachineOK([m EXCEPT !.sent = @ - 1, !.sending = @ \ {c}])
<1>1. IsFiniteSet(m.sending \ {c}) /\ Cardinality(m.sending \ {c}) = Cardinality(m.sending) - 1
  BY FS_RemoveElement DEF MachineOK
<1> QED BY <1>1 DEF MachineOK, Fields

\* MailBox::Get touches the mailboxes only.
LEMMA GetOK ==
    ASSUME NEW m, MachineOK(m), NEW b \in Boxes
    PROVE  MachineOK(Get(m, b))
BY DEF MachineOK, Fields, Get

\* A packet that arrives in a socket.
LEMMA ArriveOK ==
    ASSUME NEW m, MachineOK(m), NEW p \in Packets
    PROVE  MachineOK([m EXCEPT !.sock = Append(@, p)])
BY DEF MachineOK, Fields

\* The sender's side of Network::Send: an interrupt scheduled, a thread waiting.
LEMMA ScheduleOK ==
    ASSUME NEW m, MachineOK(m), NEW c \in Clients, c \notin m.sending
    PROVE  MachineOK([m EXCEPT !.dones = @ + 1, !.sending = @ \cup {c}])
<1>1. /\ IsFiniteSet(m.sending \cup {c})
      /\ Cardinality(m.sending \cup {c}) = Cardinality(m.sending) + 1
  BY FS_AddElement DEF MachineOK
<1> QED BY <1>1 DEF MachineOK, Fields

-----------------------------------------------------------------------------
\* Before any machine has started, all of them are off.
LEMMA InitPost == Init => PostInv
BY FreshMachines, PostAssumption DEF Init, PostInv

\* PostOffice::Send, in all its outcomes.
LEMMA SendOK ==
    ASSUME PostInv, NEW n \in Machines, NEW c \in Clients, NEW p \in Packets,
           NEW lost \in BOOLEAN, Send(n, c, p, lost)
    PROVE  PostInv'
<1>1. sends' \in 0 .. MaxSends /\ boots' \in 0 .. MaxBoots
  BY PostAssumption DEF PostInv, Send
<1>2. MachineOK(po[n]) /\ p.to \in Machines /\ MachineOK(po[p.to])
  BY PostAssumption DEF PostInv
<1>3. CASE lost /\ po' = [NetworkSend(p, lost) EXCEPT ![n].sending = @ \cup {c}]
  <2> DEFINE m == [po[n] EXCEPT !.dones = @ + 1, !.sending = @ \cup {c}]
  <2>1. MachineOK(m)
    BY <1>2, ScheduleOK, ZenonT(30) DEF Send
  <2>2. Set(n, m)
    BY <1>3, <1>2, Zenon DEF Send, NetworkSend, Set, PostInv, MachineOK, Fields
  <2> QED BY <1>1, <2>1, <2>2, SetOK, Zenon
<1>4. CASE ~lost /\ po' = [NetworkSend(p, lost) EXCEPT ![n].sending = @ \cup {c}]
  <2> DEFINE m == [po[n] EXCEPT !.dones = @ + 1, !.sending = @ \cup {c}]
  <2>1. MachineOK(m)
    BY <1>2, ScheduleOK, ZenonT(30) DEF Send
  <2>2. CASE p.to # n
    <3> DEFINE q == [po[p.to] EXCEPT !.sock = Append(@, p)]
    <3>1. MachineOK(q)
      BY <1>2, ArriveOK
    <3> DEFINE s == [po EXCEPT ![n].dones = @ + 1]
               t == [s EXCEPT ![p.to].sock = Append(@, p)]
    <3>2. /\ s = [k \in Machines |-> s[k]] /\ s[n] = [po[n] EXCEPT !.dones = @ + 1]
          /\ \A k \in Machines \ {n} : s[k] = po[k]
      BY Zenon DEF PostInv
    <3>3. /\ t = [k \in Machines |-> t[k]] /\ t[n] = s[n] /\ t[p.to] = q
          /\ \A k \in Machines \ {n, p.to} : t[k] = po[k]
      <4> HIDE DEF s
      <4> QED BY <3>2, <1>2, <2>2, Zenon
    <3>4. po' = [t EXCEPT ![n].sending = @ \cup {c}]
      BY <1>4 DEF Send, NetworkSend, SendToSocket
    <3>5. m = [s[n] EXCEPT !.sending = @ \cup {c}]
      <4> HIDE DEF s
      <4> QED BY <3>2, <1>2, Zenon DEF MachineOK, Fields
    <3>6. /\ po' = [k \in Machines |-> po'[k]] /\ po'[n] = m /\ po'[p.to] = q
          /\ \A k \in Machines \ {n, p.to} : po'[k] = po[k]
      <4> HIDE DEF s, t, m, q
      <4> QED BY <3>3, <3>4, <3>5, <1>2, <2>2, Zenon
    <3> HIDE DEF m, q
    <3> QED BY <1>1, <2>1, <2>2, <3>1, <3>6 DEF PostInv
  <2>3. CASE p.to = n
    <3> DEFINE q == [m EXCEPT !.sock = Append(@, p)]
    <3>1. MachineOK(q)
      BY <2>1, ArriveOK, Zenon
    <3>2. Set(n, q)
      BY <1>4, <1>2, <2>3, ZenonT(30) DEF Send, NetworkSend, SendToSocket, Set, PostInv, MachineOK, Fields
    <3> QED BY <1>1, <3>1, <3>2, SetOK
  <2> QED BY <2>2, <2>3
<1>5. CASE Abort(n)
  BY <1>1, <1>5, FreshMachines, SetOK, Zenon DEF Abort, Set
<1> QED BY <1>3, <1>4, <1>5 DEF Send

\* Every step of a machine keeps the invariant.
LEMMA NextPost == PostInv /\ [Next]_vars => PostInv'
<1> SUFFICES ASSUME PostInv, [Next]_vars
             PROVE  PostInv'
  OBVIOUS
<1>1. CASE UNCHANGED vars
  BY <1>1 DEF vars, PostInv, MachineOK, Fields
<1>2. ASSUME NEW n \in Machines,
             \/ Boot(n) \/ NetworkReadPoll(n) \/ NetworkSendDone(n) \/ WorkerWakes(n)
             \/ PostalDelivery(n) \/ Halt(n)
             \/ \E c \in Clients : SendReturns(n, c)
             \/ \E b \in Boxes : Receive(n, b)
      PROVE  PostInv'
  <2>1. MachineOK(po[n])
    BY DEF PostInv
  <2>2. CASE Boot(n)
    <3>1. sends' \in 0 .. MaxSends /\ boots' \in 0 .. MaxBoots
      BY <2>2, PostAssumption DEF PostInv, Boot
    <3> QED BY <3>1, <2>2, FreshMachines, SetOK DEF Boot
  <2>3. CASE NetworkReadPoll(n)
    BY <2>1, <2>3, PollOK, SetOnlyOK DEF NetworkReadPoll
  <2>4. CASE NetworkSendDone(n)
    BY <2>1, <2>4, SendDoneOK, SetOnlyOK, Zenon DEF NetworkSendDone
  <2>5. CASE WorkerWakes(n)
    BY <2>1, <2>5, WakeOK, SetOnlyOK, Zenon DEF WorkerWakes
  <2>6. CASE PostalDelivery(n)
    BY <2>1, <2>6, DeliverOK, SetOnlyOK DEF PostalDelivery
  <2>7. CASE Halt(n)
    BY <2>1, <2>7, FreshMachines, SetOnlyOK, Zenon DEF Halt, Cleanup
  <2>8. ASSUME NEW c \in Clients, SendReturns(n, c)
        PROVE  PostInv'
    BY <2>1, <2>8, SendReturnsOK, SetOnlyOK, Zenon DEF SendReturns
  <2>9. ASSUME NEW b \in Boxes, Receive(n, b)
        PROVE  PostInv'
    BY <2>1, <2>9, GetOK, FreshMachines, SetOnlyOK DEF Receive, Wait, Abort, Set
  <2> QED BY <1>2, <2>2, <2>3, <2>4, <2>5, <2>6, <2>7, <2>8, <2>9
<1> QED BY <1>1, <1>2, SendOK DEF Next

(***************************************************************************)
(* messageAvailable and messageSent count exactly, for any number of       *)
(* machines, threads, packets and restarts, whatever the network loses:    *)
(* the postal worker (post.cc:230) never finds Network's buffer empty, and *)
(* every thread inside PostOffice::Send is owed exactly one V().           *)
(***************************************************************************)
THEOREM PostOfficeCounts == Spec => []SemaphoresExact
<1>1. PostInv => SemaphoresExact
  BY DEF PostInv, MachineOK, SemaphoresExact, TypeOK
<1> QED BY <1>1, InitPost, NextPost, PTL DEF Spec
=============================================================================
