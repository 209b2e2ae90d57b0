----------------------------- MODULE PostOffice -----------------------------
(***************************************************************************)
(* network/post.cc on machine/network.cc, threads/synchlist.cc and the     *)
(* sockets of machine/sysdep.cc: machines that exchange mail.  po[n] is    *)
(* the state of machine n:                                                 *)
(*   up         whether its Nachos runs: FALSE before it starts and after  *)
(*              it halts or an ASSERT fails                                *)
(*   sock       the packets waiting in the machine's host socket           *)
(*   inHdr      the packet Network has buffered, or NULL: length 0         *)
(*   available, sent   the values of messageAvailable and messageSent      *)
(*   dones      the NetworkSendDone interrupts that are scheduled          *)
(*   worker     what the postal worker does next                           *)
(*   boxes      the mailboxes, linked lists                                *)
(*   sending    the threads inside PostOffice::Send, at messageSent->P()   *)
(* Threads of one machine are switched only inside P, so the code between  *)
(* two calls of P is one step.  A packet sent may be lost; Lock and        *)
(* Condition are the stubs of threads/synch.cc.  call is what a program    *)
(* did in the last step, with the letter it gave or got, or NoCall.        *)
(***************************************************************************)
EXTENDS List

CONSTANTS Machines, Boxes,
          Clients,      \* threads of a machine that use its post office
          Packets,      \* the letters sent: records [from, to, box, data]
          MaxSends,     \* bound on the letters sent
          MaxBoots      \* bound on the starts of a machine

VARIABLES po, sends, boots, call
vars == <<po, sends, boots, call>>

ASSUME PostAssumption ==
  /\ MaxSends \in Nat /\ MaxBoots \in Nat
  /\ Nodes = 1..MaxSends
  /\ NULL \notin Nodes /\ NULL \notin Packets
  /\ \A p \in Packets : p.from \in Machines /\ p.to \in Machines /\ p.box \in Boxes

(***************************************************************************)
(* The parts of a machine.  A socket that is open is empty until it has a  *)
(* name; the semaphores start at 0.                                        *)
(***************************************************************************)
NoCall == [op |-> "none"]

Mail(from, to, box, data) == [from |-> from, to |-> to, box |-> box, data |-> data]

OpenSocket == <<>>

NewSynchList == EmptyList
NewMailBox == NewSynchList

\* Network, then PostOffice.  sendBusy is left out: nothing ever sets it to TRUE.
Running ==
  [up |-> TRUE, sock |-> OpenSocket, inHdr |-> NULL, dones |-> 0,
   available |-> 0, sent |-> 0, worker |-> "P", sending |-> {},
   boxes |-> [b \in Boxes |-> NewMailBox]]

\* What is left once the host has taken back everything the process held.
Dead == [Running EXCEPT !.up = FALSE]

Up(n) == po[n].up

\* A failed ASSERT ends the process; the host drops what it held.
Abort(n) == po' = [po EXCEPT ![n] = Dead]

Set(n, machine) == po' = [po EXCEPT ![n] = machine]

\* Condition::Wait is ASSERT(FALSE).
Wait(n) == Abort(n)

\* Cleanup deletes the post office and its network: ~Network closes the socket
\* and removes its name, ~MailBox throws away the queued mail.
Cleanup(n) == Set(n, Dead)

Init == /\ po = [n \in Machines |-> Dead]
        /\ sends = 0
        /\ boots = 0
        /\ call = NoCall

(***************************************************************************)
(* SynchList on stub locks.  Remove of an empty list calls                 *)
(* Condition::Wait, which is ASSERT(FALSE).                                *)
(***************************************************************************)
SynchAppendMutDrop(l, item) == IF IsEmpty(l) THEN ListAppend(l, item) ELSE l

SynchAppend(l, item) == ListAppend(l, item)

SynchRemove(l) == SortedRemove(l)

(***************************************************************************)
(* class Network.                                                          *)
(***************************************************************************)
\* The constructor binds the socket under the machine's name.
Boot(n) ==
  /\ ~Up(n) /\ boots < MaxBoots
  /\ Set(n, Running)
  /\ boots' = boots + 1
  /\ call' = [op |-> "Start", at |-> n]
  /\ UNCHANGED sends

PollFile(waiting) == waiting # <<>>
PollSocket(m) == PollFile(m.sock)

ReadFromSocket(m) == [m EXCEPT !.inHdr = Head(m.sock), !.sock = Tail(m.sock)]

SendToSocket(machines, p) == [machines EXCEPT ![p.to].sock = Append(@, p)]

\* The handlers PostOffice gives to Network: messageAvailable->V() and
\* messageSent->V().
IncomingPacket(m) == [m EXCEPT !.available = @ + 1]
PacketSent(m) == [m EXCEPT !.sent = @ + 1]

\* Reads a packet unless one is buffered.
CheckPktAvail(m) ==
  IF m.inHdr # NULL \/ ~PollSocket(m) THEN m ELSE IncomingPacket(ReadFromSocket(m))

SendDone(m) == PacketSent([m EXCEPT !.dones = @ - 1])

NetworkReceive(m) == [m EXCEPT !.inHdr = NULL]

\* The machines once the sender's interrupt is scheduled and the packet is out.
NetworkSendMutQuiet(p, lost) ==
  IF lost THEN po ELSE SendToSocket([po EXCEPT ![p.from].dones = @ + 1], p)

NetworkSend(p, lost) ==
  LET scheduled == [po EXCEPT ![p.from].dones = @ + 1]
  IN  IF lost THEN scheduled ELSE SendToSocket(scheduled, p)

(***************************************************************************)
(* class PostOffice: the interrupts, the postal worker and the threads     *)
(* that call Send and Receive.                                             *)
(***************************************************************************)
NetworkReadPoll(n) ==
  /\ Up(n) /\ CheckPktAvail(po[n]) # po[n]
  /\ Set(n, CheckPktAvail(po[n]))
  /\ call' = NoCall
  /\ UNCHANGED <<sends, boots>>

NetworkSendDone(n) ==
  /\ Up(n) /\ po[n].dones > 0
  /\ Set(n, SendDone(po[n]))
  /\ call' = NoCall
  /\ UNCHANGED <<sends, boots>>

\* PostalDelivery: messageAvailable->P(), then the packet goes in its box.
WorkerWakesMutTwo(n) ==
  /\ Up(n) /\ po[n].worker = "P" /\ po[n].available > 1
  /\ Set(n, [po[n] EXCEPT !.available = @ - 1, !.worker = "Receive"])
  /\ call' = NoCall
  /\ UNCHANGED <<sends, boots>>

WorkerWakes(n) ==
  /\ Up(n) /\ po[n].worker = "P" /\ po[n].available > 0
  /\ Set(n, [po[n] EXCEPT !.available = @ - 1, !.worker = "Receive"])
  /\ call' = NoCall
  /\ UNCHANGED <<sends, boots>>

Put(m, p) == [m EXCEPT !.boxes[p.box] = SynchAppend(@, p)]
Get(m, b) == [m EXCEPT !.boxes[b] = SynchRemove(@).list]

PostalDelivery(n) ==
  /\ Up(n) /\ po[n].worker = "Receive"
  /\ Set(n, [Put(NetworkReceive(po[n]), po[n].inHdr) EXCEPT !.worker = "P"])
  /\ call' = NoCall
  /\ UNCHANGED <<sends, boots>>

\* Up to messageSent->P().  Sending to a socket nobody has bound is an error.
Send(n, c, p, lost) ==
  /\ Up(n) /\ c \notin po[n].sending /\ p.from = n /\ sends < MaxSends
  /\ sends' = sends + 1
  /\ \/ /\ lost \/ Up(p.to)
        /\ po' = [NetworkSend(p, lost) EXCEPT ![n].sending = @ \cup {c}]
     \/ /\ ~lost /\ ~Up(p.to)
        /\ Abort(n)
  /\ call' = [op |-> "Send", letter |-> p, lost |-> lost]
  /\ UNCHANGED boots

\* messageSent->P() returns.
SendReturns(n, c) ==
  /\ Up(n) /\ c \in po[n].sending /\ po[n].sent > 0
  /\ Set(n, [po[n] EXCEPT !.sent = @ - 1, !.sending = @ \ {c}])
  /\ call' = NoCall
  /\ UNCHANGED <<sends, boots>>

Receive(n, b) ==
  /\ Up(n) /\ po[n].sending # Clients
  /\ \/ /\ ~IsEmpty(po[n].boxes[b])
        /\ Set(n, Get(po[n], b))
        /\ call' = [op |-> "Receive", at |-> n, box |-> b,
                    letter |-> SynchRemove(po[n].boxes[b]).item]
     \/ /\ IsEmpty(po[n].boxes[b])
        /\ Wait(n)
        /\ call' = [op |-> "Receive", at |-> n, box |-> b, letter |-> NULL]
  /\ UNCHANGED <<sends, boots>>

Halt(n) ==
  /\ Up(n)
  /\ Cleanup(n)
  /\ call' = [op |-> "Halt", at |-> n]
  /\ UNCHANGED <<sends, boots>>

Next ==
  \E n \in Machines :
    \/ Boot(n) \/ NetworkReadPoll(n) \/ NetworkSendDone(n) \/ WorkerWakes(n)
    \/ PostalDelivery(n) \/ Halt(n)
    \/ \E c \in Clients : SendReturns(n, c)
    \/ \E c \in Clients, p \in Packets, lost \in BOOLEAN : Send(n, c, p, lost)
    \/ \E b \in Boxes : Receive(n, b)

Spec == Init /\ [][Next]_vars

\* Network polls again and again, an idle machine runs on to the next
\* interrupt, and the ready list is first come, first served.
Fairness ==
  \A n \in Machines :
    /\ WF_vars(NetworkReadPoll(n)) /\ WF_vars(NetworkSendDone(n))
    /\ WF_vars(WorkerWakes(n)) /\ WF_vars(PostalDelivery(n))
    /\ \A c \in Clients : WF_vars(SendReturns(n, c))

FairSpec == Spec /\ Fairness

-----------------------------------------------------------------------------
(* The sockets, the packet buffers and the semaphores have their types; what *)
(* the linked lists of the mailboxes hold is the business of MailIsQueued.   *)
TypeOK ==
  /\ sends \in 0..MaxSends
  /\ boots \in 0..MaxBoots
  /\ \A n \in Machines :
       /\ po[n].up \in BOOLEAN
       /\ po[n].sock \in Seq(Packets)
       /\ po[n].inHdr \in Packets \cup {NULL}
       /\ {po[n].available, po[n].sent, po[n].dones} \subseteq Nat
       /\ po[n].worker \in {"P", "Receive"}
       /\ po[n].sending \subseteq Clients

(***************************************************************************)
(* The two semaphores count exactly.  messageAvailable counts the buffered *)
(* packet and nothing else: the worker is let through (post.cc:230) only   *)
(* with a packet in Network's one buffer, and no packet is buffered that   *)
(* it will not be let through for.  Every thread inside Send is owed one   *)
(* release of messageSent, given already or scheduled, whether its packet  *)
(* was lost or not: no sender waits for ever and none returns before a     *)
(* packet is out (network.cc:114, post.cc:285).                            *)
(***************************************************************************)
SemaphoresExact ==
  /\ TypeOK
  /\ \A n \in Machines :
       /\ po[n].available + (IF po[n].worker = "Receive" THEN 1 ELSE 0)
            = (IF po[n].inHdr = NULL THEN 0 ELSE 1)
       /\ Cardinality(po[n].sending) = po[n].sent + po[n].dones

(***************************************************************************)
(* From socket through buffer and worker to the box, mail is one queue per *)
(* box, and only the programs' calls change it: Send puts its letter at    *)
(* the end of the box it names unless the network loses it on the way out, *)
(* Receive gets the letter at the front and takes that one.  The poll, the *)
(* interrupts and the postal worker lose, double, reorder and misdirect    *)
(* nothing.  A machine stops only by Halt, by a Send to a machine that is  *)
(* not running and by a Receive from a box with nothing in it              *)
(* (network.cc:64-128, post.cc:190-300, synchlist.cc:54-95).               *)
(***************************************************************************)
Buffered(n) == IF po[n].inHdr = NULL THEN <<>> ELSE <<po[n].inHdr>>
OnItsWay(n, b) ==
  Items(po[n].boxes[b]) \o SelectSeq(Buffered(n) \o po[n].sock, LAMBDA p : p.box = b)

Queues == INSTANCE Mail WITH
            Letters <- Packets,
            running <- [n \in Machines |-> Up(n)],
            arrived <- [n \in Machines |-> {b \in Boxes : ~IsEmpty(po[n].boxes[b])}],
            queue <- [n \in Machines |-> [b \in Boxes |-> OnItsWay(n, b)]]

MailIsQueued == Queues!Spec

(***************************************************************************)
(* A packet in a machine's socket gets to the mailboxes unless the machine *)
(* stops: the poll, the semaphore and the worker never wait for each other *)
(* (network.cc:64-86, post.cc:228-245).                                    *)
(***************************************************************************)
MailArrives ==
  \A n \in Machines :
    po[n].sock # <<>> ~> (po[n].sock = <<>> /\ po[n].inHdr = NULL) \/ ~Up(n)
=============================================================================
