-------------------------------- MODULE Mail --------------------------------
(***************************************************************************)
(* What the post office promises: every mailbox of a running machine is a  *)
(* queue.  A letter sent to it is put at the end or lost, and is received  *)
(* from the front, once it is there and once only.  call is the call a     *)
(* program makes in a step, with the letter it gives or gets.              *)
(***************************************************************************)
EXTENDS Naturals, Sequences

CONSTANTS Machines, Boxes, NULL,
          Letters,        \* what may be sent: records with from, to and box
          NoCall          \* no program makes a call

VARIABLES running, queue,
          arrived,        \* the boxes of each machine whose first letter is there
          call
absVars == <<running, queue, arrived, call>>

NoMail == [b \in Boxes |-> <<>>]

Init == /\ running = [n \in Machines |-> FALSE]
        /\ queue = [n \in Machines |-> NoMail]
        /\ arrived = [n \in Machines |-> {}]
        /\ call = NoCall

\* A machine that stops takes its mail with it.
Stops(n) ==
  /\ running[n] /\ running' = [running EXCEPT ![n] = FALSE]
  /\ queue' = [queue EXCEPT ![n] = NoMail]
  /\ arrived' = [arrived EXCEPT ![n] = {}]

Start(n) ==
  /\ call' = [op |-> "Start", at |-> n]
  /\ ~running[n] /\ running' = [running EXCEPT ![n] = TRUE]
  /\ UNCHANGED <<queue, arrived>>

Halt(n) == call' = [op |-> "Halt", at |-> n] /\ Stops(n)

\* The host refuses to send to a machine that is not there, and the sender stops.
Send(p, lost) ==
  /\ call' = [op |-> "Send", letter |-> p, lost |-> lost]
  /\ running[p.from]
  /\ IF lost THEN UNCHANGED <<running, queue, arrived>>
     ELSE IF running[p.to]
     THEN /\ queue' = [queue EXCEPT ![p.to][p.box] = Append(@, p)]
          /\ UNCHANGED <<running, arrived>>
     ELSE Stops(p.from)

\* No thread can wait for mail: a Receive from an empty box stops the machine.
Receive(n, b) ==
  \/ /\ b \in arrived[n]
     /\ call' = [op |-> "Receive", at |-> n, box |-> b, letter |-> Head(queue[n][b])]
     /\ queue' = [queue EXCEPT ![n][b] = Tail(@)]
     /\ arrived' \in {arrived, [arrived EXCEPT ![n] = @ \ {b}]}
     /\ Len(queue[n][b]) = 1 => b \notin arrived'[n]
     /\ UNCHANGED running
  \/ /\ b \notin arrived[n]
     /\ call' = [op |-> "Receive", at |-> n, box |-> b, letter |-> NULL]
     /\ Stops(n)

\* Letters on their way get nearer.
Deliver ==
  /\ call' = NoCall
  /\ UNCHANGED <<running, queue>>
  /\ \A n \in Machines :
       /\ arrived[n] \subseteq arrived'[n]
       /\ \A b \in arrived'[n] \ arrived[n] : queue[n][b] # <<>>

Next ==
  \/ Deliver
  \/ \E n \in Machines : Start(n) \/ Halt(n) \/ \E b \in Boxes : Receive(n, b)
  \/ \E p \in Letters, lost \in BOOLEAN : Send(p, lost)

Spec == Init /\ [][Next]_absVars
=============================================================================
