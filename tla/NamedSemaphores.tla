--------------------------- MODULE NamedSemaphores ---------------------------
(***************************************************************************)
(* What CreateSemaphore, Up and Down promise to user programs              *)
(* (userprog/syscall.h, userprog/stable.h, threads/synch.h): every name is *)
(* a counter that Up increments and Down decrements, atomically, waiting   *)
(* while it is zero, so that it is never negative.                         *)
(***************************************************************************)
EXTENDS Integers

CONSTANTS Name, Undef

VARIABLE val    \* val[n]: the counter, or Undef while n has not been created

Init == val = [n \in Name |-> Undef]

Create(n) ==
    /\ val[n] = Undef
    /\ val'[n] \in Nat
    /\ val' = [val EXCEPT ![n] = val'[n]]

Up(n) ==
    /\ val[n] # Undef
    /\ val' = [val EXCEPT ![n] = @ + 1]

Down(n) ==
    /\ val[n] # Undef
    /\ val[n] > 0
    /\ val' = [val EXCEPT ![n] = @ - 1]

Next == \E n \in Name : Create(n) \/ Up(n) \/ Down(n)

Spec == Init /\ [][Next]_val

=============================================================================
