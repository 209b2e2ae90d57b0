------------------------------ MODULE MCThreads ------------------------------
(***************************************************************************)
(* Instances of Threads for TLC.                                           *)
(***************************************************************************)
EXTENDS Threads, TLC

CONSTANTS t1, t2, t3, t4, s1, s2

\* s1 guards a critical section and counts up to MaxValue, s2 is signalled by a
\* device and starts at zero.
MCInitVal == s1 :> 1 @@ s2 :> 0

=============================================================================
