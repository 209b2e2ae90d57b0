----------------------------- MODULE MCAddrSpace -----------------------------
(***************************************************************************)
(* Instances of AddrSpace for TLC.                                         *)
(***************************************************************************)
EXTENDS AddrSpace, TLC

CONSTANTS t1, t2, t3, t4

\* Programs with and without initialized data, one that is larger than the memory,
\* and one that the bitmap has too few bits for.
MCProgram == {[code |-> 1, data |-> 1, rest |-> 1],
              [code |-> 1, data |-> 0, rest |-> 1],
              [code |-> 2, data |-> 2, rest |-> 0],
              [code |-> 1, data |-> 0, rest |-> 4],
              [code |-> 1, data |-> 0, rest |-> 8]}

\* Threads other than Main are interchangeable.
MCSymmetry == Permutations({t2, t3, t4})

=============================================================================
