--------------------------- MODULE MCProcessTable ---------------------------
(***************************************************************************)
(* Instances of ProcessTable for TLC.                                      *)
(***************************************************************************)
EXTENDS ProcessTable, TLC

CONSTANTS t1, t2, t3, t4

\* Threads other than Main are interchangeable.
MCSymmetry == Permutations({t2, t3, t4})

=============================================================================
