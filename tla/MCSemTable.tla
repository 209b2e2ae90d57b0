----------------------------- MODULE MCSemTable -----------------------------
(***************************************************************************)
(* Instances of SemTable for TLC.                                          *)
(***************************************************************************)
EXTENDS SemTable

CONSTANTS t1, t2, t3, n1, n2, n3

\* SC_CreateSemaphore tests no sign: a program may ask for a negative value.
MCInitialValues == {-1, 0, 1}

=============================================================================
