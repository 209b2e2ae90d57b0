---------------------------- MODULE MCInterrupt ----------------------------
(***************************************************************************)
(* Two threads, of which w1 uses the disk, on a disk of two tracks with    *)
(* three sectors each; the clock is scaled down, its ratios kept apart.    *)
(***************************************************************************)
EXTENDS Interrupt

CONSTANTS w1, w2

MCNodes == 1..4
=============================================================================
