----------------------------- MODULE MCFileSys -----------------------------
(***************************************************************************)
(* A disk of ten sectors of two bytes.  After formatting four are left, so *)
(* that two files of one byte (header and one sector each) fill it, and a  *)
(* copied file of three bytes leaves too little for another.  The names b1 *)
(* and b2, the performance test's, differ only behind FileNameMaxLen.      *)
(***************************************************************************)
EXTENDS FileSys, TLC

CONSTANTS a, c

MCNames == {a, "b1", c}
MCFileName(name) == IF name \in {"b1", "b2"} THEN "b" ELSE name
MCWrites == {<<1>>, <<1, 1>>}
MCSources == {<<0, 1, 1>>}
MCTestContents == <<0, 1>>

\* The short names a and c are only compared with each other.
MCSymmetry == Permutations({a, c})

\* reply is output only: no action reads it, and every step's reply is checked.
StateView == <<disk, openState, handle>>
=============================================================================
