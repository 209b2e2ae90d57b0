---------------------------- MODULE MCPostOffice ----------------------------
(***************************************************************************)
(* Two machines with two mailboxes and two client threads each.  A sends   *)
(* two different letters to one box of B and one to the other, B sends one *)
(* letter to A; three letters in all.  One of three starts is a restart.   *)
(***************************************************************************)
EXTENDS PostOffice

CONSTANTS A, B

MCPackets == {Mail(A, B, 0, "hello"), Mail(A, B, 0, "ack"), Mail(A, B, 1, "hello"),
              Mail(B, A, 0, "hello")}
MCNodes == 1..3
=============================================================================
