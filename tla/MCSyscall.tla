----------------------------- MODULE MCSyscall -----------------------------
(***************************************************************************)
(* The system calls with a table of two free slots, two bytes of user      *)
(* memory, names of at most one character and 5-bit ints.  Every call gets *)
(* good and bad arguments; 97 is the letter a.                             *)
(***************************************************************************)
EXTENDS Syscall

Reg(code, a, b, d) == [r \in {2, 4, 5, 6} |->
                         IF r = 2 THEN code ELSE IF r = 4 THEN a ELSE IF r = 5 THEN b ELSE d]
Mem(x, y) == [a \in 0..1 |-> IF a = 0 THEN x ELSE y]
Mems == {Mem(0, 0), Mem(97, 0), Mem(97, 97), Mem(0, 97)}

WithName(codes, types) ==
  {[reg |-> Reg(code, a, t, 0), mem |-> m] :
     code \in codes, a \in {0, 1}, t \in types, m \in {Mem(0, 0), Mem(97, 0), Mem(97, 97)}}

MCCalls ==
  WithName({SC.Create, SC.Exec}, {0}) \cup WithName({SC.Open}, {0, 2})
  \cup {[reg |-> Reg(SC.Close, i, 0, 0), mem |-> Mem(0, 0)] : i \in {-1, 0, 2, 3, 4}}
  \cup {[reg |-> Reg(SC.Read, a, n, i), mem |-> Mem(97, 97)] :
          a \in {0, 1}, n \in {-1, 0, 2}, i \in 0..4}
  \cup {[reg |-> Reg(SC.Write, 0, n, i), mem |-> m] :
          n \in {-1, 0, 1, 2}, i \in 0..3, m \in {Mem(97, 97), Mem(0, 97), Mem(97, 0)}}
  \cup {[reg |-> Reg(SC.Seek, p, i, 0), mem |-> Mem(0, 0)] : p \in {-2, -1, 0, 2}, i \in {0, 2, 3, 9}}
  \cup {[reg |-> Reg(SC.PrintInt, n, 0, 0), mem |-> Mem(0, 0)] : n \in {MinInt, -11, 0, 10, MaxInt}}
  \cup {[reg |-> Reg(code, 0, 2, 0), mem |-> m] :
          code \in {SC.ReadInt, SC.ReadChar, SC.ReadString, SC.PrintString}, m \in {Mem(0, 0), Mem(97, 97)}}
  \cup {[reg |-> Reg(code, 97, 0, 0), mem |-> Mem(0, 0)] :
          code \in {SC.Halt, SC.Exit, SC.Join, SC.Up, SC.PrintChar, 9}}
  \cup {[reg |-> Reg(SC.Exit, 0, 0, 0), mem |-> Mem(0, 0)]}
  \cup {[reg |-> Reg(code, 0, 0, 0), mem |-> Mem(97, 0)] :
          code \in {SC.CreateSemaphore, SC.Up, SC.Down}}

MCLines == {<<>>, <<97>>, <<45>>, <<45, 49>>, <<57, 57>>, <<49, 97>>}
MCHost == <<97>> :> <<97, 97>>
=============================================================================
