----------------------------- MODULE FileCursors -----------------------------
(***************************************************************************)
(* What the file system calls of userprog/syscall.h promise a program that *)
(* goes on running: a file is a string of bytes, an OpenFileId is a cursor *)
(* over one file, and a call moves the cursor it names by exactly the      *)
(* number of bytes it reports.  Two ids open on one file share its bytes   *)
(* and nothing else.  A call is in the registers: its number in reg[2],    *)
(* its arguments in reg[4] to reg[6], its result in reg[2] afterwards.     *)
(***************************************************************************)
EXTENDS Integers, Sequences

CONSTANTS Slots,      \* the values of OpenFileId
          NUL,        \* the zero byte
          NULL        \* an id that is not open

VARIABLES files,      \* name -> the bytes of that file
          cursor,     \* id -> NULL or [name, pos]
          reg,        \* the registers of the call
          mem,        \* the program's memory
          status      \* "trap" during a call, "user" once it has returned

absVars == <<files, cursor, reg, mem, status>>

SmallerOf(a, b) == IF a < b THEN a ELSE b

\* The bytes of f after data was written at offset pos; a gap reads as zeros.
Overlay(f, pos, data) ==
  LET end == pos + Len(data)
  IN  [i \in 1..(IF end > Len(f) THEN end ELSE Len(f)) |->
         IF i > pos /\ i <= end THEN data[i - pos] ELSE IF i <= Len(f) THEN f[i] ELSE NUL]

Init == status = "user" /\ \A i \in Slots : cursor[i] = NULL \/ cursor[i].pos = 0

\* The string at the address in reg[4] is n.
NameAt(n) ==
  /\ \A k \in 0..Len(n) : reg[4] + k \in DOMAIN mem
  /\ mem[reg[4] + Len(n)] = NUL
  /\ \A k \in DOMAIN n : n[k] # NUL /\ mem[reg[4] + k - 1] = n[k]

\* The bytes a Write is given.
Buffer == [k \in 1..reg[5] |-> mem[reg[4] + k - 1]]

CreateNamed(n) ==
  /\ reg[2] = 4 /\ reg'[2] = 0
  /\ files' = [m \in DOMAIN files \cup {n} |-> IF m = n THEN <<>> ELSE files[m]]
  /\ UNCHANGED <<cursor, mem>>

CreateFile == \E n \in DOMAIN files' : n # <<>> /\ NameAt(n) /\ CreateNamed(n)

OpenFile(i) ==
  /\ reg[2] = 5 /\ reg'[2] = i
  /\ cursor[i] = NULL
  /\ \E n \in DOMAIN files :
       NameAt(n) /\ cursor' = [cursor EXCEPT ![i] = [name |-> n, pos |-> 0]]
  /\ UNCHANGED <<files, mem>>

CloseFile(i) ==
  /\ reg[2] = 8 /\ reg[4] = i /\ reg'[2] = 0
  /\ cursor[i] # NULL
  /\ cursor' = [cursor EXCEPT ![i] = NULL]
  /\ UNCHANGED <<files, mem>>

\* A Read returns all that is left, up to what was asked, and -2 for nothing
\* (exception.cc:344).  What it puts in memory is not described here.
ReadFile(i) ==
  LET n == SmallerOf(reg[5], Len(files[cursor[i].name]) - cursor[i].pos)
  IN  /\ reg[2] = 6 /\ reg[6] = i
      /\ reg'[2] = IF n > 0 THEN n ELSE -2
      /\ cursor' = [cursor EXCEPT ![i].pos = @ + (IF n > 0 THEN n ELSE 0)]
      /\ UNCHANGED files

WriteFile(i, data) ==
  /\ reg[2] = 7 /\ reg[6] = i /\ cursor[i] # NULL
  /\ data # <<>> => reg'[2] = Len(data)
  /\ files' = IF data = <<>> THEN files
              ELSE [files EXCEPT ![cursor[i].name] = Overlay(@, cursor[i].pos, data)]
  /\ cursor' = [cursor EXCEPT ![i].pos = @ + Len(data)]
  /\ UNCHANGED mem

\* A Seek puts the cursor where it says it did: the position asked or the end.
SeekFile(i) ==
  /\ reg[2] = 20 /\ reg[5] = i
  /\ reg'[2] = IF reg[4] = -1 THEN Len(files[cursor[i].name]) ELSE reg[4]
  /\ cursor' = [cursor EXCEPT ![i].pos = reg'[2]]
  /\ UNCHANGED <<files, mem>>

\* A program gets -1 for a name or an id that names nothing.
Refuse ==
  /\ reg'[2] = -1
  /\ \/ reg[2] = 4 /\ NameAt(<<>>)
     \/ reg[2] = 5 /\ \A n \in DOMAIN files : ~NameAt(n)
     \/ reg[2] = 8 /\ (reg[4] \notin Slots \/ cursor[reg[4]] = NULL)
  /\ UNCHANGED <<files, cursor, mem>>

FileCall ==
  \/ CreateFile \/ Refuse
  \/ \E i \in Slots : \/ OpenFile(i) \/ CloseFile(i)
                      \/ cursor[i] # NULL /\ (ReadFile(i) \/ SeekFile(i))
                      \/ cursor[i] # NULL /\ WriteFile(i, Buffer)

\* Every other call, and everything that is not the return of a call to the program,
\* leave the files and the cursors alone.
IsFileCall == status = "trap" /\ status' = "user" /\ reg[2] \in {4, 5, 6, 7, 8, 20}

Next == IF IsFileCall THEN FileCall ELSE UNCHANGED <<files, cursor>>

Spec == Init /\ [][Next]_absVars
=============================================================================
