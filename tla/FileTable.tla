------------------------------ MODULE FileTable ------------------------------
(***************************************************************************)
(* The file system the kernel is built with (FILESYS_STUB): a table of ten *)
(* open files in filesys/filesys.h, the OpenFile objects of                *)
(* filesys/openfile.h, and the UNIX calls of machine/sysdep.cc below them. *)
(* Everything is an operator on a record c that has at least the fields    *)
(*   host       name -> bytes, for the UNIX files that exist               *)
(*   fd         UNIX descriptor -> NULL or [name, pos]                     *)
(*   openState  table slot -> NULL or [file, type, currentOffset]          *)
(***************************************************************************)
EXTENDS Integers, Sequences, FiniteSets, FiniteSetsExt, TLC

CONSTANTS NumSlots,   \* 10 in the code
          MaxFd,      \* the UNIX descriptors the host hands out
          NULL        \* no object, no file

ASSUME FileTableAssumption == NumSlots > 2 /\ MaxFd > NumSlots

Slots == 0..(NumSlots - 1)
Fds == 0..(MaxFd - 1)
NUL == 0
StdinName == <<115, 116, 100, 105, 110>>
StdoutName == <<115, 116, 100, 111, 117, 116>>

(* machine/sysdep.cc: the host gives the lowest free descriptor.           *)

FreeFd(c) == Min({f \in Fds : c.fd[f] = NULL})

OpenForWrite(c, name) ==
  [c EXCEPT !.host = (name :> <<>>) @@ @,
            !.fd[FreeFd(c)] = [name |-> name, pos |-> 0]]

OpenForReadWrite(c, name) ==
  [c EXCEPT !.fd[FreeFd(c)] = [name |-> name, pos |-> 0]]

Close(c, f) == [c EXCEPT !.fd[f] = NULL]

Bytes(c, f) == c.host[c.fd[f].name]

Tell(c, f) == c.fd[f].pos

Lseek(c, f, offset, whence) ==
  [c EXCEPT !.fd[f].pos = offset + (IF whence = 2 THEN Len(Bytes(c, f)) ELSE 0)]

\* What read(2) returns at the descriptor's position, at most n bytes.
ReadPartial(c, f, n) ==
  SubSeq(Bytes(c, f), Tell(c, f) + 1, Min({Tell(c, f) + n, Len(Bytes(c, f))}))

\* write(2): bytes past the old end that were never written read as zeros.
WriteFile(c, f, buffer) ==
  LET old == Bytes(c, f)
      pos == Tell(c, f)
      before == SubSeq(old, 1, Min({pos, Len(old)}))
      gap == [i \in 1..(pos - Len(old)) |-> NUL]
      behind == SubSeq(old, pos + Len(buffer) + 1, Len(old))
      new == IF buffer = <<>> THEN old ELSE before \o gap \o buffer \o behind
  IN  [c EXCEPT !.host[c.fd[f].name] = new, !.fd[f].pos = pos + Len(buffer)]

(* filesys/openfile.h: i is the slot whose OpenFile the method is called on. *)

File(c, i) == c.openState[i].file

Seek(c, i, pos) ==
  [Lseek(c, File(c, i), pos, 0) EXCEPT !.openState[i].currentOffset = pos]

GetCurrentPos(c, i) ==
  [c EXCEPT !.openState[i].currentOffset = Tell(c, File(c, i))]

ReadMutAsked(c, i, numBytes) ==
  LET at == Lseek(c, File(c, i), c.openState[i].currentOffset, 0)
      into == ReadPartial(at, File(c, i), numBytes)
  IN  [into |-> into,
       c |-> [at EXCEPT !.fd[File(c, i)].pos = @ + Len(into),
                        !.openState[i].currentOffset = @ + numBytes]]

\* OpenFile::Read with ReadAt: the bytes and the state after it.
Read(c, i, numBytes) ==
  LET at == Lseek(c, File(c, i), c.openState[i].currentOffset, 0)
      into == ReadPartial(at, File(c, i), numBytes)
  IN  [into |-> into,
       c |-> [at EXCEPT !.fd[File(c, i)].pos = @ + Len(into),
                        !.openState[i].currentOffset = @ + Len(into)]]

\* OpenFile::Write with WriteAt.
Write(c, i, from) ==
  LET at == Lseek(c, File(c, i), c.openState[i].currentOffset, 0)
  IN  [WriteFile(at, File(c, i), from) EXCEPT !.openState[i].currentOffset = @ + Len(from)]

\* OpenFile::Length seeks to the end, asks where that is, and seeks back.
Length(c, i) ==
  LET end == Lseek(c, File(c, i), 0, 2)
  IN  [len |-> Tell(end, File(c, i)),
       c |-> Lseek(end, File(c, i), c.openState[i].currentOffset, 0)]

(* filesys/filesys.h                                                       *)

Create(c, name) == Close(OpenForWrite(c, name), FreeFd(c))

CanOpen(c, name) == name \in DOMAIN c.host

\* openState[i] = Open(name, type), for a name that can be opened.
OpenInto(c, i, name, type) ==
  [OpenForReadWrite(c, name) EXCEPT
     !.openState[i] = [file |-> FreeFd(c), type |-> type, currentOffset |-> 0]]

FreeSlots(c) == {i \in Slots : i >= 2 /\ c.openState[i] = NULL}

FindFreeSlot(c) == IF FreeSlots(c) = {} THEN -1 ELSE Min(FreeSlots(c))

\* delete openState[i]; openState[i] = NULL
DeleteSlot(c, i) == [Close(c, File(c, i)) EXCEPT !.openState[i] = NULL]

\* The constructor, on a host with the files of initial.
FileSystem(initial) ==
  LET empty == [host |-> initial, fd |-> [f \in Fds |-> NULL],
                openState |-> [i \in Slots |-> NULL]]
      made == Create(Create(empty, StdinName), StdoutName)
  IN  OpenInto(OpenInto(made, 0, StdinName, 2), 1, StdoutName, 3)

(***************************************************************************)
(* Every UNIX descriptor the host holds belongs to exactly one open slot:  *)
(* no call of the file table loses a descriptor (Create closes the one it  *)
(* opens, Close the one of its slot) and no two slots share one.           *)
(***************************************************************************)
DescriptorsOwned(c) ==
  \A f \in Fds :
    Cardinality({i \in Slots : c.openState[i] # NULL /\ File(c, i) = f})
      = IF c.fd[f] = NULL THEN 0 ELSE 1

(***************************************************************************)
(* Between two calls the offset an OpenFile keeps and the position of its  *)
(* UNIX descriptor agree, although Read, Write and Length move one and     *)
(* then the other, and GetCurrentPos copies one onto the other.            *)
(***************************************************************************)
OffsetsAgree(c) ==
  \A i \in Slots : c.openState[i] # NULL =>
    c.openState[i].currentOffset = Tell(c, File(c, i))
=============================================================================
