------------------------------ MODULE FlatFiles ------------------------------
(***************************************************************************)
(* What the Nachos file system promises the one thread that uses it: a set *)
(* of named files of fixed length, each a string of bytes of its own.      *)
(* Creating a file fails only for the reasons filesys.cc gives: the name   *)
(* exists, the directory is full, or the disk is.  reply is the call just  *)
(* made, with its arguments and its answer.                                *)
(***************************************************************************)
EXTENDS Integers, Sequences, FiniteSets, FiniteSetsExt

CONSTANTS SectorSize, Capacity, MaxFiles, System,
          Pieces   \* how often the performance test reads its pattern

VARIABLES files,   \* name -> bytes
          reply    \* [op, name, pos, count, bytes, ok]

\* The sectors a file of a length takes, its header included.
Sectors(length) == 1 + ((length + SectorSize - 1) \div SectorSize)
Used == FoldSet(LAMBDA n, sum : sum + Sectors(Len(files[n])), 0, DOMAIN files)

\* n \in names gets a file of that length with arbitrary contents.
Added(n, length) ==
  /\ DOMAIN files' = DOMAIN files \cup {n}
  /\ \A k \in DOMAIN files : files'[k] = files[k]
  /\ Len(files'[n]) = length

Fits(n, length) ==
  /\ n \notin DOMAIN files /\ Cardinality(DOMAIN files) < MaxFiles
  /\ Used + Sectors(length) <= Capacity

CreateFile ==
  /\ reply'.op = "create" /\ reply'.ok = Fits(reply'.name, reply'.count)
  /\ IF reply'.ok THEN Added(reply'.name, reply'.count) ELSE UNCHANGED files

\* A file is created with the given contents.
CopyFile ==
  LET n == reply'.name
  IN  /\ reply'.op = "copy" /\ reply'.ok = Fits(n, Len(reply'.bytes))
      /\ IF reply'.ok THEN Added(n, Len(reply'.bytes)) /\ files'[n] = reply'.bytes
                      ELSE UNCHANGED files

RemoveFile ==
  LET n == reply'.name
  IN  /\ reply'.op = "remove" /\ reply'.ok = (n \in DOMAIN files)
      /\ files' = [k \in DOMAIN files \ {n} |-> files[k]]

OpenFile == reply'.op = "open" /\ reply'.ok = (reply'.name \in DOMAIN files) /\ UNCHANGED files

\* How many of count bytes from pos on are inside a file.
Clip(f, pos, count) == IF pos >= Len(f) THEN 0 ELSE Min({count, Len(f) - pos})

ReadFile ==
  LET f == files[reply'.name]
  IN  /\ reply'.op = "read"
      /\ reply'.bytes = SubSeq(f, reply'.pos + 1, reply'.pos + Clip(f, reply'.pos, reply'.count))
      /\ UNCHANGED files

WriteFile ==
  LET n == Clip(files[reply'.name], reply'.pos, Len(reply'.bytes))
  IN  /\ reply'.op = "write" /\ reply'.count = n
      /\ files' = [files EXCEPT ![reply'.name] =
           [i \in DOMAIN @ |-> IF i > reply'.pos /\ i <= reply'.pos + n
                               THEN reply'.bytes[i - reply'.pos] ELSE @[i]]]

\* The performance test leaves no file of its name.  The file it creates is empty,
\* so it reads back its pattern only from a file that was there before.
PerformanceTest ==
  LET n == reply'.name
      size == Len(reply'.bytes)
      before == IF n \in DOMAIN files THEN files[n] ELSE <<>>
      agree == {k \in 0..Pieces :
                  /\ k * size <= Len(before)
                  /\ \A i \in 1..(k * size) : before[i] = reply'.bytes[((i - 1) % size) + 1]}
  IN  /\ reply'.op = "test" /\ reply'.count = Max(agree)
      /\ reply'.ok = (n \in DOMAIN files \/ Fits(n, 0))
      /\ files' = [k \in DOMAIN files \ {n} |-> files[k]]

\* A restart keeps every file; the console's two files are made again if missing.
Reboot ==
  /\ reply'.op = "boot"
  /\ \A n \in DOMAIN files : n \in DOMAIN files' /\ files'[n] = files[n]
  /\ \A n \in DOMAIN files' \ DOMAIN files : n \in System /\ files'[n] = <<>>

Init == reply.op = "boot" /\ DOMAIN files = System

Next == CreateFile \/ CopyFile \/ RemoveFile \/ OpenFile \/ ReadFile \/ WriteFile
        \/ PerformanceTest \/ Reboot

Spec == Init /\ [][Next]_<<files, reply>>
=============================================================================
