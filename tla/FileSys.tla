------------------------------- MODULE FileSys -------------------------------
(***************************************************************************)
(* The Nachos file system (filesys/filesys.cc, directory.cc, filehdr.cc,   *)
(* openfile.cc and userprog/bitmap.cc) on the disk below it.  It is        *)
(* documented to have no synchronisation, so one thread uses it and one    *)
(* operation is one step.  A sector is [as, v]: bytes, a file header, the  *)
(* bitmap of marked sectors, or the directory's table; the bitmap and the  *)
(* directory each fit in one sector, as they do in the code.               *)
(***************************************************************************)
EXTENDS Integers, Sequences, FiniteSets, FiniteSetsExt

CONSTANTS NumSectors, SectorSize, NumDirEntries, NumSlots,
          Names,        \* the names a program may use
          FileName(_),  \* a name as strncmp and strncpy keep it: its first characters
          Handles,      \* the program's OpenFile pointers
          Byte, Sizes, Counts, Writes, Positions,  \* what Create, Read, Write and Seek get
          Sources, TransferSize,  \* the UNIX files Copy reads, and its buffer's size
          TestFile, TestContents, Pieces,  \* PerformanceTest: name, pattern, repetitions
          NULL

VARIABLES disk,       \* sector -> [as, v]
          openState,  \* slot -> NULL or the OpenFile: [hdr, seekPosition, name]
          handle,     \* handle -> NULL or the OpenFile
          reply       \* the last call, its arguments and its answer

vars == <<disk, openState, handle, reply>>

Sectors == 0..(NumSectors - 1)
Slots == 0..(NumSlots - 1)
FreeMapSector == 0
DirectorySector == 1
Data(bytes) == [as |-> "data", v |-> bytes]
AnyBytes == [i \in 1..SectorSize |-> CHOOSE b \in Byte : TRUE]
AsBytes(sector) == IF sector.as = "data" THEN sector.v ELSE AnyBytes

(* userprog/bitmap.cc: a bitmap is the set of its marked bits.             *)

ClearBits(map) == Sectors \ map
Find(map) == IF ClearBits(map) = {} THEN -1 ELSE Min(ClearBits(map))
NumClear(map) == Cardinality(ClearBits(map))
Mark(map, which) == map \cup {which}
Clear(map, which) == map \ {which}

(* filesys/filehdr.cc                                                      *)

NumberOfSectors(fileSize) == (fileSize + SectorSize - 1) \div SectorSize

\* Allocate, when there is room: Find, numSectors times.
LowestClear(map, n) ==
  LET pick[k \in 0..n] == IF k = 0 THEN <<>>
                          ELSE Append(pick[k - 1], Min(ClearBits(map) \ {pick[k - 1][i] : i \in 1..(k - 1)}))
  IN  pick[n]

Allocate(map, fileSize) ==
  LET secs == LowestClear(map, NumberOfSectors(fileSize))
  IN  [hdr |-> [numBytes |-> fileSize, dataSectors |-> secs],
       map |-> map \cup {secs[i] : i \in DOMAIN secs}]

HeaderSectors(hdr) == {hdr.dataSectors[i] : i \in DOMAIN hdr.dataSectors}
Deallocate(map, hdr) == map \ HeaderSectors(hdr)
FetchHeader(d, sector) == d[sector].v
WriteHeader(d, sector, hdr) == [d EXCEPT ![sector] = [as |-> "hdr", v |-> hdr]]
ByteToSector(hdr, offset) == hdr.dataSectors[(offset \div SectorSize) + 1]
FileLength(hdr) == hdr.numBytes

(* filesys/openfile.cc                                                     *)

OpenFile(d, sector, name) ==
  [hdr |-> FetchHeader(d, sector), seekPosition |-> 0, name |-> name]

Clipped(hdr, numBytes, position) ==
  IF numBytes <= 0 \/ position >= FileLength(hdr) THEN 0
  ELSE Min({numBytes, FileLength(hdr) - position})

\* Byte number offset of the file, fetched from its sector.
ByteAt(d, hdr, offset) == AsBytes(d[ByteToSector(hdr, offset)])[(offset % SectorSize) + 1]

ReadAt(d, hdr, numBytes, position) ==
  [i \in 1..Clipped(hdr, numBytes, position) |-> ByteAt(d, hdr, position + i - 1)]

\* Which of the first and last sectors WriteAt reads before it changes them.
LoadFirst(position) == position % SectorSize # 0

LoadLastMutOne(position, n) == (position + n) % SectorSize # 0
  /\ position \div SectorSize # (position + n - 1) \div SectorSize

LoadLast(position, n) ==
  /\ (position + n) % SectorSize # 0
  /\ \/ position \div SectorSize # (position + n - 1) \div SectorSize
     \/ position % SectorSize = 0

\* g: what the new buffer happens to hold where nothing was read into it.
WriteAt(d, hdr, from, position, g) ==
  LET n == Clipped(hdr, Len(from), position)
      first == position \div SectorSize
      last == (position + n - 1) \div SectorSize
      loaded(o) == /\ o < FileLength(hdr)
                   /\ \/ LoadFirst(position) /\ o \div SectorSize = first
                      \/ LoadLast(position, n) /\ o \div SectorSize = last
      buf(o) == IF o >= position /\ o < position + n THEN from[o - position + 1]
                ELSE IF loaded(o) THEN ByteAt(d, hdr, o) ELSE g
      sectorOf(s) == CHOOSE k \in first..last : hdr.dataSectors[k + 1] = s
  IN  IF n = 0 THEN d
      ELSE [s \in Sectors |->
              IF \E k \in first..last : hdr.dataSectors[k + 1] = s
              THEN Data([i \in 1..SectorSize |-> buf((sectorOf(s) * SectorSize) + i - 1)])
              ELSE d[s]]

(* The two system files hold one structure each, in their only sector.     *)

FetchFrom(d, sector) == d[ByteToSector(FetchHeader(d, sector), 0)].v
WriteBack(d, sector, what, value) ==
  [d EXCEPT ![ByteToSector(FetchHeader(d, sector), 0)] = [as |-> what, v |-> value]]
FreeMap(d) == FetchFrom(d, FreeMapSector)
Directory(d) == FetchFrom(d, DirectorySector)

(* filesys/directory.cc                                                    *)

Entries == 1..NumDirEntries
DirectoryEntry(inUse, name, sector) == [inUse |-> inUse, name |-> name, sector |-> sector]
EmptyTable == [i \in Entries |-> DirectoryEntry(FALSE, NULL, 0)]

Matching(table, name) == {i \in Entries : table[i].inUse /\ table[i].name = FileName(name)}
FindIndex(table, name) == IF Matching(table, name) = {} THEN -1 ELSE Min(Matching(table, name))
DirFind(table, name) ==
  IF FindIndex(table, name) = -1 THEN -1 ELSE table[FindIndex(table, name)].sector
FreeEntries(table) == {i \in Entries : ~table[i].inUse}
DirAdd(table, name, sector) ==
  [table EXCEPT ![Min(FreeEntries(table))] = DirectoryEntry(TRUE, FileName(name), sector)]
DirRemove(table, name) == [table EXCEPT ![FindIndex(table, name)].inUse = FALSE]

(* filesys/filesys.cc                                                      *)

\* The tests of Create: the name is new, a sector is left for the header, the
\* directory has an entry left, and there is room for the data.
HasRoom(table, name, map, initialSize) ==
  /\ DirFind(table, name) = -1
  /\ Find(map) # -1
  /\ FreeEntries(table) # {}
  /\ NumClear(Mark(map, Find(map))) >= NumberOfSectors(initialSize)

\* Create: whether it succeeds, and the disk after it.
Create(d, name, initialSize) ==
  LET table == Directory(d)
      map == FreeMap(d)
      sector == Find(map)
      new == Allocate(Mark(map, sector), initialSize)
      ok == HasRoom(table, name, map, initialSize)
  IN  [ok |-> ok,
       disk |-> IF ~ok THEN d
                ELSE WriteBack(WriteBack(WriteHeader(d, sector, new.hdr),
                                         DirectorySector, "dir", DirAdd(table, name, sector)),
                               FreeMapSector, "map", new.map)]

RemoveMutHeader(d, name) ==
  LET map == Deallocate(FreeMap(d), FetchHeader(d, DirFind(Directory(d), name)))
  IN  WriteBack(WriteBack(d, FreeMapSector, "map", map),
                DirectorySector, "dir", DirRemove(Directory(d), name))

\* Remove of a name that is in the directory.
Remove(d, name) ==
  LET sector == DirFind(Directory(d), name)
      map == Clear(Deallocate(FreeMap(d), FetchHeader(d, sector)), sector)
  IN  WriteBack(WriteBack(d, FreeMapSector, "map", map),
                DirectorySector, "dir", DirRemove(Directory(d), name))

FreeSlots(slots) == {i \in Slots : i >= 2 /\ slots[i] = NULL}
FindFreeSlot(slots) == IF FreeSlots(slots) = {} THEN -1 ELSE Min(FreeSlots(slots))

\* Open(name, type), which itself stores what it opened in the first free slot.
OpenTyped(d, slots, name) ==
  LET sector == DirFind(Directory(d), name)
  IN  IF sector = -1 THEN slots
      ELSE [slots EXCEPT ![FindFreeSlot(slots)] = OpenFile(d, sector, FileName(name))]

\* openState[i] = Open(name, type): NULL when the name is not found.
OpenAt(d, slots, i, name) ==
  [OpenTyped(d, slots, name) EXCEPT ![i] = OpenTyped(d, slots, name)[FindFreeSlot(slots)]]

\* The constructor with format: the two system files, allocated and written.
Formatted ==
  LET map0 == Mark(Mark({}, FreeMapSector), DirectorySector)
      mapFile == Allocate(map0, 1)
      dirFile == Allocate(mapFile.map, 1)
      blank == [s \in Sectors |-> Data(AnyBytes)]
      headers == WriteHeader(WriteHeader(blank, FreeMapSector, mapFile.hdr),
                             DirectorySector, dirFile.hdr)
  IN  WriteBack(WriteBack(headers, FreeMapSector, "map", dirFile.map),
                DirectorySector, "dir", EmptyTable)

\* The rest of it: slots 0 and 1 are opened before the files are created.
BootSlots(d) ==
  OpenAt(d, OpenAt(d, [i \in Slots |-> NULL], 0, "stdin"), 1, "stdout")
BootDisk(d) == Create(Create(d, "stdin", 0).disk, "stdout", 0).disk

-----------------------------------------------------------------------------
Answer(op, name, pos, count, bytes, ok) ==
  [op |-> op, name |-> name, pos |-> pos, count |-> count, bytes |-> bytes, ok |-> ok]

Init ==
  /\ disk = BootDisk(Formatted)
  /\ openState = BootSlots(Formatted)
  /\ handle = [h \in Handles |-> NULL]
  /\ reply = Answer("boot", NULL, 0, 0, <<>>, TRUE)

\* The machine stops between two operations and starts again without -f.
Reboot ==
  /\ disk' = BootDisk(disk)
  /\ openState' = BootSlots(disk)
  /\ handle' = [h \in Handles |-> NULL]
  /\ reply' = Answer("boot", NULL, 0, 0, <<>>, TRUE)

CreateFile(name, size) ==
  LET made == Create(disk, name, size)
  IN  /\ disk' = made.disk
      /\ reply' = Answer("create", FileName(name), 0, size, <<>>, made.ok)
      /\ UNCHANGED <<openState, handle>>

\* Nothing keeps a file that is open from being removed; programs must not do it.
NotOpen(name) ==
  /\ \A h \in Handles : handle[h] # NULL => handle[h].name # FileName(name)
  /\ \A i \in Slots : openState[i] # NULL => openState[i].name # FileName(name)

RemoveFile(name) ==
  LET found == DirFind(Directory(disk), name) # -1
  IN  /\ NotOpen(name)
      /\ disk' = IF found THEN Remove(disk, name) ELSE disk
      /\ reply' = Answer("remove", FileName(name), 0, 0, <<>>, found)
      /\ UNCHANGED <<openState, handle>>

\* Open(name); the program keeps the pointer.
OpenHandle(h, name) ==
  LET sector == DirFind(Directory(disk), name)
  IN  /\ handle[h] = NULL
      /\ handle' = [handle EXCEPT ![h] =
                      IF sector = -1 THEN NULL ELSE OpenFile(disk, sector, FileName(name))]
      /\ reply' = Answer("open", FileName(name), 0, 0, <<>>, sector # -1)
      /\ UNCHANGED <<disk, openState>>

\* Open(name, type) by the Open system call, with a slot left.
OpenSlot(name) ==
  /\ FindFreeSlot(openState) # -1
  /\ openState' = OpenTyped(disk, openState, name)
  /\ reply' = Answer("open", FileName(name), 0, 0, <<>>, openState' # openState)
  /\ UNCHANGED <<disk, handle>>

CloseHandle(h) ==
  /\ handle[h] # NULL
  /\ handle' = [handle EXCEPT ![h] = NULL]
  /\ UNCHANGED <<disk, openState, reply>>

SeekHandle(h, position) ==
  /\ handle[h] # NULL
  /\ handle' = [handle EXCEPT ![h].seekPosition = position]
  /\ UNCHANGED <<disk, openState, reply>>

ReadHandle(h, count) ==
  LET o == handle[h]
      bytes == ReadAt(disk, o.hdr, count, o.seekPosition)
  IN  /\ o # NULL
      /\ handle' = [handle EXCEPT ![h].seekPosition = @ + Len(bytes)]
      /\ reply' = Answer("read", o.name, o.seekPosition, count, bytes, TRUE)
      /\ UNCHANGED <<disk, openState>>

WriteHandle(h, from, g) ==
  LET o == handle[h]
      n == Clipped(o.hdr, Len(from), o.seekPosition)
  IN  /\ o # NULL
      /\ disk' = WriteAt(disk, o.hdr, from, o.seekPosition, g)
      /\ handle' = [handle EXCEPT ![h].seekPosition = @ + n]
      /\ reply' = Answer("write", o.name, o.seekPosition, n, from, TRUE)
      /\ UNCHANGED openState

(* filesys/fstest.cc                                                       *)

\* The disk after source was written to a file in pieces of TransferSize.
Copied(d, hdr, source, g) ==
  LET piece(k) == SubSeq(source, (k * TransferSize) + 1, Min({(k + 1) * TransferSize, Len(source)}))
      after[k \in 0..Len(source)] ==
        IF k = 0 THEN d ELSE WriteAt(after[k - 1], hdr, piece(k - 1), (k - 1) * TransferSize, g)
  IN  after[(Len(source) + TransferSize - 1) \div TransferSize]

\* Copy: create the file, open it, which ASSERT says must work, write it and close it.
Copy(name, source, g) ==
  LET made == Create(disk, name, Len(source))
      sector == DirFind(Directory(made.disk), name)
      opened == made.ok /\ sector # -1
  IN  /\ disk' = IF opened THEN Copied(made.disk, FetchHeader(made.disk, sector), source, g)
                 ELSE made.disk
      /\ reply' = Answer("copy", FileName(name), 0, Len(source), source, opened)
      /\ UNCHANGED <<openState, handle>>

\* Print: read pieces of TransferSize until Read returns 0.
PrintFile(name) ==
  LET sector == DirFind(Directory(disk), name)
      hdr == FetchHeader(disk, sector)
      rest[position \in 0..(FileLength(hdr) + TransferSize)] ==
        LET piece == ReadAt(disk, hdr, TransferSize, position)
        IN  IF piece = <<>> THEN <<>> ELSE piece \o rest[position + Len(piece)]
  IN  /\ reply' = IF sector = -1 THEN Answer("open", FileName(name), 0, 0, <<>>, FALSE)
                  ELSE Answer("read", FileName(name), 0, FileLength(hdr), rest[0], TRUE)
      /\ UNCHANGED <<disk, openState, handle>>

\* FileWrite creates the file with length 0, so already the first Write returns 0.
FileWrite(d, g) ==
  LET made == Create(d, TestFile, 0)
      hdr == FetchHeader(made.disk, DirFind(Directory(made.disk), TestFile))
  IN  IF made.ok THEN WriteAt(made.disk, hdr, TestContents, 0, g) ELSE made.disk

\* FileRead: how many pieces it reads before one is short or differs.
FileRead(d) ==
  LET sector == DirFind(Directory(d), TestFile)
      size == Len(TestContents)
      piece(k) == ReadAt(d, FetchHeader(d, sector), size, k * size)
      agree == {k \in 0..Pieces : \A j \in 0..(k - 1) : piece(j) = TestContents}
  IN  IF sector = -1 THEN 0 ELSE Max(agree)

PerformanceTest(g) ==
  LET written == FileWrite(disk, g)
      found == DirFind(Directory(written), TestFile) # -1
  IN  /\ NotOpen(TestFile)
      /\ disk' = IF found THEN Remove(written, TestFile) ELSE written
      /\ reply' = Answer("test", FileName(TestFile), 0, FileRead(written), TestContents, found)
      /\ UNCHANGED <<openState, handle>>

Next ==
  \/ Reboot
  \/ \E g \in Byte : PerformanceTest(g)
  \/ \E name \in Names : \/ \E source \in Sources, g \in Byte : Copy(name, source, g)
                         \/ PrintFile(name)
                         \/ \E size \in Sizes : CreateFile(name, size)
                         \/ RemoveFile(name)
                         \/ OpenSlot(name)
                         \/ \E h \in Handles : OpenHandle(h, name)
  \/ \E h \in Handles : \/ CloseHandle(h)
                        \/ \E p \in Positions : SeekHandle(h, p)
                        \/ \E n \in Counts : ReadHandle(h, n)
                        \/ \E from \in Writes, g \in Byte : WriteHandle(h, from, g)

Spec == Init /\ [][Next]_vars

-----------------------------------------------------------------------------
Table == Directory(disk)
InUse == {i \in Entries : Table[i].inUse}
HeaderOf(i) == FetchHeader(disk, Table[i].sector)

FileSizes == Sizes \cup {0} \cup {Len(source) : source \in Sources}

\* The system sectors keep their kind, and each directory entry leads to a header.
TypeOK ==
  /\ disk[FreeMapSector].as = "hdr" /\ disk[DirectorySector].as = "hdr"
  /\ \A i \in InUse : disk[Table[i].sector].as = "hdr" /\ HeaderOf(i).numBytes \in FileSizes
  /\ \A h \in Handles : handle[h] # NULL => handle[h].seekPosition \in 0..(Max(FileSizes) + Max(Counts))

\* The sectors that belong to somebody, with the number of times they do.
Owners(s) ==
  Cardinality({i \in InUse : Table[i].sector = s \/ s \in HeaderSectors(HeaderOf(i))})
  + Cardinality({f \in {FreeMapSector, DirectorySector} :
                   s = f \/ s \in HeaderSectors(FetchHeader(disk, f))})

\* The bitmap on disk marks exactly the sectors in use: none is lost by a failed
\* Create or by Remove, and none is given to two files (Create, Remove, format).
BitmapExact == TypeOK /\ \A s \in Sectors : Owners(s) = IF s \in FreeMap(disk) THEN 1 ELSE 0

\* The files a reader of the disk sees.
Contents ==
  LET bytes(hdr) == ReadAt(disk, hdr, FileLength(hdr), 0)
  IN  [n \in {Table[i].name : i \in InUse} |->
         bytes(HeaderOf(CHOOSE i \in InUse : Table[i].name = n))]

Flat == INSTANCE FlatFiles WITH
  Capacity <- NumSectors - 4, MaxFiles <- NumDirEntries, System <- {"stdin", "stdout"},
  files <- Contents

\* Headers, bitmap, directory and partial sectors together are a set of flat
\* files: a write changes exactly its bytes, a restart changes nothing, and
\* Create fails only when there is no room.
FilesAreFlat == Flat!Spec
=============================================================================
