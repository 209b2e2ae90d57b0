------------------------------ MODULE WaterTap ------------------------------
(***************************************************************************)
(* test/main.c, test/sinhvien.c and test/voinuoc.c: three user programs    *)
(* that share out students to two water taps, taking turns with the named  *)
(* semaphores main, sinhvien and voinuoc and handing data over in files.   *)
(* s is the kernel's file table with r2, the register a call returns in,   *)
(* halted, after which a call changes nothing, and full, a record that an  *)
(* Open found no slot.  A step is a round of a loop or less, or the code   *)
(* from a Down to the next loop: in between a program only touches files,  *)
(* and TurnTaking shows that then no other program does.                   *)
(***************************************************************************)
EXTENDS FileTable, SequencesExt

CONSTANT Inputs     \* what input.txt holds, lines of volumes; NULL for no file

VARIABLES s, at, sem, main, sinhvien, voinuoc, input
vars == <<s, at, sem, main, sinhvien, voinuoc, input>>

Programs == {"main", "sinhvien", "voinuoc"}

InputTxt == <<105>>
OutputTxt == <<111>>
SinhvienTxt == <<115>>
VoinuocTxt == <<118>>

NewLine == 10
Return == 13
Space == 32
Star == 42
Zero == 48
Digit(n) == n + Zero
Underscore == 95

\* input.txt: the number of lines, then the lines.
Numeral(n) == IF n < 10 THEN <<Digit(n)>> ELSE <<Digit(n \div 10), Digit(n % 10)>>

Joined(parts, separator, end) ==
  FlattenSeq([i \in DOMAIN parts |-> parts[i] \o IF i < Len(parts) THEN separator ELSE end])

InputText(lines) ==
  Numeral(Len(lines)) \o <<NewLine>>
    \o FlattenSeq([i \in DOMAIN lines |->
         Joined([j \in DOMAIN lines[i] |-> Numeral(lines[i][j])], <<Space>>, <<NewLine>>)])

(***************************************************************************)
(* The system calls, as a program sees them.                               *)
(***************************************************************************)
\* With a full table r2 keeps the number of the call, SC_Open; k.full records that
\* a program went on with that for an id.
SC_Open == 5

OpenCall(k, name, type) ==
  LET slot == FindFreeSlot(k)
  IN  IF k.halted \/ slot = -1 THEN [k EXCEPT !.r2 = SC_Open, !.full = @ \/ ~k.halted]
      ELSE IF CanOpen(k, name) THEN [OpenInto(k, slot, name, type) EXCEPT !.r2 = slot]
      ELSE [k EXCEPT !.r2 = -1]

CreateCall(k, name) == IF k.halted THEN k ELSE [Create(k, name) EXCEPT !.r2 = 0]

IsOpen(k, id) == id \in Slots /\ k.openState[id] # NULL

CloseCall(k, id) ==
  IF ~k.halted /\ IsOpen(k, id) THEN [DeleteSlot(k, id) EXCEPT !.r2 = 0]
  ELSE [k EXCEPT !.r2 = -1]

\* A refused call is made again with -1 as its number, which halts the machine.
Guarded(k, id, after) ==
  IF ~k.halted /\ IsOpen(k, id) THEN after ELSE [k EXCEPT !.halted = TRUE]

ReadCall(k, id) ==
  LET got == Read(GetCurrentPos(k, id), id, 1)
  IN  Guarded(k, id, [got.c EXCEPT !.r2 = IF got.into = <<>> THEN -2 ELSE 1])

\* What Read leaves in ch.
CharRead(k, id, ch) ==
  IF ~IsOpen(k, id) \/ Read(GetCurrentPos(k, id), id, 1).into = <<>> THEN ch
  ELSE Head(Read(GetCurrentPos(k, id), id, 1).into)

WriteCall(k, id, text) ==
  Guarded(k, id, [Write(GetCurrentPos(k, id), id, text) EXCEPT !.r2 = Len(text)])

SeekCall(k, pos, id) ==
  LET length == Length(k, id)
  IN  Guarded(k, id, IF pos = -1 THEN [Seek(length.c, id, length.len) EXCEPT !.r2 = length.len]
                     ELSE [Seek(k, id, pos) EXCEPT !.r2 = pos])

\* Open output.txt, go to its end, write, close.
AppendOutputMutStart(k, text) ==
  \E opened \in {OpenCall(k, OutputTxt, 0)} :
  \E written \in {WriteCall(opened, opened.r2, text)} :
    s' = CloseCall(written, opened.r2)

AppendOutput(k, text) ==
  \E opened \in {OpenCall(k, OutputTxt, 0)} :
  \E atEnd \in {SeekCall(opened, -1, opened.r2)} :
  \E written \in {WriteCall(atEnd, opened.r2, text)} :
    s' = CloseCall(written, opened.r2)

V(name) == sem' = [sem EXCEPT ![name] = @ + 1]

Runs(p, where) == ~s.halted /\ at[p] = where

(***************************************************************************)
(* main.c                                                                  *)
(***************************************************************************)
Init ==
  /\ input \in Inputs
  /\ s = FileSystem(IF input = NULL THEN <<>> ELSE InputTxt :> InputText(input))
           @@ [r2 |-> 0, halted |-> FALSE, full |-> FALSE]
  /\ at = [p \in Programs |-> IF p = "main" THEN "start" ELSE "none"]
  /\ sem = [p \in Programs |-> 0]
  /\ main = [N |-> 0, f_input |-> 0, f_sinhvien |-> 0, ch |-> Zero]
  /\ sinhvien = [size |-> 0, fPointer |-> 0, f_sinhvien |-> 0, f_voinuoc |-> 0, ch |-> 0]
  /\ voinuoc = [v1 |-> 0, v2 |-> 0, l |-> 0, done |-> FALSE, f_voinuoc |-> 0, ch |-> Zero]

MainStart ==
  /\ Runs("main", "start")
  /\ LET opened == OpenCall(s, InputTxt, 1)
     IN  IF opened.r2 = -1
         THEN /\ s' = opened
              /\ at' = [at EXCEPT !["main"] = "exited"]
              /\ UNCHANGED main
         ELSE /\ s' = CreateCall(opened, OutputTxt)
              /\ main' = [main EXCEPT !.f_input = opened.r2]
              /\ at' = [at EXCEPT !["main"] = "count"]
  /\ UNCHANGED <<sem, sinhvien, voinuoc, input>>

\* A character of N.
MainCount ==
  /\ Runs("main", "count")
  /\ LET ch == CharRead(s, main.f_input, main.ch)
     IN  IF ch = NewLine
         THEN /\ at' = [at EXCEPT !["main"] = "exec"]
              /\ main' = [main EXCEPT !.ch = ch]
         ELSE /\ main' = [main EXCEPT !.ch = ch,
                             !.N = IF ch \in Zero..Digit(9) THEN @ * 10 + (ch - Zero) ELSE @]
              /\ UNCHANGED at
  /\ s' = ReadCall(s, main.f_input)
  /\ UNCHANGED <<sem, sinhvien, voinuoc, input>>

\* Exec of the other two programs.  When it answers -1 for one of them, main closes
\* its input and returns to start.s, which calls Exit(0): that of the first process
\* halts the machine.
MainExec ==
  /\ Runs("main", "exec")
  /\ \/ /\ at' = [p \in Programs |-> IF p = "main" THEN "line" ELSE "down"]
        /\ UNCHANGED s
     \/ /\ \E sv \in {"none", "down"} :
             at' = [at EXCEPT !["main"] = "exited", !["sinhvien"] = sv]
        /\ s' = [CloseCall(s, main.f_input) EXCEPT !.halted = TRUE]
  /\ UNCHANGED <<sem, main, sinhvien, voinuoc, input>>

MainLine ==
  /\ Runs("main", "line") /\ main.N > 0
  /\ LET opened == OpenCall(CreateCall(s, SinhvienTxt), SinhvienTxt, 0)
     IN  /\ s' = opened
         /\ main' = [main EXCEPT !.N = @ - 1, !.f_sinhvien = opened.r2]
  /\ at' = [at EXCEPT !["main"] = "copy"]
  /\ UNCHANGED <<sem, sinhvien, voinuoc, input>>

LineCopiedMutOpen(k) == k

LineCopied(k) == CloseCall(k, main.f_sinhvien)

\* A character of the line; after the last, Close and Up("sinhvien").
MainCopy ==
  /\ Runs("main", "copy")
  /\ \E read \in {ReadCall(s, main.f_input)}, ch \in {CharRead(s, main.f_input, main.ch)} :
         /\ main' = [main EXCEPT !.ch = ch]
         /\ IF read.r2 < 1 \/ ch = NewLine
            THEN /\ s' = LineCopied(read)
                 /\ V("sinhvien")
                 /\ at' = [at EXCEPT !["main"] = "down"]
            ELSE /\ s' = WriteCall(read, main.f_sinhvien, <<ch>>)
                 /\ UNCHANGED <<at, sem>>
  /\ UNCHANGED <<sinhvien, voinuoc, input>>

MainDown ==
  /\ Runs("main", "down") /\ sem["main"] > 0
  /\ sem' = [sem EXCEPT !["main"] = @ - 1]
  /\ at' = [at EXCEPT !["main"] = "line"]
  /\ UNCHANGED <<s, main, sinhvien, voinuoc, input>>

MainHalt ==
  /\ Runs("main", "line") /\ main.N = 0
  /\ s' = [CloseCall(s, main.f_input) EXCEPT !.halted = TRUE]
  /\ at' = [at EXCEPT !["main"] = "success"]
  /\ UNCHANGED <<sem, main, sinhvien, voinuoc, input>>

(***************************************************************************)
(* sinhvien.c                                                              *)
(***************************************************************************)
SinhvienDown ==
  /\ Runs("sinhvien", "down") /\ sem["sinhvien"] > 0
  /\ sem' = [sem EXCEPT !["sinhvien"] = @ - 1]
  /\ \E opened \in {OpenCall(s, SinhvienTxt, 1)} :
     \E atEnd \in {SeekCall(opened, -1, opened.r2)} :
     \E atStart \in {SeekCall(atEnd, 0, opened.r2)} :
     \E created \in {CreateCall(atStart, VoinuocTxt)} :
       /\ s' = OpenCall(created, VoinuocTxt, 0)
       /\ sinhvien' = [sinhvien EXCEPT !.size = atEnd.r2, !.fPointer = 0,
                                       !.f_sinhvien = opened.r2, !.f_voinuoc = s'.r2]
  /\ at' = [at EXCEPT !["sinhvien"] = "loop"]
  /\ UNCHANGED <<main, voinuoc, input>>

\* A round of the loop reads a character,
AtLast == sinhvien.fPointer = sinhvien.size - 1

SinhvienRead ==
  /\ Runs("sinhvien", "loop") /\ sinhvien.fPointer < sinhvien.size
  /\ \E ch \in {CharRead(s, sinhvien.f_sinhvien, sinhvien.ch)} :
       /\ sinhvien' = [sinhvien EXCEPT !.ch = ch]
       /\ at' = [at EXCEPT !["sinhvien"] = IF ch = Space THEN "mark" ELSE "copy"]
  /\ s' = ReadCall(s, sinhvien.f_sinhvien)
  /\ UNCHANGED <<sem, main, voinuoc, input>>

\* copies it to voinuoc.txt and output.txt unless it is a space,
SinhvienCopy ==
  /\ Runs("sinhvien", "copy")
  /\ \E written \in {WriteCall(s, sinhvien.f_voinuoc, <<sinhvien.ch>>)} :
       AppendOutput(written, <<sinhvien.ch>>)
  /\ at' = [at EXCEPT !["sinhvien"] = "mark"]
  /\ UNCHANGED <<sem, main, sinhvien, voinuoc, input>>

\* and after a number gives the turn to voinuoc, until Down at line 80.
SinhvienMark ==
  /\ Runs("sinhvien", "mark")
  /\ \E marked \in {IF AtLast THEN WriteCall(s, sinhvien.f_voinuoc, <<Star>>) ELSE s} :
       IF sinhvien.ch = Space \/ AtLast
       THEN /\ s' = CloseCall(marked, sinhvien.f_voinuoc)
            /\ V("voinuoc")
            /\ at' = [at EXCEPT !["sinhvien"] = "wait"]
            /\ UNCHANGED sinhvien
       ELSE /\ s' = marked
            /\ sinhvien' = [sinhvien EXCEPT !.fPointer = @ + 1]
            /\ at' = [at EXCEPT !["sinhvien"] = "loop"]
            /\ UNCHANGED sem
  /\ UNCHANGED <<main, voinuoc, input>>

SinhvienWaitMutNoDown ==
  /\ Runs("sinhvien", "wait")
  /\ LET opened == OpenCall(CreateCall(s, VoinuocTxt), VoinuocTxt, 0)
     IN  /\ s' = opened
         /\ sinhvien' = [sinhvien EXCEPT !.f_voinuoc = opened.r2, !.fPointer = @ + 1]
  /\ at' = [at EXCEPT !["sinhvien"] = "loop"]
  /\ UNCHANGED <<sem, main, voinuoc, input>>

SinhvienWait ==
  /\ Runs("sinhvien", "wait") /\ sem["sinhvien"] > 0
  /\ sem' = [sem EXCEPT !["sinhvien"] = @ - 1]
  /\ LET opened == OpenCall(CreateCall(s, VoinuocTxt), VoinuocTxt, 0)
     IN  /\ s' = opened
         /\ sinhvien' = [sinhvien EXCEPT !.f_voinuoc = opened.r2, !.fPointer = @ + 1]
  /\ at' = [at EXCEPT !["sinhvien"] = "loop"]
  /\ UNCHANGED <<main, voinuoc, input>>

\* The line is done.  f_sinhvien and f_voinuoc stay open.
SinhvienUp ==
  /\ Runs("sinhvien", "loop") /\ sinhvien.fPointer >= sinhvien.size
  /\ V("main")
  /\ at' = [at EXCEPT !["sinhvien"] = "down"]
  /\ UNCHANGED <<s, main, sinhvien, voinuoc, input>>

(***************************************************************************)
(* voinuoc.c                                                               *)
(***************************************************************************)
VoinuocDown ==
  /\ Runs("voinuoc", "down") /\ sem["voinuoc"] > 0
  /\ sem' = [sem EXCEPT !["voinuoc"] = @ - 1]
  /\ s' = OpenCall(s, VoinuocTxt, 1)
  /\ voinuoc' = [voinuoc EXCEPT !.ch = 0, !.l = 0, !.done = FALSE, !.f_voinuoc = s'.r2]
  /\ at' = [at EXCEPT !["voinuoc"] = "read"]
  /\ UNCHANGED <<main, sinhvien, input>>

VoinuocRead ==
  /\ Runs("voinuoc", "read")
  /\ LET read == ReadCall(s, voinuoc.f_voinuoc)
         ch == CharRead(s, voinuoc.f_voinuoc, voinuoc.ch)
     IN  IF read.r2 = -2 \/ ch = Star
         THEN /\ s' = CloseCall(read, voinuoc.f_voinuoc)
              /\ voinuoc' = [voinuoc EXCEPT !.ch = ch, !.done = read.r2 # -2]
              /\ at' = [at EXCEPT !["voinuoc"] = "pour"]
         ELSE /\ s' = read
              /\ voinuoc' = [voinuoc EXCEPT !.ch = ch, !.l = @ * 10 + (ch - Zero)]
              /\ UNCHANGED at
  /\ UNCHANGED <<sem, main, sinhvien, input>>

\* The taps after the student, and the one the student gets: 0 for none.
Pour ==
  IF voinuoc.l = 0 THEN [v1 |-> voinuoc.v1, v2 |-> voinuoc.v2, tap |-> 0]
  ELSE IF voinuoc.v1 <= voinuoc.v2
  THEN [v1 |-> voinuoc.v1 + voinuoc.l, v2 |-> voinuoc.v2, tap |-> 1]
  ELSE [v1 |-> voinuoc.v1, v2 |-> voinuoc.v2 + voinuoc.l, tap |-> 2]

Poured == (IF Pour.tap = 0 THEN <<>> ELSE <<Underscore, Digit(Pour.tap)>>)
            \o (IF voinuoc.done THEN <<Return, NewLine>> ELSE <<Space, Space, Space>>)

VoinuocPourMutQuiet ==
  /\ Runs("voinuoc", "pour")
  /\ AppendOutput(s, Poured)
  /\ voinuoc' = [voinuoc EXCEPT !.v1 = IF voinuoc.done THEN 0 ELSE Pour.v1,
                                !.v2 = IF voinuoc.done THEN 0 ELSE Pour.v2]
  /\ at' = [at EXCEPT !["voinuoc"] = "down"]
  /\ IF voinuoc.done THEN UNCHANGED sem ELSE V("sinhvien")
  /\ UNCHANGED <<main, sinhvien, input>>

VoinuocPour ==
  /\ Runs("voinuoc", "pour")
  /\ AppendOutput(s, Poured)
  /\ voinuoc' = [voinuoc EXCEPT !.v1 = IF voinuoc.done THEN 0 ELSE Pour.v1,
                                !.v2 = IF voinuoc.done THEN 0 ELSE Pour.v2]
  /\ at' = [at EXCEPT !["voinuoc"] = "down"]
  /\ V("sinhvien")
  /\ UNCHANGED <<main, sinhvien, input>>

Next == \/ MainStart \/ MainCount \/ MainExec \/ MainLine \/ MainCopy \/ MainDown \/ MainHalt
        \/ SinhvienDown \/ SinhvienRead \/ SinhvienCopy \/ SinhvienMark \/ SinhvienWait
        \/ SinhvienUp
        \/ VoinuocDown \/ VoinuocRead \/ VoinuocPour

\* A program that can run gets the processor, and no two can at a time.
Spec == Init /\ [][Next]_vars /\ WF_vars(Next)

-----------------------------------------------------------------------------
(* The programs' places, semaphores, ids and counts are what they may be.    *)
TypeOK ==
  /\ DescriptorsOwned(s) /\ OffsetsAgree(s)
  /\ {s.halted, s.full} \subseteq BOOLEAN
  /\ at["main"] \in {"start", "count", "exec", "line", "copy", "down", "success", "exited"}
  /\ at["sinhvien"] \in {"none", "down", "loop", "copy", "mark", "wait"}
  /\ at["voinuoc"] \in {"none", "down", "read", "pour"}
  /\ sem \in [Programs -> Nat]
  /\ {main.f_input, main.f_sinhvien, sinhvien.f_sinhvien, sinhvien.f_voinuoc,
       voinuoc.f_voinuoc} \subseteq Slots
  /\ {main.N, sinhvien.size, sinhvien.fPointer, voinuoc.v1, voinuoc.v2, voinuoc.l} \subseteq Nat

(***************************************************************************)
(* There is one turn: no two programs are past their Down, and none is     *)
(* while a semaphore is up.  The three files and the open file table,      *)
(* which no lock protects, are never used by two programs at a time.       *)
(***************************************************************************)
Waiting(p) == at[p] \in {"none", "down", "wait", "exited", "success"}

TurnTaking ==
  /\ TypeOK
  /\ Cardinality({p \in Programs : ~Waiting(p)})
       + sem["main"] + sem["sinhvien"] + sem["voinuoc"] <= 1

(***************************************************************************)
(* What output.txt should say: every student goes to the tap that has      *)
(* less to fill, the first one when they are level.                        *)
(***************************************************************************)
Load(line, taps, t) == MapThenSumSet(LAMBDA j : line[j], {j \in DOMAIN taps : taps[j] = t})

Taps(line) ==
  FoldLeft(LAMBDA taps, volume :
             Append(taps, IF Load(line, taps, 1) <= Load(line, taps, 2) THEN 1 ELSE 2),
           <<>>, line)

Expected ==
  [lines \in Inputs \ {NULL} |->
     FlattenSeq([i \in DOMAIN lines |->
       Joined([j \in DOMAIN lines[i] |->
                 Numeral(lines[i][j]) \o <<Underscore, Digit(Taps(lines[i])[j])>>],
              <<Space, Space, Space>>, <<Return, NewLine>>)])]

Output == IF OutputTxt \in DOMAIN s.host THEN s.host[OutputTxt] ELSE <<>>

(***************************************************************************)
(* As long as every Open finds a slot, output.txt is at every moment a     *)
(* prefix of the expected output, and all of it when main halts: two       *)
(* programs append to it in turn, each opening it anew and seeking to its  *)
(* end, and no character is lost, doubled or out of place (sinhvien.c,     *)
(* voinuoc.c).  This is for volumes that are not 0, which voinuoc takes    *)
(* for no student; how many lines the slots are enough for is what         *)
(* IdsNameTheirFiles says.                                                 *)
(***************************************************************************)
Positive(lines) == \A i \in DOMAIN lines : \A j \in DOMAIN lines[i] : lines[i][j] > 0

OutputRight ==
  input # NULL /\ ~s.full /\ Positive(input) =>
    /\ IsPrefix(Output, Expected[input])
    /\ at["main"] = "success" => Output = Expected[input]

(***************************************************************************)
(* The programs do not wait for each other for ever: main gets to its      *)
(* Halt (main.c:96), or finds that there is no input to read or nothing to *)
(* run, unless an Open finds the table full, which it does not for up to   *)
(* three lines.                                                            *)
(***************************************************************************)
Finishes == <>(at["main"] \in {"exited", "success"} \/ s.full)

(***************************************************************************)
(* sinhvien leaves two files open for every line, and main has one.  The   *)
(* table has a slot for every Open as long as that leaves two slots for    *)
(* the line at hand and one for output.txt or voinuoc.txt: with the        *)
(* kernel's ten, for three lines.  Until an Open finds the table full,     *)
(* which is the only way, a program goes on with the id of the file it     *)
(* opened, although ids are handed out again and programs close and open   *)
(* in turn (SC_Open, SC_Close, sinhvien.c:96).                             *)
(***************************************************************************)
Names(id, name) == IsOpen(s, id) /\ s.fd[File(s, id)].name = name

Fits(lines) == 1 + 2 * Len(lines) + 1 <= NumSlots - 2

IdsNameTheirFiles ==
  /\ input # NULL /\ Fits(input) => ~s.full
  /\ ~s.full /\ ~s.halted =>
       /\ at["main"] \in {"count", "exec", "line", "copy", "down"} => Names(main.f_input, InputTxt)
       /\ at["main"] = "copy" => Names(main.f_sinhvien, SinhvienTxt)
       /\ at["sinhvien"] \in {"loop", "copy", "mark", "wait"} => Names(sinhvien.f_sinhvien, SinhvienTxt)
       /\ at["sinhvien"] \in {"loop", "copy", "mark"} => Names(sinhvien.f_voinuoc, VoinuocTxt)
       /\ at["voinuoc"] = "read" => Names(voinuoc.f_voinuoc, VoinuocTxt)
=============================================================================
