------------------------------- MODULE Syscall -------------------------------
(***************************************************************************)
(* ExceptionHandler of userprog/exception.cc for one user program, with    *)
(* the file table below it.  The file and conversion calls run without a   *)
(* preemption point, so one handler activation is one step; the characters *)
(* a call sends to the console are in c.screen, the line it gets from the  *)
(* console is an input.                                                    *)
(*                                                                         *)
(* A handler that leaves its switch with `break` reaches IncreatePC; one   *)
(* that leaves with `return` does not, and the machine executes the same   *)
(* syscall instruction again, with the result in r2 as the call's number.  *)
(* The process and semaphore calls are those of ProcessTable and SemTable; *)
(* here they return some result.                                           *)
(***************************************************************************)
EXTENDS FileTable, SequencesExt

CONSTANTS MemSize,          \* bytes of user memory
          MaxFileLength,    \* 32 in the code
          MaxBufferSize,    \* 255 in the code
          MaxFile,          \* bound: bytes of a file, and the largest offset
          IntBits,          \* width of an int
          Lines,            \* what may be typed at the console before a newline
          Calls,            \* the calls the program may make: [reg, mem]
          InitialHost       \* the UNIX files there are at the start

VARIABLE c

Addrs == 0..(MemSize - 1)

SC == [Halt |-> 0, Exit |-> 1, Exec |-> 2, Join |-> 3, Create |-> 4, Open |-> 5,
       Read |-> 6, Write |-> 7, Close |-> 8, ReadInt |-> 11, PrintInt |-> 12,
       ReadChar |-> 13, PrintChar |-> 14, ReadString |-> 15, PrintString |-> 16,
       CreateSemaphore |-> 17, Up |-> 18, Down |-> 19, Seek |-> 20]

(* Leaving the handler.                                                    *)

Break(s, result) == [s EXCEPT !.reg[2] = result, !.status = "user"]
BreakAsIs(s) == [s EXCEPT !.status = "user"]
Return(s, result) == [s EXCEPT !.reg[2] = result]
Halt(s) == [s EXCEPT !.status = "halted"]
Abort(s) == [s EXCEPT !.status = "aborted"]

(* Copies between the spaces.  A byte outside the user's memory raises an  *)
(* address exception, and every such exception halts the machine.          *)

StrLen(s, addr, limit) ==
  LET zeros == {i \in 0..(limit - 1) : (addr + i) \in Addrs => s.mem[addr + i] = NUL}
  IN  IF zeros = {} THEN limit ELSE Min(zeros)

UserFault(s, addr, limit) ==
  \E i \in 0..Min({StrLen(s, addr, limit), limit - 1}) : (addr + i) \notin Addrs

\* User2System: the bytes up to the first zero, the rest of the buffer zeros.
User2System(s, addr, limit) ==
  [i \in 1..limit |-> IF i <= StrLen(s, addr, limit) THEN s.mem[addr + i - 1] ELSE NUL]

UserString(s, addr, limit) ==
  SubSeq(User2System(s, addr, limit), 1, StrLen(s, addr, limit))

\* How many bytes System2User copies: it stops behind the first zero.
Copied(buffer, len) ==
  LET zeros == {i \in 1..len : buffer[i] = NUL}
  IN  IF zeros = {} THEN len ELSE Min(zeros)

System2UserMutLast(s, addr, len, buffer) ==
  LET n == IF len <= 0 THEN 0 ELSE Copied(buffer, len) - 1
  IN  [s EXCEPT !.mem = [a \in Addrs |->
         IF a >= addr /\ a < addr + n THEN buffer[a - addr + 1] ELSE @[a]]]

System2User(s, addr, len, buffer) ==
  LET n == IF len <= 0 THEN 0 ELSE Copied(buffer, len)
  IN  IF n > 0 /\ addr + n - 1 \notin Addrs THEN Halt(s)
      ELSE [s EXCEPT !.mem = [a \in Addrs |->
              IF a >= addr /\ a < addr + n THEN buffer[a - addr + 1] ELSE @[a]]]

(* File calls.                                                             *)

CreateCall(s) ==
  LET name == UserString(s, s.reg[4], MaxFileLength + 1)
  IN  IF UserFault(s, s.reg[4], MaxFileLength + 1) THEN Halt(s)
      ELSE IF name = <<>> THEN Break(s, -1)
      ELSE Break(Create(s, name), 0)

\* A full table falls through to the break without a result.
OpenCall(s) ==
  LET name == UserString(s, s.reg[4], MaxFileLength + 1)
      slot == FindFreeSlot(s)
  IN  IF UserFault(s, s.reg[4], MaxFileLength + 1) THEN Halt(s)
      ELSE IF Len(name) \notin 1..MaxFileLength \/ s.reg[5] \notin {0, 1} THEN Return(s, -1)
      ELSE IF slot = -1 THEN BreakAsIs(s)
      ELSE IF CanOpen(s, name) THEN Break(OpenInto(s, slot, name, s.reg[5]), slot)
      ELSE Break(s, -1)

CloseCall(s) ==
  IF s.reg[4] \in Slots /\ s.openState[s.reg[4]] # NULL
  THEN Break(DeleteSlot(s, s.reg[4]), 0)
  ELSE Break(s, -1)

\* The tests Read and Write make of charcount and id, with the type refused.
Refused(s, type) ==
  LET id == s.reg[6]
  IN  \/ s.reg[5] < 0 \/ id \notin Slots
      \/ s.openState[id] = NULL
      \/ s.openState[id].type = type

\* line is what the console delivers: a sequence, or NULL at end of stream.
ReadCall(s, line) ==
  LET id == s.reg[6]
      at == GetCurrentPos(s, id)
      got == Read(at, id, s.reg[5])
      stdin == IF line = NULL THEN Return(at, -1)
               ELSE Return(System2User(at, s.reg[4], Len(line), line), Len(line))
      n == Len(got.into)
      copied == System2User(got.c, s.reg[4], n, got.into)
  IN  IF Refused(s, 3) THEN Return(s, -1)
      ELSE IF UserFault(s, s.reg[4], s.reg[5]) THEN Halt(s)
      ELSE IF s.openState[id].type = 2 THEN stdin
      ELSE IF n = 0 THEN Break(got.c, -2)
      ELSE IF copied.status = "halted" THEN copied
      ELSE Break(copied, n)

\* `while(buffer[i] = '\n')` assigns: it runs off the buffer and never ends well.
WriteCall(s) ==
  LET id == s.reg[6]
      at == GetCurrentPos(s, id)
  IN  IF Refused(s, 2) THEN Return(s, -1)
      ELSE IF UserFault(s, s.reg[4], s.reg[5]) THEN Halt(s)
      ELSE IF s.openState[id].type = 3 THEN Abort(s)
      ELSE IF s.reg[5] = 0 THEN BreakAsIs(at)
      ELSE Break(Write(at, id, User2System(s, s.reg[4], s.reg[5])), s.reg[5])

SeekCallMutEnd(s) ==
  LET id == s.reg[5]
  IN  IF id \notin Slots \/ s.openState[id] = NULL \/ id \in {0, 1} THEN Return(s, -1)
      ELSE IF s.reg[4] = -1 THEN Break(Length(s, id).c, Length(s, id).len)
      ELSE IF s.reg[4] < 0 THEN Abort(s) ELSE Break(Seek(s, id, s.reg[4]), s.reg[4])

SeekCall(s) ==
  LET id == s.reg[5]
      length == Length(s, id)
  IN  IF id \notin Slots \/ s.openState[id] = NULL \/ id \in {0, 1} THEN Return(s, -1)
      ELSE IF s.reg[4] = -1 THEN Break(Seek(length.c, id, length.len), length.len)
      ELSE IF s.reg[4] < 0 THEN Abort(s)
      ELSE Break(Seek(s, id, s.reg[4]), s.reg[4])

(* Console calls.  An int has IntBits bits and wraps around.               *)

MaxInt == 2^(IntBits - 1) - 1
MinInt == -(2^(IntBits - 1))
Wrap(n) == ((n - MinInt) % 2^IntBits) + MinInt

MINUS == 45
ZERO == 48
NINE == 57

\* What SC_ReadInt makes of a line: a sign, then digits; 0 for anything else.
ReadIntValue(line) ==
  LET negative == line[1] = MINUS
      digits == IF negative THEN Tail(line) ELSE line
      valid == (\A i \in DOMAIN digits : digits[i] \in ZERO..NINE) /\ digits # <<>>
      value == FoldLeft(LAMBDA v, ch : Wrap((v * 10) + (ch - ZERO)), 0, digits)
  IN  IF ~valid THEN 0 ELSE Wrap(IF negative THEN -value ELSE value)

ReadIntCall(s, line) ==
  IF line = NULL \/ line = <<>> THEN BreakAsIs(s) ELSE Break(s, ReadIntValue(line))

\* The digits of a positive number; none for one that is not positive.
Decimal[n \in MinInt..MaxInt] ==
  IF n <= 0 THEN <<>> ELSE Append(Decimal[n \div 10], ZERO + (n % 10))

PrintIntTextMutSign(number) ==
  IF number = 0 THEN <<ZERO>>
  ELSE (IF number < 0 THEN <<MINUS>> ELSE <<>>) \o Decimal[number] \o <<NUL>>

\* What SC_PrintInt sends to the console; `number * -1` wraps for MinInt.
PrintIntText(number) ==
  IF number = 0 THEN <<ZERO>>
  ELSE IF number < 0 THEN <<MINUS>> \o Decimal[Wrap(-number)] \o <<NUL>>
  ELSE Decimal[number] \o <<NUL>>

Show(s, text) == BreakAsIs([s EXCEPT !.screen = text])

PrintIntCall(s) == Show(s, PrintIntText(s.reg[4]))

ReadCharCall(s, line) ==
  IF line = NULL THEN BreakAsIs(s)
  ELSE Break(s, IF Len(line) = 1 THEN line[1] ELSE 0)

PrintCharCall(s) == Show(s, <<s.reg[4] % 256>>)

ReadStringCall(s, line) ==
  IF line = NULL \/ line = <<>> THEN BreakAsIs(s)
  ELSE LET copied == System2User(s, s.reg[4], Len(line) + 1, Append(line, NUL))
       IN  IF copied.status = "halted" THEN copied ELSE BreakAsIs(copied)

PrintStringCall(s) ==
  IF UserFault(s, s.reg[4], MaxBufferSize) THEN Halt(s)
  ELSE Show(s, Append(UserString(s, s.reg[4], MaxBufferSize), NUL))

(* Process calls: id is what ProcessTable answers.                         *)


ExecCall(s, id) ==
  LET name == UserString(s, s.reg[4], MaxFileLength + 1)
  IN  IF UserFault(s, s.reg[4], MaxFileLength + 1) THEN Halt(s)
      ELSE IF Len(name) \notin 1..MaxFileLength \/ ~CanOpen(s, name) THEN Return(s, -1)
      ELSE Break(s, id)

\* Any other status than 0 leaves the program running.
ExitCall(s) == IF s.reg[4] # 0 THEN BreakAsIs(s) ELSE [s EXCEPT !.status = "exited"]

\* CreateSemaphore, Up and Down: -1 stands for no memory for the name, and for the
\* table's refusal.  Up alone then returns.
SemaphoreCall(s, result) ==
  IF UserFault(s, s.reg[4], MaxFileLength + 1) THEN Halt(s)
  ELSE IF s.reg[2] = SC.Up /\ result = -1 THEN Return(s, -1)
  ELSE Break(s, result)

\* `default:` of the switch.
UnknownCall(s) == Halt(s)

(* The user program and the handler.                                       *)

Init ==
  c = FileSystem(InitialHost) @@
      [reg |-> [r \in {2, 4, 5, 6} |-> 0], mem |-> [a \in Addrs |-> NUL],
       screen |-> <<>>, status |-> "user"]

\* The program puts a call in its registers and executes `syscall`.
Trap ==
  /\ c.status = "user"
  /\ \E call \in Calls :
       c' = [c EXCEPT !.reg = call.reg, !.mem = call.mem, !.screen = <<>>, !.status = "trap"]

In(code) == c.status = "trap" /\ c.reg[2] = code

\* What SynchConsole::Read may return for a buffer of n bytes.
Typed(n) == {line \in Lines : Len(line) <= n} \cup {NULL}

FileCall ==
  \/ In(SC.Create) /\ c' = CreateCall(c)
  \/ In(SC.Open) /\ c' = OpenCall(c)
  \/ In(SC.Close) /\ c' = CloseCall(c)
  \/ In(SC.Read) /\ \E line \in Typed(c.reg[5]) : c' = ReadCall(c, line)
  \/ /\ In(SC.Write) /\ c' = WriteCall(c)
     /\ \A n \in DOMAIN c'.host : Len(c'.host[n]) <= MaxFile
  \/ In(SC.Seek) /\ c' = SeekCall(c)

ConsoleCall ==
  \/ In(SC.ReadInt) /\ \E line \in Typed(MaxBufferSize) : c' = ReadIntCall(c, line)
  \/ In(SC.PrintInt) /\ c' = PrintIntCall(c)
  \/ In(SC.ReadChar) /\ \E line \in Typed(MaxBufferSize) : c' = ReadCharCall(c, line)
  \/ In(SC.PrintChar) /\ c' = PrintCharCall(c)
  \/ In(SC.ReadString) /\ \E line \in Typed(c.reg[5]) : c' = ReadStringCall(c, line)
  \/ In(SC.PrintString) /\ c' = PrintStringCall(c)

ProcessCall ==
  \/ In(SC.Exit) /\ c' = ExitCall(c)
  \/ In(SC.Exec) /\ \E id \in {-1, 1} : c' = ExecCall(c, id)
  \/ In(SC.Join) /\ \E result \in {-1, 0} : c' = Break(c, result)
  \/ /\ \E code \in {SC.CreateSemaphore, SC.Up, SC.Down} : In(code)
     /\ \E result \in {-1, 0} : c' = SemaphoreCall(c, result)

OtherCall ==
  \/ In(SC.Halt) /\ c' = Halt(c)
  \/ /\ c.status = "trap" /\ \A call \in DOMAIN SC : SC[call] # c.reg[2]
     /\ c' = UnknownCall(c)

Handler == FileCall \/ ConsoleCall \/ ProcessCall \/ OtherCall

Next == Trap \/ Handler

Spec == Init /\ [][Next]_c

\* The machine executes on: a system call that was trapped is handled.
FairSpec == Spec /\ WF_c(Handler)

-----------------------------------------------------------------------------
\* Slots 0 and 1 hold the console or nothing, and no other slot is one; the
\* handler leaves no other kind of state behind.
TypeOK ==
  /\ c.status \in {"user", "trap", "halted", "aborted", "exited"}
  /\ \A i \in Slots : c.openState[i] # NULL =>
       /\ File(c, i) \in Fds /\ c.openState[i].currentOffset \in 0..MaxFile
       /\ c.openState[i].type \in (IF i = 0 THEN {2} ELSE IF i = 1 THEN {3} ELSE {0, 1})
  /\ \A n \in DOMAIN c.host : \A k \in DOMAIN c.host[n] : c.host[n][k] \in 0..255

\* Every UNIX descriptor belongs to exactly one slot, so none is lost (SC_Open,
\* SC_Close and the descriptor that FileSystem::Create opens for itself), and
\* between calls OpenFile::currentOffset is the position UNIX has (SC_Read,
\* SC_Write and SC_Seek use both).
TableInStep == TypeOK /\ DescriptorsOwned(c) /\ OffsetsAgree(c)

Cursors == INSTANCE FileCursors WITH
  files <- c.host, reg <- c.reg, mem <- c.mem, status <- c.status,
  cursor <- [i \in Slots |-> IF c.openState[i] = NULL THEN NULL ELSE c.fd[File(c, i)]]

\* What userprog/syscall.h says of the file calls, without exception.
FilesAsDocumented == Cursors!Spec

\* A byte of the first n at addr is zero, and one behind it is not.
ZeroInside(addr, n) ==
  \E i \in 0..(n - 1) : \E j \in 0..(i - 1) : c.mem[addr + i] # NUL /\ c.mem[addr + j] = NUL

\* Where the code does not do that: Open with a full table (exception.cc:262), Create
\* of a name that is cut to MaxFileLength + 1 bytes (exception.cc:193), and Write of
\* bytes behind a zero, which User2System does not copy (exception.cc:72).
Departs ==
  \/ In(SC.Open) /\ FindFreeSlot(c) = -1 /\ UNCHANGED <<c.host, c.fd, c.openState, c.mem>>
  \/ /\ In(SC.Create) /\ StrLen(c, c.reg[4], MaxFileLength + 1) > MaxFileLength
     /\ Cursors!CreateNamed(UserString(c, c.reg[4], MaxFileLength + 1))
  \/ /\ In(SC.Write) /\ ZeroInside(c.reg[4], c.reg[5])
     /\ \E i \in Slots \ {0, 1} : Cursors!WriteFile(i, User2System(c, c.reg[4], c.reg[5]))

\* Apart from that the table, the OpenFile objects and the UNIX descriptors together
\* are cursors over shared files, call by call, results included: the files have
\* what was written and nothing else, and a call is refused only for its arguments
\* (SC_Create, SC_Open, SC_Read, SC_Write, SC_Close, SC_Seek).
FilesAreCursors == Cursors!Init /\ [][Cursors!Next \/ Departs]_(Cursors!absVars)

\* Arguments that no call can honour.
IsOpen(id) == id \in Slots /\ c.openState[id] # NULL

Unusable ==
  \/ In(SC.Open) /\ c.reg[5] \notin {0, 1}
  \/ (In(SC.Read) \/ In(SC.Write)) /\ (c.reg[5] < 0 \/ ~IsOpen(c.reg[6]))
  \/ In(SC.Seek) /\ ~IsOpen(c.reg[5])
  \/ In(SC.Exec) /\ \A n \in DOMAIN c.host : ~Cursors!NameAt(n)


\* What a Read from a file that returns to the program has put in its memory: the
\* file's next r2 bytes in the buffer, and nothing elsewhere.
Delivered ==
  LET at == c.fd[File(c, c.reg[6])]
      n == c'.reg[2]
      buf == c.reg[4]
  IN  \A a \in Addrs :
        c'.mem[a] = IF a >= buf /\ a < buf + n THEN c.host[at.name][at.pos + 1 + a - buf]
                    ELSE c.mem[a]

ReadReturns == In(SC.Read) /\ c'.status = "user"

\* The bytes that are read have a zero before the last one.
ZeroRead ==
  LET at == c.fd[File(c, c.reg[6])]
  IN  \E k \in 1..(c'.reg[2] - 1) : c.host[at.name][at.pos + k] = NUL

\* A Read from a file puts the r2 bytes it reports in the user's buffer and changes
\* no other byte of the user's memory, unless one before the last is zero:
\* System2User stops behind it, and r2 is more than was delivered (SC_Read).
ReadDelivers == [][ReadReturns /\ ~ZeroRead => Delivered]_c

\* What syscall.h:124 says: "Read "size" bytes from the open file into "buffer".
\* Return the number of bytes actually read".
ReadAsDocumented == [][ReadReturns => Delivered]_c

\* What PrintInt shows, typed back, is the number ReadInt returns, for every
\* int but the smallest, whose negation overflows.
PrintedIntReadsBack ==
  [][(In(SC.PrintInt) /\ c.reg[4] # MinInt) =>
       ReadIntValue(SelectSeq(c'.screen, LAMBDA ch : ch # NUL)) = c.reg[4]]_c
=============================================================================
