---------------------------- MODULE SynchConsole ----------------------------
(***************************************************************************)
(* The console: the device (machine/console.cc) and SynchConsole           *)
(* (threads/synchcons.cc), which makes it synchronous, on top of Threads.  *)
(*                                                                         *)
(* The device takes one character at a time: it displays the character at  *)
(* once and is busy until the interrupt WriteDone; it polls the keyboard   *)
(* and keeps one character until GetChar takes it.  Interrupt handlers run *)
(* wherever a thread is with interrupts on, and while the machine is idle. *)
(***************************************************************************)
EXTENDS Integers, Sequences, FiniteSets, Functions

CONSTANTS
    Thread, Main, NoThread, NoSem,
    Line,       \* what programs write: sequences of characters
    Keyboard,   \* what may be typed: sequences of characters
    EOF,        \* the character 255, in a char the same as EOF
    EOLN, CtrlA,
    MaxBytes,   \* the largest numBytes of a Read
    MaxCalls    \* bound: how many times Read and Write are called

Char == {EOF, EOLN, CtrlA} \cup UNION {Range(s) : s \in Line \cup Keyboard}

ASSUME ConsoleAssumption ==
    /\ Main \in Thread
    /\ Line \cup Keyboard \subseteq Seq(Char)
    /\ \A line \in Line : Len(line) > 0
    /\ Cardinality({EOF, EOLN, CtrlA}) = 3
    /\ MaxBytes \in Nat
    /\ MaxCalls \in Nat

RLineBlock == "RLineBlock"
WLineBlock == "WLineBlock"
synchReadAvail == "synchReadAvail"
synchWriteAvail == "synchWriteAvail"
Semaphores == {RLineBlock, WLineBlock, synchReadAvail, synchWriteAvail}

VARIABLES
    currentThread, level, machine, readyList, status, resume, waitSem, sem,
    threadToBeDestroyed,
    putBusy,    \* Console::putBusy, and an interrupt ConsoleWriteDone is pending
    incoming,   \* Console::incoming
    keyboard,   \* what is typed and not yet polled
    display,    \* what has been displayed
    at,         \* where a thread goes on
    buffer,     \* what is left to write, or what has been read
    numBytes,   \* of the Read or Write a thread is in
    result,     \* what the last Read returned, and what it stored
    calls       \* the number of calls of Read and Write

kernelVars == <<currentThread, level, machine, readyList, status, resume,
                waitSem, sem, threadToBeDestroyed>>
deviceVars == <<putBusy, incoming, keyboard, display>>
callVars == <<at, buffer, numBytes, result, calls>>
vars == <<kernelVars, deviceVars, callVars>>

\* Every character typed is signalled once, so no value exceeds MaxValue.
K == INSTANCE Threads WITH
        Sem <- Semaphores,
        InitVal <- [s \in Semaphores |-> IF s \in {RLineBlock, WLineBlock} THEN 1 ELSE 0],
        DeviceSem <- {synchReadAvail, synchWriteAvail},
        MaxValue <- 100

Init ==
    /\ K!Init
    /\ putBusy = FALSE
    /\ incoming = EOF
    /\ keyboard \in Keyboard
    /\ display = <<>>
    /\ at = [t \in Thread |-> "user"]
    /\ buffer = [t \in Thread |-> <<>>]
    /\ numBytes = [t \in Thread |-> 0]
    /\ result = [t \in Thread |-> <<0, <<>>>>]
    /\ calls = 0

At(loc) == K!InCode /\ at[currentThread] = loc
Goto(loc) == at' = [at EXCEPT ![currentThread] = loc]
Mine == buffer[currentThread]
SetMine(b) == buffer' = [buffer EXCEPT ![currentThread] = b]

\* A program calls Read or Write.
Call(n) ==
    /\ At("user")
    /\ calls < MaxCalls
    /\ calls' = calls + 1
    /\ numBytes' = [numBytes EXCEPT ![currentThread] = n]

SemP(s) == K!DoP(sem, s)

SemV(s) ==
    /\ K!DoV(sem, s)
    /\ UNCHANGED <<currentThread, level, machine, resume, waitSem,
                   threadToBeDestroyed>>

-----------------------------------------------------------------------------
(* The device.                                                             *)

\* Mutant of WriteDone: the handler is not called.
WriteDoneSilent ==
    /\ putBusy
    /\ K!InCode \/ machine = "idle"
    /\ putBusy' = FALSE
    /\ UNCHANGED <<kernelVars, incoming, keyboard, display, callVars>>

\* The interrupt after PutChar: SynchWriteFunct.
WriteDone ==
    /\ putBusy
    /\ K!DeviceV(synchWriteAvail)
    /\ putBusy' = FALSE
    /\ UNCHANGED <<incoming, keyboard, display, callVars>>

\* Mutant of CheckCharAvail: it does not look whether a character is buffered.
CheckCharAvailOverwrites ==
    /\ keyboard # <<>>
    /\ K!DeviceV(synchReadAvail)
    /\ incoming' = Head(keyboard)
    /\ keyboard' = Tail(keyboard)
    /\ UNCHANGED <<putBusy, display, callVars>>

\* The poll finds a character and has room for it: SynchReadFunct.  A character
\* 255 is signalled too, but leaves the room empty.
CheckCharAvail ==
    /\ incoming = EOF
    /\ keyboard # <<>>
    /\ K!DeviceV(synchReadAvail)
    /\ incoming' = Head(keyboard)
    /\ keyboard' = Tail(keyboard)
    /\ UNCHANGED <<putBusy, display, callVars>>

-----------------------------------------------------------------------------
(* Write.                                                                  *)

\* Mutant of WriteCall: the line is not locked.
WriteCallUnlocked(line) ==
    /\ Call(Len(line))
    /\ Goto("put")
    /\ SetMine(line)
    /\ UNCHANGED <<kernelVars, deviceVars, result>>

\* A system call such as PrintString calls Write: up to WLineBlock->P().
WriteCall(line) ==
    /\ Call(Len(line))
    /\ SemP(WLineBlock)
    /\ Goto("put")
    /\ SetMine(line)
    /\ UNCHANGED <<deviceVars, result>>

\* PutChar of the next character, up to synchWriteAvail->P().  PutChar's
\* ASSERT(putBusy == FALSE) is the property PutCharReady.
Put ==
    /\ At("put")
    /\ Mine # <<>>
    /\ putBusy' = TRUE
    /\ display' = Append(display, Head(Mine))
    /\ SemP(synchWriteAvail)
    /\ SetMine(Tail(Mine))
    /\ UNCHANGED <<incoming, keyboard, at, numBytes, result, calls>>

\* The line is written: WLineBlock->V().
WriteReturn ==
    /\ At("put")
    /\ Mine = <<>>
    /\ SemV(WLineBlock)
    /\ Goto("user")
    /\ numBytes' = [numBytes EXCEPT ![currentThread] = 0]
    /\ UNCHANGED <<deviceVars, buffer, result, calls>>

-----------------------------------------------------------------------------
(* Read.                                                                   *)

\* ReadChar, ReadString, ...: Read up to RLineBlock->P().
ReadCall(n) ==
    /\ Call(n)
    /\ SemP(RLineBlock)
    /\ Goto("get")
    /\ SetMine(<<>>)
    /\ UNCHANGED <<deviceVars, result>>

\* RLineBlock->V(), and Read returns ret.
ReadReturn(ret, line) ==
    /\ SemV(RLineBlock)
    /\ Goto("user")
    /\ SetMine(<<>>)
    /\ numBytes' = [numBytes EXCEPT ![currentThread] = 0]
    /\ result' = [result EXCEPT ![currentThread] = <<ret, line>>]
    /\ UNCHANGED calls

\* No character is asked for: ch is compared although it was never assigned.
ReadNothing ==
    /\ At("get")
    /\ numBytes[currentThread] = 0
    /\ \E ret \in {0, -1} : ReadReturn(ret, <<>>)
    /\ UNCHANGED deviceVars

\* The first synchReadAvail->P().
Get ==
    /\ At("get")
    /\ numBytes[currentThread] > 0
    /\ SemP(synchReadAvail)
    /\ Goto("grab")
    /\ UNCHANGED <<deviceVars, buffer, numBytes, result, calls>>

\* GetChar, and the loop up to the next P or V: the line ends, or it is full, or
\* another character is needed.
Grab ==
    /\ At("grab")
    /\ incoming' = EOF
    /\ \/ /\ incoming \in {EOLN, CtrlA}
          /\ ReadReturn(IF incoming = CtrlA THEN -1 ELSE Len(Mine), Mine)
       \/ /\ incoming \notin {EOF, EOLN, CtrlA}
          /\ Len(Mine) + 1 = numBytes[currentThread]
          /\ ReadReturn(Len(Mine) + 1, Append(Mine, incoming))
       \/ /\ incoming \notin {EOLN, CtrlA}
          /\ incoming # EOF => Len(Mine) + 1 < numBytes[currentThread]
          /\ SemP(synchReadAvail)
          /\ SetMine(IF incoming = EOF THEN Mine ELSE Append(Mine, incoming))
          /\ UNCHANGED <<at, numBytes, result, calls>>
    /\ UNCHANGED <<putBusy, keyboard, display>>

-----------------------------------------------------------------------------
(* The specification.                                                      *)

\* A program starts another one, ends, or halts the machine.
Program ==
    /\ At("user")
    /\ (\E t \in Thread : K!Fork(t)) \/ K!Finish \/ K!Halt
    /\ UNCHANGED <<deviceVars, callVars>>

TimeSlice == K!Yield /\ UNCHANGED <<deviceVars, callVars>>

Dispatch ==
    /\ K!Resume \/ K!IdleDispatch
    /\ UNCHANGED <<deviceVars, callVars>>

Kernel == Put \/ WriteReturn \/ ReadNothing \/ Get \/ Grab

Next ==
    \/ WriteDone \/ CheckCharAvail
    \/ \E line \in Line : WriteCall(line)
    \/ \E n \in 0 .. MaxBytes : ReadCall(n)
    \/ Kernel
    \/ Program \/ TimeSlice \/ Dispatch

Spec == Init /\ [][Next]_vars

\* The CPU never stops, time slices keep coming, a thread that gets the CPU again
\* and again goes on with its call, and the device's pending interrupt comes.
FairSpec ==
    /\ Spec
    /\ WF_vars(Dispatch)
    /\ SF_vars(TimeSlice)
    /\ SF_vars(WriteDone)
    /\ \A t \in Thread : SF_vars(currentThread = t /\ Kernel)

-----------------------------------------------------------------------------
(* Properties.                                                             *)

\* The types of the device and of every call in progress: a Read stores characters
\* and returns a count or -1 (SynchConsole::Read), on top of the types of Threads.
TypeOK ==
    /\ K!TypeOK
    /\ putBusy \in BOOLEAN
    /\ incoming \in Char
    /\ keyboard \in Seq(Char)
    /\ display \in Seq(Char)
    /\ at \in [Thread -> {"user", "put", "get", "grab"}]
    /\ buffer \in [Thread -> Seq(Char)]
    /\ numBytes \in [Thread -> Nat]
    /\ result \in [Thread -> (-1 .. MaxBytes) \X Seq(Char)]
    /\ calls \in 0 .. MaxCalls

\* PutChar's ASSERT(putBusy == FALSE) never fails: whoever is about to write a
\* character has the line to itself, and the last WriteDone has come
\* (SynchConsole::Write, Console::PutChar, WriteDone).
PutCharReady == TypeOK /\ (At("put") /\ Mine # <<>> => ~putBusy)

Waits(t, s) == resume[t] = "P" /\ waitSem[t] = s

\* The threads between P and V of WLineBlock, and of RLineBlock.
Writers == {t \in Thread : at[t] = "put" /\ ~Waits(t, WLineBlock)}
Readers == {t \in Thread : at[t] \in {"get", "grab"} /\ ~Waits(t, RLineBlock)}

\* What no Read has returned: what the reader has, what the device has, what is
\* still to be polled.
Untaken ==
    LET have == IF Readers = {} THEN <<>> ELSE buffer[CHOOSE t \in Readers : TRUE]
    IN  SelectSeq(have \o <<incoming>> \o keyboard, LAMBDA c : c # EOF)

\* The lines that are complete: without what has been displayed of the current one.
Complete ==
    LET partly == IF Writers = {} THEN 0
                  ELSE LET w == CHOOSE t \in Writers : TRUE
                       IN  numBytes[w] - Len(buffer[w])
    IN  SubSeq(display, 1, Len(display) - partly)

\* The console keeps the promise of LineConsole: lines are displayed in one piece,
\* and every Read gets consecutive characters of one line, none lost, doubled or
\* shared with another reader, although all of them block for every character
\* (SynchConsole::Read, Write).
Promise ==
    INSTANCE LineConsole WITH
        InitialInput <- {SelectSeq(k, LAMBDA c : c # EOF) : k \in Keyboard},
        in <- Untaken, out <- Complete

ImplementsLines == Promise!Spec

\* A line whose first character may be written is written to the end
\* (SynchConsole::Write, Console::WriteDone).
LineFinishes ==
    \A t \in Thread : t \in Writers ~> at[t] = "user" \/ machine = "halted"

=============================================================================
