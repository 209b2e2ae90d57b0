------------------------------ MODULE Interrupt ------------------------------
(***************************************************************************)
(* machine/interrupt.cc with the devices that drive it: the timer, the     *)
(* disk (machine/disk.cc) and its synchronous front end                    *)
(* (filesys/synchdisk.cc), and the console, on which nobody types          *)
(* (SynchConsole has the rest of it).  Simulated time                      *)
(* moves only in OneTick, when interrupts are switched on again, and in    *)
(* Idle, which jumps to the next pending interrupt.  One call of           *)
(* CheckIfDue is one step.  The state is a record m with the fields        *)
(*   pending        the list of pending interrupts, by due time            *)
(*   totalTicks     the simulated time                                     *)
(*   status         SystemMode, UserMode or IdleMode                       *)
(*   yieldOnReturn  a timer interrupt asked for a context switch           *)
(*   at             run (interrupts on), tick (in OneTick's loop), resume  *)
(*                  (a thread just dispatched, interrupts off), idle and   *)
(*                  idling (Idle's first check and its loop), halted,      *)
(*                  aborted (an ASSERT failed)                             *)
(*   current, ready the running thread and the ready list                  *)
(*   home           thread -> its mode when its outermost OneTick began    *)
(*   phase          thread -> compute, inP (in semaphore->P) or finished   *)
(*   value, queue   the semaphore of SynchDisk                             *)
(*   active, lastSector, bufferInit  the disk                              *)
(*   console, putBusy  whether there is a console, and whether it is busy  *)
(*   timer          whether Nachos was started with -rs                    *)
(***************************************************************************)
EXTENDS List, TLC

CONSTANTS Workers, First, DiskUsers,
          UserTick, SystemTick, RotationTime, SeekTime, ConsoleTime, TimerTicks,
          SectorsPerTrack, NumTracks,
          MaxTicks       \* bound: no thread starts a tick after this time

ASSUME InterruptAssumption ==
  /\ First \in Workers /\ DiskUsers \subseteq Workers
  /\ \A t \in {UserTick, SystemTick, RotationTime, SeekTime, ConsoleTime, TimerTicks,
               SectorsPerTrack, NumTracks} : t \in Nat \ {0}

VARIABLE m

NumSectors == SectorsPerTrack * NumTracks
Sectors == 0..(NumSectors - 1)

(* Interrupt::Schedule                                                     *)

Schedule(s, type, fromNow) ==
  [s EXCEPT !.pending = SortedInsert(@, type, s.totalTicks + fromNow)]

IntType == {"TimerInt", "DiskInt", "ConsoleWriteInt", "ConsoleReadInt"}

(* Timer, with randomize on: what its operations may leave.                *)

TimeOfNextInterrupt == {1 + random : random \in 0..((TimerTicks * 2) - 1)}

NewTimer(s) ==
  {Schedule([s EXCEPT !.timer = TRUE], "TimerInt", t) : t \in TimeOfNextInterrupt}

YieldOnReturn(s) == [s EXCEPT !.yieldOnReturn = TRUE]

TimerInterruptHandler(s) == IF s.status # "IdleMode" THEN YieldOnReturn(s) ELSE s

\* The next interrupt is scheduled, then TimerInterruptHandler is called.
TimerExpired(s) ==
  {TimerInterruptHandler(Schedule(s, "TimerInt", t)) : t \in TimeOfNextInterrupt}

(* Disk                                                                    *)

NewDisk == [active |-> FALSE, lastSector |-> 0, bufferInit |-> 0]

Distance(a, b) == IF a > b THEN a - b ELSE b - a

SeekTicks(s, newSector) ==
  Distance(newSector \div SectorsPerTrack, s.lastSector \div SectorsPerTrack) * SeekTime

\* TimeToSeek: the time to the next sector boundary once the seek is over.
Rotation(s, newSector) ==
  LET over == (s.totalTicks + SeekTicks(s, newSector)) % RotationTime
  IN  IF over > 0 THEN RotationTime - over ELSE 0

ModuloDiff(to, from) ==
  (((to % SectorsPerTrack) - (from % SectorsPerTrack)) + SectorsPerTrack) % SectorsPerTrack

\* When the seek is over and a sector boundary is under the head.
TimeAfter(s, newSector) == s.totalTicks + SeekTicks(s, newSector) + Rotation(s, newSector)

InTrackBuffer(s, newSector, writing) ==
  /\ ~writing /\ SeekTicks(s, newSector) = 0
  /\ (TimeAfter(s, newSector) - s.bufferInit) \div RotationTime
       > ModuloDiff(newSector, s.bufferInit \div RotationTime)

ComputeLatencyMutRound(s, newSector, writing) ==
  IF InTrackBuffer(s, newSector, writing) THEN RotationTime
  ELSE SeekTicks(s, newSector)
       + ModuloDiff(newSector, TimeAfter(s, newSector) \div RotationTime) * RotationTime
       + RotationTime

ComputeLatency(s, newSector, writing) ==
  IF InTrackBuffer(s, newSector, writing) THEN RotationTime
  ELSE SeekTicks(s, newSector) + Rotation(s, newSector)
       + ModuloDiff(newSector, TimeAfter(s, newSector) \div RotationTime) * RotationTime
       + RotationTime

UpdateLast(s, newSector) ==
  [s EXCEPT !.bufferInit = IF SeekTicks(s, newSector) # 0 THEN TimeAfter(s, newSector) ELSE @,
            !.lastSector = newSector]

\* ReadRequest and WriteRequest; a second request trips ASSERT(!active).
DiskRequest(s, sector, writing) ==
  IF s.active THEN [s EXCEPT !.at = "aborted"]
  ELSE Schedule([UpdateLast(s, sector) EXCEPT !.active = TRUE],
                "DiskInt", ComputeLatency(s, sector, writing))

(* SynchDisk                                                               *)

NewSynchDiskMutValue == [value |-> 1, queue |-> <<>>] @@ NewDisk

NewSynchDisk == [value |-> 0, queue |-> <<>>] @@ NewDisk

ReadyToRun(s, thread) == [s EXCEPT !.ready = Append(@, thread)]

V(s) ==
  LET woken == IF s.queue = <<>> THEN s
               ELSE ReadyToRun([s EXCEPT !.queue = Tail(@)], Head(s.queue))
  IN  [woken EXCEPT !.value = @ + 1]

RequestDone(s) == V(s)

\* Disk::HandleInterrupt, whose handler is SynchDisk's.
HandleInterrupt(s) == RequestDone([s EXCEPT !.active = FALSE])

(* Console                                                                 *)

NewConsole(s) ==
  Schedule([s EXCEPT !.console = TRUE, !.putBusy = FALSE], "ConsoleReadInt", ConsoleTime)

\* The poll of the keyboard is scheduled again, and finds nothing.
CheckCharAvail(s) == Schedule(s, "ConsoleReadInt", ConsoleTime)

PutChar(s) == Schedule([s EXCEPT !.putBusy = TRUE], "ConsoleWriteInt", ConsoleTime)
WriteDone(s) == [s EXCEPT !.putBusy = FALSE]

Handlers(s, type) ==
  CASE type = "TimerInt" -> TimerExpired(s)
    [] type = "DiskInt" -> {HandleInterrupt(s)}
    [] type = "ConsoleWriteInt" -> {WriteDone(s)}
    [] type = "ConsoleReadInt" -> {CheckCharAvail(s)}

\* The handler runs in system mode, whatever the machine was doing.
Invoke(s, type) ==
  {[h EXCEPT !.status = s.status] : h \in Handlers([s EXCEPT !.status = "SystemMode"], type)}

(* Interrupt::CheckIfDue: what it returns and the states it may leave.     *)

Nothing(s) == [due |-> FALSE, next |-> {s}]

NotYetMutEqual(s, when) == when >= s.totalTicks
NotYet(s, when) == when > s.totalTicks

TimerAloneMutAny(s, top) == s.status = "IdleMode" /\ top.item = "TimerInt"

\* An idle machine with nothing but the timer pending is not kept running.
TimerAlone(s, top) == s.status = "IdleMode" /\ top.item = "TimerInt" /\ IsEmpty(top.list)

CheckIfDue(s, advanceClock) ==
  IF IsEmpty(s.pending) THEN Nothing(s)
  ELSE LET top == SortedRemove(s.pending)
           putBack == SortedInsert(top.list, top.item, top.key)
           taken == [s EXCEPT !.pending = top.list,
                              !.totalTicks = IF NotYet(s, top.key) THEN top.key ELSE @]
       IN  IF NotYet(s, top.key) /\ ~advanceClock THEN Nothing([s EXCEPT !.pending = putBack])
           ELSE IF TimerAlone(s, top) THEN Nothing([taken EXCEPT !.pending = putBack])
           ELSE [due |-> TRUE, next |-> Invoke(taken, top.item)]

(* OneTick, Yield, Sleep and Idle.                                         *)

StartTick(s) ==
  [s EXCEPT !.at = "tick",
            !.totalTicks = @ + (IF s.status = "SystemMode" THEN SystemTick ELSE UserTick)]

\* SetLevel(IntOn), or the end of a user instruction: OneTick of the thread itself.
OneTick(s) == StartTick([s EXCEPT !.home[s.current] = s.status])

\* The next ready thread, or Interrupt::Idle when there is none.
Dispatch(s) ==
  IF s.ready = <<>> THEN [s EXCEPT !.status = "IdleMode", !.at = "idle"]
  ELSE [s EXCEPT !.current = Head(s.ready), !.ready = Tail(@), !.at = "resume"]

\* Thread::Yield: with nobody ready it only switches interrupts on again.
Yield(s) == IF s.ready = <<>> THEN StartTick(s)
            ELSE Dispatch(ReadyToRun(s, s.current))

\* The end of OneTick, and of the OneTicks and Yields it was nested in.
EndTick(s) ==
  IF s.yieldOnReturn THEN Yield([s EXCEPT !.yieldOnReturn = FALSE, !.status = "SystemMode"])
  ELSE [s EXCEPT !.at = "run", !.status = s.home[s.current]]

\* semaphore->P() of SynchDisk, from its test of the value on.
P(s) ==
  IF s.value = 0
  THEN Dispatch([s EXCEPT !.queue = Append(@, s.current), !.phase[s.current] = "inP"])
  ELSE OneTick([s EXCEPT !.value = @ - 1, !.phase[s.current] = "compute"])

-----------------------------------------------------------------------------
NewInterrupt == [pending |-> EmptyList, yieldOnReturn |-> FALSE, status |-> "SystemMode"]

Orders(S) == {q \in [1..Cardinality(S) -> S] : \A i, j \in DOMAIN q : q[i] = q[j] => i = j}

\* Initialize, with every thread but the first on the ready list, up to the tick
\* of interrupt->Enable().
Init ==
  \E others \in Orders(Workers \ {First}) :
    LET s == NewInterrupt @@ NewSynchDisk
             @@ [totalTicks |-> 0, at |-> "run", current |-> First, ready |-> others,
                 home |-> [w \in Workers |-> "SystemMode"],
                 phase |-> [w \in Workers |-> "compute"],
                 timer |-> FALSE, console |-> FALSE, putBusy |-> FALSE]
    IN  \E t \in {s} \cup NewTimer(s) : m = OneTick(t)

Running(mode) == m.at = "run" /\ m.status = mode

\* One user instruction, one kernel section with interrupts off, or a change of
\* mode (RaiseException and its return).
UserInstruction == Running("UserMode") /\ m.totalTicks < MaxTicks /\ m' = OneTick(m)
KernelSection == Running("SystemMode") /\ m.totalTicks < MaxTicks /\ m' = OneTick(m)
ChangeMode ==
  \/ Running("UserMode") /\ m' = [m EXCEPT !.status = "SystemMode"]
  \/ Running("SystemMode") /\ m' = [m EXCEPT !.status = "UserMode"]

\* SynchDisk::ReadSector and WriteSector; the Lock they take is a stub.
SectorIO ==
  /\ Running("SystemMode") /\ m.current \in DiskUsers /\ m.totalTicks < MaxTicks
  /\ \E sector \in Sectors, writing \in BOOLEAN :
       LET s == DiskRequest(m, sector, writing)
       IN  m' = IF s.at = "aborted" THEN s ELSE P(s)

\* Initialize or ConsoleTest makes the console.
OpenConsole == Running("SystemMode") /\ ~m.console /\ m' = NewConsole(m)

ConsoleOutput == Running("SystemMode") /\ m.console /\ ~m.putBusy /\ m' = PutChar(m)

FinishThread == Running("SystemMode") /\ m' = Dispatch([m EXCEPT !.phase[m.current] = "finished"])

\* One turn of `while (CheckIfDue(FALSE))`.
Tick ==
  /\ m.at = "tick" /\ m.totalTicks <= MaxTicks
  /\ LET check == CheckIfDue(m, FALSE)
     IN  \E s \in check.next : m' = IF check.due THEN s ELSE EndTick(s)

\* A dispatched thread goes on in P, or leaves Yield with SetLevel(IntOn).
Resume ==
  /\ m.at = "resume"
  /\ m' = IF m.phase[m.current] = "inP" THEN P(m) ELSE StartTick(m)

Idle ==
  \/ /\ m.at = "idle" /\ m.totalTicks <= MaxTicks
     /\ LET check == CheckIfDue(m, TRUE)
        IN  \E s \in check.next : m' = [s EXCEPT !.at = IF check.due THEN "idling" ELSE "halted"]
  \/ /\ m.at = "idling"
     /\ LET check == CheckIfDue(m, FALSE)
        IN  \E s \in check.next :
              m' = IF check.due THEN s
                   ELSE Dispatch([s EXCEPT !.yieldOnReturn = FALSE, !.status = "SystemMode"])

Next ==
  \/ UserInstruction \/ KernelSection \/ ChangeMode \/ SectorIO
  \/ OpenConsole \/ ConsoleOutput \/ FinishThread
  \/ Tick \/ Resume \/ Idle

Spec == Init /\ [][Next]_m

-----------------------------------------------------------------------------
PendingOf(type) == {n \in Nodes : m.pending.elem[n] # NULL /\ m.pending.elem[n].item = type}
DueAt(type) == m.pending.elem[CHOOSE n \in PendingOf(type) : TRUE].key

\* A device has one interrupt pending exactly while it is busy, the timer and the
\* keyboard always have one, and the machine is idle only in Idle.
TypeOK ==
  /\ m.current \in Workers /\ m.value \in 0..1 /\ m.lastSector \in Sectors
  /\ (m.status = "IdleMode") = (m.at \in {"idle", "idling", "halted"})
  /\ \A type \in IntType :
       LET expected == CASE type = "TimerInt" -> m.timer
                         [] type = "DiskInt" -> m.active
                         [] type = "ConsoleWriteInt" -> m.putBusy
                         [] type = "ConsoleReadInt" -> m.console
       IN  Cardinality(PendingOf(type)) = (IF expected THEN 1 ELSE 0)

\* The pending list holds the interrupts TypeOK says, in the order of their times,
\* after any sequence of Schedule and of CheckIfDue taking the first one off and
\* putting it back.
PendingOrdered == TypeOK /\ WellFormed(m.pending) /\ Sorted(m.pending)

\* No interrupt is delivered before its time, and whenever thread code runs every
\* interrupt whose time has come was delivered, while time moves in ticks of two
\* sizes and jumps when the machine is idle (OneTick, Idle, CheckIfDue).
DeliveredOnTime ==
  [][\A n \in Nodes :
       LET e == m.pending.elem[n]
           new == m'.pending.elem
           kept == \E k \in Nodes : new[k] # NULL /\ new[k].item = e.item /\ new[k].key = e.key
       IN  /\ e # NULL /\ ~kept => e.key <= m'.totalTicks
           /\ m'.at = "run" /\ new[n] # NULL => new[n].key > m'.totalTicks]_m

\* By time t a sector has gone past the head completely, not before time from.
Passed(sector, from, t) ==
  /\ t % RotationTime = 0 /\ t - RotationTime >= from
  /\ ((t - RotationTime) \div RotationTime) % SectorsPerTrack = sector % SectorsPerTrack

\* ComputeLatency: a request ends the first time its sector has gone past the
\* head after the seek, or one sector's time from now when the track buffer has,
\* by then, seen the whole sector since the head came to this track.
LatencyExact ==
  [][(~m.active /\ m'.active) =>
       LET sector == m'.lastSector
           done == DueAt("DiskInt")'
           start == m.totalTicks + SeekTicks(m, sector)
       IN  \/ /\ Passed(sector, start, done)
              /\ \A t \in start..(done - 1) : ~Passed(sector, start, t)
           \/ /\ start = m.totalTicks /\ done = start + RotationTime
              /\ \E t \in m.bufferInit..done : Passed(sector, m.bufferInit, t)]_m

\* Idle halts the machine only when no thread waits for the disk: an idle machine
\* with the disk busy waits for it, whatever the timer does meanwhile, and one with
\* a console is never halted ("there are *always* pending interrupts",
\* interrupt.cc:227).
HaltMeansDone ==
  m.at = "halted" => /\ ~m.active /\ ~m.console
                     /\ \A w \in Workers : m.phase[w] = "finished"

\* The disk never gets a request while it works on one ("only one disk I/O at a
\* time", synchdisk.cc), so ASSERT(!active) holds.
OneRequestAtATime == m.at # "aborted"

\* ReadSector and WriteSector return only when the disk has finished, so a thread
\* that has the disk for itself never trips ASSERT(!active).
ReturnsWhenDone == m.at # "aborted" /\ (m.active => \E w \in Workers : m.phase[w] = "inP")
=============================================================================
