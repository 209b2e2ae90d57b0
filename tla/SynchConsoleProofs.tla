------------------------- MODULE SynchConsoleProofs -------------------------
(***************************************************************************)
(* Proof that PutChar finds the device ready, for any threads, lines and   *)
(* lengths of a Read.                                                      *)
(***************************************************************************)
EXTENDS SynchConsole, SequenceTheorems, TLAPS

-----------------------------------------------------------------------------
(* The kernel below the console.                                           *)

\* A thread inside P is there for a semaphore, and a thread with interrupts on is
\* not in the middle of P or Yield.
KernelInv ==
    /\ K!TypeOK
    /\ \A t \in Thread : resume[t] = "P" => waitSem[t] \in Semaphores
    /\ K!InCode => resume[currentThread] = "code"

\* The calls of the kernel that the actions of SynchConsole make.
KernelStep ==
    \/ \E t \in Thread : K!Fork(t)
    \/ \E s \in Semaphores : K!InCode /\ K!DoP(sem, s)
    \/ \E s \in Semaphores : SemV(s)
    \/ K!Halt \/ K!Finish \/ K!Yield \/ K!Resume \/ K!IdleDispatch
    \/ UNCHANGED kernelVars

\* Scheduler::Run of the first ready thread.
LEMMA RunKeeps ==
    ASSUME KernelInv, readyList # <<>>, NEW STATE st, st \in [Thread -> K!ThreadStatus],
           currentThread' = Head(readyList), status' = [st EXCEPT ![Head(readyList)] = "RUNNING"]
    PROVE  /\ currentThread' \in Thread
           /\ Tail(readyList) \in Seq(Thread)
           /\ status' \in [Thread -> K!ThreadStatus]
<1>1. Head(readyList) \in Thread /\ Tail(readyList) \in Seq(Thread)
  BY HeadTailProperties DEF KernelInv, K!TypeOK
<1> QED BY <1>1 DEF K!ThreadStatus

\* Thread::Sleep, with a ready thread and without.
LEMMA SleepKeeps ==
    ASSUME KernelInv, NEW STATE st, st \in [Thread -> K!ThreadStatus], K!Sleep(st)
    PROVE  /\ currentThread' \in Thread
           /\ readyList' \in Seq(Thread)
           /\ status' \in [Thread -> K!ThreadStatus]
           /\ machine' \in {"running", "idle", "halted"}
           /\ level' = "IntOff"
<1> DEFINE blocked == [st EXCEPT ![currentThread] = "BLOCKED"]
<1>1. blocked \in [Thread -> K!ThreadStatus]
  BY Zenon DEF K!ThreadStatus
<1>2. CASE readyList = <<>>
  BY <1>1, <1>2 DEF K!Sleep, KernelInv, K!TypeOK
<1>3. CASE readyList # <<>>
  <2>1. /\ currentThread' = Head(readyList) /\ readyList' = Tail(readyList)
        /\ status' = [blocked EXCEPT ![Head(readyList)] = "RUNNING"]
        /\ machine' = "running" /\ level' = "IntOff"
    BY <1>3 DEF K!Sleep, K!Run
  <2> HIDE DEF blocked
  <2> QED BY <1>1, <1>3, <2>1, RunKeeps, Zenon
<1> QED BY <1>2, <1>3

\* Deleting the carcass of a finished thread.
LEMMA ReapedType == ASSUME KernelInv PROVE K!Reaped \in [Thread -> K!ThreadStatus]
BY DEF KernelInv, K!TypeOK, K!Reaped, K!ThreadStatus

\* currentThread waits in the queue of s.
LEMMA BlockOnKeeps ==
    ASSUME KernelInv, NEW s \in Semaphores, NEW STATE st, st \in [Thread -> K!ThreadStatus],
           K!BlockOn(sem, s, st), threadToBeDestroyed' \in Thread \cup {NoThread}
    PROVE  KernelInv'
<1> DEFINE new == [sem[s] EXCEPT !.queue = Append(sem[s].queue, currentThread)]
<1>1. /\ sem \in [Semaphores -> K!SemState]
      /\ sem[s] \in K!SemState /\ sem[s].queue \in Seq(Thread)
      /\ currentThread \in Thread
  BY DEF KernelInv, K!TypeOK, K!SemState
<1>2. Append(sem[s].queue, currentThread) \in Seq(Thread)
  BY <1>1, AppendProperties
<1>3. new \in K!SemState
  BY <1>1, <1>2, Zenon DEF K!SemState
<1>4. sem' = [sem EXCEPT ![s] = new]
  BY DEF K!BlockOn
<1> HIDE DEF new
<1>5. sem' \in [Semaphores -> K!SemState]
  BY <1>1, <1>3, <1>4
<1>6. /\ resume' \in [Thread -> K!ResumePoint]
      /\ waitSem' \in [Thread -> Semaphores \cup {NoSem}]
      /\ \A t \in Thread : resume'[t] = "P" => waitSem'[t] \in Semaphores
  BY DEF KernelInv, K!TypeOK, K!BlockOn, K!ResumePoint
<1>7. /\ currentThread' \in Thread
      /\ readyList' \in Seq(Thread)
      /\ status' \in [Thread -> K!ThreadStatus]
      /\ machine' \in {"running", "idle", "halted"}
      /\ level' = "IntOff"
  BY SleepKeeps DEF K!BlockOn
<1> QED BY <1>5, <1>6, <1>7 DEF KernelInv, K!TypeOK, K!InCode

\* currentThread takes a unit of s and goes on with interrupts on.
LEMMA TakeKeeps ==
    ASSUME KernelInv, NEW s \in Semaphores, K!Take(sem, s),
           status' \in [Thread -> K!ThreadStatus],
           threadToBeDestroyed' \in Thread \cup {NoThread}
    PROVE  KernelInv'
<1> DEFINE new == [sem[s] EXCEPT !.value = sem[s].value - 1]
<1>1. sem \in [Semaphores -> K!SemState] /\ sem[s] \in K!SemState
  BY DEF KernelInv, K!TypeOK
<1>2. new \in K!SemState
  BY <1>1 DEF K!SemState
<1>3. sem' = [sem EXCEPT ![s] = new]
  BY DEF K!Take
<1> HIDE DEF new
<1>4. sem' \in [Semaphores -> K!SemState]
  BY <1>1, <1>2, <1>3
<1>5. /\ resume' \in [Thread -> K!ResumePoint]
      /\ waitSem' \in [Thread -> Semaphores \cup {NoSem}]
      /\ \A t \in Thread : resume'[t] = "P" => waitSem'[t] \in Semaphores
      /\ resume'[currentThread'] = "code"
  BY DEF KernelInv, K!TypeOK, K!Take, K!ResumePoint
<1> QED BY <1>4, <1>5 DEF KernelInv, K!TypeOK, K!Take

\* Semaphore::V, by a thread or by an interrupt handler.
LEMMA VKeeps ==
    ASSUME KernelInv, NEW s \in Semaphores, SemV(s)
    PROVE  KernelInv'
<1> DEFINE q == sem[s].queue
<1>1. /\ sem \in [Semaphores -> K!SemState] /\ sem[s] \in K!SemState
      /\ q \in Seq(Thread) /\ sem[s].value + 1 \in Int
  BY DEF KernelInv, K!TypeOK, K!SemState
<1>2. /\ sem' \in [Semaphores -> K!SemState]
      /\ readyList' \in Seq(Thread)
      /\ status' \in [Thread -> K!ThreadStatus]
  <2>1. CASE q = <<>>
    <3> DEFINE new == [sem[s] EXCEPT !.value = sem[s].value + 1]
    <3>1. new \in K!SemState
      BY <1>1 DEF K!SemState
    <3>2. sem' = [sem EXCEPT ![s] = new] /\ UNCHANGED <<readyList, status>>
      BY <2>1 DEF SemV, K!DoV
    <3> HIDE DEF new
    <3> QED BY <1>1, <3>1, <3>2 DEF KernelInv, K!TypeOK
  <2>2. CASE q # <<>>
    <3> DEFINE new == [value |-> sem[s].value + 1, queue |-> Tail(q)]
    <3>1. Head(q) \in Thread /\ Tail(q) \in Seq(Thread)
      BY <1>1, <2>2, HeadTailProperties
    <3>2. new \in K!SemState
      BY <1>1, <3>1 DEF K!SemState
    <3>3. /\ sem' = [sem EXCEPT ![s] = new]
          /\ readyList' = Append(readyList, Head(q))
          /\ status' = [status EXCEPT ![Head(q)] = "READY"]
      BY <2>2 DEF SemV, K!DoV
    <3> HIDE DEF new
    <3>4. readyList' \in Seq(Thread)
      BY <3>1, <3>3, AppendProperties DEF KernelInv, K!TypeOK
    <3> QED BY <1>1, <3>1, <3>2, <3>3, <3>4 DEF KernelInv, K!TypeOK, K!ThreadStatus
  <2> QED BY <2>1, <2>2
<1> QED BY <1>2 DEF SemV, KernelInv, K!TypeOK, K!InCode

\* The steps that touch no semaphore: Fork, Yield, Finish and the context switches.
LEMMA SchedulerKeeps ==
    ASSUME KernelInv,
           \/ \E t \in Thread : K!Fork(t)
           \/ K!Halt \/ K!Finish \/ K!Yield \/ K!ResumeRoot \/ K!ResumeYield \/ K!IdleDispatch
           \/ UNCHANGED kernelVars
    PROVE  KernelInv'
<1>1. ASSUME NEW t \in Thread, K!Fork(t) PROVE KernelInv'
  <2>1. readyList' \in Seq(Thread) /\ status' \in [Thread -> K!ThreadStatus]
    BY <1>1, AppendProperties DEF K!Fork, KernelInv, K!TypeOK, K!ThreadStatus
  <2> QED BY <1>1, <2>1 DEF K!Fork, KernelInv, K!TypeOK, K!InCode
<1>2. ASSUME K!Finish PROVE KernelInv'
  <2>1. status \in [Thread -> K!ThreadStatus] /\ K!Sleep(status)
    BY <1>2 DEF K!Finish, KernelInv, K!TypeOK
  <2>2. /\ currentThread' \in Thread
        /\ readyList' \in Seq(Thread)
        /\ status' \in [Thread -> K!ThreadStatus]
        /\ machine' \in {"running", "idle", "halted"}
        /\ level' = "IntOff"
    BY <2>1, SleepKeeps
  <2>3. /\ resume' \in [Thread -> K!ResumePoint]
        /\ \A t \in Thread : resume'[t] = "P" => resume[t] = "P"
        /\ threadToBeDestroyed' \in Thread
        /\ UNCHANGED <<sem, waitSem>>
    BY <1>2 DEF K!Finish, KernelInv, K!TypeOK, K!ResumePoint
  <2> QED BY <2>2, <2>3 DEF KernelInv, K!TypeOK, K!InCode
<1>3. ASSUME K!Yield PROVE KernelInv'
  <2> DEFINE st == [status EXCEPT ![currentThread] = "READY"]
  <2>1. st \in [Thread -> K!ThreadStatus] /\ readyList # <<>>
    BY <1>3 DEF K!Yield, KernelInv, K!TypeOK, K!ThreadStatus
  <2>2. /\ currentThread' = Head(readyList)
        /\ readyList' = Append(Tail(readyList), currentThread)
        /\ status' = [st EXCEPT ![Head(readyList)] = "RUNNING"]
        /\ machine' = "running" /\ level' = "IntOff"
        /\ resume' = [resume EXCEPT ![currentThread] = "yield"]
        /\ UNCHANGED <<sem, waitSem, threadToBeDestroyed>>
    BY <1>3 DEF K!Yield, K!Run
  <2> HIDE DEF st
  <2>3. /\ currentThread' \in Thread /\ Tail(readyList) \in Seq(Thread)
        /\ status' \in [Thread -> K!ThreadStatus]
    BY <2>1, <2>2, RunKeeps, Zenon
  <2>4. readyList' \in Seq(Thread)
    BY <2>2, <2>3, AppendProperties DEF KernelInv, K!TypeOK
  <2> QED BY <2>2, <2>3, <2>4 DEF KernelInv, K!TypeOK, K!InCode, K!ResumePoint
<1>4. ASSUME K!IdleDispatch PROVE KernelInv'
  <2>1. /\ readyList # <<>> /\ status \in [Thread -> K!ThreadStatus]
        /\ currentThread' = Head(readyList) /\ readyList' = Tail(readyList)
        /\ status' = [status EXCEPT ![Head(readyList)] = "RUNNING"]
        /\ machine' = "running" /\ level' = "IntOff"
        /\ UNCHANGED <<resume, waitSem, sem, threadToBeDestroyed>>
    BY <1>4 DEF K!IdleDispatch, K!Run, KernelInv, K!TypeOK
  <2>2. /\ currentThread' \in Thread /\ Tail(readyList) \in Seq(Thread)
        /\ status' \in [Thread -> K!ThreadStatus]
    BY <2>1, RunKeeps, Zenon
  <2> QED BY <2>1, <2>2 DEF KernelInv, K!TypeOK, K!InCode
<1>5. ASSUME K!Halt \/ UNCHANGED kernelVars PROVE KernelInv'
  BY <1>5 DEF K!Halt, kernelVars, KernelInv, K!TypeOK, K!InCode
<1>6. ASSUME K!ResumeRoot \/ K!ResumeYield PROVE KernelInv'
  <2>1. status' \in [Thread -> K!ThreadStatus] /\ threadToBeDestroyed' \in Thread \cup {NoThread}
    BY <1>6, ReapedType DEF K!ResumeRoot, K!ResumeYield, KernelInv, K!TypeOK
  <2>2. /\ resume' = [resume EXCEPT ![currentThread] = "code"]
        /\ level' = "IntOn"
        /\ UNCHANGED <<currentThread, machine, readyList, waitSem, sem>>
    BY <1>6 DEF K!ResumeRoot, K!ResumeYield
  <2> QED BY <2>1, <2>2 DEF KernelInv, K!TypeOK, K!ResumePoint
<1> QED BY <1>1, <1>2, <1>3, <1>4, <1>5, <1>6

\* Every call of the kernel keeps the invariant.
LEMMA KernelKeeps == ASSUME KernelInv, KernelStep PROVE KernelInv'
<1>1. /\ status \in [Thread -> K!ThreadStatus]
      /\ threadToBeDestroyed \in Thread \cup {NoThread}
      /\ currentThread \in Thread
  BY DEF KernelInv, K!TypeOK
<1>2. ASSUME NEW s \in Semaphores, K!DoP(sem, s) PROVE KernelInv'
  <2>1. CASE K!BlockOn(sem, s, status)
    BY <1>1, <1>2, <2>1, BlockOnKeeps DEF K!DoP
  <2>2. CASE K!Take(sem, s) /\ UNCHANGED status
    BY <1>1, <1>2, <2>2, TakeKeeps DEF K!DoP
  <2> QED BY <1>2, <2>1, <2>2 DEF K!DoP
<1>3. ASSUME K!ResumeP PROVE KernelInv'
  <2>1. PICK s \in Semaphores : s = waitSem[currentThread]
    BY <1>1, <1>3 DEF KernelInv, K!ResumeP
  <2>2. CASE K!BlockOn(sem, s, K!Reaped)
    BY <1>3, <2>2, BlockOnKeeps, ReapedType DEF K!ResumeP
  <2>3. CASE K!Take(sem, s) /\ status' = K!Reaped
    BY <1>3, <2>3, TakeKeeps, ReapedType DEF K!ResumeP
  <2> QED BY <1>3, <2>1, <2>2, <2>3 DEF K!ResumeP
<1> QED BY <1>2, <1>3, VKeeps, SchedulerKeeps DEF KernelStep, K!Resume

\* Every step of the console and of its programs is one call of the kernel, or none.
LEMMA NextIsKernel == [Next]_vars => KernelStep
<1>1. \A s \in Semaphores : K!DeviceV(s) => SemV(s)
  BY DEF K!DeviceV, SemV
<1>2. {RLineBlock, WLineBlock, synchReadAvail, synchWriteAvail} \subseteq Semaphores
  BY DEF Semaphores
<1> QED BY <1>1, <1>2 DEF Next, vars, KernelStep, WriteDone, CheckCharAvail, WriteCall, ReadCall,
        Call, Kernel, Put, WriteReturn, ReadNothing, Get, Grab, ReadReturn, Program, TimeSlice,
        Dispatch, SemP, At

-----------------------------------------------------------------------------
(* What a call of the kernel does to the values of the semaphores, and to  *)
(* who is inside P of which one.                                           *)

Value(s) == sem[s].value

\* No thread enters or leaves P, and no value changes.
Quiet ==
    /\ \A x \in Semaphores : Value(x)' = Value(x)
    /\ \A t \in Thread, x \in Semaphores : Waits(t, x)' <=> Waits(t, x)

\* currentThread finds the value of s zero and is inside its P.
Blocks(s) ==
    /\ Value(s) = 0
    /\ \A x \in Semaphores : Value(x)' = Value(x)
    /\ \A t \in Thread, x \in Semaphores :
          Waits(t, x)' <=> IF t = currentThread THEN x = s ELSE Waits(t, x)

\* currentThread takes a unit of s and is not inside a P any more.
Takes(s) ==
    /\ Value(s) # 0
    /\ Value(s)' = Value(s) - 1
    /\ \A x \in Semaphores \ {s} : Value(x)' = Value(x)
    /\ \A t \in Thread, x \in Semaphores :
          Waits(t, x)' <=> t # currentThread /\ Waits(t, x)

\* A unit is added to s.
Adds(s) ==
    /\ Value(s)' = Value(s) + 1
    /\ \A x \in Semaphores \ {s} : Value(x)' = Value(x)
    /\ \A t \in Thread, x \in Semaphores : Waits(t, x)' <=> Waits(t, x)

\* Semaphore::P either way.
LEMMA BlockOrTake ==
    ASSUME KernelInv, NEW s \in Semaphores, NEW STATE st,
           \/ Value(s) = 0 /\ K!BlockOn(sem, s, st)
           \/ Value(s) # 0 /\ K!Take(sem, s)
    PROVE  Blocks(s) \/ Takes(s)
<1>1. /\ currentThread \in Thread
      /\ resume \in [Thread -> K!ResumePoint]
      /\ waitSem \in [Thread -> Semaphores \cup {NoSem}]
      /\ sem \in [Semaphores -> K!SemState]
  BY DEF KernelInv, K!TypeOK
<1>2. CASE Value(s) = 0 /\ K!BlockOn(sem, s, st)
  <2>1. /\ resume' = [resume EXCEPT ![currentThread] = "P"]
        /\ waitSem' = [waitSem EXCEPT ![currentThread] = s]
        /\ sem' = [sem EXCEPT ![s] = [sem[s] EXCEPT !.queue = Append(@, currentThread)]]
    BY <1>2 DEF K!BlockOn
  <2>2. \A x \in Semaphores : Value(x)' = Value(x)
    BY <1>1, <2>1 DEF Value, K!SemState
  <2>3. /\ resume'[currentThread] = "P" /\ waitSem'[currentThread] = s
        /\ \A t \in Thread \ {currentThread} :
              resume'[t] = resume[t] /\ waitSem'[t] = waitSem[t]
    BY <1>1, <2>1
  <2> QED BY <1>2, <2>2, <2>3 DEF Blocks, Waits
<1>3. CASE Value(s) # 0 /\ K!Take(sem, s)
  <2>1. /\ resume' = [resume EXCEPT ![currentThread] = "code"]
        /\ sem' = [sem EXCEPT ![s] = [sem[s] EXCEPT !.value = @ - 1]]
        /\ waitSem' = [waitSem EXCEPT ![currentThread] = NoSem]
    BY <1>3 DEF K!Take
  <2>2. /\ Value(s)' = Value(s) - 1
        /\ \A x \in Semaphores \ {s} : Value(x)' = Value(x)
    BY <1>1, <2>1 DEF Value, K!SemState
  <2>3. /\ resume'[currentThread] = "code"
        /\ \A t \in Thread \ {currentThread} :
              resume'[t] = resume[t] /\ waitSem'[t] = waitSem[t]
    BY <1>1, <2>1
  <2> QED BY <1>3, <2>2, <2>3 DEF Takes, Waits
<1> QED BY <1>2, <1>3

\* P by a thread in its code, and P gone on with after a wake-up.
LEMMA PEffect ==
    ASSUME KernelInv, NEW s \in Semaphores, SemP(s)
    PROVE  Blocks(s) \/ Takes(s)
BY BlockOrTake DEF SemP, K!DoP, Value

LEMMA ResumePEffect ==
    ASSUME KernelInv, K!ResumeP
    PROVE  \E s \in Semaphores : Waits(currentThread, s) /\ (Blocks(s) \/ Takes(s))
<1>1. PICK s \in Semaphores : s = waitSem[currentThread] /\ Waits(currentThread, s)
  <2>1. currentThread \in Thread /\ \A t \in Thread : resume[t] = "P" => waitSem[t] \in Semaphores
    BY DEF KernelInv, K!TypeOK
  <2>2. resume[currentThread] = "P"
    BY DEF K!ResumeP
  <2> QED BY <2>1, <2>2 DEF Waits
<1>2. Blocks(s) \/ Takes(s)
  BY <1>1, BlockOrTake DEF K!ResumeP, Value
<1> QED BY <1>1, <1>2

LEMMA VEffect ==
    ASSUME KernelInv, NEW s \in Semaphores, SemV(s)
    PROVE  Adds(s)
<1>1. sem \in [Semaphores -> K!SemState]
  BY DEF KernelInv, K!TypeOK
<1>2. /\ Value(s)' = Value(s) + 1
      /\ \A x \in Semaphores \ {s} : Value(x)' = Value(x)
  <2>1. \/ sem' = [sem EXCEPT ![s] = [sem[s] EXCEPT !.value = @ + 1]]
        \/ sem' = [sem EXCEPT ![s] = [value |-> sem[s].value + 1, queue |-> Tail(sem[s].queue)]]
    BY DEF SemV, K!DoV
  <2> QED BY <1>1, <2>1 DEF Value, K!SemState
<1> QED BY <1>2 DEF Adds, SemV, Waits

\* A thread that executes its code, or is being switched to, is not inside P; so
\* Fork, Yield, Finish and the other returns from SWITCH are quiet.
LEMMA QuietEffect ==
    ASSUME KernelInv,
           \/ \E t \in Thread : K!Fork(t)
           \/ K!Halt /\ K!InCode
           \/ K!Finish \/ K!Yield \/ K!ResumeRoot \/ K!ResumeYield \/ K!IdleDispatch
           \/ UNCHANGED kernelVars
    PROVE  Quiet
<1>1. /\ currentThread \in Thread
      /\ resume \in [Thread -> K!ResumePoint]
      /\ K!InCode => resume[currentThread] = "code"
  BY DEF KernelInv, K!TypeOK
<1>2. UNCHANGED <<sem, waitSem>>
  BY DEF K!Fork, K!Halt, K!Finish, K!Yield, K!ResumeRoot, K!ResumeYield, K!IdleDispatch,
     kernelVars
<1>3. \/ UNCHANGED resume
      \/ /\ resume[currentThread] # "P"
         /\ \E r \in {"yield", "done", "code"} : resume' = [resume EXCEPT ![currentThread] = r]
  BY <1>1 DEF K!Fork, K!Halt, K!Finish, K!Yield, K!ResumeRoot, K!ResumeYield, K!IdleDispatch,
     kernelVars
<1> QED BY <1>1, <1>2, <1>3 DEF Quiet, Value, Waits

-----------------------------------------------------------------------------
(* The invariant.                                                          *)

\* The types of TypeOK, and a Read stores no more than it was asked for.
CallTypes ==
    /\ putBusy \in BOOLEAN
    /\ incoming \in Char
    /\ keyboard \in Seq(Char)
    /\ display \in Seq(Char)
    /\ at \in [Thread -> {"user", "put", "get", "grab"}]
    /\ buffer \in [Thread -> Seq(Char)]
    /\ numBytes \in [Thread -> Nat]
    /\ result \in [Thread -> (-1 .. MaxBytes) \X Seq(Char)]
    /\ calls \in 0 .. MaxCalls
    /\ \A t \in Thread : at[t] \in {"get", "grab"} =>
          numBytes[t] <= MaxBytes /\ Len(buffer[t]) <= numBytes[t]

\* The threads in Write, between P and V of WLineBlock.
Writer(t) == at[t] = "put" /\ ~Waits(t, WLineBlock)

\* WLineBlock is zero exactly while one thread is between its P and V; and while
\* the device is busy, or its interrupt has come and nobody has seen it yet, that
\* thread is inside P of synchWriteAvail.
LineInv ==
    /\ Value(WLineBlock) \in {0, 1}
    /\ Value(WLineBlock) = 0 <=> \E t \in Thread : Writer(t)
    /\ \A t, u \in Thread : Writer(t) /\ Writer(u) => t = u
    /\ \A t \in Thread : Waits(t, WLineBlock) \/ Waits(t, synchWriteAvail) => at[t] = "put"
    /\ Value(synchWriteAvail) \in {0, 1}
    /\ putBusy => Value(synchWriteAvail) = 0
    /\ putBusy \/ Value(synchWriteAvail) = 1 => \E t \in Thread : Waits(t, synchWriteAvail)

\* The four semaphores are different.
LEMMA FourSemaphores ==
    /\ {RLineBlock, WLineBlock, synchReadAvail, synchWriteAvail} = Semaphores
    /\ WLineBlock # synchWriteAvail
    /\ {WLineBlock, synchWriteAvail} \cap {RLineBlock, synchReadAvail} = {}
BY DEF Semaphores, RLineBlock, WLineBlock, synchReadAvail, synchWriteAvail

\* A thread that executes its code is not inside P.
LEMMA NotInP ==
    ASSUME KernelInv
    PROVE  /\ currentThread \in Thread
           /\ K!InCode => \A x \in Semaphores : ~Waits(currentThread, x)
BY DEF KernelInv, K!TypeOK, Waits

\* A step that has nothing to do with writing keeps the invariant.
LEMMA LineFrame ==
    ASSUME LineInv, UNCHANGED putBusy,
           \A x \in {WLineBlock, synchWriteAvail} : Value(x)' = Value(x),
           \A t \in Thread, x \in {WLineBlock, synchWriteAvail} : Waits(t, x)' <=> Waits(t, x),
           \A t \in Thread : at'[t] = "put" <=> at[t] = "put"
    PROVE  LineInv'
<1>1. \A t \in Thread : Writer(t)' <=> Writer(t)
  BY DEF Writer
<1> QED BY <1>1 DEF LineInv

\* So P and V of the semaphores of Read do.
LEMMA ReadFrame ==
    ASSUME LineInv, KernelInv, K!InCode \/ UNCHANGED at, UNCHANGED putBusy,
           NEW s \in {RLineBlock, synchReadAvail},
           Adds(s) \/ (K!InCode /\ (Blocks(s) \/ Takes(s))),
           UNCHANGED at \/ \E loc \in {"user", "get", "grab"} :
              at[currentThread] # "put" /\ at' = [at EXCEPT ![currentThread] = loc],
           CallTypes
    PROVE  LineInv'
<1>1. /\ \A x \in {WLineBlock, synchWriteAvail} : Value(x)' = Value(x)
      /\ \A t \in Thread, x \in {WLineBlock, synchWriteAvail} : Waits(t, x)' <=> Waits(t, x)
  BY FourSemaphores, NotInP, Zenon DEF Adds, Blocks, Takes
<1>2. \A t \in Thread : at'[t] = "put" <=> at[t] = "put"
  BY NotInP DEF CallTypes
<1> QED BY <1>1, <1>2, LineFrame

\* Console::WriteDone: the interrupt comes while the writer is inside P.
LEMMA WriteDoneLine ==
    ASSUME LineInv, KernelInv, WriteDone
    PROVE  LineInv'
<1>1. /\ putBusy /\ putBusy' = FALSE /\ UNCHANGED at
      /\ Adds(synchWriteAvail)
  BY FourSemaphores, VEffect DEF WriteDone, callVars, K!DeviceV, SemV
<1>2. /\ Value(synchWriteAvail)' = Value(synchWriteAvail) + 1
      /\ Value(WLineBlock)' = Value(WLineBlock)
      /\ \A t \in Thread, x \in {WLineBlock, synchWriteAvail} : Waits(t, x)' <=> Waits(t, x)
  BY <1>1, FourSemaphores DEF Adds
<1>3. \A t \in Thread : Writer(t)' <=> Writer(t)
  BY <1>1, <1>2 DEF Writer
<1> QED BY <1>1, <1>2, <1>3 DEF LineInv

\* The locked line: WLineBlock->P() of a program that calls Write.
LEMMA WriteCallLine ==
    ASSUME LineInv, KernelInv, CallTypes, NEW line \in Line, WriteCall(line)
    PROVE  LineInv'
<1>1. /\ currentThread \in Thread
      /\ at[currentThread] = "user"
      /\ at' = [at EXCEPT ![currentThread] = "put"]
      /\ UNCHANGED putBusy
      /\ \A x \in Semaphores : ~Waits(currentThread, x)
      /\ Blocks(WLineBlock) \/ Takes(WLineBlock)
  BY FourSemaphores, NotInP, PEffect DEF WriteCall, Call, At, Goto, deviceVars
<1>2. \A t \in Thread : at'[t] = IF t = currentThread THEN "put" ELSE at[t]
  BY <1>1 DEF CallTypes
<1>3. CASE Blocks(WLineBlock)
  <2>1. /\ Value(WLineBlock)' = Value(WLineBlock)
        /\ Value(synchWriteAvail)' = Value(synchWriteAvail)
        /\ \A t \in Thread : Waits(t, WLineBlock)' <=> t = currentThread \/ Waits(t, WLineBlock)
        /\ \A t \in Thread : Waits(t, synchWriteAvail)' <=> Waits(t, synchWriteAvail)
    BY <1>1, <1>3, FourSemaphores DEF Blocks
  <2>2. \A t \in Thread : Writer(t)' <=> Writer(t)
    BY <1>1, <1>2, <2>1 DEF Writer
  <2> QED BY <1>1, <1>2, <2>1, <2>2 DEF LineInv
<1>4. CASE Takes(WLineBlock)
  <2>1. /\ Value(WLineBlock) # 0
        /\ Value(WLineBlock)' = Value(WLineBlock) - 1
        /\ Value(synchWriteAvail)' = Value(synchWriteAvail)
        /\ \A t \in Thread, x \in Semaphores : Waits(t, x)' <=> Waits(t, x)
    BY <1>1, <1>4, FourSemaphores DEF Takes
  <2>2. \A t \in Thread : Writer(t)' <=> t = currentThread \/ Writer(t)
    BY <1>1, <1>2, <2>1, FourSemaphores DEF Writer
  <2> QED BY <1>1, <1>2, <2>1, <2>2, FourSemaphores DEF LineInv
<1> QED BY <1>1, <1>3, <1>4

\* Whoever is about to write a character has the line to itself, and the device is
\* ready: a busy device has another writer, inside P of synchWriteAvail.
LEMMA DeviceReady ==
    ASSUME LineInv, KernelInv, At("put")
    PROVE  /\ Writer(currentThread)
           /\ ~putBusy /\ Value(synchWriteAvail) = 0
           /\ Value(WLineBlock) = 0
<1>1. /\ currentThread \in Thread
      /\ \A x \in Semaphores : ~Waits(currentThread, x)
      /\ Writer(currentThread)
  BY FourSemaphores, NotInP DEF At, Writer
<1>2. ASSUME NEW t \in Thread PROVE ~Waits(t, synchWriteAvail)
  <2> SUFFICES ASSUME Waits(t, synchWriteAvail) PROVE FALSE
    OBVIOUS
  <2>1. ~Waits(t, WLineBlock)
    BY FourSemaphores DEF Waits
  <2>2. Writer(t)
    BY <2>1 DEF Writer, LineInv
  <2>3. t = currentThread
    BY <1>1, <2>2 DEF LineInv
  <2> QED BY <1>1, <2>3, FourSemaphores
<1> QED BY <1>1, <1>2 DEF LineInv

\* Console::PutChar, and the P that waits for its interrupt.
LEMMA PutLine ==
    ASSUME LineInv, KernelInv, CallTypes, Put
    PROVE  LineInv'
<1>1. /\ currentThread \in Thread
      /\ UNCHANGED at
      /\ \A x \in Semaphores : ~Waits(currentThread, x)
      /\ Writer(currentThread)
      /\ Value(synchWriteAvail) = 0
      /\ Blocks(synchWriteAvail) \/ Takes(synchWriteAvail)
  BY FourSemaphores, NotInP, PEffect, DeviceReady DEF Put, At
<1>2. /\ Value(WLineBlock)' = Value(WLineBlock)
      /\ Value(synchWriteAvail)' = 0
      /\ \A t \in Thread : Waits(t, WLineBlock)' <=> Waits(t, WLineBlock)
      /\ \A t \in Thread :
            Waits(t, synchWriteAvail)' <=> t = currentThread \/ Waits(t, synchWriteAvail)
  BY <1>1, FourSemaphores DEF Blocks, Takes
<1>3. \A t \in Thread : Writer(t)' <=> Writer(t)
  BY <1>1, <1>2 DEF Writer
<1> QED BY <1>1, <1>2, <1>3 DEF LineInv, Writer

\* WLineBlock->V(): the line is free.
LEMMA WriteReturnLine ==
    ASSUME LineInv, KernelInv, CallTypes, WriteReturn
    PROVE  LineInv'
<1>1. /\ currentThread \in Thread
      /\ at' = [at EXCEPT ![currentThread] = "user"]
      /\ UNCHANGED putBusy
      /\ Adds(WLineBlock)
      /\ \A x \in Semaphores : ~Waits(currentThread, x)
      /\ Writer(currentThread)
      /\ ~putBusy /\ Value(synchWriteAvail) = 0
      /\ Value(WLineBlock) = 0
  BY FourSemaphores, NotInP, VEffect, DeviceReady DEF WriteReturn, At, Goto, deviceVars
<1>2. \A t \in Thread : at'[t] = IF t = currentThread THEN "user" ELSE at[t]
  BY <1>1 DEF CallTypes
<1>3. /\ Value(WLineBlock)' = 1
      /\ Value(synchWriteAvail)' = 0
      /\ \A t \in Thread, x \in Semaphores : Waits(t, x)' <=> Waits(t, x)
  BY <1>1, FourSemaphores DEF Adds
<1>4. \A t \in Thread : ~Writer(t)'
  BY <1>1, <1>2, <1>3, FourSemaphores DEF Writer, LineInv
<1> QED BY <1>1, <1>2, <1>3, <1>4, FourSemaphores DEF LineInv

\* A writer is woken: it gets the line, or the device has finished its character;
\* or another thread was faster.
LEMMA ResumePLine ==
    ASSUME LineInv, KernelInv, K!ResumeP, UNCHANGED <<putBusy, at>>
    PROVE  LineInv'
<1>1. PICK s \in Semaphores : Waits(currentThread, s) /\ (Blocks(s) \/ Takes(s))
  BY ResumePEffect
<1>2. \A x \in Semaphores : Waits(currentThread, x) <=> x = s
  BY <1>1 DEF Waits
<1>3. currentThread \in Thread
  BY NotInP
<1>4. CASE Blocks(s)
  <2>1. /\ \A x \in {WLineBlock, synchWriteAvail} : Value(x)' = Value(x)
        /\ \A t \in Thread, x \in {WLineBlock, synchWriteAvail} : Waits(t, x)' <=> Waits(t, x)
    BY <1>2, <1>4, FourSemaphores DEF Blocks
  <2> QED BY <2>1, LineFrame
<1>5. CASE Takes(s) /\ s \in {RLineBlock, synchReadAvail}
  <2>1. /\ \A x \in {WLineBlock, synchWriteAvail} : Value(x)' = Value(x)
        /\ \A t \in Thread, x \in {WLineBlock, synchWriteAvail} : Waits(t, x)' <=> Waits(t, x)
    BY <1>2, <1>5, FourSemaphores, Zenon DEF Takes
  <2> QED BY <2>1, LineFrame
<1>6. CASE Takes(s) /\ s = WLineBlock
  <2>1. /\ Value(WLineBlock) # 0
        /\ Value(WLineBlock)' = Value(WLineBlock) - 1
        /\ Value(synchWriteAvail)' = Value(synchWriteAvail)
        /\ \A t \in Thread :
              Waits(t, WLineBlock)' <=> t # currentThread /\ Waits(t, WLineBlock)
        /\ \A t \in Thread : Waits(t, synchWriteAvail)' <=> Waits(t, synchWriteAvail)
    BY <1>2, <1>6, FourSemaphores DEF Takes
  <2>2. at[currentThread] = "put"
    BY <1>1, <1>3, <1>6 DEF LineInv
  <2>3. \A t \in Thread : Writer(t)' <=> t = currentThread \/ Writer(t)
    BY <2>1, <2>2 DEF Writer
  <2> QED BY <1>3, <2>1, <2>3 DEF LineInv
<1>7. CASE Takes(s) /\ s = synchWriteAvail
  <2>1. /\ Value(synchWriteAvail) # 0
        /\ Value(synchWriteAvail)' = Value(synchWriteAvail) - 1
        /\ Value(WLineBlock)' = Value(WLineBlock)
        /\ \A t \in Thread : Waits(t, WLineBlock)' <=> Waits(t, WLineBlock)
        /\ \A t \in Thread : Waits(t, synchWriteAvail)' => Waits(t, synchWriteAvail)
    BY <1>2, <1>7, FourSemaphores DEF Takes
  <2>2. \A t \in Thread : Writer(t)' <=> Writer(t)
    BY <2>1 DEF Writer
  <2> QED BY <2>1, <2>2 DEF LineInv
<1> QED BY <1>1, <1>4, <1>5, <1>6, <1>7, FourSemaphores

-----------------------------------------------------------------------------
(* The steps.                                                              *)

\* The device's empty place counts as a character.
LEMMA EOFIsChar == EOF \in Char
<1> DEFINE Typed == UNION {Range(s) : s \in Line \cup Keyboard}
<1>1. Char = {EOF, EOLN, CtrlA} \cup Typed
  BY DEF Char
<1> HIDE DEF Typed
<1> QED BY <1>1

\* Where a thread goes on, and what it has read or has left to write.
LEMMA CallKeeps ==
    ASSUME CallTypes, currentThread \in Thread, NEW loc \in {"user", "put", "get", "grab"},
           NEW b \in Seq(Char), NEW n \in Nat,
           at' = [at EXCEPT ![currentThread] = loc],
           buffer' = [buffer EXCEPT ![currentThread] = b],
           numBytes' = [numBytes EXCEPT ![currentThread] = n],
           loc \in {"get", "grab"} => n <= MaxBytes /\ Len(b) <= n
    PROVE  /\ at' \in [Thread -> {"user", "put", "get", "grab"}]
           /\ buffer' \in [Thread -> Seq(Char)]
           /\ numBytes' \in [Thread -> Nat]
           /\ \A t \in Thread : at'[t] \in {"get", "grab"} =>
                 numBytes'[t] <= MaxBytes /\ Len(buffer'[t]) <= numBytes'[t]
BY Zenon DEF CallTypes

\* Write, and the device.
LEMMA WriteTypes ==
    ASSUME CallTypes, currentThread \in Thread,
           \/ WriteDone \/ CheckCharAvail
           \/ \E line \in Line : WriteCall(line)
           \/ Put \/ WriteReturn
    PROVE  CallTypes'
<1> DEFINE me == currentThread
<1>1. ASSUME WriteDone PROVE CallTypes'
  BY <1>1, Zenon DEF WriteDone, callVars, CallTypes
<1>2. ASSUME CheckCharAvail PROVE CallTypes'
  <2>1. incoming' \in Char /\ keyboard' \in Seq(Char)
    BY <1>2, HeadTailProperties DEF CheckCharAvail, CallTypes
  <2> QED BY <1>2, <2>1 DEF CheckCharAvail, callVars, CallTypes
<1>3. ASSUME NEW line \in Line, WriteCall(line) PROVE CallTypes'
  <2>1. line \in Seq(Char) /\ Len(line) \in Nat /\ calls' \in 0 .. MaxCalls
    BY <1>3, ConsoleAssumption, LenProperties DEF WriteCall, Call, CallTypes
  <2>2. /\ at' = [at EXCEPT ![me] = "put"]
        /\ buffer' = [buffer EXCEPT ![me] = line]
        /\ numBytes' = [numBytes EXCEPT ![me] = Len(line)]
        /\ UNCHANGED <<putBusy, incoming, keyboard, display, result>>
    BY <1>3 DEF WriteCall, Call, Goto, SetMine, deviceVars
  <2> QED BY <2>1, <2>2, CallKeeps, Zenon DEF CallTypes
<1>4. ASSUME Put PROVE CallTypes'
  <2>1. /\ Mine \in Seq(Char) /\ Mine # <<>> /\ at[me] = "put"
        /\ putBusy' = TRUE
        /\ display' = Append(display, Head(Mine))
        /\ buffer' = [buffer EXCEPT ![me] = Tail(Mine)]
        /\ UNCHANGED <<incoming, keyboard, at, numBytes, result, calls>>
    BY <1>4 DEF Put, At, Mine, SetMine, CallTypes
  <2>2. Head(Mine) \in Char /\ Tail(Mine) \in Seq(Char)
    BY <2>1, HeadTailProperties
  <2>3. display' \in Seq(Char)
    BY <2>1, <2>2, AppendProperties DEF CallTypes
  <2>4. /\ buffer' \in [Thread -> Seq(Char)]
        /\ \A t \in Thread : at'[t] \in {"get", "grab"} =>
              numBytes'[t] <= MaxBytes /\ Len(buffer'[t]) <= numBytes'[t]
    BY <2>1, <2>2, Zenon DEF CallTypes
  <2> QED BY <2>1, <2>3, <2>4, ZenonT(30) DEF CallTypes
<1>5. ASSUME WriteReturn PROVE CallTypes'
  <2>1. /\ at' = [at EXCEPT ![me] = "user"]
        /\ numBytes' = [numBytes EXCEPT ![me] = 0]
        /\ UNCHANGED <<putBusy, incoming, keyboard, display, buffer, result, calls>>
    BY <1>5 DEF WriteReturn, Goto, deviceVars
  <2> QED BY <2>1 DEF CallTypes
<1> QED BY <1>1, <1>2, <1>3, <1>4, <1>5

\* A Read that returns has stored characters and returns a count or -1.
LEMMA ReadReturnTypes ==
    ASSUME CallTypes, currentThread \in Thread, NEW ret \in -1 .. MaxBytes,
           NEW line \in Seq(Char), ReadReturn(ret, line),
           incoming' \in Char, UNCHANGED <<putBusy, keyboard, display>>
    PROVE  CallTypes'
<1>1. /\ at' = [at EXCEPT ![currentThread] = "user"]
      /\ buffer' = [buffer EXCEPT ![currentThread] = <<>>]
      /\ numBytes' = [numBytes EXCEPT ![currentThread] = 0]
      /\ result' = [result EXCEPT ![currentThread] = <<ret, line>>]
      /\ UNCHANGED calls
  BY DEF ReadReturn, Goto, SetMine
<1>2. <<>> \in Seq(Char) /\ 0 \in Nat
  OBVIOUS
<1>3. result' \in [Thread -> (-1 .. MaxBytes) \X Seq(Char)]
  BY <1>1 DEF CallTypes
<1>4. /\ at' \in [Thread -> {"user", "put", "get", "grab"}]
      /\ buffer' \in [Thread -> Seq(Char)]
      /\ numBytes' \in [Thread -> Nat]
      /\ \A t \in Thread : at'[t] \in {"get", "grab"} =>
            numBytes'[t] <= MaxBytes /\ Len(buffer'[t]) <= numBytes'[t]
  BY <1>1, <1>2, CallKeeps, Zenon
<1> QED BY <1>1, <1>3, <1>4, Zenon DEF CallTypes

\* Read.
LEMMA ReadTypes ==
    ASSUME CallTypes, currentThread \in Thread,
           \/ \E n \in 0 .. MaxBytes : ReadCall(n)
           \/ ReadNothing \/ Get \/ Grab
    PROVE  CallTypes'
<1> DEFINE me == currentThread
<1>0. EOF \in Char /\ <<>> \in Seq(Char) /\ Len(<<>>) = 0 /\ MaxBytes \in Nat
  BY ConsoleAssumption, EOFIsChar
<1>1. ASSUME NEW n \in 0 .. MaxBytes, ReadCall(n) PROVE CallTypes'
  <2>1. calls' \in 0 .. MaxCalls /\ n \in Nat /\ n <= MaxBytes
    BY <1>0, <1>1, ConsoleAssumption DEF ReadCall, Call, CallTypes
  <2>2. /\ at' = [at EXCEPT ![me] = "get"]
        /\ buffer' = [buffer EXCEPT ![me] = <<>>]
        /\ numBytes' = [numBytes EXCEPT ![me] = n]
        /\ UNCHANGED <<putBusy, incoming, keyboard, display, result>>
    BY <1>1 DEF ReadCall, Call, Goto, SetMine, deviceVars
  <2> QED BY <1>0, <2>1, <2>2, CallKeeps, SMTT(30) DEF CallTypes
<1>2. ASSUME ReadNothing PROVE CallTypes'
  <2>1. PICK ret \in {0, -1} : ReadReturn(ret, <<>>)
    BY <1>2 DEF ReadNothing
  <2>2. ret \in -1 .. MaxBytes
    BY <1>0
  <2>3. incoming' \in Char /\ UNCHANGED <<putBusy, keyboard, display>>
    BY <1>2 DEF ReadNothing, deviceVars, CallTypes
  <2> QED BY <1>0, <2>1, <2>2, <2>3, ReadReturnTypes, Zenon
<1>3. ASSUME Get PROVE CallTypes'
  <2>1. /\ at[me] = "get"
        /\ at' = [at EXCEPT ![me] = "grab"]
        /\ UNCHANGED <<putBusy, incoming, keyboard, display, buffer, numBytes, result, calls>>
    BY <1>3, Zenon DEF Get, At, Goto, deviceVars
  <2> QED BY <2>1, Zenon DEF CallTypes
<1>4. ASSUME Grab PROVE CallTypes'
  <2>1. /\ at[me] = "grab" /\ incoming \in Char /\ incoming' \in Char
        /\ Mine \in Seq(Char) /\ Len(Mine) \in Nat
        /\ numBytes[me] \in Nat /\ numBytes[me] <= MaxBytes /\ Len(Mine) <= numBytes[me]
        /\ Append(Mine, incoming) \in Seq(Char) /\ Len(Append(Mine, incoming)) = Len(Mine) + 1
        /\ UNCHANGED <<putBusy, keyboard, display>>
    BY <1>0, <1>4, LenProperties, AppendProperties, SMTT(30) DEF Grab, At, Mine, CallTypes
  <2>2. ASSUME ReadReturn(IF incoming = CtrlA THEN -1 ELSE Len(Mine), Mine)
        PROVE  CallTypes'
    <3>1. (IF incoming = CtrlA THEN -1 ELSE Len(Mine)) \in -1 .. MaxBytes
      BY <1>0, <2>1, SMTT(30)
    <3> QED BY <2>1, <2>2, <3>1, ReadReturnTypes, ZenonT(30)
  <2>3. ASSUME Len(Mine) + 1 = numBytes[me], ReadReturn(Len(Mine) + 1, Append(Mine, incoming))
        PROVE  CallTypes'
    <3>1. Len(Mine) + 1 \in -1 .. MaxBytes
      BY <1>0, <2>1, <2>3
    <3> QED BY <2>1, <2>3, <3>1, ReadReturnTypes, Zenon
  <2>4. ASSUME incoming # EOF => Len(Mine) + 1 < numBytes[me],
               SetMine(IF incoming = EOF THEN Mine ELSE Append(Mine, incoming)),
               UNCHANGED <<at, numBytes, result, calls>>
        PROVE  CallTypes'
    <3> DEFINE b == IF incoming = EOF THEN Mine ELSE Append(Mine, incoming)
    <3>1. b \in Seq(Char) /\ Len(b) <= numBytes[me] /\ buffer' = [buffer EXCEPT ![me] = b]
      BY <2>1, <2>4 DEF SetMine
    <3> HIDE DEF b
    <3> QED BY <2>1, <2>4, <3>1, Zenon DEF CallTypes
  <2> QED BY <1>4, <2>2, <2>3, <2>4, Zenon DEF Grab
<1> QED BY <1>1, <1>2, <1>3, <1>4

\* Every step keeps the types of the calls.
LEMMA StepTypes ==
    ASSUME CallTypes, currentThread \in Thread, [Next]_vars
    PROVE  CallTypes'
<1>1. CASE UNCHANGED <<deviceVars, callVars>>
  BY <1>1 DEF deviceVars, callVars, CallTypes
<1>2. CASE Program \/ TimeSlice \/ Dispatch \/ UNCHANGED vars
  BY <1>1, <1>2 DEF Program, TimeSlice, Dispatch, vars
<1> QED BY <1>2, WriteTypes, ReadTypes, Zenon DEF Next, Kernel

\* Every step keeps the line locked by one writer.
LEMMA StepLine ==
    ASSUME LineInv, KernelInv, CallTypes, [Next]_vars
    PROVE  LineInv'
<1>1. ASSUME CheckCharAvail PROVE LineInv'
  <2>1. SemV(synchReadAvail) /\ UNCHANGED <<putBusy, at>>
    BY <1>1 DEF CheckCharAvail, K!DeviceV, SemV, callVars
  <2>2. Adds(synchReadAvail)
    BY <2>1, VEffect, FourSemaphores
  <2> QED BY <2>1, <2>2, ReadFrame, ZenonT(30)
<1>2. ASSUME NEW n \in 0 .. MaxBytes, ReadCall(n) PROVE LineInv'
  <2>1. /\ K!InCode /\ SemP(RLineBlock) /\ UNCHANGED putBusy
        /\ at[currentThread] = "user" /\ at' = [at EXCEPT ![currentThread] = "get"]
    BY <1>2 DEF ReadCall, Call, At, Goto, deviceVars
  <2>2. Blocks(RLineBlock) \/ Takes(RLineBlock)
    BY <2>1, PEffect, FourSemaphores
  <2> QED BY <2>1, <2>2, ReadFrame
<1>3. ASSUME Get PROVE LineInv'
  <2>1. /\ K!InCode /\ SemP(synchReadAvail) /\ UNCHANGED putBusy
        /\ at[currentThread] = "get" /\ at' = [at EXCEPT ![currentThread] = "grab"]
    BY <1>3 DEF Get, At, Goto, deviceVars
  <2>2. Blocks(synchReadAvail) \/ Takes(synchReadAvail)
    BY <2>1, PEffect, FourSemaphores
  <2> QED BY <2>1, <2>2, ReadFrame
<1>4. ASSUME ReadNothing \/ Grab, NEW ret, NEW line, ReadReturn(ret, line)
      PROVE  LineInv'
  <2>1. /\ K!InCode /\ SemV(RLineBlock) /\ UNCHANGED putBusy
        /\ at[currentThread] \in {"get", "grab"}
        /\ at' = [at EXCEPT ![currentThread] = "user"]
    BY <1>4 DEF ReadNothing, Grab, ReadReturn, At, Goto, deviceVars
  <2>2. Adds(RLineBlock)
    BY <2>1, VEffect, FourSemaphores
  <2> QED BY <2>1, <2>2, ReadFrame, ZenonT(30)
<1>5. ASSUME Grab, SemP(synchReadAvail), UNCHANGED at PROVE LineInv'
  <2>1. K!InCode /\ UNCHANGED putBusy
    BY <1>5 DEF Grab, At
  <2>2. Blocks(synchReadAvail) \/ Takes(synchReadAvail)
    BY <1>5, PEffect, FourSemaphores, ZenonT(30)
  <2> QED BY <1>5, <2>1, <2>2, ReadFrame, ZenonT(30)
<1>6. ASSUME ReadNothing \/ Grab PROVE LineInv'
  BY <1>4, <1>5, <1>6 DEF ReadNothing, Grab
<1>7. ASSUME Program \/ TimeSlice \/ Dispatch \/ UNCHANGED vars PROVE LineInv'
  <2>1. UNCHANGED <<putBusy, at>>
    BY <1>7 DEF Program, TimeSlice, Dispatch, vars, deviceVars, callVars
  <2>2. CASE K!ResumeP
    BY <2>1, <2>2, ResumePLine
  <2>3. CASE ~K!ResumeP
    <3>1. Quiet
      BY <1>7, <2>3, QuietEffect DEF Program, TimeSlice, Dispatch, K!Resume, At, vars
    <3> QED BY <2>1, <3>1, LineFrame, FourSemaphores DEF Quiet
  <2> QED BY <2>2, <2>3
<1> QED BY <1>1, <1>2, <1>3, <1>6, <1>7, WriteDoneLine, WriteCallLine, PutLine, WriteReturnLine, Zenon
        DEF Next, Kernel

\* The machine starts with the line free and the device ready.
LEMMA InitConsole == Init => KernelInv /\ CallTypes /\ LineInv
<1> SUFFICES ASSUME Init PROVE KernelInv /\ CallTypes /\ LineInv
  OBVIOUS
<1>1. <<>> \in Seq(Thread) /\ <<>> \in Seq(Char) /\ Len(<<>>) = 0
  OBVIOUS
<1>2. sem \in [Semaphores -> K!SemState]
  BY <1>1, SMTT(30) DEF Init, K!Init, K!NewSemaphore, K!SemState
<1>3. KernelInv
  BY <1>1, <1>2, ConsoleAssumption
     DEF KernelInv, K!TypeOK, K!InCode, Init, K!Init, K!ThreadStatus, K!ResumePoint
<1>4. CallTypes
  <2>1. keyboard \in Seq(Char)
    BY ConsoleAssumption DEF Init
  <2>2. 0 \in -1 .. MaxBytes
    BY ConsoleAssumption
  <2>3. result \in [Thread -> (-1 .. MaxBytes) \X Seq(Char)]
    BY <1>1, <2>2, Zenon DEF Init
  <2>4. /\ at \in [Thread -> {"user", "put", "get", "grab"}]
        /\ \A t \in Thread : at[t] \notin {"get", "grab"}
    BY DEF Init
  <2>5. /\ display \in Seq(Char)
        /\ buffer \in [Thread -> Seq(Char)]
        /\ numBytes \in [Thread -> Nat]
    BY <1>1 DEF Init
  <2>6. calls \in 0 .. MaxCalls
    BY ConsoleAssumption DEF Init
  <2>7. putBusy \in BOOLEAN /\ incoming \in Char
    BY EOFIsChar, Zenon DEF Init
  <2> QED BY <2>1, <2>3, <2>4, <2>5, <2>6, <2>7, ZenonT(30) DEF CallTypes
<1>5. /\ Value(WLineBlock) = 1 /\ Value(synchWriteAvail) = 0
      /\ \A t \in Thread, x \in Semaphores : ~Waits(t, x)
      /\ \A t \in Thread : ~Writer(t)
      /\ ~putBusy
  BY FourSemaphores, ZenonT(30) DEF Init, K!Init, K!NewSemaphore, Value, Waits, Writer
<1> QED BY <1>3, <1>4, <1>5, FourSemaphores DEF LineInv

(***************************************************************************)
(* PutChar's ASSERT(putBusy == FALSE) never fails, and every Read returns  *)
(* a count or -1 with that many characters, for any number of threads      *)
(* that write and read, any lines, and interrupts wherever they come:      *)
(* WLineBlock lets one writer in at a time, and a writer goes on to its    *)
(* next character only when WriteDone has been called for the last one.    *)
(***************************************************************************)
THEOREM DeviceReadyForPutChar == Spec => []PutCharReady
<1> DEFINE Inv == KernelInv /\ CallTypes /\ LineInv
<1>1. Inv /\ [Next]_vars => Inv'
  <2>1. KernelInv => currentThread \in Thread
    BY DEF KernelInv, K!TypeOK
  <2> QED BY <2>1, NextIsKernel, KernelKeeps, StepTypes, StepLine
<1>2. Inv => PutCharReady
  BY DeviceReady DEF KernelInv, CallTypes, PutCharReady, TypeOK
<1> QED BY <1>1, <1>2, InitConsole, PTL DEF Spec
=============================================================================
