------------------------------- MODULE Threads -------------------------------
(***************************************************************************)
(* The kernel core of Nachos: threads (threads/thread.cc), the FIFO        *)
(* scheduler (threads/scheduler.cc) and counting semaphores                *)
(* (threads/synch.cc) on the one simulated CPU.                            *)
(*                                                                         *)
(* Kernel code is preempted only where interrupts are turned on again:     *)
(* Interrupt::SetLevel(IntOn) calls OneTick, which runs the interrupt      *)
(* handlers that are due and then, if the timer asked for it, Yield.       *)
(* Everything between two such points is atomic.  So an action of this     *)
(* module is what currentThread does from one point with interrupts on to  *)
(* the next, or from a context switch to there (the Resume actions, which  *)
(* run with interrupts off).                                               *)
(***************************************************************************)
EXTENDS Integers, Sequences, FiniteSets, Functions

CONSTANTS
    Thread,     \* thread control blocks that can be allocated
    Main,       \* the thread Nachos starts with, system.cc:Initialize
    Sem,        \* semaphores
    InitVal,    \* InitVal[s]: the initialValue s is constructed with
    DeviceSem,  \* semaphores that interrupt handlers V (console, disk, network)
    MaxValue,   \* bound: no V of a semaphore whose value is MaxValue
    NoThread,   \* NULL, for threadToBeDestroyed
    NoSem       \* a thread that is not inside Semaphore::P

ASSUME ThreadAssumption ==
    /\ Main \in Thread
    /\ NoThread \notin Thread
    /\ IsFiniteSet(Thread)

ASSUME SemAssumption ==
    /\ NoSem \notin Sem
    /\ InitVal \in [Sem -> Int]
    /\ DeviceSem \subseteq Sem
    /\ MaxValue \in Nat

VARIABLES
    currentThread,        \* the thread on the CPU
    level,                \* Interrupt::level
    machine,              \* "running", "idle" (inside Interrupt::Idle) or "halted"
    readyList,            \* Scheduler::readyList
    status,               \* Thread::status; "DELETED" once ~Thread has run
    resume,               \* what a thread does when it is next switched to
    waitSem,              \* the semaphore of the P a thread is inside
    sem,                  \* the value and the queue of every semaphore
    threadToBeDestroyed

vars == <<currentThread, level, machine, readyList, status, resume, waitSem,
          sem, threadToBeDestroyed>>

ThreadStatus == {"JUST_CREATED", "RUNNING", "READY", "BLOCKED", "DELETED"}
SemState == [value : Int, queue : Seq(Thread)]

\* Where a thread continues: "root" at the start of ThreadRoot, "yield" after
\* SWITCH in Yield, "P" after SWITCH in Semaphore::P, "code" in its own code
\* with interrupts on, "done" never (it has called Finish).
ResumePoint == {"root", "yield", "P", "code", "done"}

NewSemaphore(initialValue) == [value |-> initialValue, queue |-> <<>>]

Init ==
    /\ currentThread = Main
    /\ level = "IntOn"
    /\ machine = "running"
    /\ readyList = <<>>
    /\ status = [t \in Thread |-> IF t = Main THEN "RUNNING" ELSE "JUST_CREATED"]
    /\ resume = [t \in Thread |-> IF t = Main THEN "code" ELSE "root"]
    /\ waitSem = [t \in Thread |-> NoSem]
    /\ sem = [s \in Sem |-> NewSemaphore(InitVal[s])]
    /\ threadToBeDestroyed = NoThread

-----------------------------------------------------------------------------
(* The scheduler.                                                          *)

\* currentThread executes its own code with interrupts on.
InCode == machine = "running" /\ level = "IntOn"

\* currentThread has just been switched to, and interrupts are still off.
Switched == machine = "running" /\ level = "IntOff"

\* FindNextToRun and Run(nextThread).  rl is what is left on the ready list, st
\* the status of the threads after what the old thread did to it.
Run(nextThread, rl, st) ==
    /\ currentThread' = nextThread
    /\ readyList' = rl
    /\ status' = [st EXCEPT ![nextThread] = "RUNNING"]
    /\ machine' = "running"
    /\ level' = "IntOff"

\* Thread::Sleep of currentThread: run the next ready thread, or idle.
Sleep(st) ==
    LET blocked == [st EXCEPT ![currentThread] = "BLOCKED"]
    IN  \/ /\ readyList # <<>>
           /\ Run(Head(readyList), Tail(readyList), blocked)
        \/ /\ readyList = <<>>
           /\ machine' = "idle"
           /\ level' = "IntOff"
           /\ status' = blocked
           /\ UNCHANGED <<currentThread, readyList>>

\* The status once the carcass of a finished thread is deleted: the code of
\* Run after SWITCH, so on the stack of the thread that was switched to.
Reaped ==
    IF threadToBeDestroyed = NoThread THEN status
    ELSE [status EXCEPT ![threadToBeDestroyed] = "DELETED"]

\* Thread::Fork of a new thread t: ReadyToRun(t).
Fork(t) ==
    /\ InCode
    /\ status[t] = "JUST_CREATED"
    /\ readyList' = Append(readyList, t)
    /\ status' = [status EXCEPT ![t] = "READY"]
    /\ UNCHANGED <<currentThread, level, machine, resume, waitSem, sem,
                   threadToBeDestroyed>>

\* Mutant of Yield: the yielding thread goes to the front of the ready list.
YieldPrepends ==
    /\ InCode
    /\ readyList # <<>>
    /\ Run(Head(readyList), <<currentThread>> \o Tail(readyList),
           [status EXCEPT ![currentThread] = "READY"])
    /\ resume' = [resume EXCEPT ![currentThread] = "yield"]
    /\ UNCHANGED <<waitSem, sem, threadToBeDestroyed>>

\* Thread::Yield, called by the thread itself or, for a time slice, by OneTick.
\* With an empty ready list it changes nothing.
Yield ==
    /\ InCode
    /\ readyList # <<>>
    /\ Run(Head(readyList), Append(Tail(readyList), currentThread),
           [status EXCEPT ![currentThread] = "READY"])
    /\ resume' = [resume EXCEPT ![currentThread] = "yield"]
    /\ UNCHANGED <<waitSem, sem, threadToBeDestroyed>>

\* Mutant of Finish: it yields where it should sleep.
FinishYields ==
    /\ InCode
    /\ readyList # <<>>
    /\ threadToBeDestroyed' = currentThread
    /\ resume' = [resume EXCEPT ![currentThread] = "done"]
    /\ Run(Head(readyList), Append(Tail(readyList), currentThread),
           [status EXCEPT ![currentThread] = "READY"])
    /\ UNCHANGED <<waitSem, sem>>

\* Thread::Finish.
Finish ==
    /\ InCode
    /\ threadToBeDestroyed' = currentThread
    /\ resume' = [resume EXCEPT ![currentThread] = "done"]
    /\ Sleep(status)
    /\ UNCHANGED <<waitSem, sem>>

\* A thread that runs for the first time starts in ThreadRoot, which turns
\* interrupts on (InterruptEnable).  It never returns from SWITCH in Run, so it
\* deletes no carcass.
ResumeRoot ==
    /\ Switched
    /\ resume[currentThread] = "root"
    /\ resume' = [resume EXCEPT ![currentThread] = "code"]
    /\ level' = "IntOn"
    /\ UNCHANGED <<currentThread, machine, readyList, status, waitSem, sem,
                   threadToBeDestroyed>>

\* SWITCH returns in Run, which Yield called.
ResumeYield ==
    /\ Switched
    /\ resume[currentThread] = "yield"
    /\ resume' = [resume EXCEPT ![currentThread] = "code"]
    /\ level' = "IntOn"
    /\ status' = Reaped
    /\ threadToBeDestroyed' = NoThread
    /\ UNCHANGED <<currentThread, machine, readyList, waitSem, sem>>

-----------------------------------------------------------------------------
(* Semaphores.                                                             *)

\* currentThread finds the value zero: it queues and sleeps.
BlockOn(sm, s, st) ==
    /\ sem' = [sm EXCEPT ![s].queue = Append(@, currentThread)]
    /\ resume' = [resume EXCEPT ![currentThread] = "P"]
    /\ waitSem' = [waitSem EXCEPT ![currentThread] = s]
    /\ Sleep(st)

\* The value is not zero: currentThread takes one unit and turns interrupts on.
Take(sm, s) ==
    /\ sem' = [sm EXCEPT ![s].value = @ - 1]
    /\ resume' = [resume EXCEPT ![currentThread] = "code"]
    /\ waitSem' = [waitSem EXCEPT ![currentThread] = NoSem]
    /\ level' = "IntOn"
    /\ UNCHANGED <<currentThread, machine, readyList>>

\* Semaphore::P of s when the semaphores are sm: the first test of the loop.
DoP(sm, s) ==
    /\ \/ sm[s].value = 0 /\ BlockOn(sm, s, status)
       \/ sm[s].value # 0 /\ Take(sm, s) /\ UNCHANGED status
    /\ UNCHANGED threadToBeDestroyed

\* Mutants of V: the woken thread stays in the queue, ...
DoVPeeks(sm, s) ==
    LET q == sm[s].queue
    IN  /\ sem' = [sm EXCEPT ![s].value = @ + 1]
        /\ \/ q = <<>> /\ UNCHANGED <<readyList, status>>
           \/ /\ q # <<>>
              /\ readyList' = Append(readyList, Head(q))
              /\ status' = [status EXCEPT ![Head(q)] = "READY"]

\* ... a waiter is woken only when the value was zero.
DoVWakesFromZero(sm, s) ==
    LET q == sm[s].queue
    IN  \/ /\ q = <<>> \/ sm[s].value # 0
           /\ sem' = [sm EXCEPT ![s].value = @ + 1]
           /\ UNCHANGED <<readyList, status>>
        \/ /\ q # <<>>
           /\ sm[s].value = 0
           /\ sem' = [sm EXCEPT ![s] = [value |-> 1, queue |-> Tail(q)]]
           /\ readyList' = Append(readyList, Head(q))
           /\ status' = [status EXCEPT ![Head(q)] = "READY"]

\* Semaphore::V of s when the semaphores are sm.
DoV(sm, s) ==
    LET q == sm[s].queue
    IN  \/ /\ q = <<>>
           /\ sem' = [sm EXCEPT ![s].value = @ + 1]
           /\ UNCHANGED <<readyList, status>>
        \/ /\ q # <<>>
           /\ sem' = [sm EXCEPT ![s] = [value |-> @.value + 1, queue |-> Tail(q)]]
           /\ readyList' = Append(readyList, Head(q))
           /\ status' = [status EXCEPT ![Head(q)] = "READY"]

P(s) ==
    /\ InCode
    /\ DoP(sem, s)

V(s) ==
    /\ InCode
    /\ sem[s].value < MaxValue
    /\ DoV(sem, s)
    /\ UNCHANGED <<currentThread, level, machine, resume, waitSem,
                   threadToBeDestroyed>>

\* Mutant of ResumeP: the value is not tested again after a wake-up.
ResumePUntested ==
    /\ Switched
    /\ resume[currentThread] = "P"
    /\ Take(sem, waitSem[currentThread])
    /\ status' = Reaped
    /\ threadToBeDestroyed' = NoThread

\* A woken thread deletes the carcass, if any, and tests the value again.
ResumeP ==
    /\ Switched
    /\ resume[currentThread] = "P"
    /\ LET s == waitSem[currentThread]
       IN  \/ sem[s].value = 0 /\ BlockOn(sem, s, Reaped)
           \/ sem[s].value # 0 /\ Take(sem, s) /\ status' = Reaped
    /\ threadToBeDestroyed' = NoThread

-----------------------------------------------------------------------------
(* Interrupts and idling.                                                  *)

\* A handler that is due calls V: from OneTick while a thread runs with
\* interrupts on, or from Idle while none is ready.
DeviceV(s) ==
    /\ InCode \/ machine = "idle"
    /\ sem[s].value < MaxValue
    /\ DoV(sem, s)
    /\ UNCHANGED <<currentThread, level, machine, resume, waitSem,
                   threadToBeDestroyed>>

\* Idle returned to the loop in Sleep and there is a ready thread.
IdleDispatch ==
    /\ machine = "idle"
    /\ readyList # <<>>
    /\ Run(Head(readyList), Tail(readyList), status)
    /\ UNCHANGED <<resume, waitSem, sem, threadToBeDestroyed>>

\* Interrupt::Halt: called by Idle when no interrupt is pending, or by a thread.
Halt ==
    /\ InCode \/ (machine = "idle" /\ readyList = <<>>)
    /\ machine' = "halted"
    /\ UNCHANGED <<currentThread, level, readyList, status, resume, waitSem, sem,
                   threadToBeDestroyed>>

Resume == ResumeRoot \/ ResumeYield \/ ResumeP

Next ==
    \/ \E t \in Thread : Fork(t)
    \/ Yield
    \/ Finish
    \/ \E s \in Sem : P(s) \/ V(s)
    \/ \E s \in DeviceSem : DeviceV(s)
    \/ Resume
    \/ IdleDispatch
    \/ Halt

Spec == Init /\ [][Next]_vars

\* The CPU executes on: a thread that was switched to goes on, and Sleep leaves
\* its loop when a thread is ready.  SF(Yield) is time slicing (nachos -rs): the
\* Timer re-arms itself in every TimerExpired, so a time slice always comes
\* again, whatever the threads do in between.
FairSpec ==
    /\ Spec
    /\ WF_vars(Resume)
    /\ WF_vars(IdleDispatch)
    /\ SF_vars(Yield)

-----------------------------------------------------------------------------
(* Properties.                                                             *)

TypeOK ==
    /\ currentThread \in Thread
    /\ level \in {"IntOn", "IntOff"}
    /\ machine \in {"running", "idle", "halted"}
    /\ readyList \in Seq(Thread)
    /\ status \in [Thread -> ThreadStatus]
    /\ resume \in [Thread -> ResumePoint]
    /\ waitSem \in [Thread -> Sem \cup {NoSem}]
    /\ sem \in [Sem -> SemState]
    /\ threadToBeDestroyed \in Thread \cup {NoThread}

\* A thread is in one place only, and its status says which: on the ready list
\* once exactly when it is READY; in the queue of the semaphore whose P it is
\* inside, once, exactly when it is BLOCKED there, and in no other queue; on the
\* CPU exactly when it is RUNNING (Scheduler::ReadyToRun, Run, Semaphore::P, V).
OnePlace ==
    /\ IsInjective(readyList)
    /\ \A t \in Thread : status[t] = "READY" <=> t \in Range(readyList)
    /\ \A s \in Sem : IsInjective(sem[s].queue)
    /\ \A s \in Sem, t \in Thread :
          t \in Range(sem[s].queue)
            <=> status[t] = "BLOCKED" /\ resume[t] = "P" /\ waitSem[t] = s
    /\ \A t \in Thread : status[t] = "RUNNING" => t = currentThread
    /\ machine = "running" => status[currentThread] = "RUNNING"

\* The strengthening of OnePlace that every step preserves: where a thread will
\* resume agrees with its status, the thread that waits to be destroyed is
\* BLOCKED for good, and a thread that executes with interrupts on is not in the
\* middle of P or Yield (thread.cc, scheduler.cc, synch.cc).
SchedInv ==
    /\ OnePlace
    /\ \A t \in Thread : resume[t] = "P" => waitSem[t] \in Sem
    /\ \A t \in Thread : status[t] = "JUST_CREATED" => resume[t] = "root"
    /\ \A t \in Thread : status[t] = "DELETED" => resume[t] = "done"
    /\ \A t \in Thread : t = threadToBeDestroyed =>
          status[t] = "BLOCKED" /\ resume[t] = "done"
    /\ InCode => resume[currentThread] = "code"
    /\ machine = "idle" => \A t \in Thread : status[t] # "RUNNING"

\* The threads a V of s has woken and that have not tested the value again.
Woken(s) ==
    {t \in Thread : /\ resume[t] = "P"
                    /\ waitSem[t] = s
                    /\ status[t] \in {"READY", "RUNNING"}}

\* No wake-up is lost: while a thread waits in the queue of s, every unit of the
\* value has a thread already woken to take it, although woken threads and
\* threads that just arrive compete for the units (Semaphore::P's loop,
\* Semaphore::V).
NoLostWakeup ==
    \A s \in Sem : InitVal[s] >= 0 =>
        /\ sem[s].value >= 0
        /\ sem[s].queue # <<>> => sem[s].value <= Cardinality(Woken(s))

\* A thread that has called Finish is never scheduled again, and its control
\* block is never deleted while a list still holds it or while it is still on
\* the CPU: ASSERT(this != currentThread) in ~Thread holds (Thread::Finish,
\* Scheduler::Run).
FinishedUnreachable ==
    \A t \in Thread :
        t = threadToBeDestroyed \/ status[t] = "DELETED" =>
            /\ t \notin Range(readyList)
            /\ \A s \in Sem : t \notin Range(sem[s].queue)
            /\ machine = "running" => t # currentThread

\* A ready thread gets the CPU, unless the machine halts: the FIFO ready list
\* with time slicing starves nobody (Thread::Yield, Scheduler::ReadyToRun).
ReadyRuns ==
    \A t \in Thread :
        (status[t] = "READY") ~> (currentThread = t \/ machine = "halted")

\* What thread.cc:132-136 says of Finish: Scheduler::Run calls the destructor
\* of the thread in threadToBeDestroyed, so no finished thread is forgotten.
FinishedIsDestroyed ==
    \A t \in Thread :
        resume[t] = "done" => status[t] = "DELETED" \/ threadToBeDestroyed = t

=============================================================================
