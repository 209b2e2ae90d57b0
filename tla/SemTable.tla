------------------------------ MODULE SemTable ------------------------------
(***************************************************************************)
(* User-level semaphores: STable (userprog/stable.cc) under the system     *)
(* calls CreateSemaphore, Up and Down (userprog/exception.cc), on top of   *)
(* the threads and semaphores of Threads.  A program is a thread here; how *)
(* programs start and end is the subject of ProcessTable.                  *)
(*                                                                         *)
(* STable has no lock: Create, Wait and Signal look a name up and act on   *)
(* it before any point where they could be preempted, so each is one step  *)
(* up to the end of the P or V it calls.                                   *)
(***************************************************************************)
EXTENDS Integers, Sequences, FiniteSets, Functions, FiniteSetsExt

CONSTANTS
    Thread, Main, NoThread, NoSem,
    Name, NoName,
    MAX_SEMAPHORE,  \* size of the table
    InitialValues,  \* the values programs pass to CreateSemaphore
    MaxValue        \* bound: no Up at MaxValue, and no Down at -MaxValue

ASSUME SemTableAssumption ==
    /\ Main \in Thread
    /\ NoName \notin Name \cup Int
    /\ MAX_SEMAPHORE \in Nat \ {0}
    /\ InitialValues \subseteq Int

Slot == 0 .. MAX_SEMAPHORE - 1

VARIABLES
    currentThread, level, machine, readyList, status, resume, waitSem, sem,
    threadToBeDestroyed,
    semTab,    \* semTab[i]: the name in slot i, NoName while bm has it clear
    retrap     \* threads that are about to execute their system call again

kernelVars == <<currentThread, level, machine, readyList, status, resume,
                waitSem, sem, threadToBeDestroyed>>
vars == <<kernelVars, semTab, retrap>>

K == INSTANCE Threads WITH Sem <- Slot, InitVal <- [i \in Slot |-> 0],
                           DeviceSem <- {}

Init ==
    /\ K!Init
    /\ semTab = [i \in Slot |-> NoName]
    /\ retrap = {}

\* The current thread executes its program.
InProgram == K!InCode /\ currentThread \notin retrap

Created(n) == n \in Range(semTab)
SlotOf(n) == Min({i \in Slot : semTab[i] = n})
FreeSlots == {i \in Slot : semTab[i] = NoName}

\* STable::Create takes the first free slot for a new name, with any initial value.
Create(n, v) ==
    /\ InProgram
    /\ ~Created(n)
    /\ FreeSlots # {}
    /\ LET i == Min(FreeSlots)
       IN  /\ semTab' = [semTab EXCEPT ![i] = n]
           /\ sem' = [sem EXCEPT ![i] = K!NewSemaphore(v)]
    /\ UNCHANGED <<currentThread, level, machine, readyList, status, resume,
                   waitSem, threadToBeDestroyed, retrap>>

\* Create returns -1: the name exists, or the table is full.
CreateRefused(n) ==
    /\ InProgram
    /\ Created(n) \/ FreeSlots = {}
    /\ UNCHANGED vars

\* STable::Signal of a name in the table.
Up(n) ==
    /\ InProgram
    /\ Created(n)
    /\ K!V(SlotOf(n))
    /\ UNCHANGED <<semTab, retrap>>

\* Signal returns -1 and SC_Up returns without IncreatePC, with -1 in r2: the
\* syscall instruction is executed again, and the code in r2 is now -1.
UpUnknown(n) ==
    /\ InProgram
    /\ ~Created(n)
    /\ retrap' = retrap \cup {currentThread}
    /\ UNCHANGED <<kernelVars, semTab>>

\* The code -1 is no system call: the default case halts the machine.
Retrap ==
    /\ currentThread \in retrap
    /\ K!InCode
    /\ K!Halt
    /\ UNCHANGED <<semTab, retrap>>

\* STable::Wait of a name in the table.
Down(n) ==
    /\ InProgram
    /\ Created(n)
    /\ sem[SlotOf(n)].value > -MaxValue
    /\ K!P(SlotOf(n))
    /\ UNCHANGED <<semTab, retrap>>

\* Wait returns -1, and so does Down.
DownUnknown(n) ==
    /\ InProgram
    /\ ~Created(n)
    /\ UNCHANGED vars

\* A program starts another one, ends, or halts the machine.
Program ==
    /\ InProgram
    /\ (\E t \in Thread : K!Fork(t)) \/ K!Finish \/ K!Halt
    /\ UNCHANGED <<semTab, retrap>>

TimeSlice == K!Yield /\ UNCHANGED <<semTab, retrap>>

Dispatch ==
    /\ K!Resume \/ K!IdleDispatch
    /\ UNCHANGED <<semTab, retrap>>

Next ==
    \/ \E n \in Name :
          \/ \E v \in InitialValues : Create(n, v)
          \/ CreateRefused(n)
          \/ Up(n) \/ UpUnknown(n)
          \/ Down(n) \/ DownUnknown(n)
    \/ Retrap
    \/ Program
    \/ TimeSlice
    \/ Dispatch

Spec == Init /\ [][Next]_vars

\* As in Threads: the CPU never stops and time slices keep coming.
FairSpec == Spec /\ WF_vars(Dispatch) /\ SF_vars(TimeSlice)

-----------------------------------------------------------------------------
(* Properties.                                                             *)

\* The counter that n is.  A semaphore created with a negative value is none until
\* Ups have brought it to zero: Semaphore::P waits at exactly zero, so Down does not
\* wait below it (NeverNegative).
CounterOf(n) ==
    IF Created(n) /\ sem[SlotOf(n)].value >= 0 THEN sem[SlotOf(n)].value ELSE NoName

Counters ==
    INSTANCE NamedSemaphores WITH
        Undef <- NoName, val <- [n \in Name |-> CounterOf(n)]

\* The table implements the counters NamedSemaphores promises, for every name whose
\* value is not, or no longer, negative, whatever other semaphores programs create:
\* a unit is taken once, by a Down that finds the counter positive, whatever threads
\* are woken, arrive or are preempted in between, and a counter stays one (STable,
\* Semaphore::P, V).
ImplementsCounters == Counters!Spec

\* A unit that is there does not stay while threads wait for it (Semaphore::P, V).
UnitsAreTaken ==
    \A i \in Slot :
        (sem[i].value > 0 /\ sem[i].queue # <<>>)
          ~> (sem[i].value = 0 \/ sem[i].queue = <<>> \/ machine = "halted")

\* What synch.h:50 says of Semaphore::value: "always >= 0".  It is not for a semaphore
\* that CreateSemaphore made with a negative value, which SC_CreateSemaphore,
\* STable::Create and Semaphore's constructor all accept.
NeverNegative == \A i \in Slot : sem[i].value >= 0

=============================================================================
