---------------------------- MODULE ProcessTable ----------------------------
(***************************************************************************)
(* Processes: PTable (userprog/ptable.cc) and PCB (userprog/pcb.cc) under  *)
(* the system calls Exec, Join, Exit and Halt (userprog/exception.cc), on  *)
(* top of the threads and semaphores of Threads.                           *)
(*                                                                         *)
(* A kernel routine may be preempted only inside P, V and Fork, so each is *)
(* cut there: an action is the code from one such call, the call included, *)
(* to the next, and at[t] is where thread t goes on.                       *)
(***************************************************************************)
EXTENDS ProcessNames, Sequences, FiniteSets

CONSTANT NoSem

VARIABLES
    currentThread, level, machine, readyList, status, resume, waitSem, sem,
    threadToBeDestroyed,
    bm,          \* PTable::bm, the set of marked slots
    pcb,         \* PTable::pcb
    processID,   \* Thread::processID
    at,          \* where a thread goes on: "user" in its program, or in the kernel
    arg,         \* the slot Exec found, or the id given to Join
    kids,        \* the ids a program got from Exec and has not joined
    exited,      \* the threads whose programs have called Exit
    orderly,     \* so far programs joined their own children, each one once, and
                 \* called Exit with no child left to join
    undefined    \* the kernel has used a null, freed or out-of-bounds PCB

kernelVars == <<currentThread, level, machine, readyList, status, resume,
                waitSem, sem, threadToBeDestroyed>>
tableVars == <<bm, pcb, processID>>
programVars == <<at, arg, kids>>
history == <<exited, orderly, undefined>>
vars == <<kernelVars, tableVars, programVars, history>>

K == INSTANCE Threads WITH Sem <- Semaphores, InitVal <- InitialValue,
                           DeviceSem <- {}, MaxValue <- 1

PcbState == [state : {"null", "live", "freed"}, parentID : Pid \cup {NoPid},
             numwait : Nat, thread : Thread \cup {NoThread}]

NullPcb == [state |-> "null", parentID |-> NoPid, numwait |-> 0, thread |-> NoThread]
NewPcb(parent) == [state |-> "live", parentID |-> parent, numwait |-> 0, thread |-> NoThread]

\* The machine starts, and main runs StartProcess of the first program.  Its
\* processID is never assigned; it is 0, what the fresh heap holds.
Init ==
    /\ K!Init
    /\ bm = {0}
    /\ pcb = [i \in Pid |-> IF i = 0 THEN NewPcb(NoPid) ELSE NullPcb]
    /\ processID = [t \in Thread |-> IF t = Main THEN 0 ELSE NoPid]
    /\ at = [t \in Thread |-> "user"]
    /\ arg = [t \in Thread |-> NoPid]
    /\ kids = [t \in Thread |-> {}]
    /\ exited = {}
    /\ orderly = TRUE
    /\ undefined = FALSE

-----------------------------------------------------------------------------
(* Steps of the current thread.                                            *)

At(loc) == K!InCode /\ ~undefined /\ at[currentThread] = loc
MyPid == processID[currentThread]
MyArg == arg[currentThread]

Goto(loc, x) ==
    /\ at' = [at EXCEPT ![currentThread] = loc]
    /\ arg' = [arg EXCEPT ![currentThread] = x]

SemP(s) == K!DoP(sem, s)

SemV(s) ==
    /\ K!DoV(sem, s)
    /\ UNCHANGED <<currentThread, level, machine, resume, waitSem,
                   threadToBeDestroyed>>

\* A null, freed or out-of-bounds PCB is used.  What follows is not modelled.
Undefined ==
    /\ undefined' = TRUE
    /\ UNCHANGED <<kernelVars, tableVars, programVars, exited>>

-----------------------------------------------------------------------------
(* Exec.                                                                   *)

\* Bound: a control block is left for the thread this call may create.
ThreadLeft ==
    Cardinality({t \in Thread : status[t] = "JUST_CREATED"})
      > Cardinality({t \in Thread : at[t] \in {"execLocked", "execForking"}})

\* SC_Exec with the name of a file that exists: ExecUpdate up to bmsem->P().
ExecCall ==
    /\ At("user")
    /\ ThreadLeft
    /\ SemP(bmsem)
    /\ Goto("execLocked", NoPid)
    /\ UNCHANGED <<tableVars, kids, history>>

\* Mutant of ExecRefused: bmsem is not released.
ExecRefusedKeepsLock ==
    /\ At("execLocked")
    /\ Goto("user", NoPid)
    /\ UNCHANGED <<kernelVars, tableVars, kids, history>>

\* ExecUpdate returns -1: the name is that of the first program, or is equal to
\* the name of currentThread, whose buffer SC_Exec has deleted, so the comparison
\* may go either way; or no slot is free.
ExecRefused ==
    /\ At("execLocked")
    /\ SemV(bmsem)
    /\ Goto("user", NoPid)
    /\ UNCHANGED <<tableVars, kids, history>>

\* Mutant of ExecNewPcb: the slot is found and not marked.
ExecNewPcbUnmarked ==
    /\ At("execLocked")
    /\ \E i \in Pid \ bm :
           /\ \A j \in 0 .. i - 1 : j \in bm
           /\ pcb' = [pcb EXCEPT ![i] = NewPcb(MyPid)]
           /\ K!DoP([s \in Semaphores |->
                        IF s \in PcbSem(i)
                        THEN K!NewSemaphore(IF s = multex(i) THEN 1 ELSE 0)
                        ELSE sem[s]], multex(i))
           /\ Goto("execForking", i)
    /\ UNCHANGED <<bm, processID, kids, history>>

\* The first free slot gets a new PCB, and PCB::Exec takes its multex.
ExecNewPcb ==
    /\ At("execLocked")
    /\ \E i \in Pid \ bm :
           /\ \A j \in 0 .. i - 1 : j \in bm
           /\ bm' = bm \cup {i}
           /\ pcb' = [pcb EXCEPT ![i] = NewPcb(MyPid)]
           /\ K!DoP([s \in Semaphores |->
                        IF s \in PcbSem(i)
                        THEN K!NewSemaphore(IF s = multex(i) THEN 1 ELSE 0)
                        ELSE sem[s]], multex(i))
           /\ Goto("execForking", i)
    /\ UNCHANGED <<processID, kids, history>>

\* PCB::Exec creates the thread and forks it into StartProcessWithID.
ExecFork(t) ==
    /\ At("execForking")
    /\ K!Fork(t)
    /\ pcb' = [pcb EXCEPT ![MyArg].thread = t, ![MyArg].parentID = MyPid]
    /\ processID' = [processID EXCEPT ![t] = MyArg]
    /\ Goto("execForked", MyArg)
    /\ UNCHANGED <<bm, kids, history>>

ExecMultexV ==
    /\ At("execForked")
    /\ SemV(multex(MyArg))
    /\ Goto("execUnlock", MyArg)
    /\ UNCHANGED <<tableVars, kids, history>>

\* bmsem->V(), and Exec returns the id.
ExecReturn ==
    /\ At("execUnlock")
    /\ SemV(bmsem)
    /\ kids' = [kids EXCEPT ![currentThread] = @ \cup {MyArg}]
    /\ Goto("user", NoPid)
    /\ UNCHANGED <<tableVars, history>>

-----------------------------------------------------------------------------
(* Exit.                                                                   *)

\* The program calls Exit.
Exiting ==
    /\ exited' = exited \cup {currentThread}
    /\ orderly' = (orderly /\ kids[currentThread] = {})

\* SC_Exit with a status other than 0: nothing happens, the program goes on.
ExitNonZero ==
    /\ At("user")
    /\ Exiting
    /\ UNCHANGED <<kernelVars, tableVars, programVars, undefined>>

\* SC_Exit(0) of the first process, or SC_Halt.
HaltCall ==
    /\ At("user")
    /\ K!Halt
    /\ UNCHANGED <<tableVars, programVars, history>>

\* SC_Exit(0) of another process: DecNumWait of its parent, up to multex->P().
\* IsExist(id) is true, as SlotsMarked says.
ExitCall ==
    /\ At("user")
    /\ MyPid # 0
    /\ LET parent == pcb[MyPid].parentID
       IN  \/ /\ pcb[parent].state = "live"
              /\ Exiting
              /\ SemP(multex(parent))
              /\ Goto("exitDec", NoPid)
              /\ UNCHANGED <<tableVars, kids, undefined>>
           \/ pcb[parent].state # "live" /\ Undefined /\ UNCHANGED orderly

\* DecNumWait of the parent, up to multex->V().
ExitDec ==
    /\ At("exitDec")
    /\ LET parent == pcb[MyPid].parentID
       IN  \/ /\ pcb[parent].state = "live"
              /\ pcb' = [pcb EXCEPT ![parent].numwait = IF @ > 0 THEN @ - 1 ELSE @]
              /\ SemV(multex(parent))
              /\ Goto("exitRelease", NoPid)
              /\ UNCHANGED <<bm, processID, kids, history>>
           \/ pcb[parent].state # "live" /\ Undefined /\ UNCHANGED orderly

\* JoinRelease.
ExitRelease ==
    /\ At("exitRelease")
    /\ SemV(joinsem(MyPid))
    /\ Goto("exitWait", NoPid)
    /\ UNCHANGED <<tableVars, kids, history>>

\* Mutant of ExitWait: the process does not wait for its parent.
ExitWaitSkipped ==
    /\ At("exitWait")
    /\ Goto("exitRemove", NoPid)
    /\ UNCHANGED <<kernelVars, tableVars, kids, history>>

\* ExitWait.
ExitWait ==
    /\ At("exitWait")
    /\ SemP(exitsem(MyPid))
    /\ Goto("exitRemove", NoPid)
    /\ UNCHANGED <<tableVars, kids, history>>

\* Remove(id): the slot is free, ~PCB deletes the semaphores and calls Finish,
\* which does not return, so the memory of the PCB itself is not released.
ExitRemove ==
    /\ At("exitRemove")
    /\ bm' = bm \ {MyPid}
    /\ pcb' = [pcb EXCEPT ![MyPid].state = "freed"]
    /\ K!Finish
    /\ UNCHANGED <<processID, programVars, history>>

-----------------------------------------------------------------------------
(* Join.                                                                   *)

\* SC_Join: JoinUpdate's tests.  The test of id lets MAX_PROCESS pass, and a slot
\* that was never used holds a null pointer.  A freed PCB still shows its parent.
JoinRefused(id) ==
    /\ At("user")
    /\ id \in Pid => pcb[id].state # "null" /\ pcb[id].parentID # MyPid
    /\ UNCHANGED vars

JoinOfNoProcess(id) ==
    /\ At("user")
    /\ id \in Pid => pcb[id].state = "null"
    /\ orderly' = FALSE
    /\ Undefined

\* IncNumWait of the caller, up to multex->P().
JoinCall(id) ==
    /\ At("user")
    /\ pcb[id].state # "null"
    /\ pcb[id].parentID = MyPid
    /\ orderly' = (orderly /\ id \in kids[currentThread])
    /\ SemP(multex(MyPid))
    /\ Goto("joinInc", id)
    /\ UNCHANGED <<tableVars, kids, exited, undefined>>

JoinInc ==
    /\ At("joinInc")
    /\ pcb' = [pcb EXCEPT ![MyPid].numwait = @ + 1]
    /\ SemV(multex(MyPid))
    /\ Goto("joinWait", MyArg)
    /\ UNCHANGED <<bm, processID, kids, history>>

\* Mutant of JoinWait: the parent does not wait.
JoinWaitSkipped ==
    /\ At("joinWait")
    /\ Goto("joinRelease", MyArg)
    /\ UNCHANGED <<kernelVars, tableVars, kids, history>>

\* JoinWait.
JoinWait ==
    /\ At("joinWait")
    /\ \/ /\ pcb[MyArg].state = "live"
          /\ SemP(joinsem(MyArg))
          /\ Goto("joinRelease", MyArg)
          /\ UNCHANGED <<tableVars, kids, history>>
       \/ pcb[MyArg].state # "live" /\ Undefined /\ UNCHANGED orderly

\* Mutant of JoinReturn: ExitRelease is forgotten.
JoinReturnKeepsChild ==
    /\ At("joinRelease")
    /\ kids' = [kids EXCEPT ![currentThread] = @ \ {MyArg}]
    /\ Goto("user", NoPid)
    /\ UNCHANGED <<kernelVars, tableVars, history>>

\* GetExitCode and ExitRelease, and Join returns.
JoinReturn ==
    /\ At("joinRelease")
    /\ SemV(exitsem(MyArg))
    /\ kids' = [kids EXCEPT ![currentThread] = @ \ {MyArg}]
    /\ Goto("user", NoPid)
    /\ UNCHANGED <<tableVars, history>>

-----------------------------------------------------------------------------
(* The specification.                                                      *)

Exec ==
    \/ ExecCall \/ ExecRefused \/ ExecNewPcb
    \/ \E t \in Thread : ExecFork(t)
    \/ ExecMultexV \/ ExecReturn

Exit == ExitNonZero \/ ExitCall \/ ExitDec \/ ExitRelease \/ ExitWait \/ ExitRemove

Join ==
    \/ \E id \in -1 .. MAX_PROCESS - 1 : JoinRefused(id)
    \/ \E id \in 0 .. MAX_PROCESS : JoinOfNoProcess(id)
    \/ \E id \in Pid : JoinCall(id)
    \/ JoinInc \/ JoinWait \/ JoinReturn

\* A time slice ends (nachos -rs), or the CPU goes to the next thread.
TimeSlice ==
    /\ ~undefined
    /\ K!Yield
    /\ UNCHANGED <<tableVars, programVars, history>>

Dispatch ==
    /\ ~undefined
    /\ K!Resume \/ K!IdleDispatch
    /\ UNCHANGED <<tableVars, programVars, history>>

Next == Exec \/ Exit \/ Join \/ HaltCall \/ TimeSlice \/ Dispatch

Spec == Init /\ [][Next]_vars

\* The current thread goes on with the system call it is in.
InKernel(t) ==
    /\ currentThread = t
    /\ at[t] # "user"
    /\ Exec \/ Exit \/ Join

\* The CPU never stops, time slices keep coming, and a thread that gets the CPU
\* again and again goes on with its system call: the timer's random interval
\* does not end every slice before the next kernel instruction.
FairSpec ==
    /\ Spec
    /\ WF_vars(Dispatch)
    /\ SF_vars(TimeSlice)
    /\ \A t \in Thread : SF_vars(InKernel(t))

-----------------------------------------------------------------------------
(* Properties.                                                             *)

TypeOK ==
    /\ K!TypeOK
    /\ bm \subseteq Pid
    /\ pcb \in [Pid -> PcbState]
    /\ processID \in [Thread -> Pid \cup {NoPid}]
    /\ at \in [Thread -> {"user"} \cup ExecLoc \cup ExitLoc \cup JoinLoc]
    /\ arg \in [Thread -> Pid \cup {NoPid}]
    /\ kids \in [Thread -> SUBSET Pid]
    /\ exited \subseteq Thread
    /\ orderly \in BOOLEAN
    /\ undefined \in BOOLEAN

\* The threads of processes that have not been removed.
Alive == {t \in Thread : status[t] # "JUST_CREATED" /\ resume[t] # "done"}

\* A slot is marked exactly while a process owns it or Exec is filling it, and
\* two processes never have the same id, although slots are reused: so the test
\* IsExist in ExitUpdate never fails (PTable::GetFreeSlot, Remove, ExecUpdate).
SlotsMarked ==
    /\ TypeOK
    /\ \A t, u \in Alive : processID[t] = processID[u] => t = u
    /\ bm = {processID[t] : t \in Alive}
            \cup {arg[t] : t \in {u \in Alive : at[u] = "execForking"}}
    /\ \A i \in Pid : i \in bm <=> pcb[i].state = "live"

\* Join returns only when the program it joins has called Exit(0) and still
\* waits to be removed, so its PCB can be used: JoinReturn's GetExitCode and
\* ExitRelease are safe (PTable::JoinUpdate, ExitUpdate).
JoinAfterExit ==
    \A t \in Thread :
        at[t] = "joinRelease" /\ K!InCode /\ currentThread = t =>
            /\ pcb[arg[t]].state = "live"
            /\ at[pcb[arg[t]].thread] \in {"exitWait", "exitRemove"}

\* Programs that join each child once never make the kernel use a null, freed
\* or out-of-bounds PCB (PTable::ExitUpdate, JoinUpdate), and ~PCB deletes its
\* semaphores only when no thread waits on them, what synch.cc:45-46 says a
\* destructor may assume.  (A program that joins a child a second time before it is
\* removed waits on one of them.)
NeverUndefined ==
  orderly =>
    /\ ~undefined
    /\ \A t \in Thread : resume[t] = "P" /\ status[t] = "BLOCKED" =>
          \A i \in Pid : waitSem[t] \in PcbSem(i) => pcb[i].state = "live"

\* The threads are never all blocked: with programs that join each child once,
\* Exec, Join and Exit cannot deadlock (PTable's semaphores).
NeverAllBlocked == orderly => machine # "idle"

\* When a process has called Exit(0) and its parent is in Join, the process is
\* removed, and its slot is free again (ExitUpdate, JoinUpdate).
JoinedProcessRemoved ==
    \A i \in Pid \ {0} :
        /\ pcb[i].state = "live"
        /\ \E t \in Alive : at[t] \in ExitLoc /\ processID[t] = i
        /\ \E t \in Alive : at[t] \in JoinLoc /\ arg[t] = i
        ~> i \notin bm \/ machine = "halted" \/ undefined

\* What syscall.h says of Exit: "This user program is done".  A program that has
\* called it makes no other system call.
ExitEndsProgram ==
    \A t \in exited : at[t] \notin ExecLoc \cup JoinLoc

=============================================================================
