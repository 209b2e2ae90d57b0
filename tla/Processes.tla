----------------------------- MODULE Processes ------------------------------
(***************************************************************************)
(* What Exec, Join and Exit do when the scheduler is left out: every       *)
(* process goes on whenever it likes, a semaphore is a counter, and a      *)
(* thread inside P takes a unit once there is one.  ProcessTable, on the   *)
(* threads, lists and interrupts of the kernel, implements this.           *)
(***************************************************************************)
EXTENDS ProcessNames

VARIABLES
    value,       \* value[s]: the counter of semaphore s
    waiting,     \* waiting[t]: the semaphore that thread t is inside P of, if any
    alive,       \* the threads that have been forked and have not finished
    born,        \* the threads that have been forked
    bm, pcb, processID, at, arg, kids, orderly, undefined   \* as in ProcessTable

calls == <<value, waiting, at, arg>>
threads == <<alive, born>>
table == <<bm, pcb, processID>>
history == <<orderly, undefined>>
vars == <<calls, threads, table, kids, history>>

AllLoc == {"user"} \cup ExecLoc \cup ExitLoc \cup JoinLoc

PcbState == [state : {"null", "live", "freed"}, parentID : Pid \cup {NoPid},
             thread : Thread \cup {NoThread}]

NullPcb == [state |-> "null", parentID |-> NoPid, thread |-> NoThread]
NewPcb(parent) == [state |-> "live", parentID |-> parent, thread |-> NoThread]

Init ==
    /\ value = InitialValue
    /\ waiting = [t \in Thread |-> {}]
    /\ alive = {Main}
    /\ born = {Main}
    /\ bm = {0}
    /\ pcb = [i \in Pid |-> IF i = 0 THEN NewPcb(NoPid) ELSE NullPcb]
    /\ processID = [t \in Thread |-> IF t = Main THEN 0 ELSE NoPid]
    /\ at = [t \in Thread |-> "user"]
    /\ arg = [t \in Thread |-> NoPid]
    /\ kids = [t \in Thread |-> {}]
    /\ orderly = TRUE
    /\ undefined = FALSE

-----------------------------------------------------------------------------
(* Semaphores, and the steps of a thread.                                  *)

At(t, loc) == ~undefined /\ t \in alive /\ waiting[t] = {} /\ at[t] = loc

Goto(t, loc, x) ==
    /\ at' = [at EXCEPT ![t] = loc]
    /\ arg' = [arg EXCEPT ![t] = x]

Block(t, s) ==
    /\ value[s] = 0
    /\ waiting' = [waiting EXCEPT ![t] = {s}]
    /\ UNCHANGED value

Take(t, s) ==
    /\ value[s] # 0
    /\ value' = [value EXCEPT ![s] = @ - 1]
    /\ waiting' = [waiting EXCEPT ![t] = {}]

P(t, s) == Block(t, s) \/ Take(t, s)

V(s) ==
    /\ value' = [value EXCEPT ![s] = @ + 1]
    /\ UNCHANGED waiting

\* A thread inside P gets the unit it waits for.
Wake(t, s) ==
    /\ t \in alive
    /\ waiting[t] = {s}
    /\ Take(t, s)
    /\ UNCHANGED <<at, arg, threads, table, kids, history>>

\* A PCB that is not there is used.
Undefined ==
    /\ undefined' = TRUE
    /\ UNCHANGED <<calls, threads, table, kids>>

-----------------------------------------------------------------------------
(* Exec.                                                                   *)

ExecCall(t) ==
    /\ At(t, "user")
    /\ P(t, bmsem)
    /\ Goto(t, "execLocked", NoPid)
    /\ UNCHANGED <<threads, table, kids, history>>

ExecRefused(t) ==
    /\ At(t, "execLocked")
    /\ V(bmsem)
    /\ Goto(t, "user", NoPid)
    /\ UNCHANGED <<threads, table, kids, history>>

\* Some free slot i gets a new PCB, whose multex Exec holds.
ExecNewPcb(t, i) ==
    /\ At(t, "execLocked")
    /\ i \notin bm
    /\ bm' = bm \cup {i}
    /\ pcb' = [pcb EXCEPT ![i] = NewPcb(processID[t])]
    /\ value' = [s \in Semaphores |-> IF s \in PcbSem(i) THEN 0 ELSE value[s]]
    /\ Goto(t, "execForking", i)
    /\ UNCHANGED <<waiting, threads, processID, kids, history>>

ExecFork(t, n) ==
    /\ At(t, "execForking")
    /\ n \notin born
    /\ alive' = alive \cup {n}
    /\ born' = born \cup {n}
    /\ pcb' = [pcb EXCEPT ![arg[t]] = [state |-> @.state, parentID |-> processID[t],
                                       thread |-> n]]
    /\ processID' = [processID EXCEPT ![n] = arg[t]]
    /\ Goto(t, "execForked", arg[t])
    /\ UNCHANGED <<value, waiting, bm, kids, history>>

ExecMultexV(t) ==
    /\ At(t, "execForked")
    /\ V(multex(arg[t]))
    /\ Goto(t, "execUnlock", arg[t])
    /\ UNCHANGED <<threads, table, kids, history>>

ExecReturn(t) ==
    /\ At(t, "execUnlock")
    /\ V(bmsem)
    /\ kids' = [kids EXCEPT ![t] = @ \cup {arg[t]}]
    /\ Goto(t, "user", NoPid)
    /\ UNCHANGED <<threads, table, history>>

-----------------------------------------------------------------------------
(* Exit.                                                                   *)

ParentOf(t) == pcb[processID[t]].parentID

ExitNonZero(t) ==
    /\ At(t, "user")
    /\ orderly' = (orderly /\ kids[t] = {})
    /\ UNCHANGED <<calls, threads, table, kids, undefined>>

ExitCall(t) ==
    /\ At(t, "user")
    /\ processID[t] # 0
    /\ pcb[ParentOf(t)].state = "live"
    /\ P(t, multex(ParentOf(t)))
    /\ orderly' = (orderly /\ kids[t] = {})
    /\ Goto(t, "exitDec", NoPid)
    /\ UNCHANGED <<threads, table, kids, undefined>>

ExitDec(t) ==
    /\ At(t, "exitDec")
    /\ pcb[ParentOf(t)].state = "live"
    /\ V(multex(ParentOf(t)))
    /\ Goto(t, "exitRelease", NoPid)
    /\ UNCHANGED <<threads, table, kids, history>>

\* ExitCall and DecNumWait when the parent's PCB is not there.
ExitOrphan(t) ==
    /\ \/ At(t, "user") /\ processID[t] # 0
       \/ At(t, "exitDec")
    /\ pcb[ParentOf(t)].state # "live"
    /\ Undefined
    /\ UNCHANGED orderly

ExitRelease(t) ==
    /\ At(t, "exitRelease")
    /\ V(joinsem(processID[t]))
    /\ Goto(t, "exitWait", NoPid)
    /\ UNCHANGED <<threads, table, kids, history>>

ExitWait(t) ==
    /\ At(t, "exitWait")
    /\ P(t, exitsem(processID[t]))
    /\ Goto(t, "exitRemove", NoPid)
    /\ UNCHANGED <<threads, table, kids, history>>

ExitRemove(t) ==
    /\ At(t, "exitRemove")
    /\ bm' = bm \ {processID[t]}
    /\ pcb' = [pcb EXCEPT ![processID[t]].state = "freed"]
    /\ alive' = alive \ {t}
    /\ UNCHANGED <<calls, born, processID, kids, history>>

-----------------------------------------------------------------------------
(* Join.                                                                   *)

JoinOfNoProcess(t) ==
    /\ At(t, "user")
    /\ orderly' = FALSE
    /\ Undefined

JoinCall(t, id) ==
    /\ At(t, "user")
    /\ pcb[id].state # "null"
    /\ pcb[id].parentID = processID[t]
    /\ P(t, multex(processID[t]))
    /\ orderly' = (orderly /\ id \in kids[t])
    /\ Goto(t, "joinInc", id)
    /\ UNCHANGED <<threads, table, kids, undefined>>

JoinInc(t) ==
    /\ At(t, "joinInc")
    /\ V(multex(processID[t]))
    /\ Goto(t, "joinWait", arg[t])
    /\ UNCHANGED <<threads, table, kids, history>>

JoinWait(t) ==
    /\ At(t, "joinWait")
    /\ pcb[arg[t]].state = "live"
    /\ P(t, joinsem(arg[t]))
    /\ Goto(t, "joinRelease", arg[t])
    /\ UNCHANGED <<threads, table, kids, history>>

\* JoinWait when the process has been removed.
JoinLate(t) ==
    /\ At(t, "joinWait")
    /\ pcb[arg[t]].state # "live"
    /\ Undefined
    /\ UNCHANGED orderly

JoinReturn(t) ==
    /\ At(t, "joinRelease")
    /\ V(exitsem(arg[t]))
    /\ kids' = [kids EXCEPT ![t] = @ \ {arg[t]}]
    /\ Goto(t, "user", NoPid)
    /\ UNCHANGED <<threads, table, history>>

-----------------------------------------------------------------------------
(* The specification.                                                      *)

Exec(t) ==
    \/ ExecCall(t) \/ ExecRefused(t) \/ ExecMultexV(t) \/ ExecReturn(t)
    \/ \E i \in Pid : ExecNewPcb(t, i)
    \/ \E n \in Thread : ExecFork(t, n)

Exit(t) ==
    \/ ExitNonZero(t) \/ ExitCall(t) \/ ExitDec(t) \/ ExitOrphan(t)
    \/ ExitRelease(t) \/ ExitWait(t) \/ ExitRemove(t)

Join(t) ==
    \/ JoinOfNoProcess(t) \/ JoinInc(t) \/ JoinWait(t) \/ JoinLate(t) \/ JoinReturn(t)
    \/ \E id \in Pid : JoinCall(t, id)

Next == \E t \in Thread : Exec(t) \/ Exit(t) \/ Join(t) \/ \E s \in Semaphores : Wake(t, s)

Spec == Init /\ [][Next]_vars

-----------------------------------------------------------------------------
(* What it promises.                                                       *)

\* A slot is marked exactly while a process owns it or Exec is filling it, and
\* two processes never have the same id (GetFreeSlot, Remove, ExecUpdate).
SlotsMarked ==
    /\ \A t, u \in alive : processID[t] = processID[u] => t = u
    /\ bm = {processID[t] : t \in alive}
            \cup {arg[t] : t \in {u \in alive : at[u] = "execForking"}}
    /\ \A i \in Pid : i \in bm <=> pcb[i].state = "live"

\* A thread that JoinWait has let go finds the PCB of a process that has called
\* Exit and waits to be removed (JoinUpdate, ExitUpdate).
JoinAfterExit ==
    \A t \in Thread :
        at[t] = "joinRelease" /\ waiting[t] = {} =>
            /\ pcb[arg[t]].state = "live"
            /\ at[pcb[arg[t]].thread] \in {"exitWait", "exitRemove"}

\* Orderly programs never make the kernel use a PCB that is not there, or wait on a
\* semaphore of one (ExitUpdate, JoinUpdate).
NeverUndefined ==
    orderly =>
        /\ ~undefined
        /\ \A t \in alive, i \in Pid :
              waiting[t] \cap PcbSem(i) # {} => pcb[i].state = "live"

=============================================================================
