---------------------------- MODULE ProcessNames ----------------------------
(***************************************************************************)
(* The slots of PTable (userprog/ptable.h), its semaphore and the ones of  *)
(* the PCBs (userprog/pcb.cc), and the places where a thread may be        *)
(* preempted in Exec, Exit and Join.                                       *)
(***************************************************************************)
EXTENDS Integers

CONSTANTS
    Thread, Main, NoThread,
    MAX_PROCESS     \* size of the process table

ASSUME ProcessAssumption == Main \in Thread /\ MAX_PROCESS \in Nat \ {0, 1}

Pid == 0 .. MAX_PROCESS - 1
NoPid == -1

bmsem == <<"bmsem", NoPid>>
joinsem(i) == <<"joinsem", i>>
exitsem(i) == <<"exitsem", i>>
multex(i) == <<"multex", i>>
PcbSem(i) == {joinsem(i), exitsem(i), multex(i)}
Semaphores == {bmsem} \cup UNION {PcbSem(i) : i \in Pid}

\* PTable::PTable creates bmsem and pcb[0]; the others are created by Exec.
InitialValue ==
    [s \in Semaphores |-> IF s = bmsem \/ s = multex(0) THEN 1 ELSE 0]

ExecLoc == {"execLocked", "execForking", "execForked", "execUnlock"}
ExitLoc == {"exitDec", "exitRelease", "exitWait", "exitRemove"}
JoinLoc == {"joinInc", "joinWait", "joinRelease"}

=============================================================================
