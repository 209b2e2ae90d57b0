---------------------------- MODULE ProcessesInv ----------------------------
(***************************************************************************)
(* The invariant of Processes, for any number of threads and slots, and    *)
(* the steps that fill a slot, start its thread and free it again.         *)
(***************************************************************************)
EXTENDS Processes, TLAPS

\* Thread t is inside P of s.
Waits(t, s) == s \in waiting[t]

\* Where arg holds a slot.
WithArg == {"execForking", "execForked", "execUnlock"} \cup JoinLoc

Types ==
    /\ value \in [Semaphores -> Int]
    /\ waiting \in [Thread -> SUBSET Semaphores]
    /\ alive \subseteq born /\ born \subseteq Thread
    /\ bm \subseteq Pid
    /\ pcb \in [Pid -> PcbState]
    /\ processID \in [Thread -> Pid \cup {NoPid}]
    /\ at \in [Thread -> AllLoc]
    /\ arg \in [Thread -> Pid \cup {NoPid}]
    /\ kids \in [Thread -> SUBSET Pid]
    /\ orderly \in BOOLEAN
    /\ undefined \in BOOLEAN
    /\ \A t \in Thread : at[t] \in WithArg => arg[t] \in Pid

\* The threads in ExecUpdate between P and V of bmsem.
Locker(t) == at[t] \in ExecLoc /\ ~Waits(t, bmsem)

\* bmsem lets one thread at a time into ExecUpdate.
LockInv ==
    /\ value[bmsem] \in {0, 1}
    /\ \A t \in Thread : Locker(t) => value[bmsem] = 0
    /\ \A t, u \in Thread : Locker(t) /\ Locker(u) => t = u

\* Where a thread inside P of s is.
Place(t, s) ==
    \/ at[t] = "execLocked" /\ s = bmsem
    \/ at[t] = "joinRelease" /\ s = joinsem(arg[t])
    \/ at[t] = "exitRemove" /\ s = exitsem(processID[t])
    \/ at[t] = "exitDec" /\ s = multex(ParentOf(t))
    \/ at[t] = "joinInc" /\ s = multex(processID[t])

WaitInv == \A t \in Thread, s \in Semaphores : Waits(t, s) => Place(t, s)

\* ExecUpdate is filling slot i, and its thread does not exist yet.
Filling(t, i) == at[t] = "execForking" /\ arg[t] = i

\* A slot is marked while a process has it or Exec is filling it, and what that
\* rests on: the first program is never removed, and a thread that is not a
\* process is not in a system call.
SlotInv ==
    /\ Main \in alive /\ processID[Main] = 0 /\ pcb[0].parentID = NoPid
    /\ \A t \in alive : processID[t] \in Pid
    /\ \A t, u \in alive : processID[t] = processID[u] => t = u
    /\ \A i \in Pid : i \in bm <=> \/ \E t \in alive : processID[t] = i
                                   \/ \E t \in Thread : Filling(t, i)
    /\ \A t \in Thread, u \in alive : ~Filling(t, processID[u])
    /\ \A i \in Pid : i \in bm <=> pcb[i].state = "live"
    /\ \A i \in bm \ {0} : pcb[i].parentID \in Pid
    /\ \A t \in alive \ {Main} : pcb[processID[t]].thread = t
    /\ \A t \in Thread \ alive : at[t] \in {"user", "exitRemove"}
    /\ \A t \in Thread \ born : at[t] = "user" /\ kids[t] = {}
    /\ \A t \in Thread : at[t] \in ExitLoc => processID[t] # 0

\* Thread t has been told by JoinRelease that process i has called Exit.
Told(t, i) == at[t] = "joinRelease" /\ arg[t] = i /\ ~Waits(t, joinsem(i))

\* Process i has called JoinRelease; and it has left ExitWait.
Signed(i) == \E t \in alive : processID[t] = i /\ at[t] \in {"exitWait", "exitRemove"}
Left(i) ==
    \E t \in alive : processID[t] = i /\ at[t] = "exitRemove" /\ ~Waits(t, exitsem(i))

\* The handshake of Exit and Join is one token that only JoinRelease of the process
\* makes: it is in joinsem, then with one thread in Join, then in exitsem, and then
\* the process leaves ExitWait with it.
HandInv ==
    \A i \in Pid :
        /\ value[joinsem(i)] \in {0, 1}
        /\ value[exitsem(i)] \in {0, 1}
        /\ value[joinsem(i)] = 1 =>
              /\ Signed(i) /\ ~Left(i) /\ value[exitsem(i)] = 0
              /\ \A t \in Thread : ~Told(t, i)
        /\ value[exitsem(i)] = 1 => Signed(i) /\ ~Left(i)
        /\ \A t \in Thread : Told(t, i) =>
              /\ Signed(i) /\ ~Left(i) /\ value[exitsem(i)] = 0
              /\ \A u \in Thread : Told(u, i) => u = t

\* Thread t has process i to join, or is about to get its id from Exec.
Child(t, i) ==
    \/ i \in kids[t]
    \/ at[t] \in {"execForking", "execForked", "execUnlock"} /\ arg[t] = i

\* While the programs are orderly: a process that has still to be joined is there,
\* its parent is there as long as the process may look at its PCB, and a parent in
\* Exit has no such child.
OrderInv ==
    orderly =>
        /\ ~undefined
        /\ \A t \in alive, i \in Pid : Child(t, i) =>
              /\ pcb[i].state = "live"
              /\ pcb[i].parentID = processID[t]
              /\ value[exitsem(i)] = 0
              /\ ~Left(i)
        /\ \A t \in alive : at[t] \in JoinLoc => arg[t] \in kids[t]
        /\ \A t \in alive : at[t] \in ExitLoc => kids[t] = {}
        /\ \A t \in alive \ {Main} : at[t] \notin {"exitWait", "exitRemove"} =>
              \E u \in alive : Child(u, processID[t])

TableInv == Types /\ LockInv /\ WaitInv /\ SlotInv /\ HandInv /\ OrderInv

-----------------------------------------------------------------------------
(* Names, and what a step does to the thread that takes it.                *)

\* The semaphores are different.
LEMMA SemNames ==
    /\ bmsem \in Semaphores
    /\ \A i \in Pid : {joinsem(i), exitsem(i), multex(i)} \subseteq Semaphores
    /\ \A i, j : /\ joinsem(i) = joinsem(j) => i = j
                 /\ exitsem(i) = exitsem(j) => i = j
                 /\ multex(i) = multex(j) => i = j
                 /\ joinsem(i) # exitsem(j)
                 /\ joinsem(i) # multex(j)
                 /\ exitsem(i) # multex(j)
                 /\ bmsem \notin {joinsem(i), exitsem(i), multex(i)}
<1>1. \A i, j : /\ joinsem(i) = joinsem(j) => i = j
                /\ exitsem(i) = exitsem(j) => i = j
                /\ multex(i) = multex(j) => i = j
                /\ joinsem(i) # exitsem(j)
                /\ joinsem(i) # multex(j)
                /\ exitsem(i) # multex(j)
                /\ bmsem \notin {joinsem(i), exitsem(i), multex(i)}
  BY SMT DEF joinsem, exitsem, multex, bmsem
<1>2. /\ bmsem \in Semaphores
      /\ \A i \in Pid : {joinsem(i), exitsem(i), multex(i)} \subseteq Semaphores
  BY Zenon DEF Semaphores, PcbSem
<1> QED BY <1>1, <1>2, Zenon

\* Slots are numbers from 0.
LEMMA Pids == 0 \in Pid /\ NoPid \notin Pid
BY ProcessAssumption DEF Pid, NoPid

\* The locations are different.
LEMMA Locations ==
    /\ {"user", "execLocked", "execForking", "execForked", "execUnlock", "exitDec", "exitRelease",
        "exitWait", "exitRemove", "joinInc", "joinWait", "joinRelease"} = AllLoc
    /\ ExecLoc = {"execLocked", "execForking", "execForked", "execUnlock"}
    /\ ExitLoc = {"exitDec", "exitRelease", "exitWait", "exitRemove"}
    /\ JoinLoc = {"joinInc", "joinWait", "joinRelease"}
    /\ WithArg = {"execForking", "execForked", "execUnlock", "joinInc", "joinWait", "joinRelease"}
BY DEF AllLoc, ExecLoc, ExitLoc, JoinLoc, WithArg

\* Goto, thread by thread.
LEMMA GotoEffect ==
    ASSUME Types, NEW me \in Thread, NEW loc \in AllLoc, NEW x \in Pid \cup {NoPid},
           loc \in WithArg => x \in Pid, Goto(me, loc, x)
    PROVE  /\ at'[me] = loc /\ arg'[me] = x
           /\ \A t \in Thread \ {me} : at'[t] = at[t] /\ arg'[t] = arg[t]
           /\ at' \in [Thread -> AllLoc]
           /\ arg' \in [Thread -> Pid \cup {NoPid}]
           /\ \A t \in Thread : at'[t] \in WithArg => arg'[t] \in Pid
<1>1. /\ at'[me] = loc /\ arg'[me] = x
      /\ \A t \in Thread \ {me} : at'[t] = at[t] /\ arg'[t] = arg[t]
      /\ at' \in [Thread -> AllLoc]
      /\ arg' \in [Thread -> Pid \cup {NoPid}]
  BY DEF Goto, Types
<1> QED BY <1>1 DEF Types

\* A PCB gets other fields.
LEMMA PcbTypes ==
    ASSUME Types, NEW i \in Pid, NEW new \in PcbState, pcb' = [pcb EXCEPT ![i] = new]
    PROVE  /\ pcb' \in [Pid -> PcbState] /\ pcb'[i] = new
           /\ \A j \in Pid \ {i} : pcb'[j] = pcb[j]
BY DEF Types

\* A process is one thread, and it has a slot.
LEMMA OneThread ==
    ASSUME TableInv, NEW t \in alive
    PROVE  /\ t \in Thread /\ processID[t] \in Pid
           /\ \A u \in alive : processID[u] = processID[t] => u = t
           /\ at[t] \in AllLoc /\ (at[t] \in WithArg => arg[t] \in Pid)
           /\ at[t] \in ExitLoc => processID[t] # 0 /\ t # Main
           /\ processID[t] # 0 => ParentOf(t) \in Pid /\ t # Main
BY DEF TableInv, SlotInv, Types, ParentOf

\* A process that has not told its parent yet is to be joined by some process.
LEMMA HasParent ==
    ASSUME TableInv, orderly, NEW t \in alive \ {Main},
           at[t] \notin {"exitWait", "exitRemove"}, NEW p, p = processID[t]
    PROVE  \E u \in alive : Child(u, p)
BY DEF TableInv, OrderInv

\* What P and V do to the values, and to who waits.
LEMMA CallEffect ==
    ASSUME Types, NEW me \in Thread, waiting[me] = {}, NEW s \in Semaphores, P(me, s) \/ V(s)
    PROVE  /\ value' \in [Semaphores -> Int] /\ waiting' \in [Thread -> SUBSET Semaphores]
           /\ \A y \in Semaphores \ {s} : value'[y] = value[y]
           /\ \A y \in Semaphores \ {s}, t \in Thread : Waits(t, y)' <=> Waits(t, y)
           /\ \A t \in Thread \ {me} : Waits(t, s)' <=> Waits(t, s)
           /\ Block(me, s) => value'[s] = value[s] /\ Waits(me, s)'
           /\ Take(me, s) => value[s] # 0 /\ value'[s] = value[s] - 1 /\ ~Waits(me, s)'
           /\ V(s) => value'[s] = value[s] + 1 /\ ~Waits(me, s)'
<1>1. /\ value \in [Semaphores -> Int] /\ waiting \in [Thread -> SUBSET Semaphores]
      /\ \A y \in Semaphores : ~Waits(me, y)
  BY DEF Types, Waits
<1>2. CASE Block(me, s)
  <2>1. value' = value /\ waiting' = [waiting EXCEPT ![me] = {s}] /\ value[s] = 0
    BY <1>2 DEF Block
  <2>2. ~Take(me, s) /\ ~V(s)
    BY <1>1, <2>1 DEF Take, V
  <2> QED BY <1>1, <1>2, <2>1, <2>2 DEF Waits
<1>3. CASE Take(me, s)
  <2>1. /\ value' = [value EXCEPT ![s] = value[s] - 1] /\ waiting' = [waiting EXCEPT ![me] = {}]
        /\ value[s] # 0
    BY <1>3 DEF Take
  <2>2. ~Block(me, s) /\ ~V(s)
    BY <1>1, <2>1 DEF Block, V
  <2> QED BY <1>1, <1>3, <2>1, <2>2 DEF Waits
<1>4. CASE V(s)
  <2>1. value' = [value EXCEPT ![s] = value[s] + 1] /\ waiting' = waiting
    BY <1>4 DEF V
  <2>2. ~Block(me, s) /\ ~Take(me, s)
    BY <1>1, <2>1 DEF Block, Take
  <2> QED BY <1>1, <1>4, <2>1, <2>2 DEF Waits
<1> QED BY <1>2, <1>3, <1>4 DEF P

-----------------------------------------------------------------------------
(* Steps that leave a part of the invariant alone.                         *)

\* Only thread me moves, and only it may get or lose a child.
OthersStay(me) ==
    \A t \in Thread \ {me} : at'[t] = at[t] /\ arg'[t] = arg[t] /\ kids'[t] = kids[t]

\* No thread gets into ExecUpdate, and bmsem has its value.
LEMMA LockFrame ==
    ASSUME LockInv, value'[bmsem] = value[bmsem],
           \A t \in Thread : Locker(t)' => Locker(t)
    PROVE  LockInv'
BY DEF LockInv

\* A thread inside P is where Place says, or was inside that P and has not moved.
LEMMA WaitFrame ==
    ASSUME WaitInv,
           \A t \in Thread, s \in Semaphores : Waits(t, s)' =>
              \/ Place(t, s)'
              \/ /\ Waits(t, s)
                 /\ at'[t] = at[t] /\ arg'[t] = arg[t] /\ processID'[t] = processID[t]
                 /\ at[t] = "exitDec" => ParentOf(t)' = ParentOf(t)
    PROVE  WaitInv'
BY DEF WaitInv, Place

\* The handshake of Exit and Join of process i is where it was.
SameHand(i) ==
    /\ value'[joinsem(i)] = value[joinsem(i)]
    /\ value'[exitsem(i)] = value[exitsem(i)]
    /\ \A t \in Thread : Told(t, i)' <=> Told(t, i)
    /\ Signed(i)' <=> Signed(i)
    /\ Left(i)' <=> Left(i)

SameHands == \A i \in Pid : SameHand(i)

\* No handshake of Exit and Join moves.
LEMMA HandFrame == ASSUME HandInv, SameHands PROVE HandInv'
BY DEF HandInv, SameHands, SameHand

\* A step in which no thread enters or leaves a part of that handshake.
LEMMA HandSame ==
    ASSUME Types, UNCHANGED <<alive, processID>>, NEW i \in Pid,
           value'[joinsem(i)] = value[joinsem(i)], value'[exitsem(i)] = value[exitsem(i)],
           \A t \in Thread : /\ Waits(t, joinsem(i))' <=> Waits(t, joinsem(i))
                             /\ Waits(t, exitsem(i))' <=> Waits(t, exitsem(i)),
           \A t \in Thread :
              \/ at'[t] = at[t] /\ arg'[t] = arg[t]
              \/ /\ at[t] = "joinRelease" => arg[t] # i
                 /\ at'[t] = "joinRelease" => arg'[t] # i
                 /\ at[t] \in {"exitWait", "exitRemove"} => processID[t] # i
                 /\ at'[t] \in {"exitWait", "exitRemove"} => processID[t] # i
    PROVE  SameHand(i)
<1>1. \A t \in Thread : Told(t, i)' <=> Told(t, i)
  BY DEF Told
<1>2. \A t \in alive : t \in Thread
  BY DEF Types
<1>3. (Signed(i)' <=> Signed(i)) /\ (Left(i)' <=> Left(i))
  BY <1>2 DEF Signed, Left
<1> QED BY <1>1, <1>3 DEF SameHand

\* The process is gone, or there is a new one: no token.
LEMMA HandNone ==
    ASSUME HandInv, NEW i \in Pid, \A j \in Pid \ {i} : SameHand(j),
           Left(i) \/ ~Signed(i),
           value'[joinsem(i)] \in {0, value[joinsem(i)]},
           value'[exitsem(i)] \in {0, value[exitsem(i)]},
           \A t \in Thread : Told(t, i)' => Told(t, i)
    PROVE  HandInv'
<1>1. /\ value[joinsem(i)] = 0 /\ value[exitsem(i)] = 0
      /\ \A t \in Thread : ~Told(t, i)
  BY DEF HandInv
<1> QED BY <1>1 DEF HandInv, SameHand

\* No slot is filled or freed, and no process is created or removed.
LEMMA SlotFrame ==
    ASSUME SlotInv, Types, UNCHANGED <<alive, born, bm, pcb, processID>>,
           \A t \in Thread :
              \/ at'[t] = at[t] /\ arg'[t] = arg[t] /\ kids'[t] = kids[t]
              \/ /\ t \in alive
                 /\ at[t] # "execForking" /\ at'[t] # "execForking"
                 /\ at'[t] \in ExitLoc => processID[t] # 0
    PROVE  SlotInv'
<1>1. \A t \in Thread, i \in Pid : Filling(t, i)' <=> Filling(t, i)
  BY DEF Filling
<1>2. /\ \A t \in Thread \ alive : at'[t] \in {"user", "exitRemove"}
      /\ \A t \in Thread \ born : at'[t] = "user" /\ kids'[t] = {}
      /\ \A t \in Thread : at'[t] \in ExitLoc => processID[t] # 0
  BY DEF SlotInv, Types
<1>3. \A t \in Thread, u \in alive : ~Filling(t, processID[u])'
  BY <1>1, Zenon DEF SlotInv
<1> QED BY <1>1, <1>2, <1>3 DEF SlotInv

\* No child is gained, and one is lost only when it has called JoinRelease.
LEMMA OrderMove ==
    ASSUME OrderInv, SlotInv, UNCHANGED <<alive, pcb, processID>>,
           orderly' => orderly /\ ~undefined',
           orderly => \A t \in alive, i \in Pid : Child(t, i)' =>
              Child(t, i) /\ value'[exitsem(i)] = 0 /\ ~Left(i)',
           orderly => \A t \in alive, i \in Pid : Child(t, i) => Child(t, i)' \/ Signed(i),
           orderly' => \A t \in alive :
              \/ at'[t] = at[t] /\ arg'[t] = arg[t] /\ kids'[t] = kids[t]
              \/ /\ at'[t] \in JoinLoc => arg'[t] \in kids'[t]
                 /\ at'[t] \in ExitLoc => kids'[t] = {}
                 /\ at[t] \in {"exitWait", "exitRemove"} => at'[t] \in {"exitWait", "exitRemove"}
    PROVE  OrderInv'
<1> SUFFICES ASSUME orderly' PROVE OrderInv'
  BY DEF OrderInv
<1>1. orderly /\ ~undefined'
  OBVIOUS
<1>2. \A t \in alive, i \in Pid : Child(t, i)' =>
         /\ pcb[i].state = "live" /\ pcb[i].parentID = processID[t]
         /\ value'[exitsem(i)] = 0 /\ ~Left(i)'
  BY <1>1 DEF OrderInv
<1>3. \A t \in alive : /\ at'[t] \in JoinLoc => arg'[t] \in kids'[t]
                       /\ at'[t] \in ExitLoc => kids'[t] = {}
  BY <1>1 DEF OrderInv
<1>4. \A t \in alive \ {Main} : at'[t] \notin {"exitWait", "exitRemove"} =>
         \E u \in alive : Child(u, processID[t])'
  <2> SUFFICES ASSUME NEW t \in alive \ {Main}, at'[t] \notin {"exitWait", "exitRemove"}
               PROVE  \E u \in alive : Child(u, processID[t])'
    OBVIOUS
  <2>1. at[t] \notin {"exitWait", "exitRemove"}
    BY <1>1
  <2>2. PICK i \in Pid : i = processID[t] /\ i = processID'[t] /\ ~Signed(i)
    BY <2>1, SMTT(30) DEF Signed, SlotInv
  <2>3. \E u \in alive : Child(u, processID[t])
    BY <1>1, <2>1, Zenon DEF OrderInv
  <2>4. PICK u \in alive : Child(u, i)
    BY <2>2, <2>3
  <2> QED BY <1>1, <2>2, <2>4
<1> QED BY <1>1, <1>2, <1>3, <1>4 DEF OrderInv

\* No child is gained or lost, and no handshake moves.
LEMMA OrderFrame ==
    ASSUME OrderInv, SlotInv, UNCHANGED <<alive, pcb, processID>>, SameHands,
           orderly' => orderly /\ ~undefined',
           \A t \in alive, i \in Pid : Child(t, i)' <=> Child(t, i),
           orderly' => \A t \in alive :
              \/ at'[t] = at[t] /\ arg'[t] = arg[t] /\ kids'[t] = kids[t]
              \/ /\ at'[t] \in JoinLoc => arg'[t] \in kids'[t]
                 /\ at'[t] \in ExitLoc => kids'[t] = {}
                 /\ at[t] \in {"exitWait", "exitRemove"} => at'[t] \in {"exitWait", "exitRemove"}
    PROVE  OrderInv'
<1>1. orderly => \A t \in alive, i \in Pid : Child(t, i)' =>
         Child(t, i) /\ value'[exitsem(i)] = 0 /\ ~Left(i)'
  BY DEF OrderInv, SameHands, SameHand
<1> QED BY <1>1, OrderMove

-----------------------------------------------------------------------------
(* Slots are filled and freed.                                             *)

\* A free slot gets a new PCB.
LEMMA ExecNewPcbKeeps ==
    ASSUME TableInv, NEW me \in Thread, NEW i \in Pid, ExecNewPcb(me, i)
    PROVE  TableInv'
<1>1. /\ me \in alive /\ at[me] = "execLocked" /\ i \notin bm
      /\ bm' = bm \cup {i} /\ pcb' = [pcb EXCEPT ![i] = NewPcb(processID[me])]
      /\ value' = [s \in Semaphores |-> IF s \in PcbSem(i) THEN 0 ELSE value[s]]
      /\ Goto(me, "execForking", i)
      /\ UNCHANGED <<waiting, alive, born, processID, kids, orderly, undefined>>
  BY DEF ExecNewPcb, At, threads, history
<1>2. processID[me] \in Pid /\ \A t \in alive : t \in Thread /\ processID[t] \in Pid
  BY <1>1, OneThread
<1>3. \A t \in Thread, s \in Semaphores : Waits(t, s)' <=> Waits(t, s)
  BY <1>1 DEF Waits
<1>4. /\ value' \in [Semaphores -> Int]
      /\ value'[bmsem] = value[bmsem]
      /\ value'[joinsem(i)] = 0 /\ value'[exitsem(i)] = 0
      /\ \A j \in Pid \ {i} : /\ value'[joinsem(j)] = value[joinsem(j)]
                              /\ value'[exitsem(j)] = value[exitsem(j)]
  BY <1>1, SemNames DEF PcbSem, TableInv, Types
<1>5. /\ pcb' \in [Pid -> PcbState] /\ pcb'[i].state = "live"
      /\ pcb'[i].parentID = processID[me]
      /\ \A j \in Pid \ {i} : pcb'[j] = pcb[j]
  <2>1. /\ NewPcb(processID[me]) \in PcbState /\ NewPcb(processID[me]).state = "live"
        /\ NewPcb(processID[me]).parentID = processID[me]
    BY <1>2 DEF NewPcb, PcbState
  <2> QED BY <1>1, <2>1, PcbTypes, Zenon DEF TableInv
<1>6. /\ at'[me] = "execForking" /\ arg'[me] = i
      /\ \A t \in Thread \ {me} : at'[t] = at[t] /\ arg'[t] = arg[t]
      /\ at' \in [Thread -> AllLoc] /\ arg' \in [Thread -> Pid \cup {NoPid}]
      /\ \A t \in Thread : at'[t] \in WithArg => arg'[t] \in Pid
  BY <1>1, GotoEffect, Locations, Zenon DEF TableInv
<1>7. /\ "execForking" \in ExecLoc /\ "execLocked" \in ExecLoc
      /\ "execForking" \notin ExitLoc /\ "execForking" \notin JoinLoc
  BY Locations
<1>8. Types'
  BY <1>1, <1>4, <1>5, <1>6 DEF TableInv, Types
<1>9. LockInv'
  <2>1. \A t \in Thread : Locker(t)' => Locker(t)
    BY <1>1, <1>3, <1>6, <1>7, SemNames, Zenon DEF Locker
  <2> QED BY <1>4, <2>1, LockFrame, Zenon DEF TableInv
<1>10. i # 0 /\ \A t \in alive : processID[t] # i
  BY <1>1, Zenon DEF TableInv, SlotInv
<1>11. WaitInv'
  <2>1. \A t \in Thread : at[t] = "exitDec" => ParentOf(t)' = ParentOf(t)
    BY <1>1, <1>2, <1>5, <1>10 DEF TableInv, SlotInv, ParentOf
  <2>2. \A s \in Semaphores : ~Waits(me, s)
    BY Zenon DEF ExecNewPcb, At, Waits
  <2> QED BY <1>1, <1>3, <1>6, <2>1, <2>2, WaitFrame, Zenon DEF TableInv
<1>12. SlotInv'
  <2>1. /\ \A t \in Thread, j \in Pid : Filling(t, j)' <=> Filling(t, j) \/ (t = me /\ j = i)
        /\ \A t \in Thread : ~Filling(t, i)
    BY <1>1, <1>6, Zenon DEF Filling, TableInv, SlotInv
  <2>2. /\ Main \in alive' /\ processID'[Main] = 0 /\ pcb'[0].parentID = NoPid
        /\ \A t \in alive' : processID'[t] \in Pid
        /\ \A t, u \in alive' : processID'[t] = processID'[u] => t = u
    BY <1>1, <1>5, <1>10, Pids DEF TableInv, SlotInv
  <2>3. \A j \in Pid : j \in bm' <=> \/ \E t \in alive' : processID'[t] = j
                                     \/ \E t \in Thread : Filling(t, j)'
    <3> SUFFICES ASSUME NEW j \in Pid
                 PROVE  j \in bm' <=> \/ \E t \in alive' : processID'[t] = j
                                      \/ \E t \in Thread : Filling(t, j)'
      OBVIOUS
    <3>1. CASE j = i
      BY <1>1, <2>1, <3>1, Zenon
    <3>2. CASE j # i
      BY <1>1, <2>1, <3>2, Zenon DEF TableInv, SlotInv
    <3> QED BY <3>1, <3>2
  <2>4. \A t \in Thread, u \in alive' : ~Filling(t, processID[u])'
    BY <1>1, <1>10, <2>1, <2>2 DEF TableInv, SlotInv
  <2>5. /\ \A j \in Pid : j \in bm' <=> pcb'[j].state = "live"
        /\ \A j \in bm' \ {0} : pcb'[j].parentID \in Pid
    BY <1>1, <1>2, <1>5, SMTT(30) DEF TableInv, SlotInv, Types
  <2>6. \A t \in alive' \ {Main} : pcb'[processID'[t]].thread = t
    BY <1>1, <1>2, <1>5, <1>10, Zenon DEF TableInv, SlotInv
  <2>7. /\ \A t \in Thread \ alive' : at'[t] \in {"user", "exitRemove"}
        /\ \A t \in Thread \ born' : at'[t] = "user" /\ kids'[t] = {}
        /\ \A t \in Thread : at'[t] \in ExitLoc => processID'[t] # 0
    BY <1>1, <1>6, <1>7 DEF TableInv, SlotInv, Types
  <2> QED BY <2>2, <2>3, <2>4, <2>5, <2>6, <2>7, Zenon DEF SlotInv
<1>13. \A j \in Pid \ {i} : SameHand(j)
  <2> SUFFICES ASSUME NEW j \in Pid, j # i PROVE SameHand(j)
    OBVIOUS
  <2>1. {joinsem(j), exitsem(j)} \subseteq Semaphores
    BY SemNames
  <2> QED BY <1>1, <1>3, <1>4, <1>6, <2>1, HandSame, Zenon DEF TableInv
<1>14. ~Signed(i) /\ ~Left(i)' /\ \A t \in Thread : Told(t, i)' <=> Told(t, i)
  <2>1. ~Signed(i) /\ ~Left(i)'
    BY <1>1, <1>10, Zenon DEF Signed, Left
  <2>2. \A t \in Thread : Told(t, i)' <=> Told(t, i)
    BY <1>1, <1>3, <1>6, SemNames DEF Told
  <2> QED BY <2>1, <2>2, Zenon
<1>15. HandInv'
  BY <1>4, <1>13, <1>14, HandNone, Zenon DEF TableInv
<1>16. OrderInv'
  <2> SUFFICES ASSUME orderly PROVE OrderInv'
    BY <1>1, ZenonT(30) DEF OrderInv
  <2>1. \A t \in Thread, j \in Pid : Child(t, j)' <=> Child(t, j) \/ (t = me /\ j = i)
    BY <1>1, <1>6, Zenon DEF Child
  <2>2. \A t \in alive : ~Child(t, i)
    BY <1>1, SMTT(30) DEF TableInv, OrderInv, SlotInv
  <2>3. \A t \in alive, j \in Pid : Child(t, j)' =>
           /\ pcb'[j].state = "live" /\ pcb'[j].parentID = processID[t]
           /\ value'[exitsem(j)] = 0 /\ ~Left(j)'
    <3> SUFFICES ASSUME NEW t \in alive, NEW j \in Pid, Child(t, j)'
                 PROVE  /\ pcb'[j].state = "live" /\ pcb'[j].parentID = processID[t]
                        /\ value'[exitsem(j)] = 0 /\ ~Left(j)'
      BY Zenon
    <3>1. CASE j = i
      BY <1>2, <1>4, <1>5, <1>14, <2>1, <2>2, <3>1, Zenon
    <3>2. CASE j # i
      <4>1. /\ pcb[j].state = "live" /\ pcb[j].parentID = processID[t]
            /\ value[exitsem(j)] = 0 /\ ~Left(j)
        BY <1>2, <2>1, <3>2, ZenonT(30) DEF TableInv, OrderInv
      <4> QED BY <1>5, <1>13, <3>2, <4>1, Zenon DEF SameHand
    <3> QED BY <3>1, <3>2
  <2>4. \A t \in alive : /\ at'[t] \in JoinLoc => arg'[t] \in kids'[t]
                         /\ at'[t] \in ExitLoc => kids'[t] = {}
    BY <1>1, <1>2, <1>6, <1>7, ZenonT(30) DEF TableInv, OrderInv
  <2>5. \A t \in alive \ {Main} : at'[t] \notin {"exitWait", "exitRemove"} =>
           \E u \in alive : Child(u, processID[t])'
    <3> SUFFICES ASSUME NEW t \in alive \ {Main}, at'[t] \notin {"exitWait", "exitRemove"}
                 PROVE  \E u \in alive : Child(u, processID[t])'
      BY Zenon
    <3>1. at[t] \notin {"exitWait", "exitRemove"}
      BY <1>1, <1>2, <1>6, Zenon
    <3>2. PICK p \in Pid : p = processID[t] /\ p = processID'[t]
      BY <1>1, <1>2
    <3>3. PICK u \in alive : Child(u, p)
      BY <3>1, <3>2, HasParent, ZenonT(30)
    <3> QED BY <1>2, <2>1, <3>2, <3>3, Zenon
  <2>6. ~undefined'
    BY <1>1 DEF TableInv, OrderInv
  <2> QED BY <1>1, <2>3, <2>4, <2>5, <2>6 DEF OrderInv
<1> QED BY <1>8, <1>9, <1>11, <1>12, <1>15, <1>16 DEF TableInv

\* PCB::Exec creates the thread and forks it.
LEMMA ExecForkKeeps ==
    ASSUME TableInv, NEW me \in Thread, NEW n \in Thread, ExecFork(me, n)
    PROVE  TableInv'
<1>1. /\ me \in alive /\ at[me] = "execForking" /\ n \notin born
      /\ alive' = alive \cup {n} /\ born' = born \cup {n}
      /\ pcb' = [pcb EXCEPT ![arg[me]] = [state |-> @.state, parentID |-> processID[me],
                                          thread |-> n]]
      /\ processID' = [processID EXCEPT ![n] = arg[me]]
      /\ Goto(me, "execForked", arg[me])
      /\ UNCHANGED <<value, waiting, bm, kids, orderly, undefined>>
      /\ \A s \in Semaphores : ~Waits(me, s)
  BY Zenon DEF ExecFork, At, Waits, history
<1>2. /\ processID[me] \in Pid /\ n \notin alive
      /\ \A t \in alive : t \in Thread /\ t \in born /\ processID[t] \in Pid
  BY <1>1, OneThread DEF TableInv, Types
<1>3. PICK i \in Pid : i = arg[me]
  BY <1>1, OneThread, Locations
<1>4. \A t \in Thread, s \in Semaphores : Waits(t, s)' <=> Waits(t, s)
  BY <1>1, Zenon DEF Waits
<1>5. at[n] = "user" /\ kids[n] = {} /\ n # me /\ n # Main
  BY <1>1, <1>2, Zenon DEF TableInv, SlotInv
<1>6. /\ at'[me] = "execForked" /\ arg'[me] = i
      /\ \A t \in Thread \ {me} : at'[t] = at[t] /\ arg'[t] = arg[t]
      /\ at' \in [Thread -> AllLoc] /\ arg' \in [Thread -> Pid \cup {NoPid}]
      /\ \A t \in Thread : at'[t] \in WithArg => arg'[t] \in Pid
  <2>1. i \in Pid \cup {NoPid} /\ Goto(me, "execForked", i) /\ "execForked" \in AllLoc
    BY <1>1, <1>3, Locations
  <2> QED BY <2>1, GotoEffect DEF TableInv
<1>7. /\ pcb' \in [Pid -> PcbState] /\ pcb'[i].state = pcb[i].state
      /\ pcb'[i].thread = n /\ pcb'[i].parentID = processID[me]
      /\ \A j \in Pid \ {i} : pcb'[j] = pcb[j]
  <2> DEFINE new == [state |-> pcb[i].state, parentID |-> processID[me], thread |-> n]
  <2>1. pcb[i] \in PcbState
    BY DEF TableInv, Types
  <2>2. /\ new \in PcbState /\ new.state = pcb[i].state
        /\ new.thread = n /\ new.parentID = processID[me]
    BY <1>2, <2>1, Zenon DEF PcbState
  <2>3. pcb' = [pcb EXCEPT ![i] = new]
    BY <1>1, <1>3, Zenon DEF TableInv, Types
  <2> HIDE DEF new
  <2> QED BY <2>2, <2>3, PcbTypes, Zenon DEF TableInv
<1>8. /\ processID' \in [Thread -> Pid \cup {NoPid}] /\ processID'[n] = i
      /\ \A t \in Thread \ {n} : processID'[t] = processID[t]
  BY <1>1, <1>3 DEF TableInv, Types
<1>9. /\ {"execForking", "execForked"} \subseteq ExecLoc
      /\ "execForked" \notin ExitLoc /\ "execForked" \notin JoinLoc /\ "user" \notin ExitLoc
  BY Locations, Zenon
<1>10. Types'
  BY <1>1, <1>6, <1>7, <1>8, ZenonT(30) DEF TableInv, Types
<1>11. \A t \in Thread : Locker(t)' => Locker(t)
  BY <1>1, <1>4, <1>6, <1>9, SemNames DEF Locker
<1>12. LockInv'
  BY <1>1, <1>11, LockFrame DEF TableInv
<1>13. \A t \in Thread, j \in Pid : Filling(t, j) <=> t = me /\ j = i
  <2> SUFFICES ASSUME NEW t \in Thread, NEW j \in Pid, Filling(t, j) PROVE t = me
    BY <1>1, <1>3 DEF Filling
  <2>1. at[t] = "execForking"
    BY Zenon DEF Filling
  <2>2. ~Waits(t, bmsem)
    BY <2>1, SemNames DEF TableInv, WaitInv, Place
  <2>3. Locker(t) /\ Locker(me)
    BY <1>1, <1>9, <2>1, <2>2, SemNames, Zenon DEF Locker
  <2> QED BY <2>3 DEF TableInv, LockInv
<1>14. /\ \A t \in alive : processID[t] # i
       /\ i # 0 /\ i \in bm
  BY <1>2, <1>13, Zenon DEF TableInv, SlotInv
<1>15. WaitInv'
  <2>1. \A t \in Thread : at[t] = "exitDec" => ParentOf(t)' = ParentOf(t)
    BY <1>2, <1>5, <1>7, <1>8, <1>14, SMTT(30) DEF TableInv, SlotInv, ParentOf
  <2>2. \A s \in Semaphores : ~Waits(n, s)
    BY <1>5, Zenon DEF TableInv, WaitInv, Place
  <2>3. \A t \in Thread, s \in Semaphores : Waits(t, s)' =>
           /\ Waits(t, s)
           /\ at'[t] = at[t] /\ arg'[t] = arg[t] /\ processID'[t] = processID[t]
           /\ at[t] = "exitDec" => ParentOf(t)' = ParentOf(t)
    BY <1>1, <1>4, <1>6, <1>8, <2>1, <2>2, Zenon
  <2> QED BY <2>3, WaitFrame, Zenon DEF TableInv
<1>16. SlotInv'
  <2>1. \A t \in Thread, j \in Pid : ~Filling(t, j)'
    <3> SUFFICES ASSUME NEW t \in Thread, NEW j \in Pid, Filling(t, j)' PROVE FALSE
      OBVIOUS
    <3>1. CASE t = me
      BY <1>6, <3>1 DEF Filling
    <3>2. CASE t # me
      BY <1>6, <1>13, <3>2, Zenon DEF Filling
    <3> QED BY <3>1, <3>2
  <2>2. /\ Main \in alive' /\ processID'[Main] = 0 /\ pcb'[0].parentID = NoPid
    BY <1>1, <1>5, <1>7, <1>8, <1>14, ProcessAssumption, Pids, ZenonT(30) DEF TableInv, SlotInv
  <2>3. /\ \A t \in alive' : processID'[t] \in Pid
        /\ \A t, u \in alive' : processID'[t] = processID'[u] => t = u
    BY <1>1, <1>2, <1>8, <1>14 DEF TableInv, SlotInv
  <2>4. \A j \in Pid : j \in bm' <=> \/ \E t \in alive' : processID'[t] = j
                                     \/ \E t \in Thread : Filling(t, j)'
    <3> SUFFICES ASSUME NEW j \in Pid
                 PROVE  j \in bm <=> \E t \in alive' : processID'[t] = j
      BY <1>1, <2>1
    <3>1. CASE j = i
      BY <1>1, <1>8, <1>14, <3>1, Zenon
    <3>2. CASE j # i
      <4>1. j \in bm <=> \E t \in alive : processID[t] = j
        BY <1>13, <3>2 DEF TableInv, SlotInv
      <4>2. \A t \in alive : t # n /\ processID'[t] = processID[t]
        BY <1>2, <1>8
      <4> QED BY <1>1, <1>8, <3>2, <4>1, <4>2, Zenon
    <3> QED BY <3>1, <3>2
  <2>5. \A t \in Thread, u \in alive' : ~Filling(t, processID[u])'
    BY <2>1, <2>3, Zenon
  <2>6. /\ \A j \in Pid : j \in bm' <=> pcb'[j].state = "live"
        /\ \A j \in bm' \ {0} : pcb'[j].parentID \in Pid
    BY <1>1, <1>2, <1>7, SMTT(30) DEF TableInv, SlotInv, Types
  <2>7. \A t \in alive' \ {Main} : pcb'[processID'[t]].thread = t
    <3> SUFFICES ASSUME NEW t \in alive' \ {Main} PROVE pcb'[processID'[t]].thread = t
      OBVIOUS
    <3>1. CASE t = n
      BY <1>7, <1>8, <3>1, Zenon
    <3>2. CASE t # n
      <4>1. t \in alive \ {Main} /\ processID'[t] = processID[t] /\ processID[t] \in Pid \ {i}
        BY <1>1, <1>2, <1>8, <1>14, <3>2, Zenon
      <4> QED BY <1>7, <4>1, SMTT(30) DEF TableInv, SlotInv
    <3> QED BY <3>1, <3>2
  <2>8. /\ \A t \in Thread \ alive' : at'[t] \in {"user", "exitRemove"}
        /\ \A t \in Thread \ born' : at'[t] = "user" /\ kids'[t] = {}
        /\ \A t \in Thread : at'[t] \in ExitLoc => processID'[t] # 0
    BY <1>1, <1>2, <1>5, <1>6, <1>8, <1>9, SMTT(30) DEF TableInv, SlotInv
  <2> QED BY <2>2, <2>3, <2>4, <2>5, <2>6, <2>7, <2>8 DEF SlotInv
<1>17. SameHands
  <2> SUFFICES ASSUME NEW j \in Pid PROVE SameHand(j)
    BY DEF SameHands
  <2>1. joinsem(j) \in Semaphores /\ exitsem(j) \in Semaphores
    BY SemNames, Zenon
  <2>2. \A t \in Thread : Told(t, j)' <=> Told(t, j)
    BY <1>1, <1>4, <1>6, <2>1, Zenon DEF Told
  <2>3. \A t \in alive : t # n /\ processID'[t] = processID[t]
           /\ (at'[t] \in {"exitWait", "exitRemove"} <=> at[t] \in {"exitWait", "exitRemove"})
           /\ (at'[t] = "exitRemove" <=> at[t] = "exitRemove")
           /\ (Waits(t, exitsem(j))' <=> Waits(t, exitsem(j)))
    BY <1>1, <1>2, <1>4, <1>6, <1>8, <2>1, Zenon
  <2>4. at'[n] \notin {"exitWait", "exitRemove"}
    BY <1>5, <1>6
  <2>5. (Signed(j)' <=> Signed(j)) /\ (Left(j)' <=> Left(j))
    BY <1>1, <2>3, <2>4 DEF Signed, Left
  <2> QED BY <1>1, <2>2, <2>5 DEF SameHand
<1>18. HandInv'
  BY <1>17, HandFrame, Zenon DEF TableInv
<1>19. OrderInv'
  <2> SUFFICES ASSUME orderly PROVE OrderInv'
    BY <1>1, ZenonT(30) DEF OrderInv
  <2>1. /\ \A t \in Thread, j \in Pid : Child(t, j)' <=> Child(t, j)
        /\ \A j \in Pid : ~Child(n, j)
        /\ Child(me, i)
    BY <1>1, <1>3, <1>5, <1>6 DEF Child
  <2>2. \A t \in alive', j \in Pid : Child(t, j)' =>
           /\ pcb'[j].state = "live" /\ pcb'[j].parentID = processID'[t]
           /\ value'[exitsem(j)] = 0 /\ ~Left(j)'
    <3> SUFFICES ASSUME NEW t \in alive', NEW j \in Pid, Child(t, j)'
                 PROVE  /\ pcb'[j].state = "live" /\ pcb'[j].parentID = processID'[t]
                        /\ value'[exitsem(j)] = 0 /\ ~Left(j)'
      OBVIOUS
    <3>1. t \in alive /\ Child(t, j) /\ processID'[t] = processID[t]
      BY <1>1, <1>2, <1>8, <2>1, Zenon
    <3>2. /\ pcb[j].state = "live" /\ pcb[j].parentID = processID[t]
          /\ value[exitsem(j)] = 0 /\ ~Left(j)
          /\ pcb[i].parentID = processID[me]
      BY <1>1, <2>1, <3>1, Zenon DEF TableInv, OrderInv
    <3> QED BY <1>7, <1>17, <3>1, <3>2, ZenonT(30) DEF SameHands, SameHand
  <2>3. \A t \in alive' : /\ at'[t] \in JoinLoc => arg'[t] \in kids'[t]
                          /\ at'[t] \in ExitLoc => kids'[t] = {}
    <3> SUFFICES ASSUME NEW t \in alive', t \notin {n, me}
                 PROVE  /\ at'[t] \in JoinLoc => arg'[t] \in kids'[t]
                        /\ at'[t] \in ExitLoc => kids'[t] = {}
      BY <1>5, <1>6, Locations
    <3> QED BY <1>1, <1>2, <1>6, Zenon DEF TableInv, OrderInv
  <2>4. \A t \in alive' \ {Main} : at'[t] \notin {"exitWait", "exitRemove"} =>
           \E u \in alive' : Child(u, processID[t])'
    <3> SUFFICES ASSUME NEW t \in alive' \ {Main}, at'[t] \notin {"exitWait", "exitRemove"}
                 PROVE  \E u \in alive' : Child(u, processID[t])'
      OBVIOUS
    <3>1. CASE t = n
      <4>1. me \in alive' /\ Child(me, i)' /\ i = processID'[t]
        BY <1>1, <1>8, <2>1, <3>1
      <4> QED BY <4>1, Zenon
    <3>2. CASE t # n
      <4>1. /\ t \in alive \ {Main} /\ at[t] \notin {"exitWait", "exitRemove"}
            /\ processID'[t] = processID[t]
        BY <1>1, <1>2, <1>6, <1>8, <3>2, Zenon
      <4>2. PICK p \in Pid : p = processID[t] /\ p = processID'[t]
        BY <1>2, <4>1, Zenon
      <4>3. PICK u \in alive : Child(u, p)
        BY <4>1, <4>2, HasParent, Zenon
      <4>4. u \in alive' /\ Child(u, p)'
        BY <1>1, <1>2, <2>1, <4>3, Zenon
      <4> QED BY <4>2, <4>4, Zenon
    <3> QED BY <3>1, <3>2
  <2>5. ~undefined'
    BY <1>1 DEF TableInv, OrderInv
  <2> QED BY <2>2, <2>3, <2>4, <2>5 DEF OrderInv
<1> QED BY <1>10, <1>12, <1>15, <1>16, <1>18, <1>19, Zenon DEF TableInv

\* Remove(id): the process is gone and its slot is free.
LEMMA ExitRemoveKeeps ==
    ASSUME TableInv, NEW me \in Thread, ExitRemove(me)
    PROVE  TableInv'
<1>1. /\ me \in alive /\ at[me] = "exitRemove"
      /\ bm' = bm \ {processID[me]}
      /\ pcb' = [pcb EXCEPT ![processID[me]].state = "freed"]
      /\ alive' = alive \ {me}
      /\ UNCHANGED <<value, waiting, at, arg, born, processID, kids, orderly, undefined>>
      /\ \A s \in Semaphores : ~Waits(me, s)
  BY DEF ExitRemove, At, Waits, calls, history
<1>2. PICK i \in Pid : i = processID[me]
  BY <1>1, OneThread
<1>3. /\ i # 0 /\ me # Main /\ 0 \in Pid
      /\ \A t \in alive : t \in Thread /\ (processID[t] = i => t = me)
  BY <1>1, <1>2, OneThread, Locations, Pids
<1>4. \A t \in Thread, s \in Semaphores : Waits(t, s)' <=> Waits(t, s)
  BY <1>1 DEF Waits
<1>5. /\ pcb' \in [Pid -> PcbState] /\ pcb'[i].state = "freed"
      /\ pcb'[i].parentID = pcb[i].parentID
      /\ \A j \in Pid \ {i} : pcb'[j] = pcb[j]
  <2> DEFINE new == [pcb[i] EXCEPT !.state = "freed"]
  <2>1. pcb[i] \in PcbState
    BY DEF TableInv, Types
  <2>2. new \in PcbState /\ new.state = "freed" /\ new.parentID = pcb[i].parentID
    BY <2>1 DEF PcbState
  <2>3. pcb' = [pcb EXCEPT ![i] = new]
    BY <1>1, <1>2
  <2> HIDE DEF new
  <2> QED BY <2>2, <2>3, PcbTypes, Zenon DEF TableInv
<1>6. Left(i) /\ exitsem(i) \in Semaphores /\ joinsem(i) \in Semaphores
  BY <1>1, <1>2, SemNames DEF Left
<1>7. Types'
  BY <1>1, <1>5 DEF TableInv, Types
<1>8. LockInv'
  BY <1>1, <1>4, SemNames, LockFrame DEF TableInv, Locker
<1>9. WaitInv'
  <2>1. \A t \in Thread : at[t] = "exitDec" => ParentOf(t)' = ParentOf(t)
    BY <1>1, <1>5, Zenon DEF TableInv, SlotInv, ParentOf
  <2> QED BY <1>1, <1>4, <2>1, WaitFrame DEF TableInv
<1>10. SlotInv'
  <2>1. \A t \in Thread, j \in Pid : Filling(t, j)' <=> Filling(t, j)
    BY <1>1 DEF Filling
  <2>2. /\ Main \in alive' /\ processID'[Main] = 0 /\ pcb'[0].parentID = NoPid
        /\ \A t \in alive' : processID'[t] \in Pid
        /\ \A t, u \in alive' : processID'[t] = processID'[u] => t = u
    BY <1>1, <1>3, <1>5 DEF TableInv, SlotInv
  <2>3. \A j \in Pid : j \in bm' <=> \/ \E t \in alive' : processID'[t] = j
                                     \/ \E t \in Thread : Filling(t, j)'
    <3> SUFFICES ASSUME NEW j \in Pid
                 PROVE  j \in bm' <=> \/ \E t \in alive' : processID'[t] = j
                                      \/ \E t \in Thread : Filling(t, j)'
      OBVIOUS
    <3>1. CASE j = i
      BY <1>1, <1>2, <1>3, <2>1, <3>1 DEF TableInv, SlotInv
    <3>2. CASE j # i
      BY <1>1, <1>2, <2>1, <3>2 DEF TableInv, SlotInv
    <3> QED BY <3>1, <3>2
  <2>4. \A t \in Thread, u \in alive' : ~Filling(t, processID[u])'
    BY <1>1, <2>1, <2>2 DEF TableInv, SlotInv
  <2>5. /\ \A j \in Pid : j \in bm' <=> pcb'[j].state = "live"
        /\ \A j \in bm' \ {0} : pcb'[j].parentID \in Pid
    BY <1>1, <1>2, <1>5 DEF TableInv, SlotInv, Types
  <2>6. \A t \in alive' \ {Main} : pcb'[processID'[t]].thread = t
    BY <1>1, <1>3, <1>5, <2>2 DEF TableInv, SlotInv
  <2>7. /\ \A t \in Thread \ alive' : at'[t] \in {"user", "exitRemove"}
        /\ \A t \in Thread \ born' : at'[t] = "user" /\ kids'[t] = {}
        /\ \A t \in Thread : at'[t] \in ExitLoc => processID'[t] # 0
    BY <1>1 DEF TableInv, SlotInv
  <2> QED BY <2>2, <2>3, <2>4, <2>5, <2>6, <2>7 DEF SlotInv
<1>11. \A t \in Thread, j \in Pid : Told(t, j)' <=> Told(t, j)
  BY <1>1, <1>4, SemNames DEF Told
<1>12. \A j \in Pid \ {i} : SameHand(j)
  <2> SUFFICES ASSUME NEW j \in Pid, j # i PROVE SameHand(j)
    OBVIOUS
  <2>1. (Signed(j)' <=> Signed(j)) /\ (Left(j)' <=> Left(j))
    BY <1>1, <1>2, <1>3, <1>4, SemNames DEF Signed, Left
  <2> QED BY <1>1, <1>11, <2>1 DEF SameHand
<1>13. HandInv'
  BY <1>1, <1>6, <1>11, <1>12, HandNone, Zenon DEF TableInv
<1>14. OrderInv'
  <2> SUFFICES ASSUME orderly PROVE OrderInv'
    BY <1>1, Zenon DEF OrderInv
  <2>1. \A t \in Thread, j \in Pid : Child(t, j)' <=> Child(t, j)
    BY <1>1, Zenon DEF Child
  <2>2. \A t \in alive : ~Child(t, i)
    BY <1>6 DEF TableInv, OrderInv
  <2>3. \A j \in Pid : ~Child(me, j)
    BY <1>1, Locations DEF TableInv, OrderInv, Child
  <2>4. \A t \in alive', j \in Pid : Child(t, j)' =>
           /\ pcb'[j].state = "live" /\ pcb'[j].parentID = processID'[t]
           /\ value'[exitsem(j)] = 0 /\ ~Left(j)'
    <3> SUFFICES ASSUME NEW t \in alive, NEW j \in Pid, Child(t, j)
                 PROVE  /\ pcb'[j].state = "live" /\ pcb'[j].parentID = processID'[t]
                        /\ value'[exitsem(j)] = 0 /\ ~Left(j)'
      BY <1>1, <1>3, <2>1, Zenon
    <3>1. /\ pcb[j].state = "live" /\ pcb[j].parentID = processID[t]
          /\ value[exitsem(j)] = 0 /\ ~Left(j) /\ j # i
      BY <2>2 DEF TableInv, OrderInv
    <3> QED BY <1>1, <1>5, <1>12, <3>1, Zenon DEF SameHand
  <2>5. \A t \in alive' : /\ at'[t] \in JoinLoc => arg'[t] \in kids'[t]
                          /\ at'[t] \in ExitLoc => kids'[t] = {}
    BY <1>1 DEF TableInv, OrderInv
  <2>6. \A t \in alive' \ {Main} : at'[t] \notin {"exitWait", "exitRemove"} =>
           \E u \in alive' : Child(u, processID[t])'
    <3> SUFFICES ASSUME NEW t \in alive' \ {Main}, at'[t] \notin {"exitWait", "exitRemove"}
                 PROVE  \E u \in alive' : Child(u, processID[t])'
      OBVIOUS
    <3>1. PICK p \in Pid : p = processID[t] /\ p = processID'[t]
      BY <1>1, OneThread
    <3>2. PICK u \in alive : Child(u, p)
      BY <1>1, <3>1, HasParent
    <3>3. u \in alive' /\ Child(u, p)'
      BY <1>1, <1>3, <2>1, <2>3, <3>2
    <3> QED BY <3>1, <3>3, Zenon
  <2>7. ~undefined'
    BY <1>1 DEF TableInv, OrderInv
  <2> QED BY <2>4, <2>5, <2>6, <2>7 DEF OrderInv
<1> QED BY <1>7, <1>8, <1>9, <1>10, <1>13, <1>14 DEF TableInv

-----------------------------------------------------------------------------
(* The start.                                                              *)

\* The machine starts with the first program alone in slot 0.
LEMMA InitInv == Init => TableInv
<1> SUFFICES ASSUME Init PROVE TableInv
  OBVIOUS
<1>1. /\ value = InitialValue /\ waiting = [t \in Thread |-> {}]
      /\ alive = {Main} /\ born = {Main} /\ bm = {0}
      /\ pcb = [i \in Pid |-> IF i = 0 THEN NewPcb(NoPid) ELSE NullPcb]
      /\ processID = [t \in Thread |-> IF t = Main THEN 0 ELSE NoPid]
      /\ at = [t \in Thread |-> "user"] /\ arg = [t \in Thread |-> NoPid]
      /\ kids = [t \in Thread |-> {}]
      /\ orderly = TRUE /\ undefined = FALSE
  BY DEF Init
<1>2. Main \in Thread /\ 0 \in Pid /\ NoPid \notin Pid
  BY ProcessAssumption, Pids
<1>3. value \in [Semaphores -> {0, 1}] /\ value \in [Semaphores -> Int]
  BY <1>1 DEF InitialValue
<1>4. \A t \in Thread : /\ at[t] = "user" /\ kids[t] = {} /\ arg[t] = NoPid
                        /\ at[t] \notin WithArg \cup ExecLoc \cup JoinLoc \cup ExitLoc
                        /\ at[t] \in AllLoc
  BY <1>1, Locations
<1>5. /\ pcb \in [Pid -> PcbState] /\ pcb[0].state = "live" /\ pcb[0].parentID = NoPid
      /\ \A i \in Pid \ {0} : pcb[i].state # "live"
  <2>1. /\ NewPcb(NoPid) \in PcbState /\ NewPcb(NoPid).state = "live" /\ NewPcb(NoPid).parentID = NoPid
        /\ NullPcb \in PcbState /\ NullPcb.state = "null"
    BY DEF NewPcb, NullPcb, PcbState
  <2> QED BY <1>1, <1>2, <2>1
<1>6. Types
  BY <1>1, <1>2, <1>3, <1>4, <1>5, ZenonT(30) DEF Types
<1>7. LockInv
  BY <1>3, <1>4, SemNames DEF LockInv, Locker
<1>8. WaitInv
  BY <1>1, Zenon DEF WaitInv, Waits
<1>9. SlotInv
  <2>1. \A t \in Thread, i \in Pid : ~Filling(t, i)
    BY <1>4, Zenon DEF Filling
  <2> QED BY <1>1, <1>2, <1>4, <1>5, <2>1, ZenonT(30) DEF SlotInv
<1>10. HandInv
  <2>1. \A i \in Pid : value[joinsem(i)] = 0 /\ value[exitsem(i)] = 0
    <3> SUFFICES ASSUME NEW i \in Pid PROVE value[joinsem(i)] = 0 /\ value[exitsem(i)] = 0
      OBVIOUS
    <3>1. /\ {joinsem(i), exitsem(i)} \subseteq Semaphores
          /\ bmsem \notin {joinsem(i), exitsem(i)} /\ multex(0) \notin {joinsem(i), exitsem(i)}
      BY SemNames, Zenon
    <3> QED BY <1>1, <3>1 DEF InitialValue
  <2> QED BY <1>4, <2>1 DEF HandInv, Told
<1>11. OrderInv
  <2>1. \A t \in Thread, i \in Pid : ~Child(t, i)
    BY <1>4 DEF Child
  <2> QED BY <1>1, <1>2, <1>4, <2>1 DEF OrderInv
<1> QED BY <1>6, <1>7, <1>8, <1>9, <1>10, <1>11 DEF TableInv

=============================================================================
