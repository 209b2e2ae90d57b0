-------------------------- MODULE ProcessesProofs ---------------------------
(***************************************************************************)
(* The invariant of Processes: the steps of Exec, Exit and Join that leave *)
(* the slots alone, and the theorem.                                       *)
(***************************************************************************)
EXTENDS ProcessesInv

-----------------------------------------------------------------------------
(* Moves of one thread.                                                    *)

\* A move of thread me with P or V of s, and nothing that fills or frees a slot.
Move(me, loc, x, s, k) ==
    /\ me \in alive /\ waiting[me] = {}
    /\ Goto(me, loc, x) /\ kids' = [kids EXCEPT ![me] = k]
    /\ UNCHANGED <<alive, born, bm, pcb, processID, undefined>>
    /\ V(s) \/ (P(me, s) /\ Place(me, s)')
    /\ orderly' \in BOOLEAN /\ (orderly' => orderly)

\* Such a move keeps the types, where waiting threads are, the slots, and the lock.
LEMMA MoveBase ==
    ASSUME TableInv, NEW me \in Thread, NEW loc \in AllLoc, NEW x \in Pid \cup {NoPid},
           NEW s \in Semaphores, NEW k \in SUBSET Pid, Move(me, loc, x, s, k),
           loc \in WithArg => x \in Pid, at[me] # "execForking", loc # "execForking",
           loc \in ExitLoc => processID[me] # 0
    PROVE  /\ Types' /\ WaitInv' /\ SlotInv'
           /\ s # bmsem /\ (loc \in ExecLoc => at[me] \in ExecLoc) => LockInv'
           /\ at'[me] = loc /\ arg'[me] = x /\ kids'[me] = k
           /\ OthersStay(me)
<1>1. /\ me \in alive /\ waiting[me] = {} /\ Goto(me, loc, x) /\ kids' = [kids EXCEPT ![me] = k]
      /\ UNCHANGED <<alive, born, bm, pcb, processID, undefined>>
      /\ V(s) \/ (P(me, s) /\ Place(me, s)')
      /\ orderly' \in BOOLEAN
  BY DEF Move
<1>2. /\ at'[me] = loc /\ arg'[me] = x
      /\ \A t \in Thread \ {me} : at'[t] = at[t] /\ arg'[t] = arg[t]
      /\ at' \in [Thread -> AllLoc] /\ arg' \in [Thread -> Pid \cup {NoPid}]
      /\ \A t \in Thread : at'[t] \in WithArg => arg'[t] \in Pid
  BY <1>1, GotoEffect DEF TableInv
<1>3. /\ kids' \in [Thread -> SUBSET Pid] /\ kids'[me] = k
      /\ \A t \in Thread \ {me} : kids'[t] = kids[t]
  BY <1>1 DEF TableInv, Types
<1>4. /\ value' \in [Semaphores -> Int] /\ waiting' \in [Thread -> SUBSET Semaphores]
      /\ \A y \in Semaphores \ {s} : value'[y] = value[y]
      /\ \A y \in Semaphores, t \in Thread \ {me} : Waits(t, y)' <=> Waits(t, y)
      /\ \A y \in Semaphores \ {s} : ~Waits(me, y)'
      /\ V(s) => ~Waits(me, s)'
      /\ \A y \in Semaphores : ~Waits(me, y)
  BY <1>1, CallEffect DEF TableInv, Waits
<1>5. Types'
  BY <1>1, <1>2, <1>3, <1>4 DEF TableInv, Types
<1>6. WaitInv'
  <2>1. \A t \in Thread : ParentOf(t)' = ParentOf(t)
    BY <1>1, Zenon DEF ParentOf
  <2>2. ASSUME NEW t \in Thread, NEW y \in Semaphores, Waits(t, y)'
        PROVE  \/ Place(t, y)'
               \/ /\ Waits(t, y)
                  /\ at'[t] = at[t] /\ arg'[t] = arg[t] /\ processID'[t] = processID[t]
                  /\ at[t] = "exitDec" => ParentOf(t)' = ParentOf(t)
    BY <1>1, <1>2, <1>4, <2>1, <2>2, Zenon
  <2> QED BY <2>2, WaitFrame DEF TableInv
<1>7. SlotInv'
  BY <1>1, <1>2, <1>3, SlotFrame, Zenon DEF TableInv
<1>8. ASSUME s # bmsem, loc \in ExecLoc => at[me] \in ExecLoc PROVE LockInv'
  <2>1. \A t \in Thread : Locker(t)' => Locker(t)
    BY <1>2, <1>4, <1>8, SemNames DEF Locker
  <2> QED BY <1>4, <1>8, <2>1, SemNames, LockFrame, Zenon DEF TableInv
<1> QED BY <1>2, <1>3, <1>5, <1>6, <1>7, <1>8 DEF OthersStay

-----------------------------------------------------------------------------
(* The steps of Exec, and the ones on multex.                              *)

\* Where the moves go that are no part of the handshake.
PlainLoc == AllLoc \ {"execForking", "joinRelease", "exitWait", "exitRemove"}

\* Such a move, with P or V of bmsem or of a multex.
LEMMA SideMove ==
    ASSUME TableInv, NEW me \in Thread, NEW loc \in PlainLoc, NEW x \in Pid \cup {NoPid},
           NEW s \in Semaphores, \A i : s \notin {joinsem(i), exitsem(i)},
           NEW k \in SUBSET Pid, Move(me, loc, x, s, k),
           loc \in WithArg => x \in Pid, at[me] \in PlainLoc,
           \A i \in Pid : Child(me, i)' <=> Child(me, i),
           loc \in ExitLoc => processID[me] # 0,
           orderly' /\ loc \in JoinLoc => x \in k,
           orderly' /\ loc \in ExitLoc => k = {}
    PROVE  /\ Types' /\ WaitInv' /\ SlotInv' /\ HandInv' /\ OrderInv'
           /\ s # bmsem /\ (loc \in ExecLoc => at[me] \in ExecLoc) => LockInv'
<1>1. /\ me \in alive /\ waiting[me] = {} /\ (V(s) \/ P(me, s))
      /\ UNCHANGED <<alive, pcb, processID, undefined>>
      /\ orderly' => orderly
  BY DEF Move
<1>2. /\ loc \in AllLoc
      /\ {at[me], loc} \cap {"execForking", "joinRelease", "exitWait", "exitRemove"} = {}
  BY DEF PlainLoc
<1>3. /\ Types' /\ WaitInv' /\ SlotInv'
      /\ s # bmsem /\ (loc \in ExecLoc => at[me] \in ExecLoc) => LockInv'
      /\ at'[me] = loc /\ arg'[me] = x /\ kids'[me] = k
      /\ OthersStay(me)
  BY <1>2, MoveBase, Zenon
<1>4. /\ \A y \in Semaphores \ {s} : value'[y] = value[y]
      /\ \A y \in Semaphores \ {s}, t \in Thread : Waits(t, y)' <=> Waits(t, y)
  BY <1>1, CallEffect DEF TableInv
<1>5. \A i \in Pid : joinsem(i) \in Semaphores \ {s} /\ exitsem(i) \in Semaphores \ {s}
  BY SemNames
<1>6. SameHands
  BY <1>1, <1>2, <1>3, <1>4, <1>5, HandSame, ZenonT(30) DEF SameHands, OthersStay, TableInv
<1>7. HandInv'
  BY <1>6, HandFrame DEF TableInv
<1>8. OrderInv'
  <2>1. \A t \in alive : t \in Thread
    BY DEF TableInv, Types
  <2>2. \A t \in alive, i \in Pid : Child(t, i)' <=> Child(t, i)
    BY <1>3, <2>1 DEF Child, OthersStay
  <2>3. orderly' => \A t \in alive :
           \/ at'[t] = at[t] /\ arg'[t] = arg[t] /\ kids'[t] = kids[t]
           \/ /\ at'[t] \in JoinLoc => arg'[t] \in kids'[t]
              /\ at'[t] \in ExitLoc => kids'[t] = {}
              /\ at[t] \in {"exitWait", "exitRemove"} => at'[t] \in {"exitWait", "exitRemove"}
    BY <1>2, <1>3, <2>1, ZenonT(30) DEF OthersStay
  <2>4. orderly' => orderly /\ ~undefined'
    BY <1>1 DEF TableInv, OrderInv
  <2> QED BY <1>1, <1>6, <2>2, <2>3, <2>4, OrderFrame DEF TableInv
<1> QED BY <1>3, <1>7, <1>8

\* ExecUpdate up to bmsem->P().
LEMMA ExecCallKeeps ==
    ASSUME TableInv, NEW me \in Thread, ExecCall(me)
    PROVE  TableInv'
<1>1. /\ me \in alive /\ waiting[me] = {} /\ at[me] = "user" /\ P(me, bmsem)
      /\ Goto(me, "execLocked", NoPid)
      /\ UNCHANGED <<alive, born, bm, pcb, processID, kids, orderly, undefined>>
  BY DEF ExecCall, At, threads, table, history
<1>2. bmsem \in Semaphores /\ \A i : bmsem \notin {joinsem(i), exitsem(i)}
  BY SemNames
<1>3. /\ "execLocked" \in PlainLoc /\ "execLocked" \notin WithArg \cup JoinLoc \cup ExitLoc
      /\ at[me] \in PlainLoc /\ NoPid \in Pid \cup {NoPid} /\ "execLocked" \in AllLoc
      /\ "user" \notin ExecLoc
  BY <1>1, Locations DEF PlainLoc
<1>4. /\ at'[me] = "execLocked"
      /\ \A t \in Thread \ {me} : at'[t] = at[t]
  BY <1>1, <1>3, GotoEffect DEF TableInv
<1>5. /\ kids[me] \in SUBSET Pid /\ kids' = [kids EXCEPT ![me] = kids[me]]
      /\ orderly' \in BOOLEAN
  BY <1>1 DEF TableInv, Types
<1>6. Move(me, "execLocked", NoPid, bmsem, kids[me])
  BY <1>1, <1>4, <1>5, Zenon DEF Move, Place
<1>7. \A i \in Pid : Child(me, i)' <=> Child(me, i)
  BY <1>1, <1>4 DEF Child
<1>8. Types' /\ WaitInv' /\ SlotInv' /\ HandInv' /\ OrderInv'
  BY <1>2, <1>3, <1>5, <1>6, <1>7, SideMove, Zenon
<1>9. /\ \A t \in Thread \ {me} : Waits(t, bmsem)' <=> Waits(t, bmsem)
      /\ \/ value'[bmsem] = value[bmsem] /\ Waits(me, bmsem)'
         \/ value[bmsem] # 0 /\ value'[bmsem] = value[bmsem] - 1
  BY <1>1, <1>2, CallEffect DEF TableInv, P
<1>10. LockInv'
  <2>1. \A t \in Thread \ {me} : Locker(t)' => Locker(t)
    BY <1>4, <1>9 DEF Locker
  <2>2. CASE value'[bmsem] = value[bmsem] /\ Waits(me, bmsem)'
    <3>1. \A t \in Thread : Locker(t)' => Locker(t)
      BY <2>1, <2>2 DEF Locker
    <3> QED BY <2>2, <3>1, LockFrame DEF TableInv
  <2>3. CASE value[bmsem] # 0 /\ value'[bmsem] = value[bmsem] - 1
    BY <2>1, <2>3 DEF TableInv, LockInv
  <2> QED BY <1>9, <2>2, <2>3
<1> QED BY <1>8, <1>10 DEF TableInv

\* bmsem->V(): ExecUpdate is left, with the id of a new child or without.
LEMMA ExecLeaveKeeps ==
    ASSUME TableInv, NEW me \in Thread, ExecRefused(me) \/ ExecReturn(me)
    PROVE  TableInv'
<1> DEFINE k == IF at[me] = "execLocked" THEN kids[me] ELSE kids[me] \cup {arg[me]}
<1>1. /\ me \in alive /\ waiting[me] = {} /\ at[me] \in {"execLocked", "execUnlock"}
      /\ V(bmsem) /\ Goto(me, "user", NoPid)
      /\ kids' = IF at[me] = "execLocked" THEN kids ELSE [kids EXCEPT ![me] = @ \cup {arg[me]}]
      /\ UNCHANGED <<alive, born, bm, pcb, processID, orderly, undefined>>
  BY DEF ExecRefused, ExecReturn, At, threads, table, history
<1>2. bmsem \in Semaphores /\ \A i : bmsem \notin {joinsem(i), exitsem(i)}
  BY SemNames
<1>3. /\ "user" \in PlainLoc /\ "user" \notin WithArg \cup JoinLoc \cup ExitLoc \cup ExecLoc
      /\ at[me] \in PlainLoc /\ at[me] \in ExecLoc /\ NoPid \in Pid \cup {NoPid} /\ "user" \in AllLoc
  BY <1>1, Locations DEF PlainLoc
<1>4. /\ at'[me] = "user" /\ \A t \in Thread \ {me} : at'[t] = at[t]
  BY <1>1, <1>3, GotoEffect DEF TableInv
<1>5. /\ k \in SUBSET Pid /\ kids' = [kids EXCEPT ![me] = k] /\ kids'[me] = k
      /\ orderly' \in BOOLEAN
  BY <1>1, Locations, Zenon DEF TableInv, Types
<1>6. \A i \in Pid : Child(me, i)' <=> Child(me, i)
  BY <1>1, <1>4, <1>5 DEF Child
<1> HIDE DEF k
<1>7. Move(me, "user", NoPid, bmsem, k)
  BY <1>1, <1>5, Zenon DEF Move
<1>8. Types' /\ WaitInv' /\ SlotInv' /\ HandInv' /\ OrderInv'
  BY <1>2, <1>3, <1>5, <1>6, <1>7, SideMove, Zenon
<1>9. /\ \A t \in Thread : Waits(t, bmsem)' <=> Waits(t, bmsem)
      /\ value'[bmsem] = value[bmsem] + 1 /\ Locker(me)
  BY <1>1, <1>2, <1>3, CallEffect, Zenon DEF TableInv, Waits, Locker
<1>10. LockInv'
  <2>1. \A t \in Thread : ~Locker(t)'
    BY <1>3, <1>4, <1>9, Zenon DEF Locker, TableInv, LockInv
  <2> QED BY <1>9, <2>1, SMTT(30) DEF TableInv, LockInv
<1> QED BY <1>8, <1>10 DEF TableInv

\* The moves with P or V of a multex, of slot i.
LEMMA MultexMove ==
    ASSUME TableInv, NEW me \in Thread, NEW i \in Pid,
           NEW loc \in {"execUnlock", "exitDec", "exitRelease", "joinInc", "joinWait"},
           NEW x \in Pid \cup {NoPid}, loc \notin {"exitDec", "exitRelease"} => x \in Pid,
           Move(me, loc, x, multex(i), kids[me]),
           loc = "execUnlock" => at[me] = "execForked" /\ arg[me] = x,
           loc = "joinWait" => at[me] = "joinInc" /\ arg[me] = x,
           loc = "exitRelease" => at[me] = "exitDec",
           loc \in {"exitDec", "joinInc"} => at[me] = "user",
           loc = "exitDec" => processID[me] # 0,
           orderly' /\ loc = "joinInc" => x \in kids[me],
           orderly' /\ loc = "exitDec" => kids[me] = {}
    PROVE  TableInv'
<1>1. /\ me \in alive /\ Goto(me, loc, x) /\ (orderly' => orderly)
      /\ kids' = [kids EXCEPT ![me] = kids[me]]
  BY DEF Move
<1>2. PICK s \in Semaphores : s = multex(i)
  BY SemNames, Zenon
<1>3. s # bmsem /\ \A j : s \notin {joinsem(j), exitsem(j)}
  BY <1>2, SemNames
<1>4. /\ loc \in PlainLoc /\ loc \in AllLoc /\ at[me] \in PlainLoc
      /\ loc \in WithArg => x \in Pid
      /\ loc \in ExecLoc => loc = "execUnlock" /\ at[me] \in ExecLoc
      /\ loc \in ExitLoc => loc \in {"exitDec", "exitRelease"}
      /\ loc \in JoinLoc => loc \in {"joinInc", "joinWait"}
  BY Locations, Zenon DEF PlainLoc
<1>5. /\ at'[me] = loc /\ arg'[me] = x /\ kids'[me] = kids[me] /\ kids[me] \in SUBSET Pid
  BY <1>1, <1>4, GotoEffect, Zenon DEF TableInv, Types
<1>6. \A j \in Pid : Child(me, j)' <=> Child(me, j)
  BY <1>5 DEF Child
<1>7. loc \in ExitLoc => processID[me] # 0
  BY <1>1, <1>4, OneThread, Locations, Zenon
<1>8. /\ orderly' /\ loc \in JoinLoc => x \in kids[me]
      /\ orderly' /\ loc \in ExitLoc => kids[me] = {}
  BY <1>1, <1>4, Locations, Zenon DEF TableInv, OrderInv
<1>9. Move(me, loc, x, s, kids[me])
  BY <1>2
<1> QED BY <1>3, <1>4, <1>5, <1>6, <1>7, <1>8, <1>9, SideMove DEF TableInv

\* Exec's V of the multex of the new PCB, and DecNumWait and IncNumWait.
LEMMA MultexKeeps ==
    ASSUME TableInv, NEW me \in Thread,
           \/ ExecMultexV(me) \/ ExitCall(me) \/ ExitDec(me) \/ JoinInc(me)
           \/ \E id \in Pid : JoinCall(me, id)
    PROVE  TableInv'
<1>1. /\ me \in alive /\ waiting[me] = {}
      /\ UNCHANGED <<alive, born, bm, pcb, processID, kids, undefined>>
  BY DEF ExecMultexV, ExitCall, ExitDec, JoinInc, JoinCall, At, threads, table, history
<1>2. /\ kids' = [kids EXCEPT ![me] = kids[me]] /\ processID[me] \in Pid
      /\ orderly \in BOOLEAN /\ (at[me] \in WithArg => arg[me] \in Pid)
  BY <1>1, OneThread, Zenon DEF TableInv, Types
<1>3. CASE ExecMultexV(me)
  <2>1. /\ at[me] = "execForked" /\ V(multex(arg[me])) /\ Goto(me, "execUnlock", arg[me])
        /\ UNCHANGED orderly /\ arg[me] \in Pid
    BY <1>2, <1>3, Locations DEF ExecMultexV, At, history
  <2>2. Move(me, "execUnlock", arg[me], multex(arg[me]), kids[me])
    BY <1>1, <1>2, <2>1, Zenon DEF Move
  <2> QED BY <2>1, <2>2, MultexMove
<1>4. CASE JoinInc(me)
  <2>1. /\ at[me] = "joinInc" /\ V(multex(processID[me])) /\ Goto(me, "joinWait", arg[me])
        /\ UNCHANGED orderly /\ arg[me] \in Pid
    BY <1>2, <1>4, Locations DEF JoinInc, At, history
  <2>2. Move(me, "joinWait", arg[me], multex(processID[me]), kids[me])
    BY <1>1, <1>2, <2>1, ZenonT(30) DEF Move
  <2> QED BY <1>2, <2>1, <2>2, MultexMove
<1>5. CASE ExitDec(me)
  <2>1. /\ at[me] = "exitDec" /\ V(multex(ParentOf(me))) /\ Goto(me, "exitRelease", NoPid)
        /\ UNCHANGED orderly /\ ParentOf(me) \in Pid
    BY <1>1, <1>5, OneThread, Locations DEF ExitDec, At, history
  <2>2. Move(me, "exitRelease", NoPid, multex(ParentOf(me)), kids[me])
    BY <1>1, <1>2, <2>1, Zenon DEF Move
  <2> QED BY <2>1, <2>2, MultexMove, Zenon
<1>6. CASE ExitCall(me)
  <2>1. /\ at[me] = "user" /\ P(me, multex(ParentOf(me))) /\ Goto(me, "exitDec", NoPid)
        /\ orderly' = (orderly /\ kids[me] = {}) /\ processID[me] # 0 /\ ParentOf(me) \in Pid
    BY <1>1, <1>6, OneThread, Zenon DEF ExitCall, At
  <2>2. at'[me] = "exitDec" /\ ParentOf(me)' = ParentOf(me)
    BY <1>1, <2>1, GotoEffect, Locations DEF TableInv, ParentOf
  <2>3. Move(me, "exitDec", NoPid, multex(ParentOf(me)), kids[me])
    BY <1>1, <1>2, <2>1, <2>2, Zenon DEF Move, Place
  <2> QED BY <2>1, <2>3, MultexMove, ZenonT(30)
<1>7. ASSUME NEW id \in Pid, JoinCall(me, id) PROVE TableInv'
  <2>1. /\ at[me] = "user" /\ P(me, multex(processID[me])) /\ Goto(me, "joinInc", id)
        /\ orderly' = (orderly /\ id \in kids[me])
    BY <1>7, Zenon DEF JoinCall, At
  <2>2. at'[me] = "joinInc"
    BY <2>1, GotoEffect, Locations, Zenon DEF TableInv
  <2>3. Move(me, "joinInc", id, multex(processID[me]), kids[me])
    BY <1>1, <1>2, <2>1, <2>2, Zenon DEF Move, Place
  <2> QED BY <1>2, <2>1, <2>3, MultexMove, ZenonT(30)
<1> QED BY <1>3, <1>4, <1>5, <1>6, <1>7, Zenon

-----------------------------------------------------------------------------
(* The handshake of Exit and Join.                                         *)

\* JoinRelease makes the token: joinsem->V() of process i.
LEMMA HandRelease ==
    ASSUME HandInv, NEW i \in Pid, ~Signed(i), \A j \in Pid \ {i} : SameHand(j),
           value'[joinsem(i)] = value[joinsem(i)] + 1, value'[exitsem(i)] = value[exitsem(i)],
           \A t \in Thread : Told(t, i)' <=> Told(t, i), Signed(i)', ~Left(i)'
    PROVE  HandInv'
<1>1. /\ value[joinsem(i)] = 0 /\ value[exitsem(i)] = 0
      /\ \A t \in Thread : ~Told(t, i)
  BY Zenon DEF HandInv
<1> QED BY <1>1, SMTT(30) DEF HandInv, SameHand

\* JoinWait of a thread in Join takes it.
LEMMA HandTold ==
    ASSUME HandInv, NEW i \in Pid, NEW me \in Thread, \A j \in Pid \ {i} : SameHand(j),
           value[joinsem(i)] # 0, value'[joinsem(i)] = value[joinsem(i)] - 1,
           value'[exitsem(i)] = value[exitsem(i)],
           \A t \in Thread : Told(t, i)' <=> t = me \/ Told(t, i),
           Signed(i)' <=> Signed(i), Left(i)' <=> Left(i)
    PROVE  HandInv'
<1>1. /\ value[joinsem(i)] = 1 /\ value[exitsem(i)] = 0 /\ Signed(i) /\ ~Left(i)
      /\ \A t \in Thread : ~Told(t, i)
  BY Zenon DEF HandInv
<1> QED BY <1>1, SMTT(30) DEF HandInv, SameHand

\* ExitRelease of that thread passes it on.
LEMMA HandReturn ==
    ASSUME HandInv, NEW i \in Pid, NEW me \in Thread, \A j \in Pid \ {i} : SameHand(j),
           Told(me, i), value'[joinsem(i)] = value[joinsem(i)],
           value'[exitsem(i)] = value[exitsem(i)] + 1,
           \A t \in Thread : Told(t, i)' <=> t # me /\ Told(t, i),
           Signed(i)' <=> Signed(i), Left(i)' <=> Left(i)
    PROVE  HandInv' /\ Signed(i)
<1>1. /\ value[joinsem(i)] = 0 /\ value[exitsem(i)] = 0 /\ Signed(i) /\ ~Left(i)
      /\ \A t \in Thread : Told(t, i) => t = me
  BY Zenon DEF HandInv
<1> QED BY <1>1, SMTT(30) DEF HandInv, SameHand

\* The process leaves ExitWait with it.
LEMMA HandLeave ==
    ASSUME HandInv, NEW i \in Pid, \A j \in Pid \ {i} : SameHand(j),
           value[exitsem(i)] # 0, value'[exitsem(i)] = value[exitsem(i)] - 1,
           value'[joinsem(i)] = value[joinsem(i)],
           \A t \in Thread : Told(t, i)' <=> Told(t, i)
    PROVE  HandInv'
<1>1. /\ value[exitsem(i)] = 1 /\ value[joinsem(i)] = 0
      /\ \A t \in Thread : ~Told(t, i)
  BY Zenon DEF HandInv
<1> QED BY <1>1, SMTT(30) DEF HandInv, SameHand

\* The children of orderly programs do not see a step in the handshake of process i.
LEMMA ChildSame ==
    ASSUME TableInv, orderly, NEW i \in Pid, \A j \in Pid \ {i} : SameHand(j),
           NEW t \in alive, NEW j \in Pid, Child(t, j)
    PROVE  /\ j # i => value'[exitsem(j)] = 0 /\ ~Left(j)'
           /\ value'[exitsem(i)] = value[exitsem(i)] /\ (Left(i)' => Left(i)) =>
                 value'[exitsem(j)] = 0 /\ ~Left(j)'
<1>1. value[exitsem(j)] = 0 /\ ~Left(j)
  BY Zenon DEF TableInv, OrderInv
<1> QED BY <1>1, Zenon DEF SameHand

\* A move of thread me with P or V of joinsem or exitsem of process i, as in Join
\* of i and in Exit of i; and what it leaves alone.
TokenMove(me, i, s, loc, x, k) ==
    /\ s \in {joinsem(i), exitsem(i)}
    /\ loc \in AllLoc \ ExecLoc /\ at[me] \in AllLoc \ ExecLoc
    /\ x \in Pid \cup {NoPid} /\ k \in SUBSET Pid
    /\ Move(me, loc, x, s, k)
    /\ loc \in WithArg => x \in Pid
    /\ loc \in ExitLoc => processID[me] # 0
    /\ at[me] = "joinRelease" => arg[me] = i
    /\ loc = "joinRelease" => x = i
    /\ at[me] \in {"exitWait", "exitRemove"} => processID[me] = i
    /\ loc \in {"exitWait", "exitRemove"} => processID[me] = i

TokenFrame(me, i, s) ==
    /\ OthersStay(me)
    /\ \A y \in Semaphores \ {s} : value'[y] = value[y]
    /\ \A y \in Semaphores \ {s}, t \in Thread : Waits(t, y)' <=> Waits(t, y)
    /\ \A j \in Pid \ {i} : SameHand(j)

\* Such a move leaves the handshakes of the other processes alone.
LEMMA TokenBase ==
    ASSUME TableInv, NEW me \in Thread, NEW i \in Pid, NEW s, NEW loc, NEW x, NEW k,
           TokenMove(me, i, s, loc, x, k)
    PROVE  /\ Types' /\ WaitInv' /\ SlotInv' /\ LockInv'
           /\ at'[me] = loc /\ arg'[me] = x /\ kids'[me] = k
           /\ TokenFrame(me, i, s)
<1>1. /\ UNCHANGED <<alive, processID>> /\ waiting[me] = {} /\ (V(s) \/ P(me, s))
  BY Zenon DEF Move, TokenMove
<1>2. s \in Semaphores /\ s # bmsem
  BY SemNames, ZenonT(30) DEF TokenMove
<1>3. /\ at[me] # "execForking" /\ loc # "execForking" /\ loc \in AllLoc /\ loc \notin ExecLoc
      /\ x \in Pid \cup {NoPid} /\ k \in SUBSET Pid /\ Move(me, loc, x, s, k)
      /\ loc \in WithArg => x \in Pid
      /\ loc \in ExitLoc => processID[me] # 0
  BY Locations, Zenon DEF TokenMove
<1>4. /\ Types' /\ WaitInv' /\ SlotInv' /\ LockInv'
      /\ at'[me] = loc /\ arg'[me] = x /\ kids'[me] = k
      /\ OthersStay(me)
  BY <1>2, <1>3, MoveBase, SMTT(30)
<1>5. /\ \A y \in Semaphores \ {s} : value'[y] = value[y]
      /\ \A y \in Semaphores \ {s}, t \in Thread : Waits(t, y)' <=> Waits(t, y)
  BY <1>1, <1>2, CallEffect DEF TableInv
<1>6. \A j \in Pid \ {i} : joinsem(j) \in Semaphores \ {s} /\ exitsem(j) \in Semaphores \ {s}
  BY SemNames, Zenon DEF TokenMove
<1>7. \A j \in Pid \ {i} : SameHand(j)
  <2> SUFFICES ASSUME NEW j \in Pid, j # i PROVE SameHand(j)
    BY Zenon
  <2>1. \A t \in Thread :
           \/ at'[t] = at[t] /\ arg'[t] = arg[t]
           \/ /\ at[t] = "joinRelease" => arg[t] # j
              /\ at'[t] = "joinRelease" => arg'[t] # j
              /\ at[t] \in {"exitWait", "exitRemove"} => processID[t] # j
              /\ at'[t] \in {"exitWait", "exitRemove"} => processID[t] # j
    BY <1>4, SMTT(30) DEF OthersStay, TokenMove
  <2>2. /\ value'[joinsem(j)] = value[joinsem(j)] /\ value'[exitsem(j)] = value[exitsem(j)]
        /\ \A t \in Thread : /\ Waits(t, joinsem(j))' <=> Waits(t, joinsem(j))
                             /\ Waits(t, exitsem(j))' <=> Waits(t, exitsem(j))
    BY <1>5, <1>6
  <2> QED BY <1>1, <2>1, <2>2, HandSame, Zenon DEF TableInv
<1> QED BY <1>4, <1>5, <1>7 DEF TokenFrame

\* Such a move keeps the order, if it gains no child, and loses one only that has
\* told its parent.
LEMMA TokenOrder ==
    ASSUME TableInv, NEW me \in Thread, OthersStay(me),
           UNCHANGED <<alive, pcb, processID, orderly, undefined>>,
           at'[me] \notin ExecLoc, at[me] \notin ExecLoc,
           kids'[me] \subseteq kids[me],
           \A i \in kids[me] \ kids'[me] : Signed(i),
           orderly => \A t \in alive, i \in Pid : Child(t, i) /\ Child(t, i)' =>
              value'[exitsem(i)] = 0 /\ ~Left(i)',
           at'[me] \in JoinLoc => at[me] \in JoinLoc /\ arg'[me] = arg[me] /\ UNCHANGED kids,
           at'[me] \in ExitLoc => at[me] \in ExitLoc /\ UNCHANGED kids,
           at[me] \in {"exitWait", "exitRemove"} => at'[me] \in {"exitWait", "exitRemove"}
    PROVE  OrderInv'
<1>0. \A t \in alive : t \in Thread
  BY Zenon DEF TableInv, Types
<1>1. \A t \in alive, i \in Pid : /\ Child(t, i)' => Child(t, i)
                                  /\ Child(t, i) => Child(t, i)' \/ Signed(i)
  <2> SUFFICES ASSUME NEW t \in alive, NEW i \in Pid
               PROVE  /\ Child(t, i)' => Child(t, i)
                      /\ Child(t, i) => Child(t, i)' \/ Signed(i)
    BY Zenon
  <2>1. CASE t = me
    BY <2>1, Zenon DEF Child, ExecLoc
  <2>2. CASE t # me
    BY <1>0, <2>2, Zenon DEF Child, OthersStay
  <2> QED BY <2>1, <2>2, Zenon
<1>2. orderly' => \A t \in alive :
         \/ at'[t] = at[t] /\ arg'[t] = arg[t] /\ kids'[t] = kids[t]
         \/ /\ at'[t] \in JoinLoc => arg'[t] \in kids'[t]
            /\ at'[t] \in ExitLoc => kids'[t] = {}
            /\ at[t] \in {"exitWait", "exitRemove"} => at'[t] \in {"exitWait", "exitRemove"}
  <2> SUFFICES ASSUME orderly, NEW t \in alive, t = me
               PROVE  /\ at'[t] \in JoinLoc => arg'[t] \in kids'[t]
                      /\ at'[t] \in ExitLoc => kids'[t] = {}
                      /\ at[t] \in {"exitWait", "exitRemove"} => at'[t] \in {"exitWait", "exitRemove"}
    BY <1>0, Zenon DEF OthersStay
  <2> QED BY Zenon DEF TableInv, OrderInv
<1>3. orderly' => orderly /\ ~undefined'
  BY Zenon DEF TableInv, OrderInv
<1>4. orderly => \A t \in alive, i \in Pid : Child(t, i)' =>
              Child(t, i) /\ value'[exitsem(i)] = 0 /\ ~Left(i)'
  BY <1>1
<1> QED BY <1>1, <1>2, <1>3, <1>4, OrderMove, ZenonT(30) DEF TableInv

\* JoinRelease.
LEMMA ExitReleaseKeeps ==
    ASSUME TableInv, NEW me \in Thread, ExitRelease(me)
    PROVE  TableInv'
<1>1. /\ me \in alive /\ waiting[me] = {} /\ at[me] = "exitRelease"
      /\ V(joinsem(processID[me])) /\ Goto(me, "exitWait", NoPid)
      /\ UNCHANGED <<alive, born, bm, pcb, processID, kids, orderly, undefined>>
  BY DEF ExitRelease, At, threads, table, history
<1>2. PICK i \in Pid : i = processID[me]
  BY <1>1, OneThread
<1>3. PICK s \in Semaphores : s = joinsem(i)
  BY SemNames
<1>4. V(s) /\ exitsem(i) \in Semaphores \ {s}
  BY <1>1, <1>2, <1>3, SemNames, ZenonT(30)
<1>5. /\ kids[me] \in SUBSET Pid /\ kids' = [kids EXCEPT ![me] = kids[me]]
      /\ orderly' \in BOOLEAN
  BY <1>1 DEF TableInv, Types
<1>6. Move(me, "exitWait", NoPid, s, kids[me])
  BY <1>1, <1>4, <1>5, ZenonT(30) DEF Move
<1>7. /\ "exitWait" \in AllLoc \ ExecLoc /\ "exitWait" \notin WithArg \cup JoinLoc
      /\ at[me] \in AllLoc \ ExecLoc /\ at[me] \in ExitLoc /\ processID[me] # 0
  BY <1>1, Locations, OneThread
<1>8. /\ Types' /\ WaitInv' /\ SlotInv' /\ LockInv'
      /\ at'[me] = "exitWait" /\ kids'[me] = kids[me]
      /\ TokenFrame(me, i, s)
  <2>1. TokenMove(me, i, s, "exitWait", NoPid, kids[me])
    BY <1>1, <1>2, <1>3, <1>5, <1>6, <1>7 DEF TokenMove
  <2> QED BY <2>1, TokenBase, ZenonT(30)
<1>9. /\ OthersStay(me)
      /\ \A y \in Semaphores \ {s} : value'[y] = value[y]
      /\ \A j \in Pid \ {i} : SameHand(j)
  BY <1>8, ZenonT(30) DEF TokenFrame
<1>10. /\ value'[s] = value[s] + 1
       /\ \A t \in Thread, y \in Semaphores : Waits(t, y)' <=> Waits(t, y)
  BY <1>4 DEF V, TableInv, Types, Waits
<1>11. ~Signed(i) /\ Signed(i)' /\ ~Left(i)'
  <2>1. \A t \in alive : processID[t] = i => t = me
    BY <1>1, <1>2, OneThread
  <2> QED BY <1>1, <1>2, <1>8, <2>1, ZenonT(30) DEF Signed, Left
<1>12. \A t \in Thread : Told(t, i)' <=> Told(t, i)
  BY <1>1, <1>3, <1>8, <1>9, <1>10, Zenon DEF Told, OthersStay
<1>13. HandInv'
  BY <1>3, <1>4, <1>9, <1>10, <1>11, <1>12, HandRelease, ZenonT(30) DEF TableInv
<1>14. orderly => \A t \in alive, j \in Pid : Child(t, j) /\ Child(t, j)' =>
          value'[exitsem(j)] = 0 /\ ~Left(j)'
  BY <1>4, <1>9, <1>11, ChildSame, Zenon
<1>15. OrderInv'
  BY <1>1, <1>7, <1>8, <1>9, <1>14, TokenOrder, ZenonT(30)
<1> QED BY <1>8, <1>13, <1>15, ZenonT(30) DEF TableInv

\* ExitWait.
LEMMA ExitWaitKeeps ==
    ASSUME TableInv, NEW me \in Thread, ExitWait(me)
    PROVE  TableInv'
<1>1. /\ me \in alive /\ waiting[me] = {} /\ at[me] = "exitWait"
      /\ P(me, exitsem(processID[me])) /\ Goto(me, "exitRemove", NoPid)
      /\ UNCHANGED <<alive, born, bm, pcb, processID, kids, orderly, undefined>>
  BY ZenonT(30) DEF ExitWait, At, threads, table, history
<1>2. PICK i \in Pid : i = processID[me]
  BY <1>1, OneThread
<1>3. PICK s \in Semaphores : s = exitsem(i)
  BY SemNames
<1>4. P(me, s) /\ joinsem(i) \in Semaphores \ {s}
  BY <1>1, <1>2, <1>3, SemNames, ZenonT(30)
<1>5. /\ kids[me] \in SUBSET Pid /\ kids' = [kids EXCEPT ![me] = kids[me]]
      /\ orderly' \in BOOLEAN
  BY <1>1 DEF TableInv, Types
<1>6. Move(me, "exitRemove", NoPid, s, kids[me])
  <2>1. at'[me] = "exitRemove"
    BY <1>1, GotoEffect, Locations, Zenon DEF TableInv
  <2>2. Place(me, s)'
    BY <1>1, <1>2, <1>3, <2>1, Zenon DEF Place
  <2> QED BY <1>1, <1>4, <1>5, <2>2, ZenonT(30) DEF Move
<1>7. /\ "exitRemove" \in AllLoc \ ExecLoc /\ "exitRemove" \notin WithArg \cup JoinLoc
      /\ at[me] \in AllLoc \ ExecLoc /\ at[me] \in ExitLoc /\ processID[me] # 0
  BY <1>1, Locations, OneThread
<1>8. /\ Types' /\ WaitInv' /\ SlotInv' /\ LockInv'
      /\ at'[me] = "exitRemove" /\ kids'[me] = kids[me]
      /\ TokenFrame(me, i, s)
  <2>1. TokenMove(me, i, s, "exitRemove", NoPid, kids[me])
    BY <1>1, <1>2, <1>3, <1>5, <1>6, <1>7 DEF TokenMove
  <2> QED BY <2>1, TokenBase, ZenonT(30)
<1>9. /\ OthersStay(me)
      /\ \A y \in Semaphores \ {s} : value'[y] = value[y]
      /\ \A y \in Semaphores \ {s}, t \in Thread : Waits(t, y)' <=> Waits(t, y)
      /\ \A j \in Pid \ {i} : SameHand(j)
  BY <1>8, ZenonT(30) DEF TokenFrame
<1>10. \A t \in Thread : Told(t, i)' <=> Told(t, i)
  BY <1>1, <1>4, <1>8, <1>9, Zenon DEF Told, OthersStay
<1>11. \/ Block(me, s) /\ value'[s] = value[s] /\ Waits(me, s)'
       \/ value[s] # 0 /\ value'[s] = value[s] - 1
  BY <1>1, <1>4, CallEffect, Zenon DEF P, TableInv
<1>12. \A t \in alive : t \in Thread /\ (processID[t] = i => t = me)
  BY <1>1, <1>2, OneThread, Zenon
<1>13. orderly => \A t \in alive, j \in Pid : Child(t, j) => value'[exitsem(j)] = 0 /\ ~Left(j)'
  <2>1. orderly => \A t \in alive, j \in Pid \ {i} : Child(t, j) =>
           value'[exitsem(j)] = 0 /\ ~Left(j)'
    BY <1>9, ChildSame, ZenonT(30)
  <2>2. orderly => \A t \in alive : Child(t, i) => value[s] = 0
    BY <1>3, Zenon DEF TableInv, OrderInv
  <2>3. Waits(me, s)' => ~Left(i)'
    BY <1>1, <1>3, <1>12, Zenon DEF Left
  <2> QED BY <1>3, <1>11, <2>1, <2>2, <2>3
<1>14. HandInv'
  <2>1. CASE value'[s] = value[s] /\ Waits(me, s)'
    <3>1. ~Left(i) /\ ~Left(i)' /\ Signed(i) /\ Signed(i)'
      BY <1>1, <1>2, <1>3, <1>8, <1>12, <2>1, Zenon DEF Left, Signed
    <3>2. SameHand(i)
      BY <1>3, <1>4, <1>9, <1>10, <2>1, <3>1, Zenon DEF SameHand
    <3>3. SameHands
      BY <1>9, <3>2, Zenon DEF SameHands
    <3> QED BY <3>3, HandFrame, Zenon DEF TableInv
  <2>2. CASE value[s] # 0 /\ value'[s] = value[s] - 1
    BY <1>3, <1>4, <1>9, <1>10, <2>2, HandLeave DEF TableInv
  <2> QED BY <1>11, <2>1, <2>2
<1>15. OrderInv'
  BY <1>1, <1>7, <1>8, <1>9, <1>13, TokenOrder, ZenonT(30)
<1> QED BY <1>8, <1>14, <1>15, Zenon DEF TableInv

\* JoinWait.
LEMMA JoinWaitKeeps ==
    ASSUME TableInv, NEW me \in Thread, JoinWait(me)
    PROVE  TableInv'
<1>1. /\ me \in alive /\ waiting[me] = {} /\ at[me] = "joinWait"
      /\ P(me, joinsem(arg[me])) /\ Goto(me, "joinRelease", arg[me])
      /\ UNCHANGED <<alive, born, bm, pcb, processID, kids, orderly, undefined>>
  BY ZenonT(30) DEF JoinWait, At, threads, table, history
<1>2. PICK i \in Pid : i = arg[me]
  BY <1>1, OneThread, Locations
<1>3. PICK s \in Semaphores : s = joinsem(i)
  BY SemNames
<1>4. P(me, s) /\ exitsem(i) \in Semaphores \ {s}
  BY <1>1, <1>2, <1>3, SemNames, ZenonT(30)
<1>5. /\ kids[me] \in SUBSET Pid /\ kids' = [kids EXCEPT ![me] = kids[me]]
      /\ orderly' \in BOOLEAN
  BY <1>1 DEF TableInv, Types
<1>6. Move(me, "joinRelease", i, s, kids[me])
  <2>1. at'[me] = "joinRelease" /\ arg'[me] = i
    BY <1>1, <1>2, GotoEffect, Locations, ZenonT(30) DEF TableInv
  <2>2. Place(me, s)'
    BY <1>3, <2>1 DEF Place
  <2> QED BY <1>1, <1>2, <1>4, <1>5, <2>2, ZenonT(30) DEF Move
<1>7. /\ "joinRelease" \in AllLoc \ ExecLoc /\ "joinRelease" \notin ExitLoc
      /\ at[me] \in AllLoc \ ExecLoc /\ at[me] \in JoinLoc
  BY <1>1, Locations, Zenon
<1>8. /\ Types' /\ WaitInv' /\ SlotInv' /\ LockInv'
      /\ at'[me] = "joinRelease" /\ arg'[me] = i /\ kids'[me] = kids[me]
      /\ TokenFrame(me, i, s)
  <2>1. TokenMove(me, i, s, "joinRelease", i, kids[me])
    BY <1>1, <1>2, <1>3, <1>5, <1>6, <1>7 DEF TokenMove
  <2> QED BY <2>1, TokenBase, ZenonT(30)
<1>9. /\ OthersStay(me)
      /\ \A y \in Semaphores \ {s} : value'[y] = value[y]
      /\ \A y \in Semaphores \ {s}, t \in Thread : Waits(t, y)' <=> Waits(t, y)
      /\ \A j \in Pid \ {i} : SameHand(j)
  BY <1>8, Zenon DEF TokenFrame
<1>10. (Signed(i)' <=> Signed(i)) /\ (Left(i)' <=> Left(i))
  <2>1. \A t \in alive : t \in Thread
    BY DEF TableInv, Types
  <2> QED BY <1>1, <1>4, <1>8, <1>9, <2>1, ZenonT(30) DEF Signed, Left, OthersStay
<1>11. /\ \A t \in Thread \ {me} : Waits(t, s)' <=> Waits(t, s)
       /\ \/ value'[s] = value[s] /\ Waits(me, s)'
          \/ value[s] # 0 /\ value'[s] = value[s] - 1 /\ ~Waits(me, s)'
  BY <1>1, <1>4, CallEffect, ZenonT(30) DEF P, TableInv
<1>12. HandInv'
  <2>1. CASE value'[s] = value[s] /\ Waits(me, s)'
    <3>1. \A t \in Thread : Told(t, i)' <=> Told(t, i)
      BY <1>1, <1>3, <1>8, <1>9, <1>11, <2>1, Zenon DEF Told, OthersStay
    <3>2. SameHand(i)
      BY <1>3, <1>4, <1>9, <1>10, <2>1, <3>1, ZenonT(30) DEF SameHand
    <3>3. SameHands
      BY <1>9, <3>2 DEF SameHands
    <3> QED BY <3>3, HandFrame DEF TableInv
  <2>2. CASE value[s] # 0 /\ value'[s] = value[s] - 1 /\ ~Waits(me, s)'
    <3>1. \A t \in Thread : Told(t, i)' <=> t = me \/ Told(t, i)
      BY <1>1, <1>3, <1>8, <1>9, <1>11, <2>2, ZenonT(30) DEF Told, OthersStay
    <3> QED BY <1>3, <1>4, <1>9, <1>10, <2>2, <3>1, HandTold, ZenonT(30) DEF TableInv
  <2> QED BY <1>11, <2>1, <2>2, Zenon
<1>13. orderly => \A t \in alive, j \in Pid : Child(t, j) /\ Child(t, j)' =>
          value'[exitsem(j)] = 0 /\ ~Left(j)'
  BY <1>4, <1>9, <1>10, ChildSame, ZenonT(30)
<1>14. OrderInv'
  BY <1>1, <1>2, <1>7, <1>8, <1>9, <1>13, TokenOrder, Zenon
<1> QED BY <1>8, <1>12, <1>14, Zenon DEF TableInv

\* ExitRelease, and Join returns.
LEMMA JoinReturnKeeps ==
    ASSUME TableInv, NEW me \in Thread, JoinReturn(me)
    PROVE  TableInv'
<1>1. /\ me \in alive /\ waiting[me] = {} /\ at[me] = "joinRelease"
      /\ V(exitsem(arg[me])) /\ Goto(me, "user", NoPid)
      /\ kids' = [kids EXCEPT ![me] = kids[me] \ {arg[me]}]
      /\ UNCHANGED <<alive, born, bm, pcb, processID, orderly, undefined>>
  BY ZenonT(30) DEF JoinReturn, At, threads, table, history
<1>2. PICK i \in Pid : i = arg[me]
  BY <1>1, OneThread, Locations
<1>3. PICK s \in Semaphores : s = exitsem(i)
  BY SemNames
<1>4. V(s) /\ joinsem(i) \in Semaphores \ {s}
  BY <1>1, <1>2, <1>3, SemNames, ZenonT(30)
<1>5. /\ kids[me] \ {i} \in SUBSET Pid /\ kids' = [kids EXCEPT ![me] = kids[me] \ {i}]
      /\ orderly' \in BOOLEAN
  BY <1>1, <1>2 DEF TableInv, Types
<1>6. Move(me, "user", NoPid, s, kids[me] \ {i})
  BY <1>1, <1>4, <1>5, ZenonT(30) DEF Move
<1>7. /\ "user" \in AllLoc \ ExecLoc /\ "user" \notin ExitLoc \cup WithArg \cup JoinLoc
      /\ at[me] \in AllLoc \ ExecLoc /\ at[me] \in JoinLoc
  BY <1>1, Locations
<1>8. /\ Types' /\ WaitInv' /\ SlotInv' /\ LockInv'
      /\ at'[me] = "user" /\ arg'[me] = NoPid /\ kids'[me] = kids[me] \ {i}
      /\ TokenFrame(me, i, s)
  <2>1. TokenMove(me, i, s, "user", NoPid, kids[me] \ {i})
    BY <1>1, <1>2, <1>3, <1>5, <1>6, <1>7 DEF TokenMove
  <2> QED BY <2>1, TokenBase, ZenonT(30)
<1>9. /\ OthersStay(me)
      /\ \A y \in Semaphores \ {s} : value'[y] = value[y]
      /\ \A j \in Pid \ {i} : SameHand(j)
  BY <1>8, ZenonT(30) DEF TokenFrame
<1>10. /\ value'[s] = value[s] + 1
       /\ \A t \in Thread, y \in Semaphores : Waits(t, y)' <=> Waits(t, y)
       /\ \A y \in Semaphores : ~Waits(me, y)
  BY <1>1, <1>4 DEF V, TableInv, Types, Waits
<1>11. (Signed(i)' <=> Signed(i)) /\ (Left(i)' <=> Left(i))
  <2>1. \A t \in alive : t \in Thread
    BY DEF TableInv, Types
  <2> QED BY <1>1, <1>3, <1>8, <1>9, <1>10, <2>1, ZenonT(30) DEF Signed, Left, OthersStay
<1>12. Told(me, i) /\ \A t \in Thread : Told(t, i)' <=> t # me /\ Told(t, i)
  BY <1>1, <1>2, <1>4, <1>8, <1>9, <1>10, ZenonT(30) DEF Told, OthersStay
<1>13. HandInv' /\ Signed(i)
  BY <1>3, <1>4, <1>9, <1>10, <1>11, <1>12, HandReturn, ZenonT(30) DEF TableInv
<1>14. orderly => \A t \in alive, j \in Pid : Child(t, j) /\ Child(t, j)' =>
          value'[exitsem(j)] = 0 /\ ~Left(j)'
  <2> SUFFICES ASSUME orderly, NEW t \in alive, NEW j \in Pid, Child(t, j), Child(t, j)'
               PROVE  value'[exitsem(j)] = 0 /\ ~Left(j)'
    BY Zenon
  <2>1. CASE j = i
    <3>1. i \in kids[me]
      BY <1>1, <1>2, <1>7, ZenonT(30) DEF TableInv, OrderInv
    <3>2. processID[t] = processID[me]
      BY <1>1, <2>1, <3>1 DEF TableInv, OrderInv, Child
    <3>3. t = me
      BY <1>1, <3>2, OneThread, Zenon
    <3> QED BY <1>7, <1>8, <2>1, <3>3, Zenon DEF Child, ExecLoc
  <2>2. CASE j # i
    BY <1>9, <2>2, ChildSame, Zenon
  <2> QED BY <2>1, <2>2
<1>15. OrderInv'
  BY <1>1, <1>7, <1>8, <1>9, <1>13, <1>14, TokenOrder, ZenonT(30)
<1> QED BY <1>8, <1>13, <1>15, Zenon DEF TableInv

\* A woken thread gets the unit it was waiting for.
LEMMA WakeKeeps ==
    ASSUME TableInv, NEW me \in Thread, NEW s \in Semaphores, Wake(me, s)
    PROVE  TableInv'
<1>1. /\ me \in alive /\ waiting[me] = {s} /\ value[s] # 0
      /\ value' = [value EXCEPT ![s] = value[s] - 1] /\ waiting' = [waiting EXCEPT ![me] = {}]
      /\ UNCHANGED <<at, arg, alive, born, bm, pcb, processID, kids, orderly, undefined>>
  BY Zenon DEF Wake, Take, threads, table, history
<1>2. /\ Waits(me, s) /\ value'[s] = value[s] - 1
      /\ \A y \in Semaphores \ {s} : value'[y] = value[y]
      /\ \A t \in Thread, y \in Semaphores : Waits(t, y)' <=> t # me /\ Waits(t, y)
      /\ \A t \in Thread, y \in Semaphores \ {s} : Waits(t, y)' <=> Waits(t, y)
  BY <1>1, Zenon DEF TableInv, Types, Waits
<1>3. Types' /\ Place(me, s) /\ \A t \in alive : t \in Thread
  BY <1>1, <1>2, SMTT(30) DEF TableInv, Types, WaitInv
<1>4. WaitInv'
  <2>1. \A t \in Thread : ParentOf(t)' = ParentOf(t)
    BY <1>1, Zenon DEF ParentOf
  <2> QED BY <1>1, <1>2, <2>1, WaitFrame, Zenon DEF TableInv
<1>5. SlotInv'
  BY <1>1, SlotFrame DEF TableInv
<1>6. LockInv'
  <2>1. CASE s = bmsem
    <3>1. \A t \in Thread : Locker(t)' => t = me \/ Locker(t)
      BY <1>1, <1>2, <2>1, Zenon DEF Locker
    <3> QED BY <1>2, <1>1, <2>1, <3>1, SMTT(30) DEF TableInv, LockInv
  <2>2. CASE s # bmsem
    <3>1. \A t \in Thread : Locker(t)' => Locker(t)
      BY <1>1, <1>2, <2>2, SemNames, Zenon DEF Locker
    <3> QED BY <1>2, <2>2, <3>1, SemNames, LockFrame, Zenon DEF TableInv
  <2> QED BY <2>1, <2>2, Zenon
<1>7. \A t \in alive, i \in Pid : Child(t, i)' <=> Child(t, i)
  BY <1>1, Zenon DEF Child
<1>8. orderly' => orderly /\ ~undefined'
  BY <1>1 DEF TableInv, OrderInv
<1>9. HandInv' /\ OrderInv'
  <2>0. ASSUME NEW i \in Pid, s \notin {joinsem(i), exitsem(i)} PROVE SameHand(i)
    <3>1. joinsem(i) \in Semaphores \ {s} /\ exitsem(i) \in Semaphores \ {s}
      BY <2>0, SemNames, Zenon
    <3> QED BY <1>1, <1>2, <3>1, HandSame, ZenonT(30) DEF TableInv
  <2>1. CASE \A i \in Pid : s \notin {joinsem(i), exitsem(i)}
    <3>1. SameHands
      BY <2>0, <2>1, Zenon DEF SameHands
    <3> QED BY <1>1, <1>7, <1>8, <3>1, HandFrame, OrderFrame, ZenonT(30) DEF TableInv
  <2>2. ASSUME NEW i \in Pid, s = joinsem(i) PROVE HandInv' /\ OrderInv'
    <3>1. at[me] = "joinRelease" /\ arg[me] = i
      BY <1>3, <2>2, SemNames, Zenon DEF Place
    <3>2. \A j \in Pid \ {i} : SameHand(j)
      BY <2>0, <2>2, SemNames, Zenon
    <3>3. \A t \in Thread : Told(t, i)' <=> t = me \/ Told(t, i)
      BY <1>1, <1>2, <2>2, <3>1, ZenonT(30) DEF Told
    <3>4. exitsem(i) \in Semaphores \ {s}
      BY <2>2, SemNames, ZenonT(30)
    <3>5. (Signed(i)' <=> Signed(i)) /\ (Left(i)' <=> Left(i))
      BY <1>1, <1>2, <1>3, <3>4, Zenon DEF Signed, Left
    <3>6. HandInv'
      BY <1>1, <1>2, <2>2, <3>2, <3>3, <3>4, <3>5, HandTold, Zenon DEF TableInv
    <3>7. orderly => \A t \in alive, j \in Pid : Child(t, j)' =>
             Child(t, j) /\ value'[exitsem(j)] = 0 /\ ~Left(j)'
      BY <1>2, <1>7, <3>2, <3>4, <3>5, ChildSame, ZenonT(30)
    <3>8. OrderInv'
      BY <1>1, <1>7, <1>8, <3>7, OrderMove, Zenon DEF TableInv
    <3> QED BY <3>6, <3>8
  <2>3. ASSUME NEW i \in Pid, s = exitsem(i) PROVE HandInv' /\ OrderInv'
    <3>1. \A j \in Pid \ {i} : SameHand(j)
      BY <2>0, <2>3, SemNames, Zenon
    <3>2. joinsem(i) \in Semaphores \ {s}
      BY <2>3, SemNames, ZenonT(30)
    <3>3. \A t \in Thread : Told(t, i)' <=> Told(t, i)
      BY <1>1, <1>2, <3>2, Zenon DEF Told
    <3>4. HandInv'
      BY <1>1, <1>2, <2>3, <3>1, <3>2, <3>3, HandLeave, Zenon DEF TableInv
    <3>5. orderly => \A t \in alive, j \in Pid : Child(t, j) => j # i
      BY <1>1, <2>3, ZenonT(30) DEF TableInv, OrderInv
    <3>6. orderly => \A t \in alive, j \in Pid : Child(t, j)' =>
             Child(t, j) /\ value'[exitsem(j)] = 0 /\ ~Left(j)'
      BY <1>7, <3>1, <3>5, ChildSame, Zenon
    <3>7. OrderInv'
      BY <1>1, <1>7, <1>8, <3>6, OrderMove DEF TableInv
    <3> QED BY <3>4, <3>7
  <2> QED BY <2>1, <2>2, <2>3
<1> QED BY <1>3, <1>4, <1>5, <1>6, <1>9, ZenonT(30) DEF TableInv

-----------------------------------------------------------------------------
(* The invariant.                                                          *)

\* The parent of a process that has not told it yet is there, while the programs
\* are orderly.
LEMMA ParentLive ==
    ASSUME TableInv, orderly, NEW t \in alive, processID[t] # 0,
           at[t] \notin {"exitWait", "exitRemove"}
    PROVE  pcb[ParentOf(t)].state = "live"
<1>1. t # Main /\ processID[t] \in Pid
  BY OneThread, Zenon
<1>2. PICK u \in alive : Child(u, processID[t])
  BY <1>1, HasParent, Zenon
<1>3. ParentOf(t) = processID[u]
  BY <1>1, <1>2, Zenon DEF TableInv, OrderInv, ParentOf
<1>4. processID[u] \in Pid /\ processID[u] \in bm
  BY OneThread, Zenon DEF TableInv, SlotInv
<1> QED BY <1>3, <1>4, ZenonT(30) DEF TableInv, SlotInv

\* While the programs are orderly no PCB is used that is not there.
LEMMA OrderlyDefined ==
    ASSUME TableInv, NEW me \in Thread, ExitOrphan(me) \/ JoinLate(me) \/ JoinOfNoProcess(me)
    PROVE  ~orderly'
<1>1. CASE ExitOrphan(me)
  <2>1. /\ me \in alive /\ processID[me] # 0 /\ at[me] \in {"user", "exitDec"}
        /\ pcb[ParentOf(me)].state # "live" /\ UNCHANGED orderly
    BY <1>1, OneThread, Locations, Zenon DEF ExitOrphan, At
  <2> QED BY <2>1, ParentLive, Zenon
<1>2. CASE JoinLate(me)
  <2>1. /\ me \in alive /\ at[me] = "joinWait" /\ pcb[arg[me]].state # "live" /\ UNCHANGED orderly
    BY <1>2 DEF JoinLate, At
  <2>2. orderly => arg[me] \in kids[me]
    BY <2>1, Locations, ZenonT(30) DEF TableInv, OrderInv
  <2>3. arg[me] \in Pid /\ (orderly => Child(me, arg[me]))
    BY <2>1, <2>2, OneThread, Locations, Zenon DEF Child
  <2>4. orderly => pcb[arg[me]].state = "live"
    BY <2>1, <2>3, ZenonT(30) DEF TableInv, OrderInv
  <2> QED BY <2>1, <2>4, Zenon
<1> QED BY <1>1, <1>2, Zenon DEF JoinOfNoProcess

\* A step in which the program goes wrong, or only orderly changes.
LEMMA StillKeeps ==
    ASSUME TableInv, UNCHANGED <<calls, threads, table, kids>>,
           orderly' \in BOOLEAN, undefined' \in BOOLEAN, orderly' => orderly /\ ~undefined'
    PROVE  TableInv'
<1>1. UNCHANGED <<value, waiting, at, arg, alive, born, bm, pcb, processID, kids>>
  BY Zenon DEF calls, threads, table
<1>2. Types'
  BY <1>1, Zenon DEF TableInv, Types
<1>3. LockInv' /\ WaitInv'
  BY <1>1, ZenonT(30) DEF TableInv, LockInv, WaitInv, Locker, Place, Waits, ParentOf
<1>4. SlotInv'
  BY <1>1, SlotFrame, Zenon DEF TableInv
<1>5. SameHands /\ \A t \in alive, i \in Pid : Child(t, i)' <=> Child(t, i)
  BY <1>1 DEF SameHands, SameHand, Told, Signed, Left, Child, Waits
<1>6. HandInv'
  BY <1>5, HandFrame DEF TableInv
<1>7. OrderInv'
  BY <1>1, <1>5, OrderFrame, ZenonT(30) DEF TableInv
<1> QED BY <1>2, <1>3, <1>4, <1>6, <1>7, ZenonT(30) DEF TableInv

\* Every step keeps the invariant.
LEMMA StepInv == TableInv /\ [Next]_vars => TableInv'
<1> SUFFICES ASSUME TableInv, [Next]_vars PROVE TableInv'
  OBVIOUS
<1>1. CASE UNCHANGED vars
  <2>1. UNCHANGED <<calls, threads, table, kids>> /\ UNCHANGED <<orderly, undefined>>
    BY <1>1, Zenon DEF vars, history
  <2> QED BY <2>1, StillKeeps, ZenonT(30) DEF TableInv, Types, OrderInv
<1>2. ASSUME NEW me \in Thread, Exec(me) PROVE TableInv'
  <2>1. CASE ExecCall(me)
    BY <2>1, ExecCallKeeps
  <2>2. CASE ExecRefused(me) \/ ExecReturn(me)
    BY <2>2, ExecLeaveKeeps
  <2>3. CASE ExecMultexV(me)
    BY <2>3, MultexKeeps
  <2>4. ASSUME NEW i \in Pid, ExecNewPcb(me, i) PROVE TableInv'
    BY <2>4, ExecNewPcbKeeps
  <2>5. ASSUME NEW n \in Thread, ExecFork(me, n) PROVE TableInv'
    BY <2>5, ExecForkKeeps, Zenon
  <2> QED BY <1>2, <2>1, <2>2, <2>3, <2>4, <2>5, Zenon DEF Exec
<1>3. ASSUME NEW me \in Thread, Exit(me) PROVE TableInv'
  <2>1. CASE ExitNonZero(me)
    <3>1. /\ UNCHANGED <<calls, threads, table, kids>> /\ UNCHANGED undefined
          /\ orderly' = (orderly /\ kids[me] = {})
      BY <2>1 DEF ExitNonZero
    <3> QED BY <3>1, StillKeeps, ZenonT(30) DEF TableInv, Types, OrderInv
  <2>2. CASE ExitCall(me) \/ ExitDec(me)
    BY <2>2, MultexKeeps, Zenon
  <2>3. CASE ExitOrphan(me)
    <3>1. UNCHANGED <<calls, threads, table, kids>> /\ undefined' = TRUE /\ orderly' = orderly
      BY <2>3, ZenonT(30) DEF ExitOrphan, Undefined
    <3> QED BY <2>3, <3>1, OrderlyDefined, StillKeeps, Zenon DEF TableInv, Types
  <2>4. CASE ExitRelease(me)
    BY <2>4, ExitReleaseKeeps
  <2>5. CASE ExitWait(me)
    BY <2>5, ExitWaitKeeps
  <2>6. CASE ExitRemove(me)
    BY <2>6, ExitRemoveKeeps
  <2> QED BY <1>3, <2>1, <2>2, <2>3, <2>4, <2>5, <2>6, Zenon DEF Exit
<1>4. ASSUME NEW me \in Thread, Join(me) PROVE TableInv'
  <2>1. CASE JoinOfNoProcess(me) \/ JoinLate(me)
    <3>1. /\ UNCHANGED <<calls, threads, table, kids>> /\ undefined' = TRUE
          /\ orderly' \in {orderly, FALSE}
      BY <2>1, Zenon DEF JoinOfNoProcess, JoinLate, Undefined
    <3> QED BY <2>1, <3>1, OrderlyDefined, StillKeeps, ZenonT(30) DEF TableInv, Types
  <2>2. CASE JoinInc(me)
    BY <2>2, MultexKeeps
  <2>3. ASSUME NEW id \in Pid, JoinCall(me, id) PROVE TableInv'
    BY <2>3, MultexKeeps, Zenon
  <2>4. CASE JoinWait(me)
    BY <2>4, JoinWaitKeeps
  <2>5. CASE JoinReturn(me)
    BY <2>5, JoinReturnKeeps
  <2> QED BY <1>4, <2>1, <2>2, <2>3, <2>4, <2>5, Zenon DEF Join
<1>5. ASSUME NEW me \in Thread, NEW s \in Semaphores, Wake(me, s) PROVE TableInv'
  BY <1>5, WakeKeeps
<1> QED BY <1>1, <1>2, <1>3, <1>4, <1>5, Zenon DEF Next

\* Whatever the order in which the threads run: ExecUpdate is one thread's at a time,
\* a slot is marked while a process has it, one token goes round between Exit and Join
\* of a process, and orderly programs never use a PCB that is not there.
THEOREM Invariant == Spec => []TableInv
<1>1. Init => TableInv
  BY InitInv
<1>2. TableInv /\ [Next]_vars => TableInv'
  BY StepInv, Zenon
<1> QED BY <1>1, <1>2, PTL DEF Spec

-----------------------------------------------------------------------------
(* What Processes promises.                                                *)

\* The invariant gives SlotsMarked.
LEMMA SlotFacts == ASSUME TableInv PROVE SlotsMarked
<1>1. \A t \in Thread : at[t] = "execForking" => t \in alive
  BY Zenon DEF TableInv, SlotInv
<1>2. \A t \in alive : t \in Thread
  BY ZenonT(30) DEF TableInv, Types
<1>3. \A i \in Pid : i \in bm <=> \/ \E t \in alive : processID[t] = i
                                  \/ \E t \in alive : at[t] = "execForking" /\ arg[t] = i
  BY <1>1, <1>2, Zenon DEF TableInv, SlotInv, Filling
<1>4. /\ bm \subseteq Pid /\ \A t \in alive : processID[t] \in Pid
      /\ \A t \in alive : at[t] = "execForking" => arg[t] \in Pid
  BY <1>2, Locations, Zenon DEF TableInv, Types, SlotInv
<1>5. bm = {processID[t] : t \in alive}
           \cup {arg[t] : t \in {u \in alive : at[u] = "execForking"}}
  BY <1>3, <1>4, Zenon
<1> QED BY <1>5, Zenon DEF SlotsMarked, TableInv, SlotInv

\* It gives JoinAfterExit: the token is with the thread in Join, so the process is
\* still there.
LEMMA JoinFacts == ASSUME TableInv PROVE JoinAfterExit
<1> SUFFICES ASSUME NEW t \in Thread, at[t] = "joinRelease", waiting[t] = {}
             PROVE  /\ pcb[arg[t]].state = "live"
                    /\ at[pcb[arg[t]].thread] \in {"exitWait", "exitRemove"}
  BY Zenon DEF JoinAfterExit
<1>1. PICK i \in Pid : i = arg[t]
  BY Locations, Zenon DEF TableInv, Types
<1>2. Signed(i)
  BY <1>1, Zenon DEF TableInv, HandInv, Told, Waits
<1>3. PICK u \in alive : processID[u] = i /\ at[u] \in {"exitWait", "exitRemove"}
  BY <1>2, Zenon DEF Signed
<1>4. u # Main
  BY <1>3, OneThread, Locations, Zenon
<1>5. i \in bm /\ pcb[i].thread = u
  BY <1>3, <1>4, ZenonT(30) DEF TableInv, SlotInv
<1>6. pcb[i].state = "live"
  BY <1>5, ZenonT(30) DEF TableInv, SlotInv
<1> QED BY <1>1, <1>3, <1>5, <1>6, Zenon

\* It gives NeverUndefined: a thread waits on a semaphore of a child, of its own PCB
\* or of its parent.
LEMMA OrderFacts == ASSUME TableInv PROVE NeverUndefined
<1>1. ASSUME orderly, NEW t \in alive, NEW i \in Pid, waiting[t] \cap PcbSem(i) # {}
      PROVE  pcb[i].state = "live"
  <2>1. PICK s \in waiting[t] : s \in {joinsem(i), exitsem(i), multex(i)}
    BY <1>1, Zenon DEF PcbSem
  <2>2. t \in Thread /\ Place(t, s)
    BY <2>1, OneThread, Zenon DEF TableInv, Types, WaitInv, Waits
  <2>3. at[t] # "execLocked"
    BY <2>1, <2>2, SemNames, Zenon DEF Place
  <2>4. CASE at[t] = "exitDec"
    <3>1. i = ParentOf(t)
      BY <2>1, <2>2, <2>4, SemNames, Zenon DEF Place
    <3> QED BY <1>1, <2>4, <3>1, ParentLive, OneThread, Locations, Zenon
  <2>5. CASE at[t] = "joinRelease"
    <3>1. i = arg[t]
      BY <2>1, <2>2, <2>5, SemNames, Zenon DEF Place
    <3>2. Child(t, i)
      BY <1>1, <2>5, <3>1, Locations, Zenon DEF TableInv, OrderInv, Child
    <3> QED BY <1>1, <3>2, Zenon DEF TableInv, OrderInv
  <2>6. CASE at[t] \in {"exitRemove", "joinInc"}
    <3>1. i = processID[t]
      BY <2>1, <2>2, <2>6, SemNames, ZenonT(30) DEF Place
    <3> QED BY <3>1, Zenon DEF TableInv, SlotInv
  <2> QED BY <2>2, <2>3, <2>4, <2>5, <2>6, Zenon DEF Place
<1>2. orderly => ~undefined
  BY DEF TableInv, OrderInv
<1> QED BY <1>1, <1>2, Zenon DEF NeverUndefined

\* Whatever the order in which the threads run, a slot is marked exactly while it is
\* used, Join returns between Exit and Remove of the process it joins, and orderly
\* programs never make PTable use a PCB that is not there.
THEOREM ProcessesSafe == Spec => [](SlotsMarked /\ JoinAfterExit /\ NeverUndefined)
<1>1. TableInv => SlotsMarked /\ JoinAfterExit /\ NeverUndefined
  BY SlotFacts, JoinFacts, OrderFacts
<1> QED BY <1>1, Invariant, PTL

=============================================================================
