-------------------------- MODULE AddrSpaceProofs --------------------------
(***************************************************************************)
(* Proofs about AddrSpace, for any threads, programs and sizes of memory:  *)
(* the frames, the bitmap and the page tables; and the kernel it runs on,  *)
(* which keeps the invariant that ThreadsProofs proves of Threads.         *)
(***************************************************************************)
EXTENDS AddrSpace, FiniteSetTheorems, TLAPS

-----------------------------------------------------------------------------
(* BitMap::Find.                                                           *)

\* The k-th clear frame exists: how many clear frames are below a frame tells
\* the clear frames apart, so every number below their count is taken.
LEMMA KthClear ==
    ASSUME NEW S \in SUBSET Frame, NEW k \in 0 .. Cardinality(S) - 1
    PROVE  \E f \in S : Cardinality({g \in S : g < f}) = k
<1> DEFINE N == Cardinality(S)
           Below(f) == {g \in S : g < f}
           rank == [f \in S |-> Cardinality(Below(f))]
<1>1. S \subseteq Nat /\ IsFiniteSet(Frame)
  BY AddrSpaceAssumption, FS_Interval DEF Frame
<1>2. IsFiniteSet(S) /\ N \in Nat
  BY <1>1, FS_Subset, FS_CardinalityType, Zenon
<1>3. ASSUME NEW f \in S
      PROVE  /\ IsFiniteSet(Below(f))
             /\ Cardinality(Below(f)) \in Nat
             /\ Cardinality(Below(f)) \in 0 .. N - 1
             /\ IsFiniteSet(Below(f) \cup {f})
             /\ Cardinality(Below(f) \cup {f}) = Cardinality(Below(f)) + 1
  <2>1. Below(f) \in SUBSET S /\ f \notin Below(f) /\ Below(f) \cup {f} \in SUBSET S
    BY <1>1
  <2>2. IsFiniteSet(Below(f)) /\ Cardinality(Below(f)) \in Nat
    BY <1>2, <2>1, FS_Subset, FS_CardinalityType
  <2>3. /\ IsFiniteSet(Below(f) \cup {f})
        /\ Cardinality(Below(f) \cup {f}) = Cardinality(Below(f)) + 1
    BY <2>1, <2>2, FS_AddElement, Zenon
  <2>4. Cardinality(Below(f) \cup {f}) <= N
    BY <1>2, <2>1, FS_Subset
  <2> QED BY <1>2, <2>2, <2>3, <2>4
<1>4. ASSUME NEW f \in S, NEW g \in S, f < g
      PROVE  rank[f] < rank[g]
  <2>1. \A h \in S : h < f \/ h = f => h < g
    BY <1>1, <1>4
  <2>2. Below(f) \cup {f} \in SUBSET Below(g)
    BY <2>1
  <2>3. Cardinality(Below(f) \cup {f}) <= Cardinality(Below(g))
    BY <1>3, <2>2, FS_Subset, Zenon
  <2>4. rank[f] = Cardinality(Below(f)) /\ rank[g] = Cardinality(Below(g))
    OBVIOUS
  <2>5. /\ Cardinality(Below(f)) \in Nat /\ Cardinality(Below(g)) \in Nat
        /\ Cardinality(Below(f) \cup {f}) = Cardinality(Below(f)) + 1
    BY <1>3, Zenon
  <2> HIDE DEF rank, Below
  <2> QED BY <2>3, <2>4, <2>5
<1>5. rank \in Injection(S, 0 .. N - 1)
  <2>1. rank \in [S -> 0 .. N - 1]
    BY <1>3, Zenon
  <2>2. \A f, g \in S : rank[f] = rank[g] => f = g
    BY <1>1, <1>2, <1>4, <2>1
  <2> QED BY <2>1, <2>2, Zenon DEF Injection, IsInjective
<1>6. IsFiniteSet(0 .. N - 1) /\ Cardinality(0 .. N - 1) = N
  BY <1>2, FS_Interval
<1>7. rank \in Surjection(S, 0 .. N - 1)
  BY <1>5, <1>6, FS_Injection
<1> QED BY <1>7, Zenon DEF Surjection

\* n calls of Find return n different clear frames.
LEMMA FindFacts ==
    ASSUME gPhysPageBitMap \subseteq Frame, NEW n \in Nat, n <= NumClear
    PROVE  /\ Find(n) \in Seq(Frame)
           /\ IsInjective(Find(n))
           /\ Range(Find(n)) \subseteq Frame \ gPhysPageBitMap
<1> DEFINE clear == Frame \ gPhysPageBitMap
           Nth(i) == CHOOSE f \in clear : Cardinality({g \in clear : g < f}) = i - 1
<1>1. NumClear \in Nat
  <2>1. IsFiniteSet(Frame)
    BY AddrSpaceAssumption, FS_Interval DEF Frame
  <2> QED BY <2>1, FS_Difference, FS_CardinalityType, Zenon DEF NumClear
<1>2. ASSUME NEW i \in 1 .. n
      PROVE  Nth(i) \in clear /\ Cardinality({g \in clear : g < Nth(i)}) = i - 1
  <2>1. i - 1 \in 0 .. Cardinality(clear) - 1
    BY <1>1 DEF NumClear
  <2>2. \E f \in clear : Cardinality({g \in clear : g < f}) = i - 1
    BY <2>1, KthClear
  <2> QED BY <2>2, Zenon
<1>3. Find(n) = [i \in 1 .. n |-> Nth(i)]
  BY DEF Find
<1> HIDE DEF Nth
<1>4. Find(n) \in Seq(Frame)
  <2>1. \A i \in 1 .. n : Nth(i) \in Frame
    BY <1>2, Zenon
  <2> QED BY <1>3, <2>1
<1>5. IsInjective(Find(n))
  <2>1. ASSUME NEW i \in 1 .. n, NEW j \in 1 .. n, Nth(i) = Nth(j)
        PROVE  i = j
    <3>1. i - 1 = j - 1
      BY <1>2, <2>1, Zenon
    <3> QED BY <3>1
  <2> QED BY <1>3, <2>1 DEF IsInjective
<1>6. Range(Find(n)) \subseteq clear
  BY <1>2, <1>3, Zenon DEF Range
<1> QED BY <1>4, <1>5, <1>6

-----------------------------------------------------------------------------
(***************************************************************************)
(* The inductive invariant: besides what FramesExclusive says, a thread    *)
(* has no frames before Allocate, so what it gets replaces nothing.        *)
(***************************************************************************)
SpaceTypes ==
    /\ gPhysPageBitMap \subseteq Frame
    /\ at \in [Thread -> {"open", "allocate", "releaseAgain", "load", "loadNothing",
                          "user"}]
    /\ program \in [Thread -> Program]
    /\ pageTable \in [Thread -> Seq(Frame)]
    /\ mainMemory \in [Written -> (Thread \X Nat) \cup {Nobody}]

Exclusive ==
    /\ \A t \in Thread : IsInjective(pageTable[t])
    /\ \A t, u \in Thread : t # u =>
          Range(pageTable[t]) \cap Range(pageTable[u]) = {}
    /\ gPhysPageBitMap = UNION {Range(pageTable[t]) : t \in Thread}
    /\ \A t \in Thread : at[t] \in {"open", "allocate"} => pageTable[t] = <<>>

SpaceInv == SpaceTypes /\ Exclusive

\* No frames before the first program is loaded.
LEMMA InitSpace == Init => SpaceInv
<1> SUFFICES ASSUME Init PROVE SpaceInv
  OBVIOUS
<1>1. Range(<<>>) = {} /\ IsInjective(<<>>) /\ <<>> \in Seq(Frame)
  BY DEF Range, IsInjective
<1>2. SpaceTypes
  BY <1>1 DEF Init, SpaceTypes
<1>3. Exclusive
  BY <1>1 DEF Init, Exclusive
<1> QED BY <1>2, <1>3 DEF SpaceInv

\* A thread's frames are replaced by frames that no other thread has.
LEMMA NewTable ==
    ASSUME SpaceInv, NEW c \in Thread, NEW pt \in Seq(Frame), IsInjective(pt),
           \A t \in Thread \ {c} : Range(pt) \cap Range(pageTable[t]) = {},
           pageTable' = [pageTable EXCEPT ![c] = pt],
           gPhysPageBitMap' = (gPhysPageBitMap \ Range(pageTable[c])) \cup Range(pt),
           \A t \in Thread : at'[t] \in {"open", "allocate"} =>
              at[t] \in {"open", "allocate"} /\ t # c
    PROVE  /\ Exclusive'
           /\ gPhysPageBitMap' \subseteq Frame
           /\ pageTable' \in [Thread -> Seq(Frame)]
<1>1. pageTable \in [Thread -> Seq(Frame)]
  BY DEF SpaceInv, SpaceTypes
<1>2. /\ pageTable'[c] = pt /\ \A t \in Thread \ {c} : pageTable'[t] = pageTable[t]
      /\ pageTable' \in [Thread -> Seq(Frame)]
  BY <1>1
<1>3. Range(pt) \subseteq Frame
  BY DEF Range
<1>4. \A f : f \in gPhysPageBitMap' <=> \E t \in Thread : f \in Range(pageTable'[t])
  <2>1. \A f : f \in gPhysPageBitMap <=> \E t \in Thread : f \in Range(pageTable[t])
    BY DEF SpaceInv, Exclusive
  <2>2. \A t \in Thread \ {c} : Range(pageTable[t]) \cap Range(pageTable[c]) = {}
    BY DEF SpaceInv, Exclusive
  <2> QED BY <1>2, <2>1, <2>2
<1>5. gPhysPageBitMap' = UNION {Range(pageTable'[t]) : t \in Thread}
  BY <1>4
<1>6. \A t, u \in Thread : t # u => Range(pageTable'[t]) \cap Range(pageTable'[u]) = {}
  BY <1>2 DEF SpaceInv, Exclusive
<1>7. \A t \in Thread : IsInjective(pageTable'[t])
  BY <1>2 DEF SpaceInv, Exclusive
<1>8. \A t \in Thread : at'[t] \in {"open", "allocate"} => pageTable'[t] = <<>>
  BY <1>2 DEF SpaceInv, Exclusive
<1>9. gPhysPageBitMap' \subseteq Frame
  BY <1>3 DEF SpaceInv, SpaceTypes
<1> QED BY <1>2, <1>5, <1>6, <1>7, <1>8, <1>9, Zenon DEF Exclusive

\* Steps that move the current thread on and leave the frames alone.
LEMMA GotoKeeps ==
    ASSUME SpaceInv, currentThread \in Thread,
           NEW loc \in {"allocate", "releaseAgain", "loadNothing"}, Goto(loc),
           loc = "allocate" => at[currentThread] = "open",
           UNCHANGED <<gPhysPageBitMap, program, pageTable, mainMemory>>
    PROVE  SpaceInv'
<1>1. SpaceTypes'
  BY DEF SpaceInv, SpaceTypes, Goto
<1>2. \A t \in Thread : at'[t] \in {"open", "allocate"} => at[t] \in {"open", "allocate"}
  BY DEF SpaceInv, SpaceTypes, Goto
<1>3. Exclusive'
  BY <1>2 DEF SpaceInv, Exclusive
<1> QED BY <1>1, <1>3 DEF SpaceInv

\* The constructor takes frames nobody has.
LEMMA AllocateKeeps == ASSUME SpaceInv, currentThread \in Thread, Allocate PROVE SpaceInv'
<1> DEFINE c == currentThread
           found == Find(Size(MyProgram))
<1>1. Size(MyProgram) \in Nat /\ Size(MyProgram) <= NumClear
  BY AddrSpaceAssumption DEF Allocate, SpaceInv, SpaceTypes, MyProgram, Size
<1>2. /\ found \in Seq(Frame) /\ IsInjective(found)
      /\ Range(found) \subseteq Frame \ gPhysPageBitMap
  BY <1>1, FindFacts DEF SpaceInv, SpaceTypes
<1>3. pageTable[c] = <<>> /\ Range(pageTable[c]) = {}
  BY DEF Allocate, At, SpaceInv, Exclusive, Range
<1> HIDE DEF found
<1>4. \A t \in Thread \ {c} : Range(found) \cap Range(pageTable[t]) = {}
  BY <1>2 DEF SpaceInv, Exclusive
<1>5. /\ pageTable' = [pageTable EXCEPT ![c] = found]
      /\ gPhysPageBitMap' = (gPhysPageBitMap \ Range(pageTable[c])) \cup Range(found)
      /\ at' = [at EXCEPT ![c] = "load"]
      /\ UNCHANGED <<program, mainMemory>>
  BY <1>3 DEF Allocate, Goto, found
<1>6. \A t \in Thread : at'[t] \in {"open", "allocate"} =>
         at[t] \in {"open", "allocate"} /\ t # c
  BY <1>5 DEF SpaceInv, SpaceTypes
<1>7. Exclusive' /\ gPhysPageBitMap' \subseteq Frame /\ pageTable' \in [Thread -> Seq(Frame)]
  BY <1>2, <1>4, <1>5, <1>6, NewTable, Zenon
<1>8. SpaceTypes'
  BY <1>5, <1>7 DEF SpaceInv, SpaceTypes
<1> QED BY <1>7, <1>8 DEF SpaceInv

\* ~AddrSpace gives back exactly the frames of the thread that exits.
LEMMA FreeKeeps ==
    ASSUME SpaceInv, NEW c \in Thread, at[c] = "user",
           gPhysPageBitMap' = gPhysPageBitMap \ Range(pageTable[c]),
           pageTable' = [pageTable EXCEPT ![c] = <<>>],
           UNCHANGED <<at, program, mainMemory>>
    PROVE  SpaceInv'
<1>1. Range(<<>>) = {} /\ IsInjective(<<>>) /\ <<>> \in Seq(Frame)
  BY DEF Range, IsInjective
<1>2. \A t \in Thread : at'[t] \in {"open", "allocate"} =>
         at[t] \in {"open", "allocate"} /\ t # c
  OBVIOUS
<1>3. Exclusive' /\ gPhysPageBitMap' \subseteq Frame /\ pageTable' \in [Thread -> Seq(Frame)]
  BY <1>1, <1>2, NewTable, Zenon
<1>4. SpaceTypes'
  BY <1>3 DEF SpaceInv, SpaceTypes
<1> QED BY <1>3, <1>4 DEF SpaceInv

\* Loading writes memory only.
LEMMA LoadKeeps == ASSUME SpaceInv, currentThread \in Thread, Load PROVE SpaceInv'
<1> DEFINE c == currentThread
           p == MyProgram
           pt == pageTable[c]
<1>1. p.code \in Nat \ {0} /\ p.data \in Nat
  BY AddrSpaceAssumption DEF SpaceInv, SpaceTypes, MyProgram
<1>2. Loaded(c, pt, p) \in [Written -> (Thread \X Nat) \cup {Nobody}]
  <2> HIDE DEF c, p, pt
  <2> SUFFICES ASSUME NEW f \in Written
               PROVE  Loaded(c, pt, p)[f] \in (Thread \X Nat) \cup {Nobody}
    BY Zenon DEF Loaded
  <2>1. CASE \E j \in 1 .. p.data : f = pt[j] + p.code
    <3> DEFINE j == CHOOSE j \in 1 .. p.data : f = pt[j] + p.code
    <3>1. j \in 1 .. p.data
      BY <2>1
    <3>2. p.code - 1 + j \in Nat
      <4> HIDE DEF j
      <4> QED BY <1>1, <3>1
    <3>3. Loaded(c, pt, p)[f] = <<c, p.code - 1 + j>>
      BY <2>1 DEF Loaded
    <3> QED BY <3>2, <3>3 DEF c
  <2>2. CASE /\ ~ \E j \in 1 .. p.data : f = pt[j] + p.code
             /\ \E i \in 1 .. p.code + p.data : f = pt[i]
    <3> DEFINE i == CHOOSE i \in 1 .. p.code + p.data : f = pt[i]
    <3>1. i \in 1 .. p.code + p.data
      BY <2>2
    <3>2. i - 1 \in Nat
      <4> HIDE DEF i
      <4> QED BY <1>1, <3>1
    <3>3. Loaded(c, pt, p)[f] = <<c, i - 1>>
      BY <2>2 DEF Loaded
    <3> QED BY <3>2, <3>3 DEF c
  <2>3. CASE /\ ~ \E j \in 1 .. p.data : f = pt[j] + p.code
             /\ ~ \E i \in 1 .. p.code + p.data : f = pt[i]
    <3>1. Loaded(c, pt, p)[f] = mainMemory[f]
      BY <2>3 DEF Loaded
    <3> QED BY <3>1 DEF SpaceInv, SpaceTypes
  <2> QED BY <2>1, <2>2, <2>3, Zenon
<1>3. SpaceTypes'
  <2>1. mainMemory' = Loaded(c, pt, p) /\ at' = [at EXCEPT ![c] = "user"]
        /\ UNCHANGED <<gPhysPageBitMap, program, pageTable>>
    BY DEF Load, Goto
  <2> HIDE DEF c, p, pt
  <2> QED BY <1>2, <2>1, Zenon DEF SpaceInv, SpaceTypes
<1>4. Exclusive'
  <2>1. \A t \in Thread : at'[t] \in {"open", "allocate"} => at[t] \in {"open", "allocate"}
    BY DEF Load, Goto, SpaceInv, SpaceTypes
  <2>2. UNCHANGED <<gPhysPageBitMap, pageTable>>
    BY DEF Load
  <2> QED BY <2>1, <2>2 DEF SpaceInv, Exclusive
<1> QED BY <1>3, <1>4 DEF SpaceInv

\* Every step keeps the frames exclusive, whoever holds addrLock.
LEMMA StepSpace ==
    ASSUME SpaceInv, currentThread \in Thread, [Next]_vars
    PROVE  SpaceInv'
<1>1. ASSUME UNCHANGED spaceVars PROVE SpaceInv'
  BY <1>1 DEF spaceVars, SpaceInv, SpaceTypes, Exclusive
<1>2. CASE Open
  BY <1>2, GotoKeeps DEF Open, At
<1>3. CASE AllocateFailsMain \/ AllocateFails
  BY <1>3, GotoKeeps DEF AllocateFailsMain, AllocateFails
<1>4. CASE ReleaseAgain
  BY <1>4, GotoKeeps DEF ReleaseAgain
<1>5. CASE Exit
  BY <1>5, FreeKeeps, Zenon DEF Exit, At
<1>6. CASE ExitMain
  BY <1>6, FreeKeeps, ZenonT(30) DEF ExitMain, At
<1>7. CASE \/ \E t \in Thread : Exec(t)
           \/ LoadNothing \/ BusError \/ Schedule \/ UNCHANGED vars
  BY <1>1, <1>7 DEF Exec, LoadNothing, BusError, Schedule, vars
<1> QED BY <1>2, <1>3, <1>4, <1>5, <1>6, <1>7, AllocateKeeps, LoadKeeps DEF Next


-----------------------------------------------------------------------------
(* The threads and addrLock keep the invariant proved of Threads.          *)

T == INSTANCE ThreadsProofs WITH
        Sem <- {addrLock}, InitVal <- [s \in {addrLock} |-> 1],
        DeviceSem <- {}, MaxValue <- 1 + Cardinality(Thread)

\* The assumptions of Threads hold of the instance.
LEMMA ThreadsApply == T!ThreadAssumption /\ T!SemAssumption
<1>1. Cardinality(Thread) \in Nat
  BY FS_CardinalityType, AddrSpaceAssumption, Zenon
<1>2. T!IsFiniteSet(Thread)
  BY AddrSpaceAssumption, ZenonT(30) DEF T!IsFiniteSet, IsFiniteSet
<1> QED BY <1>1, <1>2, AddrSpaceAssumption, SMTT(30) DEF T!ThreadAssumption, T!SemAssumption

\* The calls of the kernel that the actions of AddrSpace make.
KernelStep ==
    \/ \E t \in Thread : K!Fork(t)
    \/ K!InCode /\ K!DoP(sem, addrLock)
    \/ SemV(addrLock)
    \/ K!Halt \/ K!Finish \/ K!Yield \/ K!Resume \/ K!IdleDispatch
    \/ UNCHANGED kernelVars

\* Every call of the kernel keeps the lists and the control blocks consistent.
LEMMA KernelKeeps == ASSUME T!IInv, KernelStep PROVE T!IInv'
<1> USE ThreadsApply DEF T!ThreadAssumption, T!SemAssumption
<1>1. ASSUME NEW t \in Thread, K!Fork(t) PROVE T!IInv'
  <2>1. T!Fork(t)
    BY <1>1, ZenonT(30) DEF K!Fork, T!Fork, K!InCode, T!InCode
  <2> QED BY <2>1, T!ForkStep, ZenonT(30)
<1>2. ASSUME K!InCode, K!DoP(sem, addrLock) PROVE T!IInv'
  <2>1. T!P(addrLock)
    BY <1>2, ZenonT(30) DEF K!InCode, K!DoP, K!BlockOn, K!Take, K!Sleep, K!Run,
       T!P, T!InCode, T!DoP, T!BlockOn, T!Take, T!Sleep, T!Run
  <2> QED BY <2>1, T!PStep, ZenonT(30)
<1>3. ASSUME SemV(addrLock) PROVE T!IInv'
  <2>1. /\ T!DoV(sem, addrLock)
        /\ UNCHANGED <<currentThread, level, machine, resume, waitSem, threadToBeDestroyed>>
    BY <1>3, ZenonT(30) DEF SemV, K!DoV, T!DoV
  <2> QED BY <2>1, T!DoVStep, ZenonT(30)
<1>4. ASSUME K!Halt PROVE T!IInv'
  <2>1. T!Halt
    BY <1>4, ZenonT(30) DEF K!Halt, T!Halt, K!InCode, T!InCode
  <2> QED BY <2>1, T!HaltStep, ZenonT(30)
<1>5. ASSUME K!Finish PROVE T!IInv'
  <2>1. T!Finish
    BY <1>5, ZenonT(30) DEF K!Finish, K!InCode, K!Sleep, K!Run, T!Finish, T!InCode, T!Sleep, T!Run
  <2> QED BY <2>1, T!FinishStep
<1>6. ASSUME K!Yield PROVE T!IInv'
  <2>1. T!Yield
    BY <1>6, ZenonT(30) DEF K!Yield, K!InCode, K!Run, T!Yield, T!InCode, T!Run
  <2> QED BY <2>1, T!YieldStep
<1>7. ASSUME K!Resume PROVE T!IInv'
  <2>1. T!ResumeRoot \/ T!ResumeYield \/ T!ResumeP
    BY <1>7, ZenonT(30) DEF K!Resume, K!ResumeRoot, K!ResumeYield, K!ResumeP, K!Switched, K!BlockOn,
       K!Take, K!Sleep, K!Run, K!Reaped, T!ResumeRoot, T!ResumeYield, T!ResumeP,
       T!Switched, T!BlockOn, T!Take, T!Sleep, T!Run, T!Reaped
  <2> QED BY <2>1, T!ResumeRootStep, T!ResumeYieldStep, T!ResumePStep, ZenonT(30)
<1>8. ASSUME K!IdleDispatch PROVE T!IInv'
  <2>1. T!IdleDispatch
    BY <1>8, ZenonT(30) DEF K!IdleDispatch, K!Run, T!IdleDispatch, T!Run
  <2> QED BY <2>1, T!IdleDispatchStep
<1>9. ASSUME UNCHANGED kernelVars PROVE T!IInv'
  <2>1. T!vars' = T!vars
    BY <1>9, ZenonT(30) DEF kernelVars, T!vars
  <2> QED BY <2>1, T!StepIInv, ZenonT(30)
<1> QED BY <1>1, <1>2, <1>3, <1>4, <1>5, <1>6, <1>7, <1>8, <1>9, ZenonT(30) DEF KernelStep

-----------------------------------------------------------------------------
\* Every step of an address space is one call of the kernel, or none.
LEMMA NextIsKernel == [Next]_vars => KernelStep
BY DEF Next, vars, KernelStep, Exec, Open, Allocate, AllocateFailsMain, AllocateFails,
   ReleaseAgain, LoadNothing, Load, BusError, Exit, ExitMain, Schedule, At

(***************************************************************************)
(* No frame is ever in two address spaces or twice in one, and none is     *)
(* lost: for any number of threads, any programs and any size of memory,   *)
(* although a constructor that fails releases addrLock twice and           *)
(* ~AddrSpace does not take it.                                            *)
(***************************************************************************)
THEOREM FramesAlwaysExclusive == Spec => []FramesExclusive
<1>1. Init => T!IInv
  <2>1. Init => T!Init
    BY ZenonT(30) DEF Init, K!Init, T!Init, K!NewSemaphore, T!NewSemaphore
  <2> QED BY <2>1, T!InitIInv, ThreadsApply, ZenonT(30) DEF T!ThreadAssumption, T!SemAssumption
<1>2. T!IInv => currentThread \in Thread /\ K!TypeOK
  BY ZenonT(30) DEF T!IInv, T!TypeOK, K!TypeOK, T!ThreadStatus, K!ThreadStatus, T!SemState, K!SemState,
     T!ResumePoint, K!ResumePoint
<1>3. T!IInv /\ SpaceInv /\ [Next]_vars => T!IInv' /\ SpaceInv'
  BY <1>2, NextIsKernel, KernelKeeps, StepSpace, ZenonT(30)
<1>4. T!IInv /\ SpaceInv => FramesExclusive
  BY <1>2 DEF SpaceInv, SpaceTypes, Exclusive, FramesExclusive, TypeOK
<1> QED BY <1>1, <1>3, <1>4, InitSpace, PTL DEF Spec
=============================================================================
