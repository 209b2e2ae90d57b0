------------------------------ MODULE AddrSpace ------------------------------
(***************************************************************************)
(* Address spaces: the allocation of physical page frames and the loading  *)
(* of programs by the constructors of AddrSpace (userprog/addrspace.cc),   *)
(* called by StartProcess and StartProcessWithID (userprog/progtest.cc),   *)
(* and their release when a process exits, on top of Threads.              *)
(*                                                                         *)
(* Sizes are in pages: a program has code pages, then initialized data     *)
(* pages (contiguous in the file and in virtual memory, as coff2noff       *)
(* writes them), then uninitialized data and stack.                        *)
(***************************************************************************)
EXTENDS Integers, Sequences, FiniteSets, Functions, FiniteSetsExt

CONSTANTS
    Thread, Main, NoThread, NoSem,
    Program,        \* executables: records [code, data, rest]
    NumPhysPages,   \* frames of Machine::mainMemory, 128
    NumBits,        \* bits of gPhysPageBitMap, 256
    Nobody          \* the owner of a frame no program has been loaded into

addrLock == "addrLock"

ASSUME AddrSpaceAssumption ==
    /\ Main \in Thread /\ IsFiniteSet(Thread)
    /\ NoThread \notin Thread /\ NoSem # addrLock
    /\ Program \subseteq [code : Nat \ {0}, data : Nat, rest : Nat]
    /\ NumPhysPages \in Nat \ {0}
    /\ NumBits \in Nat \ {0}

Frame == 0 .. NumBits - 1

\* Frames a load can write: a data page goes to code pages beyond some frame.
Written == 0 .. NumBits - 1 + Max({p.code : p \in Program})

VARIABLES
    currentThread, level, machine, readyList, status, resume, waitSem, sem,
    threadToBeDestroyed,
    gPhysPageBitMap,    \* the set of marked frames
    at,                 \* where a thread is: in the constructor, or in its program
    program,            \* what the thread runs
    pageTable,          \* AddrSpace::pageTable: the frame of every virtual page
    mainMemory          \* mainMemory[f]: which page of which thread was loaded there

kernelVars == <<currentThread, level, machine, readyList, status, resume,
                waitSem, sem, threadToBeDestroyed>>
spaceVars == <<gPhysPageBitMap, at, program, pageTable, mainMemory>>
vars == <<kernelVars, spaceVars>>

K == INSTANCE Threads WITH Sem <- {addrLock}, InitVal <- [s \in {addrLock} |-> 1],
                           DeviceSem <- {}, MaxValue <- 1 + Cardinality(Thread)

Size(p) == p.code + p.data + p.rest

\* main is about to load the program named on the command line, whatever its size.
Init ==
    /\ K!Init
    /\ gPhysPageBitMap = {}
    /\ at = [t \in Thread |-> "open"]
    /\ program \in [Thread -> Program]
    /\ pageTable = [t \in Thread |-> <<>>]
    /\ mainMemory = [f \in Written |-> Nobody]

At(loc) == K!InCode /\ at[currentThread] = loc
Goto(loc) == at' = [at EXCEPT ![currentThread] = loc]
MyProgram == program[currentThread]

\* What n calls of BitMap::Find return, when that many frames are clear: each is
\* the first clear one and is marked.
Find(n) ==
    LET clear == Frame \ gPhysPageBitMap
    IN  [i \in 1 .. n |->
            CHOOSE f \in clear : Cardinality({g \in clear : g < f}) = i - 1]

NumClear == Cardinality(Frame \ gPhysPageBitMap)

SemV(s) ==
    /\ K!DoV(sem, s)
    /\ UNCHANGED <<currentThread, level, machine, resume, waitSem,
                   threadToBeDestroyed>>

\* SC_Exec of a program: the thread that will run StartProcessWithID is forked.
Exec(t) ==
    /\ At("user")
    /\ K!Fork(t)
    /\ UNCHANGED spaceVars

\* The constructor reads the header and takes addrLock.
Open ==
    /\ At("open")
    /\ K!DoP(sem, addrLock)
    /\ Goto("allocate")
    /\ UNCHANGED <<gPhysPageBitMap, program, pageTable, mainMemory>>

\* Mutant of Allocate: frames are found and not marked.
AllocateUnmarked ==
    /\ At("allocate")
    /\ Size(MyProgram) <= NumClear
    /\ pageTable' = [pageTable EXCEPT ![currentThread] = Find(Size(MyProgram))]
    /\ SemV(addrLock)
    /\ Goto("load")
    /\ UNCHANGED <<gPhysPageBitMap, program, mainMemory>>

\* There are enough clear frames: Find takes the first ones, and addrLock is
\* released.
Allocate ==
    /\ At("allocate")
    /\ Size(MyProgram) <= NumClear
    /\ LET found == Find(Size(MyProgram))
       IN  /\ pageTable' = [pageTable EXCEPT ![currentThread] = found]
           /\ gPhysPageBitMap' = gPhysPageBitMap \cup Range(found)
    /\ SemV(addrLock)
    /\ Goto("load")
    /\ UNCHANGED <<program, mainMemory>>

\* There are not: numPages is 0 and addrLock is released.  The constructor main
\* calls, with the open file, returns, ...
AllocateFailsMain ==
    /\ At("allocate")
    /\ currentThread = Main
    /\ Size(MyProgram) > NumClear
    /\ SemV(addrLock)
    /\ Goto("loadNothing")
    /\ UNCHANGED <<gPhysPageBitMap, program, pageTable, mainMemory>>

\* ... the one other processes call, with the file's name, does not.  It goes on
\* with the empty page table and releases addrLock a second time.
AllocateFails ==
    /\ At("allocate")
    /\ currentThread # Main
    /\ Size(MyProgram) > NumClear
    /\ SemV(addrLock)
    /\ Goto("releaseAgain")
    /\ UNCHANGED <<gPhysPageBitMap, program, pageTable, mainMemory>>

ReleaseAgain ==
    /\ At("releaseAgain")
    /\ SemV(addrLock)
    /\ Goto("loadNothing")
    /\ UNCHANGED <<gPhysPageBitMap, program, pageTable, mainMemory>>

\* The executable is deleted a second time, which aborts, or else the first
\* instruction is outside the empty page table and AddressErrorException halts.
LoadNothing ==
    /\ At("loadNothing")
    /\ K!Halt
    /\ UNCHANGED spaceVars

\* Mutant of Loaded: the data pages land one frame too far.
LoadedOffByOne(t, pt, p) ==
    [f \in Written |->
        IF \E j \in 1 .. p.data : f = pt[j] + p.code + 1
        THEN <<t, p.code - 1 + CHOOSE j \in 1 .. p.data : f = pt[j] + p.code + 1>>
        ELSE IF \E i \in 1 .. p.code + p.data : f = pt[i]
        THEN <<t, (CHOOSE i \in 1 .. p.code + p.data : f = pt[i]) - 1>>
        ELSE mainMemory[f]]

\* Memory after the two loops of ReadAt.  The first copies the file, code and
\* data, page by page to the frames of the page table.  The second copies data
\* page j to initData.virtualAddr bytes after the start of the j-th frame.
Loaded(t, pt, p) ==
    [f \in Written |->
        IF \E j \in 1 .. p.data : f = pt[j] + p.code
        THEN <<t, p.code - 1 + CHOOSE j \in 1 .. p.data : f = pt[j] + p.code>>
        ELSE IF \E i \in 1 .. p.code + p.data : f = pt[i]
        THEN <<t, (CHOOSE i \in 1 .. p.code + p.data : f = pt[i]) - 1>>
        ELSE mainMemory[f]]

Load ==
    /\ At("load")
    /\ mainMemory' = Loaded(currentThread, pageTable[currentThread], MyProgram)
    /\ Goto("user")
    /\ UNCHANGED <<kernelVars, gPhysPageBitMap, program, pageTable>>

\* The program uses a page whose frame does not exist: BusErrorException.
BusError ==
    /\ At("user")
    /\ \E f \in Range(pageTable[currentThread]) : f >= NumPhysPages
    /\ K!Halt
    /\ UNCHANGED spaceVars

\* Mutant of Exit: the frames are not cleared.
ExitKeepsFrames ==
    /\ At("user")
    /\ currentThread # Main
    /\ pageTable' = [pageTable EXCEPT ![currentThread] = <<>>]
    /\ K!Finish
    /\ UNCHANGED <<gPhysPageBitMap, at, program, mainMemory>>

\* FreeSpace and Finish: ~AddrSpace clears the frames, without addrLock.
Exit ==
    /\ At("user")
    /\ currentThread # Main
    /\ gPhysPageBitMap' = gPhysPageBitMap \ Range(pageTable[currentThread])
    /\ pageTable' = [pageTable EXCEPT ![currentThread] = <<>>]
    /\ K!Finish
    /\ UNCHANGED <<at, program, mainMemory>>

\* main exits: FreeSpace and Halt.
ExitMain ==
    /\ At("user")
    /\ currentThread = Main
    /\ gPhysPageBitMap' = gPhysPageBitMap \ Range(pageTable[Main])
    /\ pageTable' = [pageTable EXCEPT ![Main] = <<>>]
    /\ K!Halt
    /\ UNCHANGED <<at, program, mainMemory>>

\* A time slice ends, or the CPU goes to the next thread.
Schedule ==
    /\ K!Yield \/ K!Resume \/ K!IdleDispatch
    /\ UNCHANGED spaceVars

Next ==
    \/ \E t \in Thread : Exec(t)
    \/ Open \/ Allocate \/ AllocateFailsMain \/ AllocateFails \/ ReleaseAgain
    \/ LoadNothing \/ Load \/ BusError \/ Exit \/ ExitMain
    \/ Schedule

Spec == Init /\ [][Next]_vars

-----------------------------------------------------------------------------
(* Properties.                                                             *)

TypeOK ==
    /\ K!TypeOK
    /\ gPhysPageBitMap \subseteq Frame
    /\ at \in [Thread -> {"open", "allocate", "releaseAgain", "load", "loadNothing",
                          "user"}]
    /\ program \in [Thread -> Program]
    /\ pageTable \in [Thread -> Seq(Frame)]
    /\ mainMemory \in [Written -> (Thread \X Nat) \cup {Nobody}]

\* No frame belongs to two address spaces or twice to one, and the bitmap marks
\* exactly the frames that are in use, so none is lost: although a constructor
\* that fails releases addrLock twice and ~AddrSpace does not take it
\* (AddrSpace::AddrSpace, ~AddrSpace, BitMap::Find).
FramesExclusive ==
    /\ TypeOK
    /\ \A t \in Thread : IsInjective(pageTable[t])
    /\ \A t, u \in Thread : t # u =>
          Range(pageTable[t]) \cap Range(pageTable[u]) = {}
    /\ gPhysPageBitMap = UNION {Range(pageTable[t]) : t \in Thread}

Contiguous(pt) == \A i \in 1 .. Len(pt) - 1 : pt[i + 1] = pt[i] + 1

\* The page of thread t at virtual page i - 1 is where its page table says.
Intact(t) ==
    \A i \in 1 .. program[t].code + program[t].data :
        mainMemory[pageTable[t][i]] = <<t, i - 1>>

\* A program runs in thread t.
Runs(t) == at[t] = "user" /\ pageTable[t] # <<>>

\* A program whose frames are contiguous is loaded where its page table says, and
\* loading it damages no program that runs: the second loop of ReadAt writes the
\* data pages again, where they are (AddrSpace::AddrSpace).
ContiguousLoadIntact ==
    [][\A t \in Thread :
          at[t] = "load" /\ at'[t] = "user" /\ Contiguous(pageTable[t]) =>
              /\ Intact(t)'
              /\ \A u \in Thread : Runs(u) /\ Intact(u) => Intact(u)']_vars

\* What addrspace.cc:183 says the loops do: "copy in the code and data segments
\* into memory".  Every program that runs has its pages in its own frames.
ProgramsIntact ==
    \A t \in Thread : Runs(t) => Intact(t)

\* What addrspace.cc:161 says of the test before the allocation: "check the
\* available memory enough to load new process".  No frame beyond the memory is
\* handed out.
EnoughMemory == \A t \in Thread : Range(pageTable[t]) \subseteq 0 .. NumPhysPages - 1

=============================================================================
