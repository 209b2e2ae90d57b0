------------------------ MODULE ProcessTableProofs --------------------------
(***************************************************************************)
(* The process table on the threads and semaphores of the kernel           *)
(* implements Processes, and so SlotsMarked, JoinAfterExit and             *)
(* NeverUndefined hold for any number of threads and slots.                *)
(***************************************************************************)
EXTENDS ProcessTable, TLAPS

\* What Processes sees: the values of the semaphores, the P that a thread is inside,
\* the threads that have been forked, and a PCB without numwait, which nothing reads.
Values == [s \in Semaphores |-> sem[s].value]
Waiting == [t \in Thread |-> IF resume[t] = "P" THEN {waitSem[t]} ELSE {}]
Born == {t \in Thread : status[t] # "JUST_CREATED"}
Pcbs == [i \in Pid |-> [state |-> pcb[i].state, parentID |-> pcb[i].parentID,
                        thread |-> pcb[i].thread]]

-----------------------------------------------------------------------------
(* What a call of the kernel does to that.                                 *)

\* Only forked threads are on a list or on the CPU, a thread inside P is there for
\* a semaphore, and a thread with interrupts on is not in the middle of P or Yield.
KernelInv ==
    /\ K!TypeOK
    /\ currentThread \in Born
    /\ threadToBeDestroyed \in Born \cup {NoThread}
    /\ readyList \in Seq(Born)
    /\ \A s \in Semaphores : sem[s].queue \in Seq(Born)
    /\ \A t \in Thread \ Born : resume[t] = "root"
    /\ \A t \in Thread : resume[t] = "P" => waitSem[t] \in Semaphores
    /\ K!InCode => resume[currentThread] = "code"

SameThreads == Alive' = Alive /\ Born' = Born

Quiet == Values' = Values /\ Waiting' = Waiting /\ SameThreads

\* currentThread finds the value of s zero and is inside its P.
Blocks(s) ==
    /\ Values[s] = 0
    /\ Waiting' = [Waiting EXCEPT ![currentThread] = {s}]
    /\ Values' = Values /\ SameThreads

\* currentThread takes a unit of s and is not inside a P any more.
Takes(s) ==
    /\ Values[s] # 0
    /\ Values' = [Values EXCEPT ![s] = Values[s] - 1]
    /\ Waiting' = [Waiting EXCEPT ![currentThread] = {}]
    /\ SameThreads

\* A unit is added to s.
Adds(s) ==
    /\ Values' = [Values EXCEPT ![s] = Values[s] + 1]
    /\ Waiting' = Waiting /\ SameThreads

\* A thread is forked, and currentThread finishes.
Forks(t) ==
    /\ Values' = Values /\ Waiting' = Waiting
    /\ t \notin Born
    /\ Alive' = Alive \cup {t} /\ Born' = Born \cup {t}

Finishes ==
    /\ Values' = Values /\ Waiting' = Waiting
    /\ Alive' = Alive \ {currentThread} /\ Born' = Born

\* A sequence of forked threads stays one.
LEMMA SeqGrows ==
    ASSUME NEW S, NEW T, S \subseteq T, NEW q \in Seq(S)
    PROVE  q \in Seq(T)
OBVIOUS

\* The types of the kernel's state.
LEMMA KernelTypes ==
    ASSUME KernelInv
    PROVE  /\ currentThread \in Thread /\ currentThread \in Born
           /\ status \in [Thread -> K!ThreadStatus]
           /\ resume \in [Thread -> K!ResumePoint]
           /\ waitSem \in [Thread -> Semaphores \cup {NoSem}]
           /\ sem \in [Semaphores -> K!SemState]
           /\ threadToBeDestroyed \in Born \cup {NoThread}
           /\ readyList \in Seq(Born)
BY DEF KernelInv, K!TypeOK

\* Scheduler::Run of the first ready thread, when st is what the statuses are then.
LEMMA RunKeeps ==
    ASSUME KernelInv, readyList # <<>>, NEW STATE st, st \in [Thread -> K!ThreadStatus],
           \A t \in Born : st[t] # "JUST_CREATED",
           \A t \in Thread \ Born : st[t] = "JUST_CREATED",
           currentThread' = Head(readyList),
           status' = [st EXCEPT ![Head(readyList)] = "RUNNING"]
    PROVE  /\ currentThread' \in Born' /\ Born' = Born
           /\ Tail(readyList) \in Seq(Born)
           /\ status' \in [Thread -> K!ThreadStatus]
<1>1. Head(readyList) \in Born /\ Tail(readyList) \in Seq(Born)
  BY KernelTypes
<1>2. status' \in [Thread -> K!ThreadStatus]
  BY Zenon DEF K!ThreadStatus
<1>3. \A t \in Thread : status'[t] # "JUST_CREATED" <=> t \in Born
  BY <1>1 DEF Born
<1> QED BY <1>1, <1>2, <1>3 DEF Born

\* Thread::Sleep, with a ready thread and without.
LEMMA SleepKeeps ==
    ASSUME KernelInv, NEW STATE st, st \in [Thread -> K!ThreadStatus], K!Sleep(st),
           \A t \in Born : st[t] # "JUST_CREATED",
           \A t \in Thread \ Born : st[t] = "JUST_CREATED"
    PROVE  /\ currentThread' \in Born' /\ Born' = Born
           /\ readyList' \in Seq(Born)
           /\ status' \in [Thread -> K!ThreadStatus]
           /\ machine' \in {"running", "idle", "halted"}
           /\ level' = "IntOff"
<1> DEFINE blocked == [st EXCEPT ![currentThread] = "BLOCKED"]
<1>1. /\ blocked \in [Thread -> K!ThreadStatus]
      /\ \A t \in Born : blocked[t] # "JUST_CREATED"
      /\ \A t \in Thread \ Born : blocked[t] = "JUST_CREATED"
  BY KernelTypes DEF K!ThreadStatus, Born
<1>2. CASE readyList = <<>>
  <2>1. /\ currentThread' = currentThread /\ readyList' = readyList
        /\ status' = blocked
        /\ machine' = "idle" /\ level' = "IntOff"
    BY <1>2 DEF K!Sleep
  <2> HIDE DEF blocked
  <2>2. Born' = Born
    BY <1>1, <2>1 DEF Born
  <2> QED BY <1>1, <2>1, <2>2, KernelTypes
<1>3. CASE readyList # <<>>
  <2>1. /\ currentThread' = Head(readyList) /\ readyList' = Tail(readyList)
        /\ status' = [blocked EXCEPT ![Head(readyList)] = "RUNNING"]
        /\ machine' = "running" /\ level' = "IntOff"
    BY <1>3 DEF K!Sleep, K!Run
  <2> HIDE DEF blocked
  <2> QED BY <1>1, <1>3, <2>1, RunKeeps, Zenon
<1> QED BY <1>2, <1>3

\* Deleting the carcass of a finished thread.
LEMMA ReapedType ==
    ASSUME KernelInv
    PROVE  /\ K!Reaped \in [Thread -> K!ThreadStatus]
           /\ \A t \in Born : K!Reaped[t] # "JUST_CREATED"
           /\ \A t \in Thread \ Born : K!Reaped[t] = "JUST_CREATED"
BY KernelTypes DEF K!Reaped, K!ThreadStatus, Born

\* The state of a semaphore whose queue holds forked threads.
BornSem == [value : Int, queue : Seq(Born)]

\* The semaphores' queues hold forked threads only.
LEMMA SemTypes ==
    ASSUME KernelInv
    PROVE  sem \in [Semaphores -> BornSem]
<1>1. ASSUME NEW s \in Semaphores PROVE sem[s] \in BornSem
  BY KernelTypes DEF KernelInv, K!SemState, BornSem
<1> QED BY <1>1, KernelTypes

\* The invariant of the kernel after a step, from its parts.
LEMMA KernelAgain ==
    ASSUME NEW B, Born \subseteq Born', Born' = B,
           currentThread' \in B,
           level' \in {"IntOn", "IntOff"},
           machine' \in {"running", "idle", "halted"},
           readyList' \in Seq(B),
           status' \in [Thread -> K!ThreadStatus],
           resume' \in [Thread -> K!ResumePoint],
           waitSem' \in [Thread -> Semaphores \cup {NoSem}],
           sem' \in [Semaphores -> [value : Int, queue : Seq(B)]],
           threadToBeDestroyed' \in B \cup {NoThread},
           \A t \in Thread \ B : resume'[t] = "root",
           \A t \in Thread : resume'[t] = "P" => waitSem'[t] \in Semaphores,
           machine' = "running" /\ level' = "IntOn" => resume'[currentThread'] = "code"
    PROVE  KernelInv'
<1>1. B \subseteq Thread
  BY DEF Born
<1>2. readyList' \in Seq(Thread)
  BY <1>1, SeqGrows
<1>3. ASSUME NEW s \in Semaphores
      PROVE  sem'[s] \in K!SemState /\ sem'[s].queue \in Seq(B)
  <2>1. sem'[s] \in [value : Int, queue : Seq(B)]
    OBVIOUS
  <2>2. sem'[s].queue \in Seq(Thread)
    BY <1>1, <2>1, SeqGrows
  <2> QED BY <2>1, <2>2 DEF K!SemState
<1>4. sem' \in [Semaphores -> K!SemState]
  BY <1>3
<1>5. K!TypeOK'
  BY <1>1, <1>2, <1>4 DEF K!TypeOK
<1> QED BY <1>3, <1>5 DEF KernelInv, K!InCode

\* currentThread waits in the queue of s.
LEMMA BlockOnKeeps ==
    ASSUME KernelInv, NEW s \in Semaphores, NEW STATE st, st \in [Thread -> K!ThreadStatus],
           \A t \in Born : st[t] # "JUST_CREATED",
           \A t \in Thread \ Born : st[t] = "JUST_CREATED",
           Values[s] = 0, K!BlockOn(sem, s, st),
           threadToBeDestroyed' \in Born \cup {NoThread}, resume[currentThread] # "done"
    PROVE  KernelInv' /\ Blocks(s)
<1> DEFINE new == [sem[s] EXCEPT !.queue = Append(sem[s].queue, currentThread)]
<1>1. /\ sem \in [Semaphores -> BornSem]
      /\ sem[s] \in BornSem /\ sem[s].queue \in Seq(Born)
      /\ currentThread \in Born
  BY SemTypes, KernelTypes DEF BornSem
<1>2. Append(sem[s].queue, currentThread) \in Seq(Born)
  BY <1>1
<1>3. new \in BornSem /\ new.value = sem[s].value
  BY <1>1, <1>2, Zenon DEF BornSem
<1>4. sem' = [sem EXCEPT ![s] = new]
  BY DEF K!BlockOn
<1> HIDE DEF new
<1>5. sem' \in [Semaphores -> BornSem] /\ Values' = Values
  BY <1>1, <1>3, <1>4 DEF Values
<1>6. /\ resume' = [resume EXCEPT ![currentThread] = "P"]
      /\ waitSem' = [waitSem EXCEPT ![currentThread] = s]
  BY DEF K!BlockOn
<1>7. /\ resume' \in [Thread -> K!ResumePoint]
      /\ waitSem' \in [Thread -> Semaphores \cup {NoSem}]
      /\ resume'[currentThread] = "P" /\ waitSem'[currentThread] = s
      /\ \A t \in Thread \ {currentThread} :
            resume'[t] = resume[t] /\ waitSem'[t] = waitSem[t]
  BY <1>6, KernelTypes DEF K!ResumePoint
<1>8. /\ currentThread' \in Born' /\ Born' = Born
      /\ readyList' \in Seq(Born)
      /\ status' \in [Thread -> K!ThreadStatus]
      /\ machine' \in {"running", "idle", "halted"}
      /\ level' = "IntOff"
  BY SleepKeeps DEF K!BlockOn
<1>9. /\ \A t \in Thread \ Born : resume'[t] = "root"
      /\ \A t \in Thread : resume'[t] = "P" => waitSem'[t] \in Semaphores
  BY <1>1, <1>7 DEF KernelInv
<1>10. KernelInv'
  BY <1>5, <1>7, <1>8, <1>9, KernelAgain DEF BornSem
<1>11. SameThreads
  BY <1>7, <1>8 DEF SameThreads, Alive, Born
<1>12. Waiting' = [Waiting EXCEPT ![currentThread] = {s}]
  BY <1>7, Zenon DEF Waiting
<1> QED BY <1>5, <1>10, <1>11, <1>12 DEF Blocks

\* currentThread takes a unit of s and goes on with interrupts on; sm is sem, or
\* what sem is after the constructor of a PCB.
LEMMA TakeKeeps ==
    ASSUME KernelInv, NEW s \in Semaphores, NEW STATE sm, sm \in [Semaphores -> BornSem],
           K!Take(sm, s), machine = "running", status' \in [Thread -> K!ThreadStatus],
           Born' = Born, threadToBeDestroyed' \in Born \cup {NoThread},
           resume[currentThread] # "done"
    PROVE  /\ KernelInv' /\ SameThreads
           /\ Values' = [x \in Semaphores |-> IF x = s THEN sm[s].value - 1 ELSE sm[x].value]
           /\ Waiting' = [Waiting EXCEPT ![currentThread] = {}]
<1> DEFINE new == [sm[s] EXCEPT !.value = sm[s].value - 1]
<1>1. sm[s] \in BornSem
  OBVIOUS
<1>2. new \in BornSem /\ new.value = sm[s].value - 1
  BY <1>1, SMTT(30) DEF BornSem
<1>3. sem' = [sm EXCEPT ![s] = new]
  BY DEF K!Take
<1> HIDE DEF new
<1>4. /\ sem' \in [Semaphores -> BornSem]
      /\ Values' = [x \in Semaphores |-> IF x = s THEN sm[s].value - 1 ELSE sm[x].value]
  BY <1>1, <1>2, <1>3 DEF Values
<1>5. /\ resume' = [resume EXCEPT ![currentThread] = "code"]
      /\ waitSem' = [waitSem EXCEPT ![currentThread] = NoSem]
      /\ level' = "IntOn" /\ UNCHANGED <<currentThread, machine, readyList>>
  BY DEF K!Take
<1>6. /\ resume' \in [Thread -> K!ResumePoint]
      /\ waitSem' \in [Thread -> Semaphores \cup {NoSem}]
      /\ resume'[currentThread] = "code"
      /\ \A t \in Thread \ {currentThread} :
            resume'[t] = resume[t] /\ waitSem'[t] = waitSem[t]
  BY <1>5, KernelTypes DEF K!ResumePoint
<1>7. /\ \A t \in Thread \ Born : resume'[t] = "root"
      /\ \A t \in Thread : resume'[t] = "P" => waitSem'[t] \in Semaphores
  BY <1>6, KernelTypes DEF KernelInv
<1>8. KernelInv'
  BY <1>4, <1>5, <1>6, <1>7, KernelTypes, KernelAgain DEF BornSem
<1>9. SameThreads
  BY <1>6 DEF SameThreads, Alive, Born
<1>10. Waiting' = [Waiting EXCEPT ![currentThread] = {}]
  BY <1>6, Zenon DEF Waiting
<1> QED BY <1>4, <1>8, <1>9, <1>10

\* One unit less.
LEMMA TakesUnit ==
    ASSUME NEW s \in Semaphores,
           Values' = [x \in Semaphores |-> IF x = s THEN sem[s].value - 1 ELSE sem[x].value]
    PROVE  Values' = [Values EXCEPT ![s] = Values[s] - 1]
BY Zenon DEF Values

\* Semaphore::P, by a thread in its code.
LEMMA PEffect ==
    ASSUME KernelInv, K!InCode, NEW s \in Semaphores, SemP(s)
    PROVE  KernelInv' /\ (Blocks(s) \/ Takes(s))
<1>1. /\ resume[currentThread] # "done" /\ machine = "running"
      /\ threadToBeDestroyed' \in Born \cup {NoThread}
      /\ \A t \in Born : status[t] # "JUST_CREATED"
      /\ \A t \in Thread \ Born : status[t] = "JUST_CREATED"
  BY KernelTypes DEF KernelInv, K!InCode, SemP, K!DoP, Born
<1>2. CASE Values[s] = 0 /\ K!BlockOn(sem, s, status)
  BY <1>1, <1>2, BlockOnKeeps, KernelTypes
<1>3. CASE Values[s] # 0 /\ K!Take(sem, s) /\ UNCHANGED status
  <2>1. Born' = Born
    BY <1>3 DEF Born
  <2>2. /\ KernelInv' /\ SameThreads /\ Waiting' = [Waiting EXCEPT ![currentThread] = {}]
        /\ Values' = [x \in Semaphores |-> IF x = s THEN sem[s].value - 1 ELSE sem[x].value]
    BY <1>1, <1>3, <2>1, TakeKeeps, KernelTypes, SemTypes
  <2> QED BY <1>3, <2>2, TakesUnit DEF Takes
<1> QED BY <1>2, <1>3 DEF SemP, K!DoP, Values

\* A thread woken in Semaphore::P tests the value of its semaphore again.
LEMMA ResumePEffect ==
    ASSUME KernelInv, K!ResumeP
    PROVE  /\ KernelInv'
           /\ \E s \in Semaphores : Waiting[currentThread] = {s} /\ (Blocks(s) \/ Takes(s))
<1>1. /\ resume[currentThread] = "P" /\ machine = "running"
      /\ threadToBeDestroyed' \in Born \cup {NoThread}
  BY DEF K!ResumeP, K!Switched
<1>2. PICK s \in Semaphores : s = waitSem[currentThread] /\ Waiting[currentThread] = {s}
  BY <1>1, KernelTypes DEF KernelInv, Waiting
<1>3. CASE Values[s] = 0 /\ K!BlockOn(sem, s, K!Reaped)
  BY <1>1, <1>2, <1>3, BlockOnKeeps, ReapedType
<1>4. CASE Values[s] # 0 /\ K!Take(sem, s) /\ status' = K!Reaped
  <2>1. Born' = Born
    BY <1>4, ReapedType DEF Born
  <2>2. /\ KernelInv' /\ SameThreads /\ Waiting' = [Waiting EXCEPT ![currentThread] = {}]
        /\ Values' = [x \in Semaphores |-> IF x = s THEN sem[s].value - 1 ELSE sem[x].value]
    BY <1>1, <1>4, <2>1, TakeKeeps, ReapedType, SemTypes
  <2> QED BY <1>2, <1>4, <2>2, TakesUnit, Zenon DEF Takes
<1> QED BY <1>2, <1>3, <1>4 DEF K!ResumeP, Values

\* Semaphore::V.
LEMMA VEffect ==
    ASSUME KernelInv, NEW s \in Semaphores, SemV(s)
    PROVE  KernelInv' /\ Adds(s)
<1> DEFINE q == sem[s].queue
<1>1. /\ sem \in [Semaphores -> BornSem] /\ sem[s] \in BornSem
      /\ q \in Seq(Born) /\ sem[s].value \in Int /\ sem[s].value + 1 \in Int
  BY SemTypes DEF BornSem
<1>2. /\ sem' \in [Semaphores -> BornSem]
      /\ Values' = [Values EXCEPT ![s] = Values[s] + 1]
      /\ readyList' \in Seq(Born)
      /\ status' \in [Thread -> K!ThreadStatus]
      /\ Born' = Born
  <2>1. CASE q = <<>>
    <3> DEFINE new == [sem[s] EXCEPT !.value = sem[s].value + 1]
    <3>1. new \in BornSem /\ new.value = sem[s].value + 1
      BY <1>1 DEF BornSem
    <3>2. sem' = [sem EXCEPT ![s] = new] /\ UNCHANGED <<readyList, status>>
      BY <2>1 DEF SemV, K!DoV
    <3> HIDE DEF new, q
    <3>3. /\ sem' \in [Semaphores -> BornSem]
          /\ Values' = [Values EXCEPT ![s] = Values[s] + 1]
      BY <1>1, <3>1, <3>2, Zenon DEF Values
    <3> QED BY <3>2, <3>3, KernelTypes DEF Born
  <2>2. CASE q # <<>>
    <3> DEFINE new == [value |-> sem[s].value + 1, queue |-> Tail(q)]
    <3>1. Head(q) \in Born /\ Tail(q) \in Seq(Born)
      BY <1>1, <2>2
    <3>2. new \in BornSem /\ new.value = sem[s].value + 1
      BY <1>1, <3>1 DEF BornSem
    <3>3. /\ sem' = [sem EXCEPT ![s] = new]
          /\ readyList' = Append(readyList, Head(q))
          /\ status' = [status EXCEPT ![Head(q)] = "READY"]
      BY <2>2 DEF SemV, K!DoV
    <3> HIDE DEF new, q
    <3>4. readyList' \in Seq(Born)
      BY <3>1, <3>3, KernelTypes
    <3>5. status' \in [Thread -> K!ThreadStatus] /\ Born' = Born
      BY <3>1, <3>3, KernelTypes DEF Born, K!ThreadStatus
    <3>6. /\ sem' \in [Semaphores -> BornSem]
          /\ Values' = [Values EXCEPT ![s] = Values[s] + 1]
      BY <1>1, <3>2, <3>3, Zenon DEF Values
    <3> QED BY <3>4, <3>5, <3>6
  <2> QED BY <2>1, <2>2
<1>3. UNCHANGED <<currentThread, level, machine, resume, waitSem, threadToBeDestroyed>>
  BY DEF SemV
<1>4. KernelInv'
  <2>1. /\ level \in {"IntOn", "IntOff"} /\ machine \in {"running", "idle", "halted"}
        /\ \A t \in Thread \ Born : resume[t] = "root"
        /\ \A t \in Thread : resume[t] = "P" => waitSem[t] \in Semaphores
        /\ machine = "running" /\ level = "IntOn" => resume[currentThread] = "code"
    BY DEF KernelInv, K!TypeOK, K!InCode
  <2> QED BY <1>2, <1>3, <2>1, KernelTypes, KernelAgain DEF BornSem
<1>5. Waiting' = Waiting
  BY <1>3 DEF Waiting
<1>6. SameThreads
  BY <1>2, <1>3 DEF SameThreads, Alive, Born
<1> QED BY <1>2, <1>4, <1>5, <1>6 DEF Adds

\* A thread that is in its code, or comes back from SWITCH elsewhere than in P, is not
\* inside P before or after; r is where it will go on.
LEMMA SwitchWaits ==
    ASSUME KernelInv, NEW r \in {"yield", "code", "done"},
           resume[currentThread] \notin {"P", "done"},
           resume' = [resume EXCEPT ![currentThread] = r], UNCHANGED <<sem, waitSem>>
    PROVE  /\ Values' = Values /\ Waiting' = Waiting
           /\ resume' \in [Thread -> K!ResumePoint]
           /\ resume'[currentThread] = r
           /\ \A t \in Thread \ {currentThread} : resume'[t] = resume[t]
           /\ \A t \in Thread \ Born : resume'[t] = "root"
           /\ \A t \in Thread : resume'[t] = "P" => waitSem'[t] \in Semaphores
<1>1. Values' = Values
  BY DEF Values
<1>2. /\ resume' \in [Thread -> K!ResumePoint]
      /\ resume'[currentThread] = r
      /\ \A t \in Thread \ {currentThread} : resume'[t] = resume[t]
  BY KernelTypes DEF K!ResumePoint
<1>3. Waiting' = Waiting
  BY <1>2, KernelTypes DEF Waiting
<1> QED BY <1>1, <1>2, <1>3, KernelTypes DEF KernelInv

\* Fork, on the thread that PCB::Exec created.
LEMMA ForkEffect ==
    ASSUME KernelInv, NEW t \in Thread, K!Fork(t)
    PROVE  KernelInv' /\ Forks(t)
<1>1. /\ status[t] = "JUST_CREATED"
      /\ readyList' = Append(readyList, t)
      /\ status' = [status EXCEPT ![t] = "READY"]
      /\ UNCHANGED <<currentThread, level, machine, resume, waitSem, sem, threadToBeDestroyed>>
  BY DEF K!Fork
<1>2. /\ t \notin Born /\ Born' = Born \cup {t}
      /\ status' \in [Thread -> K!ThreadStatus]
  BY <1>1, KernelTypes DEF Born, K!ThreadStatus
<1>3. readyList' \in Seq(Born \cup {t})
  <2>1. readyList \in Seq(Born \cup {t})
    BY KernelTypes, SeqGrows
  <2> QED BY <1>1, <2>1
<1>4. ASSUME NEW s \in Semaphores
      PROVE  sem[s] \in [value : Int, queue : Seq(Born \cup {t})]
  <2>1. sem[s] \in BornSem
    BY SemTypes
  <2>2. sem[s].queue \in Seq(Born \cup {t})
    BY <2>1, SeqGrows DEF BornSem
  <2> QED BY <2>1, <2>2 DEF BornSem
<1>5. sem' \in [Semaphores -> [value : Int, queue : Seq(Born \cup {t})]]
  BY <1>1, <1>4, KernelTypes
<1>6. /\ level \in {"IntOn", "IntOff"} /\ machine \in {"running", "idle", "halted"}
      /\ \A u \in Thread \ Born : resume[u] = "root"
      /\ \A u \in Thread : resume[u] = "P" => waitSem[u] \in Semaphores
      /\ machine = "running" /\ level = "IntOn" => resume[currentThread] = "code"
  BY DEF KernelInv, K!TypeOK, K!InCode
<1>7. KernelInv'
  <2>1. PICK B : B = Born \cup {t}
    BY Zenon
  <2>2. /\ Born \subseteq Born' /\ Born' = B /\ readyList' \in Seq(B)
        /\ sem' \in [Semaphores -> [value : Int, queue : Seq(B)]]
    BY <1>2, <1>3, <1>5, <2>1
  <2>3. /\ currentThread' \in B /\ threadToBeDestroyed' \in B \cup {NoThread}
        /\ resume' \in [Thread -> K!ResumePoint]
        /\ waitSem' \in [Thread -> Semaphores \cup {NoSem}]
        /\ \A u \in Thread \ B : resume'[u] = "root"
    BY <1>1, <1>6, <2>1, KernelTypes
  <2> QED BY <1>1, <1>2, <1>6, <2>2, <2>3, KernelAgain, Zenon
<1>8. t \notin Alive /\ Alive' = Alive \cup {t}
  BY <1>1, <1>2, <1>6 DEF Alive, Born
<1>9. Values' = Values /\ Waiting' = Waiting
  BY <1>1 DEF Values, Waiting
<1> QED BY <1>2, <1>7, <1>8, <1>9 DEF Forks

\* Finish.
LEMMA FinishEffect ==
    ASSUME KernelInv, K!Finish
    PROVE  KernelInv' /\ Finishes
<1>1. /\ threadToBeDestroyed' = currentThread
      /\ resume[currentThread] = "code"
      /\ resume' = [resume EXCEPT ![currentThread] = "done"]
      /\ K!Sleep(status)
      /\ UNCHANGED <<waitSem, sem>>
  BY DEF K!Finish, KernelInv
<1>2. /\ currentThread' \in Born' /\ Born' = Born
      /\ readyList' \in Seq(Born)
      /\ status' \in [Thread -> K!ThreadStatus]
      /\ machine' \in {"running", "idle", "halted"}
      /\ level' = "IntOff"
  BY <1>1, KernelTypes, SleepKeeps DEF Born
<1>3. /\ Values' = Values /\ Waiting' = Waiting
      /\ resume' \in [Thread -> K!ResumePoint]
      /\ resume'[currentThread] = "done"
      /\ \A t \in Thread \ {currentThread} : resume'[t] = resume[t]
      /\ \A t \in Thread \ Born : resume'[t] = "root"
      /\ \A t \in Thread : resume'[t] = "P" => waitSem'[t] \in Semaphores
  BY <1>1, SwitchWaits
<1>4. KernelInv'
  BY <1>1, <1>2, <1>3, KernelTypes, SemTypes, KernelAgain DEF BornSem
<1>5. Alive' = Alive \ {currentThread}
  BY <1>2, <1>3 DEF Alive, Born
<1> QED BY <1>2, <1>3, <1>4, <1>5 DEF Finishes

\* The other steps of the scheduler.
LEMMA QuietEffect ==
    ASSUME KernelInv,
           \/ K!Halt \/ K!Yield \/ K!ResumeRoot \/ K!ResumeYield \/ K!IdleDispatch
           \/ UNCHANGED kernelVars
    PROVE  KernelInv' /\ Quiet
<1>1. ASSUME K!Yield PROVE KernelInv' /\ Quiet
  <2> DEFINE st == [status EXCEPT ![currentThread] = "READY"]
  <2>1. /\ st \in [Thread -> K!ThreadStatus] /\ readyList # <<>>
        /\ \A t \in Born : st[t] # "JUST_CREATED"
        /\ \A t \in Thread \ Born : st[t] = "JUST_CREATED"
    BY <1>1, KernelTypes DEF K!Yield, K!ThreadStatus, Born
  <2>2. /\ currentThread' = Head(readyList)
        /\ readyList' = Append(Tail(readyList), currentThread)
        /\ status' = [st EXCEPT ![Head(readyList)] = "RUNNING"]
        /\ machine' = "running" /\ level' = "IntOff"
        /\ resume[currentThread] = "code"
        /\ resume' = [resume EXCEPT ![currentThread] = "yield"]
        /\ UNCHANGED <<sem, waitSem, threadToBeDestroyed>>
    BY <1>1 DEF K!Yield, K!Run, KernelInv
  <2> HIDE DEF st
  <2>3. /\ currentThread' \in Born' /\ Born' = Born
        /\ Tail(readyList) \in Seq(Born)
        /\ status' \in [Thread -> K!ThreadStatus]
    BY <2>1, <2>2, RunKeeps, Zenon
  <2>4. readyList' \in Seq(Born)
    BY <2>2, <2>3, KernelTypes
  <2>5. /\ Values' = Values /\ Waiting' = Waiting
        /\ resume' \in [Thread -> K!ResumePoint]
        /\ resume'[currentThread] = "yield"
        /\ \A t \in Thread \ {currentThread} : resume'[t] = resume[t]
        /\ \A t \in Thread \ Born : resume'[t] = "root"
        /\ \A t \in Thread : resume'[t] = "P" => waitSem'[t] \in Semaphores
    BY <2>2, SwitchWaits
  <2>6. KernelInv'
    BY <2>2, <2>3, <2>4, <2>5, KernelTypes, SemTypes, KernelAgain DEF BornSem
  <2>7. SameThreads
    BY <2>2, <2>3, <2>5 DEF SameThreads, Alive, Born
  <2> QED BY <2>5, <2>6, <2>7 DEF Quiet
<1>2. ASSUME K!IdleDispatch PROVE KernelInv' /\ Quiet
  <2>1. /\ readyList # <<>>
        /\ \A t \in Born : status[t] # "JUST_CREATED"
        /\ \A t \in Thread \ Born : status[t] = "JUST_CREATED"
        /\ currentThread' = Head(readyList) /\ readyList' = Tail(readyList)
        /\ status' = [status EXCEPT ![Head(readyList)] = "RUNNING"]
        /\ machine' = "running" /\ level' = "IntOff"
        /\ UNCHANGED <<resume, waitSem, sem, threadToBeDestroyed>>
    BY <1>2 DEF K!IdleDispatch, K!Run, Born
  <2>2. /\ currentThread' \in Born' /\ Born' = Born
        /\ Tail(readyList) \in Seq(Born)
        /\ status' \in [Thread -> K!ThreadStatus]
    BY <2>1, KernelTypes, RunKeeps, Zenon
  <2>3. /\ \A t \in Thread \ Born : resume'[t] = "root"
        /\ \A t \in Thread : resume'[t] = "P" => waitSem'[t] \in Semaphores
    BY <2>1 DEF KernelInv
  <2>4. KernelInv'
    BY <2>1, <2>2, <2>3, KernelTypes, SemTypes, KernelAgain DEF BornSem
  <2>5. SameThreads
    BY <2>1, <2>2 DEF SameThreads, Alive, Born
  <2>6. Values' = Values /\ Waiting' = Waiting
    BY <2>1 DEF Values, Waiting
  <2> QED BY <2>4, <2>5, <2>6 DEF Quiet
<1>3. ASSUME K!ResumeRoot \/ K!ResumeYield PROVE KernelInv' /\ Quiet
  <2>1. /\ resume[currentThread] \notin {"P", "done"}
        /\ resume' = [resume EXCEPT ![currentThread] = "code"]
        /\ level' = "IntOn" /\ machine = "running"
        /\ UNCHANGED <<currentThread, machine, readyList, waitSem, sem>>
        /\ status' \in {status, K!Reaped}
        /\ threadToBeDestroyed' \in {threadToBeDestroyed, NoThread}
    BY <1>3 DEF K!ResumeRoot, K!ResumeYield, K!Switched
  <2>2. status' \in [Thread -> K!ThreadStatus] /\ Born' = Born
    BY <2>1, ReapedType, KernelTypes DEF Born
  <2>3. /\ Values' = Values /\ Waiting' = Waiting
        /\ resume' \in [Thread -> K!ResumePoint]
        /\ resume'[currentThread] = "code"
        /\ \A t \in Thread \ {currentThread} : resume'[t] = resume[t]
        /\ \A t \in Thread \ Born : resume'[t] = "root"
        /\ \A t \in Thread : resume'[t] = "P" => waitSem'[t] \in Semaphores
    BY <2>1, SwitchWaits
  <2>4. KernelInv'
    BY <2>1, <2>2, <2>3, KernelTypes, SemTypes, KernelAgain DEF BornSem
  <2>5. SameThreads
    BY <2>1, <2>2, <2>3 DEF SameThreads, Alive, Born
  <2> QED BY <2>3, <2>4, <2>5 DEF Quiet
<1>4. ASSUME K!Halt \/ UNCHANGED kernelVars PROVE KernelInv' /\ Quiet
  <2>1. /\ machine' = "halted" \/ UNCHANGED machine
        /\ UNCHANGED <<currentThread, level, readyList, status, resume, waitSem, sem,
                       threadToBeDestroyed>>
    BY <1>4 DEF K!Halt, kernelVars
  <2>2. Born' = Born /\ Alive' = Alive
    BY <2>1 DEF Born, Alive
  <2>3. KernelInv'
    BY <2>1, <2>2 DEF KernelInv, K!TypeOK, K!InCode
  <2>4. Values' = Values /\ Waiting' = Waiting
    BY <2>1 DEF Values, Waiting
  <2> QED BY <2>2, <2>3, <2>4 DEF Quiet, SameThreads
<1> QED BY <1>1, <1>2, <1>3, <1>4

\* A thread in its code is alive and not inside P.
LEMMA InItsCode ==
    ASSUME KernelInv, K!InCode
    PROVE  /\ currentThread \in Thread /\ currentThread \in Alive
           /\ Waiting[currentThread] = {}
<1>1. currentThread \in Born /\ resume[currentThread] = "code"
  BY DEF KernelInv
<1> QED BY <1>1 DEF Waiting, Alive, Born

\* The constructor of a PCB makes new semaphores, and PCB::Exec takes the multex.
LEMMA NewSemaphores ==
    ASSUME KernelInv, K!InCode, NEW i \in Pid,
           K!DoP([s \in Semaphores |->
                     IF s \in PcbSem(i)
                     THEN K!NewSemaphore(IF s = multex(i) THEN 1 ELSE 0)
                     ELSE sem[s]], multex(i))
    PROVE  /\ KernelInv' /\ SameThreads
           /\ Values' = [s \in Semaphores |-> IF s \in PcbSem(i) THEN 0 ELSE Values[s]]
           /\ Waiting' = Waiting
<1> DEFINE sm == [s \in Semaphores |->
                     IF s \in PcbSem(i)
                     THEN K!NewSemaphore(IF s = multex(i) THEN 1 ELSE 0)
                     ELSE sem[s]]
<1>1. \A n \in Int : K!NewSemaphore(n) \in BornSem /\ K!NewSemaphore(n).value = n
  BY DEF K!NewSemaphore, BornSem
<1>2. /\ multex(i) \in PcbSem(i) /\ PcbSem(i) \subseteq Semaphores /\ multex(i) \in Semaphores
      /\ sem \in [Semaphores -> BornSem]
  BY SemTypes DEF PcbSem, Semaphores
<1>3. /\ sm \in [Semaphores -> BornSem] /\ sm[multex(i)].value = 1
      /\ \A s \in PcbSem(i) \ {multex(i)} : sm[s].value = 0
      /\ \A s \in Semaphores \ PcbSem(i) : sm[s] = sem[s]
  <2>1. ASSUME NEW s \in Semaphores PROVE sm[s] \in BornSem
    <3>1. (IF s = multex(i) THEN 1 ELSE 0) \in Int
      OBVIOUS
    <3> QED BY <1>1, <1>2, <3>1
  <2>2. sm \in [Semaphores -> BornSem]
    BY <2>1, Zenon
  <2>3. sm[multex(i)] = K!NewSemaphore(1)
    BY <1>2
  <2>4. \A s \in PcbSem(i) \ {multex(i)} : sm[s] = K!NewSemaphore(0)
    BY <1>2
  <2>5. K!NewSemaphore(1).value = 1 /\ K!NewSemaphore(0).value = 0
    BY <1>1
  <2> QED BY <2>2, <2>3, <2>4, <2>5
<1>4. K!DoP(sm, multex(i))
  OBVIOUS
<1> HIDE DEF sm
<1>5. /\ K!Take(sm, multex(i)) /\ UNCHANGED <<status, threadToBeDestroyed>>
  BY <1>3, <1>4 DEF K!DoP
<1>6. /\ resume[currentThread] # "done" /\ machine = "running" /\ Born' = Born
      /\ status' \in [Thread -> K!ThreadStatus]
      /\ threadToBeDestroyed' \in Born \cup {NoThread}
  BY <1>5, KernelTypes DEF KernelInv, K!InCode, Born
<1>7. /\ KernelInv' /\ SameThreads
      /\ Values' = [x \in Semaphores |-> IF x = multex(i) THEN sm[multex(i)].value - 1
                                                          ELSE sm[x].value]
      /\ Waiting' = [Waiting EXCEPT ![currentThread] = {}]
  BY <1>2, <1>3, <1>5, <1>6, TakeKeeps
<1>8. ASSUME NEW x \in Semaphores
      PROVE  (IF x = multex(i) THEN sm[multex(i)].value - 1 ELSE sm[x].value)
             = (IF x \in PcbSem(i) THEN 0 ELSE Values[x])
  BY <1>2, <1>3 DEF Values
<1>9. Values' = [s \in Semaphores |-> IF s \in PcbSem(i) THEN 0 ELSE Values[s]]
  BY <1>7, <1>8
<1>10. Waiting' = Waiting
  BY <1>7, InItsCode, Zenon DEF Waiting
<1> QED BY <1>7, <1>9, <1>10

\* The machine starts with one thread, in its code.
LEMMA KernelInit == Init => KernelInv
<1> SUFFICES ASSUME Init PROVE KernelInv
  OBVIOUS
<1>1. /\ currentThread = Main /\ level = "IntOn" /\ machine = "running" /\ readyList = <<>>
      /\ status = [t \in Thread |-> IF t = Main THEN "RUNNING" ELSE "JUST_CREATED"]
      /\ resume = [t \in Thread |-> IF t = Main THEN "code" ELSE "root"]
      /\ waitSem = [t \in Thread |-> NoSem]
      /\ sem = [s \in Semaphores |-> K!NewSemaphore(InitialValue[s])]
      /\ threadToBeDestroyed = NoThread
  BY DEF Init, K!Init
<1>2. Born = {Main} /\ Main \in Thread
  BY <1>1, ProcessAssumption, Zenon DEF Born
<1>3. \A s \in Semaphores : sem[s].queue = <<>> /\ sem[s] \in K!SemState
  <2> SUFFICES ASSUME NEW s \in Semaphores PROVE sem[s].queue = <<>> /\ sem[s] \in K!SemState
    OBVIOUS
  <2>1. InitialValue[s] \in Int
    BY DEF InitialValue
  <2>2. sem[s] = [value |-> InitialValue[s], queue |-> <<>>]
    BY <1>1 DEF K!NewSemaphore
  <2> QED BY <2>1, <2>2 DEF K!SemState
<1>4. K!TypeOK
  BY <1>1, <1>2, <1>3 DEF K!TypeOK, K!ThreadStatus, K!ResumePoint
<1>5. \A t \in Thread \ Born : resume[t] = "root"
  BY <1>1, <1>2, Zenon
<1>6. \A t \in Thread : resume[t] # "P"
  BY <1>1, Zenon
<1>7. resume[currentThread] = "code"
  BY <1>1, <1>2, Zenon
<1>8. currentThread = Main /\ readyList = <<>> /\ threadToBeDestroyed = NoThread
  BY <1>1, Zenon
<1>9. readyList \in Seq(Born) /\ \A s \in Semaphores : sem[s].queue \in Seq(Born)
  <2>1. <<>> \in Seq(Born)
    OBVIOUS
  <2> QED BY <1>3, <1>8, <2>1, Zenon
<1> QED BY <1>2, <1>4, <1>5, <1>6, <1>7, <1>8, <1>9, Zenon DEF KernelInv

\* The fields of a new PCB.
LEMMA NewPcbFields ==
    ASSUME NEW p \in Pid \cup {NoPid}
    PROVE  /\ NewPcb(p) \in PcbState
           /\ NewPcb(p) = [state |-> "live", parentID |-> p, numwait |-> 0, thread |-> NoThread]
<1>1. 0 \in Nat
  OBVIOUS
<1> QED BY <1>1, Zenon DEF NewPcb, PcbState

\* An unused slot holds no PCB.
LEMMA NullPcbType == NullPcb \in PcbState
<1>1. 0 \in Nat
  OBVIOUS
<1> QED BY <1>1, Zenon DEF NullPcb, PcbState

\* A PCB is changed, and the others are not.
LEMMA PcbUpdate ==
    ASSUME pcb \in [Pid -> PcbState], NEW i \in Pid, NEW p \in PcbState,
           pcb' = [pcb EXCEPT ![i] = p]
    PROVE  /\ pcb' \in [Pid -> PcbState]
           /\ Pcbs' = [Pcbs EXCEPT ![i] = [state |-> p.state, parentID |-> p.parentID,
                                           thread |-> p.thread]]
<1>1. /\ pcb' \in [Pid -> PcbState] /\ pcb'[i] = p
      /\ \A j \in Pid \ {i} : pcb'[j] = pcb[j]
  BY Zenon
<1> QED BY <1>1, Zenon DEF Pcbs

\* PCB::Exec writes the thread and the parent of the PCB.
LEMMA PcbForked ==
    ASSUME pcb \in [Pid -> PcbState], NEW i \in Pid, NEW t \in Thread, NEW p \in Pid,
           pcb' = [pcb EXCEPT ![i].thread = t, ![i].parentID = p]
    PROVE  /\ pcb' \in [Pid -> PcbState]
           /\ Pcbs' = [Pcbs EXCEPT ![i] = [state |-> @.state, parentID |-> p, thread |-> t]]
<1>1. PICK new : new = [pcb[i] EXCEPT !.thread = t, !.parentID = p]
  OBVIOUS
<1>2. /\ new \in PcbState /\ new.state = pcb[i].state /\ new.thread = t /\ new.parentID = p
  BY <1>1, Zenon DEF PcbState
<1>3. pcb' = [pcb EXCEPT ![i] = new]
  BY <1>1, <1>2, Zenon DEF PcbState
<1>4. /\ pcb' \in [Pid -> PcbState]
      /\ Pcbs' = [Pcbs EXCEPT ![i] = [state |-> new.state, parentID |-> new.parentID,
                                      thread |-> new.thread]]
  BY <1>2, <1>3, PcbUpdate, Zenon
<1>5. Pcbs[i].state = pcb[i].state
  BY Zenon DEF Pcbs
<1> QED BY <1>2, <1>4, <1>5, Zenon

\* Remove frees the PCB.
LEMMA PcbFreed ==
    ASSUME pcb \in [Pid -> PcbState], NEW i \in Pid,
           pcb' = [pcb EXCEPT ![i].state = "freed"]
    PROVE  /\ pcb' \in [Pid -> PcbState]
           /\ Pcbs' = [Pcbs EXCEPT ![i].state = "freed"]
<1>1. PICK new : new = [pcb[i] EXCEPT !.state = "freed"]
  OBVIOUS
<1>2. /\ new \in PcbState /\ new.state = "freed" /\ new.thread = pcb[i].thread
      /\ new.parentID = pcb[i].parentID
  BY <1>1 DEF PcbState
<1>3. pcb' = [pcb EXCEPT ![i] = new]
  BY <1>1, <1>2 DEF PcbState
<1>4. /\ pcb' \in [Pid -> PcbState]
      /\ Pcbs' = [Pcbs EXCEPT ![i] = [state |-> new.state, parentID |-> new.parentID,
                                      thread |-> new.thread]]
  BY <1>2, <1>3, PcbUpdate, Zenon
<1> QED BY <1>2, <1>4, ZenonT(30) DEF Pcbs

\* The number of waiting processes is not visible in Processes.
LEMMA PcbCounted ==
    ASSUME pcb \in [Pid -> PcbState], NEW i \in Pid,
           \/ pcb' = [pcb EXCEPT ![i].numwait = @ + 1]
           \/ pcb' = [pcb EXCEPT ![i].numwait = IF @ > 0 THEN @ - 1 ELSE @]
    PROVE  pcb' \in [Pid -> PcbState] /\ Pcbs' = Pcbs
<1>1. pcb[i] \in PcbState /\ pcb[i].numwait \in Nat
  BY DEF PcbState
<1>2. PICK n \in Nat : pcb' = [pcb EXCEPT ![i].numwait = n]
  <2>1. pcb[i].numwait + 1 \in Nat
    BY <1>1
  <2>2. (IF pcb[i].numwait > 0 THEN pcb[i].numwait - 1 ELSE pcb[i].numwait) \in Nat
    BY <1>1
  <2> QED BY <2>1, <2>2, Zenon
<1>3. PICK new : new = [pcb[i] EXCEPT !.numwait = n]
  BY Zenon
<1>4. /\ new \in PcbState /\ new.state = pcb[i].state /\ new.thread = pcb[i].thread
      /\ new.parentID = pcb[i].parentID
  BY <1>1, <1>3 DEF PcbState
<1>5. pcb' = [pcb EXCEPT ![i] = new]
  BY <1>2, <1>3, <1>4 DEF PcbState
<1>6. /\ pcb' \in [Pid -> PcbState]
      /\ Pcbs' = [Pcbs EXCEPT ![i] = [state |-> new.state, parentID |-> new.parentID,
                                      thread |-> new.thread]]
  BY <1>4, <1>5, PcbUpdate, Zenon
<1> QED BY <1>4, <1>6 DEF Pcbs

\* A step that leaves the kernel alone.
LEMMA StillKernel ==
    ASSUME KernelInv, UNCHANGED kernelVars
    PROVE  KernelInv' /\ SameThreads /\ Values' = Values /\ Waiting' = Waiting
BY QuietEffect, Zenon DEF Quiet

-----------------------------------------------------------------------------
(* The table implements Processes.                                         *)

Abs == INSTANCE Processes WITH value <- Values, waiting <- Waiting, alive <- Alive,
                               born <- Born, pcb <- Pcbs

\* The fields that Processes does not have.
TableTypes == pcb \in [Pid -> PcbState] /\ exited \subseteq Thread

\* What the steps need of the invariant of Processes: a thread has a process, its arg is
\* a slot where it should be, and a process other than the first has a parent.
WithArg == {"execForking", "execForked", "execUnlock"} \cup JoinLoc

IdsInRange ==
    /\ bm \subseteq Pid
    /\ \A t \in Alive :
          /\ processID[t] \in Pid
          /\ at[t] \in WithArg => arg[t] \in Pid
          /\ at[t] \in ExitLoc => processID[t] # 0
          /\ processID[t] # 0 => pcb[processID[t]].parentID \in Pid

StepBase == KernelInv /\ TableTypes /\ IdsInRange

\* The names of Processes are those of the table.
LEMMA Names ==
    /\ Abs!Pid = Pid /\ Abs!NoPid = NoPid /\ Abs!Semaphores = Semaphores /\ Abs!bmsem = bmsem
    /\ \A i : /\ Abs!joinsem(i) = joinsem(i) /\ Abs!exitsem(i) = exitsem(i)
              /\ Abs!multex(i) = multex(i) /\ Abs!PcbSem(i) = PcbSem(i)
    /\ Abs!InitialValue = InitialValue
    /\ Abs!AllLoc = {"user"} \cup ExecLoc \cup ExitLoc \cup JoinLoc
<1>1. /\ Abs!Pid = Pid /\ Abs!NoPid = NoPid /\ Abs!bmsem = bmsem
      /\ \A i : /\ Abs!joinsem(i) = joinsem(i) /\ Abs!exitsem(i) = exitsem(i)
                /\ Abs!multex(i) = multex(i)
  BY Zenon DEF Abs!Pid, Pid, Abs!NoPid, NoPid, Abs!bmsem, bmsem, Abs!joinsem, joinsem,
               Abs!exitsem, exitsem, Abs!multex, multex
<1>2. \A i : Abs!PcbSem(i) = PcbSem(i)
  BY <1>1, Zenon DEF Abs!PcbSem, PcbSem
<1>3. Abs!Semaphores = Semaphores
  BY <1>1, <1>2, Zenon DEF Abs!Semaphores, Semaphores
<1>4. Abs!InitialValue = InitialValue
  BY <1>1, <1>3, Zenon DEF Abs!InitialValue, InitialValue
<1>5. Abs!AllLoc = {"user"} \cup ExecLoc \cup ExitLoc \cup JoinLoc
  BY Zenon DEF Abs!AllLoc, Abs!ExecLoc, ExecLoc, Abs!ExitLoc, ExitLoc, Abs!JoinLoc, JoinLoc
<1> QED BY <1>1, <1>2, <1>3, <1>4, <1>5, Zenon

\* Processes sees the fields of a PCB as they are.
LEMMA PcbFields ==
    \A i \in Pid : /\ Pcbs[i].state = pcb[i].state /\ Pcbs[i].parentID = pcb[i].parentID
                   /\ Pcbs[i].thread = pcb[i].thread
BY DEF Pcbs

\* A thread in its code has a process, and its arg is a slot where it should be.
LEMMA Here ==
    ASSUME StepBase, NEW loc, At(loc)
    PROVE  /\ currentThread \in Thread /\ Abs!At(currentThread, loc)
           /\ processID[currentThread] \in Pid
           /\ loc \in WithArg => arg[currentThread] \in Pid
           /\ Abs!ParentOf(currentThread) = pcb[processID[currentThread]].parentID
           /\ loc \in ExitLoc => processID[currentThread] # 0
           /\ processID[currentThread] # 0 => pcb[processID[currentThread]].parentID \in Pid
<1>1. K!InCode /\ ~undefined /\ at[currentThread] = loc
  BY Zenon DEF At
<1>2. KernelInv /\ IdsInRange
  BY Zenon DEF StepBase
<1>3. /\ currentThread \in Thread /\ currentThread \in Alive /\ Waiting[currentThread] = {}
  BY <1>1, <1>2, InItsCode, Zenon
<1>4. Abs!At(currentThread, loc)
  BY <1>1, <1>3, Zenon DEF Abs!At
<1>5. /\ processID[currentThread] \in Pid
      /\ at[currentThread] \in WithArg => arg[currentThread] \in Pid
      /\ at[currentThread] \in ExitLoc => processID[currentThread] # 0
      /\ processID[currentThread] # 0 => pcb[processID[currentThread]].parentID \in Pid
  BY <1>2, <1>3, Zenon DEF IdsInRange
<1>6. Abs!ParentOf(currentThread) = pcb[processID[currentThread]].parentID
  BY <1>5, PcbFields, Zenon DEF Abs!ParentOf
<1> QED BY <1>1, <1>3, <1>4, <1>5, <1>6, Zenon

\* P and V of the kernel are P and V of Processes.
LEMMA PStep ==
    ASSUME KernelInv, K!InCode, NEW s \in Semaphores, SemP(s)
    PROVE  KernelInv' /\ Abs!P(currentThread, s) /\ UNCHANGED Abs!threads
<1>1. KernelInv' /\ (Blocks(s) \/ Takes(s))
  BY PEffect, Zenon
<1> QED BY <1>1, Zenon DEF Blocks, Takes, SameThreads, Abs!P, Abs!Block, Abs!Take, Abs!threads

\* V adds a unit.
LEMMA VStep ==
    ASSUME KernelInv, NEW s \in Semaphores, SemV(s)
    PROVE  KernelInv' /\ Abs!V(s) /\ UNCHANGED Abs!threads
<1>1. KernelInv' /\ Adds(s)
  BY VEffect, Zenon
<1> QED BY <1>1, Zenon DEF Adds, SameThreads, Abs!V, Abs!threads

\* A step that leaves the table alone.
LEMMA SameTable ==
    ASSUME StepBase, UNCHANGED tableVars
    PROVE  UNCHANGED Abs!table /\ pcb' \in [Pid -> PcbState]
<1>1. UNCHANGED <<bm, pcb, processID>>
  BY Zenon DEF tableVars
<1>2. Pcbs' = Pcbs
  BY <1>1, Zenon DEF Pcbs
<1> QED BY <1>1, <1>2, Zenon DEF Abs!table, StepBase, TableTypes

\* A step that leaves everything alone.
LEMMA StillKeeps ==
    ASSUME StepBase, UNCHANGED vars
    PROVE  KernelInv' /\ TableTypes' /\ UNCHANGED Abs!vars
<1>1. /\ KernelInv /\ UNCHANGED kernelVars /\ UNCHANGED tableVars
      /\ UNCHANGED <<at, arg, kids>> /\ UNCHANGED <<exited, orderly, undefined>>
  BY Zenon DEF StepBase, vars, programVars, history
<1>2. UNCHANGED Abs!table /\ TableTypes'
  BY <1>1, SameTable, Zenon DEF StepBase, TableTypes
<1>3. KernelInv' /\ SameThreads /\ Values' = Values /\ Waiting' = Waiting
  BY <1>1, StillKernel, Zenon
<1> QED BY <1>1, <1>2, <1>3, Zenon DEF SameThreads, Abs!vars, Abs!calls, Abs!threads, Abs!history

\* The semaphores have names.
LEMMA SemNames ==
    /\ bmsem \in Semaphores
    /\ \A i \in Pid : {joinsem(i), exitsem(i), multex(i)} \subseteq Semaphores
BY Zenon DEF Semaphores, PcbSem

\* Exec, up to bmsem->P(), and from bmsem->V().
LEMMA ExecLockSteps ==
    ASSUME StepBase, ExecCall \/ ExecRefused \/ ExecReturn
    PROVE  KernelInv' /\ TableTypes' /\ Abs!Exec(currentThread)
<1>1. /\ K!InCode /\ KernelInv /\ UNCHANGED tableVars /\ UNCHANGED <<exited, orderly, undefined>>
  BY Zenon DEF ExecCall, ExecRefused, ExecReturn, At, history, StepBase
<1>2. UNCHANGED Abs!table /\ TableTypes' /\ UNCHANGED Abs!history
  BY <1>1, SameTable, Zenon DEF StepBase, TableTypes, Abs!history
<1>3. CASE ExecCall
  <2>1. /\ At("user") /\ SemP(bmsem) /\ Goto("execLocked", NoPid) /\ UNCHANGED kids
    BY <1>3, Zenon DEF ExecCall
  <2>2. KernelInv' /\ Abs!P(currentThread, bmsem) /\ UNCHANGED Abs!threads
    BY <1>1, <2>1, PStep, SemNames, Zenon
  <2>3. Abs!Goto(currentThread, "execLocked", NoPid) /\ Abs!At(currentThread, "user")
    BY <2>1, Here, Zenon DEF Goto, Abs!Goto
  <2>4. Abs!ExecCall(currentThread)
    BY <1>2, <2>1, <2>2, <2>3, Names, Zenon DEF Abs!ExecCall
  <2> QED BY <1>2, <2>2, <2>4, Zenon DEF Abs!Exec
<1>4. CASE ExecRefused
  <2>1. /\ At("execLocked") /\ SemV(bmsem) /\ Goto("user", NoPid) /\ UNCHANGED kids
    BY <1>4, Zenon DEF ExecRefused
  <2>2. KernelInv' /\ Abs!V(bmsem) /\ UNCHANGED Abs!threads
    BY <1>1, <2>1, VStep, SemNames, Zenon
  <2>3. Abs!Goto(currentThread, "user", NoPid) /\ Abs!At(currentThread, "execLocked")
    BY <2>1, Here, Zenon DEF Goto, Abs!Goto
  <2>4. Abs!ExecRefused(currentThread)
    BY <1>2, <2>1, <2>2, <2>3, Names, Zenon DEF Abs!ExecRefused
  <2> QED BY <1>2, <2>2, <2>4, Zenon DEF Abs!Exec
<1>5. CASE ExecReturn
  <2>1. /\ At("execUnlock") /\ SemV(bmsem) /\ Goto("user", NoPid)
        /\ kids' = [kids EXCEPT ![currentThread] = @ \cup {arg[currentThread]}]
    BY <1>5, Zenon DEF ExecReturn, MyArg
  <2>2. KernelInv' /\ Abs!V(bmsem) /\ UNCHANGED Abs!threads
    BY <1>1, <2>1, VStep, SemNames, Zenon
  <2>3. Abs!Goto(currentThread, "user", NoPid) /\ Abs!At(currentThread, "execUnlock")
    BY <2>1, Here, Zenon DEF Goto, Abs!Goto
  <2>4. Abs!ExecReturn(currentThread)
    BY <1>2, <2>1, <2>2, <2>3, Names, Zenon DEF Abs!ExecReturn
  <2> QED BY <1>2, <2>2, <2>4, Zenon DEF Abs!Exec
<1> QED BY <1>3, <1>4, <1>5, Zenon

\* The free slot and its new PCB; StartProcessWithID; multex->V().
LEMMA ExecSlotSteps ==
    ASSUME StepBase, ExecNewPcb \/ ExecMultexV \/ \E t \in Thread : ExecFork(t)
    PROVE  KernelInv' /\ TableTypes' /\ Abs!Exec(currentThread)
<1> DEFINE me == currentThread
<1>1. /\ K!InCode /\ KernelInv /\ TableTypes /\ IdsInRange
      /\ UNCHANGED kids /\ UNCHANGED <<exited, orderly, undefined>>
  BY Zenon DEF ExecNewPcb, ExecMultexV, ExecFork, At, history, StepBase
<1>2. UNCHANGED Abs!history /\ exited' \subseteq Thread
  BY <1>1, Zenon DEF Abs!history, TableTypes
<1>3. CASE ExecNewPcb
  <2>1. PICK i \in Pid \ bm :
           /\ Goto("execForking", i)
           /\ bm' = bm \cup {i} /\ pcb' = [pcb EXCEPT ![i] = NewPcb(processID[me])]
           /\ K!DoP([s \in Semaphores |->
                        IF s \in PcbSem(i)
                        THEN K!NewSemaphore(IF s = multex(i) THEN 1 ELSE 0)
                        ELSE sem[s]], multex(i))
    BY <1>3, Zenon DEF ExecNewPcb, MyPid
  <2>2. At("execLocked") /\ UNCHANGED processID
    BY <1>3, Zenon DEF ExecNewPcb
  <2>3. /\ KernelInv' /\ SameThreads /\ Waiting' = Waiting
        /\ Values' = [s \in Semaphores |-> IF s \in PcbSem(i) THEN 0 ELSE Values[s]]
    BY <1>1, <2>1, NewSemaphores, Zenon
  <2>4. Abs!Goto(me, "execForking", i) /\ Abs!At(me, "execLocked") /\ processID[me] \in Pid
    BY <2>1, <2>2, Here, Zenon DEF Goto, Abs!Goto
  <2>5. PICK new \in PcbState : /\ new = NewPcb(processID[me])
                                /\ Abs!NewPcb(processID[me]) = [state |-> new.state,
                                       parentID |-> new.parentID, thread |-> new.thread]
    BY <2>4, NewPcbFields, Zenon DEF Abs!NewPcb
  <2>6. pcb' \in [Pid -> PcbState] /\ Pcbs' = [Pcbs EXCEPT ![i] = Abs!NewPcb(processID[me])]
    <3>1. pcb' = [pcb EXCEPT ![i] = new] /\ pcb \in [Pid -> PcbState]
      BY <1>1, <2>1, <2>5, Zenon DEF TableTypes
    <3>2. /\ pcb' \in [Pid -> PcbState]
          /\ Pcbs' = [Pcbs EXCEPT ![i] = [state |-> new.state, parentID |-> new.parentID,
                                          thread |-> new.thread]]
      BY <3>1, PcbUpdate, Zenon
    <3> QED BY <2>5, <3>2, Zenon
  <2>7. Abs!ExecNewPcb(me, i)
    BY <1>1, <1>2, <2>1, <2>2, <2>3, <2>4, <2>6, Names, ZenonT(30) DEF Abs!ExecNewPcb, SameThreads, Abs!threads
  <2> QED BY <1>2, <2>3, <2>6, <2>7, Names, ZenonT(30) DEF Abs!Exec, TableTypes
<1>4. CASE ExecMultexV
  <2>1. /\ At("execForked") /\ SemV(multex(arg[me])) /\ Goto("execUnlock", arg[me])
        /\ UNCHANGED tableVars
    BY <1>4, Zenon DEF ExecMultexV, MyArg
  <2>2. Abs!Goto(me, "execUnlock", arg[me]) /\ Abs!At(me, "execForked") /\ arg[me] \in Pid
    BY <2>1, Here, Zenon DEF Goto, Abs!Goto, WithArg, JoinLoc
  <2>3. KernelInv' /\ Abs!V(multex(arg[me])) /\ UNCHANGED Abs!threads
    BY <1>1, <2>1, <2>2, VStep, SemNames, Zenon
  <2>4. UNCHANGED Abs!table /\ TableTypes'
    BY <1>2, <2>1, SameTable, Zenon DEF TableTypes
  <2>5. Abs!ExecMultexV(me)
    BY <1>1, <1>2, <2>2, <2>3, <2>4, Names, ZenonT(30) DEF Abs!ExecMultexV
  <2> QED BY <2>3, <2>4, <2>5, Zenon DEF Abs!Exec
<1>5. ASSUME NEW t \in Thread, ExecFork(t)
      PROVE  KernelInv' /\ TableTypes' /\ Abs!Exec(me)
  <2>1. /\ At("execForking") /\ K!Fork(t) /\ Goto("execForked", arg[me]) /\ UNCHANGED bm
        /\ pcb' = [pcb EXCEPT ![arg[me]].thread = t, ![arg[me]].parentID = processID[me]]
        /\ processID' = [processID EXCEPT ![t] = arg[me]]
    BY <1>5, Zenon DEF ExecFork, MyPid, MyArg
  <2>2. KernelInv' /\ Forks(t)
    BY <1>1, <2>1, ForkEffect, Zenon
  <2>3. /\ Abs!Goto(me, "execForked", arg[me]) /\ Abs!At(me, "execForking")
        /\ arg[me] \in Pid /\ processID[me] \in Pid
    BY <2>1, Here, Zenon DEF Goto, Abs!Goto, WithArg, JoinLoc
  <2>4. PICK i \in Pid : i = arg[me]
    BY <2>3, Zenon
  <2>5. /\ pcb' \in [Pid -> PcbState]
        /\ Pcbs' = [Pcbs EXCEPT ![i] = [state |-> @.state, parentID |-> processID[me],
                                        thread |-> t]]
    BY <1>1, <2>1, <2>3, <2>4, PcbForked, Zenon DEF TableTypes
  <2>6. Abs!ExecFork(me, t)
    BY <1>1, <1>2, <2>1, <2>2, <2>3, <2>4, <2>5, Names, ZenonT(30) DEF Abs!ExecFork, Forks
  <2> QED BY <1>2, <2>2, <2>5, <2>6, Zenon DEF Abs!Exec, TableTypes
<1> QED BY <1>3, <1>4, <1>5, Zenon

\* SC_Exit, up to DecNumWait of the parent.
LEMMA ExitCallSteps ==
    ASSUME StepBase, ExitNonZero \/ ExitCall \/ ExitDec
    PROVE  KernelInv' /\ TableTypes' /\ Abs!Exit(currentThread)
<1> DEFINE me == currentThread
<1> DEFINE par == pcb[processID[me]].parentID
<1>1. /\ K!InCode /\ KernelInv /\ TableTypes /\ IdsInRange /\ UNCHANGED kids /\ me \in Thread
  BY InItsCode, Zenon DEF ExitNonZero, ExitCall, ExitDec, At, programVars, StepBase, Undefined
<1>2. CASE ExitNonZero
  <2>1. /\ At("user") /\ exited' = exited \cup {me} /\ orderly' = (orderly /\ kids[me] = {})
        /\ UNCHANGED kernelVars /\ UNCHANGED tableVars /\ UNCHANGED <<at, arg, kids>>
        /\ UNCHANGED undefined
    BY <1>2, Zenon DEF ExitNonZero, Exiting, programVars
  <2>2. Abs!At(me, "user")
    BY <2>1, Here, Zenon
  <2>3. UNCHANGED Abs!table /\ TableTypes'
    BY <1>1, <2>1, SameTable, Zenon DEF TableTypes
  <2>4. KernelInv' /\ Values' = Values /\ Waiting' = Waiting /\ UNCHANGED Abs!threads
    BY <1>1, <2>1, StillKernel, Zenon DEF Abs!threads, SameThreads
  <2>5. Abs!ExitNonZero(me)
    BY <2>1, <2>2, <2>3, <2>4, Zenon DEF Abs!ExitNonZero, Abs!calls
  <2> QED BY <2>3, <2>4, <2>5, Zenon DEF Abs!Exit
<1>3. ASSUME (At("user") /\ processID[me] # 0) \/ At("exitDec"), pcb[par].state # "live",
             Undefined, UNCHANGED orderly
      PROVE  KernelInv' /\ TableTypes' /\ Abs!Exit(me)
  <2>1. /\ undefined' = TRUE /\ UNCHANGED kernelVars /\ UNCHANGED tableVars
        /\ UNCHANGED <<at, arg, kids>> /\ UNCHANGED exited
    BY <1>3, Zenon DEF Undefined, programVars
  <2>2. /\ (Abs!At(me, "user") /\ processID[me] # 0) \/ Abs!At(me, "exitDec")
        /\ Abs!ParentOf(me) = par /\ par \in Pid
    BY <1>3, Here, Zenon DEF ExitLoc
  <2>3. UNCHANGED Abs!table /\ TableTypes'
    BY <1>1, <2>1, SameTable, Zenon DEF TableTypes
  <2>4. KernelInv' /\ Values' = Values /\ Waiting' = Waiting /\ UNCHANGED Abs!threads
    BY <1>1, <2>1, StillKernel, Zenon DEF Abs!threads, SameThreads
  <2>5. Pcbs[Abs!ParentOf(me)].state # "live"
    BY <1>3, <2>2, PcbFields, Zenon
  <2>6. Abs!ExitOrphan(me)
    BY <1>3, <2>1, <2>2, <2>3, <2>4, <2>5, ZenonT(30) DEF Abs!ExitOrphan, Abs!Undefined, Abs!calls
  <2> QED BY <2>3, <2>4, <2>6, Zenon DEF Abs!Exit
<1>4. CASE ExitCall
  <2>1. CASE pcb[par].state # "live"
    BY <1>3, <1>4, <2>1, Zenon DEF ExitCall, MyPid
  <2>2. CASE pcb[par].state = "live"
    <3>1. /\ At("user") /\ processID[me] # 0 /\ SemP(multex(par)) /\ Goto("exitDec", NoPid)
          /\ exited' = exited \cup {me} /\ orderly' = (orderly /\ kids[me] = {})
          /\ UNCHANGED tableVars /\ UNCHANGED undefined
      BY <1>4, <2>2, Zenon DEF ExitCall, MyPid, Exiting
    <3>2. /\ Abs!At(me, "user") /\ Abs!Goto(me, "exitDec", NoPid)
          /\ Abs!ParentOf(me) = par /\ par \in Pid
      BY <3>1, Here, Zenon DEF Goto, Abs!Goto
    <3>3. UNCHANGED Abs!table /\ TableTypes'
      BY <1>1, <3>1, SameTable, Zenon DEF TableTypes
    <3>4. KernelInv' /\ Abs!P(me, multex(par)) /\ UNCHANGED Abs!threads
      BY <1>1, <3>1, <3>2, PStep, SemNames, ZenonT(30)
    <3>5. Pcbs[Abs!ParentOf(me)].state = "live"
      BY <2>2, <3>2, PcbFields, Zenon
    <3>6. Abs!ExitCall(me)
      BY <1>1, <3>1, <3>2, <3>3, <3>4, <3>5, Names, ZenonT(30) DEF Abs!ExitCall
    <3> QED BY <3>3, <3>4, <3>6, Zenon DEF Abs!Exit
  <2> QED BY <2>1, <2>2, Zenon
<1>5. CASE ExitDec
  <2>1. CASE pcb[par].state # "live"
    BY <1>3, <1>5, <2>1, Zenon DEF ExitDec, MyPid
  <2>2. CASE pcb[par].state = "live"
    <3>1. /\ At("exitDec") /\ SemV(multex(par)) /\ Goto("exitRelease", NoPid)
          /\ pcb' = [pcb EXCEPT ![par].numwait = IF @ > 0 THEN @ - 1 ELSE @]
          /\ UNCHANGED <<bm, processID, exited, orderly, undefined>>
      BY <1>5, <2>2, Zenon DEF ExitDec, MyPid, history
    <3>2. /\ Abs!At(me, "exitDec") /\ Abs!Goto(me, "exitRelease", NoPid)
          /\ Abs!ParentOf(me) = par /\ par \in Pid
      BY <3>1, Here, Zenon DEF Goto, Abs!Goto, ExitLoc
    <3>3. pcb' \in [Pid -> PcbState] /\ Pcbs' = Pcbs
      BY <1>1, <3>1, <3>2, PcbCounted, Zenon DEF TableTypes
    <3>4. KernelInv' /\ Abs!V(multex(par)) /\ UNCHANGED Abs!threads
      BY <1>1, <3>1, <3>2, VStep, SemNames, Zenon
    <3>5. Pcbs[Abs!ParentOf(me)].state = "live"
      BY <2>2, <3>2, PcbFields, ZenonT(30)
    <3>6. Abs!ExitDec(me)
      BY <1>1, <3>1, <3>2, <3>3, <3>4, <3>5, Names, ZenonT(30) DEF Abs!ExitDec, Abs!table, Abs!history
    <3> QED BY <1>1, <3>1, <3>3, <3>4, <3>6, Zenon DEF Abs!Exit, TableTypes
  <2> QED BY <2>1, <2>2, Zenon
<1> QED BY <1>2, <1>4, <1>5, Zenon

\* JoinRelease, ExitWait and Remove.
LEMMA ExitEndSteps ==
    ASSUME StepBase, ExitRelease \/ ExitWait \/ ExitRemove
    PROVE  KernelInv' /\ TableTypes' /\ Abs!Exit(currentThread)
<1> DEFINE me == currentThread
<1>1. /\ K!InCode /\ KernelInv /\ TableTypes /\ IdsInRange /\ UNCHANGED kids
      /\ UNCHANGED <<exited, orderly, undefined>>
  BY Zenon DEF ExitRelease, ExitWait, ExitRemove, At, programVars, StepBase, history
<1>2. UNCHANGED Abs!history /\ exited' \subseteq Thread
  BY <1>1, Zenon DEF Abs!history, TableTypes
<1>3. CASE ExitRelease
  <2>1. /\ At("exitRelease") /\ SemV(joinsem(processID[me])) /\ Goto("exitWait", NoPid)
        /\ UNCHANGED tableVars
    BY <1>3, Zenon DEF ExitRelease, MyPid
  <2>2. Abs!At(me, "exitRelease") /\ Abs!Goto(me, "exitWait", NoPid) /\ processID[me] \in Pid
    BY <2>1, Here, Zenon DEF Goto, Abs!Goto
  <2>3. KernelInv' /\ Abs!V(joinsem(processID[me])) /\ UNCHANGED Abs!threads
    BY <1>1, <2>1, <2>2, VStep, SemNames, Zenon
  <2>4. UNCHANGED Abs!table /\ TableTypes'
    BY <1>2, <2>1, SameTable, Zenon DEF TableTypes
  <2>5. Abs!ExitRelease(me)
    BY <1>1, <1>2, <2>2, <2>3, <2>4, Names, ZenonT(30) DEF Abs!ExitRelease
  <2> QED BY <2>3, <2>4, <2>5, Zenon DEF Abs!Exit
<1>4. CASE ExitWait
  <2>1. /\ At("exitWait") /\ SemP(exitsem(processID[me])) /\ Goto("exitRemove", NoPid)
        /\ UNCHANGED tableVars
    BY <1>4, Zenon DEF ExitWait, MyPid
  <2>2. Abs!At(me, "exitWait") /\ Abs!Goto(me, "exitRemove", NoPid) /\ processID[me] \in Pid
    BY <2>1, Here, Zenon DEF Goto, Abs!Goto
  <2>3. KernelInv' /\ Abs!P(me, exitsem(processID[me])) /\ UNCHANGED Abs!threads
    BY <1>1, <2>1, <2>2, PStep, SemNames, Zenon
  <2>4. UNCHANGED Abs!table /\ TableTypes'
    BY <1>2, <2>1, SameTable, Zenon DEF TableTypes
  <2>5. Abs!ExitWait(me)
    BY <1>1, <1>2, <2>2, <2>3, <2>4, Names, Zenon DEF Abs!ExitWait
  <2> QED BY <2>3, <2>4, <2>5, Zenon DEF Abs!Exit
<1>5. CASE ExitRemove
  <2>1. /\ At("exitRemove") /\ K!Finish /\ bm' = bm \ {processID[me]}
        /\ pcb' = [pcb EXCEPT ![processID[me]].state = "freed"]
        /\ UNCHANGED <<processID, at, arg>>
    BY <1>5, Zenon DEF ExitRemove, MyPid, programVars
  <2>2. Abs!At(me, "exitRemove") /\ processID[me] \in Pid
    BY <2>1, Here, Zenon
  <2>3. KernelInv' /\ Finishes
    BY <1>1, <2>1, FinishEffect, Zenon
  <2>4. pcb' \in [Pid -> PcbState] /\ Pcbs' = [Pcbs EXCEPT ![processID[me]].state = "freed"]
    BY <1>1, <2>1, <2>2, PcbFreed, Zenon DEF TableTypes
  <2>5. Abs!ExitRemove(me)
    BY <1>1, <1>2, <2>1, <2>2, <2>3, <2>4, Zenon DEF Abs!ExitRemove, Abs!calls, Finishes
  <2> QED BY <1>2, <2>3, <2>4, <2>5, Zenon DEF Abs!Exit, TableTypes
<1> QED BY <1>3, <1>4, <1>5, Zenon

\* SC_Join, up to IncNumWait of the caller.
LEMMA JoinCallSteps ==
    ASSUME StepBase,
           \/ \E id \in -1 .. MAX_PROCESS - 1 : JoinRefused(id)
           \/ \E id \in 0 .. MAX_PROCESS : JoinOfNoProcess(id)
           \/ \E id \in Pid : JoinCall(id)
           \/ JoinInc
    PROVE  KernelInv' /\ TableTypes' /\ (Abs!Join(currentThread) \/ UNCHANGED Abs!vars)
<1> DEFINE me == currentThread
<1>1. /\ KernelInv /\ TableTypes /\ IdsInRange
  BY Zenon DEF StepBase
<1>2. ASSUME UNCHANGED vars PROVE KernelInv' /\ TableTypes' /\ UNCHANGED Abs!vars
  BY <1>2, StillKeeps, Zenon
<1>3. ASSUME NEW id, JoinRefused(id)
      PROVE  KernelInv' /\ TableTypes' /\ UNCHANGED Abs!vars
  BY <1>2, <1>3, Zenon DEF JoinRefused
<1>4. ASSUME NEW id, JoinOfNoProcess(id)
      PROVE  KernelInv' /\ TableTypes' /\ Abs!Join(me)
  <2>1. /\ At("user") /\ orderly' = FALSE /\ undefined' = TRUE
        /\ UNCHANGED kernelVars /\ UNCHANGED tableVars
        /\ UNCHANGED <<at, arg, kids>> /\ UNCHANGED exited
    BY <1>4, Zenon DEF JoinOfNoProcess, Undefined, programVars
  <2>2. Abs!At(me, "user")
    BY <2>1, Here, Zenon
  <2>3. UNCHANGED Abs!table /\ TableTypes'
    BY <1>1, <2>1, SameTable, Zenon DEF TableTypes
  <2>4. KernelInv' /\ Values' = Values /\ Waiting' = Waiting /\ UNCHANGED Abs!threads
    BY <1>1, <2>1, StillKernel, Zenon DEF Abs!threads, SameThreads
  <2>5. Abs!JoinOfNoProcess(me)
    BY <2>1, <2>2, <2>3, <2>4, Zenon DEF Abs!JoinOfNoProcess, Abs!Undefined, Abs!calls
  <2> QED BY <2>3, <2>4, <2>5, Zenon DEF Abs!Join
<1>5. ASSUME NEW id \in Pid, JoinCall(id)
      PROVE  KernelInv' /\ TableTypes' /\ Abs!Join(me)
  <2>1. /\ At("user") /\ pcb[id].state # "null" /\ pcb[id].parentID = processID[me]
        /\ orderly' = (orderly /\ id \in kids[me]) /\ SemP(multex(processID[me]))
        /\ Goto("joinInc", id) /\ UNCHANGED tableVars /\ UNCHANGED <<kids, exited, undefined>>
    BY <1>5, Zenon DEF JoinCall, MyPid
  <2>2. Abs!At(me, "user") /\ Abs!Goto(me, "joinInc", id) /\ processID[me] \in Pid
    BY <2>1, Here, Zenon DEF Goto, Abs!Goto
  <2>3. UNCHANGED Abs!table /\ TableTypes'
    BY <1>1, <2>1, SameTable, Zenon DEF TableTypes
  <2>4. KernelInv' /\ Abs!P(me, multex(processID[me])) /\ UNCHANGED Abs!threads
    BY <1>1, <2>1, <2>2, PStep, SemNames, Zenon DEF At
  <2>5. Pcbs[id].state # "null" /\ Pcbs[id].parentID = processID[me]
    BY <2>1, PcbFields, Zenon
  <2>6. Abs!JoinCall(me, id)
    BY <2>1, <2>2, <2>3, <2>4, <2>5, Names, Zenon DEF Abs!JoinCall
  <2> QED BY <2>3, <2>4, <2>6, Names, Zenon DEF Abs!Join
<1>6. ASSUME JoinInc
      PROVE  KernelInv' /\ TableTypes' /\ Abs!Join(me)
  <2>1. /\ At("joinInc") /\ SemV(multex(processID[me])) /\ Goto("joinWait", arg[me])
        /\ pcb' = [pcb EXCEPT ![processID[me]].numwait = @ + 1]
        /\ UNCHANGED <<bm, processID, kids, exited, orderly, undefined>>
    BY <1>6, Zenon DEF JoinInc, MyPid, MyArg, history
  <2>2. Abs!At(me, "joinInc") /\ Abs!Goto(me, "joinWait", arg[me]) /\ processID[me] \in Pid
    BY <2>1, Here, Zenon DEF Goto, Abs!Goto
  <2>3. pcb' \in [Pid -> PcbState] /\ Pcbs' = Pcbs
    BY <1>1, <2>1, <2>2, PcbCounted, Zenon DEF TableTypes
  <2>4. KernelInv' /\ Abs!V(multex(processID[me])) /\ UNCHANGED Abs!threads
    BY <1>1, <2>1, <2>2, VStep, SemNames, Zenon
  <2>5. Abs!JoinInc(me)
    BY <2>1, <2>2, <2>3, <2>4, Names, Zenon DEF Abs!JoinInc, Abs!table, Abs!history
  <2> QED BY <1>1, <2>1, <2>3, <2>4, <2>5, Zenon DEF Abs!Join, TableTypes
<1> QED BY <1>3, <1>4, <1>5, <1>6, Zenon

\* JoinWait, and ExitRelease of the process.
LEMMA JoinEndSteps ==
    ASSUME StepBase, JoinWait \/ JoinReturn
    PROVE  KernelInv' /\ TableTypes' /\ Abs!Join(currentThread)
<1> DEFINE me == currentThread
<1>1. /\ K!InCode /\ KernelInv /\ TableTypes /\ IdsInRange /\ UNCHANGED exited
  BY Zenon DEF JoinWait, JoinReturn, At, StepBase, history, Undefined
<1>2. exited' \subseteq Thread
  BY <1>1, Zenon DEF TableTypes
<1>3. CASE JoinWait
  <2>1. /\ At("joinWait") /\ Abs!At(me, "joinWait") /\ arg[me] \in Pid
    BY <1>3, Here, Zenon DEF JoinWait, WithArg, JoinLoc
  <2>2. CASE pcb[arg[me]].state = "live"
    <3>1. /\ SemP(joinsem(arg[me])) /\ Goto("joinRelease", arg[me])
          /\ UNCHANGED tableVars /\ UNCHANGED <<kids, orderly, undefined>>
      BY <1>3, <2>2, Zenon DEF JoinWait, MyArg, history
    <3>2. UNCHANGED Abs!table /\ TableTypes'
      BY <1>2, <3>1, SameTable, Zenon DEF TableTypes
    <3>3. KernelInv' /\ Abs!P(me, joinsem(arg[me])) /\ UNCHANGED Abs!threads
      BY <1>1, <2>1, <3>1, PStep, SemNames, Zenon
    <3>4. Pcbs[arg[me]].state = "live" /\ Abs!Goto(me, "joinRelease", arg[me])
      BY <2>1, <2>2, <3>1, PcbFields, Zenon DEF Goto, Abs!Goto
    <3>5. Abs!JoinWait(me)
      BY <2>1, <3>1, <3>2, <3>3, <3>4, Names, Zenon DEF Abs!JoinWait, Abs!history
    <3> QED BY <3>2, <3>3, <3>5, Zenon DEF Abs!Join
  <2>3. CASE pcb[arg[me]].state # "live"
    <3>1. /\ undefined' = TRUE /\ UNCHANGED kernelVars /\ UNCHANGED tableVars
          /\ UNCHANGED <<at, arg, kids>> /\ UNCHANGED orderly
      BY <1>3, <2>3, Zenon DEF JoinWait, MyArg, Undefined, programVars
    <3>2. UNCHANGED Abs!table /\ TableTypes'
      BY <1>2, <3>1, SameTable, Zenon DEF TableTypes
    <3>3. KernelInv' /\ Values' = Values /\ Waiting' = Waiting /\ UNCHANGED Abs!threads
      BY <1>1, <3>1, StillKernel, Zenon DEF Abs!threads, SameThreads
    <3>4. Pcbs[arg[me]].state # "live"
      BY <2>1, <2>3, PcbFields, Zenon
    <3>5. Abs!JoinLate(me)
      BY <2>1, <3>1, <3>2, <3>3, <3>4, Zenon DEF Abs!JoinLate, Abs!Undefined, Abs!calls
    <3> QED BY <3>2, <3>3, <3>5, Zenon DEF Abs!Join
  <2> QED BY <2>2, <2>3, Zenon
<1>4. CASE JoinReturn
  <2>1. /\ At("joinRelease") /\ SemV(exitsem(arg[me])) /\ Goto("user", NoPid)
        /\ kids' = [kids EXCEPT ![me] = @ \ {arg[me]}]
        /\ UNCHANGED tableVars /\ UNCHANGED <<orderly, undefined>>
    BY <1>4, Zenon DEF JoinReturn, MyArg, history
  <2>2. Abs!At(me, "joinRelease") /\ Abs!Goto(me, "user", NoPid) /\ arg[me] \in Pid
    BY <2>1, Here, Zenon DEF Goto, Abs!Goto, WithArg, JoinLoc
  <2>3. UNCHANGED Abs!table /\ TableTypes'
    BY <1>2, <2>1, SameTable, Zenon DEF TableTypes
  <2>4. KernelInv' /\ Abs!V(exitsem(arg[me])) /\ UNCHANGED Abs!threads
    BY <1>1, <2>1, <2>2, VStep, SemNames, Zenon
  <2>5. Abs!JoinReturn(me)
    BY <2>1, <2>2, <2>3, <2>4, Names, Zenon DEF Abs!JoinReturn, Abs!history
  <2> QED BY <2>3, <2>4, <2>5, Zenon DEF Abs!Join
<1> QED BY <1>3, <1>4, Zenon

\* Halt, time slices and the dispatcher: a thread inside P may get its unit.
LEMMA SchedulerSteps ==
    ASSUME StepBase, HaltCall \/ TimeSlice \/ Dispatch
    PROVE  /\ KernelInv' /\ TableTypes'
           /\ UNCHANGED Abs!vars \/ \E s \in Semaphores : Abs!Wake(currentThread, s)
<1> DEFINE me == currentThread
<1>1. /\ KernelInv /\ TableTypes /\ UNCHANGED tableVars
      /\ UNCHANGED <<at, arg, kids>> /\ UNCHANGED <<exited, orderly, undefined>>
      /\ K!Halt \/ K!Yield \/ K!Resume \/ K!IdleDispatch
  BY Zenon DEF HaltCall, TimeSlice, Dispatch, StepBase, programVars, history
<1>2. UNCHANGED Abs!table /\ TableTypes' /\ UNCHANGED Abs!history
  BY <1>1, SameTable, Zenon DEF TableTypes, Abs!history
<1>3. CASE KernelInv' /\ Quiet
  BY <1>1, <1>2, <1>3, Zenon DEF Quiet, SameThreads, Abs!vars, Abs!calls, Abs!threads
<1>4. CASE K!ResumeP
  <2>1. PICK s \in Semaphores : Waiting[me] = {s} /\ (Blocks(s) \/ Takes(s))
    BY <1>1, <1>4, ResumePEffect, Zenon
  <2>2. KernelInv'
    BY <1>1, <1>4, ResumePEffect, Zenon
  <2>3. CASE Blocks(s)
    <3>1. Waiting' = Waiting
      BY <2>1, <2>3, Zenon DEF Blocks, Waiting
    <3> QED BY <1>2, <1>3, <2>2, <2>3, <3>1, Zenon DEF Blocks, Quiet
  <2>4. CASE Takes(s)
    <3>1. me \in Alive
      BY <1>1, <1>4, KernelTypes, Zenon DEF Alive, Born, K!ResumeP
    <3>2. Abs!Wake(me, s)
      BY <1>1, <1>2, <2>1, <2>4, <3>1, Zenon DEF Takes, SameThreads, Abs!Wake, Abs!Take, Abs!threads
    <3> QED BY <1>2, <2>2, <3>2, Zenon
  <2> QED BY <2>1, <2>3, <2>4, Zenon
<1> QED BY <1>1, <1>3, <1>4, QuietEffect, Zenon DEF K!Resume

-----------------------------------------------------------------------------
(* The theorems.                                                           *)

\* The machine starts as Processes does.
LEMMA StartsLikeIt == Init => KernelInv /\ TableTypes /\ Abs!Init
<1> SUFFICES ASSUME Init PROVE KernelInv /\ TableTypes /\ Abs!Init
  OBVIOUS
<1>1. /\ status = [t \in Thread |-> IF t = Main THEN "RUNNING" ELSE "JUST_CREATED"]
      /\ resume = [t \in Thread |-> IF t = Main THEN "code" ELSE "root"]
      /\ sem = [s \in Semaphores |-> K!NewSemaphore(InitialValue[s])]
      /\ bm = {0} /\ exited = {} /\ orderly = TRUE /\ undefined = FALSE
      /\ pcb = [i \in Pid |-> IF i = 0 THEN NewPcb(NoPid) ELSE NullPcb]
      /\ processID = [t \in Thread |-> IF t = Main THEN 0 ELSE NoPid]
      /\ at = [t \in Thread |-> "user"] /\ arg = [t \in Thread |-> NoPid]
      /\ kids = [t \in Thread |-> {}]
  BY Zenon DEF Init, K!Init
<1>2. /\ Waiting = [t \in Thread |-> {}] /\ Born = {Main} /\ Alive = {Main}
  BY <1>1, ProcessAssumption, Zenon DEF Waiting, Born, Alive
<1>3. Values = InitialValue
  <2>1. \A n : K!NewSemaphore(n).value = n
    BY Zenon DEF K!NewSemaphore
  <2> QED BY <1>1, <2>1, Zenon DEF Values, InitialValue
<1>4. /\ NewPcb(NoPid) \in PcbState /\ NullPcb \in PcbState
  BY NewPcbFields, NullPcbType, Zenon
<1>5. pcb \in [Pid -> PcbState]
  BY <1>1, <1>4, Zenon
<1>6. Pcbs = [i \in Pid |-> IF i = 0 THEN Abs!NewPcb(NoPid) ELSE Abs!NullPcb]
  <2>1. ASSUME NEW i \in Pid
        PROVE  [state |-> pcb[i].state, parentID |-> pcb[i].parentID, thread |-> pcb[i].thread]
               = IF i = 0 THEN Abs!NewPcb(NoPid) ELSE Abs!NullPcb
    <3>1. CASE i = 0
      BY <1>1, <3>1, Names, Zenon DEF NewPcb, Abs!NewPcb
    <3>2. CASE i # 0
      BY <1>1, <3>2, Names, Zenon DEF NullPcb, Abs!NullPcb
    <3> QED BY <3>1, <3>2, Zenon
  <2> QED BY <2>1, Zenon DEF Pcbs
<1>7. Abs!Init
  BY <1>1, <1>2, <1>3, <1>6, Names, Zenon DEF Abs!Init
<1> QED BY <1>1, <1>5, <1>7, KernelInit, Zenon DEF TableTypes

\* The current thread is a thread.
LEMMA CurrentThread == ASSUME StepBase PROVE currentThread \in Thread
BY KernelTypes, Zenon DEF StepBase

\* A step of the table is a step of Processes, or none.
LEMMA StepsLikeIt ==
    ASSUME StepBase, [Next]_vars
    PROVE  KernelInv' /\ TableTypes' /\ [Abs!Next]_(Abs!vars)
<1>1. CASE Exec
  <2>1. KernelInv' /\ TableTypes' /\ Abs!Exec(currentThread)
    BY <1>1, ExecLockSteps, ExecSlotSteps, Zenon DEF Exec
  <2> QED BY <2>1, CurrentThread, Zenon DEF Abs!Next
<1>2. CASE Exit
  <2>1. KernelInv' /\ TableTypes' /\ Abs!Exit(currentThread)
    BY <1>2, ExitCallSteps, ExitEndSteps, Zenon DEF Exit
  <2> QED BY <2>1, CurrentThread, Zenon DEF Abs!Next
<1>3. CASE Join
  <2>1. KernelInv' /\ TableTypes' /\ (Abs!Join(currentThread) \/ UNCHANGED Abs!vars)
    BY <1>3, JoinCallSteps, JoinEndSteps, Zenon DEF Join
  <2> QED BY <2>1, CurrentThread, Zenon DEF Abs!Next
<1>4. CASE HaltCall \/ TimeSlice \/ Dispatch
  <2>1. /\ KernelInv' /\ TableTypes'
        /\ UNCHANGED Abs!vars \/ \E s \in Semaphores : Abs!Wake(currentThread, s)
    BY <1>4, SchedulerSteps, Zenon
  <2> QED BY <2>1, CurrentThread, Names, Zenon DEF Abs!Next
<1>5. CASE UNCHANGED vars
  BY <1>5, StillKeeps, Zenon
<1> QED BY <1>1, <1>2, <1>3, <1>4, <1>5, Zenon DEF Next

R == INSTANCE ProcessesProofs WITH value <- Values, waiting <- Waiting, alive <- Alive,
                                   born <- Born, pcb <- Pcbs

TableInv == KernelInv /\ TableTypes /\ R!TableInv

\* The names of Processes again, as its proofs have them.
LEMMA NamesInProofs ==
    /\ R!Pid = Pid /\ R!NoPid = NoPid /\ R!ExitLoc = ExitLoc /\ R!WithArg = WithArg
    /\ \A i : R!PcbSem(i) = PcbSem(i)
    /\ R!AllLoc = {"user"} \cup ExecLoc \cup ExitLoc \cup JoinLoc
BY Zenon DEF R!Pid, Pid, R!NoPid, NoPid, R!ExitLoc, ExitLoc, R!WithArg, WithArg,
             R!JoinLoc, JoinLoc, R!ExecLoc, ExecLoc, R!AllLoc, R!PcbSem, PcbSem,
             R!joinsem, joinsem, R!exitsem, exitsem, R!multex, multex

\* The proofs of Processes are about the same specification.
LEMMA SameProcesses ==
    /\ Abs!Init => R!Init
    /\ [Abs!Next]_(Abs!vars) => [R!Next]_(R!vars)
<1>1. Abs!Init => R!Init
  BY ZenonT(30) DEF Abs!Init, R!Init, Abs!InitialValue, R!InitialValue, Abs!Semaphores, R!Semaphores,
     Abs!PcbSem, R!PcbSem, Abs!bmsem, R!bmsem, Abs!joinsem, R!joinsem, Abs!exitsem, R!exitsem,
     Abs!multex, R!multex, Abs!Pid, R!Pid, Abs!NoPid, R!NoPid,
     Abs!NewPcb, R!NewPcb, Abs!NullPcb, R!NullPcb
<1> USE DEF Abs!Semaphores, R!Semaphores,
     Abs!PcbSem, R!PcbSem, Abs!bmsem, R!bmsem, Abs!joinsem, R!joinsem, Abs!exitsem, R!exitsem,
     Abs!multex, R!multex, Abs!Pid, R!Pid, Abs!NoPid, R!NoPid,
     Abs!NewPcb, R!NewPcb, Abs!NullPcb, R!NullPcb, Abs!ParentOf, R!ParentOf,
     Abs!vars, R!vars, Abs!calls, R!calls, Abs!threads, R!threads, Abs!table, R!table,
     Abs!history, R!history, Abs!At, R!At, Abs!Goto, R!Goto, Abs!P, R!P, Abs!V, R!V,
     Abs!Block, R!Block, Abs!Take, R!Take, Abs!Undefined, R!Undefined
<1>2. \A t : Abs!Exec(t) => R!Exec(t)
  BY ZenonT(30) DEF Abs!Exec, R!Exec, Abs!ExecCall, R!ExecCall, Abs!ExecRefused, R!ExecRefused,
     Abs!ExecMultexV, R!ExecMultexV, Abs!ExecReturn, R!ExecReturn,
     Abs!ExecNewPcb, R!ExecNewPcb, Abs!ExecFork, R!ExecFork
<1>3. \A t : Abs!Exit(t) => R!Exit(t)
  BY ZenonT(30) DEF Abs!Exit, R!Exit, Abs!ExitNonZero, R!ExitNonZero, Abs!ExitCall, R!ExitCall,
     Abs!ExitDec, R!ExitDec, Abs!ExitOrphan, R!ExitOrphan, Abs!ExitRelease, R!ExitRelease,
     Abs!ExitWait, R!ExitWait, Abs!ExitRemove, R!ExitRemove
<1>4. \A t : Abs!Join(t) => R!Join(t)
  BY ZenonT(30) DEF Abs!Join, R!Join, Abs!JoinOfNoProcess, R!JoinOfNoProcess, Abs!JoinInc, R!JoinInc,
     Abs!JoinWait, R!JoinWait, Abs!JoinLate, R!JoinLate, Abs!JoinReturn, R!JoinReturn,
     Abs!JoinCall, R!JoinCall
<1>5. \A t, s : Abs!Wake(t, s) => R!Wake(t, s)
  BY Zenon DEF Abs!Wake, R!Wake
<1>6. [Abs!Next]_(Abs!vars) => [R!Next]_(R!vars)
  BY <1>2, <1>3, <1>4, <1>5, ZenonT(30) DEF Abs!Next, R!Next
<1> QED BY <1>1, <1>6, ZenonT(30)

\* The invariant of Processes is enough for the steps.
LEMMA EnoughForSteps == ASSUME TableInv PROVE StepBase
<1>1. bm \subseteq Pid
  BY NamesInProofs, ZenonT(30) DEF TableInv, R!TableInv, R!Types
<1>2. ASSUME NEW t \in Alive
      PROVE  /\ processID[t] \in Pid
             /\ at[t] \in WithArg => arg[t] \in Pid
             /\ at[t] \in ExitLoc => processID[t] # 0
             /\ processID[t] # 0 => R!ParentOf(t) \in Pid
  BY R!OneThread, NamesInProofs, ProcessAssumption, ZenonT(30) DEF TableInv
<1>3. \A t \in Alive : R!ParentOf(t) = pcb[processID[t]].parentID
  BY <1>2, PcbFields, ZenonT(30) DEF R!ParentOf
<1> QED BY <1>1, <1>2, <1>3, ZenonT(30) DEF TableInv, StepBase, IdsInRange

\* The invariant of Processes holds of the table, by its own induction step.
LEMMA Invariant == Spec => []TableInv
<1>1. Init => TableInv
  BY StartsLikeIt, SameProcesses, R!InitInv, ProcessAssumption, ZenonT(30) DEF TableInv
<1>2. TableInv /\ [Next]_vars => TableInv'
  <2> SUFFICES ASSUME TableInv, [Next]_vars PROVE TableInv'
    BY Zenon
  <2>1. KernelInv' /\ TableTypes' /\ [Abs!Next]_(Abs!vars)
    BY EnoughForSteps, StepsLikeIt, ZenonT(30)
  <2>2. R!TableInv
    BY Zenon DEF TableInv
  <2>3. R!TableInv'
    BY <2>1, <2>2, SameProcesses, R!StepInv, ProcessAssumption, ZenonT(30)
  <2> QED BY <2>1, <2>3, ZenonT(30) DEF TableInv
<1> QED BY <1>1, <1>2, PTL DEF Spec

\* PTable::ExecUpdate, ExitUpdate and JoinUpdate, on semaphores that keep queues of
\* sleeping threads, on a ready list and with interrupts turned off and on, do what
\* Processes does with counters and threads that go on when they like: whatever the
\* order of the ready list and wherever time slices end.
THEOREM ImplementsProcesses == Spec => Abs!Spec
<1>1. Init => Abs!Init
  BY StartsLikeIt, ZenonT(30)
<1>2. TableInv /\ [Next]_vars => [Abs!Next]_(Abs!vars)
  BY EnoughForSteps, StepsLikeIt, ZenonT(30)
<1> QED BY <1>1, <1>2, Invariant, PTL DEF Spec, Abs!Spec

\* PTable::GetFreeSlot, ExecUpdate and Remove: for any number of threads and slots,
\* a slot is marked exactly while a process owns it or Exec is filling it, and no two
\* processes have the same id.
THEOREM SlotsAreProcesses == Spec => []SlotsMarked
<1>1. ASSUME TableInv PROVE SlotsMarked
  <2>1. KernelInv /\ TableTypes /\ R!TableInv /\ R!SlotsMarked
    BY <1>1, R!SlotFacts, ProcessAssumption, ZenonT(30) DEF TableInv
  <2>2. TypeOK
    BY <2>1, NamesInProofs, ZenonT(30) DEF TypeOK, KernelInv, TableTypes, R!TableInv, R!Types
  <2>3. /\ \A t, u \in Alive : processID[t] = processID[u] => t = u
        /\ bm = {processID[t] : t \in Alive}
                \cup {arg[t] : t \in {u \in Alive : at[u] = "execForking"}}
        /\ \A i \in Pid : i \in bm <=> pcb[i].state = "live"
    BY <2>1, NamesInProofs, PcbFields, ZenonT(30) DEF R!SlotsMarked
  <2> QED BY <2>2, <2>3, ZenonT(30) DEF SlotsMarked
<1>2. TableInv => SlotsMarked
  BY <1>1, ZenonT(30)
<1> QED BY <1>2, Invariant, PTL

\* PTable::JoinUpdate and ExitUpdate: for any number of threads and slots, Join
\* returns from JoinWait only when the process has called Exit(0) and still waits in
\* ExitWait, or is about to be removed, so GetExitCode and ExitRelease use its PCB.
THEOREM JoinWaitsForExit == Spec => []JoinAfterExit
<1>1. ASSUME TableInv PROVE JoinAfterExit
  <2> SUFFICES ASSUME NEW t \in Thread, at[t] = "joinRelease", K!InCode, currentThread = t
               PROVE  /\ pcb[arg[t]].state = "live"
                      /\ at[pcb[arg[t]].thread] \in {"exitWait", "exitRemove"}
    BY Zenon DEF JoinAfterExit
  <2>1. KernelInv /\ R!TableInv /\ R!JoinAfterExit
    BY <1>1, R!JoinFacts, ProcessAssumption, ZenonT(30) DEF TableInv
  <2>2. Waiting[t] = {}
    BY <2>1, InItsCode, ZenonT(30)
  <2>3. arg[t] \in Pid
    BY <2>1, NamesInProofs, ZenonT(30) DEF R!TableInv, R!Types, WithArg, JoinLoc
  <2> QED BY <2>1, <2>2, <2>3, PcbFields, ZenonT(30) DEF R!JoinAfterExit
<1>2. TableInv => JoinAfterExit
  BY <1>1, Zenon
<1> QED BY <1>2, Invariant, PTL

\* PTable::ExitUpdate and JoinUpdate: for any number of threads and slots, programs
\* that join each child once never make the kernel use a null or freed PCB, and ~PCB
\* never deletes a semaphore with a thread in its queue.
THEOREM OrderlyNeverUndefined == Spec => []NeverUndefined
<1>1. ASSUME TableInv PROVE NeverUndefined
  <2> SUFFICES ASSUME orderly
               PROVE  /\ ~undefined
                      /\ \A t \in Thread : resume[t] = "P" /\ status[t] = "BLOCKED" =>
                            \A i \in Pid : waitSem[t] \in PcbSem(i) => pcb[i].state = "live"
    BY Zenon DEF NeverUndefined
  <2>1. R!NeverUndefined
    BY <1>1, R!OrderFacts, ProcessAssumption, ZenonT(30) DEF TableInv
  <2>2. ASSUME NEW t \in Thread, resume[t] = "P", status[t] = "BLOCKED", NEW i \in Pid,
               waitSem[t] \in PcbSem(i)
        PROVE  pcb[i].state = "live"
    <3>1. t \in Alive /\ Waiting[t] = {waitSem[t]}
      BY <2>2, ZenonT(30) DEF Alive, Waiting
    <3>2. Pcbs[i].state = "live"
      BY <2>1, <2>2, <3>1, NamesInProofs, ZenonT(30) DEF R!NeverUndefined
    <3> QED BY <3>2, PcbFields, ZenonT(30)
  <2> QED BY <2>1, <2>2, ZenonT(30) DEF R!NeverUndefined
<1>2. TableInv => NeverUndefined
  BY <1>1, Zenon
<1> QED BY <1>2, Invariant, PTL

=============================================================================
