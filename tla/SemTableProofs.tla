--------------------------- MODULE SemTableProofs ---------------------------
(***************************************************************************)
(* Proof that SemTable implements NamedSemaphores, for any threads, any    *)
(* names, any size of the table and any initial values.                    *)
(***************************************************************************)
EXTENDS SemTable, SequenceTheorems, WellFoundedInduction, TLAPS

\* The counters as the table has them: the refinement mapping of Counters.
Val == [n \in Name |-> CounterOf(n)]

\* What a counter with this value is.
Shown(value) == IF value >= 0 THEN value ELSE NoName

Counter == [value : Int, queue : Seq(Thread)]

\* The lists hold threads, and a semaphore has a value and a list.
KernelTypes ==
    /\ currentThread \in Thread
    /\ readyList \in Seq(Thread)
    /\ resume \in [Thread -> K!ResumePoint]
    /\ DOMAIN waitSem = Thread
    /\ sem \in [Slot -> Counter]

\* No name is in two slots, and a thread inside P is there for a semaphore that
\* has been created: Create puts a new semaphore only where nobody waits.
TableInv ==
    /\ KernelTypes
    /\ semTab \in [Slot -> Name \cup {NoName}]
    /\ \A i, j \in Slot : semTab[i] = semTab[j] /\ semTab[i] # NoName => i = j
    /\ \A t \in Thread : resume[t] = "P" => waitSem[t] \in Slot /\ semTab[waitSem[t]] \in Name

-----------------------------------------------------------------------------
(* Looking a name up, and finding a free slot.                             *)

\* STable::Wait and Signal find the one slot that has the name.
LEMMA LookUp ==
    ASSUME NEW tab \in [Slot -> Name \cup {NoName}], NEW n \in Name,
           \A i, j \in Slot : tab[i] = tab[j] /\ tab[i] # NoName => i = j
    PROVE  LET found == Min({i \in Slot : tab[i] = n})
           IN  /\ n \in Range(tab) => found \in Slot /\ tab[found] = n
               /\ \A i \in Slot : tab[i] = n => n \in Range(tab) /\ found = i
<1> DEFINE found == Min({i \in Slot : tab[i] = n})
<1>1. ASSUME NEW i \in Slot, tab[i] = n
      PROVE  n \in Range(tab) /\ found = i
  <2>1. {j \in Slot : tab[j] = n} = {i}
    BY <1>1, SemTableAssumption
  <2>2. Min({i}) = i
    BY SemTableAssumption DEF Min, Slot
  <2>3. n \in Range(tab)
    BY <1>1 DEF Range
  <2> QED BY <2>1, <2>2, <2>3
<1>2. n \in Range(tab) => \E i \in Slot : tab[i] = n
  BY DEF Range
<1> QED BY <1>1, <1>2

\* So they do in the table of this state, ...
LEMMA SlotOfName ==
    ASSUME TableInv, NEW n \in Name
    PROVE  /\ Created(n) => SlotOf(n) \in Slot /\ semTab[SlotOf(n)] = n
           /\ \A i \in Slot : semTab[i] = n => Created(n) /\ SlotOf(n) = i
BY LookUp DEF TableInv, Created, SlotOf

\* ... and in that of the next one.
LEMMA SlotOfNamePrime ==
    ASSUME TableInv', NEW n \in Name
    PROVE  /\ Created(n)' => (SlotOf(n) \in Slot)' /\ (semTab[SlotOf(n)] = n)'
           /\ \A i \in Slot : (semTab[i] = n)' => Created(n)' /\ SlotOf(n)' = i
BY LookUp DEF TableInv, Created, SlotOf

\* A set of slots that is not empty has a smallest one.
LEMMA MinSlot ==
    ASSUME NEW S \in SUBSET Slot, S # {}
    PROVE  Min(S) \in S
<1>1. S \subseteq Nat
  BY SemTableAssumption DEF Slot
<1>2. \E x \in S : \A y \in S : ~(<<y, x>> \in OpToRel(<, Nat))
  BY <1>1, NatLessThanWellFounded, WFMin, Zenon
<1>3. PICK x \in S : \A y \in S : ~(<<y, x>> \in OpToRel(<, Nat))
  BY <1>2
<1>4. \A y \in S : ~(y < x)
  BY <1>1, <1>3, Zenon DEF OpToRel
<1>5. \A y \in S : x <= y
  BY <1>1, <1>4
<1> QED BY <1>5 DEF Min

-----------------------------------------------------------------------------
(* What a step may do to the counters.                                     *)

\* The table and every value are as before: so are the counters.
LEMMA ValSame ==
    ASSUME TableInv, UNCHANGED semTab, \A i \in Slot : sem'[i].value = sem[i].value
    PROVE  Val' = Val
<1>1. ASSUME NEW n \in Name
      PROVE  Created(n)' = Created(n) /\ SlotOf(n)' = SlotOf(n)
  BY DEF Created, SlotOf
<1>2. \A n \in Name : Created(n) => SlotOf(n) \in Slot
  BY SlotOfName
<1> QED BY <1>1, <1>2 DEF Val, CounterOf

\* One value is changed: so is the counter of the name in that slot.
LEMMA ValChanged ==
    ASSUME TableInv, UNCHANGED semTab, NEW k \in Slot, semTab[k] \in Name,
           \A i \in Slot : i # k => sem'[i].value = sem[i].value
    PROVE  /\ Val[semTab[k]] = Shown(sem[k].value)
           /\ Val' = [Val EXCEPT ![semTab[k]] = Shown(sem'[k].value)]
<1> DEFINE n == semTab[k]
<1>1. ASSUME NEW m \in Name
      PROVE  Created(m)' = Created(m) /\ SlotOf(m)' = SlotOf(m)
  BY DEF Created, SlotOf
<1>2. Created(n) /\ SlotOf(n) = k
  BY SlotOfName
<1>3. Val[n] = Shown(sem[k].value)
  BY <1>2 DEF Val, CounterOf, Shown
<1>4. ASSUME NEW m \in Name
      PROVE  Val'[m] = [Val EXCEPT ![n] = Shown(sem'[k].value)][m]
  <2>1. CASE m = n
    BY <2>1, <1>1, <1>2 DEF Val, CounterOf, Shown
  <2>2. CASE m # n
    <3>1. Created(m) => SlotOf(m) \in Slot /\ SlotOf(m) # k
      BY <2>2, SlotOfName
    <3> QED BY <2>2, <3>1, <1>1 DEF Val, CounterOf
  <2> QED BY <2>1, <2>2
<1> QED BY <1>3, <1>4 DEF Val

-----------------------------------------------------------------------------
(* The steps of the kernel.                                                *)

\* Run and Sleep take threads from the ready list.
LEMMA SleepTypes ==
    ASSUME KernelTypes, NEW STATE st, K!Sleep(st)
    PROVE  currentThread' \in Thread /\ readyList' \in Seq(Thread)
<1>1. CASE readyList # <<>>
  <2>1. currentThread' = Head(readyList) /\ readyList' = Tail(readyList)
    BY <1>1 DEF K!Sleep, K!Run
  <2> QED BY <1>1, <2>1, HeadTailProperties DEF KernelTypes
<1>2. CASE readyList = <<>>
  BY <1>2 DEF KernelTypes, K!Sleep
<1> QED BY <1>1, <1>2

\* Semaphore::P finds the value zero: no counter changes.
LEMMA BlockKeeps ==
    ASSUME TableInv, NEW s \in Slot, semTab[s] \in Name, NEW STATE st, K!BlockOn(sem, s, st),
           UNCHANGED semTab
    PROVE  TableInv' /\ Val' = Val
<1>1. currentThread' \in Thread /\ readyList' \in Seq(Thread)
  BY SleepTypes DEF TableInv, K!BlockOn
<1>2. /\ sem' \in [Slot -> Counter]
      /\ \A i \in Slot : sem'[i].value = sem[i].value
  <2> DEFINE new == [sem[s] EXCEPT !.queue = Append(sem[s].queue, currentThread)]
  <2>1. sem \in [Slot -> Counter] /\ sem[s] \in Counter /\ sem' = [sem EXCEPT ![s] = new]
    BY DEF TableInv, KernelTypes, K!BlockOn
  <2>2. Append(sem[s].queue, currentThread) \in Seq(Thread)
    BY <2>1, AppendProperties DEF TableInv, KernelTypes, Counter
  <2>3. new \in Counter /\ new.value = sem[s].value
    BY <2>1, <2>2, Zenon DEF Counter
  <2> HIDE DEF new
  <2> QED BY <2>1, <2>3
<1>3. /\ resume' \in [Thread -> K!ResumePoint]
      /\ DOMAIN waitSem' = Thread
      /\ \A t \in Thread : resume'[t] = "P" =>
            waitSem'[t] \in Slot /\ semTab'[waitSem'[t]] \in Name
  BY DEF TableInv, KernelTypes, K!BlockOn, K!ResumePoint
<1> QED BY <1>1, <1>2, <1>3, ValSame DEF TableInv, KernelTypes

\* Semaphore::P does not find zero: the counter of that name goes down by one, or the
\* value is negative, stays so, and the name is no counter.
LEMMA TakeKeeps ==
    ASSUME TableInv, NEW s \in Slot, semTab[s] \in Name, sem[s].value # 0, K!Take(sem, s),
           UNCHANGED semTab
    PROVE  TableInv' /\ (Counters!Down(semTab[s]) \/ Val' = Val)
<1>1. /\ sem' \in [Slot -> Counter]
      /\ sem'[s].value = sem[s].value - 1
      /\ sem[s].value \in Int
      /\ \A i \in Slot : i # s => sem'[i].value = sem[i].value
  <2> DEFINE new == [sem[s] EXCEPT !.value = sem[s].value - 1]
  <2>1. sem \in [Slot -> Counter] /\ sem[s] \in Counter /\ sem' = [sem EXCEPT ![s] = new]
    BY DEF TableInv, KernelTypes, K!Take
  <2>2. new \in Counter /\ new.value = sem[s].value - 1 /\ sem[s].value \in Int
    BY <2>1, SMTT(30) DEF Counter
  <2> HIDE DEF new
  <2> QED BY <2>1, <2>2
<1>2. /\ resume' \in [Thread -> K!ResumePoint]
      /\ DOMAIN waitSem' = Thread
      /\ \A t \in Thread : resume'[t] = "P" =>
            waitSem'[t] \in Slot /\ semTab'[waitSem'[t]] \in Name
  BY DEF TableInv, KernelTypes, K!Take, K!ResumePoint
<1>3. TableInv'
  BY <1>1, <1>2 DEF TableInv, KernelTypes, K!Take
<1>4. /\ Val[semTab[s]] = Shown(sem[s].value)
      /\ Val' = [Val EXCEPT ![semTab[s]] = Shown(sem[s].value - 1)]
  BY <1>1, ValChanged
<1>5. CASE sem[s].value > 0
  <2>1. Shown(sem[s].value) = sem[s].value /\ Shown(sem[s].value - 1) = sem[s].value - 1
    BY <1>1, <1>5 DEF Shown
  <2>2. sem[s].value # NoName
    BY <1>1, SemTableAssumption
  <2>3. /\ Val[semTab[s]] # NoName /\ Val[semTab[s]] > 0
        /\ Val' = [Val EXCEPT ![semTab[s]] = Val[semTab[s]] - 1]
    BY <1>4, <1>5, <2>1, <2>2, Zenon
  <2> QED BY <1>3, <2>3 DEF Counters!Down, Val
<1>6. CASE sem[s].value < 0
  <2>1. Val[semTab[s]] = NoName /\ Shown(sem[s].value - 1) = NoName
    BY <1>1, <1>4, <1>6 DEF Shown
  <2>2. Val' = Val
    BY <1>4, <2>1 DEF Val
  <2> QED BY <1>3, <2>2
<1> QED BY <1>1, <1>5, <1>6

\* A step that adds one to the value of a semaphore adds one to its counter; from -1
\* it makes the name a counter, and from below it does nothing to the counters.
LEMMA DoVResult ==
    ASSUME TableInv, NEW s \in Slot, semTab[s] \in Name, NEW STATE new, new \in Counter,
           new.value = sem[s].value + 1, sem' = [sem EXCEPT ![s] = new],
           readyList' \in Seq(Thread), UNCHANGED <<currentThread, resume, waitSem, semTab>>
    PROVE  TableInv' /\ [Counters!Next]_Val
<1>1. /\ sem' \in [Slot -> Counter]
      /\ sem'[s].value = sem[s].value + 1
      /\ sem[s].value \in Int
      /\ \A i \in Slot : i # s => sem'[i].value = sem[i].value
  BY DEF TableInv, KernelTypes, Counter
<1>2. TableInv'
  BY <1>1 DEF TableInv, KernelTypes
<1>3. /\ Val[semTab[s]] = Shown(sem[s].value)
      /\ Val' = [Val EXCEPT ![semTab[s]] = Shown(sem[s].value + 1)]
  BY <1>1, ValChanged
<1>4. CASE sem[s].value >= 0
  <2>1. Shown(sem[s].value) = sem[s].value /\ Shown(sem[s].value + 1) = sem[s].value + 1
    BY <1>1, <1>4 DEF Shown
  <2>2. sem[s].value # NoName
    BY <1>1, SemTableAssumption
  <2>3. /\ Val[semTab[s]] # NoName
        /\ Val' = [Val EXCEPT ![semTab[s]] = Val[semTab[s]] + 1]
    BY <1>3, <2>1, <2>2, Zenon
  <2>4. Counters!Up(semTab[s])
    BY <2>3 DEF Counters!Up, Val
  <2> QED BY <1>2, <2>4 DEF Counters!Next
<1>5. CASE sem[s].value = -1
  <2>1. Val[semTab[s]] = NoName /\ Shown(sem[s].value + 1) = 0
    BY <1>1, <1>3, <1>5 DEF Shown
  <2>2. Val' = [Val EXCEPT ![semTab[s]] = 0] /\ Val'[semTab[s]] = 0
    BY <1>3, <2>1, Zenon DEF Val
  <2>3. Val' = [Val EXCEPT ![semTab[s]] = Val'[semTab[s]]]
    BY <2>2, Zenon
  <2>4. Counters!Create(semTab[s])
    <3>1. Val'[semTab[s]] \in Nat
      BY <2>2
    <3> QED BY <2>1, <2>3, <3>1, Zenon DEF Counters!Create, Val
  <2> QED BY <1>2, <2>4 DEF Counters!Next
<1>6. CASE sem[s].value < -1
  <2>1. Val[semTab[s]] = NoName /\ Shown(sem[s].value + 1) = NoName
    BY <1>1, <1>3, <1>6 DEF Shown
  <2>2. Val' = Val
    BY <1>3, <2>1 DEF Val
  <2> QED BY <1>2, <2>2
<1> QED BY <1>1, <1>4, <1>5, <1>6

\* Semaphore::V is such a step, whoever is woken.
LEMMA DoVKeeps ==
    ASSUME TableInv, NEW s \in Slot, semTab[s] \in Name, K!DoV(sem, s),
           UNCHANGED <<currentThread, resume, waitSem, semTab>>
    PROVE  TableInv' /\ [Counters!Next]_Val
<1> DEFINE q == sem[s].queue
<1>1. /\ sem \in [Slot -> Counter] /\ sem[s] \in Counter
      /\ q \in Seq(Thread) /\ sem[s].value \in Int
  BY DEF TableInv, KernelTypes, Counter
<1>2. CASE q = <<>>
  <2> DEFINE new == [sem[s] EXCEPT !.value = sem[s].value + 1]
  <2>1. sem' = [sem EXCEPT ![s] = new] /\ UNCHANGED readyList
    BY <1>2 DEF K!DoV
  <2>2. readyList' \in Seq(Thread)
    BY <2>1 DEF TableInv, KernelTypes
  <2>3. new \in Counter /\ new.value = sem[s].value + 1
    BY <1>1 DEF Counter
  <2> HIDE DEF new
  <2> QED BY <1>1, <2>1, <2>2, <2>3, DoVResult, Zenon
<1>3. CASE q # <<>>
  <2> DEFINE new == [value |-> sem[s].value + 1, queue |-> Tail(q)]
  <2>1. sem' = [sem EXCEPT ![s] = new] /\ readyList' = Append(readyList, Head(q))
    BY <1>3 DEF K!DoV
  <2>2. Head(q) \in Thread /\ Tail(q) \in Seq(Thread)
    BY <1>1, <1>3, HeadTailProperties
  <2>3. readyList' \in Seq(Thread)
    BY <2>1, <2>2, AppendProperties DEF TableInv, KernelTypes
  <2>4. new \in Counter /\ new.value = sem[s].value + 1
    BY <1>1, <2>2 DEF Counter
  <2> HIDE DEF new
  <2> QED BY <1>1, <2>1, <2>3, <2>4, DoVResult, Zenon
<1> QED BY <1>2, <1>3

\* The steps of the scheduler that touch no semaphore.
LEMMA SchedulerKeeps ==
    ASSUME TableInv, UNCHANGED semTab,
           \/ \E t \in Thread : K!Fork(t)
           \/ K!Finish \/ K!Halt \/ K!Yield \/ K!IdleDispatch
           \/ K!ResumeRoot \/ K!ResumeYield
    PROVE  TableInv' /\ Val' = Val
<1>1. UNCHANGED <<sem, waitSem>>
  BY DEF K!Fork, K!Finish, K!Halt, K!Yield, K!IdleDispatch, K!ResumeRoot, K!ResumeYield
<1>2. currentThread' \in Thread /\ readyList' \in Seq(Thread)
  <2>1. readyList # <<>> => Head(readyList) \in Thread /\ Tail(readyList) \in Seq(Thread)
    BY HeadTailProperties DEF TableInv, KernelTypes
  <2>2. ASSUME NEW t \in Thread, K!Fork(t) PROVE readyList' \in Seq(Thread)
    BY <2>2, AppendProperties DEF TableInv, KernelTypes, K!Fork
  <2>3. ASSUME K!Yield PROVE readyList' \in Seq(Thread)
    BY <2>1, <2>3, AppendProperties DEF TableInv, KernelTypes, K!Yield, K!Run
  <2>4. ASSUME K!Finish PROVE currentThread' \in Thread /\ readyList' \in Seq(Thread)
    BY <2>4, SleepTypes DEF TableInv, K!Finish
  <2> QED BY <2>1, <2>2, <2>3, <2>4, Zenon DEF TableInv, KernelTypes, K!Fork, K!Halt, K!Yield,
          K!IdleDispatch, K!ResumeRoot, K!ResumeYield, K!Run
<1>3. /\ resume' \in [Thread -> K!ResumePoint]
      /\ \A t \in Thread : resume'[t] = "P" => resume[t] = "P"
  BY DEF TableInv, KernelTypes, K!ResumePoint, K!Fork, K!Finish, K!Halt, K!Yield,
     K!IdleDispatch, K!ResumeRoot, K!ResumeYield
<1> QED BY <1>1, <1>2, <1>3, ValSame DEF TableInv, KernelTypes

-----------------------------------------------------------------------------
(* The system calls.                                                       *)

\* STable::Create: a new counter, or none for a negative value, in a slot that nobody
\* waits on.
LEMMA CreateKeeps ==
    ASSUME TableInv, NEW n \in Name, NEW v \in InitialValues, Create(n, v)
    PROVE  TableInv' /\ (Counters!Create(n) \/ Val' = Val)
<1> DEFINE i == Min(FreeSlots)
           new == K!NewSemaphore(v)
<1>1. i \in Slot /\ semTab[i] = NoName
  BY MinSlot DEF Create, FreeSlots
<1>2. /\ semTab' = [semTab EXCEPT ![i] = n]
      /\ sem' = [sem EXCEPT ![i] = new]
      /\ UNCHANGED <<currentThread, readyList, resume, waitSem>>
      /\ ~Created(n)
  BY DEF Create
<1>3. new \in Counter /\ new.value = v /\ v \in Int
  BY SemTableAssumption DEF Counter, K!NewSemaphore
<1> HIDE DEF i, new
<1>4. KernelTypes'
  BY <1>1, <1>2, <1>3 DEF TableInv, KernelTypes
<1>5. \A j \in Slot : semTab[j] # n
  BY <1>2, SlotOfName
<1>6. /\ semTab' \in [Slot -> Name \cup {NoName}]
      /\ \A j, k \in Slot : semTab'[j] = semTab'[k] /\ semTab'[j] # NoName => j = k
      /\ \A j \in Slot : semTab[j] # NoName => semTab'[j] = semTab[j]
  BY <1>1, <1>2, <1>5 DEF TableInv
<1>7. TableInv'
  <2>1. \A t \in Thread : resume'[t] = "P" => waitSem'[t] \in Slot /\ semTab'[waitSem'[t]] \in Name
    BY <1>2, <1>6, SemTableAssumption DEF TableInv
  <2> QED BY <1>4, <1>6, <2>1 DEF TableInv
<1>8. Val[n] = NoName
  BY <1>2 DEF Val, CounterOf
<1>9. Val'[n] = Shown(v)
  <2>1. semTab'[i] = n /\ sem'[i].value = v
    BY <1>1, <1>2, <1>3 DEF TableInv, KernelTypes
  <2>2. Created(n)' /\ SlotOf(n)' = i
    BY <1>1, <1>7, <2>1, SlotOfNamePrime
  <2> QED BY <2>1, <2>2 DEF Val, CounterOf, Shown
<1>10. ASSUME NEW m \in Name, m # n
       PROVE  Val'[m] = Val[m]
  <2>1. CASE Created(m)
    <3> DEFINE k == SlotOf(m)
    <3>1. k \in Slot /\ semTab[k] = m /\ k # i
      BY <1>1, <2>1, SlotOfName, SemTableAssumption
    <3>2. semTab'[k] = m /\ sem'[k] = sem[k]
      BY <1>1, <1>2, <3>1 DEF TableInv, KernelTypes
    <3>3. Created(m)' /\ SlotOf(m)' = k
      BY <1>7, <3>1, <3>2, SlotOfNamePrime
    <3> QED BY <2>1, <3>1, <3>2, <3>3 DEF Val, CounterOf
  <2>2. CASE ~Created(m)
    <3>1. \A j \in Slot : semTab'[j] # m
      BY <1>1, <1>2, <1>10, <2>2, SlotOfName DEF TableInv
    <3>2. ~Created(m)'
      BY <1>7, <3>1, SlotOfNamePrime
    <3> QED BY <2>2, <3>2 DEF Val, CounterOf
  <2> QED BY <2>1, <2>2
<1>11. Val' = [Val EXCEPT ![n] = Val'[n]]
  BY <1>10, Zenon DEF Val
<1>12. CASE v >= 0
  <2>1. Val'[n] \in Nat
    BY <1>3, <1>9, <1>12 DEF Shown
  <2> QED BY <1>7, <1>8, <1>11, <2>1 DEF Counters!Create, Val
<1>13. CASE v < 0
  <2>1. Val'[n] = NoName
    BY <1>3, <1>9, <1>13 DEF Shown
  <2>2. Val' = Val
    BY <1>8, <1>11, <2>1, Zenon DEF Val
  <2> QED BY <1>7, <2>2
<1> QED BY <1>3, <1>12, <1>13

\* The thread that tests a value again inside P takes a unit or waits on.
LEMMA ResumePKeeps ==
    ASSUME TableInv, K!ResumeP, UNCHANGED semTab
    PROVE  TableInv' /\ (Val' = Val \/ \E n \in Name : Counters!Down(n))
<1> DEFINE s == waitSem[currentThread]
<1>1. s \in Slot /\ semTab[s] \in Name
  BY DEF TableInv, KernelTypes, K!ResumeP
<1>2. CASE sem[s].value = 0 /\ K!BlockOn(sem, s, K!Reaped)
  BY <1>1, <1>2, BlockKeeps
<1>3. CASE sem[s].value # 0 /\ K!Take(sem, s)
  BY <1>1, <1>3, TakeKeeps
<1> QED BY <1>2, <1>3 DEF K!ResumeP

\* Every step of the program, of the system calls and of the kernel is a step of
\* one counter or none.
LEMMA StepCounters ==
    ASSUME TableInv, [Next]_vars
    PROVE  TableInv' /\ [Counters!Next]_Val
<1>1. ASSUME NEW n \in Name, NEW v \in InitialValues, Create(n, v)
      PROVE  TableInv' /\ [Counters!Next]_Val
  BY <1>1, CreateKeeps DEF Counters!Next
<1>2. ASSUME NEW n \in Name, Up(n)
      PROVE  TableInv' /\ [Counters!Next]_Val
  <2>1. SlotOf(n) \in Slot /\ semTab[SlotOf(n)] = n
    BY <1>2, SlotOfName DEF Up
  <2>2. /\ K!DoV(sem, SlotOf(n))
        /\ UNCHANGED <<currentThread, resume, waitSem, semTab>>
    BY <1>2 DEF Up, K!V
  <2> QED BY <2>1, <2>2, DoVKeeps
<1>3. ASSUME NEW n \in Name, Down(n)
      PROVE  TableInv' /\ [Counters!Next]_Val
  <2> DEFINE s == SlotOf(n)
  <2>1. s \in Slot /\ semTab[s] = n /\ UNCHANGED semTab
    BY <1>3, SlotOfName DEF Down
  <2>2. CASE sem[s].value = 0 /\ K!BlockOn(sem, s, status)
    BY <2>1, <2>2, BlockKeeps
  <2>3. CASE sem[s].value # 0 /\ K!Take(sem, s)
    BY <2>1, <2>3, TakeKeeps DEF Counters!Next
  <2> QED BY <1>3, <2>2, <2>3 DEF Down, K!P, K!DoP
<1>4. ASSUME NEW n \in Name, CreateRefused(n) \/ UpUnknown(n) \/ DownUnknown(n) \/ UNCHANGED vars
      PROVE  TableInv' /\ [Counters!Next]_Val
  <2>1. UNCHANGED <<kernelVars, semTab>>
    BY <1>4 DEF CreateRefused, UpUnknown, DownUnknown, vars
  <2> QED BY <2>1, ValSame DEF kernelVars, TableInv, KernelTypes
<1>5. ASSUME Retrap \/ Program \/ TimeSlice \/ Dispatch
      PROVE  TableInv' /\ [Counters!Next]_Val
  <2>1. UNCHANGED semTab
    BY <1>5 DEF Retrap, Program, TimeSlice, Dispatch
  <2>2. CASE K!ResumeP
    BY <2>1, <2>2, ResumePKeeps DEF Counters!Next
  <2>3. CASE ~K!ResumeP
    BY <1>5, <2>1, <2>3, SchedulerKeeps DEF Retrap, Program, TimeSlice, Dispatch, K!Resume
  <2> QED BY <2>2, <2>3
<1>6. ASSUME UNCHANGED vars
      PROVE  TableInv' /\ [Counters!Next]_Val
  BY <1>6, ValSame DEF vars, kernelVars, TableInv, KernelTypes
<1> QED BY <1>1, <1>2, <1>3, <1>4, <1>5, <1>6 DEF Next

(***************************************************************************)
(* STable with Semaphore::P and V implements the counters programs are     *)
(* promised: for any number of threads, names and slots, a unit that Up    *)
(* gives is taken once, by a Down that finds the counter positive,         *)
(* although a woken thread and one that just arrives compete for it, and   *)
(* slots are looked up by name without a lock.  Programs may create        *)
(* semaphores with any initial value; one with a negative value is no      *)
(* counter before Ups bring it to zero, and does no harm to the others.    *)
(***************************************************************************)
THEOREM TableImplementsCounters == Spec => ImplementsCounters
<1>1. Init => TableInv /\ Counters!Init
  <2> SUFFICES ASSUME Init PROVE TableInv /\ Counters!Init
    OBVIOUS
  <2>1. [value |-> 0, queue |-> <<>>] \in Counter /\ <<>> \in Seq(Thread)
    BY DEF Counter
  <2>2. sem \in [Slot -> Counter]
    BY <2>1 DEF Init, K!Init, K!NewSemaphore
  <2>3. KernelTypes
    BY <2>1, <2>2, SemTableAssumption DEF KernelTypes, Init, K!Init, K!ResumePoint
  <2>4. TableInv
    BY <2>3 DEF TableInv, Init, K!Init
  <2>5. \A n \in Name : ~Created(n)
    BY SemTableAssumption DEF Init, Created, Range
  <2> QED BY <2>4, <2>5 DEF Counters!Init, CounterOf
<1>2. TableInv /\ [Next]_vars => TableInv' /\ [Counters!Next]_Val
  BY StepCounters
<1> QED BY <1>1, <1>2, PTL DEF Spec, ImplementsCounters, Counters!Spec, Val
=============================================================================
