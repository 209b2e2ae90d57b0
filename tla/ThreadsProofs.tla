---------------------------- MODULE ThreadsProofs ----------------------------
(***************************************************************************)
(* Proofs about Threads, for any set of threads and semaphores.            *)
(***************************************************************************)
EXTENDS Threads, SequenceTheorems, FiniteSetTheorems, TLAPS

-----------------------------------------------------------------------------
(* What appending to, and removing from, a list does to its elements.      *)

\* List::Append adds one element at the end.
LEMMA AppendFacts ==
    ASSUME NEW S, NEW q \in Seq(S), NEW x \in S
    PROVE  /\ Append(q, x) \in Seq(S)
           /\ Append(q, x) # <<>>
           /\ Range(Append(q, x)) = Range(q) \cup {x}
           /\ IsInjective(q) /\ x \notin Range(q) => IsInjective(Append(q, x))
<1> DEFINE a == Append(q, x)
<1>1. /\ a \in Seq(S)
      /\ DOMAIN q = 1 .. Len(q)
      /\ DOMAIN a = 1 .. Len(q) + 1
      /\ Len(q) \in Nat
      /\ \A i \in 1 .. Len(q) : a[i] = q[i]
      /\ a[Len(q) + 1] = x
      /\ a # <<>>
  BY AppendProperties, LenProperties
<1>2. Range(a) = Range(q) \cup {x}
  BY <1>1 DEF Range
<1>3. ASSUME IsInjective(q), x \notin Range(q)
      PROVE  IsInjective(a)
  BY <1>1, <1>3 DEF IsInjective, Range
<1> QED BY <1>1, <1>2, <1>3

\* List::Remove takes the first element away.
LEMMA RemoveFacts ==
    ASSUME NEW S, NEW q \in Seq(S), q # <<>>, IsInjective(q)
    PROVE  /\ Head(q) \in S
           /\ Head(q) \in Range(q)
           /\ Tail(q) \in Seq(S)
           /\ Range(Tail(q)) = Range(q) \ {Head(q)}
           /\ IsInjective(Tail(q))
<1> DEFINE r == Tail(q)
<1>1. /\ Len(q) \in Nat \ {0}
      /\ DOMAIN q = 1 .. Len(q)
      /\ Head(q) = q[1]
      /\ Head(q) \in S
      /\ r \in Seq(S)
      /\ DOMAIN r = 1 .. Len(q) - 1
      /\ \A i \in 1 .. Len(q) - 1 : r[i] = q[i + 1]
  BY HeadTailProperties, LenProperties, EmptySeq
<1>2. Head(q) \in Range(q)
  BY <1>1 DEF Range
<1>3. IsInjective(r)
  BY <1>1 DEF IsInjective
<1>4. Range(r) \subseteq Range(q) \ {Head(q)}
  BY <1>1 DEF Range, IsInjective
<1>5. Range(q) \ {Head(q)} \subseteq Range(r)
  <2> SUFFICES ASSUME NEW i \in 1 .. Len(q), q[i] # q[1]
               PROVE  q[i] \in Range(r)
    BY <1>1 DEF Range
  <2>1. i - 1 \in DOMAIN r /\ r[i - 1] = q[i]
    BY <1>1
  <2> QED BY <2>1, Zenon DEF Range
<1> QED BY <1>1, <1>2, <1>3, <1>4, <1>5

-----------------------------------------------------------------------------
(* Every thread is in one place.                                           *)

USE ThreadAssumption, SemAssumption

IInv == TypeOK /\ SchedInv

\* The start-up state.
LEMMA InitIInv == Init => IInv
<1> SUFFICES ASSUME Init PROVE IInv
  OBVIOUS
<1>1. /\ <<>> \in Seq(Thread)
      /\ Range(<<>>) = {}
      /\ IsInjective(<<>>)
  BY DEF Range, IsInjective
<1>2. TypeOK
  BY <1>1 DEF Init, TypeOK, SemState, NewSemaphore, ThreadStatus, ResumePoint
<1>3. SchedInv
  BY <1>1 DEF Init, SchedInv, OnePlace, NewSemaphore, InCode
<1> QED BY <1>2, <1>3 DEF IInv

\* What the invariant says of the lists, in the form the steps below use.
LEMMA ListFacts ==
    ASSUME IInv
    PROVE  /\ readyList \in Seq(Thread)
           /\ IsInjective(readyList)
           /\ readyList # <<>> =>
                 /\ Head(readyList) \in Thread
                 /\ status[Head(readyList)] = "READY"
                 /\ Tail(readyList) \in Seq(Thread)
                 /\ Range(Tail(readyList)) = Range(readyList) \ {Head(readyList)}
                 /\ IsInjective(Tail(readyList))
           /\ \A s \in Sem :
                 /\ sem[s].queue \in Seq(Thread)
                 /\ IsInjective(sem[s].queue)
                 /\ sem[s].queue # <<>> =>
                       LET q == sem[s].queue
                       IN  /\ Head(q) \in Thread
                           /\ status[Head(q)] = "BLOCKED"
                           /\ resume[Head(q)] = "P"
                           /\ waitSem[Head(q)] = s
                           /\ Tail(q) \in Seq(Thread)
                           /\ Range(Tail(q)) = Range(q) \ {Head(q)}
                           /\ IsInjective(Tail(q))
<1>1. readyList \in Seq(Thread) /\ IsInjective(readyList)
  BY DEF IInv, TypeOK, SchedInv, OnePlace
<1>2. ASSUME readyList # <<>>
      PROVE  /\ Head(readyList) \in Thread
             /\ status[Head(readyList)] = "READY"
             /\ Tail(readyList) \in Seq(Thread)
             /\ Range(Tail(readyList)) = Range(readyList) \ {Head(readyList)}
             /\ IsInjective(Tail(readyList))
  BY <1>1, <1>2, RemoveFacts DEF IInv, SchedInv, OnePlace
<1>3. ASSUME NEW s \in Sem
      PROVE  sem[s].queue \in Seq(Thread) /\ IsInjective(sem[s].queue)
  BY DEF IInv, TypeOK, SchedInv, OnePlace, SemState
<1>4. ASSUME NEW s \in Sem, NEW q, q = sem[s].queue, q # <<>>
      PROVE  /\ Head(q) \in Thread
             /\ status[Head(q)] = "BLOCKED"
             /\ resume[Head(q)] = "P"
             /\ waitSem[Head(q)] = s
             /\ Tail(q) \in Seq(Thread)
             /\ Range(Tail(q)) = Range(q) \ {Head(q)}
             /\ IsInjective(Tail(q))
  <2>1. q \in Seq(Thread) /\ IsInjective(q)
    BY <1>3, <1>4
  <2>2. /\ Head(q) \in Thread
        /\ Head(q) \in Range(q)
        /\ Tail(q) \in Seq(Thread)
        /\ Range(Tail(q)) = Range(q) \ {Head(q)}
        /\ IsInjective(Tail(q))
    BY <1>4, <2>1, RemoveFacts
  <2> QED BY <1>4, <2>2 DEF IInv, SchedInv, OnePlace
<1> QED BY <1>1, <1>2, <1>3, <1>4, Zenon

\* Deleting the carcass changes only the status of a finished thread.
LEMMA ReapedFacts ==
    ASSUME IInv
    PROVE  /\ Reaped \in [Thread -> ThreadStatus]
           /\ \A t \in Thread :
                 Reaped[t] = IF t = threadToBeDestroyed THEN "DELETED" ELSE status[t]
           /\ \A t \in Thread : t = threadToBeDestroyed =>
                 status[t] = "BLOCKED" /\ resume[t] = "done"
<1>1. /\ status \in [Thread -> ThreadStatus]
      /\ threadToBeDestroyed \in Thread \cup {NoThread}
      /\ \A t \in Thread : t = threadToBeDestroyed =>
            status[t] = "BLOCKED" /\ resume[t] = "done"
  BY DEF IInv, TypeOK, SchedInv
<1> QED BY <1>1 DEF Reaped, ThreadStatus

\* What Thread::Sleep establishes: the ready list and the status of the threads
\* agree, currentThread is blocked and at most one ready thread now runs.  st is
\* the status before, in which the carcass may have been deleted.
SleepPost(st) ==
    /\ currentThread' \in Thread
    /\ readyList' \in Seq(Thread)
    /\ status' \in [Thread -> ThreadStatus]
    /\ level' = "IntOff"
    /\ machine' \in {"running", "idle"}
    /\ IsInjective(readyList')
    /\ \A t \in Thread : status'[t] = "READY" <=> t \in Range(readyList')
    /\ \A t \in Thread : status'[t] = "RUNNING" => t = currentThread'
    /\ machine' = "running" => status'[currentThread'] = "RUNNING"
    /\ machine' = "idle" => \A t \in Thread : status'[t] # "RUNNING"
    /\ status'[currentThread] = "BLOCKED"
    /\ \A t \in Thread \ {currentThread} :
          \/ status'[t] = st[t]
          \/ st[t] = "READY" /\ status'[t] = "RUNNING"

\* Sleep establishes SleepPost, with a ready thread and without.
LEMMA SleepFacts ==
    ASSUME IInv, machine = "running", NEW STATE st, Sleep(st),
           st \in {status, Reaped}
    PROVE  SleepPost(st)
<1> DEFINE blocked == [st EXCEPT ![currentThread] = "BLOCKED"]
<1>1. /\ st \in [Thread -> ThreadStatus]
      /\ currentThread \in Thread
      /\ status[currentThread] = "RUNNING"
      /\ currentThread \notin Range(readyList)
      /\ \A t \in Thread : st[t] = "READY" <=> t \in Range(readyList)
      /\ \A t \in Thread : st[t] = "RUNNING" => t = currentThread
  <2>1. /\ status \in [Thread -> ThreadStatus]
        /\ currentThread \in Thread
        /\ status[currentThread] = "RUNNING"
        /\ \A t \in Thread : status[t] = "READY" <=> t \in Range(readyList)
        /\ \A t \in Thread : status[t] = "RUNNING" => t = currentThread
    BY DEF IInv, TypeOK, SchedInv, OnePlace
  <2>2. st \in [Thread -> ThreadStatus]
    BY <2>1, ReapedFacts
  <2>3. \A t \in Thread : st[t] \in {"READY", "RUNNING"} \/ status[t] \in {"READY", "RUNNING"}
                             => st[t] = status[t]
    BY ReapedFacts
  <2> QED BY <2>1, <2>2, <2>3
<1>2. /\ blocked \in [Thread -> ThreadStatus]
      /\ blocked[currentThread] = "BLOCKED"
      /\ \A t \in Thread \ {currentThread} : blocked[t] = st[t]
      /\ \A t \in Thread : blocked[t] = "READY" <=> t \in Range(readyList)
      /\ \A t \in Thread : blocked[t] # "RUNNING"
  BY <1>1 DEF ThreadStatus
<1>3. CASE readyList = <<>>
  <2>1. /\ machine' = "idle"
        /\ level' = "IntOff"
        /\ status' = blocked
        /\ UNCHANGED <<currentThread, readyList>>
    BY <1>3 DEF Sleep
  <2> QED BY <1>1, <1>2, <2>1, ListFacts DEF SleepPost
<1>4. CASE readyList # <<>>
  <2> DEFINE h == Head(readyList)
  <2>1. /\ currentThread' = h
        /\ readyList' = Tail(readyList)
        /\ status' = [blocked EXCEPT ![h] = "RUNNING"]
        /\ machine' = "running"
        /\ level' = "IntOff"
    BY <1>4 DEF Sleep, Run
  <2>2. /\ h \in Thread
        /\ status[h] = "READY"
        /\ readyList' \in Seq(Thread)
        /\ Range(readyList') = Range(readyList) \ {h}
        /\ IsInjective(readyList')
        /\ h \in Range(readyList)
    BY <1>4, <2>1, ListFacts, RemoveFacts
  <2>3. status' \in [Thread -> ThreadStatus]
    BY <1>2, <2>1, <2>2 DEF ThreadStatus
  <2>4. \A t \in Thread : status'[t] = IF t = h THEN "RUNNING" ELSE blocked[t]
    BY <1>2, <2>1, <2>2
  <2>5. h # currentThread
    BY <1>1, <2>2
  <2> HIDE DEF blocked, h
  <2> QED BY <1>1, <1>2, <2>1, <2>2, <2>3, <2>4, <2>5 DEF SleepPost
<1> QED BY <1>3, <1>4

\* Thread::Fork keeps the invariant.
LEMMA ForkStep == ASSUME IInv, NEW t \in Thread, Fork(t) PROVE IInv'
<1>1. /\ Append(readyList, t) \in Seq(Thread)
      /\ Range(Append(readyList, t)) = Range(readyList) \cup {t}
      /\ IsInjective(Append(readyList, t))
  BY ListFacts, AppendFacts DEF Fork, IInv, SchedInv, OnePlace
<1>2. TypeOK'
  BY <1>1 DEF IInv, Fork, TypeOK, ThreadStatus
<1>3. SchedInv'
  BY <1>1 DEF IInv, Fork, TypeOK, SchedInv, OnePlace, InCode, ThreadStatus
<1> QED BY <1>2, <1>3 DEF IInv

\* Thread::Yield keeps the invariant.
LEMMA YieldStep == ASSUME IInv, Yield PROVE IInv'
<1> DEFINE h == Head(readyList)
           tl == Tail(readyList)
           r == Append(tl, currentThread)
<1>1. /\ readyList # <<>>
      /\ currentThread \in Thread
      /\ status[currentThread] = "RUNNING"
      /\ currentThread \notin Range(readyList)
  BY DEF Yield, InCode, IInv, TypeOK, SchedInv, OnePlace
<1>2. /\ h \in Thread
      /\ status[h] = "READY"
      /\ h \in Range(readyList)
      /\ tl \in Seq(Thread)
      /\ Range(tl) = Range(readyList) \ {h}
      /\ IsInjective(tl)
  BY <1>1, ListFacts, RemoveFacts
<1>3. /\ currentThread' = h
      /\ readyList' = r
      /\ status' = [status EXCEPT ![currentThread] = "READY", ![h] = "RUNNING"]
      /\ machine' = "running"
      /\ level' = "IntOff"
      /\ resume' = [resume EXCEPT ![currentThread] = "yield"]
      /\ UNCHANGED <<waitSem, sem, threadToBeDestroyed>>
  BY DEF Yield, Run
<1> HIDE DEF h, tl
<1>4. /\ r \in Seq(Thread)
      /\ Range(r) = Range(tl) \cup {currentThread}
      /\ IsInjective(r)
  BY <1>1, <1>2, AppendFacts
<1> HIDE DEF r
<1>5. TypeOK'
  BY <1>1, <1>2, <1>3, <1>4, Zenon DEF IInv, TypeOK, ThreadStatus, ResumePoint
<1>6. /\ h # currentThread
      /\ currentThread' = h
      /\ readyList' = r
      /\ machine' = "running"
      /\ level' = "IntOff"
      /\ waitSem' = waitSem
      /\ sem' = sem
      /\ threadToBeDestroyed' = threadToBeDestroyed
      /\ status'[h] = "RUNNING"
      /\ status'[currentThread] = "READY"
      /\ \A t \in Thread \ {h, currentThread} : status'[t] = status[t]
      /\ \A t \in Thread :
            resume'[t] = IF t = currentThread THEN "yield" ELSE resume[t]
  BY <1>1, <1>2, <1>3 DEF IInv, TypeOK
<1>7. OnePlace'
  <2>1. \A t \in Thread : status'[t] = "READY" <=> t \in Range(readyList')
    BY <1>1, <1>2, <1>4, <1>6 DEF IInv, SchedInv, OnePlace
  <2>2. \A s \in Sem, t \in Thread :
          t \in Range(sem'[s].queue)
            <=> status'[t] = "BLOCKED" /\ resume'[t] = "P" /\ waitSem'[t] = s
    BY <1>1, <1>2, <1>6 DEF IInv, SchedInv, OnePlace
  <2> QED BY <1>1, <1>2, <1>4, <1>6, <2>1, <2>2 DEF IInv, SchedInv, OnePlace
<1>8. SchedInv'
  BY <1>1, <1>2, <1>6, <1>7 DEF IInv, SchedInv, InCode
<1> QED BY <1>5, <1>8 DEF IInv

\* Thread::Finish keeps the invariant.
LEMMA FinishStep == ASSUME IInv, Finish PROVE IInv'
<1>1. /\ machine = "running"
      /\ threadToBeDestroyed' = currentThread
      /\ resume' = [resume EXCEPT ![currentThread] = "done"]
      /\ UNCHANGED <<waitSem, sem>>
      /\ Sleep(status)
      /\ currentThread \in Thread
      /\ status[currentThread] = "RUNNING"
  BY DEF Finish, InCode, IInv, TypeOK, SchedInv, OnePlace
<1>2. SleepPost(status)
  BY <1>1, SleepFacts
<1>3. TypeOK'
  BY <1>1, <1>2, Zenon DEF SleepPost, IInv, TypeOK, ResumePoint
<1>4. \A t \in Thread :
         resume'[t] = IF t = currentThread THEN "done" ELSE resume[t]
  BY <1>1 DEF IInv, TypeOK
<1>5. \A s \in Sem, t \in Thread :
        t \in Range(sem'[s].queue)
          <=> status'[t] = "BLOCKED" /\ resume'[t] = "P" /\ waitSem'[t] = s
  <2> SUFFICES ASSUME NEW s \in Sem, NEW t \in Thread
               PROVE  t \in Range(sem[s].queue)
                        <=> status'[t] = "BLOCKED" /\ resume'[t] = "P" /\ waitSem[t] = s
    BY <1>1
  <2>1. t \in Range(sem[s].queue)
          <=> status[t] = "BLOCKED" /\ resume[t] = "P" /\ waitSem[t] = s
    BY DEF IInv, SchedInv, OnePlace
  <2>2. t # currentThread => (status'[t] = "BLOCKED" <=> status[t] = "BLOCKED")
    BY <1>2 DEF SleepPost
  <2> QED BY <1>1, <1>4, <2>1, <2>2
<1>6. OnePlace'
  BY <1>1, <1>2, <1>5 DEF SleepPost, IInv, SchedInv, OnePlace
<1>7. SchedInv'
  <2>1. \A t \in Thread \ {currentThread} :
           status'[t] = status[t] \/ status'[t] = "RUNNING"
    BY <1>2 DEF SleepPost
  <2> QED BY <1>1, <1>2, <1>4, <1>6, <2>1, SMTT(30) DEF SleepPost, IInv, SchedInv, InCode
<1> QED BY <1>3, <1>7 DEF IInv

\* The status st and the carcass pointer after Run's code that follows SWITCH, or
\* unchanged when that code is not executed.
ReapStep(st) ==
    \/ st = status /\ threadToBeDestroyed' = threadToBeDestroyed
    \/ st = Reaped /\ threadToBeDestroyed' = NoThread

\* What ReapStep leaves of the invariant.
LEMMA ReapStepFacts ==
    ASSUME IInv, NEW STATE st, ReapStep(st)
    PROVE  /\ st \in {status, Reaped}
           /\ st \in [Thread -> ThreadStatus]
           /\ threadToBeDestroyed' \in Thread \cup {NoThread}
           /\ \A t \in Thread :
                \/ st[t] = status[t]
                \/ st[t] = "DELETED" /\ status[t] = "BLOCKED" /\ resume[t] = "done"
           /\ \A t \in Thread : t = threadToBeDestroyed' =>
                st[t] = "BLOCKED" /\ resume[t] = "done"
<1>1. CASE st = status /\ threadToBeDestroyed' = threadToBeDestroyed
  BY <1>1 DEF IInv, TypeOK, SchedInv
<1>2. CASE st = Reaped /\ threadToBeDestroyed' = NoThread
  BY <1>2, ReapedFacts
<1> QED BY <1>1, <1>2 DEF ReapStep

\* currentThread finds the value of s zero, in the first or a later test of the
\* loop in Semaphore::P.
LEMMA BlockOnStep ==
    ASSUME IInv, machine = "running", NEW s \in Sem, NEW STATE st,
           BlockOn(sem, s, st), ReapStep(st)
    PROVE  IInv'
<1> DEFINE q == sem[s].queue
           qa == Append(q, currentThread)
<1>1. /\ currentThread \in Thread
      /\ status[currentThread] = "RUNNING"
      /\ q \in Seq(Thread)
      /\ IsInjective(q)
      /\ currentThread \notin Range(q)
      /\ sem[s] \in SemState
  BY ListFacts, ZenonT(30) DEF IInv, TypeOK, SchedInv, OnePlace
<1>2. /\ qa \in Seq(Thread)
      /\ Range(qa) = Range(q) \cup {currentThread}
      /\ IsInjective(qa)
  BY <1>1, AppendFacts
<1>3. /\ sem' \in [Sem -> SemState]
      /\ sem'[s].queue = qa
      /\ \A x \in Sem \ {s} : sem'[x] = sem[x]
  BY <1>1, <1>2, Zenon DEF BlockOn, IInv, TypeOK, SemState
<1>4. /\ resume' \in [Thread -> ResumePoint]
      /\ waitSem' \in [Thread -> Sem \cup {NoSem}]
      /\ resume'[currentThread] = "P"
      /\ waitSem'[currentThread] = s
      /\ \A t \in Thread \ {currentThread} :
            resume'[t] = resume[t] /\ waitSem'[t] = waitSem[t]
  BY <1>1 DEF BlockOn, IInv, TypeOK, ResumePoint
<1>5. SleepPost(st)
  BY ReapStepFacts, SleepFacts DEF BlockOn
<1> HIDE DEF q, qa
<1>6. TypeOK'
  BY <1>3, <1>4, <1>5, ReapStepFacts DEF SleepPost, TypeOK
<1>7. \A t \in Thread \ {currentThread} :
         /\ status'[t] = "BLOCKED" /\ resume[t] = "P"
              <=> status[t] = "BLOCKED" /\ resume[t] = "P"
         /\ status'[t] = "DELETED" => resume[t] = "done"
         /\ status'[t] = "JUST_CREATED" => resume[t] = "root"
         /\ t = threadToBeDestroyed' => status'[t] = "BLOCKED" /\ resume[t] = "done"
  BY <1>5, ReapStepFacts DEF SleepPost, IInv, SchedInv
<1>8. \A x \in Sem, t \in Thread :
        t \in Range(sem'[x].queue)
          <=> status'[t] = "BLOCKED" /\ resume'[t] = "P" /\ waitSem'[t] = x
  <2> SUFFICES ASSUME NEW x \in Sem, NEW t \in Thread
               PROVE  t \in Range(sem'[x].queue)
                 <=> status'[t] = "BLOCKED" /\ resume'[t] = "P" /\ waitSem'[t] = x
    OBVIOUS
  <2>1. t \in Range(sem[x].queue)
          <=> status[t] = "BLOCKED" /\ resume[t] = "P" /\ waitSem[t] = x
    BY DEF IInv, SchedInv, OnePlace
  <2>2. CASE t = currentThread
    BY <1>1, <1>2, <1>3, <1>4, <1>5, <2>1, <2>2, Zenon DEF SleepPost, q
  <2>3. CASE t # currentThread
    BY <1>2, <1>3, <1>4, <1>7, <2>1, <2>3, Zenon DEF q
  <2> QED BY <2>2, <2>3
<1>9. \A x \in Sem : IsInjective(sem'[x].queue)
  BY <1>2, <1>3, ZenonT(30) DEF IInv, SchedInv, OnePlace
<1>10. OnePlace'
  BY <1>5, <1>8, <1>9, Zenon DEF SleepPost, OnePlace
<1>11. currentThread # threadToBeDestroyed'
  BY <1>1, ReapStepFacts, SleepFacts DEF ReapStep, IInv, TypeOK, SchedInv
<1>12. ~InCode' /\ (machine' = "idle" => \A t \in Thread : status'[t] # "RUNNING")
  BY <1>5 DEF SleepPost, InCode
<1>13. ASSUME NEW t \in Thread
       PROVE  /\ resume'[t] = "P" => waitSem'[t] \in Sem
              /\ status'[t] = "JUST_CREATED" => resume'[t] = "root"
              /\ status'[t] = "DELETED" => resume'[t] = "done"
              /\ t = threadToBeDestroyed' => status'[t] = "BLOCKED" /\ resume'[t] = "done"
  <2>1. status'[currentThread] = "BLOCKED"
    BY <1>5 DEF SleepPost
  <2>2. resume[t] = "P" => waitSem[t] \in Sem
    BY DEF IInv, SchedInv
  <2>3. CASE t = currentThread
    BY <1>4, <1>11, <2>1, <2>3, Zenon
  <2>4. CASE t # currentThread
    BY <1>4, <1>7, <2>2, <2>4, Zenon
  <2> QED BY <2>3, <2>4
<1>14. SchedInv'
  BY <1>10, <1>12, <1>13 DEF SchedInv
<1> QED BY <1>6, <1>14, Zenon DEF IInv

\* currentThread takes a unit of s and goes on with interrupts on.
LEMMA TakeStep ==
    ASSUME IInv, machine = "running", NEW s \in Sem, NEW STATE st,
           Take(sem, s), status' = st, ReapStep(st)
    PROVE  IInv'
<1>1. /\ currentThread \in Thread
      /\ status[currentThread] = "RUNNING"
      /\ sem[s] \in SemState
  BY DEF IInv, TypeOK, SchedInv, OnePlace
<1>2. /\ sem' \in [Sem -> SemState]
      /\ \A x \in Sem : sem'[x].queue = sem[x].queue
  <2>1. /\ sem \in [Sem -> SemState]
        /\ sem' = [sem EXCEPT ![s] = [sem[s] EXCEPT !.value = sem[s].value - 1]]
    BY DEF Take, IInv, TypeOK
  <2>2. /\ [sem[s] EXCEPT !.value = sem[s].value - 1] \in SemState
        /\ [sem[s] EXCEPT !.value = sem[s].value - 1].queue = sem[s].queue
    BY <1>1 DEF SemState
  <2> QED BY <2>1, <2>2
<1>3. /\ resume' \in [Thread -> ResumePoint]
      /\ waitSem' \in [Thread -> Sem \cup {NoSem}]
      /\ resume'[currentThread] = "code"
      /\ \A t \in Thread \ {currentThread} :
            resume'[t] = resume[t] /\ waitSem'[t] = waitSem[t]
      /\ level' = "IntOn"
      /\ UNCHANGED <<currentThread, machine, readyList>>
  BY <1>1 DEF Take, IInv, TypeOK, ResumePoint
<1>4. TypeOK'
  BY <1>2, <1>3, ReapStepFacts DEF IInv, TypeOK
<1>5. \A t \in Thread :
         \/ status'[t] = status[t]
         \/ status'[t] = "DELETED" /\ status[t] = "BLOCKED" /\ resume[t] = "done"
  BY ReapStepFacts, Zenon
<1>6. \A x \in Sem, t \in Thread :
        t \in Range(sem'[x].queue)
          <=> status'[t] = "BLOCKED" /\ resume'[t] = "P" /\ waitSem'[t] = x
  BY <1>1, <1>2, <1>3, <1>5, SMTT(30) DEF IInv, SchedInv, OnePlace
<1>7. /\ \A t \in Thread : status'[t] = "READY" <=> t \in Range(readyList)
      /\ \A t \in Thread : status'[t] = "RUNNING" => t = currentThread
      /\ status'[currentThread] = "RUNNING"
      /\ IsInjective(readyList)
      /\ \A x \in Sem : IsInjective(sem'[x].queue)
  BY <1>1, <1>2, <1>5, SMTT(30) DEF IInv, SchedInv, OnePlace
<1>8. OnePlace'
  BY <1>3, <1>6, <1>7, Zenon DEF OnePlace
<1>9. SchedInv'
  BY <1>1, <1>3, <1>5, <1>8, ReapStepFacts DEF IInv, SchedInv, InCode
<1> QED BY <1>4, <1>9 DEF IInv

\* V moves the first waiter, if any, from the queue of s to the ready list.
LEMMA DoVStep ==
    ASSUME IInv, NEW s \in Sem, DoV(sem, s),
           UNCHANGED <<currentThread, level, machine, resume, waitSem,
                       threadToBeDestroyed>>
    PROVE  IInv'
<1> DEFINE q == sem[s].queue
<1>1. /\ sem \in [Sem -> SemState]
      /\ sem[s] \in SemState
      /\ sem[s].value + 1 \in Int
      /\ q \in Seq(Thread)
  BY DEF IInv, TypeOK, SemState
<1>2. CASE q = <<>>
  <2>1. /\ sem' = [sem EXCEPT ![s] = [sem[s] EXCEPT !.value = sem[s].value + 1]]
        /\ UNCHANGED <<readyList, status>>
    BY <1>2 DEF DoV
  <2>2. /\ [sem[s] EXCEPT !.value = sem[s].value + 1] \in SemState
        /\ [sem[s] EXCEPT !.value = sem[s].value + 1].queue = sem[s].queue
    BY <1>1, Zenon DEF SemState
  <2>3. /\ sem' \in [Sem -> SemState]
        /\ \A x \in Sem : sem'[x].queue = sem[x].queue
    BY <1>1, <2>1, <2>2
  <2>4. TypeOK'
    BY <2>1, <2>3 DEF IInv, TypeOK
  <2>5. OnePlace'
    BY <2>1, <2>3 DEF IInv, SchedInv, OnePlace
  <2>6. SchedInv'
    BY <2>1, <2>5 DEF IInv, SchedInv, InCode
  <2> QED BY <2>4, <2>6 DEF IInv
<1>3. CASE q # <<>>
  <2> DEFINE h == Head(q)
             tl == Tail(q)
  <2>1. /\ h \in Thread
        /\ status[h] = "BLOCKED"
        /\ resume[h] = "P"
        /\ waitSem[h] = s
        /\ tl \in Seq(Thread)
        /\ Range(tl) = Range(q) \ {h}
        /\ IsInjective(tl)
    BY <1>3, ListFacts, ZenonT(30)
  <2>2. /\ readyList \in Seq(Thread)
        /\ IsInjective(readyList)
        /\ h \notin Range(readyList)
    BY <2>1, ListFacts DEF IInv, SchedInv, OnePlace
  <2>3. /\ readyList' = Append(readyList, h)
        /\ status' = [status EXCEPT ![h] = "READY"]
        /\ sem' = [sem EXCEPT ![s] = [value |-> sem[s].value + 1, queue |-> tl]]
    BY <1>3 DEF DoV
  <2>4. /\ readyList' \in Seq(Thread)
        /\ Range(readyList') = Range(readyList) \cup {h}
        /\ IsInjective(readyList')
    BY <2>1, <2>2, <2>3, AppendFacts, SMTT(30)
  <2>5. /\ sem' \in [Sem -> SemState]
        /\ sem'[s].queue = tl
        /\ \A x \in Sem \ {s} : sem'[x] = sem[x]
    BY <1>1, <2>1, <2>3, Zenon DEF SemState
  <2>6. /\ status' \in [Thread -> ThreadStatus]
        /\ status'[h] = "READY"
        /\ \A t \in Thread \ {h} : status'[t] = status[t]
    BY <2>1, <2>3 DEF IInv, TypeOK, ThreadStatus
  <2>7. TypeOK'
    BY <2>4, <2>5, <2>6, Zenon DEF IInv, TypeOK
  <2>8. \A t \in Thread : status'[t] = "READY" <=> t \in Range(readyList')
    BY <2>1, <2>4, <2>6, SMTT(30) DEF IInv, SchedInv, OnePlace
  <2> HIDE DEF h, tl
  <2>9. \A x \in Sem, t \in Thread :
          t \in Range(sem'[x].queue)
            <=> status'[t] = "BLOCKED" /\ resume[t] = "P" /\ waitSem[t] = x
    <3> SUFFICES ASSUME NEW x \in Sem, NEW t \in Thread
                 PROVE  t \in Range(sem'[x].queue)
                   <=> status'[t] = "BLOCKED" /\ resume[t] = "P" /\ waitSem[t] = x
      OBVIOUS
    <3>1. t \in Range(sem[x].queue)
            <=> status[t] = "BLOCKED" /\ resume[t] = "P" /\ waitSem[t] = x
      BY DEF IInv, SchedInv, OnePlace
    <3>2. CASE x = s
      BY <2>1, <2>5, <2>6, <3>1, <3>2, Zenon
    <3>3. CASE x # s
      BY <2>1, <2>5, <2>6, <3>1, <3>3, Zenon
    <3> QED BY <3>2, <3>3
  <2>10. \A x \in Sem : IsInjective(sem'[x].queue)
    BY <2>1, <2>5 DEF IInv, SchedInv, OnePlace
  <2>11. /\ \A t \in Thread : status'[t] = "RUNNING" => t = currentThread
         /\ machine = "running" => status'[currentThread] = "RUNNING"
    BY <2>1, <2>6 DEF IInv, TypeOK, SchedInv, OnePlace
  <2>12. OnePlace'
    BY <2>4, <2>8, <2>9, <2>10, <2>11, Zenon DEF OnePlace
  <2>13. ASSUME NEW t \in Thread
         PROVE  /\ status'[t] = "JUST_CREATED" => resume[t] = "root"
                /\ status'[t] = "DELETED" => resume[t] = "done"
                /\ t = threadToBeDestroyed => status'[t] = "BLOCKED" /\ resume[t] = "done"
                /\ machine = "idle" => status'[t] # "RUNNING"
    BY <2>1, <2>6 DEF IInv, SchedInv
  <2>14. SchedInv'
    BY <2>12, <2>13 DEF IInv, SchedInv, InCode
  <2> QED BY <2>7, <2>14 DEF IInv
<1> QED BY <1>2, <1>3, Zenon

\* A thread that runs for the first time, and one whose Yield returns.
LEMMA ResumeRootStep == ASSUME IInv, ResumeRoot PROVE IInv'
<1>1. /\ currentThread \in Thread
      /\ status[currentThread] = "RUNNING"
      /\ resume' \in [Thread -> ResumePoint]
      /\ resume'[currentThread] = "code"
      /\ \A t \in Thread \ {currentThread} : resume'[t] = resume[t]
      /\ UNCHANGED <<currentThread, machine, readyList, status, waitSem, sem,
                     threadToBeDestroyed>>
      /\ level' = "IntOn"
      /\ machine = "running"
  BY DEF ResumeRoot, Switched, IInv, TypeOK, SchedInv, OnePlace, ResumePoint
<1>2. TypeOK'
  BY <1>1 DEF IInv, TypeOK
<1>3. OnePlace'
  BY <1>1 DEF IInv, SchedInv, OnePlace
<1>4. SchedInv'
  BY <1>1, <1>3 DEF IInv, SchedInv, InCode
<1> QED BY <1>2, <1>4 DEF IInv

LEMMA ResumeYieldStep == ASSUME IInv, ResumeYield PROVE IInv'
<1>1. /\ currentThread \in Thread
      /\ status[currentThread] = "RUNNING"
      /\ resume' \in [Thread -> ResumePoint]
      /\ resume'[currentThread] = "code"
      /\ \A t \in Thread \ {currentThread} : resume'[t] = resume[t]
      /\ UNCHANGED <<currentThread, machine, readyList, waitSem, sem>>
      /\ level' = "IntOn"
      /\ machine = "running"
  BY DEF ResumeYield, Switched, IInv, TypeOK, SchedInv, OnePlace, ResumePoint
<1>2. /\ status' \in [Thread -> ThreadStatus]
      /\ threadToBeDestroyed' = NoThread
      /\ \A t \in Thread :
            \/ status'[t] = status[t]
            \/ status'[t] = "DELETED" /\ status[t] = "BLOCKED" /\ resume[t] = "done"
  BY ReapedFacts DEF ResumeYield
<1>3. TypeOK'
  BY <1>1, <1>2, Zenon DEF IInv, TypeOK
<1>4. OnePlace'
  BY <1>1, <1>2 DEF IInv, SchedInv, OnePlace
<1>5. SchedInv'
  BY <1>1, <1>2, <1>4 DEF IInv, SchedInv, InCode
<1> QED BY <1>3, <1>5 DEF IInv

\* The idle loop of Sleep finds a ready thread.
LEMMA IdleDispatchStep == ASSUME IInv, IdleDispatch PROVE IInv'
<1> DEFINE h == Head(readyList)
<1>1. /\ currentThread' = h
      /\ readyList' = Tail(readyList)
      /\ status' = [status EXCEPT ![h] = "RUNNING"]
      /\ machine' = "running"
      /\ level' = "IntOff"
      /\ UNCHANGED <<resume, waitSem, sem, threadToBeDestroyed>>
      /\ machine = "idle"
  BY DEF IdleDispatch, Run
<1>2. /\ h \in Thread
      /\ status[h] = "READY"
      /\ readyList' \in Seq(Thread)
      /\ Range(readyList') = Range(readyList) \ {h}
      /\ IsInjective(readyList')
  BY <1>1, ListFacts DEF IdleDispatch
<1>3. /\ status' \in [Thread -> ThreadStatus]
      /\ status'[h] = "RUNNING"
      /\ \A t \in Thread \ {h} : status'[t] = status[t] /\ status[t] # "RUNNING"
  BY <1>1, <1>2 DEF IInv, TypeOK, SchedInv, ThreadStatus
<1>4. /\ machine' = "running"
      /\ level' = "IntOff"
      /\ currentThread' = h
      /\ UNCHANGED <<resume, waitSem, sem, threadToBeDestroyed>>
  BY <1>1
<1> HIDE DEF h
<1>5. TypeOK'
  BY <1>2, <1>3, <1>4, Zenon DEF IInv, TypeOK
<1>6. \A t \in Thread : status'[t] = "READY" <=> t \in Range(readyList')
  BY <1>2, <1>3, SMTT(30) DEF IInv, SchedInv, OnePlace
<1>7. OnePlace'
  BY <1>2, <1>3, <1>4, <1>6, SMTT(30) DEF IInv, SchedInv, OnePlace
<1>8. SchedInv'
  BY <1>2, <1>3, <1>4, <1>7 DEF IInv, SchedInv, InCode
<1> QED BY <1>5, <1>8 DEF IInv

LEMMA HaltStep == ASSUME IInv, Halt PROVE IInv'
<1>1. TypeOK'
  BY DEF Halt, IInv, TypeOK
<1>2. OnePlace'
  BY DEF Halt, IInv, SchedInv, OnePlace
<1>3. SchedInv'
  BY <1>2 DEF Halt, IInv, SchedInv, InCode
<1> QED BY <1>1, <1>3 DEF IInv

\* Semaphore::P from its first test, and from the test after a wake-up.
LEMMA PStep == ASSUME IInv, NEW s \in Sem, P(s) PROVE IInv'
<1>1. machine = "running" /\ ReapStep(status)
  BY DEF P, DoP, InCode, ReapStep
<1>2. CASE BlockOn(sem, s, status)
  BY <1>1, <1>2, BlockOnStep
<1>3. CASE Take(sem, s) /\ status' = status
  BY <1>1, <1>3, TakeStep, Zenon
<1> QED BY <1>2, <1>3 DEF P, DoP

LEMMA ResumePStep == ASSUME IInv, ResumeP PROVE IInv'
<1> DEFINE s == waitSem[currentThread]
<1>1. machine = "running" /\ ReapStep(Reaped)
  BY DEF ResumeP, Switched, ReapStep
<1>2. s \in Sem
  BY DEF ResumeP, IInv, TypeOK, SchedInv
<1>3. CASE BlockOn(sem, s, Reaped)
  BY <1>1, <1>2, <1>3, BlockOnStep
<1>4. CASE Take(sem, s) /\ status' = Reaped
  BY <1>1, <1>2, <1>4, TakeStep
<1> QED BY <1>3, <1>4 DEF ResumeP

\* Every step preserves the invariant.
LEMMA StepIInv == IInv /\ [Next]_vars => IInv'
<1> SUFFICES ASSUME IInv, [Next]_vars PROVE IInv'
  OBVIOUS
<1>1. ASSUME NEW t \in Thread, Fork(t) PROVE IInv'
  BY <1>1, ForkStep
<1>2. ASSUME NEW s \in Sem, P(s) PROVE IInv'
  BY <1>2, PStep
<1>3. ASSUME NEW s \in Sem, V(s) \/ DeviceV(s) PROVE IInv'
  BY <1>3, DoVStep DEF V, DeviceV
<1>4. CASE Resume
  BY <1>4, ResumeRootStep, ResumeYieldStep, ResumePStep, Zenon DEF Resume
<1>5. CASE UNCHANGED vars
  BY <1>5 DEF vars, IInv, TypeOK, SchedInv, OnePlace, InCode
<1> QED
  BY <1>1, <1>2, <1>3, <1>4, <1>5, YieldStep, FinishStep, IdleDispatchStep, HaltStep, Zenon
  DEF Next

\* The inductive invariant holds in every reachable state, for any threads, any
\* semaphores and any initial values.
THEOREM Invariance == Spec => []IInv
BY InitIInv, StepIInv, PTL DEF Spec

\* The lists and control blocks always have their types: no NULL thread ever
\* reaches the ready list (Semaphore::V's test, Scheduler::FindNextToRun).
THEOREM TypeCorrect == Spec => []TypeOK
<1>1. IInv => TypeOK
  BY DEF IInv
<1> QED BY <1>1, Invariance, PTL

\* Every thread is in one place only, and its status says which.
THEOREM ThreadsInOnePlace == Spec => []OnePlace
<1>1. IInv => OnePlace
  BY ZenonT(30) DEF IInv, SchedInv
<1> QED BY <1>1, Invariance, PTL

\* ~Thread never deletes a thread that some list holds or that runs.
THEOREM CarcassUnreachable == Spec => []FinishedUnreachable
<1>1. IInv => FinishedUnreachable
  BY DEF IInv, SchedInv, OnePlace, FinishedUnreachable
<1> QED BY <1>1, Invariance, PTL

-----------------------------------------------------------------------------
(* No wake-up is lost.                                                     *)

\* NoLostWakeup for one semaphore.
NoLost(s) ==
    InitVal[s] >= 0 =>
        /\ sem[s].value >= 0
        /\ sem[s].queue # <<>> => sem[s].value <= Cardinality(Woken(s))

\* Woken(s) is a finite set, so its cardinality counts.
LEMMA WokenFinite ==
    ASSUME NEW s \in Sem
    PROVE  /\ IsFiniteSet(Woken(s)) /\ Cardinality(Woken(s)) \in Nat
           /\ Cardinality(Woken(s)') \in Nat
<1>1. Woken(s) \subseteq Thread /\ Woken(s)' \subseteq Thread
  BY DEF Woken
<1>2. IsFiniteSet(Woken(s)) /\ IsFiniteSet(Woken(s)')
  BY <1>1, FS_Subset
<1> QED BY <1>2, FS_CardinalityType

\* A step that leaves the value, the emptiness of the queue and the woken threads
\* of a semaphore as they are keeps NoLost.
LEMMA NoLostFrame ==
    ASSUME NEW s \in Sem, NoLost(s),
           sem'[s].value = sem[s].value,
           sem'[s].queue # <<>> => sem[s].queue # <<>>,
           Woken(s)' = Woken(s)
    PROVE  NoLost(s)'
BY DEF NoLost

\* Woken(s) changes only by what happens to status, resume and waitSem.
LEMMA WokenSame ==
    ASSUME NEW s \in Sem,
           \A t \in Thread :
              (resume'[t] = "P" /\ waitSem'[t] = s /\ status'[t] \in {"READY", "RUNNING"})
              <=> (resume[t] = "P" /\ waitSem[t] = s /\ status[t] \in {"READY", "RUNNING"})
    PROVE  Woken(s)' = Woken(s)
BY DEF Woken

\* What a step of currentThread into Sleep does to the woken threads.
LEMMA SleepWoken ==
    ASSUME IInv, machine = "running", NEW STATE st, Sleep(st), ReapStep(st)
    PROVE  \A t \in Thread \ {currentThread} :
              /\ resume[t] = "P"
              /\ status'[t] \in {"READY", "RUNNING"} \/ status[t] \in {"READY", "RUNNING"}
              => status'[t] \in {"READY", "RUNNING"} /\ status[t] \in {"READY", "RUNNING"}
<1>1. SleepPost(st)
  BY ReapStepFacts, SleepFacts
<1>2. \A t \in Thread : resume[t] = "P" => st[t] = status[t]
  BY ReapStepFacts
<1> QED BY <1>1, <1>2 DEF SleepPost

\* The steps that touch no semaphore.
LEMMA SchedulerNoLost ==
    ASSUME IInv, NEW s \in Sem, NoLost(s),
           \/ \E t \in Thread : Fork(t)
           \/ Yield \/ Finish \/ ResumeRoot \/ ResumeYield \/ IdleDispatch \/ Halt
           \/ UNCHANGED vars
    PROVE  NoLost(s)'
<1> SUFFICES sem' = sem /\ Woken(s)' = Woken(s)
  BY NoLostFrame
<1>0. /\ currentThread \in Thread
      /\ resume \in [Thread -> ResumePoint]
      /\ status \in [Thread -> ThreadStatus]
  BY DEF IInv, TypeOK
<1>1. ASSUME NEW t \in Thread, Fork(t) PROVE sem' = sem /\ Woken(s)' = Woken(s)
  <2>1. status[t] = "JUST_CREATED" /\ resume[t] = "root" /\ UNCHANGED <<resume, waitSem, sem>>
    BY <1>1 DEF Fork, IInv, SchedInv
  <2>2. \A u \in Thread \ {t} : status'[u] = status[u]
    BY <1>0, <1>1, Zenon DEF Fork
  <2>3. Woken(s)' = Woken(s)
    BY <2>1, <2>2, WokenSame, Zenon
  <2> QED BY <2>1, <2>3, Zenon
<1>2. CASE Yield
  <2>1. /\ resume[currentThread] = "code"
        /\ resume'[currentThread] = "yield"
        /\ \A u \in Thread \ {currentThread} : resume'[u] = resume[u]
        /\ UNCHANGED <<waitSem, sem>>
    BY <1>0, <1>2, Zenon DEF Yield, IInv, SchedInv
  <2>2. Head(readyList) \in Thread /\ status[Head(readyList)] = "READY"
    BY <1>2, ListFacts DEF Yield
  <2>3. \A u \in Thread \ {currentThread} :
           \/ status'[u] = status[u]
           \/ status[u] = "READY" /\ status'[u] = "RUNNING"
    BY <1>0, <1>2, <2>2 DEF Yield, Run
  <2>4. Woken(s)' = Woken(s)
    BY <2>1, <2>3, WokenSame
  <2> QED BY <2>1, <2>4, Zenon
<1>3. CASE Finish
  <2>1. /\ machine = "running"
        /\ resume[currentThread] = "code"
        /\ resume'[currentThread] = "done"
        /\ \A u \in Thread \ {currentThread} : resume'[u] = resume[u]
        /\ UNCHANGED <<waitSem, sem>>
    BY <1>0, <1>3 DEF Finish, InCode, IInv, SchedInv
  <2>2. SleepPost(status)
    BY <1>3, <2>1, SleepFacts DEF Finish
  <2>3. \A u \in Thread \ {currentThread} :
           \/ status'[u] = status[u]
           \/ status[u] = "READY" /\ status'[u] = "RUNNING"
    BY <2>2 DEF SleepPost
  <2>4. Woken(s)' = Woken(s)
    BY <2>1, <2>3, WokenSame
  <2> QED BY <2>1, <2>4
<1>4. CASE ResumeRoot \/ ResumeYield
  <2>1. /\ resume[currentThread] \in {"root", "yield"}
        /\ resume'[currentThread] = "code"
        /\ \A u \in Thread \ {currentThread} : resume'[u] = resume[u]
        /\ UNCHANGED <<waitSem, sem>>
    BY <1>0, <1>4, Zenon DEF ResumeRoot, ResumeYield
  <2>2. \A u \in Thread : resume[u] = "P" => status'[u] = status[u]
    BY <1>4, ReapedFacts, Zenon DEF ResumeRoot, ResumeYield
  <2>3. Woken(s)' = Woken(s)
    BY <2>1, <2>2, WokenSame
  <2> QED BY <2>1, <2>3
<1>5. CASE IdleDispatch
  <2>1. Head(readyList) \in Thread /\ status[Head(readyList)] = "READY"
    BY <1>5, ListFacts DEF IdleDispatch
  <2>2. /\ \A u \in Thread :
              \/ status'[u] = status[u]
              \/ status[u] = "READY" /\ status'[u] = "RUNNING"
        /\ UNCHANGED <<resume, waitSem, sem>>
    BY <1>0, <1>5, <2>1, Zenon DEF IdleDispatch, Run
  <2>3. Woken(s)' = Woken(s)
    BY <2>2, WokenSame, Zenon
  <2> QED BY <2>2, <2>3, Zenon
<1>6. CASE Halt \/ UNCHANGED vars
  BY <1>6 DEF Halt, vars, Woken
<1> QED BY <1>1, <1>2, <1>3, <1>4, <1>5, <1>6, Zenon

\* A thread that blocks on s found its value zero, and is no longer woken.
LEMMA BlockOnNoLost ==
    ASSUME IInv, machine = "running", NEW s \in Sem, NEW STATE st,
           sem[s].value = 0, BlockOn(sem, s, st), ReapStep(st),
           resume[currentThread] = "P" => waitSem[currentThread] = s,
           NEW x \in Sem, NoLost(x)
    PROVE  NoLost(x)'
<1>1. /\ currentThread \in Thread
      /\ resume \in [Thread -> ResumePoint]
      /\ waitSem \in [Thread -> Sem \cup {NoSem}]
      /\ sem \in [Sem -> SemState]
  BY DEF IInv, TypeOK
<1>2. /\ sem'[s].value = sem[s].value
      /\ \A y \in Sem \ {s} : sem'[y] = sem[y]
  BY <1>1, Zenon DEF BlockOn, SemState
<1>3. CASE x = s
  <2>1. Cardinality(Woken(s)') \in Nat
    BY WokenFinite, Zenon
  <2> QED BY <1>2, <1>3, <2>1, SMTT(30) DEF NoLost
<1>4. CASE x # s
  <2>1. /\ resume'[currentThread] = "P"
        /\ waitSem'[currentThread] = s
        /\ \A t \in Thread \ {currentThread} :
              resume'[t] = resume[t] /\ waitSem'[t] = waitSem[t]
    BY <1>1 DEF BlockOn
  <2>2. \A t \in Thread \ {currentThread} :
           /\ resume[t] = "P"
           /\ status'[t] \in {"READY", "RUNNING"} \/ status[t] \in {"READY", "RUNNING"}
           => status'[t] \in {"READY", "RUNNING"} /\ status[t] \in {"READY", "RUNNING"}
    BY SleepWoken, Zenon DEF BlockOn
  <2>3. Woken(x)' = Woken(x)
    BY <1>4, <2>1, <2>2, WokenSame, Zenon
  <2> QED BY <1>2, <1>4, <2>3, NoLostFrame
<1> QED BY <1>3, <1>4

\* A thread that takes a unit of s was woken, and leaves Woken(s), or has just
\* arrived, and was not in it.
LEMMA TakeNoLost ==
    ASSUME IInv, machine = "running", NEW s \in Sem, NEW STATE st,
           sem[s].value # 0, Take(sem, s), status' = st, ReapStep(st),
           resume[currentThread] = "P" => waitSem[currentThread] = s,
           NEW x \in Sem, NoLost(x)
    PROVE  NoLost(x)'
<1>1. /\ currentThread \in Thread
      /\ resume \in [Thread -> ResumePoint]
      /\ waitSem \in [Thread -> Sem \cup {NoSem}]
      /\ sem \in [Sem -> SemState]
      /\ sem[s].value \in Int
  BY DEF IInv, TypeOK, SemState
<1>2. /\ sem'[s].value = sem[s].value - 1
      /\ sem'[s].queue = sem[s].queue
      /\ \A y \in Sem \ {s} : sem'[y] = sem[y]
  <2>1. sem' = [sem EXCEPT ![s] = [sem[s] EXCEPT !.value = sem[s].value - 1]]
    BY DEF Take
  <2> QED BY <1>1, <2>1 DEF SemState
<1>3. /\ resume'[currentThread] = "code"
      /\ \A t \in Thread \ {currentThread} :
            resume'[t] = resume[t] /\ waitSem'[t] = waitSem[t]
  BY <1>1 DEF Take
<1>4. \A t \in Thread : resume[t] = "P" => status'[t] = status[t]
  BY ReapStepFacts, Zenon
<1>5. CASE x # s
  <2>1. Woken(x)' = Woken(x)
    BY <1>3, <1>4, <1>5, WokenSame, ZenonT(30)
  <2> QED BY <1>2, <1>5, <2>1, NoLostFrame, Zenon
<1>6. CASE x = s
  <2>1. Woken(s)' = Woken(s) \ {currentThread}
    BY <1>1, <1>3, <1>4, ZenonT(30) DEF Woken
  <2>2. IsFiniteSet(Woken(s)) /\ Cardinality(Woken(s)') \in Nat /\ Cardinality(Woken(s)) \in Nat
    BY WokenFinite, Zenon
  <2>3. Cardinality(Woken(s)') >= Cardinality(Woken(s)) - 1
    <3>1. CASE currentThread \in Woken(s)
      <4>1. Cardinality(Woken(s) \ {currentThread}) = Cardinality(Woken(s)) - 1
        BY <2>2, <3>1, FS_RemoveElement, Zenon
      <4> QED BY <2>1, <2>2, <4>1, SMTT(30)
    <3>2. CASE currentThread \notin Woken(s)
      <4>1. Woken(s)' = Woken(s)
        BY <2>1, <3>2
      <4> QED BY <2>2, <4>1
    <3> QED BY <3>1, <3>2, Zenon
  <2> QED BY <1>1, <1>2, <1>6, <2>2, <2>3, SMTT(30) DEF NoLost
<1> QED BY <1>5, <1>6, Zenon

\* A V with a waiter adds a unit and a woken thread.
LEMMA DoVNoLost ==
    ASSUME IInv, NEW s \in Sem, DoV(sem, s), UNCHANGED <<resume, waitSem>>,
           NEW x \in Sem, NoLost(x)
    PROVE  NoLost(x)'
<1> DEFINE q == sem[s].queue
<1>1. /\ sem \in [Sem -> SemState]
      /\ status \in [Thread -> ThreadStatus]
      /\ sem[s].value \in Int
  BY DEF IInv, TypeOK, SemState
<1>2. CASE q = <<>>
  <2>1. /\ sem' = [sem EXCEPT ![s] = [sem[s] EXCEPT !.value = sem[s].value + 1]]
        /\ UNCHANGED status
    BY <1>2 DEF DoV
  <2>2. /\ sem'[s].value = sem[s].value + 1
        /\ sem'[s].queue = <<>>
        /\ \A y \in Sem \ {s} : sem'[y] = sem[y]
    BY <1>1, <1>2, <2>1 DEF SemState
  <2>3. Woken(x)' = Woken(x)
    BY <2>1, Zenon DEF Woken
  <2>4. CASE x = s
    BY <1>1, <2>2, <2>4, SMTT(30) DEF NoLost
  <2>5. CASE x # s
    BY <2>2, <2>3, <2>5, NoLostFrame, Zenon
  <2> QED BY <2>4, <2>5
<1>3. CASE q # <<>>
  <2> DEFINE h == Head(q)
  <2>1. h \in Thread /\ status[h] = "BLOCKED" /\ resume[h] = "P" /\ waitSem[h] = s
    BY <1>3, ListFacts
  <2>2. /\ status'[h] = "READY"
        /\ \A t \in Thread \ {h} : status'[t] = status[t]
        /\ sem'[s].value = sem[s].value + 1
        /\ \A y \in Sem \ {s} : sem'[y] = sem[y]
    BY <1>1, <1>3, <2>1, SMTT(30) DEF DoV
  <2> HIDE DEF h
  <2>3. CASE x = s
    <3>1. Woken(s)' = Woken(s) \cup {h} /\ h \notin Woken(s)
      BY <2>1, <2>2 DEF Woken
    <3>2. Cardinality(Woken(s)') = Cardinality(Woken(s)) + 1
      BY <3>1, WokenFinite, FS_AddElement, ZenonT(30)
    <3>3. Cardinality(Woken(s)) \in Nat
      BY WokenFinite
    <3> QED BY <1>1, <1>3, <2>2, <2>3, <3>2, <3>3, SMTT(30) DEF NoLost
  <2>4. CASE x # s
    <3>1. Woken(x)' = Woken(x)
      BY <2>1, <2>2, <2>4 DEF Woken
    <3> QED BY <2>2, <2>4, <3>1, NoLostFrame
  <2> QED BY <2>3, <2>4
<1> QED BY <1>2, <1>3, Zenon

\* Every step keeps NoLost for every semaphore.
LEMMA StepNoLost == IInv /\ NoLostWakeup /\ [Next]_vars => NoLostWakeup'
<1> SUFFICES ASSUME IInv, NoLostWakeup, [Next]_vars, NEW x \in Sem
             PROVE  NoLost(x)'
  BY DEF NoLostWakeup, NoLost
<1>0. NoLost(x)
  BY Zenon DEF NoLostWakeup, NoLost
<1>1. ASSUME NEW s \in Sem, P(s) PROVE NoLost(x)'
  <2>1. machine = "running" /\ ReapStep(status) /\ resume[currentThread] # "P"
    BY <1>1, Zenon DEF P, DoP, InCode, ReapStep, IInv, SchedInv
  <2>2. CASE sem[s].value = 0 /\ BlockOn(sem, s, status)
    BY <1>0, <2>1, <2>2, BlockOnNoLost, Zenon
  <2>3. CASE sem[s].value # 0 /\ Take(sem, s) /\ status' = status
    BY <1>0, <2>1, <2>3, TakeNoLost, Zenon
  <2> QED BY <1>1, <2>2, <2>3, Zenon DEF P, DoP
<1>2. CASE ResumeP
  <2> DEFINE s == waitSem[currentThread]
  <2>1. machine = "running" /\ ReapStep(Reaped) /\ s \in Sem
    BY <1>2, Zenon DEF ResumeP, Switched, ReapStep, IInv, TypeOK, SchedInv
  <2>2. CASE sem[s].value = 0 /\ BlockOn(sem, s, Reaped)
    BY <1>0, <2>1, <2>2, BlockOnNoLost, Zenon
  <2>3. CASE sem[s].value # 0 /\ Take(sem, s) /\ status' = Reaped
    BY <1>0, <2>1, <2>3, TakeNoLost, Zenon
  <2> QED BY <1>2, <2>2, <2>3, Zenon DEF ResumeP
<1>3. ASSUME NEW s \in Sem, V(s) \/ DeviceV(s) PROVE NoLost(x)'
  BY <1>0, <1>3, DoVNoLost DEF V, DeviceV
<1> QED BY <1>0, <1>1, <1>2, <1>3, SchedulerNoLost, Zenon DEF Next, Resume

\* No V is lost, for any number of threads and any use of the semaphores.
THEOREM NoWakeupLost == Spec => []NoLostWakeup
<1>1. Init => NoLostWakeup
  BY DEF Init, NoLostWakeup, NewSemaphore
<1> QED BY <1>1, StepNoLost, Invariance, PTL DEF Spec

=============================================================================
