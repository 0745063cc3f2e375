----------------------------- MODULE EventLoopProofs -----------------------------
(* Proofs about EventLoop.tla, for any number of threads, tasks, channels    *)
(* and timers and any eventfd limit: the types, the wakeup protocol, the     *)
(* FIFO hand-off, and that it implements TaskQueue.tla.                      *)
EXTENDS EventLoop, SequenceTheorems, FiniteSetTheorems, TLAPS

\* From the clock read to the end of the batch: the timeout is the one computed
\* for the timers there are, and when the wait runs out the earliest is due.
TimerInv ==
    /\ pc = "enter" =>
          NextTimeout(seen, timeout) /\ seen <= now /\ now <= seen + MaxDelay
    /\ pc \in {"wait", "dispatch", "swap", "run"} =>
          \/ deadline > MaxTime
          \/ \E tm \in timers_ :
                tm.at <= deadline \/ tm.at > seen + MaxTimeout * TicksPerMs
    /\ pc = "wait" => \A tm \in timers_ :
          deadline <= now \/ deadline < tm.at + TicksPerMs + MaxDelay

\* The inductive invariant: each part is proved with the help of those before.
IInv ==
    /\ TypeOK
    /\ BatchScope
    /\ NoLostWakeup
    /\ QuitInterruptsWait
    /\ TimerInv
    /\ FifoOnce

\* The results of epoll_wait are descriptors epoll watches.
LEMMA BatchType ==
    ASSUME TypeOK, NEW b \in Batches
    PROVE  b \in Seq(Fd \cup {WakeupFd})
<1>1. PICK S \in SUBSET Reported : b \in SetToSeqs(S)
  BY DEF Batches
<1>2. S \subseteq Fd \cup {WakeupFd}
  BY DEF Reported, TypeOK
<1>3. Cardinality(S) \in Nat
  <2>1. IsFiniteSet(Fd \cup {WakeupFd})
    BY FS_AddElement, EventLoopAssumption DEF EventLoopAssumption
  <2>2. QED
    BY <1>2, <2>1, FS_Subset, FS_CardinalityType
<1>4. b \in [1..Cardinality(S) -> S]
  BY <1>1 DEF SetToSeqs
<1>5. b \in Seq(S)
  BY <1>3, <1>4
<1>6. QED
  BY <1>2, <1>5

\* Milliseconds in ticks.
LEMMA TicksAreNat ==
    ASSUME NEW m \in Nat
    PROVE  m * TicksPerMs \in Nat
BY EventLoopAssumption DEF EventLoopAssumption

\* Every step keeps the types.
LEMMA TypeStep == ASSUME TypeOK, [Next]_vars PROVE TypeOK'
<1> USE EventLoopAssumption DEF EventLoopAssumption, TypeOK, loopVars, AtPc, NoDeadline
<1>1. CASE Exit
  BY <1>1 DEF Exit
<1>2. CASE StartWait
  <2>1. timeout # -1 => now + timeout * TicksPerMs \in Nat
    BY TicksAreNat
  <2>2. deadline' \in Nat
    BY <1>2, <2>1 DEF StartWait
  <2>3. QED
    BY <1>2, <2>2 DEF StartWait
<1>2a. CASE ComputeTimeout
  BY <1>2a DEF ComputeTimeout
<1>3. CASE WaitReturns
  <2>1. events' \in Seq(Fd \cup {WakeupFd})
    BY <1>3, BatchType DEF WaitReturns
  <2>2. QED
    BY <1>3, <2>1 DEF WaitReturns
<1>4. CASE SkipStaleEvent
  BY <1>4 DEF SkipStaleEvent
<1>5. CASE CallChannel
  BY <1>5 DEF CallChannel
<1>6. CASE ReadWakeup
  BY <1>6 DEF ReadWakeup
<1>7. CASE SwapTasks
  BY <1>7 DEF SwapTasks
<1>8. CASE RunTask
  BY <1>8 DEF RunTask
<1>9. CASE EndTasks
  BY <1>9 DEF EndTasks
<1>10. CASE EndDispatch
  BY <1>10 DEF EndDispatch
<1>11. CASE RunTimer
  BY <1>11 DEF RunTimer
<1>12. CASE EndTimers
  BY <1>12 DEF EndTimers
<1>13. CASE WaitInterrupted
  BY <1>13 DEF WaitInterrupted
<1>14. ASSUME NEW fd \in Fd, AddChannel(fd) PROVE TypeOK'
  BY <1>14 DEF AddChannel
<1>15. ASSUME NEW fd \in Fd, RemoveChannel(fd) PROVE TypeOK'
  BY <1>15 DEF RemoveChannel
<1>16. ASSUME NEW id \in Timer, NEW at \in 0..MaxTimer, RunAt(id, at)
      PROVE TypeOK'
  BY <1>16 DEF RunAt, TimerEntry
<1>17. CASE Return
  BY <1>17 DEF Return
<1>18. ASSUME NEW th \in Thread, NEW t \in Task, PushTask(th, t)
      PROVE TypeOK'
  BY <1>18 DEF PushTask
<1>19. ASSUME NEW th \in Thread, StoreQuit(th) PROVE TypeOK'
  BY <1>19 DEF StoreQuit
<1>20. ASSUME NEW th \in Thread, Wakeup(th) PROVE TypeOK'
  BY <1>20 DEF Wakeup
<1>21. ASSUME NEW fd \in Fd, BecomeReady(fd) PROVE TypeOK'
  BY <1>21 DEF BecomeReady
<1>22. CASE Tick
  BY <1>22 DEF Tick
<1>23. CASE UNCHANGED vars
  BY <1>23 DEF vars
<1>24. QED
  BY <1>1, <1>2, <1>2a, <1>3, <1>4, <1>5, <1>6, <1>7, <1>8, <1>9, <1>10, <1>11,
     <1>12, <1>13, <1>14, <1>15, <1>16, <1>17, <1>18, <1>19, <1>20, <1>21, <1>22, <1>23
  DEF Next, LoopStep, ClientStep, ThreadStep

\* Batches and client code stay inside their loops.
LEMMA ScopeStep == ASSUME TypeOK, BatchScope, [Next]_vars PROVE BatchScope'
<1> USE DEF TypeOK, BatchScope, loopVars, AtPc
<1>1. CASE Exit
  BY <1>1 DEF Exit
<1>2. CASE StartWait
  BY <1>2 DEF StartWait
<1>2a. CASE ComputeTimeout
  BY <1>2a DEF ComputeTimeout
<1>3. CASE WaitReturns
  BY <1>3 DEF WaitReturns
<1>4. CASE SkipStaleEvent
  BY <1>4 DEF SkipStaleEvent
<1>5. CASE CallChannel
  BY <1>5 DEF CallChannel
<1>6. CASE ReadWakeup
  BY <1>6 DEF ReadWakeup
<1>7. CASE SwapTasks
  BY <1>7 DEF SwapTasks
<1>8. CASE RunTask
  BY <1>8 DEF RunTask
<1>9. CASE EndTasks
  BY <1>9 DEF EndTasks
<1>10. CASE EndDispatch
  BY <1>10 DEF EndDispatch
<1>11. CASE RunTimer
  BY <1>11 DEF RunTimer
<1>12. CASE EndTimers
  BY <1>12 DEF EndTimers
<1>13. CASE WaitInterrupted
  BY <1>13 DEF WaitInterrupted
<1>14. ASSUME NEW fd \in Fd, AddChannel(fd) PROVE BatchScope'
  BY <1>14 DEF AddChannel
<1>15. ASSUME NEW fd \in Fd, RemoveChannel(fd) PROVE BatchScope'
  BY <1>15 DEF RemoveChannel
<1>16. ASSUME NEW id \in Timer, NEW at \in 0..MaxTimer, RunAt(id, at)
      PROVE BatchScope'
  BY <1>16 DEF RunAt
<1>17. CASE Return
  BY <1>17 DEF Return
<1>18. ASSUME NEW th \in Thread, NEW t \in Task, PushTask(th, t)
      PROVE BatchScope'
  BY <1>18 DEF PushTask
<1>19. ASSUME NEW th \in Thread, StoreQuit(th) PROVE BatchScope'
  BY <1>19 DEF StoreQuit
<1>20. ASSUME NEW th \in Thread, Wakeup(th) PROVE BatchScope'
  BY <1>20 DEF Wakeup
<1>21. ASSUME NEW fd \in Fd, BecomeReady(fd) PROVE BatchScope'
  BY <1>21 DEF BecomeReady
<1>22. CASE Tick
  BY <1>22 DEF Tick
<1>23. CASE UNCHANGED vars
  BY <1>23 DEF vars
<1>24. QED
  BY <1>1, <1>2, <1>2a, <1>3, <1>4, <1>5, <1>6, <1>7, <1>8, <1>9, <1>10, <1>11,
     <1>12, <1>13, <1>14, <1>15, <1>16, <1>17, <1>18, <1>19, <1>20, <1>21, <1>22, <1>23
  DEF Next, LoopStep, ClientStep, ThreadStep

\* The eventfd write that follows every push and every store to quit_, and the
\* swap that follows every read, keep the loop awake.
LEMMA WakeStep ==
    ASSUME TypeOK, NoLostWakeup, QuitInterruptsWait, [Next]_vars
    PROVE  NoLostWakeup' /\ QuitInterruptsWait'
<1> USE EventLoopAssumption
    DEF TypeOK, NoLostWakeup, QuitInterruptsWait, loopVars, AtPc
<1>1. CASE Exit
  BY <1>1 DEF Exit
<1>2. CASE StartWait
  BY <1>2 DEF StartWait
<1>2a. CASE ComputeTimeout
  BY <1>2a DEF ComputeTimeout
<1>3. CASE WaitReturns
  BY <1>3 DEF WaitReturns
<1>4. CASE SkipStaleEvent
  BY <1>4 DEF SkipStaleEvent
<1>5. CASE CallChannel
  BY <1>5 DEF CallChannel
<1>6. CASE ReadWakeup
  BY <1>6 DEF ReadWakeup
<1>7. CASE SwapTasks
  BY <1>7 DEF SwapTasks
<1>8. CASE RunTask
  BY <1>8 DEF RunTask
<1>9. CASE EndTasks
  BY <1>9 DEF EndTasks
<1>10. CASE EndDispatch
  BY <1>10 DEF EndDispatch
<1>11. CASE RunTimer
  BY <1>11 DEF RunTimer
<1>12. CASE EndTimers
  BY <1>12 DEF EndTimers
<1>13. CASE WaitInterrupted
  BY <1>13 DEF WaitInterrupted
<1>14. ASSUME NEW fd \in Fd, AddChannel(fd) PROVE NoLostWakeup' /\ QuitInterruptsWait'
  BY <1>14 DEF AddChannel
<1>15. ASSUME NEW fd \in Fd, RemoveChannel(fd) PROVE NoLostWakeup' /\ QuitInterruptsWait'
  BY <1>15 DEF RemoveChannel
<1>16. ASSUME NEW id \in Timer, NEW at \in 0..MaxTimer, RunAt(id, at)
      PROVE NoLostWakeup' /\ QuitInterruptsWait'
  BY <1>16 DEF RunAt
<1>17. CASE Return
  BY <1>17 DEF Return
<1>18. ASSUME NEW th \in Thread, NEW t \in Task, PushTask(th, t)
      PROVE NoLostWakeup' /\ QuitInterruptsWait'
  BY <1>18 DEF PushTask
<1>19. ASSUME NEW th \in Thread, StoreQuit(th) PROVE NoLostWakeup' /\ QuitInterruptsWait'
  BY <1>19 DEF StoreQuit
<1>20. ASSUME NEW th \in Thread, Wakeup(th) PROVE NoLostWakeup' /\ QuitInterruptsWait'
  BY <1>20 DEF Wakeup
<1>21. ASSUME NEW fd \in Fd, BecomeReady(fd) PROVE NoLostWakeup' /\ QuitInterruptsWait'
  BY <1>21 DEF BecomeReady
<1>22. CASE Tick
  BY <1>22 DEF Tick
<1>23. CASE UNCHANGED vars
  BY <1>23 DEF vars
<1>24. QED
  BY <1>1, <1>2, <1>2a, <1>3, <1>4, <1>5, <1>6, <1>7, <1>8, <1>9, <1>10, <1>11,
     <1>12, <1>13, <1>14, <1>15, <1>16, <1>17, <1>18, <1>19, <1>20, <1>21, <1>22, <1>23
  DEF Next, LoopStep, ClientStep, ThreadStep

\* The longer of two times in milliseconds is the longer in ticks.
LEMMA TicksGrow ==
    ASSUME NEW m \in Nat, NEW n \in Nat, m <= n
    PROVE  m * TicksPerMs <= n * TicksPerMs
<1> DEFINE d == n - m
<1>1. d \in Nat /\ n = m + d /\ TicksPerMs \in Nat
  BY EventLoopAssumption DEF EventLoopAssumption
<1>2. (m + d) * TicksPerMs = m * TicksPerMs + d * TicksPerMs
  <2> HIDE DEF d
  <2>1. \A x, y, t \in Nat : (x + y) * t = x * t + y * t
    OBVIOUS
  <2>2. QED
    BY <1>1, <2>1
<1>3. d * TicksPerMs \in Nat /\ m * TicksPerMs \in Nat
  BY <1>1, TicksAreNat
<1>4. QED
  BY <1>1, <1>2, <1>3

\* The wait that is entered serves the timers.
LEMMA EnterStep ==
    ASSUME TypeOK, TimerInv, StartWait
    PROVE  TimerInv'
<1> USE EventLoopAssumption DEF EventLoopAssumption
<1>a. /\ NextTimeout(seen, timeout) /\ seen <= now /\ now <= seen + MaxDelay
      /\ pc' = "wait"
      /\ UNCHANGED <<timers_, now, seen>>
      /\ deadline' = IF timeout = -1 THEN NoDeadline ELSE now + timeout * TicksPerMs
  BY DEF StartWait, AtPc, TimerInv
<1>b. now \in Nat /\ seen \in Nat /\ timers_ \subseteq TimerEntry
  BY DEF TypeOK
<1>1. CASE timers_ = {} /\ timeout = -1
  <2>1. deadline' > MaxTime
    BY <1>1, <1>a DEF NoDeadline
  <2>2. QED
    BY <1>1, <1>a, <2>1 DEF TimerInv
<1>2. CASE ~(timers_ = {} /\ timeout = -1)
  <2>1. PICK tm \in Earliest :
          \/ tm.at <= seen /\ timeout = 0
          \/ /\ tm.at > seen
             /\ \E span \in 0..MaxTimer :
                   RoundedUp(tm.at - seen, span) /\ timeout = Clamped(span)
    BY <1>2, <1>a DEF NextTimeout
  <2>2. tm \in timers_ /\ tm.at \in Nat /\ \A other \in timers_ : other.at \in Nat /\ tm.at <= other.at
    BY <2>1, <1>b DEF Earliest, TimerEntry
  <2>3. CASE tm.at <= seen /\ timeout = 0
    <3>1. deadline' = now
      BY <2>3, <1>a, <1>b
    <3>2. tm.at <= deadline'
      BY <3>1, <2>3, <2>2, <1>a, <1>b
    <3>3. QED
      BY <3>1, <3>2, <2>2, <1>a, <1>b DEF TimerInv
  <2>4. CASE ~(tm.at <= seen /\ timeout = 0)
    <3>1. PICK span \in 0..MaxTimer :
            RoundedUp(tm.at - seen, span) /\ timeout = Clamped(span)
      BY <2>1, <2>4
    <3>2. tm.at > seen
      BY <2>1, <2>4
    <3>3. PICK covers : covers = span * TicksPerMs
      OBVIOUS
    <3>4. covers \in Nat /\ tm.at - seen <= covers /\ covers < tm.at - seen + TicksPerMs
      BY <3>1, <3>2, <3>3, <2>2, <1>b, TicksAreNat DEF RoundedUp
    <3>5. PICK longest : longest = MaxTimeout * TicksPerMs
      OBVIOUS
    <3>6. longest \in Nat
      BY <3>5, TicksAreNat
    <3>7. CASE span < MaxTimeout
      <4>1. deadline' = now + covers
        BY <3>7, <3>1, <3>3, <1>a DEF Clamped
      <4>2. tm.at <= deadline'
        BY <4>1, <3>4, <2>2, <1>a, <1>b
      <4>3. \A other \in timers_ : deadline' < other.at + TicksPerMs + MaxDelay
        BY <4>1, <3>4, <2>2, <1>a, <1>b
      <4>4. QED
        BY <4>2, <4>3, <2>2, <1>a DEF TimerInv
    <3>8. CASE ~(span < MaxTimeout)
      <4>1. deadline' = now + longest
        BY <3>8, <3>1, <3>5, <1>a DEF Clamped
      <4>2. longest <= covers
        BY <3>8, <3>3, <3>5, TicksGrow
      <4>3. tm.at <= deadline' \/ tm.at > seen + longest
        BY <4>1, <3>6, <2>2, <1>a, <1>b
      <4>4. \A other \in timers_ : deadline' < other.at + TicksPerMs + MaxDelay
        BY <4>1, <4>2, <3>4, <3>6, <2>2, <1>a, <1>b
      <4>5. QED
        BY <4>3, <4>4, <3>5, <2>2, <1>a DEF TimerInv
    <3>9. QED
      BY <3>7, <3>8
  <2>5. QED
    BY <2>3, <2>4
<1>3. QED
  BY <1>1, <1>2

\* Between the clock read and the end of the batch timers are only added, and
\* none while the thread enters epoll_wait or waits.
LEMMA TimerStep ==
    ASSUME TypeOK, BatchScope, TimerInv, [Next]_vars
    PROVE  TimerInv'
<1> USE EventLoopAssumption
    DEF EventLoopAssumption, TypeOK, BatchScope, TimerInv, loopVars, AtPc,
        TimerEntry, NextTimeout, Earliest
<1>1. CASE Exit
  BY <1>1 DEF Exit
<1>2. CASE StartWait
  BY <1>2, EnterStep
<1>2a. CASE ComputeTimeout
  BY <1>2a DEF ComputeTimeout
<1>3. CASE WaitReturns
  BY <1>3 DEF WaitReturns
<1>4. CASE SkipStaleEvent
  BY <1>4 DEF SkipStaleEvent
<1>5. CASE CallChannel
  BY <1>5 DEF CallChannel
<1>6. CASE ReadWakeup
  BY <1>6 DEF ReadWakeup
<1>7. CASE SwapTasks
  BY <1>7 DEF SwapTasks
<1>8. CASE RunTask
  BY <1>8 DEF RunTask
<1>9. CASE EndTasks
  BY <1>9 DEF EndTasks
<1>10. CASE EndDispatch
  BY <1>10 DEF EndDispatch
<1>11. CASE RunTimer
  BY <1>11 DEF RunTimer
<1>12. CASE EndTimers
  BY <1>12 DEF EndTimers
<1>13. CASE WaitInterrupted
  BY <1>13 DEF WaitInterrupted
<1>14. ASSUME NEW fd \in Fd, AddChannel(fd) PROVE TimerInv'
  BY <1>14 DEF AddChannel
<1>15. ASSUME NEW fd \in Fd, RemoveChannel(fd) PROVE TimerInv'
  BY <1>15 DEF RemoveChannel
<1>16. ASSUME NEW id \in Timer, NEW at \in 0..MaxTimer, RunAt(id, at)
      PROVE TimerInv'
  BY <1>16 DEF RunAt, InClientCode, Free
<1>17. CASE Return
  BY <1>17 DEF Return
<1>18. ASSUME NEW th \in Thread, NEW t \in Task, PushTask(th, t)
      PROVE TimerInv'
  BY <1>18 DEF PushTask
<1>19. ASSUME NEW th \in Thread, StoreQuit(th) PROVE TimerInv'
  BY <1>19 DEF StoreQuit
<1>20. ASSUME NEW th \in Thread, Wakeup(th) PROVE TimerInv'
  BY <1>20 DEF Wakeup
<1>21. ASSUME NEW fd \in Fd, BecomeReady(fd) PROVE TimerInv'
  BY <1>21 DEF BecomeReady
<1>22. CASE Tick
  BY <1>22 DEF Tick
<1>23. CASE UNCHANGED vars
  BY <1>23 DEF vars
<1>24. QED
  BY <1>1, <1>2, <1>2a, <1>3, <1>4, <1>5, <1>6, <1>7, <1>8, <1>9, <1>10, <1>11,
     <1>12, <1>13, <1>14, <1>15, <1>16, <1>17, <1>18, <1>19, <1>20, <1>21, <1>22, <1>23
  DEF Next, LoopStep, ClientStep, ThreadStep

\* Taking a task out of pending_tasks_ or out of the batch only moves the
\* boundaries inside the sequence of pushes.
LEMMA FifoStep ==
    ASSUME TypeOK, BatchScope, FifoOnce, [Next]_vars
    PROVE  FifoOnce'
<1> USE DEF FifoOnce
<1>a. ran \in Seq(Task) /\ tasks \in Seq(Task) /\ pending_tasks_ \in Seq(Task)
  BY DEF TypeOK
<1>1. CASE SwapTasks
  <2>1. tasks = <<>>
    BY <1>1 DEF SwapTasks, BatchScope, AtPc
  <2>2. ran' \o tasks' \o pending_tasks_' = ran \o pending_tasks_
    BY <1>1, <1>a, ConcatEmptySeq, ConcatProperties DEF SwapTasks
  <2>3. QED
    BY <1>1, <1>a, <2>1, <2>2, ConcatEmptySeq DEF SwapTasks
<1>2. CASE RunTask
  <2>1. tasks = <<Head(tasks)>> \o Tail(tasks) /\ Head(tasks) \in Task
        /\ Tail(tasks) \in Seq(Task)
    BY <1>2, <1>a DEF RunTask
  <2>2. ran' \o tasks' = ran \o tasks
    BY <1>2, <1>a, <2>1, AppendIsConcat, ConcatAssociative DEF RunTask
  <2>3. QED
    BY <1>2, <2>2 DEF RunTask
<1>3. ASSUME NEW th \in Thread, NEW t \in Task, PushTask(th, t)
      PROVE FifoOnce'
  <2>1. ran \o tasks \in Seq(Task)
    BY <1>a, ConcatProperties
  <2>2. (ran \o tasks) \o Append(pending_tasks_, t)
        = Append((ran \o tasks) \o pending_tasks_, t)
    <3>1. <<t>> \in Seq(Task)
      BY <1>3
    <3>2. (ran \o tasks) \o (pending_tasks_ \o <<t>>)
          = ((ran \o tasks) \o pending_tasks_) \o <<t>>
      <4>1. \A p, q, r \in Seq(Task) : (p \o q) \o r = p \o (q \o r)
        BY ConcatAssociative
      <4>2. QED
        BY <1>a, <2>1, <3>1, <4>1
    <3>3. QED
      BY <1>a, <3>1, <3>2, AppendIsConcat
  <2>3. QED
    BY <1>3, <2>2 DEF PushTask, loopVars
<1>4. CASE UNCHANGED <<posted, ran, tasks, pending_tasks_>>
  BY <1>4
<1>5. \/ SwapTasks \/ RunTask
      \/ \E th \in Thread, t \in Task : PushTask(th, t)
      \/ UNCHANGED <<posted, ran, tasks, pending_tasks_>>
  BY DEF Next, LoopStep, ClientStep, ThreadStep, vars, loopVars,
         Exit, ComputeTimeout, StartWait, WaitReturns, SkipStaleEvent, CallChannel, ReadWakeup,
         EndTasks, EndDispatch, RunTimer, EndTimers, WaitInterrupted,
         AddChannel, RemoveChannel, RunAt, Return, StoreQuit, Wakeup,
         BecomeReady, Tick
<1>6. QED
  BY <1>1, <1>2, <1>3, <1>4, <1>5

\* Every reachable state satisfies the inductive invariant: the descriptions of
\* its parts are in EventLoop.tla.
THEOREM Invariance == Spec => []IInv
<1>1. Init => IInv
  <2>1. Init => TypeOK
    <3>1. Init => pending_tasks_ \in Seq(Task) /\ tasks \in Seq(Task) /\ posted \in Seq(Task)
                  /\ ran \in Seq(Task) /\ events \in Seq(Fd \cup {WakeupFd})
      BY EmptySeq DEF Init
    <3>2. Init => eventfd \in 0..MaxCounter /\ now \in 0..MaxTime /\ seen \in 0..MaxTime
                  /\ deadline \in Nat /\ timeout \in -1..MaxTimeout
      BY EventLoopAssumption DEF Init, NoDeadline, EventLoopAssumption
    <3>3. QED
      BY <3>1, <3>2 DEF Init, TypeOK
  <2>2. Init => FifoOnce
    BY ConcatEmptySeq, EmptySeq DEF Init, FifoOnce
  <2>3. QED
    BY <2>1, <2>2
    DEF Init, IInv, BatchScope, NoLostWakeup, QuitInterruptsWait, TimerInv
<1>2. IInv /\ [Next]_vars => IInv'
  BY TypeStep, ScopeStep, WakeStep, TimerStep, FifoStep DEF IInv
<1>3. QED
  BY <1>1, <1>2, PTL DEF Spec

\* The variables of a loop always have their types.
THEOREM TypeCorrect == Spec => []TypeOK
BY Invariance, PTL DEF IInv

\* No task waits in pending_tasks_ without a wakeup on its way, for any number
\* of threads and any eventfd limit (queueInLoop, wakeup, handleWakeup).
THEOREM WakeupsAreNotLost == Spec => []NoLostWakeup
BY Invariance, PTL DEF IInv

\* A quit() from any thread cannot leave the loop blocked (quit, wakeup).
THEOREM QuitWakesTheLoop == Spec => []QuitInterruptsWait
BY Invariance, PTL DEF IInv

\* Tasks are started exactly once and in the order they were pushed.
THEOREM HandoffIsFifo == Spec => []FifoOnce
BY Invariance, PTL DEF IInv

\* However a timeout is rounded and cut, and however late epoll_wait is entered,
\* a wait that runs out finds a timer due, and none goes on for a millisecond
\* beyond one (EventLoop::loop, millisecondsUntilNextTimer).
THEOREM TimeoutsServeTimers == Spec => []TimeoutServesTimers
<1>1. IInv => TimeoutServesTimers
  <2> SUFFICES ASSUME IInv PROVE TimeoutServesTimers
    OBVIOUS
  <2>1. /\ now \in Nat /\ now <= MaxTime /\ deadline \in Nat /\ MaxTime \in Nat
        /\ \A tm \in timers_ : tm.at \in Nat
    BY EventLoopAssumption DEF IInv, TypeOK, TimerEntry, EventLoopAssumption
  <2>2. ASSUME pc \in {"wait", "dispatch", "swap", "run"}, now >= deadline
        PROVE  \E tm \in timers_ :
                  tm.at <= now \/ tm.at > seen + MaxTimeout * TicksPerMs
    <3>1. PICK tm \in timers_ :
            tm.at <= deadline \/ tm.at > seen + MaxTimeout * TicksPerMs
      BY <2>1, <2>2 DEF IInv, TimerInv
    <3>2. QED
      BY <2>1, <2>2, <3>1
  <2>3. QED
    BY <2>2 DEF TimeoutServesTimers, IInv, TimerInv
<1>2. QED
  BY <1>1, Invariance, PTL

\* What is queued and what has run, together, is what was posted.
LEMMA PostedRange ==
    ASSUME TypeOK, FifoOnce
    PROVE  ToSet(posted) = ToSet(tasks \o pending_tasks_) \cup ToSet(ran)
<1>1. tasks \o pending_tasks_ \in Seq(Task)
  BY ConcatProperties DEF TypeOK
<1>2. ran \in Seq(Task) /\ tasks \in Seq(Task) /\ pending_tasks_ \in Seq(Task)
  BY DEF TypeOK
<1>3. posted = ran \o (tasks \o pending_tasks_)
  <2>1. (ran \o tasks) \o pending_tasks_ = ran \o (tasks \o pending_tasks_)
    BY <1>2, ConcatAssociative
  <2>2. QED
    BY <2>1 DEF FifoOnce
<1>4. Range(ran \o (tasks \o pending_tasks_))
      = Range(ran) \cup Range(tasks \o pending_tasks_)
  <2>1. \A s, t \in Seq(Task) : Range(s \o t) = Range(s) \cup Range(t)
    BY RangeConcatenation
  <2>2. QED
    BY <1>1, <1>2, <2>1, Zenon
<1>5. QED
  BY <1>3, <1>4 DEF ToSet, Range

\* A step of the loop and its callers is a step of the task queue, or none.
LEMMA QueueStep == ASSUME IInv, [Next]_vars PROVE [TQ!Next]_(TQ!vars)
<1> DEFINE queue == tasks \o pending_tasks_
<1>a. ran \in Seq(Task) /\ tasks \in Seq(Task) /\ pending_tasks_ \in Seq(Task)
  BY DEF IInv, TypeOK
<1>1. CASE SwapTasks
  <2>1. tasks = <<>>
    BY <1>1 DEF SwapTasks, IInv, BatchScope, AtPc
  <2>2. queue' = queue
    BY <1>1, <1>a, <2>1, ConcatEmptySeq DEF SwapTasks
  <2>3. (pc = "exited")' = (pc = "exited")
    BY <1>1 DEF SwapTasks, AtPc
  <2>4. QED
    BY <1>1, <2>2, <2>3 DEF SwapTasks, TQ!vars
<1>2. CASE RunTask
  <2>1. queue # <<>> /\ Head(queue) = Head(tasks) /\ Tail(queue) = Tail(tasks) \o pending_tasks_
    <3>1. Len(tasks) > 0 /\ Len(queue) = Len(tasks) + Len(pending_tasks_)
      BY <1>2, <1>a, EmptySeq, ConcatProperties DEF RunTask
    <3>2. tasks = <<Head(tasks)>> \o Tail(tasks) /\ Head(tasks) \in Task
          /\ Tail(tasks) \in Seq(Task)
      BY <1>2, <1>a DEF RunTask
    <3>3. Tail(tasks) \o pending_tasks_ \in Seq(Task)
      BY <1>a, <3>2, ConcatProperties
    <3>4. queue = <<Head(tasks)>> \o (Tail(tasks) \o pending_tasks_)
      BY <1>a, <3>2, ConcatAssociative
    <3>5. QED
      BY <3>2, <3>3, <3>4
  <2>2. TQ!Run
    BY <1>2, <2>1 DEF RunTask, AtPc, TQ!Run
  <2>3. QED
    BY <2>2 DEF TQ!Next
<1>3. ASSUME NEW th \in Thread, NEW t \in Task, PushTask(th, t)
      PROVE TQ!Submit(t)
  <2>1. t \notin ToSet(queue) \cup ToSet(ran)
    BY <1>3, PostedRange DEF PushTask, IInv
  <2>2. queue' = Append(queue, t)
    <3>1. <<t>> \in Seq(Task) /\ queue \in Seq(Task)
      BY <1>a, ConcatProperties
    <3>2. tasks \o (pending_tasks_ \o <<t>>) = queue \o <<t>>
      BY <1>a, <3>1, ConcatAssociative
    <3>3. QED
      BY <1>3, <1>a, <3>1, <3>2, AppendIsConcat DEF PushTask, loopVars
  <2>3. QED
    BY <1>3, <2>1, <2>2 DEF PushTask, loopVars, TQ!Submit, ToSet, TQ!ToSet
<1>4. CASE Exit
  BY <1>4 DEF Exit, AtPc, TQ!Next, TQ!Stop
<1>5. CASE UNCHANGED <<ran, tasks, pending_tasks_>> /\ (pc = "exited")' = (pc = "exited")
  BY <1>5 DEF TQ!vars
<1>6. \/ SwapTasks \/ RunTask \/ Exit
      \/ \E th \in Thread, t \in Task : PushTask(th, t)
      \/ UNCHANGED <<ran, tasks, pending_tasks_>> /\ (pc = "exited")' = (pc = "exited")
  BY DEF Next, LoopStep, ClientStep, ThreadStep, vars, loopVars, AtPc,
         ComputeTimeout, StartWait, WaitReturns, SkipStaleEvent, CallChannel, ReadWakeup,
         EndTasks, EndDispatch, RunTimer, EndTimers, WaitInterrupted,
         AddChannel, RemoveChannel, RunAt, Return, StoreQuit, Wakeup,
         BecomeReady, Tick
<1>7. QED
  BY <1>1, <1>2, <1>3, <1>4, <1>5, <1>6 DEF TQ!Next

\* The eventfd/mutex protocol implements the safety part of TaskQueue.tla: what
\* callers of queueInLoop may rely on.
THEOREM ImplementsTaskQueue == Spec => TQ!Init /\ [][TQ!Next]_(TQ!vars)
<1>1. Init => TQ!Init
  BY ConcatEmptySeq, EmptySeq DEF Init, TQ!Init
<1>2. IInv /\ [Next]_vars => [TQ!Next]_(TQ!vars)
  BY QueueStep
<1>3. QED
  BY <1>1, <1>2, Invariance, PTL DEF Spec
================================================================================
