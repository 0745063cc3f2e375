------------------------------- MODULE EventLoop -------------------------------
(* One net::EventLoop: the thread that runs loop(), and the other threads    *)
(* that call queueInLoop() and quit() on it.  Shared between them are        *)
(* pending_tasks_ (under its mutex), the atomic quit_ and the eventfd;       *)
(* channels_ and timer_queue_ belong to the loop thread alone.               *)
(*                                                                           *)
(* queueInLoop and quit are two steps each, a store and an eventfd write,    *)
(* and handleWakeup is a read and a swap: any other thread may act between.  *)
(* The code that channels, tasks and timers call back into is the loop's     *)
(* client: while calling, it may use the whole interface of the loop.        *)
EXTENDS Integers, Sequences, FiniteSets, SequencesExt

CONSTANTS
    Thread,         \* threads that use the loop
    LoopThread,     \* the one that runs loop()
    Task,           \* tasks that may be queued, each once
    Fd,             \* descriptors that may have a channel
    WakeupFd,       \* wakeup_fd_, whose channel is never removed while looping
    Timer,          \* timers that may be set
    MaxCounter,     \* largest eventfd value: 2^64 - 2 in Linux
    MaxEvents,      \* size of the epoll result array
    TicksPerMs,     \* ticks of steady_clock in a millisecond
    MaxTimeout,     \* longest timeout of epoll_wait, in ms: INT_MAX
    MaxTimer,       \* bound of the times for which timers are set
    MaxDelay,       \* bound of the time between the clock read and epoll_wait
    MaxTime,        \* bound of the clock
    PastTimers      \* whether the client may set a timer that is already due

ASSUME EventLoopAssumption ==
    /\ LoopThread \in Thread
    /\ IsFiniteSet(Fd)
    /\ WakeupFd \notin Fd
    /\ MaxCounter \in Nat \ {0}
    /\ MaxEvents \in Nat \ {0}
    /\ TicksPerMs \in Nat \ {0}
    /\ MaxTimeout \in Nat \ {0}
    /\ MaxTimer \in Nat
    /\ MaxDelay \in Nat
    /\ MaxTime \in Nat
    /\ MaxTimer + (TicksPerMs - 1) + MaxDelay <= MaxTime  \* all timers can fire
    /\ PastTimers \in BOOLEAN

VARIABLES
    quit_,          \* atomic flag
    channels_,      \* descriptors with a registered channel
    timers_,        \* contents of timer_queue_: [id, at]
    pending_tasks_, \* tasks pushed by queueInLoop, not yet taken
    eventfd,        \* kernel counter of wakeup_fd_
    ready,          \* descriptors the kernel finds readable
    now,            \* steady_clock
    pc,             \* where the loop thread is
    seen,           \* the clock as loop() last read it
    timeout,        \* the timeout for epoll_wait in ms; -1: none
    deadline,       \* when the epoll_wait that was begun times out
    events,         \* rest of the batch returned by epoll_wait
    tasks,          \* rest of the tasks taken by handleWakeup
    calling,        \* the loop thread is inside client code
    writing,        \* threads inside wakeup(), before the eventfd write
    posted,         \* history: tasks in the order they were pushed
    ran             \* history: tasks in the order they were started

loopVars == <<pc, seen, timeout, deadline, events, tasks>>
vars == <<quit_, channels_, timers_, pending_tasks_, eventfd, ready, now,
          loopVars, calling, writing, posted, ran>>

NoDeadline == MaxTime + 1

TimerEntry == [id : Timer, at : 0..MaxTimer]

TypeOK ==
    /\ quit_ \in BOOLEAN
    /\ channels_ \subseteq Fd
    /\ timers_ \subseteq TimerEntry
    /\ pending_tasks_ \in Seq(Task)
    /\ eventfd \in 0..MaxCounter
    /\ ready \subseteq Fd
    /\ now \in 0..MaxTime
    /\ pc \in {"check", "enter", "wait", "dispatch", "swap", "run", "timers", "exited"}
    /\ seen \in 0..MaxTime
    /\ timeout \in -1..MaxTimeout
    /\ deadline \in Nat
    /\ events \in Seq(Fd \cup {WakeupFd})
    /\ tasks \in Seq(Task)
    /\ calling \in BOOLEAN
    /\ writing \subseteq Thread
    /\ posted \in Seq(Task)
    /\ ran \in Seq(Task)

\* The owner sets the loop up (calling) before it enters loop().
Init ==
    /\ quit_ = FALSE
    /\ channels_ = {}
    /\ timers_ = {}
    /\ pending_tasks_ = <<>>
    /\ eventfd = 0
    /\ ready = {}
    /\ now = 0
    /\ pc = "check"
    /\ seen = 0
    /\ timeout = -1
    /\ deadline = NoDeadline
    /\ events = <<>>
    /\ tasks = <<>>
    /\ calling = TRUE
    /\ writing = {}
    /\ posted = <<>>
    /\ ran = <<>>

--------------------------------------------------------------------------------
(* Operations any thread may call.                                           *)

\* A thread can make a call: the loop thread only from client code.
Free(th) == /\ th \notin writing
            /\ th = LoopThread => calling /\ pc # "exited"

\* Fault: the loop thread does not wake itself up.
Faulty_PushTask(th, t) ==
    /\ Free(th)
    /\ t \notin ToSet(posted)
    /\ pending_tasks_' = Append(pending_tasks_, t)
    /\ posted' = Append(posted, t)
    /\ writing' = writing \cup ({th} \ {LoopThread})
    /\ UNCHANGED <<quit_, channels_, timers_, eventfd, ready, now, loopVars,
                   calling, ran>>

\* queueInLoop: push under the mutex, wakeup() still to come.
PushTask(th, t) ==
    /\ Free(th)
    /\ t \notin ToSet(posted)
    /\ pending_tasks_' = Append(pending_tasks_, t)
    /\ posted' = Append(posted, t)
    /\ writing' = writing \cup {th}
    /\ UNCHANGED <<quit_, channels_, timers_, eventfd, ready, now, loopVars,
                   calling, ran>>

\* Fault: quit does not wake the loop up.
Faulty_StoreQuit(th) ==
    /\ Free(th)
    /\ quit_' = TRUE
    /\ UNCHANGED <<channels_, timers_, pending_tasks_, eventfd, ready, now,
                   loopVars, calling, writing, posted, ran>>

\* quit: store the flag, wakeup() still to come.
StoreQuit(th) ==
    /\ Free(th)
    /\ quit_' = TRUE
    /\ writing' = writing \cup {th}
    /\ UNCHANGED <<channels_, timers_, pending_tasks_, eventfd, ready, now,
                   loopVars, calling, posted, ran>>

\* wakeup: a saturated counter makes the write fail with EAGAIN, which is ignored.
Wakeup(th) ==
    /\ th \in writing
    /\ eventfd' = IF eventfd < MaxCounter THEN eventfd + 1 ELSE eventfd
    /\ writing' = writing \ {th}
    /\ UNCHANGED <<quit_, channels_, timers_, pending_tasks_, ready, now,
                   loopVars, calling, posted, ran>>

--------------------------------------------------------------------------------
(* Operations of the loop thread's own client code.                          *)

InClientCode == Free(LoopThread)

AddChannel(fd) ==
    /\ InClientCode
    /\ fd \notin channels_
    /\ channels_' = channels_ \cup {fd}
    /\ UNCHANGED <<quit_, timers_, pending_tasks_, eventfd, ready, now, loopVars,
                   calling, writing, posted, ran>>

RemoveChannel(fd) ==
    /\ InClientCode
    /\ fd \in channels_
    /\ channels_' = channels_ \ {fd}
    /\ UNCHANGED <<quit_, timers_, pending_tasks_, eventfd, ready, now, loopVars,
                   calling, writing, posted, ran>>

RunAt(id, at) ==
    /\ InClientCode
    /\ \A tm \in timers_ : tm.id # id
    /\ PastTimers \/ at > now
    /\ timers_' = timers_ \cup {[id |-> id, at |-> at]}
    /\ UNCHANGED <<quit_, channels_, pending_tasks_, eventfd, ready, now, loopVars,
                   calling, writing, posted, ran>>

Return ==
    /\ InClientCode
    /\ calling' = FALSE
    /\ UNCHANGED <<quit_, channels_, timers_, pending_tasks_, eventfd, ready, now,
                   loopVars, writing, posted, ran>>

--------------------------------------------------------------------------------
(* The steps of loop().                                                      *)

AtPc(p) == pc = p /\ ~calling

\* ceil<milliseconds>(span): the least number of milliseconds that covers it.
RoundedUp(span, ms) == ms * TicksPerMs \in span..(span + TicksPerMs - 1)

\* duration_cast<milliseconds>(span) rounds down.
RoundedDown(span, ms) == ms * TicksPerMs \in (span - TicksPerMs + 1)..span

Clamped(ms) == IF ms < MaxTimeout THEN ms ELSE MaxTimeout

\* The timers with the earliest time: one of them is the top of the heap.
Earliest == {tm \in timers_ : \A other \in timers_ : tm.at <= other.at}

\* Fault: the rest of a millisecond is dropped.
Faulty_NextTimeoutDown(time, ms) ==
    \/ timers_ = {} /\ ms = -1
    \/ \E tm \in Earliest :
          \/ tm.at <= time /\ ms = 0
          \/ /\ tm.at > time
             /\ \E span \in 0..MaxTimer :
                   RoundedDown(tm.at - time, span) /\ ms = Clamped(span)

\* Fault: a timer already due gives a negative timeout, which is no timeout.
Faulty_NextTimeoutNegative(time, ms) ==
    \/ timers_ = {} /\ ms = -1
    \/ \E tm \in Earliest :
          \/ tm.at <= time /\ ms = -1
          \/ /\ tm.at > time
             /\ \E span \in 0..MaxTimer :
                   RoundedUp(tm.at - time, span) /\ ms = Clamped(span)

\* millisecondsUntilNextTimer(time): no timer gives -1, a timer already due 0.
NextTimeout(time, ms) ==
    \/ timers_ = {} /\ ms = -1
    \/ \E tm \in Earliest :
          \/ tm.at <= time /\ ms = 0
          \/ /\ tm.at > time
             /\ \E span \in 0..MaxTimer :
                   RoundedUp(tm.at - time, span) /\ ms = Clamped(span)

Exit ==
    /\ AtPc("check")
    /\ quit_
    /\ pc' = "exited"
    /\ UNCHANGED <<quit_, channels_, timers_, pending_tasks_, eventfd, ready, now,
                   seen, timeout, deadline, events, tasks, calling, writing,
                   posted, ran>>

\* The clock is read and the timeout computed; the wait is still to begin.
ComputeTimeout ==
    /\ AtPc("check")
    /\ ~quit_
    /\ seen' = now
    /\ \E ms \in -1..MaxTimeout : NextTimeout(now, ms) /\ timeout' = ms
    /\ pc' = "enter"
    /\ UNCHANGED <<quit_, channels_, timers_, pending_tasks_, eventfd, ready, now,
                   deadline, events, tasks, calling, writing, posted, ran>>

\* epoll_wait counts the timeout from the time at which it is entered.
StartWait ==
    /\ AtPc("enter")
    /\ deadline' = IF timeout = -1 THEN NoDeadline ELSE now + timeout * TicksPerMs
    /\ pc' = "wait"
    /\ UNCHANGED <<quit_, channels_, timers_, pending_tasks_, eventfd, ready, now,
                   seen, timeout, events, tasks, calling, writing, posted, ran>>

\* What the level-triggered epoll set would report.
Reported == (ready \cap channels_) \cup (IF eventfd > 0 THEN {WakeupFd} ELSE {})

\* The results of an epoll_wait: as many of the reported descriptors as fit.
Batches ==
    LET n == Cardinality(Reported)
        fit == IF n < MaxEvents THEN n ELSE MaxEvents
    IN  UNION {SetToSeqs(S) : S \in {S \in SUBSET Reported : Cardinality(S) = fit}}

WaitReturns ==
    /\ AtPc("wait")
    /\ Reported # {} \/ now >= deadline
    /\ events' \in Batches
    /\ pc' = "dispatch"
    /\ UNCHANGED <<quit_, channels_, timers_, pending_tasks_, eventfd, ready, now,
                   seen, timeout, deadline, tasks, calling, writing, posted, ran>>

\* EINTR: Epoller::wait returns no events.  Linux prefers events to a signal.
WaitInterrupted ==
    /\ AtPc("wait")
    /\ Reported = {}
    /\ pc' = "dispatch"
    /\ UNCHANGED <<quit_, channels_, timers_, pending_tasks_, eventfd, ready, now,
                   seen, timeout, deadline, events, tasks, calling, writing, posted,
                   ran>>

\* A descriptor whose channel was removed earlier in the batch.
SkipStaleEvent ==
    /\ AtPc("dispatch")
    /\ events # <<>>
    /\ Head(events) \notin channels_ \cup {WakeupFd}
    /\ events' = Tail(events)
    /\ UNCHANGED <<quit_, channels_, timers_, pending_tasks_, eventfd, ready, now,
                   pc, seen, timeout, deadline, tasks, calling, writing, posted, ran>>

\* The channel's handler, which may or may not drain the descriptor.
CallChannel ==
    /\ AtPc("dispatch")
    /\ events # <<>>
    /\ Head(events) \in channels_
    /\ events' = Tail(events)
    /\ calling' = TRUE
    /\ ready' \in {ready, ready \ {Head(events)}}
    /\ UNCHANGED <<quit_, channels_, timers_, pending_tasks_, eventfd, now, pc,
                   seen, timeout, deadline, tasks, writing, posted, ran>>

\* handleWakeup up to the eventfd read, which resets the counter.
ReadWakeup ==
    /\ AtPc("dispatch")
    /\ events # <<>>
    /\ Head(events) = WakeupFd
    /\ events' = Tail(events)
    /\ eventfd' = 0
    /\ pc' = IF eventfd > 0 THEN "swap" ELSE "dispatch"
    /\ UNCHANGED <<quit_, channels_, timers_, pending_tasks_, ready, now, seen,
                   timeout, deadline, tasks, calling, writing, posted, ran>>

SwapTasks ==
    /\ AtPc("swap")
    /\ tasks' = pending_tasks_
    /\ pending_tasks_' = <<>>
    /\ pc' = "run"
    /\ UNCHANGED <<quit_, channels_, timers_, eventfd, ready, now, seen, timeout,
                   deadline, events, calling, writing, posted, ran>>

\* Fault: the batch is run from its end.
Faulty_RunTask ==
    /\ AtPc("run")
    /\ tasks # <<>>
    /\ ran' = Append(ran, tasks[Len(tasks)])
    /\ tasks' = SubSeq(tasks, 1, Len(tasks) - 1)
    /\ calling' = TRUE
    /\ UNCHANGED <<quit_, channels_, timers_, pending_tasks_, eventfd, ready, now,
                   pc, seen, timeout, deadline, events, writing, posted>>

RunTask ==
    /\ AtPc("run")
    /\ tasks # <<>>
    /\ ran' = Append(ran, Head(tasks))
    /\ tasks' = Tail(tasks)
    /\ calling' = TRUE
    /\ UNCHANGED <<quit_, channels_, timers_, pending_tasks_, eventfd, ready, now,
                   pc, seen, timeout, deadline, events, writing, posted>>

EndTasks ==
    /\ AtPc("run")
    /\ tasks = <<>>
    /\ pc' = "dispatch"
    /\ UNCHANGED <<quit_, channels_, timers_, pending_tasks_, eventfd, ready, now,
                   seen, timeout, deadline, events, tasks, calling, writing, posted,
                   ran>>

\* The batch is done: runExpiredTimers is called with the current time.  The
\* timeout of the iteration has served its purpose.
EndDispatch ==
    /\ AtPc("dispatch")
    /\ events = <<>>
    /\ seen' = now
    /\ timeout' = -1
    /\ deadline' = NoDeadline
    /\ pc' = "timers"
    /\ UNCHANGED <<quit_, channels_, timers_, pending_tasks_, eventfd, ready, now,
                   events, tasks, calling, writing, posted, ran>>

Expired == {tm \in timers_ : tm.at <= seen}

RunTimer ==
    /\ AtPc("timers")
    /\ Expired # {}
    /\ \E tm \in Expired :
          /\ \A other \in Expired : tm.at <= other.at
          /\ timers_' = timers_ \ {tm}
    /\ calling' = TRUE
    /\ UNCHANGED <<quit_, channels_, pending_tasks_, eventfd, ready, now, loopVars,
                   writing, posted, ran>>

EndTimers ==
    /\ AtPc("timers")
    /\ Expired = {}
    /\ seen' = 0
    /\ pc' = "check"
    /\ UNCHANGED <<quit_, channels_, timers_, pending_tasks_, eventfd, ready, now,
                   timeout, deadline, events, tasks, calling, writing, posted, ran>>

--------------------------------------------------------------------------------
(* The kernel and the clock.                                                 *)

BecomeReady(fd) ==
    /\ ready' = ready \cup {fd}
    /\ UNCHANGED <<quit_, channels_, timers_, pending_tasks_, eventfd, now, loopVars,
                   calling, writing, posted, ran>>

\* How long the thread takes to enter epoll_wait is bounded by MaxDelay.
Tick ==
    /\ now < MaxTime
    /\ pc = "enter" => now < seen + MaxDelay
    /\ now' = now + 1
    /\ UNCHANGED <<quit_, channels_, timers_, pending_tasks_, eventfd, ready,
                   loopVars, calling, writing, posted, ran>>

--------------------------------------------------------------------------------
LoopStep ==
    \/ Exit \/ ComputeTimeout \/ StartWait \/ WaitReturns
    \/ SkipStaleEvent \/ CallChannel
    \/ ReadWakeup \/ SwapTasks \/ RunTask \/ EndTasks
    \/ EndDispatch \/ RunTimer \/ EndTimers

ClientStep ==
    \/ \E fd \in Fd : AddChannel(fd) \/ RemoveChannel(fd)
    \/ \E id \in Timer, at \in 0..MaxTimer : RunAt(id, at)
    \/ Return

ThreadStep(th) ==
    \/ \E t \in Task : PushTask(th, t)
    \/ StoreQuit(th)
    \/ Wakeup(th)

Next ==
    \/ LoopStep
    \/ WaitInterrupted
    \/ ClientStep
    \/ \E th \in Thread : ThreadStep(th)
    \/ \E fd \in Fd : BecomeReady(fd)
    \/ Tick

\* The threads are scheduled, client code returns (however often it used the
\* loop before), and time passes.
Fairness ==
    /\ WF_vars(LoopStep)
    /\ SF_vars(Return)
    /\ \A th \in Thread : WF_vars(Wakeup(th))
    /\ WF_vars(Tick)

Spec == Init /\ [][Next]_vars /\ Fairness

--------------------------------------------------------------------------------
(* Properties.                                                               *)

\* Lost wakeup: a task stays in pending_tasks_ only while something will still
\* make the loop take it: a non-zero eventfd, a thread about to write it, or
\* handleWakeup standing between its read and its swap
\* (EventLoop.cpp, queueInLoop / handleWakeup).
NoLostWakeup ==
    pending_tasks_ # <<>> => eventfd > 0 \/ writing # {} \/ pc = "swap"

\* quit() reaches a loop blocked in epoll_wait, or on its way into it: with quit_
\* set the eventfd is, or is about to be, readable (EventLoop.cpp, quit).
QuitInterruptsWait ==
    pc \in {"enter", "wait"} /\ quit_ => eventfd > 0 \/ writing # {}

\* Tasks are started in the order of the pushes of all threads, none is lost,
\* none is started twice, whatever the wakeups coalesce to.
FifoOnce == ran \o tasks \o pending_tasks_ = posted

\* The timeout serves the timers, though it is rounded, cut, and counted from a
\* later time than it was computed for.  An iteration whose wait has run out
\* finds a timer due when it comes to the timers, whatever it dispatched before,
\* so that the loop does not spin, unless a timer was too far away for the
\* longest timeout.  And no wait goes on for a millisecond beyond a timer, not
\* counting the time the thread took to enter it (EventLoop.cpp, loop;
\* TimerQueue.cpp, millisecondsUntilNextTimer).
TimeoutServesTimers ==
    /\ pc \in {"wait", "dispatch", "swap", "run"} /\ now >= deadline =>
          \E tm \in timers_ :
             tm.at <= now \/ tm.at > seen + MaxTimeout * TicksPerMs
    /\ pc = "wait" => \A tm \in timers_ :
          deadline <= now \/ deadline < tm.at + TicksPerMs + MaxDelay

\* What the invariants need to be inductive: batches exist only inside their
\* loops, and client code runs only where loop() calls it.
BatchScope ==
    /\ pc # "run" => tasks = <<>>
    /\ pc \notin {"dispatch", "swap", "run"} => events = <<>>
    /\ calling => pc \in {"check", "dispatch", "run", "timers"}

\* The queue of tasks, seen from outside the loop.
TQ == INSTANCE TaskQueue WITH
        queue <- tasks \o pending_tasks_,
        stopped <- pc = "exited"

\* The eventfd/mutex protocol implements the FIFO hand-off.
TaskQueueSpec == TQ!Spec

\* A loop that is told to quit returns from loop().
QuitEnds == quit_ ~> pc = "exited"

\* A timer is run, or the loop quits.
TimersRun == \A id \in Timer :
    (\E tm \in timers_ : tm.id = id) ~> (\A tm \in timers_ : tm.id # id) \/ quit_
================================================================================
