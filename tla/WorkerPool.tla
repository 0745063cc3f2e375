------------------------------- MODULE WorkerPool -------------------------------
(* concurrency::WorkerPool: submitters push tasks under mutex_ and notify    *)
(* the condition variable after releasing it, workers wait on it for the     *)
(* predicate stopping_ or not empty, and the destructor stops and joins      *)
(* them.  A step is one critical section, one notification or one task.      *)
EXTENDS Naturals, Sequences, FiniteSets, SequencesExt

CONSTANTS Worker,       \* the threads of the pool
          Submitter,    \* threads that call submit()
          Task          \* tasks that may be submitted, each once

ASSUME WorkerPoolAssumption ==
    /\ Worker # {}          \* the constructor refuses worker_count = 0
    /\ IsFiniteSet(Worker)
    /\ IsFiniteSet(Submitter)

VARIABLES tasks_,       \* queue of tasks
          stopping_,
          worker,       \* where each worker is
          doing,        \* the task of each running worker
          notifying,    \* submitters between the push and notify_one
          owner,        \* the thread that destroys the pool
          accepted,     \* history: tasks in the order they were pushed
          started,      \* history: tasks in the order they were taken
          finished,     \* history: tasks that returned or threw
          refused       \* history: tasks whose submit() threw

vars == <<tasks_, stopping_, worker, doing, notifying, owner, accepted, started,
          finished, refused>>

In(state) == {w \in Worker : worker[w] = state}

TypeOK ==
    /\ tasks_ \in Seq(Task)
    /\ stopping_ \in BOOLEAN
    /\ worker \in [Worker -> {"lock", "waiting", "running", "exited"}]
    /\ doing \in [Worker -> Seq(Task)]
    /\ notifying \subseteq Submitter
    /\ owner \in {"using", "notify", "joining", "destroyed"}
    /\ accepted \in Seq(Task)
    /\ started \in Seq(Task)
    /\ finished \subseteq Task
    /\ refused \subseteq Task

Init ==
    /\ tasks_ = <<>>
    /\ stopping_ = FALSE
    /\ worker = [w \in Worker |-> "lock"]
    /\ doing = [w \in Worker |-> <<>>]
    /\ notifying = {}
    /\ owner = "using"
    /\ accepted = <<>>
    /\ started = <<>>
    /\ finished = {}
    /\ refused = {}

--------------------------------------------------------------------------------
(* submit: the critical section, then notify_one.                            *)

CanSubmit(s, t) ==
    /\ s \notin notifying
    /\ owner # "destroyed"
    /\ t \notin ToSet(accepted) \cup refused

\* Fault: only a push onto an empty queue is notified.
Faulty_Submit(s, t) ==
    /\ CanSubmit(s, t)
    /\ ~stopping_
    /\ tasks_' = Append(tasks_, t)
    /\ accepted' = Append(accepted, t)
    /\ notifying' = IF tasks_ = <<>> THEN notifying \cup {s} ELSE notifying
    /\ UNCHANGED <<stopping_, worker, doing, owner, started, finished, refused>>

\* Fault: the queue is a stack.
Faulty_SubmitFront(s, t) ==
    /\ CanSubmit(s, t)
    /\ ~stopping_
    /\ tasks_' = <<t>> \o tasks_
    /\ accepted' = Append(accepted, t)
    /\ notifying' = notifying \cup {s}
    /\ UNCHANGED <<stopping_, worker, doing, owner, started, finished, refused>>

Submit(s, t) ==
    /\ CanSubmit(s, t)
    /\ ~stopping_
    /\ tasks_' = Append(tasks_, t)
    /\ accepted' = Append(accepted, t)
    /\ notifying' = notifying \cup {s}
    /\ UNCHANGED <<stopping_, worker, doing, owner, started, finished, refused>>

\* A stopping pool throws.
SubmitRefused(s, t) ==
    /\ CanSubmit(s, t)
    /\ stopping_
    /\ refused' = refused \cup {t}
    /\ UNCHANGED <<tasks_, stopping_, worker, doing, notifying, owner, accepted,
                   started, finished>>

\* Any one of the waiting workers, if there is one.
NotifyOne(s) ==
    /\ s \in notifying
    /\ notifying' = notifying \ {s}
    /\ IF In("waiting") = {} THEN UNCHANGED worker
       ELSE \E w \in In("waiting") : worker' = [worker EXCEPT ![w] = "lock"]
    /\ UNCHANGED <<tasks_, stopping_, doing, owner, accepted, started, finished,
                   refused>>

--------------------------------------------------------------------------------
(* workerLoop: the critical section with its wait, then the task.            *)

\* Fault: a worker leaves as soon as the pool is stopping.
Faulty_Leave(w) ==
    /\ worker[w] = "lock"
    /\ stopping_
    /\ worker' = [worker EXCEPT ![w] = "exited"]
    /\ UNCHANGED <<tasks_, stopping_, doing, notifying, owner, accepted, started,
                   finished, refused>>

Leave(w) ==
    /\ worker[w] = "lock"
    /\ stopping_ /\ tasks_ = <<>>
    /\ worker' = [worker EXCEPT ![w] = "exited"]
    /\ UNCHANGED <<tasks_, stopping_, doing, notifying, owner, accepted, started,
                   finished, refused>>

\* Fault: the predicate of the wait does not look at stopping_.
Faulty_Wait(w) ==
    /\ worker[w] = "lock"
    /\ tasks_ = <<>>
    /\ worker' = [worker EXCEPT ![w] = "waiting"]
    /\ UNCHANGED <<tasks_, stopping_, doing, notifying, owner, accepted, started,
                   finished, refused>>

Wait(w) ==
    /\ worker[w] = "lock"
    /\ ~stopping_ /\ tasks_ = <<>>
    /\ worker' = [worker EXCEPT ![w] = "waiting"]
    /\ UNCHANGED <<tasks_, stopping_, doing, notifying, owner, accepted, started,
                   finished, refused>>

SpuriousWakeup(w) ==
    /\ worker[w] = "waiting"
    /\ worker' = [worker EXCEPT ![w] = "lock"]
    /\ UNCHANGED <<tasks_, stopping_, doing, notifying, owner, accepted, started,
                   finished, refused>>

Take(w) ==
    /\ worker[w] = "lock"
    /\ tasks_ # <<>>
    /\ worker' = [worker EXCEPT ![w] = "running"]
    /\ doing' = [doing EXCEPT ![w] = <<Head(tasks_)>>]
    /\ started' = Append(started, Head(tasks_))
    /\ tasks_' = Tail(tasks_)
    /\ UNCHANGED <<stopping_, notifying, owner, accepted, finished, refused>>

\* The task returns, or throws and is logged: the worker goes on either way.
Finish(w) ==
    /\ worker[w] = "running"
    /\ worker' = [worker EXCEPT ![w] = "lock"]
    /\ doing' = [doing EXCEPT ![w] = <<>>]
    /\ finished' = finished \cup ToSet(doing[w])
    /\ UNCHANGED <<tasks_, stopping_, notifying, owner, accepted, started, refused>>

--------------------------------------------------------------------------------
(* The destructor.                                                           *)

Stop ==
    /\ owner = "using"
    /\ stopping_' = TRUE
    /\ owner' = "notify"
    /\ UNCHANGED <<tasks_, worker, doing, notifying, accepted, started, finished,
                   refused>>

\* Fault: one worker is notified, not all.
Faulty_NotifyAll ==
    /\ owner = "notify"
    /\ IF In("waiting") = {} THEN UNCHANGED worker
       ELSE \E w \in In("waiting") : worker' = [worker EXCEPT ![w] = "lock"]
    /\ owner' = "joining"
    /\ UNCHANGED <<tasks_, stopping_, doing, notifying, accepted, started, finished,
                   refused>>

NotifyAll ==
    /\ owner = "notify"
    /\ worker' = [w \in Worker |->
                    IF worker[w] = "waiting" THEN "lock" ELSE worker[w]]
    /\ owner' = "joining"
    /\ UNCHANGED <<tasks_, stopping_, doing, notifying, accepted, started, finished,
                   refused>>

\* All joined, and the members are gone.  It is up to the owner that no thread
\* is still inside submit(), whose notify_one would use them.
Join ==
    /\ owner = "joining"
    /\ In("exited") = Worker
    /\ owner' = "destroyed"
    /\ UNCHANGED <<tasks_, stopping_, worker, doing, notifying, accepted, started,
                   finished, refused>>

--------------------------------------------------------------------------------
WorkerStep(w) == Leave(w) \/ Wait(w) \/ Take(w) \/ Finish(w)

Next ==
    \/ \E s \in Submitter, t \in Task : Submit(s, t) \/ SubmitRefused(s, t)
    \/ \E s \in Submitter : NotifyOne(s)
    \/ \E w \in Worker : WorkerStep(w) \/ SpuriousWakeup(w)
    \/ Stop \/ NotifyAll \/ Join

\* Threads are scheduled and tasks terminate; nobody need submit or destroy.
Fairness ==
    /\ \A w \in Worker : WF_vars(WorkerStep(w))
    /\ \A s \in Submitter : WF_vars(NotifyOne(s))
    /\ WF_vars(NotifyAll)
    /\ WF_vars(Join)

Spec == Init /\ [][Next]_vars /\ Fairness

--------------------------------------------------------------------------------
(* Properties.                                                               *)

\* No sleeping worker while there is work for it: as long as one waits, every
\* queued task has a worker of its own about to take it or a notification on
\* its way, though notify_one comes after the unlock and may find a worker that
\* has not started to wait (WorkerPool.cpp, submit, workerLoop).
EnoughAwake ==
    In("waiting") # {} =>
        Len(tasks_) <= Cardinality(In("lock")) + Cardinality(notifying)

\* Tasks are taken in the order they were submitted, each by one worker.
TakenInOrder == started \o tasks_ = accepted

\* Once the destructor has notified, no worker sleeps, so every join returns
\* (WorkerPool.cpp, ~WorkerPool, the predicate in workerLoop).
NoneAsleepAtJoin == owner \in {"joining", "destroyed"} => In("waiting") = {}

\* The destructor returns only when every accepted task has been run
\* (WorkerPool.cpp, ~WorkerPool: the queue is drained first).
DrainedAtDestruction ==
    owner = "destroyed" => tasks_ = <<>> /\ ToSet(accepted) = finished

\* Every accepted task is run.
TasksRun == \A t \in Task : t \in ToSet(accepted) ~> t \in finished

\* The destructor returns.
DestructionEnds == stopping_ ~> owner = "destroyed"
================================================================================
