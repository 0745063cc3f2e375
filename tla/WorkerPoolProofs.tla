---------------------------- MODULE WorkerPoolProofs ----------------------------
(* Proofs about WorkerPool.tla, for any number of workers, submitters and    *)
(* tasks: no lost notification, FIFO order, and a destructor that drains.    *)
EXTENDS WorkerPool, SequenceTheorems, FiniteSetTheorems, TLAPS

\* The owner's progress and stopping_ go together, and joined means all exited.
OwnerStops ==
    /\ owner # "using" <=> stopping_
    /\ owner = "destroyed" => In("exited") = Worker

\* A worker that has left leaves no task behind.
ExitedLeavesNothing == In("exited") # {} => stopping_ /\ tasks_ = <<>>

\* What is running is what was taken and has not returned.
RunningIsStarted ==
    /\ ToSet(started) = finished \cup UNION {ToSet(doing[w]) : w \in Worker}
    /\ \A w \in Worker : doing[w] # <<>> => worker[w] = "running"

IInv ==
    /\ TypeOK
    /\ OwnerStops
    /\ ExitedLeavesNothing
    /\ NoneAsleepAtJoin
    /\ EnoughAwake
    /\ TakenInOrder
    /\ RunningIsStarted

--------------------------------------------------------------------------------
(* Lemmas.                                                                   *)

\* Sets of workers are finite, so their sizes are numbers.
LEMMA InFinite ==
    ASSUME NEW S \in SUBSET Worker
    PROVE  IsFiniteSet(S) /\ Cardinality(S) \in Nat
BY WorkerPoolAssumption, FS_Subset, FS_CardinalityType DEF WorkerPoolAssumption

\* Likewise for submitters.
LEMMA SubmittersFinite ==
    ASSUME NEW S \in SUBSET Submitter
    PROVE  IsFiniteSet(S) /\ Cardinality(S) \in Nat
BY WorkerPoolAssumption, FS_Subset, FS_CardinalityType DEF WorkerPoolAssumption

\* Appending adds one element to the set of a sequence.
LEMMA ToSetAppend ==
    ASSUME NEW S, NEW s \in Seq(S), NEW e \in S
    PROVE  ToSet(Append(s, e)) = ToSet(s) \cup {e}
<1>1. Append(s, e) \in Seq(S) /\ Len(Append(s, e)) = Len(s) + 1
      /\ \A i \in 1..Len(s) : Append(s, e)[i] = s[i]
      /\ Append(s, e)[Len(s) + 1] = e
  BY AppendProperties
<1>2. DOMAIN s = 1..Len(s) /\ DOMAIN Append(s, e) = 1..(Len(s) + 1) /\ Len(s) \in Nat
  BY <1>1, LenProperties
<1>3. ASSUME NEW x \in ToSet(Append(s, e)) PROVE x \in ToSet(s) \cup {e}
  BY <1>1, <1>2, <1>3 DEF ToSet
<1>4. ASSUME NEW x \in ToSet(s) \cup {e} PROVE x \in ToSet(Append(s, e))
  <2>1. CASE x = e
    BY <1>1, <1>2, <2>1 DEF ToSet
  <2>2. CASE x \in ToSet(s)
    <3>1. PICK i \in 1..Len(s) : x = s[i]
      BY <1>2, <2>2 DEF ToSet
    <3>2. i \in 1..(Len(s) + 1) /\ Append(s, e)[i] = x
      BY <1>1, <1>2, <3>1
    <3>3. QED
      BY <1>2, <3>2 DEF ToSet
  <2>3. QED
    BY <1>4, <2>1, <2>2
<1>5. QED
  BY <1>3, <1>4

\* Every action keeps the types.
LEMMA TypeStep == ASSUME TypeOK, [Next]_vars PROVE TypeOK'
<1> USE DEF TypeOK
<1>1. ASSUME NEW s \in Submitter, NEW t \in Task, Submit(s, t) PROVE TypeOK'
  BY <1>1 DEF Submit
<1>2. ASSUME NEW s \in Submitter, NEW t \in Task, SubmitRefused(s, t) PROVE TypeOK'
  BY <1>2 DEF SubmitRefused
<1>3. ASSUME NEW s \in Submitter, NotifyOne(s) PROVE TypeOK'
  BY <1>3 DEF NotifyOne, In
<1>4. ASSUME NEW w \in Worker, Leave(w) PROVE TypeOK'
  BY <1>4 DEF Leave
<1>5. ASSUME NEW w \in Worker, Wait(w) PROVE TypeOK'
  BY <1>5 DEF Wait
<1>6. ASSUME NEW w \in Worker, Take(w) PROVE TypeOK'
  <2>1. Head(tasks_) \in Task /\ Tail(tasks_) \in Seq(Task)
    BY <1>6 DEF Take
  <2>2. QED
    BY <1>6, <2>1 DEF Take
<1>7. ASSUME NEW w \in Worker, Finish(w) PROVE TypeOK'
  <2>1. ToSet(doing[w]) \subseteq Task
    BY DEF ToSet
  <2>2. QED
    BY <1>7, <2>1 DEF Finish
<1>8. ASSUME NEW w \in Worker, SpuriousWakeup(w) PROVE TypeOK'
  BY <1>8 DEF SpuriousWakeup
<1>9. CASE Stop
  BY <1>9 DEF Stop
<1>10. CASE NotifyAll
  BY <1>10 DEF NotifyAll
<1>11. CASE Join
  BY <1>11 DEF Join
<1>12. CASE UNCHANGED vars
  BY <1>12 DEF vars
<1>13. QED
  BY <1>1, <1>2, <1>3, <1>4, <1>5, <1>6, <1>7, <1>8, <1>9, <1>10, <1>11, <1>12
  DEF Next, WorkerStep

\* The owner stops, notifies and joins; workers leave only a drained pool.
LEMMA StopStep ==
    ASSUME TypeOK, OwnerStops, ExitedLeavesNothing, NoneAsleepAtJoin, [Next]_vars
    PROVE  OwnerStops' /\ ExitedLeavesNothing' /\ NoneAsleepAtJoin'
<1> USE DEF TypeOK, OwnerStops, ExitedLeavesNothing, NoneAsleepAtJoin, In
<1> DEFINE Goal == OwnerStops' /\ ExitedLeavesNothing' /\ NoneAsleepAtJoin'
<1>1. ASSUME NEW s \in Submitter, NEW t \in Task, Submit(s, t) PROVE Goal
  BY <1>1 DEF Submit
<1>2. ASSUME NEW s \in Submitter, NEW t \in Task, SubmitRefused(s, t) PROVE Goal
  BY <1>2 DEF SubmitRefused
<1>3. ASSUME NEW s \in Submitter, NotifyOne(s) PROVE Goal
  BY <1>3 DEF NotifyOne
<1>4. ASSUME NEW w \in Worker, Leave(w) PROVE Goal
  BY <1>4 DEF Leave
<1>5. ASSUME NEW w \in Worker, Wait(w) PROVE Goal
  BY <1>5 DEF Wait
<1>6. ASSUME NEW w \in Worker, Take(w) PROVE Goal
  BY <1>6 DEF Take
<1>7. ASSUME NEW w \in Worker, Finish(w) PROVE Goal
  BY <1>7 DEF Finish
<1>8. ASSUME NEW w \in Worker, SpuriousWakeup(w) PROVE Goal
  BY <1>8 DEF SpuriousWakeup
<1>9. CASE Stop
  BY <1>9 DEF Stop
<1>10. CASE NotifyAll
  BY <1>10 DEF NotifyAll
<1>11. CASE Join
  BY <1>11 DEF Join
<1>12. CASE UNCHANGED vars
  BY <1>12 DEF vars
<1>13. QED
  BY <1>1, <1>2, <1>3, <1>4, <1>5, <1>6, <1>7, <1>8, <1>9, <1>10, <1>11, <1>12
  DEF Next, WorkerStep

\* A worker that moves to "lock" from elsewhere, and one that leaves it.
LEMMA LockGains ==
    ASSUME TypeOK, NEW w \in Worker, worker[w] # "lock",
           worker' = [worker EXCEPT ![w] = "lock"]
    PROVE  /\ Cardinality(In("lock"))' = Cardinality(In("lock")) + 1
           /\ In("waiting")' \subseteq In("waiting")
<1>1. In("lock")' = In("lock") \cup {w} /\ w \notin In("lock")
  BY DEF In, TypeOK
<1>2. In("waiting")' \subseteq In("waiting")
  BY DEF In, TypeOK
<1>3. IsFiniteSet(In("lock"))
  BY InFinite DEF In
<1>4. Cardinality(In("lock") \cup {w}) = Cardinality(In("lock")) + 1
  BY <1>1, <1>3, FS_AddElement
<1>5. QED
  BY <1>1, <1>2, <1>4

\* A worker that starts a task holds the mutex no longer.
LEMMA LockLoses ==
    ASSUME TypeOK, NEW w \in Worker, worker[w] = "lock",
           worker' = [worker EXCEPT ![w] = "running"]
    PROVE  /\ Cardinality(In("lock"))' = Cardinality(In("lock")) - 1
           /\ In("waiting")' = In("waiting")
<1>1. In("lock")' = In("lock") \ {w} /\ w \in In("lock")
  BY DEF In, TypeOK
<1>2. In("waiting")' = In("waiting")
  BY DEF In, TypeOK
<1>3. IsFiniteSet(In("lock"))
  BY InFinite DEF In
<1>4. Cardinality(In("lock") \ {w}) = Cardinality(In("lock")) - 1
  BY <1>1, <1>3, FS_RemoveElement
<1>5. QED
  BY <1>1, <1>2, <1>4

\* While a worker sleeps, the tasks have enough workers and notifications.
LEMMA AwakeStep ==
    ASSUME TypeOK, EnoughAwake, [Next]_vars
    PROVE  EnoughAwake'
<1> USE DEF EnoughAwake
<1> DEFINE Lock == Cardinality(In("lock"))
           Sent == Cardinality(notifying)
<1>0. /\ IsFiniteSet(notifying) /\ Sent \in Nat
      /\ Lock \in Nat
      /\ Len(tasks_) \in Nat
      /\ Sent' \in Nat /\ Lock' \in Nat
  <2>1. IsFiniteSet(notifying) /\ Sent \in Nat
    BY SubmittersFinite DEF TypeOK
  <2>2. Lock \in Nat /\ Lock' \in Nat
    BY InFinite DEF In
  <2>3. TypeOK'
    BY TypeStep
  <2>4. Sent' \in Nat
    BY <2>3, SubmittersFinite DEF TypeOK
  <2>5. QED
    BY <2>1, <2>2, <2>4, LenProperties DEF TypeOK
<1>1. ASSUME NEW s \in Submitter, NEW t \in Task, Submit(s, t) PROVE EnoughAwake'
  <2>1. Sent' = Sent + 1
    BY <1>0, <1>1, FS_AddElement DEF Submit, CanSubmit
  <2>2. Len(tasks_') = Len(tasks_) + 1
    BY <1>1, AppendProperties DEF Submit, TypeOK
  <2>3. Lock' = Lock /\ In("waiting")' = In("waiting")
    BY <1>1 DEF Submit, In
  <2>4. QED
    BY <1>0, <2>1, <2>2, <2>3
<1>2. ASSUME NEW s \in Submitter, NEW t \in Task, SubmitRefused(s, t) PROVE EnoughAwake'
  BY <1>2 DEF SubmitRefused, In
<1>3. ASSUME NEW s \in Submitter, NotifyOne(s) PROVE EnoughAwake'
  <2>1. CASE In("waiting") = {}
    BY <1>3, <2>1 DEF NotifyOne, In
  <2>2. CASE In("waiting") # {}
    <3>1. PICK w \in In("waiting") : worker' = [worker EXCEPT ![w] = "lock"]
      BY <1>3, <2>2 DEF NotifyOne
    <3>2. w \in Worker /\ worker[w] # "lock"
      BY DEF In
    <3>3. Lock' = Lock + 1
      BY <3>1, <3>2, LockGains
    <3>4. Sent' = Sent - 1
      BY <1>0, <1>3, FS_RemoveElement DEF NotifyOne
    <3>5. tasks_' = tasks_
      BY <1>3 DEF NotifyOne
    <3>6. QED
      BY <1>0, <2>2, <3>3, <3>4, <3>5
  <2>3. QED
    BY <2>1, <2>2
<1>4. ASSUME NEW w \in Worker, Leave(w) \/ Wait(w) PROVE EnoughAwake'
  <2>1. Len(tasks_') = 0
    BY <1>4 DEF Leave, Wait
  <2>2. QED
    BY <1>0, <2>1
<1>5. ASSUME NEW w \in Worker, Take(w) PROVE EnoughAwake'
  <2>1. Len(tasks_') = Len(tasks_) - 1
    BY <1>5, HeadTailProperties DEF Take, TypeOK
  <2>2. Lock' = Lock - 1 /\ In("waiting")' = In("waiting")
    BY <1>5, LockLoses DEF Take
  <2>3. Sent' = Sent
    BY <1>5 DEF Take
  <2>4. QED
    BY <1>0, <2>1, <2>2, <2>3
<1>6. ASSUME NEW w \in Worker, Finish(w) \/ SpuriousWakeup(w) PROVE EnoughAwake'
  <2>1. Lock' = Lock + 1 /\ In("waiting")' \subseteq In("waiting")
    BY <1>6, LockGains DEF Finish, SpuriousWakeup
  <2>2. Sent' = Sent /\ tasks_' = tasks_
    BY <1>6 DEF Finish, SpuriousWakeup
  <2>3. QED
    BY <1>0, <2>1, <2>2
<1>7. CASE Stop \/ Join
  BY <1>7 DEF Stop, Join, In
<1>8. CASE NotifyAll
  <2>1. In("waiting")' = {}
    BY <1>8 DEF NotifyAll, In
  <2>2. QED
    BY <2>1
<1>9. CASE UNCHANGED vars
  BY <1>9 DEF vars, In
<1>10. QED
  BY <1>1, <1>2, <1>3, <1>4, <1>5, <1>6, <1>7, <1>8, <1>9 DEF Next, WorkerStep

\* Appending to the queue and moving its head keep the order.
LEMMA OrderStep ==
    ASSUME TypeOK, TakenInOrder, [Next]_vars
    PROVE  TakenInOrder'
<1> USE DEF TakenInOrder
<1>1. \A p, q, r \in Seq(Task) : (p \o q) \o r = p \o (q \o r)
  BY ConcatAssociative
<1>2. ASSUME NEW s \in Submitter, NEW t \in Task, Submit(s, t) PROVE TakenInOrder'
  <2>1. started \in Seq(Task) /\ tasks_ \in Seq(Task) /\ accepted \in Seq(Task)
        /\ <<t>> \in Seq(Task)
    BY <1>2 DEF TypeOK
  <2>2. Append(tasks_, t) = tasks_ \o <<t>> /\ Append(accepted, t) = accepted \o <<t>>
    BY <1>2, <2>1, AppendIsConcat
  <2>3. started' = started /\ tasks_' = tasks_ \o <<t>> /\ accepted' = accepted \o <<t>>
    BY <1>2, <2>2 DEF Submit
  <2>4. started \o (tasks_ \o <<t>>) = (started \o tasks_) \o <<t>>
    BY <1>1, <2>1
  <2>5. QED
    BY <2>3, <2>4
<1>3. ASSUME NEW w \in Worker, Take(w) PROVE TakenInOrder'
  <2> DEFINE h == Head(tasks_)
             r == Tail(tasks_)
  <2>1. tasks_ \in Seq(Task) /\ tasks_ # <<>> /\ started \in Seq(Task)
    BY <1>3 DEF Take, TypeOK
  <2>2. h \in Task /\ r \in Seq(Task) /\ <<h>> \in Seq(Task)
    BY <2>1, HeadTailProperties
  <2>3. tasks_ = <<h>> \o r
    BY <2>1
  <2>4. Append(started, h) = started \o <<h>>
    BY <2>1, <2>2, AppendIsConcat
  <2>5. started' = started \o <<h>> /\ tasks_' = r /\ accepted' = accepted
    BY <1>3, <2>4 DEF Take
  <2>6. (started \o <<h>>) \o r = started \o (<<h>> \o r)
    BY <1>1, <2>1, <2>2
  <2>7. QED
    BY <2>3, <2>5, <2>6
<1>4. ASSUME UNCHANGED <<tasks_, accepted, started>> PROVE TakenInOrder'
  BY <1>4
<1>5. QED
  BY <1>2, <1>3, <1>4 DEF Next, WorkerStep, SubmitRefused, NotifyOne, Leave, Wait,
     Finish, SpuriousWakeup, Stop, NotifyAll, Join, vars

\* A task is started when a worker takes it up, and finished when it drops it.
LEMMA StartedStep ==
    ASSUME TypeOK, RunningIsStarted, [Next]_vars
    PROVE  RunningIsStarted'
<1> USE DEF RunningIsStarted
<1> DEFINE Running == UNION {ToSet(doing[v]) : v \in Worker}
<1>0. ToSet(<<>>) = {} /\ \A e : ToSet(<<e>>) = {e}
  BY DEF ToSet
<1>1. ASSUME NEW w \in Worker, Take(w) PROVE RunningIsStarted'
  <2> DEFINE h == Head(tasks_)
  <2>1. h \in Task /\ started \in Seq(Task)
    BY <1>1, HeadTailProperties DEF Take, TypeOK
  <2>2. ToSet(started') = ToSet(started) \cup {h}
    BY <1>1, <2>1, ToSetAppend DEF Take
  <2>3. doing[w] = <<>> /\ doing'[w] = <<h>>
        /\ \A v \in Worker \ {w} : doing'[v] = doing[v]
    BY <1>1 DEF Take, TypeOK
  <2>4. Running' = Running \cup {h}
    <3>1. ToSet(doing[w]) = {} /\ ToSet(doing'[w]) = {h}
      BY <1>0, <2>3
    <3>2. \A v \in Worker \ {w} : ToSet(doing'[v]) = ToSet(doing[v])
      BY <2>3
    <3>3. Running' = UNION {ToSet(doing'[v]) : v \in Worker}
      OBVIOUS
    <3>4. QED
      BY <3>1, <3>2, <3>3
  <2>5. \A v \in Worker : doing'[v] # <<>> => worker'[v] = "running"
    BY <1>1, <2>3 DEF Take, TypeOK
  <2>6. finished' = finished
    BY <1>1 DEF Take
  <2>7. QED
    BY <2>2, <2>4, <2>5, <2>6
<1>2. ASSUME NEW w \in Worker, Finish(w) PROVE RunningIsStarted'
  <2>1. doing'[w] = <<>> /\ \A v \in Worker \ {w} : doing'[v] = doing[v]
    BY <1>2 DEF Finish, TypeOK
  <2>2. Running = Running' \cup ToSet(doing[w])
    BY <1>0, <2>1
  <2>3. \A v \in Worker : doing'[v] # <<>> => worker'[v] = "running"
    BY <1>2, <2>1 DEF Finish, TypeOK
  <2>4. started' = started /\ finished' = finished \cup ToSet(doing[w])
    BY <1>2 DEF Finish
  <2>5. QED
    BY <2>2, <2>3, <2>4
<1>3. ASSUME UNCHANGED <<doing, started, finished>>,
             \A v \in Worker : worker[v] = "running" => worker'[v] = "running"
      PROVE  RunningIsStarted'
  BY <1>3
<1>4. ASSUME NEW s \in Submitter, NotifyOne(s) PROVE RunningIsStarted'
  BY <1>3, <1>4 DEF NotifyOne, In, TypeOK
<1>5. ASSUME NEW w \in Worker, Leave(w) \/ Wait(w) \/ SpuriousWakeup(w)
      PROVE  RunningIsStarted'
  BY <1>3, <1>5 DEF Leave, Wait, SpuriousWakeup, TypeOK
<1>6. CASE NotifyAll
  BY <1>3, <1>6 DEF NotifyAll, TypeOK
<1>7. ASSUME UNCHANGED <<doing, started, finished, worker>> PROVE RunningIsStarted'
  BY <1>7
<1>8. QED
  BY <1>1, <1>2, <1>4, <1>5, <1>6, <1>7 DEF Next, WorkerStep, Submit, SubmitRefused,
     Stop, Join, vars

--------------------------------------------------------------------------------
(* Theorems.                                                                 *)

\* The strengthened invariant holds of every pool.
THEOREM Invariance == Spec => []IInv
<1>1. Init => IInv
  <2> SUFFICES ASSUME Init PROVE IInv
    OBVIOUS
  <2> USE DEF Init
  <2>1. TypeOK
    BY EmptySeq DEF TypeOK
  <2>2. OwnerStops /\ ExitedLeavesNothing /\ NoneAsleepAtJoin
    BY DEF OwnerStops, ExitedLeavesNothing, NoneAsleepAtJoin, In
  <2>3. EnoughAwake
    BY DEF EnoughAwake, In
  <2>4. TakenInOrder
    BY DEF TakenInOrder
  <2>5. RunningIsStarted
    BY DEF RunningIsStarted, ToSet
  <2>6. QED
    BY <2>1, <2>2, <2>3, <2>4, <2>5 DEF IInv
<1>2. IInv /\ [Next]_vars => IInv'
  BY TypeStep, StopStep, AwakeStep, OrderStep, StartedStep DEF IInv
<1>3. QED
  BY <1>1, <1>2, PTL DEF Spec

\* The variables of a pool always have their types.
THEOREM TypeCorrect == Spec => []TypeOK
<1>1. IInv => TypeOK
  BY DEF IInv
<1>2. QED
  BY <1>1, Invariance, PTL

\* The condition variable loses no notification that is needed.
THEOREM NotificationsAreNotLost == Spec => []EnoughAwake
<1>1. IInv => EnoughAwake
  BY DEF IInv
<1>2. QED
  BY <1>1, Invariance, PTL

\* Workers take the tasks once each, in the order of submission.
THEOREM TasksAreTakenInOrder == Spec => []TakenInOrder
<1>1. IInv => TakenInOrder
  BY DEF IInv
<1>2. QED
  BY <1>1, Invariance, PTL

\* The destructor joins only workers that are awake or gone.
THEOREM JoinFindsNoSleeper == Spec => []NoneAsleepAtJoin
<1>1. IInv => NoneAsleepAtJoin
  BY DEF IInv
<1>2. QED
  BY <1>1, Invariance, PTL

\* A destroyed pool has run everything it accepted.
THEOREM DestructorDrains == Spec => []DrainedAtDestruction
<1>1. IInv => DrainedAtDestruction
  <2> SUFFICES ASSUME IInv, owner = "destroyed"
               PROVE  tasks_ = <<>> /\ ToSet(accepted) = finished
    BY DEF DrainedAtDestruction
  <2>1. In("exited") = Worker /\ Worker # {}
    BY WorkerPoolAssumption DEF IInv, OwnerStops, WorkerPoolAssumption
  <2>2. tasks_ = <<>>
    BY <2>1 DEF IInv, ExitedLeavesNothing
  <2>3. accepted = started
    BY <2>2, ConcatEmptySeq DEF IInv, TakenInOrder, TypeOK
  <2>4. \A w \in Worker : doing[w] = <<>>
    BY <2>1 DEF IInv, RunningIsStarted, In
  <2>5. ToSet(started) = finished
    BY <2>4 DEF IInv, RunningIsStarted, ToSet
  <2>6. QED
    BY <2>2, <2>3, <2>5
<1>2. QED
  BY <1>1, Invariance, PTL
================================================================================
