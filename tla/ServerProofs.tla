------------------------------ MODULE ServerProofs -----------------------------
(* Server.tla for any number of loops, workers, connections and descriptors: *)
(* who is alive when, and which connection an event reaches.                 *)
EXTENDS Server, TLAPS

--------------------------------------------------------------------------------
(* The inductive invariant.                                                  *)

\* What the types rest on: at is in range when it is used, and a client sends no
\* more than it may.
Bounds ==
    /\ main \in {"starting", "joining"} => at <= LoopCount
    /\ \A c \in Conn : inbox[c] + unsent[c] <= MaxRequests

\* A loop is published from its construction to the end of loop().
LoopInv == \A i \in Loop : loop_[i] <=> thread[i] \in {"check", "wait", "dispatch", "left"}

\* Loops run from their start until they are told to quit, which the pool's
\* workers do not live to see.
PhaseInv ==
    /\ \A i \in Loop : (main = "launching" /\ i >= at) \/ (main = "starting" /\ i > at)
                          => thread[i] = "none"
    /\ \A i \in Loop : (main \in {"launching", "starting"} /\ i < at)
                          \/ main \in {"accepting", "stopping"}
                          => thread[i] \in {"check", "wait", "dispatch"}
    /\ \A i \in Loop : quit_[i] => main \in {"quitting", "joining", "returned"}
    /\ \A i \in Loop : thread[i] = "left" => quit_[i]
    /\ main \in {"quitting", "joining", "returned"} => \A w \in Worker : worker[w] = "exited"

\* Connections, their jobs and their tasks appear only once the server accepts,
\* and belong to the loop that got the connection.
HomeInv ==
    /\ \A c \in Conn : home[c] # 0 => main \notin {"launching", "starting"}
    /\ \A c \in Conn : conn[c] \in {"queued", "open"} => home[c] # 0
    /\ \A c \in Conn : conn[c] \in {"client", "backlog"} => home[c] = 0
    /\ \A k \in DOMAIN jobs : home[jobs[k]] # 0
    /\ \A w \in Worker : worker[w] \in Conn => home[worker[w]] # 0
    /\ \A i \in Loop : \A k \in DOMAIN pending[i] : home[pending[i][k].conn] = i
    /\ \A i \in Loop : \A k \in DOMAIN tasks[i] : home[tasks[i][k].conn] = i

\* No two connections have one descriptor.
FdInv ==
    /\ \A c \in Conn : conn[c] \in {"queued", "open"} => fd[c] # 0
    /\ \A c, d \in Conn : conn[c] \in {"queued", "open"} /\ conn[d] \in {"queued", "open"}
                             /\ c # d => fd[c] # fd[d]

\* There is at most one task that establishes a connection, before it is open.
IsNew(t) == t.kind = "establish"

TaskInv ==
    /\ \A i \in Loop : \A k \in DOMAIN tasks[i] :
          IsNew(tasks[i][k]) => conn[tasks[i][k].conn] = "queued"
    /\ \A i \in Loop : \A k \in DOMAIN pending[i] :
          IsNew(pending[i][k]) => conn[pending[i][k].conn] = "queued"
    /\ \A i \in Loop : \A k, m \in DOMAIN tasks[i] :
          IsNew(tasks[i][k]) /\ IsNew(tasks[i][m]) /\ k # m => tasks[i][k].conn # tasks[i][m].conn
    /\ \A i \in Loop : \A k, m \in DOMAIN pending[i] :
          IsNew(pending[i][k]) /\ IsNew(pending[i][m]) /\ k # m
             => pending[i][k].conn # pending[i][m].conn
    /\ \A i \in Loop : \A k \in DOMAIN tasks[i], m \in DOMAIN pending[i] :
          IsNew(tasks[i][k]) /\ IsNew(pending[i][m]) => tasks[i][k].conn # pending[i][m].conn

\* Tasks are run where the wakeup is handled.
WakeupInv ==
    \A i \in Loop : tasks[i] # <<>> => Wakeup \notin batch[i] /\ thread[i] = "dispatch"

\* The connection an event was reported for is still open with the descriptor, or
\* it was closed by a task of this batch: then the tasks that may still run in
\* this batch were taken before, so that none of them gives the descriptor to a
\* new connection.
Stale(i, e) ==
    /\ conn[e.conn] = "closed"
    /\ Wakeup \notin batch[i]
    /\ \A c \in Conn : conn[c] = "open" /\ home[c] = i => fd[c] # e.fd
    /\ \A k \in DOMAIN tasks[i] : IsNew(tasks[i][k]) => fd[tasks[i][k].conn] # e.fd

BatchInv ==
    \A i \in Loop : \A e \in batch[i] \ {Wakeup} :
       /\ fd[e.conn] = e.fd /\ home[e.conn] = i
       /\ conn[e.conn] = "open" \/ Stale(i, e)

IInv ==
    /\ TypeOK
    /\ Bounds
    /\ LoopInv
    /\ PhaseInv
    /\ HomeInv
    /\ FdInv
    /\ TaskInv
    /\ WakeupInv
    /\ BatchInv

LEMMA InitInv == Init => IInv
<1> SUFFICES ASSUME Init PROVE IInv
  OBVIOUS
<1> USE ServerAssumption DEF Init, Loop, Fd
<1>1. TypeOK
  BY DEF TypeOK
<1>2. Bounds /\ LoopInv /\ PhaseInv /\ FdInv
  BY DEF Bounds, LoopInv, PhaseInv, FdInv
<1>3. HomeInv
  BY DEF HomeInv
<1>4. TaskInv /\ WakeupInv /\ BatchInv
  BY DEF TaskInv, WakeupInv, BatchInv
<1>5. QED
  BY <1>1, <1>2, <1>3, <1>4 DEF IInv

--------------------------------------------------------------------------------
(* Types.                                                                    *)

\* What Append and Tail do to a sequence.
LEMMA AppendIs ==
    ASSUME NEW S, NEW s \in Seq(S), NEW x \in S
    PROVE  /\ Append(s, x) \in Seq(S)
           /\ DOMAIN Append(s, x) = DOMAIN s \cup {Len(s) + 1}
           /\ Len(s) + 1 \notin DOMAIN s
           /\ \A k \in DOMAIN s : Append(s, x)[k] = s[k]
           /\ Append(s, x)[Len(s) + 1] = x
  OBVIOUS

LEMMA TailIs ==
    ASSUME NEW S, NEW s \in Seq(S), s # <<>>
    PROVE  /\ Head(s) \in S /\ Head(s) = s[1] /\ 1 \in DOMAIN s
           /\ Tail(s) \in Seq(S)
           /\ \A k \in DOMAIN Tail(s) :
                 k + 1 \in DOMAIN s /\ k + 1 # 1 /\ k \in Nat /\ Tail(s)[k] = s[k + 1]
  OBVIOUS

\* What is in the queues of jobs and tasks when something has been put there.
LEMMA JobsAre ==
    ASSUME NEW s \in Seq(Conn), NEW c \in Conn, NEW k \in DOMAIN Append(s, c)
    PROVE  \/ k \in DOMAIN s /\ Append(s, c)[k] = s[k]
           \/ k = Len(s) + 1 /\ Append(s, c)[k] = c
  OBVIOUS

LEMMA PostIs ==
    ASSUME NEW q \in [Loop -> Seq(Task)], NEW j \in Loop, NEW t \in Task, NEW r,
           r = [q EXCEPT ![j] = Append(q[j], t)],
           NEW i \in Loop, NEW k \in DOMAIN r[i]
    PROVE  \/ k \in DOMAIN q[i] /\ r[i][k] = q[i][k]
           \/ i = j /\ k = Len(q[i]) + 1 /\ k \notin DOMAIN q[i] /\ r[i][k] = t
<1>1. CASE i = j
  <2>1. q[i] \in Seq(Task) /\ r[i] = Append(q[i], t)
    BY <1>1
  <2>2. QED
    BY <1>1, <2>1
<1>2. CASE i # j
  BY <1>2
<1>3. QED
  BY <1>1, <1>2

\* The tasks in the queues belong to connections.
LEMMA TasksTyped ==
    ASSUME TypeOK
    PROVE  /\ \A i \in Loop : \A k \in DOMAIN pending[i] :
                 pending[i][k] \in Task /\ pending[i][k].conn \in Conn
           /\ \A i \in Loop : \A k \in DOMAIN tasks[i] :
                 tasks[i][k] \in Task /\ tasks[i][k].conn \in Conn
<1>1. \A t \in Task : t.conn \in Conn
  BY DEF Task
<1>2. pending \in [Loop -> Seq(Task)] /\ tasks \in [Loop -> Seq(Task)]
  BY DEF TypeOK
<1>3. QED
  BY <1>1, <1>2

\* What a connection does next, whoever asks it.
LEMMA ProceedType ==
    ASSUME TypeOK, NEW c \in Conn, Proceed(c)
    PROVE  /\ jobs' \in Seq(Conn)
           /\ inbox' \in [Conn -> 0..MaxRequests]
           /\ processing' \in [Conn -> BOOLEAN]
           /\ fate' \in {"running", "terminated", "undefined"}
           /\ \A d \in Conn : inbox'[d] <= inbox[d]
           /\ conn' = conn \/ conn' = [conn EXCEPT ![c] = "closed"]
           /\ jobs' = jobs \/ jobs' = Append(jobs, c)
<1> USE ServerAssumption DEF TypeOK
<1>1. CASE inbox[c] > 0 /\ Submit(c) /\ UNCHANGED conn
  <2>1. inbox[c] - 1 \in 0..MaxRequests
    BY <1>1
  <2>2. /\ jobs' = jobs \/ jobs' = Append(jobs, c)
        /\ fate' \in {"running", "terminated", "undefined"}
    BY <1>1 DEF Submit
  <2>3. jobs' \in Seq(Conn)
    <3>1. jobs \in Seq(Conn)
      OBVIOUS
    <3>2. Append(jobs, c) \in Seq(Conn)
      BY <3>1
    <3>3. QED
      BY <2>2, <3>1, <3>2
  <2>4. inbox' = [inbox EXCEPT ![c] = @ - 1] /\ processing' = [processing EXCEPT ![c] = TRUE]
    BY <1>1 DEF Submit
  <2>5. inbox' \in [Conn -> 0..MaxRequests]
    BY <2>1, <2>4
  <2>6. ASSUME NEW d \in Conn PROVE inbox'[d] <= inbox[d]
    <3>1. inbox[d] \in Nat /\ inbox'[d] = (IF d = c THEN inbox[d] - 1 ELSE inbox[d])
      BY <2>4
    <3>2. QED
      BY <3>1
  <2>7. QED
    BY <1>1, <2>2, <2>3, <2>4, <2>5, <2>6
<1>2. CASE /\ Close(c)
           /\ UNCHANGED <<jobs, inbox, fate>>
           /\ processing' = [processing EXCEPT ![c] = FALSE]
  BY <1>2 DEF Close
<1>3. CASE /\ processing' = [processing EXCEPT ![c] = FALSE]
           /\ UNCHANGED <<jobs, inbox, conn, fate>>
  BY <1>3
<1>4. QED
  BY <1>1, <1>2, <1>3 DEF Proceed

\* An event at most closes one connection of the loop, or submits one job of it.
LEMMA DispatchIs ==
    ASSUME IInv, NEW i \in Loop, NEW e \in batch[i], DispatchEvent(i, e)
    PROVE  /\ jobs' \in Seq(Conn)
           /\ inbox' \in [Conn -> 0..MaxRequests]
           /\ processing' \in [Conn -> BOOLEAN]
           /\ fate' \in {"running", "terminated", "undefined"}
           /\ \A d \in Conn : inbox'[d] <= inbox[d]
           /\ \/ conn' = conn /\ jobs' = jobs
              \/ \E c \in Registered(i) :
                    /\ fd[c] = e.fd
                    /\ conn' = conn \/ conn' = [conn EXCEPT ![c] = "closed"]
                    /\ jobs' = jobs \/ jobs' = Append(jobs, c)
<1> USE ServerAssumption
<1>1. CASE UNCHANGED <<jobs, conn, inbox, processing, fate>>
  BY <1>1 DEF IInv, TypeOK
<1>2. CASE \E c \in Registered(i) :
              /\ fd[c] = e.fd
              /\ \/ Close(c) /\ UNCHANGED <<jobs, inbox, processing, fate>>
                 \/ Proceed(c)
  <2>1. PICK c \in Registered(i) :
              /\ fd[c] = e.fd
              /\ \/ Close(c) /\ UNCHANGED <<jobs, inbox, processing, fate>>
                 \/ Proceed(c)
    BY <1>2
  <2>2. c \in Conn
    BY DEF Registered
  <2>3. CASE Close(c) /\ UNCHANGED <<jobs, inbox, processing, fate>>
    <3>1. \A d \in Conn : inbox'[d] <= inbox[d]
      BY <2>3 DEF IInv, TypeOK
    <3>2. QED
      BY <2>1, <2>3, <3>1 DEF Close, IInv, TypeOK
  <2>4. CASE Proceed(c)
    BY <2>1, <2>2, <2>4, ProceedType DEF IInv
  <2>5. QED
    BY <2>1, <2>3, <2>4
<1>3. QED
  BY <1>1, <1>2 DEF DispatchEvent

\* A task at most opens or closes its connection, or submits a job of it.
LEMMA TaskIs ==
    ASSUME IInv, NEW i \in Loop, RunTask(i)
    PROVE  /\ tasks[i] # <<>> /\ tasks[i] \in Seq(Task)
           /\ tasks[i][1] \in Task /\ tasks[i][1].conn \in Conn
           /\ tasks' = [tasks EXCEPT ![i] = Tail(@)]
           /\ jobs' \in Seq(Conn)
           /\ inbox' \in [Conn -> 0..MaxRequests]
           /\ processing' \in [Conn -> BOOLEAN]
           /\ fate' \in {"running", "terminated", "undefined"}
           /\ \A d \in Conn : inbox'[d] <= inbox[d]
           /\ \/ /\ IsNew(tasks[i][1])
                 /\ conn' = [conn EXCEPT ![tasks[i][1].conn] = "open"]
                 /\ jobs' = jobs
              \/ conn' = conn /\ jobs' = jobs
              \/ /\ conn[tasks[i][1].conn] = "open"
                 /\ conn' = conn \/ conn' = [conn EXCEPT ![tasks[i][1].conn] = "closed"]
                 /\ jobs' = jobs \/ jobs' = Append(jobs, tasks[i][1].conn)
<1> USE ServerAssumption
<1>1. /\ tasks[i] # <<>> /\ tasks[i] \in Seq(Task)
      /\ tasks' = [tasks EXCEPT ![i] = Tail(@)]
  BY DEF RunTask, IInv, TypeOK
<1>0. /\ jobs \in Seq(Conn)
      /\ inbox \in [Conn -> 0..MaxRequests] /\ \A d \in Conn : inbox[d] <= inbox[d]
      /\ processing \in [Conn -> BOOLEAN]
      /\ fate \in {"running", "terminated", "undefined"}
  BY DEF IInv, TypeOK
<1>2. tasks[i][1] \in Task /\ Head(tasks[i]) = tasks[i][1]
  BY <1>1
<1> DEFINE t == tasks[i][1]
<1>3. t.conn \in Conn
  BY <1>2 DEF Task
<1>4. CASE /\ t.kind = "establish"
           /\ conn' = [conn EXCEPT ![t.conn] = "open"]
           /\ UNCHANGED <<jobs, inbox, processing, fate>>
  BY <1>0, <1>1, <1>2, <1>3, <1>4 DEF IsNew
<1>5. CASE /\ conn[t.conn] = "open"
           /\ Close(t.conn)
           /\ processing' = [processing EXCEPT ![t.conn] = FALSE]
           /\ UNCHANGED <<jobs, inbox, fate>>
  <2>1. /\ conn' = [conn EXCEPT ![t.conn] = "closed"]
        /\ processing' \in [Conn -> BOOLEAN]
    BY <1>0, <1>5 DEF Close
  <2> HIDE DEF t
  <2>2. QED
    BY <1>0, <1>1, <1>2, <1>3, <1>5, <2>1 DEF t
<1>6. CASE conn[t.conn] = "open" /\ Proceed(t.conn)
  <2> HIDE DEF t
  <2>1. QED
    BY <1>1, <1>2, <1>3, <1>6, ProceedType DEF IInv, t
<1>7. CASE UNCHANGED <<jobs, conn, inbox, processing, fate>>
  BY <1>1, <1>2, <1>3, <1>7 DEF IInv, TypeOK
<1>8. QED
  BY <1>2, <1>4, <1>5, <1>6, <1>7 DEF RunTask

\* Every step keeps the types.
LEMMA TypeStep == ASSUME IInv, [Next]_vars PROVE TypeOK'
<1> USE ServerAssumption DEF TypeOK, Loop, Fd, mainVars, loopVars, poolVars, connVars
<1>0. TypeOK
  BY DEF IInv
<1>b. Bounds /\ FdInv
  BY DEF IInv
<1>1. CASE LaunchThread
  BY <1>1, <1>0 DEF LaunchThread
<1>2. CASE LaunchFails
  BY <1>2, <1>0 DEF LaunchFails
<1>3. CASE StartReturns
  <2>1. at' \in 1..LoopCount + 1 /\ main' \in {"accepting", "launching"}
    BY <1>3, <1>0, <1>b DEF StartReturns, Bounds
  <2>2. UNCHANGED <<next_index_, loopVars, poolVars, connVars, fate>>
    BY <1>3, <1>0 DEF StartReturns
  <2>3. QED
    BY <1>0, <2>1, <2>2
<1>4. CASE JoinWorkers
  BY <1>4, <1>0 DEF JoinWorkers
<1>5. CASE QuitLoop
  BY <1>5, <1>0 DEF QuitLoop
<1>6. CASE JoinThread
  <2>1. at' \in 1..LoopCount + 1 /\ main' \in {"returned", "quitting"}
    BY <1>6, <1>0, <1>b DEF JoinThread, Bounds
  <2>2. UNCHANGED <<next_index_, loopVars, poolVars, connVars, fate>>
    BY <1>6, <1>0 DEF JoinThread
  <2>3. QED
    BY <1>0, <2>1, <2>2
<1>7. CASE ListenError
  BY <1>7, <1>0 DEF ListenError
<1>8. ASSUME NEW i \in Loop, Publish(i) PROVE TypeOK'
  BY <1>8, <1>0 DEF Publish
<1>9. ASSUME NEW i \in Loop, CheckQuit(i) PROVE TypeOK'
  BY <1>9, <1>0 DEF CheckQuit
<1>10. ASSUME NEW i \in Loop, WaitReturns(i) PROVE TypeOK'
  <2>1. Reported(i) \subseteq Event \cup {Wakeup}
    <3>1. ASSUME NEW d \in Registered(i) PROVE [conn |-> d, fd |-> fd[d]] \in Event
      <4>1. d \in Conn /\ conn[d] = "open"
        BY DEF Registered
      <4>2. fd[d] \in 0..MaxFd /\ fd[d] # 0
        BY <1>0, <1>b, <4>1 DEF FdInv
      <4>3. MaxFd \in Nat /\ fd[d] \in Fd
        BY <4>2
      <4>4. QED
        BY <4>1, <4>3 DEF Event
    <3>2. QED
      BY <1>0, <3>1 DEF Reported
  <2>2. batch' = [batch EXCEPT ![i] = Reported(i)]
    BY <1>10, <1>0 DEF WaitReturns
  <2>3. batch' \in [Loop -> SUBSET (Event \cup {Wakeup})]
    BY <1>0, <2>1, <2>2
  <2>4. QED
    BY <1>10, <1>0, <2>3 DEF WaitReturns
<1>11. ASSUME NEW i \in Loop, DispatchWakeup(i) PROVE TypeOK'
  <2>1. /\ batch' = [batch EXCEPT ![i] = batch[i] \ {Wakeup}]
        /\ tasks' = [tasks EXCEPT ![i] = pending[i]]
        /\ pending' = [pending EXCEPT ![i] = <<>>]
    BY <1>11, <1>0 DEF DispatchWakeup
  <2>2. /\ batch' \in [Loop -> SUBSET (Event \cup {Wakeup})]
        /\ tasks' \in [Loop -> Seq(Task)]
        /\ pending' \in [Loop -> Seq(Task)]
    BY <1>0, <2>1
  <2>3. QED
    BY <1>11, <1>0, <2>2 DEF DispatchWakeup
<1>12. ASSUME NEW i \in Loop, RunTask(i) PROVE TypeOK'
  <2>0. Tail(tasks[i]) \in Seq(Task) /\ tasks' = [tasks EXCEPT ![i] = Tail(tasks[i])]
    BY <1>12, <1>0, TaskIs, TailIs
  <2>1. tasks' \in [Loop -> Seq(Task)]
    BY <1>0, <2>0
  <2>2. conn' \in [Conn -> {"client", "backlog", "queued", "open", "closed"}]
    <3>1. \/ conn' = conn \/ \E s \in {"open", "closed"} : conn' = [conn EXCEPT ![tasks[i][1].conn] = s]
      BY <1>12, <1>0, TaskIs
    <3>2. tasks[i][1].conn \in Conn
      BY <1>12, <1>0, TaskIs
    <3>3. QED
      BY <1>0, <3>1, <3>2
  <2>3. QED
    BY <1>12, <1>0, <2>1, <2>2, TaskIs DEF RunTask
<1>13. ASSUME NEW i \in Loop, EndDispatch(i) PROVE TypeOK'
  BY <1>13, <1>0 DEF EndDispatch
<1>14. ASSUME NEW i \in Loop, Retract(i) PROVE TypeOK'
  BY <1>14, <1>0 DEF Retract
<1>15. ASSUME NEW i \in Loop, DestroyLoop(i) PROVE TypeOK'
  <2>1. pending' = [pending EXCEPT ![i] = <<>>] /\ thread' = [thread EXCEPT ![i] = "gone"]
    BY <1>15, <1>0 DEF DestroyLoop
  <2>2. pending' \in [Loop -> Seq(Task)]
    BY <1>0, <2>1
  <2>3. thread' \in [Loop -> {"none", "made", "check", "wait", "dispatch", "left", "reset", "gone"}]
    BY <1>0, <2>1
  <2>4. UNCHANGED <<mainVars, next_index_, loop_, quit_, tasks, batch, poolVars, connVars, fate>>
    BY <1>15, <1>0 DEF DestroyLoop
  <2>5. QED
    BY <1>0, <2>2, <2>3, <2>4
<1>16. ASSUME NEW i \in Loop, NEW e \in batch[i], DispatchEvent(i, e) PROVE TypeOK'
  <2>1. conn' \in [Conn -> {"client", "backlog", "queued", "open", "closed"}]
    BY <1>16, <1>0, DispatchIs
  <2>2. QED
    BY <1>16, <1>0, <2>1, DispatchIs DEF DispatchEvent
<1>17. ASSUME NEW w \in Worker, Take(w) PROVE TypeOK'
  <2>1. Head(jobs) \in Conn /\ Tail(jobs) \in Seq(Conn)
    BY <1>17, <1>0 DEF Take
  <2>2. QED
    BY <1>17, <1>0, <2>1 DEF Take
<1>18. ASSUME NEW w \in Worker, Complete(w) PROVE TypeOK'
  <2>1. pending' \in [Loop -> Seq(Task)]
    <3>1. CASE UNCHANGED pending
      BY <1>0, <3>1
    <3>2. CASE conn[worker[w]] = "open"
      <4>1. PICK close \in BOOLEAN : pending' = [pending EXCEPT ![home[worker[w]]] =
                Append(pending[home[worker[w]]], [kind |-> "finish", conn |-> worker[w], close |-> close])]
        BY <1>18, <1>0, <3>2 DEF Complete
      <4>2. [kind |-> "finish", conn |-> worker[w], close |-> close] \in Task
        BY <1>18, <1>0 DEF Complete, Task
      <4> DEFINE t == [kind |-> "finish", conn |-> worker[w], close |-> close]
      <4>3. pending' = [pending EXCEPT ![home[worker[w]]] = Append(pending[home[worker[w]]], t)] /\ t \in Task
        BY <1>0, <4>1, <4>2
      <4> HIDE DEF t
      <4>4. home[worker[w]] \in Loop => Append(pending[home[worker[w]]], t) \in Seq(Task)
        BY <1>0, <4>3, AppendIs
      <4>5. QED
        BY <1>0, <4>3, <4>4
    <3>3. QED
      BY <1>18, <1>0, <3>1, <3>2 DEF Complete
  <2>2. QED
    BY <1>18, <1>0, <2>1 DEF Complete
<1>19. ASSUME NEW w \in Worker, LeavePool(w) PROVE TypeOK'
  BY <1>19, <1>0 DEF LeavePool
<1>20. ASSUME NEW c \in Conn, Accept(c) PROVE TypeOK'
  <2> DEFINE t == [kind |-> "establish", conn |-> c]
  <2>1. t \in Task
    BY DEF Task
  <2>2. pending' = [pending EXCEPT ![next_index_] = Append(pending[next_index_], t)]
    BY <1>20, <1>0 DEF Accept
  <2> HIDE DEF t
  <2>3. pending' \in [Loop -> Seq(Task)]
    BY <1>0, <2>1, <2>2
  <2>4. next_index_' \in Loop
    BY <1>20, <1>0 DEF Accept, NextLoop
  <2>5. PICK f \in 1..MaxFd : fd' = [fd EXCEPT ![c] = f]
    BY <1>20, <1>0 DEF Accept
  <2>6. fd' \in [Conn -> 0..MaxFd]
    BY <1>0, <2>5
  <2>7. home' \in [Conn -> 0..LoopCount]
    BY <1>20, <1>0 DEF Accept
  <2>8. QED
    BY <1>20, <1>0, <2>3, <2>4, <2>6, <2>7 DEF Accept
<1>21. ASSUME NEW c \in Conn, AcceptDrops(c) PROVE TypeOK'
  BY <1>21, <1>0 DEF AcceptDrops
<1>22. ASSUME NEW c \in Conn, CloseIdle(c) PROVE TypeOK'
  BY <1>22, <1>0 DEF CloseIdle, Close
<1>23. ASSUME NEW c \in Conn, ClientConnects(c) PROVE TypeOK'
  BY <1>23, <1>0 DEF ClientConnects
<1>24. ASSUME NEW c \in Conn, ClientSends(c) PROVE TypeOK'
  <2>1. inbox[c] + 1 \in 0..MaxRequests /\ unsent[c] - 1 \in 0..MaxRequests
    <3>1. inbox[c] \in Nat /\ unsent[c] \in 0..MaxRequests /\ unsent[c] > 0
      BY <1>24, <1>0 DEF ClientSends
    <3>2. inbox[c] + unsent[c] <= MaxRequests
      BY <1>b DEF Bounds
    <3>3. QED
      BY <3>1, <3>2
  <2>2. inbox' \in [Conn -> 0..MaxRequests] /\ unsent' \in [Conn -> 0..MaxRequests]
    BY <1>24, <1>0, <2>1 DEF ClientSends
  <2>3. UNCHANGED <<mainVars, next_index_, loopVars, poolVars, conn, home, fd, ended, processing,
                    fate>>
    BY <1>24 DEF ClientSends
  <2>4. QED
    BY <1>0, <2>2, <2>3
<1>25. ASSUME NEW c \in Conn, ClientEnds(c) PROVE TypeOK'
  BY <1>25, <1>0 DEF ClientEnds
<1>26. CASE UNCHANGED vars
  BY <1>26, <1>0 DEF vars
<1>27. QED
  BY <1>1, <1>2, <1>3, <1>4, <1>5, <1>6, <1>7, <1>8, <1>9, <1>10, <1>11, <1>12,
     <1>13, <1>14, <1>15, <1>16, <1>17, <1>18, <1>19, <1>20, <1>21, <1>22,
     <1>23, <1>24, <1>25, <1>26 DEF Next, MainStep, LoopStep, WorkerStep

LEMMA BoundsStep == ASSUME IInv, [Next]_vars PROVE Bounds'
<1> USE ServerAssumption DEF Bounds, Loop, mainVars, loopVars, poolVars, connVars
<1>0. /\ Bounds
      /\ main \in {"launching", "starting", "accepting", "stopping", "quitting", "joining",
                   "returned"}
      /\ at \in 1..LoopCount + 1
      /\ inbox \in [Conn -> 0..MaxRequests] /\ unsent \in [Conn -> 0..MaxRequests]
  BY DEF IInv, TypeOK
<1>p. ASSUME UNCHANGED <<main, at, unsent>>, inbox' \in [Conn -> 0..MaxRequests],
             \A d \in Conn : inbox'[d] <= inbox[d]
      PROVE  Bounds'
  <2>1. ASSUME NEW d \in Conn PROVE inbox'[d] + unsent[d] <= MaxRequests
    <3>1. inbox'[d] \in Nat /\ inbox[d] \in Nat /\ unsent[d] \in Nat
      BY <1>0, <1>p
    <3>2. QED
      BY <1>0, <1>p, <3>1
  <2>2. QED
    BY <1>0, <1>p, <2>1
<1>1. CASE LaunchThread
  BY <1>1, <1>0 DEF LaunchThread
<1>2. CASE LaunchFails
  BY <1>2, <1>0 DEF LaunchFails
<1>3. CASE StartReturns
  BY <1>3, <1>0 DEF StartReturns
<1>4. CASE JoinWorkers
  BY <1>4, <1>0 DEF JoinWorkers
<1>5. CASE QuitLoop
  BY <1>5, <1>0 DEF QuitLoop
<1>6. CASE JoinThread
  BY <1>6, <1>0 DEF JoinThread
<1>7. CASE ListenError
  BY <1>7, <1>0 DEF ListenError
<1>8. ASSUME NEW i \in Loop, Publish(i) PROVE Bounds'
  BY <1>8, <1>0 DEF Publish
<1>9. ASSUME NEW i \in Loop, CheckQuit(i) PROVE Bounds'
  BY <1>9, <1>0 DEF CheckQuit
<1>10. ASSUME NEW i \in Loop, WaitReturns(i) PROVE Bounds'
  BY <1>10, <1>0 DEF WaitReturns
<1>11. ASSUME NEW i \in Loop, DispatchWakeup(i) PROVE Bounds'
  BY <1>11, <1>0 DEF DispatchWakeup
<1>12. ASSUME NEW i \in Loop, RunTask(i) PROVE Bounds'
  <2>1. UNCHANGED <<main, at, unsent>>
    BY <1>12 DEF RunTask
  <2>2. QED
    BY <1>12, <1>p, <2>1, TaskIs
<1>13. ASSUME NEW i \in Loop, EndDispatch(i) PROVE Bounds'
  BY <1>13, <1>0 DEF EndDispatch
<1>14. ASSUME NEW i \in Loop, Retract(i) PROVE Bounds'
  BY <1>14, <1>0 DEF Retract
<1>15. ASSUME NEW i \in Loop, DestroyLoop(i) PROVE Bounds'
  BY <1>15, <1>0 DEF DestroyLoop
<1>16. ASSUME NEW i \in Loop, NEW e \in batch[i], DispatchEvent(i, e) PROVE Bounds'
  <2>1. UNCHANGED <<main, at, unsent>>
    BY <1>16 DEF DispatchEvent
  <2>2. QED
    BY <1>16, <1>p, <2>1, DispatchIs
<1>17. ASSUME NEW w \in Worker, Take(w) PROVE Bounds'
  BY <1>17, <1>0 DEF Take
<1>18. ASSUME NEW w \in Worker, Complete(w) PROVE Bounds'
  BY <1>18, <1>0 DEF Complete
<1>19. ASSUME NEW w \in Worker, LeavePool(w) PROVE Bounds'
  BY <1>19, <1>0 DEF LeavePool
<1>20. ASSUME NEW c \in Conn, Accept(c) PROVE Bounds'
  BY <1>20, <1>0 DEF Accept
<1>21. ASSUME NEW c \in Conn, AcceptDrops(c) PROVE Bounds'
  BY <1>21, <1>0 DEF AcceptDrops
<1>22. ASSUME NEW c \in Conn, CloseIdle(c) PROVE Bounds'
  BY <1>22, <1>0 DEF CloseIdle
<1>23. ASSUME NEW c \in Conn, ClientConnects(c) PROVE Bounds'
  BY <1>23, <1>0 DEF ClientConnects
<1>24. ASSUME NEW c \in Conn, ClientSends(c) PROVE Bounds'
  BY <1>24, <1>0 DEF ClientSends
<1>25. ASSUME NEW c \in Conn, ClientEnds(c) PROVE Bounds'
  BY <1>25, <1>0 DEF ClientEnds
<1>26. CASE UNCHANGED vars
  BY <1>26, <1>0 DEF vars
<1>27. QED
  BY <1>1, <1>2, <1>3, <1>4, <1>5, <1>6, <1>7, <1>8, <1>9, <1>10, <1>11, <1>12,
     <1>13, <1>14, <1>15, <1>16, <1>17, <1>18, <1>19, <1>20, <1>21, <1>22,
     <1>23, <1>24, <1>25, <1>26 DEF Next, MainStep, LoopStep, WorkerStep

LEMMA LoopStepInv == ASSUME IInv, [Next]_vars PROVE LoopInv'
<1> USE ServerAssumption DEF LoopInv, mainVars, loopVars, poolVars, connVars
<1>0. /\ LoopInv
      /\ thread \in [Loop -> {"none", "made", "check", "wait", "dispatch", "left", "reset", "gone"}]
      /\ loop_ \in [Loop -> BOOLEAN]
  BY DEF IInv, TypeOK
<1>n. main = "launching" /\ at <= LoopCount => at \in Loop /\ thread[at] = "none"
  BY DEF IInv, TypeOK, PhaseInv, Loop
<1>1. CASE LaunchThread
  BY <1>1, <1>0, <1>n DEF LaunchThread
<1>2. CASE LaunchFails
  BY <1>2, <1>0 DEF LaunchFails
<1>3. CASE StartReturns
  BY <1>3, <1>0 DEF StartReturns
<1>4. CASE JoinWorkers
  BY <1>4, <1>0 DEF JoinWorkers
<1>5. CASE QuitLoop
  BY <1>5, <1>0 DEF QuitLoop
<1>6. CASE JoinThread
  BY <1>6, <1>0 DEF JoinThread
<1>7. CASE ListenError
  BY <1>7, <1>0 DEF ListenError
<1>8. ASSUME NEW i \in Loop, Publish(i) PROVE LoopInv'
  BY <1>8, <1>0 DEF Publish
<1>9. ASSUME NEW i \in Loop, CheckQuit(i) PROVE LoopInv'
  BY <1>9, <1>0 DEF CheckQuit
<1>10. ASSUME NEW i \in Loop, WaitReturns(i) PROVE LoopInv'
  BY <1>10, <1>0 DEF WaitReturns
<1>11. ASSUME NEW i \in Loop, DispatchWakeup(i) PROVE LoopInv'
  BY <1>11, <1>0 DEF DispatchWakeup
<1>12. ASSUME NEW i \in Loop, RunTask(i) PROVE LoopInv'
  BY <1>12, <1>0 DEF RunTask
<1>13. ASSUME NEW i \in Loop, EndDispatch(i) PROVE LoopInv'
  BY <1>13, <1>0 DEF EndDispatch, Dispatching
<1>14. ASSUME NEW i \in Loop, Retract(i) PROVE LoopInv'
  BY <1>14, <1>0 DEF Retract
<1>15. ASSUME NEW i \in Loop, DestroyLoop(i) PROVE LoopInv'
  BY <1>15, <1>0 DEF DestroyLoop
<1>16. ASSUME NEW i \in Loop, NEW e \in batch[i], DispatchEvent(i, e) PROVE LoopInv'
  BY <1>16, <1>0 DEF DispatchEvent
<1>17. ASSUME NEW w \in Worker, Take(w) PROVE LoopInv'
  BY <1>17, <1>0 DEF Take
<1>18. ASSUME NEW w \in Worker, Complete(w) PROVE LoopInv'
  BY <1>18, <1>0 DEF Complete
<1>19. ASSUME NEW w \in Worker, LeavePool(w) PROVE LoopInv'
  BY <1>19, <1>0 DEF LeavePool
<1>20. ASSUME NEW c \in Conn, Accept(c) PROVE LoopInv'
  BY <1>20, <1>0 DEF Accept
<1>21. ASSUME NEW c \in Conn, AcceptDrops(c) PROVE LoopInv'
  BY <1>21, <1>0 DEF AcceptDrops
<1>22. ASSUME NEW c \in Conn, CloseIdle(c) PROVE LoopInv'
  BY <1>22, <1>0 DEF CloseIdle
<1>23. ASSUME NEW c \in Conn, ClientConnects(c) PROVE LoopInv'
  BY <1>23, <1>0 DEF ClientConnects
<1>24. ASSUME NEW c \in Conn, ClientSends(c) PROVE LoopInv'
  BY <1>24, <1>0 DEF ClientSends
<1>25. ASSUME NEW c \in Conn, ClientEnds(c) PROVE LoopInv'
  BY <1>25, <1>0 DEF ClientEnds
<1>26. CASE UNCHANGED vars
  BY <1>26, <1>0 DEF vars
<1>27. QED
  BY <1>1, <1>2, <1>3, <1>4, <1>5, <1>6, <1>7, <1>8, <1>9, <1>10, <1>11, <1>12,
     <1>13, <1>14, <1>15, <1>16, <1>17, <1>18, <1>19, <1>20, <1>21, <1>22,
     <1>23, <1>24, <1>25, <1>26 DEF Next, MainStep, LoopStep, WorkerStep

LEMMA PhaseStep == ASSUME IInv, [Next]_vars PROVE PhaseInv'
<1> USE ServerAssumption DEF PhaseInv, Loop, mainVars, loopVars, poolVars, connVars
<1>0. /\ PhaseInv /\ Bounds
      /\ at \in 1..LoopCount + 1
      /\ thread \in [Loop -> {"none", "made", "check", "wait", "dispatch", "left", "reset", "gone"}]
      /\ quit_ \in [Loop -> BOOLEAN]
      /\ worker \in [Worker -> {"idle", "exited"} \cup Conn]
  BY DEF IInv, TypeOK
<1>m. \A i \in Loop : loop_[i] => thread[i] \in {"check", "wait", "dispatch", "left"}
  BY DEF IInv, LoopInv
<1>1. CASE LaunchThread
  BY <1>1, <1>0 DEF LaunchThread
<1>2. CASE LaunchFails
  BY <1>2, <1>0 DEF LaunchFails
<1>3. CASE StartReturns
  BY <1>3, <1>0, <1>m DEF StartReturns, Bounds
<1>4. CASE JoinWorkers
  BY <1>4, <1>0 DEF JoinWorkers
<1>5. CASE QuitLoop
  BY <1>5, <1>0 DEF QuitLoop
<1>6. CASE JoinThread
  BY <1>6, <1>0 DEF JoinThread
<1>7. CASE ListenError
  BY <1>7, <1>0 DEF ListenError
<1>8. ASSUME NEW i \in Loop, Publish(i) PROVE PhaseInv'
  BY <1>8, <1>0 DEF Publish
<1>9. ASSUME NEW i \in Loop, CheckQuit(i) PROVE PhaseInv'
  BY <1>9, <1>0 DEF CheckQuit
<1>10. ASSUME NEW i \in Loop, WaitReturns(i) PROVE PhaseInv'
  BY <1>10, <1>0 DEF WaitReturns
<1>11. ASSUME NEW i \in Loop, DispatchWakeup(i) PROVE PhaseInv'
  BY <1>11, <1>0 DEF DispatchWakeup
<1>12. ASSUME NEW i \in Loop, RunTask(i) PROVE PhaseInv'
  <2>1. UNCHANGED <<main, at, thread, quit_, worker>>
    BY <1>12 DEF RunTask
  <2>2. QED
    BY <1>0, <2>1
<1>13. ASSUME NEW i \in Loop, EndDispatch(i) PROVE PhaseInv'
  BY <1>13, <1>0 DEF EndDispatch, Dispatching
<1>14. ASSUME NEW i \in Loop, Retract(i) PROVE PhaseInv'
  BY <1>14, <1>0 DEF Retract
<1>15. ASSUME NEW i \in Loop, DestroyLoop(i) PROVE PhaseInv'
  BY <1>15, <1>0 DEF DestroyLoop
<1>16. ASSUME NEW i \in Loop, NEW e \in batch[i], DispatchEvent(i, e) PROVE PhaseInv'
  <2>1. UNCHANGED <<main, at, thread, quit_, worker>>
    BY <1>16 DEF DispatchEvent
  <2>2. QED
    BY <1>0, <2>1
<1>17. ASSUME NEW w \in Worker, Take(w) PROVE PhaseInv'
  BY <1>17, <1>0 DEF Take
<1>18. ASSUME NEW w \in Worker, Complete(w) PROVE PhaseInv'
  BY <1>18, <1>0 DEF Complete
<1>19. ASSUME NEW w \in Worker, LeavePool(w) PROVE PhaseInv'
  BY <1>19, <1>0 DEF LeavePool
<1>20. ASSUME NEW c \in Conn, Accept(c) PROVE PhaseInv'
  BY <1>20, <1>0 DEF Accept
<1>21. ASSUME NEW c \in Conn, AcceptDrops(c) PROVE PhaseInv'
  BY <1>21, <1>0 DEF AcceptDrops
<1>22. ASSUME NEW c \in Conn, CloseIdle(c) PROVE PhaseInv'
  BY <1>22, <1>0 DEF CloseIdle
<1>23. ASSUME NEW c \in Conn, ClientConnects(c) PROVE PhaseInv'
  BY <1>23, <1>0 DEF ClientConnects
<1>24. ASSUME NEW c \in Conn, ClientSends(c) PROVE PhaseInv'
  BY <1>24, <1>0 DEF ClientSends
<1>25. ASSUME NEW c \in Conn, ClientEnds(c) PROVE PhaseInv'
  BY <1>25, <1>0 DEF ClientEnds
<1>26. CASE UNCHANGED vars
  BY <1>26, <1>0 DEF vars
<1>27. QED
  BY <1>1, <1>2, <1>3, <1>4, <1>5, <1>6, <1>7, <1>8, <1>9, <1>10, <1>11, <1>12,
     <1>13, <1>14, <1>15, <1>16, <1>17, <1>18, <1>19, <1>20, <1>21, <1>22,
     <1>23, <1>24, <1>25, <1>26 DEF Next, MainStep, LoopStep, WorkerStep

LEMMA HomeStep == ASSUME IInv, [Next]_vars PROVE HomeInv'
<1> USE ServerAssumption DEF HomeInv, Loop, mainVars, loopVars, poolVars, connVars
<1>0. HomeInv
  BY DEF IInv
<1>t. /\ next_index_ \in Loop
      /\ pending \in [Loop -> Seq(Task)]
      /\ tasks \in [Loop -> Seq(Task)]
      /\ jobs \in Seq(Conn)
      /\ worker \in [Worker -> {"idle", "exited"} \cup Conn]
      /\ conn \in [Conn -> {"client", "backlog", "queued", "open", "closed"}]
      /\ home \in [Conn -> 0..LoopCount]
  BY DEF IInv, TypeOK
\* The pool's queue and the stages of connections are all that a connection changes.
<1>p. ASSUME NEW c \in Conn, home[c] # 0, UNCHANGED <<main, home, worker, pending>>,
             \A i \in Loop : \A k \in DOMAIN tasks'[i] : \E m \in DOMAIN tasks[i] :
                tasks'[i][k] = tasks[i][m],
             jobs' = jobs \/ jobs' = Append(jobs, c),
             conn' = conn \/ \E s \in {"open", "closed"} : conn' = [conn EXCEPT ![c] = s]
      PROVE  HomeInv'
  <2>1. \A k \in DOMAIN jobs' : home[jobs'[k]] # 0
    <3>1. CASE jobs' = jobs
      BY <1>0, <1>p, <3>1
    <3>2. CASE jobs' = Append(jobs, c)
      BY <1>0, <1>t, <1>p, <3>2, JobsAre
    <3>3. QED
      BY <1>p, <3>1, <3>2
  <2>2. \A i \in Loop : \A k \in DOMAIN tasks'[i] : home[tasks'[i][k].conn] = i
    BY <1>0, <1>p
  <2>3. \A d \in Conn : /\ conn'[d] \in {"queued", "open"} => home[d] # 0
                        /\ conn'[d] \in {"client", "backlog"} => home[d] = 0
    BY <1>0, <1>t, <1>p
  <2>4. QED
    BY <1>0, <1>p, <2>1, <2>2, <2>3
<1>1. CASE LaunchThread
  BY <1>1, <1>0, <1>t DEF LaunchThread
<1>2. CASE LaunchFails
  BY <1>2, <1>0, <1>t DEF LaunchFails
<1>3. CASE StartReturns
  BY <1>3, <1>0, <1>t DEF StartReturns
<1>4. CASE JoinWorkers
  BY <1>4, <1>0, <1>t DEF JoinWorkers
<1>5. CASE QuitLoop
  BY <1>5, <1>0, <1>t DEF QuitLoop
<1>6. CASE JoinThread
  BY <1>6, <1>0, <1>t DEF JoinThread
<1>7. CASE ListenError
  BY <1>7, <1>0, <1>t DEF ListenError
<1>8. ASSUME NEW i \in Loop, Publish(i) PROVE HomeInv'
  BY <1>8, <1>0, <1>t DEF Publish
<1>9. ASSUME NEW i \in Loop, CheckQuit(i) PROVE HomeInv'
  BY <1>9, <1>0, <1>t DEF CheckQuit
<1>10. ASSUME NEW i \in Loop, WaitReturns(i) PROVE HomeInv'
  BY <1>10, <1>0, <1>t DEF WaitReturns
<1>11. ASSUME NEW i \in Loop, DispatchWakeup(i) PROVE HomeInv'
  <2>1. /\ tasks' = [tasks EXCEPT ![i] = pending[i]]
        /\ pending' = [pending EXCEPT ![i] = <<>>]
        /\ UNCHANGED <<main, jobs, worker, conn, home>>
    BY <1>11 DEF DispatchWakeup
  <2>2. \A j \in Loop : /\ tasks'[j] = (IF j = i THEN pending[i] ELSE tasks[j])
                        /\ pending'[j] = (IF j = i THEN <<>> ELSE pending[j])
    BY <1>t, <2>1
  <2>3. QED
    BY <1>0, <2>1, <2>2
<1>12. ASSUME NEW i \in Loop, RunTask(i) PROVE HomeInv'
  <2>1. /\ tasks[i] # <<>> /\ tasks[i] \in Seq(Task) /\ tasks[i][1].conn \in Conn
        /\ tasks' = [tasks EXCEPT ![i] = Tail(tasks[i])]
        /\ jobs' = jobs \/ jobs' = Append(jobs, tasks[i][1].conn)
        /\ conn' = conn \/ \E s \in {"open", "closed"} : conn' = [conn EXCEPT ![tasks[i][1].conn] = s]
    BY <1>12, TaskIs
  <2>2. UNCHANGED <<main, home, worker, pending>>
    BY <1>12 DEF RunTask
  <2>3. home[tasks[i][1].conn] # 0
    BY <1>0, <2>1, TailIs
  <2>4. \A j \in Loop : \A k \in DOMAIN tasks'[j] : \E m \in DOMAIN tasks[j] :
           tasks'[j][k] = tasks[j][m]
    BY <1>t, <2>1, TailIs
  <2>5. QED
    BY <1>p, <2>1, <2>2, <2>3, <2>4
<1>13. ASSUME NEW i \in Loop, EndDispatch(i) PROVE HomeInv'
  BY <1>13, <1>0, <1>t DEF EndDispatch
<1>14. ASSUME NEW i \in Loop, Retract(i) PROVE HomeInv'
  BY <1>14, <1>0, <1>t DEF Retract
<1>15. ASSUME NEW i \in Loop, DestroyLoop(i) PROVE HomeInv'
  BY <1>15, <1>0, <1>t DEF DestroyLoop
<1>16. ASSUME NEW i \in Loop, NEW e \in batch[i], DispatchEvent(i, e) PROVE HomeInv'
  <2>1. UNCHANGED <<main, home, worker, pending, tasks>>
    BY <1>16 DEF DispatchEvent
  <2>2. CASE conn' = conn /\ jobs' = jobs
    BY <1>0, <2>1, <2>2
  <2>3. CASE \E c \in Registered(i) :
                /\ conn' = conn \/ conn' = [conn EXCEPT ![c] = "closed"]
                /\ jobs' = jobs \/ jobs' = Append(jobs, c)
    <3>1. PICK c \in Conn : /\ home[c] # 0
                            /\ conn' = conn \/ conn' = [conn EXCEPT ![c] = "closed"]
                            /\ jobs' = jobs \/ jobs' = Append(jobs, c)
      BY <2>3, <1>0 DEF Registered
    <3>2. QED
      BY <1>p, <2>1, <3>1
  <2>4. QED
    BY <1>16, <2>2, <2>3, DispatchIs
<1>17. ASSUME NEW w \in Worker, Take(w) PROVE HomeInv'
  <2>1. /\ jobs # <<>> /\ worker' = [worker EXCEPT ![w] = jobs[1]] /\ jobs' = Tail(jobs)
        /\ UNCHANGED <<main, home, conn, pending, tasks>>
    BY <1>17 DEF Take
  <2>2. home[jobs[1]] # 0 /\ \A k \in DOMAIN jobs' : home[jobs'[k]] # 0
    BY <1>0, <1>t, <2>1, TailIs
  <2>3. QED
    BY <1>0, <1>t, <2>1, <2>2
<1>18. ASSUME NEW w \in Worker, Complete(w) PROVE HomeInv'
  <2>1. /\ worker' = [worker EXCEPT ![w] = "idle"]
        /\ UNCHANGED <<main, home, conn, jobs, tasks>>
    BY <1>18 DEF Complete
  <2>2. CASE UNCHANGED pending
    BY <1>0, <1>t, <2>1, <2>2
  <2>3. CASE conn[worker[w]] = "open"
    <3> DEFINE d == worker[w]
    <3>1. PICK t \in Task :
             t.conn = d /\ pending' = [pending EXCEPT ![home[d]] = Append(pending[home[d]], t)]
      BY <1>18, <2>3 DEF Complete, Task
    <3>2. d \in Conn
      BY <1>18 DEF Complete
    <3> HIDE DEF d
    <3>3. home[d] \in Loop
      BY <1>18, <1>0, <1>t, <3>2 DEF d
    <3>4. ASSUME NEW i \in Loop, NEW k \in DOMAIN pending'[i]
          PROVE  home[pending'[i][k].conn] = i
      <4>1. CASE k \in DOMAIN pending[i] /\ pending'[i][k] = pending[i][k]
        BY <1>0, <4>1
      <4>2. CASE i = home[d] /\ pending'[i][k] = t
        BY <3>1, <4>2
      <4>3. pending \in [Loop -> Seq(Task)]
        BY <1>t
      <4>4. pending' = [pending EXCEPT ![home[d]] = Append(pending[home[d]], t)]
        BY <3>1
      <4>5. \/ k \in DOMAIN pending[i] /\ pending'[i][k] = pending[i][k]
            \/ i = home[d] /\ pending'[i][k] = t
        BY <3>3, <3>4, <4>3, <4>4, PostIs
      <4>6. QED
        BY <4>1, <4>2, <4>5
    <3>5. QED
      BY <1>0, <1>t, <2>1, <3>4
  <2>4. QED
    BY <1>18, <2>2, <2>3 DEF Complete
<1>19. ASSUME NEW w \in Worker, LeavePool(w) PROVE HomeInv'
  BY <1>19, <1>0, <1>t DEF LeavePool
<1>20. ASSUME NEW c \in Conn, Accept(c) PROVE HomeInv'
  <2> DEFINE t == [kind |-> "establish", conn |-> c]
  <2>1. /\ main = "accepting" /\ conn[c] = "backlog"
        /\ conn' = [conn EXCEPT ![c] = "queued"]
        /\ home' = [home EXCEPT ![c] = next_index_]
        /\ pending' = [pending EXCEPT ![next_index_] = Append(pending[next_index_], t)]
        /\ UNCHANGED <<main, jobs, worker, tasks>>
    BY <1>20 DEF Accept
  <2>2. t \in Task /\ t.conn = c
    BY DEF Task
  <2> HIDE DEF t
  <2>3. home[c] = 0
    BY <1>0, <2>1
  <2>4. ASSUME NEW i \in Loop, NEW k \in DOMAIN pending'[i]
        PROVE  home'[pending'[i][k].conn] = i
    <3>1. CASE pending'[i][k] = t /\ i = next_index_
      BY <1>t, <2>1, <2>2, <3>1
    <3>2. CASE k \in DOMAIN pending[i] /\ pending'[i][k] = pending[i][k]
      <4>1. pending[i][k].conn \in Conn /\ home[pending[i][k].conn] = i
        BY <1>0, <3>2, TasksTyped DEF IInv
      <4>2. i # 0
        OBVIOUS
      <4>3. QED
        BY <1>t, <2>1, <2>3, <3>2, <4>1, <4>2
    <3>3. \/ k \in DOMAIN pending[i] /\ pending'[i][k] = pending[i][k]
          \/ pending'[i][k] = t /\ i = next_index_
      <4>1. next_index_ \in Loop /\ pending \in [Loop -> Seq(Task)] /\ t \in Task
        BY <1>t, <2>2
      <4>2. pending' = [pending EXCEPT ![next_index_] = Append(pending[next_index_], t)]
        BY <2>1
      <4>3. QED
        BY <2>4, <4>1, <4>2, PostIs
    <3>4. QED
      BY <3>1, <3>2, <3>3
  <2>5. ASSUME NEW i \in Loop, NEW k \in DOMAIN tasks[i]
        PROVE  home'[tasks[i][k].conn] = i
    <3>1. tasks[i][k].conn \in Conn /\ home[tasks[i][k].conn] = i
      BY <1>0, <2>5, TasksTyped DEF IInv
    <3>2. i # 0
      OBVIOUS
    <3>3. QED
      BY <1>t, <2>1, <2>3, <3>1, <3>2
  <2>6. \A d \in Conn : d # c => home'[d] = home[d] /\ conn'[d] = conn[d]
    BY <1>t, <2>1
  <2>7. \A k \in DOMAIN jobs : jobs[k] # c /\ jobs[k] \in Conn
    BY <1>0, <1>t, <2>3
  <2>8. \A w \in Worker : worker[w] \in Conn => worker[w] # c
    BY <1>0, <2>3
  <2>9. home'[c] # 0 /\ conn'[c] = "queued"
    BY <1>t, <2>1
  <2>10. QED
    BY <1>0, <2>1, <2>4, <2>5, <2>6, <2>7, <2>8, <2>9
<1>21. ASSUME NEW c \in Conn, AcceptDrops(c) PROVE HomeInv'
  BY <1>21, <1>0, <1>t DEF AcceptDrops
<1>22. ASSUME NEW c \in Conn, CloseIdle(c) PROVE HomeInv'
  BY <1>22, <1>0, <1>t DEF CloseIdle, Close
<1>23. ASSUME NEW c \in Conn, ClientConnects(c) PROVE HomeInv'
  BY <1>23, <1>0, <1>t DEF ClientConnects
<1>24. ASSUME NEW c \in Conn, ClientSends(c) PROVE HomeInv'
  BY <1>24, <1>0, <1>t DEF ClientSends
<1>25. ASSUME NEW c \in Conn, ClientEnds(c) PROVE HomeInv'
  BY <1>25, <1>0, <1>t DEF ClientEnds
<1>26. CASE UNCHANGED vars
  BY <1>26, <1>0 DEF vars
<1>27. QED
  BY <1>1, <1>2, <1>3, <1>4, <1>5, <1>6, <1>7, <1>8, <1>9, <1>10, <1>11, <1>12,
     <1>13, <1>14, <1>15, <1>16, <1>17, <1>18, <1>19, <1>20, <1>21, <1>22,
     <1>23, <1>24, <1>25, <1>26 DEF Next, MainStep, LoopStep, WorkerStep

\* What a loop's thread may do to the stage of a connection.
LEMMA TaskOpens ==
    ASSUME IInv, NEW i \in Loop, RunTask(i)
    PROVE  \A d \in Conn : conn'[d] \in {"queued", "open"} => conn[d] \in {"queued", "open"}
<1>1. tasks[i][1].conn \in Conn /\ 1 \in DOMAIN tasks[i]
  BY TaskIs, TailIs
<1>2. IsNew(tasks[i][1]) => conn[tasks[i][1].conn] = "queued"
  BY <1>1 DEF IInv, TaskInv
<1>3. conn \in [Conn -> {"client", "backlog", "queued", "open", "closed"}]
  BY DEF IInv, TypeOK
<1>4. \/ conn' = conn
      \/ /\ conn[tasks[i][1].conn] \in {"queued", "open"}
         /\ \E s \in {"open", "closed"} : conn' = [conn EXCEPT ![tasks[i][1].conn] = s]
  BY <1>2, TaskIs
<1>5. QED
  BY <1>1, <1>3, <1>4

LEMMA EventOpens ==
    ASSUME IInv, NEW i \in Loop, NEW e \in batch[i], DispatchEvent(i, e)
    PROVE  \A d \in Conn : conn'[d] = conn[d] \/ (conn[d] = "open" /\ conn'[d] = "closed")
<1>1. conn \in [Conn -> {"client", "backlog", "queued", "open", "closed"}]
  BY DEF IInv, TypeOK
<1>2. conn' = conn \/ \E c \in Registered(i) : conn' = [conn EXCEPT ![c] = "closed"]
  BY DispatchIs
<1>3. CASE conn' = conn
  BY <1>3
<1>4. CASE \E c \in Registered(i) : conn' = [conn EXCEPT ![c] = "closed"]
  <2>1. PICK c \in Conn : conn[c] = "open" /\ conn' = [conn EXCEPT ![c] = "closed"]
    BY <1>4 DEF Registered
  <2>2. QED
    BY <1>1, <2>1
<1>5. QED
  BY <1>2, <1>3, <1>4

LEMMA FdStep == ASSUME IInv, [Next]_vars PROVE FdInv'
<1> USE ServerAssumption DEF FdInv, mainVars, loopVars, poolVars, connVars
<1>0. FdInv
  BY DEF IInv
<1>t. /\ conn \in [Conn -> {"client", "backlog", "queued", "open", "closed"}]
      /\ fd \in [Conn -> 0..MaxFd]
  BY DEF IInv, TypeOK
<1>p. ASSUME UNCHANGED fd,
             \A d \in Conn : conn'[d] \in {"queued", "open"} => conn[d] \in {"queued", "open"}
      PROVE  FdInv'
  BY <1>0, <1>p
<1>1. CASE LaunchThread
  BY <1>1, <1>p DEF LaunchThread
<1>2. CASE LaunchFails
  BY <1>2, <1>p DEF LaunchFails
<1>3. CASE StartReturns
  BY <1>3, <1>p DEF StartReturns
<1>4. CASE JoinWorkers
  BY <1>4, <1>p DEF JoinWorkers
<1>5. CASE QuitLoop
  BY <1>5, <1>p DEF QuitLoop
<1>6. CASE JoinThread
  BY <1>6, <1>p DEF JoinThread
<1>7. CASE ListenError
  BY <1>7, <1>p DEF ListenError
<1>8. ASSUME NEW i \in Loop, Publish(i) PROVE FdInv'
  BY <1>8, <1>p DEF Publish
<1>9. ASSUME NEW i \in Loop, CheckQuit(i) PROVE FdInv'
  BY <1>9, <1>p DEF CheckQuit
<1>10. ASSUME NEW i \in Loop, WaitReturns(i) PROVE FdInv'
  BY <1>10, <1>p DEF WaitReturns
<1>11. ASSUME NEW i \in Loop, DispatchWakeup(i) PROVE FdInv'
  BY <1>11, <1>p DEF DispatchWakeup
<1>12. ASSUME NEW i \in Loop, RunTask(i) PROVE FdInv'
  <2>1. UNCHANGED fd
    BY <1>12 DEF RunTask
  <2>2. QED
    BY <1>12, <1>p, <2>1, TaskOpens
<1>13. ASSUME NEW i \in Loop, EndDispatch(i) PROVE FdInv'
  BY <1>13, <1>p DEF EndDispatch
<1>14. ASSUME NEW i \in Loop, Retract(i) PROVE FdInv'
  BY <1>14, <1>p DEF Retract
<1>15. ASSUME NEW i \in Loop, DestroyLoop(i) PROVE FdInv'
  BY <1>15, <1>p DEF DestroyLoop
<1>16. ASSUME NEW i \in Loop, NEW e \in batch[i], DispatchEvent(i, e) PROVE FdInv'
  <2>1. UNCHANGED fd
    BY <1>16 DEF DispatchEvent
  <2>2. QED
    BY <1>16, <1>p, <2>1, EventOpens
<1>17. ASSUME NEW w \in Worker, Take(w) PROVE FdInv'
  BY <1>17, <1>p DEF Take
<1>18. ASSUME NEW w \in Worker, Complete(w) PROVE FdInv'
  BY <1>18, <1>p DEF Complete
<1>19. ASSUME NEW w \in Worker, LeavePool(w) PROVE FdInv'
  BY <1>19, <1>p DEF LeavePool
<1>20. ASSUME NEW c \in Conn, Accept(c) PROVE FdInv'
  <2>1. PICK f \in Fd : f \notin UsedFd /\ fd' = [fd EXCEPT ![c] = f]
    BY <1>20 DEF Accept
  <2>2. conn' = [conn EXCEPT ![c] = "queued"]
    BY <1>20 DEF Accept
  <2>3. \A d \in Conn : conn[d] \in {"queued", "open"} => fd[d] # f
    BY <2>1 DEF UsedFd
  <2>4. f # 0
    BY DEF Fd
  <2>5. \A d \in Conn : fd'[d] = (IF d = c THEN f ELSE fd[d])
                        /\ conn'[d] = (IF d = c THEN "queued" ELSE conn[d])
    BY <1>t, <2>1, <2>2
  <2>6. QED
    BY <1>0, <2>3, <2>4, <2>5
<1>21. ASSUME NEW c \in Conn, AcceptDrops(c) PROVE FdInv'
  BY <1>21, <1>p, <1>t DEF AcceptDrops
<1>22. ASSUME NEW c \in Conn, CloseIdle(c) PROVE FdInv'
  BY <1>22, <1>p, <1>t DEF CloseIdle, Close
<1>23. ASSUME NEW c \in Conn, ClientConnects(c) PROVE FdInv'
  BY <1>23, <1>p, <1>t DEF ClientConnects
<1>24. ASSUME NEW c \in Conn, ClientSends(c) PROVE FdInv'
  BY <1>24, <1>p DEF ClientSends
<1>25. ASSUME NEW c \in Conn, ClientEnds(c) PROVE FdInv'
  BY <1>25, <1>p DEF ClientEnds
<1>26. CASE UNCHANGED vars
  BY <1>26, <1>p DEF vars
<1>27. QED
  BY <1>1, <1>2, <1>3, <1>4, <1>5, <1>6, <1>7, <1>8, <1>9, <1>10, <1>11, <1>12,
     <1>13, <1>14, <1>15, <1>16, <1>17, <1>18, <1>19, <1>20, <1>21, <1>22,
     <1>23, <1>24, <1>25, <1>26 DEF Next, MainStep, LoopStep, WorkerStep

LEMMA TaskStep == ASSUME IInv, [Next]_vars PROVE TaskInv'
<1> USE ServerAssumption DEF mainVars, loopVars, poolVars, connVars
<1>0. TaskInv
  BY DEF IInv
<1>t. /\ next_index_ \in Loop
      /\ pending \in [Loop -> Seq(Task)]
      /\ tasks \in [Loop -> Seq(Task)]
      /\ conn \in [Conn -> {"client", "backlog", "queued", "open", "closed"}]
      /\ home \in [Conn -> 0..LoopCount]
  BY DEF IInv, TypeOK
<1>c. /\ \A i \in Loop : \A k \in DOMAIN pending[i] :
            pending[i][k].conn \in Conn /\ home[pending[i][k].conn] = i
      /\ \A i \in Loop : \A k \in DOMAIN tasks[i] :
            tasks[i][k].conn \in Conn /\ home[tasks[i][k].conn] = i
  BY TasksTyped DEF IInv, HomeInv
<1>p. ASSUME UNCHANGED <<tasks, pending>>,
             \A d \in Conn : conn[d] = "queued" => conn'[d] = "queued"
      PROVE  TaskInv'
  BY <1>0, <1>c, <1>p DEF TaskInv
<1>1. CASE LaunchThread
  BY <1>1, <1>p DEF LaunchThread
<1>2. CASE LaunchFails
  BY <1>2, <1>p DEF LaunchFails
<1>3. CASE StartReturns
  BY <1>3, <1>p DEF StartReturns
<1>4. CASE JoinWorkers
  BY <1>4, <1>p DEF JoinWorkers
<1>5. CASE QuitLoop
  BY <1>5, <1>p DEF QuitLoop
<1>6. CASE JoinThread
  BY <1>6, <1>p DEF JoinThread
<1>7. CASE ListenError
  BY <1>7, <1>p DEF ListenError
<1>8. ASSUME NEW i \in Loop, Publish(i) PROVE TaskInv'
  BY <1>8, <1>p DEF Publish
<1>9. ASSUME NEW i \in Loop, CheckQuit(i) PROVE TaskInv'
  BY <1>9, <1>p DEF CheckQuit
<1>10. ASSUME NEW i \in Loop, WaitReturns(i) PROVE TaskInv'
  BY <1>10, <1>p DEF WaitReturns
<1>11. ASSUME NEW i \in Loop, DispatchWakeup(i) PROVE TaskInv'
  <2>1. /\ tasks' = [tasks EXCEPT ![i] = pending[i]]
        /\ pending' = [pending EXCEPT ![i] = <<>>]
        /\ UNCHANGED conn
    BY <1>11 DEF DispatchWakeup
  <2>2. \A j \in Loop : /\ tasks'[j] = (IF j = i THEN pending[i] ELSE tasks[j])
                        /\ pending'[j] = (IF j = i THEN <<>> ELSE pending[j])
    BY <1>t, <2>1
  <2>3. QED
    BY <1>0, <2>1, <2>2 DEF TaskInv
<1>12. ASSUME NEW i \in Loop, RunTask(i) PROVE TaskInv'
  <2>1. /\ tasks[i] # <<>> /\ tasks[i] \in Seq(Task)
        /\ tasks' = [tasks EXCEPT ![i] = Tail(tasks[i])]
        /\ \/ IsNew(tasks[i][1]) /\ conn' = [conn EXCEPT ![tasks[i][1].conn] = "open"]
           \/ conn' = conn
           \/ conn[tasks[i][1].conn] = "open" /\ conn' = [conn EXCEPT ![tasks[i][1].conn] = "closed"]
    BY <1>12, TaskIs
  <2>2. UNCHANGED pending
    BY <1>12 DEF RunTask
  <2> DEFINE c == tasks[i][1].conn
  <2>3. 1 \in DOMAIN tasks[i] /\ c \in Conn /\ home[c] = i
    BY <1>c, <2>1, TailIs
  \* The other tasks that establish a connection are for others, which stay queued.
  <2>4. ASSUME NEW d \in Conn, conn[d] = "queued", d # c \/ ~IsNew(tasks[i][1])
        PROVE  conn'[d] = "queued"
    BY <1>t, <2>1, <2>3, <2>4
  <2> HIDE DEF c
  <2>r. \A k \in DOMAIN Tail(tasks[i]) :
           k + 1 \in DOMAIN tasks[i] /\ k \in Nat /\ Tail(tasks[i])[k] = tasks[i][k + 1]
    BY <2>1, TailIs
  <2>5. \A j \in Loop : \A k \in DOMAIN tasks'[j] : \E m \in DOMAIN tasks[j] :
           tasks'[j][k] = tasks[j][m] /\ (j = i => m = k + 1)
    <3>1. \A j \in Loop : tasks'[j] = (IF j = i THEN Tail(tasks[i]) ELSE tasks[j])
      BY <1>t, <2>1
    <3>2. QED
      BY <2>r, <3>1
  <2>6. ASSUME NEW j \in Loop, NEW k \in DOMAIN tasks'[j], IsNew(tasks'[j][k])
        PROVE  conn'[tasks'[j][k].conn] = "queued"
    <3>1. PICK m \in DOMAIN tasks[j] : tasks'[j][k] = tasks[j][m] /\ (j = i => m = k + 1)
      BY <2>5, <2>6
    <3>2. conn[tasks[j][m].conn] = "queued" /\ tasks[j][m].conn \in Conn /\ home[tasks[j][m].conn] = j
      BY <1>0, <1>c, <2>6, <3>1 DEF TaskInv
    <3>3. CASE j # i
      BY <2>3, <2>4, <3>1, <3>2, <3>3
    <3>4. CASE j = i
      <4>1. m # 1
        BY <2>1, <2>6, <3>1, <3>4, TailIs
      <4>2. QED
        BY <1>0, <2>3, <2>4, <2>6, <3>1, <3>2, <3>4, <4>1 DEF TaskInv, c
    <3>5. QED
      BY <3>3, <3>4
  <2>7. ASSUME NEW j \in Loop, NEW k \in DOMAIN pending[j], IsNew(pending[j][k])
        PROVE  conn'[pending[j][k].conn] = "queued"
    <3>1. conn[pending[j][k].conn] = "queued" /\ pending[j][k].conn \in Conn /\ home[pending[j][k].conn] = j
      BY <1>0, <1>c, <2>7 DEF TaskInv
    <3>2. IsNew(tasks[i][1]) => pending[j][k].conn # c
      BY <1>0, <2>3, <2>7, <3>1 DEF TaskInv, c
    <3>3. QED
      BY <2>4, <3>1, <3>2
  <2>8. ASSUME NEW j \in Loop, NEW k \in DOMAIN tasks'[j], NEW n \in DOMAIN tasks'[j],
               IsNew(tasks'[j][k]), IsNew(tasks'[j][n]), k # n
        PROVE  tasks'[j][k].conn # tasks'[j][n].conn
    <3>1. CASE j = i
      <4>1. tasks'[i] = Tail(tasks[i])
        BY <1>t, <2>1
      <4>2. k + 1 \in DOMAIN tasks[i] /\ n + 1 \in DOMAIN tasks[i] /\ k \in Nat /\ n \in Nat
            /\ tasks'[i][k] = tasks[i][k + 1] /\ tasks'[i][n] = tasks[i][n + 1]
        BY <2>r, <2>8, <3>1, <4>1
      <4>3. k + 1 # n + 1
        BY <2>8, <4>2
      <4>4. QED
        BY <1>0, <2>8, <3>1, <4>2, <4>3 DEF TaskInv
    <3>2. CASE j # i
      <4>1. tasks'[j] = tasks[j]
        BY <1>t, <2>1, <3>2
      <4>2. QED
        BY <1>0, <2>8, <4>1 DEF TaskInv
    <3>3. QED
      BY <3>1, <3>2
  <2>9. ASSUME NEW j \in Loop, NEW k \in DOMAIN tasks'[j], NEW n \in DOMAIN pending[j],
               IsNew(tasks'[j][k]), IsNew(pending[j][n])
        PROVE  tasks'[j][k].conn # pending[j][n].conn
    BY <1>0, <2>5, <2>9 DEF TaskInv
  <2>10. QED
    BY <1>0, <2>2, <2>6, <2>7, <2>8, <2>9 DEF TaskInv
<1>13. ASSUME NEW i \in Loop, EndDispatch(i) PROVE TaskInv'
  BY <1>13, <1>p DEF EndDispatch
<1>14. ASSUME NEW i \in Loop, Retract(i) PROVE TaskInv'
  BY <1>14, <1>p DEF Retract
<1>15. ASSUME NEW i \in Loop, DestroyLoop(i) PROVE TaskInv'
  <2>1. pending' = [pending EXCEPT ![i] = <<>>] /\ UNCHANGED <<conn, tasks>>
    BY <1>15 DEF DestroyLoop
  <2>2. \A j \in Loop : pending'[j] = (IF j = i THEN <<>> ELSE pending[j])
    BY <1>t, <2>1
  <2>3. QED
    BY <1>0, <2>1, <2>2 DEF TaskInv
<1>16. ASSUME NEW i \in Loop, NEW e \in batch[i], DispatchEvent(i, e) PROVE TaskInv'
  <2>1. UNCHANGED <<tasks, pending>>
    BY <1>16 DEF DispatchEvent
  <2>2. QED
    BY <1>16, <1>p, <2>1, EventOpens
<1>17. ASSUME NEW w \in Worker, Take(w) PROVE TaskInv'
  BY <1>17, <1>p DEF Take
<1>18. ASSUME NEW w \in Worker, Complete(w) PROVE TaskInv'
  <2>1. UNCHANGED <<conn, tasks>>
    BY <1>18 DEF Complete
  <2>2. CASE UNCHANGED pending
    BY <1>p, <2>1, <2>2
  <2>3. CASE conn[worker[w]] = "open"
    <3> DEFINE d == worker[w]
    <3>1. PICK t \in Task :
             ~IsNew(t) /\ pending' = [pending EXCEPT ![home[d]] = Append(pending[home[d]], t)]
      BY <1>18, <2>3 DEF Complete, Task, IsNew
    <3>2. home[d] \in Loop
      BY <1>18, <1>t DEF Complete, IInv, HomeInv, Loop
    <3> HIDE DEF d
    <3>3. ASSUME NEW j \in Loop, NEW k \in DOMAIN pending'[j], IsNew(pending'[j][k])
          PROVE  k \in DOMAIN pending[j] /\ pending'[j][k] = pending[j][k]
      BY <1>t, <3>1, <3>2, <3>3, PostIs
    <3>4. QED
      BY <1>0, <2>1, <3>3 DEF TaskInv
  <2>4. QED
    BY <1>18, <2>2, <2>3 DEF Complete
<1>19. ASSUME NEW w \in Worker, LeavePool(w) PROVE TaskInv'
  BY <1>19, <1>p DEF LeavePool
<1>20. ASSUME NEW c \in Conn, Accept(c) PROVE TaskInv'
  <2> DEFINE t == [kind |-> "establish", conn |-> c]
  <2>1. /\ conn[c] = "backlog"
        /\ conn' = [conn EXCEPT ![c] = "queued"]
        /\ pending' = [pending EXCEPT ![next_index_] = Append(pending[next_index_], t)]
        /\ UNCHANGED tasks
    BY <1>20 DEF Accept
  <2>2. t \in Task /\ t.conn = c
    BY DEF Task
  <2> HIDE DEF t
  <2>3. \A d \in Conn : conn[d] = "queued" => conn'[d] = "queued" /\ d # c
    BY <1>t, <2>1
  <2>4. conn'[c] = "queued"
    BY <1>t, <2>1
  <2>5. ASSUME NEW j \in Loop, NEW k \in DOMAIN pending'[j]
        PROVE  \/ k \in DOMAIN pending[j] /\ pending'[j][k] = pending[j][k]
               \/ k \notin DOMAIN pending[j] /\ k = Len(pending[j]) + 1 /\ pending'[j][k] = t
    BY <1>t, <2>1, <2>2, <2>5, PostIs
  <2>6. ASSUME NEW j \in Loop, NEW k \in DOMAIN pending[j], IsNew(pending[j][k])
        PROVE  conn'[pending[j][k].conn] = "queued" /\ pending[j][k].conn # c
    BY <1>0, <1>c, <2>3, <2>6 DEF TaskInv
  <2>7. ASSUME NEW j \in Loop, NEW k \in DOMAIN tasks[j], IsNew(tasks[j][k])
        PROVE  conn'[tasks[j][k].conn] = "queued" /\ tasks[j][k].conn # c
    BY <1>0, <1>c, <2>3, <2>7 DEF TaskInv
  <2>8. ASSUME NEW j \in Loop, NEW k \in DOMAIN pending'[j], NEW n \in DOMAIN pending'[j],
               IsNew(pending'[j][k]), IsNew(pending'[j][n]), k # n
        PROVE  pending'[j][k].conn # pending'[j][n].conn
    <3>1. CASE k \in DOMAIN pending[j] /\ n \in DOMAIN pending[j]
      BY <1>0, <2>5, <2>8, <3>1 DEF TaskInv
    <3>2. CASE k \notin DOMAIN pending[j]
      BY <2>2, <2>5, <2>6, <2>8, <3>2
    <3>3. CASE n \notin DOMAIN pending[j]
      BY <2>2, <2>5, <2>6, <2>8, <3>3
    <3>4. QED
      BY <3>1, <3>2, <3>3
  <2>9. ASSUME NEW j \in Loop, NEW k \in DOMAIN pending'[j], IsNew(pending'[j][k])
        PROVE  conn'[pending'[j][k].conn] = "queued"
    BY <2>2, <2>4, <2>5, <2>6, <2>9
  <2>10. ASSUME NEW j \in Loop, NEW k \in DOMAIN tasks[j], NEW n \in DOMAIN pending'[j],
                IsNew(tasks[j][k]), IsNew(pending'[j][n])
         PROVE  tasks[j][k].conn # pending'[j][n].conn
    BY <1>0, <2>2, <2>5, <2>7, <2>10 DEF TaskInv
  <2>11. QED
    BY <1>0, <2>1, <2>7, <2>8, <2>9, <2>10 DEF TaskInv
<1>21. ASSUME NEW c \in Conn, AcceptDrops(c) PROVE TaskInv'
  BY <1>21, <1>p, <1>t DEF AcceptDrops
<1>22. ASSUME NEW c \in Conn, CloseIdle(c) PROVE TaskInv'
  BY <1>22, <1>p, <1>t DEF CloseIdle, Close
<1>23. ASSUME NEW c \in Conn, ClientConnects(c) PROVE TaskInv'
  BY <1>23, <1>p, <1>t DEF ClientConnects
<1>24. ASSUME NEW c \in Conn, ClientSends(c) PROVE TaskInv'
  BY <1>24, <1>p DEF ClientSends
<1>25. ASSUME NEW c \in Conn, ClientEnds(c) PROVE TaskInv'
  BY <1>25, <1>p DEF ClientEnds
<1>26. CASE UNCHANGED vars
  BY <1>26, <1>p DEF vars
<1>27. QED
  BY <1>1, <1>2, <1>3, <1>4, <1>5, <1>6, <1>7, <1>8, <1>9, <1>10, <1>11, <1>12,
     <1>13, <1>14, <1>15, <1>16, <1>17, <1>18, <1>19, <1>20, <1>21, <1>22,
     <1>23, <1>24, <1>25, <1>26 DEF Next, MainStep, LoopStep, WorkerStep

LEMMA WakeupStep == ASSUME IInv, [Next]_vars PROVE WakeupInv'
<1> USE ServerAssumption DEF WakeupInv, mainVars, loopVars, poolVars, connVars
<1>0. WakeupInv
  BY DEF IInv
<1>t. /\ tasks \in [Loop -> Seq(Task)]
      /\ thread \in [Loop -> {"none", "made", "check", "wait", "dispatch", "left", "reset", "gone"}]
      /\ batch \in [Loop -> SUBSET (Event \cup {Wakeup})]
  BY DEF IInv, TypeOK
<1>n. main = "launching" /\ at <= LoopCount => at \in Loop /\ thread[at] = "none"
  BY DEF IInv, TypeOK, PhaseInv, Loop
<1>1. CASE LaunchThread
  BY <1>1, <1>0, <1>t, <1>n DEF LaunchThread
<1>2. CASE LaunchFails
  BY <1>2, <1>0, <1>t DEF LaunchFails
<1>3. CASE StartReturns
  BY <1>3, <1>0, <1>t DEF StartReturns
<1>4. CASE JoinWorkers
  BY <1>4, <1>0, <1>t DEF JoinWorkers
<1>5. CASE QuitLoop
  BY <1>5, <1>0, <1>t DEF QuitLoop
<1>6. CASE JoinThread
  BY <1>6, <1>0, <1>t DEF JoinThread
<1>7. CASE ListenError
  BY <1>7, <1>0, <1>t DEF ListenError
<1>8. ASSUME NEW i \in Loop, Publish(i) PROVE WakeupInv'
  BY <1>8, <1>0, <1>t DEF Publish
<1>9. ASSUME NEW i \in Loop, CheckQuit(i) PROVE WakeupInv'
  BY <1>9, <1>0, <1>t DEF CheckQuit
<1>10. ASSUME NEW i \in Loop, WaitReturns(i) PROVE WakeupInv'
  BY <1>10, <1>0, <1>t DEF WaitReturns
<1>11. ASSUME NEW i \in Loop, DispatchWakeup(i) PROVE WakeupInv'
  BY <1>11, <1>0, <1>t DEF DispatchWakeup, Dispatching
<1>12. ASSUME NEW i \in Loop, RunTask(i) PROVE WakeupInv'
  <2>1. tasks[i] # <<>> /\ tasks' = [tasks EXCEPT ![i] = Tail(tasks[i])]
    BY <1>12, TaskIs
  <2>2. UNCHANGED <<batch, thread>>
    BY <1>12 DEF RunTask
  <2>3. QED
    BY <1>0, <1>t, <2>1, <2>2
<1>13. ASSUME NEW i \in Loop, EndDispatch(i) PROVE WakeupInv'
  BY <1>13, <1>0, <1>t DEF EndDispatch, Dispatching
<1>14. ASSUME NEW i \in Loop, Retract(i) PROVE WakeupInv'
  BY <1>14, <1>0, <1>t DEF Retract
<1>15. ASSUME NEW i \in Loop, DestroyLoop(i) PROVE WakeupInv'
  BY <1>15, <1>0, <1>t DEF DestroyLoop
<1>16. ASSUME NEW i \in Loop, NEW e \in batch[i], DispatchEvent(i, e) PROVE WakeupInv'
  <2>1. batch' = [batch EXCEPT ![i] = batch[i] \ {e}] /\ UNCHANGED <<thread, tasks>>
    BY <1>16 DEF DispatchEvent
  <2>2. QED
    BY <1>0, <1>t, <2>1
<1>17. ASSUME NEW w \in Worker, Take(w) PROVE WakeupInv'
  BY <1>17, <1>0, <1>t DEF Take
<1>18. ASSUME NEW w \in Worker, Complete(w) PROVE WakeupInv'
  BY <1>18, <1>0, <1>t DEF Complete
<1>19. ASSUME NEW w \in Worker, LeavePool(w) PROVE WakeupInv'
  BY <1>19, <1>0, <1>t DEF LeavePool
<1>20. ASSUME NEW c \in Conn, Accept(c) PROVE WakeupInv'
  BY <1>20, <1>0, <1>t DEF Accept
<1>21. ASSUME NEW c \in Conn, AcceptDrops(c) PROVE WakeupInv'
  BY <1>21, <1>0, <1>t DEF AcceptDrops
<1>22. ASSUME NEW c \in Conn, CloseIdle(c) PROVE WakeupInv'
  BY <1>22, <1>0, <1>t DEF CloseIdle
<1>23. ASSUME NEW c \in Conn, ClientConnects(c) PROVE WakeupInv'
  BY <1>23, <1>0, <1>t DEF ClientConnects
<1>24. ASSUME NEW c \in Conn, ClientSends(c) PROVE WakeupInv'
  BY <1>24, <1>0, <1>t DEF ClientSends
<1>25. ASSUME NEW c \in Conn, ClientEnds(c) PROVE WakeupInv'
  BY <1>25, <1>0, <1>t DEF ClientEnds
<1>26. CASE UNCHANGED vars
  BY <1>26, <1>0 DEF vars
<1>27. QED
  BY <1>1, <1>2, <1>3, <1>4, <1>5, <1>6, <1>7, <1>8, <1>9, <1>10, <1>11, <1>12,
     <1>13, <1>14, <1>15, <1>16, <1>17, <1>18, <1>19, <1>20, <1>21, <1>22,
     <1>23, <1>24, <1>25, <1>26 DEF Next, MainStep, LoopStep, WorkerStep

\* An event of the batch reaches the connection it was reported for, or none.
LEMMA EventReaches ==
    ASSUME IInv, NEW i \in Loop, NEW e \in batch[i] \ {Wakeup}, NEW c \in Registered(i),
           fd[c] = e.fd
    PROVE  c = e.conn
<1>1. e \in Event /\ e.conn \in Conn
  BY DEF IInv, TypeOK, Event
<1>2. c \in Conn /\ conn[c] = "open" /\ home[c] = i
  BY DEF Registered
<1>3. fd[e.conn] = e.fd /\ (conn[e.conn] = "open" \/ Stale(i, e))
  BY DEF IInv, BatchInv
<1>4. ~Stale(i, e)
  BY <1>2 DEF Stale
<1>5. QED
  BY <1>1, <1>2, <1>3, <1>4 DEF IInv, FdInv

LEMMA BatchStep == ASSUME IInv, [Next]_vars PROVE BatchInv'
<1> USE ServerAssumption DEF mainVars, loopVars, poolVars, connVars
<1>0. HomeInv /\ FdInv /\ WakeupInv
  BY DEF IInv
<1>t. /\ tasks \in [Loop -> Seq(Task)]
      /\ batch \in [Loop -> SUBSET (Event \cup {Wakeup})]
      /\ conn \in [Conn -> {"client", "backlog", "queued", "open", "closed"}]
      /\ home \in [Conn -> 0..LoopCount]
      /\ fd \in [Conn -> 0..MaxFd]
  BY DEF IInv, TypeOK
<1>b. \A i \in Loop : \A e \in batch[i] \ {Wakeup} :
         /\ e \in Event /\ e.conn \in Conn
         /\ fd[e.conn] = e.fd /\ home[e.conn] = i
         /\ conn[e.conn] = "open" \/ Stale(i, e)
  BY <1>t DEF IInv, BatchInv, Event
<1>c. \A i \in Loop : \A k \in DOMAIN tasks[i] :
         /\ tasks[i][k].conn \in Conn /\ home[tasks[i][k].conn] = i
         /\ IsNew(tasks[i][k]) => conn[tasks[i][k].conn] = "queued"
  BY TasksTyped DEF IInv, HomeInv, TaskInv
<1>h. \A i \in Loop : i # 0
  BY DEF Loop
\* A step that leaves the connections with a loop as they are.
<1>p. ASSUME UNCHANGED <<tasks, batch>>,
             \A d \in Conn : home[d] # 0 =>
                home'[d] = home[d] /\ fd'[d] = fd[d] /\ conn'[d] = conn[d],
             \A d \in Conn : home[d] = 0 => conn'[d] # "open"
      PROVE  BatchInv'
  <2>1. ASSUME NEW i \in Loop, NEW e \in batch[i] \ {Wakeup}
        PROVE  /\ fd'[e.conn] = e.fd /\ home'[e.conn] = i
               /\ conn'[e.conn] = "open" \/ Stale(i, e)'
    <3>1. home[e.conn] # 0 /\ e.conn \in Conn
      BY <1>b, <1>h, <2>1
    <3>2. CASE conn[e.conn] = "open"
      BY <1>b, <1>p, <2>1, <3>1, <3>2
    <3>3. CASE Stale(i, e)
      <4>1. conn'[e.conn] = "closed" /\ Wakeup \notin batch'[i]
        BY <1>p, <3>1, <3>3 DEF Stale
      <4>2. \A c \in Conn : conn'[c] = "open" /\ home'[c] = i => fd'[c] # e.fd
        BY <1>p, <3>3 DEF Stale
      <4>3. \A k \in DOMAIN tasks[i] : IsNew(tasks[i][k]) => fd'[tasks[i][k].conn] # e.fd
        BY <1>c, <1>h, <1>p, <3>3 DEF Stale
      <4>4. QED
        BY <1>b, <1>p, <2>1, <3>1, <4>1, <4>2, <4>3 DEF Stale
    <3>4. QED
      BY <1>b, <2>1, <3>2, <3>3
  <2>2. QED
    BY <1>p, <2>1 DEF BatchInv
<1>q. ASSUME UNCHANGED <<tasks, batch, conn, home, fd>> PROVE BatchInv'
  BY <1>q DEF IInv, BatchInv, Stale
<1>1. CASE LaunchThread
  BY <1>1, <1>q DEF LaunchThread
<1>2. CASE LaunchFails
  BY <1>2, <1>q DEF LaunchFails
<1>3. CASE StartReturns
  BY <1>3, <1>q DEF StartReturns
<1>4. CASE JoinWorkers
  BY <1>4, <1>q DEF JoinWorkers
<1>5. CASE QuitLoop
  BY <1>5, <1>q DEF QuitLoop
<1>6. CASE JoinThread
  BY <1>6, <1>q DEF JoinThread
<1>7. CASE ListenError
  BY <1>7, <1>q DEF ListenError
<1>8. ASSUME NEW i \in Loop, Publish(i) PROVE BatchInv'
  BY <1>8, <1>q DEF Publish
<1>9. ASSUME NEW i \in Loop, CheckQuit(i) PROVE BatchInv'
  BY <1>9, <1>q DEF CheckQuit
<1>10. ASSUME NEW i \in Loop, WaitReturns(i) PROVE BatchInv'
  <2>1. thread[i] = "wait" /\ batch' = [batch EXCEPT ![i] = Reported(i)]
        /\ UNCHANGED <<tasks, conn, home, fd>>
    BY <1>10 DEF WaitReturns
  <2>2. ASSUME NEW e \in Reported(i), e # Wakeup
        PROVE  fd[e.conn] = e.fd /\ home[e.conn] = i /\ conn[e.conn] = "open"
    BY <2>2 DEF Reported, Registered
  <2>3. \A j \in Loop : batch'[j] = (IF j = i THEN Reported(i) ELSE batch[j])
    BY <1>t, <2>1
  <2>4. QED
    BY <2>1, <2>2, <2>3 DEF BatchInv, IInv, Stale
<1>11. ASSUME NEW i \in Loop, DispatchWakeup(i) PROVE BatchInv'
  <2>1. /\ Wakeup \in batch[i]
        /\ batch' = [batch EXCEPT ![i] = batch[i] \ {Wakeup}]
        /\ tasks' = [tasks EXCEPT ![i] = pending[i]]
        /\ UNCHANGED <<conn, home, fd>>
    BY <1>11 DEF DispatchWakeup
  <2>2. \A e \in batch[i] \ {Wakeup} : conn[e.conn] = "open"
    BY <1>b, <2>1 DEF Stale
  <2>3. \A j \in Loop : j # i => batch'[j] = batch[j] /\ tasks'[j] = tasks[j]
    BY <1>t, <2>1
  <2>4. batch'[i] = batch[i] \ {Wakeup}
    BY <1>t, <2>1
  <2>5. QED
    BY <1>b, <2>1, <2>2, <2>3, <2>4 DEF BatchInv, Stale
<1>12. ASSUME NEW i \in Loop, RunTask(i) PROVE BatchInv'
  <2>1. /\ tasks[i] # <<>> /\ tasks[i] \in Seq(Task)
        /\ tasks' = [tasks EXCEPT ![i] = Tail(tasks[i])]
        /\ \/ IsNew(tasks[i][1]) /\ conn' = [conn EXCEPT ![tasks[i][1].conn] = "open"]
           \/ conn' = conn
           \/ conn[tasks[i][1].conn] = "open" /\ conn' = [conn EXCEPT ![tasks[i][1].conn] = "closed"]
    BY <1>12, TaskIs
  <2>2. UNCHANGED <<batch, home, fd>>
    BY <1>12 DEF RunTask
  <2> DEFINE c == tasks[i][1].conn
  <2>3. 1 \in DOMAIN tasks[i] /\ c \in Conn /\ home[c] = i /\ Wakeup \notin batch[i]
        /\ (IsNew(tasks[i][1]) => conn[c] = "queued")
    BY <1>0, <1>c, <2>1, TailIs DEF WakeupInv
  <2>4. \A d \in Conn : d # c => conn'[d] = conn[d]
    BY <1>t, <2>1
  <2>5. conn'[c] = conn[c] \/ (conn[c] = "queued" /\ IsNew(tasks[i][1])) \/ (conn[c] = "open" /\ conn'[c] = "closed")
    BY <1>t, <2>1, <2>3
  <2>6. \A j \in Loop : \A k \in DOMAIN tasks'[j] : \E m \in DOMAIN tasks[j] :
           tasks'[j][k] = tasks[j][m]
    <3>1. \A j \in Loop : tasks'[j] = (IF j = i THEN Tail(tasks[i]) ELSE tasks[j])
      BY <1>t, <2>1
    <3>2. \A k \in DOMAIN Tail(tasks[i]) :
             k + 1 \in DOMAIN tasks[i] /\ Tail(tasks[i])[k] = tasks[i][k + 1]
      BY <2>1, TailIs
    <3>3. QED
      BY <3>1, <3>2
  <2>7. conn[c] = "queued" /\ IsNew(tasks[i][1]) =>
           \A e \in batch[i] \ {Wakeup} : Stale(i, e) => fd[c] # e.fd
    BY <2>3 DEF Stale, c
  <2> HIDE DEF c
  <2>8. ASSUME NEW j \in Loop, NEW e \in batch[j] \ {Wakeup}
        PROVE  conn'[e.conn] = "open" \/ Stale(j, e)'
    <3>1. e.conn \in Conn /\ fd[e.conn] = e.fd /\ home[e.conn] = j
      BY <1>b, <2>8
    <3>2. CASE conn[e.conn] = "open" /\ e.conn # c
      BY <2>4, <3>1, <3>2
    <3>3. CASE conn[e.conn] = "open" /\ e.conn = c
      <4>1. j = i
        BY <2>3, <3>1, <3>3
      <4>2. CASE conn'[c] = "open"
        BY <3>3, <4>2
      <4>3. CASE conn'[c] = "closed"
        <5>1. \A d \in Conn : conn'[d] = "open" /\ home[d] = i => fd[d] # e.fd
          BY <1>0, <2>4, <3>1, <3>3, <4>3 DEF FdInv
        <5>2. \A k \in DOMAIN tasks[i] : IsNew(tasks[i][k]) => fd[tasks[i][k].conn] # e.fd
          BY <1>0, <1>c, <3>1, <3>3 DEF FdInv
        <5>3. \A k \in DOMAIN tasks'[i] : IsNew(tasks'[i][k]) => fd[tasks'[i][k].conn] # e.fd
          BY <2>6, <5>2
        <5>4. QED
          BY <2>2, <2>3, <3>3, <4>1, <4>3, <5>1, <5>3 DEF Stale
      <4>4. QED
        BY <2>5, <3>3, <4>2, <4>3
    <3>4. CASE Stale(j, e)
      <4>1. conn[e.conn] = "closed" /\ Wakeup \notin batch[j]
        BY <3>4 DEF Stale
      <4>2. conn'[e.conn] = "closed"
        BY <2>4, <2>5, <3>1, <4>1
      <4>3. ASSUME NEW d \in Conn, conn'[d] = "open", home[d] = j PROVE fd[d] # e.fd
        <5>1. CASE conn[d] = "open"
          BY <3>4, <4>3, <5>1 DEF Stale
        <5>2. CASE d = c /\ conn[c] = "queued" /\ IsNew(tasks[i][1])
          BY <2>3, <2>7, <2>8, <3>4, <4>3, <5>2
        <5>3. QED
          BY <2>4, <2>5, <4>3, <5>1, <5>2
      <4>4. \A k \in DOMAIN tasks'[j] : IsNew(tasks'[j][k]) => fd[tasks'[j][k].conn] # e.fd
        BY <2>6, <3>4 DEF Stale
      <4>5. QED
        BY <2>2, <4>1, <4>2, <4>3, <4>4 DEF Stale
    <3>5. QED
      BY <1>b, <2>8, <3>2, <3>3, <3>4
  <2>9. QED
    BY <1>b, <2>2, <2>8 DEF BatchInv
<1>13. ASSUME NEW i \in Loop, EndDispatch(i) PROVE BatchInv'
  BY <1>13, <1>q DEF EndDispatch
<1>14. ASSUME NEW i \in Loop, Retract(i) PROVE BatchInv'
  BY <1>14, <1>q DEF Retract
<1>15. ASSUME NEW i \in Loop, DestroyLoop(i) PROVE BatchInv'
  BY <1>15, <1>q DEF DestroyLoop
<1>16. ASSUME NEW i \in Loop, NEW e \in batch[i], DispatchEvent(i, e) PROVE BatchInv'
  <2>1. e # Wakeup /\ batch' = [batch EXCEPT ![i] = batch[i] \ {e}] /\ UNCHANGED <<tasks, home, fd>>
    BY <1>16 DEF DispatchEvent
  <2>2. \A j \in Loop : batch'[j] = (IF j = i THEN batch[i] \ {e} ELSE batch[j])
    BY <1>t, <2>1
  <2>3. \A d \in Conn : conn'[d] = conn[d] \/ (conn[d] = "open" /\ conn'[d] = "closed")
    BY <1>16, EventOpens
  <2>4. \A d \in Conn : conn'[d] # conn[d] => d = e.conn
    <3>1. conn' = conn \/ \E c \in Registered(i) : fd[c] = e.fd /\ conn' = [conn EXCEPT ![c] = "closed"]
      BY <1>16, DispatchIs
    <3>2. conn' = conn \/ conn' = [conn EXCEPT ![e.conn] = "closed"]
      BY <2>1, <3>1, EventReaches
    <3>3. QED
      BY <1>t, <3>2
  <2>5. ASSUME NEW j \in Loop, NEW g \in batch'[j] \ {Wakeup}
        PROVE  conn'[g.conn] = "open" \/ Stale(j, g)'
    <3>1. g \in batch[j] \ {Wakeup} /\ (j = i => g # e)
      BY <2>2, <2>5
    <3>2. /\ g \in Event /\ g.conn \in Conn /\ fd[g.conn] = g.fd /\ home[g.conn] = j
          /\ e \in Event /\ e.conn \in Conn /\ fd[e.conn] = e.fd /\ home[e.conn] = i
      BY <1>b, <2>1, <3>1
    <3>3. g.conn # e.conn
      BY <3>1, <3>2 DEF Event
    <3>4. conn'[g.conn] = conn[g.conn]
      BY <2>4, <3>2, <3>3
    <3>5. CASE Stale(j, g)
      <4>1. \A d \in Conn : conn'[d] = "open" => conn[d] = "open"
        BY <2>3
      <4>2. Wakeup \notin batch'[j]
        BY <2>2, <3>5 DEF Stale
      <4>3. QED
        BY <2>1, <3>4, <3>5, <4>1, <4>2 DEF Stale
    <3>6. QED
      BY <1>b, <3>1, <3>4, <3>5
  <2>6. \A j \in Loop : batch'[j] \subseteq batch[j]
    BY <2>2
  <2>7. QED
    BY <1>b, <2>1, <2>5, <2>6 DEF BatchInv
<1>17. ASSUME NEW w \in Worker, Take(w) PROVE BatchInv'
  BY <1>17, <1>q DEF Take
<1>18. ASSUME NEW w \in Worker, Complete(w) PROVE BatchInv'
  BY <1>18, <1>q DEF Complete
<1>19. ASSUME NEW w \in Worker, LeavePool(w) PROVE BatchInv'
  BY <1>19, <1>q DEF LeavePool
<1>20. ASSUME NEW c \in Conn, Accept(c) PROVE BatchInv'
  <2>1. PICK f \in Fd : fd' = [fd EXCEPT ![c] = f]
    BY <1>20 DEF Accept
  <2>2. /\ conn[c] = "backlog" /\ conn' = [conn EXCEPT ![c] = "queued"]
        /\ home' = [home EXCEPT ![c] = next_index_]
        /\ UNCHANGED <<tasks, batch>>
    BY <1>20 DEF Accept
  <2>3. home[c] = 0 /\ \A d \in Conn : conn[d] = "open" => home[d] # 0
    BY <1>0, <2>2 DEF HomeInv
  <2>4. \A d \in Conn : d # c => home'[d] = home[d] /\ fd'[d] = fd[d] /\ conn'[d] = conn[d]
    BY <1>t, <2>1, <2>2
  <2>5. conn'[c] # "open"
    BY <1>t, <2>2
  <2>6. QED
    BY <1>p, <2>2, <2>3, <2>4, <2>5
<1>21. ASSUME NEW c \in Conn, AcceptDrops(c) PROVE BatchInv'
  <2>1. /\ conn[c] = "backlog" /\ conn' = [conn EXCEPT ![c] = "closed"]
        /\ UNCHANGED <<tasks, batch, home, fd>>
    BY <1>21 DEF AcceptDrops
  <2>2. home[c] = 0 /\ \A d \in Conn : conn[d] = "open" => home[d] # 0
    BY <1>0, <2>1 DEF HomeInv
  <2>3. \A d \in Conn : conn'[d] = (IF d = c THEN "closed" ELSE conn[d])
    BY <1>t, <2>1
  <2>4. QED
    BY <1>p, <2>1, <2>2, <2>3
<1>22. ASSUME NEW c \in Conn, CloseIdle(c) PROVE BatchInv'
  <2>1. /\ conn[c] = "open" /\ conn' = [conn EXCEPT ![c] = "closed"] /\ batch[home[c]] = {}
        /\ UNCHANGED <<tasks, batch, home, fd>>
    BY <1>22 DEF CloseIdle, Close
  <2>2. \A d \in Conn : conn'[d] = (IF d = c THEN "closed" ELSE conn[d])
    BY <1>t, <2>1
  <2>3. ASSUME NEW i \in Loop, NEW e \in batch[i] \ {Wakeup}
        PROVE  conn'[e.conn] = "open" \/ Stale(i, e)'
    <3>1. e.conn \in Conn /\ home[e.conn] = i
      BY <1>b, <2>3
    <3>2. e.conn # c
      BY <2>1, <2>3, <3>1
    <3>3. conn[e.conn] = "open" \/ Stale(i, e)
      BY <1>b, <2>3
    <3>4. QED
      BY <2>1, <2>2, <3>1, <3>2, <3>3 DEF Stale
  <2>4. QED
    BY <1>b, <2>1, <2>3 DEF BatchInv
<1>23. ASSUME NEW c \in Conn, ClientConnects(c) PROVE BatchInv'
  <2>1. /\ conn[c] = "client" /\ conn' = [conn EXCEPT ![c] = "backlog"]
        /\ UNCHANGED <<tasks, batch, home, fd>>
    BY <1>23 DEF ClientConnects
  <2>2. home[c] = 0 /\ \A d \in Conn : conn[d] = "open" => home[d] # 0
    BY <1>0, <2>1 DEF HomeInv
  <2>3. \A d \in Conn : conn'[d] = (IF d = c THEN "backlog" ELSE conn[d])
    BY <1>t, <2>1
  <2>4. QED
    BY <1>p, <2>1, <2>2, <2>3
<1>24. ASSUME NEW c \in Conn, ClientSends(c) PROVE BatchInv'
  BY <1>24, <1>q DEF ClientSends
<1>25. ASSUME NEW c \in Conn, ClientEnds(c) PROVE BatchInv'
  BY <1>25, <1>q DEF ClientEnds
<1>26. CASE UNCHANGED vars
  BY <1>26, <1>q DEF vars
<1>27. QED
  BY <1>1, <1>2, <1>3, <1>4, <1>5, <1>6, <1>7, <1>8, <1>9, <1>10, <1>11, <1>12,
     <1>13, <1>14, <1>15, <1>16, <1>17, <1>18, <1>19, <1>20, <1>21, <1>22,
     <1>23, <1>24, <1>25, <1>26 DEF Next, MainStep, LoopStep, WorkerStep

--------------------------------------------------------------------------------
(* The theorems.                                                             *)

LEMMA Invariance == Spec => []IInv
<1>1. ASSUME IInv, [Next]_vars PROVE IInv'
  BY <1>1, TypeStep, BoundsStep, LoopStepInv, PhaseStep, HomeStep, FdStep, TaskStep, WakeupStep,
     BatchStep DEF IInv
<1>2. QED
  BY <1>1, InitInv, PTL DEF Spec

\* The variables of the server always have their types: a connection is on a loop
\* that exists, and descriptors and queues hold what they may (main.cpp,
\* serveWithEventLoop).
THEOREM TypeCorrect == Spec => []TypeOK
<1>1. IInv => TypeOK
  BY DEF IInv
<1>2. QED
  BY <1>1, Invariance, PTL

\* The address in an EventLoopThread is that of a loop that exists: it is set once
\* the loop is constructed, and taken back, under the mutex, before the loop is
\* destroyed (EventLoopThread.cpp, threadMain).
THEOREM PublishedLoops == Spec => []PublishedIsAlive
<1>1. IInv => PublishedIsAlive
  BY DEF IInv, LoopInv, PublishedIsAlive, Alive
<1>2. QED
  BY <1>1, Invariance, PTL

\* A worker with a result finds the loop it is for running, and not told to quit,
\* whenever the listening socket failed: ~WorkerPool joins the workers before an
\* EventLoopThread is destroyed (main.cpp, order of the locals).
THEOREM WorkersEndFirst == Spec => []ResultsReachLiveLoops
<1>1. ASSUME IInv, NEW w \in Worker, worker[w] \in Conn
      PROVE  Alive(home[worker[w]]) /\ ~quit_[home[worker[w]]]
  <2>1. home[worker[w]] \in Loop /\ main \notin {"launching", "starting"}
    BY <1>1 DEF IInv, HomeInv, TypeOK, Loop
  <2>2. main \notin {"quitting", "joining", "returned"}
    BY <1>1, ServerAssumption DEF IInv, PhaseInv
  <2>3. main \in {"accepting", "stopping"}
    BY <1>1, <2>1, <2>2 DEF IInv, TypeOK
  <2>4. QED
    BY <1>1, <2>1, <2>2, <2>3 DEF IInv, PhaseInv, Alive
<1>2. IInv => ResultsReachLiveLoops
  BY <1>1 DEF ResultsReachLiveLoops
<1>3. QED
  BY <1>2, Invariance, PTL

\* An event taken from epoll_wait is handled by the connection it was reported for
\* or by none, however descriptors are closed and given out again while the batch
\* is dispatched: a connection becomes part of the loop only by a task, and the
\* tasks run in this batch were there before any of its connections was closed
\* (EventLoop.cpp, dispatch and handleWakeup; main.cpp, the establish task).
THEOREM EventsFindTheirConnection == Spec => EventsReachTheirConnection
<1>1. ASSUME IInv
      PROVE  \A i \in Loop : \A e \in batch[i] \ (batch'[i] \cup {Wakeup}) :
                \A c \in Registered(i) : fd[c] = e.fd => c = e.conn
  BY <1>1, EventReaches
<1>2. QED
  BY <1>1, Invariance, PTL DEF EventsReachTheirConnection
================================================================================
