--------------------------------- MODULE Server ---------------------------------
(* serveWithEventLoop as a whole: the accepting thread, an EventLoopGroup of *)
(* I/O loops each in its EventLoopThread, the WorkerPool, and the clients.   *)
(* The program starts, hands every accepted descriptor to a loop in turn,    *)
(* serves, and on an error of the listening socket leaves the scope, which   *)
(* destroys the pool, then the loops.                                        *)
(*                                                                           *)
(* EventLoop.tla refines the queue and wakeup of a loop used here, and       *)
(* WorkerPool.tla the queue of the pool; TcpConnection.tla has the details of *)
(* a connection, whose sockets are always writable here.                     *)
EXTENDS Naturals, Sequences, FiniteSets

CONSTANTS
    LoopCount,  \* io_loop_count
    Worker,     \* threads of the pool
    Conn,       \* connections that clients may make
    MaxFd,      \* descriptors 1..MaxFd are there for connections
    MaxRequests \* requests a client may send

ASSUME ServerAssumption ==
    /\ LoopCount \in Nat \ {0}      \* the group refuses none
    /\ Worker # {} /\ IsFiniteSet(Worker)
    /\ IsFiniteSet(Conn)
    /\ Conn \cap {"idle", "exited"} = {}     \* see worker
    /\ MaxFd \in Nat /\ MaxRequests \in Nat

Loop == 1..LoopCount
Fd == 1..MaxFd

VARIABLES
    main,           \* where serveWithEventLoop is
    at,             \* the loop it starts, or quits and joins
    next_index_,    \* round robin of the group
    thread,         \* where each I/O thread is
    loop_,          \* its loop is published in the EventLoopThread
    quit_,          \* of each loop
    pending,        \* pending_tasks_ of each loop
    tasks,          \* tasks it has taken and not yet run
    batch,          \* events of epoll_wait it has still to dispatch
    jobs,           \* queue of the pool
    pool,           \* "running", "stopping" or "destroyed"
    worker,         \* what each worker does
    conn,           \* stage of each connection
    home,           \* loop of each connection, 0 before accept
    fd,             \* its descriptor
    inbox,          \* requests in its socket and input buffer
    ended,          \* its client has shut down, or reset it
    unsent,         \* requests its client may still send
    processing,     \* processing_request_
    fate            \* history: what became of the process

mainVars == <<main, at>>
loopVars == <<thread, loop_, quit_, pending, tasks, batch>>
poolVars == <<jobs, pool, worker>>
connVars == <<conn, home, fd, inbox, ended, unsent, processing>>
vars == <<mainVars, next_index_, loopVars, poolVars, connVars, fate>>

Task == [kind : {"establish"}, conn : Conn] \cup [kind : {"finish"}, conn : Conn, close : BOOLEAN]
Event == [conn : Conn, fd : Fd]     \* conn: who had the descriptor when it was reported
Wakeup == [conn |-> "wakeup", fd |-> 0]

TypeOK ==
    /\ main \in {"launching", "starting", "accepting", "stopping", "quitting",
                 "joining", "returned"}
    /\ at \in 1..LoopCount + 1
    /\ next_index_ \in Loop
    /\ thread \in [Loop -> {"none", "made", "check", "wait", "dispatch", "left", "reset", "gone"}]
    /\ loop_ \in [Loop -> BOOLEAN]
    /\ quit_ \in [Loop -> BOOLEAN]
    /\ pending \in [Loop -> Seq(Task)]
    /\ tasks \in [Loop -> Seq(Task)]
    /\ batch \in [Loop -> SUBSET (Event \cup {Wakeup})]
    /\ jobs \in Seq(Conn)
    /\ pool \in {"running", "stopping", "destroyed"}
    /\ worker \in [Worker -> {"idle", "exited"} \cup Conn]
    /\ conn \in [Conn -> {"client", "backlog", "queued", "open", "closed"}]
    /\ home \in [Conn -> 0..LoopCount]
    /\ fd \in [Conn -> 0..MaxFd]
    /\ inbox \in [Conn -> 0..MaxRequests]
    /\ ended \in [Conn -> {"no", "fin", "rst"}]
    /\ unsent \in [Conn -> 0..MaxRequests]
    /\ processing \in [Conn -> BOOLEAN]
    /\ fate \in {"running", "terminated", "undefined"}

Init ==
    /\ main = "launching"
    /\ at = 1
    /\ next_index_ = 1
    /\ thread = [i \in Loop |-> "none"]
    /\ loop_ = [i \in Loop |-> FALSE]
    /\ quit_ = [i \in Loop |-> FALSE]
    /\ pending = [i \in Loop |-> <<>>]
    /\ tasks = [i \in Loop |-> <<>>]
    /\ batch = [i \in Loop |-> {}]
    /\ jobs = <<>>
    /\ pool = "running"
    /\ worker = [w \in Worker |-> "idle"]
    /\ conn = [c \in Conn |-> "client"]
    /\ home = [c \in Conn |-> 0]
    /\ fd = [c \in Conn |-> 0]
    /\ inbox = [c \in Conn |-> 0]
    /\ ended = [c \in Conn |-> "no"]
    /\ unsent = [c \in Conn |-> MaxRequests]
    /\ processing = [c \in Conn |-> FALSE]
    /\ fate = "running"

Running == fate = "running"

--------------------------------------------------------------------------------
(* The main thread: EventLoopGroup::start, then accepting.                   *)

LaunchThread ==
    /\ Running
    /\ main = "launching"
    /\ at <= LoopCount
    /\ thread' = [thread EXCEPT ![at] = "made"]
    /\ main' = "starting"
    /\ UNCHANGED <<at, next_index_, loop_, quit_, pending, tasks, batch, poolVars, connVars,
                   fate>>

\* std::thread throws: the scope is left with the threads started so far; there
\* is no pool yet.
LaunchFails ==
    /\ Running
    /\ main = "launching"
    /\ at <= LoopCount
    /\ main' = "quitting"
    /\ at' = 1
    /\ pool' = "destroyed"
    /\ worker' = [w \in Worker |-> "exited"]
    /\ UNCHANGED <<next_index_, loopVars, jobs, connVars, fate>>

\* The condition variable's predicate: the loop is published.
StartReturns ==
    /\ Running
    /\ main = "starting"
    /\ loop_[at]
    /\ at' = at + 1
    /\ main' = IF at = LoopCount THEN "accepting" ELSE "launching"
    /\ UNCHANGED <<next_index_, loopVars, poolVars, connVars, fate>>

NextLoop == next_index_' = IF next_index_ = LoopCount THEN 1 ELSE next_index_ + 1

UsedFd == {fd[c] : c \in {d \in Conn : conn[d] \in {"queued", "open"}}}

\* The read callback of the listening channel: accept gives the lowest free
\* descriptor, and the next loop is told to establish the connection.
Accept(c) ==
    /\ Running
    /\ main = "accepting"
    /\ conn[c] = "backlog"
    /\ \E f \in Fd \ UsedFd :
          /\ \A g \in Fd \ UsedFd : f <= g
          /\ fd' = [fd EXCEPT ![c] = f]
    /\ conn' = [conn EXCEPT ![c] = "queued"]
    /\ home' = [home EXCEPT ![c] = next_index_]
    /\ pending' = [pending EXCEPT ![next_index_] = Append(@, [kind |-> "establish", conn |-> c])]
    /\ NextLoop
    /\ UNCHANGED <<mainVars, thread, loop_, quit_, tasks, batch, poolVars, inbox, ended,
                   unsent, processing, fate>>

\* A descriptor that cannot be made nonblocking is closed.
AcceptDrops(c) ==
    /\ Running
    /\ main = "accepting"
    /\ conn[c] = "backlog"
    /\ Fd \ UsedFd # {}
    /\ conn' = [conn EXCEPT ![c] = "closed"]
    /\ UNCHANGED <<mainVars, next_index_, loopVars, poolVars, home, fd, inbox, ended, unsent,
                   processing, fate>>

--------------------------------------------------------------------------------
(* The main thread: the error callback quits accept_loop and the scope is    *)
(* left: ~WorkerPool, then ~EventLoopThread for each loop in turn.           *)

\* Fault: the loops are destroyed before the workers.
Faulty_ListenError ==
    /\ Running
    /\ main = "accepting"
    /\ main' = "quitting"
    /\ at' = 1
    /\ UNCHANGED <<next_index_, loopVars, poolVars, connVars, fate>>

ListenError ==
    /\ Running
    /\ main = "accepting"
    /\ main' = "stopping"
    /\ pool' = "stopping"
    /\ UNCHANGED <<at, next_index_, loopVars, jobs, worker, connVars, fate>>

JoinWorkers ==
    /\ Running
    /\ main = "stopping"
    /\ \A w \in Worker : worker[w] = "exited"
    /\ pool' = "destroyed"
    /\ main' = "quitting"
    /\ at' = 1
    /\ UNCHANGED <<next_index_, loopVars, jobs, worker, connVars, fate>>

\* Fault: the destructor joins without telling the loop to quit.
Faulty_QuitLoop ==
    /\ Running
    /\ main = "quitting" /\ at <= LoopCount
    /\ main' = "joining"
    /\ UNCHANGED <<at, next_index_, loopVars, poolVars, connVars, fate>>

QuitLoop ==
    /\ Running
    /\ main = "quitting" /\ at <= LoopCount
    /\ quit_' = [quit_ EXCEPT ![at] = @ \/ loop_[at]]
    /\ main' = "joining"
    /\ UNCHANGED <<at, next_index_, thread, loop_, pending, tasks, batch, poolVars, connVars,
                   fate>>

JoinThread ==
    /\ Running
    /\ main = "joining"
    /\ thread[at] \in {"none", "gone"}
    /\ at' = at + 1
    /\ main' = IF at = LoopCount THEN "returned" ELSE "quitting"
    /\ UNCHANGED <<next_index_, loopVars, poolVars, connVars, fate>>

--------------------------------------------------------------------------------
(* The I/O threads: EventLoopThread::threadMain and EventLoop::loop.         *)

Publish(i) ==
    /\ Running
    /\ thread[i] = "made"
    /\ loop_' = [loop_ EXCEPT ![i] = TRUE]
    /\ thread' = [thread EXCEPT ![i] = "check"]
    /\ UNCHANGED <<mainVars, next_index_, quit_, pending, tasks, batch, poolVars, connVars,
                   fate>>

CheckQuit(i) ==
    /\ Running
    /\ thread[i] = "check"
    /\ thread' = [thread EXCEPT ![i] = IF quit_[i] THEN "left" ELSE "wait"]
    /\ UNCHANGED <<mainVars, next_index_, loop_, quit_, pending, tasks, batch, poolVars,
                   connVars, fate>>

Registered(i) == {c \in Conn : conn[c] = "open" /\ home[c] = i}

\* Fault: queueInLoop does not write to the eventfd.
Faulty_Reported(i) ==
    {[conn |-> c, fd |-> fd[c]] : c \in {d \in Registered(i) : inbox[d] > 0 \/ ended[d] # "no"}}
    \cup (IF quit_[i] THEN {Wakeup} ELSE {})

Reported(i) ==
    {[conn |-> c, fd |-> fd[c]] : c \in {d \in Registered(i) : inbox[d] > 0 \/ ended[d] # "no"}}
    \cup (IF pending[i] # <<>> \/ quit_[i] THEN {Wakeup} ELSE {})

WaitReturns(i) ==
    /\ Running
    /\ thread[i] = "wait"
    /\ Reported(i) # {}
    /\ batch' = [batch EXCEPT ![i] = Reported(i)]
    /\ thread' = [thread EXCEPT ![i] = "dispatch"]
    /\ UNCHANGED <<mainVars, next_index_, loop_, quit_, pending, tasks, poolVars, connVars,
                   fate>>

Dispatching(i) == thread[i] = "dispatch" /\ tasks[i] = <<>>

\* Fault: tasks posted while the loop handles the wakeup are run at once.
Faulty_DispatchWakeup(i) ==
    /\ Running
    /\ Dispatching(i)
    /\ Wakeup \in batch[i]
    /\ batch' = [batch EXCEPT ![i] = IF pending[i] = <<>> THEN @ \ {Wakeup} ELSE @]
    /\ tasks' = [tasks EXCEPT ![i] = pending[i]]
    /\ pending' = [pending EXCEPT ![i] = <<>>]
    /\ UNCHANGED <<mainVars, next_index_, thread, loop_, quit_, poolVars, connVars, fate>>

DispatchWakeup(i) ==
    /\ Running
    /\ Dispatching(i)
    /\ Wakeup \in batch[i]
    /\ batch' = [batch EXCEPT ![i] = @ \ {Wakeup}]
    /\ tasks' = [tasks EXCEPT ![i] = pending[i]]
    /\ pending' = [pending EXCEPT ![i] = <<>>]
    /\ UNCHANGED <<mainVars, next_index_, thread, loop_, quit_, poolVars, connVars, fate>>

EndDispatch(i) ==
    /\ Running
    /\ Dispatching(i)
    /\ batch[i] = {}
    /\ thread' = [thread EXCEPT ![i] = "check"]
    /\ UNCHANGED <<mainVars, next_index_, loop_, quit_, pending, tasks, batch, poolVars,
                   connVars, fate>>

\* Fault: the thread ends without taking the loop's address back.
Faulty_Retract(i) ==
    /\ Running
    /\ thread[i] = "left"
    /\ thread' = [thread EXCEPT ![i] = "reset"]
    /\ UNCHANGED <<mainVars, next_index_, loop_, quit_, pending, tasks, batch, poolVars,
                   connVars, fate>>

Retract(i) ==
    /\ Running
    /\ thread[i] = "left"
    /\ loop_' = [loop_ EXCEPT ![i] = FALSE]
    /\ thread' = [thread EXCEPT ![i] = "reset"]
    /\ UNCHANGED <<mainVars, next_index_, quit_, pending, tasks, batch, poolVars, connVars,
                   fate>>

\* The loop is destroyed with what it still holds: tasks and channels.
DestroyLoop(i) ==
    /\ Running
    /\ thread[i] = "reset"
    /\ thread' = [thread EXCEPT ![i] = "gone"]
    /\ pending' = [pending EXCEPT ![i] = <<>>]
    /\ UNCHANGED <<mainVars, next_index_, loop_, quit_, tasks, batch, poolVars, connVars,
                   fate>>

--------------------------------------------------------------------------------
(* Connections, on the thread of their loop.                                 *)

\* processRequest: a stopping pool refuses with an exception that nobody on the
\* I/O thread catches, and a destroyed one is no longer there to be called.
Submit(c) ==
    /\ processing' = [processing EXCEPT ![c] = TRUE]
    /\ inbox' = [inbox EXCEPT ![c] = @ - 1]
    /\ IF pool = "running"
       THEN jobs' = Append(jobs, c) /\ UNCHANGED fate
       ELSE /\ fate' = IF pool = "stopping" THEN "terminated" ELSE "undefined"
            /\ UNCHANGED jobs

\* close: the channel leaves the loop and the descriptor is free again.
Close(c) == conn' = [conn EXCEPT ![c] = "closed"]

\* What a connection does next when no request is in progress.
Proceed(c) ==
    \/ /\ inbox[c] > 0
       /\ Submit(c)
       /\ UNCHANGED conn
    \/ /\ inbox[c] = 0 /\ ended[c] # "no"
       /\ Close(c)
       /\ UNCHANGED <<jobs, inbox, fate>>
       /\ processing' = [processing EXCEPT ![c] = FALSE]
    \/ /\ inbox[c] = 0 /\ ended[c] = "no"
       /\ processing' = [processing EXCEPT ![c] = FALSE]
       /\ UNCHANGED <<jobs, inbox, conn, fate>>

\* dispatch: the event goes to whatever connection has the descriptor now.  The
\* reset may come after epoll_wait reported input, so recv may still succeed.
DispatchEvent(i, e) ==
    /\ Running
    /\ Dispatching(i)
    /\ e \in batch[i] \ {Wakeup}
    /\ batch' = [batch EXCEPT ![i] = @ \ {e}]
    /\ \/ /\ \A c \in Registered(i) : fd[c] # e.fd
          /\ UNCHANGED <<jobs, conn, inbox, processing, fate>>
       \/ \E c \in Registered(i) :
             /\ fd[c] = e.fd
             /\ \/ /\ ended[c] = "rst"
                   /\ Close(c)
                   /\ UNCHANGED <<jobs, inbox, processing, fate>>
                \/ /\ processing[c]
                   /\ UNCHANGED <<jobs, conn, inbox, processing, fate>>
                \/ /\ ~processing[c]
                   /\ Proceed(c)
    /\ UNCHANGED <<mainVars, next_index_, thread, loop_, quit_, pending, tasks, pool, worker,
                   home, fd, ended, unsent>>

\* The tasks of a loop: establish a connection, or deliver a result.
RunTask(i) ==
    /\ Running
    /\ tasks[i] # <<>>
    /\ tasks' = [tasks EXCEPT ![i] = Tail(@)]
    /\ LET t == Head(tasks[i])
       IN  \/ /\ t.kind = "establish"
              /\ conn' = [conn EXCEPT ![t.conn] = "open"]
              /\ UNCHANGED <<jobs, inbox, processing, fate>>
           \/ /\ t.kind = "finish" /\ conn[t.conn] = "open"
              /\ IF t.close
                 THEN /\ Close(t.conn)
                      /\ processing' = [processing EXCEPT ![t.conn] = FALSE]
                      /\ UNCHANGED <<jobs, inbox, fate>>
                 ELSE Proceed(t.conn)
           \/ /\ t.kind = "finish" /\ conn[t.conn] # "open"
              /\ UNCHANGED <<jobs, conn, inbox, processing, fate>>
    /\ UNCHANGED <<mainVars, next_index_, thread, loop_, quit_, pending, batch, pool, worker,
                   home, fd, ended, unsent>>

\* closeIfIdle: timers run when the whole batch has been dispatched.
CloseIdle(c) ==
    /\ Running
    /\ conn[c] = "open"
    /\ Dispatching(home[c]) /\ batch[home[c]] = {}
    /\ inbox[c] = 0 /\ ~processing[c]
    /\ Close(c)
    /\ UNCHANGED <<mainVars, next_index_, loopVars, poolVars, home, fd, inbox, ended, unsent,
                   processing, fate>>

--------------------------------------------------------------------------------
(* The workers.                                                              *)

Take(w) ==
    /\ Running
    /\ worker[w] = "idle"
    /\ jobs # <<>>
    /\ worker' = [worker EXCEPT ![w] = Head(jobs)]
    /\ jobs' = Tail(jobs)
    /\ UNCHANGED <<mainVars, next_index_, loopVars, pool, connVars, fate>>

\* complete(): queueInLoop on the loop of the connection, if that still exists.
Complete(w) ==
    /\ Running
    /\ worker[w] \in Conn
    /\ IF conn[worker[w]] = "open"
       THEN \E close \in BOOLEAN :
               pending' = [pending EXCEPT ![home[worker[w]]] =
                  Append(@, [kind |-> "finish", conn |-> worker[w], close |-> close])]
       ELSE UNCHANGED pending
    /\ worker' = [worker EXCEPT ![w] = "idle"]
    /\ UNCHANGED <<mainVars, next_index_, thread, loop_, quit_, tasks, batch, jobs, pool,
                   connVars, fate>>

LeavePool(w) ==
    /\ Running
    /\ worker[w] = "idle"
    /\ pool = "stopping" /\ jobs = <<>>
    /\ worker' = [worker EXCEPT ![w] = "exited"]
    /\ UNCHANGED <<mainVars, next_index_, loopVars, jobs, pool, connVars, fate>>

--------------------------------------------------------------------------------
(* The clients.                                                              *)

ClientConnects(c) ==
    /\ Running
    /\ conn[c] = "client"
    /\ conn' = [conn EXCEPT ![c] = "backlog"]
    /\ UNCHANGED <<mainVars, next_index_, loopVars, poolVars, home, fd, inbox, ended, unsent,
                   processing, fate>>

ClientSends(c) ==
    /\ Running
    /\ conn[c] \in {"backlog", "queued", "open"} /\ ended[c] = "no"
    /\ unsent[c] > 0
    /\ unsent' = [unsent EXCEPT ![c] = @ - 1]
    /\ inbox' = [inbox EXCEPT ![c] = @ + 1]
    /\ UNCHANGED <<mainVars, next_index_, loopVars, poolVars, conn, home, fd, ended, processing,
                   fate>>

ClientEnds(c) ==
    /\ Running
    /\ conn[c] \in {"backlog", "queued", "open"} /\ ended[c] = "no"
    /\ \E how \in {"fin", "rst"} : ended' = [ended EXCEPT ![c] = how]
    /\ UNCHANGED <<mainVars, next_index_, loopVars, poolVars, conn, home, fd, inbox, unsent,
                   processing, fate>>

--------------------------------------------------------------------------------
LoopStep(i) ==
    \/ Publish(i) \/ CheckQuit(i) \/ WaitReturns(i)
    \/ DispatchWakeup(i) \/ RunTask(i) \/ EndDispatch(i)
    \/ Retract(i) \/ DestroyLoop(i)
    \/ \E e \in batch[i] : DispatchEvent(i, e)

WorkerStep(w) == Take(w) \/ Complete(w) \/ LeavePool(w)

MainStep == LaunchThread \/ StartReturns \/ JoinWorkers \/ QuitLoop \/ JoinThread

Next ==
    \/ MainStep \/ LaunchFails \/ ListenError
    \/ \E i \in Loop : LoopStep(i)
    \/ \E w \in Worker : WorkerStep(w)
    \/ \E c \in Conn : \/ Accept(c) \/ AcceptDrops(c) \/ CloseIdle(c)
                       \/ ClientConnects(c) \/ ClientSends(c) \/ ClientEnds(c)

\* All threads are scheduled, and the requests terminate.
Fairness ==
    /\ WF_vars(MainStep)
    /\ \A i \in Loop : WF_vars(LoopStep(i))
    /\ \A w \in Worker : WF_vars(WorkerStep(w))

Spec == Init /\ [][Next]_vars /\ Fairness

--------------------------------------------------------------------------------
(* Properties.                                                               *)

Alive(i) == thread[i] \in {"check", "wait", "dispatch", "left", "reset"}

\* The address in an EventLoopThread is that of a loop that exists, so that the
\* destructor never calls quit() on a dead one (EventLoopThread.cpp, threadMain).
PublishedIsAlive == \A i \in Loop : loop_[i] => Alive(i)

\* No worker delivers a result to a loop that has been told to quit: the pool is
\* destroyed first (main.cpp, serveWithEventLoop: order of the locals).
ResultsReachLiveLoops ==
    \A w \in Worker : worker[w] \in Conn => Alive(home[worker[w]]) /\ ~quit_[home[worker[w]]]

\* An event is never given to another connection than the one it was reported
\* for, though descriptors are reused while batches are being dispatched
\* (EventLoop.cpp, dispatch; main.cpp, the establish task).
EventsReachTheirConnection ==
    [][\A i \in Loop : \A e \in batch[i] \ (batch'[i] \cup {Wakeup}) :
          \A c \in Registered(i) : fd[c] = e.fd => c = e.conn]_vars

\* An accepted connection is established, unless its loop is told to quit.
AcceptedIsEstablished ==
    \A c \in Conn : conn[c] = "queued" ~> conn[c] # "queued" \/ main # "accepting"

\* Leaving the scope ends, or the process dies on the way (see Submit).
ShutdownEnds == main \in {"stopping", "quitting"} ~> main = "returned" \/ ~Running
================================================================================
