----------------------------- MODULE TcpConnection -----------------------------
(* One net::TcpConnection and the loop iteration that drives it: the client  *)
(* at the other end of the socket, the kernel's view of it, the worker that  *)
(* computes a response, and the idle timer.                                  *)
(*                                                                           *)
(* Input is counted in units, ReqLen of them making a request; output is the *)
(* sequence of the units of the responses, so that a missing, repeated or    *)
(* misplaced piece of a response shows.  The task queue of the loop is the   *)
(* FIFO of TaskQueue.tla, which EventLoop.tla implements.                    *)
EXTENDS Naturals, Sequences, FiniteSets

CONSTANTS
    ReqLen,         \* units of a request
    RespLen,        \* units of a response
    IdleTimeout,    \* idle_timeout_
    MaxInput,       \* units the client may send
    MaxTime         \* bound of the clock

ASSUME TcpAssumption ==
    /\ ReqLen \in Nat \ {0}
    /\ RespLen \in Nat \ {0}
    /\ IdleTimeout \in Nat \ {0}
    /\ MaxInput \in Nat
    /\ MaxTime \in Nat

VARIABLES
    open,           \* fd_ >= 0, and its channel is registered
    interest,       \* events of the channel: "IN", "OUT"
    input,          \* units in input_buffer_
    output,         \* units in output_buffer_
    response_ready, \* response_ready_
    close_after,    \* close_after_response_
    peer_closed,    \* peer_closed_
    processing,     \* processing_request_
    generation,     \* request_generation_
    last_activity,  \* last_activity_at_
    idle_gen,       \* idle_generation_
    timers,         \* the idle checks in timer_queue_, in no order
    handlers,       \* invocations of request_handler_ still to complete
    posted,         \* finishRequest tasks in pending_tasks_
    pc,             \* phase of loop()
    batch,          \* events of epoll_wait still to dispatch
    revents,        \* what it reported for the connection
    handling,       \* callbacks Channel::handleEvent has still to make
    tasks,          \* rest of the tasks taken by handleWakeup
    cutoff,         \* the time given to runExpiredTimers
    recvq,          \* units in the socket's receive queue
    fin, rst,       \* the client has shut down, reset the connection
    writable,       \* the send buffer has room
    unsent,         \* units the client may still send
    now,            \* steady_clock
    late,           \* history: units of recvq that came after epoll_wait returned
    sent,           \* history: units accepted by the kernel
    reason,         \* history: why the connection was closed
    fate,           \* history: what became of the process
    last_busy       \* history: last time the connection was not idle

connVars == <<open, interest, input, output, response_ready, close_after,
              peer_closed, processing, generation>>
idleVars == <<last_activity, idle_gen, timers>>
workVars == <<handlers, posted>>
loopVars == <<pc, batch, revents, handling, tasks, cutoff>>
netVars  == <<recvq, late, fin, rst, writable, unsent, now>>
histVars == <<sent, reason, fate>>
vars == <<connVars, idleVars, workVars, loopVars, netVars, histVars, last_busy>>

Unit == [req : Nat, at : 1..RespLen]
Result == [id : Nat, close : BOOLEAN]
Handler == [id : Nat, again : BOOLEAN]

\* The response to the request numbered id.
Response(id) == [n \in 1..RespLen |-> [req |-> id, at |-> n]]

hasCompleteRequest(in) == in >= ReqLen

isIdle ==
    /\ input = 0
    /\ output = <<>>
    /\ ~response_ready
    /\ ~processing

TypeOK ==
    /\ open \in BOOLEAN
    /\ interest \subseteq {"IN", "OUT"}
    /\ input \in Nat
    /\ output \in Seq(Unit)
    /\ response_ready \in BOOLEAN
    /\ close_after \in BOOLEAN
    /\ peer_closed \in BOOLEAN
    /\ processing \in BOOLEAN
    /\ generation \in Nat
    /\ last_activity \in 0..MaxTime
    /\ idle_gen \in Nat
    /\ timers \in Seq([at : Nat, gen : Nat])
    /\ handlers \subseteq Handler
    /\ posted \in Seq(Result)
    /\ pc \in {"wait", "dispatch", "timers"}
    /\ batch \subseteq {"wakeup", "conn"}
    /\ revents \subseteq {"IN", "OUT", "ERR"}
    /\ handling \subseteq {"IN", "OUT"}
    /\ tasks \in Seq(Result)
    /\ cutoff \in 0..MaxTime
    /\ recvq \in Nat
    /\ late \in Nat
    /\ fin \in BOOLEAN
    /\ rst \in BOOLEAN
    /\ writable \in BOOLEAN
    /\ unsent \in 0..MaxInput
    /\ now \in 0..MaxTime
    /\ sent \in Seq(Unit)
    /\ reason \in {"none", "idle", "peer", "response", "error"}
    /\ fate \in {"running", "terminated", "sigpipe"}
    /\ last_busy \in 0..MaxTime

\* Fault: a new connection asks for EPOLLOUT as well.
Faulty_Init ==
    /\ open = TRUE
    /\ interest = {"IN", "OUT"}
    /\ input = 0 /\ output = <<>>
    /\ response_ready = FALSE /\ close_after = FALSE
    /\ peer_closed = FALSE /\ processing = FALSE /\ generation = 0
    /\ last_activity = 0 /\ idle_gen = 1
    /\ timers = <<[at |-> IdleTimeout, gen |-> 1]>>
    /\ handlers = {} /\ posted = <<>>
    /\ pc = "wait" /\ batch = {} /\ revents = {} /\ handling = {}
    /\ tasks = <<>> /\ cutoff = 0
    /\ recvq = 0 /\ late = 0 /\ fin = FALSE /\ rst = FALSE /\ writable = TRUE
    /\ unsent = MaxInput /\ now = 0
    /\ sent = <<>> /\ reason = "none" /\ fate = "running" /\ last_busy = 0

\* The state establish() leaves: reading, and one idle check scheduled.
Init ==
    /\ open = TRUE
    /\ interest = {"IN"}
    /\ input = 0
    /\ output = <<>>
    /\ response_ready = FALSE
    /\ close_after = FALSE
    /\ peer_closed = FALSE
    /\ processing = FALSE
    /\ generation = 0
    /\ last_activity = 0
    /\ idle_gen = 1
    /\ timers = <<[at |-> IdleTimeout, gen |-> 1]>>
    /\ handlers = {}
    /\ posted = <<>>
    /\ pc = "wait"
    /\ batch = {}
    /\ revents = {}
    /\ handling = {}
    /\ tasks = <<>>
    /\ cutoff = 0
    /\ recvq = 0
    /\ late = 0
    /\ fin = FALSE
    /\ rst = FALSE
    /\ writable = TRUE
    /\ unsent = MaxInput
    /\ now = 0
    /\ sent = <<>>
    /\ reason = "none"
    /\ fate = "running"
    /\ last_busy = 0

\* The parts every action shares: the process is alive, and the history variable
\* last_busy follows the connection.
Running == fate = "running"

RecordBusy == last_busy' = IF isIdle' THEN last_busy ELSE now'

--------------------------------------------------------------------------------
(* Parts of the handlers: each is the whole effect on the variables it names. *)

\* Fault: every activity sets a timer of its own.
Faulty_MarkActivityNewTimer(some) ==
    /\ last_activity' = IF some THEN now ELSE last_activity
    /\ idle_gen' = IF some THEN idle_gen + 1 ELSE idle_gen
    /\ timers' = IF some
                 THEN Append(timers, [at |-> now + IdleTimeout, gen |-> idle_gen + 1])
                 ELSE timers

\* Fault: activity does not make the scheduled check stale.
Faulty_MarkActivityKeepGen(some) ==
    /\ last_activity' = IF some THEN now ELSE last_activity
    /\ UNCHANGED <<idle_gen, timers>>

\* markActivity, when something was read or written.
MarkActivityIf(some) ==
    /\ last_activity' = IF some THEN now ELSE last_activity
    /\ idle_gen' = IF some THEN idle_gen + 1 ELSE idle_gen
    /\ UNCHANGED timers

\* close: the channel leaves the loop before the descriptor is released.
Close(why) ==
    /\ open' = FALSE
    /\ interest' = {}
    /\ reason' = why

StayOpen == UNCHANGED <<open, reason>>

\* processRequest, with in units buffered: the handler is started.
ProcessRequest(in) ==
    /\ input' = in - ReqLen
    /\ processing' = TRUE
    /\ generation' = generation + 1
    /\ handlers' = handlers \cup {[id |-> generation + 1, again |-> FALSE]}
    /\ UNCHANGED posted

NoRequest(in, proc) ==
    /\ input' = in
    /\ processing' = proc
    /\ UNCHANGED <<generation, handlers, posted>>

\* Fault: the client's FIN is looked at before the buffered requests.
Faulty_NextPipelinedFin(proc) == ~proc /\ hasCompleteRequest(input) /\ ~peer_closed

\* Fault: buffered requests wait for the next EPOLLIN.
Faulty_NextPipelinedNever(proc) == FALSE

\* A complete request is buffered and nothing is being computed.
NextPipelined(proc) == ~proc /\ hasCompleteRequest(input)

\* How a drained handleWrite ends: close, next pipelined request, or quiet.
AfterResponse(closing, proc, some) ==
    \/ /\ closing
       /\ Close("response")
       /\ NoRequest(input, proc)
       /\ MarkActivityIf(FALSE)
    \/ /\ ~closing /\ NextPipelined(proc)
       /\ StayOpen
       /\ interest' = interest \ {"OUT"}
       /\ ProcessRequest(input)
       /\ MarkActivityIf(FALSE)
    \/ /\ ~closing /\ ~NextPipelined(proc) /\ peer_closed
       /\ Close("peer")
       /\ NoRequest(input, proc)
       /\ MarkActivityIf(FALSE)
    \/ /\ ~closing /\ ~NextPipelined(proc) /\ ~peer_closed
       /\ StayOpen
       /\ interest' = interest \ {"OUT"}
       /\ NoRequest(input, proc)
       /\ MarkActivityIf(some)

\* send takes everything: the response is complete.
WriteAll(out, closing, proc) ==
    /\ open /\ ~rst
    /\ out # <<>> => writable
    /\ writable' \in IF out = <<>> THEN {writable} ELSE BOOLEAN
    /\ sent' = sent \o out
    /\ output' = <<>>
    /\ response_ready' = FALSE
    /\ close_after' = closing
    /\ AfterResponse(closing, proc, out # <<>>)
    /\ UNCHANGED fate

\* Fault: a partial write does not ask for EPOLLOUT.
Faulty_WriteSome(out, closing, ready, proc) ==
    /\ open /\ ~rst
    /\ \E n \in 0..Len(out) - 1 :
          /\ n > 0 <=> writable
          /\ sent' = sent \o SubSeq(out, 1, n)
          /\ output' = SubSeq(out, n + 1, Len(out))
          /\ MarkActivityIf(n > 0)
    /\ writable' = FALSE
    /\ response_ready' = ready
    /\ close_after' = closing
    /\ StayOpen
    /\ NoRequest(input, proc)
    /\ UNCHANGED <<interest, fate>>

\* send takes a part, then EAGAIN: wait for EPOLLOUT.
WriteSome(out, closing, ready, proc) ==
    /\ open /\ ~rst
    /\ \E n \in 0..Len(out) - 1 :
          /\ n > 0 <=> writable
          /\ sent' = sent \o SubSeq(out, 1, n)
          /\ output' = SubSeq(out, n + 1, Len(out))
          /\ MarkActivityIf(n > 0)
    /\ writable' = FALSE
    /\ interest' = interest \cup {"OUT"}
    /\ response_ready' = ready
    /\ close_after' = closing
    /\ StayOpen
    /\ NoRequest(input, proc)
    /\ UNCHANGED fate

\* send fails.  A reset after the client's FIN gives EPIPE, and without
\* MSG_NOSIGNAL the signal ends the process; any other error closes.  On a
\* connection already closed send gives EBADF and close() finds nothing to do.
WriteFails(out, closing, ready, proc) ==
    /\ out # <<>>
    /\ rst \/ ~open
    /\ output' = out
    /\ response_ready' = ready
    /\ close_after' = closing
    /\ NoRequest(input, proc)
    /\ MarkActivityIf(FALSE)
    /\ \/ ~open /\ UNCHANGED <<open, interest, reason, fate>>
       \/ open /\ fin /\ Close("error") /\ fate' = "sigpipe"
       \/ open /\ ~fin /\ Close("error") /\ UNCHANGED fate
    /\ UNCHANGED <<sent, writable>>

\* Nothing to send on a descriptor that was removed or reset: disableWriting
\* makes epoll_ctl MOD fail on a removed one, an exception nobody catches.
WriteNothing(out, closing, ready, proc) ==
    /\ out = <<>>
    /\ rst \/ ~open
    /\ IF open
       THEN /\ AfterResponse(closing, proc, FALSE)
            /\ response_ready' = FALSE
            /\ UNCHANGED fate
       ELSE /\ fate' = "terminated"
            /\ NoRequest(input, proc)
            /\ MarkActivityIf(FALSE)
            /\ response_ready' = ready
            /\ UNCHANGED <<open, interest, reason>>
    /\ output' = out
    /\ close_after' = closing
    /\ UNCHANGED <<sent, writable>>

\* handleWrite, entered with these values of the buffer and the flags.
handleWrite(out, closing, ready, proc) ==
    /\ \/ WriteAll(out, closing, proc)
       \/ WriteSome(out, closing, ready, proc)
       \/ WriteFails(out, closing, ready, proc)
       \/ WriteNothing(out, closing, ready, proc)
    /\ UNCHANGED <<peer_closed, recvq, late, fin, rst, unsent, now>>

--------------------------------------------------------------------------------
(* The phases of the loop: EventLoop::loop, dispatch, handleWakeup.          *)

Reported ==
    {e \in interest : \/ e = "IN" /\ (recvq > 0 \/ fin \/ rst)
                      \/ e = "OUT" /\ (writable \/ rst)}
    \cup (IF rst THEN {"ERR"} ELSE {})

TimerDue(t) == \E i \in DOMAIN timers : timers[i].at <= t

WaitReturns ==
    /\ Running
    /\ pc = "wait"
    /\ revents' = IF open THEN Reported ELSE {}
    /\ batch' = (IF revents' # {} THEN {"conn"} ELSE {})
                \cup (IF posted # <<>> THEN {"wakeup"} ELSE {})
    /\ batch' # {} \/ TimerDue(now)
    /\ pc' = "dispatch"
    /\ late' = 0
    /\ UNCHANGED <<connVars, idleVars, workVars, handling, tasks, cutoff, recvq, fin,
                   rst, writable, unsent, now, histVars>>
    /\ RecordBusy

\* No handler is running on the loop thread.
Dispatching == pc = "dispatch" /\ handling = {} /\ tasks = <<>>

\* handleWakeup: the tasks queued so far are taken.
DispatchWakeup ==
    /\ Running
    /\ Dispatching
    /\ "wakeup" \in batch
    /\ batch' = batch \ {"wakeup"}
    /\ tasks' = posted
    /\ posted' = <<>>
    /\ UNCHANGED <<connVars, idleVars, handlers, pc, revents, handling, cutoff,
                   netVars, histVars>>
    /\ RecordBusy

\* dispatch and Channel::handleEvent: nothing if the channel is gone, only the
\* error callback on ERR.
DispatchConn ==
    /\ Running
    /\ Dispatching
    /\ "conn" \in batch
    /\ batch' = batch \ {"conn"}
    /\ handling' = IF open /\ "ERR" \notin revents
                   THEN revents \cap {"IN", "OUT"} ELSE {}
    /\ IF open /\ "ERR" \in revents
       THEN Close("error")
       ELSE UNCHANGED <<open, interest, reason>>
    /\ UNCHANGED <<input, output, response_ready, close_after, peer_closed,
                   processing, generation, idleVars, workVars, pc, revents, tasks,
                   cutoff, netVars, sent, fate>>
    /\ RecordBusy

\* Fault: the timers run before the rest of the events.
Faulty_EndDispatch ==
    /\ Running
    /\ Dispatching
    /\ cutoff' = now
    /\ pc' = "timers"
    /\ UNCHANGED <<connVars, idleVars, workVars, batch, revents, handling, tasks,
                   netVars, histVars>>
    /\ RecordBusy

EndDispatch ==
    /\ Running
    /\ Dispatching
    /\ batch = {}
    /\ cutoff' = now
    /\ pc' = "timers"
    /\ UNCHANGED <<connVars, idleVars, workVars, batch, revents, handling, tasks,
                   netVars, histVars>>
    /\ RecordBusy

EndTimers ==
    /\ Running
    /\ pc = "timers"
    /\ ~TimerDue(cutoff)
    /\ pc' = "wait"
    /\ UNCHANGED <<connVars, idleVars, workVars, batch, revents, handling, tasks,
                   cutoff, netVars, histVars>>
    /\ RecordBusy

--------------------------------------------------------------------------------
(* The handlers of the connection.                                           *)

Reading == /\ "IN" \in handling
           /\ handling' = handling \ {"IN"}

\* Fault: a new request is started while one is being computed.
Faulty_Quiet == ~response_ready

\* No response is being computed or written.
Quiet == ~response_ready /\ ~processing

\* handleRead: recv until it would block, or returns 0 at the client's FIN.
HandleRead ==
    /\ Running
    /\ Reading
    /\ ~rst \/ fin
    /\ recvq' = 0
    /\ late' = 0
    /\ peer_closed' = (peer_closed \/ fin)
    /\ MarkActivityIf(recvq > 0)
    /\ LET in == input + recvq
       IN  \/ /\ Quiet /\ hasCompleteRequest(in)
              /\ ProcessRequest(in)
              /\ UNCHANGED <<open, interest, reason>>
           \/ /\ Quiet /\ ~hasCompleteRequest(in) /\ peer_closed'
              /\ Close("peer")
              /\ NoRequest(in, processing)
           \/ /\ ~Quiet \/ (~hasCompleteRequest(in) /\ ~peer_closed')
              /\ NoRequest(in, processing)
              /\ UNCHANGED <<open, interest, reason>>
    /\ UNCHANGED <<output, response_ready, close_after, pc, batch, revents, tasks,
                   cutoff, fin, rst, writable, unsent, now, sent, fate>>
    /\ RecordBusy

\* handleRead when recv fails.
HandleReadError ==
    /\ Running
    /\ Reading
    /\ rst
    /\ Close("error")
    /\ UNCHANGED <<input, output, response_ready, close_after, peer_closed,
                   processing, generation, idleVars, workVars, pc, batch, revents,
                   tasks, cutoff, netVars, sent, fate>>
    /\ RecordBusy

\* handleWrite, called on EPOLLOUT, even when handleRead has just closed.
HandleWrite ==
    /\ Running
    /\ "OUT" \in handling /\ "IN" \notin handling
    /\ handling' = handling \ {"OUT"}
    /\ handleWrite(output, close_after, response_ready, processing)
    /\ UNCHANGED <<pc, batch, revents, tasks, cutoff>>
    /\ RecordBusy

\* Fault: the result of an earlier request is accepted.
Faulty_Accepts(result) == open /\ processing

\* finishRequest, on the loop thread: late and repeated results are dropped.
Accepts(result) == open /\ processing /\ result.id = generation

FinishRequest ==
    /\ Running
    /\ tasks # <<>>
    /\ tasks' = Tail(tasks)
    /\ IF Accepts(Head(tasks))
       THEN handleWrite(output \o Response(Head(tasks).id), Head(tasks).close,
                        TRUE, FALSE)
       ELSE UNCHANGED <<connVars, idleVars, workVars, netVars, histVars>>
    /\ UNCHANGED <<pc, batch, revents, handling, cutoff>>
    /\ RecordBusy

\* The check that runs leaves timer_queue_ and is renewed unless it closes.
Unschedule(i) ==
    timers' = [j \in 1..Len(timers) - 1 |-> IF j < i THEN timers[j] ELSE timers[j + 1]]

\* Fault: a check that finds the connection busy is dropped, not renewed.
Faulty_Schedule(i, at) ==
    IF isIdle THEN timers' = [timers EXCEPT ![i] = [at |-> at, gen |-> idle_gen]]
              ELSE Unschedule(i)

Schedule(i, at) ==
    timers' = [timers EXCEPT ![i] = [at |-> at, gen |-> idle_gen]]

\* closeIfIdle, from runExpiredTimers.
CloseIfIdle(i) ==
    /\ Running
    /\ pc = "timers"
    /\ timers[i].at <= cutoff
    /\ \A j \in DOMAIN timers : timers[i].at <= timers[j].at
    /\ \/ /\ ~open
          /\ Unschedule(i)
          /\ UNCHANGED <<open, interest, reason>>
       \/ /\ open /\ timers[i].gen # idle_gen
          /\ Schedule(i, last_activity + IdleTimeout)
          /\ UNCHANGED <<open, interest, reason>>
       \/ /\ open /\ timers[i].gen = idle_gen /\ ~isIdle
          /\ Schedule(i, now + IdleTimeout)
          /\ UNCHANGED <<open, interest, reason>>
       \/ /\ open /\ timers[i].gen = idle_gen /\ isIdle
          /\ Unschedule(i)
          /\ Close("idle")
    /\ UNCHANGED <<input, output, response_ready, close_after, peer_closed,
                   processing, generation, last_activity, idle_gen, workVars,
                   loopVars, netVars, sent, fate>>
    /\ RecordBusy

--------------------------------------------------------------------------------
(* The worker: it calls complete() once, and once more, with a closing error *)
(* response, when the first call threw after it had queued its task.  A      *)
(* connection that is gone takes no task.                                    *)

Post(h, close) == posted' \in {Append(posted, [id |-> h.id, close |-> close])}
                              \cup (IF open THEN {} ELSE {posted})

Complete(h) ==
    /\ Running
    /\ ~h.again
    /\ \E close \in BOOLEAN : Post(h, close)
    /\ handlers' \in {handlers \ {h}, (handlers \ {h}) \cup {[h EXCEPT !.again = TRUE]}}
    /\ UNCHANGED <<connVars, idleVars, loopVars, netVars, histVars>>
    /\ RecordBusy

CompleteAgain(h) ==
    /\ Running
    /\ h.again
    /\ Post(h, TRUE)
    /\ handlers' = handlers \ {h}
    /\ UNCHANGED <<connVars, idleVars, loopVars, netVars, histVars>>
    /\ RecordBusy

--------------------------------------------------------------------------------
(* The client and the kernel.                                                *)

ClientSends(n) ==
    /\ Running
    /\ open /\ ~fin /\ ~rst
    /\ n <= unsent
    /\ recvq' = recvq + n
    /\ late' = late + n
    /\ unsent' = unsent - n
    /\ UNCHANGED <<connVars, idleVars, workVars, loopVars, fin, rst, writable, now,
                   histVars>>
    /\ RecordBusy

ClientShutsDown ==
    /\ Running
    /\ open /\ ~fin /\ ~rst
    /\ fin' = TRUE
    /\ UNCHANGED <<connVars, idleVars, workVars, loopVars, recvq, late, rst, writable,
                   unsent, now, histVars>>
    /\ RecordBusy

ClientResets ==
    /\ Running
    /\ open /\ ~rst
    /\ rst' = TRUE
    /\ UNCHANGED <<connVars, idleVars, workVars, loopVars, recvq, late, fin, writable,
                   unsent, now, histVars>>
    /\ RecordBusy

ClientReads ==
    /\ Running
    /\ open /\ ~rst /\ ~writable
    /\ writable' = TRUE
    /\ UNCHANGED <<connVars, idleVars, workVars, loopVars, recvq, late, fin, rst, unsent,
                   now, histVars>>
    /\ RecordBusy

Tick ==
    /\ Running
    /\ now < MaxTime
    /\ now' = now + 1
    /\ UNCHANGED <<connVars, idleVars, workVars, loopVars, recvq, late, fin, rst,
                   writable, unsent, histVars>>
    /\ RecordBusy

--------------------------------------------------------------------------------
LoopStep ==
    \/ WaitReturns \/ DispatchWakeup \/ DispatchConn \/ EndDispatch \/ EndTimers
    \/ HandleRead \/ HandleReadError \/ HandleWrite \/ FinishRequest
    \/ \E i \in DOMAIN timers : CloseIfIdle(i)

WorkerStep == \E h \in handlers : Complete(h)

ClientStep ==
    \/ \E n \in 1..MaxInput : ClientSends(n)
    \/ ClientShutsDown
    \/ ClientResets

Next ==
    \/ LoopStep
    \/ WorkerStep
    \/ \E h \in handlers : CompleteAgain(h)
    \/ ClientStep
    \/ ClientReads
    \/ Tick

\* The loop and the workers run, time passes, and the client reads what it is
\* sent; it need not send, shut down or reset.
Fairness ==
    /\ WF_vars(LoopStep)
    /\ WF_vars(WorkerStep)
    /\ WF_vars(ClientReads)
    /\ WF_vars(Tick)

Spec == Init /\ [][Next]_vars /\ Fairness

--------------------------------------------------------------------------------
(* Properties.                                                               *)

\* The byte that follows b on the wire: the next of the same response, or the
\* first of the next response.
NextUnit(b) == IF b.at < RespLen THEN [b EXCEPT !.at = @ + 1]
               ELSE [req |-> b.req + 1, at |-> 1]

\* Requests whose result was accepted.
Finished == IF processing THEN generation - 1 ELSE generation

Wire == sent \o output

\* The client sees the responses to requests 1, 2, ... whole and in order, with
\* pipelining, partial writes, late and repeated results (TcpConnection.cpp,
\* finishRequest, handleWrite).
ResponsesInOrder ==
    /\ \A i \in 1..Len(Wire) - 1 : Wire[i + 1] = NextUnit(Wire[i])
    /\ IF Finished = 0 THEN Wire = <<>>
       ELSE /\ Wire # <<>>
            /\ Wire[1] = [req |-> 1, at |-> 1]
            /\ Wire[Len(Wire)] = [req |-> Finished, at |-> RespLen]

\* While the connection is open EPOLLOUT is asked for exactly when output is
\* left, which is exactly when a response is being written: otherwise it would
\* stall, or spin on a writable socket (enableWriting, disableWriting).
WriteInterest ==
    open => /\ "OUT" \in interest <=> output # <<>>
            /\ response_ready <=> output # <<>>
            /\ response_ready => ~processing
            /\ "IN" \in interest

\* handleEvent may call the write callback of a connection that the read
\* callback has just closed: disableWriting never runs on the removed channel,
\* which would end the process with an exception (Channel.cpp, handleEvent).
NeverTerminated == fate # "terminated"

\* One idle check is scheduled for an open connection, never none and never two
\* (establish, closeIfIdle).
OneIdleCheck == open => Len(timers) = 1

\* A connection closed at the client's FIN owed it nothing: every complete
\* request received before the FIN has been answered in full.
HalfCloseAnswered ==
    reason = "peer" => /\ ~processing /\ ~hasCompleteRequest(input)
                       /\ output = <<>> /\ recvq = 0

\* The idle check closes only a connection that has been idle, with nothing
\* buffered and no request in progress, for the whole timeout (closeIfIdle,
\* markActivity).
IdleCloseIsDue ==
    [][reason # "idle" /\ reason' = "idle" => isIdle /\ now >= last_busy + IdleTimeout]_vars

\* Events are handled before timers, so that what arrived in time renews the
\* connection: an idle check never closes over input that epoll_wait had the
\* chance to report (EventLoop.cpp, loop).
IdleCloseMissesNothing ==
    [][reason # "idle" /\ reason' = "idle" => recvq <= late]_vars

\* The number of the last response sent in full.
LastAnswered ==
    IF sent = <<>> THEN 0
    ELSE LET b == sent[Len(sent)]
         IN  IF b.at = RespLen THEN b.req ELSE b.req - 1

\* The protocol the client sees.
RR == INSTANCE RequestResponse WITH taken <- generation, answered <- LastAnswered

\* One request at a time, each answered before the next is taken.
OneRequestAtATime == RR!Spec

\* Every complete request that has reached the server, however many came at once
\* and wherever the peer's half-close falls among them, is taken and answered, or
\* the connection is closed (handleRead, finishRequest, handleWrite).
RequestsAnswered ==
    processing \/ input + recvq >= ReqLen
        ~> (~processing /\ output = <<>> /\ input + recvq < ReqLen) \/ ~open

\* A connection that stays idle is closed: at the latest when two timeouts have
\* passed, whatever check was pending when it became idle.
IdleCloses ==
    open /\ isIdle /\ now + 2 * IdleTimeout <= MaxTime
        ~> ~open \/ ~isIdle \/ recvq > 0
================================================================================
